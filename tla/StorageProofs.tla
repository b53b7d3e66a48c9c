---------------------------- MODULE StorageProofs ----------------------------
(***************************************************************************)
(* Proofs about Storage: where the table of the data frame handler keeps   *)
(* values while pushes, reads, housekeeping and resets interleave, and     *)
(* that get_latest finds a row; and that the file of the CSV handler holds *)
(* what was written, from the proofs about CsvFileDB.                      *)
(***************************************************************************)
EXTENDS Storage, WellFoundedInduction, TLAPS

-----------------------------------------------------------------------------
(* The inductive invariants.  A value's row is counted from the last       *)
(* reset, and so is behind the rows that were dropped or in the table.     *)

Rows == [ts : Timestamps, cells : [Names -> Nat]]
Jobs == [name : Names \cup {"none"}, series : Seq(Timestamps)]

TableInv ==
  /\ _data \in Seq(Rows)
  /\ values \in Seq([name : Names, row : Nat])
  /\ \A v \in DOMAIN values : values[v].row <= made
  /\ made \in Nat /\ Len(_data) <= made
  /\ pc \in [Pushers -> {"idle", "set"}]
  /\ job \in [Pushers -> Jobs]
  /\ \A p \in Pushers : pc[p] = "set" => job[p].name \in Names

FoundInv == LatestIsFound /\ (reader = "data" /\ ~was_reset => _data # <<>>)

-----------------------------------------------------------------------------
(* What a step does to the table *)

Stays == UNCHANGED <<_data, made, values>>
Sets(ts, n) ==
  /\ _data' = WithValue(ts, n, Len(values) + 1)
  /\ values' = Append(values, [name |-> n, row |-> Dropped + Place(ts)])
  /\ made' = IF Place(ts) > Len(_data) THEN made + 1 ELSE made
Drops(k) == _data' = SubSeq(_data, k + 1, Len(_data)) /\ UNCHANGED <<made, values>>
LeavesEnough(k) ==
  Len(_data) - k = IF Len(_data) <= keep_data_rows THEN Len(_data) ELSE keep_data_rows
Fills == _data' = Filled(_data) /\ UNCHANGED <<made, values>>
Empties == _data' = <<>> /\ made' = 0 /\ values' = <<>>

\* The greatest element of a set of numbers that a number bounds, and that is
\* there if the set has an element.
LEMMA MaxOfTwo ==
  ASSUME NEW a \in Int, NEW b \in Int
  PROVE  Max({a, b}) = IF a >= b THEN a ELSE b
<1>1. \E x \in {a, b} : \A y \in {a, b} : x >= y
  OBVIOUS
<1>2. Max({a, b}) \in {a, b} /\ \A y \in {a, b} : Max({a, b}) >= y
  BY <1>1, Zenon DEF Max
<1> QED
  BY <1>2

LEMMA MinOfTwo ==
  ASSUME NEW a \in Int, NEW b \in Int
  PROVE  Min({a, b}) = IF a <= b THEN a ELSE b
<1>1. \E x \in {a, b} : \A y \in {a, b} : x <= y
  OBVIOUS
<1>2. Min({a, b}) \in {a, b} /\ \A y \in {a, b} : Min({a, b}) <= y
  BY <1>1, Zenon DEF Min
<1> QED
  BY <1>2

\* Housekeeping drops the rows before the last keep_data_rows.
LEMMA Surplus ==
  ASSUME TableInv, NEW p, Housekeeping(p)
  PROVE  \E k \in 0..Len(_data) : Drops(k) /\ LeavesEnough(k)
<1>1. Len(_data) \in Nat /\ keep_data_rows \in Nat \ {0}
  BY DFAssumption DEF TableInv
<1>2. Max({1, Len(_data) - keep_data_rows + 1})
        = IF Len(_data) <= keep_data_rows THEN 1 ELSE Len(_data) - keep_data_rows + 1
  BY <1>1, MaxOfTwo
<1> DEFINE k == IF Len(_data) <= keep_data_rows THEN 0 ELSE Len(_data) - keep_data_rows
<1>3. k \in 0..Len(_data) /\ k + 1 = Max({1, Len(_data) - keep_data_rows + 1})
  BY <1>1, <1>2
<1>4. Drops(k)
  BY <1>3 DEF Housekeeping, Drops
<1>5. LeavesEnough(k)
  BY <1>1 DEF LeavesEnough
<1> QED
  BY <1>3, <1>4, <1>5

\* Every step of the specification is one of these.
LEMMA Shapes ==
  ASSUME TableInv, [Next]_vars
  PROVE  \/ Stays
         \/ \E ts \in Timestamps, n \in Names : Sets(ts, n)
         \/ \E k \in 0..Len(_data) : Drops(k) /\ LeavesEnough(k)
         \/ Fills
         \/ Empties
<1>1. ASSUME NEW p \in Pushers, SetValue(p)
      PROVE  \E ts \in Timestamps, n \in Names : Sets(ts, n)
  <2>1. Head(job[p].series) \in Timestamps /\ job[p].name \in Names
    BY <1>1 DEF SetValue, TableInv, Jobs
  <2>2. Sets(Head(job[p].series), job[p].name)
    BY <1>1 DEF SetValue, Sets
  <2> QED
    BY <2>1, <2>2
<1>2. ASSUME NEW p \in Pushers, Housekeeping(p)
      PROVE  \E k \in 0..Len(_data) : Drops(k) /\ LeavesEnough(k)
  BY <1>2, Surplus
<1>3. CASE Data \/ GetLatestRow
  BY <1>3 DEF Data, GetLatestRow, _data_read, Stays, Fills
<1>4. CASE \/ \E p \in Pushers, n \in Names, k \in 1..MaxSeries :
                \E series \in [1..k -> Timestamps] : Push(p, n, series)
           \/ GetLatest \/ UNCHANGED vars
  BY <1>4 DEF Push, GetLatest, vars, Stays
<1>5. CASE reset
  BY <1>5 DEF reset, Empties
<1> QED
  BY <1>1, <1>2, <1>3, <1>4, <1>5 DEF Next

\* Where the row of a timestamp is.
LEMMA PlaceType ==
  ASSUME TableInv, NEW ts
  PROVE  Place(ts) \in 1..(Len(_data) + 1)
<1>1. Len(_data) \in Nat /\ DOMAIN _data = 1..Len(_data)
  BY DEF TableInv
<1>2. CASE \E i \in DOMAIN _data : _data[i].ts = ts
  BY <1>1, <1>2 DEF Place
<1>3. CASE ~ \E i \in DOMAIN _data : _data[i].ts = ts
  BY <1>1, <1>3 DEF Place
<1> QED
  BY <1>2, <1>3

\* Setting a value leaves the other cells alone.
LEMMA SetsCells ==
  ASSUME TableInv, NEW ts \in Timestamps, NEW n \in Names, Sets(ts, n)
  PROVE  /\ _data' \in Seq(Rows)
         /\ Len(_data') = IF Place(ts) > Len(_data) THEN Len(_data) + 1 ELSE Len(_data)
         /\ \A i \in DOMAIN _data', m \in Names :
              _data'[i].cells[m] =
                IF i = Place(ts) /\ m = n THEN Len(values) + 1
                ELSE IF i \in DOMAIN _data THEN _data[i].cells[m] ELSE Fill
<1>1. /\ Len(_data) \in Nat /\ DOMAIN _data = 1..Len(_data) /\ Len(values) + 1 \in Nat
      /\ Place(ts) \in 1..(Len(_data) + 1)
  BY PlaceType DEF TableInv
<1>2. CASE Place(ts) <= Len(_data)
  <2> DEFINE i0 == Place(ts)
             row == [_data[i0] EXCEPT !.cells = [_data[i0].cells EXCEPT ![n] = Len(values) + 1]]
  <2>1. i0 \in DOMAIN _data /\ _data[i0] \in Rows
    BY <1>1, <1>2 DEF TableInv
  <2>2. _data' = [_data EXCEPT ![i0] = row]
    BY <1>2 DEF Sets, WithValue
  <2>3. row \in Rows
    BY <1>1, <2>1 DEF Rows
  <2>4. _data' \in Seq(Rows) /\ Len(_data') = Len(_data)
    BY <2>1, <2>2, <2>3 DEF TableInv
  <2>5. \A i \in DOMAIN _data : _data'[i] = IF i = i0 THEN row ELSE _data[i]
    BY <2>2, <1>1 DEF TableInv
  <2>6. \A m \in Names : row.cells[m] = IF m = n THEN Len(values) + 1 ELSE _data[i0].cells[m]
    BY <2>1 DEF Rows
  <2>7. ASSUME NEW i \in DOMAIN _data, NEW m \in Names
        PROVE  _data'[i].cells[m] =
                 IF i = i0 /\ m = n THEN Len(values) + 1 ELSE _data[i].cells[m]
    BY <2>5, <2>6
  <2> HIDE DEF row
  <2>8. DOMAIN _data' = DOMAIN _data
    BY <1>1, <2>4
  <2> HIDE DEF i0
  <2>9. \A i \in DOMAIN _data', m \in Names :
          _data'[i].cells[m] = IF i = i0 /\ m = n THEN Len(values) + 1
                               ELSE IF i \in DOMAIN _data THEN _data[i].cells[m] ELSE Fill
    BY <2>7, <2>8
  <2>10. i0 = Place(ts)
    BY DEF i0
  <2>11. \A i \in DOMAIN _data', m \in Names :
           _data'[i].cells[m] = IF i = Place(ts) /\ m = n THEN Len(values) + 1
                                ELSE IF i \in DOMAIN _data THEN _data[i].cells[m] ELSE Fill
    BY <2>9, <2>10, Zenon
  <2>12. ~ (Place(ts) > Len(_data))
    BY <1>1, <1>2
  <2> QED
    BY <2>4, <2>11, <2>12, Zenon
<1>3. CASE Place(ts) = Len(_data) + 1
  <2> DEFINE row == [ts |-> ts, cells |-> [NoRow EXCEPT ![n] = Len(values) + 1]]
  <2>1. row \in Rows
    BY <1>1 DEF Rows, NoRow, Fill
  <2>2. _data' = Append(_data, row)
    BY <1>1, <1>3 DEF Sets, WithValue
  <2>3. _data' \in Seq(Rows) /\ Len(_data') = Len(_data) + 1
    BY <2>1, <2>2 DEF TableInv
  <2>4. \A i \in DOMAIN _data' : _data'[i] = IF i = Len(_data) + 1 THEN row ELSE _data[i]
    BY <2>1, <2>2 DEF TableInv
  <2>5. \A m \in Names : row.cells[m] = IF m = n THEN Len(values) + 1 ELSE Fill
    BY DEF NoRow
  <2> HIDE DEF row
  <2> QED
    BY <1>1, <1>3, <2>3, <2>4, <2>5
<1> QED
  BY <1>1, <1>2, <1>3

\* What is left after some rows were dropped.
LEMMA DropsRows ==
  ASSUME TableInv, NEW k \in 0..Len(_data), Drops(k)
  PROVE  /\ _data' \in Seq(Rows)
         /\ Len(_data') = Len(_data) - k
         /\ \A i \in DOMAIN _data' : _data'[i] = _data[i + k]
BY DEF TableInv, Drops

\* A set of numbers has a least element, and one that is bounded a greatest.
LEMMA HasLeast ==
  ASSUME NEW T \in SUBSET Nat, T # {}
  PROVE  \E d \in T : \A e \in T : d <= e
<1> DEFINE R == OpToRel(<, Nat)
<1>1. \A y, x \in Nat : y < x => <<y, x>> \in R
  BY DEF OpToRel
<1>2. IsWellFoundedOn(R, Nat)
  BY NatLessThanWellFounded
<1> HIDE DEF R
<1>3. PICK d \in T : \A e \in T : ~ (<<e, d>> \in R)
  BY <1>2, WFMin, Zenon
<1>4. \A e \in T : ~ (e < d)
  BY <1>1, <1>3, Zenon
<1> HIDE DEF R
<1>5. d \in Nat /\ \A e \in T : e \in Nat
  OBVIOUS
<1> QED
  BY <1>4, <1>5

LEMMA HasGreatest ==
  ASSUME NEW i \in Nat, NEW S \in SUBSET (1..i), S # {}
  PROVE  Max(S) \in S /\ (i \in S => Max(S) = i)
<1> DEFINE T == {i - j : j \in S}
<1>a. \A y \in S : y \in Nat /\ y <= i
  OBVIOUS
<1>1. T \in SUBSET Nat /\ T # {}
  BY <1>a
<1>2. PICK d \in T : \A e \in T : d <= e
  BY <1>1, HasLeast
<1>3. PICK x \in S : d = i - x
  BY <1>2
<1>4. \A y \in S : x >= y
  <2> SUFFICES ASSUME NEW y \in S PROVE x >= y
    OBVIOUS
  <2>1. i - y \in T
    OBVIOUS
  <2>2. i - x <= i - y
    BY <1>2, <1>3, <2>1
  <2>3. x \in Nat /\ y \in Nat
    BY <1>a
  <2> HIDE DEF T
  <2> QED
    BY <2>2, <2>3
<1>5. Max(S) \in S /\ \A y \in S : Max(S) >= y
  BY <1>3, <1>4, Zenon DEF Max
<1>6. Max(S) \in Nat /\ Max(S) <= i
  BY <1>a, <1>5
<1> QED
  BY <1>5, <1>6

\* Filling keeps what is there, and takes the rest from the rows above.
LEMMA FillsCells ==
  ASSUME TableInv, Fills
  PROVE  /\ _data' \in Seq(Rows)
         /\ Len(_data') = Len(_data)
         /\ \A i \in DOMAIN _data, n \in Names :
              /\ _data[i].cells[n] # Fill => _data'[i].cells[n] = _data[i].cells[n]
              /\ _data'[i].cells[n] # Fill =>
                   \E j \in 1..i : _data'[i].cells[n] = _data[j].cells[n]
<1> DEFINE above(i, n) == {j \in 1..i : _data[j].cells[n] # Fill}
           cell(i, n) == IF above(i, n) = {} THEN Fill ELSE _data[Max(above(i, n))].cells[n]
           cells(i) == [n \in Names |-> cell(i, n)]
<1>1. _data' = [i \in DOMAIN _data |-> [_data[i] EXCEPT !.cells = cells(i)]]
  BY DEF Fills, Filled
<1>2. Len(_data) \in Nat /\ DOMAIN _data = 1..Len(_data)
  BY DEF TableInv
<1>3. \A i \in DOMAIN _data, n \in Names : _data[i] \in Rows /\ _data[i].cells[n] \in Nat
  <2>1. \A i \in DOMAIN _data : _data[i] \in Rows
    BY DEF TableInv
  <2>2. \A r \in Rows, n \in Names : r.cells[n] \in Nat
    BY DEF Rows
  <2> QED
    BY <2>1, <2>2
<1>4. ASSUME NEW i \in DOMAIN _data, NEW n \in Names
      PROVE  /\ cell(i, n) \in Nat
             /\ _data[i].cells[n] # Fill => cell(i, n) = _data[i].cells[n]
             /\ cell(i, n) # Fill => \E j \in 1..i : cell(i, n) = _data[j].cells[n]
  <2>1. CASE above(i, n) = {}
    BY <1>2, <2>1 DEF Fill
  <2>2. CASE above(i, n) # {}
    <3>1. above(i, n) \in SUBSET (1..i) /\ i \in Nat
      BY <1>2
    <3>2. _data[i].cells[n] # Fill => i \in above(i, n)
      BY <1>2
    <3>3. cell(i, n) = _data[Max(above(i, n))].cells[n]
      BY <2>2
    <3> HIDE DEF above, cell
    <3>4. Max(above(i, n)) \in above(i, n) /\ (i \in above(i, n) => Max(above(i, n)) = i)
      BY <2>2, <3>1, HasGreatest
    <3>5. PICK j \in 1..i : j = Max(above(i, n))
      BY <3>1, <3>4
    <3>6. _data[j].cells[n] \in Nat
      BY <1>2, <1>3, <3>5
    <3> QED
      BY <3>2, <3>3, <3>4, <3>5, <3>6
  <2> QED
    BY <2>1, <2>2
<1> HIDE DEF cell
<1>5. \A i \in DOMAIN _data : cells(i) \in [Names -> Nat]
  BY <1>4
<1>6. \A i \in DOMAIN _data : _data'[i] = [_data[i] EXCEPT !.cells = cells(i)]
  BY <1>1
<1>7. ASSUME NEW i \in DOMAIN _data
      PROVE  _data'[i] \in Rows /\ _data'[i].cells = cells(i)
  <2>1. cells(i) \in [Names -> Nat]
    BY <1>5
  <2> HIDE DEF cells
  <2>2. _data[i] \in Rows
    BY DEF TableInv
  <2>3. \A r \in Rows, c \in [Names -> Nat] :
          [r EXCEPT !.cells = c] \in Rows /\ [r EXCEPT !.cells = c].cells = c
    BY DEF Rows
  <2>4. _data'[i] = [_data[i] EXCEPT !.cells = cells(i)]
    BY <1>6, Zenon
  <2> QED
    BY <2>1, <2>2, <2>3, <2>4, Zenon
<1>8. \A i \in DOMAIN _data, n \in Names : _data'[i].cells[n] = cell(i, n)
  BY <1>7
<1>9. _data' \in Seq(Rows) /\ Len(_data') = Len(_data)
  <2> HIDE DEF cells
  <2>1. DOMAIN _data' = 1..Len(_data)
    BY <1>1, <1>2
  <2>2. _data' \in [1..Len(_data) -> Rows]
    BY <1>1, <1>2, <1>7, <2>1
  <2> QED
    BY <1>2, <2>2
<1> QED
  BY <1>4, <1>8, <1>9

-----------------------------------------------------------------------------
(* The table *)

LEMMA ValueTypes ==
  ASSUME TableInv, NEW v \in DOMAIN values
  PROVE  /\ values[v].row \in Nat /\ values[v].name \in Names
         /\ values[v] = [name |-> values[v].name, row |-> values[v].row]
<1> DEFINE R == [name : Names, row : Nat]
<1>1. values \in Seq(R)
  BY DEF TableInv
<1>2. \A r \in R : r.row \in Nat /\ r.name \in Names /\ r = [name |-> r.name, row |-> r.row]
  OBVIOUS
<1> HIDE DEF R
<1>3. values[v] \in R
  BY <1>1
<1> QED
  BY <1>2, <1>3

\* Every step leaves the types and the row numbers of TableInv, and counts the
\* rows that are gone.
LEMMA TableSteps ==
  ASSUME TableInv, [Next]_vars
  PROVE  TableInv'
<1>1. /\ Len(_data) \in Nat /\ made \in Nat /\ Len(_data) <= made
      /\ DOMAIN values = 1..Len(values) /\ Len(values) \in Nat
      /\ values \in Seq([name : Names, row : Nat])
  BY DEF TableInv
<1> DEFINE RowsAfter ==
             /\ _data' \in Seq(Rows)
             /\ values' \in Seq([name : Names, row : Nat])
             /\ \A v \in DOMAIN values' : values'[v].row <= made'
             /\ made' \in Nat /\ Len(_data') <= made'
           JobsAfter ==
             /\ pc' \in [Pushers -> {"idle", "set"}]
             /\ job' \in [Pushers -> Jobs]
             /\ \A p \in Pushers : pc'[p] = "set" => job'[p].name \in Names
<1>2. RowsAfter
  <2>1. CASE Stays
    BY <2>1 DEF Stays, TableInv
  <2>2. ASSUME NEW ts \in Timestamps, NEW n \in Names, Sets(ts, n)
        PROVE  RowsAfter
    <3>1. /\ _data' \in Seq(Rows)
          /\ Len(_data') = IF Place(ts) > Len(_data) THEN Len(_data) + 1 ELSE Len(_data)
      BY <2>2, SetsCells
    <3>2. Place(ts) \in 1..(Len(_data) + 1)
      BY PlaceType
    <3> DEFINE v == [name |-> n, row |-> Dropped + Place(ts)]
    <3>3. v \in [name : Names, row : Nat] /\ v.row <= made'
      BY <1>1, <2>2, <3>2 DEF Dropped, Sets
    <3>4. values' = Append(values, v) /\ made' \in Nat /\ made <= made'
      BY <1>1, <2>2 DEF Sets
    <3> HIDE DEF v
    <3>5. /\ values' \in Seq([name : Names, row : Nat])
          /\ \A w \in DOMAIN values' : values'[w] = v \/ (w \in DOMAIN values /\ values'[w] = values[w])
      BY <1>1, <3>3, <3>4
    <3>6. \A w \in DOMAIN values : values[w].row \in Nat /\ values[w].row <= made
      BY <1>1, ValueTypes DEF TableInv
    <3>7. \A w \in DOMAIN values' : values'[w].row <= made'
      BY <1>1, <3>3, <3>4, <3>5, <3>6
    <3>8. Len(_data') <= made'
      BY <1>1, <2>2, <3>1, <3>2 DEF Sets
    <3> QED
      BY <3>1, <3>4, <3>5, <3>7, <3>8
  <2>3. ASSUME NEW k \in 0..Len(_data), Drops(k) PROVE RowsAfter
    BY <1>1, <2>3, DropsRows DEF Drops, TableInv
  <2>4. CASE Fills
    BY <2>4, FillsCells DEF Fills, TableInv
  <2>5. CASE Empties
    BY <2>5 DEF Empties
  <2> QED
    BY <2>1, <2>2, <2>3, <2>4, <2>5, Shapes
<1>3. JobsAfter
  <2>1. ASSUME NEW p \in Pushers, NEW n \in Names, NEW k \in 1..MaxSeries,
               NEW series \in [1..k -> Timestamps], Push(p, n, series)
        PROVE  JobsAfter
    <3>1. series \in Seq(Timestamps)
      BY DFAssumption
    <3>2. [name |-> n, series |-> series] \in Jobs
      BY <3>1 DEF Jobs
    <3> QED
      BY <2>1, <3>2 DEF Push, TableInv
  <2>2. ASSUME NEW p \in Pushers, SetValue(p) PROVE JobsAfter
    <3>1. /\ job[p] \in Jobs /\ job[p].name \in Names /\ job[p].series # <<>>
          /\ job' = [job EXCEPT ![p].series = Tail(@)] /\ pc' = pc
      BY <2>2 DEF SetValue, TableInv
    <3>2. Tail(job[p].series) \in Seq(Timestamps)
      BY <3>1 DEF Jobs
    <3>3. /\ [job[p] EXCEPT !.series = Tail(@)] \in Jobs
          /\ [job[p] EXCEPT !.series = Tail(@)].name = job[p].name
      BY <3>1, <3>2 DEF Jobs
    <3> QED
      BY <3>1, <3>3 DEF TableInv
  <2>3. ASSUME NEW p \in Pushers, Housekeeping(p) PROVE JobsAfter
    BY <2>3 DEF Housekeeping, TableInv
  <2>4. CASE Data \/ GetLatest \/ GetLatestRow \/ reset \/ UNCHANGED vars
    BY <2>4 DEF Data, GetLatest, GetLatestRow, reset, vars, pushVars, TableInv
  <2> QED
    BY <2>1, <2>2, <2>3, <2>4 DEF Next
<1> QED
  BY <1>2, <1>3 DEF TableInv

LEMMA TableStarts ==
  ASSUME Init PROVE TableInv
BY DEF Init, TableInv, Jobs

\* How many rows have been dropped after a step.
LEMMA DroppedAfter ==
  ASSUME TableInv
  PROVE  /\ Stays => Dropped' = Dropped
         /\ \A ts \in Timestamps, n \in Names : Sets(ts, n) => Dropped' = Dropped
         /\ \A k \in 0..Len(_data) : Drops(k) => Dropped' = Dropped + k
         /\ Fills => Dropped' = Dropped
<1>1. Len(_data) \in Nat /\ made \in Nat
  BY DEF TableInv
<1>2. Stays => Dropped' = Dropped
  BY DEF Stays, Dropped
<1>3. ASSUME NEW ts \in Timestamps, NEW n \in Names, Sets(ts, n) PROVE Dropped' = Dropped
  <2>1. Len(_data') = IF Place(ts) > Len(_data) THEN Len(_data) + 1 ELSE Len(_data)
    BY <1>3, SetsCells
  <2>2. made' = IF Place(ts) > Len(_data) THEN made + 1 ELSE made
    BY <1>3 DEF Sets
  <2> QED
    BY <1>1, <2>1, <2>2 DEF Dropped
<1>4. ASSUME NEW k \in 0..Len(_data), Drops(k) PROVE Dropped' = Dropped + k
  <2>1. Len(_data') = Len(_data) - k
    BY <1>4, DropsRows
  <2>2. made' = made
    BY <1>4 DEF Drops
  <2> QED
    BY <1>1, <2>1, <2>2 DEF Dropped
<1>5. ASSUME Fills PROVE Dropped' = Dropped
  BY <1>1, <1>5, FillsCells DEF Dropped, Fills
<1> QED
  BY <1>2, <1>3, <1>4, <1>5

-----------------------------------------------------------------------------
(* The rows *)

\* Whatever pushes and resets overlap, housekeeping leaves the last
\* keep_data_rows rows that were made, and no others once every push is done.
THEOREM DFRowsAreKept == Spec => []RowsAreKept
<1> DEFINE Enough == Len(_data) >= made \/ Len(_data) >= keep_data_rows
           Short == Done => Len(_data) <= keep_data_rows
<1>1. ASSUME TableInv PROVE RowsAreKept <=> Enough /\ Short
  <2>1. made \in Int /\ keep_data_rows \in Int /\ Len(_data) \in Int
    BY <1>1, DFAssumption DEF TableInv
  <2> QED
    BY <2>1, MinOfTwo DEF RowsAreKept
<1>2. Init => TableInv /\ Enough /\ Short
  <2> SUFFICES ASSUME Init PROVE TableInv /\ Enough /\ Short
    OBVIOUS
  <2>1. Len(_data) = 0 /\ made = 0
    BY DEF Init
  <2> QED
    BY <2>1, DFAssumption, TableStarts
<1>3. ASSUME TableInv, Enough, [Next]_vars PROVE Enough'
  <2>1. Len(_data) \in Nat /\ made \in Nat /\ keep_data_rows \in Nat \ {0}
    BY <1>3, DFAssumption DEF TableInv
  <2>2. CASE Stays
    BY <1>3, <2>2 DEF Stays
  <2>3. ASSUME NEW ts \in Timestamps, NEW n \in Names, Sets(ts, n) PROVE Enough'
    <3>1. Len(_data') = IF Place(ts) > Len(_data) THEN Len(_data) + 1 ELSE Len(_data)
      BY <1>3, <2>3, SetsCells
    <3>2. made' = IF Place(ts) > Len(_data) THEN made + 1 ELSE made
      BY <2>3 DEF Sets
    <3> QED
      BY <1>3, <2>1, <3>1, <3>2
  <2>4. ASSUME NEW k \in 0..Len(_data), Drops(k), LeavesEnough(k) PROVE Enough'
    BY <1>3, <2>1, <2>4, DropsRows DEF LeavesEnough, Drops
  <2>5. CASE Fills
    BY <1>3, <2>5, FillsCells DEF Fills
  <2>6. CASE Empties
    BY <2>6 DEF Empties
  <2> QED
    BY <1>3, <2>2, <2>3, <2>4, <2>5, <2>6, Shapes
<1>4. ASSUME TableInv, Short, [Next]_vars PROVE Short'
  <2>1. Len(_data) \in Nat /\ keep_data_rows \in Nat \ {0}
    BY <1>4, DFAssumption DEF TableInv
  <2>2. ASSUME NEW p \in Pushers, SetValue(p) PROVE ~Done'
    BY <2>2 DEF SetValue, Done
  <2>3. ASSUME NEW p \in Pushers, NEW n \in Names, NEW k \in 1..MaxSeries,
               NEW series \in [1..k -> Timestamps], Push(p, n, series)
        PROVE  ~Done'
    BY <1>4, <2>3 DEF Push, Done, TableInv
  <2>4. ASSUME NEW p \in Pushers, Housekeeping(p) PROVE Len(_data') <= keep_data_rows
    <3>1. PICK k \in 0..Len(_data) : Drops(k) /\ LeavesEnough(k)
      BY <1>4, <2>4, Surplus
    <3>2. Len(_data') = Len(_data) - k
      BY <1>4, <3>1, DropsRows
    <3> QED
      BY <2>1, <3>1, <3>2 DEF LeavesEnough
  <2>5. CASE Data \/ GetLatestRow
    <3>1. Len(_data') = Len(_data)
      BY <1>4, <2>5, FillsCells DEF Data, GetLatestRow, _data_read, Fills
    <3>2. pc' = pc
      BY <2>5 DEF Data, GetLatestRow, pushVars
    <3> QED
      BY <1>4, <3>1, <3>2 DEF Done
  <2>6. CASE GetLatest \/ UNCHANGED vars
    BY <1>4, <2>6 DEF GetLatest, vars, pushVars, Done
  <2>7. CASE reset
    <3>1. Len(_data') = 0
      BY <2>7 DEF reset
    <3> QED
      BY <2>1, <3>1
  <2> QED
    BY <1>4, <2>2, <2>3, <2>4, <2>5, <2>6, <2>7 DEF Next
<1>5. TableInv /\ Enough /\ Short /\ [Next]_vars => TableInv' /\ Enough' /\ Short'
  BY <1>3, <1>4, TableSteps
<1>6. TableInv /\ Enough /\ Short => RowsAreKept
  BY <1>1
<1> QED
  <2> HIDE DEF Enough, Short
  <2> QED
    BY <1>2, <1>5, <1>6, PTL DEF Spec

-----------------------------------------------------------------------------
(* The values *)

LEMMA ValuesStaySteps ==
  ASSUME TableInv, ValuesStay, [Next]_vars
  PROVE  ValuesStay'
<1>1. /\ Len(_data) \in Nat /\ made \in Nat /\ Len(_data) <= made
      /\ DOMAIN values = 1..Len(values) /\ Len(values) \in Nat
      /\ DOMAIN _data = 1..Len(_data) /\ Dropped \in Nat
  BY DEF TableInv, Dropped
<1>2. ASSUME NEW v \in DOMAIN values, values[v].row > Dropped
      PROVE  values[v].row - Dropped \in DOMAIN _data
  <2>1. values[v].row \in Nat /\ values[v].row <= made
    BY ValueTypes DEF TableInv
  <2> QED
    BY <1>1, <1>2, <2>1 DEF Dropped
<1>3. ASSUME values' = values, Dropped' = Dropped,
             \A i \in DOMAIN _data, n \in Names :
               _data[i].cells[n] # Fill => _data'[i].cells[n] = _data[i].cells[n]
      PROVE  ValuesStay'
  <2> SUFFICES ASSUME NEW v \in DOMAIN values, values[v].row > Dropped, ~Superseded(v)
               PROVE  _data'[values[v].row - Dropped].cells[values[v].name] = v
    BY <1>3 DEF ValuesStay, Superseded
  <2>1. _data[values[v].row - Dropped].cells[values[v].name] = v
    BY DEF ValuesStay
  <2>2. v # Fill
    BY <1>1 DEF Fill
  <2> QED
    BY <1>2, <1>3, <2>1, <2>2, ValueTypes
<1>4. CASE Stays
  BY <1>3, <1>4, DroppedAfter DEF Stays
<1>5. ASSUME NEW ts \in Timestamps, NEW n \in Names, Sets(ts, n) PROVE ValuesStay'
  <2>1. Dropped' = Dropped /\ Place(ts) \in 1..(Len(_data) + 1)
    BY <1>5, DroppedAfter, PlaceType
  <2> DEFINE w == [name |-> n, row |-> Dropped + Place(ts)]
  <2>2. /\ DOMAIN values' = 1..(Len(values) + 1) /\ Len(values') = Len(values) + 1
        /\ values'[Len(values) + 1] = w
        /\ \A v \in DOMAIN values : values'[v] = values[v]
    BY <1>1, <1>5 DEF Sets, TableInv
  <2>3. /\ DOMAIN _data' = IF Place(ts) > Len(_data) THEN 1..(Len(_data) + 1) ELSE DOMAIN _data
        /\ \A i \in DOMAIN _data', m \in Names :
             _data'[i].cells[m] =
               IF i = Place(ts) /\ m = n THEN Len(values) + 1
               ELSE IF i \in DOMAIN _data THEN _data[i].cells[m] ELSE Fill
    <3>1. /\ _data' \in Seq(Rows)
          /\ Len(_data') = IF Place(ts) > Len(_data) THEN Len(_data) + 1 ELSE Len(_data)
      BY <1>5, SetsCells
    <3>2. DOMAIN _data' = 1..Len(_data')
      BY <3>1
    <3>3. DOMAIN _data' = IF Place(ts) > Len(_data) THEN 1..(Len(_data) + 1) ELSE DOMAIN _data
      BY <1>1, <3>1, <3>2
    <3> QED
      BY <1>5, <3>3, SetsCells
  <2>4. SUFFICES ASSUME NEW v \in DOMAIN values', values'[v].row > Dropped,
                        ~ \E u \in (v + 1)..Len(values') : values'[u] = values'[v]
                 PROVE  _data'[values'[v].row - Dropped].cells[values'[v].name] = v
    BY <2>1 DEF ValuesStay, Superseded
  <2>5. CASE v = Len(values) + 1
    <3>1. values'[v].row - Dropped = Place(ts) /\ values'[v].name = n
      BY <1>1, <2>1, <2>2, <2>5
    <3>2. Place(ts) \in DOMAIN _data'
      BY <1>1, <2>1, <2>3
    <3> QED
      BY <2>3, <2>5, <3>1, <3>2
  <2>6. CASE v # Len(values) + 1
    <3>1. v \in DOMAIN values /\ v \in Nat /\ values'[v] = values[v]
      BY <1>1, <2>2, <2>4, <2>6
    <3>2. w # values[v]
      BY <1>1, <2>2, <2>4, <3>1
    <3>3. ~Superseded(v)
      BY <1>1, <2>2, <2>4, <3>1 DEF Superseded
    <3> DEFINE i == values[v].row - Dropped
               m == values[v].name
    <3>4. i \in DOMAIN _data /\ m \in Names
      BY <1>2, <2>4, <3>1, ValueTypes
    <3>5. _data[i].cells[m] = v
      BY <2>4, <3>1, <3>3 DEF ValuesStay
    <3>6. ~ (i = Place(ts) /\ m = n)
      <4>1. values[v] = [name |-> m, row |-> values[v].row] /\ values[v].row \in Nat
        BY <3>1, ValueTypes
      <4> QED
        BY <1>1, <2>1, <3>2, <4>1
    <3>7. i \in DOMAIN _data'
      BY <1>1, <2>1, <2>3, <3>4
    <3> HIDE DEF i, m
    <3>8. _data'[i].cells[m] = v
      BY <2>3, <3>4, <3>5, <3>6, <3>7
    <3> QED
      BY <3>1, <3>8 DEF i, m
  <2> QED
    BY <2>5, <2>6
<1>6. ASSUME NEW k \in 0..Len(_data), Drops(k) PROVE ValuesStay'
  <2>1. Dropped' = Dropped + k /\ values' = values
    BY <1>6, DroppedAfter DEF Drops
  <2>2. /\ DOMAIN _data' = 1..(Len(_data) - k)
        /\ \A i \in DOMAIN _data' : _data'[i] = _data[i + k]
    <3>1. /\ _data' \in Seq(Rows) /\ Len(_data') = Len(_data) - k
          /\ \A i \in DOMAIN _data' : _data'[i] = _data[i + k]
      BY <1>6, DropsRows
    <3> QED
      BY <3>1
  <2>3. SUFFICES ASSUME NEW v \in DOMAIN values, values[v].row > Dropped + k, ~Superseded(v)
                 PROVE  _data'[values[v].row - (Dropped + k)].cells[values[v].name] = v
    BY <2>1 DEF ValuesStay, Superseded
  <2>4. values[v].row \in Nat /\ values[v].row - Dropped \in 1..Len(_data)
    BY <1>1, <1>2, <2>3, ValueTypes
  <2>5. _data[values[v].row - Dropped].cells[values[v].name] = v
    BY <1>1, <2>3, <2>4 DEF ValuesStay
  <2>6. /\ values[v].row - (Dropped + k) \in 1..(Len(_data) - k)
        /\ values[v].row - (Dropped + k) + k = values[v].row - Dropped
    BY <1>1, <2>3, <2>4
  <2> QED
    BY <2>2, <2>5, <2>6
<1>7. CASE Fills
  <2>1. values' = values /\ Dropped' = Dropped
    BY <1>7, DroppedAfter DEF Fills
  <2> QED
    BY <1>3, <1>7, <2>1, FillsCells
<1>8. CASE Empties
  BY <1>8 DEF Empties, ValuesStay
<1> QED
  BY <1>4, <1>5, <1>6, <1>7, <1>8, Shapes

\* A value pushed stays in its cell until one is set after it in the same cell
\* or its row is dropped: pushes to other columns, a late value that makes a new
\* row, and the filling of missing values leave it.
THEOREM DFValuesStay == Spec => []ValuesStay
<1>1. Init => TableInv /\ ValuesStay
  <2> SUFFICES ASSUME Init PROVE ValuesStay
    BY TableStarts
  <2>1. DOMAIN values = {}
    BY DEF Init
  <2> QED
    BY <2>1 DEF ValuesStay
<1>2. TableInv /\ ValuesStay /\ [Next]_vars => TableInv' /\ ValuesStay'
  BY TableSteps, ValuesStaySteps
<1> QED
  BY <1>1, <1>2, PTL DEF Spec

\* An entry is in the column it was set in, and in its own row or below: no row
\* is filled with what was pushed for a row after it.
THEOREM DFEntriesBelong == Spec => []EntriesBelong
<1>1. Init => TableInv /\ EntriesBelong
  <2> SUFFICES ASSUME Init PROVE EntriesBelong
    BY TableStarts
  <2>1. DOMAIN _data = {}
    BY DEF Init
  <2> QED
    BY <2>1 DEF EntriesBelong
<1>2. ASSUME TableInv, EntriesBelong, [Next]_vars PROVE EntriesBelong'
  <2> DEFINE Belongs(v, n, row) == v \in DOMAIN values /\ values[v].name = n /\ values[v].row <= row
  <2>1. /\ Len(_data) \in Nat /\ made \in Nat /\ Dropped \in Nat
        /\ DOMAIN values = 1..Len(values) /\ Len(values) \in Nat
        /\ DOMAIN _data = 1..Len(_data)
    BY <1>2 DEF TableInv, Dropped
  <2>2. \A i \in DOMAIN _data, n \in Names :
          _data[i].cells[n] # Fill => Belongs(_data[i].cells[n], n, Dropped + i)
    BY <1>2 DEF EntriesBelong
  <2>3. CASE Stays
    BY <1>2, <2>3, DroppedAfter DEF Stays, EntriesBelong
  <2>4. ASSUME NEW ts \in Timestamps, NEW n \in Names, Sets(ts, n) PROVE EntriesBelong'
    <3>1. Dropped' = Dropped /\ Place(ts) \in 1..(Len(_data) + 1)
      BY <1>2, <2>4, DroppedAfter, PlaceType
    <3>2. /\ DOMAIN values' = 1..(Len(values) + 1)
          /\ values'[Len(values) + 1] = [name |-> n, row |-> Dropped + Place(ts)]
          /\ \A v \in DOMAIN values : values'[v] = values[v]
      BY <1>2, <2>1, <2>4 DEF Sets, TableInv
    <3>3. \A i \in DOMAIN _data', m \in Names :
            _data'[i].cells[m] =
              IF i = Place(ts) /\ m = n THEN Len(values) + 1
              ELSE IF i \in DOMAIN _data THEN _data[i].cells[m] ELSE Fill
      BY <1>2, <2>4, SetsCells
    <3>4. SUFFICES ASSUME NEW i \in DOMAIN _data', NEW m \in Names, _data'[i].cells[m] # Fill
                   PROVE  /\ _data'[i].cells[m] \in DOMAIN values'
                          /\ values'[_data'[i].cells[m]].name = m
                          /\ values'[_data'[i].cells[m]].row <= Dropped + i
      BY <3>1 DEF EntriesBelong
    <3>5. CASE i = Place(ts) /\ m = n
      BY <2>1, <3>1, <3>2, <3>3, <3>5
    <3>6. CASE ~ (i = Place(ts) /\ m = n)
      <4>1. i \in DOMAIN _data /\ _data'[i].cells[m] = _data[i].cells[m]
        BY <3>3, <3>4, <3>6
      <4>2. Belongs(_data[i].cells[m], m, Dropped + i)
        BY <2>2, <3>4, <4>1
      <4> QED
        BY <2>1, <3>2, <4>1, <4>2
    <3> QED
      BY <3>5, <3>6
  <2>5. ASSUME NEW k \in 0..Len(_data), Drops(k) PROVE EntriesBelong'
    <3>1. Dropped' = Dropped + k /\ values' = values
      BY <1>2, <2>5, DroppedAfter DEF Drops
    <3>2. /\ DOMAIN _data' = 1..(Len(_data) - k)
          /\ \A i \in DOMAIN _data' : _data'[i] = _data[i + k]
      <4>1. /\ _data' \in Seq(Rows) /\ Len(_data') = Len(_data) - k
            /\ \A i \in DOMAIN _data' : _data'[i] = _data[i + k]
        BY <1>2, <2>5, DropsRows
      <4> QED
        BY <4>1
    <3>3. SUFFICES ASSUME NEW i \in DOMAIN _data', NEW n \in Names, _data[i + k].cells[n] # Fill
                   PROVE  Belongs(_data[i + k].cells[n], n, (Dropped + k) + i)
      BY <3>1, <3>2 DEF EntriesBelong
    <3>4. i + k \in DOMAIN _data /\ Dropped + (i + k) = (Dropped + k) + i
      BY <2>1, <3>2
    <3> QED
      BY <2>2, <3>3, <3>4
  <2>6. CASE Fills
    <3>1. Dropped' = Dropped /\ values' = values /\ DOMAIN _data' = DOMAIN _data
      <4>1. _data' \in Seq(Rows) /\ Len(_data') = Len(_data)
        BY <1>2, <2>6, FillsCells
      <4> QED
        BY <1>2, <2>1, <2>6, <4>1, DroppedAfter DEF Fills
    <3>2. SUFFICES ASSUME NEW i \in DOMAIN _data, NEW n \in Names, _data'[i].cells[n] # Fill
                   PROVE  Belongs(_data'[i].cells[n], n, Dropped + i)
      BY <3>1 DEF EntriesBelong
    <3>3. PICK j \in 1..i : _data'[i].cells[n] = _data[j].cells[n]
      BY <1>2, <2>6, <3>2, FillsCells
    <3>4. j \in DOMAIN _data /\ j <= i
      BY <2>1
    <3>5. Belongs(_data[j].cells[n], n, Dropped + j)
      BY <2>2, <3>2, <3>3, <3>4
    <3>6. values[_data[j].cells[n]].row \in Nat
      BY <1>2, <3>5, ValueTypes
    <3> QED
      BY <2>1, <3>3, <3>4, <3>5, <3>6
  <2>7. CASE Empties
    <3>1. DOMAIN _data' = {}
      BY <2>7 DEF Empties
    <3> QED
      BY <3>1 DEF EntriesBelong
  <2> QED
    BY <1>2, <2>3, <2>4, <2>5, <2>6, <2>7, Shapes
<1>3. TableInv /\ EntriesBelong /\ [Next]_vars => TableInv' /\ EntriesBelong'
  BY <1>2, TableSteps
<1> QED
  BY <1>1, <1>3, PTL DEF Spec

-----------------------------------------------------------------------------
(* get_latest *)

\* get_latest() gives the lock up between its look at the length and the read:
\* it raises only if a reset came in between, for housekeeping leaves a row.
THEOREM DFLatestIsFound == Spec => []LatestIsFound
<1>1. Init => TableInv /\ FoundInv
  BY TableStarts DEF Init, FoundInv, LatestIsFound
<1>2. ASSUME TableInv, FoundInv, [Next]_vars PROVE FoundInv'
  <2>1. Len(_data) \in Nat /\ keep_data_rows \in Nat \ {0} /\ (_data # <<>> <=> Len(_data) > 0)
    BY <1>2, DFAssumption DEF TableInv
  <2>2. CASE GetLatest
    BY <1>2, <2>2 DEF GetLatest, FoundInv, LatestIsFound
  <2>3. CASE GetLatestRow
    BY <1>2, <2>3 DEF GetLatestRow, FoundInv, LatestIsFound
  <2>4. CASE reset
    BY <1>2, <2>4 DEF reset, FoundInv, LatestIsFound
  <2>5. CASE UNCHANGED readVars /\ (_data # <<>> => _data' # <<>>)
    BY <1>2, <2>5 DEF readVars, FoundInv, LatestIsFound
  <2>6. ASSUME NEW p \in Pushers, SetValue(p) PROVE UNCHANGED readVars /\ _data' # <<>>
    <3>1. PICK ts \in Timestamps, n \in Names : Sets(ts, n)
      <4>1. Head(job[p].series) \in Timestamps /\ job[p].name \in Names
        BY <1>2, <2>6 DEF SetValue, TableInv, Jobs
      <4>2. Sets(Head(job[p].series), job[p].name)
        BY <2>6 DEF SetValue, Sets
      <4> QED
        BY <4>1, <4>2
    <3>2. /\ _data' \in Seq(Rows)
          /\ Len(_data') = IF Place(ts) > Len(_data) THEN Len(_data) + 1 ELSE Len(_data)
          /\ Place(ts) \in 1..(Len(_data) + 1)
      BY <1>2, <3>1, SetsCells, PlaceType
    <3>3. Len(_data') > 0
      BY <2>1, <3>2
    <3> QED
      BY <2>6, <3>3 DEF SetValue
  <2>7. ASSUME NEW p \in Pushers, Housekeeping(p)
        PROVE  UNCHANGED readVars /\ (_data # <<>> => _data' # <<>>)
    <3>1. PICK k \in 0..Len(_data) : Drops(k) /\ LeavesEnough(k)
      BY <1>2, <2>7, Surplus
    <3>2. Len(_data') = Len(_data) - k
      BY <1>2, <3>1, DropsRows
    <3>3. _data # <<>> => Len(_data') > 0
      BY <2>1, <3>1, <3>2 DEF LeavesEnough
    <3>4. Len(_data') > 0 => _data' # <<>>
      OBVIOUS
    <3>5. UNCHANGED readVars
      BY <2>7, Zenon DEF Housekeeping
    <3> QED
      BY <3>3, <3>4, <3>5
  <2>8. ASSUME Data PROVE UNCHANGED readVars /\ (_data # <<>> => _data' # <<>>)
    <3>1. Len(_data') = Len(_data)
      BY <1>2, <2>8, FillsCells DEF Data, _data_read, Fills
    <3> QED
      BY <2>1, <2>8, <3>1 DEF Data
  <2>9. CASE \/ \E p \in Pushers, n \in Names, k \in 1..MaxSeries :
                  \E series \in [1..k -> Timestamps] : Push(p, n, series)
             \/ UNCHANGED vars
    BY <2>5, <2>9 DEF Push, vars, readVars
  <2> QED
    BY <1>2, <2>2, <2>3, <2>4, <2>5, <2>6, <2>7, <2>8, <2>9 DEF Next
<1>3. TableInv /\ FoundInv /\ [Next]_vars => TableInv' /\ FoundInv'
  BY <1>2, TableSteps
<1>4. FoundInv => LatestIsFound
  BY DEF FoundInv
<1> QED
  BY <1>1, <1>3, <1>4, PTL DEF Spec

-----------------------------------------------------------------------------
(* The file of a storage is one of those CsvFileDBProofs is about *)

FileProofs == INSTANCE CsvFileDBProofs WITH Timestamps <- FileTimestamps

LEMMA FileAssumed == FileProofs!CsvFileAssumption
BY FileAssumption DEF File!CsvFileAssumption, FileProofs!CsvFileAssumption

LEMMA FileStarts == StorageInit => FileProofs!Init
BY DEF StorageInit, File!Init, FileProofs!Init, File!NewFile, FileProofs!NewFile,
       File!NoValues, FileProofs!NoValues, File!Empty, FileProofs!Empty

\* The two instances of the operators are the same.
LEMMA SameBuffered ==
  ASSUME NEW ts, NEW n, NEW v
  PROVE  File!Buffered(ts, n, v) = FileProofs!Buffered(ts, n, v)
BY DEF File!Buffered, FileProofs!Buffered, File!Place, FileProofs!Place, File!HasRow,
       FileProofs!HasRow, File!NewRow, FileProofs!NewRow, File!InsertedAt,
       FileProofs!InsertedAt, File!Update, FileProofs!Update, File!NoValues,
       FileProofs!NoValues, File!Empty, FileProofs!Empty

LEMMA SameRowsOut ==
  ASSUME NEW buffer
  PROVE  /\ File!RowsOut(buffer) = FileProofs!RowsOut(buffer)
         /\ File!buffer_target = FileProofs!buffer_target
         /\ File!size_limit_exceeded <=> FileProofs!size_limit_exceeded
BY DEF File!RowsOut, FileProofs!RowsOut, File!buffer_target, FileProofs!buffer_target,
       File!size_limit_exceeded, FileProofs!size_limit_exceeded, File!Rows,
       FileProofs!Rows

LEMMA SameKnown ==
  ASSUME NEW buffer, NEW k, NEW n
  PROVE  File!KnownAfter(buffer, k, n) = FileProofs!KnownAfter(buffer, k, n)
BY DEF File!KnownAfter, FileProofs!KnownAfter, File!Empty, FileProofs!Empty, File!Max,
       FileProofs!Max

LEMMA SameRowsWritten ==
  ASSUME NEW buffer, NEW k, NEW line, NEW header, NEW leave,
         File!WriteRows(buffer, k, line, header, leave)
  PROVE  FileProofs!WriteRows(buffer, k, line, header, leave)
<1>1. File!Processed(buffer, k, header) = FileProofs!Processed(buffer, k, header)
  BY SameKnown DEF File!Processed, FileProofs!Processed
<1>2. File!LatestAfter(buffer, k) = FileProofs!LatestAfter(buffer, k)
  BY SameKnown DEF File!LatestAfter, FileProofs!LatestAfter
<1> QED
  BY <1>1, <1>2
     DEF File!WriteRows, FileProofs!WriteRows, File!Rows, FileProofs!Rows, File!NewFile,
         FileProofs!NewFile

LEMMA FileSteps == [StorageNext]_allVars => [FileProofs!Next]_(FileProofs!vars)
<1>1. ASSUME NEW f, File!enter(f) PROVE FileProofs!enter(f)
  BY <1>1
     DEF File!enter, FileProofs!enter, File!NoValues, FileProofs!NoValues, File!Empty,
         FileProofs!Empty
<1>2. ASSUME NEW ts, NEW n, File!write(ts, n) PROVE FileProofs!write(ts, n)
  BY <1>2, SameBuffered, SameRowsOut, SameRowsWritten
     DEF File!write, FileProofs!write, File!NewColumns, FileProofs!NewColumns, File!Rng,
         FileProofs!Rng
<1>3. ASSUME File!exit PROVE FileProofs!exit
  BY <1>3, SameRowsOut, SameRowsWritten DEF File!exit, FileProofs!exit
<1>4. File!Next => FileProofs!Next
  BY <1>1, <1>2, <1>3 DEF File!Next, FileProofs!Next
<1> QED
  BY <1>4 DEF StorageNext, allVars, file, FileProofs!vars

LEMMA FileOfStorage == StorageSpec => FileProofs!Spec
BY FileStarts, FileSteps, PTL DEF StorageSpec, FileProofs!Spec

\* In the file of a handler, values that come late find their place: the buffer holds one
\* row per timestamp, in their order, and stays within twice its length.
THEOREM StorageBufferIsInOrder == StorageSpec => []BufferIsInOrder
<1>1. FileProofs!Spec => [](FileProofs!FileInv /\ FileProofs!BufferSorted /\ FileProofs!BufferBounded)
  BY FileAssumed, FileProofs!CsvFileBufferIsInOrder
<1>2. FileProofs!BufferSorted /\ FileProofs!BufferBounded => BufferIsInOrder
  BY SameRowsOut
     DEF BufferIsInOrder, File!BufferSorted, FileProofs!BufferSorted,
         File!BufferBounded, FileProofs!BufferBounded
<1> QED
  BY <1>1, <1>2, FileOfStorage, PTL

\* Every value that was written is in the row of its timestamp, buffered or in a file,
\* unless a later one of the same name and timestamp is; any other field is empty or
\* carried over from the row before, in a column of its name, up to white space; and no
\* name without white space has two columns.
THEOREM StorageFileHoldsWhatWasWritten == StorageSpec => []FileHoldsWhatWasWritten
<1>1. FileProofs!Spec => []FileProofs!NothingLost
  BY FileAssumed, FileProofs!CsvFileNothingLost
<1>2. FileProofs!Spec => []FileProofs!FieldsBelong
  BY FileAssumed, FileProofs!CsvFileFieldsBelong
<1>3. FileProofs!Spec => []FileProofs!ColumnsDistinct
  BY FileAssumed, FileProofs!CsvFileColumnsDistinct
<1>4. FileProofs!NothingLost => File!NothingLost
  BY DEF File!NothingLost, FileProofs!NothingLost, File!InBuffer, FileProofs!InBuffer,
         File!InFile, FileProofs!InFile, File!Rng, FileProofs!Rng
<1>5. FileProofs!FieldsBelong => File!FieldsBelong
  BY DEF File!FieldsBelong, FileProofs!FieldsBelong, File!CarriedOver,
         FileProofs!CarriedOver, File!Empty, FileProofs!Empty
<1>6. FileProofs!ColumnsDistinct => File!ColumnsDistinct
  BY DEF File!ColumnsDistinct, FileProofs!ColumnsDistinct
<1>7. FileProofs!NothingLost /\ FileProofs!FieldsBelong /\ FileProofs!ColumnsDistinct
        => FileHoldsWhatWasWritten
  BY <1>4, <1>5, <1>6 DEF FileHoldsWhatWasWritten
<1> QED
  BY <1>1, <1>2, <1>3, <1>7, FileOfStorage, PTL

\* A name with a known value has a field in every row from then on, and a row is written
\* only when _len_buffer - 1 later rows are waiting, until the file is closed.
THEOREM StorageRowsAreWritten == StorageSpec => RowsAreWritten
<1> DEFINE A == LET rows == files'[filepath].rows
                IN  File!KnownAreFilled(rows) /\ (is_open' => File!OthersWait(rows, _buffer'))
           B == LET rows == files'[filepath].rows
                IN  FileProofs!KnownAreFilled(rows)
                    /\ (is_open' => FileProofs!OthersWait(rows, _buffer'))
<1>1. FileProofs!Spec => FileProofs!RowsAreWritten
  BY FileAssumed, FileProofs!CsvFileRowsAreWritten
<1>2. [B]_(FileProofs!vars) => [A]_(File!vars)
  BY DEF File!KnownAreFilled, FileProofs!KnownAreFilled, File!OthersWait,
         FileProofs!OthersWait, File!Rows, FileProofs!Rows, File!Empty,
         FileProofs!Empty, FileProofs!vars, File!vars
<1>3. FileProofs!RowsAreWritten => [][B]_(FileProofs!vars)
  BY DEF FileProofs!RowsAreWritten
<1>4. [][A]_(File!vars) => RowsAreWritten
  BY DEF RowsAreWritten, File!RowsAreWritten
<1> HIDE DEF A, B
<1> QED
  BY <1>1, <1>2, <1>3, <1>4, FileOfStorage, PTL

-----------------------------------------------------------------------------
(* The table of a storage *)

\* In a storage the table keeps rows and values, and get_latest finds a row, as in a
\* behavior of the table alone.
THEOREM StorageKeepsTable ==
  StorageSpec => [](RowsAreKept /\ ValuesStay /\ EntriesBelong /\ LatestIsFound)
<1>1. StorageInit => Init
  BY DEF StorageInit
<1>2. [StorageNext]_allVars => [Next]_vars
  BY DEF StorageNext, allVars, table
<1>3. StorageSpec => Spec
  BY <1>1, <1>2, PTL DEF StorageSpec, Spec
<1> QED
  BY <1>3, DFRowsAreKept, DFValuesStay, DFEntriesBelong, DFLatestIsFound, PTL
=============================================================================
