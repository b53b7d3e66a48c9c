-------------------------- MODULE CsvFileDBProofs --------------------------
(***************************************************************************)
(* Proofs about CsvFileDB: that rows are buffered in their order and       *)
(* within bounds, and that each value goes to the row of its timestamp and *)
(* the column of its name, for any names, timestamps, lengths and limits.  *)
(***************************************************************************)
EXTENDS CsvFileDB, WellFoundedInduction, TLAPS

-----------------------------------------------------------------------------
(* The inductive invariants *)

Values == UNION {[D -> Value] : D \in SUBSET Names}
BufferRow == [ts : Timestamps, values : Values]
FileType == [header : Seq(Names), rows : Seq(RowType)]

\* The values of a buffer's rows have their columns in the header.
InColumns(buffer, header) ==
  \A i \in DOMAIN buffer : DOMAIN buffer[i].values \subseteq Rng(header)

RowsFit(file) == \A i \in DOMAIN file.rows : Len(file.rows[i].fields) <= Len(file.header)

\* A column is added to the header in memory and to the one in the file, and only an
\* open file has rows in the buffer.
FileInv ==
  /\ files \in Seq(FileType)
  /\ \A f \in DOMAIN files : RowsFit(files[f])
  /\ filepath \in DOMAIN files
  /\ is_open \in BOOLEAN
  /\ _header \in Seq(Names)
  /\ Len(_header) = Len(files[filepath].header)
  /\ _buffer \in Seq(BufferRow)
  /\ InColumns(_buffer, _header)
  /\ ~is_open => _buffer = <<>>
  /\ _latest_values \in Values
  /\ log \in Seq([ts : Timestamps, name : Names])
  /\ Len(log) <= MaxWrites
  /\ sessions \in 0..MaxSessions

Sorted(buffer) == \A i, j \in DOMAIN buffer : i < j => buffer[i].ts < buffer[j].ts

\* The buffer has a row of the timestamp, with the value of the name.
Holds(buffer, ts, n, v) ==
  \E i \in DOMAIN buffer :
    buffer[i].ts = ts /\ n \in DOMAIN buffer[i].values /\ buffer[i].values[n] = v

-----------------------------------------------------------------------------
(* Operators on sequences and sets *)

LEMMA HasLeast ==
  ASSUME NEW T \in SUBSET Nat, T # {}
  PROVE  \E d \in T : \A e \in T : d <= e
<1> DEFINE R == OpToRel(<, Nat)
<1>1. \A y, x \in Nat : y < x => <<y, x>> \in R
  BY DEF OpToRel
<1>2. IsWellFoundedOn(R, Nat)
  BY NatLessThanWellFounded
<1> HIDE DEF R
<1>3. PICK d \in T : \A e \in T : ~ (<<e, d>> \in R)
  BY <1>2, WFMin, Zenon
<1>4. \A e \in T : ~ (e < d)
  BY <1>1, <1>3, Zenon
<1>5. d \in Nat /\ \A e \in T : e \in Nat
  OBVIOUS
<1> QED
  BY <1>4, <1>5

\* The greatest of some of the numbers 1..k is one of them.
LEMMA HasGreatest ==
  ASSUME NEW k \in Nat, NEW S \in SUBSET (1..k), S # {}
  PROVE  Max(S) \in S /\ \A y \in S : Max(S) >= y
<1> DEFINE T == {k - j : j \in S}
<1>a. \A y \in S : y \in Nat /\ y <= k
  OBVIOUS
<1>b. \A j \in S : k - j \in Nat
  BY <1>a
<1>1. T \in SUBSET Nat /\ T # {}
  BY <1>b
<1>2. PICK d \in T : \A e \in T : d <= e
  <2> HIDE DEF T
  <2> QED
    BY <1>1, HasLeast
<1>3. PICK x \in S : d = k - x
  BY <1>2
<1>4. \A y \in S : x >= y
  <2> SUFFICES ASSUME NEW y \in S PROVE x >= y
    OBVIOUS
  <2>1. k - y \in T
    OBVIOUS
  <2>2. k - x <= k - y
    BY <1>2, <1>3, <2>1
  <2>3. x \in Nat /\ y \in Nat
    BY <1>a
  <2> HIDE DEF T
  <2> QED
    BY <2>2, <2>3
<1> QED
  BY <1>3, <1>4, Zenon DEF Max

\* InsertedAt moves what is at the place and behind it up by one.
LEMMA Inserts ==
  ASSUME NEW S, NEW s \in Seq(S), NEW x \in S, NEW i \in 1..(Len(s) + 1)
  PROVE  /\ InsertedAt(s, i, x) \in Seq(S)
         /\ Len(InsertedAt(s, i, x)) = Len(s) + 1
         /\ \A j \in 1..(Len(s) + 1) :
              InsertedAt(s, i, x)[j] = IF j < i THEN s[j] ELSE IF j = i THEN x ELSE s[j - 1]
<1> DEFINE a == SubSeq(s, 1, i - 1)
           b == SubSeq(s, i, Len(s))
<1>1. a \in Seq(S) /\ Len(a) = i - 1 /\ \A j \in 1..(i - 1) : a[j] = s[j]
  OBVIOUS
<1>2. b \in Seq(S) /\ Len(b) = Len(s) - i + 1 /\ \A j \in 1..(Len(s) - i + 1) : b[j] = s[i + j - 1]
  OBVIOUS
<1> HIDE DEF a, b
<1>3. InsertedAt(s, i, x) = a \o <<x>> \o b
  BY DEF InsertedAt, a, b
<1> DEFINE ax == a \o <<x>>
<1>4. ax \in Seq(S) /\ Len(ax) = i /\ ax[i] = x /\ \A j \in 1..(i - 1) : ax[j] = s[j]
  BY <1>1
<1> HIDE DEF ax
<1>5. ax \o b \in Seq(S) /\ Len(ax \o b) = Len(s) + 1
  <2>a. ax \in Seq(S) /\ b \in Seq(S)
    BY <1>2, <1>4
  <2>1. ax \o b \in Seq(S) /\ Len(ax \o b) = Len(ax) + Len(b)
    BY <2>a
  <2>2. i + (Len(s) - i + 1) = Len(s) + 1
    OBVIOUS
  <2> QED
    BY <2>1, <2>2, <1>2, <1>4
<1>6. ASSUME NEW j \in 1..(Len(s) + 1)
      PROVE  (ax \o b)[j] = IF j < i THEN s[j] ELSE IF j = i THEN x ELSE s[j - 1]
  <2>1. CASE j <= i
    BY <1>2, <1>4, <2>1
  <2>2. CASE j > i
    <3>1. (ax \o b)[j] = b[j - i]
      BY <1>2, <1>4, <2>2
    <3>2. j - i \in 1..(Len(s) - i + 1) /\ i + (j - i) - 1 = j - 1
      BY <2>2
    <3>3. b[j - i] = s[i + (j - i) - 1]
      BY <1>2, <3>2
    <3> QED
      BY <2>2, <3>1, <3>2, <3>3
  <2>3. j \in Int /\ i \in Int
    OBVIOUS
  <2>4. j <= i \/ j > i
    BY <2>3
  <2> QED
    BY <2>1, <2>2, <2>4, Zenon
<1> QED
  BY <1>3, <1>5, <1>6 DEF ax

LEMMA Updates ==
  ASSUME NEW values \in Values, NEW n \in Names, NEW v \in Value
  PROVE  /\ Update(values, n, v) \in Values
         /\ DOMAIN Update(values, n, v) = DOMAIN values \cup {n}
         /\ Update(values, n, v)[n] = v
         /\ \A m \in DOMAIN values : m # n => Update(values, n, v)[m] = values[m]
<1>1. PICK D \in SUBSET Names : values \in [D -> Value]
  BY DEF Values
<1>2. Update(values, n, v) \in [D \cup {n} -> Value]
  BY <1>1 DEF Update
<1>3. D \cup {n} \in SUBSET Names
  OBVIOUS
<1>4. Update(values, n, v) \in Values
  BY <1>2, <1>3 DEF Values
<1> QED
  BY <1>1, <1>4 DEF Update

LEMMA NoValuesType == NoValues \in Values /\ DOMAIN NoValues = {}
<1>1. NoValues \in [{} -> Value]
  BY DEF NoValues
<1> QED
  BY <1>1 DEF Values, NoValues

LEMMA RngOfConcat ==
  ASSUME NEW S, NEW s \in Seq(S), NEW t \in Seq(S)
  PROVE  Rng(s \o t) = Rng(s) \cup Rng(t)
<1>1. s \o t \in Seq(S) /\ Len(s \o t) = Len(s) + Len(t)
  OBVIOUS
<1>2. /\ \A i \in DOMAIN s : i \in DOMAIN (s \o t) /\ (s \o t)[i] = s[i]
      /\ \A i \in DOMAIN t : Len(s) + i \in DOMAIN (s \o t) /\ (s \o t)[Len(s) + i] = t[i]
  OBVIOUS
<1>3. ASSUME NEW i \in DOMAIN (s \o t)
      PROVE  (s \o t)[i] \in Rng(s) \cup Rng(t)
  <2>1. CASE i <= Len(s)
    BY <2>1 DEF Rng
  <2>2. CASE i > Len(s)
    <3>1. (s \o t)[i] = t[i - Len(s)] /\ i - Len(s) \in DOMAIN t
      BY <1>1, <2>2
    <3> QED
      BY <3>1 DEF Rng
  <2> QED
    BY <2>1, <2>2
<1>4. Rng(s \o t) \subseteq Rng(s) \cup Rng(t)
  BY <1>3, Zenon DEF Rng
<1>5. Rng(s) \subseteq Rng(s \o t) /\ Rng(t) \subseteq Rng(s \o t)
  BY <1>2, Zenon DEF Rng
<1> QED
  BY <1>4, <1>5, Zenon

-----------------------------------------------------------------------------
(* The buffer *)

LEMMA RowParts ==
  ASSUME CsvFileAssumption, NEW b \in Seq(BufferRow)
  PROVE  \A i \in DOMAIN b :
           /\ b[i] \in BufferRow
           /\ b[i].ts \in Timestamps /\ b[i].ts \in Int
           /\ b[i].values \in Values
<1>1. \A r \in BufferRow : r.ts \in Timestamps /\ r.values \in Values
  BY DEF BufferRow
<1>2. \A i \in DOMAIN b : b[i] \in BufferRow
  OBVIOUS
<1>3. \A ts \in Timestamps : ts \in Int
  BY DEF CsvFileAssumption
<1> QED
  BY <1>1, <1>2, <1>3, Zenon

\* There is a place for the row of any timestamp.
LEMMA PlaceIsFound ==
  ASSUME CsvFileAssumption, _buffer \in Seq(BufferRow), NEW ts \in Timestamps
  PROVE  /\ Place(ts) \in 1..(Len(_buffer) + 1)
         /\ Place(ts) > 1 => _buffer[Place(ts) - 1].ts < ts
         /\ Place(ts) <= Len(_buffer) => ts <= _buffer[Place(ts)].ts
<1> DEFINE T == {i \in 1..(Len(_buffer) + 1) : i <= Len(_buffer) => ts <= _buffer[i].ts}
<1>1. Len(_buffer) + 1 \in T /\ T \in SUBSET Nat
  OBVIOUS
<1>2. PICK d \in T : \A e \in T : d <= e
  <2> HIDE DEF T
  <2> QED
    BY <1>1, HasLeast
<1>3. \A i \in 1..Len(_buffer) : _buffer[i].ts \in Int
  BY RowParts
<1>4. d > 1 => _buffer[d - 1].ts < ts
  <2> SUFFICES ASSUME d > 1 PROVE _buffer[d - 1].ts < ts
    OBVIOUS
  <2>1. d \in 1..(Len(_buffer) + 1) /\ d - 1 \in 1..Len(_buffer)
    OBVIOUS
  <2>2. d - 1 \notin T
    BY <1>2, <2>1
  <2>3. ~ (ts <= _buffer[d - 1].ts)
    BY <2>1, <2>2
  <2> QED
    BY <1>3, <2>1, <2>3 DEF CsvFileAssumption
<1> DEFINE Fits(i) == /\ i > 1 => _buffer[i - 1].ts < ts
                      /\ i <= Len(_buffer) => ts <= _buffer[i].ts
<1>5. d \in 1..(Len(_buffer) + 1) /\ Fits(d)
  BY <1>4
<1>6. Place(ts) = CHOOSE i \in 1..(Len(_buffer) + 1) : Fits(i)
  BY DEF Place
<1> HIDE DEF Fits
<1>7. Place(ts) \in 1..(Len(_buffer) + 1) /\ Fits(Place(ts))
  BY <1>5, <1>6
<1> QED
  BY <1>7 DEF Fits

\* What a value does to the buffer.
LEMMA BufferedRows ==
  ASSUME CsvFileAssumption, _buffer \in Seq(BufferRow),
         NEW ts \in Timestamps, NEW n \in Names, NEW v \in Value,
         NEW b, b = Buffered(ts, n, v), NEW p, p = Place(ts)
  PROVE  /\ b \in Seq(BufferRow)
         /\ p \in DOMAIN b
         /\ b[p].ts = ts
         /\ n \in DOMAIN b[p].values /\ b[p].values[n] = v
         /\ HasRow(ts) =>
              /\ p \in DOMAIN _buffer /\ _buffer[p].ts = ts
              /\ Len(b) = Len(_buffer)
              /\ \A i \in DOMAIN _buffer : i # p => b[i] = _buffer[i]
              /\ DOMAIN b[p].values = DOMAIN _buffer[p].values \cup {n}
              /\ \A m \in DOMAIN _buffer[p].values :
                   m # n => b[p].values[m] = _buffer[p].values[m]
         /\ ~HasRow(ts) =>
              /\ p \in DOMAIN _buffer => ts < _buffer[p].ts
              /\ Len(b) = Len(_buffer) + 1
              /\ \A i \in 1..Len(_buffer) : i < p => b[i] = _buffer[i]
              /\ \A i \in 1..Len(_buffer) : i >= p => b[i + 1] = _buffer[i]
              /\ \A i \in DOMAIN b : i > p => i - 1 \in DOMAIN _buffer /\ b[i] = _buffer[i - 1]
              /\ \A i \in DOMAIN b : i < p => i \in DOMAIN _buffer
              /\ DOMAIN b[p].values = {n}
<1>1. /\ p \in 1..(Len(_buffer) + 1)
      /\ p > 1 => _buffer[p - 1].ts < ts
      /\ p <= Len(_buffer) => ts <= _buffer[p].ts
  BY PlaceIsFound
<1>d. DOMAIN _buffer = 1..Len(_buffer)
  OBVIOUS
<1>r. \A r \in BufferRow : r.ts \in Timestamps /\ r.values \in Values
  BY DEF BufferRow
<1>2. CASE HasRow(ts)
  <2>1. p \in DOMAIN _buffer /\ _buffer[p].ts = ts
    BY <1>1, <1>2, <1>d DEF HasRow
  <2>2. b = [_buffer EXCEPT ![p].values = Update(_buffer[p].values, n, v)]
    BY <1>2 DEF Buffered
  <2> DEFINE u == Update(_buffer[p].values, n, v)
  <2>3. _buffer[p] \in BufferRow
    BY <2>1
  <2>4. /\ u \in Values
        /\ DOMAIN u = DOMAIN _buffer[p].values \cup {n}
        /\ u[n] = v
        /\ \A m \in DOMAIN _buffer[p].values : m # n => u[m] = _buffer[p].values[m]
    BY ZenonT(30), <1>r, <2>3, Updates
  <2> HIDE DEF u
  <2> DEFINE r == [_buffer[p] EXCEPT !.values = u]
  <2>5. r \in BufferRow /\ r.ts = ts /\ r.values = u
    BY <2>1, <2>3, <2>4 DEF BufferRow
  <2>6. b = [_buffer EXCEPT ![p] = r]
    BY <2>2 DEF u
  <2> HIDE DEF r
  <2>7. /\ b \in Seq(BufferRow) /\ Len(b) = Len(_buffer) /\ b[p] = r
        /\ \A i \in DOMAIN _buffer : i # p => b[i] = _buffer[i]
    BY <2>1, <2>5, <2>6
  <2>8. p \in DOMAIN b
    BY <2>1, <2>7
  <2> QED
    BY <1>2, <2>1, <2>4, <2>5, <2>7, <2>8, Zenon 
<1>3. CASE ~HasRow(ts)
  <2>1. b = InsertedAt(_buffer, p, NewRow(ts, n, v))
    BY <1>3 DEF Buffered
  <2> DEFINE r == NewRow(ts, n, v)
  <2>2. r.ts = ts /\ r.values = Update(NoValues, n, v) /\ r = [ts |-> r.ts, values |-> r.values]
    BY DEF NewRow
  <2>3. r.values \in Values /\ DOMAIN r.values = {n} /\ r.values[n] = v
    <3>1. {} \cup {n} = {n}
      OBVIOUS
    <3>2. NoValues \in Values /\ DOMAIN NoValues = {}
      BY NoValuesType
    <3>3. /\ Update(NoValues, n, v) \in Values
          /\ DOMAIN Update(NoValues, n, v) = {} \cup {n}
          /\ Update(NoValues, n, v)[n] = v
      BY ZenonT(30), <3>2, Updates
    <3> HIDE DEF r
    <3> QED
      BY <2>2, <3>1, <3>3, Zenon
  <2>4. r \in BufferRow
    BY <2>2, <2>3 DEF BufferRow
  <2> HIDE DEF r
  <2>5. /\ b \in Seq(BufferRow)
        /\ Len(b) = Len(_buffer) + 1
        /\ \A j \in 1..(Len(_buffer) + 1) :
             b[j] = IF j < p THEN _buffer[j] ELSE IF j = p THEN r ELSE _buffer[j - 1]
    <3>1. b = InsertedAt(_buffer, p, r)
      BY <2>1 DEF r
    <3>2. p \in 1..(Len(_buffer) + 1)
      BY <1>1
    <3>3. \A x \in BufferRow : \A i \in 1..(Len(_buffer) + 1) :
            /\ InsertedAt(_buffer, i, x) \in Seq(BufferRow)
            /\ Len(InsertedAt(_buffer, i, x)) = Len(_buffer) + 1
            /\ \A j \in 1..(Len(_buffer) + 1) :
                 InsertedAt(_buffer, i, x)[j] =
                   IF j < i THEN _buffer[j] ELSE IF j = i THEN x ELSE _buffer[j - 1]
      BY Inserts
    <3> QED
      BY <2>4, <3>1, <3>2, <3>3
  <2>6. DOMAIN b = 1..(Len(_buffer) + 1)
    BY <2>5
  <2>7. p \in DOMAIN b /\ b[p] = r
    BY <1>1, <2>5, <2>6
  <2>8. p \in DOMAIN _buffer => ts < _buffer[p].ts
    <3> SUFFICES ASSUME p \in DOMAIN _buffer PROVE ts < _buffer[p].ts
      OBVIOUS
    <3>1. _buffer[p].ts # ts /\ ts <= _buffer[p].ts
      BY <1>1, <1>3, <1>d DEF HasRow
    <3>2. _buffer[p].ts \in Int /\ ts \in Int
      BY RowParts DEF CsvFileAssumption
    <3> QED
      BY <3>1, <3>2
  <2>9. /\ \A i \in 1..Len(_buffer) : i < p => b[i] = _buffer[i]
        /\ \A i \in 1..Len(_buffer) : i >= p => b[i + 1] = _buffer[i]
    <3>1. \A i \in 1..Len(_buffer) : i < p => b[i] = _buffer[i]
      BY <1>1, <2>5
    <3>2. ASSUME NEW i \in 1..Len(_buffer), i >= p PROVE b[i + 1] = _buffer[i]
      <4>1. i + 1 \in 1..(Len(_buffer) + 1) /\ ~ (i + 1 < p) /\ i + 1 # p /\ (i + 1) - 1 = i
        BY <1>1, <3>2
      <4> QED
        BY <2>5, <4>1
    <3> QED
      BY <3>1, <3>2
  <2>10. /\ \A i \in DOMAIN b : i > p => i - 1 \in DOMAIN _buffer /\ b[i] = _buffer[i - 1]
         /\ \A i \in DOMAIN b : i < p => i \in DOMAIN _buffer
    BY <1>1, <1>d, <2>5, <2>6
  <2> QED
    BY <1>3, <2>2, <2>3, <2>5, <2>7, <2>8, <2>9, <2>10, Zenon 
<1> QED
  BY <1>2, <1>3

LEMMA BufferedStaysSorted ==
  ASSUME CsvFileAssumption, _buffer \in Seq(BufferRow), BufferSorted,
         NEW ts \in Timestamps, NEW n \in Names, NEW v \in Value
  PROVE  Sorted(Buffered(ts, n, v))
<1>b. PICK b : b = Buffered(ts, n, v)
  OBVIOUS
<1>p. PICK p : p = Place(ts)
  OBVIOUS
<1>1. \A i \in DOMAIN _buffer : _buffer[i].ts \in Int
  BY RowParts
<1>2. ts \in Int
  BY DEF CsvFileAssumption
<1>3. \A i, j \in DOMAIN _buffer : i < j => _buffer[i].ts < _buffer[j].ts
  BY DEF BufferSorted
<1>d. DOMAIN _buffer = 1..Len(_buffer)
  OBVIOUS
<1>4. CASE HasRow(ts)
  <2>1. /\ b \in Seq(BufferRow) /\ Len(b) = Len(_buffer) /\ b[p].ts = ts
        /\ p \in DOMAIN _buffer /\ _buffer[p].ts = ts
        /\ \A i \in DOMAIN _buffer : i # p => b[i] = _buffer[i]
    BY <1>4, <1>b, <1>p, BufferedRows
  <2>2. DOMAIN b = DOMAIN _buffer
    BY <2>1
  <2>3. \A i \in DOMAIN _buffer : b[i].ts = _buffer[i].ts
    BY <2>1
  <2>4. \A i, j \in DOMAIN b : i < j => b[i].ts < b[j].ts
    BY <1>3, <2>2, <2>3
  <2> QED
    BY <1>b, <2>4 DEF Sorted
<1>5. CASE ~HasRow(ts)
  <2>1. /\ b \in Seq(BufferRow) /\ Len(b) = Len(_buffer) + 1 /\ b[p].ts = ts
        /\ p \in DOMAIN b
        /\ p \in DOMAIN _buffer => ts < _buffer[p].ts
        /\ \A i \in 1..Len(_buffer) : i < p => b[i] = _buffer[i]
        /\ \A i \in DOMAIN b : i > p => i - 1 \in DOMAIN _buffer /\ b[i] = _buffer[i - 1]
    BY <1>5, <1>b, <1>p, BufferedRows
  <2>2. p > 1 => _buffer[p - 1].ts < ts
    BY <1>p, PlaceIsFound
  <2>d. DOMAIN b = 1..(Len(_buffer) + 1)
    BY <2>1
  <2>3. \A i \in DOMAIN _buffer : i < p => _buffer[i].ts < ts
    <3> SUFFICES ASSUME NEW i \in DOMAIN _buffer, i < p PROVE _buffer[i].ts < ts
      OBVIOUS
    <3>1. p > 1 /\ p - 1 \in DOMAIN _buffer /\ (i = p - 1 \/ i < p - 1)
      BY <1>d, <2>1, <2>d
    <3>2. _buffer[i].ts = _buffer[p - 1].ts \/ _buffer[i].ts < _buffer[p - 1].ts
      BY <1>3, <3>1
    <3> QED
      BY <1>1, <1>2, <2>2, <3>1, <3>2
  <2>4. \A i \in DOMAIN _buffer : i >= p => ts < _buffer[i].ts
    <3> SUFFICES ASSUME NEW i \in DOMAIN _buffer, i >= p PROVE ts < _buffer[i].ts
      OBVIOUS
    <3>1. p \in DOMAIN _buffer /\ (i = p \/ p < i)
      BY <1>d, <2>1, <2>d
    <3>2. _buffer[i].ts = _buffer[p].ts \/ _buffer[p].ts < _buffer[i].ts
      BY <1>3, <3>1
    <3> QED
      BY <1>1, <1>2, <2>1, <3>1, <3>2
  <2>5. ASSUME NEW i \in DOMAIN b, NEW j \in DOMAIN b, i < j
        PROVE  b[i].ts < b[j].ts
    <3>1. CASE i = p
      <4>1. j - 1 \in DOMAIN _buffer /\ b[j] = _buffer[j - 1] /\ j - 1 >= p
        BY <2>1, <2>d, <2>5, <3>1
      <4> QED
        BY <2>1, <2>4, <3>1, <4>1
    <3>2. CASE j = p
      <4>1. i \in DOMAIN _buffer /\ b[i] = _buffer[i] /\ i < p
        BY <1>d, <2>1, <2>d, <2>5, <3>2
      <4> QED
        BY <2>1, <2>3, <3>2, <4>1
    <3>3. CASE j < p
      <4>1. /\ i \in DOMAIN _buffer /\ b[i] = _buffer[i]
            /\ j \in DOMAIN _buffer /\ b[j] = _buffer[j]
        BY <1>d, <2>1, <2>d, <2>5, <3>3
      <4> QED
        BY <1>3, <2>5, <4>1
    <3>4. CASE i > p
      <4>1. /\ i - 1 \in DOMAIN _buffer /\ b[i] = _buffer[i - 1]
            /\ j - 1 \in DOMAIN _buffer /\ b[j] = _buffer[j - 1] /\ i - 1 < j - 1
        BY <2>1, <2>d, <2>5, <3>4
      <4> QED
        BY <1>3, <4>1
    <3>5. CASE i < p /\ j > p
      <4>1. /\ i \in DOMAIN _buffer /\ b[i] = _buffer[i]
            /\ j - 1 \in DOMAIN _buffer /\ b[j] = _buffer[j - 1] /\ i < j - 1
        BY <1>d, <2>1, <2>d, <2>5, <3>5
      <4> QED
        BY <1>3, <4>1
    <3> QED
      BY <2>1, <2>d, <2>5, <3>1, <3>2, <3>3, <3>4, <3>5
  <2>6. Sorted(b)
    BY <2>5 DEF Sorted
  <2> QED
    BY <1>b, <2>6
<1> QED
  BY <1>4, <1>5

-----------------------------------------------------------------------------
(* Rows that leave the buffer *)

LEMMA ValuesAreKept ==
  ASSUME NEW v \in Values
  PROVE  DOMAIN v \subseteq Names /\ \A n \in DOMAIN v : v[n] \in Value
<1>1. PICK D \in SUBSET Names : v \in [D -> Value]
  BY DEF Values
<1> QED
  BY <1>1

\* The value of a name that is known once row k is written: that of the row, or
\* else what was known before it.
LEMMA Known ==
  ASSUME NEW b \in Seq(BufferRow), NEW k \in 0..Len(b), NEW n, _latest_values \in Values
  PROVE  LET v == KnownAfter(b, k, n)
         IN  /\ v \in Value \cup {Empty}
             /\ \/ v = Empty
                \/ n \in DOMAIN _latest_values /\ v = _latest_values[n]
                \/ \E i \in 1..k : n \in DOMAIN b[i].values /\ v = b[i].values[n]
             /\ n \in DOMAIN _latest_values => v \in Value
             /\ \A i \in 1..k : n \in DOMAIN b[i].values => v \in Value
             /\ k > 0 /\ n \in DOMAIN b[k].values => v = b[k].values[n]
             /\ k > 0 /\ n \notin DOMAIN b[k].values => v = KnownAfter(b, k - 1, n)
             /\ k = 0 => v = IF n \in DOMAIN _latest_values THEN _latest_values[n] ELSE Empty
<1> DEFINE with(j) == {i \in 1..j : n \in DOMAIN b[i].values}
           known(j) == IF with(j) # {} THEN b[Max(with(j))].values[n]
                       ELSE IF n \in DOMAIN _latest_values THEN _latest_values[n]
                       ELSE Empty
<1>1. \A j : KnownAfter(b, j, n) = known(j)
  BY DEF KnownAfter
<1>2. \A i \in 1..k : b[i].values \in Values
  <2>1. \A r \in BufferRow : r.values \in Values
    BY DEF BufferRow
  <2>2. \A i \in 1..k : b[i] \in BufferRow
    OBVIOUS
  <2> QED
    BY <2>1, <2>2
<1>3. \A i \in 1..k : n \in DOMAIN b[i].values => b[i].values[n] \in Value
  BY <1>2, ValuesAreKept
<1>4. n \in DOMAIN _latest_values => _latest_values[n] \in Value
  BY ValuesAreKept
<1>5. CASE with(k) # {}
  <2>1. with(k) \in SUBSET (1..k) /\ k \in Nat
    OBVIOUS
  <2>2. Max(with(k)) \in with(k) /\ \A y \in with(k) : Max(with(k)) >= y
    <3> HIDE DEF with
    <3> QED
      BY <1>5, <2>1, HasGreatest
  <2> DEFINE m == Max(with(k))
  <2>3. m \in 1..k /\ n \in DOMAIN b[m].values /\ \A y \in with(k) : m >= y
    BY <2>2
  <2>4. known(k) = b[m].values[n]
    BY <1>5
  <2>5. \A i \in 1..k : n \in DOMAIN b[i].values => m >= i
    BY <2>2
  <2> HIDE DEF m, known
  <2>6. k > 0 /\ n \in DOMAIN b[k].values => known(k) = b[k].values[n]
    <3> SUFFICES ASSUME k > 0, n \in DOMAIN b[k].values PROVE known(k) = b[k].values[n]
      OBVIOUS
    <3>1. k \in 1..k
      OBVIOUS
    <3>2. m = k
      BY <2>3, <2>5, <3>1
    <3> QED
      BY <2>4, <3>2
  <2>7. k > 0 /\ n \notin DOMAIN b[k].values => known(k) = known(k - 1)
    <3> SUFFICES ASSUME k > 0, n \notin DOMAIN b[k].values PROVE known(k) = known(k - 1)
      OBVIOUS
    <3>1. 1..k = 1..(k - 1) \cup {k}
      OBVIOUS
    <3>2. with(k) = with(k - 1)
      BY <3>1
    <3> QED
      BY <3>2, Zenon DEF known
  <2>8. known(k) \in Value
    BY <1>3, <2>3, <2>4
  <2>9. k # 0
    BY <2>3
  <2> QED
    BY <1>1, <2>3, <2>4, <2>6, <2>7, <2>8, <2>9, Zenon
<1>6. CASE with(k) = {}
  <2>1. \A i \in 1..k : n \notin DOMAIN b[i].values
    BY <1>6
  <2>2. known(k) = IF n \in DOMAIN _latest_values THEN _latest_values[n] ELSE Empty
    BY <1>6
  <2>3. k > 0 => known(k) = known(k - 1)
    <3> SUFFICES ASSUME k > 0 PROVE known(k) = known(k - 1)
      OBVIOUS
    <3>1. \A i \in 1..(k - 1) : i \in 1..k
      OBVIOUS
    <3>2. with(k - 1) = {}
      BY <2>1, <3>1
    <3> HIDE DEF with
    <3> QED
      BY <1>6, <3>2
  <2>4. k > 0 => k \in 1..k
    OBVIOUS
  <2> HIDE DEF known
  <2> QED
    BY <1>1, <1>4, <2>1, <2>2, <2>3, <2>4
<1> QED
  BY <1>5, <1>6

\* The rows as they go to the file.
LEMMA ProcessedRows ==
  ASSUME CsvFileAssumption, _latest_values \in Values,
         NEW b \in Seq(BufferRow), NEW k \in 0..Len(b), NEW header \in Seq(Names),
         NEW rows, rows = Processed(b, k, header)
  PROVE  /\ rows \in Seq(RowType)
         /\ Len(rows) = k
         /\ \A i \in 1..k :
              /\ rows[i].ts = b[i].ts
              /\ DOMAIN rows[i].fields = DOMAIN header
              /\ Len(rows[i].fields) = Len(header)
              /\ \A c \in DOMAIN header : rows[i].fields[c] = KnownAfter(b, i, header[c])
<1> DEFINE fields(i) == [c \in DOMAIN header |-> KnownAfter(b, i, header[c])]
           row(i) == [ts |-> b[i].ts, fields |-> fields(i)]
<1>d. DOMAIN header = 1..Len(header) /\ Len(header) \in Nat
  OBVIOUS
<1>1. rows = [i \in 1..k |-> row(i)]
  BY DEF Processed
<1>2. \A i \in 1..k : fields(i) \in Seq(Value \cup {Empty}) /\ Len(fields(i)) = Len(header)
  <2> SUFFICES ASSUME NEW i \in 1..k
               PROVE  fields(i) \in Seq(Value \cup {Empty}) /\ Len(fields(i)) = Len(header)
    OBVIOUS
  <2>1. \A c \in DOMAIN header : KnownAfter(b, i, header[c]) \in Value \cup {Empty}
    <3>1. i \in 0..Len(b)
      OBVIOUS
    <3> QED
      BY <3>1, Known
  <2>2. fields(i) \in [1..Len(header) -> Value \cup {Empty}]
    BY <1>d, <2>1
  <2>3. \A s \in [1..Len(header) -> Value \cup {Empty}] :
          s \in Seq(Value \cup {Empty}) /\ Len(s) = Len(header)
    BY <1>d
  <2> QED
    BY <2>2, <2>3, Zenon
<1>3. \A i \in 1..k : row(i) \in RowType
  <2> SUFFICES ASSUME NEW i \in 1..k PROVE row(i) \in RowType
    OBVIOUS
  <2>1. b[i].ts \in Timestamps
    BY RowParts
  <2>2. fields(i) \in Seq(Value \cup {Empty})
    BY <1>2
  <2> HIDE DEF fields
  <2> QED
    BY <2>1, <2>2 DEF RowType
<1>4. \A i \in 1..k : /\ row(i).ts = b[i].ts
                      /\ row(i).fields = fields(i)
  OBVIOUS
<1>5. \A i \in 1..k : /\ DOMAIN fields(i) = DOMAIN header
                      /\ \A c \in DOMAIN header : fields(i)[c] = KnownAfter(b, i, header[c])
  OBVIOUS
<1> HIDE DEF row, fields
<1>6. rows \in [1..k -> RowType] /\ \A i \in 1..k : rows[i] = row(i)
  BY <1>1, <1>3
<1>7. rows \in Seq(RowType) /\ Len(rows) = k
  BY <1>6
<1> QED
  BY <1>2, <1>4, <1>5, <1>6, <1>7

LEMMA LatestKnown ==
  ASSUME CsvFileAssumption, _latest_values \in Values,
         NEW b \in Seq(BufferRow), NEW k \in 0..Len(b),
         NEW latest, latest = LatestAfter(b, k)
  PROVE  /\ latest \in Values
         /\ DOMAIN latest = DOMAIN _latest_values \cup UNION {DOMAIN b[i].values : i \in 1..k}
         /\ \A n \in DOMAIN latest : latest[n] = KnownAfter(b, k, n)
<1> DEFINE D == DOMAIN _latest_values \cup UNION {DOMAIN b[i].values : i \in 1..k}
<1>1. latest = [n \in D |-> KnownAfter(b, k, n)]
  BY DEF LatestAfter
<1>2. D \in SUBSET Names
  <2>1. DOMAIN _latest_values \subseteq Names
    BY ValuesAreKept
  <2>2. \A i \in 1..k : DOMAIN b[i].values \subseteq Names
    <3> SUFFICES ASSUME NEW i \in 1..k PROVE DOMAIN b[i].values \subseteq Names
      OBVIOUS
    <3>1. b[i].values \in Values
      BY RowParts
    <3> QED
      BY <3>1, ValuesAreKept
  <2> QED
    BY <2>1, <2>2
<1>3. \A n \in D : KnownAfter(b, k, n) \in Value
  <2> SUFFICES ASSUME NEW n \in D PROVE KnownAfter(b, k, n) \in Value
    OBVIOUS
  <2>1. n \in DOMAIN _latest_values \/ \E i \in 1..k : n \in DOMAIN b[i].values
    OBVIOUS
  <2> QED
    BY <2>1, Known
<1> HIDE DEF D
<1>4. latest \in [D -> Value]
  BY <1>1, <1>3
<1>5. latest \in Values
  BY <1>2, <1>4 DEF Values
<1> QED
  BY <1>1, <1>5 DEF D

-----------------------------------------------------------------------------
(* What a step does to the files *)

\* Rows are appended to the file in use, and no other file changes.
LEMMA RowsWritten ==
  ASSUME CsvFileAssumption, FileInv,
         NEW b \in Seq(BufferRow), NEW k \in 0..Len(b),
         NEW line \in Seq(Names), NEW header \in Seq(Names), Len(line) = Len(header),
         NEW leave \in BOOLEAN, WriteRows(b, k, line, header, leave)
  PROVE  /\ files' \in Seq(FileType)
         /\ DOMAIN files \subseteq DOMAIN files'
         /\ filepath' \in DOMAIN files'
         /\ files'[filepath] = [header |-> line, rows |-> Rows \o Processed(b, k, header)]
         /\ \A f \in DOMAIN files : f # filepath => files'[f] = files[f]
         /\ \A f \in DOMAIN files' : f \notin DOMAIN files => files'[f] = NewFile
         /\ leave => filepath' \notin DOMAIN files
<1> DEFINE rows == Processed(b, k, header)
           file == [header |-> line, rows |-> Rows \o rows]
           all == [files EXCEPT ![filepath] = file]
<1>1. files \in Seq(FileType) /\ filepath \in DOMAIN files
  BY DEF FileInv
<1>2. rows \in Seq(RowType)
  BY ProcessedRows DEF FileInv
<1> HIDE DEF rows
<1>3. Rows \in Seq(RowType)
  <2>1. files[filepath] \in FileType
    BY <1>1
  <2> QED
    BY <2>1 DEF FileType, Rows
<1>4. file \in FileType
  <2>1. Rows \o rows \in Seq(RowType)
    BY <1>2, <1>3
  <2> QED
    BY <2>1 DEF FileType
<1>5. NewFile \in FileType
  BY DEF NewFile, FileType
<1>6. files' = (IF leave THEN Append(all, NewFile) ELSE all)
      /\ filepath' = (IF leave THEN Len(files) + 1 ELSE filepath)
  BY DEF WriteRows, rows
<1> HIDE DEF file, rows
<1>7. all \in Seq(FileType) /\ Len(all) = Len(files)
      /\ all[filepath] = file /\ \A f \in DOMAIN files : f # filepath => all[f] = files[f]
  BY <1>1, <1>4
<1> HIDE DEF all
<1>d. DOMAIN files = 1..Len(files) /\ DOMAIN all = 1..Len(files) /\ Len(files) \in Nat
  BY <1>1, <1>7
<1>8. CASE leave
  <2> DEFINE more == Append(all, NewFile)
  <2>1. /\ more \in Seq(FileType) /\ Len(more) = Len(files) + 1
        /\ \A f \in 1..Len(files) : more[f] = all[f]
        /\ more[Len(files) + 1] = NewFile
    BY <1>5, <1>7
  <2>2. DOMAIN more = 1..(Len(files) + 1)
    BY <2>1
  <2>3. files' = more /\ filepath' = Len(files) + 1
    BY <1>6, <1>8
  <2> HIDE DEF more
  <2>4. /\ DOMAIN files \subseteq DOMAIN more
        /\ Len(files) + 1 \in DOMAIN more
        /\ Len(files) + 1 \notin DOMAIN files
        /\ \A f \in DOMAIN more : f \notin DOMAIN files => f = Len(files) + 1
    BY <1>d, <2>2
  <2>5. \A f \in DOMAIN files : more[f] = all[f]
    BY <1>d, <2>1
  <2> QED
    BY <1>1, <1>7, <2>1, <2>3, <2>4, <2>5 DEF file, rows
<1>9. CASE ~leave
  <2>1. files' = all /\ filepath' = filepath
    BY <1>6, <1>9
  <2> QED
    BY <1>1, <1>7, <1>9, <1>d, <2>1 DEF file, rows
<1> QED
  BY <1>8, <1>9

LEMMA RowsOfConcat ==
  ASSUME NEW S, NEW s \in Seq(S), NEW t \in Seq(S)
  PROVE  /\ s \o t \in Seq(S)
         /\ Len(s \o t) = Len(s) + Len(t)
         /\ DOMAIN (s \o t) = 1..(Len(s) + Len(t))
         /\ \A i \in 1..Len(s) : (s \o t)[i] = s[i]
         /\ \A i \in 1..Len(t) : (s \o t)[Len(s) + i] = t[i]
<1>1. s \o t \in Seq(S) /\ Len(s \o t) = Len(s) + Len(t)
  OBVIOUS
<1>2. DOMAIN (s \o t) = 1..(Len(s) + Len(t))
  BY <1>1
<1>3. \A i \in 1..Len(s) : (s \o t)[i] = s[i]
  OBVIOUS
<1>4. \A i \in 1..Len(t) : (s \o t)[Len(s) + i] = t[i]
  OBVIOUS
<1> QED
  BY <1>1, <1>2, <1>3, <1>4

\* The rest stays in the buffer.
LEMMA Rest ==
  ASSUME NEW b \in Seq(BufferRow), NEW k \in 0..Len(b),
         NEW rest, rest = SubSeq(b, k + 1, Len(b))
  PROVE  /\ rest \in Seq(BufferRow)
         /\ Len(rest) = Len(b) - k
         /\ DOMAIN rest = 1..(Len(b) - k)
         /\ \A i \in 1..(Len(b) - k) : k + i \in DOMAIN b /\ rest[i] = b[k + i]
<1>1. rest \in Seq(BufferRow) /\ Len(rest) = Len(b) - k
  OBVIOUS
<1>2. DOMAIN rest = 1..(Len(b) - k)
  BY <1>1
<1>3. \A i \in 1..(Len(b) - k) : k + i \in DOMAIN b
  OBVIOUS
<1>4. \A i \in 1..(Len(b) - k) : rest[i] = b[k + i]
  OBVIOUS
<1> QED
  BY <1>1, <1>2, <1>3, <1>4

\* The rows of the file with those that are appended.
Appended(b, k, header) == Rows \o Processed(b, k, header)

LEMMA NewRows ==
  ASSUME CsvFileAssumption, FileInv,
         NEW b \in Seq(BufferRow), NEW k \in 0..Len(b), NEW header \in Seq(Names)
  PROVE  /\ Len(Rows) \in Nat /\ DOMAIN Rows = 1..Len(Rows)
         /\ Len(Appended(b, k, header)) = Len(Rows) + k
         /\ DOMAIN Appended(b, k, header) = 1..(Len(Rows) + k)
         /\ \A i \in 1..Len(Rows) : Appended(b, k, header)[i] = Rows[i]
         /\ \A j \in 1..k :
              /\ Appended(b, k, header)[Len(Rows) + j].ts = b[j].ts
              /\ DOMAIN Appended(b, k, header)[Len(Rows) + j].fields = DOMAIN header
              /\ Len(Appended(b, k, header)[Len(Rows) + j].fields) = Len(header)
              /\ \A c \in DOMAIN header :
                   Appended(b, k, header)[Len(Rows) + j].fields[c] = KnownAfter(b, j, header[c])
<1>o. PICK new : new = Appended(b, k, header)
  OBVIOUS
<1>r. PICK rows : rows = Processed(b, k, header)
  OBVIOUS
<1>1. filepath \in DOMAIN files /\ files[filepath] \in FileType /\ _latest_values \in Values
  BY DEF FileInv
<1>2. Rows \in Seq(RowType)
  BY <1>1 DEF FileType, Rows
<1>3. rows \in Seq(RowType) /\ Len(rows) = k
  BY <1>1, <1>r, ProcessedRows
<1>4. \A j \in 1..k : /\ rows[j].ts = b[j].ts
                      /\ DOMAIN rows[j].fields = DOMAIN header
                      /\ Len(rows[j].fields) = Len(header)
                      /\ \A c \in DOMAIN header : rows[j].fields[c] = KnownAfter(b, j, header[c])
  BY <1>1, <1>r, ProcessedRows
<1>n. new = Rows \o rows
  BY <1>r, <1>o DEF Appended
<1>5. /\ Len(new) = Len(Rows) + Len(rows)
      /\ DOMAIN new = 1..(Len(Rows) + Len(rows))
      /\ \A i \in 1..Len(Rows) : new[i] = Rows[i]
      /\ \A i \in 1..Len(rows) : new[Len(Rows) + i] = rows[i]
  <2>s. rows \in Seq(RowType)
    BY <1>3
  <2>1. /\ Len(Rows \o rows) = Len(Rows) + Len(rows)
        /\ DOMAIN (Rows \o rows) = 1..(Len(Rows) + Len(rows))
        /\ \A i \in 1..Len(Rows) : (Rows \o rows)[i] = Rows[i]
        /\ \A i \in 1..Len(rows) : (Rows \o rows)[Len(Rows) + i] = rows[i]
    BY <1>2, <2>s, RowsOfConcat
  <2> QED
    BY <1>n, <2>1, Zenon
<1>6. Len(Rows) \in Nat /\ DOMAIN Rows = 1..Len(Rows)
  BY <1>2
<1>7. \A j \in 1..k : new[Len(Rows) + j] = rows[j]
  BY <1>3, <1>5
<1> QED
  BY <1>o, <1>3, <1>4, <1>5, <1>6, <1>7

LEMMA NewRowsFit ==
  ASSUME CsvFileAssumption, FileInv,
         NEW b \in Seq(BufferRow), NEW k \in 0..Len(b),
         NEW line \in Seq(Names), NEW header \in Seq(Names), Len(line) = Len(header),
         Len(files[filepath].header) <= Len(line)
  PROVE  RowsFit([header |-> line, rows |-> Appended(b, k, header)])
<1>f. /\ files \in Seq(FileType) /\ filepath \in DOMAIN files
      /\ \A f \in DOMAIN files : RowsFit(files[f])
  BY DEF FileInv
<1>1. files[filepath] \in FileType
  BY <1>f
<1>2. Rows \in Seq(RowType)
  BY <1>1 DEF FileType, Rows
<1>4. \A i \in 1..Len(Rows) : Len(Rows[i].fields) <= Len(line)
  <2> SUFFICES ASSUME NEW i \in 1..Len(Rows) PROVE Len(Rows[i].fields) <= Len(line)
    OBVIOUS
  <2>1. i \in DOMAIN files[filepath].rows
    BY <1>2 DEF Rows
  <2>2. Len(Rows[i].fields) <= Len(files[filepath].header)
    BY <1>f, <2>1 DEF RowsFit, Rows
  <2>3. Rows[i] \in RowType
    BY <1>2
  <2>4. Rows[i].fields \in Seq(Value \cup {Empty})
    BY <2>3 DEF RowType
  <2>5. Len(Rows[i].fields) \in Int
    BY <2>4
  <2>6. Len(files[filepath].header) \in Int /\ Len(line) \in Int
    BY <1>1 DEF FileType
  <2> QED
    BY <2>2, <2>5, <2>6
<1>5. Len(line) <= Len(line)
  OBVIOUS
<1> DEFINE new == Appended(b, k, header)
<1>6. /\ Len(Rows) \in Nat
      /\ DOMAIN new = 1..(Len(Rows) + k)
      /\ \A i \in 1..Len(Rows) : new[i] = Rows[i]
  BY NewRows
<1>h. \A j \in 1..k :
        /\ new[Len(Rows) + j].ts = b[j].ts
        /\ DOMAIN new[Len(Rows) + j].fields = DOMAIN header
        /\ Len(new[Len(Rows) + j].fields) = Len(header)
        /\ \A c \in DOMAIN header :
             new[Len(Rows) + j].fields[c] = KnownAfter(b, j, header[c])
  BY NewRows
<1> HIDE DEF new
<1> HIDE DEF new
<1>7. ASSUME NEW i \in DOMAIN new PROVE Len(new[i].fields) <= Len(line)
  <2>1. CASE i <= Len(Rows)
    <3>1. i \in 1..Len(Rows)
      BY <1>6, <2>1
    <3> QED
      BY <1>4, <1>6, <3>1
  <2>2. CASE i > Len(Rows)
    <3>1. i - Len(Rows) \in 1..k /\ Len(Rows) + (i - Len(Rows)) = i
      BY <1>6, <2>2
    <3>2. Len(new[i].fields) = Len(header)
      BY <1>h, <3>1
    <3> QED
      BY <1>5, <3>2
  <2>3. i \in Int
    BY <1>6
  <2> QED
    BY <1>6, <2>1, <2>2, <2>3
<1>8. RowsFit([header |-> line, rows |-> new])
  BY <1>7 DEF RowsFit
<1> QED
  BY <1>8 DEF new

\* WriteRows keeps the types and turns to a new file only with an empty buffer.
LEMMA RowsWrittenTypes ==
  ASSUME CsvFileAssumption, FileInv,
         NEW b \in Seq(BufferRow), NEW k \in 0..Len(b),
         NEW line \in Seq(Names), NEW header \in Seq(Names), Len(line) = Len(header),
         InColumns(b, header), Len(files[filepath].header) <= Len(line),
         NEW leave \in BOOLEAN, leave => k = Len(b), WriteRows(b, k, line, header, leave)
  PROVE  /\ files' \in Seq(FileType)
         /\ \A f \in DOMAIN files' : RowsFit(files'[f])
         /\ filepath' \in DOMAIN files'
         /\ _header' \in Seq(Names)
         /\ Len(_header') = Len(files'[filepath'].header)
         /\ _buffer' \in Seq(BufferRow)
         /\ Len(_buffer') = Len(b) - k
         /\ InColumns(_buffer', _header')
         /\ _latest_values' \in Values
<1>2. /\ files' \in Seq(FileType)
      /\ DOMAIN files \subseteq DOMAIN files'
      /\ filepath' \in DOMAIN files'
      /\ files'[filepath] = [header |-> line, rows |-> Appended(b, k, header)]
      /\ \A f \in DOMAIN files : f # filepath => files'[f] = files[f]
      /\ \A f \in DOMAIN files' : f \notin DOMAIN files => files'[f] = NewFile
      /\ leave => filepath' \notin DOMAIN files
  BY RowsWritten DEF Appended
<1>3. /\ filepath' = IF leave THEN Len(files) + 1 ELSE filepath
      /\ _header' = IF leave THEN <<>> ELSE header
      /\ _buffer' = SubSeq(b, k + 1, Len(b))
      /\ _latest_values' = LatestAfter(b, k)
  BY DEF WriteRows
<1>4. /\ files \in Seq(FileType) /\ filepath \in DOMAIN files
      /\ \A f \in DOMAIN files : RowsFit(files[f])
      /\ _latest_values \in Values
  BY DEF FileInv
<1>5. RowsFit(files'[filepath])
  BY <1>2, NewRowsFit
<1>6. \A f \in DOMAIN files' : RowsFit(files'[f])
  <2>1. RowsFit(NewFile)
    BY DEF RowsFit, NewFile
  <2>2. \A f \in DOMAIN files' : f \in DOMAIN files => RowsFit(files'[f])
    BY <1>2, <1>4, <1>5
  <2> QED
    BY <1>2, <2>1, <2>2, Zenon
<1>7. /\ _buffer' \in Seq(BufferRow)
      /\ Len(_buffer') = Len(b) - k
      /\ DOMAIN _buffer' = 1..(Len(b) - k)
      /\ \A i \in 1..(Len(b) - k) : k + i \in DOMAIN b /\ _buffer'[i] = b[k + i]
  BY ZenonT(30), <1>3, Rest
<1>8. _latest_values' \in Values
  BY <1>3, <1>4, LatestKnown
<1>9. _header' \in Seq(Names)
  BY <1>3
<1>10. CASE leave
  <2>1. Len(_header') = 0
    BY <1>3, <1>10
  <2>2. files'[filepath'] = NewFile
    BY <1>2, <1>10
  <2>3. Len(files'[filepath'].header) = 0
    BY <2>2 DEF NewFile
  <2>4. DOMAIN _buffer' = {}
    BY <1>7, <1>10
  <2> QED
    BY <1>2, <1>6, <1>7, <1>8, <1>9, <2>1, <2>3, <2>4 DEF InColumns
<1>11. CASE ~leave
  <2>1. filepath' = filepath /\ _header' = header
    BY <1>3, <1>11
  <2>2. files'[filepath].header = line
    BY <1>2
  <2>3. InColumns(_buffer', header)
    BY <1>7 DEF InColumns
  <2> QED
    BY <1>2, <1>6, <1>7, <1>8, <1>9, <2>1, <2>2, <2>3
<1> QED
  BY <1>10, <1>11

-----------------------------------------------------------------------------
(* The steps *)

\* What write() makes of the buffer, the rows it takes out, the header line and
\* the header.
NewBuffer(ts, n) == Buffered(ts, n, Len(log) + 1)
RowsTaken(ts, n) == RowsOut(NewBuffer(ts, n))
NewLine(n) == files[filepath].header \o NewColumns(n)
NewHeader(n) == _header \o NewColumns(n)

\* write() takes rows out as long as at least buffer_target are left, and never
\* turns to a new file: the buffer of a file that is too large stays below
\* twice its length.
LEMMA WriteStep ==
  ASSUME CsvFileAssumption, FileInv, BufferBounded,
         NEW ts \in Timestamps, NEW n \in Names, write(ts, n)
  PROVE  /\ is_open /\ is_open' /\ UNCHANGED sessions
         /\ Len(log) + 1 \in Value
         /\ log' = Append(log, [ts |-> ts, name |-> n])
         /\ NewBuffer(ts, n) \in Seq(BufferRow)
         /\ RowsTaken(ts, n) \in 0..Len(NewBuffer(ts, n))
         /\ NewLine(n) \in Seq(Names) /\ NewHeader(n) \in Seq(Names)
         /\ Len(NewLine(n)) = Len(NewHeader(n))
         /\ Len(files[filepath].header) <= Len(NewLine(n))
         /\ Rng(NewHeader(n)) = Rng(_header) \cup {n}
         /\ InColumns(NewBuffer(ts, n), NewHeader(n))
         /\ WriteRows(NewBuffer(ts, n), RowsTaken(ts, n), NewLine(n), NewHeader(n), FALSE)
         /\ Len(NewBuffer(ts, n)) - RowsTaken(ts, n) < buffer_target
         /\ RowsTaken(ts, n) > 0 =>
              Len(NewBuffer(ts, n)) - RowsTaken(ts, n) = buffer_target - 1
<1>b. PICK b : b = Buffered(ts, n, Len(log) + 1)
  OBVIOUS
<1>k. PICK k : k = RowsOut(b)
  OBVIOUS
<1>h. PICK header : header = _header \o NewColumns(n)
  OBVIOUS
<1>n. PICK line : line = files[filepath].header \o NewColumns(n)
  OBVIOUS
<1>1. /\ is_open /\ UNCHANGED <<is_open, sessions>>
      /\ Len(log) < MaxWrites
      /\ log' = Append(log, [ts |-> ts, name |-> n])
      /\ WriteRows(b, k, line, header, size_limit_exceeded /\ buffer_target <= _len_buffer)
  BY <1>b, <1>k, <1>h, <1>n DEF write
<1>2. /\ files \in Seq(FileType) /\ filepath \in DOMAIN files
      /\ _buffer \in Seq(BufferRow) /\ _header \in Seq(Names)
      /\ InColumns(_buffer, _header)
      /\ Len(_header) = Len(files[filepath].header)
      /\ log \in Seq([ts : Timestamps, name : Names])
  BY DEF FileInv
<1>3. _len_buffer \in Nat /\ _len_buffer >= 1 /\ MaxWrites \in Nat
  BY DEF CsvFileAssumption
<1>4. Len(log) + 1 \in Value
  <2>1. Len(log) \in Nat
    BY <1>2
  <2> QED
    BY <1>1, <1>3, <2>1 DEF Value
<1>p. PICK p : p = Place(ts)
  OBVIOUS
<1>5. /\ b \in Seq(BufferRow)
      /\ p \in DOMAIN b
      /\ HasRow(ts) =>
           /\ p \in DOMAIN _buffer
           /\ Len(b) = Len(_buffer)
           /\ \A i \in DOMAIN _buffer : i # p => b[i] = _buffer[i]
           /\ DOMAIN b[p].values = DOMAIN _buffer[p].values \cup {n}
      /\ ~HasRow(ts) =>
           /\ Len(b) = Len(_buffer) + 1
           /\ \A i \in DOMAIN b : i > p => i - 1 \in DOMAIN _buffer /\ b[i] = _buffer[i - 1]
           /\ \A i \in 1..Len(_buffer) : i < p => b[i] = _buffer[i]
           /\ \A i \in DOMAIN b : i < p => i \in DOMAIN _buffer
           /\ DOMAIN b[p].values = {n}
  <2>1. b \in Seq(BufferRow) /\ p \in DOMAIN b
    BY <1>2, <1>4, <1>b, <1>p, BufferedRows
  <2>2. HasRow(ts) =>
           /\ p \in DOMAIN _buffer
           /\ Len(b) = Len(_buffer)
           /\ \A i \in DOMAIN _buffer : i # p => b[i] = _buffer[i]
           /\ DOMAIN b[p].values = DOMAIN _buffer[p].values \cup {n}
    BY <1>2, <1>4, <1>b, <1>p, BufferedRows
  <2>3. ~HasRow(ts) =>
           /\ Len(b) = Len(_buffer) + 1
           /\ \A i \in DOMAIN b : i > p => i - 1 \in DOMAIN _buffer /\ b[i] = _buffer[i - 1]
           /\ \A i \in 1..Len(_buffer) : i < p => b[i] = _buffer[i]
           /\ \A i \in DOMAIN b : i < p => i \in DOMAIN _buffer
           /\ DOMAIN b[p].values = {n}
    BY <1>2, <1>4, <1>b, <1>p, BufferedRows
  <2> QED
    BY <2>1, <2>2, <2>3, Zenon
<1>6. buffer_target = IF size_limit_exceeded THEN 2 * _len_buffer ELSE _len_buffer
  <2>1. Len(_buffer) \in Nat
    BY <1>2
  <2>2. size_limit_exceeded => Len(_buffer) < 2 * _len_buffer
    BY DEF BufferBounded
  <2> QED
    BY <2>2 DEF buffer_target
<1>7. buffer_target \in Nat /\ buffer_target >= 1
  BY <1>3, <1>6
<1>8. ~ (size_limit_exceeded /\ buffer_target <= _len_buffer)
  BY <1>3, <1>6
<1>9. WriteRows(b, k, line, header, FALSE)
  BY <1>1, <1>8 DEF WriteRows
<1>10. k = IF Len(b) >= buffer_target THEN Len(b) - buffer_target + 1 ELSE 0
  BY <1>k DEF RowsOut
<1> DEFINE target == buffer_target
<1>11. /\ k \in 0..Len(b)
       /\ Len(b) - k < target
       /\ k > 0 => Len(b) - k = target - 1
  <2>1. Len(b) \in Nat
    BY <1>5
  <2>2. target \in Nat /\ target >= 1 /\ k = IF Len(b) >= target THEN Len(b) - target + 1 ELSE 0
    BY <1>7, <1>10
  <2> HIDE DEF target
  <2> QED
    BY <2>1, <2>2
<1>12. /\ NewColumns(n) \in Seq(Names)
       /\ Rng(NewColumns(n)) = IF n \in Rng(_header) THEN {} ELSE {n}
  BY DEF NewColumns, Rng
<1>13. files[filepath].header \in Seq(Names)
  <2>1. files[filepath] \in FileType
    BY <1>2
  <2> QED
    BY <2>1 DEF FileType
<1>14. line \in Seq(Names) /\ Len(line) = Len(files[filepath].header) + Len(NewColumns(n))
  BY <1>12, <1>13, <1>n, RowsOfConcat
<1>15. header \in Seq(Names) /\ Len(header) = Len(_header) + Len(NewColumns(n))
  BY <1>2, <1>12, <1>h, RowsOfConcat
<1>16. Len(line) = Len(header) /\ Len(files[filepath].header) <= Len(line)
  <2>1. Len(files[filepath].header) \in Nat /\ Len(NewColumns(n)) \in Nat
    BY <1>12, <1>13
  <2> QED
    BY <1>2, <1>14, <1>15, <2>1
<1>17. Rng(header) = Rng(_header) \cup {n}
  <2>1. Rng(header) = Rng(_header) \cup Rng(NewColumns(n))
    BY <1>2, <1>12, <1>h, RngOfConcat
  <2> QED
    BY <1>12, <2>1
<1>18. InColumns(b, header)
  <2> SUFFICES ASSUME NEW i \in DOMAIN b PROVE DOMAIN b[i].values \subseteq Rng(header)
    BY DEF InColumns
  <2>1. \A j \in DOMAIN _buffer : DOMAIN _buffer[j].values \subseteq Rng(header)
    BY <1>2, <1>17 DEF InColumns
  <2>d. /\ DOMAIN b = 1..Len(b) /\ Len(b) \in Nat
        /\ DOMAIN _buffer = 1..Len(_buffer) /\ Len(_buffer) \in Nat
    BY <1>2, <1>5
  <2>2. CASE i = p
    BY <1>5, <1>17, <2>1, <2>2
  <2>3. CASE i # p /\ HasRow(ts)
    BY <1>5, <2>1, <2>3, <2>d
  <2>4. CASE i # p /\ ~HasRow(ts)
    <3>1. i < p \/ i > p
      <4>1. p \in DOMAIN b
        BY <1>5, Zenon
      <4>2. i \in 1..Len(b) /\ p \in 1..Len(b)
        BY <2>d, <4>1
      <4> QED
        BY <2>4, <4>2
    <3>2. i < p => i \in DOMAIN _buffer /\ b[i] = _buffer[i]
      BY <1>5, <2>4, <2>d
    <3>3. i > p => i - 1 \in DOMAIN _buffer /\ b[i] = _buffer[i - 1]
      BY <1>5, <2>4
    <3> QED
      BY <2>1, <3>1, <3>2, <3>3
  <2> QED
    BY <2>2, <2>3, <2>4
<1>19. /\ NewBuffer(ts, n) = b /\ RowsTaken(ts, n) = k
       /\ NewLine(n) = line /\ NewHeader(n) = header
  BY <1>b, <1>k, <1>h, <1>n DEF NewBuffer, RowsTaken, NewLine, NewHeader
<1> QED
  BY <1>1, <1>4, <1>5, <1>9, <1>11, <1>14, <1>15, <1>16, <1>17, <1>18, <1>19, Zenon

LEMMA ExitStep ==
  ASSUME FileInv, exit
  PROVE  /\ is_open /\ ~is_open' /\ UNCHANGED <<log, sessions>>
         /\ _buffer \in Seq(BufferRow) /\ Len(_buffer) \in 0..Len(_buffer)
         /\ files[filepath].header \in Seq(Names) /\ _header \in Seq(Names)
         /\ Len(files[filepath].header) = Len(_header)
         /\ InColumns(_buffer, _header)
         /\ \E leave \in BOOLEAN :
              WriteRows(_buffer, Len(_buffer), files[filepath].header, _header, leave)
<1>1. is_open /\ is_open' = FALSE /\ UNCHANGED <<log, sessions>>
  BY DEF exit
<1>2. \E leave \in BOOLEAN :
        WriteRows(_buffer, Len(_buffer), files[filepath].header, _header, leave)
  BY DEF exit
<1>3. _buffer \in Seq(BufferRow) /\ Len(_buffer) \in 0..Len(_buffer)
  BY DEF FileInv
<1>4. files[filepath] \in FileType
  BY DEF FileInv
<1>5. files[filepath].header \in Seq(Names)
  BY <1>4 DEF FileType
<1> QED
  BY <1>1, <1>2, <1>3, <1>5, Zenon DEF FileInv

LEMMA EnterStep ==
  ASSUME CsvFileAssumption, FileInv, NEW f \in DOMAIN files, enter(f)
  PROVE  /\ ~is_open /\ is_open' /\ sessions' = sessions + 1 /\ sessions < MaxSessions
         /\ filepath' = f
         /\ _header' \in Seq(Names) /\ Len(_header') = Len(files[f].header)
         /\ \A c \in DOMAIN files[f].header : _header'[c] = AsRead[files[f].header[c]]
         /\ DOMAIN _header' = DOMAIN files[f].header
         /\ _buffer' = <<>>
         /\ _latest_values' \in Values /\ DOMAIN _latest_values' = {}
         /\ UNCHANGED <<files, log>>
<1>1. /\ ~is_open /\ is_open' /\ sessions' = sessions + 1 /\ sessions < MaxSessions
      /\ filepath' = f
      /\ _header' = [c \in DOMAIN files[f].header |-> AsRead[files[f].header[c]]]
      /\ _buffer' = <<>>
      /\ _latest_values' = NoValues
      /\ UNCHANGED <<files, log>>
  BY DEF enter
<1>2. files[f] \in FileType
  BY DEF FileInv
<1>3. files[f].header \in Seq(Names)
  BY <1>2 DEF FileType
<1>4. \A n \in Names : AsRead[n] \in Names
  BY DEF CsvFileAssumption
<1>5. \A c \in DOMAIN files[f].header : files[f].header[c] \in Names
  BY <1>3
<1>6. DOMAIN files[f].header = 1..Len(files[f].header) /\ Len(files[f].header) \in Nat
  BY <1>3
<1>7. _header' \in [1..Len(files[f].header) -> Names]
  BY <1>1, <1>4, <1>5, <1>6
<1>8. _header' \in Seq(Names) /\ Len(_header') = Len(files[f].header)
  BY <1>6, <1>7
<1>9. DOMAIN _header' = DOMAIN files[f].header
  BY <1>1
<1> QED
  BY <1>1, <1>8, <1>9, NoValuesType

\* The types stay, with the buffer in its bounds.
LEMMA FileInvStep ==
  ASSUME CsvFileAssumption, FileInv, BufferBounded, [Next]_vars
  PROVE  FileInv' /\ BufferBounded'
<1>l. _len_buffer \in Nat /\ _len_buffer >= 1 /\ MaxWrites \in Nat /\ MaxSessions \in Nat
  BY DEF CsvFileAssumption
<1>1. ASSUME NEW f \in DOMAIN files, enter(f)
      PROVE  FileInv' /\ BufferBounded'
  <2>1. /\ is_open' /\ sessions' = sessions + 1 /\ sessions < MaxSessions
        /\ filepath' = f
        /\ _header' \in Seq(Names) /\ Len(_header') = Len(files[f].header)
        /\ _buffer' = <<>>
        /\ _latest_values' \in Values
        /\ UNCHANGED <<files, log>>
    BY <1>1, EnterStep
  <2>2. sessions' \in 0..MaxSessions
    BY <1>l, <2>1 DEF FileInv
  <2>3. InColumns(_buffer', _header')
    BY <2>1 DEF InColumns
  <2>4. _buffer' \in Seq(BufferRow)
    BY <2>1
  <2>i. is_open' \in BOOLEAN
    BY <1>1 DEF enter
  <2>5. FileInv'
    BY <2>1, <2>2, <2>3, <2>4, <2>i DEF FileInv, InColumns, RowsFit
  <2>6. BufferBounded'
    BY <1>l, <2>1 DEF BufferBounded
  <2> QED
    BY <2>5, <2>6
<1>2. ASSUME NEW ts \in Timestamps, NEW n \in Names, write(ts, n)
      PROVE  FileInv' /\ BufferBounded'
  <2> DEFINE b == NewBuffer(ts, n)
             k == RowsTaken(ts, n)
             line == NewLine(n)
             header == NewHeader(n)
  <2>1. /\ is_open /\ is_open' /\ UNCHANGED sessions
        /\ Len(log) + 1 \in Value
        /\ log' = Append(log, [ts |-> ts, name |-> n])
        /\ b \in Seq(BufferRow) /\ k \in 0..Len(b)
        /\ line \in Seq(Names) /\ header \in Seq(Names)
        /\ Len(line) = Len(header)
        /\ Len(files[filepath].header) <= Len(line)
        /\ InColumns(b, header)
        /\ WriteRows(b, k, line, header, FALSE)
        /\ Len(b) - k < buffer_target
    BY <1>2, WriteStep
  <2> HIDE DEF b, k, line, header
  <2>2. /\ files' \in Seq(FileType)
        /\ \A f \in DOMAIN files' : RowsFit(files'[f])
        /\ filepath' \in DOMAIN files'
        /\ _header' \in Seq(Names)
        /\ Len(_header') = Len(files'[filepath'].header)
        /\ _buffer' \in Seq(BufferRow)
        /\ Len(_buffer') = Len(b) - k
        /\ InColumns(_buffer', _header')
        /\ _latest_values' \in Values
    BY <2>1, RowsWrittenTypes
  <2>3. log' \in Seq([ts : Timestamps, name : Names]) /\ Len(log') <= MaxWrites
    <3>1. log \in Seq([ts : Timestamps, name : Names])
      BY DEF FileInv
    <3>2. [ts |-> ts, name |-> n] \in [ts : Timestamps, name : Names]
      OBVIOUS
    <3>3. Len(log) + 1 <= MaxWrites
      BY <2>1, <1>l, <3>1 DEF Value
    <3> QED
      BY <2>1, <3>1, <3>2, <3>3
  <2>i. is_open' \in BOOLEAN
    BY <1>2 DEF write, FileInv
  <2>4. FileInv'
    BY <2>1, <2>2, <2>3, <2>i DEF FileInv, InColumns, RowsFit
  <2>5. buffer_target <= (IF size_limit_exceeded THEN 2 * _len_buffer ELSE _len_buffer)
        /\ buffer_target \in Int
    <3>1. ~size_limit_exceeded => buffer_target = _len_buffer
      BY DEF buffer_target
    <3>2. buffer_target \in {_len_buffer, 2 * _len_buffer}
      BY DEF buffer_target
    <3> QED
      BY <1>l, <3>1, <3>2
  <2>6. filepath' = filepath
    BY <2>1 DEF WriteRows
  <2>7. size_limit_exceeded => size_limit_exceeded'
    <3>1. PICK rows : rows = Processed(b, k, header)
      OBVIOUS
    <3>2. files'[filepath].rows = Rows \o rows
      BY <2>1, <3>1 DEF WriteRows, FileInv
    <3>3. rows \in Seq(RowType)
      BY <2>1, <3>1, ProcessedRows DEF FileInv
    <3>4. Rows \in Seq(RowType)
      <4>1. files[filepath] \in FileType
        BY DEF FileInv
      <4> QED
        BY <4>1 DEF FileType, Rows
    <3>5. Len(Rows \o rows) = Len(Rows) + Len(rows) /\ Len(rows) \in Nat /\ Len(Rows) \in Nat
      BY <3>3, <3>4
    <3>6. file_size_limit \in Nat
      BY DEF CsvFileAssumption
    <3>7. Rows' = Rows \o rows
      BY <2>6, <3>2 DEF Rows
    <3>8. Len(Rows) > file_size_limit => Len(Rows') > file_size_limit
      BY <3>5, <3>6, <3>7
    <3> QED
      BY <3>8 DEF size_limit_exceeded
  <2>8. Len(b) - k \in Int
    BY <2>1
  <2>9. Len(_buffer') < (IF size_limit_exceeded' THEN 2 * _len_buffer ELSE _len_buffer)
    BY <1>l, <2>1, <2>2, <2>5, <2>7, <2>8
  <2> QED
    BY <2>4, <2>9 DEF BufferBounded
<1>3. ASSUME exit
      PROVE  FileInv' /\ BufferBounded'
  <2>1. /\ is_open /\ ~is_open' /\ UNCHANGED <<log, sessions>>
        /\ _buffer \in Seq(BufferRow) /\ Len(_buffer) \in 0..Len(_buffer)
        /\ files[filepath].header \in Seq(Names) /\ _header \in Seq(Names)
        /\ Len(files[filepath].header) = Len(_header)
        /\ InColumns(_buffer, _header)
    BY <1>3, ExitStep
  <2>2. PICK leave \in BOOLEAN :
          WriteRows(_buffer, Len(_buffer), files[filepath].header, _header, leave)
    BY <1>3, ExitStep
  <2>a. Len(files[filepath].header) <= Len(files[filepath].header)
    BY <2>1
  <2>3. /\ files' \in Seq(FileType)
        /\ \A f \in DOMAIN files' : RowsFit(files'[f])
        /\ filepath' \in DOMAIN files'
        /\ _header' \in Seq(Names)
        /\ Len(_header') = Len(files'[filepath'].header)
        /\ _buffer' \in Seq(BufferRow)
        /\ Len(_buffer') = Len(_buffer) - Len(_buffer)
        /\ InColumns(_buffer', _header')
        /\ _latest_values' \in Values
    BY <2>1, <2>2, <2>a, RowsWrittenTypes
  <2>i. is_open' \in BOOLEAN
    BY <1>3 DEF exit
  <2>4. Len(_buffer') = 0 /\ _buffer' = <<>>
    <3>1. Len(_buffer) \in Nat
      BY <2>1
    <3> QED
      BY <2>3, <3>1
  <2>5. FileInv'
    BY <2>1, <2>3, <2>4, <2>i DEF FileInv, InColumns, RowsFit
  <2>6. BufferBounded'
    BY <1>l, <2>4 DEF BufferBounded
  <2> QED
    BY <2>5, <2>6
<1>4. CASE UNCHANGED vars
  <2>1. FileInv'
    BY <1>4 DEF vars, FileInv, InColumns, RowsFit
  <2>2. BufferBounded'
    BY <1>4 DEF vars, BufferBounded, size_limit_exceeded, Rows
  <2> QED
    BY <2>1, <2>2
<1> QED
  BY <1>1, <1>2, <1>3, <1>4 DEF Next

\* A row is one that was there, or one of k behind those of the file in use.
OnlyAppended(k) ==
  \A f \in DOMAIN files' : \A i \in DOMAIN files'[f].rows :
    \/ f \in DOMAIN files /\ i \in DOMAIN files[f].rows
    \/ f = filepath /\ \E j \in 1..k : i = Len(Rows) + j

\* What WriteRows does to the rows: those of the files stay, and the first k rows
\* of the buffer come behind those of the file in use.
LEMMA RowsAppended ==
  ASSUME CsvFileAssumption, FileInv,
         NEW b \in Seq(BufferRow), NEW k \in 0..Len(b),
         NEW line \in Seq(Names), NEW header \in Seq(Names), Len(line) = Len(header),
         NEW leave \in BOOLEAN, WriteRows(b, k, line, header, leave)
  PROVE  /\ \A f \in DOMAIN files : \A i \in DOMAIN files[f].rows :
              /\ f \in DOMAIN files' /\ i \in DOMAIN files'[f].rows
              /\ files'[f].rows[i] = files[f].rows[i]
         /\ OnlyAppended(k)
         /\ \A j \in 1..k :
              /\ Len(Rows) + j \in DOMAIN files'[filepath].rows
              /\ files'[filepath].rows[Len(Rows) + j].ts = b[j].ts
              /\ DOMAIN files'[filepath].rows[Len(Rows) + j].fields = DOMAIN header
              /\ \A c \in DOMAIN header :
                   files'[filepath].rows[Len(Rows) + j].fields[c] = KnownAfter(b, j, header[c])
         /\ Len(files'[filepath].rows) = Len(Rows) + k
         /\ Len(Rows) \in Nat /\ DOMAIN Rows = 1..Len(Rows)
<1> DEFINE new == Appended(b, k, header)
<1>1. /\ DOMAIN files \subseteq DOMAIN files'
      /\ files'[filepath] = [header |-> line, rows |-> new]
      /\ \A f \in DOMAIN files : f # filepath => files'[f] = files[f]
      /\ \A f \in DOMAIN files' : f \notin DOMAIN files => files'[f] = NewFile
  BY RowsWritten DEF Appended
<1>2. filepath \in DOMAIN files
  BY DEF FileInv
<1>6. /\ Len(new) = Len(Rows) + k
      /\ DOMAIN new = 1..(Len(Rows) + k)
      /\ \A i \in 1..Len(Rows) : new[i] = Rows[i]
  BY NewRows
<1>5. \A j \in 1..k :
        /\ new[Len(Rows) + j].ts = b[j].ts
        /\ DOMAIN new[Len(Rows) + j].fields = DOMAIN header
        /\ \A c \in DOMAIN header :
             new[Len(Rows) + j].fields[c] = KnownAfter(b, j, header[c])
  BY NewRows
<1>8. Len(Rows) \in Nat /\ DOMAIN Rows = 1..Len(Rows)
  BY NewRows
<1> HIDE DEF new
<1>7. files'[filepath].rows = new
  BY <1>1
<1>9. \A f \in DOMAIN files : \A i \in DOMAIN files[f].rows :
        /\ f \in DOMAIN files' /\ i \in DOMAIN files'[f].rows
        /\ files'[f].rows[i] = files[f].rows[i]
  <2> SUFFICES ASSUME NEW f \in DOMAIN files, NEW i \in DOMAIN files[f].rows
               PROVE  /\ f \in DOMAIN files' /\ i \in DOMAIN files'[f].rows
                      /\ files'[f].rows[i] = files[f].rows[i]
    OBVIOUS
  <2>1. CASE f # filepath
    BY <1>1, <2>1
  <2>2. CASE f = filepath
    <3>1. i \in 1..Len(Rows)
      BY <1>8, <2>2 DEF Rows
    <3>2. i \in DOMAIN new
      BY <1>6, <1>8, <3>1
    <3>3. new[i] = Rows[i]
      BY <1>6, <3>1
    <3> QED
      BY <1>1, <1>7, <2>2, <3>2, <3>3 DEF Rows
  <2> QED
    BY <2>1, <2>2
<1>10. OnlyAppended(k)
  <2> SUFFICES ASSUME NEW f \in DOMAIN files', NEW i \in DOMAIN files'[f].rows
               PROVE  \/ f \in DOMAIN files /\ i \in DOMAIN files[f].rows
                      \/ f = filepath /\ \E j \in 1..k : i = Len(Rows) + j
    BY DEF OnlyAppended
  <2>1. CASE f = filepath
    <3>1. i \in 1..(Len(Rows) + k)
      BY <1>6, <1>7, <2>1
    <3>2. CASE i <= Len(Rows)
      BY <1>2, <1>8, <2>1, <3>1, <3>2 DEF Rows
    <3>3. CASE i > Len(Rows)
      <4>1. i - Len(Rows) \in 1..k /\ i = Len(Rows) + (i - Len(Rows))
        BY <1>8, <3>1, <3>3
      <4> QED
        BY <2>1, <4>1
    <3> QED
      BY <1>8, <3>1, <3>2, <3>3
  <2>2. CASE f # filepath /\ f \in DOMAIN files
    BY <1>1, <2>2
  <2>3. CASE f \notin DOMAIN files
    <3>1. files'[f].rows = <<>>
      BY <1>1, <2>3 DEF NewFile
    <3> QED
      BY <3>1
  <2> QED
    BY <2>1, <2>2, <2>3
<1>11. \A j \in 1..k : Len(Rows) + j \in DOMAIN new
  BY <1>6, <1>8
<1> QED
  BY <1>5, <1>6, <1>7, <1>8, <1>9, <1>10, <1>11

-----------------------------------------------------------------------------
(* The types and the buffer *)

LEMMA FileInvInit ==
  ASSUME CsvFileAssumption, Init
  PROVE  FileInv /\ BufferBounded /\ BufferSorted
<1>l. _len_buffer \in Nat /\ _len_buffer >= 1 /\ MaxWrites \in Nat /\ MaxSessions \in Nat
  BY DEF CsvFileAssumption
<1>1. NewFile \in FileType /\ RowsFit(NewFile) /\ NewFile.header = <<>>
  BY DEF NewFile, FileType, RowsFit
<1>2. files \in Seq(FileType) /\ DOMAIN files = {1} /\ files[1] = NewFile
  BY <1>1 DEF Init
<1>3. _latest_values \in Values
  BY NoValuesType DEF Init
<1>4. InColumns(_buffer, _header)
  BY DEF Init, InColumns
<1>5. /\ filepath = 1 /\ is_open = FALSE /\ _header = <<>> /\ _buffer = <<>> /\ log = <<>>
      /\ sessions = 0
  BY DEF Init
<1>6. FileInv
  <2>1. _header \in Seq(Names) /\ _buffer \in Seq(BufferRow)
        /\ log \in Seq([ts : Timestamps, name : Names]) /\ Len(log) = 0 /\ Len(_header) = 0
    BY <1>5
  <2>2. Len(files[filepath].header) = 0 /\ filepath \in DOMAIN files
    BY <1>1, <1>2, <1>5
  <2>3. \A f \in DOMAIN files : RowsFit(files[f])
    BY <1>1, <1>2
  <2>4. Len(log) <= MaxWrites /\ Len(_header) = Len(files[filepath].header)
    BY <1>l, <2>1, <2>2
  <2>5. sessions \in 0..MaxSessions
    BY <1>l, <1>5
  <2> QED
    BY <1>2, <1>3, <1>4, <1>5, <2>1, <2>2, <2>3, <2>4, <2>5, Zenon DEF FileInv
<1>7. BufferBounded
  BY <1>l, <1>5 DEF BufferBounded
<1>8. BufferSorted
  BY <1>5 DEF BufferSorted
<1> QED
  BY <1>6, <1>7, <1>8

\* The variables have their types, for files of any sizes.
THEOREM CsvFileBuffers ==
  ASSUME CsvFileAssumption
  PROVE  Spec => [](FileInv /\ BufferBounded)
<1>1. Init => FileInv /\ BufferBounded
  BY FileInvInit
<1>2. FileInv /\ BufferBounded /\ [Next]_vars => (FileInv /\ BufferBounded)'
  BY FileInvStep
<1> QED
  BY <1>1, <1>2, PTL DEF Spec

LEMMA TypesFollow ==
  ASSUME CsvFileAssumption, FileInv
  PROVE  TypeOK
<1>1. \A f \in DOMAIN files :
        /\ files[f].header \in Seq(Names)
        /\ files[f].rows \in Seq(RowType)
        /\ \A row \in Rng(files[f].rows) : Len(row.fields) <= Len(files[f].header)
  <2> SUFFICES ASSUME NEW f \in DOMAIN files
               PROVE  /\ files[f].header \in Seq(Names)
                      /\ files[f].rows \in Seq(RowType)
                      /\ \A row \in Rng(files[f].rows) : Len(row.fields) <= Len(files[f].header)
    OBVIOUS
  <2>1. files[f] \in FileType
    BY DEF FileInv
  <2>2. RowsFit(files[f])
    BY DEF FileInv
  <2>3. files[f].header \in Seq(Names) /\ files[f].rows \in Seq(RowType)
    BY <2>1 DEF FileType
  <2> QED
    BY <2>2, <2>3, Zenon DEF RowsFit, Rng
<1>2. \A i \in DOMAIN _buffer :
        /\ _buffer[i].ts \in Timestamps
        /\ Rng(_buffer[i].values) \subseteq Value
        /\ DOMAIN _buffer[i].values \subseteq Rng(_header)
  <2> SUFFICES ASSUME NEW i \in DOMAIN _buffer
               PROVE  /\ _buffer[i].ts \in Timestamps
                      /\ Rng(_buffer[i].values) \subseteq Value
                      /\ DOMAIN _buffer[i].values \subseteq Rng(_header)
    OBVIOUS
  <2>1. _buffer[i].ts \in Timestamps /\ _buffer[i].values \in Values
    BY RowParts DEF FileInv
  <2>2. \A n \in DOMAIN _buffer[i].values : _buffer[i].values[n] \in Value
    BY <2>1, ValuesAreKept
  <2>3. DOMAIN _buffer[i].values \subseteq Rng(_header)
    BY DEF FileInv, InColumns
  <2> QED
    BY <2>1, <2>2, <2>3 DEF Rng
<1>3. Rng(_latest_values) \subseteq Value
  <2>1. \A n \in DOMAIN _latest_values : _latest_values[n] \in Value
    BY ValuesAreKept DEF FileInv
  <2> QED
    BY <2>1 DEF Rng
<1> QED
  BY <1>1, <1>2, <1>3 DEF FileInv, TypeOK

\* Rows leave the buffer from its front.
LEMMA SortedStep ==
  ASSUME CsvFileAssumption, FileInv, BufferBounded, BufferSorted, [Next]_vars
  PROVE  BufferSorted'
<1>1. ASSUME NEW f \in DOMAIN files, enter(f)
      PROVE  BufferSorted'
  <2>1. _buffer' = <<>>
    BY <1>1 DEF enter
  <2> QED
    BY <2>1 DEF BufferSorted
<1>2. ASSUME NEW ts \in Timestamps, NEW n \in Names, write(ts, n)
      PROVE  BufferSorted'
  <2> DEFINE b == NewBuffer(ts, n)
             k == RowsTaken(ts, n)
  <2>1. /\ Len(log) + 1 \in Value /\ b \in Seq(BufferRow) /\ k \in 0..Len(b)
        /\ WriteRows(b, k, NewLine(n), NewHeader(n), FALSE)
    BY <1>2, WriteStep
  <2>2. Sorted(b)
    BY <2>1, BufferedStaysSorted DEF FileInv, NewBuffer
  <2> HIDE DEF b, k
  <2>3. _buffer' = SubSeq(b, k + 1, Len(b))
    BY <2>1 DEF WriteRows
  <2>4. /\ DOMAIN _buffer' = 1..(Len(b) - k)
        /\ \A i \in 1..(Len(b) - k) : k + i \in DOMAIN b /\ _buffer'[i] = b[k + i]
    BY <2>1, <2>3, Rest
  <2>5. ASSUME NEW i \in DOMAIN _buffer', NEW j \in DOMAIN _buffer', i < j
        PROVE  _buffer'[i].ts < _buffer'[j].ts
    <3>1. k + i < k + j
      BY <2>1, <2>4, <2>5
    <3> QED
      BY <2>2, <2>4, <3>1 DEF Sorted
  <2> QED
    BY <2>5 DEF BufferSorted
<1>3. ASSUME exit
      PROVE  BufferSorted'
  <2>1. ~is_open'
    BY <1>3 DEF exit
  <2>2. _buffer' = <<>>
    BY <2>1, FileInvStep DEF FileInv
  <2> QED
    BY <2>2 DEF BufferSorted
<1>4. CASE UNCHANGED vars
  BY <1>4 DEF vars, BufferSorted
<1> QED
  BY <1>1, <1>2, <1>3, <1>4 DEF Next

\* The variables have their types; what is known belongs to a column, and a row has no
\* more fields than its file has columns.
THEOREM CsvFileTypeCorrect ==
  ASSUME CsvFileAssumption
  PROVE  Spec => []TypeOK
<1>1. FileInv => TypeOK
  BY TypesFollow
<1> QED
  BY <1>1, CsvFileBuffers, PTL

\* The buffer is sorted, with one row per timestamp, and stays below twice its length
\* while the file is too large: so write() never turns to another file.
THEOREM CsvFileBufferIsInOrder ==
  ASSUME CsvFileAssumption
  PROVE  Spec => [](FileInv /\ BufferSorted /\ BufferBounded)
<1> DEFINE Inv == FileInv /\ BufferSorted /\ BufferBounded
<1>1. Init => Inv
  BY FileInvInit
<1>2. Inv /\ [Next]_vars => Inv'
  BY FileInvStep, SortedStep
<1> QED
  BY <1>1, <1>2, PTL DEF Spec

-----------------------------------------------------------------------------
(* The rows that are written *)

BufferInv == FileInv /\ BufferSorted /\ BufferBounded

\* A row that write() takes out is older than what stays, of which there are enough.
LEMMA TakenAreOlder ==
  ASSUME CsvFileAssumption, BufferInv, NEW ts \in Timestamps, NEW n \in Names, write(ts, n)
  PROVE  OthersWait(files'[filepath].rows, _buffer')
<1> DEFINE b == NewBuffer(ts, n)
           k == RowsTaken(ts, n)
           rows == files'[filepath].rows
<1>1. /\ Len(log) + 1 \in Value /\ b \in Seq(BufferRow) /\ k \in 0..Len(b)
      /\ NewLine(n) \in Seq(Names) /\ NewHeader(n) \in Seq(Names)
      /\ Len(NewLine(n)) = Len(NewHeader(n))
      /\ WriteRows(b, k, NewLine(n), NewHeader(n), FALSE)
      /\ k > 0 => Len(b) - k = buffer_target - 1
  BY WriteStep DEF BufferInv
<1>2. Sorted(b)
  BY <1>1, BufferedStaysSorted DEF BufferInv, FileInv, NewBuffer
<1>3. buffer_target >= _len_buffer /\ buffer_target \in Int /\ _len_buffer \in Int
  BY DEF buffer_target, CsvFileAssumption
<1> HIDE DEF b, k
<1>4. _buffer' = SubSeq(b, k + 1, Len(b))
  BY <1>1 DEF WriteRows
<1>5. /\ Len(_buffer') = Len(b) - k
      /\ DOMAIN _buffer' = 1..(Len(b) - k)
      /\ \A i \in 1..(Len(b) - k) : k + i \in DOMAIN b /\ _buffer'[i] = b[k + i]
  BY <1>1, <1>4, Rest
<1>6. FileInv
  BY DEF BufferInv
<1>7. /\ \A j \in 1..k :
           /\ Len(Rows) + j \in DOMAIN rows
           /\ rows[Len(Rows) + j].ts = b[j].ts
           /\ DOMAIN rows[Len(Rows) + j].fields = DOMAIN NewHeader(n)
           /\ \A c \in DOMAIN NewHeader(n) :
                rows[Len(Rows) + j].fields[c] = KnownAfter(b, j, NewHeader(n)[c])
      /\ Len(rows) = Len(Rows) + k
      /\ Len(Rows) \in Nat /\ DOMAIN Rows = 1..Len(Rows)
  BY <1>1, <1>6, RowsAppended
<1> HIDE DEF rows
<1>8. ASSUME Len(rows) > Len(Rows)
      PROVE  /\ Len(_buffer') >= _len_buffer - 1
             /\ \A i \in DOMAIN _buffer' : rows[Len(rows)].ts < _buffer'[i].ts
  <2>1. k > 0 /\ k \in Nat
    BY <1>1, <1>7, <1>8
  <2>2. Len(_buffer') >= _len_buffer - 1
    BY <1>1, <1>3, <1>5, <2>1
  <2>3. k \in DOMAIN b /\ k \in 1..k
    BY <1>1, <2>1
  <2>4. rows[Len(rows)].ts = b[k].ts
    BY <1>7, <2>3
  <2>5. ASSUME NEW i \in DOMAIN _buffer'
        PROVE  rows[Len(rows)].ts < _buffer'[i].ts
    <3>1. i \in 1..(Len(b) - k)
      BY <1>5
    <3>2. k + i \in DOMAIN b /\ _buffer'[i] = b[k + i] /\ k < k + i
      BY <1>5, <2>1, <3>1
    <3>3. b[k].ts < b[k + i].ts
      BY <1>2, <2>3, <3>2 DEF Sorted
    <3> QED
      BY <2>4, <3>2, <3>3
  <2> QED
    BY <2>2, <2>5
<1> QED
  BY <1>8 DEF OthersWait, rows

\* Rows that WriteRows appends have a field for every name with a known value.
LEMMA KnownFill ==
  ASSUME CsvFileAssumption, FileInv,
         NEW b \in Seq(BufferRow), NEW k \in 0..Len(b),
         NEW line \in Seq(Names), NEW header \in Seq(Names), Len(line) = Len(header),
         \A c \in DOMAIN _header : c \in DOMAIN header /\ header[c] = _header[c],
         NEW leave \in BOOLEAN, WriteRows(b, k, line, header, leave)
  PROVE  KnownAreFilled(files'[filepath].rows)
<1> DEFINE rows == files'[filepath].rows
<1>7. /\ \A j \in 1..k :
           /\ Len(Rows) + j \in DOMAIN rows
           /\ rows[Len(Rows) + j].ts = b[j].ts
           /\ DOMAIN rows[Len(Rows) + j].fields = DOMAIN header
           /\ \A c \in DOMAIN header :
                rows[Len(Rows) + j].fields[c] = KnownAfter(b, j, header[c])
      /\ Len(rows) = Len(Rows) + k
      /\ Len(Rows) \in Nat /\ DOMAIN Rows = 1..Len(Rows)
  BY RowsAppended
<1> HIDE DEF rows
<1>1. ASSUME NEW c \in DOMAIN _header, _header[c] \in DOMAIN _latest_values,
             NEW i \in (Len(Rows) + 1)..Len(rows)
      PROVE  rows[i].fields[c] # Empty
  <2>1. i - Len(Rows) \in 1..k /\ Len(Rows) + (i - Len(Rows)) = i
    BY <1>7
  <2> DEFINE j == i - Len(Rows)
  <2>2. rows[i].fields[c] = KnownAfter(b, j, _header[c])
    BY <1>7, <2>1
  <2>3. j \in 0..Len(b)
    BY <2>1
  <2> HIDE DEF j
  <2>4. _latest_values \in Values
    BY DEF FileInv
  <2>5. KnownAfter(b, j, _header[c]) \in Value
    BY <1>1, <2>3, <2>4, Known
  <2> QED
    BY <2>2, <2>5 DEF Empty, Value
<1> QED
  BY <1>1 DEF KnownAreFilled, rows

\* A name with a known value has a field in every row from then on; and until the file
\* is closed, a row is written only when _len_buffer - 1 later ones are waiting.
LEMMA RowsWrittenStep ==
  ASSUME CsvFileAssumption, BufferInv, [Next]_vars
  PROVE  LET rows == files'[filepath].rows
         IN  KnownAreFilled(rows) /\ (is_open' => OthersWait(rows, _buffer'))
<1> DEFINE rows == files'[filepath].rows
<1>f. FileInv /\ BufferBounded
  BY DEF BufferInv
<1>1. ASSUME files' = files
      PROVE  KnownAreFilled(rows) /\ OthersWait(rows, _buffer')
  <2>1. rows = Rows
    BY <1>1 DEF Rows
  <2>2. files[filepath] \in FileType
    BY <1>f DEF FileInv
  <2>3. Len(Rows) \in Nat
    BY <2>2 DEF FileType, Rows
  <2>4. (Len(Rows) + 1)..Len(Rows) = {} /\ ~ (Len(Rows) > Len(Rows))
    BY <2>3
  <2> HIDE DEF rows
  <2> QED
    BY <2>1, <2>4 DEF KnownAreFilled, OthersWait
<1>2. ASSUME NEW ts \in Timestamps, NEW n \in Names, write(ts, n)
      PROVE  KnownAreFilled(rows) /\ OthersWait(rows, _buffer')
  <2> DEFINE b == NewBuffer(ts, n)
             k == RowsTaken(ts, n)
  <2>1. /\ b \in Seq(BufferRow) /\ k \in 0..Len(b)
        /\ NewLine(n) \in Seq(Names) /\ NewHeader(n) \in Seq(Names)
        /\ Len(NewLine(n)) = Len(NewHeader(n))
        /\ WriteRows(b, k, NewLine(n), NewHeader(n), FALSE)
    BY <1>2, <1>f, WriteStep
  <2>2. \A c \in DOMAIN _header : c \in DOMAIN NewHeader(n) /\ NewHeader(n)[c] = _header[c]
    <3>1. _header \in Seq(Names) /\ NewColumns(n) \in Seq(Names)
      BY <1>f DEF FileInv, NewColumns
    <3> QED
      BY <3>1 DEF NewHeader
  <2> HIDE DEF b, k
  <2>3. KnownAreFilled(rows)
    BY <1>f, <2>1, <2>2, KnownFill
  <2> QED
    BY <1>2, <2>3, TakenAreOlder
<1>3. ASSUME exit
      PROVE  KnownAreFilled(rows) /\ ~is_open'
  <2>1. /\ ~is_open'
        /\ _buffer \in Seq(BufferRow) /\ Len(_buffer) \in 0..Len(_buffer)
        /\ files[filepath].header \in Seq(Names) /\ _header \in Seq(Names)
        /\ Len(files[filepath].header) = Len(_header)
    BY <1>3, <1>f, ExitStep
  <2>2. PICK leave \in BOOLEAN :
          WriteRows(_buffer, Len(_buffer), files[filepath].header, _header, leave)
    BY <1>3, <1>f, ExitStep
  <2>3. \A c \in DOMAIN _header : c \in DOMAIN _header /\ _header[c] = _header[c]
    OBVIOUS
  <2>4. KnownAreFilled(rows)
    BY <1>f, <2>1, <2>2, <2>3, KnownFill
  <2> QED
    BY <2>1, <2>4
<1>4. ASSUME NEW f \in DOMAIN files, enter(f)
      PROVE  files' = files
  BY <1>4 DEF enter
<1>5. UNCHANGED vars => files' = files
  BY DEF vars
<1> HIDE DEF rows
<1>6. KnownAreFilled(rows) /\ (is_open' => OthersWait(rows, _buffer'))
  BY <1>1, <1>2, <1>3, <1>4, <1>5 DEF Next
<1> QED
  BY <1>6 DEF rows

\* A name with a known value has a field in every row from then on; and until the file
\* is closed, a row is written only when _len_buffer - 1 later ones are waiting: a value
\* that is at most that many rows late finds its place.
THEOREM CsvFileRowsAreWritten ==
  ASSUME CsvFileAssumption
  PROVE  Spec => RowsAreWritten
<1> DEFINE Written == LET rows == files'[filepath].rows
                      IN  KnownAreFilled(rows) /\ (is_open' => OthersWait(rows, _buffer'))
<1>1. BufferInv /\ [Next]_vars => Written
  BY RowsWrittenStep
<1>2. Spec => []BufferInv
  BY CsvFileBufferIsInOrder DEF BufferInv
<1> HIDE DEF Written
<1>3. BufferInv /\ [Next]_vars => [Written]_vars
  BY <1>1
<1>4. Spec => [][Written]_vars
  BY <1>2, <1>3, PTL DEF Spec
<1> QED
  BY <1>4 DEF RowsAreWritten, Written

-----------------------------------------------------------------------------
(* No value is lost *)

\* A value of the buffer is still there after write() has put another one in, unless
\* it was of the same name and timestamp.
LEMMA BufferedHolds ==
  ASSUME CsvFileAssumption, _buffer \in Seq(BufferRow),
         NEW ts \in Timestamps, NEW n \in Names, NEW v \in Value,
         NEW b, b = Buffered(ts, n, v)
  PROVE  /\ Holds(b, ts, n, v)
         /\ \A t, m, x : Holds(_buffer, t, m, x) => Holds(b, t, m, x) \/ (t = ts /\ m = n)
<1>p. PICK p : p = Place(ts)
  OBVIOUS
<1>1. b \in Seq(BufferRow) /\ p \in DOMAIN b
  BY <1>p, BufferedRows
<1>2. b[p].ts = ts /\ n \in DOMAIN b[p].values /\ b[p].values[n] = v
  BY <1>p, BufferedRows
<1>3. Holds(b, ts, n, v)
  BY <1>1, <1>2 DEF Holds
<1>4. ASSUME NEW t, NEW m, NEW x, Holds(_buffer, t, m, x), ~ (t = ts /\ m = n)
      PROVE  Holds(b, t, m, x)
  <2>1. PICK i \in DOMAIN _buffer :
          _buffer[i].ts = t /\ m \in DOMAIN _buffer[i].values /\ _buffer[i].values[m] = x
    BY <1>4 DEF Holds
  <2>d. DOMAIN _buffer = 1..Len(_buffer) /\ DOMAIN b = 1..Len(b) /\ Len(_buffer) \in Nat
    BY <1>1
  <2>2. CASE HasRow(ts)
    <3>1. /\ p \in DOMAIN _buffer /\ _buffer[p].ts = ts
          /\ Len(b) = Len(_buffer)
          /\ \A j \in DOMAIN _buffer : j # p => b[j] = _buffer[j]
          /\ DOMAIN b[p].values = DOMAIN _buffer[p].values \cup {n}
          /\ \A y \in DOMAIN _buffer[p].values :
               y # n => b[p].values[y] = _buffer[p].values[y]
      BY <1>p, <2>2, BufferedRows
    <3>2. CASE i # p
      <4>1. i \in DOMAIN b /\ b[i] = _buffer[i]
        BY <2>d, <3>1, <3>2
      <4> QED
        BY <2>1, <4>1 DEF Holds
    <3>3. CASE i = p
      <4>1. t = ts /\ m # n
        BY <1>4, <2>1, <3>1, <3>3
      <4>2. b[p].ts = t /\ m \in DOMAIN b[p].values /\ b[p].values[m] = x
        BY <1>2, <2>1, <3>1, <3>3, <4>1
      <4> QED
        BY <1>1, <4>2 DEF Holds
    <3> QED
      BY <3>2, <3>3
  <2>3. CASE ~HasRow(ts)
    <3>1. /\ Len(b) = Len(_buffer) + 1
          /\ \A j \in 1..Len(_buffer) : j < p => b[j] = _buffer[j]
          /\ \A j \in 1..Len(_buffer) : j >= p => b[j + 1] = _buffer[j]
      BY <1>p, <2>3, BufferedRows
    <3>n. p \in Int
      BY <1>1, <2>d
    <3>2. CASE i < p
      <4>1. i \in DOMAIN b /\ b[i] = _buffer[i]
        BY <2>d, <3>1, <3>2
      <4> QED
        BY <2>1, <4>1 DEF Holds
    <3>3. CASE i >= p
      <4>1. i + 1 \in DOMAIN b /\ b[i + 1] = _buffer[i]
        BY <2>d, <3>1, <3>3
      <4> QED
        BY <2>1, <4>1 DEF Holds
    <3> QED
      BY <2>d, <3>n, <3>2, <3>3
  <2> QED
    BY <2>2, <2>3
<1> QED
  BY <1>3, <1>4

\* A row of the file has the value.
Stored(t, x) ==
  \E f \in DOMAIN files : \E row \in Rng(files[f].rows) : row.ts = t /\ x \in Rng(row.fields)

\* What is in the buffer stays there or goes to the file, and what is in a file stays.
LEMMA LeavesToFile ==
  ASSUME CsvFileAssumption, FileInv,
         NEW b \in Seq(BufferRow), NEW k \in 0..Len(b),
         NEW line \in Seq(Names), NEW header \in Seq(Names), Len(line) = Len(header),
         InColumns(b, header),
         NEW leave \in BOOLEAN, WriteRows(b, k, line, header, leave)
  PROVE  /\ \A t, m, x : Holds(b, t, m, x) => Holds(_buffer', t, m, x) \/ Stored(t, x)'
         /\ \A t, x : Stored(t, x) => Stored(t, x)'
<1>1. \A f \in DOMAIN files : \A i \in DOMAIN files[f].rows :
        /\ f \in DOMAIN files' /\ i \in DOMAIN files'[f].rows
        /\ files'[f].rows[i] = files[f].rows[i]
  BY RowsAppended
<1>2. \A j \in 1..k :
        /\ Len(Rows) + j \in DOMAIN files'[filepath].rows
        /\ files'[filepath].rows[Len(Rows) + j].ts = b[j].ts
        /\ DOMAIN files'[filepath].rows[Len(Rows) + j].fields = DOMAIN header
        /\ \A c \in DOMAIN header :
             files'[filepath].rows[Len(Rows) + j].fields[c] = KnownAfter(b, j, header[c])
  BY RowsAppended
<1>3. filepath \in DOMAIN files'
  <2>1. DOMAIN files \subseteq DOMAIN files'
    BY RowsWritten
  <2> QED
    BY <2>1 DEF FileInv
<1>4. _buffer' = SubSeq(b, k + 1, Len(b))
  BY DEF WriteRows
<1>5. /\ DOMAIN _buffer' = 1..(Len(b) - k)
      /\ \A i \in 1..(Len(b) - k) : k + i \in DOMAIN b /\ _buffer'[i] = b[k + i]
  BY <1>4, Rest
<1>l. _latest_values \in Values
  BY DEF FileInv
<1>6. ASSUME NEW t, NEW m, NEW x, Holds(b, t, m, x)
      PROVE  Holds(_buffer', t, m, x) \/ Stored(t, x)'
  <2>1. PICK i \in DOMAIN b :
          b[i].ts = t /\ m \in DOMAIN b[i].values /\ b[i].values[m] = x
    BY <1>6 DEF Holds
  <2>2. i \in 1..Len(b) /\ Len(b) \in Nat /\ k \in Nat
    OBVIOUS
  <2>3. CASE i > k
    <3>1. i - k \in 1..(Len(b) - k) /\ k + (i - k) = i
      BY <2>2, <2>3
    <3>2. i - k \in DOMAIN _buffer' /\ _buffer'[i - k] = b[i]
      BY <1>5, <3>1
    <3> QED
      BY <2>1, <3>2 DEF Holds
  <2>4. CASE i <= k
    <3>1. i \in 1..k /\ i > 0
      BY <2>2, <2>4
    <3>2. PICK c \in DOMAIN header : header[c] = m
      BY <2>1 DEF InColumns, Rng
    <3>3. i \in 0..Len(b)
      BY <2>2
    <3>4. KnownAfter(b, i, m) = x
      BY <1>l, <2>1, <3>1, <3>3, Known
    <3> DEFINE row == files'[filepath].rows[Len(Rows) + i]
    <3>5. row.ts = t /\ c \in DOMAIN row.fields /\ row.fields[c] = x
      BY <1>2, <2>1, <3>1, <3>2, <3>4
    <3>6. row \in Rng(files'[filepath].rows)
      BY <1>2, <3>1 DEF Rng
    <3>7. x \in Rng(row.fields)
      BY <3>5 DEF Rng
    <3> QED
      BY <1>3, <3>5, <3>6, <3>7 DEF Stored
  <2> QED
    BY <2>2, <2>3, <2>4
<1>7. ASSUME NEW t, NEW x, Stored(t, x)
      PROVE  Stored(t, x)'
  <2>1. PICK f \in DOMAIN files : \E row \in Rng(files[f].rows) : row.ts = t /\ x \in Rng(row.fields)
    BY <1>7 DEF Stored
  <2>2. PICK i \in DOMAIN files[f].rows :
          files[f].rows[i].ts = t /\ x \in Rng(files[f].rows[i].fields)
    BY <2>1 DEF Rng
  <2>3. files'[f].rows[i] \in Rng(files'[f].rows)
    BY <1>1 DEF Rng
  <2> QED
    BY <1>1, <2>2, <2>3 DEF Stored
<1> QED
  BY <1>6, <1>7

LEMMA NothingLostStep ==
  ASSUME CsvFileAssumption, BufferInv, NothingLost, [Next]_vars
  PROVE  NothingLost'
<1>f. FileInv /\ BufferBounded /\ log \in Seq([ts : Timestamps, name : Names])
  BY DEF BufferInv, FileInv
<1> DEFINE Kept(w) == Holds(_buffer, log[w].ts, log[w].name, w) \/ Stored(log[w].ts, w)
<1>k. \A w : Kept(w) <=> InBuffer(w) \/ InFile(w)
  BY DEF Holds, Stored, InBuffer, InFile
<1>p. \A w : Kept(w)' <=> (InBuffer(w) \/ InFile(w))'
  BY DEF Holds, Stored, InBuffer, InFile
<1> HIDE DEF Kept
<1>n. \A v \in DOMAIN log : \E w \in v..Len(log) : log[w] = log[v] /\ Kept(w)
  BY <1>k DEF NothingLost
<1>d. DOMAIN log = 1..Len(log) /\ Len(log) \in Nat
  BY <1>f
<1> DEFINE Item == [ts : Timestamps, name : Names]
<1>i. log \in Seq(Item)
  BY <1>f
<1> HIDE DEF Item
<1>t. \A w \in DOMAIN log : log[w] \in Item
  BY <1>i
<1>s. (\A v \in DOMAIN log' : \E w \in v..Len(log') : log'[w] = log'[v] /\ Kept(w)') => NothingLost'
  BY <1>p DEF NothingLost
<1>1. ASSUME log' = log, \A w \in DOMAIN log : Kept(w) => Kept(w)'
      PROVE  NothingLost'
  <2>1. ASSUME NEW v \in DOMAIN log
        PROVE  \E w \in v..Len(log) : log[w] = log[v] /\ Kept(w)'
    <3>1. PICK w \in v..Len(log) : log[w] = log[v] /\ Kept(w)
      BY <1>n
    <3>2. w \in DOMAIN log
      BY <1>d
    <3> QED
      BY <1>1, <3>1, <3>2
  <2> QED
    BY <1>1, <1>s, <2>1
<1>2. ASSUME NEW f \in DOMAIN files, enter(f)
      PROVE  NothingLost'
  <2>1. log' = log /\ files' = files /\ ~is_open
    BY <1>2 DEF enter
  <2>2. _buffer = <<>>
    BY <1>f, <2>1 DEF FileInv
  <2>3. ASSUME NEW w \in DOMAIN log, Kept(w)
        PROVE  Kept(w)'
    <3>1. ~ Holds(_buffer, log[w].ts, log[w].name, w)
      BY <2>2 DEF Holds
    <3>2. Stored(log[w].ts, w)
      BY <2>3, <3>1 DEF Kept
    <3> QED
      BY <2>1, <3>2 DEF Kept, Stored
  <2> QED
    BY <1>1, <2>1, <2>3
<1>3. ASSUME NEW ts \in Timestamps, NEW n \in Names, write(ts, n)
      PROVE  NothingLost'
  <2> DEFINE b == NewBuffer(ts, n)
             k == RowsTaken(ts, n)
             item == [ts |-> ts, name |-> n]
  <2>v. PICK new : new = Len(log) + 1
    OBVIOUS
  <2>1. /\ new \in Value /\ log' = Append(log, item)
        /\ b \in Seq(BufferRow) /\ k \in 0..Len(b)
        /\ NewLine(n) \in Seq(Names) /\ NewHeader(n) \in Seq(Names)
        /\ Len(NewLine(n)) = Len(NewHeader(n))
        /\ InColumns(b, NewHeader(n))
        /\ WriteRows(b, k, NewLine(n), NewHeader(n), FALSE)
    BY <1>3, <1>f, <2>v, WriteStep
  <2>2. _buffer \in Seq(BufferRow)
    BY <1>f DEF FileInv
  <2>3. /\ Holds(b, ts, n, new)
        /\ \A t, m, x : Holds(_buffer, t, m, x) => Holds(b, t, m, x) \/ (t = ts /\ m = n)
    BY <2>1, <2>2, <2>v, BufferedHolds DEF NewBuffer
  <2> HIDE DEF b, k
  <2>4. /\ \A t, m, x : Holds(b, t, m, x) => Holds(_buffer', t, m, x) \/ Stored(t, x)'
        /\ \A t, x : Stored(t, x) => Stored(t, x)'
    BY <1>f, <2>1, LeavesToFile
  <2>5. /\ Len(log') = new
        /\ \A w \in DOMAIN log : log'[w] = log[w]
        /\ log'[new] = item /\ item.ts = ts /\ item.name = n
    BY <1>f, <2>1, <2>v
  <2>6. Kept(new)'
    <3>1. Holds(_buffer', ts, n, new) \/ Stored(ts, new)'
      BY <2>3, <2>4
    <3>2. log'[new].ts = ts /\ log'[new].name = n
      BY <2>5
    <3> HIDE DEF item
    <3> QED
      BY <3>1, <3>2 DEF Kept
  <2>7. ASSUME NEW w \in DOMAIN log, Kept(w)
        PROVE  Kept(w)' \/ log[w] = item
    <3>1. log'[w] = log[w]
      BY <2>5
    <3>2. CASE Stored(log[w].ts, w)
      BY <2>4, <3>1, <3>2 DEF Kept
    <3>3. CASE Holds(_buffer, log[w].ts, log[w].name, w)
      <4>1. CASE Holds(b, log[w].ts, log[w].name, w)
        BY <2>4, <3>1, <4>1 DEF Kept
      <4>2. CASE log[w].ts = ts /\ log[w].name = n
        <5>1. log[w] \in [ts : Timestamps, name : Names]
          BY <1>t DEF Item
        <5>2. \A r \in [ts : Timestamps, name : Names] :
                r.ts = ts /\ r.name = n => r = [ts |-> ts, name |-> n]
          OBVIOUS
        <5> QED
          BY <4>2, <5>1, <5>2
      <4> QED
        BY <2>3, <3>3, <4>1, <4>2
    <3> QED
      BY <2>7, <3>2, <3>3 DEF Kept
  <2>8. ASSUME NEW v \in DOMAIN log'
        PROVE  \E w \in v..Len(log') : log'[w] = log'[v] /\ Kept(w)'
    <3>1. v \in 1..new
      <4>1. log' \in Seq([ts : Timestamps, name : Names])
        BY <1>f, <2>1
      <4> QED
        BY <2>5, <4>1
    <3>2. new \in v..Len(log')
      BY <1>d, <2>5, <2>v, <3>1
    <3>3. CASE v = new
      BY <2>6, <3>2, <3>3
    <3>4. CASE v # new
      <4>1. v \in DOMAIN log
        BY <1>d, <2>v, <3>1, <3>4
      <4>2. PICK w \in v..Len(log) : log[w] = log[v] /\ Kept(w)
        BY <1>n, <4>1
      <4>3. w \in DOMAIN log /\ w \in v..Len(log')
        BY <1>d, <2>5, <2>v, <4>1
      <4>4. log'[w] = log'[v] /\ log'[v] = log[w]
        BY <2>5, <4>1, <4>2, <4>3
      <4>5. CASE Kept(w)'
        BY <4>3, <4>4, <4>5
      <4>6. CASE log[w] = item
        BY <2>5, <2>6, <3>2, <4>4, <4>6
      <4> QED
        BY <2>7, <4>2, <4>3, <4>5, <4>6
    <3> QED
      BY <3>3, <3>4
  <2> QED
    BY <1>s, <2>8
<1>4. ASSUME exit
      PROVE  NothingLost'
  <2>1. /\ log' = log
        /\ _buffer \in Seq(BufferRow) /\ Len(_buffer) \in 0..Len(_buffer)
        /\ files[filepath].header \in Seq(Names) /\ _header \in Seq(Names)
        /\ Len(files[filepath].header) = Len(_header)
        /\ InColumns(_buffer, _header)
    BY <1>4, <1>f, ExitStep
  <2>2. PICK leave \in BOOLEAN :
          WriteRows(_buffer, Len(_buffer), files[filepath].header, _header, leave)
    BY <1>4, <1>f, ExitStep
  <2>3. /\ \A t, m, x : Holds(_buffer, t, m, x) => Holds(_buffer', t, m, x) \/ Stored(t, x)'
        /\ \A t, x : Stored(t, x) => Stored(t, x)'
    BY <1>f, <2>1, <2>2, LeavesToFile
  <2>4. \A w \in DOMAIN log : Kept(w) => Kept(w)'
    BY <2>1, <2>3 DEF Kept
  <2> QED
    BY <1>1, <2>1, <2>4
<1>5. CASE UNCHANGED vars
  <2>1. UNCHANGED <<log, files, _buffer>>
    BY <1>5 DEF vars
  <2>2. \A w \in DOMAIN log : Kept(w) => Kept(w)'
    BY <2>1 DEF Kept, Holds, Stored
  <2> QED
    BY <1>1, <2>1, <2>2
<1> QED
  BY <1>2, <1>3, <1>4, <1>5 DEF Next

\* Every value is in the row of its timestamp, buffered or in a file, unless a later value
\* of the same name and timestamp is: also after a file was closed and entered again, and
\* whatever white space the names have.
THEOREM CsvFileNothingLost ==
  ASSUME CsvFileAssumption
  PROVE  Spec => []NothingLost
<1> DEFINE Inv == BufferInv /\ NothingLost
<1>1. Init => Inv
  <2>1. Init => BufferInv
    BY FileInvInit DEF BufferInv
  <2>2. Init => DOMAIN log = {}
    BY DEF Init
  <2>3. DOMAIN log = {} => NothingLost
    BY DEF NothingLost
  <2> QED
    BY <2>1, <2>2, <2>3
<1>2. Inv /\ [Next]_vars => Inv'
  <2>1. BufferInv /\ [Next]_vars => BufferInv'
    BY FileInvStep, SortedStep DEF BufferInv
  <2> QED
    BY <2>1, NothingLostStep
<1> QED
  BY <1>1, <1>2, PTL DEF Spec

-----------------------------------------------------------------------------
(* The columns: of each one the header in memory has the name in the file, *)
(* or what was left of that when it was read.                              *)

ReadFrom(header, line) ==
  /\ DOMAIN header = DOMAIN line
  /\ \A c \in DOMAIN line : header[c] \in {line[c], AsRead[line[c]]}

ColumnsInv == ColumnsDistinct /\ (is_open => ReadFrom(_header, files[filepath].header))

\* A header line that has got the name n as a column, or none.
Grown(h, new, line, n) == line = h \o new /\ new \in {<<>>, <<n>>}

HasGrown(h, line, n) ==
  /\ \A c \in DOMAIN h : c \in DOMAIN line /\ line[c] = h[c]
  /\ \A c \in DOMAIN line : c \notin DOMAIN h => c = Len(h) + 1 /\ line[c] = n

\* A new column is one of both.
LEMMA ColumnAdded ==
  ASSUME NEW h \in Seq(Names), NEW g \in Seq(Names), ReadFrom(g, h), NEW n \in Names,
         NEW add, NEW l2, NEW g2, Grown(h, add, l2, n), Grown(g, add, g2, n)
  PROVE  ReadFrom(g2, l2) /\ HasGrown(h, l2, n) /\ HasGrown(g, g2, n)
<1>1. Len(g) = Len(h) /\ Len(h) \in Nat /\ DOMAIN h = 1..Len(h) /\ DOMAIN g = 1..Len(h)
  BY DEF ReadFrom
<1>g. l2 = h \o add /\ g2 = g \o add /\ add \in {<<>>, <<n>>}
  BY DEF Grown
<1>2. CASE add = <<>>
  <2>1. l2 = h /\ g2 = g
    <3>1. \A s \in Seq(Names) : s \o <<>> = s
      OBVIOUS
    <3> QED
      BY <1>2, <1>g, <3>1
  <2> QED
    BY <2>1 DEF HasGrown
<1>3. CASE add = <<n>>
  <2>1. l2 = Append(h, n) /\ g2 = Append(g, n)
    BY <1>3, <1>g
  <2>2. /\ DOMAIN Append(h, n) = 1..(Len(h) + 1) /\ DOMAIN Append(g, n) = 1..(Len(h) + 1)
        /\ \A c \in 1..Len(h) : Append(h, n)[c] = h[c] /\ Append(g, n)[c] = g[c]
        /\ Append(h, n)[Len(h) + 1] = n /\ Append(g, n)[Len(h) + 1] = n
    BY <1>1
  <2>3. \A c \in 1..(Len(h) + 1) : c \in 1..Len(h) \/ c = Len(h) + 1
    BY <1>1
  <2>4. \A c \in 1..Len(h) : c \in 1..(Len(h) + 1)
    BY <1>1
  <2>5. \A c \in 1..Len(h) : g[c] \in {h[c], AsRead[h[c]]}
    BY <1>1 DEF ReadFrom
  <2>6. /\ DOMAIN l2 = 1..(Len(h) + 1) /\ DOMAIN g2 = 1..(Len(h) + 1)
        /\ \A c \in 1..Len(h) : l2[c] = h[c] /\ g2[c] = g[c]
        /\ l2[Len(h) + 1] = n /\ g2[Len(h) + 1] = n
    BY <2>1, <2>2
  <2>7. ReadFrom(g2, l2)
    BY <2>3, <2>5, <2>6 DEF ReadFrom
  <2>8. \A c \in DOMAIN h : c \in DOMAIN l2 /\ l2[c] = h[c]
    BY <1>1, <2>4, <2>6
  <2>9. \A c \in DOMAIN g : c \in DOMAIN g2 /\ g2[c] = g[c]
    BY <1>1, <2>4, <2>6
  <2>10. \A c \in DOMAIN l2 : c \notin DOMAIN h => c = Len(h) + 1 /\ l2[c] = n
    BY <1>1, <2>3, <2>6
  <2>11. \A c \in DOMAIN g2 : c \notin DOMAIN g => c = Len(g) + 1 /\ g2[c] = n
    BY <1>1, <2>3, <2>6
  <2> QED
    BY <2>7, <2>8, <2>9, <2>10, <2>11 DEF HasGrown
<1> QED
  BY <1>2, <1>3, <1>g

\* What WriteRows does to the header lines.
LEMMA LinesWritten ==
  ASSUME CsvFileAssumption, FileInv,
         NEW b \in Seq(BufferRow), NEW k \in 0..Len(b),
         NEW line \in Seq(Names), NEW header \in Seq(Names), Len(line) = Len(header),
         NEW leave \in BOOLEAN, WriteRows(b, k, line, header, leave)
  PROVE  /\ files'[filepath].header = line
         /\ \A f \in DOMAIN files' :
              \/ f = filepath
              \/ f \in DOMAIN files /\ files'[f].header = files[f].header
              \/ files'[f].header = <<>>
<1>1. /\ files'[filepath] = [header |-> line, rows |-> Rows \o Processed(b, k, header)]
      /\ \A f \in DOMAIN files : f # filepath => files'[f] = files[f]
      /\ \A f \in DOMAIN files' : f \notin DOMAIN files => files'[f] = NewFile
  BY RowsWritten
<1>2. NewFile.header = <<>>
  BY DEF NewFile
<1>3. files'[filepath].header = line
  BY <1>1
<1> QED
  BY <1>1, <1>2, <1>3

LEMMA ColumnsStep ==
  ASSUME CsvFileAssumption, FileInv, BufferBounded, ColumnsInv, [Next]_vars
  PROVE  ColumnsInv'
<1>c. \A f \in DOMAIN files : \A c, d \in DOMAIN files[f].header :
        c # d /\ files[f].header[c] = files[f].header[d] =>
          AsRead[files[f].header[c]] # files[f].header[c]
  BY DEF ColumnsInv, ColumnsDistinct
<1>f. filepath \in DOMAIN files
  BY DEF FileInv
<1>h. \A f \in DOMAIN files : files[f].header \in Seq(Names)
  <2>1. \A f \in DOMAIN files : files[f] \in FileType
    BY DEF FileInv
  <2>2. \A file \in FileType : file.header \in Seq(Names)
    BY DEF FileType
  <2> QED
    BY <2>1, <2>2
<1>1. ASSUME NEW f \in DOMAIN files, enter(f)
      PROVE  ColumnsInv'
  <2>1. /\ filepath' = f /\ files' = files
        /\ _header' = [c \in DOMAIN files[f].header |-> AsRead[files[f].header[c]]]
    BY <1>1 DEF enter
  <2>2. ReadFrom(_header', files'[filepath'].header)
    BY <2>1 DEF ReadFrom
  <2>3. ReadFrom(_header, files[filepath].header)'
    BY <2>2 DEF ReadFrom
  <2> QED
    BY <1>c, <2>1, <2>3 DEF ColumnsInv, ColumnsDistinct
<1>2. ASSUME NEW ts \in Timestamps, NEW n \in Names, write(ts, n)
      PROVE  ColumnsInv'
  <2> DEFINE b == NewBuffer(ts, n)
             k == RowsTaken(ts, n)
             line == NewLine(n)
  <2>1. /\ is_open
        /\ b \in Seq(BufferRow) /\ k \in 0..Len(b)
        /\ line \in Seq(Names) /\ NewHeader(n) \in Seq(Names)
        /\ Len(line) = Len(NewHeader(n))
        /\ WriteRows(b, k, line, NewHeader(n), FALSE)
    BY <1>2, WriteStep
  <2> HIDE DEF b, k
  <2>h. PICK h : h = files[filepath].header
    OBVIOUS
  <2>n. PICK new : new = NewColumns(n)
    OBVIOUS
  <2>2. ReadFrom(_header, h) /\ h \in Seq(Names) /\ _header \in Seq(Names)
    BY <1>f, <1>h, <2>1, <2>h DEF ColumnsInv, FileInv
  <2>3. /\ line = h \o new /\ NewHeader(n) = _header \o new
        /\ new = IF n \in Rng(_header) THEN <<>> ELSE <<n>>
    BY <2>h, <2>n DEF NewHeader, NewLine, NewColumns
  <2>4. ReadFrom(NewHeader(n), line) /\ HasGrown(h, line, n)
    <3>1. new \in {<<>>, <<n>>}
      BY <2>3
    <3>2. Grown(h, new, line, n) /\ Grown(_header, new, NewHeader(n), n)
      BY <2>3, <3>1 DEF Grown
    <3> HIDE DEF line
    <3> QED
      BY <2>2, <3>2, ColumnAdded
  <2>c. \A c, d \in DOMAIN h : c # d /\ h[c] = h[d] => AsRead[h[c]] # h[c]
    BY <1>c, <1>f, <2>h
  <2>e. n \in Rng(_header) => line = h
    BY <2>2, <2>3
  <2> HIDE DEF line
  <2>5. \A c, d \in DOMAIN line : c # d /\ line[c] = line[d] => AsRead[line[c]] # line[c]
    <3>1. CASE n \in Rng(_header)
      BY <2>c, <2>e, <3>1
    <3>2. CASE n \notin Rng(_header)
      <4>1. \A c \in DOMAIN h : _header[c] # n
        BY <2>2, <3>2 DEF Rng, ReadFrom
      <4>2. \A c \in DOMAIN h : h[c] = n => AsRead[n] # n
        BY <2>2, <4>1 DEF ReadFrom
      <4> QED
        BY <2>c, <2>4, <4>2 DEF HasGrown
    <3> QED
      BY <3>1, <3>2
  <2>6. /\ files'[filepath].header = line
        /\ \A f \in DOMAIN files' :
             \/ f = filepath
             \/ f \in DOMAIN files /\ files'[f].header = files[f].header
             \/ files'[f].header = <<>>
    BY <2>1, LinesWritten
  <2>7. filepath' = filepath /\ _header' = NewHeader(n)
    BY <2>1 DEF WriteRows
  <2>8. ColumnsDistinct'
    BY <1>c, <2>5, <2>6 DEF ColumnsDistinct
  <2>9. ReadFrom(_header, files[filepath].header)'
    <3>1. _header' = NewHeader(n) /\ files'[filepath'].header = line
      BY <2>6, <2>7
    <3> QED
      BY <2>4, <3>1 DEF ReadFrom
  <2> QED
    BY <2>8, <2>9 DEF ColumnsInv
<1>3. ASSUME exit
      PROVE  ColumnsInv'
  <2>1. /\ ~is_open'
        /\ _buffer \in Seq(BufferRow) /\ Len(_buffer) \in 0..Len(_buffer)
        /\ files[filepath].header \in Seq(Names) /\ _header \in Seq(Names)
        /\ Len(files[filepath].header) = Len(_header)
    BY <1>3, ExitStep
  <2>2. PICK leave \in BOOLEAN :
          WriteRows(_buffer, Len(_buffer), files[filepath].header, _header, leave)
    BY <1>3, ExitStep
  <2>3. /\ files'[filepath].header = files[filepath].header
        /\ \A f \in DOMAIN files' :
             \/ f = filepath
             \/ f \in DOMAIN files /\ files'[f].header = files[f].header
             \/ files'[f].header = <<>>
    BY <2>1, <2>2, LinesWritten
  <2>4. ColumnsDistinct'
    BY <1>c, <1>f, <2>3 DEF ColumnsDistinct
  <2> QED
    BY <2>1, <2>4 DEF ColumnsInv
<1>4. CASE UNCHANGED vars
  BY <1>4 DEF vars, ColumnsInv, ColumnsDistinct, ReadFrom
<1> QED
  BY <1>1, <1>2, <1>3, <1>4 DEF Next

LEMMA ColumnsInit ==
  ASSUME Init
  PROVE  ColumnsInv
<1>1. DOMAIN files = {1} /\ files[1].header = <<>> /\ ~is_open
  BY DEF Init, NewFile
<1> QED
  BY <1>1 DEF ColumnsInv, ColumnsDistinct

\* No name that is read back as it was written has two columns in a file.
THEOREM CsvFileColumnsDistinct ==
  ASSUME CsvFileAssumption
  PROVE  Spec => []ColumnsDistinct
<1> DEFINE Inv == FileInv /\ BufferBounded /\ ColumnsInv
<1>1. Init => Inv
  BY FileInvInit, ColumnsInit
<1>2. Inv /\ [Next]_vars => Inv'
  BY FileInvStep, ColumnsStep
<1>3. Inv => ColumnsDistinct
  BY DEF ColumnsInv
<1> QED
  BY <1>1, <1>2, <1>3, PTL DEF Spec

-----------------------------------------------------------------------------
(* The fields *)

BufferLogged(buffer, items) ==
  \A i \in DOMAIN buffer : \A n \in DOMAIN buffer[i].values :
    LET v == buffer[i].values[n]
    IN  v \in DOMAIN items /\ items[v].ts = buffer[i].ts /\ items[v].name = n

LatestLogged(items) ==
  \A n \in DOMAIN _latest_values :
    _latest_values[n] \in DOMAIN items /\ items[_latest_values[n]].name = n

\* The last row of the file has what is known of the names.
LastCarries(header) ==
  \A c \in DOMAIN header : header[c] \in DOMAIN _latest_values =>
    /\ Rows # <<>> /\ c \in DOMAIN Rows[Len(Rows)].fields
    /\ Rows[Len(Rows)].fields[c] = _latest_values[header[c]]

FieldFits(f, i, c) ==
  LET v == files[f].rows[i].fields[c] IN
  v # Empty =>
    /\ v \in DOMAIN log
    /\ log[v].name \in {files[f].header[c], AsRead[files[f].header[c]]}
    /\ log[v].ts = files[f].rows[i].ts \/ CarriedOver(f, i, c)

FieldsFit ==
  \A f \in DOMAIN files : \A i \in DOMAIN files[f].rows :
    \A c \in DOMAIN files[f].rows[i].fields : FieldFits(f, i, c)

FieldsInv ==
  /\ BufferLogged(_buffer, log)
  /\ is_open => /\ LatestLogged(log)
                /\ DOMAIN _latest_values \subseteq Rng(_header)
                /\ LastCarries(_header)
  /\ FieldsFit

\* Every field of the rows that leave the buffer belongs there.
LEMMA NewFieldsFit ==
  ASSUME CsvFileAssumption, FileInv,
         NEW b \in Seq(BufferRow), NEW k \in 0..Len(b), NEW line \in Seq(Names),
         NEW header \in Seq(Names), ReadFrom(header, line), Len(line) = Len(header),
         NEW leave \in BOOLEAN, WriteRows(b, k, line, header, leave),
         BufferLogged(b, log'), LatestLogged(log'), LastCarries(header),
         NEW f, f = filepath, NEW j \in 1..k, NEW i, i = Len(Rows) + j,
         NEW c \in DOMAIN header
  PROVE  FieldFits(f, i, c)'
<1> DEFINE rows == files'[f].rows
           v == KnownAfter(b, j, header[c])
<1>a. \A g \in 1..k :
        /\ Len(Rows) + g \in DOMAIN files'[filepath].rows
        /\ files'[filepath].rows[Len(Rows) + g].ts = b[g].ts
        /\ DOMAIN files'[filepath].rows[Len(Rows) + g].fields = DOMAIN header
        /\ \A d \in DOMAIN header :
             files'[filepath].rows[Len(Rows) + g].fields[d] = KnownAfter(b, g, header[d])
  BY RowsAppended
<1>1. \A g \in 1..k :
        /\ Len(Rows) + g \in DOMAIN rows
        /\ rows[Len(Rows) + g].ts = b[g].ts
        /\ DOMAIN rows[Len(Rows) + g].fields = DOMAIN header
        /\ \A d \in DOMAIN header :
             rows[Len(Rows) + g].fields[d] = KnownAfter(b, g, header[d])
  BY <1>a
<1>r. \A h \in DOMAIN files : \A g \in DOMAIN files[h].rows :
        /\ h \in DOMAIN files' /\ g \in DOMAIN files'[h].rows
        /\ files'[h].rows[g] = files[h].rows[g]
  BY RowsAppended
<1>2. Len(Rows) \in Nat /\ DOMAIN Rows = 1..Len(Rows) /\ f \in DOMAIN files /\ f = filepath
  <2>2. Len(Rows) \in Nat /\ DOMAIN Rows = 1..Len(Rows)
    BY RowsAppended
  <2> QED
    BY <2>2 DEF FileInv
<1>3. files'[f].header = line
  BY LinesWritten
<1>4. rows[i].fields[c] = v /\ rows[i].ts = b[j].ts
  BY <1>1
<1>l. _latest_values \in Values /\ j \in 0..Len(b) /\ j > 0
  BY DEF FileInv
<1> HIDE DEF rows
<1>5. ASSUME v # Empty
      PROVE  v \in DOMAIN log' /\ log'[v].name = header[c]
  <2>1. \/ header[c] \in DOMAIN _latest_values /\ v = _latest_values[header[c]]
        \/ \E g \in 1..j : header[c] \in DOMAIN b[g].values /\ v = b[g].values[header[c]]
    BY <1>5, <1>l, Known
  <2> HIDE DEF v
  <2>2. CASE header[c] \in DOMAIN _latest_values /\ v = _latest_values[header[c]]
    BY <2>2 DEF LatestLogged
  <2>3. CASE \E g \in 1..j : header[c] \in DOMAIN b[g].values /\ v = b[g].values[header[c]]
    <3>1. PICK g \in 1..j : header[c] \in DOMAIN b[g].values /\ v = b[g].values[header[c]]
      BY <2>3
    <3>2. g \in DOMAIN b
      OBVIOUS
    <3> QED
      BY <3>1, <3>2 DEF BufferLogged
  <2> QED
    BY <2>1, <2>2, <2>3
<1>m. header[c] \in {line[c], AsRead[line[c]]}
  BY DEF ReadFrom
<1>6. CASE header[c] \in DOMAIN b[j].values
  <2>1. v = b[j].values[header[c]]
    BY <1>6, <1>l, Known
  <2>2. j \in DOMAIN b
    OBVIOUS
  <2>3. log'[v].ts = b[j].ts
    BY <1>6, <2>1, <2>2 DEF BufferLogged
  <2> HIDE DEF v
  <2> QED
    BY <1>3, <1>4, <1>5, <1>m, <2>3 DEF FieldFits, rows
<1>7. CASE header[c] \notin DOMAIN b[j].values /\ j > 1
  <2>1. v = KnownAfter(b, j - 1, header[c])
    BY <1>7, <1>l, Known
  <2>2. j - 1 \in 1..k
    BY <1>7
  <2>3. /\ DOMAIN rows[Len(Rows) + (j - 1)].fields = DOMAIN header
        /\ rows[Len(Rows) + (j - 1)].fields[c] = v
    BY <1>1, <2>1, <2>2 DEF rows
  <2>4. Len(Rows) + (j - 1) = i - 1 /\ i > 1
    BY <1>2, <2>2
  <2> HIDE DEF v
  <2>5. CarriedOver(f, i, c)'
    BY <1>4, <2>3, <2>4 DEF CarriedOver, rows
  <2> QED
    BY <1>3, <1>4, <1>5, <1>m, <2>5 DEF FieldFits, rows
<1>8. CASE header[c] \notin DOMAIN b[j].values /\ j = 1
  <2> SUFFICES ASSUME v # Empty PROVE FieldFits(f, i, c)'
    BY <1>4 DEF FieldFits, rows
  <2>0. j - 1 = 0 /\ 0 \in 0..Len(b)
    BY <1>8
  <2>1. v = KnownAfter(b, 0, header[c])
    BY <1>8, <1>l, <2>0, Known
  <2>2. KnownAfter(b, 0, header[c]) =
          IF header[c] \in DOMAIN _latest_values THEN _latest_values[header[c]] ELSE Empty
    BY <1>l, <2>0, Known
  <2>3. header[c] \in DOMAIN _latest_values /\ v = _latest_values[header[c]]
    BY <2>1, <2>2
  <2>4. /\ Rows # <<>> /\ c \in DOMAIN Rows[Len(Rows)].fields
        /\ Rows[Len(Rows)].fields[c] = v
    BY <2>3 DEF LastCarries
  <2>5. i - 1 = Len(Rows) /\ i > 1 /\ Len(Rows) \in DOMAIN files[f].rows
    <3>1. Len(Rows) # 0
      <4>1. files[f] \in FileType
        BY <1>2 DEF FileInv
      <4>2. Rows \in Seq(RowType)
        BY <4>1 DEF FileType, Rows
      <4> QED
        BY <2>4, <4>2
    <3> QED
      BY <1>2, <1>8, <3>1 DEF Rows
  <2>6. rows[i - 1] = Rows[Len(Rows)]
    BY <1>r, <1>2, <2>5 DEF rows, Rows
  <2> HIDE DEF v
  <2>7. CarriedOver(f, i, c)'
    BY <1>4, <2>4, <2>5, <2>6 DEF CarriedOver, rows
  <2> QED
    BY <1>3, <1>4, <1>5, <1>m, <2>7 DEF FieldFits, rows
<1> QED
  BY <1>6, <1>7, <1>8

\* Rows that were in a file keep what was said of them.
LEMMA OldFieldsFit ==
  ASSUME CsvFileAssumption, FileInv, FieldsFit,
         NEW b \in Seq(BufferRow), NEW k \in 0..Len(b), NEW line \in Seq(Names),
         NEW header \in Seq(Names), Len(line) = Len(header),
         NEW leave \in BOOLEAN, WriteRows(b, k, line, header, leave),
         \A v \in DOMAIN log : v \in DOMAIN log' /\ log'[v] = log[v],
         \A c \in DOMAIN files[filepath].header : line[c] = files[filepath].header[c],
         NEW f \in DOMAIN files, NEW i \in DOMAIN files[f].rows,
         NEW c \in DOMAIN files[f].rows[i].fields
  PROVE  FieldFits(f, i, c)'
<1>1. \A g \in DOMAIN files : \A h \in DOMAIN files[g].rows :
        /\ g \in DOMAIN files' /\ h \in DOMAIN files'[g].rows
        /\ files'[g].rows[h] = files[g].rows[h]
  BY RowsAppended
<1>2. files'[filepath] = [header |-> line, rows |-> Rows \o Processed(b, k, header)]
      /\ \A g \in DOMAIN files : g # filepath => files'[g] = files[g]
  BY RowsWritten
<1>3. c \in DOMAIN files[f].header
  <2>1. files[f] \in FileType /\ RowsFit(files[f])
    BY DEF FileInv
  <2>2. files[f].header \in Seq(Names) /\ files[f].rows \in Seq(RowType)
    BY <2>1 DEF FileType
  <2>3. files[f].rows[i] \in RowType
    BY <2>2
  <2>4. files[f].rows[i].fields \in Seq(Value \cup {Empty})
    BY <2>3 DEF RowType
  <2>5. Len(files[f].rows[i].fields) <= Len(files[f].header)
    BY <2>1 DEF RowsFit
  <2> DEFINE s == files[f].rows[i].fields
             t == files[f].header
  <2>6. s \in Seq(Value \cup {Empty}) /\ t \in Seq(Names) /\ Len(s) <= Len(t) /\ c \in DOMAIN s
    BY <2>2, <2>4, <2>5
  <2> HIDE DEF s, t
  <2>7. c \in DOMAIN t
    BY <2>6
  <2> QED
    BY <2>7 DEF t
<1>4. files'[f].header[c] = files[f].header[c]
  <2>1. CASE f = filepath
    BY <1>2, <1>3, <2>1
  <2>2. CASE f # filepath
    BY <1>2, <2>2
  <2> QED
    BY <2>1, <2>2
<1>5. files'[f].rows[i] = files[f].rows[i]
  BY <1>1
<1>6. FieldFits(f, i, c)
  BY DEF FieldsFit
<1>7. CarriedOver(f, i, c) => CarriedOver(f, i, c)'
  <2> SUFFICES ASSUME CarriedOver(f, i, c) PROVE CarriedOver(f, i, c)'
    OBVIOUS
  <2>1. /\ i > 1 /\ c \in DOMAIN files[f].rows[i - 1].fields
        /\ files[f].rows[i - 1].fields[c] = files[f].rows[i].fields[c]
    BY DEF CarriedOver
  <2>2. i - 1 \in DOMAIN files[f].rows
    <3>1. files[f] \in FileType
      BY DEF FileInv
    <3>2. files[f].rows \in Seq(RowType)
      BY <3>1 DEF FileType
    <3> QED
      BY <2>1, <3>2
  <2>3. files'[f].rows[i - 1] = files[f].rows[i - 1]
    BY <1>1, <2>2
  <2> QED
    BY <1>5, <2>1, <2>3 DEF CarriedOver
<1> DEFINE v == files[f].rows[i].fields[c]
<1>8. v # Empty => /\ v \in DOMAIN log
                   /\ log[v].name \in {files[f].header[c], AsRead[files[f].header[c]]}
                   /\ log[v].ts = files[f].rows[i].ts \/ CarriedOver(f, i, c)
  BY <1>6 DEF FieldFits
<1>9. v = files'[f].rows[i].fields[c]
  BY <1>5
<1> HIDE DEF v
<1>10. v # Empty => /\ v \in DOMAIN log'
                    /\ log'[v].name \in {files'[f].header[c], AsRead[files'[f].header[c]]}
                    /\ log'[v].ts = files'[f].rows[i].ts \/ CarriedOver(f, i, c)'
  BY <1>4, <1>5, <1>7, <1>8
<1> QED
  BY <1>9, <1>10 DEF FieldFits

LEMMA FieldsFitAfter ==
  ASSUME CsvFileAssumption, FileInv, FieldsFit,
         NEW b \in Seq(BufferRow), NEW k \in 0..Len(b), NEW line \in Seq(Names),
         NEW header \in Seq(Names), ReadFrom(header, line), Len(line) = Len(header),
         NEW leave \in BOOLEAN, WriteRows(b, k, line, header, leave),
         BufferLogged(b, log'), LatestLogged(log'), LastCarries(header),
         \A v \in DOMAIN log : v \in DOMAIN log' /\ log'[v] = log[v],
         \A c \in DOMAIN files[filepath].header : line[c] = files[filepath].header[c]
  PROVE  FieldsFit'
<1>1. OnlyAppended(k)
  BY RowsAppended
<1>2. \A f \in DOMAIN files : \A i \in DOMAIN files[f].rows :
        /\ f \in DOMAIN files' /\ i \in DOMAIN files'[f].rows
        /\ files'[f].rows[i] = files[f].rows[i]
  BY RowsAppended
<1>3. \A j \in 1..k :
        /\ Len(Rows) + j \in DOMAIN files'[filepath].rows
        /\ files'[filepath].rows[Len(Rows) + j].ts = b[j].ts
        /\ DOMAIN files'[filepath].rows[Len(Rows) + j].fields = DOMAIN header
        /\ \A c \in DOMAIN header :
             files'[filepath].rows[Len(Rows) + j].fields[c] = KnownAfter(b, j, header[c])
  BY RowsAppended
<1>4. ASSUME NEW f \in DOMAIN files', NEW i \in DOMAIN files'[f].rows,
             NEW c \in DOMAIN files'[f].rows[i].fields
      PROVE  FieldFits(f, i, c)'
  <2>1. CASE f \in DOMAIN files /\ i \in DOMAIN files[f].rows
    <3>1. c \in DOMAIN files[f].rows[i].fields
      BY <1>2, <2>1
    <3> QED
      BY <2>1, <3>1, OldFieldsFit
  <2>2. CASE f = filepath /\ \E j \in 1..k : i = Len(Rows) + j
    <3>1. PICK j \in 1..k : i = Len(Rows) + j
      BY <2>2
    <3>2. c \in DOMAIN header
      BY <1>3, <2>2, <3>1
    <3> QED
      BY <2>2, <3>1, <3>2, NewFieldsFit
  <2> QED
    BY <1>1, <2>1, <2>2 DEF OnlyAppended
<1> QED
  BY <1>4 DEF FieldsFit

\* The values in the buffer are those that were written for its rows.
LEMMA BufferedLogged ==
  ASSUME CsvFileAssumption, _buffer \in Seq(BufferRow), BufferLogged(_buffer, log),
         NEW ts \in Timestamps, NEW n \in Names, NEW v \in Value,
         NEW items, v \in DOMAIN items, items[v].ts = ts, items[v].name = n,
         \A w \in DOMAIN log : w \in DOMAIN items /\ items[w] = log[w],
         NEW b, b = Buffered(ts, n, v)
  PROVE  BufferLogged(b, items)
<1> DEFINE Good(row, m) == LET w == row.values[m]
                           IN  w \in DOMAIN items /\ items[w].ts = row.ts /\ items[w].name = m
<1>p. PICK p : p = Place(ts)
  OBVIOUS
<1>d. DOMAIN _buffer = 1..Len(_buffer) /\ Len(_buffer) \in Nat
  OBVIOUS
<1>1. \A i \in DOMAIN _buffer : \A m \in DOMAIN _buffer[i].values : Good(_buffer[i], m)
  <2> SUFFICES ASSUME NEW i \in DOMAIN _buffer, NEW m \in DOMAIN _buffer[i].values
               PROVE  Good(_buffer[i], m)
    OBVIOUS
  <2> DEFINE w == _buffer[i].values[m]
  <2>1. w \in DOMAIN log /\ log[w].ts = _buffer[i].ts /\ log[w].name = m
    BY DEF BufferLogged
  <2> QED
    BY <2>1
<1>s. SUFFICES \A i \in DOMAIN b : \A m \in DOMAIN b[i].values : Good(b[i], m)
  BY DEF BufferLogged
<1> SUFFICES ASSUME NEW i \in DOMAIN b, NEW m \in DOMAIN b[i].values
             PROVE  Good(b[i], m)
  OBVIOUS
<1>2. /\ b \in Seq(BufferRow) /\ p \in DOMAIN b /\ b[p].ts = ts
      /\ n \in DOMAIN b[p].values /\ b[p].values[n] = v
  BY <1>p, BufferedRows
<1>n. Good(b[p], n)
  BY <1>2
<1>i. i \in 1..Len(b) /\ p \in 1..Len(b) /\ Len(b) \in Nat
  BY <1>2
<1>3. CASE HasRow(ts)
  <2>1. /\ p \in DOMAIN _buffer /\ _buffer[p].ts = ts
        /\ Len(b) = Len(_buffer)
        /\ \A j \in DOMAIN _buffer : j # p => b[j] = _buffer[j]
        /\ DOMAIN b[p].values = DOMAIN _buffer[p].values \cup {n}
        /\ \A x \in DOMAIN _buffer[p].values :
             x # n => b[p].values[x] = _buffer[p].values[x]
    BY <1>p, <1>3, BufferedRows
  <2>2. i \in DOMAIN _buffer
    BY <1>d, <1>i, <2>1
  <2>3. CASE i # p
    BY <1>1, <2>1, <2>2, <2>3
  <2>4. CASE i = p /\ m # n
    <3>1. m \in DOMAIN _buffer[p].values /\ b[p].values[m] = _buffer[p].values[m]
      BY <2>1, <2>4
    <3>2. Good(_buffer[p], m)
      BY <1>1, <2>1, <3>1
    <3> QED
      BY <1>2, <2>1, <2>4, <3>1, <3>2
  <2> QED
    BY <1>n, <2>3, <2>4
<1>4. CASE ~HasRow(ts)
  <2>1. /\ Len(b) = Len(_buffer) + 1
        /\ \A j \in 1..Len(_buffer) : j < p => b[j] = _buffer[j]
        /\ \A j \in DOMAIN b : j > p => j - 1 \in DOMAIN _buffer /\ b[j] = _buffer[j - 1]
        /\ \A j \in DOMAIN b : j < p => j \in DOMAIN _buffer
        /\ DOMAIN b[p].values = {n}
    BY <1>p, <1>4, BufferedRows
  <2>2. CASE i < p
    <3>1. i \in DOMAIN _buffer /\ b[i] = _buffer[i]
      BY <1>d, <2>1, <2>2
    <3> QED
      BY <1>1, <3>1
  <2>3. CASE i > p
    <3>1. i - 1 \in DOMAIN _buffer /\ b[i] = _buffer[i - 1]
      BY <2>1, <2>3
    <3> QED
      BY <1>1, <3>1
  <2>4. CASE i = p /\ m # n
    \* A new row has no other value.
    BY <2>1, <2>4
  <2> QED
    BY <1>i, <1>n, <2>2, <2>3, <2>4
<1> QED
  BY <1>3, <1>4

\* What stays in the buffer was written for its rows too.
LEMMA RestLogged ==
  ASSUME NEW b \in Seq(BufferRow), NEW k \in 0..Len(b), NEW items,
         NEW rest, rest = SubSeq(b, k + 1, Len(b)), BufferLogged(b, items)
  PROVE  BufferLogged(rest, items)
<1>1. /\ DOMAIN rest = 1..(Len(b) - k)
      /\ \A i \in 1..(Len(b) - k) : k + i \in DOMAIN b /\ rest[i] = b[k + i]
  BY Rest
<1> QED
  BY <1>1 DEF BufferLogged

\* What is known after a write that does not turn to a new file.
LEMMA LatestWritten ==
  ASSUME CsvFileAssumption, FileInv,
         NEW b \in Seq(BufferRow), NEW k \in 0..Len(b), NEW line \in Seq(Names),
         NEW header \in Seq(Names), Len(line) = Len(header),
         WriteRows(b, k, line, header, FALSE),
         BufferLogged(b, log'), LatestLogged(log'), LastCarries(header),
         InColumns(b, header), DOMAIN _latest_values \subseteq Rng(header)
  PROVE  /\ LatestLogged(log)'
         /\ (DOMAIN _latest_values)' \subseteq Rng(header)
         /\ LastCarries(header)'
<1> DEFINE latest == LatestAfter(b, k)
<1>1. _latest_values' = latest
  BY DEF WriteRows
<1>2. _latest_values \in Values
  BY DEF FileInv
<1>3. /\ DOMAIN latest = DOMAIN _latest_values \cup UNION {DOMAIN b[i].values : i \in 1..k}
      /\ \A n \in DOMAIN latest : latest[n] = KnownAfter(b, k, n)
  BY <1>2, LatestKnown
<1> HIDE DEF latest
<1>d. \A i \in 1..k : i \in DOMAIN b
  OBVIOUS
<1>4. ASSUME NEW n \in DOMAIN latest
      PROVE  \/ n \in DOMAIN _latest_values /\ latest[n] = _latest_values[n]
             \/ \E i \in 1..k : n \in DOMAIN b[i].values /\ latest[n] = b[i].values[n]
  <2> DEFINE v == KnownAfter(b, k, n)
  <2>1. /\ v = Empty \/ v # Empty
        /\ \/ v = Empty
           \/ n \in DOMAIN _latest_values /\ v = _latest_values[n]
           \/ \E i \in 1..k : n \in DOMAIN b[i].values /\ v = b[i].values[n]
        /\ n \in DOMAIN _latest_values => v \in Value
        /\ \A i \in 1..k : n \in DOMAIN b[i].values => v \in Value
    BY <1>2, Known
  <2> HIDE DEF v
  <2>2. v \in Value
    BY <1>3, <2>1
  <2>3. v # Empty
    BY <2>2 DEF Value, Empty
  <2> QED
    BY <1>3, <2>1, <2>3 DEF v
<1>5. LatestLogged(log)'
  <2> SUFFICES ASSUME NEW n \in DOMAIN latest
               PROVE  latest[n] \in DOMAIN log' /\ log'[latest[n]].name = n
    BY <1>1 DEF LatestLogged
  <2>1. CASE n \in DOMAIN _latest_values /\ latest[n] = _latest_values[n]
    BY <2>1 DEF LatestLogged
  <2>2. CASE \E i \in 1..k : n \in DOMAIN b[i].values /\ latest[n] = b[i].values[n]
    BY <1>d, <2>2 DEF BufferLogged
  <2> QED
    BY <1>4, <2>1, <2>2
<1>6. (DOMAIN _latest_values)' \subseteq Rng(header)
  BY <1>1, <1>3, <1>d DEF InColumns
<1>7. LastCarries(header)'
  <2>1. filepath' = filepath
    BY DEF WriteRows
  <2>2. CASE k = 0
    <3>1. /\ Len(files'[filepath].rows) = Len(Rows) + k
          /\ Len(Rows) \in Nat /\ DOMAIN Rows = 1..Len(Rows)
      BY RowsAppended
    <3>2. \A f \in DOMAIN files : \A i \in DOMAIN files[f].rows :
            /\ f \in DOMAIN files' /\ i \in DOMAIN files'[f].rows
            /\ files'[f].rows[i] = files[f].rows[i]
      BY RowsAppended
    <3>3. \A n \in DOMAIN latest : n \in DOMAIN _latest_values /\ latest[n] = _latest_values[n]
      BY <1>4, <2>2
    <3> SUFFICES ASSUME NEW c \in DOMAIN header, header[c] \in DOMAIN latest
                 PROVE  /\ Rows' # <<>> /\ c \in DOMAIN Rows'[Len(Rows')].fields
                        /\ Rows'[Len(Rows')].fields[c] = latest[header[c]]
      BY <1>1 DEF LastCarries
    <3>4. /\ Rows # <<>> /\ c \in DOMAIN Rows[Len(Rows)].fields
          /\ Rows[Len(Rows)].fields[c] = latest[header[c]]
      BY <3>3 DEF LastCarries
    <3>5. filepath \in DOMAIN files /\ Rows \in Seq(RowType)
      <4>1. filepath \in DOMAIN files /\ files[filepath] \in FileType
        BY DEF FileInv
      <4> QED
        BY <4>1 DEF FileType, Rows
    <3>6. Len(Rows) > 0 /\ Len(Rows) \in DOMAIN Rows
      BY <3>4, <3>5
    <3>7. Rows' = files'[filepath].rows
      BY <2>1 DEF Rows
    <3>8. Len(Rows') = Len(Rows)
      BY <2>2, <3>1, <3>7
    <3>9. Len(Rows) \in DOMAIN Rows' /\ Rows'[Len(Rows)] = Rows[Len(Rows)]
      BY <3>2, <3>5, <3>6, <3>7 DEF Rows
    <3> QED
      BY <3>4, <3>8, <3>9
  <2>3. CASE k > 0
    <3>1. /\ \A j \in 1..k :
               /\ Len(Rows) + j \in DOMAIN files'[filepath].rows
               /\ files'[filepath].rows[Len(Rows) + j].ts = b[j].ts
               /\ DOMAIN files'[filepath].rows[Len(Rows) + j].fields = DOMAIN header
               /\ \A c \in DOMAIN header :
                    files'[filepath].rows[Len(Rows) + j].fields[c] = KnownAfter(b, j, header[c])
          /\ Len(files'[filepath].rows) = Len(Rows) + k
      BY RowsAppended
    <3>2. Rows' = files'[filepath].rows
      BY <2>1 DEF Rows
    <3>3. k \in 1..k
      BY <2>3
    <3>4. /\ Len(Rows') \in DOMAIN Rows'
          /\ DOMAIN Rows'[Len(Rows')].fields = DOMAIN header
          /\ \A c \in DOMAIN header : Rows'[Len(Rows')].fields[c] = KnownAfter(b, k, header[c])
      BY <3>1, <3>2, <3>3
    <3>5. Rows' # <<>>
      BY <3>4
    <3> SUFFICES ASSUME NEW c \in DOMAIN header, header[c] \in DOMAIN latest
                 PROVE  /\ Rows' # <<>> /\ c \in DOMAIN Rows'[Len(Rows')].fields
                        /\ Rows'[Len(Rows')].fields[c] = latest[header[c]]
      BY <1>1 DEF LastCarries
    <3> QED
      BY <1>3, <3>4, <3>5
  <2> QED
    BY <2>2, <2>3
<1> QED
  BY <1>5, <1>6, <1>7

LEMMA FieldsStep ==
  ASSUME CsvFileAssumption, FileInv, BufferBounded, ColumnsInv, FieldsInv, [Next]_vars
  PROVE  FieldsInv'
<1>f. /\ filepath \in DOMAIN files /\ files[filepath] \in FileType
      /\ _buffer \in Seq(BufferRow) /\ log \in Seq([ts : Timestamps, name : Names])
  BY DEF FileInv
<1>h. files[filepath].header \in Seq(Names)
  BY <1>f DEF FileType
<1>i. BufferLogged(_buffer, log) /\ FieldsFit
  BY DEF FieldsInv
<1>1. ASSUME NEW f \in DOMAIN files, enter(f)
      PROVE  FieldsInv'
  <2>1. /\ _buffer' = <<>> /\ DOMAIN _latest_values' = {}
        /\ UNCHANGED <<files, log>>
    BY <1>1, EnterStep
  <2>2. FieldsFit'
    BY <1>i, <2>1 DEF FieldsFit, FieldFits, CarriedOver
  <2>3. BufferLogged(_buffer, log)'
    BY <2>1 DEF BufferLogged
  <2>4. /\ LatestLogged(log)'
        /\ (DOMAIN _latest_values \subseteq Rng(_header))'
        /\ LastCarries(_header)'
    <3>1. \A c \in DOMAIN _header' : _header'[c] \notin DOMAIN _latest_values'
      BY <2>1
    <3> QED
      BY <2>1, <3>1 DEF LatestLogged, LastCarries
  <2> QED
    BY <2>2, <2>3, <2>4 DEF FieldsInv
<1>2. ASSUME NEW ts \in Timestamps, NEW n \in Names, write(ts, n)
      PROVE  FieldsInv'
  <2>b. PICK b : b = NewBuffer(ts, n)
    OBVIOUS
  <2>k. PICK k : k = RowsTaken(ts, n)
    OBVIOUS
  <2>l. PICK line : line = NewLine(n)
    OBVIOUS
  <2>v. PICK new : new = Len(log) + 1
    OBVIOUS
  <2>1. /\ is_open /\ is_open'
        /\ new \in Value
        /\ log' = Append(log, [ts |-> ts, name |-> n])
        /\ b \in Seq(BufferRow)
        /\ k \in 0..Len(b)
        /\ line \in Seq(Names)
        /\ Rng(NewHeader(n)) = Rng(_header) \cup {n}
        /\ InColumns(b, NewHeader(n))
        /\ WriteRows(b, k, line, NewHeader(n), FALSE)
    BY <1>2, <2>b, <2>k, <2>l, <2>v, WriteStep
  <2>h. PICK h : h = files[filepath].header
    OBVIOUS
  <2>g. PICK header : header = NewHeader(n)
    OBVIOUS
  <2>2. /\ ReadFrom(_header, h) /\ h \in Seq(Names) /\ _header \in Seq(Names)
        /\ header \in Seq(Names) /\ Len(line) = Len(header)
    BY <1>2, <1>h, <2>1, <2>g, <2>h, <2>l, WriteStep DEF ColumnsInv, FileInv
  <2>3. PICK cols : cols = NewColumns(n)
    OBVIOUS
  <2>4. /\ line = h \o cols /\ header = _header \o cols
        /\ cols = IF n \in Rng(_header) THEN <<>> ELSE <<n>>
    BY <2>3, <2>g, <2>h, <2>l DEF NewLine, NewHeader, NewColumns
  <2>5. ReadFrom(header, line) /\ HasGrown(h, line, n) /\ HasGrown(_header, header, n)
    <3>1. cols \in {<<>>, <<n>>}
      BY <2>4
    <3>2. Grown(h, cols, line, n) /\ Grown(_header, cols, header, n)
      BY <2>4, <3>1 DEF Grown
    <3> QED
      BY <2>2, <3>2, ColumnAdded
  <2>6. \A c \in DOMAIN header : header[c] \in Rng(_header) =>
          \E d \in DOMAIN _header : d = c /\ _header[d] = header[c]
    <3>1. CASE n \in Rng(_header)
      <4>1. header = _header
        BY <2>2, <2>4, <3>1
      <4> QED
        BY <4>1
    <3>2. CASE n \notin Rng(_header)
      BY <2>5, <3>2 DEF HasGrown
    <3> QED
      BY <3>1, <3>2
  <2>o. /\ LatestLogged(log)
        /\ DOMAIN _latest_values \subseteq Rng(_header)
        /\ LastCarries(_header)
    BY <2>1 DEF FieldsInv
  <2>7. /\ \A w \in DOMAIN log : w \in DOMAIN log' /\ log'[w] = log[w]
        /\ new \in DOMAIN log' /\ log'[new].ts = ts /\ log'[new].name = n
    <3> DEFINE Item == [ts : Timestamps, name : Names]
               item == [ts |-> ts, name |-> n]
    <3>1. item \in Item /\ item.ts = ts /\ item.name = n
      OBVIOUS
    <3>2. log \in Seq(Item) /\ log' = Append(log, item)
      BY <1>f, <2>1
    <3> HIDE DEF Item, item
    <3>3. /\ \A w \in DOMAIN log : w \in DOMAIN log' /\ log'[w] = log[w]
          /\ new \in DOMAIN log' /\ log'[new] = item
      BY <2>v, <3>1, <3>2
    <3> QED
      BY <3>1, <3>3
  <2>8. BufferLogged(b, log')
    <3>1. b = Buffered(ts, n, new)
      BY <2>b, <2>v DEF NewBuffer
    <3> QED
      BY <1>f, <1>i, <2>1, <2>7, <3>1, BufferedLogged
  <2>9. LatestLogged(log')
    BY <2>7, <2>o DEF LatestLogged
  <2>10. LastCarries(header)
    <3>1. ASSUME NEW c \in DOMAIN header, header[c] \in DOMAIN _latest_values
          PROVE  c \in DOMAIN _header /\ _header[c] = header[c]
      BY <2>6, <2>o, <3>1
    <3> QED
      BY <2>o, <3>1 DEF LastCarries
  <2>11. DOMAIN _latest_values \subseteq Rng(header)
    BY <2>1, <2>g, <2>o
  <2>12. WriteRows(b, k, line, header, FALSE) /\ InColumns(b, header)
    BY <2>1, <2>g
  <2>13. /\ LatestLogged(log)'
         /\ (DOMAIN _latest_values)' \subseteq Rng(header)
         /\ LastCarries(header)'
    BY <2>1, <2>2, <2>8, <2>9, <2>10, <2>11, <2>12, LatestWritten
  <2>14. FieldsFit'
    <3>1. \A c \in DOMAIN files[filepath].header : line[c] = files[filepath].header[c]
      BY <2>5, <2>h DEF HasGrown
    <3>2. FALSE \in BOOLEAN
      OBVIOUS
    <3> QED
      BY <1>i, <2>1, <2>2, <2>5, <2>7, <2>8, <2>9, <2>10, <2>12, <3>1, <3>2, FieldsFitAfter
  <2>15. _header' = header /\ _buffer' = SubSeq(b, k + 1, Len(b))
    BY <2>12 DEF WriteRows
  <2>16. BufferLogged(_buffer, log)'
    <3>1. BufferLogged(_buffer', log')
      <4>1. b \in Seq(BufferRow) /\ k \in 0..Len(b) /\ _buffer' = SubSeq(b, k + 1, Len(b))
        BY <2>1, <2>15
      <4> QED
        BY ZenonT(30), <2>8, <4>1, RestLogged
    <3> QED
      BY <3>1 DEF BufferLogged
  <2> QED
    BY <2>13, <2>14, <2>15, <2>16 DEF FieldsInv, LastCarries
<1>3. ASSUME exit
      PROVE  FieldsInv'
  <2>1. /\ is_open /\ ~is_open' /\ UNCHANGED <<log, sessions>>
        /\ _buffer \in Seq(BufferRow) /\ Len(_buffer) \in 0..Len(_buffer)
        /\ files[filepath].header \in Seq(Names) /\ _header \in Seq(Names)
        /\ Len(files[filepath].header) = Len(_header)
        /\ InColumns(_buffer, _header)
    BY <1>3, ExitStep
  <2>2. PICK leave \in BOOLEAN :
          WriteRows(_buffer, Len(_buffer), files[filepath].header, _header, leave)
    BY <1>3, ExitStep
  <2>l. PICK line : line = files[filepath].header
    OBVIOUS
  <2>h. PICK header : header = _header
    OBVIOUS
  <2>b. PICK b : b = _buffer
    OBVIOUS
  <2>3. /\ line \in Seq(Names) /\ header \in Seq(Names)
        /\ Len(line) = Len(header) /\ ReadFrom(header, line)
        /\ WriteRows(b, Len(b), line, header, leave)
        /\ b \in Seq(BufferRow) /\ Len(b) \in 0..Len(b)
    BY <2>1, <2>2, <2>b, <2>h, <2>l DEF ColumnsInv
  <2>4. BufferLogged(b, log')
    BY <1>i, <2>1, <2>b
  <2>5. LatestLogged(log') /\ LastCarries(header)
    BY <2>1, <2>h DEF FieldsInv
  <2>6. /\ \A w \in DOMAIN log : w \in DOMAIN log' /\ log'[w] = log[w]
        /\ \A c \in DOMAIN files[filepath].header : line[c] = files[filepath].header[c]
    BY <2>1, <2>l
  <2>7. FieldsFit'
    BY <1>i, <2>3, <2>4, <2>5, <2>6, FieldsFitAfter
  <2>8. _buffer' = SubSeq(b, Len(b) + 1, Len(b))
    BY <2>3 DEF WriteRows
  <2>9. BufferLogged(_buffer, log)'
    <3>1. BufferLogged(_buffer', log')
      BY ZenonT(30), <2>3, <2>4, <2>8, RestLogged
    <3> QED
      BY <3>1 DEF BufferLogged
  <2> QED
    BY <2>1, <2>7, <2>9 DEF FieldsInv
<1>4. CASE UNCHANGED vars
  <2>1. /\ UNCHANGED <<files, filepath, is_open, _header>>
        /\ UNCHANGED <<_buffer, _latest_values, log>>
    BY <1>4 DEF vars
  <2>2. BufferLogged(_buffer, log)' /\ (is_open => LatestLogged(log))'
    BY <1>i, <2>1 DEF FieldsInv, BufferLogged, LatestLogged
  <2>3. (is_open => DOMAIN _latest_values \subseteq Rng(_header) /\ LastCarries(_header))'
    BY <1>i, <2>1 DEF FieldsInv, LastCarries, Rows
  <2>4. \A f, i, c : FieldFits(f, i, c)' <=> FieldFits(f, i, c)
    BY <2>1 DEF FieldFits, CarriedOver
  <2>5. FieldsFit'
    BY <1>i, <2>1, <2>4 DEF FieldsInv, FieldsFit
  <2> QED
    BY <2>2, <2>3, <2>5 DEF FieldsInv
<1> QED
  BY <1>1, <1>2, <1>3, <1>4 DEF Next

LEMMA FieldsInit ==
  ASSUME Init
  PROVE  FieldsInv
<1>1. DOMAIN files = {1} /\ DOMAIN files[1].rows = {} /\ ~is_open /\ DOMAIN _buffer = {}
  BY DEF Init, NewFile
<1> QED
  BY <1>1 DEF FieldsInv, FieldsFit, BufferLogged

\* Every field of a file is empty, or has a value that was written under the name of its
\* column, or what is left of that when the header is read: for the timestamp of its row,
\* or carried over from the row before.
THEOREM CsvFileFieldsBelong ==
  ASSUME CsvFileAssumption
  PROVE  Spec => []FieldsBelong
<1> DEFINE Inv == FileInv /\ BufferBounded /\ ColumnsInv /\ FieldsInv
<1>1. Init => Inv
  BY FileInvInit, ColumnsInit, FieldsInit
<1>2. Inv /\ [Next]_vars => Inv'
  BY FileInvStep, ColumnsStep, FieldsStep
<1>3. Inv => FieldsBelong
  BY DEF FieldsInv, FieldsFit, FieldFits, FieldsBelong
<1> QED
  BY <1>1, <1>2, <1>3, PTL DEF Spec
=============================================================================
