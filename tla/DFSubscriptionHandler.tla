------------------------ MODULE DFSubscriptionHandler ------------------------
(***************************************************************************)
(* DFSubscriptionHandler: a table with a column per node and a row per     *)
(* timestamp.  Subscriptions push into it from several threads, others     *)
(* read or reset it.  A lock is taken for each access to the table, not    *)
(* for a whole push or get_latest, so the steps of these interleave.       *)
(*                                                                         *)
(* A new timestamp makes a new last row, also if it is an early one.  The  *)
(* entry of a cell is the number of the value that was set, so values says *)
(* where it came from; NaN pushed by a node has a number as well (the code *)
(* keeps it apart as -inf), and Fill is the NaN of a cell never set.       *)
(***************************************************************************)
EXTENDS Integers, Sequences, FiniteSetsExt

CONSTANTS
  Pushers,          \* threads that push
  Names,            \* names of nodes, the columns
  Timestamps,       \* rounded timestamps
  keep_data_rows,   \* the size_limit of the handler
  auto_fillna,      \* are missing values filled when the table is read?
  MaxSeries,        \* bound on the values of one push
  MaxValues,        \* bound on the values set
  MaxResets         \* bound on the calls of reset()

ASSUME DFAssumption ==
  /\ keep_data_rows \in Nat \ {0}
  /\ auto_fillna \in BOOLEAN
  /\ {MaxSeries, MaxValues, MaxResets} \subseteq Nat

VARIABLES
  _data,     \* self._data: a sequence of rows, each a timestamp and its cells
  columns,   \* the columns of self._data
  pc,        \* where each pusher is
  job,       \* the column it pushes to, and the timestamps it still has values for
  reader,    \* where the call of get_latest is
  resets,    \* number of calls of reset()
  made,      \* number of rows made since the last reset()
  values,    \* the column and the row (its number) of each value set since then
  was_reset  \* was the table reset since get_latest looked at its length?

pushVars == <<pc, job>>
readVars == <<reader, was_reset>>
vars == <<_data, columns, pushVars, readVars, resets, made, values>>

Fill == 0
NoRow == [n \in Names |-> Fill]
Dropped == made - Len(_data)           \* rows housekeeping has dropped

Init ==
  /\ _data = <<>>
  /\ columns = {}
  /\ pc = [p \in Pushers |-> "idle"]
  /\ job = [p \in Pushers |-> [name |-> "none", series |-> <<>>]]
  /\ reader = "idle"
  /\ resets = 0
  /\ made = 0
  /\ values = <<>>
  /\ was_reset = FALSE

-----------------------------------------------------------------------------
(* push() *)

\* The column is made if it is missing.
Push(p, n, series) ==
  /\ pc[p] = "idle"
  /\ columns' = columns \cup {n}
  /\ pc' = [pc EXCEPT ![p] = "set"]
  /\ job' = [job EXCEPT ![p] = [name |-> n, series |-> series]]
  /\ UNCHANGED <<_data, readVars, resets, made, values>>

\* Where the row of a timestamp is, or will be.
Place(ts) ==
  IF \E i \in DOMAIN _data : _data[i].ts = ts
    THEN CHOOSE i \in DOMAIN _data : _data[i].ts = ts
    ELSE Len(_data) + 1

\* Mutant: the row of a value is written anew.
WithValueAlone(ts, n, v) ==
  IF Place(ts) <= Len(_data)
    THEN [_data EXCEPT ![Place(ts)].cells = [NoRow EXCEPT ![n] = v]]
    ELSE Append(_data, [ts |-> ts, cells |-> [NoRow EXCEPT ![n] = v]])

\* self._data.loc[ts, column] = val, which makes the row if there is none.
WithValue(ts, n, v) ==
  IF Place(ts) <= Len(_data)
    THEN [_data EXCEPT ![Place(ts)].cells[n] = v]
    ELSE Append(_data, [ts |-> ts, cells |-> [NoRow EXCEPT ![n] = v]])

\* set_value() for the next value of the push; after a reset() in between the
\* column is made again.
SetValue(p) ==
  /\ pc[p] = "set"
  /\ job[p].series # <<>>
  /\ Len(values) < MaxValues
  /\ LET ts == Head(job[p].series)
         n == job[p].name
     IN  /\ _data' = WithValue(ts, n, Len(values) + 1)
         /\ columns' = columns \cup {n}
         /\ values' = Append(values, [name |-> n, row |-> Dropped + Place(ts)])
         /\ made' = IF Place(ts) > Len(_data) THEN made + 1 ELSE made
  /\ job' = [job EXCEPT ![p].series = Tail(@)]
  /\ UNCHANGED <<pc, readVars, resets>>

\* Mutant: the limit is off by one.
HousekeepingOneLess(p) ==
  /\ pc[p] = "set"
  /\ job[p].series = <<>>
  /\ _data' = SubSeq(_data, Max({1, Len(_data) - keep_data_rows + 2}), Len(_data))
  /\ pc' = [pc EXCEPT ![p] = "idle"]
  /\ UNCHANGED <<columns, job, readVars, resets, made, values>>

\* _housekeeping(): the first rows go until keep_data_rows are left.
Housekeeping(p) ==
  /\ pc[p] = "set"
  /\ job[p].series = <<>>
  /\ _data' = SubSeq(_data, Max({1, Len(_data) - keep_data_rows + 1}), Len(_data))
  /\ pc' = [pc EXCEPT ![p] = "idle"]
  /\ UNCHANGED <<columns, job, readVars, resets, made, values>>

-----------------------------------------------------------------------------
(* Reading *)

\* Mutant: fills upwards as well.
FilledBothWays(d) ==
  [i \in DOMAIN d |->
     [d[i] EXCEPT !.cells =
        [n \in Names |->
           LET set == {j \in DOMAIN d : d[j].cells[n] # Fill} IN
           IF d[i].cells[n] # Fill \/ set = {} THEN d[i].cells[n]
           ELSE d[Max(set)].cells[n]]]]

\* ffill(): a missing value is the last one above it in its column.
Filled(d) ==
  [i \in DOMAIN d |->
     [d[i] EXCEPT !.cells =
        [n \in Names |->
           LET set == {j \in 1..i : d[j].cells[n] # Fill} IN
           IF set = {} THEN Fill ELSE d[Max(set)].cells[n]]]]

\* The property data: what was filled stays filled in the table.
_data_read == IF auto_fillna THEN Filled(_data) ELSE _data

Data ==
  /\ _data' = _data_read
  /\ UNCHANGED <<columns, pushVars, readVars, resets, made, values>>

\* Mutant: the table is not looked at first.
GetLatestUnchecked ==
  /\ reader # "data"
  /\ reader' = "data"
  /\ was_reset' = FALSE
  /\ UNCHANGED <<_data, columns, pushVars, resets, made, values>>

\* get_latest(): is there a row at all?
GetLatest ==
  /\ reader # "data"
  /\ reader' = IF _data = <<>> THEN "none" ELSE "data"
  /\ was_reset' = FALSE
  /\ UNCHANGED <<_data, columns, pushVars, resets, made, values>>

\* With the lock given up and taken again, the last row of data; IndexError if
\* there is none.
GetLatestRow ==
  /\ reader = "data"
  /\ _data' = _data_read
  /\ reader' = IF _data = <<>> THEN "raised" ELSE "row"
  /\ UNCHANGED <<columns, pushVars, was_reset, resets, made, values>>

reset ==
  /\ resets < MaxResets
  /\ _data' = <<>>
  /\ columns' = {}
  /\ resets' = resets + 1
  /\ made' = 0
  /\ values' = <<>>
  /\ was_reset' = TRUE
  /\ UNCHANGED <<pushVars, reader>>

-----------------------------------------------------------------------------
Next ==
  \/ \E p \in Pushers, n \in Names, k \in 1..MaxSeries :
       \E series \in [1..k -> Timestamps] : Push(p, n, series)
  \/ \E p \in Pushers : SetValue(p) \/ Housekeeping(p)
  \/ Data \/ GetLatest \/ GetLatestRow
  \/ reset

Spec == Init /\ [][Next]_vars

-----------------------------------------------------------------------------
(* Properties *)

Entry == 1..MaxValues
Cells == [Names -> Entry \cup {Fill}]

\* Types of the variables of the handler and the threads around it; a column
\* with an entry is there.
TypeOK ==
  /\ _data \in Seq([ts : Timestamps, cells : Cells])
  /\ columns \subseteq Names
  /\ \A i \in DOMAIN _data : {n \in Names : _data[i].cells[n] # Fill} \subseteq columns
  /\ pc \in [Pushers -> {"idle", "set"}]
  /\ \A p \in Pushers : job[p].series \in Seq(Timestamps)
  /\ \A p \in Pushers : pc[p] = "set" => job[p].name \in Names
  /\ reader \in {"idle", "none", "data", "row", "raised"}
  /\ resets \in 0..MaxResets
  /\ made \in 0..MaxValues
  /\ values \in Seq([name : Names, row : Nat])
  /\ was_reset \in BOOLEAN

\* The value that was last set in a cell is there as long as its row is:
\* neither a push to another column nor the filling takes it away.
Superseded(v) == \E w \in (v + 1)..Len(values) : values[w] = values[v]
ValuesStay ==
  \A v \in DOMAIN values :
    values[v].row > Dropped /\ ~Superseded(v) =>
      _data[values[v].row - Dropped].cells[values[v].name] = v

\* An entry was set in its own column, and in its own row or one above it: no
\* row is filled with what came after it.
EntriesBelong ==
  \A i \in DOMAIN _data, n \in Names :
    LET v == _data[i].cells[n] IN
    v # Fill => v \in DOMAIN values /\ values[v].name = n /\ values[v].row <= Dropped + i

\* Housekeeping leaves the rows it is to keep, and no others once every push is
\* done, however the pushes overlapped.
Done == \A p \in Pushers : pc[p] = "idle"
RowsAreKept ==
  /\ Len(_data) >= Min({made, keep_data_rows})
  /\ Done => Len(_data) <= keep_data_rows

\* get_latest() raises only if the table was reset while it had given the lock
\* up; without that it returns a row of a table that has one.
LatestIsFound == reader = "raised" => was_reset
=============================================================================
