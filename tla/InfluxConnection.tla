-------------------------- MODULE InfluxConnection --------------------------
(***************************************************************************)
(* InfluxConnection: nodes are fields of tables of a time series database. *)
(* write and write_series send a frame for each table, read and            *)
(* read_series send a query for each; any of them may fail, and a caller   *)
(* may write while another one reads.                                      *)
(*                                                                         *)
(* A table is kept by the database as a function from its times to rows,   *)
(* and merges points of one time.  A value is the number of the call that  *)
(* wrote it, with its node.  Times are given in parts of a second.         *)
(***************************************************************************)
EXTENDS TimeSeries

CONSTANTS
  Nodes,          \* the nodes of the connection
  Table, Field,   \* of each of them
  Second,         \* the length of a second
  MaxTime,        \* bound on the times
  Times,          \* the sets of times a series may have
  Windows,        \* the windows of read_series: records of from and to
  MaxWrites       \* bound on the calls that write

InfluxAssumption ==
  /\ \A m, n \in Nodes : m # n => <<Table[m], Field[m]>> # <<Table[n], Field[n]>>
  /\ Second \in Nat \ {0}
  /\ {MaxTime, MaxWrites} \subseteq Nat
  /\ IsFiniteSet(Nodes)
  /\ \A times \in Times : times \subseteq Int /\ IsFiniteSet(times)
  /\ Windows \subseteq [from : Int, to : Int]
  /\ NaN \notin Nodes \X Nat

VARIABLES
  tables,         \* the rows of each table of the database, by their time
  now,            \* the clock
  writing,        \* the call that writes: its values, by node, and the tables left
  writes,         \* number of these calls so far
  kept,           \* the value of each node and time the database has taken last
  reading,        \* the call that reads
  columns         \* what the last call that read returned

writeVars == <<writing, writes>>
readVars == <<reading, columns>>
vars == <<tables, now, writeVars, kept, readVars>>

Tables == {Table[n] : n \in Nodes}
NodesOf(table) == {n \in Nodes : Table[n] = table}
Idle == [is |-> "idle", left |-> {}]
Value(n) == <<n, writes + 1>>

\* A function that goes before another one.
Over(f, g) == [x \in DOMAIN f \cup DOMAIN g |-> IF x \in DOMAIN f THEN f[x] ELSE g[x]]

Init ==
  /\ tables = [t \in Tables |-> <<>>]
  /\ now = 0
  /\ writing = Idle
  /\ writes = 0
  /\ kept = [n \in Nodes |-> <<>>]
  /\ reading = Idle
  /\ columns = <<>>

-----------------------------------------------------------------------------
(* Writing *)

\* _group_by_table
_group_by_table(nodes) == {Table[n] : n \in nodes}

BeginWrite(series) ==
  /\ writing.left = {} /\ writes < MaxWrites
  /\ writing' = [is |-> "write", series |-> series, left |-> _group_by_table(DOMAIN series)]
  /\ writes' = writes + 1
  /\ UNCHANGED <<tables, kept, readVars>>

\* One row for each table, at the next full second.
write ==
  \E nodes \in (SUBSET Nodes) \ {{}}, time \in now..MaxTime :
    /\ now' = time
    /\ BeginWrite([n \in nodes |-> [t \in {round_timestamp(time, Second, "ceil")} |-> Value(n)]])

\* A series for each node.  A data frame has one index for all of its columns, and
\* of the nodes with the field of a column it writes one.
write_series ==
  \E nodes \in (SUBSET Nodes) \ {{}} : \E times \in [nodes -> Times] :
    /\ BeginWrite([n \in nodes |-> [t \in times[n] |-> Value(n)]])
    /\ UNCHANGED now

\* Mutant: a frame replaces the rows of its times.
FrameReplaces(table, series) ==
  Over([t \in UNION {DOMAIN series[n] : n \in DOMAIN series \cap NodesOf(table)} |->
          [n \in {m \in DOMAIN series \cap NodesOf(table) : t \in DOMAIN series[m]} |->
             series[n][t]]],
       tables[table])

\* The database merges the points of the frame into the table; where a series has
\* no value the frame has NaN, which is not sent.
Merged(table, series) ==
  LET nodes == DOMAIN series \cap NodesOf(table)
      rows == UNION {DOMAIN series[n] : n \in nodes}
      sent(t) == {n \in nodes : t \in DOMAIN series[n]}
      old(t) == IF t \in DOMAIN tables[table] THEN tables[table][t] ELSE <<>>
  IN  Over([t \in rows |-> Over([n \in sent(t) |-> series[n][t]], old(t))], tables[table])

\* The client writes the frame of one table ...
WriteTable(table) ==
  /\ table \in writing.left
  /\ tables' = [tables EXCEPT ![table] = Merged(table, writing.series)]
  /\ kept' = [n \in Nodes |->
                IF n \in DOMAIN writing.series \cap NodesOf(table)
                  THEN Over(writing.series[n], kept[n]) ELSE kept[n]]
  /\ writing' = [writing EXCEPT !.left = @ \ {table}]
  /\ UNCHANGED <<now, writes, readVars>>

\* ... or raises, which leaves out the tables that are left.
WriteFails ==
  /\ writing.left # {}
  /\ writing' = Idle
  /\ UNCHANGED <<tables, now, writes, kept, readVars>>

-----------------------------------------------------------------------------
(* Reading *)

BeginRead(is, window, nodes) ==
  /\ reading.left = {}
  /\ reading' = [is |-> is, window |-> window, nodes |-> nodes, frames |-> <<>>,
                 left |-> _group_by_table(nodes), since |-> kept]
  /\ columns' = <<>>
  /\ UNCHANGED <<tables, now, writeVars, kept>>

read ==
  \E nodes \in (SUBSET Nodes) \ {{}} : BeginRead("read", <<>>, nodes)

\* The window in full seconds.
read_series ==
  \E nodes \in (SUBSET Nodes) \ {{}}, w \in Windows :
    BeginRead("read_series", [from |-> round_timestamp(w.from, Second, "floor"),
                              to |-> round_timestamp(w.to, Second, "floor")], nodes)

\* The query takes the rows at both ends.
InWindow(t) == reading.window.from <= t /\ t <= reading.window.to

\* build_latest_select takes the last row of the table, build_series_select those
\* of the window.
Selected(table) ==
  IF reading.is = "read" THEN {Max(DOMAIN tables[table])}
  ELSE {t \in DOMAIN tables[table] : InWindow(t)}

\* The frames side by side, once there is a frame for each table.  A
\* field selects the columns of all nodes that have it.
Joined(frames) ==
  LET all == Concat(frames)
  IN  [n \in DOMAIN frames |-> {all[m] : m \in {k \in DOMAIN frames : Field[k] = Field[n]}}]

\* The query for the fields of one table; a field nobody wrote yet is an error.
Query(table) ==
  /\ table \in reading.left
  /\ \A n \in reading.nodes \cap NodesOf(table) : DOMAIN kept[n] # {}
  /\ LET cell(t, n) == LET row == tables[table][t] IN IF n \in DOMAIN row THEN row[n] ELSE NaN
         frame == [n \in reading.nodes \cap NodesOf(table) |->
                     [t \in Selected(table) |-> cell(t, n)]]
         frames == Over(frame, reading.frames)
     IN  /\ reading' = [reading EXCEPT !.left = @ \ {table},
                                    !.frames = IF reading.left = {table} THEN <<>> ELSE frames]
         /\ columns' = IF reading.left = {table} THEN Joined(frames) ELSE columns
  /\ UNCHANGED <<tables, now, writeVars, kept>>

QueryFails ==
  /\ reading.left # {}
  /\ reading' = Idle
  /\ UNCHANGED <<tables, now, writeVars, kept, columns>>

Next ==
  \/ write \/ write_series \/ \E t \in Tables : WriteTable(t)
  \/ WriteFails
  \/ read \/ read_series \/ \E t \in Tables : Query(t)
  \/ QueryFails

Spec == Init /\ [][Next]_vars

-----------------------------------------------------------------------------
(* Properties *)

Returned(is) == reading.left = {} /\ reading.is = is /\ columns # <<>>

\* A column of n with every value that was taken when it was asked for, that one or one
\* written since, with a time in the window; and with no value of another node or time.
\* The window is in full seconds, and the value at its end is not asked of a column.
SeriesOf(n, s) ==
  /\ \A t \in DOMAIN reading.since[n] : InWindow(t) /\ t # reading.window.to =>
       t \in Filled(s) /\ s[t][2] >= reading.since[n][t][2]
  /\ \A t \in Filled(s) : s[t][1] = n /\ t \in DOMAIN kept[n] /\ InWindow(t)

\* Among the columns returned for a node is one of its own, with all that was asked for;
\* each of the others is one of another node asked for that has the same field.
SeriesIsWritten ==
  Returned("read_series") =>
    \A n \in reading.nodes :
      /\ \E s \in columns[n] : SeriesOf(n, s)
      /\ \A s \in columns[n] : \E m \in reading.nodes : Field[m] = Field[n] /\ SeriesOf(m, s)

\* A column of n whose row is as new as every value the database had taken when read was
\* called, of any node of the table; and with no value of another node.
NewestOf(n, s) ==
  /\ \A m \in NodesOf(Table[n]) : \A t \in DOMAIN reading.since[m] : \E u \in DOMAIN s : t <= u
  /\ \A t \in Filled(s) : s[t][1] = n /\ t \in DOMAIN kept[n]

\* read returns the newest row of each table.
NewestRowIsRead ==
  Returned("read") =>
    \A n \in reading.nodes :
      /\ \E s \in columns[n] : NewestOf(n, s)
      /\ \A s \in columns[n] : \E m \in reading.nodes : Field[m] = Field[n] /\ NewestOf(m, s)

\* "the partly-open interval [from_time, to_time)", of a window in full seconds.
WindowIsHalfOpen ==
  Returned("read_series") =>
    \A n \in reading.nodes : \A s \in columns[n] : \A t \in DOMAIN s :
      reading.window.from <= t /\ t < reading.window.to

\* "with one column per node field": one for each node, its own.
OneColumnPerNode ==
  Returned("read") \/ Returned("read_series") =>
    \A n \in reading.nodes : Cardinality(columns[n]) = 1

\* "Read the latest value for each requested node".
LatestIsRead ==
  Returned("read") =>
    \A n \in reading.nodes : \E s \in columns[n] : \E t \in Filled(s) :
      s[t][1] = n /\ \A u \in DOMAIN reading.since[n] : u <= t
=============================================================================
