----------------------------- MODULE MCRequests -----------------------------
(***************************************************************************)
(* Small instances of Requests: what the services may hold, the windows    *)
(* and the nodes.                                                          *)
(***************************************************************************)
EXTENDS Requests, TLC

CONSTANTS
  n1, n2,         \* nodes
  a1, a2, b1      \* nodes of the database

SomeNodes == {n1, n2}

WindowsOf(froms, tos, intervals) == [from : froms, to : tos, interval : intervals]

-----------------------------------------------------------------------------
(* ENTSO-E: gaps at the begin, inside and at the end of a series, two        *)
(* resolutions of a column, series that overlap or are out of order, also    *)
(* beside another column, and columns with no time in common.                *)

TS(column, resolution, start, end, holes) ==
  [column |-> column, resolution |-> resolution, start |-> start, end |-> end, holes |-> holes]

Documents ==
  {<<TS("c1", 1, 0, 6, {1, 2}), TS("c2", 2, 0, 4, {})>>,
   <<TS("c1", 1, 0, 6, {3}), TS("c2", 1, 2, 4, {})>>,
   <<TS("c1", 1, 0, 3, {}), TS("c1", 1, 2, 6, {4})>>,
   <<TS("c1", 2, 4, 6, {}), TS("c1", 2, 0, 4, {2})>>,
   <<TS("c1", 1, 0, 2, {}), TS("c2", 1, 4, 6, {})>>,
   <<TS("c1", 1, 0, 3, {}), TS("c1", 1, 2, 4, {}), TS("c2", 1, 0, 6, {})>>,
   <<TS("c1", 1, 0, 3, {}), TS("c1", 1, 2, 6, {4}), TS("c2", 1, 2, 4, {})>>}

Fails(known) ==
  [known |-> known, works |-> FALSE, series |-> <<TS("c1", 1, 0, 6, {})>>]
SomeHeld ==
  [known : {TRUE}, works : {TRUE}, series : Documents] \cup {Fails(TRUE), Fails(FALSE)}
SomeWindows == WindowsOf(0..3, 4..6, {1, 2})

\* What the theorem about the answer of a call assumes of them.
ASSUME DocumentsAssumption == Entsoe!NothingHidden

(* SMARD: chunks of three ticks, up to two of them, of which a window may    *)
(* begin in either.                                                          *)
SomeOutages == {{}, {1}, {2, 3}}

(* forecast.solar: one day with times off the quarters, and two with a       *)
(* night in between.                                                         *)
SomeForecasts ==
  {[t \in {2, 4, 6, 8} |-> CASE t = 4 -> 24 [] t = 6 -> 48 [] OTHER -> 0],
   [t \in {3, 4, 7, 15, 16, 18} |-> IF t \in {4, 16} THEN 36 ELSE 0]}
SomeTypes == {"watts", "watthours/period", "watthours", "watthours/day"}
DayWindows == WindowsOf({1, 4, 5}, {6, 9, 17}, {1, 2})

(* Weather: stations whose times differ, one of them without any.            *)
Observed == {{0, 2, 3}, {1, 2, 5}} \X {{}, {0, 1, 4}}
SomePublished == {[s \in {"1st", "2nd"} |-> IF s = "1st" THEN x[1] ELSE x[2]] : x \in Observed}
SomeWeather == WindowsOf(0..1, 4..5, {1, 2, 3})

(* Influx: two tables, two fields in one of them, one field in both.         *)
SomeSeries == {a1, a2, b1}
SomeTables == (a1 :> "a") @@ (a2 :> "a") @@ (b1 :> "b")
SomeFields == (a1 :> "x") @@ (a2 :> "y") @@ (b1 :> "x")
SomeTimes == {{0}, {1, 4}}
SomeReads == {[from |-> 1, to |-> 3]}

(* Modbus: bytes of one bit, three nodes of which two share a register.      *)
SomeRegisters ==
  {[channel |-> 0, length |-> 1, byteorder |-> "big", wordorder |-> "big"],
   [channel |-> 1, length |-> 2, byteorder |-> "little", wordorder |-> "little"],
   [channel |-> 2, length |-> 1, byteorder |-> "big", wordorder |-> "little"]}

(* Emonio: three checks and a bit more, given in the configuration.          *)
OnePhase == {"a"}
SomeNows == {5, 6, 8}
=============================================================================
