----------------------- MODULE WetterdienstConnection -----------------------
(***************************************************************************)
(* The connections to observations and predictions of the German weather   *)
(* service: the nodes are read one after the other, a node from the        *)
(* station it names or from those nearest to it, and every station gives a *)
(* column.  Observations are brought to the interval that is asked for.    *)
(*                                                                         *)
(* The value published for a time is that time.                            *)
(***************************************************************************)
EXTENDS TimeSeries, SequencesExt, TLC

CONSTANTS
  Nodes,          \* the nodes that are read, in one call
  Published,      \* what the service may have of a parameter: the times, by station
  Windows         \* the calls: records of from, to and interval

Station == {"1st", "2nd"}

WetterdienstAssumption ==
  /\ Published \subseteq [Station -> SUBSET Int]
  /\ Windows \subseteq [from : Int, to : Int, interval : Nat \ {0}]
  /\ NaN \notin Int

VARIABLES
  stage,          \* of a call: "idle", "reading", "answered", "raised"
  call,           \* the connection that was asked, and the window
  service,        \* the parameter of each node and the stations its filter gives
  frames,         \* what has been read so far
  answer          \* the table that was returned

vars == <<stage, call, service, frames, answer>>

\* A node names its station, or the stations are ranked by their distance and as many
\* are taken as the node asks for.
WetterdienstInit ==
  /\ stage = "idle"
  /\ call = <<>>
  /\ service \in [Nodes -> [published : Published, station_id : Station, number : {0}]
                             \cup [published : Published, station_id : {""}, number : {1, 2}]]
  /\ frames = <<>>
  /\ answer = <<>>

-----------------------------------------------------------------------------
filter_by_rank(number) == {<<"1st", "2nd">>[rank] : rank \in 1..number}

Stations(n) ==
  IF service[n].station_id # "" THEN {service[n].station_id} ELSE filter_by_rank(service[n].number)

\* retrieve_stations: a column for each station with values of the parameter in the
\* window, under the name of the node.
retrieve_stations(n, w) ==
  LET times(s) == {t \in service[n].published[s] : w.from <= t /\ t <= w.to}
  IN  [c \in {<<n, s>> : s \in {x \in Stations(n) : times(x) # {}}} |->
         [t \in times(c[2]) |-> t]]

\* Mutant: rows without data of their own get no value.
asfreq_plain(table, interval) ==
  LET rows == UNION {DOMAIN table[c] : c \in DOMAIN table}
      index == {t \in Min(rows)..Max(rows) : (t - Min(rows)) % interval = 0}
  IN  [c \in DOMAIN table |-> [t \in index |-> IF t \in rows THEN table[c][t] ELSE NaN]]

\* asfreq(interval, method="ffill"): from the first row on, and each takes over the
\* last row of the table before it.
asfreq(table, interval) ==
  LET rows == UNION {DOMAIN table[c] : c \in DOMAIN table}
      index == {t \in Min(rows)..Max(rows) : (t - Min(rows)) % interval = 0}
      row(t) == Max({u \in rows : u <= t})
  IN  [c \in DOMAIN table |-> [t \in index |-> table[c][row(t)]]]

-----------------------------------------------------------------------------
\* The window is rounded before a prediction forgets the interval: by default it is 0
\* there, and raises.
read_series ==
  /\ stage = "idle"
  /\ \E w \in Windows, of \in {"observation", "prediction"} :
       \/ /\ stage' = "reading"
          /\ call' = [of |-> of, window |-> _preprocess_series_context(w.from, w.to, w.interval)]
       \/ /\ of = "prediction"
          /\ stage' = "raised"
          /\ call' = [of |-> of, window |-> w]
  /\ UNCHANGED <<service, frames, answer>>

_read_node(n) ==
  /\ stage = "reading"
  /\ n \notin DOMAIN frames
  /\ frames' = [m \in DOMAIN frames \cup {n} |->
                  IF m = n THEN retrieve_stations(n, call.window) ELSE frames[m]]
  /\ UNCHANGED <<stage, call, service, answer>>

Return ==
  /\ stage = "reading" /\ DOMAIN frames = Nodes
  /\ stage' = "answered"
  /\ LET columns == UNION {DOMAIN frames[n] : n \in Nodes}
         table == Concat([c \in columns |-> frames[c[1]][c]])
         dense == asfreq(table, call.window.interval)
     IN  answer' = IF columns = {} \/ call.of = "prediction" THEN table
                   ELSE [c \in columns |-> ffill(dense[c])]
  /\ UNCHANGED <<call, service, frames>>

WetterdienstNext ==
  \/ read_series
  \/ \E n \in Nodes : _read_node(n)
  \/ Return

-----------------------------------------------------------------------------
(* Properties *)

\* A value was published for its column, not after its row; and it is the newest of
\* that column, unless a row of another column came after a newer one.
WeatherIsNewest ==
  stage = "answered" =>
    \A c \in DOMAIN answer : \A t \in Filled(answer[c]) :
      LET known == {u \in service[c[1]].published[c[2]] : u <= t}
          others == UNION {service[d[1]].published[d[2]] : d \in DOMAIN answer \ {c}}
      IN  /\ answer[c][t] \in known
          /\ \A u \in known : answer[c][t] < u => \E x \in others : u < x /\ x <= t

\* "The interval parameter is not used for prediction data": it may be left out.
PredictionNeedsNoInterval == call # <<>> /\ call.of = "prediction" => stage # "raised"
=============================================================================
