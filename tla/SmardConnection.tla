-------------------------- MODULE SmardConnection --------------------------
(***************************************************************************)
(* SmardConnection for one node.  The service keeps a series in chunks of  *)
(* a fixed length and lists their first times in an index.  read and       *)
(* read_series ask for the index, then for one chunk; the service may      *)
(* publish in between.  What is not published yet is a null in its chunk.  *)
(* The value published for a time is that time.  The session keeps answers *)
(* on disk for an hour, also those that say 400 or 404: a request is       *)
(* answered as at some time of the last hour.                              *)
(***************************************************************************)
EXTENDS TimeSeries

CONSTANTS
  Length,         \* of a chunk
  Horizon,        \* bound on the times that are published
  Windows,        \* the calls of read_series: records of from, to and interval
  Outages         \* sets of times that never get a value

SmardAssumption ==
  /\ Length \in Nat \ {0}
  /\ Horizon \in Nat
  /\ Windows \subseteq [from : Int, to : Int, interval : Nat \ {0}]
  /\ NaN \notin Int

VARIABLES
  stage,          \* of a call: "idle", "index", "chunk", "answered"
  call,           \* the call that is under way
  service,        \* up to where it has published, and had an hour ago, and its outages
  frames,         \* the available timestamps, once they were asked for
  answer          \* the series that was returned

vars == <<stage, call, service, frames, answer>>

Empty == <<>>     \* the table without rows

SmardInit ==
  /\ stage = "idle"
  /\ call = <<>>
  /\ service \in [published : 0..Horizon, old : 0..Horizon, outages : Outages]
  /\ service.old <= service.published
  /\ frames = {}
  /\ answer = Empty

-----------------------------------------------------------------------------
(* The service *)

Publish ==
  /\ stage # "answered"
  /\ service.published < Horizon
  /\ service' = [service EXCEPT !.published = @ + 1]
  /\ UNCHANGED <<stage, call, frames, answer>>

\* What was published then is an hour old now.
TimePasses ==
  /\ stage # "answered"
  /\ service.old < service.published
  /\ service' = [service EXCEPT !.old = @ + 1]
  /\ UNCHANGED <<stage, call, frames, answer>>

\* The answers that the session may give are from when the service had published
\* up to one of these times.
CachedSession == service.old..service.published

Known(t, published) == t < published /\ t \notin service.outages
Index(published) == {c \in 0..published : c % Length = 0}
Chunk(first, published) ==
  [t \in first..first + Length - 1 |-> IF Known(t, published) THEN t ELSE NaN]

-----------------------------------------------------------------------------
read ==
  /\ stage = "idle"
  /\ call' = [is |-> "read", since |-> service.old]
  /\ stage' = "index"
  /\ UNCHANGED <<service, frames, answer>>

read_series ==
  /\ stage = "idle"
  /\ \E w \in Windows :
       call' = [is |-> "read_series", since |-> service.old,
                window |-> _preprocess_series_context(w.from, w.to, w.interval)]
  /\ stage' = "index"
  /\ UNCHANGED <<service, frames, answer>>

\* An index that was not answered, now or in the last hour, or cannot be parsed,
\* is an empty one, and so is the table then.
_get_available_timestamps ==
  /\ stage = "index"
  /\ frames' \in {Index(p) : p \in CachedSession} \cup {{}}
  /\ IF frames' = {} THEN stage' = "answered" ELSE stage' = "chunk"
  /\ UNCHANGED <<call, service, answer>>

\* Mutant: the chunk after that time.
_find_closest_timestamp_after(target, available) ==
  LET valid == {ts \in available : ts >= target}
  IN  IF valid = {} THEN {} ELSE {Min(valid)}

\* The last chunk that does not begin after that time, if there is one.
_find_closest_timestamp(target, available) ==
  LET valid == {ts \in available : ts <= target}
  IN  IF valid = {} THEN {} ELSE {Max(valid)}

ChosenChunk ==
  IF call.is = "read" THEN {Max(frames)} ELSE _find_closest_timestamp(call.window.from, frames)

\* What is kept of a chunk: its last row; or the window, unless it has no values.
Kept(s) ==
  IF call.is = "read" THEN Restrict(s, {Max(DOMAIN s)})
  ELSE LET slice == df_time_slice(s, call.window.from, call.window.to)
       IN  IF Filled(slice) = {} THEN Empty ELSE slice

\* A chunk that was not answered, or not there when it was asked for in the last
\* hour, or cannot be parsed, gives an empty table.
RequestChunk ==
  /\ stage = "chunk"
  /\ stage' = "answered"
  /\ \/ answer' = Empty
     \/ \E c \in ChosenChunk, p \in CachedSession :
          c <= p /\ answer' = Kept(Chunk(c, p))
  /\ UNCHANGED <<call, service, frames>>

SmardNext ==
  \/ Publish \/ TimePasses
  \/ read \/ read_series
  \/ _get_available_timestamps \/ RequestChunk

-----------------------------------------------------------------------------
(* Properties *)

Answered(is) == stage = "answered" /\ call.is = is /\ DOMAIN answer # {}

\* A series begins at the begin of its window and has no hole: up to its last row,
\* what had been published an hour before the call is in it.  A row that was
\* published since has its value or is empty, and no other row has a value.
SeriesHasNoHole ==
  Answered("read_series") =>
    \A t \in call.window.from..Max(DOMAIN answer) :
      /\ t \in DOMAIN answer
      /\ answer[t] \in {t, NaN}
      /\ Known(t, call.since) => answer[t] = t
      /\ ~Known(t, service.published) => answer[t] = NaN

\* read does not pass over a value that is older than the cache: its row is not
\* older than any value that was published an hour before the call.
ReadIsNotOutdated ==
  Answered("read") => \A t \in 0..call.since - 1 : t <= Max(DOMAIN answer)

\* "Return only the last row (most recent data point)": the row has a value.
LatestIsAValue ==
  Answered("read") => Filled(answer) # {}

\* "Retrieves values for the partly open time interval [from_time, to_time)".
WindowIsWhole ==
  Answered("read_series") =>
    \A t \in call.window.from..call.window.to - 1 : Known(t, call.since) => t \in DOMAIN answer
=============================================================================
