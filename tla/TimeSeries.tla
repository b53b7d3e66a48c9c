----------------------------- MODULE TimeSeries -----------------------------
(***************************************************************************)
(* Time series as the connections to web services handle them: a function  *)
(* from a finite set of times to values, NaN where a row has no value.     *)
(* Times are integers; their unit is that of the module that uses this one. *)
(* round_timestamp of eta_nexus.util and the helpers for data frames.      *)
(***************************************************************************)
EXTENDS Integers, FiniteSetsExt, Functions

CONSTANT NaN

Floor(t, interval) == (t \div interval) * interval
Ceil(t, interval) == -Floor(-t, interval)

round_timestamp(t, interval, method) ==
  IF method = "floor" THEN Floor(t, interval) ELSE Ceil(t, interval)

\* The window a series is read for: [from, to] in whole intervals.
_preprocess_series_context(from, to, interval) ==
  [from |-> round_timestamp(from, interval, "floor"),
   to   |-> round_timestamp(to, interval, "ceil"),
   interval |-> interval]

\* The times from..to of a grid of that interval.
Grid(from, to, interval) == {t \in from..to : t % interval = 0}

Filled(s) == {t \in DOMAIN s : s[t] # NaN}

\* df_time_slice: a slice of a data frame has both of its ends.
df_time_slice(s, from, to) == Restrict(s, {t \in DOMAIN s : from <= t /\ t <= to})

\* The last value before a row without one, if there is any.
ffill(s) ==
  [t \in DOMAIN s |->
     LET before == {u \in Filled(s) : u <= t}
     IN  IF before = {} THEN NaN ELSE s[Max(before)]]

\* df_resample with "ffill": a row for each interval from the first to the last
\* one with data; it takes over the row before it, NaN included.
df_resample(s, interval) ==
  IF DOMAIN s = {} THEN s
  ELSE [t \in Grid(Floor(Min(DOMAIN s), interval), Max(DOMAIN s), interval) |->
          LET before == {u \in DOMAIN s : u <= t}
          IN  IF before = {} THEN NaN ELSE s[Max(before)]]

\* interpolate(method="time", limit_direction="both") of pandas: linear between
\* the values around a time, the nearest value outside of them.
Interpolated(s, t) ==
  LET before == {u \in Filled(s) : u <= t}
      after == {u \in Filled(s) : u >= t}
  IN  CASE before = {} /\ after = {} -> NaN
        [] before = {} /\ after # {} -> s[Min(after)]
        [] before # {} /\ after = {} -> s[Max(before)]
        [] OTHER -> LET a == Max(before)
                        b == Min(after)
                    IN  IF a = b THEN s[a]
                        ELSE s[a] + ((s[b] - s[a]) * (t - a)) \div (b - a)

\* df_interpolate: every interval around the data has a row.
df_interpolate(s, interval) ==
  [t \in Grid(Floor(Min(DOMAIN s), interval), Ceil(Max(DOMAIN s), interval), interval) |->
     Interpolated(s, t)]

\* pd.concat(axis=1): the rows of all columns, NaN where a column has none.
Concat(columns) ==
  LET rows == UNION {DOMAIN columns[c] : c \in DOMAIN columns}
  IN  [c \in DOMAIN columns |->
         [t \in rows |-> IF t \in DOMAIN columns[c] THEN columns[c][t] ELSE NaN]]
=============================================================================
