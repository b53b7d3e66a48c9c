---------------------- MODULE ForecastsolarConnection ----------------------
(***************************************************************************)
(* ForecastsolarConnection: the forecast of a whole day for each node, cut *)
(* to a window, interpolated, and turned into the energy that is asked     *)
(* for.  The service holds for a node the watts of the day at some times,  *)
(* with 0 at sunrise and sunset.                                           *)
(*                                                                         *)
(* Energy is given in halves of a watt and a tick of time, so that the     *)
(* mean of two rows is a number; rounding is left out.                     *)
(***************************************************************************)
EXTENDS TimeSeries

CONSTANTS
  Nodes,          \* the nodes that are read, in one call
  Second, Quarter, Hour, Day, \* their lengths; a quarter has 15 minutes
  Forecasts,      \* what the service may hold for a node that it answers
  DataTypes,      \* the data types of nodes
  Windows,        \* the calls of read_series: records of from, to and interval
  Nows            \* the times at which read is called

\* From one time of a forecast to the next the power changes by whole watts in each tick,
\* since rounding is left out.
Steady(s) ==
  \A a, b \in DOMAIN s :
    a < b /\ (\A t \in DOMAIN s : ~(a < t /\ t < b)) => (s[b] - s[a]) % (b - a) = 0

ForecastsolarAssumption ==
  /\ {Second, Quarter, Hour, Day} \subseteq Nat \ {0}
  /\ Windows \subseteq [from : Int, to : Int, interval : Nat \ {0}]
  /\ \A w \in Windows : w.from <= w.to
  /\ \A s \in Forecasts :
       /\ DOMAIN s \subseteq Int /\ IsFiniteSet(DOMAIN s) /\ DOMAIN s # {}
       /\ \A t \in DOMAIN s : s[t] \in Nat
       /\ Steady(s)
  /\ NaN \notin Int

VARIABLES
  stage,          \* of a call: "idle", "reading", "answered"
  call,           \* the call that is under way
  service,        \* the forecast of each node and its data type
  frames,         \* what the threads have returned so far
  answer          \* the table that was returned

vars == <<stage, call, service, frames, answer>>

NoData == <<>>    \* a node without data, and the table without columns

ForecastsolarInit ==
  /\ stage = "idle"
  /\ call = <<>>
  /\ service \in [Nodes -> [forecast : Forecasts \cup {NoData}, data : DataTypes]]
  /\ frames = <<>>
  /\ answer = <<>>

-----------------------------------------------------------------------------
(* read_series *)

\* _select_data: the window in whole quarters; an end that has no row gets one, of 0.
_select_data(table, from, to) ==
  LET start == round_timestamp(from, Quarter, "floor")
      end == round_timestamp(to, Quarter, "ceil")
      withEnds(s) == [t \in DOMAIN s \cup {start, end} |-> IF t \in DOMAIN s THEN s[t] ELSE 0]
  IN  [c \in DOMAIN table |-> df_time_slice(withEnds(table[c]), start, end)]

\* calculate_watt_hours_period: the mean of a row and the one before it, times the
\* time in between; 0 in the first row, and where there is no value.
Before(s, t) == Max({u \in DOMAIN s : u < t})
calculate_watt_hours_period(s) ==
  [t \in DOMAIN s |->
     IF t = Min(DOMAIN s) \/ {t, Before(s, t)} \cap Filled(s) # {t, Before(s, t)} THEN 0
     ELSE (s[t] + s[Before(s, t)]) * (t - Before(s, t))]

\* Mutant: the sum goes on over midnight.
cumulative_of_all(s) ==
  LET energy == calculate_watt_hours_period(s)
  IN  [t \in DOMAIN s |-> FoldFunctionOnSet(+, 0, energy, {u \in DOMAIN s : u <= t})]

\* cumulative_watt_hours_per_day: the sum of the rows of its day up to a row.
cumulative_watt_hours_per_day(s) ==
  LET energy == calculate_watt_hours_period(s)
  IN  [t \in DOMAIN s |->
         FoldFunctionOnSet(+, 0, energy, {u \in DOMAIN s : Floor(t, Day) <= u /\ u <= t})]

\* summarize_watt_hours_per_day: a row for each day.
summarize_watt_hours_per_day(s) ==
  LET energy == calculate_watt_hours_period(s)
  IN  [d \in Grid(Floor(Min(DOMAIN s), Day), Max(DOMAIN s), Day) |->
         FoldFunctionOnSet(+, 0, energy, {u \in DOMAIN s : Floor(u, Day) = d})]

\* The data type of the nodes, "watts" if they have several.
DataType ==
  LET types == {service[n].data : n \in Nodes}
  IN  IF Cardinality(types) = 1 THEN CHOOSE d \in types : TRUE ELSE "watts"

_process_watts(table) ==
  [c \in DOMAIN table |->
     CASE DataType = "watts" -> table[c]
       [] DataType = "watthours/period" -> calculate_watt_hours_period(table[c])
       [] DataType = "watthours" -> cumulative_watt_hours_per_day(table[c])
       [] OTHER -> summarize_watt_hours_per_day(table[c])]

\* What _get_data returns: the nodes with data, or a table without rows for all.
_get_data ==
  LET read == {n \in Nodes : frames[n] # NoData}
  IN  IF read = {} THEN frames ELSE Concat([n \in read |-> frames[n]])

Series(w) ==
  LET cut == _select_data(_get_data, w.from, w.to)
  IN  _process_watts([n \in DOMAIN cut |->
                        df_time_slice(df_interpolate(cut[n], w.interval), w.from, w.to)])

-----------------------------------------------------------------------------
(* read *)

\* The row of now, without a value, is interpolated between its neighbours; there is
\* none behind it unless now is between two rows.
AtNow(s, now) ==
  LET before == {t \in Filled(s) : t < now}
      after == {t \in Filled(s) : t > now}
  IN  [t \in {now} |-> CASE before = {} -> NaN
                         [] before # {} /\ after = {} -> s[Max(before)]
                         [] OTHER -> (s[Max(before)] + s[Min(after)]) \div 2]

Current(w, now) ==
  LET series == Series(w) IN _process_watts([n \in DOMAIN series |-> AtNow(series[n], now)])

-----------------------------------------------------------------------------
read_series ==
  /\ stage = "idle"
  /\ stage' = "reading"
  /\ \E w \in Windows :
       call' = [is |-> "read_series",
                window |-> _preprocess_series_context(w.from, w.to, w.interval)]
  /\ UNCHANGED <<service, frames, answer>>

read ==
  /\ stage = "idle"
  /\ stage' = "reading"
  /\ \E now \in Nows :
       call' = [is |-> "read", now |-> now,
                window |-> _preprocess_series_context(now - Hour, now, Second)]
  /\ UNCHANGED <<service, frames, answer>>

\* read_node: the forecast of the whole day; nothing after any kind of error.
Thread(n) ==
  /\ stage = "reading"
  /\ n \notin DOMAIN frames
  /\ frames' = [m \in DOMAIN frames \cup {n} |->
                  IF m = n THEN service[n].forecast ELSE frames[m]]
  /\ UNCHANGED <<stage, call, service, answer>>

Return ==
  /\ stage = "reading" /\ DOMAIN frames = Nodes
  /\ stage' = "answered"
  /\ answer' = IF call.is = "read" THEN Current(call.window, call.now) ELSE Series(call.window)
  /\ UNCHANGED <<call, service, frames>>

ForecastsolarNext ==
  \/ read_series \/ read
  \/ \E n \in Nodes : Thread(n)
  \/ Return

-----------------------------------------------------------------------------
(* Properties *)

\* The forecast for a node at any time: linear between the times of the service,
\* nothing at night.
Forecast(n, t) == Interpolated(service[n].forecast, t)

Read == {n \in Nodes : service[n].forecast # NoData}
Answered(is, types) == stage = "answered" /\ call.is = is /\ DataType \in types

\* Times of the window of whole quarters whose row is that of the forecast: those of the
\* forecast, and an end that gets a row of 0 where nothing is forecast.  An end that gets
\* its 0 in daylight, or is left without a value by the row of another node, is none.
Sure(n) ==
  LET start == Floor(call.window.from, Quarter)
      end == Ceil(call.window.to, Quarter)
      own == DOMAIN service[n].forecast
  IN  {t \in own : start <= t /\ t <= end}
        \cup {t \in {start, end} : /\ Forecast(n, t) = 0
                                 /\ \A m \in Read : t \notin DOMAIN service[m].forecast}
Covered(n, t) == \E a, b \in Sure(n) : a <= t /\ t <= b

\* The power of a row is what was forecast for the node at its time, in every row that
\* lies between times where the service says so: an end of the window that has no row of
\* its own in daylight spoils the rows next to it, and no others.
PowerIsForecast ==
  Answered("read_series", {"watts"}) =>
    \A n \in Read : \A t \in {u \in DOMAIN answer[n] : Covered(n, u)} :
      answer[n][t] = Forecast(n, t)

\* The energy of a day is that of the forecast at its rows, from one to the next: the row
\* of the day, or the last of the growing sums, of a day whose rows PowerIsForecast
\* speaks of.  The first row of the window adds nothing, as nothing is known before it.
RowsOfDay(d) ==
  {t \in Grid(call.window.from + 1, call.window.to, call.window.interval) : Floor(t, Day) = d}
EnergyOf(n, d) ==
  LET i == call.window.interval
      energy == [t \in RowsOfDay(d) |-> (Forecast(n, t) + Forecast(n, t - i)) * i]
  IN  FoldFunctionOnSet(+, 0, energy, RowsOfDay(d))
EnergyAddsUp ==
  Answered("read_series", {"watthours", "watthours/day"}) =>
    \A n \in Read, d \in Grid(Floor(call.window.from, Day), call.window.to, Day) :
      LET rows == {t \in DOMAIN answer[n] : Floor(t, Day) = d}
      IN  /\ rows # {}
          /\ \A t \in RowsOfDay(d) : Covered(n, t) /\ Covered(n, t - call.window.interval)
          => answer[n][Max(rows)] = EnergyOf(n, d)

\* "Return a time series of forecast data from the Forecast.Solar Database", in every row.
SeriesIsForecast ==
  Answered("read_series", {"watts"}) =>
    \A n \in Read : \A t \in DOMAIN answer[n] : answer[n][t] = Forecast(n, t)

\* "Return solar forecast for the current time": the power of now, up to a second.
ReadIsForecast ==
  Answered("read", {"watts"}) =>
    \A n \in Read : \E t \in call.now - Second..call.now : answer[n][call.now] = Forecast(n, t)

\* The energy of the day so far, or of the last period, is one.
ReadHasEnergy ==
  Answered("read", {"watthours", "watthours/period"}) =>
    \A n \in {m \in Read : Covered(m, call.now)} :
      Forecast(n, call.now) > 0 => answer[n][call.now] > 0
=============================================================================
