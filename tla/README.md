# eta-nexus in TLA+

eta-nexus reads from and writes to the devices of an energy system (OPC UA and
Modbus servers, data bases, web services) through one interface. A `Node`
describes a data point; a `Connection` reads, writes or subscribes to nodes; a
`SubscriptionHandler` receives what a subscription delivers; a
`ConnectionManager` drives several connections of one system at once.

This directory models the parts of it that keep state while threads, asyncio
tasks, remote servers and failing requests interleave, checks them with TLC and
proves the main results with TLAPS. Paths below are relative to
`src/eta_nexus/` of the repository.

## 1. Inventory

### Components

| component | code | state it keeps | operations | correct if |
|---|---|---|---|---|
| CSV subscription handler | `subscription_handlers/csv_subscription_handler.py` (`CsvSubscriptionHandler`) | a `queue.Queue` with its count of unfinished tasks, a writer thread, `exc` | `push`, `close`, `_run` | accepted items are written, in order; `close` returns, and only after the items before it are done; errors reach the callers |
| CSV file | same file (`_CSVFileDB`) | the file, header, buffer of rows with their timestamps, latest values | `__enter__`, `write`, `__exit__` | every value is in the row of its timestamp and the column of its name; the buffer is bounded and sorted; a file that is too large is left |
| OPC UA connection | `connections/opcua_connection.py` | client and `_connected`, `_sub`, `_sub_task`, `_subscription_open`, `_subscription_nodes`, retry counters, interval checker | `read`, `write`, `subscribe`, `close_sub`, `_subscription_loop`, `datachange_notification`, `create_nodes`, `delete_nodes` | one loop per open subscription; it gets the subscription back after an error and tells the handler of the gap; nothing is left after `close_sub` |
| Modbus connection | `connections/modbus_connection.py` | client, `_sub` (a task), `exc`, `_subscription_open`, `_subscription_nodes`, retry counters, interval checker | `read`, `write`, `subscribe`, `close_sub`, `_subscription_loop` | as above |
| Retry and interval helpers | `connections/connection_utils.py` | a counter; the latest value and time of each node | `tried`, `success`, `wait`; `push`, `check_interval_connection` | after a success nobody waits; a value that stopped changing is noticed |
| Connection manager | `connection_manager.py` | error count of each connection, number of steps | `step`, `activate`, `deactivate`, `read`, `write`, `close`, configuration loading | set values stay in bounds; a system is on the side of the threshold its value is on; answers are current or NaN; a connection that fails for long is given up |
| DataFrame handler | `subscription_handlers/df_subscription_handler.py` | a DataFrame under a lock | `push`, `get_latest`, `data`, `reset`, `housekeeping` | concurrent pushes lose nothing; `get_latest` never fails on a table that shrinks |
| Multi handler | `subscription_handlers/multi_subscription_handler.py` | a list of handlers | `register`, `push`, `close` | every handler gets the same values, until one raises |
| Eneffco connection | `connections/eneffco_connection.py` | polling task, `exc`, cache of node ids | `read`, `write`, `subscribe`, `close_sub`, `id_from_code` | as the Modbus connection |
| Connection base classes | `connections/connection.py` | `selected_nodes` | `from_nodes`, `_validate_nodes`, parallel requests | nodes are grouped by their connection; one failed request does not shift the others |
| Emonio connection | `connections/emonio_connection.py` | phases, time of the last check | `read`, `check_warnings_and_errors` | an error of the meter is noticed |
| Forecast and market connections | `connections/entsoe_connection.py`, `smard_`, `forecastsolar_`, `wetterdienst_` | none between calls but the answers their sessions cache on disk | `read`, `read_series` | an answer is what was published, at its time, under its node |
| Influx connection | `connections/influx_connection.py` | none; the tables of the database | `read`, `write`, their series | what was written is read |
| Nodes | `nodes/*` | none (immutable) | parsing; `encode_bits`, `decode_modbus_value` | decoding what was encoded gives the value back |
| Servers | `servers/*` | data bank, address space | `write`, `read`, `create_nodes` | capacity and byte order agree with the connections |
| Time series, utilities | `timeseries/*`, `util/*` | none | pure functions | agree with their definitions |

### How they interact

A subscription loop (an asyncio task) or asyncua's own thread calls
`handler.push`. The handler may be a `MultiSubscriptionHandler` that passes the
call on. `CsvSubscriptionHandler.push` puts the item into a queue; its writer
thread takes it out and calls `_CSVFileDB.write`. An error of the writer is kept
in `exc` and raised by the next `push`, and so inside of the subscription loop
of a connection. `read` and `write` of a connection open and close the client a
subscription of the same object uses. The manager calls `read` and `write` of
its connections only.

### What is hard

- threads: `push` and `close` against the writer; notifications against the
  interval check of the OPC UA loop;
- awaits: `subscribe`, `close_sub`, `read` and `write` run while a loop waits;
- failure: the server goes away at any point of a round, refuses a request,
  comes back; a handler raises; a write stops half way;
- order: values that arrive late; a sentinel behind which items may come;
- boundaries: the buffer's length, the size limit, the error counters.

`PROJECT.json` lists these hazards one by one, with the line each one is at and
the properties that cover it.

## 2. Modules

| module | models | checked by | proved in |
|---|---|---|---|
| `Subscription` | what every subscription promises: an abstract specification | refined by the three below | its refinement in the three below |
| `OpcuaSubscription` | subscription of an `OpcuaConnection` | `MCOpcuaSubscription`, `MCSubscriptions` | `OpcuaSubscriptionProofs` |
| `ModbusSubscription` | subscription of a `ModbusConnection` | `MCModbusSubscription`, `MCSubscriptions` | `ModbusSubscriptionProofs` |
| `EneffcoConnection` | an `EneffcoConnection` and its subscription | `MCEneffcoConnection` | `EneffcoProofs` |
| `RESTConnection` | session and threads of a REST connection | with `EneffcoConnection` | - |
| `MultiSubscriptionHandler` | handlers behind one `push` | with `EneffcoConnection` | - |
| `ConnectionUtils` | `RetryWaiter`, `IntervalChecker` as operators | with the two subscriptions | - |
| `CsvSubscriptionHandler` | queue, writer thread, `push`, `close` | `MCCsvSubscriptionHandler` | `CsvSubscriptionHandlerProofs` |
| `CsvFileDB` | the file behind the writer thread | `MCStorage` | `CsvFileDBProofs` |
| `DFSubscriptionHandler` | the table behind `push`, `get_latest`, `data`, `reset` | `MCStorage` | `StorageProofs` |
| `Storage` | the table or the file | `MCStorage` | `StorageProofs` |
| `ConnectionManager` | the manager over its connections | `MCConnectionManager` | `ConnectionManagerProofs` |
| `ManagerConfig` | a manager from its configuration | `MCConnectionManager` | `ConnectionManagerProofs` |
| `Connections` | nodes put into connections | `MCConnectionManager` | `ConnectionManagerProofs` |
| `Management` | the manager, its configuration or the grouping of nodes | `MCConnectionManager` | `ConnectionManagerProofs` |
| `TimeSeries` | rounding, slices and interpolation as operators | with the four below | - |
| `EntsoeConnection`, `SmardConnection`, `WetterdienstConnection` | from the window asked for to the table returned | `MCRequests` | `RequestsProofs` |
| `ForecastsolarConnection` | the same for forecasts of power and energy | `MCRequests` | `RequestsProofs` |
| `InfluxConnection` | reading and writing tables of a data base | `MCRequests` | `RequestsProofs` |
| `EmonioConnection` | phases and checks of a meter | `MCRequests` | `RequestsProofs` |
| `ModbusValues` | values in registers, connection and server | `MCRequests` | `RequestsProofs` |
| `Requests` | one of the seven above | `MCRequests` | `RequestsProofs` |

Definitions keep the names of the code. The operators called "Mutant" in the
comments are plausible wrong versions of the definition that follows them; no
specification uses them. Putting one in the place of its original makes the
property named in `PROJECT.json` fail.

How they are composed:

- `OpcuaSubscription`, `ModbusSubscription` and `EneffcoConnection` each have an
  instance `Promise` of `Subscription` (`INSTANCE ... WITH`), whose variables are
  expressions over their own: the loops that run, the error that was kept, what
  the handlers were told. `ImplementsSubscription` is its specification.
- `EneffcoConnection` extends `RESTConnection` and `MultiSubscriptionHandler`: a
  loop, the threads of its requests and the handlers behind its pushes in one
  behavior.
- `Storage`, `Management`, `Requests` and `MCSubscriptions` are sums: a behavior
  chooses at the start which of several parts it is one of, and the others stand
  still. The parts do not interact in the code either; what they share is the
  run. The first three leave all their constants open, so that the theorems are
  about the very specification and properties that TLC checks; `MCStorage`,
  `MCConnectionManager` and `MCRequests` give them small values.

### Subscription

Four variables: whether it is open, which loops may still tell the handler
something, whether an error was kept, what the handler was told. `Subscribe`,
`CloseSub`, `Tell`, `Fail`, `Leave`. One loop at a time until one has ended with
an error; from then on `close_sub` raises instead of ending the loop, and
`subscribe` may start a loop beside it. That is what the code does, so it is
what can be promised; `ModbusTwoLoops` is the finding about it.

### OpcuaSubscription

The server (`up`), what it knows of the client (`session`, `monitored`), the
loop's task and its local `subscribed`, and the attributes of the connection.
A step of the loop is what it does from one point where others may act to the
next: an await, or a place where asyncua's thread or the server matter
(`create`, `check`, `interval`, `iterate`). The interval check takes two steps,
because the dictionary it iterates over is extended by asyncua's thread.
Values are not modelled: `last` says whether the handler was last told a value
or NaN. Time is not either: an entry of the interval checker becomes stale by
`Age`.

### ModbusSubscription

The same over a blocking client: a round of polling is one step, in which any
subset of the nodes may be read before the connection is lost. Of a node that
cannot be read (`Invalid`, the `ValueError` of its register) the handler is told
nothing and the round goes on. There may be several tasks, since a task that
`close_sub` did not cancel lives on.

### EneffcoConnection, RESTConnection, MultiSubscriptionHandler

A read blocks the thread of the event loop (`Blocked`) while the threads it
started, one per node, make the session, load the tables of IDs, look their
node up and send their requests; `read_info` and `write` go from node to node.
The threads interleave with each other and with the server. The session is
stored before its retries are mounted, so it can be used without them; a table
is tested, loaded and tested again while another thread replaces it. When all
threads are done, the loop pushes the columns it got to the handlers in their
order, one of which may raise: `PushFails` leaves any part of the push behind.
Values are "value" or "empty"; `told` has one for each handler and node.

### CsvSubscriptionHandler

A pusher's step is `put_nowait` (`Push`), then the look at `exc` (`PushReturn`);
`close` is put, `Queue.join`, `Thread.join` (`Close`, `ClosePut`, `CloseJoin`,
`CloseThreadJoin`). The writer enters the file, then loops: get an item or find
the queue empty, look at the sentinel, at the queue again, write. The queue is
the sequence of its items and its number of unfinished tasks, which is what
`join` waits on and what `task_done` must not take below zero.

### CsvFileDB

One action per operation: `enter`, `write` of a value, `exit`. The two deques
are one sequence of rows. A value is represented by the number of its write,
so a file tells where each value has gone; its size is counted in rows. The
rows that leave the buffer in one call are computed at once, with the values
carried over from earlier rows, as the loop in `write` does. Bytes, positions
in the file and the dialect are abstracted; what the header loses when it is
read back (`re.sub(r"\s+", "", ...)`) is the function `AsRead`, any function on the
names; in the runs one of two names has white space and is read back as the other.
A name that is read back as something else may get a second column
(`OneColumnPerName` is false), and the properties say so: what is in a column was written under its
name or under what is left of it, and a name has one column if it is read back as
it was written.

### DFSubscriptionHandler

The lock is held for one access to the table, so those accesses are the actions:
making the column (`Push`), setting one value (`SetValue`), `Housekeeping`; the
look at the length (`GetLatest`) and the last row (`GetLatestRow`); `Data`;
`reset`. An entry is the number of the value that was set, `values` remembers
column and row of each, and rows are numbered by `made`, so that a property can
say where a value belongs after housekeeping dropped rows above it. Rounding and
the conversion of a pushed series are abstracted: timestamps are members of a
set, in any order.

### ConnectionManager, ManagerConfig, Connections

A call of the manager is a sequence of requests, each of which succeeds, fails
and is counted, or fails and is raised. `step` is the loop over the names of its
parameter, which come in any order: a set value is checked (`CheckBounds`) and its
system switched (`ReadIndicators`, `Switch`), any other name is taken as it is
(`TakeOther`), also if it is that of the node of a set value, and the later of two
values for one node stays. `Sort` finds the connections of the nodes and raises for
a name without one. Then come `WriteConnection` for each connection and
`ReadConnection` for each. A write that fails may have reached part of its nodes;
a connection that is not writable (not readable) is asked for nothing, and the call
goes on. Each system has several indicators, of which one is enough to count as
active. `met_failure` is a history variable of the properties.

`ManagerConfig` is what comes before: a configuration of several systems, each
part of which may be left out or name nodes that are missing, is refused or
becomes a manager (`from_dict`), and `step` and `close` then look its names up.
`Connections` groups nodes by their identifier, and asks whether a connection
accepts the nodes it was given.

### The connections to services

`EntsoeConnection`, `SmardConnection`, `ForecastsolarConnection` and
`WetterdienstConnection` have the same five variables: the stage of one call,
the call, what the service holds, the tables read so far, and the answer. Each
begins with any service and any window of the sets given to it, and follows
the code to the table it returns; requests of several nodes are steps of their
own, in any order where they are threads, and any of them may fail. SMARD may
publish between its two requests, and its session answers each of them as at any
time of the last hour (`CachedSession`; `old` is up to where the service had
published an hour ago). The sessions of ENTSO-E and forecast.solar cache as well, but
each node is asked for with one request: what their service holds is what the
session answers. A value is told apart by what it was
published for (its time, its series), so that a shifted or mixed up row shows.
`TimeSeries` has what they share: a series is a function from times to values,
rounding, slices and interpolation work on it. Times are whole ticks. ENTSO-E
bridges the gaps of the columns of one node before the tables are joined, so
`GapsAreFilled` is about the rows of that node: a row that only another node has
may be empty in its columns. A request that fails and a document that cannot be
parsed leave out their node; an unknown bidding zone, and a table that cannot be made
because series overlap (`Clashes`), raise outside of the try block and so end the
call of all nodes (`raise`).

`InfluxConnection` has a writer and a reader: a call of either sends a query or
a frame for each table, and may fail after some of them. A node is given all
columns with the name of its field. `EmonioConnection` has
a clock, a device that changes and calls at any time. `ModbusValues` has the
registers of one server, which it and a connection read and write; bytes are
packed, put in order, and decoded as the code does, with two values to a byte.

## 3. Runs

| run | question | result |
|---|---|---|
| `CsvHandler` | order, loss and the meaning of `join`, with file errors, late pushes, two pushers, two closes; without an error or a late push, that `close` returns and everything is written | holds |
| `CsvHandlerLatePush` | does `close` return if a push comes after its sentinel? | no: the item behind the sentinel is taken, never marked done |
| `Storage` | rows, columns, buffer, carried values of a file; pushes, reads, housekeeping and resets that interleave on a table | holds; `get_latest` may raise if a reset comes in between |
| `OpcuaSafety` | nothing left after `close_sub`, a task for every open subscription, outages reported before a retry, the promise kept, with everything that may fail | holds |
| `ModbusSafety` | nothing left after `close_sub`, errors kept, the promise kept, with everything that may fail | holds, the first until a loop has failed |
| `Subscriptions` | OPC UA and Modbus: recovery from outages, and outages that reach the handler | holds (no watched OPC UA nodes, no foreign calls, no refused requests) |
| `OpcuaRead` | the same with one `read` or `write` while an OPC UA subscription is open | no: the nodes are never monitored again |
| `ModbusTwoLoops` | "Do not start an additional loop", after a loop has failed | no: `close_sub` raises before it cancels |
| `Manager` | bounds, effect and answer of calls with failing requests, names that are no set values, connections that cannot be written or read; which configurations are refused; whose nodes a connection accepts | holds |
| `ManagerStep` | can a system without activation indicators make a step? | no: not if another system has some |
| `Eneffco` | the same told to every handler of every node, the promise kept, recovery from outages, while threads share session and tables | holds |
| `Requests` | is what a connection returns what was published, measured or written? | holds |

The violated ones are listed as findings in `PROJECT.json`, with the sentence of
the documentation they refute and the line that refutes it.

Safety and liveness of the subscriptions are checked in different runs: the
first needs everything that may fail, the second states what recovers when the
server is the only thing that fails.

### Observations without a run

The models contain the following behaviours too; they follow from single lines
of the code, and the constants that switch them on are given, or the definition
that states the contrary: it is kept beside the model, and false.

- An ordinary `close` of the CSV handler ends the writer by a `ValueError` of
  `task_done` in `exc` when the queue is empty after the sentinel (line 84).
- Errors on entering and leaving the file's context do not reach `exc` (line
  78; `FileFails`).
- While a file is too large, a row leaves the buffer at length
  `2 * _len_buffer` and no `write` begins with a buffer of that length, so the
  file is left only by the flush at the end (line 320), although "A new file will be
  created, once the limit is exceeded" (line 128; `NewFileOnceExceeded`).
- A name with white space gets a second column when its file is entered again
  (line 216; `AsRead`, `OneColumnPerName`).
- OPC UA: a node added to an open subscription is monitored only after the next
  outage (line 223; `AddsWhileOpen`); items the server refused are never asked
  for again; timestamps from before an outage longer than a node's interval make
  the loop tear every new subscription down (line 309; `Watched`); a handler that
  raises on NaN (line 301; `HandlerRaises`) and a notification during the
  interval check (line 307; `Watched`) end the loop; nodes of closed
  subscriptions are monitored again for the next handler (line 221).
- Modbus: `close_sub` after an error leaves the client open (line 150); values
  that stopped changing do not make the loop reconnect (line 196); a `read` by
  the program while the server is down keeps the loop from ever telling the
  handler (`ForeignCalls`).
- Manager: reading and writing share the error counter, so a connection that can
  be read but not written is never given up, although the documentation of
  `max_error_count` says so (line 591); a value given under the name of a node is
  neither scaled nor bounded, also if it is the node of a set value (line 499;
  `TakeOther`); what a connection cannot write or read is logged and left out, and
  the call returns (lines 550, 593; `Writable`, `Readable`); one active indicator is
  enough for "active" although "the result of all comparisons" is to be true (lines
  463, 73; `ActiveByAllComparisons`); `<=` and `>=` raise
  `AttributeError` (line 448; `compare`); a failed read of the indicators skips a
  deactivation (line 626; `Fails`); a name in `close` with the value 0 passes
  the validation without a node (`MissingFlat`).
- Connections: a connection may have selected nodes of another protocol, since
  the protocol is not part of the identifier (`connection.py`, line 362;
  `SelectedFit`).
- Eneffco: a thread that fails to load a table replaces one that another thread
  is about to search (line 400), and the error ends the loop; the error is never
  cleared (line 346).
- ENTSO-E: the begin of the window is rounded up, the comment says down
  (`WindowIsComplete`); where two series of a column overlap, a gap of the first
  hides a value of the second (`NothingHidden`), and if there is another column, the
  call may raise for all nodes (line 199; `raise`), as it does for an unknown zone.
- SMARD: an index or chunk may be an hour old, and an error 400 or 404 is kept as
  long (line 57; `CachedSession`): a chunk may be older than the index it was chosen
  from; `read` may return a row without a value (`LatestIsAValue`), and a
  window that goes over the end of a chunk is cut there (`WindowIsWhole`).
- forecast.solar: an end of the window without a row gets one of 0, also in daylight,
  and the rows between it and the next one are not what was forecast (line 172;
  `SeriesIsForecast`, `Covered`); in daylight `read` interpolates towards the 0 of the quarter ahead, if
  that has no row (`ReadIsForecast`); `read` of an energy processes it twice
  (`ReadHasEnergy`); if every request fails, the forecast is 0.
- Weather: predictions do not use the interval, but its default of 0 raises in
  the rounding (`PredictionNeedsNoInterval`).
- Influx: a series has the row at the end of its window, although it is "the
  partly-open interval [from_time, to_time)" (`_influx_sql.py`, line 59;
  `WindowIsHalfOpen`); `read` returns the last row of a table, in which a node may have
  no value although an earlier row has one (line 42 there; `LatestIsRead`); of two
  nodes with one field name in different tables each gets the columns of both (lines
  145, 192; `OneColumnPerNode`).
- Emonio: the phases are read once; nothing is checked during a subscription;
  a check that failed puts off the next one for a minute.
- Modbus values: a connection writes the registers of a node with little words
  in the order in which it does not read them (`WritesOfConnectionReadBack`).

### Bounds

- CSV handler: two pushers, `MaxItems` and `MaxCloses`, for two items to be
  queued in front of a sentinel and two behind it; the second `close` is the one
  that meets a finished thread.
- CSV file: five values, four timestamps, two sessions, `_len_buffer` 2: the
  buffer fills, a value lands before, in and behind it, a row leaves with a
  carried value, the file is entered again with a header, of which one name has white
  space and is read back as the other. A larger buffer adds rows of the same kind.
- DataFrame handler: three values, up to two of them in a push, three
  timestamps, `keep_data_rows` 2: a row is dropped, a value replaces another and
  one that was filled, a push is interrupted between its values; one reset hits
  each of these.
- `RetryCap`: the counters only choose a waiting time, which is not modelled;
  1 or 2 tells "waited before" from "did not".
- two nodes: the smallest number at which some nodes are read and others are not.
- two tasks (Modbus, Eneffco): the smallest number at which a second loop exists.
- `ForeignCalls` (OPC UA): one call of `read` or `write` during a subscription
  is enough for the finding, and none is allowed in the liveness run.
- Eneffco: two handlers, the second of which may raise, and one call of the
  program (`MaxCalls` 1), which may be any of the four kinds and meet any state
  of the session and the tables.
- manager: values below, at and above the threshold and out of bounds, alone, of two
  systems, beside another name of the same node, or a name without a node;
  `max_error_count` 1, so that a failure may be counted, and raised; three
  connections, of which one is not writable and one not readable, so that one may
  answer while another fails or is left out; two indicators, so that they may
  disagree. The configurations
  have each part, with and without a node that is missing, in either system.
- requests: windows of up to six ticks that begin and end on and off the grid,
  two nodes, services with gaps at the begin, inside and at the end, two
  resolutions, series that overlap or are out of order, also beside another column,
  a night, stations whose times differ. SMARD: up to two chunks and a part of a third,
  with a cache of any age. Emonio:
  a minute is two ticks, so that three checks fit. Influx: two tables, one with
  two fields, one field in both, two writes. Modbus: nodes of one and two
  registers of which two overlap; the data bank begins too small.

Symmetry is used over pushers, names, timestamps of the table and nodes, in runs
that check no liveness.

### Fairness

- `WF(Writer)` and `WF` of the steps of a `close` that has begun: threads the
  operating system schedules; `push` is never forced.
- `WF(Loop)`: the event loop resumes a task whose sleep is over, and every sleep
  is bounded (at most 60 s). `WF(Notify(n))`: the server publishes to an item
  that stays monitored, and asyncua's thread delivers.
- Eneffco: `WF(Thread(n))` for the threads of the pool, `WF(NextInTurn)` and
  `WF(CallReturns)` for a blocking call, which goes on until it returns, since
  requests have a time limit.
- Nothing is assumed of the server or of the program. Recovery is stated under
  `<>[]up` (`<>[]healthy`), delivery of outages under `<>[]~up`.

## 4. Proofs

For every value of the constants that satisfies the named assumptions:

- `CsvTypeCorrect`, `CsvWrittenInOrder`, `CsvCloseCompletes`,
  `CsvNothingLost`. The inductive invariant adds to the types: what the writer
  holds was taken in order (`HandInv`), the queue continues where the taken
  items end (`QueueInv`), the number of unfinished tasks is the length of the
  queue plus what the writer holds, as long as it runs (`CountInv`), and what a
  waiting `close` may rely on (`JoinInv`). The order of the file alone is not
  inductive, because it depends on the order of the queue; the meaning of `join`
  needs the count.
- `OpcuaTypeCorrect`, `OpcuaClosedIsQuiet`, `OpcuaOpenHasTask`,
  `OpcuaGapIsMarked`, `OpcuaImplementsSubscription`. The invariant says that
  without a subscription there is no task: `ClosedIsQuiet` alone does not exclude
  a leftover task that connects. `GapIsMarked` is about one point of the loop; to
  get there, `GapInv` says of the points before it who may have told the handler
  a value since: only nodes of the subscription are monitored (`KnownInv`), a
  loop past its check still has its connection (`PassedInv`), and a loop without
  one has told the handler (`ToldInv`).
- `ModbusTypeCorrect`, `ModbusDeathIsKept`, `ModbusOneLoopUntilError`,
  `ModbusQuietUntilError`, `ModbusImplementsSubscription`. The invariant says
  that, as long as `exc` is not set, the only running task is the one `_sub`
  refers to, and the subscription is open then. That `exc` is never cleared is a
  lemma. Without the condition both are false (`ModbusTwoLoops`).
- `EneffcoImplementsSubscription`, `EneffcoRoundIsWhole`. `TaskInv` is the same
  statement about tasks, with the call that blocks. `WholeInv` adds that a round
  is told of all nodes of the subscription, so that it overwrites all that the
  one before it told; that a push over all handlers is uniform is a lemma.
- The three refinements map initial states to initial states and show for each
  action which step of `Subscription` it is, or that it is none; the invariant is
  needed to know that a step that tells the handler has a loop.
- `ManagerBoundsHold`, `ManagerAnswersAreCurrent`, `ManagerStepTakesEffect`, for any
  parameters, readable or not, writable or not, any number of indicators.
  `CallInv` has the types of a call and, in `LoopInv`, what the loop of `step` has
  collected: each value is one of a name with that target, each name that is not
  pending has been taken, and its bounds looked at if it is a set value. A value out
  of bounds is therefore pending as long as the call goes on, and nothing is written
  before the loop ends. `AnswerInv` says that the connections passed so far have
  answered (`Asked`), and with what; `EffectInv` follows a step through its phases: the
  systems of the names taken so far are on the side of the threshold they should be
  (`AsDemanded`), the nodes of the connections passed are written.
- `ManagerConfigIsComplete`. Which names a configuration is refused for is a
  set computed from its parts; the proof follows a part that only some systems
  have (`KeptPart`) to the names the manager has no node for.
  `ManagerGroupsAreAccepted`. `GroupInv` says that a connection, and every
  node it was given, has the identifier it is filed under; what an identifier tells
  of a node and what it does not (`IdentifierTells`) decides the rest.
- `DFRowsAreKept`, `DFValuesStay`, `DFEntriesBelong`, `DFLatestIsFound`. Every
  step is one of five shapes (nothing, set a value, drop rows, fill, empty;
  lemma `Shapes`), and a lemma says of each where the cells are then. That the
  greatest row above with a value exists is `HasGreatest`, from the
  well-foundedness of the natural numbers. For `LatestIsFound`, `FoundInv` adds
  that the table has a row while `get_latest` has given the lock up, unless it
  was reset: housekeeping leaves one, since `keep_data_rows` is not 0.
- `CsvFileTypeCorrect`, `CsvFileBufferIsInOrder`, `CsvFileRowsAreWritten`,
  `CsvFileNothingLost`, for files of any sizes, any timestamps and names, and
  whatever is read back of a header (`AsRead`). `FileInv` has the types and ties
  the header in memory to the one in the file; `BufferSorted` needs the place of
  a new row, which exists as a least one (`HasLeast`), and `BufferBounded` the
  number of rows a call takes out of it.
  `NothingLost` is inductive beside them: the row of a value is in the buffer
  until the call that writes it to the file, and only a later value of its name
  and timestamp takes its field.
- `CsvFileColumnsDistinct`, `CsvFileFieldsBelong`, whatever is read back as well. Two
  columns of one name come only from a name that is read back as another one, and
  what is in a column was written under its name or what is left of it. `ColumnsInv`
  ties the open file's header to the one in memory, name by name: it is the same or
  what was read back of it; `FieldsInv` says that the buffer and the latest values hold
  what was written under their names (`BufferLogged`, `LatestLogged`), and that the
  latest value of a name is in the last row, from which a later one is filled up
  (`LastCarries`).
- `StorageBufferIsInOrder`, `StorageFileHoldsWhatWasWritten`,
  `StorageRowsAreWritten`, `StorageKeepsTable` transfer both to the composition: a
  behavior of `Storage` is one of the file, and of the table.
- `EntsoeNodesAreRead`. `EntsoeTables` says of each thread that is done that its
  columns have one set of rows and are bridged (`Bridged`: no row behind a value is
  empty), which `ffill` makes so (`FfillBridges`); the answer is the tables of the
  nodes that have one, side by side. A node has one just if its request works and
  there is data in the period asked for (`DataIsAnswered`, `NodesAnswered`); a table
  that cannot be made has a time twice in one of its columns, so two of its series
  overlap (`ClashOverlaps`).
- `EntsoeAnswerIsPublished`. A fold that inserts NaN at the missing positions makes the
  insertions one after the other (`FoldExists`, `FoldInserts`), and each moves the
  points behind it up (`GapsInserted`), so that a series has at each of its times what
  was published for it, or NaN (`SeriesShown`). Series of a column become one
  (`ColumnIsShown`), which is resampled, cut, joined with others (`FrameIsShown`)
  and filled up. `EntsoeReads` says of each thread that is done that its table was
  made this way from the service; the answer is all of them. A resolution divides
  the hour and a series begins at a multiple of it, since the period asked for
  begins at a full hour: else its times would not be those of the series. The theorem
  has the hypothesis `NothingHidden`: of two values for one time the code keeps the
  first, and a gap of the first series counts as one, so it would hide a value of the
  second. TLC evaluates it in `MCRequests`.
- `SolarForecastIsReturned`, between the times of the window where the service says what
  the row is (`Covered`). A table that agrees with the forecast at two rows and has its
  rows in between (`IsCut`) interpolates to the same there (`CutIsForecast`). The one
  that is cut out does (`CutOfNode`): where a forecast has no row at an end of the window
  the code puts 0, and that this is right, if nothing is forecast at the end itself, as
  far as the next row is `Dark`: a line between two values that are not negative is zero
  inside only if both are (`ZeroBetween`). So are the rows the window makes of it
  (`RowsOfWindow`). For energy, `EnergyOfDay` adds up the rows of a day, one interval
  from the next (`RowsApart`). A fold over a finite set exists (`SumsExist`) and does
  not depend on the order in which it takes the members out (`SumTakesOut`,
  `SumsAgree`). `SolarReads` ties the tables of the threads to the service and the
  answer to the tables.
- `SmardChunksAreCurrent`. `SmardChunks` follows a call through its two requests:
  the index it was given may be as old as the cache, but reaches as far as what had
  been published an hour before the call began (`SmardFrames`); the chunk chosen from
  it may be of another time, but has what had been published by then, and its rows
  have no hole (`ChunkRows`), so neither has what is kept of it (`SeriesIsWhole`), and
  its last row is not older than that (`ReadIsCurrent`).
- `WeatherValuesAreNewest`. `TakesOver` is the statement about one station's table:
  a row has the newest value of its column (`FilledUpIsNewest`), and
  `asfreq` takes over rows of other times without making them newer
  (`AsfreqTakesOver`).
- `EmonioErrorIsNoticed`. `NoticedInv`: an error nobody was told of came up after
  the last check; `CheckedInv`: values were returned within a minute of it.
- `InfluxWrittenIsRead`. The rows of the tables hold what the database has taken,
  and nothing else (`RowsHoldKept`); a call that writes is newer than all of it
  (`WritesNewest`), so what a reader met when it came can only have been replaced
  by something newer (`KeptSince`). Hence the column a query finds for a node is what
  was asked for (`QueryFinds`), stays so while others write (`ColumnsStay`), and is
  one of those selected by its field, each of which is such a column of some node
  (`JoinedHolds`). The row at the end of the window is left open: the documentation
  excludes it, the query does not (`WindowIsHalfOpen`).
- `ModbusValuesReadBack`, for nodes of any lengths, overlapping or not, and any
  number of values of a byte. `Decodes`: a signed number is decoded from the
  registers it was encoded in; the digits of a number make it again up to its high
  ones (`DigitsMake`), and those are its sign (`SignedBack`). The recursive
  functions of the model exist and are unique (`FollowsExists`, `FollowsUnique`,
  from `HasLeast`). `ModbusInv` says that the registers of a node hold what it was
  given until a node it shares one with is written (`StoreHolds`), whatever the
  data bank grows to (`ExtendedHolds`), and that a result was decoded from them.

The assumptions are those the modules name (`CsvFileAssumption`,
`EntsoeAssumption`, ...). They say what the values are: windows and published
times are integers, lengths are positive, series are finite, NaN is no value that
was published or written, and no two Influx nodes have the same table and field (they
would be the same data point; the same field in two tables is allowed). A forecast is of power that is not
negative and changes by a whole number in each tick between two of its times
(`Steady`), because rounding is left out: to interpolate a second time what was
rounded down is not to round once. TLC evaluates them for the values of each run.

Only model-checked: all liveness (`CloseReturnsInTime`, `AcceptedIsWritten`,
`StaysMonitored`, `DeliveryResumes`, `OutageReachesHandler`), since fairness and
ENABLED are outside of TLAPS.

## 5. Not modelled

- The time that passes. Waiting and intervals are nondeterministic; so the
  speed of retries is not covered.
- `create_nodes`, `delete_nodes` of the OPC UA connection, security
  negotiation, credentials.
- The OPC UA server and the loaders, which pass their calls on to asyncua.
- Parsing of nodes, URLs and tables; nodes are immutable records here. Floats
  and strings in Modbus registers.
- The movement of bytes in `_CSVFileDB._write_file`, the `csv` sniffer.
- `register` and `close` of the multi handler: an append before a subscription
  starts, and a loop over the handlers.
- Loading and saving of scenario files.
- Files, certificates, logging.

## 6. Plan

Done: the CSV handler and file, OPC UA and Modbus subscriptions, the manager and
its configuration, the DataFrame handler; the multi handler and the REST session
with the Eneffco subscription; the abstract subscription and its three
refinements; grouping of nodes; the web services, Influx, Emonio and the values
of Modbus registers. All safety properties the runs check are proved.

Next: the chunked insertion of `_write_file` against the insertion it stands for.

## 7. Running

    tlc -workers 2 -config CsvHandler.cfg MCCsvSubscriptionHandler.tla
    tlapm CsvSubscriptionHandlerProofs.tla

`PROJECT.json` names the module and configuration of every run, and maps every
definition to the lines it models.
