------------------------- MODULE OpcuaSubscription -------------------------
(***************************************************************************)
(* The subscription of OpcuaConnection.  One asyncio task                  *)
(* (_subscription_loop) keeps the client connected and the server-side     *)
(* subscription alive; asyncua's own thread calls datachange_notification; *)
(* the program calls subscribe, close_sub, read and write on the same      *)
(* object, and so on the same client, whenever the task awaits.            *)
(*                                                                         *)
(* A task that close_sub cancelled does nothing more than end, whichever   *)
(* await it was in, so it is gone with the call.                           *)
(***************************************************************************)
EXTENDS ConnectionUtils

CONSTANTS
  Nodes,          \* the nodes the program may subscribe to
  Watched,        \* those with an interval, which the IntervalChecker checks
  RetryCap,       \* where the retry counters are cut off
  ServerFails,    \* may the server go away?
  RequestErrors,  \* may it refuse or time out a request while it is there?
  HandlerRaises,  \* may the push of the SubscriptionHandler raise?
  AddsWhileOpen,  \* may subscribe be called while a subscription is open?
  ForeignCalls    \* bound on the calls of read or write while it is open

ASSUME OpcuaAssumption ==
  /\ Watched \subseteq Nodes
  /\ RetryCap \in Nat \ {0}     \* a failed attempt is told from none
  /\ ForeignCalls \in Nat
  /\ {ServerFails, RequestErrors, HandlerRaises, AddsWhileOpen} \subseteq BOOLEAN

VARIABLES
  up,             \* the server answers
  session,        \* the client has a session the server still knows
  monitored,      \* nodes with a monitored item in that session
  open,           \* self._subscription_open
  nodes,          \* self._subscription_nodes
  connected,      \* self._connected
  retry,          \* self._retry.counter
  retry_interval, \* self._retry_interval_checker.counter
  latest,         \* self.connection_interval_checker.node_latest_values
  task,           \* where the loop's task is
  subscribed,     \* its local variable subscribed
  keys,           \* the nodes check_interval_connection began to iterate over
  last,           \* what the loop's handler was last told about each node
  asked,          \* the nodes subscribe was given since the last close_sub
  calls           \* calls of read or write that met an open subscription

server == <<up, session, monitored>>
caller == <<open, nodes, asked, calls>>
loop == <<task, subscribed, keys>>
vars == <<server, caller, loop, connected, retry, retry_interval, latest, last>>

\* The awaits of the loop; between them nothing else runs in its thread.
Awaits == {"start", "retry", "stale", "sleep"}
OutsideLoop == task \in Awaits \cup {"none", "dead"}

Init ==
  /\ up \in IF ServerFails THEN BOOLEAN ELSE {TRUE}
  /\ session = FALSE
  /\ monitored = {}
  /\ open = FALSE
  /\ nodes = {}
  /\ connected = FALSE
  /\ retry = 0
  /\ retry_interval = 0
  /\ latest = [n \in Nodes |-> "absent"]
  /\ task = "none"
  /\ subscribed = FALSE
  /\ keys = {}
  /\ last = [n \in Nodes |-> "nothing"]
  /\ asked = {}
  /\ calls = 0

-----------------------------------------------------------------------------
(* The server and the network *)

ServerDown ==
  /\ ServerFails /\ up
  /\ up' = FALSE
  /\ session' = FALSE
  /\ monitored' = {}
  /\ UNCHANGED <<caller, loop, connected, retry, retry_interval, latest, last>>

ServerUp ==
  /\ ~up
  /\ up' = TRUE
  /\ UNCHANGED <<session, monitored, caller, loop, connected, retry,
                 retry_interval, latest, last>>

\* datachange_notification, in asyncua's thread: to the handler first, then to
\* the interval checker, which is skipped if the handler raises.
Notify(n) ==
  /\ n \in monitored
  /\ last' = [last EXCEPT ![n] = "value"]
  /\ \/ \E changed \in BOOLEAN : latest' = Pushed(latest, Watched, n, changed)
     \/ HandlerRaises /\ UNCHANGED latest
  /\ UNCHANGED <<server, caller, loop, connected, retry, retry_interval>>

\* The interval of a node runs out without a change of its value.
Age(n) ==
  /\ n \in Known(latest)
  /\ latest' = Aged(latest, n)
  /\ UNCHANGED <<server, caller, loop, connected, retry, retry_interval, last>>

-----------------------------------------------------------------------------
(* _connect and _disconnect, parts of the steps below *)

_connect_ok ==
  /\ up
  /\ connected' = TRUE
  /\ session' = TRUE
  /\ monitored' = {}
  /\ retry' = Success

_connect_fails ==
  /\ ~up \/ RequestErrors
  /\ connected' = FALSE
  /\ session' = FALSE
  /\ monitored' = {}
  /\ retry' = Tried(retry, RetryCap)

_disconnect ==
  /\ connected' = FALSE
  /\ session' = FALSE
  /\ monitored' = {}

\* Where the next round of the loop takes the task, given the two flags.
NextRound(conn, sub) ==
  CASE ~open                   -> "none"
    [] open /\ ~conn           -> "retry"
    [] open /\ conn /\ ~sub    -> "create"
    [] open /\ conn /\ sub     -> "check"

-----------------------------------------------------------------------------
(* _subscription_loop *)

\* The first step of the task, and the steps that follow its sleeps.
Resume ==
  /\ task \in {"start", "stale", "sleep"}
  /\ task' = NextRound(connected, subscribed)
  /\ UNCHANGED <<server, caller, subscribed, keys, connected, retry,
                 retry_interval, latest, last>>

\* Mutant: a connection error ends the loop.
ConnectGivesUp ==
  /\ task = "retry"
  /\ \/ _connect_ok /\ task' = "check"
     \/ _connect_fails /\ task' = "none"
  /\ UNCHANGED <<up, caller, subscribed, keys, retry_interval, latest, last>>

\* The wait is over.  A ConnectionError begins the next round at once; any
\* other error goes through the handler below and the connection check.
Connect ==
  /\ task = "retry"
  /\ \/ _connect_ok /\ task' = "check" /\ UNCHANGED subscribed
     \/ _connect_fails /\ task' = NextRound(FALSE, subscribed) /\ UNCHANGED subscribed
     \/ _connect_fails /\ task' = "check" /\ subscribed' = FALSE
  /\ UNCHANGED <<up, caller, keys, retry_interval, latest, last>>

\* create_subscription, then one monitored item per node of the subscription;
\* a node that is refused is only reported.
CreateSubscription ==
  /\ task = "create"
  /\ \/ /\ session
        /\ subscribed' = TRUE
        /\ \E refused \in IF RequestErrors THEN SUBSET nodes ELSE {{}} :
             monitored' = nodes \ refused
        /\ task' = "check"
        /\ UNCHANGED <<session, connected>>
     \/ /\ RequestErrors \/ ~session                  \* RuntimeError
        /\ subscribed' = FALSE
        /\ _disconnect
        /\ task' = NextRound(FALSE, FALSE)
     \/ /\ RequestErrors \/ ~session                  \* any other error, at any node
        /\ \E made \in SUBSET nodes : monitored' = IF session THEN made ELSE {}
        /\ subscribed' = FALSE
        /\ connected' = FALSE
        /\ task' = "check"
        /\ UNCHANGED session
  /\ UNCHANGED <<up, caller, keys, retry, retry_interval, latest, last>>

\* _check_connection finds the connection alive.
CheckPasses ==
  /\ task = "check"
  /\ connected /\ session
  /\ task' = IF subscribed THEN "interval" ELSE NextRound(TRUE, FALSE)
  /\ UNCHANGED <<server, caller, subscribed, keys, connected, retry,
                 retry_interval, latest, last>>

\* Mutants: NaN for the nodes still monitored only; no NaN at all; and the loop
\* still believes in its subscription.
CheckFailsMarksMonitored ==
  /\ task = "check"
  /\ ~(connected /\ session) \/ RequestErrors
  /\ _disconnect
  /\ last' = [n \in Nodes |-> IF n \in monitored THEN "nan" ELSE last[n]]
  /\ subscribed' = FALSE
  /\ task' = NextRound(FALSE, FALSE)
  /\ UNCHANGED <<up, caller, keys, retry, retry_interval, latest>>

CheckFailsSilently ==
  /\ task = "check"
  /\ ~(connected /\ session) \/ RequestErrors
  /\ _disconnect
  /\ subscribed' = FALSE
  /\ task' = NextRound(FALSE, FALSE)
  /\ UNCHANGED <<up, caller, keys, retry, retry_interval, latest, last>>

CheckFailsKeepsSubscribed ==
  /\ task = "check"
  /\ ~(connected /\ session) \/ RequestErrors
  /\ _disconnect
  /\ last' = [n \in Nodes |-> IF n \in nodes THEN "nan" ELSE last[n]]
  /\ task' = NextRound(FALSE, subscribed)
  /\ UNCHANGED <<up, caller, subscribed, keys, retry, retry_interval, latest>>

\* It does not: the handler is told NaN for every node.  Nothing catches what
\* the handler raises here, and the task ends with the subscription open.
CheckFails ==
  /\ task = "check"
  /\ ~(connected /\ session) \/ RequestErrors
  /\ _disconnect
  /\ \/ /\ last' = [n \in Nodes |-> IF n \in nodes THEN "nan" ELSE last[n]]
        /\ subscribed' = FALSE
        /\ task' = NextRound(FALSE, FALSE)
     \/ /\ HandlerRaises
        /\ \E told \in SUBSET nodes :
             /\ told # nodes
             /\ last' = [n \in Nodes |-> IF n \in told THEN "nan" ELSE last[n]]
        /\ task' = "dead"
        /\ UNCHANGED subscribed
  /\ UNCHANGED <<up, caller, keys, retry, retry_interval, latest>>

\* check_interval_connection begins to iterate over the dictionary ...
IntervalBegin ==
  /\ task = "interval"
  /\ keys' = Known(latest)
  /\ task' = "iterate"
  /\ UNCHANGED <<server, caller, subscribed, connected, retry, retry_interval,
                 latest, last>>

\* Mutant: a success takes back one failed attempt.
IntervalPassesCountsDown ==
  /\ task = "iterate"
  /\ keys = {} \/ keys = Known(latest)
  /\ keys \cap Stale(latest) = {}
  /\ retry_interval' = retry_interval - 1
  /\ task' = "sleep"
  /\ keys' = {}
  /\ UNCHANGED <<server, caller, subscribed, connected, retry, latest, last>>

\* ... and every entry it looks at is recent enough.
IntervalPasses ==
  /\ task = "iterate"
  /\ keys = {} \/ keys = Known(latest)
  /\ keys \cap Stale(latest) = {}
  /\ retry_interval' = Success
  /\ task' = "sleep"
  /\ keys' = {}
  /\ UNCHANGED <<server, caller, subscribed, connected, retry, latest, last>>

IntervalFails ==
  /\ task = "iterate"
  /\ keys \cap Stale(latest) # {}
  /\ subscribed' = FALSE
  /\ _disconnect
  /\ retry_interval' = Tried(retry_interval, RetryCap)
  /\ task' = "stale"
  /\ keys' = {}
  /\ UNCHANGED <<up, caller, retry, latest, last>>

\* asyncua's thread put a new key into the dictionary meanwhile: the iteration
\* raises outside of the try block.
IntervalRaises ==
  /\ task = "iterate"
  /\ keys # {} /\ keys # Known(latest)
  /\ task' = "dead"
  /\ keys' = {}
  /\ UNCHANGED <<server, caller, subscribed, connected, retry, retry_interval,
                 latest, last>>

-----------------------------------------------------------------------------
(* What the program calls *)

\* With a subscription open the nodes are added and that is all; otherwise a
\* new loop with a new handler starts.
subscribe(ns) ==
  /\ OutsideLoop
  /\ ~open \/ AddsWhileOpen
  /\ nodes' = nodes \cup ns
  /\ asked' = asked \cup ns
  /\ IF open
       THEN UNCHANGED <<open, task, subscribed, last>>
       ELSE /\ open' = TRUE
            /\ task' = "start"
            /\ subscribed' = FALSE
            /\ last' = [n \in Nodes |-> "nothing"]
  /\ UNCHANGED <<server, keys, connected, retry, retry_interval, latest, calls>>

\* Mutant: the task is left to find out by itself.
close_sub_without_cancel ==
  /\ OutsideLoop
  /\ open' = FALSE
  /\ asked' = {}
  /\ _disconnect
  /\ UNCHANGED <<up, nodes, loop, retry, retry_interval, latest, last, calls>>

\* Unsubscribing and deleting may fail in many ways, all of them swallowed; the
\* task is cancelled and the client disconnected in any case.
close_sub ==
  /\ OutsideLoop
  /\ open' = FALSE
  /\ task' = "none"
  /\ asked' = {}
  /\ _disconnect
  /\ UNCHANGED <<up, nodes, subscribed, keys, retry, retry_interval, latest, last, calls>>

\* read and write connect and disconnect the one client (_connection).
ReadOrWrite ==
  /\ OutsideLoop
  /\ IF open THEN calls < ForeignCalls /\ calls' = calls + 1 ELSE UNCHANGED calls
  /\ \/ up /\ retry' = Success
     \/ (~up \/ RequestErrors) /\ retry' = Tried(retry, RetryCap)
  /\ _disconnect
  /\ UNCHANGED <<up, open, nodes, asked, loop, retry_interval, latest, last>>

-----------------------------------------------------------------------------
Loop ==
  \/ Resume \/ Connect \/ CreateSubscription
  \/ CheckPasses \/ CheckFails
  \/ IntervalBegin \/ IntervalPasses \/ IntervalFails \/ IntervalRaises

Program ==
  \/ \E ns \in SUBSET Nodes : ns # {} /\ subscribe(ns)
  \/ close_sub
  \/ ReadOrWrite

Next ==
  \/ ServerDown \/ ServerUp
  \/ \E n \in Nodes : Notify(n) \/ Age(n)
  \/ Loop
  \/ Program

Spec == Init /\ [][Next]_vars

\* The event loop resumes a task whose wait is over, and asyncua's thread
\* delivers what the server publishes for an item that stays monitored.
Fairness == WF_vars(Loop) /\ \A n \in Nodes : WF_vars(Notify(n))
FairSpec == Spec /\ Fairness

-----------------------------------------------------------------------------
(* Properties *)

\* Types of the variables of the connection, its loop, its peers.
TypeOK ==
  /\ {up, session, open, connected, subscribed} \subseteq BOOLEAN
  /\ monitored \subseteq Nodes
  /\ nodes \subseteq Nodes
  /\ asked \subseteq Nodes
  /\ calls \in 0..ForeignCalls
  /\ keys \subseteq Nodes
  /\ retry \in 0..RetryCap
  /\ retry_interval \in 0..RetryCap
  /\ latest \in [Nodes -> Ages]
  /\ task \in Awaits \cup {"none", "dead", "create", "check", "interval", "iterate"}
  /\ last \in [Nodes -> {"nothing", "value", "nan"}]

\* After close_sub nothing of the loop brings the connection back: a closed
\* subscription has no session and no monitored item.
ClosedIsQuiet == ~open => ~connected /\ ~session /\ monitored = {}

\* The connection keeps the promise of every subscription.  What tells the handler
\* is the session's notifications and the task together, and no error is kept.
Promise == INSTANCE Subscription WITH
  Loops <- {"the task"},
  Told <- [Nodes -> {"nothing", "value", "nan"}],
  loops <- IF task = "none" THEN {} ELSE {"the task"},
  failed <- FALSE,
  told <- last
ImplementsSubscription == Promise!Spec

\* An open subscription has one task, alive or dead, and a closed one has none:
\* a loop ends by close_sub or by an error, never by itself.
OpenHasTask == open <=> task # "none"

\* The loop believes in a server-side subscription only while one exists for
\* all of its nodes, or while the session it belonged to is gone.
SubscribedIsTrue == task \in {"sleep", "interval"} /\ subscribed /\ session => monitored = nodes

\* While the loop tries to get the connection back after an outage, no node looks
\* alive to the handler.  (The interval check and a call of read or write also
\* disconnect, without telling it.)
GapIsMarked ==
  task = "retry" /\ retry_interval = 0 /\ calls = 0 => \A n \in nodes : last[n] # "value"

\* Once the server stays, every node of an open subscription is monitored again
\* and again ...
StaysMonitored ==
  \A n \in Nodes : <>[]up => []<>(open /\ n \in nodes => n \in monitored)

\* ... and the handler hears of it, whatever it was told before.
DeliveryResumes ==
  \A n \in Nodes : <>[]up => (open /\ n \in nodes ~> ~open \/ last[n] = "value")

\* If the server stays away, the handler ends up with no value that looks alive.
OutageReachesHandler ==
  \A n \in Nodes : <>[]~up => <>[](open /\ n \in nodes => last[n] # "value")
=============================================================================
