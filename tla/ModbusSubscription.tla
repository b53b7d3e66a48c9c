------------------------ MODULE ModbusSubscription ------------------------
(***************************************************************************)
(* The subscription of ModbusConnection: an asyncio task                   *)
(* (_subscription_loop) polls the nodes over a blocking client that        *)
(* subscribe, close_sub, read and write of the same object share with it.  *)
(* Everything runs in the event loop's thread, so nothing but the server   *)
(* interleaves with a round of the loop between two of its awaits.         *)
(*                                                                         *)
(* A task is a member of Tasks, one that ended may stand for a later one.  *)
(* A cancelled task only ends, so it is gone with the cancel().            *)
(***************************************************************************)
EXTENDS ConnectionUtils

CONSTANTS
  Nodes,          \* the nodes the program may subscribe to
  Watched,        \* those with an interval
  Invalid,        \* those with an address or a length the client asks nobody for
  Tasks,          \* tasks of the loop, at least as many as may run at a time
  RetryCap,       \* where the retry counters are cut off
  ServerFails,    \* may the server go away?
  RequestErrors,  \* may it refuse to read a node, or to accept a client?
  RoundRaises,    \* may a handler's push, or decoding a value, raise?
  ForeignCalls    \* may read or write be called while a subscription is open?

ASSUME ModbusAssumption ==
  /\ Watched \subseteq Nodes /\ Invalid \subseteq Nodes
  /\ RetryCap \in Nat
  /\ {ServerFails, RequestErrors, RoundRaises, ForeignCalls} \subseteq BOOLEAN

VARIABLES
  up,             \* the server answers
  link,           \* the server still holds the other end of the client's connection
  is_open,        \* self.connection.is_open
  open,           \* self._subscription_open
  nodes,          \* self._subscription_nodes
  sub,            \* self._sub, the task that close_sub cancels
  exc,            \* self.exc is set
  pc,             \* where each task is
  retry,          \* self._retry.counter
  retry_interval, \* self._retry_interval_checker.counter
  latest,         \* self._connection_interval_checker.node_latest_values
  last            \* what the handler was last told about each node

caller == <<open, nodes, sub>>
retries == <<retry, retry_interval>>
vars == <<up, link, is_open, caller, exc, pc, retries, latest, last>>

NoTask == "no task"
Awaits == {"start", "retry", "stale", "sleep"}
Running(t) == pc[t] # "done"
OutsideRound == \A t \in Tasks : pc[t] \in Awaits \cup {"done"}

Init ==
  /\ up \in IF ServerFails THEN BOOLEAN ELSE {TRUE}
  /\ link = FALSE
  /\ is_open = FALSE
  /\ open = FALSE
  /\ nodes = {}
  /\ sub = NoTask
  /\ exc = FALSE
  /\ pc = [t \in Tasks |-> "done"]
  /\ retry = 0
  /\ retry_interval = 0
  /\ latest = [n \in Nodes |-> "absent"]
  /\ last = [n \in Nodes |-> "nothing"]

-----------------------------------------------------------------------------
(* The server, the network and the clock.  The client finds out that the   *)
(* server is gone at its next request.                                     *)

ServerDown ==
  /\ ServerFails /\ up
  /\ up' = FALSE
  /\ link' = FALSE
  /\ UNCHANGED <<is_open, caller, exc, pc, retries, latest, last>>

ServerUp ==
  /\ ~up
  /\ up' = TRUE
  /\ UNCHANGED <<link, is_open, caller, exc, pc, retries, latest, last>>

Age(n) ==
  /\ n \in Known(latest)
  /\ latest' = Aged(latest, n)
  /\ UNCHANGED <<up, link, is_open, caller, exc, pc, retries, last>>

-----------------------------------------------------------------------------
(* _connect and _disconnect, parts of the steps below *)

\* An open connection is taken as it is, without a look at its other end.
_connect_ok ==
  /\ is_open \/ up
  /\ is_open' = TRUE
  /\ link' = IF is_open THEN link ELSE TRUE
  /\ retry' = Success

_connect_fails ==
  /\ ~is_open
  /\ ~up \/ RequestErrors
  /\ retry' = Tried(retry, RetryCap)
  /\ UNCHANGED <<is_open, link>>

_disconnect ==
  /\ is_open' = FALSE
  /\ link' = FALSE

NextRound == IF open THEN "retry" ELSE "done"

-----------------------------------------------------------------------------
(* _subscription_loop *)

\* The first step of a task, and the steps that follow its sleeps.
Resume(t) ==
  /\ OutsideRound
  /\ pc[t] \in {"start", "stale", "sleep"}
  /\ pc' = [pc EXCEPT ![t] = NextRound]
  /\ UNCHANGED <<up, link, is_open, caller, exc, retries, latest, last>>

\* The wait is over: connect, or begin the next round.
Connect(t) ==
  /\ OutsideRound
  /\ pc[t] = "retry"
  /\ \/ _connect_ok /\ pc' = [pc EXCEPT ![t] = "poll"]
     \/ _connect_fails /\ pc' = [pc EXCEPT ![t] = NextRound]
  /\ UNCHANGED <<up, caller, exc, retry_interval, latest, last>>

\* What reading the nodes asked for may give: those with a value, and whether
\* the client is still open afterwards.  It closes when the other end is gone,
\* which may happen anywhere in the round, and asks nobody for an invalid node.
ReadNodes(asked, read, stays) ==
  LET valid == asked \ Invalid IN
  /\ read \subseteq valid
  /\ \/ link /\ read = valid /\ stays /\ up' = up
     \/ link /\ RequestErrors /\ (stays \/ read # valid) /\ up' = up
     \/ link /\ ServerFails /\ ~stays /\ read # valid /\ up' = FALSE
     \/ ~link /\ read = {} /\ (stays <=> valid = {}) /\ up' = up
  /\ is_open' = stays
  /\ link' = (stays /\ link)

\* The handler is told a value, or NA if the read failed; of an invalid node it
\* is told nothing (ValueError), unless the client has closed before.
Tell(told, read, stays) ==
  /\ \E untold \in IF stays THEN {told \cap Invalid} ELSE SUBSET (told \cap Invalid) :
       last' = [n \in Nodes |-> CASE n \in told \cap read              -> "value"
                                     [] n \in told \ (read \cup untold) -> "na"
                                     [] OTHER                           -> last[n]]
  /\ \E changed \in SUBSET (told \cap read) :
       latest' = PushedAll(latest, Watched, told \cap read, changed)

\* Every node is read and the handler told.
Poll(t) ==
  /\ pc[t] = "poll"
  /\ \E read \in SUBSET nodes, stays \in BOOLEAN :
       ReadNodes(nodes, read, stays) /\ Tell(nodes, read, stays)
  /\ pc' = [pc EXCEPT ![t] = "check"]
  /\ UNCHANGED <<caller, exc, retries>>

\* Mutant: the error is lost with the task.
PollRaisesSilently(t) ==
  /\ pc[t] = "poll"
  /\ RoundRaises
  /\ \E asked \in SUBSET nodes : \E read \in SUBSET asked, n \in asked, stays \in BOOLEAN :
       /\ n \notin Invalid \/ ~stays
       /\ ReadNodes(asked, read, stays) /\ Tell(asked \ {n}, read, stays)
  /\ pc' = [pc EXCEPT ![t] = "done"]
  /\ UNCHANGED <<caller, exc, retries>>

\* Telling the handler or decoding a value raises at some node; the task keeps
\* the error in self.exc and ends, with the subscription open and the client as
\* the reads left it.
PollRaises(t) ==
  /\ pc[t] = "poll"
  /\ RoundRaises
  /\ \E asked \in SUBSET nodes : \E read \in SUBSET asked, n \in asked, stays \in BOOLEAN :
       /\ n \notin Invalid \/ ~stays
       /\ ReadNodes(asked, read, stays) /\ Tell(asked \ {n}, read, stays)
  /\ exc' = TRUE
  /\ pc' = [pc EXCEPT ![t] = "done"]
  /\ UNCHANGED <<caller, retries>>

\* Mutant: a success takes back one failed attempt.
CheckIntervalCountsDown(t) ==
  /\ pc[t] = "check"
  /\ \/ /\ is_open /\ Stale(latest) = {}
        /\ retry_interval' = retry_interval - 1
        /\ pc' = [pc EXCEPT ![t] = "sleep"]
     \/ /\ ~is_open
        /\ pc' = [pc EXCEPT ![t] = NextRound]
        /\ UNCHANGED retry_interval
  /\ UNCHANGED <<up, link, is_open, caller, exc, retry, latest, last>>

\* The interval check.  A value that is too old leads to a longer wait.
CheckInterval(t) ==
  /\ pc[t] = "check"
  /\ \/ /\ is_open /\ Stale(latest) = {}
        /\ retry_interval' = Success
        /\ pc' = [pc EXCEPT ![t] = "sleep"]
     \/ /\ is_open /\ Stale(latest) # {}
        /\ retry_interval' = Tried(retry_interval, RetryCap)
        /\ pc' = [pc EXCEPT ![t] = "stale"]
     \/ /\ ~is_open
        /\ pc' = [pc EXCEPT ![t] = NextRound]
        /\ UNCHANGED retry_interval
  /\ UNCHANGED <<up, link, is_open, caller, exc, retry, latest, last>>

-----------------------------------------------------------------------------
(* What the program calls *)

\* With a subscription open the nodes are added and that is all; otherwise a
\* new task starts.
subscribe(ns) ==
  /\ OutsideRound
  /\ nodes' = nodes \cup ns
  /\ IF open
       THEN UNCHANGED <<open, sub, pc, last>>
       ELSE /\ open' = TRUE
            /\ \E t \in Tasks :
                 /\ ~Running(t)
                 /\ sub' = t
                 /\ pc' = [pc EXCEPT ![t] = "start"]
            /\ last' = [n \in Nodes |-> "nothing"]
  /\ UNCHANGED <<up, link, is_open, exc, retries, latest>>

\* Mutant: the task is left to find out by itself.
close_sub_without_cancel ==
  /\ OutsideRound
  /\ open' = FALSE
  /\ IF exc THEN UNCHANGED <<is_open, link>> ELSE _disconnect
  /\ UNCHANGED <<up, nodes, sub, exc, pc, retries, latest, last>>

\* A stored error is raised before anything else is done.
close_sub ==
  /\ OutsideRound
  /\ open' = FALSE
  /\ IF exc
       THEN UNCHANGED <<pc, is_open, link>>
       ELSE /\ pc' = [t \in Tasks |-> IF t = sub THEN "done" ELSE pc[t]]
            /\ _disconnect
  /\ UNCHANGED <<up, nodes, sub, exc, retries, latest, last>>

\* read and write connect, unless the client is open, and disconnect.
ReadOrWrite ==
  /\ OutsideRound
  /\ ~open \/ ForeignCalls
  /\ \/ (is_open \/ up) /\ retry' = Success
     \/ ~is_open /\ (~up \/ RequestErrors) /\ retry' = Tried(retry, RetryCap)
  /\ _disconnect
  /\ UNCHANGED <<up, caller, exc, pc, retry_interval, latest, last>>

-----------------------------------------------------------------------------
Loop(t) == Resume(t) \/ Connect(t) \/ Poll(t) \/ PollRaises(t) \/ CheckInterval(t)

Program ==
  \/ \E ns \in SUBSET Nodes : ns # {} /\ subscribe(ns)
  \/ close_sub
  \/ ReadOrWrite

Next ==
  \/ ServerDown \/ ServerUp
  \/ \E n \in Nodes : Age(n)
  \/ \E t \in Tasks : Loop(t)
  \/ Program

Spec == Init /\ [][Next]_vars

\* The event loop resumes every task whose wait is over.
Fairness == \A t \in Tasks : WF_vars(Loop(t))
FairSpec == Spec /\ Fairness

-----------------------------------------------------------------------------
(* Properties *)

\* Types of the variables of the connection, its tasks and its peer.
TypeOK ==
  /\ {up, link, is_open, open, exc} \subseteq BOOLEAN
  /\ nodes \subseteq Nodes
  /\ sub \in Tasks \cup {NoTask}
  /\ pc \in [Tasks -> Awaits \cup {"done", "poll", "check"}]
  /\ retry \in 0..RetryCap
  /\ retry_interval \in 0..RetryCap
  /\ latest \in [Nodes -> Ages]
  /\ last \in [Nodes -> {"nothing", "value", "na"}]

\* "Do not start an additional loop if one already exists": at most one task
\* polls for the connection ...
AtMostOneLoop == \A t, u \in Tasks : Running(t) /\ Running(u) => t = u

\* ... and until a loop has ended with an error, there is no second one, however
\* subscribe, close_sub, read and write are mixed.
OneLoopUntilError == ~exc => AtMostOneLoop

\* The connection keeps the promise of every subscription.
Promise == INSTANCE Subscription WITH
  Loops <- Tasks,
  Told <- [Nodes -> {"nothing", "value", "na"}],
  loops <- {t \in Tasks : Running(t)},
  failed <- exc,
  told <- last
ImplementsSubscription == Promise!Spec

\* Until then, no task and no read brings the client back after close_sub.
ClosedIsQuiet == ~open => ~is_open /\ ~link
QuietUntilError == ~exc => ClosedIsQuiet

\* A subscription that is open but has no task left has kept the error that
\* ended it, for close_sub to raise.
DeathIsKept == open /\ (\A t \in Tasks : ~Running(t)) => exc

\* A handler that was given values was also told NA for some node.
SomeNodeMarked ==
  (\E n \in nodes : last[n] = "value") => \E n \in nodes \ Invalid : last[n] = "na"

\* Once the server stays, every valid node of an open subscription is told a value
\* again, also one that was added while the subscription was open.
DeliveryResumes ==
  \A n \in Nodes \ Invalid : <>[]up => (open /\ n \in nodes ~> ~open \/ last[n] = "value")

\* If the server stays away, a handler that was given values hears of it.
OutageReachesHandler == <>[]~up => <>[](open => SomeNodeMarked)
=============================================================================
