------------------------- MODULE EneffcoConnection -------------------------
(***************************************************************************)
(* EneffcoConnection: a loop (_subscription_loop) reads a short series of   *)
(* every subscribed node over and over and pushes the columns it gets to    *)
(* its handler; read, read_series, read_info and write use the same session *)
(* and the same tables of IDs.                                              *)
(*                                                                         *)
(* A read blocks the thread of the event loop while the threads of its      *)
(* nodes (or, in read_info and write, one node after the other) find their  *)
(* IDs and send their requests; only those threads and the server           *)
(* interleave with it.                                                      *)
(***************************************************************************)
EXTENDS RESTConnection, MultiSubscriptionHandler

CONSTANTS
  UnknownCodes,   \* nodes whose code the server does not know
  Tasks,          \* tasks of the loop, at least as many as may run at a time
  MaxCalls        \* bound on the program's own reads and writes

ASSUME EneffcoAssumption ==
  /\ UnknownCodes \subseteq Nodes
  /\ ServerFails \in BOOLEAN
  /\ MaxCalls \in Nat
  /\ Tasks \cap {"none", "program", "read_info", "write"} = {}

VARIABLES
  tables,         \* self._node_ids and self._node_ids_raw: loaded?
  stage,          \* where the thread of each node is
  frame,          \* what it returns: data, an empty frame, or an exception
  call,           \* the read under way: a task's, the program's, or none
  todo,           \* nodes of a sequential call that are still to come
  asked,          \* the nodes of a task's read
  open,           \* self._subscription_open
  nodes,          \* self._subscription_nodes
  sub,            \* self._sub
  exc,            \* self.exc is set
  pc,             \* where each task is
  told,           \* what each handler was last told about each node
  calls           \* the program's own calls so far

request == <<tables, stage, frame>>
blocking == <<call, todo, asked>>
subscription == <<open, nodes, sub, exc, pc, told>>
vars == <<rest, request, blocking, subscription, calls>>

Tables == {"_node_ids", "_node_ids_raw"}
Sequential == {"read_info", "write"}
Idle == [at |-> "idle", table |-> "_node_ids"]
Running(t) == pc[t] # "done"
NothingTold == [h \in 1..Len(Handlers) |-> [n \in Nodes |-> "nothing"]]

Init ==
  /\ RESTInit
  /\ tables = [t \in Tables |-> FALSE]
  /\ stage = [n \in Nodes |-> Idle]
  /\ frame = [n \in Nodes |-> "none"]
  /\ call = "none"
  /\ todo = {}
  /\ asked = {}
  /\ open = FALSE
  /\ nodes = {}
  /\ sub = "no task"
  /\ exc = FALSE
  /\ pc = [t \in Tasks |-> "done"]
  /\ told = NothingTold
  /\ calls = 0

-----------------------------------------------------------------------------
(* id_from_code: both tables are loaded unless they are there.             *)

Goto(n, at, table) == stage' = [stage EXCEPT ![n] = [at |-> at, table |-> table]]
At(n, at) == stage[n].at = at

Send(n) == phase' = [phase EXCEPT ![n] = session]

\* The thread is done, with a result; what the program's own calls return to it is
\* not kept, but whether a sequential one goes on.
Return(n, result) ==
  /\ stage' = [stage EXCEPT ![n] = Idle]
  /\ IF call \in Tasks
       THEN frame' = [frame EXCEPT ![n] = result] /\ UNCHANGED todo
       ELSE todo' = (IF result = "raised" THEN {} ELSE todo) /\ UNCHANGED frame

\* A table that is there is used, one that is missing requested.
look(n) ==
  /\ At(n, "look")
  /\ LET t == stage[n].table IN
       IF ~tables[t]
         THEN Goto(n, "load", t) /\ Send(n)
         ELSE /\ IF t = "_node_ids" THEN Goto(n, "look", "_node_ids_raw")
                                    ELSE Goto(n, "find_id", t)
              /\ UNCHANGED phase
  /\ UNCHANGED <<healthy, cached_session, tables, frame, todo>>

\* _safe_json_df of the response is stored whatever it is ...
load(n) ==
  /\ At(n, "load")
  /\ \E response \in {"json", "None"} :
       /\ _raw_request(n, response)
       /\ \E parsed \in {TRUE} \cup IF healthy THEN {} ELSE {FALSE} :
            tables' = [tables EXCEPT ![stage[n].table] = (response = "json" /\ parsed)]
  /\ Goto(n, "loaded", stage[n].table)
  /\ UNCHANGED <<healthy, cached_session, frame, todo>>

\* ... and looked at again: without a table the ID is the empty string.
loaded(n) ==
  /\ At(n, "loaded")
  /\ LET t == stage[n].table IN
       CASE ~tables[t]                      -> Goto(n, "value without id", t) /\ Send(n)
         [] tables[t] /\ t = "_node_ids"    -> Goto(n, "look", "_node_ids_raw") /\ UNCHANGED phase
         [] tables[t] /\ t # "_node_ids"    -> Goto(n, "find_id", t) /\ UNCHANGED phase
  /\ UNCHANGED <<healthy, cached_session, tables, frame, todo>>

\* The table is read once more: it may be gone since (AttributeError); a code
\* that it lacks raises a ValueError.  write raises for data of a wrong type.
find_id(n) ==
  /\ At(n, "find_id")
  /\ LET t == IF call = "write" THEN "_node_ids_raw" ELSE "_node_ids" IN
       \/ /\ tables[t] /\ n \notin UnknownCodes
          /\ Goto(n, "value", t) /\ Send(n)
          /\ UNCHANGED <<frame, todo>>
       \/ /\ ~tables[t] \/ n \in UnknownCodes \/ call = "write"
          /\ Return(n, "raised")
          /\ UNCHANGED phase
  /\ UNCHANGED <<healthy, cached_session, tables>>

\* The request for the values, or the upload of them.
value(n) ==
  /\ At(n, "value") \/ At(n, "value without id")
  /\ \E response \in {"json", "None"} :
       /\ _raw_request(n, response)
       /\ \E f \in IF At(n, "value") THEN _read_node(response) ELSE {"empty"} : Return(n, f)
  /\ UNCHANGED <<healthy, cached_session, tables>>

Thread(n) ==
  /\ \/ look(n) \/ load(n) \/ loaded(n) \/ find_id(n) \/ value(n)
     \/ NewSession(n) /\ UNCHANGED <<healthy, request, todo>>
  /\ UNCHANGED <<call, asked, subscription, calls>>

-----------------------------------------------------------------------------
(* _get_data, and the calls that go from node to node *)

Blocked == call # "none"
ThreadsDone == todo = {} /\ \A n \in Nodes : At(n, "idle")

\* read_node starts in a thread for each of ns.
Start(ns) ==
  /\ stage' = [n \in Nodes |-> IF n \in ns THEN [Idle EXCEPT !.at = "look"] ELSE Idle]
  /\ frame' = [n \in Nodes |-> "none"]
  /\ UNCHANGED <<rest, tables>>

_get_data(who, ns) ==
  /\ call' = who
  /\ asked' = IF who \in Tasks THEN ns ELSE {}
  /\ todo' = {}
  /\ Start(ns)

\* read_series (or read) of the program: what it returns or raises is not our
\* business, only what it does to the tables and the session.
read_series(ns) ==
  /\ ~Blocked /\ calls < MaxCalls
  /\ _get_data("program", ns)
  /\ calls' = calls + 1
  /\ UNCHANGED subscription

\* read_info and write take one node at a time ...
InTurn(who, ns) ==
  /\ ~Blocked /\ calls < MaxCalls
  /\ call' = who
  /\ todo' = ns
  /\ UNCHANGED asked
  /\ calls' = calls + 1
  /\ Start({})
  /\ UNCHANGED subscription

read_info(ns) == InTurn("read_info", ns)
write(ns) == InTurn("write", ns)

\* ... and go on when a request failed, but not when something was raised.
NextInTurn ==
  /\ call \in Sequential
  /\ \A n \in Nodes : At(n, "idle")
  /\ \E n \in todo :
       /\ todo' = todo \ {n}
       /\ stage' = [stage EXCEPT ![n].at = "look"]
  /\ UNCHANGED <<rest, tables, frame, call, asked, subscription, calls>>

\* The locals of a call end with it.
End ==
  /\ call' = "none"
  /\ asked' = {}
  /\ todo' = {}
  /\ frame' = [n \in Nodes |-> "none"]

CallReturns ==
  /\ call \in Sequential \cup {"program"}
  /\ ThreadsDone
  /\ End
  /\ UNCHANGED <<rest, tables, stage, subscription, calls>>

-----------------------------------------------------------------------------
(* _subscription_loop *)

\* The first step of a task, and the one that follows its sleep.
Resume(t) ==
  /\ ~Blocked
  /\ pc[t] \in {"start", "sleep"}
  /\ IF open
       THEN /\ pc' = [pc EXCEPT ![t] = "read"]
            /\ _get_data(t, nodes)
       ELSE /\ pc' = [pc EXCEPT ![t] = "done"]
            /\ UNCHANGED <<rest, request, blocking>>
  /\ UNCHANGED <<open, nodes, sub, exc, told, calls>>

Raised == \E n \in asked : frame[n] = "raised"
Data == IF \E n \in asked : frame[n] = "data" THEN "value" ELSE "empty"

\* Mutants: a node without a column is passed over; a round without any data is
\* the last one.
PushSkips(t) ==
  /\ call = t /\ ThreadsDone
  /\ ~Raised
  /\ told' = AllPushed(told, Columns(asked, frame), Data)
  /\ pc' = [pc EXCEPT ![t] = "sleep"]
  /\ End
  /\ UNCHANGED <<rest, tables, stage, open, nodes, sub, exc, calls>>

PushGivesUp(t) ==
  /\ call = t /\ ThreadsDone
  /\ ~Raised /\ Columns(asked, frame) = asked
  /\ told' = AllPushed(told, asked, Data)
  /\ pc' = [pc EXCEPT ![t] = IF Data = "value" THEN "sleep" ELSE "done"]
  /\ End
  /\ UNCHANGED <<rest, tables, stage, open, nodes, sub, exc, calls>>

\* Every node has a column, and every handler takes it.
Push(t) ==
  /\ call = t /\ ThreadsDone
  /\ ~Raised /\ Columns(asked, frame) = asked
  /\ told' = AllPushed(told, asked, Data)
  /\ pc' = [pc EXCEPT ![t] = "sleep"]
  /\ End
  /\ UNCHANGED <<rest, tables, stage, open, nodes, sub, exc, calls>>

\* read_series raises, a node has no column (KeyError) or a handler raises, after
\* some of the nodes were pushed in whole: the error is kept and the task ends.
PushFails(t) ==
  /\ call = t /\ ThreadsDone
  /\ \/ Raised /\ UNCHANGED told
     \/ /\ ~Raised
        /\ \E before \in SUBSET Columns(asked, frame) :
             LET so_far == AllPushed(told, before, Data)
             IN  \/ Columns(asked, frame) # asked /\ told' = so_far
                 \/ \E n \in Columns(asked, frame) \ before :
                      told' \in PushesRaised(so_far, n, Data)
  /\ exc' = TRUE
  /\ pc' = [pc EXCEPT ![t] = "done"]
  /\ End
  /\ UNCHANGED <<rest, tables, stage, open, nodes, sub, calls>>

Loop(t) == Resume(t) \/ Push(t) \/ PushFails(t)

-----------------------------------------------------------------------------
(* What the program calls *)

\* subscribe and subscribe_series: with a subscription open the nodes are added
\* and that is all.
subscribe(ns) ==
  /\ ~Blocked
  /\ nodes' = nodes \cup ns
  /\ IF open
       THEN UNCHANGED <<open, sub, pc, told>>
       ELSE /\ open' = TRUE
            /\ \E t \in Tasks :
                 /\ ~Running(t)
                 /\ sub' = t
                 /\ pc' = [pc EXCEPT ![t] = "start"]
            /\ told' = NothingTold
  /\ UNCHANGED <<rest, request, blocking, exc, calls>>

\* Mutant: the task is left to find out by itself.
close_sub_without_cancel ==
  /\ ~Blocked
  /\ open' = FALSE
  /\ UNCHANGED <<rest, request, blocking, nodes, sub, exc, pc, told, calls>>

\* A stored error is raised before the task is cancelled.
close_sub ==
  /\ ~Blocked
  /\ open' = FALSE
  /\ pc' = [t \in Tasks |-> IF t = sub /\ ~exc THEN "done" ELSE pc[t]]
  /\ UNCHANGED <<rest, request, blocking, nodes, sub, exc, told, calls>>

-----------------------------------------------------------------------------
Program ==
  \/ \E ns \in (SUBSET Nodes) \ {{}} :
       subscribe(ns) \/ read_series(ns) \/ read_info(ns) \/ write(ns)
  \/ NextInTurn \/ CallReturns
  \/ close_sub

Next ==
  \/ ServerChanges /\ UNCHANGED <<request, blocking, subscription, calls>>
  \/ \E n \in Nodes : Thread(n)
  \/ \E t \in Tasks : Loop(t)
  \/ Program

Spec == Init /\ [][Next]_vars

\* The threads run, a blocking call goes on until it returns, and the event loop
\* resumes a task whose sleep is over.
Fairness ==
  /\ \A n \in Nodes : WF_vars(Thread(n))
  /\ \A t \in Tasks : WF_vars(Loop(t))
  /\ WF_vars(NextInTurn) /\ WF_vars(CallReturns)
FairSpec == Spec /\ Fairness

-----------------------------------------------------------------------------
(* Properties *)

TypeOK ==
  /\ healthy \in BOOLEAN
  /\ cached_session \in {"none", "bare", "ready"}
  /\ phase \in [Nodes -> {"none", "initialize", "mount", "send"}]
  /\ tables \in [Tables -> BOOLEAN]
  /\ stage \in [Nodes -> [at : {"idle", "look", "load", "loaded", "find_id", "value", "value without id"},
                          table : Tables]]
  /\ frame \in [Nodes -> {"none", "data", "empty", "raised"}]
  /\ call \in Tasks \cup Sequential \cup {"none", "program"}
  /\ todo \subseteq Nodes /\ asked \subseteq Nodes /\ nodes \subseteq Nodes
  /\ {open, exc} \subseteq BOOLEAN
  /\ sub \in Tasks \cup {"no task"}
  /\ pc \in [Tasks -> {"start", "sleep", "read", "done"}]
  /\ told \in [1..Len(Handlers) -> [Nodes -> {"nothing", "value", "empty"}]]
  /\ calls \in 0..MaxCalls

\* The connection keeps the promise of every subscription.
Promise == INSTANCE Subscription WITH
  Loops <- Tasks,
  Told <- [1..Len(Handlers) -> [Nodes -> {"nothing", "value", "empty"}]],
  loops <- {t \in Tasks : Running(t)},
  failed <- exc
ImplementsSubscription == Promise!Spec

\* Between two rounds, all handlers have been told the same, and of all nodes in
\* the same way: no node looks alive beside one that was not read, and no handler
\* has missed what another one has.  (A partial answer ends the loop instead.)
RoundIsWhole ==
  ~Blocked /\ ~exc =>
    \A h, i \in 1..Len(Handlers) : \A n, m \in Nodes :
      /\ told[h][n] = told[i][n]
      /\ "nothing" \notin {told[h][n], told[h][m]} => told[h][n] = told[h][m]

\* Once the server stays healthy, a subscription either gives every handler a
\* value of each of its nodes, also of those added meanwhile, or has kept an error for close_sub.
DeliveryResumes ==
  <>[]healthy =>
    (open ~> ~open \/ exc \/ \A h \in 1..Len(Handlers), n \in nodes : told[h][n] = "value")
=============================================================================
