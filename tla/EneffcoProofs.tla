--------------------------- MODULE EneffcoProofs ---------------------------
(***************************************************************************)
(* EneffcoConnection implements the abstract Subscription: its task tells  *)
(* the handlers something between subscribe and close_sub only, until it   *)
(* has ended with an error.  And the rounds it tells them are whole.       *)
(***************************************************************************)
EXTENDS EneffcoConnection, TLAPS

-----------------------------------------------------------------------------
(* The inductive invariant.  A read that belongs to a task is answered to  *)
(* a task that is there, and until there is an error the only one is sub.  *)

Told == [1..Len(Handlers) -> [Nodes -> {"nothing", "value", "empty"}]]

TaskInv ==
  /\ pc \in [Tasks -> {"start", "sleep", "read", "done"}]
  /\ told \in Told
  /\ nodes \subseteq Nodes /\ asked \subseteq Nodes
  /\ {open, exc} \subseteq BOOLEAN
  /\ \A t \in Tasks : call = t => pc[t] = "read"
  /\ ~exc => \A t \in Tasks : Running(t) => open /\ t = sub

-----------------------------------------------------------------------------
(* What the handlers may be told. *)

LEMMA AllPushedType ==
  ASSUME NEW before \in Told, NEW ns, NEW v \in {"value", "empty"}
  PROVE  AllPushed(before, ns, v) \in Told
BY DEF AllPushed, Told

LEMMA PushesRaisedType ==
  ASSUME NEW before \in Told, NEW n \in Nodes, NEW v \in {"value", "empty"},
         NEW after \in PushesRaised(before, n, v)
  PROVE  after \in Told
<1>1. PICK k : after = Pushed(before, n, v, k)
  BY DEF PushesRaised
<1>2. Pushed(before, n, v, k) \in Told
  BY DEF Pushed, Told
<1> QED
  BY <1>1, <1>2

LEMMA DataType == Data \in {"value", "empty"}
BY DEF Data

\* A round that is pushed, in whole or until something is raised.
LEMMA PushedType ==
  ASSUME TaskInv, NEW t \in Tasks, Push(t) \/ PushFails(t)
  PROVE  told' \in Told
<1>1. CASE Push(t)
  BY <1>1, AllPushedType, DataType DEF Push, TaskInv
<1>2. CASE PushFails(t)
  <2>1. CASE told' = told
    BY <2>1 DEF TaskInv
  <2>2. ASSUME NEW before \in SUBSET Columns(asked, frame),
               told' = AllPushed(told, before, Data)
        PROVE  told' \in Told
    BY <2>2, AllPushedType, DataType DEF TaskInv
  <2>3. ASSUME NEW before \in SUBSET Columns(asked, frame), NEW n \in Nodes,
               told' \in PushesRaised(AllPushed(told, before, Data), n, Data)
        PROVE  told' \in Told
    BY <2>3, AllPushedType, PushesRaisedType, DataType DEF TaskInv
  <2>4. Columns(asked, frame) \subseteq Nodes
    BY DEF TaskInv, Columns
  <2> QED
    BY <1>2, <2>1, <2>2, <2>3, <2>4 DEF PushFails
<1> QED
  BY <1>1, <1>2

-----------------------------------------------------------------------------
LEMMA NothingType == NothingTold \in Told
BY DEF NothingTold, Told

LEMMA InitTask == Init => TaskInv
<1>1. Init => \A t \in Tasks : call # t /\ pc[t] = "done"
  BY EneffcoAssumption DEF Init
<1> QED
  BY <1>1, NothingType DEF Init, TaskInv, Running

LEMMA NextTask == TaskInv /\ [Next]_vars => TaskInv'
<1> SUFFICES ASSUME TaskInv, [Next]_vars PROVE TaskInv'
  OBVIOUS
<1> USE EneffcoAssumption DEF TaskInv, Running, subscription, blocking, Blocked, Sequential
<1>1. CASE ServerChanges /\ UNCHANGED <<request, blocking, subscription, calls>>
  BY <1>1
<1>2. ASSUME NEW n \in Nodes, Thread(n) PROVE TaskInv'
  BY <1>2 DEF Thread
<1>3. ASSUME NEW t \in Tasks, Resume(t) PROVE TaskInv'
  <2>1. CASE open
    <3>1. /\ pc' = [pc EXCEPT ![t] = "read"] /\ call' = t /\ asked' = nodes
          /\ UNCHANGED <<open, nodes, sub, exc, told>>
      BY <1>3, <2>1 DEF Resume, _get_data
    <3> QED
      BY <1>3, <2>1, <3>1 DEF Resume
  <2>2. CASE ~open
    BY <1>3, <2>2 DEF Resume
  <2> QED
    BY <2>1, <2>2
<1>4. ASSUME NEW t \in Tasks, Push(t) PROVE TaskInv'
  <2>1. told' \in Told
    BY <1>4, PushedType
  <2> QED
    BY <1>4, <2>1 DEF Push, End
<1>5. ASSUME NEW t \in Tasks, PushFails(t) PROVE TaskInv'
  <2>1. told' \in Told
    BY <1>5, PushedType
  <2> QED
    BY <1>5, <2>1 DEF PushFails, End
<1>6. ASSUME NEW ns \in SUBSET Nodes, subscribe(ns) PROVE TaskInv'
  <2>1. CASE open
    BY <1>6, <2>1 DEF subscribe
  <2>2. CASE ~open
    BY <1>6, <2>2, NothingType DEF subscribe
  <2> QED
    BY <2>1, <2>2
<1>7. ASSUME NEW ns \in SUBSET Nodes, read_series(ns) \/ read_info(ns) \/ write(ns)
      PROVE  TaskInv'
  <2>1. /\ call' \in {"program", "read_info", "write"} /\ asked' \subseteq Nodes
        /\ UNCHANGED subscription
    BY <1>7 DEF read_series, read_info, write, InTurn, _get_data
  <2> QED
    BY <2>1
<1>8. CASE NextInTurn \/ CallReturns
  BY <1>8 DEF NextInTurn, CallReturns, End
<1>9. CASE close_sub
  BY <1>9 DEF close_sub
<1>10. CASE UNCHANGED vars
  BY <1>10 DEF vars
<1> QED
  BY <1>1, <1>2, <1>3, <1>4, <1>5, <1>6, <1>7, <1>8, <1>9, <1>10 DEF Next, Loop, Program

LEMMA TaskInductive == Spec => []TaskInv
<1> QED
  BY InitTask, NextTask, PTL DEF Spec

-----------------------------------------------------------------------------
LEMMA PromiseInit == Init => Promise!Init
<1> SUFFICES ASSUME Init PROVE Promise!Init
  OBVIOUS
<1>1. {t \in Tasks : Running(t)} = {}
  BY DEF Init, Running
<1> QED
  BY <1>1, NothingType DEF Init, Promise!Init, Told

LEMMA PromiseStep == TaskInv /\ TaskInv' /\ [Next]_vars => [Promise!Next]_(Promise!vars)
<1> SUFFICES ASSUME TaskInv, TaskInv', [Next]_vars
             PROVE  Promise!Next \/ UNCHANGED Promise!vars
  OBVIOUS
<1> DEFINE loops == {u \in Tasks : Running(u)}
<1> USE DEF subscription, blocking
\* What the loops are depends on their places alone.
<1>a. ASSUME UNCHANGED <<pc, open, exc, told>> PROVE UNCHANGED Promise!vars
  BY <1>a DEF Promise!vars, Running
<1>b. ASSUME NEW t \in Tasks, NEW place, Running(t), place # "done",
             pc' = [pc EXCEPT ![t] = place]
      PROVE  loops' = loops
  BY <1>b DEF TaskInv, Running
<1>c. ASSUME NEW t \in Tasks, pc' = [pc EXCEPT ![t] = "done"]
      PROVE  loops' = loops \ {t}
  BY <1>c DEF TaskInv, Running
<1>1. CASE ServerChanges /\ UNCHANGED <<request, blocking, subscription, calls>>
  BY <1>1, <1>a
<1>2. ASSUME NEW n \in Nodes, Thread(n) PROVE UNCHANGED Promise!vars
  BY <1>2, <1>a DEF Thread
<1>3. ASSUME NEW t \in Tasks, Resume(t) PROVE Promise!Next \/ UNCHANGED Promise!vars
  <2>1. Running(t) /\ UNCHANGED <<open, exc, told>>
    BY <1>3 DEF Resume, Running
  <2>2. CASE open
    <3>1. loops' = loops
      BY <1>3, <2>1, <2>2, <1>b DEF Resume
    <3> QED
      BY <2>1, <3>1 DEF Promise!vars
  <2>3. CASE ~open
    <3>1. loops' = loops \ {t}
      BY <1>3, <2>3, <1>c DEF Resume
    <3>2. Promise!Leave(t)
      BY <2>1, <2>3, <3>1 DEF Promise!Leave
    <3> QED
      BY <3>2 DEF Promise!Next
  <2> QED
    BY <2>2, <2>3
<1>4. ASSUME NEW t \in Tasks, Push(t) PROVE Promise!Next
  <2>1. Running(t) /\ pc' = [pc EXCEPT ![t] = "sleep"] /\ UNCHANGED <<open, exc>>
    BY <1>4 DEF Push, TaskInv, Running
  <2>2. loops' = loops
    BY <2>1, <1>b
  <2>3. Promise!Tell
    BY <2>1, <2>2 DEF Promise!Tell, TaskInv, Told
  <2> QED
    BY <2>3 DEF Promise!Next
<1>5. ASSUME NEW t \in Tasks, PushFails(t) PROVE Promise!Next
  <2>1. Running(t) /\ pc' = [pc EXCEPT ![t] = "done"] /\ exc' = TRUE /\ UNCHANGED open
    BY <1>5 DEF PushFails, TaskInv, Running
  <2>2. loops' = loops \ {t}
    BY <2>1, <1>c
  <2>3. Promise!Fail(t)
    BY <2>1, <2>2 DEF Promise!Fail, TaskInv, Told
  <2> QED
    BY <2>3 DEF Promise!Next
<1>6. ASSUME NEW ns \in SUBSET Nodes, subscribe(ns)
      PROVE  Promise!Next \/ UNCHANGED Promise!vars
  <2>1. CASE open
    BY <1>6, <2>1, <1>a DEF subscribe
  <2>2. CASE ~open
    <3>1. PICK t \in Tasks : ~Running(t) /\ pc' = [pc EXCEPT ![t] = "start"]
      BY <1>6, <2>2 DEF subscribe
    <3>2. loops' = loops \cup {t} /\ t \notin loops
      BY <3>1 DEF Running, TaskInv
    <3>3. open' = TRUE /\ exc' = exc
      BY <1>6, <2>2 DEF subscribe
    <3>4. Promise!Subscribe
      BY <2>2, <3>1, <3>2, <3>3 DEF Promise!Subscribe, TaskInv, Told
    <3> QED
      BY <3>4 DEF Promise!Next
  <2> QED
    BY <2>1, <2>2
<1>7. ASSUME NEW ns \in SUBSET Nodes, read_series(ns) \/ read_info(ns) \/ write(ns)
      PROVE  UNCHANGED Promise!vars
  BY <1>7, <1>a DEF read_series, read_info, write, InTurn
<1>8. CASE NextInTurn \/ CallReturns
  BY <1>8, <1>a DEF NextInTurn, CallReturns
<1>9. CASE close_sub
  <2>1. loops' = IF exc THEN loops ELSE {}
    <3>1. CASE exc
      BY <1>9, <3>1 DEF close_sub, Running
    <3>2. CASE ~exc
      BY <1>9, <3>2 DEF close_sub, Running, TaskInv
    <3> QED
      BY <3>1, <3>2
  <2>2. Promise!CloseSub
    BY <1>9, <2>1 DEF close_sub, Promise!CloseSub
  <2> QED
    BY <2>2 DEF Promise!Next
<1>10. CASE UNCHANGED vars
  BY <1>10, <1>a DEF vars
<1> QED
  BY <1>1, <1>2, <1>3, <1>4, <1>5, <1>6, <1>7, <1>8, <1>9, <1>10 DEF Next, Loop, Program

\* The Eneffco connection does what every subscription promises, for any number of
\* nodes, handlers and tasks, whatever the server answers and whichever handler raises.
THEOREM EneffcoImplementsSubscription == Spec => ImplementsSubscription
<1>1. Init => Promise!Init
  BY PromiseInit
<1>2. TaskInv /\ TaskInv' /\ [Next]_vars => [Promise!Next]_(Promise!vars)
  BY PromiseStep
<1> QED
  BY <1>1, <1>2, TaskInductive, PTL DEF Spec, ImplementsSubscription, Promise!Spec

-----------------------------------------------------------------------------
(* Whole rounds.  A round is told of all nodes of the subscription, and no *)
(* node joins while it is read; so the next one overwrites what the last   *)
(* one told.                                                               *)

WholeInv ==
  /\ call \in Tasks => asked = nodes
  /\ ~exc => \A h, i \in 1..Len(Handlers) : \A n, m \in Nodes :
       /\ told[h][n] = told[i][n]
       /\ told[h][n] # "nothing" => n \in nodes
       /\ "nothing" \notin {told[h][n], told[h][m]} => told[h][n] = told[h][m]

LEMMA InitWhole == Init => WholeInv
<1> SUFFICES ASSUME Init PROVE WholeInv
  OBVIOUS
<1>1. call \notin Tasks
  BY EneffcoAssumption DEF Init
<1>2. \A h \in 1..Len(Handlers), n \in Nodes : told[h][n] = "nothing"
  BY DEF Init, NothingTold
<1> QED
  BY <1>1, <1>2 DEF WholeInv

LEMMA NextWhole == TaskInv /\ WholeInv /\ [Next]_vars => WholeInv'
<1> SUFFICES ASSUME TaskInv, WholeInv, [Next]_vars PROVE WholeInv'
  OBVIOUS
<1> USE DEF subscription, blocking, Blocked
<1>a. ASSUME UNCHANGED <<asked, nodes, exc, told>>, call' \in Tasks => call' = call
      PROVE  WholeInv'
  BY <1>a DEF WholeInv
<1>1. CASE ServerChanges /\ UNCHANGED <<request, blocking, subscription, calls>>
  BY <1>1, <1>a
<1>2. ASSUME NEW n \in Nodes, Thread(n) PROVE WholeInv'
  BY <1>2, <1>a DEF Thread
<1>3. ASSUME NEW t \in Tasks, Resume(t) PROVE WholeInv'
  <2>1. UNCHANGED <<nodes, exc, told>> /\ (call' \in Tasks => asked' = nodes \/ UNCHANGED blocking)
    BY <1>3 DEF Resume, _get_data
  <2> QED
    BY <2>1 DEF WholeInv
<1>4. ASSUME NEW t \in Tasks, Push(t) PROVE WholeInv'
  <2>1. /\ call' = "none" /\ asked = nodes /\ UNCHANGED <<nodes, exc>>
        /\ told' = AllPushed(told, nodes, Data) /\ Data # "nothing"
    BY <1>4, DataType DEF Push, End, WholeInv
  <2>2. \A h \in 1..Len(Handlers), n \in Nodes :
          told'[h][n] = IF n \in nodes THEN Data ELSE told[h][n]
    BY <2>1 DEF AllPushed, TaskInv, Told
  <2>3. call' \notin Tasks
    BY <2>1, EneffcoAssumption
  <2> QED
    BY <2>1, <2>2, <2>3 DEF WholeInv
<1>5. ASSUME NEW t \in Tasks, PushFails(t) PROVE WholeInv'
  BY <1>5, EneffcoAssumption DEF PushFails, End, WholeInv
<1>6. ASSUME NEW ns \in SUBSET Nodes, subscribe(ns) PROVE WholeInv'
  <2>1. call = "none" /\ call' = call /\ nodes' = nodes \cup ns /\ exc' = exc
    BY <1>6 DEF subscribe
  <2>2. told' = told \/ told' = NothingTold
    BY <1>6 DEF subscribe
  <2> QED
    BY <2>1, <2>2, EneffcoAssumption DEF WholeInv, NothingTold
<1>7. ASSUME NEW ns \in SUBSET Nodes, read_series(ns) \/ read_info(ns) \/ write(ns)
      PROVE  WholeInv'
  <2>1. call' \in {"program", "read_info", "write"} /\ UNCHANGED subscription
    BY <1>7 DEF read_series, read_info, write, InTurn, _get_data
  <2> QED
    BY <2>1, EneffcoAssumption DEF WholeInv
<1>8. CASE NextInTurn
  BY <1>8, <1>a DEF NextInTurn
<1>9. CASE CallReturns
  BY <1>9, EneffcoAssumption DEF CallReturns, End, WholeInv
<1>10. CASE close_sub
  BY <1>10, <1>a DEF close_sub
<1>11. CASE UNCHANGED vars
  BY <1>11, <1>a DEF vars
<1> QED
  BY <1>1, <1>2, <1>3, <1>4, <1>5, <1>6, <1>7, <1>8, <1>9, <1>10, <1>11
     DEF Next, Loop, Program

\* Between two rounds every handler was told the same, and of all nodes in the same
\* way, also of those that joined while the subscription was open.
THEOREM EneffcoRoundIsWhole == Spec => []RoundIsWhole
<1>1. Init => TaskInv /\ WholeInv
  BY InitTask, InitWhole
<1>2. TaskInv /\ WholeInv /\ [Next]_vars => (TaskInv /\ WholeInv)'
  BY NextTask, NextWhole
<1>3. WholeInv => RoundIsWhole
  BY DEF WholeInv, RoundIsWhole
<1> QED
  BY <1>1, <1>2, <1>3, PTL DEF Spec
=============================================================================
