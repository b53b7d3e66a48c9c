---------------------- MODULE ModbusSubscriptionProofs ----------------------
(***************************************************************************)
(* Proofs about ModbusSubscription: types, the errors the loop leaves      *)
(* behind, that, until there is one, there is at most one loop and a       *)
(* closed subscription has no client, and that the connection implements   *)
(* the abstract Subscription.                                              *)
(***************************************************************************)
EXTENDS ModbusSubscription, TLAPS

-----------------------------------------------------------------------------
(* The inductive invariants.  DeathIsKept is inductive with the types; the *)
(* two others need to know which task may run until an error is kept.      *)

KeptInv == TypeOK /\ DeathIsKept

OneLoopInv == \A t \in Tasks : Running(t) => open /\ t = sub
UntilErrorInv == ~exc => OneLoopInv /\ ClosedIsQuiet

QuietInv == TypeOK /\ UntilErrorInv

-----------------------------------------------------------------------------
(* The helpers of ConnectionUtils keep their types. *)

\* A retry counter that starts within its cap stays there.
LEMMA TriedType ==
  ASSUME NEW cap \in Nat, NEW counter \in 0..cap
  PROVE  Tried(counter, cap) \in 0..cap
BY DEF Tried

\* A round of pushes and the clock change the age of an entry only to an age.
LEMMA PushedAllType ==
  ASSUME NEW before \in [Nodes -> Ages], NEW read, NEW changed
  PROVE  PushedAll(before, Watched, read, changed) \in [Nodes -> Ages]
<1> SUFFICES ASSUME NEW n \in Nodes
             PROVE  Pushed(before, Watched, n, n \in changed)[n] \in Ages
  BY DEF PushedAll
<1> QED
  BY DEF Pushed, Ages

LEMMA AgedType ==
  ASSUME NEW before \in [Nodes -> Ages], NEW n \in Nodes
  PROVE  Aged(before, n) \in [Nodes -> Ages]
BY DEF Aged, Ages

\* What a round leaves in the client, the checker and the handler is well typed.
LEMMA RoundType ==
  ASSUME TypeOK, NEW asked \in SUBSET nodes, NEW told \in SUBSET nodes,
         NEW read, NEW stays \in BOOLEAN, ReadNodes(asked, read, stays), Tell(told, read, stays)
  PROVE  /\ {up, link, is_open}' \subseteq BOOLEAN
         /\ latest' \in [Nodes -> Ages]
         /\ last' \in [Nodes -> {"nothing", "value", "na"}]
<1>1. {up, link, is_open}' \subseteq BOOLEAN
  BY DEF TypeOK, ReadNodes
<1>2. latest' \in [Nodes -> Ages]
  BY PushedAllType DEF TypeOK, Tell
<1>3. last' \in [Nodes -> {"nothing", "value", "na"}]
  BY DEF TypeOK, Tell
<1> QED
  BY <1>1, <1>2, <1>3

-----------------------------------------------------------------------------
(* Types *)

LEMMA InitType == Init => TypeOK
<1> SUFFICES ASSUME Init PROVE TypeOK
  OBVIOUS
<1>1. up \in BOOLEAN
  BY DEF Init
<1>2. 0 \in 0..RetryCap
  BY ModbusAssumption
<1>3. latest \in [Nodes -> Ages] /\ last \in [Nodes -> {"nothing", "value", "na"}]
  BY DEF Init, Ages
<1> QED
  BY <1>1, <1>2, <1>3 DEF Init, TypeOK, Awaits

LEMMA TypeStep == TypeOK /\ [Next]_vars => TypeOK'
<1> SUFFICES ASSUME TypeOK, [Next]_vars PROVE TypeOK'
  OBVIOUS
<1> USE ModbusAssumption DEF Awaits, caller, retries
<1> DEFINE tried == Tried(retry, RetryCap)
           triedInterval == Tried(retry_interval, RetryCap)
<1>a. tried \in 0..RetryCap /\ triedInterval \in 0..RetryCap
  BY TriedType DEF TypeOK
<1>b. 0 \in 0..RetryCap
  OBVIOUS
<1>c. NextRound \in {"retry", "done"}
  BY DEF NextRound
<1> HIDE DEF tried, triedInterval
<1>1. CASE ServerDown
  BY <1>1 DEF ServerDown, TypeOK
<1>2. CASE ServerUp
  BY <1>2 DEF ServerUp, TypeOK
<1>3. ASSUME NEW n \in Nodes, Age(n) PROVE TypeOK'
  <2>1. latest' \in [Nodes -> Ages]
    BY <1>3, AgedType DEF Age, TypeOK
  <2> QED
    BY <1>3, <2>1 DEF Age, TypeOK
<1>4. ASSUME NEW t \in Tasks, Resume(t) PROVE TypeOK'
  BY <1>4, <1>c DEF Resume, TypeOK
<1>5. ASSUME NEW t \in Tasks, Connect(t) PROVE TypeOK'
  <2>1. retry' \in 0..RetryCap
    <3>1. retry' = 0 \/ retry' = tried
      BY <1>5 DEF Connect, _connect_ok, _connect_fails, Success, tried
    <3> QED
      BY <3>1, <1>a, <1>b
  <2>2. {link, is_open}' \subseteq BOOLEAN
    BY <1>5 DEF Connect, _connect_ok, _connect_fails, TypeOK
  <2>3. pc' \in [Tasks -> Awaits \cup {"done", "poll", "check"}]
    BY <1>5, <1>c DEF Connect, TypeOK
  <2> QED
    BY <1>5, <2>1, <2>2, <2>3 DEF Connect, TypeOK
<1>6. ASSUME NEW t \in Tasks, Poll(t) PROVE TypeOK'
  <2>1. PICK read \in SUBSET nodes, stays \in BOOLEAN :
          ReadNodes(nodes, read, stays) /\ Tell(nodes, read, stays)
    BY <1>6 DEF Poll
  <2>2. /\ {up, link, is_open}' \subseteq BOOLEAN
        /\ latest' \in [Nodes -> Ages]
        /\ last' \in [Nodes -> {"nothing", "value", "na"}]
    BY <2>1, RoundType
  <2> QED
    BY <1>6, <2>2 DEF Poll, TypeOK
<1>7. ASSUME NEW t \in Tasks, PollRaises(t) PROVE TypeOK'
  <2>1. PICK asked \in SUBSET nodes :
          \E read \in SUBSET asked, n \in asked, stays \in BOOLEAN :
            ReadNodes(asked, read, stays) /\ Tell(asked \ {n}, read, stays)
    BY <1>7 DEF PollRaises
  <2>2. PICK read \in SUBSET asked, n \in asked, stays \in BOOLEAN :
          ReadNodes(asked, read, stays) /\ Tell(asked \ {n}, read, stays)
    BY <2>1
  <2>3. /\ {up, link, is_open}' \subseteq BOOLEAN
        /\ latest' \in [Nodes -> Ages]
        /\ last' \in [Nodes -> {"nothing", "value", "na"}]
    <3>1. asked \ {n} \in SUBSET nodes
      OBVIOUS
    <3> QED
      BY <2>2, <3>1, RoundType
  <2> QED
    BY <1>7, <2>3 DEF PollRaises, TypeOK
<1>8. ASSUME NEW t \in Tasks, CheckInterval(t) PROVE TypeOK'
  <2>1. retry_interval' \in 0..RetryCap
    <3>1. retry_interval' \in {0, triedInterval, retry_interval}
      BY <1>8 DEF CheckInterval, Success, triedInterval
    <3> QED
      BY <3>1, <1>a, <1>b DEF TypeOK
  <2>2. pc' \in [Tasks -> Awaits \cup {"done", "poll", "check"}]
    BY <1>8, <1>c DEF CheckInterval, TypeOK
  <2> QED
    BY <1>8, <2>1, <2>2 DEF CheckInterval, TypeOK
<1>9. ASSUME NEW ns \in SUBSET Nodes, subscribe(ns) PROVE TypeOK'
  BY <1>9 DEF subscribe, TypeOK
<1>10. CASE close_sub
  BY <1>10 DEF close_sub, _disconnect, TypeOK
<1>11. CASE ReadOrWrite
  <2>1. retry' \in 0..RetryCap
    <3>1. retry' = 0 \/ retry' = tried
      BY <1>11 DEF ReadOrWrite, Success, tried
    <3> QED
      BY <3>1, <1>a, <1>b
  <2> QED
    BY <1>11, <2>1 DEF ReadOrWrite, _disconnect, TypeOK
<1>12. CASE UNCHANGED vars
  BY <1>12 DEF vars, TypeOK
<1> QED
  BY <1>1, <1>2, <1>3, <1>4, <1>5, <1>6, <1>7, <1>8, <1>9, <1>10, <1>11, <1>12
  DEF Next, Loop, Program

\* The variables keep their types.
THEOREM ModbusTypeCorrect == Spec => []TypeOK
BY InitType, TypeStep, PTL DEF Spec

-----------------------------------------------------------------------------
(* Errors of the loop *)

LEMMA KeptStep == KeptInv /\ [Next]_vars => DeathIsKept'
<1> SUFFICES ASSUME TypeOK, DeathIsKept, [Next]_vars PROVE DeathIsKept'
  BY DEF KeptInv
<1> USE DEF DeathIsKept, Running, caller
<1>1. CASE ServerDown \/ ServerUp \/ (\E n \in Nodes : Age(n)) \/ ReadOrWrite
  BY <1>1 DEF ServerDown, ServerUp, Age, ReadOrWrite
<1>2. ASSUME NEW t \in Tasks, Resume(t) PROVE DeathIsKept'
  BY <1>2 DEF Resume, NextRound, TypeOK
<1>3. ASSUME NEW t \in Tasks, Connect(t) PROVE DeathIsKept'
  BY <1>3 DEF Connect, NextRound, TypeOK
<1>4. ASSUME NEW t \in Tasks, Poll(t) PROVE DeathIsKept'
  BY <1>4 DEF Poll, TypeOK
<1>5. ASSUME NEW t \in Tasks, PollRaises(t) PROVE DeathIsKept'
  BY <1>5 DEF PollRaises
<1>6. ASSUME NEW t \in Tasks, CheckInterval(t) PROVE DeathIsKept'
  BY <1>6 DEF CheckInterval, NextRound, TypeOK
<1>7. ASSUME NEW ns \in SUBSET Nodes, subscribe(ns) PROVE DeathIsKept'
  <2>1. CASE open
    BY <1>7, <2>1 DEF subscribe
  <2>2. CASE ~open
    BY <1>7, <2>2 DEF subscribe, TypeOK
  <2> QED
    BY <2>1, <2>2
<1>8. CASE close_sub
  BY <1>8 DEF close_sub
<1>9. CASE UNCHANGED vars
  BY <1>9 DEF vars
<1> QED
  BY <1>1, <1>2, <1>3, <1>4, <1>5, <1>6, <1>7, <1>8, <1>9 DEF Next, Loop, Program

\* An open subscription without a task has kept the error that ended its task,
\* however subscribe, close_sub, read and write were called before.
THEOREM ModbusDeathIsKept == Spec => []DeathIsKept
<1>1. Init => KeptInv
  BY InitType DEF Init, KeptInv, DeathIsKept
<1>2. KeptInv /\ [Next]_vars => KeptInv'
  BY TypeStep, KeptStep DEF KeptInv
<1>3. KeptInv => DeathIsKept
  BY DEF KeptInv
<1> QED
  BY <1>1, <1>2, <1>3, PTL DEF Spec

-----------------------------------------------------------------------------
(* Until an error is kept *)

\* self.exc is never cleared: before a step that leaves it unset it was unset.
LEMMA ErrorIsKept == TypeOK /\ [Next]_vars /\ ~exc' => ~exc
<1> USE DEF caller, retries
<1> QED
  BY DEF TypeOK, Next, Loop, Program, ServerDown, ServerUp, Age, Resume, Connect, Poll,
         PollRaises, CheckInterval, subscribe, close_sub, ReadOrWrite, vars

LEMMA QuietStep == QuietInv /\ [Next]_vars => UntilErrorInv'
<1> SUFFICES ASSUME TypeOK, OneLoopInv, ClosedIsQuiet, [Next]_vars, ~exc, ~exc'
             PROVE  (OneLoopInv /\ ClosedIsQuiet)'
  BY ErrorIsKept DEF QuietInv, UntilErrorInv
<1> USE DEF OneLoopInv, ClosedIsQuiet, Running, caller
<1>1. CASE ServerDown \/ ServerUp \/ (\E n \in Nodes : Age(n))
  BY <1>1 DEF ServerDown, ServerUp, Age
<1>2. ASSUME NEW t \in Tasks, Resume(t) PROVE (OneLoopInv /\ ClosedIsQuiet)'
  BY <1>2 DEF Resume, TypeOK
<1>3. ASSUME NEW t \in Tasks, Connect(t) PROVE (OneLoopInv /\ ClosedIsQuiet)'
  <2>1. open /\ t = sub
    BY <1>3 DEF Connect
  <2> QED
    BY <1>3, <2>1 DEF Connect, TypeOK
<1>4. ASSUME NEW t \in Tasks, Poll(t) PROVE (OneLoopInv /\ ClosedIsQuiet)'
  <2>1. open /\ t = sub
    BY <1>4 DEF Poll
  <2> QED
    BY <1>4, <2>1 DEF Poll, TypeOK
<1>5. ASSUME NEW t \in Tasks, PollRaises(t) PROVE FALSE
  BY <1>5 DEF PollRaises
<1>6. ASSUME NEW t \in Tasks, CheckInterval(t) PROVE (OneLoopInv /\ ClosedIsQuiet)'
  <2>1. open /\ t = sub
    BY <1>6 DEF CheckInterval
  <2> QED
    BY <1>6, <2>1 DEF CheckInterval, TypeOK
<1>7. ASSUME NEW ns \in SUBSET Nodes, subscribe(ns) PROVE (OneLoopInv /\ ClosedIsQuiet)'
  <2>1. CASE open
    BY <1>7, <2>1 DEF subscribe
  <2>2. CASE ~open
    BY <1>7, <2>2 DEF subscribe, TypeOK
  <2> QED
    BY <2>1, <2>2
<1>8. CASE close_sub
  BY <1>8 DEF close_sub, _disconnect
<1>9. CASE ReadOrWrite
  BY <1>9 DEF ReadOrWrite, _disconnect
<1>10. CASE UNCHANGED vars
  BY <1>10 DEF vars
<1> QED
  BY <1>1, <1>2, <1>3, <1>4, <1>5, <1>6, <1>7, <1>8, <1>9, <1>10 DEF Next, Loop, Program

LEMMA QuietInductive == Spec => []QuietInv
<1>1. Init => QuietInv
  BY InitType DEF Init, QuietInv, UntilErrorInv, OneLoopInv, ClosedIsQuiet, Running
<1>2. QuietInv /\ [Next]_vars => QuietInv'
  BY TypeStep, QuietStep DEF QuietInv
<1> QED
  BY <1>1, <1>2, PTL DEF Spec

\* Until a loop has ended with an error, a connection has at most one polling
\* task, for any number of nodes and any order of calls.
THEOREM ModbusOneLoopUntilError == Spec => []OneLoopUntilError
<1>1. QuietInv => OneLoopUntilError
  BY DEF QuietInv, UntilErrorInv, OneLoopInv, OneLoopUntilError, AtMostOneLoop
<1> QED
  BY <1>1, QuietInductive, PTL

\* Under the same condition the client of a closed subscription is closed.
THEOREM ModbusQuietUntilError == Spec => []QuietUntilError
<1>1. QuietInv => QuietUntilError
  BY DEF QuietInv, UntilErrorInv, QuietUntilError
<1> QED
  BY <1>1, QuietInductive, PTL

-----------------------------------------------------------------------------
(* The promise of every subscription.  A round that is polled is told, a    *)
(* round that raises fails its loop, and the loop leaves wherever it looks  *)
(* at the subscription next.                                               *)

LEMMA PromiseInit == Init => Promise!Init
BY DEF Init, Promise!Init, Running

\* A loop that goes on to another place, and one that ends, as the map sees them.
LEMMA GoesOn ==
  ASSUME TypeOK, NEW t \in Tasks, NEW place, Running(t), place # "done",
         pc' = [pc EXCEPT ![t] = place]
  PROVE  {u \in Tasks : Running(u)}' = {u \in Tasks : Running(u)}
BY DEF TypeOK, Running

LEMMA Ends ==
  ASSUME TypeOK, NEW t \in Tasks, pc' = [pc EXCEPT ![t] = "done"]
  PROVE  {u \in Tasks : Running(u)}' = {u \in Tasks : Running(u)} \ {t}
BY DEF TypeOK, Running

LEMMA LoopStays ==
  ASSUME TypeOK, NEW t \in Tasks, NEW place, Running(t), place # "done",
         pc' = [pc EXCEPT ![t] = place], UNCHANGED <<open, exc, last>>
  PROVE  UNCHANGED Promise!vars
BY GoesOn DEF Promise!vars

LEMMA LoopLeaves ==
  ASSUME TypeOK, NEW t \in Tasks, Running(t), ~open,
         pc' = [pc EXCEPT ![t] = "done"], UNCHANGED <<open, exc, last>>
  PROVE  Promise!Leave(t)
BY Ends DEF Promise!Leave

LEMMA PromiseStep == QuietInv /\ TypeOK' /\ [Next]_vars => [Promise!Next]_(Promise!vars)
<1> SUFFICES ASSUME QuietInv, TypeOK', [Next]_vars
             PROVE  Promise!Next \/ UNCHANGED Promise!vars
  OBVIOUS
<1> USE DEF caller, QuietInv
<1> DEFINE goesOn(t) == \/ \E place : place # "done" /\ pc' = [pc EXCEPT ![t] = place]
                        \/ ~open /\ pc' = [pc EXCEPT ![t] = "done"]
<1>a. ASSUME NEW t \in Tasks, Running(t), goesOn(t), UNCHANGED <<open, exc, last>>
      PROVE  Promise!Next \/ UNCHANGED Promise!vars
  BY <1>a, LoopStays, LoopLeaves DEF Promise!Next
<1>b. ASSUME NEW t \in Tasks, pc' = [pc EXCEPT ![t] = NextRound] PROVE goesOn(t)
  BY <1>b DEF NextRound
<1>1. CASE ServerDown \/ ServerUp \/ (\E n \in Nodes : Age(n)) \/ ReadOrWrite
  BY <1>1 DEF ServerDown, ServerUp, Age, ReadOrWrite, Promise!vars, Running
<1>2. ASSUME NEW t \in Tasks, Resume(t) PROVE Promise!Next \/ UNCHANGED Promise!vars
  BY <1>2, <1>a, <1>b DEF Resume, Running
<1>3. ASSUME NEW t \in Tasks, Connect(t) PROVE Promise!Next \/ UNCHANGED Promise!vars
  <2>1. goesOn(t)
    BY <1>3, <1>b DEF Connect
  <2> QED
    BY <1>3, <2>1, <1>a DEF Connect, Running
<1>4. ASSUME NEW t \in Tasks, Poll(t) PROVE Promise!Next
  <2>1. Running(t)
    BY <1>4 DEF Poll, Running
  <2>2. {u \in Tasks : Running(u)}' = {u \in Tasks : Running(u)}
    BY <1>4, <2>1, GoesOn DEF Poll
  <2> QED
    BY <1>4, <2>1, <2>2 DEF Poll, Promise!Next, Promise!Tell, TypeOK
<1>5. ASSUME NEW t \in Tasks, PollRaises(t) PROVE Promise!Next
  <2>1. {u \in Tasks : Running(u)}' = {u \in Tasks : Running(u)} \ {t}
    BY <1>5, Ends DEF PollRaises
  <2>2. Promise!Fail(t)
    BY <1>5, <2>1 DEF PollRaises, Promise!Fail, Running, TypeOK
  <2> QED
    BY <2>2 DEF Promise!Next
<1>6. ASSUME NEW t \in Tasks, CheckInterval(t) PROVE Promise!Next \/ UNCHANGED Promise!vars
  <2>1. goesOn(t)
    BY <1>6, <1>b DEF CheckInterval
  <2> QED
    BY <1>6, <2>1, <1>a DEF CheckInterval, Running
<1>7. ASSUME NEW ns \in SUBSET Nodes, subscribe(ns)
      PROVE  Promise!Next \/ UNCHANGED Promise!vars
  <2>1. CASE open
    BY <1>7, <2>1 DEF subscribe, Promise!vars, Running
  <2>2. CASE ~open
    <3>1. PICK t \in Tasks : ~Running(t) /\ pc' = [pc EXCEPT ![t] = "start"]
      BY <1>7, <2>2 DEF subscribe
    <3>2. {u \in Tasks : Running(u)}' = {u \in Tasks : Running(u)} \cup {t}
      BY <3>1 DEF Running, TypeOK
    <3>3. open' /\ exc' = exc
      BY <1>7, <2>2 DEF subscribe
    <3> QED
      BY <2>2, <3>1, <3>2, <3>3 DEF Promise!Next, Promise!Subscribe, TypeOK
  <2> QED
    BY <2>1, <2>2
<1>8. CASE close_sub
  <2>1. {u \in Tasks : Running(u)}' = IF exc THEN {u \in Tasks : Running(u)} ELSE {}
    <3>1. CASE exc
      BY <1>8, <3>1 DEF close_sub, Running
    <3>2. CASE ~exc
      BY <1>8, <3>2 DEF close_sub, Running, UntilErrorInv, OneLoopInv
    <3> QED
      BY <3>1, <3>2
  <2> QED
    BY <1>8, <2>1 DEF close_sub, Promise!Next, Promise!CloseSub
<1>9. CASE UNCHANGED vars
  BY <1>9 DEF vars, Promise!vars, Running
<1> QED
  BY <1>1, <1>2, <1>3, <1>4, <1>5, <1>6, <1>7, <1>8, <1>9 DEF Next, Loop, Program

\* The Modbus connection does what every subscription promises: the loops that tell
\* the handler something start with subscribe and end with close_sub, one at a time,
\* until one of them has failed.
THEOREM ModbusImplementsSubscription == Spec => ImplementsSubscription
<1>1. Init => Promise!Init
  BY PromiseInit
<1>2. QuietInv /\ QuietInv' /\ [Next]_vars => [Promise!Next]_(Promise!vars)
  BY PromiseStep DEF QuietInv
<1> QED
  BY <1>1, <1>2, QuietInductive, PTL DEF Spec, ImplementsSubscription, Promise!Spec
=============================================================================
