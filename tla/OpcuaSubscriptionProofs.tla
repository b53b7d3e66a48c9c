---------------------- MODULE OpcuaSubscriptionProofs ----------------------
(***************************************************************************)
(* Proofs about OpcuaSubscription: types, that an open subscription has a  *)
(* task while a closed one has neither a task nor a session, that the      *)
(* connection implements the abstract Subscription, and that outages are   *)
(* marked.                                                                 *)
(***************************************************************************)
EXTENDS OpcuaSubscription, TLAPS

-----------------------------------------------------------------------------
(* The inductive invariant.  ClosedIsQuiet is not inductive by itself: a   *)
(* task that outlived close_sub could connect.                             *)

ClosedInv == ~open => task = "none" /\ ~connected /\ ~session /\ monitored = {}
OpenInv == open => task # "none"

IInv == TypeOK /\ ClosedInv /\ OpenInv

-----------------------------------------------------------------------------
(* The helpers of ConnectionUtils keep their types. *)

\* A retry counter that starts within its cap stays there.
LEMMA TriedType ==
  ASSUME NEW cap \in Nat, NEW counter \in 0..cap
  PROVE  Tried(counter, cap) \in 0..cap
BY DEF Tried

\* push() and the clock change the age of an entry, and only to an age.
LEMMA PushedType ==
  ASSUME NEW latest0 \in [Nodes -> Ages], NEW n \in Nodes, NEW changed
  PROVE  Pushed(latest0, Watched, n, changed) \in [Nodes -> Ages]
BY DEF Pushed, Ages

LEMMA AgedType ==
  ASSUME NEW latest0 \in [Nodes -> Ages], NEW n \in Nodes
  PROVE  Aged(latest0, n) \in [Nodes -> Ages]
BY DEF Aged, Ages

\* A loop that is not connected tries to connect, or ends when it is closed.
LEMMA NextRoundDisconnected ==
  ASSUME open \in BOOLEAN, NEW sub \in BOOLEAN
  PROVE  NextRound(FALSE, sub) = IF open THEN "retry" ELSE "none"
<1>1. CASE open
  BY <1>1 DEF NextRound
<1>2. CASE ~open
  BY <1>2 DEF NextRound
<1> QED
  BY <1>1, <1>2

-----------------------------------------------------------------------------
LEMMA InitInv == Init => IInv
<1> SUFFICES ASSUME Init PROVE IInv
  OBVIOUS
<1>1. up \in BOOLEAN
  BY DEF Init
<1>2. 0 \in 0..RetryCap /\ 0 \in 0..ForeignCalls
  BY OpcuaAssumption
<1>3. latest \in [Nodes -> Ages] /\ last \in [Nodes -> {"nothing", "value", "nan"}]
  BY DEF Init, Ages
<1> QED
  BY <1>1, <1>2, <1>3 DEF Init, IInv, TypeOK, ClosedInv, OpenInv, Awaits

LEMMA NextInv == IInv /\ [Next]_vars => IInv'
<1> SUFFICES ASSUME IInv, [Next]_vars PROVE IInv'
  OBVIOUS
<1> USE OpcuaAssumption DEF IInv, TypeOK, ClosedInv, OpenInv, Awaits, Success
<1> DEFINE tried == Tried(retry, RetryCap)
           triedInterval == Tried(retry_interval, RetryCap)
<1>a. tried \in 0..RetryCap /\ triedInterval \in 0..RetryCap
  BY TriedType
<1> HIDE DEF tried, triedInterval
<1>1. CASE ServerDown
  BY <1>1 DEF ServerDown, caller, loop
<1>2. CASE ServerUp
  BY <1>2 DEF ServerUp, caller, loop
<1>3. ASSUME NEW n \in Nodes, Notify(n) PROVE IInv'
  <2>1. latest' \in [Nodes -> Ages]
    <3>1. CASE UNCHANGED latest
      BY <3>1
    <3>2. CASE \E changed \in BOOLEAN : latest' = Pushed(latest, Watched, n, changed)
      BY <3>2, PushedType
    <3> QED
      BY <1>3, <3>1, <3>2 DEF Notify
  <2> QED
    BY <1>3, <2>1 DEF Notify, server, caller, loop
<1>4. ASSUME NEW n \in Nodes, Age(n) PROVE IInv'
  <2>1. latest' \in [Nodes -> Ages]
    BY <1>4, AgedType DEF Age
  <2> QED
    BY <1>4, <2>1 DEF Age, server, caller, loop
<1>5. CASE Resume
  BY <1>5 DEF Resume, NextRound, server, caller
<1>6. CASE Connect
  <2>1. retry' \in 0..RetryCap
    <3>1. retry' = 0 \/ retry' = tried
      BY <1>6 DEF Connect, _connect_ok, _connect_fails, tried
    <3> QED
      BY <3>1, <1>a
  <2>2. NextRound(FALSE, subscribed) = IF open THEN "retry" ELSE "none"
    BY NextRoundDisconnected
  <2> QED
    BY <1>6, <2>1, <2>2 DEF Connect, _connect_ok, _connect_fails, caller
<1>7. CASE CreateSubscription
  BY <1>7 DEF CreateSubscription, _disconnect, NextRound, caller
<1>8. CASE CheckPasses
  BY <1>8 DEF CheckPasses, NextRound, server, caller
<1>9. CASE CheckFails
  BY <1>9 DEF CheckFails, _disconnect, NextRound, caller
<1>10. CASE IntervalBegin
  BY <1>10 DEF IntervalBegin, Known, server, caller
<1>11. CASE IntervalPasses
  BY <1>11 DEF IntervalPasses, server, caller
<1>12. CASE IntervalFails
  BY <1>12, <1>a DEF IntervalFails, _disconnect, caller, triedInterval
<1>13. CASE IntervalRaises
  BY <1>13 DEF IntervalRaises, server, caller
<1>14. ASSUME NEW ns \in SUBSET Nodes, subscribe(ns) PROVE IInv'
  BY <1>14 DEF subscribe, server, OutsideLoop
<1>15. CASE close_sub
  BY <1>15 DEF close_sub, _disconnect
<1>16. CASE ReadOrWrite
  <2>1. retry' \in 0..RetryCap
    BY <1>16, <1>a DEF ReadOrWrite, tried
  <2>2. calls' \in 0..ForeignCalls
    BY <1>16 DEF ReadOrWrite
  <2> QED
    BY <1>16, <2>1, <2>2 DEF ReadOrWrite, _disconnect, loop
<1>17. CASE UNCHANGED vars
  BY <1>17 DEF vars, server, caller, loop
<1> QED
  BY <1>1, <1>2, <1>3, <1>4, <1>5, <1>6, <1>7, <1>8, <1>9, <1>10, <1>11, <1>12,
     <1>13, <1>14, <1>15, <1>16, <1>17 DEF Next, Loop, Program

LEMMA Inductive == Spec => []IInv
<1>1. Init => IInv
  BY InitInv
<1>2. IInv /\ [Next]_vars => IInv'
  BY NextInv
<1> QED
  BY <1>1, <1>2, PTL DEF Spec

-----------------------------------------------------------------------------
\* The variables keep their types, whatever the server, the network, the
\* handler and the program do.
THEOREM OpcuaTypeCorrect == Spec => []TypeOK
<1>1. IInv => TypeOK
  BY DEF IInv
<1> QED
  BY <1>1, Inductive, PTL

\* After close_sub there is no session and no monitored item until the next
\* subscribe, however often read and write are called in between.
THEOREM OpcuaClosedIsQuiet == Spec => []ClosedIsQuiet
<1>1. IInv => ClosedIsQuiet
  BY DEF IInv, ClosedInv, ClosedIsQuiet
<1> QED
  BY <1>1, Inductive, PTL

\* A subscription is open exactly while it has a task, alive or dead.
THEOREM OpcuaOpenHasTask == Spec => []OpenHasTask
<1>1. IInv => OpenHasTask
  BY DEF IInv, ClosedInv, OpenInv, OpenHasTask
<1> QED
  BY <1>1, Inductive, PTL

-----------------------------------------------------------------------------
(* The promise of every subscription.  IInv is what makes the map right: a *)
(* step of the loop finds the subscription open, so its next round is one  *)
(* too, and a notification finds a task, since an item is monitored only   *)
(* while the subscription is open.                                         *)

LEMMA PromiseInit == Init => Promise!Init
BY DEF Init, Promise!Init

LEMMA PromiseStep == IInv /\ TypeOK' /\ [Next]_vars => [Promise!Next]_(Promise!vars)
<1> SUFFICES ASSUME IInv, TypeOK', [Next]_vars
             PROVE  Promise!Next \/ UNCHANGED Promise!vars
  OBVIOUS
<1> USE DEF IInv, TypeOK, ClosedInv, OpenInv, Awaits
\* A step of the loop to another place, with or without a word to the handler.
<1>a. ASSUME task # "none", task' # "none", UNCHANGED <<open, last>>
      PROVE  UNCHANGED Promise!vars
  BY <1>a DEF Promise!vars
<1>b. ASSUME task # "none", task' # "none", UNCHANGED open
      PROVE  Promise!Next
  BY <1>b DEF Promise!Tell, Promise!Next
<1>1. CASE ServerDown \/ ServerUp \/ (\E n \in Nodes : Age(n)) \/ ReadOrWrite
  BY <1>1 DEF ServerDown, ServerUp, Age, ReadOrWrite, caller, loop, Promise!vars
<1>2. ASSUME NEW n \in Nodes, Notify(n) PROVE Promise!Next
  BY <1>2, <1>b DEF Notify, caller, loop
<1>3. CASE Resume
  BY <1>3, <1>a DEF Resume, NextRound, caller
<1>4. CASE Connect
  <2>1. NextRound(FALSE, subscribed) \in {"retry", "none"} /\ (open => NextRound(FALSE, subscribed) = "retry")
    BY NextRoundDisconnected
  <2> QED
    BY <1>4, <2>1, <1>a DEF Connect, caller
<1>5. CASE CreateSubscription
  BY <1>5, <1>a DEF CreateSubscription, NextRound, caller
<1>6. CASE CheckPasses
  BY <1>6, <1>a DEF CheckPasses, NextRound, caller
<1>7. CASE CheckFails
  BY <1>7, <1>b DEF CheckFails, NextRound, caller
<1>8. CASE IntervalBegin \/ IntervalPasses \/ IntervalFails \/ IntervalRaises
  BY <1>8, <1>a DEF IntervalBegin, IntervalPasses, IntervalFails, IntervalRaises, caller
<1>9. ASSUME NEW ns \in SUBSET Nodes, subscribe(ns)
      PROVE  Promise!Next \/ UNCHANGED Promise!vars
  <2>1. CASE open
    BY <1>9, <2>1 DEF subscribe, Promise!vars
  <2>2. CASE ~open
    BY ZenonT(30), <1>9, <2>2 DEF subscribe, Promise!Subscribe, Promise!Next
  <2> QED
    BY <2>1, <2>2
<1>10. CASE close_sub
  BY <1>10 DEF close_sub, Promise!CloseSub, Promise!Next
<1>11. CASE UNCHANGED vars
  BY <1>11 DEF vars, caller, loop, Promise!vars
<1> QED
  BY <1>1, <1>2, <1>3, <1>4, <1>5, <1>6, <1>7, <1>8, <1>9, <1>10, <1>11
     DEF Next, Loop, Program

\* The OPC UA connection does what every subscription promises: its task and its
\* notifications tell the handler something between subscribe and close_sub only,
\* whatever the server, the network and the handler do.
THEOREM OpcuaImplementsSubscription == Spec => ImplementsSubscription
<1>1. Init => Promise!Init
  BY PromiseInit
<1>2. IInv /\ IInv' /\ [Next]_vars => [Promise!Next]_(Promise!vars)
  BY PromiseStep DEF IInv
<1> QED
  BY <1>1, <1>2, Inductive, PTL DEF Spec, ImplementsSubscription, Promise!Spec

-----------------------------------------------------------------------------
(* Outages.  Where the loop may come from when it tries to get the         *)
(* connection back, the handler was told nothing that looks alive, and     *)
(* nothing is monitored that could tell it something; a subscription the   *)
(* loop has passed its check with is lost by a call of read or write only. *)

Quiet == monitored = {} /\ \A n \in Nodes : last[n] # "value"

KnownInv == monitored \subseteq nodes /\ \A n \in Nodes : last[n] = "value" => n \in nodes
PassedInv == task \in {"interval", "iterate", "sleep"} /\ calls = 0 => connected /\ subscribed
ToldInv ==
  retry_interval = 0 /\ calls = 0 =>
    /\ task # "stale"
    /\ task \in {"start", "retry"} => ~connected /\ Quiet
    /\ task = "check" /\ connected /\ ~subscribed => Quiet
    /\ task = "create" => connected /\ ~subscribed /\ Quiet

GapInv == KnownInv /\ PassedInv /\ ToldInv

LEMMA InitGap == Init => GapInv
BY DEF Init, GapInv, KnownInv, PassedInv, ToldInv, Quiet

LEMMA NextGap == IInv /\ IInv' /\ GapInv /\ [Next]_vars => GapInv'
<1> SUFFICES ASSUME IInv, IInv', GapInv, [Next]_vars PROVE GapInv'
  OBVIOUS
<1> USE OpcuaAssumption DEF IInv, TypeOK, ClosedInv, OpenInv, Awaits, GapInv, KnownInv,
                            PassedInv, ToldInv, Quiet, Success
<1>1. CASE ServerDown
  BY <1>1 DEF ServerDown, caller, loop
<1>2. CASE ServerUp
  BY <1>2 DEF ServerUp, caller, loop
<1>3. ASSUME NEW n \in Nodes, Notify(n) PROVE GapInv'
  BY <1>3 DEF Notify, server, caller, loop
<1>4. ASSUME NEW n \in Nodes, Age(n) PROVE GapInv'
  BY <1>4 DEF Age, server, caller, loop
<1>5. CASE Resume
  BY <1>5 DEF Resume, NextRound, server, caller
<1>6. CASE Connect
  <2>1. NextRound(FALSE, subscribed) = "retry"
    <3>1. open /\ subscribed \in BOOLEAN
      BY <1>6 DEF Connect
    <3>2. NextRound(FALSE, subscribed) = IF open THEN "retry" ELSE "none"
      BY <3>1, NextRoundDisconnected
    <3> QED
      BY <3>1, <3>2
  <2>2. task = "retry" /\ UNCHANGED <<caller, retry_interval, last>>
    BY <1>6 DEF Connect
  <2>3. monitored' = {}
    BY <1>6 DEF Connect, _connect_ok, _connect_fails
  <2>4. \/ task' = "check"
        \/ task' = "retry" /\ ~connected'
    BY <1>6, <2>1 DEF Connect, _connect_fails
  <2> QED
    BY <2>2, <2>3, <2>4 DEF caller
<1>7. CASE CreateSubscription
  <2>1. task = "create" /\ UNCHANGED <<caller, retry_interval, last>>
    BY <1>7 DEF CreateSubscription
  <2>2. \/ monitored' \subseteq nodes /\ subscribed' /\ task' = "check"
        \/ monitored' = {} /\ ~connected' /\ task' = "retry"
        \/ monitored' \subseteq nodes /\ ~connected' /\ task' = "check"
    BY <1>7, <2>1 DEF CreateSubscription, _disconnect, NextRound
  <2> QED
    BY <2>1, <2>2 DEF caller
<1>8. CASE CheckPasses
  BY <1>8 DEF CheckPasses, NextRound, server, caller
<1>9. CASE CheckFails
  <2>1. task = "check" /\ UNCHANGED <<caller, retry_interval>> /\ ~connected' /\ monitored' = {}
    BY <1>9 DEF CheckFails, _disconnect
  <2>2. \/ task' = "retry" /\ last' = [n \in Nodes |-> IF n \in nodes THEN "nan" ELSE last[n]]
        \/ task' = "dead" /\ \E told \in SUBSET nodes :
             last' = [n \in Nodes |-> IF n \in told THEN "nan" ELSE last[n]]
    BY <1>9, <2>1 DEF CheckFails, NextRound
  <2>3. \A n \in Nodes : last'[n] = "value" => n \in nodes
    BY <2>2
  <2>4. task' = "retry" => \A n \in Nodes : last'[n] # "value"
    BY <2>2
  <2> QED
    BY <2>1, <2>2, <2>3, <2>4 DEF caller
<1>10. CASE IntervalBegin \/ IntervalPasses \/ IntervalRaises
  BY <1>10 DEF IntervalBegin, IntervalPasses, IntervalRaises, server, caller
<1>11. CASE IntervalFails
  <2>1. retry_interval' # 0
    BY <1>11 DEF IntervalFails, Tried
  <2> QED
    BY <1>11, <2>1 DEF IntervalFails, _disconnect, caller
<1>12. ASSUME NEW ns \in SUBSET Nodes, subscribe(ns) PROVE GapInv'
  BY <1>12 DEF subscribe, server, OutsideLoop
<1>13. CASE close_sub
  BY <1>13 DEF close_sub, _disconnect
<1>14. CASE ReadOrWrite
  <2>1. CASE open
    BY <1>14, <2>1 DEF ReadOrWrite, _disconnect, loop
  <2>2. CASE ~open
    BY <1>14, <2>2 DEF ReadOrWrite, _disconnect, loop
  <2> QED
    BY <2>1, <2>2
<1>15. CASE UNCHANGED vars
  BY <1>15 DEF vars, server, caller, loop
<1> QED
  BY <1>1, <1>2, <1>3, <1>4, <1>5, <1>6, <1>7, <1>8, <1>9, <1>10, <1>11, <1>12,
     <1>13, <1>14, <1>15 DEF Next, Loop, Program

\* While the loop tries to get the connection back, no node looks alive to the
\* handler, unless the interval check or a call of read or write disconnected.
THEOREM OpcuaGapIsMarked == Spec => []GapIsMarked
<1>1. Init => IInv /\ GapInv
  BY InitInv, InitGap
<1>2. IInv /\ GapInv /\ [Next]_vars => (IInv /\ GapInv)'
  BY NextInv, NextGap
<1>3. IInv /\ GapInv => GapIsMarked
  BY DEF IInv, TypeOK, GapInv, ToldInv, Quiet, GapIsMarked
<1> QED
  BY <1>1, <1>2, <1>3, PTL DEF Spec
=============================================================================
