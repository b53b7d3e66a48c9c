-------------------- MODULE CsvSubscriptionHandlerProofs --------------------
(***************************************************************************)
(* Proofs about CsvSubscriptionHandler: types, the order of what is        *)
(* written, that nothing accepted is lost, and what close() may rely on    *)
(* when Queue.join() lets it go on.                                        *)
(***************************************************************************)
EXTENDS CsvSubscriptionHandler, SequenceTheorems, TLAPS

-----------------------------------------------------------------------------
(* The inductive invariant, part by part. *)

Alive == pc = "enter" \/ Running
InHand == pc \in {"check", "write"} /\ data # Sentinel
SentinelInHand == pc = "check" /\ data = Sentinel

\* An item in the writer's hands is the next one the file has not seen.
HandInv ==
  /\ pc = "write" => data # Sentinel
  /\ InHand => data = Len(written) + 1
  /\ pc = "enter" => written = <<>> /\ ~cancelled
  /\ pc \in {"check", "write"} \/ cancelled => data # Unbound
  /\ pc = "write" /\ cancelled => queue # <<>>
  /\ pc = "get" /\ cancelled /\ data # Sentinel => queue # <<>>

\* The queue holds what was not taken, in order, with a sentinel at place s, or
\* without one if s is the first free place.  Before a sentinel lie the items
\* its close() waits for; when it is gone from the queue they are written.
QueueForm(s) ==
  /\ \A i \in 1..Len(queue) :
       queue[i] = IF i < s THEN Taken + i ELSE IF i = s THEN Sentinel ELSE Taken + i - 1
  /\ s <= Len(queue) =>
       /\ pushed = Taken + Len(queue) - 1
       /\ mark = Taken + s - 1
       /\ ~cancelled /\ ~SentinelInHand
       /\ closer \in {"join", "threadjoin"}
  /\ s = Len(queue) + 1 =>
       /\ pushed = Taken + Len(queue)
       /\ closer \in {"idle", "put"} => ~cancelled /\ ~SentinelInHand
       /\ closer \in {"join", "threadjoin"} =>
            (cancelled \/ SentinelInHand) /\ Len(written) >= mark

QueueInv ==
  Alive =>
    /\ exc = NoError
    /\ closer \notin {"raised", "closed"}
    /\ \E s \in 1..(Len(queue) + 1) : QueueForm(s)

\* Until the sentinel is done with, the count of unfinished tasks is exact.
CountInv ==
  Alive /\ ~cancelled =>
    unfinished = Len(queue) + (IF pc \in {"check", "write"} THEN 1 ELSE 0)

\* A close() past its join, or about to pass it, finds its items written.
JoinInv ==
  /\ closer = "join" /\ ~Alive => unfinished > 0 \/ Len(written) >= mark
  /\ closer \in {"threadjoin", "closed"} => Len(written) >= mark

IInv ==
  /\ TypeOK
  /\ HandInv
  /\ QueueInv
  /\ CountInv
  /\ JoinInv
  /\ WrittenInOrder

-----------------------------------------------------------------------------
\* A sequence of the elements of a set stays one when an element is appended.
LEMMA AppendType ==
  ASSUME NEW S, NEW s \in Seq(S), NEW e \in S
  PROVE  Append(s, e) \in Seq(S)
OBVIOUS

(* A step keeps the types: an item is written only after it was taken from *)
(* the queue, so data is bound when it is used.                            *)
LEMMA TypeStep == TypeOK /\ HandInv /\ [Next]_vars => TypeOK'
<1> SUFFICES ASSUME TypeOK, HandInv, [Next]_vars PROVE TypeOK'
  OBVIOUS
<1> USE CsvAssumption DEF TypeOK, Item, Sentinel, Unbound, NoError, WriteError,
                          TaskDoneError, writerVars, callVars
<1>1. ASSUME NEW p \in Pushers, Push(p) PROVE TypeOK'
  BY <1>1 DEF Push, Put
<1>2. ASSUME NEW p \in Pushers, PushReturn(p) PROVE TypeOK'
  BY <1>2 DEF PushReturn
<1>3. CASE EnterFile
  BY <1>3 DEF EnterFile
<1>4. CASE Get
  <2>1. queue # <<>> => Head(queue) \in Item \cup {Sentinel}
    OBVIOUS
  <2>2. queue # <<>> => Tail(queue) \in Seq(Item \cup {Sentinel})
    OBVIOUS
  <2>3. data' \in Item \cup {Sentinel, Unbound} /\ queue' \in Seq(Item \cup {Sentinel})
    BY <1>4, <2>1, <2>2 DEF Get
  <2>4. QED
    BY <1>4, <2>3 DEF Get
<1>5. CASE TakeSentinel
  <2>1. unfinished' \in Nat /\ exc' \in {NoError, WriteError, TaskDoneError}
    BY <1>5 DEF TakeSentinel, TaskDone
  <2>2. pc' \in {"get", "exit"} /\ cancelled' \in BOOLEAN
    BY <1>5 DEF TakeSentinel, TaskDone
  <2>3. QED
    BY <1>5, <2>1, <2>2 DEF TakeSentinel
<1>6. CASE Break
  BY <1>6 DEF Break
<1>7. CASE TakeItem
  BY <1>7 DEF TakeItem
<1>8. CASE Write
  <2>1. data \in Item
    BY <1>8 DEF Write, HandInv
  <2>2. written' \in Seq(Item)
    <3>1. written' = Append(written, data) \/ written' = written
      BY <1>8 DEF Write
    <3> QED
      BY <2>1, <3>1, AppendType
  <2>3. unfinished' \in Nat /\ exc' \in {NoError, WriteError, TaskDoneError}
    BY <1>8 DEF Write, TaskDone
  <2>4. pc' \in {"get", "exit"}
    BY <1>8 DEF Write, TaskDone
  <2>5. QED
    BY <1>8, <2>2, <2>3, <2>4 DEF Write
<1>9. CASE ExitFile
  BY <1>9 DEF ExitFile
<1>10. CASE Close
  BY <1>10 DEF Close
<1>11. CASE ClosePut
  BY <1>11 DEF ClosePut, Put
<1>12. CASE CloseJoin
  BY <1>12 DEF CloseJoin
<1>13. CASE CloseThreadJoin
  BY <1>13 DEF CloseThreadJoin
<1>14. CASE UNCHANGED vars
  BY <1>14 DEF vars
<1>15. QED
  BY <1>1, <1>2, <1>3, <1>4, <1>5, <1>6, <1>7, <1>8, <1>9, <1>10, <1>11,
     <1>12, <1>13, <1>14 DEF Next, Writer, Closing

\* The form depends on nothing but these variables.
LEMMA FormStays ==
  ASSUME NEW s, QueueForm(s),
         UNCHANGED <<queue, pc, data, cancelled, written, pushed, mark, closer>>
  PROVE  QueueForm(s)'
BY DEF QueueForm, Taken, SentinelInHand

(* A step keeps the form of the queue.  The place s of the sentinel moves    *)
(* with the items before it; the first free place moves with the end.        *)
LEMMA QueueStep ==
  TypeOK /\ TypeOK' /\ HandInv /\ QueueInv /\ CountInv /\ [Next]_vars => QueueInv'
<1> SUFFICES ASSUME TypeOK, TypeOK', HandInv, QueueInv, CountInv, [Next]_vars, Alive'
             PROVE  /\ exc' = NoError
                    /\ closer' \notin {"raised", "closed"}
                    /\ \E s \in 1..(Len(queue') + 1) : QueueForm(s)'
  BY DEF QueueInv
<1> USE DEF Item, Sentinel, Unbound, NoError, WriteError, TaskDoneError,
            writerVars, callVars, Alive, Running, Ended
<1>0. Alive
  BY DEF Next, Writer, Closing, Push, PushReturn, EnterFile, Get, TakeSentinel, Break,
         TakeItem, Write, ExitFile, Close, ClosePut, CloseJoin, CloseThreadJoin,
         TaskDone, vars
<1>a. exc = NoError /\ closer \notin {"raised", "closed"}
  BY <1>0 DEF QueueInv
<1>b. PICK s \in 1..(Len(queue) + 1) : QueueForm(s)
  BY <1>0 DEF QueueInv
<1>c. /\ Len(queue) \in Nat /\ Len(written) \in Nat /\ s \in Nat
      /\ pushed \in Nat /\ mark \in Nat
  <2>1. Len(queue) \in Nat /\ Len(written) \in Nat
    <3>1. queue \in Seq(Item \cup {Sentinel}) /\ written \in Seq(Item)
      BY DEF TypeOK
    <3> QED
      BY <3>1
  <2>2. pushed \in Nat /\ mark \in Nat
    BY DEF TypeOK
  <2> QED
    BY <2>1, <2>2
<1>1. ASSUME NEW p \in Pushers, Push(p)
      PROVE  \E t \in 1..(Len(queue') + 1) : QueueForm(t)'
  <2>1. /\ Len(queue') = Len(queue) + 1
        /\ \A i \in 1..Len(queue) : queue'[i] = queue[i]
        /\ queue'[Len(queue) + 1] = pushed + 1
    <3>1. pushed + 1 \in Item \cup {Sentinel} /\ queue' = Append(queue, pushed + 1)
      BY <1>1, CsvAssumption DEF Push, Put, TypeOK
    <3>2. QED
      BY <3>1, AppendProperties DEF TypeOK
  <2>2. UNCHANGED <<pc, data, cancelled, written, closer, mark>> /\ pushed' = pushed + 1
    BY <1>1 DEF Push
  <2>e. Taken' = Taken /\ Taken \in Nat /\ SentinelInHand' = SentinelInHand
    BY <1>c, <2>2 DEF Taken, SentinelInHand
  <2>3. CASE s = Len(queue) + 1
    <3>1. QueueForm(s + 1)'
      BY SMTT(30), <1>b, <1>c, <2>1, <2>2, <2>e, <2>3 DEF QueueForm
    <3>2. QED
      BY <3>1, <2>1, <2>3, <1>c
  <2>4. CASE s <= Len(queue)
    <3>1. QueueForm(s)'
      BY <1>b, <1>c, <2>1, <2>2, <2>e, <2>4 DEF QueueForm
    <3>2. QED
      BY <3>1, <2>1, <2>4, <1>c
  <2>5. QED
    BY <2>3, <2>4, <1>c
<1>2. ASSUME NEW p \in Pushers, PushReturn(p)
      PROVE  \E t \in 1..(Len(queue') + 1) : QueueForm(t)'
  <2>1. UNCHANGED <<queue, pc, data, cancelled, written, pushed, mark, closer>>
    BY <1>2 DEF PushReturn
  <2>2. QueueForm(s)'
    BY <1>b, <2>1, FormStays
  <2> QED
    BY <2>1, <2>2
<1>3. CASE EnterFile
  <2>1. Taken' = Taken /\ ~SentinelInHand' /\ ~SentinelInHand
    BY <1>3 DEF EnterFile, Taken, SentinelInHand
  <2>2. QueueForm(s)' /\ UNCHANGED <<queue, exc, closer>>
    BY <1>3, <1>b, <2>1 DEF EnterFile, QueueForm
  <2>3. QED
    BY <1>a, <2>2
<1>4. CASE Get /\ queue # <<>>
  <2>1. /\ Len(queue') = Len(queue) - 1 /\ Len(queue) > 0
        /\ \A i \in 1..Len(queue') : queue'[i] = queue[i + 1]
        /\ data' = queue[1]
    <3>1. queue' = Tail(queue) /\ data' = Head(queue)
      BY <1>4 DEF Get
    <3>2. queue \in Seq(Item \cup {Sentinel}) /\ queue # <<>>
      BY <1>4 DEF TypeOK
    <3>3. Len(queue) > 0 /\ Head(queue) = queue[1]
      BY <3>2
    <3>4. QED
      BY <3>1, <3>2, <3>3, HeadTailProperties
  <2>2. Taken = Len(written) /\ written' = written /\ pc' = "check" /\ ~SentinelInHand
    BY <1>4 DEF Get, Taken, SentinelInHand
  <2>e. UNCHANGED <<cancelled, closer, mark, pushed, exc>>
    BY <1>4 DEF Get
  <2>3. CASE s = 1
    <3>1. Taken' = Taken /\ SentinelInHand'
      BY <1>b, <1>c, <2>1, <2>2, <2>3 DEF Taken, QueueForm, SentinelInHand
    <3>2. PICK t \in Nat : t = Len(queue)
      BY <1>c
    <3>3. \A i \in 1..Len(queue') : queue'[i] = Taken + i
      <4> SUFFICES ASSUME NEW i \in 1..Len(queue') PROVE queue'[i] = Taken + i
        OBVIOUS
      <4>1. queue'[i] = queue[i + 1] /\ i + 1 \in 1..Len(queue) /\ i + 1 > s
        BY <1>c, <2>1, <2>3
      <4>2. QED
        BY <4>1, <1>b, <1>c, <2>2 DEF QueueForm
    <3>4. pushed = Taken + Len(queue) - 1 /\ Len(written) >= mark
      BY <1>b, <1>c, <2>1, <2>2, <2>3 DEF QueueForm
    <3>5. closer \in {"join", "threadjoin"}
      BY <1>b, <1>c, <2>1, <2>3 DEF QueueForm
    <3>6. QueueForm(t)'
      BY <1>c, <2>1, <2>2, <2>e, <3>1, <3>2, <3>3, <3>4, <3>5 DEF QueueForm
    <3>7. QED
      BY <1>a, <3>6, <3>2, <2>1, <2>e, <1>c
  <2>4. CASE s > 1
    <3>1. Taken' = Taken + 1 /\ ~SentinelInHand'
      BY <1>b, <1>c, <2>1, <2>2, <2>4 DEF Taken, QueueForm, SentinelInHand
    <3>q. \A i \in 1..Len(queue') :
            queue'[i] = IF i < s - 1 THEN Taken' + i
                        ELSE IF i = s - 1 THEN Sentinel ELSE Taken' + i - 1
      <4> SUFFICES ASSUME NEW i \in 1..Len(queue')
                   PROVE  queue'[i] = IF i < s - 1 THEN Taken' + i
                                      ELSE IF i = s - 1 THEN Sentinel ELSE Taken' + i - 1
        OBVIOUS
      <4>1. queue'[i] = queue[i + 1] /\ i + 1 \in 1..Len(queue) /\ i \in Nat
        BY <1>c, <2>1
      <4>2. Taken \in Nat
        BY <1>c, <2>2
      <4>3. queue[i + 1] = IF i + 1 < s THEN Taken + (i + 1)
                           ELSE IF i + 1 = s THEN Sentinel ELSE Taken + (i + 1) - 1
        BY <4>1, <1>b DEF QueueForm
      <4>4. QED
        BY <4>1, <4>2, <4>3, <1>c, <3>1
    <3>r. s - 1 <= Len(queue') =>
            /\ pushed' = Taken' + Len(queue') - 1 /\ mark' = Taken' + (s - 1) - 1
            /\ ~cancelled' /\ closer' \in {"join", "threadjoin"}
      <4>1. SUFFICES ASSUME s <= Len(queue)
                     PROVE  /\ pushed' = Taken' + Len(queue') - 1
                            /\ mark' = Taken' + (s - 1) - 1
                            /\ ~cancelled' /\ closer' \in {"join", "threadjoin"}
        BY <1>c, <2>1
      <4>2. /\ pushed = Taken + Len(queue) - 1 /\ mark = Taken + s - 1
            /\ ~cancelled /\ closer \in {"join", "threadjoin"}
        BY <1>b, <4>1 DEF QueueForm
      <4>3. Taken \in Nat
        BY <1>c, <2>2
      <4>4. QED
        BY <4>2, <4>3, <1>c, <2>1, <2>e, <3>1
    <3>t. s - 1 = Len(queue') + 1 =>
            /\ pushed' = Taken' + Len(queue')
            /\ closer' \in {"idle", "put"} => ~cancelled'
            /\ closer' \in {"join", "threadjoin"} => cancelled' /\ Len(written') >= mark'
      BY <1>b, <1>c, <2>1, <2>2, <2>e, <3>1 DEF QueueForm
    <3>2. QueueForm(s - 1)'
      BY <3>1, <3>q, <3>r, <3>t DEF QueueForm
    <3>3. QED
      BY <1>a, <3>2, <2>1, <2>4, <2>e, <1>c
  <2>5. QED
    BY <2>3, <2>4, <1>c
<1>5. CASE Get /\ queue = <<>>
  <2>1. data' = Sentinel /\ Taken' = Taken /\ SentinelInHand' /\ queue' = queue
    BY <1>5 DEF Get, HandInv, Taken, SentinelInHand
  <2>2. QueueForm(s)' /\ UNCHANGED <<exc, closer>>
    BY <1>5, <1>b, <2>1 DEF Get, QueueForm
  <2>3. QED
    BY <1>a, <2>1, <2>2
<1>6. CASE TakeSentinel
  <2>1. unfinished # 0 /\ pc' = "get" /\ exc' = exc /\ cancelled'
    BY <1>6 DEF TakeSentinel, TaskDone
  <2>2. /\ Taken' = Taken /\ ~SentinelInHand' /\ SentinelInHand
        /\ UNCHANGED <<queue, pushed, mark, closer, written>>
    BY <1>6, <2>1 DEF TakeSentinel, Taken, SentinelInHand
  <2>3. QueueForm(s)'
    BY <1>b, <1>c, <2>1, <2>2 DEF QueueForm
  <2>4. QED
    BY <1>a, <2>1, <2>2, <2>3
<1>7. CASE Break
  BY <1>7 DEF Break
<1>8. CASE TakeItem
  <2>1. Taken' = Taken /\ ~SentinelInHand' /\ ~SentinelInHand
    BY <1>8 DEF TakeItem, Taken, SentinelInHand
  <2>2. QueueForm(s)'
    BY <1>8, <1>b, <2>1 DEF TakeItem, QueueForm
  <2>3. QED
    BY <1>8, <1>a, <2>2 DEF TakeItem
<1>9. CASE Write
  <2>1. /\ pc' = "get" /\ exc' = exc /\ Len(written') = Len(written) + 1
        /\ UNCHANGED <<queue, pushed, mark, closer, cancelled>>
    BY <1>9 DEF Write, TaskDone, TypeOK
  <2>2. Taken' = Taken /\ ~SentinelInHand' /\ ~SentinelInHand
    BY <1>9, <1>c, <2>1 DEF Write, Taken, SentinelInHand, HandInv
  <2>3. QueueForm(s)'
    BY <1>b, <1>c, <2>1, <2>2 DEF QueueForm
  <2>4. QED
    BY <1>a, <2>1, <2>3
<1>10. CASE ExitFile
  BY <1>10 DEF ExitFile
<1>11. CASE Close
  <2>1. closer = "idle" /\ closer' = "put" /\ exc' = exc
    BY <1>11, <1>a DEF Close
  <2>2. QueueForm(s)'
    BY <1>11, <1>b, <2>1 DEF Close, QueueForm, Taken, SentinelInHand
  <2>3. QED
    BY <1>11, <1>a, <2>1, <2>2 DEF Close
<1>12. CASE ClosePut
  <2>1. /\ Len(queue') = Len(queue) + 1
        /\ \A i \in 1..Len(queue) : queue'[i] = queue[i]
        /\ queue'[Len(queue) + 1] = Sentinel
        /\ mark' = pushed
    BY <1>12 DEF ClosePut, Put, TypeOK
  <2>2. Taken' = Taken /\ Taken \in Nat /\ s = Len(queue) + 1
    BY <1>12, <1>b, <1>c DEF ClosePut, Taken, QueueForm
  <2>3. QueueForm(s)'
    BY <1>12, <1>b, <1>c, <2>1, <2>2 DEF ClosePut, QueueForm, SentinelInHand
  <2>4. QED
    BY <1>12, <1>a, <1>c, <2>1, <2>2, <2>3 DEF ClosePut
<1>13. CASE CloseJoin
  BY <1>13, <1>a, <1>b DEF CloseJoin, QueueForm, Taken, SentinelInHand
<1>14. CASE CloseThreadJoin
  BY <1>14 DEF CloseThreadJoin
<1>15. CASE UNCHANGED vars
  <2>1. UNCHANGED <<queue, pc, data, cancelled, written, pushed, mark, closer, exc>>
    BY <1>15 DEF vars
  <2>2. QueueForm(s)'
    BY <1>b, <2>1, FormStays
  <2> QED
    BY <1>a, <2>1, <2>2
<1>16. QED
  BY <1>1, <1>2, <1>3, <1>4, <1>5, <1>6, <1>7, <1>8, <1>9, <1>10, <1>11, <1>12,
     <1>13, <1>14, <1>15, <1>a DEF Next, Writer, Closing, Push, PushReturn, EnterFile, Get

(* A close() that waits in Queue.join() is held there by an unfinished task, *)
(* or what it waits for is written.                                          *)
LEMMA JoinHeld ==
  ASSUME TypeOK, QueueInv, CountInv, Alive, closer \in {"join", "threadjoin"}
  PROVE  unfinished > 0 \/ Len(written) >= mark
<1>1. PICK s \in 1..(Len(queue) + 1) : QueueForm(s)
  BY DEF QueueInv
<1>2. Len(queue) \in Nat
  BY DEF TypeOK
<1>3. CASE s <= Len(queue)
  BY <1>1, <1>2, <1>3 DEF QueueForm, CountInv
<1>4. CASE s = Len(queue) + 1
  BY <1>1, <1>4 DEF QueueForm
<1>5. QED
  BY <1>2, <1>3, <1>4

(* A step keeps the inductive invariant. *)
LEMMA InvariantStep == IInv /\ [Next]_vars => IInv'
<1> SUFFICES ASSUME IInv, [Next]_vars PROVE IInv'
  OBVIOUS
<1>a. TypeOK' /\ QueueInv'
  BY TypeStep, QueueStep DEF IInv
<1>b. Alive /\ closer \in {"join", "threadjoin"} => unfinished > 0 \/ Len(written) >= mark
  BY JoinHeld DEF IInv
<1>c. /\ queue \in Seq(Item \cup {Sentinel}) /\ written \in Seq(Item)
      /\ Len(queue) \in Nat /\ Len(written) \in Nat
      /\ unfinished \in Nat /\ mark \in Nat /\ pushed \in Nat
  BY CsvAssumption DEF IInv, TypeOK
<1>d. Alive => exc = NoError
  BY DEF IInv, QueueInv
<1> USE DEF Item, Sentinel, Unbound, NoError, WriteError, TaskDoneError,
            writerVars, callVars, Alive, Running, Ended, InHand
<1>1. ASSUME NEW p \in Pushers, Push(p) PROVE IInv'
  <2>1. Len(queue') = Len(queue) + 1 /\ queue' # <<>>
    <3>1. pushed + 1 \in Item \cup {Sentinel} /\ queue' = Append(queue, pushed + 1)
      BY <1>1, <1>c, CsvAssumption DEF Push, Put
    <3>2. QED
      BY <3>1, <1>c, AppendProperties
  <2>2. unfinished' = unfinished + 1 /\ UNCHANGED <<pc, data, cancelled, written, closer, mark>>
    BY <1>1 DEF Push, Put
  <2>3. HandInv' /\ WrittenInOrder'
    BY <2>1, <2>2 DEF IInv, HandInv, WrittenInOrder
  <2>4. CountInv'
    BY <2>1, <2>2, <1>c DEF IInv, CountInv
  <2>5. JoinInv'
    BY <2>2, <1>c DEF IInv, JoinInv
  <2>6. QED
    BY <1>a, <2>3, <2>4, <2>5 DEF IInv
<1>2. ASSUME NEW p \in Pushers, PushReturn(p) PROVE IInv'
  BY <1>2, <1>a DEF PushReturn, IInv, HandInv, CountInv, JoinInv, WrittenInOrder
<1>3. CASE EnterFile
  <2>1. pc = "enter" /\ UNCHANGED <<queue, unfinished, data, cancelled, written, closer, mark>>
    BY <1>3 DEF EnterFile
  <2>2. pc' \in {"get", "crashed"}
    BY <1>3 DEF EnterFile
  <2>3. HandInv' /\ CountInv' /\ WrittenInOrder'
    BY <2>1, <2>2 DEF IInv, HandInv, CountInv, WrittenInOrder
  <2>4. JoinInv'
    BY <2>1, <2>2, <1>b, <1>c DEF IInv, JoinInv
  <2>5. QED
    BY <1>a, <2>3, <2>4 DEF IInv
<1>4. CASE Get
  <2>1. pc = "get" /\ pc' = "check" /\ UNCHANGED <<unfinished, cancelled, written, closer, mark, exc>>
    BY <1>4 DEF Get
  <2>2. CASE queue = <<>>
    <3>1. queue' = queue /\ data' = data /\ cancelled /\ data = Sentinel
      BY <1>4, <2>2 DEF Get, IInv, HandInv
    <3>2. QED
      BY <1>a, <2>1, <3>1 DEF IInv, HandInv, CountInv, JoinInv, WrittenInOrder
  <2>3. CASE queue # <<>>
    <3>1. queue' = Tail(queue) /\ data' = Head(queue)
      BY <1>4, <2>3 DEF Get
    <3>2. /\ Len(queue') = Len(queue) - 1 /\ Len(queue) > 0
          /\ data' = queue[1] /\ data' \in Item \cup {Sentinel}
      BY <1>c, <2>3, <3>1, HeadTailProperties
    <3>3. CountInv' /\ JoinInv' /\ WrittenInOrder'
      BY <1>c, <2>1, <3>2 DEF IInv, CountInv, JoinInv, WrittenInOrder
    <3>4. PICK s \in 1..(Len(queue) + 1) : QueueForm(s)
      BY <2>1 DEF IInv, QueueInv
    <3>5. data' # Sentinel => data' = Len(written) + 1
      BY <1>c, <2>1, <3>2, <3>4 DEF QueueForm, Taken
    <3>6. HandInv'
      BY <2>1, <3>2, <3>5, CsvAssumption DEF HandInv, IInv
    <3>7. QED
      BY <1>a, <3>3, <3>6 DEF IInv
  <2>4. QED
    BY <2>2, <2>3
<1>5. CASE TakeSentinel
  <2>1. pc = "check" /\ data = Sentinel /\ UNCHANGED <<queue, data, written, closer, mark>>
    BY <1>5 DEF TakeSentinel
  <2>2. CASE unfinished = 0
    <3>1. pc' = "exit" /\ UNCHANGED <<unfinished, cancelled>>
      BY <1>5, <2>2 DEF TakeSentinel, TaskDone
    <3>2. HandInv' /\ CountInv' /\ WrittenInOrder'
      BY <2>1, <3>1 DEF IInv, HandInv, CountInv, WrittenInOrder
    <3>3. JoinInv'
      BY <2>1, <2>2, <3>1, <1>b, <1>c DEF IInv, JoinInv
    <3>4. QED
      BY <1>a, <3>2, <3>3 DEF IInv
  <2>3. CASE unfinished # 0
    <3>1. pc' = "get" /\ cancelled'
      BY <1>5, <2>3 DEF TakeSentinel, TaskDone
    <3>2. QED
      BY <1>a, <2>1, <3>1 DEF IInv, HandInv, CountInv, WrittenInOrder, JoinInv
  <2>4. QED
    BY <2>2, <2>3
<1>6. CASE Break
  <2>1. pc = "check" /\ pc' = "exit" /\ cancelled
    BY <1>6 DEF Break
  <2>2. UNCHANGED <<queue, unfinished, data, cancelled, written, closer, mark>>
    BY <1>6 DEF Break
  <2>3. HandInv' /\ CountInv' /\ WrittenInOrder'
    BY <2>1, <2>2 DEF IInv, HandInv, CountInv, WrittenInOrder
  <2>4. JoinInv'
    BY <2>1, <2>2, <1>b, <1>c DEF IInv, JoinInv
  <2>5. QED
    BY <1>a, <2>3, <2>4 DEF IInv
<1>7. CASE TakeItem
  BY <1>7, <1>a DEF TakeItem, IInv, HandInv, CountInv, JoinInv, WrittenInOrder
<1>8. CASE Write
  <2>1. pc = "write" /\ UNCHANGED <<queue, data, cancelled, closer, mark>>
    BY <1>8 DEF Write
  <2>2. data = Len(written) + 1 /\ data \in Item
    BY <2>1 DEF IInv, HandInv, TypeOK
  <2>3. CASE UNCHANGED <<written, unfinished>> /\ pc' = "exit"
    <3>1. HandInv' /\ CountInv' /\ WrittenInOrder'
      BY <2>1, <2>3 DEF IInv, HandInv, CountInv, WrittenInOrder
    <3>2. JoinInv'
      BY <2>1, <2>3, <1>b, <1>c DEF IInv, JoinInv
    <3>3. QED
      BY <1>a, <3>1, <3>2 DEF IInv
  <2>4. CASE written' = Append(written, data) /\ TaskDone("get")
    <3>1. /\ Len(written') = Len(written) + 1
          /\ \A i \in 1..Len(written) : written'[i] = written[i]
          /\ written'[Len(written) + 1] = data
      BY <1>c, <2>2, <2>4, AppendProperties
    <3>2. \/ pc' = "exit" /\ unfinished = 0 /\ unfinished' = unfinished
          \/ pc' = "get" /\ unfinished' = unfinished - 1
      BY <2>4 DEF TaskDone
    <3>3. WrittenInOrder'
      <4>1. DOMAIN written = 1..Len(written) /\ DOMAIN written' = 1..(Len(written) + 1)
        BY <1>a, <1>c, <3>1 DEF TypeOK
      <4>2. \A i \in 1..Len(written) : written[i] = i
        BY <4>1 DEF IInv, WrittenInOrder
      <4>3. QED
        BY <1>c, <2>2, <3>1, <4>1, <4>2 DEF WrittenInOrder
    <3>4. HandInv'
      BY <2>1, <3>2 DEF IInv, HandInv
    <3>5. CountInv'
      BY <1>c, <2>1, <3>2 DEF IInv, CountInv
    <3>6. JoinInv'
      BY <1>b, <1>c, <2>1, <3>1, <3>2 DEF IInv, JoinInv
    <3>7. QED
      BY <1>a, <3>3, <3>4, <3>5, <3>6 DEF IInv
  <2>5. QED
    BY <1>8, <2>3, <2>4 DEF Write
<1>9. CASE ExitFile
  <2>1. pc = "exit" /\ UNCHANGED <<queue, unfinished, data, cancelled, written, closer, mark>>
    BY <1>9 DEF ExitFile
  <2>2. pc' \in {"dead", "crashed"}
    BY <1>9 DEF ExitFile
  <2>3. QED
    BY <1>a, <2>1, <2>2 DEF IInv, HandInv, CountInv, WrittenInOrder, JoinInv
<1>10. CASE Close
  BY <1>10, <1>a DEF Close, IInv, HandInv, CountInv, JoinInv, WrittenInOrder
<1>11. CASE ClosePut
  <2>1. Len(queue') = Len(queue) + 1 /\ queue' # <<>>
    <3>1. queue' = Append(queue, Sentinel)
      BY <1>11 DEF ClosePut, Put
    <3>2. QED
      BY <3>1, <1>c, AppendProperties
  <2>2. /\ unfinished' = unfinished + 1 /\ UNCHANGED <<pc, data, cancelled, written>>
        /\ closer' = "join"
    BY <1>11 DEF ClosePut, Put
  <2>3. HandInv' /\ WrittenInOrder'
    BY <2>1, <2>2 DEF IInv, HandInv, WrittenInOrder
  <2>4. CountInv' /\ JoinInv'
    BY <2>1, <2>2, <1>c DEF IInv, CountInv, JoinInv
  <2>5. QED
    BY <1>a, <2>3, <2>4 DEF IInv
<1>12. CASE CloseJoin
  <2>1. closer = "join" /\ closer' = "threadjoin" /\ unfinished = 0
    BY <1>12 DEF CloseJoin
  <2>2. UNCHANGED <<queue, unfinished, pc, data, cancelled, written, mark>>
    BY <1>12 DEF CloseJoin
  <2>3. JoinInv'
    BY <1>b, <1>c, <2>1, <2>2 DEF IInv, JoinInv
  <2>4. QED
    BY <1>a, <2>2, <2>3 DEF IInv, HandInv, CountInv, WrittenInOrder
<1>13. CASE CloseThreadJoin
  BY <1>13, <1>a DEF CloseThreadJoin, IInv, HandInv, CountInv, JoinInv, WrittenInOrder
<1>14. CASE UNCHANGED vars
  BY <1>14, <1>a DEF vars, IInv, HandInv, CountInv, JoinInv, WrittenInOrder
<1>15. QED
  BY <1>1, <1>2, <1>3, <1>4, <1>5, <1>6, <1>7, <1>8, <1>9, <1>10, <1>11,
     <1>12, <1>13, <1>14 DEF Next, Writer, Closing

LEMMA InvariantHolds == Spec => []IInv
<1>1. Init => IInv
  <2> SUFFICES ASSUME Init PROVE IInv
    OBVIOUS
  <2> USE CsvAssumption DEF Init, Item, Sentinel, Unbound, NoError, WriteError,
                            TaskDoneError, Alive, Running, InHand, SentinelInHand
  <2>1. TypeOK
    <3>1. <<>> \in Seq(Item \cup {Sentinel}) /\ <<>> \in Seq(Item)
      OBVIOUS
    <3>2. pushed \in 0..MaxItems /\ closes \in 0..MaxCloses /\ mark \in 0..MaxItems
      OBVIOUS
    <3>3. QED
      BY <3>1, <3>2 DEF TypeOK
  <2>2. HandInv /\ CountInv /\ JoinInv /\ WrittenInOrder
    BY DEF HandInv, CountInv, JoinInv, WrittenInOrder
  <2>3. QueueForm(1)
    BY DEF QueueForm, Taken
  <2>4. QueueInv
    BY <2>3 DEF QueueInv
  <2>5. QED
    BY <2>1, <2>2, <2>4 DEF IInv
<1>2. IInv /\ [Next]_vars => IInv'
  BY InvariantStep
<1>3. QED
  BY <1>1, <1>2, PTL DEF Spec

-----------------------------------------------------------------------------
(* Every variable of the handler, its thread and its callers keeps its type, *)
(* for any number of pushers, pushes and calls of close().                   *)
THEOREM CsvTypeCorrect == Spec => []TypeOK
<1>1. IInv => TypeOK
  BY DEF IInv
<1>2. QED
  BY <1>1, InvariantHolds, PTL

(* What reaches the file through _run is the pushes in their order, without  *)
(* a gap and without a repetition.                                           *)
THEOREM CsvWrittenInOrder == Spec => []WrittenInOrder
<1>1. IInv => WrittenInOrder
  BY DEF IInv
<1>2. QED
  BY <1>1, InvariantHolds, PTL

(* Queue.join() in close() lets go only after every item put before close()  *)
(* put its sentinel is written, with failing writes and late pushes too.     *)
THEOREM CsvCloseCompletes == Spec => []CloseCompletesEarlierItems
<1>1. IInv => CloseCompletesEarlierItems
  BY DEF IInv, JoinInv, CloseCompletesEarlierItems
<1>2. QED
  BY <1>1, InvariantHolds, PTL

(* While the writer runs, no item that was accepted is lost, taken twice or  *)
(* moved before another one, whoever pushed it and whatever close() put into *)
(* the queue between the items.                                              *)
THEOREM CsvNothingLost == Spec => []NothingLostWhileRunning
<1>1. IInv => NothingLostWhileRunning
  <2> SUFFICES ASSUME IInv, Running PROVE NothingLostWhileRunning
    BY DEF NothingLostWhileRunning
  <2> USE DEF Sentinel
  <2>1. PICK s \in 1..(Len(queue) + 1) : QueueForm(s)
    BY DEF IInv, QueueInv, Alive
  <2>2. /\ Len(queue) \in Nat /\ Len(written) \in Nat /\ s \in Nat /\ pushed \in Nat
        /\ Taken \in Nat /\ DOMAIN queue = 1..Len(queue)
    BY DEF IInv, TypeOK, Taken
  <2>3. \A k \in DOMAIN queue :
          queue[k] = IF k < s THEN Taken + k ELSE IF k = s THEN 0 ELSE Taken + k - 1
    BY <2>1, <2>2 DEF QueueForm
  <2>4. ASSUME NEW i \in 1..pushed
        PROVE  \/ i <= Len(written)
               \/ pc \in {"check", "write"} /\ data = i
               \/ \E k \in DOMAIN queue : queue[k] = i
    <3>1. CASE i <= Taken
      BY <2>2, <3>1 DEF Taken, IInv, HandInv, InHand
    <3>2. CASE i > Taken
      <4>1. pushed = IF s <= Len(queue) THEN Taken + Len(queue) - 1 ELSE Taken + Len(queue)
        BY <2>1, <2>2 DEF QueueForm
      <4>2. CASE i - Taken < s
        <5>1. i - Taken \in DOMAIN queue
          BY <2>2, <3>2, <4>1, <4>2
        <5>2. queue[i - Taken] = Taken + (i - Taken)
          BY <2>3, <4>2, <5>1
        <5>3. queue[i - Taken] = i
          BY <2>2, <5>2
        <5> QED
          BY <5>1, <5>3
      <4>3. CASE i - Taken >= s
        <5>1. i - Taken + 1 \in DOMAIN queue
          BY <2>2, <3>2, <4>1, <4>3
        <5>2. queue[i - Taken + 1] = i
          BY <2>2, <2>3, <4>3, <5>1
        <5> QED
          BY <5>1, <5>2
      <4> QED
        BY <2>2, <4>2, <4>3
    <3> QED
      BY <2>2, <3>1, <3>2
  <2>5. \A k \in DOMAIN queue : queue[k] # Sentinel => queue[k] > Taken
    BY <2>2, <2>3
  <2>6. \A j, k \in DOMAIN queue : j < k /\ Sentinel \notin {queue[j], queue[k]} => queue[j] < queue[k]
    BY <2>2, <2>3
  <2>7. \A i \in 1..pushed : \/ i <= Len(written)
                             \/ pc \in {"check", "write"} /\ data = i
                             \/ \E k \in DOMAIN queue : queue[k] = i
    BY <2>4
  <2> HIDE DEF Sentinel
  <2> QED
    BY <2>5, <2>6, <2>7 DEF NothingLostWhileRunning
<1>2. QED
  BY <1>1, InvariantHolds, PTL
=============================================================================
