---------------------- MODULE ConnectionManagerProofs ----------------------
(***************************************************************************)
(* Proofs about ConnectionManager: whatever a step was given and whichever *)
(* requests failed, set values stay in bounds, and a step or a read that   *)
(* returns has taken effect and answers with what the systems have; and    *)
(* about what comes before the calls, the configuration and the            *)
(* connections of its nodes.                                               *)
(***************************************************************************)
EXTENDS Management, TLAPS, FiniteSetTheorems

-----------------------------------------------------------------------------
(* The inductive invariants.  What is written depends on what the loop of  *)
(* step() has put together: behind it every name was looked at, and every  *)
(* value to be written is that of some name.                               *)

Pending == {todo[i] : i \in DOMAIN todo}
Live == call = "step" /\ (pc # "idle" \/ StepReturned)
Looping == pc \in {"check", "indicators", "switch"}

\* What the loop of step() has done with its names.
LoopInv ==
  Live =>
    /\ \A n \in DOMAIN node_writes :
         \E m \in DOMAIN value : Target(m) = n /\ Written(m) = node_writes[n]
    /\ \A m \in DOMAIN value :
         \/ m \in Pending
         \/ Target(m) \in DOMAIN node_writes /\ (IsSetValue(m) => InBounds(value[m]))
    /\ Looping \/ Pending = {}

CallInv ==
  /\ active \in [Systems -> SUBSET Indicators]
  /\ DOMAIN value \subseteq Systems \X Names
  /\ \A m \in DOMAIN value : value[m] \in Int
  /\ call = "step" => todo \in Seq(DOMAIN value)
  /\ pc = "check" => call = "step"
  /\ pc = "write" => call \in {"step", "close"} /\ DOMAIN node_writes \subseteq NodeNames
  /\ pc = "write" /\ call = "close" =>
       \A n \in DOMAIN node_writes : n[2] = set_node /\ node_writes[n] = close_value
  /\ pc \in {"indicators", "switch"} =>
       /\ call \in {"step", "activate", "deactivate"}
       /\ todo # <<>> /\ Head(todo)[1] \in Systems
       /\ call = "step" => IsSetValue(Head(todo)) /\ InBounds(value[Head(todo)])
  /\ pc = "idle" => outcome # "running"
  /\ pc # "idle" => outcome = "running"
  /\ idx \in Nat
  /\ Looping => idx = 1

-----------------------------------------------------------------------------
LEMMA InitCall == Init => CallInv /\ LoopInv
BY DEF Init, CallInv, LoopInv, Live, Looping, StepReturned, NoWrites, NoResult

\* The order in which the loop of step() takes its names.
LEMMA OrderIsSeq ==
  ASSUME NEW v \in Parameters, NEW order \in [1..Cardinality(DOMAIN v) -> DOMAIN v]
  PROVE  order \in Seq(DOMAIN v)
<1>1. Cardinality(DOMAIN v) \in Nat
  BY ManagerAssumption, FS_CardinalityType
<1> QED
  BY <1>1

LEMMA BeginCall ==
  ASSUME CallInv, NEW c, NEW where, Begin(c, where)
  PROVE  /\ active' \in [Systems -> SUBSET Indicators]
         /\ call' = c /\ pc' = where /\ idx' = 1 /\ outcome' = "running"
BY DEF CallInv, Begin, device

LEMMA BeginStep ==
  ASSUME CallInv, NEW v \in Parameters, step(v)
  PROVE  CallInv' /\ LoopInv'
<1>1. PICK order \in [1..Cardinality(DOMAIN v) -> DOMAIN v] :
        todo' = order /\ {order[i] : i \in DOMAIN order} = DOMAIN v
  BY DEF step
<1>2. todo' \in Seq(DOMAIN v) /\ Pending' = DOMAIN v
  BY <1>1, OrderIsSeq DEF Pending
<1>3. value' = v /\ node_writes' = NoWrites
  BY DEF step
<1>4. DOMAIN v \subseteq Systems \X Names /\ \A m \in DOMAIN v : v[m] \in Int
  BY ManagerAssumption
<1>5. /\ active' \in [Systems -> SUBSET Indicators]
      /\ call' = "step" /\ pc' = "check" /\ idx' = 1 /\ outcome' = "running"
  BY BeginCall DEF step
<1> QED
  BY <1>2, <1>3, <1>4, <1>5 DEF CallInv, LoopInv, Live, Looping, NoWrites

\* The names behind the first one.
LEMMA TailIsPending ==
  ASSUME CallInv, call = "step", todo # <<>>, todo' = Tail(todo)
  PROVE  /\ Head(todo) \in DOMAIN value
         /\ todo' \in Seq(DOMAIN value)
         /\ Pending \subseteq {Head(todo)} \cup Pending'
<1>1. todo \in Seq(DOMAIN value)
  BY DEF CallInv
<1>2. ASSUME NEW i \in DOMAIN todo, i # 1 PROVE \E j \in DOMAIN Tail(todo) : todo[i] = Tail(todo)[j]
  <2>1. i - 1 \in DOMAIN Tail(todo) /\ Tail(todo)[i - 1] = todo[i]
    BY <1>1, <1>2
  <2> QED
    BY <2>1
<1> QED
  BY <1>1, <1>2 DEF Pending

\* What the loop takes is a name that was checked, if it is one of a set value.
LEMMA TakeCall ==
  ASSUME CallInv, LoopInv, Looping, call = "step", todo # <<>>, Take(Head(todo)),
         IsSetValue(Head(todo)) => InBounds(value[Head(todo)]),
         active' \in [Systems -> SUBSET Indicators], UNCHANGED <<call, value, idx>>
  PROVE  CallInv' /\ LoopInv'
<1> DEFINE name == Head(todo)
<1>1. /\ node_writes' = [n \in DOMAIN node_writes \cup {Target(name)} |->
                           IF n = Target(name) THEN Written(name) ELSE node_writes[n]]
      /\ todo' = Tail(todo) /\ pc' = "check" /\ outcome' = outcome
  BY DEF Take
<1>2. /\ name \in DOMAIN value /\ todo' \in Seq(DOMAIN value)
      /\ Pending \subseteq {name} \cup Pending'
  BY <1>1, TailIsPending
<1>3. Live /\ Live'
  BY <1>1 DEF Live, Looping
<1>4. \A m : Target(m)' = Target(m) /\ Written(m)' = Written(m)
  BY DEF Target, Written, IsSetValue, Scaled
<1>5. \A n \in DOMAIN node_writes' :
        \E m \in DOMAIN value' : Target(m) = n /\ Written(m) = node_writes'[n]
  <2> SUFFICES ASSUME NEW n \in DOMAIN node_writes', n # Target(name)
               PROVE  \E m \in DOMAIN value : Target(m) = n /\ Written(m) = node_writes'[n]
    BY <1>1, <1>2
  <2>1. n \in DOMAIN node_writes /\ node_writes'[n] = node_writes[n]
    BY <1>1
  <2> QED
    BY <2>1, <1>3 DEF LoopInv
<1>6. \A m \in DOMAIN value :
        \/ m \in Pending'
        \/ Target(m) \in DOMAIN node_writes' /\ (IsSetValue(m) => InBounds(value[m]))
  <2>1. DOMAIN node_writes' = DOMAIN node_writes \cup {Target(name)}
    BY <1>1
  <2> QED
    BY <1>2, <1>3, <2>1 DEF LoopInv
<1>7. LoopInv'
  BY <1>1, <1>4, <1>5, <1>6 DEF LoopInv, Looping
<1>8. CallInv'
  BY <1>1, <1>2 DEF CallInv, Looping
<1> QED
  BY <1>7, <1>8

\* A step of a call that leaves alone what the loop does.
LEMMA SameLoop ==
  ASSUME LoopInv, UNCHANGED <<call, value, todo, node_writes>>, Live' => Live,
         Looping' \/ ~Looping \/ todo = <<>> \/ ~Live'
  PROVE  LoopInv'
<1>1. \A m : Target(m)' = Target(m) /\ Written(m)' = Written(m)
  BY DEF Target, Written, IsSetValue, Scaled
<1>2. Pending' = Pending /\ (todo = <<>> => Pending = {})
  BY DEF Pending
<1> QED
  BY <1>1, <1>2 DEF LoopInv

\* What step() goes on with is a value that was checked.
LEMMA ContinueCall ==
  ASSUME CallInv, LoopInv, pc \in {"indicators", "switch"}, Continue,
         active' \in [Systems -> SUBSET Indicators], UNCHANGED <<call, value, idx>>
  PROVE  /\ CallInv' /\ LoopInv'
         /\ \/ call = "step" /\ pc' = "check" /\ outcome' = outcome
            \/ call # "step" /\ pc' = "idle" /\ outcome' = "returned"
<1>1. CASE call = "step"
  <2>1. Take(Head(todo)) /\ Looping
    BY <1>1 DEF Continue, Looping
  <2> QED
    BY <1>1, <2>1, TakeCall DEF CallInv, Take
<1>2. CASE call # "step"
  BY <1>2 DEF Continue, CallInv, LoopInv, Live, Looping, Return
<1> QED
  BY <1>1, <1>2

LEMMA NextCall == CallInv /\ LoopInv /\ [Next]_vars => CallInv' /\ LoopInv'
<1> SUFFICES ASSUME CallInv, LoopInv, [Next]_vars PROVE CallInv' /\ LoopInv'
  OBVIOUS
<1> USE DEF device, request
<1>1. ASSUME NEW v \in Parameters, step(v) PROVE CallInv' /\ LoopInv'
  BY <1>1, BeginStep
<1>2. ASSUME NEW s \in Systems, activate(s) \/ deactivate(s) PROVE CallInv' /\ LoopInv'
  <2>1. todo' = << <<s, set_name>> >> /\ call' \in {"activate", "deactivate"}
    BY <1>2 DEF activate, deactivate, Begin
  <2>2. todo' # <<>> /\ Head(todo')[1] \in Systems
    BY <2>1
  <2>3. pc' = "indicators" /\ value' = NoWrites /\ node_writes' = NoWrites
    BY <1>2 DEF activate, deactivate, Begin
  <2>4. active' \in [Systems -> SUBSET Indicators] /\ idx' = 1 /\ outcome' = "running"
    BY <1>2, BeginCall DEF activate, deactivate
  <2> QED
    BY <2>1, <2>2, <2>3, <2>4 DEF CallInv, LoopInv, Live, NoWrites
<1>3. CASE read
  BY <1>3, BeginCall DEF read, CallInv, LoopInv, Live, Looping, NoWrites
<1>4. CASE close
  <2>1. /\ DOMAIN node_writes' \subseteq NodeNames
        /\ \A n \in DOMAIN node_writes' : n[2] = set_node /\ node_writes'[n] = close_value
    BY <1>4, ManagerAssumption DEF close
  <2>2. value' = NoWrites /\ todo' = <<>>
    BY <1>4 DEF close
  <2> QED
    BY <1>4, <2>1, <2>2, BeginCall DEF close, CallInv, LoopInv, Live, Looping, NoWrites
<1>5. CASE CheckBounds
  <2>1. /\ pc = "check" /\ UNCHANGED <<active, call, value, todo, node_writes, idx>>
        /\ todo # <<>> /\ IsSetValue(Head(todo))
        /\ \/ pc' = "indicators" /\ InBounds(value[Head(todo)]) /\ outcome' = outcome
           \/ pc' = "idle" /\ outcome' = "ValueError"
    BY <1>5 DEF CheckBounds, Raise
  <2>2. call = "step" => Head(todo)[1] \in Systems
    BY <2>1 DEF CallInv
  <2>3. CallInv'
    BY <2>1, <2>2 DEF CallInv, Looping, IsSetValue, InBounds
  <2>4. LoopInv'
    BY <2>1, SameLoop DEF Live, Looping, StepReturned, CallInv
  <2> QED
    BY <2>3, <2>4
<1>6. CASE TakeOther
  <2>1. /\ pc = "check" /\ UNCHANGED <<active, call, value, idx>>
        /\ todo # <<>> /\ ~IsSetValue(Head(todo)) /\ Take(Head(todo))
    BY <1>6 DEF TakeOther
  <2> QED
    BY <2>1, TakeCall DEF CallInv, Looping
<1>7. CASE Sort
  <2>1. /\ pc = "check" /\ todo = <<>> /\ UNCHANGED <<active, call, value, todo, node_writes, idx>>
        /\ \/ pc' = "write" /\ outcome' = outcome /\ DOMAIN node_writes \subseteq NodeNames
           \/ pc' = "idle" /\ outcome' = "KeyError"
    BY <1>7 DEF Sort, Raise
  <2>2. CallInv'
    BY <2>1 DEF CallInv, Looping, IsSetValue, InBounds
  <2>3. LoopInv'
    BY <2>1, SameLoop DEF Live, Looping, StepReturned, CallInv
  <2> QED
    BY <2>2, <2>3
<1>8. CASE ReadIndicators
  <2>1. \/ Continue
        \/ pc' = "idle" /\ outcome' \in {"AttributeError", "KeyError", "ConnectionError"} /\ UNCHANGED <<todo, node_writes>>
        \/ pc' = "switch" /\ UNCHANGED <<outcome, todo, node_writes>>
    BY <1>8 DEF ReadIndicators, FailsLoudly, Raise
  <2>2. pc = "indicators" /\ UNCHANGED <<active, call, value, idx>>
    BY <1>8 DEF ReadIndicators
  <2>3. CASE Continue
    BY <2>2, <2>3, ContinueCall DEF CallInv
  <2>4. CASE ~Continue
    <3>1. CallInv'
      BY <2>1, <2>2, <2>4 DEF CallInv, Looping, IsSetValue, InBounds
    <3>2. LoopInv'
      BY <2>1, <2>2, <2>4, SameLoop DEF Live, Looping, StepReturned, CallInv
    <3> QED
      BY <3>1, <3>2
  <2> QED
    BY <2>3, <2>4
<1>9. CASE Switch
  <2>1. \/ Continue
        \/ pc' = "idle" /\ outcome' = "ConnectionError" /\ UNCHANGED <<todo, node_writes>>
    BY <1>9 DEF Switch, FailsLoudly, Raise
  <2>2. pc = "switch" /\ UNCHANGED <<call, value, idx>>
    BY <1>9 DEF Switch
  <2>3. active' \in [Systems -> SUBSET Indicators]
    <3>1. \/ UNCHANGED active
          \/ \E now \in SUBSET Indicators : active' = [active EXCEPT ![Head(todo)[1]] = now]
      BY <1>9 DEF Switch
    <3> QED
      BY <3>1 DEF CallInv
  <2>4. CASE Continue
    BY <2>2, <2>3, <2>4, ContinueCall
  <2>5. CASE ~Continue
    <3>1. CallInv'
      BY <2>1, <2>2, <2>3, <2>5 DEF CallInv, Looping, IsSetValue, InBounds
    <3>2. LoopInv'
      BY <2>1, <2>2, <2>5, SameLoop DEF Live, Looping, StepReturned, CallInv
    <3> QED
      BY <3>1, <3>2
  <2> QED
    BY <2>4, <2>5
<1>10. CASE WriteConnection \/ ReadConnection
  <2>1. UNCHANGED <<pc, outcome>> \/ (pc' = "idle" /\ outcome' = "ConnectionError")
    BY <1>10 DEF WriteConnection, ReadConnection, FailsLoudly, Raise
  <2>2. pc \in {"write", "read"} /\ idx' = idx + 1 /\ UNCHANGED <<active, call, value, todo, node_writes>>
    BY <1>10 DEF WriteConnection, ReadConnection
  <2>3. CallInv'
    BY <2>1, <2>2 DEF CallInv, Looping
  <2>4. LoopInv'
    BY <2>1, <2>2, SameLoop DEF Live, Looping, StepReturned, CallInv
  <2> QED
    BY <2>3, <2>4
<1>11. CASE WriteDone \/ ReadDone
  <2>1. /\ pc \in {"write", "read"} /\ UNCHANGED <<active, call, value, todo, node_writes>>
        /\ \/ pc' = "read" /\ idx' = 1 /\ outcome' = outcome
           \/ pc' = "idle" /\ idx' = idx /\ outcome' = "returned"
    BY <1>11 DEF WriteDone, ReadDone, Return
  <2>2. CallInv'
    BY <2>1 DEF CallInv, Looping
  <2>3. LoopInv'
    BY <2>1, SameLoop DEF Live, Looping
  <2> QED
    BY <2>2, <2>3
<1>12. CASE SelfChange
  <2>1. CallInv'
    BY <1>12 DEF SelfChange, CallInv, Looping, IsSetValue, InBounds
  <2>2. LoopInv'
    BY <1>12, SameLoop DEF SelfChange, Live, Looping, StepReturned
  <2> QED
    BY <2>1, <2>2
<1>13. CASE UNCHANGED vars
  <2>1. CallInv'
    BY <1>13 DEF vars, CallInv, Looping, IsSetValue, InBounds
  <2>2. LoopInv'
    BY <1>13, SameLoop DEF vars, Live, Looping, StepReturned
  <2> QED
    BY <2>1, <2>2
<1> QED
  BY <1>1, <1>2, <1>3, <1>4, <1>5, <1>6, <1>7, <1>8, <1>9, <1>10, <1>11, <1>12, <1>13
     DEF Next, Running

LEMMA CallInductive == Spec => [](CallInv /\ LoopInv)
<1> QED
  BY InitCall, NextCall, PTL DEF Spec

-----------------------------------------------------------------------------
\* Only WriteConnection gives nodes values.
LEMMA OnlyWritesChange ==
  ASSUME [Next]_vars, NEW n \in NodeNames, node_value'[n] # node_value[n]
  PROVE  WriteConnection
BY DEF Next, Running, vars, device, step, activate, deactivate, read, close, Begin, CheckBounds,
       TakeOther, Sort, ReadIndicators, Switch, WriteDone, ReadConnection, ReadDone, SelfChange

\* Whatever a step is given, in whatever order, and whichever requests fail: none of its
\* values is written if one of its set values is out of bounds, and a node gets the value
\* of one of the names that have it as target: scaled and in bounds, or as it was given
\* under the name of the node itself.
THEOREM ManagerBoundsHold == Spec => BoundsHold
<1>1. ASSUME CallInv, LoopInv, [Next]_vars
      PROVE  [\A n \in NodeNames : node_value'[n] # node_value[n] => Justified(n, node_value'[n])]_vars
  <2> SUFFICES ASSUME NEW n \in NodeNames, node_value'[n] # node_value[n]
               PROVE  Justified(n, node_value'[n])
    OBVIOUS
  <2> DEFINE c == Connections[idx]
             group == {m \in DOMAIN node_writes : ConnectionOf[m] = c}
  <2>1. WriteConnection
    BY <1>1, OnlyWritesChange
  <2>2. \E ns \in SUBSET group :
          node_value' = [m \in NodeNames |-> IF m \in ns THEN node_writes[m] ELSE node_value[m]]
    BY <2>1 DEF WriteConnection
  <2>3. n \in DOMAIN node_writes /\ node_value'[n] = node_writes[n] /\ c \in Writable /\ ConnectionOf[n] = c
    BY <2>1, <2>2 DEF WriteConnection
  <2>4. pc = "write"
    BY <2>1 DEF WriteConnection
  <2>5. CASE call = "close"
    BY <1>1, <2>3, <2>4, <2>5 DEF CallInv, Justified
  <2>6. CASE call = "step"
    BY <1>1, <2>3, <2>4, <2>6 DEF LoopInv, Live, Looping, Justified
  <2> QED
    BY <1>1, <2>4, <2>5, <2>6 DEF CallInv
<1> QED
  BY <1>1, CallInductive, PTL DEF Spec, BoundsHold

-----------------------------------------------------------------------------
(* What a read answers.  A connection that was asked has put something in  *)
(* for each of its nodes, and nothing is written while read() runs.        *)

Answers == pc = "idle" /\ call \in {"step", "read"} /\ outcome = "returned"
Asked(n) == \E i \in 1..(idx - 1) : Connections[i] = ConnectionOf[n]
Readables == {n \in observe : ConnectionOf[n] \in Readable}

AnswerInv ==
  /\ DOMAIN result \subseteq Readables
  /\ Looping \/ pc = "write" => result = NoResult
  /\ pc = "read" => \A n \in Readables : Asked(n) => n \in DOMAIN result
  /\ pc = "read" \/ Answers =>
       \A n \in DOMAIN result : result[n] = node_value[n] \/ (met_failure /\ result[n] = NaN)
  /\ Answers => DOMAIN result = Readables

LEMMA InitAnswer == Init => AnswerInv
BY DEF Init, AnswerInv, Answers, NoResult, Looping

\* Behind the last connection, every one was asked.
LEMMA AllAsked ==
  ASSUME CallInv, Done, NEW n \in NodeNames
  PROVE  Asked(n)
<1>1. PICK i \in DOMAIN Connections : Connections[i] = ConnectionOf[n]
  BY ManagerAssumption DEF Conns
<1>2. i \in 1..Len(Connections) /\ Len(Connections) \in Nat
  BY ManagerAssumption
<1> QED
  BY <1>1, <1>2 DEF Done, Asked, CallInv

\* A call that begins has no answer yet.
LEMMA BeginAnswer ==
  ASSUME CallInv, NEW c, NEW where, Begin(c, where),
         where \in {"check", "indicators", "write", "read"}
  PROVE  AnswerInv'
BY DEF Begin, AnswerInv, Answers, NoResult, Asked, CallInv

\* A step of a call that neither reads nor changes a node.
LEMMA SameAnswer ==
  ASSUME AnswerInv, CallInv, Looping \/ pc = "write", UNCHANGED <<result, call>>,
         \/ Looping' \/ pc' = "write"
         \/ pc' = "idle" /\ (outcome' # "returned" \/ call \notin {"step", "read"})
  PROVE  AnswerInv'
BY DEF AnswerInv, Answers, NoResult, Looping

LEMMA NextAnswer == CallInv /\ LoopInv /\ AnswerInv /\ [Next]_vars => AnswerInv'
<1> SUFFICES ASSUME CallInv, LoopInv, AnswerInv, [Next]_vars PROVE AnswerInv'
  OBVIOUS
<1> USE DEF device, request
<1>1. CASE \/ \E v \in Parameters : step(v)
           \/ \E s \in Systems : activate(s) \/ deactivate(s)
           \/ read \/ close
  BY <1>1, BeginAnswer DEF step, activate, deactivate, read, close
<1>2. CASE CheckBounds \/ TakeOther \/ Sort
  <2>1. /\ pc = "check" /\ UNCHANGED <<result, call>>
        /\ pc' \in {"write", "indicators", "check"}
             \/ (pc' = "idle" /\ outcome' \in {"ValueError", "KeyError"})
    BY <1>2 DEF CheckBounds, TakeOther, Sort, Take, Raise
  <2> QED
    BY <2>1, SameAnswer DEF Looping
<1>3. CASE ReadIndicators
  <2>1. \/ Continue
        \/ pc' = "idle" /\ outcome' \in {"AttributeError", "KeyError", "ConnectionError"}
        \/ pc' = "switch"
    BY <1>3 DEF ReadIndicators, FailsLoudly, Raise
  <2>2. pc = "indicators" /\ UNCHANGED <<result, call, active, value, idx>>
    BY <1>3 DEF ReadIndicators
  <2> QED
    BY <2>1, <2>2, SameAnswer DEF Continue, Take, Return, CallInv, Looping
<1>4. CASE Switch
  <2>1. Continue \/ (pc' = "idle" /\ outcome' = "ConnectionError")
    BY <1>4 DEF Switch, FailsLoudly, Raise
  <2>2. pc = "switch" /\ UNCHANGED <<result, call>>
    BY <1>4 DEF Switch
  <2> QED
    BY <2>1, <2>2, SameAnswer DEF Continue, Take, Return, CallInv, Looping
<1>5. CASE WriteConnection
  <2>1. /\ pc = "write" /\ UNCHANGED <<result, call>>
        /\ pc' = "write" \/ (pc' = "idle" /\ outcome' = "ConnectionError")
    BY <1>5 DEF WriteConnection, FailsLoudly, Raise
  <2> QED
    BY <2>1, SameAnswer
<1>6. CASE WriteDone
  <2>1. CASE call = "step"
    <3>1. \A n \in observe : ~Asked(n)'
      BY <1>6, <2>1 DEF WriteDone, Asked
    <3> QED
      BY <1>6, <2>1, <3>1 DEF WriteDone, AnswerInv, Answers, NoResult, Looping, Readables
  <2>2. CASE call # "step"
    BY <1>6, <2>2, SameAnswer DEF WriteDone, Return, CallInv
  <2> QED
    BY <2>1, <2>2
<1>7. CASE ReadConnection
  <2> DEFINE c == Connections[idx]
             group == {n \in observe : ConnectionOf[n] = c}
             Got(answer) == result' = [n \in DOMAIN result \cup group |->
                                         IF n \in group THEN answer[n] ELSE result[n]]
  <2>1. /\ pc = "read" /\ idx' = idx + 1
        /\ UNCHANGED <<node_value, call>>
    BY <1>7 DEF ReadConnection
  <2>2. CASE FailsLoudly(c) /\ UNCHANGED result
    BY <2>1, <2>2 DEF FailsLoudly, Raise, AnswerInv, Answers, Looping
  <2>3. CASE (group = {} \/ c \notin Readable) /\ UNCHANGED <<met_failure, pc, outcome, result>>
    <3>1. \A n \in Readables : Asked(n)' => Asked(n)
      BY <2>1, <2>3 DEF Asked, CallInv, Readables
    <3> QED
      BY <2>1, <2>3, <3>1 DEF AnswerInv, Answers, Looping
  <2>4. CASE /\ c \in Readable /\ UNCHANGED <<pc, outcome>>
             /\ \/ UNCHANGED met_failure /\ Got(node_value)
                \/ met_failure' = TRUE /\ Got([n \in group |-> NaN])
    <3>1. \A n \in Readables : Asked(n)' => Asked(n) \/ n \in group
      BY <2>1 DEF Asked, CallInv, Readables
    <3>2. DOMAIN result' = DOMAIN result \cup group /\ group \subseteq Readables
      BY <2>4 DEF Readables
    <3>3. \A n \in DOMAIN result' : \/ result'[n] = node_value[n]
                                    \/ met_failure' /\ result'[n] = NaN
      BY <2>1, <2>4 DEF AnswerInv
    <3> QED
      BY <2>1, <2>4, <3>1, <3>2, <3>3 DEF AnswerInv, Answers, Looping
  <2> QED
    BY <1>7, <2>2, <2>3, <2>4 DEF ReadConnection, Succeeds, FailsQuietly
<1>8. CASE ReadDone
  <2>1. \A n \in Readables : Asked(n)
    BY <1>8, AllAsked, ManagerAssumption DEF ReadDone, Readables
  <2> QED
    BY <1>8, <2>1 DEF ReadDone, Return, AnswerInv, Answers, Looping
<1>9. CASE SelfChange
  BY <1>9 DEF SelfChange, AnswerInv, Answers, Asked, Looping
<1>10. CASE UNCHANGED vars
  BY <1>10 DEF vars, AnswerInv, Answers, Asked, Looping
<1> QED
  BY <1>1, <1>2, <1>3, <1>4, <1>5, <1>6, <1>7, <1>8, <1>9, <1>10 DEF Next, Running

\* A step or read that returns answers for every observed node of a connection that is
\* readable and for no other, with what the node has, or with NaN if a request failed.
THEOREM ManagerAnswersAreCurrent == Spec => []AnswersAreCurrent
<1>1. Init => CallInv /\ LoopInv /\ AnswerInv
  BY InitCall, InitAnswer
<1>2. CallInv /\ LoopInv /\ AnswerInv /\ [Next]_vars => (CallInv /\ LoopInv /\ AnswerInv)'
  BY NextCall, NextAnswer
<1>3. AnswerInv => AnswersAreCurrent
  BY DEF AnswerInv, Answers, AnswersAreCurrent, Readables
<1> QED
  BY <1>1, <1>2, <1>3, PTL DEF Spec

-----------------------------------------------------------------------------
(* What a step that met no failure has done: the systems whose set values  *)
(* its loop is through with are active as demanded, and the connections    *)
(* that were asked have written their values.                              *)

AsDemanded(m) ==
  IsSetValue(m) /\ IndicatorsAt[m[1]] \in Writable =>
    (active[m[1]] # {} <=> value[m] >= threshold)

Writables == {n \in DOMAIN node_writes : ConnectionOf[n] \in Writable}

EffectInv ==
  Live /\ ~met_failure =>
    /\ \A m \in DOMAIN value : m \in Pending \/ AsDemanded(m)
    /\ pc = "write" => \A n \in Writables : Asked(n) => node_value[n] = node_writes[n]
    /\ pc = "read" \/ StepReturned => \A n \in Writables : node_value[n] = node_writes[n]

LEMMA InitEffect == Init => EffectInv
BY DEF Init, EffectInv, Live, StepReturned

LEMMA BeginEffect ==
  ASSUME CallInv, NEW v \in Parameters, step(v)
  PROVE  EffectInv'
<1>1. PICK order \in [1..Cardinality(DOMAIN v) -> DOMAIN v] :
        todo' = order /\ {order[i] : i \in DOMAIN order} = DOMAIN v
  BY DEF step
<1>2. pc' = "check" /\ value' = v
  BY DEF step, Begin
<1>3. DOMAIN value' \subseteq Pending'
  BY <1>1, <1>2 DEF Pending
<1> QED
  BY <1>2, <1>3 DEF EffectInv, StepReturned

\* The loop goes on when the system of the name it was at is as demanded.
LEMMA TakeEffect ==
  ASSUME CallInv, EffectInv, Looping, call = "step", todo # <<>>,
         NEW name, name = Head(todo), Take(name),
         ~met_failure, UNCHANGED <<call, value>>,
         AsDemanded(name)',
         \A r \in Systems : r # name[1] \/ ~IsSetValue(name) => active'[r] = active[r]
  PROVE  EffectInv'
<1>1. pc' = "check" /\ todo' = Tail(todo)
  BY DEF Take
<1>2. name \in DOMAIN value /\ Pending \subseteq {name} \cup Pending'
  BY <1>1, TailIsPending
<1>3. ASSUME NEW m \in DOMAIN value, m \notin Pending' PROVE AsDemanded(m)'
  <2>1. CASE m = name
    BY <2>1
  <2>2. CASE m # name
    <3>1. AsDemanded(m)
      BY <1>2, <1>3, <2>2 DEF EffectInv, Live, Looping
    <3>2. m \in Systems \X Names /\ name \in Systems \X Names
      BY <1>2 DEF CallInv
    <3>3. IsSetValue(m) => m[1] # name[1] \/ ~IsSetValue(name)
      BY <2>2, <3>2 DEF IsSetValue
    <3>4. IsSetValue(m) => active'[m[1]] = active[m[1]]
      BY <3>2, <3>3
    <3> QED
      BY <3>1, <3>4 DEF AsDemanded, IsSetValue
  <2> QED
    BY <2>1, <2>2
<1> QED
  BY <1>1, <1>3 DEF EffectInv, StepReturned

\* A step of a call that switches nothing, and is at the same place of the loop.
LEMMA SameEffect ==
  ASSUME EffectInv, UNCHANGED <<active, call, value, todo>>, Live, ~met_failure
  PROVE  \A m \in DOMAIN value' : m \in Pending' \/ AsDemanded(m)'
BY DEF EffectInv, AsDemanded, IsSetValue, Pending

LEMMA NextEffect == CallInv /\ LoopInv /\ EffectInv /\ [Next]_vars => EffectInv'
<1> SUFFICES ASSUME CallInv, LoopInv, EffectInv, [Next]_vars PROVE EffectInv'
  OBVIOUS
<1> USE DEF device, request
<1>a. ASSUME call' # "step" \/ met_failure' PROVE EffectInv'
  BY <1>a DEF EffectInv, Live
<1>b. ASSUME pc' = "idle" /\ outcome' # "returned" PROVE EffectInv'
  BY <1>b DEF EffectInv, Live, StepReturned
<1>1. ASSUME NEW v \in Parameters, step(v) PROVE EffectInv'
  BY <1>1, BeginEffect
<1>2. CASE (\E s \in Systems : activate(s) \/ deactivate(s)) \/ read \/ close
  <2>1. call' # "step"
    BY <1>2 DEF activate, deactivate, read, close, Begin
  <2> QED
    BY <2>1, <1>a
<1>3. CASE CheckBounds \/ Sort
  <2>1. UNCHANGED <<active, node_value, value, call, todo, node_writes, idx, met_failure>> /\ pc = "check"
    BY <1>3 DEF CheckBounds, Sort
  <2>2. \/ pc' \in {"write", "indicators"}
        \/ pc' = "idle" /\ outcome' \in {"ValueError", "KeyError"}
    BY <1>3 DEF CheckBounds, Sort, Raise
  <2>3. \A n : ~Asked(n)'
    BY <2>1 DEF Asked, CallInv, Looping
  <2>4. CASE pc' \in {"write", "indicators"} /\ call = "step" /\ ~met_failure
    <3>1. Live
      BY <2>1, <2>4 DEF Live
    <3> QED
      BY <2>1, <2>3, <2>4, <3>1, SameEffect DEF EffectInv, StepReturned
  <2> QED
    BY <2>1, <2>2, <2>4, <1>a, <1>b
<1>4. CASE TakeOther
  <2>1. /\ pc = "check" /\ UNCHANGED <<active, call, value, idx, met_failure>>
        /\ todo # <<>> /\ ~IsSetValue(Head(todo)) /\ Take(Head(todo))
    BY <1>4 DEF TakeOther
  <2>2. CASE call = "step" /\ ~met_failure
    <3> PICK name : name = Head(todo)
      OBVIOUS
    <3>1. AsDemanded(name)'
      BY <2>1 DEF AsDemanded, IsSetValue
    <3> QED
      BY <2>1, <2>2, <3>1, TakeEffect DEF Looping
  <2> QED
    BY <2>1, <2>2, <1>a
<1>5. CASE ReadIndicators
  <2> PICK name : name = Head(todo)
    OBVIOUS
  <2>1. pc = "indicators" /\ UNCHANGED <<active, node_value, value, call, idx, result>>
    BY <1>5 DEF ReadIndicators
  <2>2. \/ met_failure'
        \/ /\ UNCHANGED met_failure
           /\ \/ pc' = "idle" /\ outcome' \in {"AttributeError", "KeyError"}
              \/ pc' = "switch" /\ UNCHANGED <<todo, node_writes>>
              \/ Continue /\ (ToActivate <=> active[name[1]] # {})
    BY <1>5 DEF ReadIndicators, Succeeds, FailsQuietly, FailsLoudly, Raise
  <2>3. CASE met_failure' \/ call # "step" \/ met_failure
    BY <2>1, <2>2, <2>3, <1>a
  <2>4. CASE pc' = "idle" /\ outcome' \in {"AttributeError", "KeyError"}
    BY <2>4, <1>b
  <2>5. CASE pc' = "switch" /\ UNCHANGED <<todo, node_writes, met_failure>> /\ call = "step" /\ ~met_failure
    <3>1. Live
      BY <2>1, <2>5 DEF Live
    <3> QED
      BY <2>1, <2>5, <3>1, SameEffect DEF EffectInv, StepReturned
  <2>6. CASE /\ Continue /\ (ToActivate <=> active[name[1]] # {})
             /\ call = "step" /\ ~met_failure
    <3>1. Take(name) /\ todo # <<>>
      BY <2>1, <2>6 DEF Continue, CallInv
    <3>2. AsDemanded(name)'
      BY <2>1, <2>6 DEF ToActivate, AsDemanded, IsSetValue
    <3> QED
      BY <2>1, <2>6, <3>1, <3>2, TakeEffect DEF Looping
  <2> QED
    BY <2>2, <2>3, <2>4, <2>5, <2>6
<1>6. CASE Switch
  <2> PICK name : name = Head(todo)
    OBVIOUS
  <2> DEFINE s == name[1]
             target == IF ToActivate THEN Indicators ELSE {}
  <2>1. pc = "switch" /\ UNCHANGED <<node_value, value, call, idx, result>>
    BY <1>6 DEF Switch
  <2>2. \/ met_failure'
        \/ /\ UNCHANGED met_failure /\ Continue
           /\ \/ active' = [active EXCEPT ![s] = target]
              \/ UNCHANGED active /\ IndicatorsAt[s] \notin Writable
    BY <1>6 DEF Switch, Succeeds, FailsQuietly, FailsLoudly
  <2>3. CASE met_failure' \/ call # "step" \/ met_failure
    BY <2>1, <2>2, <2>3, <1>a
  <2>4. CASE call = "step" /\ ~met_failure /\ UNCHANGED met_failure
    <3>1. s \in Systems /\ todo # <<>> /\ IsSetValue(name)
      BY <2>1, <2>4 DEF CallInv
    <3>2. Take(name)
      BY <2>2, <2>4 DEF Continue
    <3>3. \A r \in Systems : r # s => active'[r] = active[r]
      BY <2>2, <2>4, <3>1 DEF CallInv
    <3>4. CASE active' = [active EXCEPT ![s] = target]
      <4>1. active'[s] = target
        BY <3>1, <3>4 DEF CallInv
      <4>2. target # {} <=> value[name] >= threshold
        BY <2>4, ManagerAssumption DEF ToActivate
      <4>3. AsDemanded(name)'
        BY <2>1, <4>1, <4>2 DEF AsDemanded, IsSetValue
      <4> QED
        BY <2>1, <2>4, <3>1, <3>2, <3>3, <4>3, TakeEffect DEF Looping
    <3>5. CASE IndicatorsAt[s] \notin Writable
      <4>1. AsDemanded(name)'
        BY <3>5 DEF AsDemanded
      <4> QED
        BY <2>1, <2>4, <3>1, <3>2, <3>3, <4>1, TakeEffect DEF Looping
    <3> QED
      BY <2>2, <2>4, <3>4, <3>5
  <2> QED
    BY <2>2, <2>3, <2>4
<1>7. CASE WriteConnection
  <2> DEFINE c == Connections[idx]
             group == {n \in DOMAIN node_writes : ConnectionOf[n] = c}
             Set(ns) == node_value' = [n \in NodeNames |-> IF n \in ns THEN node_writes[n]
                                                                      ELSE node_value[n]]
  <2>1. pc = "write" /\ idx' = idx + 1 /\ UNCHANGED <<active, call, value, todo, node_writes>>
    BY <1>7 DEF WriteConnection
  <2>2. \/ met_failure'
        \/ /\ UNCHANGED <<pc, outcome, met_failure>>
           /\ \/ (group = {} \/ c \notin Writable) /\ UNCHANGED node_value
              \/ Set(group)
    BY <1>7 DEF WriteConnection, Succeeds, FailsQuietly, FailsLoudly
  <2>3. CASE /\ UNCHANGED <<pc, outcome, met_failure>> /\ call = "step" /\ ~met_failure
             /\ \/ (group = {} \/ c \notin Writable) /\ UNCHANGED node_value
                \/ Set(group)
    <3>1. \A n \in Writables : Asked(n)' => Asked(n) \/ (n \in group /\ c \in Writable)
      BY <2>1 DEF Asked, CallInv, Writables
    <3>2. Live /\ DOMAIN node_writes \subseteq NodeNames
      BY <2>1, <2>3 DEF Live, CallInv
    <3>3. \A n \in Writables : Asked(n)' => node_value'[n] = node_writes[n]
      BY <2>1, <2>3, <3>1, <3>2 DEF EffectInv, Writables
    <3>4. Writables' = Writables
      BY <2>1 DEF Writables
    <3> QED
      BY <2>1, <2>3, <3>2, <3>3, <3>4, SameEffect DEF EffectInv, StepReturned
  <2> QED
    BY <2>1, <2>2, <2>3, <1>a
<1>8. CASE WriteDone
  <2>1. /\ pc = "write" /\ UNCHANGED <<active, node_value, call, value, todo, node_writes, met_failure>>
        /\ call = "step" => pc' = "read"
    BY <1>8 DEF WriteDone
  <2>2. CASE call = "step" /\ ~met_failure
    <3>1. \A n \in Writables : Asked(n)
      BY <1>8, <2>1, AllAsked DEF WriteDone, CallInv, Writables
    <3>2. Live /\ Writables' = Writables
      BY <2>1, <2>2 DEF Live, Writables
    <3> QED
      BY <2>1, <2>2, <3>1, <3>2, SameEffect DEF EffectInv
  <2> QED
    BY <2>1, <2>2, <1>a
<1>9. CASE ReadConnection \/ ReadDone
  <2>1. pc = "read" /\ UNCHANGED <<active, node_value, call, value, todo, node_writes>>
    BY <1>9 DEF ReadConnection, ReadDone
  <2>2. \/ met_failure' = TRUE
        \/ UNCHANGED met_failure /\ (pc' = pc \/ pc' = "idle")
    <3>1. CASE ReadConnection
      BY <3>1 DEF ReadConnection, Succeeds, FailsQuietly, FailsLoudly
    <3>2. CASE ReadDone
      BY <3>2 DEF ReadDone, Return
    <3> QED
      BY <1>9, <3>1, <3>2
  <2>3. CASE call = "step" /\ ~met_failure /\ UNCHANGED met_failure /\ (pc' = pc \/ pc' = "idle")
    <3>1. Live /\ Writables' = Writables
      BY <2>1, <2>3 DEF Live, Writables
    <3> QED
      BY <2>1, <2>3, <3>1, SameEffect DEF EffectInv
  <2> QED
    BY <2>1, <2>2, <2>3, <1>a
<1>10. CASE SelfChange
  BY <1>10, <1>a DEF SelfChange
<1>11. CASE UNCHANGED vars
  BY <1>11 DEF vars, EffectInv, Live, StepReturned, AsDemanded, IsSetValue, Pending, Writables, Asked
<1> QED
  BY <1>1, <1>2, <1>3, <1>4, <1>5, <1>6, <1>7, <1>8, <1>9, <1>10, <1>11 DEF Next, Running

\* A step that returns without having met a failure has given every node of its
\* parameter the value of a name with that target, and every system that its set value
\* demands to be active, and no other of those it was given one for, is active; as far as
\* their connections are writable.
THEOREM ManagerStepTakesEffect == Spec => []StepTakesEffect
<1>1. Init => CallInv /\ LoopInv /\ EffectInv
  BY InitCall, InitEffect
<1>2. CallInv /\ LoopInv /\ EffectInv /\ [Next]_vars => (CallInv /\ LoopInv /\ EffectInv)'
  BY NextCall, NextEffect
<1>3. LoopInv /\ EffectInv => StepTakesEffect
  <2> SUFFICES ASSUME LoopInv, EffectInv, StepReturned, ~met_failure, NEW m \in DOMAIN value
               PROVE  /\ ConnectionOf[Target(m)] \in Writable =>
                           \E k \in DOMAIN value :
                             Target(k) = Target(m) /\ node_value[Target(m)] = Written(k)
                      /\ AsDemanded(m)
    BY DEF StepTakesEffect, AsDemanded
  <2>1. Live /\ ~Looping
    BY DEF Live, Looping, StepReturned
  <2>2. Target(m) \in DOMAIN node_writes /\ AsDemanded(m)
    BY <2>1 DEF LoopInv, EffectInv
  <2>3. PICK k \in DOMAIN value : Target(k) = Target(m) /\ Written(k) = node_writes[Target(m)]
    BY <2>1, <2>2 DEF LoopInv
  <2>4. ConnectionOf[Target(m)] \in Writable => node_value[Target(m)] = node_writes[Target(m)]
    BY <2>1, <2>2 DEF EffectInv, Writables
  <2> QED
    BY <2>2, <2>3, <2>4
<1> QED
  BY <1>1, <1>2, <1>3, PTL DEF Spec

-----------------------------------------------------------------------------
(* The connections: their identifier is that of each of their nodes. *)

GroupInv ==
  part = "connections" =>
    \A id \in DOMAIN connections :
      LET c == connections[id] IN
      /\ c = [protocol |-> c.protocol, netloc |-> c.netloc, key |-> c.key,
              selected_nodes |-> c.selected_nodes]
      /\ Grouping!connection_identifier(c) = id
      /\ \A n \in c.selected_nodes : Grouping!connection_identifier(n) = id

\* An identifier tells the netloc and the key.
LEMMA IdentifierTells ==
  ASSUME NEW m, NEW n
  PROVE  Grouping!connection_identifier(m) = Grouping!connection_identifier(n)
           <=> m.netloc = n.netloc /\ m.key = n.key
<1>1. \A a, b, k : <<a>> # <<b, k>>
  <2> SUFFICES ASSUME NEW a, NEW b, NEW k, <<a>> = <<b, k>> PROVE FALSE
    OBVIOUS
  <2>1. Len(<<a>>) = 1 /\ Len(<<b, k>>) = 2
    OBVIOUS
  <2> QED
    BY <2>1
<1>2. \A a, b : <<a>> = <<b>> <=> a = b
  OBVIOUS
<1>3. \A a, b, j, k : <<a, j>> = <<b, k>> <=> a = b /\ j = k
  OBVIOUS
<1> QED
  BY <1>1, <1>2, <1>3 DEF Grouping!connection_identifier

LEMMA GroupStep ==
  ASSUME GroupInv, part = "connections", Grouping!Group, UNCHANGED part
  PROVE  GroupInv'
<1>n. PICK n : n = Head(left)
  OBVIOUS
<1>i. PICK id : id = Grouping!connection_identifier(n)
  OBVIOUS
<1>1. connections' = Grouping!Added(n)
  BY <1>n DEF Grouping!Group
<1>2. ASSUME NEW i \in DOMAIN connections
      PROVE  LET c == connections[i] IN
             /\ c = [protocol |-> c.protocol, netloc |-> c.netloc, key |-> c.key,
                     selected_nodes |-> c.selected_nodes]
             /\ Grouping!connection_identifier(c) = i
             /\ \A m \in c.selected_nodes : Grouping!connection_identifier(m) = i
  BY DEF GroupInv
<1>3. CASE id \in DOMAIN connections
  <2> DEFINE c == connections[id]
             d == [c EXCEPT !.selected_nodes = c.selected_nodes \cup {n}]
  <2>1. connections' = [connections EXCEPT ![id] = d]
    BY <1>1, <1>3, <1>i DEF Grouping!Added
  <2>2. /\ d = [protocol |-> c.protocol, netloc |-> c.netloc, key |-> c.key,
                selected_nodes |-> c.selected_nodes \cup {n}]
    BY <1>2, <1>3
  <2>3. d.netloc = c.netloc /\ d.key = c.key /\ d.selected_nodes = c.selected_nodes \cup {n}
        /\ d.protocol = c.protocol
    BY <2>2
  <2>4. Grouping!connection_identifier(d) = id
    BY <1>2, <1>3, <2>3 DEF Grouping!connection_identifier
  <2>5. \A m \in d.selected_nodes : Grouping!connection_identifier(m) = id
    BY <1>2, <1>3, <1>i, <2>3
  <2>6. d = [protocol |-> d.protocol, netloc |-> d.netloc, key |-> d.key,
             selected_nodes |-> d.selected_nodes]
    BY <2>2
  <2> HIDE DEF d
  <2>7. /\ DOMAIN connections' = DOMAIN connections /\ connections'[id] = d
        /\ \A i \in DOMAIN connections : i # id => connections'[i] = connections[i]
    BY <1>3, <2>1
  <2> QED
    BY <1>2, <2>4, <2>5, <2>6, <2>7 DEF GroupInv
<1>4. CASE id \notin DOMAIN connections
  <2> DEFINE d == Grouping!_from_node(n)
  <2>1. connections' = [i \in DOMAIN connections \cup {id} |-> IF i = id THEN d ELSE connections[i]]
    BY <1>1, <1>4, <1>i DEF Grouping!Added
  <2>2. /\ d = [protocol |-> d.protocol, netloc |-> d.netloc, key |-> d.key,
                selected_nodes |-> d.selected_nodes]
        /\ d.netloc = n.netloc /\ d.key = n.key /\ d.selected_nodes = {n}
    BY DEF Grouping!_from_node
  <2>3. Grouping!connection_identifier(d) = id
    BY <1>i, <2>2, IdentifierTells
  <2> HIDE DEF d
  <2>4. /\ DOMAIN connections' = DOMAIN connections \cup {id} /\ connections'[id] = d
        /\ \A i \in DOMAIN connections : connections'[i] = connections[i]
    BY <1>4, <2>1
  <2> QED
    BY <1>2, <1>i, <2>2, <2>3, <2>4 DEF GroupInv
<1> QED
  BY <1>3, <1>4

\* Whatever nodes there are, in any order: a connection made for some of them has those of
\* its protocol that it would accept, and accepts those it has.
THEOREM ManagerGroupsAreAccepted == AllSpec => []GroupsAreAccepted
<1>1. AllInit => GroupInv
  BY DEF AllInit, MakingInit, NoGroups, Grouping!ConnectionsInit, GroupInv
<1>2. GroupInv /\ [AllNext]_allVars => GroupInv'
  <2> SUFFICES ASSUME GroupInv, [AllNext]_allVars PROVE GroupInv'
    OBVIOUS
  <2>1. CASE UNCHANGED <<part, connections>>
    BY <2>1 DEF GroupInv
  <2>2. CASE part = "connections" /\ UNCHANGED part /\ Grouping!Group
    BY <2>2, GroupStep
  <2>3. \/ UNCHANGED <<part, connections>>
        \/ part = "connections" /\ UNCHANGED part /\ Grouping!Group
    BY DEF AllNext, MakingNext, allVars, grouping, Grouping!ConnectionsNext,
           Grouping!from_nodes, Grouping!from_node, Grouping!Return
  <2> QED
    BY <2>1, <2>2, <2>3
<1>3. GroupInv => GroupsAreAccepted
  <2> SUFFICES ASSUME GroupInv, part = "connections", NEW id \in DOMAIN connections
               PROVE  LET c == connections[id]
                          grouped == UNION {connections[i].selected_nodes : i \in DOMAIN connections}
                      IN  Grouping!_validate_nodes(c, grouped)
                            = {n \in c.selected_nodes : n.protocol = c.protocol}
    BY DEF GroupsAreAccepted, Grouping!GroupsAreAccepted
  <2> DEFINE c == connections[id]
             grouped == UNION {connections[i].selected_nodes : i \in DOMAIN connections}
  <2>1. ASSUME NEW i \in DOMAIN connections, NEW n \in connections[i].selected_nodes
        PROVE  (n.netloc = c.netloc /\ n.key = c.key) <=> i = id
    <3>1. /\ Grouping!connection_identifier(c) = id
          /\ Grouping!connection_identifier(n) = i
      BY <2>1 DEF GroupInv
    <3>2. Grouping!connection_identifier(n) = Grouping!connection_identifier(c)
            <=> n.netloc = c.netloc /\ n.key = c.key
      BY IdentifierTells
    <3> QED
      BY <3>1, <3>2
  <2>2. \A n : n \in grouped /\ n.netloc = c.netloc /\ n.key = c.key <=> n \in c.selected_nodes
    BY <2>1
  <2> QED
    BY <2>2 DEF Grouping!_validate_nodes
<1> QED
  BY <1>1, <1>2, <1>3, PTL DEF AllSpec

-----------------------------------------------------------------------------
(* The configuration: what the validation says of a part, in terms of the  *)
(* names it has.                                                           *)

Lacks(s) == ~ Config!Used(s) \subseteq config[s].nodes

\* A part of a system with the prefix in its names.
WithPrefix(s, v) == [name \in Config!Named(s, DOMAIN v) |-> v[name[2]]]
Prefixed(parts) == [r \in Systems |-> Config!ValuesOf(r, parts[r])]
KeptOf(parts) == Config!Kept(Prefixed(parts))

\* A name of a system is the name of a node if the system has it.
LEMMA NamesOfNodes ==
  ASSUME NEW s \in Systems, NEW n
  PROVE  <<s, n>> \in Config!_nodes <=> n \in config[s].nodes
<1>1. \A r, m : <<r, m>> = <<s, n>> <=> r = s /\ m = n
  OBVIOUS
<1> QED
  BY <1>1 DEF Config!_nodes, Config!Named

\* A part of a system is kept as it is, with its names.
LEMMA KeptParts ==
  ASSUME NEW parts, NEW kept, kept = KeptOf(parts),
         NEW s \in Systems
  PROVE  /\ s \in DOMAIN kept <=> parts[s] # {}
         /\ s \in DOMAIN kept =>
              \E v \in parts[s] : kept[s] = WithPrefix(s, v)
<1> DEFINE values == [r \in Systems |-> Config!ValuesOf(r, parts[r])]
<1>1. kept = [r \in {q \in Systems : values[q] # {}} |-> CHOOSE v \in values[r] : TRUE]
  BY DEF KeptOf, Prefixed, Config!Kept
<1>2. values[s] = {WithPrefix(s, v) : v \in parts[s]}
  BY DEF Config!ValuesOf, WithPrefix
<1>3. values[s] # {} <=> parts[s] # {}
  BY <1>2
<1> HIDE DEF values
<1>4. s \in DOMAIN kept <=> values[s] # {}
  BY <1>1
<1>5. s \in DOMAIN kept => kept[s] \in values[s]
  BY <1>1, <1>4
<1> QED
  BY <1>2, <1>3, <1>4, <1>5

LEMMA KeptSystems ==
  ASSUME NEW parts
  PROVE  DOMAIN KeptOf(parts) \subseteq Systems
BY DEF KeptOf, Prefixed, Config!Kept

\* The names of the part get their prefix, and keep their values.
LEMMA PrefixedNames ==
  ASSUME NEW s, NEW v, NEW n \in DOMAIN v, NEW name, name = <<s, n>>
  PROVE  name \in DOMAIN WithPrefix(s, v) /\ WithPrefix(s, v)[name] = v[n]
<1>1. name \in Config!Named(s, DOMAIN v)
  BY DEF Config!Named
<1>2. name[2] = n
  OBVIOUS
<1> QED
  BY <1>1, <1>2 DEF WithPrefix

LEMMA KeptPart ==
  ASSUME NEW parts, NEW s \in Systems, NEW v \in parts[s], Config!AtMostOne(parts[s])
  PROVE  s \in DOMAIN KeptOf(parts) /\ KeptOf(parts)[s] = WithPrefix(s, v)
<1>k. PICK kept : kept = KeptOf(parts)
  OBVIOUS
<1>1. s \in DOMAIN kept
  BY <1>k, KeptParts
<1>2. PICK w \in parts[s] : kept[s] = WithPrefix(s, w)
  BY <1>1, <1>k, KeptParts
<1>3. w = v
  BY <1>2 DEF Config!AtMostOne
<1> QED
  BY <1>1, <1>2, <1>3, <1>k

\* A name that is kept is one of the part.
LEMMA NamesAreKept ==
  ASSUME NEW parts, NEW kept, kept = KeptOf(parts),
         NEW s \in DOMAIN kept, NEW name \in DOMAIN kept[s]
  PROVE  s \in Systems /\ \E n \in Config!NamesOf(parts[s]) : name = <<s, n>>
<1>1. s \in Systems
  BY KeptSystems
<1>2. PICK w \in parts[s] : kept[s] = WithPrefix(s, w)
  BY <1>1, KeptParts
<1>3. name \in Config!Named(s, DOMAIN w)
  BY <1>2 DEF WithPrefix
<1> QED
  BY <1>1, <1>2, <1>3 DEF Config!Named, Config!NamesOf

\* The names a system uses, part by part.
LEMMA UsedNames ==
  ASSUME NEW s \in Systems, config \in [Systems -> SystemConfigs]
  PROVE  /\ Config!NamesOf(config[s].activation_indicators) \subseteq Config!Used(s)
         /\ config[s].observe \subseteq Config!Used(s)
         /\ {v.node : v \in config[s].set_value} \subseteq Config!Used(s)
         /\ \A a \in {"init", "close", "activate", "deactivate"} :
              Config!NamesOf(config[s].actions[a]) \subseteq Config!Used(s)
<1>1. DOMAIN config[s].actions = {"init", "close", "activate", "deactivate"}
  BY ConfigAssumption DEF Config!ConfigAssumption
<1> QED
  BY <1>1 DEF Config!Used

\* A part with a name that is no node lacks a node.
LEMMA UnknownNameLacks ==
  ASSUME config \in [Systems -> SystemConfigs],
         NEW parts, NEW kept, kept = KeptOf(parts),
         \A r \in Systems : Config!NamesOf(parts[r]) \subseteq Config!Used(r),
         NEW s \in DOMAIN kept, NEW name \in DOMAIN kept[s], name \notin Config!_nodes
  PROVE  \E r \in Systems : Lacks(r)
<1>1. s \in Systems
  BY NamesAreKept
<1>2. PICK n \in Config!NamesOf(parts[s]) : name = <<s, n>>
  BY NamesAreKept
<1>3. n \notin config[s].nodes
  BY <1>1, <1>2, NamesOfNodes
<1>4. n \in Config!Used(s)
  BY <1>1, <1>2
<1> QED
  BY <1>1, <1>3, <1>4 DEF Lacks

LEMMA ErrorsLack ==
  ASSUME config \in [Systems -> SystemConfigs],
         Config!Errors \/ ~ Config!Resolved(Config!_actions("init"))
  PROVE  \E s \in Systems : Lacks(s)
<1> DEFINE acts(a) == [r \in Systems |-> config[r].actions[a]]
           inds == [r \in Systems |-> config[r].activation_indicators]
<1>a. \A a : Config!_actions(a) = Prefixed(acts(a))
  BY DEF Config!_actions, Prefixed
<1>i. Config!_act_indicators = Prefixed(inds)
  BY DEF Config!_act_indicators, Prefixed
<1>u. /\ \A r \in Systems : Config!NamesOf(inds[r]) \subseteq Config!Used(r)
      /\ \A a \in {"init", "close", "activate", "deactivate"} : \A r \in Systems :
           Config!NamesOf(acts(a)[r]) \subseteq Config!Used(r)
  BY UsedNames
<1>1. ASSUME NEW parts, \A r \in Systems : Config!NamesOf(parts[r]) \subseteq Config!Used(r),
             \/ Config!MissingFlat(Prefixed(parts)) # {}
             \/ Config!Missing(Prefixed(parts)) # {}
             \/ ~ Config!Resolved(Prefixed(parts))
      PROVE  \E s \in Systems : Lacks(s)
  <2>k. PICK kept : kept = KeptOf(parts) /\ kept = Config!Kept(Prefixed(parts))
    BY DEF KeptOf
  <2>1. \E s \in DOMAIN kept : \E name \in DOMAIN kept[s] : name \notin Config!_nodes
    BY <1>1, <2>k DEF Config!MissingFlat, Config!Missing, Config!Resolved, Config!Range
  <2> QED
    BY <1>1, <2>k, <2>1, UnknownNameLacks
<1>2. CASE \/ Config!MissingFlat(Config!_actions("init")) # {}
           \/ Config!MissingFlat(Config!_actions("close")) # {}
           \/ Config!Missing(Config!_actions("activate")) # {}
           \/ Config!Missing(Config!_actions("deactivate")) # {}
           \/ ~ Config!Resolved(Config!_actions("init"))
  <2> HIDE DEF acts
  <2> QED
    BY <1>1, <1>2, <1>a, <1>u
<1>3. CASE Config!Missing(Config!_act_indicators) # {}
  <2> HIDE DEF inds
  <2> QED
    BY <1>1, <1>3, <1>i, <1>u
<1>4. CASE ~ Config!_observe \subseteq Config!_nodes
  <2>1. PICK s \in Systems : \E n \in config[s].observe : <<s, n>> \notin Config!_nodes
    BY <1>4 DEF Config!_observe, Config!Named
  <2> QED
    BY <2>1, NamesOfNodes, UsedNames DEF Lacks
<1>5. CASE ~ Config!_set_nodes \subseteq Config!_nodes
  <2>1. PICK s \in Systems :
          \E n \in {v.node : v \in config[s].set_value} : <<s, n>> \notin Config!_nodes
    BY <1>5 DEF Config!_set_nodes, Config!Named
  <2> QED
    BY <2>1, NamesOfNodes, UsedNames DEF Lacks
<1> QED
  BY <1>2, <1>3, <1>4, <1>5 DEF Config!Errors

\* A kept part with a name that is no node is found by each of the three tests, unless the
\* value of the name is 0.
LEMMA PartIsFound ==
  ASSUME NEW parts, NEW s \in Systems, NEW v \in parts[s], Config!AtMostOne(parts[s]),
         NEW n \in DOMAIN v, n \notin config[s].nodes
  PROVE  /\ Config!Missing(Prefixed(parts)) # {}
         /\ ~ Config!Resolved(Prefixed(parts))
         /\ v[n] # 0 => Config!MissingFlat(Prefixed(parts)) # {}
<1>k. PICK kept : kept = KeptOf(parts) /\ kept = Config!Kept(Prefixed(parts))
  BY DEF KeptOf
<1>n. PICK name : name = <<s, n>>
  OBVIOUS
<1>1. s \in DOMAIN kept /\ name \in DOMAIN kept[s] /\ kept[s][name] = v[n] /\ name[1] = s
  <2>1. name[1] = s
    BY <1>n
  <2>2. s \in DOMAIN kept /\ kept[s] = WithPrefix(s, v)
    BY <1>k, KeptPart
  <2>3. name \in DOMAIN WithPrefix(s, v) /\ WithPrefix(s, v)[name] = v[n]
    BY <1>n, PrefixedNames
  <2> QED
    BY <2>1, <2>2, <2>3
<1>2. name \notin Config!_nodes
  BY <1>n, NamesOfNodes
<1>3. s \in Config!Missing(Prefixed(parts))
  BY <1>k, <1>1, <1>2 DEF Config!Missing
<1>4. name \in UNION {DOMAIN w : w \in Config!Range(kept)}
  <2>1. kept[s] \in Config!Range(kept)
    BY <1>1 DEF Config!Range
  <2> QED
    BY <1>1, <2>1
<1>5. ~ Config!Resolved(Prefixed(parts))
  BY <1>k, <1>2, <1>4 DEF Config!Resolved
<1>6. v[n] # 0 => name \in Config!MissingFlat(Prefixed(parts))
  BY <1>k, <1>1, <1>2, <1>4 DEF Config!MissingFlat
<1> QED
  BY <1>3, <1>5, <1>6

LEMMA MadeHasNodes ==
  ASSUME config \in [Systems -> SystemConfigs],
         ~ Config!Errors, Config!Resolved(Config!_actions("init")),
         NEW s \in Systems, NEW n \in Config!Used(s), n \notin config[s].nodes
  PROVE  \E v \in config[s].actions["close"] : n \in DOMAIN v /\ v[n] = 0
<1> DEFINE acts(a) == [r \in Systems |-> config[r].actions[a]]
           inds == [r \in Systems |-> config[r].activation_indicators]
<1>a. \A a : Config!_actions(a) = Prefixed(acts(a)) /\ acts(a)[s] = config[s].actions[a]
  BY DEF Config!_actions, Prefixed
<1>i. Config!_act_indicators = Prefixed(inds) /\ inds[s] = config[s].activation_indicators
  BY DEF Config!_act_indicators, Prefixed
<1> HIDE DEF acts, inds
<1>c. /\ Config!AtMostOne(config[s].activation_indicators)
      /\ DOMAIN config[s].actions = {"init", "close", "activate", "deactivate"}
      /\ \A a \in DOMAIN config[s].actions : Config!AtMostOne(config[s].actions[a])
  BY ConfigAssumption DEF Config!ConfigAssumption
<1>e. /\ Config!MissingFlat(Config!_actions("close")) = {}
      /\ Config!Missing(Config!_actions("activate")) = {}
      /\ Config!Missing(Config!_actions("deactivate")) = {}
      /\ Config!Missing(Config!_act_indicators) = {}
      /\ Config!_observe \subseteq Config!_nodes /\ Config!_set_nodes \subseteq Config!_nodes
  BY DEF Config!Errors
<1>1. n \notin config[s].observe
  <2>1. n \in config[s].observe => <<s, n>> \in Config!_observe
    BY DEF Config!_observe, Config!Named
  <2> QED
    BY <1>e, <2>1, NamesOfNodes
<1>2. n \notin {v.node : v \in config[s].set_value}
  <2>1. n \in {v.node : v \in config[s].set_value} => <<s, n>> \in Config!_set_nodes
    BY DEF Config!_set_nodes, Config!Named
  <2> QED
    BY <1>e, <2>1, NamesOfNodes
<1>3. n \notin Config!NamesOf(config[s].activation_indicators)
  <2> SUFFICES ASSUME NEW v \in config[s].activation_indicators, n \in DOMAIN v PROVE FALSE
    BY DEF Config!NamesOf
  <2> QED
    BY <1>c, <1>e, <1>i, PartIsFound
<1>4. PICK a \in {"init", "close", "activate", "deactivate"} :
        \E v \in config[s].actions[a] : n \in DOMAIN v
  BY <1>1, <1>2, <1>3, <1>c DEF Config!Used, Config!NamesOf
<1>5. PICK v \in config[s].actions[a] : n \in DOMAIN v
  BY <1>4
<1>6. /\ Config!Missing(Config!_actions(a)) # {}
      /\ ~ Config!Resolved(Config!_actions(a))
      /\ v[n] # 0 => Config!MissingFlat(Config!_actions(a)) # {}
  <2>1. v \in acts(a)[s] /\ Config!AtMostOne(acts(a)[s])
    BY <1>a, <1>c
  <2>2. /\ Config!Missing(Prefixed(acts(a))) # {}
        /\ ~ Config!Resolved(Prefixed(acts(a)))
        /\ v[n] # 0 => Config!MissingFlat(Prefixed(acts(a))) # {}
    BY <1>5, <2>1, PartIsFound
  <2> QED
    BY <1>a, <2>2
<1>7. a = "close"
  BY <1>e, <1>6
<1> QED
  BY <1>5, <1>6, <1>7, <1>e

ConfigInv ==
  part = "config" =>
    /\ config \in [Systems -> SystemConfigs]
    /\ Config!RefusedIsIncomplete /\ Config!MadeIsComplete

LEMMA ConfigStep ==
  ASSUME ConfigInv, part = "config", UNCHANGED part, Config!from_dict
  PROVE  ConfigInv'
<1>1. config \in [Systems -> SystemConfigs] /\ config' = config
  BY DEF ConfigInv, Config!from_dict
<1>2. \A s \in Systems : Config!Used(s)' = Config!Used(s)
  BY <1>1 DEF Config!Used
<1>3. CASE Config!Errors \/ ~ Config!Resolved(Config!_actions("init"))
  <2>1. stage' = "refused"
    BY <1>3 DEF Config!from_dict
  <2>2. \E s \in Systems : Lacks(s)
    BY <1>1, <1>3, ErrorsLack
  <2> QED
    BY <1>1, <1>2, <2>1, <2>2
       DEF ConfigInv, Config!RefusedIsIncomplete, Config!MadeIsComplete, Lacks
<1>4. CASE ~ Config!Errors /\ Config!Resolved(Config!_actions("init"))
  <2>1. stage' = "made"
    BY <1>4 DEF Config!from_dict
  <2>2. \A s \in Systems : \A n \in Config!Used(s) : n \notin config[s].nodes =>
          \E v \in config[s].actions["close"] : n \in DOMAIN v /\ v[n] = 0
    BY <1>1, <1>4, MadeHasNodes
  <2> QED
    BY <1>1, <1>2, <2>1, <2>2
       DEF ConfigInv, Config!RefusedIsIncomplete, Config!MadeIsComplete
<1> QED
  BY <1>3, <1>4

\* Whatever is configured for whichever systems: a manager is refused only if a name has no
\* node, and one that is made has a node for every name, but those that close sets to 0.
THEOREM ManagerConfigIsComplete == AllSpec => []ConfigIsComplete
<1>1. AllInit => ConfigInv
  BY DEF AllInit, MakingInit, Config!ConfigInit, ConfigInv, Config!RefusedIsIncomplete,
         Config!MadeIsComplete
<1>2. ConfigInv /\ [AllNext]_allVars => ConfigInv'
  <2> SUFFICES ASSUME ConfigInv, [AllNext]_allVars PROVE ConfigInv'
    OBVIOUS
  <2>1. CASE UNCHANGED <<part, config, stage>>
    BY <2>1 DEF ConfigInv, Config!RefusedIsIncomplete, Config!MadeIsComplete, Config!Used
  <2>2. CASE part # "config" /\ UNCHANGED part
    BY <2>2 DEF ConfigInv
  <2>3. CASE /\ part = "config" /\ UNCHANGED <<part, config>>
             /\ stage' \in {"done", "raised"}
    BY <2>3 DEF ConfigInv, Config!RefusedIsIncomplete, Config!MadeIsComplete
  <2>4. CASE part = "config" /\ UNCHANGED part /\ Config!from_dict
    BY <2>4, ConfigStep
  <2>5. ASSUME NEW s \in Systems, Config!step(s)
        PROVE  UNCHANGED config /\ stage' \in {"done", "raised"}
    BY <2>5 DEF Config!step
  <2>6. Config!close => UNCHANGED config /\ stage' \in {"done", "raised"}
    BY DEF Config!close
  <2> QED
    BY <2>1, <2>2, <2>3, <2>4, <2>5, <2>6
       DEF AllNext, MakingNext, allVars, making, Config!ConfigNext
<1>3. ConfigInv => ConfigIsComplete
  BY DEF ConfigInv, ConfigIsComplete
<1> QED
  BY <1>1, <1>2, <1>3, PTL DEF AllSpec
=============================================================================
