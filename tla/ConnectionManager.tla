------------------------- MODULE ConnectionManager -------------------------
(***************************************************************************)
(* ConnectionManager: step(), activate(), deactivate(), read() and close() *)
(* over the connections of several systems.  A call is a sequence of       *)
(* requests to the connections, each of which may fail; write() and read() *)
(* count the failures of a connection and swallow the first                *)
(* max_error_count of them.                                                *)
(*                                                                         *)
(* A name has its system as a prefix: here, a pair.  Every system has one  *)
(* set value, whose name may differ from that of the node it is written    *)
(* to, and the same kind of indicator nodes, which are also the nodes of   *)
(* its activate and deactivate actions and nothing else.                   *)
(***************************************************************************)
EXTENDS Integers, Sequences, FiniteSets

CONSTANTS
  Systems,           \* the systems of the configuration
  Names,             \* what names have behind their prefix
  Indicators,        \* activation indicators of each system
  compare,           \* the comparison their configuration names
  set_name, set_node,\* the name of each set value, and of its node
  observe,           \* the nodes that are observed
  Connections,       \* self._connections, in the order of the dictionary
  ConnectionOf,      \* the connection of each node,
  IndicatorsAt,      \* and of the indicators of each system
  Readable,          \* the connections that are StatusReadable,
  Writable,          \* and StatusWritable
  Parameters,        \* the dictionaries a caller may pass to step()
  min, max,          \* bounds of the set values
  threshold,         \* activate from here on
  add, mult,         \* scaling of the set values
  close_value,       \* the set values written by close()
  max_error_count,
  NaN,               \* np.nan, which is no number of anybody
  Fails,             \* may a request to a connection fail?
  SelfChanges        \* may a system switch itself on or off?

Conns == {Connections[i] : i \in DOMAIN Connections}
NodeNames == DOMAIN ConnectionOf

ASSUME ManagerAssumption ==
  /\ Indicators # {}
  /\ Connections \in Seq(Conns)
  /\ ConnectionOf \in [NodeNames -> Conns]
  /\ IndicatorsAt \in [Systems -> Conns]
  /\ \A s \in Systems : <<s, set_node>> \in NodeNames
  /\ observe \subseteq NodeNames
  /\ \A p \in Parameters :
       /\ IsFiniteSet(DOMAIN p)
       /\ DOMAIN p \subseteq Systems \X Names
       /\ \A n \in DOMAIN p : p[n] \in Int
  /\ {min, max, threshold, add, mult, close_value} \subseteq Int
  /\ max_error_count \in Nat
  /\ NaN \notin Int
  /\ {Fails, SelfChanges} \subseteq BOOLEAN

VARIABLES
  active,        \* the indicator nodes of each system that show it active
  node_value,    \* the value of each other node
  error_count,   \* self.error_count, by connection
  pc,            \* where the call is
  call,          \* which one it is
  value,         \* the parameter of step()
  todo,          \* the names its loop has not done yet
  node_writes,   \* the values to be written
  idx,           \* the connection write() or read() is at
  result,        \* what read() has collected
  outcome,       \* how the last call ended
  met_failure    \* did a request fail in this call, or a system switch itself?

device == <<active, node_value>>
request == <<call, value>>
vars == <<device, error_count, pc, request, todo, node_writes, idx, result,
          outcome, met_failure>>

InBounds(v) == min <= v /\ v <= max
Scaled(v) == (v + add) * mult
NoWrites == [n \in {} |-> 0]
NoResult == [n \in {} |-> NaN]

\* Is a name that of a set value?  Where does step() write what it is given under it,
\* and what does it write?
IsSetValue(name) == name[2] = set_name
Target(name) == IF IsSetValue(name) THEN <<name[1], set_node>> ELSE name
Written(name) == IF IsSetValue(name) THEN Scaled(value[name]) ELSE value[name]

Init ==
  /\ active \in [Systems -> SUBSET Indicators]
  /\ node_value = [n \in NodeNames |-> close_value]
  /\ error_count = [c \in Conns |-> 0]
  /\ pc = "idle"
  /\ call = "none"
  /\ value = NoWrites
  /\ todo = <<>>
  /\ node_writes = NoWrites
  /\ idx = 1
  /\ result = NoResult
  /\ outcome = "returned"
  /\ met_failure = FALSE

-----------------------------------------------------------------------------
(* The ends of a call, and of a request to a connection *)

Return ==
  /\ pc' = "idle"
  /\ outcome' = "returned"

Raise(error) ==
  /\ pc' = "idle"
  /\ outcome' = error

Succeeds(c) ==
  /\ error_count' = [error_count EXCEPT ![c] = 0]
  /\ UNCHANGED met_failure

\* A failure that is counted and otherwise ignored ...
FailsQuietly(c) ==
  /\ Fails
  /\ error_count[c] < max_error_count
  /\ error_count' = [error_count EXCEPT ![c] = @ + 1]
  /\ met_failure' = TRUE

\* ... and the one that is raised.
FailsLoudly(c) ==
  /\ Fails
  /\ error_count[c] = max_error_count
  /\ met_failure' = TRUE
  /\ UNCHANGED error_count
  /\ Raise("ConnectionError")

-----------------------------------------------------------------------------
(* Calls *)

Begin(c, where) ==
  /\ pc = "idle"
  /\ pc' = where
  /\ call' = c
  /\ idx' = 1
  /\ result' = NoResult
  /\ met_failure' = FALSE
  /\ outcome' = "running"
  /\ UNCHANGED <<device, error_count>>

\* step(): the parameter is a dictionary, so its names come in some order.
step(v) ==
  /\ Begin("step", "check")
  /\ value' = v
  /\ node_writes' = NoWrites
  /\ todo' \in {order \in [1..Cardinality(DOMAIN v) -> DOMAIN v] :
                  {order[i] : i \in DOMAIN order} = DOMAIN v}

activate(s) ==
  /\ Begin("activate", "indicators")
  /\ todo' = << <<s, set_name>> >>
  /\ value' = NoWrites
  /\ node_writes' = NoWrites

deactivate(s) ==
  /\ Begin("deactivate", "indicators")
  /\ todo' = << <<s, set_name>> >>
  /\ value' = NoWrites
  /\ node_writes' = NoWrites

read ==
  /\ Begin("read", "read")
  /\ value' = NoWrites
  /\ node_writes' = NoWrites
  /\ todo' = <<>>

close ==
  /\ Begin("close", "write")
  /\ node_writes' = [n \in {<<s, set_node>> : s \in Systems} |-> close_value]
  /\ value' = NoWrites
  /\ todo' = <<>>

-----------------------------------------------------------------------------
(* The loop of step() over the names of its parameter *)

\* The loop has put the value of the next name into node_writes; a name of the same
\* node before it is overwritten.
Take(name) ==
  /\ node_writes' = [n \in DOMAIN node_writes \cup {Target(name)} |->
                        IF n = Target(name) THEN Written(name) ELSE node_writes[n]]
  /\ todo' = Tail(todo)
  /\ pc' = "check"
  /\ UNCHANGED outcome

\* Mutant: the bounds are not looked at.
CheckUnbounded ==
  /\ pc = "check" /\ todo # <<>> /\ IsSetValue(Head(todo))
  /\ pc' = "indicators"
  /\ UNCHANGED <<device, error_count, request, todo, node_writes, idx, result,
                 outcome, met_failure>>

\* The bounds of a set value.
CheckBounds ==
  /\ pc = "check" /\ todo # <<>> /\ IsSetValue(Head(todo))
  /\ IF InBounds(value[Head(todo)]) THEN pc' = "indicators" /\ UNCHANGED outcome
                                    ELSE Raise("ValueError")
  /\ UNCHANGED <<device, error_count, request, todo, node_writes, idx, result,
                 met_failure>>

\* Any other name is written as it is, also if a set value has its node.
TakeOther ==
  /\ pc = "check" /\ todo # <<>> /\ ~IsSetValue(Head(todo))
  /\ Take(Head(todo))
  /\ UNCHANGED <<device, error_count, request, idx, result, met_failure>>

\* Behind the loop write() sorts what it is given by connection, and knows no
\* connection of a name that is no node.
Sort ==
  /\ pc = "check" /\ todo = <<>>
  /\ IF DOMAIN node_writes \subseteq NodeNames THEN pc' = "write" /\ UNCHANGED outcome
                                               ELSE Raise("KeyError")
  /\ UNCHANGED <<device, error_count, request, todo, node_writes, idx, result,
                 met_failure>>

\* What step() goes on with after the (de)activation of a system; a direct call
\* of activate() or deactivate() returns.
Continue ==
  IF call = "step" THEN Take(Head(todo))
                   ELSE Return /\ UNCHANGED <<node_writes, todo>>

\* Mutant: the value at the threshold and those below it are mixed up.
ToActivateReversed ==
  \/ call = "activate"
  \/ call = "step" /\ value[Head(todo)] <= threshold

\* A set value at or above the threshold activates its system.
ToActivate ==
  \/ call = "activate"
  \/ call = "step" /\ value[Head(todo)] >= threshold

\* _activated(): the indicators are read and compared; one of them is enough.
\* If the read fails quietly the values are NaN, which no comparison likes, and a
\* connection that is not readable leaves them out.
ReadIndicators ==
  /\ pc = "indicators"
  /\ LET s == Head(todo)[1]
         c == IndicatorsAt[s]
         go(activated) ==
           IF compare \in {">=", "<="}             \* no method of that name
             THEN Raise("AttributeError") /\ UNCHANGED <<todo, node_writes>>
           ELSE IF ToActivate # activated
             THEN pc' = "switch" /\ UNCHANGED <<outcome, todo, node_writes>>
             ELSE Continue
     IN  \/ c \in Readable /\ Succeeds(c) /\ go(active[s] # {})
         \/ c \in Readable /\ FailsQuietly(c) /\ go(FALSE)
         \/ c \in Readable /\ FailsLoudly(c) /\ UNCHANGED <<todo, node_writes>>
         \/ /\ c \notin Readable /\ Raise("KeyError")
            /\ UNCHANGED <<error_count, met_failure, todo, node_writes>>
  /\ UNCHANGED <<device, request, idx, result>>

\* The nodes of the action are written one by one; a request that fails may have
\* written some of them.  To a connection that is not writable nothing is written.
Switch ==
  /\ pc = "switch"
  /\ LET s == Head(todo)[1]
         c == IndicatorsAt[s]
         target == IF ToActivate THEN Indicators ELSE {}
         part == {now \in SUBSET Indicators :
                    active[s] \cap target \subseteq now /\ now \subseteq active[s] \cup target}
     IN  \/ /\ c \in Writable /\ Succeeds(c) /\ Continue
            /\ active' = [active EXCEPT ![s] = target]
         \/ /\ c \in Writable
            /\ \/ FailsQuietly(c) /\ Continue
               \/ FailsLoudly(c) /\ UNCHANGED <<todo, node_writes>>
            /\ \E now \in part : active' = [active EXCEPT ![s] = now]
         \/ /\ c \notin Writable /\ Continue
            /\ UNCHANGED <<active, error_count, met_failure>>
  /\ UNCHANGED <<node_value, request, idx, result>>

-----------------------------------------------------------------------------
(* write() and read(): one connection after the other *)

Done == idx > Len(Connections)

\* After the last connection: step() reads, once it has slept.
WriteDone ==
  /\ pc = "write" /\ Done
  /\ IF call = "step" THEN pc' = "read" /\ idx' = 1 /\ UNCHANGED outcome
                      ELSE Return /\ UNCHANGED idx
  /\ UNCHANGED <<device, error_count, request, todo, node_writes, result,
                 met_failure>>

WriteConnection ==
  /\ pc = "write" /\ ~Done
  /\ LET c == Connections[idx]
         group == {n \in DOMAIN node_writes : ConnectionOf[n] = c}
         Set(ns) == node_value' = [n \in NodeNames |-> IF n \in ns THEN node_writes[n]
                                                                  ELSE node_value[n]]
     IN  \/ /\ group = {} \/ c \notin Writable
            /\ UNCHANGED <<node_value, error_count, met_failure, pc, outcome>>
         \/ /\ group # {} /\ c \in Writable
            /\ Succeeds(c) /\ Set(group)
            /\ UNCHANGED <<pc, outcome>>
         \/ /\ group # {} /\ c \in Writable
            /\ \/ FailsQuietly(c) /\ UNCHANGED <<pc, outcome>>
               \/ FailsLoudly(c)
            /\ \E ns \in SUBSET group : ns # group /\ Set(ns)
  /\ idx' = idx + 1
  /\ UNCHANGED <<active, request, todo, node_writes, result>>

ReadDone ==
  /\ pc = "read" /\ Done
  /\ Return
  /\ UNCHANGED <<device, error_count, request, todo, node_writes, idx, result,
                 met_failure>>

\* Mutant: a connection that fails leaves its nodes out.
ReadConnectionWithoutNaN ==
  /\ pc = "read" /\ ~Done
  /\ LET c == Connections[idx]
         group == {n \in observe : ConnectionOf[n] = c}
     IN  \/ /\ c \in Readable /\ Succeeds(c) /\ UNCHANGED <<pc, outcome>>
            /\ result' = [n \in DOMAIN result \cup group |->
                            IF n \in group THEN node_value[n] ELSE result[n]]
         \/ c \in Readable /\ FailsQuietly(c) /\ UNCHANGED <<pc, outcome, result>>
         \/ c \notin Readable /\ UNCHANGED <<error_count, met_failure, pc, outcome, result>>
  /\ idx' = idx + 1
  /\ UNCHANGED <<device, request, todo, node_writes>>

\* A connection that is not readable is asked for nothing.
ReadConnection ==
  /\ pc = "read" /\ ~Done
  /\ LET c == Connections[idx]
         group == {n \in observe : ConnectionOf[n] = c}
         Got(answer) == result' = [n \in DOMAIN result \cup group |->
                                     IF n \in group THEN answer[n] ELSE result[n]]
     IN  \/ /\ group = {} \/ c \notin Readable
            /\ UNCHANGED <<error_count, met_failure, pc, outcome, result>>
         \/ /\ group # {} /\ c \in Readable
            /\ Succeeds(c) /\ Got(node_value)
            /\ UNCHANGED <<pc, outcome>>
         \/ /\ group # {} /\ c \in Readable
            /\ FailsQuietly(c) /\ Got([n \in group |-> NaN])
            /\ UNCHANGED <<pc, outcome>>
         \/ /\ group # {} /\ c \in Readable
            /\ FailsLoudly(c) /\ UNCHANGED result
  /\ idx' = idx + 1
  /\ UNCHANGED <<device, request, todo, node_writes>>

-----------------------------------------------------------------------------
\* A system goes on or off by itself.
SelfChange ==
  /\ SelfChanges
  /\ \E s \in Systems, now \in {{}, Indicators} :
       active' = [active EXCEPT ![s] = now]
  /\ met_failure' = TRUE
  /\ UNCHANGED <<node_value, error_count, pc, request, todo, node_writes, idx,
                 result, outcome>>

Running ==
  \/ CheckBounds \/ TakeOther \/ Sort \/ ReadIndicators \/ Switch
  \/ WriteConnection \/ WriteDone \/ ReadConnection \/ ReadDone

Next ==
  \/ \E v \in Parameters : step(v)
  \/ \E s \in Systems : activate(s) \/ deactivate(s)
  \/ read \/ close
  \/ Running
  \/ SelfChange

Spec == Init /\ [][Next]_vars

-----------------------------------------------------------------------------
(* Properties *)

\* Types of the variables of the manager, its call and its systems.
TypeOK ==
  /\ active \in [Systems -> SUBSET Indicators]
  /\ node_value \in [NodeNames -> Int]
  /\ error_count \in [Conns -> 0..max_error_count]
  /\ pc \in {"idle", "check", "indicators", "switch", "write", "read"}
  /\ call \in {"none", "step", "activate", "deactivate", "read", "close"}
  /\ DOMAIN value \subseteq Systems \X Names
  /\ \A n \in DOMAIN value : value[n] \in Int
  /\ \A n \in DOMAIN node_writes : node_writes[n] \in Int
  /\ idx \in 1..(Len(Connections) + 1)
  /\ DOMAIN result \subseteq observe
  /\ outcome \in {"running", "returned", "ValueError", "KeyError", "ConnectionError",
                  "AttributeError"}
  /\ met_failure \in BOOLEAN

\* What step() or close() may make of a node: with one set value of its parameter out of
\* bounds a step writes nothing; otherwise a node gets what is written for one of the
\* names with that target, and only through a connection that is writable.
Justified(n, v) ==
  /\ ConnectionOf[n] \in Writable
  /\ \/ call = "close" /\ n[2] = set_node /\ v = close_value
     \/ /\ call = "step"
        /\ \A m \in DOMAIN value : IsSetValue(m) => InBounds(value[m])
        /\ \E m \in DOMAIN value : Target(m) = n /\ Written(m) = v

\* No set value that is out of bounds is ever written, nor anything else of its step,
\* whatever order the names came in and whatever failed.  The node of a set value has a
\* value that is scaled and in bounds, or was given to step() under the name of the
\* node itself, for which there are no bounds.
BoundsHold ==
  [][\A n \in NodeNames : node_value'[n] # node_value[n] => Justified(n, node_value'[n])]_vars

StepReturned == pc = "idle" /\ call = "step" /\ outcome = "returned"

\* A step that returns without having met a failure has given every node of its
\* parameter the value of one of the names that have it as target, and has seen to it
\* that a system is active as its set value demands: some indicator says so from the
\* threshold on, none below it; if the connections are writable.
StepTakesEffect ==
  StepReturned /\ ~met_failure =>
    \A m \in DOMAIN value :
      /\ ConnectionOf[Target(m)] \in Writable =>
           \E k \in DOMAIN value :
             Target(k) = Target(m) /\ node_value[Target(m)] = Written(k)
      /\ IsSetValue(m) /\ IndicatorsAt[m[1]] \in Writable =>
           (active[m[1]] # {} <=> value[m] >= threshold)

\* "If the result of all comparisons is True, the system is considered to be currently
\* active": then a step with a set value from the threshold on leaves all of them true.
ActiveByAllComparisons ==
  StepReturned /\ ~met_failure =>
    \A m \in DOMAIN value :
      IsSetValue(m) /\ value[m] >= threshold /\ IndicatorsAt[m[1]] \in Writable =>
        active[m[1]] = Indicators

\* A step or read that returns has an answer for every observed node of a connection
\* that is readable, and for no other: what the node has, or NaN; and no NaN if no
\* request failed.
AnswersAreCurrent ==
  pc = "idle" /\ call \in {"step", "read"} /\ outcome = "returned" =>
    /\ DOMAIN result = {n \in observe : ConnectionOf[n] \in Readable}
    /\ \A n \in DOMAIN result : result[n] = node_value[n] \/ (met_failure /\ result[n] = NaN)
=============================================================================
