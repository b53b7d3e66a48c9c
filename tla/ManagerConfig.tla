---------------------------- MODULE ManagerConfig ----------------------------
(***************************************************************************)
(* How a ConnectionManager is made from a configuration of several         *)
(* systems, and which of the names in it a step or a close then looks up.  *)
(* ConnectionManager.tla has the steps themselves, for systems that are    *)
(* configured completely.                                                  *)
(*                                                                         *)
(* A name has its system as a prefix: here, a pair.  A part of the          *)
(* configuration that is left out is {}, otherwise it is a set with the    *)
(* part as its element.                                                    *)
(***************************************************************************)
EXTENDS FiniteSets, Functions

CONSTANTS
  Systems,        \* the systems of the configuration
  SystemConfigs   \* what may be configured for one of them

AtMostOne(part) == \A v, w \in part : v = w

ConfigAssumption ==
  \A c \in SystemConfigs :
    /\ AtMostOne(c.activation_indicators)
    /\ DOMAIN c.actions = {"init", "close", "activate", "deactivate"}
    /\ \A a \in DOMAIN c.actions : AtMostOne(c.actions[a])

VARIABLES
  stage,          \* "config", "made" or "refused", then "done" or "raised" of a call
  config,         \* the configuration of each system
  manager,        \* the attributes of the ConnectionManager
  called          \* the system of the step, after one

vars == <<stage, config, manager, called>>

ConfigInit ==
  /\ stage = "config"
  /\ config \in [Systems -> SystemConfigs]
  /\ manager = <<>>
  /\ called = {}

-----------------------------------------------------------------------------
(* _read_config: names get their prefix. *)

Named(s, names) == {<<s, n>> : n \in names}
ValuesOf(s, part) == {[name \in Named(s, DOMAIN v) |-> v[name[2]]] : v \in part}

\* What a part of the configuration is for each system.
_actions(action) == [s \in Systems |-> ValuesOf(s, config[s].actions[action])]
_act_indicators == [s \in Systems |-> ValuesOf(s, config[s].activation_indicators)]
_observe == UNION {Named(s, config[s].observe) : s \in Systems}
_nodes == UNION {Named(s, config[s].nodes) : s \in Systems}
_set_nodes == UNION {Named(s, {v.node : v \in config[s].set_value}) : s \in Systems}

-----------------------------------------------------------------------------
(* _read_value_mapping and _init_config_nodes *)

\* The systems that have the part, or with flatten the values of all of them.
Kept(values) ==
  LET having == {s \in Systems : values[s] # {}}
  IN  [s \in having |-> CHOOSE v \in values[s] : TRUE]

\* The systems that name something that is no node.
Missing(values) ==
  {s \in DOMAIN Kept(values) : ~ DOMAIN Kept(values)[s] \subseteq _nodes}

\* With flatten, a value that is 0 passes for one that is not there.
MissingFlat(values) ==
  {name \in UNION {DOMAIN v : v \in Range(Kept(values))} :
     name \notin _nodes /\ Kept(values)[name[1]][name] # 0}

\* Mutant: only the last part decides.
LastErrors == Missing(_act_indicators) # {}

Errors ==
  \/ MissingFlat(_actions("init")) # {} \/ MissingFlat(_actions("close")) # {}
  \/ Missing(_actions("activate")) # {} \/ Missing(_actions("deactivate")) # {}
  \/ Missing(_act_indicators) # {}
  \/ ~ _observe \subseteq _nodes \/ ~ _set_nodes \subseteq _nodes

\* write looks up the node and the connection of every name.
Resolved(values) == UNION {DOMAIN v : v \in Range(Kept(values))} \subseteq _nodes

-----------------------------------------------------------------------------
\* from_dict and __init__, which ends with the values for init.
from_dict ==
  /\ stage = "config"
  /\ IF Errors \/ ~Resolved(_actions("init"))
       THEN stage' = "refused" /\ UNCHANGED manager
       ELSE /\ stage' = "made"
            /\ manager' = [activate |-> Kept(_actions("activate")),
                           deactivate |-> Kept(_actions("deactivate")),
                           indicators |-> Kept(_act_indicators)]
  /\ UNCHANGED <<config, called>>

\* _activated: without indicators of any system, each one is active.
Knows(s) == manager.indicators = <<>> \/ s \in DOMAIN manager.indicators

\* The names of the comparisons for >= and <= are no methods.
Compares(s) ==
  s \in DOMAIN manager.indicators =>
    \A c \in Range(manager.indicators[s]) : c \in {"==", ">", "<"}

Activated(s) == IF s \in DOMAIN manager.indicators THEN BOOLEAN ELSE {TRUE}

\* step for the set value of a system: activate or deactivate look up its actions,
\* if any system has some.
Looks(s, on, active) ==
  CASE on /\ ~active -> manager.activate = <<>> \/ s \in DOMAIN manager.activate
    [] ~on /\ active -> manager.deactivate = <<>> \/ s \in DOMAIN manager.deactivate
    [] OTHER -> TRUE

step(s) ==
  /\ stage = "made" /\ config[s].set_value # {}
  /\ \E on \in BOOLEAN :
       IF ~Knows(s) \/ ~Compares(s) THEN stage' = "raised"
       ELSE \E active \in Activated(s) :
              stage' = IF Looks(s, on, active) THEN "done" ELSE "raised"
  /\ called' = {s}
  /\ UNCHANGED <<config, manager>>

close ==
  /\ stage = "made"
  /\ stage' = IF Resolved(_actions("close")) THEN "done" ELSE "raised"
  /\ UNCHANGED <<config, manager, called>>

ConfigNext ==
  \/ from_dict
  \/ \E s \in Systems : step(s)
  \/ close

-----------------------------------------------------------------------------
(* Properties *)

\* The names a part of the configuration has.
NamesOf(part) == UNION {DOMAIN v : v \in part}
Used(s) ==
  NamesOf(config[s].activation_indicators) \cup config[s].observe
    \cup {v.node : v \in config[s].set_value}
    \cup UNION {NamesOf(config[s].actions[a]) : a \in DOMAIN config[s].actions}

\* A manager is refused for a name without a node, and for nothing else ...
RefusedIsIncomplete ==
  stage = "refused" => \E s \in Systems : ~ Used(s) \subseteq config[s].nodes

\* ... and one that is made has a node for every name, but those that close sets to 0.
MadeIsComplete ==
  stage = "made" =>
    \A s \in Systems :
      Used(s) \ config[s].nodes \subseteq
        UNION {{n \in DOMAIN v : v[n] = 0} : v \in config[s].actions["close"]}

\* "If activation_indicators are specified, read them and identify the status, otherwise
\* the system is considered to be always active": a system can make a step.
SystemsCanStep == called # {} => stage # "raised"
=============================================================================
