----------------------------- MODULE Management -----------------------------
(***************************************************************************)
(* A ConnectionManager from its configuration to its calls: how it is made *)
(* from a configuration, how connections are made for its nodes, or its    *)
(* calls.  A behavior is one of these, chosen at the start.                *)
(***************************************************************************)
EXTENDS ConnectionManager

CONSTANTS
  SystemConfigs,   \* what may be configured for one of the systems
  Nodes,           \* the nodes connections may be made for
  None             \* the key of a node whose protocol has none

VARIABLES
  part,                           \* which one
  stage, config, manager, called, \* of ManagerConfig
  left, connections               \* of Connections

making == <<stage, config, manager, called>>
grouping == <<left, connections>>
allVars == <<part, vars, making, grouping>>

Config == INSTANCE ManagerConfig
Grouping == INSTANCE Connections WITH call <- left

ASSUME ConfigAssumption == Config!ConfigAssumption

-----------------------------------------------------------------------------
NoConfig == config = <<>> /\ manager = <<>> /\ called = {}
NoGroups == left = <<>> /\ connections = <<>>

MakingInit ==
  /\ Init /\ active = [s \in Systems |-> {}]
  /\ \/ part = "config" /\ Config!ConfigInit /\ NoGroups
     \/ part = "connections" /\ Grouping!ConnectionsInit /\ NoConfig

MakingNext ==
  /\ UNCHANGED <<part, vars>>
  /\ \/ part = "config" /\ Config!ConfigNext /\ UNCHANGED grouping
     \/ part = "connections" /\ Grouping!ConnectionsNext /\ UNCHANGED <<config, manager, called>>

MakingSpec == MakingInit /\ [][MakingNext]_allVars

AllInit ==
  \/ MakingInit
  \/ part = "calls" /\ Init /\ stage = "idle" /\ NoConfig /\ NoGroups

AllNext ==
  \/ MakingNext
  \/ part = "calls" /\ Next /\ UNCHANGED <<part, making, grouping>>

AllSpec == AllInit /\ [][AllNext]_allVars

-----------------------------------------------------------------------------
(* Properties of the configuration and of the connections *)

\* A manager is refused for a name of its configuration without a node and for nothing
\* else, and one that is made has a node for every name, but for those that close sets
\* to 0.
ConfigIsComplete == part = "config" => Config!RefusedIsIncomplete /\ Config!MadeIsComplete

\* "If activation_indicators are specified, read them and identify the status, otherwise
\* the system is considered to be always active": a system can make a step.
SystemsCanStep == part = "config" => Config!SystemsCanStep

\* The two ways to tell whether a node belongs to a connection agree: a connection
\* made by from_node or from_nodes has every node that its _validate_nodes would
\* accept, and accepts those it has that are of its protocol.
GroupsAreAccepted == part = "connections" => Grouping!GroupsAreAccepted
=============================================================================
