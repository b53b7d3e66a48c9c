----------------------------- MODULE Connections -----------------------------
(***************************************************************************)
(* Connection.from_nodes and from_node: nodes are put together in          *)
(* connections by their connection_identifier, and a connection takes the  *)
(* nodes it reads through _validate_nodes.                                 *)
(*                                                                         *)
(* A node is a record of its protocol, its netloc and its extra equality   *)
(* key, None where nodes of the protocol have none; credentials are left   *)
(* out.                                                                    *)
(***************************************************************************)
EXTENDS Functions, SequencesExt, FiniteSetsExt

CONSTANTS
  Nodes,          \* the nodes there are
  None

VARIABLES
  stage,          \* "idle", "grouping", "grouped", "raised"
  call,           \* the nodes left, in the order of the list or set
  connections     \* the connections made, by their identifier

vars == <<stage, call, connections>>

ConnectionsInit ==
  /\ stage = "idle"
  /\ call = <<>>
  /\ connections = <<>>

-----------------------------------------------------------------------------
\* Mutant: the key is not part of it.
netloc_only(n) == <<n.netloc>>

\* Which protocol a node has is not part of it.
connection_identifier(n) == IF n.key = None THEN <<n.netloc>> ELSE <<n.netloc, n.key>>

\* The connection of the protocol of the node, for its netloc and with its key.
_from_node(n) ==
  [protocol |-> n.protocol, netloc |-> n.netloc, key |-> n.key, selected_nodes |-> {n}]

\* _validate_nodes leaves out the nodes that do not fit.
_validate_nodes(c, nodes) ==
  {n \in nodes : n.protocol = c.protocol /\ n.netloc = c.netloc /\ n.key = c.key}

\* A node of a connection that is there is added to it as it is.
Added(n) ==
  LET id == connection_identifier(n)
  IN  IF id \in DOMAIN connections THEN [connections EXCEPT ![id].selected_nodes = @ \cup {n}]
      ELSE [i \in DOMAIN connections \cup {id} |->
              IF i = id THEN _from_node(n) ELSE connections[i]]

from_nodes(nodes) ==
  /\ stage = "idle"
  /\ stage' = "grouping"
  /\ call' = nodes
  /\ UNCHANGED connections

\* All nodes must be of one connection.
from_node(nodes) ==
  /\ stage = "idle"
  /\ stage' = IF Cardinality({connection_identifier(n) : n \in Range(nodes)}) = 1
                THEN "grouping" ELSE "raised"
  /\ call' = nodes
  /\ UNCHANGED connections

Group ==
  /\ stage = "grouping" /\ call # <<>>
  /\ connections' = Added(Head(call))
  /\ call' = Tail(call)
  /\ UNCHANGED stage

Return ==
  /\ stage = "grouping" /\ call = <<>>
  /\ stage' = "grouped"
  /\ UNCHANGED <<call, connections>>

ConnectionsNext ==
  \/ \E nodes \in (SUBSET Nodes) \ {{}} : \E order \in SetToSeqs(nodes) :
       from_nodes(order) \/ from_node(order)
  \/ Group \/ Return

-----------------------------------------------------------------------------
(* Properties *)

\* The two ways to tell whether a node belongs to a connection agree: a connection has
\* every node it would accept, and accepts those it has that are of its protocol.
GroupsAreAccepted ==
  stage = "grouped" =>
    \A id \in DOMAIN connections :
      LET c == connections[id]
          grouped == UNION {connections[i].selected_nodes : i \in DOMAIN connections}
      IN  _validate_nodes(c, grouped) = {n \in c.selected_nodes : n.protocol = c.protocol}

\* "Make sure that all nodes correspond to the connection".
SelectedFit ==
  stage = "grouped" =>
    \A id \in DOMAIN connections :
      _validate_nodes(connections[id], connections[id].selected_nodes)
        = connections[id].selected_nodes
=============================================================================
