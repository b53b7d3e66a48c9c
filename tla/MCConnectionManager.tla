------------------------ MODULE MCConnectionManager ------------------------
(***************************************************************************)
(* Management on small instances.  Of the manager's three systems one can  *)
(* be read and written, one only read, and one only written.               *)
(***************************************************************************)
EXTENDS Management, TLC

CONSTANTS s1, s2, s3, c1, c2, c3

AllConnections == <<c1, c2, c3>>
IndicatorConnections == (s1 :> c1) @@ (s2 :> c2) @@ (s3 :> c3)

\* The first system has nodes at two connections; the name of its set value is not that
\* of its node.
NodeConnections ==
  (<<s1, "node">> :> c1) @@ (<<s1, "more">> :> c3) @@ (<<s2, "node">> :> c1) @@ (<<s3, "node">> :> c3)
Observed == {<<s1, "node">>, <<s2, "node">>, <<s3, "node">>}

\* Set values below, at and above the threshold, and one out of bounds; one of two
\* systems, or beside another name of its own node; another node; a name without a node.
SomeParameters ==
  LET set(s) == <<s, "set">>
  IN  {set(s1) :> 1, set(s3) :> 3,
       (set(s1) :> 2) @@ (set(s2) :> 1), (set(s1) :> 1) @@ (set(s2) :> 4),
       (set(s1) :> 3) @@ (<<s1, "node">> :> 4), (set(s2) :> 3) @@ (<<s1, "more">> :> 1),
       (set(s1) :> 2) @@ (<<s1, "none">> :> 1)}

\* Configurations with and without each part, and with each part naming a node that is
\* missing in some of them; one system or the other.
NoActions == [a \in {"init", "close", "activate", "deactivate"} |-> {}]
Actions ==
  {NoActions,
   [NoActions EXCEPT !["init"] = {"m" :> 1}],
   [NoActions EXCEPT !["close"] = {("n" :> 1) @@ ("m" :> 0)}],
   [NoActions EXCEPT !["activate"] = {"m" :> 0}],
   [NoActions EXCEPT !["activate"] = {"n" :> 1}, !["deactivate"] = {"n" :> 0}]}
SomeConfigs ==
  [nodes : {{"n"}, {"n", "m"}}, set_value : {{[node |-> "n"]}}, observe : {{}, {"n", "m"}},
   actions : Actions, activation_indicators : {{}, {"n" :> "=="}, {"m" :> ">="}}]

\* Two protocols on one host, two databases on it, another host.
SomeNodes ==
  [protocol : {"modbus", "emonio"}, netloc : {"h"}, key : {None}]
    \cup [protocol : {"influx"}, netloc : {"h"}, key : {"k1", "k2"}]
    \cup [protocol : {"modbus"}, netloc : {"g"}, key : {None}]
=============================================================================
