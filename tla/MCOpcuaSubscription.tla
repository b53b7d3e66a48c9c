------------------------ MODULE MCOpcuaSubscription ------------------------
(* OpcuaSubscription on a small instance. *)
EXTENDS OpcuaSubscription, TLC

Symmetry == Permutations(Nodes)
=============================================================================
