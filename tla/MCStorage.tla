----------------------------- MODULE MCStorage -----------------------------
(***************************************************************************)
(* Storage on small instances: five values in a file with a buffer of two  *)
(* rows, whose size is exceeded by the first row, and three values of two  *)
(* threads in a table of two rows.  One of the two names has white space,  *)
(* without which it is the other one.                                      *)
(***************************************************************************)
EXTENDS Storage, TLC

CONSTANTS n1, n2

WithoutSpace == [n \in Names |-> n2]

Symmetry == Permutations(Pushers) \cup Permutations(Timestamps)
=============================================================================
