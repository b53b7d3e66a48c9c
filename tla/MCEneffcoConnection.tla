------------------------ MODULE MCEneffcoConnection ------------------------
(* EneffcoConnection on a small instance. *)
EXTENDS EneffcoConnection

CONSTANTS h1, h2
TwoHandlers == <<h1, h2>>
=============================================================================
