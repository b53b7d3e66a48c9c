---------------------- MODULE MCCsvSubscriptionHandler ----------------------
(* CsvSubscriptionHandler on a small instance. *)
EXTENDS CsvSubscriptionHandler, TLC

Symmetry == Permutations(Pushers)
=============================================================================
