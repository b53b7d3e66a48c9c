----------------------- MODULE MCModbusSubscription -----------------------
(* ModbusSubscription on a small instance. *)
EXTENDS ModbusSubscription, TLC

Symmetry == Permutations(Nodes \ Invalid)
=============================================================================
