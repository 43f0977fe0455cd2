------------------------------ MODULE MCCarrier ------------------------------
(* The carrier on small instances.                                         *)
EXTENDS Carrier, TLC

ThreadSymmetry == Permutations(Thread)

=============================================================================
