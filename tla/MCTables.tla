------------------------------ MODULE MCTables ------------------------------
(* The tables on small instances.                                          *)
EXTENDS Tables, TLC

ThreadSymmetry == Permutations(Thread)

=============================================================================
