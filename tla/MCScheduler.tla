----------------------------- MODULE MCScheduler -----------------------------
(* The scheduler on small instances.                                       *)
EXTENDS Scheduler, TLC

TwoQueues == <<"exists", "order">>
OneQueue  == <<"exists">>

WorkerSymmetry == Permutations(Worker)

=============================================================================
