-------------------------- MODULE MCWorkerManager --------------------------
(* WorkerManager for TLC: callers and plans are interchangeable.            *)
EXTENDS WorkerManager, TLC

ManagerSymmetry == Permutations(Callers) \cup Permutations(Plans)
=============================================================================
