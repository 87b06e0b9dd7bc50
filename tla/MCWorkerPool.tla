---------------------------- MODULE MCWorkerPool ----------------------------
(* WorkerPool on small instances: constants for TLC and, for the runs without *)
(* liveness, the symmetry of the worker identities.                           *)
EXTENDS WorkerPool, TLC

WorkerSymmetry == Permutations(Worker)
=============================================================================
