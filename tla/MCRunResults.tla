---------------------------- MODULE MCRunResults ----------------------------
(* RunResults on a small instance: three versions of one plan. *)
EXTENDS RunResults

\* Bound: at most one of the Runs is retried, cancelled or ends without answer.
OneTroubled ==
  Cardinality({r \in Run : \/ run[r].attempt > 1 \/ run[r].cancel_requested
                           \/ run[r].status \in {"FAILED", "CANCELLED"}}) <= 1
=============================================================================
