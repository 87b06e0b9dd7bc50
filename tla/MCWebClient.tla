---------------------------- MODULE MCWebClient ----------------------------
(* WebClient on small instances; the calls are interchangeable. *)
EXTENDS WebClient, TLC

ThreadSymmetry == Permutations(Thread)

\* Bounds: once actions overlapped or a request failed, one call at a time; and with
\* results that have cards, two calls once background calls overlapped with actions.
\* A Run that has no cards fails.
Apart ==
  LET plain == \A r \in Run : ~run[r].cards /\ ~run[r].succeeded
  IN  /\ overlap = "disturbed" => plain /\ Cardinality(Free) >= Cardinality(Thread) - 1
      /\ \A r \in Run : run[r].succeeded => run[r].cards
      /\ overlap = "background" => plain \/ Free # {}
=============================================================================
