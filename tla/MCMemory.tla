------------------------------ MODULE MCMemory ------------------------------
(* Memory on small instances; callers are interchangeable. *)
EXTENDS Memory, Naturals, TLC

CallerSymmetry == Permutations(Caller)

\* Bounds: three rows at a time; once calls overlap or copies are lost, two rows
\* without edits or one with.
FewRows ==
  LET rows == {k \in Key : memory[k].status # "ABSENT"}
      edited == \/ \E k \in Key : memory[k].content = "edited"
                \/ \E c \in Caller : caller[c].wanted.content = "edited"
  IN Cardinality(rows) <= CASE orderly -> 3
                            [] ~orderly /\ ~edited -> 2
                            [] ~orderly /\ edited -> 1
=============================================================================
