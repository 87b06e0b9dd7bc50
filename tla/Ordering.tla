------------------------------ MODULE Ordering ------------------------------
(***************************************************************************)
(* How the planner orders, chooses and rounds: Python's sort, min, list     *)
(* comprehensions with a condition, and round.  Orders and keys are         *)
(* functions.                                                               *)
(***************************************************************************)
EXTENDS Integers, Sequences, SequencesExt

\* Lexicographic order of pairs, the tuples the code sorts and minimises by.
Before(a, b) == a[1] < b[1] \/ (a[1] = b[1] /\ a[2] < b[2])

\* Python's round of amount / unit: to the nearest whole number, halves to the even one.
Rounded(amount, unit) ==
  LET whole == amount \div unit
      twice == 2 * (amount % unit)
  IN  IF twice > unit \/ (twice = unit /\ whole % 2 = 1) THEN whole + 1 ELSE whole

\* The elements of S in order, earlier[x] being those that come before x.
Sorted(S, earlier) ==
  [n \in 1..Cardinality(S) |-> CHOOSE x \in S : Cardinality(earlier[x]) = n - 1]

Ascending(S) == Sorted(S, [x \in S |-> {y \in S : y < x}])

\* The elements of seq at the positions of S.
PartOf(seq, S) ==
  LET positions == Ascending(S) IN [n \in DOMAIN positions |-> seq[positions[n]]]

\* The first element of a sequence whose key (a pair) is least: Python's min.
FirstMin(seq, key) ==
  seq[CHOOSE i \in DOMAIN seq : \A j \in DOMAIN seq \ {i} :
        \/ Before(key[seq[i]], key[seq[j]])
        \/ i < j /\ ~Before(key[seq[j]], key[seq[i]])]
=============================================================================
