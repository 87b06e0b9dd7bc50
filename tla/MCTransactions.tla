--------------------------- MODULE MCTransactions ---------------------------
(* Transactions on small instances: constants for TLC and the symmetry of    *)
(* workers, sessions and connections.                                        *)
EXTENDS Transactions, TLC

TransactionSymmetry ==
  Permutations(Worker) \cup Permutations(Session) \cup Permutations(Conn)
=============================================================================
