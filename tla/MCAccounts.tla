----------------------------- MODULE MCAccounts -----------------------------
(* Accounts on small instances: constants for TLC and the symmetry of tabs    *)
(* and users.                                                                 *)
EXTENDS Accounts, TLC

AccountsSymmetry == Permutations(Tab) \cup Permutations(User)
=============================================================================
