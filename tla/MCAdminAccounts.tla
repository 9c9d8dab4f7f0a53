--------------------------- MODULE MCAdminAccounts ---------------------------
(* An instance of AdminAccounts for TLC. *)
EXTENDS AdminAccounts, TLC

Symmetry == Permutations(Admins)
=============================================================================
