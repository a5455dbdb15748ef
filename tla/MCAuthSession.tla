--------------------------- MODULE MCAuthSession ---------------------------
(* Instances of AuthSession for TLC. *)
EXTENDS AuthSession, TLC
Symmetry == Permutations(Accounts) \cup Permutations(Slots)
============================================================================
