----------------------------- MODULE MCRegistry -----------------------------
(* Model values of Registry for TLC. *)
EXTENDS Registry, TLC

\* Only compared for equality.
Symmetry ==
  Permutations(Calls) \cup Permutations(Users) \cup Permutations(Bastions)
    \cup Permutations(Tokens)
=============================================================================
