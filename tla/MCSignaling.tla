---------------------------- MODULE MCSignaling ----------------------------
(* Model values of Signaling for TLC. *)
EXTENDS Signaling, TLC

\* Only compared for equality.  (Requests: Offers is all of them.)
Symmetry ==
  Permutations(Requests) \cup Permutations(Polls) \cup Permutations(Posts)
    \cup Permutations(Bastions) \cup Permutations(Ids)
=============================================================================
