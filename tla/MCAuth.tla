------------------------------- MODULE MCAuth -------------------------------
(* Model values of Auth for TLC. *)
EXTENDS Auth

CONSTANTS k1, k2

\* A token of each key, one of which expires, and one with a bad signature.
MCTokens ==
  {[kid |-> k1, exp |-> 0, genuine |-> TRUE],
   [kid |-> k2, exp |-> 2, genuine |-> TRUE],
   [kid |-> k2, exp |-> 0, genuine |-> FALSE]}
=============================================================================
