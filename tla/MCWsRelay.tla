----------------------------- MODULE MCWsRelay -----------------------------
(* Model values of WsRelay for TLC. *)
EXTENDS WsRelay, TLC

\* Connections and rooms are only compared for equality.
Symmetry == Permutations(Conns) \cup Permutations(RoomIds)
=============================================================================
