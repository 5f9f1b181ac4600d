---------------------------- MODULE MCCandidates ----------------------------
(* Instances of Candidates for TLC: one connection of a bastion, one of a   *)
(* client.                                                                  *)
EXTENDS Candidates

PollsOf == [p1 |-> "bastion", p2 |-> "client"]

\* The bastion asks with its own id, as in signaling_test.go, the client with
\* its own or, as the doc of signalingPollCandidates has it, with the bastion's.
AsksAny == {<<"bastion", "bastion">>, <<"client", "client">>, <<"client", "bastion">>}
=============================================================================
