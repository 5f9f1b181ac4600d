---------------------------- MODULE Candidates ----------------------------
(***************************************************************************)
(* Trickled ICE candidates (src/cmd/chepherd-relay/main.go): a peer posts  *)
(* a candidate under the id of another peer (signalingPostCandidate),      *)
(* the relay puts it in the queue of that id, and a long poll of the queue *)
(* (signalingPollCandidates) waits for one candidate and then drains       *)
(* whatever else is immediately available.                                 *)
(*                                                                         *)
(* The relay does not know who polls: it hands the queue of the id in      *)
(* ?bastion_id= to any caller.  Of[p] is the peer at the other end of a    *)
(* connection, which may be another than the one whose id it asks with;    *)
(* Asks says which peer asks with which id (two readings are in the        *)
(* source: a peer's own id, and that of the other side).                   *)
(*                                                                         *)
(* A step is one channel operation, so posts and other polls run between   *)
(* the receives of a drain.  Timers may fire at any moment a handler       *)
(* waits.  A call of signalingPostCandidate names its candidate; queues    *)
(* are made on first use and never removed, so candidateQueues is total.   *)
(***************************************************************************)
EXTENDS Naturals, Sequences, FiniteSets, SequencesExt

CONSTANTS
  Cands,      \* candidates, one per call of signalingPostCandidate
  Polls,      \* connections of polls, one call after the other
  Peers,      \* bastions and clients, and their ids
  Of,         \* Of[p] is the peer that polls on connection p
  Asks,       \* pairs of a peer and an id it polls with
  QueueCap,   \* capacity of a candidate queue (32 in the code)
  None

ASSUME CandidatesAssumption ==
  /\ QueueCap \in Nat \ {0}
  /\ None \notin Cands \cup Polls \cup Peers
  /\ "lost" \notin Peers \cup {None}
  /\ Of \in [Polls -> Peers]
  /\ Asks \subseteq Peers \X Peers

VARIABLES
  candidateQueues,  \* peer id -> queue
  pc,               \* where the handler of a post is, or its status
  to,               \* the id a candidate is posted for
  poll,             \* the id a poll asks with, None between calls
  out,              \* candidates a poll has received
  gone,             \* polls whose connection broke
  order,            \* history: candidates by queue, in the order they entered
  got               \* history: the peer that received a candidate

vars == <<candidateQueues, pc, to, poll, out, gone, order, got>>

TypeOK ==
  /\ candidateQueues \in [Peers -> Seq(Cands)]
  /\ \A s \in Peers : Len(candidateQueues[s]) <= QueueCap
  /\ pc \in [Cands -> {"new", "send", "204", "400", "503"}]
  /\ to \in [Cands -> Peers \cup {None}]
  /\ poll \in [Polls -> Peers \cup {None}]
  /\ out \in [Polls -> Seq(Cands)]
  /\ gone \subseteq Polls
  /\ order \in [Peers -> Seq(Cands)]
  /\ got \in [Cands -> Peers \cup {None, "lost"}]
  /\ \A p \in Polls : poll[p] = None => out[p] = <<>> /\ p \notin gone

Init ==
  /\ candidateQueues = [s \in Peers |-> <<>>]
  /\ pc = [x \in Cands |-> "new"]
  /\ to = [x \in Cands |-> None]
  /\ poll = [p \in Polls |-> None]
  /\ out = [p \in Polls |-> <<>>]
  /\ gone = {}
  /\ order = [s \in Peers |-> <<>>]
  /\ got = [x \in Cands |-> None]

----------------------------------------------------------------------------
(* signalingPostCandidate. *)

\* Wrong method, bad JSON, or bastion_id or candidate missing.
RejectPost(x) ==
  /\ pc[x] = "new"
  /\ pc' = [pc EXCEPT ![x] = "400"]
  /\ UNCHANGED <<candidateQueues, to, poll, out, gone, order, got>>

\* x is posted for the peer with id s.
SignalingPostCandidate(x, s) ==
  /\ pc[x] = "new"
  /\ pc' = [pc EXCEPT ![x] = "send"]
  /\ to' = [to EXCEPT ![x] = s]
  /\ UNCHANGED <<candidateQueues, poll, out, gone, order, got>>

\* x enters its queue behind `ahead`: 204.
Append204(x, ahead) ==
  /\ candidateQueues' = [candidateQueues EXCEPT ![to[x]] = Append(ahead, x)]
  /\ order' = [order EXCEPT ![to[x]] = Append(@, x)]
  /\ pc' = [pc EXCEPT ![x] = "204"]
  /\ UNCHANGED <<to, poll, out, gone, got>>

\* Slip: a full queue makes room by dropping its oldest candidate.
EnqueueDropping(x) ==
  LET q == candidateQueues[to[x]]
  IN pc[x] = "send" /\ Append204(x, IF Len(q) < QueueCap THEN q ELSE Tail(q))

\* Slip: a queue one longer than its capacity.
EnqueueOverfull(x) ==
  /\ pc[x] = "send" /\ Len(candidateQueues[to[x]]) <= QueueCap
  /\ Append204(x, candidateQueues[to[x]])

\* The candidate enters the queue.
Enqueue(x) ==
  /\ pc[x] = "send" /\ Len(candidateQueues[to[x]]) < QueueCap
  /\ Append204(x, candidateQueues[to[x]])

\* The queue stays full until the 1s timer fires: 503.
EnqueueTimeout(x) ==
  /\ pc[x] = "send"
  /\ Len(candidateQueues[to[x]]) = QueueCap
  /\ pc' = [pc EXCEPT ![x] = "503"]
  /\ UNCHANGED <<candidateQueues, to, poll, out, gone, order, got>>

----------------------------------------------------------------------------
(* signalingPollCandidates. *)

\* A poll with ?bastion_id=s.
SignalingPollCandidates(p, s) ==
  /\ poll[p] = None
  /\ <<Of[p], s>> \in Asks
  /\ poll' = [poll EXCEPT ![p] = s]
  /\ UNCHANGED <<candidateQueues, pc, to, out, gone, order, got>>

\* The poll takes the oldest candidate of its queue; its list becomes `list`.
Take(p, list) ==
  /\ poll[p] # None
  /\ out' = [out EXCEPT ![p] = list]
  /\ candidateQueues' = [candidateQueues EXCEPT ![poll[p]] = Tail(@)]
  /\ UNCHANGED <<pc, to, poll, gone, order, got>>

\* Slip: candidates are collected newest first.
ReceivePrepending(p) ==
  /\ poll[p] # None /\ candidateQueues[poll[p]] # <<>>
  /\ Take(p, <<Head(candidateQueues[poll[p]])>> \o out[p])

\* Slip: the last candidate is left in the queue.
ReceiveLeavingOne(p) ==
  /\ poll[p] # None /\ Len(candidateQueues[poll[p]]) > 1
  /\ Take(p, Append(out[p], Head(candidateQueues[poll[p]])))

\* One receive: the first, which the poll waited for, or one of the drain.
Receive(p) ==
  /\ poll[p] # None /\ candidateQueues[poll[p]] # <<>>
  /\ Take(p, Append(out[p], Head(candidateQueues[poll[p]])))

\* The call returns; its connection may serve the next one.
Return(p) ==
  /\ poll' = [poll EXCEPT ![p] = None]
  /\ out' = [out EXCEPT ![p] = <<>>]
  /\ gone' = gone \ {p}
  /\ UNCHANGED <<candidateQueues, pc, to, order>>

\* The drain finds nothing more and the response is written, in vain if the
\* connection broke meanwhile.
Drained(p) ==
  /\ out[p] # <<>>
  /\ candidateQueues[poll[p]] = <<>>
  /\ got' = [x \in Cands |->
               IF \E k \in DOMAIN out[p] : out[p][k] = x
                 THEN IF p \in gone THEN "lost" ELSE Of[p]
                 ELSE got[x]]
  /\ Return(p)

\* Nothing received within 25s (an empty list), or the context is done.
PollEmpty(p) ==
  /\ poll[p] # None
  /\ out[p] = <<>>
  /\ Return(p)
  /\ UNCHANGED got

\* External: the polling peer closes its connection.
Disconnect(p) ==
  /\ poll[p] # None
  /\ p \notin gone
  /\ gone' = gone \cup {p}
  /\ UNCHANGED <<candidateQueues, pc, to, poll, out, order, got>>

----------------------------------------------------------------------------
Next ==
  \/ \E x \in Cands : RejectPost(x) \/ Enqueue(x) \/ EnqueueTimeout(x)
  \/ \E x \in Cands, s \in Peers : SignalingPostCandidate(x, s)
  \/ \E p \in Polls, s \in Peers : SignalingPollCandidates(p, s)
  \/ \E p \in Polls : Receive(p) \/ Drained(p) \/ PollEmpty(p) \/ Disconnect(p)

Spec == Init /\ [][Next]_vars

\* Handlers are scheduled and timers fire; every id keeps being polled, and a
\* select that finds a candidate again and again takes one.
Fairness ==
  /\ \A x \in Cands : WF_vars(Enqueue(x) \/ EnqueueTimeout(x))
  /\ \A p \in Polls : WF_vars(Receive(p) \/ Drained(p) \/ PollEmpty(p))
  /\ \A s \in Peers :
        /\ SF_vars(\E p \in Polls : SignalingPollCandidates(p, s))
        /\ SF_vars(\E p \in Polls : poll[p] = s /\ Receive(p))

FairSpec == Spec /\ Fairness

----------------------------------------------------------------------------
(* Properties. *)

\* A candidate answered 204 is, from then on, in exactly one place: the queue
\* of the id it was posted for, the list of one poll with that id, or the
\* response of one (lost if the connection broke), to a peer that asks with
\* that id; no other candidate is anywhere.  So none is delivered twice,
\* through another queue, or dropped at a full one, however posts and drains
\* interleave.
AcceptedOnce ==
  \A x \in Cands :
     LET queues == {s \in Peers : x \in Range(candidateQueues[s])}
         lists  == {p \in Polls : x \in Range(out[p])}
         places == Cardinality(queues) + Cardinality(lists)
                     + IF got[x] # None THEN 1 ELSE 0
     IN /\ places = IF pc[x] = "204" THEN 1 ELSE 0
        /\ queues \cup {poll[p] : p \in lists} \subseteq {to[x]}
        /\ got[x] \in Peers => <<got[x], to[x]>> \in Asks

\* A poll hands out candidates "addressed to the requesting peer", as the doc of
\* signalingPollCandidates says.  It does only if the peers poll with their own
\* ids, and not with that of "the OTHER side of the rendezvous", as the same
\* doc says (module CandidatesProofs).
AddressedToPoller ==
  \A x \in Cands : got[x] \in Peers => got[x] = to[x]

\* Candidates leave a queue in the order in which they entered it, so one left
\* behind by a session that ended is handed to the next poll before any of the
\* new session, and each poll lists them in that order, also when several
\* polls drain the queue at once.
DrainInOrder ==
  /\ \A s \in Peers : IsSuffix(candidateQueues[s], order[s])
  /\ \A p \in Polls : \A j, k \in DOMAIN out[p] :
        j < k => \E m, n \in DOMAIN order[poll[p]] :
                    m < n /\ order[poll[p]][m] = out[p][j] /\ order[poll[p]][n] = out[p][k]

\* A queue that keeps being polled becomes empty, candidates of sessions that
\* are long over included, and every post is answered.
QueueDrains ==
  \A x \in Cands : /\ (\E s \in Peers : x \in Range(candidateQueues[s]))
                        ~> (\A s \in Peers : x \notin Range(candidateQueues[s]))
                   /\ pc[x] = "send" ~> pc[x] \in {"204", "503"}
=============================================================================
