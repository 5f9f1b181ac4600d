----------------------------- MODULE Signaling -----------------------------
(***************************************************************************)
(* The SDP rendezvous of src/cmd/chepherd-relay/main.go: a client posts an *)
(* offer for a bastion (signalingInitiate, signalingOffer) and blocks; the *)
(* bastion long-polls it (signalingPoll) and posts an answer               *)
(* (signalingAnswer), which the relay forwards to the waiting client.      *)
(*                                                                         *)
(* A step is one critical section of relay.mu or one select.  A select     *)
(* takes any case that is ready; time is not modelled, so a timer of a     *)
(* waiting handler may fire at any moment.  A request names its envelope   *)
(* and its answer channel, an answer post names its answer.                *)
(*                                                                         *)
(* Abstracted: SDP and ICE are opaque.  Offer queues are made on first use *)
(* and never removed, so pendingOffers is total.  External: clients and    *)
(* bastions; an answer may come at any time, from any caller and any       *)
(* number of times, and names any client id: signalingAnswer does not look *)
(* at who posts it or whether an offer was handed over.                    *)
(***************************************************************************)
EXTENDS Naturals, Sequences, FiniteSets

CONSTANTS
  Requests,   \* calls of signalingInitiate and signalingOffer
  Offers,     \* those of signalingOffer
  Polls,      \* connections on which bastions poll, one call after the other
  Posts,      \* calls of signalingAnswer
  Bastions,   \* bastion_id values
  Ids,        \* values genClientID can return
  QueueCap,   \* capacity of an offer queue (16 in the code)
  None        \* nil, or a missing map entry

ASSUME SignalingAssumption ==
  /\ QueueCap \in Nat \ {0}
  /\ Offers \subseteq Requests
  /\ None \notin Requests \cup Polls \cup Posts \cup Bastions \cup Ids
  /\ Requests \cap Polls = {}
  /\ "lost" \notin Bastions \cup {None}
  /\ {"none", "refused", "failed"} \cap Posts = {}

VARIABLES
  pendingOffers,   \* bastion_id -> queue of envelopes
  pendingAnswers,  \* client_id -> answer channel
  answerCh,        \* the buffer of an answer channel, of capacity 1
  pc,              \* where a client's handler is
  peer,            \* the bastion it addresses
  clientID,        \* its clientID
  reply,           \* what the client was told
  poll,            \* the bastion a poll waits for, None between calls
  pcPost,          \* where an answer's handler is
  ch,              \* the channel it found in pendingAnswers
  gone,            \* client and poll connections that broke
  handed,          \* history: the bastion that received a client's offer
  re,              \* history: the client_id a post names
  accepted         \* history: posts answered 200, by answer channel, in order

clientVars == <<pc, peer, clientID, reply>>
postVars == <<pcPost, ch, re>>
vars == <<pendingOffers, pendingAnswers, answerCh, clientVars, poll, postVars,
          gone, handed, accepted>>

\* A reply is a status, or the answer: with its ICE part from signalingInitiate,
\* the SDP alone with the client_id from signalingOffer.
Replies ==
  [status : {"none", "400", "503", "504", "hangup"}]
    \cup [status : {"200"}, sdp : Posts, ice : Posts]
    \cup [status : {"200"}, sdp : Posts, client_id : Ids]

TypeOK ==
  /\ pendingOffers \in [Bastions -> Seq(Requests)]
  /\ \A b \in Bastions : Len(pendingOffers[b]) <= QueueCap
  /\ pendingAnswers \in [Ids -> Requests \cup {None}]
  /\ answerCh \in [Requests -> Posts \cup {None}]
  /\ pc \in [Requests -> {"new", "send", "wait", "cleanup", "done"}]
  /\ peer \in [Requests -> Bastions \cup {None}]
  /\ clientID \in [Requests -> Ids \cup {None}]
  /\ reply \in [Requests -> Replies]
  /\ poll \in [Polls -> Bastions \cup {None}]
  /\ pcPost \in [Posts -> {"new", "send", "200", "400", "410"}]
  /\ ch \in [Posts -> Requests \cup {None}]
  /\ gone \subseteq Requests \cup Polls
  /\ handed \in [Requests -> Bastions \cup {None, "lost"}]
  /\ re \in [Posts -> Ids \cup {None}]
  /\ accepted \in [Requests -> Seq(Posts)]

Init ==
  /\ pendingOffers = [b \in Bastions |-> <<>>]
  /\ pendingAnswers = [i \in Ids |-> None]
  /\ answerCh = [q \in Requests |-> None]
  /\ pc = [q \in Requests |-> "new"]
  /\ peer = [q \in Requests |-> None]
  /\ clientID = [q \in Requests |-> None]
  /\ reply = [q \in Requests |-> [status |-> "none"]]
  /\ poll = [p \in Polls |-> None]
  /\ pcPost = [a \in Posts |-> "new"]
  /\ ch = [a \in Posts |-> None]
  /\ gone = {}
  /\ handed = [q \in Requests |-> None]
  /\ re = [a \in Posts |-> None]
  /\ accepted = [q \in Requests |-> <<>>]

----------------------------------------------------------------------------
(* The client's call. *)

\* Wrong method, bad JSON or no bastion named.
Reject(q) ==
  /\ pc[q] = "new"
  /\ pc' = [pc EXCEPT ![q] = "done"]
  /\ reply' = [reply EXCEPT ![q] = [status |-> "400"]]
  /\ UNCHANGED <<pendingOffers, pendingAnswers, answerCh, peer, clientID,
                 poll, postVars, gone, handed, accepted>>

\* The process id and the wall clock, which two calls may read at the same
\* value: any id, also one that is in use.
genClientID == Ids

\* The wait channel is entered under a generated id.
Register(q, b, i) ==
  /\ pc[q] = "new"
  /\ pc' = [pc EXCEPT ![q] = "send"]
  /\ peer' = [peer EXCEPT ![q] = b]
  /\ clientID' = [clientID EXCEPT ![q] = i]
  /\ pendingAnswers' = [pendingAnswers EXCEPT ![i] = q]
  /\ UNCHANGED <<pendingOffers, answerCh, reply, poll, postVars, gone, handed, accepted>>

SignalingInitiate(q) ==
  q \notin Offers /\ \E b \in Bastions, i \in genClientID : Register(q, b, i)

SignalingOffer(q) ==
  q \in Offers /\ \E b \in Bastions, i \in genClientID : Register(q, b, i)

\* Slip: a queue one longer than its capacity.
SendOfferOverfull(q) ==
  /\ pc[q] = "send"
  /\ Len(pendingOffers[peer[q]]) <= QueueCap
  /\ pendingOffers' = [pendingOffers EXCEPT ![peer[q]] = Append(@, q)]
  /\ pc' = [pc EXCEPT ![q] = "wait"]
  /\ UNCHANGED <<pendingAnswers, answerCh, peer, clientID, reply, poll,
                 postVars, gone, handed, accepted>>

\* The offer enters the bastion's queue as soon as there is room.
SendOffer(q) ==
  /\ pc[q] = "send"
  /\ Len(pendingOffers[peer[q]]) < QueueCap
  /\ pendingOffers' = [pendingOffers EXCEPT ![peer[q]] = Append(@, q)]
  /\ pc' = [pc EXCEPT ![q] = "wait"]
  /\ UNCHANGED <<pendingAnswers, answerCh, peer, clientID, reply, poll,
                 postVars, gone, handed, accepted>>

\* The queue stays full until the 2s timer fires: 503, and the handler returns
\* at once.  (A send that finds room wins over a timer just started, and a slot
\* that becomes free goes to a blocked sender.)
SendTimeout(q) ==
  /\ pc[q] = "send"
  /\ Len(pendingOffers[peer[q]]) = QueueCap
  /\ pc' = [pc EXCEPT ![q] = "done"]
  /\ reply' = [reply EXCEPT ![q] = [status |-> "503"]]
  /\ UNCHANGED <<pendingOffers, pendingAnswers, answerCh, peer, clientID,
                 poll, postVars, gone, handed, accepted>>

\* The wait ends: what is left in the channel and what the client is told.
EndWait(q, left, told) ==
  /\ pc[q] = "wait"
  /\ answerCh' = [answerCh EXCEPT ![q] = left]
  /\ reply' = [reply EXCEPT ![q] = told]
  /\ pc' = [pc EXCEPT ![q] = "cleanup"]
  /\ UNCHANGED <<pendingOffers, pendingAnswers, peer, clientID, poll,
                 postVars, gone, handed, accepted>>

AnswerInitiate(q) ==
  /\ q \notin Offers /\ answerCh[q] # None
  /\ EndWait(q, None, [status |-> "200", sdp |-> answerCh[q], ice |-> answerCh[q]])

AnswerOffer(q) ==
  /\ q \in Offers /\ answerCh[q] # None
  /\ EndWait(q, None, [status |-> "200", sdp |-> answerCh[q], client_id |-> clientID[q]])

\* Slip: the 60s timer is armed only while the offer is still queued.
WaitTimeoutQueued(q) ==
  /\ handed[q] = None
  /\ EndWait(q, answerCh[q], [status |-> "504"])

\* The 60s timer fires.
WaitTimeout(q) == EndWait(q, answerCh[q], [status |-> "504"])

\* The request context is done: the client gave up.
WaitGone(q) == q \in gone /\ EndWait(q, answerCh[q], [status |-> "hangup"])

\* Slip: the entry is deleted only when an answer was delivered.
CleanupAnswered(q) ==
  /\ pc[q] = "cleanup"
  /\ pendingAnswers' = [pendingAnswers EXCEPT ![clientID[q]] =
                          IF reply[q].status \in {"504", "hangup"} THEN @ ELSE None]
  /\ pc' = [pc EXCEPT ![q] = "done"]
  /\ UNCHANGED <<pendingOffers, answerCh, peer, clientID, reply, poll,
                 postVars, gone, handed, accepted>>

\* The entry under the client's id is deleted.
Cleanup(q) ==
  /\ pc[q] = "cleanup"
  /\ pendingAnswers' = [pendingAnswers EXCEPT ![clientID[q]] = None]
  /\ pc' = [pc EXCEPT ![q] = "done"]
  /\ UNCHANGED <<pendingOffers, answerCh, peer, clientID, reply, poll,
                 postVars, gone, handed, accepted>>

----------------------------------------------------------------------------
(* The bastion's poll. *)

\* External: a client or a bastion closes its connection while it waits.  (The
\* send of the offer does not look at the context.)
Disconnect(x) ==
  /\ x \notin gone
  /\ IF x \in Requests THEN pc[x] = "wait" ELSE poll[x] # None
  /\ gone' = gone \cup {x}
  /\ UNCHANGED <<pendingOffers, pendingAnswers, answerCh, clientVars, poll,
                 postVars, handed, accepted>>

SignalingPoll(p, b) ==
  /\ poll[p] = None
  /\ poll' = [poll EXCEPT ![p] = b]
  /\ UNCHANGED <<pendingOffers, pendingAnswers, answerCh, clientVars, postVars,
                 gone, handed, accepted>>

\* The call returns and its connection may serve the next one.
PollReturns(p) ==
  /\ poll' = [poll EXCEPT ![p] = None]
  /\ gone' = gone \ {p}
  /\ UNCHANGED <<pendingAnswers, answerCh, clientVars, postVars, accepted>>

\* Slip: the offer is read but stays in the queue.
PollTakePeeked(p) ==
  LET b == poll[p]
      q == Head(pendingOffers[b])
  IN /\ b # None
     /\ pendingOffers[b] # <<>>
     /\ handed' = [handed EXCEPT ![q] = IF p \in gone THEN "lost" ELSE b]
     /\ UNCHANGED pendingOffers
     /\ PollReturns(p)

\* Slip: the offer of a client that no longer waits is left in the queue.
PollTakeWaiting(p) ==
  LET b == poll[p]
      q == Head(pendingOffers[b])
  IN /\ b # None
     /\ pendingOffers[b] # <<>>
     /\ pendingAnswers[clientID[q]] # None
     /\ pendingOffers' = [pendingOffers EXCEPT ![b] = Tail(@)]
     /\ handed' = [handed EXCEPT ![q] = IF p \in gone THEN "lost" ELSE b]
     /\ PollReturns(p)

\* The poll receives the oldest offer and writes it to the bastion; on a
\* broken connection the offer is lost.
PollTake(p) ==
  LET b == poll[p]
      q == Head(pendingOffers[b])
  IN /\ b # None
     /\ pendingOffers[b] # <<>>
     /\ pendingOffers' = [pendingOffers EXCEPT ![b] = Tail(@)]
     /\ handed' = [handed EXCEPT ![q] = IF p \in gone THEN "lost" ELSE b]
     /\ PollReturns(p)

\* The 25s timer fires (204), or the request context is done.
PollEmpty(p) ==
  /\ poll[p] # None
  /\ PollReturns(p)
  /\ UNCHANGED <<pendingOffers, handed>>

----------------------------------------------------------------------------
(* The bastion's answer. *)

\* Wrong method, bad JSON or no client named.
RejectPost(a) ==
  /\ pcPost[a] = "new"
  /\ pcPost' = [pcPost EXCEPT ![a] = "400"]
  /\ UNCHANGED <<pendingOffers, pendingAnswers, answerCh, clientVars, poll, ch, re,
                 gone, handed, accepted>>

\* The handler looks up the channel of client i.
SignalingAnswer(a, i) ==
  LET found == pendingAnswers[i]
  IN /\ pcPost[a] = "new"
     /\ re' = [re EXCEPT ![a] = i]
     /\ ch' = [ch EXCEPT ![a] = found]
     /\ pcPost' = [pcPost EXCEPT ![a] = IF found = None THEN "410" ELSE "send"]
     /\ UNCHANGED <<pendingOffers, pendingAnswers, answerCh, clientVars, poll,
                    gone, handed, accepted>>

\* Slip: the newest answer replaces the one that waits in the channel.
AnswerSendLatest(a) ==
  LET q == ch[a]
  IN /\ pcPost[a] = "send"
     /\ pcPost' = [pcPost EXCEPT ![a] = "200"]
     /\ answerCh' = [answerCh EXCEPT ![q] = a]
     /\ accepted' = [accepted EXCEPT ![q] = Append(@, a)]
     /\ UNCHANGED <<pendingOffers, pendingAnswers, clientVars, poll, ch, re, gone, handed>>

\* A send that does not wait: 200 if the channel has room, 410 if not.
AnswerSend(a) ==
  LET q == ch[a]
  IN /\ pcPost[a] = "send"
     /\ \/ /\ answerCh[q] = None
           /\ answerCh' = [answerCh EXCEPT ![q] = a]
           /\ pcPost' = [pcPost EXCEPT ![a] = "200"]
           /\ accepted' = [accepted EXCEPT ![q] = Append(@, a)]
        \/ /\ answerCh[q] # None
           /\ pcPost' = [pcPost EXCEPT ![a] = "410"]
           /\ UNCHANGED <<answerCh, accepted>>
     /\ UNCHANGED <<pendingOffers, pendingAnswers, clientVars, poll, ch, re, gone, handed>>

----------------------------------------------------------------------------
Client(q) ==
  \/ SendOffer(q) \/ SendTimeout(q)
  \/ AnswerInitiate(q) \/ AnswerOffer(q) \/ WaitTimeout(q) \/ WaitGone(q)
  \/ Cleanup(q)

Next ==
  \/ \E q \in Requests : Reject(q) \/ SignalingInitiate(q) \/ SignalingOffer(q) \/ Client(q)
  \/ \E p \in Polls : PollTake(p) \/ PollEmpty(p) \/ \E b \in Bastions : SignalingPoll(p, b)
  \/ \E a \in Posts : RejectPost(a) \/ AnswerSend(a) \/ \E i \in Ids : SignalingAnswer(a, i)
  \/ \E x \in Requests \cup Polls : Disconnect(x)

Spec == Init /\ [][Next]_vars

\* Handlers are scheduled and timers fire; every bastion keeps polling, and a
\* select that finds an offer again and again takes one (Go's choice between
\* ready cases is random).
Fairness ==
  /\ \A q \in Requests : WF_vars(Client(q))
  /\ \A a \in Posts : WF_vars(AnswerSend(a))
  /\ \A p \in Polls : WF_vars(PollTake(p) \/ PollEmpty(p))
  /\ \A b \in Bastions :
        /\ SF_vars(\E p \in Polls : SignalingPoll(p, b))
        /\ SF_vars(\E p \in Polls : poll[p] = b /\ PollTake(p))

FairSpec == Spec /\ Fairness

----------------------------------------------------------------------------
(* Properties. *)

Answered(q) == reply[q].status = "200"

InQueue(q) == \E b \in Bastions : \E k \in DOMAIN pendingOffers[b] : pendingOffers[b][k] = q

\* An offer that entered the queue is there once, in the queue of the bastion
\* it addresses, until one poll of that bastion takes it out for good: two
\* polls of a bastion never get the same offer, and none is dropped when its
\* client is gone.
OfferOnce ==
  \A q \in Requests :
     LET slots == {s \in Bastions \X (1..QueueCap) :
                     /\ s[2] \in DOMAIN pendingOffers[s[1]]
                     /\ pendingOffers[s[1]][s[2]] = q}
         sent  == /\ pc[q] \in {"wait", "cleanup", "done"}
                  /\ reply[q].status \notin {"400", "503"}
     IN /\ Cardinality(slots) = IF sent /\ handed[q] = None THEN 1 ELSE 0
        /\ \A s \in slots : s[1] = peer[q]
        /\ handed[q] \in Bastions => sent /\ handed[q] = peer[q]

\* No other call ever had q's id.
OwnId(q) == \A r \in Requests \ {q} : clientID[r] # clientID[q]

\* A channel in pendingAnswers belongs to a call with that id that has not
\* returned, or returned a 503: that early return is the only leak, also when
\* ids collide.  A call with an id of its own has its channel there until the
\* delete at its end, whatever other calls return.
PendingAccounted ==
  \A q \in Requests :
     LET listed == pc[q] \in {"send", "wait", "cleanup"} \/ reply[q].status = "503"
     IN /\ \A i \in Ids : pendingAnswers[i] = q => clientID[q] = i /\ listed
        /\ listed /\ OwnId(q) => pendingAnswers[clientID[q]] = q

\* The client gets the first answer that was accepted (200) for it, one that
\* names its client id, although the send comes after the unlock and another
\* call may have drawn the same id from the clock since.  A second one can be
\* accepted, and is lost, only after the first was received; a third never is.
FirstAnswerWins ==
  \A q \in Requests :
     /\ Answered(q) => /\ accepted[q] # <<>> /\ reply[q].sdp = accepted[q][1]
                       /\ re[reply[q].sdp] = clientID[q]
     /\ Len(accepted[q]) <= IF Answered(q) THEN 2 ELSE 1

\* Every client's call ends, and unless it ended in a 503 its answer channel
\* is gone from pendingAnswers.
CallEnds ==
  \A q \in Requests :
     pc[q] = "send" ~> /\ pc[q] = "done"
                       /\ \/ reply[q].status = "503"
                          \/ \A i \in Ids : pendingAnswers[i] # q

\* The offers of dead clients do not block a queue: as its bastion keeps
\* polling, every queued offer is taken.
QueueDrains == \A q \in Requests : InQueue(q) ~> ~InQueue(q)

\* The state of the abstract rendezvous: queues, channels and timers are gone.
Rdv == INSTANCE Rendezvous WITH
  Calls <- Requests, Answers <- Posts, to <- peer, key <- clientID,
  taken <- handed, about <- re,
  result <- [q \in Requests |->
               CASE reply[q].status = "none" -> "none"
                 [] reply[q].status = "200" -> reply[q].sdp
                 [] reply[q].status \in {"400", "503"} -> "refused"
                 [] OTHER -> "failed"]

\* The handlers implement the rendezvous: an offer is taken once and only by
\* its bastion, a call has one result, and an answer is the result of at most
\* one call, one whose id it names.
ImplementsRendezvous == Rdv!Spec
=============================================================================
