-------------------------- MODULE SignalingProofs --------------------------
(***************************************************************************)
(* The SDP rendezvous is correct for any numbers of clients, bastions,     *)
(* polls and answers, any capacity of the queues and any collision of      *)
(* client ids, and it implements the abstract Rendezvous.  SigInv is the   *)
(* inductive invariant.  Its parts follow the handlers: what a client's    *)
(* handler has set where it is (ClientInv), which offers are queued        *)
(* (QueueInv), whose channels are listed (PendingAccounted), and what went *)
(* into an answer channel and came out of it (PostInv, ChannelInv).        *)
(***************************************************************************)
EXTENDS Signaling, FiniteSetTheorems, SequenceTheorems, TLAPS

\* Where a handler is tells what it has set and what its client was told.
ClientInv ==
  \A q \in Requests :
     /\ pc[q] = "new" => peer[q] = None /\ clientID[q] = None
     /\ pc[q] \in {"new", "send", "wait"} => reply[q] = [status |-> "none"]
     /\ pc[q] \in {"send", "wait", "cleanup"} => peer[q] \in Bastions /\ clientID[q] \in Ids
     /\ pc[q] = "cleanup" => reply[q].status \in {"200", "504", "hangup"}
     /\ pc[q] = "done" => /\ reply[q].status # "none"
                          /\ reply[q].status # "400" => peer[q] \in Bastions /\ clientID[q] \in Ids

\* The offer of q entered its queue.
Sent(q) == pc[q] \in {"wait", "cleanup", "done"} /\ reply[q].status \notin {"400", "503"}

\* The queue of a bastion holds, once each, the offers sent to it that no poll
\* has taken; only its own polls take them.
QueueInv ==
  /\ \A q \in Requests, b \in Bastions : \A k \in DOMAIN pendingOffers[b] :
        pendingOffers[b][k] = q => peer[q] = b /\ Sent(q) /\ handed[q] = None
  /\ \A b \in Bastions : \A j, k \in DOMAIN pendingOffers[b] :
        pendingOffers[b][j] = pendingOffers[b][k] => j = k
  /\ \A q \in Requests :
        /\ Sent(q) /\ handed[q] = None =>
             \E k \in DOMAIN pendingOffers[peer[q]] : pendingOffers[peer[q]][k] = q
        /\ handed[q] # None => Sent(q) /\ handed[q] \in {peer[q], "lost"}

\* The channel a post found belongs to a call with the id that the post names.
PostInv ==
  \A a \in Posts :
     /\ pcPost[a] = "new" => re[a] = None /\ ch[a] = None
     /\ pcPost[a] \in {"send", "200"} => ch[a] # None
     /\ ch[a] # None => re[a] \in Ids /\ re[a] = clientID[ch[a]]

\* The answer the client of q got, and the one in its channel.
Got(q) == IF Answered(q) THEN <<reply[q].sdp>> ELSE <<>>
Left(q) == IF answerCh[q] # None THEN <<answerCh[q]>> ELSE <<>>

\* What was accepted for q is what its client got, followed by what is in the
\* channel, and all of it was sent to that channel.
ChannelInv ==
  \A q \in Requests :
     /\ accepted[q] = Got(q) \o Left(q)
     /\ answerCh[q] # None => ch[answerCh[q]] = q /\ pcPost[answerCh[q]] = "200"
     /\ Answered(q) => ch[reply[q].sdp] = q /\ pcPost[reply[q].sdp] = "200"

SigInv ==
  /\ TypeOK
  /\ ClientInv
  /\ QueueInv
  /\ PendingAccounted
  /\ PostInv
  /\ ChannelInv
----------------------------------------------------------------------------
\* A reply is a status; a reply with an answer carries it.
LEMMA ReplyFacts ==
  ASSUME NEW r \in Replies
  PROVE  /\ r.status \in {"none", "400", "503", "504", "hangup", "200"}
         /\ r.status = "200" => r.sdp \in Posts
  BY DEF Replies

\* The replies the handlers make are replies.
LEMMA ReplyTyped ==
  /\ \A st \in {"none", "400", "503", "504", "hangup"} :
        [status |-> st] \in Replies /\ [status |-> st].status = st
  /\ \A a \in Posts :
        /\ [status |-> "200", sdp |-> a, ice |-> a] \in Replies
        /\ [status |-> "200", sdp |-> a, ice |-> a].status = "200"
        /\ [status |-> "200", sdp |-> a, ice |-> a].sdp = a
  /\ \A a \in Posts, i \in Ids :
        /\ [status |-> "200", sdp |-> a, client_id |-> i] \in Replies
        /\ [status |-> "200", sdp |-> a, client_id |-> i].status = "200"
        /\ [status |-> "200", sdp |-> a, client_id |-> i].sdp = a
  BY DEF Replies

LEMMA InitSigInv == Init => SigInv
<1> SUFFICES ASSUME Init PROVE SigInv
  OBVIOUS
<1> USE SignalingAssumption DEF Init
<1>1. TypeOK
  BY ReplyTyped DEF TypeOK
<1>2. ClientInv /\ QueueInv /\ PendingAccounted
  BY DEF ClientInv, QueueInv, Sent, PendingAccounted
<1>3. PostInv /\ ChannelInv
  BY DEF PostInv, ChannelInv, Answered, Got, Left
<1> QED
  BY <1>1, <1>2, <1>3 DEF SigInv
----------------------------------------------------------------------------
(* What a step leaves alone. *)

\* A step that changes neither queues nor clients keeps QueueInv.
LEMMA QueueUntouched ==
  ASSUME SigInv, UNCHANGED <<pendingOffers, handed>>,
         \A q \in Requests : (Sent(q)' <=> Sent(q)) /\ (Sent(q) => peer'[q] = peer[q])
  PROVE  QueueInv'
  BY DEF SigInv, QueueInv

\* A step that changes neither pendingAnswers nor clients keeps
\* PendingAccounted.
LEMMA ListUntouched ==
  ASSUME SigInv, UNCHANGED <<pendingAnswers, clientID>>,
         \A q \in Requests :
            pc'[q] \in {"send", "wait", "cleanup"} \/ reply'[q].status = "503"
              <=> pc[q] \in {"send", "wait", "cleanup"} \/ reply[q].status = "503"
  PROVE  PendingAccounted'
  BY DEF SigInv, PendingAccounted, OwnId

\* A step that changes no channel, reply or post keeps ChannelInv.
LEMMA ChannelUntouched ==
  ASSUME SigInv, UNCHANGED <<answerCh, accepted>>,
         \A a \in Posts : pcPost[a] = "200" => pcPost'[a] = "200" /\ ch'[a] = ch[a],
         \A q \in Requests : /\ Answered(q)' <=> Answered(q)
                             /\ Answered(q) => reply'[q] = reply[q]
  PROVE  ChannelInv'
<1> USE DEF SigInv
<1> SUFFICES ASSUME NEW q \in Requests
             PROVE  /\ accepted'[q] = Got(q)' \o Left(q)'
                    /\ answerCh'[q] # None => ch'[answerCh'[q]] = q /\ pcPost'[answerCh'[q]] = "200"
                    /\ Answered(q)' => ch'[reply'[q].sdp] = q /\ pcPost'[reply'[q].sdp] = "200"
  BY DEF ChannelInv
<1>0. Got(q)' = Got(q) /\ Left(q)' = Left(q)
  BY DEF Got, Left
<1>1. answerCh[q] # None => answerCh[q] \in Posts
  BY DEF TypeOK
<1>2. Answered(q) => reply[q].sdp \in Posts
  BY ReplyFacts DEF Answered, TypeOK
<1> QED
  BY <1>0, <1>1, <1>2 DEF ChannelInv
----------------------------------------------------------------------------
(* The client's call. *)

\* A malformed request is refused before it registers anything.
LEMMA RejectPreserves ==
  ASSUME SigInv, NEW q \in Requests, Reject(q)
  PROVE  SigInv'
<1> USE SignalingAssumption DEF SigInv, Reject, postVars
<1>s. /\ pc'[q] = "done" /\ reply'[q].status = "400" /\ reply[q].status = "none"
      /\ \A r \in Requests : r # q => pc'[r] = pc[r] /\ reply'[r] = reply[r]
  BY DEF TypeOK, ClientInv
<1>1. TypeOK'
  BY ReplyTyped DEF TypeOK
<1>2. ClientInv'
  BY <1>s DEF ClientInv
<1>3. QueueInv'
  BY <1>s, QueueUntouched DEF Sent
<1>4. PendingAccounted'
  BY <1>s, ListUntouched
<1>5. PostInv'
  BY DEF PostInv
<1>6. ChannelInv'
  BY <1>s, ChannelUntouched DEF Answered
<1> QED
  BY <1>1, <1>2, <1>3, <1>4, <1>5, <1>6

\* signalingInitiate and signalingOffer list the answer channel.
LEMMA RegisterPreserves ==
  ASSUME SigInv, NEW q \in Requests, NEW b \in Bastions, NEW i \in Ids, Register(q, b, i)
  PROVE  SigInv'
<1> USE SignalingAssumption DEF SigInv, Register, postVars
<1>s. /\ pc'[q] = "send" /\ peer'[q] = b /\ clientID'[q] = i
      /\ pc[q] = "new" /\ peer[q] = None /\ clientID[q] = None
      /\ reply[q] = [status |-> "none"]
      /\ \A r \in Requests : r # q => /\ pc'[r] = pc[r] /\ peer'[r] = peer[r]
                                      /\ clientID'[r] = clientID[r]
      /\ \A j \in Ids : pendingAnswers'[j] = IF j = i THEN q ELSE pendingAnswers[j]
  BY DEF TypeOK, ClientInv
<1>1. TypeOK'
  BY DEF TypeOK
<1>2. ClientInv'
  BY <1>s DEF ClientInv
<1>3. QueueInv'
  BY <1>s, QueueUntouched DEF Sent
<1>4. PendingAccounted'
  <2> SUFFICES ASSUME NEW r \in Requests
               PROVE  LET listed == pc'[r] \in {"send", "wait", "cleanup"} \/ reply[r].status = "503"
                      IN /\ \A j \in Ids : pendingAnswers'[j] = r => clientID'[r] = j /\ listed
                         /\ listed /\ OwnId(r)' => pendingAnswers'[clientID'[r]] = r
    BY DEF PendingAccounted
  <2>1. CASE r = q
    BY <1>s, <2>1 DEF PendingAccounted
  <2>2. CASE r # q
    <3>1. ASSUME pc[r] \in {"send", "wait", "cleanup"} \/ reply[r].status = "503", OwnId(r)'
          PROVE  pendingAnswers'[clientID[r]] = r
      <4>0. pc[r] # "new"
        BY <3>1 DEF ClientInv
      <4>1. clientID[r] \in Ids
        BY <3>1, <4>0 DEF ClientInv, TypeOK
      <4>2. clientID[r] # i /\ OwnId(r)
        BY <1>s, <2>2, <3>1, <4>1 DEF OwnId
      <4> QED
        BY <1>s, <3>1, <4>1, <4>2 DEF PendingAccounted
    <3> QED
      BY <1>s, <2>2, <3>1 DEF PendingAccounted
  <2> QED
    BY <2>1, <2>2
<1>5. PostInv'
  BY <1>s DEF PostInv, TypeOK
<1>6. ChannelInv'
  BY ChannelUntouched DEF Answered
<1> QED
  BY <1>1, <1>2, <1>3, <1>4, <1>5, <1>6

\* The offer enters the queue of its bastion.
LEMMA SendOfferPreserves ==
  ASSUME SigInv, NEW q \in Requests, SendOffer(q)
  PROVE  SigInv'
<1> USE SignalingAssumption DEF SigInv, SendOffer, postVars
<1> DEFINE b == peer[q]
<1>p. /\ pc'[q] = "wait" /\ reply[q].status = "none" /\ b \in Bastions /\ clientID[q] \in Ids
      /\ \A r \in Requests : r # q => pc'[r] = pc[r]
  BY DEF TypeOK, ClientInv
<1>w. /\ ~Sent(q) /\ Sent(q)'
      /\ \A r \in Requests : r # q => (Sent(r)' <=> Sent(r))
  BY <1>p DEF Sent
<1>s. handed[q] = None
  BY <1>w DEF QueueInv
<1>q. /\ pendingOffers[b] \in Seq(Requests) /\ Len(pendingOffers[b]) \in Nat
      /\ pendingOffers'[b] = Append(pendingOffers[b], q)
      /\ \A c \in Bastions : c # b => pendingOffers'[c] = pendingOffers[c]
  BY <1>p, <1>w, <1>s DEF TypeOK
<1>a. /\ pendingOffers'[b] \in Seq(Requests)
      /\ Len(pendingOffers'[b]) = Len(pendingOffers[b]) + 1
      /\ DOMAIN pendingOffers[b] = 1..Len(pendingOffers[b])
      /\ DOMAIN pendingOffers'[b] = 1..(Len(pendingOffers[b]) + 1)
      /\ \A k \in 1..Len(pendingOffers[b]) : pendingOffers'[b][k] = pendingOffers[b][k]
      /\ pendingOffers'[b][Len(pendingOffers[b]) + 1] = q
      /\ \A k \in 1..Len(pendingOffers[b]) : pendingOffers[b][k] \in Requests
  BY <1>q
<1>1. TypeOK'
  <2>1. pendingOffers' \in [Bastions -> Seq(Requests)]
    BY <1>a DEF TypeOK
  <2>2. \A c \in Bastions : Len(pendingOffers'[c]) <= QueueCap
    BY <1>q, <1>a DEF TypeOK
  <2> QED
    BY <2>1, <2>2 DEF TypeOK
<1>2. ClientInv'
  BY <1>p, <1>w, <1>s DEF ClientInv
<1>3. QueueInv'
  <2>1. ASSUME NEW r \in Requests, NEW c \in Bastions, NEW k \in DOMAIN pendingOffers'[c],
               pendingOffers'[c][k] = r
        PROVE  peer[r] = c /\ Sent(r)' /\ handed[r] = None
    <3>1. CASE c # b
      BY <1>p, <1>w, <1>s, <1>q, <2>1, <3>1 DEF QueueInv
    <3>2. CASE c = b
      BY <1>p, <1>w, <1>s, <1>a, <2>1, <3>2 DEF QueueInv
    <3> QED
      BY <3>1, <3>2
  <2>2. ASSUME NEW c \in Bastions, NEW j \in DOMAIN pendingOffers'[c],
               NEW k \in DOMAIN pendingOffers'[c], pendingOffers'[c][j] = pendingOffers'[c][k]
        PROVE  j = k
    <3>1. CASE c # b
      BY <1>q, <2>2, <3>1 DEF QueueInv
    <3>2. CASE c = b
      <4>1. \A m \in 1..Len(pendingOffers[b]) : pendingOffers[b][m] # q
        BY <1>p, <1>w, <1>s, <1>a DEF QueueInv
      <4>2. PICK m \in Nat : m = Len(pendingOffers[b])
        BY <1>q
      <4>3. j \in 1..(m + 1) /\ k \in 1..(m + 1)
        BY <1>a, <3>2, <4>2
      <4>4. CASE j = m + 1 \/ k = m + 1
        BY <1>a, <2>2, <3>2, <4>1, <4>2, <4>3, <4>4
      <4>5. CASE j \in 1..m /\ k \in 1..m
        <5>1. pendingOffers[b][j] = pendingOffers[b][k]
          BY <1>a, <2>2, <3>2, <4>2, <4>5
        <5> QED
          BY <1>a, <1>p, <4>2, <4>5, <5>1 DEF QueueInv
      <4> QED
        BY <4>3, <4>4, <4>5
    <3> QED
      BY <3>1, <3>2
  <2>3. ASSUME NEW r \in Requests, Sent(r)', handed[r] = None
        PROVE  \E k \in DOMAIN pendingOffers'[peer[r]] : pendingOffers'[peer[r]][k] = r
    <3>1. CASE r = q
      <4>1. Len(pendingOffers[b]) + 1 \in DOMAIN pendingOffers'[b]
        BY <1>q, <1>a
      <4> QED
        BY <1>a, <3>1, <4>1
    <3>2. CASE r # q
      <4>1. PICK k \in DOMAIN pendingOffers[peer[r]] : pendingOffers[peer[r]][k] = r
        BY <1>p, <1>w, <1>s, <2>3, <3>2 DEF QueueInv
      <4>2. peer[r] \in Bastions
        BY <1>p, <1>w, <1>s, <2>3, <3>2 DEF ClientInv, Sent
      <4>3. CASE peer[r] # b
        BY <1>q, <4>1, <4>2, <4>3
      <4>4. CASE peer[r] = b
        <5>1. k \in 1..Len(pendingOffers[b]) /\ k \in 1..(Len(pendingOffers[b]) + 1)
          BY <1>q, <1>a, <4>1, <4>4
        <5>2. pendingOffers'[b][k] = r /\ k \in DOMAIN pendingOffers'[b]
          BY <1>a, <4>1, <4>4, <5>1, Zenon
        <5> QED
          BY <4>4, <5>2, Zenon
      <4> QED
        BY <4>3, <4>4
    <3> QED
      BY <3>1, <3>2
  <2>4. \A r \in Requests : handed[r] # None => Sent(r)' /\ handed[r] \in {peer[r], "lost"}
    BY <1>p, <1>w, <1>s DEF QueueInv
  <2> QED
    BY <2>1, <2>2, <2>3, <2>4 DEF QueueInv
<1>4. PendingAccounted'
  BY <1>p, <1>w, <1>s, ListUntouched
<1>5. PostInv'
  BY DEF PostInv
<1>6. ChannelInv'
  BY ChannelUntouched DEF Answered
<1> QED
  BY <1>1, <1>2, <1>3, <1>4, <1>5, <1>6

\* The 503: the channel stays listed.
LEMMA SendTimeoutPreserves ==
  ASSUME SigInv, NEW q \in Requests, SendTimeout(q)
  PROVE  SigInv'
<1> USE SignalingAssumption DEF SigInv, SendTimeout, postVars
<1>s. /\ pc'[q] = "done" /\ reply'[q].status = "503" /\ reply[q].status = "none"
      /\ \A r \in Requests : r # q => pc'[r] = pc[r] /\ reply'[r] = reply[r]
  BY DEF TypeOK, ClientInv
<1>1. TypeOK'
  BY ReplyTyped DEF TypeOK
<1>2. ClientInv'
  BY <1>s DEF ClientInv
<1>3. QueueInv'
  BY <1>s, QueueUntouched DEF Sent
<1>4. PendingAccounted'
  BY <1>s, ListUntouched
<1>5. PostInv'
  BY DEF PostInv
<1>6. ChannelInv'
  BY <1>s, ChannelUntouched DEF Answered
<1> QED
  BY <1>1, <1>2, <1>3, <1>4, <1>5, <1>6

\* The wait ends without an answer.
LEMMA WaitFailsPreserves ==
  ASSUME SigInv, NEW q \in Requests, NEW st \in {"504", "hangup"},
         EndWait(q, answerCh[q], [status |-> st])
  PROVE  SigInv'
<1> USE SignalingAssumption DEF SigInv, EndWait, postVars
<1>s. /\ pc'[q] = "cleanup" /\ reply'[q].status = st /\ reply[q].status = "none"
      /\ \A r \in Requests : r # q => pc'[r] = pc[r] /\ reply'[r] = reply[r]
      /\ UNCHANGED answerCh
  BY DEF TypeOK, ClientInv
<1>1. TypeOK'
  BY ReplyTyped, <1>s DEF TypeOK
<1>2. ClientInv'
  BY <1>s DEF ClientInv
<1>3. QueueInv'
  BY <1>s, QueueUntouched DEF Sent
<1>4. PendingAccounted'
  BY <1>s, ListUntouched
<1>5. PostInv'
  BY DEF PostInv
<1>6. ChannelInv'
  BY <1>s, ChannelUntouched DEF Answered
<1> QED
  BY <1>1, <1>2, <1>3, <1>4, <1>5, <1>6

\* The wait ends with the answer from the channel.
LEMMA WaitAnsweredPreserves ==
  ASSUME SigInv, NEW q \in Requests, answerCh[q] # None, NEW told \in Replies,
         told.status = "200", told.sdp = answerCh[q], EndWait(q, None, told)
  PROVE  SigInv'
<1> USE SignalingAssumption DEF SigInv, EndWait, postVars
<1>s. /\ pc'[q] = "cleanup" /\ reply'[q] = told /\ reply[q].status = "none" /\ answerCh'[q] = None
      /\ \A r \in Requests : r # q => /\ pc'[r] = pc[r] /\ reply'[r] = reply[r]
                                      /\ answerCh'[r] = answerCh[r]
  BY DEF TypeOK, ClientInv
<1>1. TypeOK'
  BY DEF TypeOK
<1>2. ClientInv'
  BY <1>s DEF ClientInv
<1>3. QueueInv'
  BY <1>s, QueueUntouched DEF Sent
<1>4. PendingAccounted'
  BY <1>s, ListUntouched
<1>5. PostInv'
  BY DEF PostInv
<1>6. ChannelInv'
  <2> SUFFICES ASSUME NEW r \in Requests
               PROVE  /\ accepted[r] = Got(r)' \o Left(r)'
                      /\ answerCh'[r] # None => ch[answerCh'[r]] = r /\ pcPost[answerCh'[r]] = "200"
                      /\ Answered(r)' => ch[reply'[r].sdp] = r /\ pcPost[reply'[r].sdp] = "200"
    BY DEF ChannelInv
  <2>1. CASE r = q
    <3>1. Got(q) = <<>> /\ Left(q) = <<answerCh[q]>>
      BY <1>s DEF Got, Left, Answered
    <3>2. Got(q)' = <<answerCh[q]>> /\ Left(q)' = <<>>
      BY <1>s DEF Got, Left, Answered
    <3> QED
      BY <1>s, <2>1, <3>1, <3>2 DEF ChannelInv
  <2>2. CASE r # q
    <3>1. Got(r)' = Got(r) /\ Left(r)' = Left(r)
      BY <1>s, <2>2 DEF Got, Left, Answered
    <3> QED
      BY <1>s, <2>2, <3>1 DEF ChannelInv, Answered
  <2> QED
    BY <2>1, <2>2
<1> QED
  BY <1>1, <1>2, <1>3, <1>4, <1>5, <1>6

\* The delete, which may take away the channel of a call with the same id.
LEMMA CleanupPreserves ==
  ASSUME SigInv, NEW q \in Requests, Cleanup(q)
  PROVE  SigInv'
<1> USE SignalingAssumption DEF SigInv, Cleanup, postVars
<1>s. /\ pc'[q] = "done" /\ reply[q].status \in {"200", "504", "hangup"} /\ clientID[q] \in Ids
      /\ \A r \in Requests : r # q => pc'[r] = pc[r]
      /\ \A i \in Ids : pendingAnswers'[i] = IF i = clientID[q] THEN None ELSE pendingAnswers[i]
  BY DEF TypeOK, ClientInv
<1>1. TypeOK'
  BY DEF TypeOK
<1>2. ClientInv'
  BY <1>s DEF ClientInv
<1>3. QueueInv'
  BY <1>s, QueueUntouched DEF Sent
<1>4. PendingAccounted'
  <2> SUFFICES ASSUME NEW r \in Requests
               PROVE  LET listed == pc'[r] \in {"send", "wait", "cleanup"} \/ reply[r].status = "503"
                      IN /\ \A i \in Ids : pendingAnswers'[i] = r => clientID[r] = i /\ listed
                         /\ listed /\ OwnId(r)' => pendingAnswers'[clientID[r]] = r
    BY DEF PendingAccounted
  <2>1. OwnId(r)' => OwnId(r)
    BY DEF OwnId
  <2>2. CASE r = q
    BY <1>s, <2>2 DEF PendingAccounted
  <2>3. CASE r # q
    <3>1. OwnId(r) => clientID[q] # clientID[r]
      BY <2>3 DEF OwnId
    <3>2. pc[r] \in {"send", "wait", "cleanup"} \/ reply[r].status = "503" => clientID[r] \in Ids
      <4>1. pc[r] = "new" => reply[r].status # "503"
        BY DEF ClientInv
      <4> QED
        BY <4>1 DEF ClientInv, TypeOK
    <3> QED
      BY <1>s, <2>1, <2>3, <3>1, <3>2 DEF PendingAccounted
  <2> QED
    BY <2>2, <2>3
<1>5. PostInv'
  BY DEF PostInv
<1>6. ChannelInv'
  BY ChannelUntouched DEF Answered
<1> QED
  BY <1>1, <1>2, <1>3, <1>4, <1>5, <1>6
----------------------------------------------------------------------------
(* The bastion's poll. *)

\* A poll that starts or ends without an offer, or a connection that breaks.
LEMMA PollIdlePreserves ==
  ASSUME SigInv, poll' \in [Polls -> Bastions \cup {None}], gone' \subseteq Requests \cup Polls,
         UNCHANGED <<pendingOffers, pendingAnswers, answerCh, clientVars, postVars, handed, accepted>>
  PROVE  SigInv'
<1> USE DEF SigInv, clientVars, postVars
<1>1. TypeOK'
  BY DEF TypeOK
<1>2. ClientInv' /\ PostInv'
  BY DEF ClientInv, PostInv
<1>3. QueueInv'
  BY QueueUntouched DEF Sent
<1>4. PendingAccounted'
  BY ListUntouched
<1>5. ChannelInv'
  BY ChannelUntouched DEF Answered
<1> QED
  BY <1>1, <1>2, <1>3, <1>4, <1>5

\* A poll receives an offer, for its client or for nobody.
LEMMA PollTakePreserves ==
  ASSUME SigInv, NEW p \in Polls, PollTake(p)
  PROVE  SigInv'
<1> USE SignalingAssumption DEF SigInv, PollTake, PollReturns, clientVars, postVars
<1> DEFINE b == poll[p]
           q == Head(pendingOffers[b])
           n == Len(pendingOffers[b])
<1>b. b \in Bastions /\ pendingOffers[b] \in Seq(Requests) /\ pendingOffers[b] # <<>>
  BY DEF TypeOK
<1>q. /\ n \in Nat /\ n >= 1 /\ DOMAIN pendingOffers[b] = 1..n
      /\ q \in Requests /\ q = pendingOffers[b][1]
      /\ Tail(pendingOffers[b]) \in Seq(Requests) /\ DOMAIN Tail(pendingOffers[b]) = 1..(n - 1)
      /\ Len(Tail(pendingOffers[b])) = n - 1
      /\ \A k \in 1..(n - 1) : Tail(pendingOffers[b])[k] = pendingOffers[b][k + 1]
  BY <1>b
<1>s. /\ pendingOffers'[b] = Tail(pendingOffers[b])
      /\ \A c \in Bastions : c # b => pendingOffers'[c] = pendingOffers[c]
      /\ handed'[q] \in {b, "lost"}
      /\ \A r \in Requests : r # q => handed'[r] = handed[r]
  BY <1>b, <1>q DEF TypeOK
<1>h. peer[q] = b /\ Sent(q) /\ handed[q] = None
  BY <1>b, <1>q DEF QueueInv
<1>d. DOMAIN pendingOffers'[b] = 1..(n - 1)
  BY <1>q, <1>s
<1>1. TypeOK'
  <2>1. pendingOffers' \in [Bastions -> Seq(Requests)]
    BY <1>q DEF TypeOK
  <2>2. \A c \in Bastions : Len(pendingOffers'[c]) <= QueueCap
    BY <1>b, <1>q, <1>s DEF TypeOK
  <2>3. handed' \in [Requests -> Bastions \cup {None, "lost"}]
    BY <1>b DEF TypeOK
  <2> QED
    BY <2>1, <2>2, <2>3 DEF TypeOK
<1>2. ClientInv' /\ PostInv'
  BY DEF ClientInv, PostInv
<1>w. \A r \in Requests : Sent(r)' <=> Sent(r)
  BY DEF Sent
<1>3. QueueInv'
  <2>1. ASSUME NEW r \in Requests, NEW c \in Bastions, NEW k \in DOMAIN pendingOffers'[c],
               pendingOffers'[c][k] = r
        PROVE  r # q /\ peer[r] = c /\ Sent(r) /\ handed[r] = None
    <3>1. CASE c # b
      BY <1>s, <1>h, <2>1, <3>1 DEF QueueInv
    <3>2. CASE c = b
      <4>1. k \in 1..(n - 1) /\ k + 1 \in 1..n /\ 1 \in 1..n /\ k + 1 # 1
        BY <1>q, <1>d, <3>2
      <4>0. pendingOffers'[b][k] = pendingOffers[b][k + 1]
        BY <1>q, <1>s, <4>1
      <4>2. pendingOffers[b][k + 1] = r
        BY <2>1, <3>2, <4>0
      <4> QED
        BY <1>b, <1>q, <3>2, <4>1, <4>2 DEF QueueInv
    <3> QED
      BY <3>1, <3>2
  <2>2. ASSUME NEW c \in Bastions, NEW j \in DOMAIN pendingOffers'[c],
               NEW k \in DOMAIN pendingOffers'[c], pendingOffers'[c][j] = pendingOffers'[c][k]
        PROVE  j = k
    <3>1. CASE c # b
      BY <1>s, <2>2, <3>1 DEF QueueInv
    <3>2. CASE c = b
      <4>1. j \in 1..(n - 1) /\ k \in 1..(n - 1) /\ j + 1 \in 1..n /\ k + 1 \in 1..n
        BY <1>q, <1>d, <3>2
      <4>2. pendingOffers[b][j + 1] = pendingOffers[b][k + 1]
        <5>1. pendingOffers'[b][j] = pendingOffers'[b][k]
          BY <2>2, <3>2, Zenon
        <5>2. /\ Tail(pendingOffers[b])[j] = pendingOffers[b][j + 1]
              /\ Tail(pendingOffers[b])[k] = pendingOffers[b][k + 1]
          BY <1>q, <4>1, Zenon
        <5> QED
          BY <1>s, <5>1, <5>2, Zenon
      <4>3. j + 1 = k + 1
        BY <1>b, <1>q, <4>1, <4>2 DEF QueueInv
      <4> QED
        BY <4>1, <4>3
    <3> QED
      BY <3>1, <3>2
  <2>3. ASSUME NEW r \in Requests, Sent(r), handed'[r] = None
        PROVE  \E k \in DOMAIN pendingOffers'[peer[r]] : pendingOffers'[peer[r]][k] = r
    <3>1. r # q /\ handed[r] = None
      BY <1>s, <1>b, <2>3
    <3>2. PICK k \in DOMAIN pendingOffers[peer[r]] : pendingOffers[peer[r]][k] = r
      BY <2>3, <3>1 DEF QueueInv
    <3>3. CASE peer[r] = b
      <4>1. k \in 1..n /\ k # 1 /\ k - 1 \in 1..(n - 1)
        BY <1>q, <3>1, <3>2, <3>3
      <4>2. PICK m \in 1..(n - 1) : k = m + 1
        BY <1>q, <4>1
      <4>3. pendingOffers'[b][m] = pendingOffers[b][m + 1]
        BY <1>q, <1>s
      <4> QED
        BY <1>d, <3>2, <3>3, <4>2, <4>3
    <3>4. CASE peer[r] # b
      <4>1. peer[r] \in Bastions
        BY <2>3 DEF ClientInv, Sent
      <4> QED
        BY <1>s, <3>2, <3>4, <4>1
    <3> QED
      BY <3>3, <3>4
  <2>4. \A r \in Requests : handed'[r] # None => Sent(r) /\ handed'[r] \in {peer[r], "lost"}
    BY <1>s, <1>h DEF QueueInv
  <2>5. \A r \in Requests, c \in Bastions : \A k \in DOMAIN pendingOffers'[c] :
          pendingOffers'[c][k] = r => peer[r] = c /\ Sent(r) /\ handed'[r] = None
    BY <1>s, <2>1
  <2> QED
    BY <1>w, <2>2, <2>3, <2>4, <2>5 DEF QueueInv
<1>4. PendingAccounted'
  BY ListUntouched
<1>5. ChannelInv'
  BY ChannelUntouched DEF Answered
<1> QED
  BY <1>1, <1>2, <1>3, <1>4, <1>5
----------------------------------------------------------------------------
(* The bastion's answer. *)

\* A malformed answer.
LEMMA RejectPostPreserves ==
  ASSUME SigInv, NEW a \in Posts, RejectPost(a)
  PROVE  SigInv'
<1> USE SignalingAssumption DEF SigInv, RejectPost, clientVars
<1>s. pcPost'[a] = "400" /\ \A x \in Posts : x # a => pcPost'[x] = pcPost[x]
  BY DEF TypeOK
<1>1. TypeOK'
  BY DEF TypeOK
<1>2. ClientInv'
  BY DEF ClientInv
<1>3. QueueInv'
  BY QueueUntouched DEF Sent
<1>4. PendingAccounted'
  BY ListUntouched
<1>5. PostInv'
  BY <1>s DEF PostInv
<1>6. ChannelInv'
  BY <1>s, ChannelUntouched DEF Answered
<1> QED
  BY <1>1, <1>2, <1>3, <1>4, <1>5, <1>6

\* signalingAnswer looks the channel up under the lock.
LEMMA SignalingAnswerPreserves ==
  ASSUME SigInv, NEW a \in Posts, NEW i \in Ids, SignalingAnswer(a, i)
  PROVE  SigInv'
<1> USE SignalingAssumption DEF SigInv, SignalingAnswer, clientVars
<1> DEFINE found == pendingAnswers[i]
<1>f. found \in Requests \cup {None} /\ (found # None => clientID[found] = i)
  BY DEF PendingAccounted, TypeOK
<1>s. /\ pcPost'[a] = IF found = None THEN "410" ELSE "send"
      /\ re'[a] = i /\ ch'[a] = found
      /\ \A x \in Posts : x # a => pcPost'[x] = pcPost[x] /\ re'[x] = re[x] /\ ch'[x] = ch[x]
  BY DEF TypeOK
<1>1. TypeOK'
  BY <1>f DEF TypeOK
<1>2. ClientInv'
  BY DEF ClientInv
<1>3. QueueInv'
  BY QueueUntouched DEF Sent
<1>4. PendingAccounted'
  BY ListUntouched
<1>5. PostInv'
  BY <1>s, <1>f DEF PostInv
<1>6. ChannelInv'
  BY <1>s, ChannelUntouched DEF Answered
<1> QED
  BY <1>1, <1>2, <1>3, <1>4, <1>5, <1>6

\* It sends to that channel without the lock, or finds it full.
LEMMA AnswerSendPreserves ==
  ASSUME SigInv, NEW a \in Posts, AnswerSend(a)
  PROVE  SigInv'
<1> USE SignalingAssumption DEF SigInv, clientVars
<1> DEFINE q == ch[a]
<1>0. /\ pcPost[a] = "send" /\ q \in Requests
      /\ UNCHANGED <<pendingOffers, pendingAnswers, clientVars, poll, ch, re, gone, handed>>
  BY DEF AnswerSend, PostInv, TypeOK
<1>2. ClientInv'
  BY <1>0 DEF ClientInv
<1>3. QueueInv'
  BY <1>0, QueueUntouched DEF Sent
<1>4. PendingAccounted'
  BY <1>0, ListUntouched
<1>f. CASE pcPost' = [pcPost EXCEPT ![a] = "410"] /\ UNCHANGED <<answerCh, accepted>>
  <2>s. pcPost'[a] = "410" /\ \A x \in Posts : x # a => pcPost'[x] = pcPost[x]
    BY <1>f DEF TypeOK
  <2>1. TypeOK'
    BY <1>0, <1>f DEF TypeOK
  <2>2. PostInv'
    BY <1>0, <2>s DEF PostInv
  <2>3. ChannelInv'
    BY <1>0, <1>f, <2>s, ChannelUntouched DEF Answered
  <2> QED
    BY <1>2, <1>3, <1>4, <2>1, <2>2, <2>3
<1>t. CASE /\ answerCh[q] = None
           /\ answerCh' = [answerCh EXCEPT ![q] = a]
           /\ pcPost' = [pcPost EXCEPT ![a] = "200"]
           /\ accepted' = [accepted EXCEPT ![q] = Append(@, a)]
  <2>s. /\ pcPost'[a] = "200" /\ \A x \in Posts : x # a => pcPost'[x] = pcPost[x]
        /\ answerCh'[q] = a /\ accepted'[q] = Append(accepted[q], a)
        /\ \A r \in Requests : r # q => answerCh'[r] = answerCh[r] /\ accepted'[r] = accepted[r]
    BY <1>0, <1>t DEF TypeOK
  <2>1. TypeOK'
    <3>1. accepted' \in [Requests -> Seq(Posts)]
      BY <1>0, <1>t DEF TypeOK
    <3> QED
      BY <1>0, <1>t, <3>1 DEF TypeOK
  <2>2. PostInv'
    BY <1>0, <2>s DEF PostInv
  <2>3. ChannelInv'
    <3> SUFFICES ASSUME NEW r \in Requests
                 PROVE  /\ accepted'[r] = Got(r)' \o Left(r)'
                        /\ answerCh'[r] # None => ch[answerCh'[r]] = r /\ pcPost'[answerCh'[r]] = "200"
                        /\ Answered(r) => ch[reply[r].sdp] = r /\ pcPost'[reply[r].sdp] = "200"
      BY <1>0 DEF ChannelInv, Answered
    <3>1. Got(r)' = Got(r) /\ (Answered(r) => reply[r].sdp \in Posts)
      BY <1>0, ReplyFacts DEF Got, Answered, TypeOK
    <3>2. CASE r = q
      <4>1. accepted[q] = Got(q) /\ Got(q) \in Seq(Posts)
        <5>1. Left(q) = <<>>
          BY <1>t DEF Left
        <5>2. Got(q) \in Seq(Posts)
          BY <3>1, <3>2 DEF Got
        <5> QED
          BY <1>0, <5>1, <5>2 DEF ChannelInv
      <4>2. Left(q)' = <<a>>
        BY <1>0, <2>s DEF Left
      <4>3. Append(Got(q), a) = Got(q) \o <<a>>
        BY <4>1
      <4> QED
        BY <1>0, <2>s, <3>1, <3>2, <4>1, <4>2, <4>3 DEF ChannelInv
    <3>3. CASE r # q
      <4>1. Left(r)' = Left(r) /\ (answerCh[r] # None => answerCh[r] \in Posts)
        BY <2>s, <3>3 DEF Left, TypeOK
      <4>2. /\ accepted[r] = Got(r) \o Left(r)
            /\ answerCh[r] # None => ch[answerCh[r]] = r /\ pcPost[answerCh[r]] = "200"
            /\ Answered(r) => ch[reply[r].sdp] = r /\ pcPost[reply[r].sdp] = "200"
        BY DEF ChannelInv
      <4>3. accepted'[r] = accepted[r] /\ answerCh'[r] = answerCh[r]
        BY <2>s, <3>3
      <4>4. \A x \in Posts : pcPost[x] = "200" => pcPost'[x] = "200"
        BY <2>s
      <4> QED
        BY <3>1, <4>1, <4>2, <4>3, <4>4, Zenon
    <3> QED
      BY <3>2, <3>3
  <2> QED
    BY <1>2, <1>3, <1>4, <2>1, <2>2, <2>3
<1> QED
  BY <1>f, <1>t DEF AnswerSend
----------------------------------------------------------------------------
LEMMA NextPreserves == SigInv /\ [Next]_vars => SigInv'
<1> SUFFICES ASSUME SigInv, [Next]_vars PROVE SigInv'
  OBVIOUS
<1>1. ASSUME NEW q \in Requests, Reject(q) \/ SendOffer(q) \/ SendTimeout(q) \/ Cleanup(q)
      PROVE  SigInv'
  BY <1>1, RejectPreserves, SendOfferPreserves, SendTimeoutPreserves, CleanupPreserves
<1>2. ASSUME NEW q \in Requests, SignalingInitiate(q) \/ SignalingOffer(q) PROVE SigInv'
  BY <1>2, RegisterPreserves DEF SignalingInitiate, SignalingOffer, genClientID
<1>3. ASSUME NEW q \in Requests, WaitTimeout(q) \/ WaitGone(q) PROVE SigInv'
  BY <1>3, WaitFailsPreserves DEF WaitTimeout, WaitGone
<1>4. ASSUME NEW q \in Requests, AnswerInitiate(q) \/ AnswerOffer(q) PROVE SigInv'
  <2>1. answerCh[q] # None /\ answerCh[q] \in Posts /\ clientID[q] \in Ids
    BY <1>4 DEF AnswerInitiate, AnswerOffer, EndWait, SigInv, TypeOK, ClientInv
  <2>2. CASE AnswerInitiate(q)
    BY <2>1, <2>2, ReplyTyped, WaitAnsweredPreserves DEF AnswerInitiate
  <2>3. CASE AnswerOffer(q)
    BY <2>1, <2>3, ReplyTyped, WaitAnsweredPreserves DEF AnswerOffer
  <2> QED
    BY <1>4, <2>2, <2>3
<1>5. ASSUME NEW p \in Polls, PollTake(p) PROVE SigInv'
  BY <1>5, PollTakePreserves
<1>6. ASSUME NEW p \in Polls, PollEmpty(p) \/ \E b \in Bastions : SignalingPoll(p, b)
      PROVE  SigInv'
  <2>1. poll' \in [Polls -> Bastions \cup {None}] /\ gone' \subseteq Requests \cup Polls
    BY <1>6 DEF PollEmpty, PollReturns, SignalingPoll, SigInv, TypeOK
  <2> QED
    BY <1>6, <2>1, PollIdlePreserves DEF PollEmpty, PollReturns, SignalingPoll
<1>7. ASSUME NEW x \in Requests \cup Polls, Disconnect(x) PROVE SigInv'
  <2>1. poll' \in [Polls -> Bastions \cup {None}] /\ gone' \subseteq Requests \cup Polls
    BY <1>7 DEF Disconnect, SigInv, TypeOK
  <2> QED
    BY <1>7, <2>1, PollIdlePreserves DEF Disconnect
<1>8. ASSUME NEW a \in Posts, RejectPost(a) \/ AnswerSend(a) PROVE SigInv'
  BY <1>8, RejectPostPreserves, AnswerSendPreserves
<1>9. ASSUME NEW a \in Posts, NEW i \in Ids, SignalingAnswer(a, i) PROVE SigInv'
  BY <1>9, SignalingAnswerPreserves
<1>10. CASE UNCHANGED vars
  <2>1. poll' \in [Polls -> Bastions \cup {None}] /\ gone' \subseteq Requests \cup Polls
    BY <1>10 DEF vars, SigInv, TypeOK
  <2> QED
    BY <1>10, <2>1, PollIdlePreserves DEF vars
<1> QED
  BY <1>1, <1>2, <1>3, <1>4, <1>5, <1>6, <1>7, <1>8, <1>9, <1>10 DEF Next, Client

\* The inductive invariant of the rendezvous holds in every reachable state.
THEOREM RendezvousInvariant == Spec => []SigInv
  BY InitSigInv, NextPreserves, PTL DEF Spec

\* Every variable keeps its type; no offer queue exceeds its capacity.
THEOREM RendezvousTyped == Spec => []TypeOK
  BY RendezvousInvariant, PTL DEF SigInv

\* pendingAnswers holds the channels of the calls that have not returned, and
\* of the ones that returned a 503; never another's under an id of its own.
THEOREM RendezvousPendingAccounted == Spec => []PendingAccounted
  BY RendezvousInvariant, PTL DEF SigInv

\* The client gets the first answer accepted for it, one that names its client
\* id, and at most one more is accepted after it.
THEOREM RendezvousFirstAnswerWins == Spec => []FirstAnswerWins
<1>1. SigInv => FirstAnswerWins
  <2> SUFFICES ASSUME SigInv, NEW q \in Requests
               PROVE  /\ Answered(q) => /\ accepted[q] # <<>> /\ reply[q].sdp = accepted[q][1]
                                        /\ re[reply[q].sdp] = clientID[q]
                      /\ Len(accepted[q]) <= IF Answered(q) THEN 2 ELSE 1
    BY DEF FirstAnswerWins
  <2> USE SignalingAssumption DEF SigInv
  <2>1. accepted[q] = Got(q) \o Left(q)
    BY DEF ChannelInv
  <2>2. Left(q) \in Seq(Posts) /\ Len(Left(q)) \in {0, 1}
    <3>1. answerCh[q] # None => answerCh[q] \in Posts
      BY DEF TypeOK
    <3> QED
      BY <3>1 DEF Left
  <2>3. CASE Answered(q)
    <3>1. reply[q].sdp \in Posts /\ re[reply[q].sdp] = clientID[q]
      BY <2>3, ReplyFacts DEF Answered, TypeOK, ChannelInv, PostInv
    <3>2. Got(q) \in Seq(Posts) /\ Len(Got(q)) = 1 /\ Got(q)[1] = reply[q].sdp
      BY <2>3, <3>1 DEF Got
    <3>3. accepted[q] \in Seq(Posts) /\ Len(accepted[q]) \in {1, 2} /\ accepted[q][1] = reply[q].sdp
      BY <2>1, <2>2, <3>2, ConcatProperties
    <3>4. accepted[q] # <<>>
      BY <3>3, EmptySeq
    <3>5. Len(accepted[q]) <= 2
      <4>1. \A n \in {1, 2} : n <= 2
        OBVIOUS
      <4> QED
        BY <3>3, <4>1
    <3> QED
      BY <2>3, <3>1, <3>3, <3>4, <3>5
  <2>4. CASE ~Answered(q)
    <3>1. Got(q) = <<>> /\ accepted[q] = Left(q)
      BY <2>1, <2>2, <2>4, ConcatEmptySeq DEF Got
    <3>2. Len(accepted[q]) <= 1
      <4>1. \A n \in {0, 1} : n <= 1
        OBVIOUS
      <4> QED
        BY <2>2, <3>1, <4>1
    <3> QED
      BY <2>4, <3>2
  <2> QED
    BY <2>3, <2>4
<1> QED
  BY <1>1, RendezvousInvariant, PTL

\* An offer is queued once, for its bastion, and leaves the queue for good.
THEOREM RendezvousOfferOnce == Spec => []OfferOnce
<1>1. SigInv => OfferOnce
  <2> SUFFICES ASSUME SigInv, NEW q \in Requests
               PROVE  LET slots == {s \in Bastions \X (1..QueueCap) :
                                      /\ s[2] \in DOMAIN pendingOffers[s[1]]
                                      /\ pendingOffers[s[1]][s[2]] = q}
                      IN /\ Cardinality(slots) = IF Sent(q) /\ handed[q] = None THEN 1 ELSE 0
                         /\ \A s \in slots : s[1] = peer[q]
                         /\ handed[q] \in Bastions => Sent(q) /\ handed[q] = peer[q]
    BY DEF OfferOnce, Sent
  <2> USE SignalingAssumption DEF SigInv
  <2> DEFINE slots == {s \in Bastions \X (1..QueueCap) :
                         /\ s[2] \in DOMAIN pendingOffers[s[1]]
                         /\ pendingOffers[s[1]][s[2]] = q}
  <2>1. \A s \in slots : s[1] = peer[q] /\ Sent(q) /\ handed[q] = None
    BY DEF QueueInv
  <2>2. handed[q] \in Bastions => Sent(q) /\ handed[q] = peer[q]
    BY DEF QueueInv
  <2>3. CASE Sent(q) /\ handed[q] = None
    <3>1. PICK k \in DOMAIN pendingOffers[peer[q]] : pendingOffers[peer[q]][k] = q
      BY <2>3 DEF QueueInv
    <3>2. peer[q] \in Bastions /\ k \in 1..QueueCap
      <4>1. peer[q] \in Bastions
        BY <2>3 DEF Sent, ClientInv
      <4> QED
        BY <3>1, <4>1 DEF TypeOK
    <3>3. slots = {<<peer[q], k>>}
      <4>1. <<peer[q], k>> \in slots
        BY <3>1, <3>2
      <4>2. ASSUME NEW s \in slots PROVE s = <<peer[q], k>>
        <5>1. s[1] = peer[q] /\ s[2] \in DOMAIN pendingOffers[peer[q]] /\ pendingOffers[peer[q]][s[2]] = q
          BY <2>1
        <5>2. s[2] = k
          BY <3>1, <3>2, <5>1 DEF QueueInv
        <5> QED
          BY <5>1, <5>2
      <4> QED
        BY <4>1, <4>2
    <3>4. Cardinality(slots) = 1
      BY <3>3, FS_Singleton
    <3> QED
      BY <2>1, <2>2, <2>3, <3>4
  <2>4. CASE ~(Sent(q) /\ handed[q] = None)
    <3>1. slots = {}
      BY <2>1, <2>4
    <3>2. Cardinality(slots) = 0
      BY <3>1, FS_EmptySet
    <3> QED
      BY <2>1, <2>2, <2>4, <3>2
  <2> QED
    BY <2>3, <2>4
<1> QED
  BY <1>1, RendezvousInvariant, PTL
----------------------------------------------------------------------------
(* The rendezvous implements its abstract specification. *)

\* What the abstract rendezvous calls the result of a call with reply r.
ResultOf(r) ==
  CASE r.status = "none" -> "none"
    [] r.status = "200" -> r.sdp
    [] r.status \in {"400", "503"} -> "refused"
    [] OTHER -> "failed"

Result == [q \in Requests |-> ResultOf(reply[q])]

\* The result of a call, read off its reply.
LEMMA ResultFacts ==
  ASSUME NEW r \in Replies
  PROVE  /\ r.status = "none" <=> ResultOf(r) = "none"
         /\ r.status = "200" => ResultOf(r) = r.sdp /\ ResultOf(r) \in Posts
         /\ r.status \in {"400", "503"} <=> ResultOf(r) = "refused"
         /\ r.status \in {"504", "hangup"} <=> ResultOf(r) = "failed"
  BY ReplyFacts, SignalingAssumption DEF ResultOf

\* A reply to q is a result of q and of no other call.
LEMMA ResultStep ==
  ASSUME SigInv, NEW q \in Requests, NEW r, reply' = [reply EXCEPT ![q] = r]
  PROVE  Result' = [Result EXCEPT ![q] = ResultOf(r)]
  BY DEF Result, SigInv, TypeOK

\* The abstract specification with the refinement mapping filled in.
LEMMA RdvUnfolded ==
  /\ \A q \in Requests, b \in Bastions, i \in Ids :
        Rdv!Open(q, b, i) <=> /\ peer[q] = None /\ Result[q] = "none"
                              /\ peer' = [peer EXCEPT ![q] = b]
                              /\ clientID' = [clientID EXCEPT ![q] = i]
                              /\ UNCHANGED <<handed, Result, re>>
  /\ \A q \in Requests, b \in Bastions \cup {"lost"} :
        Rdv!Take(q, b) <=> /\ peer[q] # None /\ handed[q] = None /\ Result[q] # "refused"
                           /\ b \in {peer[q], "lost"}
                           /\ handed' = [handed EXCEPT ![q] = b]
                           /\ UNCHANGED <<peer, clientID, Result, re>>
  /\ \A a \in Posts, i \in Ids :
        Rdv!Write(a, i) <=> /\ re[a] = None
                            /\ re' = [re EXCEPT ![a] = i]
                            /\ UNCHANGED <<peer, clientID, handed, Result>>
  /\ \A q \in Requests, a \in Posts :
        Rdv!Answer(q, a) <=> /\ Result[q] = "none" /\ peer[q] # None
                             /\ re[a] = clientID[q]
                             /\ \A r \in Requests : Result[r] # a
                             /\ Result' = [Result EXCEPT ![q] = a]
                             /\ UNCHANGED <<peer, clientID, handed, re>>
  /\ \A q \in Requests, f \in {"refused", "failed"} :
        Rdv!Fail(q, f) <=> /\ Result[q] = "none"
                           /\ f = "refused" => handed[q] = None
                           /\ f = "failed" => peer[q] # None
                           /\ Result' = [Result EXCEPT ![q] = f]
                           /\ UNCHANGED <<peer, clientID, handed, re>>
  BY DEF Result, ResultOf, Rdv!Open, Rdv!Take, Rdv!Write, Rdv!Answer, Rdv!Fail

\* A finished answer is no other call's result: its channel is one call's.
LEMMA AnswerIsNew ==
  ASSUME SigInv, NEW q \in Requests, pc[q] = "wait", answerCh[q] # None
  PROVE  \A r \in Requests : Result[r] # answerCh[q]
<1> USE SignalingAssumption DEF SigInv
<1>1. answerCh[q] \in Posts /\ ch[answerCh[q]] = q /\ ~Answered(q)
  BY DEF TypeOK, ChannelInv, ClientInv, Answered
<1> SUFFICES ASSUME NEW r \in Requests, Result[r] = answerCh[q] PROVE FALSE
  OBVIOUS
<1>2. reply[r] \in Replies /\ ResultOf(reply[r]) = answerCh[q]
  BY DEF Result, TypeOK
<1>3. Answered(r) /\ reply[r].sdp = answerCh[q]
  BY <1>1, <1>2, ResultFacts, ReplyFacts DEF Answered
<1> QED
  BY <1>1, <1>3 DEF ChannelInv

\* Every step is a step of Rendezvous, or changes nothing Rendezvous has.
LEMMA StepRefines ==
  ASSUME SigInv, [Next]_vars
  PROVE  [Rdv!Next]_(Rdv!vars)
<1> USE SignalingAssumption DEF SigInv
<1>r. \A q \in Requests : reply[q] \in Replies /\ Result[q] = ResultOf(reply[q])
  BY DEF Result, TypeOK
<1>n. \A q \in Requests : pc[q] \in {"new", "send", "wait"} => Result[q] = "none"
  BY <1>r, ResultFacts DEF ClientInv
<1>0. CASE UNCHANGED <<clientVars, handed, re>>
  BY <1>0 DEF clientVars, Rdv!vars
<1>1. ASSUME NEW q \in Requests, NEW st \in {"400", "503"},
             reply' = [reply EXCEPT ![q] = [status |-> st]], pc[q] \in {"new", "send"},
             UNCHANGED <<peer, clientID, handed, re>>
      PROVE  Rdv!Next
  <2>1. ResultOf([status |-> st]) = "refused"
    BY ReplyTyped, ResultFacts
  <2>2. handed[q] = None
    BY <1>1 DEF QueueInv, Sent
  <2>r. Result' = [Result EXCEPT ![q] = "refused"]
    BY <1>1, <2>1, ResultStep
  <2>3. Rdv!Fail(q, "refused")
    BY <1>1, <1>n, <2>2, <2>r, RdvUnfolded
  <2> QED
    BY <2>3 DEF Rdv!Next
<1>2. ASSUME NEW q \in Requests, NEW b \in Bastions, NEW i \in Ids, Register(q, b, i)
      PROVE  Rdv!Next
  <2>1. Rdv!Open(q, b, i)
    <3>1. /\ pc[q] = "new" /\ peer' = [peer EXCEPT ![q] = b]
          /\ clientID' = [clientID EXCEPT ![q] = i]
          /\ UNCHANGED <<handed, reply, re>>
      BY <1>2 DEF Register, postVars
    <3>2. peer[q] = None /\ Result[q] = "none"
      BY <1>n, <3>1 DEF ClientInv
    <3>3. Result' = Result
      BY <3>1 DEF Result
    <3> QED
      BY <3>1, <3>2, <3>3, RdvUnfolded
  <2> QED
    BY <2>1 DEF Rdv!Next
<1>3. ASSUME NEW q \in Requests, WaitTimeout(q) \/ WaitGone(q)
      PROVE  Rdv!Next
  <2>1. PICK st \in {"504", "hangup"} : EndWait(q, answerCh[q], [status |-> st])
    BY <1>3 DEF WaitTimeout, WaitGone
  <2>2. ResultOf([status |-> st]) = "failed"
    BY ReplyTyped, ResultFacts
  <2>3. peer[q] # None
    BY <2>1 DEF EndWait, ClientInv
  <2>r. Result' = [Result EXCEPT ![q] = "failed"]
    BY <2>1, <2>2, ResultStep DEF EndWait
  <2>4. Rdv!Fail(q, "failed")
    BY <1>n, <2>1, <2>3, <2>r, RdvUnfolded DEF EndWait, postVars
  <2> QED
    BY <2>4 DEF Rdv!Next
<1>4. ASSUME NEW q \in Requests, AnswerInitiate(q) \/ AnswerOffer(q)
      PROVE  Rdv!Next
  <2>a. PICK a \in Posts : a = answerCh[q]
    BY <1>4 DEF AnswerInitiate, AnswerOffer, TypeOK
  <2>1. /\ pc[q] = "wait" /\ a # None /\ clientID[q] \in Ids /\ peer[q] # None
        /\ UNCHANGED <<peer, clientID, handed, re>>
    BY <1>4, <2>a DEF AnswerInitiate, AnswerOffer, EndWait, TypeOK, ClientInv, postVars
  <2>2. PICK told \in Replies : /\ told.status = "200" /\ told.sdp = a
                               /\ reply' = [reply EXCEPT ![q] = told]
    BY <1>4, <2>a, <2>1, ReplyTyped DEF AnswerInitiate, AnswerOffer, EndWait
  <2>3. Result' = [Result EXCEPT ![q] = a]
    <3>1. ResultOf(told) = a
      BY <2>2, ResultFacts
    <3>2. Result' = [Result EXCEPT ![q] = ResultOf(told)]
      BY <2>2, ResultStep
    <3> QED
      BY <3>1, <3>2
  <2>4. re[a] = clientID[q]
    BY <2>a, <2>1 DEF ChannelInv, PostInv
  <2>n. \A r \in Requests : Result[r] # a
    BY <2>a, <2>1, AnswerIsNew
  <2>5. Rdv!Answer(q, a)
    BY <1>n, <2>1, <2>3, <2>4, <2>n, RdvUnfolded
  <2> QED
    BY <2>5 DEF Rdv!Next
<1>5. ASSUME NEW p \in Polls, PollTake(p)
      PROVE  Rdv!Next
  <2> DEFINE b == poll[p]
             q == Head(pendingOffers[b])
             t == IF p \in gone THEN "lost" ELSE b
  <2>1. b \in Bastions /\ pendingOffers[b] \in Seq(Requests) /\ pendingOffers[b] # <<>>
    BY <1>5 DEF PollTake, TypeOK
  <2>2. q \in Requests /\ q = pendingOffers[b][1] /\ 1 \in DOMAIN pendingOffers[b]
    BY <2>1
  <2>3. peer[q] = b /\ Sent(q) /\ handed[q] = None
    BY <2>1, <2>2 DEF QueueInv
  <2>4. Result[q] # "refused"
    BY <1>r, <2>2, <2>3, ResultFacts DEF Sent
  <2>5. UNCHANGED <<peer, clientID, Result, re>> /\ handed' = [handed EXCEPT ![q] = t]
    BY <1>5 DEF PollTake, PollReturns, clientVars, postVars, Result
  <2>6. t \in Bastions \cup {"lost"} /\ t \in {peer[q], "lost"} /\ peer[q] # None
    BY <2>1, <2>3
  <2>7. Rdv!Take(q, t)
    BY <2>2, <2>3, <2>4, <2>5, <2>6, RdvUnfolded
  <2> QED
    BY <2>2, <2>6, <2>7 DEF Rdv!Next
<1>6. ASSUME NEW a \in Posts, NEW i \in Ids, SignalingAnswer(a, i)
      PROVE  Rdv!Next
  <2>1. UNCHANGED <<peer, clientID, handed, Result>>
    BY <1>6 DEF SignalingAnswer, clientVars, Result
  <2>2. Rdv!Write(a, i)
    BY <1>6, <2>1, RdvUnfolded DEF SignalingAnswer, PostInv
  <2> QED
    BY <2>2 DEF Rdv!Next
<1>7. ASSUME NEW q \in Requests, Reject(q) \/ SendTimeout(q) PROVE Rdv!Next
  BY <1>1, <1>7 DEF Reject, SendTimeout, postVars
<1>8. ASSUME NEW q \in Requests, SendOffer(q) \/ Cleanup(q) PROVE Rdv!vars' = Rdv!vars
  BY <1>8 DEF SendOffer, Cleanup, postVars, Rdv!vars
<1>9. ASSUME NEW p \in Polls, PollEmpty(p) \/ \E b \in Bastions : SignalingPoll(p, b)
      PROVE  UNCHANGED <<clientVars, handed, re>>
  BY <1>9 DEF PollEmpty, PollReturns, SignalingPoll, postVars
<1>10. ASSUME NEW x \in Requests \cup Polls, Disconnect(x)
       PROVE  UNCHANGED <<clientVars, handed, re>>
  BY <1>10 DEF Disconnect, postVars
<1>11. ASSUME NEW a \in Posts, RejectPost(a) \/ AnswerSend(a)
       PROVE  UNCHANGED <<clientVars, handed, re>>
  BY <1>11 DEF RejectPost, AnswerSend
<1>12. ASSUME NEW q \in Requests, SignalingInitiate(q) \/ SignalingOffer(q) PROVE Rdv!Next
  BY <1>2, <1>12 DEF SignalingInitiate, SignalingOffer, genClientID
<1>13. CASE UNCHANGED vars
  BY <1>0, <1>13 DEF vars, postVars
<1> QED
  BY <1>0, <1>3, <1>4, <1>5, <1>6, <1>7, <1>8, <1>9, <1>10, <1>11, <1>12, <1>13 DEF Next, Client

\* The handlers implement the abstract rendezvous: an offer is taken once and
\* only by its bastion, a call has one result, and an answer is the result of
\* at most one call, one whose id it names.
THEOREM RendezvousImplemented == Spec => ImplementsRendezvous
<1>1. Init => Rdv!Init
  BY DEF Init, Rdv!Init
<1>2. SigInv /\ [Next]_vars => [Rdv!Next]_(Rdv!vars)
  BY StepRefines
<1> QED
  BY <1>1, <1>2, RendezvousInvariant, PTL DEF Spec, ImplementsRendezvous, Rdv!Spec
=============================================================================
