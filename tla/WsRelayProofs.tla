--------------------------- MODULE WsRelayProofs ---------------------------
(***************************************************************************)
(* The data plane (WsRelay) is correct for any finite number of            *)
(* connections, any buffer of the sockets and any number of frames.        *)
(*                                                                         *)
(* The relay adds frames to WsHub, whose actions its own contain, so       *)
(* HubInv holds of it by construction.  On top of HubInv,                  *)
(* RelayInv follows a frame from the read to the socket: a sender and its  *)
(* targets face each other in a room from the moment of the snapshot and   *)
(* ever after (SnapshotInv), and what is in a socket came that way, in     *)
(* order, and before the frame its sender has in hand (StreamInv).         *)
(***************************************************************************)
EXTENDS WsRelay, WsHubProofs, FiniteSetTheorems, SequenceTheorems

\* s and t joined one bastion, on different sides.  No step undoes this.
Faces(s, t) ==
  /\ pc[s] # "new" /\ pc[t] # "new"
  /\ bastion[s] = bastion[t]
  /\ \/ role[s] = "client" /\ role[t] = "daemon"
     \/ role[s] = "daemon" /\ role[t] = "client"

\* Numbers of frames: nothing is read before the join, and the frames read
\* when a peer joined are among those read now.
CountInv ==
  /\ \A c \in Conns : pc[c] = "new" => sent[c] = 0
  /\ \A t, s \in Conns : base[t][s] <= sent[s]

\* The snapshot names each target once; all face the sender and joined before
\* it read the frame it is fanning out.
SnapshotInv ==
  /\ \A s \in Conns : \A i, j \in DOMAIN targets[s] : targets[s][i] = targets[s][j] => i = j
  /\ \A t, s \in Conns : Awaits(t, s) => Faces(s, t) /\ base[t][s] < sent[s]

\* A frame written to t faces t, has been read, and is not the one its sender
\* has yet to write to t.
StreamInv ==
  \A t \in Conns : \A i \in DOMAIN Written(t) :
     LET f == Written(t)[i]
     IN /\ Faces(f.src, t)
        /\ f.seq <= sent[f.src]
        /\ Awaits(t, f.src) => f.seq < sent[f.src]

\* Frames of one sender are in order.
OrderInv ==
  \A t \in Conns : \A i, j \in DOMAIN Written(t) :
     i < j /\ Written(t)[i].src = Written(t)[j].src
       => Written(t)[i].seq < Written(t)[j].seq

RelayInv ==
  /\ HubInv
  /\ TypeOK
  /\ CountInv
  /\ SnapshotInv
  /\ StreamInv
  /\ OrderInv
  /\ NothingLost

----------------------------------------------------------------------------
(* The relay contains the hub. *)

\* A step of the relay is a step of the hub, or leaves the hub alone.
LEMMA StepIsHubStep ==
  ASSUME [Next]_vars
  PROVE  [HubNext]_hubVars
<1>1. CASE \E c \in Conns : JoinRelay(c) \/ RejectRelay(c) \/ LeaveRelay(c) \/ ReadErrorRelay(c)
  BY <1>1 DEF JoinRelay, RejectRelay, LeaveRelay, ReadErrorRelay, HubNext
<1>2. CASE \E c \in Conns : WriteFrame(c) \/ ReadFrame(c) \/ PeerGone(c) \/ Receive(c)
  BY <1>2 DEF WriteFrame, ReadFrame, PeerGone, Receive
<1>3. CASE Idle \/ UNCHANGED vars
  BY <1>3 DEF Idle, vars
<1> QED
  BY <1>1, <1>2, <1>3 DEF Next, Handler

\* So what is proved of the hub's specification carries over.
LEMMA RelayContainsHub == Spec => HubSpec
<1>1. Init => HubInit
  BY DEF Init
<1>2. [Next]_vars => [HubNext]_hubVars
  BY StepIsHubStep
<1> QED
  BY <1>1, <1>2, PTL DEF Spec, HubSpec

----------------------------------------------------------------------------
(* Sequences. *)

\* A frame that enters the socket goes to the end of what has been written.
LEMMA PutAppends ==
  ASSUME NEW S, NEW a \in Seq(S), NEW b \in Seq(S), NEW f \in S
  PROVE  a \o Append(b, f) = Append(a \o b, f)
<1>1. Append(b, f) = b \o <<f>> /\ Append(a \o b, f) = (a \o b) \o <<f>>
  BY AppendIsConcat, ConcatProperties
<1>2. <<f>> \in Seq(S)
  OBVIOUS
<1> QED
  BY <1>1, <1>2, ConcatAssociative

\* A frame that the peer reads stays where it is in what has been written.
LEMMA ReceiveMoves ==
  ASSUME NEW S, NEW a \in Seq(S), NEW b \in Seq(S), b # <<>>
  PROVE  Append(a, Head(b)) \o Tail(b) = a \o b
<1>1. Head(b) \in S /\ Tail(b) \in Seq(S) /\ b = <<Head(b)>> \o Tail(b)
  BY HeadTailProperties
<1>2. <<Head(b)>> \in Seq(S) /\ Append(a, Head(b)) = a \o <<Head(b)>>
  BY <1>1, AppendIsConcat
<1>3. (a \o <<Head(b)>>) \o Tail(b) = a \o (<<Head(b)>> \o Tail(b))
  BY <1>1, <1>2, ConcatAssociative
<1> QED
  BY <1>1, <1>2, <1>3

\* An iteration order of a finite set names every element of it once.
LEMMA OrderOfSet ==
  ASSUME NEW T, IsFiniteSet(T), NEW order \in SetToSeqs(T)
  PROVE  /\ order \in Seq(T)
         /\ Range(order) = T
         /\ \A i, j \in DOMAIN order : order[i] = order[j] => i = j
<1> DEFINE n == Cardinality(T)
<1>1. n \in Nat
  BY FS_CardinalityType
<1>2. order \in [1..n -> T] /\ \A i, j \in 1..n : order[i] = order[j] => i = j
  BY DEF SetToSeqs
<1>3. order \in Injection(1..n, T)
  BY <1>2 DEF Injection, IsInjective
<1>4. Cardinality(1..n) = n
  BY <1>1, FS_Interval
<1>5. order \in Surjection(1..n, T)
  BY <1>3, <1>4, FS_Injection
<1>6. Range(order) = T
  BY <1>2, <1>5 DEF Surjection, Range
<1>7. order \in Seq(T)
  BY <1>1, <1>2
<1> QED
  BY <1>2, <1>6, <1>7

----------------------------------------------------------------------------
(* Joins and leaves. *)

\* c's handler moves: no other handler does, c's identity is fixed once it has
\* joined, and nobody gets a slot but the one who joins.
Moves(c) ==
  /\ \A d \in Conns \ {c} : /\ pc'[d] = pc[d] /\ role'[d] = role[d]
                            /\ bastion'[d] = bastion[d] /\ room'[d] = room[d]
                            /\ cid'[d] = cid[d]
  /\ pc'[c] # "new"
  /\ pc[c] # "new" => role'[c] = role[c] /\ bastion'[c] = bastion[c]
  /\ pc'[c] = "open" => pc[c] = "new"
  /\ \A t \in Conns \ {c} : pc[t] = "open" /\ Holds(t)' => Holds(t)

\* What a join does to the rooms and to the handlers' registrations.
LEMMA JoinMoves ==
  ASSUME HubInv, NEW c \in Conns, Join(c)
  PROVE  Moves(c)
<1> USE DEF HubInv, HubTypeOK
<1>1. PICK b \in Bastions, r \in RoomIds :
         JoinDaemon(c, b, r) \/ \E id \in ClientIds \cup {c} : JoinClient(c, b, r, id)
  BY DEF Join
<1>2. Enter(c, b, r) /\ pc[c] = "new"
  BY <1>1 DEF JoinDaemon, JoinClient, Enter
<1>3. \A d \in Conns \ {c} : /\ pc'[d] = pc[d] /\ role'[d] = role[d]
                             /\ bastion'[d] = bastion[d] /\ room'[d] = room[d]
                             /\ cid'[d] = cid[d]
  BY <1>1, <1>2 DEF JoinDaemon, JoinClient, Enter
<1>4. pc'[c] = "open"
  BY <1>2 DEF Enter
<1>5. ASSUME NEW t \in Conns \ {c}, pc[t] = "open", Holds(t)'
      PROVE  Holds(t)
  <2>1. room[t] \in RoomIds /\ cid[t] \in Ids /\ rooms[b] = None => room[t] # r
    BY <1>2, <1>5 DEF Enter, RoomFor, Fresh
  <2>2. CASE JoinDaemon(c, b, r)
    BY <2>1, <2>2, <1>3, <1>5 DEF JoinDaemon, Holds, ClientsIn
  <2>3. ASSUME NEW id \in ClientIds \cup {c}, JoinClient(c, b, r, id)
        PROVE  Holds(t)
    BY <2>1, <2>3, <1>3, <1>5 DEF JoinClient, Holds, ClientsIn, DaemonIn, Ids
  <2> QED
    BY <1>1, <2>2, <2>3
<1> QED
  BY <1>2, <1>3, <1>4, <1>5 DEF Moves

\* What the other steps of the hub do to them.
LEMMA OtherMoves ==
  ASSUME HubInv, NEW c \in Conns, Reject(c) \/ ReadError(c) \/ Leave(c)
  PROVE  Moves(c) /\ pc'[c] # "open"
<1> USE DEF HubInv, HubTypeOK
<1>1. CASE Reject(c) \/ ReadError(c) \/ LeaveLookup(c) \/ LeaveReap(c)
  BY <1>1 DEF Reject, ReadError, LeaveLookup, LeaveReap, Return, Moves, Holds
<1>2. CASE LeaveRemove(c)
  <2>1. leaving[c] \in RoomIds
    BY <1>2 DEF LeaveRemove
  <2>2. /\ \A d \in Conns \ {c} : /\ pc'[d] = pc[d] /\ role'[d] = role[d]
                                  /\ bastion'[d] = bastion[d] /\ room'[d] = room[d]
                                  /\ cid'[d] = cid[d]
        /\ pc'[c] \in {"reap", "done"}
        /\ role'[c] = role[c] /\ bastion'[c] = bastion[c]
    BY <1>2 DEF LeaveRemove, Return
  <2>3. ASSUME NEW t \in Conns \ {c}, pc[t] = "open", Holds(t)'
        PROVE  Holds(t)
    <3>1. room[t] \in RoomIds /\ cid[t] \in Ids
      BY <2>3
    <3> QED
      BY <1>2, <2>1, <2>2, <2>3, <3>1, RemovalFacts, ConstantsAssumption
         DEF Holds, DaemonAfter
  <2> QED
    BY <2>2, <2>3 DEF Moves
<1> QED
  BY <1>1, <1>2 DEF Leave

----------------------------------------------------------------------------
(* RelayInv is inductive. *)

LEMMA InitRelayInv == Init => RelayInv
<1> SUFFICES ASSUME Init PROVE RelayInv
  OBVIOUS
<1> USE RelayAssumption DEF Init
<1>1. HubInv /\ HubTypeOK
  BY InitHubInv DEF HubInv
<1>2. TypeOK
  BY <1>1 DEF TypeOK, HubInit
<1>3. \A t \in Conns : Written(t) = <<>> /\ targets[t] = <<>>
  BY EmptySeq, ConcatEmptySeq DEF Written
<1>4. CountInv /\ SnapshotInv /\ StreamInv /\ OrderInv
  BY <1>3 DEF CountInv, SnapshotInv, StreamInv, OrderInv, Awaits, Range
<1>5. NothingLost
  BY DEF NothingLost, HubInit
<1> QED
  BY <1>1, <1>2, <1>4, <1>5 DEF RelayInv

\* What has been written to a peer is a sequence of frames.
LEMMA WrittenTyped ==
  ASSUME TypeOK, NEW t \in Conns
  PROVE  Written(t) \in Seq(Frame)
BY ConcatProperties DEF TypeOK, Written

\* Its entries are frames of connections.
LEMMA WrittenFrames ==
  ASSUME TypeOK, NEW t \in Conns, NEW i \in DOMAIN Written(t)
  PROVE  /\ Written(t)[i] \in Frame
         /\ Written(t)[i].src \in Conns
         /\ Written(t)[i].seq \in 1..MaxFrames
<1>1. Written(t)[i] \in Frame
  BY WrittenTyped, ElementOfSeq
<1> QED
  BY <1>1 DEF Frame

\* Nothing is written to t by s unless they face each other.
LEMMA StrangersWriteNothing ==
  ASSUME TypeOK, StreamInv, NEW t \in Conns, NEW s \in Conns, ~Faces(s, t)
  PROVE  WrittenOf(t, s) = {}
BY WrittenTyped DEF StreamInv, WrittenOf, Range

\* A handler that has nothing to write joins, is rejected or moves towards
\* its return.
LEMMA MembershipPreserves ==
  ASSUME RelayInv, HubInv', NEW c \in Conns, Moves(c), targets[c] = <<>>,
         UNCHANGED <<down, sent, targets, outbox, inbox>>,
         \/ pc'[c] # "open" /\ UNCHANGED base
         \/ pc[c] = "new" /\ base' = [base EXCEPT ![c] = sent]
  PROVE  RelayInv'
<1> USE DEF RelayInv, Moves
<1>0. \A t, s \in Conns : Faces(s, t) => Faces(s, t)'
  BY DEF Faces
<1>1. HubTypeOK'
  BY DEF HubInv
<1>2. TypeOK'
  BY <1>1 DEF TypeOK
<1>3. \A t, s \in Conns : \/ base'[t][s] = base[t][s]
                          \/ t = c /\ pc[c] = "new" /\ base'[t][s] = sent[s]
  BY DEF TypeOK
<1>4. CountInv'
  <2>1. \A t, s \in Conns : sent[s] \in Nat /\ base[t][s] \in Nat
    BY RelayAssumption DEF TypeOK
  <2> QED
    BY <1>3, <2>1 DEF CountInv
<1>5. \A t, s \in Conns : Awaits(t, s)' <=> Awaits(t, s)
  BY DEF Awaits
<1>6. SnapshotInv'
  <2>1. \A t, s \in Conns : Awaits(t, s)' => Faces(s, t)' /\ base'[t][s] < sent'[s]
    BY <1>0, <1>3, <1>5 DEF SnapshotInv, Faces
  <2> QED
    BY <2>1 DEF SnapshotInv
<1>7. \A t \in Conns : Written(t)' = Written(t)
  BY DEF Written
<1>8. StreamInv'
  <2> SUFFICES ASSUME NEW t \in Conns, NEW i \in DOMAIN Written(t)
               PROVE  /\ Faces(Written(t)[i].src, t)'
                      /\ Written(t)[i].seq <= sent[Written(t)[i].src]
                      /\ Awaits(t, Written(t)[i].src) =>
                           Written(t)[i].seq < sent[Written(t)[i].src]
    BY <1>7 DEF StreamInv, Awaits, Faces
  <2>1. PICK f : f = Written(t)[i]
    OBVIOUS
  <2>2. f.src \in Conns
    BY <2>1, WrittenFrames
  <2>3. Faces(f.src, t)'
    BY <1>0, <2>1, <2>2 DEF StreamInv
  <2> QED
    BY <2>1, <2>3, <1>7 DEF StreamInv, Faces
<1>9. OrderInv'
  BY <1>7 DEF OrderInv
<1>10. NothingLost'
  <2> SUFFICES ASSUME NEW t \in Conns, NEW s \in Conns,
                      pc'[t] = "open", t \notin down, Holds(t)', pc'[s] = "open",
                      room'[s] = room'[t], role'[s] # role'[t]
               PROVE  WrittenOf(t, s) =
                        (base'[t][s] + 1)..(sent[s] - (IF Awaits(t, s) THEN 1 ELSE 0))
    BY <1>5, <1>7 DEF NothingLost, WrittenOf
  <2>1. CASE t # c /\ s # c
    BY <2>1, <1>3 DEF NothingLost
  <2>2. CASE t = c
    <3>1. pc[c] = "new" /\ base'[t][s] = sent[s]
      BY <2>2 DEF TypeOK
    <3>2. WrittenOf(t, s) = {} /\ ~Awaits(t, s)
      BY <2>2, <3>1, StrangersWriteNothing DEF SnapshotInv, Faces
    <3>3. sent[s] \in Nat
      BY DEF TypeOK
    <3> QED
      BY <3>1, <3>2, <3>3
  <2>3. CASE s = c /\ t # c
    <3>1. pc[c] = "new" /\ base'[t][s] = 0 /\ sent[s] = 0
      <4>1. base[t][s] \in Nat /\ base'[t][s] = base[t][s]
        BY <2>3, <1>3, RelayAssumption DEF TypeOK
      <4> QED
        BY <2>3, <4>1 DEF CountInv
    <3>2. WrittenOf(t, s) = {} /\ ~Awaits(t, s)
      BY <2>3, <3>1, StrangersWriteNothing DEF SnapshotInv, Faces
    <3> QED
      BY <3>1, <3>2
  <2> QED
    BY <2>1, <2>2, <2>3
<1> QED
  BY <1>2, <1>4, <1>6, <1>8, <1>9, <1>10

\* The network breaks: what the peer has read stays, the rest is gone.
LEMMA PeerGonePreserves ==
  ASSUME RelayInv, HubInv', NEW c \in Conns, PeerGone(c)
  PROVE  RelayInv'
<1> USE DEF RelayInv, PeerGone, hubVars
<1>1. HubTypeOK'
  BY DEF HubInv
<1>2. TypeOK'
  BY <1>1, RelayAssumption DEF TypeOK
<1>3. CountInv'
  BY DEF CountInv
<1>4. SnapshotInv'
  BY DEF SnapshotInv, Awaits, Faces
<1>5. \A t \in Conns \ {c} : Written(t)' = Written(t)
  BY DEF Written, TypeOK
<1>6. /\ DOMAIN Written(c)' \subseteq DOMAIN Written(c)
      /\ \A i \in DOMAIN Written(c)' : Written(c)'[i] = Written(c)[i]
  <2>1. Written(c)' = inbox[c]
    BY ConcatEmptySeq DEF Written, TypeOK
  <2> QED
    BY <2>1, ConcatProperties DEF Written, TypeOK
<1>7. StreamInv'
  BY <1>5, <1>6 DEF StreamInv, Awaits, Faces
<1>8. OrderInv'
  BY <1>5, <1>6 DEF OrderInv
<1>9. NothingLost'
  BY <1>5 DEF NothingLost, WrittenOf, Awaits, Holds
<1> QED
  BY <1>2, <1>3, <1>4, <1>7, <1>8, <1>9

\* The peer reads a frame: what has been written is the same.
LEMMA ReceivePreserves ==
  ASSUME RelayInv, HubInv', NEW c \in Conns, Receive(c)
  PROVE  RelayInv'
<1> USE DEF RelayInv, Receive, hubVars
<1>0. /\ outbox[c] \in Seq(Frame) /\ inbox[c] \in Seq(Frame)
      /\ Head(outbox[c]) \in Frame /\ Tail(outbox[c]) \in Seq(Frame)
      /\ Len(Tail(outbox[c])) = Len(outbox[c]) - 1
  BY HeadTailProperties DEF TypeOK
<1>1. HubTypeOK'
  BY DEF HubInv
<1>2. TypeOK'
  <2>1. Append(inbox[c], Head(outbox[c])) \in Seq(Frame)
    BY <1>0
  <2>2. Len(outbox[c]) \in Nat
    BY <1>0
  <2>3. inbox' \in [Conns -> Seq(Frame)] /\ outbox' \in [Conns -> Seq(Frame)]
    BY <1>0, <2>1 DEF TypeOK
  <2>4. \A t \in Conns : Len(outbox'[t]) <= OutCap
    <3>1. Len(outbox[c]) <= OutCap /\ OutCap \in Nat
      BY RelayAssumption DEF TypeOK
    <3>2. outbox'[c] = Tail(outbox[c]) /\ \A t \in Conns \ {c} : outbox'[t] = outbox[t]
      BY DEF TypeOK
    <3>3. Len(Tail(outbox[c])) <= OutCap
      BY <1>0, <2>2, <3>1
    <3> QED
      BY <3>2, <3>3 DEF TypeOK
  <2> QED
    BY <1>1, <2>3, <2>4 DEF TypeOK
<1>3. CountInv'
  BY DEF CountInv
<1>4. SnapshotInv'
  BY DEF SnapshotInv, Awaits, Faces
<1>5. \A t \in Conns : Written(t)' = Written(t)
  <2>1. Written(c)' = Append(inbox[c], Head(outbox[c])) \o Tail(outbox[c])
    BY DEF Written, TypeOK
  <2>2. Written(c)' = Written(c)
    BY <1>0, <2>1, ReceiveMoves DEF Written
  <2>3. \A t \in Conns \ {c} : Written(t)' = Written(t)
    BY DEF Written, TypeOK
  <2> QED
    BY <2>2, <2>3
<1>6. StreamInv'
  BY <1>5 DEF StreamInv, Awaits, Faces
<1>7. OrderInv'
  BY <1>5 DEF OrderInv
<1>8. NothingLost'
  BY <1>5 DEF NothingLost, WrittenOf, Awaits, Holds
<1> QED
  BY <1>2, <1>3, <1>4, <1>6, <1>7, <1>8

\* The snapshot of fanout faces the handler that takes it: whoever is in the
\* room has not left it, and the room belongs to one bastion.
LEMMA TargetsFace ==
  ASSUME HubInv, NEW c \in Conns, pc[c] = "open"
  PROVE  /\ Targets(c) \subseteq Conns
         /\ \A t \in Targets(c) : Faces(c, t)
<1> USE DEF HubInv, HubTypeOK
<1>1. room[c] \in RoomIds /\ role[c] \in {"client", "daemon"}
  OBVIOUS
<1>2. Targets(c) \subseteq Conns
  BY <1>1 DEF Targets
<1>3. ASSUME NEW t \in Targets(c)
      PROVE  /\ role[t] # role[c] /\ role[t] \in {"client", "daemon"}
             /\ pc[t] # "new" /\ room[t] = room[c]
  BY <1>1, <1>2, <1>3 DEF Targets, RegistrationIsCurrent
<1>4. \A t \in Targets(c) : bastion[c] = bastion[t]
  BY <1>1, <1>2, <1>3 DEF OwnersAgree, Refers
<1> QED
  BY <1>1, <1>2, <1>3, <1>4 DEF Faces

\* A handler reads a frame and takes the snapshot of its targets.
LEMMA ReadFramePreserves ==
  ASSUME RelayInv, HubInv', NEW c \in Conns, ReadFrame(c)
  PROVE  RelayInv'
<1> USE DEF RelayInv, hubVars
<1>1. /\ pc[c] = "open" /\ targets[c] = <<>>
      /\ UNCHANGED <<rooms, daemon, clients, pc, role, bastion, cid, room, leaving>>
      /\ UNCHANGED <<down, outbox, inbox, base>>
      /\ sent[c] < MaxFrames /\ sent' = [sent EXCEPT ![c] = @ + 1]
  BY DEF ReadFrame, AtRead
<1>2. PICK order \in SetToSeqs(Targets(c)) : targets' = [targets EXCEPT ![c] = order]
  BY DEF ReadFrame
<1>3. Targets(c) \subseteq Conns /\ \A t \in Targets(c) : Faces(c, t)
  BY <1>1, TargetsFace
<1>4. /\ order \in Seq(Conns)
      /\ Range(order) = Targets(c)
      /\ \A i, j \in DOMAIN order : order[i] = order[j] => i = j
  <2>1. IsFiniteSet(Targets(c))
    BY <1>3, RelayAssumption, FS_Subset
  <2>2. order \in Seq(Targets(c))
    BY <2>1, OrderOfSet
  <2>3. order \in Seq(Conns)
    BY <1>3, <2>2, SeqMonotonic
  <2> QED
    BY <2>1, <2>3, OrderOfSet
<1>5. targets'[c] = order /\ \A s \in Conns \ {c} : targets'[s] = targets[s]
  BY <1>2 DEF TypeOK
<1>6. \A t, s \in Conns : Awaits(t, s)' <=> IF s = c THEN t \in Targets(c) ELSE Awaits(t, s)
  BY <1>4, <1>5 DEF Awaits
<1>7. \A s \in Conns : /\ sent[s] \in Nat
                       /\ sent'[s] = IF s = c THEN sent[s] + 1 ELSE sent[s]
  BY <1>1, RelayAssumption DEF TypeOK
<1>8. HubTypeOK'
  BY DEF HubInv
<1>9. TypeOK'
  <2>1. sent' \in [Conns -> 0..MaxFrames]
    BY <1>1, <1>7, RelayAssumption DEF TypeOK
  <2> QED
    BY <1>1, <1>2, <1>4, <1>5, <1>8, <2>1 DEF TypeOK
<1>10. \A t, s \in Conns : base[t][s] \in Nat
  BY RelayAssumption DEF TypeOK
<1>11. CountInv'
  BY <1>1, <1>7, <1>10 DEF CountInv
<1>12. SnapshotInv'
  <2>1. \A s \in Conns : \A i, j \in DOMAIN targets'[s] : targets'[s][i] = targets'[s][j] => i = j
    BY <1>4, <1>5 DEF SnapshotInv
  <2>2. \A t, s \in Conns : Awaits(t, s)' => Faces(s, t) /\ base[t][s] < sent'[s]
    BY <1>3, <1>6, <1>7, <1>10 DEF SnapshotInv, CountInv
  <2> QED
    BY <1>1, <2>1, <2>2 DEF SnapshotInv, Faces
<1>13. \A t \in Conns : Written(t)' = Written(t)
  BY <1>1 DEF Written
<1>14. StreamInv'
  <2> SUFFICES ASSUME NEW t \in Conns, NEW i \in DOMAIN Written(t)
               PROVE  /\ Faces(Written(t)[i].src, t)
                      /\ Written(t)[i].seq <= sent'[Written(t)[i].src]
                      /\ Awaits(t, Written(t)[i].src)' =>
                           Written(t)[i].seq < sent'[Written(t)[i].src]
    BY <1>1, <1>13 DEF StreamInv, Faces, Awaits
  <2>1. PICK f : f = Written(t)[i]
    OBVIOUS
  <2>2. f.src \in Conns /\ f.seq \in Nat
    BY <2>1, WrittenFrames, RelayAssumption
  <2>3. /\ Faces(f.src, t) /\ f.seq <= sent[f.src]
        /\ Awaits(t, f.src) => f.seq < sent[f.src]
    BY <2>1 DEF StreamInv
  <2>4. f.seq <= sent'[f.src] /\ (Awaits(t, f.src)' => f.seq < sent'[f.src])
    BY <1>6, <1>7, <2>2, <2>3
  <2> QED
    BY <1>13, <2>1, <2>3, <2>4 DEF Awaits
<1>15. OrderInv'
  BY <1>13 DEF OrderInv
<1>16. NothingLost'
  <2> SUFFICES ASSUME NEW t \in Conns, NEW s \in Conns,
                      pc[t] = "open", t \notin down, Holds(t), pc[s] = "open",
                      room[s] = room[t], role[s] # role[t]
               PROVE  WrittenOf(t, s) =
                        (base[t][s] + 1)..(sent'[s] - (IF Awaits(t, s)' THEN 1 ELSE 0))
    BY <1>1, <1>13 DEF NothingLost, WrittenOf, Holds
  <2>1. CASE s # c
    BY <1>6, <1>7, <2>1 DEF NothingLost
  <2>2. CASE s = c
    <3>1. t \in Targets(c)
      BY <2>2, ConstantsAssumption DEF Targets, Holds, HubInv, HubTypeOK
    <3>2. ~Awaits(t, s)
      BY <1>1, <2>2 DEF Awaits, Range
    <3>3. WrittenOf(t, s) = (base[t][s] + 1)..sent[s]
      BY <1>7, <3>2 DEF NothingLost
    <3>4. Awaits(t, s)' /\ sent'[s] - 1 = sent[s]
      BY <1>6, <1>7, <2>2, <3>1
    <3> QED
      BY <3>3, <3>4
  <2> QED
    BY <2>1, <2>2
<1> QED
  BY <1>9, <1>11, <1>12, <1>14, <1>15, <1>16

\* One iteration of fanout's loop, the write succeeding or failing.
LEMMA WriteFramePreserves ==
  ASSUME RelayInv, HubInv', NEW c \in Conns, WriteFrame(c)
  PROVE  RelayInv'
<1> USE DEF RelayInv, hubVars
<1>1. PICK t : t = Head(targets[c])
  OBVIOUS
<1>2. /\ targets[c] # <<>>
      /\ \/ t \in down /\ UNCHANGED outbox
         \/ t \notin down /\ Put(c, t)
      /\ targets' = [targets EXCEPT ![c] = Tail(@)]
      /\ UNCHANGED <<rooms, daemon, clients, pc, role, bastion, cid, room, leaving>>
      /\ UNCHANGED <<down, sent, inbox, base>>
  BY <1>1 DEF WriteFrame
<1>3. /\ targets[c] \in Seq(Conns) /\ t \in Conns /\ t = targets[c][1]
      /\ Tail(targets[c]) \in Seq(Conns)
      /\ DOMAIN targets[c] = 1..Len(targets[c]) /\ Len(targets[c]) \in Nat \ {0}
      /\ DOMAIN Tail(targets[c]) = 1..(Len(targets[c]) - 1)
      /\ \A i \in 1..(Len(targets[c]) - 1) : Tail(targets[c])[i] = targets[c][i + 1]
  <2>1. targets[c] \in Seq(Conns) /\ targets[c] # <<>>
    BY <1>2 DEF TypeOK
  <2> QED
    BY <1>1, <2>1, HeadTailProperties, LenProperties
<1>4. targets'[c] = Tail(targets[c]) /\ \A s \in Conns \ {c} : targets'[s] = targets[s]
  BY <1>2 DEF TypeOK
<1>5. /\ Awaits(t, c)
      /\ \A d, s \in Conns : Awaits(d, s)' <=> Awaits(d, s) /\ ~(d = t /\ s = c)
  <2>1. Awaits(t, c)
    BY <1>3 DEF Awaits, Range
  <2>2. \A i, j \in DOMAIN targets[c] : targets[c][i] = targets[c][j] => i = j
    BY DEF SnapshotInv
  <2>3. ASSUME NEW d \in Conns
        PROVE  d \in Range(Tail(targets[c])) <=> d \in Range(targets[c]) /\ d # t
    <3>1. ASSUME NEW i \in DOMAIN Tail(targets[c]), Tail(targets[c])[i] = d
          PROVE  d \in Range(targets[c]) /\ d # t
      BY <1>3, <2>2, <3>1 DEF Range
    <3>2. ASSUME NEW i \in DOMAIN targets[c], targets[c][i] = d, d # t
          PROVE  d \in Range(Tail(targets[c]))
      <4>1. i \in Nat /\ 1 < i /\ i <= Len(targets[c])
        BY <1>3, <3>2
      <4>2. PICK m \in 1..(Len(targets[c]) - 1) : i = m + 1
        BY <1>3, <4>1
      <4>3. m \in DOMAIN Tail(targets[c]) /\ Tail(targets[c])[m] = d
        BY <1>3, <3>2, <4>2
      <4> QED
        BY <4>3 DEF Range
    <3> QED
      BY <3>1, <3>2 DEF Range
  <2> QED
    BY <1>4, <2>1, <2>3 DEF Awaits
<1>6. Faces(c, t) /\ base[t][c] < sent[c]
  BY <1>3, <1>5 DEF SnapshotInv
<1>7. /\ \A d, s \in Conns : sent[s] \in Nat /\ base[d][s] \in Nat
      /\ sent[c] \in 1..MaxFrames
  <2>1. \A d, s \in Conns : sent[s] \in Nat /\ base[d][s] \in Nat /\ sent[s] <= MaxFrames
    BY RelayAssumption DEF TypeOK
  <2> QED
    BY <1>3, <1>6, <2>1, RelayAssumption
<1>8. PICK f : f = [src |-> c, seq |-> sent[c]]
  OBVIOUS
<1>9. f \in Frame /\ f.src = c /\ f.seq = sent[c]
  BY <1>7, <1>8 DEF Frame
<1>10. HubTypeOK'
  BY DEF HubInv
<1>11. TypeOK'
  <2>1. targets' \in [Conns -> Seq(Conns)] /\ \A d \in Conns : targets'[d] # <<>> => pc'[d] = "open"
    BY <1>2, <1>3, <1>4 DEF TypeOK
  <2>2. outbox' \in [Conns -> Seq(Frame)] /\ \A d \in Conns : Len(outbox'[d]) <= OutCap
    <3>1. CASE UNCHANGED outbox
      BY <3>1 DEF TypeOK
    <3>2. CASE Put(c, t)
      <4>1. outbox[t] \in Seq(Frame) /\ Len(outbox[t]) < OutCap /\ Len(outbox[t]) \in Nat
        BY <1>3, <3>2 DEF TypeOK, Put
      <4>2. outbox' = [outbox EXCEPT ![t] = Append(outbox[t], f)]
        BY <1>8, <3>2 DEF Put
      <4>3. /\ Append(outbox[t], f) \in Seq(Frame)
            /\ Len(Append(outbox[t], f)) <= OutCap
        BY <1>9, <4>1, AppendProperties, RelayAssumption
      <4>4. \A d \in Conns : outbox'[d] = IF d = t THEN Append(outbox[t], f) ELSE outbox[d]
        BY <4>2 DEF TypeOK
      <4>5. outbox' \in [Conns -> Seq(Frame)]
        BY <1>3, <4>2, <4>3 DEF TypeOK
      <4> QED
        BY <4>3, <4>4, <4>5 DEF TypeOK
    <3> QED
      BY <1>2, <3>1, <3>2
  <2> QED
    BY <1>2, <1>10, <2>1, <2>2 DEF TypeOK
<1>12. CountInv'
  BY <1>2 DEF CountInv
<1>13. SnapshotInv'
  <2>1. \A s \in Conns : \A i, j \in DOMAIN targets'[s] : targets'[s][i] = targets'[s][j] => i = j
    <3>1. \A s \in Conns \ {c} : \A i, j \in DOMAIN targets'[s] : targets'[s][i] = targets'[s][j] => i = j
      BY <1>4 DEF SnapshotInv
    <3>2. ASSUME NEW i \in DOMAIN targets'[c], NEW j \in DOMAIN targets'[c], targets'[c][i] = targets'[c][j]
          PROVE  i = j
      <4>1. /\ i + 1 \in DOMAIN targets[c] /\ j + 1 \in DOMAIN targets[c]
            /\ targets[c][i + 1] = targets[c][j + 1]
        BY <1>3, <1>4, <3>2
      <4>2. i + 1 = j + 1
        BY <4>1 DEF SnapshotInv
      <4> QED
        BY <1>3, <1>4, <4>2
    <3> QED
      BY <3>1, <3>2
  <2>2. \A d, s \in Conns : Awaits(d, s)' => Faces(s, d)' /\ base'[d][s] < sent'[s]
    BY <1>2, <1>5 DEF SnapshotInv, Faces
  <2> QED
    BY <2>1, <2>2 DEF SnapshotInv
<1>14. CASE t \in down /\ UNCHANGED outbox
  <2>1. \A d \in Conns : Written(d)' = Written(d)
    BY <1>2, <1>14 DEF Written
  <2>2. StreamInv' /\ OrderInv'
    <3>1. ASSUME NEW d \in Conns, NEW i \in DOMAIN Written(d)
          PROVE  Awaits(d, Written(d)[i].src)' => Awaits(d, Written(d)[i].src)
      BY <1>5, <2>1, WrittenFrames DEF Awaits
    <3>2. StreamInv'
      BY <1>2, <2>1, <3>1 DEF StreamInv, Faces, Awaits
    <3> QED
      BY <2>1, <3>2 DEF OrderInv
  <2>3. NothingLost'
    BY <1>2, <1>5, <1>14, <2>1 DEF NothingLost, WrittenOf, Holds
  <2> QED
    BY <1>11, <1>12, <1>13, <2>2, <2>3
<1>15. CASE t \notin down /\ Put(c, t)
  <2>1. \A d \in Conns \ {t} : Written(d)' = Written(d)
    BY <1>2, <1>15 DEF Written, Put, TypeOK
  <2>2. PICK q : q = Written(t)
    OBVIOUS
  <2>3. q \in Seq(Frame)
    BY <1>3, <2>2, WrittenTyped
  <2>4. Written(t)' = Append(q, f)
    <3>1. inbox'[t] = inbox[t] /\ outbox'[t] = Append(outbox[t], f)
      BY <1>2, <1>3, <1>8, <1>15 DEF Put, TypeOK
    <3>2. inbox[t] \in Seq(Frame) /\ outbox[t] \in Seq(Frame)
      BY <1>3 DEF TypeOK
    <3>3. inbox[t] \o Append(outbox[t], f) = Append(inbox[t] \o outbox[t], f)
      <4>1. f \in Frame
        BY <1>9
      <4>2. \A a, b \in Seq(Frame) : a \o Append(b, f) = Append(a \o b, f)
        BY <4>1, PutAppends
      <4> QED
        BY <3>2, <4>2, Zenon
    <3> QED
      BY <2>2, <3>1, <3>3 DEF Written
  <2>5. PICK n : n = Len(q)
    OBVIOUS
  <2>6. /\ n \in Nat /\ DOMAIN q = 1..n /\ DOMAIN Append(q, f) = 1..(n + 1)
        /\ Append(q, f)[n + 1] = f
        /\ \A i \in 1..n : Append(q, f)[i] = q[i]
    BY <1>9, <2>3, <2>5, AppendProperties, LenProperties
  <2>7. ASSUME NEW i \in 1..n
        PROVE  /\ q[i].src \in Conns /\ q[i].seq \in Nat
               /\ Faces(q[i].src, t)
               /\ q[i].seq <= sent[q[i].src]
               /\ Awaits(t, q[i].src) => q[i].seq < sent[q[i].src]
    BY <1>3, <2>2, <2>6, WrittenFrames, RelayAssumption DEF StreamInv
  <2>8. StreamInv'
    <3>1. ASSUME NEW d \in Conns \ {t}, NEW i \in DOMAIN Written(d)
          PROVE  Awaits(d, Written(d)[i].src)' => Awaits(d, Written(d)[i].src)
      BY <1>5, <2>1, WrittenFrames DEF Awaits
    <3>2. ASSUME NEW d \in Conns \ {t}, NEW i \in DOMAIN Written(d)'
          PROVE  LET g == Written(d)[i]
                 IN (Faces(g.src, d) /\ g.seq <= sent[g.src]
                       /\ (Awaits(d, g.src) => g.seq < sent[g.src]))'
      BY <1>2, <2>1, <3>1 DEF StreamInv, Faces, Awaits
    <3>3. ASSUME NEW i \in 1..(n + 1), NEW g, g = Append(q, f)[i]
          PROVE  /\ Faces(g.src, t) /\ g.seq <= sent[g.src]
                 /\ g.src \in Conns
                 /\ Awaits(t, g.src) /\ g.src # c => g.seq < sent[g.src]
      <4>1. CASE i \in 1..n
        BY <2>6, <2>7, <3>3, <4>1
      <4>2. CASE i = n + 1
        BY <1>6, <1>7, <1>9, <2>6, <3>3, <4>2
      <4> QED
        BY <2>6, <4>1, <4>2
    <3>4. ASSUME NEW i \in 1..(n + 1)
          PROVE  LET g == Append(q, f)[i]
                 IN /\ Faces(g.src, t)'
                    /\ g.seq <= sent[g.src]
                    /\ Awaits(t, g.src)' => g.seq < sent[g.src]
      <4>1. PICK g : g = Append(q, f)[i]
        OBVIOUS
      <4>2. /\ Faces(g.src, t) /\ g.seq <= sent[g.src]
            /\ g.src \in Conns
            /\ Awaits(t, g.src) /\ g.src # c => g.seq < sent[g.src]
        BY <3>3, <4>1
      <4>3. Faces(g.src, t)' /\ (Awaits(t, g.src)' => Awaits(t, g.src) /\ g.src # c)
        BY <1>2, <1>3, <1>5, <4>2 DEF Faces
      <4> QED
        BY <4>1, <4>2, <4>3
    <3> QED
      BY <1>2, <2>4, <2>6, <3>2, <3>4 DEF StreamInv, Faces, Awaits
  <2>9. OrderInv'
    <3>1. ASSUME NEW i \in 1..(n + 1), NEW j \in 1..(n + 1), i < j,
                 Append(q, f)[i].src = Append(q, f)[j].src
          PROVE  Append(q, f)[i].seq < Append(q, f)[j].seq
      <4>1. i \in 1..n /\ Append(q, f)[i] = q[i]
        BY <2>6, <3>1
      <4>2. CASE j \in 1..n
        BY <1>3, <2>2, <2>6, <3>1, <4>1, <4>2 DEF OrderInv
      <4>3. CASE j = n + 1
        <5>1. q[i].src = c
          BY <1>9, <2>6, <3>1, <4>1, <4>3
        <5>2. q[i].seq < sent[c]
          BY <1>5, <2>7, <4>1, <5>1
        <5> QED
          BY <1>9, <2>6, <4>1, <4>3, <5>2
      <4> QED
        BY <2>6, <4>2, <4>3
    <3> QED
      BY <2>1, <2>4, <2>6, <3>1 DEF OrderInv
  <2>10. NothingLost'
    <3> SUFFICES ASSUME NEW d \in Conns, NEW s \in Conns,
                        pc[d] = "open", d \notin down, Holds(d), pc[s] = "open",
                        room[s] = room[d], role[s] # role[d]
                 PROVE  WrittenOf(d, s)' =
                          (base[d][s] + 1)..(sent[s] - (IF Awaits(d, s)' THEN 1 ELSE 0))
      BY <1>2 DEF NothingLost, Holds
    <3>1. CASE d # t
      BY <1>5, <2>1, <3>1 DEF NothingLost, WrittenOf
    <3>2. CASE d = t
      <4>1. Range(Append(q, f)) = Range(q) \cup {f}
        BY <2>6 DEF Range
      <4>2. CASE s # c
        <5>1. \A m : [src |-> s, seq |-> m] # f
          BY <1>9, <4>2
        <5>2. WrittenOf(d, s)' = WrittenOf(d, s)
          BY <2>2, <2>4, <3>2, <4>1, <5>1 DEF WrittenOf
        <5> QED
          BY <1>5, <3>2, <4>2, <5>2 DEF NothingLost
      <4>3. CASE s = c
        <5>1. \A m : [src |-> s, seq |-> m] = f <=> m = sent[c]
          BY <1>8, <4>3
        <5>2. WrittenOf(d, s)' = WrittenOf(d, s) \cup {sent[c]}
          BY <1>7, <2>2, <2>4, <3>2, <4>1, <5>1 DEF WrittenOf
        <5>3. WrittenOf(d, s) = (base[d][s] + 1)..(sent[s] - 1)
          BY <1>5, <3>2, <4>3 DEF NothingLost
        <5>4. ((base[d][s] + 1)..(sent[s] - 1)) \cup {sent[c]} = (base[d][s] + 1)..sent[s]
          BY <1>6, <1>7, <3>2, <4>3
        <5>5. ~Awaits(d, s)'
          BY <1>5, <3>2, <4>3
        <5> QED
          BY <1>7, <5>2, <5>3, <5>4, <5>5
      <4> QED
        BY <4>2, <4>3
    <3> QED
      BY <3>1, <3>2
  <2> QED
    BY <1>11, <1>12, <1>13, <2>8, <2>9, <2>10
<1> QED
  BY <1>2, <1>14, <1>15

LEMMA RelayNextPreserves == RelayInv /\ [Next]_vars => RelayInv'
<1> SUFFICES ASSUME RelayInv, [Next]_vars PROVE RelayInv'
  OBVIOUS
<1>1. HubInv'
  BY StepIsHubStep, NextPreserves DEF RelayInv
<1>2. ASSUME NEW c \in Conns, JoinRelay(c)
      PROVE  RelayInv'
  <2>1. pc[c] = "new"
    BY <1>2 DEF JoinRelay, Join, JoinDaemon, JoinClient, Enter
  <2>2. Moves(c) /\ targets[c] = <<>>
    BY <1>2, <2>1, JoinMoves DEF JoinRelay, RelayInv, TypeOK
  <2> QED
    BY <1>1, <1>2, <2>1, <2>2, MembershipPreserves DEF JoinRelay
<1>3. ASSUME NEW c \in Conns, RejectRelay(c) \/ LeaveRelay(c) \/ ReadErrorRelay(c)
      PROVE  RelayInv'
  <2>1. targets[c] = <<>>
    BY <1>3 DEF RelayInv, TypeOK, RejectRelay, LeaveRelay, ReadErrorRelay, AtRead,
                Reject, Leave, LeaveLookup, LeaveRemove, LeaveReap
  <2>2. Moves(c) /\ pc'[c] # "open" /\ UNCHANGED frameVars
    BY <1>3, OtherMoves DEF RelayInv, RejectRelay, LeaveRelay, ReadErrorRelay
  <2> QED
    BY <1>1, <2>1, <2>2, MembershipPreserves DEF frameVars
<1>4. CASE \E c \in Conns : ReadFrame(c) \/ WriteFrame(c) \/ PeerGone(c) \/ Receive(c)
  BY <1>1, <1>4, ReadFramePreserves, WriteFramePreserves, PeerGonePreserves, ReceivePreserves
<1>5. CASE Idle \/ UNCHANGED vars
  <2>1. UNCHANGED <<pc, role, bastion, cid, room, daemon, clients>>
    BY <1>5 DEF Idle, vars, hubVars
  <2>2. UNCHANGED <<down, sent, targets, outbox, inbox, base>>
    BY <1>5 DEF Idle, vars, frameVars
  <2>3. HubTypeOK'
    BY <1>1 DEF HubInv
  <2>4. TypeOK' /\ CountInv'
    BY <2>1, <2>2, <2>3 DEF RelayInv, TypeOK, CountInv
  <2>5. SnapshotInv'
    BY <2>1, <2>2 DEF RelayInv, SnapshotInv, Awaits, Faces
  <2>6. \A t \in Conns : Written(t)' = Written(t)
    BY <2>2 DEF Written
  <2>7. StreamInv' /\ OrderInv' /\ NothingLost'
    BY <2>1, <2>2, <2>6
       DEF RelayInv, StreamInv, OrderInv, NothingLost, WrittenOf, Awaits, Faces, Holds
  <2> QED
    BY <1>1, <2>4, <2>5, <2>7 DEF RelayInv
<1> QED
  BY <1>2, <1>3, <1>4, <1>5 DEF Next, Handler

----------------------------------------------------------------------------
(* The results. *)

\* Every step of the handlers, of the sockets and of the peers keeps RelayInv.
THEOREM RelayInvariant == Spec => []RelayInv
BY InitRelayInv, RelayNextPreserves, PTL DEF Spec

\* Sockets stay within their buffer, and only a handler in its read loop has a
\* frame in hand.
THEOREM RelayTyped == Spec => []TypeOK
<1>1. RelayInv => TypeOK
  BY DEF RelayInv
<1> QED
  BY <1>1, RelayInvariant, PTL

\* fanout never carries a frame to another bastion or back to the sender's
\* side, and no peer gets the frames of one sender twice or out of order.
THEOREM RelayInOrderOnce == Spec => []InOrderOnce
<1>1. RelayInv => InOrderOnce
  <2> SUFFICES ASSUME RelayInv PROVE InOrderOnce
    OBVIOUS
  <2>1. ASSUME NEW t \in Conns, NEW i \in DOMAIN Written(t)
        PROVE  /\ bastion[Written(t)[i].src] = bastion[t]
               /\ {role[Written(t)[i].src], role[t]} = {"client", "daemon"}
    BY DEF RelayInv, StreamInv, Faces
  <2> QED
    BY <2>1 DEF InOrderOnce, RelayInv, OrderInv
<1> QED
  BY <1>1, RelayInvariant, PTL

\* The connection that holds its slot gets every frame sent to its side since
\* it joined, whoever held the slot before and whichever rooms came and went.
THEOREM RelayNothingLost == Spec => []NothingLost
<1>1. RelayInv => NothingLost
  BY DEF RelayInv
<1> QED
  BY <1>1, RelayInvariant, PTL

\* What joinRoom and leaveRoom guarantee holds with frames in flight, blocked
\* writes and broken sockets around them.
THEOREM RelayKeepsHub ==
  Spec => /\ [](RegistrationIsCurrent /\ RoomsIsolated)
          /\ [](EmptyRoomIsBeingReaped /\ UncontestedIsRegistered)
          /\ DaemonKeepsSlot /\ SlotBelongsToId
<1> QED
  BY RelayContainsHub, HubRegistrationIsCurrent, HubRoomsIsolated, HubEmptyRoomIsBeingReaped,
     HubUncontestedIsRegistered, HubDaemonKeepsSlot, HubSlotBelongsToId, PTL
=============================================================================
