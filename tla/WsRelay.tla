------------------------------ MODULE WsRelay ------------------------------
(***************************************************************************)
(* The WebSocket data plane: the read loop of HandleHTTP and Room.fanout,  *)
(* on top of the room membership of WsHub (src/internal/wsrelay/           *)
(* wsrelay.go).  Each handler reads one frame, takes a snapshot of its     *)
(* targets under Room.mu, and writes to them one after the other without   *)
(* the lock; only then does it read the next frame.                        *)
(*                                                                         *)
(* External: the sockets.  A socket holds OutCap frames its peer has not   *)
(* read; a write to a full one blocks (the request context that bounds it  *)
(* is that of the writing handler), a write to a broken or closed one      *)
(* fails and the error is dropped.                                         *)
(***************************************************************************)
EXTENDS WsHub, SequencesExt

CONSTANTS
  MaxFrames,  \* bound: frames a peer sends on one connection
  MaxTotal,   \* bound: frames sent on all connections
  OutCap,     \* frames a socket buffers for a peer that does not read
  Slow        \* connections whose peer may stop reading for good

ASSUME RelayAssumption ==
  /\ MaxFrames \in Nat
  /\ MaxTotal \in Nat
  /\ OutCap \in Nat \ {0}
  /\ Slow \subseteq Conns
  /\ IsFiniteSet(Conns)

VARIABLES
  down,       \* connections whose network connection is broken
  sent,       \* frames read from a connection so far
  targets,    \* fanout's `targets` still to be written, for the last frame
  outbox,     \* frames in the socket, not yet read by the peer
  inbox,      \* history: frames the peer of a connection has read, in order
  base        \* history: base[t][s] is sent[s] when t joined

frameVars == <<down, sent, targets, outbox, inbox, base>>
vars == <<hubVars, frameVars>>

Frame == [src : Conns, seq : 1..MaxFrames]

\* Shape of the state; sockets never exceed their buffer, only a handler in
\* its read loop has a frame in hand.
TypeOK ==
  /\ HubTypeOK
  /\ down \subseteq Conns
  /\ sent \in [Conns -> 0..MaxFrames]
  /\ targets \in [Conns -> Seq(Conns)]
  /\ outbox \in [Conns -> Seq(Frame)]
  /\ inbox \in [Conns -> Seq(Frame)]
  /\ base \in [Conns -> [Conns -> 0..MaxFrames]]
  /\ \A c \in Conns : /\ Len(outbox[c]) <= OutCap
                      /\ targets[c] # <<>> => pc[c] = "open"

Init ==
  /\ HubInit
  /\ down = {}
  /\ sent = [c \in Conns |-> 0]
  /\ targets = [c \in Conns |-> <<>>]
  /\ outbox = [c \in Conns |-> <<>>]
  /\ inbox = [c \in Conns |-> <<>>]
  /\ base = [t \in Conns |-> [s \in Conns |-> 0]]

----------------------------------------------------------------------------
(* Membership, as in WsHub. *)

JoinRelay(c) ==
  /\ Join(c)
  /\ base' = [base EXCEPT ![c] = sent]
  /\ UNCHANGED <<down, sent, targets, outbox, inbox>>

RejectRelay(c) == Reject(c) /\ UNCHANGED frameVars

LeaveRelay(c) == Leave(c) /\ UNCHANGED frameVars

\* Slip: the next read does not wait for fanout.
AtReadAlways(c) == pc[c] = "open"

\* The handler is in ws.Read: it has written the last frame to all targets.
AtRead(c) == pc[c] = "open" /\ targets[c] = <<>>

\* The read loop notices the broken connection only when it reads.
ReadErrorRelay(c) ==
  /\ AtRead(c)
  /\ c \in down
  /\ ReadError(c)
  /\ UNCHANGED frameVars

----------------------------------------------------------------------------
(* Frames. *)

\* External: the peer goes away, or the network to it breaks.
PeerGone(c) ==
  /\ pc[c] = "open"
  /\ c \notin down
  /\ down' = down \cup {c}
  /\ outbox' = [outbox EXCEPT ![c] = <<>>]
  /\ UNCHANGED <<hubVars, sent, targets, inbox, base>>

\* fanout's snapshot: the daemon for a client, all clients for the daemon.
Targets(c) ==
  IF role[c] = "client" THEN {daemon[room[c]]} \ {None}
                        ELSE {clients[room[c]][i] : i \in Ids} \ {None}

\* The frames read so far, for the bound.
FramesRead == {f \in Conns \X (1..MaxFrames) : f[2] <= sent[f[1]]}

\* ws.Read returns a frame, one that was still buffered if the peer is gone, and
\* fanout takes its targets under Room.mu, the clients in the order in which the
\* map happens to be iterated.
ReadFrame(c) ==
  /\ AtRead(c)
  /\ sent[c] < MaxFrames /\ Cardinality(FramesRead) < MaxTotal
  /\ sent' = [sent EXCEPT ![c] = @ + 1]
  /\ \E order \in SetToSeqs(Targets(c)) : targets' = [targets EXCEPT ![c] = order]
  /\ UNCHANGED <<hubVars, down, outbox, inbox, base>>

\* The frame c's handler is fanning out, written to t's socket.
Put(c, t) ==
  /\ Len(outbox[t]) < OutCap
  /\ outbox' = [outbox EXCEPT ![t] = Append(@, [src |-> c, seq |-> sent[c]])]

\* Slip: a write that fills the socket is taken for incomplete and repeated.
WriteFrameRepeated(c) ==
  LET t == Head(targets[c])
  IN /\ targets[c] # <<>>
     /\ \/ t \in down /\ UNCHANGED outbox
        \/ t \notin down /\ Put(c, t)
     /\ targets' = [targets EXCEPT ![c] =
                      IF Len(outbox'[t]) = OutCap THEN @ ELSE Tail(@)]
     /\ UNCHANGED <<hubVars, down, sent, inbox, base>>

\* Slip: the write to a broken connection is retried until it succeeds.
WriteFrameRetried(c) ==
  LET t == Head(targets[c])
  IN /\ targets[c] # <<>>
     /\ t \notin down
     /\ Put(c, t)
     /\ targets' = [targets EXCEPT ![c] = Tail(@)]
     /\ UNCHANGED <<hubVars, down, sent, inbox, base>>

\* One iteration of fanout's loop, t.ws.Write for the next target: the frame
\* enters t's socket, waiting for space in it, or the connection is broken or
\* closed and the error is ignored.
WriteFrame(c) ==
  LET t == Head(targets[c])
  IN /\ targets[c] # <<>>
     /\ \/ t \in down /\ UNCHANGED outbox
        \/ t \notin down /\ Put(c, t)
     /\ targets' = [targets EXCEPT ![c] = Tail(@)]
     /\ UNCHANGED <<hubVars, down, sent, inbox, base>>

\* External: the peer reads the next frame from its socket.
Receive(t) ==
  /\ t \notin down
  /\ outbox[t] # <<>>
  /\ inbox' = [inbox EXCEPT ![t] = Append(@, Head(outbox[t]))]
  /\ outbox' = [outbox EXCEPT ![t] = Tail(@)]
  /\ UNCHANGED <<hubVars, down, sent, targets, base>>

----------------------------------------------------------------------------
Handler(c) == LeaveRelay(c) \/ ReadErrorRelay(c) \/ WriteFrame(c)

\* All peers are silent and everything has been delivered.
Idle ==
  /\ \A c \in Conns : pc[c] \in {"open", "done"} /\ targets[c] = <<>>
  /\ UNCHANGED vars

Next ==
  \/ \E c \in Conns : JoinRelay(c) \/ RejectRelay(c) \/ Handler(c) \/ ReadFrame(c)
  \/ \E c \in Conns : PeerGone(c) \/ Receive(c)
  \/ Idle

Spec == Init /\ [][Next]_vars

\* Handlers are scheduled; a peer that is not slow reads what is sent to it.
\* No peer has to connect, send or disconnect.
Fairness ==
  /\ \A c \in Conns : WF_vars(Handler(c))
  /\ \A t \in Conns \ Slow : WF_vars(Receive(t))

FairSpec == Spec /\ Fairness

----------------------------------------------------------------------------
(* Properties. *)

\* The frame s is fanning out has not yet been written to t.
Awaits(t, s) == t \in Range(targets[s])

\* What has been written to t: read by the peer or still in the socket.
Written(t) == inbox[t] \o outbox[t]

\* Frames reach only peers of their sender's bastion, on the other side of the
\* room, although fanout uses the room its handler joined, which may no longer
\* be the one the hub routes to; and no peer gets the frames of one sender twice
\* or out of order, whichever other handlers write to the same socket.
InOrderOnce ==
  \A t \in Conns :
     LET q == Written(t)
     IN /\ \A i \in DOMAIN q :
              /\ bastion[q[i].src] = bastion[t]
              /\ {role[q[i].src], role[t]} = {"client", "daemon"}
        /\ \A i, j \in DOMAIN q :
              i < j /\ q[i].src = q[j].src => q[i].seq < q[j].seq

\* The frames of s that have been written to t, by number.
WrittenOf(t, s) == {n \in 1..MaxFrames : [src |-> s, seq |-> n] \in Range(Written(t))}

\* t is in the slot it joined: nobody took its place since.
Holds(t) == IF role[t] = "daemon" THEN daemon[room[t]] = t
                                  ELSE clients[room[t]][cid[t]] = t

\* The connection that holds its slot misses nothing, also when it took the
\* slot over from a daemon or client that goes on sending: as long as it is
\* up, every frame that anyone in the same Room sent to its side since it joined,
\* and none from before, has been written to it (in order: InOrderOnce), except
\* the one its sender is just writing.
NothingLost ==
  \A t, s \in Conns :
     /\ pc[t] = "open" /\ t \notin down /\ Holds(t)
     /\ pc[s] = "open" /\ room[s] = room[t] /\ role[s] # role[t]
     => LET pending == IF Awaits(t, s) THEN 1 ELSE 0
        IN WrittenOf(t, s) = (base[t][s] + 1)..(sent[s] - pending)

\* The handler of s waits for a slow peer with a full socket.
BlockedBySlow(s) ==
  /\ targets[s] # <<>>
  /\ LET t == Head(targets[s]) IN t \in Slow \ down /\ Len(outbox[t]) = OutCap

\* Nothing but a peer that stopped reading for good holds a fan-out up: gone
\* peers, other senders and peers that are slow for a while do not.  (Such a
\* peer does hold it up, for every other target of the frame too, which the
\* comment "a slow consumer doesn't block the whole room" denies.)
OnlySlowBlocks ==
  \A s, t \in Conns : []<>~Awaits(t, s) \/ <>[]BlockedBySlow(s)
=============================================================================
