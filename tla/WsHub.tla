------------------------------- MODULE WsHub -------------------------------
(***************************************************************************)
(* Room membership of the WebSocket relay: Hub.rooms, the Room structs it  *)
(* points to, and the joinRoom / leaveRoom critical sections that every    *)
(* connection handler runs (src/internal/wsrelay/wsrelay.go).              *)
(*                                                                         *)
(* A step is one critical section of Hub.mu or Room.mu.  joinRoom and the  *)
(* last part of leaveRoom hold both locks and are one step; the first two  *)
(* parts of leaveRoom release each lock before the next, so another        *)
(* handler can run between "lookup", "remove" and "reap".                  *)
(*                                                                         *)
(* Rooms are heap objects: a room is named by its address (RoomIds), and   *)
(* an address is allocated again only when neither the hub nor any handler *)
(* refers to it.  A Go map is a function to its values or None.            *)
(***************************************************************************)
CONSTANTS
  Conns,      \* connection handlers, one per accepted request
  Bastions,   \* bastion_id values
  ClientIds,  \* values of ?client_id= that a client may send
  RoomIds,    \* addresses of Room structs
  None        \* nil, or a missing map entry

ASSUME ConstantsAssumption ==
  /\ None \notin Conns \cup Bastions \cup ClientIds \cup RoomIds
  /\ ClientIds \cap Conns = {}

VARIABLES
  rooms,      \* Hub.rooms: bastion_id -> room
  daemon,     \* Room.daemon
  clients,    \* Room.clients: client_id -> conn
  pc,         \* where the handler of a connection is
  role,       \* conn.role
  bastion,    \* the handler's bastionID
  cid,        \* conn.clientID
  room,       \* the handler's `room`, returned by joinRoom
  leaving     \* leaveRoom's `room`, looked up again by bastionID

hubVars == <<rooms, daemon, clients, pc, role, bastion, cid, room, leaving>>

\* A generated id is the address of the conn ("c-%p"), so the conn names it.
Ids == ClientIds \cup Conns

NoClients == [i \in Ids |-> None]

HubTypeOK ==
  /\ rooms \in [Bastions -> RoomIds \cup {None}]
  /\ daemon \in [RoomIds -> Conns \cup {None}]
  /\ clients \in [RoomIds -> [Ids -> Conns \cup {None}]]
  /\ pc \in [Conns -> {"new", "open", "lookup", "remove", "reap", "done"}]
  /\ role \in [Conns -> {"none", "client", "daemon"}]
  /\ bastion \in [Conns -> Bastions \cup {None}]
  /\ cid \in [Conns -> Ids]
  /\ room \in [Conns -> RoomIds \cup {None}]
  /\ leaving \in [Conns -> RoomIds \cup {None}]
  /\ \A c \in Conns :
        /\ pc[c] \in {"open", "lookup", "remove", "reap"}
              => bastion[c] # None /\ room[c] # None /\ role[c] # "none"
        /\ pc[c] \in {"remove", "reap"} <=> leaving[c] # None

HubInit ==
  /\ rooms = [b \in Bastions |-> None]
  /\ daemon = [r \in RoomIds |-> None]
  /\ clients = [r \in RoomIds |-> NoClients]
  /\ pc = [c \in Conns |-> "new"]
  /\ role = [c \in Conns |-> "none"]
  /\ bastion = [c \in Conns |-> None]
  /\ cid = [c \in Conns |-> c]
  /\ room = [c \in Conns |-> None]
  /\ leaving = [c \in Conns |-> None]

----------------------------------------------------------------------------
(* Joining. *)

\* The request is answered 400 (bad role, no bastion_id) or the upgrade fails.
Reject(c) ==
  /\ pc[c] = "new"
  /\ pc' = [pc EXCEPT ![c] = "done"]
  /\ UNCHANGED <<rooms, daemon, clients, role, bastion, cid, room, leaving>>

\* Slip: rooms recycled from a pool as soon as the hub has dropped them.
FreshFromPool(r) == \A b \in Bastions : rooms[b] # r

\* r can be allocated: nothing refers to it.
Fresh(r) ==
  /\ \A b \in Bastions : rooms[b] # r
  /\ \A c \in Conns : room[c] # r /\ leaving[c] # r

\* r is the room of b, or a newly made one if b has none.
RoomFor(b, r) == IF rooms[b] = None THEN Fresh(r) ELSE rooms[b] = r

\* The part of joinRoom both roles share: enter the room, start reading.
Enter(c, b, r) ==
  /\ pc[c] = "new"
  /\ RoomFor(b, r)
  /\ rooms' = [rooms EXCEPT ![b] = r]
  /\ pc' = [pc EXCEPT ![c] = "open"]
  /\ bastion' = [bastion EXCEPT ![c] = b]
  /\ room' = [room EXCEPT ![c] = r]
  /\ UNCHANGED leaving

\* A room made by this step starts without daemon and clients.
DaemonIn(b, r) == IF rooms[b] = None THEN None ELSE daemon[r]
ClientsIn(b, r) == IF rooms[b] = None THEN NoClients ELSE clients[r]

\* A daemon takes the room's daemon slot, whoever held it before.
JoinDaemon(c, b, r) ==
  /\ Enter(c, b, r)
  /\ role' = [role EXCEPT ![c] = "daemon"]
  /\ daemon' = [daemon EXCEPT ![r] = c]
  /\ clients' = [clients EXCEPT ![r] = ClientsIn(b, r)]
  /\ UNCHANGED cid

\* A client is entered under its client_id, or under a generated one.
JoinClient(c, b, r, id) ==
  /\ Enter(c, b, r)
  /\ role' = [role EXCEPT ![c] = "client"]
  /\ cid' = [cid EXCEPT ![c] = id]
  /\ daemon' = [daemon EXCEPT ![r] = DaemonIn(b, r)]
  /\ clients' = [clients EXCEPT ![r] = [ClientsIn(b, r) EXCEPT ![id] = c]]

Join(c) ==
  \E b \in Bastions, r \in RoomIds :
     \/ JoinDaemon(c, b, r)
     \/ \E id \in ClientIds \cup {c} : JoinClient(c, b, r, id)

----------------------------------------------------------------------------
(* Leaving. *)

\* ws.Read fails: the peer closed, the network broke or the frame is too big.
ReadError(c) ==
  /\ pc[c] = "open"
  /\ pc' = [pc EXCEPT ![c] = "lookup"]
  /\ UNCHANGED <<rooms, daemon, clients, role, bastion, cid, room, leaving>>

\* The handler returns and its references die with its stack.
Return(c) ==
  /\ pc' = [pc EXCEPT ![c] = "done"]
  /\ room' = [room EXCEPT ![c] = None]
  /\ leaving' = [leaving EXCEPT ![c] = None]

\* First section of leaveRoom, under Hub.mu.
LeaveLookup(c) ==
  /\ pc[c] = "lookup"
  /\ \/ /\ rooms[bastion[c]] = None
        /\ Return(c)
     \/ /\ rooms[bastion[c]] # None
        /\ leaving' = [leaving EXCEPT ![c] = rooms[bastion[c]]]
        /\ pc' = [pc EXCEPT ![c] = "remove"]
        /\ UNCHANGED room
  /\ UNCHANGED <<rooms, daemon, clients, role, bastion, cid>>

\* Slip: any daemon's leave clears the daemon slot.
DaemonAfterAnyLeave(c, r) == IF role[c] = "daemon" THEN None ELSE daemon[r]

\* Slip: a client's leave forgets the client map.
ClientsAfterNothing(c, r) == clients[r]

\* What c leaves behind in room r.  A daemon vacates the slot only if it is
\* still its own; a client deletes whatever is entered under its client_id.
DaemonAfter(c, r) ==
  IF role[c] = "daemon" /\ daemon[r] = c THEN None ELSE daemon[r]
ClientsAfter(c, r) ==
  IF role[c] = "client" THEN [clients[r] EXCEPT ![cid[c]] = None]
                        ELSE clients[r]

Empty(d, cs) == d = None /\ \A i \in Ids : cs[i] = None

\* Second section of leaveRoom, under Room.mu.
LeaveRemove(c) ==
  LET r  == leaving[c]
      d  == DaemonAfter(c, r)
      cs == ClientsAfter(c, r)
  IN /\ pc[c] = "remove"
     /\ daemon' = [daemon EXCEPT ![r] = d]
     /\ clients' = [clients EXCEPT ![r] = cs]
     /\ \/ /\ Empty(d, cs)
           /\ pc' = [pc EXCEPT ![c] = "reap"]
           /\ UNCHANGED <<room, leaving>>
        \/ /\ ~Empty(d, cs)
           /\ Return(c)
     /\ UNCHANGED <<rooms, role, bastion, cid>>

\* Slip: the delete trusts the emptiness seen in the section before.
StillSameRoom(c) == rooms[bastion[c]] = leaving[c]

\* Slip: only a daemon's leave deletes the room.
StillEmptyAfterDaemon(c) ==
  /\ role[c] = "daemon"
  /\ rooms[bastion[c]] = leaving[c]
  /\ Empty(daemon[leaving[c]], clients[leaving[c]])

\* The recheck before the delete: same room, and nobody joined meanwhile.
StillEmpty(c) ==
  /\ rooms[bastion[c]] = leaving[c]
  /\ Empty(daemon[leaving[c]], clients[leaving[c]])

\* Last section of leaveRoom, under Hub.mu and Room.mu.
LeaveReap(c) ==
  /\ pc[c] = "reap"
  /\ \/ /\ StillEmpty(c)
        /\ rooms' = [rooms EXCEPT ![bastion[c]] = None]
     \/ /\ ~StillEmpty(c)
        /\ UNCHANGED rooms
  /\ Return(c)
  /\ UNCHANGED <<daemon, clients, role, bastion, cid>>

----------------------------------------------------------------------------
Leave(c) == LeaveLookup(c) \/ LeaveRemove(c) \/ LeaveReap(c)

\* Every request of the instance has been served: the server idles.
HubIdle == (\A c \in Conns : pc[c] = "done") /\ UNCHANGED hubVars

HubNext ==
  \/ \E c \in Conns : Reject(c) \/ Join(c) \/ ReadError(c) \/ Leave(c)
  \/ HubIdle

HubSpec == HubInit /\ [][HubNext]_hubVars

----------------------------------------------------------------------------
(* Properties. *)

\* Every entry of a room's daemon slot or client map is a connection whose
\* handler has not yet left, entered under its own role and client_id, in the
\* very room its handler holds and the hub routes its bastion to.  So a closed
\* connection is never a broadcast target, and a room the hub has deleted
\* (leaveRoom's recheck under Hub.mu) has nobody in it.
RegistrationIsCurrent ==
  \A r \in RoomIds, c \in Conns :
     LET At == /\ pc[c] \in {"open", "lookup", "remove"}
               /\ room[c] = r
               /\ rooms[bastion[c]] = r
     IN /\ daemon[r] = c => role[c] = "daemon" /\ At
        /\ \A i \in Ids : clients[r][i] = c => role[c] = "client" /\ cid[c] = i /\ At

\* A room belongs to one bastion: the hub routes no two bastions to it, and
\* every handler that holds it, also after the hub dropped it, or is about to
\* remove itself from it, serves that bastion (joinRoom, leaveRoom's lookup).
RoomsIsolated ==
  \A r \in RoomIds : \E b \in Bastions \cup {None} :
     /\ \A b1 \in Bastions : rooms[b1] = r => b1 = b
     /\ \A c \in Conns : room[c] = r \/ leaving[c] = r => bastion[c] = b

\* The hub keeps no abandoned room: a room without daemon and clients still in
\* Hub.rooms has a leaver between its second and third critical section that
\* will delete it (leaveRoom's `empty`).
EmptyRoomIsBeingReaped ==
  \A b \in Bastions :
     /\ rooms[b] # None
     /\ Empty(daemon[rooms[b]], clients[rooms[b]])
     => \E c \in Conns : pc[c] = "reap" /\ leaving[c] = rooms[b]

\* Another connection of this process has used c's slot: the same client_id
\* for a client, the daemon role for a daemon, at the same bastion.
Contested(c) ==
  \E d \in Conns \ {c} :
     /\ role[d] = role[c]
     /\ bastion[d] = bastion[c]
     /\ role[c] = "client" => cid[d] = cid[c]

\* An open connection whose slot nobody else used is registered in the room
\* the hub routes its bastion to, whatever joins, leaves and deletions of the
\* room race with it: the other side's frames reach it.
UncontestedIsRegistered ==
  \A c \in Conns : pc[c] = "open" /\ ~Contested(c) =>
     /\ rooms[bastion[c]] = room[c]
     /\ role[c] = "daemon" => daemon[room[c]] = c
     /\ role[c] = "client" => clients[room[c]][cid[c]] = c

\* c is in its own leaveRoom critical section in this step.
IsRemovingItself(c) == pc[c] = "remove" /\ pc'[c] # "remove"

\* d joined in this step.
Joins(d) == d \in Conns /\ pc[d] = "new" /\ pc'[d] = "open"

\* A daemon loses the daemon slot only by leaving or to a daemon that joins
\* (leaveRoom's `room.daemon == c`): a late leave of a replaced daemon never
\* takes the slot from its successor.
DaemonKeepsSlot ==
  [][\A r \in RoomIds :
        daemon[r] # None /\ daemon'[r] # daemon[r]
          => IsRemovingItself(daemon[r]) \/ Joins(daemon'[r])]_hubVars

\* A client loses its entry only by leaving or to a client that joins under
\* the same client_id; "frames are broadcast to all client connections".
ClientKeepsSlot ==
  [][\A r \in RoomIds, i \in Ids :
        clients[r][i] # None /\ clients'[r][i] # clients[r][i]
          => IsRemovingItself(clients[r][i]) \/ Joins(clients'[r][i])]_hubVars

\* When every connection made so far has disconnected, the hub ends up
\* without rooms, unless somebody connects meanwhile: no room leaks.
HubDrains ==
  (\A c \in Conns : pc[c] # "open")
     ~> \/ \A b \in Bastions : rooms[b] = None
        \/ \E c \in Conns : pc[c] = "open"
=============================================================================
