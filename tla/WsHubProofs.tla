---------------------------- MODULE WsHubProofs ----------------------------
(***************************************************************************)
(* Room membership (WsHub) is correct for any number of connections,       *)
(* bastions, client ids and rooms.                                         *)
(*                                                                         *)
(* HubInv is the inductive invariant.  Beyond the properties the runs      *)
(* check it records what a handler that has not joined looks like          *)
(* (NewIsBlank), that references to one room come from one bastion         *)
(* (OwnersAgree), and that a registered handler about to remove itself has *)
(* looked up the room it is registered in (LeavesItsRoom): without the     *)
(* last, a leaver could return from leaveRoom and stay in a room.          *)
(***************************************************************************)
EXTENDS WsHub, TLAPS

NewIsBlank ==
  \A c \in Conns : pc[c] = "new" =>
     role[c] = "none" /\ bastion[c] = None /\ room[c] = None /\ leaving[c] = None

Refers(c, r) == room[c] = r \/ leaving[c] = r

OwnersAgree ==
  \A r \in RoomIds :
     /\ \A b1, b2 \in Bastions : rooms[b1] = r /\ rooms[b2] = r => b1 = b2
     /\ \A c \in Conns, b \in Bastions : Refers(c, r) /\ rooms[b] = r => bastion[c] = b
     /\ \A c, d \in Conns : Refers(c, r) /\ Refers(d, r) => bastion[c] = bastion[d]

Registered(c, r) == daemon[r] = c \/ \E i \in Ids : clients[r][i] = c

LeavesItsRoom ==
  \A c \in Conns, r \in RoomIds :
     pc[c] = "remove" /\ Registered(c, r) => leaving[c] = r

HubInv ==
  /\ HubTypeOK
  /\ NewIsBlank
  /\ OwnersAgree
  /\ RegistrationIsCurrent
  /\ LeavesItsRoom
  /\ EmptyRoomIsBeingReaped
  /\ UncontestedIsRegistered

----------------------------------------------------------------------------
(* Initially. *)

LEMMA InitHubInv == HubInit => HubInv
<1> SUFFICES ASSUME HubInit PROVE HubInv
  OBVIOUS
<1> USE ConstantsAssumption DEF HubInit, NoClients, Ids
<1>1. HubTypeOK
  BY DEF HubTypeOK
<1>2. NewIsBlank /\ OwnersAgree /\ LeavesItsRoom
  BY DEF NewIsBlank, OwnersAgree, Refers, LeavesItsRoom
<1>3. RegistrationIsCurrent
  BY DEF RegistrationIsCurrent
<1>4. EmptyRoomIsBeingReaped /\ UncontestedIsRegistered
  BY DEF EmptyRoomIsBeingReaped, UncontestedIsRegistered
<1> QED
  BY <1>1, <1>2, <1>3, <1>4 DEF HubInv

----------------------------------------------------------------------------
(* Steps that leave Hub.rooms and the rooms alone. *)

\* Reject and ReadError only move a handler on.
LEMMA MovesPreserve ==
  ASSUME HubInv, NEW c \in Conns, Reject(c) \/ ReadError(c)
  PROVE  HubInv'
<1> USE DEF HubInv, Reject, ReadError
<1>1. HubTypeOK'
  BY DEF HubTypeOK
<1>2. NewIsBlank'
  BY DEF NewIsBlank, HubTypeOK
<1>3. OwnersAgree'
  BY DEF OwnersAgree, Refers
<1>4. RegistrationIsCurrent'
  BY DEF RegistrationIsCurrent, HubTypeOK
<1>5. LeavesItsRoom'
  BY DEF LeavesItsRoom, Registered, HubTypeOK
<1>6. EmptyRoomIsBeingReaped'
  <2> SUFFICES ASSUME NEW b \in Bastions, rooms[b] # None,
                      Empty(daemon[rooms[b]], clients[rooms[b]])
               PROVE  \E d \in Conns : pc'[d] = "reap" /\ leaving'[d] = rooms[b]
    BY DEF EmptyRoomIsBeingReaped, Empty
  <2>1. PICK d \in Conns : pc[d] = "reap" /\ leaving[d] = rooms[b]
    BY DEF EmptyRoomIsBeingReaped
  <2> QED
    BY <2>1 DEF HubTypeOK
<1>7. UncontestedIsRegistered'
  BY DEF UncontestedIsRegistered, Contested, HubTypeOK
<1> QED
  BY <1>1, <1>2, <1>3, <1>4, <1>5, <1>6, <1>7

\* leaveRoom's lookup: a registered handler finds the room it is in, because
\* the hub still routes to it.
LEMMA LookupPreserves ==
  ASSUME HubInv, NEW c \in Conns, LeaveLookup(c)
  PROVE  HubInv'
<1> USE DEF HubInv, LeaveLookup, Return
<1>0. bastion[c] \in Bastions /\ rooms[bastion[c]] \in RoomIds \cup {None}
  BY DEF HubTypeOK
<1>1. HubTypeOK'
  <2>1. /\ room' \in [Conns -> RoomIds \cup {None}]
        /\ leaving' \in [Conns -> RoomIds \cup {None}]
    BY <1>0 DEF HubTypeOK
  <2>2. pc' = [pc EXCEPT ![c] = "done"] \/ pc' = [pc EXCEPT ![c] = "remove"]
    OBVIOUS
  <2>3. pc' \in [Conns -> {"new", "open", "lookup", "remove", "reap", "done"}]
    BY <2>2 DEF HubTypeOK
  <2>4. CASE Return(c)
    BY <2>1, <2>3, <2>4 DEF HubTypeOK
  <2>5. CASE /\ pc' = [pc EXCEPT ![c] = "remove"] /\ room' = room
             /\ leaving' = [leaving EXCEPT ![c] = rooms[bastion[c]]]
             /\ rooms[bastion[c]] # None
    BY <2>1, <2>3, <2>5 DEF HubTypeOK
  <2> QED
    BY <2>4, <2>5
<1>2. NewIsBlank'
  BY DEF NewIsBlank, HubTypeOK
<1>3. OwnersAgree'
  <2>1. \A d \in Conns, r \in RoomIds :
           Refers(d, r)' => Refers(d, r) \/ (d = c /\ rooms[bastion[c]] = r)
    BY ConstantsAssumption DEF Refers, HubTypeOK
  <2> QED
    BY <1>0, <2>1 DEF OwnersAgree
<1>4. RegistrationIsCurrent'
  BY <1>0, ConstantsAssumption DEF RegistrationIsCurrent, HubTypeOK
<1>5. LeavesItsRoom'
  BY <1>0 DEF LeavesItsRoom, Registered, RegistrationIsCurrent, HubTypeOK
<1>6. EmptyRoomIsBeingReaped'
  <2> SUFFICES ASSUME NEW b \in Bastions, rooms[b] # None,
                      Empty(daemon[rooms[b]], clients[rooms[b]])
               PROVE  \E d \in Conns : pc'[d] = "reap" /\ leaving'[d] = rooms[b]
    BY DEF EmptyRoomIsBeingReaped, Empty
  <2>1. PICK d \in Conns : pc[d] = "reap" /\ leaving[d] = rooms[b]
    BY DEF EmptyRoomIsBeingReaped
  <2> QED
    BY <2>1 DEF HubTypeOK
<1>7. UncontestedIsRegistered'
  BY DEF UncontestedIsRegistered, Contested, HubTypeOK
<1> QED
  BY <1>1, <1>2, <1>3, <1>4, <1>5, <1>6, <1>7
----------------------------------------------------------------------------
(* leaveRoom's removal. *)

\* What a removal does to the rooms: it takes out what Room r = leaving[c]
\* holds of c, perhaps another client under c's client_id, and nothing else.
LEMMA RemovalFacts ==
  ASSUME HubInv, NEW c \in Conns, LeaveRemove(c)
  PROVE  /\ leaving[c] \in RoomIds
         /\ \A r \in RoomIds : daemon'[r] = IF r = leaving[c] THEN DaemonAfter(c, r) ELSE daemon[r]
         /\ \A r \in RoomIds : clients'[r] = IF r = leaving[c] THEN ClientsAfter(c, r) ELSE clients[r]
         /\ ClientsAfter(c, leaving[c]) \in [Ids -> Conns \cup {None}]
         /\ DaemonAfter(c, leaving[c]) \in Conns \cup {None}
         /\ \A i \in Ids : ClientsAfter(c, leaving[c])[i] \in {clients[leaving[c]][i], None}
         /\ \A i \in Ids : role[c] = "client" /\ i = cid[c]
              => ClientsAfter(c, leaving[c])[i] = None
         /\ \A i \in Ids : ~(role[c] = "client" /\ i = cid[c])
              => ClientsAfter(c, leaving[c])[i] = clients[leaving[c]][i]
         /\ pc' \in {[pc EXCEPT ![c] = "reap"], [pc EXCEPT ![c] = "done"]}
         /\ daemon' \in [RoomIds -> Conns \cup {None}]
         /\ clients' \in [RoomIds -> [Ids -> Conns \cup {None}]]
<1> USE DEF HubInv, LeaveRemove
<1>1. leaving[c] \in RoomIds /\ cid[c] \in Ids
  BY DEF HubTypeOK
<1>2. /\ ClientsAfter(c, leaving[c]) \in [Ids -> Conns \cup {None}]
      /\ DaemonAfter(c, leaving[c]) \in Conns \cup {None}
  BY <1>1 DEF HubTypeOK, ClientsAfter, DaemonAfter
<1>3. \A i \in Ids : ClientsAfter(c, leaving[c])[i] =
        IF role[c] = "client" /\ i = cid[c] THEN None ELSE clients[leaving[c]][i]
  BY <1>1 DEF HubTypeOK, ClientsAfter
<1>4. /\ daemon' \in [RoomIds -> Conns \cup {None}]
      /\ clients' \in [RoomIds -> [Ids -> Conns \cup {None}]]
      /\ \A r \in RoomIds : daemon'[r] = IF r = leaving[c] THEN DaemonAfter(c, r) ELSE daemon[r]
      /\ \A r \in RoomIds : clients'[r] = IF r = leaving[c] THEN ClientsAfter(c, r) ELSE clients[r]
  BY <1>1, <1>2 DEF HubTypeOK
<1>5. pc' \in {[pc EXCEPT ![c] = "reap"], [pc EXCEPT ![c] = "done"]}
  BY DEF Return
<1> QED
  BY <1>1, <1>2, <1>3, <1>4, <1>5

\* leaveRoom's second section: a daemon empties its slot if it still holds it,
\* a client empties that of its id, whoever holds it.
LEMMA RemovePreserves ==
  ASSUME HubInv, NEW c \in Conns, LeaveRemove(c)
  PROVE  HubInv'
<1> USE DEF HubInv
<1>0. /\ pc[c] = "remove"
      /\ UNCHANGED <<rooms, role, bastion, cid>>
      /\ \/ pc' = [pc EXCEPT ![c] = "reap"] /\ UNCHANGED <<room, leaving>>
         \/ /\ pc' = [pc EXCEPT ![c] = "done"]
            /\ room' = [room EXCEPT ![c] = None]
            /\ leaving' = [leaving EXCEPT ![c] = None]
  BY DEF LeaveRemove, Return
<1>f. /\ leaving[c] \in RoomIds
      /\ \A r \in RoomIds : daemon'[r] = IF r = leaving[c] THEN DaemonAfter(c, r) ELSE daemon[r]
      /\ \A r \in RoomIds : clients'[r] = IF r = leaving[c] THEN ClientsAfter(c, r) ELSE clients[r]
      /\ \A i \in Ids : role[c] = "client" /\ i = cid[c]
           => ClientsAfter(c, leaving[c])[i] = None
      /\ \A i \in Ids : ~(role[c] = "client" /\ i = cid[c])
           => ClientsAfter(c, leaving[c])[i] = clients[leaving[c]][i]
      /\ daemon' \in [RoomIds -> Conns \cup {None}]
      /\ clients' \in [RoomIds -> [Ids -> Conns \cup {None}]]
  BY RemovalFacts
<1>1. HubTypeOK'
  <2>1. CASE pc' = [pc EXCEPT ![c] = "reap"] /\ UNCHANGED <<room, leaving>>
    BY <1>0, <1>f, <2>1 DEF HubTypeOK
  <2>2. CASE /\ pc' = [pc EXCEPT ![c] = "done"]
             /\ room' = [room EXCEPT ![c] = None]
             /\ leaving' = [leaving EXCEPT ![c] = None]
    BY <1>0, <1>f, <2>2 DEF HubTypeOK
  <2> QED
    BY <1>0, <2>1, <2>2
<1>2. NewIsBlank'
  BY <1>0 DEF NewIsBlank, HubTypeOK
<1>3. OwnersAgree'
  <2>1. \A d \in Conns, r \in RoomIds : Refers(d, r)' => Refers(d, r)
    BY <1>0, ConstantsAssumption DEF Refers, HubTypeOK
  <2> QED
    BY <1>0, <2>1 DEF OwnersAgree
\* Nothing new is registered, and c no longer is.
<1>g. \A d \in Conns, r \in RoomIds :
         /\ daemon'[r] = d => daemon[r] = d /\ d # c
         /\ \A i \in Ids : clients'[r][i] = d => clients[r][i] = d /\ d # c
  <2> SUFFICES ASSUME NEW d \in Conns, NEW r \in RoomIds
               PROVE  /\ daemon'[r] = d => daemon[r] = d /\ d # c
                      /\ \A i \in Ids : clients'[r][i] = d => clients[r][i] = d /\ d # c
    OBVIOUS
  <2>1. daemon'[r] = d => daemon[r] = d
    BY <1>f, ConstantsAssumption DEF DaemonAfter
  <2>2. daemon'[r] = d => d # c
    BY <1>0, <1>f, <2>1, ConstantsAssumption
       DEF DaemonAfter, RegistrationIsCurrent, LeavesItsRoom, Registered
  <2>3. ASSUME NEW i \in Ids, clients'[r][i] = d
        PROVE  clients[r][i] = d /\ d # c
    <3>1. clients[r][i] = d
      BY <1>f, <2>3, ConstantsAssumption
    <3>2. CASE d = c
      <4>1. role[c] = "client" /\ cid[c] = i /\ leaving[c] = r
        BY <1>0, <3>1, <3>2 DEF RegistrationIsCurrent, LeavesItsRoom, Registered
      <4> QED
        BY <1>f, <2>3, <4>1, <3>2, ConstantsAssumption
    <3> QED
      BY <3>1, <3>2
  <2> QED
    BY <2>1, <2>2, <2>3
<1>4. RegistrationIsCurrent'
  BY <1>0, <1>g DEF RegistrationIsCurrent, HubTypeOK
<1>5. LeavesItsRoom'
  BY <1>0, <1>g DEF LeavesItsRoom, Registered, HubTypeOK
<1>6. EmptyRoomIsBeingReaped'
  <2> SUFFICES ASSUME NEW b \in Bastions, rooms[b] # None,
                      Empty(daemon'[rooms[b]], clients'[rooms[b]])
               PROVE  \E d \in Conns : pc'[d] = "reap" /\ leaving'[d] = rooms[b]
    BY <1>0 DEF EmptyRoomIsBeingReaped, Empty
  <2>0. rooms[b] \in RoomIds
    BY DEF HubTypeOK
  <2>1. CASE rooms[b] = leaving[c]
    <3>1. Empty(DaemonAfter(c, leaving[c]), ClientsAfter(c, leaving[c]))
      BY <1>f, <2>0, <2>1
    <3>2. pc' = [pc EXCEPT ![c] = "reap"] /\ UNCHANGED leaving
      BY <3>1 DEF LeaveRemove
    <3> QED
      BY <2>1, <3>2 DEF HubTypeOK
  <2>2. CASE rooms[b] # leaving[c]
    <3>1. Empty(daemon[rooms[b]], clients[rooms[b]])
      BY <1>f, <2>0, <2>2
    <3>2. PICK d \in Conns : pc[d] = "reap" /\ leaving[d] = rooms[b]
      BY <3>1 DEF EmptyRoomIsBeingReaped
    <3> QED
      BY <1>0, <3>2 DEF HubTypeOK
  <2> QED
    BY <2>1, <2>2
<1>7. UncontestedIsRegistered'
  <2> SUFFICES ASSUME NEW d \in Conns, pc'[d] = "open", ~Contested(d)
               PROVE  /\ rooms[bastion[d]] = room'[d]
                      /\ role[d] = "daemon" => daemon'[room'[d]] = d
                      /\ role[d] = "client" => clients'[room'[d]][cid[d]] = d
    BY <1>0 DEF UncontestedIsRegistered, Contested
  <2>1. d # c /\ pc[d] = "open" /\ room'[d] = room[d]
    BY <1>0 DEF HubTypeOK
  <2>2. /\ rooms[bastion[d]] = room[d]
        /\ role[d] = "daemon" => daemon[room[d]] = d
        /\ role[d] = "client" => clients[room[d]][cid[d]] = d
    BY <2>1 DEF UncontestedIsRegistered
  <2>3. room[d] \in RoomIds /\ cid[d] \in Ids
    BY <2>1 DEF HubTypeOK
  <2>4. ASSUME role[d] = "client", leaving[c] = room[d]
        PROVE  ~(role[c] = "client" /\ cid[c] = cid[d])
    BY <2>1, <2>3, <2>4 DEF Contested, OwnersAgree, Refers
  <2> QED
    BY <1>f, <2>1, <2>2, <2>3, <2>4 DEF DaemonAfter
<1> QED
  BY <1>1, <1>2, <1>3, <1>4, <1>5, <1>6, <1>7

----------------------------------------------------------------------------
(* leaveRoom's deletion of the room. *)

\* The recheck makes it safe: the room deleted is the one seen empty, and it
\* is empty now, so nobody registered loses its route.
LEMMA ReapPreserves ==
  ASSUME HubInv, NEW c \in Conns, LeaveReap(c)
  PROVE  HubInv'
<1> USE DEF HubInv
<1>0. /\ pc[c] = "reap"
      /\ pc' = [pc EXCEPT ![c] = "done"]
      /\ room' = [room EXCEPT ![c] = None]
      /\ leaving' = [leaving EXCEPT ![c] = None]
      /\ UNCHANGED <<daemon, clients, role, bastion, cid>>
      /\ bastion[c] \in Bastions /\ leaving[c] \in RoomIds
  BY DEF LeaveReap, Return, HubTypeOK
<1>r. /\ rooms' \in [Bastions -> RoomIds \cup {None}]
      /\ \A b \in Bastions :
           \/ rooms'[b] = rooms[b]
           \/ rooms'[b] = None /\ b = bastion[c] /\ StillEmpty(c)
  BY <1>0 DEF LeaveReap, HubTypeOK
<1>1. HubTypeOK'
  BY <1>0, <1>r DEF HubTypeOK
<1>2. NewIsBlank'
  BY <1>0 DEF NewIsBlank, HubTypeOK
<1>3. OwnersAgree'
  <2>1. \A d \in Conns, r \in RoomIds : Refers(d, r)' => Refers(d, r)
    BY <1>0, ConstantsAssumption DEF Refers, HubTypeOK
  <2>2. \A b \in Bastions, r \in RoomIds : rooms'[b] = r => rooms[b] = r
    BY <1>r, ConstantsAssumption
  <2> QED
    BY <1>0, <2>1, <2>2 DEF OwnersAgree
\* The room of a registered connection is not the one deleted.
<1>g. \A d \in Conns, r \in RoomIds :
         Registered(d, r) => d # c /\ rooms'[bastion[d]] = r
  <2> SUFFICES ASSUME NEW d \in Conns, NEW r \in RoomIds, Registered(d, r)
               PROVE  d # c /\ rooms'[bastion[d]] = r
    OBVIOUS
  <2>1. /\ pc[d] \in {"open", "lookup", "remove"}
        /\ rooms[bastion[d]] = r
        /\ bastion[d] \in Bastions
    BY DEF Registered, RegistrationIsCurrent, HubTypeOK
  <2>2. ~Empty(daemon[r], clients[r])
    BY ConstantsAssumption DEF Registered, Empty
  <2> QED
    BY <1>0, <1>r, <2>1, <2>2 DEF StillEmpty
<1>4. RegistrationIsCurrent'
  BY <1>0, <1>g DEF RegistrationIsCurrent, Registered, HubTypeOK
<1>5. LeavesItsRoom'
  BY <1>0 DEF LeavesItsRoom, Registered, HubTypeOK
<1>6. EmptyRoomIsBeingReaped'
  <2> SUFFICES ASSUME NEW b \in Bastions, rooms'[b] # None,
                      Empty(daemon[rooms'[b]], clients[rooms'[b]])
               PROVE  \E d \in Conns : pc'[d] = "reap" /\ leaving'[d] = rooms'[b]
    BY <1>0 DEF EmptyRoomIsBeingReaped, Empty
  <2>1. rooms'[b] = rooms[b] /\ rooms[b] \in RoomIds
    BY <1>r DEF HubTypeOK
  <2>2. PICK d \in Conns : pc[d] = "reap" /\ leaving[d] = rooms[b]
    BY <2>1 DEF EmptyRoomIsBeingReaped
  <2>3. d # c
    <3> SUFFICES ASSUME d = c PROVE FALSE
      OBVIOUS
    <3>1. bastion[c] = b
      BY <2>1, <2>2 DEF OwnersAgree, Refers
    <3>2. StillEmpty(c)
      BY <2>1, <2>2, <3>1 DEF StillEmpty
    <3>3. rooms' = [rooms EXCEPT ![b] = None]
      BY <3>1, <3>2 DEF LeaveReap
    <3> QED
      BY <3>3 DEF HubTypeOK
  <2> QED
    BY <1>0, <2>1, <2>2, <2>3 DEF HubTypeOK
<1>7. UncontestedIsRegistered'
  <2> SUFFICES ASSUME NEW d \in Conns, pc'[d] = "open", ~Contested(d)
               PROVE  /\ rooms'[bastion[d]] = room'[d]
                      /\ role[d] = "daemon" => daemon[room'[d]] = d
                      /\ role[d] = "client" => clients[room'[d]][cid[d]] = d
    BY <1>0 DEF UncontestedIsRegistered, Contested
  <2>1. d # c /\ pc[d] = "open" /\ room'[d] = room[d] /\ room[d] \in RoomIds
    BY <1>0 DEF HubTypeOK
  <2>2. /\ role[d] = "daemon" => daemon[room[d]] = d
        /\ role[d] = "client" => clients[room[d]][cid[d]] = d
        /\ role[d] \in {"client", "daemon"} /\ cid[d] \in Ids
    BY <2>1 DEF UncontestedIsRegistered, HubTypeOK
  <2>3. rooms'[bastion[d]] = room[d]
    BY <1>g, <2>1, <2>2 DEF Registered
  <2> QED
    BY <2>1, <2>2, <2>3
<1> QED
  BY <1>1, <1>2, <1>3, <1>4, <1>5, <1>6, <1>7
----------------------------------------------------------------------------
(* joinRoom. *)

\* A newly allocated room finds the struct's fields as an abandoned room left
\* them, empty: resetting them and leaving them alone is the same.
LEMMA FreshRoomIsEmpty ==
  ASSUME HubInv, NEW b \in Bastions, NEW r \in RoomIds, RoomFor(b, r)
  PROVE  DaemonIn(b, r) = daemon[r] /\ ClientsIn(b, r) = clients[r]
<1> USE DEF HubInv, DaemonIn, ClientsIn, RoomFor
<1>1. CASE rooms[b] # None
  BY <1>1
<1>2. CASE rooms[b] = None
  <2>1. \A d \in Conns : daemon[r] # d /\ \A i \in Ids : clients[r][i] # d
    BY <1>2 DEF Fresh, RegistrationIsCurrent
  <2>2. daemon[r] = None
    BY <2>1 DEF HubTypeOK
  <2>3. clients[r] \in [Ids -> Conns \cup {None}] /\ \A i \in Ids : clients[r][i] = None
    BY <2>1 DEF HubTypeOK
  <2>4. clients[r] = NoClients
    BY <2>3 DEF NoClients
  <2> QED
    BY <1>2, <2>2, <2>4
<1> QED
  BY <1>1, <1>2

\* What both roles do to the hub and to the handler.
LEMMA EnterFacts ==
  ASSUME HubInv, NEW c \in Conns, NEW b \in Bastions, NEW r \in RoomIds, Enter(c, b, r)
  PROVE  /\ \A b2 \in Bastions : rooms'[b2] = IF b2 = b THEN r ELSE rooms[b2]
         /\ \A b2 \in Bastions : rooms[b2] # None => rooms'[b2] = rooms[b2]
         /\ \A b2 \in Bastions : rooms[b2] = r => b2 = b
         /\ \A d \in Conns : d # c => /\ pc'[d] = pc[d]
                                      /\ bastion'[d] = bastion[d]
                                      /\ room'[d] = room[d]
         /\ pc'[c] = "open" /\ bastion'[c] = b /\ room'[c] = r
         /\ \A d \in Conns, r2 \in RoomIds : Registered(d, r2) => d # c
         /\ OwnersAgree'
<1> USE DEF HubInv, Enter
<1>1. /\ \A b2 \in Bastions : rooms'[b2] = IF b2 = b THEN r ELSE rooms[b2]
      /\ \A d \in Conns : d # c => /\ pc'[d] = pc[d]
                                   /\ bastion'[d] = bastion[d]
                                   /\ room'[d] = room[d]
      /\ pc'[c] = "open" /\ bastion'[c] = b /\ room'[c] = r
  BY DEF HubTypeOK
<1>2. \A b2 \in Bastions : rooms[b2] # None => rooms'[b2] = rooms[b2]
  BY <1>1 DEF RoomFor
<1>3. \A b2 \in Bastions : rooms[b2] = r => b2 = b
  BY DEF RoomFor, Fresh, OwnersAgree
<1>4. \A d \in Conns, r2 \in RoomIds : Registered(d, r2) => d # c
  BY DEF Registered, RegistrationIsCurrent
<1>5. OwnersAgree'
  <2>1. \A d \in Conns, r2 \in RoomIds :
           Refers(d, r2)' => (d = c /\ r2 = r) \/ (d # c /\ Refers(d, r2))
    BY <1>1, ConstantsAssumption DEF Refers, NewIsBlank, HubTypeOK
  <2>2. \A d \in Conns : d # c /\ Refers(d, r) => bastion[d] = b
    BY DEF RoomFor, Fresh, OwnersAgree, Refers
  <2>3. \A b1, b2 \in Bastions, r2 \in RoomIds : rooms'[b1] = r2 /\ rooms'[b2] = r2 => b1 = b2
    BY <1>1, <1>3 DEF OwnersAgree
  <2>4. \A d \in Conns, b2 \in Bastions, r2 \in RoomIds :
           Refers(d, r2)' /\ rooms'[b2] = r2 => bastion'[d] = b2
    BY <1>1, <1>3, <2>1, <2>2 DEF OwnersAgree
  <2>5. \A d, e \in Conns, r2 \in RoomIds :
           Refers(d, r2)' /\ Refers(e, r2)' => bastion'[d] = bastion'[e]
    BY <1>1, <2>1, <2>2 DEF OwnersAgree
  <2> QED
    BY <2>3, <2>4, <2>5 DEF OwnersAgree
<1> QED
  BY <1>1, <1>2, <1>3, <1>4, <1>5

\* A room that is empty after a join was empty before it, and is not the room
\* joined: its reaper is still on its way.
LEMMA JoinKeepsReapers ==
  ASSUME HubInv, NEW c \in Conns, NEW b \in Bastions, NEW r \in RoomIds, Enter(c, b, r),
         \A r2 \in RoomIds : r2 # r => daemon'[r2] = daemon[r2] /\ clients'[r2] = clients[r2],
         ~Empty(daemon'[r], clients'[r])
  PROVE  EmptyRoomIsBeingReaped'
<1> USE DEF HubInv
<1> SUFFICES ASSUME NEW b2 \in Bastions, rooms'[b2] # None,
                    Empty(daemon'[rooms'[b2]], clients'[rooms'[b2]])
             PROVE  \E d \in Conns : pc'[d] = "reap" /\ leaving'[d] = rooms'[b2]
  BY DEF EmptyRoomIsBeingReaped, Empty
<1>1. rooms'[b2] # r
  OBVIOUS
<1>2. rooms'[b2] = rooms[b2] /\ rooms[b2] \in RoomIds
  BY <1>1, EnterFacts DEF HubTypeOK
<1>3. PICK d \in Conns : pc[d] = "reap" /\ leaving[d] = rooms[b2]
  BY <1>1, <1>2 DEF EmptyRoomIsBeingReaped
<1> QED
  BY <1>2, <1>3, EnterFacts DEF Enter

\* joinRoom of a daemon, which takes the slot from whoever held it.
LEMMA JoinDaemonPreserves ==
  ASSUME HubInv, NEW c \in Conns, NEW b \in Bastions, NEW r \in RoomIds, JoinDaemon(c, b, r)
  PROVE  HubInv'
<1> USE DEF HubInv
<1>e. Enter(c, b, r)
  BY DEF JoinDaemon
<1>0. /\ pc[c] = "new"
      /\ UNCHANGED <<leaving, cid, clients>>
      /\ role' = [role EXCEPT ![c] = "daemon"]
      /\ daemon' = [daemon EXCEPT ![r] = c]
  BY FreshRoomIsEmpty DEF JoinDaemon, Enter, HubTypeOK
<1>1. HubTypeOK'
  BY <1>0, <1>e, ConstantsAssumption DEF HubTypeOK, Enter
<1>2. NewIsBlank'
  BY <1>0, <1>e, EnterFacts DEF NewIsBlank, HubTypeOK
<1>3. OwnersAgree'
  BY <1>e, EnterFacts
<1>f. /\ \A b2 \in Bastions : rooms[b2] # None => rooms'[b2] = rooms[b2]
      /\ rooms'[b] = r
      /\ \A d \in Conns : d # c => /\ pc'[d] = pc[d]
                                   /\ bastion'[d] = bastion[d]
                                   /\ room'[d] = room[d]
                                   /\ role'[d] = role[d]
      /\ pc'[c] = "open" /\ bastion'[c] = b /\ room'[c] = r /\ role'[c] = "daemon"
      /\ \A d \in Conns, r2 \in RoomIds : Registered(d, r2) => d # c
      /\ \A r2 \in RoomIds : daemon'[r2] = IF r2 = r THEN c ELSE daemon[r2]
  BY <1>0, <1>e, EnterFacts DEF HubTypeOK
<1>4. RegistrationIsCurrent'
  <2>1. ASSUME NEW d \in Conns, d # c, NEW r2 \in RoomIds, Registered(d, r2)
        PROVE  /\ pc'[d] \in {"open", "lookup", "remove"}
               /\ room'[d] = r2
               /\ rooms'[bastion'[d]] = r2
    <3>1. /\ pc[d] \in {"open", "lookup", "remove"}
          /\ room[d] = r2
          /\ rooms[bastion[d]] = r2
          /\ bastion[d] \in Bastions
      BY <2>1 DEF Registered, RegistrationIsCurrent, HubTypeOK
    <3> QED
      BY <1>f, <2>1, <3>1, ConstantsAssumption
  <2> QED
    BY <1>0, <1>f, <2>1 DEF RegistrationIsCurrent, Registered
<1>5. LeavesItsRoom'
  BY <1>0, <1>f DEF LeavesItsRoom, Registered
<1>6. EmptyRoomIsBeingReaped'
  BY <1>0, <1>e, <1>f, JoinKeepsReapers, ConstantsAssumption DEF Empty
<1>7. UncontestedIsRegistered'
  <2> SUFFICES ASSUME NEW d \in Conns, pc'[d] = "open", ~Contested(d)'
               PROVE  /\ rooms'[bastion'[d]] = room'[d]
                      /\ role'[d] = "daemon" => daemon'[room'[d]] = d
                      /\ role'[d] = "client" => clients[room'[d]][cid[d]] = d
    BY <1>0 DEF UncontestedIsRegistered
  <2>1. CASE d = c
    BY <1>f, <2>1
  <2>2. CASE d # c
    <3>1. pc[d] = "open" /\ role[d] # "none" /\ bastion[d] \in Bastions /\ room[d] \in RoomIds
      BY <1>f, <2>2 DEF HubTypeOK
    <3>2. ~Contested(d)
      BY <1>0, <1>f, <2>2, <3>1 DEF Contested, NewIsBlank
    <3>3. /\ rooms[bastion[d]] = room[d]
          /\ role[d] = "daemon" => daemon[room[d]] = d
          /\ role[d] = "client" => clients[room[d]][cid[d]] = d
      BY <3>1, <3>2 DEF UncontestedIsRegistered
    <3>4. role[d] = "daemon" => room[d] # r
      <4> SUFFICES ASSUME role[d] = "daemon", room[d] = r PROVE FALSE
        OBVIOUS
      <4>1. bastion[d] = b
        BY <1>3, <1>f, <2>2 DEF OwnersAgree, Refers
      <4> QED
        BY <1>f, <2>2, <4>1 DEF Contested
    <3> QED
      BY <1>f, <2>2, <3>1, <3>3, <3>4, ConstantsAssumption
  <2> QED
    BY <2>1, <2>2
<1> QED
  BY <1>1, <1>2, <1>3, <1>4, <1>5, <1>6, <1>7

\* joinRoom of a client, which takes its id's slot from whoever held it.
LEMMA JoinClientPreserves ==
  ASSUME HubInv, NEW c \in Conns, NEW b \in Bastions, NEW r \in RoomIds,
         NEW id \in Ids, JoinClient(c, b, r, id)
  PROVE  HubInv'
<1> USE DEF HubInv
<1>e. Enter(c, b, r)
  BY DEF JoinClient
<1>0. /\ pc[c] = "new"
      /\ UNCHANGED <<leaving, daemon>>
      /\ role' = [role EXCEPT ![c] = "client"]
      /\ cid' = [cid EXCEPT ![c] = id]
      /\ clients' = [clients EXCEPT ![r] = [clients[r] EXCEPT ![id] = c]]
  <2>1. DaemonIn(b, r) = daemon[r] /\ ClientsIn(b, r) = clients[r]
    BY <1>e, FreshRoomIsEmpty DEF Enter
  <2>2. daemon' = daemon
    BY <2>1 DEF JoinClient, HubTypeOK
  <2> QED
    BY <2>1, <2>2 DEF JoinClient, Enter
<1>1. HubTypeOK'
  <2>1. clients' \in [RoomIds -> [Ids -> Conns \cup {None}]]
    BY <1>0 DEF HubTypeOK
  <2> QED
    BY <1>0, <1>e, <2>1, ConstantsAssumption DEF HubTypeOK, Enter
<1>2. NewIsBlank'
  BY <1>0, <1>e, EnterFacts DEF NewIsBlank, HubTypeOK
<1>3. OwnersAgree'
  BY <1>e, EnterFacts
<1>f. /\ \A b2 \in Bastions : rooms[b2] # None => rooms'[b2] = rooms[b2]
      /\ rooms'[b] = r
      /\ \A d \in Conns : d # c => /\ pc'[d] = pc[d]
                                   /\ bastion'[d] = bastion[d]
                                   /\ room'[d] = room[d]
                                   /\ role'[d] = role[d]
                                   /\ cid'[d] = cid[d]
      /\ pc'[c] = "open" /\ bastion'[c] = b /\ room'[c] = r
      /\ role'[c] = "client" /\ cid'[c] = id
      /\ \A d \in Conns, r2 \in RoomIds : Registered(d, r2) => d # c
      /\ \A r2 \in RoomIds, i \in Ids :
            clients'[r2][i] = IF r2 = r /\ i = id THEN c ELSE clients[r2][i]
      /\ \A r2 \in RoomIds : r2 # r => clients'[r2] = clients[r2]
  BY <1>0, <1>e, EnterFacts DEF HubTypeOK
<1>4. RegistrationIsCurrent'
  <2>1. ASSUME NEW d \in Conns, d # c, NEW r2 \in RoomIds, Registered(d, r2)
        PROVE  /\ pc'[d] \in {"open", "lookup", "remove"}
               /\ room'[d] = r2
               /\ rooms'[bastion'[d]] = r2
    <3>1. /\ pc[d] \in {"open", "lookup", "remove"}
          /\ room[d] = r2
          /\ rooms[bastion[d]] = r2
          /\ bastion[d] \in Bastions
      BY <2>1 DEF Registered, RegistrationIsCurrent, HubTypeOK
    <3> QED
      BY <1>f, <2>1, <3>1, ConstantsAssumption
  <2> QED
    BY <1>0, <1>f, <2>1 DEF RegistrationIsCurrent, Registered
<1>5. LeavesItsRoom'
  BY <1>0, <1>f DEF LeavesItsRoom, Registered
<1>6. EmptyRoomIsBeingReaped'
  <2>1. ~Empty(daemon'[r], clients'[r])
    BY <1>f, ConstantsAssumption DEF Empty
  <2> QED
    BY <1>0, <1>e, <1>f, <2>1, JoinKeepsReapers
<1>7. UncontestedIsRegistered'
  <2> SUFFICES ASSUME NEW d \in Conns, pc'[d] = "open", ~Contested(d)'
               PROVE  /\ rooms'[bastion'[d]] = room'[d]
                      /\ role'[d] = "daemon" => daemon[room'[d]] = d
                      /\ role'[d] = "client" => clients'[room'[d]][cid'[d]] = d
    BY <1>0 DEF UncontestedIsRegistered
  <2>1. CASE d = c
    BY <1>f, <2>1
  <2>2. CASE d # c
    <3>1. /\ pc[d] = "open" /\ role[d] # "none" /\ bastion[d] \in Bastions
          /\ room[d] \in RoomIds /\ cid[d] \in Ids
      BY <1>f, <2>2 DEF HubTypeOK
    <3>2. ~Contested(d)
      BY <1>0, <1>f, <2>2, <3>1 DEF Contested, NewIsBlank
    <3>3. /\ rooms[bastion[d]] = room[d]
          /\ role[d] = "daemon" => daemon[room[d]] = d
          /\ role[d] = "client" => clients[room[d]][cid[d]] = d
      BY <3>1, <3>2 DEF UncontestedIsRegistered
    <3>4. role[d] = "client" => ~(room[d] = r /\ cid[d] = id)
      <4> SUFFICES ASSUME role[d] = "client", room[d] = r, cid[d] = id PROVE FALSE
        OBVIOUS
      <4>1. bastion[d] = b
        BY <1>3, <1>f, <2>2 DEF OwnersAgree, Refers
      <4> QED
        BY <1>f, <2>2, <4>1 DEF Contested
    <3> QED
      BY <1>f, <2>2, <3>1, <3>3, <3>4, ConstantsAssumption
  <2> QED
    BY <2>1, <2>2
<1> QED
  BY <1>1, <1>2, <1>3, <1>4, <1>5, <1>6, <1>7
----------------------------------------------------------------------------
(* The theorems. *)

LEMMA NextPreserves == HubInv /\ [HubNext]_hubVars => HubInv'
<1> SUFFICES ASSUME HubInv, [HubNext]_hubVars PROVE HubInv'
  OBVIOUS
<1>1. ASSUME NEW c \in Conns, Reject(c) \/ ReadError(c) PROVE HubInv'
  BY <1>1, MovesPreserve
<1>2. ASSUME NEW c \in Conns, Join(c) PROVE HubInv'
  <2>1. PICK b \in Bastions, r \in RoomIds :
           \/ JoinDaemon(c, b, r)
           \/ \E id \in ClientIds \cup {c} : JoinClient(c, b, r, id)
    BY <1>2 DEF Join
  <2>2. CASE JoinDaemon(c, b, r)
    BY <2>2, JoinDaemonPreserves
  <2>3. ASSUME NEW id \in ClientIds \cup {c}, JoinClient(c, b, r, id) PROVE HubInv'
    BY <2>3, JoinClientPreserves DEF Ids
  <2> QED
    BY <2>1, <2>2, <2>3
<1>3. ASSUME NEW c \in Conns, Leave(c) PROVE HubInv'
  BY <1>3, LookupPreserves, RemovePreserves, ReapPreserves DEF Leave
<1>4. CASE UNCHANGED hubVars
  BY <1>4 DEF hubVars, HubInv, HubTypeOK, NewIsBlank, OwnersAgree, Refers,
    RegistrationIsCurrent, LeavesItsRoom, Registered, EmptyRoomIsBeingReaped, Empty,
    UncontestedIsRegistered, Contested
<1> QED
  BY <1>1, <1>2, <1>3, <1>4 DEF HubNext, HubIdle

\* The inductive invariant of joinRoom and leaveRoom holds in every reachable
\* state.
THEOREM HubInvariant == HubSpec => []HubInv
  BY InitHubInv, NextPreserves, PTL DEF HubSpec

\* The handlers keep the hub's state well formed.
THEOREM HubTyped == HubSpec => []HubTypeOK
  BY HubInvariant, PTL DEF HubInv

\* A daemon slot or client entry always belongs to a connection that has not
\* left, in the room the hub routes to: leaveRoom removes a connection from
\* every room it is in and never deletes a room somebody is in.
THEOREM HubRegistrationIsCurrent == HubSpec => []RegistrationIsCurrent
  BY HubInvariant, PTL DEF HubInv

\* No room is shared by two bastions, nor left over from another one in a
\* handler's hands.
THEOREM HubRoomsIsolated == HubSpec => []RoomsIsolated
<1>1. HubInv => RoomsIsolated
  <2> SUFFICES ASSUME HubInv, NEW r \in RoomIds
               PROVE  \E b \in Bastions \cup {None} :
                        /\ \A b1 \in Bastions : rooms[b1] = r => b1 = b
                        /\ \A c \in Conns : room[c] = r \/ leaving[c] = r => bastion[c] = b
    BY DEF RoomsIsolated
  <2> USE DEF HubInv
  <2>1. CASE \E b \in Bastions : rooms[b] = r
    BY <2>1 DEF OwnersAgree, Refers
  <2>2. CASE \E c \in Conns : Refers(c, r)
    <3>1. PICK c \in Conns : Refers(c, r)
      BY <2>2
    <3>2. bastion[c] \in Bastions \cup {None}
      BY DEF HubTypeOK
    <3> QED
      BY <3>1, <3>2 DEF OwnersAgree, Refers
  <2>3. CASE ~(\E b \in Bastions : rooms[b] = r) /\ ~(\E c \in Conns : Refers(c, r))
    BY <2>3 DEF Refers
  <2> QED
    BY <2>1, <2>2, <2>3
<1> QED
  BY <1>1, HubInvariant, PTL

\* Every empty room still in Hub.rooms has a leaver about to delete it.
THEOREM HubEmptyRoomIsBeingReaped == HubSpec => []EmptyRoomIsBeingReaped
  BY HubInvariant, PTL DEF HubInv

\* A connection whose slot nobody else claims is registered as long as it is
\* open, whatever joins, leaves and deletions race with it.
THEOREM HubUncontestedIsRegistered == HubSpec => []UncontestedIsRegistered
  BY HubInvariant, PTL DEF HubInv

\* A daemon loses its slot only by its own leaveRoom or to a joining daemon.
THEOREM HubDaemonKeepsSlot == HubSpec => DaemonKeepsSlot
<1> DEFINE Keeps(r) ==
      daemon[r] # None /\ daemon'[r] # daemon[r]
        => IsRemovingItself(daemon[r]) \/ Joins(daemon'[r])
<1>1. ASSUME HubInv, HubNext, NEW r \in RoomIds PROVE Keeps(r)
  <2> USE <1>1 DEF HubInv
  <2>1. ASSUME NEW c \in Conns, NEW b \in Bastions, NEW r2 \in RoomIds, JoinDaemon(c, b, r2)
        PROVE  Keeps(r)
    BY <2>1 DEF JoinDaemon, Enter, Joins, HubTypeOK
  <2>2. ASSUME NEW c \in Conns, NEW b \in Bastions, NEW r2 \in RoomIds, NEW id \in Ids,
               JoinClient(c, b, r2, id)
        PROVE  daemon' = daemon
    <3>1. DaemonIn(b, r2) = daemon[r2]
      BY <2>2, FreshRoomIsEmpty DEF JoinClient, Enter
    <3> QED
      BY <2>2, <3>1 DEF JoinClient, HubTypeOK
  <2>3. ASSUME NEW c \in Conns, LeaveRemove(c) PROVE Keeps(r)
    <3> SUFFICES ASSUME daemon[r] # None, daemon'[r] # daemon[r]
                 PROVE  IsRemovingItself(daemon[r])
      OBVIOUS
    <3>1. daemon[r] = c
      BY <2>3, RemovalFacts DEF DaemonAfter
    <3> QED
      BY <2>3, <3>1 DEF LeaveRemove, Return, IsRemovingItself, HubTypeOK
  <2>4. ASSUME NEW c \in Conns, Reject(c) \/ ReadError(c) \/ LeaveLookup(c) \/ LeaveReap(c)
        PROVE  daemon' = daemon
    BY <2>4 DEF Reject, ReadError, LeaveLookup, LeaveReap
  <2>5. CASE HubIdle
    BY <2>5 DEF HubIdle, hubVars
  <2>6. ASSUME NEW c \in Conns, Join(c) PROVE Keeps(r)
    BY <2>1, <2>2, <2>6 DEF Join, Ids
  <2> QED
    BY <2>3, <2>4, <2>5, <2>6 DEF HubNext, Leave
<1>2. HubInv /\ [HubNext]_hubVars => [\A r \in RoomIds : Keeps(r)]_hubVars
  BY <1>1
<1> QED
  BY <1>2, HubInvariant, PTL DEF HubSpec, DaemonKeepsSlot

\* A client keeps its entry against all but the clients that use its id: it
\* loses it only to one that joins under that id at its bastion, or by the
\* leave of one that did, itself or, as run WsHubReconnect shows, another.
SlotBelongsToId ==
  [][\A r \in RoomIds, i \in Ids, c \in Conns :
        clients[r][i] = c /\ clients'[r][i] # c
          => \E d \in Conns : /\ role'[d] = "client" /\ cid'[d] = i
                              /\ bastion'[d] = bastion[c]
                              /\ \/ IsRemovingItself(d) /\ clients'[r][i] = None
                                 \/ Joins(d) /\ clients'[r][i] = d]_hubVars

\* A client loses its slot only to clients with its id and bastion.
THEOREM HubSlotBelongsToId == HubSpec => SlotBelongsToId
<1> DEFINE By(r, i, c, d) == /\ role'[d] = "client" /\ cid'[d] = i
                             /\ bastion'[d] = bastion[c]
                             /\ \/ IsRemovingItself(d) /\ clients'[r][i] = None
                                \/ Joins(d) /\ clients'[r][i] = d
           Lost(r, i, c) == clients[r][i] = c /\ clients'[r][i] # c
           Keeps(r, i, c) == Lost(r, i, c) => \E d \in Conns : By(r, i, c, d)
<1>1. ASSUME HubInv, HubNext, NEW r \in RoomIds, NEW i \in Ids, NEW c \in Conns
      PROVE  Keeps(r, i, c)
  <2> USE <1>1 DEF HubInv
  <2>1. ASSUME NEW d \in Conns, NEW b \in Bastions, NEW r2 \in RoomIds, JoinDaemon(d, b, r2)
        PROVE  clients' = clients
    <3>1. ClientsIn(b, r2) = clients[r2]
      BY <2>1, FreshRoomIsEmpty DEF JoinDaemon, Enter
    <3> QED
      BY <2>1, <3>1 DEF JoinDaemon, HubTypeOK
  <2>2. ASSUME NEW d \in Conns, NEW b \in Bastions, NEW r2 \in RoomIds, NEW id \in Ids,
               JoinClient(d, b, r2, id), Lost(r, i, c)
        PROVE  By(r, i, c, d)
    <3>1. clients' = [clients EXCEPT ![r2] = [clients[r2] EXCEPT ![id] = d]]
      BY <2>2, FreshRoomIsEmpty DEF JoinClient, Enter
    <3>2. r = r2 /\ i = id /\ clients'[r][i] = d
      BY <2>2, <3>1 DEF HubTypeOK
    <3>3. role'[d] = "client" /\ cid'[d] = i /\ bastion'[d] = b /\ Joins(d)
      BY <2>2, <3>2 DEF JoinClient, Enter, Joins, HubTypeOK
    <3>4. bastion[c] = b
      <4>1. rooms[bastion[c]] = r /\ bastion[c] \in Bastions
        BY <2>2, ConstantsAssumption DEF RegistrationIsCurrent, HubTypeOK
      <4>2. Enter(d, b, r)
        BY <2>2, <3>2 DEF JoinClient
      <4> QED
        BY <4>1, <4>2, EnterFacts
    <3> QED
      BY <3>2, <3>3, <3>4
  <2>3. ASSUME NEW d \in Conns, LeaveRemove(d), Lost(r, i, c) PROVE By(r, i, c, d)
    <3>1. r = leaving[d] /\ role[d] = "client" /\ i = cid[d] /\ clients'[r][i] = None
      BY <2>3, RemovalFacts
    <3>2. UNCHANGED <<role, cid, bastion>> /\ IsRemovingItself(d)
      BY <2>3 DEF LeaveRemove, Return, IsRemovingItself, HubTypeOK
    <3>3. bastion[d] = bastion[c]
      <4>1. room[c] = r
        BY <2>3 DEF RegistrationIsCurrent
      <4> QED
        BY <3>1, <4>1 DEF OwnersAgree, Refers
    <3> QED
      BY <3>1, <3>2, <3>3
  <2>4. ASSUME NEW d \in Conns, Reject(d) \/ ReadError(d) \/ LeaveLookup(d) \/ LeaveReap(d)
        PROVE  clients' = clients
    BY <2>4 DEF Reject, ReadError, LeaveLookup, LeaveReap
  <2>5. CASE HubIdle
    BY <2>5 DEF HubIdle, hubVars
  <2>6. ASSUME NEW d \in Conns, Join(d) PROVE Keeps(r, i, c)
    <3>1. CASE \E b \in Bastions, r2 \in RoomIds : JoinDaemon(d, b, r2)
      BY <2>1, <3>1
    <3>2. CASE \E b \in Bastions, r2 \in RoomIds : \E id \in Ids : JoinClient(d, b, r2, id)
      <4> HIDE DEF By, Lost
      <4> QED
        BY <2>2, <3>2
    <3> QED
      BY <2>6, <3>1, <3>2 DEF Join, Ids
  <2>7. ASSUME NEW d \in Conns, LeaveRemove(d) PROVE Keeps(r, i, c)
    <3> HIDE DEF By, Lost
    <3> QED
      BY <2>3, <2>7
  <2> QED
    BY <2>4, <2>5, <2>6, <2>7 DEF HubNext, Leave
<1>2. HubInv /\ [HubNext]_hubVars
        => [\A r \in RoomIds, i \in Ids, c \in Conns : Keeps(r, i, c)]_hubVars
  BY <1>1
<1> QED
  BY <1>2, HubInvariant, PTL DEF HubSpec, SlotBelongsToId
=============================================================================
