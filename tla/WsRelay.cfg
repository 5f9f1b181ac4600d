\* Three connections in any roles at two bastions; two frames, of one sender
\* or of two; sockets that hold one frame.  A room dropped by the hub may still
\* be held by a displaced daemon while rooms are made for the other bastion.
CONSTANTS
  Conns = {c1, c2, c3}
  Bastions = {b1, b2}
  ClientIds = {x}
  RoomIds = {r1, r2, r3}
  None = None
  MaxFrames = 2
  MaxTotal = 2
  OutCap = 1
  Slow = {}
SPECIFICATION Spec
SYMMETRY Symmetry
INVARIANTS
  TypeOK
  RegistrationIsCurrent
  RoomsIsolated
  EmptyRoomIsBeingReaped
  UncontestedIsRegistered
  InOrderOnce
  NothingLost
PROPERTIES
  DaemonKeepsSlot
