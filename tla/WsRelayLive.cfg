\* The peer of c3 may stop reading for good; liveness, no symmetry.  One
\* address for rooms: the room is made again only after everybody who held it
\* has returned.
CONSTANTS
  Conns = {c1, c2, c3}
  Bastions = {b1}
  ClientIds = {}
  RoomIds = {r1}
  None = None
  MaxFrames = 2
  MaxTotal = 2
  OutCap = 1
  Slow = {c3}
SPECIFICATION FairSpec
PROPERTIES
  OnlySlowBlocks
  HubDrains
