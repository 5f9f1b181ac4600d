\* A client reconnects under its client_id before its old connection is gone.
CONSTANTS
  Conns = {c1, c2}
  Bastions = {b1}
  ClientIds = {x}
  RoomIds = {r1, r2}
  None = None
SPECIFICATION HubSpec
PROPERTIES
  ClientKeepsSlot
