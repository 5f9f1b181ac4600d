\* Two clients of one bastion whose queue is full with one offer, and two
\* competing polls; no symmetry: liveness.
CONSTANTS
  Requests = {q1, q2}
  Offers = {q2}
  Polls = {p1, p2}
  Posts = {a1}
  Bastions = {b1}
  Ids = {i1, i2}
  QueueCap = 1
  None = None
SPECIFICATION FairSpec
INVARIANTS
  TypeOK
  OfferOnce
  PendingAccounted
PROPERTIES
  CallEnds
  QueueDrains
