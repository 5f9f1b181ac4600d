\* Two clients of two bastions, which may draw the same id, queues that hold
\* both offers, and up to three answers that name any id, early, late or twice.
\* (SignalingLive has a client of each of the two calls.)
CONSTANTS
  Requests = {q1, q2}
  Offers = {q1, q2}
  Polls = {p1}
  Posts = {a1, a2, a3}
  Bastions = {b1, b2}
  Ids = {i1, i2}
  QueueCap = 2
  None = None
SPECIFICATION Spec
SYMMETRY Symmetry
INVARIANTS
  FirstAnswerWins
PROPERTIES
  ImplementsRendezvous
