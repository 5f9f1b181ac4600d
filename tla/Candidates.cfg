\* Three candidates for a bastion and a client, two concurrent polls, which may
\* compete for the bastion's queue, queues of two; no symmetry: liveness.
CONSTANTS
  Cands = {x1, x2, x3}
  Polls = {"p1", "p2"}
  Peers = {"bastion", "client"}
  Of <- PollsOf
  Asks <- AsksAny
  QueueCap = 2
  None = None
SPECIFICATION FairSpec
INVARIANTS
  TypeOK
  AcceptedOnce
  DrainInOrder
PROPERTIES
  QueueDrains
