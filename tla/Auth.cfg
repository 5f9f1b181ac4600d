\* Two calls whose fetches overlap, two keys and an entry refresh skips; fetches
\* take up to one instant, the cache lives for two, and the clock runs until
\* a key withdrawn at the start is out of every cache.
CONSTANTS
  k1 = k1
  k2 = k2
  Calls = {c1, c2}
  Kids = {k1, k2}
  Unusable = {other}
  Tokens <- MCTokens
  RefreshInterval = 2
  Timeout = 1
  MaxTime = 3
SPECIFICATION FairSpec
INVARIANTS
  TypeOK
  OneDocument
  RevocationBound
  RotationBound
PROPERTIES
  CallEnds
