\* Four registrations by two users of two bastions; a token for each, and a
\* clock reading to spare.
CONSTANTS
  Calls = {c1, c2, c3, c4}
  Users = {u1, u2}
  Bastions = {b1, b2}
  Tokens = {t1, t2, t3, t4}
  Versions = {v1, v2}
  MaxTime = 5
  None = None
SPECIFICATION Spec
SYMMETRY Symmetry
INVARIANTS
  TypeOK
  TokenIndex
  TokenGoesToOwner
  TokenWorks
