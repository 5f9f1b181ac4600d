\* Two devices of two users, registered three times in all, two notifications;
\* one of the two backends is configured.
CONSTANTS
  Devices = {d1, d2}
  Users = {u1, u2}
  Tokens <- MCTokens
  Envs <- MCEnvs
  Sends = {s1, s2}
  MaxUpserts = 3
  None = None
SPECIFICATION ApiSpec
SYMMETRY Symmetry
INVARIANTS
  TypeOK
  ReportAddsUp
  OncePerDevice
