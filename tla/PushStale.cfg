\* A device registers a new token while a push to its old one is failing.
CONSTANTS
  Devices = {d1}
  Users = {u1}
  Tokens <- IosTokens
  Envs <- KeyEnvs
  Sends = {s1}
  MaxUpserts = 2
  None = None
SPECIFICATION Spec
INVARIANTS
  FailureIsOfThisToken
