\* One request to /v1/signaling/ws, through the middleware as main wires it.
CONSTANTS
  Requests = {r1}
  Upgrades = {r1}
  Handshakes <- MCHandshakes
  Grace = 3
  SentryTime = 1
  OTelTime = 2
SPECIFICATION Spec
INVARIANTS
  UpgradeWorks
