\* Two requests; a grace period of three instants, one for sentry.Flush and two
\* for the tracer, so that they fit into it, just fit or do not.
CONSTANTS
  Requests = {r1, r2}
  Upgrades = {r1}
  Handshakes <- MCHandshakes
  Grace = 3
  SentryTime = 1
  OTelTime = 2
SPECIFICATION FairSpec
INVARIANTS
  TypeOK
  RecordedIsSent
  HandshakeAsExpected
  GracefulExit
PROPERTIES
  ShutdownEnds
