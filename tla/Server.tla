------------------------------- MODULE Server -------------------------------
(***************************************************************************)
(* The process around the handlers: start-up, routing, the observability   *)
(* middleware and the shutdown sequence (src/cmd/chepherd-relay/main.go,   *)
(* src/internal/obs/obs.go).  A request passes obs.Middleware, the mux,    *)
(* the auth middleware if the verifier is set, and its handler.            *)
(*                                                                         *)
(* Abstracted: what Verify decides (module Auth) and which status a        *)
(* handler writes (the other modules) are choices; only the handshake of   *)
(* /v1/signaling/ws is followed.  Handlers may run for any time; the clock *)
(* starts with the shutdown.  All spans are sampled, and none is exported  *)
(* before the final flush: the worst case for the flush.                   *)
(*                                                                         *)
(* External: net/http (implicit 200, superfluous WriteHeader, Shutdown),   *)
(* coder/websocket, the Sentry and OpenTelemetry SDKs.                     *)
(***************************************************************************)
EXTENDS Naturals, Handshake

CONSTANTS
  Requests,    \* requests to the server
  Upgrades,    \* those to /v1/signaling/ws
  Handshakes,  \* WebSocket requests clients may send, see Handshake
  Grace,       \* timeout of shutCtx (10s)
  SentryTime,  \* the longest sentry.Flush may take (2s)
  OTelTime     \* timeout of the tracer's shutdown (3s)

ASSUME ServerAssumption ==
  /\ Upgrades \subseteq Requests
  /\ \A h \in Handshakes : h.headers \in Seq(Seq(Offer))
  /\ Grace \in Nat /\ SentryTime \in Nat /\ OTelTime \in Nat

VARIABLES
  conf,      \* what is configured: jwks, sentry, otel
  phase,     \* where main is
  clock,     \* time since the signal
  mark,      \* when main entered the phase
  drainedAt, \* history: when httpSrv.Shutdown returned nil
  pc,        \* where a request is
  endpoint,  \* what it asks for
  claims,    \* the claims in its context are not nil
  wire,      \* the status sent to the client
  status,    \* statusRecorder.status
  panicked,  \* history: a handler panicked
  ws,        \* a WebSocket request being answered, and what came of it
  exported,  \* requests whose span reached the collector
  lost       \* history: why the flush lost spans

main == <<conf, phase, clock, mark, drainedAt, exported, lost>>
vars == <<main, pc, endpoint, claims, wire, status, panicked, ws>>

\* health and stats; signaling, which does not look at claims; register,
\* bastions and push, which do; the WebSocket; anything else.
Endpoints == {"open", "signaling", "claims", "ws", "unknown"}
Protected == {"signaling", "claims", "ws"}
Codes == {"200", "400", "503"}
Never == Grace + 1

TypeOK ==
  /\ conf \in [jwks : BOOLEAN, sentry : BOOLEAN, otel : BOOLEAN]
  /\ phase \in {"boot", "up", "drain", "sentry", "otel", "exited", "fatal"}
  /\ clock \in Nat /\ mark \in 0..clock
  /\ drainedAt \in 0..Never
  /\ pc \in [Requests -> {"new", "auth", "handle", "return", "done"}]
  /\ endpoint \in [Requests -> Endpoints \cup {"none"}]
  /\ claims \in [Requests -> BOOLEAN]
  /\ wire \in [Requests -> Codes \cup {"none", "101", "401", "404", "500", "501"}]
  /\ status \in [Requests -> Codes \cup {"101", "401", "404", "500", "501"}]
  /\ panicked \subseteq Requests
  /\ \A r \in Requests : ws[r] # <<>> => pc[r] = "return" /\ ws[r][1] \in Handshakes
  /\ exported \subseteq {r \in Requests : pc[r] = "done"}
  /\ lost \in {"none", "collector", "deadline"}

\* Slip: the recorder does not start with 200.
StartStatusZero == "none"

\* What statusRecorder says before WriteHeader.
StartStatus == "200"

Init ==
  /\ conf \in [jwks : BOOLEAN, sentry : BOOLEAN, otel : BOOLEAN]
  /\ phase = "boot"
  /\ clock = 0 /\ mark = 0 /\ drainedAt = Never
  /\ pc = [r \in Requests |-> "new"]
  /\ endpoint = [r \in Requests |-> "none"]
  /\ claims = [r \in Requests |-> FALSE]
  /\ wire = [r \in Requests |-> "none"]
  /\ status = [r \in Requests |-> StartStatus]
  /\ panicked = {}
  /\ ws = [r \in Requests |-> <<>>]
  /\ exported = {} /\ lost = "none"

----------------------------------------------------------------------------
(* A request. *)

Alive == phase \in {"up", "drain", "sentry", "otel"}

\* Slip: the wrapped writer is used for everything but the status.
WriteHeaderTwice(r, code) ==
  /\ status' = [status EXCEPT ![r] = IF wire[r] = "none" THEN code ELSE @]
  /\ wire' = [wire EXCEPT ![r] = IF @ = "none" THEN code ELSE @]

\* statusRecorder.WriteHeader: net/http ignores all but the first.
WriteHeader(r, code) ==
  /\ status' = [status EXCEPT ![r] = code]
  /\ wire' = [wire EXCEPT ![r] = IF @ = "none" THEN code ELSE @]

\* obs.Middleware and the mux; the auth middleware if the route has one.  A
\* connection accepted before the signal may bring its request after it, as
\* long as Shutdown has not seen it idle.
Arrive(r, e) ==
  /\ Alive /\ drainedAt = Never
  /\ pc[r] = "new"
  /\ e = "ws" <=> r \in Upgrades
  /\ endpoint' = [endpoint EXCEPT ![r] = e]
  /\ pc' = [pc EXCEPT ![r] = IF conf.jwks /\ e \in Protected THEN "auth" ELSE "handle"]
  /\ UNCHANGED <<main, claims, wire, status, panicked, ws>>

\* Verifier.Middleware.
Authorize(r) ==
  /\ Alive
  /\ pc[r] = "auth"
  /\ \/ /\ claims' = [claims EXCEPT ![r] = TRUE]
        /\ pc' = [pc EXCEPT ![r] = "handle"]
        /\ UNCHANGED <<wire, status>>
     \/ /\ WriteHeader(r, "401")
        /\ pc' = [pc EXCEPT ![r] = "return"]
        /\ UNCHANGED claims
  /\ UNCHANGED <<main, endpoint, panicked, ws>>

\* The handler writes its status; `seen` is kept of a WebSocket request.
Answer(r, code, seen) ==
  /\ Alive
  /\ pc[r] = "handle"
  /\ pc' = [pc EXCEPT ![r] = "return"]
  /\ WriteHeader(r, code)
  /\ ws' = [ws EXCEPT ![r] = seen]
  /\ UNCHANGED <<main, endpoint, claims, panicked>>

ServeOpen(r) == endpoint[r] = "open" /\ Answer(r, "200", <<>>)

ServeSignaling(r) ==
  endpoint[r] = "signaling" /\ \E code \in Codes : Answer(r, code, <<>>)

\* registerBastion, listMyBastions, pushRegister and pushSend refuse a request
\* without claims.
Identified(r) == claims[r]

ServeClaims(r) ==
  /\ endpoint[r] = "claims"
  /\ \/ ~Identified(r) /\ Answer(r, "401", <<>>)
     \/ Identified(r) /\ \E code \in Codes : Answer(r, code, <<>>)

\* The writer a handler gets can be hijacked: statusRecorder embeds the
\* interface http.ResponseWriter, which has no Hijack, and no Unwrap either.
CanHijack == FALSE

\* HandleHTTP: the handshake, then websocket.Accept, which answers 501 if it
\* cannot hijack the connection.
ServeWs(r) ==
  /\ endpoint[r] = "ws"
  /\ \E h \in Handshakes :
        LET out == Negotiate(h)
        IN Answer(r, CASE out.status = "400" -> "400"
                       [] out.status # "400" /\ CanHijack -> "101"
                       [] OTHER -> "501", <<h, out>>)

ServeUnknown(r) == endpoint[r] = "unknown" /\ Answer(r, "404", <<>>)

\* A long poll whose client hung up returns without writing anything.
HungUp(r) ==
  /\ Alive
  /\ pc[r] = "handle" /\ endpoint[r] = "signaling"
  /\ pc' = [pc EXCEPT ![r] = "return"]
  /\ UNCHANGED <<main, endpoint, claims, wire, status, panicked, ws>>

\* The handler panics, before or after it wrote its status; the middleware
\* recovers and ends the span.
Panic(r) ==
  /\ Alive
  /\ pc[r] \in {"handle", "return"}
  /\ WriteHeader(r, "500")
  /\ panicked' = panicked \cup {r}
  /\ pc' = [pc EXCEPT ![r] = "done"]
  /\ ws' = [ws EXCEPT ![r] = <<>>]
  /\ UNCHANGED <<main, endpoint, claims>>

\* The handler returns, net/http sends 200 if nothing was sent, the span ends.
Return(r) ==
  /\ Alive
  /\ pc[r] = "return"
  /\ pc' = [pc EXCEPT ![r] = "done"]
  /\ wire' = [wire EXCEPT ![r] = IF @ = "none" THEN "200" ELSE @]
  /\ ws' = [ws EXCEPT ![r] = <<>>]
  /\ UNCHANGED <<main, endpoint, claims, status, panicked>>

Request(r) ==
  \/ \E e \in Endpoints : Arrive(r, e)
  \/ Authorize(r) \/ ServeOpen(r) \/ ServeSignaling(r) \/ ServeClaims(r)
  \/ ServeWs(r) \/ ServeUnknown(r) \/ HungUp(r) \/ Panic(r) \/ Return(r)

requests == <<pc, endpoint, claims, wire, status, panicked, ws>>

----------------------------------------------------------------------------
(* The process. *)

\* main goes on to phase p.
Go(p) == phase' = p /\ mark' = clock

\* obs.Init succeeds, or fails: log.Fatalf.  (So does a signal that comes
\* before main listens for it.)
Boot ==
  /\ phase = "boot"
  /\ Go("up") \/ Go("fatal")
  /\ UNCHANGED <<conf, clock, drainedAt, exported, lost, requests>>

\* ListenAndServe fails: log.Fatal, without any flush.
ListenFails ==
  /\ phase = "up"
  /\ Go("fatal")
  /\ UNCHANGED <<conf, clock, drainedAt, exported, lost, requests>>

\* SIGTERM or SIGINT: main calls httpSrv.Shutdown.
Signal ==
  /\ phase = "up"
  /\ Go("drain")
  /\ UNCHANGED <<conf, clock, drainedAt, exported, lost, requests>>

Ended == {r \in Requests : pc[r] = "done"}
InFlight == {r \in Requests : pc[r] \notin {"new", "done"}}

\* No request is being served: Shutdown returns nil.
AllIdle == InFlight = {}

\* Slip: main calls Shutdown in a goroutine and goes on at once.
ShutdownReturnsAtOnce ==
  /\ phase = "drain"
  /\ drainedAt' = clock
  /\ Go("sentry")
  /\ UNCHANGED <<conf, clock, exported, lost, requests>>

\* Slip: Shutdown without a deadline.
ShutdownReturnsIdle ==
  /\ phase = "drain"
  /\ AllIdle
  /\ drainedAt' = clock
  /\ Go("sentry")
  /\ UNCHANGED <<conf, clock, exported, lost, requests>>

\* httpSrv.Shutdown returns, because all is quiet or shutCtx has expired.
ShutdownReturns ==
  /\ phase = "drain"
  /\ AllIdle \/ clock = Grace
  /\ drainedAt' = IF AllIdle THEN clock ELSE Never
  /\ Go("sentry")
  /\ UNCHANGED <<conf, clock, exported, lost, requests>>

\* sentry.Flush returns; it does not look at shutCtx.
SentryFlushed ==
  /\ phase = "sentry"
  /\ Go("otel")
  /\ UNCHANGED <<conf, clock, drainedAt, exported, lost, requests>>

\* The deadline of the tracer's shutdown: its own and that of shutCtx.
FlushDeadline == IF mark + OTelTime < Grace THEN mark + OTelTime ELSE Grace

\* The tracer's shutdown and with it the process ends: the spans ended so far
\* are exported, or only some, because the collector did not take them in the
\* time left or the deadline was over from the start.
OTelFlushed ==
  /\ phase = "otel"
  /\ \/ ~conf.otel /\ UNCHANGED <<exported, lost>>
     \/ /\ conf.otel
        /\ exported' = Ended
        /\ UNCHANGED lost
     \/ /\ conf.otel
        /\ \E some \in SUBSET Ended : exported' = some /\ some # Ended
        /\ lost' = IF mark < Grace THEN "collector" ELSE "deadline"
  /\ Go("exited")
  /\ UNCHANGED <<conf, clock, drainedAt, requests>>

\* Time passes while main waits, up to what the phase allows.
Tick ==
  /\ \/ phase = "drain" /\ clock < Grace
     \/ phase = "sentry" /\ conf.sentry /\ clock < mark + SentryTime
     \/ phase = "otel" /\ conf.otel /\ clock < FlushDeadline
  /\ clock' = clock + 1
  /\ UNCHANGED <<conf, phase, mark, drainedAt, exported, lost, requests>>

Halt == phase \in {"exited", "fatal"} /\ UNCHANGED vars

Next ==
  \/ Boot \/ ListenFails \/ Signal \/ ShutdownReturns \/ SentryFlushed
  \/ OTelFlushed \/ Tick \/ Halt
  \/ \E r \in Requests : Request(r)

Spec == Init /\ [][Next]_vars

\* Only main and the clock are fair: handlers may run for ever.
Fairness == WF_vars(Tick) /\ WF_vars(ShutdownReturns \/ SentryFlushed \/ OTelFlushed)

FairSpec == Spec /\ Fairness

----------------------------------------------------------------------------
(* Properties. *)

\* The span of a request records the status its client got, also one that
\* net/http supplied; only a panic after the header was sent makes them
\* differ, and then the span says 500.
RecordedIsSent ==
  \A r \in Requests :
     pc[r] = "done" => IF r \in panicked THEN status[r] = "500"
                                         ELSE status[r] = wire[r]

\* HandleHTTP takes role and bastion from the query string or from the first
\* credential that has them, and sends the last credential back; of a request
\* in which the two name different bastions nothing is said here but what
\* follows.  The client is told 400, and the span says so, exactly if query
\* string and credentials leave the request without a role or a bastion.
HandshakeAsExpected ==
  \A r \in Requests :
     ws[r] # <<>> => LET e == Expected(ws[r][1])
                     IN /\ ~Contradicts(ws[r][1]) => ws[r][2] = e
                        /\ wire[r] = "400" <=> e.status = "400"
                        /\ status[r] = wire[r]

\* The process is gone at most Grace and SentryTime after the signal.
\* If Shutdown returned early enough to leave sentry.Flush its time, every
\* request that arrived was served and its span is exported, unless the
\* collector did not take it in the time left: the drain comes before the
\* flush, on one shared deadline.
GracefulExit ==
  LET sentry == IF conf.sentry THEN SentryTime ELSE 0
  IN /\ clock <= Grace + sentry
     /\ phase = "exited" /\ drainedAt + sentry < Grace
          => /\ InFlight = {}
             /\ conf.otel => exported = Ended \/ lost = "collector"

\* After the signal the process exits, whatever the handlers do.
ShutdownEnds == phase = "drain" ~> phase = "exited"

\* "clients + daemons WebSocket here": a request to /v1/signaling/ws that names
\* a role and a bastion is upgraded.
UpgradeWorks ==
  \A r \in Requests : ws[r] # <<>> /\ ws[r][2].status = "ok" => wire[r] = "101"
=============================================================================
