---------------------------- MODULE ServerProofs ----------------------------
(***************************************************************************)
(* The middleware records what was sent and the process exits gracefully,  *)
(* for any numbers of requests and any three timeouts.  ServerInv is the   *)
(* inductive invariant: the checked properties; what the recorder and the  *)
(* wire hold before the end of a request (RecordInv); and how late main    *)
(* can be in each phase, and that a drained server is quiet (ShutdownInv). *)
(* The second half proves that the loop of HandleHTTP over any offers, in  *)
(* any headers, comes to what Expected says without one.                   *)
(***************************************************************************)
EXTENDS Server, SequenceTheorems, WellFoundedInduction, TLAPS

\* Nothing is sent before the handler answers, what it sent is recorded, and
\* only the last step of a request panics.
RecordInv ==
  \A r \in Requests :
     /\ pc[r] # "done" => r \notin panicked
     /\ pc[r] \in {"new", "auth", "handle"} => wire[r] = "none"
     /\ pc[r] # "done" /\ wire[r] = "none" => status[r] = "200"
     /\ pc[r] = "return" /\ wire[r] # "none" => status[r] = wire[r]

\* The time sentry.Flush may take.
FlushTime == IF conf.sentry THEN SentryTime ELSE 0

\* Main is in no phase later than the deadlines before it allow; once
\* Shutdown has returned nil nothing is in flight, and sentry.Flush began.
ShutdownInv ==
  /\ phase \in {"boot", "up", "fatal"} => clock = 0
  /\ phase = "drain" => clock <= Grace
  /\ phase \in {"boot", "up", "fatal", "drain"} => drainedAt = Never
  /\ phase = "sentry" => /\ mark <= Grace /\ clock <= mark + FlushTime
                         /\ drainedAt # Never => drainedAt = mark
  /\ phase = "otel" => /\ mark <= Grace + FlushTime
                       /\ drainedAt # Never => mark <= drainedAt + FlushTime
  /\ clock <= Grace + FlushTime
  /\ drainedAt # Never => InFlight = {}

\* The WebSocket requests are a function on all requests.
WsDomain == ws = [r \in Requests |-> ws[r]]

ServerInv ==
  /\ TypeOK
  /\ WsDomain
  /\ RecordInv
  /\ RecordedIsSent
  /\ ShutdownInv
  /\ GracefulExit

LEMMA InitServerInv == Init => ServerInv
<1> SUFFICES ASSUME Init PROVE ServerInv
  OBVIOUS
<1> USE ServerAssumption DEF Init, Never
<1>1. TypeOK
  BY DEF TypeOK, StartStatus, Codes
<1>2. WsDomain /\ RecordInv /\ RecordedIsSent
  BY DEF WsDomain, RecordInv, RecordedIsSent, StartStatus
<1>f. FlushTime \in Nat
  BY DEF FlushTime
<1>3. ShutdownInv
  BY <1>f DEF ShutdownInv
<1>4. GracefulExit
  BY DEF GracefulExit
<1> QED
  BY <1>1, <1>2, <1>3, <1>4 DEF ServerInv
----------------------------------------------------------------------------
(* The steps of a request. *)

\* No request takes a step once Shutdown has returned nil, or after the exit.
LEMMA RequestWhileServing ==
  ASSUME ServerInv, NEW r \in Requests, Request(r)
  PROVE  UNCHANGED main /\ drainedAt = Never /\ phase # "exited"
<1> USE DEF ServerInv
<1>1. UNCHANGED main /\ Alive /\ (drainedAt = Never \/ pc[r] \in {"auth", "handle", "return"})
  BY DEF Request, Arrive, Authorize, ServeOpen, ServeSignaling, ServeClaims, ServeWs,
         ServeUnknown, Answer, HungUp, Panic, Return
<1> QED
  BY <1>1 DEF Alive, ShutdownInv, InFlight

\* So a request disturbs nothing of what is known about main.
LEMMA RequestLeavesMain ==
  ASSUME ServerInv, NEW r \in Requests, Request(r)
  PROVE  ShutdownInv' /\ GracefulExit'
<1> USE RequestWhileServing DEF ServerInv, main
<1>1. ShutdownInv'
  BY DEF ShutdownInv, FlushTime, Never
<1>2. GracefulExit'
  BY DEF GracefulExit
<1> QED
  BY <1>1, <1>2

\* What is known of a request that writes status code and then returns.
LEMMA AnswerPreserves ==
  ASSUME ServerInv, NEW r \in Requests,
         NEW code \in Codes \cup {"101", "401", "404", "500", "501"}, NEW seen,
         seen # <<>> => seen[1] \in Handshakes,
         pc[r] \in {"auth", "handle"},
         pc' = [pc EXCEPT ![r] = "return"],
         WriteHeader(r, code),
         ws' = [ws EXCEPT ![r] = seen] \/ UNCHANGED ws,
         UNCHANGED <<main, endpoint, claims, panicked>>
  PROVE  TypeOK' /\ WsDomain' /\ RecordInv' /\ RecordedIsSent'
<1> USE DEF ServerInv, main, WriteHeader
<1>s. /\ pc'[r] = "return" /\ wire'[r] = code /\ status'[r] = code
      /\ \A q \in Requests : q # r => /\ pc'[q] = pc[q] /\ wire'[q] = wire[q]
                                      /\ status'[q] = status[q] /\ ws'[q] = ws[q]
      /\ ws'[r] # <<>> => ws'[r][1] \in Handshakes
  BY DEF TypeOK, WsDomain, RecordInv
<1>1. TypeOK'
  <2>1. \A q \in Requests : ws'[q] # <<>> => pc'[q] = "return" /\ ws'[q][1] \in Handshakes
    BY <1>s DEF TypeOK
  <2>2. /\ pc' \in [Requests -> {"new", "auth", "handle", "return", "done"}]
        /\ wire' \in [Requests -> Codes \cup {"none", "101", "401", "404", "500", "501"}]
        /\ status' \in [Requests -> Codes \cup {"101", "401", "404", "500", "501"}]
    BY DEF TypeOK
  <2>3. exported' \subseteq {q \in Requests : pc'[q] = "done"}
    BY <1>s DEF TypeOK
  <2> QED
    BY <2>1, <2>2, <2>3 DEF TypeOK, Never
<1>2. WsDomain'
  BY DEF WsDomain
<1>3. RecordInv'
  BY <1>s DEF RecordInv, TypeOK, Codes
<1>4. RecordedIsSent'
  BY <1>s DEF RecordedIsSent
<1> QED
  BY <1>1, <1>2, <1>3, <1>4

\* What is known of a request that goes on without writing anything.
LEMMA SilentPreserves ==
  ASSUME ServerInv, NEW r \in Requests, NEW p \in {"auth", "handle", "return"},
         pc[r] \in {"new", "auth", "handle"},
         pc' = [pc EXCEPT ![r] = p],
         endpoint' \in [Requests -> Endpoints \cup {"none"}],
         claims' \in [Requests -> BOOLEAN],
         UNCHANGED <<main, wire, status, panicked, ws>>
  PROVE  TypeOK' /\ WsDomain' /\ RecordInv' /\ RecordedIsSent'
<1> USE DEF ServerInv, main
<1>s. pc'[r] = p /\ \A q \in Requests : q # r => pc'[q] = pc[q]
  BY DEF TypeOK
<1>1. TypeOK'
  <2>1. \A q \in Requests : ws'[q] # <<>> => pc'[q] = "return" /\ ws'[q][1] \in Handshakes
    BY <1>s DEF TypeOK
  <2>2. pc' \in [Requests -> {"new", "auth", "handle", "return", "done"}]
    BY DEF TypeOK
  <2>3. exported' \subseteq {q \in Requests : pc'[q] = "done"}
    BY <1>s DEF TypeOK
  <2> QED
    BY <2>1, <2>2, <2>3 DEF TypeOK, Never
<1>2. WsDomain'
  BY DEF WsDomain
<1>3. RecordInv' /\ RecordedIsSent'
  BY <1>s DEF RecordInv, RecordedIsSent
<1> QED
  BY <1>1, <1>2, <1>3

\* What is known of a request that ends, in a panic or with a return.
LEMMA EndPreserves ==
  ASSUME ServerInv, NEW r \in Requests, Panic(r) \/ Return(r)
  PROVE  TypeOK' /\ WsDomain' /\ RecordInv' /\ RecordedIsSent'
<1> USE DEF ServerInv, main, Panic, Return, WriteHeader
<1>s. /\ pc' = [pc EXCEPT ![r] = "done"] /\ ws' = [ws EXCEPT ![r] = <<>>]
      /\ UNCHANGED <<main, endpoint, claims>>
      /\ pc'[r] = "done" /\ ws'[r] = <<>>
      /\ \A q \in Requests : q # r => /\ pc'[q] = pc[q] /\ wire'[q] = wire[q]
                                      /\ status'[q] = status[q] /\ ws'[q] = ws[q]
                                      /\ q \in panicked' <=> q \in panicked
  BY DEF TypeOK, WsDomain
<1>r. \/ r \in panicked' /\ status'[r] = "500"
      \/ r \notin panicked' /\ status'[r] = wire'[r]
  BY DEF TypeOK, RecordInv
<1>1. TypeOK'
  <2>1. \A q \in Requests : ws'[q] # <<>> => pc'[q] = "return" /\ ws'[q][1] \in Handshakes
    BY <1>s DEF TypeOK
  <2>2. /\ pc' \in [Requests -> {"new", "auth", "handle", "return", "done"}]
        /\ wire' \in [Requests -> Codes \cup {"none", "101", "401", "404", "500", "501"}]
        /\ status' \in [Requests -> Codes \cup {"101", "401", "404", "500", "501"}]
        /\ panicked' \subseteq Requests
    BY DEF TypeOK, Codes
  <2>3. exported' \subseteq {q \in Requests : pc'[q] = "done"}
    BY <1>s DEF TypeOK
  <2> QED
    BY <1>s, <2>1, <2>2, <2>3 DEF TypeOK, Never
<1>2. WsDomain'
  BY <1>s DEF WsDomain
<1>3. RecordInv'
  BY <1>s DEF RecordInv
<1>4. RecordedIsSent'
  BY <1>s, <1>r DEF RecordedIsSent
<1> QED
  BY <1>1, <1>2, <1>3, <1>4

\* A request moves through the middleware and its handler.
LEMMA RequestPreserves ==
  ASSUME ServerInv, NEW r \in Requests, Request(r)
  PROVE  ServerInv'
<1> DEFINE Rest == TypeOK' /\ WsDomain' /\ RecordInv' /\ RecordedIsSent'
<1> SUFFICES Rest
  BY RequestLeavesMain DEF ServerInv
<1>1. ASSUME NEW e \in Endpoints, Arrive(r, e) PROVE Rest
  <2>1. endpoint' \in [Requests -> Endpoints \cup {"none"}] /\ claims' \in [Requests -> BOOLEAN]
    BY <1>1 DEF Arrive, ServerInv, TypeOK
  <2>2. CASE pc' = [pc EXCEPT ![r] = "auth"]
    BY <1>1, <2>1, <2>2, SilentPreserves DEF Arrive
  <2>3. CASE pc' = [pc EXCEPT ![r] = "handle"]
    BY <1>1, <2>1, <2>3, SilentPreserves DEF Arrive
  <2> QED
    BY <1>1, <2>2, <2>3 DEF Arrive
<1>2. CASE Authorize(r)
  <2>1. CASE /\ claims' = [claims EXCEPT ![r] = TRUE]
             /\ pc' = [pc EXCEPT ![r] = "handle"]
             /\ UNCHANGED <<wire, status>>
    <3>1. endpoint' \in [Requests -> Endpoints \cup {"none"}] /\ claims' \in [Requests -> BOOLEAN]
      BY <1>2, <2>1 DEF Authorize, ServerInv, TypeOK
    <3> QED
      BY <1>2, <2>1, <3>1, SilentPreserves DEF Authorize
  <2>2. CASE /\ WriteHeader(r, "401")
             /\ pc' = [pc EXCEPT ![r] = "return"]
             /\ UNCHANGED claims
    <3>1. UNCHANGED <<main, endpoint, claims, panicked>> /\ UNCHANGED ws /\ pc[r] = "auth"
      BY <1>2, <2>2 DEF Authorize
    <3> QED
      BY <2>2, <3>1, AnswerPreserves
  <2> QED
    BY <1>2, <2>1, <2>2 DEF Authorize
<1>3. ASSUME NEW code \in Codes \cup {"101", "401", "404", "501"}, NEW seen,
             seen # <<>> => seen[1] \in Handshakes, Answer(r, code, seen)
      PROVE  Rest
  BY <1>3, AnswerPreserves DEF Answer
<1>4. CASE ServeOpen(r) \/ ServeSignaling(r) \/ ServeClaims(r) \/ ServeUnknown(r)
  <2>1. PICK code \in Codes \cup {"101", "401", "404", "501"} : Answer(r, code, <<>>)
    BY <1>4 DEF ServeOpen, ServeSignaling, ServeClaims, ServeUnknown, Codes
  <2> QED
    BY <1>3, <2>1
<1>5. CASE ServeWs(r)
  <2>1. PICK h \in Handshakes :
          \E code \in Codes \cup {"101", "401", "404", "501"} :
             Answer(r, code, <<h, Negotiate(h)>>)
    BY <1>5 DEF ServeWs, Codes
  <2> QED
    BY <1>3, <2>1
<1>6. CASE HungUp(r)
  <2>1. endpoint' \in [Requests -> Endpoints \cup {"none"}] /\ claims' \in [Requests -> BOOLEAN]
    BY <1>6 DEF HungUp, ServerInv, TypeOK
  <2> QED
    BY <1>6, <2>1, SilentPreserves DEF HungUp
<1>7. CASE Panic(r) \/ Return(r)
  BY <1>7, EndPreserves
<1> QED
  BY <1>1, <1>2, <1>4, <1>5, <1>6, <1>7 DEF Request
----------------------------------------------------------------------------
(* The steps of main. *)

\* Main does not touch the requests.
LEMMA RequestsUntouched ==
  ASSUME ServerInv, UNCHANGED requests
  PROVE  WsDomain' /\ RecordInv' /\ RecordedIsSent'
  BY DEF ServerInv, requests, WsDomain, RecordInv, RecordedIsSent

\* A step of main that exports nothing leaves every type.
LEMMA MainTyped ==
  ASSUME ServerInv, UNCHANGED <<conf, requests>>,
         phase' \in {"boot", "up", "drain", "sentry", "otel", "exited", "fatal"},
         clock' \in Nat, mark' \in 0..clock', drainedAt' \in 0..Never,
         exported' \subseteq Ended, lost' \in {"none", "collector", "deadline"}
  PROVE  TypeOK'
  BY DEF ServerInv, TypeOK, requests, Ended, Never

\* main moves on, or its clock does.
LEMMA MainPreserves ==
  ASSUME ServerInv, Boot \/ ListenFails \/ Signal \/ ShutdownReturns \/ SentryFlushed \/ Tick
  PROVE  ServerInv'
<1> USE ServerAssumption DEF ServerInv, Go
<1>t. /\ clock \in Nat /\ mark \in 0..clock /\ drainedAt \in 0..Never /\ Never \in Nat
      /\ FlushTime \in Nat /\ exported \subseteq Ended
      /\ lost \in {"none", "collector", "deadline"}
  BY DEF TypeOK, FlushTime, Ended, Never
<1>u. UNCHANGED <<conf, requests, exported, lost>> /\ phase' # "exited"
  BY DEF Boot, ListenFails, Signal, ShutdownReturns, SentryFlushed, Tick
<1>f. FlushTime' = FlushTime /\ InFlight' = InFlight /\ Never' = Never
  BY <1>u DEF FlushTime, InFlight, requests, Never
<1>1. TypeOK'
  <2>1. /\ phase' \in {"boot", "up", "drain", "sentry", "otel", "exited", "fatal"}
        /\ clock' \in Nat /\ mark' \in 0..clock'
    BY <1>t DEF Boot, ListenFails, Signal, ShutdownReturns, SentryFlushed, Tick, TypeOK
  <2>2. drainedAt' \in 0..Never
    <3>1. CASE ShutdownReturns
      BY <1>t, <3>1 DEF ShutdownReturns, ShutdownInv, Never
    <3>2. CASE UNCHANGED drainedAt
      BY <1>t, <3>2
    <3> QED
      BY <3>1, <3>2 DEF Boot, ListenFails, Signal, SentryFlushed, Tick
  <2> QED
    BY <1>t, <1>u, <2>1, <2>2, MainTyped
<1>2. WsDomain' /\ RecordInv' /\ RecordedIsSent'
  BY <1>u, RequestsUntouched
<1>3. ShutdownInv'
  <2>1. CASE Boot \/ ListenFails \/ Signal
    BY <1>t, <1>f, <2>1 DEF Boot, ListenFails, Signal, ShutdownInv
  <2>2. CASE ShutdownReturns
    BY <1>t, <1>f, <2>2 DEF ShutdownReturns, AllIdle, ShutdownInv
  <2>3. CASE SentryFlushed
    BY <1>t, <1>f, <2>3 DEF SentryFlushed, ShutdownInv
  <2>4. CASE Tick
    <3>1. phase = "sentry" => clock + 1 <= mark + FlushTime
      BY <1>t, <2>4 DEF Tick, FlushTime
    <3>2. phase = "otel" => clock + 1 <= Grace
      BY <1>t, <2>4 DEF Tick, FlushDeadline
    <3> QED
      BY <1>t, <1>f, <2>4, <3>1, <3>2 DEF Tick, ShutdownInv
  <2> QED
    BY <2>1, <2>2, <2>3, <2>4
<1>4. GracefulExit'
  BY <1>u, <1>3, <1>f DEF GracefulExit, ShutdownInv, FlushTime
<1> QED
  BY <1>1, <1>2, <1>3, <1>4

\* If Shutdown left sentry.Flush its time, the flush begins before shutCtx
\* expires, so that only the collector can lose spans.
LEMMA OTelFlushedPreserves ==
  ASSUME ServerInv, OTelFlushed
  PROVE  ServerInv'
<1> USE ServerAssumption DEF ServerInv, Go
<1>t. /\ clock \in Nat /\ mark \in 0..clock /\ drainedAt \in 0..Never /\ Never \in Nat
      /\ FlushTime \in Nat
  BY DEF TypeOK, FlushTime, Never
<1>u. /\ UNCHANGED <<conf, clock, drainedAt, requests>>
      /\ phase = "otel" /\ phase' = "exited" /\ mark' = clock
  BY DEF OTelFlushed
<1>f. /\ FlushTime' = FlushTime /\ InFlight' = InFlight /\ Never' = Never
      /\ Ended' = Ended
  BY <1>u DEF FlushTime, InFlight, requests, Never, Ended
<1>e. exported' \subseteq Ended /\ lost' \in {"none", "collector", "deadline"}
  BY DEF OTelFlushed, TypeOK, Ended
<1>1. TypeOK'
  BY <1>t, <1>u, <1>e, MainTyped
<1>2. WsDomain' /\ RecordInv' /\ RecordedIsSent'
  BY <1>u, RequestsUntouched
<1>3. ShutdownInv'
  BY <1>t, <1>u, <1>f DEF ShutdownInv
<1>4. GracefulExit'
  <2>1. clock <= Grace + FlushTime
    BY DEF ShutdownInv
  <2>2. ASSUME drainedAt + FlushTime < Grace
        PROVE  InFlight = {} /\ mark < Grace
    BY <1>t, <1>u, <2>2 DEF ShutdownInv, Never
  <2>3. conf.otel => exported' = Ended \/ lost' = IF mark < Grace THEN "collector" ELSE "deadline"
    BY DEF OTelFlushed
  <2> QED
    BY <1>u, <1>f, <2>1, <2>2, <2>3 DEF GracefulExit, FlushTime
<1> QED
  BY <1>1, <1>2, <1>3, <1>4
----------------------------------------------------------------------------
LEMMA NextPreserves == ServerInv /\ [Next]_vars => ServerInv'
<1> SUFFICES ASSUME ServerInv, [Next]_vars PROVE ServerInv'
  OBVIOUS
<1>1. ASSUME NEW r \in Requests, Request(r) PROVE ServerInv'
  BY <1>1, RequestPreserves
<1>2. CASE UNCHANGED vars
  <2>1. TypeOK' /\ WsDomain' /\ RecordInv' /\ RecordedIsSent'
    BY <1>2 DEF vars, main, ServerInv, TypeOK, WsDomain, RecordInv, RecordedIsSent, Never
  <2>2. ShutdownInv' /\ GracefulExit'
    BY <1>2 DEF vars, main, ServerInv, ShutdownInv, GracefulExit, FlushTime, InFlight, Ended, Never
  <2> QED
    BY <2>1, <2>2 DEF ServerInv
<1> QED
  BY <1>1, <1>2, MainPreserves, OTelFlushedPreserves DEF Next, Halt

\* The inductive invariant of the process holds in every reachable state.
THEOREM ServerInvariant == Spec => []ServerInv
  BY InitServerInv, NextPreserves, PTL DEF Spec

\* Every variable keeps its type; only requests that ended have exported spans.
THEOREM ServerTyped == Spec => []TypeOK
  BY ServerInvariant, PTL DEF ServerInv

\* The recorded status is the one sent, or 500 if the handler panicked.
THEOREM ServerRecordedIsSent == Spec => []RecordedIsSent
  BY ServerInvariant, PTL DEF ServerInv

\* The process is gone in time, and a drain in time loses no span but to the
\* collector.
THEOREM ServerGracefulExit == Spec => []GracefulExit
  BY ServerInvariant, PTL DEF ServerInv
----------------------------------------------------------------------------
(* Recursion over numbers: no induction rule, but a least counterexample. *)

\* A set of natural numbers that is not empty has a least element.
LEMMA LeastNat ==
  ASSUME NEW T \in SUBSET Nat, T # {}
  PROVE  \E x \in T : \A y \in T : x <= y
<1>1. PICK x \in T : \A y \in T : ~(<<y, x>> \in OpToRel(<, Nat))
  BY NatLessThanWellFounded, WFMin
<1>2. ASSUME NEW y \in T PROVE x <= y
  <2>1. ~(y < x)
    BY <1>1 DEF OpToRel
  <2> QED
    BY <2>1
<1> QED
  BY <1>2

\* f and g start alike and go on alike.
InStep(f, g, n) ==
  f[0] = g[0] /\ \A i \in 1..n : f[i - 1] = g[i - 1] => f[i] = g[i]

\* f is the iteration of step from base.
Iterates(f, base, step, n) ==
  f[0] = base /\ \A i \in 1..n : f[i] = step[<<f[i - 1], i>>]

\* Two functions that start and go on alike are the same.
LEMMA SameIteration ==
  ASSUME NEW n \in Nat, NEW f, NEW g, InStep(f, g, n)
  PROVE  \A i \in 0..n : f[i] = g[i]
<1> DEFINE T == {i \in 0..n : f[i] # g[i]}
<1> SUFFICES T = {}
  OBVIOUS
<1>1. SUFFICES ASSUME T # {} PROVE FALSE
  OBVIOUS
<1>2. PICK i \in T : \A j \in T : i <= j
  <2>1. T \in SUBSET Nat
    OBVIOUS
  <2> HIDE DEF T
  <2> QED
    BY <1>1, <2>1, LeastNat
<1>3. i \in 1..n /\ i - 1 \in 0..n
  BY <1>2 DEF InStep
<1>4. i - 1 \notin T
  BY <1>2, <1>3
<1>5. f[i - 1] = g[i - 1]
  BY <1>3, <1>4
<1> QED
  BY <1>2, <1>3, <1>5 DEF InStep

\* A step function can be iterated.
LEMMA IterationExists ==
  ASSUME NEW S, NEW base \in S, NEW n \in Nat, NEW step \in [S \X (1..n) -> S]
  PROVE  \E f \in [0..n -> S] : Iterates(f, base, step, n)
<1> USE DEF Iterates
<1> DEFINE Upto(k, f) == Iterates(f, base, step, k)
           T == {k \in 0..n : ~\E f \in [0..k -> S] : Upto(k, f)}
<1>1. SUFFICES ASSUME T # {} PROVE FALSE
  <2>1. n \in 0..n
    OBVIOUS
  <2>2. n \notin T => \E f \in [0..n -> S] : Upto(n, f)
    BY <2>1
  <2> QED
    BY <2>2
<1>2. PICK k \in T : \A j \in T : k <= j
  <2>1. T \in SUBSET Nat
    OBVIOUS
  <2> HIDE DEF T
  <2> QED
    BY <1>1, <2>1, LeastNat
<1>k. k \in 0..n /\ ~\E f \in [0..k -> S] : Upto(k, f)
  BY <1>2
<1>3. k # 0
  <2>1. Upto(0, [i \in 0..0 |-> base])
    OBVIOUS
  <2>2. [i \in 0..0 |-> base] \in [0..0 -> S]
    OBVIOUS
  <2> QED
    BY <1>k, <2>1, <2>2
<1>4. k - 1 \in 0..n /\ k - 1 \notin T
  BY <1>2, <1>k, <1>3
<1>5. PICK f \in [0..(k - 1) -> S] : Upto(k - 1, f)
  BY <1>4
<1> DEFINE g == [i \in 0..k |-> IF i = k THEN step[<<f[k - 1], k>>] ELSE f[i]]
<1>6. g \in [0..k -> S]
  <2>1. step[<<f[k - 1], k>>] \in S
    <3>1. f[k - 1] \in S /\ k \in 1..n
      BY <1>k, <1>3
    <3> QED
      BY <3>1
  <2> QED
    BY <1>k, <2>1
<1>7. Upto(k, g)
  <2>1. g[0] = base
    BY <1>k, <1>3, <1>5
  <2>2. ASSUME NEW i \in 1..k PROVE g[i] = step[<<g[i - 1], i>>]
    <3>1. g[i - 1] = f[i - 1]
      BY <1>k
    <3>2. CASE i = k
      <4>1. g[k] = step[<<f[k - 1], k>>]
        BY <1>k
      <4> QED
        BY <3>1, <3>2, <4>1
    <3>3. CASE i # k
      <4>1. i \in 1..(k - 1) /\ g[i] = f[i]
        BY <1>k, <3>3
      <4> QED
        BY <1>5, <3>1, <4>1
    <3> QED
      BY <3>2, <3>3
  <2> QED
    BY <2>1, <2>2
<1> QED
  BY <1>k, <1>6, <1>7

\* f[i] holds the first i sequences, one after the other.
Concats(f, ss, n) == f[0] = <<>> /\ \A i \in 1..n : f[i] = f[i - 1] \o ss[i]

LEMMA PrefixesExist ==
  ASSUME NEW S, NEW ss \in Seq(Seq(S)), NEW n \in Nat, n = Len(ss)
  PROVE  \E f \in [0..n -> Seq(S)] : Concats(f, ss, n)
<1>n. \A i \in 1..n : ss[i] \in Seq(S)
  OBVIOUS
<1> DEFINE step == [x \in Seq(S) \X (1..n) |-> x[1] \o ss[x[2]]]
<1>1. step \in [Seq(S) \X (1..n) -> Seq(S)]
  BY <1>n, ConcatProperties
<1>e. <<>> \in Seq(S)
  OBVIOUS
<1>2. PICK f \in [0..n -> Seq(S)] :
         f[0] = <<>> /\ \A i \in 1..n : f[i] = step[<<f[i - 1], i>>]
  <2> DEFINE Q == Seq(S)
             e == <<>>
  <2>1. step \in [Q \X (1..n) -> Q] /\ e \in Q
    BY <1>1, <1>e
  <2> HIDE DEF step, Q, e
  <2>2. \E f \in [0..n -> Q] : Iterates(f, e, step, n)
    BY <2>1, IterationExists
  <2> QED
    BY <2>2 DEF Q, e, Iterates
<1>3. ASSUME NEW i \in 1..n PROVE f[i] = f[i - 1] \o ss[i]
  <2>1. i - 1 \in 0..n
    OBVIOUS
  <2>2. f[i - 1] \in Seq(S)
    BY <2>1
  <2>3. step[<<f[i - 1], i>>] = f[i - 1] \o ss[i]
    BY <2>2
  <2> QED
    BY <1>2, <2>3
<1> QED
  BY <1>2, <1>3 DEF Concats

\* FlattenSeq of sequences is a sequence.
LEMMA FlattenTyped ==
  ASSUME NEW S, NEW ss \in Seq(Seq(S))
  PROVE  FlattenSeq(ss) \in Seq(S)
<1>0. PICK n \in Nat : n = Len(ss) /\ \A i \in 1..n : ss[i] \in Seq(S)
  OBVIOUS
<1>1. CASE n = 0
  <2>1. ss = <<>>
    BY <1>0, <1>1, EmptySeq
  <2> QED
    BY <1>0, <1>1, <2>1 DEF FlattenSeq
<1>2. CASE n # 0
  <2> DEFINE Flat(f) == [i \in 1..n |-> IF i = 1 THEN ss[i] ELSE f[i - 1] \o ss[i]]
  <2>f. PICK f \in [0..n -> Seq(S)] :
           f[0] = <<>> /\ \A i \in 1..n : f[i] = f[i - 1] \o ss[i]
    <3>1. \E x \in [0..n -> Seq(S)] : Concats(x, ss, n)
      BY <1>0, PrefixesExist
    <3> QED
      BY <3>1 DEF Concats
  <2>1. f[1] = ss[1] /\ 1 \in 1..n
    <3>0. 1 \in 1..n /\ 1 - 1 = 0
      BY <1>2
    <3>1. f[1] = f[0] \o ss[1]
      BY <2>f, <3>0
    <3>2. ss[1] \in Seq(S)
      BY <1>0, <3>0
    <3> QED
      BY <2>f, <3>0, <3>1, <3>2, ConcatEmptySeq
  <2> DEFINE g == [i \in 1..n |-> f[i]]
  <2>2. g = Flat(g)
    <3>1. ASSUME NEW i \in 1..n
          PROVE  g[i] = IF i = 1 THEN ss[i] ELSE g[i - 1] \o ss[i]
      <4>1. CASE i = 1
        BY <2>1, <4>1
      <4>2. CASE i # 1
        <5>1. i - 1 \in 1..n
          BY <4>2
        <5>2. g[i] = f[i] /\ g[i - 1] = f[i - 1]
          BY <5>1
        <5> QED
          BY <2>f, <4>2, <5>2
      <4> QED
        BY <4>1, <4>2
    <3> QED
      BY <3>1
  <2>3. PICK flat : flat = Flat(flat) /\ FlattenSeq(ss) = flat[n]
    <3> DEFINE c == CHOOSE x : x = Flat(x)
    <3>1. c = Flat(c)
      <4> HIDE DEF g, Flat
      <4>1. \E x : x = Flat(x)
        BY <2>2
      <4> QED
        BY <4>1
    <3>2. FlattenSeq(ss) = c[n]
      BY <1>0, <1>2 DEF FlattenSeq
    <3> HIDE DEF c
    <3> QED
      BY <3>1, <3>2
  <2>4. \A i \in 1..n : flat[i] = IF i = 1 THEN ss[i] ELSE flat[i - 1] \o ss[i]
    BY <2>3
  <2> DEFINE h == [i \in 0..n |-> IF i = 0 THEN <<>> ELSE flat[i]]
  <2>5. h[0] = f[0]
    BY <2>f
  <2>6. ASSUME NEW i \in 1..n, h[i - 1] = f[i - 1] PROVE h[i] = f[i]
    <3>1. CASE i = 1
      BY <2>1, <2>4, <3>1
    <3>2. CASE i # 1
      <4>1. h[i] = flat[i] /\ h[i - 1] = flat[i - 1]
        BY <3>2
      <4> QED
        BY <2>f, <2>4, <2>6, <3>2, <4>1
    <3> QED
      BY <3>1, <3>2
  <2>7. \A i \in 0..n : h[i] = f[i]
    <3> HIDE DEF h
    <3>1. InStep(h, f, n)
      BY <2>5, <2>6 DEF InStep
    <3> QED
      BY <3>1, SameIteration
  <2>8. h[n] = flat[n] /\ h[n] = f[n] /\ f[n] \in Seq(S)
    BY <1>2, <2>7
  <2> QED
    BY <2>3, <2>8
<1> QED
  BY <1>1, <1>2
\* A nonempty set of numbers up to n has its Max and its Min.
LEMMA MaxIn ==
  ASSUME NEW n \in Nat, NEW T \in SUBSET (1..n), T # {}
  PROVE  Max(T) \in T /\ \A y \in T : y <= Max(T)
<1> DEFINE U == {k \in 0..n : \A y \in T : y <= k}
<1>1. n \in U /\ U \in SUBSET Nat
  OBVIOUS
<1>2. PICK k \in U : \A j \in U : k <= j
  <2> HIDE DEF U
  <2> QED
    BY <1>1, LeastNat
<1>3. k \in T
  <2>1. SUFFICES ASSUME k \notin T PROVE FALSE
    OBVIOUS
  <2>2. \A y \in T : y <= k - 1
    BY <1>2, <2>1
  <2>3. k # 0
    <3>1. PICK y \in T : y \in 1..n
      OBVIOUS
    <3> QED
      BY <1>2, <3>1
  <2>4. k - 1 \in U
    BY <1>2, <2>2, <2>3
  <2> QED
    BY <1>2, <2>4
<1>4. \E x \in T : \A y \in T : x >= y
  BY <1>2, <1>3
<1>5. Max(T) \in T /\ \A y \in T : Max(T) >= y
  <2> DEFINE c == CHOOSE x \in T : \A y \in T : x >= y
  <2>1. c \in T /\ \A y \in T : c >= y
    BY <1>4
  <2> QED
    BY <2>1 DEF Max
<1> QED
  BY <1>5

LEMMA MinIn ==
  ASSUME NEW T \in SUBSET Nat, T # {}
  PROVE  Min(T) \in T /\ \A y \in T : Min(T) <= y
<1>4. \E x \in T : \A y \in T : x <= y
  BY LeastNat
<1>5. Min(T) \in T /\ \A y \in T : Min(T) <= y
  <2> DEFINE c == CHOOSE x \in T : \A y \in T : x <= y
  <2>1. c \in T /\ \A y \in T : c <= y
    BY <1>4
  <2> QED
    BY <2>1 DEF Min
<1> QED
  BY <1>5

\* What a further offer does to the places of the credentials.
LEMMA CredsGrow ==
  ASSUME NEW s \in Seq(Offer), NEW p \in Offer, NEW n \in Nat, n = Len(s)
  PROVE  /\ Creds(s) \subseteq 1..n
         /\ Creds(Append(s, p)) = Creds(s) \cup (IF p.kind = "cred" THEN {n + 1} ELSE {})
         /\ Named(s) \subseteq Creds(s)
         /\ Named(Append(s, p)) = Named(s) \cup
               (IF p.kind = "cred" /\ p.bastion # "" THEN {n + 1} ELSE {})
<1> DEFINE t == Append(s, p)
<1>1. /\ DOMAIN s = 1..n
      /\ DOMAIN t = 1..(n + 1)
      /\ \A i \in 1..n : t[i] = s[i]
      /\ t[n + 1] = p
  BY AppendProperties
<1>2. 1..(n + 1) = (1..n) \cup {n + 1} /\ n + 1 \notin 1..n
  OBVIOUS
<1> HIDE DEF t
<1>3. Creds(t) = Creds(s) \cup (IF p.kind = "cred" THEN {n + 1} ELSE {})
  BY <1>1, <1>2 DEF Creds
<1>4. Creds(s) \subseteq 1..n /\ Named(s) \subseteq Creds(s)
  BY <1>1 DEF Creds, Named
<1>5. Named(t) = Named(s) \cup (IF p.kind = "cred" /\ p.bastion # "" THEN {n + 1} ELSE {})
  <2>1. CASE p.kind = "cred"
    BY <1>1, <1>2, <1>3, <1>4, <2>1 DEF Named
  <2>2. CASE p.kind # "cred"
    BY <1>1, <1>2, <1>3, <1>4, <2>2 DEF Named
  <2> QED
    BY <2>1, <2>2
<1> QED
  BY <1>3, <1>4, <1>5 DEF t

\* Final follows the loop: nothing is offered ...
LEMMA FinalOfNone == ASSUME NEW h PROVE Final(h, <<>>) = Query(h)
<1>1. Creds(<<>>) = {} /\ Named(<<>>) = {} /\ Range(<<>>) = {}
  BY DEF Creds, Named, Range
<1> QED
  BY <1>1 DEF Final, Query

\* The arms of an iteration exclude each other.
LEMMA OfferedCases ==
  ASSUME NEW st, NEW p
  PROVE  /\ p.kind = "cred" =>
              Offered(st, p) = [role |-> IF st.role = "" THEN "client" ELSE st.role,
                                bastion |-> IF st.bastion = "" THEN p.bastion ELSE st.bastion,
                                negotiated |-> p]
         /\ p.kind # "cred" =>
              Offered(st, p) = IF p = Plain /\ st.negotiated = Other
                                 THEN [st EXCEPT !.negotiated = Plain] ELSE st
<1>1. Plain.kind = "plain"
  BY DEF Plain
<1>2. p.kind = "cred" => p # Plain
  BY <1>1
<1> HIDE DEF Plain
<1> DEFINE a == [role |-> IF st.role = "" THEN "client" ELSE st.role,
                 bastion |-> IF st.bastion = "" THEN p.bastion ELSE st.bastion,
                 negotiated |-> p]
           b == [st EXCEPT !.negotiated = Plain]
<1>3. Offered(st, p) = CASE p.kind = "cred" -> a
                         [] p = Plain /\ st.negotiated = Other -> b
                         [] OTHER -> st
  BY DEF Offered
<1> HIDE DEF a, b
<1>4. CASE p.kind = "cred"
  BY <1>2, <1>3, <1>4 DEF a
<1>5. CASE p.kind # "cred"
  BY <1>3, <1>5 DEF b
<1> QED
  BY <1>4, <1>5

\* ... and one more is.
LEMMA FinalOfAppend ==
  ASSUME NEW h, NEW s \in Seq(Offer), NEW p \in Offer
  PROVE  Final(h, Append(s, p)) = Offered(Final(h, s), p)
<1> DEFINE t == Append(s, p)
<1>n. PICK n \in Nat : n = Len(s)
  BY LenProperties
<1>1. /\ DOMAIN s = 1..n
      /\ DOMAIN t = 1..(n + 1)
      /\ \A i \in 1..n : t[i] = s[i]
      /\ t[n + 1] = p
  BY <1>n, AppendProperties
<1>2. /\ Creds(s) \subseteq 1..n
      /\ Creds(t) = Creds(s) \cup (IF p.kind = "cred" THEN {n + 1} ELSE {})
      /\ Named(s) \subseteq Creds(s)
      /\ Named(t) = Named(s) \cup
            (IF p.kind = "cred" /\ p.bastion # "" THEN {n + 1} ELSE {})
  BY <1>n, CredsGrow
<1>c. Creds(s) \subseteq 1..n /\ Named(s) \subseteq 1..n
  BY <1>2, Zenon
<1>d. Named(s) \subseteq Named(t) /\ Named(t) \subseteq Named(s) \cup {n + 1}
  BY <1>2, Zenon
<1>3. Plain \in Range(t) <=> Plain \in Range(s) \/ p = Plain
  <2>1. 1..(n + 1) = (1..n) \cup {n + 1}
    OBVIOUS
  <2> HIDE DEF t
  <2> QED
    BY <1>1, <2>1 DEF Range
<1> HIDE DEF t
<1>4. p.kind = "cred" => Creds(t) # {} /\ t[Max(Creds(t))] = p
  <2>1. ASSUME p.kind = "cred" PROVE Max(Creds(t)) = n + 1
    <3>1. Creds(t) = Creds(s) \cup {n + 1}
      BY <1>2, <2>1
    <3>2. Creds(t) \in SUBSET (1..(n + 1)) /\ n + 1 \in Nat /\ n + 1 \in Creds(t)
      BY <1>c, <3>1
    <3>3. Max(Creds(t)) \in Creds(t) /\ n + 1 <= Max(Creds(t))
      BY <3>2, MaxIn
    <3> QED
      BY <3>2, <3>3
  <2> QED
    BY <1>1, <1>2, <2>1
<1>5. p.kind # "cred" /\ Creds(s) # {} => t[Max(Creds(t))] = s[Max(Creds(s))]
  <2>1. ASSUME p.kind # "cred", Creds(s) # {}
        PROVE  Max(Creds(t)) = Max(Creds(s)) /\ Max(Creds(s)) \in 1..n
    <3>1. Creds(t) = Creds(s)
      BY <1>2, <2>1
    <3>2. Max(Creds(s)) \in Creds(s)
      BY <1>2, <2>1, MaxIn
    <3> QED
      BY <1>2, <3>1, <3>2
  <2> QED
    BY <1>1, <2>1
<1>6. Creds(s) # {} => s[Max(Creds(s))].kind = "cred"
  <2>1. Creds(s) # {} => Max(Creds(s)) \in Creds(s)
    BY <1>2, MaxIn
  <2> QED
    BY <2>1 DEF Creds
<1>7. Named(s) # {} => /\ t[Min(Named(t))] = s[Min(Named(s))]
                       /\ s[Min(Named(s))].bastion # ""
  <2>1. SUFFICES ASSUME Named(s) # {}
                 PROVE  /\ t[Min(Named(t))] = s[Min(Named(s))]
                        /\ s[Min(Named(s))].bastion # ""
    OBVIOUS
  <2>2. Named(s) \in SUBSET Nat /\ Named(s) \subseteq 1..n
    BY <1>c
  <2>3. Named(t) \in SUBSET Nat /\ Named(t) # {} /\ Named(s) \subseteq Named(t)
        /\ Named(t) \subseteq Named(s) \cup {n + 1}
    BY <1>d, <2>1, <2>2
  <2>4. Min(Named(s)) \in Named(s) /\ \A y \in Named(s) : Min(Named(s)) <= y
    BY <2>1, <2>2, MinIn
  <2>5. Min(Named(t)) \in Named(t) /\ \A y \in Named(t) : Min(Named(t)) <= y
    BY <2>3, MinIn
  <2>6. Min(Named(t)) = Min(Named(s))
    <3>1. Min(Named(t)) <= Min(Named(s))
      BY <2>3, <2>4, <2>5
    <3>2. Min(Named(t)) # n + 1
      BY <2>2, <2>4, <3>1
    <3>3. Min(Named(t)) \in Named(s)
      BY <2>3, <2>5, <3>2
    <3> QED
      BY <2>2, <2>4, <3>1, <3>3
  <2>7. s[Min(Named(s))].bastion # ""
    BY <2>4 DEF Named
  <2> QED
    BY <1>1, <2>2, <2>4, <2>6, <2>7
<1>8. Named(s) = {} /\ p.kind = "cred" /\ p.bastion # "" => t[Min(Named(t))] = p
  <2>1. ASSUME Named(t) = {n + 1} PROVE Min(Named(t)) = n + 1
    <3>1. Named(t) \in SUBSET Nat /\ Named(t) # {}
      BY <2>1
    <3>2. Min(Named(t)) \in Named(t)
      BY <3>1, MinIn
    <3> QED
      BY <2>1, <3>2
  <2> QED
    BY <1>1, <1>2, <2>1
<1> DEFINE F == Final(h, s)
           G == Final(h, t)
<1>9. CASE p.kind = "cred"
  <2>2. G.negotiated = p
    BY <1>4, <1>9 DEF Final
  <2>3. G.role = IF F.role = "" THEN "client" ELSE F.role
    BY <1>4, <1>9 DEF Final
  <2>4. G.bastion = IF F.bastion = "" THEN p.bastion ELSE F.bastion
    <3>1. CASE Named(s) # {}
      <4>1. Named(t) # {}
        BY <1>2, <3>1
      <4> QED
        BY <1>7, <3>1, <4>1 DEF Final
    <3>2. CASE Named(s) = {} /\ p.bastion # ""
      <4>1. Named(t) # {}
        BY <1>2, <1>9, <3>2
      <4> QED
        BY <1>8, <1>9, <3>2, <4>1 DEF Final
    <3>3. CASE Named(s) = {} /\ p.bastion = ""
      <4>1. Named(t) = {}
        BY <1>2, <3>3
      <4> QED
        BY <3>3, <4>1 DEF Final
    <3> QED
      BY <3>1, <3>2, <3>3
  <2>5. G = [role |-> G.role, bastion |-> G.bastion, negotiated |-> G.negotiated]
    BY DEF Final
  <2> HIDE DEF F, G
  <2>6. Offered(F, p) = [role |-> IF F.role = "" THEN "client" ELSE F.role,
                         bastion |-> IF F.bastion = "" THEN p.bastion ELSE F.bastion,
                         negotiated |-> p]
    BY <1>9, OfferedCases
  <2> QED
    BY <2>2, <2>3, <2>4, <2>5, <2>6 DEF F, G, t
<1>10. CASE p.kind # "cred"
  <2>1. Creds(t) = Creds(s) /\ Named(t) = Named(s)
    BY <1>2, <1>10
  <2>2. G.role = F.role /\ G.bastion = F.bastion
    BY <1>7, <2>1 DEF Final
  <2>3. G.negotiated = IF p = Plain /\ F.negotiated = Other THEN Plain ELSE F.negotiated
    <3>1. Plain # Other
      BY DEF Plain, Other
    <3>2. CASE Creds(s) # {}
      <4>1. F.negotiated = s[Max(Creds(s))] /\ G.negotiated = F.negotiated
        BY <1>5, <1>10, <2>1, <3>2 DEF Final
      <4>2. F.negotiated # Other
        <5>1. Other.kind = "other"
          BY DEF Other
        <5>2. F.negotiated.kind = "cred"
          BY <1>6, <3>2, <4>1
        <5> QED
          BY <5>1, <5>2
      <4> QED
        BY <4>1, <4>2
    <3>3. CASE Creds(s) = {}
      BY <1>3, <2>1, <3>1, <3>3 DEF Final
    <3> QED
      BY <3>2, <3>3
  <2>4. /\ G = [role |-> G.role, bastion |-> G.bastion, negotiated |-> G.negotiated]
        /\ F = [role |-> F.role, bastion |-> F.bastion, negotiated |-> F.negotiated]
    BY DEF Final
  <2> HIDE DEF F, G
  <2>5. Offered(F, p) = IF p = Plain /\ F.negotiated = Other
                          THEN [F EXCEPT !.negotiated = Plain] ELSE F
    BY <1>10, OfferedCases
  <2>6. [F EXCEPT !.negotiated = Plain]
           = [role |-> F.role, bastion |-> F.bastion, negotiated |-> Plain]
    BY <2>4
  <2> QED
    BY <2>2, <2>3, <2>4, <2>5, <2>6 DEF F, G, t
<1> QED
  BY <1>9, <1>10

\* The loop computes Final.
LEMMA LoopIsFinal ==
  ASSUME NEW h, NEW s \in Seq(Offer) PROVE Loop(h, s) = Final(h, s)
<1>n. PICK n \in Nat : n = Len(s)
  BY LenProperties
<1> DEFINE F(x) == [i \in 0..n |-> IF i = 0 THEN Query(h) ELSE Offered(x[i - 1], s[i])]
           g == [i \in 0..n |-> Final(h, SubSeq(s, 1, i))]
<1>0. g[0] = Query(h)
  <2>1. SubSeq(s, 1, 0) = <<>>
    OBVIOUS
  <2>2. g[0] = Final(h, SubSeq(s, 1, 0))
    OBVIOUS
  <2> HIDE DEF g
  <2> QED
    BY <2>1, <2>2, FinalOfNone
<1>1. ASSUME NEW i \in 1..n PROVE g[i] = Offered(g[i - 1], s[i])
  <2> DEFINE u == SubSeq(s, 1, i - 1)
  <2>1. u \in Seq(Offer) /\ s[i] \in Offer
    BY <1>n
  <2>2. SubSeq(s, 1, i) = Append(u, s[i])
    BY <1>n
  <2>3. g[i] = Final(h, SubSeq(s, 1, i)) /\ g[i - 1] = Final(h, u)
    OBVIOUS
  <2> HIDE DEF g, u
  <2>4. Final(h, Append(u, s[i])) = Offered(Final(h, u), s[i])
    BY <2>1, FinalOfAppend
  <2> QED
    BY <2>2, <2>3, <2>4
<1>2. g = F(g)
  <2>1. \A i \in 0..n : g[i] = IF i = 0 THEN Query(h) ELSE Offered(g[i - 1], s[i])
    BY <1>0, <1>1
  <2> QED
    BY <2>1
<1> DEFINE st == CHOOSE x : x = F(x)
<1>3. st = F(st)
  <2> HIDE DEF g, F
  <2>1. \E x : x = F(x)
    BY <1>2
  <2> QED
    BY <2>1
<1>4. Loop(h, s) = st[n]
  BY <1>n DEF Loop
<1>5. \A i \in 0..n : st[i] = IF i = 0 THEN Query(h) ELSE Offered(st[i - 1], s[i])
  <2> HIDE DEF st
  <2> QED
    BY <1>3
<1> HIDE DEF st, g
<1>6. InStep(st, g, n)
  BY <1>0, <1>1, <1>5 DEF InStep
<1>7. st[n] = g[n]
  BY <1>6, SameIteration
<1>8. g[n] = Final(h, s)
  <2>1. SubSeq(s, 1, n) = s
    BY <1>n
  <2>2. g[n] = Final(h, SubSeq(s, 1, n))
    BY DEF g
  <2> QED
    BY <2>1, <2>2
<1> QED
  BY <1>4, <1>7, <1>8

\* The offers are those of the headers without the blanks: there is such a
\* sequence for every prefix.
LEMMA ParseUnfolds ==
  ASSUME NEW headers, NEW parts \in Seq(Offer), parts = FlattenSeq(headers),
         NEW n \in Nat, n = Len(parts)
  PROVE  \E out \in [0..n -> Seq(Offer)] :
            /\ out[0] = <<>>
            /\ \A i \in 1..n : out[i] = IF parts[i] = Blank THEN out[i - 1]
                                        ELSE Append(out[i - 1], parts[i])
            /\ parseSecWSProtocol(headers) = out[n]
<1> DEFINE Q == Seq(Offer)
           e == <<>>
           step == [x \in Q \X (1..n) |->
                      IF parts[x[2]] = Blank THEN x[1] ELSE Append(x[1], parts[x[2]])]
           F(x) == [i \in 0..n |->
                      IF i = 0 THEN <<>>
                      ELSE IF parts[i] = Blank THEN x[i - 1]
                      ELSE Append(x[i - 1], parts[i])]
           Next1(y, i) == IF parts[i] = Blank THEN y ELSE Append(y, parts[i])
<1>1. step \in [Q \X (1..n) -> Q] /\ e \in Q
  <2>1. \A i \in 1..n : parts[i] \in Offer
    OBVIOUS
  <2> QED
    BY <2>1, AppendProperties
<1>2. PICK f \in [0..n -> Q] : Iterates(f, e, step, n)
  <2> HIDE DEF step, Q, e
  <2> QED
    BY <1>1, IterationExists
<1>3. ASSUME NEW i \in 1..n PROVE f[i] = Next1(f[i - 1], i)
  <2>1. i - 1 \in 0..n
    OBVIOUS
  <2>2. f[i - 1] \in Q
    BY <2>1
  <2>3. step[<<f[i - 1], i>>] = Next1(f[i - 1], i)
    BY <2>2
  <2>4. f[i] = step[<<f[i - 1], i>>]
    BY <1>2 DEF Iterates
  <2> HIDE DEF step, Next1
  <2> QED
    BY <2>3, <2>4
<1>4. f[0] = <<>>
  BY <1>2 DEF Iterates
<1>5. f = F(f)
  <2>1. \A i \in 0..n : f[i] = IF i = 0 THEN <<>> ELSE Next1(f[i - 1], i)
    <3> HIDE DEF Next1
    <3>1. ASSUME NEW i \in 0..n, i # 0 PROVE i \in 1..n
      BY <3>1
    <3> QED
      BY <1>3, <1>4, <3>1
  <2> QED
    BY <2>1
<1> DEFINE out == CHOOSE x : x = F(x)
<1>6. out = F(out)
  <2> HIDE DEF F
  <2>1. \E x : x = F(x)
    BY <1>5
  <2> QED
    BY <2>1
<1>7. parseSecWSProtocol(headers) = out[n]
  BY DEF parseSecWSProtocol
<1>8. \A i \in 0..n : out[i] = IF i = 0 THEN <<>> ELSE Next1(out[i - 1], i)
  <2> HIDE DEF out
  <2> QED
    BY <1>6
<1> HIDE DEF out
<1>9. InStep(out, f, n)
  <2>1. out[0] = f[0]
    BY <1>4, <1>8
  <2>2. ASSUME NEW i \in 1..n PROVE out[i] = Next1(out[i - 1], i)
    <3> HIDE DEF Next1
    <3> QED
      BY <1>8
  <2> HIDE DEF Next1
  <2> QED
    BY <1>3, <2>1, <2>2 DEF InStep
<1>10. out[n] = f[n]
  BY <1>9, SameIteration
<1> QED
  BY <1>3, <1>4, <1>7, <1>10

\* Blanks change nothing.
LEMMA FinalOfParse ==
  ASSUME NEW h, NEW headers, FlattenSeq(headers) \in Seq(Offer)
  PROVE  /\ parseSecWSProtocol(headers) \in Seq(Offer)
         /\ Final(h, parseSecWSProtocol(headers)) = Final(h, FlattenSeq(headers))
<1> DEFINE parts == FlattenSeq(headers)
<1>p. parts \in Seq(Offer)
  OBVIOUS
<1> HIDE DEF parts
<1>n. PICK n \in Nat : n = Len(parts)
  BY <1>p, LenProperties
<1>0. PICK out \in [0..n -> Seq(Offer)] :
            /\ out[0] = <<>>
            /\ \A i \in 1..n : out[i] = IF parts[i] = Blank THEN out[i - 1]
                                        ELSE Append(out[i - 1], parts[i])
            /\ parseSecWSProtocol(headers) = out[n]
  BY <1>p, <1>n, ParseUnfolds DEF parts
<1> DEFINE k == [i \in 0..n |-> Final(h, out[i])]
           g == [i \in 0..n |-> Final(h, SubSeq(parts, 1, i))]
<1>1. k[0] = g[0]
  <2>1. SubSeq(parts, 1, 0) = <<>>
    BY <1>p
  <2>2. k[0] = Final(h, out[0]) /\ g[0] = Final(h, SubSeq(parts, 1, 0))
    OBVIOUS
  <2> HIDE DEF k, g
  <2> QED
    BY <1>0, <2>1, <2>2
<1>2. ASSUME NEW i \in 1..n, k[i - 1] = g[i - 1] PROVE k[i] = g[i]
  <2> DEFINE u == SubSeq(parts, 1, i - 1)
             p == parts[i]
             v == out[i - 1]
             w == SubSeq(parts, 1, i)
  <2>1. u \in Seq(Offer) /\ p \in Offer /\ w = Append(u, p)
    BY <1>p, <1>n
  <2>2. v \in Seq(Offer)
    OBVIOUS
  <2>3. k[i] = Final(h, out[i]) /\ k[i - 1] = Final(h, v)
    OBVIOUS
  <2>4. g[i] = Final(h, w) /\ g[i - 1] = Final(h, u)
    OBVIOUS
  <2>5. out[i] = IF p = Blank THEN v ELSE Append(v, p)
    BY <1>0
  <2> HIDE DEF k, g, u, v, w, p
  <2>6. Final(h, w) = Offered(Final(h, u), p)
    BY <2>1, FinalOfAppend
  <2>7. CASE p = Blank
    <3>1. p.kind # "cred" /\ p # Plain
      <4>1. Blank.kind = "blank" /\ Plain.kind = "plain"
        BY DEF Blank, Plain
      <4> QED
        BY <2>7, <4>1
    <3>2. Offered(Final(h, u), p) = Final(h, u)
      BY <3>1, OfferedCases
    <3> QED
      BY <1>2, <2>3, <2>4, <2>5, <2>6, <2>7, <3>2
  <2>8. CASE p # Blank
    <3>1. Final(h, Append(v, p)) = Offered(Final(h, v), p)
      BY <2>1, <2>2, FinalOfAppend
    <3> QED
      BY <1>2, <2>3, <2>4, <2>5, <2>6, <2>8, <3>1
  <2> QED
    BY <2>7, <2>8
<1>3. k[n] = Final(h, out[n]) /\ g[n] = Final(h, SubSeq(parts, 1, n))
  OBVIOUS
<1>4. SubSeq(parts, 1, n) = parts
  BY <1>p, <1>n
<1> HIDE DEF k, g
<1>5. InStep(k, g, n)
  BY <1>1, <1>2 DEF InStep
<1>6. k[n] = g[n]
  BY <1>5, SameIteration
<1>7. out[n] \in Seq(Offer)
  OBVIOUS
<1> QED
  BY <1>0, <1>3, <1>4, <1>6, <1>7 DEF parts

\* The loop of HandleHTTP comes to what Expected says, whatever the headers.
THEOREM NegotiateIsExpected ==
  ASSUME NEW h, h.headers \in Seq(Seq(Offer))
  PROVE  Negotiate(h) = Expected(h)
<1> DEFINE parts == FlattenSeq(h.headers)
           offers == parseSecWSProtocol(h.headers)
           end == Final(h, parts)
           sub == IF end.negotiated = Other THEN Plain ELSE end.negotiated
<1>1. parts \in Seq(Offer)
  BY FlattenTyped
<1>2. offers \in Seq(Offer) /\ Final(h, offers) = end
  BY <1>1, FinalOfParse
<1>3. Loop(h, offers) = end
  BY <1>2, LoopIsFinal
<1>4. Selected(sub, offers) = end.negotiated
  <2>n. PICK n \in Nat : n = Len(offers) /\ DOMAIN offers = 1..n
    BY <1>2, LenProperties
  <2> HIDE DEF end, offers
  <2>1. end.negotiated = IF Creds(offers) # {} THEN offers[Max(Creds(offers))]
                         ELSE IF Plain \in Range(offers) THEN Plain ELSE Other
    BY <1>2 DEF Final
  <2>2. Plain # Other
    BY DEF Plain, Other
  <2>3. CASE Creds(offers) # {}
    <3>1. Creds(offers) \in SUBSET (1..n)
      BY <2>n DEF Creds
    <3>2. Max(Creds(offers)) \in Creds(offers)
      BY <2>3, <3>1, MaxIn
    <3>3. offers[Max(Creds(offers))].kind = "cred"
      BY <3>2 DEF Creds
    <3>4. Other.kind = "other"
      BY DEF Other
    <3>5. offers[Max(Creds(offers))] \in Range(offers)
      BY <2>n, <3>1, <3>2 DEF Range
    <3> QED
      BY <2>1, <2>3, <3>3, <3>4, <3>5 DEF Selected
  <2>4. CASE Creds(offers) = {}
    BY <2>1, <2>2, <2>4 DEF Selected
  <2> QED
    BY <2>3, <2>4
<1>5. Negotiate(h) = IF end.role \notin {"client", "daemon"} \/ end.bastion = ""
                       THEN [status |-> "400"]
                       ELSE [status |-> "ok", role |-> end.role, bastion |-> end.bastion,
                             sub |-> Selected(sub, offers)]
  <2> HIDE DEF end
  <2> QED
    BY <1>3 DEF Negotiate
<1>6. Expected(h) = IF end.role \in {"client", "daemon"} /\ end.bastion # ""
                      THEN [status |-> "ok", role |-> end.role, bastion |-> end.bastion,
                            sub |-> end.negotiated]
                      ELSE [status |-> "400"]
  BY DEF Expected
<1> HIDE DEF end, sub, offers
<1> QED
  BY <1>4, <1>5, <1>6

\* A WebSocket request is read and answered as expected.
AsExpected(r) ==
  LET e == Expected(ws[r][1])
  IN /\ ws[r][2] = e
     /\ wire[r] = "400" <=> e.status = "400"
     /\ status[r] = wire[r]

HandshakeInv == \A r \in Requests : ws[r] # <<>> => AsExpected(r)

\* Once it is answered only Panic and Return touch a request, and they end it.
LEMMA AnsweredUntouched ==
  ASSUME ServerInv, NEW r \in Requests, Request(r), NEW q \in Requests, ws[q] # <<>>
  PROVE  ws'[q] = <<>> \/ (ws'[q] = ws[q] /\ wire'[q] = wire[q] /\ status'[q] = status[q])
<1>d. /\ DOMAIN ws = Requests /\ DOMAIN wire = Requests /\ DOMAIN status = Requests
      /\ pc[q] = "return"
  BY DEF ServerInv, WsDomain, TypeOK
<1>1. CASE (\E e \in Endpoints : Arrive(r, e)) \/ Authorize(r) \/ HungUp(r)
  BY <1>1, <1>d DEF Arrive, Authorize, HungUp, WriteHeader
<1>2. ASSUME NEW code, NEW seen, Answer(r, code, seen)
      PROVE  ws'[q] = ws[q] /\ wire'[q] = wire[q] /\ status'[q] = status[q]
  BY <1>2, <1>d DEF Answer, WriteHeader
<1>3. CASE ServeOpen(r) \/ ServeSignaling(r) \/ ServeClaims(r) \/ ServeWs(r) \/ ServeUnknown(r)
  <2>1. \E code, seen : Answer(r, code, seen)
    BY <1>3, Zenon DEF ServeOpen, ServeSignaling, ServeClaims, ServeWs, ServeUnknown
  <2> QED
    BY <1>2, <2>1
<1>4. CASE Panic(r) \/ Return(r)
  BY <1>4, <1>d DEF Panic, Return, WriteHeader
<1> QED
  BY <1>1, <1>3, <1>4 DEF Request

\* A request gets something to remember only from ServeWs.
LEMMA AnswerAsExpected ==
  ASSUME ServerInv, NEW r \in Requests, Request(r), NEW q \in Requests,
         ws[q] = <<>>, ws'[q] # <<>>
  PROVE  AsExpected(q)'
<1>d. DOMAIN ws = Requests /\ DOMAIN wire = Requests /\ DOMAIN status = Requests
  BY DEF ServerInv, WsDomain, TypeOK
<1>1. ~((\E e \in Endpoints : Arrive(r, e)) \/ Authorize(r) \/ HungUp(r))
  BY DEF Arrive, Authorize, HungUp
<1>2. ~(\/ ServeOpen(r) \/ ServeSignaling(r) \/ ServeClaims(r)
        \/ ServeUnknown(r) \/ Panic(r) \/ Return(r))
  <2>1. ws' # [ws EXCEPT ![r] = <<>>]
    BY <1>d
  <2> QED
    BY <2>1 DEF ServeOpen, ServeSignaling, ServeClaims, ServeUnknown, Panic, Return, Answer
<1>3. ServeWs(r)
  BY <1>1, <1>2 DEF Request
<1>4. PICK h \in Handshakes :
        Answer(r, CASE Negotiate(h).status = "400" -> "400"
                    [] Negotiate(h).status # "400" /\ CanHijack -> "101"
                    [] OTHER -> "501", <<h, Negotiate(h)>>)
  BY <1>3, Zenon DEF ServeWs
<1>5. PICK code : /\ Answer(r, code, <<h, Negotiate(h)>>)
                  /\ code = "400" <=> Negotiate(h).status = "400"
                  /\ code # "none"
  BY <1>4
<1>6. Negotiate(h) = Expected(h)
  BY ServerAssumption, NegotiateIsExpected
<1>7. q = r /\ ws'[r] = <<h, Expected(h)>>
  BY <1>5, <1>6, <1>d DEF Answer
<1>8. wire'[r] = code /\ status'[r] = code
  <2>1. wire[r] = "none"
    BY <1>5 DEF Answer, ServerInv, RecordInv
  <2> QED
    BY <1>5, <1>d, <2>1 DEF Answer, WriteHeader
<1>9. ws'[r][1] = h /\ ws'[r][2] = Expected(h)
  BY <1>7
<1> QED
  BY <1>5, <1>6, <1>7, <1>8, <1>9 DEF AsExpected

\* A request is answered as expected and stays so until it ends.
LEMMA HandshakePreserved ==
  ASSUME ServerInv, HandshakeInv, [Next]_vars
  PROVE  HandshakeInv'
<1>1. SUFFICES ASSUME NEW q \in Requests, ws'[q] # <<>> PROVE AsExpected(q)'
  BY DEF HandshakeInv
<1>2. ASSUME ws'[q] = ws[q], wire'[q] = wire[q], status'[q] = status[q]
      PROVE  AsExpected(q)'
  BY <1>1, <1>2 DEF HandshakeInv, AsExpected
<1>3. ASSUME NEW r \in Requests, Request(r) PROVE AsExpected(q)'
  BY <1>1, <1>2, <1>3, AnsweredUntouched, AnswerAsExpected
<1>4. CASE \/ Boot \/ ListenFails \/ Signal \/ ShutdownReturns \/ SentryFlushed
           \/ OTelFlushed \/ Tick \/ Halt \/ UNCHANGED vars
  <2>1. UNCHANGED <<ws, wire, status>>
    BY <1>4 DEF Boot, ListenFails, Signal, ShutdownReturns, SentryFlushed, OTelFlushed,
                Tick, Halt, vars, requests
  <2> QED
    BY <1>2, <2>1
<1> QED
  BY <1>3, <1>4 DEF Next

\* A WebSocket request is told 400 exactly if query string and credentials leave
\* it without a role or a bastion, and is otherwise read as expected.
THEOREM ServerHandshakeAsExpected == Spec => []HandshakeAsExpected
<1>1. Init => HandshakeInv
  BY DEF Init, HandshakeInv
<1>2. ServerInv /\ HandshakeInv /\ [Next]_vars => HandshakeInv'
  BY HandshakePreserved
<1>3. HandshakeInv => HandshakeAsExpected
  BY DEF HandshakeInv, HandshakeAsExpected, AsExpected
<1> QED
  BY <1>1, <1>2, <1>3, ServerInvariant, PTL DEF Spec
=============================================================================
