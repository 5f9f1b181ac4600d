-------------------------------- MODULE Push --------------------------------
(***************************************************************************)
(* Push notifications: the device registry (src/internal/push/registry.go),*)
(* the routing dispatcher and its APNs and FCM backends (push.go, apns.go, *)
(* fcm.go), and the handlers pushRegister and pushSend                     *)
(* (src/cmd/chepherd-relay/main.go).                                       *)
(*                                                                         *)
(* pushSend takes a snapshot of its user's registrations and works through *)
(* it without the registry's lock: registrations change meanwhile.  A step *)
(* is one critical section of Memory.mu, or one answer of a provider.  An  *)
(* error of Send does not say that the push was not delivered: a backend   *)
(* whose caller hangs up, or whose connection to the provider breaks,      *)
(* returns and leaves the push with the provider.                          *)
(*                                                                         *)
(* Abstracted: the notification's content; LastFailureAt, which no code    *)
(* reads, is the device token whose dispatch failed instead of a time.     *)
(* External: the providers.                                                *)
(***************************************************************************)
EXTENDS Naturals, SequencesExt

CONSTANTS
  Devices,     \* device_id values
  Users,       \* user_id values
  Tokens,      \* push.Token values: [platform, value, bundle]
  Envs,        \* environments the relay may be started in, of type Env
  Sends,       \* calls of pushSend
  MaxUpserts,  \* bound: calls of pushRegister
  None

Platforms == {"ios", "android", "webpush"}

\* A group of environment variables: not (completely) given, given and good, or
\* given but the file it names cannot be used.
Credential == {"unset", "good", "bad"}
Env == [apnsKey : Credential, apnsCert : Credential, fcm : Credential]

\* bundle is TRUE if the token has a bundle id.
ASSUME PushAssumption ==
  /\ \A t \in Tokens : t.platform \in Platforms /\ t.bundle \in BOOLEAN
  /\ Envs \subseteq Env
  /\ MaxUpserts \in Nat
  /\ IsFiniteSet(Devices)
  /\ None \notin Devices \cup Users \cup Tokens \cup Sends

VARIABLES
  backends,    \* MultiDispatcher's backends, of "apns" and "fcm"
  regs,        \* device_id -> registration
  upserts,     \* calls of pushRegister so far
  pc,          \* where a call of pushSend is
  user,        \* its claims.UserID
  todo,        \* the registrations of its snapshot not yet finished
  attempted,   \* len(regs)
  sent,        \* devices_sent
  failed,      \* devices_failed
  stale,       \* pushes whose outcome no backend waits for
  delivered    \* history: how many pushes the providers accepted, by call
               \* and device

callVars == <<pc, user, todo, attempted, sent, failed>>
vars == <<backends, regs, upserts, callVars, stale, delivered>>

Registration == [device : Devices, user : Users, token : Tokens,
                 failure : Tokens \cup {None}]

Pushes == [call : Sends, to : Registration]

TypeOK ==
  /\ backends \subseteq {"apns", "fcm"}
  /\ regs \in [Devices -> Registration \cup {None}]
  /\ upserts \in 0..MaxUpserts
  /\ pc \in [Sends -> {"new", "loop", "await", "mark", "refused", "done"}]
  /\ user \in [Sends -> Users \cup {None}]
  /\ todo \in [Sends -> Seq(Registration)]
  /\ attempted \in [Sends -> Nat]
  /\ sent \in [Sends -> Nat]
  /\ failed \in [Sends -> Nat]
  /\ stale \subseteq Pushes
  /\ delivered \in [Sends -> [Devices -> Nat]]
  /\ \A s \in Sends : pc[s] \in {"await", "mark"} => todo[s] # <<>>

\* The token-based key is preferred; if it is given but bad, the certificate is
\* not tried.
newAPNsFromEnv(env) ==
  env.apnsKey = "good" \/ (env.apnsKey = "unset" /\ env.apnsCert = "good")

newFCMFromEnv(env) == env.fcm = "good"

FromEnv(env) == {b \in {"apns", "fcm"} :
                   IF b = "apns" THEN newAPNsFromEnv(env) ELSE newFCMFromEnv(env)}

Init ==
  /\ \E env \in Envs : backends = FromEnv(env)
  /\ regs = [d \in Devices |-> None]
  /\ upserts = 0
  /\ pc = [s \in Sends |-> "new"]
  /\ user = [s \in Sends |-> None]
  /\ todo = [s \in Sends |-> <<>>]
  /\ attempted = [s \in Sends |-> 0]
  /\ sent = [s \in Sends |-> 0]
  /\ failed = [s \in Sends |-> 0]
  /\ stale = {}
  /\ delivered = [s \in Sends |-> [d \in Devices |-> 0]]

----------------------------------------------------------------------------
(* The registry. *)

\* pushRegister with a valid body: Upsert replaces the device's entry whole.
PushRegister(u, d, t) ==
  /\ upserts < MaxUpserts
  /\ upserts' = upserts + 1
  /\ regs' = [regs EXCEPT ![d] = [device |-> d, user |-> u, token |-> t, failure |-> None]]
  /\ UNCHANGED <<backends, callVars, stale, delivered>>

\* The registry's Delete, which no handler calls yet.
Delete(d) ==
  /\ regs[d] # None
  /\ regs' = [regs EXCEPT ![d] = None]
  /\ UNCHANGED <<backends, upserts, callVars, stale, delivered>>

ListByUser(u) == {regs[d] : d \in {e \in Devices : regs[e] # None /\ regs[e].user = u}}

\* A failure is recorded under the device, if it is still registered.
MarkedFailure(reg) ==
  [regs EXCEPT ![reg.device] = IF @ = None THEN @ ELSE [@ EXCEPT !.failure = reg.token]]

----------------------------------------------------------------------------
(* The dispatcher. *)

\* NewMulti: APNs serves iOS, FCM everything else.
byPlatform(p) == IF p = "ios" THEN "apns" ELSE "fcm"

\* Send gets as far as the provider: the platform has a backend, and APNs has
\* the bundle id it needs.
Routable(t) ==
  /\ byPlatform(t.platform) \in backends
  /\ t.platform = "ios" => t.bundle

----------------------------------------------------------------------------
(* pushSend. *)

\* Not a POST, no claims or bad JSON.
Refuse(s) ==
  /\ pc[s] = "new"
  /\ pc' = [pc EXCEPT ![s] = "refused"]
  /\ UNCHANGED <<backends, regs, upserts, user, todo, attempted, sent, failed, stale, delivered>>

\* The snapshot, in the order in which the map happens to be iterated.
PushSend(s, u) ==
  /\ pc[s] = "new"
  /\ pc' = [pc EXCEPT ![s] = "loop"]
  /\ user' = [user EXCEPT ![s] = u]
  /\ \E list \in SetToSeqs(ListByUser(u)) :
        /\ todo' = [todo EXCEPT ![s] = list]
        /\ attempted' = [attempted EXCEPT ![s] = Len(list)]
  /\ UNCHANGED <<backends, regs, upserts, sent, failed, stale, delivered>>

\* Send fails before it reaches a provider, or the provider has the push.
Dispatch(s) ==
  /\ pc[s] = "loop" /\ todo[s] # <<>>
  /\ pc' = [pc EXCEPT ![s] = IF Routable(Head(todo[s]).token) THEN "await" ELSE "mark"]
  /\ UNCHANGED <<backends, regs, upserts, user, todo, attempted, sent, failed, stale, delivered>>

\* The push the loop is at: the registration as it was in the snapshot.
Current(s) == [call |-> s, to |-> Head(todo[s])]

\* The provider has accepted p.
Delivered(p) == [delivered EXCEPT ![p.call][p.to.device] = @ + 1]

\* The provider accepts the push: Send returns nil.
Accepted(s) ==
  /\ pc[s] = "await"
  /\ delivered' = Delivered(Current(s))
  /\ sent' = [sent EXCEPT ![s] = @ + 1]
  /\ todo' = [todo EXCEPT ![s] = Tail(@)]
  /\ pc' = [pc EXCEPT ![s] = "loop"]
  /\ UNCHANGED <<backends, regs, upserts, user, attempted, failed, stale>>

\* The provider answers that it rejects the push.
Rejected(s) ==
  /\ pc[s] = "await"
  /\ pc' = [pc EXCEPT ![s] = "mark"]
  /\ UNCHANGED <<backends, regs, upserts, user, todo, attempted, sent, failed, stale, delivered>>

\* Slip: the device is passed over, and then counted as well.
UnansweredAndSkip(s) ==
  /\ pc[s] = "await"
  /\ stale' = stale \cup {Current(s)}
  /\ todo' = [todo EXCEPT ![s] = Tail(@)]
  /\ pc' = [pc EXCEPT ![s] = "mark"]
  /\ UNCHANGED <<backends, regs, upserts, user, attempted, sent, failed, delivered>>

\* Slip: the push is sent again.
UnansweredRetried(s) ==
  /\ pc[s] = "await"
  /\ stale' = stale \cup {Current(s)}
  /\ pc' = [pc EXCEPT ![s] = "loop"]
  /\ UNCHANGED <<backends, regs, upserts, user, todo, attempted, sent, failed, delivered>>

\* Send returns an error without the provider's answer: the request context is
\* done, or the connection to the provider timed out or broke.  The push stays
\* behind; the provider may have accepted it or may do so later.
Unanswered(s) ==
  /\ pc[s] = "await"
  /\ stale' = stale \cup {Current(s)}
  /\ pc' = [pc EXCEPT ![s] = "mark"]
  /\ UNCHANGED <<backends, regs, upserts, user, todo, attempted, sent, failed, delivered>>

\* Slip: the loop ends at the first device that fails.
MarkFailureAndStop(s) ==
  /\ pc[s] = "mark"
  /\ regs' = MarkedFailure(Head(todo[s]))
  /\ failed' = [failed EXCEPT ![s] = @ + 1]
  /\ todo' = [todo EXCEPT ![s] = <<>>]
  /\ pc' = [pc EXCEPT ![s] = "loop"]
  /\ UNCHANGED <<backends, upserts, user, attempted, sent, stale, delivered>>

\* Any error of Send counts as a failure of the device; the loop goes on.
MarkFailure(s) ==
  /\ pc[s] = "mark"
  /\ regs' = MarkedFailure(Head(todo[s]))
  /\ failed' = [failed EXCEPT ![s] = @ + 1]
  /\ todo' = [todo EXCEPT ![s] = Tail(@)]
  /\ pc' = [pc EXCEPT ![s] = "loop"]
  /\ UNCHANGED <<backends, upserts, user, attempted, sent, stale, delivered>>

\* The report is written.
Finish(s) ==
  /\ pc[s] = "loop" /\ todo[s] = <<>>
  /\ pc' = [pc EXCEPT ![s] = "done"]
  /\ UNCHANGED <<backends, regs, upserts, user, todo, attempted, sent, failed, stale, delivered>>

\* External: what becomes of a push nobody waits for: the provider has accepted
\* it, or never will.
LateAnswer(p) ==
  /\ p \in stale
  /\ stale' = stale \ {p}
  /\ delivered' \in {delivered, Delivered(p)}
  /\ UNCHANGED <<backends, regs, upserts, callVars>>

----------------------------------------------------------------------------
\* All calls of the instance have been served.
Idle ==
  /\ upserts = MaxUpserts
  /\ \A s \in Sends : pc[s] \in {"done", "refused"}
  /\ stale = {}
  /\ UNCHANGED vars

Next ==
  \/ \E u \in Users, d \in Devices, t \in Tokens : PushRegister(u, d, t)
  \/ \E s \in Sends, u \in Users : PushSend(s, u)
  \/ \E s \in Sends :
        \/ Refuse(s) \/ Dispatch(s) \/ Accepted(s) \/ Rejected(s) \/ Unanswered(s)
        \/ MarkFailure(s) \/ Finish(s)
  \/ \E p \in stale : LateAnswer(p)
  \/ Idle

Spec == Init /\ [][Next]_vars

\* With all operations of the registry, Delete included.
ApiNext == Next \/ \E d \in Devices : Delete(d)

ApiSpec == Init /\ [][ApiNext]_vars

----------------------------------------------------------------------------
(* Properties. *)

DeliveredBy(s) == {d \in Devices : delivered[s][d] > 0}

\* The report of pushSend: every device of the snapshot is counted once, as sent
\* or failed (one device's error does not end the loop).  devices_sent is never
\* too high; a device counted as failed may have been notified all the same,
\* but no more devices than the two counts together were.
ReportAddsUp ==
  \A s \in Sends :
     LET n == Cardinality(DeliveredBy(s))
     IN /\ sent[s] + failed[s] + Len(todo[s]) = attempted[s]
        /\ sent[s] <= n
        /\ n <= sent[s] + failed[s] + IF pc[s] = "mark" THEN 1 ELSE 0

\* No device gets the notification of one call twice, not even when the call
\* counts a push as failed that the provider accepts: the loop does not try
\* it again, and goes on to other devices.
OncePerDevice ==
  \A s \in Sends, d \in Devices : delivered[s][d] <= 1

\* A failure is on record only for the token that failed: "a token that has
\* failed for N days gets pruned".
FailureIsOfThisToken ==
  \A d \in Devices : regs[d] # None /\ regs[d].failure # None => regs[d].failure = regs[d].token
=============================================================================
