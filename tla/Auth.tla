-------------------------------- MODULE Auth --------------------------------
(***************************************************************************)
(* Bearer-token verification (src/internal/auth/auth.go): every call of    *)
(* the middleware looks its signing key up in a cache of the identity      *)
(* service's key set (JWKS) and fetches the set again when the cache is    *)
(* older than RefreshInterval or lacks the key.  Nothing serialises the    *)
(* fetches: each call makes its own, and the last to finish wins.          *)
(*                                                                         *)
(* A step is one critical section of Verifier.mu or one event of a fetch.  *)
(* Time is discrete and passes only while fetches are under way: a fetch   *)
(* takes up to Timeout (http.Client.Timeout, which covers the body), all   *)
(* other steps of a call take none.  External: the identity service, which *)
(* publishes and withdraws each key once, next to entries the relay cannot *)
(* use; signatures; callers.                                               *)
(***************************************************************************)
EXTENDS Naturals

CONSTANTS
  Calls,            \* requests to protected endpoints
  Kids,             \* ids of signing keys
  Unusable,         \* ids of entries refresh skips (not RSA, bad encoding)
  Tokens,           \* tokens callers present, records of type Token
  RefreshInterval,  \* 1h in the code
  Timeout,          \* 10s in the code
  MaxTime           \* bound: the last instant

\* An exp of 0 is a token without expiry.  `genuine`: the signature is made
\* with key kid, and issuer and audience are the expected ones.
Token == [kid : Kids \cup Unusable, exp : Nat, genuine : BOOLEAN]

ASSUME AuthAssumption ==
  /\ RefreshInterval \in Nat \ {0} /\ Timeout \in Nat /\ MaxTime \in Nat
  /\ Unusable \cap Kids = {}
  /\ Tokens \subseteq Token

VARIABLES
  now,          \* the clock
  published,    \* keys the identity service serves
  publishedAt,  \* history: when it began to serve a key
  withdrawnAt,  \* history: when it ceased to
  keys,         \* Verifier.keys
  keysAt,       \* Verifier.keysAt
  pc,           \* where a call is: "served" and "401" are its ends
  token,        \* its token
  began,        \* when it began, and with it its fetch
  doc,          \* the key set its fetch was answered with
  servedAt,     \* history: when it was let through
  why           \* history: the check that refused it

external == <<published, publishedAt, withdrawnAt>>
vars == <<now, external, keys, keysAt, pc, token, began, doc, servedAt, why>>

Time == 0..MaxTime
Never == MaxTime + 1
NoToken == [kid |-> "none"]

TypeOK ==
  /\ now \in Time
  /\ published \subseteq Kids
  /\ publishedAt \in [Kids -> Time \cup {Never}]
  /\ withdrawnAt \in [Kids -> Time \cup {Never}]
  /\ keys \subseteq Kids
  /\ keysAt \in Time \cup {Never} /\ (keysAt = Never => keys = {})
  /\ pc \in [Calls -> {"new", "fetch", "parse", "lookup", "check", "served", "401"}]
  /\ token \in [Calls -> Tokens \cup {NoToken}]
  /\ began \in [Calls -> Time]
  /\ doc \in [Calls -> SUBSET (Kids \cup Unusable)]
  /\ servedAt \in [Calls -> Time \cup {Never}]
  /\ why \in [Calls -> {"none", "header", "fetch", "key", "token"}]

Init ==
  /\ now = 0
  /\ published = {}
  /\ publishedAt = [k \in Kids |-> Never]
  /\ withdrawnAt = [k \in Kids |-> Never]
  /\ keys = {} /\ keysAt = Never
  /\ pc = [c \in Calls |-> "new"]
  /\ token = [c \in Calls |-> NoToken]
  /\ began = [c \in Calls |-> 0]
  /\ doc = [c \in Calls |-> {}]
  /\ servedAt = [c \in Calls |-> Never]
  /\ why = [c \in Calls |-> "none"]

----------------------------------------------------------------------------
(* The identity service and the clock. *)

Publish(k) ==
  /\ publishedAt[k] = Never
  /\ published' = published \cup {k}
  /\ publishedAt' = [publishedAt EXCEPT ![k] = now]
  /\ UNCHANGED <<now, withdrawnAt, keys, keysAt, pc, token, began, doc, servedAt, why>>

Withdraw(k) ==
  /\ k \in published
  /\ published' = published \ {k}
  /\ withdrawnAt' = [withdrawnAt EXCEPT ![k] = now]
  /\ UNCHANGED <<now, publishedAt, keys, keysAt, pc, token, began, doc, servedAt, why>>

\* Time passes, but not for a fetch that has used up its timeout.
Tick ==
  /\ now < MaxTime
  /\ \A c \in Calls : /\ pc[c] \notin {"lookup", "check"}
                      /\ pc[c] \in {"fetch", "parse"} => now < began[c] + Timeout
  /\ now' = now + 1
  /\ UNCHANGED <<external, keys, keysAt, pc, token, began, doc, servedAt, why>>

----------------------------------------------------------------------------
(* A call of the middleware. *)

\* authError: the call is refused; its document, if any, is garbage.
Refuse(c, reason) ==
  /\ pc' = [pc EXCEPT ![c] = "401"]
  /\ doc' = [doc EXCEPT ![c] = {}]
  /\ why' = [why EXCEPT ![c] = reason]

\* No bearer token, not a JWT, or not RS256.
RefuseHeader(c) ==
  /\ pc[c] = "new"
  /\ Refuse(c, "header")
  /\ UNCHANGED <<now, external, keys, keysAt, token, began, servedAt>>

\* Slip: a key once fetched is good for ever.
FreshAlways == keysAt # Never

\* The cache is young enough to be used.
Fresh == keysAt # Never /\ now - keysAt < RefreshInterval

\* Slip: a fresh cache also answers for the keys it lacks.
keyForTrusting(c, k) ==
  IF Fresh THEN IF k \in keys THEN "check" ELSE "lookup" ELSE "fetch"

\* keyFor's first section: the next step of a call that needs key k.
keyFor(c, k) == IF Fresh /\ k \in keys THEN "check" ELSE "fetch"

\* The call presents token t.  (The bound leaves its fetch time to end.)
Verify(c, t) ==
  /\ pc[c] = "new"
  /\ keyFor(c, t.kid) = "fetch" => now + Timeout <= MaxTime
  /\ token' = [token EXCEPT ![c] = t]
  /\ began' = [began EXCEPT ![c] = now]
  /\ pc' = [pc EXCEPT ![c] = keyFor(c, t.kid)]
  /\ UNCHANGED <<now, external, keys, keysAt, doc, servedAt, why>>

\* The identity service answers: the document leaves it as it is now, and may
\* arrive later.
Respond(c) ==
  /\ pc[c] = "fetch"
  /\ pc' = [pc EXCEPT ![c] = "parse"]
  /\ doc' = [doc EXCEPT ![c] = published \cup Unusable]
  /\ UNCHANGED <<now, external, keys, keysAt, token, began, servedAt, why>>

\* The fetch fails: no connection, not 200, not JSON, or the caller hung up.
FetchFailed(c) ==
  /\ pc[c] \in {"fetch", "parse"}
  /\ Refuse(c, "fetch")
  /\ UNCHANGED <<now, external, keys, keysAt, token, began, servedAt>>

\* Slip: the timer covers the wait for the response only, not its body.
FetchTimeoutHeader(c) == pc[c] = "fetch" /\ now = began[c] + Timeout /\ FetchFailed(c)

\* http.Client.Timeout.
FetchTimeout(c) == now = began[c] + Timeout /\ FetchFailed(c)

\* Slip: fetched keys are added to the ones known.
Merged(c) == keys \cup (doc[c] \ Unusable)

\* Slip: entries that are not RSA keys are kept.
ParsedAll(c) == doc[c]

\* The keys refresh builds from the document.
Parsed(c) == doc[c] \ Unusable

\* refresh's critical section.
Install(c) ==
  /\ pc[c] = "parse"
  /\ keys' = Parsed(c)
  /\ keysAt' = now
  /\ pc' = [pc EXCEPT ![c] = "lookup"]
  /\ doc' = [doc EXCEPT ![c] = {}]
  /\ UNCHANGED <<now, external, token, began, servedAt, why>>

\* keyFor's second section: whatever is in the cache by now.
Lookup(c) ==
  /\ pc[c] = "lookup"
  /\ \/ /\ token[c].kid \in keys
        /\ pc' = [pc EXCEPT ![c] = "check"]
        /\ UNCHANGED <<doc, why>>
     \/ /\ token[c].kid \notin keys
        /\ Refuse(c, "key")
  /\ UNCHANGED <<now, external, keys, keysAt, token, began, servedAt>>

\* Signature, expiry, issuer and audience; then next.ServeHTTP.
Check(c) ==
  LET t == token[c]
      ok == t.genuine /\ (t.exp > 0 => now < t.exp)
  IN /\ pc[c] = "check"
     /\ \/ /\ ok
           /\ pc' = [pc EXCEPT ![c] = "served"]
           /\ servedAt' = [servedAt EXCEPT ![c] = now]
           /\ UNCHANGED <<doc, why>>
        \/ ~ok /\ Refuse(c, "token") /\ UNCHANGED servedAt
     /\ UNCHANGED <<now, external, keys, keysAt, token, began>>

----------------------------------------------------------------------------
\* All is over: every call has ended, or the clock is at its bound.
Over ==
  /\ \A c \in Calls : pc[c] \in {"new", "served", "401"}
  /\ now = MaxTime
  /\ UNCHANGED vars

Next ==
  \/ \E k \in Kids : Publish(k) \/ Withdraw(k)
  \/ Tick
  \/ \E c \in Calls : \/ RefuseHeader(c) \/ Respond(c) \/ FetchFailed(c)
                      \/ Install(c) \/ Lookup(c) \/ Check(c)
                      \/ \E t \in Tokens : Verify(c, t)
  \/ Over

Spec == Init /\ [][Next]_vars

\* Handlers are scheduled, the timer of the HTTP client fires and time passes.
\* The identity service need not answer.
Fairness ==
  /\ WF_vars(Tick)
  /\ \A c \in Calls : WF_vars(Lookup(c) \/ Check(c) \/ FetchTimeout(c))

FairSpec == Spec /\ Fairness

----------------------------------------------------------------------------
(* Properties. *)

\* The cache is one document of the identity service, as it was at one instant
\* of the Timeout before keysAt, without the entries refresh skips: overlapping
\* refreshes may install documents out of order but never mix them, and what
\* an older one brings back is not older than that.
OneDocument ==
  keysAt # Never =>
    \E t \in Time :
       /\ t <= keysAt /\ keysAt <= t + Timeout
       /\ \A k \in Kids :
             IF k \in keys THEN publishedAt[k] <= t /\ t <= withdrawnAt[k]
                           ELSE t <= publishedAt[k] \/ withdrawnAt[k] <= t

\* A withdrawn key is good for less than RefreshInterval and Timeout together,
\* although a document from before the withdrawal may be installed after it.
RevocationBound ==
  \A c \in Calls :
     pc[c] = "served" =>
        servedAt[c] < withdrawnAt[token[c].kid] + RefreshInterval + Timeout

\* A key that is served is found by every call that begins more than Timeout
\* after its publication.  Before that a call may be refused although it has
\* itself just fetched the key: another call's older document overwrote it.
RotationBound ==
  \A c \in Calls :
     LET k == token[c].kid
     IN why[c] = "key" /\ k \in Kids /\ withdrawnAt[k] = Never
          => began[c] <= publishedAt[k] + Timeout

\* Every call is served or refused, also when the identity service is silent.
CallEnds ==
  \A c \in Calls : pc[c] = "fetch" ~> pc[c] \in {"served", "401"}
=============================================================================
