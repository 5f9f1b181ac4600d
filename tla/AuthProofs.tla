----------------------------- MODULE AuthProofs -----------------------------
(***************************************************************************)
(* The key cache is sound for any numbers of calls, keys and tokens, any   *)
(* RefreshInterval and any Timeout.  AuthInv is the inductive invariant:   *)
(* the checked properties; what the identity service's history says        *)
(* (HistoryOK); and what a call knows at each of its places                *)
(* (CallsInTime, DocsInTime): the document in its hands is of an instant   *)
(* since its fetch began, and no time passes between an Install and the    *)
(* end of the call.                                                        *)
(***************************************************************************)
EXTENDS Auth, TLAPS

\* S are the keys the identity service served at instant t.
ServedAt(S, t) ==
  \A k \in Kids : IF k \in S THEN publishedAt[k] <= t /\ t <= withdrawnAt[k]
                             ELSE t <= publishedAt[k] \/ withdrawnAt[k] <= t

\* A key is served from its publication to its withdrawal.
HistoryOK ==
  \A k \in Kids :
     /\ publishedAt[k] # Never => publishedAt[k] <= now
     /\ withdrawnAt[k] # Never => publishedAt[k] <= withdrawnAt[k] /\ withdrawnAt[k] <= now
     /\ k \in published <=> publishedAt[k] # Never /\ withdrawnAt[k] = Never

\* The cache is not from the future.
CacheInTime == keysAt # Never => keysAt <= now

\* Where a call is and what it knows there.
CallsInTime ==
  \A c \in Calls :
     /\ began[c] <= now
     /\ why[c] # "none" => pc[c] = "401"
     /\ pc[c] \in {"fetch", "parse", "lookup", "check", "served"} => token[c] \in Tokens
     /\ why[c] = "key" => token[c] \in Tokens
     /\ pc[c] \in {"fetch", "parse"} => now <= began[c] + Timeout
     /\ pc[c] = "lookup" => keysAt = now
     /\ pc[c] = "check" => /\ token[c].kid \in Kids
                           /\ now < withdrawnAt[token[c].kid] + RefreshInterval + Timeout
     /\ pc[c] = "served" => token[c].kid \in Kids /\ servedAt[c] <= now

\* The document a call is parsing is of an instant since its fetch began.
DocsInTime ==
  \A c \in Calls :
     pc[c] = "parse" =>
        \E t \in Time : began[c] <= t /\ t <= now /\ ServedAt(doc[c] \ Unusable, t)

AuthInv ==
  /\ TypeOK
  /\ HistoryOK
  /\ CacheInTime
  /\ CallsInTime
  /\ DocsInTime
  /\ OneDocument
  /\ RevocationBound
  /\ RotationBound

LEMMA InitAuthInv == Init => AuthInv
<1> SUFFICES ASSUME Init PROVE AuthInv
  OBVIOUS
<1> USE AuthAssumption DEF Init, Time, Never
<1>1. TypeOK
  BY DEF TypeOK
<1>2. HistoryOK /\ CacheInTime /\ CallsInTime /\ DocsInTime
  BY DEF HistoryOK, CacheInTime, CallsInTime, DocsInTime
<1>3. OneDocument /\ RevocationBound /\ RotationBound
  BY DEF OneDocument, RevocationBound, RotationBound
<1> QED
  BY <1>1, <1>2, <1>3 DEF AuthInv
----------------------------------------------------------------------------
(* The identity service and the clock. *)

\* The service's further history does not change what it served before.
LEMMA PastIsPast ==
  ASSUME AuthInv, NEW k \in Kids, Publish(k) \/ Withdraw(k),
         NEW S, NEW t \in Time, t <= now, ServedAt(S, t)
  PROVE  ServedAt(S, t)'
<1> USE AuthAssumption DEF AuthInv, Time, Never, TypeOK, HistoryOK, ServedAt
<1>1. CASE Publish(k)
  BY <1>1 DEF Publish
<1>2. CASE Withdraw(k)
  BY <1>2 DEF Withdraw
<1> QED
  BY <1>1, <1>2

\* The identity service publishes or withdraws a key: only the history changes,
\* and only at the present instant.
LEMMA ServicePreserves ==
  ASSUME AuthInv, NEW k \in Kids, Publish(k) \/ Withdraw(k)
  PROVE  AuthInv'
<1> USE AuthAssumption DEF AuthInv, Time, Never
<1>s. /\ UNCHANGED <<now, keys, keysAt, pc, token, began, doc, servedAt, why>>
      /\ \A j \in Kids : j # k => publishedAt'[j] = publishedAt[j] /\ withdrawnAt'[j] = withdrawnAt[j]
      /\ withdrawnAt'[k] = withdrawnAt[k] \/ withdrawnAt'[k] = now
      /\ publishedAt'[k] = publishedAt[k] \/ (publishedAt[k] = Never /\ publishedAt'[k] = now)
  BY DEF Publish, Withdraw, TypeOK
<1>n. now \in 0..MaxTime /\ MaxTime \in Nat
  BY DEF TypeOK
<1>1. TypeOK'
  <2>1. CASE Publish(k)
    BY <2>1 DEF Publish, TypeOK
  <2>2. CASE Withdraw(k)
    BY <2>2 DEF Withdraw, TypeOK
  <2> QED
    BY <2>1, <2>2
<1>2. HistoryOK'
  <2>1. CASE Publish(k)
    BY <2>1 DEF Publish, TypeOK, HistoryOK
  <2>2. CASE Withdraw(k)
    BY <2>2 DEF Withdraw, TypeOK, HistoryOK
  <2> QED
    BY <2>1, <2>2
<1>3. CacheInTime'
  BY <1>s DEF CacheInTime
<1>4. CallsInTime'
  <2>1. ASSUME NEW c \in Calls, pc[c] = "check"
        PROVE  now < withdrawnAt'[token[c].kid] + RefreshInterval + Timeout
    BY <1>s, <1>n, <2>1 DEF CallsInTime, TypeOK
  <2> QED
    BY <1>s, <2>1 DEF CallsInTime
<1>d. DocsInTime'
  <2> SUFFICES ASSUME NEW c \in Calls, pc[c] = "parse"
               PROVE  \E t \in Time : /\ began[c] <= t /\ t <= now
                                      /\ ServedAt(doc[c] \ Unusable, t)'
    BY <1>s DEF DocsInTime, ServedAt
  <2>1. PICK t \in Time : began[c] <= t /\ t <= now /\ ServedAt(doc[c] \ Unusable, t)
    BY DEF DocsInTime
  <2>2. ServedAt(doc[c] \ Unusable, t)'
    BY <1>s, <2>1, PastIsPast DEF ServedAt
  <2> QED
    BY <2>1, <2>2
<1>5. OneDocument'
  <2> SUFFICES ASSUME keysAt # Never
               PROVE  \E t \in Time : /\ t <= keysAt /\ keysAt <= t + Timeout
                                      /\ ServedAt(keys, t)'
    BY <1>s DEF OneDocument, ServedAt
  <2>1. PICK t \in Time : t <= keysAt /\ keysAt <= t + Timeout /\ ServedAt(keys, t)
    BY DEF OneDocument, ServedAt
  <2>2. t <= now
    BY <1>n, <2>1 DEF CacheInTime, TypeOK
  <2>3. ServedAt(keys, t)'
    BY <1>s, <2>1, <2>2, PastIsPast DEF ServedAt
  <2> QED
    BY <2>1, <2>3
<1>6. RevocationBound'
  <2> SUFFICES ASSUME NEW c \in Calls, pc[c] = "served"
               PROVE  servedAt[c] < withdrawnAt'[token[c].kid] + RefreshInterval + Timeout
    BY <1>s DEF RevocationBound
  <2>1. token[c].kid \in Kids /\ servedAt[c] <= now /\ servedAt[c] \in Nat
    BY DEF CallsInTime, TypeOK
  <2> QED
    BY <1>s, <1>n, <2>1 DEF RevocationBound
<1>7. RotationBound'
  <2> SUFFICES ASSUME NEW c \in Calls, why[c] = "key", token[c].kid \in Kids,
                      withdrawnAt'[token[c].kid] = Never
               PROVE  began[c] <= publishedAt'[token[c].kid] + Timeout
    BY <1>s DEF RotationBound
  <2>1. began[c] <= now /\ began[c] \in Nat
    BY DEF CallsInTime, TypeOK
  <2>2. withdrawnAt[token[c].kid] = Never
    BY <1>s, <1>n
  <2> QED
    BY <1>s, <1>n, <2>1, <2>2 DEF RotationBound
<1> QED
  BY <1>1, <1>2, <1>3, <1>4, <1>d, <1>5, <1>6, <1>7

\* Time passes: no call is between its Install and its end, and none fetches
\* for longer than the HTTP client's timeout.
LEMMA TickPreserves ==
  ASSUME AuthInv, Tick
  PROVE  AuthInv'
<1> USE AuthAssumption DEF AuthInv, Tick, external, Time, Never
<1>1. TypeOK'
  BY DEF TypeOK
<1>2. HistoryOK' /\ CacheInTime'
  BY DEF TypeOK, HistoryOK, CacheInTime
<1>3. CallsInTime'
  BY DEF CallsInTime, TypeOK
<1>d. DocsInTime'
  <2> SUFFICES ASSUME NEW c \in Calls, pc[c] = "parse"
               PROVE  \E t \in Time : /\ began[c] <= t /\ t <= now + 1
                                      /\ ServedAt(doc[c] \ Unusable, t)
    BY DEF DocsInTime, ServedAt
  <2>1. PICK t \in Time : began[c] <= t /\ t <= now /\ ServedAt(doc[c] \ Unusable, t)
    BY DEF DocsInTime
  <2>2. t <= now + 1
    BY <2>1 DEF TypeOK
  <2> QED
    BY <2>1, <2>2
<1>4. OneDocument' /\ RevocationBound' /\ RotationBound'
  BY DEF OneDocument, RevocationBound, RotationBound
<1> QED
  BY <1>1, <1>2, <1>3, <1>d, <1>4
----------------------------------------------------------------------------
(* The steps of a call. *)

\* A call that leaves the cache alone leaves what is known of it alone.
LEMMA CacheUntouched ==
  ASSUME AuthInv, UNCHANGED <<now, external, keys, keysAt>>
  PROVE  HistoryOK' /\ CacheInTime' /\ OneDocument'
  BY DEF AuthInv, external, HistoryOK, CacheInTime, OneDocument, Never, Time

\* A refusal is right whatever its reason, if a missing key is not one that
\* has been served for long.
LEMMA RefusePreserves ==
  ASSUME AuthInv, NEW c \in Calls, NEW reason \in {"header", "fetch", "key", "token"},
         pc[c] # "401", Refuse(c, reason),
         UNCHANGED <<now, external, keys, keysAt, token, began, servedAt>>,
         reason = "key" =>
           /\ token[c] \in Tokens
           /\ token[c].kid \in Kids /\ withdrawnAt[token[c].kid] = Never
                => began[c] <= publishedAt[token[c].kid] + Timeout
  PROVE  AuthInv'
<1> USE DEF AuthInv, Refuse, external
<1>s. /\ pc'[c] = "401" /\ why'[c] = reason
      /\ \A d \in Calls : d # c => pc'[d] = pc[d] /\ doc'[d] = doc[d] /\ why'[d] = why[d]
  BY DEF TypeOK
<1>1. TypeOK'
  BY DEF TypeOK
<1>2. HistoryOK' /\ CacheInTime' /\ OneDocument'
  BY CacheUntouched
<1>3. CallsInTime'
  BY <1>s DEF CallsInTime
<1>4. DocsInTime'
  BY <1>s DEF DocsInTime, ServedAt
<1>5. RevocationBound'
  BY <1>s DEF RevocationBound
<1>6. RotationBound'
  BY <1>s DEF RotationBound, Never
<1> QED
  BY <1>1, <1>2, <1>3, <1>4, <1>5, <1>6

\* A cached key was served within RefreshInterval and Timeout from now.
LEMMA FreshKeyIsRecent ==
  ASSUME AuthInv, NEW k \in keys, keysAt # Never, now - keysAt < RefreshInterval
  PROVE  k \in Kids /\ now < withdrawnAt[k] + RefreshInterval + Timeout
<1> USE AuthAssumption DEF AuthInv, Time, Never
<1>1. k \in Kids /\ withdrawnAt[k] \in Nat /\ keysAt \in Nat /\ now \in Nat
  BY DEF TypeOK
<1>2. PICK t \in Time : t <= keysAt /\ keysAt <= t + Timeout /\ t <= withdrawnAt[k]
  BY <1>1 DEF OneDocument
<1> QED
  BY <1>1, <1>2

\* Verify up to keyFor's first section: a hit in a fresh cache, or a fetch.
LEMMA VerifyPreserves ==
  ASSUME AuthInv, NEW c \in Calls, NEW t \in Tokens, Verify(c, t)
  PROVE  AuthInv'
<1> USE AuthAssumption DEF AuthInv, Verify, external, Time, Never
<1>s. /\ pc'[c] \in {"fetch", "check"} /\ token'[c] = t /\ began'[c] = now /\ why[c] = "none"
      /\ pc'[c] = "check" => Fresh /\ t.kid \in keys
      /\ \A d \in Calls : d # c => /\ pc'[d] = pc[d] /\ token'[d] = token[d]
                                   /\ began'[d] = began[d]
  BY DEF TypeOK, keyFor, CallsInTime
<1>1. TypeOK'
  BY <1>s DEF TypeOK, keyFor
<1>2. HistoryOK' /\ CacheInTime' /\ OneDocument'
  BY CacheUntouched
<1>3. CallsInTime'
  <2>1. pc'[c] = "check" => /\ t.kid \in Kids
                            /\ now < withdrawnAt[t.kid] + RefreshInterval + Timeout
    BY <1>s, FreshKeyIsRecent DEF Fresh
  <2>2. now <= now /\ now <= now + Timeout
    BY DEF TypeOK
  <2> QED
    BY <1>s, <2>1, <2>2 DEF CallsInTime
<1>4. DocsInTime'
  BY <1>s DEF DocsInTime, ServedAt
<1>5. RevocationBound' /\ RotationBound'
  BY <1>s DEF RevocationBound, RotationBound
<1> QED
  BY <1>1, <1>2, <1>3, <1>4, <1>5

\* The document a fetch brings is of this instant.
LEMMA RespondPreserves ==
  ASSUME AuthInv, NEW c \in Calls, Respond(c)
  PROVE  AuthInv'
<1> USE AuthAssumption DEF AuthInv, Respond, external, Time, Never
<1>s. /\ pc'[c] = "parse" /\ doc'[c] \ Unusable = published
      /\ \A d \in Calls : d # c => pc'[d] = pc[d] /\ doc'[d] = doc[d]
  BY DEF TypeOK
<1>1. TypeOK'
  BY DEF TypeOK
<1>2. HistoryOK' /\ CacheInTime' /\ OneDocument'
  BY CacheUntouched
<1>3. CallsInTime'
  BY <1>s DEF CallsInTime
<1>4. DocsInTime'
  <2>1. ServedAt(published, now)
    BY DEF ServedAt, HistoryOK, TypeOK
  <2>2. now \in Time /\ now <= now /\ began[c] <= now
    BY DEF TypeOK, CallsInTime
  <2>3. ASSUME NEW d \in Calls, pc'[d] = "parse"
        PROVE  \E t \in Time : /\ began[d] <= t /\ t <= now
                               /\ ServedAt(doc'[d] \ Unusable, t)
    BY <1>s, <2>1, <2>2, <2>3 DEF DocsInTime
  <2> QED
    BY <2>3 DEF DocsInTime, ServedAt
<1>5. RevocationBound' /\ RotationBound'
  BY <1>s DEF RevocationBound, RotationBound
<1> QED
  BY <1>1, <1>2, <1>3, <1>4, <1>5

\* Documents may be installed out of order, but each is of the Timeout before.
LEMMA InstallPreserves ==
  ASSUME AuthInv, NEW c \in Calls, Install(c)
  PROVE  AuthInv'
<1> USE AuthAssumption DEF AuthInv, Install, external, Time, Never
<1>s. /\ pc'[c] = "lookup" /\ keys' = doc[c] \ Unusable
      /\ \A d \in Calls : d # c => pc'[d] = pc[d] /\ doc'[d] = doc[d]
  BY DEF TypeOK, Parsed
<1>1. TypeOK'
  BY <1>s DEF TypeOK
<1>2. HistoryOK'
  BY DEF HistoryOK
<1>3. CacheInTime'
  BY DEF CacheInTime, TypeOK
<1>4. CallsInTime'
  BY <1>s DEF CallsInTime
<1>5. DocsInTime'
  BY <1>s DEF DocsInTime, ServedAt
<1>6. OneDocument'
  <2>1. PICK t \in Time : began[c] <= t /\ t <= now /\ ServedAt(doc[c] \ Unusable, t)
    BY DEF DocsInTime
  <2>2. now <= t + Timeout
    BY <2>1 DEF CallsInTime, TypeOK
  <2> QED
    BY <1>s, <2>1, <2>2 DEF OneDocument, ServedAt
<1>7. RevocationBound' /\ RotationBound'
  BY <1>s DEF RevocationBound, RotationBound
<1> QED
  BY <1>1, <1>2, <1>3, <1>4, <1>5, <1>6, <1>7

\* keyFor's second section: a key it misses is missing from a document no
\* older than the call's own fetch by more than a timeout.
LEMMA LookupPreserves ==
  ASSUME AuthInv, NEW c \in Calls, Lookup(c)
  PROVE  AuthInv'
<1> USE AuthAssumption DEF AuthInv, Lookup, external, Time, Never
<1>t. /\ token[c] \in Tokens /\ keysAt = now /\ began[c] <= now /\ why[c] = "none"
      /\ now \in Nat /\ now # Never /\ began[c] \in Nat
      /\ publishedAt \in [Kids -> Nat]
  BY DEF CallsInTime, TypeOK
<1>1. CASE token[c].kid \notin keys
  <2>1. ASSUME token[c].kid \in Kids, withdrawnAt[token[c].kid] = Never
        PROVE  began[c] <= publishedAt[token[c].kid] + Timeout
    <3>1. PICK t \in Time : /\ keysAt <= t + Timeout
                            /\ t <= publishedAt[token[c].kid] \/ withdrawnAt[token[c].kid] <= t
      BY <1>t, <1>1, <2>1 DEF OneDocument
    <3> QED
      BY <1>t, <2>1, <3>1
  <2> QED
    BY <1>t, <1>1, <2>1, RefusePreserves
<1>2. CASE token[c].kid \in keys
  <2>s. /\ pc'[c] = "check" /\ UNCHANGED <<doc, why>>
        /\ \A d \in Calls : d # c => pc'[d] = pc[d]
    BY <1>2 DEF TypeOK
  <2>1. TypeOK'
    BY <1>2 DEF TypeOK
  <2>2. HistoryOK' /\ CacheInTime' /\ OneDocument'
    BY CacheUntouched
  <2>3. CallsInTime'
    <3>1. /\ token[c].kid \in Kids
          /\ now < withdrawnAt[token[c].kid] + RefreshInterval + Timeout
      <4>1. now - keysAt < RefreshInterval
        BY <1>t
      <4> QED
        BY <1>t, <1>2, <4>1, FreshKeyIsRecent
    <3> QED
      BY <1>t, <2>s, <3>1 DEF CallsInTime
  <2>4. DocsInTime'
    BY <2>s DEF DocsInTime, ServedAt
  <2>5. RevocationBound' /\ RotationBound'
    BY <2>s DEF RevocationBound, RotationBound
  <2> QED
    BY <2>1, <2>2, <2>3, <2>4, <2>5
<1> QED
  BY <1>1, <1>2

\* The rest of Verify: what it accepts was in the cache when keyFor looked.
LEMMA CheckPreserves ==
  ASSUME AuthInv, NEW c \in Calls, Check(c)
  PROVE  AuthInv'
<1> USE AuthAssumption DEF AuthInv, external, Time, Never
<1>0. pc[c] = "check" /\ UNCHANGED <<now, external, keys, keysAt, token, began>>
  BY DEF Check
<1>1. CASE Refuse(c, "token") /\ UNCHANGED servedAt
  BY <1>0, <1>1, RefusePreserves
<1>2. CASE /\ pc' = [pc EXCEPT ![c] = "served"]
           /\ servedAt' = [servedAt EXCEPT ![c] = now]
           /\ UNCHANGED <<doc, why>>
  <2> USE <1>0, <1>2
  <2>s. /\ pc'[c] = "served" /\ servedAt'[c] = now
        /\ \A d \in Calls : d # c => pc'[d] = pc[d] /\ servedAt'[d] = servedAt[d]
    BY DEF TypeOK
  <2>1. TypeOK'
    BY DEF TypeOK
  <2>2. HistoryOK' /\ CacheInTime' /\ OneDocument'
    BY CacheUntouched
  <2>3. CallsInTime'
    <3>1. now <= now /\ why[c] = "none"
      BY DEF CallsInTime, TypeOK
    <3> QED
      BY <2>s, <3>1 DEF CallsInTime
  <2>4. DocsInTime'
    BY <2>s DEF DocsInTime, ServedAt
  <2>5. RevocationBound'
    BY <2>s DEF RevocationBound, CallsInTime
  <2>6. RotationBound'
    BY <2>s DEF RotationBound
  <2> QED
    BY <2>1, <2>2, <2>3, <2>4, <2>5, <2>6
<1> QED
  BY <1>1, <1>2 DEF Check
----------------------------------------------------------------------------
LEMMA NextPreserves == AuthInv /\ [Next]_vars => AuthInv'
<1> SUFFICES ASSUME AuthInv, [Next]_vars PROVE AuthInv'
  OBVIOUS
<1>1. ASSUME NEW k \in Kids, Publish(k) \/ Withdraw(k) PROVE AuthInv'
  BY <1>1, ServicePreserves
<1>2. CASE Tick
  BY <1>2, TickPreserves
<1>3. ASSUME NEW c \in Calls, RefuseHeader(c) PROVE AuthInv'
  BY <1>3, RefusePreserves DEF RefuseHeader
<1>4. ASSUME NEW c \in Calls, FetchFailed(c) PROVE AuthInv'
  BY <1>4, RefusePreserves DEF FetchFailed
<1>5. ASSUME NEW c \in Calls, NEW t \in Tokens, Verify(c, t) PROVE AuthInv'
  BY <1>5, VerifyPreserves
<1>6. ASSUME NEW c \in Calls, Respond(c) \/ Install(c) \/ Lookup(c) \/ Check(c)
      PROVE  AuthInv'
  BY <1>6, RespondPreserves, InstallPreserves, LookupPreserves, CheckPreserves
<1>7. CASE UNCHANGED vars
  BY <1>7 DEF vars, external, AuthInv, TypeOK, HistoryOK, CacheInTime, CallsInTime,
              DocsInTime, ServedAt, OneDocument, RevocationBound, RotationBound, Never, Time
<1> QED
  BY <1>1, <1>2, <1>3, <1>4, <1>5, <1>6, <1>7 DEF Next, Over

\* The inductive invariant of the key cache holds in every reachable state.
THEOREM AuthInvariant == Spec => []AuthInv
  BY InitAuthInv, NextPreserves, PTL DEF Spec

\* Every variable of the verifier and its calls keeps its type; no cache
\* without an instant holds keys.
THEOREM AuthTyped == Spec => []TypeOK
  BY AuthInvariant, PTL DEF AuthInv

\* However refreshes overlap, the cache is one document of the Timeout before
\* keysAt, never a mix of two.
THEOREM AuthOneDocument == Spec => []OneDocument
  BY AuthInvariant, PTL DEF AuthInv

\* No call is let through with a key withdrawn for RefreshInterval + Timeout.
THEOREM AuthRevocationBound == Spec => []RevocationBound
  BY AuthInvariant, PTL DEF AuthInv

\* No call is refused for want of a key that has been served for longer than
\* Timeout before the call began.
THEOREM AuthRotationBound == Spec => []RotationBound
  BY AuthInvariant, PTL DEF AuthInv
=============================================================================
