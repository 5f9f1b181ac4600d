----------------------------- MODULE Registry -----------------------------
(***************************************************************************)
(* The bastion ledger (src/internal/registry/registry.go, Memory) and the  *)
(* handlers that use it (registerBastion and listMyBastions in             *)
(* src/cmd/chepherd-relay/main.go).                                        *)
(*                                                                         *)
(* A step is one critical section of Memory.mu.  registerBastion takes the *)
(* lock twice, in Register and in Get, so another call may rotate the      *)
(* token in between.  A record is reached by bastion_id and by token; the  *)
(* struct behind a bastion_id is never replaced, so the pointer in byToken *)
(* is named by the bastion_id.                                             *)
(*                                                                         *)
(* External: mintToken reads crypto/rand, and its 256-bit tokens are taken *)
(* to be distinct.  Time is a counter that every use of the clock advances.*)
(***************************************************************************)
EXTENDS Naturals, FiniteSets

CONSTANTS
  Calls,      \* calls of registerBastion
  Users,      \* user_id values
  Bastions,   \* bastion_id values
  Tokens,     \* daemon tokens
  Versions,   \* chepherd_version values, standing for the metadata of a call
  MaxTime,    \* bound: clock readings
  None

ASSUME RegistryAssumption ==
  /\ MaxTime \in Nat
  /\ None \notin Calls \cup Users \cup Bastions \cup Tokens \cup Versions

VARIABLES
  byID,       \* bastion_id -> record
  byToken,    \* token -> the bastion whose record it points to
  now,        \* the clock
  pc,         \* where a call of registerBastion is, or its status
  user,       \* claims.UserID
  body,       \* the bastion_id it names
  tok,        \* the token Register returned
  shown,      \* the record Get returned
  minted      \* history: the bastion a token was issued for

vars == <<byID, byToken, now, pc, user, body, tok, shown, minted>>

\* DaemonToken is part of a stored record, and blank in a copy handed out.
Record == [owner : Users, token : Tokens \cup {None}, version : Versions,
           created : 0..MaxTime, seen : 0..MaxTime]

ASSUME NoneIsNoRecord == None \notin Record

TypeOK ==
  /\ byID \in [Bastions -> Record \cup {None}]
  /\ byToken \in [Tokens -> Bastions \cup {None}]
  /\ now \in 0..MaxTime
  /\ pc \in [Calls -> {"new", "get", "200", "400", "401", "409"}]
  /\ user \in [Calls -> Users \cup {None}]
  /\ body \in [Calls -> Bastions \cup {None}]
  /\ tok \in [Calls -> Tokens \cup {None}]
  /\ shown \in [Calls -> Record \cup {None}]
  /\ minted \in [Tokens -> Bastions \cup {None}]

Init ==
  /\ byID = [b \in Bastions |-> None]
  /\ byToken = [t \in Tokens |-> None]
  /\ now = 0
  /\ pc = [c \in Calls |-> "new"]
  /\ user = [c \in Calls |-> None]
  /\ body = [c \in Calls |-> None]
  /\ tok = [c \in Calls |-> None]
  /\ shown = [c \in Calls |-> None]
  /\ minted = [t \in Tokens |-> None]

----------------------------------------------------------------------------
(* Memory. *)

Registered(b) == byID[b] # None

\* A token never drawn before.  crypto/rand does not fail, so Register's two
\* error returns after it cannot be taken.
mintToken == {t \in Tokens : minted[t] = None}

\* A copy without its token.
Copy(rec) == [rec EXCEPT !.token = None]

\* Slip: the old token keeps working.
RotateKeepingOld(b, t) == [byToken EXCEPT ![t] = b]

\* The tokens after t is issued for b: the one it had is revoked.
Rotate(b, t) ==
  [s \in Tokens |-> IF s = t THEN b
                    ELSE IF Registered(b) /\ s = byID[b].token THEN None
                    ELSE byToken[s]]

\* Slip: the first registration forgets the owner.
StoreBlank(b, u, t, v) ==
  IF Registered(b)
    THEN [byID[b] EXCEPT !.token = t, !.version = v, !.seen = now + 1]
    ELSE [owner |-> None, token |-> t, version |-> v, created |-> now + 1, seen |-> now + 1]

\* The record after u registers b: a known one keeps owner and creation time.
Store(b, u, t, v) ==
  IF Registered(b)
    THEN [byID[b] EXCEPT !.token = t, !.version = v, !.seen = now + 1]
    ELSE [owner |-> u, token |-> t, version |-> v, created |-> now + 1, seen |-> now + 1]

\* Slip: anybody may register a bastion again.
TakenByNobody(b, u) == FALSE

\* ErrTakenByOther.
Taken(b, u) == Registered(b) /\ byID[b].owner # u

----------------------------------------------------------------------------
(* Handlers. *)

\* Not a POST, no claims, bad JSON or an empty id; or claims without a user,
\* which Register refuses and registerBastion reports as a conflict.
Refuse(c) ==
  /\ pc[c] = "new"
  /\ \E status \in {"400", "401", "409"} : pc' = [pc EXCEPT ![c] = status]
  /\ UNCHANGED <<byID, byToken, now, user, body, tok, shown, minted>>

\* registerBastion calls Register, which refuses or issues a token.
Register(c, u, b) ==
  /\ pc[c] = "new"
  /\ user' = [user EXCEPT ![c] = u]
  /\ body' = [body EXCEPT ![c] = b]
  /\ \/ /\ Taken(b, u)
        /\ pc' = [pc EXCEPT ![c] = "409"]
        /\ UNCHANGED <<byID, byToken, now, tok, minted>>
     \/ /\ ~Taken(b, u)
        /\ now < MaxTime
        /\ \E t \in mintToken, v \in Versions :
              /\ byID' = [byID EXCEPT ![b] = Store(b, u, t, v)]
              /\ byToken' = Rotate(b, t)
              /\ tok' = [tok EXCEPT ![c] = t]
              /\ minted' = [minted EXCEPT ![t] = b]
        /\ now' = now + 1
        /\ pc' = [pc EXCEPT ![c] = "get"]
  /\ UNCHANGED shown

\* registerBastion reads the record back and replies.
Get(c) ==
  /\ pc[c] = "get"
  /\ shown' = [shown EXCEPT ![c] = Copy(byID[body[c]])]
  /\ pc' = [pc EXCEPT ![c] = "200"]
  /\ UNCHANGED <<byID, byToken, now, user, body, tok, minted>>

\* Touch: the record's last_seen_at is now.  No handler calls it yet.
Touch(b) ==
  /\ Registered(b)
  /\ now < MaxTime
  /\ byID' = [byID EXCEPT ![b].seen = now + 1]
  /\ now' = now + 1
  /\ UNCHANGED <<byToken, pc, user, body, tok, shown, minted>>

\* VerifyDaemonToken: the record a token gives, or None.
VerifyDaemonToken(t) == IF byToken[t] = None THEN None ELSE Copy(byID[byToken[t]])

\* ListByUser: the bastions of u.
ListByUser(u) == {b \in Bastions : Registered(b) /\ byID[b].owner = u}

\* All calls of the instance have been served.
Idle == (\A c \in Calls : pc[c] \notin {"new", "get"}) /\ UNCHANGED vars

Next ==
  \/ \E c \in Calls : Refuse(c) \/ Get(c) \/ \E u \in Users, b \in Bastions : Register(c, u, b)
  \/ \E b \in Bastions : Touch(b)
  \/ Idle

Spec == Init /\ [][Next]_vars

----------------------------------------------------------------------------
(* Properties. *)

\* The two maps agree: a token leads to a bastion exactly when it is the one
\* in the bastion's record, so after any sequence of rotations one token per
\* bastion works, the last issued.
TokenIndex ==
  \A t \in Tokens, b \in Bastions :
     byToken[t] = b <=> Registered(b) /\ byID[b].token = t

\* Whoever was issued a token for a bastion owns it, then and ever after: a
\* registration by another user neither gets a token (ErrTakenByOther) nor
\* moves the bastion, whichever calls interleave, and the record read back for
\* the reply (Get) is still the caller's.
TokenGoesToOwner ==
  \A c \in Calls :
     /\ tok[c] # None => body[c] \in ListByUser(user[c])
     /\ shown[c] # None => shown[c].owner = user[c]

\* d registered the bastion of c for the same user, in another call.
Supersedes(d, c) == d # c /\ body[d] = body[c] /\ user[d] = user[c] /\ tok[d] # None

\* The token in a reply works as long as its user does not register the
\* bastion again, and gives access to that user's record only.
TokenWorks ==
  \A c \in Calls : tok[c] # None =>
     LET rec == VerifyDaemonToken(tok[c])
     IN IF rec = None THEN \E d \in Calls : Supersedes(d, c)
                      ELSE rec.owner = user[c]
=============================================================================
