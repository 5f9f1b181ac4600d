--------------------------- MODULE RegistryProofs ---------------------------
(***************************************************************************)
(* The bastion ledger is correct for any numbers of calls, users, bastions *)
(* and tokens.  LedgerInv is the inductive invariant: the checked          *)
(* properties, and how a call's local variables, the history of issued     *)
(* tokens and the ledger hang together (CallsAccounted, MintedAccounted).  *)
(***************************************************************************)
EXTENDS Registry, TLAPS

\* A call has no token before Register and one when it reads the record back;
\* the token was issued for the bastion the call names.
CallsAccounted ==
  \A c \in Calls :
     /\ pc[c] = "new" => tok[c] = None /\ shown[c] = None
     /\ pc[c] = "get" => tok[c] # None
     /\ tok[c] # None => /\ user[c] \in Users
                         /\ body[c] \in Bastions
                         /\ minted[tok[c]] = body[c]

\* A token leads only to the bastion it was issued for.
MintedAccounted == \A t \in Tokens : byToken[t] # None => byToken[t] = minted[t]

LedgerInv ==
  /\ TypeOK
  /\ TokenIndex
  /\ CallsAccounted
  /\ MintedAccounted
  /\ TokenGoesToOwner
  /\ TokenWorks

LEMMA InitLedgerInv == Init => LedgerInv
<1> SUFFICES ASSUME Init PROVE LedgerInv
  OBVIOUS
<1> USE RegistryAssumption DEF Init
<1>1. TypeOK
  BY DEF TypeOK
<1>2. TokenIndex
  BY DEF TokenIndex, Registered
<1>3. CallsAccounted /\ MintedAccounted /\ TokenGoesToOwner /\ TokenWorks
  BY DEF CallsAccounted, MintedAccounted, TokenGoesToOwner, TokenWorks
<1> QED
  BY <1>1, <1>2, <1>3 DEF LedgerInv
----------------------------------------------------------------------------
(* Register, when it issues token t to call c for bastion b of user u. *)

Issue(c, u, b, t, v) ==
  /\ pc[c] = "new"
  /\ ~Taken(b, u)
  /\ now < MaxTime
  /\ byID' = [byID EXCEPT ![b] = Store(b, u, t, v)]
  /\ byToken' = Rotate(b, t)
  /\ tok' = [tok EXCEPT ![c] = t]
  /\ minted' = [minted EXCEPT ![t] = b]
  /\ now' = now + 1
  /\ pc' = [pc EXCEPT ![c] = "get"]
  /\ user' = [user EXCEPT ![c] = u]
  /\ body' = [body EXCEPT ![c] = b]
  /\ UNCHANGED shown

\* Register issues a token and revokes the bastion's last one.
LEMMA IssuePreserves ==
  ASSUME LedgerInv, NEW c \in Calls, NEW u \in Users, NEW b \in Bastions,
         NEW t \in mintToken, NEW v \in Versions, Issue(c, u, b, t, v)
  PROVE  LedgerInv'
<1> USE RegistryAssumption DEF LedgerInv, Issue
<1>t. t \in Tokens /\ minted[t] = None /\ byToken[t] = None
  BY DEF mintToken, MintedAccounted, TypeOK
<1>s. /\ Store(b, u, t, v) \in Record
      /\ Store(b, u, t, v).owner = u
      /\ Store(b, u, t, v).token = t
  <2>1. now + 1 \in 0..MaxTime
    BY DEF TypeOK
  <2>2. CASE Registered(b)
    <3>1. byID[b] \in Record /\ byID[b].owner = u
      BY <2>2 DEF Registered, Taken, TypeOK
    <3> QED
      BY <1>t, <2>1, <2>2, <3>1 DEF Store, Record
  <2>3. CASE ~Registered(b)
    BY <1>t, <2>1, <2>3 DEF Store, Record
  <2> QED
    BY <2>2, <2>3
<1>r. \A s \in Tokens :
         byToken'[s] = IF s = t THEN b
                       ELSE IF Registered(b) /\ s = byID[b].token THEN None
                       ELSE byToken[s]
  BY DEF Rotate
<1>b. /\ \A b2 \in Bastions : byID'[b2] = IF b2 = b THEN Store(b, u, t, v) ELSE byID[b2]
      /\ Registered(b)' /\ byID'[b].token = t /\ byID'[b].owner = u
      /\ \A b2 \in Bastions : b2 # b => (Registered(b2)' <=> Registered(b2))
  BY <1>s, NoneIsNoRecord DEF TypeOK, Registered
<1>l. /\ \A d \in Calls : d # c => /\ tok'[d] = tok[d]
                                   /\ user'[d] = user[d]
                                   /\ body'[d] = body[d]
                                   /\ pc'[d] = pc[d]
      /\ tok'[c] = t /\ user'[c] = u /\ body'[c] = b /\ pc'[c] = "get"
      /\ minted' = [minted EXCEPT ![t] = b]
  BY DEF TypeOK
<1>1. TypeOK'
  <2>1. byID' \in [Bastions -> Record \cup {None}]
    BY <1>s DEF TypeOK
  <2>2. byToken' \in [Tokens -> Bastions \cup {None}]
    BY DEF Rotate, TypeOK
  <2>3. now' \in 0..MaxTime
    BY DEF TypeOK
  <2>4. /\ tok' \in [Calls -> Tokens \cup {None}]
        /\ minted' \in [Tokens -> Bastions \cup {None}]
        /\ pc' \in [Calls -> {"new", "get", "200", "400", "401", "409"}]
        /\ user' \in [Calls -> Users \cup {None}]
        /\ body' \in [Calls -> Bastions \cup {None}]
    BY <1>t DEF TypeOK
  <2> QED
    BY <2>1, <2>2, <2>3, <2>4 DEF TypeOK
<1>2. TokenIndex'
  <2> SUFFICES ASSUME NEW s \in Tokens, NEW b2 \in Bastions
               PROVE  byToken'[s] = b2 <=> Registered(b2)' /\ byID'[b2].token = s
    BY DEF TokenIndex
  <2>1. CASE b2 = b
    BY <1>r, <1>b, <2>1 DEF TokenIndex
  <2>2. CASE b2 # b
    BY <1>r, <1>b, <1>t, <2>2 DEF TokenIndex
  <2> QED
    BY <2>1, <2>2
<1>3. CallsAccounted'
  BY <1>l, <1>t DEF CallsAccounted, TypeOK
<1>4. MintedAccounted'
  BY <1>r, <1>t, <1>l DEF MintedAccounted, TypeOK
\* The bastion keeps its owner.
<1>o. \A w \in Users : ListByUser(w) \subseteq ListByUser(w)'
  BY <1>b DEF ListByUser, Taken
<1>5. TokenGoesToOwner'
  <2>1. \A d \in Calls : tok'[d] # None => (body[d] \in ListByUser(user[d]))'
    <3>1. b \in ListByUser(u)'
      BY <1>b DEF ListByUser
    <3>2. ASSUME NEW d \in Calls, d # c, tok[d] # None
          PROVE  (body[d] \in ListByUser(user[d]))'
      BY <1>l, <1>o, <3>2 DEF TokenGoesToOwner, CallsAccounted
    <3> QED
      BY <1>l, <3>1, <3>2
  <2>2. \A d \in Calls : shown'[d] # None => shown'[d].owner = user'[d]
    BY <1>l DEF TokenGoesToOwner, CallsAccounted
  <2> QED
    BY <2>1, <2>2 DEF TokenGoesToOwner
<1>6. TokenWorks'
  <2> SUFFICES ASSUME NEW d \in Calls, tok'[d] # None
               PROVE  LET rec == VerifyDaemonToken(tok[d])
                      IN (IF rec = None THEN \E e \in Calls : Supersedes(e, d)
                                        ELSE rec.owner = user[d])'
    BY DEF TokenWorks
  <2>1. \A r \in Record : Copy(r) \in Record /\ Copy(r).owner = r.owner
    BY DEF Copy, Record
  <2>2. CASE d = c
    BY <1>b, <1>l, <1>r, <1>s, <1>t, <2>1, <2>2, NoneIsNoRecord DEF VerifyDaemonToken, Copy
  <2>3. CASE d # c
    <3>1. /\ tok[d] \in Tokens /\ tok[d] # t /\ tok'[d] = tok[d] /\ user'[d] = user[d]
          /\ minted[tok[d]] = body[d]
      BY <1>l, <1>t, <2>3 DEF TypeOK, CallsAccounted
    <3>2. CASE byToken[tok[d]] = None
      <4>1. byToken'[tok[d]] = None
        BY <1>r, <3>1, <3>2
      <4>2. PICK e \in Calls : Supersedes(e, d)
        BY <3>1, <3>2, <1>l, <2>3 DEF TokenWorks, VerifyDaemonToken
      <4>3. Supersedes(e, d)'
        BY <1>l, <2>3, <4>2 DEF Supersedes, CallsAccounted
      <4> QED
        BY <3>1, <4>1, <4>3 DEF VerifyDaemonToken
    <3>3. CASE byToken[tok[d]] = b
      <4>1. byToken'[tok[d]] = None
        BY <1>r, <3>1, <3>3 DEF TokenIndex
      <4>2. body[d] = b /\ user[d] = u
        BY <3>1, <3>3, <1>l, <2>3 DEF MintedAccounted, TokenGoesToOwner, ListByUser, Taken
      <4>3. Supersedes(c, d)'
        BY <1>l, <1>t, <2>3, <4>2 DEF Supersedes
      <4> QED
        BY <3>1, <4>1, <4>3 DEF VerifyDaemonToken
    <3>4. CASE byToken[tok[d]] # None /\ byToken[tok[d]] # b
      <4> DEFINE b2 == byToken[tok[d]]
      <4>1. b2 \in Bastions /\ Registered(b2) /\ byID[b2] \in Record
        BY <3>1, <3>4 DEF TokenIndex, TypeOK, Registered
      <4>2. byToken'[tok[d]] = b2 /\ byID'[b2] = byID[b2]
        BY <1>r, <1>b, <3>1, <3>4, <4>1 DEF TokenIndex
      <4>3. b2 = body[d] /\ byID[b2].owner = user[d]
        BY <3>1, <3>4, <1>l, <2>3 DEF MintedAccounted, TokenGoesToOwner, ListByUser
      <4> QED
        BY <2>1, <3>1, <3>4, <4>1, <4>2, <4>3, NoneIsNoRecord DEF VerifyDaemonToken
    <3> QED
      BY <3>2, <3>3, <3>4
  <2> QED
    BY <2>2, <2>3
<1> QED
  BY <1>1, <1>2, <1>3, <1>4, <1>5, <1>6
----------------------------------------------------------------------------
(* The other steps. *)

\* A refused call learns nothing and changes nothing but its own state.
LEMMA RefusalPreserves ==
  ASSUME LedgerInv, NEW c \in Calls, pc[c] = "new",
         NEW status \in {"400", "401", "409"},
         pc' = [pc EXCEPT ![c] = status],
         \/ UNCHANGED <<user, body>>
         \/ \E u \in Users, b \in Bastions :
               user' = [user EXCEPT ![c] = u] /\ body' = [body EXCEPT ![c] = b],
         UNCHANGED <<byID, byToken, now, tok, shown, minted>>
  PROVE  LedgerInv'
<1> USE DEF LedgerInv
<1>l. /\ \A d \in Calls : d # c => /\ user'[d] = user[d]
                                   /\ body'[d] = body[d]
                                   /\ pc'[d] = pc[d]
      /\ tok[c] = None /\ shown[c] = None
      /\ pc'[c] = status
  BY DEF TypeOK, CallsAccounted
<1>1. TypeOK'
  <2>1. user' \in [Calls -> Users \cup {None}] /\ body' \in [Calls -> Bastions \cup {None}]
    BY DEF TypeOK
  <2>2. pc' \in [Calls -> {"new", "get", "200", "400", "401", "409"}]
    BY DEF TypeOK
  <2> QED
    BY <2>1, <2>2 DEF TypeOK
<1>2. TokenIndex' /\ MintedAccounted'
  BY DEF TokenIndex, MintedAccounted, Registered
<1>3. CallsAccounted'
  BY <1>l DEF CallsAccounted
<1>4. TokenGoesToOwner'
  BY <1>l DEF TokenGoesToOwner, ListByUser, Registered
<1>5. TokenWorks'
  <2> SUFFICES ASSUME NEW d \in Calls, tok[d] # None
               PROVE  LET rec == VerifyDaemonToken(tok[d])
                      IN (IF rec = None THEN \E e \in Calls : Supersedes(e, d)
                                        ELSE rec.owner = user[d])'
    BY DEF TokenWorks
  <2>1. \A e \in Calls : Supersedes(e, d) => Supersedes(e, d)'
    BY <1>l DEF Supersedes
  <2>2. VerifyDaemonToken(tok[d])' = VerifyDaemonToken(tok[d])
    BY DEF VerifyDaemonToken, Copy
  <2> QED
    BY <1>l, <2>1, <2>2 DEF TokenWorks
<1> QED
  BY <1>1, <1>2, <1>3, <1>4, <1>5

\* registerBastion reads its record back.
LEMMA GetPreserves ==
  ASSUME LedgerInv, NEW c \in Calls, Get(c)
  PROVE  LedgerInv'
<1> USE RegistryAssumption DEF LedgerInv, Get
<1>0. tok[c] # None /\ body[c] \in Bastions /\ body[c] \in ListByUser(user[c])
  BY DEF CallsAccounted, TokenGoesToOwner
<1>r. byID[body[c]] \in Record /\ byID[body[c]].owner = user[c]
  BY <1>0 DEF ListByUser, Registered, TypeOK
<1>s. Copy(byID[body[c]]) \in Record /\ Copy(byID[body[c]]).owner = user[c]
  BY <1>r DEF Copy, Record
<1>1. TypeOK'
  BY <1>s DEF TypeOK
<1>2. TokenIndex' /\ MintedAccounted'
  BY DEF TokenIndex, MintedAccounted, Registered
<1>3. CallsAccounted'
  BY <1>0 DEF CallsAccounted, TypeOK
<1>4. TokenGoesToOwner'
  BY <1>s DEF TokenGoesToOwner, ListByUser, Registered, TypeOK
<1>5. TokenWorks'
  BY DEF TokenWorks, VerifyDaemonToken, Copy, Supersedes
<1> QED
  BY <1>1, <1>2, <1>3, <1>4, <1>5

\* Touch changes when a record was last seen, not its token or owner.
LEMMA TouchPreserves ==
  ASSUME LedgerInv, NEW b \in Bastions, Touch(b)
  PROVE  LedgerInv'
<1> USE RegistryAssumption DEF LedgerInv, Touch
<1>r. byID[b] \in Record /\ now + 1 \in 0..MaxTime
  BY DEF TypeOK, Registered
<1>b. /\ byID' \in [Bastions -> Record \cup {None}]
      /\ \A b2 \in Bastions : b2 # b => byID'[b2] = byID[b2]
      /\ byID'[b] \in Record
      /\ byID'[b].owner = byID[b].owner /\ byID'[b].token = byID[b].token
  BY <1>r DEF TypeOK, Record
<1>g. \A b2 \in Bastions : Registered(b2)' <=> Registered(b2)
  BY <1>r, <1>b, NoneIsNoRecord DEF Registered
<1>1. TypeOK'
  BY <1>b, <1>r DEF TypeOK
<1>2. TokenIndex' /\ MintedAccounted' /\ CallsAccounted'
  BY <1>b, <1>g DEF TokenIndex, MintedAccounted, CallsAccounted
<1>3. TokenGoesToOwner'
  BY <1>b, <1>g DEF TokenGoesToOwner, ListByUser
<1>4. TokenWorks'
  <2> SUFFICES ASSUME NEW d \in Calls, tok[d] # None
               PROVE  LET rec == VerifyDaemonToken(tok[d])
                      IN (IF rec = None THEN \E e \in Calls : Supersedes(e, d)
                                        ELSE rec.owner = user[d])'
    BY DEF TokenWorks
  <2>0. tok[d] \in Tokens
    BY DEF TypeOK
  <2>1. CASE byToken[tok[d]] = None
    BY <2>1 DEF TokenWorks, VerifyDaemonToken, Supersedes
  <2>2. CASE byToken[tok[d]] # None
    <3>1. byToken[tok[d]] \in Bastions /\ byToken[tok[d]] = body[d]
      BY <2>0, <2>2 DEF MintedAccounted, CallsAccounted, TypeOK
    <3>2. (byID[body[d]] \in Record /\ byID[body[d]].owner = user[d])'
      BY <1>b, <1>r, <3>1 DEF TokenGoesToOwner, ListByUser, Registered, TypeOK
    <3>3. (Copy(byID[body[d]]) \in Record /\ Copy(byID[body[d]]).owner = user[d])'
      BY <3>2 DEF Copy, Record
    <3> QED
      BY <2>2, <3>1, <3>3, NoneIsNoRecord DEF VerifyDaemonToken
  <2> QED
    BY <2>1, <2>2
<1> QED
  BY <1>1, <1>2, <1>3, <1>4

LEMMA StutterPreserves ==
  ASSUME LedgerInv, UNCHANGED vars
  PROVE  LedgerInv'
<1> USE DEF LedgerInv, vars
<1>1. TypeOK'
  BY DEF TypeOK
<1>2. TokenIndex' /\ MintedAccounted' /\ CallsAccounted' /\ TokenGoesToOwner'
  BY DEF TokenIndex, MintedAccounted, CallsAccounted, TokenGoesToOwner, ListByUser, Registered
<1>3. TokenWorks'
  BY DEF TokenWorks, VerifyDaemonToken, Copy, Supersedes
<1> QED
  BY <1>1, <1>2, <1>3

----------------------------------------------------------------------------
(* The theorems. *)

\* A successful Register issues a token.
LEMMA RegisterCases ==
  ASSUME NEW c \in Calls, NEW u \in Users, NEW b \in Bastions, Register(c, u, b)
  PROVE  \/ /\ pc[c] = "new"
            /\ pc' = [pc EXCEPT ![c] = "409"]
            /\ user' = [user EXCEPT ![c] = u]
            /\ body' = [body EXCEPT ![c] = b]
            /\ UNCHANGED <<byID, byToken, now, tok, shown, minted>>
         \/ \E t \in mintToken, v \in Versions : Issue(c, u, b, t, v)
  BY DEF Register, Issue

LEMMA NextPreserves == LedgerInv /\ [Next]_vars => LedgerInv'
<1> SUFFICES ASSUME LedgerInv, [Next]_vars PROVE LedgerInv'
  OBVIOUS
<1>1. ASSUME NEW c \in Calls, Refuse(c) PROVE LedgerInv'
  <2>1. PICK status \in {"400", "401", "409"} : pc' = [pc EXCEPT ![c] = status]
    BY <1>1 DEF Refuse
  <2> QED
    BY <1>1, <2>1, RefusalPreserves DEF Refuse
<1>2. ASSUME NEW c \in Calls, NEW u \in Users, NEW b \in Bastions, Register(c, u, b)
      PROVE  LedgerInv'
  <2>1. CASE /\ pc[c] = "new"
             /\ pc' = [pc EXCEPT ![c] = "409"]
             /\ user' = [user EXCEPT ![c] = u]
             /\ body' = [body EXCEPT ![c] = b]
             /\ UNCHANGED <<byID, byToken, now, tok, shown, minted>>
    BY <2>1, RefusalPreserves
  <2>2. CASE \E t \in mintToken, v \in Versions : Issue(c, u, b, t, v)
    BY <2>2, IssuePreserves
  <2> QED
    BY <1>2, <2>1, <2>2, RegisterCases
<1>3. ASSUME NEW c \in Calls, Get(c) PROVE LedgerInv'
  BY <1>3, GetPreserves
<1>4. ASSUME NEW b \in Bastions, Touch(b) PROVE LedgerInv'
  BY <1>4, TouchPreserves
<1>5. CASE UNCHANGED vars
  BY <1>5, StutterPreserves
<1> QED
  BY <1>1, <1>2, <1>3, <1>4, <1>5 DEF Next, Idle

\* The ledger's inductive invariant holds in every reachable state.
THEOREM LedgerInvariant == Spec => []LedgerInv
  BY InitLedgerInv, NextPreserves, PTL DEF Spec

\* Every variable of the ledger and of its calls keeps its type.
THEOREM LedgerTyped == Spec => []TypeOK
  BY LedgerInvariant, PTL DEF LedgerInv

\* byID and byToken always agree: per bastion exactly the last token works.
THEOREM LedgerTokenIndex == Spec => []TokenIndex
  BY LedgerInvariant, PTL DEF LedgerInv

\* A user that was issued a token for a bastion owns it ever after.
THEOREM LedgerTokenGoesToOwner == Spec => []TokenGoesToOwner
  BY LedgerInvariant, PTL DEF LedgerInv

\* A token in a reply works until the same user registers the bastion again.
THEOREM LedgerTokenWorks == Spec => []TokenWorks
  BY LedgerInvariant, PTL DEF LedgerInv
=============================================================================
