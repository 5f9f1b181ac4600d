---------------------------- MODULE PushProofs ----------------------------
(***************************************************************************)
(* The report of pushSend adds up, and no notification goes out twice, for *)
(* any numbers of devices, users, tokens and calls, whatever registrations *)
(* and late answers of the providers race with the loop.                   *)
(*                                                                         *)
(* PushInv is the inductive invariant.  A device is handled once a         *)
(* provider has accepted its push or has it with nobody waiting; each      *)
(* handled device is counted, as sent or as failed, or is about to be.  A  *)
(* device still in the list has not been handled, except the first one     *)
(* between its failure and the mark.                                       *)
(***************************************************************************)
EXTENDS Push, FiniteSetTheorems, SequenceTheorems, TLAPS

\* The registry files a registration under its device.
RegInv == \A d \in Devices : regs[d] # None => regs[d].device = d

\* Nothing has happened yet to a call that has not been made.
NewInv ==
  \A s \in Sends : pc[s] = "new" =>
     /\ todo[s] = <<>> /\ attempted[s] = 0 /\ sent[s] = 0 /\ failed[s] = 0
     /\ \A p \in stale : p.call # s
     /\ \A d \in Devices : delivered[s][d] = 0

\* The list has each device once.
TodoInv ==
  \A s \in Sends :
     \A i, j \in DOMAIN todo[s] : todo[s][i].device = todo[s][j].device => i = j

\* A push nobody waits for is the only one of its call to its device.
StaleInv ==
  /\ \A p \in stale : delivered[p.call][p.to.device] = 0
  /\ \A p, q \in stale : p.call = q.call /\ p.to.device = q.to.device => p = q

Given(s, d) == \E p \in stale : p.call = s /\ p.to.device = d

\* A device still in the list has neither been notified nor has a push out, but
\* for the first one between the error of its dispatch and the mark.
UntouchedInv ==
  \A s \in Sends : \A i \in DOMAIN todo[s] :
     i > 1 \/ pc[s] # "mark" => /\ delivered[s][todo[s][i].device] = 0
                                /\ ~Given(s, todo[s][i].device)

Handled(s) == {d \in Devices : delivered[s][d] > 0 \/ Given(s, d)}

\* The device at the head of the list is handled before it is counted.
Marking(s) == IF pc[s] = "mark" THEN 1 ELSE 0

\* The counts cover the devices that were handled, those whose push is still out
\* included.
CountInv ==
  \A s \in Sends :
     /\ sent[s] + failed[s] + Len(todo[s]) = attempted[s]
     /\ Cardinality(Handled(s)) <= sent[s] + failed[s] + Marking(s)
     /\ sent[s] <= Cardinality(DeliveredBy(s))

PushInv ==
  /\ TypeOK
  /\ RegInv
  /\ NewInv
  /\ TodoInv
  /\ StaleInv
  /\ UntouchedInv
  /\ OncePerDevice
  /\ CountInv

----------------------------------------------------------------------------
(* Sets and sequences. *)

\* Sets of devices can be counted.
LEMMA CountDevices ==
  ASSUME NEW S \in SUBSET Devices
  PROVE  /\ IsFiniteSet(S)
         /\ Cardinality(S) \in Nat
         /\ \A R \in SUBSET S : Cardinality(R) <= Cardinality(S)
<1>1. IsFiniteSet(S)
  BY PushAssumption, FS_Subset
<1> QED
  BY <1>1, FS_CardinalityType, FS_Subset

\* What ListByUser returns: registrations, one for each device.
LEMMA SnapshotFacts ==
  ASSUME TypeOK, RegInv, NEW u \in Users, NEW list \in SetToSeqs(ListByUser(u))
  PROVE  /\ list \in Seq(Registration)
         /\ \A i \in DOMAIN list : list[i].device \in Devices
         /\ \A i, j \in DOMAIN list : list[i].device = list[j].device => i = j
         /\ Len(list) \in Nat
<1>1. PICK R : R = ListByUser(u)
  OBVIOUS
<1>2. /\ R \subseteq Registration
      /\ \A r \in R : r.user = u /\ r.device \in Devices /\ r = regs[r.device]
  BY <1>1 DEF ListByUser, RegInv, TypeOK, Registration
<1>3. IsFiniteSet(R)
  <2>1. PICK f : f = [r \in R |-> r.device]
    OBVIOUS
  <2>2. f \in Injection(R, Devices)
    BY <1>2, <2>1 DEF Injection, IsInjective
  <2> QED
    BY <2>2, PushAssumption, FS_Injection
<1>4. PICK n \in Nat : n = Cardinality(R)
  BY <1>3, FS_CardinalityType
<1>5. list \in [1..n -> R] /\ \A i, j \in 1..n : list[i] = list[j] => i = j
  BY <1>1, <1>4 DEF SetToSeqs
<1>6. list \in Seq(Registration) /\ DOMAIN list = 1..n /\ Len(list) = n
  BY <1>2, <1>5
<1>7. /\ \A i \in 1..n : list[i].device \in Devices
      /\ \A i, j \in 1..n : list[i].device = list[j].device => i = j
  BY <1>2, <1>5
<1> QED
  BY <1>6, <1>7

\* The loop goes on to the rest of its list.
LEMMA RestFacts ==
  ASSUME NEW q \in Seq(Registration), q # <<>>
  PROVE  /\ Head(q) \in Registration /\ Head(q) = q[1] /\ 1 \in DOMAIN q
         /\ Tail(q) \in Seq(Registration)
         /\ Len(q) \in Nat /\ Len(Tail(q)) \in Nat /\ Len(q) = Len(Tail(q)) + 1
         /\ \A i \in DOMAIN Tail(q) : /\ i + 1 \in DOMAIN q /\ i + 1 > 1 /\ i \in Nat
                                      /\ Tail(q)[i] = q[i + 1]
<1>1. /\ Head(q) \in Registration /\ Tail(q) \in Seq(Registration)
      /\ Len(Tail(q)) = Len(q) - 1
      /\ \A i \in 1..Len(Tail(q)) : Tail(q)[i] = q[i + 1]
  BY HeadTailProperties
<1>2. /\ Len(q) \in Nat /\ DOMAIN q = 1..Len(q)
      /\ Len(Tail(q)) \in Nat /\ DOMAIN Tail(q) = 1..Len(Tail(q))
  BY <1>1, LenProperties
<1>3. Head(q) = q[1]
  OBVIOUS
<1>4. Len(q) = Len(Tail(q)) + 1
  BY <1>1, <1>2
<1> QED
  BY <1>1, <1>2, <1>3, <1>4

----------------------------------------------------------------------------
(* Initially, and steps that leave the lists and the pushes alone. *)

LEMMA InitPushInv == Init => PushInv
<1> SUFFICES ASSUME Init PROVE PushInv
  OBVIOUS
<1> USE PushAssumption DEF Init
<1>1. TypeOK
  BY DEF TypeOK, FromEnv
<1>2. RegInv /\ NewInv /\ TodoInv /\ StaleInv /\ UntouchedInv
  BY DEF RegInv, NewInv, TodoInv, StaleInv, UntouchedInv
<1>3. OncePerDevice
  BY DEF OncePerDevice
<1>4. \A s \in Sends : Handled(s) = {} /\ DeliveredBy(s) = {}
  BY DEF Handled, DeliveredBy, Given
<1>5. CountInv
  <2>1. \A s \in Sends : /\ sent[s] = 0 /\ failed[s] = 0 /\ attempted[s] = 0 /\ Len(todo[s]) = 0
                         /\ Cardinality(Handled(s)) = 0 /\ Cardinality(DeliveredBy(s)) = 0
                         /\ Marking(s) = 0
    BY <1>4, FS_EmptySet DEF Marking
  <2> QED
    BY <2>1 DEF CountInv
<1> QED
  BY <1>1, <1>2, <1>3, <1>5 DEF PushInv

\* A step that leaves the lists, the counters and the pushes alone keeps
\* PushInv.
LEMMA QuietPreserves ==
  ASSUME PushInv, TypeOK', RegInv',
         UNCHANGED <<user, todo, attempted, sent, failed, stale, delivered>>,
         \A s \in Sends : pc'[s] = "new" => pc[s] = "new",
         \A s \in Sends : pc[s] = "mark" => pc'[s] = "mark"
  PROVE  PushInv'
<1> USE DEF PushInv
<1>1. NewInv'
  BY DEF NewInv
<1>2. TodoInv'
  BY DEF TodoInv
<1>3. StaleInv'
  BY DEF StaleInv
<1>4. UntouchedInv'
  BY DEF UntouchedInv, Given
<1>5. OncePerDevice'
  BY DEF OncePerDevice
<1>6. CountInv'
  <2>1. \A s \in Sends : Handled(s)' = Handled(s) /\ DeliveredBy(s)' = DeliveredBy(s)
    BY DEF Handled, DeliveredBy, Given
  <2>2. ASSUME NEW s \in Sends
        PROVE  Cardinality(Handled(s)') <= sent[s] + failed[s] + Marking(s)'
    <3>1. Cardinality(Handled(s)) \in Nat
      BY CountDevices DEF Handled
    <3>2. sent[s] \in Nat /\ failed[s] \in Nat
      BY DEF TypeOK
    <3>3. Marking(s) \in {0, 1} /\ Marking(s)' \in {0, 1} /\ Marking(s) <= Marking(s)'
      BY DEF Marking
    <3>4. Cardinality(Handled(s)) <= sent[s] + failed[s] + Marking(s)
      BY DEF CountInv
    <3>5. Cardinality(Handled(s)) <= sent[s] + failed[s] + Marking(s)'
      BY <3>1, <3>2, <3>3, <3>4
    <3> QED
      BY <2>1, <3>5
  <2> QED
    BY <2>1, <2>2 DEF CountInv
<1> QED
  BY <1>1, <1>2, <1>3, <1>4, <1>5, <1>6

\* Those steps: the registry's operations, routing, rejections, reports.
LEMMA QuietSteps ==
  ASSUME PushInv,
         \/ \E u \in Users, d \in Devices, t \in Tokens : PushRegister(u, d, t)
         \/ \E d \in Devices : Delete(d)
         \/ \E s \in Sends : Refuse(s) \/ Dispatch(s) \/ Rejected(s) \/ Finish(s)
         \/ Idle \/ UNCHANGED vars
  PROVE  PushInv'
<1> USE DEF PushInv, callVars
<1>1. ASSUME NEW u \in Users, NEW d \in Devices, NEW t \in Tokens, PushRegister(u, d, t)
      PROVE  PushInv'
  <2>0. PICK r : r = [device |-> d, user |-> u, token |-> t, failure |-> None]
    OBVIOUS
  <2>1. r \in Registration /\ r.device = d
    BY <2>0 DEF Registration
  <2>2. regs' = [regs EXCEPT ![d] = r] /\ upserts' = upserts + 1 /\ upserts < MaxUpserts
    BY <1>1, <2>0 DEF PushRegister
  <2>3. upserts' \in 0..MaxUpserts
    BY <2>2, PushAssumption DEF TypeOK
  <2>4. TypeOK'
    BY <1>1, <2>1, <2>2, <2>3 DEF PushRegister, TypeOK
  <2>5. RegInv'
    BY <2>1, <2>2 DEF RegInv, TypeOK
  <2> QED
    BY <1>1, <2>4, <2>5, QuietPreserves DEF PushRegister
<1>2. ASSUME NEW d \in Devices, Delete(d)
      PROVE  PushInv'
  <2>1. TypeOK'
    BY <1>2 DEF Delete, TypeOK
  <2>2. RegInv'
    BY <1>2 DEF Delete, RegInv, TypeOK
  <2> QED
    BY <1>2, <2>1, <2>2, QuietPreserves DEF Delete
<1>3. ASSUME NEW s \in Sends, Refuse(s) \/ Dispatch(s) \/ Rejected(s) \/ Finish(s)
      PROVE  PushInv'
  <2>1. /\ UNCHANGED <<backends, regs, upserts, user, todo, attempted, sent, failed, stale, delivered>>
        /\ pc[s] # "mark" /\ \E v \in {"refused", "await", "mark", "done"} :
              /\ pc' = [pc EXCEPT ![s] = v]
              /\ v \in {"await", "mark"} => todo[s] # <<>>
    BY <1>3 DEF Refuse, Dispatch, Rejected, Finish, TypeOK
  <2>2. TypeOK'
    BY <2>1 DEF TypeOK
  <2>3. RegInv'
    BY <2>1 DEF RegInv
  <2>4. \A t \in Sends : (pc'[t] = "new" => pc[t] = "new") /\ (pc[t] = "mark" => pc'[t] = "mark")
    BY <2>1 DEF TypeOK
  <2> QED
    BY <2>1, <2>2, <2>3, <2>4, QuietPreserves
<1>4. CASE Idle \/ UNCHANGED vars
  <2>1. UNCHANGED vars
    BY <1>4 DEF Idle
  <2>2. TypeOK'
    BY <2>1 DEF vars, TypeOK
  <2>3. RegInv'
    BY <2>1 DEF vars, RegInv
  <2> QED
    BY <2>1, <2>2, <2>3, QuietPreserves DEF vars
<1> QED
  BY <1>1, <1>2, <1>3, <1>4

----------------------------------------------------------------------------
(* The snapshot. *)

\* pushSend's snapshot: one entry per device of the user.
LEMMA SnapshotPreserves ==
  ASSUME PushInv, NEW s \in Sends, NEW u \in Users, PushSend(s, u)
  PROVE  PushInv'
<1> USE DEF PushInv
<1>1. PICK list \in SetToSeqs(ListByUser(u)) : /\ todo' = [todo EXCEPT ![s] = list]
                                               /\ attempted' = [attempted EXCEPT ![s] = Len(list)]
  BY DEF PushSend
<1>2. /\ list \in Seq(Registration)
      /\ \A i \in DOMAIN list : list[i].device \in Devices
      /\ \A i, j \in DOMAIN list : list[i].device = list[j].device => i = j
      /\ Len(list) \in Nat
  BY SnapshotFacts
<1>3. /\ pc[s] = "new" /\ pc' = [pc EXCEPT ![s] = "loop"] /\ user' = [user EXCEPT ![s] = u]
      /\ UNCHANGED <<backends, regs, upserts, sent, failed, stale, delivered>>
  BY DEF PushSend
<1>4. /\ pc'[s] = "loop" /\ user'[s] = u /\ todo'[s] = list /\ attempted'[s] = Len(list)
      /\ \A t \in Sends \ {s} : /\ pc'[t] = pc[t] /\ user'[t] = user[t]
                                /\ todo'[t] = todo[t] /\ attempted'[t] = attempted[t]
  BY <1>1, <1>3 DEF TypeOK
<1>5. /\ sent[s] = 0 /\ failed[s] = 0
      /\ \A p \in stale : p.call # s
      /\ \A d \in Devices : delivered[s][d] = 0
  BY <1>3 DEF NewInv
<1>6. TypeOK'
  BY <1>1, <1>2, <1>3, <1>4 DEF TypeOK
<1>7. RegInv'
  BY <1>3 DEF RegInv
<1>8. NewInv'
  BY <1>3, <1>4 DEF NewInv
<1>9. TodoInv'
  BY <1>2, <1>4 DEF TodoInv
<1>10. StaleInv'
  BY <1>3 DEF StaleInv
<1>11. UntouchedInv'
  BY <1>2, <1>3, <1>4, <1>5 DEF UntouchedInv, Given
<1>12. OncePerDevice'
  BY <1>3, <1>4, <1>5 DEF OncePerDevice
<1>13. CountInv'
  <2>1. \A t \in Sends : Handled(t)' = Handled(t) /\ DeliveredBy(t)' = DeliveredBy(t)
    BY <1>3 DEF Handled, DeliveredBy, Given
  <2>2. \A t \in Sends : Marking(t)' = Marking(t)
    BY <1>3, <1>4 DEF Marking
  <2>3. Handled(s) = {} /\ DeliveredBy(s) = {} /\ Cardinality({}) = 0 /\ Marking(s) = 0
    BY <1>3, <1>5, FS_EmptySet DEF Handled, DeliveredBy, Given, Marking
  <2>4. \A t \in Sends \ {s} :
           /\ sent'[t] + failed'[t] + Len(todo'[t]) = attempted'[t]
           /\ Cardinality(Handled(t)') <= sent'[t] + failed'[t] + Marking(t)'
           /\ sent'[t] <= Cardinality(DeliveredBy(t)')
    BY <1>3, <1>4, <2>1, <2>2 DEF CountInv
  <2>5. /\ sent'[s] + failed'[s] + Len(todo'[s]) = attempted'[s]
        /\ Cardinality(Handled(s)') <= sent'[s] + failed'[s] + Marking(s)'
        /\ sent'[s] <= Cardinality(DeliveredBy(s)')
    <3>1. 0 + 0 + Len(list) = Len(list) /\ 0 <= 0 + 0 + 0
      BY <1>2
    <3>2. sent'[s] = 0 /\ failed'[s] = 0 /\ todo'[s] = list /\ attempted'[s] = Len(list)
      BY <1>3, <1>4, <1>5
    <3>3. Cardinality(Handled(s)') = 0 /\ Cardinality(DeliveredBy(s)') = 0 /\ Marking(s)' = 0
      BY <2>1, <2>2, <2>3
    <3> QED
      BY <3>1, <3>2, <3>3
  <2> QED
    BY <2>4, <2>5 DEF CountInv
<1> QED
  BY <1>6, <1>7, <1>8, <1>9, <1>10, <1>11, <1>12, <1>13

----------------------------------------------------------------------------
(* The loop. *)

\* The first registration of the list, and the rest.
LEMMA CurrentFacts ==
  ASSUME PushInv, NEW s \in Sends, pc[s] \in {"await", "mark"}
  PROVE  /\ todo[s] \in Seq(Registration) /\ todo[s] # <<>>
         /\ Head(todo[s]) \in Registration
         /\ Head(todo[s]).device \in Devices
         /\ Current(s) \in Pushes
         /\ Current(s).call = s /\ Current(s).to = Head(todo[s])
         /\ pc[s] = "await" => /\ delivered[s][Head(todo[s]).device] = 0
                               /\ ~Given(s, Head(todo[s]).device)
<1>1. PICK q : q = todo[s]
  OBVIOUS
<1>2. q \in Seq(Registration) /\ q # <<>>
  BY <1>1 DEF PushInv, TypeOK
<1>3. PICK r : r = Head(q)
  OBVIOUS
<1>4. r \in Registration /\ r = q[1] /\ 1 \in DOMAIN q
  BY <1>2, <1>3, RestFacts
<1>5. r.device \in Devices
  BY <1>4 DEF Registration
<1>6. pc[s] = "await" => delivered[s][r.device] = 0 /\ ~Given(s, r.device)
  BY <1>1, <1>4 DEF PushInv, UntouchedInv
<1>7. Current(s) \in Pushes /\ Current(s).call = s /\ Current(s).to = r
  BY <1>1, <1>3, <1>4 DEF Current, Pushes
<1> QED
  BY <1>1, <1>2, <1>3, <1>4, <1>5, <1>6, <1>7

\* Going on to the rest of the list.
LEMMA RestOfList ==
  ASSUME PushInv, NEW s \in Sends, pc[s] \in {"await", "mark"},
         todo' = [todo EXCEPT ![s] = Tail(@)]
  PROVE  /\ todo' \in [Sends -> Seq(Registration)]
         /\ \A t \in Sends \ {s} : todo'[t] = todo[t]
         /\ Len(todo[s]) \in Nat /\ Len(todo'[s]) \in Nat /\ Len(todo[s]) = Len(todo'[s]) + 1
         /\ TodoInv'
         /\ \A i \in DOMAIN todo'[s] :
               /\ todo'[s][i].device \in Devices
               /\ todo'[s][i].device # Head(todo[s]).device
               /\ delivered[s][todo'[s][i].device] = 0
               /\ ~Given(s, todo'[s][i].device)
<1>1. PICK q, r : q = todo[s] /\ r = Tail(todo[s])
  OBVIOUS
<1>2. q \in Seq(Registration) /\ q # <<>>
  BY <1>1, CurrentFacts
<1>3. /\ Head(q) \in Registration /\ Head(q) = q[1] /\ 1 \in DOMAIN q
      /\ r \in Seq(Registration)
      /\ Len(q) \in Nat /\ Len(r) \in Nat /\ Len(q) = Len(r) + 1
      /\ \A i \in DOMAIN r : /\ i + 1 \in DOMAIN q /\ i + 1 > 1 /\ i \in Nat
                             /\ r[i] = q[i + 1]
  BY <1>1, <1>2, RestFacts
<1>4. /\ todo' \in [Sends -> Seq(Registration)]
      /\ todo'[s] = r /\ \A t \in Sends \ {s} : todo'[t] = todo[t]
  BY <1>1, <1>3 DEF PushInv, TypeOK
<1>5. /\ \A i, j \in DOMAIN q : q[i].device = q[j].device => i = j
      /\ \A i \in DOMAIN q : i > 1 => delivered[s][q[i].device] = 0 /\ ~Given(s, q[i].device)
  BY <1>1 DEF PushInv, TodoInv, UntouchedInv
<1>6. \A i \in DOMAIN r : /\ r[i].device # Head(q).device
                          /\ delivered[s][r[i].device] = 0 /\ ~Given(s, r[i].device)
  BY <1>3, <1>5
<1>7. \A i, j \in DOMAIN r : r[i].device = r[j].device => i = j
  <2> SUFFICES ASSUME NEW i \in DOMAIN r, NEW j \in DOMAIN r, r[i].device = r[j].device
               PROVE  i = j
    OBVIOUS
  <2>1. i + 1 = j + 1
    BY <1>3, <1>5
  <2> QED
    BY <1>3, <2>1
<1>8. TodoInv'
  <2>1. \A t \in Sends \ {s} :
           \A i, j \in DOMAIN todo'[t] : todo'[t][i].device = todo'[t][j].device => i = j
    BY <1>4 DEF PushInv, TodoInv
  <2> QED
    BY <1>4, <1>6, <1>7, <2>1 DEF TodoInv
<1>9. \A i \in DOMAIN r : r[i].device \in Devices
  <2>1. \A i \in DOMAIN r : r[i] \in Registration
    BY <1>3, LenProperties
  <2> QED
    BY <2>1 DEF Registration
<1> QED
  BY <1>1, <1>3, <1>4, <1>6, <1>8, <1>9

\* What the provider's yes to a push does: its device, which had nothing, has
\* the notification now.
LEMMA DeliveredFacts ==
  ASSUME PushInv, NEW p \in Pushes, delivered' = Delivered(p),
         delivered[p.call][p.to.device] = 0
  PROVE  /\ p.call \in Sends /\ p.to.device \in Devices
         /\ delivered' \in [Sends -> [Devices -> Nat]]
         /\ \A t \in Sends, e \in Devices : ~(t = p.call /\ e = p.to.device) =>
               delivered'[t][e] = delivered[t][e]
         /\ delivered'[p.call][p.to.device] > 0
         /\ OncePerDevice'
         /\ DeliveredBy(p.call)' = DeliveredBy(p.call) \cup {p.to.device}
         /\ p.to.device \notin DeliveredBy(p.call)
         /\ \A t \in Sends \ {p.call} : DeliveredBy(t)' = DeliveredBy(t)
<1>1. PICK s, d : s = p.call /\ d = p.to.device
  OBVIOUS
<1>2. s \in Sends /\ d \in Devices
  <2>1. p.to \in Registration /\ p.call \in Sends
    BY DEF Pushes
  <2> QED
    BY <1>1, <2>1 DEF Registration
<1>3. delivered \in [Sends -> [Devices -> Nat]]
  BY DEF PushInv, TypeOK
<1>4. delivered' = [delivered EXCEPT ![s] = [delivered[s] EXCEPT ![d] = 1]]
  BY <1>1, <1>2, <1>3 DEF Delivered
<1>5. /\ delivered' \in [Sends -> [Devices -> Nat]]
      /\ delivered'[s][d] = 1
      /\ \A t \in Sends, e \in Devices : ~(t = s /\ e = d) => delivered'[t][e] = delivered[t][e]
  BY <1>2, <1>3, <1>4
<1>6. delivered'[s][d] > 0
  BY <1>5
<1>7. OncePerDevice'
  BY <1>1, <1>2, <1>5 DEF PushInv, OncePerDevice
<1>8. DeliveredBy(s)' = DeliveredBy(s) \cup {d} /\ d \notin DeliveredBy(s)
  BY <1>1, <1>2, <1>5, <1>6 DEF DeliveredBy
<1>9. \A t \in Sends \ {s} : DeliveredBy(t)' = DeliveredBy(t)
  BY <1>5 DEF DeliveredBy
<1>10. /\ DeliveredBy(p.call)' = DeliveredBy(p.call) \cup {p.to.device}
       /\ p.to.device \notin DeliveredBy(p.call)
  BY <1>1, <1>8 DEF DeliveredBy
<1> QED
  BY <1>1, <1>2, <1>5, <1>6, <1>7, <1>9, <1>10

\* A backend accepts the push to the head of the list.
LEMMA AcceptedPreserves ==
  ASSUME PushInv, NEW s \in Sends, Accepted(s)
  PROVE  PushInv'
<1>1. /\ pc[s] = "await" /\ delivered' = Delivered(Current(s))
      /\ sent' = [sent EXCEPT ![s] = @ + 1]
      /\ todo' = [todo EXCEPT ![s] = Tail(@)]
      /\ pc' = [pc EXCEPT ![s] = "loop"]
      /\ UNCHANGED <<backends, regs, upserts, user, attempted, failed, stale>>
  BY DEF Accepted
<1>2. PICK d : d = Head(todo[s]).device
  OBVIOUS
<1>3. /\ d \in Devices
      /\ Current(s) \in Pushes /\ Current(s).call = s /\ Current(s).to.device = d
      /\ delivered[s][d] = 0 /\ ~Given(s, d)
  BY <1>1, <1>2, CurrentFacts
<1>4. /\ delivered' \in [Sends -> [Devices -> Nat]]
      /\ \A t \in Sends, e \in Devices : ~(t = s /\ e = d) => delivered'[t][e] = delivered[t][e]
      /\ OncePerDevice'
      /\ DeliveredBy(s)' = DeliveredBy(s) \cup {d} /\ d \notin DeliveredBy(s)
      /\ \A t \in Sends \ {s} : DeliveredBy(t)' = DeliveredBy(t)
  <2>1. PICK p \in Pushes : p = Current(s)
    BY <1>3
  <2>2. /\ delivered' = Delivered(p)
        /\ delivered[p.call][p.to.device] = 0 /\ p.call = s /\ p.to.device = d
    BY <1>1, <1>3, <2>1
  <2>3. /\ delivered' \in [Sends -> [Devices -> Nat]]
        /\ \A t \in Sends, e \in Devices : ~(t = p.call /\ e = p.to.device) =>
              delivered'[t][e] = delivered[t][e]
        /\ OncePerDevice'
        /\ DeliveredBy(p.call)' = DeliveredBy(p.call) \cup {p.to.device}
        /\ p.to.device \notin DeliveredBy(p.call)
        /\ \A t \in Sends \ {p.call} : DeliveredBy(t)' = DeliveredBy(t)
    BY <1>1, <2>2, DeliveredFacts
  <2> QED
    BY <2>2, <2>3 DEF DeliveredBy
<1>5. /\ todo' \in [Sends -> Seq(Registration)]
      /\ \A t \in Sends \ {s} : todo'[t] = todo[t]
      /\ Len(todo[s]) \in Nat /\ Len(todo'[s]) \in Nat /\ Len(todo[s]) = Len(todo'[s]) + 1
      /\ TodoInv'
      /\ \A i \in DOMAIN todo'[s] : /\ todo'[s][i].device \in Devices /\ todo'[s][i].device # d
                                    /\ delivered[s][todo'[s][i].device] = 0
                                    /\ ~Given(s, todo'[s][i].device)
  BY <1>1, <1>2, RestOfList
<1>6. /\ pc'[s] = "loop" /\ sent'[s] = sent[s] + 1
      /\ \A t \in Sends \ {s} : pc'[t] = pc[t] /\ sent'[t] = sent[t]
      /\ sent' \in [Sends -> Nat]
  BY <1>1 DEF PushInv, TypeOK
<1>7. TypeOK'
  BY <1>1, <1>4, <1>5, <1>6 DEF PushInv, TypeOK
<1>8. RegInv'
  BY <1>1 DEF PushInv, RegInv
<1>9. NewInv'
  <2>1. \A t \in Sends : pc'[t] = "new" => t \in Sends \ {s} /\ pc[t] = "new"
    BY <1>6
  <2>2. \A t \in Sends \ {s}, e \in Devices : delivered'[t][e] = delivered[t][e]
    BY <1>4
  <2>3. \A t \in Sends \ {s} : todo'[t] = todo[t] /\ sent'[t] = sent[t]
    BY <1>5, <1>6
  <2>4. UNCHANGED <<attempted, failed, stale>> /\ NewInv
    BY <1>1 DEF PushInv
  <2> QED
    BY <2>1, <2>2, <2>3, <2>4 DEF NewInv
<1>10. \A t \in Sends, e \in Devices : Given(t, e)' <=> Given(t, e)
  BY <1>1 DEF Given
<1>11. StaleInv'
  <2>1. \A p \in stale : p.call \in Sends /\ p.to.device \in Devices
    BY DEF PushInv, TypeOK, Pushes, Registration
  <2>2. \A p \in stale : ~(p.call = s /\ p.to.device = d)
    BY <1>3 DEF Given
  <2> QED
    BY <1>1, <1>4, <2>1, <2>2 DEF PushInv, StaleInv
<1>12. UntouchedInv'
  <2>1. ASSUME NEW i \in DOMAIN todo'[s]
        PROVE  delivered'[s][todo'[s][i].device] = 0 /\ ~Given(s, todo[s][i].device)'
    <3>1. PICK e \in Devices : e = todo'[s][i].device
      BY <1>5
    <3>2. e # d
      BY <1>5, <3>1
    <3> QED
      BY <1>1, <1>4, <1>5, <3>1, <3>2 DEF Given
  <2>2. ASSUME NEW t \in Sends \ {s}, NEW i \in DOMAIN todo[t], i > 1 \/ pc[t] # "mark"
        PROVE  delivered'[t][todo[t][i].device] = 0 /\ ~Given(t, todo[t][i].device)
    <3>1. todo[t][i].device \in Devices
      <4>1. todo[t] \in Seq(Registration)
        BY DEF PushInv, TypeOK
      <4>2. todo[t][i] \in Registration
        BY <4>1, LenProperties
      <4> QED
        BY <4>2 DEF Registration
    <3>2. PICK e \in Devices : e = todo[t][i].device
      BY <3>1
    <3>3. delivered[t][e] = 0 /\ ~Given(t, e)
      BY <2>2, <3>2 DEF PushInv, UntouchedInv
    <3>4. delivered'[t][e] = delivered[t][e]
      BY <1>4
    <3> QED
      BY <3>2, <3>3, <3>4
  <2> QED
    BY <1>1, <1>5, <1>6, <2>1, <2>2 DEF UntouchedInv, Given
<1>13. CountInv'
  <2>1. \A t \in Sends \ {s} : Handled(t)' = Handled(t) /\ Marking(t)' = Marking(t)
    BY <1>4, <1>6, <1>10 DEF Handled, Marking
  <2>2. Handled(s)' = Handled(s) \cup {d} /\ Marking(s) = 0 /\ Marking(s)' = 0
    <3>1. \A e \in Devices : delivered'[s][e] > 0 <=> delivered[s][e] > 0 \/ e = d
      BY <1>3, <1>4 DEF DeliveredBy
    <3> QED
      BY <1>1, <1>3, <1>6, <1>10, <3>1 DEF Handled, Marking
  <2>3. /\ Cardinality(Handled(s)') <= Cardinality(Handled(s)) + 1
        /\ Cardinality(Handled(s)) \in Nat /\ Cardinality(Handled(s)') \in Nat
    <3>1. Handled(s) \subseteq Devices /\ Handled(s)' \subseteq Devices
      BY DEF Handled
    <3> QED
      BY <2>2, <3>1, CountDevices, FS_AddElement
  <2>4. Cardinality(DeliveredBy(s)') = Cardinality(DeliveredBy(s)) + 1 /\ Cardinality(DeliveredBy(s)) \in Nat
    <3>1. DeliveredBy(s) \subseteq Devices
      BY DEF DeliveredBy
    <3> QED
      BY <1>4, <3>1, CountDevices, FS_AddElement
  <2>5. \A t \in Sends \ {s} :
           /\ sent'[t] + failed'[t] + Len(todo'[t]) = attempted'[t]
           /\ Cardinality(Handled(t)') <= sent'[t] + failed'[t] + Marking(t)'
           /\ sent'[t] <= Cardinality(DeliveredBy(t)')
    BY <1>1, <1>4, <1>5, <1>6, <2>1 DEF PushInv, CountInv
  <2>6. /\ sent[s] \in Nat /\ failed[s] \in Nat /\ attempted[s] \in Nat
        /\ sent[s] + failed[s] + Len(todo[s]) = attempted[s]
        /\ Cardinality(Handled(s)) <= sent[s] + failed[s] + 0
        /\ sent[s] <= Cardinality(DeliveredBy(s))
    BY <2>2 DEF PushInv, CountInv, TypeOK
  <2>7. /\ sent'[s] + failed'[s] + Len(todo'[s]) = attempted'[s]
        /\ Cardinality(Handled(s)') <= sent'[s] + failed'[s] + Marking(s)'
        /\ sent'[s] <= Cardinality(DeliveredBy(s)')
    <3>1. (sent[s] + 1) + failed[s] + Len(todo'[s]) = attempted[s]
      <4>1. PICK k \in Nat : k = Len(todo'[s]) /\ Len(todo[s]) = k + 1
        BY <1>5
      <4>2. PICK a \in Nat, b \in Nat, c \in Nat : a = sent[s] /\ b = failed[s] /\ c = attempted[s]
        BY <2>6
      <4>3. a + b + (k + 1) = c
        BY <2>6, <4>1, <4>2, Zenon
      <4>4. (a + 1) + b + k = c
        BY <4>3
      <4> QED
        BY <4>1, <4>2, <4>4, Zenon
    <3>2. Cardinality(Handled(s)') <= (sent[s] + 1) + failed[s] + 0
      BY <2>3, <2>6
    <3>3. sent[s] + 1 <= Cardinality(DeliveredBy(s)) + 1
      BY <2>4, <2>6
    <3> QED
      BY <1>1, <1>6, <2>2, <2>4, <3>1, <3>2, <3>3
  <2> QED
    BY <2>5, <2>7 DEF CountInv
<1> QED
  BY <1>4, <1>5, <1>7, <1>8, <1>9, <1>11, <1>12, <1>13 DEF PushInv

\* A failed iteration ends: the head of the list is counted as failed.
LEMMA MarkFailurePreserves ==
  ASSUME PushInv, NEW s \in Sends, MarkFailure(s)
  PROVE  PushInv'
<1>1. /\ pc[s] = "mark" /\ regs' = MarkedFailure(Head(todo[s]))
      /\ failed' = [failed EXCEPT ![s] = @ + 1]
      /\ todo' = [todo EXCEPT ![s] = Tail(@)]
      /\ pc' = [pc EXCEPT ![s] = "loop"]
      /\ UNCHANGED <<backends, upserts, user, attempted, sent, stale, delivered>>
  BY DEF MarkFailure
<1>2. PICK r, d : r = Head(todo[s]) /\ d = r.device
  OBVIOUS
<1>3. r \in Registration /\ d \in Devices /\ r.token \in Tokens
  <2>1. r \in Registration
    BY <1>1, <1>2, CurrentFacts
  <2> QED
    BY <1>2, <2>1 DEF Registration
<1>4. /\ todo' \in [Sends -> Seq(Registration)]
      /\ \A t \in Sends \ {s} : todo'[t] = todo[t]
      /\ Len(todo[s]) \in Nat /\ Len(todo'[s]) \in Nat /\ Len(todo[s]) = Len(todo'[s]) + 1
      /\ TodoInv'
      /\ \A i \in DOMAIN todo'[s] : /\ delivered[s][todo'[s][i].device] = 0
                                    /\ ~Given(s, todo'[s][i].device)
  BY <1>1, RestOfList
<1>5. /\ pc'[s] = "loop" /\ failed'[s] = failed[s] + 1
      /\ \A t \in Sends \ {s} : pc'[t] = pc[t] /\ failed'[t] = failed[t]
      /\ failed' \in [Sends -> Nat]
  BY <1>1 DEF PushInv, TypeOK
<1>6. regs' \in [Devices -> Registration \cup {None}] /\ RegInv'
  <2>1. regs \in [Devices -> Registration \cup {None}] /\ RegInv
    BY DEF PushInv, TypeOK
  <2>2. regs' = [regs EXCEPT ![d] = IF regs[d] = None THEN regs[d]
                                    ELSE [regs[d] EXCEPT !.failure = r.token]]
    BY <1>1, <1>2 DEF MarkedFailure
  <2>3. CASE regs[d] = None
    BY <2>1, <2>2, <2>3 DEF RegInv
  <2>4. CASE regs[d] # None
    <3>1. PICK o \in Registration : o = regs[d] /\ o.device = d
      BY <1>3, <2>1, <2>4 DEF RegInv
    <3>2. PICK n : n = [o EXCEPT !.failure = r.token]
      OBVIOUS
    <3>3. n \in Registration /\ n.device = d
      BY <1>3, <3>1, <3>2 DEF Registration
    <3>4. regs' = [regs EXCEPT ![d] = n]
      BY <2>2, <2>4, <3>1, <3>2
    <3> QED
      BY <2>1, <3>3, <3>4 DEF RegInv
  <2> QED
    BY <2>3, <2>4
<1>7. TypeOK'
  BY <1>1, <1>4, <1>5, <1>6 DEF PushInv, TypeOK
<1>8. NewInv'
  <2>1. \A t \in Sends : pc'[t] = "new" => t \in Sends \ {s} /\ pc[t] = "new"
    BY <1>5
  <2>2. \A t \in Sends \ {s} : todo'[t] = todo[t] /\ failed'[t] = failed[t]
    BY <1>4, <1>5
  <2>3. UNCHANGED <<attempted, sent, stale, delivered>> /\ NewInv
    BY <1>1 DEF PushInv
  <2> QED
    BY <2>1, <2>2, <2>3 DEF NewInv
<1>9. StaleInv' /\ OncePerDevice'
  BY <1>1 DEF PushInv, StaleInv, OncePerDevice
<1>10. UntouchedInv'
  <2>1. UNCHANGED <<stale, delivered>> /\ UntouchedInv
    BY <1>1 DEF PushInv
  <2> QED
    BY <1>4, <1>5, <2>1 DEF UntouchedInv, Given
<1>11. CountInv'
  <2>1. \A t \in Sends : DeliveredBy(t)' = DeliveredBy(t)
    BY <1>1 DEF DeliveredBy
  <2>2. \A t \in Sends : Handled(t)' = Handled(t)
    BY <1>1 DEF Handled, Given
  <2>3. \A t \in Sends \ {s} : Marking(t)' = Marking(t)
    BY <1>5 DEF Marking
  <2>4. Marking(s) = 1 /\ Marking(s)' = 0
    BY <1>1, <1>5 DEF Marking
  <2>5. Cardinality(Handled(s)) \in Nat
    BY CountDevices DEF Handled
  <2>6. /\ sent[s] \in Nat /\ failed[s] \in Nat /\ attempted[s] \in Nat
        /\ sent[s] + failed[s] + Len(todo[s]) = attempted[s]
        /\ Cardinality(Handled(s)) <= sent[s] + failed[s] + 1
    BY <2>4 DEF PushInv, CountInv, TypeOK
  <2>7. sent[s] + (failed[s] + 1) + Len(todo'[s]) = attempted[s]
    <3>1. PICK k \in Nat : k = Len(todo'[s]) /\ Len(todo[s]) = k + 1
      BY <1>4
    <3>2. PICK a \in Nat, b \in Nat, c \in Nat : a = sent[s] /\ b = failed[s] /\ c = attempted[s]
      BY <2>6
    <3>3. a + b + (k + 1) = c
      BY <2>6, <3>1, <3>2, Zenon
    <3>4. a + (b + 1) + k = c
      BY <3>3
    <3> QED
      BY <3>1, <3>2, <3>4, Zenon
  <2>8. Cardinality(Handled(s)) <= sent[s] + (failed[s] + 1) + 0
    BY <2>5, <2>6
  <2>9. UNCHANGED <<sent, attempted>> /\ CountInv
    BY <1>1 DEF PushInv
  <2>10. \A t \in Sends \ {s} :
            /\ sent'[t] + failed'[t] + Len(todo'[t]) = attempted'[t]
            /\ Cardinality(Handled(t)') <= sent'[t] + failed'[t] + Marking(t)'
            /\ sent'[t] <= Cardinality(DeliveredBy(t)')
    BY <1>4, <1>5, <2>1, <2>2, <2>3, <2>9 DEF CountInv
  <2>11. /\ sent'[s] + failed'[s] + Len(todo'[s]) = attempted'[s]
         /\ Cardinality(Handled(s)') <= sent'[s] + failed'[s] + Marking(s)'
         /\ sent'[s] <= Cardinality(DeliveredBy(s)')
    BY <1>5, <2>1, <2>2, <2>4, <2>7, <2>8, <2>9 DEF CountInv
  <2> QED
    BY <2>10, <2>11 DEF CountInv
<1> QED
  BY <1>4, <1>6, <1>7, <1>8, <1>9, <1>10, <1>11 DEF PushInv

\* Send fails without an answer to a push under way, which may be delivered.
LEMMA UnansweredPreserves ==
  ASSUME PushInv, NEW s \in Sends, Unanswered(s)
  PROVE  PushInv'
<1>1. /\ pc[s] = "await"
      /\ stale' = stale \cup {Current(s)}
      /\ pc' = [pc EXCEPT ![s] = "mark"]
      /\ UNCHANGED <<backends, regs, upserts, user, todo, attempted, sent, failed, delivered>>
  BY DEF Unanswered
<1>2. PICK p, d : p = Current(s) /\ d = Head(todo[s]).device
  OBVIOUS
<1>3. /\ d \in Devices /\ todo[s] # <<>> /\ todo[s] \in Seq(Registration)
      /\ p \in Pushes /\ p.call = s /\ p.to.device = d
      /\ delivered[s][d] = 0 /\ ~Given(s, d)
  BY <1>1, <1>2, CurrentFacts
<1>4. pc'[s] = "mark" /\ \A t \in Sends \ {s} : pc'[t] = pc[t]
  BY <1>1 DEF PushInv, TypeOK
<1>5. TypeOK'
  BY <1>1, <1>2, <1>3, <1>4 DEF PushInv, TypeOK
<1>6. RegInv' /\ TodoInv' /\ OncePerDevice'
  BY <1>1 DEF PushInv, RegInv, TodoInv, OncePerDevice
<1>7. NewInv'
  BY <1>1, <1>2, <1>3, <1>4 DEF PushInv, NewInv
<1>8. StaleInv'
  BY <1>1, <1>2, <1>3 DEF PushInv, StaleInv, Given
<1>9. \A t \in Sends, e \in Devices : Given(t, e)' <=> Given(t, e) \/ (t = s /\ e = d)
  BY <1>1, <1>2, <1>3 DEF Given
<1>10. UntouchedInv'
  <2> SUFFICES ASSUME NEW t \in Sends, NEW i \in DOMAIN todo[t], i > 1 \/ pc'[t] # "mark"
               PROVE  delivered[t][todo[t][i].device] = 0 /\ ~Given(t, todo[t][i].device)'
    BY <1>1 DEF UntouchedInv, Given
  <2>1. delivered[t][todo[t][i].device] = 0 /\ ~Given(t, todo[t][i].device)
    BY <1>1, <1>4 DEF PushInv, UntouchedInv
  <2>2. PICK e \in Devices : e = todo[t][i].device
    <3>1. todo[t] \in Seq(Registration)
      BY DEF PushInv, TypeOK
    <3>2. todo[t][i] \in Registration
      BY <3>1, LenProperties
    <3> QED
      BY <3>2 DEF Registration
  <2>3. ~(t = s /\ e = d)
    <3>1. CASE t = s
      <4>1. i > 1 /\ 1 \in DOMAIN todo[s] /\ d = todo[s][1].device
        BY <1>2, <1>3, <1>4, <3>1, RestFacts
      <4> QED
        BY <2>2, <3>1, <4>1 DEF PushInv, TodoInv
    <3> QED
      BY <3>1
  <2> QED
    BY <1>1, <1>9, <2>1, <2>2, <2>3 DEF Given
<1>11. CountInv'
  <2>1. \A t \in Sends : DeliveredBy(t)' = DeliveredBy(t)
    BY <1>1 DEF DeliveredBy
  <2>2. \A t \in Sends \ {s} : Handled(t)' = Handled(t) /\ Marking(t)' = Marking(t)
    BY <1>1, <1>4, <1>9 DEF Handled, Marking
  <2>3. Handled(s)' = Handled(s) \cup {d} /\ Marking(s) = 0 /\ Marking(s)' = 1
    BY <1>1, <1>3, <1>4, <1>9 DEF Handled, Marking
  <2>4. /\ Cardinality(Handled(s)') <= Cardinality(Handled(s)) + 1
        /\ Cardinality(Handled(s)) \in Nat /\ Cardinality(Handled(s)') \in Nat
    <3>1. Handled(s) \subseteq Devices /\ Handled(s)' \subseteq Devices
      BY DEF Handled
    <3> QED
      BY <2>3, <3>1, CountDevices, FS_AddElement
  <2>5. /\ sent[s] \in Nat /\ failed[s] \in Nat
        /\ Cardinality(Handled(s)) <= sent[s] + failed[s] + 0
    BY <2>3 DEF PushInv, CountInv, TypeOK
  <2>6. Cardinality(Handled(s)') <= sent[s] + failed[s] + 1
    BY <2>4, <2>5
  <2>7. UNCHANGED <<sent, failed, todo, attempted>> /\ CountInv
    BY <1>1 DEF PushInv
  <2> QED
    BY <2>1, <2>2, <2>3, <2>6, <2>7 DEF CountInv
<1> QED
  BY <1>5, <1>6, <1>7, <1>8, <1>10, <1>11 DEF PushInv

\* The late answer to a push given up: the device may get it now, the first
\* and the last time.
LEMMA LateAnswerPreserves ==
  ASSUME PushInv, NEW p \in stale, LateAnswer(p)
  PROVE  PushInv'
<1>1. /\ stale' = stale \ {p}
      /\ delivered' \in {delivered, Delivered(p)}
      /\ UNCHANGED <<backends, regs, upserts, pc, user, todo, attempted, sent, failed>>
  BY DEF LateAnswer, callVars
<1>2. PICK s, d : s = p.call /\ d = p.to.device
  OBVIOUS
<1>3. /\ p \in Pushes /\ s \in Sends /\ d \in Devices
      /\ delivered[s][d] = 0 /\ Given(s, d)
  BY <1>2 DEF PushInv, TypeOK, StaleInv, Pushes, Registration, Given
<1>4. /\ delivered' \in [Sends -> [Devices -> Nat]]
      /\ \A t \in Sends, e \in Devices : ~(t = s /\ e = d) => delivered'[t][e] = delivered[t][e]
      /\ OncePerDevice'
      /\ \A t \in Sends \ {s} : DeliveredBy(t)' = DeliveredBy(t)
      /\ DeliveredBy(s) \subseteq DeliveredBy(s)'
  <2>1. CASE delivered' = delivered
    BY <1>1, <2>1 DEF PushInv, TypeOK, OncePerDevice, DeliveredBy
  <2>2. CASE delivered' = Delivered(p)
    <3>1. delivered[p.call][p.to.device] = 0
      BY <1>2, <1>3
    <3>2. /\ delivered' \in [Sends -> [Devices -> Nat]]
          /\ \A t \in Sends, e \in Devices : ~(t = p.call /\ e = p.to.device) =>
                delivered'[t][e] = delivered[t][e]
          /\ OncePerDevice'
          /\ DeliveredBy(p.call)' = DeliveredBy(p.call) \cup {p.to.device}
          /\ \A t \in Sends \ {p.call} : DeliveredBy(t)' = DeliveredBy(t)
      BY <1>1, <1>3, <2>2, <3>1, DeliveredFacts
    <3> QED
      BY <1>2, <3>2 DEF DeliveredBy
  <2> QED
    BY <1>1, <2>1, <2>2
<1>5. TypeOK'
  BY <1>1, <1>4 DEF PushInv, TypeOK
<1>6. RegInv' /\ TodoInv'
  BY <1>1 DEF PushInv, RegInv, TodoInv
<1>7. NewInv'
  <2>1. \A t \in Sends : pc[t] = "new" => t # s
    BY <1>2 DEF PushInv, NewInv
  <2>2. UNCHANGED <<pc, todo, attempted, sent, failed>> /\ NewInv
    BY <1>1 DEF PushInv
  <2>3. \A t \in Sends \ {s}, e \in Devices : delivered'[t][e] = delivered[t][e]
    BY <1>4
  <2> QED
    BY <1>1, <2>1, <2>2, <2>3 DEF NewInv
<1>8. StaleInv'
  <2>1. \A q \in stale : q.call \in Sends /\ q.to.device \in Devices
    BY DEF PushInv, TypeOK, Pushes, Registration
  <2>2. \A q \in stale' : q \in stale /\ ~(q.call = s /\ q.to.device = d)
    BY <1>1, <1>2 DEF PushInv, StaleInv
  <2> QED
    BY <1>1, <1>4, <2>1, <2>2 DEF PushInv, StaleInv
<1>9. \A t \in Sends, e \in Devices : Given(t, e)' => Given(t, e)
  BY <1>1 DEF Given
<1>10. UntouchedInv'
  <2> SUFFICES ASSUME NEW t \in Sends, NEW i \in DOMAIN todo[t], i > 1 \/ pc[t] # "mark"
               PROVE  delivered'[t][todo[t][i].device] = 0 /\ ~Given(t, todo[t][i].device)'
    BY <1>1 DEF UntouchedInv, Given
  <2>1. delivered[t][todo[t][i].device] = 0 /\ ~Given(t, todo[t][i].device)
    BY DEF PushInv, UntouchedInv
  <2>2. PICK e \in Devices : e = todo[t][i].device
    <3>1. todo[t] \in Seq(Registration)
      BY DEF PushInv, TypeOK
    <3>2. todo[t][i] \in Registration
      BY <3>1, LenProperties
    <3> QED
      BY <3>2 DEF Registration
  <2>3. ~(t = s /\ e = d)
    BY <1>3, <2>1, <2>2
  <2> QED
    BY <1>1, <1>4, <1>9, <2>1, <2>2, <2>3 DEF Given
<1>11. CountInv'
  <2>1. \A t \in Sends : Marking(t)' = Marking(t)
    BY <1>1 DEF Marking
  <2>2. \A t \in Sends : Handled(t)' \subseteq Handled(t)
    BY <1>3, <1>4, <1>9 DEF Handled
  <2>3. ASSUME NEW t \in Sends
        PROVE  /\ Cardinality(Handled(t)') <= Cardinality(Handled(t))
               /\ Cardinality(Handled(t)) \in Nat /\ Cardinality(Handled(t)') \in Nat
    <3>1. Handled(t) \subseteq Devices /\ Handled(t)' \subseteq Devices
      BY DEF Handled
    <3> QED
      BY <2>2, <3>1, CountDevices
  <2>4. /\ Cardinality(DeliveredBy(s)) <= Cardinality(DeliveredBy(s)')
        /\ Cardinality(DeliveredBy(s)) \in Nat /\ Cardinality(DeliveredBy(s)') \in Nat
    <3>1. DeliveredBy(s) \subseteq Devices /\ DeliveredBy(s)' \subseteq Devices
      BY DEF DeliveredBy
    <3> QED
      BY <1>4, <3>1, CountDevices
  <2>5. UNCHANGED <<sent, failed, todo, attempted>> /\ CountInv
    BY <1>1 DEF PushInv
  <2>6. \A t \in Sends : sent[t] \in Nat /\ failed[t] \in Nat /\ Marking(t) \in {0, 1}
    BY DEF PushInv, TypeOK, Marking
  <2>7. \A t \in Sends : Cardinality(Handled(t)') <= sent[t] + failed[t] + Marking(t)
    BY <2>3, <2>5, <2>6 DEF CountInv
  <2>8. \A t \in Sends : sent[t] <= Cardinality(DeliveredBy(t)')
    BY <1>4, <2>4, <2>5, <2>6 DEF CountInv
  <2> QED
    BY <2>1, <2>5, <2>7, <2>8 DEF CountInv
<1> QED
  BY <1>4, <1>5, <1>6, <1>7, <1>8, <1>10, <1>11 DEF PushInv

----------------------------------------------------------------------------
(* The results, for the handlers and for every operation of the registry. *)

\* Every step of pushSend, of the providers and of the registry keeps PushInv.
THEOREM PushInvariant == ApiSpec => []PushInv
<1>1. PushInv /\ [ApiNext]_vars => PushInv'
  BY QuietSteps, SnapshotPreserves, AcceptedPreserves, MarkFailurePreserves,
     UnansweredPreserves, LateAnswerPreserves DEF ApiNext, Next
<1> QED
  BY <1>1, InitPushInv, PTL DEF ApiSpec

\* A call waits for a provider, or marks a failure, only with a device in hand.
THEOREM PushTyped == ApiSpec => []TypeOK
<1>1. PushInv => TypeOK
  BY DEF PushInv
<1> QED
  BY <1>1, PushInvariant, PTL

\* Each device of the snapshot is counted once, as sent or as failed;
\* devices_sent is never too high, and the two counts together are never too
\* low, although an error does not say that a push was not delivered.
THEOREM PushReportAddsUp == ApiSpec => []ReportAddsUp
<1>1. PushInv => ReportAddsUp
  <2> SUFFICES ASSUME PushInv, NEW s \in Sends
               PROVE  LET n == Cardinality(DeliveredBy(s))
                      IN /\ sent[s] + failed[s] + Len(todo[s]) = attempted[s]
                         /\ sent[s] <= n
                         /\ n <= sent[s] + failed[s] + IF pc[s] = "mark" THEN 1 ELSE 0
    BY DEF ReportAddsUp
  <2>1. Handled(s) \subseteq Devices /\ DeliveredBy(s) \subseteq Handled(s)
    BY DEF Handled, DeliveredBy
  <2>2. /\ Cardinality(DeliveredBy(s)) <= Cardinality(Handled(s))
        /\ Cardinality(DeliveredBy(s)) \in Nat /\ Cardinality(Handled(s)) \in Nat
    BY <2>1, CountDevices
  <2>3. /\ sent[s] \in Nat /\ failed[s] \in Nat /\ Marking(s) \in {0, 1}
        /\ Cardinality(Handled(s)) <= sent[s] + failed[s] + Marking(s)
    BY DEF PushInv, TypeOK, CountInv, Marking
  <2>4. Cardinality(DeliveredBy(s)) <= sent[s] + failed[s] + Marking(s)
    BY <2>2, <2>3
  <2> QED
    BY <2>4 DEF PushInv, CountInv, Marking
<1> QED
  BY <1>1, PushInvariant, PTL

\* No device gets a notification of one call twice, also when a push that was
\* counted as failed is delivered.
THEOREM PushOncePerDevice == ApiSpec => []OncePerDevice
<1>1. PushInv => OncePerDevice
  BY DEF PushInv
<1> QED
  BY <1>1, PushInvariant, PTL
=============================================================================
