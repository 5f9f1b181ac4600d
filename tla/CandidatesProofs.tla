-------------------------- MODULE CandidatesProofs --------------------------
(***************************************************************************)
(* Trickled candidates are handed out once and in order for any numbers of *)
(* candidates, peers and polls and any capacity of the queues.             *)
(*                                                                         *)
(* CandInv is the inductive invariant.  PlaceInv says where an accepted    *)
(* candidate is, without counting; QueueInv that a queue is what the       *)
(* receives have left of the candidates that entered it; and ListInv that  *)
(* a list holds candidates taken before everything still in the queue,     *)
(* which is why the next one received is behind all of them.               *)
(***************************************************************************)
EXTENDS Candidates, FiniteSetTheorems, SequenceTheorems, TLAPS

InQueue(x, s) == x \in Range(candidateQueues[s])
InList(x, p) == x \in Range(out[p])

\* The places of a candidate exclude each other.
PlaceInv ==
  /\ \A x \in Cands : pc[x] \in {"send", "204"} => to[x] \in Peers
  /\ \A x \in Cands, s \in Peers : InQueue(x, s) =>
        pc[x] = "204" /\ to[x] = s /\ got[x] = None
  /\ \A x \in Cands, p \in Polls : InList(x, p) =>
        pc[x] = "204" /\ to[x] = poll[p] /\ got[x] = None
  /\ \A x \in Cands, s \in Peers, p \in Polls : ~(InQueue(x, s) /\ InList(x, p))
  /\ \A x \in Cands, p, q \in Polls : InList(x, p) /\ InList(x, q) => p = q
  /\ \A x \in Cands : got[x] # None =>
        pc[x] = "204" /\ (got[x] = "lost" \/ <<got[x], to[x]>> \in Asks)
  /\ \A x \in Cands : pc[x] = "204" =>
        \/ InQueue(x, to[x])
        \/ \E p \in Polls : InList(x, p)
        \/ got[x] # None

\* A poll asks with an id its peer asks with.
AskInv == \A p \in Polls : poll[p] # None => <<Of[p], poll[p]>> \in Asks

\* Candidates of the queue of s that have been received.
TakenFrom(s) == Len(order[s]) - Len(candidateQueues[s])

\* A queue holds no candidate twice and is the end of what entered it.
QueueInv ==
  \A s \in Peers :
     /\ \A j, k \in DOMAIN candidateQueues[s] :
           candidateQueues[s][j] = candidateQueues[s][k] => j = k
     /\ Len(candidateQueues[s]) <= Len(order[s])
     /\ \A k \in DOMAIN candidateQueues[s] :
           candidateQueues[s][k] = order[s][TakenFrom(s) + k]

\* A poll's list holds candidates received from its queue.
ListInv ==
  \A p \in Polls : \A j \in DOMAIN out[p] :
     \E m \in 1..TakenFrom(poll[p]) : order[poll[p]][m] = out[p][j]

\* A poll's list is ordered as the candidates entered.
ListOrdered ==
  \A p \in Polls : \A j, k \in DOMAIN out[p] :
     j < k => \E m, n \in DOMAIN order[poll[p]] :
                 m < n /\ order[poll[p]][m] = out[p][j] /\ order[poll[p]][n] = out[p][k]

CandInv ==
  /\ TypeOK
  /\ PlaceInv
  /\ AskInv
  /\ QueueInv
  /\ ListInv
  /\ ListOrdered

----------------------------------------------------------------------------
(* Sequences. *)

\* What a send does to a queue.
LEMMA AppendFacts ==
  ASSUME NEW S, NEW q \in Seq(S), NEW x \in S
  PROVE  /\ Append(q, x) \in Seq(S)
         /\ Len(q) \in Nat /\ Len(Append(q, x)) = Len(q) + 1
         /\ DOMAIN q = 1..Len(q) /\ DOMAIN Append(q, x) = 1..(Len(q) + 1)
         /\ \A i \in 1..Len(q) : Append(q, x)[i] = q[i]
         /\ Append(q, x)[Len(q) + 1] = x
         /\ Range(Append(q, x)) = Range(q) \cup {x}
<1>1. /\ Append(q, x) \in Seq(S)
      /\ Len(q) \in Nat /\ Len(Append(q, x)) = Len(q) + 1
      /\ DOMAIN q = 1..Len(q) /\ DOMAIN Append(q, x) = 1..(Len(q) + 1)
      /\ \A i \in 1..Len(q) : Append(q, x)[i] = q[i]
      /\ Append(q, x)[Len(q) + 1] = x
  BY AppendProperties, LenProperties
<1>2. Range(Append(q, x)) = Range(q) \cup {x}
  BY <1>1 DEF Range
<1> QED
  BY <1>1, <1>2

\* What a receive does to a queue that holds nothing twice.
LEMMA TailFacts ==
  ASSUME NEW S, NEW q \in Seq(S), q # <<>>,
         \A j, k \in DOMAIN q : q[j] = q[k] => j = k
  PROVE  /\ Head(q) \in S /\ Head(q) = q[1] /\ Tail(q) \in Seq(S)
         /\ Len(q) \in Nat \ {0} /\ Len(Tail(q)) = Len(q) - 1
         /\ DOMAIN q = 1..Len(q) /\ DOMAIN Tail(q) = 1..(Len(q) - 1)
         /\ \A i \in 1..(Len(q) - 1) : Tail(q)[i] = q[i + 1]
         /\ \A j, k \in DOMAIN Tail(q) : Tail(q)[j] = Tail(q)[k] => j = k
         /\ Range(Tail(q)) = Range(q) \ {Head(q)}
         /\ Head(q) \in Range(q)
<1>1. /\ Head(q) \in S /\ Head(q) = q[1] /\ Tail(q) \in Seq(S)
      /\ Len(q) \in Nat \ {0} /\ Len(Tail(q)) = Len(q) - 1
      /\ DOMAIN q = 1..Len(q) /\ DOMAIN Tail(q) = 1..(Len(q) - 1)
      /\ \A i \in 1..(Len(q) - 1) : Tail(q)[i] = q[i + 1]
  BY HeadTailProperties, LenProperties
<1>2. \A j, k \in DOMAIN Tail(q) : Tail(q)[j] = Tail(q)[k] => j = k
  <2> SUFFICES ASSUME NEW j \in DOMAIN Tail(q), NEW k \in DOMAIN Tail(q), Tail(q)[j] = Tail(q)[k]
               PROVE  j = k
    OBVIOUS
  <2>1. j + 1 \in DOMAIN q /\ k + 1 \in DOMAIN q /\ q[j + 1] = q[k + 1]
    BY <1>1
  <2>2. j + 1 = k + 1
    BY <2>1
  <2> QED
    BY <1>1, <2>2
<1>3. \A d \in Range(Tail(q)) : d \in Range(q) /\ d # Head(q)
  <2> SUFFICES ASSUME NEW i \in DOMAIN Tail(q)
               PROVE  Tail(q)[i] \in Range(q) /\ Tail(q)[i] # Head(q)
    BY DEF Range
  <2>1. i + 1 \in DOMAIN q /\ 1 \in DOMAIN q /\ i + 1 # 1 /\ Tail(q)[i] = q[i + 1]
    BY <1>1
  <2> QED
    BY <1>1, <2>1 DEF Range
<1>4. \A d \in Range(q) : d # Head(q) => d \in Range(Tail(q))
  <2> SUFFICES ASSUME NEW i \in DOMAIN q, q[i] # Head(q)
               PROVE  q[i] \in Range(Tail(q))
    BY DEF Range
  <2>1. PICK m \in 1..(Len(q) - 1) : i = m + 1
    <3>1. i \in Nat /\ 1 < i /\ i <= Len(q)
      BY <1>1
    <3>2. i - 1 \in 1..(Len(q) - 1) /\ i = (i - 1) + 1
      BY <1>1, <3>1
    <3> QED
      BY <3>2
  <2> QED
    BY <1>1, <2>1 DEF Range
<1>5. Head(q) \in Range(q)
  BY <1>1 DEF Range
<1> QED
  BY <1>1, <1>2, <1>3, <1>4, <1>5

\* A suffix, by its positions.
LEMMA SuffixByPosition ==
  ASSUME NEW S, NEW q \in Seq(S), NEW r \in Seq(S), Len(q) <= Len(r),
         \A k \in 1..Len(q) : q[k] = r[(Len(r) - Len(q)) + k]
  PROVE  IsSuffix(q, r)
<1> DEFINE a == Reverse(q)
           b == Reverse(r)
<1>1. Len(q) \in Nat /\ Len(r) \in Nat
  BY LenProperties
<1>2. Len(a) = Len(q) /\ Len(b) = Len(r)
  BY <1>1 DEF Reverse
<1>3. ASSUME NEW i \in 1..Len(q)
      PROVE  a[i] = b[i]
  <2>1. PICK k \in 1..Len(q) : k = (Len(q) - i) + 1
    <3>1. (Len(q) - i) + 1 \in 1..Len(q)
      BY <1>1
    <3> QED
      BY <3>1
  <2>2. a[i] = q[k] /\ b[i] = r[(Len(r) - i) + 1]
    BY <1>1, <2>1 DEF Reverse
  <2>3. (Len(r) - Len(q)) + k = (Len(r) - i) + 1
    BY <1>1, <2>1
  <2> QED
    BY <2>2, <2>3
<1>4. SubSeq(a, 1, Len(a)) = SubSeq(b, 1, Len(a))
  BY <1>1, <1>2, <1>3
<1> QED
  BY <1>1, <1>2, <1>4 DEF IsSuffix, IsPrefix

----------------------------------------------------------------------------
(* Initially, and steps that move no candidate. *)

LEMMA InitCandInv == Init => CandInv
<1> SUFFICES ASSUME Init PROVE CandInv
  OBVIOUS
<1> USE CandidatesAssumption DEF Init
<1>1. TypeOK
  BY DEF TypeOK
<1>2. \A s \in Peers : candidateQueues[s] = <<>> /\ order[s] = <<>>
  OBVIOUS
<1>3. \A p \in Polls : out[p] = <<>>
  OBVIOUS
<1>4. PlaceInv
  BY <1>2, <1>3 DEF PlaceInv, InQueue, InList, Range
<1>5. QueueInv
  BY <1>2 DEF QueueInv
<1>6. ListInv /\ ListOrdered /\ AskInv
  BY <1>3 DEF ListInv, ListOrdered, AskInv
<1> QED
  BY <1>1, <1>4, <1>5, <1>6 DEF CandInv

\* A step that accepts, receives and hands over no candidate keeps CandInv.
LEMMA QuietPreserves ==
  ASSUME CandInv, TypeOK',
         UNCHANGED <<candidateQueues, out, order, got>>,
         \A x \in Cands : pc'[x] = "204" <=> pc[x] = "204",
         \A x \in Cands : pc[x] = "204" => to'[x] = to[x],
         \A x \in Cands : pc'[x] \in {"send", "204"} => to'[x] \in Peers,
         \A p \in Polls : out[p] # <<>> => poll'[p] = poll[p],
         AskInv'
  PROVE  CandInv'
<1> USE DEF CandInv
<1>1. \A p \in Polls : (DOMAIN out[p] # {} \/ Range(out[p]) # {}) => poll'[p] = poll[p]
  BY DEF Range, TypeOK
<1>2. PlaceInv'
  <2>1. /\ \A x \in Cands, s \in Peers : InQueue(x, s)' <=> InQueue(x, s)
        /\ \A x \in Cands, p \in Polls : InList(x, p)' <=> InList(x, p)
    BY DEF InQueue, InList
  <2>2. \A x \in Cands, p \in Polls : InList(x, p) => poll'[p] = poll[p]
    BY <1>1 DEF InList
  <2>3. /\ \A x \in Cands, s \in Peers : InQueue(x, s)' => pc'[x] = "204" /\ to'[x] = s /\ got'[x] = None
        /\ \A x \in Cands, p \in Polls : InList(x, p)' => pc'[x] = "204" /\ to'[x] = poll'[p] /\ got'[x] = None
    BY <2>1, <2>2 DEF PlaceInv
  <2>4. \A x \in Cands : got'[x] # None =>
           pc'[x] = "204" /\ (got'[x] = "lost" \/ <<got'[x], to'[x]>> \in Asks)
    BY DEF PlaceInv
  <2>5. ASSUME NEW x \in Cands, pc'[x] = "204"
        PROVE  InQueue(x, to[x])' \/ (\E p \in Polls : InList(x, p)') \/ got'[x] # None
    BY <2>1, <2>5 DEF PlaceInv, InQueue
  <2> QED
    BY <2>1, <2>3, <2>4, <2>5 DEF PlaceInv
<1>3. QueueInv'
  BY DEF QueueInv, TakenFrom
<1>4. ListInv'
  <2>1. ASSUME NEW o \in Polls, NEW j \in DOMAIN out[o]
        PROVE  \E m \in 1..TakenFrom(poll'[o]) : order[poll'[o]][m] = out[o][j]
    <3>1. poll'[o] = poll[o]
      BY <1>1
    <3>2. \E m \in 1..TakenFrom(poll[o]) : order[poll[o]][m] = out[o][j]
      BY DEF ListInv
    <3> QED
      BY <3>1, <3>2
  <2>2. \A o \in Polls : TakenFrom(poll[o])' = TakenFrom(poll'[o])
    BY DEF TakenFrom
  <2> QED
    BY <2>1, <2>2 DEF ListInv
<1>5. ListOrdered'
  BY <1>1 DEF ListOrdered
<1> QED
  BY <1>2, <1>3, <1>4, <1>5

\* Those steps: new posts, timeouts, new polls and broken connections.
LEMMA QuietSteps ==
  ASSUME CandInv,
         \/ \E x \in Cands : RejectPost(x) \/ EnqueueTimeout(x)
         \/ \E x \in Cands, s \in Peers : SignalingPostCandidate(x, s)
         \/ \E p \in Polls, s \in Peers : SignalingPollCandidates(p, s)
         \/ \E p \in Polls : PollEmpty(p) \/ Disconnect(p)
         \/ UNCHANGED vars
  PROVE  CandInv'
<1> USE DEF CandInv
<1>1. ASSUME NEW x \in Cands, RejectPost(x) \/ EnqueueTimeout(x)
      PROVE  CandInv'
  <2>1. TypeOK'
    BY <1>1 DEF RejectPost, EnqueueTimeout, TypeOK
  <2>2. /\ UNCHANGED <<candidateQueues, out, order, got, to, poll>>
        /\ pc[x] \in {"new", "send"} /\ pc'[x] \in {"400", "503"}
        /\ \A y \in Cands \ {x} : pc'[y] = pc[y]
    BY <1>1 DEF RejectPost, EnqueueTimeout, TypeOK
  <2> QED
    BY <2>1, <2>2, QuietPreserves DEF PlaceInv, AskInv
<1>2. ASSUME NEW x \in Cands, NEW s \in Peers, SignalingPostCandidate(x, s)
      PROVE  CandInv'
  <2>1. TypeOK'
    BY <1>2 DEF SignalingPostCandidate, TypeOK
  <2>2. /\ UNCHANGED <<candidateQueues, out, order, got, poll>>
        /\ pc[x] = "new" /\ pc'[x] = "send" /\ to'[x] = s
        /\ \A y \in Cands \ {x} : pc'[y] = pc[y] /\ to'[y] = to[y]
    BY <1>2 DEF SignalingPostCandidate, TypeOK
  <2> QED
    BY <2>1, <2>2, QuietPreserves DEF PlaceInv, AskInv
<1>3. ASSUME NEW p \in Polls, NEW s \in Peers, SignalingPollCandidates(p, s)
      PROVE  CandInv'
  <2>1. TypeOK'
    BY <1>3, CandidatesAssumption DEF SignalingPollCandidates, TypeOK
  <2>2. \A q \in Polls : out[q] # <<>> => poll'[q] = poll[q]
    BY <1>3 DEF SignalingPollCandidates, TypeOK
  <2>3. AskInv'
    BY <1>3 DEF SignalingPollCandidates, TypeOK, AskInv
  <2> QED
    BY <1>3, <2>1, <2>2, <2>3, QuietPreserves DEF SignalingPollCandidates, PlaceInv
<1>4. ASSUME NEW p \in Polls, PollEmpty(p) \/ Disconnect(p)
      PROVE  CandInv'
  <2>1. UNCHANGED <<candidateQueues, pc, to, order, got, out>>
    BY <1>4 DEF PollEmpty, Disconnect, Return, TypeOK
  <2>2. /\ poll' \in [Polls -> Peers \cup {None}] /\ gone' \subseteq Polls
        /\ \A q \in Polls : poll'[q] = None => out[q] = <<>> /\ q \notin gone'
        /\ \A q \in Polls : out[q] # <<>> => poll'[q] = poll[q]
    BY <1>4 DEF PollEmpty, Disconnect, Return, TypeOK
  <2>3. TypeOK'
    BY <2>1, <2>2 DEF TypeOK
  <2>4. AskInv'
    BY <1>4 DEF PollEmpty, Disconnect, Return, TypeOK, AskInv
  <2> QED
    BY <2>1, <2>2, <2>3, <2>4, QuietPreserves DEF PlaceInv
<1>5. CASE UNCHANGED vars
  <2>1. TypeOK'
    BY <1>5 DEF vars, TypeOK
  <2> QED
    BY <1>5, <2>1, QuietPreserves DEF vars, PlaceInv, AskInv
<1> QED
  BY <1>1, <1>2, <1>3, <1>4, <1>5

----------------------------------------------------------------------------
(* Steps that move a candidate. *)

\* How many candidates were received from a queue, in numbers.
LEMMA TakenFacts ==
  ASSUME TypeOK, QueueInv, NEW s \in Peers
  PROVE  /\ TakenFrom(s) \in Nat
         /\ 1..TakenFrom(s) \subseteq DOMAIN order[s]
         /\ \A m \in DOMAIN order[s] : m \in Nat
<1>1. PICK n \in Nat, k \in Nat : n = Len(order[s]) /\ k = Len(candidateQueues[s])
  BY LenProperties DEF TypeOK
<1>2. k <= n /\ DOMAIN order[s] = 1..n
  BY <1>1, LenProperties DEF TypeOK, QueueInv
<1>3. TakenFrom(s) = n - k
  BY <1>1 DEF TakenFrom
<1> QED
  BY <1>2, <1>3

\* A candidate enters a queue: it was nowhere before.
LEMMA EnqueuePreserves ==
  ASSUME CandInv, NEW x \in Cands, Enqueue(x)
  PROVE  CandInv'
<1> USE DEF CandInv
<1>1. PICK s \in Peers : s = to[x]
  BY DEF Enqueue, PlaceInv
<1>2. PICK q, r : q = candidateQueues[s] /\ r = order[s]
  OBVIOUS
<1>3. PICK q1, r1 : q1 = Append(q, x) /\ r1 = Append(r, x)
  OBVIOUS
<1>4. q \in Seq(Cands) /\ r \in Seq(Cands) /\ Len(q) < QueueCap
  BY <1>1, <1>2 DEF Enqueue, TypeOK
<1>5. /\ pc[x] = "send"
      /\ pc' = [pc EXCEPT ![x] = "204"]
      /\ candidateQueues' = [candidateQueues EXCEPT ![s] = q1]
      /\ order' = [order EXCEPT ![s] = r1]
      /\ UNCHANGED <<to, poll, out, gone, got>>
  BY <1>1, <1>2, <1>3 DEF Enqueue, Append204
<1>6. /\ candidateQueues'[s] = q1 /\ order'[s] = r1
      /\ \A t \in Peers \ {s} : candidateQueues'[t] = candidateQueues[t] /\ order'[t] = order[t]
      /\ pc'[x] = "204" /\ \A y \in Cands \ {x} : pc'[y] = pc[y]
  BY <1>5 DEF TypeOK
<1>7. PICK n \in Nat, m \in Nat : n = Len(q) /\ m = Len(r)
  BY <1>4, LenProperties
<1>8. /\ q1 \in Seq(Cands) /\ Len(q1) = n + 1
      /\ DOMAIN q = 1..n /\ DOMAIN q1 = 1..(n + 1)
      /\ \A i \in 1..n : q1[i] = q[i]
      /\ q1[n + 1] = x
      /\ Range(q1) = Range(q) \cup {x}
  BY <1>3, <1>4, <1>7, AppendFacts
<1>9. /\ r1 \in Seq(Cands) /\ Len(r1) = m + 1
      /\ DOMAIN r = 1..m /\ DOMAIN r1 = 1..(m + 1)
      /\ \A i \in 1..m : r1[i] = r[i]
      /\ r1[m + 1] = x
  BY <1>3, <1>4, <1>7, AppendFacts
<1>10. /\ \A t \in Peers : ~InQueue(x, t)
       /\ \A p \in Polls : ~InList(x, p)
       /\ got[x] = None
  BY <1>5 DEF PlaceInv
<1>11. TypeOK'
  <2>1. candidateQueues' \in [Peers -> Seq(Cands)] /\ order' \in [Peers -> Seq(Cands)]
    BY <1>5, <1>8, <1>9 DEF TypeOK
  <2>2. \A t \in Peers : Len(candidateQueues'[t]) <= QueueCap
    <3>1. n + 1 <= QueueCap
      BY <1>4, <1>7, CandidatesAssumption
    <3> QED
      BY <1>6, <1>8, <3>1 DEF TypeOK
  <2> QED
    BY <1>5, <2>1, <2>2 DEF TypeOK
<1>12. \A y \in Cands, t \in Peers : InQueue(y, t)' <=> InQueue(y, t) \/ (y = x /\ t = s)
  <2>1. \A y \in Cands, t \in Peers \ {s} : InQueue(y, t)' <=> InQueue(y, t)
    BY <1>6 DEF InQueue
  <2>2. \A y \in Cands : InQueue(y, s)' <=> InQueue(y, s) \/ y = x
    BY <1>2, <1>6, <1>8 DEF InQueue
  <2> QED
    BY <2>1, <2>2
<1>13. \A y \in Cands, p \in Polls : InList(y, p)' <=> InList(y, p)
  BY <1>5 DEF InList
<1>14. PlaceInv'
  <2>1. \A y \in Cands : pc'[y] = "204" <=> pc[y] = "204" \/ y = x
    BY <1>6
  <2>2. \A y \in Cands : pc'[y] \in {"send", "204"} => to[y] \in Peers
    BY <1>1, <1>6 DEF PlaceInv
  <2>3. ASSUME NEW y \in Cands, pc'[y] = "204"
        PROVE  InQueue(y, to[y])' \/ (\E p \in Polls : InList(y, p)') \/ got'[y] # None
    <3>1. PICK t \in Peers : t = to[y]
      BY <2>2, <2>3
    <3>2. (y = x /\ t = s) \/ InQueue(y, t) \/ (\E p \in Polls : InList(y, p)) \/ got[y] # None
      BY <1>1, <2>1, <2>3, <3>1 DEF PlaceInv
    <3>3. InQueue(y, t)' \/ (\E p \in Polls : InList(y, p)') \/ got[y] # None
      BY <1>12, <1>13, <3>2
    <3> QED
      BY <1>5, <3>1, <3>3 DEF InQueue
  <2> QED
    BY <1>1, <1>5, <1>10, <1>12, <1>13, <2>1, <2>2, <2>3 DEF PlaceInv, InQueue
<1>15. /\ TakenFrom(s) = m - n /\ TakenFrom(s)' = m - n
       /\ \A t \in Peers : TakenFrom(t)' = TakenFrom(t)
  <2>1. (m + 1) - (n + 1) = m - n
    OBVIOUS
  <2>2. TakenFrom(s) = m - n /\ TakenFrom(s)' = (m + 1) - (n + 1)
    BY <1>2, <1>6, <1>7, <1>8, <1>9 DEF TakenFrom
  <2>3. \A t \in Peers \ {s} : TakenFrom(t)' = TakenFrom(t)
    BY <1>6 DEF TakenFrom
  <2> QED
    BY <2>1, <2>2, <2>3
<1>16. /\ n <= m
       /\ \A k \in 1..n : q[k] = r[(m - n) + k]
       /\ \A j, k \in 1..n : q[j] = q[k] => j = k
  <2>1. \A k \in 1..n : q[k] = r[TakenFrom(s) + k]
    BY <1>2, <1>8 DEF QueueInv
  <2>2. n <= m /\ \A j, k \in 1..n : q[j] = q[k] => j = k
    BY <1>2, <1>7, <1>8 DEF QueueInv
  <2> QED
    BY <1>15, <2>1, <2>2
<1>17. \A k \in 1..n : q[k] # x
  BY <1>2, <1>8, <1>10 DEF InQueue, Range
<1>18. QueueInv'
  <2>1. \A j, k \in 1..(n + 1) : q1[j] = q1[k] => j = k
    <3>1. \A j \in 1..(n + 1) : j \in 1..n \/ j = n + 1
      OBVIOUS
    <3> QED
      BY <1>8, <1>16, <1>17, <3>1
  <2>2. ASSUME NEW k \in 1..(n + 1)
        PROVE  q1[k] = r1[(m - n) + k]
    <3>1. CASE k \in 1..n
      <4>1. (m - n) + k \in 1..m
        BY <1>16, <3>1
      <4> QED
        BY <1>8, <1>9, <1>16, <3>1, <4>1
    <3>2. CASE k = n + 1
      <4>1. (m - n) + k = m + 1
        BY <3>2
      <4>2. r1[(m - n) + k] = r1[m + 1]
        BY <4>1
      <4> QED
        BY <1>8, <1>9, <3>2, <4>2
    <3> QED
      BY <3>1, <3>2
  <2>3. n + 1 <= m + 1
    BY <1>16
  <2>4. /\ \A j, k \in DOMAIN candidateQueues'[s] : candidateQueues'[s][j] = candidateQueues'[s][k] => j = k
        /\ Len(candidateQueues'[s]) <= Len(order'[s])
        /\ \A k \in DOMAIN candidateQueues'[s] :
              candidateQueues'[s][k] = order'[s][TakenFrom(s)' + k]
    BY <1>6, <1>8, <1>9, <1>15, <2>1, <2>2, <2>3
  <2>5. ASSUME NEW t \in Peers \ {s}
        PROVE  /\ \A j, k \in DOMAIN candidateQueues'[t] : candidateQueues'[t][j] = candidateQueues'[t][k] => j = k
               /\ Len(candidateQueues'[t]) <= Len(order'[t])
               /\ \A k \in DOMAIN candidateQueues'[t] :
                     candidateQueues'[t][k] = order'[t][TakenFrom(t)' + k]
    BY <1>6, <1>15 DEF QueueInv
  <2> QED
    BY <2>4, <2>5 DEF QueueInv
<1>19. \A t \in Peers : \A i \in DOMAIN order[t] : i \in DOMAIN order'[t] /\ order'[t][i] = order[t][i]
  <2>1. \A i \in DOMAIN r : i \in DOMAIN r1 /\ r1[i] = r[i]
    BY <1>9
  <2> QED
    BY <1>2, <1>6, <2>1
<1>20. \A p \in Polls : \A j \in DOMAIN out[p] : poll[p] \in Peers
  BY DEF TypeOK
<1>21. ListInv'
  <2> SUFFICES ASSUME NEW p \in Polls, NEW j \in DOMAIN out[p]
               PROVE  \E i \in 1..TakenFrom(poll[p])' : order'[poll[p]][i] = out[p][j]
    BY <1>5 DEF ListInv, TakenFrom
  <2>1. PICK t \in Peers : t = poll[p]
    BY <1>20
  <2>2. PICK i \in 1..TakenFrom(t) : order[t][i] = out[p][j]
    BY <2>1 DEF ListInv
  <2>3. i \in 1..TakenFrom(t)' /\ order'[t][i] = out[p][j]
    BY <1>15, <1>19, <2>2, TakenFacts
  <2> QED
    BY <1>5, <2>1, <2>3 DEF TakenFrom
<1>22. ListOrdered'
  <2> SUFFICES ASSUME NEW p \in Polls, NEW j \in DOMAIN out[p], NEW k \in DOMAIN out[p], j < k
               PROVE  \E i, l \in DOMAIN order'[poll[p]] :
                         i < l /\ order'[poll[p]][i] = out[p][j] /\ order'[poll[p]][l] = out[p][k]
    BY <1>5 DEF ListOrdered
  <2>1. PICK i, l \in DOMAIN order[poll[p]] :
           i < l /\ order[poll[p]][i] = out[p][j] /\ order[poll[p]][l] = out[p][k]
    BY DEF ListOrdered
  <2> QED
    BY <1>19, <1>20, <2>1
<1>23. AskInv'
  BY <1>5 DEF AskInv
<1> QED
  BY <1>11, <1>14, <1>18, <1>21, <1>22, <1>23

\* A candidate goes from the queue to the end of a poll's list: those in the
\* list were taken before it.
LEMMA ReceivePreserves ==
  ASSUME CandInv, NEW p \in Polls, Receive(p)
  PROVE  CandInv'
<1> USE DEF CandInv
<1>1. PICK s \in Peers : s = poll[p]
  BY DEF Receive, TypeOK
<1>2. PICK q, l, r : q = candidateQueues[s] /\ l = out[p] /\ r = order[s]
  OBVIOUS
<1>3. PICK x, q1, l1 : x = Head(q) /\ q1 = Tail(q) /\ l1 = Append(l, x)
  OBVIOUS
<1>4. /\ q \in Seq(Cands) /\ q # <<>> /\ l \in Seq(Cands) /\ r \in Seq(Cands)
      /\ \A j, k \in DOMAIN q : q[j] = q[k] => j = k
  BY <1>1, <1>2 DEF Receive, TypeOK, QueueInv
<1>5. /\ out' = [out EXCEPT ![p] = l1]
      /\ candidateQueues' = [candidateQueues EXCEPT ![s] = q1]
      /\ UNCHANGED <<pc, to, poll, gone, order, got>>
  BY <1>1, <1>2, <1>3 DEF Receive, Take
<1>6. /\ out'[p] = l1 /\ \A o \in Polls \ {p} : out'[o] = out[o]
      /\ candidateQueues'[s] = q1
      /\ \A t \in Peers \ {s} : candidateQueues'[t] = candidateQueues[t]
  BY <1>5 DEF TypeOK
<1>7. PICK n \in Nat, a \in Nat, m \in Nat : n = Len(q) /\ a = Len(l) /\ m = Len(r)
  BY <1>4, LenProperties
<1>8. /\ x \in Cands /\ x = q[1] /\ q1 \in Seq(Cands)
      /\ n # 0 /\ Len(q1) = n - 1
      /\ DOMAIN q = 1..n /\ DOMAIN q1 = 1..(n - 1)
      /\ \A i \in 1..(n - 1) : q1[i] = q[i + 1]
      /\ \A j, k \in DOMAIN q1 : q1[j] = q1[k] => j = k
      /\ Range(q1) = Range(q) \ {x}
      /\ x \in Range(q)
  <2>1. /\ Head(q) \in Cands /\ Head(q) = q[1] /\ Tail(q) \in Seq(Cands)
        /\ Len(q) \in Nat \ {0} /\ Len(Tail(q)) = Len(q) - 1
        /\ DOMAIN q = 1..Len(q) /\ DOMAIN Tail(q) = 1..(Len(q) - 1)
        /\ \A i \in 1..(Len(q) - 1) : Tail(q)[i] = q[i + 1]
        /\ \A j, k \in DOMAIN Tail(q) : Tail(q)[j] = Tail(q)[k] => j = k
        /\ Range(Tail(q)) = Range(q) \ {Head(q)}
        /\ Head(q) \in Range(q)
    BY <1>4, TailFacts, Zenon
  <2>2. n # 0
    BY <1>7, <2>1
  <2> QED
    BY <1>3, <1>7, <2>1, <2>2, Zenon
<1>9. /\ l1 \in Seq(Cands)
      /\ DOMAIN l = 1..a /\ DOMAIN l1 = 1..(a + 1)
      /\ \A i \in 1..a : l1[i] = l[i]
      /\ l1[a + 1] = x
      /\ Range(l1) = Range(l) \cup {x}
  BY <1>3, <1>4, <1>7, <1>8, AppendFacts
<1>10. TypeOK'
  <2>1. candidateQueues' \in [Peers -> Seq(Cands)] /\ out' \in [Polls -> Seq(Cands)]
    BY <1>5, <1>8, <1>9 DEF TypeOK
  <2>2. n <= QueueCap
    BY <1>2, <1>7 DEF TypeOK
  <2>3. n - 1 <= QueueCap
    BY <2>2, CandidatesAssumption
  <2>4. \A t \in Peers : Len(candidateQueues'[t]) <= QueueCap
    BY <1>6, <1>8, <2>3 DEF TypeOK
  <2>5. \A o \in Polls : poll[o] = None => out'[o] = <<>>
    BY <1>1, <1>6, CandidatesAssumption DEF TypeOK
  <2> QED
    BY <1>5, <2>1, <2>4, <2>5 DEF TypeOK
<1>11. \A y \in Cands, t \in Peers : InQueue(y, t)' <=> InQueue(y, t) /\ ~(y = x /\ t = s)
  <2>1. \A y \in Cands, t \in Peers \ {s} : InQueue(y, t)' <=> InQueue(y, t)
    BY <1>6 DEF InQueue
  <2>2. \A y \in Cands : InQueue(y, s)' <=> InQueue(y, s) /\ y # x
    BY <1>2, <1>6, <1>8 DEF InQueue
  <2> QED
    BY <2>1, <2>2
<1>12. \A y \in Cands, o \in Polls : InList(y, o)' <=> InList(y, o) \/ (y = x /\ o = p)
  <2>1. \A y \in Cands, o \in Polls \ {p} : InList(y, o)' <=> InList(y, o)
    BY <1>6 DEF InList
  <2>2. \A y \in Cands : InList(y, p)' <=> InList(y, p) \/ y = x
    BY <1>2, <1>6, <1>9 DEF InList
  <2> QED
    BY <2>1, <2>2
<1>13. InQueue(x, s) /\ pc[x] = "204" /\ to[x] = s /\ got[x] = None
  BY <1>2, <1>8 DEF InQueue, PlaceInv
<1>14. PlaceInv'
  <2>1. ASSUME NEW y \in Cands, pc[y] = "204"
        PROVE  InQueue(y, to[y])' \/ (\E o \in Polls : InList(y, o)') \/ got'[y] # None
    <3>1. PICK t \in Peers : t = to[y]
      BY <2>1 DEF PlaceInv
    <3>2. InQueue(y, t) \/ (\E o \in Polls : InList(y, o)) \/ got[y] # None
      BY <2>1, <3>1 DEF PlaceInv
    <3>3. InQueue(y, t)' \/ (\E o \in Polls : InList(y, o)') \/ got[y] # None
      BY <1>11, <1>12, <3>2
    <3> QED
      BY <1>5, <3>1, <3>3 DEF InQueue
  <2>2. \A y \in Cands, t \in Peers, o \in Polls : ~(InQueue(y, t)' /\ InList(y, o)')
    BY <1>11, <1>12, <1>13 DEF PlaceInv
  <2>3. \A y \in Cands, o, u \in Polls : InList(y, o)' /\ InList(y, u)' => o = u
    BY <1>12, <1>13 DEF PlaceInv
  <2>4. \A y \in Cands, o \in Polls : InList(y, o)' => pc[y] = "204" /\ to[y] = poll[o] /\ got[y] = None
    BY <1>1, <1>12, <1>13 DEF PlaceInv
  <2>5. \A y \in Cands, t \in Peers : InQueue(y, t)' => pc[y] = "204" /\ to[y] = t /\ got[y] = None
    BY <1>11 DEF PlaceInv
  <2> QED
    BY <1>5, <2>1, <2>2, <2>3, <2>4, <2>5 DEF PlaceInv, InQueue
<1>15. PICK h : h = m - n
  OBVIOUS
<1>16. /\ DOMAIN r = 1..m /\ h \in Nat /\ h < m
       /\ TakenFrom(s) = h
       /\ \A k \in 1..n : q[k] = r[h + k]
  <2>1. DOMAIN r = 1..m
    BY <1>4, <1>7, LenProperties
  <2>2. TakenFrom(s) = h
    BY <1>2, <1>7, <1>15 DEF TakenFrom
  <2>3. n <= m /\ \A k \in 1..n : q[k] = r[h + k]
    BY <1>2, <1>7, <1>8, <2>2 DEF QueueInv
  <2>4. h \in Nat /\ h < m
    BY <1>8, <1>15, <2>3
  <2> QED
    BY <2>1, <2>2, <2>3, <2>4
<1>17. TakenFrom(s)' = h + 1 /\ \A t \in Peers \ {s} : TakenFrom(t)' = TakenFrom(t)
  <2>1. m - (n - 1) = h + 1
    BY <1>15
  <2>2. TakenFrom(s)' = m - (n - 1)
    BY <1>2, <1>5, <1>6, <1>7, <1>8 DEF TakenFrom
  <2> QED
    BY <1>5, <1>6, <2>1, <2>2 DEF TakenFrom
<1>18. x = r[h + 1] /\ h + 1 \in 1..m
  BY <1>8, <1>16
<1>19. QueueInv'
  <2>1. ASSUME NEW k \in 1..(n - 1)
        PROVE  q1[k] = r[(h + 1) + k]
    <3>1. PICK i : i = k + 1
      OBVIOUS
    <3>2. i \in 1..n /\ h + i = (h + 1) + k
      BY <1>16, <3>1
    <3>3. q1[k] = q[i] /\ q[i] = r[h + i]
      BY <1>8, <1>16, <3>1, <3>2
    <3> QED
      BY <3>2, <3>3
  <2>2. n - 1 <= m
    BY <1>15, <1>16
  <2>3. /\ \A j, k \in DOMAIN candidateQueues'[s] : candidateQueues'[s][j] = candidateQueues'[s][k] => j = k
        /\ Len(candidateQueues'[s]) <= Len(order'[s])
        /\ \A k \in DOMAIN candidateQueues'[s] :
              candidateQueues'[s][k] = order'[s][TakenFrom(s)' + k]
    <3>1. candidateQueues'[s] = q1 /\ order'[s] = r
      BY <1>2, <1>5, <1>6
    <3>2. DOMAIN q1 = 1..(n - 1) /\ Len(q1) <= Len(r)
      BY <1>7, <1>8, <2>2
    <3>3. \A j, k \in DOMAIN q1 : q1[j] = q1[k] => j = k
      BY <1>8
    <3>4. \A k \in DOMAIN q1 : q1[k] = r[TakenFrom(s)' + k]
      BY <1>17, <2>1, <3>2, Zenon
    <3> QED
      BY <3>1, <3>2, <3>3, <3>4, Zenon
  <2>4. ASSUME NEW t \in Peers \ {s}
        PROVE  /\ \A j, k \in DOMAIN candidateQueues'[t] : candidateQueues'[t][j] = candidateQueues'[t][k] => j = k
               /\ Len(candidateQueues'[t]) <= Len(order'[t])
               /\ \A k \in DOMAIN candidateQueues'[t] :
                     candidateQueues'[t][k] = order'[t][TakenFrom(t)' + k]
    BY <1>5, <1>6, <1>17 DEF QueueInv
  <2> QED
    BY <2>3, <2>4 DEF QueueInv
<1>20. \A o \in Polls : \A j \in DOMAIN out[o] : poll[o] \in Peers
  BY DEF TypeOK
<1>21. \A j \in 1..a : \E i \in 1..h : r[i] = l[j]
  BY <1>1, <1>2, <1>9, <1>16 DEF ListInv
<1>22. ListInv'
  <2> SUFFICES ASSUME NEW o \in Polls, NEW j \in DOMAIN out'[o]
               PROVE  \E i \in 1..TakenFrom(poll[o])' : order[poll[o]][i] = out'[o][j]
    BY <1>5 DEF ListInv, TakenFrom
  <2>1. CASE o # p
    <3>1. j \in DOMAIN out[o] /\ out'[o][j] = out[o][j]
      BY <1>6, <2>1
    <3>2. PICK t \in Peers : t = poll[o]
      BY <1>20, <3>1
    <3>3. PICK i \in 1..TakenFrom(t) : order[t][i] = out[o][j]
      BY <3>1, <3>2 DEF ListInv
    <3>4. TakenFrom(t) \in Nat /\ TakenFrom(t)' \in {TakenFrom(t), TakenFrom(t) + 1}
      BY <1>16, <1>17, TakenFacts
    <3>5. i \in 1..TakenFrom(t)'
      BY <3>3, <3>4
    <3> QED
      BY <1>5, <3>1, <3>2, <3>3, <3>5 DEF TakenFrom
  <2>2. CASE o = p
    <3>1. \E i \in 1..(h + 1) : r[i] = l1[j]
      <4>1. j \in 1..a \/ j = a + 1
        BY <1>6, <1>9, <2>2
      <4>2. CASE j \in 1..a
        <5>1. PICK i \in 1..h : r[i] = l[j]
          BY <1>21, <4>2
        <5>2. i \in 1..(h + 1) /\ l1[j] = l[j]
          BY <1>9, <1>16, <4>2, <5>1
        <5> QED
          BY <5>1, <5>2
      <4>3. CASE j = a + 1
        BY <1>9, <1>16, <1>18, <4>3
      <4> QED
        BY <4>1, <4>2, <4>3
    <3>2. TakenFrom(poll[p])' = h + 1
      BY <1>1, <1>5, <1>17 DEF TakenFrom
    <3> QED
      BY <1>1, <1>2, <1>6, <2>2, <3>1, <3>2
  <2> QED
    BY <2>1, <2>2
<1>23. ListOrdered'
  <2> SUFFICES ASSUME NEW o \in Polls, NEW j \in DOMAIN out'[o], NEW k \in DOMAIN out'[o], j < k
               PROVE  \E i, e \in DOMAIN order[poll[o]] :
                         i < e /\ order[poll[o]][i] = out'[o][j] /\ order[poll[o]][e] = out'[o][k]
    BY <1>5 DEF ListOrdered
  <2>1. CASE o # p \/ k \in 1..a
    <3>1. o = p => j \in 1..a
      BY <1>6, <1>9, <2>1
    <3>2. /\ j \in DOMAIN out[o] /\ out'[o][j] = out[o][j]
          /\ k \in DOMAIN out[o] /\ out'[o][k] = out[o][k]
      BY <1>2, <1>6, <1>9, <2>1, <3>1
    <3> QED
      BY <3>2 DEF ListOrdered
  <2>2. CASE o = p /\ k = a + 1
    <3>1. j \in 1..a
      BY <1>6, <1>9, <2>2
    <3>2. PICK i \in 1..h : r[i] = l[j]
      BY <1>21, <3>1
    <3>3. i \in 1..m /\ i < h + 1
      BY <1>16, <3>2
    <3>4. out'[o][j] = l[j] /\ out'[o][k] = x
      BY <1>6, <1>9, <2>2, <3>1
    <3> QED
      <4>1. order[poll[o]] = r /\ i \in DOMAIN r /\ h + 1 \in DOMAIN r
        BY <1>1, <1>2, <1>16, <1>18, <2>2, <3>3
      <4>2. r[i] = out'[o][j] /\ r[h + 1] = out'[o][k]
        BY <1>18, <3>2, <3>4
      <4> QED
        BY <3>3, <4>1, <4>2, Zenon
  <2>3. o # p \/ k \in 1..a \/ k = a + 1
    BY <1>6, <1>9
  <2> QED
    BY <2>1, <2>2, <2>3
<1>24. AskInv'
  BY <1>5 DEF AskInv
<1> QED
  BY <1>10, <1>14, <1>19, <1>22, <1>23, <1>24

\* The response is written: a poll's list becomes what was delivered, or lost.
LEMMA DrainedPreserves ==
  ASSUME CandInv, NEW p \in Polls, Drained(p)
  PROVE  CandInv'
<1> USE DEF CandInv
<1>1. PICK s \in Peers : s = poll[p]
  BY DEF Drained, TypeOK
<1>2. PICK g \in Peers \cup {"lost"} : g = IF p \in gone THEN "lost" ELSE Of[p]
  BY CandidatesAssumption
<1>3. /\ UNCHANGED <<candidateQueues, pc, to, order>>
      /\ poll' = [poll EXCEPT ![p] = None]
      /\ out' = [out EXCEPT ![p] = <<>>]
      /\ gone' = gone \ {p}
  BY DEF Drained, Return
<1>4. /\ got' = [x \in Cands |-> IF InList(x, p) THEN g ELSE got[x]]
      /\ g # None
  <2>1. \A x : InList(x, p) <=> \E k \in DOMAIN out[p] : out[p][k] = x
    BY DEF InList, Range
  <2>2. \A x \in Cands : got'[x] = IF InList(x, p) THEN g ELSE got[x]
    BY <1>2, <2>1 DEF Drained
  <2>3. got' = [x \in Cands |-> got'[x]]
    BY DEF Drained
  <2> QED
    BY <1>2, <2>2, <2>3, CandidatesAssumption
<1>5. /\ out'[p] = <<>> /\ poll'[p] = None
      /\ \A o \in Polls \ {p} : out'[o] = out[o] /\ poll'[o] = poll[o]
  BY <1>3 DEF TypeOK
<1>6. TypeOK'
  <2>1. out' \in [Polls -> Seq(Cands)] /\ poll' \in [Polls -> Peers \cup {None}]
    BY <1>3 DEF TypeOK
  <2>2. got' \in [Cands -> Peers \cup {None, "lost"}]
    BY <1>2, <1>4 DEF TypeOK
  <2>3. \A o \in Polls : poll'[o] = None => out'[o] = <<>> /\ o \notin gone'
    BY <1>3, <1>5 DEF TypeOK
  <2> QED
    BY <1>3, <2>1, <2>2, <2>3 DEF TypeOK
<1>7. /\ \A x \in Cands, t \in Peers : InQueue(x, t)' <=> InQueue(x, t)
      /\ \A x \in Cands, o \in Polls : InList(x, o)' <=> InList(x, o) /\ o # p
  BY <1>3, <1>5 DEF InQueue, InList, Range
<1>8. PlaceInv'
  <2>1. \A x \in Cands : got'[x] = IF InList(x, p) THEN g ELSE got[x]
    BY <1>4
  <2>2. ASSUME NEW x \in Cands, pc[x] = "204"
        PROVE  InQueue(x, to[x])' \/ (\E o \in Polls : InList(x, o)') \/ got'[x] # None
    <3>1. PICK t \in Peers : t = to[x]
      BY <2>2 DEF PlaceInv
    <3>2. InQueue(x, t) \/ (\E o \in Polls : InList(x, o)) \/ got[x] # None
      BY <2>2, <3>1 DEF PlaceInv
    <3>3. InQueue(x, t)' \/ (\E o \in Polls : InList(x, o)') \/ got'[x] # None
      BY <1>4, <1>7, <2>1, <3>2
    <3> QED
      BY <1>3, <3>1, <3>3 DEF InQueue
  <2>3. ASSUME NEW x \in Cands, got'[x] # None
        PROVE  pc[x] = "204" /\ (got'[x] = "lost" \/ <<got'[x], to[x]>> \in Asks)
    <3>1. CASE InList(x, p)
      <4>1. to[x] = s /\ pc[x] = "204" /\ <<Of[p], s>> \in Asks
        BY <1>1, <3>1, CandidatesAssumption DEF PlaceInv, AskInv
      <4> QED
        BY <1>2, <2>1, <3>1, <4>1
    <3>2. CASE ~InList(x, p)
      BY <2>1, <2>3, <3>2 DEF PlaceInv
    <3> QED
      BY <3>1, <3>2
  <2>4. \A x \in Cands, t \in Peers : InQueue(x, t)' => pc[x] = "204" /\ to[x] = t /\ got'[x] = None
    BY <1>7, <2>1 DEF PlaceInv
  <2>5. \A x \in Cands, o \in Polls : InList(x, o)' => pc[x] = "204" /\ to[x] = poll'[o] /\ got'[x] = None
    BY <1>5, <1>7, <2>1 DEF PlaceInv
  <2>6. /\ \A x \in Cands, t \in Peers, o \in Polls : ~(InQueue(x, t)' /\ InList(x, o)')
        /\ \A x \in Cands, o, u \in Polls : InList(x, o)' /\ InList(x, u)' => o = u
    BY <1>7 DEF PlaceInv
  <2> QED
    BY <1>3, <2>2, <2>3, <2>4, <2>5, <2>6 DEF PlaceInv, InQueue
<1>9. QueueInv'
  BY <1>3 DEF QueueInv, TakenFrom
<1>10. \A o \in Polls : \A j \in DOMAIN out'[o] : o # p
  BY <1>5
<1>11. ListInv'
  BY <1>3, <1>5, <1>10 DEF ListInv, TakenFrom
<1>12. ListOrdered'
  BY <1>3, <1>5, <1>10 DEF ListOrdered
<1>13. AskInv'
  BY <1>5 DEF AskInv
<1> QED
  BY <1>6, <1>8, <1>9, <1>11, <1>12, <1>13

----------------------------------------------------------------------------
(* The results. *)

\* Every step of the posts and the polls keeps CandInv.
THEOREM CandidatesInvariant == Spec => []CandInv
<1>1. CandInv /\ [Next]_vars => CandInv'
  BY QuietSteps, EnqueuePreserves, ReceivePreserves, DrainedPreserves DEF Next
<1> QED
  BY <1>1, InitCandInv, PTL DEF Spec

\* The queues never exceed their capacity, and a poll between calls has nothing
\* in its list.
THEOREM CandidatesTyped == Spec => []TypeOK
<1>1. CandInv => TypeOK
  BY DEF CandInv
<1> QED
  BY <1>1, CandidatesInvariant, PTL

\* A candidate answered 204 is in one place from then on, the queue of the id
\* it was posted for, or a list or a response of one poll with that id, and no
\* other candidate is anywhere.
THEOREM CandidatesAcceptedOnce == Spec => []AcceptedOnce
<1>1. CandInv => AcceptedOnce
  <2> SUFFICES ASSUME CandInv, NEW x \in Cands
               PROVE  LET queues == {s \in Peers : x \in Range(candidateQueues[s])}
                          lists  == {p \in Polls : x \in Range(out[p])}
                          places == Cardinality(queues) + Cardinality(lists)
                                      + IF got[x] # None THEN 1 ELSE 0
                      IN /\ places = IF pc[x] = "204" THEN 1 ELSE 0
                         /\ queues \cup {poll[p] : p \in lists} \subseteq {to[x]}
                         /\ got[x] \in Peers => <<got[x], to[x]>> \in Asks
    BY DEF AcceptedOnce
  <2> USE DEF CandInv
  <2>1. PICK Q, L : /\ Q = {s \in Peers : x \in Range(candidateQueues[s])}
                    /\ L = {p \in Polls : x \in Range(out[p])}
    OBVIOUS
  <2>2. /\ Q \cup {poll[p] : p \in L} \subseteq {to[x]}
        /\ got[x] \in Peers => <<got[x], to[x]>> \in Asks
    BY <2>1, CandidatesAssumption DEF PlaceInv, InQueue, InList
  <2>3. /\ Q \subseteq {to[x]}
        /\ \A p, o \in L : p = o
        /\ Q # {} => L = {} /\ got[x] = None /\ pc[x] = "204"
        /\ L # {} => got[x] = None /\ pc[x] = "204"
        /\ got[x] # None => pc[x] = "204"
        /\ pc[x] = "204" => Q # {} \/ L # {} \/ got[x] # None
    BY <2>1 DEF PlaceInv, InQueue, InList
  <2>4. /\ Q # {} => Cardinality(Q) = 1
        /\ L # {} => Cardinality(L) = 1
        /\ Cardinality({}) = 0
    <3>1. Q # {} => Q = {to[x]}
      BY <2>3
    <3>2. L # {} => \E p : L = {p}
      BY <2>3
    <3> QED
      BY <3>1, <3>2, FS_EmptySet, FS_Singleton
  <2>5. Cardinality(Q) + Cardinality(L) + (IF got[x] # None THEN 1 ELSE 0)
          = IF pc[x] = "204" THEN 1 ELSE 0
    BY <2>3, <2>4
  <2> QED
    BY <2>1, <2>2, <2>5
<1> QED
  BY <1>1, CandidatesInvariant, PTL

\* If every peer polls with its own id, as signaling_test.go does, a candidate
\* reaches only the peer it was posted for; it does not if the peers poll with
\* the id of the other side, as the doc of signalingPollCandidates says.
THEOREM CandidatesAddressedToPoller ==
  ASSUME \A ask \in Asks : ask[1] = ask[2]
  PROVE  Spec => []AddressedToPoller
<1>1. AcceptedOnce => AddressedToPoller
  BY DEF AcceptedOnce, AddressedToPoller
<1> QED
  BY <1>1, CandidatesAcceptedOnce, PTL

\* Candidates leave a queue, and appear in the list of a poll, in the order in
\* which they entered, whichever polls drain it at once.
THEOREM CandidatesDrainInOrder == Spec => []DrainInOrder
<1>1. CandInv => DrainInOrder
  <2> SUFFICES ASSUME CandInv PROVE DrainInOrder
    OBVIOUS
  <2>1. ASSUME NEW s \in Peers
        PROVE  IsSuffix(candidateQueues[s], order[s])
    <3>1. PICK q \in Seq(Cands), r \in Seq(Cands) : q = candidateQueues[s] /\ r = order[s]
      BY DEF CandInv, TypeOK
    <3>2. Len(q) <= Len(r) /\ \A k \in 1..Len(q) : q[k] = r[(Len(r) - Len(q)) + k]
      BY <3>1, LenProperties DEF CandInv, QueueInv, TakenFrom
    <3>3. IsSuffix(q, r)
      BY <3>2, SuffixByPosition
    <3> QED
      BY <3>1, <3>3
  <2> QED
    BY <2>1 DEF DrainInOrder, CandInv, ListOrdered
<1> QED
  BY <1>1, CandidatesInvariant, PTL
=============================================================================
