----------------------------- MODULE Rendezvous -----------------------------
(***************************************************************************)
(* What the SDP rendezvous promises its users, without queues, channels,   *)
(* locks or timers: a call is opened for one bastion under a client id,    *)
(* its offer is taken at most once and only by that bastion, and the call  *)
(* has one result.  An answer names one client id, whoever writes it, and  *)
(* is the result of at most one call, one with that id.  Signaling         *)
(* implements this specification.                                          *)
(***************************************************************************)
CONSTANTS Calls, Answers, Bastions, Ids, None

VARIABLES
  to,      \* the bastion a call addresses
  key,     \* its client id
  taken,   \* the bastion that took its offer, "lost" if the offer was lost
  result,  \* "none", "refused", "failed" or the answer the caller got
  about    \* the client id an answer names

vars == <<to, key, taken, result, about>>

Init ==
  /\ to = [q \in Calls |-> None]
  /\ key = [q \in Calls |-> None]
  /\ taken = [q \in Calls |-> None]
  /\ result = [q \in Calls |-> "none"]
  /\ about = [a \in Answers |-> None]

Open(q, b, i) ==
  /\ to[q] = None /\ result[q] = "none"
  /\ to' = [to EXCEPT ![q] = b]
  /\ key' = [key EXCEPT ![q] = i]
  /\ UNCHANGED <<taken, result, about>>

\* The offer leaves the relay, also when its caller has given up, but not when
\* it was refused.
Take(q, b) ==
  /\ to[q] # None /\ taken[q] = None /\ result[q] # "refused"
  /\ b \in {to[q], "lost"}
  /\ taken' = [taken EXCEPT ![q] = b]
  /\ UNCHANGED <<to, key, result, about>>

Write(a, i) ==
  /\ about[a] = None
  /\ about' = [about EXCEPT ![a] = i]
  /\ UNCHANGED <<to, key, taken, result>>

\* The call ends with answer a.
Answer(q, a) ==
  /\ result[q] = "none" /\ to[q] # None
  /\ about[a] = key[q]
  /\ \A r \in Calls : result[r] # a
  /\ result' = [result EXCEPT ![q] = a]
  /\ UNCHANGED <<to, key, taken, about>>

\* The call ends without one: refused before the offer was accepted, or failed.
Fail(q, f) ==
  /\ result[q] = "none"
  /\ f = "refused" => taken[q] = None
  /\ f = "failed" => to[q] # None
  /\ result' = [result EXCEPT ![q] = f]
  /\ UNCHANGED <<to, key, taken, about>>

Next ==
  \/ \E q \in Calls, b \in Bastions, i \in Ids : Open(q, b, i)
  \/ \E q \in Calls, b \in Bastions \cup {"lost"} : Take(q, b)
  \/ \E a \in Answers, i \in Ids : Write(a, i)
  \/ \E q \in Calls, a \in Answers : Answer(q, a)
  \/ \E q \in Calls, f \in {"refused", "failed"} : Fail(q, f)

Spec == Init /\ [][Next]_vars
=============================================================================
