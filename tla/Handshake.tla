----------------------------- MODULE Handshake -----------------------------
(***************************************************************************)
(* How HandleHTTP (src/internal/wsrelay/wsrelay.go) reads the role, the    *)
(* bastion and the subprotocol of a connection from the query string and   *)
(* the Sec-WebSocket-Protocol headers, as operators.                       *)
(*                                                                         *)
(* An offered subprotocol is a record: "plain" is chepherd-rc-v1, "cred"   *)
(* is chepherd-rc-v1.<bastion>.<token> (the bastion may be empty), "blank" *)
(* is nothing between two commas, "other" anything else, a credential      *)
(* without its second dot included.  The empty string is a value not given.*)
(***************************************************************************)
EXTENDS Sequences, SequencesExt

Plain == [kind |-> "plain", bastion |-> ""]
Cred(b) == [kind |-> "cred", bastion |-> b]
Other == [kind |-> "other", bastion |-> ""]
Blank == [kind |-> "blank", bastion |-> ""]

\* The subprotocols offered, and what may stand between two commas.
Offer == {p \in [kind : {"plain", "cred", "other", "blank"}, bastion : STRING] :
             p.kind # "cred" => p.bastion = ""}

\* The subprotocols of all headers, in order, without blanks.
parseSecWSProtocol(headers) ==
  LET parts == FlattenSeq(headers)
      out[i \in 0..Len(parts)] ==
         IF i = 0 THEN <<>>
         ELSE IF parts[i] = Blank THEN out[i - 1] ELSE Append(out[i - 1], parts[i])
  IN out[Len(parts)]

\* Slip: the last credential names the bastion, as it names the subprotocol.
OfferedLast(st, p) ==
  CASE p.kind = "cred" ->
         [role |-> IF st.role = "" THEN "client" ELSE st.role,
          bastion |-> IF p.bastion # "" THEN p.bastion ELSE st.bastion,
          negotiated |-> p]
    [] p = Plain /\ st.negotiated = Other -> [st EXCEPT !.negotiated = Plain]
    [] OTHER -> st

\* One iteration of the loop over the offers.  Nothing negotiated is Other.
Offered(st, p) ==
  CASE p.kind = "cred" ->
         [role |-> IF st.role = "" THEN "client" ELSE st.role,
          bastion |-> IF st.bastion = "" THEN p.bastion ELSE st.bastion,
          negotiated |-> p]
    [] p = Plain /\ st.negotiated = Other -> [st EXCEPT !.negotiated = Plain]
    [] OTHER -> st

\* What the query string says, before the loop.
Query(h) == [role |-> h.role, bastion |-> h.bastion, negotiated |-> Other]

\* The loop over the offers.
Loop(h, offers) ==
  LET st[i \in 0..Len(offers)] ==
         IF i = 0 THEN Query(h) ELSE Offered(st[i - 1], offers[i])
  IN st[Len(offers)]

\* External: websocket.Accept selects sub if the client offered it.
Selected(sub, offers) == IF sub \in Range(offers) THEN sub ELSE Other

\* What HandleHTTP makes of request h = [role, bastion, headers]: 400, or the
\* parameters of joinRoom and the subprotocol that is sent back.
Negotiate(h) ==
  LET offers == parseSecWSProtocol(h.headers)
      st == Loop(h, offers)
      sub == IF st.negotiated = Other THEN Plain ELSE st.negotiated
  IN IF st.role \notin {"client", "daemon"} \/ st.bastion = ""
       THEN [status |-> "400"]
       ELSE [status |-> "ok", role |-> st.role, bastion |-> st.bastion,
             sub |-> Selected(sub, offers)]

----------------------------------------------------------------------------
(* What the loop is written to compute, without one, for comparison. *)

\* Where s has a credential, and one that names its bastion.
Creds(s) == {i \in DOMAIN s : s[i].kind = "cred"}
Named(s) == {i \in Creds(s) : s[i].bastion # ""}

\* The precedence of the code, whose tests on the empty string let the query
\* string win; then the role is client and the bastion is that of the first
\* credential that names one.  The last credential is sent back, chepherd-rc-v1
\* if there is none and it was offered.  (Not the precedence of the comment of
\* HandleHTTP, where the credential "overrides the query-string fallback".)
Final(h, s) ==
  [role |-> IF h.role = "" /\ Creds(s) # {} THEN "client" ELSE h.role,
   bastion |-> IF h.bastion = "" /\ Named(s) # {} THEN s[Min(Named(s))].bastion
                                                ELSE h.bastion,
   negotiated |-> IF Creds(s) # {} THEN s[Max(Creds(s))]
                  ELSE IF Plain \in Range(s) THEN Plain ELSE Other]

Expected(h) ==
  LET end == Final(h, FlattenSeq(h.headers))
  IN IF end.role \in {"client", "daemon"} /\ end.bastion # ""
       THEN [status |-> "ok", role |-> end.role, bastion |-> end.bastion,
             sub |-> end.negotiated]
       ELSE [status |-> "400"]

\* The query string and a credential name different bastions: here the code and
\* its comment disagree.
Contradicts(h) ==
  LET s == FlattenSeq(h.headers)
  IN h.bastion # "" /\ \E i \in Named(s) : s[i].bastion # h.bastion
=============================================================================
