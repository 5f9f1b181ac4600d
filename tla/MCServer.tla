------------------------------ MODULE MCServer ------------------------------
(* Model values of Server for TLC. *)
EXTENDS Server

Offers == {Plain, Cred("b1"), Cred("b2"), Cred("")}

\* Up to two offers in one header, among them ones HandleHTTP does not know,
\* or one each in two; the query may name a role and a bastion.
MCHandshakes ==
  [role : {"", "daemon"}, bastion : {"", "b2"},
   headers : {<<>>, <<<<Blank, Cred("b1")>>>>, <<<<Other>>, <<Plain>>>>}
               \cup {<<<<p>>>> : p \in Offers} \cup {<<<<p, q>>>> : p, q \in Offers}
               \cup {<<<<p>>, <<q>>>> : p, q \in {Plain, Cred("b1")}}]
=============================================================================
