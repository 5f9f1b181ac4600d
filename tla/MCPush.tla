------------------------------- MODULE MCPush -------------------------------
(* Model values of Push for TLC. *)
EXTENDS Push

\* An iOS token with and one without a bundle id, and one of a platform that
\* FCM serves.
MCTokens ==
  {[platform |-> "ios", value |-> 1, bundle |-> TRUE],
   [platform |-> "ios", value |-> 2, bundle |-> FALSE],
   [platform |-> "webpush", value |-> 3, bundle |-> FALSE]}

\* FCM alone, as the key of APNs is bad and its certificate is not tried; APNs
\* by certificate, as FCM cannot be set up.
MCEnvs ==
  {[apnsKey |-> "bad", apnsCert |-> "good", fcm |-> "good"],
   [apnsKey |-> "unset", apnsCert |-> "good", fcm |-> "bad"]}

\* APNs by key.
KeyEnvs == {[apnsKey |-> "good", apnsCert |-> "unset", fcm |-> "unset"]}

\* Two iOS tokens.
IosTokens ==
  {[platform |-> "ios", value |-> 1, bundle |-> TRUE],
   [platform |-> "ios", value |-> 2, bundle |-> TRUE]}

Symmetry == Permutations(Devices) \cup Permutations(Users) \cup Permutations(Sends)
=============================================================================
