--------------------------- MODULE MCPushWebhook ----------------------------
(* Model values for PushWebhook: one commit is delivered three times (twice    *)
(* to one repository, once to another with the same head), one twice, one     *)
(* once.                                                                       *)
EXTENDS PushWebhook, TLC

CONSTANTS d1, d2, d3, d4, d5, d6, ca, cb, cc

MCCommitOf == d1 :> ca @@ d2 :> ca @@ d3 :> ca @@ d4 :> cb @@ d5 :> cb @@ d6 :> cc
=============================================================================
