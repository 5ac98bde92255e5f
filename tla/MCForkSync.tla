----------------------------- MODULE MCForkSync -----------------------------
(* ForkSync for TLC.                                                         *)
EXTENDS ForkSync
=============================================================================
