----------------------------- MODULE MCStartup -----------------------------
(* Startup for TLC: two browsers, so that one may come back while another's    *)
(* request is under way.                                                     *)
EXTENDS Startup
=============================================================================
