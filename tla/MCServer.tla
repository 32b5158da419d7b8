------------------------------- MODULE MCServer -------------------------------
(* Server for TLC: three evals, a channel with room for one request.       *)
EXTENDS Server
=============================================================================
