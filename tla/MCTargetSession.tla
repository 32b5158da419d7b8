--------------------------- MODULE MCTargetSession ---------------------------
(* TargetSession for TLC: two tool calls and the Scheme thread.            *)
EXTENDS TargetSession

CONSTANTS c1, c2, board, native
=============================================================================
