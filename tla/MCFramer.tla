------------------------------- MODULE MCFramer -------------------------------
(* Framer for TLC: one other byte, one blank.                              *)
EXTENDS Framer
CONSTANTS x, sp
MCBytes == {LF, CR, Prompt, sp, x}
MCBlanks == {sp}
=============================================================================
