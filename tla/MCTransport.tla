----------------------------- MODULE MCTransport -----------------------------
(* Transport for TLC.                                                      *)
EXTENDS Transport, TLC
CONSTANTS c1, c2, quit
MCCalls == {c1, c2, quit}
CallSymmetry == Permutations({c1, c2})
=============================================================================
