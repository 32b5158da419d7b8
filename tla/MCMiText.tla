------------------------------ MODULE MCMiText ------------------------------
(* MiText for TLC: bytes of every kind that the codec tells apart, and the *)
(* tools whose arguments all arrive.                                       *)
EXTENDS MiText
MCWords    == {"operation", "complete", "exec-", "x", "a", "b", "done", "exec-interrupt"}
                \cup {ALL_TOOL_SPECS[tool].operation[1] : tool \in DOMAIN ALL_TOOL_SPECS}
MCLower    == [COMPLETE |-> "complete"]
MCAlphabet == {"m", "1", "-", "SP", "QUOTE", "BSLASH", "NL", "ESC", "xC3", "xA9"}
MCKeys     == {"-", "complete", "exec-", "x", "SP", "TAB", "COMPLETE"}
MCStrings  == {<<"m">>, <<"-", "-">>, <<"-", "m", "SP", "QUOTE">>}
MCU32      == {<<"7">>, <<"8">>}
MCI64      == {<<"7">>, <<"-", "7">>}
AllTools   == DOMAIN ALL_TOOL_SPECS \ {"break_commands"}
=============================================================================
