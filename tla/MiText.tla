------------------------------- MODULE MiText -------------------------------
(***************************************************************************)
(* Everything that crosses the pipes to and from GDB as text: commands and *)
(* raw lines, calls of tools, records.  The first step chooses which.      *)
(***************************************************************************)
EXTENDS CommandText, ToolCalls, RecordText

TextNext == Next \/ Call \/ Emit \/ Wrap

TextSpec == Init /\ [][TextNext]_item
=============================================================================
