----------------------------- MODULE CommandText -----------------------------
(***************************************************************************)
(* What framewalk writes to GDB as text, made one step at a time: a        *)
(* command by its builders, a raw line by typing it.  The properties       *)
(* compare what framewalk means with what GDB reads.                       *)
(***************************************************************************)
EXTENDS RawGuard, TextItem

CONSTANTS
  Keys,         \* the bytes and words of a typed raw line
  MaxLine,      \* bound on the length of a raw line
  MaxParts      \* bound on the options and parameters of a command

(* Two strings are no bytes.  A letter is no blank.  A raw line has no     *)
(* newline (submit_raw), and none of the two bytes that framewalk takes    *)
(* for blanks where nothing in the repository says what GDB does.          *)
ASSUME TextAssumption ==
  /\ {"end", "NoValue"} \cap (Alphabet \cup Keys) = {}
  /\ "operation" \in Letters /\ Letters \cap (WhiteSpace \cup {"end"}) = {}
  /\ Keys \cap {"NL", "FF", "VT"} = {}
  /\ MaxText \in Nat

Operation == <<"operation">>
Valued    == <<"v">>

-----------------------------------------------------------------------------
(* A command, by its builders.                                             *)
Build == item = Idle /\ item' = [kind |-> "command", command |-> new(Operation)]

Parts == Len(item.command.options) + Len(item.command.parameters)

Building == item.kind = "command" /\ Parts < MaxParts

AddOption == Building /\ item' = [item EXCEPT !.command = option(@, <<"f">>)]

AddOptionWith ==
  Building /\ \E s \in Strings : item' = [item EXCEPT !.command = option_with(@, Valued, s)]

AddParameter ==
  Building /\ \E s \in Strings : item' = [item EXCEPT !.command = parameter(@, s)]

(* A raw line, key by key, as mi_raw_command and mi take it.               *)
Type ==
  \/ item = Idle /\ item' = [kind |-> "raw", line |-> <<"-">>]
  \/ /\ item.kind = "raw" /\ Len(item.line) < MaxLine
     /\ \E b \in Keys : item' = [item EXCEPT !.line = Append(@, b)]

Next == Build \/ AddOption \/ AddOptionWith \/ AddParameter \/ Type

Spec == Init /\ [][Next]_item

-----------------------------------------------------------------------------
(* What GDB reads of a line with a token before it, when the options that  *)
(* take a value are those of valued.                                       *)
(* A command as Scheme writes it: a raw line with mi-quoted parameters.    *)
SchemeLine(cmd) ==
  write_u64[Token] \o <<"-">> \o cmd.operation
    \o Spaced([i \in DOMAIN cmd.parameters |-> mi_quote_param(cmd.parameters[i])]) \o <<"NL">>

Ascii(s) == \A i \in DOMAIN s : s[i] \notin Lead \cup Continuation

(* Whatever texts a command is built from, spaces, quotes, backslashes,    *)
(* newlines, leading dashes and empty strings included, GDB reads one line *)
(* that is that command: its options, its values, its parameters, none     *)
(* taken for another (encode_command, should_emit_double_dash).  The same  *)
(* of the ASCII parameters that Scheme quotes, but for a leading dash,     *)
(* which raw lines have no separator for; and framewalk takes the line it  *)
(* remembers of a command for that command.                                *)
CommandsArrive ==
  item.kind = "command" =>
    LET cmd == item.command
    IN /\ OneLine(Sent(cmd))
       /\ GdbReads(Sent(cmd), {Valued}) = cmd
       /\ cmd.options = <<>> /\ (\A i \in DOMAIN cmd.parameters : Ascii(cmd.parameters[i]))
            /\ (cmd.parameters # <<>> => ~StartsWithDash(Head(cmd.parameters)))
            => OneLine(SchemeLine(cmd)) /\ GdbReads(SchemeLine(cmd), {}) = cmd
       /\ raw_mi_operation(encode_mi_command(cmd)) = Ok(2, cmd.operation)

(* An operation that is an entry of the allowlist, in any case of letters. *)
Listed(operation) ==
  /\ operation # <<>> /\ Head(operation) \in Letters
  /\ \E entry \in ALLOWED_COMMANDS : matches(entry, Spelling(operation))

(* The operation of a raw line that the guard allows is the one that GDB   *)
(* reads, in any case of letters; a line it refuses has an operation that  *)
(* is no entry of the allowlist (validate_raw_mi_command,                  *)
(* raw_mi_operation).                                                      *)
GuardAgrees ==
  item.kind = "raw" =>
    (validate_raw_mi_command(item.line, FALSE)
       <=> Listed(GdbReads(write_u64[Token] \o item.line \o <<"NL">>, {}).operation))
=============================================================================
