------------------------------ MODULE RawGuard ------------------------------
(***************************************************************************)
(* The guard of mi_raw_command and of Scheme's mi: which raw lines are an  *)
(* MI command of an allowed family (raw_guard.rs).                         *)
(***************************************************************************)
EXTENDS GdbInput, FiniteSetsExt

CONSTANT Lower    \* what to_ascii_lowercase makes of words that are not in Words

Families == {"ada-", "add-", "break-", "catch-", "data-", "dprintf-", "enable-", "environment-",
             "exec-", "file-", "gdb-", "inferior-", "info-", "list-", "remove-", "stack-", "symbol-",
             "thread-", "trace-", "var-"}

Commands == {"complete", "target-attach", "target-detach", "target-disconnect", "target-download",
             "target-flash-erase", "target-select"}

(* ALLOWED_COMMANDS: entries that match by prefix, and exact ones.         *)
ALLOWED_COMMANDS == [operation : Families, match_kind : {"Prefix"}]
                      \cup [operation : Commands, match_kind : {"Exact"}]

StartsWith(s, prefix) == Len(s) >= Len(prefix) /\ SubSeq(s, 1, Len(prefix)) = prefix

matches(entry, operation) ==
  IF entry.match_kind = "Prefix" THEN StartsWith(operation, entry.operation)
  ELSE operation = entry.operation

Spelling(word) == FoldLeft(LAMBDA s, b : s \o IF b \in DOMAIN Lower THEN Lower[b] ELSE b, "", word)

Letters == Words \cup DOMAIN Lower

(* char::is_ascii_whitespace, and char::is_whitespace.                     *)
AsciiSpace == Blank \cup {"FF"}
WhiteSpace == AsciiSpace \cup {"VT"}

(* str::trim.                                                              *)
Trimmed(s) ==
  LET kept == {i \in DOMAIN s : s[i] \notin WhiteSpace}
  IN IF kept = {} THEN <<>> ELSE SubSeq(s, Min(kept), Max(kept))

Rejected == [ok |-> FALSE]

raw_mi_operation(input) ==
  LET trimmed == Trimmed(input)
  IN IF StartsWithDash(trimmed) /\ Peek(trimmed, 2) \in Letters
     THEN Ok(2, SubSeq(trimmed, 2, Run(trimmed, 2, NotIn(trimmed, AsciiSpace)) - 1)) ELSE Rejected

(* A mutant of validate_raw_mi_command: the operation is compared as it is *)
(* written, case and all.                                                  *)
validate_raw_mi_command_Cased(input, allow_shell) ==
  LET operation == raw_mi_operation(input)
  IN /\ operation.ok
     /\ \/ allow_shell
        \/ \E entry \in ALLOWED_COMMANDS :
             matches(entry, FoldLeft(LAMBDA s, b : s \o b, "", operation.value))

validate_raw_mi_command(input, allow_shell) ==
  LET operation == raw_mi_operation(input)
  IN /\ operation.ok
     /\ \/ allow_shell
        \/ \E entry \in ALLOWED_COMMANDS : matches(entry, Spelling(operation.value))
=============================================================================
