------------------------------ MODULE GdbOutput ------------------------------
(***************************************************************************)
(* How GDB prints an output record, as the documentation of the parser     *)
(* states it: GDB is not part of the repository.                           *)
(***************************************************************************)
EXTENDS MiParser

(* GDB escapes every byte that is no printable ASCII in three octal digits. *)
Octal(code) == <<Nibble(code \div 64), Nibble((code \div 8) % 8), Nibble(code % 8)>>

Printed(b) ==
  CASE b \in {"QUOTE", "BSLASH"} -> <<"BSLASH", b>>
    [] b \in {"NL", "TAB"} -> <<"BSLASH", Named[b]>>
    [] b \in DOMAIN Code \ {"QUOTE", "BSLASH", "NL", "TAB"} -> <<"BSLASH">> \o Octal(Code[b])
    [] OTHER -> <<b>>

PrintConst(s) == InQuotes(FlattenSeq([i \in DOMAIN s |-> Printed(s[i])]))

Commas(parts) == FlattenSeq([i \in DOMAIN parts |-> IF i = 1 THEN parts[i] ELSE <<",">> \o parts[i]])

(* A value is a const, a tuple of results, or a list: empty, of values or  *)
(* of results.                                                             *)
RECURSIVE PrintValue(_)
PrintValue(v) ==
  LET Result(r) == r.name \o <<"=">> \o PrintValue(r.value)
  IN CASE "const" \in DOMAIN v -> PrintConst(v.const)
       [] "tuple" \in DOMAIN v ->
            <<"{">> \o Commas([i \in DOMAIN v.tuple |-> Result(v.tuple[i])]) \o <<"}">>
       [] "empty" \in DOMAIN v -> <<"[", "]">>
       [] "values" \in DOMAIN v ->
            <<"[">> \o Commas([i \in DOMAIN v.values |-> PrintValue(v.values[i])]) \o <<"]">>
       [] "results" \in DOMAIN v ->
            <<"[">> \o Commas([i \in DOMAIN v.results |-> Result(v.results[i])]) \o <<"]">>

PrintRecord(r) ==
  IF "text" \in DOMAIN r THEN <<r.kind>> \o PrintConst(r.text)
  ELSE (IF r.token = NoToken THEN <<>> ELSE write_u64[r.token])
         \o <<r.kind>> \o r.class
         \o FlattenSeq([i \in DOMAIN r.results |->
                          <<",">> \o r.results[i].name \o <<"=">> \o PrintValue(r.results[i].value)])
=============================================================================
