------------------------------- MODULE MiCodec -------------------------------
(***************************************************************************)
(* The MI codec: encode_command, encode_cstring and parse_cstring; the     *)
(* records of a line of GDB's output are in MiParser.                      *)
(*                                                                         *)
(* A byte is a string: its character, or a name (the space, the quote, the *)
(* backslash, and what is not printed).  A word that the codec nowhere     *)
(* takes apart (an operation, the name of an option or of a result, a      *)
(* class) is one element, and stands for its letters.                      *)
(* A parser takes a line and a position, and returns Ok or Fail: the kinds *)
(* and offsets of errors are left out.                                     *)
(***************************************************************************)
EXTENDS Integers, Sequences, SequencesExt

CONSTANT Words    \* the words in use, in small letters

(* The bytes that escapes write and read, with their codes: every control  *)
(* character of ASCII, and some bytes beyond ASCII.                        *)
Code == [NUL |-> 0, SOH |-> 1, STX |-> 2, ETX |-> 3, EOT |-> 4, ENQ |-> 5, ACK |-> 6, BEL |-> 7,
         BS |-> 8, TAB |-> 9, NL |-> 10, VT |-> 11, FF |-> 12, CR |-> 13, SO |-> 14, SI |-> 15,
         DLE |-> 16, DC1 |-> 17, DC2 |-> 18, DC3 |-> 19, DC4 |-> 20, NAK |-> 21, SYN |-> 22,
         ETB |-> 23, CAN |-> 24, EM |-> 25, SUB |-> 26, ESC |-> 27, FS |-> 28, GS |-> 29,
         RS |-> 30, US |-> 31, QUOTE |-> 34, BSLASH |-> 92, DEL |-> 127, x82 |-> 130,
         x83 |-> 131, xA9 |-> 169, xC2 |-> 194, xC3 |-> 195]

Lead == {"xC2", "xC3"}
Continuation == {"x82", "x83", "xA9"}

(* Codes of bytes that are not in use are those of no UTF-8 text.          *)
ByteOf(code) == IF \E b \in DOMAIN Code : Code[b] = code THEN CHOOSE b \in DOMAIN Code : Code[b] = code
                ELSE "xFF"

Hex      == <<"0", "1", "2", "3", "4", "5", "6", "7", "8", "9", "a", "b", "c", "d", "e", "f">>
UpperHex == <<"A", "B", "C", "D", "E", "F">>

Nibble(n)    == Hex[n + 1]
Place(s, d)  == (CHOOSE i \in DOMAIN s : s[i] = d) - 1

Digit  == [d \in {Nibble(n) : n \in 0..9} |-> Place(Hex, d)]
AnyHex == [d \in ToSet(Hex) \cup ToSet(UpperHex) |->
             IF d \in ToSet(Hex) THEN Place(Hex, d) ELSE 10 + Place(UpperHex, d)]
Octals == {"0", "1", "2", "3", "4", "5", "6", "7"}

-----------------------------------------------------------------------------
(* Encoding.                                                               *)

(* The bytes with an escape of their own, and what follows its backslash. *)
Named == [NL |-> "n", CR |-> "r", TAB |-> "t", BEL |-> "a", BS |-> "b", VT |-> "v", FF |-> "f",
          QUOTE |-> "QUOTE", BSLASH |-> "BSLASH"]

Control == {b \in DOMAIN Code : Code[b] < 32 \/ Code[b] = 127}

Escaped(b) ==
  CASE b \in DOMAIN Named -> <<"BSLASH", Named[b]>>
    [] b \in Control \ DOMAIN Named -> <<"BSLASH", "x", Nibble(Code[b] \div 16), Nibble(Code[b] % 16)>>
    [] OTHER -> <<b>>

InQuotes(text) == <<"QUOTE">> \o text \o <<"QUOTE">>

encode_cstring(s) == InQuotes(FlattenSeq([i \in DOMAIN s |-> Escaped(s[i])]))

is_non_blank_sequence(s) ==
  s # <<>> /\ \A i \in DOMAIN s : s[i] \notin {"SP", "TAB", "NL", "CR", "QUOTE", "BSLASH"}

encode_parameter(s) == IF is_non_blank_sequence(s) THEN s ELSE encode_cstring(s)

(* Scheme's mi-quote: it tests for control bytes too, and writes every byte *)
(* as the character of that code, so that beyond ASCII it becomes two.     *)
AsChar == [x82 |-> <<"xC2", "x82">>, x83 |-> <<"xC2", "x83">>, xA9 |-> <<"xC2", "xA9">>,
           xC2 |-> <<"xC3", "x82">>, xC3 |-> <<"xC3", "x83">>]

(* A mutant of mi_quote_param: it leaves the empty string as it is.        *)
mi_quote_param_Empty(s) ==
  IF \A i \in DOMAIN s : s[i] \notin Control \cup {"SP", "QUOTE", "BSLASH"} THEN s ELSE encode_cstring(s)

mi_quote_param(s) ==
  IF s # <<>> /\ \A i \in DOMAIN s : s[i] \notin Control \cup {"SP", "QUOTE", "BSLASH"} THEN s
  ELSE InQuotes(FlattenSeq([i \in DOMAIN s |-> IF s[i] \in DOMAIN AsChar THEN AsChar[s[i]]
                                               ELSE Escaped(s[i])]))

(* An MiCommand: an operation, options of a name and a value or NoValue,   *)
(* and parameters.  MiCommand::new and its builders.                       *)
NoValue == <<"NoValue">>

new(operation) == [operation |-> operation, options |-> <<>>, parameters |-> <<>>]

option_with(cmd, name, value) == [cmd EXCEPT !.options = Append(@, [name |-> name, value |-> value])]

option(cmd, name) == option_with(cmd, name, NoValue)

parameter(cmd, value) == [cmd EXCEPT !.parameters = Append(@, value)]

encode_option(opt) ==
  <<"-">> \o opt.name \o IF opt.value = NoValue THEN <<>> ELSE <<"SP">> \o encode_parameter(opt.value)

StartsWithDash(s) == s # <<>> /\ Head(s) = "-"

(* A mutant of should_emit_double_dash: a parameter that is quoted anyway  *)
(* needs no separator.                                                     *)
should_emit_double_dash_Bare(cmd) ==
  cmd.parameters # <<>> /\ StartsWithDash(Head(cmd.parameters)) /\ is_non_blank_sequence(Head(cmd.parameters))

should_emit_double_dash(cmd) == cmd.parameters # <<>> /\ StartsWithDash(Head(cmd.parameters))

write_u64[n \in Nat] ==
  IF n < 10 THEN <<Nibble(n)>> ELSE Append(write_u64[n \div 10], Nibble(n % 10))

Spaced(parts) == FlattenSeq([i \in DOMAIN parts |-> <<"SP">> \o parts[i]])

(* token is a number, or NoToken.                                          *)
NoToken == -1

encode_command(token, cmd) ==
  (IF token = NoToken THEN <<>> ELSE write_u64[token])
    \o <<"-">> \o cmd.operation
    \o Spaced([i \in DOMAIN cmd.options |-> encode_option(cmd.options[i])])
    \o (IF should_emit_double_dash(cmd) THEN <<"SP", "-", "-">> ELSE <<>>)
    \o Spaced([i \in DOMAIN cmd.parameters |-> encode_parameter(cmd.parameters[i])])
    \o <<"NL">>

(* encode_mi_command: as it is remembered, and as submit_raw takes it.     *)
encode_mi_command(cmd) == Front(encode_command(NoToken, cmd))

-----------------------------------------------------------------------------
(* Parsing.  Every parser reads line from a position on.                   *)

Fail == [ok |-> FALSE]
Ok(at, value) == [ok |-> TRUE, at |-> at, value |-> value]

Peek(line, at) == IF at <= Len(line) THEN line[at] ELSE "end"

(* The end of the run of bytes of S.                                       *)
Run(line, at, S) ==
  CHOOSE end \in at..(Len(line) + 1) :
    Peek(line, end) \notin S /\ \A i \in at..(end - 1) : Peek(line, i) \in S

(* String::from_utf8, on the bytes in use.                                 *)
Utf8(s) ==
  \A i \in DOMAIN s : /\ s[i] # "xFF"
                      /\ s[i] \in Lead => Peek(s, i + 1) \in Continuation
                      /\ s[i] \in Continuation => i > 1 /\ s[i - 1] \in Lead

Unnamed ==
  LET Byte == [a |-> "BEL", b |-> "BS", f |-> "FF", n |-> "NL", r |-> "CR", t |-> "TAB", v |-> "VT",
               QUOTE |-> "QUOTE", BSLASH |-> "BSLASH"]
  IN [e \in DOMAIN Byte \cup {"'", "?"} |-> IF e \in DOMAIN Byte THEN Byte[e] ELSE e]

OctalCode(digits) == FoldLeft(LAMBDA n, d : 8 * n + Digit[d], 0, digits)

Least(a, b) == IF a < b THEN a ELSE b

(* A mutant of decode_escape: octal escapes have no bound on their digits. *)
decode_escape_Greedy(line, at) ==
  LET b == Peek(line, at)
      end == Run(line, at, Octals)
  IN CASE b \in DOMAIN Unnamed -> Ok(at + 1, Unnamed[b])
       [] b = "x" /\ {Peek(line, at + 1), Peek(line, at + 2)} \subseteq DOMAIN AnyHex ->
            Ok(at + 3, ByteOf(16 * AnyHex[line[at + 1]] + AnyHex[line[at + 2]]))
       [] b \in Octals -> Ok(end, ByteOf(OctalCode(SubSeq(line, at, end - 1)) % 256))
       [] OTHER -> Fail

(* The byte of an escape, from after its backslash.                        *)
decode_escape(line, at) ==
  LET b == Peek(line, at)
      end == Least(Run(line, at, Octals), at + 3)
  IN CASE b \in DOMAIN Unnamed -> Ok(at + 1, Unnamed[b])
       [] b = "x" /\ {Peek(line, at + 1), Peek(line, at + 2)} \subseteq DOMAIN AnyHex ->
            Ok(at + 3, ByteOf(16 * AnyHex[line[at + 1]] + AnyHex[line[at + 2]]))
       [] b \in Octals -> Ok(end, ByteOf(OctalCode(SubSeq(line, at, end - 1)) % 256))
       [] OTHER -> Fail

(* The loop, from a position inside the quotes: the bytes up to the closing *)
(* quote, and where it ends.                                               *)
Push(b, read) == IF read.ok THEN Ok(read.at, <<b>> \o read.value) ELSE Fail

CStringFrom(line, from) ==
  LET loop[at \in 1..(Len(line) + 1)] ==
        LET b == Peek(line, at)
            e == decode_escape(line, at + 1)
        IN CASE b = "end" -> Fail
             [] b = "QUOTE" -> Ok(at + 1, <<>>)
             [] b = "BSLASH" -> IF e.ok THEN Push(e.value, loop[e.at]) ELSE Fail
             [] OTHER -> Push(b, loop[at + 1])
  IN loop[from]

\* String::from_utf8 of the bytes read up to the closing quote.
Decoded(read) == IF read.ok /\ Utf8(read.value) THEN read ELSE Fail

parse_cstring(line, at) == IF Peek(line, at) = "QUOTE" THEN Decoded(CStringFrom(line, at + 1)) ELSE Fail
=============================================================================
