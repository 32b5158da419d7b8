------------------------------- MODULE GdbInput -------------------------------
(***************************************************************************)
(* How GDB reads a command line, as encode/mod.rs states it: GDB is not    *)
(* part of the repository.  A line is the digits of a token, a dash and an *)
(* operation, then blank-separated words, of which a quoted one is a       *)
(* c-string.                                                               *)
(***************************************************************************)
EXTENDS MiCodec

Blank == {"SP", "TAB", "NL", "CR"}

(* The bytes of a line that are not in S.                                  *)
NotIn(line, S) == ToSet(line) \ S

EndOfWord(line, at) == Run(line, at, NotIn(line, Blank))

(* The words of a line from a position on, if every quoted one is a c-string. *)
WordsFrom(line, from) ==
  LET loop[at \in 1..(Len(line) + 1)] ==
        LET start == Run(line, at, Blank)
            end == EndOfWord(line, start)
            quoted == parse_cstring(line, start)
        IN CASE Peek(line, start) = "end" -> Ok(start, <<>>)
             [] Peek(line, start) = "QUOTE" -> IF quoted.ok THEN Push(quoted.value, loop[quoted.at]) ELSE Fail
             [] OTHER -> Push(SubSeq(line, start, end - 1), loop[end])
  IN loop[from]

Unreadable == <<"unreadable">>

Readable(words) == IF words.ok THEN words.value ELSE <<Unreadable>>

SplitWords(line, from) == Readable(WordsFrom(line, from))

(* The options end at a word of two dashes or at the first that begins with *)
(* none; an option in valued takes the next word.                          *)
OptionsFrom(words, valued, from) ==
  LET Opened(name, value, rest) == [rest EXCEPT !.options = <<[name |-> name, value |-> value]>> \o @]
      Rest(k) == [options |-> <<>>, parameters |-> SubSeq(words, k, Len(words))]
      loop[k \in 1..(Len(words) + 1)] ==
        LET name == Tail(words[k])
        IN IF k > Len(words) \/ ~StartsWithDash(words[k]) THEN Rest(k)
           ELSE IF words[k] = <<"-", "-">> THEN Rest(k + 1)
           ELSE IF name \in valued /\ k < Len(words) THEN Opened(name, words[k + 1], loop[k + 2])
           ELSE Opened(name, NoValue, loop[k + 1])
  IN loop[from]

(* The command on the first line of a text, or NoCommand.                  *)
NoCommand == new(<<>>)

FirstLine(text) == SubSeq(text, 1, Run(text, 1, NotIn(text, {"NL"})) - 1)

GdbReads(text, valued) ==
  LET line == FirstLine(text)
      dash == Run(line, 1, DOMAIN Digit)
      end == EndOfWord(line, dash)
      read == OptionsFrom(SplitWords(line, end), valued, 1)
  IN IF Peek(line, dash) # "-" THEN NoCommand
     ELSE [operation |-> SubSeq(line, dash + 1, end - 1),
           options |-> read.options, parameters |-> read.parameters]
=============================================================================
