------------------------------- MODULE TextItem -------------------------------
(***************************************************************************)
(* A text that is made one step at a time, so that every reachable state   *)
(* is one input of the encoder, of the guard or of the parser; and how a   *)
(* command is sent.                                                        *)
(***************************************************************************)
EXTENDS MiCodec

CONSTANTS
  Alphabet,     \* the bytes of a client's text, and of GDB's
  MaxText       \* bound on the length of a text

VARIABLE item

Strings == {s \in UNION {[1..n -> Alphabet] : n \in 0..MaxText} : Utf8(s)}

Idle == [kind |-> "idle"]

Init == item = Idle

(* What is sent has a token before it, and is to be one line.              *)
Token == 12

Sent(cmd) == encode_command(Token, cmd)

OneLine(text) == \A i \in DOMAIN text : text[i] = "NL" <=> i = Len(text)
=============================================================================
