------------------------------ MODULE LineStream ------------------------------
(***************************************************************************)
(* What a framer promises: the bytes of the stream, in whatever chunks     *)
(* they come, are cut after each LF; a frame is the line before an LF      *)
(* without one CR at its end, or the terminator of a response group.       *)
(***************************************************************************)
EXTENDS Naturals, Sequences

CONSTANTS Bytes, LF, CR, Prompt, Blanks

VARIABLES rest, frames

vars == <<rest, frames>>

(* (gdb) followed by nothing but blanks.                                   *)
Terminates(line) ==
  line # <<>> /\ line[1] = Prompt /\ \A i \in 2..Len(line) : line[i] \in Blanks

Chomp(line) ==
  IF line # <<>> /\ line[Len(line)] = CR THEN SubSeq(line, 1, Len(line) - 1) ELSE line

FrameOf(line) ==
  IF Terminates(Chomp(line)) THEN [group |-> TRUE, line |-> <<>>]
                             ELSE [group |-> FALSE, line |-> Chomp(line)]

Init == rest = <<>> /\ frames = <<>>

Deliver ==
  /\ Len(rest') > Len(rest) /\ SubSeq(rest', 1, Len(rest)) = rest
  /\ UNCHANGED frames

Cut ==
  \E n \in DOMAIN rest :
    /\ rest[n] = LF /\ \A i \in 1..(n - 1) : rest[i] # LF
    /\ frames' = Append(frames, FrameOf(SubSeq(rest, 1, n - 1)))
    /\ rest' = SubSeq(rest, n + 1, Len(rest))

Next == Deliver \/ Cut

Spec == Init /\ [][Next]_vars
=============================================================================
