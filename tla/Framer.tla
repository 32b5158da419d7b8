-------------------------------- MODULE Framer --------------------------------
(***************************************************************************)
(* framewalk-mi-wire: the framer that cuts GDB's output into lines.  push  *)
(* appends a chunk of the transport, pop yields the next frame; consumed   *)
(* bytes stay in the buffer until push compacts it.  Prompt stands for the *)
(* five bytes of (gdb).                                                    *)
(***************************************************************************)
EXTENDS Naturals, Sequences, SequencesExt

CONSTANTS
  Bytes,        \* the bytes that occur
  LF, CR,       \* the line terminators
  Prompt,       \* (gdb)
  Blanks,       \* space and tab
  MaxChunk,     \* bound on the bytes of a chunk
  MaxInput      \* bound on the bytes of the stream

ASSUME BytesAssumption == /\ {LF, CR, Prompt} \subseteq Bytes /\ Blanks \subseteq Bytes
                          /\ LF # CR /\ LF # Prompt /\ CR # Prompt
                          /\ {LF, CR, Prompt} \cap Blanks = {}
ASSUME BoundsAssumption == MaxChunk \in Nat /\ MaxInput \in Nat

VARIABLES
  buf,          \* Framer::buf
  readPos,      \* Framer::read_pos
  input,        \* every byte pushed (history)
  frames        \* every frame popped (history)

vars == <<buf, readPos, input, frames>>

Init == buf = <<>> /\ readPos = 0 /\ input = <<>> /\ frames = <<>>

-----------------------------------------------------------------------------
Compacts == readPos # 0 /\ readPos >= Len(buf) \div 2

(* A mutant of push: the buffer is never compacted.                        *)
push_Hoards(bytes) ==
  /\ buf' = buf \o bytes
  /\ input' = input \o bytes
  /\ UNCHANGED <<readPos, frames>>

push(bytes) ==
  /\ IF Compacts
     THEN buf' = SubSeq(buf, readPos + 1, Len(buf)) \o bytes /\ readPos' = 0
     ELSE buf' = buf \o bytes /\ UNCHANGED readPos
  /\ input' = input \o bytes
  /\ UNCHANGED frames

is_group_terminator(line) ==
  line # <<>> /\ line[1] = Prompt /\ \A i \in 2..Len(line) : line[i] \in Blanks

(* A mutant of NewlinesFrom: the byte at the cursor is not looked at.      *)
NewlinesFrom_Skips(p) == {i \in (p + 2)..Len(buf) : buf[i] = LF}

NewlinesFrom(p) == {i \in (p + 1)..Len(buf) : buf[i] = LF}

(* A mutant of lineEnd: the CR of a CRLF stays in the line.                *)
lineEnd_KeepsCR(newline) == newline - 1

(* The position of the last byte of the line that ends at newline.         *)
lineEnd(newline) ==
  IF newline - 1 > readPos /\ buf[newline - 1] = CR THEN newline - 2 ELSE newline - 1

Frame(line) ==
  IF is_group_terminator(line) THEN [group |-> TRUE, line |-> <<>>]
                               ELSE [group |-> FALSE, line |-> line]

pop ==
  /\ NewlinesFrom(readPos) # {}
  /\ LET newline == Min(NewlinesFrom(readPos)) IN
       /\ frames' = Append(frames, Frame(SubSeq(buf, readPos + 1, lineEnd(newline))))
       /\ readPos' = newline
  /\ UNCHANGED <<buf, input>>

-----------------------------------------------------------------------------
Chunks == UNION {[1..n -> Bytes] : n \in 1..MaxChunk}

Next ==
  \/ \E bytes \in Chunks : Len(input) + Len(bytes) <= MaxInput /\ push(bytes)
  \/ pop

Spec == Init /\ [][Next]_vars

-----------------------------------------------------------------------------
(* The framer is a LineStream: whatever the chunks, it yields the lines of *)
(* the stream and keeps the bytes after the last of them.                  *)
Lines == INSTANCE LineStream WITH rest <- SubSeq(buf, readPos + 1, Len(buf))

LinesSpec == Lines!Spec

(* The line of the input that ends at the LF at e, and its number.         *)
Ends    == {i \in DOMAIN input : input[i] = LF}
Line(e) == SubSeq(input, Max({0} \cup {i \in Ends : i < e}) + 1, e - 1)
Rank(e) == Cardinality({i \in Ends : i <= e})

(* However the stream was cut into chunks and whenever pop was called, the *)
(* frames so far are those of the first lines of the whole input, in       *)
(* order; when pop finds no more, they are those of all its lines.         *)
ChunkingIrrelevant ==
  /\ \A e \in Ends : Rank(e) <= Len(frames) => frames[Rank(e)] = Lines!FrameOf(Line(e))
  /\ Len(frames) <= Cardinality(Ends)
  /\ NewlinesFrom(readPos) = {} => Len(frames) = Cardinality(Ends)

(* Consumed bytes do not pile up: right after a push, less than half of    *)
(* the buffer is consumed.                                                 *)
MemoryBound == [][input' # input => 2 * readPos' < Len(buf')]_vars
=============================================================================
