----------------------------- MODULE FramerProofs -----------------------------
(***************************************************************************)
(* Theorems about the framer, for every stream of bytes, however it is cut *)
(* into chunks, and every order of push and pop.                           *)
(***************************************************************************)
EXTENDS Framer, Lemmas

(* How much of the input pop has consumed.                                 *)
Consumed == Len(input) - Len(buf) + readPos

FrameSet == [group : BOOLEAN, line : Seq(Bytes)]

BufferInv ==
  /\ buf \in Seq(Bytes) /\ input \in Seq(Bytes) /\ Len(buf) <= Len(input)
  /\ readPos \in 0..Len(buf) /\ frames \in Seq(FrameSet)

(* The buffer holds the end of the input.                                  *)
TailInv == \A i \in 1..Len(buf) : buf[i] = input[Len(input) - Len(buf) + i]

(* What is consumed ends with a line, and each of its lines has its frame. *)
ConsumedInv ==
  /\ Consumed # 0 => Consumed \in Ends
  /\ Len(frames) = Rank(Consumed)
  /\ \A e \in Ends : e <= Consumed => frames[Rank(e)] = Lines!FrameOf(Line(e))

IInv == BufferInv /\ TailInv /\ ConsumedInv

-----------------------------------------------------------------------------
(* Lemmas about the steps.                                                 *)

LEMMA Lengths ==
  ASSUME BufferInv
  PROVE  /\ Len(buf) \in Nat /\ Len(input) \in Nat /\ readPos \in Nat /\ Len(frames) \in Nat
         /\ DOMAIN buf = 1..Len(buf) /\ DOMAIN input = 1..Len(input)
         /\ Consumed \in 0..Len(input)
<1>1. /\ Len(buf) \in Nat /\ Len(input) \in Nat /\ Len(frames) \in Nat
      /\ DOMAIN buf = 1..Len(buf) /\ DOMAIN input = 1..Len(input)
  BY LenProperties DEF BufferInv
<1> QED  BY <1>1 DEF BufferInv, Consumed

(* push drops some consumed bytes of the buffer, all of them or none, and  *)
(* appends the chunk.                                                      *)
LEMMA PushShape ==
  ASSUME BufferInv, NEW bytes \in Chunks, push(bytes)
  PROVE  /\ bytes \in Seq(Bytes) /\ Len(bytes) \in Nat \ {0}
         /\ \E k \in 0..readPos :
              /\ readPos' = readPos - k
              /\ buf' \in Seq(Bytes) /\ Len(buf') = Len(buf) - k + Len(bytes)
              /\ \A i \in 1..(Len(buf) - k) : buf'[i] = buf[i + k]
              /\ \A i \in 1..Len(bytes) : buf'[Len(buf) - k + i] = bytes[i]
         /\ input' \in Seq(Bytes) /\ Len(input') = Len(input) + Len(bytes)
         /\ \A i \in 1..Len(input) : input'[i] = input[i]
         /\ \A i \in 1..Len(bytes) : input'[Len(input) + i] = bytes[i]
<1>1. bytes \in Seq(Bytes) /\ Len(bytes) \in Nat \ {0}
  <2>1. PICK n \in 1..MaxChunk : bytes \in [1..n -> Bytes]
    BY DEF Chunks
  <2>2. n \in Nat /\ n # 0
    BY <2>1, BoundsAssumption
  <2> QED  BY <2>1, <2>2
<1>2. Len(buf) \in Nat /\ Len(input) \in Nat /\ readPos \in 0..Len(buf) /\ buf \in Seq(Bytes) /\ input \in Seq(Bytes)
  BY Lengths DEF BufferInv
<1>3. PICK k \in 0..readPos : readPos' = readPos - k /\ buf' = SubSeq(buf, k + 1, Len(buf)) \o bytes
  <2>1. CASE Compacts
    <3>1. readPos' = 0 /\ buf' = SubSeq(buf, readPos + 1, Len(buf)) \o bytes
      BY <2>1 DEF push
    <3>2. readPos \in 0..readPos /\ readPos - readPos = 0
      BY <1>2
    <3> QED  BY <3>1, <3>2
  <2>2. CASE ~Compacts
    <3>1. SubSeq(buf, 0 + 1, Len(buf)) = buf
      <4>1. SubSeq(buf, 1, Len(buf)) \in Seq(Bytes) /\ Len(SubSeq(buf, 1, Len(buf))) = Len(buf) - 1 + 1
            /\ \A i \in 1..(Len(buf) - 1 + 1) : SubSeq(buf, 1, Len(buf))[i] = buf[1 + i - 1]
        BY <1>2, Slice
      <4>2. Len(SubSeq(buf, 1, Len(buf))) = Len(buf) /\ \A i \in 1..Len(buf) : SubSeq(buf, 1, Len(buf))[i] = buf[i]
        BY <1>2, <4>1
      <4> QED  BY <1>2, <4>1, <4>2, SeqEqual
    <3>2. readPos' = readPos /\ buf' = buf \o bytes
      BY <2>2 DEF push
    <3>3. 0 \in 0..readPos /\ readPos - 0 = readPos
      BY <1>2
    <3> QED  BY <3>1, <3>2, <3>3
  <2> QED  BY <2>1, <2>2
<1>4. /\ buf' \in Seq(Bytes) /\ Len(buf') = Len(buf) - k + Len(bytes)
      /\ \A i \in 1..(Len(buf) - k) : buf'[i] = buf[i + k]
      /\ \A i \in 1..Len(bytes) : buf'[Len(buf) - k + i] = bytes[i]
  <2> DEFINE u == SubSeq(buf, k + 1, Len(buf))
  <2>1. /\ u \in Seq(Bytes) /\ Len(u) = Len(buf) - (k + 1) + 1
        /\ \A i \in 1..(Len(buf) - (k + 1) + 1) : u[i] = buf[(k + 1) + i - 1]
    BY <1>2, k + 1 \in Nat, k + 1 <= Len(buf) + 1, Slice
  <2>2. buf' = u \o bytes
    BY <1>3
  <2> HIDE DEF u
  <2>3. Len(u) = Len(buf) - k /\ Len(buf) - k \in Nat /\ k \in Nat
    BY <1>2, <2>1
  <2>4. ASSUME NEW i \in 1..(Len(buf) - k) PROVE u[i] = buf[i + k]
    <3>1. i \in 1..(Len(buf) - (k + 1) + 1) /\ (k + 1) + i - 1 = i + k
      BY <1>2, <2>3
    <3>2. u[i] = buf[(k + 1) + i - 1]
      BY <2>1, <3>1
    <3> QED  BY <3>1, <3>2
  <2>5. /\ buf' \in Seq(Bytes) /\ Len(buf') = Len(u) + Len(bytes)
        /\ \A i \in 1..(Len(u) + Len(bytes)) : buf'[i] = IF i <= Len(u) THEN u[i] ELSE bytes[i - Len(u)]
    BY <1>1, <2>1, <2>2, ConcatProperties
  <2>6. ASSUME NEW i \in 1..(Len(buf) - k) PROVE buf'[i] = buf[i + k]
    <3>1. i \in 1..(Len(u) + Len(bytes)) /\ i <= Len(u)
      BY <1>1, <2>3
    <3> QED  BY <2>4, <2>5, <3>1
  <2>7. ASSUME NEW i \in 1..Len(bytes) PROVE buf'[Len(buf) - k + i] = bytes[i]
    <3> DEFINE j == Len(buf) - k + i
    <3>1. j \in 1..(Len(u) + Len(bytes)) /\ ~(j <= Len(u)) /\ j - Len(u) = i
      BY <1>1, <2>3
    <3> HIDE DEF j
    <3>2. buf'[j] = bytes[i]
      BY <2>5, <3>1
    <3> QED  BY <3>2 DEF j
  <2> QED  BY <2>3, <2>5, <2>6, <2>7
<1>5. /\ input' \in Seq(Bytes) /\ Len(input') = Len(input) + Len(bytes)
      /\ \A i \in 1..Len(input) : input'[i] = input[i]
      /\ \A i \in 1..Len(bytes) : input'[Len(input) + i] = bytes[i]
  <2>1. input' = input \o bytes
    BY DEF push
  <2>2. /\ input' \in Seq(Bytes) /\ Len(input') = Len(input) + Len(bytes)
        /\ \A i \in 1..(Len(input) + Len(bytes)) :
             input'[i] = IF i <= Len(input) THEN input[i] ELSE bytes[i - Len(input)]
    BY <1>1, <1>2, <2>1, ConcatProperties
  <2>3. ASSUME NEW i \in 1..Len(input) PROVE input'[i] = input[i]
    <3>1. i \in 1..(Len(input) + Len(bytes)) /\ i <= Len(input)
      BY <1>1, <1>2
    <3> QED  BY <2>2, <3>1
  <2>4. ASSUME NEW i \in 1..Len(bytes) PROVE input'[Len(input) + i] = bytes[i]
    <3> DEFINE j == Len(input) + i
    <3>1. j \in 1..(Len(input) + Len(bytes)) /\ ~(j <= Len(input)) /\ j - Len(input) = i
      BY <1>1, <1>2
    <3> HIDE DEF j
    <3>2. input'[j] = bytes[i]
      BY <2>2, <3>1
    <3> QED  BY <3>2 DEF j
  <2> QED  BY <2>2, <2>3, <2>4
<1> QED  BY <1>1, <1>3, <1>4, <1>5

(* The frame pop makes is the one LineStream makes of the line before the  *)
(* LF: a CR at its end is not part of it.                                  *)
LEMMA FrameOfLine ==
  ASSUME BufferInv, NEW n \in (readPos + 1)..Len(buf)
  PROVE  /\ Frame(SubSeq(buf, readPos + 1, lineEnd(n))) = Lines!FrameOf(SubSeq(buf, readPos + 1, n - 1))
         /\ Frame(SubSeq(buf, readPos + 1, lineEnd(n))) \in FrameSet
<1> DEFINE L == SubSeq(buf, readPos + 1, n - 1)  C == SubSeq(buf, readPos + 1, lineEnd(n))
<1>1. /\ Len(buf) \in Nat /\ readPos \in Nat /\ n \in Nat /\ n - 1 \in Nat /\ readPos + 1 \in Nat
      /\ readPos + 1 <= n /\ n <= Len(buf) /\ buf \in Seq(Bytes)
  BY Lengths DEF BufferInv
<1>2. /\ L \in Seq(Bytes) /\ Len(L) = (n - 1) - (readPos + 1) + 1
      /\ \A i \in 1..((n - 1) - (readPos + 1) + 1) : L[i] = buf[(readPos + 1) + i - 1]
  BY <1>1, readPos + 1 <= (n - 1) + 1, n - 1 <= Len(buf), Slice
<1>3. lineEnd(n) \in Nat /\ readPos + 1 <= lineEnd(n) + 1 /\ lineEnd(n) <= Len(buf)
  BY <1>1 DEF lineEnd
<1>4. C \in Seq(Bytes)
  BY <1>1, <1>3, Slice
<1>5. C = Lines!Chomp(L)
  <2>1. CASE n - 1 > readPos /\ buf[n - 1] = CR
    <3>1. L # <<>> /\ L[Len(L)] = CR
      BY <1>1, <1>2, <2>1, EmptySeq
    <3>2. lineEnd(n) = n - 2
      BY <1>1, <2>1 DEF lineEnd
    <3>3. ASSUME NEW i \in 1..(Len(L) - 1) PROVE L[i] = buf[i + ((readPos + 1) - 1)]
      <4>1. i \in 1..((n - 1) - (readPos + 1) + 1) /\ (readPos + 1) + i - 1 = i + ((readPos + 1) - 1)
        BY <1>1, <1>2
      <4> QED  BY <1>2, <4>1
    <3> HIDE DEF L
    <3>4. SubSeq(L, 1, Len(L) - 1) = SubSeq(buf, readPos + 1, n - 2)
      <4>1. /\ 1 \in Nat /\ Len(L) - 1 \in Nat /\ 0 < 1 /\ 1 <= (Len(L) - 1) + 1 /\ Len(L) - 1 <= Len(L)
            /\ n - 2 \in Nat /\ 0 < readPos + 1 /\ n - 2 <= Len(buf) /\ (n - 2) - (readPos + 1) = (Len(L) - 1) - 1
        BY <1>1, <1>2, <2>1
      <4> QED  BY <1>1, <1>2, <3>3, <4>1, SlicesEqual
    <3> QED  BY <3>1, <3>2, <3>4 DEF Lines!Chomp
  <2>2. CASE ~(n - 1 > readPos /\ buf[n - 1] = CR)
    <3>1. ~(L # <<>> /\ L[Len(L)] = CR)
      BY <1>1, <1>2, <2>2, EmptySeq
    <3>2. C = L
      BY <2>2 DEF lineEnd
    <3> QED  BY <3>1, <3>2 DEF Lines!Chomp
  <2> QED  BY <2>1, <2>2
<1> HIDE DEF L, C
<1>6. is_group_terminator(C) <=> Lines!Terminates(C)
  BY DEF is_group_terminator, Lines!Terminates
<1>7. Frame(C) = Lines!FrameOf(L)
  BY <1>5, <1>6 DEF Frame, Lines!FrameOf
<1>8. Frame(C) \in FrameSet
  BY <1>4, EmptySeq DEF Frame, FrameSet
<1> QED  BY <1>7, <1>8 DEF L, C

LEMMA PopShape ==
  ASSUME BufferInv, pop
  PROVE  \E n \in (readPos + 1)..Len(buf) :
           /\ buf[n] = LF /\ \A i \in (readPos + 1)..(n - 1) : buf[i] # LF
           /\ readPos' = n /\ UNCHANGED <<buf, input>>
           /\ frames' = Append(frames, Lines!FrameOf(SubSeq(buf, readPos + 1, n - 1)))
           /\ Lines!FrameOf(SubSeq(buf, readPos + 1, n - 1)) \in FrameSet
<1>1. Len(buf) \in Nat /\ readPos \in Nat
  BY Lengths
<1> DEFINE n == Min(NewlinesFrom(readPos))
<1>2. n \in NewlinesFrom(readPos) /\ \A i \in NewlinesFrom(readPos) : n <= i
  <2>1. NewlinesFrom(readPos) \in SUBSET Nat /\ NewlinesFrom(readPos) # {}
    BY <1>1 DEF NewlinesFrom, pop
  <2> QED  BY <2>1, MinOfNat
<1>3. /\ readPos' = n /\ UNCHANGED <<buf, input>>
      /\ frames' = Append(frames, Frame(SubSeq(buf, readPos + 1, lineEnd(n))))
  BY DEF pop
<1> HIDE DEF n
<1>4. n \in (readPos + 1)..Len(buf) /\ buf[n] = LF
  BY <1>2 DEF NewlinesFrom
<1>5. \A i \in (readPos + 1)..(n - 1) : buf[i] # LF
  BY <1>1, <1>2, <1>4 DEF NewlinesFrom
<1> QED  BY <1>3, <1>4, <1>5, FrameOfLine

(* The lines of what is consumed.                                          *)
LEMMA LineStart ==
  ASSUME BufferInv, NEW e \in Ends
  PROVE  /\ Max({0} \cup {i \in Ends : i < e}) \in {0} \cup {i \in Ends : i < e}
         /\ \A d \in {0} \cup {i \in Ends : i < e} : d <= Max({0} \cup {i \in Ends : i < e})
         /\ Max({0} \cup {i \in Ends : i < e}) \in 0..(e - 1)
         /\ e \in 1..Len(input)
<1>1. e \in 1..Len(input) /\ Ends \subseteq 1..Len(input) /\ Len(input) \in Nat
  BY Lengths DEF Ends
<1> DEFINE S == {0} \cup {i \in Ends : i < e}
<1>2. S \in SUBSET (0..(e - 1)) /\ S # {} /\ e - 1 \in Nat
  <2>1. ASSUME NEW i \in S PROVE i \in 0..(e - 1)
    BY <1>1, <2>1
  <2>2. S \in SUBSET (0..(e - 1))
    BY <2>1
  <2> QED  BY <1>1, <2>2
<1> HIDE DEF S
<1>3. Max(S) \in S /\ \A i \in S : i <= Max(S)
  BY <1>2, MaxOfNat
<1>4. Max(S) \in 0..(e - 1)
  BY <1>2, <1>3
<1> QED  BY <1>1, <1>3, <1>4 DEF S

(* The lines before a position are finitely many, and fewer than those     *)
(* before a later line end.                                                *)
LEMMA Ranks ==
  ASSUME BufferInv, NEW c \in Nat
  PROVE  /\ IsFiniteSet({i \in Ends : i <= c}) /\ Rank(c) \in Nat
         /\ \A e \in Ends : e <= c => Rank(e) \in 1..Rank(c)
         /\ \A e \in Ends : c < e => Rank(c) < Rank(e)
         /\ IsFiniteSet(Ends) /\ Rank(c) <= Cardinality(Ends)
<1>1. IsFiniteSet(Ends) /\ Ends \subseteq Nat
  <2>1. IsFiniteSet(1..Len(input)) /\ Ends \in SUBSET (1..Len(input))
    BY Lengths, FS_Interval, 1 \in Int, Len(input) \in Int DEF Ends
  <2>2. Ends \subseteq Nat
    BY <2>1
  <2> QED  BY <2>1, <2>2, FS_Subset
<1>2. ASSUME NEW d PROVE IsFiniteSet({i \in Ends : i <= d}) /\ Rank(d) \in Nat /\ Rank(d) <= Cardinality(Ends)
  <2>1. {i \in Ends : i <= d} \in SUBSET Ends
    OBVIOUS
  <2> QED  BY <1>1, <2>1, FS_Subset, FS_CardinalityType DEF Rank
<1>3. ASSUME NEW d \in Nat, NEW e \in Nat, d <= e
      PROVE  Rank(d) <= Rank(e) /\ (Rank(d) = Rank(e) => {i \in Ends : i <= d} = {i \in Ends : i <= e})
  <2>1. {i \in Ends : i <= d} \in SUBSET {i \in Ends : i <= e}
    <3>1. \A i \in Ends : i <= d => i <= e
      BY <1>1, <1>3
    <3> QED  BY <3>1
  <2> QED  BY <1>2, <2>1, FS_Subset DEF Rank
<1>4. ASSUME NEW e \in Ends, e <= c PROVE Rank(e) \in 1..Rank(c)
  <2>1. e \in Nat /\ e \in {i \in Ends : i <= e}
    BY <1>1
  <2>2. Rank(e) # 0
    BY <1>2, <2>1, FS_EmptySet DEF Rank
  <2>3. Rank(e) <= Rank(c)
    BY <1>3, <1>4, <2>1
  <2>4. Rank(e) \in Nat /\ Rank(c) \in Nat
    BY <1>2
  <2> QED  BY <2>2, <2>3, <2>4
<1>5. ASSUME NEW e \in Ends, c < e PROVE Rank(c) < Rank(e)
  <2>1. e \in Nat /\ e \in {i \in Ends : i <= e} /\ e \notin {i \in Ends : i <= c}
    BY <1>1, <1>5
  <2>2. c <= e
    BY <1>5, <2>1
  <2>3. Rank(c) <= Rank(e) /\ (Rank(c) = Rank(e) => {i \in Ends : i <= c} = {i \in Ends : i <= e})
    BY <1>3, <2>1, <2>2
  <2>4. Rank(c) # Rank(e)
    BY <2>1, <2>3
  <2>5. Rank(e) \in Nat /\ Rank(c) \in Nat
    BY <1>2
  <2> QED  BY <2>3, <2>4, <2>5
<1> QED  BY <1>1, <1>2, <1>4, <1>5

(* What is pushed later does not change the lines that are consumed.       *)
LEMMA LinesStay ==
  ASSUME BufferInv, BufferInv', NEW c \in 0..Len(input), Len(input) <= Len(input'),
         \A i \in 1..Len(input) : input'[i] = input[i]
  PROVE  /\ {i \in Ends' : i <= c} = {i \in Ends : i <= c}
         /\ \A e \in Ends' : e <= c =>
              e \in Ends /\ Rank(e)' = Rank(e) /\ Lines!FrameOf(Line(e))' = Lines!FrameOf(Line(e))
<1>1. Len(input) \in Nat /\ Len(input') \in Nat /\ DOMAIN input = 1..Len(input) /\ DOMAIN input' = 1..Len(input')
  BY LenProperties DEF BufferInv
<1>2. \A i \in 1..Len(input) : i \in Ends' <=> i \in Ends
  BY <1>1 DEF Ends
<1>3. Ends \subseteq 1..Len(input) /\ Ends' \subseteq 1..Len(input')
  BY <1>1 DEF Ends
<1>4. {i \in Ends' : i <= c} = {i \in Ends : i <= c}
  <2>1. \A i \in Ends' : i <= c => i \in 1..Len(input)
    BY <1>1, <1>3
  <2> QED  BY <1>2, <1>3, <2>1
<1>5. ASSUME NEW e \in Ends', e <= c
      PROVE  e \in Ends /\ Rank(e)' = Rank(e) /\ Lines!FrameOf(Line(e))' = Lines!FrameOf(Line(e))
  <2>1. e \in Ends
    BY <1>1, <1>2, <1>3, <1>5
  <2>2. {i \in Ends' : i <= e} = {i \in Ends : i <= e} /\ {i \in Ends' : i < e} = {i \in Ends : i < e}
    <3>1. \A i \in Ends' : i <= e => i \in 1..Len(input)
      BY <1>1, <1>3, <2>1
    <3>2. \A i \in Ends' : i < e => i \in 1..Len(input)
      BY <1>1, <1>3, <2>1
    <3> QED  BY <1>2, <1>3, <3>1, <3>2
  <2>3. Rank(e)' = Rank(e)
    BY <2>2 DEF Rank
  <2> DEFINE m == Max({0} \cup {i \in Ends : i < e}) + 1
  <2>4. m \in Nat /\ 0 < m /\ m <= (e - 1) + 1 /\ e - 1 \in Nat /\ e - 1 <= Len(input) /\ e \in Nat
    <3>1. Max({0} \cup {i \in Ends : i < e}) \in 0..(e - 1) /\ e \in 1..Len(input)
      BY <2>1, LineStart
    <3> QED  BY <1>1, <3>1
  <2>5. Line(e) = SubSeq(input, m, e - 1) /\ Line(e)' = SubSeq(input', m, e - 1)
    BY <2>2 DEF Line
  <2> HIDE DEF m
  <2>6. SubSeq(input, m, e - 1) = SubSeq(input', m, e - 1)
    <3>1. \A i \in m..(e - 1) : input[i] = input'[i + (m - m)]
      BY <1>1, <2>4
    <3>2. input \in Seq(Bytes) /\ input' \in Seq(Bytes) /\ e - 1 <= Len(input')
      BY <1>1, <2>4 DEF BufferInv
    <3> QED  BY <1>1, <2>4, <3>1, <3>2, SlicesEqual
  <2>7. Line(e)' = Line(e)
    BY <2>5, <2>6
  <2>8. Lines!FrameOf(Line(e))' = Lines!FrameOf(Line(e))
    BY <2>7
  <2> QED  BY <2>1, <2>3, <2>8
<1> QED  BY <1>4, <1>5

-----------------------------------------------------------------------------
(* Every step keeps the invariant.                                         *)

LEMMA PushStep ==
  ASSUME IInv, NEW bytes \in Chunks, push(bytes)
  PROVE  IInv'
<1> BufferInv /\ TailInv /\ ConsumedInv
  BY DEF IInv
<1>1. /\ Len(buf) \in Nat /\ Len(input) \in Nat /\ readPos \in 0..Len(buf) /\ Len(buf) <= Len(input)
      /\ Consumed \in 0..Len(input) /\ Consumed \in Nat /\ UNCHANGED frames
  BY Lengths DEF BufferInv, push
<1>2. /\ Len(bytes) \in Nat \ {0} /\ input' \in Seq(Bytes) /\ Len(input') = Len(input) + Len(bytes)
      /\ \A i \in 1..Len(input) : input'[i] = input[i]
      /\ \A i \in 1..Len(bytes) : input'[Len(input) + i] = bytes[i]
  BY PushShape
<1>3. PICK k \in 0..readPos :
        /\ readPos' = readPos - k
        /\ buf' \in Seq(Bytes) /\ Len(buf') = Len(buf) - k + Len(bytes)
        /\ \A i \in 1..(Len(buf) - k) : buf'[i] = buf[i + k]
        /\ \A i \in 1..Len(bytes) : buf'[Len(buf) - k + i] = bytes[i]
  BY PushShape
<1>4. BufferInv'
  BY <1>1, <1>2, <1>3 DEF BufferInv
<1>5. TailInv'
  <2> SUFFICES ASSUME NEW i \in 1..Len(buf') PROVE buf'[i] = input'[Len(input') - Len(buf') + i]
    BY DEF TailInv
  <2>1. CASE i <= Len(buf) - k
    <3>1. i \in 1..(Len(buf) - k) /\ i + k \in 1..Len(buf)
      BY <1>1, <1>3, <2>1
    <3>2. buf'[i] = buf[i + k] /\ buf[i + k] = input[Len(input) - Len(buf) + (i + k)]
      BY <1>3, <3>1 DEF TailInv
    <3> DEFINE j == Len(input) - Len(buf) + (i + k)
    <3>3. j \in 1..Len(input) /\ j = Len(input') - Len(buf') + i
      <4>1. Len(input') = Len(input) + Len(bytes) /\ Len(buf') = Len(buf) - k + Len(bytes) /\ Len(bytes) \in Nat
        BY <1>2, <1>3
      <4> QED  BY <1>1, <3>1, <4>1
    <3> HIDE DEF j
    <3>4. input'[j] = input[j]
      BY <1>2, <3>3
    <3> QED  BY <3>2, <3>3, <3>4 DEF j
  <2>2. CASE i > Len(buf) - k
    <3> DEFINE j == i - (Len(buf) - k)
    <3>1. j \in 1..Len(bytes) /\ i = Len(buf) - k + j /\ Len(input') - Len(buf') + i = Len(input) + j
      BY <1>1, <1>2, <1>3, <2>2
    <3> HIDE DEF j
    <3> QED  BY <1>2, <1>3, <3>1
  <2> QED  BY <1>1, <1>2, <1>3, <2>1, <2>2
<1>6. Consumed' = Consumed
  BY <1>1, <1>2, <1>3 DEF Consumed
<1>7. Len(input) <= Len(input')
  BY <1>1, <1>2
<1>8. PICK c \in 0..Len(input) : c = Consumed
  BY <1>1
<1>9. /\ {i \in Ends' : i <= c} = {i \in Ends : i <= c}
      /\ \A e \in Ends' : e <= c =>
           e \in Ends /\ Rank(e)' = Rank(e) /\ Lines!FrameOf(Line(e))' = Lines!FrameOf(Line(e))
  BY <1>2, <1>4, <1>7, LinesStay
<1>10. ConsumedInv'
  <2>1. c # 0 => c \in Ends'
    <3>1. c # 0 => c \in {i \in Ends : i <= c}
      BY <1>1, <1>8 DEF ConsumedInv
    <3> QED  BY <1>9, <3>1
  <2>2. Len(frames') = Rank(Consumed)'
    BY <1>1, <1>6, <1>8, <1>9 DEF ConsumedInv, Rank
  <2>3. ASSUME NEW e \in Ends', e <= c PROVE (frames[Rank(e)] = Lines!FrameOf(Line(e)))'
    <3>1. frames[Rank(e)] = Lines!FrameOf(Line(e))
      BY <1>8, <1>9, <2>3 DEF ConsumedInv
    <3> QED  BY <1>1, <1>9, <2>3, <3>1
  <2> QED  BY <1>6, <1>8, <2>1, <2>2, <2>3 DEF ConsumedInv
<1> QED  BY <1>4, <1>5, <1>10 DEF IInv

LEMMA PopStep ==
  ASSUME IInv, pop
  PROVE  IInv'
<1> BufferInv /\ TailInv /\ ConsumedInv
  BY DEF IInv
<1>1. /\ Len(buf) \in Nat /\ Len(input) \in Nat /\ readPos \in 0..Len(buf) /\ Len(buf) <= Len(input)
      /\ Consumed \in 0..Len(input) /\ Consumed \in Nat /\ buf \in Seq(Bytes) /\ input \in Seq(Bytes)
      /\ frames \in Seq(FrameSet) /\ Len(frames) \in Nat /\ DOMAIN input = 1..Len(input)
  BY Lengths DEF BufferInv
<1>2. PICK n \in (readPos + 1)..Len(buf) :
        /\ buf[n] = LF /\ \A i \in (readPos + 1)..(n - 1) : buf[i] # LF
        /\ readPos' = n /\ UNCHANGED <<buf, input>>
        /\ frames' = Append(frames, Lines!FrameOf(SubSeq(buf, readPos + 1, n - 1)))
        /\ Lines!FrameOf(SubSeq(buf, readPos + 1, n - 1)) \in FrameSet
  BY PopShape
<1>3. PICK c \in 0..Len(input) : c = Consumed
  BY <1>1
<1>4. PICK d \in Nat : d = Len(input) - Len(buf)
  <2>1. Len(input) - Len(buf) \in Nat
    BY <1>1
  <2> QED  BY <2>1
<1> DEFINE p == n + d  frame == Lines!FrameOf(SubSeq(buf, readPos + 1, n - 1))
<1>5. /\ n \in Nat /\ p \in (c + 1)..Len(input) /\ p \in Nat /\ c = readPos + d /\ c \in Nat
      /\ Consumed' = p
  BY <1>1, <1>2, <1>3, <1>4 DEF Consumed
<1>6. \A i \in 1..Len(buf) : buf[i] = input[i + d]
  BY <1>1, <1>4 DEF TailInv
<1>7. input[p] = LF /\ p \in Ends
  BY <1>1, <1>2, <1>5, <1>6 DEF Ends
<1>8. \A i \in Ends : i <= p => i <= c \/ i = p
  <2> SUFFICES ASSUME NEW i \in Ends, i < p, c < i PROVE FALSE
    BY <1>1, <1>5 DEF Ends
  <2>1. i \in 1..Len(input) /\ input[i] = LF
    BY <1>1 DEF Ends
  <2>2. i - d \in (readPos + 1)..(n - 1) /\ i - d \in 1..Len(buf) /\ (i - d) + d = i
    BY <1>1, <1>2, <1>5, <2>1
  <2> QED  BY <1>2, <1>6, <2>1, <2>2
<1>9. Ends' = Ends /\ \A e \in Ends : Rank(e)' = Rank(e) /\ Line(e)' = Line(e)
  BY <1>2 DEF Ends, Rank, Line
<1>10. Line(p) = SubSeq(buf, readPos + 1, n - 1)
  <2> DEFINE S == {0} \cup {i \in Ends : i < p}
  <2>1. Max(S) \in S /\ \A i \in S : i <= Max(S)
    BY <1>7, LineStart
  <2>2. c \in S
    BY <1>1, <1>3, <1>5 DEF ConsumedInv
  <2>3. \A i \in S : i <= c
    BY <1>5, <1>8
  <2>4. S \subseteq Nat
    BY <1>1 DEF Ends
  <2> HIDE DEF S
  <2>5. Max(S) = c
    <3>1. c <= Max(S) /\ Max(S) <= c /\ Max(S) \in Nat
      BY <2>1, <2>2, <2>3, <2>4
    <3> QED  BY <1>5, <3>1
  <2>6. Line(p) = SubSeq(input, c + 1, p - 1)
    BY <2>5 DEF Line, S
  <2>7. SubSeq(buf, readPos + 1, n - 1) = SubSeq(input, c + 1, p - 1)
    <3>1. /\ readPos + 1 \in Nat /\ n - 1 \in Nat /\ 0 < readPos + 1 /\ readPos + 1 <= (n - 1) + 1 /\ n - 1 <= Len(buf)
          /\ c + 1 \in Nat /\ p - 1 \in Nat /\ 0 < c + 1 /\ p - 1 <= Len(input) /\ (p - 1) - (c + 1) = (n - 1) - (readPos + 1)
      <4>1. readPos \in Nat /\ n \in Nat /\ readPos < n /\ n <= Len(buf) /\ Len(buf) \in Nat /\ Len(input) \in Nat
        BY <1>1, <1>2, <1>5
      <4>2. c \in Nat /\ c = readPos + d /\ p \in Nat /\ c < p /\ p <= Len(input)
        BY <1>1, <1>5
      <4> QED  BY <4>1, <4>2
    <3>2. ASSUME NEW i \in (readPos + 1)..(n - 1) PROVE buf[i] = input[i + ((c + 1) - (readPos + 1))]
      <4>1. i \in 1..Len(buf) /\ i + d = i + ((c + 1) - (readPos + 1))
        BY <1>1, <1>2, <1>5
      <4> QED  BY <1>6, <4>1
    <3> DEFINE a == readPos + 1  b == n - 1  k == c + 1  l == p - 1
    <3>3. /\ a \in Nat /\ b \in Nat /\ 0 < a /\ a <= b + 1 /\ b <= Len(buf)
          /\ k \in Nat /\ l \in Nat /\ 0 < k /\ l <= Len(input) /\ l - k = b - a
      BY <3>1
    <3>4. \A i \in a..b : buf[i] = input[i + (k - a)]
      BY <3>2
    <3> HIDE DEF a, b, k, l
    <3>5. buf \in Seq(Bytes) /\ input \in Seq(Bytes)
      BY <1>1
    <3>6. SubSeq(buf, a, b) = SubSeq(input, k, l)
      BY <3>3, <3>4, <3>5, SlicesEqual
    <3> QED  BY <3>6 DEF a, b, k, l
  <2> QED  BY <2>6, <2>7
<1> HIDE DEF p, frame
<1>11. frames' = Append(frames, frame) /\ frame \in FrameSet /\ frame = Lines!FrameOf(Line(p))
  BY <1>2, <1>10 DEF frame
<1>12. /\ frames' \in Seq(FrameSet) /\ Len(frames') = Len(frames) + 1
       /\ \A i \in 1..Len(frames) : frames'[i] = frames[i]
       /\ frames'[Len(frames) + 1] = frame
  BY <1>1, <1>11, AppendProperties
<1>13. BufferInv'
  BY <1>1, <1>2, <1>5, <1>12 DEF BufferInv
<1>14. TailInv'
  BY <1>2 DEF TailInv
<1>15. Rank(p) = Rank(c) + 1 /\ Len(frames) = Rank(c)
  <2>1. {i \in Ends : i <= p} = {i \in Ends : i <= c} \cup {p}
    <3>1. \A i \in Ends : i <= c => i <= p
      BY <1>1, <1>5 DEF Ends
    <3>2. p \in Ends /\ p <= p
      BY <1>5, <1>7
    <3> QED  BY <1>8, <3>1, <3>2
  <2>2. p \notin {i \in Ends : i <= c} /\ IsFiniteSet({i \in Ends : i <= c})
    BY <1>5, Ranks
  <2>3. Cardinality({i \in Ends : i <= c} \cup {p}) = Cardinality({i \in Ends : i <= c}) + 1
    BY <2>2, FS_AddElement
  <2> QED  BY <1>3, <2>1, <2>3 DEF Rank, ConsumedInv
<1>16. ConsumedInv'
  <2>1. Consumed' \in Ends'
    BY <1>5, <1>7, <1>9
  <2>2. Rank(p)' = Rank(p)
    BY <1>7, <1>9
  <2>3. (Len(frames) = Rank(Consumed))'
    BY <1>5, <1>12, <1>15, <2>2 DEF Rank
  <2>4. ASSUME NEW e \in Ends', e <= p PROVE (frames[Rank(e)] = Lines!FrameOf(Line(e)))'
    <3>1. e \in Ends /\ Rank(e)' = Rank(e) /\ Line(e)' = Line(e)
      BY <1>9, <2>4
    <3>2. frames'[Rank(e)] = Lines!FrameOf(Line(e))
      <4>1. CASE e <= c
        <5>1. Rank(e) \in 1..Len(frames)
          BY <1>5, <1>15, <3>1, <4>1, Ranks
        <5>2. frames[Rank(e)] = Lines!FrameOf(Line(e))
          BY <1>3, <3>1, <4>1 DEF ConsumedInv
        <5> QED  BY <1>12, <5>1, <5>2
      <4>2. CASE e = p
        BY <1>11, <1>12, <1>15, <4>2
      <4> QED  BY <1>8, <2>4, <3>1, <4>1, <4>2
    <3> QED  BY <3>1, <3>2
  <2> QED  BY <1>5, <2>1, <2>3, <2>4 DEF ConsumedInv
<1> QED  BY <1>13, <1>14, <1>16 DEF IInv

LEMMA Inductive == Spec => []IInv
<1>1. Init => IInv
  <2> SUFFICES ASSUME Init PROVE IInv
    OBVIOUS
  <2>1. <<>> \in Seq(Bytes) /\ <<>> \in Seq(FrameSet) /\ Len(<<>>) = 0 /\ DOMAIN <<>> = {}
    BY EmptySeq
  <2>2. BufferInv
    BY <2>1 DEF Init, BufferInv
  <2>3. TailInv
    BY <2>1 DEF Init, TailInv
  <2>4. Ends = {} /\ Consumed = 0
    BY <2>1 DEF Init, Ends, Consumed
  <2>5. Rank(0) = 0
    <3>1. {i \in Ends : i <= 0} = {}
      BY <2>4
    <3> QED  BY <3>1, FS_EmptySet DEF Rank
  <2>6. ConsumedInv
    BY <2>1, <2>4, <2>5 DEF Init, ConsumedInv
  <2> QED  BY <2>2, <2>3, <2>6 DEF IInv
<1>2. IInv /\ UNCHANGED vars => IInv'
  BY DEF IInv, BufferInv, TailInv, ConsumedInv, vars, Consumed, Ends, Rank, Line
<1>3. IInv /\ [Next]_vars => IInv'
  BY <1>2, PushStep, PopStep DEF Next
<1> QED  BY <1>1, <1>3, PTL DEF Spec

-----------------------------------------------------------------------------
(* The theorems.                                                           *)

(* Whatever the chunks were and whenever pop was called, the frames are    *)
(* those of the first lines of the whole input, in order, and of all its   *)
(* lines when pop finds no more.                                           *)
THEOREM ChunksDoNotMatter == Spec => []ChunkingIrrelevant
<1>1. IInv => ChunkingIrrelevant
  <2> SUFFICES ASSUME IInv PROVE ChunkingIrrelevant
    OBVIOUS
  <2>1. BufferInv /\ TailInv /\ ConsumedInv
    BY DEF IInv
  <2>2. /\ Len(buf) \in Nat /\ Len(input) \in Nat /\ readPos \in 0..Len(buf) /\ Len(buf) <= Len(input)
        /\ Consumed \in 0..Len(input) /\ Consumed \in Nat
        /\ DOMAIN input = 1..Len(input)
    BY <2>1, Lengths DEF BufferInv
  <2>3. Len(frames) = Rank(Consumed) /\ Rank(Consumed) \in Nat /\ Len(frames) <= Cardinality(Ends)
    BY <2>1, <2>2, Ranks DEF ConsumedInv
  <2>4. ASSUME NEW e \in Ends, Rank(e) <= Len(frames) PROVE frames[Rank(e)] = Lines!FrameOf(Line(e))
    <3>0. e \in Nat
      BY <2>2 DEF Ends
    <3>1. Rank(e) \in Nat /\ e \in Nat
      BY <2>1, <3>0, Ranks
    <3>2. ~(Consumed < e)
      <4>1. Consumed < e => Rank(Consumed) < Rank(e)
        BY <2>1, <2>2, Ranks
      <4> QED  BY <2>3, <2>4, <3>1, <4>1
    <3> QED  BY <2>1, <2>2, <3>1, <3>2 DEF ConsumedInv
  <2>5. ASSUME NewlinesFrom(readPos) = {} PROVE Len(frames) = Cardinality(Ends)
    <3>1. \A i \in Ends : i <= Consumed
      <4> SUFFICES ASSUME NEW i \in Ends, Consumed < i PROVE FALSE
        BY <2>2 DEF Ends
      <4> DEFINE j == i - (Len(input) - Len(buf))
      <4>1. j \in (readPos + 1)..Len(buf) /\ Len(input) - Len(buf) + j = i
        BY <2>2 DEF Ends, Consumed
      <4> HIDE DEF j
      <4>2. buf[j] = LF
        BY <2>1, <2>2, <4>1 DEF TailInv, Ends
      <4> QED  BY <2>5, <4>1, <4>2 DEF NewlinesFrom
    <3>2. {i \in Ends : i <= Consumed} = Ends
      BY <3>1
    <3> QED  BY <2>3, <3>2 DEF Rank
  <2> QED  BY <2>3, <2>4, <2>5 DEF ChunkingIrrelevant
<1> QED  BY <1>1, Inductive, PTL

(* Consumed bytes do not pile up: a push compacts the buffer as soon as    *)
(* half of it is consumed.                                                 *)
THEOREM MemoryIsBounded == Spec => MemoryBound
<1>1. IInv /\ [Next]_vars => [input' # input => 2 * readPos' < Len(buf')]_vars
  <2> SUFFICES ASSUME IInv, [Next]_vars, input' # input PROVE 2 * readPos' < Len(buf')
    OBVIOUS
  <2>1. PICK bytes \in Chunks : push(bytes)
    BY DEF Next, pop, vars
  <2>2. BufferInv
    BY DEF IInv
  <2>3. Len(buf) \in Nat /\ readPos \in 0..Len(buf) /\ Len(bytes) \in Nat \ {0}
    BY <2>1, <2>2, Lengths, PushShape DEF BufferInv
  <2>4. PICK k \in 0..readPos : readPos' = readPos - k /\ Len(buf') = Len(buf) - k + Len(bytes)
    BY <2>1, <2>2, PushShape
  <2>5. CASE readPos' = 0
    BY <2>3, <2>4, <2>5
  <2>6. CASE readPos' # 0
    <3>1. ~Compacts /\ readPos' = readPos /\ k = 0
      BY <2>1, <2>3, <2>4, <2>6 DEF push
    <3>2. 2 * readPos < Len(buf)
      BY <2>3, <2>6, <3>1 DEF Compacts
    <3> QED  BY <2>3, <2>4, <3>1, <3>2
  <2> QED  BY <2>5, <2>6
<1> QED  BY <1>1, Inductive, PTL DEF Spec, MemoryBound

(* The framer is a LineStream: push delivers bytes, pop cuts the first     *)
(* line of what is left.                                                   *)
THEOREM ImplementsLines == Spec => LinesSpec
<1>1. Init => Lines!Init
  <2> SUFFICES ASSUME Init PROVE Lines!Init
    OBVIOUS
  <2>1. SubSeq(<<>>, 0 + 1, Len(<<>>)) = <<>>
    BY EmptySeq, SubSeqEmpty
  <2> QED  BY <2>1 DEF Init, Lines!Init
<1>2. IInv /\ [Next]_vars => [Lines!Next]_(Lines!vars)
  <2> SUFFICES ASSUME IInv, [Next]_vars PROVE [Lines!Next]_(Lines!vars)
    OBVIOUS
  <2>1. BufferInv
    BY DEF IInv
  <2>2. /\ Len(buf) \in Nat /\ readPos \in 0..Len(buf) /\ buf \in Seq(Bytes) /\ readPos \in Nat
    BY <2>1, Lengths DEF BufferInv
  <2> DEFINE rest == SubSeq(buf, readPos + 1, Len(buf))
  <2>3. /\ rest \in Seq(Bytes) /\ Len(rest) = Len(buf) - readPos /\ DOMAIN rest = 1..(Len(buf) - readPos)
        /\ \A i \in 1..(Len(buf) - readPos) : rest[i] = buf[readPos + i]
    <3>1. /\ rest \in Seq(Bytes) /\ Len(rest) = Len(buf) - (readPos + 1) + 1
          /\ DOMAIN rest = 1..(Len(buf) - (readPos + 1) + 1)
          /\ \A i \in 1..(Len(buf) - (readPos + 1) + 1) : rest[i] = buf[(readPos + 1) + i - 1]
      BY <2>2, readPos + 1 \in Nat, readPos + 1 <= Len(buf) + 1, Slice
    <3> HIDE DEF rest
    <3> QED  BY <2>2, <3>1
  <2>4. ASSUME NEW bytes \in Chunks, push(bytes) PROVE Lines!Deliver
    <3>1. Len(bytes) \in Nat \ {0} /\ UNCHANGED frames
      BY <2>1, <2>4, PushShape DEF push
    <3>2. PICK k \in 0..readPos :
            /\ readPos' = readPos - k
            /\ buf' \in Seq(Bytes) /\ Len(buf') = Len(buf) - k + Len(bytes)
            /\ \A i \in 1..(Len(buf) - k) : buf'[i] = buf[i + k]
      BY <2>1, <2>4, PushShape
    <3>3. /\ rest' \in Seq(Bytes) /\ Len(rest') = Len(buf') - readPos'
          /\ \A i \in 1..(Len(buf') - readPos') : rest'[i] = buf'[readPos' + i]
      <4>1. readPos' \in Nat /\ Len(buf') \in Nat /\ readPos' + 1 <= Len(buf') + 1 /\ readPos' + 1 \in Nat
        BY <2>2, <3>1, <3>2
      <4>2. /\ rest' \in Seq(Bytes) /\ Len(rest') = Len(buf') - (readPos' + 1) + 1
            /\ \A i \in 1..(Len(buf') - (readPos' + 1) + 1) : rest'[i] = buf'[(readPos' + 1) + i - 1]
        BY <3>2, <4>1, Slice
      <4> HIDE DEF rest
      <4>3. ASSUME NEW i \in 1..(Len(buf') - readPos') PROVE rest'[i] = buf'[readPos' + i]
        <5>1. i \in 1..(Len(buf') - (readPos' + 1) + 1) /\ (readPos' + 1) + i - 1 = readPos' + i
          BY <4>1
        <5> QED  BY <4>2, <5>1
      <4> QED  BY <4>1, <4>2, <4>3
    <3> HIDE DEF rest
    <3>4. Len(rest) \in Nat /\ Len(rest') \in Nat /\ Len(rest') > Len(rest)
      BY <2>2, <2>3, <3>1, <3>2, <3>3
    <3>5. ASSUME NEW i \in 1..Len(rest) PROVE rest'[i] = rest[i]
      <4>1. i \in 1..(Len(buf') - readPos') /\ readPos' + i \in 1..(Len(buf) - k) /\ (readPos' + i) + k = readPos + i
        BY <2>2, <2>3, <3>1, <3>2
      <4>2. rest'[i] = buf'[readPos' + i] /\ buf'[readPos' + i] = buf[(readPos' + i) + k]
        BY <3>2, <3>3, <4>1
      <4> QED  BY <2>3, <4>1, <4>2
    <3>6. SubSeq(rest', 1, Len(rest)) = rest
      <4> DEFINE s == SubSeq(rest', 1, Len(rest))
      <4>1. s \in Seq(Bytes) /\ Len(s) = Len(rest) - 1 + 1 /\ \A i \in 1..(Len(rest) - 1 + 1) : s[i] = rest'[1 + i - 1]
        BY <3>3, <3>4, 1 \in Nat, 1 <= Len(rest) + 1, Slice
      <4> HIDE DEF s
      <4>2. Len(s) = Len(rest) /\ \A i \in 1..Len(s) : s[i] = rest[i]
        BY <3>4, <3>5, <4>1
      <4>3. s = rest
        BY <2>3, <4>1, <4>2, SeqEqual
      <4> QED  BY <4>3 DEF s
    <3> QED  BY <3>1, <3>4, <3>6 DEF Lines!Deliver, rest
  <2>5. CASE pop
    <3>1. PICK n \in (readPos + 1)..Len(buf) :
            /\ buf[n] = LF /\ \A i \in (readPos + 1)..(n - 1) : buf[i] # LF
            /\ readPos' = n /\ UNCHANGED <<buf, input>>
            /\ frames' = Append(frames, Lines!FrameOf(SubSeq(buf, readPos + 1, n - 1)))
      BY <2>1, <2>5, PopShape
    <3> DEFINE m == n - readPos
    <3>2. m \in DOMAIN rest /\ m \in Nat /\ m - 1 \in Nat /\ n = readPos + m /\ n \in Nat
      BY <2>2, <2>3
    <3>3. rest[m] = LF
      BY <2>3, <3>1, <3>2
    <3>4. \A i \in 1..(m - 1) : rest[i] # LF
      <4> SUFFICES ASSUME NEW i \in 1..(m - 1) PROVE rest[i] # LF
        OBVIOUS
      <4>1. readPos + i \in (readPos + 1)..(n - 1) /\ i \in 1..(Len(buf) - readPos)
        BY <2>2, <3>2
      <4> QED  BY <2>3, <3>1, <4>1
    <3> HIDE DEF m
    <3>5. SubSeq(rest, 1, m - 1) = SubSeq(buf, readPos + 1, n - 1)
      <4>1. ASSUME NEW i \in 1..(m - 1) PROVE rest[i] = buf[i + ((readPos + 1) - 1)]
        <5>1. i \in 1..(Len(buf) - readPos) /\ readPos + i = i + ((readPos + 1) - 1)
          BY <2>2, <3>2
        <5> QED  BY <2>3, <5>1
      <4>2. /\ 1 \in Nat /\ 1 <= (m - 1) + 1 /\ 0 < 1 /\ m - 1 <= Len(rest) /\ readPos + 1 \in Nat /\ n - 1 \in Nat
            /\ 0 < readPos + 1 /\ n - 1 <= Len(buf) /\ (n - 1) - (readPos + 1) = (m - 1) - 1
        BY <2>2, <2>3, <3>2
      <4> HIDE DEF rest
      <4> DEFINE a == m - 1  k == readPos + 1  l == n - 1
      <4>3. /\ 1 \in Nat /\ a \in Nat /\ 0 < 1 /\ 1 <= a + 1 /\ a <= Len(rest)
            /\ k \in Nat /\ l \in Nat /\ 0 < k /\ l <= Len(buf) /\ l - k = a - 1
        BY <3>2, <4>2
      <4>4. \A i \in 1..a : rest[i] = buf[i + (k - 1)]
        BY <4>1
      <4> HIDE DEF a, k, l
      <4>5. SubSeq(rest, 1, a) = SubSeq(buf, k, l)
        BY <2>2, <2>3, <4>3, <4>4, SlicesEqual
      <4> QED  BY <4>5 DEF a, k, l
    <3>6. SubSeq(rest, m + 1, Len(rest)) = rest'
      <4>1. rest' = SubSeq(buf, n + 1, Len(buf))
        BY <3>1
      <4>2. ASSUME NEW i \in (m + 1)..Len(rest) PROVE rest[i] = buf[i + ((n + 1) - (m + 1))]
        <5>1. i \in 1..(Len(buf) - readPos) /\ readPos + i = i + ((n + 1) - (m + 1))
          BY <2>2, <2>3, <3>2
        <5> QED  BY <2>3, <5>1
      <4>3. /\ m + 1 \in Nat /\ Len(rest) \in Nat /\ 0 < m + 1 /\ m + 1 <= Len(rest) + 1 /\ Len(rest) <= Len(rest)
            /\ n + 1 \in Nat /\ 0 < n + 1 /\ Len(buf) <= Len(buf) /\ Len(buf) - (n + 1) = Len(rest) - (m + 1)
        BY <2>2, <2>3, <3>2
      <4> HIDE DEF rest
      <4> DEFINE a == m + 1  b == Len(rest)  k == n + 1  l == Len(buf)
      <4>4. /\ a \in Nat /\ b \in Nat /\ 0 < a /\ a <= b + 1 /\ b <= Len(rest)
            /\ k \in Nat /\ l \in Nat /\ 0 < k /\ l <= Len(buf) /\ l - k = b - a
        BY <2>2, <4>3
      <4>5. \A i \in a..b : rest[i] = buf[i + (k - a)]
        BY <4>2
      <4> HIDE DEF a, b, k, l
      <4>6. rest \in Seq(Bytes) /\ buf \in Seq(Bytes)
        BY <2>2, <2>3
      <4>7. SubSeq(rest, a, b) = SubSeq(buf, k, l)
        BY <4>4, <4>5, <4>6, SlicesEqual
      <4> QED  BY <4>1, <4>7 DEF a, b, k, l
    <3>7. frames' = Append(frames, Lines!FrameOf(SubSeq(rest, 1, m - 1)))
      BY <3>1, <3>5
    <3> HIDE DEF rest
    <3>8. \E j \in DOMAIN rest :
            /\ rest[j] = LF /\ \A i \in 1..(j - 1) : rest[i] # LF
            /\ frames' = Append(frames, Lines!FrameOf(SubSeq(rest, 1, j - 1)))
            /\ rest' = SubSeq(rest, j + 1, Len(rest))
      BY <3>2, <3>3, <3>4, <3>6, <3>7
    <3>9. Lines!Cut
      BY <3>8 DEF Lines!Cut, rest
    <3> QED  BY <3>9 DEF Lines!Next
  <2>6. CASE UNCHANGED vars
    BY <2>6 DEF vars, Lines!vars
  <2> QED  BY <2>4, <2>5, <2>6 DEF Next, Lines!Next
<1> QED  BY <1>1, <1>2, Inductive, PTL DEF Spec, LinesSpec, Lines!Spec
=============================================================================
