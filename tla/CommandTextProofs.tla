-------------------------- MODULE CommandTextProofs --------------------------
(***************************************************************************)
(* Theorems about the text that framewalk writes, for any alphabet, texts  *)
(* of any length and commands of any number of parts: every command        *)
(* arrives as itself, and the guard of raw commands reads the operation    *)
(* that GDB reads.                                                         *)
(*                                                                         *)
(* The argument goes from the small to the large.  An escape, written and  *)
(* read, is its byte; so a text, written as a c-string and read, is that   *)
(* text, and a word that is written as it is ends where a blank or the     *)
(* line does.  The words of a line that begins with the line of an option  *)
(* are that option's words and those of the rest; and the words of a       *)
(* command, read as options and parameters, are its options and its        *)
(* parameters.  Loops over a line or over the parts of a command are read  *)
(* by induction on what is left of them.                                   *)
(***************************************************************************)
EXTENDS CommandText, Lemmas

-----------------------------------------------------------------------------
(* Positions of a line.                                                    *)

Bytes ==
  (Alphabet \cup Keys \cup DOMAIN Code \cup DOMAIN AnyHex \cup DOMAIN Unnamed
     \cup {"xFF", "x", "-", "SP", "operation"}) \ {"end"}

At(line, p, s) ==
  /\ p \in Nat \ {0} /\ p + Len(s) <= Len(line) + 1
  /\ \A i \in 1..Len(s) : line[p + i - 1] = s[i]

(* What is written at a position lies there in its two parts.              *)
LEMMA AtPartsOf ==
  ASSUME NEW S, NEW line \in Seq(S), NEW p, NEW s \in Seq(S), NEW t \in Seq(S), At(line, p, s \o t)
  PROVE  At(line, p, s) /\ At(line, p + Len(s), t)
<1>1. /\ Len(s \o t) = Len(s) + Len(t) /\ Len(s) \in Nat /\ Len(t) \in Nat /\ Len(line) \in Nat
      /\ \A i \in 1..Len(s) : (s \o t)[i] = s[i]
      /\ \A i \in 1..Len(t) : (s \o t)[Len(s) + i] = t[i]
  OBVIOUS
<1> DEFINE u == s \o t
<1>0. /\ p \in Nat \ {0} /\ p + Len(u) <= Len(line) + 1
      /\ \A i \in 1..Len(u) : line[p + i - 1] = u[i]
  <2>1. At(line, p, u)
    OBVIOUS
  <2> HIDE DEF u
  <2> QED  BY <2>1 DEF At
<1>2. /\ p \in Nat \ {0} /\ p + Len(s) + Len(t) <= Len(line) + 1
      /\ \A i \in 1..(Len(s) + Len(t)) : line[p + i - 1] = (s \o t)[i]
  BY <1>0, <1>1
<1> HIDE DEF u
<1>3. At(line, p, s)
  <2>1. ASSUME NEW i \in 1..Len(s) PROVE line[p + i - 1] = s[i]
    <3>1. i \in 1..(Len(s) + Len(t))
      BY <1>1
    <3> QED  BY <1>1, <1>2, <3>1
  <2>2. p + Len(s) <= Len(line) + 1
    BY <1>1, <1>2
  <2> QED  BY <1>2, <2>1, <2>2 DEF At
<1>4. ASSUME NEW i \in 1..Len(t) PROVE line[(p + Len(s)) + i - 1] = t[i]
  <2>1. Len(s) + i \in 1..(Len(s) + Len(t)) /\ p + (Len(s) + i) - 1 = (p + Len(s)) + i - 1
    BY <1>1, <1>2
  <2>2. line[p + (Len(s) + i) - 1] = (s \o t)[Len(s) + i]
    BY <1>2, <2>1
  <2> QED  BY <1>1, <2>1, <2>2
<1>5. At(line, p + Len(s), t)
  BY <1>1, <1>2, <1>4 DEF At
<1> QED  BY <1>3, <1>5

LEMMA AtParts ==
  ASSUME NEW line \in Seq(Bytes), NEW p, NEW s \in Seq(Bytes), NEW t \in Seq(Bytes), At(line, p, s \o t)
  PROVE  At(line, p, s) /\ At(line, p + Len(s), t)
BY AtPartsOf

LEMMA AtWhole ==
  ASSUME NEW line \in Seq(Bytes) PROVE At(line, 1, line)
BY DEF At

(* Peek is the byte at a position, and "end" after the last one.           *)
LEMMA PeekIs ==
  ASSUME NEW line \in Seq(Bytes), NEW p \in 1..(Len(line) + 1)
  PROVE  /\ p <= Len(line) => Peek(line, p) = line[p] /\ Peek(line, p) \in Bytes
         /\ (Peek(line, p) = "end" <=> p = Len(line) + 1)
<1>1. p <= Len(line) => line[p] \in Bytes /\ line[p] # "end"
  BY DEF Bytes
<1>2. Len(line) \in Nat /\ p \in Nat
  OBVIOUS
<1> QED  BY <1>1, <1>2 DEF Peek

(* A run ends at the first position that does not belong to it.            *)
LEMMA RunIs ==
  ASSUME NEW line \in Seq(Bytes), NEW p \in 1..(Len(line) + 1), NEW S, NEW q \in p..(Len(line) + 1),
         Peek(line, q) \notin S, \A i \in p..(q - 1) : Peek(line, i) \in S
  PROVE  Run(line, p, S) = q
<1>1. \A r \in p..(Len(line) + 1) :
         Peek(line, r) \notin S /\ (\A i \in p..(r - 1) : Peek(line, i) \in S) => r = q
  <2> SUFFICES ASSUME NEW r \in p..(Len(line) + 1), Peek(line, r) \notin S,
                      \A i \in p..(r - 1) : Peek(line, i) \in S
               PROVE  r = q
    OBVIOUS
  <2>1. ~ (r < q)
    <3>1. r < q => r \in p..(q - 1)
      OBVIOUS
    <3> QED  BY <3>1
  <2>2. ~ (q < r)
    <3>1. q < r => q \in p..(r - 1)
      OBVIOUS
    <3> QED  BY <3>1
  <2> QED  BY <2>1, <2>2
<1> QED  BY <1>1 DEF Run

(* A run of bytes ends within the line.                                    *)
LEMMA RunStops ==
  ASSUME NEW line \in Seq(Bytes), NEW p \in 1..(Len(line) + 1), NEW S, "end" \notin S
  PROVE  /\ Run(line, p, S) \in p..(Len(line) + 1)
         /\ Peek(line, Run(line, p, S)) \notin S
         /\ \A i \in p..(Run(line, p, S) - 1) : Peek(line, i) \in S
<1> DEFINE Ends == {q \in p..(Len(line) + 1) : Peek(line, q) \notin S}
<1>1. Ends \in SUBSET Nat
  OBVIOUS
<1>2. Len(line) + 1 \in Ends
  BY PeekIs
<1>3. PICK q \in Ends : \A r \in Ends : q <= r
  <2> HIDE DEF Ends
  <2> QED  BY <1>1, <1>2, MinOfNat
<1>4. \A i \in p..(q - 1) : Peek(line, i) \in S
  <2> SUFFICES ASSUME NEW i \in p..(q - 1) PROVE Peek(line, i) \in S
    OBVIOUS
  <2>1. i \in p..(Len(line) + 1) /\ ~ (q <= i)
    BY <1>3
  <2>2. i \notin Ends
    <3> HIDE DEF Ends
    <3> QED  BY <1>3, <2>1
  <2> QED  BY <2>1, <2>2
<1>5. q \in p..(Len(line) + 1) /\ Peek(line, q) \notin S
  BY <1>3
<1> HIDE DEF Ends
<1>6. Run(line, p, S) = q
  BY <1>4, <1>5, RunIs
<1> QED  BY <1>4, <1>5, <1>6

-----------------------------------------------------------------------------
(* The codes of bytes, and the escapes that are written of them.           *)

(* The digit that is written of a nibble is read as that nibble.           *)
LEMMA Nibbles ==
  \A n \in 0..15 : /\ Nibble(n) \in DOMAIN AnyHex /\ AnyHex[Nibble(n)] = n
                   /\ Nibble(n) \in Bytes \ {"NL"}
<1> SUFFICES ASSUME NEW n \in 0..15
             PROVE  /\ Nibble(n) \in DOMAIN AnyHex /\ AnyHex[Nibble(n)] = n
                    /\ Nibble(n) \in Bytes \ {"NL"}
  OBVIOUS
<1>1. \A i \in 1..16 : Place(Hex, Hex[i]) = i - 1
  BY DEF Hex, Place
<1>2. n + 1 \in 1..16 /\ (n + 1) - 1 = n
  OBVIOUS
<1>3. Nibble(n) \in ToSet(Hex)
  <2>1. DOMAIN Hex = 1..16
    BY DEF Hex
  <2> QED  BY <1>2, <2>1 DEF Nibble, ToSet
<1>4. Nibble(n) \in DOMAIN AnyHex /\ AnyHex[Nibble(n)] = Place(Hex, Nibble(n))
  BY <1>3 DEF AnyHex
<1>5. Place(Hex, Nibble(n)) = n
  BY <1>1, <1>2 DEF Nibble
<1>6. \A i \in 1..16 : Hex[i] \notin {"end", "NL"}
  BY DEF Hex
<1>7. Nibble(n) \in Bytes \ {"NL"}
  BY <1>2, <1>4, <1>6 DEF Nibble, Bytes
<1> QED  BY <1>4, <1>5, <1>7

(* No two bytes have one code.                                             *)
LEMMA CodeTable ==
  /\ "end" \notin DOMAIN Code /\ {"NL", "QUOTE", "BSLASH"} \subseteq DOMAIN Code
  /\ \A b \in DOMAIN Code : Code[b] \in 0..255
  /\ \A a, b \in DOMAIN Code : Code[a] = Code[b] => a = b
<1>1. \A b \in DOMAIN Code : Code[b] \in 0..255
  BY DEF Code
<1>2. \A a, b \in DOMAIN Code : Code[a] = Code[b] => a = b
  BY DEF Code
<1>3. "end" \notin DOMAIN Code /\ {"NL", "QUOTE", "BSLASH"} \subseteq DOMAIN Code
  BY DEF Code
<1> QED  BY <1>1, <1>2, <1>3

(* The names that escapes give are read back.                              *)
LEMMA Names ==
  /\ DOMAIN Named = {"NL", "CR", "TAB", "BEL", "BS", "VT", "FF", "QUOTE", "BSLASH"}
  /\ DOMAIN Unnamed = {"a", "b", "f", "n", "r", "t", "v", "QUOTE", "BSLASH", "'", "?"}
  /\ \A b \in DOMAIN Named : Named[b] \in DOMAIN Unnamed /\ Unnamed[Named[b]] = b
<1>1. DOMAIN Named = {"NL", "CR", "TAB", "BEL", "BS", "VT", "FF", "QUOTE", "BSLASH"}
  BY DEF Named
<1>2. DOMAIN Unnamed = {"a", "b", "f", "n", "r", "t", "v", "QUOTE", "BSLASH", "'", "?"}
  BY DEF Unnamed
<1>3. \A b \in DOMAIN Named : Named[b] \in DOMAIN Unnamed /\ Unnamed[Named[b]] = b
  BY DEF Named, Unnamed
<1> QED  BY <1>1, <1>2, <1>3

(* A control character without a name of its own is the byte of its code.  *)
LEMMA Controls ==
  \A b \in Control \ DOMAIN Named : Code[b] \in 0..255 /\ ByteOf(Code[b]) = b
<1> SUFFICES ASSUME NEW b \in Control PROVE Code[b] \in 0..255 /\ ByteOf(Code[b]) = b
  OBVIOUS
<1>1. b \in DOMAIN Code
  BY DEF Control
<1> QED  BY <1>1, CodeTable DEF ByteOf

(* A byte is written as itself, as a named escape or as a hex escape.      *)
LEMMA EscapeCases ==
  ASSUME NEW b \in Bytes
  PROVE  \/ Escaped(b) = <<b>> /\ b \notin {"QUOTE", "BSLASH", "NL"}
         \/ \E c \in DOMAIN Unnamed : Escaped(b) = <<"BSLASH", c>> /\ Unnamed[c] = b
         \/ \E m, n \in DOMAIN AnyHex : /\ Escaped(b) = <<"BSLASH", "x", m, n>>
                                       /\ ByteOf(16 * AnyHex[m] + AnyHex[n]) = b
<1>1. CASE b \in DOMAIN Named
  <2>1. Named[b] \in DOMAIN Unnamed /\ Unnamed[Named[b]] = b
    BY <1>1, Names
  <2> QED  BY <1>1, <2>1 DEF Escaped
<1>2. CASE b \in Control \ DOMAIN Named
  <2> DEFINE m == Nibble(Code[b] \div 16)
             n == Nibble(Code[b] % 16)
  <2>1. Escaped(b) = <<"BSLASH", "x", m, n>>
    BY <1>2 DEF Escaped
  <2>2. Code[b] \in 0..255 /\ ByteOf(Code[b]) = b
    BY <1>2, Controls
  <2>3. Code[b] \div 16 \in 0..15 /\ Code[b] % 16 \in 0..15 /\ 16 * (Code[b] \div 16) + (Code[b] % 16) = Code[b]
    BY <2>2
  <2>4. /\ m \in DOMAIN AnyHex /\ n \in DOMAIN AnyHex
        /\ AnyHex[m] = Code[b] \div 16 /\ AnyHex[n] = Code[b] % 16
    BY <2>3, Nibbles
  <2> HIDE DEF m, n
  <2> QED  BY <2>1, <2>2, <2>3, <2>4
<1>3. CASE b \notin DOMAIN Named /\ b \notin Control
  <2>1. Escaped(b) = <<b>>
    BY <1>3 DEF Escaped
  <2>2. b \notin {"QUOTE", "BSLASH", "NL"}
    BY <1>3, Names
  <2> QED  BY <2>1, <2>2
<1> QED  BY <1>1, <1>2, <1>3

-----------------------------------------------------------------------------
(* Reading an escape.                                                      *)

Reads(line) == {Fail} \cup [ok : {TRUE}, at : 1..(Len(line) + 1), value : Seq(Bytes)]

(* The bytes that the codec knows are bytes, and different ones.           *)
LEMMA Marks ==
  /\ {"QUOTE", "BSLASH", "SP", "-", "x", "NL"} \subseteq Bytes
  /\ DOMAIN Unnamed \subseteq Bytes /\ DOMAIN AnyHex \subseteq Bytes
  /\ \A c \in DOMAIN Unnamed : Unnamed[c] \in Bytes
  /\ \A n : ByteOf(n) \in Bytes
  /\ {"end", "NL", "SP", "QUOTE", "BSLASH", "TAB", "CR"} \cap DOMAIN AnyHex = {} /\ "x" \notin DOMAIN Unnamed /\ "end" \notin Octals
  /\ Alphabet \cup Keys \cup {"operation"} \subseteq Bytes
<1>1. {"end", "NL", "SP", "QUOTE", "BSLASH", "TAB", "CR"} \cap DOMAIN AnyHex = {}
  <2>1. \A i \in 1..16 : Hex[i] \notin {"end", "NL", "SP", "QUOTE", "BSLASH", "TAB", "CR"}
    BY DEF Hex
  <2>2. \A i \in 1..6 : UpperHex[i] \notin {"end", "NL", "SP", "QUOTE", "BSLASH", "TAB", "CR"}
    BY DEF UpperHex
  <2>3. DOMAIN Hex = 1..16 /\ DOMAIN UpperHex = 1..6
    BY DEF Hex, UpperHex
  <2> QED  BY <2>1, <2>2, <2>3 DEF AnyHex, ToSet
<1>2. \A c \in DOMAIN Unnamed : Unnamed[c] \in DOMAIN Code \cup DOMAIN Unnamed
  BY DEF Unnamed, Code
<1>3. "end" \notin DOMAIN Unnamed /\ "x" \notin DOMAIN Unnamed
  BY Names
<1>4. \A n : ByteOf(n) \in DOMAIN Code \cup {"xFF"}
  BY DEF ByteOf
<1>5. "end" \notin Alphabet \cup Keys
  BY TextAssumption
<1> QED  BY <1>1, <1>2, <1>3, <1>4, <1>5, CodeTable DEF Bytes, Octals

LEMMA Apart ==
  \A b : /\ b \in DOMAIN Unnamed => b # "x" /\ b \notin Octals
         /\ b \in Octals => b # "x"
BY Names DEF Octals

(* decode_escape fails, or goes on by at least one byte.                   *)
LEMMA DecodeReads ==
  ASSUME NEW line \in Seq(Bytes), NEW p \in 1..(Len(line) + 1)
  PROVE  \/ decode_escape(line, p) = Fail
         \/ decode_escape(line, p) \in [ok : {TRUE}, at : (p + 1)..(Len(line) + 1), value : Bytes]
<1> DEFINE b == Peek(line, p)
           end == Least(Run(line, p, Octals), p + 3)
<1>1. CASE b \in DOMAIN Unnamed
  <2>1. b # "end"
    BY <1>1, Marks, Names
  <2>2. p + 1 \in (p + 1)..(Len(line) + 1)
    BY <2>1, PeekIs
  <2>3. Unnamed[b] \in Bytes
    BY <1>1, Marks
  <2>4. decode_escape(line, p) = Ok(p + 1, Unnamed[b])
    BY <1>1, Apart DEF decode_escape
  <2> QED  BY <2>2, <2>3, <2>4 DEF Ok
<1>2. CASE b \notin DOMAIN Unnamed /\ b = "x" /\ {Peek(line, p + 1), Peek(line, p + 2)} \subseteq DOMAIN AnyHex
  <2> DEFINE n == 16 * AnyHex[line[p + 1]] + AnyHex[line[p + 2]]
  <2>1. decode_escape(line, p) = Ok(p + 3, ByteOf(n))
    BY <1>2, Apart DEF decode_escape
  <2>2. Peek(line, p + 2) # "end"
    BY <1>2, Marks
  <2>3. p + 2 <= Len(line)
    BY <2>2 DEF Peek
  <2>4. ByteOf(n) \in Bytes
    BY Marks
  <2> HIDE DEF n
  <2> QED  BY <2>1, <2>3, <2>4 DEF Ok
<1>3. CASE b \in Octals
  <2>0. b \notin DOMAIN Unnamed /\ b # "x"
    BY <1>3, Apart
  <2> DEFINE n == OctalCode(SubSeq(line, p, end - 1)) % 256
  <2>1. decode_escape(line, p) = Ok(end, ByteOf(n))
    BY <2>0, <1>3 DEF decode_escape
  <2>2. /\ Run(line, p, Octals) \in p..(Len(line) + 1) /\ Peek(line, Run(line, p, Octals)) \notin Octals
    BY RunStops, Marks
  <2>3. Run(line, p, Octals) # p
    BY <2>2, <1>3
  <2>4. end \in (p + 1)..(Len(line) + 1)
    BY <2>2, <2>3 DEF Least
  <2>5. ByteOf(n) \in Bytes
    BY Marks
  <2> HIDE DEF n, end
  <2> QED  BY <2>1, <2>4, <2>5 DEF Ok
<1>4. CASE /\ b \notin DOMAIN Unnamed /\ b \notin Octals
           /\ ~ (b = "x" /\ {Peek(line, p + 1), Peek(line, p + 2)} \subseteq DOMAIN AnyHex)
  <2> QED  BY <1>4 DEF decode_escape
<1> QED  BY <1>1, <1>2, <1>3, <1>4

(* What an escape that the encoder writes is read as.                      *)
LEMMA DecodeWritten ==
  ASSUME NEW line \in Seq(Bytes), NEW p, NEW b \in Bytes, Len(Escaped(b)) > 1, At(line, p, Escaped(b))
  PROVE  Peek(line, p) = "BSLASH" /\ decode_escape(line, p + 1) = Ok(p + Len(Escaped(b)), b)
<1>0. "x" \notin DOMAIN Unnamed
  BY Marks
<1>1. ASSUME NEW c \in DOMAIN Unnamed, Escaped(b) = <<"BSLASH", c>>, Unnamed[c] = b
      PROVE  Peek(line, p) = "BSLASH" /\ decode_escape(line, p + 1) = Ok(p + Len(Escaped(b)), b)
  <2>1. At(line, p, <<"BSLASH", c>>)
    BY <1>1
  <2>2. p \in Nat /\ p + 1 <= Len(line) /\ line[p] = "BSLASH" /\ line[p + 1] = c
    BY <2>1 DEF At
  <2>3. Peek(line, p) = "BSLASH" /\ Peek(line, p + 1) = c
    BY <2>2 DEF Peek
  <2>4. decode_escape(line, p + 1) = Ok((p + 1) + 1, b)
    BY <2>3, <1>1, Apart DEF decode_escape
  <2>5. (p + 1) + 1 = p + Len(Escaped(b))
    BY <1>1, <2>2
  <2> QED  BY <2>3, <2>4, <2>5
<1>2. ASSUME NEW m \in DOMAIN AnyHex, NEW n \in DOMAIN AnyHex, Escaped(b) = <<"BSLASH", "x", m, n>>,
             ByteOf(16 * AnyHex[m] + AnyHex[n]) = b
      PROVE  Peek(line, p) = "BSLASH" /\ decode_escape(line, p + 1) = Ok(p + Len(Escaped(b)), b)
  <2>1. At(line, p, <<"BSLASH", "x", m, n>>)
    BY <1>2
  <2>2. /\ p \in Nat /\ p + 3 <= Len(line) /\ line[p] = "BSLASH" /\ line[p + 1] = "x"
        /\ line[p + 2] = m /\ line[p + 3] = n
    BY <2>1 DEF At
  <2>3. /\ Peek(line, p) = "BSLASH" /\ Peek(line, p + 1) = "x"
        /\ Peek(line, (p + 1) + 1) = m /\ Peek(line, (p + 1) + 2) = n
        /\ line[(p + 1) + 1] = m /\ line[(p + 1) + 2] = n
    BY <2>2 DEF Peek
  <2>4. decode_escape(line, p + 1) = Ok((p + 1) + 3, b)
    BY <2>3, <1>0, <1>2, Apart DEF decode_escape
  <2>5. (p + 1) + 3 = p + Len(Escaped(b))
    BY <1>2, <2>2
  <2> QED  BY <2>3, <2>4, <2>5
<1>3. Escaped(b) # <<b>>
  <2> SUFFICES ASSUME Escaped(b) = <<b>> PROVE FALSE
    OBVIOUS
  <2>1. Len(Escaped(b)) = 1
    OBVIOUS
  <2> QED  BY <2>1
<1> QED  BY <1>1, <1>2, <1>3, EscapeCases

-----------------------------------------------------------------------------
(* The loop of parse_cstring is its recursion.                             *)

(* Whatever agrees with it on the next turn agrees with it everywhere.     *)
LEMMA LoopsOnce ==
  ASSUME NEW D, NEW V, NEW stop, NEW val, NEW next, NEW comb, NEW mu,
         Descent(D, V, stop, val, next, comb, mu), NEW f, NEW g,
         \A x \in D : (x \notin stop => g[next[x]] = f[next[x]]) => g[x] = f[x]
  PROVE  \A x \in D : g[x] = f[x]
<1>0. /\ next \in [D -> D] /\ mu \in [D -> Nat]
      /\ \A x \in D \ stop : mu[next[x]] < mu[x]
  BY DEF Descent
<1> DEFINE Bad == {mu[x] : x \in {y \in D : g[y] # f[y]}}
<1>1. SUFFICES ASSUME Bad # {} PROVE FALSE
  OBVIOUS
<1>2. Bad \in SUBSET Nat
  BY <1>0
<1>3. PICK k \in Bad : \A j \in Bad : k <= j
  <2> HIDE DEF Bad
  <2> QED  BY <1>1, <1>2, MinOfNat
<1>4. PICK x \in D : k = mu[x] /\ g[x] # f[x]
  BY <1>3
<1>5. x \notin stop /\ g[next[x]] # f[next[x]]
  BY <1>4
<1>6. next[x] \in D /\ mu[next[x]] \in Nat /\ mu[next[x]] < k /\ k \in Nat
  BY <1>0, <1>4, <1>5
<1>7. mu[next[x]] \in Bad
  BY <1>5, <1>6
<1>8. ~ (k <= mu[next[x]])
  BY <1>6
<1> HIDE DEF Bad
<1> QED  BY <1>3, <1>7, <1>8

(* One turn of the c-string loop.                                          *)
CStringTurn(line, p, rest) ==
  LET b == Peek(line, p)
      e == decode_escape(line, p + 1)
  IN CASE b = "end" -> Fail
       [] b = "QUOTE" -> Ok(p + 1, <<>>)
       [] b = "BSLASH" -> IF e.ok THEN Push(e.value, rest[e.at]) ELSE Fail
       [] OTHER -> Push(b, rest[p + 1])

(* What the loop returns, with one more byte before it.                    *)
LEMMA PushReads ==
  ASSUME NEW line, NEW b \in Bytes, NEW r \in Reads(line)
  PROVE  Push(b, r) \in Reads(line)
<1>1. CASE r = Fail
  BY <1>1 DEF Push, Reads, Fail
<1>2. CASE r \in [ok : {TRUE}, at : 1..(Len(line) + 1), value : Seq(Bytes)]
  <2>1. r.ok /\ r.at \in 1..(Len(line) + 1) /\ r.value \in Seq(Bytes)
    BY <1>2
  <2>2. <<b>> \o r.value \in Seq(Bytes)
    BY <2>1
  <2> DEFINE v == <<b>> \o r.value
  <2>3. Push(b, r) = Ok(r.at, v)
    BY <2>1 DEF Push
  <2> HIDE DEF v
  <2> QED  BY <2>1, <2>2, <2>3 DEF v, Ok, Reads
<1> QED  BY <1>1, <1>2 DEF Reads

(* CStringFrom does turn by turn what its Turn says.                       *)
LEMMA CStringTurns ==
  ASSUME NEW line \in Seq(Bytes)
  PROVE  \E f \in [1..(Len(line) + 1) -> Reads(line)] :
            \A p \in 1..(Len(line) + 1) : CStringFrom(line, p) = f[p] /\ f[p] = CStringTurn(line, p, f)
<1> DEFINE D == 1..(Len(line) + 1)
           V == Reads(line)
           Esc(p) == Peek(line, p) = "BSLASH"
           E(p) == decode_escape(line, p + 1)
           stop == {p \in D : Peek(line, p) \in {"end", "QUOTE"} \/ (Esc(p) /\ ~ E(p).ok)}
           val == [p \in D |-> IF Peek(line, p) = "QUOTE" THEN Ok(p + 1, <<>>) ELSE Fail]
           next == [p \in D |-> IF p \in stop THEN p ELSE IF Esc(p) THEN E(p).at ELSE p + 1]
           byte(p) == IF Esc(p) THEN E(p).value ELSE Peek(line, p)
           comb == [x \in D \X V |-> IF x[1] \in stop THEN Fail ELSE Push(byte(x[1]), x[2])]
           mu == [p \in D |-> Len(line) + 1 - p]
<1>1. Len(line) \in Nat
  OBVIOUS
<1>2. ASSUME NEW p \in D, Peek(line, p) # "end" PROVE p + 1 \in D
  BY <1>1, <1>2, PeekIs
<1>3. ASSUME NEW p \in D, Esc(p)
      PROVE  E(p) = Fail \/ E(p) \in [ok : {TRUE}, at : (p + 2)..(Len(line) + 1), value : Bytes]
  <2>1. p + 1 \in D
    BY <1>2, <1>3
  <2>2. (p + 1) + 1 = p + 2
    BY <1>1
  <2> QED  BY <2>1, <2>2, DecodeReads
<1>4. ASSUME NEW p \in D \ stop
      PROVE  /\ Peek(line, p) # "end" /\ p + 1 \in D
             /\ Esc(p) => E(p).ok /\ E(p).at \in (p + 2)..(Len(line) + 1) /\ E(p).value \in Bytes
             /\ byte(p) \in Bytes
             /\ next[p] \in D /\ p < next[p]
  <2>1. p \in D /\ Peek(line, p) \notin {"end", "QUOTE"} /\ ~ (Esc(p) /\ ~ E(p).ok)
    OBVIOUS
  <2>2. p + 1 \in D
    BY <1>2, <2>1
  <2>3. CASE Esc(p)
    <3>1. E(p).ok
      BY <2>1, <2>3
    <3>2. E(p) # Fail
      BY <3>1 DEF Fail
    <3> HIDE DEF stop, Esc, E
    <3>3. E(p) \in [ok : {TRUE}, at : (p + 2)..(Len(line) + 1), value : Bytes]
      BY <1>3, <2>3, <3>2
    <3>4. next[p] = E(p).at /\ byte(p) = E(p).value
      BY <2>3
    <3> QED  BY <1>1, <2>1, <2>2, <3>1, <3>3, <3>4
  <2>4. CASE ~ Esc(p)
    <3>1. Peek(line, p) \in Bytes
      BY <2>1, PeekIs
    <3> HIDE DEF stop, Esc, E
    <3>2. next[p] = p + 1 /\ byte(p) = Peek(line, p)
      BY <2>4
    <3> QED  BY <1>1, <2>1, <2>2, <2>4, <3>1, <3>2
  <2> QED  BY <2>3, <2>4
<1>5. ASSUME NEW p \in D, Peek(line, p) = "QUOTE" PROVE Ok(p + 1, <<>>) \in V
  BY <1>2, <1>5 DEF Ok, Reads
<1>6. Fail \in V
  BY DEF Reads
<1> HIDE DEF Esc, E, byte, V
<1>7. Descent(D, V, stop, val, next, comb, mu)
  <2>1. stop \in SUBSET D /\ val \in [D -> V]
    BY <1>5, <1>6
  <2>2. next \in [D -> D]
    <3>1. \A p \in D : next[p] \in D
      <4>1. \A p \in stop : next[p] = p
        OBVIOUS
      <4> HIDE DEF stop, next
      <4> QED  BY <1>4, <4>1
    <3> QED  BY <3>1
  <2>3. comb \in [D \X V -> V]
    <3> SUFFICES ASSUME NEW p \in D, NEW v \in V PROVE (IF p \in stop THEN Fail ELSE Push(byte(p), v)) \in V
      OBVIOUS
    <3>1. p \notin stop => Push(byte(p), v) \in V
      BY <1>4, PushReads DEF V
    <3> HIDE DEF stop
    <3> QED  BY <1>6, <3>1
  <2>4. mu \in [D -> Nat]
    BY <1>1
  <2>5. \A p \in D \ stop : mu[next[p]] < mu[p]
    <3> SUFFICES ASSUME NEW p \in D \ stop PROVE mu[next[p]] < mu[p]
      OBVIOUS
    <3>1. next[p] \in D /\ p < next[p] /\ p \in D
      BY <1>4
    <3> HIDE DEF next, stop
    <3> QED  BY <1>1, <3>1
  <2> HIDE DEF D, stop, val, next, comb, mu
  <2> QED  BY <2>1, <2>2, <2>3, <2>4, <2>5 DEF Descent
<1>8. PICK f \in [D -> V] : RunsAs(f, D, stop, val, next, comb)
  <2> HIDE DEF D, stop, val, next, comb, mu
  <2> QED  BY <1>7, Loops
<1>9. ASSUME NEW p \in D, NEW g PROVE
         /\ p \in stop => CStringTurn(line, p, g) = val[p]
         /\ p \notin stop => CStringTurn(line, p, g) = Push(byte(p), g[next[p]])
  <2>1. CASE p \in stop
    BY <2>1 DEF CStringTurn, Esc, E
  <2>2. CASE p \notin stop
    BY <2>2 DEF CStringTurn, Esc, E, byte
  <2> QED  BY <2>1, <2>2
<1>10. ASSUME NEW p \in D PROVE f[p] = CStringTurn(line, p, f)
  <2>1. CASE p \in stop
    <3>1. f[p] = val[p]
      BY <1>8, <2>1 DEF RunsAs
    <3> QED  BY <1>9, <2>1, <3>1
  <2>2. CASE p \notin stop
    <3>1. f[p] = comb[<<p, f[next[p]]>>]
      BY <1>8, <2>2 DEF RunsAs
    <3>2. f[next[p]] \in V
      BY <1>4, <2>2
    <3>3. comb[<<p, f[next[p]]>>] = Push(byte(p), f[next[p]])
      <4> HIDE DEF next, stop
      <4> QED  BY <2>2, <3>2
    <3> QED  BY <1>9, <2>2, <3>1, <3>3
  <2> QED  BY <2>1, <2>2
<1> DEFINE h == CHOOSE g : g = [p \in D |-> CStringTurn(line, p, g)]
<1>11. f = [p \in D |-> CStringTurn(line, p, f)]
  BY <1>10
<1>12. h = [p \in D |-> CStringTurn(line, p, h)]
  BY <1>11
<1>13. \A p : CStringFrom(line, p) = h[p]
  BY DEF CStringFrom, CStringTurn
<1>14. \A p \in D : (p \notin stop => h[next[p]] = f[next[p]]) => h[p] = f[p]
  <2> SUFFICES ASSUME NEW p \in D, p \notin stop => h[next[p]] = f[next[p]] PROVE h[p] = f[p]
    <3> HIDE DEF D, stop, next, h
    <3> QED  OBVIOUS
  <2>1. h[p] = CStringTurn(line, p, h)
    <3> HIDE DEF h
    <3> QED  BY <1>12
  <2> HIDE DEF D, stop, next, h
  <2>2. CStringTurn(line, p, h) = CStringTurn(line, p, f)
    BY <1>9
  <2> QED  BY <1>10, <2>1, <2>2
<1>15. \A p \in D : h[p] = f[p]
  <2> HIDE DEF D, stop, val, next, comb, mu, h
  <2> QED  BY <1>7, <1>14, LoopsOnce
<1> HIDE DEF h
<1> QED  BY <1>10, <1>13, <1>15 DEF V

-----------------------------------------------------------------------------
(* What is written between the quotes.                                     *)

(* Induction on what is left of a sequence.                                *)
LEMMA SeqInduct ==
  ASSUME NEW S, NEW T \in SUBSET Seq(S), <<>> \in T,
         \A s \in Seq(S) : s # <<>> /\ Tail(s) \in T => s \in T
  PROVE  Seq(S) \subseteq T
<1> DEFINE Bad == {Len(s) : s \in Seq(S) \ T}
<1>0. SUFFICES ASSUME NEW t \in Seq(S) \ T PROVE FALSE
  OBVIOUS
<1>1. Len(t) \in Bad
  OBVIOUS
<1>2. Bad \in SUBSET Nat
  OBVIOUS
<1>3. PICK k \in Bad : \A j \in Bad : k <= j
  <2> HIDE DEF Bad
  <2> QED  BY <1>1, <1>2, MinOfNat
<1>4. PICK s \in Seq(S) \ T : k = Len(s)
  BY <1>3
<1>5. s # <<>> /\ Tail(s) \notin T /\ Tail(s) \in Seq(S) /\ Len(Tail(s)) = k - 1 /\ k \in Nat
  BY <1>4
<1>6. Len(Tail(s)) \in Bad
  BY <1>5
<1>7. k - 1 \in Bad /\ ~ (k <= k - 1)
  BY <1>5, <1>6
<1> HIDE DEF Bad
<1> QED  BY <1>3, <1>7

(* A flattened sequence is its first member, then the others.              *)
LEMMA FlattenTail ==
  ASSUME NEW S, NEW ss \in Seq(Seq(S)), ss # <<>>
  PROVE  /\ FlattenSeq(ss) = ss[1] \o FlattenSeq(Tail(ss))
         /\ FlattenSeq(Tail(ss)) \in Seq(S) /\ FlattenSeq(ss) \in Seq(S) /\ ss[1] \in Seq(S)
<1>1. ss = <<ss[1]>> \o Tail(ss) /\ ss[1] \in Seq(S) /\ Tail(ss) \in Seq(Seq(S))
  OBVIOUS
<1>2. /\ FlattenSeq(<<ss[1]>> \o Tail(ss)) = ss[1] \o FlattenSeq(Tail(ss))
      /\ FlattenSeq(Tail(ss)) \in Seq(S)
  BY <1>1, FlattenCons
<1>3. FlattenSeq(ss) = ss[1] \o FlattenSeq(Tail(ss))
  BY <1>1, <1>2
<1>4. ss[1] \o FlattenSeq(Tail(ss)) \in Seq(S)
  BY <1>1, <1>2, ConcatProperties
<1> QED  BY <1>1, <1>2, <1>3, <1>4

Body(s) == FlattenSeq([i \in DOMAIN s |-> Escaped(s[i])])

(* An escape has no newline in it.                                         *)
LEMMA EscapedBytes ==
  \A b \in Bytes : Escaped(b) \in Seq(Bytes) /\ \A i \in 1..Len(Escaped(b)) : Escaped(b)[i] # "NL"
<1> SUFFICES ASSUME NEW b \in Bytes
             PROVE  Escaped(b) \in Seq(Bytes) /\ \A i \in 1..Len(Escaped(b)) : Escaped(b)[i] # "NL"
  OBVIOUS
<1>1. ASSUME Escaped(b) = <<b>>, b \notin {"QUOTE", "BSLASH", "NL"}
      PROVE  Escaped(b) \in Seq(Bytes) /\ \A i \in 1..Len(Escaped(b)) : Escaped(b)[i] # "NL"
  BY <1>1
<1>2. ASSUME NEW c \in DOMAIN Unnamed, Escaped(b) = <<"BSLASH", c>>
      PROVE  Escaped(b) \in Seq(Bytes) /\ \A i \in 1..Len(Escaped(b)) : Escaped(b)[i] # "NL"
  <2>1. c \in Bytes /\ c # "NL" /\ "BSLASH" \in Bytes
    BY Marks, Names
  <2> QED  BY <1>2, <2>1
<1>3. ASSUME NEW m \in DOMAIN AnyHex, NEW n \in DOMAIN AnyHex, Escaped(b) = <<"BSLASH", "x", m, n>>
      PROVE  Escaped(b) \in Seq(Bytes) /\ \A i \in 1..Len(Escaped(b)) : Escaped(b)[i] # "NL"
  <2>1. m \in Bytes /\ n \in Bytes /\ m # "NL" /\ n # "NL" /\ "BSLASH" \in Bytes /\ "x" \in Bytes
    BY Marks
  <2> QED  BY <1>3, <2>1
<1> QED  BY <1>1, <1>2, <1>3, EscapeCases

(* The body of a text is the escape of its first byte, then the body of the rest.*)
LEMMA BodyTail ==
  ASSUME NEW s \in Seq(Bytes), s # <<>>
  PROVE  Body(s) = Escaped(s[1]) \o Body(Tail(s)) /\ Body(Tail(s)) \in Seq(Bytes) /\ Escaped(s[1]) \in Seq(Bytes)
<1> DEFINE ss == [i \in DOMAIN s |-> Escaped(s[i])]
           tt == [i \in DOMAIN Tail(s) |-> Escaped(Tail(s)[i])]
<1>1. /\ DOMAIN s = 1..Len(s) /\ Len(s) \in Nat /\ Len(s) # 0 /\ DOMAIN Tail(s) = 1..(Len(s) - 1)
      /\ \A i \in 1..(Len(s) - 1) : Tail(s)[i] = s[i + 1]
      /\ \A i \in 1..Len(s) : s[i] \in Bytes
  OBVIOUS
<1>2. ss \in Seq(Seq(Bytes)) /\ ss # <<>> /\ ss[1] = Escaped(s[1])
  <2>1. \A i \in 1..Len(s) : Escaped(s[i]) \in Seq(Bytes)
    BY <1>1, EscapedBytes
  <2>2. ss \in [1..Len(s) -> Seq(Bytes)] /\ ss[1] = Escaped(s[1]) /\ DOMAIN ss = 1..Len(s)
    BY <1>1, <2>1
  <2> HIDE DEF ss
  <2> QED  BY <1>1, <2>2
<1>3. Tail(ss) = tt
  BY <1>1, <1>2
<1> HIDE DEF ss, tt
<1>4. /\ FlattenSeq(ss) = ss[1] \o FlattenSeq(Tail(ss))
      /\ FlattenSeq(Tail(ss)) \in Seq(Bytes) /\ ss[1] \in Seq(Bytes)
  BY <1>2, FlattenTail
<1> QED  BY <1>2, <1>3, <1>4 DEF Body, ss, tt

LEMMA BodyEmpty == Body(<<>>) = <<>>
<1>1. [i \in DOMAIN <<>> |-> Escaped(<<>>[i])] = <<>>
  OBVIOUS
<1> QED  BY <1>1, FlattenEmpty DEF Body

-----------------------------------------------------------------------------
(* Every text comes back from its c-string.                                *)

LEMMA AtFits ==
  ASSUME NEW line \in Seq(Bytes), NEW p, NEW s \in Seq(Bytes), At(line, p, s)
  PROVE  p \in 1..(Len(line) + 1) /\ p + Len(s) \in 1..(Len(line) + 1) /\ p \in Nat /\ Len(s) \in Nat
BY DEF At

LEMMA AtOne ==
  ASSUME NEW line \in Seq(Bytes), NEW p, NEW b \in Bytes, At(line, p, <<b>>)
  PROVE  p \in 1..(Len(line) + 1) /\ p + 1 \in 1..(Len(line) + 1) /\ Peek(line, p) = b /\ line[p] = b /\ p <= Len(line)
<1>1. p \in Nat \ {0} /\ p + 1 <= Len(line) + 1 /\ line[p] = b
  BY DEF At
<1> QED  BY <1>1 DEF Peek

LEMMA HeadTail ==
  ASSUME NEW S, NEW s \in Seq(S), s # <<>>
  PROVE  s[1] \in S /\ Tail(s) \in Seq(S) /\ s = <<s[1]>> \o Tail(s)
OBVIOUS

LEMMA Singles == \A S : \A b \in S : <<b>> \in Seq(S) /\ Len(<<b>>) = 1
OBVIOUS

LEMMA Joined ==
  \A S : \A a, b \in Seq(S) : a \o b \in Seq(S) /\ Len(a \o b) = Len(a) + Len(b) /\ Len(a) \in Nat /\ Len(b) \in Nat
OBVIOUS

LEMMA OkFields == \A at, v : Ok(at, v).ok /\ Ok(at, v).at = at /\ Ok(at, v).value = v
BY DEF Ok

LEMMA PushOk == \A b, at, v : Push(b, Ok(at, v)) = Ok(at, <<b>> \o v)
BY OkFields DEF Push

(* The loop reads the body of a text, up to the closing quote, as that text.*)
LEMMA BodyRead ==
  ASSUME NEW line \in Seq(Bytes)
  PROVE  \A s \in Seq(Bytes) : \A p \in Nat : At(line, p, Body(s) \o <<"QUOTE">>) =>
           CStringFrom(line, p) = Ok(p + Len(Body(s)) + 1, s)
<1> DEFINE T == {s \in Seq(Bytes) : \A p \in Nat : At(line, p, Body(s) \o <<"QUOTE">>) =>
                   CStringFrom(line, p) = Ok(p + Len(Body(s)) + 1, s)}
<1>0. PICK f \in [1..(Len(line) + 1) -> Reads(line)] :
         \A p \in 1..(Len(line) + 1) : CStringFrom(line, p) = f[p] /\ f[p] = CStringTurn(line, p, f)
  BY CStringTurns
<1>1. <<>> \in T
  <2> SUFFICES ASSUME NEW p \in Nat, At(line, p, Body(<<>>) \o <<"QUOTE">>)
               PROVE  CStringFrom(line, p) = Ok(p + Len(Body(<<>>)) + 1, <<>>)
    OBVIOUS
  <2>1. Body(<<>>) \o <<"QUOTE">> = <<"QUOTE">> /\ Len(Body(<<>>)) = 0
    <3>1. <<>> \o <<"QUOTE">> = <<"QUOTE">> /\ Len(<<>>) = 0
      OBVIOUS
    <3> QED  BY <3>1, BodyEmpty
  <2>2. At(line, p, <<"QUOTE">>)
    BY <2>1
  <2>3. p \in 1..(Len(line) + 1) /\ Peek(line, p) = "QUOTE"
    BY <2>2, AtOne, Marks
  <2>4. CStringTurn(line, p, f) = Ok(p + 1, <<>>)
    BY <2>3 DEF CStringTurn
  <2>5. p + 0 + 1 = p + 1
    OBVIOUS
  <2> QED  BY <1>0, <2>1, <2>3, <2>4, <2>5
<1>2. ASSUME NEW s \in Seq(Bytes), s # <<>>, Tail(s) \in T PROVE s \in T
  <2> SUFFICES ASSUME NEW p \in Nat, At(line, p, Body(s) \o <<"QUOTE">>)
               PROVE  CStringFrom(line, p) = Ok(p + Len(Body(s)) + 1, s)
    OBVIOUS
  <2> DEFINE b == s[1]
             t == Tail(s)
             q == p + Len(Escaped(b))
             tail == Body(t) \o <<"QUOTE">>
  <2>1. /\ b \in Bytes /\ t \in Seq(Bytes) /\ Escaped(b) \in Seq(Bytes) /\ Body(t) \in Seq(Bytes)
        /\ Body(s) = Escaped(b) \o Body(t) /\ s = <<b>> \o t
    <3> HIDE DEF T
    <3>1. b \in Bytes /\ t \in Seq(Bytes) /\ s = <<b>> \o t
      BY <1>2, HeadTail
    <3> QED  BY <1>2, <3>1, BodyTail
  <2> HIDE DEF b, t
  <2>2. tail \in Seq(Bytes) /\ Body(s) \o <<"QUOTE">> = Escaped(b) \o tail /\ Len(Body(s)) = Len(Escaped(b)) + Len(Body(t))
    <3>1. <<"QUOTE">> \in Seq(Bytes)
      BY Marks
    <3> DEFINE u == <<"QUOTE">>
               x == Escaped(b)
               y == Body(t)
    <3>2. x \in Seq(Bytes) /\ y \in Seq(Bytes) /\ u \in Seq(Bytes)
      BY <2>1, <3>1
    <3> HIDE DEF u, x, y
    <3>3. OneWay(x, y, u)
      BY <3>2, Assoc
    <3>4. y \o u \in Seq(Bytes) /\ Len(x \o y) = Len(x) + Len(y)
      BY <3>2, Joined
    <3> QED  BY <2>1, <3>3, <3>4 DEF OneWay, u, x, y
  <2>3. At(line, p, Escaped(b)) /\ At(line, q, tail)
    <3> HIDE DEF tail
    <3> QED  BY <2>1, <2>2, AtParts
  <2>4. p \in 1..(Len(line) + 1) /\ q \in 1..(Len(line) + 1) /\ q \in Nat /\ Len(Escaped(b)) \in Nat /\ Len(Body(t)) \in Nat
    BY <2>1, <2>3, AtFits
  <2>5. CStringFrom(line, q) = Ok(q + Len(Body(t)) + 1, t) /\ f[q] = CStringFrom(line, q)
    <3>1. t \in T
      BY <1>2 DEF t
    <3>2. CStringFrom(line, q) = Ok(q + Len(Body(t)) + 1, t)
      <4> HIDE DEF q
      <4> QED  BY <2>3, <2>4, <3>1
    <3> QED  BY <1>0, <2>4, <3>2
  <2> HIDE DEF T
  <2>6. CStringTurn(line, p, f) = Push(b, f[q])
    <3>1. CASE Len(Escaped(b)) > 1
      <4>1. Peek(line, p) = "BSLASH" /\ decode_escape(line, p + 1) = Ok(q, b)
        BY <2>1, <2>3, <3>1, DecodeWritten
      <4> HIDE DEF q
      <4>2. decode_escape(line, p + 1).ok /\ decode_escape(line, p + 1).at = q
            /\ decode_escape(line, p + 1).value = b
        BY <4>1, OkFields
      <4> QED  BY <4>1, <4>2 DEF CStringTurn
    <3>2. CASE Escaped(b) = <<b>> /\ b \notin {"QUOTE", "BSLASH", "NL"}
      <4>1. At(line, p, <<b>>) /\ Len(<<b>>) = 1
        BY <2>3, <3>2
      <4>2. q = p + 1
        BY <3>2, <4>1, <2>4
      <4>3. Peek(line, p) = b /\ b # "end"
        BY <4>1, <2>1, AtOne DEF Bytes
      <4> HIDE DEF q
      <4> QED  BY <3>2, <4>2, <4>3 DEF CStringTurn
    <3>3. ASSUME NEW c, Escaped(b) = <<"BSLASH", c>> PROVE Len(Escaped(b)) > 1
      BY <3>3
    <3>4. ASSUME NEW m, NEW n, Escaped(b) = <<"BSLASH", "x", m, n>> PROVE Len(Escaped(b)) > 1
      BY <3>4
    <3> QED  BY <2>1, <3>1, <3>2, <3>3, <3>4, EscapeCases
  <2>7. Push(b, f[q]) = Ok(q + Len(Body(t)) + 1, s)
    <3> HIDE DEF q
    <3> QED  BY <2>1, <2>5, PushOk
  <2>8. q + Len(Body(t)) + 1 = p + Len(Body(s)) + 1
    BY <2>2, <2>4
  <2> HIDE DEF q, tail
  <2> QED  BY <1>0, <2>4, <2>6, <2>7, <2>8
<1>3. Seq(Bytes) \subseteq T
  <2>1. T \in SUBSET Seq(Bytes)
    OBVIOUS
  <2> HIDE DEF T
  <2> QED  BY <1>1, <1>2, <2>1, SeqInduct
<1> QED  BY <1>3

LEMMA BodyBytes == \A s \in Seq(Bytes) : Body(s) \in Seq(Bytes)
<1> SUFFICES ASSUME NEW s \in Seq(Bytes) PROVE Body(s) \in Seq(Bytes)
  OBVIOUS
<1>1. CASE s = <<>>
  <2>1. <<>> \in Seq(Bytes)
    OBVIOUS
  <2> QED  BY <1>1, <2>1, BodyEmpty
<1>2. CASE s # <<>>
  <2> DEFINE x == Escaped(s[1])
             y == Body(Tail(s))
  <2>1. Body(s) = x \o y /\ x \in Seq(Bytes) /\ y \in Seq(Bytes)
    BY <1>2, BodyTail
  <2> HIDE DEF x, y
  <2> QED  BY <2>1, Joined
<1> QED  BY <1>1, <1>2

(* A c-string is a quote, the body, a quote.                               *)
LEMMA CStringParts ==
  ASSUME NEW s \in Seq(Bytes)
  PROVE  /\ encode_cstring(s) = <<"QUOTE">> \o (Body(s) \o <<"QUOTE">>)
         /\ <<"QUOTE">> \in Seq(Bytes) /\ Body(s) \o <<"QUOTE">> \in Seq(Bytes) /\ encode_cstring(s) \in Seq(Bytes)
         /\ Len(encode_cstring(s)) = Len(Body(s)) + 2 /\ Len(Body(s)) \in Nat
<1> DEFINE u == <<"QUOTE">>
           y == Body(s)
<1>1. encode_cstring(s) = (u \o y) \o u
  BY DEF encode_cstring, InQuotes, Body
<1>2. u \in Seq(Bytes) /\ y \in Seq(Bytes) /\ Len(u) = 1
  BY Marks, BodyBytes, Singles
<1> HIDE DEF u, y
<1>3. (u \o y) \o u = u \o (y \o u)
  <2>1. OneWay(u, y, u)
    BY <1>2, Assoc
  <2> QED  BY <2>1 DEF OneWay
<1> DEFINE v == y \o u
<1>4. v \in Seq(Bytes) /\ Len(v) = Len(y) + 1 /\ Len(y) \in Nat
  BY <1>2, Joined
<1> HIDE DEF v
<1>5. u \o v \in Seq(Bytes) /\ Len(u \o v) = Len(u) + Len(v)
  BY <1>2, <1>4, Joined
<1>6. Len(u \o v) = Len(y) + 2
  BY <1>2, <1>4, <1>5
<1> QED  BY <1>1, <1>2, <1>3, <1>4, <1>5, <1>6 DEF u, y, v

(* Every UTF-8 text, written as a c-string anywhere in a line, is read as  *)
(* itself, up to its closing quote: parse(encode(s)) is s, as the comment  *)
(* of encode/cstring.rs guarantees (encode_cstring, parse_cstring).        *)
THEOREM CStringsArrive ==
  ASSUME NEW line \in Seq(Bytes), NEW p, NEW s \in Seq(Bytes), Utf8(s), At(line, p, encode_cstring(s))
  PROVE  parse_cstring(line, p) = Ok(p + Len(encode_cstring(s)), s)
<1>1. Peek(line, p) = "QUOTE" /\ At(line, p + 1, Body(s) \o <<"QUOTE">>) /\ p \in Nat
  <2> DEFINE u == <<"QUOTE">>
             v == Body(s) \o <<"QUOTE">>
  <2>0. encode_cstring(s) = u \o v /\ u \in Seq(Bytes) /\ v \in Seq(Bytes)
    BY CStringParts
  <2>1. At(line, p, u \o v) /\ u \in Seq(Bytes) /\ v \in Seq(Bytes)
    <3> HIDE DEF u, v
    <3> QED  BY <2>0
  <2>2. Len(u) = 1
    OBVIOUS
  <2>3. At(line, p, u) /\ At(line, p + 1, v)
    <3> HIDE DEF u, v
    <3> QED  BY <2>1, <2>2, AtParts
  <2> QED  BY <2>3, AtOne, Marks DEF v
<1>2. CStringFrom(line, p + 1) = Ok((p + 1) + Len(Body(s)) + 1, s)
  <2>1. p + 1 \in Nat
    BY <1>1
  <2> QED  BY <1>1, <2>1, BodyRead
<1>3. (p + 1) + Len(Body(s)) + 1 = p + Len(encode_cstring(s))
  <2>1. Len(encode_cstring(s)) = Len(Body(s)) + 2 /\ Len(Body(s)) \in Nat
    BY CStringParts
  <2> QED  BY <1>1, <2>1
<1>4. CStringFrom(line, p + 1) = Ok(p + Len(encode_cstring(s)), s)
  BY <1>2, <1>3
<1> DEFINE read == CStringFrom(line, p + 1)
<1>5. read.ok /\ read.value = s /\ Peek(line, p) = "QUOTE"
  BY <1>1, <1>4, OkFields
<1>6. parse_cstring(line, p) = IF Peek(line, p) = "QUOTE" /\ read.ok /\ Utf8(read.value) THEN read ELSE Fail
  BY DEF parse_cstring, Decoded
<1> QED  BY <1>4, <1>5, <1>6

-----------------------------------------------------------------------------
(* What parse_cstring can return.                                          *)

LEMMA PushFields ==
  \A b, r : (Push(b, r).ok => r.ok) /\ (r.ok => Push(b, r) = Ok(r.at, <<b>> \o r.value))
<1> SUFFICES ASSUME NEW b, NEW r
             PROVE  (Push(b, r).ok => r.ok) /\ (r.ok => Push(b, r) = Ok(r.at, <<b>> \o r.value))
  OBVIOUS
<1>1. Fail.ok = FALSE
  BY DEF Fail
<1> QED  BY <1>1 DEF Push

(* The loop ends behind where it began.                                    *)
LEMMA CStringAdvances ==
  ASSUME NEW line \in Seq(Bytes), NEW p \in 1..(Len(line) + 1), CStringFrom(line, p).ok
  PROVE  /\ CStringFrom(line, p).at \in (p + 1)..(Len(line) + 1)
         /\ CStringFrom(line, p).value \in Seq(Bytes)
<1> DEFINE D == 1..(Len(line) + 1)
<1>1. PICK f \in [D -> Reads(line)] :
         \A q \in D : CStringFrom(line, q) = f[q] /\ f[q] = CStringTurn(line, q, f)
  BY CStringTurns
<1>2. \A q \in D : f[q].ok => f[q].at \in D /\ f[q].value \in Seq(Bytes)
  <2> SUFFICES ASSUME NEW q \in D, f[q].ok PROVE f[q].at \in D /\ f[q].value \in Seq(Bytes)
    OBVIOUS
  <2>1. f[q] \in Reads(line) /\ f[q] # Fail
    BY DEF Fail
  <2> QED  BY <2>1 DEF Reads
<1> DEFINE Bad == {Len(line) + 1 - q : q \in {r \in D : f[r].ok /\ ~ (r < f[r].at)}}
<1>3. ASSUME Bad # {} PROVE FALSE
  <2>1. Bad \in SUBSET Nat
    OBVIOUS
  <2>2. PICK k \in Bad : \A j \in Bad : k <= j
    <3> HIDE DEF Bad
    <3> QED  BY <1>3, <2>1, MinOfNat
  <2>3. PICK q \in D : k = Len(line) + 1 - q /\ f[q].ok /\ ~ (q < f[q].at)
    BY <2>2
  <2>4. ASSUME NEW r \in D, q < r, f[r].ok PROVE r < f[r].at
    <3>1. Len(line) + 1 - r < k /\ Len(line) + 1 - r \in Nat
      BY <2>3, <2>4
    <3>2. Len(line) + 1 - r \notin Bad
      <4> HIDE DEF Bad
      <4> QED  BY <2>1, <2>2, <3>1
    <3> QED  BY <2>4, <3>2
  <2> HIDE DEF Bad
  <2> DEFINE b == Peek(line, q)
             e == decode_escape(line, q + 1)
  <2>5. f[q] = CStringTurn(line, q, f)
    BY <1>1
  <2>6. CASE b = "end"
    <3>1. f[q] = Fail
      BY <2>5, <2>6 DEF CStringTurn
    <3> QED  BY <2>3, <3>1 DEF Fail
  <2>7. CASE b = "QUOTE"
    <3>1. f[q] = Ok(q + 1, <<>>)
      BY <2>5, <2>7 DEF CStringTurn
    <3> QED  BY <2>3, <3>1, OkFields
  <2>8. CASE b \notin {"end", "QUOTE"}
    <3>1. q + 1 \in D
      BY <2>8, PeekIs
    <3>2. ASSUME NEW c, NEW r \in D, q < r, f[q] = Push(c, f[r]) PROVE FALSE
      <4>1. f[r].ok /\ f[q] = Ok(f[r].at, <<c>> \o f[r].value)
        BY <2>3, <3>2, PushFields
      <4>2. f[q].at = f[r].at /\ r < f[r].at /\ f[r].at \in D
        BY <1>2, <2>4, <3>2, <4>1, OkFields
      <4> QED  BY <2>3, <3>2, <4>2
    <3>3. CASE b = "BSLASH"
      <4>1. f[q] = IF e.ok THEN Push(e.value, f[e.at]) ELSE Fail
        BY <2>5, <3>3 DEF CStringTurn
      <4>2. e.ok
        <5> HIDE DEF e
        <5> QED  BY <2>3, <4>1 DEF Fail
      <4>3. e \in [ok : {TRUE}, at : (q + 2)..(Len(line) + 1), value : Bytes]
        <5>1. e # Fail
          BY <4>2 DEF Fail
        <5>2. (q + 1) + 1 = q + 2
          OBVIOUS
        <5> QED  BY <3>1, <5>1, <5>2, DecodeReads
      <4>4. e.at \in D /\ q < e.at
        <5> HIDE DEF e
        <5> QED  BY <4>3
      <4> QED  BY <3>2, <4>1, <4>2, <4>4
    <3>4. CASE b # "BSLASH"
      <4>1. f[q] = Push(b, f[q + 1])
        BY <2>5, <2>8, <3>4 DEF CStringTurn
      <4>2. q < q + 1
        OBVIOUS
      <4> QED  BY <3>1, <3>2, <4>1, <4>2
    <3> QED  BY <3>3, <3>4
  <2> QED  BY <2>6, <2>7, <2>8
<1>4. f[p].ok /\ p \in D /\ Len(line) + 1 - p \notin Bad
  <2> HIDE DEF Bad
  <2> QED  BY <1>1, <1>3
<1>5. p < f[p].at
  BY <1>4
<1> HIDE DEF Bad
<1> QED  BY <1>1, <1>2, <1>4, <1>5

(* A c-string ends behind where it begins.                                 *)
LEMMA ParseReads ==
  ASSUME NEW line \in Seq(Bytes), NEW p \in 1..(Len(line) + 1), parse_cstring(line, p).ok
  PROVE  /\ parse_cstring(line, p).at \in (p + 1)..(Len(line) + 1)
         /\ parse_cstring(line, p).value \in Seq(Bytes)
<1> DEFINE read == CStringFrom(line, p + 1)
<1>1. parse_cstring(line, p) = IF Peek(line, p) = "QUOTE" /\ read.ok /\ Utf8(read.value) THEN read ELSE Fail
  BY DEF parse_cstring, Decoded
<1> HIDE DEF read
<1>2. Peek(line, p) = "QUOTE" /\ read.ok /\ parse_cstring(line, p) = read
  BY <1>1 DEF Fail
<1>3. p + 1 \in 1..(Len(line) + 1)
  BY <1>2, PeekIs
<1>4. read.at \in ((p + 1) + 1)..(Len(line) + 1) /\ read.value \in Seq(Bytes)
  BY <1>2, <1>3, CStringAdvances DEF read
<1> QED  BY <1>2, <1>4

-----------------------------------------------------------------------------
(* The loop that reads words is its recursion.                             *)

WordReads(line) == {Fail} \cup [ok : {TRUE}, at : 1..(Len(line) + 1), value : Seq(Seq(Bytes))]

(* One turn of the loop over the words of a line.                          *)
WordsTurn(line, p, rest) ==
  LET start == Run(line, p, Blank)
      end == EndOfWord(line, start)
      quoted == parse_cstring(line, start)
  IN CASE Peek(line, start) = "end" -> Ok(start, <<>>)
       [] Peek(line, start) = "QUOTE" -> IF quoted.ok THEN Push(quoted.value, rest[quoted.at]) ELSE Fail
       [] OTHER -> Push(SubSeq(line, start, end - 1), rest[end])

LEMMA PushWords ==
  ASSUME NEW line, NEW w \in Seq(Bytes), NEW r \in WordReads(line)
  PROVE  Push(w, r) \in WordReads(line)
<1>1. CASE r = Fail
  BY <1>1 DEF Push, WordReads, Fail
<1>2. CASE r \in [ok : {TRUE}, at : 1..(Len(line) + 1), value : Seq(Seq(Bytes))]
  <2>1. r.ok /\ r.at \in 1..(Len(line) + 1) /\ r.value \in Seq(Seq(Bytes))
    BY <1>2
  <2> DEFINE v == <<w>> \o r.value
  <2>2. v \in Seq(Seq(Bytes))
    BY <2>1
  <2>3. Push(w, r) = Ok(r.at, v)
    BY <2>1 DEF Push
  <2> HIDE DEF v
  <2> QED  BY <2>1, <2>2, <2>3 DEF Ok, WordReads
<1> QED  BY <1>1, <1>2 DEF WordReads

(* The end of a line is in no set of its bytes.                            *)
LEMMA NoEnd ==
  ASSUME NEW line \in Seq(Bytes), NEW S
  PROVE  "end" \notin NotIn(line, S) /\ \A i \in 1..Len(line) : line[i] \in NotIn(line, S) <=> line[i] \notin S
<1>1. \A i \in 1..Len(line) : line[i] \in ToSet(line) /\ line[i] # "end"
  BY DEF ToSet, Bytes
<1>2. "end" \notin ToSet(line)
  BY <1>1 DEF ToSet
<1> QED  BY <1>1, <1>2 DEF NotIn

LEMMA Blanks ==
  ASSUME NEW line \in Seq(Bytes), NEW p \in 1..(Len(line) + 1)
  PROVE  /\ Run(line, p, Blank) \in p..(Len(line) + 1) /\ Peek(line, Run(line, p, Blank)) \notin Blank
BY RunStops DEF Blank

(* A word has at least one byte.                                           *)
LEMMA WordEnds ==
  ASSUME NEW line \in Seq(Bytes), NEW p \in 1..(Len(line) + 1), Peek(line, p) \notin Blank, Peek(line, p) # "end"
  PROVE  EndOfWord(line, p) \in (p + 1)..(Len(line) + 1) /\ SubSeq(line, p, EndOfWord(line, p) - 1) \in Seq(Bytes)
<1> DEFINE S == NotIn(line, Blank)
           e == Run(line, p, S)
<1>1. "end" \notin S
  BY NoEnd
<1>2. e \in p..(Len(line) + 1) /\ Peek(line, e) \notin S
  BY <1>1, RunStops
<1>3. p <= Len(line) /\ Peek(line, p) = line[p]
  BY PeekIs
<1>4. Peek(line, p) \in S
  BY <1>3, NoEnd
<1> HIDE DEF e
<1>5. e # p
  BY <1>2, <1>4
<1>6. e \in (p + 1)..(Len(line) + 1)
  BY <1>2, <1>5
<1>7. SubSeq(line, p, e - 1) \in Seq(Bytes)
  <2>1. \A i \in p..(e - 1) : line[i] \in Bytes
    BY <1>6
  <2> QED  BY <1>6, <2>1
<1> QED  BY <1>6, <1>7 DEF EndOfWord, e

(* WordsFrom does turn by turn what its Turn says.                         *)
LEMMA WordsTurns ==
  ASSUME NEW line \in Seq(Bytes)
  PROVE  \E f \in [1..(Len(line) + 1) -> WordReads(line)] :
            \A p \in 1..(Len(line) + 1) : WordsFrom(line, p) = f[p] /\ f[p] = WordsTurn(line, p, f)
<1> DEFINE D == 1..(Len(line) + 1)
           V == WordReads(line)
           Start(p) == Run(line, p, Blank)
           First(p) == Peek(line, Start(p))
           Q(p) == parse_cstring(line, Start(p))
           stop == {p \in D : First(p) = "end" \/ (First(p) = "QUOTE" /\ ~ Q(p).ok)}
           val == [p \in D |-> IF First(p) = "end" THEN Ok(Start(p), <<>>) ELSE Fail]
           next == [p \in D |-> IF p \in stop THEN p ELSE IF First(p) = "QUOTE" THEN Q(p).at
                                ELSE EndOfWord(line, Start(p))]
           word(p) == IF First(p) = "QUOTE" THEN Q(p).value ELSE SubSeq(line, Start(p), EndOfWord(line, Start(p)) - 1)
           comb == [x \in D \X V |-> IF x[1] \in stop THEN Fail ELSE Push(word(x[1]), x[2])]
           mu == [p \in D |-> Len(line) + 1 - p]
<1>1. Len(line) \in Nat
  OBVIOUS
<1>2. ASSUME NEW p \in D PROVE Start(p) \in p..(Len(line) + 1) /\ Start(p) \in D /\ First(p) \notin Blank
  <2>1. Start(p) \in p..(Len(line) + 1) /\ First(p) \notin Blank
    BY Blanks
  <2> HIDE DEF Start
  <2> QED  BY <1>1, <2>1
<1>3. ASSUME NEW p \in D, First(p) = "QUOTE", Q(p).ok
      PROVE  Q(p).at \in (Start(p) + 1)..(Len(line) + 1) /\ Q(p).value \in Seq(Bytes)
  BY <1>2, <1>3, ParseReads
<1>4. ASSUME NEW p \in D, First(p) # "end"
      PROVE  /\ EndOfWord(line, Start(p)) \in (Start(p) + 1)..(Len(line) + 1)
             /\ SubSeq(line, Start(p), EndOfWord(line, Start(p)) - 1) \in Seq(Bytes)
  BY <1>2, <1>4, WordEnds
<1>5. ASSUME NEW p \in D \ stop
      PROVE  word(p) \in Seq(Bytes) /\ next[p] \in D /\ p < next[p]
  <2>1. p \in D /\ First(p) # "end" /\ ~ (First(p) = "QUOTE" /\ ~ Q(p).ok)
    OBVIOUS
  <2>2. CASE First(p) = "QUOTE"
    <3>1. next[p] = Q(p).at /\ word(p) = Q(p).value /\ Q(p).ok
      <4> HIDE DEF stop, First, Q
      <4> QED  BY <2>1, <2>2
    <3> HIDE DEF stop, First, Q, next, word, Start
    <3> QED  BY <1>1, <1>2, <1>3, <2>1, <2>2, <3>1
  <2>3. CASE First(p) # "QUOTE"
    <3> DEFINE e == EndOfWord(line, Start(p))
    <3>1. next[p] = e /\ word(p) = SubSeq(line, Start(p), e - 1)
      <4> HIDE DEF stop, First, Q, e
      <4> QED  BY <2>1, <2>3 DEF e
    <3>2. e \in (Start(p) + 1)..(Len(line) + 1) /\ SubSeq(line, Start(p), e - 1) \in Seq(Bytes)
      BY <1>4, <2>1
    <3> HIDE DEF stop, First, Q, next, word, Start, e
    <3> QED  BY <1>1, <1>2, <2>1, <3>1, <3>2
  <2> QED  BY <2>2, <2>3
<1>6. ASSUME NEW p \in D PROVE Ok(Start(p), <<>>) \in V
  BY <1>2 DEF Ok, WordReads
<1>7. Fail \in V
  BY DEF WordReads
<1> HIDE DEF First, Start, Q, word, V
<1>8. Descent(D, V, stop, val, next, comb, mu)
  <2>1. stop \in SUBSET D /\ val \in [D -> V]
    BY <1>6, <1>7
  <2>2. next \in [D -> D]
    <3>1. \A p \in D : next[p] \in D
      <4>1. \A p \in stop : next[p] = p
        OBVIOUS
      <4> HIDE DEF stop, next
      <4> QED  BY <1>5, <4>1
    <3> QED  BY <3>1
  <2>3. comb \in [D \X V -> V]
    <3> SUFFICES ASSUME NEW p \in D, NEW v \in V PROVE (IF p \in stop THEN Fail ELSE Push(word(p), v)) \in V
      OBVIOUS
    <3>1. p \notin stop => Push(word(p), v) \in V
      BY <1>5, PushWords DEF V
    <3> HIDE DEF stop
    <3> QED  BY <1>7, <3>1
  <2>4. mu \in [D -> Nat]
    BY <1>1
  <2>5. \A p \in D \ stop : mu[next[p]] < mu[p]
    <3> SUFFICES ASSUME NEW p \in D \ stop PROVE mu[next[p]] < mu[p]
      OBVIOUS
    <3>1. next[p] \in D /\ p < next[p] /\ p \in D
      BY <1>5
    <3> HIDE DEF next, stop
    <3> QED  BY <1>1, <3>1
  <2> HIDE DEF D, stop, val, next, comb, mu
  <2> QED  BY <2>1, <2>2, <2>3, <2>4, <2>5 DEF Descent
<1>9. PICK f \in [D -> V] : RunsAs(f, D, stop, val, next, comb)
  <2> HIDE DEF D, stop, val, next, comb, mu
  <2> QED  BY <1>8, Loops
<1>10. ASSUME NEW p \in D, NEW g PROVE
         /\ p \in stop => WordsTurn(line, p, g) = val[p]
         /\ p \notin stop => WordsTurn(line, p, g) = Push(word(p), g[next[p]])
  <2>1. CASE p \in stop
    BY <2>1 DEF WordsTurn, First, Start, Q
  <2>2. CASE p \notin stop
    BY <2>2 DEF WordsTurn, First, Start, Q, word
  <2> QED  BY <2>1, <2>2
<1>11. ASSUME NEW p \in D PROVE f[p] = WordsTurn(line, p, f)
  <2>1. CASE p \in stop
    <3>1. f[p] = val[p]
      BY <1>9, <2>1 DEF RunsAs
    <3> QED  BY <1>10, <2>1, <3>1
  <2>2. CASE p \notin stop
    <3>1. f[p] = comb[<<p, f[next[p]]>>]
      BY <1>9, <2>2 DEF RunsAs
    <3>2. f[next[p]] \in V
      BY <1>5, <2>2
    <3>3. comb[<<p, f[next[p]]>>] = Push(word(p), f[next[p]])
      <4> HIDE DEF next, stop
      <4> QED  BY <2>2, <3>2
    <3> QED  BY <1>10, <2>2, <3>1, <3>3
  <2> QED  BY <2>1, <2>2
<1> DEFINE h == CHOOSE g : g = [p \in D |-> WordsTurn(line, p, g)]
<1>12. f = [p \in D |-> WordsTurn(line, p, f)]
  BY <1>11
<1>13. h = [p \in D |-> WordsTurn(line, p, h)]
  BY <1>12
<1>14. \A p : WordsFrom(line, p) = h[p]
  BY DEF WordsFrom, WordsTurn
<1>15. \A p \in D : (p \notin stop => h[next[p]] = f[next[p]]) => h[p] = f[p]
  <2> SUFFICES ASSUME NEW p \in D, p \notin stop => h[next[p]] = f[next[p]] PROVE h[p] = f[p]
    <3> HIDE DEF D, stop, next, h
    <3> QED  OBVIOUS
  <2>1. h[p] = WordsTurn(line, p, h)
    <3> HIDE DEF h
    <3> QED  BY <1>13
  <2> HIDE DEF D, stop, next, h
  <2>2. WordsTurn(line, p, h) = WordsTurn(line, p, f)
    BY <1>10
  <2> QED  BY <1>11, <2>1, <2>2
<1>16. \A p \in D : h[p] = f[p]
  <2> HIDE DEF D, stop, val, next, comb, mu, h
  <2> QED  BY <1>8, <1>15, LoopsOnce
<1> HIDE DEF h
<1> QED  BY <1>11, <1>14, <1>16 DEF V

-----------------------------------------------------------------------------
(* Reading one word.                                                       *)

Plain == Bytes \ Blank

(* One way to write a word: as it is, or in quotes.                        *)
Written(x, w) ==
  \/ x = w /\ w \in Seq(Plain) /\ w # <<>> /\ w[1] # "QUOTE"
  \/ x = encode_cstring(w) /\ w \in Seq(Bytes) /\ Utf8(w)

Bound(line, q) == q = Len(line) + 1 \/ Peek(line, q) = "SP"

(* What is written at a position is the piece of the line there.           *)
LEMMA SubSeqAt ==
  ASSUME NEW line \in Seq(Bytes), NEW p, NEW s \in Seq(Bytes), At(line, p, s)
  PROVE  SubSeq(line, p, p + Len(s) - 1) = s
<1>1. /\ p \in Nat \ {0} /\ p + Len(s) <= Len(line) + 1 /\ Len(s) \in Nat /\ Len(line) \in Nat
      /\ \A i \in 1..Len(s) : line[p + i - 1] = s[i]
  BY DEF At
<1> DEFINE u == SubSeq(line, p, p + Len(s) - 1)
<1>2. \A i \in p..(p + Len(s) - 1) : line[i] \in Bytes
  BY <1>1
<1>3. /\ u \in Seq(Bytes) /\ Len(u) = Len(s)
      /\ \A i \in 1..Len(s) : u[i] = line[p + i - 1]
  BY <1>1, <1>2
<1> HIDE DEF u
<1>4. \A i \in 1..Len(s) : u[i] = s[i]
  BY <1>1, <1>3
<1>5. u = s
  BY <1>3, <1>4
<1> QED  BY <1>5 DEF u

(* A written word has a first byte, which is no blank.                     *)
LEMMA WrittenBytes ==
  ASSUME NEW x, NEW w, Written(x, w)
  PROVE  x \in Seq(Bytes) /\ w \in Seq(Bytes) /\ Len(x) > 0 /\ x[1] \notin Blank \cup {"end"}
<1>1. CASE x = w /\ w \in Seq(Plain) /\ w # <<>>
  <2>1. w[1] \in Plain /\ Len(w) > 0 /\ w \in Seq(Bytes)
    BY <1>1 DEF Plain
  <2> QED  BY <1>1, <2>1 DEF Plain, Bytes
<1>2. CASE x = encode_cstring(w) /\ w \in Seq(Bytes)
  <2>1. /\ encode_cstring(w) = <<"QUOTE">> \o (Body(w) \o <<"QUOTE">>) /\ encode_cstring(w) \in Seq(Bytes)
        /\ Len(encode_cstring(w)) = Len(Body(w)) + 2 /\ Len(Body(w)) \in Nat
        /\ Body(w) \o <<"QUOTE">> \in Seq(Bytes)
    BY <1>2, CStringParts
  <2> DEFINE v == Body(w) \o <<"QUOTE">>
  <2>2. (<<"QUOTE">> \o v)[1] = "QUOTE"
    <3>1. v \in Seq(Bytes)
      BY <2>1
    <3> HIDE DEF v
    <3> QED  BY <3>1
  <2>3. "QUOTE" \notin Blank \cup {"end"}
    BY DEF Blank
  <2> QED  BY <1>2, <2>1, <2>2, <2>3
<1> QED  BY <1>1, <1>2 DEF Written

(* A written word, with a space before it and none or another after it, is read. *)
LEMMA WordRead ==
  ASSUME NEW line \in Seq(Bytes), NEW p, NEW x, NEW w, Written(x, w), At(line, p, <<"SP">> \o x),
         Bound(line, p + 1 + Len(x)), NEW e, NEW ws, WordsFrom(line, p + 1 + Len(x)) = Ok(e, ws)
  PROVE  WordsFrom(line, p) = Ok(e, <<w>> \o ws)
<1> DEFINE D == 1..(Len(line) + 1)
           q == p + 1 + Len(x)
<1>0. PICK f \in [D -> WordReads(line)] :
         \A i \in D : WordsFrom(line, i) = f[i] /\ f[i] = WordsTurn(line, i, f)
  BY WordsTurns
<1>1. x \in Seq(Bytes) /\ w \in Seq(Bytes) /\ Len(x) > 0 /\ x[1] \notin Blank \cup {"end"} /\ Len(x) \in Nat
  BY WrittenBytes
<1>2. At(line, p, <<"SP">>) /\ At(line, p + 1, x) /\ p \in Nat
  <2> DEFINE u == <<"SP">>
  <2>1. u \in Seq(Bytes) /\ Len(u) = 1
    BY Marks, Singles
  <2>2. At(line, p, u \o x)
    OBVIOUS
  <2>3. p \in Nat
    <3> DEFINE v == u \o x
    <3>1. At(line, p, v)
      OBVIOUS
    <3> HIDE DEF v
    <3> QED  BY <3>1 DEF At
  <2> HIDE DEF u
  <2>4. At(line, p, u) /\ At(line, p + Len(u), x)
    BY <1>1, <2>1, <2>2, AtParts
  <2>5. At(line, p, u) /\ At(line, p + 1, x)
    BY <2>1, <2>4
  <2> QED  BY <2>3, <2>5 DEF u
<1>3. p \in D /\ p + 1 \in D /\ Peek(line, p) = "SP" /\ p <= Len(line)
  BY <1>2, AtOne, Marks
<1>4. /\ (p + 1) + Len(x) = q /\ q \in D /\ p + 1 <= Len(line)
      /\ \A i \in 1..Len(x) : line[(p + 1) + i - 1] = x[i]
  BY <1>1, <1>2 DEF At
<1>5. Peek(line, p + 1) = x[1]
  <2>1. line[(p + 1) + 1 - 1] = x[1] /\ (p + 1) + 1 - 1 = p + 1
    BY <1>1, <1>2, <1>4
  <2> QED  BY <1>4, <2>1 DEF Peek
<1>6. Run(line, p, Blank) = p + 1
  <2>1. p + 1 \in p..(Len(line) + 1) /\ \A i \in p..((p + 1) - 1) : i = p
    BY <1>2, <1>4
  <2>2. \A i \in p..((p + 1) - 1) : Peek(line, i) \in Blank
    BY <1>3, <2>1 DEF Blank
  <2>3. Peek(line, p + 1) \notin Blank
    BY <1>1, <1>5
  <2> HIDE DEF D
  <2> QED  BY <1>3, <2>1, <2>2, <2>3, RunIs DEF D
<1>7. f[q] = Ok(e, ws)
  BY <1>0, <1>4
<1>8. CASE x = w /\ w \in Seq(Plain) /\ w[1] # "QUOTE"
  <2> DEFINE S == NotIn(line, Blank)
  <2>1. \A i \in (p + 1)..(q - 1) : Peek(line, i) \in S
    <3> SUFFICES ASSUME NEW i \in (p + 1)..(q - 1) PROVE Peek(line, i) \in S
      OBVIOUS
    <3>1. i - p \in 1..Len(x) /\ (p + 1) + (i - p) - 1 = i /\ i \in 1..Len(line)
      BY <1>1, <1>2, <1>4
    <3>2. line[i] = w[i - p]
      BY <1>4, <1>8, <3>1
    <3>3. w[i - p] \in Plain
      BY <1>8, <3>1
    <3>4. line[i] \in S
      BY <3>1, <3>2, <3>3, NoEnd DEF Plain
    <3> QED  BY <3>1, <3>4 DEF Peek
  <2>2. Peek(line, q) \notin S
    <3>1. "SP" \notin S
      BY DEF NotIn, Blank
    <3>2. Peek(line, Len(line) + 1) = "end"
      BY DEF Peek
    <3> QED  BY <3>1, <3>2, NoEnd DEF Bound
  <2>3. q \in (p + 1)..(Len(line) + 1)
    BY <1>1, <1>2, <1>4
  <2>4. EndOfWord(line, p + 1) = q
    <3> HIDE DEF S, q, D
    <3> QED  BY <1>3, <2>1, <2>2, <2>3, RunIs DEF EndOfWord, S, D
  <2>5. SubSeq(line, p + 1, q - 1) = w
    BY <1>1, <1>2, <1>4, <1>8, SubSeqAt
  <2> HIDE DEF q
  <2>6. WordsTurn(line, p, f) = Push(w, f[q])
    BY <1>1, <1>5, <1>6, <1>8, <2>4, <2>5 DEF WordsTurn
  <2> QED  BY <1>0, <1>3, <1>7, <2>6, PushOk
<1>9. CASE x = encode_cstring(w) /\ Utf8(w)
  <2>1. parse_cstring(line, p + 1) = Ok(q, w)
    BY <1>1, <1>2, <1>4, <1>9, CStringsArrive
  <2>2. Peek(line, p + 1) = "QUOTE"
    <3>1. parse_cstring(line, p + 1).ok
      BY <2>1, OkFields
    <3> QED  BY <3>1 DEF parse_cstring, Decoded, Fail
  <2> HIDE DEF q
  <2>3. WordsTurn(line, p, f) = Push(w, f[q])
    <3>1. parse_cstring(line, p + 1).ok /\ parse_cstring(line, p + 1).at = q /\ parse_cstring(line, p + 1).value = w
      BY <2>1, OkFields
    <3> QED  BY <1>6, <2>2, <3>1 DEF WordsTurn
  <2> QED  BY <1>0, <1>3, <1>7, <2>3, PushOk
<1> QED  BY <1>8, <1>9 DEF Written

(* At the end of the line there are no more words.                         *)
LEMMA NoWords ==
  ASSUME NEW line \in Seq(Bytes)
  PROVE  WordsFrom(line, Len(line) + 1) = Ok(Len(line) + 1, <<>>)
<1> DEFINE p == Len(line) + 1
<1>1. p \in 1..(Len(line) + 1) /\ Peek(line, p) = "end" /\ Len(line) \in Nat
  BY DEF Peek
<1>2. Run(line, p, Blank) = p
  <2>1. \A i \in p..(p - 1) : Peek(line, i) \in Blank
    BY <1>1
  <2>2. p \in p..(Len(line) + 1) /\ Peek(line, p) \notin Blank
    BY <1>1 DEF Blank
  <2> HIDE DEF p
  <2> QED  BY <1>1, <2>1, <2>2, RunIs
<1>3. PICK f \in [1..(Len(line) + 1) -> WordReads(line)] :
         \A i \in 1..(Len(line) + 1) : WordsFrom(line, i) = f[i] /\ f[i] = WordsTurn(line, i, f)
  BY WordsTurns
<1>4. WordsTurn(line, p, f) = Ok(p, <<>>)
  <2> HIDE DEF p
  <2> QED  BY <1>1, <1>2 DEF WordsTurn
<1> QED  BY <1>1, <1>3, <1>4

-----------------------------------------------------------------------------
(* The two ways to write a word: as it is, and as a c-string.              *)

Texts == {s \in Seq(Bytes) : Utf8(s)}

OptionSet(valued) ==
  [name : Seq(Plain) \ (valued \cup {<<"-">>}), value : {NoValue}]
    \cup [name : valued \cap (Seq(Plain) \ {<<"-">>}), value : Texts \ {NoValue}]

CommandSet(valued) ==
  [operation : Seq(Plain), options : Seq(OptionSet(valued)), parameters : Seq(Texts)]

(* encode_parameter writes a word of any text.                             *)
LEMMA ParameterWritten ==
  ASSUME NEW s \in Texts
  PROVE  Written(encode_parameter(s), s)
<1>1. s \in Seq(Bytes) /\ Utf8(s)
  BY DEF Texts
<1>2. CASE is_non_blank_sequence(s)
  <2>1. s # <<>> /\ \A i \in 1..Len(s) : s[i] \notin Blank \cup {"QUOTE"}
    BY <1>1, <1>2 DEF is_non_blank_sequence, Blank
  <2>2. \A i \in 1..Len(s) : s[i] \in Plain
    BY <1>1, <2>1 DEF Plain
  <2>3. s \in Seq(Plain) /\ s[1] # "QUOTE"
    BY <1>1, <2>1, <2>2
  <2> QED  BY <1>2, <2>1, <2>3 DEF encode_parameter, Written
<1>3. CASE ~ is_non_blank_sequence(s)
  BY <1>1, <1>3 DEF encode_parameter, Written
<1> QED  BY <1>2, <1>3

(* mi-quote writes a word of any ASCII text.                               *)
LEMMA QuoteWritten ==
  ASSUME NEW s \in Texts, Ascii(s)
  PROVE  Written(mi_quote_param(s), s)
<1>1. s \in Seq(Bytes) /\ Utf8(s) /\ DOMAIN s = 1..Len(s) /\ Len(s) \in Nat
  BY DEF Texts
<1> DEFINE bare == s # <<>> /\ \A i \in DOMAIN s : s[i] \notin Control \cup {"SP", "QUOTE", "BSLASH"}
<1>2. CASE bare
  <2>1. {"TAB", "NL", "CR"} \subseteq Control
    BY DEF Control, Code
  <2>2. s # <<>> /\ \A i \in 1..Len(s) : s[i] \notin Blank \cup {"QUOTE"}
    BY <1>1, <1>2, <2>1 DEF Blank
  <2>3. \A i \in 1..Len(s) : s[i] \in Plain
    BY <1>1, <2>2 DEF Plain
  <2>4. s \in Seq(Plain) /\ s[1] # "QUOTE"
    BY <1>1, <2>2, <2>3
  <2> QED  BY <1>2, <2>2, <2>4 DEF mi_quote_param, Written
<1>3. CASE ~ bare
  <2>1. DOMAIN AsChar \subseteq Lead \cup Continuation
    BY DEF AsChar, Lead, Continuation
  <2>2. \A i \in DOMAIN s : s[i] \notin DOMAIN AsChar
    BY <2>1 DEF Ascii
  <2>3. [i \in DOMAIN s |-> IF s[i] \in DOMAIN AsChar THEN AsChar[s[i]] ELSE Escaped(s[i])]
          = [i \in DOMAIN s |-> Escaped(s[i])]
    BY <2>2
  <2>4. mi_quote_param(s) = encode_cstring(s)
    BY <1>3, <2>3 DEF mi_quote_param, encode_cstring
  <2> QED  BY <1>1, <2>4 DEF Written
<1> QED  BY <1>2, <1>3

LEMMA SpacedEmpty == Spaced(<<>>) = <<>>
<1>1. [i \in DOMAIN <<>> |-> <<"SP">> \o <<>>[i]] = <<>>
  OBVIOUS
<1> QED  BY <1>1, FlattenEmpty DEF Spaced

LEMMA FunctionIsSeq ==
  ASSUME NEW T, NEW n \in Nat, NEW f \in [1..n -> T]
  PROVE  f \in Seq(T) /\ Len(f) = n /\ (n # 0 => f # <<>>)
<1>1. f \in Seq(T) /\ Len(f) = n
  OBVIOUS
<1>2. Len(<<>>) = 0
  OBVIOUS
<1> QED  BY <1>1, <1>2

LEMMA TailIs ==
  ASSUME NEW S, NEW s \in Seq(S), NEW n \in Nat, Len(s) = n, s # <<>>
  PROVE  Tail(s) = [i \in 1..(n - 1) |-> s[i + 1]] /\ Tail(s) \in Seq(S)
<1> DEFINE t == Tail(s)
<1>1. t \in Seq(S) /\ Len(t) = n - 1 /\ \A i \in 1..(n - 1) : t[i] = s[i + 1]
  OBVIOUS
<1> HIDE DEF t
<1>2. t = [i \in 1..(n - 1) |-> t[i]]
  BY <1>1
<1>3. t = [i \in 1..(n - 1) |-> s[i + 1]]
  BY <1>1, <1>2
<1> QED  BY <1>1, <1>3 DEF t

(* The first part with its space, then the others.                         *)
LEMMA SpacedTail ==
  ASSUME NEW S, "SP" \in S, NEW parts \in Seq(Seq(S)), parts # <<>>
  PROVE  /\ Spaced(parts) = (<<"SP">> \o parts[1]) \o Spaced(Tail(parts))
         /\ Spaced(Tail(parts)) \in Seq(S) /\ parts[1] \in Seq(S) /\ <<"SP">> \o parts[1] \in Seq(S)
<1> DEFINE ss == [i \in DOMAIN parts |-> <<"SP">> \o parts[i]]
           tt == [i \in DOMAIN Tail(parts) |-> <<"SP">> \o Tail(parts)[i]]
<1>1. /\ DOMAIN parts = 1..Len(parts) /\ Len(parts) \in Nat /\ Len(parts) # 0
      /\ DOMAIN Tail(parts) = 1..(Len(parts) - 1)
      /\ \A i \in 1..(Len(parts) - 1) : Tail(parts)[i] = parts[i + 1]
      /\ \A i \in 1..Len(parts) : parts[i] \in Seq(S)
  OBVIOUS
<1>2. ss \in Seq(Seq(S)) /\ ss # <<>> /\ ss[1] = <<"SP">> \o parts[1]
  <2>1. \A i \in 1..Len(parts) : <<"SP">> \o parts[i] \in Seq(S)
    <3>1. <<"SP">> \in Seq(S)
      OBVIOUS
    <3> QED  BY <1>1, <3>1, Joined
  <2>2. ss \in [1..Len(parts) -> Seq(S)] /\ ss[1] = <<"SP">> \o parts[1] /\ DOMAIN ss = 1..Len(parts)
    BY <1>1, <2>1
  <2> HIDE DEF ss
  <2>3. ss \in Seq(Seq(S)) /\ ss # <<>>
    <3> DEFINE T == Seq(S)
               n == Len(parts)
    <3>1. ss \in [1..n -> T] /\ n \in Nat /\ n # 0
      BY <1>1, <2>2
    <3> HIDE DEF T, n
    <3>2. ss \in Seq(T) /\ ss # <<>>
      BY <3>1, FunctionIsSeq
    <3> QED  BY <3>2 DEF T
  <2> QED  BY <2>2, <2>3
<1>3. Tail(ss) = tt
  <2> DEFINE n == Len(parts)
             T == Seq(S)
  <2>1. ss \in Seq(T) /\ ss # <<>> /\ n \in Nat /\ Len(ss) = n /\ DOMAIN Tail(parts) = 1..(n - 1)
    BY <1>1, <1>2
  <2>2. \A i \in 1..(n - 1) : ss[i + 1] = <<"SP">> \o parts[i + 1] /\ Tail(parts)[i] = parts[i + 1]
    BY <1>1
  <2> HIDE DEF ss, n, T
  <2>3. Tail(ss) = [i \in 1..(n - 1) |-> ss[i + 1]]
    BY <2>1, TailIs
  <2>4. [i \in 1..(n - 1) |-> ss[i + 1]] = [i \in DOMAIN Tail(parts) |-> <<"SP">> \o Tail(parts)[i]]
    BY <2>1, <2>2
  <2> QED  BY <2>3, <2>4
<1> HIDE DEF ss, tt
<1>4. /\ FlattenSeq(ss) = ss[1] \o FlattenSeq(Tail(ss))
      /\ FlattenSeq(Tail(ss)) \in Seq(S) /\ ss[1] \in Seq(S)
  BY <1>2, FlattenTail
<1>5. Spaced(parts) = FlattenSeq(ss) /\ Spaced(Tail(parts)) = FlattenSeq(tt)
  BY DEF Spaced, ss, tt
<1>6. parts[1] \in Seq(S)
  BY <1>1
<1> QED  BY <1>2, <1>3, <1>4, <1>5, <1>6

LEMMA SpacedIn ==
  ASSUME NEW S, "SP" \in S, NEW parts \in Seq(Seq(S)) PROVE Spaced(parts) \in Seq(S)
<1>1. CASE parts = <<>>
  <2>1. <<>> \in Seq(S)
    OBVIOUS
  <2> QED  BY <1>1, <2>1, SpacedEmpty
<1>2. CASE parts # <<>>
  <2> DEFINE x == <<"SP">> \o parts[1]
             y == Spaced(Tail(parts))
  <2>1. Spaced(parts) = x \o y /\ x \in Seq(S) /\ y \in Seq(S)
    BY <1>2, SpacedTail
  <2> HIDE DEF x, y
  <2> QED  BY <2>1, Joined
<1> QED  BY <1>1, <1>2

(* A space ends the word before it.                                        *)
LEMMA SpaceFirst ==
  ASSUME NEW line \in Seq(Bytes), NEW p, NEW x \in Seq(Bytes), At(line, p, <<"SP">> \o x)
  PROVE  Bound(line, p) /\ At(line, p + 1, x) /\ p \in Nat /\ p <= Len(line)
<1> DEFINE u == <<"SP">>
<1>1. u \in Seq(Bytes) /\ Len(u) = 1
  BY Marks, Singles
<1>2. At(line, p, u \o x)
  OBVIOUS
<1> HIDE DEF u
<1>3. At(line, p, u) /\ At(line, p + 1, x)
  BY <1>1, <1>2, AtParts
<1>4. At(line, p, <<"SP">>)
  BY <1>3 DEF u
<1>5. Peek(line, p) = "SP" /\ p \in Nat /\ p <= Len(line)
  BY <1>4, AtOne, Marks
<1> QED  BY <1>3, <1>5 DEF Bound

(* The parts that follow a word end it, for they begin with a space.       *)
LEMMA SpacedBound ==
  ASSUME NEW line \in Seq(Bytes), NEW p, NEW parts \in Seq(Seq(Bytes)), At(line, p, Spaced(parts)),
         Bound(line, p + Len(Spaced(parts)))
  PROVE  Bound(line, p)
<1>1. CASE parts = <<>>
  <2>1. Len(<<>>) = 0
    OBVIOUS
  <2>2. p \in Nat
    BY <1>1, SpacedEmpty DEF At
  <2>3. p + Len(Spaced(parts)) = p
    BY <1>1, <2>1, <2>2, SpacedEmpty
  <2> QED  BY <2>3
<1>2. CASE parts # <<>>
  <2> DEFINE x == <<"SP">> \o parts[1]
             y == Spaced(Tail(parts))
  <2>1. Spaced(parts) = x \o y /\ x \in Seq(Bytes) /\ y \in Seq(Bytes) /\ parts[1] \in Seq(Bytes)
    BY <1>2, SpacedTail, Marks
  <2>2. At(line, p, x)
    <3> HIDE DEF x, y
    <3> QED  BY <2>1, AtParts
  <2> QED  BY <2>1, <2>2, SpaceFirst
<1> QED  BY <1>1, <1>2

-----------------------------------------------------------------------------
(* Reading several words.                                                  *)

LEMMA ConsConcat ==
  ASSUME NEW S, NEW w \in S, NEW us \in Seq(S), NEW vs \in Seq(S)
  PROVE  <<w>> \o (us \o vs) = (<<w>> \o us) \o vs /\ us \o vs \in Seq(S)
<1> DEFINE z == <<w>>
<1>1. z \in Seq(S)
  OBVIOUS
<1> HIDE DEF z
<1>2. OneWay(z, us, vs) /\ us \o vs \in Seq(S)
  BY <1>1, Assoc, Joined
<1> QED  BY <1>2 DEF OneWay, z

(* A written word before words us and vs.                                  *)
Before(line, p, e, x, w, us, vs) ==
  /\ line \in Seq(Bytes) /\ us \in Seq(Seq(Bytes)) /\ vs \in Seq(Seq(Bytes)) /\ Written(x, w)
  /\ At(line, p, <<"SP">> \o x) /\ Bound(line, p + 1 + Len(x))
  /\ WordsFrom(line, p + 1 + Len(x)) = Ok(e, us \o vs)

(* A word before others is read before them.                               *)
LEMMA PieceStep ==
  ASSUME NEW line, NEW p, NEW e, NEW x, NEW w, NEW us, NEW vs, Before(line, p, e, x, w, us, vs)
  PROVE  WordsFrom(line, p) = Ok(e, (<<w>> \o us) \o vs)
<1>0. /\ line \in Seq(Bytes) /\ us \in Seq(Seq(Bytes)) /\ vs \in Seq(Seq(Bytes)) /\ Written(x, w)
      /\ At(line, p, <<"SP">> \o x) /\ Bound(line, p + 1 + Len(x))
      /\ WordsFrom(line, p + 1 + Len(x)) = Ok(e, us \o vs)
  BY DEF Before
<1>1. WordsFrom(line, p) = Ok(e, <<w>> \o (us \o vs))
  <2> DEFINE ts == us \o vs
  <2>1. WordsFrom(line, p + 1 + Len(x)) = Ok(e, ts)
    BY <1>0
  <2> HIDE DEF ts
  <2>2. WordsFrom(line, p) = Ok(e, <<w>> \o ts)
    BY <1>0, <2>1, WordRead
  <2> QED  BY <2>2 DEF ts
<1>2. w \in Seq(Bytes)
  BY <1>0, WrittenBytes
<1>3. <<w>> \o (us \o vs) = (<<w>> \o us) \o vs
  <2> DEFINE B == Seq(Bytes)
  <2>1. w \in B /\ us \in Seq(B) /\ vs \in Seq(B)
    BY <1>0, <1>2
  <2> HIDE DEF B
  <2> QED  BY <2>1, ConsConcat
<1> QED  BY <1>1, <1>3

(* Written words, with a space before each, are read.                      *)
(* Ways xs to write words, at a position before the words vs, are read as  *)
(* those words.                                                            *)
ReadBefore(line, e, vs) ==
  \A xs \in Seq(Seq(Bytes)) : \A ws \in Seq(Seq(Bytes)), p \in Nat :
    /\ Len(ws) = Len(xs) /\ \A i \in 1..Len(xs) : Written(xs[i], ws[i])
    /\ At(line, p, Spaced(xs)) /\ Bound(line, p + Len(Spaced(xs)))
    /\ WordsFrom(line, p + Len(Spaced(xs))) = Ok(e, vs)
    => WordsFrom(line, p) = Ok(e, ws \o vs)

(* Any number of written words is read as those words, before what follows.*)
LEMMA PiecesRead ==
  ASSUME NEW line \in Seq(Bytes), NEW e \in Nat, NEW vs \in Seq(Seq(Bytes))
  PROVE  ReadBefore(line, e, vs)
<1> DEFINE Holds(xs, ws, p) ==
            /\ Len(ws) = Len(xs) /\ \A i \in 1..Len(xs) : Written(xs[i], ws[i])
            /\ At(line, p, Spaced(xs)) /\ Bound(line, p + Len(Spaced(xs)))
            /\ WordsFrom(line, p + Len(Spaced(xs))) = Ok(e, vs)
            => WordsFrom(line, p) = Ok(e, ws \o vs)
           T == {xs \in Seq(Seq(Bytes)) : \A ws \in Seq(Seq(Bytes)), p \in Nat : Holds(xs, ws, p)}
<1>1. <<>> \in T
  <2> SUFFICES ASSUME NEW ws \in Seq(Seq(Bytes)), NEW p \in Nat, Len(ws) = Len(<<>>),
                      WordsFrom(line, p + Len(Spaced(<<>>))) = Ok(e, vs)
               PROVE  WordsFrom(line, p) = Ok(e, ws \o vs)
    <3>1. <<>> \in Seq(Seq(Bytes))
      OBVIOUS
    <3>2. ASSUME NEW ws \in Seq(Seq(Bytes)), NEW p \in Nat PROVE Holds(<<>>, ws, p)
      OBVIOUS
    <3> HIDE DEF Holds
    <3> QED  BY <3>1, <3>2
  <2>1. Len(Spaced(<<>>)) = 0
    <3>1. Len(<<>>) = 0
      OBVIOUS
    <3> QED  BY <3>1, SpacedEmpty
  <2>2. ws = <<>> /\ ws \o vs = vs
    OBVIOUS
  <2>3. p + 0 = p
    OBVIOUS
  <2> QED  BY <2>1, <2>2, <2>3
<1>2. ASSUME NEW xs \in Seq(Seq(Bytes)), xs # <<>>, Tail(xs) \in T PROVE xs \in T
  <2> SUFFICES ASSUME NEW ws \in Seq(Seq(Bytes)), NEW p \in Nat,
                      Len(ws) = Len(xs), \A i \in 1..Len(xs) : Written(xs[i], ws[i]),
                      At(line, p, Spaced(xs)), Bound(line, p + Len(Spaced(xs))),
                      WordsFrom(line, p + Len(Spaced(xs))) = Ok(e, vs)
               PROVE  WordsFrom(line, p) = Ok(e, ws \o vs)
    OBVIOUS
  <2> DEFINE x == xs[1]
             w == ws[1]
             y == <<"SP">> \o x
             ys == Tail(xs)
             us == Tail(ws)
             rest == Spaced(ys)
             q == p + 1 + Len(x)
  <2>1. /\ x \in Seq(Bytes) /\ ys \in Seq(Seq(Bytes)) /\ w \in Seq(Bytes) /\ us \in Seq(Seq(Bytes))
        /\ Len(us) = Len(ys) /\ ws = <<w>> \o us /\ Written(x, w)
        /\ \A i \in 1..Len(ys) : Written(ys[i], us[i])
    <3> HIDE DEF T
    <3>1. Len(xs) \in Nat /\ Len(xs) # 0 /\ ws # <<>> /\ Len(ys) = Len(xs) - 1 /\ Len(us) = Len(ws) - 1
      <4>1. Len(xs) \in Nat /\ Len(xs) # 0 /\ Len(<<>>) = 0
        BY <1>2
      <4>2. ws # <<>>
        BY <4>1
      <4> QED  BY <1>2, <4>1, <4>2
    <3>2. x \in Seq(Bytes) /\ ys \in Seq(Seq(Bytes)) /\ w \in Seq(Bytes) /\ us \in Seq(Seq(Bytes)) /\ ws = <<w>> \o us
      BY <1>2, <3>1, HeadTail
    <3>3. ASSUME NEW i \in 1..Len(ys) PROVE Written(ys[i], us[i])
      <4>1. i + 1 \in 1..Len(xs) /\ ys[i] = xs[i + 1] /\ us[i] = ws[i + 1]
        BY <3>1
      <4> QED  BY <4>1
    <3>4. 1 \in 1..Len(xs)
      BY <3>1
    <3> QED  BY <3>1, <3>2, <3>3, <3>4
  <2>2. ys \in T
    BY <1>2
  <2>3. Spaced(xs) = y \o rest /\ rest \in Seq(Bytes) /\ y \in Seq(Bytes) /\ Len(y) = 1 + Len(x) /\ Len(x) \in Nat
    <3> HIDE DEF T
    <3>1. Spaced(xs) = y \o rest /\ rest \in Seq(Bytes) /\ y \in Seq(Bytes)
      BY <1>2, SpacedTail, Marks
    <3>2. Len(y) = 1 + Len(x) /\ Len(x) \in Nat
      <4>1. <<"SP">> \in Seq(Bytes) /\ Len(<<"SP">>) = 1
        BY Marks, Singles
      <4> QED  BY <2>1, <4>1, Joined
    <3> QED  BY <3>1, <3>2
  <2> HIDE DEF x, w, ys, us, rest
  <2>4. At(line, p, y) /\ At(line, q, rest)
    <3>1. At(line, p, y) /\ At(line, p + Len(y), rest)
      <4> HIDE DEF y
      <4> QED  BY <2>3, AtParts
    <3>2. p + Len(y) = q
      BY <2>3
    <3> QED  BY <3>1, <3>2
  <2>5. q + Len(rest) = p + Len(Spaced(xs)) /\ q \in Nat
    <3>1. Len(y \o rest) = Len(y) + Len(rest) /\ Len(rest) \in Nat
      <4> HIDE DEF y
      <4> QED  BY <2>3, Joined
    <3> QED  BY <2>3, <3>1
  <2>6. Bound(line, q)
    <3> HIDE DEF q, T
    <3> QED  BY <2>1, <2>4, <2>5, SpacedBound DEF rest
  <2>7. Holds(ys, us, q)
    <3>1. \A vws \in Seq(Seq(Bytes)), n \in Nat : Holds(ys, vws, n)
      <4> HIDE DEF Holds
      <4> QED  BY <2>2
    <3> HIDE DEF Holds, T, q
    <3> QED  BY <2>1, <2>5, <3>1
  <2> HIDE DEF T
  <2>8. WordsFrom(line, q) = Ok(e, us \o vs)
    <3> HIDE DEF q
    <3> QED  BY <2>1, <2>4, <2>5, <2>6, <2>7 DEF rest
  <2>9. WordsFrom(line, p) = Ok(e, (<<w>> \o us) \o vs)
    <3>1. WordsFrom(line, p + 1 + Len(x)) = Ok(e, us \o vs) /\ Bound(line, p + 1 + Len(x)) /\ At(line, p, <<"SP">> \o x)
      BY <2>4, <2>6, <2>8
    <3> HIDE DEF q, y, Holds
    <3>2. Before(line, p, e, x, w, us, vs)
      BY <2>1, <3>1 DEF Before
    <3> QED  BY <3>2, PieceStep
  <2> QED  BY <2>1, <2>9
<1>3. Seq(Seq(Bytes)) \subseteq T
  <2>1. T \in SUBSET Seq(Seq(Bytes))
    OBVIOUS
  <2> HIDE DEF T
  <2> QED  BY <1>1, <1>2, <2>1, SeqInduct
<1> QED  BY <1>3 DEF ReadBefore

-----------------------------------------------------------------------------
(* Reading one option as its words.                                        *)

Dashed(name) == <<"-">> \o name

OptionWords(o) == IF o.value = NoValue THEN <<Dashed(o.name)>> ELSE <<Dashed(o.name), o.value>>

(* The name of an option, with its dash, is a word.                        *)
LEMMA DashedWritten ==
  ASSUME NEW name \in Seq(Plain)
  PROVE  /\ Dashed(name) \in Seq(Plain) /\ Dashed(name) \in Seq(Bytes) /\ Written(Dashed(name), Dashed(name))
         /\ Tail(Dashed(name)) = name /\ StartsWithDash(Dashed(name)) /\ Len(Dashed(name)) = Len(name) + 1
<1>1. "-" \in Plain
  BY Marks DEF Plain, Blank
<1> DEFINE w == Dashed(name)
<1>2. w \in Seq(Plain) /\ Len(w) = Len(name) + 1 /\ w # <<>> /\ w[1] = "-" /\ Tail(w) = name
  BY <1>1 DEF Dashed
<1> HIDE DEF w
<1>3. w \in Seq(Bytes)
  BY <1>2 DEF Plain
<1>4. Written(w, w)
  BY <1>2 DEF Written
<1>5. StartsWithDash(w)
  BY <1>2 DEF StartsWithDash
<1> QED  BY <1>2, <1>3, <1>4, <1>5 DEF w

(* An option has a value exactly if its name is one of the valued.         *)
LEMMA OptionFields ==
  ASSUME NEW valued, NEW o \in OptionSet(valued)
  PROVE  /\ o.name \in Seq(Plain) /\ o.name # <<"-">> /\ o = [name |-> o.name, value |-> o.value]
         /\ \/ o.value = NoValue /\ o.name \notin valued
            \/ o.value \in Texts /\ o.value # NoValue /\ o.name \in valued
BY DEF OptionSet

(* An option is written as its dashed name, and its value if it has one.   *)
LEMMA OptionEncoded ==
  ASSUME NEW valued, NEW o \in OptionSet(valued)
  PROVE  /\ encode_option(o) \in Seq(Bytes)
         /\ o.value = NoValue => encode_option(o) = Dashed(o.name)
         /\ o.value # NoValue =>
              /\ encode_parameter(o.value) \in Seq(Bytes)
              /\ encode_option(o) = Dashed(o.name) \o (<<"SP">> \o encode_parameter(o.value))
<1> DEFINE d == Dashed(o.name)
<1>0. d \in Seq(Bytes)
  BY OptionFields, DashedWritten
<1>1. CASE o.value = NoValue
  <2>1. encode_option(o) = d \o <<>>
    BY <1>1 DEF encode_option, Dashed
  <2> HIDE DEF d
  <2>2. d \o <<>> = d
    BY <1>0
  <2> QED  BY <1>0, <1>1, <2>1, <2>2 DEF d
<1>2. CASE o.value # NoValue
  <2> DEFINE x == encode_parameter(o.value)
             y == <<"SP">> \o x
  <2>1. encode_option(o) = d \o y
    BY <1>2 DEF encode_option, Dashed
  <2>2. o.value \in Texts
    BY <1>2, OptionFields
  <2>3. x \in Seq(Bytes)
    BY <2>2, ParameterWritten, WrittenBytes
  <2> HIDE DEF x
  <2>4. y \in Seq(Bytes)
    BY <2>3, Marks, Singles, Joined
  <2> HIDE DEF y, d
  <2>5. d \o y \in Seq(Bytes)
    BY <1>0, <2>4, Joined
  <2> QED  BY <1>2, <2>1, <2>3, <2>5 DEF d, x, y
<1> QED  BY <1>1, <1>2

OptionAt(line, p, e, o, us, vs) ==
  /\ line \in Seq(Bytes) /\ us \in Seq(Seq(Bytes)) /\ vs \in Seq(Seq(Bytes))
  /\ At(line, p, <<"SP">> \o encode_option(o)) /\ Bound(line, p + 1 + Len(encode_option(o)))
  /\ WordsFrom(line, p + 1 + Len(encode_option(o))) = Ok(e, us \o vs)

(* An option before other words is read as its own words before them.      *)
LEMMA OptionRead ==
  ASSUME NEW valued, NEW o \in OptionSet(valued), NEW line, NEW p, NEW e, NEW us, NEW vs,
         OptionAt(line, p, e, o, us, vs)
  PROVE  WordsFrom(line, p) = Ok(e, (OptionWords(o) \o us) \o vs)
<1> DEFINE d == Dashed(o.name)
           oo == encode_option(o)
           q == p + 1 + Len(oo)
<1>1. /\ line \in Seq(Bytes) /\ us \in Seq(Seq(Bytes)) /\ vs \in Seq(Seq(Bytes))
      /\ At(line, p, <<"SP">> \o oo) /\ Bound(line, q)
      /\ WordsFrom(line, q) = Ok(e, us \o vs)
  BY DEF OptionAt
<1>2. d \in Seq(Bytes) /\ Written(d, d) /\ Len(d) \in Nat
  BY OptionFields, DashedWritten, Joined
<1>3. CASE o.value = NoValue
  <2>1. oo = d /\ OptionWords(o) = <<d>>
    BY <1>3, OptionEncoded DEF OptionWords
  <2> HIDE DEF d, oo
  <2>2. Before(line, p, e, d, d, us, vs)
    BY <1>1, <1>2, <2>1 DEF Before
  <2> QED  BY <2>1, <2>2, PieceStep
<1>4. CASE o.value # NoValue
  <2> DEFINE v == o.value
             x == encode_parameter(v)
             y == <<"SP">> \o x
             z == <<"SP">> \o d
             r == p + 1 + Len(d)
  <2>1. oo = d \o y /\ OptionWords(o) = <<d, v>> /\ x \in Seq(Bytes)
    BY <1>4, OptionEncoded DEF OptionWords
  <2>2. v \in Texts /\ Written(x, v) /\ v \in Seq(Bytes)
    BY <1>4, OptionFields, ParameterWritten DEF Texts
  <2>3. /\ <<"SP">> \in Seq(Bytes) /\ Len(<<"SP">>) = 1
    BY Marks, Singles
  <2> HIDE DEF d, oo, v, x
  <2>4. y \in Seq(Bytes) /\ z \in Seq(Bytes) /\ Len(y) = 1 + Len(x) /\ Len(z) = 1 + Len(d) /\ Len(x) \in Nat
    BY <1>2, <2>1, <2>3, Joined
  <2>5. <<"SP">> \o oo = z \o y
    <3> DEFINE u == <<"SP">>
    <3> HIDE DEF u, y
    <3>1. OneWay(u, d, y)
      BY <1>2, <2>3, <2>4, Assoc DEF u
    <3> QED  BY <2>1, <3>1 DEF OneWay, u
  <2>6. At(line, p, z) /\ At(line, p + Len(z), y)
    <3>1. At(line, p, z \o y)
      BY <1>1, <2>5
    <3> HIDE DEF z, y
    <3> QED  BY <1>1, <2>4, <3>1, AtParts
  <2>7. p \in Nat
    BY <1>1, <1>2, <2>6, SpaceFirst
  <2>8. p + Len(z) = r /\ r + 1 + Len(x) = q /\ r \in Nat
    <3>1. Len(oo) = Len(d) + Len(y)
      <4> HIDE DEF y
      <4> QED  BY <1>2, <2>1, <2>4, Joined
    <3> QED  BY <1>2, <2>4, <2>7, <3>1
  <2>9. At(line, r, <<"SP">> \o x) /\ Bound(line, r)
    <3>1. At(line, r, y)
      BY <2>6, <2>8
    <3> HIDE DEF r
    <3> QED  BY <1>1, <2>1, <3>1, SpaceFirst
  <2>10. WordsFrom(line, r) = Ok(e, (<<v>> \o us) \o vs)
    <3> HIDE DEF r, q, y
    <3>1. Before(line, r, e, x, v, us, vs)
      BY <1>1, <2>2, <2>8, <2>9 DEF Before
    <3> QED  BY <3>1, PieceStep
  <2> DEFINE ts == <<v>> \o us
  <2>11. ts \in Seq(Seq(Bytes)) /\ <<d>> \o ts = <<d, v>> \o us
    <3> DEFINE B == Seq(Bytes)
    <3>1. v \in B /\ us \in Seq(B) /\ d \in B
      BY <1>1, <1>2, <2>2
    <3> HIDE DEF B
    <3>2. ts \in Seq(B) /\ <<d>> \o ts = <<d, v>> \o us
      BY <3>1
    <3> QED  BY <3>2 DEF B
  <2>12. WordsFrom(line, p) = Ok(e, (<<d>> \o ts) \o vs)
    <3>1. At(line, p, <<"SP">> \o d) /\ Bound(line, p + 1 + Len(d)) /\ WordsFrom(line, p + 1 + Len(d)) = Ok(e, ts \o vs)
      BY <2>6, <2>9, <2>10
    <3> HIDE DEF ts
    <3>2. Before(line, p, e, d, d, ts, vs)
      BY <1>1, <1>2, <2>11, <3>1 DEF Before
    <3> QED  BY <3>2, PieceStep
  <2> QED  BY <2>1, <2>11, <2>12
<1> QED  BY <1>3, <1>4

-----------------------------------------------------------------------------
(* Reading several options as their words.                                 *)

Encoded(opts) == [i \in DOMAIN opts |-> encode_option(opts[i])]

AllWords(opts) == FlattenSeq([i \in DOMAIN opts |-> OptionWords(opts[i])])

LEMMA OptionWordsIn ==
  ASSUME NEW valued, NEW o \in OptionSet(valued)
  PROVE  OptionWords(o) \in Seq(Seq(Bytes))
<1> DEFINE d == Dashed(o.name)
           v == o.value
<1>1. d \in Seq(Bytes)
  BY OptionFields, DashedWritten
<1>2. v = NoValue \/ v \in Seq(Bytes)
  BY OptionFields DEF Texts
<1>3. OptionWords(o) = IF v = NoValue THEN <<d>> ELSE <<d, v>>
  BY DEF OptionWords
<1> DEFINE B == Seq(Bytes)
<1> HIDE DEF d, v, B
<1>4. \A a, b \in B : <<a>> \in Seq(B) /\ <<a, b>> \in Seq(B)
  OBVIOUS
<1>5. d \in B /\ (v = NoValue \/ v \in B)
  BY <1>1, <1>2 DEF B
<1>6. OptionWords(o) \in Seq(B)
  BY <1>3, <1>4, <1>5
<1> QED  BY <1>6 DEF B

(* The first option of several, then the others.                           *)
LEMMA OptionsTail ==
  ASSUME NEW valued, NEW opts \in Seq(OptionSet(valued)), opts # <<>>
  PROVE  /\ opts[1] \in OptionSet(valued) /\ Tail(opts) \in Seq(OptionSet(valued))
         /\ Spaced(Encoded(opts)) = (<<"SP">> \o encode_option(opts[1])) \o Spaced(Encoded(Tail(opts)))
         /\ Encoded(Tail(opts)) \in Seq(Seq(Bytes)) /\ Spaced(Encoded(Tail(opts))) \in Seq(Bytes)
         /\ AllWords(opts) = OptionWords(opts[1]) \o AllWords(Tail(opts))
         /\ AllWords(Tail(opts)) \in Seq(Seq(Bytes))
<1> DEFINE O == OptionSet(valued)
           n == Len(opts)
           t == Tail(opts)
           ss == [i \in DOMAIN opts |-> OptionWords(opts[i])]
           tt == [i \in DOMAIN t |-> OptionWords(t[i])]
           xx == Encoded(opts)
           yy == Encoded(t)
<1>1. /\ DOMAIN opts = 1..n /\ n \in Nat /\ n # 0
      /\ DOMAIN t = 1..(n - 1)
      /\ \A i \in 1..(n - 1) : t[i] = opts[i + 1]
      /\ \A i \in 1..n : opts[i] \in O
      /\ t \in Seq(O)
  <2> HIDE DEF O
  <2>1. opts \in Seq(O)
    BY DEF O
  <2> QED  BY <2>1
<1>2. ss \in Seq(Seq(Seq(Bytes))) /\ ss # <<>> /\ ss[1] = OptionWords(opts[1]) /\ Tail(ss) = tt
  <2>1. \A i \in 1..n : OptionWords(opts[i]) \in Seq(Seq(Bytes))
    BY <1>1, OptionWordsIn
  <2> DEFINE B == Seq(Seq(Bytes))
  <2>2. ss \in [1..n -> B] /\ ss[1] = OptionWords(opts[1]) /\ DOMAIN ss = 1..n
    BY <1>1, <2>1
  <2>3. \A i \in 1..(n - 1) : ss[i + 1] = tt[i]
    BY <1>1
  <2>4. DOMAIN tt = 1..(n - 1) /\ tt = [i \in 1..(n - 1) |-> tt[i]]
    BY <1>1
  <2> HIDE DEF ss, tt, B, n
  <2>5. ss \in Seq(B) /\ Len(ss) = n /\ ss # <<>>
    BY <1>1, <2>2, FunctionIsSeq
  <2>6. Tail(ss) = [i \in 1..(n - 1) |-> ss[i + 1]]
    BY <1>1, <2>5, TailIs
  <2>7. Tail(ss) = tt
    BY <2>3, <2>4, <2>6
  <2> QED  BY <2>2, <2>5, <2>7 DEF B
<1>3. xx \in Seq(Seq(Bytes)) /\ xx # <<>> /\ xx[1] = encode_option(opts[1]) /\ Tail(xx) = yy /\ yy \in Seq(Seq(Bytes))
  <2>1. \A i \in 1..n : encode_option(opts[i]) \in Seq(Bytes)
    BY <1>1, OptionEncoded
  <2> DEFINE B == Seq(Bytes)
  <2>2. xx \in [1..n -> B] /\ xx[1] = encode_option(opts[1]) /\ DOMAIN xx = 1..n
    BY <1>1, <2>1 DEF Encoded
  <2>3. \A i \in 1..(n - 1) : xx[i + 1] = yy[i]
    BY <1>1 DEF Encoded
  <2>4. DOMAIN yy = 1..(n - 1) /\ yy = [i \in 1..(n - 1) |-> yy[i]]
    BY <1>1 DEF Encoded
  <2> HIDE DEF xx, yy, B, n
  <2>5. xx \in Seq(B) /\ Len(xx) = n /\ xx # <<>>
    BY <1>1, <2>2, FunctionIsSeq
  <2>6. Tail(xx) = [i \in 1..(n - 1) |-> xx[i + 1]] /\ Tail(xx) \in Seq(B)
    BY <1>1, <2>5, TailIs
  <2>7. Tail(xx) = yy
    BY <2>3, <2>4, <2>6
  <2> QED  BY <2>2, <2>5, <2>6, <2>7 DEF B
<1>4. /\ Spaced(xx) = (<<"SP">> \o xx[1]) \o Spaced(Tail(xx))
      /\ Spaced(Tail(xx)) \in Seq(Bytes)
  <2> HIDE DEF xx
  <2> QED  BY <1>3, SpacedTail, Marks
<1>5. FlattenSeq(ss) = ss[1] \o FlattenSeq(Tail(ss)) /\ FlattenSeq(Tail(ss)) \in Seq(Seq(Bytes))
  <2> DEFINE B == Seq(Bytes)
  <2> HIDE DEF ss, B
  <2>1. ss \in Seq(Seq(B)) /\ ss # <<>>
    BY <1>2 DEF B
  <2>2. FlattenSeq(ss) = ss[1] \o FlattenSeq(Tail(ss)) /\ FlattenSeq(Tail(ss)) \in Seq(B)
    BY <2>1, FlattenTail
  <2> QED  BY <2>2 DEF B
<1>6. AllWords(opts) = FlattenSeq(ss) /\ AllWords(t) = FlattenSeq(tt)
  BY DEF AllWords
<1> HIDE DEF ss, tt, xx, yy, t
<1>7. opts[1] \in O /\ t \in Seq(O)
  BY <1>1
<1>8. Spaced(Encoded(opts)) = (<<"SP">> \o encode_option(opts[1])) \o Spaced(yy)
  BY <1>3, <1>4 DEF xx
<1> QED  BY <1>2, <1>3, <1>4, <1>5, <1>6, <1>7, <1>8 DEF t, yy

LEMMA NoOptions == Encoded(<<>>) = <<>> /\ AllWords(<<>>) = <<>>
<1>1. [i \in DOMAIN <<>> |-> OptionWords(<<>>[i])] = <<>> /\ Encoded(<<>>) = <<>>
  BY DEF Encoded
<1> QED  BY <1>1, FlattenEmpty DEF AllWords

(* Any number of options is read as their words, before what follows.      *)
LEMMA OptionsRead ==
  ASSUME NEW valued, NEW line \in Seq(Bytes), NEW e \in Nat, NEW vs \in Seq(Seq(Bytes))
  PROVE  \A opts \in Seq(OptionSet(valued)) : \A p \in Nat :
            /\ At(line, p, Spaced(Encoded(opts))) /\ Bound(line, p + Len(Spaced(Encoded(opts))))
            /\ WordsFrom(line, p + Len(Spaced(Encoded(opts)))) = Ok(e, vs)
            => WordsFrom(line, p) = Ok(e, AllWords(opts) \o vs)
<1> DEFINE O == OptionSet(valued)
           Holds(opts, p) ==
            /\ At(line, p, Spaced(Encoded(opts))) /\ Bound(line, p + Len(Spaced(Encoded(opts))))
            /\ WordsFrom(line, p + Len(Spaced(Encoded(opts)))) = Ok(e, vs)
            => WordsFrom(line, p) = Ok(e, AllWords(opts) \o vs)
           T == {opts \in Seq(O) : \A p \in Nat : Holds(opts, p)}
<1>1. <<>> \in T
  <2> SUFFICES ASSUME NEW p \in Nat, WordsFrom(line, p + Len(Spaced(Encoded(<<>>)))) = Ok(e, vs)
               PROVE  WordsFrom(line, p) = Ok(e, AllWords(<<>>) \o vs)
    <3>1. <<>> \in Seq(O)
      <4> HIDE DEF O
      <4> QED  OBVIOUS
    <3>2. ASSUME NEW p \in Nat PROVE Holds(<<>>, p)
      OBVIOUS
    <3> HIDE DEF Holds, O
    <3> QED  BY <3>1, <3>2
  <2>1. Len(Spaced(Encoded(<<>>))) = 0
    <3>1. Len(<<>>) = 0
      OBVIOUS
    <3> QED  BY <3>1, SpacedEmpty, NoOptions
  <2>2. <<>> \o vs = vs
    OBVIOUS
  <2>3. p + 0 = p
    OBVIOUS
  <2> QED  BY <2>1, <2>2, <2>3, NoOptions
<1>2. ASSUME NEW opts \in Seq(O), opts # <<>>, Tail(opts) \in T PROVE opts \in T
  <2> SUFFICES ASSUME NEW p \in Nat,
                      At(line, p, Spaced(Encoded(opts))), Bound(line, p + Len(Spaced(Encoded(opts)))),
                      WordsFrom(line, p + Len(Spaced(Encoded(opts)))) = Ok(e, vs)
               PROVE  WordsFrom(line, p) = Ok(e, AllWords(opts) \o vs)
    <3>1. ASSUME NEW p \in Nat PROVE Holds(opts, p)
      OBVIOUS
    <3> HIDE DEF Holds
    <3> QED  BY <3>1
  <2> DEFINE o == opts[1]
             t == Tail(opts)
             x == encode_option(o)
             y == <<"SP">> \o x
             rest == Spaced(Encoded(t))
             us == AllWords(t)
             q == p + 1 + Len(x)
  <2>1. /\ o \in O /\ t \in Seq(O) /\ Encoded(t) \in Seq(Seq(Bytes)) /\ us \in Seq(Seq(Bytes))
        /\ Spaced(Encoded(opts)) = y \o rest /\ rest \in Seq(Bytes)
        /\ AllWords(opts) = OptionWords(o) \o us
    <3> HIDE DEF T
    <3> QED  BY <1>2, OptionsTail
  <2>2. \A n \in Nat : Holds(t, n)
    <3> HIDE DEF Holds, O
    <3> QED  BY <1>2
  <2>3. x \in Seq(Bytes) /\ Len(x) \in Nat /\ y \in Seq(Bytes) /\ Len(y) = 1 + Len(x)
    <3>1. x \in Seq(Bytes)
      BY <2>1, OptionEncoded
    <3>2. <<"SP">> \in Seq(Bytes) /\ Len(<<"SP">>) = 1
      BY Marks, Singles
    <3> HIDE DEF x
    <3> QED  BY <3>1, <3>2, Joined
  <2> HIDE DEF o, t, x, rest, us, T
  <2>4. At(line, p, y) /\ At(line, q, rest)
    <3>1. At(line, p, y) /\ At(line, p + Len(y), rest)
      <4> HIDE DEF y
      <4> QED  BY <2>1, <2>3, AtParts
    <3>2. p + Len(y) = q
      BY <2>3
    <3> QED  BY <3>1, <3>2
  <2>5. q + Len(rest) = p + Len(Spaced(Encoded(opts))) /\ q \in Nat
    <3>1. Len(y \o rest) = Len(y) + Len(rest) /\ Len(rest) \in Nat
      <4> HIDE DEF y
      <4> QED  BY <2>1, <2>3, Joined
    <3> QED  BY <2>1, <2>3, <3>1
  <2>6. Bound(line, q)
    <3> HIDE DEF q
    <3> QED  BY <2>1, <2>4, <2>5, SpacedBound DEF rest
  <2>7. Holds(t, q)
    <3> HIDE DEF Holds, q
    <3> QED  BY <2>2, <2>5
  <2>8. WordsFrom(line, q) = Ok(e, us \o vs)
    <3> HIDE DEF q
    <3> QED  BY <2>4, <2>5, <2>7 DEF rest, us
  <2>9. OptionAt(line, p, e, o, us, vs)
    <3>1. At(line, p, <<"SP">> \o encode_option(o)) /\ Bound(line, p + 1 + Len(encode_option(o)))
          /\ WordsFrom(line, p + 1 + Len(encode_option(o))) = Ok(e, us \o vs)
      BY <2>4, <2>6, <2>8 DEF x
    <3> HIDE DEF Holds
    <3> QED  BY <2>1, <3>1 DEF OptionAt
  <2> HIDE DEF Holds, q, y
  <2>10. WordsFrom(line, p) = Ok(e, (OptionWords(o) \o us) \o vs)
    BY <2>1, <2>9, OptionRead
  <2> QED  BY <2>1, <2>10
<1>3. Seq(O) \subseteq T
  <2>1. T \in SUBSET Seq(O)
    OBVIOUS
  <2> HIDE DEF T, O
  <2> QED  BY <1>1, <1>2, <2>1, SeqInduct
<1> QED  BY <1>3

-----------------------------------------------------------------------------
(* The loop that reads options is its recursion.                           *)

Opened(name, value, rest) == [rest EXCEPT !.options = <<[name |-> name, value |-> value]>> \o @]

Parsed == [options : Seq([name : Seq(Bytes), value : Seq(Bytes) \cup {NoValue}]), parameters : Seq(Seq(Bytes))]

(* The words from k on are parameters.                                     *)
Params(words, k) == [options |-> <<>>, parameters |-> SubSeq(words, k, Len(words))]

(* One turn of the loop over the options.                                  *)
OptionsTurn(words, valued, k, rest) ==
  LET name == Tail(words[k])
  IN IF k > Len(words) \/ ~StartsWithDash(words[k]) THEN Params(words, k)
     ELSE IF words[k] = <<"-", "-">> THEN Params(words, k + 1)
     ELSE IF name \in valued /\ k < Len(words) THEN Opened(name, words[k + 1], rest[k + 2])
     ELSE Opened(name, NoValue, rest[k + 1])

LEMMA OpenedIs ==
  \A name, value, opts, params :
     Opened(name, value, [options |-> opts, parameters |-> params])
       = [options |-> <<[name |-> name, value |-> value]>> \o opts, parameters |-> params]
<1> SUFFICES ASSUME NEW name, NEW value, NEW opts, NEW params
             PROVE  Opened(name, value, [options |-> opts, parameters |-> params])
                      = [options |-> <<[name |-> name, value |-> value]>> \o opts, parameters |-> params]
  OBVIOUS
<1> DEFINE r == [options |-> opts, parameters |-> params]
           os == <<[name |-> name, value |-> value]>> \o opts
<1>1. r.options = opts
  OBVIOUS
<1>2. Opened(name, value, r) = [r EXCEPT !.options = os]
  BY <1>1 DEF Opened
<1> HIDE DEF os
<1>3. [r EXCEPT !.options = os] = [options |-> os, parameters |-> params]
  OBVIOUS
<1> QED  BY <1>2, <1>3 DEF os

(* An option before what is parsed is parsed.                              *)
LEMMA OpenedParsed ==
  ASSUME NEW name \in Seq(Bytes), NEW value \in Seq(Bytes) \cup {NoValue}, NEW r \in Parsed
  PROVE  Opened(name, value, r) \in Parsed
<1> DEFINE O == [name : Seq(Bytes), value : Seq(Bytes) \cup {NoValue}]
           o == [name |-> name, value |-> value]
           os == r.options
           ps == r.parameters
<1>1. o \in O /\ os \in Seq(O) /\ ps \in Seq(Seq(Bytes)) /\ r = [options |-> os, parameters |-> ps]
  BY DEF Parsed
<1>2. Opened(name, value, r) = [options |-> <<o>> \o os, parameters |-> ps]
  <2> HIDE DEF os, ps
  <2>1. Opened(name, value, [options |-> os, parameters |-> ps]) = [options |-> <<o>> \o os, parameters |-> ps]
    BY OpenedIs
  <2> QED  BY <1>1, <2>1
<1> HIDE DEF O, o, os, ps
<1>3. <<o>> \o os \in Seq(O)
  BY <1>1, ConsConcat, Singles, Joined
<1> DEFINE oo == <<o>> \o os
<1>4. Opened(name, value, r) = [options |-> oo, parameters |-> ps] /\ oo \in Seq(O)
  BY <1>2, <1>3
<1> HIDE DEF oo
<1>5. Parsed = [options : Seq(O), parameters : Seq(Seq(Bytes))]
  BY DEF Parsed, O
<1> QED  BY <1>1, <1>4, <1>5

LEMMA ParamsParsed ==
  ASSUME NEW words \in Seq(Seq(Bytes)), NEW k \in 1..(Len(words) + 1)
  PROVE  Params(words, k) \in Parsed
<1> DEFINE B == Seq(Bytes)
           O == [name : Seq(Bytes), value : Seq(Bytes) \cup {NoValue}]
<1>1. words \in Seq(B)
  OBVIOUS
<1> HIDE DEF B, O
<1>2. SubSeq(words, k, Len(words)) \in Seq(B)
  <2>1. \A i \in k..Len(words) : words[i] \in B
    BY <1>1
  <2> QED  BY <1>1, <2>1
<1>3. <<>> \in Seq(O)
  OBVIOUS
<1> QED  BY <1>2, <1>3 DEF Params, Parsed, B, O

(* OptionsFrom does turn by turn what its Turn says.                       *)
LEMMA OptionsTurns ==
  ASSUME NEW words \in Seq(Seq(Bytes)), NEW valued
  PROVE  \E f \in [1..(Len(words) + 1) -> Parsed] :
            \A k \in 1..(Len(words) + 1) :
               OptionsFrom(words, valued, k) = f[k] /\ f[k] = OptionsTurn(words, valued, k, f)
<1> DEFINE D == 1..(Len(words) + 1)
           V == Parsed
           Ends(k) == k > Len(words) \/ ~ StartsWithDash(words[k])
           Split(k) == words[k] = <<"-", "-">>
           Takes(k) == Tail(words[k]) \in valued /\ k < Len(words)
           stop == {k \in D : Ends(k) \/ Split(k)}
           val == [k \in D |-> IF Ends(k) THEN Params(words, k) ELSE Params(words, k + 1)]
           next == [k \in D |-> IF k \in stop THEN k ELSE IF Takes(k) THEN k + 2 ELSE k + 1]
           value(k) == IF Takes(k) THEN words[k + 1] ELSE NoValue
           comb == [x \in D \X V |-> IF x[1] \in stop THEN x[2] ELSE Opened(Tail(words[x[1]]), value(x[1]), x[2])]
           mu == [k \in D |-> Len(words) + 1 - k]
<1>1. Len(words) \in Nat
  OBVIOUS
<1>2. ASSUME NEW k \in D, ~ Ends(k) PROVE k + 1 \in D /\ Tail(words[k]) \in Seq(Bytes) /\ k \in 1..Len(words)
  <2>1. k \in 1..Len(words) /\ StartsWithDash(words[k])
    BY <1>1, <1>2
  <2>2. words[k] \in Seq(Bytes) /\ words[k] # <<>>
    BY <2>1 DEF StartsWithDash
  <2> DEFINE w == words[k]
  <2> HIDE DEF w
  <2>3. Tail(w) \in Seq(Bytes)
    BY <2>2, HeadTail DEF w
  <2> QED  BY <1>1, <2>1, <2>3 DEF w
<1>3. ASSUME NEW k \in D \ stop
      PROVE  Tail(words[k]) \in Seq(Bytes) /\ value(k) \in Seq(Bytes) \cup {NoValue} /\ next[k] \in D /\ k < next[k]
  <2>1. k \in D /\ ~ Ends(k)
    OBVIOUS
  <2>2. k + 1 \in D /\ Tail(words[k]) \in Seq(Bytes) /\ k \in 1..Len(words)
    BY <1>2, <2>1
  <2>3. next[k] = IF Takes(k) THEN k + 2 ELSE k + 1
    <3> HIDE DEF stop, Takes
    <3> QED  BY <2>1
  <2>4. CASE Takes(k)
    <3>1. k < Len(words)
      BY <2>4
    <3>2. words[k + 1] \in Seq(Bytes)
      BY <1>1, <2>2, <3>1
    <3> HIDE DEF stop, next
    <3> QED  BY <1>1, <2>2, <2>3, <2>4, <3>1, <3>2
  <2>5. CASE ~ Takes(k)
    <3> HIDE DEF stop, next, Takes
    <3> QED  BY <1>1, <2>2, <2>3, <2>5
  <2> QED  BY <2>4, <2>5
<1>4. ASSUME NEW k \in D PROVE val[k] \in V
  <2>1. CASE Ends(k)
    <3>1. val[k] = Params(words, k)
      BY <2>1
    <3> HIDE DEF val
    <3> QED  BY <3>1, ParamsParsed
  <2>2. CASE ~ Ends(k)
    <3>1. k + 1 \in D /\ val[k] = Params(words, k + 1)
      BY <1>2, <2>2
    <3> HIDE DEF val
    <3> QED  BY <3>1, ParamsParsed
  <2> QED  BY <2>1, <2>2
<1> HIDE DEF Ends, Split, Takes, value, V
<1>5. Descent(D, V, stop, val, next, comb, mu)
  <2>1. stop \in SUBSET D /\ val \in [D -> V]
    <3>1. val = [k \in D |-> val[k]]
      OBVIOUS
    <3> HIDE DEF val
    <3> QED  BY <1>4, <3>1
  <2>2. next \in [D -> D]
    <3>1. \A k \in D : next[k] \in D
      <4>1. \A k \in stop : next[k] = k
        OBVIOUS
      <4> HIDE DEF stop, next
      <4> QED  BY <1>3, <4>1
    <3> QED  BY <3>1
  <2>3. comb \in [D \X V -> V]
    <3> SUFFICES ASSUME NEW k \in D, NEW v \in V
                 PROVE (IF k \in stop THEN v ELSE Opened(Tail(words[k]), value(k), v)) \in V
      OBVIOUS
    <3>1. k \notin stop => Opened(Tail(words[k]), value(k), v) \in V
      BY <1>3, OpenedParsed DEF V
    <3> HIDE DEF stop
    <3> QED  BY <3>1
  <2>4. mu \in [D -> Nat]
    BY <1>1
  <2>5. \A k \in D \ stop : mu[next[k]] < mu[k]
    <3> SUFFICES ASSUME NEW k \in D \ stop PROVE mu[next[k]] < mu[k]
      OBVIOUS
    <3>1. next[k] \in D /\ k < next[k] /\ k \in D
      BY <1>3
    <3> HIDE DEF next, stop
    <3> QED  BY <1>1, <3>1
  <2> HIDE DEF D, stop, val, next, comb, mu
  <2> QED  BY <2>1, <2>2, <2>3, <2>4, <2>5 DEF Descent
<1>6. PICK f \in [D -> V] : RunsAs(f, D, stop, val, next, comb)
  <2> HIDE DEF D, stop, val, next, comb, mu
  <2> QED  BY <1>5, Loops
<1>7. ASSUME NEW k \in D, NEW g PROVE
         /\ k \in stop => OptionsTurn(words, valued, k, g) = val[k]
         /\ k \notin stop => OptionsTurn(words, valued, k, g) = Opened(Tail(words[k]), value(k), g[next[k]])
  <2>1. CASE k \in stop
    BY <2>1 DEF OptionsTurn, Ends, Split
  <2>2. CASE k \notin stop
    BY <2>2 DEF OptionsTurn, Ends, Split, Takes, value
  <2> QED  BY <2>1, <2>2
<1>8. ASSUME NEW k \in D PROVE f[k] = OptionsTurn(words, valued, k, f)
  <2>1. CASE k \in stop
    <3>1. f[k] = val[k]
      BY <1>6, <2>1 DEF RunsAs
    <3> QED  BY <1>7, <2>1, <3>1
  <2>2. CASE k \notin stop
    <3>1. f[k] = comb[<<k, f[next[k]]>>]
      BY <1>6, <2>2 DEF RunsAs
    <3>2. f[next[k]] \in V
      BY <1>3, <2>2
    <3>3. comb[<<k, f[next[k]]>>] = Opened(Tail(words[k]), value(k), f[next[k]])
      <4> HIDE DEF next, stop
      <4> QED  BY <2>2, <3>2
    <3> QED  BY <1>7, <2>2, <3>1, <3>3
  <2> QED  BY <2>1, <2>2
<1> DEFINE h == CHOOSE g : g = [k \in D |-> OptionsTurn(words, valued, k, g)]
<1>9. f = [k \in D |-> OptionsTurn(words, valued, k, f)]
  BY <1>8
<1>10. h = [k \in D |-> OptionsTurn(words, valued, k, h)]
  BY <1>9
<1>11. \A k : OptionsFrom(words, valued, k) = h[k]
  BY DEF OptionsFrom, OptionsTurn, Opened, Params
<1>12. \A k \in D : (k \notin stop => h[next[k]] = f[next[k]]) => h[k] = f[k]
  <2> SUFFICES ASSUME NEW k \in D, k \notin stop => h[next[k]] = f[next[k]] PROVE h[k] = f[k]
    <3> HIDE DEF D, stop, next, h
    <3> QED  OBVIOUS
  <2>1. h[k] = OptionsTurn(words, valued, k, h)
    <3> HIDE DEF h
    <3> QED  BY <1>10
  <2> HIDE DEF D, stop, next, h
  <2>2. OptionsTurn(words, valued, k, h) = OptionsTurn(words, valued, k, f)
    BY <1>7
  <2> QED  BY <1>8, <2>1, <2>2
<1>13. \A k \in D : h[k] = f[k]
  <2> HIDE DEF D, stop, val, next, comb, mu, h
  <2> QED  BY <1>5, <1>12, LoopsOnce
<1> HIDE DEF h
<1> QED  BY <1>8, <1>11, <1>13 DEF V

-----------------------------------------------------------------------------
(* Words as options.                                                       *)

(* The words of an option are parsed as that option, before what follows.  *)
LEMMA OptionStep ==
  ASSUME NEW words \in Seq(Seq(Bytes)), NEW k, NEW valued, NEW o \in OptionSet(valued), At(words, k, OptionWords(o))
  PROVE  OptionsFrom(words, valued, k)
           = Opened(o.name, o.value, OptionsFrom(words, valued, k + Len(OptionWords(o))))
<1> DEFINE D == 1..(Len(words) + 1)
           d == Dashed(o.name)
           v == o.value
<1>0. PICK f \in [D -> Parsed] :
         \A i \in D : OptionsFrom(words, valued, i) = f[i] /\ f[i] = OptionsTurn(words, valued, i, f)
  BY OptionsTurns
<1>1. StartsWithDash(d) /\ Tail(d) = o.name /\ o.name # <<"-">>
  BY OptionFields, DashedWritten
<1>2. d # <<"-", "-">>
  <2>1. Tail(<<"-", "-">>) = <<"-">>
    OBVIOUS
  <2> HIDE DEF d
  <2> QED  BY <1>1, <2>1
<1>3. CASE v = NoValue
  <2>1. OptionWords(o) = <<d>> /\ o.name \notin valued
    BY <1>3, OptionFields DEF OptionWords, Texts
  <2> HIDE DEF d
  <2>2. Len(OptionWords(o)) = 1 /\ k \in Nat \ {0} /\ k + 1 <= Len(words) + 1 /\ words[k] = d
    <3>1. At(words, k, <<d>>)
      BY <2>1
    <3> QED  BY <2>1, <3>1 DEF At
  <2>3. k \in D /\ k + 1 \in D /\ ~ (k > Len(words))
    BY <2>2
  <2>4. OptionsTurn(words, valued, k, f) = Opened(o.name, NoValue, f[k + 1])
    BY <1>1, <1>2, <2>1, <2>2, <2>3 DEF OptionsTurn
  <2> QED  BY <1>0, <1>3, <2>2, <2>3, <2>4
<1>4. CASE v # NoValue
  <2>1. OptionWords(o) = <<d, v>> /\ o.name \in valued
    BY <1>4, OptionFields DEF OptionWords
  <2> HIDE DEF d, v
  <2>2. Len(OptionWords(o)) = 2 /\ k \in Nat \ {0} /\ k + 2 <= Len(words) + 1 /\ words[k] = d /\ words[k + 1] = v
    <3>1. At(words, k, <<d, v>>)
      BY <2>1
    <3>2. /\ k \in Nat \ {0} /\ k + 2 <= Len(words) + 1
          /\ \A i \in 1..2 : words[k + i - 1] = <<d, v>>[i]
      BY <3>1 DEF At
    <3>3. k + 1 - 1 = k /\ k + 2 - 1 = k + 1
      BY <3>2
    <3> QED  BY <2>1, <3>2, <3>3
  <2>3. k \in D /\ k + 2 \in D /\ ~ (k > Len(words)) /\ k < Len(words)
    BY <2>2
  <2>4. OptionsTurn(words, valued, k, f) = Opened(o.name, words[k + 1], f[k + 2])
    BY <1>1, <1>2, <2>1, <2>2, <2>3 DEF OptionsTurn
  <2> QED  BY <1>0, <2>2, <2>3, <2>4 DEF v
<1> QED  BY <1>3, <1>4

(* An option before others.                                                *)
OptionBefore(words, valued, k, o, t, params) ==
  /\ words \in Seq(Seq(Bytes)) /\ o \in OptionSet(valued) /\ At(words, k, OptionWords(o))
  /\ OptionsFrom(words, valued, k + Len(OptionWords(o))) = [options |-> t, parameters |-> params]

LEMMA OptionJoins ==
  ASSUME NEW words, NEW valued, NEW k, NEW o, NEW t, NEW params, OptionBefore(words, valued, k, o, t, params)
  PROVE  OptionsFrom(words, valued, k) = [options |-> <<o>> \o t, parameters |-> params]
<1> DEFINE name == o.name
           value == o.value
           r == OptionsFrom(words, valued, k + Len(OptionWords(o)))
<1>1. /\ words \in Seq(Seq(Bytes)) /\ o \in OptionSet(valued) /\ At(words, k, OptionWords(o))
      /\ r = [options |-> t, parameters |-> params]
  BY DEF OptionBefore
<1>2. OptionsFrom(words, valued, k) = Opened(name, value, r)
  BY <1>1, OptionStep
<1>3. o = [name |-> name, value |-> value]
  BY <1>1, OptionFields
<1> HIDE DEF name, value, r
<1>4. Opened(name, value, [options |-> t, parameters |-> params])
        = [options |-> <<[name |-> name, value |-> value]>> \o t, parameters |-> params]
  BY OpenedIs
<1> QED  BY <1>1, <1>2, <1>3, <1>4

(* The words of any number of options are parsed as those options.         *)
LEMMA OptionsParsed ==
  ASSUME NEW words \in Seq(Seq(Bytes)), NEW valued, NEW params
  PROVE  \A opts \in Seq(OptionSet(valued)) : \A k \in Nat :
            /\ At(words, k, AllWords(opts))
            /\ OptionsFrom(words, valued, k + Len(AllWords(opts))) = [options |-> <<>>, parameters |-> params]
            => OptionsFrom(words, valued, k) = [options |-> opts, parameters |-> params]
<1> DEFINE O == OptionSet(valued)
           Holds(opts, k) ==
            /\ At(words, k, AllWords(opts))
            /\ OptionsFrom(words, valued, k + Len(AllWords(opts))) = [options |-> <<>>, parameters |-> params]
            => OptionsFrom(words, valued, k) = [options |-> opts, parameters |-> params]
           T == {opts \in Seq(O) : \A k \in Nat : Holds(opts, k)}
<1>1. <<>> \in T
  <2>1. <<>> \in Seq(O)
    <3> HIDE DEF O
    <3> QED  OBVIOUS
  <2>2. ASSUME NEW k \in Nat PROVE Holds(<<>>, k)
    <3>1. Len(AllWords(<<>>)) = 0
      <4>1. Len(<<>>) = 0
        OBVIOUS
      <4> QED  BY <4>1, NoOptions
    <3>2. k + 0 = k
      OBVIOUS
    <3> QED  BY <3>1, <3>2
  <2> HIDE DEF Holds, O
  <2> QED  BY <2>1, <2>2
<1>2. ASSUME NEW opts \in Seq(O), opts # <<>>, Tail(opts) \in T PROVE opts \in T
  <2> SUFFICES ASSUME NEW k \in Nat, At(words, k, AllWords(opts)),
                      OptionsFrom(words, valued, k + Len(AllWords(opts))) = [options |-> <<>>, parameters |-> params]
               PROVE  OptionsFrom(words, valued, k) = [options |-> opts, parameters |-> params]
    <3>1. ASSUME NEW k \in Nat PROVE Holds(opts, k)
      OBVIOUS
    <3> HIDE DEF Holds
    <3> QED  BY <3>1
  <2> DEFINE o == opts[1]
             t == Tail(opts)
             x == OptionWords(o)
             us == AllWords(t)
             q == k + Len(x)
  <2>1. o \in O /\ t \in Seq(O) /\ AllWords(opts) = x \o us /\ us \in Seq(Seq(Bytes))
    <3> HIDE DEF T
    <3> QED  BY <1>2, OptionsTail
  <2>2. \A n \in Nat : Holds(t, n)
    <3> HIDE DEF Holds, O
    <3> QED  BY <1>2
  <2>3. x \in Seq(Seq(Bytes))
    BY <2>1, OptionWordsIn
  <2>4. opts = <<o>> \o t
    <3> HIDE DEF O
    <3> QED  BY <1>2, HeadTail
  <2> HIDE DEF o, t, x, us, T, O
  <2>5. At(words, k, x) /\ At(words, q, us) /\ q \in Nat /\ q + Len(us) = k + Len(AllWords(opts))
    <3> DEFINE B == Seq(Bytes)
    <3>1. words \in Seq(B) /\ x \in Seq(B) /\ us \in Seq(B) /\ At(words, k, x \o us)
      BY <2>1, <2>3
    <3> HIDE DEF B
    <3>2. At(words, k, x) /\ At(words, k + Len(x), us)
      BY <3>1, AtPartsOf
    <3>3. Len(x \o us) = Len(x) + Len(us) /\ Len(x) \in Nat /\ Len(us) \in Nat
      BY <3>1, Joined
    <3> QED  BY <2>1, <3>2, <3>3
  <2>6. Holds(t, q)
    <3> HIDE DEF Holds, q
    <3> QED  BY <2>2, <2>5
  <2>7. OptionsFrom(words, valued, q) = [options |-> t, parameters |-> params]
    <3> HIDE DEF q
    <3> QED  BY <2>5, <2>6 DEF us
  <2>8. OptionBefore(words, valued, k, o, t, params)
    <3> HIDE DEF Holds
    <3> QED  BY <2>1, <2>5, <2>7 DEF OptionBefore, x, O
  <2> HIDE DEF Holds, q
  <2>9. OptionsFrom(words, valued, k) = [options |-> <<o>> \o t, parameters |-> params]
    BY <2>8, OptionJoins
  <2> QED  BY <2>4, <2>9
<1>3. Seq(O) \subseteq T
  <2>1. T \in SUBSET Seq(O)
    OBVIOUS
  <2> HIDE DEF T, O
  <2> QED  BY <1>1, <1>2, <2>1, SeqInduct
<1> QED  BY <1>3

-----------------------------------------------------------------------------
(* The token, and the end of the line.                                     *)

Clean == Bytes \ {"NL"}

(* Digits are bytes, and no dash is one.                                   *)
LEMMA DigitBytes == DOMAIN Digit \subseteq Clean /\ "-" \notin DOMAIN Digit /\ \A n \in 0..9 : Nibble(n) \in DOMAIN Digit
<1>1. DOMAIN Digit = {Nibble(n) : n \in 0..9}
  BY DEF Digit
<1>2. \A n \in 0..9 : Nibble(n) \in Bytes \ {"NL"}
  BY Nibbles
<1>3. \A i \in 1..16 : Hex[i] # "-"
  BY DEF Hex
<1>4. \A n \in 0..9 : n + 1 \in 1..16
  OBVIOUS
<1>5. \A n \in 0..9 : Nibble(n) # "-"
  BY <1>3, <1>4 DEF Nibble
<1> QED  BY <1>1, <1>2, <1>5 DEF Clean

(* A token is written in digits.                                           *)
LEMMA Decimal == \A n \in Nat : write_u64[n] \in Seq(DOMAIN Digit)
<1> DEFINE D == Nat
           S == DOMAIN Digit
           V == Seq(S)
           stop == {n \in D : n < 10}
           val == [n \in D |-> IF n < 10 THEN <<Nibble(n)>> ELSE <<>>]
           next == [n \in D |-> n \div 10]
           comb == [x \in D \X V |-> Append(x[2], Nibble(x[1] % 10))]
           mu == [n \in D |-> n]
           Turn(g, n) == IF n < 10 THEN <<Nibble(n)>> ELSE Append(g[n \div 10], Nibble(n % 10))
<1>1. \A n \in D : n % 10 \in 0..9 /\ n \div 10 \in Nat /\ (n >= 10 => n \div 10 < n)
  OBVIOUS
<1>2. \A n \in D : Nibble(n % 10) \in S /\ (n < 10 => Nibble(n) \in S)
  <2>1. \A n \in D : n < 10 => n \in 0..9
    OBVIOUS
  <2> QED  BY <1>1, <2>1, DigitBytes
<1>3. Descent(D, V, stop, val, next, comb, mu)
  <2>1. stop \in SUBSET D /\ next \in [D -> D] /\ mu \in [D -> Nat]
    BY <1>1
  <2>2. val \in [D -> V]
    <3> HIDE DEF S
    <3>1. \A n \in D : (IF n < 10 THEN <<Nibble(n)>> ELSE <<>>) \in Seq(S)
      BY <1>2
    <3> QED  BY <3>1
  <2>3. comb \in [D \X V -> V]
    <3> SUFFICES ASSUME NEW n \in D, NEW v \in V PROVE Append(v, Nibble(n % 10)) \in V
      OBVIOUS
    <3> HIDE DEF S
    <3> QED  BY <1>2
  <2>4. \A n \in D \ stop : mu[next[n]] < mu[n]
    BY <1>1
  <2> HIDE DEF D, V, stop, val, next, comb, mu
  <2> QED  BY <2>1, <2>2, <2>3, <2>4 DEF Descent
<1>4. PICK f \in [D -> V] : RunsAs(f, D, stop, val, next, comb)
  <2> HIDE DEF D, V, stop, val, next, comb, mu
  <2> QED  BY <1>3, Loops
<1>5. ASSUME NEW n \in D PROVE f[n] = Turn(f, n)
  <2>1. CASE n < 10
    <3>1. f[n] = val[n]
      BY <1>4, <2>1 DEF RunsAs
    <3> QED  BY <2>1, <3>1
  <2>2. CASE ~ (n < 10)
    <3>1. f[n] = comb[<<n, f[next[n]]>>]
      BY <1>4, <2>2 DEF RunsAs
    <3>2. next[n] = n \div 10 /\ n \div 10 \in D
      BY <1>1
    <3>3. f[n \div 10] \in V
      BY <3>2
    <3>4. f[n] = comb[<<n, f[n \div 10]>>]
      BY <3>1, <3>2
    <3> HIDE DEF V, next
    <3>5. comb[<<n, f[n \div 10]>>] = Append(f[n \div 10], Nibble(n % 10))
      BY <3>3
    <3> QED  BY <2>2, <3>4, <3>5
  <2> QED  BY <2>1, <2>2
<1> DEFINE h == CHOOSE g : g = [n \in Nat |-> Turn(g, n)]
<1>6. f = [n \in Nat |-> Turn(f, n)]
  BY <1>5
<1>7. h = [n \in Nat |-> Turn(h, n)]
  BY <1>6
<1>8. write_u64 = h
  BY DEF write_u64
<1>9. \A n \in D : (n \notin stop => h[next[n]] = f[next[n]]) => h[n] = f[n]
  <2> SUFFICES ASSUME NEW n \in D, n \notin stop => h[next[n]] = f[next[n]] PROVE h[n] = f[n]
    <3> HIDE DEF D, stop, next, h
    <3> QED  OBVIOUS
  <2>1. h[n] = Turn(h, n)
    <3> HIDE DEF h, Turn
    <3> QED  BY <1>7
  <2>2. n >= 10 => h[n \div 10] = f[n \div 10]
    <3> HIDE DEF h
    <3> QED  OBVIOUS
  <2>3. Turn(h, n) = Turn(f, n)
    <3> HIDE DEF h
    <3> QED  BY <2>2
  <2> HIDE DEF h, Turn
  <2> QED  BY <1>5, <2>1, <2>3
<1>10. \A n \in D : h[n] = f[n]
  <2> HIDE DEF D, V, stop, val, next, comb, mu, h
  <2> QED  BY <1>3, <1>9, LoopsOnce
<1> HIDE DEF h
<1> QED  BY <1>8, <1>10

(* What has no newline, with one at its end, is one line.                  *)
LEMMA FirstLineIs ==
  ASSUME NEW body \in Seq(Clean)
  PROVE  FirstLine(body \o <<"NL">>) = body /\ OneLine(body \o <<"NL">>)
<1> DEFINE text == body \o <<"NL">>
           n == Len(body)
<1>1. body \in Seq(Bytes) /\ "NL" \in Bytes
  BY Marks DEF Clean
<1>2. /\ text \in Seq(Bytes) /\ Len(text) = n + 1 /\ n \in Nat /\ text[n + 1] = "NL" /\ DOMAIN text = 1..(n + 1)
      /\ \A i \in 1..n : text[i] = body[i] /\ body[i] \in Clean
  BY <1>1
<1> HIDE DEF text
<1>3. OneLine(text)
  BY <1>2 DEF OneLine, Clean
<1> DEFINE S == NotIn(text, {"NL"})
<1>4. Run(text, 1, S) = n + 1
  <2>1. Peek(text, n + 1) \notin S
    BY <1>2, NoEnd DEF Peek
  <2>2. \A i \in 1..((n + 1) - 1) : Peek(text, i) \in S
    <3> SUFFICES ASSUME NEW i \in 1..((n + 1) - 1) PROVE Peek(text, i) \in S
      OBVIOUS
    <3>1. i \in 1..n /\ i \in 1..Len(text) /\ i <= Len(text)
      BY <1>2
    <3>2. text[i] # "NL"
      BY <1>2, <3>1 DEF Clean
    <3> QED  BY <1>2, <3>1, <3>2, NoEnd DEF Peek
  <2>3. n + 1 \in 1..(Len(text) + 1) /\ 1 \in 1..(Len(text) + 1)
    BY <1>2
  <2> HIDE DEF S, n
  <2> QED  BY <1>2, <2>1, <2>2, <2>3, RunIs
<1>5. SubSeq(text, 1, n) = body
  <2>1. At(text, 1, body)
    <3>1. 1 + n <= Len(text) + 1 /\ \A i \in 1..n : 1 + i - 1 = i
      BY <1>2
    <3> QED  BY <1>2, <3>1 DEF At
  <2>2. 1 + n - 1 = n
    BY <1>2
  <2> QED  BY <1>1, <1>2, <2>1, <2>2, SubSeqAt
<1>6. FirstLine(text) = SubSeq(text, 1, n)
  BY <1>2, <1>4 DEF FirstLine
<1> QED  BY <1>3, <1>5, <1>6 DEF text

-----------------------------------------------------------------------------
(* The parts of a line.                                                    *)

Headed(digits, op) == (digits \o <<"-">>) \o op

(* A line of a token, a dash, an operation, and what follows them.         *)
CommandLine(line, digits, op, rest) ==
  /\ digits \in Seq(DOMAIN Digit) /\ op \in Seq(Plain) /\ rest \in Seq(Clean)
  /\ rest = <<>> \/ rest[1] = "SP"
  /\ line = Headed(digits, op) \o rest

(* Words and digits have no newline in them.                               *)
LEMMA CleanBytes ==
  /\ \A s \in Seq(Clean) : s \in Seq(Bytes)
  /\ \A s \in Seq(Plain) : s \in Seq(Clean)
  /\ \A s \in Seq(DOMAIN Digit) : s \in Seq(Clean)
  /\ <<"-">> \in Seq(Clean) /\ <<"SP">> \in Seq(Clean)
<1>1. Clean \subseteq Bytes /\ Plain \subseteq Clean /\ "-" \in Clean /\ "SP" \in Clean
  BY Marks DEF Clean, Plain, Blank
<1>2. DOMAIN Digit \subseteq Clean
  BY DigitBytes
<1>3. \A S, T : S \subseteq T => \A s \in Seq(S) : s \in Seq(T)
  OBVIOUS
<1> QED  BY <1>1, <1>2, <1>3, Singles

(* Where the parts of a line lie.                                          *)
LEMMA LineParts ==
  ASSUME NEW line, NEW digits, NEW op, NEW rest, CommandLine(line, digits, op, rest)
  PROVE  LET n == Len(digits)
             e == n + 2 + Len(op)
         IN /\ line \in Seq(Clean) /\ line \in Seq(Bytes) /\ n \in Nat /\ Len(op) \in Nat
            /\ Len(Headed(digits, op)) + 1 = e
            /\ At(line, 1, digits) /\ At(line, n + 1, <<"-">>) /\ At(line, n + 2, op)
            /\ At(line, e, rest) /\ e + Len(rest) = Len(line) + 1 /\ e \in 1..(Len(line) + 1)
            /\ Bound(line, e)
<1> DEFINE n == Len(digits)
           e == n + 2 + Len(op)
           d == <<"-">>
           u == digits \o d
           v == u \o op
<1>0. /\ digits \in Seq(Clean) /\ op \in Seq(Clean) /\ rest \in Seq(Clean) /\ d \in Seq(Clean) /\ Len(d) = 1
      /\ line = v \o rest /\ (rest = <<>> \/ rest[1] = "SP")
  BY CleanBytes, Singles DEF CommandLine, Headed
<1> HIDE DEF d
<1>1. u \in Seq(Clean) /\ Len(u) = n + 1 /\ n \in Nat
  BY <1>0, Joined
<1> HIDE DEF u, n
<1>2. v \in Seq(Clean) /\ Len(v) = n + 1 + Len(op) /\ Len(op) \in Nat
  BY <1>0, <1>1, Joined
<1> HIDE DEF v
<1>3. line \in Seq(Clean) /\ Len(line) = n + 1 + Len(op) + Len(rest) /\ Len(rest) \in Nat
  BY <1>0, <1>2, Joined
<1>4. line \in Seq(Bytes) /\ v \in Seq(Bytes) /\ u \in Seq(Bytes)
  BY <1>1, <1>2, <1>3, CleanBytes
<1>5. At(line, 1, v) /\ At(line, 1 + Len(v), rest)
  <2>1. At(line, 1, v \o rest)
    BY <1>0, <1>4, AtWhole
  <2> QED  BY <1>0, <1>2, <1>3, <2>1, AtPartsOf
<1>6. At(line, 1, u) /\ At(line, 1 + Len(u), op)
  <2>1. At(line, 1, u \o op)
    BY <1>5 DEF v
  <2> QED  BY <1>0, <1>1, <1>3, <2>1, AtPartsOf
<1>7. At(line, 1, digits) /\ At(line, 1 + n, d)
  <2>1. At(line, 1, digits \o d)
    BY <1>6 DEF u
  <2> QED  BY <1>0, <1>3, <2>1, AtPartsOf DEF n
<1>8. 1 + Len(v) = e /\ 1 + Len(u) = n + 2 /\ 1 + n = n + 1 /\ e + Len(rest) = Len(line) + 1 /\ e \in 1..(Len(line) + 1)
  BY <1>1, <1>2, <1>3
<1>9. At(line, e, rest) /\ At(line, n + 2, op) /\ At(line, n + 1, d)
  <2> HIDE DEF e
  <2> QED  BY <1>5, <1>6, <1>7, <1>8
<1>10. Bound(line, e)
  <2>1. CASE rest = <<>>
    <3>1. Len(<<>>) = 0
      OBVIOUS
    <3>2. e = Len(line) + 1
      BY <1>1, <1>2, <1>8, <2>1, <3>1
    <3> QED  BY <3>2 DEF Bound
  <2>2. CASE rest # <<>> /\ rest[1] = "SP"
    <3>1. Len(rest) > 0
      BY <1>0, <2>2
    <3>2. line[e + 1 - 1] = "SP" /\ e + 1 - 1 = e /\ e <= Len(line)
      <4> HIDE DEF e
      <4>1. e \in Nat /\ 1 \in 1..Len(rest) /\ \A i \in 1..Len(rest) : line[e + i - 1] = rest[i]
        BY <1>3, <1>9, <3>1 DEF At
      <4>2. line[e + 1 - 1] = rest[1]
        BY <4>1
      <4> QED  BY <1>3, <1>8, <2>2, <3>1, <4>1, <4>2
    <3> HIDE DEF e
    <3> QED  BY <3>2 DEF Bound, Peek
  <2> QED  BY <1>0, <2>1, <2>2
<1>11. Headed(digits, op) = v
  BY DEF Headed, u, v, d
<1>12. Len(Headed(digits, op)) + 1 = e
  BY <1>1, <1>2, <1>11
<1> QED  BY <1>1, <1>2, <1>3, <1>4, <1>7, <1>8, <1>9, <1>10, <1>12 DEF n, d

(* A line is read as the operation after its dash, and what the words after that are parsed as.*)
LEMMA LineRead ==
  ASSUME NEW line, NEW digits, NEW op, NEW rest, CommandLine(line, digits, op, rest), NEW e, NEW ws, NEW valued,
         WordsFrom(line, Len(digits) + 2 + Len(op)) = Ok(e, ws)
  PROVE  /\ OneLine(line \o <<"NL">>)
         /\ GdbReads(line \o <<"NL">>, valued) =
              [operation |-> op, options |-> OptionsFrom(ws, valued, 1).options,
               parameters |-> OptionsFrom(ws, valued, 1).parameters]
<1> DEFINE n == Len(digits)
           dash == n + 1
           end == n + 2 + Len(op)
<1>1. /\ line \in Seq(Clean) /\ line \in Seq(Bytes) /\ n \in Nat /\ Len(op) \in Nat
      /\ At(line, 1, digits) /\ At(line, dash, <<"-">>) /\ At(line, n + 2, op)
      /\ end \in 1..(Len(line) + 1) /\ Bound(line, end)
  BY LineParts
<1>2. digits \in Seq(DOMAIN Digit) /\ op \in Seq(Plain) /\ op \in Seq(Bytes)
  BY CleanBytes DEF CommandLine
<1>3. Peek(line, dash) = "-" /\ line[dash] = "-" /\ dash <= Len(line) /\ dash \in 1..(Len(line) + 1)
  BY <1>1, AtOne, Marks
<1>4. /\ \A i \in 1..n : line[i] \in DOMAIN Digit
      /\ \A i \in 1..Len(op) : line[(n + 2) + i - 1] = op[i] /\ op[i] \in Plain
  <2>1. \A i \in 1..n : line[1 + i - 1] = digits[i] /\ 1 + i - 1 = i /\ digits[i] \in DOMAIN Digit
    BY <1>1, <1>2 DEF At
  <2>2. \A i \in 1..Len(op) : line[(n + 2) + i - 1] = op[i]
    BY <1>1 DEF At
  <2> HIDE DEF n
  <2> QED  BY <1>2, <2>1, <2>2
<1>5. Len(line) \in Nat
  BY <1>1
<1> HIDE DEF n
<1>6. Run(line, 1, DOMAIN Digit) = dash
  <2>1. \A i \in 1..(dash - 1) : Peek(line, i) \in DOMAIN Digit
    <3> SUFFICES ASSUME NEW i \in 1..(dash - 1) PROVE Peek(line, i) \in DOMAIN Digit
      OBVIOUS
    <3>1. i \in 1..n /\ i <= Len(line)
      BY <1>1, <1>3
    <3> QED  BY <1>4, <3>1 DEF Peek
  <2>2. Peek(line, dash) \notin DOMAIN Digit /\ 1 \in 1..(Len(line) + 1)
    BY <1>3, <1>5, DigitBytes
  <2> HIDE DEF dash
  <2> QED  BY <1>1, <1>3, <2>1, <2>2, RunIs
<1>7. EndOfWord(line, dash) = end
  <2> DEFINE S == NotIn(line, Blank)
  <2>1. \A i \in dash..(end - 1) : Peek(line, i) \in S
    <3> SUFFICES ASSUME NEW i \in dash..(end - 1) PROVE Peek(line, i) \in S
      OBVIOUS
    <3>1. i \in 1..Len(line) /\ i <= Len(line)
      BY <1>1, <1>5
    <3>2. line[i] \notin Blank
      <4>1. CASE i = dash
        BY <1>3, <4>1 DEF Blank
      <4>2. CASE i # dash
        <5>1. i - (n + 1) \in 1..Len(op) /\ (n + 2) + (i - (n + 1)) - 1 = i
          BY <1>1, <4>2
        <5>2. line[i] \in Plain
          BY <1>4, <5>1
        <5> QED  BY <5>2 DEF Plain
      <4> QED  BY <4>1, <4>2
    <3>3. line[i] \in S
      BY <1>1, <3>1, <3>2, NoEnd
    <3> QED  BY <3>1, <3>3 DEF Peek
  <2>2. Peek(line, end) \notin S
    <3>1. "SP" \notin S
      BY DEF NotIn, Blank
    <3>2. Peek(line, Len(line) + 1) = "end"
      BY <1>5 DEF Peek
    <3> QED  BY <1>1, <3>1, <3>2, NoEnd DEF Bound
  <2>3. end \in dash..(Len(line) + 1)
    BY <1>1, <1>5
  <2> HIDE DEF S, dash, end
  <2> QED  BY <1>1, <1>3, <2>1, <2>2, <2>3, RunIs DEF EndOfWord, S
<1>8. SubSeq(line, dash + 1, end - 1) = op
  <2>1. SubSeq(line, n + 2, (n + 2) + Len(op) - 1) = op
    BY <1>1, <1>2, SubSeqAt
  <2>2. dash + 1 = n + 2 /\ (n + 2) + Len(op) - 1 = end - 1
    BY <1>1
  <2> QED  BY <2>1, <2>2
<1> DEFINE text == line \o <<"NL">>
           read == OptionsFrom(ws, valued, 1)
<1>9. FirstLine(text) = line /\ OneLine(text)
  BY <1>1, FirstLineIs
<1>10. SplitWords(line, end) = ws
  <2>1. WordsFrom(line, end) = Ok(e, ws)
    BY DEF n
  <2> HIDE DEF end
  <2> QED  BY <2>1, OkFields DEF SplitWords, Readable
<1> HIDE DEF text, dash, end
<1>11. GdbReads(text, valued) = [operation |-> op, options |-> read.options, parameters |-> read.parameters]
  BY <1>3, <1>6, <1>7, <1>8, <1>9, <1>10 DEF GdbReads
<1> QED  BY <1>9, <1>11 DEF text

-----------------------------------------------------------------------------
(* What is written has no newline.                                         *)

SpacedOff(s) == s = <<>> \/ s[1] = "SP"

LEMMA SpacedOffs ==
  /\ \A S : \A a, b \in Seq(S) : SpacedOff(a) /\ SpacedOff(b) => SpacedOff(a \o b)
  /\ \A parts \in Seq(Seq(Bytes)) : SpacedOff(Spaced(parts))
<1>1. ASSUME NEW S, NEW a \in Seq(S), NEW b \in Seq(S), SpacedOff(a), SpacedOff(b) PROVE SpacedOff(a \o b)
  <2>1. CASE a = <<>>
    <3>1. a \o b = b
      BY <2>1
    <3> QED  BY <1>1, <3>1
  <2>2. CASE a # <<>> /\ a[1] = "SP"
    <3>1. (a \o b)[1] = a[1]
      BY <2>2
    <3> QED  BY <2>2, <3>1 DEF SpacedOff
  <2> QED  BY <1>1, <2>1, <2>2 DEF SpacedOff
<1>2. ASSUME NEW parts \in Seq(Seq(Bytes)) PROVE SpacedOff(Spaced(parts))
  <2>1. CASE parts = <<>>
    BY <2>1, SpacedEmpty DEF SpacedOff
  <2>2. CASE parts # <<>>
    <3> DEFINE y == <<"SP">> \o parts[1]
               z == Spaced(Tail(parts))
    <3>1. Spaced(parts) = y \o z /\ y \in Seq(Bytes) /\ z \in Seq(Bytes) /\ parts[1] \in Seq(Bytes)
      BY <2>2, SpacedTail, Marks
    <3>2. SpacedOff(y)
      <4> DEFINE x == parts[1]
      <4>1. x \in Seq(Bytes)
        BY <3>1
      <4> HIDE DEF x
      <4>2. (<<"SP">> \o x)[1] = "SP"
        BY <4>1
      <4> QED  BY <4>2 DEF SpacedOff, x
    <3>3. y # <<>> /\ y[1] = "SP"
      <4> DEFINE x == parts[1]
      <4>1. x \in Seq(Bytes)
        BY <3>1
      <4> HIDE DEF x
      <4>2. (<<"SP">> \o x)[1] = "SP" /\ <<"SP">> \o x # <<>>
        BY <4>1
      <4> QED  BY <4>2 DEF x
    <3> HIDE DEF y, z
    <3>4. (y \o z)[1] = y[1]
      BY <3>1, <3>3
    <3> QED  BY <3>1, <3>3, <3>4 DEF SpacedOff
  <2> QED  BY <2>1, <2>2
<1> QED  BY <1>1, <1>2

(* A c-string has no newline in it, whatever its text has.                 *)
LEMMA BodyClean == \A s \in Seq(Bytes) : Body(s) \in Seq(Clean)
<1> DEFINE T == {s \in Seq(Bytes) : Body(s) \in Seq(Clean)}
<1>1. <<>> \in T
  <2>1. <<>> \in Seq(Clean) /\ <<>> \in Seq(Bytes)
    OBVIOUS
  <2> QED  BY <2>1, BodyEmpty
<1>2. ASSUME NEW s \in Seq(Bytes), s # <<>>, Tail(s) \in T PROVE s \in T
  <2> DEFINE x == Escaped(s[1])
             y == Body(Tail(s))
  <2>1. Body(s) = x \o y /\ s[1] \in Bytes
    BY <1>2, BodyTail, HeadTail
  <2>2. y \in Seq(Clean)
    BY <1>2
  <2>3. x \in Seq(Clean)
    <3>1. x \in Seq(Bytes) /\ \A i \in 1..Len(x) : x[i] # "NL"
      BY <2>1, EscapedBytes
    <3> HIDE DEF x
    <3>2. \A i \in 1..Len(x) : x[i] \in Clean
      BY <3>1 DEF Clean
    <3> QED  BY <3>1, <3>2
  <2> HIDE DEF x, y
  <2>4. x \o y \in Seq(Clean)
    BY <2>2, <2>3, Joined
  <2> QED  BY <2>1, <2>4
<1>3. Seq(Bytes) \subseteq T
  <2>1. T \in SUBSET Seq(Bytes)
    OBVIOUS
  <2> HIDE DEF T
  <2> QED  BY <1>1, <1>2, <2>1, SeqInduct
<1> QED  BY <1>3

(* A written word has no newline in it.                                    *)
LEMMA WrittenClean ==
  ASSUME NEW x, NEW w, Written(x, w) PROVE x \in Seq(Clean)
<1>1. CASE x = w /\ w \in Seq(Plain)
  BY <1>1, CleanBytes
<1>2. CASE x = encode_cstring(w) /\ w \in Seq(Bytes)
  <2> DEFINE u == <<"QUOTE">>
             b == Body(w)
  <2>1. u \in Seq(Clean) /\ b \in Seq(Clean) /\ encode_cstring(w) = u \o (b \o u)
    <3>1. "QUOTE" \in Clean
      BY Marks DEF Clean
    <3> QED  BY <1>2, <3>1, Singles, BodyClean, CStringParts
  <2> HIDE DEF u, b
  <2>2. b \o u \in Seq(Clean)
    BY <2>1, Joined
  <2> DEFINE v == b \o u
  <2> HIDE DEF v
  <2>3. u \o v \in Seq(Clean)
    BY <2>1, <2>2, Joined DEF v
  <2> QED  BY <1>2, <2>1, <2>3 DEF v
<1> QED  BY <1>1, <1>2 DEF Written

LEMMA OptionClean ==
  ASSUME NEW valued, NEW o \in OptionSet(valued) PROVE encode_option(o) \in Seq(Clean)
<1> DEFINE d == Dashed(o.name)
<1>1. d \in Seq(Clean)
  BY OptionFields, DashedWritten, CleanBytes
<1>2. CASE o.value = NoValue
  BY <1>1, <1>2, OptionEncoded
<1>3. CASE o.value # NoValue
  <2> DEFINE x == encode_parameter(o.value)
             y == <<"SP">> \o x
  <2>1. o.value \in Texts /\ encode_option(o) = d \o y
    BY <1>3, OptionFields, OptionEncoded
  <2>2. x \in Seq(Clean)
    BY <2>1, ParameterWritten, WrittenClean
  <2> HIDE DEF x, d
  <2>3. y \in Seq(Clean)
    BY <2>2, CleanBytes, Joined
  <2> HIDE DEF y
  <2>4. d \o y \in Seq(Clean)
    BY <1>1, <2>3, Joined
  <2> QED  BY <2>1, <2>4
<1> QED  BY <1>2, <1>3

(* Options have no newline in them.                                        *)
LEMMA OptionsClean ==
  ASSUME NEW valued, NEW opts \in Seq(OptionSet(valued))
  PROVE  Encoded(opts) \in Seq(Seq(Clean)) /\ Encoded(opts) \in Seq(Seq(Bytes))
         /\ Spaced(Encoded(opts)) \in Seq(Clean) /\ SpacedOff(Spaced(Encoded(opts)))
<1> DEFINE O == OptionSet(valued)
           n == Len(opts)
           xx == Encoded(opts)
           B == Seq(Clean)
           C == Seq(Bytes)
<1>1. n \in Nat /\ DOMAIN opts = 1..n /\ \A i \in 1..n : opts[i] \in O
  <2> HIDE DEF O
  <2>1. opts \in Seq(O)
    BY DEF O
  <2> QED  BY <2>1
<1>2. \A i \in 1..n : encode_option(opts[i]) \in Seq(Clean) /\ encode_option(opts[i]) \in Seq(Bytes)
  BY <1>1, OptionClean, OptionEncoded
<1>3. xx \in [1..n -> B] /\ xx \in [1..n -> C]
  BY <1>1, <1>2 DEF Encoded
<1> HIDE DEF xx, B, C, n
<1>4. xx \in Seq(B) /\ xx \in Seq(C)
  BY <1>1, <1>3, FunctionIsSeq
<1>5. "SP" \in Clean
  BY Marks DEF Clean
<1>6. Spaced(xx) \in Seq(Clean)
  BY <1>4, <1>5, SpacedIn DEF B
<1>7. SpacedOff(Spaced(xx))
  BY <1>4, SpacedOffs DEF C
<1> QED  BY <1>4, <1>6, <1>7 DEF B, C, xx

-----------------------------------------------------------------------------
(* Words up to the end of the line.                                        *)

(* xs are ways to write the words ws.                                      *)
Pieces(xs, ws) ==
  /\ ws \in Seq(Seq(Bytes)) /\ xs = [i \in 1..Len(ws) |-> xs[i]]
  /\ \A i \in 1..Len(ws) : Written(xs[i], ws[i])

(* Words have no newline in them.                                          *)
LEMMA PiecesClean ==
  ASSUME NEW xs, NEW ws, Pieces(xs, ws)
  PROVE  xs \in Seq(Seq(Bytes)) /\ Len(xs) = Len(ws) /\ Spaced(xs) \in Seq(Clean) /\ SpacedOff(Spaced(xs))
<1> DEFINE n == Len(ws)
           B == Seq(Clean)
           C == Seq(Bytes)
<1>1. n \in Nat /\ xs = [i \in 1..n |-> xs[i]] /\ \A i \in 1..n : Written(xs[i], ws[i])
  BY DEF Pieces
<1>2. \A i \in 1..n : xs[i] \in B /\ xs[i] \in C
  BY <1>1, WrittenClean, WrittenBytes
<1> HIDE DEF B, C, n
<1>3. xs \in [1..n -> B] /\ xs \in [1..n -> C]
  BY <1>1, <1>2
<1>4. xs \in Seq(B) /\ xs \in Seq(C) /\ Len(xs) = n
  BY <1>1, <1>3, FunctionIsSeq
<1>5. "SP" \in Clean
  BY Marks DEF Clean
<1> QED  BY <1>4, <1>5, SpacedIn, SpacedOffs DEF B, C, n

(* Any number of written words that end the line is read as those words.   *)
LEMMA PiecesToEnd ==
  ASSUME NEW line \in Seq(Bytes), NEW p \in Nat, NEW xs, NEW ws, Pieces(xs, ws), At(line, p, Spaced(xs)),
         p + Len(Spaced(xs)) = Len(line) + 1
  PROVE  WordsFrom(line, p) = Ok(Len(line) + 1, ws)
<1> DEFINE e == Len(line) + 1
           x == Spaced(xs)
<1>1. e \in Nat /\ Bound(line, e)
  BY DEF Bound
<1>2. WordsFrom(line, e) = Ok(e, <<>>)
  BY NoWords
<1>3. /\ xs \in Seq(Seq(Bytes)) /\ Len(ws) = Len(xs) /\ ws \in Seq(Seq(Bytes))
      /\ \A i \in 1..Len(xs) : Written(xs[i], ws[i])
  BY PiecesClean DEF Pieces
<1>4. <<>> \in Seq(Seq(Bytes)) /\ ws \o <<>> = ws
  <2> DEFINE B == Seq(Bytes)
  <2>1. ws \in Seq(B)
    BY <1>3
  <2> HIDE DEF B
  <2>2. <<>> \in Seq(B) /\ ws \o <<>> = ws
    BY <2>1
  <2> QED  BY <2>2 DEF B
<1>5. p + Len(x) = e
  OBVIOUS
<1> DEFINE none == <<>>
<1> HIDE DEF e, none
<1>6. none \in Seq(Seq(Bytes)) /\ WordsFrom(line, e) = Ok(e, none)
  BY <1>2, <1>4 DEF none
<1>7. WordsFrom(line, p) = Ok(e, ws \o none)
  <2>1. ReadBefore(line, e, none)
    BY <1>1, <1>6, PiecesRead
  <2>2. /\ At(line, p, Spaced(xs)) /\ Bound(line, p + Len(Spaced(xs)))
        /\ WordsFrom(line, p + Len(Spaced(xs))) = Ok(e, none)
    BY <1>1, <1>5, <1>6
  <2> QED  BY <1>3, <2>1, <2>2 DEF ReadBefore
<1> QED  BY <1>4, <1>7 DEF e, none

LEMMA Rest ==
  \A S : \A a, b \in Seq(S) : SubSeq(a \o b, Len(a) + 1, Len(a \o b)) = b
<1> SUFFICES ASSUME NEW S, NEW a \in Seq(S), NEW b \in Seq(S) PROVE SubSeq(a \o b, Len(a) + 1, Len(a \o b)) = b
  OBVIOUS
<1> DEFINE c == a \o b
           s == SubSeq(c, Len(a) + 1, Len(c))
<1>1. /\ c \in Seq(S) /\ Len(c) = Len(a) + Len(b) /\ Len(a) \in Nat /\ Len(b) \in Nat
      /\ \A i \in 1..Len(b) : c[Len(a) + i] = b[i]
  OBVIOUS
<1> HIDE DEF c
<1>2. \A i \in (Len(a) + 1)..Len(c) : c[i] \in S
  BY <1>1
<1>3. s \in Seq(S) /\ Len(s) = Len(b) /\ \A i \in 1..Len(b) : s[i] = c[(Len(a) + 1) + i - 1]
  BY <1>1, <1>2
<1> HIDE DEF s
<1>4. \A i \in 1..Len(b) : (Len(a) + 1) + i - 1 = Len(a) + i
  BY <1>1
<1>5. \A i \in 1..Len(b) : s[i] = b[i]
  BY <1>1, <1>3, <1>4
<1>6. s = b
  BY <1>1, <1>3, <1>5
<1> QED  BY <1>6 DEF s, c

(* Where the options end.                                                  *)
LEMMA ParamsRead ==
  ASSUME NEW words \in Seq(Seq(Bytes)), NEW k \in 1..(Len(words) + 1), NEW valued
  PROVE  /\ k > Len(words) \/ ~ StartsWithDash(words[k]) => OptionsFrom(words, valued, k) = Params(words, k)
         /\ k <= Len(words) /\ words[k] = <<"-", "-">> => OptionsFrom(words, valued, k) = Params(words, k + 1)
<1>0. PICK f \in [1..(Len(words) + 1) -> Parsed] :
         \A i \in 1..(Len(words) + 1) :
            OptionsFrom(words, valued, i) = f[i] /\ f[i] = OptionsTurn(words, valued, i, f)
  BY OptionsTurns
<1>1. ASSUME k > Len(words) \/ ~ StartsWithDash(words[k]) PROVE OptionsFrom(words, valued, k) = Params(words, k)
  BY <1>0, <1>1 DEF OptionsTurn
<1>2. ASSUME k <= Len(words), words[k] = <<"-", "-">> PROVE OptionsFrom(words, valued, k) = Params(words, k + 1)
  <2>1. StartsWithDash(words[k])
    <3>1. <<"-", "-">> # <<>> /\ Head(<<"-", "-">>) = "-"
      OBVIOUS
    <3> QED  BY <1>2, <3>1 DEF StartsWithDash
  <2>2. ~ (k > Len(words))
    BY <1>2
  <2> QED  BY <1>0, <1>2, <2>1, <2>2 DEF OptionsTurn
<1> QED  BY <1>1, <1>2

-----------------------------------------------------------------------------
(* The line that encode_command writes.                                    *)

TokenText(token) == IF token = NoToken THEN <<>> ELSE write_u64[token]

EncodedParams(params) == [i \in DOMAIN params |-> encode_parameter(params[i])]

DoubleDash(cmd) == IF should_emit_double_dash(cmd) THEN <<"SP", "-", "-">> ELSE <<>>

(* What encode_command writes after the operation.                         *)
After(cmd) == Spaced(Encoded(cmd.options)) \o (DoubleDash(cmd) \o Spaced(EncodedParams(cmd.parameters)))

(* The fields of a well-formed command.                                    *)
LEMMA CommandFields ==
  ASSUME NEW valued, NEW cmd \in CommandSet(valued)
  PROVE  /\ cmd.operation \in Seq(Plain) /\ cmd.options \in Seq(OptionSet(valued)) /\ cmd.parameters \in Seq(Texts)
         /\ cmd = [operation |-> cmd.operation, options |-> cmd.options, parameters |-> cmd.parameters]
<1> DEFINE O == Seq(OptionSet(valued))
           P == Seq(Plain)
           Q == Seq(Texts)
<1>1. cmd \in [operation : P, options : O, parameters : Q]
  BY DEF CommandSet
<1> HIDE DEF O, P, Q
<1> QED  BY <1>1 DEF O, P, Q

LEMMA TextsBytes == \A params \in Seq(Texts) : params \in Seq(Seq(Bytes))
<1>1. Texts \subseteq Seq(Bytes)
  BY DEF Texts
<1> DEFINE B == Seq(Bytes)
<1> HIDE DEF B
<1>2. \A S : S \subseteq B => \A s \in Seq(S) : s \in Seq(B)
  OBVIOUS
<1>3. Texts \subseteq B
  BY <1>1 DEF B
<1>4. \A params \in Seq(Texts) : params \in Seq(B)
  BY <1>2, <1>3
<1> QED  BY <1>4 DEF B

(* The parameters of a command are written as words.                       *)
LEMMA ParamPieces ==
  ASSUME NEW params \in Seq(Texts)
  PROVE  Pieces(EncodedParams(params), params)
<1>1. DOMAIN params = 1..Len(params) /\ \A i \in 1..Len(params) : params[i] \in Texts
  OBVIOUS
<1>2. \A i \in 1..Len(params) : Written(EncodedParams(params)[i], params[i])
  BY <1>1, ParameterWritten DEF EncodedParams
<1>3. EncodedParams(params) = [i \in 1..Len(params) |-> EncodedParams(params)[i]]
  BY <1>1 DEF EncodedParams
<1> HIDE DEF EncodedParams
<1> QED  BY <1>2, <1>3, TextsBytes DEF Pieces

LEMMA Three == \A a, b, c : <<a>> \o <<b, c>> = <<a, b, c>>
<1> SUFFICES ASSUME NEW a, NEW b, NEW c PROVE <<a>> \o <<b, c>> = <<a, b, c>>
  OBVIOUS
<1> DEFINE S == {a, b, c}
           x == <<a>>
           y == <<b, c>>
           z == x \o y
<1>1. x \in Seq(S) /\ Len(x) = 1 /\ x[1] = a /\ y \in Seq(S) /\ Len(y) = 2 /\ y[1] = b /\ y[2] = c
  OBVIOUS
<1> HIDE DEF x, y, S
<1>2. z \in Seq(S) /\ Len(z) = 3 /\ z[1] = a /\ z[2] = b /\ z[3] = c
  <2>1. z \in Seq(S) /\ Len(z) = Len(x) + Len(y)
    BY <1>1, ConcatProperties
  <2>2. \A i \in 1..(Len(x) + Len(y)) : z[i] = IF i <= Len(x) THEN x[i] ELSE y[i - Len(x)]
    BY <1>1, ConcatProperties
  <2> HIDE DEF z
  <2>3. z[1] = x[1] /\ z[2] = y[1] /\ z[3] = y[2]
    <3>1. \A i \in 1..3 : z[i] = IF i <= 1 THEN x[i] ELSE y[i - 1]
      BY <1>1, <2>2
    <3> QED  BY <3>1
  <2> QED  BY <1>1, <2>1, <2>3
<1> HIDE DEF z
<1>3. z = <<a, b, c>>
  BY <1>2
<1> QED  BY <1>3 DEF z, x, y

(* The separator is a word.                                                *)
LEMMA DashesClean ==
  /\ <<"SP", "-", "-">> \in Seq(Clean) /\ Len(<<"SP", "-", "-">>) = 3
  /\ <<"SP">> \o <<"-", "-">> = <<"SP", "-", "-">> /\ Len(<<"-", "-">>) = 2 /\ <<"-", "-">> \in Seq(Bytes)
  /\ Written(<<"-", "-">>, <<"-", "-">>)
<1>1. "SP" \in Clean /\ "-" \in Clean /\ "-" \in Plain /\ "-" \in Bytes
  BY Marks DEF Clean, Plain, Blank
<1>2. <<"-", "-">> \in Seq(Plain) /\ <<"-", "-">> # <<>> /\ <<"-", "-">>[1] # "QUOTE" /\ <<"-", "-">> \in Seq(Bytes)
  BY <1>1
<1>3. Written(<<"-", "-">>, <<"-", "-">>)
  BY <1>2 DEF Written
<1>4. <<"SP", "-", "-">> \in Seq(Clean)
  BY <1>1
<1>5. <<"SP">> \o <<"-", "-">> = <<"SP", "-", "-">>
  BY Three
<1>6. Len(<<"SP", "-", "-">>) = 3 /\ Len(<<"-", "-">>) = 2
  OBVIOUS
<1> QED  BY <1>2, <1>3, <1>4, <1>5, <1>6

(* What follows the operation has no newline in it, and begins with a space.*)
LEMMA AfterParts ==
  ASSUME NEW valued, NEW cmd \in CommandSet(valued)
  PROVE  /\ Spaced(Encoded(cmd.options)) \in Seq(Clean) /\ DoubleDash(cmd) \in Seq(Clean)
         /\ Spaced(EncodedParams(cmd.parameters)) \in Seq(Clean)
         /\ DoubleDash(cmd) \o Spaced(EncodedParams(cmd.parameters)) \in Seq(Clean)
         /\ SpacedOff(DoubleDash(cmd) \o Spaced(EncodedParams(cmd.parameters)))
         /\ After(cmd) \in Seq(Clean) /\ SpacedOff(After(cmd))
<1> DEFINE a == Spaced(Encoded(cmd.options))
           b == DoubleDash(cmd)
           c == Spaced(EncodedParams(cmd.parameters))
           bc == b \o c
<1>1. a \in Seq(Clean) /\ SpacedOff(a)
  BY CommandFields, OptionsClean
<1>2. c \in Seq(Clean) /\ SpacedOff(c)
  BY CommandFields, ParamPieces, PiecesClean
<1>3. b \in Seq(Clean) /\ SpacedOff(b)
  <2>1. <<>> \in Seq(Clean) /\ SpacedOff(<<>>)
    BY DEF SpacedOff
  <2>2. <<"SP", "-", "-">> \in Seq(Clean) /\ SpacedOff(<<"SP", "-", "-">>)
    BY DashesClean DEF SpacedOff
  <2> QED  BY <2>1, <2>2 DEF DoubleDash
<1> HIDE DEF a, b, c
<1>4. bc \in Seq(Clean) /\ SpacedOff(bc)
  BY <1>2, <1>3, Joined, SpacedOffs
<1> HIDE DEF bc
<1>5. a \o bc \in Seq(Clean) /\ SpacedOff(a \o bc)
  BY <1>1, <1>4, Joined, SpacedOffs
<1> QED  BY <1>1, <1>2, <1>3, <1>4, <1>5 DEF After, a, b, c, bc

(* The line that encode_command writes.                                    *)
LEMMA EncodedIs ==
  ASSUME NEW valued, NEW cmd \in CommandSet(valued), NEW token \in Nat \cup {NoToken}
  PROVE  LET line == Headed(TokenText(token), cmd.operation) \o After(cmd)
         IN /\ CommandLine(line, TokenText(token), cmd.operation, After(cmd))
            /\ encode_command(token, cmd) = line \o <<"NL">>
<1> DEFINE h == Headed(TokenText(token), cmd.operation)
           a == Spaced(Encoded(cmd.options))
           b == DoubleDash(cmd)
           c == Spaced(EncodedParams(cmd.parameters))
           line == h \o After(cmd)
<1>1. TokenText(token) \in Seq(DOMAIN Digit)
  <2>1. <<>> \in Seq(DOMAIN Digit)
    OBVIOUS
  <2> QED  BY <2>1, Decimal DEF TokenText
<1>2. CommandLine(line, TokenText(token), cmd.operation, After(cmd))
  BY <1>1, CommandFields, AfterParts DEF CommandLine, SpacedOff
<1>3. encode_command(token, cmd) = (((h \o a) \o b) \o c) \o <<"NL">>
  BY DEF encode_command, Headed, Encoded, EncodedParams, DoubleDash, TokenText
<1>4. h \in Seq(Clean)
  <2> DEFINE d == TokenText(token)
             m == <<"-">>
             o == cmd.operation
  <2>1. d \in Seq(Clean) /\ m \in Seq(Clean) /\ o \in Seq(Clean)
    BY <1>1, CleanBytes, CommandFields
  <2> HIDE DEF d, m, o
  <2>2. (d \o m) \o o \in Seq(Clean)
    BY <2>1, Joined
  <2> QED  BY <2>2 DEF Headed, d, m, o
<1>5. a \in Seq(Clean) /\ b \in Seq(Clean) /\ c \in Seq(Clean) /\ b \o c \in Seq(Clean)
  BY AfterParts
<1>6. After(cmd) = a \o (b \o c)
  BY DEF After
<1> HIDE DEF h, a, b, c
<1>7. ((h \o a) \o b) \o c = h \o (a \o (b \o c))
  <2>1. h \o a \in Seq(Clean)
    BY <1>4, <1>5, Joined
  <2> DEFINE ha == h \o a
             bc == b \o c
  <2> HIDE DEF ha, bc
  <2>2. OneWay(ha, b, c)
    BY <1>5, <2>1, Assoc DEF ha
  <2>3. OneWay(h, a, bc)
    BY <1>4, <1>5, Assoc DEF bc
  <2> QED  BY <2>2, <2>3 DEF OneWay, ha, bc
<1>8. encode_command(token, cmd) = line \o <<"NL">>
  BY <1>3, <1>6, <1>7
<1> QED  BY <1>2, <1>8 DEF h

-----------------------------------------------------------------------------
(* The words of a command.                                                 *)

(* The words of a command after its operation.                             *)
Dashes(cmd) == IF should_emit_double_dash(cmd) THEN <<<<"-", "-">>>> ELSE <<>>

(* The words of a command: those of its options, the separator, its parameters.*)
LEMMA WordsAre ==
  ASSUME NEW valued, NEW cmd \in CommandSet(valued)
  PROVE  /\ AllWords(cmd.options) \in Seq(Seq(Bytes))
         /\ Dashes(cmd) \o cmd.parameters \in Seq(Seq(Bytes))
         /\ cmd.parameters \in Seq(Seq(Bytes))
<1> DEFINE B == Seq(Bytes)
<1>1. AllWords(cmd.options) \in Seq(B)
  <2> DEFINE O == OptionSet(valued)
             opts == cmd.options
  <2>1. opts \in Seq(O)
    BY CommandFields
  <2>2. CASE opts = <<>>
    <3>1. <<>> \in Seq(B)
      OBVIOUS
    <3> QED  BY <2>2, <3>1, NoOptions
  <2>3. CASE opts # <<>>
    <3> DEFINE x == OptionWords(opts[1])
               y == AllWords(Tail(opts))
    <3>1. opts[1] \in O /\ AllWords(opts) = x \o y /\ y \in Seq(B)
      BY <2>1, <2>3, OptionsTail
    <3>2. x \in Seq(B)
      BY <3>1, OptionWordsIn
    <3> HIDE DEF x, y, B
    <3>3. x \o y \in Seq(B)
      BY <3>1, <3>2, Joined
    <3> QED  BY <3>1, <3>3
  <2> QED  BY <2>2, <2>3
<1>2. cmd.parameters \in Seq(B)
  BY CommandFields, TextsBytes
<1>3. Dashes(cmd) \in Seq(B)
  <2>1. <<"-", "-">> \in B
    BY DashesClean
  <2> HIDE DEF B
  <2>2. \A w \in B : <<w>> \in Seq(B) /\ <<>> \in Seq(B)
    OBVIOUS
  <2> QED  BY <2>1, <2>2 DEF Dashes
<1> DEFINE a == Dashes(cmd)
           b == cmd.parameters
<1>4. a \o b \in Seq(B)
  <2> HIDE DEF a, b, B
  <2> QED  BY <1>2, <1>3, Joined DEF a, b
<1> QED  BY <1>1, <1>2, <1>4

(* Behind the options, with a separator or without one, are the parameters.*)
LEMMA ParamsParse ==
  ASSUME NEW valued, NEW cmd \in CommandSet(valued)
  PROVE  LET words == AllWords(cmd.options) \o (Dashes(cmd) \o cmd.parameters)
         IN /\ words \in Seq(Seq(Bytes)) /\ At(words, 1, AllWords(cmd.options))
            /\ OptionsFrom(words, valued, 1 + Len(AllWords(cmd.options)))
                 = [options |-> <<>>, parameters |-> cmd.parameters]
<1> DEFINE B == Seq(Bytes)
           a == AllWords(cmd.options)
           b == Dashes(cmd)
           c == cmd.parameters
           bc == b \o c
           words == a \o bc
           k == 1 + Len(a)
<1>1. a \in Seq(B) /\ bc \in Seq(B) /\ c \in Seq(B)
  BY WordsAre
<1>2. b = <<<<"-", "-">>>> \/ b = <<>>
  BY DEF Dashes
<1>3. b = <<>> => c = <<>> \/ ~ StartsWithDash(c[1])
  <2>1. b = <<>> => ~ should_emit_double_dash(cmd)
    BY DEF Dashes
  <2>2. c # <<>> => Head(c) = c[1]
    OBVIOUS
  <2> QED  BY <2>1, <2>2 DEF should_emit_double_dash
<1> HIDE DEF a, b, c, B, bc
<1>4. words \in Seq(B) /\ Len(words) = Len(a) + Len(bc) /\ Len(a) \in Nat /\ Len(bc) \in Nat
  BY <1>1, Joined
<1>5. At(words, 1, a) /\ At(words, k, bc)
  <2>1. At(words, 1, words)
    <3> HIDE DEF words
    <3>1. 1 + Len(words) <= Len(words) + 1 /\ \A i \in 1..Len(words) : 1 + i - 1 = i
      BY <1>4
    <3> QED  BY <3>1 DEF At
  <2>2. At(words, 1, a \o bc)
    BY <2>1
  <2> HIDE DEF words
  <2> QED  BY <1>1, <1>4, <2>2, AtPartsOf
<1>6. SubSeq(words, k, Len(words)) = bc
  <2>1. SubSeq(a \o bc, Len(a) + 1, Len(a \o bc)) = bc
    BY <1>1, Rest
  <2>2. Len(a) + 1 = k
    BY <1>4
  <2> QED  BY <2>1, <2>2
<1> HIDE DEF words
<1>7. k \in 1..(Len(words) + 1) /\ k + Len(bc) = Len(words) + 1 /\ words \in Seq(Seq(Bytes))
  BY <1>4 DEF B
<1>8. \A i \in 1..Len(bc) : words[k + i - 1] = bc[i]
  BY <1>5 DEF At
<1>9. CASE b = <<<<"-", "-">>>>
  <2> DEFINE w == <<"-", "-">>
  <2>1. w \in B
    BY DashesClean DEF B
  <2>2. b = <<w>>
    BY <1>9
  <2> HIDE DEF w
  <2>3. Len(bc) = 1 + Len(c) /\ bc[1] = w /\ Len(c) \in Nat /\ Tail(bc) = c
    BY <1>1, <2>1, <2>2 DEF bc
  <2>4. words[k + 1 - 1] = w /\ k + 1 - 1 = k /\ k <= Len(words)
    <3>1. 1 \in 1..Len(bc) /\ k + 1 - 1 = k /\ k <= Len(words)
      BY <1>4, <1>7, <2>3
    <3>2. words[k + 1 - 1] = bc[1]
      BY <1>8, <3>1
    <3> QED  BY <2>3, <3>1, <3>2
  <2>5. OptionsFrom(words, valued, k) = Params(words, k + 1)
    <3> HIDE DEF k
    <3>1. words[k] = w
      BY <2>4
    <3> QED  BY <1>7, <2>4, <3>1, ParamsRead DEF w
  <2>6. SubSeq(words, k + 1, Len(words)) = c
    <3> DEFINE aw == a \o <<w>>
    <3>1. aw \in Seq(B) /\ Len(aw) = Len(a) + 1
      <4>1. <<w>> \in Seq(B) /\ Len(<<w>>) = 1
        BY <2>1
      <4> QED  BY <1>1, <4>1, Joined
    <3>2. words = aw \o c
      <4> DEFINE u == <<w>>
      <4>1. u \in Seq(B)
        BY <2>1
      <4> HIDE DEF u
      <4>2. OneWay(a, u, c)
        BY <1>1, <4>1, Assoc
      <4> QED  BY <2>2, <4>2 DEF OneWay, u, words, bc
    <3> HIDE DEF aw
    <3>3. SubSeq(aw \o c, Len(aw) + 1, Len(aw \o c)) = c
      BY <1>1, <3>1, Rest
    <3>4. Len(aw) + 1 = k + 1
      BY <1>4, <3>1
    <3> QED  BY <3>2, <3>3, <3>4
  <2>7. OptionsFrom(words, valued, k) = [options |-> <<>>, parameters |-> c]
    BY <2>5, <2>6 DEF Params
  <2> QED  BY <1>5, <1>7, <2>7 DEF words, bc, a, b, c
<1>10. CASE b = <<>>
  <2>1. bc = c
    BY <1>1, <1>10 DEF bc
  <2>2. k > Len(words) \/ ~ StartsWithDash(words[k])
    <3>1. CASE c = <<>>
      <4>1. Len(bc) = 0
        BY <2>1, <3>1
      <4> QED  BY <1>4, <1>7, <4>1
    <3>2. CASE c # <<>>
      <4>1. 1 \in 1..Len(bc) /\ k + 1 - 1 = k
        BY <1>1, <1>4, <2>1, <3>2
      <4>2. words[k] = c[1]
        BY <1>8, <2>1, <4>1
      <4> QED  BY <1>3, <1>10, <3>2, <4>2
    <3> QED  BY <3>1, <3>2
  <2>3. OptionsFrom(words, valued, k) = Params(words, k)
    <3> HIDE DEF k
    <3> QED  BY <1>7, <2>2, ParamsRead
  <2>4. OptionsFrom(words, valued, k) = [options |-> <<>>, parameters |-> c]
    BY <1>6, <2>1, <2>3 DEF Params
  <2> QED  BY <1>5, <1>7, <2>4 DEF words, bc, a, b, c
<1> QED  BY <1>2, <1>9, <1>10

-----------------------------------------------------------------------------
(* Commands.                                                               *)

(* What begins with a space ends the word before it.                       *)
LEMMA OffBound ==
  ASSUME NEW line \in Seq(Bytes), NEW p, NEW s \in Seq(Bytes), At(line, p, s), SpacedOff(s), p + Len(s) = Len(line) + 1
  PROVE  Bound(line, p) /\ p \in Nat
<1>1. p \in Nat \ {0} /\ Len(s) \in Nat /\ \A i \in 1..Len(s) : line[p + i - 1] = s[i]
  BY DEF At
<1>2. CASE s = <<>>
  <2>1. Len(<<>>) = 0
    OBVIOUS
  <2>2. p = Len(line) + 1
    BY <1>1, <1>2, <2>1
  <2> QED  BY <1>1, <2>2 DEF Bound
<1>3. CASE s # <<>> /\ s[1] = "SP"
  <2>1. 1 \in 1..Len(s) /\ p + 1 - 1 = p /\ p <= Len(line)
    BY <1>1, <1>3
  <2>2. line[p] = "SP"
    BY <1>1, <1>3, <2>1
  <2> QED  BY <1>1, <2>1, <2>2 DEF Bound, Peek
<1> QED  BY <1>2, <1>3 DEF SpacedOff

(* What is written after the operation is read as the words of the command.*)
LEMMA AfterRead ==
  ASSUME NEW valued, NEW cmd \in CommandSet(valued), NEW line \in Seq(Bytes), NEW p, At(line, p, After(cmd)),
         p + Len(After(cmd)) = Len(line) + 1
  PROVE  WordsFrom(line, p) = Ok(Len(line) + 1, AllWords(cmd.options) \o (Dashes(cmd) \o cmd.parameters))
<1> DEFINE s1 == Spaced(Encoded(cmd.options))
           dd == DoubleDash(cmd)
           s2 == Spaced(EncodedParams(cmd.parameters))
           ds == dd \o s2
           e == Len(line) + 1
           q == p + Len(s1)
           r == q + Len(dd)
           ps == cmd.parameters
           ws == Dashes(cmd) \o ps
<1>1. /\ s1 \in Seq(Bytes) /\ dd \in Seq(Bytes) /\ s2 \in Seq(Bytes) /\ ds \in Seq(Bytes)
      /\ SpacedOff(s2) /\ SpacedOff(ds) /\ After(cmd) = s1 \o ds
  <2>1. SpacedOff(s2)
    BY CommandFields, ParamPieces, PiecesClean
  <2> QED  BY <2>1, AfterParts, CleanBytes DEF After
<1>2. ws \in Seq(Seq(Bytes)) /\ ps \in Seq(Seq(Bytes)) /\ Pieces(EncodedParams(ps), ps)
  BY WordsAre, CommandFields, ParamPieces
<1> HIDE DEF s1, dd, s2
<1>3. At(line, p, s1) /\ At(line, q, ds) /\ p \in Nat
  <2>1. At(line, p, s1 \o ds)
    BY <1>1
  <2> HIDE DEF ds
  <2>2. At(line, p, s1) /\ At(line, q, ds)
    BY <1>1, <2>1, AtParts
  <2> QED  BY <2>2 DEF At
<1>4. At(line, q, dd) /\ At(line, r, s2)
  <2> HIDE DEF q
  <2> QED  BY <1>1, <1>3, AtParts
<1>5. q + Len(ds) = e /\ r + Len(s2) = e /\ q \in Nat /\ r \in Nat /\ Len(dd) \in Nat /\ e \in Nat
  <2>1. Len(s1 \o ds) = Len(s1) + Len(ds) /\ Len(s1) \in Nat /\ Len(ds) \in Nat
    <3> HIDE DEF ds
    <3> QED  BY <1>1, Joined
  <2>2. Len(ds) = Len(dd) + Len(s2) /\ Len(dd) \in Nat /\ Len(s2) \in Nat
    BY <1>1, Joined
  <2> HIDE DEF ds
  <2> QED  BY <1>1, <1>3, <2>1, <2>2
<1> HIDE DEF ds, q, r, e
<1>6. Bound(line, r) /\ Bound(line, q)
  BY <1>1, <1>3, <1>4, <1>5, OffBound DEF e
<1>7. WordsFrom(line, r) = Ok(e, ps)
  <2> HIDE DEF ps
  <2> QED  BY <1>2, <1>4, <1>5, PiecesToEnd DEF s2, ps, e
<1>8. WordsFrom(line, q) = Ok(e, ws)
  <2>1. CASE should_emit_double_dash(cmd)
    <3> DEFINE w == <<"-", "-">>
    <3>1. dd = <<"SP">> \o w /\ Len(dd) = 3 /\ Written(w, w) /\ Len(w) = 2 /\ Dashes(cmd) = <<w>>
      BY <2>1, DashesClean DEF dd, DoubleDash, Dashes
    <3> HIDE DEF w
    <3>2. r = q + 1 + Len(w)
      BY <1>5, <3>1 DEF r
    <3>3. At(line, q, <<"SP">> \o w)
      BY <1>4, <3>1
    <3>4. WordsFrom(line, q) = Ok(e, <<w>> \o ps)
      <4> HIDE DEF ps
      <4>1. Bound(line, q + 1 + Len(w)) /\ WordsFrom(line, q + 1 + Len(w)) = Ok(e, ps)
        BY <1>6, <1>7, <3>2
      <4> QED  BY <3>1, <3>3, <4>1, WordRead
    <3> QED  BY <3>1, <3>4
  <2>2. CASE ~ should_emit_double_dash(cmd)
    <3>1. dd = <<>> /\ Dashes(cmd) = <<>>
      BY <2>2 DEF dd, DoubleDash, Dashes
    <3>2. Len(<<>>) = 0
      OBVIOUS
    <3>3. r = q
      BY <1>5, <3>1, <3>2 DEF r
    <3>4. <<>> \o ps = ps
      <4> HIDE DEF ps
      <4> DEFINE B == Seq(Bytes)
      <4>1. ps \in Seq(B)
        BY <1>2
      <4> HIDE DEF B
      <4> QED  BY <4>1
    <3> QED  BY <1>7, <3>1, <3>3, <3>4
  <2> QED  BY <2>1, <2>2
<1> DEFINE opts == cmd.options
<1>9. opts \in Seq(OptionSet(valued))
  BY CommandFields
<1> HIDE DEF ws
<1>10. /\ At(line, p, Spaced(Encoded(opts))) /\ Bound(line, p + Len(Spaced(Encoded(opts))))
       /\ WordsFrom(line, p + Len(Spaced(Encoded(opts)))) = Ok(e, ws)
  BY <1>3, <1>6, <1>8 DEF s1, q
<1>11. \A os \in Seq(OptionSet(valued)) : \A pp \in Nat :
            /\ At(line, pp, Spaced(Encoded(os))) /\ Bound(line, pp + Len(Spaced(Encoded(os))))
            /\ WordsFrom(line, pp + Len(Spaced(Encoded(os)))) = Ok(e, ws)
            => WordsFrom(line, pp) = Ok(e, AllWords(os) \o ws)
  BY <1>2, <1>5, OptionsRead
<1>12. WordsFrom(line, p) = Ok(e, AllWords(opts) \o ws)
  <2> HIDE DEF opts
  <2> QED  BY <1>3, <1>9, <1>10, <1>11
<1> QED  BY <1>12 DEF e, ws

(* Where what follows the operation lies.                                  *)
LEMMA LineRest ==
  ASSUME NEW line, NEW digits, NEW op, NEW rest, CommandLine(line, digits, op, rest)
  PROVE  /\ line \in Seq(Bytes) /\ At(line, Len(digits) + 2 + Len(op), rest)
         /\ Len(digits) + 2 + Len(op) + Len(rest) = Len(line) + 1
BY LineParts

(* GDB reads every well-formed command as that command.                    *)
THEOREM CommandsAreRead ==
  ASSUME NEW valued, NEW cmd \in CommandSet(valued), NEW token \in Nat \cup {NoToken}
  PROVE  OneLine(encode_command(token, cmd)) /\ GdbReads(encode_command(token, cmd), valued) = cmd
<1> DEFINE d == TokenText(token)
           op == cmd.operation
           line == Headed(d, op) \o After(cmd)
           ws == AllWords(cmd.options) \o (Dashes(cmd) \o cmd.parameters)
           p == Len(d) + 2 + Len(op)
<1>1. CommandLine(line, d, op, After(cmd)) /\ encode_command(token, cmd) = line \o <<"NL">>
  BY EncodedIs
<1> HIDE DEF line, d
<1>2. line \in Seq(Bytes) /\ At(line, p, After(cmd)) /\ p + Len(After(cmd)) = Len(line) + 1
  <2> HIDE DEF op
  <2> QED  BY <1>1, LineRest
<1>3. WordsFrom(line, p) = Ok(Len(line) + 1, ws)
  <2> HIDE DEF p
  <2> QED  BY <1>2, AfterRead
<1>4. OptionsFrom(ws, valued, 1) = [options |-> cmd.options, parameters |-> cmd.parameters]
  <2> DEFINE opts == cmd.options
             ps == cmd.parameters
  <2>1. /\ ws \in Seq(Seq(Bytes)) /\ At(ws, 1, AllWords(opts)) /\ opts \in Seq(OptionSet(valued))
        /\ OptionsFrom(ws, valued, 1 + Len(AllWords(opts))) = [options |-> <<>>, parameters |-> ps]
    BY ParamsParse, CommandFields
  <2> HIDE DEF ws, opts, ps
  <2>2. \A os \in Seq(OptionSet(valued)) : \A k \in Nat :
            /\ At(ws, k, AllWords(os))
            /\ OptionsFrom(ws, valued, k + Len(AllWords(os))) = [options |-> <<>>, parameters |-> ps]
            => OptionsFrom(ws, valued, k) = [options |-> os, parameters |-> ps]
    BY <2>1, OptionsParsed
  <2>3. OptionsFrom(ws, valued, 1) = [options |-> opts, parameters |-> ps]
    BY <2>1, <2>2
  <2> QED  BY <2>3 DEF opts, ps
<1> HIDE DEF ws
<1>5. /\ OneLine(line \o <<"NL">>)
      /\ GdbReads(line \o <<"NL">>, valued) =
              [operation |-> op, options |-> OptionsFrom(ws, valued, 1).options,
               parameters |-> OptionsFrom(ws, valued, 1).parameters]
  <2> HIDE DEF op
  <2> QED  BY <1>1, <1>3, LineRead
<1>6. cmd = [operation |-> op, options |-> cmd.options, parameters |-> cmd.parameters]
  BY CommandFields
<1>7. OptionsFrom(ws, valued, 1).options = cmd.options /\ OptionsFrom(ws, valued, 1).parameters = cmd.parameters
  BY <1>4
<1> QED  BY <1>1, <1>5, <1>6, <1>7

-----------------------------------------------------------------------------
(* What Scheme writes.                                                     *)

QuotedParams(params) == [i \in DOMAIN params |-> mi_quote_param(params[i])]

(* mi-quoted parameters are written as words.                              *)
LEMMA QuotedPieces ==
  ASSUME NEW params \in Seq(Texts), \A i \in DOMAIN params : Ascii(params[i])
  PROVE  Pieces(QuotedParams(params), params)
<1>1. DOMAIN params = 1..Len(params) /\ \A i \in 1..Len(params) : params[i] \in Texts /\ Ascii(params[i])
  OBVIOUS
<1>2. \A i \in 1..Len(params) : Written(QuotedParams(params)[i], params[i])
  BY <1>1, QuoteWritten DEF QuotedParams
<1>3. QuotedParams(params) = [i \in 1..Len(params) |-> QuotedParams(params)[i]]
  BY <1>1 DEF QuotedParams
<1> HIDE DEF QuotedParams
<1> QED  BY <1>2, <1>3, TextsBytes DEF Pieces

(* GDB reads every line that Scheme writes for an operation and ASCII      *)
(* parameters, of which the first has no leading dash, as that command.    *)
THEOREM SchemeIsRead ==
  ASSUME NEW valued, NEW cmd \in CommandSet(valued), cmd.options = <<>>,
         \A i \in DOMAIN cmd.parameters : Ascii(cmd.parameters[i]),
         cmd.parameters # <<>> => ~ StartsWithDash(Head(cmd.parameters))
  PROVE  OneLine(SchemeLine(cmd)) /\ GdbReads(SchemeLine(cmd), {}) = cmd
<1> DEFINE d == write_u64[Token]
           op == cmd.operation
           ps == cmd.parameters
           x == Spaced(QuotedParams(ps))
           line == Headed(d, op) \o x
           p == Len(d) + 2 + Len(op)
<1>0. ps \in Seq(Texts) /\ op \in Seq(Plain) /\ cmd = [operation |-> op, options |-> <<>>, parameters |-> ps]
  BY CommandFields
<1>1. Pieces(QuotedParams(ps), ps)
  BY <1>0, QuotedPieces
<1>2. x \in Seq(Clean) /\ SpacedOff(x) /\ ps \in Seq(Seq(Bytes))
  BY <1>1, PiecesClean DEF Pieces
<1>3. d \in Seq(DOMAIN Digit)
  BY Decimal DEF Token
<1>4. CommandLine(line, d, op, x) /\ SchemeLine(cmd) = line \o <<"NL">>
  BY <1>0, <1>2, <1>3 DEF CommandLine, SpacedOff, SchemeLine, Headed, QuotedParams
<1> HIDE DEF line, d, ps, op
<1>5. line \in Seq(Bytes) /\ At(line, p, x) /\ p + Len(x) = Len(line) + 1
  <2> HIDE DEF x
  <2> QED  BY <1>4, LineRest
<1>6. WordsFrom(line, p) = Ok(Len(line) + 1, ps)
  <2>1. p \in Nat
    BY <1>5 DEF At
  <2> HIDE DEF p
  <2> QED  BY <1>1, <1>5, <2>1, PiecesToEnd
<1>7. /\ OneLine(line \o <<"NL">>)
      /\ GdbReads(line \o <<"NL">>, {}) =
              [operation |-> op, options |-> OptionsFrom(ps, {}, 1).options,
               parameters |-> OptionsFrom(ps, {}, 1).parameters]
  <2> HIDE DEF x
  <2> QED  BY <1>4, <1>6, LineRead
<1>8. OptionsFrom(ps, {}, 1) = [options |-> <<>>, parameters |-> ps]
  <2> DEFINE B == Seq(Bytes)
  <2>0. ps \in Seq(B)
    BY <1>2
  <2> HIDE DEF B
  <2>1. Len(ps) \in Nat /\ 1 \in 1..(Len(ps) + 1) /\ SubSeq(ps, 1, Len(ps)) = ps
    BY <2>0
  <2>2. 1 > Len(ps) \/ ~ StartsWithDash(ps[1])
    <3>1. ps # <<>> => Head(ps) = ps[1]
      BY <2>0
    <3>2. Len(<<>>) = 0
      OBVIOUS
    <3> QED  BY <2>1, <3>1, <3>2 DEF ps
  <2>3. OptionsFrom(ps, {}, 1) = Params(ps, 1)
    BY <1>2, <2>1, <2>2, ParamsRead
  <2> QED  BY <2>1, <2>3 DEF Params
<1>9. OptionsFrom(ps, {}, 1).options = <<>> /\ OptionsFrom(ps, {}, 1).parameters = ps
  BY <1>8
<1> HIDE DEF x
<1>10. GdbReads(line \o <<"NL">>, {}) = cmd
  BY <1>0, <1>7, <1>9
<1> QED  BY <1>4, <1>7, <1>10

-----------------------------------------------------------------------------
(* The guard of raw commands.                                              *)

(* str::trim keeps what is before the last byte that is no blank.          *)
LEMMA TrimmedIs ==
  ASSUME NEW line \in Seq(Bytes), line # <<>>, line[1] \notin WhiteSpace
  PROVE  \E m \in 1..Len(line) : /\ Trimmed(line) = SubSeq(line, 1, m) /\ line[m] \notin WhiteSpace
                                 /\ \A i \in 1..Len(line) : line[i] \notin WhiteSpace => i <= m
<1> DEFINE kept == {i \in DOMAIN line : line[i] \notin WhiteSpace}
<1>1. Len(line) \in Nat /\ DOMAIN line = 1..Len(line) /\ 1 \in kept /\ kept \in SUBSET Nat /\ kept # {}
  <2>1. Len(line) \in Nat /\ Len(line) # 0 /\ DOMAIN line = 1..Len(line)
    OBVIOUS
  <2> QED  BY <2>1
<1>2. \A i \in kept : i <= Len(line) /\ i >= 1
  BY <1>1
<1> DEFINE m == Max(kept)
<1>3. m \in kept /\ \A i \in kept : i <= m
  <2>1. kept \in SUBSET (0..Len(line)) /\ Len(line) \in Nat
    BY <1>1, <1>2
  <2> HIDE DEF kept
  <2> QED  BY <1>1, <2>1, MaxOfNat
<1>4. Min(kept) = 1
  <2> HIDE DEF kept
  <2> DEFINE n == Min(kept)
  <2>1. n \in kept /\ n <= 1
    BY <1>1, MinOfNat
  <2>2. n \in Nat /\ n >= 1
    BY <1>1, <1>2, <2>1
  <2> HIDE DEF n
  <2>3. n = 1
    BY <2>1, <2>2
  <2> QED  BY <2>3 DEF n
<1>5. Trimmed(line) = SubSeq(line, 1, m)
  <2>1. Trimmed(line) = SubSeq(line, Min(kept), m)
    <3> DEFINE t == Trimmed(line)
    <3>1. t = IF kept = {} THEN <<>> ELSE SubSeq(line, Min(kept), m)
      BY DEF Trimmed
    <3> HIDE DEF kept, m, t
    <3>2. t = SubSeq(line, Min(kept), m)
      BY <1>1, <3>1
    <3> QED  BY <3>2 DEF t
  <2> HIDE DEF kept, m
  <2> QED  BY <1>4, <2>1
<1>6. m \in 1..Len(line) /\ line[m] \notin WhiteSpace
  <2> HIDE DEF m
  <2> QED  BY <1>3, <1>1
<1>7. \A i \in 1..Len(line) : line[i] \notin WhiteSpace => i <= m
  <2> HIDE DEF m
  <2> QED  BY <1>1, <1>3
<1> HIDE DEF m
<1> QED  BY <1>5, <1>6, <1>7

(* A letter is no blank, and no end of a line.                             *)
LEMMA LettersApart == /\ \A b \in Letters : b \notin WhiteSpace /\ b \notin AsciiSpace /\ b # "end"
                      /\ AsciiSpace \subseteq WhiteSpace /\ Blank \subseteq AsciiSpace
                      /\ "-" \notin WhiteSpace /\ "end" \notin WhiteSpace
<1>1. "-" \notin WhiteSpace /\ "end" \notin WhiteSpace /\ AsciiSpace \subseteq WhiteSpace /\ Blank \subseteq AsciiSpace
  BY DEF WhiteSpace, AsciiSpace, Blank
<1> QED  BY <1>1, TextAssumption

(* raw_mi_operation of a line of a dash, then up to k - 1 no blank.        *)
LEMMA GuardReads ==
  ASSUME NEW line \in Seq(Bytes), line # <<>>, line[1] = "-", NEW k \in 2..(Len(line) + 1),
         \A i \in 2..(k - 1) : line[i] \notin WhiteSpace, k <= Len(line) => line[k] \in AsciiSpace
  PROVE  raw_mi_operation(line) =
           IF Peek(line, 2) \in Letters THEN Ok(2, SubSeq(line, 2, k - 1)) ELSE Rejected
<1>1. PICK m \in 1..Len(line) : /\ Trimmed(line) = SubSeq(line, 1, m)
                                /\ \A i \in 1..Len(line) : line[i] \notin WhiteSpace => i <= m
  BY TrimmedIs, LettersApart
<1> DEFINE t == SubSeq(line, 1, m)
<1>2. Len(line) \in Nat /\ k \in Nat /\ \A i \in 1..m : line[i] \in Bytes
  OBVIOUS
<1>3. t \in Seq(Bytes) /\ Len(t) = m /\ \A i \in 1..m : t[i] = line[i]
  BY <1>2
<1>4. k <= m + 1
  <2>1. CASE k = 2
    BY <2>1
  <2>2. CASE k > 2
    <3>1. k - 1 \in 2..(k - 1) /\ k - 1 \in 1..Len(line)
      BY <1>2, <2>2
    <3>2. k - 1 <= m
      BY <1>1, <3>1
    <3> QED  BY <1>2, <3>2
  <2> QED  BY <2>1, <2>2
<1> HIDE DEF t
<1>5. StartsWithDash(t)
  <2>1. t # <<>> /\ Head(t) = t[1]
    <3>1. Len(<<>>) = 0
      OBVIOUS
    <3> QED  BY <1>3, <3>1
  <2> QED  BY <1>3, <2>1 DEF StartsWithDash
<1>6. Trimmed(line) = t
  BY <1>1 DEF t
<1> DEFINE o == SubSeq(t, 2, Run(t, 2, NotIn(t, AsciiSpace)) - 1)
<1>7. raw_mi_operation(line) = IF Peek(t, 2) \in Letters THEN Ok(2, o) ELSE Rejected
  BY <1>5, <1>6 DEF raw_mi_operation
<1>8. CASE Peek(line, 2) \in Letters
  <2>1. Peek(line, 2) # "end" /\ 2 <= Len(line) /\ line[2] \in Letters
    BY <1>8, LettersApart DEF Peek
  <2>2. 2 <= m /\ k > 2
    <3>1. 2 \in 1..Len(line) /\ line[2] \notin WhiteSpace
      BY <2>1, LettersApart
    <3>2. 2 <= m
      BY <1>1, <3>1
    <3>3. k # 2
      BY <2>1, LettersApart
    <3> QED  BY <3>2, <3>3
  <2>3. Peek(t, 2) \in Letters
    BY <1>3, <2>1, <2>2 DEF Peek
  <2> DEFINE S == NotIn(t, AsciiSpace)
  <2>4. "end" \notin S /\ \A i \in 1..m : t[i] \in S <=> t[i] \notin AsciiSpace
    BY <1>3, NoEnd
  <2>5. Peek(t, k) \notin S
    <3>1. CASE k = m + 1
      BY <1>3, <2>4, <3>1 DEF Peek
    <3>2. CASE k <= m
      <4>1. k <= Len(line) /\ k \in 1..m
        BY <1>2, <3>2
      <4> QED  BY <1>3, <2>4, <4>1 DEF Peek
    <3> QED  BY <1>2, <1>4, <3>1, <3>2
  <2>6. \A i \in 2..(k - 1) : Peek(t, i) \in S
    <3> SUFFICES ASSUME NEW i \in 2..(k - 1) PROVE Peek(t, i) \in S
      OBVIOUS
    <3>1. i \in 1..m /\ line[i] \notin WhiteSpace
      BY <1>2, <1>4
    <3>2. t[i] \notin AsciiSpace
      BY <1>3, <3>1, LettersApart
    <3> QED  BY <1>3, <2>4, <3>1, <3>2 DEF Peek
  <2>7. Run(t, 2, S) = k
    <3>1. 2 \in 1..(Len(t) + 1) /\ k \in 2..(Len(t) + 1)
      BY <1>2, <1>3, <1>4, <2>2
    <3> HIDE DEF S
    <3> QED  BY <1>3, <2>5, <2>6, <3>1, RunIs
  <2>8. SubSeq(t, 2, k - 1) = SubSeq(line, 2, k - 1)
    <3>1. \A i \in 2..(k - 1) : t[i] = line[i] /\ line[i] \in Bytes /\ i \in 1..m
      BY <1>2, <1>3, <1>4
    <3> DEFINE a == SubSeq(t, 2, k - 1)
               b == SubSeq(line, 2, k - 1)
    <3>2. a \in Seq(Bytes) /\ Len(a) = k - 2 /\ \A i \in 1..(k - 2) : a[i] = t[i + 1]
      BY <1>2, <2>2, <3>1
    <3>3. b \in Seq(Bytes) /\ Len(b) = k - 2 /\ \A i \in 1..(k - 2) : b[i] = line[i + 1]
      BY <1>2, <2>2, <3>1
    <3>4. \A i \in 1..(k - 2) : i + 1 \in 2..(k - 1)
      BY <1>2
    <3> HIDE DEF a, b
    <3>5. a = b
      BY <1>2, <3>1, <3>2, <3>3, <3>4
    <3> QED  BY <3>5 DEF a, b
  <2>9. o = SubSeq(line, 2, k - 1)
    BY <2>7, <2>8
  <2> HIDE DEF o
  <2> QED  BY <1>7, <1>8, <2>3, <2>9
<1>9. CASE Peek(line, 2) \notin Letters
  <2>1. Peek(t, 2) \notin Letters
    <3>1. CASE 2 <= m
      BY <1>2, <1>3, <1>9, <3>1 DEF Peek
    <3>2. CASE m = 1
      BY <1>3, <3>2, LettersApart DEF Peek
    <3> QED  BY <3>1, <3>2
  <2> HIDE DEF o
  <2> QED  BY <1>7, <1>9, <2>1
<1> QED  BY <1>8, <1>9

-----------------------------------------------------------------------------
(* The operation, as framewalk and as GDB read it.                         *)

(* framewalk takes the line it remembers of a command for that command.    *)
LEMMA CommandGuarded ==
  ASSUME NEW valued, NEW cmd \in CommandSet(valued), cmd.operation # <<>>, cmd.operation[1] \in Letters,
         \A i \in 1..Len(cmd.operation) : cmd.operation[i] \notin WhiteSpace
  PROVE  raw_mi_operation(encode_mi_command(cmd)) = Ok(2, cmd.operation)
<1> DEFINE d == TokenText(NoToken)
           op == cmd.operation
           rest == After(cmd)
           line == Headed(d, op) \o rest
           k == 0 + 2 + Len(op)
<1>1. CommandLine(line, d, op, rest) /\ encode_command(NoToken, cmd) = line \o <<"NL">>
  BY EncodedIs
<1>2. d = <<>> /\ Len(d) = 0
  BY DEF TokenText
<1>3. op # <<>> /\ op[1] \in Letters /\ \A i \in 1..Len(op) : op[i] \notin WhiteSpace
  OBVIOUS
<1>4. op \in Seq(Bytes)
  BY CommandFields, CleanBytes
<1> HIDE DEF line, d, op, rest
<1>5. /\ line \in Seq(Bytes) /\ At(line, 0 + 1, <<"-">>) /\ At(line, 0 + 2, op)
      /\ k \in 1..(Len(line) + 1) /\ Bound(line, k)
  <2>1. /\ line \in Seq(Bytes) /\ At(line, Len(d) + 1, <<"-">>) /\ At(line, Len(d) + 2, op)
        /\ (Len(d) + 2 + Len(op)) \in 1..(Len(line) + 1) /\ Bound(line, Len(d) + 2 + Len(op))
    BY <1>1, LineParts
  <2> QED  BY <1>2, <2>1
<1>6. Len(op) \in Nat /\ Len(op) # 0 /\ op[1] # "end" /\ Len(line) \in Nat
  <2>1. op[1] # "end"
    BY <1>3, LettersApart
  <2> QED  BY <1>3, <1>4, <1>5, <2>1
<1>7. line[1] = "-" /\ line # <<>> /\ 0 + 1 = 1 /\ 0 + 2 = 2
  <2>1. At(line, 1, <<"-">>)
    BY <1>5
  <2>2. line[1] = "-" /\ 1 <= Len(line)
    BY <1>5, <2>1, AtOne, Marks
  <2>3. Len(<<>>) = 0
    OBVIOUS
  <2> QED  BY <2>2, <2>3
<1>8. At(line, 2, op) /\ k = 2 + Len(op) /\ k \in 2..(Len(line) + 1) /\ k - 1 = 2 + Len(op) - 1 /\ k > 2
  BY <1>5, <1>6
<1>9. \A i \in 1..Len(op) : line[2 + i - 1] = op[i]
  BY <1>8 DEF At
<1>10. \A i \in 2..(k - 1) : line[i] \notin WhiteSpace
  <2> SUFFICES ASSUME NEW i \in 2..(k - 1) PROVE line[i] \notin WhiteSpace
    OBVIOUS
  <2>1. i - 1 \in 1..Len(op) /\ 2 + (i - 1) - 1 = i
    BY <1>6, <1>8
  <2>2. line[i] = op[i - 1]
    BY <1>9, <2>1
  <2> QED  BY <1>3, <2>1, <2>2
<1>11. k <= Len(line) => line[k] \in AsciiSpace
  BY <1>5, <1>6, <1>8 DEF Bound, Peek, AsciiSpace, Blank
<1>12. Peek(line, 2) \in Letters
  <2>1. 1 \in 1..Len(op) /\ 2 + 1 - 1 = 2 /\ 2 <= Len(line)
    BY <1>6, <1>8
  <2>2. line[2] = op[1]
    BY <1>9, <2>1
  <2> QED  BY <1>3, <2>1, <2>2 DEF Peek
<1>13. SubSeq(line, 2, k - 1) = op
  <2>1. SubSeq(line, 2, 2 + Len(op) - 1) = op
    BY <1>4, <1>5, <1>8, SubSeqAt
  <2> QED  BY <1>8, <2>1
<1> HIDE DEF k
<1>14. raw_mi_operation(line) = IF Peek(line, 2) \in Letters THEN Ok(2, SubSeq(line, 2, k - 1)) ELSE Rejected
  BY <1>5, <1>7, <1>8, <1>10, <1>11, GuardReads
<1>15. encode_mi_command(cmd) = line
  <2> DEFINE text == line \o <<"NL">>
  <2>1. text \in Seq(Bytes) /\ Len(text) = Len(line) + 1 /\ \A i \in 1..Len(line) : text[i] = line[i]
    <3>1. "NL" \in Bytes
      BY Marks
    <3> QED  BY <1>5, <3>1
  <2>2. encode_mi_command(cmd) = SubSeq(text, 1, Len(text) - 1)
    BY <1>1 DEF encode_mi_command, Front
  <2> HIDE DEF text
  <2>3. At(text, 1, line)
    <3>1. 1 + Len(line) <= Len(text) + 1 /\ \A i \in 1..Len(line) : 1 + i - 1 = i
      BY <1>6, <2>1
    <3> QED  BY <2>1, <3>1 DEF At
  <2>4. SubSeq(text, 1, 1 + Len(line) - 1) = line
    BY <1>5, <2>1, <2>3, SubSeqAt
  <2>5. 1 + Len(line) - 1 = Len(text) - 1
    BY <1>6, <2>1
  <2> QED  BY <2>2, <2>4, <2>5
<1> QED  BY <1>12, <1>13, <1>14, <1>15 DEF op

(* The operation that GDB reads of a line of a token and a raw line.       *)
LEMMA OperationRead ==
  ASSUME NEW raw \in Seq(Clean), raw # <<>>, raw[1] = "-", NEW digits \in Seq(DOMAIN Digit), NEW valued,
         NEW k \in 2..(Len(raw) + 1),
         \A i \in 2..(k - 1) : raw[i] \notin Blank, k <= Len(raw) => raw[k] \in Blank
  PROVE  GdbReads((digits \o raw) \o <<"NL">>, valued).operation = SubSeq(raw, 2, k - 1)
<1> DEFINE line == digits \o raw
           n == Len(digits)
           m == Len(raw)
           dash == n + 1
           end == n + k
           text == line \o <<"NL">>
<1>1. digits \in Seq(Clean) /\ raw \in Seq(Bytes)
  BY CleanBytes
<1>2. /\ line \in Seq(Clean) /\ Len(line) = n + m /\ n \in Nat /\ m \in Nat
      /\ \A i \in 1..n : line[i] = digits[i] /\ digits[i] \in DOMAIN Digit
      /\ \A i \in 1..m : line[n + i] = raw[i] /\ raw[i] \in Clean
  BY <1>1
<1>3. line \in Seq(Bytes)
  BY <1>2, CleanBytes
<1>4. FirstLine(text) = line
  BY <1>2, FirstLineIs
<1>5. m >= 1
  <2>1. m # 0
    OBVIOUS
  <2> QED  BY <1>2, <2>1
<1> HIDE DEF line, n, m
<1>6. line[dash] = "-" /\ dash \in 1..(Len(line) + 1) /\ dash <= Len(line) /\ Peek(line, dash) = "-"
  <2>1. 1 \in 1..m
    BY <1>2, <1>5
  <2>2. line[dash] = raw[1]
    BY <1>2, <2>1
  <2>3. dash \in 1..(Len(line) + 1) /\ dash <= Len(line)
    BY <1>2, <1>5
  <2> QED  BY <2>2, <2>3 DEF Peek
<1>7. Run(line, 1, DOMAIN Digit) = dash
  <2>1. \A i \in 1..(dash - 1) : Peek(line, i) \in DOMAIN Digit
    <3> SUFFICES ASSUME NEW i \in 1..(dash - 1) PROVE Peek(line, i) \in DOMAIN Digit
      OBVIOUS
    <3>1. i \in 1..n /\ i <= Len(line)
      BY <1>2
    <3> QED  BY <1>2, <3>1 DEF Peek
  <2>2. Peek(line, dash) \notin DOMAIN Digit /\ 1 \in 1..(Len(line) + 1)
    BY <1>2, <1>6, DigitBytes
  <2> HIDE DEF dash
  <2> QED  BY <1>3, <1>6, <2>1, <2>2, RunIs
<1>8. k \in Nat /\ k >= 2 /\ k <= m + 1
  BY <1>2 DEF m
<1>9. EndOfWord(line, dash) = end
  <2> DEFINE S == NotIn(line, Blank)
  <2>1. \A i \in dash..(end - 1) : Peek(line, i) \in S
    <3> SUFFICES ASSUME NEW i \in dash..(end - 1) PROVE Peek(line, i) \in S
      OBVIOUS
    <3>1. i \in 1..Len(line) /\ i <= Len(line)
      BY <1>2, <1>8
    <3>2. line[i] \notin Blank
      <4>1. CASE i = dash
        BY <1>6, <4>1 DEF Blank
      <4>2. CASE i # dash
        <5>1. i - n \in 2..(k - 1) /\ i - n \in 1..m /\ n + (i - n) = i
          BY <1>2, <1>8, <4>2
        <5> QED  BY <1>2, <5>1
      <4> QED  BY <4>1, <4>2
    <3>3. line[i] \in S
      BY <1>3, <3>1, <3>2, NoEnd
    <3> QED  BY <3>1, <3>3 DEF Peek
  <2>2. Peek(line, end) \notin S
    <3>1. CASE k = m + 1
      <4>1. ~ (end <= Len(line))
        BY <1>2, <3>1
      <4> QED  BY <1>3, <4>1, NoEnd DEF Peek
    <3>2. CASE k <= m
      <4>1. end <= Len(line) /\ end \in 1..Len(line) /\ k \in 1..m
        BY <1>2, <1>8, <3>2
      <4>2. line[end] \in Blank
        BY <1>2, <3>2, <4>1 DEF m
      <4>3. line[end] \notin S
        BY <1>3, <4>1, <4>2, NoEnd
      <4> QED  BY <4>1, <4>3 DEF Peek
    <3> QED  BY <1>2, <1>8, <3>1, <3>2
  <2>3. end \in dash..(Len(line) + 1)
    BY <1>2, <1>8
  <2> HIDE DEF S, dash, end
  <2> QED  BY <1>3, <1>6, <2>1, <2>2, <2>3, RunIs DEF EndOfWord, S
<1>10. SubSeq(line, dash + 1, end - 1) = SubSeq(raw, 2, k - 1)
  <2> DEFINE a == SubSeq(line, dash + 1, end - 1)
             b == SubSeq(raw, 2, k - 1)
  <2>1. \A i \in (dash + 1)..(end - 1) : line[i] \in Bytes
    BY <1>2, <1>3, <1>8
  <2>2. \A i \in 2..(k - 1) : raw[i] \in Bytes
    BY <1>1, <1>8 DEF m
  <2>3. a \in Seq(Bytes) /\ Len(a) = k - 2 /\ \A i \in 1..(k - 2) : a[i] = line[(dash + 1) + i - 1]
    BY <1>2, <1>8, <2>1
  <2>4. b \in Seq(Bytes) /\ Len(b) = k - 2 /\ \A i \in 1..(k - 2) : b[i] = raw[2 + i - 1]
    BY <1>8, <2>2
  <2> HIDE DEF a, b
  <2>5. ASSUME NEW i \in 1..(k - 2) PROVE a[i] = b[i]
    <3>1. (dash + 1) + i - 1 = n + (2 + i - 1) /\ 2 + i - 1 \in 1..m
      BY <1>2, <1>8
    <3>2. line[n + (2 + i - 1)] = raw[2 + i - 1]
      BY <1>2, <3>1
    <3> QED  BY <2>3, <2>4, <3>1, <3>2
  <2>6. a = b
    BY <1>8, <2>3, <2>4, <2>5
  <2> QED  BY <2>6 DEF a, b
<1> DEFINE read == OptionsFrom(SplitWords(line, end), valued, 1)
           o == SubSeq(line, dash + 1, end - 1)
           g == GdbReads(text, valued)
<1> HIDE DEF text, dash, end
<1>11. g = [operation |-> o, options |-> read.options, parameters |-> read.parameters]
  BY <1>4, <1>6, <1>7, <1>9 DEF GdbReads
<1>12. g.operation = o
  <2> HIDE DEF g, o, read
  <2> QED  BY <1>11
<1> QED  BY <1>10, <1>12 DEF text, line

-----------------------------------------------------------------------------
(* The steps of CommandText.                                               *)

(* The items that the steps of CommandText make.                           *)
RawLines == {raw \in Seq(Keys \cup {"-"}) : raw # <<>> /\ raw[1] = "-"}

OptionsMade ==
  [name : {<<"f">>}, value : {NoValue}] \cup [name : {Valued}, value : Strings]

CommandsMade == [operation : {Operation}, options : Seq(OptionsMade), parameters : Seq(Strings)]

ItemOK ==
  \/ item = Idle
  \/ item.kind = "raw" /\ item = [kind |-> "raw", line |-> item.line] /\ item.line \in RawLines
  \/ /\ item.kind = "command" /\ item = [kind |-> "command", command |-> item.command]
     /\ item.command \in CommandsMade

LEMMA Appends == \A S : \A s \in Seq(S), b \in S : Append(s, b) \in Seq(S)
OBVIOUS

LEMMA RawExtended ==
  ASSUME NEW raw \in RawLines, NEW b \in Keys PROVE Append(raw, b) \in RawLines
<1> DEFINE S == Keys \cup {"-"}
<1>1. raw \in Seq(S) /\ raw # <<>> /\ raw[1] = "-" /\ b \in S
  BY DEF RawLines
<1> HIDE DEF S
<1>2. Append(raw, b) \in Seq(S) /\ Append(raw, b)[1] = raw[1] /\ Append(raw, b) # <<>>
  BY <1>1
<1> QED  BY <1>1, <1>2 DEF RawLines, S

(* The builders keep a command well formed.                                *)
LEMMA CommandExtended ==
  ASSUME NEW cmd \in CommandsMade
  PROVE  /\ option(cmd, <<"f">>) \in CommandsMade
         /\ \A s \in Strings : option_with(cmd, Valued, s) \in CommandsMade /\ parameter(cmd, s) \in CommandsMade
<1> DEFINE O == Seq(OptionsMade)
           Q == Seq(Strings)
           P == {Operation}
<1>1. cmd.operation \in P /\ cmd.options \in O /\ cmd.parameters \in Q
      /\ cmd = [operation |-> cmd.operation, options |-> cmd.options, parameters |-> cmd.parameters]
  <2>1. cmd \in [operation : P, options : O, parameters : Q]
    BY DEF CommandsMade
  <2> HIDE DEF O, P, Q
  <2> QED  BY <2>1
<1>2. ASSUME NEW o \in OptionsMade
      PROVE  [cmd EXCEPT !.options = Append(@, o)] \in CommandsMade
  <2>1. Append(cmd.options, o) \in O
    BY <1>1, Appends
  <2> DEFINE x == Append(cmd.options, o)
  <2> HIDE DEF O, P, Q, x
  <2>2. [cmd EXCEPT !.options = x] \in [operation : P, options : O, parameters : Q]
    BY <1>1, <2>1 DEF x
  <2> QED  BY <2>2 DEF x, O, P, Q, CommandsMade
<1>3. ASSUME NEW s \in Strings
      PROVE  [cmd EXCEPT !.parameters = Append(@, s)] \in CommandsMade
  <2>1. Append(cmd.parameters, s) \in Q
    BY <1>1, Appends
  <2> DEFINE x == Append(cmd.parameters, s)
  <2> HIDE DEF O, P, Q, x
  <2>2. [cmd EXCEPT !.parameters = x] \in [operation : P, options : O, parameters : Q]
    BY <1>1, <2>1 DEF x
  <2> QED  BY <2>2 DEF x, O, P, Q, CommandsMade
<1>4. [name |-> <<"f">>, value |-> NoValue] \in OptionsMade
  BY DEF OptionsMade
<1>5. \A s \in Strings : [name |-> Valued, value |-> s] \in OptionsMade
  BY DEF OptionsMade
<1>6. option(cmd, <<"f">>) \in CommandsMade
  BY <1>2, <1>4 DEF option, option_with
<1>7. \A s \in Strings : option_with(cmd, Valued, s) \in CommandsMade
  BY <1>2, <1>5 DEF option_with
<1>8. \A s \in Strings : parameter(cmd, s) \in CommandsMade
  BY <1>3 DEF parameter
<1> QED  BY <1>6, <1>7, <1>8

LEMMA NewMade == new(Operation) \in CommandsMade
<1> DEFINE O == Seq(OptionsMade)
           Q == Seq(Strings)
<1>1. <<>> \in O /\ <<>> \in Q
  OBVIOUS
<1> HIDE DEF O, Q
<1>2. new(Operation) \in [operation : {Operation}, options : O, parameters : Q]
  BY <1>1 DEF new
<1> QED  BY <1>2 DEF CommandsMade, O, Q

(* What the steps make: raw lines that begin with a dash, and commands of  *)
(* an operation, options and strings.                                      *)
THEOREM ItemsMade == Spec => []ItemOK
<1>1. Init => ItemOK
  BY DEF Init, ItemOK
<1>2. ItemOK /\ [Next]_item => ItemOK'
  <2> SUFFICES ASSUME ItemOK, [Next]_item PROVE ItemOK'
    OBVIOUS
  <2>1. CASE Build
    <3> DEFINE c == new(Operation)
    <3>1. item' = [kind |-> "command", command |-> c] /\ c \in CommandsMade
      BY <2>1, NewMade DEF Build
    <3> HIDE DEF c
    <3>2. item'.kind = "command" /\ item'.command = c
      BY <3>1
    <3> QED  BY <3>1, <3>2 DEF ItemOK
  <2>2. ASSUME item.kind = "command", NEW c \in CommandsMade, item' = [item EXCEPT !.command = c] PROVE ItemOK'
    <3>1. item = [kind |-> "command", command |-> item.command]
      BY <2>2 DEF ItemOK, Idle
    <3>2. item' = [kind |-> "command", command |-> c]
      BY <2>2, <3>1
    <3>3. item'.kind = "command" /\ item'.command = c
      BY <3>2
    <3> QED  BY <3>2, <3>3 DEF ItemOK
  <2>3. item.kind = "command" => item.command \in CommandsMade
    BY DEF ItemOK, Idle
  <2>4. CASE AddOption
    BY <2>2, <2>3, <2>4, CommandExtended DEF AddOption, Building
  <2>5. CASE AddOptionWith
    BY <2>2, <2>3, <2>5, CommandExtended DEF AddOptionWith, Building
  <2>6. CASE AddParameter
    BY <2>2, <2>3, <2>6, CommandExtended DEF AddParameter, Building
  <2>7. ASSUME NEW raw \in RawLines, item' = [kind |-> "raw", line |-> raw] PROVE ItemOK'
    <3>1. item'.kind = "raw" /\ item'.line = raw
      BY <2>7
    <3> QED  BY <2>7, <3>1 DEF ItemOK
  <2>8. CASE Type
    <3>1. CASE item = Idle /\ item' = [kind |-> "raw", line |-> <<"-">>]
      <4> DEFINE raw == <<"-">>
      <4>1. raw \in RawLines
        BY DEF RawLines
      <4> HIDE DEF raw
      <4> QED  BY <2>7, <3>1, <4>1 DEF raw
    <3>2. CASE item.kind = "raw" /\ \E b \in Keys : item' = [item EXCEPT !.line = Append(@, b)]
      <4>1. PICK b \in Keys : item' = [item EXCEPT !.line = Append(@, b)]
        BY <3>2
      <4>2. item = [kind |-> "raw", line |-> item.line] /\ item.line \in RawLines
        BY <3>2 DEF ItemOK, Idle
      <4> DEFINE raw == Append(item.line, b)
      <4>3. raw \in RawLines
        BY <4>2, RawExtended
      <4>4. item' = [item EXCEPT !.line = raw]
        BY <4>1
      <4> HIDE DEF raw
      <4>5. item' = [kind |-> "raw", line |-> raw]
        BY <4>2, <4>4
      <4> QED  BY <2>7, <4>3, <4>5
    <3> QED  BY <2>8, <3>1, <3>2 DEF Type
  <2>9. CASE UNCHANGED item
    BY <2>9 DEF ItemOK
  <2> QED  BY <2>1, <2>4, <2>5, <2>6, <2>8, <2>9 DEF Next
<1> QED  BY <1>1, <1>2, PTL DEF Spec

-----------------------------------------------------------------------------
(* Commands, for every step.                                               *)

(* The texts of the model are texts, and none of them is NoValue.          *)
LEMMA StringsAreTexts == Strings \subseteq Texts \ {NoValue}
<1> SUFFICES ASSUME NEW s \in Strings PROVE s \in Texts /\ s # NoValue
  OBVIOUS
<1>1. PICK n \in 0..MaxText : s \in [1..n -> Alphabet]
  BY DEF Strings
<1>2. n \in Nat
  BY TextAssumption
<1>3. s \in Seq(Alphabet) /\ Len(s) = n /\ DOMAIN s = 1..n
  BY <1>1, <1>2
<1>4. Alphabet \subseteq Bytes
  BY Marks
<1>5. s \in Seq(Bytes)
  BY <1>1, <1>2, <1>3, <1>4
<1>6. Utf8(s)
  BY DEF Strings
<1>7. s # NoValue
  <2>1. NoValue[1] = "NoValue" /\ Len(NoValue) = 1
    BY DEF NoValue
  <2>2. "NoValue" \notin Alphabet
    BY TextAssumption
  <2>3. s = NoValue => 1 \in 1..n /\ s[1] = "NoValue"
    BY <1>2, <1>3, <2>1
  <2>4. 1 \in 1..n => s[1] \in Alphabet
    BY <1>1
  <2> QED  BY <2>2, <2>3, <2>4
<1> QED  BY <1>5, <1>6, <1>7 DEF Texts

LEMMA NamesPlain ==
  /\ Operation \in Seq(Plain) /\ <<"f">> \in Seq(Plain) /\ Valued \in Seq(Plain)
  /\ <<"f">> \notin {Valued, <<"-">>} /\ Valued # <<"-">>
<1>1. "operation" \in Plain
  BY Marks DEF Plain, Blank
<1>2. "f" \in DOMAIN Unnamed /\ "v" \in DOMAIN Unnamed
  BY Names
<1>3. "f" \in Plain /\ "v" \in Plain
  BY <1>2, Marks DEF Plain, Blank
<1>4. \A b \in Plain : <<b>> \in Seq(Plain)
  OBVIOUS
<1>5. <<"f">> # <<"v">> /\ <<"f">> # <<"-">> /\ <<"v">> # <<"-">>
  <2>1. \A a, b : a # b => <<a>> # <<b>>
    OBVIOUS
  <2> QED  BY <2>1
<1> QED  BY <1>1, <1>3, <1>4, <1>5 DEF Operation, Valued

(* The commands that the steps make are well-formed ones.                  *)
LEMMA WellFormed == CommandsMade \subseteq CommandSet({Valued})
<1>1. OptionsMade \subseteq OptionSet({Valued})
  <2> SUFFICES ASSUME NEW o \in OptionsMade PROVE o \in OptionSet({Valued})
    OBVIOUS
  <2> DEFINE N == Seq(Plain)
             T == Texts \ {NoValue}
  <2>0. <<"f">> \in N \ ({Valued} \cup {<<"-">>}) /\ Valued \in {Valued} \cap (N \ {<<"-">>})
    BY NamesPlain
  <2>1. CASE o \in [name : {<<"f">>}, value : {NoValue}]
    <3> DEFINE A == N \ ({Valued} \cup {<<"-">>})
               f == <<"f">>
    <3>1. f \in A
      BY <2>0
    <3> HIDE DEF A, f
    <3>2. o \in [name : A, value : {NoValue}]
      <4>1. o \in [name : {f}, value : {NoValue}]
        BY <2>1 DEF f
      <4> QED  BY <3>1, <4>1
    <3> QED  BY <3>2 DEF OptionSet, A
  <2>2. CASE o \in [name : {Valued}, value : Strings]
    <3> DEFINE A == {Valued} \cap (N \ {<<"-">>})
    <3>1. Valued \in A
      BY <2>0
    <3> HIDE DEF A, T
    <3>2. Strings \subseteq T
      BY StringsAreTexts DEF T
    <3>3. o \in [name : A, value : T]
      BY <2>2, <3>1, <3>2
    <3> QED  BY <3>3 DEF OptionSet, A, T
  <2> QED  BY <2>1, <2>2 DEF OptionsMade
<1>2. Strings \subseteq Texts
  BY StringsAreTexts
<1>3. \A S, T : S \subseteq T => Seq(S) \subseteq Seq(T)
  OBVIOUS
<1>4. Seq(OptionsMade) \subseteq Seq(OptionSet({Valued})) /\ Seq(Strings) \subseteq Seq(Texts)
  BY <1>1, <1>2, <1>3
<1> DEFINE O == Seq(OptionsMade)
           Q == Seq(Strings)
           OO == Seq(OptionSet({Valued}))
           QQ == Seq(Texts)
           PP == Seq(Plain)
<1>5. O \subseteq OO /\ Q \subseteq QQ /\ Operation \in PP
  BY <1>4, NamesPlain
<1> HIDE DEF O, Q, OO, QQ, PP
<1>6. [operation : {Operation}, options : O, parameters : Q] \subseteq [operation : PP, options : OO, parameters : QQ]
  BY <1>5
<1> QED  BY <1>6 DEF CommandsMade, CommandSet, O, Q, OO, QQ, PP

(* Each of them arrives.                                                   *)
LEMMA MadeArrive ==
  ASSUME NEW cmd \in CommandsMade
  PROVE  /\ OneLine(Sent(cmd))
         /\ GdbReads(Sent(cmd), {Valued}) = cmd
         /\ cmd.options = <<>> /\ (\A i \in DOMAIN cmd.parameters : Ascii(cmd.parameters[i]))
              /\ (cmd.parameters # <<>> => ~StartsWithDash(Head(cmd.parameters)))
              => OneLine(SchemeLine(cmd)) /\ GdbReads(SchemeLine(cmd), {}) = cmd
         /\ raw_mi_operation(encode_mi_command(cmd)) = Ok(2, cmd.operation)
<1>1. cmd \in CommandSet({Valued})
  BY WellFormed
<1>2. Token \in Nat \cup {NoToken}
  BY DEF Token
<1>3. OneLine(Sent(cmd)) /\ GdbReads(Sent(cmd), {Valued}) = cmd
  <2> DEFINE vs == {Valued}
             t == Token
  <2>1. cmd \in CommandSet(vs) /\ t \in Nat \cup {NoToken}
    BY <1>1, <1>2
  <2> HIDE DEF vs, t
  <2>2. OneLine(encode_command(t, cmd)) /\ GdbReads(encode_command(t, cmd), vs) = cmd
    BY <2>1, CommandsAreRead
  <2> QED  BY <2>2 DEF vs, t, Sent
<1>4. ASSUME cmd.options = <<>>, \A i \in DOMAIN cmd.parameters : Ascii(cmd.parameters[i]),
             cmd.parameters # <<>> => ~StartsWithDash(Head(cmd.parameters))
      PROVE  OneLine(SchemeLine(cmd)) /\ GdbReads(SchemeLine(cmd), {}) = cmd
  <2> DEFINE vs == {Valued}
  <2>1. cmd \in CommandSet(vs)
    BY <1>1
  <2> HIDE DEF vs
  <2> QED  BY <1>4, <2>1, SchemeIsRead
<1>5. raw_mi_operation(encode_mi_command(cmd)) = Ok(2, cmd.operation)
  <2> DEFINE vs == {Valued}
  <2>1. cmd \in CommandSet(vs)
    BY <1>1
  <2>2. cmd.operation = <<"operation">>
    <3>1. cmd.operation = Operation
      <4> DEFINE O == Seq(OptionsMade)
                 Q == Seq(Strings)
      <4>1. cmd \in [operation : {Operation}, options : O, parameters : Q]
        BY DEF CommandsMade
      <4> HIDE DEF O, Q
      <4> QED  BY <4>1
    <3> QED  BY <3>1 DEF Operation
  <2> DEFINE op == cmd.operation
  <2>3. op # <<>> /\ op[1] = "operation" /\ Len(op) = 1
    BY <2>2
  <2>4. "operation" \in Letters /\ "operation" \notin WhiteSpace
    BY TextAssumption, LettersApart
  <2>5. \A i \in 1..Len(op) : op[i] \notin WhiteSpace
    <3> HIDE DEF op
    <3>1. \A i \in 1..Len(op) : i = 1
      BY <2>3
    <3> QED  BY <2>3, <2>4, <3>1
  <2> HIDE DEF vs
  <2> QED  BY <2>1, <2>3, <2>4, <2>5, CommandGuarded
<1> QED  BY <1>3, <1>4, <1>5

(* Every command that the builders make arrives: GDB reads it as that      *)
(* command, on one line (encode_command); from Scheme too, if its          *)
(* parameters are ASCII and the first has no leading dash; and framewalk   *)
(* takes the line it remembers for that command.                           *)
THEOREM CommandsArriveAlways == Spec => []CommandsArrive
<1>1. ItemOK => CommandsArrive
  <2> SUFFICES ASSUME ItemOK, item.kind = "command" PROVE CommandsArrive
    BY DEF CommandsArrive
  <2>1. item.command \in CommandsMade
    BY DEF ItemOK, Idle
  <2> QED  BY <2>1, MadeArrive DEF CommandsArrive
<1> QED  BY <1>1, ItemsMade, PTL

-----------------------------------------------------------------------------
(* Raw lines, for every step.                                              *)

(* A raw line has no newline in it, and of the blanks only those of GDB.   *)
LEMMA RawBytes ==
  ASSUME NEW raw \in RawLines
  PROVE  /\ raw \in Seq(Clean) /\ raw \in Seq(Bytes) /\ raw # <<>> /\ raw[1] = "-"
         /\ \A i \in 1..Len(raw) : raw[i] \in WhiteSpace => raw[i] \in Blank
<1> DEFINE S == Keys \cup {"-"}
<1>1. raw \in Seq(S) /\ raw # <<>> /\ raw[1] = "-"
  BY DEF RawLines
<1>2. S \subseteq Clean
  BY Marks, TextAssumption DEF Clean
<1>3. S \cap {"FF", "VT"} = {}
  BY TextAssumption
<1> HIDE DEF S
<1>4. raw \in Seq(Clean)
  BY <1>1, <1>2
<1>5. \A i \in 1..Len(raw) : raw[i] \in S
  BY <1>1
<1>6. \A i \in 1..Len(raw) : raw[i] \in WhiteSpace => raw[i] \in Blank
  BY <1>3, <1>5 DEF WhiteSpace, AsciiSpace
<1> QED  BY <1>1, <1>4, <1>6, CleanBytes

(* The guard and GDB agree on each raw line.                               *)
LEMMA RawAgrees ==
  ASSUME NEW raw \in RawLines
  PROVE  validate_raw_mi_command(raw, FALSE)
           <=> Listed(GdbReads(write_u64[Token] \o raw \o <<"NL">>, {}).operation)
<1> DEFINE d == write_u64[Token]
           S == NotIn(raw, Blank)
           k == Run(raw, 2, S)
           o == SubSeq(raw, 2, k - 1)
<1>1. /\ raw \in Seq(Clean) /\ raw \in Seq(Bytes) /\ raw # <<>> /\ raw[1] = "-" /\ Len(raw) \in Nat /\ Len(raw) # 0
      /\ \A i \in 1..Len(raw) : raw[i] \in WhiteSpace => raw[i] \in Blank
  BY RawBytes
<1>2. "end" \notin S /\ \A i \in 1..Len(raw) : raw[i] \in S <=> raw[i] \notin Blank
  BY <1>1, NoEnd
<1>3. k \in 2..(Len(raw) + 1) /\ Peek(raw, k) \notin S /\ \A i \in 2..(k - 1) : Peek(raw, i) \in S
  <2>1. 2 \in 1..(Len(raw) + 1)
    BY <1>1
  <2> HIDE DEF S
  <2> QED  BY <1>1, <1>2, <2>1, RunStops
<1> HIDE DEF k
<1>4. k <= Len(raw) => raw[k] \in Blank
  <2> SUFFICES ASSUME k <= Len(raw) PROVE raw[k] \in Blank
    OBVIOUS
  <2>1. k \in 1..Len(raw) /\ raw[k] \notin S
    BY <1>1, <1>3 DEF Peek
  <2> QED  BY <1>2, <2>1
<1>5. \A i \in 2..(k - 1) : raw[i] \notin Blank /\ i \in 1..Len(raw)
  <2> SUFFICES ASSUME NEW i \in 2..(k - 1) PROVE raw[i] \notin Blank /\ i \in 1..Len(raw)
    OBVIOUS
  <2>1. i \in 1..Len(raw)
    BY <1>1, <1>3
  <2>2. raw[i] \in S
    BY <1>3, <2>1 DEF Peek
  <2> QED  BY <1>2, <2>1, <2>2
<1> HIDE DEF S
<1>6. \A i \in 2..(k - 1) : raw[i] \notin WhiteSpace
  BY <1>1, <1>5
<1>7. raw_mi_operation(raw) = IF Peek(raw, 2) \in Letters THEN Ok(2, o) ELSE Rejected
  <2>1. k <= Len(raw) => raw[k] \in AsciiSpace
    BY <1>4 DEF AsciiSpace
  <2> QED  BY <1>1, <1>3, <1>6, <2>1, GuardReads
<1>8. GdbReads((d \o raw) \o <<"NL">>, {}).operation = o
  <2>1. d \in Seq(DOMAIN Digit)
    BY Decimal DEF Token
  <2> HIDE DEF d
  <2> QED  BY <1>1, <1>3, <1>4, <1>5, <2>1, OperationRead
<1>9. o # <<>> => 2 <= Len(raw) /\ Head(o) = raw[2] /\ k > 2
  <2>1. \A i \in 2..(k - 1) : raw[i] \in Bytes
    BY <1>1, <1>5
  <2>2. o \in Seq(Bytes) /\ Len(o) = k - 2 /\ \A i \in 1..(k - 2) : o[i] = raw[2 + i - 1]
    BY <1>3, <2>1
  <2> HIDE DEF o
  <2>3. o # <<>> => Len(o) # 0 /\ Head(o) = o[1]
    BY <2>2
  <2>4. o # <<>> => k > 2 /\ 1 \in 1..(k - 2) /\ 2 + 1 - 1 = 2 /\ 2 <= Len(raw)
    BY <1>1, <1>3, <2>2, <2>3
  <2> QED  BY <2>2, <2>3, <2>4
<1>10. Peek(raw, 2) \in Letters => o # <<>>
  <2> SUFFICES ASSUME Peek(raw, 2) \in Letters PROVE o # <<>>
    OBVIOUS
  <2>1. 2 <= Len(raw) /\ raw[2] \in Letters /\ raw[2] \notin Blank
    BY LettersApart DEF Peek
  <2>2. k # 2
    BY <1>4, <2>1
  <2>3. \A i \in 2..(k - 1) : raw[i] \in Bytes
    BY <1>1, <1>5
  <2>4. Len(o) = k - 2 /\ k - 2 > 0
    BY <1>3, <2>2, <2>3
  <2>5. Len(<<>>) = 0
    OBVIOUS
  <2> HIDE DEF o
  <2> QED  BY <1>3, <2>4, <2>5
<1> HIDE DEF o
<1>11. o # <<>> => (Head(o) \in Letters <=> Peek(raw, 2) \in Letters)
  BY <1>9 DEF Peek
<1>12. validate_raw_mi_command(raw, FALSE) <=>
         /\ Peek(raw, 2) \in Letters
         /\ \E entry \in ALLOWED_COMMANDS : matches(entry, Spelling(o))
  <2>1. CASE Peek(raw, 2) \in Letters
    <3>1. raw_mi_operation(raw).ok = TRUE /\ raw_mi_operation(raw).value = o
      BY <1>7, <2>1 DEF Ok
    <3> QED  BY <2>1, <3>1 DEF validate_raw_mi_command
  <2>2. CASE Peek(raw, 2) \notin Letters
    <3>1. raw_mi_operation(raw).ok = FALSE
      BY <1>7, <2>2 DEF Rejected
    <3> QED  BY <2>2, <3>1 DEF validate_raw_mi_command
  <2> QED  BY <2>1, <2>2
<1> DEFINE g == GdbReads((d \o raw) \o <<"NL">>, {})
<1>13. g.operation = o
  BY <1>8
<1> HIDE DEF g
<1>14. validate_raw_mi_command(raw, FALSE) <=>
         /\ g.operation # <<>> /\ Head(g.operation) \in Letters
         /\ \E entry \in ALLOWED_COMMANDS : matches(entry, Spelling(g.operation))
  BY <1>10, <1>11, <1>12, <1>13
<1> QED  BY <1>14 DEF Listed, g, d

(* The guard takes a raw line for the operation that GDB reads of it, and  *)
(* allows it only if that one is an entry of the allowlist.                *)
THEOREM GuardAgreesAlways == Spec => []GuardAgrees
<1>1. ItemOK => GuardAgrees
  <2> SUFFICES ASSUME ItemOK, item.kind = "raw" PROVE GuardAgrees
    BY DEF GuardAgrees
  <2>1. item.line \in RawLines
    BY DEF ItemOK, Idle
  <2> QED  BY <2>1, RawAgrees DEF GuardAgrees
<1> QED  BY <1>1, ItemsMade, PTL
=============================================================================
