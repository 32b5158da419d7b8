-------------------------------- MODULE Lemmas --------------------------------
(***************************************************************************)
(* Lemmas about naturals, finite sets and sequences that the proofs of     *)
(* several modules need.                                                   *)
(***************************************************************************)
EXTENDS FiniteSetsExt, SequencesExt, SequenceTheorems, FiniteSetTheorems, WellFoundedInduction, TLAPS

(* Min returns the least element of a set of naturals: of the intervals    *)
(* from 0 to an element, one is included in all the others.                *)
LEMMA MinOfNat ==
  ASSUME NEW S \in SUBSET Nat, S # {}
  PROVE  Min(S) \in S /\ \A x \in S : Min(S) <= x
<1> DEFINE T == {0..k : k \in S}
<1>1. \A k \in S : 0..k \in FiniteSubsetsOf(Nat)
  <2> SUFFICES ASSUME NEW k \in S PROVE 0..k \in FiniteSubsetsOf(Nat)
    OBVIOUS
  <2>1. IsFiniteSet(0..k)
    BY FS_Interval
  <2> QED  BY <2>1 DEF FiniteSubsetsOf
<1>2. PICK t \in T : \A u \in T : ~ (<<u, t>> \in StrictSubsetOrdering(Nat))
  <2>1. T \subseteq FiniteSubsetsOf(Nat) /\ T # {}
    BY <1>1
  <2> HIDE DEF T
  <2> QED  BY <2>1, FS_StrictSubsetOrderingWellFounded, WFMin
<1>3. PICK m \in S : t = 0..m
  OBVIOUS
<1>4. ASSUME NEW x \in S PROVE m <= x
  <2>1. ~ (<<0..x, 0..m>> \in StrictSubsetOrdering(Nat))
    BY <1>2, <1>3
  <2>2. 0..x \subseteq 0..m => 0..x = 0..m
    BY <2>1 DEF StrictSubsetOrdering
  <2>3. ASSUME x < m PROVE FALSE
    BY <2>3, <2>2, m \in 0..m
  <2> QED  BY <2>3
<1> QED  BY <1>4 DEF Min

(* Max returns the greatest element of a bounded set of naturals.           *)
LEMMA MaxOfNat ==
  ASSUME NEW b \in Nat, NEW S \in SUBSET (0..b), S # {}
  PROVE  Max(S) \in S /\ \A x \in S : x <= Max(S)
<1> DEFINE T == {b - x : x \in S}
<1>1. T \in SUBSET Nat
  OBVIOUS
<1>2. T # {}
  OBVIOUS
<1>3. Min(T) \in T /\ \A y \in T : Min(T) <= y
  BY <1>1, <1>2, MinOfNat
<1>4. \A x \in S : b - x \in T /\ x \in Nat
  OBVIOUS
<1>5. PICK m \in S : Min(T) = b - m
  BY <1>3
<1> HIDE DEF T
<1>6. ASSUME NEW x \in S PROVE x <= m
  BY <1>3, <1>4, <1>5
<1> QED  BY <1>6 DEF Max

(* A prefix of a sequence, and what follows it, hold elements of it.       *)
LEMMA Cut ==
  ASSUME NEW S, NEW s \in Seq(S), NEW n \in 1..Len(s)
  PROVE  /\ SubSeq(s, 1, n) \in Seq(S) /\ SubSeq(s, n + 1, Len(s)) \in Seq(S)
         /\ SubSeq(s, 1, n) # <<>>
         /\ \A i \in DOMAIN SubSeq(s, 1, n) : \E j \in DOMAIN s : SubSeq(s, 1, n)[i] = s[j]
         /\ \A i \in DOMAIN SubSeq(s, n + 1, Len(s)) :
              \E j \in DOMAIN s : SubSeq(s, n + 1, Len(s))[i] = s[j]
<1>1. Len(s) \in Nat /\ \A i \in 1..Len(s) : s[i] \in S
  BY LenProperties, ElementOfSeq
<1> DEFINE t == SubSeq(s, 1, n)  u == SubSeq(s, n + 1, Len(s))
<1>2. t \in Seq(S) /\ Len(t) = n /\ \A i \in 1..n : t[i] = s[i]
  <2>1. /\ SubSeq(s, 1, n) \in Seq(S)
        /\ Len(SubSeq(s, 1, n)) = IF 1 <= n THEN n - 1 + 1 ELSE 0
        /\ \A i \in 1..n - 1 + 1 : SubSeq(s, 1, n)[i] = s[1 + i - 1]
    BY <1>1, SubSeqProperties, n \in Int, \A i \in 1..n : i \in 1..Len(s)
  <2> QED  BY <2>1
<1>3. u \in Seq(S) /\ Len(u) = Len(s) - n /\ \A i \in 1..Len(s) - n : u[i] = s[n + i]
  <2>1. /\ SubSeq(s, n + 1, Len(s)) \in Seq(S)
        /\ Len(SubSeq(s, n + 1, Len(s))) = IF n + 1 <= Len(s) THEN Len(s) - (n + 1) + 1 ELSE 0
        /\ \A i \in 1..Len(s) - (n + 1) + 1 : SubSeq(s, n + 1, Len(s))[i] = s[n + 1 + i - 1]
    BY <1>1, SubSeqProperties, n + 1 \in Int, \A i \in n + 1..Len(s) : i \in 1..Len(s)
  <2> QED  BY <2>1, <1>1
<1>4. DOMAIN s = 1..Len(s) /\ DOMAIN t = 1..n /\ DOMAIN u = 1..Len(s) - n
  BY <1>2, <1>3, LenProperties
<1> HIDE DEF t, u
<1>5. t # <<>>
  BY <1>2, EmptySeq
<1>6. \A i \in DOMAIN u : u[i] = s[n + i] /\ n + i \in DOMAIN s
  BY <1>1, <1>3, <1>4
<1>7. \A i \in DOMAIN t : t[i] = s[i] /\ i \in DOMAIN s
  BY <1>1, <1>2, <1>4
<1> QED  BY <1>2, <1>3, <1>5, <1>6, <1>7 DEF t, u

(* The positions from m to n of a sequence, as a sequence of their own.    *)
LEMMA Slice ==
  ASSUME NEW S, NEW s \in Seq(S), NEW m \in Nat, NEW n \in Nat, 0 < m, m <= n + 1, n <= Len(s)
  PROVE  /\ SubSeq(s, m, n) \in Seq(S) /\ Len(SubSeq(s, m, n)) = n - m + 1
         /\ DOMAIN SubSeq(s, m, n) = 1..(n - m + 1)
         /\ \A i \in 1..(n - m + 1) : SubSeq(s, m, n)[i] = s[m + i - 1]
<1>1. Len(s) \in Nat /\ \A i \in 1..Len(s) : s[i] \in S
  BY LenProperties, ElementOfSeq
<1>2. \A i \in m..n : s[i] \in S
  BY <1>1
<1>3. /\ SubSeq(s, m, n) \in Seq(S)
      /\ Len(SubSeq(s, m, n)) = IF m <= n THEN n - m + 1 ELSE 0
      /\ \A i \in 1..n - m + 1 : SubSeq(s, m, n)[i] = s[m + i - 1]
  BY <1>2, SubSeqProperties, m \in Int, n \in Int
<1>4. SubSeq(s, m, n) \in Seq(S) /\ Len(SubSeq(s, m, n)) = n - m + 1
  BY <1>3
<1> QED  BY <1>3, <1>4, LenProperties

(* Two slices of the same length and with the same elements are the same.  *)
LEMMA SlicesEqual ==
  ASSUME NEW S, NEW s \in Seq(S), NEW t \in Seq(S),
         NEW m \in Nat, NEW n \in Nat, 0 < m, m <= n + 1, n <= Len(s),
         NEW k \in Nat, NEW l \in Nat, 0 < k, l <= Len(t), l - k = n - m,
         \A i \in m..n : s[i] = t[i + (k - m)]
  PROVE  SubSeq(s, m, n) = SubSeq(t, k, l)
<1> DEFINE u == SubSeq(s, m, n)  v == SubSeq(t, k, l)
<1>1. u \in Seq(S) /\ Len(u) = n - m + 1 /\ \A i \in 1..(n - m + 1) : u[i] = s[m + i - 1]
  BY Slice
<1>2. v \in Seq(S) /\ Len(v) = l - k + 1 /\ \A i \in 1..(l - k + 1) : v[i] = t[k + i - 1]
  BY k <= l + 1, Slice
<1> HIDE DEF u, v
<1>3. Len(u) = Len(v)
  BY <1>1, <1>2
<1>4. ASSUME NEW i \in 1..Len(u) PROVE u[i] = v[i]
  <2>1. m + i - 1 \in m..n /\ (m + i - 1) + (k - m) = k + i - 1
    BY <1>1
  <2>2. s[m + i - 1] = t[(m + i - 1) + (k - m)]
    BY <2>1
  <2>3. u[i] = s[m + i - 1] /\ v[i] = t[k + i - 1]
    BY <1>1, <1>2, <1>3
  <2> QED  BY <2>1, <2>2, <2>3
<1>5. u = v
  BY <1>1, <1>2, <1>3, <1>4, SeqEqual
<1> QED  BY <1>5 DEF u, v

(* A function defined by a loop exists: where the loop does not stop, a    *)
(* measure of its argument decreases.                                      *)
Descent(D, V, stop, val, next, comb, mu) ==
  /\ stop \in SUBSET D /\ val \in [D -> V] /\ next \in [D -> D]
  /\ comb \in [D \X V -> V] /\ mu \in [D -> Nat]
  /\ \A x \in D \ stop : mu[next[x]] < mu[x]

RunsAs(f, D, stop, val, next, comb) ==
  \A x \in D : f[x] = IF x \in stop THEN val[x] ELSE comb[<<x, f[next[x]]>>]

LEMMA Loops ==
  ASSUME NEW D, NEW V, NEW stop, NEW val, NEW next, NEW comb, NEW mu,
         Descent(D, V, stop, val, next, comb, mu)
  PROVE  \E f \in [D -> V] : RunsAs(f, D, stop, val, next, comb)
<1>0. /\ stop \in SUBSET D /\ val \in [D -> V] /\ next \in [D -> D]
      /\ comb \in [D \X V -> V] /\ mu \in [D -> Nat]
      /\ \A x \in D \ stop : mu[next[x]] < mu[x]
  BY DEF Descent
<1> USE <1>0
<1> DEFINE Turn(g, x) == IF x \in stop THEN val[x] ELSE comb[<<x, g[next[x]]>>]
           Good(n, g) == g \in [D -> V] /\ \A x \in D : mu[x] < n => g[x] = Turn(g, x)
<1>1. \A g \in [D -> V], x \in D : Turn(g, x) \in V
  <2> SUFFICES ASSUME NEW g \in [D -> V], NEW x \in D PROVE Turn(g, x) \in V
    OBVIOUS
  <2>1. next[x] \in D /\ g[next[x]] \in V /\ val[x] \in V
    OBVIOUS
  <2>2. <<x, g[next[x]]>> \in D \X V
    BY <2>1
  <2> QED  BY <2>1, <2>2
<1>2. \A n \in Nat : \E g : Good(n, g)
  <2> DEFINE Bad == {n \in Nat : ~ \E g : Good(n, g)}
  <2>1. SUFFICES ASSUME Bad # {} PROVE FALSE
    OBVIOUS
  <2>2. PICK n \in Bad : \A m \in Bad : n <= m
    BY <2>1, MinOfNat
  <2>3. n # 0
    <3>1. Good(0, val)
      OBVIOUS
    <3> QED  BY <3>1
  <2>4. n - 1 \in Nat /\ n - 1 \notin Bad
    BY <2>2, <2>3
  <2>5. PICK g : Good(n - 1, g)
    BY <2>4
  <2> DEFINE h == [x \in D |-> IF mu[x] < n - 1 THEN g[x] ELSE Turn(g, x)]
  <2> HIDE DEF Turn
  <2>6. h \in [D -> V]
    BY <1>1, <2>5
  <2>7. ASSUME NEW x \in D, mu[x] < n PROVE h[x] = Turn(h, x)
    <3>1. h[x] = Turn(g, x)
      BY <2>5
    <3>2. x \notin stop => h[next[x]] = g[next[x]]
      <4>1. next[x] \in D /\ mu[x] \in Nat /\ mu[next[x]] \in Nat
        OBVIOUS
      <4>2. x \notin stop => mu[next[x]] < n - 1
        BY <4>1, <2>4, <2>7
      <4> QED  BY <4>1, <4>2
    <3>3. Turn(g, x) = Turn(h, x)
      BY <3>2 DEF Turn
    <3> QED  BY <3>1, <3>3
  <2>8. Good(n, h)
    BY <2>6, <2>7
  <2> QED  BY <2>8
<1>3. \A n, m \in Nat : \A g, h : Good(n, g) /\ Good(m, h) =>
         \A x \in D : mu[x] < n /\ mu[x] < m => g[x] = h[x]
  <2> SUFFICES ASSUME NEW n \in Nat, NEW m \in Nat, NEW g, NEW h, Good(n, g), Good(m, h)
               PROVE  \A x \in D : mu[x] < n /\ mu[x] < m => g[x] = h[x]
    <3> HIDE DEF Good
    <3> QED  OBVIOUS
  <2> DEFINE Bad == {mu[x] : x \in {y \in D : mu[y] < n /\ mu[y] < m /\ g[y] # h[y]}}
  <2>1. SUFFICES ASSUME Bad # {} PROVE FALSE
    <3> HIDE DEF Good
    <3> QED  OBVIOUS
  <2>2. Bad \in SUBSET Nat
    OBVIOUS
  <2>3. PICK k \in Bad : \A j \in Bad : k <= j
    BY <2>1, <2>2, MinOfNat
  <2>4. PICK x \in D : k = mu[x] /\ mu[x] < n /\ mu[x] < m /\ g[x] # h[x]
    BY <2>3
  <2>5. x \notin stop => g[next[x]] = h[next[x]]
    <3>1. next[x] \in D /\ mu[x] \in Nat /\ mu[next[x]] \in Nat
      OBVIOUS
    <3>2. x \notin stop => mu[next[x]] < k /\ mu[next[x]] < n /\ mu[next[x]] < m
      BY <3>1, <2>4
    <3>3. mu[next[x]] < k => mu[next[x]] \notin Bad
      <4> HIDE DEF Bad
      <4> QED  BY <2>3, <2>2, <3>1
    <3> QED  BY <3>1, <3>2, <3>3
  <2>6. g[x] = Turn(g, x) /\ h[x] = Turn(h, x)
    <3> HIDE DEF Turn
    <3> QED  BY <2>4
  <2>7. Turn(g, x) = Turn(h, x)
    BY <2>5
  <2> QED  BY <2>4, <2>6, <2>7
<1> DEFINE G(n) == CHOOSE g : Good(n, g)
           f == [x \in D |-> G(mu[x] + 1)[x]]
<1>4. \A n \in Nat : Good(n, G(n))
  <2> HIDE DEF Good
  <2> QED  BY <1>2
<1>5. \A x \in D : G(mu[x] + 1) \in [D -> V]
  <2> HIDE DEF G
  <2> SUFFICES ASSUME NEW x \in D PROVE G(mu[x] + 1) \in [D -> V]
    OBVIOUS
  <2>1. mu[x] + 1 \in Nat
    OBVIOUS
  <2> QED  BY <1>4, <2>1
<1>6. f \in [D -> V]
  <2> HIDE DEF G
  <2> QED  BY <1>5
<1>7. ASSUME NEW x \in D PROVE f[x] = Turn(f, x)
  <2> DEFINE n == mu[x] + 1
             y == next[x]
  <2>1. n \in Nat /\ mu[x] < n /\ y \in D /\ mu[y] \in Nat
    OBVIOUS
  <2>2. Good(n, G(n)) /\ Good(mu[y] + 1, G(mu[y] + 1))
    <3> HIDE DEF Good, G, n
    <3> QED  BY <1>4, <2>1
  <2>3. G(n)[x] = Turn(G(n), x)
    <3> HIDE DEF G, n, Turn
    <3> QED  BY <2>1, <2>2
  <2>4. x \notin stop => G(n)[y] = f[y]
    <3>1. x \notin stop => mu[y] < n
      OBVIOUS
    <3>2. mu[y] < mu[y] + 1 /\ mu[y] + 1 \in Nat
      BY <2>1
    <3>3. f[y] = G(mu[y] + 1)[y]
      <4> HIDE DEF G, y
      <4> QED  BY <2>1
    <3> HIDE DEF Good, G, f, n, y
    <3>4. x \notin stop => G(n)[y] = G(mu[y] + 1)[y]
      BY <1>3, <2>1, <2>2, <3>1, <3>2
    <3> QED  BY <3>3, <3>4
  <2>5. f[x] = G(n)[x]
    <3> HIDE DEF G
    <3> QED  OBVIOUS
  <2>6. Turn(G(n), x) = Turn(f, x)
    <3> HIDE DEF G, f, n
    <3> QED  BY <2>4
  <2> HIDE DEF Turn, G, f, n
  <2> QED  BY <2>3, <2>5, <2>6
<1> HIDE DEF f
<1> QED  BY <1>6, <1>7 DEF RunsAs

(* The sequences that FlattenSeq joins, from the left.                     *)
LEMMA FlattenEmpty == FlattenSeq(<<>>) = <<>>
BY Len(<<>>) = 0 DEF FlattenSeq

JoinsUp(f, ss) ==
  /\ FlattenSeq(ss) = f[Len(ss)]
  /\ \A i \in 1..Len(ss) : f[i] = IF i = 1 THEN ss[i] ELSE f[i - 1] \o ss[i]

LEMMA FlattenLoop ==
  ASSUME NEW S, NEW ss \in Seq(Seq(S)), ss # <<>>
  PROVE  \E f \in [1..Len(ss) -> Seq(S)] : JoinsUp(f, ss)
<1> DEFINE D == 1..Len(ss)
           V == Seq(S)
           stop == {1}
           val == [i \in D |-> ss[i]]
           next == [i \in D |-> IF i = 1 THEN 1 ELSE i - 1]
           comb == [p \in D \X V |-> p[2] \o ss[p[1]]]
           mu == [i \in D |-> i]
<1>1. Len(ss) \in Nat /\ Len(ss) # 0 /\ \A i \in D : ss[i] \in Seq(S)
  OBVIOUS
<1>2. stop \in SUBSET D /\ val \in [D -> V] /\ next \in [D -> D] /\ mu \in [D -> Nat]
  BY <1>1
<1>3. comb \in [D \X V -> V]
  <2>1. \A p \in D \X Seq(S) : p[2] \o ss[p[1]] \in Seq(S)
    <3> SUFFICES ASSUME NEW i \in D, NEW s \in Seq(S) PROVE s \o ss[i] \in Seq(S)
      OBVIOUS
    <3> QED  BY <1>1, ConcatProperties
  <2> QED  BY <2>1
<1>4. \A x \in D \ stop : mu[next[x]] < mu[x]
  BY <1>1
<1>5. PICK f \in [D -> V] : RunsAs(f, D, stop, val, next, comb)
  <2> HIDE DEF val, next, comb, mu, D, V, stop
  <2>1. Descent(D, V, stop, val, next, comb, mu)
    BY <1>2, <1>3, <1>4 DEF Descent
  <2> QED  BY <2>1, Loops
<1>6. \A i \in D : f[i] = IF i = 1 THEN ss[i] ELSE f[i - 1] \o ss[i]
  <2> SUFFICES ASSUME NEW i \in D PROVE f[i] = IF i = 1 THEN ss[i] ELSE f[i - 1] \o ss[i]
    OBVIOUS
  <2>1. CASE i = 1
    BY <1>5, <2>1 DEF RunsAs
  <2>2. CASE i # 1
    <3>1. next[i] = i - 1 /\ i - 1 \in D
      BY <1>1, <2>2
    <3>2. f[i] = comb[<<i, f[i - 1]>>] /\ <<i, f[i - 1]>> \in D \X Seq(S)
      <4> HIDE DEF comb, next, val
      <4> QED  BY <1>5, <2>2, <3>1 DEF RunsAs
    <3> QED  BY <2>2, <3>2
  <2> QED  BY <2>1, <2>2
<1> DEFINE h == CHOOSE g : g = [i \in 1..Len(ss) |-> IF i = 1 THEN ss[i] ELSE g[i - 1] \o ss[i]]
<1>7. FlattenSeq(ss) = h[Len(ss)]
  BY <1>1 DEF FlattenSeq
<1>8. f = [i \in 1..Len(ss) |-> IF i = 1 THEN ss[i] ELSE f[i - 1] \o ss[i]]
  BY <1>6
<1>9. h = [i \in 1..Len(ss) |-> IF i = 1 THEN ss[i] ELSE h[i - 1] \o ss[i]]
  BY <1>8
<1>10. \A i \in D : h[i] = IF i = 1 THEN ss[i] ELSE h[i - 1] \o ss[i]
  <2> HIDE DEF h
  <2> QED  BY <1>9
<1>11. \A i \in D : h[i] = f[i]
  <2> DEFINE Bad == {i \in D : h[i] # f[i]}
  <2>1. SUFFICES ASSUME Bad # {} PROVE FALSE
    <3> HIDE DEF h
    <3> QED  OBVIOUS
  <2>2. Bad \in SUBSET Nat
    <3> HIDE DEF h
    <3> QED  OBVIOUS
  <2>3. PICK k \in Bad : \A j \in Bad : k <= j
    <3> HIDE DEF Bad
    <3> QED  BY <2>1, <2>2, MinOfNat
  <2>4. k # 1
    <3> HIDE DEF h
    <3> QED  BY <1>6, <1>10
  <2>5. k - 1 \in D /\ k - 1 \notin Bad
    <3>1. k \in D /\ k \in Nat
      OBVIOUS
    <3>2. k - 1 \in D /\ k - 1 < k
      BY <3>1, <2>4
    <3>4. k - 1 \in Bad => k <= k - 1
      BY <2>3
    <3>5. ~ (k <= k - 1)
      BY <3>1
    <3> HIDE DEF Bad, h
    <3> QED  BY <3>2, <3>4, <3>5
  <2> HIDE DEF h
  <2> QED  BY <2>4, <2>5, <1>6, <1>10
<1>12. FlattenSeq(ss) = f[Len(ss)]
  <2> HIDE DEF h
  <2> QED  BY <1>1, <1>7, <1>11
<1> HIDE DEF h
<1> QED  BY <1>6, <1>12 DEF JoinsUp

(* Joining sequences is associative.                                      *)
OneWay(a, b, c) == (a \o b) \o c = a \o (b \o c)

LEMMA Assoc ==
  \A S : \A a, b, c \in Seq(S) : OneWay(a, b, c)
BY ConcatAssociative DEF OneWay

(* FlattenSeq joins the first sequence to the others.                      *)
LEMMA FlattenCons ==
  ASSUME NEW S, NEW x \in Seq(S), NEW ss \in Seq(Seq(S))
  PROVE  FlattenSeq(<<x>> \o ss) = x \o FlattenSeq(ss) /\ FlattenSeq(ss) \in Seq(S)
<1> DEFINE tt == <<x>> \o ss
<1>1. /\ tt \in Seq(Seq(S)) /\ Len(tt) = Len(ss) + 1 /\ Len(ss) \in Nat /\ tt # <<>> /\ tt[1] = x
      /\ \A i \in 1..Len(ss) : tt[i + 1] = ss[i] /\ ss[i] \in Seq(S)
  OBVIOUS
<1> HIDE DEF tt
<1>0. PICK g \in [1..Len(tt) -> Seq(S)] : JoinsUp(g, tt)
  BY <1>1, FlattenLoop
<1>2. /\ FlattenSeq(tt) = g[Len(tt)]
      /\ \A i \in 1..Len(tt) : g[i] = IF i = 1 THEN tt[i] ELSE g[i - 1] \o tt[i]
  BY <1>0 DEF JoinsUp
<1>3. g[1] = x
  BY <1>1, <1>2
<1>4. CASE ss = <<>>
  <2>1. Len(tt) = 1 /\ FlattenSeq(ss) = <<>>
    BY <1>1, <1>4, FlattenEmpty
  <2> QED  BY <2>1, <1>2, <1>3 DEF tt
<1>5. CASE ss # <<>>
  <2>0. PICK f \in [1..Len(ss) -> Seq(S)] : JoinsUp(f, ss)
    BY <1>5, FlattenLoop
  <2>1. /\ FlattenSeq(ss) = f[Len(ss)]
        /\ \A i \in 1..Len(ss) : f[i] = IF i = 1 THEN ss[i] ELSE f[i - 1] \o ss[i]
    BY <2>0 DEF JoinsUp
  <2>2. Len(ss) # 0
    BY <1>5
  <2> DEFINE Bad == {i \in 1..Len(ss) : g[i + 1] # x \o f[i]}
  <2>3. ASSUME Bad # {} PROVE FALSE
    <3>1. Bad \in SUBSET Nat
      OBVIOUS
    <3>2. PICK k \in Bad : \A j \in Bad : k <= j
      <4> HIDE DEF Bad
      <4> QED  BY <2>3, <3>1, MinOfNat
    <3>3. k \in 1..Len(ss) /\ k \in Nat /\ k + 1 \in 1..Len(tt) /\ k + 1 # 1 /\ (k + 1) - 1 = k
      BY <1>1
    <3>4. g[k + 1] = g[k] \o ss[k]
      BY <1>1, <1>2, <3>3
    <3>5. k # 1
      BY <1>3, <2>1, <3>3, <3>4
    <3>6. k - 1 \in 1..Len(ss) /\ (k - 1) + 1 = k /\ ~ (k <= k - 1)
      BY <3>3, <3>5
    <3>7. k - 1 \notin Bad
      <4> HIDE DEF Bad
      <4> QED  BY <3>2, <3>6
    <3>8. g[k] = x \o f[k - 1]
      BY <3>6, <3>7
    <3>9. f[k] = f[k - 1] \o ss[k] /\ f[k - 1] \in Seq(S) /\ ss[k] \in Seq(S)
      BY <2>1, <3>3, <3>5, <3>6, <1>1
    <3>10. (x \o f[k - 1]) \o ss[k] = x \o (f[k - 1] \o ss[k])
      <4> HIDE DEF Bad
      <4> DEFINE u == f[k - 1]
                 v == ss[k]
      <4>1. u \in Seq(S) /\ v \in Seq(S)
        BY <3>9
      <4> HIDE DEF u, v
      <4>2. (x \o u) \o v = x \o (u \o v)
        BY <4>1, Assoc DEF OneWay
      <4> QED  BY <4>2 DEF u, v
    <3> QED  BY <3>2, <3>4, <3>8, <3>9, <3>10
  <2>4. g[Len(tt)] = x \o f[Len(ss)]
    <3>1. Len(ss) \in 1..Len(ss)
      BY <1>1, <2>2
    <3> QED  BY <2>3, <3>1, <1>1
  <2>5. f[Len(ss)] \in Seq(S)
    <3> HIDE DEF Bad
    <3>1. Len(ss) \in 1..Len(ss)
      BY <1>1, <2>2
    <3> QED  BY <3>1
  <2> QED  BY <2>1, <2>4, <2>5, <1>2 DEF tt
<1> QED  BY <1>4, <1>5

=============================================================================
