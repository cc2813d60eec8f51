----------------------------- MODULE SeqLemmas ------------------------------
(***************************************************************************)
(* Lemmas that several components' proofs cite: induction over the natural *)
(* numbers and over sequences stated with sets, so that no operator is a   *)
(* parameter; recursive functions and folds from it; and what FlattenSeq   *)
(* computes.                                                               *)
(***************************************************************************)
EXTENDS Integers, SequencesExt, SequenceTheorems, WellFoundedInduction, TLAPS

\* A set of natural numbers has a smallest member.
LEMMA Smallest == ASSUME NEW T \in SUBSET Nat, T # {} PROVE \E x \in T : \A y \in T : x <= y
<1> DEFINE Less == {p \in Nat \X Nat : p[1] < p[2]}
<1>1. IsWellFoundedOn(Less, Nat)
  BY NatLessThanWellFounded DEF OpToRel
<1>2. PICK x \in T : \A y \in T : ~(<<y,x>> \in Less)
  <2> HIDE DEF Less
  <2> QED BY <1>1, WFMin
<1>3. ASSUME NEW y \in T PROVE x <= y
  <2>1. ~(<<y, x>> \in Less)
    BY <1>2
  <2>2. ~(y < x)
    BY <2>1
  <2> QED BY <2>2
<1> QED BY <1>3

\* Induction over the natural numbers.
LEMMA Induct == ASSUME NEW S, 0 \in S, \A n \in Nat : n \in S => n+1 \in S PROVE Nat \subseteq S
<1> SUFFICES ASSUME Nat \ S # {} PROVE FALSE
  OBVIOUS
<1>1. PICK x \in Nat \ S : \A y \in Nat \ S : x <= y
  BY Smallest
<1>2. x # 0 /\ x - 1 \in Nat
  BY <1>1
<1>3. x - 1 \in S
  BY <1>1, <1>2
<1> QED BY <1>1, <1>2, <1>3

-----------------------------------------------------------------------------
\* F joins the first sequences of s, one more at each place.
JoinedBy(F, s, S) == /\ F \in [1 .. Len(s) -> Seq(S)]
                  /\ \A i \in 1 .. Len(s) : F[i] = IF i = 1 THEN s[i] ELSE F[i - 1] \o s[i]

\* There is such an F.
LEMMA JoinsExists ==
  ASSUME NEW S, NEW s \in Seq(Seq(S)) PROVE \E F : JoinedBy(F, s, S)
<1> DEFINE ok(n) == \E F \in [1 .. n -> Seq(S)] : \A i \in 1 .. n : F[i] = IF i = 1 THEN s[i] ELSE F[i - 1] \o s[i]
           T == {n \in Nat : n <= Len(s) => ok(n)}
<1>1. 0 \in T
  <2>1. \A F \in [1 .. 0 -> Seq(S)] : \A i \in 1 .. 0 : F[i] = IF i = 1 THEN s[i] ELSE F[i - 1] \o s[i]
    OBVIOUS
  <2>2. [i \in 1 .. 0 |-> <<>>] \in [1 .. 0 -> Seq(S)]
    OBVIOUS
  <2> QED BY <2>1, <2>2
<1>2. ASSUME NEW n \in Nat, n \in T PROVE n + 1 \in T
  <2> SUFFICES ASSUME n + 1 <= Len(s) PROVE ok(n + 1)
    <3> HIDE DEF ok
    <3> QED OBVIOUS
  <2>1. Len(s) \in Nat /\ n <= Len(s)
    BY LenProperties
  <2>2. PICK F \in [1 .. n -> Seq(S)] : \A i \in 1 .. n : F[i] = IF i = 1 THEN s[i] ELSE F[i - 1] \o s[i]
    BY <1>2, <2>1
  <2> DEFINE new == IF n = 0 THEN s[1] ELSE F[n] \o s[n + 1]
             G == [i \in 1 .. n + 1 |-> IF i <= n THEN F[i] ELSE new]
  <2>3. new \in Seq(S)
    <3>1. s[n + 1] \in Seq(S)
      BY <2>1, ElementOfSeq
    <3>2. n # 0 => F[n] \in Seq(S)
      OBVIOUS
    <3> QED BY <3>1, <3>2, ConcatProperties
  <2>4. G \in [1 .. n + 1 -> Seq(S)]
    BY <2>3
  <2>5. ASSUME NEW i \in 1 .. n + 1 PROVE G[i] = IF i = 1 THEN s[i] ELSE G[i - 1] \o s[i]
    <3>1. CASE i <= n
      <4>1. G[i] = F[i] /\ i \in 1 .. n
        BY <3>1
      <4>2. i # 1 => G[i - 1] = F[i - 1]
        BY <3>1
      <4> QED BY <2>2, <4>1, <4>2
    <3>2. CASE i = n + 1
      <4>1. G[i] = new
        BY <3>2
      <4>2. i # 1 => G[i - 1] = F[n] /\ n # 0
        BY <3>2
      <4> QED BY <3>2, <4>1, <4>2
    <3> QED BY <3>1, <3>2
  <2> QED BY <2>4, <2>5
<1>3. Nat \subseteq T
  <2> HIDE DEF T
  <2> QED BY <1>1, <1>2, Induct
<1>4. Len(s) \in T
  BY <1>3, LenProperties
<1> QED BY <1>4 DEF JoinedBy

\* FlattenSeq is its last value.
LEMMA FlattenJoins ==
  ASSUME NEW S, NEW s \in Seq(Seq(S)), s # <<>>
  PROVE  \E F : JoinedBy(F, s, S) /\ FlattenSeq(s) = F[Len(s)]
<1> DEFINE Is(F) == F = [i \in 1 .. Len(s) |-> IF i = 1 THEN s[i] ELSE F[i - 1] \o s[i]]
<1>1. PICK F : JoinedBy(F, s, S)
  BY JoinsExists
<1>2. Is(F)
  BY <1>1 DEF JoinedBy
<1>3. Is(CHOOSE G : Is(G))
  BY <1>2
<1>4. FlattenSeq(s) = (CHOOSE G : Is(G))[Len(s)]
  <2>1. Len(s) # 0
    BY EmptySeq
  <2> QED BY <2>1 DEF FlattenSeq
<1>5. ASSUME NEW G, Is(G) PROVE JoinedBy(G, s, S)
  <2> DEFINE T == {n \in Nat : n \in 1 .. Len(s) => G[n] = F[n]}
  <2>1. 0 \in T
    OBVIOUS
  <2>2. ASSUME NEW n \in Nat, n \in T PROVE n + 1 \in T
    <3> SUFFICES ASSUME n + 1 \in 1 .. Len(s) PROVE G[n + 1] = F[n + 1]
      OBVIOUS
    <3> DEFINE m == n + 1
    <3>1. \A i \in 1 .. Len(s) : G[i] = IF i = 1 THEN s[i] ELSE G[i - 1] \o s[i]
      BY <1>5
    <3>2. \A i \in 1 .. Len(s) : F[i] = IF i = 1 THEN s[i] ELSE F[i - 1] \o s[i]
      BY <1>1 DEF JoinedBy
    <3>3. m # 1 => n \in 1 .. Len(s) /\ m - 1 = n
      BY LenProperties
    <3>4. m \in 1 .. Len(s)
      OBVIOUS
    <3>5. m # 1 => G[m - 1] = F[m - 1]
      BY <2>2, <3>3
    <3> HIDE DEF m
    <3>6. G[m] = F[m]
      BY <3>1, <3>2, <3>4, <3>5
    <3> QED BY <3>6 DEF m
  <2>3. Nat \subseteq T
    <3> HIDE DEF T
    <3> QED BY <2>1, <2>2, Induct
  <2>4. \A i \in 1 .. Len(s) : G[i] = F[i]
    BY <2>3
  <2>5. G = F
    <3>1. DOMAIN G = 1 .. Len(s) /\ G = [i \in 1 .. Len(s) |-> G[i]]
      BY <1>5
    <3>2. F = [i \in 1 .. Len(s) |-> F[i]]
      BY <1>1 DEF JoinedBy
    <3> QED BY <2>4, <3>1, <3>2
  <2> QED BY <1>1, <2>5
<1> QED BY <1>3, <1>4, <1>5

\* Induction up to n.
LEMMA UpTo ==
  ASSUME NEW n \in Nat, NEW S, 0 \in S, \A i \in 0 .. n - 1 : i \in S => i + 1 \in S
  PROVE  0 .. n \subseteq S
<1> DEFINE T == {i \in Nat : i <= n => i \in S}
<1>1. 0 \in T
  OBVIOUS
<1>2. ASSUME NEW i \in Nat, i \in T PROVE i + 1 \in T
  BY <1>2
<1>3. Nat \subseteq T
  <2> HIDE DEF T
  <2> QED BY <1>1, <1>2, Induct
<1> QED BY <1>3

\* A step from the value before i to the one at i, and the function that takes them.
Steps(n, V) == [(1 .. n) \X V -> V]
Recurs(g, V, n, b, h) ==
  g \in [0 .. n -> V] /\ g[0] = b /\ \A i \in 1 .. n : g[i] = h[<<i, g[i - 1]>>]

\* There is such a function.
LEMMA Recursion ==
  ASSUME NEW V, NEW n \in Nat, NEW b \in V, NEW h \in Steps(n, V)
  PROVE  \E g : Recurs(g, V, n, b, h)
<1>0. h \in [(1 .. n) \X V -> V]
  BY DEF Steps
<1> DEFINE ok(k) == \E g \in [0 .. k -> V] : g[0] = b /\ \A i \in 1 .. k : g[i] = h[<<i, g[i - 1]>>]
           T == {k \in Nat : ok(k)}
<1>1. 0 \in T
  <2>1. [i \in 0 .. 0 |-> b] \in [0 .. 0 -> V] /\ [i \in 0 .. 0 |-> b][0] = b
    OBVIOUS
  <2>2. 1 .. 0 = {}
    OBVIOUS
  <2> QED BY <2>1, <2>2
<1>2. ASSUME NEW k \in 0 .. n - 1, k \in T PROVE k + 1 \in T
  <2>1. PICK g \in [0 .. k -> V] : g[0] = b /\ \A i \in 1 .. k : g[i] = h[<<i, g[i - 1]>>]
    BY <1>2
  <2> DEFINE new == h[<<k + 1, g[k]>>]
             f == [i \in 0 .. k + 1 |-> IF i <= k THEN g[i] ELSE new]
  <2>2. new \in V
    <3>1. <<k + 1, g[k]>> \in (1 .. n) \X V
      OBVIOUS
    <3> QED BY <1>0, <3>1
  <2>3. f \in [0 .. k + 1 -> V]
    <3> HIDE DEF new
    <3> QED BY <2>2
  <2>4. f[0] = b
    <3> HIDE DEF new
    <3> QED BY <2>1
  <2>5. ASSUME NEW i \in 1 .. k + 1 PROVE f[i] = h[<<i, f[i - 1]>>]
    <3>1. f[i - 1] = g[i - 1]
      <4> HIDE DEF new
      <4> QED OBVIOUS
    <3>2. CASE i <= k
      <4>1. f[i] = g[i] /\ i \in 1 .. k
        <5> HIDE DEF new
        <5> QED BY <3>2
      <4> QED BY <2>1, <3>1, <4>1
    <3>3. CASE i = k + 1
      <4>1. f[i] = new
        <5> HIDE DEF new
        <5> QED BY <3>3
      <4>2. i - 1 = k
        BY <3>3
      <4> QED BY <3>1, <3>3, <4>1, <4>2
    <3> QED BY <3>2, <3>3
  <2>6. ok(k + 1)
    <3> HIDE DEF f, new
    <3> QED BY <2>3, <2>4, <2>5
  <2> HIDE DEF ok
  <2> QED BY <2>6
<1>3. 0 .. n \subseteq T
  <2> HIDE DEF T
  <2> QED BY <1>1, <1>2, UpTo
<1> QED BY <1>3 DEF Recurs

-----------------------------------------------------------------------------
\* What FlattenSeq does.

\* Nothing joins to nothing,
LEMMA FlattenEmpty == FlattenSeq(<<>>) = <<>>
BY DEF FlattenSeq

\* sequences over S to one over S,
LEMMA FlattenTyped == ASSUME NEW S, NEW s \in Seq(Seq(S)) PROVE FlattenSeq(s) \in Seq(S)
<1>1. CASE s = <<>>
  BY <1>1, FlattenEmpty, EmptySeq
<1>2. CASE s # <<>>
  <2>1. PICK F : JoinedBy(F, s, S) /\ FlattenSeq(s) = F[Len(s)]
    BY <1>2, FlattenJoins
  <2>2. Len(s) \in 1 .. Len(s)
    BY <1>2, EmptySeq
  <2> QED BY <2>1, <2>2 DEF JoinedBy
<1> QED BY <1>1, <1>2

\* one sequence to itself,
LEMMA FlattenOne == ASSUME NEW S, NEW x \in Seq(S) PROVE FlattenSeq(<<x>>) = x
<1>1. PICK F : JoinedBy(F, <<x>>, S) /\ FlattenSeq(<<x>>) = F[Len(<<x>>)]
  <2>1. <<x>> \in Seq(Seq(S)) /\ <<x>> # <<>>
    OBVIOUS
  <2> QED BY <2>1, FlattenJoins
<1>2. Len(<<x>>) = 1 /\ <<x>>[1] = x
  OBVIOUS
<1> QED BY <1>1, <1>2 DEF JoinedBy

\* one more to what the others join to and it,
LEMMA FlattenAppend ==
  ASSUME NEW S, NEW s \in Seq(Seq(S)), NEW x \in Seq(S)
  PROVE  FlattenSeq(Append(s, x)) = FlattenSeq(s) \o x
<1>1. CASE s = <<>>
  <2>1. Append(s, x) = <<x>>
    BY <1>1
  <2> QED BY <1>1, <2>1, FlattenOne, FlattenEmpty, ConcatEmptySeq
<1>2. CASE s # <<>>
  <2> DEFINE t == Append(s, x)
             n == Len(s)
  <2>1. t \in Seq(Seq(S)) /\ t # <<>> /\ Len(t) = n + 1 /\ n \in Nat /\ n # 0
        /\ t[n + 1] = x /\ \A i \in 1 .. n : t[i] = s[i]
    BY <1>2, EmptySeq
  <2>2. PICK F : JoinedBy(F, s, S) /\ FlattenSeq(s) = F[n]
    BY <1>2, FlattenJoins
  <2> HIDE DEF t, n
  <2>3. PICK G : JoinedBy(G, t, S) /\ FlattenSeq(t) = G[n + 1]
    BY <2>1, FlattenJoins
  <2> DEFINE T == {i \in Nat : i \in 1 .. n => G[i] = F[i]}
  <2>4. \A i \in 1 .. n : F[i] = IF i = 1 THEN s[i] ELSE F[i - 1] \o s[i]
    BY <2>2 DEF JoinedBy, n
  <2>5. \A i \in 1 .. n + 1 : G[i] = IF i = 1 THEN t[i] ELSE G[i - 1] \o t[i]
    BY <2>1, <2>3 DEF JoinedBy
  <2>6. 0 \in T
    OBVIOUS
  <2>7. ASSUME NEW k \in Nat, k \in T PROVE k + 1 \in T
    <3> SUFFICES ASSUME k + 1 \in 1 .. n PROVE G[k + 1] = F[k + 1]
      OBVIOUS
    <3> DEFINE m == k + 1
    <3>1. m \in 1 .. n /\ m \in 1 .. n + 1 /\ t[m] = s[m]
      BY <2>1
    <3>2. m # 1 => G[m - 1] = F[m - 1]
      <4>1. m - 1 = k /\ (m # 1 => k \in 1 .. n)
        BY <2>1
      <4> QED BY <2>7, <4>1
    <3> HIDE DEF m
    <3>3. G[m] = F[m]
      BY <2>4, <2>5, <3>1, <3>2
    <3> QED BY <3>3 DEF m
  <2>8. Nat \subseteq T
    <3> HIDE DEF T
    <3> QED BY <2>6, <2>7, Induct
  <2>9. G[n] = F[n]
    BY <2>1, <2>8
  <2>10. G[n + 1] = G[n] \o x
    <3>1. n + 1 \in 1 .. n + 1 /\ n + 1 # 1 /\ (n + 1) - 1 = n
      BY <2>1
    <3> QED BY <2>1, <2>5, <3>1
  <2> QED BY <2>2, <2>3, <2>9, <2>10 DEF t
<1> QED BY <1>1, <1>2

\* and the first one comes before what the others join to.
LEMMA FlattenHead ==
  ASSUME NEW S, NEW s \in Seq(Seq(S)), s # <<>>
  PROVE  FlattenSeq(s) = Head(s) \o FlattenSeq(Tail(s))
<1> DEFINE tl == Tail(s)
           n == Len(s)
<1>1. tl \in Seq(Seq(S)) /\ Len(tl) = n - 1 /\ n \in Nat /\ n # 0 /\ Head(s) = s[1]
      /\ Head(s) \in Seq(S) /\ \A i \in 1 .. n - 1 : tl[i] = s[i + 1]
  BY EmptySeq, HeadTailProperties
<1>2. CASE tl = <<>>
  <2>1. s = <<Head(s)>>
    <3>1. Len(s) = 1
      <4>1. Len(tl) = 0
        BY <1>2, EmptySeq
      <4>2. Len(tl) = n - 1 /\ n \in Nat
        BY <1>1
      <4> HIDE DEF tl
      <4>3. n = 1
        BY <4>1, <4>2
      <4> QED BY <4>3
    <3> QED BY <3>1
  <2>2. FlattenSeq(s) = Head(s)
    BY <1>1, <2>1, FlattenOne
  <2> QED BY <1>1, <1>2, <2>2, FlattenEmpty, ConcatEmptySeq
<1>3. CASE tl # <<>>
  <2>1. PICK F : JoinedBy(F, s, S) /\ FlattenSeq(s) = F[n]
    BY FlattenJoins
  <2>2. PICK G : JoinedBy(G, tl, S) /\ FlattenSeq(tl) = G[n - 1]
    <3> HIDE DEF tl, n
    <3> QED BY <1>1, <1>3, FlattenJoins
  <2>3. n - 1 \in Nat /\ n - 1 # 0
    BY <1>1, <1>3, EmptySeq
  <2>4. \A i \in 1 .. n : F[i] = IF i = 1 THEN s[i] ELSE F[i - 1] \o s[i]
    BY <2>1 DEF JoinedBy
  <2> HIDE DEF tl, n
  <2>5. \A i \in 1 .. n - 1 : G[i] \in Seq(S) /\ tl[i] \in Seq(S) /\ G[i] = IF i = 1 THEN tl[i] ELSE G[i - 1] \o tl[i]
    <3>1. \A i \in 1 .. n - 1 : tl[i] \in Seq(S)
      BY <1>1, ElementOfSeq
    <3>2. G \in [1 .. n - 1 -> Seq(S)]
      BY <1>1, <2>2 DEF JoinedBy
    <3> QED BY <1>1, <2>2, <3>1, <3>2 DEF JoinedBy
  <2> DEFINE T == {i \in Nat : i \in 1 .. n - 1 => F[i + 1] = Head(s) \o G[i]}
  <2>6. 0 \in T
    OBVIOUS
  <2>7. ASSUME NEW k \in Nat, k \in T PROVE k + 1 \in T
    <3> SUFFICES ASSUME k + 1 \in 1 .. n - 1 PROVE F[k + 2] = Head(s) \o G[k + 1]
      <4>1. (k + 1) + 1 = k + 2 /\ k + 1 \in Nat
        OBVIOUS
      <4> QED BY <4>1, Zenon
    <3> DEFINE m == k + 1
    <3>1. m \in 1 .. n - 1 /\ m + 1 \in 1 .. n /\ m + 1 # 1 /\ (m + 1) - 1 = m /\ m + 1 = k + 2 /\ tl[m] = s[m + 1]
      BY <1>1
    <3>2. F[m + 1] = F[m] \o tl[m]
      <4> HIDE DEF m
      <4> QED BY <2>4, <3>1
    <3>3. CASE k = 0
      <4>1. F[m] = s[1] /\ G[m] = tl[m]
        <5>1. m = 1 /\ 1 \in 1 .. n
          BY <1>1, <3>1, <3>3
        <5> QED BY <2>4, <2>5, <3>1, <5>1
      <4> QED BY <1>1, <3>1, <3>2, <4>1
    <3>4. CASE k # 0
      <4>1. k \in 1 .. n - 1 /\ m - 1 = k /\ m # 1
        BY <1>1, <3>1, <3>4
      <4>2. F[m] = Head(s) \o G[k]
        BY <2>7, <4>1
      <4>3. G[m] = G[k] \o tl[m] /\ G[k] \in Seq(S) /\ tl[m] \in Seq(S)
        <5> HIDE DEF m
        <5> QED BY <2>5, <3>1, <4>1
      <4> HIDE DEF m
      <4>4. (Head(s) \o G[k]) \o tl[m] = Head(s) \o (G[k] \o tl[m])
        <5>1. Head(s) \in Seq(S)
          BY <1>1
        <5>2. G[k] \in Seq(S) /\ tl[m] \in Seq(S)
          BY <4>3
        <5> DEFINE x == Head(s)
                   y == G[k]
                   z == tl[m]
        <5>3. x \in Seq(S) /\ y \in Seq(S) /\ z \in Seq(S)
          BY <5>1, <5>2
        <5> HIDE DEF x, y, z
        <5>4. (x \o y) \o z = x \o (y \o z)
          BY <5>3, ConcatAssociative, SMTT(30)
        <5> QED BY <5>4, Zenon DEF x, y, z
      <4>5. F[k + 2] = Head(s) \o G[m]
        BY <3>1, <3>2, <4>2, <4>3, <4>4
      <4> QED BY <4>5 DEF m
    <3> QED BY <3>3, <3>4
  <2>8. Nat \subseteq T
    <3> HIDE DEF T
    <3> QED BY <2>6, <2>7, Induct
  <2>9. F[n] = Head(s) \o G[n - 1]
    <3> DEFINE k == n - 1
    <3>1. k \in T /\ k \in 1 .. n - 1 /\ k + 1 = n
      <4>1. k \in Nat /\ k # 0
        BY <2>3
      <4>2. n \in Nat
        BY <1>1
      <4>3. k \in T
        BY <2>8, <4>1, Zenon
      <4>4. k \in 1 .. n - 1 /\ k + 1 = n
        BY <4>1, <4>2
      <4> QED BY <4>3, <4>4
    <3>2. F[k + 1] = Head(s) \o G[k]
      <4> HIDE DEF k
      <4> QED BY <3>1
    <3> QED BY <3>1, <3>2
  <2> QED BY <2>1, <2>2, <2>9 DEF tl
<1> QED BY <1>2, <1>3

-----------------------------------------------------------------------------
\* Induction over sequences, one element more at the end.
LEMMA SeqInduct ==
  ASSUME NEW C, NEW T, <<>> \in T, \A s \in Seq(C), c \in C : s \in T => Append(s, c) \in T
  PROVE  Seq(C) \subseteq T
<1> DEFINE N == {n \in Nat : \A s \in Seq(C) : Len(s) = n => s \in T}
<1>1. 0 \in N
  BY EmptySeq
<1>2. ASSUME NEW n \in Nat, n \in N PROVE n + 1 \in N
  <2> SUFFICES ASSUME NEW s \in Seq(C), Len(s) = n + 1 PROVE s \in T
    OBVIOUS
  <2>1. s # <<>> /\ Len(s) # 0
    OBVIOUS
  <2> DEFINE f == [i \in 1 .. n |-> s[i]]
  <2>2. f \in Seq(C) /\ Len(f) = n /\ s = Append(f, s[n + 1]) /\ s[n + 1] \in C
    <3>1. \A i \in 1 .. n + 1 : s[i] \in C
      OBVIOUS
    <3>2. f \in Seq(C) /\ Len(f) = n
      BY <3>1
    <3>3. s[n + 1] \in C
      BY <3>1
    <3>4. Append(f, s[n + 1]) \in Seq(C) /\ Len(Append(f, s[n + 1])) = n + 1
      <4> HIDE DEF f
      <4> QED BY <3>2, <3>3
    <3>5. \A i \in 1 .. n + 1 : Append(f, s[n + 1])[i] = s[i]
      <4>1. \A i \in 1 .. n : f[i] = s[i]
        OBVIOUS
      <4> HIDE DEF f
      <4> QED BY <3>2, <3>3, <4>1
    <3> HIDE DEF f
    <3> QED BY <3>2, <3>3, <3>4, <3>5, SeqEqual
  <2>3. f \in T
    BY <1>2, <2>2
  <2> HIDE DEF f
  <2>4. Append(f, s[n + 1]) \in T
    BY <2>2, <2>3
  <2> QED BY <2>2, <2>4
<1>3. Nat \subseteq N
  <2> HIDE DEF N
  <2> QED BY <1>1, <1>2, Induct
<1>4. ASSUME NEW s \in Seq(C) PROVE s \in T
  <2>1. Len(s) \in N
    BY <1>3, LenProperties
  <2> QED BY <2>1
<1> QED BY <1>4

\* Where the elements of a joined sequence come from.
LEMMA ConcatAt ==
  ASSUME NEW C, NEW s \in Seq(C), NEW t \in Seq(C)
  PROVE  /\ Len(s \o t) = Len(s) + Len(t)
         /\ \A i \in 1 .. Len(s) : (s \o t)[i] = s[i]
         /\ \A i \in 1 .. Len(t) : (s \o t)[Len(s) + i] = t[i]
<1> DEFINE x == s \o t
           n == Len(s)
           k == Len(t)
<1>1. n \in Nat /\ k \in Nat
  OBVIOUS
<1>2. Len(x) = n + k /\ \A i \in 1 .. n + k : x[i] = IF i <= n THEN s[i] ELSE t[i - n]
  BY ConcatProperties
<1> HIDE DEF x, n, k
<1>3. ASSUME NEW i \in 1 .. k PROVE x[n + i] = t[i]
  <2>1. n + i \in 1 .. n + k /\ ~(n + i <= n) /\ (n + i) - n = i
    BY <1>1
  <2> QED BY <1>2, <2>1
<1>4. \A i \in 1 .. n : x[i] = s[i]
  BY <1>1, <1>2
<1> QED BY <1>2, <1>3, <1>4 DEF x, n, k

\* Appending to a joined sequence appends to its end.
LEMMA ConcatAppend ==
  ASSUME NEW C, NEW s \in Seq(C), NEW u \in Seq(C), NEW c \in C
  PROVE  Append(s \o u, c) = s \o Append(u, c)
<1>1. s \o u \in Seq(C) /\ Append(u, c) \in Seq(C) /\ Append(s \o u, c) \in Seq(C)
      /\ s \o Append(u, c) \in Seq(C)
  OBVIOUS
<1>2. Len(s \o Append(u, c)) = Len(Append(s \o u, c))
  OBVIOUS
<1>3. \A i \in 1 .. Len(s \o Append(u, c)) : (s \o Append(u, c))[i] = Append(s \o u, c)[i]
  OBVIOUS
<1> QED BY <1>1, <1>2, <1>3, SeqEqual

-----------------------------------------------------------------------------
\* The left fold of a sequence with the step h from the value b, and the values it goes
\* through.
FoldFns(V, C) == [V \X C -> V]
Folds(g, V, h, b, s) ==
  g \in [0 .. Len(s) -> V] /\ g[0] = b /\ \A i \in 1 .. Len(s) : g[i] = h[<<g[i - 1], s[i]>>]
Fold(h, b, s) == LET f[i \in 0 .. Len(s)] == IF i = 0 THEN b ELSE h[<<f[i - 1], s[i]>>] IN f[Len(s)]

\* There are such values.
LEMMA FoldsExist ==
  ASSUME NEW V, NEW C, NEW h \in FoldFns(V, C), NEW b \in V, NEW s \in Seq(C)
  PROVE  \E g : Folds(g, V, h, b, s)
<1> DEFINE n == Len(s)
           k == [p \in (1 .. n) \X V |-> h[<<p[2], s[p[1]]>>]]
<1>1. n \in Nat /\ \A i \in 1 .. n : s[i] \in C
  BY ElementOfSeq
<1>2. \A x \in V, c \in C : h[<<x, c>>] \in V
  BY DEF FoldFns
<1>3. k \in [(1 .. n) \X V -> V]
  <2> HIDE DEF n
  <2>1. ASSUME NEW p \in (1 .. n) \X V PROVE h[<<p[2], s[p[1]]>>] \in V
    <3>1. p[1] \in 1 .. n /\ p[2] \in V
      OBVIOUS
    <3> QED BY <1>1, <1>2, <3>1, Zenon
  <2> QED BY <2>1
<1>4. \A i \in 1 .. n, x \in V : k[<<i, x>>] = h[<<x, s[i]>>]
  <2> HIDE DEF n
  <2> QED OBVIOUS
<1> HIDE DEF k, n
<1>5. k \in Steps(n, V)
  BY <1>3, Zenon DEF Steps
<1>6. PICK g : Recurs(g, V, n, b, k)
  BY <1>1, <1>5, Recursion, Zenon
<1>7. g \in [0 .. n -> V] /\ g[0] = b /\ \A i \in 1 .. n : g[i] = k[<<i, g[i - 1]>>]
  BY <1>6, Zenon DEF Recurs
<1>8. ASSUME NEW i \in 1 .. n PROVE g[i] = h[<<g[i - 1], s[i]>>]
  <2>1. i - 1 \in 0 .. n
    BY <1>1
  <2>2. g[i - 1] \in V
    BY <1>7, <2>1
  <2> QED BY <1>4, <1>7, <2>2, Zenon
<1>9. Folds(g, V, h, b, s)
  BY <1>7, <1>8, Zenon DEF Folds, n
<1> QED BY <1>9

\* What agrees with h from b on, along values of V, is the fold at every place where
\* the sequences still agree.
LEMMA FoldsAgree ==
  ASSUME NEW V, NEW C, NEW h \in FoldFns(V, C), NEW b \in V, NEW s \in Seq(C), NEW t \in Seq(C),
         NEW g, Folds(g, V, h, b, s), NEW n \in Nat, n <= Len(s), n <= Len(t),
         \A i \in 1 .. n : s[i] = t[i],
         NEW k, k[0] = b, \A i \in 1 .. n : k[i - 1] \in V => k[i] = h[<<k[i - 1], t[i]>>]
  PROVE  \A i \in 0 .. n : k[i] = g[i]
<1> DEFINE T == {i \in 0 .. n : k[i] = g[i]}
<1>1. Len(s) \in Nat /\ g \in [0 .. Len(s) -> V] /\ g[0] = b
      /\ \A i \in 1 .. Len(s) : g[i] = h[<<g[i - 1], s[i]>>]
  BY DEF Folds
<1>2. 0 \in T
  BY <1>1
<1>3. ASSUME NEW j \in 0 .. n - 1, j \in T PROVE j + 1 \in T
  <2> DEFINE i == j + 1
  <2>1. i \in 1 .. n /\ i \in 1 .. Len(s) /\ i \in 0 .. n /\ i - 1 = j /\ j \in 0 .. Len(s)
    BY <1>1
  <2>2. k[i - 1] = g[i - 1] /\ g[i - 1] \in V
    BY <1>1, <1>3, <2>1
  <2> HIDE DEF i
  <2>3. g[i] = h[<<g[i - 1], s[i]>>] /\ k[i] = h[<<k[i - 1], t[i]>>] /\ s[i] = t[i]
    BY <1>1, <2>1, <2>2, Zenon
  <2>4. k[i] = g[i]
    BY <2>2, <2>3, Zenon
  <2> QED BY <2>1, <2>4 DEF i
<1>4. 0 .. n \subseteq T
  <2> HIDE DEF T
  <2> QED BY <1>2, <1>3, UpTo
<1> QED BY <1>4

\* The fold is the last of them.
LEMMA FoldIs ==
  ASSUME NEW V, NEW C, NEW h \in FoldFns(V, C), NEW b \in V, NEW s \in Seq(C),
         NEW g, Folds(g, V, h, b, s)
  PROVE  Fold(h, b, s) = g[Len(s)]
<1> DEFINE n == Len(s)
           Is(F) == F = [i \in 0 .. n |-> IF i = 0 THEN b ELSE h[<<F[i - 1], s[i]>>]]
           F == CHOOSE G : Is(G)
<1>1. n \in Nat /\ g \in [0 .. n -> V] /\ g[0] = b /\ \A i \in 1 .. n : g[i] = h[<<g[i - 1], s[i]>>]
  BY DEF Folds
<1>2. Is(g)
  <2>1. g = [i \in 0 .. n |-> g[i]]
    BY <1>1
  <2>2. \A i \in 0 .. n : g[i] = IF i = 0 THEN b ELSE h[<<g[i - 1], s[i]>>]
    <3> HIDE DEF n
    <3>1. \A i \in 0 .. n : i = 0 \/ i \in 1 .. n
      BY <1>1
    <3>2. \A i \in 1 .. n : i # 0
      OBVIOUS
    <3> QED BY <1>1, <3>1, <3>2, Zenon
  <2> HIDE DEF n
  <2> QED BY <2>1, <2>2
<1>3. Is(F)
  <2> HIDE DEF Is
  <2> QED BY <1>2, Zenon
<1>4. Fold(h, b, s) = F[n]
  BY Zenon DEF Fold
<1>5. F[0] = b /\ \A i \in 1 .. n : F[i - 1] \in V => F[i] = h[<<F[i - 1], s[i]>>]
  <2>1. F = [i \in 0 .. n |-> IF i = 0 THEN b ELSE h[<<F[i - 1], s[i]>>]]
    BY <1>3, Zenon
  <2> HIDE DEF F, n
  <2>2. F[0] = b
    BY <1>1, <2>1
  <2>3. ASSUME NEW i \in 1 .. n PROVE F[i] = h[<<F[i - 1], s[i]>>]
    BY <1>1, <2>1
  <2> QED BY <2>2, <2>3, Zenon
<1> HIDE DEF F, Is
<1>6. \A i \in 0 .. n : F[i] = g[i]
  <2>1. n <= Len(s)
    BY <1>1
  <2> QED BY <1>1, <1>5, <2>1, FoldsAgree
<1>7. n \in 0 .. n
  BY <1>1
<1> QED BY <1>4, <1>6, <1>7, Zenon

\* A recursive function that steps with h computes the fold.
LEMMA FoldUnfold ==
  ASSUME NEW V, NEW C, NEW h \in FoldFns(V, C), NEW b \in V, NEW s \in Seq(C),
         NEW k, k[0] = b, \A i \in 1 .. Len(s) : k[i - 1] \in V => k[i] = h[<<k[i - 1], s[i]>>]
  PROVE  k[Len(s)] = Fold(h, b, s)
<1>1. PICK g : Folds(g, V, h, b, s)
  BY FoldsExist, Zenon
<1>2. Len(s) \in Nat /\ Len(s) <= Len(s) /\ Len(s) \in 0 .. Len(s)
  OBVIOUS
<1>3. \A i \in 0 .. Len(s) : k[i] = g[i]
  BY <1>1, <1>2, FoldsAgree
<1> QED BY <1>1, <1>2, <1>3, FoldIs

\* A fold is a value,
LEMMA FoldTyped ==
  ASSUME NEW V, NEW C, NEW h \in FoldFns(V, C), NEW b \in V, NEW s \in Seq(C)
  PROVE  Fold(h, b, s) \in V
<1>1. PICK g : Folds(g, V, h, b, s)
  BY FoldsExist, Zenon
<1>2. Len(s) \in 0 .. Len(s)
  OBVIOUS
<1>3. g[Len(s)] \in V
  BY <1>1, <1>2 DEF Folds
<1> QED BY <1>1, <1>3, FoldIs

\* of nothing the first one;
LEMMA FoldEmpty ==
  ASSUME NEW V, NEW C, NEW h \in FoldFns(V, C), NEW b \in V
  PROVE  Fold(h, b, <<>>) = b
<1>1. <<>> \in Seq(C) /\ Len(<<>>) = 0
  OBVIOUS
<1>2. PICK g : Folds(g, V, h, b, <<>>)
  BY <1>1, FoldsExist, Zenon
<1>3. Fold(h, b, <<>>) = g[Len(<<>>)]
  BY <1>1, <1>2, FoldIs, ZenonT(40)
<1>4. g[0] = b
  BY <1>2 DEF Folds
<1> QED BY <1>1, <1>3, <1>4, Zenon

\* one element more takes one step more,
LEMMA FoldAppend ==
  ASSUME NEW V, NEW C, NEW h \in FoldFns(V, C), NEW b \in V, NEW s \in Seq(C), NEW c \in C
  PROVE  Fold(h, b, Append(s, c)) = h[<<Fold(h, b, s), c>>]
<1> DEFINE t == Append(s, c)
           n == Len(s)
<1>1. t \in Seq(C) /\ Len(t) = n + 1 /\ n \in Nat /\ t[n + 1] = c /\ \A i \in 1 .. n : t[i] = s[i]
  OBVIOUS
<1> HIDE DEF t, n
<1>2. PICK g : Folds(g, V, h, b, t)
  BY <1>1, FoldsExist, Zenon
<1>3. Fold(h, b, t) = g[n + 1]
  BY <1>1, <1>2, FoldIs
<1>4. /\ \A i \in 1 .. n : g[i] = h[<<g[i - 1], s[i]>>]
      /\ g[n + 1] = h[<<g[n], c>>] /\ g[0] = b
  <2>1. g[0] = b /\ \A i \in 1 .. n + 1 : g[i] = h[<<g[i - 1], t[i]>>]
    BY <1>1, <1>2 DEF Folds
  <2>2. n + 1 \in 1 .. n + 1 /\ (n + 1) - 1 = n /\ \A i \in 1 .. n : i \in 1 .. n + 1
    BY <1>1
  <2>3. g[n + 1] = h[<<g[n], c>>]
    BY <1>1, <2>1, <2>2
  <2>4. \A i \in 1 .. n : g[i] = h[<<g[i - 1], s[i]>>]
    BY <1>1, <2>1, <2>2, Zenon
  <2> QED BY <2>1, <2>3, <2>4
<1>5. g[n] = Fold(h, b, s)
  BY <1>4, FoldUnfold DEF n
<1> QED BY <1>3, <1>4, <1>5, Zenon DEF t

\* and a sequence behind another goes on where that ended.
LEMMA FoldConcat ==
  ASSUME NEW V, NEW C, NEW h \in FoldFns(V, C), NEW b \in V, NEW s \in Seq(C), NEW t \in Seq(C)
  PROVE  Fold(h, b, s \o t) = Fold(h, Fold(h, b, s), t)
<1> DEFINE x == Fold(h, b, s)
           T == {u \in Seq(C) : Fold(h, b, s \o u) = Fold(h, x, u)}
<1>1. x \in V
  BY FoldTyped, Zenon
<1>2. <<>> \in T
  <2>1. s \o <<>> = s /\ <<>> \in Seq(C)
    BY ConcatEmptySeq
  <2>2. Fold(h, x, <<>>) = x
    <3> HIDE DEF x
    <3> QED BY <1>1, FoldEmpty, Zenon
  <2> QED BY <2>1, <2>2
<1>3. ASSUME NEW u \in Seq(C), NEW c \in C, u \in T PROVE Append(u, c) \in T
  <2>1. s \o u \in Seq(C) /\ Append(u, c) \in Seq(C) /\ s \o Append(u, c) = Append(s \o u, c)
    BY ConcatAppend, ConcatProperties, AppendProperties
  <2>2. Fold(h, b, Append(s \o u, c)) = h[<<Fold(h, b, s \o u), c>>]
    <3> DEFINE w == s \o u
    <3>1. w \in Seq(C)
      BY <2>1
    <3> HIDE DEF w
    <3>2. Fold(h, b, Append(w, c)) = h[<<Fold(h, b, w), c>>]
      BY <3>1, FoldAppend
    <3> QED BY <3>2, Zenon DEF w
  <2>3. Fold(h, x, Append(u, c)) = h[<<Fold(h, x, u), c>>]
    <3> HIDE DEF x
    <3> QED BY <1>1, FoldAppend
  <2>4. Fold(h, b, s \o u) = Fold(h, x, u)
    BY <1>3
  <2> HIDE DEF x
  <2> QED BY <2>1, <2>2, <2>3, <2>4
<1>4. Seq(C) \subseteq T
  <2> HIDE DEF T
  <2> QED BY <1>2, <1>3, SeqInduct
<1> QED BY <1>4

-----------------------------------------------------------------------------
\* Sequences of numbers, joined and cut.

LEMMA JoinsAgain ==
  ASSUME NEW s \in Seq(Int), NEW t \in Seq(Int), NEW u \in Seq(Int)
  PROVE  (s \o t) \o u = s \o (t \o u)
BY ConcatAssociative, SMTT(20)

LEMMA JoinTyped == ASSUME NEW s \in Seq(Int), NEW t \in Seq(Int) PROVE s \o t \in Seq(Int)
BY ConcatProperties

LEMMA TwoAre == ASSUME NEW x \in Int, NEW y \in Int PROVE <<x>> \o <<y>> = <<x, y>>
<1> DEFINE s == <<x>>
           t == <<y>>
           u == <<x, y>>
<1>1. s \in Seq(Int) /\ t \in Seq(Int) /\ Len(s) = 1 /\ Len(t) = 1 /\ s[1] = x /\ t[1] = y
  OBVIOUS
<1>2. u \in Seq(Int) /\ Len(u) = 2 /\ u[1] = x /\ u[2] = y
  OBVIOUS
<1> HIDE DEF s, t, u
<1>3. s \in Seq(Int) /\ t \in Seq(Int)
  BY <1>1
<1>4. s \o t \in Seq(Int) /\ Len(s \o t) = Len(s) + Len(t) /\ (s \o t)[1] = s[1] /\ (s \o t)[Len(s) + 1] = t[1]
  <2>1. 1 \in 1 .. Len(s) /\ 1 \in 1 .. Len(t)
    BY <1>1
  <2> QED BY <1>3, <2>1, ConcatAt, ConcatProperties
<1>5. Len(s \o t) = Len(u) /\ \A i \in 1 .. Len(s \o t) : (s \o t)[i] = u[i]
  BY <1>1, <1>2, <1>4
<1>6. s \o t = u
  <2>1. s \o t \in Seq(Int) /\ u \in Seq(Int)
    BY <1>2, <1>4
  <2> QED BY <1>5, <2>1, SeqEqual
<1> QED BY <1>6 DEF s, t, u

LEMMA Joined ==
  ASSUME NEW x, NEW y, NEW z
  PROVE  <<>> \o <<x, y>> = <<x, y>> /\ <<z>> \o <<x, y>> = <<z, x, y>>
<1> DEFINE S == {x, y, z}
           s == <<z>>
           t == <<x, y>>
           u == <<z, x, y>>
<1>1. /\ s \in Seq(S) /\ Len(s) = 1 /\ s[1] = z
      /\ t \in Seq(S) /\ Len(t) = 2 /\ t[1] = x /\ t[2] = y
      /\ u \in Seq(S) /\ Len(u) = 3 /\ u[1] = z /\ u[2] = x /\ u[3] = y
  OBVIOUS
<1> HIDE DEF s, t, u, S
<1>2. <<>> \o t = t
  BY <1>1, ConcatEmptySeq
<1>3. /\ s \o t \in Seq(S) /\ Len(s \o t) = Len(s) + Len(t)
      /\ \A i \in 1 .. Len(s) : (s \o t)[i] = s[i]
      /\ \A i \in 1 .. Len(t) : (s \o t)[Len(s) + i] = t[i]
  <2>1. s \in Seq(S) /\ t \in Seq(S)
    BY <1>1, Zenon
  <2> QED BY <2>1, ConcatAt, ConcatProperties
<1>4. Len(s \o t) = Len(u) /\ \A i \in 1 .. Len(s \o t) : (s \o t)[i] = u[i]
  <2>1. Len(s) + Len(t) = 3 /\ 1 \in 1 .. Len(s) /\ 1 \in 1 .. Len(t) /\ 2 \in 1 .. Len(t)
        /\ Len(s) + 1 = 2 /\ Len(s) + 2 = 3
    BY <1>1
  <2>2. (s \o t)[1] = u[1] /\ (s \o t)[2] = u[2] /\ (s \o t)[3] = u[3]
    BY <1>1, <1>3, <2>1, Zenon
  <2>3. \A i \in 1 .. 3 : i = 1 \/ i = 2 \/ i = 3
    OBVIOUS
  <2> QED BY <1>1, <1>3, <2>1, <2>2, <2>3, Zenon
<1>5. s \o t = u
  <2>1. s \o t \in Seq(S) /\ u \in Seq(S)
    BY <1>1, <1>3, Zenon
  <2> QED BY <1>4, <2>1, SeqEqual
<1> QED BY <1>2, <1>5 DEF s, t, u

\* Elements of three sequences joined.
LEMMA ThreeAt ==
  ASSUME NEW s \in Seq(Int), NEW t \in Seq(Int), NEW u \in Seq(Int)
  PROVE  LET a == (s \o t) \o u IN
         /\ a \in Seq(Int) /\ Len(a) = Len(s) + Len(t) + Len(u)
         /\ \A i \in 1 .. Len(s) : a[i] = s[i]
         /\ \A i \in 1 .. Len(t) : a[Len(s) + i] = t[i]
         /\ \A i \in 1 .. Len(u) : a[Len(s) + Len(t) + i] = u[i]
<1> DEFINE v == s \o t
           a == v \o u
<1>1. v \in Seq(Int) /\ Len(v) = Len(s) + Len(t)
      /\ (\A i \in 1 .. Len(s) : v[i] = s[i]) /\ \A i \in 1 .. Len(t) : v[Len(s) + i] = t[i]
  BY ConcatAt, ConcatProperties
<1> HIDE DEF v
<1>2. v \in Seq(Int)
  BY <1>1
<1>3. a \in Seq(Int) /\ Len(a) = Len(v) + Len(u)
      /\ (\A i \in 1 .. Len(v) : a[i] = v[i]) /\ \A i \in 1 .. Len(u) : a[Len(v) + i] = u[i]
  BY <1>2, ConcatAt, ConcatProperties
<1> DEFINE n == Len(s)
           m == Len(t)
<1>4. n \in Nat /\ m \in Nat
  OBVIOUS
<1> HIDE DEF a, n, m
<1>5. ASSUME NEW i \in 1 .. n PROVE a[i] = v[i]
  <2>1. i \in 1 .. n + m
    BY <1>4
  <2> QED BY <1>1, <1>3, <2>1, Zenon DEF n, m
<1>6. ASSUME NEW i \in 1 .. m PROVE a[n + i] = v[n + i]
  <2>1. n + i \in 1 .. n + m
    BY <1>4
  <2> QED BY <1>1, <1>3, <2>1, Zenon DEF n, m
<1>7. \A i \in 1 .. n : a[i] = s[i]
  BY <1>1, <1>5, Zenon DEF n
<1>8. \A i \in 1 .. m : a[n + i] = t[i]
  BY <1>1, <1>6, Zenon DEF n, m
<1>9. a \in Seq(Int) /\ Len(a) = n + m + Len(u) /\ \A i \in 1 .. Len(u) : a[n + m + i] = u[i]
  BY <1>1, <1>3, Zenon DEF n, m
<1> QED BY <1>7, <1>8, <1>9, Zenon DEF a, n, m, v

\* A part of a sequence is known by its elements.
LEMMA CutsOut ==
  ASSUME NEW b \in Seq(Int), NEW s \in Seq(Int), NEW o \in Nat, o + Len(s) <= Len(b),
         \A j \in 1 .. Len(s) : b[o + j] = s[j]
  PROVE  SubSeq(b, o + 1, o + Len(s)) = s
<1> DEFINE n == Len(s)
           x == SubSeq(b, o + 1, o + n)
<1>1. n \in Nat /\ Len(b) \in Nat
  OBVIOUS
<1>2. o + 1 \in Int /\ o + n \in Int /\ \A i \in o + 1 .. o + n : b[i] \in Int
  BY <1>1
<1>3. x \in Seq(Int) /\ Len(x) = (IF o + 1 <= o + n THEN (o + n) - (o + 1) + 1 ELSE 0)
      /\ \A i \in 1 .. (o + n) - (o + 1) + 1 : x[i] = b[(o + 1) + i - 1]
  <2> HIDE DEF n
  <2> QED BY <1>2, SubSeqProperties
<1> HIDE DEF n, x
<1>4. Len(x) = n
  BY <1>1, <1>3
<1>5. ASSUME NEW i \in 1 .. n PROVE x[i] = s[i]
  <2>1. i \in 1 .. (o + n) - (o + 1) + 1 /\ (o + 1) + i - 1 = o + i
    BY <1>1
  <2> QED BY <1>3, <2>1, Zenon DEF n
<1>6. x = s
  <2>1. x \in Seq(Int) /\ Len(x) = Len(s)
    BY <1>3, <1>4 DEF n
  <2>2. \A i \in 1 .. Len(x) : x[i] = s[i]
    BY <1>4, <1>5
  <2> QED BY <2>1, <2>2, SeqEqual
<1> QED BY <1>6 DEF x, n

\* A function on 1 .. n is a sequence.
LEMMA IsSequence ==
  ASSUME NEW S, NEW n \in Nat, NEW f \in [1 .. n -> S]
  PROVE  f \in Seq(S) /\ Len(f) = n
OBVIOUS

\* A set of indices has a first and a last one.
LEMMA FirstIs ==
  ASSUME NEW T, NEW x \in T, T \subseteq Int, \A y \in T : x <= y
  PROVE  (CHOOSE k \in T : \A l \in T : k <= l) = x
<1> DEFINE Is(k) == k \in T /\ \A l \in T : k <= l
           m == CHOOSE k : Is(k)
<1>1. Is(x)
  OBVIOUS
<1> HIDE DEF Is
<1>2. Is(m)
  BY <1>1, Zenon
<1> HIDE DEF m
<1>3. m \in Int /\ x \in Int /\ m <= x /\ x <= m
  BY <1>1, <1>2 DEF Is
<1>4. m = x
  BY <1>3
<1> QED BY <1>4, Zenon DEF m, Is

LEMMA LastIs ==
  ASSUME NEW T, NEW x \in T, T \subseteq Int, \A y \in T : y <= x
  PROVE  (CHOOSE k \in T : \A l \in T : l <= k) = x
<1> DEFINE Is(k) == k \in T /\ \A l \in T : l <= k
           m == CHOOSE k : Is(k)
<1>1. Is(x)
  OBVIOUS
<1> HIDE DEF Is
<1>2. Is(m)
  BY <1>1, Zenon
<1> HIDE DEF m
<1>3. m \in Int /\ x \in Int /\ m <= x /\ x <= m
  BY <1>1, <1>2 DEF Is
<1>4. m = x
  BY <1>3
<1> QED BY <1>4, Zenon DEF m, Is

LEMMA LastExists ==
  ASSUME NEW n \in Nat, NEW T \in SUBSET (1 .. n), T # {}
  PROVE  \E x \in T : \A y \in T : y <= x
<1> DEFINE U == {n - y : y \in T}
<1>1. U \in SUBSET Nat /\ U # {}
  <2>1. \A y \in T : n - y \in Nat
    OBVIOUS
  <2> QED BY <2>1, Zenon
<1>2. PICK u \in U : \A v \in U : u <= v
  BY <1>1, Smallest
<1>3. PICK x \in T : u = n - x
  BY <1>2
<1>4. ASSUME NEW y \in T PROVE y <= x
  <2>1. n - y \in U
    OBVIOUS
  <2>2. n - x <= n - y
    BY <1>2, <1>3, <2>1, Zenon
  <2>3. x \in Int /\ y \in Int
    OBVIOUS
  <2> QED BY <2>2, <2>3
<1> QED BY <1>4
=============================================================================
