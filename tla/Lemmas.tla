-------------------------------- MODULE Lemmas --------------------------------
(***************************************************************************)
(* Facts about numbers, functions and sequences that several proofs need:  *)
(* induction, least elements, that a recursive function exists.            *)
(***************************************************************************)
EXTENDS Integers, SequencesExt, FiniteSetsExt, SequenceTheorems, WellFoundedInduction, TLAPS

\* Induction, for a set instead of a predicate.
LEMMA Induct ==
  ASSUME NEW S, 0 \in S, \A n \in Nat : n \in S => n + 1 \in S
  PROVE  \A n \in Nat : n \in S
  <1> DEFINE T == {n \in Nat : n \notin S}
  <1> SUFFICES ASSUME T # {} PROVE FALSE
    OBVIOUS
  <1>1. PICK x \in T : \A y \in T : ~ (<<y, x>> \in OpToRel(<, Nat))
    <2> HIDE DEF T
    <2>1. T \subseteq Nat BY DEF T
    <2> QED BY <2>1, NatLessThanWellFounded, WFMin
  <1>2. x # 0 /\ x - 1 \in Nat
    OBVIOUS
  <1>3. <<x - 1, x>> \in OpToRel(<, Nat)
    BY <1>2 DEF OpToRel
  <1>4. x - 1 \in S
    BY <1>1, <1>2, <1>3
  <1> QED BY <1>2, <1>4

\* A set of numbers has a least one.
LEMMA LeastIn ==
  ASSUME NEW S, S # {}, S \subseteq Nat
  PROVE  Min(S) \in S /\ \A y \in S : Min(S) <= y
  <1>1. PICK x \in S : \A y \in S : ~ (<<y, x>> \in OpToRel(<, Nat))
    BY NatLessThanWellFounded, WFMin
  <1>2. ASSUME NEW y \in S PROVE x <= y
    <2>1. x \in Nat /\ y \in Nat OBVIOUS
    <2>2. ~ (y < x) BY <1>1, <2>1 DEF OpToRel
    <2> QED BY <2>1, <2>2
  <1> QED BY <1>2 DEF Min

LEMMA LeastIs ==
  ASSUME NEW S, S \subseteq Int, NEW m \in S, \A y \in S : m <= y
  PROVE  Min(S) = m
  <1>1. Min(S) \in S /\ \A y \in S : Min(S) <= y
    BY DEF Min
  <1>2. PICK n \in S : n = Min(S) BY <1>1
  <1>3. n \in Int /\ m \in Int /\ n <= m /\ m <= n BY <1>1, <1>2
  <1> QED BY <1>2, <1>3

\* What a recursive function over 0..N is, if each value comes from the one
\* before it.
Goes(f, N, v, step) == f[0] = v /\ \A j \in 1..N : f[j] = step[<<j, f[j - 1]>>]
StaysIn(V, N, step) == \A j \in 1..N : \A w \in V : step[<<j, w>>] \in V

LEMMA Recursion ==
  ASSUME NEW V, NEW v \in V, NEW N \in Nat, NEW step, StaysIn(V, N, step)
  PROVE  \E f \in [0..N -> V] : Goes(f, N, v, step)
  <1> DEFINE Is(f, n) == f[0] = v /\ \A j \in 1..n : f[j] = step[<<j, f[j - 1]>>]
             S == {n \in Nat : n <= N => \E f \in [0..n -> V] : Is(f, n)}
  <1>1. 0 \in S
    <2>1. [j \in 0..0 |-> v] \in [0..0 -> V] /\ Is([j \in 0..0 |-> v], 0) OBVIOUS
    <2> HIDE DEF Is
    <2> QED BY <2>1
  <1>2. ASSUME NEW n \in Nat, n \in S PROVE n + 1 \in S
    <2> SUFFICES ASSUME n + 1 <= N PROVE \E f \in [0..(n + 1) -> V] : Is(f, n + 1)
      OBVIOUS
    <2>1. PICK f \in [0..n -> V] : Is(f, n)
      <3> HIDE DEF Is
      <3> QED BY <1>2
    <2> DEFINE w == step[<<n + 1, f[n]>>]
               g == [j \in 0..(n + 1) |-> IF j = n + 1 THEN w ELSE f[j]]
    <2>2. w \in V
      <3>1. f[n] \in V /\ n + 1 \in 1..N OBVIOUS
      <3> QED BY <3>1 DEF StaysIn
    <2>3. g \in [0..(n + 1) -> V]
      <3> HIDE DEF w
      <3>1. ASSUME NEW j \in 0..(n + 1), j # n + 1 PROVE f[j] \in V
        <4>1. j \in 0..n BY <3>1
        <4> QED BY <4>1
      <3> QED BY <2>2, <3>1
    <2>4. g[n + 1] = w /\ \A j \in 0..n : g[j] = f[j]
      <3> HIDE DEF w
      <3> QED OBVIOUS
    <2> HIDE DEF g
    <2>5. Is(g, n + 1)
      <3>1. g[0] = v BY <2>1, <2>4
      <3>2. ASSUME NEW j \in 1..(n + 1) PROVE g[j] = step[<<j, g[j - 1]>>]
        <4>1. CASE j = n + 1
          <5>1. j - 1 = n /\ n \in 0..n BY <4>1
          <5>2. g[j - 1] = f[n] BY <5>1, <2>4
          <5> QED BY <4>1, <5>2, <2>4
        <4>2. CASE j # n + 1
          <5>1. j \in 1..n /\ j \in 0..n /\ j - 1 \in 0..n BY <4>2
          <5> QED BY <5>1, <2>1, <2>4
        <4> QED BY <4>1, <4>2
      <3> QED BY <3>1, <3>2
    <2> HIDE DEF Is
    <2> QED BY <2>3, <2>5
  <1>3. \A n \in Nat : n \in S
    <2> HIDE DEF S
    <2> QED BY <1>1, <1>2, Induct
  <1>4. PICK f \in [0..N -> V] : Is(f, N)
    <2> HIDE DEF Is
    <2> QED BY <1>3
  <1> QED BY <1>4 DEF Goes

\* What holds at the start and is kept by every step of a loop.
LEMMA Through ==
  ASSUME NEW N \in Nat, NEW S, 0 \in S, \A k \in 1..N : k - 1 \in S => k \in S
  PROVE  \A k \in 0..N : k \in S
  <1> DEFINE T == {k \in Nat : k <= N => k \in S}
  <1>1. 0 \in T OBVIOUS
  <1>2. ASSUME NEW k \in Nat, k \in T PROVE k + 1 \in T
    <2> SUFFICES ASSUME k + 1 <= N PROVE k + 1 \in S OBVIOUS
    <2>1. k \in S /\ k + 1 \in 1..N /\ (k + 1) - 1 = k BY <1>2
    <2> QED BY <2>1
  <1>3. \A k \in Nat : k \in T
    <2> HIDE DEF T
    <2> QED BY <1>1, <1>2, Induct
  <1> QED BY <1>3

\* A recursive function over the numbers, if each value comes from the one
\* before it.
GoesOn(f, v, next) == f[0] = v /\ \A n \in Nat : f[n + 1] = next[f[n]]

LEMMA RecursionOn ==
  ASSUME NEW A, NEW v \in A, NEW next \in [A -> A]
  PROVE  \E f \in [Nat -> A] : GoesOn(f, v, next)
  <1> DEFINE Is(f, n) == f \in [0..n -> A] /\ f[0] = v
                         /\ \A j \in 1..n : f[j] = next[f[j - 1]]
             F(n) == CHOOSE f : Is(f, n)
             g == [n \in Nat |-> F(n)[n]]
  <1>1. ASSUME NEW n \in Nat PROVE \E f : Is(f, n)
    <2> DEFINE step == [p \in (1..n) \X A |-> next[p[2]]]
    <2>1. StaysIn(A, n, step) BY DEF StaysIn
    <2>2. \A j \in 1..n, w \in A : step[<<j, w>>] = next[w] OBVIOUS
    <2> HIDE DEF step
    <2>3. PICK f \in [0..n -> A] : Goes(f, n, v, step) BY <2>1, Recursion
    <2>4. ASSUME NEW j \in 1..n PROVE f[j] = next[f[j - 1]]
      <3>1. f[j - 1] \in A
        <4>1. j - 1 \in 0..n OBVIOUS
        <4> QED BY <4>1
      <3> QED BY <3>1, <2>2, <2>3 DEF Goes
    <2>5. f[0] = v BY <2>3 DEF Goes
    <2> QED BY <2>4, <2>5
  <1>2. ASSUME NEW n \in Nat PROVE Is(F(n), n)
    <2> HIDE DEF Is
    <2> QED BY <1>1
  <1>3. ASSUME NEW n \in Nat PROVE F(n + 1)[n] = F(n)[n]
    <2> DEFINE a == F(n)
               b == F(n + 1)
               S == {j \in Nat : j <= n => a[j] = b[j]}
    <2>1. Is(a, n) /\ Is(b, n + 1)
      <3> HIDE DEF Is, F
      <3> QED BY <1>2
    <2> HIDE DEF a, b
    <2>2. 0 \in S BY <2>1
    <2>3. ASSUME NEW j \in Nat, j \in S PROVE j + 1 \in S
      <3> SUFFICES ASSUME j + 1 <= n PROVE a[j + 1] = b[j + 1]
        OBVIOUS
      <3>1. PICK i \in 1..n : i = j + 1 OBVIOUS
      <3>2. i - 1 = j /\ i \in 1..(n + 1) /\ a[j] = b[j] BY <3>1, <2>3
      <3>3. a[i] = next[a[j]] /\ b[i] = next[b[j]] BY <3>2, <2>1
      <3> QED BY <3>1, <3>2, <3>3
    <2>4. \A j \in Nat : j \in S
      <3> HIDE DEF S
      <3> QED BY <2>2, <2>3, Induct
    <2>5. a[n] = b[n] BY <2>4
    <2> QED BY <2>5 DEF a, b
  <1>4. g[0] = v
    <2>1. Is(F(0), 0) BY <1>2
    <2> HIDE DEF F
    <2> QED BY <2>1
  <1>5. ASSUME NEW n \in Nat PROVE g[n + 1] = next[g[n]]
    <2>1. F(n + 1)[n + 1] = next[F(n + 1)[n]]
      <3>0. n + 1 \in Nat OBVIOUS
      <3>1. Is(F(n + 1), n + 1)
        <4> HIDE DEF Is, F
        <4> QED BY <3>0, <1>2
      <3> HIDE DEF F
      <3>2. n + 1 \in 1..(n + 1) /\ (n + 1) - 1 = n OBVIOUS
      <3> QED BY <3>1, <3>2
    <2>2. g[n + 1] = F(n + 1)[n + 1] /\ g[n] = F(n)[n]
      <3> HIDE DEF F
      <3> QED OBVIOUS
    <2> HIDE DEF F, g
    <2> QED BY <2>1, <2>2, <1>3
  <1>6. g \in [Nat -> A]
    <2>1. ASSUME NEW n \in Nat PROVE F(n)[n] \in A
      <3>1. Is(F(n), n) BY <1>2
      <3> HIDE DEF F
      <3>2. n \in 0..n OBVIOUS
      <3> QED BY <3>1, <3>2
    <2> HIDE DEF F
    <2> QED BY <2>1
  <1> HIDE DEF g
  <1> QED BY <1>4, <1>5, <1>6 DEF GoesOn

\* The first and the last of a sequence that is not empty.
LEMMA FrontIs ==
  ASSUME NEW T, NEW s \in Seq(T), s # <<>>
  PROVE  /\ Len(s) \in Nat \ {0} /\ Front(s) \in Seq(T) /\ Len(Front(s)) = Len(s) - 1
         /\ \A i \in 1..(Len(s) - 1) : Front(s)[i] = s[i]
         /\ Last(s) \in T /\ Last(s) = s[Len(s)]
  <1>1. Len(s) \in Nat \ {0} BY EmptySeq
  <1>2. Front(s) = SubSeq(s, 1, Len(s) - 1) BY DEF Front
  <1>3. /\ SubSeq(s, 1, Len(s) - 1) \in Seq(T)
        /\ Len(SubSeq(s, 1, Len(s) - 1)) = Len(s) - 1
        /\ \A i \in 1..(Len(s) - 1) : SubSeq(s, 1, Len(s) - 1)[i] = s[i]
    <2>1. 1 \in 1..Len(s) + 1 /\ Len(s) - 1 \in (1 - 1)..Len(s) BY <1>1
    <2>2. Len(s) - 1 - 1 + 1 = Len(s) - 1 /\ \A i \in 1..(Len(s) - 1) : 1 + i - 1 = i BY <1>1
    <2> QED BY <1>1, <2>1, <2>2
  <1>4. s[Len(s)] \in T BY <1>1
  <1> QED BY <1>1, <1>2, <1>3, <1>4 DEF Last

LEMMA EmptyFunction ==
  /\ DOMAIN <<>> = {}
  /\ \A S, T : \A f \in [S -> T] : S # {} => f # <<>>
  <1>1. DOMAIN <<>> = {}
    <2>1. <<>> \in Seq({}) /\ Len(<<>>) = 0 OBVIOUS
    <2>2. DOMAIN <<>> = 1..0 BY <2>1
    <2> QED BY <2>2
  <1> QED BY <1>1
===============================================================================
