---------------------------- MODULE DijkstraProofs ----------------------------
(***************************************************************************)
(* TLAPS proofs about NodeDijkstra, BiDijkstra and EdgeDijkstra: the       *)
(* searches return the costs of cheapest ways, and what they hand out is   *)
(* such a way, in graphs of any size.                                      *)
(***************************************************************************)
EXTENDS NodeDijkstra, BiDijkstra, EdgeDijkstra, Lemmas, FiniteSetTheorems, TLAPS

-----------------------------------------------------------------------------
(* Ways through a graph. *)

\* The steps between nodes of V.
StepsOf(V, step) == \A s \in step : s.from \in V /\ s.to \in V /\ s.c \in Nat

\* The ways w, and those that go on for one step from one of them.
Longer(step, w) ==
  w \cup {<<z[2].to, z[1][2] + z[2].c>> :
            z \in {y \in w \X step : y[2].from = y[1][1] /\ y[1][2] + y[2].c < Inf}}

\* W[k] are the ways of k steps at most.
AreWays(W, V, step, src, at) ==
  /\ W \in [Nat -> SUBSET (V \X Nat)]
  /\ W[0] = {<<x, at[x]>> : x \in src}
  /\ \A k \in Nat : W[k + 1] = Longer(step, W[k])

\* Longer in terms of its members: a way of w, or one with a last step.
LEMMA LongerIs ==
  ASSUME NEW V, NEW step, StepsOf(V, step), NEW w \in SUBSET (V \X Nat)
  PROVE  /\ Longer(step, w) \in SUBSET (V \X Nat)
         /\ w \subseteq Longer(step, w)
         /\ \A x, c : <<x, c>> \in w => \A s \in step :
              s.from = x /\ c + s.c < Inf => <<s.to, c + s.c>> \in Longer(step, w)
         /\ \A x, c : <<x, c>> \in Longer(step, w) =>
              \/ <<x, c>> \in w
              \/ \E y \in V, b \in Nat, s \in step :
                   <<y, b>> \in w /\ s.from = y /\ s.to = x /\ c = b + s.c /\ c < Inf
  <1> DEFINE Z == {y \in w \X step : y[2].from = y[1][1] /\ y[1][2] + y[2].c < Inf}
  <1>1. ASSUME NEW z \in Z
        PROVE  /\ z[1] \in w /\ z[1] = <<z[1][1], z[1][2]>> /\ z[1][1] \in V /\ z[1][2] \in Nat
               /\ z[2] \in step /\ z[2].from = z[1][1] /\ z[1][2] + z[2].c < Inf
               /\ z[2].to \in V /\ z[2].c \in Nat
    BY DEF StepsOf
  <1>2. Longer(step, w) = w \cup {<<z[2].to, z[1][2] + z[2].c>> : z \in Z} BY DEF Longer
  <1>3. ASSUME NEW x, NEW c, <<x, c>> \in w, NEW s \in step, s.from = x, c + s.c < Inf
        PROVE  <<s.to, c + s.c>> \in Longer(step, w)
    <2>1. <<<<x, c>>, s>> \in Z BY <1>3
    <2>2. <<<<x, c>>, s>>[1][2] = c /\ <<<<x, c>>, s>>[2] = s OBVIOUS
    <2> HIDE DEF Z
    <2> QED BY <2>1, <2>2, <1>2
  <1> HIDE DEF Z
  <1>4. ASSUME NEW z \in Z PROVE <<z[2].to, z[1][2] + z[2].c>> \in V \X Nat
    BY <1>1
  <1>5. Longer(step, w) \in SUBSET (V \X Nat) BY <1>2, <1>4
  <1>6. ASSUME NEW x, NEW c, <<x, c>> \in Longer(step, w), <<x, c>> \notin w
        PROVE  \E y \in V, b \in Nat, s \in step :
                 <<y, b>> \in w /\ s.from = y /\ s.to = x /\ c = b + s.c /\ c < Inf
    <2>1. PICK z \in Z : <<x, c>> = <<z[2].to, z[1][2] + z[2].c>> BY <1>6, <1>2
    <2>2. x = z[2].to /\ c = z[1][2] + z[2].c BY <2>1
    <2>3. PICK y \in V, b \in Nat, s \in step :
            y = z[1][1] /\ b = z[1][2] /\ s = z[2] /\ <<y, b>> = z[1]
      BY <1>1
    <2>4. <<y, b>> \in w /\ s.from = y /\ s.to = x /\ c = b + s.c /\ c < Inf
      BY <2>2, <2>3, <1>1
    <2> QED BY <2>4
  <1> QED BY <1>2, <1>3, <1>5, <1>6

\* The cost of the cheapest of the ways w that end at x.
Lowest(w, x) == Min({v[2] : v \in {y \in w : y[1] = x}} \cup {Inf})

\* The ways of ShortestIn are a function of their number of steps, and ShortestIn
\* takes the cheapest of those with as many steps as there are elements.
LEMMA WaysExist ==
  ASSUME NEW V, NEW step, StepsOf(V, step), NEW src, src \subseteq V,
         NEW at, \A x \in src : at[x] \in Nat
  PROVE  \E W : /\ AreWays(W, V, step, src, at)
                /\ ShortestIn(V, step, src, at)
                     = [x \in V |-> Lowest(W[Cardinality(V)], x)]
  <1> DEFINE A == SUBSET (V \X Nat)
             start == {<<x, at[x]>> : x \in src}
             next == [w \in A |-> Longer(step, w)]
             Is(f) == f = [k \in Nat |->
                             IF k = 0 THEN start
                             ELSE LET w == f[k - 1]
                                  IN w \cup {<<z[2].to, z[1][2] + z[2].c>> :
                                       z \in {y \in w \X step :
                                                y[2].from = y[1][1] /\ y[1][2] + y[2].c < Inf}}]
             W == CHOOSE f : Is(f)
  <1>1. ShortestIn(V, step, src, at)
          = [x \in V |-> Lowest(W[Cardinality(V)], x)]
    BY DEF ShortestIn, Lowest
  <1>2. start \in A OBVIOUS
  <1>3. next \in [A -> A]
    <2>1. \A w \in A : Longer(step, w) \in A BY LongerIs
    <2> HIDE DEF A
    <2> QED BY <2>1
  <1>4. PICK f \in [Nat -> A] : GoesOn(f, start, next)
    <2> HIDE DEF A, start, next
    <2> QED BY <1>2, <1>3, RecursionOn
  <1>5. \A k \in Nat : f[k + 1] = Longer(step, f[k])
    <2> HIDE DEF A
    <2> QED BY <1>4 DEF GoesOn
  <1>6. Is(f)
    <2>1. ASSUME NEW k \in Nat, k # 0 PROVE f[k] = Longer(step, f[k - 1])
      <3>1. PICK j \in Nat : j = k - 1 /\ j + 1 = k BY <2>1
      <3> QED BY <3>1, <1>5
    <2>2. f[0] = start BY <1>4 DEF GoesOn
    <2> HIDE DEF A, start
    <2>3. f = [k \in Nat |-> IF k = 0 THEN start ELSE Longer(step, f[k - 1])]
      BY <2>1, <2>2
    <2> QED BY <2>3 DEF Longer
  <1>7. Is(W)
    <2>1. \E h : Is(h)
      <3> HIDE DEF Is
      <3> QED BY <1>6
    <2> HIDE DEF Is
    <2> QED BY <2>1
  <1> HIDE DEF W
  <1>8. W = [k \in Nat |-> IF k = 0 THEN start ELSE Longer(step, W[k - 1])]
    BY <1>7 DEF Longer
  <1>9. W[0] = start
    <2> HIDE DEF start
    <2> QED BY <1>8
  <1>10. ASSUME NEW k \in Nat PROVE W[k + 1] = Longer(step, W[k])
    <2>1. k + 1 \in Nat /\ k + 1 # 0 /\ (k + 1) - 1 = k OBVIOUS
    <2> HIDE DEF start
    <2> QED BY <2>1, <1>8
  <1> DEFINE S == {k \in Nat : W[k] \in A}
  <1>11. 0 \in S BY <1>2, <1>9
  <1>12. ASSUME NEW k \in Nat, k \in S PROVE k + 1 \in S
    <2>1. Longer(step, W[k]) \in A BY <1>12, LongerIs
    <2> QED BY <2>1, <1>10
  <1>13. \A k \in Nat : k \in S
    <2> HIDE DEF S
    <2> QED BY <1>11, <1>12, Induct
  <1>14. W \in [Nat -> A]
    <2>1. \A k \in Nat : W[k] \in A BY <1>13
    <2>2. W = [k \in Nat |-> W[k]]
      <3> HIDE DEF start
      <3> QED BY <1>8
    <2> HIDE DEF A
    <2> QED BY <2>1, <2>2
  <1> QED BY <1>1, <1>9, <1>10, <1>14 DEF AreWays

\* What ways there are: those of fewer steps, and any way with a step more.
LEMMA WaysGrow ==
  ASSUME NEW V, NEW step, StepsOf(V, step), NEW src, NEW at,
         NEW W, AreWays(W, V, step, src, at)
  PROVE  /\ \A k \in Nat : W[k] \in SUBSET (V \X Nat)
         /\ \A j, k \in Nat : j <= k => W[j] \subseteq W[k]
         /\ \A k \in Nat : \A x, c : <<x, c>> \in W[k] => \A s \in step :
              s.from = x /\ c + s.c < Inf => <<s.to, c + s.c>> \in W[k + 1]
         /\ \A k \in Nat : \A x, c : <<x, c>> \in W[k + 1] =>
              \/ <<x, c>> \in W[k]
              \/ \E y \in V, b \in Nat, s \in step :
                   <<y, b>> \in W[k] /\ s.from = y /\ s.to = x /\ c = b + s.c /\ c < Inf
  <1>1. \A k \in Nat : W[k] \in SUBSET (V \X Nat) BY DEF AreWays
  <1>2. \A k \in Nat : W[k + 1] = Longer(step, W[k]) BY DEF AreWays
  <1>3. ASSUME NEW j \in Nat, NEW k \in Nat, j <= k PROVE W[j] \subseteq W[k]
    <2> DEFINE S == {n \in Nat : j <= n => W[j] \subseteq W[n]}
    <2>1. 0 \in S
      <3>1. j <= 0 => j = 0 OBVIOUS
      <3> QED BY <3>1
    <2>2. ASSUME NEW n \in Nat, n \in S PROVE n + 1 \in S
      <3>1. CASE j <= n
        <4>1. W[j] \subseteq W[n] BY <2>2, <3>1
        <4>2. W[n] \subseteq W[n + 1] BY <1>1, <1>2, LongerIs
        <4> QED BY <4>1, <4>2
      <3>2. CASE ~ (j <= n)
        <4>1. j <= n + 1 => j = n + 1 BY <3>2
        <4> QED BY <4>1
      <3> QED BY <3>1, <3>2
    <2>3. \A n \in Nat : n \in S
      <3> HIDE DEF S
      <3> QED BY <2>1, <2>2, Induct
    <2> QED BY <2>3, <1>3
  <1>4. ASSUME NEW k \in Nat, NEW x, NEW c, <<x, c>> \in W[k],
               NEW s \in step, s.from = x, c + s.c < Inf
        PROVE  <<s.to, c + s.c>> \in W[k + 1]
    BY <1>1, <1>2, <1>4, LongerIs
  <1>5. ASSUME NEW k \in Nat, NEW x, NEW c, <<x, c>> \in W[k + 1], <<x, c>> \notin W[k]
        PROVE  \E y \in V, b \in Nat, s \in step :
                 <<y, b>> \in W[k] /\ s.from = y /\ s.to = x /\ c = b + s.c /\ c < Inf
    <2>1. W[k] \in SUBSET (V \X Nat) /\ <<x, c>> \in Longer(step, W[k])
      BY <1>1, <1>2, <1>5
    <2> QED BY <2>1, <1>5, LongerIs
  <1> QED BY <1>1, <1>3, <1>4, <1>5

\* No cheapest way needs more steps than there are elements: the ways to those
\* on a shortest one of the cheapest are shorter by one each.
LEMMA WaysEnough ==
  ASSUME NEW V, IsFiniteSet(V), NEW step, StepsOf(V, step), NEW src, NEW at,
         NEW W, AreWays(W, V, step, src, at),
         NEW n \in Nat, NEW x \in V, NEW c \in Nat, <<x, c>> \in W[n]
  PROVE  \E b \in Nat : b <= c /\ <<x, b>> \in W[Cardinality(V)]
  <1> DEFINE Costs(y) == {b \in Nat : \E k \in Nat : <<y, b>> \in W[k]}
             Counts(y) == {k \in Nat : <<y, Min(Costs(y))>> \in W[k]}
             R == {y \in V : Costs(y) # {}}
             M == [y \in R |-> Min(Costs(y))]
             L == [y \in R |-> Min(Counts(y))]
  <1>1. ASSUME NEW y \in R
        PROVE  /\ M[y] \in Nat /\ L[y] \in Nat /\ <<y, M[y]>> \in W[L[y]]
               /\ \A k \in Nat, b \in Nat : <<y, b>> \in W[k] => M[y] <= b
               /\ \A k \in Nat : <<y, M[y]>> \in W[k] => L[y] <= k
    <2>1. M[y] = Min(Costs(y)) /\ L[y] = Min(Counts(y)) OBVIOUS
    <2>2. Min(Costs(y)) \in Costs(y) /\ \A b \in Costs(y) : Min(Costs(y)) <= b
      <3>1. Costs(y) \subseteq Nat /\ Costs(y) # {} OBVIOUS
      <3> HIDE DEF Costs
      <3> QED BY <3>1, LeastIn
    <2>3. M[y] \in Nat /\ \E k \in Nat : <<y, M[y]>> \in W[k] BY <2>1, <2>2
    <2>4. \A k \in Nat, b \in Nat : <<y, b>> \in W[k] => M[y] <= b BY <2>1, <2>2
    <2> HIDE DEF M, L, Costs
    <2>5. Counts(y) # {} /\ Counts(y) \subseteq Nat BY <2>1, <2>3
    <2>6. Min(Counts(y)) \in Counts(y) /\ \A k \in Counts(y) : Min(Counts(y)) <= k
      <3> HIDE DEF Counts
      <3> QED BY <2>5, LeastIn
    <2> QED BY <2>1, <2>3, <2>4, <2>6
  <1>2. ASSUME NEW y \in V, NEW b \in Nat, NEW k \in Nat, <<y, b>> \in W[k]
        PROVE  y \in R
    BY <1>2
  <1> HIDE DEF M, L, R
  <1>3. ASSUME NEW y \in R, NEW j \in Nat, L[y] = j + 1 PROVE \E z \in R : L[z] = j
    <2>1. <<y, M[y]>> \in W[j + 1] /\ ~ (j + 1 <= j) BY <1>1, <1>3
    <2>2. <<y, M[y]>> \notin W[j] BY <1>1, <1>3, <2>1
    <2>3. PICK z \in V, b \in Nat, s \in step :
            <<z, b>> \in W[j] /\ s.from = z /\ s.to = y /\ M[y] = b + s.c /\ M[y] < Inf
      BY <2>1, <2>2, WaysGrow
    <2>4. s.c \in Nat BY DEF StepsOf
    <2>5. z \in R BY <2>3, <1>2
    <2>6. M[z] \in Nat /\ M[z] <= b /\ L[z] \in Nat /\ <<z, M[z]>> \in W[L[z]]
          /\ M[y] \in Nat /\ L[y] \in Nat
      BY <1>1, <2>3, <2>5
    <2>7. M[z] + s.c < Inf BY <2>3, <2>4, <2>6, InfAssumption
    <2>8. <<y, M[z] + s.c>> \in W[L[z] + 1]
      BY <2>3, <2>6, <2>7, WaysGrow
    <2>9. M[y] <= M[z] + s.c
      <3>1. L[z] + 1 \in Nat /\ M[z] + s.c \in Nat BY <2>4, <2>6
      <3> QED BY <3>1, <1>1, <2>8
    <2>10. M[z] = b BY <2>3, <2>4, <2>6, <2>9
    <2>11. L[z] <= j BY <1>1, <2>3, <2>5, <2>10
    <2>12. L[y] <= L[z] + 1 BY <1>1, <2>3, <2>6, <2>8, <2>10
    <2>13. L[z] = j BY <1>3, <2>6, <2>11, <2>12
    <2> QED BY <2>5, <2>13
  <1>4. x \in R BY <1>2
  <1>5. L[x] <= Cardinality(V)
    <2> DEFINE S == {d \in Nat : d <= L[x] => \E y \in R : L[y] = L[x] - d}
    <2>0. L[x] \in Nat BY <1>1, <1>4
    <2>1. 0 \in S BY <2>0, <1>4
    <2>2. ASSUME NEW d \in Nat, d \in S PROVE d + 1 \in S
      <3> SUFFICES ASSUME d + 1 <= L[x] PROVE \E y \in R : L[y] = L[x] - (d + 1)
        OBVIOUS
      <3>1. PICK y \in R : L[y] = L[x] - d BY <2>0, <2>2
      <3>2. PICK j \in Nat : j = L[x] - (d + 1) /\ j + 1 = L[x] - d BY <2>0
      <3> QED BY <3>1, <3>2, <1>3
    <2>3. \A d \in Nat : d \in S
      <3> HIDE DEF S
      <3> QED BY <2>1, <2>2, Induct
    <2> DEFINE I == 0..L[x]
               at0(j) == CHOOSE y \in R : L[y] = j
               g == [j \in I |-> at0(j)]
    <2>4. ASSUME NEW j \in I PROVE at0(j) \in R /\ L[at0(j)] = j
      <3>1. PICK d \in Nat : d = L[x] - j /\ d <= L[x] /\ L[x] - d = j BY <2>0
      <3>2. \E y \in R : L[y] = j BY <3>1, <2>3
      <3> QED BY <3>2
    <2>5. g \in Injection(I, V)
      <3>1. R \subseteq V BY DEF R
      <3> HIDE DEF at0, I
      <3>2. g \in [I -> V] BY <3>1, <2>4
      <3>3. \A i, j \in I : g[i] = g[j] => i = j BY <2>4
      <3> HIDE DEF g
      <3> QED BY <3>2, <3>3 DEF Injection, IsInjective
    <2> HIDE DEF g
    <2>6. Cardinality(I) <= Cardinality(V) BY <2>5, FS_Injection
    <2>7. Cardinality(I) = L[x] + 1
      <3>1. PICK l \in Nat : l = L[x] BY <2>0
      <3>2. Cardinality(0..l) = l - 0 + 1 BY FS_Interval
      <3> QED BY <3>1, <3>2
    <2>8. Cardinality(V) \in Nat BY FS_CardinalityType
    <2> HIDE DEF I
    <2> QED BY <2>0, <2>6, <2>7, <2>8
  <1>6. <<x, M[x]>> \in W[L[x]] /\ M[x] \in Nat /\ M[x] <= c /\ L[x] \in Nat
    BY <1>1, <1>4
  <1>7. Cardinality(V) \in Nat BY FS_CardinalityType
  <1>8. <<x, M[x]>> \in W[Cardinality(V)] BY <1>5, <1>6, <1>7, WaysGrow
  <1> QED BY <1>6, <1>8

-----------------------------------------------------------------------------
(* Costs of cheapest ways. *)

\* D is a cost of cheapest ways: none costs less, and each costs what some
\* way costs.  The latter as an induction along ways.
Cheapest(D, V, step, src, at) ==
  /\ D \in [V -> 0..Inf]
  /\ \A x \in src : D[x] <= at[x]
  /\ \A s \in step : D[s.to] <= D[s.from] + s.c
  /\ \A S : /\ \A x \in src : at[x] < Inf => <<x, at[x]>> \in S
            /\ \A x \in V, c \in Nat, s \in step :
                 <<x, c>> \in S /\ s.from = x /\ c + s.c < Inf => <<s.to, c + s.c>> \in S
            => \A x \in V : D[x] < Inf => <<x, D[x]>> \in S

\* The reference finds the costs of cheapest ways.
LEMMA ShortestIs ==
  ASSUME NEW V, IsFiniteSet(V), NEW step, StepsOf(V, step), NEW src, src \subseteq V,
         NEW at, \A x \in src : at[x] \in Nat
  PROVE  Cheapest(ShortestIn(V, step, src, at), V, step, src, at)
  <1> DEFINE D == ShortestIn(V, step, src, at)
             n == Cardinality(V)
  <1>1. PICK W : /\ AreWays(W, V, step, src, at)
                 /\ D = [x \in V |-> Lowest(W[n], x)]
    BY WaysExist
  <1>0. ASSUME NEW k \in Nat, NEW y, NEW c, <<y, c>> \in W[k + 1], <<y, c>> \notin W[k]
        PROVE  \E z \in V, b \in Nat, s \in step :
                 <<z, b>> \in W[k] /\ s.from = z /\ s.to = y /\ c = b + s.c /\ c < Inf
    <2> HIDE DEF D
    <2>1. AreWays(W, V, step, src, at) BY <1>1
    <2>2. <<y, c>> \in W[k] \/ \E z \in V, b \in Nat, s \in step :
            <<z, b>> \in W[k] /\ s.from = z /\ s.to = y /\ c = b + s.c /\ c < Inf
      BY <2>1, <1>0, WaysGrow
    <2> QED BY <2>2, <1>0
  <1>2. n \in Nat /\ W[n] \in SUBSET (V \X Nat) /\ Inf \in Nat
    BY <1>1, FS_CardinalityType, WaysGrow, InfAssumption
  <1> HIDE DEF D, n
  <1>3. ASSUME NEW x \in V
        PROVE  /\ D[x] \in 0..Inf
               /\ D[x] = Inf \/ <<x, D[x]>> \in W[n]
               /\ \A c \in Nat : <<x, c>> \in W[n] => D[x] <= c
    <2> DEFINE A == {w[2] : w \in {y \in W[n] : y[1] = x}} \cup {Inf}
    <2>1. ASSUME NEW c PROVE c \in A <=> c = Inf \/ <<x, c>> \in W[n]
      <3>1. ASSUME NEW w \in W[n], w[1] = x, w[2] = c PROVE <<x, c>> \in W[n]
        <4>1. w = <<w[1], w[2]>> BY <1>2
        <4> QED BY <4>1, <3>1
      <3>2. ASSUME <<x, c>> \in W[n] PROVE \E w \in W[n] : w[1] = x /\ w[2] = c
        <4>1. <<x, c>>[1] = x /\ <<x, c>>[2] = c OBVIOUS
        <4> QED BY <4>1, <3>2
      <3> QED BY <3>1, <3>2
    <2>2. D[x] = Min(A) BY <1>1 DEF Lowest
    <2> HIDE DEF A
    <2>3. A \subseteq Nat
      <3>1. ASSUME NEW c \in A PROVE c \in Nat
        <4>1. <<x, c>> \in W[n] => <<x, c>> \in V \X Nat BY <1>2
        <4> QED BY <4>1, <2>1, <1>2
      <3> QED BY <3>1
    <2>4. Inf \in A BY <2>1
    <2>5. Min(A) \in A /\ \A a \in A : Min(A) <= a BY <2>3, <2>4, LeastIn
    <2>6. D[x] \in Nat /\ D[x] <= Inf BY <2>2, <2>3, <2>4, <2>5
    <2>7. D[x] \in 0..Inf BY <2>6, <1>2
    <2>8. D[x] = Inf \/ <<x, D[x]>> \in W[n] BY <2>1, <2>2, <2>5
    <2>9. ASSUME NEW c \in Nat, <<x, c>> \in W[n] PROVE D[x] <= c
      BY <2>1, <2>2, <2>5, <2>9
    <2> QED BY <2>7, <2>8, <2>9
  <1>4. D \in [V -> 0..Inf] BY <1>1, <1>3
  <1>5. ASSUME NEW x \in V, NEW c \in Nat, NEW k \in Nat, <<x, c>> \in W[k]
        PROVE  D[x] <= c
    <2>1. PICK b \in Nat : b <= c /\ <<x, b>> \in W[n]
      BY <1>1, <1>5, WaysEnough DEF n
    <2>2. D[x] <= b BY <2>1, <1>3
    <2>3. D[x] \in 0..Inf BY <1>3
    <2> QED BY <2>1, <2>2, <2>3
  <1>6. ASSUME NEW x \in src PROVE D[x] <= at[x]
    <2>1. <<x, at[x]>> \in W[0] /\ x \in V /\ at[x] \in Nat BY <1>1 DEF AreWays
    <2> QED BY <2>1, <1>5
  <1>7. ASSUME NEW s \in step PROVE D[s.to] <= D[s.from] + s.c
    <2>1. s.from \in V /\ s.to \in V /\ s.c \in Nat BY DEF StepsOf
    <2>2. D[s.from] \in 0..Inf /\ D[s.to] \in 0..Inf BY <2>1, <1>3
    <2>3. CASE D[s.from] + s.c < Inf
      <3>1. D[s.from] # Inf BY <2>1, <2>2, <2>3, <1>2
      <3>2. <<s.from, D[s.from]>> \in W[n] BY <3>1, <2>1, <1>3
      <3>3. <<s.to, D[s.from] + s.c>> \in W[n + 1] BY <3>2, <2>3, <1>1, <1>2, WaysGrow
      <3>4. D[s.from] + s.c \in Nat /\ n + 1 \in Nat BY <2>1, <2>2, <1>2
      <3> QED BY <3>3, <3>4, <2>1, <1>5
    <2>4. CASE ~ (D[s.from] + s.c < Inf) BY <2>1, <2>2, <2>4, <1>2
    <2> QED BY <2>3, <2>4
  <1>8. ASSUME NEW S,
               \A x \in src : at[x] < Inf => <<x, at[x]>> \in S,
               \A x \in V, c \in Nat, s \in step :
                 <<x, c>> \in S /\ s.from = x /\ c + s.c < Inf => <<s.to, c + s.c>> \in S,
               NEW x \in V, D[x] < Inf
        PROVE  <<x, D[x]>> \in S
    <2> DEFINE T == {k \in Nat : \A y \in V, c \in Nat :
                                   <<y, c>> \in W[k] /\ c < Inf => <<y, c>> \in S}
    <2>1. 0 \in T
      <3> SUFFICES ASSUME NEW y \in V, NEW c \in Nat, <<y, c>> \in W[0], c < Inf
                   PROVE  <<y, c>> \in S
        OBVIOUS
      <3>1. PICK z \in src : <<y, c>> = <<z, at[z]>> BY <1>1 DEF AreWays
      <3> QED BY <3>1, <1>8
    <2>2. ASSUME NEW k \in Nat, k \in T PROVE k + 1 \in T
      <3> SUFFICES ASSUME NEW y \in V, NEW c \in Nat, <<y, c>> \in W[k + 1]
                   PROVE  c < Inf => <<y, c>> \in S
        OBVIOUS
      <3>1. CASE <<y, c>> \in W[k] BY <3>1, <2>2
      <3>2. CASE <<y, c>> \notin W[k]
        <4>1. PICK z \in V, b \in Nat, s \in step :
                <<z, b>> \in W[k] /\ s.from = z /\ s.to = y /\ c = b + s.c /\ c < Inf
          BY <3>2, <1>0
        <4>2. s.c \in Nat BY DEF StepsOf
        <4>3. b < Inf BY <4>1, <4>2, <1>2
        <4>4. <<z, b>> \in S BY <4>1, <4>3, <2>2
        <4> QED BY <4>1, <4>4, <1>8
      <3> QED BY <3>1, <3>2
    <2>3. \A k \in Nat : k \in T
      <3> HIDE DEF T
      <3> QED BY <2>1, <2>2, Induct
    <2>4. <<x, D[x]>> \in W[n] /\ D[x] \in Nat
      <3>1. D[x] \in 0..Inf BY <1>3
      <3>2. D[x] # Inf BY <3>1, <1>2, <1>8
      <3>3. D[x] \in Nat BY <3>1
      <3> QED BY <3>2, <3>3, <1>3
    <2> QED BY <2>3, <2>4, <1>2, <1>8
  <1>9. D \in [V -> 0..Inf] /\ (\A x \in src : D[x] <= at[x])
        /\ \A s \in step : D[s.to] <= D[s.from] + s.c
    BY <1>4, <1>6, <1>7
  <1> QED BY <1>8, <1>9 DEF Cheapest, D

-----------------------------------------------------------------------------
(* Distances in a net. *)

\* A search that starts at its sources for free.
Nothing(net) == [n \in net.nodes |-> 0]

\* The steps of a net are between its nodes.
LEMMA StepsAre ==
  ASSUME NEW net, IsNet(net)
  PROVE  StepsOf(net.nodes, NodeSteps(net))
  BY DEF IsNet, NodeSteps, StepsOf

\* Distances from a set are costs of cheapest ways from it.
LEMMA DistIs ==
  ASSUME NEW net, IsNet(net), NEW src, src \subseteq net.nodes
  PROVE  Cheapest(DistFrom(net, src), net.nodes, NodeSteps(net), src, Nothing(net))
  <1>1. IsFiniteSet(net.nodes) BY DEF IsNet
  <1>2. \A x \in src : Nothing(net)[x] \in Nat BY DEF Nothing
  <1>3. DistFrom(net, src) = ShortestIn(net.nodes, NodeSteps(net), src, Nothing(net))
    BY DEF DistFrom, Nothing
  <1> QED BY <1>1, <1>2, <1>3, StepsAre, ShortestIs

\* What is used of it.
LEMMA DistFacts ==
  ASSUME NEW net, IsNet(net), NEW src, src \subseteq net.nodes
  PROVE  /\ DistFrom(net, src) \in [net.nodes -> 0..Inf]
         /\ \A x \in src : DistFrom(net, src)[x] = 0
         /\ \A s \in NodeSteps(net) :
              DistFrom(net, src)[s.to] <= DistFrom(net, src)[s.from] + s.c
         /\ \A S : /\ \A x \in src : <<x, 0>> \in S
                   /\ \A x \in net.nodes, c \in Nat, s \in NodeSteps(net) :
                        <<x, c>> \in S /\ s.from = x /\ c + s.c < Inf => <<s.to, c + s.c>> \in S
                   => \A x \in net.nodes : DistFrom(net, src)[x] < Inf
                                           => <<x, DistFrom(net, src)[x]>> \in S
  <1> DEFINE D == DistFrom(net, src)
  <1>1. Cheapest(D, net.nodes, NodeSteps(net), src, Nothing(net)) BY DistIs
  <1>2. \A x \in src : Nothing(net)[x] = 0 BY DEF Nothing
  <1> HIDE DEF D
  <1>3. D \in [net.nodes -> 0..Inf]
        /\ \A s \in NodeSteps(net) : D[s.to] <= D[s.from] + s.c
    BY <1>1 DEF Cheapest
  <1>4. ASSUME NEW x \in src PROVE D[x] = 0
    <2>1. D[x] <= 0 BY <1>1, <1>2 DEF Cheapest
    <2>2. D[x] \in 0..Inf BY <1>3
    <2> QED BY <2>1, <2>2, InfAssumption
  <1>5. ASSUME NEW S,
               \A x \in src : <<x, 0>> \in S,
               \A x \in net.nodes, c \in Nat, s \in NodeSteps(net) :
                 <<x, c>> \in S /\ s.from = x /\ c + s.c < Inf => <<s.to, c + s.c>> \in S
        PROVE  \A x \in net.nodes : D[x] < Inf => <<x, D[x]>> \in S
    <2>1. \A x \in src : Nothing(net)[x] < Inf => <<x, Nothing(net)[x]>> \in S
      BY <1>2, <1>5
    <2>2. (/\ \A x \in src : Nothing(net)[x] < Inf => <<x, Nothing(net)[x]>> \in S
           /\ \A x \in net.nodes, c \in Nat, s \in NodeSteps(net) :
                <<x, c>> \in S /\ s.from = x /\ c + s.c < Inf => <<s.to, c + s.c>> \in S)
          => \A x \in net.nodes : D[x] < Inf => <<x, D[x]>> \in S
      BY <1>1 DEF Cheapest
    <2> QED BY <2>1, <2>2, <1>5
  <1> QED BY <1>3, <1>4, <1>5 DEF D

\* The edges adjacent to a node are the steps from it.
LEMMA EdgesAreSteps ==
  ASSUME NEW net, IsNet(net), NEW x \in net.nodes
  PROVE  /\ \A e \in AdjOut(net, x) :
              /\ OtherNd(e, x) \in net.nodes /\ e.c \in Nat
              /\ \E s \in NodeSteps(net) : s.from = x /\ s.to = OtherNd(e, x) /\ s.c = e.c
         /\ \A s \in NodeSteps(net) : s.from = x =>
              \E e \in AdjOut(net, x) : OtherNd(e, x) = s.to /\ e.c = s.c
  <1>1. ASSUME NEW e \in AdjOut(net, x)
        PROVE  /\ OtherNd(e, x) \in net.nodes /\ e.c \in Nat
               /\ \E s \in NodeSteps(net) : s.from = x /\ s.to = OtherNd(e, x) /\ s.c = e.c
    <2>1. e \in net.edges /\ (e.from = x \/ (~net.directed /\ e.to = x)) BY DEF AdjOut
    <2>2. OtherNd(e, x) \in net.nodes /\ e.c \in Nat BY <2>1 DEF IsNet, OtherNd
    <2>3. CASE e.from = x
      <3>1. [from |-> e.from, to |-> e.to, c |-> e.c] \in NodeSteps(net) BY <2>1 DEF NodeSteps
      <3>2. OtherNd(e, x) = e.to BY <2>3 DEF OtherNd
      <3> QED BY <2>2, <2>3, <3>1, <3>2
    <2>4. CASE ~net.directed /\ e.to = x
      <3>1. [from |-> e.to, to |-> e.from, c |-> e.c] \in NodeSteps(net)
        BY <2>1, <2>4 DEF NodeSteps
      <3>2. OtherNd(e, x) = e.from BY <2>4 DEF OtherNd
      <3> QED BY <2>2, <2>4, <3>1, <3>2
    <2> QED BY <2>1, <2>3, <2>4
  <1>2. ASSUME NEW s \in NodeSteps(net), s.from = x
        PROVE  \E e \in AdjOut(net, x) : OtherNd(e, x) = s.to /\ e.c = s.c
    <2>1. CASE s \in {[from |-> e.from, to |-> e.to, c |-> e.c] : e \in net.edges}
      <3>1. PICK e \in net.edges : s = [from |-> e.from, to |-> e.to, c |-> e.c] BY <2>1
      <3>2. e.from = x /\ s.to = e.to /\ s.c = e.c BY <1>2, <3>1
      <3> QED BY <3>2 DEF AdjOut, OtherNd
    <2>2. CASE s \notin {[from |-> e.from, to |-> e.to, c |-> e.c] : e \in net.edges}
      <3>1. PICK e \in net.edges : s = [from |-> e.to, to |-> e.from, c |-> e.c] /\ ~net.directed
        BY <2>2 DEF NodeSteps
      <3>2. e.to = x /\ s.to = e.from /\ s.c = e.c BY <1>2, <3>1
      <3> QED BY <3>1, <3>2 DEF AdjOut, OtherNd
    <2> QED BY <2>1, <2>2
  <1> QED BY <1>1, <1>2

\* A consistent heuristic falls by no more than what is between two nodes.
LEMMA HeurFalls ==
  ASSUME NEW net, IsNet(net), NEW heur \in [net.nodes -> Nat], Consistent(net, heur),
         NEW a \in net.nodes, NEW b \in net.nodes, DistFrom(net, {a})[b] < Inf
  PROVE  heur[a] <= DistFrom(net, {a})[b] + heur[b]
  <1> DEFINE S == {p \in net.nodes \X Nat : heur[a] <= p[2] + heur[p[1]]}
  <1>1. \A x \in {a} : <<x, 0>> \in S OBVIOUS
  <1>2. ASSUME NEW x \in net.nodes, NEW c \in Nat, NEW s \in NodeSteps(net),
               <<x, c>> \in S, s.from = x, c + s.c < Inf
        PROVE  <<s.to, c + s.c>> \in S
    <2>1. s.to \in net.nodes /\ s.c \in Nat BY StepsAre DEF StepsOf
    <2>2. heur[x] <= s.c + heur[s.to] BY <1>2 DEF Consistent
    <2>3. heur[x] \in Nat /\ heur[s.to] \in Nat /\ heur[a] \in Nat BY <2>1
    <2>4. heur[a] <= c + heur[x] BY <1>2
    <2>5. heur[a] <= (c + s.c) + heur[s.to] BY <2>1, <2>2, <2>3, <2>4
    <2> QED BY <2>1, <2>5
  <1>3. <<b, DistFrom(net, {a})[b]>> \in S
    <2> HIDE DEF S
    <2> QED BY <1>1, <1>2, DistFacts
  <1> QED BY <1>3

-----------------------------------------------------------------------------
(* The search. *)

\* The costs the search looks for.
Cost == DistFrom(query.net, query.src)

\* An entry costs what some way costs, and its key adds the heuristic, but for
\* the entries the search starts with.
EntryAt(q, dist, r) ==
  /\ r.n \in q.net.nodes /\ r.d \in Nat /\ r.d < Inf /\ r.h \in Nat
  /\ dist[r.n] <= r.d
  /\ r.h = r.d + q.heur[r.n] \/ (r.d = 0 /\ r.h = 0)
Entry(r) == EntryAt(query, Cost, r)

\* What is queued and what is settled are entries.
Entries ==
  /\ \A r \in pq : Entry(r)
  /\ DOMAIN settled \subseteq query.net.nodes
  /\ \A n \in DOMAIN settled : Entry(settled[n]) /\ settled[n].n = n

\* A way to x that costs c or less is settled or queued.
KnownIn(queue, fin, x, c) ==
  \/ x \in DOMAIN fin /\ fin[x].d <= c
  \/ \E r \in queue : r.n = x /\ r.d <= c
Known(x, c) == KnownIn(pq, settled, x, c)

\* The queue is the frontier: no way leaves the settled nodes but by an entry,
\* or to a node the heuristic calls infinitely far.
Frontier ==
  /\ \A x \in query.src : Known(x, 0)
  /\ \A x \in DOMAIN settled, s \in NodeSteps(query.net) :
       s.from = x /\ settled[x].d + s.c < Inf /\ query.heur[s.to] < Inf
       => Known(s.to, settled[x].d + s.c)

\* With a consistent heuristic a node is settled once, and keys never fall.
Ordered ==
  query.form # "set" =>
    \A n \in DOMAIN settled : /\ settled[n].d = Cost[n]
                              /\ \A r \in pq : settled[n].h <= r.h

\* The search for many targets queues nothing infinite.
NoneInfinite == query.form = "many" => \A r \in pq : r.h < Inf

\* found counts the targets settled; a search for one ends with the first.
TargetsCounted ==
  IF query.form = "many" THEN found = Cardinality(DOMAIN settled \cap query.dst)
  ELSE found = 0 /\ DOMAIN settled \cap query.dst = {}

\* What the assumption on queries and DistFacts say of the query that is run.
LEMMA QueryFacts ==
  ASSUME query \in Queries
  PROVE  /\ IsNet(query.net) /\ query.src \subseteq query.net.nodes
         /\ query.dst \subseteq query.net.nodes
         /\ query.heur \in [query.net.nodes -> Nat]
         /\ query.form \in {"one", "pair", "set", "many"}
         /\ query.form # "set" => \E n \in query.src : query.src = {n}
         /\ query.form = "pair" => \E t \in query.dst : query.dst = {t}
         /\ Cost \in [query.net.nodes -> 0..Inf]
         /\ \A x \in query.src : Cost[x] = 0
         /\ \A s \in NodeSteps(query.net) : Cost[s.to] <= Cost[s.from] + s.c
         /\ StepsOf(query.net.nodes, NodeSteps(query.net))
         /\ query # NoQuery
  <1>1. /\ IsNet(query.net) /\ query.src \subseteq query.net.nodes
        /\ query.dst \subseteq query.net.nodes
        /\ query.heur \in [query.net.nodes -> Nat]
        /\ query.form \in {"one", "pair", "set", "many"}
        /\ query.form # "set" => \E n \in query.src : query.src = {n}
        /\ query.form = "pair" => \E t \in query.dst : query.dst = {t}
    BY QueriesAssumption
  <1>2. query # NoQuery BY <1>1 DEF NoQuery
  <1> QED BY <1>1, <1>2, DistFacts, StepsAre DEF Cost

\* Where a cheapest way to x goes: over a settled x, over an entry, or over a
\* node the heuristic calls infinitely far.
Covered(x, c) ==
  \/ x \in DOMAIN settled /\ settled[x].d <= c
  \/ \E r \in pq : r.d + DistFrom(query.net, {r.n})[x] <= c
  \/ \E y \in query.net.nodes : /\ query.heur[y] >= Inf
                                /\ DistFrom(query.net, {y})[x] <= c

\* By induction along ways: each cheapest way is covered.
LEMMA Covers ==
  ASSUME query \in Queries, Entries, Frontier, NEW x \in query.net.nodes, Cost[x] < Inf
  PROVE  Covered(x, Cost[x])
  <1> DEFINE V == query.net.nodes
             B(y) == DistFrom(query.net, {y})
             S == {p \in V \X Nat : Covered(p[1], p[2])}
  <1>1. ASSUME NEW y \in V
        PROVE  /\ B(y) \in [V -> 0..Inf] /\ B(y)[y] = 0
               /\ \A s \in NodeSteps(query.net) : B(y)[s.to] <= B(y)[s.from] + s.c
    <2>1. {y} \subseteq query.net.nodes /\ y \in {y} OBVIOUS
    <2>2. IsNet(query.net) BY QueryFacts
    <2> QED BY <2>1, <2>2, DistFacts
  <1>2. ASSUME NEW s \in NodeSteps(query.net) PROVE s.from \in V /\ s.to \in V /\ s.c \in Nat
    BY QueryFacts DEF StepsOf
  <1>3. ASSUME NEW y \in V, NEW c \in Nat, Known(y, c) PROVE Covered(y, c)
    <2>1. ASSUME NEW r \in pq, r.n = y, r.d <= c PROVE r.d + B(r.n)[y] <= c
      <3>1. r.d \in Nat BY DEF Entries, Entry, EntryAt
      <3>2. B(y)[y] = 0 BY <1>1
      <3> HIDE DEF B
      <3> QED BY <2>1, <3>1, <3>2
    <2> QED BY <2>1, <1>3 DEF Known, KnownIn, Covered
  <1>4. \A y \in query.src : <<y, 0>> \in S
    <2>1. ASSUME NEW y \in query.src PROVE y \in V /\ Covered(y, 0)
      <3>1. y \in V BY QueryFacts
      <3>2. Known(y, 0) BY DEF Frontier
      <3> QED BY <3>1, <3>2, <1>3
    <2> QED BY <2>1
  <1>5. ASSUME NEW y \in V, NEW c \in Nat, NEW s \in NodeSteps(query.net),
               <<y, c>> \in S, s.from = y, c + s.c < Inf
        PROVE  <<s.to, c + s.c>> \in S
    <2>0. s.to \in V /\ s.c \in Nat /\ c + s.c \in Nat BY <1>2
    <2>00. Covered(y, c) BY <1>5
    <2> HIDE DEF S
    <2> SUFFICES Covered(s.to, c + s.c) BY <2>0 DEF S
    <2>1. CASE y \in DOMAIN settled /\ settled[y].d <= c
      <3>1. settled[y].d \in Nat BY <2>1 DEF Entries, Entry, EntryAt
      <3>2. settled[y].d + s.c < Inf BY <2>0, <2>1, <3>1, <1>5, InfAssumption
      <3>3. CASE query.heur[s.to] < Inf
        <4>1. Known(s.to, settled[y].d + s.c) BY <2>1, <3>2, <3>3, <1>5 DEF Frontier
        <4>2. Known(s.to, c + s.c)
          <5>1. settled[y].d + s.c <= c + s.c BY <2>0, <2>1, <3>1
          <5>2. ASSUME NEW d \in Nat, d <= settled[y].d + s.c PROVE d <= c + s.c
            BY <5>1, <5>2, <2>0, <3>1
          <5>3. s.to \in DOMAIN settled => settled[s.to].d \in Nat BY DEF Entries, Entry, EntryAt
          <5>4. \A r \in pq : r.d \in Nat BY DEF Entries, Entry, EntryAt
          <5> QED BY <4>1, <5>2, <5>3, <5>4 DEF Known, KnownIn
        <4> QED BY <4>2, <2>0, <1>3
      <3>4. CASE ~ (query.heur[s.to] < Inf)
        <4>1. query.heur[s.to] >= Inf
          <5>1. query.heur[s.to] \in Nat BY <2>0, QueryFacts
          <5> QED BY <5>1, <3>4, InfAssumption
        <4>2. B(s.to)[s.to] <= c + s.c
          <5>1. B(s.to)[s.to] = 0 BY <2>0, <1>1
          <5> HIDE DEF B
          <5> QED BY <5>1, <2>0
        <4> QED BY <4>1, <4>2, <2>0 DEF Covered
      <3> QED BY <3>3, <3>4
    <2>2. ASSUME NEW r \in pq, r.d + B(r.n)[y] <= c PROVE Covered(s.to, c + s.c)
      <3>1. r.n \in V /\ r.d \in Nat BY DEF Entries, Entry, EntryAt
      <3>2. B(r.n)[y] \in 0..Inf /\ B(r.n)[s.to] \in 0..Inf
            /\ B(r.n)[s.to] <= B(r.n)[y] + s.c
        BY <3>1, <2>0, <1>1, <1>5
      <3> HIDE DEF B
      <3>3. r.d + B(r.n)[s.to] <= c + s.c BY <3>1, <3>2, <2>0, <2>2
      <3> QED BY <3>3 DEF Covered, B
    <2>3. ASSUME NEW z \in V, query.heur[z] >= Inf, B(z)[y] <= c PROVE Covered(s.to, c + s.c)
      <3>1. B(z)[y] \in 0..Inf /\ B(z)[s.to] \in 0..Inf /\ B(z)[s.to] <= B(z)[y] + s.c
        BY <2>0, <1>1, <1>5
      <3> HIDE DEF B
      <3>2. B(z)[s.to] <= c + s.c BY <3>1, <2>0, <2>3
      <3> QED BY <3>2, <2>3 DEF Covered, B
    <2> QED BY <2>00, <2>1, <2>2, <2>3 DEF Covered
  <1>6. <<x, Cost[x]>> \in S
    <2> HIDE DEF S
    <2>1. IsNet(query.net) /\ query.src \subseteq query.net.nodes BY QueryFacts
    <2> QED BY <1>4, <1>5, <2>1, DistFacts DEF Cost
  <1> QED BY <1>6

\* An admissible heuristic: while a target is out, the queue has an entry whose
\* key is not above its cost.
LEMMA KeysBelow ==
  ASSUME query \in Queries, Entries, Frontier,
         Admissible(query.net, query.dst, query.heur),
         NEW t \in query.dst, t \notin DOMAIN settled, Cost[t] < Inf
  PROVE  \E r \in pq : r.h <= Cost[t]
  <1> DEFINE V == query.net.nodes
             B(y) == DistFrom(query.net, {y})
  <1>0. t \in V BY QueryFacts
  <1>1. Covered(t, Cost[t]) BY <1>0, Covers
  <1>2. ASSUME NEW y \in V PROVE query.heur[y] \in Nat /\ query.heur[y] <= B(y)[t]
    BY QueryFacts DEF Admissible
  <1>3. Cost[t] \in 0..Inf BY <1>0, QueryFacts
  <1>4. ASSUME NEW y \in V PROVE B(y)[t] \in 0..Inf
    <2>1. {y} \subseteq query.net.nodes /\ IsNet(query.net) BY QueryFacts
    <2> QED BY <2>1, <1>0, DistFacts
  <1>5. ASSUME NEW r \in pq, r.d + B(r.n)[t] <= Cost[t] PROVE r.h <= Cost[t]
    <2>1. Entry(r) BY DEF Entries
    <2>2. r.n \in V /\ r.d \in Nat /\ r.h \in Nat
          /\ (r.h = r.d + query.heur[r.n] \/ (r.d = 0 /\ r.h = 0))
      BY <2>1 DEF Entry, EntryAt
    <2>3. query.heur[r.n] \in Nat /\ query.heur[r.n] <= B(r.n)[t] /\ B(r.n)[t] \in 0..Inf
      BY <2>2, <1>2, <1>4
    <2> HIDE DEF B
    <2> QED BY <2>2, <2>3, <1>3, <1>5
  <1>6. ASSUME NEW y \in V, query.heur[y] >= Inf, B(y)[t] <= Cost[t] PROVE FALSE
    <2>1. query.heur[y] \in Nat /\ query.heur[y] <= B(y)[t] /\ B(y)[t] \in 0..Inf
      BY <1>2, <1>4
    <2> HIDE DEF B
    <2> QED BY <2>1, <1>3, <1>6, InfAssumption
  <1> QED BY <1>1, <1>5, <1>6 DEF Covered

\* A consistent one: what is settled costs what the cheapest way costs.
LEMMA TopIsExact ==
  ASSUME query \in Queries, Entries, Frontier, Consistent(query.net, query.heur),
         NEW r \in Tops, r.h < Inf, ~Stale(r)
  PROVE  r.d = Cost[r.n]
  <1> DEFINE V == query.net.nodes
             B(y) == DistFrom(query.net, {y})
             x == r.n
  <1>1. r \in pq /\ \A s \in pq : r.h <= s.h BY DEF Tops
  <1>2. Entry(r) BY <1>1 DEF Entries
  <1>3. x \in V /\ r.d \in Nat /\ r.d < Inf /\ r.h \in Nat /\ Cost[x] <= r.d
        /\ (r.h = r.d + query.heur[x] \/ (r.d = 0 /\ r.h = 0))
    BY <1>2 DEF Entry, EntryAt
  <1>4. Cost[x] \in 0..Inf /\ query.heur[x] \in Nat BY <1>3, QueryFacts
  <1>5. Cost[x] < Inf BY <1>3, <1>4, InfAssumption
  <1>6. Covered(x, Cost[x]) BY <1>3, <1>5, Covers
  <1>7. ASSUME NEW y \in V, B(y)[x] < Inf
        PROVE  /\ query.heur[y] \in Nat /\ B(y)[x] \in Nat
               /\ query.heur[y] <= B(y)[x] + query.heur[x]
    <2>1. {y} \subseteq query.net.nodes /\ IsNet(query.net)
          /\ query.heur \in [query.net.nodes -> Nat]
      BY QueryFacts
    <2>2. B(y)[x] \in 0..Inf BY <2>1, <1>3, DistFacts
    <2>3. query.heur[y] <= B(y)[x] + query.heur[x] BY <2>1, <1>3, <1>7, HeurFalls
    <2>4. query.heur[y] \in Nat BY <2>1
    <2>5. B(y)[x] \in Nat BY <2>2
    <2> QED BY <2>3, <2>4, <2>5
  <1>8. ASSUME NEW y \in V PROVE B(y)[x] \in 0..Inf
    <2>1. {y} \subseteq query.net.nodes /\ IsNet(query.net) BY QueryFacts
    <2> QED BY <2>1, <1>3, DistFacts
  <1>9. ASSUME x \in DOMAIN settled, settled[x].d <= Cost[x] PROVE r.d <= Cost[x]
    <2>1. settled[x].d \in Nat BY <1>9 DEF Entries, Entry, EntryAt
    <2>2. settled[x].d <= r.d BY <2>1, <1>3, <1>4, <1>9
    <2> QED BY <2>2, <1>9 DEF Stale
  <1>10. ASSUME NEW e \in pq, e.d + B(e.n)[x] <= Cost[x] PROVE r.d <= Cost[x]
    <2>1. Entry(e) /\ r.h <= e.h BY <1>1 DEF Entries
    <2>2. e.n \in V /\ e.d \in Nat /\ e.h \in Nat
          /\ (e.h = e.d + query.heur[e.n] \/ (e.d = 0 /\ e.h = 0))
      BY <2>1 DEF Entry, EntryAt
    <2>3. B(e.n)[x] \in 0..Inf BY <2>2, <1>8
    <2>4. B(e.n)[x] < Inf
      <3> HIDE DEF B
      <3> QED BY <2>2, <2>3, <1>4, <1>5, <1>10, InfAssumption
    <2>5. query.heur[e.n] \in Nat /\ B(e.n)[x] \in Nat
          /\ query.heur[e.n] <= B(e.n)[x] + query.heur[x]
      BY <2>2, <2>4, <1>7
    <2> HIDE DEF B
    <2> QED BY <2>1, <2>2, <2>5, <1>3, <1>4, <1>10
  <1>11. ASSUME NEW y \in V, query.heur[y] >= Inf, B(y)[x] <= Cost[x] PROVE r.d <= Cost[x]
    <2>1. B(y)[x] \in 0..Inf BY <1>8
    <2>2. B(y)[x] < Inf
      <3> HIDE DEF B
      <3> QED BY <2>1, <1>4, <1>5, <1>11, InfAssumption
    <2>3. query.heur[y] \in Nat /\ B(y)[x] \in Nat
          /\ query.heur[y] <= B(y)[x] + query.heur[x]
      BY <2>2, <1>7
    <2> HIDE DEF B
    <2> QED BY <2>3, <1>3, <1>4, <1>11, InfAssumption
  <1>12. r.d <= Cost[x]
    <2> HIDE DEF x
    <2> QED BY <1>6, <1>9, <1>10, <1>11 DEF Covered
  <1> QED BY <1>3, <1>4, <1>12

\* The nearest target.
LEMMA BestIs ==
  ASSUME query \in Queries, NEW near, near = Min({Cost[t] : t \in query.dst} \cup {Inf})
  PROVE  /\ near \in 0..Inf /\ \A t \in query.dst : near <= Cost[t]
         /\ near = Inf \/ \E t \in query.dst : near = Cost[t]
  <1> DEFINE A == {Cost[t] : t \in query.dst} \cup {Inf}
  <1>1. \A t \in query.dst : Cost[t] \in 0..Inf BY QueryFacts
  <1>2. A \subseteq Nat /\ Inf \in A BY <1>1, InfAssumption
  <1>3. \A a \in A : a <= Inf BY <1>1, InfAssumption
  <1>4. Min(A) \in A /\ \A a \in A : Min(A) <= a
    <2> HIDE DEF A
    <2> QED BY <1>2, LeastIn
  <1>5. near = Min(A) OBVIOUS
  <1>6. near \in Nat /\ near <= Inf
    <2> HIDE DEF A
    <2> QED BY <1>2, <1>3, <1>4, <1>5
  <1>7. \A t \in query.dst : Cost[t] \in A OBVIOUS
  <1>8. near = Inf \/ \E t \in query.dst : near = Cost[t] BY <1>4, <1>5
  <1>9. \A t \in query.dst : near <= Cost[t]
    <2> HIDE DEF A
    <2> QED BY <1>4, <1>5, <1>7
  <1>10. near \in 0..Inf BY <1>6, InfAssumption
  <1> QED BY <1>8, <1>9, <1>10

\* What is relaxed are entries.
LEMMA RelaxedIs ==
  ASSUME query \in Queries, NEW r, Entry(r), NEW e \in Relaxed(r)
  PROVE  /\ Entry(e)
         /\ \E s \in NodeSteps(query.net) :
              /\ s.from = r.n /\ s.to = e.n /\ s.c \in Nat
              /\ e.d = r.d + s.c /\ e.h = r.d + s.c + query.heur[e.n]
              /\ r.d + s.c < Inf
  <1>1. r.n \in query.net.nodes /\ r.d \in Nat /\ r.h \in Nat /\ Cost[r.n] <= r.d
    BY DEF Entry, EntryAt
  <1>2. PICK x \in AdjOut(query.net, r.n) :
          /\ e = [n |-> OtherNd(x, r.n), parent |-> r.n, d |-> r.d + x.c,
                  h |-> r.d + x.c + query.heur[OtherNd(x, r.n)]]
          /\ r.d + x.c < Inf
    BY DEF Relaxed
  <1>3. IsNet(query.net) BY QueryFacts
  <1>4. PICK s \in NodeSteps(query.net) : s.from = r.n /\ s.to = OtherNd(x, r.n) /\ s.c = x.c
    BY <1>1, <1>3, EdgesAreSteps
  <1>5. e.n = s.to /\ e.d = r.d + s.c /\ e.h = r.d + s.c + query.heur[s.to] BY <1>2, <1>4
  <1>6. s.to \in query.net.nodes /\ s.from \in query.net.nodes /\ s.c \in Nat
    BY QueryFacts DEF StepsOf
  <1>7. query.heur[s.to] \in Nat /\ Cost[s.to] \in 0..Inf /\ Cost[s.from] \in 0..Inf
        /\ Cost[s.to] <= Cost[s.from] + s.c
    BY <1>6, QueryFacts
  <1>8. r.d + s.c < Inf BY <1>2, <1>4
  <1>9. Cost[s.to] <= r.d + s.c BY <1>1, <1>4, <1>6, <1>7
  <1>10. r.d + s.c \in Nat /\ r.d + s.c + query.heur[s.to] \in Nat BY <1>1, <1>6, <1>7
  <1>11. Entry(e) BY <1>5, <1>6, <1>8, <1>9, <1>10 DEF Entry, EntryAt
  <1> QED BY <1>4, <1>5, <1>6, <1>8, <1>11

\* And every step but those that cost too much is relaxed.
LEMMA RelaxedHas ==
  ASSUME query \in Queries, NEW r, Entry(r), NEW s \in NodeSteps(query.net),
         s.from = r.n, r.d + s.c < Inf, query.heur[s.to] < Inf
  PROVE  \E e \in Relaxed(r) : e.n = s.to /\ e.d = r.d + s.c
  <1>1. r.n \in query.net.nodes BY DEF Entry, EntryAt
  <1>2. IsNet(query.net) BY QueryFacts
  <1>3. PICK x \in AdjOut(query.net, r.n) : OtherNd(x, r.n) = s.to /\ x.c = s.c
    BY <1>1, <1>2, EdgesAreSteps
  <1> DEFINE e == [n |-> OtherNd(x, r.n), parent |-> r.n, d |-> r.d + x.c,
                   h |-> r.d + x.c + query.heur[OtherNd(x, r.n)]]
  <1>4. e \in Relaxed(r) BY <1>3 DEF Relaxed
  <1>5. e.n = s.to /\ e.d = r.d + s.c BY <1>3
  <1> QED BY <1>4, <1>5

-----------------------------------------------------------------------------
(* What is returned. *)

\* Shortest, of an answer.
Right(ans) ==
  IF query.form = "many" THEN \A t \in query.dst : ans[t] = Cost[t]
  ELSE LET near == Min({Cost[t] : t \in query.dst} \cup {Inf})
           reached == {t \in DOMAIN ans : ans[t] < Inf}
       IN /\ near < Inf => Cardinality(reached) = 1
          /\ \A t \in reached : ans[t] = near /\ Cost[t] = near

\* Without targets any answer is right.
LEMMA NoTargetIsRight ==
  ASSUME query \in Queries, query.dst = {}, NEW ans \in [query.dst -> 0..Inf]
  PROVE  Right(ans)
  <1> DEFINE near == Min({Cost[t] : t \in query.dst} \cup {Inf})
  <1>1. near = Inf \/ \E t \in query.dst : near = Cost[t] BY BestIs
  <1>2. near = Inf BY <1>1
  <1>3. {t \in DOMAIN ans : ans[t] < Inf} = {} OBVIOUS
  <1>4. ~ (near < Inf) BY <1>2, InfAssumption
  <1> HIDE DEF near
  <1> QED BY <1>3, <1>4 DEF Right, near

\* The first three forms: infinite to all targets, or finite to the nearest.
LEMMA NoneIsRight ==
  ASSUME query \in Queries, query.form # "many", \A t \in query.dst : Cost[t] = Inf
  PROVE  Right(AllInf(query.dst))
  <1> DEFINE near == Min({Cost[t] : t \in query.dst} \cup {Inf})
             ans == AllInf(query.dst)
  <1>1. near = Inf \/ \E t \in query.dst : near = Cost[t] BY BestIs
  <1>2. near = Inf BY <1>1
  <1>3. {t \in DOMAIN ans : ans[t] < Inf} = {} BY InfAssumption DEF AllInf
  <1>4. ~ (near < Inf) BY <1>2, InfAssumption
  <1> HIDE DEF near, ans
  <1>5. Right(ans) BY <1>3, <1>4 DEF Right, near
  <1> QED BY <1>5 DEF ans

\* The answer with the cost of the nearest target is right.
LEMMA OneIsRight ==
  ASSUME query \in Queries, query.form # "many", NEW x \in query.dst,
         Cost[x] < Inf, \A t \in query.dst : Cost[x] <= Cost[t]
  PROVE  Right([t \in query.dst |-> IF t = x THEN Cost[x] ELSE Inf])
  <1> DEFINE near == Min({Cost[t] : t \in query.dst} \cup {Inf})
             ans == [t \in query.dst |-> IF t = x THEN Cost[x] ELSE Inf]
             reached == {t \in DOMAIN ans : ans[t] < Inf}
  <1>1. /\ near \in 0..Inf /\ \A t \in query.dst : near <= Cost[t]
        /\ near = Inf \/ \E t \in query.dst : near = Cost[t]
    BY BestIs
  <1> HIDE DEF near
  <1>2. \A t \in query.dst : Cost[t] \in 0..Inf BY QueryFacts
  <1>3. near = Cost[x] BY <1>1, <1>2, InfAssumption
  <1>4. reached = {x} BY InfAssumption
  <1>5. Cardinality(reached) = 1 BY <1>4, FS_Singleton
  <1>6. ans[x] = Cost[x] OBVIOUS
  <1> HIDE DEF ans
  <1>7. Right(ans) BY <1>3, <1>4, <1>5, <1>6 DEF Right, near
  <1> QED BY <1>7 DEF ans

\* What holds while a search with targets and a usable heuristic runs.
Loop == Frontier /\ Ordered /\ NoneInfinite /\ TargetsCounted

\* The types of a search that has begun.
SearchTypes ==
  /\ query \in Queries /\ Entries /\ found \in Nat
  /\ answer = <<>> \/ answer \in [query.dst -> 0..Inf]

\* A usable heuristic never overestimates; searches from one node need it consistent.
LEMMA UsableIs ==
  ASSUME Usable(query)
  PROVE  /\ Admissible(query.net, query.dst, query.heur)
         /\ query.form # "set" => Consistent(query.net, query.heur)
         /\ query.form = "many" =>
              \A s \in NodeSteps(query.net) :
                ~ (Cost[s.from] + s.c < Inf /\ Cost[s.from] + s.c + query.heur[s.to] >= Inf)
  BY DEF Usable, Cost

\* Giving up is right: the queue is empty, or nothing near is left in it.
LEMMA GiveUpRight ==
  ASSUME SearchTypes, GiveUp, Usable(query), query.dst # {}, Loop
  PROVE  Right(answer')
  <1>1. query \in Queries /\ Entries /\ Frontier /\ Admissible(query.net, query.dst, query.heur)
    BY UsableIs DEF SearchTypes, Loop
  <1>2. ASSUME NEW t \in query.dst, t \notin DOMAIN settled,
               pq = {} \/ \E r \in Tops : Inf <= r.h
        PROVE  Cost[t] = Inf
    <2>1. Cost[t] \in 0..Inf BY <1>1, QueryFacts
    <2>2. ASSUME Cost[t] < Inf PROVE FALSE
      <3>1. PICK e \in pq : e.h <= Cost[t] BY <1>1, <1>2, <2>2, KeysBelow
      <3>2. PICK r \in Tops : Inf <= r.h BY <1>2
      <3>3. r.h <= e.h /\ r \in pq BY <3>1 DEF Tops
      <3>4. r.h \in Nat /\ e.h \in Nat BY <1>1, <3>1, <3>3 DEF Entries, Entry, EntryAt
      <3> QED BY <2>1, <2>2, <3>1, <3>2, <3>3, <3>4, InfAssumption
    <2> QED BY <2>1, <2>2, InfAssumption
  <1>3. CASE query.form # "many"
    <2>1. answer' = AllInf(query.dst) BY <1>3 DEF GiveUp
    <2>2. \A t \in query.dst : t \notin DOMAIN settled BY <1>3 DEF Loop, TargetsCounted
    <2>3. \A t \in query.dst : Cost[t] = Inf BY <1>2, <2>2 DEF GiveUp
    <2> QED BY <1>1, <1>3, <2>1, <2>3, NoneIsRight
  <1>4. CASE query.form = "many"
    <2>1. \A r \in pq : r.h < Inf /\ r.h \in Nat
      BY <1>1, <1>4 DEF Loop, NoneInfinite, Entries, Entry, EntryAt
    <2>2. ~ \E r \in Tops : Inf <= r.h BY <2>1, InfAssumption DEF Tops
    <2>3. pq = {} /\ answer' = Collected(settled) BY <1>4, <2>2 DEF GiveUp
    <2>4. ASSUME NEW t \in query.dst PROVE answer'[t] = Cost[t]
      <3>1. CASE t \in DOMAIN settled
        <4>1. settled[t].d = Cost[t] BY <1>4, <3>1 DEF Loop, Ordered
        <4> QED BY <2>3, <3>1, <4>1 DEF Collected
      <3>2. CASE t \notin DOMAIN settled
        <4>1. Cost[t] = Inf BY <1>2, <2>3, <3>2
        <4> QED BY <2>3, <3>2, <4>1 DEF Collected
      <3> QED BY <3>1, <3>2
    <2> QED BY <1>4, <2>4 DEF Right
  <1> QED BY <1>3, <1>4

-----------------------------------------------------------------------------
(* A node is settled. *)

\* What is settled, how many targets were, and whether this ends the search, once
\* r is settled.
Done(r) == [n \in DOMAIN settled \cup {r.n} |-> IF n = r.n THEN r ELSE settled[n]]
Hits(r) == found + IF r.n \in query.dst THEN 1 ELSE 0
IsLast(r) == IF query.form = "many" THEN Hits(r) = Cardinality(query.dst) ELSE Hits(r) > 0

\* Settle, for the entry r it takes.
SettleBy(r) ==
  /\ r \in Tops /\ r.h < Inf /\ ~Stale(r) /\ query' = query
  /\ settled' = Done(r) /\ found' = Hits(r)
  /\ ~IsLast(r) => pq' = (pq \ {r}) \cup Relaxed(r) /\ answer' = <<>>
  /\ IsLast(r) => pq' = pq \ {r}
  /\ IsLast(r) /\ query.form = "many" => answer' = Collected(Done(r))
  /\ IsLast(r) /\ query.form # "many" =>
       answer' = [t \in query.dst |-> IF t = r.n THEN r.d ELSE Inf]

\* Every Settle is one of an entry.
LEMMA SettleHow == ASSUME Settle PROVE Running /\ \E r : SettleBy(r)
  <1>1. PICK r \in Tops :
          /\ r.h < Inf /\ ~Stale(r)
          /\ settled' = Done(r) /\ found' = Hits(r)
          /\ pq' = (pq \ {r}) \cup IF IsLast(r) THEN {} ELSE Relaxed(r)
          /\ answer' = CASE ~IsLast(r) -> <<>>
                         [] IsLast(r) /\ query.form = "many" -> Collected(Done(r))
                         [] IsLast(r) /\ query.form # "many" ->
                              [t \in query.dst |-> IF t = r.n THEN r.d ELSE Inf]
    BY DEF Settle, Done, Hits, IsLast
  <1>2. query' = query /\ Running BY DEF Settle
  <1>3. ~IsLast(r) => pq' = (pq \ {r}) \cup Relaxed(r) /\ answer' = <<>> BY <1>1
  <1>4. IsLast(r) => pq' = pq \ {r} BY <1>1
  <1>5. IsLast(r) /\ query.form = "many" => answer' = Collected(Done(r)) BY <1>1
  <1>6. IsLast(r) /\ query.form # "many" =>
          answer' = [t \in query.dst |-> IF t = r.n THEN r.d ELSE Inf]
    BY <1>1
  <1> QED BY <1>1, <1>2, <1>3, <1>4, <1>5, <1>6 DEF SettleBy

\* Entry does not look at the state of the loop.
LEMMA SettleTypes ==
  ASSUME SearchTypes, Settle
  PROVE  SearchTypes'
  <1>1. PICK r : SettleBy(r) BY SettleHow
  <1>2. query' = query /\ query \in Queries /\ Entries /\ r \in pq
    BY <1>1 DEF SettleBy, SearchTypes, Tops
  <1>3. Entry(r) BY <1>2 DEF Entries
  <1>4. Cost' = Cost /\ query' = query BY <1>2 DEF Cost
  <1>5. \A e \in Relaxed(r) : Entry(e) BY <1>2, <1>3, RelaxedIs
  <1>6. \A e \in pq' : Entry(e) BY <1>1, <1>2, <1>5 DEF SettleBy, Entries
  <1>7. settled' = Done(r) BY <1>1 DEF SettleBy
  <1>8. DOMAIN settled' \subseteq query.net.nodes
    BY <1>2, <1>3, <1>7 DEF Done, Entries, Entry, EntryAt
  <1>9. ASSUME NEW n \in DOMAIN settled'
        PROVE  EntryAt(query, Cost, settled'[n]) /\ settled'[n].n = n
    <2>1. CASE n = r.n
      <3>1. settled'[n] = r BY <2>1, <1>7 DEF Done
      <3> QED BY <3>1, <2>1, <1>3 DEF Entry
    <2>2. CASE n # r.n
      <3>1. n \in DOMAIN settled /\ settled'[n] = settled[n] BY <2>2, <1>7, <1>9 DEF Done
      <3>2. Entry(settled[n]) /\ settled[n].n = n BY <3>1, <1>2 DEF Entries
      <3> QED BY <3>1, <3>2 DEF Entry
    <2> QED BY <2>1, <2>2
  <1>10. Entries' BY <1>4, <1>6, <1>8, <1>9 DEF Entries, Entry
  <1>11. found' \in Nat
    <2>1. found \in Nat /\ found' = Hits(r) BY <1>1 DEF SettleBy, SearchTypes
    <2> QED BY <2>1 DEF Hits
  <1>12. answer' = <<>> \/ answer' \in [query'.dst -> 0..Inf]
    <2>1. CASE ~IsLast(r) BY <2>1, <1>1 DEF SettleBy
    <2>2. CASE IsLast(r) /\ query.form = "many"
      <3>1. answer' = Collected(Done(r)) BY <2>2, <1>1 DEF SettleBy
      <3>2. ASSUME NEW t \in DOMAIN Done(r) PROVE Done(r)[t].d \in 0..Inf
        <4>1. t = r.n \/ (t # r.n /\ t \in DOMAIN settled) BY DEF Done
        <4>2. Done(r)[t] = r \/ (t \in DOMAIN settled /\ Done(r)[t] = settled[t])
          BY <4>1 DEF Done
        <4>3. Entry(Done(r)[t]) BY <4>2, <1>2, <1>3 DEF Entries
        <4> QED BY <4>3, InfAssumption DEF Entry, EntryAt
      <3> QED BY <3>1, <3>2, <1>2, InfAssumption DEF Collected
    <2>3. CASE IsLast(r) /\ query.form # "many"
      <3>1. answer' = [t \in query.dst |-> IF t = r.n THEN r.d ELSE Inf]
        BY <2>3, <1>1 DEF SettleBy
      <3>2. r.d \in 0..Inf BY <1>3, InfAssumption DEF Entry, EntryAt
      <3> QED BY <3>1, <3>2, <1>2, InfAssumption
    <2> QED BY <2>1, <2>2, <2>3
  <1> QED BY <1>2, <1>10, <1>11, <1>12 DEF SearchTypes

\* The one who is settled was not settled before, unless the heuristic may be
\* inconsistent.
LEMMA SettledOnce ==
  ASSUME SearchTypes, Usable(query), Loop, NEW r, SettleBy(r), query.form # "set"
  PROVE  r.d = Cost[r.n] /\ r.n \notin DOMAIN settled
  <1>1. r \in pq /\ Entry(r) /\ query \in Queries /\ Entries /\ Frontier
        /\ Consistent(query.net, query.heur)
    BY UsableIs DEF SearchTypes, Entries, SettleBy, Tops, Loop
  <1>2. r.d = Cost[r.n] BY <1>1, TopIsExact DEF SettleBy
  <1>3. r.d \in Nat BY <1>1 DEF Entry, EntryAt
  <1>4. r.n \in DOMAIN settled => settled[r.n].d = r.d BY <1>2 DEF Loop, Ordered
  <1>5. r.d <= r.d BY <1>3
  <1> QED BY <1>2, <1>4, <1>5 DEF SettleBy, Stale

\* Known ways stay known.
LEMMA SettleKeepsKnown ==
  ASSUME SearchTypes, Settle
  PROVE  \A x, c : c \in Nat /\ Known(x, c) => KnownIn(pq', settled', x, c)
  <1>1. PICK r : SettleBy(r) BY SettleHow
  <1>2. r \in pq /\ Entry(r) /\ settled' = Done(r) /\ ~Stale(r)
    BY <1>1 DEF SettleBy, Tops, SearchTypes, Entries
  <1>3. pq \ {r} \subseteq pq' BY <1>1 DEF SettleBy
  <1>4. r.d \in Nat BY <1>2 DEF Entry, EntryAt
  <1>5. r.n \in DOMAIN settled' /\ settled'[r.n] = r BY <1>2 DEF Done
  <1> SUFFICES ASSUME NEW x, NEW c \in Nat, Known(x, c) PROVE KnownIn(pq', settled', x, c)
    OBVIOUS
  <1>6. CASE x \in DOMAIN settled /\ settled[x].d <= c /\ x # r.n
    <2>1. x \in DOMAIN settled' /\ settled'[x] = settled[x] BY <1>2, <1>6 DEF Done
    <2> QED BY <2>1, <1>6 DEF Known, KnownIn
  <1>7. CASE x \in DOMAIN settled /\ settled[x].d <= c /\ x = r.n
    <2>1. settled[x].d \in Nat BY <1>7 DEF SearchTypes, Entries, Entry, EntryAt
    <2>2. ~ (settled[x].d <= r.d) BY <1>2, <1>7 DEF Stale
    <2>3. r.d <= c BY <2>1, <2>2, <1>4, <1>7
    <2> QED BY <2>3, <1>5, <1>7 DEF Known, KnownIn
  <1>8. ASSUME NEW e \in pq, e.n = x, e.d <= c PROVE KnownIn(pq', settled', x, c)
    <2>1. CASE e = r BY <2>1, <1>5, <1>8 DEF Known, KnownIn
    <2>2. CASE e # r BY <2>2, <1>3, <1>8 DEF Known, KnownIn
    <2> QED BY <2>1, <2>2
  <1> QED BY <1>6, <1>7, <1>8 DEF Known, KnownIn

\* The steps from the node settled are queued, so that the frontier stays whole.
LEMMA SettleFrontier ==
  ASSUME SearchTypes, Settle, Frontier, NEW r, SettleBy(r), ~IsLast(r)
  PROVE  Frontier'
  <1>1. r \in pq /\ Entry(r) /\ settled' = Done(r) /\ query' = query /\ query \in Queries
        /\ pq' = (pq \ {r}) \cup Relaxed(r)
    BY DEF SettleBy, Tops, SearchTypes, Entries
  <1>2. r.d \in Nat BY <1>1 DEF Entry, EntryAt
  <1>3. \A x \in query.src : KnownIn(pq', settled', x, 0) BY SettleKeepsKnown DEF Frontier
  <1>4. ASSUME NEW x \in DOMAIN settled', NEW s \in NodeSteps(query.net), s.from = x,
               settled'[x].d + s.c < Inf, query.heur[s.to] < Inf
        PROVE  KnownIn(pq', settled', s.to, settled'[x].d + s.c)
    <2>0. s.c \in Nat BY <1>1, QueryFacts DEF StepsOf
    <2>1. CASE x = r.n
      <3>1. settled'[x] = r BY <2>1, <1>1 DEF Done
      <3>2. PICK e \in Relaxed(r) : e.n = s.to /\ e.d = r.d + s.c
        BY <2>1, <3>1, <1>1, <1>4, RelaxedHas
      <3>3. e \in pq' /\ e.d <= settled'[x].d + s.c BY <3>1, <3>2, <1>1, <1>2, <2>0
      <3> QED BY <3>2, <3>3 DEF Known, KnownIn
    <2>2. CASE x # r.n
      <3>1. x \in DOMAIN settled /\ settled'[x] = settled[x] BY <2>2, <1>1, <1>4 DEF Done
      <3>2. settled[x].d \in Nat BY <3>1 DEF SearchTypes, Entries, Entry, EntryAt
      <3>3. Known(s.to, settled[x].d + s.c) BY <3>1, <1>4 DEF Frontier
      <3>4. settled[x].d + s.c \in Nat BY <3>2, <2>0
      <3>5. KnownIn(pq', settled', s.to, settled[x].d + s.c)
        BY <3>3, <3>4, SettleKeepsKnown
      <3> QED BY <3>1, <3>5
    <2> QED BY <2>1, <2>2
  <1> QED BY <1>1, <1>3, <1>4 DEF Frontier, Known

\* A consistent heuristic raises no key above one it leads to: what is queued is
\* not below what was settled.
LEMMA SettleOrdered ==
  ASSUME SearchTypes, Usable(query), Loop, NEW r, SettleBy(r), ~IsLast(r)
  PROVE  Ordered' /\ NoneInfinite' /\ TargetsCounted'
  <1>1. r \in pq /\ Entry(r) /\ settled' = Done(r) /\ query' = query /\ query \in Queries
        /\ pq' = (pq \ {r}) \cup Relaxed(r) /\ found' = Hits(r)
        /\ \A e \in pq : r.h <= e.h
    BY DEF SettleBy, Tops, SearchTypes, Entries
  <1>2. r.n \in query.net.nodes /\ r.d \in Nat /\ r.h \in Nat
        /\ (r.h = r.d + query.heur[r.n] \/ (r.d = 0 /\ r.h = 0))
    BY <1>1 DEF Entry, EntryAt
  <1>3. Cost' = Cost BY <1>1 DEF Cost
  <1>4. ASSUME query.form # "set" PROVE Ordered'
    <2>1. r.d = Cost[r.n] /\ r.n \notin DOMAIN settled BY <1>4, SettledOnce
    <2>2. Consistent(query.net, query.heur) BY <1>4, UsableIs
    <2>3. ASSUME NEW e \in pq' PROVE r.h <= e.h /\ e.h \in Nat
      <3>1. CASE e \in pq BY <3>1, <1>1 DEF SearchTypes, Entries, Entry, EntryAt
      <3>2. CASE e \notin pq
        <4>1. PICK s \in NodeSteps(query.net) :
                /\ s.from = r.n /\ s.to = e.n /\ s.c \in Nat
                /\ e.d = r.d + s.c /\ e.h = r.d + s.c + query.heur[e.n]
          BY <1>1, <3>2, RelaxedIs
        <4>2. s.to \in query.net.nodes BY <1>1, QueryFacts DEF StepsOf
        <4>3. query.heur[e.n] \in Nat /\ query.heur[r.n] \in Nat
          BY <4>1, <4>2, <1>1, <1>2, QueryFacts
        <4>4. query.heur[r.n] <= s.c + query.heur[e.n] BY <2>2, <4>1 DEF Consistent
        <4> QED BY <4>1, <4>3, <4>4, <1>2
      <3> QED BY <3>1, <3>2
    <2>4. ASSUME NEW n \in DOMAIN settled'
          PROVE  settled'[n].d = Cost[n] /\ \A e \in pq' : settled'[n].h <= e.h
      <3>1. CASE n = r.n
        <4>1. settled'[n] = r BY <3>1, <1>1 DEF Done
        <4> QED BY <4>1, <3>1, <2>1, <2>3
      <3>2. CASE n # r.n
        <4>1. n \in DOMAIN settled /\ settled'[n] = settled[n] BY <3>2, <1>1, <2>4 DEF Done
        <4>2. settled[n].d = Cost[n] /\ settled[n].h <= r.h
          BY <4>1, <1>1, <1>4 DEF Loop, Ordered
        <4>3. settled[n].h \in Nat BY <4>1 DEF SearchTypes, Entries, Entry, EntryAt
        <4>4. \A e \in pq' : settled[n].h <= e.h BY <4>2, <4>3, <2>3, <1>2
        <4> QED BY <4>1, <4>2, <4>4
      <3> QED BY <3>1, <3>2
    <2> QED BY <2>4, <1>1, <1>3 DEF Ordered
  <1>5. ASSUME query.form = "many" PROVE NoneInfinite'
    <2>1. r.d = Cost[r.n] BY <1>5, SettledOnce
    <2>2. ASSUME NEW e \in pq' PROVE e.h < Inf
      <3>1. CASE e \in pq BY <3>1, <1>5 DEF Loop, NoneInfinite
      <3>2. CASE e \notin pq
        <4>1. PICK s \in NodeSteps(query.net) :
                /\ s.from = r.n /\ s.to = e.n /\ s.c \in Nat
                /\ e.h = r.d + s.c + query.heur[e.n] /\ r.d + s.c < Inf
          BY <1>1, <3>2, RelaxedIs
        <4>2. s.to \in query.net.nodes BY <1>1, QueryFacts DEF StepsOf
        <4>3. query.heur[e.n] \in Nat BY <4>1, <4>2, <1>1, QueryFacts
        <4>4. ~ (Cost[s.from] + s.c < Inf /\ Cost[s.from] + s.c + query.heur[s.to] >= Inf)
          BY <1>5, UsableIs
        <4>5. ~ (r.d + s.c + query.heur[e.n] >= Inf) BY <4>1, <4>4, <2>1
        <4> QED BY <4>1, <4>3, <4>5, <1>2, InfAssumption
      <3> QED BY <3>1, <3>2
    <2> QED BY <2>2 DEF NoneInfinite
  <1>6. TargetsCounted'
    <2>1. CASE query.form = "many"
      <3>1. r.n \notin DOMAIN settled BY <2>1, SettledOnce
      <3>2. found = Cardinality(DOMAIN settled \cap query.dst)
        BY <2>1 DEF Loop, TargetsCounted
      <3>3. DOMAIN settled' = DOMAIN settled \cup {r.n} BY <1>1 DEF Done
      <3>4. IsFiniteSet(query.dst)
        <4>1. IsFiniteSet(query.net.nodes) /\ query.dst \subseteq query.net.nodes
          BY <1>1, QueryFacts DEF IsNet
        <4> QED BY <4>1, FS_Subset
      <3>5. IsFiniteSet(DOMAIN settled \cap query.dst)
        <4>1. DOMAIN settled \cap query.dst \subseteq query.dst OBVIOUS
        <4> QED BY <4>1, <3>4, FS_Subset
      <3>6. CASE r.n \in query.dst
        <4>1. DOMAIN settled' \cap query.dst = (DOMAIN settled \cap query.dst) \cup {r.n}
          BY <3>3, <3>6
        <4>2. r.n \notin DOMAIN settled \cap query.dst BY <3>1
        <4>3. Cardinality(DOMAIN settled' \cap query.dst)
                = Cardinality(DOMAIN settled \cap query.dst) + 1
          BY <4>1, <4>2, <3>5, FS_AddElement
        <4> QED BY <4>3, <3>2, <3>6, <1>1, <2>1 DEF TargetsCounted, Hits
      <3>7. CASE r.n \notin query.dst
        <4>1. DOMAIN settled' \cap query.dst = DOMAIN settled \cap query.dst
          BY <3>3, <3>7
        <4>2. found \in Nat BY DEF SearchTypes
        <4>3. found' = found BY <4>2, <3>7, <1>1 DEF Hits
        <4> QED BY <4>1, <4>3, <3>2, <1>1, <2>1 DEF TargetsCounted
      <3> QED BY <3>6, <3>7
    <2>2. CASE query.form # "many"
      <3>1. found = 0 /\ DOMAIN settled \cap query.dst = {} BY <2>2 DEF Loop, TargetsCounted
      <3>2. r.n \notin query.dst BY <2>2, <3>1 DEF IsLast, Hits
      <3>3. DOMAIN settled' \cap query.dst = {} BY <3>1, <3>2, <1>1 DEF Done
      <3>4. found' = 0 BY <3>1, <3>2, <1>1 DEF Hits
      <3> QED BY <3>3, <3>4, <2>2, <1>1 DEF TargetsCounted
    <2> QED BY <2>1, <2>2
  <1>7. query.form = "set" => Ordered' BY <1>1 DEF Ordered
  <1>8. query.form # "many" => NoneInfinite' BY <1>1 DEF NoneInfinite
  <1> QED BY <1>4, <1>5, <1>6, <1>7, <1>8

\* The target that ends the search costs what the nearest does, or all targets do
\* what they should.
LEMMA SettleRight ==
  ASSUME SearchTypes, Usable(query), Loop, NEW r, SettleBy(r), IsLast(r)
  PROVE  Right(answer')
  <1>1. r \in pq /\ Entry(r) /\ query \in Queries /\ Entries /\ Frontier
        /\ \A e \in pq : r.h <= e.h
    BY DEF SettleBy, Tops, SearchTypes, Entries, Loop
  <1>2. r.n \in query.net.nodes /\ r.d \in Nat /\ r.h \in Nat /\ r.d < Inf
        /\ (r.h = r.d + query.heur[r.n] \/ (r.d = 0 /\ r.h = 0)) /\ Cost[r.n] <= r.d
    BY <1>1 DEF Entry, EntryAt
  <1>3. query.heur[r.n] \in Nat /\ Cost[r.n] \in 0..Inf BY <1>1, <1>2, QueryFacts
  <1>4. r.d <= r.h BY <1>2, <1>3
  <1>5. CASE query.form # "many"
    <2>1. found = 0 /\ DOMAIN settled \cap query.dst = {} BY <1>5 DEF Loop, TargetsCounted
    <2>2. r.n \in query.dst BY <1>5, <2>1 DEF IsLast, Hits
    <2>3. ASSUME NEW t \in query.dst PROVE r.d <= Cost[t]
      <3>1. Cost[t] \in 0..Inf BY <1>1, QueryFacts
      <3>2. CASE Cost[t] < Inf
        <4>1. PICK e \in pq : e.h <= Cost[t] BY <1>1, <2>1, <3>2, UsableIs, KeysBelow
        <4>2. e.h \in Nat /\ r.h <= e.h BY <1>1 DEF Entries, Entry, EntryAt
        <4> QED BY <4>1, <4>2, <3>1, <1>2, <1>4
      <3>3. CASE ~ (Cost[t] < Inf) BY <3>1, <3>3, <1>2, InfAssumption
      <3> QED BY <3>2, <3>3
    <2>4. r.d = Cost[r.n] BY <1>2, <1>3, <2>2, <2>3
    <2>5. answer' = [t \in query.dst |-> IF t = r.n THEN Cost[r.n] ELSE Inf]
      BY <2>4, <1>5 DEF SettleBy
    <2>6. Cost[r.n] < Inf /\ \A t \in query.dst : Cost[r.n] <= Cost[t] BY <2>3, <2>4, <1>2
    <2> QED BY <2>2, <2>5, <2>6, <1>1, <1>5, OneIsRight
  <1>6. CASE query.form = "many"
    <2>1. r.d = Cost[r.n] /\ r.n \notin DOMAIN settled BY <1>6, SettledOnce
    <2>2. found = Cardinality(DOMAIN settled \cap query.dst)
          /\ Hits(r) = Cardinality(query.dst)
      BY <1>6 DEF Loop, TargetsCounted, IsLast
    <2>3. IsFiniteSet(query.dst)
      <3>1. IsFiniteSet(query.net.nodes) /\ query.dst \subseteq query.net.nodes
        BY <1>1, QueryFacts DEF IsNet
      <3> QED BY <3>1, FS_Subset
    <2> DEFINE A == (DOMAIN settled \cup {r.n}) \cap query.dst
               B == DOMAIN settled \cap query.dst
    <2>4. A \subseteq query.dst /\ B \subseteq query.dst OBVIOUS
    <2>5. Cardinality(A) = Cardinality(query.dst)
      <3>1. IsFiniteSet(B) BY <2>3, <2>4, FS_Subset
      <3>2. Cardinality(B) \in Nat BY <3>1, FS_CardinalityType
      <3>3. CASE r.n \in query.dst
        <4>1. A = B \cup {r.n} /\ r.n \notin B BY <2>1, <3>3
        <4>2. Cardinality(A) = Cardinality(B) + 1 BY <4>1, <3>1, FS_AddElement
        <4> QED BY <4>2, <2>2, <3>3 DEF Hits
      <3>4. CASE r.n \notin query.dst
        <4>1. A = B BY <3>4
        <4>2. found \in Nat BY DEF SearchTypes
        <4>3. Hits(r) = found BY <4>2, <3>4 DEF Hits
        <4> QED BY <4>1, <4>3, <2>2
      <3> QED BY <3>3, <3>4
    <2>6. A = query.dst BY <2>3, <2>4, <2>5, FS_Subset
    <2>7. ASSUME NEW t \in query.dst PROVE answer'[t] = Cost[t]
      <3>1. t \in DOMAIN Done(r) BY <2>6 DEF Done
      <3>2. answer'[t] = Done(r)[t].d BY <3>1, <1>6 DEF SettleBy, Collected
      <3>3. CASE t = r.n
        <4>1. Done(r)[t] = r BY <3>3 DEF Done
        <4> QED BY <4>1, <3>2, <3>3, <2>1
      <3>4. CASE t # r.n
        <4>1. t \in DOMAIN settled /\ Done(r)[t] = settled[t] BY <3>1, <3>4 DEF Done
        <4> QED BY <4>1, <3>2, <1>6 DEF Loop, Ordered
      <3> QED BY <3>3, <3>4
    <2> QED BY <2>7, <1>6 DEF Right
  <1> QED BY <1>5, <1>6

-----------------------------------------------------------------------------
(* The other steps. *)

\* An entry that is thrown away is not missed.
LEMMA SkipLoop ==
  ASSUME SearchTypes, Skip
  PROVE  SearchTypes' /\ (Loop => Loop')
  <1>1. PICK r \in Tops : Stale(r) /\ pq' = pq \ {r} BY DEF Skip
  <1>2. query' = query /\ settled' = settled /\ found' = found /\ answer' = answer
    BY DEF Skip
  <1>3. Cost' = Cost BY <1>2 DEF Cost
  <1>4. r \in pq /\ Entry(r) /\ query \in Queries BY DEF SearchTypes, Entries, Tops
  <1>5. Entries' BY <1>1, <1>2, <1>3 DEF SearchTypes, Entries, Entry
  <1>6. SearchTypes' BY <1>2, <1>5 DEF SearchTypes
  <1>7. ASSUME Loop PROVE Loop'
    <2>1. r.n \in DOMAIN settled /\ settled[r.n].d <= r.d
      <3>1. CASE query.form = "set" BY <3>1, <1>1 DEF Stale, Single
      <3>2. CASE query.form # "set"
        <4>1. r.n \in DOMAIN settled BY <1>1 DEF Stale
        <4>2. settled[r.n].d = Cost[r.n] BY <4>1, <3>2, <1>7 DEF Loop, Ordered
        <4> QED BY <4>1, <4>2, <1>4 DEF Entry, EntryAt
      <3> QED BY <3>1, <3>2
    <2>2. ASSUME NEW x, NEW c \in Nat, KnownIn(pq, settled, x, c)
          PROVE  KnownIn(pq', settled', x, c)
      <3>1. CASE x \in DOMAIN settled /\ settled[x].d <= c BY <3>1, <1>2 DEF KnownIn
      <3>2. ASSUME NEW e \in pq, e.n = x, e.d <= c PROVE KnownIn(pq', settled', x, c)
        <4>1. CASE e = r
          <5>1. settled[r.n].d \in Nat /\ r.d \in Nat
            BY <2>1, <1>4 DEF SearchTypes, Entries, Entry, EntryAt
          <5>2. settled[x].d <= c BY <4>1, <5>1, <3>2, <2>1
          <5> QED BY <4>1, <5>2, <3>2, <2>1, <1>2 DEF KnownIn
        <4>2. CASE e # r BY <4>2, <3>2, <1>1 DEF KnownIn
        <4> QED BY <4>1, <4>2
      <3> QED BY <3>1, <3>2, <2>2 DEF KnownIn
    <2>3. Frontier'
      <3>1. \A x \in query.src : KnownIn(pq', settled', x, 0)
        BY <2>2, <1>7 DEF Loop, Frontier, Known
      <3>2. ASSUME NEW x \in DOMAIN settled, NEW s \in NodeSteps(query.net), s.from = x,
                   settled[x].d + s.c < Inf, query.heur[s.to] < Inf
            PROVE  KnownIn(pq', settled', s.to, settled[x].d + s.c)
        <4>1. s.c \in Nat BY <1>4, QueryFacts DEF StepsOf
        <4>2. settled[x].d \in Nat BY DEF SearchTypes, Entries, Entry, EntryAt
        <4>3. settled[x].d + s.c \in Nat BY <4>1, <4>2
        <4>4. KnownIn(pq, settled, s.to, settled[x].d + s.c)
          BY <3>2, <1>7 DEF Loop, Frontier, Known
        <4> QED BY <4>3, <4>4, <2>2
      <3> QED BY <3>1, <3>2, <1>2 DEF Frontier, Known
    <2>4. Ordered' /\ NoneInfinite' /\ TargetsCounted'
      BY <1>1, <1>2, <1>3, <1>7 DEF Loop, Ordered, NoneInfinite, TargetsCounted
    <2> QED BY <2>3, <2>4 DEF Loop
  <1> QED BY <1>6, <1>7

\* Giving up keeps the types.
LEMMA GiveUpTypes ==
  ASSUME SearchTypes, GiveUp
  PROVE  SearchTypes'
  <1>1. query' = query /\ pq' = pq /\ settled' = settled /\ found' = found BY DEF GiveUp
  <1>2. Entries' BY <1>1 DEF SearchTypes, Entries, Entry, Cost
  <1>3. AllInf(query.dst) \in [query.dst -> 0..Inf] BY InfAssumption DEF AllInf
  <1>4. Collected(settled) \in [query.dst -> 0..Inf]
    <2>1. \A t \in DOMAIN settled : settled[t].d \in 0..Inf
      BY InfAssumption DEF SearchTypes, Entries, Entry, EntryAt
    <2> QED BY <2>1, InfAssumption DEF Collected
  <1>5. answer' \in [query.dst -> 0..Inf] BY <1>3, <1>4 DEF GiveUp
  <1> QED BY <1>1, <1>2, <1>5 DEF SearchTypes

\* A search starts with its sources as the frontier.
LEMMA StartTypes ==
  ASSUME NEW q \in Queries, Start(q), settled = <<>>, found = 0
  PROVE  SearchTypes' /\ (answer' = <<>> /\ q.dst # {} => Loop')
  <1>0. /\ IsNet(q.net) /\ q.src \subseteq q.net.nodes /\ q.heur \in [q.net.nodes -> Nat]
        /\ \A x \in q.src : DistFrom(q.net, q.src)[x] = 0
    BY QueriesAssumption, DistFacts
  <1>1. /\ query' = q /\ settled' = <<>> /\ found' = 0 /\ Cost' = DistFrom(q.net, q.src)
        /\ DOMAIN settled' = {}
    BY EmptyFunction DEF Start, Cost
  <1>2. ASSUME NEW e \in pq'
        PROVE  /\ EntryAt(q, DistFrom(q.net, q.src), e) /\ e.h = 0
    <2>1. PICK n \in q.src : e = [n |-> n, parent |-> NoNode, d |-> 0, h |-> 0]
      BY <1>2 DEF Start
    <2>2. e.n = n /\ e.d = 0 /\ e.h = 0 BY <2>1
    <2> QED BY <2>2, <1>0, InfAssumption DEF EntryAt
  <1>3. Entries' BY <1>1, <1>2 DEF Entries, Entry
  <1>4. AllInf(q.dst) \in [q.dst -> 0..Inf] BY InfAssumption DEF AllInf
  <1>5. answer' = <<>> \/ answer' = AllInf(q.dst) BY DEF Start
  <1>6. SearchTypes' BY <1>1, <1>3, <1>4, <1>5 DEF SearchTypes
  <1>7. ASSUME answer' = <<>>, q.dst # {} PROVE Loop'
    <2>1. AllInf(q.dst) # <<>> BY <1>4, <1>7, EmptyFunction
    <2>2. ~AtOnce(q) BY <2>1, <1>7 DEF Start
    <2>3. ASSUME NEW x \in q.src PROVE KnownIn(pq', settled', x, 0)
      <3>1. [n |-> x, parent |-> NoNode, d |-> 0, h |-> 0] \in pq' BY <2>2 DEF Start
      <3> QED BY <3>1 DEF KnownIn
    <2>4. Frontier' BY <2>3, <1>1 DEF Frontier, Known
    <2>5. Ordered' BY <1>1 DEF Ordered
    <2>6. NoneInfinite' BY <1>2, InfAssumption DEF NoneInfinite
    <2>7. TargetsCounted'
      <3>1. DOMAIN settled' \cap query'.dst = {} BY <1>1
      <3>2. Cardinality({}) = 0 BY FS_EmptySet
      <3> QED BY <3>1, <3>2, <1>1 DEF TargetsCounted
    <2> QED BY <2>4, <2>5, <2>6, <2>7 DEF Loop
  <1> QED BY <1>6, <1>7

\* The early returns are right, if the search does not start at a target.
LEMMA AtOnceRight ==
  ASSUME NEW q \in Queries, AtOnce(q), q.src \cap q.dst = {}, NEW t \in q.dst
  PROVE  DistFrom(q.net, q.src)[t] = Inf
  <1>0. /\ IsNet(q.net) /\ q.src \subseteq q.net.nodes /\ q.dst \subseteq q.net.nodes
        /\ q.form # "set" => \E n \in q.src : q.src = {n}
        /\ q.form = "pair" => \E x \in q.dst : q.dst = {x}
    BY QueriesAssumption
  <1>1. DistFrom(q.net, q.src)[t] \in 0..Inf BY <1>0, DistFacts
  <1>2. ASSUME NEW S,
               \A x \in q.src : <<x, 0>> \in S,
               \A x \in q.net.nodes, c \in Nat, s \in NodeSteps(q.net) :
                 <<x, c>> \in S /\ s.from = x /\ c + s.c < Inf => <<s.to, c + s.c>> \in S,
               \A c : <<t, c>> \notin S
        PROVE  DistFrom(q.net, q.src)[t] = Inf
    <2>1. DistFrom(q.net, q.src)[t] < Inf
            => <<t, DistFrom(q.net, q.src)[t]>> \in S
      BY <1>0, <1>2, DistFacts
    <2> QED BY <2>1, <1>1, <1>2, InfAssumption
  <1>3. CASE q.form # "set" /\ \E n \in q.src : AdjOut(q.net, n) = {}
    <2>1. PICK n \in q.src : q.src = {n} /\ AdjOut(q.net, n) = {} BY <1>0, <1>3
    <2>2. \A s \in NodeSteps(q.net) : s.from # n BY <2>1, <1>0, EdgesAreSteps
    <2> DEFINE S == {p \in q.net.nodes \X Nat : p[1] = n}
    <2>3. \A x \in q.src : <<x, 0>> \in S BY <2>1, <1>0
    <2>4. \A x \in q.net.nodes, c \in Nat, s \in NodeSteps(q.net) :
            <<x, c>> \in S /\ s.from = x /\ c + s.c < Inf => <<s.to, c + s.c>> \in S
      BY <2>2
    <2>5. \A c : <<t, c>> \notin S
      <3>1. t # n BY <2>1
      <3> QED BY <3>1
    <2> HIDE DEF S
    <2> QED BY <2>3, <2>4, <2>5, <1>2
  <1>4. CASE q.form = "pair" /\ \E x \in q.dst : AdjIn(q.net, x) = {}
    <2>1. AdjIn(q.net, t) = {} BY <1>0, <1>4
    <2>2. \A s \in NodeSteps(q.net) : s.to # t BY <2>1 DEF NodeSteps, AdjIn
    <2> DEFINE S == {p \in q.net.nodes \X Nat : p[1] # t}
    <2>3. \A x \in q.src : <<x, 0>> \in S BY <1>0
    <2>4. \A x \in q.net.nodes, c \in Nat, s \in NodeSteps(q.net) :
            <<x, c>> \in S /\ s.from = x /\ c + s.c < Inf => <<s.to, c + s.c>> \in S
      BY <2>2, <1>0, StepsAre DEF StepsOf
    <2>5. \A c : <<t, c>> \notin S OBVIOUS
    <2> HIDE DEF S
    <2> QED BY <2>3, <2>4, <2>5, <1>2
  <1>5. q.form = "many" => q.dst # {} OBVIOUS
  <1> QED BY <1>3, <1>4, <1>5 DEF AtOnce

-----------------------------------------------------------------------------
\* The inductive invariant.
SearchIInv ==
  /\ query = NoQuery => pq = {} /\ settled = <<>> /\ found = 0 /\ answer = <<>>
  /\ query # NoQuery => SearchTypes
  /\ Running /\ query.dst # {} /\ Usable(query) => Loop
  /\ Shortest

\* A right answer makes Shortest hold.
LEMMA RightIsShortest ==
  ASSUME query' = query, Finished' /\ Usable(query) => Right(answer')
  PROVE  Shortest'
  BY DEF Shortest, Right, Finished, Reached, Cost

\* SearchIInv is inductive: the start, and one lemma for each action.
LEMMA SearchInitOK == ASSUME SearchInit PROVE SearchIInv
  BY DEF SearchInit, SearchIInv, Running, Shortest, Finished

LEMMA StartOK ==
  ASSUME SearchIInv, query = NoQuery, NEW q \in Queries, Start(q)
  PROVE  SearchIInv'
  <1>1. settled = <<>> /\ found = 0 BY DEF SearchIInv
  <1>2. SearchTypes' /\ (answer' = <<>> /\ q.dst # {} => Loop') BY <1>1, StartTypes
  <1>3. query' = q /\ q # NoQuery BY QueriesAssumption DEF Start, NoQuery
  <1>4. Shortest'
    <2> SUFFICES ASSUME answer' # <<>>, ~ (AtOnce(q) /\ q.src \cap q.dst # {})
                 PROVE  LET dist == DistFrom(q.net, q.src)
                            near == Min({dist[t] : t \in q.dst} \cup {Inf})
                            reached == {t \in DOMAIN answer' : answer'[t] < Inf}
                        IN /\ q.form = "many" => \A t \in q.dst : answer'[t] = dist[t]
                           /\ q.form # "many" =>
                                /\ near < Inf => Cardinality(reached) = 1
                                /\ \A t \in reached : answer'[t] = near /\ dist[t] = near
      BY <1>3 DEF Shortest, Finished, Reached
    <2>1. AtOnce(q) /\ answer' = AllInf(q.dst) BY DEF Start
    <2>2. \A t \in q.dst : DistFrom(q.net, q.src)[t] = Inf BY <2>1, AtOnceRight
    <2>3. \A t \in q.dst : answer'[t] = DistFrom(q.net, q.src)[t] BY <2>1, <2>2 DEF AllInf
    <2> DEFINE A == {DistFrom(q.net, q.src)[t] : t \in q.dst} \cup {Inf}
    <2>4. A = {Inf} BY <2>2
    <2>5. Min({Inf}) = Inf
      <3>1. {Inf} \subseteq Nat /\ {Inf} # {} BY InfAssumption
      <3>2. Min({Inf}) \in {Inf} BY <3>1, LeastIn
      <3> QED BY <3>2
    <2>6. ~ (Min(A) < Inf)
      <3> HIDE DEF A
      <3> QED BY <2>4, <2>5, InfAssumption
    <2>7. {t \in DOMAIN answer' : answer'[t] < Inf} = {} BY <2>1, InfAssumption DEF AllInf
    <2> QED BY <2>3, <2>6, <2>7
  <1> QED BY <1>2, <1>3, <1>4 DEF SearchIInv, Running

LEMMA GiveUpOK == ASSUME SearchIInv, GiveUp PROVE SearchIInv'
  <1>1. Running /\ query' = query BY DEF GiveUp
  <1>2. query # NoQuery /\ SearchTypes BY <1>1 DEF SearchIInv, Running
  <1>3. SearchTypes' BY <1>2, GiveUpTypes
  <1>4. ASSUME query.dst # {} PROVE answer' # <<>>
    <2>1. DOMAIN answer' = query.dst BY DEF GiveUp, Collected, AllInf
    <2> QED BY <2>1, <1>4, EmptyFunction
  <1>5. ASSUME Finished', Usable(query) PROVE Right(answer')
    <2>1. CASE query.dst = {}
      <3>1. answer' \in [query.dst -> 0..Inf]
        BY <1>1, <1>3, <1>5 DEF SearchTypes, Finished
      <3> QED BY <2>1, <3>1, <1>2, NoTargetIsRight DEF SearchTypes
    <2>2. CASE query.dst # {} BY <2>2, <1>1, <1>2, <1>5, GiveUpRight DEF SearchIInv
    <2> QED BY <2>1, <2>2
  <1>6. Shortest' BY <1>1, <1>5, RightIsShortest
  <1> QED BY <1>1, <1>2, <1>3, <1>4, <1>6 DEF SearchIInv, Running

LEMMA SkipOK == ASSUME SearchIInv, Skip PROVE SearchIInv'
  <1>1. Running /\ query' = query /\ answer' = answer BY DEF Skip
  <1>2. query # NoQuery /\ SearchTypes BY <1>1 DEF SearchIInv, Running
  <1>3. SearchTypes' /\ (Loop => Loop') BY <1>2, SkipLoop
  <1>4. Shortest' BY <1>1 DEF Running, Shortest, Finished
  <1> QED BY <1>1, <1>2, <1>3, <1>4 DEF SearchIInv, Running

LEMMA SettleOK == ASSUME SearchIInv, Settle PROVE SearchIInv'
  <1>1. PICK r : SettleBy(r) BY SettleHow
  <1>2. Running /\ query' = query BY <1>1, SettleHow DEF SettleBy
  <1>3. query # NoQuery /\ SearchTypes /\ query \in Queries
    BY <1>2 DEF SearchIInv, Running, SearchTypes
  <1>4. SearchTypes' BY <1>3, SettleTypes
  <1>5. ASSUME query.dst # {}, Usable(query) PROVE Loop
    BY <1>2, <1>5 DEF SearchIInv
  <1>6. ASSUME query.dst # {}, IsLast(r) PROVE answer' # <<>>
    <2>1. DOMAIN answer' = query.dst BY <1>1, <1>6 DEF SettleBy, Collected
    <2> QED BY <2>1, <1>6, EmptyFunction
  <1>7. ASSUME Running', query.dst # {}, Usable(query) PROVE Loop'
    <2>1. ~IsLast(r) BY <1>6, <1>7 DEF Running
    <2>2. Loop BY <1>5, <1>7
    <2>3. Frontier' BY <2>1, <2>2, <1>1, <1>3, SettleFrontier DEF Loop
    <2> QED BY <2>1, <2>2, <2>3, <1>1, <1>3, <1>7, SettleOrdered DEF Loop
  <1>8. ASSUME Finished', Usable(query) PROVE Right(answer')
    <2>1. IsLast(r) BY <1>1, <1>8 DEF SettleBy, Finished
    <2>2. CASE query.dst = {}
      <3>1. answer' \in [query.dst -> 0..Inf]
        BY <1>2, <1>4, <1>8 DEF SearchTypes, Finished
      <3> QED BY <2>2, <3>1, <1>3, NoTargetIsRight
    <2>3. CASE query.dst # {}
      BY <2>1, <2>3, <1>1, <1>3, <1>5, <1>8, SettleRight
    <2> QED BY <2>2, <2>3
  <1>9. Shortest' BY <1>2, <1>8, RightIsShortest
  <1> QED BY <1>2, <1>3, <1>4, <1>7, <1>9 DEF SearchIInv

\* The actions together.
LEMMA SearchStep == ASSUME SearchIInv, [SearchNext]_nodeVars PROVE SearchIInv'
  <1>1. CASE query = NoQuery /\ \E q \in Queries : Start(q) BY <1>1, StartOK
  <1>2. CASE GiveUp BY <1>2, GiveUpOK
  <1>3. CASE Skip BY <1>3, SkipOK
  <1>4. CASE Settle BY <1>4, SettleOK
  <1>5. CASE UNCHANGED nodeVars
    <2>1. query' = query /\ pq' = pq /\ settled' = settled /\ found' = found
          /\ answer' = answer
      BY <1>5 DEF nodeVars
    <2>2. SearchTypes' = SearchTypes
      BY <2>1 DEF SearchTypes, Entries, Entry, Cost
    <2>3. Loop' = Loop
      BY <2>1 DEF Loop, Frontier, Ordered, NoneInfinite, TargetsCounted, Known, Cost
    <2>4. Shortest' = Shortest BY <2>1 DEF Shortest, Finished, Reached
    <2> QED BY <2>1, <2>2, <2>3, <2>4 DEF SearchIInv, Running
  <1> QED BY <1>1, <1>2, <1>3, <1>4, <1>5 DEF SearchNext, SearchRound

\* It implies the type invariant.
LEMMA SearchIInvTypes == ASSUME SearchIInv PROVE SearchTypeOK
  <1> SUFFICES ASSUME query # NoQuery, SearchTypes
               PROVE  /\ \A r \in pq : r.n \in query.net.nodes /\ r.d \in 0..Inf /\ r.h \in Nat
                      /\ DOMAIN settled \subseteq query.net.nodes
                      /\ found \in Nat
                      /\ answer = <<>> \/ answer \in [query.dst -> 0..Inf]
    BY DEF SearchIInv, SearchTypeOK
  <1>1. \A r \in pq : r.n \in query.net.nodes /\ r.d \in 0..Inf /\ r.h \in Nat
    BY InfAssumption DEF SearchTypes, Entries, Entry, EntryAt
  <1> QED BY <1>1 DEF SearchTypes, Entries

-----------------------------------------------------------------------------
(* The tree of the settled nodes. *)

\* The searches that start at one node and end at one target.
IsSingle(q) == q.form \in {"one", "pair"}

\* Where an entry comes from: it is a source, or a step leads to it from its
\* parent, who may have become cheaper in the forms that settle nodes again.
OriginIn(q, fin, r) ==
  \/ r.parent = NoNode /\ r.n \in q.src /\ r.d = 0
  \/ /\ r.parent \in DOMAIN fin
     /\ \E s \in NodeSteps(q.net) :
          /\ s.from = r.parent /\ s.to = r.n
          /\ fin[r.parent].d + s.c <= r.d
          /\ IsSingle(q) => fin[r.parent].d + s.c = r.d

\* All that is queued or settled has an origin.
Origins(q, queue, fin) ==
  /\ \A r \in queue : OriginIn(q, fin, r)
  /\ \A n \in DOMAIN fin : OriginIn(q, fin, fin[n])

\* A parent is cheaper, or costs as much and was settled before.
Earlier(fin, time, a, b) ==
  fin[a].d < fin[b].d \/ (fin[a].d = fin[b].d /\ time[a] < time[b])

\* The nodes are settled at some times, no parent after its child.
InTime(fin, time, now, none) ==
  /\ \A n \in DOMAIN fin : time[n] < now
  /\ \A n \in DOMAIN fin : fin[n].parent # none => Earlier(fin, time, fin[n].parent, n)

\* There are such times.
Timed(fin, none) == \E time \in [DOMAIN fin -> Nat], now \in Nat : InTime(fin, time, now, none)

\* A search from one node takes the cheapest step from the parent.
StepsTaken(q, fin) ==
  IsSingle(q) =>
    \A n \in DOMAIN fin, s \in NodeSteps(q.net) :
      fin[n].parent # NoNode /\ s.from = fin[n].parent /\ s.to = n
      => fin[n].d <= fin[s.from].d + s.c

\* A step from a settled node that is not taken yet is queued, or its end settled.
StepsLeft(q, queue, fin) ==
  IsSingle(q) =>
    \A x \in DOMAIN fin, s \in NodeSteps(q.net) :
      s.from = x /\ fin[x].d + s.c < Inf /\ q.heur[s.to] < Inf
      => s.to \in DOMAIN fin \/ \E e \in queue : e.n = s.to /\ e.d <= fin[x].d + s.c

\* A finite answer is the cost at which its target was settled.
AnswerSettled(fin, ans) == \A t \in DOMAIN ans \cap DOMAIN fin : ans[t] < Inf => ans[t] = fin[t].d

\* The settled nodes form a tree; inductive on top of SearchIInv.
SettledTree ==
  query # NoQuery =>
    /\ Origins(query, pq, settled) /\ Timed(settled, NoNode)
    /\ query.dst # {} => StepsTaken(query, settled)
    /\ query.dst # {} /\ Running => StepsLeft(query, pq, settled)
    /\ Finished => AnswerSettled(settled, answer)
    /\ AtOnce(query) => settled = <<>> /\ pq = {}

\* A settled node that is settled again costs less than before.
LEMMA SettlesBelow ==
  ASSUME SearchTypes, NEW r, SettleBy(r), r.n \in DOMAIN settled
  PROVE  ~IsSingle(query) /\ r.d < settled[r.n].d
  <1>1. ~ (Single \/ settled[r.n].d <= r.d) BY DEF SettleBy, Stale
  <1>2. r \in pq BY DEF SettleBy, Tops
  <1>3. r.d \in Nat /\ settled[r.n].d \in Nat
    BY <1>2 DEF SearchTypes, Entries, Entry, EntryAt
  <1> QED BY <1>1, <1>3 DEF Single, IsSingle

\* What comes from settled nodes still does when one is settled (again).
LEMMA OriginStays ==
  ASSUME SearchTypes, NEW r, SettleBy(r), NEW e, OriginIn(query, settled, e), e.d \in Nat
  PROVE  OriginIn(query, settled', e)
  <1>1. CASE e.parent = NoNode /\ e.n \in query.src /\ e.d = 0 BY <1>1 DEF OriginIn
  <1>2. ASSUME e.parent \in DOMAIN settled, NEW s \in NodeSteps(query.net),
               s.from = e.parent, s.to = e.n, settled[e.parent].d + s.c <= e.d,
               IsSingle(query) => settled[e.parent].d + s.c = e.d
        PROVE  OriginIn(query, settled', e)
    <2>1. settled' = Done(r) BY DEF SettleBy
    <2>2. e.parent \in DOMAIN settled' BY <1>2, <2>1 DEF Done
    <2>3. CASE e.parent # r.n
      <3>1. settled'[e.parent] = settled[e.parent] BY <2>1, <2>2, <2>3 DEF Done
      <3> QED BY <3>1, <2>2, <1>2 DEF OriginIn
    <2>4. CASE e.parent = r.n
      <3>1. settled'[e.parent] = r BY <2>1, <2>4 DEF Done
      <3>2. ~IsSingle(query) /\ r.d < settled[r.n].d BY <1>2, <2>4, SettlesBelow
      <3>3. r \in pq BY DEF SettleBy, Tops
      <3>4. r.d \in Nat /\ settled[r.n].d \in Nat
        BY <1>2, <2>4, <3>3 DEF SearchTypes, Entries, Entry, EntryAt
      <3>5. s.c \in Nat BY QueryFacts DEF SearchTypes, StepsOf
      <3>6. r.d + s.c <= e.d BY <3>2, <3>4, <3>5, <1>2, <2>4
      <3> QED BY <3>1, <3>2, <3>6, <2>2, <1>2 DEF OriginIn
    <2> QED BY <2>3, <2>4
  <1> QED BY <1>1, <1>2 DEF OriginIn

\* What is relaxed comes from the node settled.
LEMMA RelaxedOrigin ==
  ASSUME SearchTypes, NEW r, SettleBy(r), NEW e \in Relaxed(r)
  PROVE  OriginIn(query, settled', e)
  <1>1. query \in Queries /\ r \in pq /\ Entry(r) /\ settled' = Done(r)
    BY DEF SettleBy, Tops, SearchTypes, Entries
  <1>2. PICK s \in NodeSteps(query.net) :
          s.from = r.n /\ s.to = e.n /\ s.c \in Nat /\ e.d = r.d + s.c
    BY <1>1, RelaxedIs
  <1>3. e.parent = r.n BY DEF Relaxed
  <1>4. r.n \in DOMAIN settled' /\ settled'[r.n] = r BY <1>1 DEF Done
  <1>5. r.d \in Nat BY <1>1 DEF Entry, EntryAt
  <1>6. settled'[e.parent].d + s.c = e.d BY <1>2, <1>3, <1>4
  <1>7. settled'[e.parent].d + s.c <= e.d BY <1>2, <1>5, <1>6
  <1> QED BY <1>2, <1>3, <1>4, <1>6, <1>7 DEF OriginIn

\* Settling a node keeps each part of SettledTree.
LEMMA SettleOrigins ==
  ASSUME SearchTypes, NEW r, SettleBy(r), Origins(query, pq, settled)
  PROVE  Origins(query, pq', settled')
  <1>1. r \in pq /\ settled' = Done(r) BY DEF SettleBy, Tops
  <1>2. \A e \in pq : OriginIn(query, settled', e)
    <2>1. \A e \in pq : e.d \in Nat BY DEF SearchTypes, Entries, Entry, EntryAt
    <2> QED BY <2>1, OriginStays DEF Origins
  <1>3. \A n \in DOMAIN settled : OriginIn(query, settled', settled[n])
    <2>1. \A n \in DOMAIN settled : settled[n].d \in Nat
      BY DEF SearchTypes, Entries, Entry, EntryAt
    <2> QED BY <2>1, OriginStays DEF Origins
  <1>4. \A e \in pq' : e \in pq \/ e \in Relaxed(r) BY DEF SettleBy
  <1>5. \A e \in pq' : OriginIn(query, settled', e) BY <1>2, <1>4, RelaxedOrigin
  <1>6. ASSUME NEW n \in DOMAIN settled' PROVE OriginIn(query, settled', settled'[n])
    <2>1. settled'[n] = r \/ (n \in DOMAIN settled /\ settled'[n] = settled[n])
      BY <1>1, <1>6 DEF Done
    <2> QED BY <2>1, <1>1, <1>2, <1>3
  <1> QED BY <1>5, <1>6 DEF Origins

\* The node settled gets a time after all others; if it was settled before, its own
\* children are dearer.
LEMMA SettleTimed ==
  ASSUME SearchTypes, NEW r, SettleBy(r), Origins(query, pq, settled), Timed(settled, NoNode)
  PROVE  Timed(settled', NoNode)
  <1>1. r \in pq /\ settled' = Done(r) /\ query \in Queries
    BY DEF SettleBy, Tops, SearchTypes
  <1>2. PICK time \in [DOMAIN settled -> Nat], now \in Nat : InTime(settled, time, now, NoNode)
    BY DEF Timed
  <1> DEFINE tick == [n \in DOMAIN settled' |-> IF n = r.n THEN now ELSE time[n]]
  <1>3. DOMAIN settled' = DOMAIN settled \cup {r.n}
        /\ settled'[r.n] = r
        /\ \A n \in DOMAIN settled : n # r.n => settled'[n] = settled[n]
    BY <1>1 DEF Done
  <1>4. tick \in [DOMAIN settled' -> Nat] /\ tick[r.n] = now
        /\ \A n \in DOMAIN settled : n # r.n => tick[n] = time[n]
    BY <1>3
  <1> HIDE DEF tick
  <1>5. now + 1 \in Nat /\ \A n \in DOMAIN settled' : tick[n] < now + 1
    <2>1. ASSUME NEW n \in DOMAIN settled' PROVE tick[n] < now + 1
      <3>1. CASE n = r.n BY <3>1, <1>4
      <3>2. CASE n # r.n
        <4>1. n \in DOMAIN settled /\ time[n] \in Nat /\ time[n] < now
          BY <3>2, <1>2, <1>3 DEF InTime
        <4> QED BY <4>1, <3>2, <1>4
      <3> QED BY <3>1, <3>2
    <2> QED BY <2>1
  <1>6. r.d \in Nat /\ \A n \in DOMAIN settled : settled[n].d \in Nat
    BY <1>1 DEF SearchTypes, Entries, Entry, EntryAt
  <1>7. ASSUME NEW n \in DOMAIN settled', settled'[n].parent # NoNode
        PROVE  Earlier(settled', tick, settled'[n].parent, n)
    <2>1. CASE n = r.n
      <3> DEFINE p == r.parent
      <3>1. p # NoNode /\ settled'[n].parent = p BY <2>1, <1>3, <1>7
      <3>2. PICK s \in NodeSteps(query.net) :
              p \in DOMAIN settled /\ s.to = r.n /\ s.from = p /\ settled[p].d + s.c <= r.d
        BY <3>1, <1>1 DEF Origins, OriginIn
      <3>3. s.c \in Nat BY <1>1, QueryFacts DEF StepsOf
      <3>4. settled[p].d <= r.d BY <3>2, <3>3, <1>6
      <3>5. p # r.n
        <4>1. SUFFICES ASSUME p = r.n PROVE FALSE OBVIOUS
        <4>2. r.n \in DOMAIN settled /\ settled[r.n].d <= r.d BY <4>1, <3>2, <3>4
        <4> QED BY <4>2, <1>6, SettlesBelow
      <3>6. settled'[p] = settled[p] /\ tick[p] = time[p] /\ time[p] < now
        BY <3>2, <3>5, <1>2, <1>3, <1>4 DEF InTime
      <3>7. settled'[p].d < settled'[n].d
            \/ (settled'[p].d = settled'[n].d /\ tick[p] < tick[n])
        BY <2>1, <3>2, <3>4, <3>6, <1>3, <1>4, <1>6
      <3> QED BY <3>1, <3>7 DEF Earlier
    <2>2. CASE n # r.n
      <3> DEFINE p == settled[n].parent
      <3>1. n \in DOMAIN settled /\ settled'[n] = settled[n] /\ p # NoNode
            /\ settled'[n].parent = p /\ tick[n] = time[n]
        BY <2>2, <1>3, <1>4, <1>7
      <3>2. Earlier(settled, time, p, n) BY <3>1, <1>2 DEF InTime
      <3>3. p \in DOMAIN settled BY <3>1 DEF Origins, OriginIn
      <3>4. CASE p # r.n
        <4>1. settled'[p] = settled[p] /\ tick[p] = time[p] BY <3>3, <3>4, <1>3, <1>4
        <4> QED BY <4>1, <3>1, <3>2 DEF Earlier
      <3>5. CASE p = r.n
        <4>1. settled'[p] = r /\ r.d < settled[p].d BY <3>3, <3>5, <1>3, SettlesBelow
        <4>2. settled[p].d <= settled[n].d BY <3>1, <3>2, <3>3, <1>6 DEF Earlier
        <4>3. settled'[p].d < settled'[n].d BY <4>1, <4>2, <3>1, <3>3, <1>6
        <4> QED BY <4>3, <3>1 DEF Earlier
      <3> QED BY <3>4, <3>5
    <2> QED BY <2>1, <2>2
  <1> QED BY <1>4, <1>5, <1>7 DEF Timed, InTime

\* The step that is taken is the cheapest of those that lead from the parent.
LEMMA SettleSteps ==
  ASSUME SearchTypes, NEW r, SettleBy(r), Origins(query, pq, settled),
         StepsTaken(query, settled), StepsLeft(query, pq, settled)
  PROVE  /\ StepsTaken(query, settled')
         /\ ~IsLast(r) => StepsLeft(query, pq', settled')
  <1> SUFFICES ASSUME IsSingle(query)
               PROVE  /\ StepsTaken(query, settled')
                      /\ ~IsLast(r) => StepsLeft(query, pq', settled')
    BY DEF StepsTaken, StepsLeft
  <1>1. r \in pq /\ settled' = Done(r) /\ query \in Queries /\ Entry(r)
        /\ (\A e \in pq : r.h <= e.h) /\ r.h < Inf
    BY DEF SettleBy, Tops, SearchTypes, Entries
  <1>2. r.n \notin DOMAIN settled BY SettlesBelow
  <1>3. DOMAIN settled' = DOMAIN settled \cup {r.n} /\ settled'[r.n] = r
        /\ \A n \in DOMAIN settled : settled'[n] = settled[n]
    BY <1>1, <1>2 DEF Done
  <1>4. r.n \in query.net.nodes /\ r.d \in Nat /\ r.h \in Nat /\ r.d < Inf
        /\ (r.h = r.d + query.heur[r.n] \/ (r.d = 0 /\ r.h = 0))
    BY <1>1 DEF Entry, EntryAt
  <1>5. query.heur[r.n] \in Nat BY <1>1, <1>4, QueryFacts
  <1>6. ASSUME NEW n \in DOMAIN settled', NEW s \in NodeSteps(query.net),
               settled'[n].parent # NoNode, s.from = settled'[n].parent, s.to = n
        PROVE  settled'[n].d <= settled'[s.from].d + s.c
    <2>1. CASE n # r.n
      <3>1. n \in DOMAIN settled /\ settled'[n] = settled[n] BY <2>1, <1>3
      <3>2. s.from \in DOMAIN settled BY <3>1, <1>6 DEF Origins, OriginIn
      <3>3. settled[n].d <= settled[s.from].d + s.c BY <3>1, <1>6 DEF StepsTaken
      <3> QED BY <3>1, <3>2, <3>3, <1>3
    <2>2. CASE n = r.n
      <3>1. s.from = r.parent /\ r.parent # NoNode /\ settled'[n] = r BY <2>2, <1>3, <1>6
      <3>2. s.from \in DOMAIN settled BY <3>1, <1>1 DEF Origins, OriginIn
      <3>3. settled'[s.from] = settled[s.from] BY <3>2, <1>3
      <3>4. settled[s.from].d \in Nat BY <3>2 DEF SearchTypes, Entries, Entry, EntryAt
      <3>5. s.c \in Nat BY <1>1, QueryFacts DEF StepsOf
      <3>6. CASE settled[s.from].d + s.c < Inf /\ query.heur[r.n] < Inf
        <4>1. PICK e \in pq : e.n = r.n /\ e.d <= settled[s.from].d + s.c
          BY <3>2, <3>6, <2>2, <1>2, <1>6 DEF StepsLeft
        <4>2. e.d \in Nat /\ e.h \in Nat /\ r.h <= e.h
              /\ (e.h = e.d + query.heur[r.n] \/ (e.d = 0 /\ e.h = 0))
          BY <4>1, <1>1 DEF SearchTypes, Entries, Entry, EntryAt
        <4>3. r.d <= e.d BY <4>2, <1>4, <1>5
        <4>4. r.d <= settled[s.from].d + s.c BY <4>1, <4>2, <4>3, <3>4, <3>5, <1>4
        <4> QED BY <4>4, <3>1, <3>3
      <3>7. CASE ~ (settled[s.from].d + s.c < Inf)
        <4>1. r.d <= settled[s.from].d + s.c BY <3>4, <3>5, <3>7, <1>4, InfAssumption
        <4> QED BY <4>1, <3>1, <3>3
      <3>8. CASE ~ (query.heur[r.n] < Inf)
        <4>1. r.d = 0 BY <3>8, <1>1, <1>4, <1>5, InfAssumption
        <4>2. r.d <= settled[s.from].d + s.c BY <4>1, <3>4, <3>5
        <4> QED BY <4>2, <3>1, <3>3
      <3> QED BY <3>6, <3>7, <3>8
    <2> QED BY <2>1, <2>2
  <1>7. ASSUME ~IsLast(r), NEW x \in DOMAIN settled', NEW s \in NodeSteps(query.net),
               s.from = x, settled'[x].d + s.c < Inf, query.heur[s.to] < Inf
        PROVE  s.to \in DOMAIN settled' \/ \E e \in pq' : e.n = s.to /\ e.d <= settled'[x].d + s.c
    <2>1. pq' = (pq \ {r}) \cup Relaxed(r) BY <1>7 DEF SettleBy
    <2>2. CASE x = r.n
      <3>1. settled'[x] = r BY <2>2, <1>3
      <3>2. PICK e \in Relaxed(r) : e.n = s.to /\ e.d = r.d + s.c
        BY <2>2, <3>1, <1>1, <1>7, RelaxedHas
      <3>3. s.c \in Nat BY <1>1, QueryFacts DEF StepsOf
      <3>4. e \in pq' /\ e.d <= settled'[x].d + s.c BY <2>1, <3>1, <3>2, <3>3, <1>4
      <3> QED BY <3>2, <3>4
    <2>3. CASE x # r.n
      <3>1. x \in DOMAIN settled /\ settled'[x] = settled[x] BY <2>3, <1>3
      <3>2. s.to \in DOMAIN settled \/ \E e \in pq : e.n = s.to /\ e.d <= settled[x].d + s.c
        BY <3>1, <1>7 DEF StepsLeft
      <3>3. CASE s.to \in DOMAIN settled BY <3>3, <1>3
      <3>4. ASSUME NEW e \in pq, e.n = s.to, e.d <= settled[x].d + s.c
            PROVE  s.to \in DOMAIN settled'
                   \/ \E f \in pq' : f.n = s.to /\ f.d <= settled'[x].d + s.c
        <4>1. CASE e = r BY <4>1, <3>4, <1>3
        <4>2. CASE e # r
          <5>1. e \in pq' BY <4>2, <2>1
          <5> QED BY <5>1, <3>1, <3>4
        <4> QED BY <4>1, <4>2
      <3> QED BY <3>2, <3>3, <3>4
    <2> QED BY <2>2, <2>3
  <1>8. StepsTaken(query, settled') BY <1>6 DEF StepsTaken
  <1>9. ~IsLast(r) => StepsLeft(query, pq', settled') BY <1>7 DEF StepsLeft
  <1> QED BY <1>8, <1>9

\* The answer is what was settled.
LEMMA SettleAnswer ==
  ASSUME SearchTypes, NEW r, SettleBy(r), IsLast(r)
  PROVE  AnswerSettled(settled', answer')
  <1>1. settled' = Done(r) BY DEF SettleBy
  <1>2. CASE query.form = "many"
    <2>1. answer' = Collected(Done(r)) BY <1>2 DEF SettleBy
    <2> QED BY <1>1, <2>1 DEF AnswerSettled, Collected
  <1>3. CASE query.form # "many"
    <2>1. answer' = [t \in query.dst |-> IF t = r.n THEN r.d ELSE Inf]
      BY <1>3 DEF SettleBy
    <2>2. settled'[r.n] = r BY <1>1 DEF Done
    <2>3. ~ (Inf < Inf) BY InfAssumption
    <2> QED BY <2>1, <2>2, <2>3 DEF AnswerSettled
  <1> QED BY <1>2, <1>3

\* SettledTree is established by the start and kept by every step.
LEMMA StartTree ==
  ASSUME SearchIInv, query = NoQuery, NEW q \in Queries, Start(q) PROVE SettledTree'
  <1>1. settled = <<>> /\ query' = q /\ settled' = <<>> /\ DOMAIN settled' = {}
    BY EmptyFunction DEF SearchIInv, Start
  <1>2. \A e \in pq' : e.parent = NoNode /\ e.n \in q.src /\ e.d = 0 BY DEF Start
  <1>3. Origins(q, pq', settled') BY <1>1, <1>2 DEF Origins, OriginIn
  <1>4. Timed(settled', NoNode)
    <2> DEFINE time == [n \in DOMAIN settled' |-> 0]
    <2>1. time \in [DOMAIN settled' -> Nat] /\ InTime(settled', time, 0, NoNode)
      BY <1>1 DEF InTime
    <2> HIDE DEF time
    <2> QED BY <2>1 DEF Timed
  <1>5. StepsTaken(q, settled') /\ StepsLeft(q, pq', settled') /\ AnswerSettled(settled', answer')
    BY <1>1 DEF StepsTaken, StepsLeft, AnswerSettled
  <1>6. AtOnce(q) => pq' = {} BY DEF Start
  <1> QED BY <1>1, <1>3, <1>4, <1>5, <1>6 DEF SettledTree

LEMMA TreeStep ==
  ASSUME SearchIInv, SettledTree, [SearchNext]_nodeVars PROVE SettledTree'
  <1>1. CASE query = NoQuery /\ \E q \in Queries : Start(q) BY <1>1, StartTree
  <1>2. CASE GiveUp
    <2>1. query' = query /\ pq' = pq /\ settled' = settled /\ Running BY <1>2 DEF GiveUp
    <2>2. query # NoQuery BY <2>1 DEF Running
    <2>3. answer' = Collected(settled) \/ answer' = AllInf(query.dst) BY <1>2 DEF GiveUp
    <2>4. AnswerSettled(settled, answer')
      <3>1. AnswerSettled(settled, Collected(settled)) BY DEF AnswerSettled, Collected
      <3>2. AnswerSettled(settled, AllInf(query.dst))
        BY InfAssumption DEF AnswerSettled, AllInf
      <3> QED BY <2>3, <3>1, <3>2
    <2> QED BY <2>1, <2>2, <2>4 DEF SettledTree, Running
  <1>3. CASE Skip
    <2>1. query' = query /\ settled' = settled /\ answer' = answer /\ Running
      BY <1>3 DEF Skip
    <2>2. PICK r \in pq : Stale(r) /\ pq' = pq \ {r} BY <1>3 DEF Skip, Tops
    <2>3. query # NoQuery BY <2>1 DEF Running
    <2>4. Origins(query, pq', settled) BY <2>2, <2>3 DEF SettledTree, Origins
    <2>5. r.n \in DOMAIN settled BY <2>2 DEF Stale
    <2>6. ASSUME query.dst # {} PROVE StepsLeft(query, pq', settled)
      <3>1. StepsLeft(query, pq, settled) BY <2>1, <2>3, <2>6 DEF SettledTree
      <3>2. \A e \in pq : e \in pq' \/ e.n \in DOMAIN settled BY <2>2, <2>5
      <3> QED BY <3>1, <3>2 DEF StepsLeft
    <2>7. AtOnce(query) => pq' = {} BY <2>2, <2>3 DEF SettledTree
    <2> QED BY <2>1, <2>3, <2>4, <2>6, <2>7 DEF SettledTree, Finished, Running
  <1>4. CASE Settle
    <2>1. PICK r : SettleBy(r) BY <1>4, SettleHow
    <2>2. Running /\ query' = query /\ query # NoQuery /\ SearchTypes
      BY <2>1, <1>4, SettleHow DEF SettleBy, SearchIInv, Running
    <2>3. Origins(query, pq, settled) /\ Timed(settled, NoNode) BY <2>2 DEF SettledTree
    <2>4. Origins(query, pq', settled') BY <2>1, <2>2, <2>3, SettleOrigins
    <2>5. Timed(settled', NoNode) BY <2>1, <2>2, <2>3, SettleTimed
    <2>6. ASSUME query.dst # {}
          PROVE  /\ StepsTaken(query, settled')
                 /\ Running' => StepsLeft(query, pq', settled')
      <3>1. StepsTaken(query, settled) /\ StepsLeft(query, pq, settled)
        BY <2>2, <2>6 DEF SettledTree
      <3>2. StepsTaken(query, settled') /\ (~IsLast(r) => StepsLeft(query, pq', settled'))
        BY <2>1, <2>2, <2>3, <3>1, SettleSteps
      <3>3. IsLast(r) => DOMAIN answer' = query.dst BY <2>1 DEF SettleBy, Collected
      <3>4. Running' => ~IsLast(r) BY <2>6, <3>3, EmptyFunction DEF Running
      <3> QED BY <3>2, <3>4
    <2>7. Finished' => AnswerSettled(settled', answer')
      <3>1. ~IsLast(r) => answer' = <<>> BY <2>1 DEF SettleBy
      <3> QED BY <3>1, <2>1, <2>2, SettleAnswer DEF Finished
    <2>8. ~AtOnce(query) BY <2>1, <2>2 DEF SettledTree, SettleBy, Tops
    <2> QED BY <2>2, <2>4, <2>5, <2>6, <2>7, <2>8 DEF SettledTree
  <1>5. CASE UNCHANGED nodeVars
    BY <1>5 DEF nodeVars, SettledTree, Running, Finished
  <1> QED BY <1>1, <1>2, <1>3, <1>4, <1>5 DEF SearchNext, SearchRound

-----------------------------------------------------------------------------
(* The path handed out. *)

\* Every node of the path is the parent of the one before it.
Climbs(routes, path, none) ==
  /\ path \in Seq(DOMAIN routes) /\ Len(path) >= 1
  /\ \A i \in 1..(Len(path) - 1) : /\ routes[path[i]].parent # none
                                   /\ path[i + 1] = routes[path[i]].parent

\* buildPath climbs from parent to parent until there is none, or its bound.
LEMMA PathIs ==
  ASSUME NEW routes, NEW none, IsFiniteSet(DOMAIN routes), NEW t \in DOMAIN routes,
         \A n \in DOMAIN routes : routes[n].parent # none
                                   => routes[n].parent \in DOMAIN routes
  PROVE  /\ Climbs(routes, Climbed(routes, t, none), none) /\ Climbed(routes, t, none)[1] = t
         /\ \/ routes[Climbed(routes, t, none)[Len(Climbed(routes, t, none))]].parent = none
            \/ Len(Climbed(routes, t, none)) = Cardinality(DOMAIN routes) + 1
  <1> DEFINE N == Cardinality(DOMAIN routes)
             A == {p \in Seq(DOMAIN routes) : Len(p) >= 1}
             up(p) == routes[p[Len(p)]].parent
             next(p) == IF up(p) = none THEN p ELSE Append(p, up(p))
             step == [z \in (1..N) \X A |-> next(z[2])]
             Is(f) == f = [k \in 0..N |->
                             IF k = 0 THEN <<t>>
                             ELSE LET path == f[k - 1]
                                      parent == routes[path[Len(path)]].parent
                                  IN IF parent = none THEN path ELSE Append(path, parent)]
             back == CHOOSE f : Is(f)
  <1>1. Climbed(routes, t, none) = back[N] BY DEF Climbed
  <1>2. N \in Nat BY FS_CardinalityType
  <1>3. ASSUME NEW p \in A PROVE next(p) \in A
    <2>1. p[Len(p)] \in DOMAIN routes
      <3>1. Len(p) \in 1..Len(p) OBVIOUS
      <3> QED BY <3>1
    <2>2. CASE up(p) = none BY <2>2
    <2>3. CASE up(p) # none
      <3>1. up(p) \in DOMAIN routes BY <2>1, <2>3
      <3>2. Append(p, up(p)) \in Seq(DOMAIN routes) /\ Len(Append(p, up(p))) = Len(p) + 1
        <4> HIDE DEF up
        <4> QED BY <3>1
      <3> QED BY <3>2, <2>3
    <2> QED BY <2>2, <2>3
  <1>4. <<t>> \in A OBVIOUS
  <1>5. PICK f \in [0..N -> A] : f[0] = <<t>> /\ \A j \in 1..N : f[j] = next(f[j - 1])
    <2> HIDE DEF A, N, next
    <2>1. StaysIn(A, N, step) BY <1>3 DEF StaysIn
    <2>2. \A j \in 1..N, w \in A : step[<<j, w>>] = next(w) OBVIOUS
    <2> HIDE DEF step
    <2>3. PICK f \in [0..N -> A] : Goes(f, N, <<t>>, step) BY <1>2, <1>4, <2>1, Recursion
    <2>4. ASSUME NEW j \in 1..N PROVE f[j] = next(f[j - 1])
      <3>1. j - 1 \in 0..N BY <1>2
      <3>2. f[j - 1] \in A BY <3>1
      <3> QED BY <3>2, <2>2, <2>3 DEF Goes
    <2>5. f[0] = <<t>> BY <2>3 DEF Goes
    <2> QED BY <2>4, <2>5
  <1>6. Is(f)
    <2>1. ASSUME NEW k \in 0..N, k # 0 PROVE f[k] = next(f[k - 1])
      <3>1. k \in 1..N BY <2>1, <1>2
      <3> QED BY <3>1, <1>5
    <2>2. f = [k \in 0..N |-> IF k = 0 THEN <<t>> ELSE next(f[k - 1])]
      <3> HIDE DEF A, N, next
      <3>1. f = [k \in 0..N |-> f[k]] BY <1>5
      <3> QED BY <3>1, <2>1, <1>5
    <2> QED BY <2>2
  <1>7. Is(back)
    <2>1. \E h : Is(h)
      <3> HIDE DEF Is
      <3> QED BY <1>6
    <2> HIDE DEF Is
    <2> QED BY <2>1
  <1> HIDE DEF back
  <1>8. back[0] = <<t>> /\ \A j \in 1..N : back[j] = next(back[j - 1])
    <2>1. back = [k \in 0..N |-> IF k = 0 THEN <<t>> ELSE next(back[k - 1])] BY <1>7
    <2> HIDE DEF N, next
    <2>2. 0 \in 0..N BY <1>2
    <2>3. ASSUME NEW j \in 1..N PROVE back[j] = next(back[j - 1])
      <3>1. j \in 0..N /\ j # 0 BY <1>2
      <3> QED BY <3>1, <2>1
    <2> QED BY <2>1, <2>2, <2>3
  <1> DEFINE Good(p, k) == /\ Climbs(routes, p, none) /\ p[1] = t
                           /\ up(p) = none \/ Len(p) = k + 1
             S == {k \in Nat : k <= N => Good(back[k], k)}
  <1>9. 0 \in S
    <2>1. Good(<<t>>, 0) BY DEF Climbs
    <2> QED BY <2>1, <1>8
  <1>10. ASSUME NEW p, NEW k \in Nat, Good(p, k) PROVE Good(next(p), k + 1)
    <2>0. p \in Seq(DOMAIN routes) /\ Len(p) >= 1 /\ Len(p) \in Nat BY <1>10 DEF Climbs
    <2>1. CASE up(p) = none BY <2>1, <1>10
    <2>2. CASE up(p) # none
      <3> DEFINE q == Append(p, up(p))
      <3>1. p[Len(p)] \in DOMAIN routes
        <4>1. Len(p) \in 1..Len(p) BY <2>0
        <4> QED BY <4>1, <2>0
      <3>2. up(p) \in DOMAIN routes BY <3>1, <2>2
      <3>3. q \in Seq(DOMAIN routes) /\ Len(q) = Len(p) + 1 /\ q[Len(p) + 1] = up(p)
            /\ \A i \in 1..Len(p) : q[i] = p[i]
        <4> HIDE DEF up
        <4> QED BY <3>2, <2>0
      <3> HIDE DEF q
      <3>4. ASSUME NEW i \in 1..(Len(q) - 1)
            PROVE  routes[q[i]].parent # none /\ q[i + 1] = routes[q[i]].parent
        <4>1. i \in 1..Len(p) BY <3>3, <2>0
        <4>2. CASE i = Len(p) BY <4>1, <4>2, <3>3, <2>2
        <4>3. CASE i # Len(p)
          <5>1. i \in 1..(Len(p) - 1) /\ i + 1 \in 1..Len(p) BY <4>1, <4>3, <2>0
          <5>2. routes[p[i]].parent # none /\ p[i + 1] = routes[p[i]].parent
            BY <5>1, <1>10 DEF Climbs
          <5>3. q[i] = p[i] /\ q[i + 1] = p[i + 1] BY <4>1, <5>1, <3>3
          <5> QED BY <5>2, <5>3
        <4> QED BY <4>2, <4>3
      <3>5. Climbs(routes, q, none) BY <3>3, <3>4, <2>0 DEF Climbs
      <3>6. Len(p) = k + 1 BY <2>2, <1>10
      <3>7. 1 \in 1..Len(p) BY <2>0
      <3>8. q[1] = t BY <3>3, <3>7, <1>10
      <3>9. Len(q) = (k + 1) + 1 BY <3>3, <3>6
      <3>10. next(p) = q BY <2>2 DEF q
      <3>11. Good(q, k + 1) BY <3>5, <3>8, <3>9
      <3> HIDE DEF Good, next
      <3> QED BY <3>10, <3>11
    <2> QED BY <2>1, <2>2
  <1>11. ASSUME NEW k \in Nat, k \in S PROVE k + 1 \in S
    <2> HIDE DEF Good, next
    <2> SUFFICES ASSUME k + 1 <= N PROVE Good(back[k + 1], k + 1)
      OBVIOUS
    <2>1. Good(back[k], k) BY <1>2, <1>11
    <2>2. back[k + 1] = next(back[k])
      <3>1. k + 1 \in 1..N /\ (k + 1) - 1 = k BY <1>2
      <3> QED BY <3>1, <1>8
    <2> QED BY <2>1, <2>2, <1>10
  <1>12. \A k \in Nat : k \in S
    <2> HIDE DEF S
    <2> QED BY <1>9, <1>11, Induct
  <1>13. Good(back[N], N)
    <2> HIDE DEF Good, N
    <2> QED BY <1>2, <1>12
  <1> QED BY <1>1, <1>13

\* The parents of those in routes are there as well.
Rooted(routes, none) ==
  /\ IsFiniteSet(DOMAIN routes)
  /\ \A n \in DOMAIN routes :
       routes[n].d \in Nat /\ (routes[n].parent # none => routes[n].parent \in DOMAIN routes)

\* Nobody is on a path twice, so that it ends at one without a parent.
LEMMA ClimbEnds ==
  ASSUME NEW routes, NEW none, Rooted(routes, none), Timed(routes, none), NEW t \in DOMAIN routes
  PROVE  LET path == Climbed(routes, t, none)
         IN /\ Climbs(routes, path, none) /\ path[1] = t
            /\ path[Len(path)] \in DOMAIN routes /\ routes[path[Len(path)]].parent = none
  <1> DEFINE p == Climbed(routes, t, none)
             N == Cardinality(DOMAIN routes)
  <1>1. IsFiniteSet(DOMAIN routes) BY DEF Rooted
  <1>2. \A n \in DOMAIN routes : routes[n].parent # none
                                  => routes[n].parent \in DOMAIN routes
    BY DEF Rooted
  <1>3. \A n \in DOMAIN routes : routes[n].d \in Nat
    BY DEF Rooted
  <1>4. /\ Climbs(routes, p, none) /\ p[1] = t
        /\ routes[p[Len(p)]].parent = none \/ Len(p) = N + 1
    BY <1>1, <1>2, PathIs
  <1> HIDE DEF p
  <1>5. p \in Seq(DOMAIN routes) /\ Len(p) >= 1 /\ Len(p) \in Nat BY <1>4 DEF Climbs
  <1>6. PICK time \in [DOMAIN routes -> Nat], now \in Nat : InTime(routes, time, now, none)
    BY DEF Timed
  <1>7. ASSUME NEW i \in 1..Len(p), NEW j \in 1..Len(p), i < j
        PROVE  Earlier(routes, time, p[j], p[i])
    <2> DEFINE S == {k \in Nat : i + k + 1 <= Len(p)
                                 => Earlier(routes, time, p[i + k + 1], p[i])}
    <2>1. ASSUME NEW m \in 1..(Len(p) - 1) PROVE Earlier(routes, time, p[m + 1], p[m])
      <3>1. m \in 1..Len(p) BY <1>5
      <3>2. p[m] \in DOMAIN routes BY <3>1, <1>5
      <3>3. routes[p[m]].parent # none /\ p[m + 1] = routes[p[m]].parent
        BY <1>4 DEF Climbs
      <3> QED BY <3>2, <3>3, <1>6 DEF InTime
    <2>2. 0 \in S
      <3> SUFFICES ASSUME i + 1 <= Len(p) PROVE Earlier(routes, time, p[i + 0 + 1], p[i])
        OBVIOUS
      <3>1. i \in 1..(Len(p) - 1) /\ i + 0 + 1 = i + 1 BY <1>5
      <3> QED BY <3>1, <2>1
    <2>3. ASSUME NEW k \in Nat, k \in S PROVE k + 1 \in S
      <3> SUFFICES ASSUME i + (k + 1) + 1 <= Len(p)
                   PROVE  Earlier(routes, time, p[i + (k + 1) + 1], p[i])
        OBVIOUS
      <3>1. PICK m \in 1..(Len(p) - 1) : m = i + k + 1 /\ m + 1 = i + (k + 1) + 1
        BY <1>5
      <3>2. Earlier(routes, time, p[m + 1], p[m]) BY <2>1
      <3>3. Earlier(routes, time, p[m], p[i]) BY <3>1, <2>3, <1>5
      <3>4. p[m] \in DOMAIN routes /\ p[i] \in DOMAIN routes /\ p[m + 1] \in DOMAIN routes
        <4>1. m \in 1..Len(p) /\ m + 1 \in 1..Len(p) BY <1>5
        <4> QED BY <4>1, <1>5
      <3>5. Earlier(routes, time, p[m + 1], p[i])
        <4>1. PICK a \in Nat, b \in Nat, c \in Nat :
                a = routes[p[i]].d /\ b = routes[p[m]].d /\ c = routes[p[m + 1]].d
          BY <3>4, <1>3
        <4>2. PICK u \in Nat, v \in Nat, w \in Nat :
                u = time[p[i]] /\ v = time[p[m]] /\ w = time[p[m + 1]]
          BY <3>4, <1>6
        <4>3. c < b \/ (c = b /\ w < v) BY <4>1, <4>2, <3>2 DEF Earlier
        <4>4. b < a \/ (b = a /\ v < u) BY <4>1, <4>2, <3>3 DEF Earlier
        <4>5. c < a \/ (c = a /\ w < u) BY <4>3, <4>4
        <4> QED BY <4>1, <4>2, <4>5 DEF Earlier
      <3> QED BY <3>1, <3>5
    <2>4. \A k \in Nat : k \in S
      <3> HIDE DEF S
      <3> QED BY <2>2, <2>3, Induct
    <2>5. PICK k \in Nat : k = j - i - 1 /\ i + k + 1 = j BY <1>5, <1>7
    <2>6. i + k + 1 <= Len(p) BY <2>5, <1>5
    <2>7. Earlier(routes, time, p[i + k + 1], p[i]) BY <2>4, <2>6
    <2> QED BY <2>5, <2>7
  <1>8. ASSUME NEW i \in 1..Len(p), NEW j \in 1..Len(p), i < j PROVE p[i] # p[j]
    <2>1. Earlier(routes, time, p[j], p[i]) BY <1>7, <1>8
    <2>2. p[i] \in DOMAIN routes BY <1>5
    <2>3. routes[p[i]].d \in Nat /\ time[p[i]] \in Nat BY <2>2, <1>3, <1>6
    <2> QED BY <2>1, <2>3 DEF Earlier
  <1>9. Len(p) <= N
    <2> DEFINE I == 1..Len(p)
    <2>1. p \in [I -> DOMAIN routes] BY <1>5
    <2>2. \A i, j \in I : p[i] = p[j] => i = j
      <3> SUFFICES ASSUME NEW i \in I, NEW j \in I, i # j PROVE p[i] # p[j]
        OBVIOUS
      <3>1. i < j \/ j < i BY <1>5
      <3> QED BY <3>1, <1>8
    <2>3. p \in Injection(I, DOMAIN routes)
      <3> HIDE DEF I
      <3> QED BY <2>1, <2>2 DEF Injection, IsInjective
    <2>4. Cardinality(I) <= N
      <3> HIDE DEF I
      <3> QED BY <2>3, <1>1, FS_Injection
    <2>5. Cardinality(I) = Len(p)
      <3>1. PICK l \in Nat : l = Len(p) /\ l >= 1 BY <1>5
      <3>2. Cardinality(1..l) = IF 1 > l THEN 0 ELSE l - 1 + 1 BY FS_Interval
      <3>3. Cardinality(1..l) = l BY <3>1, <3>2
      <3> QED BY <3>1, <3>3
    <2> HIDE DEF I, N
    <2> QED BY <2>4, <2>5
  <1>10. routes[p[Len(p)]].parent = none
    <2>1. N \in Nat BY <1>1, FS_CardinalityType
    <2> HIDE DEF N
    <2> QED BY <2>1, <1>4, <1>5, <1>9
  <1>11. p[Len(p)] \in DOMAIN routes
    <2>1. Len(p) \in 1..Len(p) BY <1>5
    <2> QED BY <2>1, <1>5
  <1> QED BY <1>4, <1>10, <1>11 DEF p

\* In what a search settles the path ends at a source.
LEMMA PathEnds ==
  ASSUME SearchTypes, Origins(query, pq, settled), Timed(settled, NoNode), NEW t \in DOMAIN settled
  PROVE  /\ Climbs(settled, BuildPath(t), NoNode) /\ BuildPath(t)[1] = t
         /\ BuildPath(t)[Len(BuildPath(t))] \in query.src
         /\ settled[BuildPath(t)[Len(BuildPath(t))]].d = 0
  <1> DEFINE p == BuildPath(t)
  <1>1. IsFiniteSet(DOMAIN settled) /\ query \in Queries
    <2>1. IsFiniteSet(query.net.nodes) BY QueryFacts DEF SearchTypes, IsNet
    <2>2. DOMAIN settled \subseteq query.net.nodes BY DEF SearchTypes, Entries
    <2> QED BY <2>1, <2>2, FS_Subset DEF SearchTypes
  <1>2. Rooted(settled, NoNode)
    BY <1>1 DEF Rooted, Origins, OriginIn, SearchTypes, Entries, Entry, EntryAt
  <1>3. /\ Climbs(settled, p, NoNode) /\ p[1] = t
        /\ p[Len(p)] \in DOMAIN settled /\ settled[p[Len(p)]].parent = NoNode
    BY <1>2, ClimbEnds DEF BuildPath
  <1> HIDE DEF p
  <1>4. NoNode \notin DOMAIN settled
    BY <1>1, QueryFacts DEF SearchTypes, Entries, IsNet
  <1>5. settled[p[Len(p)]].n = p[Len(p)] BY <1>3 DEF SearchTypes, Entries
  <1>6. p[Len(p)] \in query.src /\ settled[p[Len(p)]].d = 0
    <2>1. OriginIn(query, settled, settled[p[Len(p)]]) BY <1>3 DEF Origins
    <2> QED BY <2>1, <1>3, <1>4, <1>5 DEF OriginIn
  <1> QED BY <1>3, <1>6 DEF p

\* The cheapest step from a to b.
Cheap(net, a, b) ==
  Min({s.c : s \in {t \in NodeSteps(net) : t.from = a /\ t.to = b}} \cup {Inf})

\* Cheap is the cost of one of these steps, or infinite.
LEMMA CheapIs ==
  ASSUME NEW net, IsNet(net), NEW a, NEW b
  PROVE  /\ Cheap(net, a, b) \in Nat /\ Cheap(net, a, b) <= Inf
         /\ \A s \in NodeSteps(net) : s.from = a /\ s.to = b => Cheap(net, a, b) <= s.c
         /\ \/ Cheap(net, a, b) = Inf
            \/ \E s \in NodeSteps(net) : s.from = a /\ s.to = b /\ s.c = Cheap(net, a, b)
  <1> DEFINE C == {s.c : s \in {t \in NodeSteps(net) : t.from = a /\ t.to = b}} \cup {Inf}
  <1>1. C \subseteq Nat /\ Inf \in C BY StepsAre, InfAssumption DEF StepsOf
  <1>2. Cheap(net, a, b) = Min(C) BY DEF Cheap
  <1>3. Min(C) \in C /\ \A c \in C : Min(C) <= c
    <2> HIDE DEF C
    <2> QED BY <1>1, LeastIn
  <1>4. Cheap(net, a, b) \in Nat /\ Cheap(net, a, b) <= Inf
    <2> HIDE DEF C
    <2> QED BY <1>1, <1>2, <1>3
  <1>5. \A s \in NodeSteps(net) : s.from = a /\ s.to = b => Cheap(net, a, b) <= s.c
    BY <1>2, <1>3
  <1>6. Cheap(net, a, b) = Inf
        \/ \E s \in NodeSteps(net) : s.from = a /\ s.to = b /\ s.c = Cheap(net, a, b)
    BY <1>2, <1>3
  <1> QED BY <1>4, <1>5, <1>6

\* The cost of a path is a sum, step by step.
LEMMA CostIs ==
  ASSUME NEW net, IsNet(net), NEW path, Len(path) \in Nat, Len(path) >= 1
  PROVE  \E sum \in [0..(Len(path) - 1) -> Nat] :
           /\ CostAlong(net, path) = sum[Len(path) - 1] /\ sum[0] = 0
           /\ \A k \in 1..(Len(path) - 1) : sum[k] = sum[k - 1] + Cheap(net, path[k + 1], path[k])
  <1>0. PICK N \in Nat : N = Len(path) - 1 OBVIOUS
  <1> DEFINE Is(f) == f = [k \in 0..N |->
                             IF k = 0 THEN 0
                             ELSE f[k - 1] + Min({s.c : s \in {t \in NodeSteps(net) :
                                    t.from = path[k + 1] /\ t.to = path[k]}} \cup {Inf})]
             step == [z \in (1..N) \X Nat |-> z[2] + Cheap(net, path[z[1] + 1], path[z[1]])]
             sum == CHOOSE f : Is(f)
  <1>1. CostAlong(net, path) = sum[N] BY <1>0 DEF CostAlong
  <1>2. \A k \in 1..N : Cheap(net, path[k + 1], path[k]) \in Nat BY CheapIs
  <1>3. PICK f \in [0..N -> Nat] :
          f[0] = 0 /\ \A k \in 1..N : f[k] = f[k - 1] + Cheap(net, path[k + 1], path[k])
    <2>2. \A j \in 1..N, w \in Nat : step[<<j, w>>] = w + Cheap(net, path[j + 1], path[j])
      OBVIOUS
    <2> HIDE DEF step
    <2>1. StaysIn(Nat, N, step)
      <3>1. ASSUME NEW j \in 1..N, NEW w \in Nat PROVE step[<<j, w>>] \in Nat
        <4>1. PICK c \in Nat : c = Cheap(net, path[j + 1], path[j]) BY <1>2
        <4>2. step[<<j, w>>] = w + c BY <4>1, <2>2
        <4> QED BY <4>2
      <3> QED BY <3>1 DEF StaysIn
    <2>3. PICK f \in [0..N -> Nat] : Goes(f, N, 0, step) BY <2>1, Recursion
    <2>4. ASSUME NEW k \in 1..N PROVE f[k] = f[k - 1] + Cheap(net, path[k + 1], path[k])
      <3>1. k - 1 \in 0..N OBVIOUS
      <3>2. f[k - 1] \in Nat BY <3>1
      <3> QED BY <3>2, <2>2, <2>3 DEF Goes
    <2>5. f[0] = 0 BY <2>3 DEF Goes
    <2> QED BY <2>4, <2>5
  <1>4. Is(f)
    <2>1. f = [k \in 0..N |-> IF k = 0 THEN 0 ELSE f[k - 1] + Cheap(net, path[k + 1], path[k])]
      <3>1. f = [k \in 0..N |-> f[k]] OBVIOUS
      <3>2. ASSUME NEW k \in 0..N, k # 0
            PROVE  f[k] = f[k - 1] + Cheap(net, path[k + 1], path[k])
        <4>1. k \in 1..N BY <3>2
        <4> QED BY <4>1, <1>3
      <3> QED BY <3>1, <3>2, <1>3
    <2> QED BY <2>1 DEF Cheap
  <1>5. Is(sum)
    <2>1. \E h : Is(h)
      <3> HIDE DEF Is
      <3> QED BY <1>4
    <2> HIDE DEF Is
    <2> QED BY <2>1
  <1> HIDE DEF sum
  <1>6. sum = [k \in 0..N |-> IF k = 0 THEN 0 ELSE sum[k - 1] + Cheap(net, path[k + 1], path[k])]
    BY <1>5 DEF Cheap
  <1>7. sum[0] = 0 /\ \A k \in 1..N : sum[k] = sum[k - 1] + Cheap(net, path[k + 1], path[k])
    <2>1. 0 \in 0..N OBVIOUS
    <2>2. ASSUME NEW k \in 1..N PROVE sum[k] = sum[k - 1] + Cheap(net, path[k + 1], path[k])
      <3>1. k \in 0..N /\ k # 0 OBVIOUS
      <3> QED BY <3>1, <1>6
    <2> QED BY <2>1, <2>2, <1>6
  <1>8. \A k \in 0..N : sum[k] \in Nat
    <2> DEFINE S == {k \in Nat : k <= N => sum[k] \in Nat}
    <2>1. 0 \in S BY <1>7
    <2>2. ASSUME NEW k \in Nat, k \in S PROVE k + 1 \in S
      <3> SUFFICES ASSUME k + 1 <= N PROVE sum[k + 1] \in Nat
        OBVIOUS
      <3>1. k + 1 \in 1..N /\ (k + 1) - 1 = k OBVIOUS
      <3>2. sum[k] \in Nat BY <2>2
      <3>3. sum[k + 1] = sum[k] + Cheap(net, path[(k + 1) + 1], path[k + 1])
        BY <3>1, <1>7
      <3>4. Cheap(net, path[(k + 1) + 1], path[k + 1]) \in Nat BY CheapIs
      <3> QED BY <3>2, <3>3, <3>4
    <2>3. \A k \in Nat : k \in S
      <3> HIDE DEF S
      <3> QED BY <2>1, <2>2, Induct
    <2> QED BY <2>3
  <1>9. sum \in [0..N -> Nat]
    <2>1. sum = [k \in 0..N |-> sum[k]] BY <1>6
    <2> QED BY <2>1, <1>8
  <1> QED BY <1>0, <1>1, <1>7, <1>9

\* The steps of a path cost no more than its end, no less than a cheapest way
\* there, and just as much as the end in a search from one node.
LEMMA PathCosts ==
  ASSUME SearchTypes, Origins(query, pq, settled), NEW path, Climbs(settled, path, NoNode),
         settled[path[Len(path)]].d = 0, path[Len(path)] \in query.src
  PROVE  /\ CostAlong(query.net, path) \in Nat /\ CostAlong(query.net, path) <= settled[path[1]].d
         /\ Cost[path[1]] <= CostAlong(query.net, path)
         /\ IsSingle(query) /\ StepsTaken(query, settled)
            => CostAlong(query.net, path) = settled[path[1]].d
  <1>1. query \in Queries /\ IsNet(query.net) BY QueryFacts DEF SearchTypes
  <1>2. path \in Seq(DOMAIN settled) /\ Len(path) \in Nat /\ Len(path) >= 1 BY DEF Climbs
  <1>3. PICK N \in Nat : N = Len(path) - 1 /\ N + 1 = Len(path) BY <1>2
  <1>4. PICK sum \in [0..N -> Nat] :
          /\ CostAlong(query.net, path) = sum[N] /\ sum[0] = 0
          /\ \A k \in 1..N : sum[k] = sum[k - 1] + Cheap(query.net, path[k + 1], path[k])
    BY <1>1, <1>2, <1>3, CostIs
  <1> DEFINE x(k) == path[k + 1]
             exact == IsSingle(query) /\ StepsTaken(query, settled)
  <1>5. ASSUME NEW k \in 0..N
        PROVE  /\ x(k) \in DOMAIN settled /\ settled[x(k)].d \in Nat /\ settled[x(k)].d < Inf
               /\ Cost[x(k)] \in 0..Inf
    <2>1. k + 1 \in 1..Len(path) BY <1>3
    <2>2. x(k) \in DOMAIN settled BY <2>1, <1>2
    <2>3. x(k) \in query.net.nodes BY <2>2 DEF SearchTypes, Entries
    <2> HIDE DEF x
    <2> QED BY <2>2, <2>3, <1>1, QueryFacts DEF SearchTypes, Entries, Entry, EntryAt
  <1>6. ASSUME NEW k \in Nat, k + 1 <= N
        PROVE  /\ settled[x(k + 1)].d + Cheap(query.net, x(k + 1), x(k)) <= settled[x(k)].d
               /\ Cost[x(k)] <= Cost[x(k + 1)] + Cheap(query.net, x(k + 1), x(k))
               /\ exact => settled[x(k + 1)].d + Cheap(query.net, x(k + 1), x(k)) = settled[x(k)].d
    <2>1. k \in 0..N /\ k + 1 \in 0..N /\ k + 1 \in 1..(Len(path) - 1) BY <1>3, <1>6
    <2>2. /\ settled[x(k)].parent # NoNode /\ x(k + 1) = settled[x(k)].parent
      <3>1. \A i \in 1..(Len(path) - 1) : settled[path[i]].parent # NoNode
                                          /\ path[i + 1] = settled[path[i]].parent
        BY DEF Climbs
      <3> QED BY <3>1, <2>1
    <2>3. /\ x(k) \in DOMAIN settled /\ settled[x(k)].d \in Nat /\ settled[x(k)].d < Inf
          /\ Cost[x(k)] \in 0..Inf
          /\ x(k + 1) \in DOMAIN settled /\ settled[x(k + 1)].d \in Nat
          /\ Cost[x(k + 1)] \in 0..Inf
      BY <2>1, <1>5
    <2> DEFINE a == x(k + 1)
               b == x(k)
    <2> HIDE DEF x
    <2>4. settled[b].n = b BY <2>3 DEF SearchTypes, Entries
    <2>5. OriginIn(query, settled, settled[b]) BY <2>3 DEF Origins
    <2>6. PICK s \in NodeSteps(query.net) :
            s.from = a /\ s.to = b /\ settled[a].d + s.c <= settled[b].d
      BY <2>2, <2>4, <2>5 DEF OriginIn
    <2>7. s.c \in Nat /\ \A z \in NodeSteps(query.net) : z.c \in Nat
      BY <1>1, QueryFacts DEF StepsOf
    <2>8. /\ Cheap(query.net, a, b) \in Nat /\ Cheap(query.net, a, b) <= Inf
          /\ Cheap(query.net, a, b) <= s.c
          /\ \/ Cheap(query.net, a, b) = Inf
             \/ \E z \in NodeSteps(query.net) :
                     z.from = a /\ z.to = b /\ z.c = Cheap(query.net, a, b)
      BY <1>1, <2>6, CheapIs
    <2>9. s.c < Inf BY <2>3, <2>6, <2>7, InfAssumption
    <2>10. PICK z \in NodeSteps(query.net) : z.from = a /\ z.to = b /\ z.c = Cheap(query.net, a, b)
      BY <2>7, <2>8, <2>9, InfAssumption
    <2>11. Cost[b] <= Cost[a] + Cheap(query.net, a, b) BY <2>10, <1>1, QueryFacts
    <2>12. settled[a].d + Cheap(query.net, a, b) <= settled[b].d BY <2>3, <2>6, <2>7, <2>8
    <2>13. ASSUME exact PROVE settled[b].d <= settled[a].d + Cheap(query.net, a, b)
      <3>1. settled[b].d <= settled[z.from].d + z.c
        BY <2>2, <2>3, <2>10, <2>13 DEF StepsTaken
      <3> QED BY <3>1, <2>10
    <2> QED BY <2>3, <2>8, <2>11, <2>12, <2>13
  <1> DEFINE S == {k \in Nat : k <= N =>
                     /\ sum[k] + settled[x(k)].d <= settled[x(0)].d
                     /\ Cost[x(0)] <= Cost[x(k)] + sum[k]
                     /\ exact => sum[k] + settled[x(k)].d = settled[x(0)].d}
  <1>7. 0 \in S
    <2>1. 0 \in 0..N OBVIOUS
    <2>2. settled[x(0)].d \in Nat /\ Cost[x(0)] \in 0..Inf BY <2>1, <1>5
    <2> HIDE DEF x
    <2> QED BY <2>2, <1>4
  <1>8. ASSUME NEW k \in Nat, k \in S PROVE k + 1 \in S
    <2> HIDE DEF x, exact
    <2> SUFFICES ASSUME k + 1 <= N
                 PROVE  /\ sum[k + 1] + settled[x(k + 1)].d <= settled[x(0)].d
                        /\ Cost[x(0)] <= Cost[x(k + 1)] + sum[k + 1]
                        /\ exact => sum[k + 1] + settled[x(k + 1)].d = settled[x(0)].d
      OBVIOUS
    <2>1. k \in 0..N /\ k + 1 \in 0..N /\ 0 \in 0..N /\ k + 1 \in 1..N /\ (k + 1) - 1 = k
      OBVIOUS
    <2>2. sum[k + 1] = sum[k] + Cheap(query.net, x(k + 1), x(k)) BY <2>1, <1>4 DEF x
    <2>3. PICK a \in Nat, b \in Nat, c \in Nat, e \in Nat, f \in Nat :
            /\ a = settled[x(k + 1)].d /\ b = settled[x(k)].d /\ c = settled[x(0)].d
            /\ e = sum[k] /\ f = Cheap(query.net, x(k + 1), x(k))
      <3>1. Cheap(query.net, x(k + 1), x(k)) \in Nat BY <1>1, CheapIs
      <3>2. sum[k] \in Nat BY <2>1
      <3> QED BY <3>1, <3>2, <2>1, <1>5
    <2>4. PICK u \in Nat, v \in Nat, w \in Nat :
            u = Cost[x(k + 1)] /\ v = Cost[x(k)] /\ w = Cost[x(0)]
      <3>1. Cost[x(k + 1)] \in Nat /\ Cost[x(k)] \in Nat /\ Cost[x(0)] \in Nat
        BY <2>1, <1>5
      <3> QED BY <3>1
    <2>5. a + f <= b /\ v <= u + f /\ (exact => a + f = b) BY <2>3, <2>4, <1>6
    <2>6. e + b <= c /\ w <= v + e /\ (exact => e + b = c) BY <2>1, <2>3, <2>4, <1>8
    <2>7. (e + f) + a <= c /\ w <= u + (e + f)
      <3>1. a + f <= b /\ v <= u + f /\ e + b <= c /\ w <= v + e BY <2>5, <2>6
      <3> QED BY <3>1
    <2>8. ASSUME exact PROVE (e + f) + a = c
      <3>1. a + f = b /\ e + b = c BY <2>5, <2>6, <2>8
      <3> QED BY <3>1
    <2> QED BY <2>2, <2>3, <2>4, <2>7, <2>8
  <1>9. \A k \in Nat : k \in S
    <2> HIDE DEF S
    <2> QED BY <1>7, <1>8, Induct
  <1>10. /\ sum[N] + settled[x(N)].d <= settled[x(0)].d
         /\ Cost[x(0)] <= Cost[x(N)] + sum[N]
         /\ exact => sum[N] + settled[x(N)].d = settled[x(0)].d
    <2> HIDE DEF x, exact
    <2> QED BY <1>9
  <1>11. x(N) = path[Len(path)] /\ x(0) = path[1] BY <1>3
  <1>12. Cost[x(N)] = 0 /\ settled[x(N)].d = 0 BY <1>1, <1>11, QueryFacts
  <1>13. sum[N] \in Nat /\ settled[x(0)].d \in Nat /\ Cost[x(0)] \in 0..Inf
    <2>1. 0 \in 0..N /\ N \in 0..N OBVIOUS
    <2>2. settled[x(0)].d \in Nat /\ Cost[x(0)] \in 0..Inf BY <2>1, <1>5
    <2> QED BY <2>1, <2>2
  <1> HIDE DEF x, exact
  <1>14. sum[N] <= settled[x(0)].d /\ Cost[x(0)] <= sum[N]
         /\ (exact => sum[N] = settled[x(0)].d)
    BY <1>10, <1>12, <1>13
  <1> QED BY <1>4, <1>11, <1>13, <1>14 DEF exact

\* Both invariants together give the property of the paths.
LEMMA PathsFit == ASSUME SearchIInv, SettledTree PROVE PathFits
  <1> SUFFICES ASSUME Finished, Single \/ Usable(query),
                      NEW t \in Reached \cap DOMAIN settled
               PROVE  /\ BuildPath(t)[Len(BuildPath(t))] \in query.src
                      /\ CostAlong(query.net, BuildPath(t)) = answer[t]
    BY DEF PathFits
  <1>1. query # NoQuery /\ SearchTypes /\ query \in Queries /\ answer # <<>>
    BY DEF SearchIInv, Finished, SearchTypes
  <1>2. Origins(query, pq, settled) /\ Timed(settled, NoNode) /\ AnswerSettled(settled, answer)
        /\ (query.dst # {} => StepsTaken(query, settled))
        /\ (AtOnce(query) => settled = <<>>)
    BY <1>1 DEF SettledTree
  <1>3. answer \in [query.dst -> 0..Inf] BY <1>1 DEF SearchTypes
  <1>4. t \in query.dst /\ answer[t] < Inf /\ t \in DOMAIN settled BY <1>3 DEF Reached
  <1>5. answer[t] = settled[t].d BY <1>3, <1>4, <1>2 DEF AnswerSettled
  <1> DEFINE p == BuildPath(t)
  <1>6. /\ Climbs(settled, p, NoNode) /\ p[1] = t /\ p[Len(p)] \in query.src
        /\ settled[p[Len(p)]].d = 0
    BY <1>1, <1>2, <1>4, PathEnds
  <1> HIDE DEF p
  <1>7. /\ CostAlong(query.net, p) \in Nat /\ CostAlong(query.net, p) <= settled[t].d
        /\ Cost[t] <= CostAlong(query.net, p)
        /\ IsSingle(query) /\ StepsTaken(query, settled) => CostAlong(query.net, p) = settled[t].d
    BY <1>1, <1>2, <1>6, PathCosts
  <1>8. CASE Single BY <1>2, <1>4, <1>5, <1>6, <1>7, <1>8 DEF Single, IsSingle, p
  <1>9. CASE Usable(query)
    <2>1. ~AtOnce(query) BY <1>2, <1>4, EmptyFunction
    <2>2. Shortest BY DEF SearchIInv
    <2>3. answer[t] = Cost[t]
      <3>1. CASE query.form = "many" BY <3>1, <2>1, <2>2, <1>4, <1>9 DEF Shortest, Cost
      <3>2. CASE query.form # "many"
        <4> DEFINE near == Min({Cost[z] : z \in query.dst} \cup {Inf})
        <4>1. answer[t] = near /\ Cost[t] = near
          BY <3>2, <2>1, <2>2, <1>4, <1>9 DEF Shortest, Cost
        <4> HIDE DEF near
        <4> QED BY <4>1
      <3> QED BY <3>1, <3>2
    <2>4. Cost[t] \in 0..Inf /\ settled[t].d \in Nat
      BY <1>1, <1>4, QueryFacts DEF SearchTypes, Entries, Entry, EntryAt
    <2>5. CostAlong(query.net, p) = answer[t] BY <2>3, <2>4, <1>5, <1>7
    <2> QED BY <2>5, <1>6 DEF p
  <1> QED BY <1>8, <1>9

\* Whatever the graph, the sources, the targets and the heuristic, the searches
\* return the costs of shortest paths, and the paths handed out cost that, if the
\* heuristic is usable (Dijkstra::shortestPathImpl, buildPath).
THEOREM SearchesFindShortest == SearchSpec => []SearchInv
  <1>1. SearchInit => SearchIInv /\ SettledTree
    BY SearchInitOK DEF SearchInit, SettledTree
  <1>2. SearchIInv /\ SettledTree /\ [SearchNext]_nodeVars => (SearchIInv /\ SettledTree)'
    BY SearchStep, TreeStep
  <1>3. SearchIInv /\ SettledTree => SearchInv
    BY SearchIInvTypes, PathsFit DEF SearchInv, SearchIInv
  <1> QED BY <1>1, <1>2, <1>3, PTL DEF SearchSpec

-----------------------------------------------------------------------------
(* Two searches: the net as each side sees it. *)

\* The backward search leaves a node by the edges that arrive at it.
Seen(net, s) ==
  IF s = "fwd" THEN net
  ELSE [nodes |-> net.nodes, directed |-> net.directed,
        edges |-> {[from |-> e.to, to |-> e.from, c |-> e.c] : e \in net.edges}]

\* Where a side begins, the steps it may take, and the costs it looks for.
Ends(s) == IF s = "fwd" THEN biquery.src ELSE biquery.dst
BiNet(s) == Seen(biquery.net, s)
BiSteps(s) == NodeSteps(BiNet(s))
BiCost(s) == DistFrom(BiNet(s), Ends(s))

\* The steps of one side are those of the other the other way round.
LEMMA SeenIs ==
  ASSUME NEW net, IsNet(net), NEW s \in Sides
  PROVE  /\ IsNet(Seen(net, s)) /\ Seen(net, s).nodes = net.nodes
         /\ \A z \in NodeSteps(Seen(net, s)) :
              [from |-> z.to, to |-> z.from, c |-> z.c] \in NodeSteps(Seen(net, Other(s)))
  <1>1. CASE s = "fwd"
    <2>1. Seen(net, s) = net BY <1>1 DEF Seen
    <2>2. Other(s) = "bwd" BY <1>1 DEF Other
    <2> DEFINE rev == Seen(net, "bwd")
    <2>3. rev.edges = {[from |-> e.to, to |-> e.from, c |-> e.c] : e \in net.edges}
          /\ rev.directed = net.directed
      BY DEF Seen
    <2> HIDE DEF rev
    <2>4. ASSUME NEW z \in NodeSteps(net)
          PROVE  [from |-> z.to, to |-> z.from, c |-> z.c] \in NodeSteps(rev)
      <3>1. CASE \E e \in net.edges : z = [from |-> e.from, to |-> e.to, c |-> e.c]
        <4>1. PICK e \in net.edges : z = [from |-> e.from, to |-> e.to, c |-> e.c] BY <3>1
        <4>2. PICK g \in rev.edges : g = [from |-> e.to, to |-> e.from, c |-> e.c] BY <2>3
        <4>3. [from |-> g.from, to |-> g.to, c |-> g.c] \in NodeSteps(rev) BY DEF NodeSteps
        <4> QED BY <4>1, <4>2, <4>3
      <3>2. CASE ~net.directed
                 /\ \E e \in net.edges : z = [from |-> e.to, to |-> e.from, c |-> e.c]
        <4>1. PICK e \in net.edges : z = [from |-> e.to, to |-> e.from, c |-> e.c] BY <3>2
        <4>2. PICK g \in rev.edges : g = [from |-> e.to, to |-> e.from, c |-> e.c] BY <2>3
        <4>3. [from |-> g.to, to |-> g.from, c |-> g.c] \in NodeSteps(rev)
          BY <2>3, <3>2 DEF NodeSteps
        <4> QED BY <4>1, <4>2, <4>3
      <3> QED BY <3>1, <3>2 DEF NodeSteps
    <2> QED BY <2>1, <2>2, <2>4 DEF rev
  <1>2. CASE s = "bwd"
    <2> DEFINE rev == Seen(net, s)
    <2>1. Seen(net, Other(s)) = net BY <1>2 DEF Seen, Other
    <2>3. /\ rev.edges = {[from |-> e.to, to |-> e.from, c |-> e.c] : e \in net.edges}
          /\ rev.directed = net.directed /\ rev.nodes = net.nodes
      BY <1>2 DEF Seen
    <2> HIDE DEF rev
    <2>4. ASSUME NEW z \in NodeSteps(rev)
          PROVE  [from |-> z.to, to |-> z.from, c |-> z.c] \in NodeSteps(net)
      <3>1. CASE \E e \in rev.edges : z = [from |-> e.from, to |-> e.to, c |-> e.c]
        <4>1. PICK e \in rev.edges : z = [from |-> e.from, to |-> e.to, c |-> e.c] BY <3>1
        <4>2. PICK g \in net.edges : e = [from |-> g.to, to |-> g.from, c |-> g.c] BY <2>3
        <4>3. [from |-> g.from, to |-> g.to, c |-> g.c] \in NodeSteps(net) BY DEF NodeSteps
        <4> QED BY <4>1, <4>2, <4>3
      <3>2. CASE ~net.directed
                 /\ \E e \in rev.edges : z = [from |-> e.to, to |-> e.from, c |-> e.c]
        <4>1. PICK e \in rev.edges : z = [from |-> e.to, to |-> e.from, c |-> e.c] BY <3>2
        <4>2. PICK g \in net.edges : e = [from |-> g.to, to |-> g.from, c |-> g.c] BY <2>3
        <4>3. [from |-> g.to, to |-> g.from, c |-> g.c] \in NodeSteps(net)
          BY <3>2 DEF NodeSteps
        <4> QED BY <4>1, <4>2, <4>3
      <3> QED BY <2>3, <3>1, <3>2 DEF NodeSteps
    <2>5. IsNet(rev)
      <3>1. ASSUME NEW e \in rev.edges
            PROVE  e.from \in net.nodes /\ e.to \in net.nodes /\ e.c \in Nat
        <4>1. PICK g \in net.edges : e = [from |-> g.to, to |-> g.from, c |-> g.c] BY <2>3
        <4> QED BY <4>1 DEF IsNet
      <3> QED BY <2>3, <3>1 DEF IsNet
    <2> QED BY <2>1, <2>3, <2>4, <2>5 DEF rev
  <1>3. s = "fwd" => Seen(net, s) = net BY DEF Seen
  <1> QED BY <1>1, <1>2, <1>3 DEF Sides

\* What the assumption on queries and DistFacts say of the query that is run.
LEMMA BiFacts ==
  ASSUME biquery \in BiQueries, NEW s \in Sides
  PROVE  /\ IsNet(biquery.net) /\ Ends(s) \subseteq biquery.net.nodes
         /\ biquery # NoBiQuery /\ NoNode \notin biquery.net.nodes
         /\ IsFiniteSet(biquery.net.nodes)
         /\ BiCost(s) \in [biquery.net.nodes -> 0..Inf]
         /\ \A x \in Ends(s) : BiCost(s)[x] = 0
         /\ \A z \in BiSteps(s) : /\ z.from \in biquery.net.nodes /\ z.to \in biquery.net.nodes
                                  /\ z.c \in Nat
                                  /\ BiCost(s)[z.to] <= BiCost(s)[z.from] + z.c
  <1>1. /\ IsNet(biquery.net) /\ biquery.src \subseteq biquery.net.nodes
        /\ biquery.dst \subseteq biquery.net.nodes
    BY BiQueriesAssumption
  <1>2. Ends(s) \subseteq biquery.net.nodes BY <1>1 DEF Ends
  <1>3. IsNet(BiNet(s)) /\ BiNet(s).nodes = biquery.net.nodes
    BY <1>1, SeenIs DEF BiNet
  <1>4. StepsOf(biquery.net.nodes, BiSteps(s)) BY <1>3, StepsAre DEF BiSteps
  <1>5. /\ BiCost(s) \in [biquery.net.nodes -> 0..Inf]
        /\ \A x \in Ends(s) : BiCost(s)[x] = 0
        /\ \A z \in BiSteps(s) : BiCost(s)[z.to] <= BiCost(s)[z.from] + z.c
    BY <1>2, <1>3, DistFacts DEF BiCost, BiSteps
  <1>6. biquery # NoBiQuery BY BiQueriesAssumption DEF NoBiQuery
  <1> QED BY <1>1, <1>2, <1>4, <1>5, <1>6 DEF StepsOf, IsNet

\* Induction along the cheapest ways of a side.
LEMMA BiInduct ==
  ASSUME biquery \in BiQueries, NEW s \in Sides, NEW S,
         \A x \in Ends(s) : <<x, 0>> \in S,
         \A x \in biquery.net.nodes, c \in Nat, z \in BiSteps(s) :
           <<x, c>> \in S /\ z.from = x /\ c + z.c < Inf => <<z.to, c + z.c>> \in S,
         NEW x \in biquery.net.nodes, BiCost(s)[x] < Inf
  PROVE  <<x, BiCost(s)[x]>> \in S
  <1>1. IsNet(biquery.net) BY BiQueriesAssumption
  <1>2. IsNet(BiNet(s)) /\ BiNet(s).nodes = biquery.net.nodes
    BY <1>1, SeenIs DEF BiNet
  <1>3. Ends(s) \subseteq BiNet(s).nodes BY <1>2, BiFacts
  <1> QED BY <1>2, <1>3, DistFacts DEF BiCost, BiSteps

\* A step of one side is a step of the other.
LEMMA BiMirror ==
  ASSUME biquery \in BiQueries, NEW s \in Sides, NEW z \in BiSteps(s)
  PROVE  \E y \in BiSteps(Other(s)) : y.from = z.to /\ y.to = z.from /\ y.c = z.c
  <1>1. IsNet(biquery.net) BY BiQueriesAssumption
  <1>2. [from |-> z.to, to |-> z.from, c |-> z.c] \in BiSteps(Other(s))
    BY <1>1, SeenIs DEF BiNet, BiSteps
  <1> QED BY <1>2

\* The edges by which a side leaves a node are its steps from it.
LEMMA AdjAreSteps ==
  ASSUME biquery \in BiQueries, NEW s \in Sides, NEW x \in biquery.net.nodes
  PROVE  /\ \A e \in Adj(s, x) :
              /\ OtherNd(e, x) \in biquery.net.nodes /\ e.c \in Nat
              /\ \E z \in BiSteps(s) : z.from = x /\ z.to = OtherNd(e, x) /\ z.c = e.c
         /\ \A z \in BiSteps(s) : z.from = x =>
              \E e \in Adj(s, x) : OtherNd(e, x) = z.to /\ e.c = z.c
  <1>1. IsNet(biquery.net) BY BiQueriesAssumption
  <1>2. CASE s = "fwd"
    BY <1>1, <1>2, EdgesAreSteps DEF Adj, BiSteps, BiNet, Seen
  <1>3. CASE s = "bwd"
    <2> DEFINE net == biquery.net
               rev == BiNet(s)
    <2>1. /\ rev.edges = {[from |-> e.to, to |-> e.from, c |-> e.c] : e \in net.edges}
          /\ rev.directed = net.directed
      BY <1>3 DEF BiNet, Seen
    <2>2. Adj(s, x) = AdjIn(net, x) BY <1>3 DEF Adj
    <2> HIDE DEF rev
    <2>3. ASSUME NEW e \in AdjIn(net, x)
          PROVE  /\ OtherNd(e, x) \in net.nodes /\ e.c \in Nat
                 /\ \E z \in NodeSteps(rev) : z.from = x /\ z.to = OtherNd(e, x) /\ z.c = e.c
      <3>1. e \in net.edges /\ (e.to = x \/ (~net.directed /\ e.from = x)) BY DEF AdjIn
      <3>2. OtherNd(e, x) \in net.nodes /\ e.c \in Nat BY <1>1, <3>1 DEF IsNet, OtherNd
      <3>3. PICK g \in rev.edges : g = [from |-> e.to, to |-> e.from, c |-> e.c]
        BY <2>1, <3>1
      <3>4. CASE e.to = x
        <4>1. [from |-> g.from, to |-> g.to, c |-> g.c] \in NodeSteps(rev) BY DEF NodeSteps
        <4>2. OtherNd(e, x) = e.from BY <3>4 DEF OtherNd
        <4> QED BY <3>2, <3>3, <3>4, <4>1, <4>2
      <3>5. CASE e.to # x
        <4>1. e.from = x /\ ~rev.directed BY <2>1, <3>1, <3>5
        <4>2. [from |-> g.to, to |-> g.from, c |-> g.c] \in NodeSteps(rev)
          BY <4>1 DEF NodeSteps
        <4>3. OtherNd(e, x) = e.to \/ e.to = x BY <4>1, <3>5 DEF OtherNd
        <4>4. e.from = x => OtherNd(e, x) = IF e.to = x THEN e.from ELSE e.to
          BY DEF OtherNd
        <4> QED BY <3>2, <3>3, <3>5, <4>1, <4>2, <4>4
      <3> QED BY <3>4, <3>5
    <2>4. ASSUME NEW z \in NodeSteps(rev), z.from = x
          PROVE  \E e \in AdjIn(net, x) : OtherNd(e, x) = z.to /\ e.c = z.c
      <3>1. CASE \E g \in rev.edges : z = [from |-> g.from, to |-> g.to, c |-> g.c]
        <4>1. PICK g \in rev.edges : z = [from |-> g.from, to |-> g.to, c |-> g.c] BY <3>1
        <4>2. PICK e \in net.edges : g = [from |-> e.to, to |-> e.from, c |-> e.c] BY <2>1
        <4>3. e.to = x /\ z.to = e.from /\ z.c = e.c BY <2>4, <4>1, <4>2
        <4> QED BY <4>3 DEF AdjIn, OtherNd
      <3>2. CASE ~net.directed
                 /\ \E g \in rev.edges : z = [from |-> g.to, to |-> g.from, c |-> g.c]
        <4>1. PICK g \in rev.edges : z = [from |-> g.to, to |-> g.from, c |-> g.c] BY <3>2
        <4>2. PICK e \in net.edges : g = [from |-> e.to, to |-> e.from, c |-> e.c] BY <2>1
        <4>3. e.from = x /\ z.to = e.to /\ z.c = e.c BY <2>4, <4>1, <4>2
        <4> QED BY <3>2, <4>3 DEF AdjIn, OtherNd
      <3> QED BY <2>1, <3>1, <3>2 DEF NodeSteps
    <2> QED BY <2>2, <2>3, <2>4 DEF BiSteps, rev
  <1> QED BY <1>2, <1>3 DEF Sides

-----------------------------------------------------------------------------
(* Two searches: what holds while they run. *)

\* An entry of a side costs what some way costs.
BiEntry(s, r) ==
  r.n \in biquery.net.nodes /\ r.d \in Nat /\ r.d < Inf /\ BiCost(s)[r.n] <= r.d

\* What a side has settled costs what the cheapest way costs.
BiEntries ==
  \A s \in Sides :
    /\ \A r \in sides[s] : BiEntry(s, r)
    /\ DOMAIN done[s] \subseteq biquery.net.nodes
    /\ \A n \in DOMAIN done[s] :
         BiEntry(s, done[s][n]) /\ done[s][n].n = n /\ done[s][n].d = BiCost(s)[n]

\* The queue of a side is its frontier: no way leaves what it has settled but by
\* an entry.
BiFrontier ==
  \A s \in Sides :
    /\ \A x \in Ends(s) : KnownIn(sides[s], done[s], x, 0)
    /\ \A x \in DOMAIN done[s], z \in BiSteps(s) :
         z.from = x /\ done[s][x].d + z.c < Inf
         => KnownIn(sides[s], done[s], z.to, done[s][x].d + z.c)

\* The sides take turns: nothing queued on either side is cheaper than what
\* either has settled.
BiOrdered ==
  \A s \in Sides, u \in Sides : \A n \in DOMAIN done[s], r \in sides[u] : done[s][n].d <= r.d

\* The best connection seen is no dearer than any step between the sides, cheaper
\* than any node both have settled, and there is one that costs as much.
BiBest ==
  /\ \A s \in Sides : \A z \in BiSteps(s) :
       z.from \in DOMAIN done[s] /\ z.to \in DOMAIN done[Other(s)] =>
         best <= done[s][z.from].d + z.c + done[Other(s)][z.to].d
  /\ \A s \in Sides : \A n \in DOMAIN done[s] \cap DOMAIN done[Other(s)] :
       best < done[s][n].d + done[Other(s)][n].d
  /\ NearestDist <= best

BiLoop == BiFrontier /\ BiOrdered /\ BiBest /\ meet = NoNode

\* A node a side has not settled is not nearer than all of its entries.
LEMMA BiCovers ==
  ASSUME biquery \in BiQueries, BiEntries, BiFrontier, NEW s \in Sides,
         NEW x \in biquery.net.nodes, BiCost(s)[x] < Inf, x \notin DOMAIN done[s]
  PROVE  \E r \in sides[s] : r.d <= BiCost(s)[x]
  <1> DEFINE Q(y, c) == \/ y \in DOMAIN done[s] /\ done[s][y].d <= c
                        \/ \E r \in sides[s] : r.d <= c
             S == {p \in biquery.net.nodes \X Nat : Q(p[1], p[2])}
  <1>0. /\ \A r \in sides[s] : r.d \in Nat
        /\ \A y \in DOMAIN done[s] : done[s][y].d \in Nat
    BY DEF BiEntries, BiEntry
  <1>1. \A y \in Ends(s) : <<y, 0>> \in S
    <2>1. ASSUME NEW y \in Ends(s) PROVE y \in biquery.net.nodes /\ Q(y, 0)
      <3>1. KnownIn(sides[s], done[s], y, 0) BY DEF BiFrontier
      <3> QED BY <3>1, BiFacts DEF KnownIn
    <2> HIDE DEF Q
    <2> QED BY <2>1
  <1>2. ASSUME NEW y \in biquery.net.nodes, NEW c \in Nat, NEW z \in BiSteps(s),
               <<y, c>> \in S, z.from = y, c + z.c < Inf
        PROVE  <<z.to, c + z.c>> \in S
    <2>1. Q(y, c) /\ z.to \in biquery.net.nodes /\ z.c \in Nat
      <3> HIDE DEF Q
      <3> QED BY <1>2, BiFacts
    <2>2. CASE y \in DOMAIN done[s] /\ done[s][y].d <= c
      <3>1. done[s][y].d + z.c < Inf /\ done[s][y].d + z.c <= c + z.c
        BY <1>0, <1>2, <2>1, <2>2, InfAssumption
      <3>2. KnownIn(sides[s], done[s], z.to, done[s][y].d + z.c)
        BY <1>2, <2>2, <3>1 DEF BiFrontier
      <3>3. Q(z.to, c + z.c)
        <4>1. \A d \in Nat : d <= done[s][y].d + z.c => d <= c + z.c
          BY <1>0, <2>1, <2>2
        <4> QED BY <1>0, <3>2, <4>1 DEF KnownIn
      <3> HIDE DEF Q
      <3> QED BY <2>1, <3>3
    <2>3. CASE \E r \in sides[s] : r.d <= c
      <3>1. Q(z.to, c + z.c) BY <1>0, <2>1, <2>3
      <3> HIDE DEF Q
      <3> QED BY <2>1, <3>1
    <2> QED BY <2>1, <2>2, <2>3
  <1>3. <<x, BiCost(s)[x]>> \in S
    <2> HIDE DEF S
    <2> QED BY <1>1, <1>2, BiInduct
  <1> QED BY <1>3

\* The cheapest entry of a side is exact, unless its node is settled.
LEMMA BiTopIsExact ==
  ASSUME biquery \in BiQueries, BiEntries, BiFrontier, NEW s \in Sides,
         NEW r \in BiTops(s), ~BiStale(s, r)
  PROVE  r.n \notin DOMAIN done[s] /\ r.d = BiCost(s)[r.n]
  <1>1. r \in sides[s] /\ \A x \in sides[s] : r.d <= x.d BY DEF BiTops
  <1>2. BiEntry(s, r) BY <1>1 DEF BiEntries
  <1>3. BiCost(s)[r.n] \in Nat /\ r.d \in Nat /\ BiCost(s)[r.n] < Inf
    BY <1>2, BiFacts, InfAssumption DEF BiEntry
  <1>4. r.n \notin DOMAIN done[s]
    <2> SUFFICES ASSUME r.n \in DOMAIN done[s] PROVE FALSE
      OBVIOUS
    <2>1. done[s][r.n].d = BiCost(s)[r.n] BY DEF BiEntries
    <2> QED BY <2>1, <1>2 DEF BiStale, BiEntry
  <1>5. PICK e \in sides[s] : e.d <= BiCost(s)[r.n]
    BY <1>2, <1>3, <1>4, BiCovers DEF BiEntry
  <1>6. e.d \in Nat BY DEF BiEntries, BiEntry
  <1> QED BY <1>1, <1>2, <1>3, <1>4, <1>5, <1>6 DEF BiEntry

\* What is looked for: the cost of a nearest target.
LEMMA NearestIs ==
  ASSUME biquery \in BiQueries
  PROVE  /\ NearestDist \in 0..Inf
         /\ \A t \in biquery.dst : NearestDist <= BiCost("fwd")[t]
         /\ NearestDist = Inf \/ \E t \in biquery.dst : NearestDist = BiCost("fwd")[t]
  <1> DEFINE D == BiCost("fwd")
             C == {D[t] : t \in biquery.dst} \cup {Inf}
  <1>1. D = DistFrom(biquery.net, biquery.src) BY DEF BiCost, BiNet, Seen, Ends
  <1>2. NearestDist = Min(C) BY <1>1 DEF NearestDist
  <1>3. D \in [biquery.net.nodes -> 0..Inf] BY BiFacts DEF Sides
  <1>4. biquery.dst \subseteq biquery.net.nodes BY BiQueriesAssumption
  <1> HIDE DEF D
  <1>5. C \subseteq 0..Inf /\ Inf \in C BY <1>3, <1>4, InfAssumption
  <1>6. Min(C) \in C /\ \A c \in C : Min(C) <= c
    <2> HIDE DEF C
    <2>1. C \subseteq Nat BY <1>5
    <2> QED BY <1>5, <2>1, LeastIn
  <1> QED BY <1>2, <1>5, <1>6 DEF D

\* No node is on a cheaper connection than that.
LEMMA NearestBelow ==
  ASSUME biquery \in BiQueries, NEW x \in biquery.net.nodes
  PROVE  NearestDist <= BiCost("fwd")[x] + BiCost("bwd")[x]
  <1> DEFINE D == BiCost("fwd")
             B == BiCost("bwd")
             M == NearestDist
             S == {p \in biquery.net.nodes \X Nat : M <= p[2] + D[p[1]]}
  <1>1. /\ D \in [biquery.net.nodes -> 0..Inf] /\ B \in [biquery.net.nodes -> 0..Inf]
        /\ M \in 0..Inf
    BY BiFacts, NearestIs DEF Sides
  <1>2. \A y \in Ends("bwd") : y \in biquery.net.nodes /\ M <= D[y]
    BY NearestIs, BiFacts DEF Ends, Sides
  <1>3. ASSUME NEW z \in BiSteps("bwd")
        PROVE  z.from \in biquery.net.nodes /\ z.to \in biquery.net.nodes /\ z.c \in Nat
               /\ D[z.from] <= D[z.to] + z.c
    <2>1. PICK y \in BiSteps("fwd") : y.from = z.to /\ y.to = z.from /\ y.c = z.c
      BY BiMirror DEF Sides, Other
    <2> QED BY <2>1, BiFacts DEF Sides
  <1> HIDE DEF D, B, M
  <1>4. \A y \in Ends("bwd") : <<y, 0>> \in S
    BY <1>1, <1>2
  <1>5. ASSUME NEW y \in biquery.net.nodes, NEW c \in Nat, NEW z \in BiSteps("bwd"),
               <<y, c>> \in S, z.from = y, c + z.c < Inf
        PROVE  <<z.to, c + z.c>> \in S
    <2>1. M <= c + D[y] /\ D[y] <= D[z.to] + z.c BY <1>3, <1>5
    <2>2. D[y] \in Int /\ D[z.to] \in Int /\ z.c \in Nat /\ M \in Int BY <1>1, <1>3
    <2>3. M <= (c + z.c) + D[z.to] BY <2>1, <2>2
    <2> QED BY <2>3, <1>3
  <1>6. CASE B[x] < Inf
    <2>1. <<x, B[x]>> \in S
      <3> HIDE DEF S
      <3> QED BY <1>4, <1>5, <1>6, BiInduct DEF B, Sides
    <2>2. M <= B[x] + D[x] BY <2>1
    <2>3. B[x] \in Int /\ D[x] \in Int BY <1>1
    <2> QED BY <2>2, <2>3 DEF B, D, M
  <1>7. CASE ~(B[x] < Inf)
    <2>1. B[x] = Inf /\ D[x] \in Nat /\ M <= Inf BY <1>1, <1>7, InfAssumption
    <2> QED BY <2>1, <1>1, InfAssumption DEF B, D, M
  <1> QED BY <1>6, <1>7

\* There is a source that near to a target.
LEMMA SourceNear ==
  ASSUME biquery \in BiQueries, NearestDist < Inf
  PROVE  \E x \in biquery.src : BiCost("bwd")[x] <= NearestDist
  <1> DEFINE D == BiCost("fwd")
             B == BiCost("bwd")
             S == {p \in biquery.net.nodes \X Nat :
                     \E x \in biquery.src : B[x] <= p[2] + B[p[1]]}
  <1>1. /\ D \in [biquery.net.nodes -> 0..Inf] /\ B \in [biquery.net.nodes -> 0..Inf]
        /\ Ends("fwd") = biquery.src /\ biquery.src \subseteq biquery.net.nodes
        /\ Ends("bwd") = biquery.dst /\ \A t \in biquery.dst : B[t] = 0
        /\ biquery.dst \subseteq biquery.net.nodes
    BY BiFacts, BiQueriesAssumption DEF Sides, Ends
  <1>2. PICK t \in biquery.dst : NearestDist = D[t] BY NearestIs, InfAssumption
  <1>3. ASSUME NEW z \in BiSteps("fwd")
        PROVE  z.from \in biquery.net.nodes /\ z.to \in biquery.net.nodes /\ z.c \in Nat
               /\ B[z.from] <= B[z.to] + z.c
    <2>1. PICK y \in BiSteps("bwd") : y.from = z.to /\ y.to = z.from /\ y.c = z.c
      BY BiMirror DEF Sides, Other
    <2> QED BY <2>1, BiFacts DEF Sides
  <1> HIDE DEF D, B
  <1>4. \A y \in Ends("fwd") : <<y, 0>> \in S
    <2>1. ASSUME NEW y \in biquery.src PROVE y \in biquery.net.nodes /\ B[y] <= 0 + B[y]
      BY <1>1
    <2> QED BY <1>1, <2>1
  <1>5. ASSUME NEW y \in biquery.net.nodes, NEW c \in Nat, NEW z \in BiSteps("fwd"),
               <<y, c>> \in S, z.from = y, c + z.c < Inf
        PROVE  <<z.to, c + z.c>> \in S
    <2>1. PICK x \in biquery.src : B[x] <= c + B[y] BY <1>5
    <2>2. B[y] <= B[z.to] + z.c BY <1>3, <1>5
    <2>3. B[x] \in Int /\ B[y] \in Int /\ B[z.to] \in Int /\ z.c \in Nat BY <1>1, <1>3
    <2>4. B[x] <= (c + z.c) + B[z.to] BY <2>1, <2>2, <2>3
    <2> QED BY <2>4, <1>3
  <1>6. <<t, D[t]>> \in S
    <2> HIDE DEF S
    <2>1. t \in biquery.net.nodes /\ D[t] < Inf BY <1>1, <1>2
    <2> QED BY <2>1, <1>4, <1>5, BiInduct DEF D, Sides
  <1>7. PICK x \in biquery.src : B[x] <= D[t] + B[t] BY <1>6
  <1>8. B[t] = 0 /\ D[t] \in Int BY <1>1
  <1> QED BY <1>2, <1>7, <1>8 DEF B, D

-----------------------------------------------------------------------------
(* Two searches: what they return. *)

\* A connection no dearer than the best seen, nor than any two entries, is a
\* cheapest one: by induction along ways, one that has left what the forward
\* side has settled costs no less.
LEMMA NoneNearer ==
  ASSUME biquery \in BiQueries, BiEntries, BiFrontier, BiBest, best \in 0..Inf,
         NEW L \in Nat, L <= best,
         \A s \in Sides, u \in Sides : \A e \in sides[s], g \in sides[u] : L <= e.d + g.d
  PROVE  L <= NearestDist
  <1> DEFINE D == BiCost("fwd")
             B == BiCost("bwd")
             F == done["fwd"]
             G == done["bwd"]
             Q(y, c) == (y \in DOMAIN F /\ D[y] <= c) \/ L <= c + B[y]
             S == {p \in biquery.net.nodes \X Nat : Q(p[1], p[2])}
  <1>1. /\ D \in [biquery.net.nodes -> 0..Inf] /\ B \in [biquery.net.nodes -> 0..Inf]
        /\ Ends("fwd") = biquery.src /\ biquery.src \subseteq biquery.net.nodes
        /\ Ends("bwd") = biquery.dst /\ biquery.dst \subseteq biquery.net.nodes
        /\ \A t \in biquery.src : D[t] = 0
        /\ \A t \in biquery.dst : B[t] = 0
        /\ "fwd" \in Sides /\ "bwd" \in Sides /\ Other("fwd") = "bwd"
    BY BiFacts, BiQueriesAssumption DEF Sides, Ends, Other
  <1>2. /\ \A n \in DOMAIN F : F[n].d = D[n] /\ n \in biquery.net.nodes
        /\ \A n \in DOMAIN G : G[n].d = B[n] /\ n \in biquery.net.nodes
        /\ \A s \in Sides : \A e \in sides[s] : e.d \in Nat
    BY <1>1 DEF BiEntries, BiEntry
  <1>3. ASSUME NEW z \in BiSteps("fwd")
        PROVE  /\ z.from \in biquery.net.nodes /\ z.to \in biquery.net.nodes /\ z.c \in Nat
               /\ B[z.from] <= B[z.to] + z.c /\ D[z.to] <= D[z.from] + z.c
    <2>1. PICK y \in BiSteps("bwd") : y.from = z.to /\ y.to = z.from /\ y.c = z.c
      BY BiMirror DEF Sides, Other
    <2> QED BY <2>1, BiFacts DEF Sides
  <1>4. ASSUME NEW y \in biquery.net.nodes, NEW c \in Nat,
               KnownIn(sides["fwd"], F, y, c), y \notin DOMAIN F, y \notin DOMAIN G
        PROVE  L <= c + B[y]
    <2>1. PICK e \in sides["fwd"] : e.d <= c BY <1>4 DEF KnownIn
    <2>2. CASE B[y] < Inf
      <3>1. PICK g \in sides["bwd"] : g.d <= B[y] BY <1>1, <1>4, <2>2, BiCovers
      <3>2. L <= e.d + g.d /\ e.d \in Nat /\ g.d \in Nat BY <1>1, <1>2
      <3>3. B[y] \in Nat BY <1>1
      <3> HIDE DEF B
      <3> QED BY <2>1, <3>1, <3>2, <3>3
    <2>3. CASE ~(B[y] < Inf)
      <3>1. B[y] = Inf BY <1>1, <2>3, InfAssumption
      <3> HIDE DEF B
      <3> QED BY <3>1, InfAssumption
    <2> QED BY <2>2, <2>3
  <1>5. ASSUME NEW y \in biquery.src PROVE Q(y, 0)
    <2>1. KnownIn(sides["fwd"], F, y, 0) BY <1>1 DEF BiFrontier
    <2>2. CASE y \in DOMAIN F BY <1>1, <2>2
    <2>3. CASE y \notin DOMAIN F
      <3>1. PICK e \in sides["fwd"] : e.d <= 0 BY <2>1, <2>3 DEF KnownIn
      <3>2. L <= e.d + e.d /\ e.d \in Nat BY <1>1, <1>2
      <3>3. y \in biquery.net.nodes /\ B[y] \in Nat BY <1>1
      <3> HIDE DEF B
      <3> QED BY <3>1, <3>2, <3>3
    <2> QED BY <2>2, <2>3
  <1>6. ASSUME NEW y \in biquery.net.nodes, NEW c \in Nat, NEW z \in BiSteps("fwd"),
               Q(y, c), z.from = y, c + z.c < Inf
        PROVE  Q(z.to, c + z.c)
    <2>1. /\ z.to \in biquery.net.nodes /\ z.c \in Nat
          /\ B[y] <= B[z.to] + z.c /\ D[z.to] <= D[y] + z.c
      BY <1>3, <1>6
    <2>2. B[y] \in Nat /\ B[z.to] \in Nat /\ D[y] \in Nat /\ D[z.to] \in Nat BY <1>1, <2>1
    <2> HIDE DEF B, D
    <2>3. CASE L <= c + B[y] BY <2>1, <2>2, <2>3
    <2>4. CASE y \in DOMAIN F /\ D[y] <= c
      <3>1. CASE z.to \in DOMAIN F BY <2>1, <2>2, <2>4, <3>1
      <3>2. CASE z.to \notin DOMAIN F /\ z.to \in DOMAIN G
        <4>1. best <= F[y].d + z.c + G[z.to].d
          BY <1>1, <1>6, <2>4, <3>2 DEF BiBest
        <4>2. F[y].d = D[y] /\ G[z.to].d = B[z.to] BY <1>2, <2>4, <3>2
        <4> QED BY <2>1, <2>2, <2>4, <4>1, <4>2
      <3>3. CASE z.to \notin DOMAIN F /\ z.to \notin DOMAIN G
        <4>1. F[y].d = D[y] BY <1>2, <2>4
        <4>2. F[y].d + z.c < Inf BY <1>6, <2>1, <2>2, <2>4, <4>1, InfAssumption
        <4>3. KnownIn(sides["fwd"], F, z.to, F[y].d + z.c)
          BY <1>1, <1>6, <2>4, <4>2 DEF BiFrontier
        <4>4. L <= (F[y].d + z.c) + B[z.to]
          <5>1. F[y].d + z.c \in Nat BY <2>1, <2>2, <4>1
          <5> QED BY <1>4, <2>1, <3>3, <4>3, <5>1
        <4> QED BY <2>1, <2>2, <2>4, <4>1, <4>4
      <3> QED BY <3>1, <3>2, <3>3
    <2> QED BY <1>6, <2>3, <2>4
  <1>7. CASE NearestDist = Inf BY <1>7, InfAssumption
  <1>8. CASE NearestDist # Inf
    <2>1. PICK t \in biquery.dst : NearestDist = D[t] BY <1>8, NearestIs
    <2>2. t \in biquery.net.nodes /\ D[t] \in Nat /\ D[t] < Inf /\ B[t] = 0
      BY <1>1, <1>8, <2>1, InfAssumption
    <2>3. Q(t, D[t])
      <3>1. \A y \in Ends("fwd") : <<y, 0>> \in S
        <4> HIDE DEF Q
        <4> QED BY <1>1, <1>5
      <3>2. \A y \in biquery.net.nodes, c \in Nat, z \in BiSteps("fwd") :
              <<y, c>> \in S /\ z.from = y /\ c + z.c < Inf => <<z.to, c + z.c>> \in S
        <4> SUFFICES ASSUME NEW y \in biquery.net.nodes, NEW c \in Nat,
                            NEW z \in BiSteps("fwd"), <<y, c>> \in S, z.from = y, c + z.c < Inf
                     PROVE  <<z.to, c + z.c>> \in S
          OBVIOUS
        <4> HIDE DEF Q
        <4>1. Q(z.to, c + z.c) BY <1>6
        <4>2. z.to \in biquery.net.nodes /\ c + z.c \in Nat BY <1>3
        <4> QED BY <4>1, <4>2
      <3>3. <<t, D[t]>> \in S
        <4> HIDE DEF S
        <4> QED BY <1>1, <2>2, <3>1, <3>2, BiInduct
      <3> HIDE DEF Q, D
      <3> QED BY <3>3
    <2>4. CASE L <= D[t] + B[t]
      <3> HIDE DEF D, B
      <3> QED BY <2>1, <2>2, <2>4
    <2>5. CASE t \in DOMAIN F
      <3>1. KnownIn(sides["bwd"], G, t, 0) BY <1>1 DEF BiFrontier
      <3>2. CASE t \in DOMAIN G
        <4>1. best < F[t].d + G[t].d BY <1>1, <2>5, <3>2 DEF BiBest
        <4>2. F[t].d = D[t] /\ G[t].d = 0 BY <1>2, <2>2, <2>5, <3>2
        <4> HIDE DEF D
        <4> QED BY <2>1, <2>2, <4>1, <4>2
      <3>3. CASE t \notin DOMAIN G
        <4>1. PICK g \in sides["bwd"] : g.d <= 0 BY <3>1, <3>3 DEF KnownIn
        <4>2. L <= g.d + g.d /\ g.d \in Nat BY <1>1, <1>2
        <4> HIDE DEF D
        <4> QED BY <2>1, <2>2, <4>1, <4>2
      <3> QED BY <3>2, <3>3
    <2> QED BY <2>3, <2>4, <2>5
  <1> QED BY <1>7, <1>8

\* An empty queue: its side has settled all it reaches.  If the other end of a
\* cheapest way is settled by both the best connection is that, and if not its
\* entry is still the cheapest.
LEMMA BiNothingLeft ==
  ASSUME biquery \in BiQueries, BiEntries, BiFrontier, BiOrdered, BiBest, best \in 0..Inf,
         NEW s \in Sides, sides[s] = {}, NearestDist # Inf
  PROVE  NearestDist = 0
  <1> DEFINE D == BiCost("fwd")
             B == BiCost("bwd")
             F == done["fwd"]
             G == done["bwd"]
             M == NearestDist
  <1>1. /\ D \in [biquery.net.nodes -> 0..Inf] /\ B \in [biquery.net.nodes -> 0..Inf]
        /\ Ends("fwd") = biquery.src /\ biquery.src \subseteq biquery.net.nodes
        /\ Ends("bwd") = biquery.dst /\ biquery.dst \subseteq biquery.net.nodes
        /\ \A t \in biquery.src : D[t] = 0
        /\ \A t \in biquery.dst : B[t] = 0
        /\ "fwd" \in Sides /\ "bwd" \in Sides /\ Other("fwd") = "bwd"
    BY BiFacts, BiQueriesAssumption DEF Sides, Ends, Other
  <1>2. /\ \A n \in DOMAIN F : F[n].d = D[n]
        /\ \A n \in DOMAIN G : G[n].d = B[n]
        /\ \A u \in Sides : \A e \in sides[u] : e.d \in Nat
    BY <1>1 DEF BiEntries, BiEntry
  <1>3. M \in Nat /\ M < Inf /\ M <= best BY NearestIs, InfAssumption DEF BiBest
  <1>4. CASE s = "fwd"
    <2>1. PICK t \in biquery.dst : M = D[t] BY NearestIs
    <2>2. t \in DOMAIN F BY <1>1, <1>3, <1>4, <2>1, BiCovers
    <2>3. CASE t \in DOMAIN G
      <3>1. best < F[t].d + G[t].d BY <1>1, <2>2, <2>3 DEF BiBest
      <3>2. F[t].d = D[t] /\ G[t].d = 0 BY <1>1, <1>2, <2>2, <2>3
      <3> HIDE DEF D, M
      <3> QED BY <1>3, <2>1, <3>1, <3>2
    <2>4. CASE t \notin DOMAIN G
      <3>1. PICK g \in sides["bwd"] : g.d <= 0 BY <1>1, <2>4 DEF KnownIn, BiFrontier
      <3>2. F[t].d <= g.d /\ g.d \in Nat BY <1>1, <1>2, <2>2 DEF BiOrdered
      <3>3. F[t].d = M BY <1>2, <2>1, <2>2
      <3> HIDE DEF M
      <3> QED BY <1>3, <3>1, <3>2, <3>3 DEF M
    <2> QED BY <2>3, <2>4
  <1>5. CASE s = "bwd"
    <2>1. PICK x \in biquery.src : B[x] <= M BY <1>3, SourceNear
    <2>2. x \in biquery.net.nodes /\ B[x] \in Nat /\ B[x] < Inf BY <1>1, <1>3, <2>1, InfAssumption
    <2>3. x \in DOMAIN G BY <1>1, <1>5, <2>2, BiCovers
    <2>4. CASE x \in DOMAIN F
      <3>1. best < F[x].d + G[x].d BY <1>1, <2>3, <2>4 DEF BiBest
      <3>2. F[x].d = 0 /\ G[x].d = B[x] BY <1>1, <1>2, <2>3, <2>4
      <3> HIDE DEF B, M
      <3> QED BY <1>3, <2>1, <2>2, <3>1, <3>2
    <2>5. CASE x \notin DOMAIN F
      <3>1. PICK g \in sides["fwd"] : g.d <= 0 BY <1>1, <2>5 DEF KnownIn, BiFrontier
      <3>2. G[x].d <= g.d /\ g.d \in Nat BY <1>1, <1>2, <2>3 DEF BiOrdered
      <3>3. G[x].d = B[x] BY <1>2, <2>3
      <3>4. M <= D[x] + B[x] /\ D[x] = 0 BY <1>1, <2>2, NearestBelow
      <3> HIDE DEF B, M, D
      <3> QED BY <1>3, <2>2, <3>1, <3>2, <3>3, <3>4 DEF M
    <2> QED BY <2>4, <2>5
  <1> QED BY <1>4, <1>5 DEF Sides

-----------------------------------------------------------------------------
(* Two searches: one side settles a node. *)

\* Both sides are there.
BiShape == /\ sides = [s \in Sides |-> sides[s]] /\ done = [s \in Sides |-> done[s]]
           /\ best \in 0..Inf

\* BiSettle, for the side s and the entry r it takes.
BiSettleBy(s, r) ==
  /\ r \in BiTops(s) /\ ~BiStale(s, r) /\ \A u \in Sides : \A e \in sides[u] : r.d <= e.d
  /\ biquery' = biquery
  /\ DOMAIN done'[s] = DOMAIN done[s] \cup {r.n}
  /\ done'[s][r.n] = r /\ \A n \in DOMAIN done[s] : n # r.n => done'[s][n] = done[s][n]
  /\ done'[Other(s)] = done[Other(s)] /\ sides'[Other(s)] = sides[Other(s)]
  /\ Meeting(s, r) =>
       /\ best' = r.d + done[Other(s)][r.n].d /\ cost' = best' /\ meet' = r.n
       /\ sides'[s] = sides[s] \ {r}
  /\ ~Meeting(s, r) =>
       /\ best' = Min({best, Connected(s, r)}) /\ cost' = cost /\ meet' = meet
       /\ sides'[s] = (sides[s] \ {r}) \cup BiRelaxed(s, r)

\* There are two sides.
LEMMA TwoSides ==
  ASSUME NEW s \in Sides
  PROVE  /\ Other(s) \in Sides /\ Other(s) # s /\ Other(Other(s)) = s
         /\ \A u \in Sides : u = s \/ u = Other(s)
         /\ (s = "fwd" /\ Other(s) = "bwd") \/ (s = "bwd" /\ Other(s) = "fwd")
  BY DEF Sides, Other

\* The side whose turn it is has the cheapest entry of both.
LEMMA TurnIsCheapest ==
  ASSUME biquery \in BiQueries, BiEntries, \A s \in Sides : sides[s] # {},
         NEW r \in BiTops(Turn)
  PROVE  Turn \in Sides /\ \A u \in Sides : \A e \in sides[u] : r.d <= e.d
  <1>1. ASSUME NEW s \in Sides
        PROVE  /\ TopCost(s) \in Nat /\ \A e \in sides[s] : TopCost(s) <= e.d
               /\ \E e \in sides[s] : TopCost(s) = e.d
    <2> DEFINE C == {e.d : e \in sides[s]}
    <2>1. C \subseteq Nat /\ C # {} BY DEF BiEntries, BiEntry
    <2>2. Min(C) \in C /\ \A c \in C : Min(C) <= c
      <3> HIDE DEF C
      <3> QED BY <2>1, LeastIn
    <2> QED BY <2>1, <2>2 DEF TopCost
  <1>2. Turn \in Sides BY DEF Turn, Sides
  <1>3. r \in sides[Turn] /\ \A x \in sides[Turn] : r.d <= x.d BY DEF BiTops
  <1>4. \A u \in Sides : TopCost(Turn) <= TopCost(u)
    <2>1. TopCost("fwd") \in Nat /\ TopCost("bwd") \in Nat BY <1>1 DEF Sides
    <2> HIDE DEF TopCost
    <2> QED BY <2>1 DEF Turn, Sides
  <1>5. ASSUME NEW u \in Sides, NEW e \in sides[u] PROVE r.d <= e.d
    <2>1. r.d \in Nat /\ e.d \in Nat BY <1>2, <1>3 DEF BiEntries, BiEntry
    <2>2. r.d <= TopCost(Turn)
      <3>1. PICK x \in sides[Turn] : TopCost(Turn) = x.d BY <1>1, <1>2
      <3> QED BY <3>1, <1>3
    <2>3. TopCost(Turn) <= TopCost(u) /\ TopCost(u) <= e.d BY <1>1, <1>4
    <2>4. TopCost(Turn) \in Nat /\ TopCost(u) \in Nat BY <1>1, <1>2
    <2> HIDE DEF TopCost, Turn
    <2> QED BY <2>1, <2>2, <2>3, <2>4
  <1> QED BY <1>2, <1>5

\* Every BiSettle is one of a side and an entry.
LEMMA BiSettleHow ==
  ASSUME BiShape, biquery \in BiQueries, BiEntries, BiSettle
  PROVE  BiRunning /\ \E s \in Sides : \E r : BiSettleBy(s, r)
  <1>1. BiRunning /\ (\A s \in Sides : sides[s] # {}) /\ biquery' = biquery
    BY DEF BiSettle, BiGoesOn
  <1>2. PICK r \in BiTops(Turn) :
          /\ ~BiStale(Turn, r)
          /\ done' = [done EXCEPT ![Turn] =
                        [n \in DOMAIN @ \cup {r.n} |-> IF n = r.n THEN r ELSE @[n]]]
          /\ \/ /\ Meeting(Turn, r)
                /\ best' = r.d + done[Other(Turn)][r.n].d
                /\ cost' = best'
                /\ meet' = r.n
                /\ sides' = [sides EXCEPT ![Turn] = @ \ {r}]
             \/ /\ ~Meeting(Turn, r)
                /\ best' = Min({best, Connected(Turn, r)})
                /\ sides' = [sides EXCEPT ![Turn] = (@ \ {r}) \cup BiRelaxed(Turn, r)]
                /\ UNCHANGED <<meet, cost>>
    BY DEF BiSettle
  <1>3. PICK s : s = Turn OBVIOUS
  <1>4. s \in Sides /\ \A u \in Sides : \A e \in sides[u] : r.d <= e.d
    BY <1>1, <1>3, TurnIsCheapest
  <1>5. /\ Other(s) \in Sides /\ Other(s) # s BY <1>4, TwoSides
  <1>6. DOMAIN sides = Sides /\ DOMAIN done = Sides BY DEF BiShape
  <1>7. /\ DOMAIN done'[s] = DOMAIN done[s] \cup {r.n}
        /\ done'[s][r.n] = r /\ \A n \in DOMAIN done[s] : n # r.n => done'[s][n] = done[s][n]
        /\ done'[Other(s)] = done[Other(s)]
    BY <1>2, <1>3, <1>4, <1>5, <1>6
  <1>8. sides'[Other(s)] = sides[Other(s)] BY <1>2, <1>3, <1>4, <1>5, <1>6
  <1>9. Meeting(s, r) =>
          /\ best' = r.d + done[Other(s)][r.n].d /\ cost' = best' /\ meet' = r.n
          /\ sides'[s] = sides[s] \ {r}
    BY <1>2, <1>3, <1>4, <1>6
  <1>10. ~Meeting(s, r) =>
           /\ best' = Min({best, Connected(s, r)}) /\ cost' = cost /\ meet' = meet
           /\ sides'[s] = (sides[s] \ {r}) \cup BiRelaxed(s, r)
    BY <1>2, <1>3, <1>4, <1>6
  <1> QED BY <1>1, <1>2, <1>3, <1>4, <1>7, <1>8, <1>9, <1>10 DEF BiSettleBy

\* What is relaxed are entries, one for each step but those that cost too much.
LEMMA BiRelaxedIs ==
  ASSUME biquery \in BiQueries, NEW s \in Sides, NEW r, BiEntry(s, r)
  PROVE  /\ \A e \in BiRelaxed(s, r) :
              /\ BiEntry(s, e) /\ e.parent = r.n
              /\ \E z \in BiSteps(s) : z.from = r.n /\ z.to = e.n /\ z.c \in Nat
                                       /\ e.d = r.d + z.c
         /\ \A z \in BiSteps(s) : z.from = r.n /\ r.d + z.c < Inf =>
              \E e \in BiRelaxed(s, r) : e.n = z.to /\ e.d = r.d + z.c
  <1>1. r.n \in biquery.net.nodes /\ r.d \in Nat /\ BiCost(s)[r.n] <= r.d BY DEF BiEntry
  <1>2. ASSUME NEW e \in BiRelaxed(s, r)
        PROVE  /\ BiEntry(s, e) /\ e.parent = r.n
               /\ \E z \in BiSteps(s) : z.from = r.n /\ z.to = e.n /\ z.c \in Nat
                                        /\ e.d = r.d + z.c
    <2>1. PICK g \in Adj(s, r.n) : /\ r.d + g.c < Inf
                                   /\ e = [n |-> OtherNd(g, r.n), parent |-> r.n, d |-> r.d + g.c]
      BY DEF BiRelaxed
    <2>2. PICK z \in BiSteps(s) : z.from = r.n /\ z.to = OtherNd(g, r.n) /\ z.c = g.c
      BY <1>1, AdjAreSteps
    <2>3. /\ z.c \in Nat /\ z.to \in biquery.net.nodes
          /\ BiCost(s)[z.to] <= BiCost(s)[r.n] + z.c
          /\ BiCost(s)[z.to] \in Nat /\ BiCost(s)[r.n] \in Nat
      BY <1>1, <2>2, BiFacts
    <2>4. e.n = z.to /\ e.d = r.d + z.c /\ e.parent = r.n /\ e.d < Inf BY <2>1, <2>2
    <2>5. BiCost(s)[e.n] <= e.d /\ e.d \in Nat BY <1>1, <2>3, <2>4
    <2> QED BY <2>2, <2>3, <2>4, <2>5 DEF BiEntry
  <1>3. ASSUME NEW z \in BiSteps(s), z.from = r.n, r.d + z.c < Inf
        PROVE  \E e \in BiRelaxed(s, r) : e.n = z.to /\ e.d = r.d + z.c
    <2>1. PICK g \in Adj(s, r.n) : OtherNd(g, r.n) = z.to /\ g.c = z.c
      BY <1>1, <1>3, AdjAreSteps
    <2> DEFINE e == [n |-> OtherNd(g, r.n), parent |-> r.n, d |-> r.d + g.c]
    <2>2. e \in BiRelaxed(s, r) BY <1>3, <2>1 DEF BiRelaxed
    <2> QED BY <2>1, <2>2
  <1> QED BY <1>2, <1>3

\* The cheapest connection made, by its members.
LEMMA ConnectedIs ==
  ASSUME biquery \in BiQueries, BiEntries, NEW s \in Sides, NEW r, BiEntry(s, r)
  PROVE  /\ Connected(s, r) \in 0..Inf
         /\ \A e \in BiRelaxed(s, r) : e.n \in DOMAIN done[Other(s)] =>
              Connected(s, r) <= e.d + done[Other(s)][e.n].d
         /\ \/ Connected(s, r) = Inf
            \/ \E e \in BiRelaxed(s, r) : /\ e.n \in DOMAIN done[Other(s)]
                                          /\ Connected(s, r) = e.d + done[Other(s)][e.n].d
  <1> DEFINE C == {x.d + done[Other(s)][x.n].d :
                     x \in {y \in BiRelaxed(s, r) : y.n \in DOMAIN done[Other(s)]}} \cup {Inf}
  <1>1. C \subseteq Nat /\ Inf \in C
    <2>1. \A x \in BiRelaxed(s, r) : x.d \in Nat BY BiRelaxedIs DEF BiEntry
    <2>2. \A n \in DOMAIN done[Other(s)] : done[Other(s)][n].d \in Nat
      BY TwoSides DEF BiEntries, BiEntry
    <2> QED BY <2>1, <2>2, InfAssumption
  <1>2. Min(C) \in C /\ \A c \in C : Min(C) <= c
    <2> HIDE DEF C
    <2> QED BY <1>1, LeastIn
  <1>3. Connected(s, r) = Min(C) BY DEF Connected
  <1>4. Connected(s, r) \in 0..Inf
    <2> HIDE DEF C
    <2>1. PICK m \in Nat : m = Min(C) /\ m <= Inf BY <1>1, <1>2
    <2> QED BY <1>3, <2>1, InfAssumption
  <1> QED BY <1>2, <1>3, <1>4

\* What the lemmas below use of it: the node is new to its side, and exact.
LEMMA BiSettleIs ==
  ASSUME biquery \in BiQueries, BiEntries, BiFrontier, NEW s \in Sides, NEW r, BiSettleBy(s, r)
  PROVE  /\ r \in sides[s] /\ BiEntry(s, r) /\ r.n \notin DOMAIN done[s]
         /\ r.d = BiCost(s)[r.n]
         /\ done'[s][r.n] = r /\ \A n \in DOMAIN done[s] : done'[s][n] = done[s][n]
         /\ \A u \in Sides : \A e \in sides'[u] :
              e \in sides[u] \/ (u = s /\ ~Meeting(s, r) /\ e \in BiRelaxed(s, r))
         /\ \A u \in Sides : \A n \in DOMAIN done'[u] :
              \/ n \in DOMAIN done[u] /\ done'[u][n] = done[u][n]
              \/ u = s /\ n = r.n
  <1>1. r \in BiTops(s) /\ ~BiStale(s, r) BY DEF BiSettleBy
  <1>2. r.n \notin DOMAIN done[s] /\ r.d = BiCost(s)[r.n] BY <1>1, BiTopIsExact
  <1>3. r \in sides[s] BY <1>1 DEF BiTops
  <1>4. BiEntry(s, r) BY <1>3 DEF BiEntries
  <1>5. \A n \in DOMAIN done[s] : done'[s][n] = done[s][n] BY <1>2 DEF BiSettleBy
  <1>6. ASSUME NEW u \in Sides, NEW e \in sides'[u]
        PROVE  e \in sides[u] \/ (u = s /\ ~Meeting(s, r) /\ e \in BiRelaxed(s, r))
    <2>1. CASE u = s /\ Meeting(s, r) BY <1>6, <2>1 DEF BiSettleBy
    <2>2. CASE u = s /\ ~Meeting(s, r) BY <1>6, <2>2 DEF BiSettleBy
    <2>3. CASE u = Other(s) BY <1>6, <2>3 DEF BiSettleBy
    <2> QED BY <2>1, <2>2, <2>3, TwoSides
  <1>7. done'[s][r.n] = r /\ DOMAIN done'[s] = DOMAIN done[s] \cup {r.n}
        /\ done'[Other(s)] = done[Other(s)]
    BY DEF BiSettleBy
  <1>8. ASSUME NEW u \in Sides, NEW n \in DOMAIN done'[u]
        PROVE  \/ n \in DOMAIN done[u] /\ done'[u][n] = done[u][n]
               \/ u = s /\ n = r.n
    BY <1>5, <1>7, TwoSides
  <1> QED BY <1>2, <1>3, <1>4, <1>5, <1>6, <1>7, <1>8

\* Nothing but the call decides what the sides see and look for.
LEMMA BiCallStays ==
  ASSUME biquery' = biquery
  PROVE  /\ NearestDist' = NearestDist
         /\ \A s \in Sides : /\ Ends(s)' = Ends(s) /\ BiSteps(s)' = BiSteps(s)
                             /\ BiCost(s)' = BiCost(s)
                             /\ \A r : BiEntry(s, r)' <=> BiEntry(s, r)
  BY DEF NearestDist, Ends, BiSteps, BiCost, BiNet, BiEntry

\* Entries and settled nodes of both sides stay what steps make of them, when one settles.
LEMMA BiSettleEntries ==
  ASSUME biquery \in BiQueries, BiEntries, BiFrontier, NEW s \in Sides, NEW r, BiSettleBy(s, r)
  PROVE  BiEntries'
  <1>1. biquery' = biquery BY DEF BiSettleBy
  <1>2. /\ r \in sides[s] /\ BiEntry(s, r) /\ r.d = BiCost(s)[r.n]
        /\ done'[s][r.n] = r /\ \A n \in DOMAIN done[s] : done'[s][n] = done[s][n]
    BY BiSettleIs
  <1>3. ASSUME NEW u \in Sides, NEW e \in sides'[u] PROVE BiEntry(u, e)
    <2>1. CASE e \in sides[u] BY <2>1 DEF BiEntries
    <2>2. CASE u = s /\ e \in BiRelaxed(s, r) BY <1>2, <2>2, BiRelaxedIs
    <2> QED BY <1>3, <2>1, <2>2, BiSettleIs
  <1>4. ASSUME NEW u \in Sides
        PROVE  /\ DOMAIN done'[u] \subseteq biquery.net.nodes
               /\ \A n \in DOMAIN done'[u] : /\ BiEntry(u, done'[u][n]) /\ done'[u][n].n = n
                                             /\ done'[u][n].d = BiCost(u)[n]
    <2>1. /\ DOMAIN done[u] \subseteq biquery.net.nodes
          /\ \A n \in DOMAIN done[u] : /\ BiEntry(u, done[u][n]) /\ done[u][n].n = n
                                       /\ done[u][n].d = BiCost(u)[n]
      BY DEF BiEntries
    <2>2. CASE u = s
      <3>1. DOMAIN done'[s] = DOMAIN done[s] \cup {r.n} BY DEF BiSettleBy
      <3>2. r.n \in biquery.net.nodes BY <1>2 DEF BiEntry
      <3> QED BY <1>2, <2>1, <2>2, <3>1, <3>2
    <2>3. CASE u = Other(s)
      <3>1. done'[u] = done[u] BY <2>3 DEF BiSettleBy
      <3> QED BY <2>1, <3>1
    <2> QED BY <2>2, <2>3, TwoSides
  <1> QED BY <1>1, <1>3, <1>4, BiCallStays DEF BiEntries

\* Known ways stay known.
LEMMA BiSettleKnown ==
  ASSUME biquery \in BiQueries, BiEntries, BiFrontier, NEW s \in Sides, NEW r, BiSettleBy(s, r),
         NEW u \in Sides, NEW x, NEW c, KnownIn(sides[u], done[u], x, c)
  PROVE  KnownIn(sides'[u], done'[u], x, c)
  <1>1. /\ done'[s][r.n] = r /\ \A n \in DOMAIN done[s] : done'[s][n] = done[s][n]
    BY BiSettleIs
  <1>2. DOMAIN done'[s] = DOMAIN done[s] \cup {r.n} BY DEF BiSettleBy
  <1>3. CASE u = s
    <2>1. CASE x \in DOMAIN done[s] /\ done[s][x].d <= c
      BY <1>1, <1>2, <1>3, <2>1 DEF KnownIn
    <2>2. ASSUME NEW e \in sides[s], e.n = x, e.d <= c PROVE KnownIn(sides'[s], done'[s], x, c)
      <3>1. CASE e = r BY <1>1, <1>2, <2>2, <3>1 DEF KnownIn
      <3>2. CASE e # r
        <4>1. e \in sides'[s] BY <3>2 DEF BiSettleBy
        <4> QED BY <2>2, <4>1 DEF KnownIn
      <3> QED BY <3>1, <3>2
    <2> QED BY <1>3, <2>1, <2>2 DEF KnownIn
  <1>4. CASE u = Other(s)
    <2>1. done'[u] = done[u] /\ sides'[u] = sides[u] BY <1>4 DEF BiSettleBy
    <2> QED BY <2>1
  <1> QED BY <1>3, <1>4, TwoSides

\* Settling keeps that a step from a settled node is settled or queued on its side.
LEMMA BiSettleFrontier ==
  ASSUME biquery \in BiQueries, BiEntries, BiFrontier, NEW s \in Sides, NEW r, BiSettleBy(s, r),
         ~Meeting(s, r)
  PROVE  BiFrontier'
  <1>1. biquery' = biquery BY DEF BiSettleBy
  <1>2. /\ r \in sides[s] /\ BiEntry(s, r)
        /\ done'[s][r.n] = r /\ \A n \in DOMAIN done[s] : done'[s][n] = done[s][n]
    BY BiSettleIs
  <1>3. ASSUME NEW u \in Sides, NEW x \in Ends(u) PROVE KnownIn(sides'[u], done'[u], x, 0)
    <2>1. KnownIn(sides[u], done[u], x, 0) BY DEF BiFrontier
    <2> QED BY <2>1, BiSettleKnown
  <1>4. ASSUME NEW u \in Sides, NEW x \in DOMAIN done'[u], NEW z \in BiSteps(u), z.from = x,
               done'[u][x].d + z.c < Inf
        PROVE  KnownIn(sides'[u], done'[u], z.to, done'[u][x].d + z.c)
    <2>1. CASE x \in DOMAIN done[u] /\ done'[u][x] = done[u][x]
      <3>1. KnownIn(sides[u], done[u], z.to, done[u][x].d + z.c)
        BY <1>4, <2>1 DEF BiFrontier
      <3> QED BY <2>1, <3>1, BiSettleKnown
    <2>2. CASE u = s /\ x = r.n
      <3>1. u = s /\ x = r.n BY <2>2
      <3>2. r.d + z.c < Inf BY <1>2, <1>4, <3>1
      <3>3. PICK e \in BiRelaxed(s, r) : e.n = z.to /\ e.d = r.d + z.c
        BY <1>2, <1>4, <3>1, <3>2, BiRelaxedIs
      <3>4. e \in sides'[s] BY <3>3 DEF BiSettleBy
      <3>5. e.d \in Nat BY <1>2, BiRelaxedIs DEF BiEntry
      <3>6. e.d <= done'[u][x].d + z.c BY <1>2, <3>1, <3>3, <3>5
      <3> QED BY <3>1, <3>3, <3>4, <3>6 DEF KnownIn
    <2> QED BY <1>4, <2>1, <2>2, BiSettleIs
  <1> QED BY <1>1, <1>3, <1>4, BiCallStays DEF BiFrontier

\* No key in a queue is below a settled one of the same side, after settling one more.
LEMMA BiSettleOrdered ==
  ASSUME biquery \in BiQueries, BiEntries, BiFrontier, BiOrdered,
         NEW s \in Sides, NEW r, BiSettleBy(s, r)
  PROVE  BiOrdered'
  <1>1. /\ r \in sides[s] /\ BiEntry(s, r)
        /\ done'[s][r.n] = r /\ \A n \in DOMAIN done[s] : done'[s][n] = done[s][n]
    BY BiSettleIs
  <1>2. \A u \in Sides : \A e \in sides[u] : r.d <= e.d BY DEF BiSettleBy
  <1>3. ASSUME NEW v \in Sides, NEW u \in Sides, NEW n \in DOMAIN done'[v], NEW e \in sides'[u]
        PROVE  done'[v][n].d <= e.d
    <2>1. (n \in DOMAIN done[v] /\ done'[v][n] = done[v][n]) \/ done'[v][n] = r
      BY <1>1, BiSettleIs
    <2>2. CASE e \in sides[u] BY <1>2, <2>1, <2>2 DEF BiOrdered
    <2>3. CASE e \notin sides[u]
      <3>1. e \in BiRelaxed(s, r) BY <2>3, BiSettleIs
      <3>2. PICK z \in BiSteps(s) : z.c \in Nat /\ e.d = r.d + z.c BY <1>1, <3>1, BiRelaxedIs
      <3>3. r.d \in Nat /\ r.d <= e.d BY <1>1, <3>2 DEF BiEntry
      <3>4. done'[v][n].d <= r.d BY <1>1, <2>1, <3>3 DEF BiOrdered
      <3>5. done'[v][n].d \in Nat BY <2>1, <3>3 DEF BiEntries, BiEntry
      <3> QED BY <3>2, <3>3, <3>4, <3>5
    <2> QED BY <2>2, <2>3
  <1> QED BY <1>3 DEF BiOrdered

\* Unless the sides meet, best stays at most every step between what they settled.
LEMMA BiSettleBest ==
  ASSUME biquery \in BiQueries, BiEntries, BiFrontier, BiBest, best \in 0..Inf,
         NEW s \in Sides, NEW r, BiSettleBy(s, r), ~Meeting(s, r)
  PROVE  BiBest' /\ best' \in 0..Inf
  <1> DEFINE o == Other(s)
             k == Connected(s, r)
             C == BiCost(s)
             O == BiCost(o)
  <1>1. /\ r \in sides[s] /\ BiEntry(s, r) /\ r.d = C[r.n] /\ r.n \notin DOMAIN done[s]
        /\ done'[s][r.n] = r /\ \A n \in DOMAIN done[s] : done'[s][n] = done[s][n]
    BY BiSettleIs
  <1>2. /\ k \in 0..Inf
        /\ \A e \in BiRelaxed(s, r) : e.n \in DOMAIN done[o] => k <= e.d + done[o][e.n].d
        /\ \/ k = Inf
           \/ \E e \in BiRelaxed(s, r) : e.n \in DOMAIN done[o] /\ k = e.d + done[o][e.n].d
    BY <1>1, ConnectedIs
  <1>3. /\ best' = Min({best, k}) /\ biquery' = biquery
        /\ DOMAIN done'[s] = DOMAIN done[s] \cup {r.n} /\ done'[o] = done[o]
    BY DEF BiSettleBy
  <1>4. o \in Sides /\ Other(o) = s /\ \A u \in Sides : u = s \/ u = o BY TwoSides
  <1> HIDE DEF k, o
  <1>5. best' \in 0..Inf /\ best' <= best /\ best' <= k /\ (best' = best \/ best' = k)
    <2>1. {best, k} \subseteq Nat /\ {best, k} # {} BY <1>2, InfAssumption
    <2>2. Min({best, k}) \in {best, k} /\ \A c \in {best, k} : Min({best, k}) <= c
      BY <2>1, LeastIn
    <2> QED BY <1>2, <1>3, <2>2
  <1>6. \A u \in Sides : \A n \in DOMAIN done[u] :
          done[u][n].d \in Nat /\ done[u][n].d = BiCost(u)[n] /\ n \in biquery.net.nodes
    BY DEF BiEntries, BiEntry
  <1>7. /\ r.d \in Nat /\ r.n \in biquery.net.nodes BY <1>1 DEF BiEntry
  <1>8. ASSUME NEW z \in BiSteps(s), z.from \in DOMAIN done'[s], z.to \in DOMAIN done[o]
        PROVE  best' <= done'[s][z.from].d + z.c + done[o][z.to].d
    <2>1. z.c \in Nat /\ done[o][z.to].d \in Nat BY <1>4, <1>6, <1>8, BiFacts
    <2>2. CASE z.from \in DOMAIN done[s]
      <3>1. best <= done[s][z.from].d + z.c + done[o][z.to].d
        BY <1>8, <2>2 DEF BiBest, o
      <3>2. done'[s][z.from] = done[s][z.from] /\ done[s][z.from].d \in Nat
        BY <1>1, <1>6, <2>2
      <3> QED BY <1>5, <2>1, <3>1, <3>2
    <2>3. CASE z.from \notin DOMAIN done[s]
      <3>1. z.from = r.n /\ done'[s][z.from] = r BY <1>1, <1>3, <1>8, <2>3
      <3>2. CASE r.d + z.c < Inf
        <4>1. PICK e \in BiRelaxed(s, r) : e.n = z.to /\ e.d = r.d + z.c
          BY <1>1, <3>1, <3>2, BiRelaxedIs
        <4>2. k <= (r.d + z.c) + done[o][z.to].d BY <1>2, <1>8, <4>1
        <4> QED BY <1>2, <1>5, <1>7, <2>1, <3>1, <4>2
      <3>3. CASE ~(r.d + z.c < Inf)
        <4>1. Inf <= r.d + z.c + done[o][z.to].d BY <1>7, <2>1, <3>3, InfAssumption
        <4> QED BY <1>5, <1>7, <2>1, <3>1, <4>1, InfAssumption
      <3> QED BY <3>2, <3>3
    <2> QED BY <2>2, <2>3
  <1>9. ASSUME NEW u \in Sides, NEW z \in BiSteps(u),
               z.from \in DOMAIN done'[u], z.to \in DOMAIN done'[Other(u)]
        PROVE  best' <= done'[u][z.from].d + z.c + done'[Other(u)][z.to].d
    <2>1. CASE u = s
      <3>1. Other(u) = o BY <2>1 DEF o
      <3> QED BY <1>3, <1>8, <1>9, <2>1, <3>1
    <2>2. CASE u = o
      <3>1. PICK y \in BiSteps(s) : y.from = z.to /\ y.to = z.from /\ y.c = z.c
        BY <1>4, <2>2, BiMirror
      <3>2. best' <= done'[s][y.from].d + y.c + done[o][y.to].d
        BY <1>3, <1>4, <1>8, <1>9, <2>2, <3>1
      <3>3. done'[s][y.from].d \in Nat /\ y.c \in Nat /\ done[o][y.to].d \in Nat
        <4>1. y.from \in DOMAIN done'[s] /\ y.to \in DOMAIN done[o]
          BY <1>3, <1>4, <1>9, <2>2, <3>1
        <4> QED BY <1>1, <1>3, <1>4, <1>6, <1>7, <4>1, BiFacts
      <3> QED BY <1>3, <1>4, <2>2, <3>1, <3>2, <3>3, <1>5
    <2> QED BY <1>4, <2>1, <2>2
  <1>10. ASSUME NEW n \in DOMAIN done'[s] \cap DOMAIN done[o]
         PROVE  best' < done'[s][n].d + done[o][n].d
    <2>1. done[o][n].d \in Nat BY <1>4, <1>6
    <2>2. CASE n \in DOMAIN done[s]
      <3>1. best < done[s][n].d + done[o][n].d BY <2>2 DEF BiBest, o
      <3>2. done'[s][n] = done[s][n] /\ done[s][n].d \in Nat BY <1>1, <1>6, <2>2
      <3> QED BY <1>5, <2>1, <3>1, <3>2
    <2>3. CASE n \notin DOMAIN done[s]
      <3>1. n = r.n /\ done'[s][n] = r BY <1>1, <1>3, <2>3
      <3>2. best < r.d + done[o][n].d BY <1>7, <2>1, <3>1 DEF Meeting, o
      <3> QED BY <1>5, <1>7, <2>1, <3>1, <3>2
    <2> QED BY <2>2, <2>3
  <1>11. ASSUME NEW u \in Sides, NEW n \in DOMAIN done'[u] \cap DOMAIN done'[Other(u)]
         PROVE  best' < done'[u][n].d + done'[Other(u)][n].d
    <2>1. CASE u = s BY <1>3, <1>10, <1>11, <2>1 DEF o
    <2>2. CASE u = o
      <3>1. n \in DOMAIN done'[s] \cap DOMAIN done[o] BY <1>3, <1>4, <1>11, <2>2
      <3>2. best' < done'[s][n].d + done[o][n].d BY <1>10, <3>1
      <3>3. done'[s][n].d \in Nat /\ done[o][n].d \in Nat BY <1>1, <1>3, <1>4, <1>6, <1>7, <3>1
      <3> QED BY <1>3, <1>4, <2>2, <3>2, <3>3, <1>5
    <2> QED BY <1>4, <2>1, <2>2
  <1>12. NearestDist <= best'
    <2>1. NearestDist \in 0..Inf /\ NearestDist <= best BY NearestIs DEF BiBest
    <2>2. NearestDist <= k
      <3>1. CASE k = Inf BY <2>1, <3>1, InfAssumption
      <3>2. ASSUME NEW e \in BiRelaxed(s, r), e.n \in DOMAIN done[o],
                   k = e.d + done[o][e.n].d
            PROVE  NearestDist <= k
        <4>1. e.n \in biquery.net.nodes /\ e.d \in Nat /\ C[e.n] <= e.d
          BY <1>1, BiRelaxedIs DEF BiEntry
        <4>2. done[o][e.n].d = O[e.n] BY <1>4, <1>6, <3>2
        <4>3. C[e.n] \in Nat /\ O[e.n] \in Nat BY <1>4, <4>1, BiFacts
        <4>4. NearestDist <= C[e.n] + O[e.n]
          <5>1. NearestDist <= BiCost("fwd")[e.n] + BiCost("bwd")[e.n] BY <4>1, NearestBelow
          <5>2. (s = "fwd" /\ o = "bwd") \/ (s = "bwd" /\ o = "fwd") BY TwoSides DEF o
          <5>3. CASE s = "fwd" /\ o = "bwd" BY <5>1, <5>3
          <5>4. CASE s = "bwd" /\ o = "fwd"
            <6>1. NearestDist <= O[e.n] + C[e.n] BY <5>1, <5>4
            <6> HIDE DEF O, C
            <6> QED BY <6>1, <4>3
          <5> QED BY <5>2, <5>3, <5>4
        <4> HIDE DEF O, C
        <4> QED BY <2>1, <3>2, <4>1, <4>2, <4>3, <4>4
      <3> QED BY <1>2, <3>1, <3>2
    <2> QED BY <1>5, <2>1, <2>2
  <1> QED BY <1>3, <1>5, <1>9, <1>11, <1>12, BiCallStays DEF BiBest

\* Meeting: the node costs no more than the best connection seen, nor than any two
\* entries, and so what is returned is the cost of a cheapest way.
LEMMA BiMeetsNearest ==
  ASSUME biquery \in BiQueries, BiEntries, BiFrontier, BiOrdered, BiBest, best \in 0..Inf,
         NEW s \in Sides, NEW r, BiSettleBy(s, r), Meeting(s, r)
  PROVE  cost' = NearestDist /\ best' \in 0..Inf
  <1> DEFINE o == Other(s)
             g == done[o][r.n]
             L == r.d + g.d
  <1>1. /\ cost' = L /\ best' = L /\ \A u \in Sides : \A e \in sides[u] : r.d <= e.d
    BY DEF BiSettleBy
  <1>2. r.n \in DOMAIN done[o] /\ L <= best BY DEF Meeting
  <1>3. r \in sides[s] /\ BiEntry(s, r) /\ r.d = BiCost(s)[r.n] BY BiSettleIs
  <1>4. o \in Sides /\ ((s = "fwd" /\ o = "bwd") \/ (s = "bwd" /\ o = "fwd")) BY TwoSides
  <1> HIDE DEF o
  <1>5. g.d \in Nat /\ g.d = BiCost(o)[r.n] BY <1>2, <1>4 DEF BiEntries, BiEntry
  <1>6. r.d \in Nat /\ r.n \in biquery.net.nodes BY <1>3 DEF BiEntry
  <1>7. \A u \in Sides : \A e \in sides[u] : e.d \in Nat /\ g.d <= e.d
    BY <1>2, <1>4 DEF BiEntries, BiEntry, BiOrdered
  <1> HIDE DEF g
  <1>8. ASSUME NEW u \in Sides, NEW v \in Sides, NEW e \in sides[u], NEW f \in sides[v]
        PROVE  L <= e.d + f.d
    <2>1. r.d <= e.d /\ g.d <= f.d /\ e.d \in Nat /\ f.d \in Nat BY <1>1, <1>7
    <2> QED BY <1>5, <1>6, <2>1
  <1>9. L \in Nat BY <1>5, <1>6
  <1>10. L <= NearestDist
    <2> HIDE DEF L
    <2> QED BY <1>2, <1>8, <1>9, NoneNearer
  <1>11. NearestDist <= L
    <2>1. NearestDist <= BiCost("fwd")[r.n] + BiCost("bwd")[r.n] BY <1>6, NearestBelow
    <2>2. CASE s = "fwd" /\ o = "bwd" BY <1>3, <1>5, <2>1, <2>2
    <2>3. CASE s = "bwd" /\ o = "fwd"
      <3>1. NearestDist <= g.d + r.d BY <1>3, <1>5, <2>1, <2>3
      <3> QED BY <1>5, <1>6, <3>1
    <2> QED BY <1>4, <2>2, <2>3
  <1> HIDE DEF L
  <1>12. NearestDist \in 0..Inf BY NearestIs
  <1>13. L = NearestDist BY <1>9, <1>10, <1>11, <1>12
  <1> QED BY <1>1, <1>12, <1>13

-----------------------------------------------------------------------------
(* Two searches: the trees of what they settle. *)

\* Where an entry comes from: it is where the side begins, or a step leads to it
\* from a settled parent.
BiOrigin(s, r) ==
  \/ r.parent = NoNode /\ r.n \in Ends(s) /\ r.d = 0
  \/ /\ r.parent \in DOMAIN done[s]
     /\ \E z \in BiSteps(s) : /\ z.from = r.parent /\ z.to = r.n
                              /\ done[s][r.parent].d + z.c = r.d

BiTree ==
  \A s \in Sides : /\ \A r \in sides[s] : BiOrigin(s, r)
                   /\ \A n \in DOMAIN done[s] : BiOrigin(s, done[s][n])
                   /\ Timed(done[s], NoNode)

\* The parents of what is settled still lead back to an end, with one more node settled.
LEMMA BiSettleTree ==
  ASSUME biquery \in BiQueries, BiEntries, BiFrontier, BiTree,
         NEW s \in Sides, NEW r, BiSettleBy(s, r)
  PROVE  BiTree'
  <1>1. /\ r \in sides[s] /\ BiEntry(s, r) /\ r.n \notin DOMAIN done[s]
        /\ done'[s][r.n] = r /\ \A n \in DOMAIN done[s] : done'[s][n] = done[s][n]
    BY BiSettleIs
  <1>2. /\ biquery' = biquery /\ DOMAIN done'[s] = DOMAIN done[s] \cup {r.n}
        /\ done'[Other(s)] = done[Other(s)]
    BY DEF BiSettleBy
  <1> DEFINE From(u, e) ==
               \/ e.parent = NoNode /\ e.n \in Ends(u) /\ e.d = 0
               \/ /\ e.parent \in DOMAIN done'[u]
                  /\ \E z \in BiSteps(u) : /\ z.from = e.parent /\ z.to = e.n
                                           /\ done'[u][e.parent].d + z.c = e.d
  <1>3. ASSUME NEW u \in Sides, NEW e, BiOrigin(u, e) PROVE From(u, e)
    <2>1. CASE e.parent = NoNode /\ e.n \in Ends(u) /\ e.d = 0 BY <2>1
    <2>2. CASE ~(e.parent = NoNode /\ e.n \in Ends(u) /\ e.d = 0)
      <3>1. e.parent \in DOMAIN done[u]
            /\ \E z \in BiSteps(u) : /\ z.from = e.parent /\ z.to = e.n
                                     /\ done[u][e.parent].d + z.c = e.d
        BY <1>3, <2>2 DEF BiOrigin
      <3>2. e.parent \in DOMAIN done'[u] /\ done'[u][e.parent] = done[u][e.parent]
        <4>1. CASE u = s BY <1>1, <1>2, <3>1, <4>1
        <4>2. CASE u = Other(s) BY <1>2, <3>1, <4>2
        <4> QED BY <4>1, <4>2, TwoSides
      <3> QED BY <3>1, <3>2
    <2> QED BY <2>1, <2>2
  <1>4. ASSUME NEW e \in BiRelaxed(s, r) PROVE From(s, e)
    <2>1. e.parent = r.n /\ \E z \in BiSteps(s) : z.from = r.n /\ z.to = e.n /\ e.d = r.d + z.c
      BY <1>1, BiRelaxedIs
    <2>2. r.n \in DOMAIN done'[s] BY <1>2
    <2> QED BY <1>1, <2>1, <2>2
  <1>5. ASSUME NEW u \in Sides, NEW e \in sides'[u] PROVE From(u, e)
    <2>1. CASE e \in sides[u] BY <1>3, <2>1 DEF BiTree
    <2>2. CASE u = s /\ e \in BiRelaxed(s, r) BY <1>4, <2>2
    <2> QED BY <2>1, <2>2, BiSettleIs
  <1>6. ASSUME NEW u \in Sides, NEW n \in DOMAIN done'[u] PROVE From(u, done'[u][n])
    <2>1. CASE n \in DOMAIN done[u] /\ done'[u][n] = done[u][n]
      <3>1. BiOrigin(u, done[u][n]) BY <2>1 DEF BiTree
      <3> HIDE DEF From
      <3> QED BY <1>3, <2>1, <3>1
    <2>2. CASE u = s /\ n = r.n
      <3>1. BiOrigin(s, r) BY <1>1 DEF BiTree
      <3> HIDE DEF From
      <3> QED BY <1>1, <1>3, <2>2, <3>1
    <2> HIDE DEF From
    <2> QED BY <2>1, <2>2, BiSettleIs
  <1>7. Timed(done'[s], NoNode)
    <2>1. PICK time \in [DOMAIN done[s] -> Nat], now \in Nat : InTime(done[s], time, now, NoNode)
      BY DEF BiTree, Timed
    <2> DEFINE later == [n \in DOMAIN done'[s] |-> IF n = r.n THEN now ELSE time[n]]
    <2>2. later \in [DOMAIN done'[s] -> Nat] /\ later[r.n] = now
          /\ \A n \in DOMAIN done[s] : later[n] = time[n]
      BY <1>1, <1>2
    <2> HIDE DEF later
    <2>3. \A n \in DOMAIN done'[s] : later[n] < now + 1
      <3>1. \A n \in DOMAIN done[s] : time[n] \in Nat /\ time[n] < now BY <2>1 DEF InTime
      <3> QED BY <1>2, <2>2, <3>1
    <2>4. ASSUME NEW n \in DOMAIN done[s], done[s][n].parent # NoNode
          PROVE  Earlier(done'[s], later, done[s][n].parent, n)
      <3>1. Earlier(done[s], time, done[s][n].parent, n) BY <2>1, <2>4 DEF InTime
      <3>2. done[s][n].parent \in DOMAIN done[s] BY <2>4 DEF BiTree, BiOrigin
      <3> QED BY <1>1, <2>2, <3>1, <3>2 DEF Earlier
    <2>5. ASSUME r.parent # NoNode PROVE Earlier(done'[s], later, r.parent, r.n)
      <3>1. BiOrigin(s, r) BY <1>1 DEF BiTree
      <3>2. r.parent \in DOMAIN done[s] BY <2>5, <3>1 DEF BiOrigin
      <3>3. PICK z \in BiSteps(s) : done[s][r.parent].d + z.c = r.d
        BY <2>5, <3>1 DEF BiOrigin
      <3>4. z.c \in Nat /\ done[s][r.parent].d \in Nat BY <3>2, BiFacts DEF BiEntries, BiEntry
      <3>5. time[r.parent] \in Nat /\ time[r.parent] < now BY <2>1, <3>2 DEF InTime
      <3>6. /\ done'[s][r.parent].d = done[s][r.parent].d /\ done'[s][r.n].d = r.d
            /\ later[r.parent] = time[r.parent]
        BY <1>1, <2>2, <3>2
      <3>7. done[s][r.parent].d < r.d \/ done[s][r.parent].d = r.d BY <3>3, <3>4
      <3> QED BY <2>2, <3>5, <3>6, <3>7 DEF Earlier
    <2>6. \A n \in DOMAIN done'[s] :
            done'[s][n].parent # NoNode => Earlier(done'[s], later, done'[s][n].parent, n)
      BY <1>1, <1>2, <2>4, <2>5
    <2>7. InTime(done'[s], later, now + 1, NoNode) BY <2>3, <2>6 DEF InTime
    <2> QED BY <2>2, <2>7 DEF Timed
  <1>8. \A u \in Sides : Timed(done'[u], NoNode) BY <1>2, <1>7, TwoSides DEF BiTree
  <1> QED BY <1>2, <1>5, <1>6, <1>8, BiCallStays DEF BiTree, BiOrigin

-----------------------------------------------------------------------------
(* Two searches: the inductive invariant. *)

\* The node where they met is settled by both, and what is returned is what it
\* cost them.
BiMet ==
  meet # NoNode => /\ meet \in DOMAIN done["fwd"] /\ meet \in DOMAIN done["bwd"]
                   /\ cost = done["fwd"][meet].d + done["bwd"][meet].d

BiIInv ==
  /\ BiShape /\ cost \in 0..Inf \cup {NoCost}
  /\ biquery = NoBiQuery =>
       /\ \A s \in Sides : sides[s] = {} /\ done[s] = <<>>
       /\ best = Inf /\ meet = NoNode /\ cost = NoCost
  /\ biquery # NoBiQuery => biquery \in BiQueries /\ BiEntries /\ BiTree /\ BiMet
  /\ BiRunning => BiLoop
  /\ BiShortest

\* Before the first round nothing is settled and the call has its answer still to come.
LEMMA BiInitOK == ASSUME BiInit PROVE BiIInv
  BY InfAssumption DEF BiInit, BiIInv, BiShape, BiRunning, BiShortest, BiDone

\* A source that no edge leaves reaches nothing else.
LEMMA NothingReached ==
  ASSUME NEW q \in BiQueries, BiAtOnce(q), NEW t \in q.dst
  PROVE  DistFrom(q.net, q.src)[t] \in {0, Inf}
  <1> DEFINE D == DistFrom(q.net, q.src)
             S == q.src \X {0}
  <1>1. IsNet(q.net) /\ q.src \subseteq q.net.nodes /\ q.dst \subseteq q.net.nodes
    BY BiQueriesAssumption
  <1>2. \A n \in q.src : AdjOut(q.net, n) = {} BY BiQueriesAssumption DEF BiAtOnce
  <1>3. \A n \in q.src : \A z \in NodeSteps(q.net) : z.from # n BY <1>1, <1>2, EdgesAreSteps
  <1>4. D \in [q.net.nodes -> 0..Inf] BY <1>1, DistFacts
  <1>5. D[t] < Inf => <<t, D[t]>> \in S
    <2>1. \A x \in q.src : <<x, 0>> \in S OBVIOUS
    <2>2. \A x \in q.net.nodes, c \in Nat, z \in NodeSteps(q.net) :
            <<x, c>> \in S /\ z.from = x /\ c + z.c < Inf => <<z.to, c + z.c>> \in S
      BY <1>3
    <2>3. t \in q.net.nodes BY <1>1
    <2> HIDE DEF S
    <2> QED BY <1>1, <2>1, <2>2, <2>3, DistFacts
  <1>6. D[t] \in 0..Inf BY <1>1, <1>4
  <1> HIDE DEF D
  <1>7. D[t] < Inf => D[t] = 0 BY <1>5
  <1> QED BY <1>6, <1>7, InfAssumption DEF D

\* The queues are where the sides begin.
LEMMA BiStartOK ==
  ASSUME BiIInv, biquery = NoBiQuery, NEW q \in BiQueries, BiStart(q)
  PROVE  BiIInv'
  <1> DEFINE at(s) == IF s = "fwd" THEN q.src ELSE q.dst
             D(s) == DistFrom(Seen(q.net, s), at(s))
             M == NearestDist'
  <1>1. IsNet(q.net) /\ q.src \subseteq q.net.nodes /\ q.dst \subseteq q.net.nodes
    BY BiQueriesAssumption
  <1>2. biquery' = q /\ q # NoBiQuery BY BiQueriesAssumption DEF BiStart, NoBiQuery
  <1>3. /\ \A s \in Sides : done'[s] = <<>> /\ done[s] = <<>>
        /\ done' = done /\ best' = best /\ best = Inf /\ meet' = NoNode
    BY <1>2 DEF BiStart, BiIInv
  <1>4. /\ sides' = [s \in Sides |-> sides'[s]]
        /\ \A s \in Sides : sides'[s] = {[n |-> n, parent |-> NoNode, d |-> 0] : n \in at(s)}
    BY DEF BiStart
  <1>5. ASSUME NEW s \in Sides
        PROVE  /\ at(s) \subseteq q.net.nodes
               /\ D(s) \in [q.net.nodes -> 0..Inf] /\ \A n \in at(s) : D(s)[n] = 0
               /\ Ends(s)' = at(s) /\ BiCost(s)' = D(s)
    <2>1. IsNet(Seen(q.net, s)) /\ Seen(q.net, s).nodes = q.net.nodes BY <1>1, SeenIs
    <2>2. at(s) \subseteq q.net.nodes BY <1>1
    <2>3. D(s) \in [q.net.nodes -> 0..Inf] /\ \A n \in at(s) : D(s)[n] = 0
      <3> HIDE DEF at
      <3> QED BY <2>1, <2>2, DistFacts
    <2> QED BY <1>2, <2>2, <2>3 DEF Ends, BiCost, BiNet
  <1> HIDE DEF at, D
  <1>6. DOMAIN <<>> = {} BY EmptyFunction
  <1>7. BiShape' BY <1>3, <1>4, InfAssumption DEF BiIInv, BiShape
  <1>8. ASSUME NEW s \in Sides, NEW r \in sides'[s]
        PROVE  /\ BiEntry(s, r)' /\ r.parent = NoNode /\ r.n \in Ends(s)' /\ r.d = 0
    <2>1. PICK n \in at(s) : r = [n |-> n, parent |-> NoNode, d |-> 0] BY <1>4
    <2>2. r.n = n /\ r.d = 0 /\ r.parent = NoNode BY <2>1
    <2>3. n \in q.net.nodes /\ BiCost(s)'[n] = 0 BY <1>5
    <2> QED BY <1>2, <1>5, <2>2, <2>3, InfAssumption DEF BiEntry
  <1>9. BiEntries' BY <1>3, <1>6, <1>8 DEF BiEntries
  <1>10. BiTree'
    <2>1. Timed(<<>>, NoNode)
      <3>1. InTime(<<>>, <<>>, 0, NoNode) BY <1>6 DEF InTime
      <3>2. <<>> \in [DOMAIN <<>> -> Nat] BY <1>6
      <3> QED BY <3>1, <3>2 DEF Timed
    <2> QED BY <1>3, <1>6, <1>8, <2>1 DEF BiTree, BiOrigin
  <1>11. BiMet' BY <1>3 DEF BiMet
  <1>12. cost' \in {Inf, NoCost} BY DEF BiStart
  <1> DEFINE N == DistFrom(q.net, q.src)
             C == {N[t] : t \in q.dst} \cup {Inf}
  <1>13. M = Min(C) BY <1>2 DEF NearestDist
  <1>14. M \in C /\ M <= Inf
    <2>1. N \in [q.net.nodes -> 0..Inf] BY <1>1, DistFacts
    <2> HIDE DEF N
    <2>2. C \subseteq Nat /\ Inf \in C BY <1>1, <2>1, InfAssumption
    <2> HIDE DEF C
    <2> QED BY <1>13, <2>2, LeastIn
  <1> HIDE DEF M, N
  <1>15. ASSUME cost' # NoCost PROVE M \in {0, Inf}
    <2>1. BiAtOnce(q) BY <1>15 DEF BiStart
    <2>2. \A t \in q.dst : N[t] \in {0, Inf} BY <2>1, NothingReached DEF N
    <2> QED BY <1>14, <2>2
  <1>16. BiShortest'
    <2>1. cost' = Inf \/ cost' = NoCost BY <1>12
    <2>2. ASSUME cost' # NoCost, ~(cost' = Inf /\ M = 0) PROVE cost' = M
      BY <1>15, <2>1, <2>2
    <2> QED BY <2>2 DEF BiShortest, BiDone, M
  <1>17. BiFrontier'
    <2>1. ASSUME NEW s \in Sides, NEW x \in Ends(s)' PROVE KnownIn(sides'[s], done'[s], x, 0)
      <3>1. [n |-> x, parent |-> NoNode, d |-> 0] \in sides'[s] BY <1>4, <1>5
      <3> QED BY <3>1 DEF KnownIn
    <2> QED BY <1>3, <1>6, <2>1 DEF BiFrontier
  <1>18. BiOrdered' BY <1>3, <1>6 DEF BiOrdered
  <1>19. BiBest'
    <2>1. \A s \in Sides : DOMAIN done'[s] = {} BY <1>3, <1>6
    <2>2. M <= best' BY <1>3, <1>14
    <2> QED BY <2>1, <2>2 DEF BiBest, M
  <1>20. cost' \in 0..Inf \cup {NoCost} BY <1>12, InfAssumption
  <1>21. BiLoop' BY <1>3, <1>17, <1>18, <1>19 DEF BiLoop
  <1>22. biquery' \in BiQueries /\ biquery' # NoBiQuery BY <1>2
  <1> QED BY <1>7, <1>9, <1>10, <1>11, <1>16, <1>20, <1>21, <1>22 DEF BiIInv

\* An entry that is thrown away is not missed.
LEMMA BiSkipOK == ASSUME BiIInv, BiSkip PROVE BiIInv'
  <1>1. /\ biquery' = biquery /\ done' = done /\ best' = best /\ meet' = meet /\ cost' = cost
        /\ BiRunning /\ \A s \in Sides : sides[s] # {}
    BY DEF BiSkip, BiGoesOn
  <1>2. BiShape /\ biquery \in BiQueries /\ BiEntries /\ BiTree /\ BiMet /\ BiLoop
    BY <1>1 DEF BiIInv, BiRunning
  <1>3. PICK r \in BiTops(Turn) :
          BiStale(Turn, r) /\ sides' = [sides EXCEPT ![Turn] = @ \ {r}]
    BY DEF BiSkip
  <1>4. DOMAIN sides = Sides BY <1>2 DEF BiShape
  <1>5. ASSUME NEW s \in Sides
        PROVE  /\ sides'[s] \subseteq sides[s]
               /\ \A e \in sides[s] \ sides'[s] : e = r /\ s = Turn
    BY <1>3, <1>4
  <1>6. BiShape' BY <1>1, <1>2, <1>3, <1>4 DEF BiShape
  <1>7. BiEntries' BY <1>1, <1>2, <1>5, BiCallStays DEF BiEntries
  <1>8. BiTree' BY <1>1, <1>2, <1>5, BiCallStays DEF BiTree, BiOrigin
  <1>9. BiMet' BY <1>1, <1>2 DEF BiMet
  <1>10. BiFrontier'
    <2>1. ASSUME NEW s \in Sides, NEW x, NEW c \in Nat, KnownIn(sides[s], done[s], x, c)
          PROVE  KnownIn(sides'[s], done[s], x, c)
      <3>1. CASE x \in DOMAIN done[s] /\ done[s][x].d <= c BY <3>1 DEF KnownIn
      <3>2. ASSUME NEW e \in sides[s], e.n = x, e.d <= c PROVE KnownIn(sides'[s], done[s], x, c)
        <4>1. CASE e \in sides'[s] BY <3>2, <4>1 DEF KnownIn
        <4>2. CASE e \notin sides'[s]
          <5>1. e = r /\ s = Turn BY <1>5, <4>2
          <5>2. x \in DOMAIN done[s] /\ done[s][x].d <= e.d BY <1>3, <3>2, <5>1 DEF BiStale
          <5>3. done[s][x].d \in Nat /\ e.d \in Nat BY <1>2, <5>2 DEF BiEntries, BiEntry
          <5> QED BY <3>2, <5>2, <5>3 DEF KnownIn
        <4> QED BY <4>1, <4>2
      <3> QED BY <2>1, <3>1, <3>2 DEF KnownIn
    <2>2. ASSUME NEW s \in Sides, NEW x \in Ends(s) PROVE KnownIn(sides'[s], done[s], x, 0)
      <3>1. KnownIn(sides[s], done[s], x, 0) BY <1>2 DEF BiLoop, BiFrontier
      <3> QED BY <2>1, <3>1
    <2>3. ASSUME NEW s \in Sides, NEW x \in DOMAIN done[s], NEW z \in BiSteps(s), z.from = x,
                 done[s][x].d + z.c < Inf
          PROVE  KnownIn(sides'[s], done[s], z.to, done[s][x].d + z.c)
      <3>1. KnownIn(sides[s], done[s], z.to, done[s][x].d + z.c)
        BY <1>2, <2>3 DEF BiLoop, BiFrontier
      <3>2. done[s][x].d + z.c \in Nat
        <4>1. done[s][x].d \in Nat /\ z.c \in Nat BY <1>2, BiFacts DEF BiEntries, BiEntry
        <4> QED BY <4>1
      <3> QED BY <2>1, <3>1, <3>2
    <2> QED BY <1>1, <2>2, <2>3, BiCallStays DEF BiFrontier
  <1>11. BiOrdered' BY <1>1, <1>2, <1>5 DEF BiLoop, BiOrdered
  <1>12. BiBest'
    <2>1. BiBest BY <1>2 DEF BiLoop
    <2> QED BY <1>1, <2>1, BiCallStays DEF BiBest
  <1>13. BiShortest' BY <1>1 DEF BiShortest, BiDone, BiRunning
  <1>14. BiLoop' BY <1>1, <1>2, <1>10, <1>11, <1>12 DEF BiLoop
  <1>15. cost' \in 0..Inf \cup {NoCost} /\ biquery' # NoBiQuery /\ biquery' \in BiQueries
    BY <1>1, <1>2 DEF BiIInv, BiRunning
  <1> QED BY <1>6, <1>7, <1>8, <1>9, <1>13, <1>14, <1>15 DEF BiIInv

\* The searches only give up if there is nothing to find, or it is found at no cost.
LEMMA BiGiveUpOK == ASSUME BiIInv, BiGiveUp PROVE BiIInv'
  <1>1. /\ biquery' = biquery /\ sides' = sides /\ done' = done /\ best' = best /\ meet' = meet
        /\ cost' = Inf /\ BiRunning
    BY DEF BiGiveUp
  <1>2. BiShape /\ biquery \in BiQueries /\ BiEntries /\ BiTree /\ BiMet /\ BiLoop
    BY <1>1 DEF BiIInv, BiRunning
  <1>3. PICK s \in Sides : sides[s] = {} BY DEF BiGiveUp
  <1>4. NearestDist # Inf => NearestDist = 0
    BY <1>2, <1>3, BiNothingLeft DEF BiLoop, BiShape
  <1>5. BiShortest' BY <1>1, <1>4, BiCallStays DEF BiShortest
  <1>6. BiShape' BY <1>1, <1>2 DEF BiShape
  <1>7. BiEntries' BY <1>1, <1>2, BiCallStays DEF BiEntries
  <1>8. BiTree' BY <1>1, <1>2, BiCallStays DEF BiTree, BiOrigin
  <1>9. BiMet' BY <1>1, <1>2 DEF BiMet, BiLoop
  <1>10. cost' \in 0..Inf \cup {NoCost} /\ cost' # NoCost BY <1>1, InfAssumption DEF NoCost
  <1>11. biquery' # NoBiQuery /\ biquery' \in BiQueries /\ ~BiRunning'
    BY <1>1, <1>2, <1>10 DEF BiRunning
  <1> QED BY <1>5, <1>6, <1>7, <1>8, <1>9, <1>10, <1>11 DEF BiIInv

\* The invariant is kept by a round that settles a node.
LEMMA BiSettleOK == ASSUME BiIInv, BiSettle PROVE BiIInv'
  <1>1. BiShape /\ BiRunning /\ biquery \in BiQueries /\ BiEntries /\ BiTree /\ BiMet
        /\ BiFrontier /\ BiOrdered /\ BiBest /\ meet = NoNode /\ best \in 0..Inf
    BY DEF BiIInv, BiSettle, BiGoesOn, BiRunning, BiLoop, BiShape
  <1>2. PICK s \in Sides : \E r : BiSettleBy(s, r) BY <1>1, BiSettleHow
  <1>3. PICK r : BiSettleBy(s, r) BY <1>2
  <1>4. biquery' = biquery BY <1>3 DEF BiSettleBy
  <1>5. sides' = [u \in Sides |-> sides'[u]] /\ done' = [u \in Sides |-> done'[u]]
    <2>1. DOMAIN sides = Sides /\ DOMAIN done = Sides BY <1>1 DEF BiShape
    <2>2. done' = [u \in DOMAIN done |-> done'[u]] BY DEF BiSettle
    <2>3. sides' = [u \in DOMAIN sides |-> sides'[u]] BY DEF BiSettle
    <2> QED BY <2>1, <2>2, <2>3
  <1>6. BiEntries' BY <1>1, <1>3, BiSettleEntries
  <1>7. BiTree' BY <1>1, <1>3, BiSettleTree
  <1>8. biquery' # NoBiQuery /\ biquery' \in BiQueries BY <1>1, <1>4 DEF BiRunning
  <1>9. CASE Meeting(s, r)
    <2>1. cost' = NearestDist /\ best' \in 0..Inf BY <1>1, <1>3, <1>9, BiMeetsNearest
    <2>2. cost' = r.d + done[Other(s)][r.n].d /\ meet' = r.n
      BY <1>3, <1>9 DEF BiSettleBy
    <2>3. /\ r.n \in DOMAIN done'[s] /\ done'[s][r.n] = r /\ done'[Other(s)] = done[Other(s)]
          /\ r.n \in DOMAIN done[Other(s)]
      BY <1>3, <1>9 DEF BiSettleBy, Meeting
    <2>4. BiMet'
      <3>1. r.d \in Nat /\ done[Other(s)][r.n].d \in Nat
        <4>1. BiEntry(s, r) BY <1>1, <1>3, BiSettleIs
        <4> QED BY <1>1, <2>3, <4>1, TwoSides DEF BiEntries, BiEntry
      <3>2. CASE s = "fwd" /\ Other(s) = "bwd" BY <2>2, <2>3, <3>1, <3>2 DEF BiMet
      <3>3. CASE s = "bwd" /\ Other(s) = "fwd"
        <4>1. cost' = done[Other(s)][r.n].d + r.d BY <2>2, <3>1
        <4> QED BY <2>2, <2>3, <3>1, <3>3, <4>1 DEF BiMet
      <3> QED BY <3>2, <3>3, TwoSides
    <2>5. cost' \in 0..Inf /\ cost' # NoCost
      <3>1. NearestDist \in 0..Inf BY <1>1, NearestIs
      <3> QED BY <2>1, <3>1, InfAssumption DEF NoCost
    <2>6. BiShortest' BY <1>4, <2>1, BiCallStays DEF BiShortest
    <2>7. ~BiRunning' BY <2>5 DEF BiRunning
    <2> QED BY <1>5, <1>6, <1>7, <1>8, <2>1, <2>4, <2>5, <2>6, <2>7 DEF BiIInv, BiShape
  <1>10. CASE ~Meeting(s, r)
    <2>1. cost' = cost /\ meet' = meet BY <1>3, <1>10 DEF BiSettleBy
    <2>2. BiFrontier' BY <1>1, <1>3, <1>10, BiSettleFrontier
    <2>3. BiOrdered' BY <1>1, <1>3, BiSettleOrdered
    <2>4. BiBest' /\ best' \in 0..Inf BY <1>1, <1>3, <1>10, BiSettleBest
    <2>5. BiLoop' BY <1>1, <2>1, <2>2, <2>3, <2>4 DEF BiLoop
    <2>6. BiMet' BY <1>1, <2>1 DEF BiMet
    <2>7. cost' \in 0..Inf \cup {NoCost} /\ BiShortest'
      BY <1>1, <2>1 DEF BiIInv, BiShortest, BiDone, BiRunning
    <2> QED BY <1>5, <1>6, <1>7, <1>8, <2>4, <2>5, <2>6, <2>7 DEF BiIInv, BiShape
  <1> QED BY <1>9, <1>10

\* The actions together.
LEMMA BiStep == ASSUME BiIInv, [BiNext]_biVars PROVE BiIInv'
  <1>1. CASE BiNext
    <2>1. ASSUME biquery = NoBiQuery, NEW q \in BiQueries, BiStart(q) PROVE BiIInv'
      BY <2>1, BiStartOK
    <2> QED BY <1>1, <2>1, BiGiveUpOK, BiSkipOK, BiSettleOK DEF BiNext, BiRound
  <1>2. CASE UNCHANGED biVars
    <2>1. /\ biquery' = biquery /\ sides' = sides /\ done' = done /\ best' = best
          /\ meet' = meet /\ cost' = cost
      BY <1>2 DEF biVars
    <2>2. BiShape' <=> BiShape BY <2>1 DEF BiShape
    <2>3. BiEntries' <=> BiEntries BY <2>1, BiCallStays DEF BiEntries
    <2>4. BiTree' <=> BiTree BY <2>1, BiCallStays DEF BiTree, BiOrigin
    <2>5. BiMet' <=> BiMet BY <2>1 DEF BiMet
    <2>6. (BiFrontier' <=> BiFrontier) /\ (BiOrdered' <=> BiOrdered) /\ (BiBest' <=> BiBest)
      BY <2>1, BiCallStays DEF BiFrontier, BiOrdered, BiBest
    <2>7. (BiLoop' <=> BiLoop) /\ (BiRunning' <=> BiRunning)
      BY <2>1, <2>6 DEF BiLoop, BiRunning
    <2>8. BiShortest' <=> BiShortest BY <2>1, BiCallStays DEF BiShortest, BiDone
    <2> QED BY <2>1, <2>2, <2>3, <2>4, <2>5, <2>7, <2>8 DEF BiIInv
  <1> QED BY <1>1, <1>2

-----------------------------------------------------------------------------
(* Two searches: the path handed out. *)

\* A side takes the cheapest step from a parent to its child.
LEMMA BiChild ==
  ASSUME biquery \in BiQueries, BiEntries, BiTree, NEW s \in Sides, NEW n \in DOMAIN done[s],
         NEW p, p = done[s][n].parent, p # NoNode
  PROVE  /\ p \in DOMAIN done[s] /\ Cheap(BiNet(s), p, n) \in Nat
         /\ BiCost(s)[n] = BiCost(s)[p] + Cheap(BiNet(s), p, n)
  <1> DEFINE D == BiCost(s)
             k == Cheap(BiNet(s), p, n)
  <1>1. BiOrigin(s, done[s][n]) /\ done[s][n].n = n BY DEF BiTree, BiEntries
  <1>2. PICK z \in BiSteps(s) : /\ z.from = p /\ z.to = n /\ p \in DOMAIN done[s]
                                /\ done[s][p].d + z.c = done[s][n].d
    BY <1>1 DEF BiOrigin
  <1>3. /\ done[s][p].d = D[p] /\ done[s][n].d = D[n] /\ D[p] \in Nat /\ D[n] \in Nat /\ D[n] < Inf
    BY <1>2 DEF BiEntries, BiEntry
  <1>4. IsNet(BiNet(s)) BY BiFacts, SeenIs DEF BiNet
  <1>5. /\ k \in Nat /\ k <= Inf /\ k <= z.c
        /\ k = Inf \/ \E y \in BiSteps(s) : y.from = p /\ y.to = n /\ y.c = k
    BY <1>2, <1>4, CheapIs DEF BiSteps
  <1>6. z.c \in Nat BY BiFacts
  <1> HIDE DEF D, k
  <1>7. k # Inf BY <1>2, <1>3, <1>5, <1>6, InfAssumption
  <1>8. D[n] <= D[p] + k
    <2>1. PICK y \in BiSteps(s) : y.from = p /\ y.to = n /\ y.c = k BY <1>5, <1>7
    <2> QED BY <2>1, BiFacts DEF D
  <1>9. D[n] = D[p] + k BY <1>2, <1>3, <1>5, <1>6, <1>8
  <1> QED BY <1>2, <1>5, <1>9 DEF D, k

\* The cheapest step is the same for the other side, the other way round.
LEMMA CheapMirror ==
  ASSUME biquery \in BiQueries, NEW a, NEW b
  PROVE  Cheap(BiNet("bwd"), a, b) = Cheap(biquery.net, b, a)
  <1> DEFINE A == {z.c : z \in {y \in BiSteps("bwd") : y.from = a /\ y.to = b}}
             B == {z.c : z \in {y \in BiSteps("fwd") : y.from = b /\ y.to = a}}
  <1>1. A \subseteq B BY BiMirror DEF Sides, Other
  <1>2. B \subseteq A BY BiMirror DEF Sides, Other
  <1>3. A = B BY <1>1, <1>2
  <1>4. Cheap(BiNet("bwd"), a, b) = Min(A \cup {Inf}) BY DEF Cheap, BiSteps
  <1>5. Cheap(biquery.net, b, a) = Min(B \cup {Inf}) BY DEF Cheap, BiSteps, BiNet, Seen
  <1> QED BY <1>3, <1>4, <1>5

\* Each half climbs from the meeting node to where its side began.
LEMMA HalfEnds ==
  ASSUME biquery \in BiQueries, BiEntries, BiTree, NEW s \in Sides, NEW n \in DOMAIN done[s]
  PROVE  LET path == HalfPath(s, n)
         IN /\ Climbs(done[s], path, NoNode) /\ path[1] = n
            /\ path[Len(path)] \in Ends(s) /\ BiCost(s)[path[Len(path)]] = 0
  <1> DEFINE path == HalfPath(s, n)
             last == path[Len(path)]
  <1>1. Rooted(done[s], NoNode)
    <2>1. IsFiniteSet(DOMAIN done[s])
      <3>1. DOMAIN done[s] \subseteq biquery.net.nodes BY DEF BiEntries
      <3> QED BY <3>1, BiFacts, FS_Subset
    <2>2. ASSUME NEW m \in DOMAIN done[s]
          PROVE  /\ done[s][m].d \in Nat
                 /\ done[s][m].parent # NoNode => done[s][m].parent \in DOMAIN done[s]
      BY DEF BiEntries, BiEntry, BiTree, BiOrigin
    <2> QED BY <2>1, <2>2 DEF Rooted
  <1>2. Timed(done[s], NoNode) BY DEF BiTree
  <1>3. /\ Climbs(done[s], path, NoNode) /\ path[1] = n
        /\ last \in DOMAIN done[s] /\ done[s][last].parent = NoNode
    BY <1>1, <1>2, ClimbEnds DEF HalfPath
  <1> HIDE DEF path
  <1>4. BiOrigin(s, done[s][last]) /\ done[s][last].n = last BY <1>3 DEF BiTree, BiEntries
  <1>5. NoNode \notin DOMAIN done[s] BY BiFacts DEF BiEntries
  <1>6. last \in Ends(s) BY <1>3, <1>4, <1>5 DEF BiOrigin
  <1>7. BiCost(s)[last] = 0 BY <1>6, BiFacts
  <1> QED BY <1>3, <1>6, <1>7 DEF path

\* The halves put together.
LEMMA BiPathIs ==
  ASSUME NEW f, NEW b, f = HalfPath("fwd", meet), b = HalfPath("bwd", meet),
         NEW V, f \in Seq(V), b \in Seq(V), Len(f) >= 1, Len(b) >= 1, f[1] = b[1]
  PROVE  /\ Len(BiPath) = (Len(b) - 1) + Len(f)
         /\ \A i \in 1..Len(b) : BiPath[i] = b[Len(b) + 1 - i]
         /\ \A j \in 1..Len(f) : BiPath[(Len(b) - 1) + j] = f[j]
  <1>1. PICK N \in Nat : N = Len(b) - 1 /\ N + 1 = Len(b) OBVIOUS
  <1> DEFINE back == [i \in 1..N |-> b[Len(b) + 1 - i]]
  <1>2. BiPath = back \o f BY <1>1 DEF BiPath
  <1>3. \A i \in 1..N : b[Len(b) + 1 - i] \in V
    <2>1. \A i \in 1..N : Len(b) + 1 - i \in 1..Len(b) BY <1>1
    <2> QED BY <2>1
  <1>4. back \in Seq(V) /\ Len(back) = N /\ \A i \in 1..N : back[i] = b[Len(b) + 1 - i]
    BY <1>3
  <1> HIDE DEF back
  <1>5. /\ Len(back \o f) = N + Len(f)
        /\ \A i \in 1..N : (back \o f)[i] = back[i]
        /\ \A j \in 1..Len(f) : (back \o f)[N + j] = f[j]
    <2>1. Len(back \o f) = N + Len(f)
      <3>1. Len(back \o f) = Len(back) + Len(f) BY <1>4
      <3> QED BY <1>4, <3>1
    <2>2. \A i \in 1..N : (back \o f)[i] = back[i] BY <1>4
    <2>3. ASSUME NEW j \in 1..Len(f) PROVE (back \o f)[N + j] = f[j]
      <3>1. (back \o f)[Len(back) + j] = f[j] BY <1>4
      <3> QED BY <1>4, <3>1
    <2> QED BY <2>1, <2>2, <2>3
  <1>6. ASSUME NEW i \in 1..Len(b) PROVE BiPath[i] = b[Len(b) + 1 - i]
    <2>1. CASE i \in 1..N BY <1>2, <1>4, <1>5, <2>1
    <2>2. CASE i \notin 1..N
      <3>1. i = N + 1 /\ Len(b) + 1 - i = 1 /\ 1 \in 1..Len(f) BY <1>1, <2>2
      <3> QED BY <1>2, <1>5, <3>1
    <2> QED BY <2>1, <2>2
  <1> QED BY <1>1, <1>2, <1>5, <1>6

\* The path put together fits the cost: both halves climb to an end, and meet in one node.
LEMMA BiPathsFit == ASSUME BiIInv PROVE BiPathFits
  <1> SUFFICES ASSUME meet # NoNode
               PROVE  /\ BiPath[1] \in biquery.dst /\ BiPath[Len(BiPath)] \in biquery.src
                      /\ CostAlong(biquery.net, BiPath) = cost
    BY DEF BiPathFits
  <1>1. biquery \in BiQueries /\ BiEntries /\ BiTree /\ BiMet /\ IsNet(biquery.net)
    <2>1. biquery # NoBiQuery BY DEF BiIInv
    <2> QED BY <2>1, BiQueriesAssumption DEF BiIInv
  <1> DEFINE D == BiCost("fwd")
             B == BiCost("bwd")
             path == BiPath
  <1>2. PICK f, b : f = HalfPath("fwd", meet) /\ b = HalfPath("bwd", meet) OBVIOUS
  <1>3. /\ meet \in DOMAIN done["fwd"] /\ meet \in DOMAIN done["bwd"]
        /\ cost = done["fwd"][meet].d + done["bwd"][meet].d
    BY <1>1 DEF BiMet
  <1>4. cost = D[meet] + B[meet] BY <1>1, <1>3 DEF BiEntries, Sides
  <1>5. /\ Climbs(done["fwd"], f, NoNode) /\ f[1] = meet
        /\ f[Len(f)] \in biquery.src /\ D[f[Len(f)]] = 0
    BY <1>1, <1>2, <1>3, HalfEnds DEF Sides, Ends
  <1>6. /\ Climbs(done["bwd"], b, NoNode) /\ b[1] = meet
        /\ b[Len(b)] \in biquery.dst /\ B[b[Len(b)]] = 0
    BY <1>1, <1>2, <1>3, HalfEnds DEF Sides, Ends
  <1> DEFINE V == biquery.net.nodes
  <1>7. /\ DOMAIN done["fwd"] \subseteq V /\ DOMAIN done["bwd"] \subseteq V
        /\ \A n \in V : D[n] \in 0..Inf /\ B[n] \in 0..Inf
    BY <1>1, BiFacts DEF BiEntries, Sides
  <1>8. f \in Seq(V) /\ b \in Seq(V) /\ Len(f) >= 1 /\ Len(b) >= 1
    BY <1>5, <1>6, <1>7 DEF Climbs
  <1>9. PICK m \in Nat, n \in Nat : m + 1 = Len(b) /\ n + 1 = Len(f)
    <2>1. PICK k \in Nat, l \in Nat : k = Len(b) /\ l = Len(f)
      <3>1. Len(b) \in Nat /\ Len(f) \in Nat BY <1>8
      <3> QED BY <3>1
    <2>2. k - 1 \in Nat /\ (k - 1) + 1 = k /\ l - 1 \in Nat /\ (l - 1) + 1 = l
      BY <1>8, <2>1
    <2> QED BY <2>1, <2>2
  <1>10. /\ Len(path) = m + (n + 1)
         /\ \A i \in 1..(m + 1) : path[i] = b[(m + 2) - i]
         /\ \A j \in 1..(n + 1) : path[m + j] = f[j]
    <2>1. Len(b) = m + 1 /\ Len(f) = n + 1 /\ Len(b) - 1 = m
          /\ \A i \in 1..(m + 1) : Len(b) + 1 - i = (m + 2) - i
      BY <1>9
    <2>2. f[1] = b[1] BY <1>5, <1>6
    <2> HIDE DEF V
    <2>3. /\ Len(BiPath) = (Len(b) - 1) + Len(f)
          /\ \A i \in 1..Len(b) : BiPath[i] = b[Len(b) + 1 - i]
          /\ \A j \in 1..Len(f) : BiPath[(Len(b) - 1) + j] = f[j]
      BY <1>2, <1>8, <2>2, BiPathIs
    <2> QED BY <2>1, <2>3
  <1> HIDE DEF path, D, B, V
  <1>11. PICK sum \in [0..(m + n) -> Nat] :
           /\ CostAlong(biquery.net, path) = sum[m + n] /\ sum[0] = 0
           /\ \A k \in 1..(m + n) :
                sum[k] = sum[k - 1] + Cheap(biquery.net, path[k + 1], path[k])
    <2>1. Len(path) \in Nat /\ Len(path) >= 1 BY <1>10
    <2>2. PICK l \in Nat : l = m + n /\ l = Len(path) - 1 BY <1>10
    <2>3. PICK sum \in [0..l -> Nat] :
            /\ CostAlong(biquery.net, path) = sum[l] /\ sum[0] = 0
            /\ \A k \in 1..l : sum[k] = sum[k - 1] + Cheap(biquery.net, path[k + 1], path[k])
      <3>1. PICK sum \in [0..(Len(path) - 1) -> Nat] :
              /\ CostAlong(biquery.net, path) = sum[Len(path) - 1] /\ sum[0] = 0
              /\ \A k \in 1..(Len(path) - 1) :
                   sum[k] = sum[k - 1] + Cheap(biquery.net, path[k + 1], path[k])
        BY <1>1, <2>1, CostIs
      <3> QED BY <2>2, <3>1
    <2> QED BY <2>2, <2>3
  <1>12. /\ \A i \in 1..(m + 1) : b[i] \in DOMAIN done["bwd"] /\ b[i] \in V
         /\ \A j \in 1..(n + 1) : f[j] \in DOMAIN done["fwd"] /\ f[j] \in V
    BY <1>5, <1>6, <1>7, <1>9 DEF Climbs
  <1> DEFINE S == {k \in Nat : k <= m => sum[k] = B[path[k + 1]]}
             T == {j \in Nat : j <= n => sum[m + j] + D[f[j + 1]] = cost}
  <1>13. 0 \in S
    <2>1. path[0 + 1] = b[m + 1]
      <3>1. 1 \in 1..(m + 1) /\ (m + 2) - 1 = m + 1 OBVIOUS
      <3> QED BY <3>1, <1>10
    <2>2. B[b[m + 1]] = 0 BY <1>6, <1>9
    <2> QED BY <1>11, <2>1, <2>2
  <1>14. ASSUME NEW k \in Nat, k \in S PROVE k + 1 \in S
    <2> SUFFICES ASSUME k + 1 <= m PROVE sum[k + 1] = B[path[(k + 1) + 1]]
      OBVIOUS
    <2>1. PICK i \in 1..m : i = m - k /\ i + 1 = (m + 2) - (k + 1) /\ i = (m + 2) - (k + 2)
      OBVIOUS
    <2>2. path[k + 1] = b[i + 1] /\ path[k + 2] = b[i]
      <3>1. k + 1 \in 1..(m + 1) /\ k + 2 \in 1..(m + 1) OBVIOUS
      <3> QED BY <3>1, <2>1, <1>10
    <2>3. done["bwd"][b[i]].parent # NoNode /\ b[i + 1] = done["bwd"][b[i]].parent
      <3>1. i \in 1..(Len(b) - 1) BY <1>9
      <3> QED BY <3>1, <1>6 DEF Climbs
    <2>4. b[i] \in DOMAIN done["bwd"] BY <1>12
    <2>5. /\ Cheap(BiNet("bwd"), b[i + 1], b[i]) \in Nat
          /\ B[b[i]] = B[b[i + 1]] + Cheap(BiNet("bwd"), b[i + 1], b[i])
      BY <1>1, <2>3, <2>4, BiChild DEF B, Sides
    <2>6. Cheap(BiNet("bwd"), b[i + 1], b[i]) = Cheap(biquery.net, b[i], b[i + 1])
      BY <1>1, CheapMirror
    <2>7. sum[k + 1] = sum[k] + Cheap(biquery.net, path[k + 2], path[k + 1])
      <3>1. k + 1 \in 1..(m + n) /\ (k + 1) - 1 = k /\ (k + 1) + 1 = k + 2 OBVIOUS
      <3> QED BY <3>1, <1>11
    <2>8. sum[k] = B[path[k + 1]] BY <1>14
    <2>9. (k + 1) + 1 = k + 2 OBVIOUS
    <2> QED BY <2>2, <2>5, <2>6, <2>7, <2>8, <2>9
  <1>15. \A k \in Nat : k \in S
    <2> HIDE DEF S
    <2> QED BY <1>13, <1>14, Induct
  <1>16. 0 \in T
    <2>1. sum[m] = B[path[m + 1]] BY <1>15
    <2>2. path[m + 1] = meet
      <3>1. 1 \in 1..(n + 1) OBVIOUS
      <3> QED BY <3>1, <1>5, <1>10
    <2>3. m + 0 = m /\ 0 + 1 = 1 OBVIOUS
    <2>4. D[meet] \in Nat /\ B[meet] \in Nat BY <1>3, <1>7
    <2> QED BY <1>4, <1>5, <2>1, <2>2, <2>3, <2>4
  <1>17. ASSUME NEW j \in Nat, j \in T PROVE j + 1 \in T
    <2> SUFFICES ASSUME j + 1 <= n PROVE sum[m + (j + 1)] + D[f[(j + 1) + 1]] = cost
      OBVIOUS
    <2>1. PICK i \in 1..n : i = j + 1 /\ i + 1 = (j + 1) + 1 OBVIOUS
    <2>2. path[m + i] = f[i] /\ path[m + (i + 1)] = f[i + 1]
      <3>1. i \in 1..(n + 1) /\ i + 1 \in 1..(n + 1) OBVIOUS
      <3> QED BY <3>1, <1>10
    <2>3. done["fwd"][f[i]].parent # NoNode /\ f[i + 1] = done["fwd"][f[i]].parent
      <3>1. i \in 1..(Len(f) - 1) BY <1>9
      <3> QED BY <3>1, <1>5 DEF Climbs
    <2>4. f[i] \in DOMAIN done["fwd"] /\ f[i] \in V /\ f[i + 1] \in V
      <3>1. i \in 1..(n + 1) /\ i + 1 \in 1..(n + 1) OBVIOUS
      <3> QED BY <3>1, <1>12
    <2>5. BiNet("fwd") = biquery.net BY DEF BiNet, Seen
    <2>6. /\ Cheap(biquery.net, f[i + 1], f[i]) \in Nat
          /\ D[f[i]] = D[f[i + 1]] + Cheap(biquery.net, f[i + 1], f[i])
      BY <1>1, <2>3, <2>4, <2>5, BiChild DEF D, Sides
    <2>7. sum[m + i] = sum[m + j] + Cheap(biquery.net, f[i + 1], f[i])
      <3>1. m + i \in 1..(m + n) /\ (m + i) - 1 = m + j /\ (m + i) + 1 = m + (i + 1)
        BY <2>1
      <3> QED BY <3>1, <1>11, <2>2
    <2>8. sum[m + j] + D[f[i]] = cost BY <1>17, <2>1
    <2>9. sum[m + j] \in Nat /\ D[f[i]] \in Nat /\ D[f[i + 1]] \in Nat
      <3>1. m + j \in 0..(m + n) OBVIOUS
      <3> QED BY <3>1, <1>11, <2>4, <1>7
    <2> QED BY <2>1, <2>6, <2>7, <2>8, <2>9
  <1>18. \A j \in Nat : j \in T
    <2> HIDE DEF T
    <2> QED BY <1>16, <1>17, Induct
  <1>19. sum[m + n] = cost
    <2>1. sum[m + n] + D[f[n + 1]] = cost BY <1>18
    <2>2. D[f[n + 1]] = 0 BY <1>5, <1>9
    <2>3. sum[m + n] \in Nat
      <3>1. m + n \in 0..(m + n) OBVIOUS
      <3> QED BY <3>1, <1>11
    <2> QED BY <2>1, <2>2, <2>3
  <1>20. path[1] = b[Len(b)] /\ path[Len(path)] = f[Len(f)]
    <2>1. 1 \in 1..(m + 1) /\ (m + 2) - 1 = m + 1 /\ n + 1 \in 1..(n + 1) OBVIOUS
    <2> QED BY <2>1, <1>9, <1>10
  <1> QED BY <1>5, <1>6, <1>11, <1>19, <1>20 DEF path

\* It implies the type invariant.
LEMMA BiIInvTypes == ASSUME BiIInv PROVE BiTypeOK
  <1>1. cost \in 0..Inf \cup {NoCost} /\ best \in 0..Inf BY DEF BiIInv, BiShape
  <1>2. ASSUME biquery # NoBiQuery, NEW s \in Sides
        PROVE  /\ \A r \in sides[s] : r.n \in biquery.net.nodes /\ r.d \in 0..Inf
               /\ DOMAIN done[s] \subseteq biquery.net.nodes
               /\ meet \in biquery.net.nodes \cup {NoNode}
    <2>1. BiEntries /\ BiMet BY <1>2 DEF BiIInv
    <2>2. DOMAIN done["fwd"] \subseteq biquery.net.nodes BY <2>1 DEF BiEntries, Sides
    <2>3. meet \in biquery.net.nodes \cup {NoNode} BY <2>1, <2>2 DEF BiMet
    <2>4. ASSUME NEW r \in sides[s] PROVE r.n \in biquery.net.nodes /\ r.d \in 0..Inf
      <3>1. r.n \in biquery.net.nodes /\ r.d \in Nat /\ r.d < Inf BY <2>1 DEF BiEntries, BiEntry
      <3> QED BY <3>1, InfAssumption
    <2> QED BY <2>1, <2>3, <2>4 DEF BiEntries
  <1> QED BY <1>1, <1>2 DEF BiTypeOK

\* Whatever the graph, the sources and the targets, two searches that meet have met
\* on a cheapest way, the path handed out is one, and they only give up if there is
\* none, or a target costs nothing (BiDijkstra::shortestPathImpl).
THEOREM SearchesMeetOnShortest == BiSpec => []BiInv
  <1>1. BiInit => BiIInv BY BiInitOK
  <1>2. BiIInv /\ [BiNext]_biVars => BiIInv' BY BiStep
  <1>3. BiIInv => BiInv BY BiIInvTypes, BiPathsFit DEF BiInv, BiIInv
  <1> QED BY <1>1, <1>2, <1>3, PTL DEF BiSpec
-----------------------------------------------------------------------------
(* EdgeDijkstra: ways that go from edge to edge. *)

\* What a search begins with: the costs of its start edges.
Begun(q) == [e \in q.src |-> IF Inits(q) THEN q.init[e] ELSE FirstCost(q, e)]

\* The nodes at which a way goes on behind edge e.
EndsOf(q, e) == IF ~q.net.directed /\ e.from # e.to THEN {e.from, e.to} ELSE {e.to}

\* The costs the search looks for, and those from a single edge.
EdgeCost == EdgeCosts(equery)
EdgeFrom(q, y) == EdgeDist(q, {y}, [x \in {y} |-> 0])

\* The queries of the assumption, as far as ways are concerned.
IsEdgeQuery(q) ==
  /\ IsNet(q.net) /\ IsFiniteSet(q.net.edges)
  /\ q.src \subseteq q.net.edges /\ q.dst \subseteq q.net.edges
  /\ q.heur \in [q.net.edges -> Nat]
  /\ q.form \in {"set", "many", "all", "rev", "init", "first"}
  /\ q.stall \in Nat /\ \A e \in q.src : q.init[e] \in Nat
  /\ q.form \in {"all", "rev"} => \A e \in q.net.edges : q.heur[e] = 0

\* A step goes from an edge to another at an end of it, and costs the latter.
LEMMA EdgeStepsAre ==
  ASSUME NEW q, IsEdgeQuery(q)
  PROVE  /\ StepsOf(q.net.edges, EdgeSteps(q))
         /\ \A s \in EdgeSteps(q) :
              /\ s.c = s.to.c /\ s.from # s.to /\ <<s.from, s.to>> \notin q.ban
              /\ \E x \in EndsOf(q, s.from) : s.to \in AdjOut(q.net, x)
         /\ \A e, f \in q.net.edges : \A x \in EndsOf(q, e) :
              e # f /\ <<e, f>> \notin q.ban /\ f \in AdjOut(q.net, x) =>
                \E s \in EdgeSteps(q) : s.from = e /\ s.to = f /\ s.c = f.c
  <1> DEFINE E == q.net.edges
             On(e) == AdjOut(q.net, e.to)
                      \cup IF q.net.directed THEN {} ELSE AdjOut(q.net, e.from)
             P == {x \in E \X E : x[1] # x[2] /\ x \notin q.ban /\ x[2] \in On(x[1])}
  <1>1. EdgeSteps(q) = {[from |-> p[1], to |-> p[2], c |-> p[2].c] : p \in P}
    BY DEF EdgeSteps
  <1>2. \A e \in E : e.c \in Nat BY DEF IsEdgeQuery, IsNet
  <1>3. ASSUME NEW e \in E, NEW f
        PROVE  f \in On(e) <=> \E x \in EndsOf(q, e) : f \in AdjOut(q.net, x)
    BY DEF EndsOf
  <1> HIDE DEF On
  <1>4. ASSUME NEW p \in P
        PROVE  /\ p[1] \in E /\ p[2] \in E /\ p[1] # p[2] /\ <<p[1], p[2]>> \notin q.ban
               /\ p[2] \in On(p[1])
    BY <1>4
  <1>5. ASSUME NEW e \in E, NEW f \in E, e # f, <<e, f>> \notin q.ban, f \in On(e)
        PROVE  \E p \in P : p[1] = e /\ p[2] = f
    <2>1. <<e, f>> \in P BY <1>5
    <2> QED BY <2>1
  <1> HIDE DEF P
  <1>6. ASSUME NEW s \in EdgeSteps(q)
        PROVE  \E p \in P : s.from = p[1] /\ s.to = p[2] /\ s.c = p[2].c
    BY <1>1
  <1>7. ASSUME NEW p \in P
        PROVE  \E s \in EdgeSteps(q) : s.from = p[1] /\ s.to = p[2] /\ s.c = p[2].c
    <2>1. [from |-> p[1], to |-> p[2], c |-> p[2].c] \in EdgeSteps(q) BY <1>1
    <2> QED BY <2>1
  <1>8. ASSUME NEW s \in EdgeSteps(q)
        PROVE  /\ s.from \in E /\ s.to \in E /\ s.c \in Nat /\ s.c = s.to.c /\ s.from # s.to
               /\ <<s.from, s.to>> \notin q.ban
               /\ \E x \in EndsOf(q, s.from) : s.to \in AdjOut(q.net, x)
    <2>1. PICK p \in P : s.from = p[1] /\ s.to = p[2] /\ s.c = p[2].c BY <1>6
    <2> QED BY <2>1, <1>2, <1>3, <1>4
  <1>9. ASSUME NEW e \in E, NEW f \in E, NEW x \in EndsOf(q, e), e # f,
               <<e, f>> \notin q.ban, f \in AdjOut(q.net, x)
        PROVE  \E s \in EdgeSteps(q) : s.from = e /\ s.to = f /\ s.c = f.c
    <2>1. f \in On(e) BY <1>3, <1>9
    <2>2. PICK p \in P : p[1] = e /\ p[2] = f BY <2>1, <1>5, <1>9
    <2> QED BY <2>2, <1>7
  <1>10. StepsOf(E, EdgeSteps(q)) BY <1>8 DEF StepsOf
  <1> QED BY <1>8, <1>9, <1>10

\* The reference costs are costs of cheapest ways.
LEMMA EdgeDistIs ==
  ASSUME NEW q, IsEdgeQuery(q), NEW src, src \subseteq q.net.edges,
         NEW at, \A x \in src : at[x] \in Nat
  PROVE  Cheapest(EdgeDist(q, src, at), q.net.edges, EdgeSteps(q), src, at)
  BY EdgeStepsAre, ShortestIs DEF EdgeDist, IsEdgeQuery

\* What is used of the costs from a single edge.
LEMMA EdgeFromFacts ==
  ASSUME NEW q, IsEdgeQuery(q), NEW y \in q.net.edges
  PROVE  /\ EdgeFrom(q, y) \in [q.net.edges -> 0..Inf]
         /\ EdgeFrom(q, y)[y] = 0
         /\ \A s \in EdgeSteps(q) : EdgeFrom(q, y)[s.to] <= EdgeFrom(q, y)[s.from] + s.c
         /\ \A S : /\ <<y, 0>> \in S
                   /\ \A x \in q.net.edges, c \in Nat, s \in EdgeSteps(q) :
                        <<x, c>> \in S /\ s.from = x /\ c + s.c < Inf => <<s.to, c + s.c>> \in S
                   => \A x \in q.net.edges : EdgeFrom(q, y)[x] < Inf
                                             => <<x, EdgeFrom(q, y)[x]>> \in S
  <1> DEFINE at == [x \in {y} |-> 0]
             D == EdgeDist(q, {y}, at)
  <1>1. at[y] = 0 /\ \A x \in {y} : at[x] \in Nat OBVIOUS
  <1>2. D = EdgeFrom(q, y) BY DEF EdgeFrom
  <1> HIDE DEF at
  <1>3. Cheapest(D, q.net.edges, EdgeSteps(q), {y}, at) BY <1>1, EdgeDistIs
  <1> HIDE DEF D
  <1>4. D \in [q.net.edges -> 0..Inf] /\ (\A s \in EdgeSteps(q) : D[s.to] <= D[s.from] + s.c)
        /\ D[y] <= 0
    BY <1>1, <1>3 DEF Cheapest
  <1>5. D[y] = 0
    <2>1. D[y] \in 0..Inf BY <1>4
    <2> QED BY <2>1, <1>4, InfAssumption
  <1>6. ASSUME NEW S, <<y, 0>> \in S,
               \A x \in q.net.edges, c \in Nat, s \in EdgeSteps(q) :
                 <<x, c>> \in S /\ s.from = x /\ c + s.c < Inf => <<s.to, c + s.c>> \in S
        PROVE  \A x \in q.net.edges : D[x] < Inf => <<x, D[x]>> \in S
    <2>1. \A x \in {y} : at[x] < Inf => <<x, at[x]>> \in S BY <1>1, <1>6
    <2>2. (/\ \A x \in {y} : at[x] < Inf => <<x, at[x]>> \in S
           /\ \A x \in q.net.edges, c \in Nat, s \in EdgeSteps(q) :
                <<x, c>> \in S /\ s.from = x /\ c + s.c < Inf => <<s.to, c + s.c>> \in S)
          => \A x \in q.net.edges : D[x] < Inf => <<x, D[x]>> \in S
      BY <1>3 DEF Cheapest
    <2> QED BY <2>1, <2>2, <1>6
  <1> QED BY <1>2, <1>4, <1>5, <1>6

\* And from the edges the search begins with.
LEMMA EdgeCostFacts ==
  ASSUME NEW q, IsEdgeQuery(q)
  PROVE  /\ EdgeCosts(q) \in [q.net.edges -> 0..Inf]
         /\ \A x \in q.src : Begun(q)[x] \in Nat /\ EdgeCosts(q)[x] <= Begun(q)[x]
         /\ \A s \in EdgeSteps(q) : EdgeCosts(q)[s.to] <= EdgeCosts(q)[s.from] + s.c
         /\ \A S : /\ \A x \in q.src : Begun(q)[x] < Inf => <<x, Begun(q)[x]>> \in S
                   /\ \A x \in q.net.edges, c \in Nat, s \in EdgeSteps(q) :
                        <<x, c>> \in S /\ s.from = x /\ c + s.c < Inf => <<s.to, c + s.c>> \in S
                   => \A x \in q.net.edges : EdgeCosts(q)[x] < Inf => <<x, EdgeCosts(q)[x]>> \in S
  <1>1. \A x \in q.src : Begun(q)[x] \in Nat
    BY DEF Begun, FirstCost, IsEdgeQuery, IsNet
  <1>2. EdgeCosts(q) = EdgeDist(q, q.src, Begun(q)) BY DEF EdgeCosts, Begun
  <1>3. q.src \subseteq q.net.edges BY DEF IsEdgeQuery
  <1>4. Cheapest(EdgeCosts(q), q.net.edges, EdgeSteps(q), q.src, Begun(q))
    BY <1>1, <1>2, <1>3, EdgeDistIs
  <1> QED BY <1>1, <1>4 DEF Cheapest

\* A consistent heuristic falls by no more than what is between two edges.
LEMMA EdgeHeurFalls ==
  ASSUME NEW q, IsEdgeQuery(q), EdgeConsistent(q),
         NEW a \in q.net.edges, NEW b \in q.net.edges, EdgeFrom(q, a)[b] < Inf
  PROVE  q.heur[a] <= EdgeFrom(q, a)[b] + q.heur[b]
  <1> DEFINE E == q.net.edges
             S == {p \in E \X Nat : q.heur[a] <= p[2] + q.heur[p[1]]}
  <1>0. \A e \in E : q.heur[e] \in Nat BY DEF IsEdgeQuery
  <1>1. <<a, 0>> \in S BY <1>0
  <1>2. ASSUME NEW x \in E, NEW c \in Nat, NEW s \in EdgeSteps(q),
               <<x, c>> \in S, s.from = x, c + s.c < Inf
        PROVE  <<s.to, c + s.c>> \in S
    <2>1. s.to \in E /\ s.c \in Nat BY EdgeStepsAre DEF StepsOf
    <2>2. q.heur[x] <= s.c + q.heur[s.to] BY <1>2 DEF EdgeConsistent
    <2>3. q.heur[x] \in Nat /\ q.heur[s.to] \in Nat /\ q.heur[a] \in Nat BY <2>1, <1>0
    <2>4. q.heur[a] <= c + q.heur[x] BY <1>2
    <2>5. q.heur[a] <= (c + s.c) + q.heur[s.to] BY <2>1, <2>2, <2>3, <2>4
    <2> QED BY <2>1, <2>5
  <1>3. <<b, EdgeFrom(q, a)[b]>> \in S
    <2> HIDE DEF S
    <2> QED BY <1>1, <1>2, EdgeFromFacts
  <1> QED BY <1>3

-----------------------------------------------------------------------------
(* EdgeDijkstra: the search. *)

\* The searches without targets.
ToAll(q) == q.form \in {"all", "rev"}

\* An entry costs what some way costs, and its key adds the heuristic.  In a
\* search from one edge dwi is the cost but for the one to begin with.
EdgeEntryAt(q, dist, r) ==
  /\ r.e \in q.net.edges /\ r.d \in Nat /\ r.dwi \in Nat /\ r.dwi <= r.d /\ r.key \in Nat
  /\ q.form # "rev" => dist[r.e] <= r.d
  /\ (Inits(q) => q.net.directed) =>
       r.d < Inf \/ (r.e \in q.src /\ r.d = Begun(q)[r.e] /\ r.dwi = 0)
  /\ ~ToAll(q) => r.d + q.heur[r.e] <= r.key
  /\ Inits(q) /\ q.net.directed => \A s : q.src = {s} => r.d = q.init[s] + r.dwi
EdgeEntry(r) == EdgeEntryAt(equery, EdgeCost, r)

\* What is queued and what is settled are entries.
EdgeEntries ==
  /\ \A r \in eq : EdgeEntry(r) /\ low <= r.key
  /\ DOMAIN esettled \subseteq equery.net.edges
  /\ \A e \in DOMAIN esettled : EdgeEntry(esettled[e]) /\ esettled[e].e = e

\* A way to x that costs c or less is settled or queued.
EdgeKnownIn(queue, fin, x, c) ==
  \/ x \in DOMAIN fin /\ fin[x].d <= c
  \/ \E r \in queue : r.e = x /\ r.d <= c
EdgeKnown(x, c) == EdgeKnownIn(eq, esettled, x, c)

\* A cost at which ways still go on: below Inf, and below stall if there is one.
Within(q, c) ==
  /\ c < Inf
  /\ Inits(q) /\ q.stall < Inf => \A s \in q.src : c < q.init[s] + q.stall

\* The searches that promise the costs themselves, not only bounds.
Promises(q) ==
  /\ q.form # "rev" /\ EdgeUsable(q)
  /\ Inits(q) => q.net.directed /\ (Inf <= q.stall \/ \E s : q.src = {s})

\* The queue is the frontier: no way leaves the settled edges but by an entry,
\* or to an edge the heuristic calls infinitely far.
EdgeFrontier ==
  /\ \A x \in equery.src : EdgeKnown(x, Begun(equery)[x])
  /\ \A x \in DOMAIN esettled, s \in EdgeSteps(equery) :
       s.from = x /\ Within(equery, esettled[x].d + s.c) /\ equery.heur[s.to] < Inf
       => EdgeKnown(s.to, esettled[x].d + s.c)

\* A key is raised to that of an entry taken before, at most.
KeysFit ==
  ~ToAll(equery) => \A r \in eq : r.key = r.d + equery.heur[r.e] \/ r.key <= low

\* Where a cheapest way to x goes: over a settled x, over an entry, or over an
\* edge the heuristic calls infinitely far.
EdgeCovered(x, c) ==
  \/ x \in DOMAIN esettled /\ esettled[x].d <= c
  \/ \E r \in eq : r.d + EdgeFrom(equery, r.e)[x] <= c
  \/ \E y \in equery.net.edges : /\ equery.heur[y] >= Inf
                                 /\ EdgeFrom(equery, y)[x] <= c

\* By induction along ways: each cheapest way is covered, as far as ways go on.
LEMMA EdgeCovers ==
  ASSUME IsEdgeQuery(equery), EdgeEntries, EdgeFrontier,
         NEW x \in equery.net.edges, Within(equery, EdgeCost[x])
  PROVE  EdgeCovered(x, EdgeCost[x])
  <1> DEFINE E == equery.net.edges
             B(y) == EdgeFrom(equery, y)
             S == {p \in E \X Nat : Within(equery, p[2]) => EdgeCovered(p[1], p[2])}
  <1>1. ASSUME NEW y \in E
        PROVE  /\ B(y) \in [E -> 0..Inf] /\ B(y)[y] = 0
               /\ \A s \in EdgeSteps(equery) : B(y)[s.to] <= B(y)[s.from] + s.c
    BY EdgeFromFacts
  <1>2. ASSUME NEW s \in EdgeSteps(equery) PROVE s.from \in E /\ s.to \in E /\ s.c \in Nat
    BY EdgeStepsAre DEF StepsOf
  <1>3. ASSUME NEW y \in E, NEW c \in Nat, EdgeKnown(y, c) PROVE EdgeCovered(y, c)
    <2>1. ASSUME NEW r \in eq, r.e = y, r.d <= c PROVE r.d + B(r.e)[y] <= c
      <3>1. r.d \in Nat BY DEF EdgeEntries, EdgeEntry, EdgeEntryAt
      <3>2. B(y)[y] = 0 BY <1>1
      <3> HIDE DEF B
      <3> QED BY <2>1, <3>1, <3>2
    <2> QED BY <2>1, <1>3 DEF EdgeKnown, EdgeKnownIn, EdgeCovered
  <1>4. \A y \in equery.src : Begun(equery)[y] < Inf => <<y, Begun(equery)[y]>> \in S
    <2>1. ASSUME NEW y \in equery.src
          PROVE  y \in E /\ Begun(equery)[y] \in Nat /\ EdgeCovered(y, Begun(equery)[y])
      <3>1. y \in E BY DEF IsEdgeQuery
      <3>2. Begun(equery)[y] \in Nat BY EdgeCostFacts
      <3>3. EdgeKnown(y, Begun(equery)[y]) BY DEF EdgeFrontier
      <3> QED BY <3>1, <3>2, <3>3, <1>3
    <2> QED BY <2>1
  <1>5. ASSUME NEW y \in E, NEW c \in Nat, NEW s \in EdgeSteps(equery),
               <<y, c>> \in S, s.from = y, c + s.c < Inf
        PROVE  <<s.to, c + s.c>> \in S
    <2>0. s.to \in E /\ s.c \in Nat /\ c + s.c \in Nat BY <1>2
    <2>00. Within(equery, c) => EdgeCovered(y, c) BY <1>5
    <2> HIDE DEF S
    <2> SUFFICES ASSUME Within(equery, c + s.c) PROVE EdgeCovered(s.to, c + s.c)
      BY <2>0 DEF S
    <2>01. ASSUME NEW d \in Nat, d <= c PROVE Within(equery, d + s.c) /\ Within(equery, d)
      <3>1. d + s.c <= c + s.c /\ d <= c + s.c /\ d + s.c \in Nat BY <2>0, <2>01
      <3>2. ASSUME NEW b \in Nat, b <= c + s.c PROVE Within(equery, b)
        <4>1. b < Inf BY <3>2, <2>0, InfAssumption DEF Within
        <4>2. ASSUME NEW v \in equery.src, Inits(equery), equery.stall < Inf
              PROVE  b < equery.init[v] + equery.stall
          <5>1. c + s.c < equery.init[v] + equery.stall BY <4>2 DEF Within
          <5>2. equery.init[v] + equery.stall \in Nat BY DEF IsEdgeQuery
          <5> QED BY <5>1, <5>2, <3>2, <2>0
        <4> QED BY <4>1, <4>2 DEF Within
      <3> QED BY <3>1, <3>2
    <2>02. EdgeCovered(y, c)
      <3>1. c <= c OBVIOUS
      <3> QED BY <3>1, <2>00, <2>01
    <2>1. CASE y \in DOMAIN esettled /\ esettled[y].d <= c
      <3>1. esettled[y].d \in Nat BY <2>1 DEF EdgeEntries, EdgeEntry, EdgeEntryAt
      <3>2. Within(equery, esettled[y].d + s.c) BY <2>1, <3>1, <2>01
      <3>3. CASE equery.heur[s.to] < Inf
        <4>1. EdgeKnown(s.to, esettled[y].d + s.c) BY <2>1, <3>2, <3>3, <1>5 DEF EdgeFrontier
        <4>2. EdgeKnown(s.to, c + s.c)
          <5>1. esettled[y].d + s.c <= c + s.c BY <2>0, <2>1, <3>1
          <5>2. ASSUME NEW d \in Nat, d <= esettled[y].d + s.c PROVE d <= c + s.c
            BY <5>1, <5>2, <2>0, <3>1
          <5>3. s.to \in DOMAIN esettled => esettled[s.to].d \in Nat
            BY DEF EdgeEntries, EdgeEntry, EdgeEntryAt
          <5>4. \A r \in eq : r.d \in Nat BY DEF EdgeEntries, EdgeEntry, EdgeEntryAt
          <5> QED BY <4>1, <5>2, <5>3, <5>4 DEF EdgeKnown, EdgeKnownIn
        <4> QED BY <4>2, <2>0, <1>3
      <3>4. CASE ~ (equery.heur[s.to] < Inf)
        <4>1. equery.heur[s.to] >= Inf
          <5>1. equery.heur[s.to] \in Nat BY <2>0 DEF IsEdgeQuery
          <5> QED BY <5>1, <3>4, InfAssumption
        <4>2. B(s.to)[s.to] <= c + s.c
          <5>1. B(s.to)[s.to] = 0 BY <2>0, <1>1
          <5> HIDE DEF B
          <5> QED BY <5>1, <2>0
        <4> QED BY <4>1, <4>2, <2>0 DEF EdgeCovered
      <3> QED BY <3>3, <3>4
    <2>2. ASSUME NEW r \in eq, r.d + B(r.e)[y] <= c PROVE EdgeCovered(s.to, c + s.c)
      <3>1. r.e \in E /\ r.d \in Nat BY DEF EdgeEntries, EdgeEntry, EdgeEntryAt
      <3>2. B(r.e)[y] \in 0..Inf /\ B(r.e)[s.to] \in 0..Inf
            /\ B(r.e)[s.to] <= B(r.e)[y] + s.c
        BY <3>1, <2>0, <1>1, <1>5
      <3> HIDE DEF B
      <3>3. r.d + B(r.e)[s.to] <= c + s.c BY <3>1, <3>2, <2>0, <2>2
      <3> QED BY <3>3 DEF EdgeCovered, B
    <2>3. ASSUME NEW z \in E, equery.heur[z] >= Inf, B(z)[y] <= c
          PROVE  EdgeCovered(s.to, c + s.c)
      <3>1. B(z)[y] \in 0..Inf /\ B(z)[s.to] \in 0..Inf /\ B(z)[s.to] <= B(z)[y] + s.c
        BY <2>0, <1>1, <1>5
      <3> HIDE DEF B
      <3>2. B(z)[s.to] <= c + s.c BY <3>1, <2>0, <2>3
      <3> QED BY <3>2, <2>3 DEF EdgeCovered, B
    <2> QED BY <2>02, <2>1, <2>2, <2>3 DEF EdgeCovered
  <1>6. <<x, EdgeCost[x]>> \in S
    <2>1. EdgeCost[x] < Inf BY DEF Within
    <2> HIDE DEF S
    <2> QED BY <1>4, <1>5, <2>1, EdgeCostFacts DEF EdgeCost
  <1> QED BY <1>6

\* An admissible heuristic: while a target is out, the queue has an entry whose
\* key is not above its cost, or not above one taken before.
LEMMA EdgeKeysBelow ==
  ASSUME IsEdgeQuery(equery), EdgeEntries, EdgeFrontier, KeysFit, EdgeAdmissible(equery),
         ~ToAll(equery),
         NEW t \in equery.dst, t \notin DOMAIN esettled, Within(equery, EdgeCost[t])
  PROVE  \E r \in eq : r.key <= EdgeCost[t] \/ r.key <= low
  <1> DEFINE E == equery.net.edges
             B(y) == EdgeFrom(equery, y)
  <1>0. t \in E BY DEF IsEdgeQuery
  <1>1. EdgeCovered(t, EdgeCost[t]) BY <1>0, EdgeCovers
  <1>2. ASSUME NEW y \in E PROVE equery.heur[y] \in Nat /\ equery.heur[y] <= B(y)[t]
    BY DEF IsEdgeQuery, EdgeAdmissible, EdgeFrom
  <1>3. EdgeCost[t] \in 0..Inf /\ EdgeCost[t] < Inf BY <1>0, EdgeCostFacts DEF EdgeCost, Within
  <1>4. ASSUME NEW y \in E PROVE B(y)[t] \in 0..Inf BY <1>0, EdgeFromFacts
  <1>5. ASSUME NEW r \in eq, r.d + B(r.e)[t] <= EdgeCost[t]
        PROVE  r.key <= EdgeCost[t] \/ r.key <= low
    <2>1. EdgeEntry(r) BY DEF EdgeEntries
    <2>2. r.e \in E /\ r.d \in Nat /\ r.key \in Nat
          /\ (r.key = r.d + equery.heur[r.e] \/ r.key <= low)
      BY <2>1 DEF EdgeEntry, EdgeEntryAt, KeysFit
    <2>3. equery.heur[r.e] \in Nat /\ equery.heur[r.e] <= B(r.e)[t] /\ B(r.e)[t] \in 0..Inf
      BY <2>2, <1>2, <1>4
    <2> HIDE DEF B
    <2> QED BY <2>2, <2>3, <1>3, <1>5
  <1>6. ASSUME NEW y \in E, equery.heur[y] >= Inf, B(y)[t] <= EdgeCost[t] PROVE FALSE
    <2>1. equery.heur[y] \in Nat /\ equery.heur[y] <= B(y)[t] /\ B(y)[t] \in 0..Inf
      BY <1>2, <1>4
    <2> HIDE DEF B
    <2> QED BY <2>1, <1>3, <1>6, InfAssumption
  <1>7. t \notin DOMAIN esettled OBVIOUS
  <1> QED BY <1>1, <1>5, <1>6, <1>7 DEF EdgeCovered

\* In a search for each target keys are as they were entered, and an edge is
\* settled once, at what it costs.
EdgeOrdered ==
  Each(equery) =>
    /\ \A r \in eq : r.key = r.d + equery.heur[r.e]
    /\ \A e \in DOMAIN esettled : esettled[e].d = EdgeCost[e] /\ Within(equery, EdgeCost[e])

\* efound counts the targets settled; a search for one ends with the first.
EdgeCounted ==
  IF Each(equery) THEN efound = Cardinality(DOMAIN esettled \cap equery.dst)
  ELSE efound = 0 /\ DOMAIN esettled \cap Targets(equery) = {}

\* No key taken was above the cost of a target that is out.
LowBelow ==
  ~ToAll(equery) =>
    \A t \in equery.dst \ DOMAIN esettled : Within(equery, EdgeCost[t]) => low <= EdgeCost[t]

\* What holds while a search with targets runs that promises costs.
EdgeLoop == EdgeFrontier /\ KeysFit /\ EdgeOrdered /\ EdgeCounted /\ LowBelow

\* The costs known are those of the settled edges.
CostsFit ==
  costs = [e \in IF ToAll(equery) THEN DOMAIN esettled ELSE equery.dst |->
             IF e \in DOMAIN esettled THEN esettled[e].d ELSE Inf]

\* Is there anything to search for?
HasTargets(q) == ToAll(q) \/ q.dst # {}

\* The types of a search that has begun.
EdgeTypes ==
  /\ equery \in EdgeQueries /\ EdgeEntries /\ CostsFit /\ low \in Nat
  /\ ~HasTargets(equery) => eq = {}

\* The assumption on queries.
LEMMA EdgeQueryIs == ASSUME NEW q \in EdgeQueries PROVE IsEdgeQuery(q) /\ q # NoEdgeQuery
  <1>1. IsEdgeQuery(q) BY EdgeQueriesAssumption DEF IsEdgeQuery
  <1>2. NoEdgeQuery.form = "none" BY DEF NoEdgeQuery
  <1>3. q.form # "none" BY <1>1 DEF IsEdgeQuery
  <1> QED BY <1>1, <1>2, <1>3

\* While a target is out there is an entry with no higher a key.
LEMMA TargetKeysBelow ==
  ASSUME EdgeTypes, EdgeLoop, Promises(equery), ~ToAll(equery),
         NEW t \in equery.dst, t \notin DOMAIN esettled, Within(equery, EdgeCost[t])
  PROVE  \E r \in eq : r.key <= EdgeCost[t]
  <1>1. IsEdgeQuery(equery) BY EdgeQueryIs DEF EdgeTypes
  <1>2. PICK r \in eq : r.key <= EdgeCost[t] \/ r.key <= low
    BY <1>1, EdgeKeysBelow DEF EdgeTypes, EdgeLoop, Promises, EdgeUsable
  <1>3. low <= r.key /\ r.key \in Nat BY DEF EdgeTypes, EdgeEntries, EdgeEntry, EdgeEntryAt
  <1>4. low <= EdgeCost[t] BY DEF EdgeLoop, LowBelow
  <1>5. EdgeCost[t] \in 0..Inf
    <2>1. t \in equery.net.edges BY <1>1 DEF IsEdgeQuery
    <2> QED BY <2>1, <1>1, EdgeCostFacts DEF EdgeCost
  <1>6. low \in Nat BY DEF EdgeTypes
  <1>7. r.key <= EdgeCost[t] BY <1>2, <1>3, <1>4, <1>5, <1>6
  <1> QED BY <1>7

\* What is not out of reach costs no more than ways may.
LEMMA TakenIsWithin ==
  ASSUME IsEdgeQuery(equery), Promises(equery), ~ToAll(equery),
         NEW r, EdgeEntry(r), ~OutOfReach(r)
  PROVE  Within(equery, r.d) /\ r.key < Inf
  <1>1. r.e \in equery.net.edges /\ r.d \in Nat /\ r.dwi \in Nat /\ r.key \in Nat
        /\ r.d + equery.heur[r.e] <= r.key
    BY DEF EdgeEntry, EdgeEntryAt
  <1>2. equery.heur[r.e] \in Nat BY <1>1 DEF IsEdgeQuery
  <1>3. r.key < Inf BY <1>1, InfAssumption DEF OutOfReach, ToAll
  <1>4. r.d < Inf BY <1>1, <1>2, <1>3, InfAssumption
  <1>5. ASSUME Inits(equery), equery.stall < Inf, NEW v \in equery.src
        PROVE  r.d < equery.init[v] + equery.stall
    <2>1. equery.stall \in Nat BY DEF IsEdgeQuery
    <2>2. PICK s : equery.src = {s} BY <1>5, <2>1, InfAssumption DEF Promises
    <2>3. r.d = equery.init[s] + r.dwi BY <1>5, <2>2 DEF EdgeEntry, EdgeEntryAt, Promises
    <2>4. ~ (equery.stall <= r.dwi) BY <1>5 DEF OutOfReach
    <2>5. v = s /\ equery.init[v] \in Nat BY <1>5, <2>2 DEF IsEdgeQuery
    <2> QED BY <2>1, <2>3, <2>4, <2>5, <1>1
  <1> QED BY <1>3, <1>4, <1>5 DEF Within

\* With a consistent heuristic what is settled costs what the cheapest way costs.
LEMMA EdgeTopIsExact ==
  ASSUME IsEdgeQuery(equery), EdgeEntries, EdgeFrontier, Promises(equery), Each(equery),
         \A e \in eq : e.key = e.d + equery.heur[e.e],
         NEW r \in ETops, ~OutOfReach(r), ~EStale(r)
  PROVE  r.d = EdgeCost[r.e] /\ Within(equery, EdgeCost[r.e])
  <1> DEFINE E == equery.net.edges
             B(y) == EdgeFrom(equery, y)
             x == r.e
  <1>0. ~ToAll(equery) /\ EdgeConsistent(equery)
    BY DEF Each, ToAll, Promises, EdgeUsable
  <1>1. r \in eq /\ EdgeEntry(r) /\ \A e \in eq : r.key <= e.key BY DEF ETops, EdgeEntries
  <1>2. x \in E /\ r.d \in Nat /\ r.key \in Nat /\ EdgeCost[x] <= r.d
    BY <1>1 DEF EdgeEntry, EdgeEntryAt, Promises
  <1>3. EdgeCost[x] \in 0..Inf BY <1>2, EdgeCostFacts DEF EdgeCost
  <1>4. r.key = r.d + equery.heur[x] /\ equery.heur[x] \in Nat BY <1>1, <1>2 DEF IsEdgeQuery
  <1>5. Within(equery, r.d) /\ r.key < Inf BY <1>0, <1>1, TakenIsWithin
  <1>6. ASSUME EdgeCost[x] < r.d PROVE FALSE
    <2>1. Within(equery, EdgeCost[x])
      <3>1. EdgeCost[x] < Inf BY <1>2, <1>3, <1>5, <1>6, InfAssumption DEF Within
      <3>2. ASSUME NEW v \in equery.src, Inits(equery), equery.stall < Inf
            PROVE  EdgeCost[x] < equery.init[v] + equery.stall
        <4>1. r.d < equery.init[v] + equery.stall BY <1>5, <3>2 DEF Within
        <4>2. equery.init[v] + equery.stall \in Nat BY DEF IsEdgeQuery
        <4> QED BY <4>1, <4>2, <1>2, <1>3, <1>6
      <3> QED BY <3>1, <3>2 DEF Within
    <2>2. EdgeCovered(x, EdgeCost[x]) BY <1>2, <2>1, EdgeCovers
    <2>3. ASSUME NEW y \in E, B(y)[x] <= EdgeCost[x]
          PROVE  B(y)[x] \in Nat /\ equery.heur[y] \in Nat
                 /\ equery.heur[y] <= B(y)[x] + equery.heur[x]
      <3>1. B(y)[x] \in 0..Inf BY <1>2, EdgeFromFacts
      <3>2. B(y)[x] < Inf
        <4> HIDE DEF B, x
        <4> QED BY <3>1, <2>3, <1>2, <1>3, <1>5, <1>6, InfAssumption DEF Within
      <3>3. equery.heur[y] <= B(y)[x] + equery.heur[x]
        BY <3>2, <1>0, <1>2, EdgeHeurFalls
      <3> QED BY <3>1, <3>3 DEF IsEdgeQuery
    <2>4. CASE x \in DOMAIN esettled /\ esettled[x].d <= EdgeCost[x]
      <3>1. esettled[x].d \in Nat BY <2>4 DEF EdgeEntries, EdgeEntry, EdgeEntryAt
      <3>2. esettled[x].d <= r.d BY <3>1, <2>4, <1>2, <1>3
      <3> QED BY <3>2, <2>4 DEF EStale
    <2>5. ASSUME NEW e \in eq, e.d + B(e.e)[x] <= EdgeCost[x] PROVE FALSE
      <3>1. e.e \in E /\ e.d \in Nat /\ e.key = e.d + equery.heur[e.e] /\ r.key <= e.key
        BY <1>1 DEF EdgeEntries, EdgeEntry, EdgeEntryAt
      <3>2. B(e.e)[x] \in 0..Inf BY <3>1, <1>2, EdgeFromFacts
      <3>3. B(e.e)[x] <= EdgeCost[x]
        <4> HIDE DEF B, x
        <4> QED BY <3>1, <3>2, <2>5, <1>3
      <3>4. equery.heur[e.e] \in Nat /\ equery.heur[e.e] <= B(e.e)[x] + equery.heur[x]
        BY <3>1, <3>3, <2>3
      <3> HIDE DEF B, x
      <3> QED BY <3>1, <3>2, <3>4, <2>5, <1>2, <1>3, <1>4, <1>6
    <2>6. ASSUME NEW y \in E, equery.heur[y] >= Inf, B(y)[x] <= EdgeCost[x] PROVE FALSE
      <3>1. B(y)[x] \in Nat /\ equery.heur[y] \in Nat
            /\ equery.heur[y] <= B(y)[x] + equery.heur[x]
        BY <2>3, <2>6
      <3> HIDE DEF B, x
      <3> QED BY <3>1, <2>6, <1>2, <1>3, <1>4, <1>5, <1>6, InfAssumption
    <2> QED BY <2>2, <2>4, <2>5, <2>6 DEF EdgeCovered
  <1>7. r.d = EdgeCost[x] BY <1>2, <1>3, <1>6
  <1> QED BY <1>5, <1>7

-----------------------------------------------------------------------------
(* EdgeDijkstra: what is queued behind an edge. *)

\* The key of an entry that is put into the queue when keys are at l.
RaisedTo(k, l) == IF k < l THEN l ELSE k

\* What Raised makes of an entry.
LEMMA RaisedIs ==
  ASSUME NEW rs, NEW l, NEW f \in Raised(rs, l), \A g \in rs : g.key \in Nat
  PROVE  \E g \in rs : f = [g EXCEPT !.key = RaisedTo(g.key, l)]
  BY DEF Raised, RaisedTo

\* An entry at one of the ends of r's edge.
EntryBehind(r, x, g) ==
  [e |-> g, parent |-> IF equery.form = "first" THEN r.parent ELSE r.e,
   n |-> Via(r, x), d |-> LeaveCost(r, x) + g.c,
   dwi |-> r.dwi + IF Inits(equery) THEN g.c ELSE 0,
   key |-> LeaveCost(r, x) + g.c + equery.heur[g]]

\* And what an entry for edge g at x is guarded by.
Leads(r, x, g) ==
  /\ x \in EndsOf(equery, r.e) /\ g \in AdjOut(equery.net, x) /\ g # r.e
  /\ TurnCost(equery, r.e, g) < Inf /\ r.d + g.c < Inf /\ equery.heur[g] < Inf
  /\ Inits(equery) => r.dwi + g.c < equery.stall

\* The entries of a search forward.
LEMMA PushedForward ==
  ASSUME equery.form # "rev", NEW r
  PROVE  /\ \A p \in Pushed(r) : \E x, g : Leads(r, x, g) /\ p = EntryBehind(r, x, g)
         /\ \A x, g : Leads(r, x, g) => EntryBehind(r, x, g) \in Pushed(r)
  <1>1. Pushed(r) = UNION {RelaxedAt(r, x) : x \in LeaveAt(r.e)} BY DEF Pushed
  <1>2. LeaveAt(r.e) = EndsOf(equery, r.e) BY DEF LeaveAt, EndsOf
  <1>3. ASSUME NEW x
        PROVE  RelaxedAt(r, x) =
                 {EntryBehind(r, x, g) :
                    g \in {h \in AdjOut(equery.net, x) \ {r.e} :
                            /\ TurnCost(equery, r.e, h) < Inf
                            /\ r.d + h.c < Inf
                            /\ equery.heur[h] < Inf
                            /\ Inits(equery) => r.dwi + h.c < equery.stall}}
    BY DEF RelaxedAt, EntryBehind
  <1>4. ASSUME NEW p \in Pushed(r) PROVE \E x, g : Leads(r, x, g) /\ p = EntryBehind(r, x, g)
    <2>1. PICK x \in EndsOf(equery, r.e) : p \in RelaxedAt(r, x) BY <1>1, <1>2
    <2> HIDE DEF EntryBehind
    <2> QED BY <2>1, <1>3 DEF Leads
  <1>5. ASSUME NEW x, NEW g, Leads(r, x, g) PROVE EntryBehind(r, x, g) \in Pushed(r)
    <2>1. EntryBehind(r, x, g) \in RelaxedAt(r, x) BY <1>3, <1>5 DEF Leads
    <2> QED BY <2>1, <1>1, <1>2, <1>5 DEF Leads
  <1> QED BY <1>4, <1>5

\* An edge an entry leads to is a step away, and all steps are led to.
LEMMA LeadsIs ==
  ASSUME IsEdgeQuery(equery), NEW r, r.e \in equery.net.edges
  PROVE  /\ \A x, g : Leads(r, x, g) =>
              \E s \in EdgeSteps(equery) : s.from = r.e /\ s.to = g /\ s.c = g.c
         /\ \A s \in EdgeSteps(equery) : s.from = r.e =>
              /\ \A x \in EndsOf(equery, r.e) :
                   /\ s.to \in AdjOut(equery.net, x)
                   /\ r.d + s.c < Inf /\ s.c < Inf /\ equery.heur[s.to] < Inf
                   /\ Inits(equery) => r.dwi + s.c < equery.stall
                   => Leads(r, x, s.to)
              /\ \E x \in EndsOf(equery, r.e) : s.to \in AdjOut(equery.net, x)
  <1>1. ASSUME NEW x, NEW g, Leads(r, x, g)
        PROVE  \E s \in EdgeSteps(equery) : s.from = r.e /\ s.to = g /\ s.c = g.c
    <2>1. g \in equery.net.edges BY <1>1 DEF Leads, AdjOut
    <2>2. <<r.e, g>> \notin equery.ban BY <1>1, InfAssumption DEF Leads, TurnCost
    <2> QED BY <1>1, <2>1, <2>2, EdgeStepsAre DEF Leads
  <1>2. ASSUME NEW s \in EdgeSteps(equery), s.from = r.e,
               NEW x \in EndsOf(equery, r.e), s.to \in AdjOut(equery.net, x),
               r.d + s.c < Inf, s.c < Inf, equery.heur[s.to] < Inf,
               Inits(equery) => r.dwi + s.c < equery.stall
        PROVE  Leads(r, x, s.to)
    <2>1. s.c = s.to.c /\ s.from # s.to /\ <<s.from, s.to>> \notin equery.ban
      BY EdgeStepsAre
    <2> QED BY <2>1, <1>2 DEF Leads, TurnCost
  <1>3. \A s \in EdgeSteps(equery) : s.from = r.e =>
          \E x \in EndsOf(equery, r.e) : s.to \in AdjOut(equery.net, x)
    BY EdgeStepsAre
  <1> QED BY <1>1, <1>2, <1>3

\* In a search backward.
LEMMA PushedBackward ==
  ASSUME IsEdgeQuery(equery), equery.form = "rev", NEW r, EdgeEntry(r), NEW p \in Pushed(r)
  PROVE  EdgeEntry(p) /\ p.key = 0 /\ p.e \in equery.net.edges
  <1>1. PICK f \in AdjIn(equery.net, r.e.from) :
          /\ p = [e |-> f, parent |-> r.e, n |-> r.e.from, d |-> r.d + r.e.c, dwi |-> 0, key |-> 0]
          /\ r.d + r.e.c < Inf
    BY DEF Pushed, RelaxedInv
  <1>2. f \in equery.net.edges BY DEF AdjIn
  <1>3. r.d \in Nat /\ r.e \in equery.net.edges BY DEF EdgeEntry, EdgeEntryAt
  <1>4. r.e.c \in Nat BY <1>3 DEF IsEdgeQuery, IsNet
  <1>5. p.e = f /\ p.d = r.d + r.e.c /\ p.dwi = 0 /\ p.key = 0 BY <1>1
  <1>6. ToAll(equery) /\ ~Inits(equery) BY DEF ToAll, Inits
  <1>7. p.d \in Nat /\ p.d < Inf /\ 0 <= p.d BY <1>1, <1>3, <1>4, <1>5
  <1> QED BY <1>2, <1>5, <1>6, <1>7 DEF EdgeEntry, EdgeEntryAt

\* Forward: an entry for the end of a step, with the cost of it.
LEMMA BehindIs ==
  ASSUME IsEdgeQuery(equery), equery.form # "rev", NEW r, EdgeEntry(r),
         NEW x, NEW g, Leads(r, x, g)
  PROVE  /\ EdgeEntry(EntryBehind(r, x, g))
         /\ EntryBehind(r, x, g).key
              = EntryBehind(r, x, g).d + equery.heur[EntryBehind(r, x, g).e]
         /\ \E s \in EdgeSteps(equery) :
              /\ s.from = r.e /\ s.to = EntryBehind(r, x, g).e /\ s.c \in Nat
              /\ (Inits(equery) => equery.net.directed) => EntryBehind(r, x, g).d = r.d + s.c
  <1> DEFINE p == EntryBehind(r, x, g)
             k == LeaveCost(r, x)
  <1>1. /\ p.e = g /\ p.d = k + g.c /\ p.dwi = r.dwi + IF Inits(equery) THEN g.c ELSE 0
        /\ p.key = k + g.c + equery.heur[g]
    BY DEF EntryBehind
  <1> HIDE DEF p
  <1>2. r.e \in equery.net.edges /\ r.d \in Nat /\ r.dwi \in Nat /\ r.dwi <= r.d
        /\ EdgeCost[r.e] <= r.d
    BY DEF EdgeEntry, EdgeEntryAt
  <1>3. PICK s \in EdgeSteps(equery) : s.from = r.e /\ s.to = g /\ s.c = g.c BY <1>2, LeadsIs
  <1>4. s.to \in equery.net.edges /\ s.c \in Nat BY EdgeStepsAre DEF StepsOf
  <1>5. equery.heur[g] \in Nat BY <1>3, <1>4 DEF IsEdgeQuery
  <1>6. k \in Nat /\ r.d <= k
    BY <1>2 DEF LeaveCost
  <1>7. (Inits(equery) => equery.net.directed) => k = r.d
    <2> SUFFICES ASSUME Inits(equery), equery.net.directed PROVE k = r.d BY DEF LeaveCost
    <2>1. x = r.e.to BY DEF Leads, EndsOf
    <2> QED BY <2>1 DEF LeaveCost
  <1> HIDE DEF k
  <1>8. /\ EdgeCost[s.to] \in 0..Inf /\ EdgeCost[s.from] \in 0..Inf
        /\ EdgeCost[s.to] <= EdgeCost[s.from] + s.c
    BY <1>2, <1>3, <1>4, EdgeCostFacts DEF EdgeCost
  <1>9. p.d \in Nat /\ p.dwi \in Nat /\ p.dwi <= p.d /\ p.key \in Nat
        /\ p.key = p.d + equery.heur[g] /\ EdgeCost[p.e] <= p.d
    BY <1>1, <1>2, <1>3, <1>4, <1>5, <1>6, <1>8
  <1>10. (Inits(equery) => equery.net.directed) => p.d < Inf /\ p.d = r.d + s.c
    BY <1>1, <1>3, <1>7 DEF Leads
  <1>11. ASSUME Inits(equery), equery.net.directed, NEW v, equery.src = {v}
         PROVE  p.d = equery.init[v] + p.dwi
    <2>1. r.d = equery.init[v] + r.dwi BY <1>11 DEF EdgeEntry, EdgeEntryAt
    <2>2. equery.init[v] \in Nat BY <1>11 DEF IsEdgeQuery
    <2> QED BY <2>1, <2>2, <1>1, <1>2, <1>3, <1>4, <1>7, <1>11
  <1>12. EdgeEntry(p)
    <2>1. p.e \in equery.net.edges BY <1>1, <1>3, <1>4
    <2>2. p.d + equery.heur[p.e] <= p.key BY <1>1, <1>5, <1>9
    <2> QED BY <2>1, <2>2, <1>9, <1>10, <1>11 DEF EdgeEntry, EdgeEntryAt
  <1> QED BY <1>1, <1>3, <1>4, <1>9, <1>10, <1>12 DEF p

\* What is put into the queue behind r, with keys that are not below r's.
LEMMA RaisedEntries ==
  ASSUME IsEdgeQuery(equery), NEW r, EdgeEntry(r), NEW f \in Raised(Pushed(r), r.key)
  PROVE  /\ EdgeEntry(f) /\ r.key <= f.key
         /\ equery.form # "rev" =>
              /\ f.key = RaisedTo(f.d + equery.heur[f.e], r.key)
              /\ \E s \in EdgeSteps(equery) :
                   /\ s.from = r.e /\ s.to = f.e /\ s.c \in Nat
                   /\ (Inits(equery) => equery.net.directed) => f.d = r.d + s.c
  <1>1. r.key \in Nat BY DEF EdgeEntry, EdgeEntryAt
  <1>2. ASSUME NEW p, EdgeEntry(p), f = [p EXCEPT !.key = RaisedTo(p.key, r.key)],
               DOMAIN p = {"e", "parent", "n", "d", "dwi", "key"}
        PROVE  /\ EdgeEntry(f) /\ r.key <= f.key /\ f.e = p.e /\ f.d = p.d
               /\ f.key = RaisedTo(p.key, r.key)
    <2>1. f.e = p.e /\ f.d = p.d /\ f.dwi = p.dwi /\ f.key = RaisedTo(p.key, r.key)
      BY <1>2
    <2>2. p.key \in Nat /\ p.e \in equery.net.edges /\ p.d \in Nat
      BY <1>2 DEF EdgeEntry, EdgeEntryAt
    <2>3. f.key \in Nat /\ r.key <= f.key /\ p.key <= f.key
      BY <1>1, <2>1, <2>2 DEF RaisedTo
    <2>4. equery.heur[p.e] \in Nat BY <2>2 DEF IsEdgeQuery
    <2>5. ~ToAll(equery) => f.d + equery.heur[f.e] <= f.key
      BY <1>2, <2>1, <2>2, <2>3, <2>4 DEF EdgeEntry, EdgeEntryAt
    <2> QED BY <1>2, <2>1, <2>3, <2>5 DEF EdgeEntry, EdgeEntryAt
  <1>3. CASE equery.form = "rev"
    <2>1. \A p \in Pushed(r) : EdgeEntry(p) /\ p.key = 0 BY <1>3, PushedBackward
    <2>2. \A p \in Pushed(r) : DOMAIN p = {"e", "parent", "n", "d", "dwi", "key"}
      BY <1>3 DEF Pushed, RelaxedInv
    <2>3. PICK p \in Pushed(r) : f = [p EXCEPT !.key = RaisedTo(p.key, r.key)]
      BY <2>1, RaisedIs
    <2> QED BY <2>1, <2>2, <2>3, <1>2, <1>3
  <1>4. CASE equery.form # "rev"
    <2>1. \A p \in Pushed(r) : \E x, g : Leads(r, x, g) /\ p = EntryBehind(r, x, g)
      BY <1>4, PushedForward
    <2>2. ASSUME NEW p \in Pushed(r)
          PROVE  /\ EdgeEntry(p) /\ p.key = p.d + equery.heur[p.e]
                 /\ \E s \in EdgeSteps(equery) :
                      /\ s.from = r.e /\ s.to = p.e /\ s.c \in Nat
                      /\ (Inits(equery) => equery.net.directed) => p.d = r.d + s.c
                 /\ DOMAIN p = {"e", "parent", "n", "d", "dwi", "key"}
      <3>1. PICK x, g : Leads(r, x, g) /\ p = EntryBehind(r, x, g) BY <2>1
      <3>2. DOMAIN EntryBehind(r, x, g) = {"e", "parent", "n", "d", "dwi", "key"}
        BY DEF EntryBehind
      <3> QED BY <3>1, <3>2, <1>4, BehindIs
    <2>3. \A p \in Pushed(r) : p.key \in Nat BY <2>2 DEF EdgeEntry, EdgeEntryAt
    <2>4. PICK p \in Pushed(r) : f = [p EXCEPT !.key = RaisedTo(p.key, r.key)]
      BY <2>3, RaisedIs
    <2>5. /\ EdgeEntry(f) /\ r.key <= f.key /\ f.e = p.e /\ f.d = p.d
          /\ f.key = RaisedTo(p.key, r.key)
      BY <2>2, <2>4, <1>2
    <2> QED BY <2>2, <2>5
  <1> QED BY <1>3, <1>4

\* Every step from r but those that cost too much is among it.
LEMMA StepsPushed ==
  ASSUME IsEdgeQuery(equery), Promises(equery), NEW r, EdgeEntry(r),
         NEW s \in EdgeSteps(equery), s.from = r.e,
         Within(equery, r.d + s.c), equery.heur[s.to] < Inf
  PROVE  \E f \in Raised(Pushed(r), r.key) : f.e = s.to /\ f.d = r.d + s.c
  <1>0. equery.form # "rev" /\ (Inits(equery) => equery.net.directed) BY DEF Promises
  <1>1. r.e \in equery.net.edges /\ r.d \in Nat /\ r.dwi \in Nat /\ r.dwi <= r.d
    BY DEF EdgeEntry, EdgeEntryAt
  <1>2. s.c \in Nat BY EdgeStepsAre DEF StepsOf
  <1>3. r.d + s.c < Inf /\ s.c < Inf BY <1>1, <1>2, InfAssumption DEF Within
  <1>4. ASSUME Inits(equery) PROVE r.dwi + s.c < equery.stall
    <2>1. equery.stall \in Nat BY DEF IsEdgeQuery
    <2>2. CASE Inf <= equery.stall BY <2>1, <2>2, <1>1, <1>2, <1>3, InfAssumption
    <2>3. CASE ~ (Inf <= equery.stall)
      <3>1. PICK v : equery.src = {v} BY <1>4, <2>3 DEF Promises
      <3>2. r.d = equery.init[v] + r.dwi BY <3>1, <1>0, <1>4 DEF EdgeEntry, EdgeEntryAt
      <3>3. r.d + s.c < equery.init[v] + equery.stall
        BY <3>1, <2>1, <2>3, <1>4, InfAssumption DEF Within
      <3>4. equery.init[v] \in Nat BY <3>1 DEF IsEdgeQuery
      <3> QED BY <3>2, <3>3, <3>4, <2>1, <1>1, <1>2
    <2> QED BY <2>2, <2>3
  <1>5. PICK x : Leads(r, x, s.to) BY <1>1, <1>3, <1>4, LeadsIs
  <1> DEFINE p == EntryBehind(r, x, s.to)
             f == [p EXCEPT !.key = RaisedTo(p.key, r.key)]
  <1>6. p \in Pushed(r) BY <1>0, <1>5, PushedForward
  <1>7. f \in Raised(Pushed(r), r.key) BY <1>6 DEF Raised, RaisedTo
  <1>8. f.e = s.to /\ f.d = LeaveCost(r, x) + s.to.c BY DEF EntryBehind
  <1>9. LeaveCost(r, x) = r.d
    <2>1. Inits(equery) => x = r.e.to BY <1>0, <1>5 DEF Leads, EndsOf
    <2> QED BY <2>1 DEF LeaveCost
  <1>10. s.c = s.to.c BY EdgeStepsAre
  <1> HIDE DEF f, p
  <1> QED BY <1>7, <1>8, <1>9, <1>10

-----------------------------------------------------------------------------
(* EdgeDijkstra: an edge is settled. *)

\* What is settled, how many targets were, and whether this ends the search, once
\* r is settled.
EdgeDone(r) ==
  [e \in DOMAIN esettled \cup {r.e} |-> IF e = r.e THEN r ELSE esettled[e]]
EdgeHits(r) == efound + IF r.e \in Targets(equery) THEN 1 ELSE 0
EdgeIsLast(r) ==
  IF Each(equery) THEN EdgeHits(r) = Cardinality(equery.dst) ELSE EdgeHits(r) > 0

\* EdgeSettle, for the entry r it takes.
EdgeSettleBy(r) ==
  /\ r \in ETops /\ ~OutOfReach(r) /\ ~EStale(r) /\ equery' = equery /\ low' = r.key
  /\ esettled' = EdgeDone(r) /\ efound' = EdgeHits(r) /\ over' = EdgeIsLast(r)
  /\ costs' = IF r.e \in Targets(equery) \/ Targets(equery) = {}
              THEN [e \in DOMAIN costs \cup {r.e} |-> IF e = r.e THEN r.d ELSE costs[e]]
              ELSE costs
  /\ ~EdgeIsLast(r) => eq' = (eq \ {r}) \cup Raised(Pushed(r), r.key)
  /\ EdgeIsLast(r) => eq' = eq \ {r}

\* Every EdgeSettle is one of an entry.
LEMMA EdgeSettleHow == ASSUME EdgeSettle PROVE Searching /\ \E r : EdgeSettleBy(r)
  <1>1. PICK r \in ETops :
          /\ ~OutOfReach(r) /\ ~EStale(r) /\ low' = r.key
          /\ esettled' = EdgeDone(r) /\ efound' = EdgeHits(r) /\ over' = EdgeIsLast(r)
          /\ costs' = IF r.e \in Targets(equery) \/ Targets(equery) = {}
                      THEN [e \in DOMAIN costs \cup {r.e} |-> IF e = r.e THEN r.d ELSE costs[e]]
                      ELSE costs
          /\ eq' = (eq \ {r}) \cup IF EdgeIsLast(r) THEN {} ELSE Raised(Pushed(r), r.key)
    BY DEF EdgeSettle, EdgeDone, EdgeHits, EdgeIsLast
  <1>2. equery' = equery /\ Searching BY DEF EdgeSettle
  <1>3. ~EdgeIsLast(r) => eq' = (eq \ {r}) \cup Raised(Pushed(r), r.key) BY <1>1
  <1>4. EdgeIsLast(r) => eq' = eq \ {r} BY <1>1
  <1> QED BY <1>1, <1>2, <1>3, <1>4 DEF EdgeSettleBy

\* The searches without targets, and what targets are.
LEMMA TargetsAre == Targets(equery) = IF ToAll(equery) THEN {} ELSE equery.dst
  BY DEF Targets, ToAll

\* Types are kept.
LEMMA EdgeSettleTypes ==
  ASSUME EdgeTypes, EdgeSettle
  PROVE  EdgeTypes'
  <1>1. PICK r : EdgeSettleBy(r) BY EdgeSettleHow
  <1>2. equery' = equery /\ equery \in EdgeQueries /\ EdgeEntries /\ r \in eq
        /\ \A e \in eq : r.key <= e.key
    BY <1>1 DEF EdgeSettleBy, EdgeTypes, ETops
  <1>3. EdgeEntry(r) /\ r.key \in Nat BY <1>2 DEF EdgeEntries, EdgeEntry, EdgeEntryAt
  <1>4. EdgeCost' = EdgeCost /\ low' = r.key BY <1>1, <1>2 DEF EdgeCost, EdgeSettleBy
  <1>5. IsEdgeQuery(equery) BY <1>2, EdgeQueryIs
  <1>6. \A f \in Raised(Pushed(r), r.key) : EdgeEntry(f) /\ r.key <= f.key
    BY <1>3, <1>5, RaisedEntries
  <1>7. \A f \in eq' : EdgeEntry(f) /\ r.key <= f.key
    BY <1>1, <1>2, <1>6 DEF EdgeSettleBy, EdgeEntries
  <1>8. esettled' = EdgeDone(r) BY <1>1 DEF EdgeSettleBy
  <1>9. r.e \in equery.net.edges /\ DOMAIN esettled' = DOMAIN esettled \cup {r.e}
    BY <1>3, <1>8 DEF EdgeDone, EdgeEntry, EdgeEntryAt
  <1>10. ASSUME NEW e \in DOMAIN esettled'
         PROVE  EdgeEntryAt(equery, EdgeCost, esettled'[e]) /\ esettled'[e].e = e
    <2>1. CASE e = r.e
      <3>1. esettled'[e] = r BY <2>1, <1>8 DEF EdgeDone
      <3> QED BY <3>1, <2>1, <1>3 DEF EdgeEntry
    <2>2. CASE e # r.e
      <3>1. e \in DOMAIN esettled /\ esettled'[e] = esettled[e]
        BY <2>2, <1>8, <1>10 DEF EdgeDone
      <3>2. EdgeEntry(esettled[e]) /\ esettled[e].e = e BY <3>1, <1>2 DEF EdgeEntries
      <3> QED BY <3>1, <3>2 DEF EdgeEntry
    <2> QED BY <2>1, <2>2
  <1>11. EdgeEntries' BY <1>2, <1>4, <1>7, <1>9, <1>10 DEF EdgeEntries, EdgeEntry
  <1>12. HasTargets(equery) BY <1>2 DEF EdgeTypes
  <1>13. CostsFit'
    <2> DEFINE A == IF ToAll(equery) THEN DOMAIN esettled ELSE equery.dst
               B == IF ToAll(equery) THEN DOMAIN esettled' ELSE equery.dst
    <2>1. costs = [e \in A |-> IF e \in DOMAIN esettled THEN esettled[e].d ELSE Inf]
      BY DEF EdgeTypes, CostsFit
    <2>2. DOMAIN costs = A BY <2>1
    <2>3. \A e \in A : costs[e] = IF e \in DOMAIN esettled THEN esettled[e].d ELSE Inf
      BY <2>1
    <2>4. ASSUME NEW e, e # r.e
          PROVE  /\ e \in DOMAIN esettled' <=> e \in DOMAIN esettled
                 /\ e \in DOMAIN esettled => esettled'[e] = esettled[e]
      BY <2>4, <1>8 DEF EdgeDone
    <2>5. r.e \in DOMAIN esettled' /\ esettled'[r.e] = r BY <1>8 DEF EdgeDone
    <2>6. CASE r.e \in Targets(equery) \/ Targets(equery) = {}
      <3>1. costs' = [e \in DOMAIN costs \cup {r.e} |-> IF e = r.e THEN r.d ELSE costs[e]]
        BY <2>6, <1>1 DEF EdgeSettleBy
      <3>2. A \cup {r.e} = B
        BY <2>6, <1>9, <1>12, TargetsAre DEF HasTargets
      <3>3. \A e \in B : (IF e = r.e THEN r.d ELSE costs[e])
                          = IF e \in DOMAIN esettled' THEN esettled'[e].d ELSE Inf
        <4> HIDE DEF A, B
        <4> QED BY <2>3, <2>4, <2>5, <3>2
      <3> HIDE DEF A
      <3>4. costs' = [e \in B |-> IF e \in DOMAIN esettled' THEN esettled'[e].d ELSE Inf]
        BY <2>2, <3>1, <3>2, <3>3
      <3> QED BY <3>4, <1>2 DEF CostsFit, ToAll
    <2>7. CASE ~ (r.e \in Targets(equery) \/ Targets(equery) = {})
      <3>1. costs' = costs BY <2>7, <1>1 DEF EdgeSettleBy
      <3>2. A = B /\ r.e \notin B BY <2>7, TargetsAre
      <3>3. costs' = [e \in B |-> IF e \in DOMAIN esettled' THEN esettled'[e].d ELSE Inf]
        <4> HIDE DEF A, B
        <4>1. \A e \in B : (IF e \in DOMAIN esettled THEN esettled[e].d ELSE Inf)
                            = IF e \in DOMAIN esettled' THEN esettled'[e].d ELSE Inf
          BY <2>4, <3>2
        <4> QED BY <4>1, <2>1, <3>1, <3>2
      <3> QED BY <3>3, <1>2 DEF CostsFit, ToAll
    <2> QED BY <2>6, <2>7
  <1> QED BY <1>2, <1>3, <1>4, <1>11, <1>12, <1>13 DEF EdgeTypes, HasTargets, ToAll

\* No entry on top has a key above the cost of a target that is out.
LEMMA TopIsBelow ==
  ASSUME EdgeTypes, EdgeLoop, Promises(equery), ~ToAll(equery), NEW r \in ETops,
         NEW t \in equery.dst, t \notin DOMAIN esettled, Within(equery, EdgeCost[t])
  PROVE  r.key <= EdgeCost[t]
  <1>1. PICK e \in eq : e.key <= EdgeCost[t] BY TargetKeysBelow
  <1>2. r \in eq /\ r.key <= e.key BY DEF ETops
  <1>3. r.key \in Nat /\ e.key \in Nat
    BY <1>2 DEF EdgeTypes, EdgeEntries, EdgeEntry, EdgeEntryAt
  <1>4. IsEdgeQuery(equery) BY EdgeQueryIs DEF EdgeTypes
  <1>5. EdgeCost[t] \in 0..Inf
    <2>1. t \in equery.net.edges BY <1>4 DEF IsEdgeQuery
    <2> QED BY <2>1, <1>4, EdgeCostFacts DEF EdgeCost
  <1> QED BY <1>1, <1>2, <1>3, <1>5

\* A search for each target settles no edge twice.
LEMMA EdgeSettledOnce ==
  ASSUME EdgeTypes, EdgeLoop, Promises(equery), Each(equery), NEW r, EdgeSettleBy(r)
  PROVE  r.d = EdgeCost[r.e] /\ Within(equery, EdgeCost[r.e]) /\ r.e \notin DOMAIN esettled
  <1>1. IsEdgeQuery(equery) /\ r \in ETops /\ r \in eq
    BY EdgeQueryIs DEF EdgeTypes, EdgeSettleBy, ETops
  <1>2. r.d = EdgeCost[r.e] /\ Within(equery, EdgeCost[r.e])
    BY <1>1, EdgeTopIsExact DEF EdgeSettleBy, EdgeTypes, EdgeLoop, EdgeOrdered
  <1>3. r.d \in Nat BY <1>1 DEF EdgeTypes, EdgeEntries, EdgeEntry, EdgeEntryAt
  <1>4. r.e \in DOMAIN esettled => esettled[r.e].d = r.d BY <1>2 DEF EdgeLoop, EdgeOrdered
  <1>5. r.d <= r.d BY <1>3
  <1> QED BY <1>2, <1>4, <1>5 DEF EdgeSettleBy, EStale

\* Known ways stay known.
LEMMA EdgeSettleKeepsKnown ==
  ASSUME EdgeTypes, NEW r, EdgeSettleBy(r)
  PROVE  \A x, c : c \in Nat /\ EdgeKnown(x, c) => EdgeKnownIn(eq', esettled', x, c)
  <1>1. r \in eq /\ EdgeEntry(r) /\ esettled' = EdgeDone(r) /\ ~EStale(r)
    BY DEF EdgeSettleBy, ETops, EdgeTypes, EdgeEntries
  <1>2. eq \ {r} \subseteq eq' BY DEF EdgeSettleBy
  <1>3. r.d \in Nat BY <1>1 DEF EdgeEntry, EdgeEntryAt
  <1>4. r.e \in DOMAIN esettled' /\ esettled'[r.e] = r BY <1>1 DEF EdgeDone
  <1> SUFFICES ASSUME NEW x, NEW c \in Nat, EdgeKnown(x, c)
               PROVE  EdgeKnownIn(eq', esettled', x, c)
    OBVIOUS
  <1>5. CASE x \in DOMAIN esettled /\ esettled[x].d <= c /\ x # r.e
    <2>1. x \in DOMAIN esettled' /\ esettled'[x] = esettled[x] BY <1>1, <1>5 DEF EdgeDone
    <2> QED BY <2>1, <1>5 DEF EdgeKnownIn
  <1>6. CASE x \in DOMAIN esettled /\ esettled[x].d <= c /\ x = r.e
    <2>1. esettled[x].d \in Nat
      BY <1>6 DEF EdgeTypes, EdgeEntries, EdgeEntry, EdgeEntryAt
    <2>2. ~ (esettled[x].d <= r.d) BY <1>1, <1>6 DEF EStale
    <2>3. r.d <= c BY <2>1, <2>2, <1>3, <1>6
    <2> QED BY <2>3, <1>4, <1>6 DEF EdgeKnownIn
  <1>7. ASSUME NEW e \in eq, e.e = x, e.d <= c PROVE EdgeKnownIn(eq', esettled', x, c)
    <2>1. CASE e = r BY <2>1, <1>4, <1>7 DEF EdgeKnownIn
    <2>2. CASE e # r BY <2>2, <1>2, <1>7 DEF EdgeKnownIn
    <2> QED BY <2>1, <2>2
  <1> QED BY <1>5, <1>6, <1>7 DEF EdgeKnown, EdgeKnownIn

\* The steps from the edge settled are queued, so that the frontier stays whole.
LEMMA EdgeSettleFrontier ==
  ASSUME EdgeTypes, EdgeFrontier, Promises(equery), NEW r, EdgeSettleBy(r), ~EdgeIsLast(r)
  PROVE  EdgeFrontier'
  <1>1. r \in eq /\ EdgeEntry(r) /\ esettled' = EdgeDone(r) /\ equery' = equery
        /\ IsEdgeQuery(equery) /\ eq' = (eq \ {r}) \cup Raised(Pushed(r), r.key)
    BY EdgeQueryIs DEF EdgeSettleBy, ETops, EdgeTypes, EdgeEntries
  <1>2. r.d \in Nat BY <1>1 DEF EdgeEntry, EdgeEntryAt
  <1>3. \A x \in equery.src : EdgeKnownIn(eq', esettled', x, Begun(equery)[x])
    <2>1. \A x \in equery.src : Begun(equery)[x] \in Nat BY <1>1, EdgeCostFacts
    <2> QED BY <2>1, EdgeSettleKeepsKnown DEF EdgeFrontier
  <1>4. ASSUME NEW x \in DOMAIN esettled', NEW s \in EdgeSteps(equery), s.from = x,
               Within(equery, esettled'[x].d + s.c), equery.heur[s.to] < Inf
        PROVE  EdgeKnownIn(eq', esettled', s.to, esettled'[x].d + s.c)
    <2>0. s.c \in Nat BY <1>1, EdgeStepsAre DEF StepsOf
    <2>1. CASE x = r.e
      <3>1. esettled'[x] = r BY <2>1, <1>1 DEF EdgeDone
      <3>2. PICK f \in Raised(Pushed(r), r.key) : f.e = s.to /\ f.d = r.d + s.c
        BY <2>1, <3>1, <1>1, <1>4, StepsPushed
      <3>3. f \in eq' /\ f.d <= esettled'[x].d + s.c BY <3>1, <3>2, <1>1, <1>2, <2>0
      <3> QED BY <3>2, <3>3 DEF EdgeKnownIn
    <2>2. CASE x # r.e
      <3>1. x \in DOMAIN esettled /\ esettled'[x] = esettled[x]
        BY <2>2, <1>1, <1>4 DEF EdgeDone
      <3>2. esettled[x].d \in Nat
        BY <3>1 DEF EdgeTypes, EdgeEntries, EdgeEntry, EdgeEntryAt
      <3>3. EdgeKnown(s.to, esettled[x].d + s.c) BY <3>1, <1>4 DEF EdgeFrontier
      <3>4. esettled[x].d + s.c \in Nat BY <3>2, <2>0
      <3>5. EdgeKnownIn(eq', esettled', s.to, esettled[x].d + s.c)
        BY <3>3, <3>4, EdgeSettleKeepsKnown
      <3> QED BY <3>1, <3>5
    <2> QED BY <2>1, <2>2
  <1> QED BY <1>1, <1>3, <1>4 DEF EdgeFrontier, EdgeKnown

\* A consistent heuristic raises no key, and r is counted if it is a target.
LEMMA EdgeSettleLoop ==
  ASSUME EdgeTypes, EdgeLoop, Promises(equery), NEW r, EdgeSettleBy(r), ~EdgeIsLast(r)
  PROVE  EdgeLoop'
  <1>1. r \in ETops /\ r \in eq /\ EdgeEntry(r) /\ esettled' = EdgeDone(r) /\ equery' = equery
        /\ IsEdgeQuery(equery) /\ eq' = (eq \ {r}) \cup Raised(Pushed(r), r.key)
        /\ efound' = EdgeHits(r) /\ low' = r.key /\ low <= r.key /\ low \in Nat
    BY EdgeQueryIs DEF EdgeSettleBy, ETops, EdgeTypes, EdgeEntries
  <1>2. r.e \in equery.net.edges /\ r.d \in Nat /\ r.key \in Nat
    BY <1>1 DEF EdgeEntry, EdgeEntryAt
  <1>3. EdgeCost' = EdgeCost BY <1>1 DEF EdgeCost
  <1>4. DOMAIN esettled' = DOMAIN esettled \cup {r.e} BY <1>1 DEF EdgeDone
  <1>5. equery.form # "rev" /\ (Inits(equery) => equery.net.directed) BY DEF Promises
  <1>6. ASSUME NEW f \in Raised(Pushed(r), r.key)
        PROVE  /\ EdgeEntry(f) /\ f.key = RaisedTo(f.d + equery.heur[f.e], r.key)
               /\ f.d \in Nat /\ equery.heur[f.e] \in Nat
               /\ \E s \in EdgeSteps(equery) :
                    s.from = r.e /\ s.to = f.e /\ s.c \in Nat /\ f.d = r.d + s.c
    <2>1. /\ EdgeEntry(f) /\ f.key = RaisedTo(f.d + equery.heur[f.e], r.key)
          /\ \E s \in EdgeSteps(equery) :
               s.from = r.e /\ s.to = f.e /\ s.c \in Nat /\ f.d = r.d + s.c
      BY <1>1, <1>5, RaisedEntries
    <2>2. f.e \in equery.net.edges /\ f.d \in Nat BY <2>1 DEF EdgeEntry, EdgeEntryAt
    <2> QED BY <1>1, <2>1, <2>2 DEF IsEdgeQuery
  <1>7. EdgeFrontier' BY EdgeSettleFrontier DEF EdgeLoop
  <1>8. KeysFit'
    <2> SUFFICES ASSUME ~ToAll(equery), NEW f \in eq'
                 PROVE  f.key = f.d + equery.heur[f.e] \/ f.key <= r.key
      BY <1>1 DEF KeysFit, ToAll
    <2>1. CASE f \in eq
      <3>1. f.key = f.d + equery.heur[f.e] \/ f.key <= low
        BY <2>1 DEF EdgeLoop, KeysFit
      <3>2. f.key \in Nat BY <2>1 DEF EdgeTypes, EdgeEntries, EdgeEntry, EdgeEntryAt
      <3> QED BY <3>1, <3>2, <1>1, <1>2
    <2>2. CASE f \notin eq
      <3>1. f.key = RaisedTo(f.d + equery.heur[f.e], r.key) BY <2>2, <1>1, <1>6
      <3> QED BY <3>1, <1>2 DEF RaisedTo
    <2> QED BY <2>1, <2>2
  <1>9. EdgeOrdered'
    <2> SUFFICES ASSUME Each(equery)
                 PROVE  /\ \A f \in eq' : f.key = f.d + equery.heur[f.e]
                        /\ \A e \in DOMAIN esettled' :
                             esettled'[e].d = EdgeCost[e] /\ Within(equery, EdgeCost[e])
      BY <1>1, <1>3 DEF EdgeOrdered
    <2>1. r.d = EdgeCost[r.e] /\ Within(equery, EdgeCost[r.e]) BY EdgeSettledOnce
    <2>2. EdgeConsistent(equery) BY DEF Promises, EdgeUsable
    <2>3. r.key = r.d + equery.heur[r.e] /\ equery.heur[r.e] \in Nat
      BY <1>1, <1>2 DEF EdgeLoop, EdgeOrdered, IsEdgeQuery
    <2>4. ASSUME NEW f \in eq' PROVE f.key = f.d + equery.heur[f.e]
      <3>1. CASE f \in eq BY <3>1 DEF EdgeLoop, EdgeOrdered
      <3>2. CASE f \notin eq
        <4>1. f \in Raised(Pushed(r), r.key) BY <3>2, <1>1
        <4>2. PICK s \in EdgeSteps(equery) :
                s.from = r.e /\ s.to = f.e /\ s.c \in Nat /\ f.d = r.d + s.c
          BY <4>1, <1>6
        <4>3. equery.heur[r.e] <= s.c + equery.heur[f.e] BY <2>2, <4>2 DEF EdgeConsistent
        <4>4. equery.heur[f.e] \in Nat /\ f.key = RaisedTo(f.d + equery.heur[f.e], r.key)
          BY <4>1, <1>6
        <4>5. ~ (f.d + equery.heur[f.e] < r.key) BY <4>2, <4>3, <4>4, <2>3, <1>2
        <4> QED BY <4>4, <4>5 DEF RaisedTo
      <3> QED BY <3>1, <3>2
    <2>5. ASSUME NEW e \in DOMAIN esettled'
          PROVE  esettled'[e].d = EdgeCost[e] /\ Within(equery, EdgeCost[e])
      <3>1. CASE e = r.e
        <4>1. esettled'[e] = r BY <3>1, <1>1 DEF EdgeDone
        <4> QED BY <4>1, <3>1, <2>1
      <3>2. CASE e # r.e
        <4>1. e \in DOMAIN esettled /\ esettled'[e] = esettled[e]
          BY <3>2, <1>1, <2>5 DEF EdgeDone
        <4> QED BY <4>1 DEF EdgeLoop, EdgeOrdered
      <3> QED BY <3>1, <3>2
    <2> QED BY <2>4, <2>5
  <1>10. EdgeCounted'
    <2>1. CASE Each(equery)
      <3>0. Targets(equery) = equery.dst BY <2>1 DEF Targets, Each
      <3>1. r.e \notin DOMAIN esettled BY <2>1, EdgeSettledOnce
      <3>2. efound = Cardinality(DOMAIN esettled \cap equery.dst)
        BY <2>1 DEF EdgeLoop, EdgeCounted
      <3>3. IsFiniteSet(DOMAIN esettled \cap equery.dst)
        <4>1. IsFiniteSet(equery.net.edges) /\ equery.dst \subseteq equery.net.edges
          BY <1>1 DEF IsEdgeQuery
        <4>2. DOMAIN esettled \cap equery.dst \subseteq equery.net.edges BY <4>1
        <4> QED BY <4>1, <4>2, FS_Subset
      <3>4. CASE r.e \in equery.dst
        <4>1. DOMAIN esettled' \cap equery.dst = (DOMAIN esettled \cap equery.dst) \cup {r.e}
          BY <1>4, <3>4
        <4>2. r.e \notin DOMAIN esettled \cap equery.dst BY <3>1
        <4>3. Cardinality(DOMAIN esettled' \cap equery.dst)
                = Cardinality(DOMAIN esettled \cap equery.dst) + 1
          BY <4>1, <4>2, <3>3, FS_AddElement
        <4>4. efound' = efound + 1 BY <3>0, <3>4, <1>1 DEF EdgeHits
        <4> QED BY <4>3, <4>4, <3>2, <2>1, <1>1 DEF EdgeCounted, Each
      <3>5. CASE r.e \notin equery.dst
        <4>1. DOMAIN esettled' \cap equery.dst = DOMAIN esettled \cap equery.dst
          BY <1>4, <3>5
        <4>2. efound \in Nat BY <3>2, <3>3, FS_CardinalityType
        <4>3. efound' = efound BY <4>2, <3>0, <3>5, <1>1 DEF EdgeHits
        <4> QED BY <4>1, <4>3, <3>2, <2>1, <1>1 DEF EdgeCounted, Each
      <3> QED BY <3>4, <3>5
    <2>2. CASE ~Each(equery)
      <3>1. efound = 0 /\ DOMAIN esettled \cap Targets(equery) = {}
        BY <2>2 DEF EdgeLoop, EdgeCounted
      <3>2. r.e \notin Targets(equery) BY <2>2, <3>1 DEF EdgeIsLast, EdgeHits
      <3>3. DOMAIN esettled' \cap Targets(equery) = {} BY <3>1, <3>2, <1>4
      <3>4. efound' = 0 BY <3>1, <3>2, <1>1 DEF EdgeHits
      <3> QED BY <3>3, <3>4, <2>2, <1>1 DEF EdgeCounted, Each, Targets
    <2> QED BY <2>1, <2>2
  <1>11. LowBelow'
    <2> SUFFICES ASSUME ~ToAll(equery), NEW t \in equery.dst, t \notin DOMAIN esettled',
                        Within(equery, EdgeCost[t])
                 PROVE  r.key <= EdgeCost[t]
      BY <1>1, <1>3 DEF LowBelow, ToAll
    <2>1. t \notin DOMAIN esettled BY <1>4
    <2> QED BY <2>1, <1>1, TopIsBelow
  <1> QED BY <1>7, <1>8, <1>9, <1>10, <1>11 DEF EdgeLoop

-----------------------------------------------------------------------------
(* EdgeDijkstra: what is returned. *)

\* EdgeShortest, of costs: bounds in any case, and costs where they are promised.
EdgeRight(cs) ==
  /\ Each(equery) => \A t \in equery.dst : EdgeCost[t] <= cs[t]
  /\ Promises(equery) =>
       /\ equery.form = "set" => NearestCost(cs, equery.dst) = NearestCost(EdgeCost, equery.dst)
       /\ equery.form = "all" =>
            LET near == {e \in equery.net.edges : EdgeCost[e] < Inf}
            IN cs = [e \in near \cup equery.src |->
                       IF e \in near THEN EdgeCost[e] ELSE FirstCost(equery, e)]
       /\ Each(equery) => \A t \in equery.dst :
            cs[t] = IF Within(equery, EdgeCost[t]) THEN EdgeCost[t] ELSE Inf

\* The nearest of some edges is as far as the nearest of them.
LEMMA NearestCostIs ==
  ASSUME NEW ts, NEW D, NEW m \in Nat, \A t \in ts : D[t] \in Nat /\ m <= D[t],
         m = Inf \/ (m < Inf /\ \E t \in ts : D[t] = m)
  PROVE  NearestCost(D, ts) = m
  <1> DEFINE A == {D[x] : x \in ts} \cup {Inf}
  <1>1. A \subseteq Nat /\ Inf \in A BY InfAssumption
  <1>2. m \in A /\ \A k \in A : m <= k BY InfAssumption
  <1>3. NearestCost(D, ts) = Min(A) BY DEF NearestCost
  <1> HIDE DEF A
  <1>4. Min(A) \in A /\ \A k \in A : Min(A) <= k BY <1>1, LeastIn
  <1>5. Min(A) \in Nat /\ Min(A) <= m /\ m <= Min(A) BY <1>1, <1>2, <1>4
  <1> QED BY <1>3, <1>5

\* Right costs make EdgeShortest hold.
LEMMA RightIsEdgeShortest ==
  ASSUME IsEdgeQuery(equery), equery' = equery,
         Returned' /\ equery.form # "rev" => EdgeRight(costs')
  PROVE  EdgeShortest'
  <1> DEFINE near == {e \in equery.net.edges : EdgeCost[e] < Inf}
  <1>1. SUFFICES ASSUME Returned', equery.form # "rev", EdgeUsable(equery),
                        Inits(equery) => equery.net.directed
                 PROVE  /\ equery.form = "set" =>
                             NearestCost(costs', equery.dst) = NearestCost(EdgeCost, equery.dst)
                        /\ equery.form = "all" =>
                             costs' = [e \in near \cup equery.src |->
                                         IF e \in near THEN EdgeCost[e] ELSE FirstCost(equery, e)]
                        /\ Each(equery) => \A t \in equery.dst :
                             /\ costs'[t] >= EdgeCost[t]
                             /\ ~Inits(equery) \/ equery.stall >= Inf => costs'[t] = EdgeCost[t]
                             /\ \A s \in equery.src : Inits(equery) /\ equery.src = {s} =>
                                  costs'[t] = IF EdgeCost[t] - equery.init[s] < equery.stall
                                              THEN EdgeCost[t] ELSE Inf
    <2>1. /\ Each(equery) => equery.form \in {"many", "init", "first"}
          /\ equery.form \in {"set", "all", "rev"} \/ Each(equery)
      BY DEF Each, IsEdgeQuery
    <2> HIDE DEF near
    <2> QED BY <1>1, <2>1 DEF EdgeShortest, EdgeCost, near
  <1>2. EdgeRight(costs') BY <1>1
  <1>3. equery.stall \in Nat BY DEF IsEdgeQuery
  <1>4. ~Inits(equery) \/ equery.stall >= Inf \/ (\E s : equery.src = {s}) => Promises(equery)
    BY <1>1, <1>3, InfAssumption DEF Promises
  <1>5. equery.form \in {"set", "all"} => Promises(equery) BY <1>4 DEF Inits
  <1>6. ASSUME Each(equery), NEW t \in equery.dst
        PROVE  /\ costs'[t] >= EdgeCost[t]
               /\ ~Inits(equery) \/ equery.stall >= Inf => costs'[t] = EdgeCost[t]
               /\ \A s \in equery.src : Inits(equery) /\ equery.src = {s} =>
                    costs'[t] = IF EdgeCost[t] - equery.init[s] < equery.stall
                                THEN EdgeCost[t] ELSE Inf
    <2>0. t \in equery.net.edges BY DEF IsEdgeQuery
    <2>1. EdgeCost[t] \in 0..Inf BY <2>0, EdgeCostFacts DEF EdgeCost
    <2>2. EdgeCost[t] <= costs'[t] BY <1>2, <1>6 DEF EdgeRight
    <2>3. Promises(equery) =>
            costs'[t] = IF Within(equery, EdgeCost[t]) THEN EdgeCost[t] ELSE Inf
      BY <1>2, <1>6 DEF EdgeRight
    <2>4. ASSUME ~Inits(equery) \/ equery.stall >= Inf PROVE costs'[t] = EdgeCost[t]
      <3>1. Promises(equery) BY <2>4, <1>4
      <3>2. Within(equery, EdgeCost[t]) <=> EdgeCost[t] < Inf
        BY <2>4, <1>3, InfAssumption DEF Within
      <3> QED BY <3>1, <3>2, <2>1, <2>3, InfAssumption
    <2>5. ASSUME NEW s \in equery.src, Inits(equery), equery.src = {s}
          PROVE  costs'[t] = IF EdgeCost[t] - equery.init[s] < equery.stall
                             THEN EdgeCost[t] ELSE Inf
      <3>1. Promises(equery) /\ equery.init[s] \in Nat BY <2>5, <1>4 DEF IsEdgeQuery
      <3>2. Within(equery, EdgeCost[t]) <=>
              EdgeCost[t] < Inf
              /\ (equery.stall < Inf => EdgeCost[t] < equery.init[s] + equery.stall)
        BY <2>5 DEF Within
      <3>3. CASE EdgeCost[t] < Inf
        <4>1. Within(equery, EdgeCost[t]) <=> EdgeCost[t] - equery.init[s] < equery.stall
          BY <3>1, <3>2, <3>3, <2>1, <1>3, InfAssumption
        <4> QED BY <4>1, <3>1, <2>3
      <3>4. CASE ~ (EdgeCost[t] < Inf)
        <4>1. EdgeCost[t] = Inf BY <3>4, <2>1, InfAssumption
        <4> QED BY <4>1, <3>1, <2>3
      <3> QED BY <3>3, <3>4
    <2>6. costs'[t] >= EdgeCost[t]
      <3> DEFINE c == costs'[t]
                 k == EdgeCost[t]
      <3>1. k <= c BY <2>2
      <3> HIDE DEF c, k
      <3>2. c >= k BY <3>1
      <3> QED BY <3>2 DEF c, k
    <2> QED BY <2>4, <2>5, <2>6
  <1> QED BY <1>2, <1>5, <1>6 DEF EdgeRight

\* Costs are never less than those of cheapest ways, whatever has been settled.
LEMMA CostsAreBounds ==
  ASSUME EdgeTypes', equery' = equery, equery.form # "rev", Each(equery)
  PROVE  \A t \in equery.dst : EdgeCost[t] <= costs'[t]
  <1>1. equery \in EdgeQueries /\ EdgeCost' = EdgeCost BY DEF EdgeTypes, EdgeCost
  <1>2. IsEdgeQuery(equery) /\ ~ToAll(equery) BY <1>1, EdgeQueryIs DEF Each, ToAll
  <1>3. ASSUME NEW t \in equery.dst PROVE EdgeCost[t] <= costs'[t]
    <2>1. costs' = [e \in equery.dst |-> IF e \in DOMAIN esettled' THEN esettled'[e].d ELSE Inf]
      BY <1>2 DEF EdgeTypes, CostsFit, ToAll
    <2>2. CASE t \in DOMAIN esettled'
      <3>1. EdgeEntryAt(equery, EdgeCost, esettled'[t]) /\ esettled'[t].e = t
        BY <2>2, <1>1 DEF EdgeTypes, EdgeEntries, EdgeEntry
      <3>2. EdgeCost[t] <= esettled'[t].d BY <3>1 DEF EdgeEntryAt
      <3> QED BY <2>1, <2>2, <3>2
    <2>3. CASE t \notin DOMAIN esettled'
      <3>1. t \in equery.net.edges BY <1>2 DEF IsEdgeQuery
      <3>2. EdgeCost[t] \in 0..Inf BY <3>1, <1>2, EdgeCostFacts DEF EdgeCost
      <3> QED BY <2>1, <2>3, <3>2, InfAssumption
    <2> QED BY <2>2, <2>3
  <1> QED BY <1>3

\* Without targets there is nothing to be wrong.
LEMMA NoEdgeTargetIsRight ==
  ASSUME ~HasTargets(equery), NEW cs
  PROVE  EdgeRight(cs)
  <1>1. equery.dst = {} /\ equery.form # "all" BY DEF HasTargets, ToAll
  <1>2. {cs[t] : t \in equery.dst} = {} /\ {EdgeCost[t] : t \in equery.dst} = {} BY <1>1
  <1>3. NearestCost(cs, equery.dst) = NearestCost(EdgeCost, equery.dst)
    BY <1>2 DEF NearestCost
  <1> QED BY <1>1, <1>3 DEF EdgeRight

\* What a search that gives up has not settled is out of reach.
LEMMA GiveUpOut ==
  ASSUME EdgeTypes, EdgeGiveUp, Promises(equery), EdgeLoop, ~ToAll(equery),
         NEW t \in equery.dst, t \notin DOMAIN esettled
  PROVE  ~Within(equery, EdgeCost[t])
  <1> SUFFICES ASSUME Within(equery, EdgeCost[t]) PROVE FALSE OBVIOUS
  <1>0. IsEdgeQuery(equery) BY EdgeQueryIs DEF EdgeTypes
  <1>1. PICK e \in eq : e.key <= EdgeCost[t] BY TargetKeysBelow
  <1>2. PICK r \in ETops : OutOfReach(r) BY <1>1 DEF EdgeGiveUp
  <1>3. r.key <= EdgeCost[t] BY TopIsBelow
  <1>4. r \in eq /\ EdgeEntry(r) BY <1>2 DEF ETops, EdgeTypes, EdgeEntries
  <1>5. r.e \in equery.net.edges /\ r.d \in Nat /\ r.dwi \in Nat /\ r.dwi <= r.d
        /\ r.key \in Nat /\ r.d + equery.heur[r.e] <= r.key
    BY <1>4 DEF EdgeEntry, EdgeEntryAt
  <1>6. equery.heur[r.e] \in Nat /\ equery.stall \in Nat BY <1>0, <1>5 DEF IsEdgeQuery
  <1>7. EdgeCost[t] \in 0..Inf /\ EdgeCost[t] < Inf
    <2>1. t \in equery.net.edges BY <1>0 DEF IsEdgeQuery
    <2> QED BY <2>1, <1>0, EdgeCostFacts DEF EdgeCost, Within
  <1>8. r.d <= EdgeCost[t] /\ r.key < Inf BY <1>3, <1>5, <1>6, <1>7, InfAssumption
  <1>9. Inits(equery) /\ equery.stall <= r.dwi
    BY <1>2, <1>5, <1>8, InfAssumption DEF OutOfReach
  <1>10. equery.stall < Inf BY <1>5, <1>6, <1>7, <1>8, <1>9, InfAssumption
  <1>11. PICK s : equery.src = {s} BY <1>6, <1>9, <1>10, InfAssumption DEF Promises
  <1>12. r.d = equery.init[s] + r.dwi /\ equery.init[s] \in Nat
    BY <1>0, <1>4, <1>9, <1>11 DEF EdgeEntry, EdgeEntryAt, Promises, IsEdgeQuery
  <1>13. EdgeCost[t] < equery.init[s] + equery.stall BY <1>9, <1>10, <1>11 DEF Within
  <1> QED BY <1>5, <1>6, <1>7, <1>8, <1>9, <1>12, <1>13

\* A search for all edges ends with the queue empty: then all in reach are settled.
LEMMA AllIsRight ==
  ASSUME EdgeTypes, EdgeGiveUp, Promises(equery), EdgeLoop, equery.form = "all"
  PROVE  EdgeRight(costs)
  <1> DEFINE E == equery.net.edges
             near == {e \in E : EdgeCost[e] < Inf}
             all == near \cup equery.src
  <1>0. IsEdgeQuery(equery) /\ ToAll(equery) /\ ~Inits(equery) /\ ~Each(equery)
    BY EdgeQueryIs DEF EdgeTypes, ToAll, Inits, Each
  <1>1. eq = {} BY <1>0 DEF EdgeGiveUp, OutOfReach, ToAll
  <1>2. costs = [e \in DOMAIN esettled |-> esettled[e].d]
    BY <1>0 DEF EdgeTypes, CostsFit
  <1>3. ASSUME NEW e \in DOMAIN esettled
        PROVE  /\ e \in E /\ esettled[e].d \in Nat /\ EdgeCost[e] \in 0..Inf
               /\ EdgeCost[e] <= esettled[e].d
               /\ esettled[e].d < Inf \/ (e \in equery.src /\ esettled[e].d = FirstCost(equery, e))
    <2>1. EdgeEntry(esettled[e]) /\ esettled[e].e = e BY <1>3 DEF EdgeTypes, EdgeEntries
    <2>2. /\ e \in E /\ esettled[e].d \in Nat /\ EdgeCost[e] <= esettled[e].d
          /\ esettled[e].d < Inf \/ (e \in equery.src /\ esettled[e].d = Begun(equery)[e])
      BY <2>1, <1>0 DEF EdgeEntry, EdgeEntryAt
    <2>3. EdgeCost[e] \in 0..Inf BY <2>2, <1>0, EdgeCostFacts DEF EdgeCost
    <2>4. e \in equery.src => Begun(equery)[e] = FirstCost(equery, e) BY <1>0 DEF Begun
    <2> QED BY <2>2, <2>3, <2>4
  <1>4. ASSUME NEW e \in near PROVE e \in DOMAIN esettled /\ esettled[e].d = EdgeCost[e]
    <2>1. Within(equery, EdgeCost[e]) BY <1>0, <1>4 DEF Within
    <2>2. EdgeCovered(e, EdgeCost[e])
      BY <2>1, <1>0, <1>4, EdgeCovers DEF EdgeTypes, EdgeLoop
    <2>3. ASSUME NEW y \in E PROVE ~ (equery.heur[y] >= Inf)
      <3>1. equery.heur[y] = 0 BY <1>0 DEF IsEdgeQuery, ToAll
      <3> QED BY <3>1, InfAssumption
    <2>4. e \in DOMAIN esettled /\ esettled[e].d <= EdgeCost[e]
      BY <2>2, <2>3, <1>1 DEF EdgeCovered
    <2> QED BY <2>4, <1>3
  <1>5. ASSUME NEW e \in equery.src PROVE e \in DOMAIN esettled
    BY <1>1 DEF EdgeLoop, EdgeFrontier, EdgeKnown, EdgeKnownIn
  <1>6. ASSUME NEW e \in DOMAIN esettled
        PROVE  e \in all /\ esettled[e].d = IF e \in near THEN EdgeCost[e] ELSE FirstCost(equery, e)
    <2>1. CASE e \in near BY <2>1, <1>4
    <2>2. CASE e \notin near
      <3>1. ~ (EdgeCost[e] < Inf) BY <2>2, <1>3
      <3>2. ~ (esettled[e].d < Inf) BY <3>1, <1>3, InfAssumption
      <3> QED BY <2>2, <3>2, <1>3
    <2> QED BY <2>1, <2>2
  <1>7. DOMAIN esettled = all BY <1>4, <1>5, <1>6
  <1> HIDE DEF near, all
  <1>8. costs = [e \in all |-> IF e \in near THEN EdgeCost[e] ELSE FirstCost(equery, e)]
    BY <1>2, <1>6, <1>7
  <1> QED BY <1>0, <1>8 DEF EdgeRight, near, all

\* Giving up is right: the queue is empty, or nothing near is left in it.
LEMMA EdgeGiveUpRight ==
  ASSUME EdgeTypes, EdgeGiveUp, EdgeTypes', Promises(equery) /\ HasTargets(equery) => EdgeLoop,
         equery.form # "rev"
  PROVE  EdgeRight(costs')
  <1>0. IsEdgeQuery(equery) BY EdgeQueryIs DEF EdgeTypes
  <1>1. costs' = costs /\ equery' = equery BY DEF EdgeGiveUp
  <1>2. Each(equery) => \A t \in equery.dst : EdgeCost[t] <= costs'[t]
    BY <1>1, CostsAreBounds
  <1>3. CASE ~HasTargets(equery) BY <1>3, NoEdgeTargetIsRight
  <1>4. CASE ~Promises(equery) BY <1>2, <1>4 DEF EdgeRight
  <1>5. CASE HasTargets(equery) /\ Promises(equery) /\ equery.form = "all"
    BY <1>1, <1>5, AllIsRight
  <1>6. CASE HasTargets(equery) /\ Promises(equery) /\ equery.form # "all"
    <2>0. ~ToAll(equery) /\ EdgeLoop BY <1>6 DEF ToAll
    <2>1. \A t \in equery.dst : EdgeCost[t] \in 0..Inf
      BY <1>0, EdgeCostFacts DEF IsEdgeQuery, EdgeCost
    <2>2. costs = [e \in equery.dst |-> IF e \in DOMAIN esettled THEN esettled[e].d ELSE Inf]
      BY <2>0 DEF EdgeTypes, CostsFit
    <2>3. ASSUME NEW t \in equery.dst, t \notin DOMAIN esettled
          PROVE  costs[t] = Inf /\ ~Within(equery, EdgeCost[t])
      BY <2>0, <2>2, <2>3, <1>6, GiveUpOut
    <2>4. ASSUME Each(equery), NEW t \in equery.dst
          PROVE  costs[t] = IF Within(equery, EdgeCost[t]) THEN EdgeCost[t] ELSE Inf
      <3>1. CASE t \in DOMAIN esettled
        <4>1. esettled[t].d = EdgeCost[t] /\ Within(equery, EdgeCost[t])
          BY <2>0, <2>4, <3>1 DEF EdgeLoop, EdgeOrdered
        <4> QED BY <4>1, <2>2, <3>1
      <3>2. CASE t \notin DOMAIN esettled BY <2>3, <3>2
      <3> QED BY <3>1, <3>2
    <2>5. ASSUME equery.form = "set"
          PROVE  NearestCost(costs, equery.dst) = NearestCost(EdgeCost, equery.dst)
      <3>1. ~Each(equery) /\ ~Inits(equery) /\ Targets(equery) = equery.dst
        BY <2>5 DEF Each, Inits, Targets
      <3>2. ASSUME NEW t \in equery.dst PROVE costs[t] = EdgeCost[t]
        <4>1. t \notin DOMAIN esettled BY <2>0, <3>1 DEF EdgeLoop, EdgeCounted
        <4>2. costs[t] = Inf /\ ~Within(equery, EdgeCost[t]) BY <4>1, <2>3
        <4>3. ~ (EdgeCost[t] < Inf) BY <4>2, <3>1 DEF Within
        <4>4. EdgeCost[t] = Inf BY <4>3, <2>1, InfAssumption
        <4> QED BY <4>2, <4>4
      <3>3. {costs[t] : t \in equery.dst} = {EdgeCost[t] : t \in equery.dst} BY <3>2
      <3> QED BY <3>3 DEF NearestCost
    <2> QED BY <2>4, <2>5, <1>1, <1>2, <1>6 DEF EdgeRight
  <1> QED BY <1>3, <1>4, <1>5, <1>6

\* The target that ends the search costs what the nearest does, or all targets do
\* what they should.
LEMMA EdgeSettleRight ==
  ASSUME EdgeTypes, EdgeTypes', Promises(equery), EdgeLoop, NEW r, EdgeSettleBy(r),
         EdgeIsLast(r)
  PROVE  EdgeRight(costs')
  <1>1. r \in ETops /\ r \in eq /\ EdgeEntry(r) /\ esettled' = EdgeDone(r) /\ equery' = equery
        /\ IsEdgeQuery(equery) /\ ~OutOfReach(r)
    BY EdgeQueryIs DEF EdgeSettleBy, ETops, EdgeTypes, EdgeEntries
  <1>2. r.e \in equery.net.edges /\ r.d \in Nat /\ r.key \in Nat
    BY <1>1 DEF EdgeEntry, EdgeEntryAt
  <1>3. DOMAIN esettled' = DOMAIN esettled \cup {r.e} /\ esettled'[r.e] = r
    BY <1>1 DEF EdgeDone
  <1>4. equery.form # "rev" BY DEF Promises
  <1>5. equery.form # "all"
    <2> SUFFICES ASSUME equery.form = "all" PROVE FALSE OBVIOUS
    <2>1. ~Each(equery) /\ Targets(equery) = {} BY DEF Each, Targets
    <2>2. efound = 0 BY <2>1 DEF EdgeLoop, EdgeCounted
    <2> QED BY <2>1, <2>2 DEF EdgeIsLast, EdgeHits
  <1>6. ~ToAll(equery) /\ Targets(equery) = equery.dst BY <1>4, <1>5, TargetsAre DEF ToAll
  <1>7. costs' = [e \in equery.dst |-> IF e \in DOMAIN esettled' THEN esettled'[e].d ELSE Inf]
    BY <1>1, <1>6 DEF EdgeTypes, CostsFit, ToAll
  <1>8. Within(equery, r.d) /\ r.key < Inf /\ r.d <= r.key
    <2>1. Within(equery, r.d) /\ r.key < Inf BY <1>1, <1>6, TakenIsWithin
    <2>2. equery.heur[r.e] \in Nat /\ r.d + equery.heur[r.e] <= r.key
      BY <1>1, <1>2, <1>6 DEF IsEdgeQuery, EdgeEntry, EdgeEntryAt
    <2>3. r.d <= r.key BY <1>2, <2>2
    <2> QED BY <2>1, <2>3
  <1>9. \A t \in equery.dst : EdgeCost[t] \in 0..Inf
    BY <1>1, EdgeCostFacts DEF IsEdgeQuery, EdgeCost
  <1>10. Each(equery) => \A t \in equery.dst : EdgeCost[t] <= costs'[t]
    BY <1>1, <1>4, CostsAreBounds
  <1>11. ASSUME equery.form = "set"
         PROVE  NearestCost(costs', equery.dst) = NearestCost(EdgeCost, equery.dst)
    <2>1. ~Each(equery) /\ ~Inits(equery) BY <1>11 DEF Each, Inits
    <2>2. efound = 0 /\ DOMAIN esettled \cap equery.dst = {}
      BY <2>1, <1>6 DEF EdgeLoop, EdgeCounted
    <2>3. r.e \in equery.dst BY <2>1, <2>2, <1>6 DEF EdgeIsLast, EdgeHits
    <2>4. ASSUME NEW t \in equery.dst PROVE r.d <= EdgeCost[t]
      <3>1. CASE EdgeCost[t] < Inf
        <4>1. Within(equery, EdgeCost[t]) BY <3>1, <2>1 DEF Within
        <4>2. t \notin DOMAIN esettled BY <2>2
        <4>3. r.key <= EdgeCost[t] BY <4>1, <4>2, <1>1, <1>6, TopIsBelow
        <4> QED BY <4>3, <1>2, <1>8, <1>9
      <3>2. CASE ~ (EdgeCost[t] < Inf)
        <4>1. EdgeCost[t] = Inf BY <3>2, <1>9, InfAssumption
        <4> QED BY <4>1, <1>2, <1>8, InfAssumption
      <3> QED BY <3>1, <3>2
    <2>5. EdgeCost[r.e] = r.d
      <3>1. EdgeCost[r.e] <= r.d BY <1>1, <1>4 DEF EdgeEntry, EdgeEntryAt
      <3>2. r.d <= EdgeCost[r.e] BY <2>3, <2>4
      <3> QED BY <3>1, <3>2, <2>3, <1>2, <1>9
    <2>6. r.d < Inf BY <1>2, <1>8, InfAssumption
    <2>7. \A t \in equery.dst : EdgeCost[t] \in Nat /\ r.d <= EdgeCost[t]
      BY <2>4, <1>9, InfAssumption
    <2>8. NearestCost(EdgeCost, equery.dst) = r.d
      BY <2>3, <2>5, <2>6, <2>7, <1>2, NearestCostIs
    <2>9. ASSUME NEW t \in equery.dst
          PROVE  costs'[t] = IF t = r.e THEN r.d ELSE Inf
      <3>1. t \in DOMAIN esettled' <=> t = r.e BY <2>2, <1>3
      <3> QED BY <3>1, <1>3, <1>7
    <2>10. \A t \in equery.dst : costs'[t] \in Nat /\ r.d <= costs'[t]
      BY <2>6, <2>9, <1>2, InfAssumption
    <2>11. \E t \in equery.dst : costs'[t] = r.d BY <2>3, <2>9
    <2>12. NearestCost(costs', equery.dst) = r.d
      BY <2>6, <2>10, <2>11, <1>2, NearestCostIs
    <2> QED BY <2>8, <2>12
  <1>12. ASSUME Each(equery), NEW t \in equery.dst
         PROVE  costs'[t] = IF Within(equery, EdgeCost[t]) THEN EdgeCost[t] ELSE Inf
    <2>1. r.d = EdgeCost[r.e] /\ Within(equery, EdgeCost[r.e]) /\ r.e \notin DOMAIN esettled
      BY <1>12, EdgeSettledOnce
    <2>2. efound = Cardinality(DOMAIN esettled \cap equery.dst)
          /\ EdgeHits(r) = Cardinality(equery.dst)
      BY <1>12 DEF EdgeLoop, EdgeCounted, EdgeIsLast
    <2>3. IsFiniteSet(equery.dst)
      <3>1. IsFiniteSet(equery.net.edges) /\ equery.dst \subseteq equery.net.edges
        BY <1>1 DEF IsEdgeQuery
      <3> QED BY <3>1, FS_Subset
    <2> DEFINE A == (DOMAIN esettled \cup {r.e}) \cap equery.dst
               B == DOMAIN esettled \cap equery.dst
    <2>4. A \subseteq equery.dst /\ B \subseteq equery.dst OBVIOUS
    <2>5. Cardinality(A) = Cardinality(equery.dst)
      <3>1. IsFiniteSet(B) BY <2>3, <2>4, FS_Subset
      <3>2. Cardinality(B) \in Nat BY <3>1, FS_CardinalityType
      <3>3. CASE r.e \in equery.dst
        <4>1. A = B \cup {r.e} /\ r.e \notin B BY <2>1, <3>3
        <4>2. Cardinality(A) = Cardinality(B) + 1 BY <4>1, <3>1, FS_AddElement
        <4>3. EdgeHits(r) = efound + 1 BY <3>3, <1>6 DEF EdgeHits
        <4> QED BY <4>2, <4>3, <2>2
      <3>4. CASE r.e \notin equery.dst
        <4>1. A = B BY <3>4
        <4>2. EdgeHits(r) = efound BY <3>2, <3>4, <2>2, <1>6 DEF EdgeHits
        <4> QED BY <4>1, <4>2, <2>2
      <3> QED BY <3>3, <3>4
    <2>6. A = equery.dst BY <2>3, <2>4, <2>5, FS_Subset
    <2>7. t \in DOMAIN esettled' BY <2>6, <1>3
    <2>8. costs'[t] = esettled'[t].d BY <2>7, <1>7
    <2>9. CASE t = r.e BY <2>1, <2>8, <2>9, <1>3
    <2>10. CASE t # r.e
      <3>1. t \in DOMAIN esettled /\ esettled'[t] = esettled[t]
        BY <2>7, <2>10, <1>1 DEF EdgeDone
      <3>2. esettled[t].d = EdgeCost[t] /\ Within(equery, EdgeCost[t])
        BY <3>1, <1>12 DEF EdgeLoop, EdgeOrdered
      <3> QED BY <3>1, <3>2, <2>8
    <2> QED BY <2>9, <2>10
  <1> QED BY <1>5, <1>10, <1>11, <1>12 DEF EdgeRight

-----------------------------------------------------------------------------
(* EdgeDijkstra: the other steps. *)

\* An entry that is thrown away is not missed.
LEMMA EdgeSkipLoop ==
  ASSUME EdgeTypes, EdgeSkip
  PROVE  /\ EdgeTypes'
         /\ Promises(equery) /\ EdgeLoop => EdgeLoop'
  <1>1. PICK r \in ETops : ~OutOfReach(r) /\ EStale(r) /\ eq' = eq \ {r} /\ low' = r.key
    BY DEF EdgeSkip
  <1>2. equery' = equery /\ esettled' = esettled /\ efound' = efound /\ costs' = costs
    BY DEF EdgeSkip
  <1>3. EdgeCost' = EdgeCost BY <1>2 DEF EdgeCost
  <1>4. r \in eq /\ EdgeEntry(r) /\ (\A e \in eq : r.key <= e.key) /\ low <= r.key
        /\ low \in Nat
    BY DEF EdgeTypes, EdgeEntries, ETops
  <1>5. IsEdgeQuery(equery) BY EdgeQueryIs DEF EdgeTypes
  <1>6. r.d \in Nat /\ r.key \in Nat BY <1>4 DEF EdgeEntry, EdgeEntryAt
  <1>7. EdgeEntries'
    BY <1>1, <1>2, <1>3, <1>4 DEF EdgeTypes, EdgeEntries, EdgeEntry
  <1>8. EdgeTypes'
    BY <1>1, <1>2, <1>4, <1>6, <1>7 DEF EdgeTypes, CostsFit, HasTargets, ToAll
  <1>9. ASSUME Promises(equery), EdgeLoop PROVE EdgeLoop'
    <2>1. r.e \in DOMAIN esettled /\ esettled[r.e].d <= r.d BY <1>1 DEF EStale
    <2>2. ASSUME NEW x, NEW c \in Nat, EdgeKnownIn(eq, esettled, x, c)
          PROVE  EdgeKnownIn(eq', esettled', x, c)
      <3>1. CASE x \in DOMAIN esettled /\ esettled[x].d <= c BY <3>1, <1>2 DEF EdgeKnownIn
      <3>2. ASSUME NEW e \in eq, e.e = x, e.d <= c PROVE EdgeKnownIn(eq', esettled', x, c)
        <4>1. CASE e = r
          <5>1. esettled[r.e].d \in Nat
            BY <2>1 DEF EdgeTypes, EdgeEntries, EdgeEntry, EdgeEntryAt
          <5>2. esettled[x].d <= c BY <4>1, <5>1, <3>2, <2>1, <1>6
          <5> QED BY <4>1, <5>2, <3>2, <2>1, <1>2 DEF EdgeKnownIn
        <4>2. CASE e # r BY <4>2, <3>2, <1>1 DEF EdgeKnownIn
        <4> QED BY <4>1, <4>2
      <3> QED BY <3>1, <3>2, <2>2 DEF EdgeKnownIn
    <2>3. EdgeFrontier'
      <3>1. \A x \in equery.src : EdgeKnownIn(eq', esettled', x, Begun(equery)[x])
        <4>1. \A x \in equery.src : Begun(equery)[x] \in Nat BY <1>5, EdgeCostFacts
        <4> QED BY <4>1, <2>2, <1>9 DEF EdgeLoop, EdgeFrontier, EdgeKnown
      <3>2. ASSUME NEW x \in DOMAIN esettled, NEW s \in EdgeSteps(equery), s.from = x,
                   Within(equery, esettled[x].d + s.c), equery.heur[s.to] < Inf
            PROVE  EdgeKnownIn(eq', esettled', s.to, esettled[x].d + s.c)
        <4>1. s.c \in Nat BY <1>5, EdgeStepsAre DEF StepsOf
        <4>2. esettled[x].d \in Nat BY DEF EdgeTypes, EdgeEntries, EdgeEntry, EdgeEntryAt
        <4>3. esettled[x].d + s.c \in Nat BY <4>1, <4>2
        <4>4. EdgeKnownIn(eq, esettled, s.to, esettled[x].d + s.c)
          BY <3>2, <1>9 DEF EdgeLoop, EdgeFrontier, EdgeKnown
        <4> QED BY <4>3, <4>4, <2>2
      <3> QED BY <3>1, <3>2, <1>2 DEF EdgeFrontier, EdgeKnown
    <2>4. KeysFit'
      <3> SUFFICES ASSUME ~ToAll(equery), NEW f \in eq, f.key <= low PROVE f.key <= r.key
        BY <1>1, <1>2, <1>9 DEF EdgeLoop, KeysFit, ToAll
      <3>1. f.key \in Nat BY DEF EdgeTypes, EdgeEntries, EdgeEntry, EdgeEntryAt
      <3> QED BY <3>1, <1>4, <1>6
    <2>5. EdgeOrdered'
      BY <1>1, <1>2, <1>3, <1>9 DEF EdgeLoop, EdgeOrdered
    <2>6. EdgeCounted' BY <1>2, <1>9 DEF EdgeLoop, EdgeCounted, Each, Targets
    <2>7. LowBelow'
      <3> SUFFICES ASSUME ~ToAll(equery), NEW t \in equery.dst, t \notin DOMAIN esettled,
                          Within(equery, EdgeCost[t])
                   PROVE  r.key <= EdgeCost[t]
        BY <1>1, <1>2, <1>3 DEF LowBelow, ToAll
      <3> QED BY <1>9, TopIsBelow
    <2> QED BY <2>3, <2>4, <2>5, <2>6, <2>7 DEF EdgeLoop
  <1> QED BY <1>8, <1>9

\* Giving up keeps the types.
LEMMA EdgeGiveUpTypes ==
  ASSUME EdgeTypes, EdgeGiveUp
  PROVE  EdgeTypes'
  <1>1. equery' = equery /\ eq' = eq /\ esettled' = esettled /\ costs' = costs
    BY DEF EdgeGiveUp
  <1>2. low' \in Nat /\ \A r \in eq : low' <= r.key
    <2>1. CASE eq = {} BY <2>1 DEF EdgeGiveUp, EdgeTypes
    <2>2. CASE eq # {}
      <3> DEFINE top == CHOOSE r \in ETops : TRUE
      <3>1. ETops # {} BY <2>2 DEF EdgeGiveUp
      <3>2. top \in ETops BY <3>1
      <3>3. low' = top.key BY <2>2 DEF EdgeGiveUp
      <3> HIDE DEF top
      <3>4. top \in eq /\ \A r \in eq : top.key <= r.key BY <3>2 DEF ETops
      <3>5. top.key \in Nat BY <3>4 DEF EdgeTypes, EdgeEntries, EdgeEntry, EdgeEntryAt
      <3> QED BY <3>3, <3>4, <3>5
    <2> QED BY <2>1, <2>2
  <1>3. EdgeEntries' BY <1>1, <1>2 DEF EdgeTypes, EdgeEntries, EdgeEntry, EdgeCost
  <1> QED BY <1>1, <1>2, <1>3 DEF EdgeTypes, CostsFit, HasTargets, ToAll

\* A search starts with its start edges as the frontier.
LEMMA EdgeStartTypes ==
  ASSUME NEW q \in EdgeQueries, EdgeStart(q),
         esettled = <<>>, low = 0, efound = 0
  PROVE  EdgeTypes' /\ (Promises(q) /\ HasTargets(q) => EdgeLoop')
  <1>0. IsEdgeQuery(q) BY EdgeQueryIs
  <1>1. /\ equery' = q /\ esettled' = <<>> /\ low' = 0 /\ efound' = 0
        /\ EdgeCost' = EdgeCosts(q) /\ DOMAIN esettled' = {}
    BY EmptyFunction DEF EdgeStart, EdgeCost
  <1>2. Targets(q) = IF ToAll(q) THEN {} ELSE q.dst BY DEF Targets, ToAll
  <1>3. eq' = IF HasTargets(q) THEN {Begin(q, x) : x \in q.src} ELSE {}
    BY <1>2 DEF EdgeStart, HasTargets, ToAll
  <1>4. ASSUME NEW x \in q.src
        PROVE  /\ Begin(q, x).e = x /\ Begin(q, x).d = Begun(q)[x] /\ Begin(q, x).dwi = 0
               /\ Begin(q, x).key = IF ToAll(q) THEN 0 ELSE Begun(q)[x] + q.heur[x]
               /\ Begun(q)[x] \in Nat /\ q.heur[x] \in Nat
               /\ EdgeCosts(q)[x] <= Begun(q)[x] /\ x \in q.net.edges
    <2>1. /\ Begin(q, x).e = x /\ Begin(q, x).d = Begun(q)[x] /\ Begin(q, x).dwi = 0
          /\ Begin(q, x).key = IF ToAll(q) THEN 0 ELSE Begun(q)[x] + q.heur[x]
      BY DEF Begin, Begun, ToAll
    <2>2. x \in q.net.edges BY <1>0 DEF IsEdgeQuery
    <2>3. Begun(q)[x] \in Nat /\ EdgeCosts(q)[x] <= Begun(q)[x] BY <1>0, EdgeCostFacts
    <2>4. q.heur[x] \in Nat BY <1>0, <2>2 DEF IsEdgeQuery
    <2> QED BY <2>1, <2>2, <2>3, <2>4
  <1>5. ASSUME NEW f \in eq'
        PROVE  /\ EdgeEntryAt(q, EdgeCosts(q), f) /\ 0 <= f.key
               /\ ~ToAll(q) => f.key = f.d + q.heur[f.e]
    <2>1. PICK x \in q.src : f = Begin(q, x) BY <1>3
    <2>2. /\ f.e = x /\ f.d = Begun(q)[x] /\ f.dwi = 0
          /\ f.key = IF ToAll(q) THEN 0 ELSE Begun(q)[x] + q.heur[x]
          /\ Begun(q)[x] \in Nat /\ q.heur[x] \in Nat
          /\ EdgeCosts(q)[x] <= Begun(q)[x] /\ x \in q.net.edges
      BY <2>1, <1>4
    <2>3. f.key \in Nat /\ 0 <= f.key BY <2>2
    <2>4. Inits(q) => \A s : q.src = {s} => f.d = q.init[s] + f.dwi
      <3> SUFFICES ASSUME Inits(q), NEW s, q.src = {s} PROVE f.d = q.init[s] + f.dwi OBVIOUS
      <3>1. x = s /\ Begun(q)[x] = q.init[x] /\ q.init[x] \in Nat
        BY <1>0 DEF Begun, IsEdgeQuery
      <3> QED BY <3>1, <2>2
    <2>5. f.dwi \in Nat /\ f.dwi <= f.d /\ f.d \in Nat BY <2>2
    <2> QED BY <2>2, <2>3, <2>4, <2>5 DEF EdgeEntryAt
  <1>6. EdgeEntries' BY <1>1, <1>5 DEF EdgeEntries, EdgeEntry
  <1>7. CostsFit'
    <2>1. costs' = [e \in Targets(q) |-> Inf] BY DEF EdgeStart
    <2>2. costs' = [e \in IF ToAll(q) THEN {} ELSE q.dst |-> Inf] BY <2>1, <1>2
    <2>3. CASE ToAll(q)
      <3>1. costs' = [e \in {} |-> IF e \in DOMAIN esettled' THEN esettled'[e].d ELSE Inf]
        BY <2>2, <2>3
      <3> QED BY <3>1, <2>3, <1>1 DEF CostsFit, ToAll
    <2>4. CASE ~ToAll(q)
      <3>1. costs' = [e \in q.dst |-> IF e \in DOMAIN esettled' THEN esettled'[e].d ELSE Inf]
        BY <2>2, <2>4, <1>1
      <3> QED BY <3>1, <2>4, <1>1 DEF CostsFit, ToAll
    <2> QED BY <2>3, <2>4
  <1>8. EdgeTypes'
    BY <1>1, <1>3, <1>6, <1>7 DEF EdgeTypes, HasTargets, ToAll
  <1>9. ASSUME Promises(q), HasTargets(q) PROVE EdgeLoop'
    <2>1. ASSUME NEW x \in q.src PROVE EdgeKnownIn(eq', esettled', x, Begun(q)[x])
      <3>1. Begin(q, x) \in eq' BY <1>3, <1>9
      <3>2. Begin(q, x).d <= Begun(q)[x] BY <1>4
      <3> QED BY <3>1, <3>2, <1>4 DEF EdgeKnownIn
    <2>2. EdgeFrontier' BY <2>1, <1>1 DEF EdgeFrontier, EdgeKnown
    <2>3. KeysFit' BY <1>1, <1>5 DEF KeysFit, ToAll
    <2>4. EdgeOrdered'
      <3>1. Each(q) => ~ToAll(q) BY DEF Each, ToAll
      <3> QED BY <3>1, <1>1, <1>5 DEF EdgeOrdered
    <2>5. EdgeCounted'
      <3>1. DOMAIN esettled' \cap equery'.dst = {} /\ DOMAIN esettled' \cap Targets(q) = {}
        BY <1>1
      <3>2. Cardinality({}) = 0 BY FS_EmptySet
      <3> QED BY <3>1, <3>2, <1>1 DEF EdgeCounted
    <2>6. LowBelow'
      <3>1. \A t \in q.dst : EdgeCosts(q)[t] \in 0..Inf
        BY <1>0, EdgeCostFacts DEF IsEdgeQuery
      <3>2. \A t \in q.dst : 0 <= EdgeCosts(q)[t] BY <3>1, InfAssumption
      <3> QED BY <3>2, <1>1 DEF LowBelow, ToAll
    <2> QED BY <2>2, <2>3, <2>4, <2>5, <2>6 DEF EdgeLoop
  <1> QED BY <1>8, <1>9

-----------------------------------------------------------------------------
\* The inductive invariant.
EdgeIInv ==
  /\ efound \in Nat /\ over \in BOOLEAN
  /\ equery = NoEdgeQuery =>
       eq = {} /\ low = 0 /\ esettled = <<>> /\ efound = 0 /\ costs = <<>> /\ over = FALSE
  /\ equery # NoEdgeQuery => EdgeTypes
  /\ Searching /\ HasTargets(equery) /\ Promises(equery) => EdgeLoop
  /\ EdgeShortest

\* EdgeIInv is inductive: the start, and one lemma for each action.
LEMMA EdgeInitOK == ASSUME EdgeInit PROVE EdgeIInv
  BY DEF EdgeInit, EdgeIInv, Searching, EdgeShortest, Returned

LEMMA EdgeStartOK ==
  ASSUME EdgeIInv, equery = NoEdgeQuery, NEW q \in EdgeQueries, EdgeStart(q)
  PROVE  EdgeIInv'
  <1>1. low = 0 /\ esettled = <<>> /\ efound = 0 /\ over = FALSE BY DEF EdgeIInv
  <1>2. EdgeTypes' /\ (Promises(q) /\ HasTargets(q) => EdgeLoop')
    BY <1>1, EdgeStartTypes
  <1>3. equery' = q /\ q # NoEdgeQuery /\ over' = FALSE /\ efound' = 0
    BY <1>1, EdgeQueryIs DEF EdgeStart
  <1>4. EdgeShortest' BY <1>3 DEF EdgeShortest, Returned
  <1> QED BY <1>2, <1>3, <1>4 DEF EdgeIInv

LEMMA EdgeGiveUpOK == ASSUME EdgeIInv, EdgeGiveUp PROVE EdgeIInv'
  <1>1. Searching /\ equery' = equery /\ over' = TRUE /\ efound' = efound BY DEF EdgeGiveUp
  <1>2. equery # NoEdgeQuery /\ EdgeTypes BY <1>1 DEF EdgeIInv, Searching
  <1>3. EdgeTypes' BY <1>2, EdgeGiveUpTypes
  <1>4. IsEdgeQuery(equery) BY <1>2, EdgeQueryIs DEF EdgeTypes
  <1>5. Promises(equery) /\ HasTargets(equery) => EdgeLoop BY <1>1 DEF EdgeIInv
  <1>6. equery.form # "rev" => EdgeRight(costs')
    BY <1>2, <1>3, <1>5, EdgeGiveUpRight
  <1>7. EdgeShortest' BY <1>1, <1>4, <1>6, RightIsEdgeShortest
  <1> QED BY <1>1, <1>2, <1>3, <1>7 DEF EdgeIInv, Searching

LEMMA EdgeSkipOK == ASSUME EdgeIInv, EdgeSkip PROVE EdgeIInv'
  <1>1. Searching /\ equery' = equery /\ over' = over /\ efound' = efound BY DEF EdgeSkip
  <1>2. equery # NoEdgeQuery /\ EdgeTypes BY <1>1 DEF EdgeIInv, Searching
  <1>3. EdgeTypes' /\ (Promises(equery) /\ EdgeLoop => EdgeLoop') BY <1>2, EdgeSkipLoop
  <1>4. EdgeShortest' BY <1>1 DEF Searching, EdgeShortest, Returned
  <1> QED BY <1>1, <1>2, <1>3, <1>4 DEF EdgeIInv, Searching

LEMMA EdgeSettleOK == ASSUME EdgeIInv, EdgeSettle PROVE EdgeIInv'
  <1>1. PICK r : EdgeSettleBy(r) BY EdgeSettleHow
  <1>2. Searching /\ equery' = equery /\ over' = EdgeIsLast(r) /\ efound' = EdgeHits(r)
    BY <1>1, EdgeSettleHow DEF EdgeSettleBy
  <1>3. equery # NoEdgeQuery /\ EdgeTypes /\ equery \in EdgeQueries
    BY <1>2 DEF EdgeIInv, Searching, EdgeTypes
  <1>4. EdgeTypes' BY <1>3, EdgeSettleTypes
  <1>5. IsEdgeQuery(equery) /\ HasTargets(equery)
    <2>1. eq # {} BY <1>1 DEF EdgeSettleBy, ETops
    <2> QED BY <2>1, <1>3, EdgeQueryIs DEF EdgeTypes
  <1>6. efound' \in Nat /\ over' \in BOOLEAN
    <2>1. efound \in Nat BY DEF EdgeIInv
    <2>2. efound' \in Nat BY <2>1, <1>2 DEF EdgeHits
    <2>3. EdgeIsLast(r) \in BOOLEAN
      <3>1. (EdgeHits(r) = Cardinality(equery.dst)) \in BOOLEAN OBVIOUS
      <3>2. (EdgeHits(r) > 0) \in BOOLEAN BY <2>2, <1>2
      <3>3. CASE Each(equery) BY ONLY <3>1, <3>3, Zenon DEF EdgeIsLast
      <3>4. CASE ~Each(equery) BY ONLY <3>2, <3>4, Zenon DEF EdgeIsLast
      <3> QED BY <3>3, <3>4
    <2>4. over' \in BOOLEAN BY <2>3, <1>2
    <2> QED BY <2>2, <2>4
  <1>7. ASSUME Searching', Promises(equery) PROVE EdgeLoop'
    <2>1. ~EdgeIsLast(r) BY <1>2, <1>7 DEF Searching
    <2>2. EdgeLoop BY <1>2, <1>5, <1>7 DEF EdgeIInv
    <2> QED BY <2>1, <2>2, <1>1, <1>3, <1>7, EdgeSettleLoop
  <1>8. ASSUME Returned', equery.form # "rev" PROVE EdgeRight(costs')
    <2>1. EdgeIsLast(r) BY <1>2, <1>8 DEF Returned
    <2>2. CASE Promises(equery)
      <3>1. EdgeLoop BY <2>2, <1>2, <1>5 DEF EdgeIInv
      <3> QED BY <2>1, <2>2, <3>1, <1>1, <1>3, <1>4, EdgeSettleRight
    <2>3. CASE ~Promises(equery)
      <3>1. Each(equery) => \A t \in equery.dst : EdgeCost[t] <= costs'[t]
        BY <1>2, <1>4, <1>8, CostsAreBounds
      <3> QED BY <2>3, <3>1 DEF EdgeRight
    <2> QED BY <2>2, <2>3
  <1>9. EdgeShortest' BY <1>2, <1>5, <1>8, RightIsEdgeShortest
  <1> QED BY <1>2, <1>3, <1>4, <1>6, <1>7, <1>9 DEF EdgeIInv

\* The actions together.
LEMMA EdgeStep == ASSUME EdgeIInv, [EdgeNext]_edgeVars PROVE EdgeIInv'
  <1>1. CASE equery = NoEdgeQuery /\ \E q \in EdgeQueries : EdgeStart(q)
    BY <1>1, EdgeStartOK
  <1>2. CASE EdgeGiveUp BY <1>2, EdgeGiveUpOK
  <1>3. CASE EdgeSkip BY <1>3, EdgeSkipOK
  <1>4. CASE EdgeSettle BY <1>4, EdgeSettleOK
  <1>5. CASE UNCHANGED edgeVars
    <2>1. equery' = equery /\ eq' = eq /\ low' = low /\ esettled' = esettled
          /\ efound' = efound /\ costs' = costs /\ over' = over
      BY <1>5 DEF edgeVars
    <2>2. EdgeTypes' = EdgeTypes
      BY <2>1 DEF EdgeTypes, EdgeEntries, EdgeEntry, EdgeCost, CostsFit
    <2>3. EdgeLoop' = EdgeLoop
      BY <2>1 DEF EdgeLoop, EdgeFrontier, KeysFit, EdgeOrdered, EdgeCounted, LowBelow,
                  EdgeKnown, EdgeCost
    <2>4. EdgeShortest' = EdgeShortest BY <2>1 DEF EdgeShortest, Returned
    <2> QED BY <2>1, <2>2, <2>3, <2>4 DEF EdgeIInv, Searching
  <1> QED BY <1>1, <1>2, <1>3, <1>4, <1>5 DEF EdgeNext, EdgeRound

\* It implies the type invariant.
LEMMA EdgeIInvTypes == ASSUME EdgeIInv PROVE EdgeTypeOK
  <1>1. CASE equery = NoEdgeQuery BY <1>1 DEF EdgeIInv, EdgeTypeOK
  <1>2. CASE equery # NoEdgeQuery
    <2>1. EdgeTypes /\ efound \in Nat /\ over \in BOOLEAN BY <1>2 DEF EdgeIInv
    <2>2. IsEdgeQuery(equery) BY <2>1, EdgeQueryIs DEF EdgeTypes
    <2>3. ASSUME NEW r \in eq
          PROVE  r.e \in equery.net.edges /\ r.key >= low /\ r.dwi <= r.d
      <3>1. EdgeEntry(r) /\ low <= r.key /\ low \in Nat BY <2>1 DEF EdgeTypes, EdgeEntries
      <3>2. r.e \in equery.net.edges /\ r.key \in Nat /\ r.dwi <= r.d
        BY <3>1 DEF EdgeEntry, EdgeEntryAt
      <3>3. r.key >= low BY <3>1, <3>2
      <3> QED BY <3>2, <3>3
    <2>4. DOMAIN esettled \subseteq equery.net.edges BY <2>1 DEF EdgeTypes, EdgeEntries
    <2>5. DOMAIN costs = IF ToAll(equery) THEN DOMAIN esettled ELSE equery.dst
      BY <2>1 DEF EdgeTypes, CostsFit
    <2>6. DOMAIN costs \subseteq equery.net.edges BY <2>2, <2>4, <2>5 DEF IsEdgeQuery
    <2> QED BY <2>1, <2>3, <2>4, <2>6 DEF EdgeTypes, EdgeTypeOK
  <1> QED BY <1>1, <1>2

-----------------------------------------------------------------------------
(* EdgeDijkstra: the search backward. *)

\* The searches backward whose costs are those of a search forward.
Backward(q) == q.form = "rev" /\ q.free /\ q.net.directed

\* What it costs to go on from edge e to the nearest edge the search is from.
EdgeNear(q, e) == NearestCost(EdgeFrom(q, e), q.src)

\* Its least member is in a set of costs.
LEMMA NearestCostFacts ==
  ASSUME NEW ts, NEW D, \A t \in ts : D[t] \in 0..Inf
  PROVE  /\ NearestCost(D, ts) \in 0..Inf
         /\ \A t \in ts : NearestCost(D, ts) <= D[t]
         /\ NearestCost(D, ts) < Inf => \E t \in ts : D[t] = NearestCost(D, ts)
  <1> DEFINE A == {D[t] : t \in ts} \cup {Inf}
  <1>1. A \subseteq 0..Inf /\ Inf \in A BY InfAssumption
  <1>2. \A t \in ts : D[t] \in A OBVIOUS
  <1>3. \A k \in A : k = Inf \/ \E t \in ts : D[t] = k OBVIOUS
  <1>4. NearestCost(D, ts) = Min(A) BY DEF NearestCost
  <1> HIDE DEF A
  <1>5. A \subseteq Nat BY <1>1, InfAssumption
  <1>6. Min(A) \in A /\ \A k \in A : Min(A) <= k BY <1>1, <1>5, LeastIn
  <1>7. Min(A) \in 0..Inf BY <1>1, <1>6
  <1>8. Min(A) < Inf => \E t \in ts : D[t] = Min(A)
    <2> SUFFICES ASSUME Min(A) < Inf PROVE \E t \in ts : D[t] = Min(A) OBVIOUS
    <2>1. Min(A) # Inf BY <1>7, InfAssumption
    <2> QED BY <2>1, <1>3, <1>6
  <1> QED BY <1>2, <1>4, <1>6, <1>7, <1>8

\* EdgeNear is a cost.
LEMMA EdgeNearIs ==
  ASSUME NEW q, IsEdgeQuery(q), NEW e \in q.net.edges
  PROVE  /\ EdgeNear(q, e) \in 0..Inf
         /\ \A t \in q.src : EdgeNear(q, e) <= EdgeFrom(q, e)[t]
         /\ EdgeNear(q, e) < Inf => \E t \in q.src : EdgeFrom(q, e)[t] = EdgeNear(q, e)
  <1>1. \A t \in q.src : EdgeFrom(q, e)[t] \in 0..Inf
    BY EdgeFromFacts DEF IsEdgeQuery
  <1> DEFINE D == EdgeFrom(q, e)
  <1>2. EdgeNear(q, e) = NearestCost(D, q.src) BY DEF EdgeNear
  <1> HIDE DEF D
  <1>3. \A t \in q.src : D[t] \in 0..Inf BY <1>1 DEF D
  <1>4. /\ NearestCost(D, q.src) \in 0..Inf
        /\ \A t \in q.src : NearestCost(D, q.src) <= D[t]
        /\ NearestCost(D, q.src) < Inf => \E t \in q.src : D[t] = NearestCost(D, q.src)
    BY <1>3, NearestCostFacts
  <1> QED BY <1>2, <1>4 DEF D

\* A way can begin with one more step.
LEMMA StepBefore ==
  ASSUME NEW q, IsEdgeQuery(q), NEW s \in EdgeSteps(q), NEW t \in q.net.edges
  PROVE  EdgeFrom(q, s.from)[t] <= s.c + EdgeFrom(q, s.to)[t]
  <1> DEFINE E == q.net.edges
             A == EdgeFrom(q, s.from)
             B == EdgeFrom(q, s.to)
             S == {p \in E \X Nat : A[p[1]] <= s.c + p[2]}
  <1>1. s.from \in E /\ s.to \in E /\ s.c \in Nat BY EdgeStepsAre DEF StepsOf
  <1>2. A \in [E -> 0..Inf] /\ A[s.from] = 0
        /\ \A z \in EdgeSteps(q) : A[z.to] <= A[z.from] + z.c
    BY <1>1, EdgeFromFacts
  <1>3. B \in [E -> 0..Inf] BY <1>1, EdgeFromFacts
  <1>4. \A T : /\ <<s.to, 0>> \in T
               /\ \A x \in E, c \in Nat, z \in EdgeSteps(q) :
                    <<x, c>> \in T /\ z.from = x /\ c + z.c < Inf => <<z.to, c + z.c>> \in T
               => \A x \in E : B[x] < Inf => <<x, B[x]>> \in T
    BY <1>1, EdgeFromFacts
  <1> HIDE DEF A, B
  <1>5. <<s.to, 0>> \in S
    <2>1. A[s.to] <= A[s.from] + s.c BY <1>2
    <2> QED BY <2>1, <1>1, <1>2
  <1>6. ASSUME NEW x \in E, NEW c \in Nat, NEW z \in EdgeSteps(q),
               <<x, c>> \in S, z.from = x, c + z.c < Inf
        PROVE  <<z.to, c + z.c>> \in S
    <2>1. z.to \in E /\ z.c \in Nat BY EdgeStepsAre DEF StepsOf
    <2>2. A[z.to] <= A[x] + z.c BY <1>2, <1>6
    <2>3. A[x] <= s.c + c BY <1>6
    <2>4. A[z.to] \in 0..Inf /\ A[x] \in 0..Inf BY <1>2, <2>1
    <2>5. A[z.to] <= s.c + (c + z.c) BY <2>1, <2>2, <2>3, <2>4, <1>1
    <2> QED BY <2>1, <2>5
  <1>7. A[t] <= s.c + B[t]
    <2>1. A[t] \in 0..Inf /\ B[t] \in 0..Inf BY <1>2, <1>3
    <2>2. CASE B[t] < Inf
      <3> HIDE DEF S
      <3>1. <<t, B[t]>> \in S BY <2>2, <1>4, <1>5, <1>6
      <3> QED BY <3>1 DEF S
    <2>3. CASE ~ (B[t] < Inf) BY <2>1, <2>3, <1>1, InfAssumption
    <2> QED BY <2>2, <2>3
  <1> QED BY <1>7 DEF A, B

\* So that the nearest edge is no farther than by way of another.
LEMMA NearStep ==
  ASSUME NEW q, IsEdgeQuery(q), NEW s \in EdgeSteps(q)
  PROVE  EdgeNear(q, s.from) <= EdgeNear(q, s.to) + s.c
  <1>1. s.from \in q.net.edges /\ s.to \in q.net.edges /\ s.c \in Nat
    BY EdgeStepsAre DEF StepsOf
  <1>2. EdgeNear(q, s.from) \in 0..Inf /\ EdgeNear(q, s.to) \in 0..Inf
    BY <1>1, EdgeNearIs
  <1>3. CASE EdgeNear(q, s.to) < Inf
    <2>1. PICK t \in q.src : EdgeFrom(q, s.to)[t] = EdgeNear(q, s.to)
      BY <1>1, <1>3, EdgeNearIs
    <2>2. t \in q.net.edges BY DEF IsEdgeQuery
    <2>3. EdgeFrom(q, s.from)[t] <= s.c + EdgeNear(q, s.to) BY <2>1, <2>2, StepBefore
    <2>4. EdgeNear(q, s.from) <= EdgeFrom(q, s.from)[t] BY <1>1, EdgeNearIs
    <2>5. EdgeFrom(q, s.from)[t] \in 0..Inf BY <1>1, <2>2, EdgeFromFacts
    <2> QED BY <2>3, <2>4, <2>5, <1>1, <1>2
  <1>4. CASE ~ (EdgeNear(q, s.to) < Inf) BY <1>1, <1>2, <1>4, InfAssumption
  <1> QED BY <1>3, <1>4

\* What is entered costs what some way to an edge the search is from costs.
RevBound ==
  /\ \A r \in eq : EdgeNear(equery, r.e) <= r.d
  /\ \A e \in DOMAIN esettled : EdgeNear(equery, e) <= esettled[e].d

\* The queue is the frontier of ways that are followed back.
RevFrontier ==
  /\ \A x \in equery.src : EdgeKnown(x, 0)
  /\ \A x \in DOMAIN esettled, s \in EdgeSteps(equery) :
       s.to = x /\ esettled[x].d + s.c < Inf => EdgeKnown(s.from, esettled[x].d + s.c)

\* What holds of a search backward; it ends when its queue is empty.
RevLoop == RevBound /\ RevFrontier /\ efound = 0 /\ (over => eq = {})

\* The edges before r's are those a step comes from.
LEMMA BeforeIs ==
  ASSUME IsEdgeQuery(equery), Backward(equery), NEW r, EdgeEntry(r)
  PROVE  /\ \A p \in Raised(Pushed(r), r.key) : \E s \in EdgeSteps(equery) :
              s.from = p.e /\ s.to = r.e /\ p.d = r.d + s.c
         /\ \A s \in EdgeSteps(equery) : s.to = r.e /\ r.d + s.c < Inf =>
              \E p \in Raised(Pushed(r), r.key) : p.e = s.from /\ p.d = r.d + s.c
  <1>0. equery.form = "rev" /\ equery.net.directed BY DEF Backward
  <1>1. r.d \in Nat /\ r.e \in equery.net.edges BY DEF EdgeEntry, EdgeEntryAt
  <1>2. r.e.c \in Nat BY <1>1 DEF IsEdgeQuery, IsNet
  <1> DEFINE Before(f) == [e |-> f, parent |-> r.e, n |-> r.e.from, d |-> r.d + r.e.c,
                           dwi |-> 0, key |-> 0]
             F == {g \in AdjIn(equery.net, r.e.from) \ {r.e} :
                     TurnCost(equery, g, r.e) < Inf /\ r.d + r.e.c < Inf}
  <1>3. Pushed(r) = {Before(f) : f \in F} BY <1>0 DEF Pushed, RelaxedInv
  <1>4. ASSUME NEW f \in F
        PROVE  \E s \in EdgeSteps(equery) : s.from = f /\ s.to = r.e /\ s.c = r.e.c
    <2>1. f \in equery.net.edges /\ f.to = r.e.from /\ f # r.e BY <1>0 DEF AdjIn
    <2>2. <<f, r.e>> \notin equery.ban BY InfAssumption DEF TurnCost
    <2>3. f.to \in EndsOf(equery, f) BY DEF EndsOf
    <2>4. r.e \in AdjOut(equery.net, f.to) BY <2>1, <1>1 DEF AdjOut
    <2> QED BY <2>1, <2>2, <2>3, <2>4, <1>1, EdgeStepsAre
  <1>5. ASSUME NEW s \in EdgeSteps(equery), s.to = r.e, r.d + s.c < Inf
        PROVE  s.from \in F /\ s.c = r.e.c
    <2>1. s.c = r.e.c /\ s.from # r.e /\ <<s.from, r.e>> \notin equery.ban
          /\ s.from \in equery.net.edges
      BY <1>5, EdgeStepsAre DEF StepsOf
    <2>2. PICK x \in EndsOf(equery, s.from) : r.e \in AdjOut(equery.net, x)
      BY <1>5, EdgeStepsAre
    <2>3. x = s.from.to BY <2>2, <1>0 DEF EndsOf
    <2>4. s.from.to = r.e.from BY <2>2, <2>3, <1>0 DEF AdjOut
    <2>5. s.from \in AdjIn(equery.net, r.e.from) BY <2>1, <2>4 DEF AdjIn
    <2>6. r.e.c < Inf BY <2>1, <1>1, <1>2, <1>5, InfAssumption
    <2>7. TurnCost(equery, s.from, r.e) < Inf BY <2>1, <2>6 DEF TurnCost
    <2> QED BY <2>1, <2>5, <2>7, <1>5
  <1> HIDE DEF F
  <1>6. ASSUME NEW p \in Raised(Pushed(r), r.key)
        PROVE  \E s \in EdgeSteps(equery) : s.from = p.e /\ s.to = r.e /\ p.d = r.d + s.c
    <2>1. \A g \in Pushed(r) : g.key \in Nat BY <1>3
    <2>2. PICK g \in Pushed(r) : p = [g EXCEPT !.key = RaisedTo(g.key, r.key)]
      BY <2>1, RaisedIs
    <2>3. PICK f \in F : g = Before(f) BY <1>3
    <2>4. p.e = f /\ p.d = r.d + r.e.c BY <2>2, <2>3
    <2> QED BY <2>4, <1>4
  <1>7. ASSUME NEW s \in EdgeSteps(equery), s.to = r.e, r.d + s.c < Inf
        PROVE  \E p \in Raised(Pushed(r), r.key) : p.e = s.from /\ p.d = r.d + s.c
    <2>1. s.from \in F /\ s.c = r.e.c BY <1>5, <1>7
    <2> DEFINE g == Before(s.from)
               p == [g EXCEPT !.key = RaisedTo(g.key, r.key)]
    <2>2. g \in Pushed(r) BY <2>1, <1>3
    <2>3. p \in Raised(Pushed(r), r.key) BY <2>2 DEF Raised, RaisedTo
    <2>4. p.e = s.from /\ p.d = r.d + s.c BY <2>1
    <2> HIDE DEF p
    <2> QED BY <2>3, <2>4
  <1> QED BY <1>6, <1>7

\* The start edges are the frontier, at no cost.
LEMMA RevStart ==
  ASSUME NEW q \in EdgeQueries, EdgeStart(q), Backward(q),
         esettled = <<>>, efound = 0, over = FALSE
  PROVE  RevLoop'
  <1>0. IsEdgeQuery(q) /\ q.form = "rev" /\ q.free BY EdgeQueryIs DEF Backward
  <1>1. equery' = q /\ esettled' = <<>> /\ efound' = 0 /\ over' = FALSE /\ DOMAIN esettled' = {}
    BY EmptyFunction DEF EdgeStart
  <1>2. eq' = {Begin(q, x) : x \in q.src} BY <1>0 DEF EdgeStart
  <1>3. ASSUME NEW x \in q.src PROVE Begin(q, x).e = x /\ Begin(q, x).d = 0
    BY <1>0 DEF Begin, Inits, FirstCost
  <1>4. ASSUME NEW x \in q.src PROVE EdgeNear(q, x) <= 0
    <2>1. x \in q.net.edges BY <1>0 DEF IsEdgeQuery
    <2>2. EdgeNear(q, x) <= EdgeFrom(q, x)[x] BY <1>0, <2>1, EdgeNearIs
    <2>3. EdgeFrom(q, x)[x] = 0 BY <1>0, <2>1, EdgeFromFacts
    <2> QED BY <2>2, <2>3
  <1>5. ASSUME NEW r \in eq' PROVE EdgeNear(q, r.e) <= r.d
    <2>1. PICK x \in q.src : r = Begin(q, x) BY <1>2
    <2>2. r.e = x /\ r.d = 0 BY <2>1, <1>3
    <2> QED BY <2>2, <1>4
  <1>6. ASSUME NEW x \in q.src PROVE EdgeKnownIn(eq', esettled', x, 0)
    <2>1. Begin(q, x) \in eq' /\ Begin(q, x).e = x /\ Begin(q, x).d <= 0 BY <1>2, <1>3
    <2> QED BY <2>1 DEF EdgeKnownIn
  <1>7. RevBound' BY <1>1, <1>5 DEF RevBound
  <1>8. RevFrontier' BY <1>1, <1>6 DEF RevFrontier, EdgeKnown
  <1> QED BY <1>1, <1>7, <1>8 DEF RevLoop

\* A search backward never has an entry out of reach.
LEMMA RevGiveUp ==
  ASSUME EdgeGiveUp, Backward(equery), RevLoop
  PROVE  RevLoop'
  <1>1. /\ equery' = equery /\ eq' = eq /\ esettled' = esettled /\ efound' = efound
        /\ over' = TRUE
    BY DEF EdgeGiveUp
  <1>2. eq = {} BY DEF EdgeGiveUp, OutOfReach, Backward, Inits
  <1>3. RevBound' BY <1>1 DEF RevLoop, RevBound
  <1>4. RevFrontier' BY <1>1 DEF RevLoop, RevFrontier, EdgeKnown
  <1> QED BY <1>1, <1>2, <1>3, <1>4 DEF RevLoop

\* What is known stays known, so that the frontier stays as far as it was.
LEMMA RevFrontierKept ==
  ASSUME EdgeTypes, RevFrontier, equery' = equery,
         \A x, c : c \in Nat /\ EdgeKnown(x, c) => EdgeKnownIn(eq', esettled', x, c)
  PROVE  /\ \A x \in equery.src : EdgeKnownIn(eq', esettled', x, 0)
         /\ \A x \in DOMAIN esettled, s \in EdgeSteps(equery) :
              s.to = x /\ esettled[x].d + s.c < Inf =>
                EdgeKnownIn(eq', esettled', s.from, esettled[x].d + s.c)
  <1>1. IsEdgeQuery(equery) BY EdgeQueryIs DEF EdgeTypes
  <1>2. ASSUME NEW x \in DOMAIN esettled, NEW s \in EdgeSteps(equery), s.to = x,
               esettled[x].d + s.c < Inf
        PROVE  EdgeKnownIn(eq', esettled', s.from, esettled[x].d + s.c)
    <2>1. s.c \in Nat BY <1>1, EdgeStepsAre DEF StepsOf
    <2>2. esettled[x].d \in Nat BY DEF EdgeTypes, EdgeEntries, EdgeEntry, EdgeEntryAt
    <2>3. esettled[x].d + s.c \in Nat BY <2>1, <2>2
    <2>4. EdgeKnown(s.from, esettled[x].d + s.c) BY <1>2 DEF RevFrontier
    <2> QED BY <2>3, <2>4
  <1>3. \A x \in equery.src : EdgeKnownIn(eq', esettled', x, 0) BY DEF RevFrontier
  <1> QED BY <1>2, <1>3

\* An entry that is thrown away is not missed.
LEMMA RevSkip ==
  ASSUME EdgeTypes, EdgeSkip, Backward(equery), RevLoop
  PROVE  RevLoop'
  <1>1. PICK r \in ETops : EStale(r) /\ eq' = eq \ {r} BY DEF EdgeSkip
  <1>2. equery' = equery /\ esettled' = esettled /\ efound' = efound /\ over' = over /\ ~over
    BY DEF EdgeSkip, Searching
  <1>3. r \in eq /\ r.d \in Nat BY DEF ETops, EdgeTypes, EdgeEntries, EdgeEntry, EdgeEntryAt
  <1>4. r.e \in DOMAIN esettled /\ esettled[r.e].d <= r.d BY <1>1 DEF EStale
  <1>5. ASSUME NEW x, NEW c \in Nat, EdgeKnown(x, c) PROVE EdgeKnownIn(eq', esettled', x, c)
    <2>1. CASE x \in DOMAIN esettled /\ esettled[x].d <= c BY <2>1, <1>2 DEF EdgeKnownIn
    <2>2. ASSUME NEW e \in eq, e.e = x, e.d <= c PROVE EdgeKnownIn(eq', esettled', x, c)
      <3>1. CASE e = r
        <4>1. esettled[r.e].d \in Nat
          BY <1>4 DEF EdgeTypes, EdgeEntries, EdgeEntry, EdgeEntryAt
        <4>2. esettled[x].d <= c BY <3>1, <4>1, <2>2, <1>3, <1>4
        <4> QED BY <3>1, <4>2, <2>2, <1>2, <1>4 DEF EdgeKnownIn
      <3>2. CASE e # r BY <3>2, <2>2, <1>1 DEF EdgeKnownIn
      <3> QED BY <3>1, <3>2
    <2> QED BY <2>1, <2>2, <1>5 DEF EdgeKnown, EdgeKnownIn
  <1>6. RevBound' BY <1>1, <1>2 DEF RevLoop, RevBound
  <1>7. RevFrontier'
    BY <1>2, <1>5, RevFrontierKept DEF RevLoop, RevFrontier, EdgeKnown
  <1> QED BY <1>2, <1>6, <1>7 DEF RevLoop

\* The steps to the edge settled are queued.
LEMMA RevSettle ==
  ASSUME EdgeTypes, EdgeSettle, Backward(equery), RevLoop
  PROVE  RevLoop'
  <1>0. IsEdgeQuery(equery) /\ ~Each(equery) /\ Targets(equery) = {}
    BY EdgeQueryIs DEF EdgeTypes, Backward, Each, Targets
  <1>1. PICK r : EdgeSettleBy(r) BY EdgeSettleHow
  <1>2. r \in eq /\ EdgeEntry(r) /\ equery' = equery /\ esettled' = EdgeDone(r)
    BY <1>1 DEF EdgeSettleBy, ETops, EdgeTypes, EdgeEntries
  <1>3. r.d \in Nat /\ r.e \in equery.net.edges BY <1>2 DEF EdgeEntry, EdgeEntryAt
  <1>4. EdgeHits(r) = 0 BY <1>0 DEF EdgeHits, RevLoop
  <1>5. ~EdgeIsLast(r) BY <1>0, <1>4 DEF EdgeIsLast
  <1>6. efound' = 0 /\ ~over' /\ eq' = (eq \ {r}) \cup Raised(Pushed(r), r.key)
    BY <1>1, <1>4, <1>5 DEF EdgeSettleBy
  <1>7. EdgeNear(equery, r.e) <= r.d BY <1>2 DEF RevLoop, RevBound
  <1>8. ASSUME NEW p \in Raised(Pushed(r), r.key) PROVE EdgeNear(equery, p.e) <= p.d
    <2>1. PICK s \in EdgeSteps(equery) : s.from = p.e /\ s.to = r.e /\ p.d = r.d + s.c
      BY <1>0, <1>2, BeforeIs
    <2>2. s.from \in equery.net.edges /\ s.c \in Nat BY <1>0, EdgeStepsAre DEF StepsOf
    <2>3. EdgeNear(equery, p.e) <= EdgeNear(equery, r.e) + s.c BY <1>0, <2>1, NearStep
    <2>4. EdgeNear(equery, p.e) \in 0..Inf /\ EdgeNear(equery, r.e) \in 0..Inf
      BY <1>0, <1>3, <2>1, <2>2, EdgeNearIs
    <2> QED BY <2>1, <2>2, <2>3, <2>4, <1>3, <1>7
  <1>9. ASSUME NEW e \in DOMAIN esettled' PROVE EdgeNear(equery, e) <= esettled'[e].d
    BY <1>2, <1>7 DEF EdgeDone, RevLoop, RevBound
  <1>10. RevBound' BY <1>2, <1>6, <1>8, <1>9 DEF RevLoop, RevBound
  <1>11. /\ \A x \in equery.src : EdgeKnownIn(eq', esettled', x, 0)
         /\ \A x \in DOMAIN esettled, s \in EdgeSteps(equery) :
              s.to = x /\ esettled[x].d + s.c < Inf =>
                EdgeKnownIn(eq', esettled', s.from, esettled[x].d + s.c)
    <2>1. \A x, c : c \in Nat /\ EdgeKnown(x, c) => EdgeKnownIn(eq', esettled', x, c)
      BY <1>1, EdgeSettleKeepsKnown
    <2> QED BY <2>1, <1>2, RevFrontierKept DEF RevLoop
  <1>12. ASSUME NEW x \in DOMAIN esettled', NEW s \in EdgeSteps(equery), s.to = x,
                esettled'[x].d + s.c < Inf
         PROVE  EdgeKnownIn(eq', esettled', s.from, esettled'[x].d + s.c)
    <2>1. CASE x = r.e
      <3>1. esettled'[x] = r BY <2>1, <1>2, <1>12 DEF EdgeDone
      <3>2. PICK p \in Raised(Pushed(r), r.key) : p.e = s.from /\ p.d = r.d + s.c
        BY <3>1, <2>1, <1>0, <1>2, <1>12, BeforeIs
      <3>3. s.c \in Nat BY <1>0, EdgeStepsAre DEF StepsOf
      <3>4. p \in eq' /\ p.d <= r.d + s.c BY <3>2, <3>3, <1>3, <1>6
      <3> QED BY <3>1, <3>2, <3>4 DEF EdgeKnownIn
    <2>2. CASE x # r.e
      <3>1. x \in DOMAIN esettled /\ esettled'[x] = esettled[x]
        BY <2>2, <1>2, <1>12 DEF EdgeDone
      <3> QED BY <3>1, <1>11, <1>12
    <2> QED BY <2>1, <2>2
  <1>13. RevFrontier' BY <1>2, <1>11, <1>12 DEF RevFrontier, EdgeKnown
  <1> QED BY <1>6, <1>10, <1>13 DEF RevLoop

\* With the queue empty, a way to a settled edge has been followed to its front.
LEMMA RevReached ==
  ASSUME EdgeTypes, RevLoop, eq = {}, NEW e \in equery.net.edges,
         NEW t \in DOMAIN esettled, esettled[t].d + EdgeFrom(equery, e)[t] < Inf
  PROVE  e \in DOMAIN esettled /\ esettled[e].d <= esettled[t].d + EdgeFrom(equery, e)[t]
  <1> DEFINE E == equery.net.edges
             Attained(c) == e \in DOMAIN esettled /\ esettled[e].d <= c
             S == {p \in E \X Nat : \A d \in Nat :
                     /\ p[1] \in DOMAIN esettled /\ esettled[p[1]].d <= d /\ d + p[2] < Inf
                     => Attained(d + p[2])}
  <1>0. IsEdgeQuery(equery) BY EdgeQueryIs DEF EdgeTypes
  <1>1. ASSUME NEW x \in DOMAIN esettled PROVE esettled[x].d \in Nat /\ x \in E
    BY DEF EdgeTypes, EdgeEntries, EdgeEntry, EdgeEntryAt
  <1>2. <<e, 0>> \in S OBVIOUS
  <1>3. ASSUME NEW x \in E, NEW c \in Nat, NEW s \in EdgeSteps(equery),
               <<x, c>> \in S, s.from = x, c + s.c < Inf
        PROVE  <<s.to, c + s.c>> \in S
    <2>1. s.to \in E /\ s.c \in Nat BY <1>0, EdgeStepsAre DEF StepsOf
    <2>2. ASSUME NEW d \in Nat, s.to \in DOMAIN esettled, esettled[s.to].d <= d,
                 d + (c + s.c) < Inf
          PROVE  Attained(d + (c + s.c))
      <3>1. esettled[s.to].d \in Nat BY <2>2, <1>1
      <3>2. esettled[s.to].d + s.c < Inf BY <2>1, <2>2, <3>1, InfAssumption
      <3>3. EdgeKnown(x, esettled[s.to].d + s.c)
        BY <2>2, <3>2, <1>3 DEF RevLoop, RevFrontier
      <3>4. x \in DOMAIN esettled /\ esettled[x].d <= esettled[s.to].d + s.c
        BY <3>3 DEF EdgeKnown, EdgeKnownIn
      <3>5. esettled[x].d \in Nat BY <3>4, <1>1
      <3>6. esettled[x].d <= d + s.c /\ d + s.c \in Nat BY <3>1, <3>4, <3>5, <2>1, <2>2
      <3>7. (d + s.c) + c < Inf /\ (d + s.c) + c = d + (c + s.c) BY <2>1, <2>2, InfAssumption
      <3>8. Attained((d + s.c) + c) BY <3>4, <3>6, <3>7, <1>3
      <3> QED BY <3>7, <3>8
    <2>3. c + s.c \in Nat BY <2>1
    <2> HIDE DEF Attained
    <2> QED BY <2>1, <2>2, <2>3
  <1>4. t \in E /\ esettled[t].d \in Nat BY <1>1
  <1>5. EdgeFrom(equery, e)[t] \in 0..Inf
    <2>1. EdgeFrom(equery, e) \in [E -> 0..Inf] BY ONLY <1>0, e \in E, EdgeFromFacts
    <2> QED BY ONLY <2>1, <1>4
  <1>6. EdgeFrom(equery, e)[t] < Inf BY <1>4, <1>5, InfAssumption
  <1>7. <<t, EdgeFrom(equery, e)[t]>> \in S
    <2> HIDE DEF S
    <2> QED BY <1>0, <1>2, <1>3, <1>4, <1>6, EdgeFromFacts
  <1>8. esettled[t].d <= esettled[t].d BY <1>4
  <1> QED BY <1>4, <1>7, <1>8

\* What the search backward returns is what searches forward do.
LEMMA RevIsRight ==
  ASSUME equery # NoEdgeQuery => EdgeTypes /\ (Backward(equery) => RevLoop)
  PROVE  RevIsForward
  <1> SUFFICES ASSUME Returned, equery.form = "rev", equery.free, equery.net.directed
               PROVE  \A e \in equery.net.edges :
                        IF e \in DOMAIN costs THEN costs[e] = EdgeNear(equery, e)
                        ELSE EdgeNear(equery, e) = Inf
    BY DEF RevIsForward, EdgeNear, EdgeFrom
  <1>1. EdgeTypes /\ RevLoop /\ eq = {} BY DEF Returned, Backward, RevLoop
  <1>2. IsEdgeQuery(equery) /\ ToAll(equery) BY <1>1, EdgeQueryIs DEF EdgeTypes, ToAll
  <1>3. costs = [e \in DOMAIN esettled |-> esettled[e].d]
    BY <1>1, <1>2 DEF EdgeTypes, CostsFit
  <1>4. ASSUME NEW t \in equery.src PROVE t \in DOMAIN esettled /\ esettled[t].d = 0
    <2>1. t \in DOMAIN esettled /\ esettled[t].d <= 0
      BY <1>1 DEF RevLoop, RevFrontier, EdgeKnown, EdgeKnownIn
    <2>2. esettled[t].d \in Nat
      BY <2>1, <1>1 DEF EdgeTypes, EdgeEntries, EdgeEntry, EdgeEntryAt
    <2> QED BY <2>1, <2>2
  <1>5. ASSUME NEW e \in equery.net.edges, EdgeNear(equery, e) < Inf
        PROVE  e \in DOMAIN esettled /\ esettled[e].d <= EdgeNear(equery, e)
    <2>1. PICK t \in equery.src : EdgeFrom(equery, e)[t] = EdgeNear(equery, e)
      BY <1>2, <1>5, EdgeNearIs
    <2>2. EdgeNear(equery, e) \in 0..Inf BY <1>2, EdgeNearIs
    <2>3. esettled[t].d + EdgeFrom(equery, e)[t] = EdgeNear(equery, e)
      BY <2>1, <2>2, <1>4
    <2> QED BY <2>3, <1>1, <1>4, <1>5, RevReached
  <1>6. ASSUME NEW e \in equery.net.edges
        PROVE  IF e \in DOMAIN costs THEN costs[e] = EdgeNear(equery, e)
               ELSE EdgeNear(equery, e) = Inf
    <2>1. EdgeNear(equery, e) \in 0..Inf BY <1>2, EdgeNearIs
    <2>2. CASE e \in DOMAIN esettled
      <3>1. /\ esettled[e].e = e /\ EdgeEntry(esettled[e])
            /\ EdgeNear(equery, e) <= esettled[e].d
        BY <2>2, <1>1 DEF EdgeTypes, EdgeEntries, RevLoop, RevBound
      <3>2. /\ esettled[e].d \in Nat
            /\ esettled[e].d < Inf \/ (e \in equery.src /\ esettled[e].d = Begun(equery)[e])
        BY <3>1, <1>2 DEF EdgeEntry, EdgeEntryAt, ToAll, Inits
      <3>3. esettled[e].d < Inf BY <3>2, <1>4, InfAssumption
      <3>4. EdgeNear(equery, e) < Inf BY <2>1, <3>1, <3>2, <3>3, InfAssumption
      <3>5. esettled[e].d <= EdgeNear(equery, e) BY <3>4, <1>5
      <3>6. esettled[e].d = EdgeNear(equery, e) BY <2>1, <3>1, <3>2, <3>5
      <3> QED BY <3>6, <2>2, <1>3
    <2>3. CASE e \notin DOMAIN esettled
      <3>1. ~ (EdgeNear(equery, e) < Inf) BY <2>3, <1>5
      <3>2. EdgeNear(equery, e) = Inf BY <2>1, <3>1, InfAssumption
      <3>3. DOMAIN costs = DOMAIN esettled BY <1>3
      <3> QED BY <3>2, <3>3, <2>3
    <2> QED BY <2>2, <2>3
  <1> QED BY <1>6

\* The inductive invariant with the search backward.
EdgeRevInv == EdgeIInv /\ (equery # NoEdgeQuery /\ Backward(equery) => RevLoop)

LEMMA EdgeRevStep == ASSUME EdgeRevInv, [EdgeNext]_edgeVars PROVE EdgeRevInv'
  <1>0. EdgeIInv' BY EdgeStep DEF EdgeRevInv
  <1>00. equery # NoEdgeQuery => EdgeTypes BY DEF EdgeRevInv, EdgeIInv
  <1> SUFFICES ASSUME equery' # NoEdgeQuery, Backward(equery') PROVE RevLoop'
    BY <1>0 DEF EdgeRevInv
  <1>1. ASSUME NEW q \in EdgeQueries, equery = NoEdgeQuery, EdgeStart(q) PROVE RevLoop'
    <2>1. esettled = <<>> /\ efound = 0 /\ over = FALSE BY <1>1 DEF EdgeRevInv, EdgeIInv
    <2>2. equery' = q BY <1>1 DEF EdgeStart
    <2>3. Backward(q) BY <2>2
    <2> QED BY <2>1, <2>3, <1>1, RevStart
  <1>2. CASE EdgeRound
    <2>1. equery' = equery BY <1>2 DEF EdgeRound, EdgeGiveUp, EdgeSkip, EdgeSettle
    <2>2. EdgeTypes /\ Backward(equery) /\ RevLoop
      BY <2>1, <1>00 DEF EdgeRevInv
    <2> QED BY <2>2, <1>2, RevGiveUp, RevSkip, RevSettle DEF EdgeRound
  <1>3. CASE UNCHANGED edgeVars
    <2>1. equery' = equery /\ eq' = eq /\ esettled' = esettled /\ efound' = efound /\ over' = over
      BY <1>3 DEF edgeVars
    <2>2. RevLoop BY <2>1 DEF EdgeRevInv
    <2>3. RevBound' BY <2>1, <2>2 DEF RevLoop, RevBound
    <2>4. RevFrontier' BY <2>1, <2>2 DEF RevLoop, RevFrontier, EdgeKnown
    <2> QED BY <2>1, <2>2, <2>3, <2>4 DEF RevLoop
  <1> QED BY <1>1, <1>2, <1>3 DEF EdgeNext

-----------------------------------------------------------------------------
(* EdgeDijkstra: calls from a node. *)

\* What matters of such a call: it is from the edges out of the node, which are
\* counted, to the edges into the others.
IsNodeCall(q, n, ts) ==
  /\ IsEdgeQuery(q) /\ n \in q.net.nodes /\ ts \subseteq q.net.nodes /\ n \notin ts
  /\ q.form = "set" /\ q.src = AdjOut(q.net, n) /\ q.dst = InEdges(q.net, ts)
  /\ ~q.free /\ q.ban = {}

\* An edge goes on at all nodes it is an edge into.
LEMMA IntoEnds ==
  ASSUME NEW q, IsEdgeQuery(q), NEW e \in q.net.edges, NEW x
  PROVE  e \in AdjIn(q.net, x) <=> x \in EndsOf(q, e)
  BY DEF AdjIn, EndsOf

\* A way from node to node is one from edge to edge: it comes to its end by an edge.
LEMMA NodeWayIsEdgeWay ==
  ASSUME NEW q, NEW n, NEW ts, IsNodeCall(q, n, ts), NEW t \in ts,
         DistFrom(q.net, {n})[t] < Inf
  PROVE  \E e \in AdjIn(q.net, t) : EdgeCosts(q)[e] <= DistFrom(q.net, {n})[t]
  <1> DEFINE V == q.net.nodes
             C == EdgeCosts(q)
             D == DistFrom(q.net, {n})
             S == {p \in V \X Nat : p[1] = n \/ \E e \in AdjIn(q.net, p[1]) : C[e] <= p[2]}
  <1>0. IsEdgeQuery(q) /\ IsNet(q.net) /\ {n} \subseteq V /\ t \in V /\ t # n
    BY DEF IsNodeCall, IsEdgeQuery
  <1>1. /\ C \in [q.net.edges -> 0..Inf] /\ \A e \in q.src : C[e] <= Begun(q)[e]
        /\ \A z \in EdgeSteps(q) : C[z.to] <= C[z.from] + z.c
    BY <1>0, EdgeCostFacts
  <1>2. /\ D \in [V -> 0..Inf] /\ \A x \in {n} : D[x] = 0
        /\ \A T : /\ \A x \in {n} : <<x, 0>> \in T
                  /\ \A x \in V, c \in Nat, s \in NodeSteps(q.net) :
                       <<x, c>> \in T /\ s.from = x /\ c + s.c < Inf => <<s.to, c + s.c>> \in T
                  => \A x \in V : D[x] < Inf => <<x, D[x]>> \in T
    BY <1>0, DistFacts
  <1>3. ASSUME NEW s \in NodeSteps(q.net)
        PROVE  \E f \in q.net.edges :
                 /\ f \in AdjOut(q.net, s.from) /\ f \in AdjIn(q.net, s.to)
                 /\ s.c = f.c /\ s.c \in Nat /\ s.to \in V
    BY <1>0 DEF NodeSteps, AdjOut, AdjIn, IsNet
  <1> HIDE DEF C, D
  <1>4. ASSUME NEW x \in V, NEW c \in Nat, NEW s \in NodeSteps(q.net),
               <<x, c>> \in S, s.from = x, c + s.c < Inf
        PROVE  <<s.to, c + s.c>> \in S
    <2>1. PICK f \in q.net.edges : /\ f \in AdjOut(q.net, x) /\ f \in AdjIn(q.net, s.to)
                                   /\ s.c = f.c /\ s.c \in Nat /\ s.to \in V
      BY <1>3, <1>4
    <2>2. C[f] <= c + s.c
      <3>1. C[f] \in 0..Inf BY <1>1
      <3>2. CASE x = n
        <4>1. f \in q.src /\ Begun(q)[f] = f.c
          BY <2>1, <3>2 DEF IsNodeCall, Begun, Inits, FirstCost
        <4>2. C[f] <= f.c BY <4>1, <1>1
        <4> QED BY <4>2, <3>1, <2>1
      <3>3. ASSUME NEW e \in AdjIn(q.net, x), C[e] <= c PROVE C[f] <= c + s.c
        <4>1. e \in q.net.edges BY DEF AdjIn
        <4>2. C[e] \in 0..Inf BY <4>1, <1>1
        <4>3. CASE e = f BY <4>3, <4>2, <3>3, <2>1
        <4>4. CASE e # f
          <5>1. x \in EndsOf(q, e) BY <1>0, <4>1, IntoEnds
          <5>2. <<e, f>> \notin q.ban BY DEF IsNodeCall
          <5>3. PICK z \in EdgeSteps(q) : z.from = e /\ z.to = f /\ z.c = f.c
            BY <1>0, <2>1, <4>1, <4>4, <5>1, <5>2, EdgeStepsAre
          <5>4. C[f] <= C[e] + f.c BY <5>3, <1>1
          <5> QED BY <5>4, <4>2, <3>1, <3>3, <2>1
        <4> QED BY <4>3, <4>4
      <3> QED BY <3>2, <3>3, <1>4
    <2> QED BY <2>1, <2>2
  <1>5. \A x \in {n} : <<x, 0>> \in S BY <1>0
  <1>6. <<t, D[t]>> \in S
    <2>1. D[t] < Inf BY DEF D
    <2> HIDE DEF S
    <2> QED BY <2>1, <1>0, <1>2, <1>4, <1>5
  <1>7. \E e \in AdjIn(q.net, t) : C[e] <= D[t] BY <1>6, <1>0
  <1> QED BY <1>7 DEF C, D

\* A way from edge to edge is one from node to node.
LEMMA EdgeWayIsNodeWay ==
  ASSUME NEW q, NEW n, NEW ts, IsNodeCall(q, n, ts), NEW e \in q.net.edges,
         EdgeCosts(q)[e] < Inf, NEW x \in EndsOf(q, e)
  PROVE  DistFrom(q.net, {n})[x] <= EdgeCosts(q)[e]
  <1> DEFINE E == q.net.edges
             C == EdgeCosts(q)
             D == DistFrom(q.net, {n})
             S == {p \in E \X Nat : \A y \in EndsOf(q, p[1]) : D[y] <= p[2]}
  <1>0. IsEdgeQuery(q) /\ IsNet(q.net) /\ {n} \subseteq q.net.nodes
    BY DEF IsNodeCall, IsEdgeQuery
  <1>1. D \in [q.net.nodes -> 0..Inf] /\ D[n] = 0
        /\ \A s \in NodeSteps(q.net) : D[s.to] <= D[s.from] + s.c
    BY <1>0, DistFacts
  <1>2. \A T : /\ \A y \in q.src : Begun(q)[y] < Inf => <<y, Begun(q)[y]>> \in T
               /\ \A y \in E, c \in Nat, s \in EdgeSteps(q) :
                    <<y, c>> \in T /\ s.from = y /\ c + s.c < Inf => <<s.to, c + s.c>> \in T
               => \A y \in E : C[y] < Inf => <<y, C[y]>> \in T
    BY <1>0, EdgeCostFacts
  <1> HIDE DEF C, D
  <1>3. ASSUME NEW f \in E, NEW y, f \in AdjOut(q.net, y), NEW z \in EndsOf(q, f)
        PROVE  /\ f.c \in Nat /\ y \in q.net.nodes /\ z \in q.net.nodes
               /\ D[y] \in 0..Inf /\ D[z] \in 0..Inf /\ D[z] <= D[y] + f.c
    <2>1. f.c \in Nat /\ f.from \in q.net.nodes /\ f.to \in q.net.nodes
      BY <1>0 DEF IsNet
    <2>2. y \in q.net.nodes /\ z \in q.net.nodes BY <2>1, <1>3 DEF AdjOut, EndsOf
    <2>3. D[y] \in 0..Inf /\ D[z] \in 0..Inf BY <2>2, <1>1
    <2>4. CASE z = y
      <3>1. D[z] = D[y] BY <2>4
      <3> QED BY <3>1, <2>1, <2>2, <2>3
    <2>5. CASE z # y
      <3>1. \E s \in NodeSteps(q.net) : s.from = y /\ s.to = z /\ s.c = f.c
        <4>1. CASE f.from = y /\ f.to = z
          <5>1. [from |-> f.from, to |-> f.to, c |-> f.c] \in NodeSteps(q.net) BY DEF NodeSteps
          <5> QED BY <4>1, <5>1
        <4>2. CASE f.to = y /\ f.from = z /\ ~q.net.directed
          <5>1. [from |-> f.to, to |-> f.from, c |-> f.c] \in NodeSteps(q.net)
            BY <4>2 DEF NodeSteps
          <5> QED BY <4>2, <5>1
        <4> QED BY <4>1, <4>2, <2>5, <1>3 DEF AdjOut, EndsOf
      <3>2. D[z] <= D[y] + f.c BY <3>1, <1>1
      <3> QED BY <3>2, <2>1, <2>2, <2>3
    <2> QED BY <2>4, <2>5
  <1>4. ASSUME NEW f \in q.src, Begun(q)[f] < Inf PROVE <<f, Begun(q)[f]>> \in S
    <2>1. f \in E /\ f \in AdjOut(q.net, n) /\ Begun(q)[f] = f.c
      BY DEF IsNodeCall, AdjOut, Begun, Inits, FirstCost
    <2>2. \A z \in EndsOf(q, f) : f.c \in Nat /\ D[z] \in 0..Inf /\ D[z] <= D[n] + f.c
      BY <2>1, <1>3
    <2>3. f.c \in Nat BY <2>1, <1>0 DEF IsNet
    <2>4. \A z \in EndsOf(q, f) : D[z] <= f.c BY <2>2, <1>1
    <2> QED BY <2>1, <2>3, <2>4
  <1>5. ASSUME NEW y \in E, NEW c \in Nat, NEW s \in EdgeSteps(q),
               <<y, c>> \in S, s.from = y, c + s.c < Inf
        PROVE  <<s.to, c + s.c>> \in S
    <2>1. s.to \in E /\ s.c \in Nat /\ s.c = s.to.c BY <1>0, EdgeStepsAre DEF StepsOf
    <2>2. PICK w \in EndsOf(q, y) : s.to \in AdjOut(q.net, w) BY <1>0, <1>5, EdgeStepsAre
    <2>3. D[w] <= c BY <2>2, <1>5
    <2>4. ASSUME NEW z \in EndsOf(q, s.to) PROVE D[z] <= c + s.c
      <3>1. D[w] \in 0..Inf /\ D[z] \in 0..Inf /\ D[z] <= D[w] + s.c
        BY <2>1, <2>2, <1>3
      <3> QED BY <3>1, <2>1, <2>3
    <2> QED BY <2>1, <2>4
  <1>6. <<e, C[e]>> \in S
    <2>1. C[e] < Inf BY DEF C
    <2> HIDE DEF S
    <2> QED BY <2>1, <1>2, <1>4, <1>5
  <1>7. D[x] <= C[e] BY <1>6
  <1> QED BY <1>7 DEF C, D

\* So that the nearest edges into nodes are as far as the nearest of these nodes.
LEMMA NodeCallCosts ==
  ASSUME NEW q, NEW n, NEW ts, IsNodeCall(q, n, ts)
  PROVE  NearestCost(EdgeCosts(q), q.dst) = NearestCost(DistFrom(q.net, {n}), ts)
  <1> DEFINE C == EdgeCosts(q)
             D == DistFrom(q.net, {n})
             a == NearestCost(C, q.dst)
             b == NearestCost(D, ts)
  <1>0. IsEdgeQuery(q) /\ IsNet(q.net) /\ {n} \subseteq q.net.nodes /\ q.dst = InEdges(q.net, ts)
        /\ ts \subseteq q.net.nodes
    BY DEF IsNodeCall, IsEdgeQuery
  <1>1. \A e \in q.dst : C[e] \in 0..Inf /\ e \in q.net.edges
    BY <1>0, EdgeCostFacts DEF IsEdgeQuery
  <1>2. \A t \in ts : D[t] \in 0..Inf BY <1>0, DistFacts
  <1>3. ASSUME NEW t \in ts, D[t] < Inf PROVE \E e \in q.dst : C[e] <= D[t]
    <2>1. PICK e \in AdjIn(q.net, t) : C[e] <= D[t] BY <1>3, NodeWayIsEdgeWay
    <2>2. e \in q.dst BY <1>0 DEF InEdges
    <2> QED BY <2>1, <2>2
  <1>4. ASSUME NEW e \in q.dst, C[e] < Inf PROVE \E t \in ts : D[t] <= C[e]
    <2>1. PICK t \in ts : e \in AdjIn(q.net, t) BY <1>0 DEF InEdges
    <2>2. t \in EndsOf(q, e) BY <1>0, <1>1, <2>1, IntoEnds
    <2>3. D[t] <= C[e] BY <1>1, <1>4, <2>2, EdgeWayIsNodeWay
    <2> QED BY <2>3
  <1> HIDE DEF C, D
  <1>5. /\ a \in 0..Inf /\ \A e \in q.dst : a <= C[e]
        /\ a < Inf => \E e \in q.dst : C[e] = a
    BY <1>1, NearestCostFacts
  <1>6. /\ b \in 0..Inf /\ \A t \in ts : b <= D[t]
        /\ b < Inf => \E t \in ts : D[t] = b
    BY <1>2, NearestCostFacts
  <1> HIDE DEF a, b
  <1>7. a <= b
    <2>1. CASE b < Inf
      <3>1. PICK t \in ts : D[t] = b BY <2>1, <1>6
      <3>2. PICK e \in q.dst : C[e] <= D[t] BY <2>1, <3>1, <1>3
      <3> QED BY <3>1, <3>2, <1>1, <1>5, <1>6
    <2>2. CASE ~ (b < Inf) BY <2>2, <1>5, <1>6, InfAssumption
    <2> QED BY <2>1, <2>2
  <1>8. b <= a
    <2>1. CASE a < Inf
      <3>1. PICK e \in q.dst : C[e] = a BY <2>1, <1>5
      <3>2. PICK t \in ts : D[t] <= C[e] BY <2>1, <3>1, <1>4
      <3> QED BY <3>1, <3>2, <1>2, <1>5, <1>6
    <2>2. CASE ~ (a < Inf) BY <2>2, <1>5, <1>6, InfAssumption
    <2> QED BY <2>1, <2>2
  <1>9. a = b BY <1>5, <1>6, <1>7, <1>8
  <1> QED BY <1>9 DEF a, b, C, D

-----------------------------------------------------------------------------
(* EdgeDijkstra: the tree of the settled edges. *)

\* The forms whose lists of edges and nodes are a way.
HandsOut(q) == q.form \in {"set", "many", "init"} /\ (Inits(q) => q.net.directed)

\* The searches in which no edge is settled twice.
OneTime(q) == Each(q) /\ EdgeConsistent(q)

\* Where an entry comes from: the search begins with it, or its parent is settled and
\* left at node n for its edge; the parent may have become cheaper since.
WayOf(q, fin, r) ==
  \/ r.parent = NoEdge /\ r.n = NoNode /\ r.e \in q.src /\ r.d = Begun(q)[r.e]
  \/ /\ r.parent \in DOMAIN fin /\ r.n \in EndsOf(q, r.parent) /\ r.e \in AdjOut(q.net, r.n)
     /\ r.e # r.parent /\ <<r.parent, r.e>> \notin q.ban
     /\ fin[r.parent].d + r.e.c <= r.d
     /\ OneTime(q) => fin[r.parent].d + r.e.c = r.d

EdgeOrigins(q, queue, fin) ==
  /\ \A r \in queue : WayOf(q, fin, r)
  /\ \A e \in DOMAIN fin : WayOf(q, fin, fin[e])

\* A consistent heuristic has edges taken by rising keys, none of them raised.
InOrder(q, queue, l, fin) ==
  OneTime(q) => /\ \A r \in queue : r.key = r.d + q.heur[r.e]
                /\ \A e \in DOMAIN fin : fin[e].d + q.heur[e] <= l

\* A search for the nearest target ends with the first it settles.
OneHit(q, fin, end) == q.form = "set" => \A t, u \in DOMAIN fin \cap q.dst : end /\ t = u

\* Inductive on top of EdgeIInv.
EdgeTree ==
  equery # NoEdgeQuery /\ HandsOut(equery) =>
    /\ EdgeOrigins(equery, eq, esettled) /\ Timed(esettled, NoEdge)
    /\ InOrder(equery, eq, low, esettled) /\ OneHit(equery, esettled, over)

\* What is taken of an entry that is settled.
LEMMA TakenIs ==
  ASSUME EdgeTypes, NEW r, EdgeSettleBy(r)
  PROVE  /\ IsEdgeQuery(equery) /\ r \in eq /\ EdgeEntry(r) /\ low <= r.key /\ low \in Nat
         /\ r.e \in equery.net.edges /\ r.d \in Nat /\ r.key \in Nat /\ equery.heur[r.e] \in Nat
         /\ DOMAIN esettled' = DOMAIN esettled \cup {r.e} /\ esettled'[r.e] = r
         /\ \A e \in DOMAIN esettled : esettled[e].d \in Nat
                                       /\ (e # r.e => esettled'[e] = esettled[e])
         /\ r.e \in DOMAIN esettled => r.d < esettled[r.e].d
  <1>1. r \in eq /\ esettled' = EdgeDone(r) /\ ~EStale(r) BY DEF EdgeSettleBy, ETops
  <1>2. IsEdgeQuery(equery) BY EdgeQueryIs DEF EdgeTypes
  <1>3. EdgeEntry(r) /\ low <= r.key /\ low \in Nat BY <1>1 DEF EdgeTypes, EdgeEntries
  <1>4. r.e \in equery.net.edges /\ r.d \in Nat /\ r.key \in Nat
    BY <1>3 DEF EdgeEntry, EdgeEntryAt
  <1>5. equery.heur[r.e] \in Nat BY <1>2, <1>4 DEF IsEdgeQuery
  <1>6. /\ DOMAIN esettled' = DOMAIN esettled \cup {r.e} /\ esettled'[r.e] = r
        /\ \A e \in DOMAIN esettled : e # r.e => esettled'[e] = esettled[e]
    BY <1>1 DEF EdgeDone
  <1>7. \A e \in DOMAIN esettled : esettled[e].d \in Nat
    BY DEF EdgeTypes, EdgeEntries, EdgeEntry, EdgeEntryAt
  <1>8. r.e \in DOMAIN esettled => r.d < esettled[r.e].d
    <2> SUFFICES ASSUME r.e \in DOMAIN esettled PROVE r.d < esettled[r.e].d OBVIOUS
    <2>1. ~ (esettled[r.e].d <= r.d) BY <1>1 DEF EStale
    <2> QED BY <2>1, <1>4, <1>7
  <1> QED BY <1>1, <1>2, <1>3, <1>4, <1>5, <1>6, <1>7, <1>8

\* A settled edge that is settled again is one of a search that may do that.
LEMMA TakenAgain ==
  ASSUME EdgeTypes, InOrder(equery, eq, low, esettled), NEW r, EdgeSettleBy(r),
         r.e \in DOMAIN esettled
  PROVE  ~OneTime(equery)
  <1> SUFFICES ASSUME OneTime(equery) PROVE FALSE OBVIOUS
  <1>1. /\ r \in eq /\ low <= r.key /\ low \in Nat /\ r.d \in Nat /\ equery.heur[r.e] \in Nat
        /\ esettled[r.e].d \in Nat /\ r.d < esettled[r.e].d
    BY TakenIs
  <1>2. r.key = r.d + equery.heur[r.e] /\ esettled[r.e].d + equery.heur[r.e] <= low
    BY <1>1 DEF InOrder
  <1> QED BY <1>1, <1>2

\* What comes from settled edges still does when one is settled (again).
LEMMA WayStays ==
  ASSUME EdgeTypes, InOrder(equery, eq, low, esettled), NEW r, EdgeSettleBy(r),
         NEW f, WayOf(equery, esettled, f), f.d \in Nat, f.e \in equery.net.edges
  PROVE  WayOf(equery, esettled', f)
  <1>0. f.e.c \in Nat BY TakenIs DEF IsEdgeQuery, IsNet
  <1>1. CASE f.parent = NoEdge /\ f.n = NoNode /\ f.e \in equery.src
             /\ f.d = Begun(equery)[f.e]
    BY <1>1 DEF WayOf
  <1>2. CASE /\ f.parent \in DOMAIN esettled /\ f.n \in EndsOf(equery, f.parent)
             /\ f.e \in AdjOut(equery.net, f.n)
             /\ f.e # f.parent /\ <<f.parent, f.e>> \notin equery.ban
             /\ esettled[f.parent].d + f.e.c <= f.d
             /\ OneTime(equery) => esettled[f.parent].d + f.e.c = f.d
    <2>1. f.parent \in DOMAIN esettled' BY <1>2, TakenIs
    <2>2. /\ esettled'[f.parent].d + f.e.c <= f.d
          /\ OneTime(equery) => esettled'[f.parent].d + f.e.c = f.d
      <3>1. CASE f.parent # r.e
        <4>1. esettled'[f.parent] = esettled[f.parent] BY <1>2, <3>1, TakenIs
        <4> QED BY <4>1, <1>2
      <3>2. CASE f.parent = r.e
        <4>1. esettled'[f.parent] = r /\ r.d \in Nat /\ esettled[f.parent].d \in Nat
              /\ r.d < esettled[f.parent].d
          BY <1>2, <3>2, TakenIs
        <4>2. ~OneTime(equery) BY <1>2, <3>2, TakenAgain
        <4> QED BY <4>1, <4>2, <1>0, <1>2
      <3> QED BY <3>1, <3>2
    <2> QED BY <1>2, <2>1, <2>2 DEF WayOf
  <1> QED BY <1>1, <1>2 DEF WayOf

\* What is pushed comes from the edge settled, in order if the heuristic is consistent.
LEMMA PushedWay ==
  ASSUME EdgeTypes, HandsOut(equery), NEW r, EdgeSettleBy(r),
         OneTime(equery) => r.key = r.d + equery.heur[r.e],
         NEW f \in Raised(Pushed(r), r.key)
  PROVE  /\ WayOf(equery, esettled', f)
         /\ OneTime(equery) => f.key = f.d + equery.heur[f.e]
  <1>0. equery.form # "rev" /\ equery.form # "first" /\ (Inits(equery) => equery.net.directed)
    BY DEF HandsOut
  <1>1. IsEdgeQuery(equery) /\ EdgeEntry(r) /\ r.e \in equery.net.edges /\ r.d \in Nat
        /\ r.key \in Nat /\ r.e \in DOMAIN esettled' /\ esettled'[r.e] = r
        /\ equery.heur[r.e] \in Nat
    BY TakenIs
  <1>2. \A p \in Pushed(r) : \E x, g : Leads(r, x, g) /\ p = EntryBehind(r, x, g)
    BY <1>0, PushedForward
  <1>3. \A p \in Pushed(r) : p.key \in Nat
    BY <1>0, <1>1, <1>2, BehindIs DEF EdgeEntry, EdgeEntryAt
  <1>4. PICK p \in Pushed(r) : f = [p EXCEPT !.key = RaisedTo(p.key, r.key)]
    BY <1>3, RaisedIs
  <1>5. PICK x, g : Leads(r, x, g) /\ p = EntryBehind(r, x, g) BY <1>2
  <1>6. f.e = g /\ f.parent = r.e /\ f.n = x /\ f.d = LeaveCost(r, x) + g.c
    BY <1>0, <1>4, <1>5 DEF EntryBehind, Via
  <1>7. LeaveCost(r, x) = r.d
    <2>1. Inits(equery) => x = r.e.to BY <1>0, <1>5 DEF Leads, EndsOf
    <2> QED BY <2>1 DEF LeaveCost
  <1>8. g \in equery.net.edges /\ g.c \in Nat
    <2>1. g \in equery.net.edges BY <1>5 DEF Leads, AdjOut
    <2> QED BY <2>1, <1>1 DEF IsEdgeQuery, IsNet
  <1>9. <<r.e, g>> \notin equery.ban BY <1>5, InfAssumption DEF Leads, TurnCost
  <1>10. WayOf(equery, esettled', f)
    <2>1. f.n \in EndsOf(equery, f.parent) /\ f.e \in AdjOut(equery.net, f.n) /\ f.e # f.parent
      BY <1>5, <1>6 DEF Leads
    <2>2. esettled'[f.parent].d + f.e.c = f.d /\ f.d \in Nat
      BY <1>1, <1>6, <1>7, <1>8
    <2>3. esettled'[f.parent].d + f.e.c <= f.d BY <2>2
    <2> QED BY <2>1, <2>2, <2>3, <1>1, <1>6, <1>9 DEF WayOf
  <1>11. ASSUME OneTime(equery) PROVE f.key = f.d + equery.heur[f.e]
    <2>1. f.key = RaisedTo(f.d + equery.heur[f.e], r.key) BY <1>0, <1>1, RaisedEntries
    <2>2. PICK s \in EdgeSteps(equery) :
            s.from = r.e /\ s.to = f.e /\ s.c \in Nat /\ f.d = r.d + s.c
      BY <1>0, <1>1, RaisedEntries
    <2>3. equery.heur[r.e] <= s.c + equery.heur[f.e]
      BY <2>2, <1>11 DEF OneTime, EdgeConsistent
    <2>4. equery.heur[f.e] \in Nat BY <1>1, <1>6, <1>8 DEF IsEdgeQuery
    <2>5. r.key <= f.d + equery.heur[f.e] BY <2>2, <2>3, <2>4, <1>1, <1>11
    <2> QED BY <2>1, <2>2, <2>4, <2>5, <1>1 DEF RaisedTo
  <1> QED BY <1>10, <1>11

\* Settling an edge keeps each part of EdgeTree.
LEMMA EdgeSettleOrigins ==
  ASSUME EdgeTypes, HandsOut(equery), NEW r, EdgeSettleBy(r),
         EdgeOrigins(equery, eq, esettled), InOrder(equery, eq, low, esettled)
  PROVE  EdgeOrigins(equery, eq', esettled') /\ InOrder(equery, eq', low', esettled')
  <1>1. /\ r \in eq /\ low <= r.key /\ low \in Nat /\ r.key \in Nat /\ low' = r.key
        /\ DOMAIN esettled' = DOMAIN esettled \cup {r.e} /\ esettled'[r.e] = r
        /\ \A e \in DOMAIN esettled : e # r.e => esettled'[e] = esettled[e]
    BY TakenIs DEF EdgeSettleBy
  <1>2. \A f \in eq : f.d \in Nat /\ f.e \in equery.net.edges
    BY DEF EdgeTypes, EdgeEntries, EdgeEntry, EdgeEntryAt
  <1>3. \A e \in DOMAIN esettled : esettled[e].d \in Nat /\ esettled[e].e \in equery.net.edges
    BY DEF EdgeTypes, EdgeEntries, EdgeEntry, EdgeEntryAt
  <1>4. \A f \in eq : WayOf(equery, esettled', f) BY <1>2, WayStays DEF EdgeOrigins
  <1>5. \A e \in DOMAIN esettled : WayOf(equery, esettled', esettled[e])
    BY <1>3, WayStays DEF EdgeOrigins
  <1>6. OneTime(equery) => r.key = r.d + equery.heur[r.e] BY <1>1 DEF InOrder
  <1>7. \A f \in eq' : f \in eq \/ f \in Raised(Pushed(r), r.key) BY DEF EdgeSettleBy
  <1>8. ASSUME NEW f \in eq'
        PROVE  WayOf(equery, esettled', f) /\ (OneTime(equery) => f.key = f.d + equery.heur[f.e])
    <2>1. CASE f \in eq BY <2>1, <1>4 DEF InOrder
    <2>2. CASE f \in Raised(Pushed(r), r.key) BY <2>2, <1>6, PushedWay
    <2> QED BY <2>1, <2>2, <1>7
  <1>9. ASSUME NEW e \in DOMAIN esettled' PROVE WayOf(equery, esettled', esettled'[e])
    <2>1. esettled'[e] = r \/ (e \in DOMAIN esettled /\ esettled'[e] = esettled[e])
      BY <1>1, <1>9
    <2> QED BY <2>1, <1>1, <1>4, <1>5
  <1>10. ASSUME OneTime(equery), NEW e \in DOMAIN esettled'
         PROVE  esettled'[e].d + equery.heur[e] <= low'
    <2>1. CASE e = r.e BY <2>1, <1>1, <1>6, <1>10
    <2>2. CASE e # r.e
      <3>1. e \in DOMAIN esettled /\ esettled'[e] = esettled[e] BY <2>2, <1>1
      <3>2. esettled[e].d + equery.heur[e] <= low BY <3>1, <1>10 DEF InOrder
      <3>3. e \in equery.net.edges BY <3>1 DEF EdgeTypes, EdgeEntries
      <3>4. equery.heur[e] \in Nat BY <3>3, TakenIs DEF IsEdgeQuery
      <3> QED BY <3>1, <3>2, <3>4, <1>1, <1>3
    <2> QED BY <2>1, <2>2
  <1> QED BY <1>8, <1>9, <1>10 DEF EdgeOrigins, InOrder

\* The order is kept as keys rise.
LEMMA LowerOrder ==
  ASSUME EdgeTypes, InOrder(equery, eq, low, esettled), NEW l \in Nat, low <= l, low \in Nat
  PROVE  InOrder(equery, eq, l, esettled)
  <1>1. IsEdgeQuery(equery) BY EdgeQueryIs DEF EdgeTypes
  <1>2. \A e \in DOMAIN esettled : esettled[e].d \in Nat /\ equery.heur[e] \in Nat
    BY <1>1 DEF EdgeTypes, EdgeEntries, EdgeEntry, EdgeEntryAt, IsEdgeQuery
  <1> QED BY <1>2 DEF InOrder

\* The edge settled gets a time after all others; if it was settled before, its own
\* children are dearer.
LEMMA EdgeSettleTimed ==
  ASSUME EdgeTypes, NEW r, EdgeSettleBy(r),
         EdgeOrigins(equery, eq, esettled), Timed(esettled, NoEdge)
  PROVE  Timed(esettled', NoEdge)
  <1>1. PICK time \in [DOMAIN esettled -> Nat], now \in Nat : InTime(esettled, time, now, NoEdge)
    BY DEF Timed
  <1> DEFINE tick == [e \in DOMAIN esettled' |-> IF e = r.e THEN now ELSE time[e]]
  <1>2. /\ r \in eq /\ r.d \in Nat
        /\ DOMAIN esettled' = DOMAIN esettled \cup {r.e} /\ esettled'[r.e] = r
        /\ \A e \in DOMAIN esettled : e # r.e => esettled'[e] = esettled[e]
        /\ \A e \in DOMAIN esettled : esettled[e].d \in Nat
        /\ r.e \in DOMAIN esettled => r.d < esettled[r.e].d
    BY TakenIs
  <1>3. /\ tick \in [DOMAIN esettled' -> Nat] /\ tick[r.e] = now
        /\ \A e \in DOMAIN esettled : e # r.e => tick[e] = time[e]
    BY <1>2
  <1> HIDE DEF tick
  <1>4. \A e \in DOMAIN esettled : time[e] \in Nat /\ time[e] < now BY <1>1 DEF InTime
  <1>5. now + 1 \in Nat /\ \A e \in DOMAIN esettled' : tick[e] < now + 1
    BY <1>2, <1>3, <1>4
  <1>6. ASSUME NEW f, WayOf(equery, esettled, f), f.parent # NoEdge, f.d \in Nat,
               f.e \in equery.net.edges
        PROVE  f.parent \in DOMAIN esettled /\ esettled[f.parent].d <= f.d
    <2>1. f.parent \in DOMAIN esettled /\ esettled[f.parent].d + f.e.c <= f.d
      BY <1>6 DEF WayOf
    <2>2. f.e.c \in Nat BY <1>6, TakenIs DEF IsEdgeQuery, IsNet
    <2> QED BY <2>1, <2>2, <1>2, <1>6
  <1>7. ASSUME NEW e \in DOMAIN esettled', esettled'[e].parent # NoEdge
        PROVE  Earlier(esettled', tick, esettled'[e].parent, e)
    <2>1. CASE e = r.e
      <3> DEFINE p == r.parent
      <3>1. p # NoEdge /\ esettled'[e].parent = p BY <2>1, <1>2, <1>7
      <3>2. p \in DOMAIN esettled /\ esettled[p].d <= r.d
        <4>1. WayOf(equery, esettled, r) /\ r.e \in equery.net.edges
          BY <1>2, TakenIs DEF EdgeOrigins
        <4> QED BY <4>1, <3>1, <1>2, <1>6
      <3>3. p # r.e BY <3>2, <1>2
      <3>4. /\ esettled'[p] = esettled[p] /\ tick[p] = time[p] /\ time[p] < now /\ time[p] \in Nat
            /\ esettled[p].d \in Nat
        BY <3>2, <3>3, <1>2, <1>3, <1>4
      <3>5. esettled'[p].d < esettled'[e].d
            \/ (esettled'[p].d = esettled'[e].d /\ tick[p] < tick[e])
        BY <2>1, <3>2, <3>4, <1>2, <1>3
      <3> QED BY <3>1, <3>5 DEF Earlier
    <2>2. CASE e # r.e
      <3> DEFINE p == esettled[e].parent
      <3>1. /\ e \in DOMAIN esettled /\ esettled'[e] = esettled[e] /\ p # NoEdge
            /\ esettled'[e].parent = p /\ tick[e] = time[e]
        BY <2>2, <1>2, <1>3, <1>7
      <3>2. Earlier(esettled, time, p, e) BY <3>1, <1>1 DEF InTime
      <3>3. p \in DOMAIN esettled BY <3>1 DEF EdgeOrigins, WayOf
      <3>4. CASE p # r.e
        <4>1. esettled'[p] = esettled[p] /\ tick[p] = time[p] BY <3>3, <3>4, <1>2, <1>3
        <4> QED BY <4>1, <3>1, <3>2 DEF Earlier
      <3>5. CASE p = r.e
        <4>1. esettled'[p] = r /\ r.d < esettled[p].d BY <3>3, <3>5, <1>2
        <4>2. esettled[p].d <= esettled[e].d BY <3>1, <3>2, <3>3, <1>2 DEF Earlier
        <4>3. esettled'[p].d < esettled'[e].d BY <4>1, <4>2, <3>1, <3>3, <1>2
        <4> QED BY <4>3, <3>1 DEF Earlier
      <3> QED BY <3>4, <3>5
    <2> QED BY <2>1, <2>2
  <1>8. InTime(esettled', tick, now + 1, NoEdge) BY <1>5, <1>7 DEF InTime
  <1> QED BY <1>3, <1>5, <1>8 DEF Timed

\* A target that is settled in a search for the nearest ends it.
LEMMA EdgeSettleHit ==
  ASSUME EdgeTypes, efound \in Nat, ~over, OneHit(equery, esettled, over), NEW r, EdgeSettleBy(r)
  PROVE  OneHit(equery, esettled', over')
  <1> SUFFICES ASSUME equery.form = "set", NEW t \in DOMAIN esettled' \cap equery.dst,
                      NEW u \in DOMAIN esettled' \cap equery.dst
               PROVE  over' /\ t = u
    BY DEF OneHit
  <1>1. DOMAIN esettled \cap equery.dst = {} BY DEF OneHit
  <1>2. DOMAIN esettled' = DOMAIN esettled \cup {r.e} BY TakenIs
  <1>3. t = r.e /\ u = r.e BY <1>1, <1>2
  <1>4. r.e \in Targets(equery) BY <1>3 DEF Targets
  <1>5. EdgeHits(r) > 0 BY <1>4 DEF EdgeHits
  <1>6. EdgeIsLast(r) BY <1>5 DEF EdgeIsLast, Each
  <1>7. over' = EdgeIsLast(r) BY DEF EdgeSettleBy
  <1> QED BY <1>3, <1>6, <1>7

\* EdgeTree is established by the start and kept by every step.
LEMMA EdgeStartTree ==
  ASSUME EdgeIInv, equery = NoEdgeQuery, NEW q \in EdgeQueries, EdgeStart(q) PROVE EdgeTree'
  <1> SUFFICES ASSUME HandsOut(q)
               PROVE  /\ EdgeOrigins(q, eq', esettled') /\ Timed(esettled', NoEdge)
                      /\ InOrder(q, eq', low', esettled') /\ OneHit(q, esettled', over')
    BY DEF EdgeTree, EdgeStart
  <1>1. /\ esettled' = <<>> /\ DOMAIN esettled' = {}
    BY EmptyFunction DEF EdgeIInv, EdgeStart
  <1>2. eq' \subseteq {Begin(q, e) : e \in q.src} BY DEF EdgeStart
  <1>3. ~ToAll(q) /\ q.form # "first" BY DEF HandsOut, ToAll
  <1>4. ASSUME NEW f \in eq'
        PROVE  /\ f.parent = NoEdge /\ f.n = NoNode /\ f.e \in q.src /\ f.d = Begun(q)[f.e]
               /\ f.key = f.d + q.heur[f.e]
    <2>1. PICK e \in q.src : f = Begin(q, e) BY <1>2
    <2> QED BY <2>1, <1>3 DEF Begin, Begun, ToAll
  <1>5. EdgeOrigins(q, eq', esettled') BY <1>1, <1>4 DEF EdgeOrigins, WayOf
  <1>6. Timed(esettled', NoEdge)
    <2> DEFINE time == [e \in DOMAIN esettled' |-> 0]
    <2>1. time \in [DOMAIN esettled' -> Nat] /\ InTime(esettled', time, 0, NoEdge)
      BY <1>1 DEF InTime
    <2> HIDE DEF time
    <2> QED BY <2>1 DEF Timed
  <1>7. InOrder(q, eq', low', esettled') BY <1>1, <1>4 DEF InOrder
  <1>8. OneHit(q, esettled', over') BY <1>1 DEF OneHit
  <1> QED BY <1>5, <1>6, <1>7, <1>8

LEMMA EdgeTreeStep ==
  ASSUME EdgeIInv, EdgeTree, [EdgeNext]_edgeVars PROVE EdgeTree'
  <1>1. CASE equery = NoEdgeQuery /\ \E q \in EdgeQueries : EdgeStart(q)
    BY <1>1, EdgeStartTree
  <1>2. CASE EdgeGiveUp
    <2>1. equery' = equery /\ eq' = eq /\ esettled' = esettled /\ Searching /\ over' = TRUE
      BY <1>2 DEF EdgeGiveUp
    <2> SUFFICES ASSUME HandsOut(equery)
                 PROVE  /\ EdgeOrigins(equery, eq, esettled) /\ Timed(esettled, NoEdge)
                        /\ InOrder(equery, eq, low', esettled) /\ OneHit(equery, esettled, over')
      BY <2>1 DEF EdgeTree
    <2>2. equery # NoEdgeQuery /\ EdgeTypes BY <2>1 DEF EdgeIInv, Searching
    <2>3. /\ EdgeOrigins(equery, eq, esettled) /\ Timed(esettled, NoEdge)
          /\ InOrder(equery, eq, low, esettled) /\ OneHit(equery, esettled, over)
      BY <2>2 DEF EdgeTree
    <2>4. low' \in Nat /\ low <= low' /\ low \in Nat
      <3>1. CASE eq = {} BY <3>1, <1>2, <2>2 DEF EdgeGiveUp, EdgeTypes
      <3>2. CASE eq # {}
        <4>1. low' = (CHOOSE r \in ETops : TRUE).key /\ ETops # {}
          BY <1>2, <3>2 DEF EdgeGiveUp
        <4>2. PICK r \in ETops : low' = r.key BY <4>1
        <4>3. r \in eq /\ EdgeEntry(r) /\ low <= r.key BY <2>2 DEF ETops, EdgeTypes, EdgeEntries
        <4> QED BY <4>2, <4>3, <2>2 DEF EdgeEntry, EdgeEntryAt, EdgeTypes
      <3> QED BY <3>1, <3>2
    <2>5. InOrder(equery, eq, low', esettled) BY <2>2, <2>3, <2>4, LowerOrder
    <2>6. OneHit(equery, esettled, over') BY <2>1, <2>3 DEF OneHit
    <2> QED BY <2>3, <2>5, <2>6
  <1>3. CASE EdgeSkip
    <2>1. equery' = equery /\ esettled' = esettled /\ Searching /\ over' = over
      BY <1>3 DEF EdgeSkip
    <2>2. PICK r \in ETops : eq' = eq \ {r} /\ low' = r.key BY <1>3 DEF EdgeSkip
    <2> SUFFICES ASSUME HandsOut(equery)
                 PROVE  /\ EdgeOrigins(equery, eq', esettled) /\ Timed(esettled, NoEdge)
                        /\ InOrder(equery, eq', low', esettled) /\ OneHit(equery, esettled, over)
      BY <2>1 DEF EdgeTree
    <2>3. equery # NoEdgeQuery /\ EdgeTypes BY <2>1 DEF EdgeIInv, Searching
    <2>4. /\ EdgeOrigins(equery, eq, esettled) /\ Timed(esettled, NoEdge)
          /\ InOrder(equery, eq, low, esettled) /\ OneHit(equery, esettled, over)
      BY <2>3 DEF EdgeTree
    <2>5. low' \in Nat /\ low <= low' /\ low \in Nat
      <3>1. r \in eq /\ EdgeEntry(r) /\ low <= r.key BY <2>3 DEF ETops, EdgeTypes, EdgeEntries
      <3> QED BY <3>1, <2>2, <2>3 DEF EdgeEntry, EdgeEntryAt, EdgeTypes
    <2>6. InOrder(equery, eq, low', esettled) BY <2>3, <2>4, <2>5, LowerOrder
    <2>7. InOrder(equery, eq', low', esettled) BY <2>2, <2>6 DEF InOrder
    <2>8. EdgeOrigins(equery, eq', esettled) BY <2>2, <2>4 DEF EdgeOrigins
    <2> QED BY <2>4, <2>7, <2>8
  <1>4. CASE EdgeSettle
    <2>1. PICK r : EdgeSettleBy(r) BY <1>4, EdgeSettleHow
    <2>2. Searching /\ equery' = equery BY <2>1, <1>4, EdgeSettleHow DEF EdgeSettleBy
    <2> SUFFICES ASSUME HandsOut(equery)
                 PROVE  /\ EdgeOrigins(equery, eq', esettled') /\ Timed(esettled', NoEdge)
                        /\ InOrder(equery, eq', low', esettled') /\ OneHit(equery, esettled', over')
      BY <2>2 DEF EdgeTree
    <2>3. equery # NoEdgeQuery /\ EdgeTypes /\ ~over /\ efound \in Nat
      BY <2>2 DEF EdgeIInv, Searching
    <2>4. /\ EdgeOrigins(equery, eq, esettled) /\ Timed(esettled, NoEdge)
          /\ InOrder(equery, eq, low, esettled) /\ OneHit(equery, esettled, over)
      BY <2>3 DEF EdgeTree
    <2> QED BY <2>1, <2>3, <2>4, EdgeSettleOrigins, EdgeSettleTimed, EdgeSettleHit
  <1>5. CASE UNCHANGED edgeVars
    <2>1. equery' = equery /\ eq' = eq /\ low' = low /\ esettled' = esettled /\ over' = over
      BY <1>5 DEF edgeVars
    <2> QED BY <2>1 DEF EdgeTree
  <1> QED BY <1>1, <1>2, <1>3, <1>4, <1>5 DEF EdgeNext, EdgeRound

-----------------------------------------------------------------------------
(* EdgeDijkstra: the lists handed out. *)

\* The invariants at a target.
WaysKnown ==
  /\ EdgeTypes /\ IsEdgeQuery(equery)
  /\ EdgeOrigins(equery, eq, esettled) /\ Timed(esettled, NoEdge)

\* es is a list of edges handed out: back from a settled edge to where the search began.
WayBack(es) ==
  /\ Climbs(esettled, es, NoEdge) /\ Len(es) \in Nat \ {0}
  /\ es[Len(es)] \in equery.src /\ esettled[es[Len(es)]].n = NoNode
  /\ esettled[es[Len(es)]].d = Begun(equery)[es[Len(es)]]

\* There is no edge from no node to no node.
LEMMA NoEdgeIs == ASSUME EdgeTypes, IsEdgeQuery(equery) PROVE NoEdge \notin DOMAIN esettled
  <1>1. NoEdge.from = NoNode BY DEF NoEdge
  <1>2. \A e \in equery.net.edges : e.from # NoNode BY DEF IsEdgeQuery, IsNet
  <1> QED BY <1>1, <1>2 DEF EdgeTypes, EdgeEntries

\* buildPath ends at an edge the search began with.
LEMMA BuildEdgesAre ==
  ASSUME WaysKnown, NEW t \in DOMAIN esettled
  PROVE  WayBack(BuildEdges(t)) /\ BuildEdges(t)[1] = t
  <1> DEFINE es == BuildEdges(t)
             last == es[Len(es)]
  <1>0. EdgeTypes /\ IsEdgeQuery(equery) /\ EdgeOrigins(equery, eq, esettled) BY DEF WaysKnown
  <1>1. IsFiniteSet(DOMAIN esettled)
    <2>1. IsFiniteSet(equery.net.edges) BY <1>0 DEF IsEdgeQuery
    <2>2. DOMAIN esettled \subseteq equery.net.edges BY <1>0 DEF EdgeTypes, EdgeEntries
    <2> QED BY <2>1, <2>2, FS_Subset
  <1>2. Rooted(esettled, NoEdge)
    <2>1. \A e \in DOMAIN esettled : esettled[e].d \in Nat
      BY <1>0 DEF EdgeTypes, EdgeEntries, EdgeEntry, EdgeEntryAt
    <2>2. \A e \in DOMAIN esettled :
            esettled[e].parent # NoEdge => esettled[e].parent \in DOMAIN esettled
      BY <1>0 DEF EdgeOrigins, WayOf
    <2> QED BY <2>1, <2>2, <1>1 DEF Rooted
  <1>3. /\ Climbs(esettled, es, NoEdge) /\ es[1] = t
        /\ last \in DOMAIN esettled /\ esettled[last].parent = NoEdge
    <2>1. Timed(esettled, NoEdge) BY DEF WaysKnown
    <2> QED BY <2>1, <1>2, ClimbEnds DEF BuildEdges
  <1> HIDE DEF es
  <1>4. Len(es) \in Nat \ {0} BY <1>3 DEF Climbs
  <1>5. WayOf(equery, esettled, esettled[last]) /\ esettled[last].e = last
    BY <1>0, <1>3 DEF EdgeOrigins, EdgeTypes, EdgeEntries
  <1>6. NoEdge \notin DOMAIN esettled BY <1>0, NoEdgeIs
  <1>7. last \in equery.src /\ esettled[last].n = NoNode
        /\ esettled[last].d = Begun(equery)[last]
    BY <1>3, <1>5, <1>6 DEF WayOf
  <1>8. WayBack(es) BY <1>3, <1>4, <1>7 DEF WayBack
  <1> QED BY <1>3, <1>8 DEF es

\* e comes from p, by node n.
ComesFrom(e, p, n) ==
  /\ n \in EndsOf(equery, p) /\ e \in AdjOut(equery.net, n) /\ n \in equery.net.nodes
  /\ e # p /\ <<p, e>> \notin equery.ban
  /\ esettled[p].d + e.c <= esettled[e].d
  /\ OneTime(equery) => esettled[p].d + e.c = esettled[e].d
  /\ \E s \in EdgeSteps(equery) : s.from = p /\ s.to = e /\ s.c = e.c

\* Each edge of the list comes from the one behind it.
LEMMA WayStep ==
  ASSUME WaysKnown, NEW es, WayBack(es), NEW i \in 1..(Len(es) - 1)
  PROVE  ComesFrom(es[i], es[i + 1], esettled[es[i]].n)
  <1> DEFINE e == es[i]
             p == es[i + 1]
             n == esettled[e].n
  <1>0. EdgeTypes /\ IsEdgeQuery(equery) /\ EdgeOrigins(equery, eq, esettled) BY DEF WaysKnown
  <1>1. i \in 1..Len(es) /\ i + 1 \in 1..Len(es) BY DEF WayBack
  <1>2. e \in DOMAIN esettled /\ p \in DOMAIN esettled BY <1>1 DEF WayBack, Climbs
  <1>3. esettled[e].parent # NoEdge /\ p = esettled[e].parent BY DEF WayBack, Climbs
  <1>4. e \in equery.net.edges /\ p \in equery.net.edges /\ esettled[e].e = e
    BY <1>0, <1>2 DEF EdgeTypes, EdgeEntries
  <1>5. WayOf(equery, esettled, esettled[e]) BY <1>0, <1>2 DEF EdgeOrigins
  <1> HIDE DEF e, p
  <1>6. /\ n \in EndsOf(equery, p) /\ e \in AdjOut(equery.net, n)
        /\ e # p /\ <<p, e>> \notin equery.ban
        /\ esettled[p].d + e.c <= esettled[e].d
        /\ OneTime(equery) => esettled[p].d + e.c = esettled[e].d
    BY <1>3, <1>4, <1>5 DEF WayOf
  <1>7. n \in equery.net.nodes BY <1>0, <1>4, <1>6 DEF EndsOf, IsEdgeQuery, IsNet
  <1>8. \E s \in EdgeSteps(equery) : s.from = p /\ s.to = e /\ s.c = e.c
    BY <1>0, <1>4, <1>6, EdgeStepsAre
  <1>9. ComesFrom(e, p, n) BY <1>6, <1>7, <1>8 DEF ComesFrom
  <1> QED BY <1>9 DEF e, p

\* What the edges of a list but the last cost is a sum, edge by edge.
LEMMA CostBehindIs ==
  ASSUME NEW es, Len(es) \in Nat \ {0}, \A i \in 1..Len(es) : es[i].c \in Nat
  PROVE  \E sum \in [0..(Len(es) - 1) -> Nat] :
           /\ CostBehind(es) = sum[Len(es) - 1] /\ sum[0] = 0
           /\ \A k \in 1..(Len(es) - 1) : sum[k] = sum[k - 1] + es[k].c
  <1>0. PICK N \in Nat : N = Len(es) - 1 OBVIOUS
  <1> DEFINE Is(f) == f = [k \in 0..N |-> IF k = 0 THEN 0 ELSE f[k - 1] + es[k].c]
             step == [z \in (1..N) \X Nat |-> z[2] + es[z[1]].c]
             sum == CHOOSE f : Is(f)
  <1>1. CostBehind(es) = sum[N] BY <1>0 DEF CostBehind
  <1>2. \A k \in 1..N : es[k].c \in Nat BY <1>0
  <1>3. PICK f \in [0..N -> Nat] : f[0] = 0 /\ \A k \in 1..N : f[k] = f[k - 1] + es[k].c
    <2>1. \A j \in 1..N, w \in Nat : step[<<j, w>>] = w + es[j].c OBVIOUS
    <2> HIDE DEF step
    <2>2. StaysIn(Nat, N, step)
      <3>1. ASSUME NEW j \in 1..N, NEW w \in Nat PROVE step[<<j, w>>] \in Nat
        <4>1. PICK c \in Nat : c = es[j].c BY <1>2
        <4>2. step[<<j, w>>] = w + c BY <4>1, <2>1
        <4> QED BY <4>2
      <3> QED BY <3>1 DEF StaysIn
    <2>3. PICK f \in [0..N -> Nat] : Goes(f, N, 0, step) BY <2>2, Recursion
    <2>4. ASSUME NEW k \in 1..N PROVE f[k] = f[k - 1] + es[k].c
      <3>1. k - 1 \in 0..N OBVIOUS
      <3>2. f[k - 1] \in Nat BY <3>1
      <3> QED BY <3>2, <2>1, <2>3 DEF Goes
    <2>5. f[0] = 0 BY <2>3 DEF Goes
    <2> QED BY <2>4, <2>5
  <1>4. Is(f)
    <2>1. f = [k \in 0..N |-> f[k]] OBVIOUS
    <2>2. ASSUME NEW k \in 0..N, k # 0 PROVE f[k] = f[k - 1] + es[k].c
      <3>1. k \in 1..N BY <2>2
      <3> QED BY <3>1, <1>3
    <2> QED BY <2>1, <2>2, <1>3
  <1>5. Is(sum)
    <2>1. \E h : Is(h)
      <3> HIDE DEF Is
      <3> QED BY <1>4
    <2> HIDE DEF Is
    <2> QED BY <2>1
  <1> HIDE DEF sum
  <1>6. sum[0] = 0 /\ \A k \in 1..N : sum[k] = sum[k - 1] + es[k].c
    <2>1. 0 \in 0..N OBVIOUS
    <2>2. ASSUME NEW k \in 1..N PROVE sum[k] = sum[k - 1] + es[k].c
      <3>1. k \in 0..N /\ k # 0 OBVIOUS
      <3> QED BY <3>1, <1>5
    <2> QED BY <2>1, <2>2, <1>5
  <1> DEFINE S == {k \in Nat : k <= N => sum[k] = f[k]}
  <1>7. 0 \in S BY <1>3, <1>6
  <1>8. ASSUME NEW k \in Nat, k \in S PROVE k + 1 \in S
    <2> SUFFICES ASSUME k + 1 <= N PROVE sum[k + 1] = f[k + 1] OBVIOUS
    <2>1. k + 1 \in 1..N /\ (k + 1) - 1 = k /\ k <= N OBVIOUS
    <2> QED BY <2>1, <1>3, <1>6, <1>8
  <1>9. \A k \in Nat : k \in S
    <2> HIDE DEF S
    <2> QED BY <1>7, <1>8, Induct
  <1>10. sum[N] = f[N] BY <1>9
  <1> QED BY <1>0, <1>1, <1>3, <1>10

\* What is left of the way at each edge of the list, and what a cheapest way costs.
LEMMA WayCosts ==
  ASSUME WaysKnown, equery.form # "rev", NEW es, WayBack(es)
  PROVE  \E sum \in [0..(Len(es) - 1) -> Nat] :
           /\ CostBehind(es) = sum[Len(es) - 1]
           /\ \A k \in 0..(Len(es) - 1) :
                LET x == es[k + 1]
                IN /\ sum[k] + esettled[x].d <= esettled[es[1]].d
                   /\ EdgeCost[es[1]] <= EdgeCost[x] + sum[k]
                   /\ OneTime(equery) => sum[k] + esettled[x].d = esettled[es[1]].d
                   /\ esettled[x].d \in Nat /\ EdgeCost[x] \in Nat /\ EdgeCost[x] <= esettled[x].d
  <1>0. EdgeTypes /\ IsEdgeQuery(equery) BY DEF WaysKnown
  <1>1. PICK N \in Nat : N = Len(es) - 1 /\ N + 1 = Len(es) BY DEF WayBack
  <1>2. ASSUME NEW i \in 1..Len(es)
        PROVE  /\ es[i] \in DOMAIN esettled /\ es[i] \in equery.net.edges /\ es[i].c \in Nat
               /\ esettled[es[i]].d \in Nat /\ EdgeCost[es[i]] \in Nat
               /\ EdgeCost[es[i]] <= esettled[es[i]].d
    <2>1. es[i] \in DOMAIN esettled BY DEF WayBack, Climbs
    <2> DEFINE e == es[i]
    <2> HIDE DEF e
    <2>2. e \in DOMAIN esettled BY <2>1 DEF e
    <2>3. e \in equery.net.edges /\ EdgeEntry(esettled[e]) /\ esettled[e].e = e
      BY <1>0, <2>2 DEF EdgeTypes, EdgeEntries
    <2>4. e.c \in Nat BY <1>0, <2>3 DEF IsEdgeQuery, IsNet
    <2>5. EdgeCost[e] \in 0..Inf BY <1>0, <2>3, EdgeCostFacts DEF EdgeCost
    <2>6. esettled[e].d \in Nat /\ EdgeCost[e] <= esettled[e].d
      BY <2>3 DEF EdgeEntry, EdgeEntryAt
    <2> QED BY <2>2, <2>3, <2>4, <2>5, <2>6 DEF e
  <1>3. PICK sum \in [0..N -> Nat] :
          /\ CostBehind(es) = sum[N] /\ sum[0] = 0
          /\ \A k \in 1..N : sum[k] = sum[k - 1] + es[k].c
    <2>1. Len(es) \in Nat \ {0} BY DEF WayBack
    <2> QED BY <2>1, <1>1, <1>2, CostBehindIs
  <1>11. \A i \in 1..(Len(es) - 1) : ComesFrom(es[i], es[i + 1], esettled[es[i]].n) BY WayStep
  <1> DEFINE d(k) == esettled[es[k + 1]].d
             D(k) == EdgeCost[es[k + 1]]
             one == OneTime(equery)
  <1>4. ASSUME NEW k \in 0..N PROVE d(k) \in Nat /\ D(k) \in Nat /\ D(k) <= d(k)
    <2>1. k + 1 \in 1..Len(es) BY <1>1
    <2> QED BY <2>1, <1>2
  <1>5. ASSUME NEW k \in Nat, k + 1 <= N
        PROVE  /\ es[k + 1].c \in Nat /\ sum[k + 1] = sum[k] + es[k + 1].c
               /\ d(k + 1) + es[k + 1].c <= d(k) /\ D(k) <= D(k + 1) + es[k + 1].c
               /\ one => d(k + 1) + es[k + 1].c = d(k)
    <2>1. k + 1 \in 1..(Len(es) - 1) /\ k + 1 \in 1..N /\ k + 1 \in 1..Len(es) /\ (k + 1) - 1 = k
      BY <1>1, <1>5
    <2>2. PICK i \in 1..(Len(es) - 1) : i = k + 1 BY <2>1
    <2> DEFINE e == es[i]
               p == es[i + 1]
    <2> HIDE DEF d, D
    <2>3. /\ esettled[p].d + e.c <= esettled[e].d
          /\ OneTime(equery) => esettled[p].d + e.c = esettled[e].d
          /\ \E s \in EdgeSteps(equery) : s.from = p /\ s.to = e /\ s.c = e.c
      <3>1. ComesFrom(e, p, esettled[e].n) BY <1>11
      <3> HIDE DEF e, p
      <3> QED BY <3>1 DEF ComesFrom
    <2> HIDE DEF e, p
    <2>4. EdgeCost[e] <= EdgeCost[p] + e.c BY <1>0, <2>3, EdgeCostFacts DEF EdgeCost
    <2>5. e = es[k + 1] /\ p = es[(k + 1) + 1] BY <2>2 DEF e, p
    <2>6. e.c \in Nat BY <2>1, <2>5, <1>2
    <2>7. sum[k + 1] = sum[k] + es[k + 1].c BY <2>1, <1>3
    <2> QED BY <2>3, <2>4, <2>5, <2>6, <2>7 DEF d, D
  <1> DEFINE S == {k \in Nat : k <= N => /\ sum[k] + d(k) <= d(0)
                                         /\ D(0) <= D(k) + sum[k]
                                         /\ one => sum[k] + d(k) = d(0)}
  <1> HIDE DEF d, D, one
  <1>6. 0 \in S
    <2>1. d(0) \in Nat /\ D(0) \in Nat BY <1>4
    <2> QED BY <2>1, <1>3
  <1>7. ASSUME NEW k \in Nat, k \in S PROVE k + 1 \in S
    <2> SUFFICES ASSUME k + 1 <= N
                 PROVE  /\ sum[k + 1] + d(k + 1) <= d(0)
                        /\ D(0) <= D(k + 1) + sum[k + 1]
                        /\ one => sum[k + 1] + d(k + 1) = d(0)
      OBVIOUS
    <2>1. k \in 0..N /\ k + 1 \in 0..N /\ 0 \in 0..N OBVIOUS
    <2>2. PICK c \in Nat, v \in Nat : c = es[k + 1].c /\ v = sum[k] BY <1>5, <2>1
    <2>3. /\ d(k) \in Nat /\ d(k + 1) \in Nat /\ d(0) \in Nat
          /\ D(k) \in Nat /\ D(k + 1) \in Nat /\ D(0) \in Nat
      BY <2>1, <1>4
    <2> DEFINE dk == d(k)
               dn == d(k + 1)
               dz == d(0)
               Dk == D(k)
               Dn == D(k + 1)
               Dz == D(0)
    <2> HIDE DEF dk, dn, dz, Dk, Dn, Dz
    <2>4. /\ sum[k + 1] = v + c /\ d(k + 1) + c <= d(k) /\ D(k) <= D(k + 1) + c
          /\ one => d(k + 1) + c = d(k)
      BY <2>2, <1>5
    <2>5. v + d(k) <= d(0) /\ D(0) <= D(k) + v /\ (one => v + d(k) = d(0))
      BY <2>1, <2>2, <1>7
    <2>6. (v + c) + d(k + 1) <= d(0) /\ D(0) <= D(k + 1) + (v + c)
      <3>1. dn + c <= dk /\ Dk <= Dn + c /\ v + dk <= dz /\ Dz <= Dk + v
        BY <2>4, <2>5 DEF dk, dn, dz, Dk, Dn, Dz
      <3>2. /\ dk \in Nat /\ dn \in Nat /\ dz \in Nat
            /\ Dk \in Nat /\ Dn \in Nat /\ Dz \in Nat
        BY <2>3 DEF dk, dn, dz, Dk, Dn, Dz
      <3>3. (v + c) + dn <= dz BY ONLY <3>1, <3>2, v \in Nat, c \in Nat
      <3>4. Dz <= Dn + (v + c) BY ONLY <3>1, <3>2, v \in Nat, c \in Nat
      <3> QED BY <3>3, <3>4 DEF dn, dz, Dn, Dz
    <2>7. ASSUME one PROVE (v + c) + d(k + 1) = d(0)
      <3>1. dn + c = dk /\ v + dk = dz
        BY <2>4, <2>5, <2>7 DEF dk, dn, dz
      <3>2. dk \in Nat /\ dn \in Nat /\ dz \in Nat BY <2>3 DEF dk, dn, dz
      <3>3. (v + c) + dn = dz BY ONLY <3>1, <3>2, v \in Nat, c \in Nat
      <3> QED BY <3>3 DEF dn, dz
    <2> QED BY <2>4, <2>6, <2>7
  <1>8. \A k \in Nat : k \in S
    <2> HIDE DEF S
    <2> QED BY <1>6, <1>7, Induct
  <1>9. ASSUME NEW k \in 0..N
        PROVE  /\ sum[k] + d(k) <= d(0) /\ D(0) <= D(k) + sum[k]
               /\ one => sum[k] + d(k) = d(0)
    BY <1>8
  <1>10. d(0) = esettled[es[1]].d /\ D(0) = EdgeCost[es[1]] BY DEF d, D
  <1> QED BY <1>1, <1>3, <1>4, <1>9, <1>10 DEF d, D, one

\* At a target that costs no more than a cheapest way, the list is a cheapest way, and
\* each of its edges was settled at what it costs.
LEMMA WayCheapest ==
  ASSUME WaysKnown, equery.form # "rev", NEW es, WayBack(es)
  PROVE  /\ OneTime(equery) \/ esettled[es[1]].d = EdgeCost[es[1]] =>
              CostBehind(es) + esettled[es[Len(es)]].d = esettled[es[1]].d
         /\ esettled[es[1]].d = EdgeCost[es[1]] =>
              \A i \in 1..Len(es) : esettled[es[i]].d = EdgeCost[es[i]]
  <1>1. PICK N \in Nat : N = Len(es) - 1 /\ N + 1 = Len(es) BY DEF WayBack
  <1>2. PICK sum \in [0..N -> Nat] :
          /\ CostBehind(es) = sum[N]
          /\ \A k \in 0..N :
               /\ sum[k] + esettled[es[k + 1]].d <= esettled[es[1]].d
               /\ EdgeCost[es[1]] <= EdgeCost[es[k + 1]] + sum[k]
               /\ OneTime(equery) => sum[k] + esettled[es[k + 1]].d = esettled[es[1]].d
               /\ esettled[es[k + 1]].d \in Nat /\ EdgeCost[es[k + 1]] \in Nat
               /\ EdgeCost[es[k + 1]] <= esettled[es[k + 1]].d
    BY <1>1, WayCosts
  <1>3. ASSUME esettled[es[1]].d = EdgeCost[es[1]], NEW k \in 0..N
        PROVE  /\ sum[k] + esettled[es[k + 1]].d = esettled[es[1]].d
               /\ esettled[es[k + 1]].d = EdgeCost[es[k + 1]]
    <2>1. PICK a, b, c, v \in Nat : a = esettled[es[k + 1]].d /\ b = EdgeCost[es[k + 1]]
                                    /\ v = sum[k] /\ c = esettled[es[1]].d
      <3>1. esettled[es[1]].d \in Nat
        <4>1. 0 \in 0..N /\ 0 + 1 = 1 OBVIOUS
        <4> QED BY <4>1, <1>2
      <3> QED BY <3>1, <1>2
    <2>2. v + a <= c /\ c <= b + v /\ b <= a BY <2>1, <1>2, <1>3
    <2>3. v + a = c /\ a = b BY <2>2
    <2> QED BY <2>1, <2>3
  <1>4. N \in 0..N OBVIOUS
  <1>5. ASSUME esettled[es[1]].d = EdgeCost[es[1]], NEW i \in 1..Len(es)
        PROVE  esettled[es[i]].d = EdgeCost[es[i]]
    <2>1. PICK k \in 0..N : k + 1 = i BY <1>1
    <2> QED BY <2>1, <1>3, <1>5
  <1> QED BY <1>1, <1>2, <1>3, <1>4, <1>5

\* buildPath lists the end of the way and the nodes between its edges.
LEMMA BuildNodesAre ==
  ASSUME NEW t, Len(BuildEdges(t)) \in Nat \ {0}, NEW V, OtherNd(t, esettled[t].n) \in V,
         \A k \in 1..(Len(BuildEdges(t)) - 1) : esettled[BuildEdges(t)[k]].n \in V \ {NoNode},
         esettled[BuildEdges(t)[Len(BuildEdges(t))]].n = NoNode
  PROVE  /\ BuildNodes(t) \in Seq(V) /\ Len(BuildNodes(t)) = Len(BuildEdges(t))
         /\ BuildNodes(t)[1] = OtherNd(t, esettled[t].n)
         /\ \A k \in 1..(Len(BuildEdges(t)) - 1) :
              BuildNodes(t)[k + 1] = esettled[BuildEdges(t)[k]].n
  <1> DEFINE es == BuildEdges(t)
             o == OtherNd(t, esettled[t].n)
             L == Len(es)
             n(k) == esettled[es[k]].n
             on(list, k) == IF n(k) = NoNode THEN list ELSE Append(list, n(k))
             Is(f) == f = [k \in 0..L |-> IF k = 0 THEN <<o>> ELSE on(f[k - 1], k)]
             all == CHOOSE f : Is(f)
  <1>1. BuildNodes(t) = all[L] BY DEF BuildNodes
  <1> DEFINE first(j) == [i \in 1..j |-> IF i = 1 THEN o ELSE n(i - 1)]
             f == [k \in 0..L |-> first(IF k < L THEN k + 1 ELSE L)]
  <1>2. /\ L \in Nat \ {0} /\ o \in V /\ n(L) = NoNode
        /\ \A k \in 1..(L - 1) : n(k) \in V \ {NoNode}
    OBVIOUS
  <1> HIDE DEF es, o, L, n
  <1>3. ASSUME NEW j \in 1..L PROVE first(j) \in Seq(V) /\ Len(first(j)) = j
    <2>1. \A i \in 1..j : (IF i = 1 THEN o ELSE n(i - 1)) \in V
      <3> SUFFICES ASSUME NEW i \in 1..j PROVE (IF i = 1 THEN o ELSE n(i - 1)) \in V OBVIOUS
      <3>1. i # 1 => i - 1 \in 1..(L - 1) BY <1>2
      <3> QED BY <3>1, <1>2
    <2> QED BY <2>1
  <1>4. first(1) = <<o>> OBVIOUS
  <1>5. ASSUME NEW j \in 1..(L - 1) PROVE first(j + 1) = Append(first(j), n(j))
    <2>1. j \in 1..L /\ j + 1 \in 1..L /\ j \in Nat BY <1>2
    <2>2. first(j) \in Seq(V) /\ Len(first(j)) = j BY <2>1, <1>3
    <2>3. /\ \A i \in 1..j : first(j + 1)[i] = first(j)[i]
          /\ first(j + 1)[j + 1] = n(j) /\ Len(first(j + 1)) = j + 1 /\ first(j + 1) \in Seq(V)
      BY <2>1, <1>3
    <2> HIDE DEF first
    <2>4. PICK s \in Seq(V), r \in Seq(V), v \in V : s = first(j) /\ r = first(j + 1) /\ v = n(j)
      BY <2>2, <2>3, <1>2
    <2>5. Len(s) = j /\ Len(r) = j + 1 /\ r[j + 1] = v /\ \A i \in 1..j : r[i] = s[i]
      BY <2>2, <2>3, <2>4
    <2>6. /\ Append(s, v) \in Seq(V) /\ Len(Append(s, v)) = j + 1
          /\ Append(s, v)[j + 1] = v /\ \A i \in 1..j : Append(s, v)[i] = s[i]
      BY <2>5, AppendProperties
    <2>7. \A i \in 1..Len(r) : r[i] = Append(s, v)[i] BY <2>1, <2>5, <2>6
    <2>8. r = Append(s, v) BY <2>5, <2>6, <2>7, SeqEqual
    <2> QED BY <2>4, <2>8
  <1>6. ASSUME NEW k \in 0..L PROVE f[k] = IF k = 0 THEN <<o>> ELSE on(f[k - 1], k)
    <2> HIDE DEF first
    <2>1. CASE k = 0 BY <2>1, <1>2, <1>4
    <2>2. CASE k \in 1..(L - 1)
      <3>1. k - 1 \in 0..L /\ k - 1 < L /\ k < L /\ (k - 1) + 1 = k BY <2>2, <1>2
      <3>2. f[k - 1] = first(k) /\ f[k] = first(k + 1) BY <3>1
      <3>3. n(k) # NoNode BY <2>2, <1>2
      <3>4. first(k + 1) = Append(first(k), n(k)) BY <2>2, <1>5
      <3>5. k # 0 BY <2>2
      <3> HIDE DEF f
      <3>6. f[k] = Append(f[k - 1], n(k)) BY <3>2, <3>4
      <3> QED BY <3>3, <3>5, <3>6
    <2>3. CASE k = L
      <3>1. k - 1 \in 0..L /\ k - 1 < L /\ (k - 1) + 1 = L /\ k # 0 BY <2>3, <1>2
      <3>2. f[k - 1] = first(L) /\ f[k] = first(L) BY <3>1, <2>3
      <3> HIDE DEF f
      <3> QED BY <3>1, <3>2, <2>3, <1>2
    <2> QED BY <2>1, <2>2, <2>3, <1>2
  <1>7. Is(f)
    <2> DEFINE g == [k \in 0..L |-> IF k = 0 THEN <<o>> ELSE on(f[k - 1], k)]
    <2>1. \A k \in 0..L : f[k] = g[k] BY <1>6
    <2>2. f = [k \in 0..L |-> f[k]] OBVIOUS
    <2> HIDE DEF f, on
    <2>3. g = [k \in 0..L |-> g[k]] OBVIOUS
    <2> HIDE DEF g
    <2>4. f = g BY <2>1, <2>2, <2>3
    <2> QED BY <2>4 DEF g
  <1> HIDE DEF f, on, first
  <1>8. Is(all)
    <2>1. \E h : Is(h)
      <3> HIDE DEF Is
      <3> QED BY <1>7
    <2> HIDE DEF Is
    <2> QED BY <2>1
  <1> HIDE DEF all
  <1> DEFINE S == {k \in Nat : k <= L => all[k] = f[k]}
  <1>9. 0 \in S
    <2>1. 0 \in 0..L BY <1>2
    <2>2. all[0] = <<o>> BY <2>1, <1>8
    <2> QED BY <2>1, <2>2, <1>6
  <1>10. ASSUME NEW k \in Nat, k \in S PROVE k + 1 \in S
    <2> SUFFICES ASSUME k + 1 <= L PROVE all[k + 1] = f[k + 1] OBVIOUS
    <2>1. k + 1 \in 0..L /\ k + 1 # 0 /\ (k + 1) - 1 = k /\ k <= L BY <1>2
    <2>2. all[k] = f[k] BY <2>1, <1>10
    <2>3. all[k + 1] = on(all[k], k + 1) BY <2>1, <1>8
    <2>4. f[k + 1] = on(f[k], k + 1) BY <2>1, <1>6
    <2> QED BY <2>2, <2>3, <2>4
  <1>11. all[L] = f[L]
    <2>1. \A k \in Nat : k \in S
      <3> HIDE DEF S
      <3> QED BY <1>9, <1>10, Induct
    <2>2. L \in Nat BY <1>2
    <2> QED BY <2>1, <2>2
  <1>12. f[L] = first(L)
    <2>1. L \in 0..L /\ ~ (L < L) BY <1>2
    <2> QED BY <2>1 DEF f
  <1>13. /\ BuildNodes(t) \in Seq(V) /\ Len(BuildNodes(t)) = L
         /\ BuildNodes(t)[1] = o
         /\ \A k \in 1..(L - 1) : BuildNodes(t)[k + 1] = n(k)
    <2>0. BuildNodes(t) = first(L) BY <1>1, <1>11, <1>12
    <2>1. L \in 1..L /\ 1 \in 1..L BY <1>2
    <2>2. first(L)[1] = o BY <2>1 DEF first
    <2>3. ASSUME NEW k \in 1..(L - 1) PROVE first(L)[k + 1] = n(k)
      <3>1. k + 1 \in 1..L /\ k + 1 # 1 /\ (k + 1) - 1 = k BY <1>2
      <3> QED BY <3>1 DEF first
    <2> QED BY <2>0, <2>1, <2>2, <2>3, <1>3
  <1> QED BY <1>13 DEF es, o, L, n

\* x and y are the ends of e.
Joins(e, x, y) == {x, y} = {e.from, e.to}

\* An edge that is entered at y and left at x joins them, but for a turn within it.
LEMMA EndsJoined ==
  ASSUME NEW q, NEW e, NEW y, NEW x \in EndsOf(q, e), e \in AdjOut(q.net, y),
         q.net.directed \/ x # y
  PROVE  Joins(e, x, y)
  <1>1. e.from = y \/ (~q.net.directed /\ e.to = y) BY DEF AdjOut
  <1>2. CASE q.net.directed
    <2>1. x = e.to /\ y = e.from BY <1>1, <1>2 DEF EndsOf
    <2> QED BY <2>1 DEF Joins
  <1>3. CASE x # y /\ ~q.net.directed
    <2>1. x \in {e.from, e.to} /\ y \in {e.from, e.to} BY <1>1 DEF EndsOf
    <2> QED BY <2>1, <1>3 DEF Joins
  <1> QED BY <1>2, <1>3

\* The last edge was entered by the node before it in the list.
LEMMA StartJoined ==
  ASSUME NEW e, NEW n, e.from = n \/ e.to = n
  PROVE  {OtherNd(e, n), n} = {e.from, e.to}
  BY DEF OtherNd

\* A target in reach costs what it was settled at; that is what a cheapest way costs, if
\* a heuristic is not known to be consistent.
LEMMA TargetIsExact ==
  ASSUME EdgeIInv, EdgeTree, Returned, HandsOut(equery), EdgeUsable(equery),
         NEW t \in Targets(equery) \cap DOMAIN esettled, costs[t] < Inf
  PROVE  /\ costs[t] = esettled[t].d
         /\ ~Inits(equery) => esettled[t].d = EdgeCost[t]
         /\ Inits(equery) => OneTime(equery)
  <1>1. equery # NoEdgeQuery /\ EdgeTypes BY DEF Returned, EdgeIInv
  <1>2. IsEdgeQuery(equery) /\ equery.form \in {"set", "many", "init"}
        /\ (Inits(equery) => equery.net.directed)
    BY <1>1, EdgeQueryIs DEF EdgeTypes, HandsOut
  <1>3. t \in equery.dst /\ t \in DOMAIN esettled /\ t \in equery.net.edges
    BY <1>2 DEF Targets, IsEdgeQuery
  <1>4. costs = [e \in equery.dst |-> IF e \in DOMAIN esettled THEN esettled[e].d ELSE Inf]
    BY <1>1, <1>2 DEF EdgeTypes, CostsFit, ToAll
  <1>5. costs[t] = esettled[t].d BY <1>3, <1>4
  <1>6. ASSUME ~Inits(equery) PROVE esettled[t].d = EdgeCost[t]
    <2>1. equery.form \in {"set", "many"} BY <1>2, <1>6 DEF Inits
    <2>2. CASE equery.form = "many"
      <3>1. Each(equery) /\ ~Inits(equery) /\ equery.form # "rev" /\ equery.form # "set"
            /\ equery.form # "all"
        BY <2>2 DEF Each, Inits
      <3>2. costs[t] = EdgeCost[t]
        <4>1. EdgeShortest BY DEF EdgeIInv
        <4> QED BY <4>1, <3>1, <1>3 DEF EdgeShortest, EdgeCost
      <3> QED BY <3>2, <1>5
    <2>3. CASE equery.form = "set"
      <3>1. ~Each(equery) /\ ~Inits(equery) /\ equery.form # "rev" BY <2>3 DEF Each, Inits
      <3>2. NearestCost(costs, equery.dst) = NearestCost(EdgeCost, equery.dst)
        <4>1. EdgeShortest BY DEF EdgeIInv
        <4> QED BY <4>1, <3>1, <2>3 DEF EdgeShortest, EdgeCost
      <3>3. \A u \in equery.dst : EdgeCost[u] \in 0..Inf
        BY <1>2, EdgeCostFacts DEF EdgeCost, IsEdgeQuery
      <3>4. EdgeEntry(esettled[t]) /\ esettled[t].e = t
        BY <1>1, <1>3 DEF EdgeTypes, EdgeEntries
      <3>5. esettled[t].d \in Nat /\ EdgeCost[t] <= esettled[t].d
        BY <3>1, <3>4 DEF EdgeEntry, EdgeEntryAt
      <3>6. \A u \in equery.dst \cap DOMAIN esettled : u = t
        BY <1>1, <1>3, <2>3 DEF EdgeTree, OneHit
      <3>7. ASSUME NEW u \in equery.dst PROVE costs[u] \in Nat /\ costs[t] <= costs[u]
        <4>1. CASE u = t BY <4>1, <1>5, <3>5
        <4>2. CASE u # t
          <5>1. costs[u] = Inf BY <4>2, <1>4, <3>6
          <5> QED BY <5>1, <1>5, <3>5, InfAssumption
        <4> QED BY <4>1, <4>2
      <3>8. NearestCost(costs, equery.dst) = costs[t]
        <4> DEFINE m == costs[t]
        <4>1. m \in Nat /\ m < Inf /\ \E u \in equery.dst : costs[u] = m BY <1>3, <1>5, <3>5
        <4>2. \A u \in equery.dst : costs[u] \in Nat /\ m <= costs[u] BY <3>7
        <4> HIDE DEF m
        <4>3. NearestCost(costs, equery.dst) = m BY <4>1, <4>2, NearestCostIs
        <4> QED BY <4>3 DEF m
      <3>9. NearestCost(EdgeCost, equery.dst) <= EdgeCost[t]
        <4> DEFINE D == EdgeCost
        <4> HIDE DEF D
        <4>1. \A u \in equery.dst : D[u] \in 0..Inf BY <3>3 DEF D
        <4>2. NearestCost(D, equery.dst) <= D[t] BY <4>1, <1>3, NearestCostFacts
        <4> QED BY <4>2 DEF D
      <3>10. esettled[t].d <= EdgeCost[t] BY <3>2, <3>8, <3>9, <1>5
      <3>11. EdgeCost[t] \in Nat BY <3>3, <1>3
      <3> QED BY <3>5, <3>10, <3>11
    <2> QED BY <2>1, <2>2, <2>3
  <1>7. ASSUME Inits(equery) PROVE OneTime(equery)
    <2>1. Each(equery) BY <1>7 DEF Inits, Each
    <2> QED BY <2>1 DEF EdgeUsable, OneTime
  <1> QED BY <1>5, <1>6, <1>7

\* Where each edge of the list is settled at what it costs, none is left at the node it
\* was entered by: the edge before it would be cheaper by the edge behind it.
LEMMA NoTurn ==
  ASSUME WaysKnown, NEW es, WayBack(es), equery.form # "rev",
         ~equery.net.directed, equery.ban = {}, \A e \in equery.net.edges : e.c > 0,
         \A i \in 1..Len(es) : esettled[es[i]].d = EdgeCost[es[i]],
         NEW i \in 1..(Len(es) - 2)
  PROVE  esettled[es[i]].n # esettled[es[i + 1]].n
  <1>0. EdgeTypes /\ IsEdgeQuery(equery) BY DEF WaysKnown
  <1>1. i \in 1..(Len(es) - 1) /\ i + 1 \in 1..(Len(es) - 1) /\ (i + 1) + 1 = i + 2
        /\ i \in 1..Len(es) /\ i + 1 \in 1..Len(es) /\ i + 2 \in 1..Len(es)
    BY DEF WayBack
  <1>2. PICK a, b, z : a = es[i] /\ b = es[i + 1] /\ z = es[i + 2] OBVIOUS
  <1>3. PICK j \in 1..(Len(es) - 1) : j = i + 1 BY <1>1
  <1>4. ComesFrom(a, b, esettled[a].n) BY <1>1, <1>2, WayStep
  <1>5. ComesFrom(b, z, esettled[b].n)
    <2>1. ComesFrom(es[j], es[j + 1], esettled[es[j]].n) BY WayStep
    <2>2. es[j] = b /\ es[j + 1] = z BY <1>1, <1>2, <1>3
    <2> QED BY <2>1, <2>2
  <1>6. /\ a \in equery.net.edges /\ b \in equery.net.edges /\ z \in equery.net.edges
        /\ a \in DOMAIN esettled /\ b \in DOMAIN esettled /\ z \in DOMAIN esettled
    <2>1. a \in DOMAIN esettled /\ b \in DOMAIN esettled /\ z \in DOMAIN esettled
      BY <1>1, <1>2 DEF WayBack, Climbs
    <2> QED BY <2>1, <1>0 DEF EdgeTypes, EdgeEntries
  <1>7. /\ esettled[a].d = EdgeCost[a] /\ esettled[b].d = EdgeCost[b]
        /\ esettled[z].d = EdgeCost[z]
    BY <1>1, <1>2
  <1>8. /\ EdgeCost[a] \in Nat /\ EdgeCost[b] \in Nat /\ EdgeCost[z] \in Nat
        /\ a.c \in Nat /\ b.c \in Nat /\ a.c > 0 /\ b.c > 0
    <2>1. EdgeCost[a] \in 0..Inf /\ EdgeCost[b] \in 0..Inf /\ EdgeCost[z] \in 0..Inf
      BY <1>0, <1>6, EdgeCostFacts DEF EdgeCost
    <2>2. a.c \in Nat /\ b.c \in Nat /\ a.c > 0 /\ b.c > 0
      BY <1>0, <1>6 DEF IsEdgeQuery, IsNet
    <2> QED BY <2>1, <2>2
  <1>9. EdgeCost[b] + a.c <= EdgeCost[a] /\ EdgeCost[z] + b.c <= EdgeCost[b]
    BY <1>4, <1>5, <1>7 DEF ComesFrom
  <1>10. a # z BY <1>8, <1>9
  <1> SUFFICES ASSUME esettled[a].n = esettled[b].n PROVE FALSE BY <1>2
  <1>11. \E s \in EdgeSteps(equery) : s.from = z /\ s.to = a /\ s.c = a.c
    <2> DEFINE x == esettled[a].n
    <2>1. x \in EndsOf(equery, z) /\ a \in AdjOut(equery.net, x) BY <1>4, <1>5 DEF ComesFrom
    <2>2. <<z, a>> \notin equery.ban OBVIOUS
    <2>3. PICK y \in EndsOf(equery, z) : a \in AdjOut(equery.net, y) BY <2>1
    <2> HIDE DEF x
    <2>4. \A e, f \in equery.net.edges : \A v \in EndsOf(equery, e) :
            e # f /\ <<e, f>> \notin equery.ban /\ f \in AdjOut(equery.net, v) =>
              \E s \in EdgeSteps(equery) : s.from = e /\ s.to = f /\ s.c = f.c
      BY <1>0, EdgeStepsAre
    <2>5. z \in equery.net.edges /\ a \in equery.net.edges BY <1>6
    <2>6. z # a /\ <<z, a>> \notin equery.ban /\ a \in AdjOut(equery.net, y) =>
            \E s \in EdgeSteps(equery) : s.from = z /\ s.to = a /\ s.c = a.c
      BY ONLY <2>4, <2>5, y \in EndsOf(equery, z), Zenon
    <2> QED BY <2>2, <2>3, <2>6, <1>10, Zenon
  <1>12. EdgeCost[a] <= EdgeCost[z] + a.c BY <1>0, <1>11, EdgeCostFacts DEF EdgeCost
  <1> QED BY <1>8, <1>9, <1>12

\* Nor does a way from a node come back to it.
LEMMA NoReturn ==
  ASSUME WaysKnown, NEW es, WayBack(es), equery.form \in {"set", "many"},
         \A e \in equery.net.edges : e.c > 0,
         \A i \in 1..Len(es) : esettled[es[i]].d = EdgeCost[es[i]],
         NEW n, equery.src = AdjOut(equery.net, n), Len(es) > 1
  PROVE  esettled[es[Len(es) - 1]].n # n
  <1>0. EdgeTypes /\ IsEdgeQuery(equery) BY DEF WaysKnown
  <1>1. PICK i \in 1..(Len(es) - 1) : i = Len(es) - 1 /\ i + 1 = Len(es)
        /\ i \in 1..Len(es)
    BY DEF WayBack
  <1>2. PICK a, z : a = es[i] /\ z = es[Len(es)] OBVIOUS
  <1>3. ComesFrom(a, z, esettled[a].n)
    <2>1. ComesFrom(es[i], es[i + 1], esettled[es[i]].n) BY WayStep
    <2> QED BY <2>1, <1>1, <1>2
  <1>4. a \in DOMAIN esettled /\ z \in DOMAIN esettled /\ z \in equery.src
        /\ a \in equery.net.edges /\ z \in equery.net.edges
        /\ esettled[z].d = Begun(equery)[z]
    <2>1. a \in DOMAIN esettled /\ z \in DOMAIN esettled BY <1>1, <1>2 DEF WayBack, Climbs
    <2>2. z \in equery.src /\ esettled[z].d = Begun(equery)[z] BY <1>2 DEF WayBack
    <2> QED BY <2>1, <2>2, <1>0 DEF EdgeTypes, EdgeEntries
  <1>5. a.c \in Nat /\ z.c \in Nat /\ a.c > 0 /\ z.c > 0
    BY <1>0, <1>4 DEF IsEdgeQuery, IsNet
  <1>6. EdgeCost[a] \in Nat
    <2>1. EdgeCost[a] \in 0..Inf BY <1>0, <1>4, EdgeCostFacts DEF EdgeCost
    <2> QED BY <2>1
  <1>7. esettled[a].d = EdgeCost[a] BY <1>1, <1>2
  <1>8. Begun(equery)[z] + a.c <= EdgeCost[a] BY <1>3, <1>4, <1>7 DEF ComesFrom
  <1>9. ~Inits(equery) BY DEF Inits
  <1>10. Begun(equery)[z] = IF equery.free THEN 0 ELSE z.c
    BY <1>4, <1>9 DEF Begun, FirstCost
  <1> SUFFICES ASSUME esettled[a].n = n PROVE FALSE BY <1>1, <1>2
  <1>11. a \in equery.src BY <1>3 DEF ComesFrom
  <1>12. Begun(equery)[a] = IF equery.free THEN 0 ELSE a.c
    BY <1>9, <1>11 DEF Begun, FirstCost
  <1>13. EdgeCost[a] <= Begun(equery)[a] BY <1>0, <1>11, EdgeCostFacts DEF EdgeCost
  <1>14. CASE equery.free BY <1>14, <1>5, <1>6, <1>8, <1>10, <1>12, <1>13
  <1>15. CASE ~equery.free BY <1>15, <1>5, <1>6, <1>8, <1>10, <1>12, <1>13
  <1> QED BY <1>14, <1>15

\* A call from a node is one from the edges out of it.
LEMMA FromNodeCallIs ==
  ASSUME NEW q \in EdgeQueries, q.node.from # {}
  PROVE  /\ q.form = "set" /\ q.dst = InEdges(q.net, q.node.to) /\ q.node.to \subseteq q.net.nodes
         /\ \E n \in q.net.nodes : q.src = AdjOut(q.net, n) /\ q.node.from = {n}
  <1>1. PICK n \in q.net.nodes :
          q = FromNodeCall(q.net, n, q.node.to, q.heur, [ban |-> q.ban, free |-> q.free])
    BY NodeCallsAssumption
  <1>2. PICK net, ts : net = q.net /\ ts = q.node.to OBVIOUS
  <1> DEFINE call == FromNodeCall(net, n, ts, q.heur, [ban |-> q.ban, free |-> q.free])
  <1>3. /\ call.form = "set" /\ call.src = AdjOut(net, n) /\ call.dst = InEdges(net, ts)
        /\ call.node = [from |-> {n}, to |-> ts]
    BY DEF FromNodeCall, EdgeCall, OutEdges
  <1>4. q = call BY <1>1, <1>2
  <1> HIDE DEF call
  <1>5. /\ q.form = "set" /\ q.src = AdjOut(net, n) /\ q.dst = InEdges(net, ts)
        /\ q.node = [from |-> {n}, to |-> ts]
    BY <1>3, <1>4
  <1>6. q.node.to \subseteq q.net.nodes BY NodeCallsAssumption
  <1>7. q.node.from = {n} BY <1>5
  <1> QED BY <1>2, <1>5, <1>6, <1>7

\* The lists handed out are ways that cost what is returned.
LEMMA WaysFitHow == ASSUME EdgeIInv, EdgeTree PROVE WaysFit
  <1> SUFFICES ASSUME Returned, equery.form \in {"set", "many", "init"}, EdgeUsable(equery),
                      Inits(equery) => equery.net.directed,
                      NEW t \in Targets(equery) \cap DOMAIN esettled, costs[t] < Inf
               PROVE  LET es == Listed(t).edges
                          ns == Listed(t).nodes
                      IN /\ es[Len(es)] \in equery.src
                         /\ \A i \in 1..(Len(es) - 1) : <<es[i + 1], es[i]>> \notin equery.ban
                         /\ NoTurnWithin(equery) /\ (Len(es) > 1 \/ es[1].to # ns[Len(ns)]) =>
                              \A i \in 1..(Len(ns) - 1) :
                                {ns[i], ns[i + 1]} = {es[i].from, es[i].to}
                         /\ costs[t] = CostBehind(es) + esettled[es[Len(es)]].d
    BY DEF WaysFit
  <1>1. EdgeTypes /\ IsEdgeQuery(equery) /\ HandsOut(equery) /\ equery.form # "rev"
    BY EdgeQueryIs DEF Returned, EdgeIInv, EdgeTypes, HandsOut
  <1>2. WaysKnown BY <1>1 DEF WaysKnown, EdgeTree, Returned
  <1>3. /\ costs[t] = esettled[t].d
        /\ ~Inits(equery) => esettled[t].d = EdgeCost[t]
        /\ Inits(equery) => OneTime(equery)
    BY <1>1, TargetIsExact
  <1> DEFINE es == BuildEdges(t)
             nb == BuildNodes(t)
             L == Len(es)
             n(k) == esettled[es[k]].n
             V == equery.net.nodes
             end == IF equery.node.from = {} THEN <<>>
                    ELSE <<CHOOSE x \in equery.node.from : TRUE>>
             ns == nb \o end
  <1>4. Listed(t).edges = es /\ Listed(t).nodes = ns BY DEF Listed
  <1>5. WayBack(es) /\ es[1] = t BY <1>2, BuildEdgesAre
  <1>6. /\ L \in Nat \ {0} /\ es[L] \in equery.src /\ n(L) = NoNode
        /\ \A i \in 1..L : es[i] \in equery.net.edges
    <2>1. \A i \in 1..L : es[i] \in DOMAIN esettled BY <1>5 DEF WayBack, Climbs
    <2> QED BY <2>1, <1>1, <1>5 DEF WayBack, EdgeTypes, EdgeEntries
  <1>7. \A i \in 1..(L - 1) : ComesFrom(es[i], es[i + 1], n(i)) BY <1>2, <1>5, WayStep
  <1>8. \A e \in equery.net.edges : e.from \in V /\ e.to \in V
    BY <1>1 DEF IsEdgeQuery, IsNet
  <1>9. NoNode \notin V BY <1>1 DEF IsEdgeQuery, IsNet
  <1>10. /\ nb \in Seq(V) /\ Len(nb) = L /\ nb[1] = OtherNd(t, n(1))
         /\ \A k \in 1..(L - 1) : nb[k + 1] = n(k)
    <2>1. ASSUME NEW k \in 1..(L - 1) PROVE n(k) \in V \ {NoNode}
      <3>1. ComesFrom(es[k], es[k + 1], n(k)) BY <1>7
      <3> HIDE DEF es, n
      <3> QED BY <3>1, <1>9 DEF ComesFrom
    <2>2. OtherNd(t, n(1)) \in V
      <3>1. t \in equery.net.edges BY <1>1 DEF EdgeTypes, EdgeEntries
      <3> QED BY <3>1, <1>8 DEF OtherNd
    <2> QED BY <2>1, <2>2, <1>5, <1>6, BuildNodesAre
  <1> HIDE DEF es, nb, L, n, V
  <1>11. costs[t] = CostBehind(es) + esettled[es[L]].d
    <2>1. OneTime(equery) \/ esettled[es[1]].d = EdgeCost[es[1]] BY <1>3, <1>5
    <2> QED BY <2>1, <1>1, <1>2, <1>3, <1>5, WayCheapest DEF L
  <1>12. \A i \in 1..(L - 1) : <<es[i + 1], es[i]>> \notin equery.ban BY <1>7 DEF ComesFrom
  <1>13. ASSUME ~equery.net.directed
         PROVE  \A i \in 1..Len(es) : esettled[es[i]].d = EdgeCost[es[i]]
    <2>1. esettled[es[1]].d = EdgeCost[es[1]] BY <1>3, <1>5, <1>13
    <2> QED BY <2>1, <1>1, <1>2, <1>5, WayCheapest
  <1>14. ASSUME NoTurnWithin(equery), NEW i \in 1..(L - 1)
         PROVE  {nb[i], nb[i + 1]} = {es[i].from, es[i].to}
    <2>1. nb[i + 1] = n(i) /\ es[i] \in AdjOut(equery.net, n(i)) BY <1>7, <1>10 DEF ComesFrom
    <2>2. CASE i = 1
      <3>1. t.from = n(1) \/ t.to = n(1) BY <2>1, <2>2, <1>5 DEF AdjOut
      <3>2. PICK v : v = n(1) OBVIOUS
      <3>3. {OtherNd(t, v), v} = {t.from, t.to} BY <3>1, <3>2, StartJoined
      <3>4. nb[i] = OtherNd(t, v) /\ nb[i + 1] = v /\ es[i] = t
        BY <3>2, <2>1, <2>2, <1>5, <1>10
      <3> QED BY <3>3, <3>4
    <2>3. CASE i # 1
      <3>0. L \in Nat /\ i - 1 \in 1..(L - 1) /\ (i - 1) + 1 = i /\ i - 1 \in 1..(L - 2)
        BY <2>3, <1>6
      <3>1. PICK j \in 1..(L - 1) : j + 1 = i /\ j \in 1..(L - 2) BY <3>0
      <3>2. nb[i] = n(j) /\ n(j) \in EndsOf(equery, es[i]) BY <3>1, <1>7, <1>10 DEF ComesFrom
      <3>3. equery.net.directed \/ n(j) # n(i)
        <4> SUFFICES ASSUME ~equery.net.directed PROVE n(j) # n(i) OBVIOUS
        <4>1. equery.ban = {} /\ \A e \in equery.net.edges : e.c > 0
          BY <1>14 DEF NoTurnWithin
        <4>2. \A k \in 1..Len(es) : esettled[es[k]].d = EdgeCost[es[k]] BY <1>13
        <4>3. j \in 1..(Len(es) - 2) BY <3>1 DEF L
        <4>4. esettled[es[j]].n # esettled[es[j + 1]].n
          BY <4>1, <4>2, <4>3, <1>1, <1>2, <1>5, NoTurn
        <4> QED BY <4>4, <3>1 DEF n
      <3>4. PICK e, x, y : e = es[i] /\ x = n(j) /\ y = n(i) OBVIOUS
      <3>5. Joins(e, x, y)
        <4>1. x \in EndsOf(equery, e) /\ e \in AdjOut(equery.net, y)
              /\ (equery.net.directed \/ x # y)
          BY <2>1, <3>2, <3>3, <3>4
        <4> QED BY <4>1, EndsJoined
      <3> QED BY <3>4, <3>5, <3>2, <2>1 DEF Joins
    <2> QED BY <2>2, <2>3
  <1>15. ASSUME NoTurnWithin(equery), L > 1 \/ es[1].to # ns[Len(ns)], NEW i \in 1..(Len(ns) - 1)
         PROVE  {ns[i], ns[i + 1]} = {es[i].from, es[i].to}
    <2>1. CASE equery.node.from = {}
      <3>1. end = <<>> BY <2>1
      <3>2. ns = nb BY <3>1, <1>10
      <3> QED BY <3>2, <1>10, <1>14, <1>15
    <2>2. CASE equery.node.from # {}
      <3>1. equery \in EdgeQueries BY <1>1 DEF EdgeTypes
      <3>2. PICK o \in equery.net.nodes : equery.src = AdjOut(equery.net, o)
                                          /\ equery.node.from = {o}
        BY <3>1, <2>2, FromNodeCallIs
      <3>3. end = <<o>>
        <4>1. (CHOOSE x \in equery.node.from : TRUE) = o BY <3>2
        <4> QED BY <4>1, <2>2
      <3> HIDE DEF end
      <3>4. <<o>> \in Seq(V)
        <4>1. o \in V BY DEF V
        <4> QED BY <4>1
      <3>5. /\ Len(ns) = L + 1 /\ ns[L + 1] = o /\ \A k \in 1..L : ns[k] = nb[k]
        BY <3>3, <3>4, <1>6, <1>10
      <3>6. CASE i # L
        <4>1. i \in 1..(L - 1) /\ i \in 1..L /\ i + 1 \in 1..L BY <3>5, <3>6, <1>6
        <4> QED BY <4>1, <3>5, <1>14, <1>15
      <3>7. CASE i = L
        <4>1. ns[i] = nb[L] /\ ns[i + 1] = o /\ ns[Len(ns)] = o BY <3>5, <3>7, <1>6
        <4>2. es[L] \in AdjOut(equery.net, o) BY <3>2, <1>6
        <4>3. CASE L = 1
          <5>1. es[1].to # o BY <4>1, <4>3, <1>15
          <5>2. es[1].from = o BY <5>1, <4>2, <4>3 DEF AdjOut
          <5>3. nb[1] = es[1].to
            <6>1. n(1) = NoNode /\ es[1] = t /\ t \in equery.net.edges BY <4>3, <1>5, <1>6
            <6>2. t.to # NoNode BY <6>1, <1>8, <1>9
            <6> QED BY <6>1, <6>2, <1>10 DEF OtherNd
          <5> QED BY <5>2, <5>3, <4>1, <4>3, <3>7
        <4>4. CASE L # 1
          <5>1. PICK j \in 1..(L - 1) : j + 1 = L /\ j = L - 1 BY <4>4, <1>6
          <5>2. nb[L] = n(j) /\ n(j) \in EndsOf(equery, es[L]) BY <5>1, <1>7, <1>10 DEF ComesFrom
          <5>3. equery.net.directed \/ n(j) # o
            <6> SUFFICES ASSUME ~equery.net.directed PROVE n(j) # o OBVIOUS
            <6>1. \A e \in equery.net.edges : e.c > 0 BY <1>15 DEF NoTurnWithin
            <6>2. \A k \in 1..Len(es) : esettled[es[k]].d = EdgeCost[es[k]] BY <1>13
            <6>3. equery.form \in {"set", "many"} BY <3>1, <2>2, FromNodeCallIs
            <6>4. Len(es) > 1 BY <4>4, <1>6 DEF L
            <6>5. esettled[es[Len(es) - 1]].n # o
              BY <6>1, <6>2, <6>3, <6>4, <3>2, <1>2, <1>5, NoReturn
            <6> QED BY <6>5, <5>1 DEF n, L
          <5>4. PICK e, x : e = es[L] /\ x = n(j) OBVIOUS
          <5>5. Joins(e, x, o)
            <6>1. x \in EndsOf(equery, e) /\ e \in AdjOut(equery.net, o)
                  /\ (equery.net.directed \/ x # o)
              BY <5>2, <5>3, <5>4, <4>2
            <6> QED BY <6>1, EndsJoined
          <5> QED BY <5>4, <5>5, <5>2, <4>1, <3>7 DEF Joins
        <4> QED BY <4>3, <4>4
      <3> QED BY <3>6, <3>7
    <2> QED BY <2>1, <2>2
  <1> HIDE DEF ns
  <1> QED BY <1>4, <1>6, <1>11, <1>12, <1>15 DEF L

\* What a call from a node returns.
LEMMA NodesAgreeHow ==
  ASSUME EdgeTypeOK, EdgeShortest, equery # NoEdgeQuery => equery \in EdgeQueries
  PROVE  NodesAgree
  <1> SUFFICES ASSUME Returned, equery.node.from # {}, equery.node.from \cap equery.node.to = {},
                      ~equery.free, equery.ban = {}, EdgeUsable(equery)
               PROVE  NearestCost(costs, equery.dst)
                        = NearestCost(DistFrom(equery.net, equery.node.from), equery.node.to)
    BY DEF NodesAgree
  <1>1. equery \in EdgeQueries BY DEF Returned
  <1>2. /\ equery.form = "set" /\ equery.dst = InEdges(equery.net, equery.node.to)
        /\ equery.node.to \subseteq equery.net.nodes
    BY <1>1, FromNodeCallIs
  <1>3. PICK n \in equery.net.nodes : equery.src = AdjOut(equery.net, n) /\ equery.node.from = {n}
    BY <1>1, FromNodeCallIs
  <1>4. PICK ts : ts = equery.node.to OBVIOUS
  <1>5. IsNodeCall(equery, n, ts) BY <1>1, <1>2, <1>3, <1>4, EdgeQueryIs DEF IsNodeCall
  <1>6. NearestCost(costs, equery.dst) = NearestCost(EdgeCosts(equery), equery.dst)
    <2>1. ~Inits(equery) /\ ~Each(equery) /\ equery.form # "rev" BY <1>2 DEF Inits, Each
    <2> QED BY <2>1, <1>2 DEF EdgeShortest
  <1>7. NearestCost(EdgeCosts(equery), equery.dst) = NearestCost(DistFrom(equery.net, {n}), ts)
    BY <1>5, NodeCallCosts
  <1>8. DistFrom(equery.net, equery.node.from) = DistFrom(equery.net, {n}) BY <1>3
  <1> QED BY <1>4, <1>6, <1>7, <1>8

\* A search that settles edges (EDijkstra) finds the costs of cheapest ways, to the
\* nearest target, to each target or to all in reach, and never less where it is cut off,
\* on any graph, with any forbidden turns and any heuristic that never says too much (for
\* each target: that is consistent); and one backward finds for each edge what the search
\* forward from it would.
THEOREM EdgesAreShortest == EdgeSpec => []EdgeInv
  <1>1. EdgeInit => EdgeRevInv BY EdgeInitOK DEF EdgeRevInv, EdgeInit
  <1>2. EdgeRevInv /\ [EdgeNext]_edgeVars => EdgeRevInv' BY EdgeRevStep
  <1>3. EdgeRevInv => EdgeInv
    <2> SUFFICES ASSUME EdgeRevInv PROVE EdgeInv OBVIOUS
    <2>1. EdgeTypeOK BY EdgeIInvTypes DEF EdgeRevInv
    <2>2. EdgeShortest /\ (equery # NoEdgeQuery => EdgeTypes) BY DEF EdgeRevInv, EdgeIInv
    <2>3. RevIsForward BY <2>2, RevIsRight DEF EdgeRevInv
    <2> QED BY <2>1, <2>2, <2>3 DEF EdgeInv
  <1> QED BY <1>1, <1>2, <1>3, PTL DEF EdgeSpec

\* The edges and nodes that such a search hands out for a target are a way from the start
\* to it that costs what is returned (buildPath, buildPathInit), and a call from a node
\* returns what a search that settles nodes would.
THEOREM WaysAreShortest == EdgeSpec => []EdgeAnswers
  <1>1. EdgeInit => EdgeIInv /\ EdgeTree BY EdgeInitOK DEF EdgeTree, EdgeInit
  <1>2. EdgeIInv /\ EdgeTree /\ [EdgeNext]_edgeVars => EdgeIInv' /\ EdgeTree'
    BY EdgeStep, EdgeTreeStep
  <1>3. EdgeIInv /\ EdgeTree => EdgeAnswers
    <2> SUFFICES ASSUME EdgeIInv, EdgeTree PROVE EdgeAnswers OBVIOUS
    <2>1. EdgeTypeOK /\ EdgeShortest /\ (equery # NoEdgeQuery => equery \in EdgeQueries)
      BY EdgeIInvTypes DEF EdgeIInv, EdgeTypes
    <2> QED BY <2>1, WaysFitHow, NodesAgreeHow DEF EdgeAnswers
  <1> QED BY <1>1, <1>2, <1>3, PTL DEF EdgeSpec
=============================================================================
