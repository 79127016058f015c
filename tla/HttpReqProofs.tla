--------------------------- MODULE HttpReqProofs ---------------------------
(***************************************************************************)
(* TLAPS proofs about HttpReq: any well-formed request, sent whole or in   *)
(* part and cut into reads in any way, through a buffer of any size.       *)
(***************************************************************************)
EXTENDS HttpReq, SequenceTheorems, WellFoundedInduction, TLAPS

\* Induction, for a set instead of a predicate.
LEMMA Induct ==
  ASSUME NEW S, 0 \in S, \A n \in Nat : n \in S => n + 1 \in S
  PROVE  \A n \in Nat : n \in S
  <1> DEFINE T == {n \in Nat : n \notin S}
  <1> SUFFICES ASSUME T # {} PROVE FALSE
    OBVIOUS
  <1>1. PICK x \in T : \A y \in T : ~ (<<y, x>> \in OpToRel(<, Nat))
    <2> HIDE DEF T
    <2>1. T \subseteq Nat BY DEF T
    <2> QED BY <2>1, NatLessThanWellFounded, WFMin
  <1>2. x # 0 /\ x - 1 \in Nat
    OBVIOUS
  <1>3. <<x - 1, x>> \in OpToRel(<, Nat)
    BY <1>2 DEF OpToRel
  <1>4. x - 1 \in S
    BY <1>1, <1>2, <1>3
  <1> QED BY <1>2, <1>4

-----------------------------------------------------------------------------
(* The bytes of a request. *)

Strings == Seq(Bytes)

\* The line of the j-th header.
LineOf(r, j) == r.params[j][1] \o <<"COLON">> \o r.gap \o r.params[j][2] \o r.eol
FirstLine(r) == r.cmd \o <<"SP">> \o r.url \o <<"SP">> \o r.ver \o r.eol

LEMMA Fields ==
  ASSUME NEW r, WellFormed(r)
  PROVE  /\ r.cmd \in Strings /\ r.url \in Strings /\ r.ver \in Strings
         /\ r.eol \in Strings /\ r.gap \in Strings /\ r.payload \in Strings
         /\ Len(r.params) \in Nat
         /\ \A j \in 1..Len(r.params) :
              /\ r.params[j][1] \in Strings /\ r.params[j][2] \in Strings
              /\ r.params[j] = <<r.params[j][1], r.params[j][2]>>
  <1>1. r.cmd \in Strings /\ r.url \in Strings /\ r.ver \in Strings /\ r.payload \in Strings
    BY DEF WellFormed, Solid, Strings
  <1>2. r.gap \in Strings
    <2>1. {"SP"} \subseteq Bytes BY BytesAssumption
    <2>2. r.gap \in Seq({"SP"}) BY DEF WellFormed
    <2> QED BY <2>1, <2>2, SeqMonotonic DEF Strings
  <1>3. r.eol \in Strings
    <2>1. "CR" \in Bytes /\ "LF" \in Bytes BY BytesAssumption
    <2>2. r.eol = <<"LF">> \/ r.eol = <<"CR", "LF">> BY DEF WellFormed
    <2>3. <<"LF">> \in Seq(Bytes) BY <2>1
    <2>4. <<"CR", "LF">> \in Seq(Bytes) BY <2>1
    <2> QED BY <2>2, <2>3, <2>4 DEF Strings
  <1>4. r.params \in Seq(Seq(Bytes) \X Seq(Bytes))
    BY DEF WellFormed
  <1>5. ASSUME NEW j \in 1..Len(r.params)
        PROVE  r.params[j] \in Seq(Bytes) \X Seq(Bytes)
    BY <1>4, ElementOfSeq
  <1>6. ASSUME NEW x \in Seq(Bytes) \X Seq(Bytes)
        PROVE  x[1] \in Strings /\ x[2] \in Strings /\ x = <<x[1], x[2]>>
    BY DEF Strings
  <1> QED BY <1>1, <1>2, <1>3, <1>4, <1>5, <1>6, LenProperties

LEMMA MeantFields ==
  ASSUME NEW r, WellFormed(r)
  PROVE  /\ Len(Meant(r)) = Len(r.params)
         /\ \A j \in 1..Len(r.params) :
              /\ Meant(r)[j] = <<r.params[j][1], Blanked(r.params[j][2])>>
              /\ Meant(r)[j][1] = r.params[j][1]
              /\ Meant(r)[j][2] = Blanked(r.params[j][2])
  <1> DEFINE n == Len(r.params)
             f == [j \in 1..n |-> <<r.params[j][1], Blanked(r.params[j][2])>>]
  <1>1. n \in Nat BY Fields
  <1>2. Meant(r) = f BY DEF Meant
  <1> HIDE DEF n
  <1>3. f \in [1..n -> {<<r.params[j][1], Blanked(r.params[j][2])>> : j \in 1..n}]
    OBVIOUS
  <1>4. Len(f) = n
    BY <1>1, <1>3
  <1> QED BY <1>2, <1>4 DEF n

LEMMA HeadUnfolds ==
  ASSUME NEW r, WellFormed(r)
  PROVE  /\ HeadOf(r)[0] = FirstLine(r)
         /\ \A j \in 1..Len(r.params) : HeadOf(r)[j] = HeadOf(r)[j - 1] \o LineOf(r, j)
  <1> DEFINE m == Len(r.params)
             Is(f, n) == f = [j \in 0..n |-> IF j = 0 THEN FirstLine(r)
                                             ELSE f[j - 1] \o LineOf(r, j)]
             S == {n \in Nat : \E f : Is(f, n)}
  <1>1. 0 \in S
    <2>1. Is([j \in 0..0 |-> FirstLine(r)], 0) OBVIOUS
    <2> QED BY <2>1
  <1>2. ASSUME NEW n \in Nat, n \in S PROVE n + 1 \in S
    <2>1. PICK f : Is(f, n) BY <1>2
    <2> DEFINE g == [j \in 0..(n + 1) |-> IF j = n + 1 THEN f[n] \o LineOf(r, j) ELSE f[j]]
    <2>2. Is(g, n + 1)
      <3> SUFFICES ASSUME NEW j \in 0..(n + 1)
                   PROVE  g[j] = IF j = 0 THEN FirstLine(r) ELSE g[j - 1] \o LineOf(r, j)
        OBVIOUS
      <3>1. CASE j = n + 1
        <4>1. g[n + 1] = f[n] \o LineOf(r, n + 1)
          <5>1. n + 1 \in 0..(n + 1) OBVIOUS
          <5> QED BY <5>1
        <4>2. g[n] = f[n]
          <5>1. n \in 0..(n + 1) /\ n # n + 1 OBVIOUS
          <5> QED BY <5>1
        <4>3. j - 1 = n /\ j # 0 BY <3>1
        <4> HIDE DEF g, Is
        <4>4. g[j] = f[n] \o LineOf(r, j) BY <3>1, <4>1
        <4> QED BY <4>2, <4>3, <4>4
      <3>2. CASE j # n + 1
        <4>1. j \in 0..n BY <3>2
        <4>2. f[j] = IF j = 0 THEN FirstLine(r) ELSE f[j - 1] \o LineOf(r, j)
          BY <2>1, <4>1
        <4> QED BY <3>2, <4>1, <4>2
      <3> QED BY <3>1, <3>2
    <2>3. \E h : Is(h, n + 1)
      <3> HIDE DEF Is, g
      <3> QED BY <2>2
    <2> HIDE DEF Is
    <2> QED BY <2>3
  <1>3. \E f : Is(f, m)
    <2>1. \A n \in Nat : n \in S
      <3> HIDE DEF S
      <3> QED BY <1>1, <1>2, Induct
    <2> QED BY <2>1, Fields
  <1>4. Is(HeadOf(r), m)
    <2> DEFINE line(h) == h[1] \o <<"COLON">> \o r.gap \o h[2] \o r.eol
               f0 == CHOOSE f : f = [j \in 0..m |->
                       IF j = 0 THEN r.cmd \o <<"SP">> \o r.url \o <<"SP">> \o r.ver \o r.eol
                       ELSE f[j - 1] \o line(r.params[j])]
    <2>1. HeadOf(r) = f0 BY DEF HeadOf
    <2>2. \E f : f = [j \in 0..m |->
                       IF j = 0 THEN r.cmd \o <<"SP">> \o r.url \o <<"SP">> \o r.ver \o r.eol
                       ELSE f[j - 1] \o line(r.params[j])]
      BY <1>3 DEF FirstLine, LineOf
    <2>3. f0 = [j \in 0..m |->
                       IF j = 0 THEN r.cmd \o <<"SP">> \o r.url \o <<"SP">> \o r.ver \o r.eol
                       ELSE f0[j - 1] \o line(r.params[j])]
      BY <2>2
    <2> QED BY <2>1, <2>3 DEF FirstLine, LineOf
  <1>5. m \in Nat BY Fields
  <1>6. HeadOf(r)[0] = FirstLine(r) BY <1>4, <1>5
  <1>7. ASSUME NEW j \in 1..m PROVE HeadOf(r)[j] = HeadOf(r)[j - 1] \o LineOf(r, j)
    <2>1. j \in 0..m /\ j # 0 BY <1>5
    <2> QED BY <1>4, <2>1
  <1> QED BY <1>6, <1>7

LEMMA LineEnd ==
  ASSUME NEW r, WellFormed(r)
  PROVE  /\ Len(r.eol) \in {1, 2} /\ r.eol[Len(r.eol)] = "LF"
         /\ \A i \in 1..(Len(r.eol) - 1) : r.eol[i] = "CR"
  <1> DEFINE e == r.eol
  <1>1. e = <<"LF">> \/ e = <<"CR", "LF">>
    BY DEF WellFormed
  <1> HIDE DEF e
  <1>2. CASE e = <<"LF">>
    <2>1. Len(e) = 1 /\ e[1] = "LF" BY <1>2
    <2> QED BY <2>1 DEF e
  <1>3. CASE e = <<"CR", "LF">>
    <2>1. Len(e) = 2 /\ e[1] = "CR" /\ e[2] = "LF" BY <1>3
    <2>2. \A i \in 1..(2 - 1) : e[i] = "CR" BY <2>1
    <2> QED BY <2>1, <2>2 DEF e
  <1> QED BY <1>1, <1>2, <1>3

LEMMA OneByte ==
  ASSUME NEW b \in Bytes
  PROVE  <<b>> \in Strings /\ Len(<<b>>) = 1 /\ <<b>>[1] = b
  BY DEF Strings

\* What lies where in the concatenation of two texts.
IsJoin(t, a, b) ==
  /\ t \in Strings /\ Len(a) \in Nat /\ Len(b) \in Nat
  /\ Len(t) = Len(a) + Len(b)
  /\ \A i \in 1..Len(a) : t[i] = a[i]
  /\ \A i \in 1..Len(b) : t[Len(a) + i] = b[i]

LEMMA Joined ==
  ASSUME NEW a \in Strings, NEW b \in Strings, NEW t, t = a \o b
  PROVE  IsJoin(t, a, b)
  <1>1. Len(a) \in Nat /\ Len(b) \in Nat
    BY LenProperties DEF Strings
  <1>2. /\ t \in Seq(Bytes) /\ Len(t) = Len(a) + Len(b)
        /\ \A i \in 1..Len(a) + Len(b) :
             t[i] = IF i <= Len(a) THEN a[i] ELSE b[i - Len(a)]
    BY ConcatProperties DEF Strings
  <1>3. ASSUME NEW i \in 1..Len(a) PROVE t[i] = a[i]
    BY <1>1, <1>2
  <1>4. ASSUME NEW i \in 1..Len(b) PROVE t[Len(a) + i] = b[i]
    <2>1. Len(a) + i \in 1..Len(a) + Len(b) /\ ~(Len(a) + i <= Len(a)) /\ Len(a) + i - Len(a) = i
      BY <1>1
    <2> QED BY <1>2, <2>1
  <1> QED BY <1>1, <1>2, <1>3, <1>4 DEF Strings, IsJoin

LEMMA FirstLineParts ==
  ASSUME NEW c, NEW u, NEW v, NEW e, NEW sp,
         NEW t1, NEW t2, NEW t3, NEW t4, NEW F,
         IsJoin(t1, c, sp), IsJoin(t2, t1, u), IsJoin(t3, t2, sp),
         IsJoin(t4, t3, v), IsJoin(F, t4, e), Len(sp) = 1, sp[1] = "SP"
  PROVE  LET C == Len(c)
             U == Len(u)
             V == Len(v)
             E == Len(e)
         IN /\ F \in Strings /\ Len(F) = C + U + V + E + 2
            /\ C \in Nat /\ U \in Nat /\ V \in Nat /\ E \in Nat
            /\ \A i \in 1..C : F[i] = c[i]
            /\ F[C + 1] = "SP"
            /\ \A i \in 1..U : F[C + 1 + i] = u[i]
            /\ F[C + U + 2] = "SP"
            /\ \A i \in 1..V : F[C + U + 2 + i] = v[i]
            /\ \A i \in 1..E : F[C + U + V + 2 + i] = e[i]
  <1>1. /\ t1 \in Strings /\ Len(c) \in Nat /\ Len(sp) \in Nat
        /\ Len(t1) = Len(c) + Len(sp)
        /\ \A i \in 1..Len(c) : t1[i] = c[i]
        /\ \A i \in 1..Len(sp) : t1[Len(c) + i] = sp[i]
    BY DEF IsJoin
  <1>2. /\ t2 \in Strings /\ Len(t1) \in Nat /\ Len(u) \in Nat
        /\ Len(t2) = Len(t1) + Len(u)
        /\ \A i \in 1..Len(t1) : t2[i] = t1[i]
        /\ \A i \in 1..Len(u) : t2[Len(t1) + i] = u[i]
    BY DEF IsJoin
  <1>3. /\ t3 \in Strings /\ Len(t2) \in Nat /\ Len(sp) \in Nat
        /\ Len(t3) = Len(t2) + Len(sp)
        /\ \A i \in 1..Len(t2) : t3[i] = t2[i]
        /\ \A i \in 1..Len(sp) : t3[Len(t2) + i] = sp[i]
    BY DEF IsJoin
  <1>4. /\ t4 \in Strings /\ Len(t3) \in Nat /\ Len(v) \in Nat
        /\ Len(t4) = Len(t3) + Len(v)
        /\ \A i \in 1..Len(t3) : t4[i] = t3[i]
        /\ \A i \in 1..Len(v) : t4[Len(t3) + i] = v[i]
    BY DEF IsJoin
  <1>5. /\ F \in Strings /\ Len(t4) \in Nat /\ Len(e) \in Nat
        /\ Len(F) = Len(t4) + Len(e)
        /\ \A i \in 1..Len(t4) : F[i] = t4[i]
        /\ \A i \in 1..Len(e) : F[Len(t4) + i] = e[i]
    BY DEF IsJoin
  <1> DEFINE C == Len(c)
             U == Len(u)
             V == Len(v)
             E == Len(e)
  <1>7. /\ C \in Nat /\ U \in Nat /\ V \in Nat /\ E \in Nat
        /\ Len(t1) = C + 1 /\ Len(t2) = C + 1 + U /\ Len(t3) = C + U + 2
        /\ Len(t4) = C + U + 2 + V /\ Len(F) = C + U + V + 2 + E /\ F \in Strings
    BY <1>1, <1>2, <1>3, <1>4, <1>5
  <1>8. /\ \A i \in 1..(C + U + 2 + V) : F[i] = t4[i]
        /\ \A i \in 1..(C + U + 2) : t4[i] = t3[i]
        /\ \A i \in 1..(C + 1 + U) : t3[i] = t2[i]
        /\ \A i \in 1..(C + 1) : t2[i] = t1[i]
        /\ \A i \in 1..C : t1[i] = c[i]
    <2> HIDE DEF U, V, E
    <2> QED BY <1>1, <1>2, <1>3, <1>4, <1>5, <1>7
  <1>9. /\ t1[C + 1] = "SP"
        /\ \A i \in 1..U : t2[C + 1 + i] = u[i]
        /\ t3[C + 1 + U + 1] = "SP"
        /\ \A i \in 1..V : t4[C + U + 2 + i] = v[i]
        /\ \A i \in 1..E : F[C + U + 2 + V + i] = e[i]
    <2>1. t1[C + 1] = "SP" BY <1>1, <1>7
    <2>2. \A i \in 1..U : t2[C + 1 + i] = u[i] BY <1>2, <1>7
    <2>3. t3[C + 1 + U + 1] = "SP" BY <1>3, <1>7
    <2>4. \A i \in 1..V : t4[C + U + 2 + i] = v[i] BY <1>4, <1>7
    <2>5. \A i \in 1..E : F[C + U + 2 + V + i] = e[i] BY <1>5, <1>7
    <2> QED BY <2>1, <2>2, <2>3, <2>4, <2>5
  <1> HIDE DEF C, U, V, E
  <1>10. \A i \in 1..C : F[i] = c[i]
    BY <1>7, <1>8
  <1>11. F[C + 1] = "SP"
    BY <1>7, <1>8, <1>9
  <1>12. ASSUME NEW i \in 1..U PROVE F[C + 1 + i] = u[i]
    BY <1>7, <1>8, <1>9
  <1>13. F[C + U + 2] = "SP"
    <2>1. C + U + 2 = C + 1 + U + 1 BY <1>7
    <2> QED BY <1>7, <1>8, <1>9, <2>1
  <1>14. ASSUME NEW i \in 1..V PROVE F[C + U + 2 + i] = v[i]
    BY <1>7, <1>8, <1>9
  <1>15. ASSUME NEW i \in 1..E PROVE F[C + U + V + 2 + i] = e[i]
    <2>1. C + U + V + 2 + i = C + U + 2 + V + i BY <1>7
    <2> QED BY <1>9, <2>1
  <1>16. Len(F) = C + U + V + E + 2
    BY <1>7
  <1> QED BY <1>7, <1>10, <1>11, <1>12, <1>13, <1>14, <1>15, <1>16 DEF C, U, V, E

LEMMA FirstLineBytes ==
  ASSUME NEW r, WellFormed(r)
  PROVE  LET F == FirstLine(r)
             C == Len(r.cmd)
             U == Len(r.url)
             V == Len(r.ver)
             E == Len(r.eol)
         IN /\ F \in Strings /\ Len(F) = C + U + V + E + 2
            /\ C \in Nat \ {0} /\ U \in Nat /\ V \in Nat
            /\ \A i \in 1..C : F[i] = r.cmd[i]
            /\ F[C + 1] = "SP"
            /\ \A i \in 1..U : F[C + 1 + i] = r.url[i]
            /\ F[C + U + 2] = "SP"
            /\ \A i \in 1..V : F[C + U + 2 + i] = r.ver[i]
            /\ \A i \in 1..E : F[C + U + V + 2 + i] = r.eol[i]
  <1> DEFINE cmd == r.cmd
             url == r.url
             ver == r.ver
             eol == r.eol
             F == FirstLine(r)
             sp == <<"SP">>
             t1 == cmd \o sp
             t2 == t1 \o url
             t3 == t2 \o sp
             t4 == t3 \o ver
  <1>1. cmd \in Strings /\ url \in Strings /\ ver \in Strings /\ eol \in Strings
    BY Fields
  <1>2. cmd # <<>>
    BY DEF WellFormed
  <1>3. sp \in Strings /\ Len(sp) = 1 /\ sp[1] = "SP"
    BY OneByte, BytesAssumption
  <1>4. /\ t1 = cmd \o sp /\ t2 = t1 \o url /\ t3 = t2 \o sp /\ t4 = t3 \o ver
        /\ F = t4 \o eol
    BY DEF FirstLine
  <1> HIDE DEF cmd, url, ver, eol, F, sp, t1, t2, t3, t4
  <1>5. IsJoin(t1, cmd, sp) BY <1>1, <1>3, <1>4, Joined
  <1>6. IsJoin(t2, t1, url)
    <2>1. t1 \in Strings BY <1>5 DEF IsJoin
    <2> QED BY <1>1, <1>4, <2>1, Joined
  <1>7. IsJoin(t3, t2, sp)
    <2>1. t2 \in Strings BY <1>6 DEF IsJoin
    <2> QED BY <1>3, <1>4, <2>1, Joined
  <1>8. IsJoin(t4, t3, ver)
    <2>1. t3 \in Strings BY <1>7 DEF IsJoin
    <2> QED BY <1>1, <1>4, <2>1, Joined
  <1>9. IsJoin(F, t4, eol)
    <2>1. t4 \in Strings BY <1>8 DEF IsJoin
    <2> QED BY <1>1, <1>4, <2>1, Joined
  <1>10. Len(cmd) \in Nat \ {0}
    BY <1>1, <1>2, EmptySeq DEF Strings
  <1>11. /\ F \in Strings /\ Len(F) = Len(cmd) + Len(url) + Len(ver) + Len(eol) + 2
         /\ Len(url) \in Nat /\ Len(ver) \in Nat
         /\ \A i \in 1..Len(cmd) : F[i] = cmd[i]
         /\ F[Len(cmd) + 1] = "SP"
         /\ \A i \in 1..Len(url) : F[Len(cmd) + 1 + i] = url[i]
         /\ F[Len(cmd) + Len(url) + 2] = "SP"
         /\ \A i \in 1..Len(ver) : F[Len(cmd) + Len(url) + 2 + i] = ver[i]
         /\ \A i \in 1..Len(eol) : F[Len(cmd) + Len(url) + Len(ver) + 2 + i] = eol[i]
    BY <1>3, <1>5, <1>6, <1>7, <1>8, <1>9, FirstLineParts
  <1> QED BY <1>10, <1>11 DEF cmd, url, ver, eol, F

LEMMA LineParts ==
  ASSUME NEW k, NEW g, NEW v, NEW e, NEW co, NEW t1, NEW t2, NEW t3, NEW L,
         IsJoin(t1, k, co), IsJoin(t2, t1, g), IsJoin(t3, t2, v), IsJoin(L, t3, e),
         Len(co) = 1, co[1] = "COLON"
  PROVE  LET K == Len(k)
             G == Len(g)
             W == Len(v)
             E == Len(e)
         IN /\ L \in Strings /\ Len(L) = K + 1 + G + W + E
            /\ K \in Nat /\ G \in Nat /\ W \in Nat /\ E \in Nat
            /\ \A i \in 1..K : L[i] = k[i]
            /\ L[K + 1] = "COLON"
            /\ \A i \in 1..G : L[K + 1 + i] = g[i]
            /\ \A i \in 1..W : L[K + 1 + G + i] = v[i]
            /\ \A i \in 1..E : L[K + 1 + G + W + i] = e[i]
  <1>1. /\ t1 \in Strings /\ Len(k) \in Nat /\ Len(co) \in Nat
        /\ Len(t1) = Len(k) + Len(co)
        /\ \A i \in 1..Len(k) : t1[i] = k[i]
        /\ \A i \in 1..Len(co) : t1[Len(k) + i] = co[i]
    BY DEF IsJoin
  <1>2. /\ t2 \in Strings /\ Len(t1) \in Nat /\ Len(g) \in Nat
        /\ Len(t2) = Len(t1) + Len(g)
        /\ \A i \in 1..Len(t1) : t2[i] = t1[i]
        /\ \A i \in 1..Len(g) : t2[Len(t1) + i] = g[i]
    BY DEF IsJoin
  <1>3. /\ t3 \in Strings /\ Len(t2) \in Nat /\ Len(v) \in Nat
        /\ Len(t3) = Len(t2) + Len(v)
        /\ \A i \in 1..Len(t2) : t3[i] = t2[i]
        /\ \A i \in 1..Len(v) : t3[Len(t2) + i] = v[i]
    BY DEF IsJoin
  <1>4. /\ L \in Strings /\ Len(t3) \in Nat /\ Len(e) \in Nat
        /\ Len(L) = Len(t3) + Len(e)
        /\ \A i \in 1..Len(t3) : L[i] = t3[i]
        /\ \A i \in 1..Len(e) : L[Len(t3) + i] = e[i]
    BY DEF IsJoin
  <1> DEFINE K == Len(k)
             G == Len(g)
             W == Len(v)
             E == Len(e)
  <1>6. /\ K \in Nat /\ G \in Nat /\ W \in Nat /\ E \in Nat
        /\ Len(t1) = K + 1 /\ Len(t2) = K + 1 + G /\ Len(t3) = K + 1 + G + W
        /\ Len(L) = K + 1 + G + W + E /\ L \in Strings
    BY <1>1, <1>2, <1>3, <1>4
  <1>7. /\ \A i \in 1..(K + 1 + G + W) : L[i] = t3[i]
        /\ \A i \in 1..(K + 1 + G) : t3[i] = t2[i]
        /\ \A i \in 1..(K + 1) : t2[i] = t1[i]
        /\ \A i \in 1..K : t1[i] = k[i]
    BY <1>1, <1>2, <1>3, <1>4, <1>6
  <1>8. /\ t1[K + 1] = "COLON"
        /\ \A i \in 1..G : t2[K + 1 + i] = g[i]
        /\ \A i \in 1..W : t3[K + 1 + G + i] = v[i]
        /\ \A i \in 1..E : L[K + 1 + G + W + i] = e[i]
    BY <1>1, <1>2, <1>3, <1>4, <1>6
  <1> HIDE DEF K, G, W, E
  <1>9. \A i \in 1..K : L[i] = k[i]
    BY <1>6, <1>7
  <1>10. L[K + 1] = "COLON"
    BY <1>6, <1>7, <1>8
  <1>11. ASSUME NEW i \in 1..G PROVE L[K + 1 + i] = g[i]
    BY <1>6, <1>7, <1>8
  <1>12. ASSUME NEW i \in 1..W PROVE L[K + 1 + G + i] = v[i]
    BY <1>6, <1>7, <1>8
  <1> QED BY <1>6, <1>8, <1>9, <1>10, <1>11, <1>12 DEF K, G, W, E

\* L is a header line of these parts.
IsLine(L, key, gap, val, eol) ==
  LET K == Len(key)
      G == Len(gap)
      W == Len(val)
      E == Len(eol)
  IN /\ L \in Strings /\ Len(L) = K + 1 + G + W + E
     /\ K \in Nat \ {0} /\ G \in Nat /\ W \in Nat
     /\ \A i \in 1..K : L[i] = key[i]
     /\ L[K + 1] = "COLON"
     /\ \A i \in 1..G : L[K + 1 + i] = "SP"
     /\ \A i \in 1..W : L[K + 1 + G + i] = val[i]
     /\ \A i \in 1..E : L[K + 1 + G + W + i] = eol[i]

LEMMA LineBytes ==
  ASSUME NEW r, WellFormed(r), NEW j \in 1..Len(r.params)
  PROVE  IsLine(LineOf(r, j), r.params[j][1], r.gap, r.params[j][2], r.eol)
  <1> DEFINE key == r.params[j][1]
             val == r.params[j][2]
             gap == r.gap
             eol == r.eol
  <1>1. key \in Strings /\ val \in Strings /\ gap \in Strings /\ eol \in Strings
    BY Fields
  <1>2. key # <<>>
    BY DEF WellFormed
  <1>3. \A i \in 1..Len(gap) : gap[i] = "SP"
    <2>1. gap \in Seq({"SP"}) BY DEF WellFormed
    <2> HIDE DEF gap
    <2>2. ASSUME NEW i \in 1..Len(gap) PROVE gap[i] \in {"SP"}
      BY <2>1, ElementOfSeq
    <2> QED BY <2>2
  <1> DEFINE co == <<"COLON">>
             t1 == key \o co
             t2 == t1 \o gap
             t3 == t2 \o val
  <1>c. co \in Strings /\ Len(co) = 1 /\ co[1] = "COLON"
    BY OneByte, BytesAssumption
  <1>4. /\ t1 = key \o co /\ t2 = t1 \o gap /\ t3 = t2 \o val
        /\ LineOf(r, j) = t3 \o eol
    BY DEF LineOf
  <1> HIDE DEF key, val, gap, eol, co, t1, t2, t3
  <1>a. IsJoin(t1, key, co) BY <1>1, <1>c, <1>4, Joined
  <1>b. IsJoin(t2, t1, gap)
    <2>1. t1 \in Strings BY <1>a DEF IsJoin
    <2> QED BY <1>1, <1>4, <2>1, Joined
  <1>d. IsJoin(t3, t2, val)
    <2>1. t2 \in Strings BY <1>b DEF IsJoin
    <2> QED BY <1>1, <1>4, <2>1, Joined
  <1>e. IsJoin(LineOf(r, j), t3, eol)
    <2>1. t3 \in Strings BY <1>d DEF IsJoin
    <2> QED BY <1>1, <1>4, <2>1, Joined
  <1>5. Len(key) \in Nat \ {0}
    BY <1>1, <1>2, EmptySeq DEF Strings
  <1>6. /\ LineOf(r, j) \in Strings
        /\ Len(LineOf(r, j)) = Len(key) + 1 + Len(gap) + Len(val) + Len(eol)
        /\ Len(gap) \in Nat /\ Len(val) \in Nat
        /\ \A i \in 1..Len(key) : LineOf(r, j)[i] = key[i]
        /\ LineOf(r, j)[Len(key) + 1] = "COLON"
        /\ \A i \in 1..Len(gap) : LineOf(r, j)[Len(key) + 1 + i] = gap[i]
        /\ \A i \in 1..Len(val) : LineOf(r, j)[Len(key) + 1 + Len(gap) + i] = val[i]
        /\ \A i \in 1..Len(eol) :
             LineOf(r, j)[Len(key) + 1 + Len(gap) + Len(val) + i] = eol[i]
    BY <1>c, <1>a, <1>b, <1>d, <1>e, LineParts
  <1>7. \A i \in 1..Len(gap) : LineOf(r, j)[Len(key) + 1 + i] = "SP"
    BY <1>3, <1>6
  <1>8. IsLine(LineOf(r, j), key, gap, val, eol)
    BY <1>5, <1>6, <1>7 DEF IsLine
  <1> QED BY <1>8 DEF key, val, gap, eol

\* The end of the j-th line, and of the header.
EndOf(r, j) == Len(HeadOf(r)[j])
HeaderEnd(r) == EndOf(r, Len(r.params)) + Len(r.eol)

LEMMA HeadTypes ==
  ASSUME NEW r, WellFormed(r)
  PROVE  \A j \in 0..Len(r.params) : HeadOf(r)[j] \in Strings /\ EndOf(r, j) \in Nat
  <1> DEFINE S == {j \in Nat : j <= Len(r.params) => HeadOf(r)[j] \in Strings}
  <1>1. 0 \in S
    BY HeadUnfolds, FirstLineBytes
  <1>2. ASSUME NEW j \in Nat, j \in S PROVE j + 1 \in S
    <2> SUFFICES ASSUME j + 1 <= Len(r.params) PROVE HeadOf(r)[j + 1] \in Strings
      OBVIOUS
    <2>1. PICK k \in 1..Len(r.params) : k = j + 1
      BY Fields
    <2>2. k - 1 = j
      BY <2>1, Fields
    <2>3. HeadOf(r)[k] = HeadOf(r)[k - 1] \o LineOf(r, k)
      BY HeadUnfolds
    <2>4. LineOf(r, k) \in Strings
      BY LineBytes DEF IsLine
    <2>5. HeadOf(r)[k - 1] \in Strings
      <3>1. j <= Len(r.params) BY Fields
      <3> QED BY <1>2, <2>2, <3>1
    <2>6. IsJoin(HeadOf(r)[k], HeadOf(r)[k - 1], LineOf(r, k))
      BY <2>3, <2>4, <2>5, Joined
    <2>7. HeadOf(r)[k] \in Strings
      BY <2>6 DEF IsJoin
    <2> QED BY <2>1, <2>7
  <1>3. \A j \in Nat : j \in S
    <2> HIDE DEF S
    <2> QED BY <1>1, <1>2, Induct
  <1>4. \A j \in 0..Len(r.params) : HeadOf(r)[j] \in Strings
    BY <1>3, Fields
  <1> QED BY <1>4, LenProperties DEF EndOf, Strings

\* The heads of a request are prefixes of it.
LEMMA HeadsAreIn ==
  ASSUME NEW r, WellFormed(r)
  PROVE  LET m == Len(r.params)
         IN \A j \in 0..m :
              /\ EndOf(r, j) <= EndOf(r, m)
              /\ \A i \in 1..EndOf(r, j) : HeadOf(r)[m][i] = HeadOf(r)[j][i]
  <1> DEFINE m == Len(r.params)
             Within(j) == /\ EndOf(r, j) <= EndOf(r, m)
                          /\ \A i \in 1..EndOf(r, j) : HeadOf(r)[m][i] = HeadOf(r)[j][i]
             S == {d \in Nat : d <= m => Within(m - d)}
  <1>0. m \in Nat /\ \A j \in 0..m : EndOf(r, j) \in Nat
    BY Fields, HeadTypes
  <1>1. 0 \in S
    BY <1>0
  <1>2. ASSUME NEW d \in Nat, d \in S PROVE d + 1 \in S
    <2> SUFFICES ASSUME d + 1 <= m PROVE Within(m - (d + 1))
      OBVIOUS
    <2> DEFINE j == m - d
    <2>1. j \in 1..m /\ j - 1 \in 0..m /\ j \in 0..m /\ m - (d + 1) = j - 1
      BY <1>0
    <2>2. Within(j)
      BY <1>0, <1>2
    <2> HIDE DEF j
    <2>3. HeadOf(r)[j] = HeadOf(r)[j - 1] \o LineOf(r, j)
      BY <2>1, HeadUnfolds
    <2>4. /\ Len(LineOf(r, j)) \in Nat
          /\ EndOf(r, j) = EndOf(r, j - 1) + Len(LineOf(r, j))
          /\ \A i \in 1..EndOf(r, j - 1) : HeadOf(r)[j][i] = HeadOf(r)[j - 1][i]
      <3>1. HeadOf(r)[j - 1] \in Strings /\ LineOf(r, j) \in Strings
        BY <2>1, HeadTypes, LineBytes DEF IsLine
      <3>2. IsJoin(HeadOf(r)[j], HeadOf(r)[j - 1], LineOf(r, j))
        BY <2>3, <3>1, Joined
      <3> QED BY <3>2 DEF IsJoin, EndOf
    <2>5. EndOf(r, j - 1) \in Nat /\ EndOf(r, j) \in Nat /\ EndOf(r, m) \in Nat
      BY <1>0, <2>1
    <2>6. EndOf(r, j - 1) <= EndOf(r, j) /\ EndOf(r, j) <= EndOf(r, m)
      BY <2>2, <2>4, <2>5
    <2>7. ASSUME NEW i \in 1..EndOf(r, j - 1)
          PROVE  HeadOf(r)[m][i] = HeadOf(r)[j - 1][i]
      <3>1. i \in 1..EndOf(r, j) BY <2>5, <2>6
      <3> QED BY <2>2, <2>4, <3>1
    <2>8. Within(j - 1)
      BY <2>5, <2>6, <2>7
    <2> QED BY <2>1, <2>8
  <1>3. \A d \in Nat : d \in S
    <2> HIDE DEF S
    <2> QED BY <1>1, <1>2, Induct
  <1>4. ASSUME NEW j \in 0..m PROVE Within(j)
    <2>1. m - j \in Nat /\ m - j <= m /\ m - (m - j) = j
      BY <1>0
    <2> QED BY <1>3, <2>1
  <1> QED BY <1>4

\* Where the lines, the end of the header and the payload are in a request.
LEMMA Layout ==
  ASSUME NEW r, WellFormed(r)
  PROVE  LET m == Len(r.params)
             R == Render(r)
         IN /\ R \in Strings
            /\ Len(R) = HeaderEnd(r) + Len(r.payload)
            /\ HeaderLen(r) = HeaderEnd(r)
            /\ EndOf(r, 0) = Len(FirstLine(r))
            /\ \A i \in 1..EndOf(r, 0) : R[i] = FirstLine(r)[i]
            /\ \A j \in 1..m :
                 /\ EndOf(r, j) = EndOf(r, j - 1) + Len(LineOf(r, j))
                 /\ \A i \in 1..Len(LineOf(r, j)) : R[EndOf(r, j - 1) + i] = LineOf(r, j)[i]
            /\ \A i \in 1..Len(r.eol) : R[EndOf(r, m) + i] = r.eol[i]
            /\ \A i \in 1..Len(r.payload) : R[HeaderEnd(r) + i] = r.payload[i]
  <1> DEFINE m == Len(r.params)
             R == Render(r)
             H == HeadOf(r)[m]
             t == H \o r.eol
  <1>0. /\ m \in Nat /\ \A j \in 0..m : HeadOf(r)[j] \in Strings /\ EndOf(r, j) \in Nat
        /\ r.eol \in Strings /\ r.payload \in Strings
    BY Fields, HeadTypes
  <1>1. H \in Strings /\ EndOf(r, m) = Len(H) /\ Len(H) \in Nat
    BY <1>0 DEF EndOf
  <1> DEFINE eol == r.eol
             pay == r.payload
             A == EndOf(r, m)
             Z == HeaderEnd(r)
  <1>2. R = t \o pay
    BY DEF Render
  <1>3. /\ t \in Strings /\ Len(t) = A + Len(eol) /\ A \in Nat
        /\ \A i \in 1..A : t[i] = H[i]
        /\ \A i \in 1..Len(eol) : t[A + i] = eol[i]
        /\ Len(eol) \in Nat
    <2>1. IsJoin(t, H, eol)
      BY <1>0, <1>1, Joined
    <2>2. A = Len(H) BY <1>1
    <2> HIDE DEF A, H, t, eol
    <2> QED BY <1>1, <2>1, <2>2 DEF IsJoin
  <1>z. Z = A + Len(eol) BY DEF HeaderEnd
  <1> HIDE DEF t, eol, pay, A, Z, H
  <1>4. /\ R \in Strings /\ Len(R) = Z + Len(pay) /\ Len(pay) \in Nat
        /\ Z \in Nat
        /\ \A i \in 1..Z : R[i] = t[i]
        /\ \A i \in 1..Len(pay) : R[Z + i] = pay[i]
    <2>0. pay \in Strings BY <1>0 DEF pay
    <2>1. IsJoin(R, t, pay)
      BY <2>0, <1>2, <1>3, Joined
    <2> HIDE DEF R
    <2>2. Len(t) = Z BY <1>3, <1>z
    <2> QED BY <1>3, <2>1, <2>2 DEF IsJoin
  <1>5. HeaderLen(r) = Z
    <2>1. HeaderLen(r) = Len(R) - Len(pay) BY DEF HeaderLen, pay
    <2> HIDE DEF R
    <2> QED BY <2>1, <1>4
  <1> HIDE DEF R
  <1>6. ASSUME NEW i \in 1..A PROVE R[i] = H[i]
    <2>1. i \in 1..Z BY <1>3, <1>z
    <2> QED BY <2>1, <1>3, <1>4
  <1>7. ASSUME NEW i \in 1..Len(eol) PROVE R[A + i] = eol[i]
    <2>1. A + i \in 1..Z BY <1>3, <1>z
    <2> QED BY <2>1, <1>3, <1>4
  <1>8. ASSUME NEW j \in 0..m, NEW i \in 1..EndOf(r, j) PROVE R[i] = HeadOf(r)[j][i]
    <2>1. /\ EndOf(r, j) <= EndOf(r, m)
          /\ HeadOf(r)[m][i] = HeadOf(r)[j][i]
          /\ EndOf(r, j) \in Nat /\ EndOf(r, m) \in Nat
      BY <1>0, HeadsAreIn
    <2>2. i \in 1..A /\ H[i] = HeadOf(r)[j][i]
      BY <2>1 DEF A, H
    <2> QED BY <1>6, <2>2
  <1>9. EndOf(r, 0) = Len(FirstLine(r)) /\ \A i \in 1..EndOf(r, 0) : R[i] = FirstLine(r)[i]
    BY <1>0, <1>8, HeadUnfolds DEF EndOf
  <1>10. ASSUME NEW j \in 1..m
         PROVE  /\ EndOf(r, j) = EndOf(r, j - 1) + Len(LineOf(r, j))
                /\ \A i \in 1..Len(LineOf(r, j)) : R[EndOf(r, j - 1) + i] = LineOf(r, j)[i]
    <2>1. j \in 0..m /\ j - 1 \in 0..m
      BY <1>0
    <2>2. HeadOf(r)[j] = HeadOf(r)[j - 1] \o LineOf(r, j)
      BY HeadUnfolds
    <2>3. /\ Len(LineOf(r, j)) \in Nat
          /\ EndOf(r, j) = EndOf(r, j - 1) + Len(LineOf(r, j))
          /\ \A i \in 1..Len(LineOf(r, j)) :
               HeadOf(r)[j][EndOf(r, j - 1) + i] = LineOf(r, j)[i]
      <3>1. HeadOf(r)[j - 1] \in Strings /\ LineOf(r, j) \in Strings
        BY <1>0, <2>1, LineBytes DEF IsLine
      <3>2. IsJoin(HeadOf(r)[j], HeadOf(r)[j - 1], LineOf(r, j))
        BY <2>2, <3>1, Joined
      <3> QED BY <3>2 DEF IsJoin, EndOf
    <2>4. ASSUME NEW i \in 1..Len(LineOf(r, j))
          PROVE  R[EndOf(r, j - 1) + i] = LineOf(r, j)[i]
      <3>1. EndOf(r, j - 1) + i \in 1..EndOf(r, j)
        BY <1>0, <2>1, <2>3
      <3> QED BY <1>8, <2>1, <2>3, <3>1
    <2> QED BY <2>3, <2>4
  <1> QED BY <1>4, <1>5, <1>7, <1>9, <1>10 DEF R, eol, pay, A, Z

-----------------------------------------------------------------------------
(* Which byte of a request is where. *)

UrlStart(r) == Len(r.cmd) + 2
VerStart(r) == Len(r.cmd) + Len(r.url) + 3
KeyEnd(r, j) == EndOf(r, j - 1) + Len(r.params[j][1])
ValStart(r, j) == KeyEnd(r, j) + Len(r.gap) + 2

LEMMA FirstLineMap ==
  ASSUME NEW r, WellFormed(r)
  PROVE  LET R == Render(r)
         IN /\ UrlStart(r) \in Nat /\ VerStart(r) \in Nat /\ EndOf(r, 0) \in Nat
            /\ 3 <= UrlStart(r) /\ UrlStart(r) < VerStart(r) /\ VerStart(r) <= EndOf(r, 0)
            /\ \A i \in 1..(UrlStart(r) - 2) : R[i] \notin White
            /\ R[UrlStart(r) - 1] = "SP"
            /\ \A i \in UrlStart(r)..(VerStart(r) - 2) : R[i] \notin White
            /\ R[VerStart(r) - 1] = "SP"
            /\ \A i \in VerStart(r)..(EndOf(r, 0) - 1) : R[i] # "LF"
            /\ R[EndOf(r, 0)] = "LF"
  <1> DEFINE R == Render(r)
             F == FirstLine(r)
             C == Len(r.cmd)
             U == Len(r.url)
             V == Len(r.ver)
             E == Len(r.eol)
             Z == EndOf(r, 0)
             a == UrlStart(r)
             b == VerStart(r)
             cmd == r.cmd
             url == r.url
             ver == r.ver
             eol == r.eol
  <1>1. /\ Len(F) = C + U + V + E + 2
        /\ C \in Nat \ {0} /\ U \in Nat /\ V \in Nat
        /\ \A i \in 1..C : F[i] = cmd[i]
        /\ F[C + 1] = "SP"
        /\ \A i \in 1..U : F[C + 1 + i] = url[i]
        /\ F[C + U + 2] = "SP"
        /\ \A i \in 1..V : F[C + U + 2 + i] = ver[i]
        /\ \A i \in 1..E : F[C + U + V + 2 + i] = eol[i]
    BY FirstLineBytes
  <1>2. Z = Len(F) /\ \A i \in 1..Z : R[i] = F[i]
    BY Layout
  <1>3. /\ E \in {1, 2} /\ eol[E] = "LF"
        /\ \A i \in 1..(E - 1) : eol[i] = "CR"
    BY LineEnd
  <1>4. /\ \A i \in 1..C : cmd[i] \notin White
        /\ \A i \in 1..U : url[i] \notin White
        /\ \A i \in 1..V : ver[i] \notin White
    BY DEF WellFormed, Solid
  <1>5. a = C + 2 /\ b = C + U + 3
    BY DEF UrlStart, VerStart
  <1> HIDE DEF R, F, C, U, V, E, Z, a, b, cmd, url, ver, eol
  <1>6. Z = C + U + V + E + 2 /\ Z \in Nat /\ a \in Nat /\ b \in Nat
    BY <1>1, <1>2, <1>3, <1>5
  <1>7. 3 <= a /\ a < b /\ b <= Z
    BY <1>1, <1>3, <1>5, <1>6
  <1>8. ASSUME NEW i \in 1..(a - 2) PROVE R[i] \notin White
    <2>1. i \in 1..C /\ i \in 1..Z BY <1>1, <1>5, <1>6, <1>7
    <2> QED BY <2>1, <1>1, <1>2, <1>4
  <1>9. R[a - 1] = "SP"
    <2>1. a - 1 = C + 1 /\ a - 1 \in 1..Z BY <1>1, <1>5, <1>6, <1>7
    <2> QED BY <2>1, <1>1, <1>2
  <1>10. ASSUME NEW i \in a..(b - 2) PROVE R[i] \notin White
    <2>1. PICK q \in 1..U : i = C + 1 + q
      <3>1. i - C - 1 \in 1..U /\ i = C + 1 + (i - C - 1) BY <1>1, <1>5, <1>6, <1>7
      <3> QED BY <3>1
    <2>2. i \in 1..Z BY <1>6, <1>7
    <2> QED BY <2>1, <2>2, <1>1, <1>2, <1>4, ZenonT(60)
  <1>11. R[b - 1] = "SP"
    <2>1. b - 1 = C + U + 2 /\ b - 1 \in 1..Z BY <1>1, <1>5, <1>6, <1>7
    <2> QED BY <2>1, <1>1, <1>2
  <1>12. ASSUME NEW i \in b..(Z - 1) PROVE R[i] # "LF"
    <2>0. i \in 1..Z BY <1>6, <1>7
    <2>1. CASE i <= C + U + V + 2
      <3>1. i - C - U - 2 \in 1..V /\ i = C + U + 2 + (i - C - U - 2)
        BY <2>1, <1>1, <1>5, <1>6, <1>7
      <3>2. PICK q \in 1..V : i = C + U + 2 + q BY <3>1
      <3>3. R[i] \notin White BY <2>0, <3>2, <1>1, <1>2, <1>4, ZenonT(60)
      <3> QED BY <3>3 DEF White
    <2>2. CASE ~(i <= C + U + V + 2)
      <3>1. /\ i - C - U - V - 2 \in 1..(E - 1) /\ i = C + U + V + 2 + (i - C - U - V - 2)
        BY <2>2, <1>1, <1>3, <1>5, <1>6, <1>7
      <3>2. PICK q \in 1..(E - 1) : i = C + U + V + 2 + q BY <3>1
      <3>3. q \in 1..E BY <1>3
      <3>4. R[i] = "CR" BY <2>0, <3>2, <3>3, <1>1, <1>2, <1>3
      <3> QED BY <3>4
    <2> QED BY <2>1, <2>2
  <1>13. R[Z] = "LF"
    <2>1. E \in 1..E /\ Z = C + U + V + 2 + E /\ Z \in 1..Z BY <1>1, <1>3, <1>6
    <2> QED BY <2>1, <1>1, <1>2, <1>3
  <1> QED BY <1>6, <1>7, <1>8, <1>9, <1>10, <1>11, <1>12, <1>13 DEF R, Z, a, b

LEMMA LineMap ==
  ASSUME NEW r, WellFormed(r), NEW j \in 1..Len(r.params)
  PROVE  LET R == Render(r)
             s == EndOf(r, j - 1)
             k == KeyEnd(r, j)
             v == ValStart(r, j)
             z == EndOf(r, j)
         IN /\ s \in Nat /\ k \in Nat /\ v \in Nat /\ z \in Nat
            /\ s < k /\ k + 2 <= v /\ v < z
            /\ \A i \in (s + 1)..k : R[i] \notin White /\ R[i] # "COLON"
            /\ R[k + 1] = "COLON"
            /\ \A i \in (k + 2)..(v - 1) : R[i] = "SP"
            /\ R[v] # "SP"
            /\ \A i \in v..(z - 1) : R[i] # "LF"
            /\ R[z] = "LF"
  <1> DEFINE R == Render(r)
             L == LineOf(r, j)
             key == r.params[j][1]
             val == r.params[j][2]
             eol == r.eol
             K == Len(key)
             G == Len(r.gap)
             W == Len(val)
             E == Len(eol)
             s == EndOf(r, j - 1)
             k == KeyEnd(r, j)
             v == ValStart(r, j)
             z == EndOf(r, j)
  <1>1. /\ Len(L) = K + 1 + G + W + E
        /\ K \in Nat \ {0} /\ G \in Nat /\ W \in Nat
        /\ \A i \in 1..K : L[i] = key[i]
        /\ L[K + 1] = "COLON"
        /\ \A i \in 1..G : L[K + 1 + i] = "SP"
        /\ \A i \in 1..W : L[K + 1 + G + i] = val[i]
        /\ \A i \in 1..E : L[K + 1 + G + W + i] = eol[i]
    <2>1. IsLine(L, key, r.gap, val, eol) BY LineBytes
    <2> HIDE DEF L, key, val, eol
    <2> QED BY <2>1 DEF IsLine
  <1>2. z = s + Len(L) /\ \A i \in 1..Len(L) : R[s + i] = L[i]
    BY Layout
  <1>3. /\ E \in {1, 2} /\ eol[E] = "LF"
        /\ \A i \in 1..(E - 1) : eol[i] = "CR"
    BY LineEnd
  <1>4. /\ \A i \in 1..K : key[i] \notin White /\ key[i] # "COLON"
        /\ \A i \in 1..W : val[i] # "LF"
        /\ W = 0 => E = 2
        /\ W # 0 => val[1] \notin White
    <2>1. /\ Solid(key) /\ \A i \in 1..K : key[i] # "COLON"
          /\ \A i \in 1..W : val[i] # "LF"
          /\ val = <<>> => E = 2
          /\ val # <<>> => val[1] \notin White
      BY DEF WellFormed
    <2>2. val \in Strings BY Fields
    <2>3. val = <<>> <=> W = 0
      BY <2>2, EmptySeq DEF Strings
    <2> QED BY <2>1, <2>3 DEF Solid
  <1>5. k = s + K /\ v = s + K + G + 2
    BY DEF KeyEnd, ValStart
  <1>6. s \in Nat
    <2>1. j - 1 \in 0..Len(r.params) BY Fields
    <2> QED BY <2>1, HeadTypes
  <1> HIDE DEF R, L, key, val, eol, K, G, W, E, s, k, v, z
  <1>7. /\ z = s + K + 1 + G + W + E /\ z \in Nat /\ k \in Nat /\ v \in Nat
        /\ s < k /\ k + 2 <= v
    BY <1>1, <1>2, <1>3, <1>5, <1>6
  <1>8. v < z
    BY <1>1, <1>3, <1>4, <1>5, <1>6, <1>7
  <1>9. ASSUME NEW i \in (s + 1)..k PROVE R[i] \notin White /\ R[i] # "COLON"
    <2>1. PICK q \in 1..K : i = s + q
      <3>1. i - s \in 1..K /\ i = s + (i - s) BY <1>1, <1>5, <1>6, <1>7
      <3> QED BY <3>1
    <2>2. q \in 1..Len(L) BY <1>1, <1>3
    <2> QED BY <2>1, <2>2, <1>1, <1>2, <1>4
  <1>10. R[k + 1] = "COLON"
    <2>1. K + 1 \in 1..Len(L) /\ k + 1 = s + (K + 1) BY <1>1, <1>3, <1>5, <1>6
    <2> QED BY <2>1, <1>1, <1>2
  <1>11. ASSUME NEW i \in (k + 2)..(v - 1) PROVE R[i] = "SP"
    <2>1. PICK q \in 1..G : i = s + (K + 1 + q)
      <3>1. i - s - K - 1 \in 1..G /\ i = s + (K + 1 + (i - s - K - 1))
        BY <1>1, <1>5, <1>6, <1>7
      <3> QED BY <3>1
    <2>2. K + 1 + q \in 1..Len(L) BY <1>1, <1>3
    <2> QED BY <2>1, <2>2, <1>1, <1>2
  <1>12. ASSUME NEW i \in v..(z - 1) PROVE R[i] # "LF" /\ (i = v => R[i] # "SP")
    <2>1. CASE i <= s + K + 1 + G + W
      <3>1. PICK q \in 1..W : i = s + (K + 1 + G + q)
        <4>1. i - s - K - 1 - G \in 1..W /\ i = s + (K + 1 + G + (i - s - K - 1 - G))
          BY <2>1, <1>1, <1>5, <1>6, <1>7
        <4> QED BY <4>1
      <3>2. K + 1 + G + q \in 1..Len(L) BY <1>1, <1>3
      <3>3. R[i] = val[q] BY <3>1, <3>2, <1>1, <1>2
      <3>4. i = v => q = 1 /\ W # 0 BY <3>1, <1>1, <1>5, <1>6
      <3> QED BY <3>3, <3>4, <1>4 DEF White
    <2>2. CASE ~(i <= s + K + 1 + G + W)
      <3>1. PICK q \in 1..(E - 1) : i = s + (K + 1 + G + W + q)
        <4>1. /\ i - s - K - 1 - G - W \in 1..(E - 1)
              /\ i = s + (K + 1 + G + W + (i - s - K - 1 - G - W))
          BY <2>2, <1>1, <1>3, <1>5, <1>6, <1>7
        <4> QED BY <4>1
      <3>2. K + 1 + G + W + q \in 1..Len(L) /\ q \in 1..E BY <1>1, <1>3
      <3>3. R[i] = "CR" BY <3>1, <3>2, <1>1, <1>2, <1>3
      <3> QED BY <3>3
    <2> QED BY <2>1, <2>2
  <1>13. R[z] = "LF"
    <2>1. E \in 1..E /\ K + 1 + G + W + E \in 1..Len(L) /\ z = s + (K + 1 + G + W + E)
      BY <1>1, <1>3, <1>6, <1>7
    <2> QED BY <2>1, <1>1, <1>2, <1>3
  <1>14. R[v] # "SP"
    <2>1. v \in v..(z - 1) BY <1>7, <1>8
    <2> QED BY <2>1, <1>12
  <1> QED BY <1>6, <1>7, <1>8, <1>9, <1>10, <1>11, <1>12, <1>13, <1>14 DEF R, s, k, v, z

LEMMA EndMap ==
  ASSUME NEW r, WellFormed(r)
  PROVE  LET R == Render(r)
             m == Len(r.params)
         IN /\ m \in Nat /\ R \in Strings /\ Len(R) \in Nat /\ HeaderEnd(r) \in Nat
            /\ \A j \in 0..m : EndOf(r, j) \in Nat /\ EndOf(r, j) <= EndOf(r, m)
            /\ EndOf(r, m) < HeaderEnd(r) /\ HeaderEnd(r) <= Len(R)
            /\ \A i \in (EndOf(r, m) + 1)..(HeaderEnd(r) - 1) : R[i] = "CR"
            /\ R[HeaderEnd(r)] = "LF"
            /\ HeaderLen(r) = HeaderEnd(r)
            /\ Len(r.payload) \in Nat /\ Len(R) = HeaderEnd(r) + Len(r.payload)
            /\ \A i \in 1..Len(r.payload) : R[HeaderEnd(r) + i] = r.payload[i]
  <1> DEFINE R == Render(r)
             m == Len(r.params)
             z == EndOf(r, m)
             h == HeaderEnd(r)
             pay == r.payload
             eol == r.eol
             E == Len(r.eol)
  <1>1. m \in Nat /\ \A j \in 0..m : EndOf(r, j) \in Nat /\ EndOf(r, j) <= z
    BY Fields, HeadTypes, HeadsAreIn
  <1>2. /\ E \in {1, 2} /\ eol[E] = "LF"
        /\ \A i \in 1..(E - 1) : eol[i] = "CR"
    BY LineEnd
  <1>3. /\ R \in Strings /\ Len(R) = h + Len(pay) /\ HeaderLen(r) = h
        /\ \A i \in 1..E : R[z + i] = eol[i]
        /\ \A i \in 1..Len(pay) : R[h + i] = pay[i]
    BY Layout
  <1>4. h = z + E BY DEF HeaderEnd
  <1>5. Len(pay) \in Nat
    BY Fields, LenProperties DEF Strings
  <1>6. z \in Nat BY <1>1
  <1> HIDE DEF R, z, h, pay, eol, E
  <1>7. ASSUME NEW i \in (z + 1)..(h - 1) PROVE R[i] = "CR"
    <2>1. PICK q \in 1..(E - 1) : i = z + q
      <3>1. i - z \in 1..(E - 1) /\ i = z + (i - z) BY <1>2, <1>4, <1>6
      <3> QED BY <3>1
    <2>2. q \in 1..E BY <1>2
    <2> QED BY <2>1, <2>2, <1>2, <1>3
  <1>8. R[h] = "LF"
    <2>1. E \in 1..E BY <1>2
    <2> QED BY <2>1, <1>2, <1>3, <1>4
  <1>9. z < h /\ h <= Len(R) /\ h \in Nat /\ Len(R) \in Nat
    BY <1>2, <1>3, <1>4, <1>5, <1>6
  <1> QED BY <1>1, <1>3, <1>5, <1>7, <1>8, <1>9 DEF R, z, h, pay

-----------------------------------------------------------------------------
(* The texts the scanner cuts out of what was read. *)

\* What the client has sent is the request or a first part of it.
SentOf(r) ==
  /\ stream \in Strings /\ Len(stream) <= Len(Render(r))
  /\ \A i \in 1..Len(stream) : stream[i] = Render(r)[i]

\* A text that is followed by blanks only is what trimming leaves.
LEMMA FieldText ==
  ASSUME stream \in Strings, NEW a \in Nat, NEW b \in Nat, NEW s \in Strings,
         1 <= a, a + Len(s) <= b, b - 1 <= Len(stream),
         \A q \in 1..Len(s) : stream[a + q - 1] = s[q],
         \A i \in (a + Len(s))..(b - 1) : stream[i] \in White,
         s = <<>> \/ (s[1] \notin White /\ s[Len(s)] \notin White)
  PROVE  Text(a, b) = s
  <1> DEFINE t == SubSeq(stream, a, b - 1)
             solid == {i \in 1..Len(t) : t[i] \notin White}
             n == Len(s)
  <1>1. n \in Nat /\ Len(stream) \in Nat
    BY LenProperties DEF Strings
  <1>2. /\ t \in Strings /\ Len(t) = b - a
        /\ \A i \in 1..(b - a) : t[i] = stream[a + i - 1]
    <2>1. \A i \in a..(b - 1) : stream[i] \in Bytes
      <3>1. \A i \in a..(b - 1) : i \in 1..Len(stream) BY <1>1
      <3> QED BY <3>1, ElementOfSeq DEF Strings
    <2>2. /\ t \in Seq(Bytes)
          /\ Len(t) = IF a <= b - 1 THEN b - 1 - a + 1 ELSE 0
          /\ \A i \in 1..(b - 1 - a + 1) : t[i] = stream[a + i - 1]
      BY <2>1, SubSeqProperties
    <2>3. b - 1 - a + 1 = b - a /\ (~(a <= b - 1) => b - a = 0)
      BY <1>1
    <2> HIDE DEF t
    <2> QED BY <2>2, <2>3 DEF Strings
  <1>3. Text(a, b) = IF solid = {} THEN <<>> ELSE SubSeq(t, Min(solid), Max(solid))
    BY DEF Text, Trim
  <1> HIDE DEF t
  <1>4. \A i \in 1..n : t[i] = s[i]
    <2> SUFFICES ASSUME NEW i \in 1..n PROVE t[i] = s[i]
      OBVIOUS
    <2>1. i \in 1..(b - a) BY <1>1
    <2> QED BY <2>1, <1>2
  <1>5. \A i \in (n + 1)..(b - a) : t[i] \in White
    <2> SUFFICES ASSUME NEW i \in (n + 1)..(b - a) PROVE t[i] \in White
      OBVIOUS
    <2>1. i \in 1..(b - a) /\ a + i - 1 \in (a + n)..(b - 1) BY <1>1
    <2> QED BY <2>1, <1>2
  <1>6. CASE s = <<>>
    <2>1. n = 0 BY <1>6
    <2>2. solid = {} BY <2>1, <1>2, <1>5
    <2> QED BY <2>2, <1>3, <1>6
  <1>7. CASE s # <<>>
    <2>1. n \in Nat \ {0} BY <1>7, EmptySeq DEF Strings
    <2>2. 1 \in solid /\ n \in solid
      <3>1. 1 \in 1..n /\ n \in 1..n /\ n <= b - a BY <2>1
      <3>2. t[1] \notin White /\ t[n] \notin White BY <3>1, <1>4, <1>7
      <3>3. 1 \in 1..Len(t) /\ n \in 1..Len(t) BY <3>1, <1>2
      <3> QED BY <3>2, <3>3
    <2>3. solid \subseteq 1..n
      <3> SUFFICES ASSUME NEW i \in solid PROVE i \in 1..n
        OBVIOUS
      <3>1. i \in 1..(b - a) /\ t[i] \notin White BY <1>2
      <3> QED BY <3>1, <1>5, <1>1
    <2> HIDE DEF solid
    <2>4. Min(solid) = 1
      <3>1. \A y \in solid : 1 =< y BY <2>3
      <3>2. \A x \in solid : (\A y \in solid : x =< y) => x = 1 BY <2>2, <2>3
      <3> QED BY <2>2, <3>1, <3>2 DEF Min
    <2>5. Max(solid) = n
      <3>1. \A y \in solid : n >= y BY <2>1, <2>3
      <3>2. \A x \in solid : (\A y \in solid : x >= y) => x = n BY <2>1, <2>2, <2>3
      <3> QED BY <2>2, <3>1, <3>2 DEF Max
    <2>6. SubSeq(t, 1, n) = s
      <3>1. \A i \in 1..n : t[i] \in Bytes
        BY <1>4, ElementOfSeq DEF Strings
      <3> DEFINE u == SubSeq(t, 1, n)
      <3>2. /\ u \in Seq(Bytes) /\ Len(u) = n
            /\ \A i \in 1..n : u[i] = t[i]
        <4>1. /\ u \in Seq(Bytes) /\ Len(u) = IF 1 <= n THEN n - 1 + 1 ELSE 0
              /\ \A i \in 1..(n - 1 + 1) : u[i] = t[1 + i - 1]
          BY <2>1, <3>1, SubSeqProperties
        <4>2. n - 1 + 1 = n BY <2>1
        <4>3. \A i \in 1..n : 1 + i - 1 = i OBVIOUS
        <4> HIDE DEF u
        <4> QED BY <2>1, <4>1, <4>2, <4>3
      <3> HIDE DEF u, n
      <3>3. \A i \in 1..Len(u) : u[i] = s[i] BY <3>2, <1>4
      <3>4. Len(u) = Len(s) BY <3>2 DEF n
      <3>5. u = s BY <3>2, <3>3, <3>4, SeqEqual DEF Strings
      <3> QED BY <3>5 DEF u
    <2>7. solid # {} BY <2>2
    <2> QED BY <2>4, <2>5, <2>6, <2>7, <1>3
  <1> QED BY <1>6, <1>7

\* The text s lies in the request at a, and only blanks lie between it and b.
LiesAt(r, s, a, b) ==
  /\ s \in Strings /\ a \in Nat /\ b \in Nat /\ 1 <= a /\ a + Len(s) <= b
  /\ \A q \in 1..Len(s) : Render(r)[a + q - 1] = s[q]
  /\ \A i \in (a + Len(s))..(b - 1) : Render(r)[i] \in White
  /\ s = <<>> \/ (s[1] \notin White /\ s[Len(s)] \notin White)

\* The text of the request that is cut out of what the client has sent.
LEMMA FieldOf ==
  ASSUME NEW r, SentOf(r), NEW s, NEW a, NEW b, LiesAt(r, s, a, b), b <= Len(stream)
  PROVE  Text(a, b) = s
  <1> DEFINE R == Render(r)
  <1> DEFINE n == Len(s)
  <1>0. /\ s \in Strings /\ a \in Nat /\ b \in Nat /\ 1 <= a /\ a + n <= b
        /\ \A q \in 1..n : R[a + q - 1] = s[q]
        /\ \A i \in (a + n)..(b - 1) : R[i] \in White
        /\ s = <<>> \/ (s[1] \notin White /\ s[n] \notin White)
    BY DEF LiesAt
  <1>1. /\ stream \in Strings
        /\ \A i \in 1..Len(stream) : stream[i] = R[i]
    BY DEF SentOf
  <1> HIDE DEF R
  <1>2. n \in Nat /\ Len(stream) \in Nat
    BY <1>0, <1>1, LenProperties DEF Strings
  <1>3. \A q \in 1..n : stream[a + q - 1] = s[q]
    <2> SUFFICES ASSUME NEW q \in 1..n PROVE stream[a + q - 1] = s[q]
      OBVIOUS
    <2>1. a + q - 1 \in 1..Len(stream) BY <1>0, <1>2
    <2>2. R[a + q - 1] = s[q] BY <1>0
    <2> QED BY <2>1, <2>2, <1>1
  <1>4. \A i \in (a + n)..(b - 1) : stream[i] \in White
    <2> SUFFICES ASSUME NEW i \in (a + n)..(b - 1) PROVE stream[i] \in White
      OBVIOUS
    <2>1. i \in 1..Len(stream) BY <1>0, <1>2
    <2>2. R[i] \in White BY <1>0
    <2> QED BY <2>1, <2>2, <1>1
  <1>5. b - 1 <= Len(stream) BY <1>0, <1>2
  <1> QED BY <1>0, <1>1, <1>3, <1>4, <1>5, FieldText

LEMMA FirstTexts ==
  ASSUME NEW r, WellFormed(r), SentOf(r)
  PROVE  /\ UrlStart(r) - 1 <= Len(stream) => Text(1, UrlStart(r) - 1) = r.cmd
         /\ VerStart(r) - 1 <= Len(stream) => Text(UrlStart(r), VerStart(r) - 1) = r.url
         /\ EndOf(r, 0) <= Len(stream) => Text(VerStart(r), EndOf(r, 0)) = r.ver
  <1> DEFINE R == Render(r)
             F == FirstLine(r)
             cmd == r.cmd
             url == r.url
             ver == r.ver
             eol == r.eol
             C == Len(cmd)
             U == Len(url)
             V == Len(ver)
             E == Len(eol)
             Z == EndOf(r, 0)
             a == UrlStart(r)
             b == VerStart(r)
  <1>1. /\ Len(F) = C + U + V + E + 2
        /\ C \in Nat \ {0} /\ U \in Nat /\ V \in Nat
        /\ \A i \in 1..C : F[i] = cmd[i]
        /\ \A i \in 1..U : F[C + 1 + i] = url[i]
        /\ \A i \in 1..V : F[C + U + 2 + i] = ver[i]
        /\ \A i \in 1..E : F[C + U + V + 2 + i] = eol[i]
    BY FirstLineBytes
  <1>2. Z = Len(F) /\ \A i \in 1..Z : R[i] = F[i]
    BY Layout
  <1>3. E \in {1, 2} /\ \A i \in 1..(E - 1) : eol[i] = "CR"
    BY LineEnd
  <1>4. Solid(cmd) /\ Solid(url) /\ Solid(ver)
    BY DEF WellFormed
  <1>5. a = C + 2 /\ b = C + U + 3
    BY DEF UrlStart, VerStart
  <1>6. ASSUME NEW s, Solid(s)
        PROVE  /\ s \in Strings /\ Len(s) \in Nat
               /\ s = <<>> \/ (s[1] \notin White /\ s[Len(s)] \notin White)
    <2>1. s \in Strings /\ Len(s) \in Nat
      BY <1>6, LenProperties DEF Solid, Strings
    <2>2. CASE s # <<>>
      <3>1. Len(s) \in Nat \ {0} BY <2>1, <2>2, EmptySeq DEF Strings
      <3>2. 1 \in 1..Len(s) /\ Len(s) \in 1..Len(s) BY <3>1
      <3> QED BY <2>1, <3>2, <1>6 DEF Solid
    <2> QED BY <2>1, <2>2
  <1>7. /\ cmd \in Strings /\ (cmd = <<>> \/ (cmd[1] \notin White /\ cmd[C] \notin White))
        /\ url \in Strings /\ (url = <<>> \/ (url[1] \notin White /\ url[U] \notin White))
        /\ ver \in Strings /\ (ver = <<>> \/ (ver[1] \notin White /\ ver[V] \notin White))
    BY <1>4, <1>6
  <1> HIDE DEF F, cmd, url, ver, eol, E, Z, a, b
  <1>8. Z = C + U + V + E + 2 /\ Z \in Nat /\ a \in Nat /\ b \in Nat
    <2> HIDE DEF C, U, V
    <2> QED BY <1>1, <1>2, <1>3, <1>5
  <1>9. ASSUME a - 1 <= Len(stream) PROVE Text(1, a - 1) = cmd
    <2>1. \A q \in 1..C : R[1 + q - 1] = cmd[q]
      <3> SUFFICES ASSUME NEW q \in 1..C PROVE R[1 + q - 1] = cmd[q]
        OBVIOUS
      <3> HIDE DEF R, C, U, V
      <3>1. 1 + q - 1 = q /\ q \in 1..Z BY <1>1, <1>3, <1>8
      <3> QED BY <3>1, <1>1, <1>2
    <2>2. \A i \in (1 + C)..(a - 1 - 1) : R[i] \in White
      <3> HIDE DEF R, C, U, V
      <3> QED BY <1>1, <1>5
    <2>3. a - 1 \in Nat /\ 1 + C <= a - 1 
      <3> HIDE DEF R, C, U, V
      <3> QED BY <1>1, <1>5
    <2>4. LiesAt(r, cmd, 1, a - 1)
      BY <2>1, <2>2, <2>3, <1>7, <1>8 DEF LiesAt
    <2> QED BY <2>4, <1>9, FieldOf
  <1>10. ASSUME b - 1 <= Len(stream) PROVE Text(a, b - 1) = url
    <2>1. \A q \in 1..U : R[a + q - 1] = url[q]
      <3> SUFFICES ASSUME NEW q \in 1..U PROVE R[a + q - 1] = url[q]
        OBVIOUS
      <3> HIDE DEF R, C, U, V
      <3>1. a + q - 1 = C + 1 + q /\ C + 1 + q \in 1..Z BY <1>1, <1>3, <1>5, <1>8
      <3> QED BY <3>1, <1>1, <1>2
    <2>2. \A i \in (a + U)..(b - 1 - 1) : R[i] \in White
      <3> HIDE DEF R, C, U, V
      <3> QED BY <1>1, <1>5
    <2>3. b - 1 \in Nat /\ a + U <= b - 1 /\ 1 <= a
      <3> HIDE DEF R, C, U, V
      <3> QED BY <1>1, <1>5
    <2>4. LiesAt(r, url, a, b - 1)
      BY <2>1, <2>2, <2>3, <1>7, <1>8 DEF LiesAt
    <2> QED BY <2>4, <1>10, FieldOf
  <1>11. ASSUME Z <= Len(stream) PROVE Text(b, Z) = ver
    <2>1. \A q \in 1..V : R[b + q - 1] = ver[q]
      <3> SUFFICES ASSUME NEW q \in 1..V PROVE R[b + q - 1] = ver[q]
        OBVIOUS
      <3> HIDE DEF R, C, U, V
      <3>1. b + q - 1 = C + U + 2 + q /\ C + U + 2 + q \in 1..Z BY <1>1, <1>3, <1>5, <1>8
      <3> QED BY <3>1, <1>1, <1>2
    <2>2. \A i \in (b + V)..(Z - 1) : R[i] \in White
      <3> SUFFICES ASSUME NEW i \in (b + V)..(Z - 1) PROVE R[i] \in White
        OBVIOUS
      <3> HIDE DEF R, C, U, V
      <3>1. PICK q \in 1..(E - 1) : i = C + U + V + 2 + q
        <4>1. /\ i - C - U - V - 2 \in 1..(E - 1)
              /\ i = C + U + V + 2 + (i - C - U - V - 2)
          BY <1>1, <1>3, <1>5, <1>8
        <4> QED BY <4>1
      <3>2. q \in 1..E /\ i \in 1..Z BY <3>1, <1>1, <1>3, <1>5, <1>8
      <3>3. R[i] = "CR" BY <3>1, <3>2, <1>1, <1>2, <1>3
      <3> QED BY <3>3 DEF White
    <2>3. b + V <= Z /\ 1 <= b
      <3> HIDE DEF R, C, U, V
      <3> QED BY <1>1, <1>3, <1>5, <1>8
    <2>4. LiesAt(r, ver, b, Z)
      BY <2>1, <2>2, <2>3, <1>7, <1>8 DEF LiesAt
    <2> QED BY <2>4, <1>11, FieldOf
  <1> QED BY <1>9, <1>10, <1>11 DEF a, b, Z, cmd, url, ver

LEMMA LineTexts ==
  ASSUME NEW r, WellFormed(r), SentOf(r), NEW j \in 1..Len(r.params)
  PROVE  /\ KeyEnd(r, j) <= Len(stream) =>
              SubSeq(stream, EndOf(r, j - 1) + 1, KeyEnd(r, j)) = r.params[j][1]
         /\ EndOf(r, j) <= Len(stream) =>
              Text(ValStart(r, j), EndOf(r, j)) = r.params[j][2]
  <1> DEFINE R == Render(r)
             L == LineOf(r, j)
             key == r.params[j][1]
             val == r.params[j][2]
             eol == r.eol
             K == Len(key)
             G == Len(r.gap)
             W == Len(val)
             E == Len(eol)
             s == EndOf(r, j - 1)
             k == KeyEnd(r, j)
             v == ValStart(r, j)
             z == EndOf(r, j)
  <1>1. /\ Len(L) = K + 1 + G + W + E
        /\ K \in Nat \ {0} /\ G \in Nat /\ W \in Nat
        /\ \A i \in 1..K : L[i] = key[i]
        /\ \A i \in 1..W : L[K + 1 + G + i] = val[i]
        /\ \A i \in 1..E : L[K + 1 + G + W + i] = eol[i]
    <2>1. IsLine(L, key, r.gap, val, eol) BY LineBytes
    <2> HIDE DEF L, key, val, eol
    <2> QED BY <2>1 DEF IsLine
  <1>2. z = s + Len(L) /\ \A i \in 1..Len(L) : R[s + i] = L[i]
    BY Layout
  <1>3. E \in {1, 2} /\ \A i \in 1..(E - 1) : eol[i] = "CR"
    BY LineEnd
  <1>4. key \in Strings /\ val \in Strings /\ s \in Nat
    <2>1. j - 1 \in 0..Len(r.params) BY Fields
    <2> QED BY <2>1, Fields, HeadTypes
  <1>5. k = s + K /\ v = s + K + G + 2
    BY DEF KeyEnd, ValStart
  <1>6. val = <<>> \/ (val[1] \notin White /\ val[W] \notin White)
    BY DEF WellFormed
  <1>7. /\ stream \in Strings
        /\ \A i \in 1..Len(stream) : stream[i] = R[i]
    BY DEF SentOf
  <1>8. Len(stream) \in Nat
    BY <1>7, LenProperties DEF Strings
  <1> HIDE DEF L, key, val, eol, K, G, W, E, s, k, v, z
  <1>9. z = s + K + 1 + G + W + E /\ z \in Nat /\ k \in Nat /\ v \in Nat
    BY <1>1, <1>2, <1>3, <1>4, <1>5
  <1>10. ASSUME k <= Len(stream) PROVE SubSeq(stream, s + 1, k) = key
    <2> HIDE DEF R
    <2> DEFINE t == SubSeq(stream, s + 1, k)
    <2>1. \A i \in (s + 1)..k : stream[i] \in Bytes
      <3>1. \A i \in (s + 1)..k : i \in 1..Len(stream) BY <1>4, <1>8, <1>9, <1>10
      <3> QED BY <3>1, <1>7, ElementOfSeq DEF Strings
    <2>2. /\ t \in Seq(Bytes)
          /\ Len(t) = IF s + 1 <= k THEN k - (s + 1) + 1 ELSE 0
          /\ \A i \in 1..(k - (s + 1) + 1) : t[i] = stream[s + 1 + i - 1]
      <3>1. s + 1 \in Int /\ k \in Int BY <1>4, <1>9
      <3> QED BY <2>1, <3>1, SubSeqProperties
    <2> HIDE DEF t
    <2>3. k - (s + 1) + 1 = K /\ s + 1 <= k /\ K \in Nat BY <1>1, <1>4, <1>5
    <2>4. Len(t) = K BY <2>2, <2>3
    <2>5. \A i \in 1..K : t[i] = key[i]
      <3> SUFFICES ASSUME NEW i \in 1..K PROVE t[i] = key[i]
        OBVIOUS
      <3>1. s + 1 + i - 1 = s + i /\ s + i \in 1..Len(stream) /\ i \in 1..Len(L)
        BY <1>1, <1>3, <1>4, <1>5, <1>8, <1>10
      <3>2. t[i] = stream[s + i] BY <2>2, <2>3, <3>1
      <3> QED BY <3>1, <3>2, <1>1, <1>2, <1>7
    <2>6. K = Len(key) BY DEF K
    <2>7. t = key BY <2>2, <2>4, <2>5, <2>6, <1>4, SeqEqual DEF Strings
    <2> QED BY <2>7 DEF t
  <1>11. ASSUME z <= Len(stream) PROVE Text(v, z) = val
    <2>1. \A q \in 1..W : R[v + q - 1] = val[q]
      <3> SUFFICES ASSUME NEW q \in 1..W PROVE R[v + q - 1] = val[q]
        OBVIOUS
      <3> HIDE DEF R
      <3>1. v + q - 1 = s + (K + 1 + G + q) /\ K + 1 + G + q \in 1..Len(L)
        BY <1>1, <1>3, <1>4, <1>5
      <3> QED BY <3>1, <1>1, <1>2
    <2>2. \A i \in (v + W)..(z - 1) : R[i] \in White
      <3> SUFFICES ASSUME NEW i \in (v + W)..(z - 1) PROVE R[i] \in White
        OBVIOUS
      <3> HIDE DEF R
      <3>1. PICK q \in 1..(E - 1) : i = s + (K + 1 + G + W + q)
        <4>1. /\ i - s - K - 1 - G - W \in 1..(E - 1)
              /\ i = s + (K + 1 + G + W + (i - s - K - 1 - G - W))
          BY <1>1, <1>3, <1>4, <1>5, <1>9
        <4> QED BY <4>1
      <3>2. q \in 1..E /\ K + 1 + G + W + q \in 1..Len(L) BY <1>1, <1>3
      <3>3. R[i] = "CR" BY <3>1, <3>2, <1>1, <1>2, <1>3
      <3> QED BY <3>3 DEF White
    <2>3. v + W <= z /\ 1 <= v
      <3> HIDE DEF R
      <3> QED BY <1>1, <1>3, <1>4, <1>5, <1>9
    <2>4. LiesAt(r, val, v, z)
      BY <2>1, <2>2, <2>3, <1>4, <1>6, <1>9 DEF LiesAt, W
    <2> QED BY <2>4, <1>11, FieldOf
  <1> QED BY <1>10, <1>11 DEF s, k, v, z, key, val

-----------------------------------------------------------------------------
(* The scanner, byte by byte. *)

IsParser(p) ==
  p = [state |-> p.state, tmp |-> p.tmp, tmp2 |-> p.tmp2, brk |-> p.brk, key |-> p.key,
       cmd |-> p.cmd, url |-> p.url, ver |-> p.ver, params |-> p.params]

\* q holds what p holds, but for the state and for the fields named in F.
Keeps(p, q, F) ==
  /\ IsParser(q)
  /\ "tmp" \notin F => q.tmp = p.tmp
  /\ "tmp2" \notin F => q.tmp2 = p.tmp2
  /\ "brk" \notin F => q.brk = p.brk
  /\ "key" \notin F => q.key = p.key
  /\ "cmd" \notin F => q.cmd = p.cmd
  /\ "url" \notin F => q.url = p.url
  /\ "ver" \notin F => q.ver = p.ver
  /\ "params" \notin F => q.params = p.params

LEMMA ScanFirst ==
  ASSUME NEW p, IsParser(p), NEW i, p.state = "NONE"
  PROVE  LET q == Scan(p, i)
         IN q.state = "I_COM" /\ q.tmp = i /\ Keeps(p, q, {"tmp"})
  BY DEF Scan, IsParser, Keeps

LEMMA ScanCmd ==
  ASSUME NEW p, IsParser(p), NEW i, p.state = "I_COM"
  PROVE  LET q == Scan(p, i)
         IN /\ stream[i] = "SP" => /\ q.state = "I_URL" /\ q.cmd = Text(p.tmp, i)
                                   /\ q.tmp = i + 1 /\ Keeps(p, q, {"cmd", "tmp"})
            /\ stream[i] \notin White => q = p
  BY DEF Scan, IsParser, Keeps, White

LEMMA ScanUrl ==
  ASSUME NEW p, IsParser(p), NEW i, p.state = "I_URL"
  PROVE  LET q == Scan(p, i)
         IN /\ stream[i] = "SP" => /\ q.state = "I_VER" /\ q.url = Text(p.tmp, i)
                                   /\ q.tmp = i + 1 /\ Keeps(p, q, {"url", "tmp"})
            /\ stream[i] \notin White => q = p
  BY DEF Scan, IsParser, Keeps, White

LEMMA ScanVer ==
  ASSUME NEW p, IsParser(p), NEW i, p.state = "I_VER"
  PROVE  LET q == Scan(p, i)
         IN /\ stream[i] = "LF" => /\ q.state = "A_KEY" /\ q.ver = Text(p.tmp, i)
                                   /\ Keeps(p, q, {"ver"})
            /\ stream[i] # "LF" => q = p
  BY DEF Scan, IsParser, Keeps

LEMMA ScanAtKey ==
  ASSUME NEW p, IsParser(p), NEW i, p.state = "A_KEY"
  PROVE  LET q == Scan(p, i)
         IN /\ stream[i] = "LF" => /\ q.state = "A_KEY" /\ q.brk = i + 1 
                                   /\ Keeps(p, q, {"brk"})
            /\ stream[i] = "CR" => q = p
            /\ stream[i] \notin White => /\ q.state = "I_KEY" /\ q.tmp = i
                                         /\ Keeps(p, q, {"tmp"})
  BY DEF Scan, IsParser, Keeps, White

LEMMA ScanInKey ==
  ASSUME NEW p, IsParser(p), NEW i, p.state = "I_KEY"
  PROVE  LET q == Scan(p, i)
         IN /\ stream[i] = "COLON" => /\ q.state = "A_VAL"
                                      /\ q.key = SubSeq(stream, p.tmp, i - 1)
                                      /\ Keeps(p, q, {"key"})
            /\ stream[i] # "COLON" => q = p
  BY DEF Scan, IsParser, Keeps

LEMMA ScanAtVal ==
  ASSUME NEW p, IsParser(p), NEW i, p.state = "A_VAL"
  PROVE  LET q == Scan(p, i)
         IN /\ stream[i] = "SP" => q = p
            /\ stream[i] # "SP" => /\ q.state = "I_VAL" /\ q.tmp2 = i
                                   /\ Keeps(p, q, {"tmp2"})
  BY DEF Scan, IsParser, Keeps

LEMMA ScanInVal ==
  ASSUME NEW p, IsParser(p), NEW i, p.state = "I_VAL"
  PROVE  LET q == Scan(p, i)
         IN /\ stream[i] = "LF" => /\ q.state = "A_KEY"
                                   /\ q.params = Put(p.params, p.key, Value(p.tmp2, i))
                                   /\ Keeps(p, q, {"params"})
            /\ stream[i] # "LF" => q = p
  BY DEF Scan, IsParser, Keeps

\* Putting the next header makes the last values those of one header more.
LEMMA LastStep ==
  ASSUME NEW ps, NEW j \in Nat \ {0}, ps[j] = <<ps[j][1], ps[j][2]>>
  PROVE  Put(LastOf(ps, j - 1), ps[j][1], ps[j][2]) = LastOf(ps, j)
  <1> DEFINE Is(x, n) == \A l \in (x + 1)..n : ps[l][1] # ps[x][1]
             k == ps[j][1]
  <1>1. \A kv : kv \in LastOf(ps, j) <=> \E x \in 1..j : Is(x, j) /\ kv = ps[x]
    BY DEF LastOf
  <1>2. \A kv : kv \in LastOf(ps, j - 1) <=> \E x \in 1..(j - 1) : Is(x, j - 1) /\ kv = ps[x]
    BY DEF LastOf
  <1>3. \A kv : kv \in Put(LastOf(ps, j - 1), k, ps[j][2]) <=>
                  (kv \in LastOf(ps, j - 1) /\ kv[1] # k) \/ kv = ps[j]
    BY DEF Put
  <1>4. Is(j, j)
    OBVIOUS
  <1>5. ASSUME NEW x \in 1..(j - 1) PROVE Is(x, j) <=> Is(x, j - 1) /\ ps[x][1] # k
    <2>1. \A l : l \in (x + 1)..j <=> l \in (x + 1)..(j - 1) \/ l = j
      OBVIOUS
    <2> QED BY <2>1
  <1>6. \A x : x \in 1..j <=> x \in 1..(j - 1) \/ x = j
    OBVIOUS
  <1> HIDE DEF Is, k
  <1>7. ASSUME NEW kv
        PROVE  kv \in LastOf(ps, j) <=> kv \in Put(LastOf(ps, j - 1), k, ps[j][2])
    <2>1. ASSUME kv \in LastOf(ps, j)
          PROVE  (kv \in LastOf(ps, j - 1) /\ kv[1] # k) \/ kv = ps[j]
      <3>1. PICK x \in 1..j : Is(x, j) /\ kv = ps[x] BY <2>1, <1>1
      <3>2. CASE x = j BY <3>1, <3>2
      <3>3. CASE x \in 1..(j - 1)
        <4>1. Is(x, j - 1) /\ ps[x][1] # k BY <3>1, <3>3, <1>5
        <4> QED BY <3>1, <3>3, <4>1, <1>2
      <3> QED BY <3>2, <3>3, <1>6
    <2>2. ASSUME kv \in LastOf(ps, j - 1), kv[1] # k PROVE kv \in LastOf(ps, j)
      <3>1. PICK x \in 1..(j - 1) : Is(x, j - 1) /\ kv = ps[x] BY <2>2, <1>2
      <3>2. Is(x, j) /\ x \in 1..j BY <3>1, <2>2, <1>5, <1>6
      <3> QED BY <3>1, <3>2, <1>1
    <2>3. ASSUME kv = ps[j] PROVE kv \in LastOf(ps, j)
      <3>1. j \in 1..j OBVIOUS
      <3> QED BY <2>3, <3>1, <1>1, <1>4
    <2> QED BY <2>1, <2>2, <2>3, <1>3
  <1>8. LastOf(ps, j) = Put(LastOf(ps, j - 1), k, ps[j][2])
    BY <1>7
  <1> QED BY <1>8 DEF k

LEMMA LastOfNone ==
  ASSUME NEW ps
  PROVE  LastOf(ps, 0) = {}
  BY DEF LastOf

LEMMA LastAreSome ==
  ASSUME NEW ps, NEW j \in Nat, NEW n \in Nat, j <= n, NEW kv \in LastOf(ps, j)
  PROVE  \E i \in 1..n : ps[i] = kv
  <1>1. PICK x \in 1..j : kv = ps[x] BY DEF LastOf
  <1>2. x \in 1..n OBVIOUS
  <1> QED BY <1>1, <1>2

-----------------------------------------------------------------------------
(* Where the scanner is once it has scanned the first i bytes of r. *)

Has(p, c, u, v, ps) == p.cmd = c /\ p.url = u /\ p.ver = v /\ p.params = ps

AtStart(r, p, i) ==
  p.state = "NONE" /\ i = 0 /\ Has(p, <<>>, <<>>, <<>>, {})
InCmd(r, p, i) ==
  /\ p.state = "I_COM" /\ i \in 1..(UrlStart(r) - 2) /\ p.tmp = 1
  /\ Has(p, <<>>, <<>>, <<>>, {})
InUrl(r, p, i) ==
  /\ p.state = "I_URL" /\ i \in (UrlStart(r) - 1)..(VerStart(r) - 2) /\ p.tmp = UrlStart(r)
  /\ Has(p, r.cmd, <<>>, <<>>, {})
InVer(r, p, i) ==
  /\ p.state = "I_VER" /\ i \in (VerStart(r) - 1)..(EndOf(r, 0) - 1) /\ p.tmp = VerStart(r)
  /\ Has(p, r.cmd, r.url, <<>>, {})

\* After the j-th header line; the empty line may have begun.
AtLine(r, p, i, j) ==
  /\ p.state = "A_KEY" /\ i >= EndOf(r, j) /\ (i = EndOf(r, j) \/ j = Len(r.params))
  /\ Has(p, r.cmd, r.url, r.ver, LastOf(Meant(r), j))
\* In the j-th header line.
InKey(r, p, i, j) ==
  /\ p.state = "I_KEY" /\ i \in (EndOf(r, j - 1) + 1)..KeyEnd(r, j)
  /\ p.tmp = EndOf(r, j - 1) + 1
  /\ Has(p, r.cmd, r.url, r.ver, LastOf(Meant(r), j - 1))
AtVal(r, p, i, j) ==
  /\ p.state = "A_VAL" /\ i \in (KeyEnd(r, j) + 1)..(ValStart(r, j) - 1)
  /\ p.key = r.params[j][1]
  /\ Has(p, r.cmd, r.url, r.ver, LastOf(Meant(r), j - 1))
InVal(r, p, i, j) ==
  /\ p.state = "I_VAL" /\ i \in ValStart(r, j)..(EndOf(r, j) - 1)
  /\ p.key = r.params[j][1] /\ p.tmp2 = ValStart(r, j)
  /\ Has(p, r.cmd, r.url, r.ver, LastOf(Meant(r), j - 1))

\* The header has ended.
Ended(r, p) ==
  /\ p.state = "A_KEY" /\ p.brk = HeaderEnd(r) + 1
  /\ Has(p, r.cmd, r.url, r.ver, LastValues(Meant(r)))

Amid(r, p, i) ==
  \/ AtStart(r, p, i) \/ InCmd(r, p, i) \/ InUrl(r, p, i) \/ InVer(r, p, i)
  \/ \E j \in 0..Len(r.params) : AtLine(r, p, i, j)
  \/ \E j \in 1..Len(r.params) : InKey(r, p, i, j) \/ AtVal(r, p, i, j) \/ InVal(r, p, i, j)

Place(r, p, i) ==
  /\ IsParser(p) /\ p.tmp \in 0..(i + 1) /\ p.tmp2 \in 0..(i + 1)
  /\ \/ p.brk = 0 /\ i < HeaderEnd(r) /\ Amid(r, p, i)
     \/ i >= HeaderEnd(r) /\ Ended(r, p)

\* The scanner has not reached the end of the header and is to scan a byte.
Scanning(r, p, i) ==
  /\ WellFormed(r) /\ SentOf(r) /\ i \in Nat /\ i + 1 <= Len(stream)
  /\ IsParser(p) /\ p.tmp \in 0..(i + 1) /\ p.tmp2 \in 0..(i + 1)
  /\ p.brk = 0 /\ i < HeaderEnd(r)

\* The byte it scans.
LEMMA NextByte ==
  ASSUME NEW r, NEW p, NEW i, Scanning(r, p, i)
  PROVE  /\ WellFormed(r) /\ SentOf(r) /\ i \in Nat /\ Len(stream) \in Nat
         /\ i + 1 <= Len(stream)
         /\ IsParser(p) /\ p.brk = 0
         /\ stream[i + 1] = Render(r)[i + 1]
         /\ HeaderEnd(r) \in Nat
  <1>1. WellFormed(r) /\ SentOf(r) /\ i \in Nat /\ i + 1 <= Len(stream) /\ IsParser(p) /\ p.brk = 0
    BY DEF Scanning
  <1>2. stream \in Strings /\ \A x \in 1..Len(stream) : stream[x] = Render(r)[x]
    BY <1>1 DEF SentOf
  <1>3. Len(stream) \in Nat BY <1>2, LenProperties DEF Strings
  <1>4. i + 1 \in 1..Len(stream) BY <1>1, <1>3
  <1> QED BY <1>1, <1>2, <1>3, <1>4, EndMap

\* Where it then is, if not at the end of the header.
LEMMA StaysAmid ==
  ASSUME NEW r, NEW p, NEW i, Scanning(r, p, i), NEW q, IsParser(q),
         q.tmp \in {p.tmp, i + 1, i + 2}, q.tmp2 \in {p.tmp2, i + 1}, q.brk = 0,
         i + 1 < HeaderEnd(r), Amid(r, q, i + 1)
  PROVE  Place(r, q, i + 1)
  BY DEF Scanning, Place

LEMMA StepAtStart ==
  ASSUME NEW r, NEW p, NEW i, Scanning(r, p, i), AtStart(r, p, i)
  PROVE  Place(r, Scan(p, i + 1), i + 1)
  <1> DEFINE q == Scan(p, i + 1)
             a == UrlStart(r)
             h == HeaderEnd(r)
             z == EndOf(r, 0)
  <1>1. p.state = "NONE" /\ i = 0 /\ Has(p, <<>>, <<>>, <<>>, {})
    BY DEF AtStart
  <1>2. WellFormed(r) /\ IsParser(p) /\ p.brk = 0
    BY NextByte
  <1>3. q.state = "I_COM" /\ q.tmp = 1 /\ Keeps(p, q, {"tmp"})
    BY <1>1, <1>2, ScanFirst
  <1>4. a \in Nat /\ 3 <= a /\ a < h /\ h \in Nat
    <2>1. a \in Nat /\ 3 <= a /\ a < VerStart(r) /\ VerStart(r) <= z /\ VerStart(r) \in Nat
      BY <1>2, FirstLineMap
    <2>2. /\ Len(r.params) \in Nat /\ h \in Nat
          /\ \A j \in 0..Len(r.params) : EndOf(r, j) \in Nat /\ EndOf(r, j) <= EndOf(r, Len(r.params))
          /\ EndOf(r, Len(r.params)) < h
      BY <1>2, EndMap
    <2>3. z \in Nat /\ z < h BY <2>2
    <2> HIDE DEF a, z, h
    <2> QED BY <2>1, <2>2, <2>3
  <1> HIDE DEF q, a, h, z
  <1>5. InCmd(r, q, i + 1)
    BY <1>1, <1>3, <1>4 DEF InCmd, Has, Keeps, a
  <1>6. IsParser(q) /\ q.tmp = i + 1 /\ q.tmp2 = p.tmp2 /\ q.brk = 0 /\ i + 1 < HeaderEnd(r)
    BY <1>1, <1>2, <1>3, <1>4 DEF Keeps, h
  <1>7. Place(r, q, i + 1)
    BY <1>5, <1>6, StaysAmid DEF Amid
  <1> QED BY <1>7 DEF q

\* The first line lies within the header.
LEMMA FirstWithin ==
  ASSUME NEW r, WellFormed(r)
  PROVE  /\ UrlStart(r) \in Nat /\ VerStart(r) \in Nat /\ EndOf(r, 0) \in Nat
         /\ HeaderEnd(r) \in Nat
         /\ 3 <= UrlStart(r) /\ UrlStart(r) < VerStart(r) /\ VerStart(r) <= EndOf(r, 0)
         /\ EndOf(r, 0) < HeaderEnd(r)
  <1> DEFINE h == HeaderEnd(r)
             m == Len(r.params)
  <1>1. /\ m \in Nat /\ h \in Nat
        /\ \A j \in 0..m : EndOf(r, j) \in Nat /\ EndOf(r, j) <= EndOf(r, m)
        /\ EndOf(r, m) < h
    BY EndMap
  <1> HIDE DEF h, m
  <1>2. 0 \in 0..m /\ m \in 0..m BY <1>1
  <1>3. EndOf(r, 0) \in Nat /\ EndOf(r, m) \in Nat /\ EndOf(r, 0) <= EndOf(r, m)
    BY <1>1, <1>2
  <1>4. EndOf(r, 0) < h BY <1>1, <1>3
  <1> QED BY <1>1, <1>3, <1>4, FirstLineMap DEF h

LEMMA StepInCmd ==
  ASSUME NEW r, NEW p, NEW i, Scanning(r, p, i), InCmd(r, p, i)
  PROVE  Place(r, Scan(p, i + 1), i + 1)
  <1> DEFINE q == Scan(p, i + 1)
             a == UrlStart(r)
             b == VerStart(r)
             h == HeaderEnd(r)
             R == Render(r)
  <1>1. p.state = "I_COM" /\ i \in 1..(a - 2) /\ p.tmp = 1 /\ Has(p, <<>>, <<>>, <<>>, {})
    BY DEF InCmd
  <1>2. /\ WellFormed(r) /\ SentOf(r) /\ IsParser(p) /\ p.brk = 0
        /\ i \in Nat /\ i + 1 <= Len(stream) /\ stream[i + 1] = R[i + 1]
    BY NextByte
  <1>3. a \in Nat /\ b \in Nat /\ h \in Nat /\ 3 <= a /\ a < b /\ b < h
    <2>1. a \in Nat /\ b \in Nat /\ EndOf(r, 0) \in Nat /\ h \in Nat
      BY <1>2, FirstWithin
    <2>2. 3 <= a /\ a < b /\ b <= EndOf(r, 0) /\ EndOf(r, 0) < h
      BY <1>2, FirstWithin
    <2> HIDE DEF a, b, h
    <2> QED BY <2>1, <2>2
  <1>4. (\A x \in 1..(a - 2) : R[x] \notin White) /\ R[a - 1] = "SP"
    BY <1>2, FirstLineMap
  <1>5. a - 1 <= Len(stream) => Text(1, a - 1) = r.cmd
    BY <1>2, FirstTexts
  <1>6. /\ stream[i + 1] = "SP" => /\ q.state = "I_URL" /\ q.cmd = Text(p.tmp, i + 1)
                                   /\ q.tmp = i + 2 /\ Keeps(p, q, {"cmd", "tmp"})
        /\ stream[i + 1] \notin White => q = p
    <2>1. i + 1 + 1 = i + 2 BY <1>2
    <2> QED BY <1>1, <1>2, <2>1, ScanCmd
  <1> HIDE DEF q, a, b, h, R
  <1>7. CASE i = a - 2
    <2>1. i + 1 = a - 1 /\ i + 2 = a BY <1>3, <1>7
    <2>2. /\ q.state = "I_URL" /\ q.cmd = r.cmd /\ q.tmp = a /\ Keeps(p, q, {"cmd", "tmp"})
      BY <2>1, <1>1, <1>2, <1>4, <1>5, <1>6
    <2>3. InUrl(r, q, i + 1)
      BY <2>1, <2>2, <1>1, <1>3 DEF InUrl, Has, Keeps, a, b
    <2>4. IsParser(q) /\ q.tmp = i + 2 /\ q.tmp2 = p.tmp2 /\ q.brk = 0 /\ i + 1 < HeaderEnd(r)
      BY <2>1, <2>2, <1>2, <1>3 DEF Keeps, h
    <2> QED BY <2>3, <2>4, StaysAmid DEF Amid, q
  <1>8. CASE i # a - 2
    <2>1. i + 1 \in 1..(a - 2) BY <1>1, <1>3, <1>8
    <2>2. q = p BY <2>1, <1>2, <1>4, <1>6
    <2>3. InCmd(r, p, i + 1)
      BY <2>1, <1>1 DEF InCmd, a
    <2>4. i + 1 < HeaderEnd(r) BY <2>1, <1>3 DEF h
    <2>5. Place(r, p, i + 1) BY <2>3, <2>4, <1>2, StaysAmid DEF Amid
    <2> QED BY <2>2, <2>5 DEF q
  <1> QED BY <1>7, <1>8

LEMMA StepInUrl ==
  ASSUME NEW r, NEW p, NEW i, Scanning(r, p, i), InUrl(r, p, i)
  PROVE  Place(r, Scan(p, i + 1), i + 1)
  <1> DEFINE q == Scan(p, i + 1)
             a == UrlStart(r)
             b == VerStart(r)
             z == EndOf(r, 0)
             h == HeaderEnd(r)
             R == Render(r)
  <1>1. p.state = "I_URL" /\ i \in (a - 1)..(b - 2) /\ p.tmp = a /\ Has(p, r.cmd, <<>>, <<>>, {})
    BY DEF InUrl
  <1>2. /\ WellFormed(r) /\ SentOf(r) /\ IsParser(p) /\ p.brk = 0
        /\ i \in Nat /\ i + 1 <= Len(stream) /\ stream[i + 1] = R[i + 1]
    BY NextByte
  <1>3. a \in Nat /\ b \in Nat /\ z \in Nat /\ h \in Nat /\ 3 <= a /\ a < b /\ b <= z /\ z < h
    BY <1>2, FirstWithin
  <1>4. (\A x \in a..(b - 2) : R[x] \notin White) /\ R[b - 1] = "SP"
    BY <1>2, FirstLineMap
  <1>5. b - 1 <= Len(stream) => Text(a, b - 1) = r.url
    BY <1>2, FirstTexts
  <1>6. /\ stream[i + 1] = "SP" => /\ q.state = "I_VER" /\ q.url = Text(p.tmp, i + 1)
                                   /\ q.tmp = i + 2 /\ Keeps(p, q, {"url", "tmp"})
        /\ stream[i + 1] \notin White => q = p
    <2>1. i + 1 + 1 = i + 2 BY <1>2
    <2> QED BY <1>1, <1>2, <2>1, ScanUrl
  <1> HIDE DEF q, a, b, z, h, R
  <1>7. CASE i = b - 2
    <2>1. i + 1 = b - 1 /\ i + 2 = b BY <1>3, <1>7
    <2>2. /\ q.state = "I_VER" /\ q.url = r.url /\ q.tmp = b /\ Keeps(p, q, {"url", "tmp"})
      BY <2>1, <1>1, <1>2, <1>4, <1>5, <1>6
    <2>3. InVer(r, q, i + 1)
      BY <2>1, <2>2, <1>1, <1>3 DEF InVer, Has, Keeps, b, z
    <2>4. IsParser(q) /\ q.tmp = i + 2 /\ q.tmp2 = p.tmp2 /\ q.brk = 0 /\ i + 1 < HeaderEnd(r)
      BY <2>1, <2>2, <1>2, <1>3 DEF Keeps, h
    <2> QED BY <2>3, <2>4, StaysAmid DEF Amid, q
  <1>8. CASE i # b - 2
    <2>1. i + 1 \in a..(b - 2) BY <1>1, <1>3, <1>8
    <2>2. q = p BY <2>1, <1>2, <1>4, <1>6
    <2>3. InUrl(r, p, i + 1)
      <3>1. i + 1 \in (a - 1)..(b - 2) BY <2>1, <1>3
      <3> QED BY <3>1, <1>1 DEF InUrl, a, b
    <2>4. i + 1 < HeaderEnd(r) BY <2>1, <1>3 DEF h
    <2>5. Place(r, p, i + 1) BY <2>3, <2>4, <1>2, StaysAmid DEF Amid
    <2> QED BY <2>2, <2>5 DEF q
  <1> QED BY <1>7, <1>8

LEMMA StepInVer ==
  ASSUME NEW r, NEW p, NEW i, Scanning(r, p, i), InVer(r, p, i)
  PROVE  Place(r, Scan(p, i + 1), i + 1)
  <1> DEFINE q == Scan(p, i + 1)
             b == VerStart(r)
             z == EndOf(r, 0)
             h == HeaderEnd(r)
             R == Render(r)
  <1>1. p.state = "I_VER" /\ i \in (b - 1)..(z - 1) /\ p.tmp = b /\ Has(p, r.cmd, r.url, <<>>, {})
    BY DEF InVer
  <1>2. /\ WellFormed(r) /\ SentOf(r) /\ IsParser(p) /\ p.brk = 0
        /\ i \in Nat /\ i + 1 <= Len(stream) /\ stream[i + 1] = R[i + 1]
    BY NextByte
  <1>3. b \in Nat /\ z \in Nat /\ h \in Nat /\ 3 <= b /\ b <= z /\ z < h
    <2>1. UrlStart(r) \in Nat /\ 3 <= UrlStart(r) /\ UrlStart(r) < b
      BY <1>2, FirstWithin
    <2>2. b \in Nat /\ z \in Nat /\ h \in Nat /\ b <= z /\ z < h
      BY <1>2, FirstWithin
    <2> HIDE DEF b, z, h
    <2> QED BY <2>1, <2>2
  <1>4. (\A x \in b..(z - 1) : R[x] # "LF") /\ R[z] = "LF"
    BY <1>2, FirstLineMap
  <1>5. z <= Len(stream) => Text(b, z) = r.ver
    BY <1>2, FirstTexts
  <1>6. /\ stream[i + 1] = "LF" => /\ q.state = "A_KEY" /\ q.ver = Text(p.tmp, i + 1)
                                   /\ Keeps(p, q, {"ver"})
        /\ stream[i + 1] # "LF" => q = p
    BY <1>1, <1>2, ScanVer
  <1> HIDE DEF q, b, z, h, R
  <1>7. CASE i = z - 1
    <2>1. i + 1 = z BY <1>3, <1>7
    <2>2. /\ q.state = "A_KEY" /\ q.ver = r.ver /\ Keeps(p, q, {"ver"})
      BY <2>1, <1>1, <1>2, <1>4, <1>5, <1>6
    <2>3. AtLine(r, q, i + 1, 0)
      <3>1. Has(q, r.cmd, r.url, r.ver, {}) BY <2>2, <1>1 DEF Has, Keeps
      <3>2. Has(q, r.cmd, r.url, r.ver, LastOf(Meant(r), 0))
        <4>1. LastOf(Meant(r), 0) = {} BY LastOfNone
        <4> QED BY <3>1, <4>1
      <3>3. i + 1 = EndOf(r, 0) /\ i + 1 >= EndOf(r, 0) BY <2>1, <1>3 DEF z
      <3> QED BY <3>2, <3>3, <2>2 DEF AtLine
    <2>4. IsParser(q) /\ q.tmp = p.tmp /\ q.tmp2 = p.tmp2 /\ q.brk = 0 /\ i + 1 < HeaderEnd(r)
      BY <2>1, <2>2, <1>2, <1>3 DEF Keeps, h
    <2>5. 0 \in 0..Len(r.params) BY <1>2, Fields
    <2>6. Amid(r, q, i + 1) BY <2>3, <2>5 DEF Amid
    <2> QED BY <2>4, <2>6, StaysAmid DEF q
  <1>8. CASE i # z - 1
    <2>1. i + 1 \in b..(z - 1) BY <1>1, <1>3, <1>8
    <2>2. q = p BY <2>1, <1>2, <1>4, <1>6
    <2>3. InVer(r, p, i + 1)
      <3>1. i + 1 \in (b - 1)..(z - 1) BY <2>1, <1>3
      <3> QED BY <3>1, <1>1 DEF InVer, b, z
    <2>4. i + 1 < HeaderEnd(r) BY <2>1, <1>3 DEF h
    <2>5. Place(r, p, i + 1) BY <2>3, <2>4, <1>2, StaysAmid DEF Amid
    <2> QED BY <2>2, <2>5 DEF q
  <1> QED BY <1>7, <1>8

\* A header line lies within the header.
LEMMA LineWithin ==
  ASSUME NEW r, WellFormed(r), NEW j \in 1..Len(r.params)
  PROVE  /\ EndOf(r, j - 1) \in Nat /\ KeyEnd(r, j) \in Nat /\ ValStart(r, j) \in Nat
         /\ EndOf(r, j) \in Nat /\ HeaderEnd(r) \in Nat
         /\ EndOf(r, j - 1) < KeyEnd(r, j) /\ KeyEnd(r, j) + 2 <= ValStart(r, j)
         /\ ValStart(r, j) < EndOf(r, j) /\ EndOf(r, j) < HeaderEnd(r)
  <1> DEFINE h == HeaderEnd(r)
             m == Len(r.params)
             z == EndOf(r, j)
             y == EndOf(r, m)
  <1>1. m \in Nat /\ h \in Nat /\ y < h
    BY EndMap
  <1>2. j \in 0..m /\ m \in 0..m BY <1>1
  <1>3. z \in Nat /\ y \in Nat /\ z <= y
    BY <1>2, EndMap
  <1>4. z < h
    <2> HIDE DEF h, z, y
    <2> QED BY <1>1, <1>3
  <1> QED BY <1>1, <1>4, LineMap

LEMMA StepAtLine ==
  ASSUME NEW r, NEW p, NEW i, Scanning(r, p, i),
         NEW j \in 0..Len(r.params), AtLine(r, p, i, j)
  PROVE  Place(r, Scan(p, i + 1), i + 1)
  <1> DEFINE q == Scan(p, i + 1)
             m == Len(r.params)
             y == EndOf(r, m)
             h == HeaderEnd(r)
             R == Render(r)
  <1>1. /\ p.state = "A_KEY" /\ i >= EndOf(r, j) /\ (i = EndOf(r, j) \/ j = m)
        /\ Has(p, r.cmd, r.url, r.ver, LastOf(Meant(r), j))
    BY DEF AtLine
  <1>2. /\ WellFormed(r) /\ SentOf(r) /\ IsParser(p) /\ p.brk = 0
        /\ i \in Nat /\ i + 1 <= Len(stream) /\ stream[i + 1] = R[i + 1]
    BY NextByte
  <1>3. i < h /\ p.tmp \in 0..(i + 1) /\ p.tmp2 \in 0..(i + 1)
    BY DEF Scanning
  <1>4. m \in Nat /\ h \in Nat /\ y \in Nat
    <2>1. m \in Nat /\ h \in Nat BY <1>2, EndMap
    <2>2. m \in 0..m BY <2>1
    <2> QED BY <2>1, <2>2, <1>2, EndMap
  <1>5. (\A x \in (y + 1)..(h - 1) : R[x] = "CR") /\ R[h] = "LF"
    BY <1>2, EndMap
  <1>6. /\ stream[i + 1] = "LF" => /\ q.state = "A_KEY" /\ q.brk = i + 2
                                   /\ Keeps(p, q, {"brk"})
        /\ stream[i + 1] = "CR" => q = p
        /\ stream[i + 1] \notin White => /\ q.state = "I_KEY" /\ q.tmp = i + 1
                                         /\ Keeps(p, q, {"tmp"})
    <2>1. i + 1 + 1 = i + 2 BY <1>2
    <2> QED BY <1>1, <1>2, <2>1, ScanAtKey
  <1> HIDE DEF q, m, y, h, R
  <1>7. CASE j = m /\ i + 1 = h
    <2>1. q.state = "A_KEY" /\ q.brk = h + 1 /\ Keeps(p, q, {"brk"})
      <3>1. i + 2 = h + 1 BY <1>2, <1>7
      <3> QED BY <3>1, <1>2, <1>5, <1>6, <1>7
    <2>2. Has(q, r.cmd, r.url, r.ver, LastOf(Meant(r), j))
      BY <2>1, <1>1 DEF Has, Keeps
    <2>3. LastOf(Meant(r), j) = LastValues(Meant(r))
      BY <1>2, <1>7, MeantFields DEF LastValues, m
    <2>4. Ended(r, q)
      BY <2>1, <2>2, <2>3 DEF Ended, h
    <2>5. IsParser(q) /\ q.tmp \in 0..(i + 1 + 1) /\ q.tmp2 \in 0..(i + 1 + 1)
      <3>1. q.tmp = p.tmp /\ q.tmp2 = p.tmp2 /\ IsParser(q) BY <2>1 DEF Keeps
      <3> QED BY <3>1, <1>2, <1>3
    <2>6. i + 1 >= HeaderEnd(r) BY <1>4, <1>7 DEF h
    <2> QED BY <2>4, <2>5, <2>6 DEF Place, q
  <1>8. CASE j = m /\ i + 1 # h
    <2>1. i + 1 \in (y + 1)..(h - 1)
      <3>1. i >= y BY <1>1, <1>8 DEF y
      <3> QED BY <3>1, <1>2, <1>3, <1>4, <1>8
    <2>2. q = p BY <2>1, <1>2, <1>5, <1>6
    <2>3. AtLine(r, p, i + 1, j)
      <3>1. i + 1 >= EndOf(r, j)
        <4>1. EndOf(r, j) = y BY <1>8 DEF y
        <4> QED BY <4>1, <2>1, <1>4
      <3> QED BY <3>1, <1>1, <1>8 DEF AtLine, m
    <2>4. i + 1 < HeaderEnd(r) BY <2>1, <1>4 DEF h
    <2>5. Amid(r, p, i + 1) BY <2>3 DEF Amid
    <2>6. Place(r, p, i + 1) BY <2>4, <2>5, <1>2, StaysAmid
    <2> QED BY <2>2, <2>6 DEF q
  <1>9. CASE j # m
    <2>1. PICK l \in 1..m : l = j + 1
      <3>1. j \in 0..m BY DEF m
      <3>2. j + 1 \in 1..m BY <3>1, <1>4, <1>9
      <3> QED BY <3>2
    <2> DEFINE s == EndOf(r, l - 1)
               k == KeyEnd(r, l)
    <2>2. l - 1 = j BY <2>1
    <2>3. l \in 1..Len(r.params) BY DEF m
    <2>4. s \in Nat /\ k \in Nat /\ s < k /\ k < h
      <3> DEFINE v == ValStart(r, l)
                 z == EndOf(r, l)
      <3>1. s \in Nat /\ k \in Nat /\ v \in Nat /\ z \in Nat /\ s < k /\ k + 2 <= v /\ v < z /\ z < h
        BY <2>3, <1>2, LineWithin DEF h
      <3> HIDE DEF s, k, v, z
      <3> QED BY <3>1, <1>4
    <2>5. \A x \in (s + 1)..k : R[x] \notin White
      BY <2>3, <1>2, LineMap DEF R
    <2>6. i = s BY <2>2, <1>1, <1>9
    <2>7. Has(p, r.cmd, r.url, r.ver, LastOf(Meant(r), l - 1))
      BY <2>2, <1>1
    <2> HIDE DEF s, k
    <2>8. i + 1 \in (s + 1)..k BY <2>4, <2>6
    <2>9. q.state = "I_KEY" /\ q.tmp = i + 1 /\ Keeps(p, q, {"tmp"})
      BY <2>5, <2>8, <1>2, <1>6
    <2>10. Has(q, r.cmd, r.url, r.ver, LastOf(Meant(r), l - 1))
      BY <2>7, <2>9 DEF Has, Keeps
    <2>11. InKey(r, q, i + 1, l)
      BY <2>6, <2>8, <2>9, <2>10 DEF InKey, s, k
    <2>12. IsParser(q) /\ q.tmp2 = p.tmp2 /\ q.brk = 0 /\ i + 1 < HeaderEnd(r)
      <3>1. i + 1 < h BY <2>4, <2>8, <1>4
      <3> QED BY <3>1, <2>9, <1>2 DEF Keeps, h
    <2>13. Amid(r, q, i + 1) BY <2>3, <2>11 DEF Amid
    <2> QED BY <2>9, <2>12, <2>13, StaysAmid DEF q
  <1> QED BY <1>7, <1>8, <1>9

LEMMA StepInKey ==
  ASSUME NEW r, NEW p, NEW i, Scanning(r, p, i),
         NEW j \in 1..Len(r.params), InKey(r, p, i, j)
  PROVE  Place(r, Scan(p, i + 1), i + 1)
  <1> DEFINE q == Scan(p, i + 1)
             s == EndOf(r, j - 1)
             k == KeyEnd(r, j)
             v == ValStart(r, j)
             z == EndOf(r, j)
             h == HeaderEnd(r)
             R == Render(r)
             key == r.params[j][1]
  <1>1. /\ p.state = "I_KEY" /\ i \in (s + 1)..k /\ p.tmp = s + 1
        /\ Has(p, r.cmd, r.url, r.ver, LastOf(Meant(r), j - 1))
    BY DEF InKey
  <1>2. /\ WellFormed(r) /\ SentOf(r) /\ IsParser(p) /\ p.brk = 0
        /\ i \in Nat /\ i + 1 <= Len(stream) /\ stream[i + 1] = R[i + 1] /\ Len(stream) \in Nat
    BY NextByte
  <1>3. /\ s \in Nat /\ k \in Nat /\ v \in Nat /\ z \in Nat /\ h \in Nat
        /\ s < k /\ k + 2 <= v /\ v < z /\ z < h
    BY <1>2, LineWithin
  <1>4. (\A x \in (s + 1)..k : R[x] # "COLON") /\ R[k + 1] = "COLON"
    BY <1>2, LineMap
  <1>5. k <= Len(stream) => SubSeq(stream, s + 1, k) = key
    BY <1>2, LineTexts
  <1>6. /\ stream[i + 1] = "COLON" => /\ q.state = "A_VAL"
                                      /\ q.key = SubSeq(stream, p.tmp, i)
                                      /\ Keeps(p, q, {"key"})
        /\ stream[i + 1] # "COLON" => q = p
    <2>1. i + 1 - 1 = i BY <1>2
    <2> QED BY <1>1, <1>2, <2>1, ScanInKey
  <1> HIDE DEF q, s, k, v, z, h, R, key
  <1>7. CASE i = k
    <2>1. q.state = "A_VAL" /\ q.key = key /\ Keeps(p, q, {"key"})
      <3>1. k <= Len(stream) BY <1>2, <1>3, <1>7
      <3> QED BY <3>1, <1>1, <1>2, <1>4, <1>5, <1>6, <1>7
    <2>2. Has(q, r.cmd, r.url, r.ver, LastOf(Meant(r), j - 1))
      BY <2>1, <1>1 DEF Has, Keeps
    <2>3. i + 1 \in (k + 1)..(v - 1) BY <1>3, <1>7
    <2>4. AtVal(r, q, i + 1, j)
      BY <2>1, <2>2, <2>3 DEF AtVal, k, v, key
    <2>5. IsParser(q) /\ q.tmp = p.tmp /\ q.tmp2 = p.tmp2 /\ q.brk = 0 /\ i + 1 < HeaderEnd(r)
      <3>1. i + 1 < h BY <2>3, <1>3
      <3> QED BY <3>1, <2>1, <1>2 DEF Keeps, h
    <2>6. Amid(r, q, i + 1) BY <2>4 DEF Amid
    <2> QED BY <2>5, <2>6, StaysAmid DEF q
  <1>8. CASE i # k
    <2>1. i + 1 \in (s + 1)..k BY <1>1, <1>3, <1>8
    <2>2. q = p BY <2>1, <1>2, <1>4, <1>6
    <2>3. InKey(r, p, i + 1, j)
      BY <2>1, <1>1 DEF InKey, s, k
    <2>4. i + 1 < HeaderEnd(r)
      <3>1. i + 1 < h BY <2>1, <1>3
      <3> QED BY <3>1 DEF h
    <2>5. Amid(r, p, i + 1) BY <2>3 DEF Amid
    <2>6. Place(r, p, i + 1) BY <2>4, <2>5, <1>2, StaysAmid
    <2> QED BY <2>2, <2>6 DEF q
  <1> QED BY <1>7, <1>8

LEMMA StepAtVal ==
  ASSUME NEW r, NEW p, NEW i, Scanning(r, p, i),
         NEW j \in 1..Len(r.params), AtVal(r, p, i, j)
  PROVE  Place(r, Scan(p, i + 1), i + 1)
  <1> DEFINE q == Scan(p, i + 1)
             k == KeyEnd(r, j)
             v == ValStart(r, j)
             z == EndOf(r, j)
             h == HeaderEnd(r)
             R == Render(r)
             key == r.params[j][1]
  <1>1. /\ p.state = "A_VAL" /\ i \in (k + 1)..(v - 1) /\ p.key = key
        /\ Has(p, r.cmd, r.url, r.ver, LastOf(Meant(r), j - 1))
    BY DEF AtVal
  <1>2. /\ WellFormed(r) /\ SentOf(r) /\ IsParser(p) /\ p.brk = 0
        /\ i \in Nat /\ i + 1 <= Len(stream) /\ stream[i + 1] = R[i + 1]
    BY NextByte
  <1>3. /\ k \in Nat /\ v \in Nat /\ z \in Nat /\ h \in Nat
        /\ k + 2 <= v /\ v < z /\ z < h
    BY <1>2, LineWithin
  <1>4. (\A x \in (k + 2)..(v - 1) : R[x] = "SP") /\ R[v] # "SP"
    BY <1>2, LineMap
  <1>5. /\ stream[i + 1] = "SP" => q = p
        /\ stream[i + 1] # "SP" => /\ q.state = "I_VAL" /\ q.tmp2 = i + 1
                                   /\ Keeps(p, q, {"tmp2"})
    BY <1>1, <1>2, ScanAtVal
  <1> HIDE DEF q, k, v, z, h, R, key
  <1>6. CASE i = v - 1
    <2>0. i + 1 = v BY <1>3, <1>6
    <2>1. q.state = "I_VAL" /\ q.tmp2 = v /\ Keeps(p, q, {"tmp2"})
      BY <2>0, <1>2, <1>4, <1>5
    <2>2. Has(q, r.cmd, r.url, r.ver, LastOf(Meant(r), j - 1))
      BY <2>1, <1>1 DEF Has, Keeps
    <2>3. i + 1 \in v..(z - 1) BY <2>0, <1>3
    <2>4. q.key = key BY <2>1, <1>1 DEF Keeps
    <2>5. InVal(r, q, i + 1, j)
      BY <2>1, <2>2, <2>3, <2>4 DEF InVal, v, z, key
    <2>6. IsParser(q) /\ q.tmp = p.tmp /\ q.tmp2 = i + 1 /\ q.brk = 0 /\ i + 1 < HeaderEnd(r)
      <3>1. i + 1 < h BY <2>3, <1>3
      <3> QED BY <3>1, <2>0, <2>1, <1>2 DEF Keeps, h
    <2>7. Amid(r, q, i + 1) BY <2>5 DEF Amid
    <2> QED BY <2>6, <2>7, StaysAmid DEF q
  <1>7. CASE i # v - 1
    <2>1. i + 1 \in (k + 2)..(v - 1) BY <1>1, <1>3, <1>7
    <2>2. q = p BY <2>1, <1>2, <1>4, <1>5
    <2>3. AtVal(r, p, i + 1, j)
      <3>1. i + 1 \in (k + 1)..(v - 1) BY <2>1, <1>3
      <3> QED BY <3>1, <1>1 DEF AtVal, k, v, key
    <2>4. i + 1 < HeaderEnd(r)
      <3>1. i + 1 < h BY <2>1, <1>3
      <3> QED BY <3>1 DEF h
    <2>5. Amid(r, p, i + 1) BY <2>3 DEF Amid
    <2>6. Place(r, p, i + 1) BY <2>4, <2>5, <1>2, StaysAmid
    <2> QED BY <2>2, <2>6 DEF q
  <1> QED BY <1>6, <1>7

LEMMA StepInVal ==
  ASSUME NEW r, NEW p, NEW i, Scanning(r, p, i),
         NEW j \in 1..Len(r.params), InVal(r, p, i, j)
  PROVE  Place(r, Scan(p, i + 1), i + 1)
  <1> DEFINE q == Scan(p, i + 1)
             v == ValStart(r, j)
             z == EndOf(r, j)
             h == HeaderEnd(r)
             R == Render(r)
             key == r.params[j][1]
             val == Blanked(r.params[j][2])
             ps == Meant(r)
  <1>1. /\ p.state = "I_VAL" /\ i \in v..(z - 1) /\ p.key = key /\ p.tmp2 = v
        /\ Has(p, r.cmd, r.url, r.ver, LastOf(ps, j - 1))
    BY DEF InVal
  <1>2. /\ WellFormed(r) /\ SentOf(r) /\ IsParser(p) /\ p.brk = 0
        /\ i \in Nat /\ i + 1 <= Len(stream) /\ stream[i + 1] = R[i + 1]
    BY NextByte
  <1>3. v \in Nat /\ z \in Nat /\ h \in Nat /\ v < z /\ z < h
    BY <1>2, LineWithin
  <1>4. (\A x \in v..(z - 1) : R[x] # "LF") /\ R[z] = "LF"
    BY <1>2, LineMap
  <1>5. z <= Len(stream) => Value(v, z) = val
    BY <1>2, LineTexts DEF Value
  <1>6. /\ stream[i + 1] = "LF" => /\ q.state = "A_KEY"
                                   /\ q.params = Put(p.params, p.key, Value(p.tmp2, i + 1))
                                   /\ Keeps(p, q, {"params"})
        /\ stream[i + 1] # "LF" => q = p
    BY <1>1, <1>2, ScanInVal
  <1>7. Put(LastOf(ps, j - 1), key, val) = LastOf(ps, j)
    <2>1. j \in Nat \ {0} BY <1>2, Fields
    <2>2. ps[j] = <<key, val>> /\ ps[j][1] = key /\ ps[j][2] = val
      BY <1>2, MeantFields
    <2> HIDE DEF ps, key, val
    <2> QED BY <2>1, <2>2, LastStep
  <1>8. j \in 0..Len(r.params)
    BY <1>2, Fields
  <1> HIDE DEF q, v, z, h, R, key, val, ps
  <1>9. CASE i = z - 1
    <2>0. i + 1 = z BY <1>3, <1>9
    <2>1. /\ q.state = "A_KEY" /\ Keeps(p, q, {"params"})
          /\ q.params = Put(p.params, key, val)
      BY <2>0, <1>1, <1>2, <1>4, <1>5, <1>6
    <2>2. Has(q, r.cmd, r.url, r.ver, LastOf(ps, j))
      BY <2>1, <1>1, <1>7 DEF Has, Keeps
    <2>3. AtLine(r, q, i + 1, j)
      <3>1. i + 1 >= EndOf(r, j) /\ i + 1 = EndOf(r, j) BY <2>0, <1>3 DEF z
      <3> QED BY <2>1, <2>2, <3>1 DEF AtLine, ps
    <2>4. IsParser(q) /\ q.tmp = p.tmp /\ q.tmp2 = p.tmp2 /\ q.brk = 0 /\ i + 1 < HeaderEnd(r)
      <3>1. i + 1 < h BY <2>0, <1>3
      <3> QED BY <3>1, <2>1, <1>2 DEF Keeps, h
    <2>5. Amid(r, q, i + 1) BY <2>3, <1>8 DEF Amid
    <2> QED BY <2>4, <2>5, StaysAmid DEF q
  <1>10. CASE i # z - 1
    <2>1. i + 1 \in v..(z - 1) BY <1>1, <1>3, <1>10
    <2>2. q = p BY <2>1, <1>2, <1>4, <1>6
    <2>3. InVal(r, p, i + 1, j)
      BY <2>1, <1>1 DEF InVal, v, z, key, ps
    <2>4. i + 1 < HeaderEnd(r)
      <3>1. i + 1 < h BY <2>1, <1>3
      <3> QED BY <3>1 DEF h
    <2>5. Amid(r, p, i + 1) BY <2>3 DEF Amid
    <2>6. Place(r, p, i + 1) BY <2>4, <2>5, <1>2, StaysAmid
    <2> QED BY <2>2, <2>6 DEF q
  <1> QED BY <1>9, <1>10

LEMMA ScanStep ==
  ASSUME NEW r, WellFormed(r), SentOf(r), NEW p, NEW i \in Nat, i + 1 <= Len(stream),
         Place(r, p, i)
  PROVE  Place(r, ScanOn(p, i + 1), i + 1)
  <1>1. IsParser(p) /\ p.tmp \in 0..(i + 1) /\ p.tmp2 \in 0..(i + 1)
    BY DEF Place
  <1>2. HeaderEnd(r) \in Nat
    BY EndMap
  <1>3. CASE i >= HeaderEnd(r) /\ Ended(r, p)
    <2>1. p.brk # 0 BY <1>2, <1>3 DEF Ended
    <2>2. ScanOn(p, i + 1) = p BY <2>1 DEF ScanOn
    <2>3. Place(r, p, i + 1) BY <1>1, <1>2, <1>3 DEF Place
    <2> QED BY <2>2, <2>3
  <1>4. CASE p.brk = 0 /\ i < HeaderEnd(r) /\ Amid(r, p, i)
    <2>1. ScanOn(p, i + 1) = Scan(p, i + 1) BY <1>4 DEF ScanOn
    <2>2. Scanning(r, p, i) BY <1>1, <1>4 DEF Scanning
    <2>3. Place(r, Scan(p, i + 1), i + 1)
      BY <2>2, <1>4, StepAtStart, StepInCmd, StepInUrl, StepInVer,
         StepAtLine, StepInKey, StepAtVal, StepInVal DEF Amid
    <2> QED BY <2>1, <2>3
  <1> QED BY <1>3, <1>4 DEF Place

\* The scanner is the same wherever the reads cut the stream.
LEMMA ScanAll ==
  ASSUME NEW r, WellFormed(r), SentOf(r), NEW k \in Nat, rcvd \in Nat,
         rcvd + k <= Len(stream), Place(r, parser, rcvd)
  PROVE  Place(r, ScanChunk(k), rcvd + k)
  <1> DEFINE Is(f, n) == f = [j \in 0..n |-> IF j = 0 THEN parser
                                             ELSE ScanOn(f[j - 1], rcvd + j)]
             S == {n \in Nat : \E f : Is(f, n)}
  <1>1. 0 \in S
    <2>1. Is([j \in 0..0 |-> parser], 0) OBVIOUS
    <2> QED BY <2>1
  <1>2. ASSUME NEW n \in Nat, n \in S PROVE n + 1 \in S
    <2>1. PICK f : Is(f, n) BY <1>2
    <2> DEFINE g == [j \in 0..(n + 1) |-> IF j = n + 1 THEN ScanOn(f[n], rcvd + j) ELSE f[j]]
    <2>2. Is(g, n + 1)
      <3> SUFFICES ASSUME NEW j \in 0..(n + 1)
                   PROVE  g[j] = IF j = 0 THEN parser ELSE ScanOn(g[j - 1], rcvd + j)
        OBVIOUS
      <3>1. CASE j = n + 1
        <4>1. g[n + 1] = ScanOn(f[n], rcvd + (n + 1))
          <5>1. n + 1 \in 0..(n + 1) OBVIOUS
          <5> QED BY <5>1
        <4>2. g[n] = f[n]
          <5>1. n \in 0..(n + 1) /\ n # n + 1 OBVIOUS
          <5> QED BY <5>1
        <4>3. j - 1 = n /\ j # 0 BY <3>1
        <4> HIDE DEF g, Is
        <4>4. g[j] = ScanOn(f[n], rcvd + j) BY <3>1, <4>1
        <4> QED BY <4>2, <4>3, <4>4
      <3>2. CASE j # n + 1
        <4>1. j \in 0..n BY <3>2
        <4>2. f[j] = IF j = 0 THEN parser ELSE ScanOn(f[j - 1], rcvd + j)
          BY <2>1, <4>1
        <4> QED BY <3>2, <4>1, <4>2
      <3> QED BY <3>1, <3>2
    <2>3. \E h : Is(h, n + 1)
      <3> HIDE DEF Is, g
      <3> QED BY <2>2
    <2> HIDE DEF Is
    <2> QED BY <2>3
  <1>3. \E f : Is(f, k)
    <2>1. \A n \in Nat : n \in S
      <3> HIDE DEF S
      <3> QED BY <1>1, <1>2, Induct
    <2> QED BY <2>1
  <1> DEFINE sc == CHOOSE f : Is(f, k)
  <1>4. Is(sc, k)
    <2> HIDE DEF Is
    <2> QED BY <1>3
  <1>5. ScanChunk(k) = sc[k]
    BY DEF ScanChunk
  <1>6. sc[0] = parser /\ \A j \in 1..k : sc[j] = ScanOn(sc[j - 1], rcvd + j)
    <2> HIDE DEF sc
    <2>1. sc[0] = parser BY <1>4
    <2>2. ASSUME NEW j \in 1..k PROVE sc[j] = ScanOn(sc[j - 1], rcvd + j)
      <3>1. j \in 0..k /\ j # 0 OBVIOUS
      <3> QED BY <3>1, <1>4
    <2> QED BY <2>1, <2>2
  <1> HIDE DEF sc, Is
  <1> DEFINE T == {n \in Nat : n <= k => Place(r, sc[n], rcvd + n)}
  <1>7. 0 \in T
    <2>1. rcvd + 0 = rcvd OBVIOUS
    <2> QED BY <2>1, <1>6
  <1>8. ASSUME NEW n \in Nat, n \in T PROVE n + 1 \in T
    <2> SUFFICES ASSUME n + 1 <= k PROVE Place(r, sc[n + 1], rcvd + (n + 1))
      OBVIOUS
    <2>1. PICK i \in Nat : i = rcvd + n OBVIOUS
    <2>2. PICK j \in 1..k : j = n + 1 OBVIOUS
    <2>3. j - 1 = n /\ rcvd + j = i + 1 /\ rcvd + (n + 1) = i + 1 BY <2>1, <2>2
    <2>4. Place(r, sc[n], i) BY <1>8, <2>1
    <2>5. i + 1 <= Len(stream)
      <3>1. Len(stream) \in Nat BY LenProperties DEF SentOf, Strings
      <3> QED BY <3>1, <2>1
    <2>6. Place(r, ScanOn(sc[n], i + 1), i + 1)
      BY <2>4, <2>5, ScanStep
    <2>7. sc[j] = ScanOn(sc[n], i + 1)
      BY <1>6, <2>3
    <2> QED BY <2>2, <2>3, <2>6, <2>7
  <1>9. \A n \in Nat : n \in T
    <2> HIDE DEF T
    <2> QED BY <1>7, <1>8, Induct
  <1> QED BY <1>5, <1>9

-----------------------------------------------------------------------------
(* The payload. *)

LEMMA SizeIsNat ==
  ASSUME NEW p
  PROVE  PayloadSize(p) \in Nat
  <1> DEFINE values == {kv[2] : kv \in {x \in p.params : x[1] = ContentLength}}
             v == CHOOSE w \in values : TRUE
             atoi == IF Len(v) = 1 /\ v[1] \in DOMAIN Number THEN Number[v[1]] ELSE 0
  <1>1. PayloadSize(p) = IF p.cmd # POST \/ values = {} THEN 0 ELSE atoi
    BY DEF PayloadSize
  <1>2. \A d \in DOMAIN Number : Number[d] \in Nat
    BY NumberAssumption
  <1> HIDE DEF v, values
  <1>3. atoi \in Nat
    BY <1>2
  <1> QED BY <1>1, <1>3

LEMMA EndedSize ==
  ASSUME NEW r, WellFormed(r), NEW p, Ended(r, p)
  PROVE  PayloadSize(p) = Len(r.payload)
  <1> DEFINE g == [cmd |-> r.cmd, params |-> LastValues(Meant(r))]
  <1>1. Len(r.payload) = PayloadSize(g)
    BY DEF WellFormed
  <1>2. p.cmd = r.cmd /\ p.params = LastValues(Meant(r))
    BY DEF Ended, Has
  <1>3. g.cmd = r.cmd /\ g.params = LastValues(Meant(r))
    OBVIOUS
  <1> HIDE DEF g
  <1>4. p.cmd = g.cmd /\ p.params = g.params
    BY <1>2, <1>3
  <1>5. PayloadSize(p) = PayloadSize(g)
    BY <1>4 DEF PayloadSize
  <1> QED BY <1>1, <1>5

\* What follows the header in the stream is the payload or a first part of it.
LEMMA PayloadPart ==
  ASSUME NEW r, WellFormed(r), SentOf(r), NEW n \in Nat, HeaderEnd(r) + n <= Len(stream)
  PROVE  LET s == SubSeq(stream, HeaderEnd(r) + 1, HeaderEnd(r) + n)
         IN /\ s \in Strings /\ Len(s) = n /\ n <= Len(r.payload)
            /\ n = Len(r.payload) => s = r.payload
  <1> DEFINE h == HeaderEnd(r)
             R == Render(r)
             pay == r.payload
             s == SubSeq(stream, h + 1, h + n)
  <1>1. /\ stream \in Strings /\ Len(stream) \in Nat /\ Len(stream) <= Len(R)
        /\ \A i \in 1..Len(stream) : stream[i] = R[i]
    BY LenProperties DEF SentOf, Strings
  <1>2. /\ h \in Nat /\ Len(pay) \in Nat /\ Len(R) = h + Len(pay)
        /\ \A i \in 1..Len(pay) : R[h + i] = pay[i]
    BY EndMap
  <1>3. pay \in Strings BY Fields
  <1> HIDE DEF h, R, pay
  <1>4. h + n <= Len(stream) BY DEF h
  <1>5. n <= Len(pay) BY <1>1, <1>2, <1>4
  <1>6. /\ s \in Seq(Bytes) /\ Len(s) = n
        /\ \A i \in 1..n : s[i] = stream[h + i]
    <2>1. PICK a \in Int, b \in Int : a = h + 1 /\ b = h + n
      BY <1>2
    <2>2. \A i \in a..b : stream[i] \in Bytes
      <3>1. \A i \in a..b : i \in 1..Len(stream) BY <2>1, <1>1, <1>2, <1>4
      <3> QED BY <3>1, <1>1, ElementOfSeq DEF Strings
    <2>3. s = SubSeq(stream, a, b) BY <2>1
    <2>4. /\ s \in Seq(Bytes)
          /\ Len(s) = IF a <= b THEN b - a + 1 ELSE 0
          /\ \A i \in 1..(b - a + 1) : s[i] = stream[a + i - 1]
      <3> HIDE DEF s
      <3> QED BY <2>2, <2>3, SubSeqProperties
    <2>5. b - a + 1 = n /\ (~(a <= b) => n = 0) BY <2>1, <1>2
    <2>6. \A i \in 1..n : a + i - 1 = h + i BY <2>1, <1>2
    <2> HIDE DEF s
    <2> QED BY <2>4, <2>5, <2>6
  <1> HIDE DEF s
  <1>7. ASSUME n = Len(pay) PROVE s = pay
    <2>1. \A i \in 1..Len(s) : s[i] = pay[i]
      <3> SUFFICES ASSUME NEW i \in 1..Len(s) PROVE s[i] = pay[i]
        OBVIOUS
      <3>1. h + i \in 1..Len(stream) /\ i \in 1..n /\ i \in 1..Len(pay)
        BY <1>1, <1>2, <1>4, <1>6, <1>7
      <3> QED BY <3>1, <1>1, <1>2, <1>6
    <2> QED BY <2>1, <1>3, <1>6, <1>7, SeqEqual DEF Strings
  <1> QED BY <1>5, <1>6, <1>7 DEF s, h, pay, Strings

LEMMA MinOfTwo ==
  ASSUME NEW a \in Int, NEW b \in Int
  PROVE  Min({a, b}) = IF a <= b THEN a ELSE b
  BY DEF Min

-----------------------------------------------------------------------------
(* The invariant. *)

\* The read buffer and the position in the stream agree with the scanner, and
\* the payload read so far is what follows the header in the stream.
ReqInv ==
  /\ sent \in Requests /\ SentOf(sent)
  /\ pos \in 0..Len(stream) /\ rcvd \in Nat
  /\ phase \in {"header", "payload", "done", "cut", "431", "500", "crashed"}
  /\ parser.state \in States
  /\ parser.tmp \in 0..(BSIZE + 1) /\ parser.tmp2 \in 0..(BSIZE + 1)
  /\ parser.brk \in 0..(BSIZE + 1)
  /\ Len(payload) \in Nat /\ Len(payload) <= PayloadSize(parser)
  /\ rcvd <= BSIZE \/ rcvd <= Len(payload)
  /\ phase = "header" => /\ pos = rcvd /\ rcvd < BSIZE /\ payload = <<>>
                         /\ parser.brk = 0 /\ Place(sent, parser, rcvd)
  /\ phase = "payload" => /\ Ended(sent, parser) /\ HeaderEnd(sent) < BSIZE
                          /\ rcvd <= Len(payload) /\ Len(payload) < PayloadSize(parser)
                          /\ pos = HeaderEnd(sent) + Len(payload)
                          /\ payload = SubSeq(stream, HeaderEnd(sent) + 1, pos)
  /\ phase = "done" => \/ /\ parser.brk = 0 /\ Place(sent, parser, pos)
                          /\ pos = Len(stream) /\ pos < BSIZE /\ payload = <<>>
                       \/ /\ Ended(sent, parser) /\ HeaderEnd(sent) < BSIZE
                          /\ payload = sent.payload
  /\ phase = "cut" => Ended(sent, parser) /\ HeaderEnd(sent) < BSIZE
  /\ phase = "431" => pos = BSIZE
  /\ phase = "crashed" => /\ PayloadSize(parser) > 0 /\ pos < BSIZE
                          /\ parser.brk = 0 /\ Place(sent, parser, pos) /\ pos = Len(stream)

LEMMA PlaceTypes ==
  ASSUME NEW r, WellFormed(r), NEW p, NEW i \in Nat, i <= BSIZE, Place(r, p, i)
  PROVE  /\ p.state \in States
         /\ p.tmp \in 0..(BSIZE + 1) /\ p.tmp2 \in 0..(BSIZE + 1) /\ p.brk \in 0..(BSIZE + 1)
         /\ \/ p.brk = 0 /\ i < HeaderEnd(r)
            \/ i >= HeaderEnd(r) /\ Ended(r, p) /\ p.brk # 0
  <1>1. /\ p.tmp \in 0..(i + 1) /\ p.tmp2 \in 0..(i + 1)
        /\ \/ p.brk = 0 /\ i < HeaderEnd(r) /\ Amid(r, p, i)
           \/ i >= HeaderEnd(r) /\ Ended(r, p)
    BY DEF Place
  <1>2. BSIZE \in Nat \ {0} /\ HeaderEnd(r) \in Nat
    BY BsizeAssumption, EndMap
  <1>3. p.state \in States
    <2>1. Amid(r, p, i) => p.state \in States
      BY DEF Amid, States, AtStart, InCmd, InUrl, InVer, AtLine, InKey, AtVal, InVal
    <2>2. Ended(r, p) => p.state \in States
      BY DEF Ended, States
    <2> QED BY <1>1, <2>1, <2>2
  <1>4. Ended(r, p) => p.brk = HeaderEnd(r) + 1
    BY DEF Ended
  <1>5. p.tmp \in 0..(BSIZE + 1) /\ p.tmp2 \in 0..(BSIZE + 1)
    BY <1>1, <1>2
  <1>6. p.brk \in 0..(BSIZE + 1)
    BY <1>1, <1>2, <1>4
  <1> QED BY <1>1, <1>2, <1>3, <1>4, <1>5, <1>6

LEMMA Lengths ==
  ASSUME ReqInv
  PROVE  /\ WellFormed(sent) /\ SentOf(sent)
         /\ stream \in Strings /\ Len(stream) \in Nat
         /\ BSIZE \in Nat \ {0} /\ HeaderEnd(sent) \in Nat
         /\ pos \in Nat /\ pos <= Len(stream) /\ rcvd \in Nat
  <1>1. sent \in Requests /\ SentOf(sent) /\ pos \in 0..Len(stream) /\ rcvd \in Nat
    BY DEF ReqInv
  <1>2. WellFormed(sent) BY <1>1, RequestsAssumption
  <1>3. stream \in Strings /\ Len(stream) \in Nat
    BY <1>1, LenProperties DEF SentOf, Strings
  <1> QED BY <1>1, <1>2, <1>3, BsizeAssumption, EndMap

LEMMA InitInv == Init => ReqInv
  <1> SUFFICES ASSUME Init PROVE ReqInv
    OBVIOUS
  <1>1. /\ sent \in Requests /\ pos = 0 /\ rcvd = 0 /\ phase = "header" /\ payload = <<>>
        /\ parser = [state |-> "NONE", tmp |-> 0, tmp2 |-> 0, brk |-> 0, key |-> <<>>,
                     cmd |-> <<>>, url |-> <<>>, ver |-> <<>>, params |-> {}]
    BY DEF Init
  <1>2. PICK n \in 0..Len(Render(sent)) : stream = SubSeq(Render(sent), 1, n)
    BY DEF Init
  <1>3. WellFormed(sent) BY <1>1, RequestsAssumption
  <1> DEFINE R == Render(sent)
             h == HeaderEnd(sent)
  <1>4. /\ R \in Strings /\ Len(R) \in Nat /\ h \in Nat
        /\ EndOf(sent, Len(sent.params)) < h /\ h <= Len(R)
    BY <1>3, EndMap
  <1>5. EndOf(sent, 0) < h /\ EndOf(sent, 0) \in Nat
    BY <1>3, FirstWithin
  <1> HIDE DEF R, h
  <1>6. stream \in Strings /\ Len(stream) = n /\ \A i \in 1..n : stream[i] = R[i]
    <2>0. n \in Int /\ 1 \in Int /\ n <= Len(R) /\ n >= 0 BY <1>4 DEF R
    <2>1. \A i \in 1..n : R[i] \in Bytes
      <3>1. \A i \in 1..n : i \in 1..Len(R) BY <1>4, <2>0
      <3> QED BY <3>1, <1>4, ElementOfSeq DEF Strings
    <2>2. stream = SubSeq(R, 1, n) BY <1>2 DEF R
    <2>3. /\ stream \in Seq(Bytes)
          /\ Len(stream) = IF 1 <= n THEN n - 1 + 1 ELSE 0
          /\ \A i \in 1..(n - 1 + 1) : stream[i] = R[1 + i - 1]
      BY <2>0, <2>1, <2>2, SubSeqProperties
    <2>4. n - 1 + 1 = n /\ (~(1 <= n) => n = 0) BY <2>0
    <2>5. \A i \in 1..n : 1 + i - 1 = i OBVIOUS
    <2> QED BY <2>3, <2>4, <2>5 DEF Strings
  <1>7. SentOf(sent)
    <2>1. Len(stream) <= Len(R) BY <1>6 DEF R
    <2> QED BY <1>6, <2>1 DEF SentOf, R
  <1>8. Place(sent, parser, 0)
    <2>1. AtStart(sent, parser, 0) BY <1>1 DEF AtStart, Has
    <2>2. IsParser(parser) BY <1>1 DEF IsParser
    <2>3. parser.tmp \in 0..(0 + 1) /\ parser.tmp2 \in 0..(0 + 1) /\ parser.brk = 0
      BY <1>1
    <2>4. 0 < HeaderEnd(sent)
      <3>1. 0 < h BY <1>4, <1>5
      <3> QED BY <3>1 DEF h
    <2> QED BY <2>1, <2>2, <2>3, <2>4 DEF Place, Amid
  <1>9. Len(payload) = 0 /\ PayloadSize(parser) \in Nat
    BY <1>1, SizeIsNat
  <1>10. BSIZE \in Nat \ {0} BY BsizeAssumption
  <1>11. /\ parser.state \in States /\ parser.tmp = 0 /\ parser.tmp2 = 0 /\ parser.brk = 0
    BY <1>1 DEF States
  <1>12. pos \in 0..Len(stream) BY <1>1, <1>6
  <1> QED BY <1>1, <1>7, <1>8, <1>9, <1>10, <1>11, <1>12 DEF ReqInv

LEMMA ReadHeaderInv == ReqInv /\ ReadHeader => ReqInv'
  <1> SUFFICES ASSUME ReqInv, ReadHeader PROVE ReqInv'
    OBVIOUS
  <1> DEFINE h == HeaderEnd(sent)
  <1>1. /\ WellFormed(sent) /\ SentOf(sent)
        /\ Len(stream) \in Nat /\ BSIZE \in Nat \ {0} /\ h \in Nat
        /\ pos \in Nat /\ pos <= Len(stream) /\ rcvd \in Nat
    BY Lengths
  <1>2. phase = "header" /\ sent' = sent /\ stream' = stream
    BY DEF ReadHeader
  <1>3. pos = rcvd /\ rcvd < BSIZE /\ payload = <<>> /\ Place(sent, parser, rcvd)
    BY <1>2 DEF ReqInv
  <1>4. PICK k \in 1..Min({Room, Len(stream) - pos}) :
          LET p == ScanChunk(k)
              rem == Rest(p, rcvd + k)
          IN /\ parser' = p
             /\ pos' = pos + k
             /\ \/ /\ Full(rcvd + k)
                   /\ phase' = "431" /\ rcvd' = rcvd + k
                   /\ UNCHANGED payload
                \/ /\ ~Full(rcvd + k) /\ p.brk = 0
                   /\ rcvd' = rcvd + k
                   /\ UNCHANGED <<phase, payload>>
                \/ /\ ~Full(rcvd + k) /\ p.brk # 0
                   /\ rcvd' = 0
                   /\ payload' = SubSeq(stream, p.brk, p.brk + rem - 1)
                   /\ phase' = IF rem < PayloadSize(p) THEN "payload" ELSE "done"
    BY DEF ReadHeader
  <1> DEFINE p == ScanChunk(k)
             n == rcvd + k
             rem == Rest(p, n)
  <1>5. k \in Nat /\ k >= 1 /\ n \in Nat /\ n <= BSIZE /\ n <= Len(stream) /\ pos' = n
    <2>1. Room = BSIZE - rcvd BY DEF Room
    <2>2. Room \in Int /\ Len(stream) - pos \in Int BY <1>1, <2>1
    <2>3. Min({Room, Len(stream) - pos}) =
            IF Room <= Len(stream) - pos THEN Room ELSE Len(stream) - pos
      BY <2>2, MinOfTwo
    <2>4. k >= 1 /\ k <= Room /\ k <= Len(stream) - pos /\ k \in Nat
      BY <2>2, <2>3
    <2>5. pos' = pos + k BY <1>4
    <2> QED BY <1>1, <1>3, <2>1, <2>4, <2>5
  <1>6. Place(sent, p, n)
    BY <1>1, <1>3, <1>5, ScanAll
  <1>7. parser' = p
    BY <1>4
  <1>8. \/ /\ n = BSIZE /\ phase' = "431" /\ rcvd' = n /\ payload' = payload
        \/ /\ n # BSIZE /\ p.brk = 0 /\ rcvd' = n /\ phase' = phase /\ payload' = payload
        \/ /\ n # BSIZE /\ p.brk # 0 /\ rcvd' = 0
           /\ payload' = SubSeq(stream, p.brk, p.brk + rem - 1)
           /\ phase' = IF rem < PayloadSize(p) THEN "payload" ELSE "done"
    <2> HIDE DEF p, rem
    <2> QED BY <1>4 DEF Full, p, rem
  <1> HIDE DEF p, n, rem, h
  <1>9. /\ p.state \in States
        /\ p.tmp \in 0..(BSIZE + 1) /\ p.tmp2 \in 0..(BSIZE + 1) /\ p.brk \in 0..(BSIZE + 1)
        /\ \/ p.brk = 0 /\ n < h
           \/ n >= h /\ Ended(sent, p) /\ p.brk # 0
    BY <1>1, <1>5, <1>6, PlaceTypes DEF h
  <1>10. PayloadSize(p) \in Nat /\ Len(<<>>) = 0
    BY SizeIsNat
  <1>11. SentOf(sent)'
    BY <1>1, <1>2 DEF SentOf
  <1>12. sent' \in Requests /\ pos' \in 0..Len(stream')
    <2>1. sent \in Requests BY DEF ReqInv
    <2> QED BY <2>1, <1>1, <1>2, <1>5
  <1>13. CASE n = BSIZE /\ phase' = "431" /\ rcvd' = n /\ payload' = payload
    <2>1. payload' = <<>> /\ rcvd' \in Nat /\ rcvd' <= BSIZE /\ pos' = BSIZE
      BY <1>3, <1>5, <1>13
    <2> QED BY <2>1, <1>7, <1>9, <1>10, <1>11, <1>12, <1>13 DEF ReqInv
  <1>14. CASE n # BSIZE /\ p.brk = 0 /\ rcvd' = n /\ phase' = phase /\ payload' = payload
    <2>1. /\ payload' = <<>> /\ rcvd' \in Nat /\ rcvd' <= BSIZE /\ rcvd' < BSIZE /\ pos' = rcvd'
          /\ phase' = "header"
      BY <1>1, <1>2, <1>3, <1>5, <1>14
    <2>2. Place(sent', parser', rcvd')
      BY <1>2, <1>6, <1>7, <1>14
    <2> QED BY <2>1, <2>2, <1>7, <1>9, <1>10, <1>11, <1>12, <1>14 DEF ReqInv
  <1>15. CASE /\ n # BSIZE /\ p.brk # 0 /\ rcvd' = 0
              /\ payload' = SubSeq(stream, p.brk, p.brk + rem - 1)
              /\ phase' = IF rem < PayloadSize(p) THEN "payload" ELSE "done"
    <2> DEFINE size == PayloadSize(p)
    <2>1. n >= h /\ Ended(sent, p) BY <1>9, <1>15
    <2>2. p.brk = h + 1 BY <2>1 DEF Ended, h
    <2>3. size = Len(sent.payload) BY <1>1, <2>1, EndedSize
    <2>4. rem = IF size <= n - h THEN size ELSE n - h
      <3>1. rem = Min({size, n - (p.brk - 1)}) BY DEF rem, Rest
      <3>2. p.brk - 1 = h BY <2>2, <1>1
      <3>3. size \in Int /\ n - h \in Int BY <1>1, <1>5, <1>10
      <3> QED BY <3>1, <3>2, <3>3, MinOfTwo
    <2> HIDE DEF size
    <2>5. size \in Nat BY <1>10 DEF size
    <2>6. rem \in Nat /\ rem <= size /\ h + rem <= n /\ h + rem <= Len(stream)
      BY <1>1, <1>5, <2>1, <2>4, <2>5
    <2>7. payload' = SubSeq(stream, h + 1, h + rem)
      <3>1. p.brk + rem - 1 = h + rem BY <2>2, <2>6, <1>1
      <3> QED BY <3>1, <2>2, <1>15
    <2>8. Len(payload') = rem /\ (rem = size => payload' = sent.payload)
      BY <2>3, <2>6, <2>7, <1>1, PayloadPart DEF h
    <2>9. h < BSIZE BY <1>1, <1>5, <1>15, <2>1
    <2>10. Ended(sent', parser') /\ HeaderEnd(sent') < BSIZE
      BY <2>1, <2>9, <1>2, <1>7 DEF h
    <2>11. PayloadSize(parser') = size BY <1>7 DEF size
    <2>12. CASE rem < size
      <3>1. phase' = "payload" BY <2>12, <1>15 DEF size
      <3>2. rem = n - h /\ h + rem = n BY <2>4, <2>5, <2>12, <1>1, <1>5
      <3>3. pos' = HeaderEnd(sent') + Len(payload')
        BY <3>2, <2>8, <1>2, <1>5 DEF h
      <3>4. payload' = SubSeq(stream', HeaderEnd(sent') + 1, pos')
        BY <3>2, <2>7, <1>2, <1>5 DEF h
      <3>5. /\ rcvd' \in Nat /\ rcvd' <= BSIZE /\ rcvd' <= Len(payload')
            /\ Len(payload') \in Nat /\ Len(payload') < PayloadSize(parser')
            /\ Len(payload') <= PayloadSize(parser')
        BY <2>5, <2>6, <2>8, <2>11, <2>12, <1>1, <1>15
      <3> QED BY <3>1, <3>3, <3>4, <3>5, <2>10, <1>7, <1>9, <1>11, <1>12 DEF ReqInv
    <2>13. CASE ~(rem < size)
      <3>1. phase' = "done" BY <2>13, <1>15 DEF size
      <3>2. rem = size BY <2>5, <2>6, <2>13
      <3>3. payload' = sent'.payload BY <3>2, <2>8, <1>2
      <3>4. /\ rcvd' \in Nat /\ rcvd' <= BSIZE
            /\ Len(payload') \in Nat /\ Len(payload') <= PayloadSize(parser')
        BY <2>5, <2>6, <2>8, <2>11, <1>1, <1>15
      <3> QED BY <3>1, <3>3, <3>4, <2>10, <1>7, <1>9, <1>11, <1>12 DEF ReqInv
    <2> QED BY <2>12, <2>13
  <1> QED BY <1>8, <1>13, <1>14, <1>15

\* A step that leaves the stream and the parser alone keeps what is said of them.
LEMMA Same ==
  ASSUME ReqInv, sent' = sent, stream' = stream, parser' = parser
  PROVE  /\ sent' \in Requests /\ SentOf(sent)'
         /\ parser'.state \in States
         /\ parser'.tmp \in 0..(BSIZE + 1) /\ parser'.tmp2 \in 0..(BSIZE + 1)
         /\ parser'.brk \in 0..(BSIZE + 1)
         /\ PayloadSize(parser') = PayloadSize(parser) /\ PayloadSize(parser) \in Nat
  BY SizeIsNat DEF ReqInv, SentOf

LEMMA ReadPayloadInv == ReqInv /\ ReadPayload => ReqInv'
  <1> SUFFICES ASSUME ReqInv, ReadPayload PROVE ReqInv'
    OBVIOUS
  <1> DEFINE h == HeaderEnd(sent)
             size == PayloadSize(parser)
  <1>1. /\ WellFormed(sent) /\ SentOf(sent)
        /\ Len(stream) \in Nat /\ BSIZE \in Nat \ {0} /\ h \in Nat
        /\ pos \in Nat /\ pos <= Len(stream) /\ rcvd \in Nat
    BY Lengths
  <1>2. phase = "payload" /\ sent' = sent /\ stream' = stream /\ parser' = parser
    BY DEF ReadPayload
  <1>3. /\ Ended(sent, parser) /\ h < BSIZE
        /\ rcvd <= Len(payload) /\ Len(payload) < size /\ Len(payload) \in Nat
        /\ pos = h + Len(payload) /\ payload = SubSeq(stream, h + 1, pos)
    BY <1>2 DEF ReqInv
  <1>4. PICK k \in 1..(Len(stream) - pos) :
          /\ payload' = payload \o SubSeq(stream, pos + 1, pos + k)
          /\ rcvd' = rcvd + k
          /\ pos' = pos + k
          /\ phase' = IF PayloadWhole(rcvd + k, Len(payload) + k) THEN "done" ELSE phase
    BY DEF ReadPayload
  <1>5. k \in Nat /\ k >= 1 /\ pos + k <= Len(stream)
    BY <1>1
  <1>6. size = Len(sent.payload) /\ size \in Nat
    BY <1>1, <1>3, EndedSize, SizeIsNat
  <1>7. phase' = IF Len(payload) + k = size THEN "done" ELSE "payload"
    BY <1>2, <1>4 DEF PayloadWhole
  <1> DEFINE m == Len(payload) + k
             new == SubSeq(stream, h + 1, h + m)
  <1>8. m \in Nat /\ pos' = h + m /\ h + m <= Len(stream)
    <2> HIDE DEF h
    <2> QED BY <1>1, <1>3, <1>4, <1>5
  <1>9. new \in Strings /\ Len(new) = m /\ m <= size /\ (m = size => new = sent.payload)
    <2> HIDE DEF m
    <2> QED BY <1>1, <1>6, <1>8, PayloadPart
  <1>10. payload' = new
    <2> DEFINE a == h + 1
    <2>0. /\ a \in Nat \ {0} /\ pos + k \in Nat /\ a <= pos + 1 /\ pos + k = h + m
      <3>1. PICK l \in Nat : l = Len(payload) /\ pos = h + l BY <1>3
      <3>2. m = l + k BY <3>1
      <3> HIDE DEF m, h
      <3> QED BY <3>1, <3>2, <1>1, <1>5
    <2>1. /\ payload = SubSeq(stream, a, pos) /\ a \in Nat \ {0}
          /\ pos + k \in Nat /\ a <= pos + 1 /\ pos + k = h + m
      BY <1>3, <2>0
    <2> HIDE DEF a
    <2>2. SubSeq(stream, a, pos) \o SubSeq(stream, pos + 1, pos + k) = SubSeq(stream, a, pos + k)
      <3>1. stream \in Seq(Bytes) BY Lengths DEF Strings
      <3>2. PICK l \in Nat : l = pos + k BY <2>1
      <3>3. a \in 1..(pos + 1) /\ pos \in (a - 1)..l /\ l <= Len(stream)
        BY <1>1, <1>5, <2>1, <3>2
      <3>4. SubSeq(stream, a, pos) \o SubSeq(stream, pos + 1, l) = SubSeq(stream, a, l)
        BY <3>1, <3>2, <3>3, <1>1, <1>5, <2>1, ConcatAdjacentSubSeq
      <3> QED BY <3>2, <3>4
    <2>3. payload' = SubSeq(stream, a, pos + k) BY <2>1, <2>2, <1>4
    <2> QED BY <2>1, <2>3 DEF a
  <1> HIDE DEF h, size, m, new
  <1>11. /\ Len(payload') = m /\ m \in Nat /\ m <= size
         /\ rcvd' \in Nat /\ rcvd' <= Len(payload')
    BY <1>1, <1>3, <1>4, <1>5, <1>8, <1>9, <1>10 DEF m
  <1>12. /\ sent' \in Requests /\ SentOf(sent)'
         /\ parser'.state \in States
         /\ parser'.tmp \in 0..(BSIZE + 1) /\ parser'.tmp2 \in 0..(BSIZE + 1)
         /\ parser'.brk \in 0..(BSIZE + 1)
         /\ PayloadSize(parser') = size
    BY <1>2, Same DEF size
  <1>13. pos' \in 0..Len(stream')
    BY <1>1, <1>2, <1>4, <1>5
  <1>14. Ended(sent', parser') /\ HeaderEnd(sent') < BSIZE
    BY <1>2, <1>3 DEF h
  <1>15. CASE m = size
    <2>1. phase' = "done" BY <1>7, <1>15 DEF m
    <2>2. payload' = sent'.payload BY <1>2, <1>9, <1>10, <1>15
    <2> QED BY <2>1, <2>2, <1>11, <1>12, <1>13, <1>14 DEF ReqInv
  <1>16. CASE m # size
    <2>1. phase' = "payload" BY <1>7, <1>16 DEF m
    <2>2. Len(payload') < PayloadSize(parser') BY <1>6, <1>11, <1>12, <1>16
    <2>3. pos' = HeaderEnd(sent') + Len(payload') BY <1>2, <1>8, <1>11 DEF h
    <2>4. payload' = SubSeq(stream', HeaderEnd(sent') + 1, pos')
      BY <1>2, <1>8, <1>10 DEF new, h
    <2> QED BY <2>1, <2>2, <2>3, <2>4, <1>11, <1>12, <1>13, <1>14 DEF ReqInv
  <1> QED BY <1>15, <1>16

\* The actions that end getReq without another byte.
LEMMA EndsInv ==
  ReqInv /\ (HeaderEnds \/ HeaderFails \/ PayloadEnds \/ PayloadFails) => ReqInv'
  <1> SUFFICES ASSUME ReqInv, HeaderEnds \/ HeaderFails \/ PayloadEnds \/ PayloadFails
               PROVE  ReqInv'
    OBVIOUS
  <1>1. sent' = sent /\ stream' = stream /\ parser' = parser /\ pos' = pos /\ rcvd' = rcvd
    BY DEF HeaderEnds, HeaderFails, PayloadEnds, PayloadFails
  <1>2. /\ sent' \in Requests /\ SentOf(sent)'
        /\ parser'.state \in States
        /\ parser'.tmp \in 0..(BSIZE + 1) /\ parser'.tmp2 \in 0..(BSIZE + 1)
        /\ parser'.brk \in 0..(BSIZE + 1)
        /\ PayloadSize(parser') = PayloadSize(parser) /\ PayloadSize(parser) \in Nat
    BY <1>1, Same
  <1>3. pos' \in 0..Len(stream') /\ rcvd' \in Nat
    BY <1>1 DEF ReqInv
  <1>4. Len(payload) \in Nat /\ Len(payload) <= PayloadSize(parser)
    BY DEF ReqInv
  <1>5. CASE HeaderEnds
    <2>1. /\ phase = "header" /\ pos = Len(stream) /\ payload' = payload
          /\ phase' = IF PayloadSize(parser) > 0 THEN "crashed" ELSE "done"
      BY <1>5 DEF HeaderEnds
    <2>2. pos = rcvd /\ rcvd < BSIZE /\ payload = <<>> /\ parser.brk = 0 /\ Place(sent, parser, rcvd)
      BY <2>1 DEF ReqInv
    <2>3. Place(sent', parser', pos') BY <1>1, <2>2
    <2>4. parser'.brk = 0 /\ pos' = Len(stream') /\ pos' < BSIZE /\ payload' = <<>>
      BY <1>1, <2>1, <2>2
    <2>5. rcvd' <= BSIZE \/ rcvd' <= Len(payload')
      BY <1>1, <2>1 DEF ReqInv
    <2>6. Len(payload') \in Nat /\ Len(payload') <= PayloadSize(parser')
      BY <1>2, <1>4, <2>1
    <2>7. CASE PayloadSize(parser) > 0
      <3>1. phase' = "crashed" /\ PayloadSize(parser') > 0 BY <1>2, <2>1, <2>7
      <3> QED BY <1>2, <1>3, <2>3, <2>4, <2>5, <2>6, <3>1 DEF ReqInv
    <2>8. CASE ~(PayloadSize(parser) > 0)
      <3>1. phase' = "done" BY <2>1, <2>8
      <3> QED BY <1>2, <1>3, <2>3, <2>4, <2>5, <2>6, <3>1 DEF ReqInv
    <2> QED BY <2>7, <2>8
  <1>6. CASE HeaderFails
    <2>1. phase' = "500" /\ payload' = payload
      BY <1>6 DEF HeaderFails
    <2>2. rcvd' <= BSIZE \/ rcvd' <= Len(payload')
      BY <1>1, <2>1 DEF ReqInv
    <2>3. Len(payload') \in Nat /\ Len(payload') <= PayloadSize(parser')
      BY <1>2, <1>4, <2>1
    <2> QED BY <1>2, <1>3, <2>1, <2>2, <2>3 DEF ReqInv
  <1>7. CASE PayloadEnds \/ PayloadFails
    <2>1. phase = "payload" /\ phase' = "cut"
      BY <1>7 DEF PayloadEnds, PayloadFails
    <2>2. /\ Ended(sent, parser) /\ HeaderEnd(sent) < BSIZE
          /\ rcvd <= Len(payload) /\ Len(payload) < PayloadSize(parser) /\ rcvd \in Nat
          /\ payload = SubSeq(stream, HeaderEnd(sent) + 1, pos) /\ pos = HeaderEnd(sent) + Len(payload)
      BY <2>1 DEF ReqInv
    <2>3. Ended(sent', parser') /\ HeaderEnd(sent') < BSIZE
      BY <1>1, <2>2
    <2> DEFINE All == Bytes \cup {"?"}
    <2>4. payload \in Seq(All)
      <3>1. WellFormed(sent) /\ SentOf(sent) /\ HeaderEnd(sent) \in Nat /\ pos <= Len(stream)
        BY Lengths
      <3>2. payload \in Strings BY <1>4, <2>2, <3>1, PayloadPart
      <3> QED BY <3>2, SeqMonotonic DEF Strings
    <2>5. ASSUME NEW n \in Nat
          PROVE  payload \o Junk(n) \in Seq(All) /\ Len(payload \o Junk(n)) = Len(payload) + n
      <3>1. Junk(n) \in Seq(All) /\ Len(Junk(n)) = n
        <4>1. \A j \in 1..n : "?" \in All OBVIOUS
        <4> QED BY <4>1, IsASeq DEF Junk
      <3> QED BY <2>4, <3>1, ConcatProperties
    <2> HIDE DEF All
    <2> DEFINE L == Len(payload)
               size == PayloadSize(parser)
    <2>a. L \in Nat /\ size \in Nat /\ rcvd \in Nat /\ rcvd <= L /\ L < size
      BY <1>2, <1>4, <2>2
    <2>b. ASSUME NEW n \in Nat
          PROVE  payload \o Junk(n) \in Seq(All) /\ Len(payload \o Junk(n)) = L + n
      BY <2>5
    <2> HIDE DEF L, size
    <2>6. Len(payload') \in Nat /\ Len(payload') <= size /\ rcvd <= Len(payload')
      <3>1. CASE PayloadEnds
        <4>1. PICK n \in 0..(size - L) : payload' = payload \o Junk(n)
          BY <3>1 DEF PayloadEnds, size, L
        <4>2. n \in Nat /\ L + n <= size BY <2>a
        <4>3. Len(payload') = L + n BY <2>b, <4>1, <4>2
        <4> QED BY <2>a, <4>2, <4>3
      <3>2. CASE PayloadFails
        <4>1. PICK n \in 0..1 :
                payload' = SubSeq(payload \o Junk(n), 1, Min({rcvd + 1, L + n}))
          BY <3>2 DEF PayloadFails, L
        <4> DEFINE t == payload \o Junk(n)
                   l == Min({rcvd + 1, L + n})
        <4>2. n \in Nat /\ n <= 1 OBVIOUS
        <4>3. t \in Seq(All) /\ Len(t) = L + n BY <2>b, <4>2
        <4>4. l = IF rcvd + 1 <= L + n THEN rcvd + 1 ELSE L + n
          <5>1. rcvd + 1 \in Int /\ L + n \in Int BY <2>a, <4>2
          <5> QED BY <5>1, MinOfTwo
        <4>5. payload' = SubSeq(t, 1, l) BY <4>1
        <4> HIDE DEF t, l
        <4>6. l \in Nat /\ l <= L + 1 /\ rcvd <= l /\ l <= L + n
          BY <2>a, <4>2, <4>4
        <4>7. Len(payload') = l
          <5>1. \A i \in 1..l : t[i] \in All
            <6>1. \A i \in 1..l : i \in 1..Len(t) BY <2>a, <4>2, <4>3, <4>6
            <6> QED BY <6>1, <4>3, ElementOfSeq
          <5>2. l \in Int /\ 1 \in Int BY <4>6
          <5>3. Len(payload') = IF 1 <= l THEN l - 1 + 1 ELSE 0
            BY <4>5, <5>1, <5>2, SubSeqProperties
          <5> QED BY <4>6, <5>3
        <4> QED BY <2>a, <4>6, <4>7
      <3> QED BY <1>7, <3>1, <3>2
    <2>7. rcvd' <= Len(payload') BY <1>1, <2>6
    <2>8. Len(payload') <= PayloadSize(parser') BY <1>2, <2>6 DEF size
    <2> QED BY <1>2, <1>3, <2>1, <2>3, <2>6, <2>7, <2>8 DEF ReqInv
  <1> QED BY <1>5, <1>6, <1>7

THEOREM Invariant == Spec => []ReqInv
  <1>1. ReqInv /\ [Next]_vars => ReqInv'
    <2> SUFFICES ASSUME ReqInv, [Next]_vars PROVE ReqInv'
      OBVIOUS
    <2>1. CASE Next
      BY <2>1, ReadHeaderInv, ReadPayloadInv, EndsInv DEF Next
    <2>2. CASE UNCHANGED vars
      BY <2>2 DEF vars, ReqInv, SentOf
    <2> QED BY <2>1, <2>2
  <1> QED BY <1>1, InitInv, PTL DEF Spec

-----------------------------------------------------------------------------
(* What follows from it. *)

\* A field is whole or empty wherever the scanner is.
LEMMA WholeFields ==
  ASSUME NEW r, WellFormed(r), NEW p, NEW i, Place(r, p, i) \/ Ended(r, p)
  PROVE  /\ p.cmd \in {<<>>, r.cmd} /\ p.url \in {<<>>, r.url} /\ p.ver \in {<<>>, r.ver}
         /\ \A kv \in p.params : \E x \in 1..Len(r.params) : Meant(r)[x] = kv
  <1> DEFINE m == Len(r.params)
             Fine(ps) == \A kv \in ps : \E x \in 1..m : Meant(r)[x] = kv
  <1>1. m \in Nat BY Fields
  <1>2. ASSUME NEW j \in 0..m PROVE Fine(LastOf(Meant(r), j))
    <2>1. j \in Nat /\ j <= m BY <1>1
    <2> QED BY <2>1, <1>1, LastAreSome, ZenonT(60)
  <1>3. Fine({}) OBVIOUS
  <1>4. Fine(LastValues(Meant(r)))
    <2>1. m \in 0..m /\ m = Len(Meant(r)) BY <1>1, MeantFields
    <2> QED BY <2>1, <1>2 DEF LastValues
  <1>5. ASSUME NEW j \in 1..m PROVE Fine(LastOf(Meant(r), j - 1))
    <2>1. j - 1 \in 0..m BY <1>1
    <2> QED BY <2>1, <1>2
  <1> HIDE DEF Fine
  <1> DEFINE Good == /\ p.cmd \in {<<>>, r.cmd} /\ p.url \in {<<>>, r.url}
                     /\ p.ver \in {<<>>, r.ver} /\ Fine(p.params)
  <1>6. ASSUME Has(p, r.cmd, r.url, r.ver, p.params), Fine(p.params)
        PROVE  Good
    BY <1>6 DEF Has
  <1>7. ASSUME Ended(r, p) PROVE Good
    <2>1. Has(p, r.cmd, r.url, r.ver, LastValues(Meant(r))) BY <1>7 DEF Ended
    <2> QED BY <2>1, <1>4, <1>6 DEF Has
  <1>8. ASSUME Amid(r, p, i) PROVE Good
    <2>1. CASE AtStart(r, p, i) BY <2>1, <1>3 DEF AtStart, Has
    <2>2. CASE InCmd(r, p, i) BY <2>2, <1>3 DEF InCmd, Has
    <2>3. CASE InUrl(r, p, i) BY <2>3, <1>3 DEF InUrl, Has
    <2>4. CASE InVer(r, p, i) BY <2>4, <1>3 DEF InVer, Has
    <2> HIDE DEF Good
    <2>5. ASSUME NEW j \in 0..m, AtLine(r, p, i, j) PROVE Good
      <3>1. Has(p, r.cmd, r.url, r.ver, LastOf(Meant(r), j)) BY <2>5 DEF AtLine
      <3>2. Fine(LastOf(Meant(r), j)) BY <1>2
      <3> QED BY <3>1, <3>2, <1>6 DEF Has
    <2>6. ASSUME NEW j \in 1..m, InKey(r, p, i, j) \/ AtVal(r, p, i, j) \/ InVal(r, p, i, j)
          PROVE  Good
      <3>1. Has(p, r.cmd, r.url, r.ver, LastOf(Meant(r), j - 1))
        BY <2>6 DEF InKey, AtVal, InVal
      <3>2. Fine(LastOf(Meant(r), j - 1)) BY <1>5
      <3> QED BY <3>1, <3>2, <1>6 DEF Has
    <2> QED BY <1>8, <2>1, <2>2, <2>3, <2>4, <2>5, <2>6 DEF Amid
  <1>9. Good
    <2>1. Amid(r, p, i) \/ Ended(r, p) BY DEF Place
    <2> HIDE DEF Good
    <2> QED BY <2>1, <1>7, <1>8
  <1> QED BY <1>9 DEF Good, Fine

LEMMA InvParser == ReqInv => ParserInv
  <1> SUFFICES ASSUME ReqInv PROVE ParserInv
    OBVIOUS
  <1>1. TypeOK
    BY DEF ReqInv, TypeOK
  <1>2. ASSUME phase = "done", stream = Render(sent)
        PROVE  /\ parser.cmd = sent.cmd /\ parser.url = sent.url /\ parser.ver = sent.ver
               /\ parser.params = LastValues(Meant(sent))
               /\ payload = sent.payload
    <2> DEFINE h == HeaderEnd(sent)
    <2>1. /\ WellFormed(sent) /\ Len(stream) \in Nat /\ h \in Nat /\ BSIZE \in Nat \ {0} /\ pos \in Nat
      BY Lengths
    <2>2. h <= Len(stream) BY <1>2, <2>1, EndMap
    <2>3. ~(parser.brk = 0 /\ Place(sent, parser, pos) /\ pos = Len(stream) /\ pos < BSIZE)
      <3> SUFFICES ASSUME parser.brk = 0, Place(sent, parser, pos), pos = Len(stream), pos < BSIZE
                   PROVE  FALSE
        OBVIOUS
      <3>1. pos < h
        <4>1. pos <= BSIZE BY <2>1
        <4> QED BY <4>1, <2>1, PlaceTypes
      <3> HIDE DEF h
      <3> QED BY <3>1, <2>1, <2>2
    <2>4. Ended(sent, parser) /\ payload = sent.payload
      BY <1>2, <2>3 DEF ReqInv
    <2> QED BY <2>4 DEF Ended, Has
  <1> QED BY <1>1, <1>2 DEF ParserInv, ParsedAsSent

LEMMA InvWhole == ReqInv => OnlyWholeFields
  <1> SUFFICES ASSUME ReqInv, phase \in {"done", "cut"}
               PROVE  /\ parser.cmd \in {<<>>, sent.cmd}
                      /\ parser.url \in {<<>>, sent.url}
                      /\ parser.ver \in {<<>>, sent.ver}
                      /\ \A kv \in parser.params : \E i \in 1..Len(sent.params) : Meant(sent)[i] = kv
    BY DEF OnlyWholeFields
  <1>1. WellFormed(sent) BY Lengths
  <1>2. Place(sent, parser, pos) \/ Ended(sent, parser)
    BY DEF ReqInv
  <1> QED BY ONLY <1>1, <1>2, WholeFields, ZenonT(60)

LEMMA InvRefused == ReqInv => RefusedBySize
  <1> SUFFICES ASSUME ReqInv PROVE RefusedBySize
    OBVIOUS
  <1> DEFINE h == HeaderEnd(sent)
  <1>1. /\ WellFormed(sent) /\ Len(stream) \in Nat /\ h \in Nat /\ BSIZE \in Nat \ {0}
        /\ pos \in Nat /\ pos <= Len(stream)
    BY Lengths
  <1>2. HeaderLen(sent) = h /\ h <= Len(Render(sent))
    BY <1>1, EndMap
  <1>3. phase = "431" => Len(stream) >= BSIZE
    BY <1>1 DEF ReqInv
  <1>4. ASSUME phase \in {"payload", "done", "cut"}, stream = Render(sent)
        PROVE  h < BSIZE
    <2>1. h < BSIZE \/ (pos = Len(stream) /\ pos < BSIZE)
      BY <1>4 DEF ReqInv
    <2>2. h <= Len(stream) BY <1>2, <1>4
    <2> HIDE DEF h
    <2> QED BY <2>1, <2>2, <1>1
  <1> QED BY <1>2, <1>3, <1>4 DEF RefusedBySize

\* No other request than a POST whose client hangs up before the end of its
\* header ends the process: once the header is whole, the scanner has ended it.
LEMMA InvCrash == ReqInv => OnlyCutPostsCrash
  <1> SUFFICES ASSUME ReqInv, phase = "crashed"
               PROVE  sent.cmd = POST /\ Len(stream) < HeaderLen(sent)
    BY DEF OnlyCutPostsCrash
  <1>1. /\ WellFormed(sent) /\ HeaderEnd(sent) \in Nat /\ BSIZE \in Nat \ {0}
        /\ pos \in Nat /\ pos <= Len(stream)
    BY Lengths
  <1>2. /\ PayloadSize(parser) > 0 /\ pos < BSIZE /\ parser.brk = 0
        /\ Place(sent, parser, pos) /\ pos = Len(stream)
    BY DEF ReqInv
  <1>3. pos < HeaderEnd(sent)
    <2>1. pos <= BSIZE BY <1>1, <1>2
    <2> QED BY <2>1, <1>1, <1>2, PlaceTypes
  <1>4. HeaderLen(sent) = HeaderEnd(sent)
    BY <1>1, EndMap
  <1>5. parser.cmd = POST
    BY <1>2, SizeIsNat DEF PayloadSize
  <1>6. parser.cmd \in {<<>>, sent.cmd}
    BY <1>1, <1>2, WholeFields
  <1>7. POST # <<>>
    <2>1. Len(POST) = 1 /\ Len(<<>>) = 0 BY DEF POST
    <2> QED BY <2>1
  <1> QED BY <1>2, <1>3, <1>4, <1>5, <1>6, <1>7

\* getReq holds consistent state at every point, and however TCP cuts the
\* stream, a request that was sent whole comes out as it was sent, a carriage
\* return within a value being a blank (HttpServer::getReq).
THEOREM RequestsParsed == Spec => []ParserInv
  BY Invariant, InvParser, PTL

\* A request cut short by a hang-up or a reset is never taken for another one:
\* every field the handler sees is whole or empty.  The process ends only if the
\* client of a POST hangs up amid the header (HttpServer::getReq).
THEOREM CutRequests == Spec => []CutInv
  <1>1. ReqInv => CutInv BY InvWhole, InvCrash DEF CutInv
  <1> QED BY <1>1, Invariant, PTL

\* A request is refused as too large only if it fills the buffer, and a header
\* that fills it is always refused (HttpServer::getReq).
THEOREM SizeDecides == Spec => []RefusedBySize
  BY Invariant, InvRefused, PTL
=============================================================================
