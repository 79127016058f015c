--------------------------- MODULE StatIdxProofs ---------------------------
(***************************************************************************)
(* TLAPS proofs about StatIdx: for any file, the merges are those that all *)
(* stations of a relation agree on, no move gets lost, and every           *)
(* suggestion is listed by the object it belongs to; and about SearchIdx:  *)
(* the index has all names, and its lists can be merged.                   *)
(***************************************************************************)
EXTENDS StatIdx, SearchIdx, Lemmas, SequenceTheorems, FiniteSetTheorems, TLAPS

-----------------------------------------------------------------------------
(* Sorting. *)

\* Entries have different ranks, from 0 on, in their order.
LEMMA RankIs ==
  ASSUME NEW n \in Nat, NEW key \in [1..n -> Int]
  PROVE  /\ \A k \in 1..n : Rank(key, k) \in 0..(n - 1)
         /\ \A k, l \in 1..n : Ahead(key, k, l) => Rank(key, k) < Rank(key, l)
         /\ \A k, l \in 1..n : k # l => Ahead(key, k, l) \/ Ahead(key, l, k)
  <1> DEFINE Before(k) == {l \in 1..n : Ahead(key, l, k)}
  <1>1. \A k : Rank(key, k) = Cardinality(Before(k))
    BY DEF Rank
  <1>2. IsFiniteSet(1..n) /\ Cardinality(1..n) = n
    BY FS_Interval
  <1>3. ASSUME NEW k \in 1..n
        PROVE  IsFiniteSet(Before(k)) /\ Cardinality(Before(k)) \in 0..(n - 1)
    <2>1. Before(k) \in SUBSET (1..n) /\ Before(k) # 1..n
      <3>1. ~Ahead(key, k, k)
        BY DEF Ahead
      <3> QED BY <3>1
    <2>2. IsFiniteSet(Before(k)) /\ Cardinality(Before(k)) <= n /\ Cardinality(Before(k)) # n
      <3> HIDE DEF Before
      <3> QED BY <1>2, <2>1, FS_Subset
    <2>3. Cardinality(Before(k)) \in Nat
      BY <2>2, FS_CardinalityType
    <2> HIDE DEF Before
    <2> QED BY <2>2, <2>3
  <1>4. ASSUME NEW k \in 1..n, NEW l \in 1..n, Ahead(key, k, l)
        PROVE  Rank(key, k) < Rank(key, l)
    <2>1. Before(k) \in SUBSET Before(l)
      BY <1>4 DEF Ahead
    <2>2. k \in Before(l) /\ k \notin Before(k)
      BY <1>4 DEF Ahead
    <2>3. IsFiniteSet(Before(l)) /\ Before(k) # Before(l) BY <1>3, <2>2
    <2> HIDE DEF Before
    <2>4. Cardinality(Before(k)) \in Nat /\ Cardinality(Before(l)) \in Nat BY <1>3
    <2>5. Cardinality(Before(k)) <= Cardinality(Before(l)) /\ Cardinality(Before(k)) # Cardinality(Before(l))
      BY <2>1, <2>3, FS_Subset
    <2> QED BY <1>1, <2>4, <2>5
  <1>5. \A k, l \in 1..n : k # l => Ahead(key, k, l) \/ Ahead(key, l, k)
    BY DEF Ahead
  <1>6. \A k \in 1..n : Rank(key, k) \in 0..(n - 1)
    <2> HIDE DEF Before
    <2> QED BY <1>1, <1>3
  <1> QED BY <1>4, <1>5, <1>6

\* So there is one entry for each place.
LEMMA EveryRank ==
  ASSUME NEW n \in Nat, NEW key \in [1..n -> Int], NEW m \in 1..n
  PROVE  \E k \in 1..n : Rank(key, k) = m - 1
  <1> DEFINE f == [k \in 1..n |-> Rank(key, k)]
  <1>1. f \in [1..n -> 0..(n - 1)] BY RankIs
  <1>2. \A k, l \in 1..n : f[k] = f[l] => k = l
    <2> SUFFICES ASSUME NEW k \in 1..n, NEW l \in 1..n, k # l PROVE Rank(key, k) # Rank(key, l)
      OBVIOUS
    <2>1. Rank(key, k) \in 0..(n - 1) /\ Rank(key, l) \in 0..(n - 1) BY RankIs
    <2>2. Ahead(key, k, l) \/ Ahead(key, l, k) BY RankIs
    <2>3. Rank(key, k) < Rank(key, l) \/ Rank(key, l) < Rank(key, k) BY <2>2, RankIs
    <2> QED BY <2>1, <2>3
  <1>3. f \in Injection(1..n, 0..(n - 1)) BY <1>1, <1>2 DEF Injection, IsInjective
  <1>4. IsFiniteSet(1..n) /\ Cardinality(1..n) = n /\ IsFiniteSet(0..(n - 1)) /\ Cardinality(0..(n - 1)) = n
    BY FS_Interval
  <1>5. f \in Surjection(1..n, 0..(n - 1))
    <2> HIDE DEF f
    <2> QED BY <1>3, <1>4, FS_Injection
  <1>6. \A x \in 0..(n - 1) : \E k \in 1..n : f[k] = x
    <2> HIDE DEF f
    <2> QED BY <1>5 DEF Surjection
  <1> QED BY <1>6

\* A sorted list has the entries of the list, by a permutation, with rising keys.
Permutes(p, n) ==
  /\ p \in [1..n -> 1..n]
  /\ \A k \in 1..n : \E m \in 1..n : p[m] = k
  /\ \A u, j \in 1..n : p[u] = p[j] => u = j
Rising(p, n, key) == \A u, j \in 1..n : u < j => key[p[u]] <= key[p[j]]

LEMMA SortedIs ==
  ASSUME NEW S, NEW list \in Seq(S), NEW key \in [1..Len(list) -> Int]
  PROVE  /\ SortBy(list, key) \in Seq(S) /\ Len(SortBy(list, key)) = Len(list)
         /\ \E p : /\ Permutes(p, Len(list)) /\ Rising(p, Len(list), key)
                   /\ \A m \in 1..Len(list) : SortBy(list, key)[m] = list[p[m]]
  <1> DEFINE n == Len(list)
             at(m) == CHOOSE k \in 1..n : Rank(key, k) = m - 1
             p == [m \in 1..n |-> at(m)]
  <1>0. n \in Nat OBVIOUS
  <1>1. \A m \in 1..n : at(m) \in 1..n /\ Rank(key, at(m)) = m - 1
    BY EveryRank
  <1>2. SortBy(list, key) = [m \in 1..n |-> list[at(m)]]
    BY DEF SortBy
  <1> HIDE DEF at
  <1>3. \A m \in 1..n : list[at(m)] \in S
    BY <1>1
  <1>4. SortBy(list, key) \in Seq(S) /\ Len(SortBy(list, key)) = n
    BY <1>0, <1>2, <1>3
  <1>5. \A m \in 1..n : p[m] = at(m) /\ p[m] \in 1..n /\ Rank(key, p[m]) = m - 1
    BY <1>1
  <1>6. p \in [1..n -> 1..n] BY <1>5
  <1>7. \A m \in 1..n : SortBy(list, key)[m] = list[p[m]]
    BY <1>2, <1>5
  <1> HIDE DEF p, n
  <1>8. ASSUME NEW k \in 1..n PROVE \E m \in 1..n : p[m] = k
    <2>1. Rank(key, k) \in 0..(n - 1) BY <1>0, RankIs DEF n
    <2>2. PICK m \in 1..n : m - 1 = Rank(key, k)
      <3>1. Rank(key, k) + 1 \in 1..n BY <1>0, <2>1
      <3> QED BY <1>0, <2>1, <3>1
    <2>3. Rank(key, p[m]) = Rank(key, k) /\ p[m] \in 1..n BY <1>5, <2>2
    <2>4. p[m] = k
      <3> SUFFICES ASSUME p[m] # k PROVE FALSE OBVIOUS
      <3>1. Rank(key, p[m]) < Rank(key, k) \/ Rank(key, k) < Rank(key, p[m])
        BY <1>0, <2>3, RankIs DEF n
      <3> QED BY <2>1, <2>3, <3>1
    <2> QED BY <2>4
  <1>9. \A u, j \in 1..n : p[u] = p[j] => u = j BY <1>0, <1>5
  <1>10. ASSUME NEW u \in 1..n, NEW j \in 1..n, u < j PROVE key[p[u]] <= key[p[j]]
    <2>1. p[u] \in 1..n /\ p[j] \in 1..n /\ key[p[u]] \in Int /\ key[p[j]] \in Int
      BY <1>5 DEF n
    <2> SUFFICES ASSUME key[p[j]] < key[p[u]] PROVE FALSE BY <2>1
    <2>2. Ahead(key, p[j], p[u]) BY DEF Ahead
    <2>3. Rank(key, p[j]) < Rank(key, p[u]) BY <1>0, <2>1, <2>2, RankIs DEF n
    <2> QED BY <1>0, <1>5, <1>10, <2>3
  <1> QED BY <1>4, <1>6, <1>7, <1>8, <1>9, <1>10 DEF Permutes, Rising, n

LEMMA SortByKeeps ==
  ASSUME NEW S, NEW list \in Seq(S), NEW key \in [1..Len(list) -> Int]
  PROVE  SortBy(list, key) \in Seq(S) /\ Len(SortBy(list, key)) = Len(list)
  BY SortedIs

-----------------------------------------------------------------------------
(* The suggestions of a group and of a station. *)

Suggestion == [type : Types, station : Int, arrow : BOOLEAN, target : Nat]

LEMMA ThreeParts ==
  ASSUME NEW S, NEW a \in Seq(S), NEW b \in Seq(S), NEW c \in Seq(S)
  PROVE  /\ a \o b \o c \in Seq(S)
         /\ ToSet(a \o b \o c) = ToSet(a) \cup ToSet(b) \cup ToSet(c)
  <1> DEFINE d == a \o b \o c
  <1>1. /\ d \in Seq(S) /\ Len(d) = Len(a) + Len(b) + Len(c)
        /\ Len(a) \in Nat /\ Len(b) \in Nat /\ Len(c) \in Nat
        /\ DOMAIN a = 1..Len(a) /\ DOMAIN b = 1..Len(b) /\ DOMAIN c = 1..Len(c) /\ DOMAIN d = 1..Len(d)
    OBVIOUS
  <1>2. \A l \in 1..Len(a) : d[l] = a[l]
    OBVIOUS
  <1>3. \A l \in 1..Len(b) : d[Len(a) + l] = b[l]
    OBVIOUS
  <1>4. \A l \in 1..Len(c) : d[Len(a) + Len(b) + l] = c[l]
    OBVIOUS
  <1> HIDE DEF d
  <1>5. \A k \in 1..Len(d) : \/ k \in 1..Len(a)
                             \/ k - Len(a) \in 1..Len(b) /\ k = Len(a) + (k - Len(a))
                             \/ /\ k - Len(a) - Len(b) \in 1..Len(c)
                                /\ k = Len(a) + Len(b) + (k - Len(a) - Len(b))
    BY <1>1
  <1>6. \A k \in 1..Len(d) : \/ \E l \in 1..Len(a) : d[k] = a[l]
                             \/ \E l \in 1..Len(b) : d[k] = b[l]
                             \/ \E l \in 1..Len(c) : d[k] = c[l]
    BY <1>2, <1>3, <1>4, <1>5
  <1>7. /\ \A l \in 1..Len(a) : l \in 1..Len(d)
        /\ \A l \in 1..Len(b) : Len(a) + l \in 1..Len(d)
        /\ \A l \in 1..Len(c) : Len(a) + Len(b) + l \in 1..Len(d)
    BY <1>1
  <1>8. ToSet(d) \subseteq ToSet(a) \cup ToSet(b) \cup ToSet(c)
    BY <1>1, <1>6 DEF ToSet
  <1>9. ToSet(a) \subseteq ToSet(d) /\ ToSet(b) \subseteq ToSet(d) /\ ToSet(c) \subseteq ToSet(d)
    <2>1. ToSet(a) \subseteq ToSet(d)
      BY <1>1, <1>2, <1>7 DEF ToSet
    <2>2. ToSet(b) \subseteq ToSet(d)
      BY <1>1, <1>3, <1>7 DEF ToSet
    <2>3. ToSet(c) \subseteq ToSet(d)
      BY <1>1, <1>4, <1>7 DEF ToSet
    <2> QED BY <2>1, <2>2, <2>3
  <1> QED BY <1>1, <1>8, <1>9 DEF d

LEMMA NoneOrOne ==
  ASSUME NEW S, NEW y \in S, NEW list, list = <<>> \/ list = <<y>>
  PROVE  list \in Seq(S) /\ ToSet(list) = IF list = <<>> THEN {} ELSE {y}
  <1>1. CASE list = <<>>
    BY <1>1 DEF ToSet
  <1>2. CASE list = <<y>>
    <2>1. list \in Seq(S) /\ DOMAIN list = {1} /\ list[1] = y /\ list # <<>>
      BY <1>2
    <2> QED BY <2>1 DEF ToSet
  <1> QED BY <1>1, <1>2

\* The suggestions for errors have the station and the arrow of sug.
LEMMA ErrSuggsAre ==
  ASSUME NEW errs, Len(errs) \in Nat, DOMAIN errs = 1..Len(errs),
         NEW station \in Int, NEW arrow \in BOOLEAN
  PROVE  /\ ErrSuggs(errs, station, arrow) \in Seq(Suggestion)
         /\ \A y \in ToSet(ErrSuggs(errs, station, arrow)) :
              y.type \in {6, 8} /\ y.station = station /\ y.arrow = arrow
  <1> DEFINE first == {k \in DOMAIN errs : /\ errs[k].kind # "foreign"
                                           /\ \A l \in 1..(k - 1) : errs[l] # errs[k]}
             fixed == PickAt(errs, first)
             type(k) == IF fixed[k].kind = "self" THEN 8 ELSE 6
             made == ErrSuggs(errs, station, arrow)
  <1>1. made = [k \in 1..Cardinality(first) |-> Sugg(type(k), station, arrow, 0)]
    BY DEF ErrSuggs
  <1>2. Cardinality(first) \in Nat
    <2>1. first \in SUBSET (1..Len(errs)) /\ IsFiniteSet(1..Len(errs))
      BY FS_Interval
    <2> HIDE DEF first
    <2> QED BY <2>1, FS_Subset, FS_CardinalityType
  <1>3. \A k : type(k) \in {6, 8}
    OBVIOUS
  <1> HIDE DEF first, type, made
  <1>4. \A k \in 1..Cardinality(first) : Sugg(type(k), station, arrow, 0) \in Suggestion
    BY <1>3 DEF Sugg, Suggestion, Types
  <1>5. made \in Seq(Suggestion) /\ DOMAIN made = 1..Cardinality(first)
    BY <1>1, <1>2, <1>4
  <1>6. \A k \in 1..Cardinality(first) :
          made[k].type \in {6, 8} /\ made[k].station = station /\ made[k].arrow = arrow
    BY <1>1, <1>3 DEF Sugg
  <1>7. \A y \in ToSet(made) : y.type \in {6, 8} /\ y.station = station /\ y.arrow = arrow
    BY <1>5, <1>6 DEF ToSet
  <1> QED BY <1>5, <1>7 DEF made

\* What is merged is a group of the file.
MergeIdOK == mergeId \in [Groups -> Groups]

\* The suggestions of a group that is to be merged carry its negated id, and
\* one of them names what it is merged with; a group that is not to be merged
\* has no arrows.
LEMMA GroupSuggsAre ==
  ASSUME WellFormed(file), MergeIdOK, NEW g \in Groups
  PROVE  /\ GroupSuggs(g) \in Seq(Suggestion)
         /\ \A y \in ToSet(GroupSuggs(g)) :
              /\ y.arrow => Merges(g) /\ y.station = -g
              /\ y.type = 9 => Merges(g) /\ y.target = mergeId[g]
              /\ y.type = 10 => Merges(g)
         /\ Merges(g) => \E y \in ToSet(GroupSuggs(g)) :
              \/ y.type = 9 /\ y.target = mergeId[g]
              \/ y.type = 10 /\ y.target = Meta(mergeId[g])
  <1> DEFINE errs == file.groups[g].errs
             station == IF Merges(g) THEN -g ELSE g
             a == NameSugg(file.groups[g].named, g)
             b == MergeSugg(g)
             c == ErrSuggs(errs, station, Merges(g))
             new == GroupSuggs(g)
             h == mergeId[g]
  <1>1. /\ Groups \subseteq Nat /\ g \in Nat /\ h \in Groups /\ h \in Nat /\ Meta(h) \in Nat
        /\ Len(errs) \in Nat /\ DOMAIN errs = 1..Len(errs)
    BY FS_CardinalityType DEF WellFormed, MergeIdOK, Groups, Meta
  <1>2. station \in Int /\ Merges(g) \in BOOLEAN /\ (Merges(g) => station = -g)
    BY <1>1 DEF Merges
  <1>3. a \in Seq(Suggestion) /\ \A y \in ToSet(a) : y.type = 7 /\ ~y.arrow
    <2> DEFINE x == Sugg(7, g, FALSE, 0)
    <2>1. x \in Suggestion /\ x.type = 7 /\ ~x.arrow
      BY <1>1 DEF Sugg, Suggestion, Types
    <2>2. a = <<>> \/ a = <<x>>
      BY DEF NameSugg, If
    <2> HIDE DEF a, x
    <2>3. a \in Seq(Suggestion) /\ ToSet(a) \subseteq {x}
      BY <2>1, <2>2, NoneOrOne
    <2> QED BY <2>1, <2>3
  <1>4. /\ b \in Seq(Suggestion)
        /\ \A y \in ToSet(b) : Merges(g) /\ y.station = -g /\ (y.type = 9 => y.target = h)
        /\ Merges(g) => \E y \in ToSet(b) : \/ y.type = 9 /\ y.target = h
                                            \/ y.type = 10 /\ y.target = Meta(h)
    <2> DEFINE x == IF Meta(h) # 0 THEN Sugg(10, -g, TRUE, Meta(h)) ELSE Sugg(9, -g, TRUE, h)
    <2>1. /\ x \in Suggestion /\ x.station = -g /\ (x.type = 9 => x.target = h)
          /\ \/ x.type = 9 /\ x.target = h
             \/ x.type = 10 /\ x.target = Meta(h)
      BY <1>1 DEF Sugg, Suggestion, Types
    <2>2. (Merges(g) => b = <<x>>) /\ (~Merges(g) => b = <<>>)
      BY DEF MergeSugg
    <2> HIDE DEF b, x, h
    <2>3. b \in Seq(Suggestion) /\ ToSet(b) = IF Merges(g) THEN {x} ELSE {}
      <3>1. <<x>> # <<>>
        OBVIOUS
      <3> QED BY <2>1, <2>2, <3>1, NoneOrOne
    <2> QED BY <2>1, <2>3
  <1>5. /\ c \in Seq(Suggestion)
        /\ \A y \in ToSet(c) : y.type \in {6, 8} /\ y.station = station /\ y.arrow = Merges(g)
    <2> HIDE DEF station, errs
    <2> QED BY <1>1, <1>2, ErrSuggsAre
  <1>6. new = a \o b \o c
    BY DEF GroupSuggs
  <1> HIDE DEF a, b, c, new, h, station, errs
  <1>7. new \in Seq(Suggestion) /\ ToSet(new) = ToSet(a) \cup ToSet(b) \cup ToSet(c)
    BY <1>3, <1>4, <1>5, <1>6, ThreeParts
  <1>8. \A y \in ToSet(new) : /\ y.arrow => Merges(g) /\ y.station = -g
                              /\ y.type = 9 => Merges(g) /\ y.target = h
                              /\ y.type = 10 => Merges(g)
    <2> TAKE y \in ToSet(new)
    <2>1. CASE y \in ToSet(a)
      <3>1. y.type = 7 /\ ~y.arrow
        BY <1>3, <2>1
      <3> QED BY <3>1
    <2>2. CASE y \in ToSet(b)
      <3>1. Merges(g) /\ y.station = -g /\ (y.type = 9 => y.target = h)
        BY <1>4, <2>2
      <3> QED BY <3>1
    <2>3. CASE y \in ToSet(c)
      <3>1. y.type \in {6, 8} /\ y.station = station /\ y.arrow = Merges(g)
        BY <1>5, <2>3
      <3> QED BY <1>2, <3>1
    <2> QED BY <1>7, <2>1, <2>2, <2>3
  <1>9. Merges(g) => \E y \in ToSet(new) : \/ y.type = 9 /\ y.target = h
                                           \/ y.type = 10 /\ y.target = Meta(h)
    BY <1>4, <1>7
  <1> QED BY <1>7, <1>8, <1>9 DEF new, h

\* The suggestions of a station carry its id, and one of them is its move.
LEMMA StationSuggsAre ==
  ASSUME WellFormed(file), NEW s \in Stations
  PROVE  /\ StationSuggs(s) \in Seq(Suggestion)
         /\ \A y \in ToSet(StationSuggs(s)) : y.station = s
         /\ MoveType(s) # 0 => \E y \in ToSet(StationSuggs(s)) :
              y.type = MoveType(s) /\ y.target = Group(s)
  <1> DEFINE st == file.stations[s]
             errs == st.errs
             none == FALSE
             a == NameSugg(st.named \/ file.groups[st.group].named, s)
             b == ErrSuggs(errs, s, none)
             x == Sugg(MoveType(s), s, MoveType(s) # 1, st.group)
             c == If(MoveType(s) # 0, x)
             new == StationSuggs(s)
  <1>1. /\ s \in Nat /\ st.group \in Nat /\ Group(s) = st.group
        /\ Len(errs) \in Nat /\ DOMAIN errs = 1..Len(errs)
    BY FS_CardinalityType DEF WellFormed, Stations, Group
  <1>2. a \in Seq(Suggestion) /\ \A y \in ToSet(a) : y.station = s
    <2> DEFINE z == Sugg(7, s, FALSE, 0)
    <2>1. z \in Suggestion /\ z.station = s
      BY <1>1 DEF Sugg, Suggestion, Types
    <2>2. a = <<>> \/ a = <<z>>
      BY DEF NameSugg, If
    <2> HIDE DEF a, z
    <2>3. a \in Seq(Suggestion) /\ ToSet(a) \subseteq {z}
      BY <2>1, <2>2, NoneOrOne
    <2> QED BY <2>1, <2>3
  <1>3. b \in Seq(Suggestion) /\ \A y \in ToSet(b) : y.station = s
    <2>1. none \in BOOLEAN /\ s \in Int
      BY <1>1
    <2> HIDE DEF errs, none
    <2> QED BY <1>1, <2>1, ErrSuggsAre
  <1>4. MoveType(s) \in 0..5
    BY DEF MoveType
  <1>5. MoveType(s) # 0 => /\ x \in Suggestion /\ x.station = s
                           /\ x.type = MoveType(s) /\ x.target = Group(s)
    BY <1>1, <1>4 DEF Sugg, Suggestion, Types
  <1>6. (MoveType(s) # 0 => c = <<x>>) /\ (MoveType(s) = 0 => c = <<>>)
    BY DEF If
  <1>7. new = a \o b \o c
    BY DEF StationSuggs
  <1> HIDE DEF st, errs, none, a, b, c, x, new
  <1>8. c \in Seq(Suggestion) /\ ToSet(c) = IF MoveType(s) = 0 THEN {} ELSE {x}
    <2>1. CASE MoveType(s) = 0
      BY <1>6, <2>1 DEF ToSet
    <2>2. CASE MoveType(s) # 0
      <3>1. <<x>> # <<>>
        OBVIOUS
      <3> QED BY <1>5, <1>6, <2>2, <3>1, NoneOrOne
    <2> QED BY <2>1, <2>2
  <1>9. new \in Seq(Suggestion) /\ ToSet(new) = ToSet(a) \cup ToSet(b) \cup ToSet(c)
    BY <1>2, <1>3, <1>8, <1>7, ThreeParts
  <1>10. \A y \in ToSet(new) : y.station = s
    BY <1>2, <1>3, <1>5, <1>8, <1>9
  <1>11. MoveType(s) # 0 => \E y \in ToSet(new) : y.type = MoveType(s) /\ y.target = Group(s)
    BY <1>5, <1>8, <1>9
  <1> QED BY <1>9, <1>10, <1>11 DEF new

-----------------------------------------------------------------------------
(* Lists of places in _suggestions. *)

\* `list` holds the places of the suggestions `new`, which are next to each
\* other in `all`.
InLine(list, new, all) ==
  \E p \in Nat : /\ p + Len(new) <= Len(all)
                 /\ list = [k \in 1..Len(new) |-> p + k]
                 /\ \A k \in 1..Len(new) : all[p + k] = new[k]

LEMMA InLineKept ==
  ASSUME NEW S, NEW all \in Seq(S), NEW more \in Seq(S), NEW new \in Seq(S),
         NEW list, InLine(list, new, all)
  PROVE  InLine(list, new, all \o more)
  <1>1. PICK p \in Nat : /\ p + Len(new) <= Len(all)
                         /\ list = [k \in 1..Len(new) |-> p + k]
                         /\ \A k \in 1..Len(new) : all[p + k] = new[k]
    BY DEF InLine
  <1>2. Len(all \o more) = Len(all) + Len(more) /\ Len(all) \in Nat /\ Len(more) \in Nat /\ Len(new) \in Nat
    OBVIOUS
  <1>3. \A k \in 1..Len(all) : (all \o more)[k] = all[k]
    OBVIOUS
  <1>4. \A k \in 1..Len(new) : p + k \in 1..Len(all)
    BY <1>1, <1>2
  <1>5. \A k \in 1..Len(new) : (all \o more)[p + k] = new[k]
    BY <1>1, <1>3, <1>4
  <1>6. p + Len(new) <= Len(all \o more)
    BY <1>1, <1>2
  <1> QED BY <1>1, <1>5, <1>6 DEF InLine

LEMMA InLineNew ==
  ASSUME NEW S, NEW all \in Seq(S), NEW new \in Seq(S)
  PROVE  LET list == [k \in 1..Len(new) |-> Len(all) + k]
         IN /\ InLine(list, new, all \o new)
            /\ ToSet(list) = {k \in DOMAIN (all \o new) : k \notin DOMAIN all}
  <1> DEFINE list == [k \in 1..Len(new) |-> Len(all) + k]
  <1>1. /\ Len(all \o new) = Len(all) + Len(new) /\ Len(all) \in Nat /\ Len(new) \in Nat
        /\ DOMAIN (all \o new) = 1..Len(all \o new) /\ DOMAIN all = 1..Len(all)
    OBVIOUS
  <1>2. \A k \in 1..Len(new) : (all \o new)[Len(all) + k] = new[k]
    OBVIOUS
  <1>3. InLine(list, new, all \o new)
    BY <1>1, <1>2 DEF InLine
  <1>4. ToSet(list) = {k \in DOMAIN (all \o new) : k \notin DOMAIN all}
    <2>1. ToSet(list) = {Len(all) + k : k \in 1..Len(new)}
      BY DEF ToSet
    <2>2. \A k \in 1..Len(new) : Len(all) + k \in DOMAIN (all \o new) /\ Len(all) + k \notin DOMAIN all
      BY <1>1
    <2>3. \A k \in DOMAIN (all \o new) : k \notin DOMAIN all =>
            k - Len(all) \in 1..Len(new) /\ k = Len(all) + (k - Len(all))
      BY <1>1
    <2> QED BY <2>1, <2>2, <2>3
  <1> QED BY <1>3, <1>4

\* What a list holds: places of _suggestions, each once, with the suggestions.
LEMMA InLineHolds ==
  ASSUME NEW S, NEW all \in Seq(S), NEW new \in Seq(S), NEW list, InLine(list, new, all)
  PROVE  /\ ToSet(list) \subseteq DOMAIN all
         /\ IsInjective(list)
         /\ DOMAIN list = 1..Len(list)
         /\ \A k \in ToSet(list) : all[k] \in ToSet(new)
         /\ \A y \in ToSet(new) : \E k \in 1..Len(list) : all[list[k]] = y
  <1>1. PICK p \in Nat : /\ p + Len(new) <= Len(all)
                         /\ list = [k \in 1..Len(new) |-> p + k]
                         /\ \A k \in 1..Len(new) : all[p + k] = new[k]
    BY DEF InLine
  <1>2. Len(all) \in Nat /\ Len(new) \in Nat /\ DOMAIN all = 1..Len(all) /\ DOMAIN new = 1..Len(new)
    OBVIOUS
  <1>3. DOMAIN list = 1..Len(new) /\ Len(list) = Len(new) /\ \A k \in 1..Len(new) : list[k] = p + k
    BY <1>1, <1>2
  <1>4. \A k \in 1..Len(new) : p + k \in DOMAIN all
    BY <1>1, <1>2
  <1>5. ToSet(list) \subseteq DOMAIN all
    BY <1>3, <1>4 DEF ToSet
  <1>6. IsInjective(list)
    BY <1>3 DEF IsInjective
  <1>7. \A l \in 1..Len(new) : all[list[l]] = new[l]
    BY <1>1, <1>3
  <1>8. \A k \in ToSet(list) : \E l \in 1..Len(new) : k = list[l]
    BY <1>3 DEF ToSet
  <1>9. \A y : y \in ToSet(new) <=> \E l \in 1..Len(new) : y = new[l]
    BY <1>2 DEF ToSet
  <1>10. \A k \in ToSet(list) : all[k] \in ToSet(new)
    BY <1>7, <1>8, <1>9
  <1>11. \A y \in ToSet(new) : \E k \in 1..Len(list) : all[list[k]] = y
    BY <1>3, <1>7, <1>9
  <1> QED BY <1>3, <1>5, <1>6, <1>10, <1>11

-----------------------------------------------------------------------------
(* The inductive invariant. *)

\* The stations that the loop of initGroups has gone through, and where those
\* of relation g go.
Seen(s) == pc = "initGroups" => s < i
SeenTargets(g) ==
  {Group(s) : s \in {t \in Stations : Seen(t) /\ OrigGroup(t) = g /\ Osmid(Group(t)) > 2}}

PhaseOK ==
  /\ file \in Files
  /\ pc \in {"initGroups", "groupSuggs", "stationSuggs", "done"}
  /\ i \in Nat

MembersSeen ==
  /\ members \in [Groups -> Seq(Stations)] /\ hull \in [Groups -> Seq(Stations)]
  /\ \A s \in Stations : Seen(s) => Len(members[Group(s)]) >= 1

\* mergeId says at any time what the stations seen so far agree on: 0 if there
\* are none, their target if it is the only one and not g itself, else g.
MergeSeen ==
  \A g \in Groups :
    /\ Osmid(g) <= 2 => mergeId[g] = 0
    /\ ZeroIsFree /\ Osmid(g) > 2 =>
         /\ mergeId[g] = 0 <=> SeenTargets(g) = {}
         /\ \A h \in Groups \ {0, g} : mergeId[g] = h <=> SeenTargets(g) = {h}

\* The groups and stations that have got their suggestions.
GroupDone(g) == pc \in {"stationSuggs", "done"} \/ (pc = "groupSuggs" /\ g < i)
StationDone(s) == pc = "done" \/ (pc = "stationSuggs" /\ s < i)

ListsMade ==
  /\ suggs \in Seq(Suggestion)
  /\ DOMAIN ofGroup = Groups /\ DOMAIN ofStation = Stations
  /\ \A g \in Groups :
       /\ GroupDone(g) => InLine(ofGroup[g], GroupSuggs(g), suggs)
       /\ ~GroupDone(g) => ofGroup[g] = <<>>
  /\ \A s \in Stations :
       /\ StationDone(s) => InLine(ofStation[s], StationSuggs(s), suggs)
       /\ ~StationDone(s) => ofStation[s] = <<>>

OneOwner == \A k \in DOMAIN suggs : \E o : Owners(k) = {o}

IdxInv == PhaseOK /\ MergeIdOK /\ MembersSeen /\ MergeSeen /\ ListsMade /\ OneOwner

LEMMA FileIsWell ==
  ASSUME PhaseOK
  PROVE  /\ WellFormed(file)
         /\ Groups \subseteq Nat /\ Stations \subseteq Nat
         /\ \A s \in Stations : Group(s) \in Groups /\ OrigGroup(s) \in Groups
         /\ \A g \in Groups : Osmid(g) \in Nat /\ 0 \in Groups
         /\ i \notin Groups => \A g \in Groups : g < i
         /\ i \notin Stations => \A s \in Stations : s < i
  <1>1. WellFormed(file)
    BY FileAssumption DEF PhaseOK
  <1>2. \E n \in Nat : Groups = 0..(n - 1)
    BY <1>1, FS_CardinalityType DEF WellFormed, Groups
  <1>3. \E n \in Nat : Stations = 0..(n - 1)
    BY <1>1, FS_CardinalityType DEF WellFormed, Stations
  <1>4. \A s \in Stations : Group(s) \in Groups /\ OrigGroup(s) \in Groups
    BY <1>1 DEF WellFormed, Stations, Groups, Group, OrigGroup
  <1>5. \A g \in Groups : Osmid(g) \in Nat
    BY <1>1 DEF WellFormed, Groups, Osmid
  <1> QED BY <1>1, <1>2, <1>3, <1>4, <1>5 DEF PhaseOK

LEMMA InitInv == ASSUME Init PROVE IdxInv
  <1>1. PhaseOK
    BY DEF Init, PhaseOK
  <1>2. /\ Groups \subseteq Nat /\ Stations \subseteq Nat /\ \A g \in Groups : 0 \in Groups
        /\ \A s \in Stations : Group(s) \in Groups
    BY <1>1, FileIsWell
  <1>3. /\ mergeId = [g \in Groups |-> 0] /\ pc = "initGroups" /\ i = 0 /\ suggs = <<>>
        /\ members = [g \in Groups |-> <<>>] /\ hull = [g \in Groups |-> <<>>]
        /\ ofGroup = [g \in Groups |-> <<>>] /\ ofStation = [s \in Stations |-> <<>>]
    BY DEF Init
  <1>4. MergeIdOK
    BY <1>2, <1>3 DEF MergeIdOK
  <1>5. \A s \in Stations : ~Seen(s)
    BY <1>2, <1>3 DEF Seen
  <1>6. MembersSeen
    BY <1>3, <1>5 DEF MembersSeen
  <1>7. \A g \in Groups : SeenTargets(g) = {}
    BY <1>5 DEF SeenTargets
  <1>8. MergeSeen
    <2>1. \A g \in Groups : mergeId[g] = 0
      BY <1>3
    <2>2. \A h : {h} # {}
      OBVIOUS
    <2> QED BY <1>7, <2>1, <2>2 DEF MergeSeen
  <1>9. ListsMade
    BY <1>3 DEF ListsMade, GroupDone, StationDone
  <1>10. OneOwner
    BY <1>3 DEF OneOwner
  <1> QED BY <1>1, <1>4, <1>6, <1>8, <1>9, <1>10 DEF IdxInv

-----------------------------------------------------------------------------
(* Every step keeps the invariant. *)

\* The first target, then that of all, then g itself: what a round of the loop
\* makes of mergeId is what the targets seen with the new one agree on.
LEMMA TargetsAgree ==
  ASSUME NEW T, NEW t, NEW g, NEW was, t # 0, g # 0,
         was = 0 <=> T = {},
         \A h : h \notin {0, g} => (was = h <=> T = {h}),
         NEW now, now = CASE was = 0 -> t
                          [] was \notin {0, t} -> g
                          [] OTHER -> was
  PROVE  /\ now # 0 /\ T \cup {t} # {}
         /\ \A h : h \notin {0, g} => (now = h <=> T \cup {t} = {h})
  <1>1. CASE was = 0
    <2>1. T \cup {t} = {t} /\ now = t
      BY <1>1
    <2> QED BY <2>1
  <1>2. CASE was # 0 /\ was # t
    <2>1. now = g
      BY <1>2
    <2>2. ASSUME NEW h, h \notin {0, g}, T \cup {t} = {h} PROVE FALSE
      <3>1. T = {h} /\ t = h
        BY <1>2, <2>2
      <3> QED BY <1>2, <2>2, <3>1
    <2> QED BY <2>1, <2>2
  <1>3. CASE was # 0 /\ was = t
    <2>1. now = t
      BY <1>3
    <2>2. T # {}
      BY <1>3
    <2>3. ASSUME NEW h, h \notin {0, g}
          PROVE  now = h <=> T \cup {t} = {h}
      <3>1. ASSUME now = h PROVE T \cup {t} = {h}
        BY <1>3, <2>1, <2>3, <3>1
      <3>2. ASSUME T \cup {t} = {h} PROVE now = h
        BY <2>1, <3>2
      <3> QED BY <3>1, <3>2
    <2> QED BY <1>3, <2>1, <2>3
  <1> QED BY <1>1, <1>2, <1>3

LEMMA InitGroupInv == ASSUME IdxInv, InitGroup PROVE IdxInv'
  <1> DEFINE g == Group(i)
             og == OrigGroup(i)
             push(f, at) == [x \in Groups |-> IF x \in at THEN Append(f[x], i) ELSE f[x]]
  <1> USE DEF IdxInv
  <1>1. /\ pc = "initGroups" /\ i \in Stations /\ i' = i + 1
        /\ hull' = push(hull, {og} \cup (IF Osmid(g) = 1 THEN {g} ELSE {}))
        /\ members' = push(members, {g, og})
        /\ mergeId' = IF Osmid(g) > 2 /\ Osmid(og) > 2
                        THEN [mergeId EXCEPT ![og] = MergeTarget(og, g)] ELSE mergeId
        /\ file' = file /\ pc' = pc /\ suggs' = suggs /\ ofGroup' = ofGroup /\ ofStation' = ofStation
    BY DEF InitGroup, suggVars
  <1>2. /\ Groups \subseteq Nat /\ Stations \subseteq Nat /\ g \in Groups /\ og \in Groups /\ i \in Nat
        /\ \A x \in Groups : Osmid(x) \in Nat
        /\ \A s \in Stations : Group(s) \in Groups /\ OrigGroup(s) \in Groups
    BY <1>1, FileIsWell
  <1>3. /\ Groups' = Groups /\ Stations' = Stations
        /\ \A x : Osmid(x)' = Osmid(x) /\ Group(x)' = Group(x) /\ OrigGroup(x)' = OrigGroup(x)
        /\ ZeroIsFree' = ZeroIsFree
    BY <1>1 DEF Groups, Stations, Osmid, Group, OrigGroup, ZeroIsFree
  <1>4. PhaseOK'
    BY <1>1, <1>2 DEF PhaseOK
  <1>5. MergeIdOK'
    <2>1. MergeTarget(og, g) \in Groups
      BY <1>2 DEF MergeTarget, MergeIdOK
    <2> QED BY <1>1, <1>2, <1>3, <2>1 DEF MergeIdOK
  <1>6. \A s \in Stations : Seen(s)' <=> Seen(s) \/ s = i
    <2> TAKE s \in Stations
    <2>1. s \in Nat /\ i \in Nat
      BY <1>2
    <2>2. Seen(s)' <=> s < i + 1
      BY <1>1 DEF Seen
    <2>3. Seen(s) <=> s < i
      BY <1>1 DEF Seen
    <2> QED BY <2>1, <2>2, <2>3
  <1>7. MembersSeen'
    <2>1. ASSUME NEW f \in [Groups -> Seq(Stations)], NEW at
          PROVE  /\ push(f, at) \in [Groups -> Seq(Stations)]
                 /\ \A x \in Groups : Len(push(f, at)[x]) = IF x \in at THEN Len(f[x]) + 1 ELSE Len(f[x])
      <3>1. \A x \in Groups : f[x] \in Seq(Stations) /\ Append(f[x], i) \in Seq(Stations)
                              /\ Len(Append(f[x], i)) = Len(f[x]) + 1
        BY <1>1
      <3> QED BY <3>1
    <2>2. members' \in [Groups -> Seq(Stations)] /\ hull' \in [Groups -> Seq(Stations)]
      <3> HIDE DEF push
      <3> QED BY <1>1, <2>1 DEF MembersSeen
    <2>3. \A x \in Groups : Len(members'[x]) = IF x \in {g, og} THEN Len(members[x]) + 1 ELSE Len(members[x])
      <3> DEFINE at == {g, og}
      <3>1. members' = push(members, at) /\ members \in [Groups -> Seq(Stations)]
        BY <1>1 DEF MembersSeen
      <3> HIDE DEF push, at
      <3>2. \A x \in Groups : Len(members'[x]) = IF x \in at THEN Len(members[x]) + 1 ELSE Len(members[x])
        BY <2>1, <3>1
      <3> QED BY <3>2 DEF at
    <2>4. \A x \in Groups : Len(members[x]) \in Nat
      BY DEF MembersSeen
    <2>5. ASSUME NEW s \in Stations, Seen(s)' PROVE Len(members'[Group(s)]) >= 1
      <3>1. CASE Seen(s)
        <4>1. Len(members[Group(s)]) >= 1 /\ Group(s) \in Groups
          BY <1>2, <3>1 DEF MembersSeen
        <4>2. Len(members[Group(s)]) \in Nat
          BY <2>4, <4>1
        <4>3. Len(members'[Group(s)]) \in {Len(members[Group(s)]), Len(members[Group(s)]) + 1}
          BY <2>3, <4>1
        <4> QED BY <4>1, <4>2, <4>3
      <3>2. CASE s = i
        <4>1. Group(s) = g /\ Group(s) \in Groups
          BY <1>2, <3>2
        <4>2. Len(members'[Group(s)]) = Len(members[Group(s)]) + 1
          BY <2>3, <4>1
        <4>3. Len(members[Group(s)]) \in Nat
          BY <2>4, <4>1
        <4> QED BY <4>2, <4>3
      <3> QED BY <1>6, <2>5, <3>1, <3>2
    <2> QED BY <1>3, <2>2, <2>5 DEF MembersSeen
  <1>8. MergeSeen'
    <2> SUFFICES ASSUME NEW x \in Groups
                 PROVE  /\ Osmid(x) <= 2 => mergeId'[x] = 0
                        /\ ZeroIsFree /\ Osmid(x) > 2 =>
                             /\ mergeId'[x] = 0 <=> SeenTargets(x)' = {}
                             /\ \A h \in Groups \ {0, x} : mergeId'[x] = h <=> SeenTargets(x)' = {h}
      BY <1>3 DEF MergeSeen
    <2>1. SeenTargets(x)' = {Group(s) : s \in {t \in Stations : (Seen(t) \/ t = i) /\ OrigGroup(t) = x /\ Osmid(Group(t)) > 2}}
      BY <1>3, <1>6 DEF SeenTargets
    <2>2. CASE x = og /\ Osmid(g) > 2 /\ Osmid(og) > 2
      <3>1. SeenTargets(x)' = SeenTargets(x) \cup {g}
        <4>1. {t \in Stations : (Seen(t) \/ t = i) /\ OrigGroup(t) = x /\ Osmid(Group(t)) > 2}
                = {t \in Stations : Seen(t) /\ OrigGroup(t) = x /\ Osmid(Group(t)) > 2} \cup {i}
          BY <1>1, <2>2
        <4> QED BY <2>1, <4>1 DEF SeenTargets
      <3>2. mergeId'[x] = MergeTarget(og, g)
        BY <1>1, <2>2 DEF MergeIdOK
      <3>3. ASSUME ZeroIsFree
            PROVE  /\ mergeId'[x] # 0 /\ SeenTargets(x)' # {}
                   /\ \A h \in Groups \ {0, x} : mergeId'[x] = h <=> SeenTargets(x)' = {h}
        <4>1. g # 0 /\ og # 0
          BY <1>2, <2>2, <3>3 DEF ZeroIsFree
        <4>2. mergeId[og] = 0 <=> SeenTargets(og) = {}
          BY <1>2, <2>2, <3>3 DEF MergeSeen
        <4>3. \A h : h \notin {0, og} => (mergeId[og] = h <=> SeenTargets(og) = {h})
          <5>1. mergeId[og] \in Groups /\ SeenTargets(og) \subseteq Groups
            BY <1>2 DEF MergeIdOK, SeenTargets
          <5>2. \A h \in Groups \ {0, og} : mergeId[og] = h <=> SeenTargets(og) = {h}
            BY <1>2, <2>2, <3>3 DEF MergeSeen
          <5> QED BY <5>1, <5>2
        <4>4. mergeId'[x] = CASE mergeId[og] = 0 -> g
                              [] mergeId[og] \notin {0, g} -> og
                              [] OTHER -> mergeId[og]
          BY <3>2 DEF MergeTarget
        <4> DEFINE now == mergeId'[x]
                   was == mergeId[og]
                   T == SeenTargets(og)
        <4> HIDE DEF g, og, now, was, T
        <4>5. /\ now # 0 /\ T \cup {g} # {}
              /\ \A h : h \notin {0, og} => (now = h <=> T \cup {g} = {h})
          <5>1. g # 0 /\ og # 0 /\ (was = 0 <=> T = {})
            BY <4>1, <4>2 DEF was, T
          <5>2. \A h : h \notin {0, og} => (was = h <=> T = {h})
            BY <4>3 DEF was, T
          <5>3. now = CASE was = 0 -> g
                        [] was \notin {0, g} -> og
                        [] OTHER -> was
            BY <4>4 DEF was, now
          <5> QED BY <5>1, <5>2, <5>3, TargetsAgree
        <4>6. SeenTargets(x)' = T \cup {g} /\ x = og
          BY <2>2, <3>1 DEF T
        <4> QED BY <4>5, <4>6 DEF now
      <3> QED BY <2>2, <3>3, <1>2
    <2>3. CASE ~(x = og /\ Osmid(g) > 2 /\ Osmid(og) > 2)
      <3>1. mergeId'[x] = mergeId[x]
        BY <1>1, <1>2, <2>3 DEF MergeIdOK
      <3>2. Osmid(x) > 2 => SeenTargets(x)' = SeenTargets(x)
        <4>1. Osmid(x) > 2 => ~(OrigGroup(i) = x /\ Osmid(Group(i)) > 2)
          BY <2>3
        <4> QED BY <2>1, <4>1 DEF SeenTargets
      <3> QED BY <3>1, <3>2 DEF MergeSeen
    <2> QED BY <2>2, <2>3
  <1>9. ListsMade'
    <2>1. \A x : ~GroupDone(x) /\ ~GroupDone(x)' /\ ~StationDone(x) /\ ~StationDone(x)'
      BY <1>1 DEF GroupDone, StationDone
    <2> QED BY <1>1, <1>3, <2>1 DEF ListsMade
  <1>10. OneOwner'
    BY <1>1, <1>3 DEF OneOwner, Owners
  <1> QED BY <1>4, <1>5, <1>7, <1>8, <1>9, <1>10

\* What depends on the file and the merges only, and on the members' numbers.
LEMMA SameFile ==
  ASSUME file' = file
  PROVE  /\ Groups' = Groups /\ Stations' = Stations
         /\ \A x : Osmid(x)' = Osmid(x) /\ Group(x)' = Group(x) /\ OrigGroup(x)' = OrigGroup(x) /\ Meta(x)' = Meta(x)
         /\ ZeroIsFree' = ZeroIsFree
  BY DEF Groups, Stations, Osmid, Group, OrigGroup, Meta, ZeroIsFree

LEMMA SameMerges ==
  ASSUME PhaseOK, PhaseOK', MergeIdOK, MembersSeen, MergeSeen, file' = file, mergeId' = mergeId, hull' = hull,
         members' \in [Groups -> Seq(Stations)],
         \A g \in Groups : Len(members'[g]) = Len(members[g]),
         \A s \in Stations : Seen(s)' <=> Seen(s)
  PROVE  MergeIdOK' /\ MembersSeen' /\ MergeSeen'
  <1>1. /\ Groups' = Groups /\ Stations' = Stations /\ ZeroIsFree' = ZeroIsFree
        /\ \A x : Osmid(x)' = Osmid(x) /\ Group(x)' = Group(x) /\ OrigGroup(x)' = OrigGroup(x)
    BY SameFile
  <1>2. MergeIdOK'
    BY <1>1 DEF MergeIdOK
  <1>3. MembersSeen'
    <2>1. \A s \in Stations : Group(s) \in Groups
      BY FileIsWell
    <2> QED BY <1>1, <2>1 DEF MembersSeen
  <1>4. \A g : SeenTargets(g)' = SeenTargets(g)
    BY <1>1 DEF SeenTargets
  <1>5. MergeSeen'
    BY <1>1, <1>4 DEF MergeSeen
  <1> QED BY <1>2, <1>3, <1>5

LEMMA SameSuggs ==
  ASSUME file' = file, mergeId' = mergeId
  PROVE  /\ \A g : GroupSuggs(g)' = GroupSuggs(g)
         /\ members' = members => \A s : StationSuggs(s)' = StationSuggs(s)
  <1>1. \A g : Merges(g)' = Merges(g) /\ MergeSugg(g)' = MergeSugg(g)
    BY DEF Merges, MergeSugg, Meta
  <1>2. \A g : GroupSuggs(g)' = GroupSuggs(g)
    BY <1>1 DEF GroupSuggs
  <1>3. members' = members => \A s : MoveType(s)' = MoveType(s)
    BY DEF MoveType, Osmid, Group, OrigGroup, TrackHeur
  <1>4. members' = members => \A s : StationSuggs(s)' = StationSuggs(s)
    BY <1>3 DEF StationSuggs
  <1> QED BY <1>2, <1>4

LEMMA SortMembersInv == ASSUME IdxInv, SortMembers PROVE IdxInv'
  <1> USE DEF IdxInv
  <1> DEFINE key(list) == [k \in 1..Len(list) |-> -ErrClass(list[k])]
  <1>1. /\ pc = "initGroups" /\ i \notin Stations /\ pc' = "groupSuggs" /\ i' = 0
        /\ members' = [g \in Groups |-> SortBy(members[g], key(members[g]))]
        /\ file' = file /\ mergeId' = mergeId /\ hull' = hull
        /\ suggs' = suggs /\ ofGroup' = ofGroup /\ ofStation' = ofStation
    BY DEF SortMembers, suggVars
  <1>2. PhaseOK'
    BY <1>1 DEF PhaseOK
  <1>3. \A g \in Groups : /\ SortBy(members[g], key(members[g])) \in Seq(Stations)
                          /\ Len(SortBy(members[g], key(members[g]))) = Len(members[g])
    <2> TAKE g \in Groups
    <2> DEFINE list == members[g]
    <2>1. list \in Seq(Stations)
      BY DEF MembersSeen
    <2>2. \A s : ErrClass(s) \in {0, 1, 2}
      BY DEF ErrClass
    <2>3. key(list) \in [1..Len(list) -> Int]
      BY <2>2
    <2> HIDE DEF key, list
    <2>4. SortBy(list, key(list)) \in Seq(Stations) /\ Len(SortBy(list, key(list))) = Len(list)
      BY <2>1, <2>3, SortByKeeps
    <2> QED BY <2>4 DEF list
  <1>4. members' \in [Groups -> Seq(Stations)] /\ \A g \in Groups : Len(members'[g]) = Len(members[g])
    <2> HIDE DEF key
    <2> QED BY <1>1, <1>3
  <1>5. \A s \in Stations : Seen(s)' <=> Seen(s)
    <2>1. \A s \in Stations : s < i
      BY <1>1, FileIsWell
    <2> QED BY <1>1, <2>1 DEF Seen
  <1>6. MergeIdOK' /\ MembersSeen' /\ MergeSeen'
    BY <1>1, <1>2, <1>4, <1>5, SameMerges
  <1>7. Groups' = Groups /\ Stations' = Stations
    BY <1>1, SameFile
  <1>8. ListsMade'
    <2>1. Groups \subseteq Nat
      BY FileIsWell
    <2>2. \A x : ~GroupDone(x) /\ ~StationDone(x) /\ ~StationDone(x)'
      BY <1>1 DEF GroupDone, StationDone
    <2>3. \A x \in Groups : ~GroupDone(x)'
      BY <1>1, <2>1 DEF GroupDone
    <2> QED BY <1>1, <1>7, <2>2, <2>3 DEF ListsMade
  <1>9. OneOwner'
    BY <1>1, <1>7 DEF OneOwner, Owners
  <1> QED BY <1>2, <1>6, <1>8, <1>9

\* The places in the lists are those of suggestions that were made.
LEMMA PlacesMade ==
  ASSUME PhaseOK, MergeIdOK, ListsMade
  PROVE  /\ \A g \in Groups : ToSet(ofGroup[g]) \subseteq DOMAIN suggs /\ IsInjective(ofGroup[g])
         /\ \A s \in Stations : ToSet(ofStation[s]) \subseteq DOMAIN suggs /\ IsInjective(ofStation[s])
  <1>1. WellFormed(file) /\ suggs \in Seq(Suggestion)
    BY FileIsWell DEF ListsMade
  <1>2. ToSet(<<>>) = {} /\ IsInjective(<<>>)
    BY DEF ToSet, IsInjective
  <1>3. ASSUME NEW g \in Groups
        PROVE  ToSet(ofGroup[g]) \subseteq DOMAIN suggs /\ IsInjective(ofGroup[g])
    <2>1. CASE GroupDone(g)
      <3>1. InLine(ofGroup[g], GroupSuggs(g), suggs) /\ GroupSuggs(g) \in Seq(Suggestion)
        BY <1>1, <2>1, GroupSuggsAre DEF ListsMade
      <3> QED BY <1>1, <3>1, InLineHolds
    <2>2. CASE ~GroupDone(g)
      BY <1>2, <2>2 DEF ListsMade
    <2> QED BY <2>1, <2>2
  <1>4. ASSUME NEW s \in Stations
        PROVE  ToSet(ofStation[s]) \subseteq DOMAIN suggs /\ IsInjective(ofStation[s])
    <2>1. CASE StationDone(s)
      <3>1. InLine(ofStation[s], StationSuggs(s), suggs) /\ StationSuggs(s) \in Seq(Suggestion)
        BY <1>1, <2>1, StationSuggsAre DEF ListsMade
      <3> QED BY <1>1, <3>1, InLineHolds
    <2>2. CASE ~StationDone(s)
      BY <1>2, <2>2 DEF ListsMade
    <2> QED BY <2>1, <2>2
  <1> QED BY <1>3, <1>4

LEMMA GroupSuggestionsInv == ASSUME IdxInv, GroupSuggestions PROVE IdxInv'
  <1> USE DEF IdxInv
  <1> DEFINE new == GroupSuggs(i)
             list == [k \in 1..Len(new) |-> Len(suggs) + k]
  <1>1. /\ pc = "groupSuggs" /\ i \in Groups /\ i' = i + 1 /\ pc' = pc
        /\ suggs' = suggs \o new /\ ofGroup' = [ofGroup EXCEPT ![i] = list]
        /\ file' = file /\ mergeId' = mergeId /\ hull' = hull /\ members' = members /\ ofStation' = ofStation
    BY DEF GroupSuggestions, groupVars, Listed
  <1>2. PhaseOK'
    BY <1>1 DEF PhaseOK
  <1>3. Groups' = Groups /\ Stations' = Stations /\ Groups \subseteq Nat /\ i \in Nat /\ WellFormed(file)
    BY <1>1, SameFile, FileIsWell DEF PhaseOK
  <1>4. MergeIdOK' /\ MembersSeen' /\ MergeSeen'
    <2>1. \A s \in Stations : Seen(s)' <=> Seen(s)
      BY <1>1 DEF Seen
    <2>2. members' \in [Groups -> Seq(Stations)] /\ \A g \in Groups : Len(members'[g]) = Len(members[g])
      BY <1>1 DEF MembersSeen
    <2> QED BY <1>1, <1>2, <2>1, <2>2, SameMerges
  <1>5. new \in Seq(Suggestion) /\ suggs \in Seq(Suggestion)
    BY <1>1, <1>3, GroupSuggsAre DEF ListsMade
  <1>6. \A x : GroupSuggs(x)' = GroupSuggs(x) /\ StationSuggs(x)' = StationSuggs(x)
    BY <1>1, SameSuggs
  <1>7. /\ InLine(list, new, suggs') /\ suggs' \in Seq(Suggestion)
        /\ ToSet(list) = DOMAIN suggs' \ DOMAIN suggs /\ DOMAIN suggs \subseteq DOMAIN suggs'
    <2> HIDE DEF new
    <2>1. InLine(list, new, suggs \o new) /\ ToSet(list) = {k \in DOMAIN (suggs \o new) : k \notin DOMAIN suggs}
      BY <1>5, InLineNew
    <2>2. suggs' \in Seq(Suggestion) /\ DOMAIN suggs \subseteq DOMAIN suggs'
      BY <1>1, <1>5
    <2> HIDE DEF list
    <2> QED BY <1>1, <2>1, <2>2
  <1>8. /\ DOMAIN ofGroup' = Groups /\ ofGroup'[i] = list
        /\ \A g \in Groups \ {i} : ofGroup'[g] = ofGroup[g]
    BY <1>1 DEF ListsMade
  <1>9. /\ ~GroupDone(i) /\ (\A g : g = i => GroupDone(g)') /\ \A g \in Groups \ {i} : GroupDone(g)' <=> GroupDone(g)
        /\ \A s : ~StationDone(s) /\ ~StationDone(s)'
    <2>1. \A s : ~StationDone(s) /\ ~StationDone(s)'
      BY <1>1 DEF StationDone
    <2>2. \A g : (GroupDone(g) <=> g < i) /\ (GroupDone(g)' <=> g < i + 1)
      BY <1>1 DEF GroupDone
    <2>3. \A g \in Nat : g # i => (g < i + 1 <=> g < i)
      BY <1>3
    <2>4. ~(i < i) /\ i < i + 1
      BY <1>3
    <2> QED BY <1>3, <2>1, <2>2, <2>3, <2>4
  <1> HIDE DEF new, list
  <1>10. ListsMade'
    <2>1. ASSUME NEW g \in Groups
          PROVE  /\ GroupDone(g)' => InLine(ofGroup'[g], GroupSuggs(g), suggs')
                 /\ ~GroupDone(g)' => ofGroup'[g] = <<>>
      <3>1. CASE g = i
        <4>1. InLine(list, GroupSuggs(g), suggs') /\ ofGroup'[g] = list
          BY <1>7, <1>8, <3>1 DEF new
        <4> QED BY <1>9, <3>1, <4>1
      <3>2. CASE g # i /\ ~GroupDone(g)
        BY <1>8, <1>9, <3>2 DEF ListsMade
      <3>3. CASE g # i /\ GroupDone(g)
        <4>1. InLine(ofGroup[g], GroupSuggs(g), suggs) /\ GroupSuggs(g) \in Seq(Suggestion)
          BY <1>3, <3>3, GroupSuggsAre DEF ListsMade
        <4>2. InLine(ofGroup[g], GroupSuggs(g), suggs')
          BY <1>1, <1>5, <4>1, InLineKept
        <4> QED BY <1>8, <1>9, <3>3, <4>2
      <3> QED BY <3>1, <3>2, <3>3
    <2>2. \A s \in Stations : ofStation'[s] = <<>>
      BY <1>1, <1>9 DEF ListsMade
    <2>3. DOMAIN ofStation' = Stations
      BY <1>1 DEF ListsMade
    <2> QED BY <1>3, <1>6, <1>7, <1>8, <1>9, <2>1, <2>2, <2>3 DEF ListsMade
  <1>11. OneOwner'
    <2>1. /\ \A g \in Groups : ToSet(ofGroup[g]) \subseteq DOMAIN suggs
          /\ \A s \in Stations : ToSet(ofStation[s]) \subseteq DOMAIN suggs
      BY PlacesMade
    <2>2. ToSet(ofGroup[i]) = {}
      BY <1>1, <1>9 DEF ListsMade, ToSet
    <2>3. ASSUME NEW k \in DOMAIN suggs PROVE Owners(k)' = Owners(k)
      <3>1. \A g \in Groups : k \in ToSet(ofGroup'[g]) <=> k \in ToSet(ofGroup[g])
        BY <1>7, <1>8, <2>2
      <3> QED BY <1>1, <1>3, <3>1 DEF Owners
    <2>4. ASSUME NEW k \in DOMAIN suggs', k \notin DOMAIN suggs PROVE Owners(k)' = {<<"gid", i>>}
      <3>1. \A g \in Groups : k \in ToSet(ofGroup'[g]) <=> g = i
        BY <1>1, <1>7, <1>8, <2>1, <2>4
      <3>2. \A s \in Stations : k \notin ToSet(ofStation'[s])
        BY <1>1, <2>1, <2>4
      <3>3. {g \in Groups : k \in ToSet(ofGroup'[g])} = {i} /\ {s \in Stations : k \in ToSet(ofStation'[s])} = {}
        BY <1>1, <3>1, <3>2
      <3> QED BY <1>3, <3>3 DEF Owners
    <2> QED BY <2>3, <2>4 DEF OneOwner
  <1> QED BY <1>2, <1>4, <1>10, <1>11

LEMMA GroupsDoneInv == ASSUME IdxInv, GroupsDone PROVE IdxInv'
  <1> USE DEF IdxInv
  <1>1. /\ pc = "groupSuggs" /\ i \notin Groups /\ pc' = "stationSuggs" /\ i' = 0
        /\ file' = file /\ mergeId' = mergeId /\ hull' = hull /\ members' = members
        /\ suggs' = suggs /\ ofGroup' = ofGroup /\ ofStation' = ofStation
    BY DEF GroupsDone, groupVars, suggVars
  <1>2. PhaseOK'
    BY <1>1 DEF PhaseOK
  <1>3. Groups' = Groups /\ Stations' = Stations /\ Stations \subseteq Nat /\ \A g \in Groups : g < i
    BY <1>1, SameFile, FileIsWell
  <1>4. MergeIdOK' /\ MembersSeen' /\ MergeSeen'
    <2>1. \A s \in Stations : Seen(s)' <=> Seen(s)
      BY <1>1 DEF Seen
    <2>2. members' \in [Groups -> Seq(Stations)] /\ \A g \in Groups : Len(members'[g]) = Len(members[g])
      BY <1>1 DEF MembersSeen
    <2> QED BY <1>1, <1>2, <2>1, <2>2, SameMerges
  <1>5. ListsMade'
    <2>1. \A x : GroupSuggs(x)' = GroupSuggs(x) /\ StationSuggs(x)' = StationSuggs(x)
      BY <1>1, SameSuggs
    <2>2. \A g \in Groups : GroupDone(g) /\ GroupDone(g)'
      BY <1>1, <1>3 DEF GroupDone
    <2>3. \A s \in Stations : ~StationDone(s) /\ ~StationDone(s)'
      BY <1>1, <1>3 DEF StationDone
    <2> QED BY <1>1, <1>3, <2>1, <2>2, <2>3 DEF ListsMade
  <1>6. OneOwner'
    BY <1>1, <1>3 DEF OneOwner, Owners
  <1> QED BY <1>2, <1>4, <1>5, <1>6

LEMMA StationSuggestionsInv == ASSUME IdxInv, StationSuggestions PROVE IdxInv'
  <1> USE DEF IdxInv
  <1> DEFINE new == StationSuggs(i)
             list == [k \in 1..Len(new) |-> Len(suggs) + k]
  <1>1. /\ pc = "stationSuggs" /\ i \in Stations /\ i' = i + 1 /\ pc' = pc
        /\ suggs' = suggs \o new /\ ofStation' = [ofStation EXCEPT ![i] = list]
        /\ file' = file /\ mergeId' = mergeId /\ hull' = hull /\ members' = members /\ ofGroup' = ofGroup
    BY DEF StationSuggestions, groupVars, Listed
  <1>2. PhaseOK'
    BY <1>1 DEF PhaseOK
  <1>3. Groups' = Groups /\ Stations' = Stations /\ Stations \subseteq Nat /\ i \in Nat /\ WellFormed(file)
    BY <1>1, SameFile, FileIsWell DEF PhaseOK
  <1>4. MergeIdOK' /\ MembersSeen' /\ MergeSeen'
    <2>1. \A s \in Stations : Seen(s)' <=> Seen(s)
      BY <1>1 DEF Seen
    <2>2. members' \in [Groups -> Seq(Stations)] /\ \A g \in Groups : Len(members'[g]) = Len(members[g])
      BY <1>1 DEF MembersSeen
    <2> QED BY <1>1, <1>2, <2>1, <2>2, SameMerges
  <1>5. new \in Seq(Suggestion) /\ suggs \in Seq(Suggestion)
    BY <1>1, <1>3, StationSuggsAre DEF ListsMade
  <1>6. \A x : GroupSuggs(x)' = GroupSuggs(x) /\ StationSuggs(x)' = StationSuggs(x)
    BY <1>1, SameSuggs
  <1>7. /\ InLine(list, new, suggs') /\ suggs' \in Seq(Suggestion)
        /\ ToSet(list) = DOMAIN suggs' \ DOMAIN suggs /\ DOMAIN suggs \subseteq DOMAIN suggs'
    <2> HIDE DEF new
    <2>1. InLine(list, new, suggs \o new) /\ ToSet(list) = {k \in DOMAIN (suggs \o new) : k \notin DOMAIN suggs}
      BY <1>5, InLineNew
    <2>2. suggs' \in Seq(Suggestion) /\ DOMAIN suggs \subseteq DOMAIN suggs'
      BY <1>1, <1>5
    <2> HIDE DEF list
    <2> QED BY <1>1, <2>1, <2>2
  <1>8. /\ DOMAIN ofStation' = Stations /\ ofStation'[i] = list
        /\ \A s \in Stations \ {i} : ofStation'[s] = ofStation[s]
    BY <1>1 DEF ListsMade
  <1>9. /\ ~StationDone(i) /\ (\A s : s = i => StationDone(s)') /\ \A s \in Stations \ {i} : StationDone(s)' <=> StationDone(s)
        /\ \A g : GroupDone(g) /\ GroupDone(g)'
    <2>1. \A g : GroupDone(g) /\ GroupDone(g)'
      BY <1>1 DEF GroupDone
    <2>2. \A s : (StationDone(s) <=> s < i) /\ (StationDone(s)' <=> s < i + 1)
      BY <1>1 DEF StationDone
    <2>3. \A s \in Nat : s # i => (s < i + 1 <=> s < i)
      BY <1>3
    <2>4. ~(i < i) /\ i < i + 1
      BY <1>3
    <2> QED BY <1>3, <2>1, <2>2, <2>3, <2>4
  <1> HIDE DEF new, list
  <1>10. ListsMade'
    <2>1. ASSUME NEW s \in Stations
          PROVE  /\ StationDone(s)' => InLine(ofStation'[s], StationSuggs(s), suggs')
                 /\ ~StationDone(s)' => ofStation'[s] = <<>>
      <3>1. CASE s = i
        <4>1. InLine(list, StationSuggs(s), suggs') /\ ofStation'[s] = list
          BY <1>7, <1>8, <3>1 DEF new
        <4> QED BY <1>9, <3>1, <4>1
      <3>2. CASE s # i /\ ~StationDone(s)
        BY <1>8, <1>9, <3>2 DEF ListsMade
      <3>3. CASE s # i /\ StationDone(s)
        <4>1. InLine(ofStation[s], StationSuggs(s), suggs) /\ StationSuggs(s) \in Seq(Suggestion)
          BY <1>3, <3>3, StationSuggsAre DEF ListsMade
        <4>2. InLine(ofStation[s], StationSuggs(s), suggs')
          BY <1>1, <1>5, <4>1, InLineKept
        <4> QED BY <1>8, <1>9, <3>3, <4>2
      <3> QED BY <3>1, <3>2, <3>3
    <2>2. ASSUME NEW g \in Groups PROVE InLine(ofGroup'[g], GroupSuggs(g), suggs')
      <3>1. InLine(ofGroup[g], GroupSuggs(g), suggs) /\ GroupSuggs(g) \in Seq(Suggestion)
        BY <1>3, <1>9, GroupSuggsAre DEF ListsMade
      <3> QED BY <1>1, <1>5, <3>1, InLineKept
    <2>3. DOMAIN ofGroup' = Groups
      BY <1>1 DEF ListsMade
    <2> QED BY <1>3, <1>6, <1>7, <1>8, <1>9, <2>1, <2>2, <2>3 DEF ListsMade
  <1>11. OneOwner'
    <2>1. /\ \A g \in Groups : ToSet(ofGroup[g]) \subseteq DOMAIN suggs
          /\ \A s \in Stations : ToSet(ofStation[s]) \subseteq DOMAIN suggs
      BY PlacesMade
    <2>2. ToSet(ofStation[i]) = {}
      BY <1>1, <1>9 DEF ListsMade, ToSet
    <2>3. ASSUME NEW k \in DOMAIN suggs PROVE Owners(k)' = Owners(k)
      <3>1. \A s \in Stations : k \in ToSet(ofStation'[s]) <=> k \in ToSet(ofStation[s])
        BY <1>7, <1>8, <2>2
      <3> QED BY <1>1, <1>3, <3>1 DEF Owners
    <2>4. ASSUME NEW k \in DOMAIN suggs', k \notin DOMAIN suggs PROVE Owners(k)' = {<<"sid", i>>}
      <3>1. \A s \in Stations : k \in ToSet(ofStation'[s]) <=> s = i
        BY <1>1, <1>7, <1>8, <2>1, <2>4
      <3>2. \A g \in Groups : k \notin ToSet(ofGroup'[g])
        BY <1>1, <2>1, <2>4
      <3>3. {s \in Stations : k \in ToSet(ofStation'[s])} = {i} /\ {g \in Groups : k \in ToSet(ofGroup'[g])} = {}
        BY <1>1, <3>1, <3>2
      <3> QED BY <1>3, <3>3 DEF Owners
    <2> QED BY <2>3, <2>4 DEF OneOwner
  <1> QED BY <1>2, <1>4, <1>10, <1>11

LEMMA StationsDoneInv == ASSUME IdxInv, StationsDone PROVE IdxInv'
  <1> USE DEF IdxInv
  <1>1. /\ pc = "stationSuggs" /\ i \notin Stations /\ pc' = "done" /\ i' = i
        /\ file' = file /\ mergeId' = mergeId /\ hull' = hull /\ members' = members
        /\ suggs' = suggs /\ ofGroup' = ofGroup /\ ofStation' = ofStation
    BY DEF StationsDone, groupVars, suggVars
  <1>2. PhaseOK'
    BY <1>1 DEF PhaseOK
  <1>3. Groups' = Groups /\ Stations' = Stations /\ \A s \in Stations : s < i
    BY <1>1, SameFile, FileIsWell
  <1>4. MergeIdOK' /\ MembersSeen' /\ MergeSeen'
    <2>1. \A s \in Stations : Seen(s)' <=> Seen(s)
      BY <1>1 DEF Seen
    <2>2. members' \in [Groups -> Seq(Stations)] /\ \A g \in Groups : Len(members'[g]) = Len(members[g])
      BY <1>1 DEF MembersSeen
    <2> QED BY <1>1, <1>2, <2>1, <2>2, SameMerges
  <1>5. ListsMade'
    <2>1. \A x : GroupSuggs(x)' = GroupSuggs(x) /\ StationSuggs(x)' = StationSuggs(x)
      BY <1>1, SameSuggs
    <2>2. \A g \in Groups : GroupDone(g) /\ GroupDone(g)'
      BY <1>1 DEF GroupDone
    <2>3. \A s \in Stations : StationDone(s) /\ StationDone(s)'
      BY <1>1, <1>3 DEF StationDone
    <2> QED BY <1>1, <1>3, <2>1, <2>2, <2>3 DEF ListsMade
  <1>6. OneOwner'
    BY <1>1, <1>3, ZenonT(60) DEF OneOwner, Owners
  <1> QED BY <1>2, <1>4, <1>5, <1>6

LEMMA StutterInv == ASSUME IdxInv, UNCHANGED vars PROVE IdxInv'
  <1> USE DEF IdxInv
  <1>1. /\ pc' = pc /\ i' = i
        /\ file' = file /\ mergeId' = mergeId /\ hull' = hull /\ members' = members
        /\ suggs' = suggs /\ ofGroup' = ofGroup /\ ofStation' = ofStation
    BY DEF vars, groupVars, suggVars
  <1>2. PhaseOK'
    BY <1>1 DEF PhaseOK
  <1>3. Groups' = Groups /\ Stations' = Stations
    BY <1>1, SameFile
  <1>4. MergeIdOK' /\ MembersSeen' /\ MergeSeen'
    <2>1. \A s \in Stations : Seen(s)' <=> Seen(s)
      BY <1>1 DEF Seen
    <2>2. members' \in [Groups -> Seq(Stations)] /\ \A g \in Groups : Len(members'[g]) = Len(members[g])
      BY <1>1 DEF MembersSeen
    <2> QED BY <1>1, <1>2, <2>1, <2>2, SameMerges
  <1>5. ListsMade'
    <2>1. \A x : GroupSuggs(x)' = GroupSuggs(x) /\ StationSuggs(x)' = StationSuggs(x)
      BY <1>1, SameSuggs
    <2>2. \A x : (GroupDone(x)' <=> GroupDone(x)) /\ (StationDone(x)' <=> StationDone(x))
      BY <1>1 DEF GroupDone, StationDone
    <2> QED BY <1>1, <1>3, <2>1, <2>2 DEF ListsMade
  <1>6. OneOwner'
    BY <1>1, <1>3, ZenonT(60) DEF OneOwner, Owners
  <1> QED BY <1>2, <1>4, <1>5, <1>6

\* What the stations seen so far agree on, and where every suggestion made so
\* far is listed, at every step of the two functions (initGroups and
\* initSuggestions).
THEOREM SpecIdxInv == Spec => []IdxInv
  <1>1. Init => IdxInv
    BY InitInv
  <1>2. IdxInv /\ [Next]_vars => IdxInv'
    BY InitGroupInv, SortMembersInv, GroupSuggestionsInv, GroupsDoneInv,
       StationSuggestionsInv, StationsDoneInv, StutterInv DEF Next
  <1> QED BY <1>1, <1>2, PTL DEF Spec

-----------------------------------------------------------------------------
(* What the invariant says of the finished suggestions. *)

\* Group g is suggested to be merged with its mergeId, if that names another
\* group, and with no other.
LEMMA SuggestedIsMerged ==
  ASSUME IdxInv, pc = "done", NEW g \in Groups, NEW h
  PROVE  MergeSuggested(g, h) <=> Merges(g) /\ mergeId[g] = h
  <1> DEFINE list == ofGroup[g]
             new == GroupSuggs(g)
  <1>1. WellFormed(file) /\ MergeIdOK /\ suggs \in Seq(Suggestion)
    BY FileIsWell DEF IdxInv, ListsMade
  <1>2. /\ new \in Seq(Suggestion)
        /\ \A y \in ToSet(new) : /\ y.type = 9 => Merges(g) /\ y.target = mergeId[g]
                                 /\ y.type = 10 => Merges(g)
        /\ Merges(g) => \E y \in ToSet(new) : \/ y.type = 9 /\ y.target = mergeId[g]
                                              \/ y.type = 10 /\ y.target = Meta(mergeId[g])
    BY <1>1, GroupSuggsAre
  <1>3. InLine(list, new, suggs)
    BY DEF IdxInv, ListsMade, GroupDone
  <1> HIDE DEF list, new
  <1>4. /\ DOMAIN list = 1..Len(list)
        /\ \A k \in ToSet(list) : suggs[k] \in ToSet(new)
        /\ \A y \in ToSet(new) : \E k \in 1..Len(list) : suggs[list[k]] = y
    BY <1>1, <1>2, <1>3, InLineHolds
  <1>5. \A k \in 1..Len(list) : suggs[list[k]] \in ToSet(new)
    BY <1>4 DEF ToSet
  <1>6. MergeSuggested(g, h) <=>
          \E k \in 1..Len(list) :
            \/ suggs[list[k]].type = 9 /\ suggs[list[k]].target = h
            \/ suggs[list[k]].type = 10 /\ suggs[list[k]].target = Meta(h) /\ mergeId[g] = h
    BY DEF MergeSuggested, list
  <1>7. ASSUME MergeSuggested(g, h) PROVE Merges(g) /\ mergeId[g] = h
    BY <1>2, <1>5, <1>6, <1>7
  <1>8. ASSUME Merges(g), mergeId[g] = h PROVE MergeSuggested(g, h)
    <2>1. PICK y \in ToSet(new) : \/ y.type = 9 /\ y.target = h
                                  \/ y.type = 10 /\ y.target = Meta(h)
      BY <1>2, <1>8
    <2>2. PICK k \in 1..Len(list) : suggs[list[k]] = y
      BY <1>4
    <2> QED BY <1>6, <1>8, <2>1, <2>2
  <1> QED BY <1>7, <1>8

LEMMA TypeHolds == ASSUME IdxInv PROVE TypeOK
  <1> USE DEF IdxInv
  <1>1. \A g \in Groups : ToSet(members[g]) \cup ToSet(hull[g]) \subseteq Stations
    <2> TAKE g \in Groups
    <2>1. members[g] \in Seq(Stations) /\ hull[g] \in Seq(Stations)
      BY DEF MembersSeen
    <2> QED BY <2>1 DEF ToSet
  <1>2. \A k \in DOMAIN suggs : suggs[k].type \in Types
    <2>1. \A k \in DOMAIN suggs : suggs[k] \in Suggestion
      BY DEF ListsMade
    <2> QED BY <2>1 DEF Suggestion
  <1> QED BY <1>1, <1>2, PlacesMade DEF TypeOK, PhaseOK, MergeIdOK

\* In a finished index a relation is to be merged exactly if its stations
\* agree on another one.
LEMMA MergesUnanimous == ASSUME IdxInv PROVE MergeIsUnanimous
  <1> SUFFICES ASSUME pc = "done", ZeroIsFree, NEW g \in Groups, NEW h \in Groups, Osmid(g) > 2
               PROVE  MergeSuggested(g, h) <=> Targets(g) = {h} /\ h # g
    BY DEF MergeIsUnanimous
  <1>1. SeenTargets(g) = Targets(g)
    BY DEF SeenTargets, Targets, Seen
  <1>2. Osmid(0) < 2
    BY FileIsWell DEF ZeroIsFree, IdxInv
  <1>3. 0 \notin Targets(g)
    <2>1. ASSUME 0 \in Targets(g) PROVE FALSE
      <3>1. PICK s \in Stations : Group(s) = 0 /\ Osmid(Group(s)) > 2
        BY <2>1 DEF Targets
      <3>2. Osmid(0) \in Nat
        BY FileIsWell DEF IdxInv
      <3> QED BY <1>2, <3>1, <3>2
    <2> QED BY <2>1
  <1>4. \A x \in Groups \ {0, g} : mergeId[g] = x <=> Targets(g) = {x}
    BY <1>1 DEF IdxInv, MergeSeen
  <1>5. MergeSuggested(g, h) <=> mergeId[g] \notin {0, g} /\ mergeId[g] = h
    BY SuggestedIsMerged DEF Merges
  <1> QED BY <1>3, <1>4, <1>5

\* A station that leaves its group is in the list of moves or its group is to
\* be merged with where it goes.
LEMMA MovesAreCovered == ASSUME IdxInv PROVE MovesCovered
  <1> SUFFICES ASSUME pc = "done", ZeroIsFree, NEW s \in Stations, Group(s) # OrigGroup(s)
               PROVE  \/ \E type \in 1..5 : Has(ofStation[s], type, Group(s))
                      \/ MergeSuggested(OrigGroup(s), Group(s))
                      \/ Osmid(OrigGroup(s)) < 2 /\ \/ Osmid(Group(s)) = 0
                                                    \/ Osmid(Group(s)) = 1 /\ Len(members[Group(s)]) = 1
                      \/ Osmid(OrigGroup(s)) >= 2 /\ Osmid(Group(s)) <= 1 /\ TrackHeur(s)
    BY DEF MovesCovered
  <1> DEFINE g == Group(s)
             og == OrigGroup(s)
             list == ofStation[s]
             new == StationSuggs(s)
  <1>1. /\ WellFormed(file) /\ suggs \in Seq(Suggestion) /\ g \in Groups /\ og \in Groups
        /\ Osmid(g) \in Nat /\ Osmid(og) \in Nat
    BY FileIsWell DEF IdxInv, ListsMade
  <1>2. Len(members[g]) \in Nat /\ Len(members[g]) >= 1
    BY <1>1 DEF IdxInv, MembersSeen, Seen
  <1>3. ASSUME MoveType(s) # 0 PROVE \E type \in 1..5 : Has(list, type, g)
    <2>1. new \in Seq(Suggestion) /\ \E y \in ToSet(new) : y.type = MoveType(s) /\ y.target = g
      BY <1>1, <1>3, StationSuggsAre
    <2>2. InLine(list, new, suggs)
      BY DEF IdxInv, ListsMade, StationDone
    <2>3. MoveType(s) \in 1..5
      BY <1>3 DEF MoveType
    <2> HIDE DEF list, new, g
    <2>4. \A y \in ToSet(new) : \E k \in 1..Len(list) : suggs[list[k]] = y
      BY <1>1, <2>1, <2>2, InLineHolds
    <2>5. \E k \in 1..Len(list) : suggs[list[k]].type = MoveType(s) /\ suggs[list[k]].target = g
      BY <2>1, <2>4
    <2> QED BY <2>3, <2>5 DEF Has
  <1>4. CASE MoveType(s) = 0 /\ Osmid(og) < 2
    <2>1. ~(Osmid(g) = 1 /\ Len(members[g]) > 1) /\ ~(Osmid(g) > 1)
      BY <1>4 DEF MoveType
    <2>2. Osmid(g) = 0 \/ Osmid(g) = 1
      BY <1>1, <2>1
    <2>3. Osmid(g) = 1 => Len(members[g]) = 1
      <3> DEFINE n == Len(members[g])
      <3>1. n \in Nat /\ n >= 1 /\ (Osmid(g) = 1 => ~(n > 1))
        BY <1>2, <2>1
      <3> HIDE DEF n
      <3>2. Osmid(g) = 1 => n = 1
        BY <3>1
      <3> QED BY <3>2 DEF n
    <2> QED BY <1>4, <2>2, <2>3
  <1>5. CASE MoveType(s) = 0 /\ Osmid(og) >= 2 /\ Osmid(g) <= 1
    <2>1. ~(Osmid(g) = 1 /\ Len(members[g]) > 1)
      BY <1>1, <1>5 DEF MoveType
    <2>2. TrackHeur(s)
      BY <1>1, <1>5, <2>1 DEF MoveType
    <2> QED BY <1>5, <2>2
  <1>6. CASE MoveType(s) = 0 /\ Osmid(og) >= 2 /\ Osmid(g) > 1
    <2>1. mergeId[og] = g
      BY <1>1, <1>6 DEF MoveType
    <2>2. g # 0
      BY <1>1, <1>6 DEF ZeroIsFree
    <2>3. MergeSuggested(og, g)
      BY <1>1, <2>1, <2>2, SuggestedIsMerged DEF Merges
    <2> QED BY <2>3
  <1> QED BY <1>1, <1>3, <1>4, <1>5, <1>6

\* Lists are disjoint and without repetitions; an arrow has the id of its owner.
LEMMA OwnersListed == ASSUME IdxInv PROVE ListedByOwner
  <1> SUFFICES ASSUME ZeroIsFree, NEW k \in DOMAIN suggs
               PROVE  /\ Cardinality(Owners(k)) = 1
                      /\ suggs[k].arrow =>
                           Owners(k) = {IF suggs[k].station < 0 THEN <<"gid", -suggs[k].station>>
                                                                ELSE <<"sid", suggs[k].station>>}
    BY PlacesMade DEF ListedByOwner, IdxInv
  <1>1. /\ WellFormed(file) /\ MergeIdOK /\ suggs \in Seq(Suggestion)
        /\ Groups \subseteq Nat /\ Stations \subseteq Nat
    BY FileIsWell DEF IdxInv, ListsMade
  <1>2. PICK o : Owners(k) = {o}
    BY DEF IdxInv, OneOwner
  <1>3. Cardinality(Owners(k)) = 1
    BY <1>2, FS_Singleton
  <1>4. ASSUME suggs[k].arrow, NEW g \in Groups, k \in ToSet(ofGroup[g]), o = <<"gid", g>>
        PROVE  suggs[k].station < 0 /\ o = <<"gid", -suggs[k].station>>
    <2>1. GroupDone(g)
      BY <1>4 DEF IdxInv, ListsMade, ToSet
    <2>2. InLine(ofGroup[g], GroupSuggs(g), suggs) /\ GroupSuggs(g) \in Seq(Suggestion)
      BY <1>1, <2>1, GroupSuggsAre DEF IdxInv, ListsMade
    <2>3. suggs[k] \in ToSet(GroupSuggs(g))
      BY <1>1, <1>4, <2>2, InLineHolds
    <2>4. Merges(g) /\ suggs[k].station = -g
      BY <1>1, <1>4, <2>3, GroupSuggsAre
    <2>5. g # 0
      <3>1. ASSUME g = 0 PROVE FALSE
        <4>1. Osmid(0) < 2 /\ Osmid(0) \in Nat
          BY <1>4, <3>1, FileIsWell DEF ZeroIsFree, IdxInv
        <4>2. mergeId[0] = 0
          BY <1>4, <3>1, <4>1 DEF IdxInv, MergeSeen
        <4> QED BY <2>4, <3>1, <4>2 DEF Merges
      <3> QED BY <3>1
    <2> QED BY <1>1, <1>4, <2>4, <2>5
  <1>5. ASSUME NEW s \in Stations, k \in ToSet(ofStation[s]), o = <<"sid", s>>
        PROVE  ~(suggs[k].station < 0) /\ o = <<"sid", suggs[k].station>>
    <2>1. StationDone(s)
      BY <1>5 DEF IdxInv, ListsMade, ToSet
    <2>2. InLine(ofStation[s], StationSuggs(s), suggs) /\ StationSuggs(s) \in Seq(Suggestion)
      BY <1>1, <2>1, StationSuggsAre DEF IdxInv, ListsMade
    <2>3. suggs[k] \in ToSet(StationSuggs(s))
      BY <1>1, <1>5, <2>2, InLineHolds
    <2>4. suggs[k].station = s
      BY <1>1, <2>3, StationSuggsAre
    <2> QED BY <1>1, <1>5, <2>4
  <1>6. \/ \E g \in Groups : k \in ToSet(ofGroup[g]) /\ o = <<"gid", g>>
        \/ \E s \in Stations : k \in ToSet(ofStation[s]) /\ o = <<"sid", s>>
    BY <1>2 DEF Owners
  <1> QED BY <1>2, <1>3, <1>4, <1>5, <1>6

\* The index is well typed at every step, and whatever the order of the
\* stations in the file a relation is suggested to be merged exactly if its
\* stations agree on another one (StatIdx::initGroups, initSuggestions).
THEOREM MergesAgreed == Spec => []MergeInv
  <1>1. IdxInv => MergeInv
    BY TypeHolds, MergesUnanimous DEF MergeInv
  <1> QED BY <1>1, SpecIdxInv, PTL

\* No move of a station gets lost between merges and moves
\* (StatIdx::initSuggestions).
THEOREM NoMoveLost == Spec => []MovesCovered
  BY MovesAreCovered, SpecIdxInv, PTL

\* Every suggestion is listed by one object, once, and an arrow carries its id
\* (StatIdx::initSuggestions).
THEOREM EveryoneListed == Spec => []ListedByOwner
  BY OwnersListed, SpecIdxInv, PTL

-----------------------------------------------------------------------------
(* The search index: what is picked from a list. *)

\* What is picked from a list are its entries at these places, in their order.
Enumerates(p, n, at) ==
  /\ p \in [1..n -> at]
  /\ \A k \in at : \E m \in 1..n : p[m] = k
  /\ \A u, j \in 1..n : u < j => p[u] < p[j]

LEMMA PickedAre ==
  ASSUME NEW S, NEW list \in Seq(S), NEW at \in SUBSET (1..Len(list))
  PROVE  /\ PickAt(list, at) \in Seq(S) /\ Len(PickAt(list, at)) = Cardinality(at)
         /\ Cardinality(at) \in Nat
         /\ \E p : /\ Enumerates(p, Cardinality(at), at)
                   /\ \A m \in 1..Cardinality(at) : PickAt(list, at)[m] = list[p[m]]
  <1> DEFINE n == Cardinality(at)
             Under(k) == {l \in at : l < k}
             rank == [k \in at |-> Cardinality(Under(k))]
             place(m) == CHOOSE k \in at : Cardinality(Under(k)) = m - 1
             p == [m \in 1..n |-> place(m)]
  <1>1. IsFiniteSet(at) /\ n \in Nat
    <2>1. IsFiniteSet(1..Len(list))
      <3>1. 1 \in Int /\ Len(list) \in Int OBVIOUS
      <3> QED BY <3>1, FS_Interval
    <2> QED BY <2>1, FS_Subset, FS_CardinalityType
  <1>2. ASSUME NEW k \in at
        PROVE  IsFiniteSet(Under(k)) /\ Cardinality(Under(k)) \in 0..(n - 1)
    <2>0. k \in Int OBVIOUS
    <2>1. Under(k) \in SUBSET at /\ Under(k) # at
      <3>1. k \notin Under(k) BY <2>0
      <3> QED BY <3>1
    <2> HIDE DEF Under
    <2>2. IsFiniteSet(Under(k)) /\ Cardinality(Under(k)) <= n /\ Cardinality(Under(k)) # n
      BY <1>1, <2>1, FS_Subset
    <2>3. Cardinality(Under(k)) \in Nat BY <2>2, FS_CardinalityType
    <2> QED BY <1>1, <2>2, <2>3
  <1>3. ASSUME NEW k \in at, NEW l \in at, k < l
        PROVE  Cardinality(Under(k)) < Cardinality(Under(l))
    <2>0. at \in SUBSET Int OBVIOUS
    <2>1. Under(k) \in SUBSET Under(l) /\ Under(k) # Under(l)
      <3>1. k \in Under(l) /\ k \notin Under(k) BY <1>3, <2>0
      <3>2. \A u \in Under(k) : u \in Under(l) BY <1>3, <2>0
      <3> HIDE DEF Under
      <3> QED BY <3>1, <3>2
    <2> HIDE DEF Under
    <2>2. IsFiniteSet(Under(l)) /\ Cardinality(Under(k)) \in Nat /\ Cardinality(Under(l)) \in Nat
      <3> HIDE DEF n
      <3>1. n \in Nat BY <1>1
      <3> QED BY <1>2, <3>1
    <2>3. Cardinality(Under(k)) <= Cardinality(Under(l)) /\ Cardinality(Under(k)) # Cardinality(Under(l))
      BY <2>1, <2>2, FS_Subset
    <2> QED BY <2>2, <2>3
  <1>4. \A k \in at : rank[k] \in 0..(n - 1) /\ rank[k] = Cardinality(Under(k)) BY <1>2
  <1>5. \A k, l \in at : k < l => rank[k] < rank[l] BY <1>3
  <1>6. \A m : place(m) = CHOOSE k \in at : rank[k] = m - 1
    <2> HIDE DEF Under
    <2> QED BY DEF rank
  <1> HIDE DEF Under
  <1>7. rank \in [at -> 0..(n - 1)] BY <1>4
  <1> HIDE DEF rank, n
  <1>8. rank \in Injection(at, 0..(n - 1))
    <2>1. \A k, l \in at : rank[k] = rank[l] => k = l
      <3> SUFFICES ASSUME NEW k \in at, NEW l \in at, rank[k] = rank[l], k # l PROVE FALSE
        OBVIOUS
      <3>1. k < l \/ l < k OBVIOUS
      <3>2. rank[k] \in Int /\ rank[l] \in Int BY <1>1, <1>4
      <3> QED BY <1>5, <3>1, <3>2
    <2> QED BY <1>7, <2>1 DEF Injection, IsInjective
  <1>9. ASSUME NEW m \in 1..n PROVE place(m) \in at /\ rank[place(m)] = m - 1
    <2>1. IsFiniteSet(0..(n - 1)) /\ Cardinality(0..(n - 1)) = n
      <3>1. 0 \in Int /\ n - 1 \in Int BY <1>1
      <3> QED BY <1>1, <3>1, FS_Interval
    <2>2. rank \in Surjection(at, 0..(n - 1)) BY <1>8, <2>1, FS_Injection DEF n
    <2>3. m - 1 \in 0..(n - 1) BY <1>1
    <2>4. \E k \in at : rank[k] = m - 1 BY <2>2, <2>3 DEF Surjection
    <2> QED BY <2>4, <1>6
  <1>10. PickAt(list, at) = [m \in 1..n |-> list[place(m)]]
    BY DEF PickAt, n, Under
  <1> HIDE DEF place
  <1>11. p \in [1..n -> at] /\ \A m \in 1..n : p[m] = place(m) /\ p[m] \in at /\ rank[p[m]] = m - 1
    BY <1>9
  <1>12. PickAt(list, at) \in Seq(S) /\ Len(PickAt(list, at)) = n
    <2>1. \A k \in at : list[k] \in S OBVIOUS
    <2>3. \A m \in 1..n : list[place(m)] \in S BY <1>9, <2>1
    <2> QED BY <1>1, <1>10, <2>3
  <1>13. \A m \in 1..n : PickAt(list, at)[m] = list[p[m]] BY <1>10, <1>11
  <1> HIDE DEF p
  <1>14. ASSUME NEW k \in at PROVE \E m \in 1..n : p[m] = k
    <2>1. rank[k] \in 0..(n - 1) /\ rank[k] + 1 \in 1..n /\ (rank[k] + 1) - 1 = rank[k] BY <1>1, <1>4
    <2>2. rank[p[rank[k] + 1]] = rank[k] /\ p[rank[k] + 1] \in at BY <1>11, <2>1
    <2>3. p[rank[k] + 1] = k BY <1>8, <2>2 DEF Injection, IsInjective
    <2> QED BY <2>1, <2>3
  <1>15. ASSUME NEW u \in 1..n, NEW j \in 1..n, u < j PROVE p[u] < p[j]
    <2>1. p[u] \in at /\ p[j] \in at /\ rank[p[u]] = u - 1 /\ rank[p[j]] = j - 1 BY <1>11
    <2>2. ~(p[j] < p[u])
      <3> SUFFICES ASSUME p[j] < p[u] PROVE FALSE OBVIOUS
      <3>1. rank[p[j]] < rank[p[u]] BY <1>5, <2>1
      <3> QED BY <1>1, <1>15, <2>1, <3>1
    <2>3. p[u] # p[j] BY <1>1, <1>15, <2>1
    <2>4. p[u] \in Int /\ p[j] \in Int
      <3>1. at \in SUBSET Int OBVIOUS
      <3> QED BY <2>1, <3>1
    <2> QED BY <2>2, <2>3, <2>4
  <1>16. Enumerates(p, n, at) BY <1>11, <1>14, <1>15 DEF Enumerates
  <1> QED BY <1>1, <1>12, <1>13, <1>16 DEF n

\* What is picked at n places in a row.
AreFrom(picked, list, a, n) ==
  /\ Len(picked) = n
  /\ \A m \in 1..n : \E j \in 1..n : picked[m] = list[a + j]
  /\ \A j \in 1..n : \E m \in 1..n : picked[m] = list[a + j]
  /\ n > 0 => picked[1] = list[a + 1]

LEMMA PickedFrom ==
  ASSUME NEW S, NEW list \in Seq(S), NEW a \in Nat, NEW n \in Nat, a + n <= Len(list)
  PROVE  /\ PickAt(list, (a + 1)..(a + n)) \in Seq(S)
         /\ AreFrom(PickAt(list, (a + 1)..(a + n)), list, a, n)
  <1> DEFINE at == (a + 1)..(a + n)
  <1>1. at \in SUBSET (1..Len(list))
    <2>1. Len(list) \in Nat OBVIOUS
    <2> QED BY <2>1
  <1>2. Cardinality(at) = n
    <2>1. a + 1 \in Int /\ a + n \in Int /\ a + n - (a + 1) + 1 = n OBVIOUS
    <2> QED BY <2>1, FS_Interval
  <1>3. \A k \in at : k - a \in 1..n /\ a + (k - a) = k OBVIOUS
  <1>4. \A j \in 1..n : a + j \in at OBVIOUS
  <1>5. at \in SUBSET Int OBVIOUS
  <1>6. \A k \in at : a + 1 <= k OBVIOUS
  <1> HIDE DEF at
  <1>7. PICK p : /\ Enumerates(p, n, at)
                 /\ \A m \in 1..n : PickAt(list, at)[m] = list[p[m]]
    BY <1>1, <1>2, PickedAre
  <1>8. \A m \in 1..n : \E j \in 1..n : PickAt(list, at)[m] = list[a + j]
    <2> SUFFICES ASSUME NEW m \in 1..n PROVE \E j \in 1..n : PickAt(list, at)[m] = list[a + j] OBVIOUS
    <2>1. p[m] \in at BY <1>7 DEF Enumerates
    <2>2. p[m] - a \in 1..n /\ a + (p[m] - a) = p[m] BY <1>3, <2>1
    <2>3. PickAt(list, at)[m] = list[a + (p[m] - a)] BY <1>7, <2>2
    <2> QED BY <2>2, <2>3
  <1>9. \A j \in 1..n : \E m \in 1..n : PickAt(list, at)[m] = list[a + j]
    <2> SUFFICES ASSUME NEW j \in 1..n PROVE \E m \in 1..n : PickAt(list, at)[m] = list[a + j] OBVIOUS
    <2>1. PICK m \in 1..n : p[m] = a + j BY <1>4, <1>7 DEF Enumerates
    <2> QED BY <1>7, <2>1
  <1>10. ASSUME n > 0 PROVE PickAt(list, at)[1] = list[a + 1]
    <2>1. 1 \in 1..n BY <1>10
    <2>2. PICK m \in 1..n : p[m] = a + 1 BY <1>4, <1>7, <2>1 DEF Enumerates
    <2>3. m = 1
      <3> SUFFICES ASSUME 1 < m PROVE FALSE BY <2>1
      <3>1. p[1] < p[m] /\ p[1] \in at BY <1>7, <2>1 DEF Enumerates
      <3>2. p[1] \in Int /\ a + 1 <= p[1] BY <1>5, <1>6, <3>1
      <3>3. p[1] < a + 1 BY <2>2, <3>1
      <3> QED BY <3>2, <3>3
    <2> QED BY <1>7, <2>1, <2>2, <2>3
  <1>11. PickAt(list, at) \in Seq(S) /\ Len(PickAt(list, at)) = n
    BY <1>1, <1>2, PickedAre
  <1> QED BY <1>8, <1>9, <1>10, <1>11 DEF at, AreFrom

-----------------------------------------------------------------------------
(* Tokens and q-grams. *)

\* The provers do not know that a literal is a string.
Letter == STRING \cup {"a", "$"}
Chars == Seq(Letter)
Reading == [ret : Seq(Chars), cur : Chars]

LEMMA TokenizeIs ==
  ASSUME NEW str \in Chars
  PROVE  Tokenize(str) \in Seq(Chars)
  <1> DEFINE N == Len(str)
             v == [ret |-> <<>>, cur |-> <<>>]
             Is(f) == f = [u \in 0..N |-> IF u = 0 THEN v ELSE Read(f[u - 1], str[u])]
             s == CHOOSE f : Is(f)
             step == [p \in (1..N) \X Reading |-> Read(p[2], str[p[1]])]
  <1>1. N \in Nat /\ \A u \in 1..N : str[u] \in Letter BY DEF Chars
  <1>2. v \in Reading
    <2>1. <<>> \in Seq(Chars) /\ <<>> \in Chars BY EmptySeq DEF Chars
    <2> QED BY <2>1 DEF Reading
  <1>3. ASSUME NEW t \in Reading, NEW c \in Letter PROVE Read(t, c) \in Reading
    <2>1. ToLower(c) \in Letter BY DEF ToLower, Letter
    <2>2. t.ret \in Seq(Chars) /\ t.cur \in Chars BY DEF Reading
    <2>3. Append(t.cur, ToLower(c)) \in Chars /\ Append(t.ret, t.cur) \in Seq(Chars)
      BY <2>1, <2>2 DEF Chars
    <2>4. <<>> \in Chars BY EmptySeq DEF Chars
    <2> HIDE DEF Chars
    <2> QED BY <2>2, <2>3, <2>4 DEF Read, Reading
  <1>4. \A j \in 1..N, t \in Reading : step[<<j, t>>] = Read(t, str[j]) OBVIOUS
  <1> HIDE DEF step, v
  <1>5. PICK f \in [0..N -> Reading] : Goes(f, N, v, step)
    <2>1. StaysIn(Reading, N, step) BY <1>1, <1>3, <1>4 DEF StaysIn
    <2> HIDE DEF N
    <2> QED BY <1>1, <1>2, <2>1, Recursion
  <1>6. Is(f)
    <2>1. ASSUME NEW k \in 0..N PROVE f[k] = IF k = 0 THEN v ELSE Read(f[k - 1], str[k])
      <3>1. CASE k = 0 BY <3>1, <1>5 DEF Goes
      <3>2. CASE k # 0
        <4>1. k \in 1..N /\ k - 1 \in 0..N BY <1>1, <3>2
        <4>2. f[k - 1] \in Reading BY <4>1
        <4>3. f[k] = step[<<k, f[k - 1]>>] BY <4>1, <1>5 DEF Goes
        <4> QED BY <3>2, <4>1, <4>2, <4>3, <1>4
      <3> QED BY <3>1, <3>2
    <2> QED BY <2>1
  <1>7. Is(s)
    <2> HIDE DEF Is
    <2> QED BY <1>6
  <1>8. Tokenize(str) = IF s[N].cur = <<>> THEN s[N].ret ELSE Append(s[N].ret, s[N].cur)
    BY DEF Tokenize, s, Is, v
  <1> HIDE DEF s
  <1>9. s[0] = v /\ \A k \in 1..N : s[k] = Read(s[k - 1], str[k])
    BY <1>1, <1>7 DEF Is
  <1> DEFINE S == {k \in 0..N : s[k] \in Reading}
  <1>10. 0 \in S BY <1>1, <1>2, <1>9
  <1>11. \A k \in 1..N : k - 1 \in S => k \in S
    <2> SUFFICES ASSUME NEW k \in 1..N, s[k - 1] \in Reading PROVE s[k] \in Reading
      BY <1>1
    <2> HIDE DEF N
    <2> QED BY <1>1, <1>3, <1>9
  <1>12. N \in S
    <2> HIDE DEF S, N
    <2> QED BY <1>1, <1>10, <1>11, Through
  <1>13. s[N].ret \in Seq(Chars) /\ s[N].cur \in Chars BY <1>12 DEF Reading
  <1> HIDE DEF N
  <1> QED BY <1>8, <1>13

LEMMA QGramsAre ==
  ASSUME NEW word \in Chars
  PROVE  GetQGrams(word) \in Seq(Chars)
  <1> DEFINE low == [u \in 1..Len(word) |-> ToLower(word[u])]
             at == {u \in 1..Len(word) : ToLower(word[u]) \notin Separators}
  <1>1. low \in Seq(Letter) /\ Len(low) = Len(word)
    <2>1. Len(word) \in Nat /\ \A u \in 1..Len(word) : word[u] \in Letter BY DEF Chars
    <2>2. \A u \in 1..Len(word) : ToLower(word[u]) \in Letter BY <2>1 DEF ToLower, Letter
    <2> QED BY <2>1, <2>2
  <1>2. Normalize(word) = PickAt(low, at) BY DEF Normalize
  <1>3. at \in SUBSET (1..Len(low)) BY <1>1
  <1> HIDE DEF low, at
  <1>4. Normalize(word) \in Seq(Letter) BY <1>1, <1>2, <1>3, PickedAre
  <1> DEFINE s == <<"$", "$">> \o Normalize(word)
  <1>5. s \in Seq(Letter) /\ Len(s) = Len(Normalize(word)) + 2
    <2>1. <<"$", "$">> \in Seq(Letter) /\ Len(<<"$", "$">>) = 2 BY DEF Letter
    <2> QED BY <1>4, <2>1
  <1>6. Len(s) - 2 \in Nat BY <1>4, <1>5
  <1>7. GetQGrams(word) = [u \in 1..Len(s) - 2 |-> SubSeq(s, u, u + 2)] BY DEF GetQGrams
  <1> HIDE DEF s
  <1>8. \A u \in 1..Len(s) - 2 : SubSeq(s, u, u + 2) \in Chars BY <1>5 DEF Chars
  <1> HIDE DEF Chars
  <1> QED BY <1>6, <1>7, <1>8

-----------------------------------------------------------------------------
(* Posting lists. *)

Posting == [id : Nat, val : Nat]
Postings == Seq(Posting)
GramLists == UNION {[D -> Postings] : D \in SUBSET Chars}

LEMMA CountInIs ==
  ASSUME NEW list \in Postings, NEW tid \in Nat
  PROVE  CountIn(list, tid) \in Postings
  <1>1. [id |-> tid, val |-> 1] \in Posting BY DEF Posting
  <1>2. CASE list = <<>>
    <2>1. Append(list, [id |-> tid, val |-> 1]) \in Postings BY <1>1 DEF Postings
    <2> QED BY <1>2, <2>1 DEF CountIn
  <1>3. CASE list # <<>>
    <2>1. Front(list) \in Postings /\ Last(list) \in Posting BY <1>3, FrontIs DEF Postings
    <2>2. [id |-> tid, val |-> Last(list).val + 1] \in Posting BY <2>1 DEF Posting
    <2>3. <<[id |-> tid, val |-> Last(list).val + 1]>> \in Seq(Posting) BY <2>2
    <2>4. Front(list) \o <<[id |-> tid, val |-> Last(list).val + 1]>> \in Seq(Posting)
      BY <2>1, <2>3 DEF Postings
    <2>5. Append(list, [id |-> tid, val |-> 1]) \in Postings BY <1>1 DEF Postings
    <2> QED BY <2>4, <2>5 DEF CountIn, Postings
  <1> QED BY <1>2, <1>3

LEMMA CountedIs ==
  ASSUME NEW grams \in GramLists, NEW q \in Chars, NEW tid \in Nat
  PROVE  Counted(grams, q, tid) \in GramLists
  <1>1. PICK D \in SUBSET Chars : grams \in [D -> Postings] BY DEF GramLists
  <1>2. DOMAIN grams = D BY <1>1
  <1>3. <<>> \in Postings BY EmptySeq DEF Postings
  <1>4. ASSUME NEW x \in D \cup {q}
        PROVE  (IF x # q THEN grams[x]
                ELSE CountIn(IF q \in DOMAIN grams THEN grams[q] ELSE <<>>, tid)) \in Postings
    <2>1. CASE x # q BY <1>1, <2>1
    <2>2. CASE x = q /\ q \in D
      <3>1. grams[q] \in Postings BY <1>1, <2>2
      <3> QED BY <1>2, <2>2, <3>1, CountInIs
    <2>3. CASE x = q /\ q \notin D BY <1>2, <1>3, <2>3, CountInIs
    <2> QED BY <2>1, <2>2, <2>3
  <1>5. Counted(grams, q, tid) \in [D \cup {q} -> Postings] BY <1>2, <1>4 DEF Counted
  <1>6. D \cup {q} \in SUBSET Chars OBVIOUS
  <1> QED BY <1>5, <1>6 DEF GramLists

LEMMA GramsOfIs ==
  ASSUME NEW grams \in GramLists, NEW token \in Chars, NEW tid \in Nat
  PROVE  GramsOf(grams, token, tid) \in GramLists
  <1> DEFINE qs == GetQGrams(token)
             N == Len(qs)
             Is(f) == f = [k \in 0..N |-> IF k = 0 THEN grams ELSE Counted(f[k - 1], qs[k], tid)]
             s == CHOOSE f : Is(f)
             step == [p \in (1..N) \X GramLists |-> Counted(p[2], qs[p[1]], tid)]
  <1>1. N \in Nat /\ \A k \in 1..N : qs[k] \in Chars BY QGramsAre
  <1>2. GramsOf(grams, token, tid) = s[N] BY DEF GramsOf
  <1> HIDE DEF qs
  <1>3. ASSUME NEW t \in GramLists, NEW k \in 1..N PROVE Counted(t, qs[k], tid) \in GramLists
    BY <1>1, CountedIs
  <1>4. \A j \in 1..N, t \in GramLists : step[<<j, t>>] = Counted(t, qs[j], tid) OBVIOUS
  <1> HIDE DEF step, N
  <1>5. PICK f \in [0..N -> GramLists] : Goes(f, N, grams, step)
    <2>1. StaysIn(GramLists, N, step) BY <1>3, <1>4 DEF StaysIn
    <2> QED BY <1>1, <2>1, Recursion
  <1>6. Is(f)
    <2>1. ASSUME NEW k \in 0..N PROVE f[k] = IF k = 0 THEN grams ELSE Counted(f[k - 1], qs[k], tid)
      <3>1. CASE k = 0 BY <3>1, <1>5 DEF Goes
      <3>2. CASE k # 0
        <4>1. k \in 1..N /\ k - 1 \in 0..N BY <1>1, <3>2
        <4>2. f[k - 1] \in GramLists BY <4>1
        <4>3. f[k] = step[<<k, f[k - 1]>>] BY <4>1, <1>5 DEF Goes
        <4> QED BY <3>2, <4>1, <4>2, <4>3, <1>4
      <3> QED BY <3>1, <3>2
    <2> QED BY <2>1
  <1>7. Is(s)
    <2> HIDE DEF Is
    <2> QED BY <1>6
  <1> HIDE DEF s
  <1>8. s[0] = grams /\ \A k \in 1..N : s[k] = Counted(s[k - 1], qs[k], tid)
    BY <1>1, <1>7 DEF Is
  <1> DEFINE S == {k \in 0..N : s[k] \in GramLists}
  <1>9. 0 \in S BY <1>1, <1>8
  <1>10. \A k \in 1..N : k - 1 \in S => k \in S BY <1>1, <1>3, <1>8
  <1>11. N \in S
    <2> HIDE DEF S
    <2> QED BY <1>1, <1>9, <1>10, Through
  <1> QED BY <1>2, <1>11

LEMMA OneMore ==
  ASSUME NEW T, NEW a \in Seq(T), NEW l \in T
  PROVE  /\ a \o <<l>> \in Seq(T) /\ Len(a \o <<l>>) = Len(a) + 1 /\ (a \o <<l>>)[Len(a) + 1] = l
         /\ \A u \in 1..Len(a) : (a \o <<l>>)[u] = a[u]
  <1> DEFINE b == <<l>>
  <1>1. b \in Seq(T) /\ Len(b) = 1 /\ b[1] = l /\ Len(a) \in Nat OBVIOUS
  <1> HIDE DEF b
  <1>2. a \in Seq(T) OBVIOUS
  <1>3. /\ a \o b \in Seq(T) /\ Len(a \o b) = Len(a) + Len(b)
        /\ \A u \in 1..Len(a) + Len(b) : (a \o b)[u] = IF u <= Len(a) THEN a[u] ELSE b[u - Len(a)]
    BY ONLY <1>1, <1>2, ConcatProperties
  <1>4. /\ Len(a) + 1 \in 1..Len(a) + Len(b) /\ ~(Len(a) + 1 <= Len(a)) /\ Len(a) + 1 - Len(a) = 1
        /\ \A u \in 1..Len(a) : u \in 1..Len(a) + Len(b) /\ u <= Len(a)
    BY ONLY <1>1
  <1>5. (a \o b)[Len(a) + 1] = b[1] /\ \A u \in 1..Len(a) : (a \o b)[u] = a[u]
    BY ONLY <1>3, <1>4
  <1> QED BY ONLY <1>1, <1>3, <1>5 DEF b

\* Lists sorted and added up are rising by id.
LEMMA AddUpIs ==
  ASSUME NEW tl \in Postings, NEW e \in Posting
  PROVE  /\ AddUp(tl, e) \in Postings /\ AddUp(tl, e) # <<>> /\ Last(AddUp(tl, e)).id = e.id
         /\ (Ascending(tl) /\ (tl # <<>> => Last(tl).id <= e.id)) => Ascending(AddUp(tl, e))
  <1> DEFINE n == Len(tl)
             new == AddUp(tl, e)
  <1>0. n \in Nat BY DEF Postings
  <1>1. CASE tl # <<>> /\ Last(tl).id = e.id
    <2>1. /\ n \in Nat \ {0} /\ Front(tl) \in Postings /\ Len(Front(tl)) = n - 1
          /\ \A u \in 1..(n - 1) : Front(tl)[u] = tl[u]
          /\ Last(tl) \in Posting /\ Last(tl) = tl[n]
      BY <1>1, FrontIs DEF Postings
    <2> DEFINE l == [e EXCEPT !.val = @ + Last(tl).val]
    <2>2. l \in Posting /\ l.id = e.id BY <2>1 DEF Posting
    <2>3. new = Front(tl) \o <<l>> BY <1>1 DEF AddUp
    <2> HIDE DEF l, new
    <2>4. <<l>> \in Seq(Posting) /\ Len(<<l>>) = 1 /\ <<l>>[1] = l BY <2>2
    <2>5. /\ new \in Seq(Posting) /\ Len(new) = n /\ new[n] = l
          /\ \A u \in 1..(n - 1) : new[u] = tl[u]
      <3> DEFINE a == Front(tl)
      <3>1. a \in Seq(Posting) /\ Len(a) = n - 1 /\ l \in Posting /\ new = a \o <<l>>
        BY <2>1, <2>2, <2>3 DEF Postings
      <3>2. \A u \in 1..(n - 1) : a[u] = tl[u] BY <2>1
      <3> HIDE DEF a, n
      <3>3. n - 1 + 1 = n /\ n \in Nat BY <2>1 DEF n
      <3>4. /\ new \in Seq(Posting) /\ Len(new) = Len(a) + 1 /\ new[Len(a) + 1] = l
            /\ \A u \in 1..Len(a) : new[u] = a[u]
        BY <3>1, OneMore
      <3> QED BY <3>1, <3>2, <3>3, <3>4
    <2>6. new # <<>> BY <2>1, <2>5, EmptySeq
    <2>7. Last(new).id = e.id BY <2>2, <2>5 DEF Last
    <2>8. ASSUME Ascending(tl) PROVE Ascending(new)
      <3> SUFFICES ASSUME NEW u \in 1..(n - 1) PROVE new[u].id < new[u + 1].id
        BY <2>5 DEF Ascending
      <3>1. tl[u].id < tl[u + 1].id BY <2>8 DEF Ascending
      <3>2. CASE u + 1 = n BY <1>1, <2>1, <2>2, <2>5, <3>1, <3>2
      <3>3. CASE u + 1 # n
        <4>1. u + 1 \in 1..(n - 1) BY <2>1, <3>3
        <4> QED BY <2>5, <3>1, <4>1
      <3> QED BY <3>2, <3>3
    <2> QED BY <2>5, <2>6, <2>7, <2>8 DEF Postings, new
  <1>2. CASE tl = <<>> \/ Last(tl).id # e.id
    <2>1. new = Append(tl, e) BY <1>2 DEF AddUp
    <2> HIDE DEF new
    <2>2. /\ new \in Seq(Posting) /\ Len(new) = n + 1 /\ new[n + 1] = e
          /\ \A u \in 1..n : new[u] = tl[u]
      BY <2>1 DEF Postings
    <2>3. new # <<>> BY <1>0, <2>2, EmptySeq
    <2>4. Last(new).id = e.id BY <2>2 DEF Last
    <2>5. ASSUME Ascending(tl), tl # <<>> => Last(tl).id <= e.id PROVE Ascending(new)
      <3> SUFFICES ASSUME NEW u \in 1..n PROVE new[u].id < new[u + 1].id
        BY <1>0, <2>2 DEF Ascending
      <3>1. CASE u = n
        <4>1. tl # <<>>
          <5> SUFFICES ASSUME tl = <<>> PROVE FALSE OBVIOUS
          <5> QED BY EmptySeq
        <4>2. Last(tl) = tl[n] /\ Last(tl).id \in Nat /\ e.id \in Nat
          <5>1. Last(tl) \in Posting /\ Last(tl) = tl[n] BY <4>1, FrontIs DEF Postings
          <5> QED BY <5>1 DEF Posting
        <4>3. Last(tl).id < e.id BY <1>2, <2>5, <4>1, <4>2
        <4> QED BY <2>2, <3>1, <4>2, <4>3
      <3>2. CASE u # n
        <4>1. u \in 1..(n - 1) /\ u + 1 \in 1..n BY <1>0, <3>2
        <4>2. tl[u].id < tl[u + 1].id BY <2>5, <4>1 DEF Ascending
        <4> QED BY <2>2, <4>1, <4>2
      <3> QED BY <3>1, <3>2
    <2> QED BY <2>2, <2>3, <2>4, <2>5 DEF Postings, new
  <1> QED BY <1>1, <1>2

LEMMA SortedUpIs ==
  ASSUME NEW list \in Postings
  PROVE  SortedUp(list) \in Postings /\ Ascending(SortedUp(list))
  <1> DEFINE key == [k \in DOMAIN list |-> list[k].id]
             sorted == SortBy(list, key)
             N == Len(sorted)
             Is(f) == f = [k \in 0..N |-> IF k = 0 THEN <<>> ELSE AddUp(f[k - 1], sorted[k])]
             s == CHOOSE f : Is(f)
             step == [p \in (1..N) \X Postings |-> AddUp(p[2], sorted[p[1]])]
  <1>1. /\ DOMAIN list = 1..Len(list) /\ Len(list) \in Nat
        /\ \A k \in 1..Len(list) : list[k] \in Posting /\ list[k].id \in Int
    <2>1. \A k \in 1..Len(list) : list[k] \in Posting BY DEF Postings
    <2>2. \A x \in Posting : x.id \in Int BY DEF Posting
    <2>3. DOMAIN list = 1..Len(list) /\ Len(list) \in Nat BY DEF Postings
    <2> QED BY <2>1, <2>2, <2>3
  <1>2. key \in [1..Len(list) -> Int] /\ \A k \in 1..Len(list) : key[k] = list[k].id BY <1>1
  <1>3. SortedUp(list) = s[N] BY DEF SortedUp
  <1> HIDE DEF key
  <1>4. /\ sorted \in Seq(Posting) /\ N = Len(list)
        /\ \E p : /\ Permutes(p, N) /\ Rising(p, N, key)
                  /\ \A m \in 1..N : sorted[m] = list[p[m]]
    BY <1>2, SortedIs DEF Postings
  <1> HIDE DEF sorted
  <1>5. N \in Nat /\ \A k \in 1..N : sorted[k] \in Posting BY <1>4
  <1>6. \A k \in 1..N : k - 1 \in 1..N => sorted[k - 1].id <= sorted[k].id
    <2>1. PICK p : /\ Permutes(p, N) /\ Rising(p, N, key)
                   /\ \A m \in 1..N : sorted[m] = list[p[m]]
      BY <1>4
    <2> SUFFICES ASSUME NEW k \in 1..N, k - 1 \in 1..N PROVE sorted[k - 1].id <= sorted[k].id
      OBVIOUS
    <2>2. p[k - 1] \in 1..Len(list) /\ p[k] \in 1..Len(list) BY <1>4, <2>1 DEF Permutes
    <2>3. key[p[k - 1]] <= key[p[k]]
      <3>1. k - 1 < k BY <1>5
      <3> QED BY <2>1, <3>1 DEF Rising
    <2> QED BY <1>2, <2>1, <2>2, <2>3
  <1>7. \A j \in 1..N, t \in Postings : step[<<j, t>>] = AddUp(t, sorted[j]) OBVIOUS
  <1>8. <<>> \in Postings BY EmptySeq DEF Postings
  <1> HIDE DEF step, N
  <1>9. PICK f \in [0..N -> Postings] : Goes(f, N, <<>>, step)
    <2>1. StaysIn(Postings, N, step) BY <1>5, <1>7, AddUpIs DEF StaysIn
    <2> QED BY <1>5, <1>8, <2>1, Recursion
  <1>10. Is(f)
    <2>1. ASSUME NEW k \in 0..N PROVE f[k] = IF k = 0 THEN <<>> ELSE AddUp(f[k - 1], sorted[k])
      <3>1. CASE k = 0 BY <3>1, <1>9 DEF Goes
      <3>2. CASE k # 0
        <4>1. k \in 1..N /\ k - 1 \in 0..N BY <1>5, <3>2
        <4>2. f[k - 1] \in Postings BY <4>1
        <4>3. f[k] = step[<<k, f[k - 1]>>] BY <4>1, <1>9 DEF Goes
        <4> QED BY <3>2, <4>1, <4>2, <4>3, <1>7
      <3> QED BY <3>1, <3>2
    <2> QED BY <2>1
  <1>11. Is(s)
    <2> HIDE DEF Is
    <2> QED BY <1>10
  <1> HIDE DEF s
  <1>12. s[0] = <<>> /\ \A k \in 1..N : s[k] = AddUp(s[k - 1], sorted[k])
    BY <1>5, <1>11 DEF Is
  <1> DEFINE S == {k \in 0..N : /\ s[k] \in Postings /\ Ascending(s[k])
                                /\ IF k = 0 THEN s[k] = <<>>
                                   ELSE s[k] # <<>> /\ Last(s[k]).id = sorted[k].id}
  <1>13. 0 \in S
    <2>1. Ascending(<<>>)
      <3>1. Len(<<>>) = 0 OBVIOUS
      <3> QED BY <3>1 DEF Ascending
    <2> QED BY <1>5, <1>8, <1>12, <2>1
  <1>14. ASSUME NEW k \in 1..N, k - 1 \in S PROVE k \in S
    <2>1. s[k] = AddUp(s[k - 1], sorted[k]) /\ sorted[k] \in Posting /\ k # 0 /\ k \in 0..N
      BY <1>5, <1>12
    <2>2. s[k - 1] \in Postings /\ Ascending(s[k - 1]) BY <1>14
    <2>3. s[k - 1] # <<>> => Last(s[k - 1]).id <= sorted[k].id
      <3> SUFFICES ASSUME s[k - 1] # <<>> PROVE Last(s[k - 1]).id <= sorted[k].id OBVIOUS
      <3>1. k - 1 # 0 /\ Last(s[k - 1]).id = sorted[k - 1].id BY <1>14
      <3>2. k - 1 \in 1..N BY <1>5, <3>1
      <3> QED BY <1>6, <3>1, <3>2
    <2>4. s[k] \in Postings /\ s[k] # <<>> /\ Last(s[k]).id = sorted[k].id /\ Ascending(s[k])
      BY <2>1, <2>2, <2>3, AddUpIs
    <2> QED BY <2>1, <2>4
  <1>15. N \in S
    <2> HIDE DEF S
    <2> QED BY <1>5, <1>13, <1>14, Through
  <1> QED BY <1>3, <1>15

-----------------------------------------------------------------------------
(* The index while it is built. *)

NameRec == [gid : Nat, name : Chars]
IndexType == [names : Seq(NameRec), toks : Seq(Chars), inv : Seq(Postings), grams : GramLists]

\* The names up to n, each once and in their order.
UpTo(list, n) == Ascending(list) /\ \A u \in 1..Len(list) : list[u].id <= n
ListsSound(x) ==
  /\ Len(x.toks) = Len(x.inv)
  /\ \A t \in 1..Len(x.inv) : UpTo(x.inv[t], Len(x.names))
Indices == {x \in IndexType : ListsSound(x)}

LEMMA NotedIs ==
  ASSUME NEW list \in Postings, NEW n \in Nat, UpTo(list, n), NEW score \in Nat
  PROVE  Noted(list, n, score) \in Postings /\ UpTo(Noted(list, n, score), n)
  <1> DEFINE e == [id |-> n, val |-> score]
             m == Len(list)
  <1>1. CASE list # <<>> /\ Last(list).id = n BY <1>1 DEF Noted
  <1>2. CASE list = <<>> \/ Last(list).id # n
    <2>1. Noted(list, n, score) = Append(list, e) BY <1>2 DEF Noted
    <2>2. e \in Posting /\ e.id = n BY DEF Posting
    <2> HIDE DEF e
    <2>3. /\ Append(list, e) \in Postings /\ Len(Append(list, e)) = m + 1 /\ m \in Nat
          /\ Append(list, e)[m + 1] = e /\ \A u \in 1..m : Append(list, e)[u] = list[u]
      BY <2>2 DEF Postings
    <2>4. \A u \in 1..m : list[u].id < n
      <3>1. CASE list = <<>>
        <4>1. m = 0 BY <3>1
        <4> QED BY <4>1
      <3>2. CASE list # <<>>
        <4>1. m \in Nat \ {0} /\ Last(list) = list[m] BY <3>2, FrontIs DEF Postings
        <4> DEFINE S == {k \in 0..m - 1 : list[m - k].id < n}
        <4>2. \A u \in 1..m : list[u].id \in Nat /\ list[u].id <= n
          <5>1. \A u \in 1..m : list[u] \in Posting BY DEF Postings
          <5> QED BY <5>1 DEF Posting, UpTo
        <4>3. list[m].id < n
          <5>1. list[m].id <= n /\ list[m].id # n /\ list[m].id \in Nat BY <1>2, <3>2, <4>1, <4>2
          <5> QED BY <5>1
        <4>4. 0 \in S BY <4>1, <4>3
        <4>5. ASSUME NEW k \in 1..m - 1, k - 1 \in S PROVE k \in S
          <5>1. m - k \in 1..m - 1 /\ (m - k) + 1 = m - (k - 1) /\ k \in 0..m - 1 BY <4>1
          <5>2. list[m - k].id < list[m - (k - 1)].id BY <5>1 DEF UpTo, Ascending
          <5>3. list[m - (k - 1)].id < n BY <4>5
          <5>4. list[m - k].id \in Nat /\ list[m - (k - 1)].id \in Nat
            <6>1. m - k \in 1..m /\ m - (k - 1) \in 1..m BY <4>1
            <6> QED BY <6>1, <4>2
          <5> QED BY <5>1, <5>2, <5>3, <5>4
        <4>6. \A k \in 0..m - 1 : k \in S
          <5>1. m - 1 \in Nat BY <4>1
          <5> HIDE DEF S, m
          <5> QED BY <5>1, <4>4, <4>5, Through
        <4>7. \A u \in 1..m : m - u \in 0..m - 1 /\ m - (m - u) = u BY <4>1
        <4> QED BY <4>6, <4>7
      <3> QED BY <3>1, <3>2
    <2>5. Ascending(Append(list, e))
      <3> SUFFICES ASSUME NEW u \in 1..m
                   PROVE  Append(list, e)[u].id < Append(list, e)[u + 1].id
        BY <2>3 DEF Ascending
      <3>1. CASE u = m BY <2>2, <2>3, <2>4, <3>1
      <3>2. CASE u # m
        <4>1. u \in 1..(m - 1) /\ u + 1 \in 1..m BY <2>3, <3>2
        <4>2. list[u].id < list[u + 1].id BY <4>1 DEF UpTo, Ascending
        <4> QED BY <2>3, <4>1, <4>2
      <3> QED BY <3>1, <3>2
    <2>6. ASSUME NEW u \in 1..Len(Append(list, e)) PROVE Append(list, e)[u].id <= n
      <3>1. CASE u = m + 1 BY <2>2, <2>3, <3>1
      <3>2. CASE u # m + 1
        <4>1. u \in 1..m BY <2>3, <3>2
        <4> QED BY <2>3, <4>1 DEF UpTo
      <3> QED BY <3>1, <3>2
    <2> QED BY <2>1, <2>3, <2>5, <2>6 DEF UpTo
  <1> QED BY <1>1, <1>2

LEMMA AddTokenIs ==
  ASSUME NEW x \in Indices, NEW token \in Chars, NEW score \in Nat
  PROVE  /\ AddToken(x, token, Len(x.names), score) \in Indices
         /\ AddToken(x, token, Len(x.names), score).names = x.names
  <1> DEFINE tid == IndexOf(x.toks, token)
             nid == Len(x.names)
             y == AddToken(x, token, nid, score)
  <1>1. /\ x \in IndexType /\ x.names \in Seq(NameRec) /\ x.toks \in Seq(Chars)
        /\ x.inv \in Seq(Postings) /\ x.grams \in GramLists
        /\ Len(x.toks) = Len(x.inv) /\ nid \in Nat
        /\ \A t \in 1..Len(x.inv) : x.inv[t] \in Postings /\ UpTo(x.inv[t], nid)
    <2>1. x \in IndexType /\ ListsSound(x) BY DEF Indices
    <2>2. x.names \in Seq(NameRec) /\ x.inv \in Seq(Postings) BY <2>1 DEF IndexType
    <2>3. nid \in Nat /\ \A t \in 1..Len(x.inv) : x.inv[t] \in Postings BY <2>2
    <2> QED BY <2>1, <2>2, <2>3 DEF IndexType, ListsSound
  <1>2. tid \in 1..Len(x.toks) + 1 /\ Len(x.toks) \in Nat /\ DOMAIN x.toks = 1..Len(x.toks)
    <2>1. Len(x.toks) \in Nat /\ DOMAIN x.toks = 1..Len(x.toks) BY <1>1
    <2>2. tid \in 1..Len(x.toks) + 1
      <3>1. CASE \E u \in DOMAIN x.toks : x.toks[u] = token
        <4>1. tid \in DOMAIN x.toks BY <3>1 DEF IndexOf
        <4> QED BY <2>1, <4>1
      <3>2. CASE ~ \E u \in DOMAIN x.toks : x.toks[u] = token
        <4>1. tid = Len(x.toks) + 1 BY <3>2 DEF IndexOf
        <4> QED BY <2>1, <4>1
      <3> QED BY <3>1, <3>2
    <2> QED BY <2>1, <2>2
  <1> HIDE DEF tid
  <1> DEFINE new == tid > Len(x.toks)
             toks == IF new THEN Append(x.toks, token) ELSE x.toks
             inv == IF new THEN Append(x.inv, Noted(<<>>, nid, score))
                    ELSE [x.inv EXCEPT ![tid] = Noted(x.inv[tid], nid, score)]
             grams == GramsOf(x.grams, token, tid)
  <1>3. y = [x EXCEPT !.toks = toks, !.inv = inv, !.grams = grams] BY DEF AddToken, tid
  <1>4. grams \in GramLists BY <1>1, <1>2, GramsOfIs
  <1>5. /\ toks \in Seq(Chars) /\ inv \in Seq(Postings) /\ Len(toks) = Len(inv)
        /\ \A t \in 1..Len(inv) : UpTo(inv[t], nid)
    <2>1. CASE new
      <3>1. <<>> \in Postings /\ UpTo(<<>>, nid)
        <4>1. <<>> \in Postings /\ Len(<<>>) = 0 BY EmptySeq DEF Postings
        <4> QED BY <4>1 DEF UpTo, Ascending
      <3> DEFINE l == Noted(<<>>, nid, score)
      <3>2. l \in Postings /\ UpTo(l, nid) BY <1>1, <3>1, NotedIs
      <3>3. toks = Append(x.toks, token) /\ inv = Append(x.inv, l) BY <2>1
      <3> HIDE DEF l, toks, inv, new, nid
      <3>4. toks \in Seq(Chars) /\ Len(toks) = Len(x.toks) + 1 BY <1>1, <3>3
      <3>5. /\ inv \in Seq(Postings) /\ Len(inv) = Len(x.inv) + 1 /\ inv[Len(x.inv) + 1] = l
            /\ \A t \in 1..Len(x.inv) : inv[t] = x.inv[t]
        BY <1>1, <3>2, <3>3
      <3>6. ASSUME NEW t \in 1..Len(inv) PROVE UpTo(inv[t], nid)
        <4>1. Len(x.inv) \in Nat BY <1>1
        <4>2. CASE t = Len(x.inv) + 1 BY <3>2, <3>5, <4>2
        <4>3. CASE t # Len(x.inv) + 1
          <5>1. t \in 1..Len(x.inv) BY <3>5, <4>1, <4>3
          <5> QED BY <1>1, <3>5, <5>1
        <4> QED BY <4>2, <4>3
      <3> QED BY <1>1, <3>4, <3>5, <3>6
    <2>2. CASE ~new
      <3>1. tid \in 1..Len(x.inv) BY <1>1, <1>2, <2>2
      <3> DEFINE l == Noted(x.inv[tid], nid, score)
      <3>2. l \in Postings /\ UpTo(l, nid) BY <1>1, <3>1, NotedIs
      <3>3. toks = x.toks /\ inv = [x.inv EXCEPT ![tid] = l] BY <2>2
      <3> HIDE DEF l, toks, inv, new, nid
      <3>4. /\ inv \in Seq(Postings) /\ Len(inv) = Len(x.inv)
            /\ \A t \in 1..Len(x.inv) : inv[t] = IF t = tid THEN l ELSE x.inv[t]
        BY <1>1, <3>1, <3>2, <3>3
      <3> QED BY <1>1, <3>2, <3>3, <3>4
    <2> QED BY <2>1, <2>2
  <1> HIDE DEF toks, inv, grams, y
  <1>6. y \in IndexType /\ y.names = x.names /\ y.toks = toks /\ y.inv = inv
    BY <1>1, <1>3, <1>4, <1>5 DEF IndexType
  <1>7. ListsSound(y) BY <1>5, <1>6 DEF ListsSound
  <1> QED BY <1>6, <1>7 DEF Indices, y

\* A name is added to the names, and nothing else is.
LEMMA AddNameIs ==
  ASSUME NEW x \in Indices, NEW g, g.gid \in Nat, g.score \in Nat, NEW name \in Chars
  PROVE  /\ AddName(x, g, name) \in Indices
         /\ AddName(x, g, name).names = Append(x.names, [gid |-> g.gid, name |-> name])
  <1> DEFINE nid == Len(x.names) + 1
             tokens == Tokenize(name)
             N == Len(tokens)
             rec == [gid |-> g.gid, name |-> name]
             names == Append(x.names, rec)
             v == [x EXCEPT !.names = names]
             V == {y \in Indices : y.names = names}
             Is(f) == f = [k \in 0..N |-> IF k = 0 THEN v ELSE AddToken(f[k - 1], tokens[k], nid, g.score)]
             s == CHOOSE f : Is(f)
             step == [p \in (1..N) \X V |-> AddToken(p[2], tokens[p[1]], nid, g.score)]
  <1>1. N \in Nat /\ \A k \in 1..N : tokens[k] \in Chars BY TokenizeIs
  <1>2. AddName(x, g, name) = s[N] BY DEF AddName
  <1>3. v \in V
    <2>1. /\ x \in IndexType /\ Len(x.toks) = Len(x.inv) /\ x.names \in Seq(NameRec)
          /\ \A t \in 1..Len(x.inv) : x.inv[t] \in Postings /\ UpTo(x.inv[t], Len(x.names))
      <3>1. x \in IndexType /\ ListsSound(x) BY DEF Indices
      <3>2. x.inv \in Seq(Postings) /\ x.names \in Seq(NameRec) BY <3>1 DEF IndexType
      <3>3. \A t \in 1..Len(x.inv) : x.inv[t] \in Postings BY <3>2
      <3> QED BY <3>1, <3>2, <3>3 DEF ListsSound
    <2>2. rec \in NameRec BY DEF NameRec
    <2> HIDE DEF rec
    <2>3. names \in Seq(NameRec) /\ Len(names) = Len(x.names) + 1 /\ Len(x.names) \in Nat BY <2>1, <2>2
    <2> HIDE DEF names
    <2>4. v \in IndexType /\ v.names = names /\ v.toks = x.toks /\ v.inv = x.inv
      BY <2>1, <2>3 DEF IndexType
    <2> HIDE DEF v
    <2>5. ListsSound(v)
      <3> SUFFICES ASSUME NEW t \in 1..Len(x.inv) PROVE UpTo(x.inv[t], Len(names))
        BY <2>1, <2>4 DEF ListsSound
      <3> SUFFICES ASSUME NEW u \in 1..Len(x.inv[t]) PROVE x.inv[t][u].id <= Len(names)
        BY <2>1 DEF UpTo
      <3>1. x.inv[t][u].id <= Len(x.names) BY <2>1 DEF UpTo
      <3>2. x.inv[t][u].id \in Nat
        <4>1. x.inv[t][u] \in Posting BY <2>1 DEF Postings
        <4> QED BY <4>1 DEF Posting
      <3> QED BY <2>3, <3>1, <3>2
    <2> QED BY <2>4, <2>5 DEF Indices
  <1>4. nid = Len(names)
    <2>1. x.names \in Seq(NameRec) BY DEF Indices, IndexType
    <2> QED BY <2>1
  <1>5. ASSUME NEW t \in V, NEW k \in 1..N PROVE AddToken(t, tokens[k], nid, g.score) \in V
    <2>1. t \in Indices /\ nid = Len(t.names) /\ t.names = names BY <1>4
    <2> HIDE DEF N, tokens, nid, names
    <2> QED BY <1>1, <2>1, AddTokenIs
  <1>6. \A j \in 1..N, t \in V : step[<<j, t>>] = AddToken(t, tokens[j], nid, g.score) OBVIOUS
  <1>7. \A t \in V : t \in Indices /\ t.names = names OBVIOUS
  <1> HIDE DEF step, v, V, nid, tokens, names, N
  <1>8. PICK f \in [0..N -> V] : Goes(f, N, v, step)
    <2>1. StaysIn(V, N, step) BY <1>5, <1>6 DEF StaysIn
    <2> QED BY <1>1, <1>3, <2>1, Recursion
  <1>9. Is(f)
    <2>1. ASSUME NEW k \in 0..N
          PROVE  f[k] = IF k = 0 THEN v ELSE AddToken(f[k - 1], tokens[k], nid, g.score)
      <3>1. CASE k = 0 BY <3>1, <1>8 DEF Goes
      <3>2. CASE k # 0
        <4>1. k \in 1..N /\ k - 1 \in 0..N BY <1>1, <3>2
        <4>2. f[k - 1] \in V BY <4>1
        <4>3. f[k] = step[<<k, f[k - 1]>>] BY <4>1, <1>8 DEF Goes
        <4> QED BY <3>2, <4>1, <4>2, <4>3, <1>6
      <3> QED BY <3>1, <3>2
    <2> QED BY <2>1
  <1>10. Is(s)
    <2> HIDE DEF Is
    <2> QED BY <1>9
  <1> HIDE DEF s
  <1>11. s[0] = v /\ \A k \in 1..N : s[k] = AddToken(s[k - 1], tokens[k], nid, g.score)
    BY <1>1, <1>10 DEF Is
  <1> DEFINE S == {k \in 0..N : s[k] \in V}
  <1>12. 0 \in S BY <1>1, <1>3, <1>11
  <1>13. \A k \in 1..N : k - 1 \in S => k \in S BY <1>1, <1>5, <1>11
  <1>14. N \in S
    <2> HIDE DEF S
    <2>1. N \in Nat BY <1>1
    <2>2. \A k \in 0..N : k \in S BY <2>1, <1>12, <1>13, Through
    <2> QED BY <2>1, <2>2
  <1> QED BY <1>2, <1>7, <1>14 DEF names

-----------------------------------------------------------------------------
(* The names of a group. *)

NamedGroup == [gid : Nat, score : Nat, poly : Nat, attrs : Names, members : Seq(Names)]
Met == [rel : Int, name : Chars]

NamesIn(attrs) == {attrs[u][2] : u \in 1..Len(attrs)}
MetNames(met) == {met[k].name : k \in 1..Len(met)}

LEMMA WordIs == \A w \in Seq(STRING) : w \in Chars
  BY DEF Chars, Letter

LEMMA RatedIs ==
  ASSUME NEW attrs \in Names, NEW more \in Int
  PROVE  Rated(attrs, more) \in Seq(Met) /\ MetNames(Rated(attrs, more)) = NamesIn(attrs)
  <1> DEFINE N == Len(attrs)
             r == Rated(attrs, more)
  <1>1. N \in Nat /\ \A k \in 1..N : attrs[k][2] \in Seq(STRING) BY DEF Names
  <1>2. \A a : NameAttrRel(a) \in Int BY DEF NameAttrRel
  <1>3. r = [k \in 1..N |-> [rel |-> NameAttrRel(attrs[k][1]) + more, name |-> attrs[k][2]]]
    BY DEF Rated
  <1>4. ASSUME NEW k \in 1..N
        PROVE  [rel |-> NameAttrRel(attrs[k][1]) + more, name |-> attrs[k][2]] \in Met
    <2>1. NameAttrRel(attrs[k][1]) + more \in Int BY <1>2
    <2>2. attrs[k][2] \in Chars BY <1>1, WordIs
    <2> QED BY <2>1, <2>2 DEF Met
  <1> HIDE DEF N, r
  <1>5. r \in Seq(Met) /\ Len(r) = N BY <1>1, <1>3, <1>4
  <1>6. \A k \in 1..N : r[k].name = attrs[k][2] BY <1>3
  <1> QED BY <1>5, <1>6 DEF MetNames, NamesIn, r, N

LEMMA MetTogether ==
  ASSUME NEW s \in Seq(Met), NEW t \in Seq(Met)
  PROVE  s \o t \in Seq(Met) /\ MetNames(s \o t) = MetNames(s) \cup MetNames(t)
  <1>1. /\ s \o t \in Seq(Met) /\ Len(s \o t) = Len(s) + Len(t) /\ Len(s) \in Nat /\ Len(t) \in Nat
        /\ \A k \in 1..Len(s) : (s \o t)[k] = s[k]
        /\ \A k \in 1..Len(t) : (s \o t)[Len(s) + k] = t[k]
    OBVIOUS
  <1>2. ASSUME NEW n \in MetNames(s \o t) PROVE n \in MetNames(s) \cup MetNames(t)
    <2>1. PICK k \in 1..Len(s \o t) : n = (s \o t)[k].name BY DEF MetNames
    <2>2. CASE k \in 1..Len(s)
      <3>1. n = s[k].name BY <1>1, <2>1, <2>2
      <3> QED BY <2>2, <3>1 DEF MetNames
    <2>3. CASE k \notin 1..Len(s)
      <3>1. k - Len(s) \in 1..Len(t) /\ Len(s) + (k - Len(s)) = k BY <1>1, <2>3
      <3>2. n = t[k - Len(s)].name BY <1>1, <2>1, <3>1
      <3> QED BY <3>1, <3>2 DEF MetNames
    <2> QED BY <2>2, <2>3
  <1>3. ASSUME NEW n \in MetNames(s) PROVE n \in MetNames(s \o t)
    <2>1. PICK k \in 1..Len(s) : n = s[k].name BY DEF MetNames
    <2>2. k \in 1..Len(s \o t) /\ n = (s \o t)[k].name BY <1>1, <2>1
    <2> QED BY <2>2 DEF MetNames
  <1>4. ASSUME NEW n \in MetNames(t) PROVE n \in MetNames(s \o t)
    <2>1. PICK k \in 1..Len(t) : n = t[k].name BY DEF MetNames
    <2>2. Len(s) + k \in 1..Len(s \o t) /\ n = (s \o t)[Len(s) + k].name BY <1>1, <2>1
    <2> QED BY <2>2 DEF MetNames
  <1> QED BY <1>1, <1>2, <1>3, <1>4

LEMMA NamesOfAre ==
  ASSUME NEW g \in NamedGroup
  PROVE  /\ NamesOf(g) \in Seq(Met)
         /\ MetNames(NamesOf(g)) =
              NamesIn(g.attrs) \cup UNION {NamesIn(g.members[m]) : m \in 1..Len(g.members)}
  <1> DEFINE N == Len(g.members)
             v == Rated(g.attrs, 3)
             V == Seq(Met)
             Is(f) == f = [m \in 0..N |-> IF m = 0 THEN v ELSE f[m - 1] \o Rated(g.members[m], 0)]
             s == CHOOSE f : Is(f)
             step == [p \in (1..N) \X V |-> p[2] \o Rated(g.members[p[1]], 0)]
  <1>1. g.attrs \in Names /\ N \in Nat /\ \A m \in 1..N : g.members[m] \in Names
    <2>1. g.attrs \in Names /\ g.members \in Seq(Names) BY DEF NamedGroup
    <2> QED BY <2>1
  <1>2. NamesOf(g) = s[N] BY DEF NamesOf
  <1>3. v \in V /\ MetNames(v) = NamesIn(g.attrs) BY <1>1, RatedIs
  <1>4. ASSUME NEW m \in 1..N
        PROVE  Rated(g.members[m], 0) \in V /\ MetNames(Rated(g.members[m], 0)) = NamesIn(g.members[m])
    <2> DEFINE attrs == g.members[m]
    <2>1. attrs \in Names /\ 0 \in Int BY <1>1
    <2> HIDE DEF attrs
    <2>2. Rated(attrs, 0) \in Seq(Met) /\ MetNames(Rated(attrs, 0)) = NamesIn(attrs) BY <2>1, RatedIs
    <2> QED BY <2>2 DEF attrs
  <1>5. ASSUME NEW t \in V, NEW m \in 1..N
        PROVE  /\ t \o Rated(g.members[m], 0) \in V
               /\ MetNames(t \o Rated(g.members[m], 0)) = MetNames(t) \cup NamesIn(g.members[m])
    BY <1>4, MetTogether
  <1>6. \A j \in 1..N, t \in V : step[<<j, t>>] = t \o Rated(g.members[j], 0) OBVIOUS
  <1> HIDE DEF step, v, V, N
  <1>7. PICK f \in [0..N -> V] : Goes(f, N, v, step)
    <2>1. StaysIn(V, N, step) BY <1>5, <1>6 DEF StaysIn
    <2> QED BY <1>1, <1>3, <2>1, Recursion
  <1>8. Is(f)
    <2>1. ASSUME NEW k \in 0..N PROVE f[k] = IF k = 0 THEN v ELSE f[k - 1] \o Rated(g.members[k], 0)
      <3>1. CASE k = 0 BY <3>1, <1>7 DEF Goes
      <3>2. CASE k # 0
        <4>1. k \in 1..N /\ k - 1 \in 0..N BY <1>1, <3>2
        <4>2. f[k - 1] \in V BY <4>1
        <4>3. f[k] = step[<<k, f[k - 1]>>] BY <4>1, <1>7 DEF Goes
        <4> QED BY <3>2, <4>1, <4>2, <4>3, <1>6
      <3> QED BY <3>1, <3>2
    <2> QED BY <2>1
  <1>9. Is(s)
    <2> HIDE DEF Is
    <2> QED BY <1>8
  <1> HIDE DEF s
  <1>10. s[0] = v /\ \A k \in 1..N : s[k] = s[k - 1] \o Rated(g.members[k], 0)
    BY <1>1, <1>9 DEF Is
  <1> DEFINE S == {k \in 0..N : /\ s[k] \in V
                                /\ MetNames(s[k]) = NamesIn(g.attrs)
                                                     \cup UNION {NamesIn(g.members[m]) : m \in 1..k}}
  <1>11. 0 \in S
    <2>1. UNION {NamesIn(g.members[m]) : m \in 1..0} = {} OBVIOUS
    <2> QED BY <1>1, <1>3, <1>10, <2>1
  <1>12. ASSUME NEW k \in 1..N, k - 1 \in S PROVE k \in S
    <2>1. /\ s[k] \in V /\ MetNames(s[k]) = MetNames(s[k - 1]) \cup NamesIn(g.members[k])
      <3>1. s[k - 1] \in V BY <1>12
      <3> QED BY <1>5, <1>10, <3>1
    <2>2. MetNames(s[k - 1]) = NamesIn(g.attrs) \cup UNION {NamesIn(g.members[m]) : m \in 1..(k - 1)}
      BY <1>12
    <2>3. 1..k = 1..(k - 1) \cup {k} BY <1>1
    <2>4. (UNION {NamesIn(g.members[m]) : m \in 1..k}) =
            (UNION {NamesIn(g.members[m]) : m \in 1..(k - 1)}) \cup NamesIn(g.members[k])
      <3> DEFINE F(m) == NamesIn(g.members[m])
      <3>1. (UNION {F(m) : m \in 1..k}) = (UNION {F(m) : m \in 1..(k - 1)}) \cup F(k)
        <4> HIDE DEF F
        <4> QED BY <2>3
      <3> QED BY <3>1
    <2>5. k \in 0..N BY <1>1
    <2> QED BY <2>1, <2>2, <2>4, <2>5
  <1>13. N \in S
    <2> HIDE DEF S
    <2> QED BY <1>1, <1>11, <1>12, Through
  <1> QED BY <1>2, <1>13 DEF V, N

\* How well a name fits where it is met first.
FirstRel(g, n) == NamesOf(g)[Min({k \in DOMAIN NamesOf(g) : NamesOf(g)[k].name = n})].rel

\* Each name once, as it was met first, and the best first.
LEMMA UniqueNamesAre ==
  ASSUME NEW g \in NamedGroup
  PROVE  /\ UniqueNames(g) \in Seq(Met)
         /\ MetNames(UniqueNames(g)) = MetNames(NamesOf(g))
         /\ \A u, j \in 1..Len(UniqueNames(g)) :
              UniqueNames(g)[u].name = UniqueNames(g)[j].name => u = j
         /\ \A j \in 1..Len(UniqueNames(g)) :
              UniqueNames(g)[j].rel = FirstRel(g, UniqueNames(g)[j].name)
         /\ \A u, j \in 1..Len(UniqueNames(g)) :
              u < j => UniqueNames(g)[u].rel >= UniqueNames(g)[j].rel
  <1> DEFINE met == NamesOf(g)
             M == Len(met)
             first == {k \in 1..M : \A l \in 1..(k - 1) : met[l].name # met[k].name}
             names == PickAt(met, first)
             key == [k \in 1..Len(names) |-> -names[k].rel]
             U == UniqueNames(g)
             N == Cardinality(first)
  <1>1. met \in Seq(Met) /\ M \in Nat /\ DOMAIN met = 1..M /\ \A k \in 1..M : met[k] \in Met
    <2>1. met \in Seq(Met) BY NamesOfAre
    <2> HIDE DEF met
    <2> QED BY <2>1
  <1>2. U = SortBy(names, key) BY DEF UniqueNames
  <1>3. first \in SUBSET (1..M) OBVIOUS
  <1>4. /\ \A k \in first : k \in 1..M /\ \A l \in 1..(k - 1) : met[l].name # met[k].name
        /\ \A k \in 1..M : (\A l \in 1..(k - 1) : met[l].name # met[k].name) => k \in first
    OBVIOUS
  <1>5. \A n : FirstRel(g, n) = met[Min({k \in 1..M : met[k].name = n})].rel
    BY <1>1 DEF FirstRel
  <1>6. /\ MetNames(met) = {met[k].name : k \in 1..M}
        /\ \A x \in Met : x.rel \in Int
    BY DEF MetNames, Met
  <1> HIDE DEF first, met, U
  <1>7. PICK p : /\ Enumerates(p, N, first)
                 /\ \A m \in 1..N : names[m] = met[p[m]]
    BY <1>1, <1>3, PickedAre
  <1>8. names \in Seq(Met) /\ Len(names) = N /\ N \in Nat
    BY <1>1, <1>3, PickedAre
  <1> HIDE DEF names, N, M
  <1>9. key \in [1..N -> Int] /\ \A k \in 1..N : key[k] = -names[k].rel /\ names[k].rel \in Int
    <2>1. \A k \in 1..N : names[k] \in Met BY <1>8
    <2>2. \A k \in 1..N : names[k].rel \in Int BY <1>6, <2>1
    <2>3. \A k \in 1..N : -names[k].rel \in Int BY <2>2
    <2> QED BY <1>8, <2>2, <2>3
  <1> HIDE DEF key
  <1>10. /\ U \in Seq(Met) /\ Len(U) = N
         /\ \E r : /\ Permutes(r, N) /\ Rising(r, N, key)
                   /\ \A m \in 1..N : U[m] = names[r[m]]
    <2>1. key \in [1..Len(names) -> Int] /\ Len(names) = N BY <1>8, <1>9
    <2>2. /\ U \in Seq(Met) /\ Len(U) = Len(names)
          /\ \E r : /\ Permutes(r, Len(names)) /\ Rising(r, Len(names), key)
                    /\ \A m \in 1..Len(names) : U[m] = names[r[m]]
      <3> DEFINE sorted == SortBy(names, key)
      <3>1. /\ sorted \in Seq(Met) /\ Len(sorted) = Len(names)
            /\ \E r : /\ Permutes(r, Len(names)) /\ Rising(r, Len(names), key)
                      /\ \A m \in 1..Len(names) : sorted[m] = names[r[m]]
        BY <1>8, <2>1, SortedIs
      <3> HIDE DEF sorted
      <3>2. U = sorted BY <1>2 DEF sorted
      <3> QED BY <3>1, <3>2
    <2> QED BY <2>1, <2>2
  <1>11. PICK r : /\ Permutes(r, N) /\ Rising(r, N, key)
                  /\ \A m \in 1..N : U[m] = names[r[m]]
    BY <1>10
  <1>12. ASSUME NEW m \in 1..N
         PROVE  r[m] \in 1..N /\ p[r[m]] \in first /\ U[m] = met[p[r[m]]] /\ U[m] = names[r[m]]
    BY <1>7, <1>11 DEF Permutes, Enumerates
  <1>13. ASSUME NEW k \in first
         PROVE  k \in 1..M /\ Min({l \in 1..M : met[l].name = met[k].name}) = k
    <2> DEFINE S == {l \in 1..M : met[l].name = met[k].name}
    <2>1. k \in S /\ S \subseteq Int BY <1>3
    <2>2. ASSUME NEW l \in S PROVE k <= l
      <3> SUFFICES ASSUME l < k PROVE FALSE BY <2>1
      <3>1. l \in 1..(k - 1) BY <1>1, <2>1
      <3> QED BY <1>4, <3>1
    <2> HIDE DEF S
    <2>3. Min(S) = k BY <2>1, <2>2, LeastIs
    <2> QED BY <1>3, <2>3 DEF S
  <1>14. MetNames(U) = MetNames(met)
    <2>1. ASSUME NEW n \in MetNames(U) PROVE n \in MetNames(met)
      <3>1. PICK m \in 1..N : n = U[m].name BY <1>10 DEF MetNames
      <3>2. p[r[m]] \in 1..M /\ n = met[p[r[m]]].name BY <1>3, <1>12, <3>1
      <3> QED BY <1>6, <3>2
    <2>2. ASSUME NEW n \in MetNames(met) PROVE n \in MetNames(U)
      <3> DEFINE S == {l \in 1..M : met[l].name = n}
      <3>1. S # {} BY <1>6
      <3>2. S \subseteq Nat BY <1>1
      <3> HIDE DEF S
      <3>3. Min(S) \in S /\ \A y \in S : Min(S) <= y BY <3>1, <3>2, LeastIn
      <3>4. PICK k \in S : k = Min(S) BY <3>3
      <3>5. k \in 1..M /\ met[k].name = n BY DEF S
      <3>6. \A l \in 1..(k - 1) : met[l].name # met[k].name
        <4> SUFFICES ASSUME NEW l \in 1..(k - 1), met[l].name = n PROVE FALSE BY <3>5
        <4>1. l \in S BY <1>1, <3>5 DEF S
        <4>2. k <= l BY <3>3, <3>4, <4>1
        <4> QED BY <1>1, <3>5, <4>2
      <3>7. k \in first BY <1>4, <3>5, <3>6
      <3>8. PICK u \in 1..N : p[u] = k BY <1>7, <3>7 DEF Enumerates
      <3>9. PICK m \in 1..N : r[m] = u BY <1>11 DEF Permutes
      <3>10. U[m].name = n BY <1>12, <3>5, <3>8, <3>9
      <3> QED BY <1>10, <3>10 DEF MetNames
    <2> QED BY <2>1, <2>2
  <1>15. ASSUME NEW u \in 1..N, NEW j \in 1..N, U[u].name = U[j].name PROVE u = j
    <2>1. p[r[u]] \in first /\ p[r[j]] \in first /\ met[p[r[u]]].name = met[p[r[j]]].name
      BY <1>12, <1>15
    <2>2. p[r[u]] = p[r[j]] BY <1>13, <2>1
    <2>3. r[u] = r[j]
      <3> SUFFICES ASSUME r[u] # r[j] PROVE FALSE OBVIOUS
      <3>1. r[u] \in 1..N /\ r[j] \in 1..N BY <1>12
      <3>2. r[u] < r[j] \/ r[j] < r[u] BY <1>8, <3>1
      <3>3. p[r[u]] < p[r[j]] \/ p[r[j]] < p[r[u]] BY <1>7, <3>1, <3>2 DEF Enumerates
      <3>4. p[r[u]] \in Int /\ p[r[j]] \in Int
        <4>1. first \in SUBSET Int BY <1>3
        <4> QED BY <2>1, <4>1
      <3> QED BY <2>2, <3>3, <3>4
    <2> QED BY <1>11, <2>3 DEF Permutes
  <1>16. ASSUME NEW j \in 1..N PROVE U[j].rel = FirstRel(g, U[j].name)
    <2>1. Min({l \in 1..M : met[l].name = U[j].name}) = p[r[j]] /\ U[j] = met[p[r[j]]] BY <1>12, <1>13
    <2> QED BY <1>5, <2>1
  <1>17. ASSUME NEW u \in 1..N, NEW j \in 1..N, u < j PROVE U[u].rel >= U[j].rel
    <2>1. key[r[u]] <= key[r[j]] BY <1>11, <1>17 DEF Rising
    <2>2. r[u] \in 1..N /\ r[j] \in 1..N /\ U[u] = names[r[u]] /\ U[j] = names[r[j]] BY <1>12
    <2>3. -names[r[u]].rel <= -names[r[j]].rel /\ names[r[u]].rel \in Int /\ names[r[j]].rel \in Int
      BY <1>9, <2>1, <2>2
    <2>4. names[r[u]].rel >= names[r[j]].rel BY <2>3
    <2> QED BY <2>2, <2>4
  <1> QED BY <1>10, <1>14, <1>15, <1>16, <1>17 DEF U, met

-----------------------------------------------------------------------------
(* The groups in the index. *)

\* The names of a group come after those of the groups before it.
LEMMA AddGroupIs ==
  ASSUME NEW x \in Indices, NEW g \in NamedGroup
  PROVE  /\ AddGroup(x, g) \in Indices
         /\ ~Indexed(g) => AddGroup(x, g) = x
         /\ Indexed(g) =>
              LET n == Len(x.names)
                  new == AddGroup(x, g).names
              IN /\ Len(new) = n + Len(UniqueNames(g))
                 /\ \A u \in 1..n : new[u] = x.names[u]
                 /\ \A j \in 1..Len(UniqueNames(g)) :
                      new[n + j] = [gid |-> g.gid, name |-> UniqueNames(g)[j].name]
  <1> DEFINE U == UniqueNames(g)
             N == Len(U)
             V == Indices
             Is(f) == f = [k \in 0..N |-> IF k = 0 THEN x ELSE AddName(f[k - 1], g, U[k].name)]
             s == CHOOSE f : Is(f)
             step == [p \in (1..N) \X V |-> AddName(p[2], g, U[p[1]].name)]
             rec(k) == [gid |-> g.gid, name |-> U[k].name]
             n == Len(x.names)
  <1>1. N \in Nat /\ g.gid \in Nat /\ g.score \in Nat /\ \A k \in 1..N : U[k].name \in Chars
    <2>1. U \in Seq(Met) BY UniqueNamesAre
    <2> HIDE DEF U
    <2>2. N \in Nat /\ \A k \in 1..N : U[k] \in Met BY <2>1
    <2>3. g.gid \in Nat /\ g.score \in Nat BY DEF NamedGroup
    <2> QED BY <2>2, <2>3 DEF Met
  <1>2. AddGroup(x, g) = IF Indexed(g) THEN s[N] ELSE x BY DEF AddGroup
  <1> HIDE DEF U, N
  <1>3. ASSUME NEW t \in V, NEW k \in 1..N
        PROVE  /\ AddName(t, g, U[k].name) \in V
               /\ AddName(t, g, U[k].name).names = Append(t.names, rec(k))
    BY <1>1, AddNameIs
  <1>4. \A j \in 1..N, t \in V : step[<<j, t>>] = AddName(t, g, U[j].name) OBVIOUS
  <1>5. \A t \in V : t.names \in Seq(NameRec) BY DEF Indices, IndexType
  <1>6. x \in V OBVIOUS
  <1> HIDE DEF step, V
  <1>7. PICK f \in [0..N -> V] : Goes(f, N, x, step)
    <2>1. StaysIn(V, N, step) BY <1>3, <1>4 DEF StaysIn
    <2> QED BY <1>1, <1>6, <2>1, Recursion
  <1>8. Is(f)
    <2>1. ASSUME NEW k \in 0..N PROVE f[k] = IF k = 0 THEN x ELSE AddName(f[k - 1], g, U[k].name)
      <3>1. CASE k = 0 BY <3>1, <1>7 DEF Goes
      <3>2. CASE k # 0
        <4>1. k \in 1..N /\ k - 1 \in 0..N BY <1>1, <3>2
        <4>2. f[k - 1] \in V BY <4>1
        <4>3. f[k] = step[<<k, f[k - 1]>>] BY <4>1, <1>7 DEF Goes
        <4> QED BY <3>2, <4>1, <4>2, <4>3, <1>4
      <3> QED BY <3>1, <3>2
    <2> QED BY <2>1
  <1>9. Is(s)
    <2> HIDE DEF Is
    <2> QED BY <1>8
  <1> HIDE DEF s
  <1>10. s[0] = x /\ \A k \in 1..N : s[k] = AddName(s[k - 1], g, U[k].name)
    BY <1>1, <1>9 DEF Is
  <1>11. n \in Nat BY <1>5, <1>6
  <1> HIDE DEF n, rec
  <1> DEFINE S == {k \in 0..N : /\ s[k] \in V /\ Len(s[k].names) = n + k
                                /\ \A u \in 1..n : s[k].names[u] = x.names[u]
                                /\ \A j \in 1..k : s[k].names[n + j] = rec(j)}
  <1>12. 0 \in S
    <2>1. 0 \in 0..N BY <1>1
    <2> QED BY <1>6, <1>10, <1>11, <2>1 DEF n
  <1>13. ASSUME NEW k \in 1..N, k - 1 \in S PROVE k \in S
    <2> DEFINE old == s[k - 1].names
               new == s[k].names
    <2>1. /\ s[k - 1] \in V /\ Len(old) = n + (k - 1)
          /\ \A u \in 1..n : old[u] = x.names[u]
          /\ \A j \in 1..(k - 1) : old[n + j] = rec(j)
      BY <1>13
    <2>2. s[k] \in V /\ new = Append(old, rec(k)) BY <1>3, <1>10, <2>1
    <2>3. old \in Seq(NameRec) BY <1>5, <2>1
    <2> HIDE DEF old, new
    <2>4. /\ Len(new) = n + k /\ new[n + k] = rec(k)
          /\ \A u \in 1..(n + (k - 1)) : new[u] = old[u]
      BY <1>11, <2>1, <2>2, <2>3
    <2>5. \A u \in 1..n : new[u] = x.names[u]
      <3>1. \A u \in 1..n : u \in 1..(n + (k - 1)) BY <1>11
      <3> QED BY <2>1, <2>4, <3>1
    <2>6. ASSUME NEW j \in 1..k PROVE new[n + j] = rec(j)
      <3>1. CASE j = k BY <2>4, <3>1
      <3>2. CASE j # k
        <4>1. j \in 1..(k - 1) /\ n + j \in 1..(n + (k - 1)) BY <1>11, <3>2
        <4> QED BY <2>1, <2>4, <4>1
      <3> QED BY <3>1, <3>2
    <2>7. k \in 0..N BY <1>1
    <2> QED BY <2>2, <2>4, <2>5, <2>6, <2>7 DEF new
  <1>14. N \in S
    <2> HIDE DEF S
    <2>1. \A k \in 0..N : k \in S BY <1>1, <1>12, <1>13, Through
    <2> QED BY <1>1, <2>1
  <1>15. /\ s[N] \in V /\ Len(s[N].names) = n + N
         /\ \A u \in 1..n : s[N].names[u] = x.names[u]
         /\ \A j \in 1..N : s[N].names[n + j] = rec(j)
    BY <1>14
  <1> QED BY <1>2, <1>6, <1>15 DEF V, U, N, n, rec

\* The names with the id of a group are its own, one after the other.
Laid(names, g) ==
  LET U == UniqueNames(g)
  IN IF ~Indexed(g) THEN \A n \in 1..Len(names) : names[n].gid # g.gid
     ELSE \E a \in Nat :
            /\ a + Len(U) <= Len(names)
            /\ \A n \in 1..Len(names) : names[n].gid = g.gid <=> n \in (a + 1)..(a + Len(U))
            /\ \A j \in 1..Len(U) : names[a + j].name = U[j].name

\* They stay so if names of other groups are added.
LEMMA LaidStays ==
  ASSUME NEW g \in NamedGroup, NEW old \in Seq(NameRec), NEW new \in Seq(NameRec), Laid(old, g),
         Len(old) <= Len(new), \A u \in 1..Len(old) : new[u] = old[u],
         \A u \in 1..Len(new) : u > Len(old) => new[u].gid # g.gid
  PROVE  Laid(new, g)
  <1> DEFINE N == Len(UniqueNames(g))
  <1>1. Len(old) \in Nat /\ Len(new) \in Nat OBVIOUS
  <1>2. N \in Nat
    <2>1. UniqueNames(g) \in Seq(Met) BY UniqueNamesAre
    <2> QED BY <2>1
  <1>3. \A u \in 1..Len(new) : u \in 1..Len(old) \/ u > Len(old) BY <1>1
  <1>4. CASE ~Indexed(g) BY <1>3, <1>4 DEF Laid
  <1>5. CASE Indexed(g)
    <2>1. PICK a \in Nat :
            /\ a + N <= Len(old)
            /\ \A n \in 1..Len(old) : old[n].gid = g.gid <=> n \in (a + 1)..(a + N)
            /\ \A j \in 1..N : old[a + j].name = UniqueNames(g)[j].name
      BY <1>5 DEF Laid
    <2> HIDE DEF N
    <2>2. a + N <= Len(new) BY <1>1, <1>2, <2>1
    <2>3. ASSUME NEW n \in 1..Len(new) PROVE new[n].gid = g.gid <=> n \in (a + 1)..(a + N)
      <3>1. CASE n \in 1..Len(old) BY <2>1, <3>1
      <3>2. CASE n > Len(old)
        <4>1. n \notin (a + 1)..(a + N) BY <1>1, <1>2, <2>1, <3>2
        <4> QED BY <3>2, <4>1
      <3> QED BY <1>3, <3>1, <3>2
    <2>4. ASSUME NEW j \in 1..N PROVE new[a + j].name = UniqueNames(g)[j].name
      <3>1. a + j \in 1..Len(old) BY <1>1, <1>2, <2>1
      <3> QED BY <2>1, <3>1
    <2> QED BY <1>5, <2>2, <2>3, <2>4 DEF Laid, N
  <1> QED BY <1>4, <1>5

\* When the groups have been added, each has its names in the index.
LEMMA BuiltIs ==
  ASSUME NEW c \in Seq(NamedGroup), \A u, j \in 1..Len(c) : c[u].gid = c[j].gid => u = j
  PROVE  /\ Built(c).names \in Seq(NameRec)
         /\ \A u \in 1..Len(c) : Laid(Built(c).names, c[u])
         /\ \A q \in DOMAIN Built(c).grams : Ascending(Built(c).grams[q])
         /\ \A t \in DOMAIN Built(c).inv : Ascending(Built(c).inv[t])
  <1> DEFINE N == Len(c)
             V == Indices
             Is(f) == f = [k \in 0..N |-> IF k = 0 THEN NoIndex ELSE AddGroup(f[k - 1], c[k])]
             s == CHOOSE f : Is(f)
             step == [p \in (1..N) \X V |-> AddGroup(p[2], c[p[1]])]
             all == s[N]
             grams == [q \in DOMAIN all.grams |-> SortedUp(all.grams[q])]
  <1>1. N \in Nat /\ \A k \in 1..N : c[k] \in NamedGroup OBVIOUS
  <1>2. Built(c) = [all EXCEPT !.grams = grams] BY DEF Built
  <1>3. NoIndex \in V /\ NoIndex.names = <<>>
    <2>1. <<>> \in Seq(NameRec) /\ <<>> \in Seq(Chars) /\ <<>> \in Seq(Postings) BY EmptySeq
    <2>2. <<>> \in GramLists
      <3>1. <<>> \in [{} -> Postings]
        <4>1. <<>> = [x \in {} |-> x] /\ [x \in {} |-> x] \in [{} -> Postings] OBVIOUS
        <4> QED BY <4>1
      <3>2. {} \in SUBSET Chars OBVIOUS
      <3> QED BY <3>1, <3>2 DEF GramLists
    <2>3. NoIndex \in IndexType BY <2>1, <2>2 DEF NoIndex, IndexType
    <2>4. Len(<<>>) = 0 OBVIOUS
    <2>5. ListsSound(NoIndex) BY <2>4 DEF NoIndex, ListsSound
    <2> QED BY <2>3, <2>5 DEF Indices, NoIndex
  <1>4. ASSUME NEW t \in V, NEW k \in 1..N PROVE AddGroup(t, c[k]) \in V
    BY <1>1, AddGroupIs
  <1>5. \A j \in 1..N, t \in V : step[<<j, t>>] = AddGroup(t, c[j]) OBVIOUS
  <1>6. \A t \in V : t \in Indices /\ t.names \in Seq(NameRec) BY DEF Indices, IndexType
  <1> HIDE DEF step, V, grams
  <1>7. PICK f \in [0..N -> V] : Goes(f, N, NoIndex, step)
    <2>1. StaysIn(V, N, step) BY <1>4, <1>5 DEF StaysIn
    <2> HIDE DEF N
    <2> QED BY <1>1, <1>3, <2>1, Recursion
  <1>8. Is(f)
    <2>1. ASSUME NEW k \in 0..N PROVE f[k] = IF k = 0 THEN NoIndex ELSE AddGroup(f[k - 1], c[k])
      <3>1. CASE k = 0 BY <3>1, <1>7 DEF Goes
      <3>2. CASE k # 0
        <4>1. k \in 1..N /\ k - 1 \in 0..N BY <1>1, <3>2
        <4>2. f[k - 1] \in V BY <4>1
        <4>3. f[k] = step[<<k, f[k - 1]>>] BY <4>1, <1>7 DEF Goes
        <4> QED BY <3>2, <4>1, <4>2, <4>3, <1>5
      <3> QED BY <3>1, <3>2
    <2> QED BY <2>1
  <1>9. Is(s)
    <2> HIDE DEF Is
    <2> QED BY <1>8
  <1> HIDE DEF s
  <1>10. s[0] = NoIndex /\ \A k \in 1..N : s[k] = AddGroup(s[k - 1], c[k])
    BY <1>1, <1>9 DEF Is
  <1> DEFINE FromFirst(names, k) == \A n \in 1..Len(names) : \E u \in 1..k : names[n].gid = c[u].gid
             AllLaid(names, k) == \A u \in 1..k : Laid(names, c[u])
             S == {k \in 0..N : /\ s[k] \in V
                                /\ FromFirst(s[k].names, k) /\ AllLaid(s[k].names, k)}
  <1>11. 0 \in S
    <2>1. Len(<<>>) = 0 /\ 0 \in 0..N BY <1>1
    <2>2. FromFirst(<<>>, 0) /\ AllLaid(<<>>, 0) BY <2>1
    <2> HIDE DEF FromFirst, AllLaid
    <2> QED BY <1>3, <1>10, <2>1, <2>2
  <1>12. ASSUME NEW k \in 1..N, k - 1 \in S PROVE k \in S
    <2> DEFINE old == s[k - 1].names
               new == s[k].names
               U == UniqueNames(c[k])
    <2>1. s[k - 1] \in V /\ FromFirst(old, k - 1) /\ AllLaid(old, k - 1) /\ k \in 0..N
      <3> HIDE DEF FromFirst, AllLaid
      <3> QED BY <1>1, <1>12
    <2>2. s[k] = AddGroup(s[k - 1], c[k]) /\ s[k] \in V /\ c[k] \in NamedGroup BY <1>1, <1>4, <1>10, <2>1
    <2>3. old \in Seq(NameRec) /\ new \in Seq(NameRec) /\ s[k - 1] \in Indices BY <1>6, <2>1, <2>2
    <2>4. /\ ~Indexed(c[k]) => s[k] = s[k - 1]
          /\ Indexed(c[k]) => /\ Len(new) = Len(old) + Len(U)
                              /\ \A u \in 1..Len(old) : new[u] = old[u]
                              /\ \A j \in 1..Len(U) : new[Len(old) + j] = [gid |-> c[k].gid, name |-> U[j].name]
      <3> DEFINE x == s[k - 1]
                 g == c[k]
                 y == AddGroup(x, g)
      <3>1. x \in Indices /\ g \in NamedGroup /\ s[k] = y BY <2>2, <2>3
      <3>2. /\ ~Indexed(g) => y = x
            /\ Indexed(g) => /\ Len(y.names) = Len(x.names) + Len(UniqueNames(g))
                             /\ \A u \in 1..Len(x.names) : y.names[u] = x.names[u]
                             /\ \A j \in 1..Len(UniqueNames(g)) :
                                  y.names[Len(x.names) + j] = [gid |-> g.gid, name |-> UniqueNames(g)[j].name]
        <4> HIDE DEF x, g
        <4> QED BY <3>1, AddGroupIs
      <3> QED BY <3>1, <3>2
    <2>5. Len(U) \in Nat
      <3>1. U \in Seq(Met) BY <2>2, UniqueNamesAre
      <3> HIDE DEF U
      <3> QED BY <3>1
    <2>6. \A u \in 1..(k - 1) : u \in 1..N /\ u # k /\ c[u] \in NamedGroup /\ c[u].gid # c[k].gid
      <3> SUFFICES ASSUME NEW u \in 1..(k - 1)
                   PROVE  u \in 1..N /\ u # k /\ c[u] \in NamedGroup /\ c[u].gid # c[k].gid
        OBVIOUS
      <3>1. u \in 1..N /\ u # k BY <1>1
      <3> QED BY <1>1, <3>1
    <2>7. \A n \in 1..Len(old) : old[n].gid # c[k].gid BY <2>1, <2>6
    <2> HIDE DEF old, new, U
    <2>8. Len(old) \in Nat /\ Len(new) \in Nat BY <2>3
    <2>9. CASE ~Indexed(c[k])
      <3>1. new = old BY <2>4, <2>9 DEF new, old
      <3>2. FromFirst(new, k)
        <4>1. \A u \in 1..(k - 1) : u \in 1..k OBVIOUS
        <4> QED BY <2>1, <3>1, <4>1
      <3>3. AllLaid(new, k)
        <4> SUFFICES ASSUME NEW u \in 1..k PROVE Laid(new, c[u]) OBVIOUS
        <4>1. CASE u = k BY <2>7, <2>9, <3>1, <4>1 DEF Laid
        <4>2. CASE u # k
          <5>1. u \in 1..(k - 1) BY <4>2
          <5> QED BY <2>1, <3>1, <5>1
        <4> QED BY <4>1, <4>2
      <3> HIDE DEF FromFirst, AllLaid
      <3> QED BY <2>1, <2>2, <3>2, <3>3 DEF new
    <2>10. CASE Indexed(c[k])
      <3>1. /\ Len(new) = Len(old) + Len(U)
            /\ \A u \in 1..Len(old) : new[u] = old[u]
            /\ \A j \in 1..Len(U) : /\ new[Len(old) + j].gid = c[k].gid
                                    /\ new[Len(old) + j].name = U[j].name
        <4>1. /\ Len(new) = Len(old) + Len(U)
              /\ \A u \in 1..Len(old) : new[u] = old[u]
              /\ \A j \in 1..Len(U) : new[Len(old) + j] = [gid |-> c[k].gid, name |-> U[j].name]
          BY <2>4, <2>10
        <4>2. ASSUME NEW j \in 1..Len(U)
              PROVE  new[Len(old) + j].gid = c[k].gid /\ new[Len(old) + j].name = U[j].name
          <5>1. new[Len(old) + j] = [gid |-> c[k].gid, name |-> U[j].name] BY <4>1
          <5> QED BY <5>1
        <4> QED BY <4>1, <4>2
      <3>2. \A u \in 1..Len(new) : u > Len(old) => new[u].gid = c[k].gid
        <4> SUFFICES ASSUME NEW u \in 1..Len(new), u > Len(old) PROVE new[u].gid = c[k].gid OBVIOUS
        <4>1. u - Len(old) \in 1..Len(U) /\ Len(old) + (u - Len(old)) = u BY <2>5, <2>8, <3>1
        <4>2. new[Len(old) + (u - Len(old))].gid = c[k].gid BY <3>1, <4>1
        <4> QED BY <4>1, <4>2
      <3>3. \A u \in 1..Len(new) : u \in 1..Len(old) \/ u > Len(old) BY <2>8
      <3>4. FromFirst(new, k)
        <4> SUFFICES ASSUME NEW n \in 1..Len(new) PROVE \E u \in 1..k : new[n].gid = c[u].gid OBVIOUS
        <4>1. CASE n > Len(old)
          <5>1. k \in 1..k OBVIOUS
          <5> QED BY <3>2, <4>1, <5>1
        <4>2. CASE n \in 1..Len(old)
          <5>1. PICK u \in 1..(k - 1) : old[n].gid = c[u].gid BY <2>1, <4>2
          <5>2. u \in 1..k OBVIOUS
          <5> QED BY <3>1, <4>2, <5>1, <5>2
        <4> QED BY <3>3, <4>1, <4>2
      <3>5. AllLaid(new, k)
        <4> SUFFICES ASSUME NEW u \in 1..k PROVE Laid(new, c[u]) OBVIOUS
        <4>1. CASE u = k
          <5>1. Len(old) \in Nat /\ Len(old) + Len(U) <= Len(new) BY <2>5, <2>8, <3>1
          <5>2. ASSUME NEW n \in 1..Len(new)
                PROVE  new[n].gid = c[k].gid <=> n \in (Len(old) + 1)..(Len(old) + Len(U))
            <6>1. CASE n > Len(old) BY <2>5, <2>8, <3>1, <3>2, <6>1
            <6>2. CASE n \in 1..Len(old)
              <7>1. n \notin (Len(old) + 1)..(Len(old) + Len(U)) BY <2>8, <6>2
              <7> QED BY <2>7, <3>1, <6>2, <7>1
            <6> QED BY <3>3, <6>1, <6>2
          <5>3. \E a \in Nat :
                  /\ a + Len(U) <= Len(new)
                  /\ \A n \in 1..Len(new) : new[n].gid = c[k].gid <=> n \in (a + 1)..(a + Len(U))
                  /\ \A j \in 1..Len(U) : new[a + j].name = U[j].name
            BY <3>1, <5>1, <5>2
          <5> QED BY <2>10, <4>1, <5>3 DEF Laid, U
        <4>2. CASE u # k
          <5>1. u \in 1..(k - 1) BY <4>2
          <5>2. Laid(old, c[u]) BY <2>1, <5>1
          <5>3. \A j \in 1..Len(new) : j > Len(old) => new[j].gid # c[u].gid BY <2>6, <3>2, <5>1
          <5>4. Len(old) <= Len(new) BY <2>5, <2>8, <3>1
          <5> QED BY <2>3, <2>6, <3>1, <5>1, <5>2, <5>3, <5>4, LaidStays
        <4> QED BY <4>1, <4>2
      <3> HIDE DEF FromFirst, AllLaid
      <3> QED BY <2>1, <2>2, <3>4, <3>5 DEF new
    <2> QED BY <2>9, <2>10
  <1>13. N \in S
    <2> HIDE DEF S, N
    <2>1. \A k \in 0..N : k \in S BY <1>1, <1>11, <1>12, Through
    <2> QED BY <1>1, <2>1
  <1>14. all \in Indices /\ all.names \in Seq(NameRec) /\ AllLaid(all.names, N)
    <2>1. s[N] \in V /\ AllLaid(s[N].names, N)
      <3> HIDE DEF FromFirst, AllLaid
      <3> QED BY <1>13
    <2> QED BY <1>6, <2>1
  <1> HIDE DEF all
  <1>15. /\ all \in IndexType /\ Built(c).names = all.names /\ Built(c).inv = all.inv
         /\ Built(c).grams = grams
    <2>1. all \in IndexType BY <1>14 DEF Indices
    <2> QED BY <1>2, <2>1 DEF IndexType
  <1>16. \A q \in DOMAIN grams : Ascending(grams[q])
    <2>1. PICK D \in SUBSET Chars : all.grams \in [D -> Postings] BY <1>15 DEF IndexType, GramLists
    <2>2. DOMAIN grams = D /\ \A q \in D : grams[q] = SortedUp(all.grams[q]) /\ all.grams[q] \in Postings
      BY <2>1 DEF grams
    <2> QED BY <2>2, SortedUpIs
  <1>17. \A t \in DOMAIN all.inv : Ascending(all.inv[t])
    <2>1. all.inv \in Seq(Postings) BY <1>15 DEF IndexType
    <2>2. DOMAIN all.inv = 1..Len(all.inv) BY <2>1
    <2> QED BY <1>14, <2>2 DEF Indices, ListsSound, UpTo
  <1> QED BY <1>14, <1>15, <1>16, <1>17

\* As many names as are different.
LEMMA OnceEach ==
  ASSUME NEW n \in Nat, NEW f, NEW S, f \in [1..n -> S],
         \A u, j \in 1..n : f[u] = f[j] => u = j,
         \A x \in S : \E u \in 1..n : f[u] = x
  PROVE  Cardinality(S) = n
  <1>1. f \in Injection(1..n, S) BY DEF Injection, IsInjective
  <1>2. f \in Surjection(1..n, S) BY DEF Surjection
  <1>3. ExistsBijection(1..n, S) BY <1>1, <1>2 DEF ExistsBijection, Bijection
  <1> QED BY <1>3, FS_CountingElements

LEMMA NamesInAre ==
  ASSUME NEW g \in NamedGroup
  PROVE  /\ {a[2] : a \in ToSet(g.attrs)} = NamesIn(g.attrs)
         /\ {a[2] : a \in UNION {ToSet(m) : m \in ToSet(g.members)}} =
              UNION {NamesIn(g.members[m]) : m \in 1..Len(g.members)}
  <1>1. g.attrs \in Names /\ g.members \in Seq(Names) BY DEF NamedGroup
  <1>2. ASSUME NEW attrs \in Names
        PROVE  DOMAIN attrs = 1..Len(attrs) /\ ToSet(attrs) = {attrs[u] : u \in 1..Len(attrs)}
    <2>1. DOMAIN attrs = 1..Len(attrs) BY DEF Names
    <2> QED BY <2>1 DEF ToSet
  <1>3. DOMAIN g.members = 1..Len(g.members) /\ \A m \in 1..Len(g.members) : g.members[m] \in Names
    BY <1>1
  <1>4. {a[2] : a \in ToSet(g.attrs)} = NamesIn(g.attrs)
    <2>1. ToSet(g.attrs) = {g.attrs[u] : u \in 1..Len(g.attrs)} BY <1>1, <1>2
    <2> QED BY <2>1 DEF NamesIn
  <1> DEFINE A == UNION {ToSet(m) : m \in ToSet(g.members)}
             B == UNION {NamesIn(g.members[m]) : m \in 1..Len(g.members)}
  <1>5. ASSUME NEW a \in A PROVE a[2] \in B
    <2>1. PICK m \in 1..Len(g.members) : a \in ToSet(g.members[m]) BY <1>3 DEF ToSet
    <2>2. PICK u \in 1..Len(g.members[m]) : a = g.members[m][u] BY <1>2, <1>3, <2>1
    <2>3. a[2] \in NamesIn(g.members[m]) BY <2>2 DEF NamesIn
    <2> QED BY <2>3
  <1>6. ASSUME NEW n \in B PROVE \E a \in A : n = a[2]
    <2>1. PICK m \in 1..Len(g.members) : n \in NamesIn(g.members[m]) OBVIOUS
    <2>2. PICK u \in 1..Len(g.members[m]) : n = g.members[m][u][2] BY <2>1 DEF NamesIn
    <2>3. g.members[m][u] \in ToSet(g.members[m]) BY <1>2, <1>3
    <2>4. g.members[m] \in ToSet(g.members) BY <1>3 DEF ToSet
    <2>5. g.members[m][u] \in A BY <2>3, <2>4
    <2> QED BY <2>2, <2>5
  <1> HIDE DEF A, B
  <1>7. {a[2] : a \in A} = B BY <1>5, <1>6
  <1> QED BY <1>4, <1>7 DEF A, B

\* What the index has of a group.
Kept(names, g) ==
  LET mine == PickAt(names, {n \in DOMAIN names : names[n].gid = g.gid})
      own == {a[2] : a \in ToSet(g.attrs)}
      foreign == {a[2] : a \in UNION {ToSet(m) : m \in ToSet(g.members)}}
  IN IF ~Indexed(g) THEN mine = <<>>
     ELSE /\ {n.name : n \in ToSet(mine)} = own \cup foreign
          /\ Len(mine) = Cardinality(own \cup foreign)
          /\ \A k \in DOMAIN mine : FirstRel(g, mine[1].name) >= FirstRel(g, mine[k].name)

LEMMA LaidKept ==
  ASSUME NEW names \in Seq(NameRec), NEW g \in NamedGroup, Laid(names, g)
  PROVE  Kept(names, g)
  <1> DEFINE at == {n \in DOMAIN names : names[n].gid = g.gid}
             mine == PickAt(names, at)
             own == {a[2] : a \in ToSet(g.attrs)}
             foreign == {a[2] : a \in UNION {ToSet(m) : m \in ToSet(g.members)}}
             all == own \cup foreign
             U == UniqueNames(g)
             N == Len(U)
  <1>1. DOMAIN names = 1..Len(names) /\ Len(names) \in Nat OBVIOUS
  <1>2. all = MetNames(U)
    <2>1. own = NamesIn(g.attrs) /\ foreign = UNION {NamesIn(g.members[m]) : m \in 1..Len(g.members)}
      BY NamesInAre
    <2>2. MetNames(U) = NamesIn(g.attrs) \cup UNION {NamesIn(g.members[m]) : m \in 1..Len(g.members)}
      BY NamesOfAre, UniqueNamesAre
    <2> HIDE DEF own, foreign, U
    <2> QED BY <2>1, <2>2
  <1>3. U \in Seq(Met) BY UniqueNamesAre
  <1>4. N \in Nat
    <2> HIDE DEF U
    <2> QED BY <1>3
  <1>5. CASE ~Indexed(g)
    <2>1. at = {} BY <1>1, <1>5 DEF Laid
    <2>2. {} \in SUBSET (1..Len(names)) /\ Cardinality({}) = 0 BY FS_EmptySet
    <2> HIDE DEF at
    <2>3. mine \in Seq(NameRec) /\ Len(mine) = 0 BY <2>1, <2>2, PickedAre
    <2>4. mine = <<>> BY <2>3, EmptySeq
    <2> QED BY <1>5, <2>4 DEF Kept, at
  <1>6. CASE Indexed(g)
    <2> HIDE DEF U
    <2>1. PICK a \in Nat :
            /\ a + N <= Len(names)
            /\ \A n \in 1..Len(names) : names[n].gid = g.gid <=> n \in (a + 1)..(a + N)
            /\ \A j \in 1..N : names[a + j].name = U[j].name
      BY <1>6 DEF Laid, U
    <2>2. at = (a + 1)..(a + N)
      <3>1. (a + 1)..(a + N) \in SUBSET (1..Len(names)) BY <1>1, <1>4, <2>1
      <3> QED BY <1>1, <2>1, <3>1
    <2> HIDE DEF at, N, mine
    <2>3. /\ mine \in Seq(NameRec) /\ Len(mine) = N
          /\ \A m \in 1..N : \E j \in 1..N : mine[m] = names[a + j]
          /\ \A j \in 1..N : \E m \in 1..N : mine[m] = names[a + j]
          /\ N > 0 => mine[1] = names[a + 1]
      <3>1. mine = PickAt(names, (a + 1)..(a + N)) BY <2>2 DEF mine
      <3>2. mine \in Seq(NameRec) /\ AreFrom(mine, names, a, N)
        BY <1>4, <2>1, <3>1, PickedFrom
      <3> QED BY <3>2 DEF AreFrom
    <2>4. DOMAIN mine = 1..N /\ ToSet(mine) = {mine[m] : m \in 1..N}
      <3>1. DOMAIN mine = 1..N BY <2>3
      <3> QED BY <3>1 DEF ToSet
    <2>5. {n.name : n \in ToSet(mine)} = MetNames(U)
      <3>1. ASSUME NEW m \in 1..N PROVE mine[m].name \in MetNames(U)
        <4>1. PICK j \in 1..N : mine[m] = names[a + j] BY <2>3
        <4>2. mine[m].name = U[j].name BY <2>1, <4>1
        <4> QED BY <4>2 DEF MetNames, N
      <3>2. ASSUME NEW n \in MetNames(U) PROVE \E x \in ToSet(mine) : n = x.name
        <4>1. PICK j \in 1..N : n = U[j].name BY DEF MetNames, N
        <4>2. PICK m \in 1..N : mine[m] = names[a + j] BY <2>3
        <4>3. n = mine[m].name BY <2>1, <4>1, <4>2
        <4> QED BY <2>4, <4>3
      <3>3. \A x \in ToSet(mine) : x.name \in MetNames(U) BY <2>4, <3>1
      <3> QED BY <3>2, <3>3
    <2>6. Cardinality(MetNames(U)) = N
      <3> DEFINE f == [j \in 1..N |-> U[j].name]
      <3>1. f \in [1..N -> MetNames(U)] BY DEF MetNames, N
      <3>2. \A u, j \in 1..N : f[u] = f[j] => u = j BY UniqueNamesAre DEF U, N
      <3>3. \A x \in MetNames(U) : \E u \in 1..N : f[u] = x BY DEF MetNames, N
      <3> HIDE DEF f
      <3> QED BY <1>4, <3>1, <3>2, <3>3, OnceEach
    <2>7. ASSUME NEW k \in DOMAIN mine
          PROVE  FirstRel(g, mine[1].name) >= FirstRel(g, mine[k].name)
      <3>1. k \in 1..N /\ 1 \in 1..N BY <1>4, <2>4
      <3>2. PICK j \in 1..N : mine[k] = names[a + j] BY <2>3, <3>1
      <3>3. mine[1].name = U[1].name /\ mine[k].name = U[j].name
        <4>1. mine[1] = names[a + 1] BY <1>4, <2>3, <3>1
        <4> QED BY <2>1, <3>1, <3>2, <4>1
      <3>4. U[1].rel = FirstRel(g, U[1].name) /\ U[j].rel = FirstRel(g, U[j].name)
        BY <3>1, UniqueNamesAre DEF U, N
      <3>5. U[1].rel \in Int /\ U[j].rel \in Int
        <4>1. U[1] \in Met /\ U[j] \in Met BY <1>3, <3>1 DEF N
        <4> QED BY <4>1 DEF Met
      <3>6. U[1].rel >= U[j].rel
        <4>1. CASE j = 1 BY <3>5, <4>1
        <4>2. CASE j # 1
          <5>1. 1 < j BY <1>4, <4>2
          <5> QED BY <3>1, <5>1, UniqueNamesAre DEF U, N
        <4> QED BY <4>1, <4>2
      <3> QED BY <3>3, <3>4, <3>6
    <2> HIDE DEF all
    <2>8. {n.name : n \in ToSet(mine)} = all /\ Len(mine) = Cardinality(all) BY <1>2, <2>3, <2>5, <2>6
    <2> QED BY <1>6, <2>7, <2>8 DEF Kept, mine, at, all
  <1> QED BY <1>5, <1>6

-----------------------------------------------------------------------------
\* The index is none, or what is built from the groups.
IndexState ==
  \/ content = <<>> /\ ix = NoIndex
  \/ content \in Contents /\ ix = Built(content)

LEMMA InGroups ==
  ASSUME NEW c \in Contents
  PROVE  c \in Seq(NamedGroup) /\ \A u, j \in 1..Len(c) : c[u].gid = c[j].gid => u = j
  <1>1. c \in Seq(NamedGroup) BY ContentsAssumption DEF NamedGroup
  <1>2. DOMAIN c = 1..Len(c) BY <1>1
  <1>3. \A u, j \in DOMAIN c : c[u].gid = c[j].gid => u = j BY ContentsAssumption
  <1> QED BY <1>1, <1>2, <1>3

LEMMA IndexStateSound ==
  ASSUME IndexState
  PROVE  IndexInv
  <1>1. CASE content = <<>> /\ ix = NoIndex
    <2>1. DOMAIN <<>> = {} BY EmptyFunction
    <2>2. NamesKept BY <1>1, <2>1 DEF NamesKept, ToSet
    <2>3. PostingsSorted BY <1>1, <2>1 DEF PostingsSorted, NoIndex
    <2> QED BY <2>2, <2>3 DEF IndexInv
  <1>2. CASE content \in Contents /\ ix = Built(content)
    <2>1. content \in Seq(NamedGroup) /\ \A u, j \in 1..Len(content) : content[u].gid = content[j].gid => u = j
      BY <1>2, InGroups
    <2>2. /\ ix.names \in Seq(NameRec)
          /\ \A u \in 1..Len(content) : Laid(ix.names, content[u])
          /\ \A q \in DOMAIN ix.grams : Ascending(ix.grams[q])
          /\ \A t \in DOMAIN ix.inv : Ascending(ix.inv[t])
      BY <1>2, <2>1, BuiltIs
    <2>3. ASSUME NEW g \in ToSet(content) PROVE Kept(ix.names, g)
      <3>1. PICK u \in 1..Len(content) : g = content[u]
        <4>1. DOMAIN content = 1..Len(content) BY <2>1
        <4> QED BY <4>1 DEF ToSet
      <3>2. g \in NamedGroup BY <2>1, <3>1
      <3> QED BY <2>2, <3>1, <3>2, LaidKept
    <2>4. NamesKept BY <2>3 DEF NamesKept, Kept, FirstRel
    <2> QED BY <2>2, <2>4 DEF IndexInv, PostingsSorted
  <1> QED BY <1>1, <1>2 DEF IndexState

\* The index has all names of every group, each once and the best first, and
\* its lists are in the order in which they are merged (StatIdx::initGroups,
\* SearchIdx::build).
THEOREM IndexBuilt == SearchIdxSpec => []IndexInv
  <1>1. SearchIdxInit => IndexState
    BY DEF SearchIdxInit, IndexState
  <1>2. IndexState /\ [SearchIdxNext]_searchVars => IndexState'
    <2> SUFFICES ASSUME IndexState, [SearchIdxNext]_searchVars PROVE IndexState'
      OBVIOUS
    <2>1. CASE Build BY <2>1 DEF Build, IndexState
    <2>2. CASE Find BY <2>2 DEF Find, IndexState
    <2>3. CASE UNCHANGED searchVars BY <2>3 DEF searchVars, IndexState
    <2> QED BY <2>1, <2>2, <2>3 DEF SearchIdxNext
  <1>3. IndexState => IndexInv
    BY IndexStateSound
  <1> QED BY <1>1, <1>2, <1>3, PTL DEF SearchIdxSpec
=============================================================================
