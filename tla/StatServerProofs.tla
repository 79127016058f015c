-------------------------- MODULE StatServerProofs --------------------------
(***************************************************************************)
(* TLAPS proofs about IdRanges, for any number of files of any size, and   *)
(* about StatServer, which extends it: whichever well-formed data sets are *)
(* served, every link in an answer leads to the object it was printed for. *)
(***************************************************************************)
EXTENDS StatServer, SequenceTheorems, FiniteSetTheorems, TLAPS

-----------------------------------------------------------------------------
(* The ranges of ids. *)

\* A range is one longer than its data set and ends below the largest size_t;
\* ranges follow each other in the order of the files without touching.
Tight(k) ==
  \A d \in DOMAIN range :
    /\ range[d][k].end = range[d][k].start + size[d][k]
    /\ range[d][k].end + 1 < Word
Ordered(k) ==
  \A d, e \in DOMAIN range : d < e => range[d][k].end < range[e][k].start

IInv == TypeOK /\ \A k \in {"sid", "gid"} : Tight(k) /\ Ordered(k)

-----------------------------------------------------------------------------
(* size_t arithmetic. *)

\* Adding back what was subtracted gives the same id, wrapped around or not.
LEMMA PlusMinus ==
  ASSUME NEW a \in Ids, NEW b \in Ids
  PROVE  Minus(a, b) \in Ids /\ Plus(Minus(a, b), b) = a
  BY WordAssumption DEF Minus, Plus, Ids

LEMMA PlusType ==
  ASSUME NEW a \in Ids, NEW b \in Ids
  PROVE  Plus(a, b) \in Ids
  BY WordAssumption DEF Plus, Ids

\* The end of a range of n objects is its start plus n, for n = 0 as well,
\* where maxSId() is the largest size_t.
LEMMA EndOfRange ==
  ASSUME NEW s \in Ids, NEW n \in Nat, s + n + 1 < Word
  PROVE  /\ MaxId(n) \in Ids
         /\ Plus(Plus(s, MaxId(n)), 1) = s + n
  BY WordAssumption DEF MaxId, Minus, Plus, Ids

-----------------------------------------------------------------------------
LEMMA InitIInv == Init => IInv
  BY EmptySeq, BoundAssumption DEF Init, IInv, TypeOK, Tight, Ordered

\* Reading a file appends a range behind all others.
LEMMA NextIInv == IInv /\ [Next]_vars => IInv'
  <1> SUFFICES ASSUME IInv, [Next]_vars PROVE IInv' OBVIOUS
  <1>1. CASE UNCHANGED vars
    BY <1>1 DEF vars, IInv, TypeOK, Tight, Ordered
  <1>2. CASE ReadFile
    <2> DEFINE R == [Kinds -> [start : Ids, end : Ids]]
               S == [Kinds -> 0..MaxSize]
               m == Len(range)
    <2>1. PICK n \in S :
            /\ Fits(n)
            /\ size' = Append(size, n)
            /\ range' = Append(range,
                 [k \in Kinds |-> [start |-> Start(k),
                                   end |-> Plus(Plus(Start(k), MaxId(n[k])), 1)]])
      BY <1>2 DEF ReadFile
    <2> DEFINE r == [k \in Kinds |-> [start |-> Start(k),
                                      end |-> Plus(Plus(Start(k), MaxId(n[k])), 1)]]
    <2>2. size \in Seq(S) /\ range \in Seq(R) /\ Len(size) = m /\ m \in Nat
      BY LenProperties DEF IInv, TypeOK
    <2>3. \A k \in Kinds : Start(k) \in Ids
      <3>1. CASE range = <<>>
        BY <3>1, WordAssumption DEF Start, Ids
      <3>2. CASE range # <<>>
        <4>1. m \in DOMAIN range /\ range[m] \in R
          BY <2>2, <3>2, EmptySeq, ElementOfSeq, LenProperties
        <4>2. 1 \in Ids
          <5>1. Tight("sid") /\ "sid" \in Kinds
            BY DEF IInv, Kinds
          <5>2. range[m]["sid"].end \in Ids /\ range[m]["sid"].end + 1 < Word
            BY <4>1, <5>1, LenProperties DEF Tight
          <5> QED BY <5>2, WordAssumption DEF Ids
        <4> QED BY <3>2, <4>1, <4>2, PlusType DEF Start, Kinds
      <3> QED BY <3>1, <3>2
    <2>4. \A k \in Kinds : n[k] \in Nat /\ Start(k) + n[k] + 1 < Word
      BY <2>1, BoundAssumption DEF Fits
    <2>5. \A k \in Kinds : r[k].start = Start(k) /\ r[k].end = Start(k) + n[k]
      BY <2>3, <2>4, EndOfRange
    <2>6. r \in R
      <3>1. \A k \in Kinds : r[k] = [start |-> Start(k), end |-> Start(k) + n[k]]
        BY <2>5
      <3>2. \A k \in Kinds : Start(k) + n[k] \in Ids
        BY <2>3, <2>4, WordAssumption DEF Ids
      <3> QED BY <2>3, <2>5, <3>1, <3>2
    <2> HIDE DEF r
    <2>7. /\ range' \in Seq(R) /\ Len(range') = m + 1
          /\ \A d \in 1..m : range'[d] = range[d]
          /\ range'[m + 1] = r
      BY <2>1, <2>2, <2>6, AppendProperties DEF r
    <2>8. /\ size' \in Seq(S) /\ Len(size') = m + 1
          /\ \A d \in 1..m : size'[d] = size[d]
          /\ size'[m + 1] = n
      BY <2>1, <2>2, AppendProperties
    <2>9. DOMAIN range = 1..m /\ DOMAIN range' = 1..(m + 1)
      BY <2>2, <2>7, LenProperties
    <2>10. TypeOK'
      BY <1>2, <2>2, <2>7, <2>8, BoundAssumption DEF TypeOK, IInv, ReadFile
    <2>11. ASSUME NEW k \in {"sid", "gid"} PROVE Tight(k)' /\ Ordered(k)'
      <3>0. Tight(k) /\ Ordered(k) /\ k \in Kinds
        BY DEF IInv, Kinds
      <3>1. Tight(k)'
        <4> SUFFICES ASSUME NEW d \in 1..(m + 1)
                     PROVE  /\ range'[d][k].end = range'[d][k].start + size'[d][k]
                            /\ range'[d][k].end + 1 < Word
          BY <2>9 DEF Tight
        <4>1. CASE d \in 1..m
          BY <4>1, <3>0, <2>7, <2>8, <2>9 DEF Tight
        <4>2. CASE d = m + 1
          BY <4>2, <3>0, <2>4, <2>5, <2>7, <2>8
        <4> QED BY <4>1, <4>2, <2>2
      <3>2. \A d \in 1..m : range[d][k].end < Start(k)
        <4> SUFFICES ASSUME NEW d \in 1..m PROVE range[d][k].end < Start(k)
          OBVIOUS
        <4>1. range # <<>> /\ m \in 1..m
          BY <2>2, EmptySeq
        <4>2. range[m] \in R /\ range[d] \in R /\ size[m] \in S
          BY <2>2, <2>9, <4>1, ElementOfSeq
        <4>3. Start(k) = range[m][k].end + 1
          <5>1. range[m][k].end \in Ids /\ range[m][k].end + 1 < Word
            BY <3>0, <4>1, <4>2, <2>9 DEF Tight
          <5>2. Start(k) = Plus(range[m][k].end, 1)
            BY <4>1 DEF Start
          <5> QED BY <5>1, <5>2, WordAssumption DEF Plus, Ids
        <4>4. range[d][k].end <= range[m][k].end
          <5>1. CASE d = m
            BY <5>1, <4>2, <3>0 DEF Ids
          <5>2. CASE d < m
            <6>1. range[d][k].end < range[m][k].start
              BY <5>2, <4>1, <3>0, <2>9 DEF Ordered
            <6>2. range[m][k].end = range[m][k].start + size[m][k]
              BY <4>1, <3>0, <2>9 DEF Tight
            <6> QED BY <6>1, <6>2, <4>2, <3>0, BoundAssumption DEF Ids
          <5> QED BY <5>1, <5>2, <2>2
        <4> QED BY <4>2, <4>3, <4>4, <3>0 DEF Ids
      <3>3. Ordered(k)'
        <4> SUFFICES ASSUME NEW d \in 1..(m + 1), NEW e \in 1..(m + 1), d < e
                     PROVE  range'[d][k].end < range'[e][k].start
          BY <2>9 DEF Ordered
        <4>1. CASE e \in 1..m
          <5>1. d \in 1..m BY <4>1, <2>2
          <5> QED BY <4>1, <5>1, <3>0, <2>7, <2>9 DEF Ordered
        <4>2. CASE e = m + 1
          <5>1. d \in 1..m BY <4>2, <2>2
          <5> QED BY <4>2, <5>1, <3>0, <3>2, <2>5, <2>7
        <4> QED BY <4>1, <4>2, <2>2
      <3> QED BY <3>1, <3>3
    <2> QED BY <2>10, <2>11 DEF IInv
  <1> QED BY <1>1, <1>2 DEF Next

THEOREM SpecIInv == Spec => []IInv
  BY InitIInv, NextIInv, PTL DEF Spec

-----------------------------------------------------------------------------
(* Lookups. *)

\* Two ranges have no id in common, so an id inside one of them selects it.
LEMMA DidUnique ==
  ASSUME IInv, NEW k \in {"sid", "gid"}, NEW d \in DOMAIN range,
         NEW id \in Ids, InRange(d, k, id)
  PROVE  Did(k, id) = d
  <1>1. /\ DOMAIN range = 1..Len(range) /\ Len(range) \in Nat
        /\ \A e \in DOMAIN range : range[e][k].start \in Ids /\ range[e][k].end \in Ids
    BY LenProperties, ElementOfSeq DEF IInv, TypeOK, Kinds
  <1>2. ASSUME NEW e \in DOMAIN range, InRange(e, k, id) PROVE e = d
    <2>1. ~(e < d) /\ ~(d < e)
      BY <1>1, <1>2 DEF IInv, Ordered, InRange, Ids
    <2> QED BY <1>1, <2>1
  <1>3. {e \in DOMAIN range : InRange(e, k, id)} = {d}
    BY <1>2
  <1>4. d <= d BY <1>1
  <1> QED BY <1>3, <1>4 DEF Did

\* Did always names a data set, once a file has been read.
LEMMA DidType ==
  ASSUME IInv, range # <<>>, NEW k \in {"sid", "gid"}, NEW id \in Ids
  PROVE  Did(k, id) \in DOMAIN range
  <1>1. DOMAIN range = 1..Len(range) /\ Len(range) \in Nat \ {0}
    BY LenProperties, EmptySeq DEF IInv, TypeOK
  <1> DEFINE hits == {d \in DOMAIN range : InRange(d, k, id)}
  <1>2. CASE hits = {}
    BY <1>1, <1>2 DEF Did
  <1>3. CASE hits # {}
    BY <1>3, DidUnique
  <1> QED BY <1>2, <1>3

\* An id that was printed for object i of data set d leads back to it.
LEMMA LookupGlobal ==
  ASSUME IInv, NEW k \in {"sid", "gid"}, NEW d \in DOMAIN range,
         NEW i \in 0..(size[d][k] - 1)
  PROVE  Lookup(k, Global(k, d, i)) = <<d, i>>
  <1>1. size[d][k] \in Nat /\ range[d][k].start \in Ids /\ range[d][k].end \in Ids
    BY LenProperties, ElementOfSeq, BoundAssumption, SMTT(60) DEF IInv, TypeOK, Kinds
  <1>2. range[d][k].end = range[d][k].start + size[d][k] /\ range[d][k].end + 1 < Word
    BY DEF IInv, Tight
  <1>3. /\ Global(k, d, i) = i + range[d][k].start
        /\ Global(k, d, i) \in Ids
    BY <1>1, <1>2, WordAssumption DEF Global, Plus, Ids
  <1>4. Did(k, Global(k, d, i)) = d
    BY <1>1, <1>2, <1>3, DidUnique DEF InRange, Ids
  <1>5. Minus(Global(k, d, i), range[d][k].start) = i /\ ~(i >= size[d][k])
    BY <1>1, <1>3 DEF Minus, Ids
  <1> QED BY <1>4, <1>5 DEF Lookup

LEMMA IInvLookupExact == IInv => LookupExact
  <1> SUFFICES ASSUME IInv, range # <<>>, NEW k \in {"sid", "gid"}
               PROVE  /\ \A d \in DOMAIN range : \A i \in 0..(size[d][k] - 1) :
                           Lookup(k, Global(k, d, i)) = <<d, i>>
                      /\ \A id \in Ids :
                           Lookup(k, id) # NotFound =>
                             id = Global(k, Lookup(k, id)[1], Lookup(k, id)[2])
    BY DEF LookupExact
  <1>1. \A d \in DOMAIN range : \A i \in 0..(size[d][k] - 1) :
          Lookup(k, Global(k, d, i)) = <<d, i>>
    BY LookupGlobal
  <1>2. ASSUME NEW id \in Ids, Lookup(k, id) # NotFound
        PROVE  id = Global(k, Lookup(k, id)[1], Lookup(k, id)[2])
    <2> DEFINE d == Did(k, id)
    <2>1. Lookup(k, id) = <<d, Minus(id, range[d][k].start)>>
      BY <1>2 DEF Lookup
    <2>2. d \in DOMAIN range
      BY DidType
    <2>3. range[d][k].start \in Ids
      BY <2>2, ElementOfSeq, LenProperties DEF IInv, TypeOK, Kinds
    <2> QED BY <2>1, <2>3, PlusMinus DEF Global
  <1> QED BY <1>1, <1>2

\* Ids and objects correspond exactly: what is printed leads back to the same
\* object and nothing else leads to any, for all numbers and sizes of files.
THEOREM LookupsExact == Spec => []LookupExact
  BY SpecIInv, IInvLookupExact, PTL

\* Clicking an arrow opens the station or group (but for group 0 of a file)
\* whose suggestion it draws.
THEOREM ArrowsOpenOwner == Spec => []ArrowOpensOwner
  <1>1. IInv => ArrowOpensOwner
    <2> SUFFICES ASSUME IInv, NEW d \in DOMAIN range
                 PROVE  /\ \A i \in 0..(size[d]["sid"] - 1) :
                             Open(Marker(d, Owner("sid", i))) = <<"sid", <<d, i>>>>
                        /\ \A i \in 1..(size[d]["gid"] - 1) :
                             Open(Marker(d, Owner("gid", i))) = <<"gid", <<d, i>>>>
      BY DEF ArrowOpensOwner
    <2>0. \A k \in {"sid", "gid"} :
            /\ size[d][k] \in Nat /\ range[d][k].start \in Ids
            /\ range[d][k].end = range[d][k].start + size[d][k]
            /\ range[d][k].end + 1 < Word
      BY LenProperties, ElementOfSeq, BoundAssumption
         DEF IInv, TypeOK, Kinds, Tight
    <2>1. ASSUME NEW i \in 0..(size[d]["sid"] - 1)
          PROVE  Open(Marker(d, Owner("sid", i))) = <<"sid", <<d, i>>>>
      <3>1. Marker(d, Owner("sid", i)) = Global("sid", d, i)
        BY <2>0 DEF Marker, Owner
      <3>2. ~(Global("sid", d, i) < 0)
        BY <2>0, WordAssumption DEF Global, Plus, Ids
      <3> QED BY <3>1, <3>2, LookupGlobal DEF Open
    <2>2. ASSUME NEW i \in 1..(size[d]["gid"] - 1)
          PROVE  Open(Marker(d, Owner("gid", i))) = <<"gid", <<d, i>>>>
      <3>1. i \in 0..(size[d]["gid"] - 1) /\ Owner("gid", i) = -i /\ ~(-i >= 0)
        BY <2>0 DEF Owner
      <3>2. Global("gid", d, i) = i + range[d]["gid"].start
        BY <2>0, <3>1, WordAssumption DEF Global, Plus, Ids
      <3>3. Marker(d, Owner("gid", i)) = -Global("gid", d, i)
        BY <2>0, <3>1, <3>2 DEF Marker, Ids
      <3>4. -Global("gid", d, i) < 0 /\ -(-Global("gid", d, i)) = Global("gid", d, i)
        BY <2>0, <3>1, <3>2 DEF Ids
      <3> QED BY <3>1, <3>3, <3>4, LookupGlobal DEF Open
    <2> QED BY <2>1, <2>2
  <1> QED BY <1>1, SpecIInv, PTL

-----------------------------------------------------------------------------
(* The links of the answers. *)

\* l is the link of a station, a group or a meta group of some data set.
Printed(l) ==
  \E d \in DOMAIN idxs :
    \/ \E s \in Stations(d) : l = StatLink(d, s)
    \/ \E g \in Groups(d) : l = GroupLink(d, g)
    \/ \E m \in Metas(d) : l = MGroupLink(d, m)

\* The ranges were made for the data sets that are served.
Loaded ==
  /\ idxs \in Seq(DataSets) /\ Len(idxs) = Len(range)
  /\ \A d \in DOMAIN idxs : size[d] = SizeOf(idxs[d])

\* Nothing is answered before the data sets are read.
Fresh ==
  IF serving THEN idxs # <<>>
  ELSE links = {} /\ asked = NoRequest /\ status = "" /\ viewed = Nothing

SIInv ==
  /\ IInv /\ Loaded /\ serving \in BOOLEAN /\ Fresh
  /\ SessionInv /\ LinksLead
  /\ \A l \in links : Printed(l)

-----------------------------------------------------------------------------
(* Data sets. *)

\* A data set, its size and the range of its ids.
LEMMA Served ==
  ASSUME IInv, Loaded, NEW d \in DOMAIN idxs
  PROVE  /\ d \in DOMAIN range /\ d \in Nat \ {0}
         /\ DOMAIN idxs = DOMAIN range
         /\ WellFormed(idxs[d])
         /\ size[d]["sid"] \in Nat /\ Stations(d) = 0..(size[d]["sid"] - 1)
         /\ size[d]["gid"] \in Nat /\ Groups(d) = 0..(size[d]["gid"] - 1)
         /\ \A k \in {"sid", "gid"} : range[d][k].start \in Ids
  <1>1. /\ DOMAIN idxs = 1..Len(idxs) /\ DOMAIN range = 1..Len(range)
        /\ idxs[d] \in DataSets /\ Len(idxs) \in Nat
    BY LenProperties, ElementOfSeq DEF IInv, TypeOK, Loaded
  <1>2. WellFormed(idxs[d])
    BY <1>1, DataSetAssumption
  <1>3. /\ size[d]["sid"] = Cardinality(Stations(d))
        /\ size[d]["gid"] = Cardinality(Groups(d))
    BY DEF Loaded, SizeOf, Kinds, Stations, Groups
  <1>4. /\ Cardinality(Stations(d)) \in Nat /\ Stations(d) = 0..(Cardinality(Stations(d)) - 1)
        /\ Cardinality(Groups(d)) \in Nat /\ Groups(d) = 0..(Cardinality(Groups(d)) - 1)
    BY <1>2, FS_CardinalityType DEF WellFormed, Stations, Groups
  <1>5. \A k \in {"sid", "gid"} : range[d][k].start \in Ids
    BY <1>1, LenProperties, ElementOfSeq DEF IInv, TypeOK, Kinds, Loaded
  <1> QED BY <1>1, <1>2, <1>3, <1>4, <1>5 DEF Loaded

\* What an object refers to.
LEMMA Referred ==
  ASSUME IInv, Loaded, NEW d \in DOMAIN idxs
  PROVE  /\ \A s \in Stations(d) :
              /\ idxs[d].stations[s].group \in Groups(d)
              /\ idxs[d].stations[s].orig \in Groups(d)
              /\ \A e \in idxs[d].stations[s].errs :
                   e.other \in IF e.fromRel THEN Groups(d) ELSE Stations(d)
         /\ \A g \in Groups(d) :
              /\ idxs[d].groups[g].meta \in Nat
              /\ idxs[d].groups[g].members \subseteq Stations(d)
              /\ idxs[d].groups[g].poly \subseteq Stations(d)
              /\ \A e \in idxs[d].groups[g].errs :
                   e.other \in IF e.fromRel THEN Groups(d) ELSE Stations(d)
              /\ \A y \in idxs[d].groups[g].suggs :
                   /\ y.type = 9 => y.target \in Groups(d)
                   /\ y.type = 10 => y.target \in Metas(d)
  BY Served DEF WellFormed, Stations, Groups, Metas

\* Ids of stations and groups are size_t values that lead back to the object.
LEMMA LinkIds ==
  ASSUME IInv, Loaded, NEW d \in DOMAIN idxs
  PROVE  /\ \A s \in Stations(d) : /\ Global("sid", d, s) \in Ids
                                   /\ Lookup("sid", Global("sid", d, s)) = <<d, s>>
         /\ \A g \in Groups(d) : /\ Global("gid", d, g) \in Ids
                                 /\ Global("gid", d, g) = g + range[d]["gid"].start
                                 /\ Lookup("gid", Global("gid", d, g)) = <<d, g>>
  <1>1. /\ d \in DOMAIN range
        /\ size[d]["sid"] \in Nat /\ Stations(d) = 0..(size[d]["sid"] - 1)
        /\ size[d]["gid"] \in Nat /\ Groups(d) = 0..(size[d]["gid"] - 1)
        /\ \A k \in {"sid", "gid"} : range[d][k].start \in Ids
    BY Served
  <1>2. \A k \in {"sid", "gid"} : /\ range[d][k].end = range[d][k].start + size[d][k]
                                  /\ range[d][k].end + 1 < Word
    BY <1>1 DEF IInv, Tight
  <1>3. ASSUME NEW k \in {"sid", "gid"}, NEW i \in 0..(size[d][k] - 1)
        PROVE  /\ Global(k, d, i) = i + range[d][k].start
               /\ Global(k, d, i) \in Ids
               /\ Lookup(k, Global(k, d, i)) = <<d, i>>
    <2>1. Lookup(k, Global(k, d, i)) = <<d, i>>
      BY <1>1, LookupGlobal
    <2>2. size[d][k] \in Nat /\ range[d][k].start \in Ids
      BY <1>1
    <2>3. Global(k, d, i) = i + range[d][k].start /\ Global(k, d, i) \in Ids
      BY <1>2, <2>2, WordAssumption DEF Global, Plus, Ids
    <2> QED BY <2>1, <2>3
  <1> QED BY <1>1, <1>3

\* What a lookup finds is an object, whose id was asked for.
LEMMA LookupFinds ==
  ASSUME IInv, Loaded, idxs # <<>>, NEW k \in {"sid", "gid"}, NEW id \in Ids,
         Lookup(k, id) # NotFound
  PROVE  \E d \in DOMAIN idxs :
           \E i \in IF k = "sid" THEN Stations(d) ELSE Groups(d) :
             Lookup(k, id) = <<d, i>> /\ id = Global(k, d, i)
  <1>1. range # <<>>
    BY EmptySeq DEF Loaded, IInv, TypeOK
  <1> DEFINE d == Did(k, id)
             i == Minus(id, range[d][k].start)
  <1>2. Lookup(k, id) = <<d, i>> /\ ~(i >= size[d][k])
    BY DEF Lookup
  <1>3. d \in DOMAIN idxs
    BY <1>1, DidType, LenProperties DEF IInv, TypeOK, Loaded
  <1>4. /\ range[d][k].start \in Ids /\ size[d][k] \in Nat
        /\ (IF k = "sid" THEN Stations(d) ELSE Groups(d)) = 0..(size[d][k] - 1)
    BY <1>3, Served
  <1>5. i \in Ids /\ id = Global(k, d, i)
    BY <1>4, PlusMinus DEF Global
  <1>6. i \in 0..(size[d][k] - 1)
    BY <1>2, <1>4, <1>5, WordAssumption DEF Ids
  <1> HIDE DEF d, i
  <1> QED BY <1>2, <1>3, <1>4, <1>5, <1>6

-----------------------------------------------------------------------------
(* What answers link to. *)

LEMMA StatLinkPrinted ==
  ASSUME NEW d \in DOMAIN idxs, NEW s \in Stations(d)
  PROVE  Printed(StatLink(d, s))
  BY DEF Printed

LEMMA GroupLinkPrinted ==
  ASSUME NEW d \in DOMAIN idxs, NEW g \in Groups(d)
  PROVE  Printed(GroupLink(d, g))
  BY DEF Printed

LEMMA MGroupLinkPrinted ==
  ASSUME NEW d \in DOMAIN idxs, NEW m \in Metas(d)
  PROVE  Printed(MGroupLink(d, m))
  BY DEF Printed

LEMMA ErrLinkPrinted ==
  ASSUME NEW d \in DOMAIN idxs, NEW e,
         e.other \in IF e.fromRel THEN Groups(d) ELSE Stations(d)
  PROVE  Printed(ErrLink(d, e))
  BY StatLinkPrinted, GroupLinkPrinted DEF ErrLink

LEMMA StatLinksPrinted ==
  ASSUME IInv, Loaded, NEW d \in DOMAIN idxs, NEW s \in Stations(d),
         NEW l \in StatLinks(d, s)
  PROVE  Printed(l)
  <1> DEFINE st == idxs[d].stations[s]
  <1>1. /\ st.group \in Groups(d) /\ st.orig \in Groups(d)
        /\ \A e \in st.errs : e.other \in IF e.fromRel THEN Groups(d) ELSE Stations(d)
    BY Referred
  <1>2. \/ \E e \in st.errs : l = ErrLink(d, e)
        \/ l = GroupLink(d, st.group)
        \/ l = GroupLink(d, st.orig)
    BY DEF StatLinks
  <1> HIDE DEF st
  <1> QED BY <1>1, <1>2, ErrLinkPrinted, GroupLinkPrinted

LEMMA GroupLinksPrinted ==
  ASSUME IInv, Loaded, NEW d \in DOMAIN idxs, NEW g \in Groups(d),
         NEW l \in GroupLinks(d, g)
  PROVE  Printed(l)
  <1> DEFINE gr == idxs[d].groups[g]
             st == idxs[d].stations
  <1>1. /\ gr.members \subseteq Stations(d)
        /\ \A e \in gr.errs : e.other \in IF e.fromRel THEN Groups(d) ELSE Stations(d)
        /\ \A y \in gr.suggs : /\ y.type = 9 => y.target \in Groups(d)
                               /\ y.type = 10 => y.target \in Metas(d)
    BY Referred
  <1>2. \A s \in Stations(d) : st[s].group \in Groups(d) /\ st[s].orig \in Groups(d)
    BY Referred
  <1>3. \/ \E e \in gr.errs : l = ErrLink(d, e)
        \/ \E s \in gr.members :
             l \in {StatLink(d, s), GroupLink(d, st[s].group), GroupLink(d, st[s].orig)}
        \/ \E y \in gr.suggs : l \in GroupSuggLinks(d, y)
    <2>1. \/ l \in {ErrLink(d, e) : e \in {x \in gr.errs : ~x.fromRel \/ x.other # g}}
          \/ l \in UNION {{StatLink(d, s), GroupLink(d, st[s].group), GroupLink(d, st[s].orig)} :
                          s \in gr.members}
          \/ l \in UNION {GroupSuggLinks(d, x) : x \in gr.suggs}
      BY DEF GroupLinks
    <2> HIDE DEF gr, st
    <2> QED BY <2>1
  <1> HIDE DEF gr, st
  <1>4. CASE \E e \in gr.errs : l = ErrLink(d, e)
    BY <1>1, <1>4, ErrLinkPrinted
  <1>5. CASE \E s \in gr.members :
               l \in {StatLink(d, s), GroupLink(d, st[s].group), GroupLink(d, st[s].orig)}
    BY <1>1, <1>2, <1>5, StatLinkPrinted, GroupLinkPrinted
  <1>6. ASSUME NEW y \in gr.suggs, l \in GroupSuggLinks(d, y) PROVE Printed(l)
    <2>1. (y.type = 9 /\ l = GroupLink(d, y.target)) \/ (y.type = 10 /\ l = MGroupLink(d, y.target))
      BY <1>6 DEF GroupSuggLinks
    <2> QED BY <1>1, <2>1, GroupLinkPrinted, MGroupLinkPrinted
  <1> QED BY <1>3, <1>4, <1>5, <1>6

LEMMA MGroupLinksPrinted ==
  ASSUME NEW d \in DOMAIN idxs, NEW m, NEW l \in MGroupLinks(d, m)
  PROVE  Printed(l)
  BY GroupLinkPrinted DEF MGroupLinks

\* An arrow leads to the station or the group whose suggestion it draws.
LEMMA ArrowsPrinted ==
  ASSUME IInv, Loaded, NEW d \in DOMAIN idxs, NEW l \in Arrows(d)
  PROVE  Printed(l)
  <1>1. CASE \E s \in Stations(d) : l = StatLink(d, s)
    BY <1>1, StatLinkPrinted
  <1>2. ASSUME NEW g \in Groups(d) \ {0},
               l = Link("group", -Marker(d, Owner("gid", g)), GroupOf(d, g))
        PROVE  Printed(l)
    <2>1. /\ range[d]["gid"].start \in Ids /\ g \in Nat \ {0}
          /\ Global("gid", d, g) = g + range[d]["gid"].start
      BY Served, LinkIds
    <2>2. -Marker(d, Owner("gid", g)) = Global("gid", d, g)
      <3>1. Owner("gid", g) = -g /\ ~(-g >= 0) /\ -(-g) = g
        BY <2>1 DEF Owner
      <3>2. Marker(d, Owner("gid", g)) = -(g + range[d]["gid"].start)
        BY <3>1 DEF Marker
      <3> QED BY <2>1, <3>2 DEF Ids
    <2>3. l = GroupLink(d, g)
      BY <1>2, <2>2 DEF GroupLink
    <2> QED BY <2>3, GroupLinkPrinted
  <1> QED BY <1>1, <1>2 DEF Arrows

LEMMA MapLinksPrinted ==
  ASSUME IInv, Loaded, NEW l \in MapLinks
  PROVE  Printed(l)
  <1>1. PICK d \in DOMAIN idxs :
          \/ \E s \in Stations(d) : l = StatLink(d, s)
          \/ \E g \in Groups(d) : l = GroupLink(d, g)
          \/ \E m \in Metas(d) : l = MGroupLink(d, m)
          \/ l \in Arrows(d)
    BY DEF MapLinks
  <1> QED BY <1>1, StatLinkPrinted, GroupLinkPrinted, MGroupLinkPrinted, ArrowsPrinted

\* A search hit leads to the group it is, or to the only station of its hull.
LEMMA SearchLinksPrinted ==
  ASSUME IInv, Loaded, NEW l \in SearchLinks
  PROVE  Printed(l)
  <1>0. PICK d \in DOMAIN idxs : \E g \in Groups(d) :
          /\ l = HitLink(Global("gid", d, g))
          /\ idxs[d].groups[g].poly # {}
    BY DEF SearchLinks, Hits
  <1>1. PICK g \in Groups(d) : /\ l = HitLink(Global("gid", d, g))
                               /\ idxs[d].groups[g].poly # {}
    BY <1>0
  <1> DEFINE id == Global("gid", d, g)
             poly == idxs[d].groups[g].poly
  <1>2. Lookup("gid", id) = <<d, g>> /\ d \in Nat \ {0}
    BY LinkIds, Served
  <1>3. Did("gid", id) = d /\ Minus(id, range[d]["gid"].start) = g
    BY <1>2 DEF Lookup, NotFound
  <1>4. l = IF Cardinality(poly) = 1 THEN StatLink(d, CHOOSE s \in poly : TRUE) ELSE GroupLink(d, g)
    BY <1>1, <1>3 DEF HitLink
  <1>5. poly \subseteq Stations(d)
    BY Referred
  <1>6. (CHOOSE s \in poly : TRUE) \in Stations(d)
    BY <1>1, <1>5
  <1> QED BY <1>4, <1>6, StatLinkPrinted, GroupLinkPrinted

-----------------------------------------------------------------------------
(* Requests. *)

\* What is left of the answer to one request, whichever handler gave it: it is
\* about an object that is served, has printed links, and is 200 if there was
\* something to find.
Answered(l) ==
  /\ asked' = l /\ status' \in {"200", "404", "500"}
  /\ \A k \in links' : Printed(k)
  /\ viewed' # Nothing =>
       \E d \in DOMAIN idxs :
         \/ \E s \in Stations(d) : viewed' = StatOf(d, s)
         \/ \E g \in Groups(d) : viewed' = GroupOf(d, g)
         \/ \E m \in Metas(d) : viewed' = MGroupOf(d, m)
  /\ l.id # Missing =>
       /\ l.cmd = "stat" =>
            /\ status' = IF Known("stat", l.id) THEN "200" ELSE "404"
            /\ \A d \in DOMAIN idxs : \A s \in Stations(d) :
                 l.id = Global("sid", d, s) => viewed' = StatOf(d, s)
       /\ l.cmd = "group" =>
            /\ status' = IF Known("group", l.id) THEN "200" ELSE "404"
            /\ \A d \in DOMAIN idxs : \A g \in Groups(d) :
                 l.id = Global("gid", d, g) => viewed' = GroupOf(d, g)
       /\ l.cmd = "mgroup" =>
            /\ status' = IF Known("mgroup", l.id) THEN "200" ELSE "404"
            /\ \A d \in DOMAIN idxs : l.id \in Metas(d) =>
                 \E e \in DOMAIN idxs : e <= d /\ viewed' = MGroupOf(e, l.id)

LEMMA StatReqAnswers ==
  ASSUME SIInv, serving, NEW l, l.cmd = "stat", l.id \in Ids \cup {Missing},
         asked' = l, StatReq(l.id)
  PROVE  Answered(l)
  <1> USE DEF Answered, Answer, BadRequest, NotFoundAnswer
  <1>1. IInv /\ Loaded /\ idxs # <<>>
    BY DEF SIInv, Fresh
  <1>2. CASE l.id = Missing
    BY <1>2 DEF StatReq, Nothing
  <1>3. CASE l.id # Missing /\ Lookup("sid", l.id) = NotFound
    <2>1. ASSUME NEW d \in DOMAIN idxs, NEW s \in Stations(d), l.id = Global("sid", d, s)
          PROVE  FALSE
      BY <1>1, <1>3, <2>1, LinkIds, Served DEF NotFound
    <2>2. ~Known("stat", l.id)
      BY <2>1 DEF Known, StatLink, Link
    <2> QED BY <1>3, <2>1, <2>2 DEF StatReq, Nothing
  <1>4. CASE l.id # Missing /\ Lookup("sid", l.id) # NotFound
    <2>0. PICK d \in DOMAIN idxs : \E s \in Stations(d) :
            Lookup("sid", l.id) = <<d, s>> /\ l.id = Global("sid", d, s)
      BY <1>1, <1>4, LookupFinds
    <2>1. PICK s \in Stations(d) : Lookup("sid", l.id) = <<d, s>> /\ l.id = Global("sid", d, s)
      BY <2>0
    <2>2. status' = "200" /\ viewed' = StatOf(d, s) /\ links' = StatLinks(d, s)
      BY <1>4, <2>1 DEF StatReq
    <2>3. Known("stat", l.id)
      BY <2>1 DEF Known, StatLink, Link
    <2>4. \A k \in links' : Printed(k)
      BY <1>1, <2>2, StatLinksPrinted
    <2>5. \A e \in DOMAIN idxs : \A t \in Stations(e) : l.id = Global("sid", e, t) => e = d /\ t = s
      BY <1>1, <2>1, LinkIds
    <2> QED BY <1>4, <2>2, <2>3, <2>4, <2>5
  <1> QED BY <1>2, <1>3, <1>4

LEMMA GroupReqAnswers ==
  ASSUME SIInv, serving, NEW l, l.cmd = "group", l.id \in Ids \cup {Missing},
         asked' = l, GroupReq(l.id)
  PROVE  Answered(l)
  <1> USE DEF Answered, Answer, BadRequest, NotFoundAnswer
  <1>1. IInv /\ Loaded /\ idxs # <<>>
    BY DEF SIInv, Fresh
  <1>2. CASE l.id = Missing
    BY <1>2 DEF GroupReq, Nothing
  <1>3. CASE l.id # Missing /\ Lookup("gid", l.id) = NotFound
    <2>1. ASSUME NEW d \in DOMAIN idxs, NEW g \in Groups(d), l.id = Global("gid", d, g)
          PROVE  FALSE
      BY <1>1, <1>3, <2>1, LinkIds, Served DEF NotFound
    <2>2. ~Known("group", l.id)
      BY <2>1 DEF Known, GroupLink, Link
    <2> QED BY <1>3, <2>1, <2>2 DEF GroupReq, Nothing
  <1>4. CASE l.id # Missing /\ Lookup("gid", l.id) # NotFound
    <2>0. PICK d \in DOMAIN idxs : \E g \in Groups(d) :
            Lookup("gid", l.id) = <<d, g>> /\ l.id = Global("gid", d, g)
      BY <1>1, <1>4, LookupFinds
    <2>1. PICK g \in Groups(d) : Lookup("gid", l.id) = <<d, g>> /\ l.id = Global("gid", d, g)
      BY <2>0
    <2>2. status' = "200" /\ viewed' = GroupOf(d, g) /\ links' = GroupLinks(d, g)
      BY <1>4, <2>1 DEF GroupReq
    <2>3. Known("group", l.id)
      BY <2>1 DEF Known, GroupLink, Link
    <2>4. \A k \in links' : Printed(k)
      BY <1>1, <2>2, GroupLinksPrinted
    <2>5. \A e \in DOMAIN idxs : \A h \in Groups(e) : l.id = Global("gid", e, h) => e = d /\ h = g
      BY <1>1, <2>1, LinkIds
    <2> QED BY <1>4, <2>2, <2>3, <2>4, <2>5
  <1> QED BY <1>2, <1>3, <1>4

\* The first data set with a meta group answers for all that have it.
LEMMA MGroupReqAnswers ==
  ASSUME NEW l, l.cmd = "mgroup", asked' = l, MGroupReq(l.id)
  PROVE  Answered(l)
  <1> USE DEF Answered, Answer, BadRequest, NotFoundAnswer
  <1>1. CASE l.id = Missing /\ BadRequest
    BY <1>1 DEF Nothing
  <1>2. CASE l.id # Missing /\ {d \in DOMAIN idxs : l.id \in Metas(d)} = {} /\ NotFoundAnswer
    BY <1>2 DEF Nothing, Known
  <1>3. ASSUME NEW d \in {e \in DOMAIN idxs : l.id \in Metas(e)},
               \A e \in {x \in DOMAIN idxs : l.id \in Metas(x)} : d <= e,
               Answer("200", MGroupOf(d, l.id), MGroupLinks(d, l.id))
        PROVE  Answered(l)
    <2>1. \A k \in links' : Printed(k)
      BY <1>3, MGroupLinksPrinted
    <2>2. Known("mgroup", l.id)
      BY DEF Known
    <2> QED BY <1>3, <2>1, <2>2
  <1> QED BY <1>1, <1>2, <1>3 DEF MGroupReq

LEMMA HandleAnswers ==
  ASSUME SIInv, NEW l, Handle(l),
         l.cmd \in {"stat", "group"} => l.id \in Ids \cup {Missing}
  PROVE  Answered(l)
  <1>1. IInv /\ Loaded /\ serving /\ asked' = l
    BY DEF SIInv, Handle
  <1> DEFINE Listed == status' \in {"200", "500"} /\ viewed' = Nothing /\ \A k \in links' : Printed(k)
  <1>2. ASSUME Listed, l.cmd \notin {"stat", "group", "mgroup"} PROVE Answered(l)
    BY <1>1, <1>2 DEF Answered
  <1>3. CASE l.cmd \in {"", "build.js"} /\ Answer("200", Nothing, {})
    BY <1>2, <1>3 DEF Answer
  <1>4. CASE l.cmd = "map" /\ ListReq(l.id, MapLinks)
    BY <1>1, <1>2, <1>4, MapLinksPrinted DEF ListReq, Answer, BadRequest
  <1>5. CASE l.cmd = "heatmap" /\ ListReq(l.id, {})
    BY <1>2, <1>5 DEF ListReq, Answer, BadRequest
  <1>6. CASE l.cmd = "search" /\ ListReq(l.id, SearchLinks)
    BY <1>1, <1>2, <1>6, SearchLinksPrinted DEF ListReq, Answer, BadRequest
  <1>7. CASE l.cmd = "stat" /\ StatReq(l.id)
    BY <1>1, <1>7, StatReqAnswers
  <1>8. CASE l.cmd = "group" /\ GroupReq(l.id)
    BY <1>1, <1>8, GroupReqAnswers
  <1>9. CASE l.cmd = "mgroup" /\ MGroupReq(l.id)
    BY <1>1, <1>9, MGroupReqAnswers
  <1>10. CASE l.cmd = "unknown" /\ NotFoundAnswer
    BY <1>1, <1>10 DEF Answered, NotFoundAnswer, Answer
  <1> QED BY <1>3, <1>4, <1>5, <1>6, <1>7, <1>8, <1>9, <1>10 DEF Handle

-----------------------------------------------------------------------------
(* The session. *)

LEMMA InitSIInv == SInit => SIInv
  <1> SUFFICES ASSUME SInit PROVE SIInv OBVIOUS
  <1>1. IInv /\ TypeOK
    BY InitIInv DEF SInit, IInv
  <1>2. DOMAIN idxs = {} /\ idxs \in Seq(DataSets) /\ Len(idxs) = Len(range)
    <2>1. idxs = <<>> /\ range = <<>>
      BY DEF SInit, Init
    <2>2. <<>> \in Seq(DataSets)
      BY EmptySeq
    <2> QED BY <2>1, <2>2
  <1>3. SessionInv
    BY <1>1, <1>2 DEF SInit, SessionInv, SessionTypeOK, OnlyKnownFound, NoRequest, Link, Nothing
  <1> QED BY <1>1, <1>2, <1>3 DEF SInit, SIInv, Loaded, Fresh, LinksLead, NoRequest, Link, Nothing

\* Reading another file: its range goes behind the others.
LEMMA LoadSIInv == SIInv /\ Load => SIInv'
  <1> SUFFICES ASSUME SIInv, Load PROVE SIInv' OBVIOUS
  <1>1. IInv' /\ TypeOK'
    BY NextIInv DEF SIInv, Load, Next, IInv
  <1>2. PICK x \in DataSets : idxs' = Append(idxs, x) /\ size'[Len(size')] = SizeOf(x)
    BY DEF Load
  <1>3. PICK n, r : size' = Append(size, n) /\ range' = Append(range, r)
    BY DEF Load, ReadFile
  <1>4. /\ idxs \in Seq(DataSets) /\ Len(idxs) = Len(range) /\ Len(size) = Len(range)
        /\ size \in Seq([Kinds -> 0..MaxSize]) /\ Len(size) \in Nat
        /\ \A d \in DOMAIN idxs : size[d] = SizeOf(idxs[d])
        /\ DOMAIN idxs = 1..Len(size)
    BY LenProperties DEF SIInv, IInv, TypeOK, Loaded
  <1>5. /\ idxs' \in Seq(DataSets) /\ Len(idxs') = Len(size) + 1 /\ Len(size') = Len(size) + 1
        /\ Len(range') = Len(size')
        /\ \A d \in 1..Len(size) : idxs'[d] = idxs[d] /\ size'[d] = size[d]
        /\ idxs'[Len(size) + 1] = x
        /\ DOMAIN idxs' = 1..(Len(size) + 1)
    <2>1. /\ idxs' \in Seq(DataSets) /\ Len(idxs') = Len(size) + 1
          /\ \A d \in 1..Len(size) : idxs'[d] = idxs[d]
          /\ idxs'[Len(size) + 1] = x
      BY <1>2, <1>4, AppendProperties
    <2>2. /\ Len(size') = Len(size) + 1
          /\ \A d \in 1..Len(size) : size'[d] = size[d]
      BY <1>3, <1>4
    <2>3. Len(range') = Len(size')
      BY <1>1 DEF TypeOK
    <2> QED BY <2>1, <2>2, <2>3, LenProperties
  <1>6. Loaded'
    <2> SUFFICES ASSUME NEW d \in DOMAIN idxs' PROVE size'[d] = SizeOf(idxs'[d])
      BY <1>5 DEF Loaded, SizeOf
    <2>1. CASE d \in 1..Len(size)
      BY <1>4, <1>5, <2>1
    <2>2. CASE d = Len(size) + 1
      BY <1>2, <1>5, <2>2
    <2> QED BY <1>4, <1>5, <2>1, <2>2
  <1>7. /\ serving' = FALSE /\ links' = {} /\ asked' = NoRequest /\ status' = "" /\ viewed' = Nothing
    BY DEF Load, SIInv, Fresh
  <1>8. SessionInv' /\ LinksLead'
    BY <1>1, <1>6, <1>7 DEF SessionInv, SessionTypeOK, OnlyKnownFound, LinksLead, Loaded,
                            NoRequest, Link, Nothing
  <1> QED BY <1>1, <1>6, <1>7, <1>8 DEF SIInv, Fresh

\* A step that reads no file leaves all that is said of the data sets true.
LEMMA SameData ==
  ASSUME UNCHANGED <<size, range, idxs>>
  PROVE  /\ IInv => IInv' /\ TypeOK'
         /\ Loaded => Loaded'
         /\ \A d : Stations(d)' = Stations(d) /\ Groups(d)' = Groups(d) /\ Metas(d)' = Metas(d)
         /\ \A cmd, id : Known(cmd, id)' <=> Known(cmd, id)
         /\ \A l : Printed(l)' <=> Printed(l)
  <1>1. IInv => IInv' /\ TypeOK'
    BY DEF IInv, TypeOK, Tight, Ordered
  <1>2. Loaded => Loaded'
    BY DEF Loaded
  <1>3. \A d : Stations(d)' = Stations(d) /\ Groups(d)' = Groups(d) /\ Metas(d)' = Metas(d)
    BY DEF Stations, Groups, Metas
  <1>4. \A cmd, id : Known(cmd, id)' <=> Known(cmd, id)
    BY DEF Known, Stations, Groups, Metas, StatLink, GroupLink, Link, Global
  <1>5. \A l : Printed(l)' <=> Printed(l)
    BY DEF Printed, Stations, Groups, Metas, StatLink, GroupLink, MGroupLink, Link, Global
  <1> QED BY <1>1, <1>2, <1>3, <1>4, <1>5

\* So does it leave what is said of the last request, if there is no new one.
LEMMA SameAnswer ==
  ASSUME SIInv, UNCHANGED <<size, range, idxs, links, asked, status, viewed>>,
         serving' \in BOOLEAN, Fresh'
  PROVE  SIInv'
  <1>1. /\ IInv' /\ TypeOK' /\ Loaded'
        /\ \A d : Stations(d)' = Stations(d) /\ Groups(d)' = Groups(d) /\ Metas(d)' = Metas(d)
        /\ \A cmd, id : Known(cmd, id)' <=> Known(cmd, id)
        /\ \A l : Printed(l)' <=> Printed(l)
    BY SameData DEF SIInv
  <1>2. SessionTypeOK'
    BY <1>1 DEF SIInv, SessionInv, SessionTypeOK
  <1>3. OnlyKnownFound' /\ LinksLead'
    BY <1>1 DEF SIInv, SessionInv, OnlyKnownFound, LinksLead
  <1>4. \A l \in links' : Printed(l)'
    BY <1>1 DEF SIInv
  <1> QED BY <1>1, <1>2, <1>3, <1>4 DEF SIInv, SessionInv

LEMMA RunSIInv == SIInv /\ Run => SIInv'
  BY SameAnswer DEF Run, Fresh

\* A request whose link, if it was one, was printed.
LEMMA HandleSIInv ==
  ASSUME SIInv, NEW l, Handle(l),
         l.cmd \in {"stat", "group"} => l.id \in Ids \cup {Missing},
         l.means # Nothing => Printed(l)
  PROVE  SIInv'
  <1>1. Answered(l)
    BY HandleAnswers
  <1>2. UNCHANGED <<size, range, idxs, serving>> /\ serving /\ idxs # <<>>
    BY DEF Handle, SIInv, Fresh
  <1>3. /\ IInv' /\ Loaded' /\ TypeOK'
        /\ \A d : Stations(d)' = Stations(d) /\ Groups(d)' = Groups(d) /\ Metas(d)' = Metas(d)
        /\ \A cmd, id : Known(cmd, id)' <=> Known(cmd, id)
        /\ \A k : Printed(k)' <=> Printed(k)
    BY <1>2, SameData DEF SIInv
  <1>4. (\A k \in links' : Printed(k)') /\ serving' \in BOOLEAN /\ Fresh'
    BY <1>1, <1>2, <1>3 DEF Answered, SIInv, Fresh
  <1>5. \A k : Printed(k) => k.cmd \in {"stat", "group", "mgroup"} /\ k.means # Nothing
    BY DEF Printed, StatLink, GroupLink, MGroupLink, Link, StatOf, GroupOf, MGroupOf, Nothing
  <1>6. SessionTypeOK'
    <2>1. \A k \in links' : k.cmd \in {"stat", "group", "mgroup"} /\ k.means # Nothing
      BY <1>1, <1>5 DEF Answered
    <2>2. viewed' # Nothing =>
            /\ viewed'[2] \in DOMAIN idxs
            /\ viewed'[3] \in CASE viewed'[1] = "stat" -> Stations(viewed'[2])
                               [] viewed'[1] = "group" -> Groups(viewed'[2])
                               [] viewed'[1] = "mgroup" -> Metas(viewed'[2])
      <3> SUFFICES ASSUME viewed' # Nothing
                   PROVE  /\ viewed'[2] \in DOMAIN idxs
                          /\ viewed'[3] \in CASE viewed'[1] = "stat" -> Stations(viewed'[2])
                                             [] viewed'[1] = "group" -> Groups(viewed'[2])
                                             [] viewed'[1] = "mgroup" -> Metas(viewed'[2])
        OBVIOUS
      <3>1. PICK d \in DOMAIN idxs :
              \/ \E s \in Stations(d) : viewed' = <<"stat", d, s>>
              \/ \E g \in Groups(d) : viewed' = <<"group", d, g>>
              \/ \E m \in Metas(d) : viewed' = <<"mgroup", d, m>>
        BY <1>1 DEF Answered, StatOf, GroupOf, MGroupOf
      <3>2. viewed'[2] = d
            /\ \/ viewed'[1] = "stat" /\ viewed'[3] \in Stations(d)
               \/ viewed'[1] = "group" /\ viewed'[3] \in Groups(d)
               \/ viewed'[1] = "mgroup" /\ viewed'[3] \in Metas(d)
        BY <3>1
      <3> QED BY <3>2
    <2> QED BY <1>1, <1>2, <1>3, <2>1, <2>2 DEF Answered, SessionTypeOK, Loaded
  <1>7. OnlyKnownFound'
    BY <1>1, <1>3 DEF Answered, OnlyKnownFound
  <1>8. LinksLead'
    <2> SUFFICES ASSUME l.means # Nothing PROVE LinksLead'
      BY <1>1 DEF Answered, LinksLead
    <2>1. PICK d \in DOMAIN idxs :
            \/ \E s \in Stations(d) : l = StatLink(d, s)
            \/ \E g \in Groups(d) : l = GroupLink(d, g)
            \/ \E m \in Metas(d) : l = MGroupLink(d, m)
      BY DEF Printed
    <2>2. ASSUME NEW s \in Stations(d), l = StatLink(d, s) PROVE LinksLead'
      <3>1. l.cmd = "stat" /\ l.id = Global("sid", d, s) /\ l.means = StatOf(d, s)
        BY <2>2 DEF StatLink, Link
      <3>2. l.id # Missing
        BY <3>1, LinkIds, MissingAssumption DEF SIInv, Ids
      <3>3. Known("stat", l.id)
        BY <2>2 DEF Known
      <3> QED BY <1>1, <3>1, <3>2, <3>3 DEF Answered, LinksLead
    <2>3. ASSUME NEW g \in Groups(d), l = GroupLink(d, g) PROVE LinksLead'
      <3>1. l.cmd = "group" /\ l.id = Global("gid", d, g) /\ l.means = GroupOf(d, g)
        BY <2>3 DEF GroupLink, Link
      <3>2. l.id # Missing
        BY <3>1, LinkIds, MissingAssumption DEF SIInv, Ids
      <3>3. Known("group", l.id)
        BY <2>3 DEF Known
      <3> QED BY <1>1, <3>1, <3>2, <3>3 DEF Answered, LinksLead
    <2>4. ASSUME NEW m \in Metas(d), l = MGroupLink(d, m) PROVE LinksLead'
      <3>1. l.cmd = "mgroup" /\ l.id = m /\ l.means = MGroupOf(d, m)
        BY <2>4 DEF MGroupLink, Link
      <3>2. l.id # Missing
        BY <3>1, Referred, MissingAssumption DEF SIInv, Metas
      <3>3. Known("mgroup", l.id)
        BY <3>1 DEF Known
      <3>4. PICK e \in DOMAIN idxs : e <= d /\ viewed' = MGroupOf(e, m)
        BY <1>1, <3>1, <3>2 DEF Answered
      <3> QED BY <1>1, <3>1, <3>2, <3>3, <3>4 DEF Answered, LinksLead, MGroupOf
    <2> QED BY <2>1, <2>2, <2>3, <2>4
  <1> QED BY <1>3, <1>4, <1>6, <1>7, <1>8 DEF SIInv, SessionInv

LEMMA NextSIInv == SIInv /\ [SNext]_svars => SIInv'
  <1> SUFFICES ASSUME SIInv, [SNext]_svars PROVE SIInv' OBVIOUS
  <1>1. CASE Load
    BY <1>1, LoadSIInv
  <1>2. CASE Run
    BY <1>2, RunSIInv
  <1>3. CASE Follow
    <2>1. PICK l \in links : Handle(l)
      BY <1>3 DEF Follow
    <2>2. Printed(l)
      BY DEF SIInv
    <2>3. l.cmd \in {"stat", "group"} => l.id \in Ids
      BY <2>2, LinkIds DEF SIInv, Printed, StatLink, GroupLink, MGroupLink, Link
    <2> QED BY <2>1, <2>2, <2>3, HandleSIInv
  <1>4. CASE TypeId
    <2>1. PICK cmd \in {"", "build.js", "map", "heatmap", "search", "unknown", "stat", "group", "mgroup"},
               id \in Ids \cup {0, Missing} :
            /\ Handle(Link(cmd, id, Nothing))
            /\ cmd \in {"stat", "group"} => id \in Ids \cup {Missing}
      BY <1>4 DEF TypeId
    <2> DEFINE l == Link(cmd, id, Nothing)
    <2>2. l.cmd = cmd /\ l.id = id /\ l.means = Nothing
      BY DEF Link
    <2> HIDE DEF l
    <2> QED BY <2>1, <2>2, HandleSIInv DEF l
  <1>5. CASE UNCHANGED svars
    BY <1>5, SameAnswer DEF svars, SIInv, Fresh
  <1> QED BY <1>1, <1>2, <1>3, <1>4, <1>5 DEF SNext

THEOREM SpecSIInv == SSpec => []SIInv
  BY InitSIInv, NextSIInv, PTL DEF SSpec

\* Whatever a client does, only objects of the data sets that are served are
\* shown, and an id is answered 404 just if no object has it.
THEOREM SessionsSound == SSpec => []SessionInv
  <1>1. SIInv => SessionInv BY DEF SIInv
  <1> QED BY <1>1, SpecSIInv, PTL

\* Every link of every answer leads to the object it was printed for.
THEOREM EveryLinkLeads == SSpec => []LinksLead
  <1>1. SIInv => LinksLead BY DEF SIInv
  <1> QED BY <1>1, SpecSIInv, PTL
=============================================================================
