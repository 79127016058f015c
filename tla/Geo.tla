-------------------------------- MODULE Geo --------------------------------
(***************************************************************************)
(* The predicates of util/geo/Geo.h that the spatial indexes and the maps  *)
(* rest on, on integer coordinates: what lies in what, what meets what, and*)
(* how far points are apart.                                               *)
(*                                                                         *)
(* A point is <<x, y>>, a segment a pair and a line or the outer ring of a *)
(* polygon a sequence of points, a box [ll, ur].  On integers, less than   *)
(* EPSILON is 0.  Distances to a segment are compared by their squares     *)
(* times the square of its length.                                         *)
(***************************************************************************)
EXTENDS Integers, SequencesExt

CONSTANT Far             \* the largest coordinate

ASSUME FarAssumption == Far \in Nat

-----------------------------------------------------------------------------
(* Boxes. *)

EmptyBox == [ll |-> <<Far, Far>>, ur |-> <<-Far, -Far>>]

\* getBoundingBox, of the set of the points of a geometry: EmptyBox extended by
\* each of them.
GetBoundingBox(ps) ==
  [ll |-> [d \in 1..2 |-> Min({p[d] : p \in ps} \cup {EmptyBox.ll[d]})],
   ur |-> [d \in 1..2 |-> Max({p[d] : p \in ps} \cup {EmptyBox.ur[d]})]]

PointInBox(p, b) == \A d \in 1..2 : b.ll[d] <= p[d] /\ p[d] <= b.ur[d]

BoxesMeet(a, b) == \A d \in 1..2 : a.ll[d] <= b.ur[d] /\ a.ur[d] >= b.ll[d]

\* Polygon(box): its corners, the first one twice.
BoxRing(b) ==
  <<b.ll, <<b.ll[1], b.ur[2]>>, b.ur, <<b.ur[1], b.ll[2]>>, b.ll>>

BoxSides(b) ==
  {<<b.ll, <<b.ur[1], b.ll[2]>>>>, <<b.ll, <<b.ll[1], b.ur[2]>>>>,
   <<b.ur, <<b.ll[1], b.ur[2]>>>>, <<b.ur, <<b.ur[1], b.ll[2]>>>>}

-----------------------------------------------------------------------------
(* Segments. *)

CrossProd(p, s) ==
  (s[2][1] - s[1][1]) * (p[2] - s[1][2]) - (p[1] - s[1][1]) * (s[2][2] - s[1][2])

PointOnSegment(p, s) == CrossProd(p, s) = 0 /\ PointInBox(p, GetBoundingBox(ToSet(s)))

\* Of two segments one end of one lies on the other, or all ends apart from it
\* on both sides.  Where more ends do, they count as not meeting, or not.
EndOn(s, t) == PointOnSegment(s[1], t) # PointOnSegment(s[2], t)
EndsApart(s, t) == (CrossProd(s[1], t) < 0) # (CrossProd(s[2], t) < 0)
SegmentsMeet(s, t) ==
  /\ BoxesMeet(GetBoundingBox(ToSet(s)), GetBoundingBox(ToSet(t)))
  /\ (EndOn(s, t) # EndOn(t, s)) \/ (EndsApart(s, t) /\ EndsApart(t, s))

SegmentMeetsBox(s, b) ==
  (\E side \in BoxSides(b) : SegmentsMeet(s, side)) \/ (PointInBox(s[1], b) /\ PointInBox(s[2], b))

LineMeetsBox(l, b) == \E i \in 2..Len(l) : SegmentMeetsBox(<<l[i - 1], l[i]>>, b)

-----------------------------------------------------------------------------
(* Polygons. *)

\* The edges of a ring, the one that closes it last.
Edge(ring, i) == <<ring[i], ring[(i % Len(ring)) + 1]>>

\* Mutant: both ends of an edge are in the ray's way.
ContCheckClosed(a, b, c) ==
  LET low == IF b[2] > c[2] THEN c ELSE b
      top == IF b[2] > c[2] THEN b ELSE c
      d == (low[1] - a[1]) * (top[2] - a[2]) - (low[2] - a[2]) * (top[1] - a[1])
  IN IF a[2] = b[2] /\ a[2] = c[2] THEN IF a[1] \in b[1]..c[1] \cup c[1]..b[1] THEN 0 ELSE 1
     ELSE IF a = b THEN 0
     ELSE IF a[2] < low[2] \/ a[2] > top[2] THEN 1
     ELSE IF d > 0 THEN -1 ELSE IF d < 0 THEN 1 ELSE 0

\* polyContCheck: -1 if the ray from a to the right crosses the edge from b to
\* c, 0 if a is on it, 1 if neither; of the ends the lower one is left out.
ContCheck(a, b, c) ==
  LET low == IF b[2] > c[2] THEN c ELSE b
      top == IF b[2] > c[2] THEN b ELSE c
      d == (low[1] - a[1]) * (top[2] - a[2]) - (low[2] - a[2]) * (top[1] - a[1])
  IN IF a[2] = b[2] /\ a[2] = c[2] THEN IF a[1] \in b[1]..c[1] \cup c[1]..b[1] THEN 0 ELSE 1
     ELSE IF a = b THEN 0
     ELSE IF a[2] <= low[2] \/ a[2] > top[2] THEN 1
     ELSE IF d > 0 THEN -1 ELSE IF d < 0 THEN 1 ELSE 0

PointInPolygon(p, ring) ==
  LET checks == [i \in DOMAIN ring |-> ContCheck(p, Edge(ring, i)[1], Edge(ring, i)[2])]
  IN \/ \E i \in DOMAIN ring : checks[i] = 0
     \/ Cardinality({i \in DOMAIN ring : checks[i] = -1}) % 2 = 1

SegmentInPolygon(s, ring) ==
  /\ PointInPolygon(s[1], ring) /\ PointInPolygon(s[2], ring)
  /\ ~\E i \in DOMAIN ring : /\ ~PointOnSegment(s[1], Edge(ring, i))
                             /\ ~PointOnSegment(s[2], Edge(ring, i))
                             /\ SegmentsMeet(Edge(ring, i), s)

PolygonInPolygon(inner, ring) ==
  \A i \in DOMAIN inner : SegmentInPolygon(Edge(inner, i), ring)

SegmentMeetsPolygon(s, ring) ==
  (\E i \in DOMAIN ring : SegmentsMeet(Edge(ring, i), s)) \/ SegmentInPolygon(s, ring)

PolygonMeetsBox(ring, b) ==
  \/ \E side \in BoxSides(b) : SegmentMeetsPolygon(side, ring)
  \/ \A i \in DOMAIN ring : PointInBox(ring[i], b)
  \/ PolygonInPolygon(BoxRing(b), ring)

-----------------------------------------------------------------------------
(* Distances. *)

SqDist(p, q) == (p[1] - q[1]) * (p[1] - q[1]) + (p[2] - q[2]) * (p[2] - q[2])

\* distToSegment, squared and times the square of the segment's length.
ScaledDist(a, b, p) ==
  LET d == SqDist(a, b)
      t == (p[1] - a[1]) * (b[1] - a[1]) + (p[2] - a[2]) * (b[2] - a[2])
  IN IF d = 0 THEN SqDist(p, a)
     ELSE IF t < 0 THEN SqDist(p, a) * d
     ELSE IF t > d THEN SqDist(p, b) * d
     ELSE CrossProd(p, <<a, b>>) * CrossProd(p, <<a, b>>)
=============================================================================
