------------------------------- MODULE Plane -------------------------------
(***************************************************************************)
(* What the predicates of Geo stand for on the plane.                      *)
(***************************************************************************)
EXTENDS Geo

Sign(x) == IF x < 0 THEN -1 ELSE IF x > 0 THEN 1 ELSE 0

\* Two segments have a point in common.
Share(s, t) ==
  \/ \E i \in 1..2 : PointOnSegment(s[i], t) \/ PointOnSegment(t[i], s)
  \/ /\ Sign(CrossProd(s[1], t)) * Sign(CrossProd(s[2], t)) = -1
     /\ Sign(CrossProd(t[1], s)) * Sign(CrossProd(t[2], s)) = -1

\* How many of their ends lie on the other one.
Contacts(s, t) ==
  Cardinality({i \in 1..2 : PointOnSegment(s[i], t)}) + Cardinality({i \in 1..2 : PointOnSegment(t[i], s)})

\* A point is on a ring, or a ray up from it crosses the ring oddly often.
Inside(p, ring) ==
  LET crosses(e) ==
        /\ (e[1][1] <= p[1]) # (e[2][1] <= p[1])
        /\ IF e[1][1] < e[2][1] THEN CrossProd(p, e) < 0 ELSE CrossProd(p, e) > 0
  IN \/ \E i \in DOMAIN ring : PointOnSegment(p, Edge(ring, i))
     \/ Cardinality({i \in DOMAIN ring : crosses(Edge(ring, i))}) % 2 = 1

\* A line there and back, which is a polygon without an inside.
There(line) == line \o Tail(Reverse(line))

\* A polygon and a box have a point in common.
ShareBox(ring, b) ==
  \/ \E i \in DOMAIN ring : PointInBox(ring[i], b)
  \/ \E p \in ToSet(BoxRing(b)) : Inside(p, ring)
  \/ \E i \in DOMAIN ring, side \in BoxSides(b) : Share(Edge(ring, i), side)

\* All coordinates times four, and a box of that size without its border.
Inside4(b) == [ll |-> <<4 * b.ll[1] + 1, 4 * b.ll[2] + 1>>, ur |-> <<4 * b.ur[1] - 1, 4 * b.ur[2] - 1>>]

Times4(pts) == [i \in DOMAIN pts |-> <<4 * pts[i][1], 4 * pts[i][2]>>]
=============================================================================
