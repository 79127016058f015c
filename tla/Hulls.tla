------------------------------- MODULE Hulls -------------------------------
(***************************************************************************)
(* The recursive algorithms of util/geo/Geo.h: the convex hull of a set of *)
(* points (quickhull) and the simplification of a line (Douglas, Peucker). *)
(***************************************************************************)
EXTENDS Geo

\* The first of some indexes of pts whose point is farthest from a segment.
Farthest(pts, of, a, b) ==
  Min({i \in of : \A j \in of : ScaledDist(a, b, pts[j]) <= ScaledDist(a, b, pts[i])})

\* convexHullImpl: what goes between two points of the hull.
RECURSIVE Beyond(_, _, _)
Beyond(pts, a, b) ==
  LET out == {i \in DOMAIN pts : CrossProd(pts[i], <<a, b>>) > 0}
      p == pts[Farthest(pts, out, a, b)]
  IN IF out = {} THEN <<>> ELSE Beyond(pts, a, p) \o <<p>> \o Beyond(pts, p, b)

\* convexHull of points.  Without any it is a line between the largest values.
ConvexHull(pts) ==
  LET left == pts[Min({i \in DOMAIN pts : \A j \in DOMAIN pts : pts[i][1] <= pts[j][1]})]
      right == pts[Min({i \in DOMAIN pts : \A j \in DOMAIN pts : pts[i][1] >= pts[j][1]})]
  IN IF Len(pts) \in 1..2 THEN pts
     ELSE IF pts = <<>> THEN <<<<Far, 0>>, <<-Far, 0>>>>
     ELSE <<left>> \o Beyond(pts, left, right) \o <<right>> \o Beyond(pts, right, left)

\* simplify of a line: points within d of the line between its ends go, or
\* both parts up to the farthest are simplified.
RECURSIVE Simplify(_, _)
Simplify(line, d) ==
  LET a == Head(line)
      b == Last(line)
      inner == 2..Len(line) - 1
      i == Farthest(line, inner, a, b)
      scale == IF a = b THEN 1 ELSE SqDist(a, b)
  IN IF inner = {} \/ ScaledDist(a, b, line[i]) <= d * d * scale THEN <<a, b>>
     ELSE Simplify(SubSeq(line, 1, i), d) \o Tail(Simplify(SubSeq(line, i, Len(line)), d))
=============================================================================
