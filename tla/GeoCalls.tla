------------------------------ MODULE GeoCalls ------------------------------
(***************************************************************************)
(* Calls of the predicates of Geo and of the algorithms of Hulls, against  *)
(* what they stand for on the plane.                                       *)
(***************************************************************************)
EXTENDS Hulls, Plane

CONSTANTS Segments, Rings, GeoPoints, GeoBoxes, Clouds, Lines, Tolerances

VARIABLES geoCall, geoResult

geoVars == <<geoCall, geoResult>>

NoGeoCall == <<"none">>

GeoInit == geoCall = NoGeoCall /\ geoResult = <<>>

GeoReturn(call, result) == geoCall' = call /\ geoResult' = result

GeoNext ==
  /\ geoCall = NoGeoCall
  /\ \/ \E s, t \in Segments : GeoReturn(<<"segments", s, t>>, SegmentsMeet(s, t))
     \/ \E p \in GeoPoints, r \in Rings : GeoReturn(<<"inside", p, r>>, PointInPolygon(p, r))
     \/ \E r \in Rings, b \in GeoBoxes : GeoReturn(<<"box", r, b>>, PolygonMeetsBox(r, b))
     \/ \E l \in Lines, b \in GeoBoxes : GeoReturn(<<"line", l, b>>, LineMeetsBox(l, b))
     \/ \E c \in Clouds : GeoReturn(<<"hull", c>>, ConvexHull(c))
     \/ \E l \in Lines, d \in Tolerances : GeoReturn(<<"simplify", l, d>>, Simplify(l, d))

-----------------------------------------------------------------------------
\* Two segments meet where they have a point in common, as long as not more
\* than one of their ends lies on the other: two that only touch with their
\* ends meet or not, by the order of their ends.
SegmentsRight ==
  geoCall[1] = "segments" /\ Contacts(geoCall[2], geoCall[3]) < 2 =>
    geoResult = Share(geoCall[2], geoCall[3])

\* The ray to the right counts an edge's ends once, in any polygon.
InsideRight == geoCall[1] = "inside" => geoResult = Inside(geoCall[2], geoCall[3])

\* What has a point inside of a box meets it, and what has none in common with
\* it does not.  A box that is only touched, with a corner, may be missed.
BoxRight ==
  geoCall[1] = "box" => /\ ShareBox(Times4(geoCall[2]), Inside4(geoCall[3])) => geoResult
                        /\ geoResult => ShareBox(geoCall[2], geoCall[3])
LineRight ==
  geoCall[1] = "line" => /\ ShareBox(There(Times4(geoCall[2])), Inside4(geoCall[3])) => geoResult
                         /\ geoResult => ShareBox(There(geoCall[2]), geoCall[3])

\* The hull is made of the points and turns right around all of them, unless
\* all lie on one upright line: then it is one point of them.
HullRight ==
  geoCall[1] = "hull" /\ (\E p, q \in ToSet(geoCall[2]) : p[1] # q[1]) =>
    LET c == geoCall[2]
        h == geoResult
    IN /\ ToSet(h) \subseteq ToSet(c)
       /\ \A p \in ToSet(c) : Inside(p, h) /\ \A i \in DOMAIN h : CrossProd(p, Edge(h, i)) <= 0

\* No point of a line is farther from the simplified one than allowed, and the
\* ends stay.
SimplifyRight ==
  geoCall[1] = "simplify" =>
    LET l == geoCall[2]
        s == geoResult
    IN /\ Head(s) = Head(l) /\ Last(s) = Last(l) /\ ToSet(s) \subseteq ToSet(l)
       /\ \A p \in ToSet(l) : \E i \in 2..Len(s) :
            ScaledDist(s[i - 1], s[i], p) <= geoCall[3] * geoCall[3] * Max({1, SqDist(s[i - 1], s[i])})

\* All predicates are right on the plane (Geo.h: intersects, contains,
\* convexHull, simplify).
GeoExact ==
  SegmentsRight /\ InsideRight /\ BoxRight /\ LineRight /\ HullRight /\ SimplifyRight
=============================================================================
