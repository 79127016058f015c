----------------------------- MODULE MCLibrary -----------------------------
(***************************************************************************)
(* The data structures of the library.  A behaviour is the life of one     *)
(* object of one of them, or one call of a search; the others stay as they *)
(* were made.  The thread that calls goes on, so rounds are fair.          *)
(***************************************************************************)
EXTENDS GraphAlgorithm, RadixHeap, Grid, QuadTree, JsonWriter, XmlWriter, GeoCalls, MCSearches

\* Two cells by three with a part that sticks out, and a grid of no width.  A
\* float holds every third offset, the borders of cells among them: 11, just
\* below the right border, is narrowed to 12, and 5, just below the first, to 6.
MCAreas == {[ll |-> <<0, 0>>, ur |-> <<12, 15>>], [ll |-> <<3, 3>>, ur |-> <<3, 15>>]}
MCCell == <<6, 6>>
MCFloats == {3 * k : k \in 0..7}
MCGeoms == {<<<<6, 6>>>>, <<<<11, 3>>, <<4, 8>>>>, <<<<-3, 15>>, <<15, 15>>>>, <<<<5, 12>>>>}
MCBoxes == {[ll |-> <<0, 0>>, ur |-> <<3, 3>>], [ll |-> <<-3, -3>>, ur |-> <<6, 5>>],
            [ll |-> <<0, 4>>, ur |-> <<5, 8>>], [ll |-> <<4, 4>>, ur |-> <<11, 8>>],
            [ll |-> <<0, 0>>, ur |-> <<21, 21>>]}
MCMeets(points, b) == \E p \in ToSet(points) : PointInBox(p, b)

\* Inside of the quadrants of a box of 8, on a border of them, and outside.
MCPoints == {<<1, 1>>, <<3, 1>>, <<5, 3>>, <<7, 7>>, <<4, 1>>, <<9, 1>>}

\* Empty, flat and nested values.
Leaf == [t |-> "LEAF", of |-> <<>>]
Short == [t |-> "DICT", of |-> <<Leaf>>]
Flat == [t |-> "ARRAY", of |-> <<Leaf, Leaf>>]
MCVals == {Leaf, [t |-> "ARRAY", of |-> <<>>], [t |-> "DICT", of |-> <<>>], Short, Flat,
           [t |-> "ARRAY", of |-> <<Leaf, Short>>], [t |-> "DICT", of |-> <<Leaf, Flat>>]}

\* Two names that are allowed, one that is reserved and one with a digit first.
MCSpelling == [a |-> <<"a", "1">>, x |-> <<"x", "m">>, X |-> <<"X", "M", "l">>, d |-> <<"1", "a">>]
MCTexts == {<<>>, <<"y", "<">>, <<"&">>}

\* Segments, triangles both ways around and a polygon with a dent, boxes, lines
\* and sets of points, on a lattice of three by three.
Lattice == (0..2) \X (0..2)
Before(p, q) == p[1] < q[1] \/ (p[1] = q[1] /\ p[2] < q[2])
Dented == <<<<0, 0>>, <<2, 0>>, <<1, 1>>, <<2, 2>>, <<0, 2>>>>
MCSegments == Lattice \X Lattice
MCRings ==
  {r \in Lattice \X Lattice \X Lattice : Before(r[1], r[2]) /\ Before(r[1], r[3]) /\ CrossProd(r[3], <<r[1], r[2]>>) # 0}
    \cup {Dented, Reverse(Dented)}
MCGeoBoxes == {[ll |-> <<0, 0>>, ur |-> <<1, 1>>], [ll |-> <<0, 1>>, ur |-> <<2, 2>>]}
MCLines == (Lattice \X Lattice \X Lattice) \cup {<<<<0, 0>>, <<1, 1>>, <<2, 0>>, <<1, 2>>, <<2, 2>>>>}
MCClouds ==
  {c \in Lattice \X Lattice \X Lattice \X Lattice : Before(c[2], c[1]) /\ Before(c[2], c[3]) /\ Before(c[3], c[4])}

useVars == <<graphVars, heapVars, gridVars, quadVars, jsonVars, xmlVars, geoVars>>

MCInit ==
  /\ part \in {"graph", "heap", "grid", "quad", "json", "xml", "geo", "node", "edge", "bi"}
  /\ GraphInit /\ (part # "graph" => directed)
  /\ GridInit /\ (part # "grid" => hasValIdx /\ area.ll = <<3, 3>>)
  /\ QuadInit /\ (part # "quad" => capa = 1)
  /\ HeapInit /\ JsonInit /\ XmlInit /\ GeoInit /\ CallsInit

NextUse ==
  \/ /\ part = "graph" /\ GraphNext
     /\ UNCHANGED <<heapVars, gridVars, quadVars, jsonVars, xmlVars, geoVars>>
  \/ /\ part = "heap" /\ HeapNext
     /\ UNCHANGED <<graphVars, gridVars, quadVars, jsonVars, xmlVars, geoVars>>
  \/ /\ part = "grid" /\ GridNext
     /\ UNCHANGED <<graphVars, heapVars, quadVars, jsonVars, xmlVars, geoVars>>
  \/ /\ part = "quad" /\ QuadNext
     /\ UNCHANGED <<graphVars, heapVars, gridVars, jsonVars, xmlVars, geoVars>>
  \/ /\ part = "json" /\ JsonNext
     /\ UNCHANGED <<graphVars, heapVars, gridVars, quadVars, xmlVars, geoVars>>
  \/ /\ part = "xml" /\ XmlNext
     /\ UNCHANGED <<graphVars, heapVars, gridVars, quadVars, jsonVars, geoVars>>
  \/ /\ part = "geo" /\ GeoNext
     /\ UNCHANGED <<graphVars, heapVars, gridVars, quadVars, jsonVars, xmlVars>>

MCNext ==
  \/ NextUse /\ UNCHANGED <<callVars, part>>
  \/ NextRound /\ UNCHANGED useVars

MCSpec ==
  /\ MCInit /\ [][MCNext]_<<useVars, callVars, part>>
  /\ WF_<<callVars, part>>(Round)
=============================================================================
