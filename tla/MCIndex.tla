------------------------------ MODULE MCIndex ------------------------------
(***************************************************************************)
(* What is computed once when a data set is loaded: the suggestions, from  *)
(* files, the hulls, grids and clusters of the maps, from files with points*)
(* of stations, and the search index, from names of one or two tokens over *)
(* the letters a and b, with tokens that come again, and all queries of up *)
(* to five characters.  A behaviour builds one of the three.               *)
(***************************************************************************)
EXTENDS MCStatIdx, SearchIdx, MapIdx

ab == <<"a", "b">>
ba == <<"b", "a">>
abab == ab \o ab
abba == ab \o ba
aab == <<"a">> \o ab
Two(x, y) == x \o <<"-">> \o y

\* Groups whose first name is their own; the others are those of stations.
Called(name) == <<<<"name", name>>>>
Entry(gid, score, names) ==
  [gid |-> gid, score |-> score, poly |-> 1, attrs |-> Called(names[1]),
   members |-> IF Len(names) = 1 THEN <<Called(names[1])>> ELSE <<Called(names[2])>>]

MCContents ==
  {<<Entry(0, 20, <<ab, Two(ba, ab)>>), Entry(1, 21, <<abab>>), Entry(4, 20, <<Two(ab, ab)>>)>>,
   <<Entry(0, 20, <<Two(abba, aab)>>), Entry(1, 20, <<aab, abba>>), Entry(2, 21, <<Two(ba, abba)>>)>>,
   <<Entry(0, 21, <<Two(abab, ba)>>), [Entry(1, 20, <<ba>>) EXCEPT !.members = <<>>],
     [Entry(2, 20, <<ba>>) EXCEPT !.poly = 0], Entry(3, 20, <<Two(abba, abab), <<"A", "b">>>>)>>,
   <<Entry(0, 20, <<aab \o ba>>), Entry(1, 20, <<Two(aab, aab \o ba)>>), Entry(2, 20, <<abba \o <<"a">>>>)>>,
   \* Names that come again under better and worse attributes.
   <<[Entry(0, 21, <<ab>>) EXCEPT
        !.attrs = <<<<"alt_name", ba>>, <<"name", ab>>>>,
        !.members = <<<<<<"alt_name", abba>>, <<"name", ba>>, <<"uic_name", abba>>>>, <<<<"uic_name", Two(ab, ba)>>>>>>],
     [Entry(1, 20, <<ba>>) EXCEPT !.attrs = <<>>]>>}

MCTyped == UNION {[1..n -> {"a", "b", "-"}] : n \in 0..5} \cup {<<"A", "b">>, <<"b", "A", " ", "A">>}

-----------------------------------------------------------------------------
\* Stations that are points, ways and areas, in one cell, on a border or in
\* several cells of an area that ends on a border or not; with an error, with
\* a move, in a relation, in a group to be created and in none.
Place(x, y) == <<<<x, y>>>>
Placed(orig, group, errs, pos) == [orig |-> orig, group |-> group, named |-> TRUE, errs |-> errs, pos |-> pos]
InMeta(osmid, meta) == [osmid |-> osmid, named |-> TRUE, meta |-> meta, errs |-> <<>>]
MapFiles ==
  {[stations |-> 0 :> Placed(0, m.to[1], <<>>, p) @@ 1 :> Placed(1, m.to[2], m.errs, q) @@ 2 :> Placed(1, m.to[3], <<>>, r),
    groups |-> 0 :> InMeta(0, 0) @@ 1 :> InMeta(3, 7) @@ 2 :> InMeta(m.osmid, m.meta)] :
     p \in {Place(6, 12), <<<<6, 12>>, <<18, 12>>, <<12, 24>>>>},
     q \in {Place(66, 66), Place(120, 36), <<<<60, 60>>, <<72, 66>>>>},
     r \in {Place(126, 72), Place(96, 42), <<<<36, 12>>, <<138, 72>>>>},
     m \in {[to |-> <<0, 1, 1>>, errs |-> <<Err("foreign")>>, osmid |-> 1, meta |-> 0],
            [to |-> <<2, 2, 1>>, errs |-> <<>>, osmid |-> 1, meta |-> 8],
            [to |-> <<1, 2, 2>>, errs |-> <<Err("foreign")>>, osmid |-> 3, meta |-> 8]}}

MCRim == <<<<1, 0>>, <<0, 1>>, <<-1, 0>>, <<0, -1>>>>
MCArrows == {<<<<12, 12>>, <<66, 72>>, <<60, 72>>>>, <<<<120, 36>>, <<126, 30>>>>}

\* A few stations, a border, all, beyond the upper end, and a part of a hull.
View(x1, y1, x2, y2) == [ll |-> <<x1, y1>>, ur |-> <<x2, y2>>]
MCViews == {View(0, 0, 20, 20), View(50, 50, 70, 80), View(-10, 5, 300, 300), View(100, 20, 130, 72), View(66, 66, 67, 71)}
MCZooms == {-1, 0, 4, 9, 14, 16}

-----------------------------------------------------------------------------
VARIABLE part

\* The file while the search index is built.
NoStations == [stations |-> <<>>, groups |-> <<>>]
MCFiles == MovesAndErrors \cup {NoStations} \cup MapFiles

IndexInit ==
  /\ Init /\ SearchIdxInit /\ MapInit
  /\ part = IF file = NoStations THEN "search"
            ELSE IF "pos" \in DOMAIN file.stations[0] THEN "map" ELSE "suggestions"

IndexNext ==
  \/ part = "search" /\ SearchIdxNext /\ UNCHANGED <<vars, mapVars, part>>
  \/ part = "suggestions" /\ Next /\ UNCHANGED <<searchVars, mapVars, part>>
  \/ part = "map" /\ MapNext /\ UNCHANGED <<searchVars, part>>

IndexSpec == IndexInit /\ [][IndexNext]_<<vars, searchVars, mapVars, part>>
=============================================================================
