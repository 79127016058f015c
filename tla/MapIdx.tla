------------------------------- MODULE MapIdx -------------------------------
(***************************************************************************)
(* staty/index/StatIdx.cpp: the spatial side of an index, and the answers  *)
(* to /map and /heatmap from it.  initGroups and initMetaGroups draw hulls *)
(* about the members of groups and meta groups; initIndex puts stations,   *)
(* hulls and arrows into grids and counts, for ten levels of detail, the   *)
(* stations of each kind in the boxes of a raster.  A map shows what meets *)
(* the view; a heat map shows the clusters of a level within the view.     *)
(*                                                                         *)
(* The stations of a file have a pos here, the sequence of their points.   *)
(* A unit of length is 10 km / GSize; averages are rounded down to it.     *)
(***************************************************************************)
EXTENDS StatIdx, Hulls, Plane

CONSTANTS
  Rim,         \* the corners of the circle hull draws about a point
  Arrows,      \* the lines getGroupArrow may draw
  Views,       \* boxes asked for
  Zooms        \* zoom levels asked for

VARIABLES
  phase,       \* the next step of readFromFile
  groupPoly,   \* Group::poly
  metaPoly,    \* MetaGroup::poly
  arrow,       \* Suggestion::arrow, empty if there is none
  grids,       \* _sgrid, _ggrid, _mgrid, _suggrid
  heat,        \* _heatGridsOk, _heatGridsSugg, _heatGridsErr, by level
  request, reply

mapVars == <<phase, groupPoly, metaPoly, arrow, grids, heat, request, reply>>

NotYet == <<>>

Pos(s) == file.stations[s].pos
Metas == {Meta(g) : g \in Groups} \ {0}

\* _bbox: addStation extends it by every point.
Bbox == GetBoundingBox(UNION {ToSet(Pos(s)) : s \in Stations})

\* Cells of 10 km for what is shown, of 5 km for clusters; the boxes that are
\* counted are 2 km wide at the first level and 20 at the last.
GSize == 60
HeatSize == GSize \div 2
Step(level) == (GSize \div 5) * (level + 1)
Levels == 0..9

\* The grids are without a value index, for polygons, lines and points.  Their
\* offsets are taken as floats hold them; Grid is about those it does not hold.
Polygons ==
  INSTANCE Grid WITH Meets <- PolygonMeetsBox, Cell <- <<GSize, GSize>>,
               area <- Bbox, grid <- <<>>, hasValIdx <- FALSE, cellsOf <- <<>>, removed <- {}, held <- {},
               GridVals <- {}, Geoms <- {}, Areas <- {}, Boxes <- {}, Dists <- {}, Floats <- Nat
Polylines ==
  INSTANCE Grid WITH Meets <- LineMeetsBox, Cell <- <<GSize, GSize>>,
               area <- Bbox, grid <- <<>>, hasValIdx <- FALSE, cellsOf <- <<>>, removed <- {}, held <- {},
               GridVals <- {}, Geoms <- {}, Areas <- {}, Boxes <- {}, Dists <- {}, Floats <- Nat
PointsMeetBox(pts, b) == \E p \in ToSet(pts) : PointInBox(p, b)
Spots ==
  INSTANCE Grid WITH Meets <- PointsMeetBox, Cell <- <<HeatSize, HeatSize>>,
               area <- Bbox, grid <- <<>>, hasValIdx <- FALSE, cellsOf <- <<>>, removed <- {}, held <- {},
               GridVals <- {}, Geoms <- {}, Areas <- {}, Boxes <- {}, Dists <- {}, Floats <- Nat

\* A grid once all values are added, touched[v] being the cells of v, and what
\* it has in some cells.
Added(cells, touched) == [c \in cells |-> {v \in DOMAIN touched : c \in touched[v]}]
Found(grid, cells) == UNION {grid[c] : c \in cells}

-----------------------------------------------------------------------------
(* Building the index. *)

MapInit ==
  /\ phase = "initGroups"
  /\ groupPoly = NotYet /\ metaPoly = NotYet /\ arrow = NotYet
  /\ grids = NotYet /\ heat = NotYet
  /\ request = NotYet /\ reply = NotYet

\* hull: circles about all points, the hull of these, simplified.
HullOf(pts) ==
  LET circles == FlattenSeq([k \in DOMAIN pts |->
                   [n \in DOMAIN Rim |-> <<pts[k][1] + Rim[n][1], pts[k][2] + Rim[n][2]>>]])
  IN Simplify(ConvexHull(circles), 0)

\* The end of initGroups: members are sorted, hulls drawn about polyStations.
InitGroupPolys ==
  /\ SortMembers
  /\ phase' = "initMetaGroups"
  /\ groupPoly' = [g \in Groups |-> HullOf(FlattenSeq([k \in DOMAIN hull[g] |-> Pos(hull[g][k])]))]
  /\ UNCHANGED <<metaPoly, arrow, grids, heat, request, reply>>

\* initMetaGroups: hulls about the hulls of groups that have stations.
InitMetaGroups ==
  LET ofMeta(m) == SetToSortSeq({g \in Groups : Meta(g) = m /\ hull[g] # <<>>}, <)
  IN /\ phase = "initMetaGroups" /\ phase' = "initSuggestions"
     /\ metaPoly' = [m \in Metas |-> HullOf(FlattenSeq([k \in DOMAIN ofMeta(m) |-> groupPoly[ofMeta(m)[k]]]))]
     /\ UNCHANGED <<vars, groupPoly, arrow, grids, heat, request, reply>>

\* The loops of initGroups and initSuggestions.
InitRest ==
  /\ phase \in {"initGroups", "initSuggestions"}
  /\ InitGroup \/ GroupSuggestions \/ GroupsDone \/ StationSuggestions
  /\ UNCHANGED <<phase, arrow, groupPoly, metaPoly, grids, heat, request, reply>>

\* Suggestions are made: those that have arrows got one, to either side.
InitArrows ==
  /\ phase = "initSuggestions" /\ StationsDone
  /\ phase' = "initIndex"
  /\ arrow' \in [DOMAIN suggs -> Arrows \cup {<<>>}]
  /\ \A k \in DOMAIN suggs : suggs[k].arrow <=> arrow'[k] # <<>>
  /\ UNCHANGED <<groupPoly, metaPoly, grids, heat, request, reply>>

\* Mutant: all points of a station are counted in every box it is found in.
PointsInAll(found, kind, b) ==
  UNION {{s} \X DOMAIN Pos(s) : s \in {x \in found : ErrClass(x) = kind}}

\* The points in a box of the stations of a kind.
PointsIn(found, kind, b) ==
  UNION {{s} \X {n \in DOMAIN Pos(s) : PointInBox(Pos(s)[n], b)} : s \in {x \in found : ErrClass(x) = kind}}

\* The boxes of the raster of a level, but for the last row and column.
Raster(level) ==
  LET last(d) == (Polygons!Width(d) * GSize - 1) \div Step(level)
      corner(x, y) == <<Bbox.ll[1] + x * Step(level), Bbox.ll[2] + y * Step(level)>>
  IN {[ll |-> corner(x - 1, y - 1), ur |-> corner(x, y)] : x \in 1..last(1), y \in 1..last(2)}

Clusters(stationGrid, level, kind) ==
  LET points == [b \in Raster(level) |-> PointsIn(Found(stationGrid, Polygons!Span(b)), kind, b)]
      average(ps, d) == MapThenSumSet(LAMBDA q : Pos(q[1])[q[2]][d], ps) \div Cardinality(ps)
  IN {[pos |-> <<average(points[b], 1), average(points[b], 2)>>, size |-> Cardinality(points[b]), box |-> b]
        : b \in {x \in Raster(level) : points[x] # {}}}

\* initIndex.  A group that is one orphan is not drawn.
InitIndex ==
  LET polygons(geoms) == Added(Polygons!Cells, [v \in DOMAIN geoms |-> Polygons!Touched(geoms[v])])
      stationGrid == polygons([s \in Stations |-> Pos(s)])
      drawn == {g \in Groups : ~(Len(hull[g]) = 1 /\ Osmid(g) < 2)}
      spots(cs) == Added(Spots!Cells, [c \in cs |-> Spots!Touched(<<c.pos>>)])
  IN /\ phase = "initIndex" /\ phase' = "ready"
     /\ grids' = [s |-> stationGrid,
                  g |-> polygons([g \in drawn |-> groupPoly[g]]),
                  m |-> polygons(metaPoly),
                  su |-> Added(Polylines!Cells, [k \in DOMAIN arrow |-> Polylines!Touched(arrow[k])])]
     /\ heat' = [level \in Levels |-> [kind \in 0..2 |-> spots(Clusters(stationGrid, level, kind))]]
     /\ UNCHANGED <<vars, groupPoly, metaPoly, arrow, request, reply>>

-----------------------------------------------------------------------------
(* Answers. *)

GetStations(view) ==
  LET found == {s \in Found(grids.s, Polygons!Span(view)) : PolygonMeetsBox(Pos(s), view)}
      list == SetToSortSeq(found, <)
  IN SortBy(list, [k \in DOMAIN list |-> ErrClass(list[k])])
GetGroups(view) == {g \in Found(grids.g, Polygons!Span(view)) : PolygonMeetsBox(groupPoly[g], view)}
GetMetaGroups(view) == {m \in Found(grids.m, Polygons!Span(view)) : PolygonMeetsBox(metaPoly[m], view)}
GetSuggestions(view) == {k \in Found(grids.su, Polylines!Span(view)) : LineMeetsBox(arrow[k], view)}

\* printStation, printGroup and printMetaGroup: the points that are drawn, or
\* only the centroid, and the marks for suggestions and errors.
Shape(points, simple) == IF simple THEN <<"centroid">> ELSE points
PrintStation(s, simple) ==
  [i |-> s, g |-> Shape(Pos(s), simple), s |-> ofStation[s] # <<>>, e |-> Len(file.stations[s].errs)]
PrintGroup(g, simple, aggr) ==
  LET of == IF aggr THEN ToSet(hull[g]) ELSE {}
  IN [i |-> g, g |-> Shape(groupPoly[g], simple),
      s |-> Osmid(g) = 1 \/ ofGroup[g] # <<>> \/ \E s \in of : ofStation[s] # <<>>,
      e |-> Len(file.groups[g].errs) + MapThenSumSet(LAMBDA s : Len(file.stations[s].errs), of)]
PrintMetaGroup(m, simple) == [i |-> m, g |-> Shape(metaPoly[m], simple), s |-> m = 1]

\* handleMapReq: close up, groups are shown, and closer the arrows; points and
\* outlines from zoom 15 on.
MapRequest(view, z) ==
  LET stats == GetStations(view)
      simple == z < 15
  IN
  /\ phase = "ready" /\ request = NotYet
  /\ request' = <<"map", view, z>>
  /\ reply' = [stats |-> [k \in DOMAIN stats |-> PrintStation(stats[k], simple)],
               groups |-> IF z > 13 THEN {PrintGroup(g, simple, FALSE) : g \in GetGroups(view)} ELSE {},
               su |-> IF z > 15 THEN {k \in GetSuggestions(view) : Len(arrow[k]) >= 2} ELSE {},
               mgroups |-> IF z > 13 THEN {PrintMetaGroup(m, simple) : m \in GetMetaGroups(view)} ELSE {}]
  /\ UNCHANGED <<vars, phase, groupPoly, metaPoly, arrow, grids, heat>>

\* The level of a zoom.  A negative one is no value of size_t: the conversion
\* is undefined, and yields 0 or a large number.
ZoomLevels(z) == IF z < 0 THEN {0, 9} ELSE {9 - Min({9, z})}

\* getHeatGridOk, getHeatGridSugg, getHeatGridErr.
GetHeatGrid(kind, level, view) ==
  {c \in Found(heat[level][kind], Spots!Span(view)) : PointInBox(c.pos, view)}

\* handleHeatMapReq.
HeatRequest(view, z) ==
  /\ phase = "ready" /\ request = NotYet
  /\ request' = <<"heatmap", view, z>>
  /\ \E level \in ZoomLevels(z) : reply' = [kind \in 0..2 |-> GetHeatGrid(kind, level, view)]
  /\ UNCHANGED <<vars, phase, groupPoly, metaPoly, arrow, grids, heat>>

\* handleSearch: a hit is printed as its station if there is just one.
HitRequest(g) ==
  /\ phase = "ready" /\ request = NotYet
  /\ request' = <<"search", g>>
  /\ reply' = IF Len(hull[g]) = 1 THEN PrintStation(hull[g][1], TRUE) ELSE PrintGroup(g, TRUE, TRUE)
  /\ UNCHANGED <<vars, phase, groupPoly, metaPoly, arrow, grids, heat>>

MapNext ==
  \/ InitGroupPolys \/ InitMetaGroups \/ InitRest \/ InitArrows \/ InitIndex
  \/ \E view \in Views, z \in Zooms : MapRequest(view, z) \/ HeatRequest(view, z)
  \/ \E g \in Groups : HitRequest(g)

-----------------------------------------------------------------------------
(* Properties. *)

\* Points strictly inside of a box, and points that lie in a cell.
Inner(p, b) == \A d \in 1..2 : b.ll[d] < p[d] /\ p[d] < b.ur[d]
InGrid(p) == \A d \in 1..2 : Polygons!CellOf(p[d], d) < Polygons!Width(d)
Seen(s, view) == \E p \in ToSet(Pos(s)) : Inner(p, view) /\ InGrid(p)

Shown(printed) == {x.i : x \in printed}

\* A station with a point in the view is shown, only what meets the view is,
\* marked by what heat maps count it among, and errors are drawn over the rest.
StationsShown(view) ==
  LET kind(x) == IF x.e > 0 THEN 2 ELSE IF x.s THEN 1 ELSE 0
  IN /\ \A s \in Stations : Seen(s, view) => s \in Shown(ToSet(reply.stats))
     /\ \A x \in ToSet(reply.stats) : ShareBox(Pos(x.i), view) /\ kind(x) = ErrClass(x.i)
     /\ \A k, l \in DOMAIN reply.stats : k < l => kind(reply.stats[k]) <= kind(reply.stats[l])

\* So are a group and a meta group with such a station; one without stations
\* has the equator for a hull.
GroupsShown(view) ==
  LET alone(g) == Len(hull[g]) = 1 /\ Osmid(g) < 2
      seen(g) == \E s \in ToSet(hull[g]) : Seen(s, view)
  IN /\ \A g \in Groups : seen(g) => alone(g) \/ g \in Shown(reply.groups)
     /\ \A g \in Shown(reply.groups) : hull[g] # <<>> => ShareBox(groupPoly[g], view)
     /\ \A g \in Groups : Meta(g) # 0 /\ seen(g) => Meta(g) \in Shown(reply.mgroups)

\* An arrow with a point in the view is shown.
ArrowsShown(view) ==
  /\ \A k \in DOMAIN suggs : (\E p \in ToSet(arrow[k]) : Inner(p, view) /\ InGrid(p)) => k \in reply.su
  /\ \A k \in reply.su : suggs[k].arrow /\ ShareBox(There(arrow[k]), view)

MapShown ==
  request # NotYet /\ request[1] = "map" =>
    /\ StationsShown(request[2])
    /\ IF request[3] > 13 THEN GroupsShown(request[2]) ELSE reply.groups = {} /\ reply.mgroups = {}
    /\ IF request[3] > 15 THEN ArrowsShown(request[2]) ELSE reply.su = {}

InSpots(p) == \A d \in 1..2 : Spots!CellOf(p[d], d) < Spots!Width(d)
\* A hit of the search has the marks of all stations it stands for.
HitMarked ==
  request # NotYet /\ request[1] = "search" =>
    \A s \in ToSet(hull[request[2]]) : /\ file.stations[s].errs # <<>> => reply.e > 0
                                      /\ ofStation[s] # <<>> => reply.s

AllClusters(level, kind) == UNION Range(heat[level][kind])
InRaster(p, level) ==
  \A d \in 1..2 : p[d] - Bbox.ll[d] < Step(level) * ((Polygons!Width(d) * GSize - 1) \div Step(level))

\* At every level each point of a station is counted among its kind, once, or
\* in the two or four boxes it is on the border of; in the last row and column
\* of the raster it is not, nor alone on the upper border of the grid.
HeatCounted ==
  phase = "ready" /\ request = NotYet =>
    \A level \in Levels, kind \in 0..2 :
      LET cs == AllClusters(level, kind)
          ps == UNION {{s} \X DOMAIN Pos(s) : s \in {x \in Stations : ErrClass(x) = kind}}
          at(q) == Pos(q[1])[q[2]]
      IN /\ \A q \in ps : InRaster(at(q), level) /\ InSpots(at(q)) =>
              LET boxes == {c.box : c \in {x \in cs : PointInBox(at(q), x.box)}}
              IN boxes # {} /\ (Cardinality(boxes) = 1 \/ \A b \in boxes : ~Inner(at(q), b))
         /\ \A c \in cs : /\ PointInBox(c.pos, c.box)
                           /\ c.size = Cardinality({q \in ps : PointInBox(at(q), c.box)})

\* A heat map has just the clusters of one level within the view.
HeatShown ==
  request # NotYet /\ request[1] = "heatmap" =>
    \E level \in Levels : \A kind \in 0..2 :
      /\ request[3] >= 0 => level = IF request[3] > 9 THEN 0 ELSE 9 - request[3]
      /\ reply[kind] = {c \in AllClusters(level, kind) : PointInBox(c.pos, request[2])}

\* What a map or a heat map of any view and zoom shows is what lies there
\* (StatIdx::initIndex, getStations, getGroups, getSuggestions, getHeatGridOk).
MapInv == MapShown /\ HeatCounted /\ HeatShown /\ HitMarked
=============================================================================
