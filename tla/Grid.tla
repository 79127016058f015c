-------------------------------- MODULE Grid --------------------------------
(***************************************************************************)
(* The grid index (util/geo/Grid.tpp): values with a geometry each are put *)
(* into all cells the geometry touches, and found by the cells a box       *)
(* touches.  With a value index, a value is removed from its cells; without*)
(* one, it is remembered as removed.                                       *)
(*                                                                         *)
(* A geometry is the sequence of its points; Meets tells whether one meets *)
(* a box.                                                                  *)
(***************************************************************************)
EXTENDS Geo

CONSTANTS GridVals, Geoms,
          Areas,         \* [ll, ur]: bounding boxes a grid is made for
          Cell,          \* width and height of a cell
          Boxes,         \* [ll, ur]: boxes asked for
          Dists,         \* distances asked for
          Floats,        \* the offsets from the lower left a float can hold
          Meets(_, _)    \* intersects, of a geometry and a box

\* _xWidth, _yHeight, and the box of a cell, of a grid of that area.
WidthOf(a, d) ==
  IF \E k \in 1..2 : a.ur[k] < a.ll[k] THEN 0
  ELSE (a.ur[d] - a.ll[d] + Cell[d] - 1) \div Cell[d]
BoxOf(a, c) ==
  [ll |-> [d \in 1..2 |-> a.ll[d] + c[d] * Cell[d]],
   ur |-> [d \in 1..2 |-> a.ll[d] + (c[d] + 1) * Cell[d]]]

\* Coordinates are integers, in a unit as fine as a double's; the coarser floats
\* are some of them.
ASSUME GridAssumption ==
  /\ \A g \in Geoms : g # <<>> /\ g \in Seq(Int \X Int)
  /\ \A d \in 1..2 : Cell[d] \in Nat \ {0}
  /\ \A a \in Areas \cup Boxes : \A d \in 1..2 : a.ll[d] \in Int /\ a.ur[d] \in Int
  /\ Dists \subseteq Nat
  /\ Floats \subseteq Nat /\ Floats # {}

\* A geometry meets the boxes of the cells its points lie in.
ASSUME MeetsAssumption ==
  \A g \in Geoms, a \in Areas :
    \A c \in (0..WidthOf(a, 1) - 1) \X (0..WidthOf(a, 2) - 1) :
      (\E p \in ToSet(g) : PointInBox(p, BoxOf(a, c))) => Meets(g, BoxOf(a, c))

VARIABLES area,          \* _bb
          hasValIdx,     \* _hasValIdx
          grid,          \* _grid: cell -> values
          cellsOf,       \* _index: value -> cells
          removed,       \* _removed
          held           \* history: <<value, geometry>>, added and not removed since

gridVars == <<area, hasValIdx, grid, cellsOf, removed, held>>

Width(d) == WidthOf(area, d)

Cells == (0..Width(1) - 1) \X (0..Width(2) - 1)

\* The float an offset n is narrowed to: one of those nearest to it.
Gap(f, n) == IF f < n THEN n - f ELSE f - n
Narrow(n) ==
  IF n \in Floats THEN n
  ELSE CHOOSE f \in Floats : \A e \in Floats : Gap(f, n) <= Gap(e, n)

\* getCellXFromX, getCellYFromY: dist is a float.
CellOf(x, d) ==
  IF x < area.ll[d] THEN 0 ELSE Narrow(x - area.ll[d]) \div Cell[d]

\* Mutant: the last row and column are not looked at.
SpanShort(b) ==
  {c \in Cells : \A d \in 1..2 : CellOf(b.ll[d], d) <= c[d]
                   /\ (c[d] < CellOf(b.ur[d], d) \/ CellOf(b.ll[d], d) = c[d])}

\* The cells the loops from swX, swY to neX, neY visit.
Span(b) ==
  {c \in Cells : \A d \in 1..2 : CellOf(b.ll[d], d) <= c[d] /\ c[d] <= CellOf(b.ur[d], d)}

GetBox(c) == BoxOf(area, c)

Touched(g) ==
  {c \in Span(GetBoundingBox(ToSet(g))) : Meets(g, GetBox(c))}

-----------------------------------------------------------------------------
GridInit ==
  /\ area \in Areas /\ hasValIdx \in BOOLEAN
  /\ grid = [c \in Cells |-> {}] /\ cellsOf = [v \in GridVals |-> {}]
  /\ removed = {} /\ held = {}

\* add: into every touched cell, and the cells into the value index.
Add(g, v) ==
  /\ grid' = [c \in Cells |-> grid[c] \cup IF c \in Touched(g) THEN {v} ELSE {}]
  /\ cellsOf' = IF hasValIdx THEN [cellsOf EXCEPT ![v] = @ \cup Touched(g)] ELSE cellsOf
  /\ held' = held \cup {<<v, g>>}
  /\ UNCHANGED <<area, hasValIdx, removed>>

\* remove: from the cells of the value index, or by remembering it.
RemoveVal(v) ==
  /\ grid' = [c \in Cells |-> IF c \in cellsOf[v] THEN grid[c] \ {v} ELSE grid[c]]
  /\ cellsOf' = [cellsOf EXCEPT ![v] = {}]
  /\ removed' = IF hasValIdx THEN removed ELSE removed \cup {v}
  /\ held' = {h \in held : h[1] # v}
  /\ UNCHANGED <<area, hasValIdx>>

GridNext == \E v \in GridVals : RemoveVal(v) \/ \E g \in Geoms : Add(g, v)

GridSpec == GridInit /\ [][GridNext]_gridVars

-----------------------------------------------------------------------------
\* get of a cell, of a box, and of a box about a geometry.
GetCell(c) == IF hasValIdx THEN grid[c] ELSE grid[c] \ removed
Get(b) == UNION {GetCell(c) : c \in Span(b)}
GetAbout(g, dist) ==
  LET a == GetBoundingBox(ToSet(g))
  IN Get([ll |-> [d \in 1..2 |-> a.ll[d] - dist], ur |-> [d \in 1..2 |-> a.ur[d] + dist]])

\* xPerm, yPerm: the cells to either side a distance may reach.
Perm(dist, d) == (dist + Cell[d] - 1) \div Cell[d]

\* getNeighbors and getCellNeighbors.
GetCellNeighbors(c, perm) ==
  UNION {grid[n] : n \in {x \in Cells : \A d \in 1..2 : c[d] - perm[d] <= x[d] /\ x[d] <= c[d] + perm[d]}}
GetNeighbors(v, dist) ==
  UNION {GetCellNeighbors(c, <<Perm(dist, 1), Perm(dist, 2)>>) : c \in cellsOf[v]}

-----------------------------------------------------------------------------
GridTypeOK ==
  /\ area \in Areas /\ hasValIdx \in BOOLEAN
  /\ DOMAIN grid = Cells /\ \A c \in Cells : grid[c] \subseteq GridVals
  /\ \A v \in GridVals : cellsOf[v] \subseteq Cells
  /\ removed \subseteq GridVals /\ (hasValIdx => removed = {})

\* The value index, by which values are removed, has just the cells that hold
\* the value, after any adds and removes (Grid::add, Grid::remove).
IndexExact ==
  hasValIdx => \A v \in GridVals : cellsOf[v] = {c \in Cells : v \in grid[c]}

\* A point in a cell of the grid that narrowing its offset leaves in that cell.
Covered(p) ==
  \A d \in 1..2 :
    /\ area.ll[d] <= p[d]
    /\ CellOf(p[d], d) = (p[d] - area.ll[d]) \div Cell[d]
    /\ CellOf(p[d], d) < Width(d)

\* A box yields every value with a point in it, and so does the box about a
\* geometry, whatever narrowing does to the box; points on the upper border of
\* the last cells belong to no cell, points just below a border may be looked
\* for in the next one (see InnerKept), and without a value index a value that
\* was removed once never comes back.
BoxComplete ==
  \A h \in held : hasValIdx \/ h[1] \notin removed =>
    \A p \in {x \in ToSet(h[2]) : Covered(x)} :
      /\ \A b \in Boxes : PointInBox(p, b) => h[1] \in Get(b)
      /\ \A g \in Geoms, t \in Dists :
           (\E x \in ToSet(g) : \A d \in 1..2 : p[d] - x[d] \in -t..t) => h[1] \in GetAbout(g, t)

\* It yields nothing that has been removed or lies in no cell it reaches.
BoxClose ==
  \A b \in Boxes : \A v \in Get(b) :
    \E h \in held : h[1] = v /\ Touched(h[2]) \cap Span(b) # {}

\* What lies within a distance of a value is among its neighbours.
NeighborsComplete ==
  hasValIdx => \A h, o \in held, t \in Dists :
    (\E p \in ToSet(h[2]), q \in ToSet(o[2]) : Covered(p) /\ Covered(q) /\ \A d \in 1..2 : p[d] - q[d] \in -t..t)
      => o[1] \in GetNeighbors(h[1], t)

\* The grid "covers the area of bounding box bbox": a value added with a point
\* inside the area, below its upper and right border, is in some cell.
InnerKept ==
  \A h \in held :
    (\E p \in ToSet(h[2]) : \A d \in 1..2 : area.ll[d] <= p[d] /\ p[d] < area.ur[d])
      => \E c \in Cells : h[1] \in grid[c]

\* A grid after any sequence of adds and removes: its index is exact and its
\* queries are complete (Grid::add, remove, get, getNeighbors).
GridInv == GridTypeOK /\ IndexExact /\ BoxComplete /\ BoxClose /\ NeighborsComplete
=============================================================================
