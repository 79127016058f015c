\* Graphs of three nodes, heaps of three keys, grids of two values, trees of
\* four points, texts of nine tokens, points on a lattice of three by three, and
\* searches on graphs of four nodes.
SPECIFICATION MCSpec
CONSTANTS
  Inf = 7
  Queries <- NodeQueries
  EdgeQueries <- AllEdgeQueries
  BiQueries <- BothWays
  NodeAddrs = {n1, n2, n3}
  EdgeAddrs = {e1, e2, e3, e4}
  Bits = 3
  HeapVals = {a, b}
  HeapBound = 3
  GridVals = {v, w}
  Geoms <- MCGeoms
  Areas <- MCAreas
  Cell <- MCCell
  Boxes <- MCBoxes
  Dists = {0, 2, 6}
  Floats <- MCFloats
  Meets <- MCMeets
  Points <- MCPoints
  Side = 8
  MaxDepth = 2
  Capacities = {1, 2}
  MaxVals = 4
  Vals <- MCVals
  Nesting = 3
  MaxTokens = 9
  Spelling <- MCSpelling
  Texts <- MCTexts
  MaxXmlTokens = 9
  Far = 100
  Segments <- MCSegments
  Rings <- MCRings
  GeoPoints <- Lattice
  GeoBoxes <- MCGeoBoxes
  Clouds <- MCClouds
  Lines <- MCLines
  Tolerances = {0, 1}
INVARIANTS
  SearchInv
  EdgeInv
  EdgeAnswers
  BiInv
  GraphInv
  ComponentsAreClasses
  GridInv
  TreeInv
  JsonInv
  XmlInv
  GeoExact
PROPERTIES
  MergeMoves
  HeapIsQueue
  CallsReturn
CHECK_DEADLOCK FALSE
