\* Splits of a leaf lose values.
SPECIFICATION MCSpec
CONSTANTS
  Inf = 7
  Queries <- NodeQueries
  EdgeQueries <- AllEdgeQueries
  BiQueries <- BothWays
  NodeAddrs = {n1, n2, n3}
  EdgeAddrs = {e1, e2, e3, e4}
  Bits = 3
  HeapVals = {a, b}
  HeapBound = 3
  GridVals = {v, w}
  Geoms <- MCGeoms
  Areas <- MCAreas
  Cell <- MCCell
  Boxes <- MCBoxes
  Dists = {0, 2, 6}
  Floats <- MCFloats
  Meets <- MCMeets
  Points <- MCPoints
  Side = 8
  MaxDepth = 2
  Capacities = {1, 2}
  MaxVals = 4
  Vals <- MCVals
  MaxTokens = 9
  Nesting = 3
  Spelling <- MCSpelling
  Texts <- MCTexts
  MaxXmlTokens = 9
  Far = 100
  Segments <- MCSegments
  Rings <- MCRings
  GeoPoints <- Lattice
  GeoBoxes <- MCGeoBoxes
  Clouds <- MCClouds
  Lines <- MCLines
  Tolerances = {0, 1}
INVARIANT AllKept
CHECK_DEADLOCK FALSE
