\* All assignments of three stations, and merges together with names, meta
\* groups and attribute errors; four contents of the search index; maps
\* of three stations.
SPECIFICATION IndexSpec
CONSTANTS
  Files <- MCFiles
  Contents <- MCContents
  Typed <- MCTyped
  TopTokens = 100
  TopResults = 2
  Far = 1000
  Rim <- MCRim
  Arrows <- MCArrows
  Views <- MCViews
  Zooms <- MCZooms
INVARIANTS
  MergeInv
  MovesCovered
  ListedByOwner
  IndexInv
  FindInv
  MapInv
CHECK_DEADLOCK FALSE
