\* Sessions on all sequences of up to three data sets, and four requests of a page.
SPECIFICATION SessionSpec
CONSTANTS
  Word = 20
  MaxFiles = 3
  MaxSize = 3
  DataSets <- MCDataSets
  Missing = Missing
  Objects <- MCObjects
  Contents <- MCContents
  Results <- MCResults
  Zooms = {10, 13, 16}
  MaxSent = 4
  MaxLost = 1
  None = None
  NoIndex = NoIndex
INVARIANTS
  SessionInv
  LinksLead
  LookupExact
  ArrowOpensOwner
  PopupInv
  DrawnIsView
  ListIsOfSearch
PROPERTIES
  ShownNewest
CHECK_DEADLOCK FALSE
