\* Every way of cutting every request into read calls.
SPECIFICATION Spec
CONSTANTS
  BSIZE <- MCBSIZE
  Bytes <- MCBytes
  Number <- MCNumber
  Requests <- MCRequests
INVARIANTS
  ParserInv
  CutInv
  RefusedBySize
PROPERTIES
  Answered
CHECK_DEADLOCK FALSE
