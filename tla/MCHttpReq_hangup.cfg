\* A POST whose client hangs up before the end of its header.
SPECIFICATION Spec
CONSTANTS
  BSIZE <- MCBSIZE
  Bytes <- MCBytes
  Number <- MCNumber
  Requests <- MCRequests
INVARIANTS
  KeepsRunning
CHECK_DEADLOCK FALSE
