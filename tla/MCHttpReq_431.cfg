\* A small header with a payload that fills the buffer.
SPECIFICATION Spec
CONSTANTS
  BSIZE <- MCBSIZE
  Bytes <- MCBytes
  Number <- MCNumber
  Requests <- MCRequests
INVARIANTS
  OnlyLargeHeadersRefused
CHECK_DEADLOCK FALSE
