SPECIFICATION Spec
CONSTANTS
  Requests <- ReadingRequests
  BufferSize = 2
  ReadSize = 1
  MaxSize = 1
  MaxChanges = 0
  Faults = {}
  Tls = FALSE
CHECK_DEADLOCK FALSE
INVARIANTS ClosedByPeerIsTrue
