SPECIFICATION Spec
CONSTANTS
  Requests <- FileRequests
  BufferSize = 1
  ReadSize = 2
  MaxSize = 3
  MaxChanges = 0
  Faults = {"short"}
  Tls = FALSE
CHECK_DEADLOCK FALSE
INVARIANTS BodyMatchesContentLength
