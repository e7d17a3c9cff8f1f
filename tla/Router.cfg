SPECIFICATION Spec
CONSTANTS
  Bytes <- AllBytes
  Paths <- AllPaths
  Continuation <- Utf8Continuation
  Queries <- AllQueries
  MaxLocations = 3
CHECK_DEADLOCK FALSE
INVARIANTS TypeOK SearchIsLongestMatch RadixShape PanicPredicted
PROPERTIES ImplementsRouteTable
