SPECIFICATION Spec
CONSTANTS
  Bytes <- AllBytes
  Paths <- AsciiPathsOrEmpty
  Continuation = {}
  Queries <- AsciiQueries
  MaxLocations = 2
CHECK_DEADLOCK FALSE
INVARIANTS LongestPrefixWins
