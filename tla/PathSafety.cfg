SPECIFICATION Spec
CONSTANTS
  Names = {"a", "b", "%2E"}
  Encoded = {"", ".", "..", "a", "%2F", "b%2F%2E%2E", "%252E", "%FF"}
  Decoding <- Decode
  MaxLen = 4
  Requests <- AllRequests
  Roots <- SomeRoots
  Indexes <- SomeIndexes
CHECK_DEADLOCK FALSE
INVARIANTS TypeOK StaysInBase SanitizeIsNormalForm DepthAgrees
