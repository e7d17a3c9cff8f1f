SPECIFICATION FairSpec
CONSTANTS
  Requests <- AllRequests
  BufferSize = 2
  ReadSize = 2
  MaxSize = 3
  MaxChanges = 2
  Faults = {"reset", "receive", "denied", "read", "short", "write", "shutdown"}
  Tls = TRUE
CHECK_DEADLOCK FALSE
INVARIANTS TypeOK SilenceExplained RefusalJustified WholeUnlessDisturbed BodyInOrder SecondHeadOnlyAfterFailure
PROPERTIES Ends ImplementsExchange
