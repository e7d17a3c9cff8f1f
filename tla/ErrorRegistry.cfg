SPECIFICATION FairSpec
CONSTANTS
  Statuses = {404, 500, 503}
  Files = {"a", "b"}
  Entries <- Configured
  Callers = {c1, c2}
  Capacity = 2
  MaxVersion = 1
INVARIANTS TypeOK PageLostOnlyByEviction
PROPERTIES ImplementsErrorPages AlwaysOpens EveryCallReturns
