SPECIFICATION FairSpec
CONSTANTS
  Configs <- TriedConfigs
  Clients = {c1, c2, s}
  Silent = {s}
  FdLimit = 2
  MaxRenewal = 2
INVARIANTS TypeOK ServesMatchingPair FailureExplained
PROPERTIES ServesAtLast EveryoneServed
