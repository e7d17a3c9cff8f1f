SPECIFICATION FairSpec
CONSTANTS
  r1 = r1
  r2 = r2
  Requests = {r1, r2}
  Dirs = {d1}
  Names = {a, h}
  Hidden = {h}
  Views = {v1}
  Capacity = 0
  Ticks = {1}
  MaxClock = 2
PROPERTIES EveryRequestAnswered ImplementsDirectoryListing
