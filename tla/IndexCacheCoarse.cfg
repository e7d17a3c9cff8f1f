SPECIFICATION Spec
CONSTANTS
  r1 = r1
  Requests = {r1}
  Dirs = {d1}
  Names = {a, b}
  Hidden = {}
  Views = {v1}
  Capacity = 1
  Ticks = {0, 1}
  MaxClock = 1
INVARIANTS PageInWindow
