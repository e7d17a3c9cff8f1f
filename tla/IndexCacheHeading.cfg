SPECIFICATION Spec
CONSTANTS
  r1 = r1
  Requests = {r1}
  Dirs = {d1}
  Names = {a}
  Hidden = {}
  Views = {v1, v2}
  Capacity = 1
  Ticks = {1}
  MaxClock = 1
INVARIANTS OwnHeading
