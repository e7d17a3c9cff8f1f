SPECIFICATION Spec
CONSTANTS
  r1 = r1
  r2 = r2
  d1 = d1
  d2 = d2
  Requests = {r1, r2}
  Dirs = {d1, d2}
  Names = {a, h}
  Hidden = {h}
  Views = {v1}
  Capacity = 1
  Ticks = {1}
  MaxClock = 2
SYMMETRY Symmetry
INVARIANTS TypeOK CacheFresh PageInWindow
