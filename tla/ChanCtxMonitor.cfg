SPECIFICATION Spec
CONSTANTS
  Ap = {a1}
  Sta = None
  Mon = {mon}
  Ctx = {c1, c2}
  Freq = {fr, fn}
  Radar = {fr}
  None = None
  QuietSta = TRUE
  HostWaits = TRUE
  QuickOff = TRUE
  CacRefused = FALSE
  MaxCsa = 0
  MaxCount = 2
SYMMETRY Symmetry
CHECK_DEADLOCK FALSE
INVARIANTS RadarIsWatched
