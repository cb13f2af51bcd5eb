SPECIFICATION Spec
CONSTANTS
  Ap = {ap}
  Sta = sta
  Mon = {}
  Ctx = {c1, c2}
  Freq = {fr, fn}
  Radar = {}
  None = None
  QuietSta = TRUE
  HostWaits = TRUE
  QuickOff = FALSE
  CacRefused = TRUE
  MaxCsa = 1
  MaxCount = 2
SYMMETRY Symmetry
CHECK_DEADLOCK FALSE
INVARIANTS CountCovers NotLeftStopped StartedIsLinked
