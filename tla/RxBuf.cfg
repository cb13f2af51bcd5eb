SPECIFICATION LiveSpec
CONSTANTS
  Memory = 4
  N = 2
  Size = 3
  D = 2
  MaxRx = 0
  MaxReord = 1
  MonitorVif = FALSE
INVARIANTS BuffersAreTracked SupplyKept NeverStalls
PROPERTIES NeverStarves
