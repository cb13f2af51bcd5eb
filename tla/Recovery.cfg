SPECIFICATION FairSpec
CONSTANTS
  Band = {"lb", "hb"}
  Seat <- LowThenHigh
  Full = {"lb"}
  QuickUnmask = TRUE
  MaxAgain = 0
  MaxRestart = 0
  MaxFaults = 1
CHECK_DEADLOCK FALSE
INVARIANTS FlagsHaveWork RfCalibratesAgreed
PROPERTIES RfListensAgain ScansEnd RestartsEnd
