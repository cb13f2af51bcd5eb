SPECIFICATION Spec
CONSTANTS
  Txq = {q1, q2}
  Skb = {f1, f2, f3}
  Mgmt = {}
  Ping = {}
  PsIds = {"LEGACY_PS_ID"}
  Size = 4
  Tokens = 2
  InitialCredits = 2
  MaxCredits = 2
  CfmCredits = {1}
  MaxInit = 0
  FlowStop = 9
  FlowRestart = 1
  PsDrop = 9
  Reasons = {"CHAN"}
  PsStates = {}
  Decs = {0}
  Stuck = TRUE
  None = None
SYMMETRY Symmetry
INVARIANTS TokensMatchFlight NeverStalls FramesAreKept
PROPERTIES StoppedVifIsSilent
CHECK_DEADLOCK FALSE
