SPECIFICATION LiveSpec
CONSTANTS
  Txq = {q1}
  Skb = {f1, f2, f3}
  Mgmt = {}
  Ping = {}
  PsIds = {"LEGACY_PS_ID"}
  Size = 2
  Tokens = 1
  InitialCredits = 2
  MaxCredits = 2
  CfmCredits = {1}
  MaxInit = 0
  FlowStop = 9
  FlowRestart = 1
  PsDrop = 9
  Reasons = {}
  PsStates = {}
  Decs = {0, 1}
  Stuck = TRUE
  None = None
INVARIANTS CreditsMatchRing
PROPERTIES QueueMoves
CHECK_DEADLOCK FALSE
