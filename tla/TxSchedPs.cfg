SPECIFICATION Spec
CONSTANTS
  Txq = {q1}
  Skb = {f1, f2, f3}
  Mgmt = {f3}
  Ping = {f1}
  PsIds = {"LEGACY_PS_ID", "UAPSD_ID"}
  Size = 2
  Tokens = 2
  InitialCredits = 2
  MaxCredits = 2
  CfmCredits = {0, 1}
  MaxInit = 1
  FlowStop = 1
  FlowRestart = 1
  PsDrop = 1
  Reasons = {}
  PsStates = {"ON", "OFF"}
  Decs = {0}
  Stuck = FALSE
  None = None
SYMMETRY Symmetry
INVARIANTS ScheduledCanPush CountersFollowFrames FlowCtrlClears
PROPERTIES SleepersKeepTheirFrames
CHECK_DEADLOCK FALSE
