SPECIFICATION FairSpec
CONSTANTS
  u1 = u1
  p1 = p1
  s1 = s1
  UserCmd = {u1}
  RfCmd = {p1}
  SetupCmd = {s1}
  None = None
  r1 = r1
  ReqId = {r1}
  MaxQueueSz = 2
  UserKinds <- CfmOnly
  Killable = FALSE
  FwMayStall = TRUE
INVARIANTS
  TypeOK
  QueueSzCountsList
  ReturnReadsLive
PROPERTIES
  EveryCallReturns
  EveryCommandServed
