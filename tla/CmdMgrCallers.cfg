SPECIFICATION Spec
CONSTANTS
  u1 = u1
  u2 = u2
  f1 = f1
  f2 = f2
  UserCmd = {u1, u2}
  RfCmd = {f1, f2}
  SetupCmd = {}
  None = None
  r1 = r1
  ReqId = {r1}
  MaxQueueSz = 3
  UserKinds <- AllKinds
  Killable = TRUE
  FwMayStall = TRUE
SYMMETRY Symmetry
INVARIANTS
  NoOvertaking
  MailboxServesList
  ListedIsLive
  LeavesOnce
  SuccessIsConfirmed
PROPERTIES
  ImplementsChannel
