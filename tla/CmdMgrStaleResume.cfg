SPECIFICATION Spec
CONSTANTS
  u1 = u1
  u2 = u2
  f1 = f1
  f2 = f2
  s1 = s1
  UserCmd = {u1, u2}
  RfCmd = {f1, f2}
  SetupCmd = {s1}
  None = None
  r1 = r1
  ReqId = {r1}
  MaxQueueSz = 4
  UserKinds <- CfmKinds
  Killable = FALSE
  FwMayStall = FALSE
SYMMETRY Symmetry
PROPERTIES
  MailboxNeverOverwritten
