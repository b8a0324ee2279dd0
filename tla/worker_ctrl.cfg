SPECIFICATION FairSpec
CONSTANTS
  c1 = c1
  c2 = c2
  l1 = l1
  l2 = l2
  Clients = {c1, c2}
  LBs = {l1, l2}
  NoFd = NoFd
  NoLB = NoLB
  CtrlMode = TRUE
  MAX_CONNS = 1
  MAX_EVENTS = 4
  BUF_SIZE = 2
  MAX_PREFIX = 1
  ReqParts <- SecondTooLarge
  RespParts = 1
  SendCap = 1
  MaxReq = 1
  BadReqs <- NoBadReqs
  Pipelining = FALSE
  Leaving = {"rst"}
  AddMayFail = FALSE
PROPERTIES
  EveryRequestAnswered
  EveryClientTakenUp
  ClosedForCause
INVARIANTS
  BatchFresh
  NoStrandedDescriptor
CHECK_DEADLOCK FALSE
