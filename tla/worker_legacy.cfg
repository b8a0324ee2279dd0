SPECIFICATION FairSpec
CONSTANTS
  c1 = c1
  c2 = c2
  l1 = l1
  l2 = l2
  Clients = {c1, c2}
  LBs = {}
  NoFd = NoFd
  NoLB = NoLB
  CtrlMode = FALSE
  MAX_CONNS = 2
  MAX_EVENTS = 2
  BUF_SIZE = 2
  MAX_PREFIX = 2
  ReqParts <- TwoParts
  RespParts = 2
  SendCap = 1
  MaxReq = 2
  BadReqs <- FirstOfC2Bad
  Pipelining = FALSE
  Leaving = {"fin", "rst"}
  AddMayFail = TRUE
INVARIANTS
  TypeOK
  PoolIntegrity
  OneOwner
  NoLostWakeup
  ResponsesIntact
PROPERTIES
  ImplementsService
CHECK_DEADLOCK FALSE
