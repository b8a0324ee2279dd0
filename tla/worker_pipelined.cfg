SPECIFICATION Spec
CONSTANTS
  c1 = c1
  c2 = c2
  l1 = l1
  l2 = l2
  Clients = {c1}
  LBs = {}
  NoFd = NoFd
  NoLB = NoLB
  CtrlMode = FALSE
  MAX_CONNS = 1
  MAX_EVENTS = 4
  BUF_SIZE = 4
  MAX_PREFIX = 1
  ReqParts <- TwoParts
  RespParts = 2
  SendCap = 1
  MaxReq = 2
  BadReqs <- NoBadReqs
  Pipelining = TRUE
  Leaving = {}
  AddMayFail = FALSE
INVARIANTS
  ResponsesIntact
CHECK_DEADLOCK FALSE
