SPECIFICATION Spec
CONSTANTS
  c1 = c1
  c2 = c2
  c3 = c3
  Clients = {c1, c2}
  NoClient = NoClient
  Chunks <- AllChunks
  Request <- ReadyPrefixed
  NB = 2
  QCap = 1
  MAX_PREFIX = 2
  MinArrived = 0
  MayDie = TRUE
  ACCEPT_BATCH = 2
  AcceptMayFail = FALSE
INVARIANTS
  OnlyHealthChecksServed
CHECK_DEADLOCK FALSE
