CONSTANTS
  w1 = w1
  w2 = w2
  k1 = k1
  k2 = k2
  c1 = c1
  c2 = c2
  Worker = {w1, w2}
  NoWorker = NoWorker
  RoleName <- Codex
  NoRole = NoRole
  canonical_role <- CodexIsCodex
  RoleLists <- CodexLists
  MaxWorkerValues = {1}
  Sweeper = {pruner}
  Pruner = pruner
  Conn = {k1}
  NoConn = NoConn
  Call = {c1, c2}
  role_of <- AllCodex
  contains <- OnlyCodex
  NoTaskId = NoTaskId
  GENIUS_DISPATCH_RETRIES = 1
  MAX_TASKS = 1
  MAX_QUEUED_TASKS = 0
  MaxId = 2
SYMMETRY TwoCalls
SPECIFICATION CallsSpec
CHECK_DEADLOCK FALSE
PROPERTIES
  ImplementsTaskBoard
