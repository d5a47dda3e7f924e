CONSTANTS
  w1 = w1
  w2 = w2
  k1 = k1
  k2 = k2
  Worker = {w1}
  NoWorker = NoWorker
  RoleName <- Codex
  NoRole = NoRole
  canonical_role <- CodexIsCodex
  RoleLists <- CodexLists
  MaxWorkerValues = {1}
  Sweeper = {pruner}
  Pruner = pruner
  Conn = {k1, k2}
  NoConn = NoConn
  MAX_TASKS = 2
  MAX_QUEUED_TASKS = 0
  MaxId = 2
SYMMETRY Symmetry
SPECIFICATION ClusterSpec
CHECK_DEADLOCK FALSE
INVARIANTS
  NeverStuckBusy
  CancelReachesAll
  RunningHasCarrier
PROPERTIES
  ExecutedOnce
  OldSocketEndsQuietly
