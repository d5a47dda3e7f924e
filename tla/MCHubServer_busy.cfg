CONSTANTS
  w1 = w1
  w2 = w2
  k1 = k1
  k2 = k2
  k3 = k3
  Worker = {w1, w2}
  NoWorker = NoWorker
  RoleName <- Codex
  NoRole = NoRole
  canonical_role <- CodexIsCodex
  RoleLists <- CodexLists
  MaxWorkerValues = {1}
  Sweeper = {pruner}
  Pruner = pruner
  Conn = {k1, k2, k3}
  NoConn = NoConn
  MAX_TASKS = 2
  MAX_QUEUED_TASKS = 1
  MaxId = 2
SPECIFICATION ServerSpec
PROPERTIES
  AssignedIsBusy
