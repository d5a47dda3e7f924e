CONSTANTS
  w1 = w1
  w2 = w2
  Worker = {w1}
  NoWorker = NoWorker
  RoleName <- Names
  NoRole = NoRole
  canonical_role <- Aliases
  RoleLists <- MixedLists
  Sweeper = {sweeper_loop, pruner}
  MaxWorkerValues = {1, 2}
  MAX_TASKS = 2
  MAX_QUEUED_TASKS = 2
  MaxId = 2
SPECIFICATION FairSpec
PROPERTIES
  FifoPerRole
  WorkConserving
  RunningEnds
