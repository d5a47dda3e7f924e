CONSTANTS
  w1 = w1
  w2 = w2
  Worker = {w1, w2}
  NoWorker = NoWorker
  RoleName <- Codex
  NoRole = NoRole
  canonical_role <- CodexIsCodex
  RoleLists <- CodexLists
  Sweeper = {sweeper_loop}
  MaxWorkerValues = {2}
  MAX_TASKS = 2
  MAX_QUEUED_TASKS = 2
  MaxId = 3
SYMMETRY Symmetry
SPECIFICATION Spec
INVARIANTS
  BacklogIsPending
  RunningIsOwned
  NoBusyLeak
  DispatchSpeaksForOwner
PROPERTIES
  NoResurrection
  LiveNeverEvicted
  ImplementsTaskBoard
