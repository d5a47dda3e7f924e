CONSTANTS
  r1 = r1
  r2 = r2
  Request = {r1, r2}
  Role <- Roles
  chain <- Chains
  must_login = TRUE
  runs_of <- RunsOf
  max_retries = 2
  rounds = 2
SPECIFICATION FairSpec
CHECK_DEADLOCK FALSE
INVARIANTS
  NothingLeftBehind
  EveryBackendTried
  LoginOnce
  PassIsOfTheTree
PROPERTIES
  AgentEnds
