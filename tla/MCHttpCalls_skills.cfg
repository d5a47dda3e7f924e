CONSTANTS
  c1 = c1
  c2 = c2
  other = other
  Call = {c1, c2}
  Key = {c1, c2, other}
  Stranger = other
  Jti <- Tokens
  question <- OursAndTheirs
  MAX_TRACKED_TASKS = 2
  capacity = 1
  MaxTask = 3
  MaxRestarts = 1
  MAX_ATTEMPTS = 2
  MAXSIZE = 1
  MaxTokens <- TokensOf
  HubWorker = {w}
  NoHubWorker = NoHubWorker
  MaxHubTask = 2
SPECIFICATION FairSpec
CHECK_DEADLOCK FALSE
INVARIANTS
  RunsOnce
  AnswerIsOwn
  NeverRefused
PROPERTIES
  CallEnds
