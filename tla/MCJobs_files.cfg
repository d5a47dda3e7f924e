CONSTANTS
  j1 = j1
  j2 = j2
  shared = shared
  Job = {j1}
  NoJob = NoJob
  Dir <- Dirs
  File <- Files
  files_of <- Several
  file_is_test <- TestFiles
  file_is_python <- PythonFiles
  Semaphore = 2
  max_retries = 2
  max_debate_rounds = 0
  FORMAT_RETRIES = 1
  Own <- OwnDir
  Explicit = {}
  MAX_FINISHED_JOBS = 0
SPECIFICATION FairSpec
CHECK_DEADLOCK FALSE
INVARIANTS
  VerifiedAsWritten
  SuccessIsVerified
PROPERTIES
  JobEnds
