CONSTANTS
  j1 = j1
  j2 = j2
  shared = shared
  Job = {j1}
  NoJob = NoJob
  Dir <- Dirs
  File <- Files
  files_of <- OneFile
  file_is_test <- TestFiles
  file_is_python <- PythonFiles
  Semaphore = 3
  max_retries = 1
  max_debate_rounds = 1
  FORMAT_RETRIES = 1
  Own <- OwnDir
  Explicit = {shared}
  MAX_FINISHED_JOBS = 0
SPECIFICATION Spec
CHECK_DEADLOCK FALSE
INVARIANTS
  CodersSeeTheDesign
