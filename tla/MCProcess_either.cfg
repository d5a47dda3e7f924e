CONSTANTS
  t1 = t1
  t2 = t2
  j1 = j1
  a1 = a1
  a2 = a2
  dyn = dyn
  Thread = {t1, t2}
  Jti = {j1}
  ArtifactId = {a1, a2}
  MAX_MEMORY = 1
  MaxWriter = 3
  MaxWrites = 3
  Agent = {"codex", "tester"}
  DynamicPort = {dyn}
  NoPort = NoPort
  Commands <- CommandLines
  RoutedRole = "tester"
SPECIFICATION FairSpec
CHECK_DEADLOCK FALSE
INVARIANTS
  TokenOnce
  PublishedIsFound
  RegistryIsTrue
PROPERTIES
  PipelineOnWorkingServers
  WritesEnd
  StartEnds
