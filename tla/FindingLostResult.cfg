\* Queue mode: a result recorded while vault-api is down.
SPECIFICATION FairSpec
CONSTANTS
  App = {a1}
  Runner = {r1}
  NoRunner = NoRunner
  QueueMode = TRUE
  AutoGC = "off"
  Deletes = FALSE
  MaxJobs = 1
  MaxAttempts = 1
  MaxRestarts = 1
  MaxFaults = 0
PROPERTIES
  RunningEnds
CHECK_DEADLOCK FALSE
