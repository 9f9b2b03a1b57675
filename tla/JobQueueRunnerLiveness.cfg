\* Queue mode, a kill or shutdown, runners that die, stall or never come.
SPECIFICATION FairSpec
CONSTANTS
  App = {a1}
  Runner = {r1, r2}
  NoRunner = NoRunner
  QueueMode = TRUE
  AutoGC = "off"
  Deletes = FALSE
  MaxJobs = 1
  MaxAttempts = 2
  MaxRestarts = 1
  MaxFaults = 1
PROPERTIES
  EndsUnlessUncollected
CHECK_DEADLOCK FALSE
