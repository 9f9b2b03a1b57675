\* Subprocess mode: the worker runs SteamPrefill itself; kills, shutdowns, exceptions.
SPECIFICATION FairSpec
CONSTANTS
  App = {a1, a2}
  Runner = {}
  NoRunner = NoRunner
  QueueMode = FALSE
  AutoGC = "execute"
  Deletes = TRUE
  MaxJobs = 2
  MaxAttempts = 2
  MaxRestarts = 1
  MaxFaults = 1
INVARIANTS
  TypeOK
  NoDuplicateActive
  BadgeHasRun
PROPERTIES
  RunningEnds QueuedStarts
CHECK_DEADLOCK FALSE
