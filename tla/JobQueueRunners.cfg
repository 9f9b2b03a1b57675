\* Queue mode: two runner processes, two jobs, a pause, a resume and a restart.
SPECIFICATION Spec
CONSTANTS
  App = {a1}
  Runner = {r1, r2}
  NoRunner = NoRunner
  QueueMode = TRUE
  AutoGC = "dry-run"
  Deletes = FALSE
  MaxJobs = 2
  MaxAttempts = 2
  MaxRestarts = 1
  MaxFaults = 0
INVARIANTS
  RunnerExclusion
  ResultOfThisAttempt
  PausedIsQuiet
  WorkerOwnsItsJob
PROPERTIES ImplementsLifecycle
SYMMETRY RunnerSymmetry
CHECK_DEADLOCK FALSE
