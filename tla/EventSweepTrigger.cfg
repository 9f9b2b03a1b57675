\* The misses: two apps, one trigger per sweep, a crash, jobs that come and go.
SPECIFICATION Spec
CONSTANTS
  App = {a1, a2}
  Other = Other
  Junk = Junk
  MaxBatch = 3
  RotateAt = 0
  MaxPerSweep = 1
  MaxLines = 3
  MaxJunk = 2
  MaxCrashes = 1
  MaxRotations = 0
  MaxExpiries = 1
INVARIANTS
  MissAnswered
SYMMETRY AppSymmetry
CHECK_DEADLOCK FALSE
