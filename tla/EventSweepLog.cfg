\* The file: partial lines, junk longer than a batch, truncation, a rotation
\* by the operator, a crash.  Nothing triggers.
SPECIFICATION FairSpec
CONSTANTS
  App = {}
  Other = Other
  Junk = Junk
  MaxBatch = 2
  RotateAt = 2
  MaxPerSweep = 1
  MaxLines = 3
  MaxJunk = 3
  MaxCrashes = 1
  MaxRotations = 1
  MaxExpiries = 0
INVARIANTS
  TypeOK
  CountedOnce
  NothingLost
PROPERTIES
  OnlyUnreadGoes
  LinesArePassed
CHECK_DEADLOCK FALSE
