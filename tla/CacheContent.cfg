\* Two apps with one depot: an update, a fault and a crash among a DELETE and a GC job.
SPECIFICATION Spec
CONSTANTS
  App = {a1, a2}
  Depot = {s}
  NoApp = NoApp
  NoDepot = NoDepot
  Owns <- MCOwns
  Home <- MCHome
  Swept = {a2}
  Request = {r1}
  MaxDeletes = 1
  MaxGc = 1
  MaxFaults = 1
  MaxUpdates = 1
  MaxCrashes = 1
  MaxTrouble = 2
  a1 = a1
  a2 = a2
  d1 = d1
  s = s
INVARIANTS
  TypeOK
  LossIsFlagged
CHECK_DEADLOCK FALSE
