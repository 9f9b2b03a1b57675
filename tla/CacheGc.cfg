\* Two apps share a depot: one collection, a crash, a fault, an update, the oracle,
\* an edit of the mapping and two things a client has stored around it.
SPECIFICATION Spec
CONSTANTS
  a1 = a1
  a2 = a2
  d1 = d1
  c1 = c1
  c2 = c2
  c3 = c3
  App = {a1, a2}
  Depot = {d1}
  Chunk = {c1, c2, c3}
  Manifest = {1, 2}
  UnreadableApp = UnreadableApp
  NoApp = NoApp
  NoManifest = NoManifest
  Unusable = Unusable
  ChunksOf <- MCChunksOf
  Published <- MCPublished
  Owns <- MCOwns
  Home <- MCHome
  MaxExtras = 1
  KeepArchived = 1
  GraceWindow = TRUE
  OracleEnabled = TRUE
  MaxUpdates = 1
  MaxClient = 2
  MaxMapping = 1
  MaxOracle = 1
  MaxClears = 1
  MaxOutside = 2
  MaxFaults = 1
  MaxGc = 1
  MaxCrashes = 1
INVARIANTS
  TypeOK
  WhatGcTookIsForced
PROPERTIES
  ClaimsSurviveGc
  RecordedSurvives
  GraceHolds
CHECK_DEADLOCK FALSE
