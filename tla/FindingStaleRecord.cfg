\* Two prefills of an app, each leaving its .bin; nothing else happens.
SPECIFICATION Spec
CONSTANTS
  a1 = a1
  a2 = a2
  d1 = d1
  c1 = c1
  c2 = c2
  c3 = c3
  App = {a1, a2}
  Depot = {d1}
  Chunk = {c1, c2, c3}
  Manifest = {1, 2}
  UnreadableApp = UnreadableApp
  NoApp = NoApp
  NoManifest = NoManifest
  Unusable = Unusable
  ChunksOf <- MCChunksOf
  Published <- MCPublished
  Owns <- MCOwns
  Home <- MCHome
  MaxExtras = 1
  KeepArchived = 1
  GraceWindow = TRUE
  OracleEnabled = TRUE
  MaxUpdates = 1
  MaxClient = 0
  MaxMapping = 0
  MaxOracle = 0
  MaxClears = 0
  MaxOutside = 2
  MaxFaults = 1
  MaxGc = 0
  MaxCrashes = 0
INVARIANTS
  RecordIsDownloaded
CHECK_DEADLOCK FALSE
