\* Two clients and two apps; a day of four minutes; late ticks, one fault.
SPECIFICATION FairSpec
CONSTANTS
  MINUTES_PER_DAY = 4
  Client = {1, 2}
  App = {1, 2}
  Base <- MCBase
  Stored <- MCStored
  Patch <- MCPatch
  Installed <- MCInstalled
  NULL = NULL
  BLANK = BLANK
  KEEP = KEEP
  MaxLag = 1
  MaxOutside = 2
  MaxFaults = 1
INVARIANTS
  TypeOK
  EstimateIsFirstOpening
  CountersTellTheSweep
  SteadyWishIsServed
  NothingUnasked
PROPERTIES
  SweptWhenEligible
  WishReturns
