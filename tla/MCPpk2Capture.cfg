SPECIFICATION FairSpec
CONSTANTS
  None = None
  Clients = {c1, c2}
  MaxOps = 3
  MaxRetained = 1
  MaxBatches = 1
  MaxFaults = 2
INVARIANTS
  CaptureIsOwned
  OwnSamples
PROPERTIES
  LedgerSpec
  StaleCaptureIsFreed
\* After the shutdown nothing happens any more.
CHECK_DEADLOCK FALSE
