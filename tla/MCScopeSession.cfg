SPECIFICATION FairSessionSpec
CONSTANTS
  MaxFaults = 2
  MaxSleeps = 2
INVARIANTS
  SessionIsTrue
PROPERTIES
  Reconnects
  SleepEnds
\* A runtime that stopped after the server closed rests.
CHECK_DEADLOCK FALSE
