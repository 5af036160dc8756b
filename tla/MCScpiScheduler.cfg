SPECIFICATION FairSpec
CONSTANTS
  MaxRequests = 3
  ControlKeys = {k1}
  StreamKeys = {w1}
  NoKey = NoKey
INVARIANTS
  FreshAnswer
  WaveformOvertakenOnce
PROPERTIES
  NewestRuns
  EveryRequestSettles
\* MaxRequests bounds the calls: after the last one the scheduler rests.
CHECK_DEADLOCK FALSE
