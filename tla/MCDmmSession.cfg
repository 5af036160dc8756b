SPECIFICATION FairSpec
CONSTANTS
  None = None
  dc = dc
  ac = ac
  r1 = r1
  r2 = r2
  Functions = {dc, ac}
  ByConfigure = {ac}
  Ranges = {r1, r2}
  Controls <- SomeControls
  MaxEvents = 3
INVARIANTS
  LabelIsTrue
  ReadingIsFresh
PROPERTIES
  WriteIsBound
  CatchesUp
  NothingHangs
\* A stopped runtime with no bound left does nothing.
CHECK_DEADLOCK FALSE
