SPECIFICATION Spec
CONSTANTS
  Wave <- ShortWave
  XIncrement = 2
  XOrigin <- MinusEight
  Modulus = 16
  Channels = {"ch1"}
  Sources = {"ch1", "math1"}
  Views <- ThreeViews
  FirstView <- MiddleView
  PixelWidth = 2
  BufferLimit = 1
  FirstSequence = {15}
  MaxFrames = 3
  MaxCaptures = 2
  MaxRuns = 1
  MaxPans = 2
  MaxBreaks = 1
  MaxRequests = 6
INVARIANTS
  ShownIsTheCapture
  ViewIsServed
  RunShowsLive
  LatestAtRest
\* The bounds end all: nobody uses the page any more.
CHECK_DEADLOCK FALSE
