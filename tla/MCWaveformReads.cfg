SPECIFICATION Spec
CONSTANTS
  Channels = {ch1}
  Maths = {math1}
  Scales = {1, 2, 3}
  Offsets = {0, 1}
  ScaleTaken <- Rounding
  OffsetTaken <- Clamping
  MaxWrites = 1
INVARIANTS
  FrameAsRead
  FrameIsTrue
