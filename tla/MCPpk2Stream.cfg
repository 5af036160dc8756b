SPECIFICATION Spec
CONSTANTS
  None = None
  SampleBytes = 2
  Modulus = 2
  Skips = {0, 1, 2}
  ChunkSamples = 2
  Capacity = 3
  BucketSamples = 2
  PublishBuckets = 2
  MaxSamples = 4
  MaxCaptures = 2
INVARIANTS
  SamplesAreTrue
  AccountsAgree
  ViewportIsComplete
\* The device has sent all its samples and the last capture is over.
CHECK_DEADLOCK FALSE
