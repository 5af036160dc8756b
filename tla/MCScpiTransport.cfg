SPECIFICATION FairSpec
CONSTANTS
  MaxQueries = 3
  PayloadLength = 2
  PayloadBytes = {"x"}
  Kinds = {"text", "binary", "live", "blocks"}
  BlockEndings <- OptionalEnding
INVARIANTS
  OwnAnswers
PROPERTIES
  EveryQuerySettles
\* MaxQueries bounds the queries: after the last one the transport rests.
CHECK_DEADLOCK FALSE
