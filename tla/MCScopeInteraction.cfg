SPECIFICATION FairSpec
CONSTANTS
  Browsers = {b1, b2}
  Kinds = {"update", "commit", "control"}
  Keys = {"horizontal"}
  Acquirable = {TRUE, FALSE}
  MaxRequests = 3
  MaxConnections = 2
  Sources = 1
INVARIANTS
  LiveKeepsPolling
  NoReplay
PROPERTIES
  LastAskedWins
  ControlsAnswered
CONSTRAINT OneBrowserGoesOn
\* MaxRequests and MaxConnections end the run: the scope rests.
CHECK_DEADLOCK FALSE
