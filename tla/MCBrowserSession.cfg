SPECIFICATION FairSpec
CONSTANTS
  Settings = {"V1", "V2", "Ohm"}
  Function <- TwoFunctions
  Found = {"V1"}
  RawSettings = {"Ohm"}
  PanelSettings = {"V2"}
  MaxFlight = 1
  MaxSockets = 2
  MaxUses = 3
  MaxEvents = 1
INVARIANTS
  ShownAtRest
  StoppedWhenLeft
  PageIsCoherent
PROPERTIES
  Recovers
\* Visits, requests and events are bounded: in the end all is quiet.
CHECK_DEADLOCK FALSE
