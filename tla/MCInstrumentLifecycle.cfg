SPECIFICATION Spec
CONSTANTS
  Clients = {c1, c2, c3}
  Instruments = {scope, dmm}
  Visits <- AnyVisits
  MaxMessages = 5
SYMMETRY Symmetric
INVARIANTS
  RuntimesFollow
  ShutdownStops
\* Sockets do not come back and MaxMessages ends the run: the server rests.
CHECK_DEADLOCK FALSE
