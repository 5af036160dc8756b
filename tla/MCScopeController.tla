--------------------------- MODULE MCScopeController ---------------------------
(* Model checking instances of ScopeController.                            *)
EXTENDS ScopeController, TLC

Control(kind, prop, values) == [kind : {kind}, prop : {prop}, value : values]
Action(actions) == [kind : {"action"}, prop : actions, value : {0}]

Load(requests, inFlight, total, refusals) ==
  [requests |-> requests, inFlight |-> inFlight, total |-> total, refusals |-> refusals]

\* A value between two that the scope can have is rounded down.
Rounded == [v \in Values |-> IF v = 2 THEN 1 ELSE v]

Discrete == Control("set", "sweep", {0, 2}) \cup Control("set", "level", {0, 2})

Timebase == Control("set", "scale", {0, 2}) \cup Control("update", "scale", {0, 2})
  \cup Control("commit", "scale", {0, 2}) \cup Control("update", "position", {0, 2})

OneByOne == Discrete \cup Control("set", "scale", {0, 2}) \cup Control("commit", "scale", {0, 2})
  \cup Control("update", "position", {0, 2}) \cup Control("commit", "level", {0, 2})
  \cup Action({"run", "stop", "single"})

MainLoads == {Load(Discrete, 3, 4, 1), Load(Timebase, 3, 3, 1), Load(OneByOne, 1, 4, 0)}

\* A Stop during a change of the timebase.
StopLoads == {Load(Control("update", "scale", {2}) \cup Action({"stop"}), 2, 2, 0)}

AnyCaller == Permutations(Callers)
=============================================================================
