--------------------------- MODULE AcquisitionLedger ---------------------------
(***************************************************************************)
(* What src/server/acquisition/acquisition-service.ts promises of the      *)
(* acquisition operations, whoever produces the samples: an operation gets *)
(* the next number, runs, counts upwards while it runs, ends once, and is  *)
(* forgotten only after it ended and only when enough younger operations   *)
(* have ended too.  Ppk2Capture.tla implements it.                         *)
(***************************************************************************)
EXTENDS Naturals, FiniteSets

CONSTANTS
  Ids,          \* the operation numbers 1 .. n
  MaxRetained   \* maxRetainedTerminalOperations

VARIABLE book   \* what is known of each operation

Phases    == {"new", "Running", "Stopped", "Failed", "forgotten"}
Entries   == [phase : Phases, received : Nat]
Terminal  == {"Stopped", "Failed"}
NewEntry  == [phase |-> "new", received |-> 0]

Init == book = [i \in Ids |-> NewEntry]

\* The phases a step may leave a new operation in: one that fails at once is
\* remembered, unless none is.
StartPhases == {"Running", IF MaxRetained = 0 THEN "forgotten" ELSE "Failed"}

Start(i) == /\ book[i] = NewEntry
            /\ \A j \in Ids : j < i => book[j].phase # "new"
            /\ book'[i] \in {[phase |-> p, received |-> 0] : p \in StartPhases}

Progress(i) == /\ book[i].phase = "Running" /\ book'[i].phase = "Running"
               /\ book'[i].received >= book[i].received

End(i) == /\ book[i].phase = "Running" /\ book'[i].phase \in Terminal
          /\ book'[i].received = book[i].received

Forget(i) == /\ book[i].phase \in Terminal \cup {"Running"}
             /\ book'[i].phase = "forgotten"
             /\ Cardinality({j \in Ids : j > i /\ book'[j].phase \in Terminal}) >= MaxRetained

\* A step ends at most what runs, and starts at most one operation.
Next ==
  /\ book' \in [Ids -> Entries]
  /\ \A i \in Ids : book'[i] = book[i] \/ Start(i) \/ Progress(i) \/ End(i) \/ Forget(i)
  /\ Cardinality({i \in Ids : book[i] = NewEntry /\ book'[i] # NewEntry}) <= 1

Spec == Init /\ [][Next]_book
=============================================================================
