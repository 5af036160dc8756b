--------------------------- MODULE Ppk2Capture_proofs ---------------------------
(***************************************************************************)
(* What holds of PPK2 captures for any number of browsers, operations,     *)
(* batches and failures, and that the operations follow AcquisitionLedger. *)
(***************************************************************************)
EXTENDS Ppk2Capture, TLAPS, FiniteSetTheorems

-----------------------------------------------------------------------------
(* Sets of operation numbers.                                              *)

Above(S, i) == {j \in S : j > i}

\* A finite set of numbers has a greatest member.
LEMMA Greatest ==
  ASSUME NEW S, S \subseteq Nat, IsFiniteSet(S), S # {}
  PROVE  \E m \in S : \A i \in S : i <= m
<1> DEFINE Tails == {Above(S, i) : i \in S}
<1>1. Tails \subseteq FiniteSubsetsOf(S) /\ Tails # {}
  <2>1. ASSUME NEW i \in S PROVE Above(S, i) \in FiniteSubsetsOf(S)
    BY FS_FiniteSubsetsOfFinite DEF Above
  <2> QED
    BY <2>1
<1>2. PICK T \in Tails : \A U \in Tails : <<U, T>> \notin StrictSubsetOrdering(S)
  <2> HIDE DEF Tails
  <2> QED
    BY <1>1, WFMin, FS_StrictSubsetOrderingWellFounded
<1>3. PICK m \in S : T = Above(S, m)
  BY <1>2
<1>4. ASSUME NEW i \in S PROVE i <= m
  <2>1. CASE m < i
    <3>1. Above(S, i) \subseteq T /\ Above(S, i) # T
      <4>1. i \in T /\ i \notin Above(S, i)
        BY <1>3, <2>1 DEF Above
      <4>2. ASSUME NEW j \in Above(S, i) PROVE j \in T
        <5>1. {i, j, m} \subseteq Nat /\ j > i
          BY DEF Above
        <5> QED
          BY <1>3, <2>1, <5>1 DEF Above
      <4> QED
        BY <4>1, <4>2
    <3>2. T \subseteq S
      BY <1>3 DEF Above
    <3>3. <<Above(S, i), T>> \in StrictSubsetOrdering(S)
      BY <3>1, <3>2 DEF StrictSubsetOrdering
    <3> QED
      BY <1>2, <3>3
  <2> QED
    BY <2>1
<1> QED
  BY <1>3, <1>4

\* The ones of T that pruning keeps.
Kept(T) == {i \in T : Cardinality(Above(T, i)) < MaxRetained}

\* Of a finite set T of numbers, each one that is not kept has MaxRetained kept
\* ones above it.
LEMMA ForgottenBelowKept ==
  ASSUME NEW T, T \subseteq Nat, IsFiniteSet(T), NEW i \in T \ Kept(T)
  PROVE  Cardinality(Above(Kept(T), i)) >= MaxRetained
<1>1. IsFiniteSet(T \ Kept(T)) /\ T \ Kept(T) \subseteq Nat
  BY FS_Subset
<1>2. PICK m \in T \ Kept(T) : \A j \in T \ Kept(T) : j <= m
  BY <1>1, Greatest
<1>3. ASSUME NEW j \in Above(T, m) PROVE j \in Above(Kept(T), i)
  <2>1. {i, j, m} \subseteq Nat /\ j \in T /\ j > m
    BY DEF Above
  <2>2. j \in Kept(T)
    BY <1>2, <2>1
  <2> QED
    BY <1>2, <2>1, <2>2 DEF Above
<1>4. IsFiniteSet(Above(Kept(T), i)) /\ IsFiniteSet(Above(T, m))
  BY FS_Subset DEF Above, Kept
<1>5. Cardinality(Above(T, m)) <= Cardinality(Above(Kept(T), i))
  BY <1>3, <1>4, FS_Subset
<1>6. Cardinality(Above(T, m)) >= MaxRetained
  <2>1. Cardinality(Above(T, m)) \in Nat /\ MaxRetained \in Nat
    BY <1>4, FS_CardinalityType, CaptureAssumption
  <2> QED
    BY <1>2, <2>1 DEF Kept
<1> QED
  BY <1>4, <1>5, <1>6, FS_CardinalityType, CaptureAssumption

-----------------------------------------------------------------------------
(* The list of operations.                                                 *)

Ending == {"Stopped", "Failed"}

\* f is the list with at most one operation more, and some of the running ones
\* ended.
Changed(f) ==
  /\ f \in [DOMAIN f -> Operations]
  /\ DOMAIN f \in {DOMAIN ops, DOMAIN ops \cup {nextId}}
  /\ \A i \in DOMAIN ops :
       /\ f[i].owner = ops[i].owner /\ f[i].received = ops[i].received
       /\ f[i].state = ops[i].state \/ (ops[i].state = "Running" /\ f[i].state \in Ending)
  /\ IF nextId \in DOMAIN f
     THEN /\ nextId <= MaxOps /\ nextId' = nextId + 1
          /\ f[nextId].received = 0 /\ f[nextId].state \in {"Running", "Failed"}
     ELSE nextId' = nextId

PrunedStep == \E f : Changed(f) /\ ops' = Prune(f)

Terminal(f) == {i \in DOMAIN f : f[i].state # "Running"}

\* Pruning removes entries only, and never one that runs.
LEMMA PruneRemoves ==
  ASSUME NEW f
  PROVE  /\ DOMAIN Prune(f) = (DOMAIN f \ Terminal(f)) \cup Kept(Terminal(f))
         /\ \A i \in DOMAIN Prune(f) : Prune(f)[i] = f[i]
         /\ Prune(f) = [i \in DOMAIN Prune(f) |-> f[i]]
<1> USE DEF Prune, Terminal, Kept, Above, Restrict
<1>1. Prune(f) = Restrict(f, (DOMAIN f \ Terminal(f)) \cup Kept(Terminal(f)))
  OBVIOUS
<1> QED
  BY <1>1

\* What pruning keeps, it does not change.
LEMMA PruneKeeps ==
  ASSUME NEW f, NEW i \in DOMAIN Prune(f)
  PROVE  i \in DOMAIN f /\ Prune(f)[i] = f[i]
<1>1. i \in (DOMAIN f \ Terminal(f)) \cup Kept(Terminal(f)) /\ Prune(f)[i] = f[i]
  BY PruneRemoves
<1>2. Kept(Terminal(f)) \subseteq DOMAIN f
  BY DEF Kept, Terminal
<1> QED
  BY <1>1, <1>2

\* The list stays a list.
LEMMA PrunedIsTyped ==
  ASSUME TypeOK, PrunedStep
  PROVE  /\ ops' \in [DOMAIN ops' -> Operations]
         /\ nextId' \in 1 .. MaxOps + 1 /\ DOMAIN ops' \subseteq 1 .. nextId' - 1
<1>1. PICK f : Changed(f) /\ ops' = Prune(f)
  BY DEF PrunedStep
<1>2. DOMAIN ops' \subseteq DOMAIN f /\ ops' = [i \in DOMAIN ops' |-> f[i]]
  BY <1>1, PruneRemoves DEF Terminal, Kept
<1>3. nextId' \in 1 .. MaxOps + 1 /\ DOMAIN f \subseteq 1 .. nextId' - 1
  BY <1>1, CaptureAssumption DEF Changed, TypeOK
<1>4. ops' \in [DOMAIN ops' -> Operations]
  BY <1>1, <1>2 DEF Changed
<1> QED
  BY <1>2, <1>3, <1>4

\* The steps of AcquisitionService that prune.
LEMMA StartedPrunes ==
  ASSUME TypeOK, NEW owner \in {"ppk2", "browser"}, NEW state \in {"Running", "Failed"},
         nextId <= MaxOps, ops' = Started(owner, state), nextId' = nextId + 1
  PROVE  /\ PrunedStep
         /\ \A i \in DOMAIN ops' : ops'[i] = IF i = nextId
              THEN [owner |-> owner, state |-> state, received |-> 0] ELSE ops[i]
         /\ DOMAIN ops' \subseteq DOMAIN ops \cup {nextId}
<1> DEFINE f == [i \in DOMAIN ops \cup {nextId} |->
                   IF i = nextId THEN [owner |-> owner, state |-> state, received |-> 0]
                   ELSE ops[i]]
<1>1. ops' = Prune(f)
  BY DEF Started
<1>2. 0 \in 0 .. MaxBatches /\ nextId \notin DOMAIN ops /\ DOMAIN f = DOMAIN ops \cup {nextId}
  BY CaptureAssumption DEF TypeOK
<1>3. Changed(f)
  <2>1. f \in [DOMAIN f -> Operations]
    BY <1>2 DEF TypeOK, Operations
  <2> QED
    BY <1>2, <2>1 DEF Changed
<1>4. \A i \in DOMAIN ops' : i \in DOMAIN f /\ ops'[i] = f[i]
  <2> HIDE DEF f
  <2> QED
    BY <1>1, PruneKeeps
<1> QED
  BY <1>1, <1>2, <1>3, <1>4 DEF PrunedStep

LEMMA EndedPrunes ==
  ASSUME TypeOK, NEW o, IsRunning(o), NEW state \in Ending,
         ops' = Ended(o, state), nextId' = nextId
  PROVE  /\ PrunedStep
         /\ \A i \in DOMAIN ops' : i # o => ops'[i] = ops[i]
         /\ o \in DOMAIN ops' => ops'[o].state # "Running"
         /\ DOMAIN ops' \subseteq DOMAIN ops
<1> DEFINE f == [ops EXCEPT ![o].state = state]
<1>1. ops' = Prune(f)
  BY DEF Ended
<1>2. o \in DOMAIN ops /\ ops[o].state = "Running" /\ nextId \notin DOMAIN ops
      /\ DOMAIN f = DOMAIN ops
  BY DEF TypeOK, IsRunning
<1>3. f = [i \in DOMAIN ops |-> IF i = o THEN [ops[o] EXCEPT !.state = state] ELSE ops[i]]
  BY <1>2
<1>4. Changed(f)
  <2>1. [ops[o] EXCEPT !.state = state] \in Operations
    BY <1>2 DEF TypeOK, Operations, Ending
  <2>2. f \in [DOMAIN f -> Operations]
    BY <1>2, <1>3, <2>1 DEF TypeOK
  <2>3. \A i \in DOMAIN ops : f[i].owner = ops[i].owner /\ f[i].received = ops[i].received
    BY <1>2 DEF TypeOK, Operations
  <2>4. \A i \in DOMAIN ops : f[i].state = IF i = o THEN state ELSE ops[i].state
    BY <1>2 DEF TypeOK, Operations
  <2> HIDE DEF f
  <2> QED
    BY <1>2, <2>2, <2>3, <2>4 DEF Changed
<1>5. f[o].state = state
  BY <1>2 DEF TypeOK, Operations
<1>6. \A i \in DOMAIN ops' : i \in DOMAIN f /\ ops'[i] = f[i]
  <2> HIDE DEF f
  <2> QED
    BY <1>1, PruneKeeps
<1>7. \A i \in DOMAIN f : i # o => f[i] = ops[i]
  BY <1>3
<1> HIDE DEF f
<1> QED
  BY <1>1, <1>2, <1>4, <1>5, <1>6, <1>7 DEF PrunedStep, Ending

LEMMA StoppedAllPrunes ==
  ASSUME TypeOK, ops' = StoppedAll, nextId' = nextId
  PROVE  PrunedStep /\ \A i \in DOMAIN ops' : ops'[i].state # "Running"
<1> DEFINE f == [i \in DOMAIN ops |->
                   IF ops[i].state = "Running" THEN [ops[i] EXCEPT !.state = "Stopped"]
                   ELSE ops[i]]
<1>1. ops' = Prune(f)
  BY DEF StoppedAll
<1>2. \A i \in DOMAIN ops :
        /\ f[i] \in Operations /\ f[i].state \in Ending
        /\ f[i].owner = ops[i].owner /\ f[i].received = ops[i].received
        /\ ops[i].state # "Running" => f[i].state = ops[i].state
        /\ ops[i].state = "Running" => f[i].state \in Ending
  BY DEF TypeOK, Operations, Ending
<1>3. f = [i \in DOMAIN ops |-> f[i]] /\ DOMAIN f = DOMAIN ops /\ nextId \notin DOMAIN ops
  BY DEF TypeOK
<1> HIDE DEF f
<1>4. Changed(f)
  BY <1>2, <1>3 DEF Changed, TypeOK, Operations
<1>5. \A i \in DOMAIN ops' : i \in DOMAIN f /\ ops'[i] = f[i]
  BY <1>1, PruneKeeps
<1> QED
  BY <1>1, <1>2, <1>3, <1>4, <1>5 DEF PrunedStep, Ending

-----------------------------------------------------------------------------
(* The list follows the ledger.                                            *)

Ids == 1 .. MaxOps

\* The ledger counts as this module does.
LEMMA LedgerCardinality == \A S : Ledger!Cardinality(S) = Cardinality(S)
BY DEF Ledger!Cardinality, Cardinality

\* What the ledger knows of an operation is an entry of its own.
LEMMA BookTyped ==
  ASSUME TypeOK
  PROVE  Book \in [Ids -> Ledger!Entries]
<1> SUFFICES ASSUME NEW i \in Ids PROVE Book[i] \in Ledger!Entries
  BY DEF Book, Ids
<1>1. CASE i \in DOMAIN ops
  BY <1>1, CaptureAssumption DEF Book, Ids, TypeOK, Operations, Ledger!Entries, Ledger!Phases
<1>2. CASE i \notin DOMAIN ops
  BY <1>2 DEF Book, Ids, Ledger!Entries, Ledger!Phases
<1> QED
  BY <1>1, <1>2

\* A step that prunes the list is a step of the ledger.
LEMMA PrunedStepOfLedger ==
  ASSUME TypeOK, TypeOK', PrunedStep
  PROVE  Ledger!Next
<1>1. PICK f : Changed(f) /\ ops' = Prune(f)
  BY DEF PrunedStep
<1> DEFINE T == Terminal(f)
<1>2. /\ DOMAIN ops' = (DOMAIN f \ T) \cup Kept(T)
      /\ \A i \in DOMAIN ops' : i \in DOMAIN f /\ ops'[i] = f[i]
  <2>1. DOMAIN ops' = (DOMAIN f \ T) \cup Kept(T)
    BY <1>1, PruneRemoves
  <2>2. \A i \in DOMAIN ops' : i \in DOMAIN f /\ ops'[i] = f[i]
    BY <1>1, PruneKeeps
  <2> QED
    BY <2>1, <2>2
<1>3. T \subseteq Ids /\ T \subseteq Nat /\ IsFiniteSet(T) /\ DOMAIN f \subseteq Ids
  <2>1. DOMAIN f \subseteq 1 .. MaxOps
    BY <1>1, CaptureAssumption DEF Changed, TypeOK
  <2>2. IsFiniteSet(1 .. MaxOps)
    BY FS_Interval, CaptureAssumption
  <2>3. T \subseteq DOMAIN f
    BY DEF Terminal
  <2> HIDE DEF T
  <2>4. T \in SUBSET (1 .. MaxOps)
    BY <2>1, <2>3
  <2>5. IsFiniteSet(T)
    BY <2>2, <2>4, FS_Subset
  <2> QED
    BY <2>1, <2>4, <2>5 DEF Ids
<1>4. \A i \in DOMAIN f : f[i] \in Operations /\ (i \in T <=> f[i].state \in Ending)
  BY <1>1 DEF Changed, Terminal, Operations, Ending
<1>5. {i \in Ids : Book'[i].phase \in Ledger!Terminal} = Kept(T)
  <2>1. ASSUME NEW i \in Ids
        PROVE  Book'[i].phase \in Ledger!Terminal <=> i \in Kept(T)
    <3>1. CASE i \in DOMAIN ops'
      BY <1>2, <1>4, <3>1 DEF Book, Ledger!Terminal, Ids, Kept, Terminal, Ending
    <3>2. CASE i \notin DOMAIN ops'
      BY <1>2, <3>2 DEF Book, Ledger!Terminal, Ids
    <3> QED
      BY <3>1, <3>2
  <2> QED
    BY <1>3, <2>1 DEF Kept
<1>6. ASSUME NEW i \in DOMAIN ops
      PROVE  Book'[i] = Book[i] \/ Ledger!End(i) \/ Ledger!Forget(i)
  <2>1. i \in Ids /\ i < nextId /\ i < nextId' /\ i \in DOMAIN f
    BY <1>1, CaptureAssumption DEF TypeOK, Ids, Changed
  <2>2. Book[i] = [phase |-> ops[i].state, received |-> ops[i].received]
    BY <2>1 DEF Book, Ids
  <2>3. CASE i \in DOMAIN ops'
    <3>1. Book'[i] = [phase |-> f[i].state, received |-> ops[i].received]
      BY <1>1, <1>2, <2>1, <2>3 DEF Book, Ids, Changed
    <3> QED
      BY <1>1, <2>2, <3>1 DEF Changed, Ledger!End, Ledger!Terminal, Ending
  <2>4. CASE i \notin DOMAIN ops'
    <3>1. Book'[i].phase = "forgotten"
      BY <2>1, <2>4 DEF Book, Ids
    <3>2. i \in T \ Kept(T)
      BY <1>2, <2>1, <2>4
    <3>3. {j \in Ids : j > i /\ Book'[j].phase \in Ledger!Terminal} = Above(Kept(T), i)
      BY <1>5 DEF Above
    <3>4. Cardinality(Above(Kept(T), i)) >= MaxRetained
      <4> HIDE DEF T
      <4> QED
        BY <1>3, <3>2, ForgottenBelowKept
    <3>5. Cardinality({j \in Ids : j > i /\ Book'[j].phase \in Ledger!Terminal}) >= MaxRetained
      BY <3>3, <3>4
    <3>6. Book[i].phase \in Ledger!Terminal \cup {"Running"}
      BY <2>2 DEF TypeOK, Operations, Ledger!Terminal
    <3> QED
      BY <3>1, <3>5, <3>6, LedgerCardinality DEF Ledger!Forget, Ids
  <2> QED
    BY <2>3, <2>4
<1>7. ASSUME nextId \in DOMAIN f
      PROVE  /\ nextId \in Ids /\ Ledger!Start(nextId)
  <2>1. nextId \in Ids /\ nextId \notin DOMAIN ops /\ nextId' = nextId + 1
    BY <1>1, <1>7 DEF Changed, TypeOK, Ids
  <2>2. Book[nextId] = Ledger!NewEntry
    BY <2>1 DEF Book, Ids, Ledger!NewEntry, TypeOK
  <2>3. ASSUME NEW j \in Ids, j < nextId PROVE Book[j].phase # "new"
    BY <2>3 DEF Book, Ids, TypeOK, Operations
  <2>4. CASE nextId \in DOMAIN ops'
    <3>1. Book'[nextId] = [phase |-> f[nextId].state, received |-> 0]
      BY <1>1, <1>2, <1>7, <2>1, <2>4 DEF Book, Ids, Changed
    <3>2. f[nextId].state = "Failed" => MaxRetained # 0
      <4>1. ASSUME f[nextId].state = "Failed" PROVE nextId \in Kept(T)
        BY <1>2, <1>7, <2>4, <4>1 DEF Terminal
      <4>2. IsFiniteSet(Above(T, nextId))
        BY <1>3, FS_Subset DEF Above
      <4> HIDE DEF T
      <4> QED
        BY <4>1, <4>2, FS_CardinalityType DEF Kept
    <3> QED
      BY <1>1, <1>7, <2>1, <2>2, <2>3, <3>1, <3>2
         DEF Changed, Ledger!Start, Ledger!StartPhases, Ids
  <2>5. CASE nextId \notin DOMAIN ops'
    <3>1. Book'[nextId] = [phase |-> "forgotten", received |-> 0]
      BY <2>1, <2>5 DEF Book, Ids, TypeOK
    <3>2. nextId \in T \ Kept(T)
      BY <1>2, <1>7, <2>5
    <3>3. Above(T, nextId) = {}
      BY <1>1, <2>1 DEF Above, Terminal, Changed, TypeOK
    <3>4. MaxRetained = 0
      BY <3>2, <3>3, FS_EmptySet, CaptureAssumption DEF Kept
    <3> QED
      BY <2>1, <2>2, <2>3, <3>1, <3>4 DEF Ledger!Start, Ledger!StartPhases, Ids
  <2> QED
    BY <2>1, <2>4, <2>5
<1>8. ASSUME NEW i \in Ids, i \notin DOMAIN f
      PROVE  Book'[i] = Book[i]
  <2>1. i \notin DOMAIN ops /\ i \notin DOMAIN ops'
    BY <1>1, <1>2, <1>8 DEF Changed
  <2>2. i < nextId <=> i < nextId'
    BY <1>1, <1>8 DEF Changed, TypeOK, Ids
  <2> QED
    BY <2>1, <2>2 DEF Book, Ids
<1>9. \A i \in Ids : i \in DOMAIN f => i \in DOMAIN ops \/ i = nextId
  BY <1>1 DEF Changed
<1>10. Cardinality({i \in Ids : Book[i] = Ledger!NewEntry /\ Book'[i] # Ledger!NewEntry}) <= 1
  <2>1. {i \in Ids : Book[i] = Ledger!NewEntry /\ Book'[i] # Ledger!NewEntry} \subseteq {nextId}
    <3>1. ASSUME NEW i \in DOMAIN ops PROVE Book[i] # Ledger!NewEntry
      <4>1. i \in Ids /\ ops[i].state # "new"
        BY CaptureAssumption DEF TypeOK, Operations, Ids
      <4> QED
        BY <4>1 DEF Book, Ids, Ledger!NewEntry
    <3> QED
      BY <1>8, <1>9, <3>1
  <2>2. IsFiniteSet({nextId}) /\ Cardinality({nextId}) = 1
    BY FS_Singleton
  <2>3. \A S \in SUBSET {nextId} : IsFiniteSet(S) /\ Cardinality(S) <= 1
    BY <2>2, FS_Subset
  <2> QED
    BY <2>1, <2>3
<1>11. Book' \in [Ids -> Ledger!Entries]
  <2>1. (TypeOK => Book \in [Ids -> Ledger!Entries])'
    BY BookTyped, PTL
  <2> QED
    BY <2>1 DEF Ids, Ledger!Entries, Ledger!Phases
<1>12. \A i \in Ids : \/ Book'[i] = Book[i] \/ Ledger!Start(i) \/ Ledger!Progress(i)
                       \/ Ledger!End(i) \/ Ledger!Forget(i)
  BY <1>6, <1>7, <1>8, <1>9
<1> QED
  BY <1>10, <1>11, <1>12, LedgerCardinality DEF Ledger!Next, Ids

-----------------------------------------------------------------------------
(* The inductive invariant.                                                *)

\* A session is served while the runtime runs, and it runs only for somebody;
\* one capture ends at a time; a closed list runs nothing.
Served ==
  /\ session <=> loop = "serving" /\ running
  /\ subs = {} /\ ~Closed => ~running
  /\ draining # None => active \in {None, draining}
  /\ Closed => \A o \in DOMAIN ops : ops[o].state # "Running"

\* As long as every end of a capture was drained, no byte of an ended measurement
\* is on the way when a session gets ready or a capture starts.
Drains ==
  \/ undrained
  \/ /\ loop = "metadata" => ~stale
     /\ session /\ stale => ~measuring /\ (draining # None \/ Closed)

IInv == TypeOK /\ CaptureIsOwned /\ OwnSamples /\ Served /\ Drains

LEMMA InitIInv == Init => IInv
<1> SUFFICES ASSUME Init PROVE IInv
  OBVIOUS
<1>1. TypeOK
  <2>1. 1 \in 1 .. MaxOps + 1 /\ 0 \in 0 .. MaxFaults
    BY CaptureAssumption
  <2>2. DOMAIN ops = {}
    BY DEF Init
  <2> QED
    BY <2>1, <2>2 DEF Init, TypeOK
<1>2. CaptureIsOwned /\ OwnSamples /\ Served /\ Drains
  BY DEF Init, CaptureIsOwned, OwnSamples, Served, Drains, Closed
<1> QED
  BY <1>1, <1>2 DEF IInv

\* The faults stay within their bound.
LEMMA FaultsTyped ==
  ASSUME faults \in 0 .. MaxFaults,
         faults' = faults \/ (faults < MaxFaults /\ faults' = faults + 1)
  PROVE  faults' \in 0 .. MaxFaults
BY CaptureAssumption

\* The end of the capture ends its operation, and no other runs for the PPK2.
LEMMA FailEndsCapture ==
  ASSUME IInv, FailActiveCapture, nextId' = nextId
  PROVE  /\ active' = None /\ (ops' = ops \/ PrunedStep)
         /\ ops' \in [DOMAIN ops' -> Operations] /\ DOMAIN ops' \subseteq 1 .. nextId' - 1
         /\ \A i \in DOMAIN ops' : ops'[i].state = "Running" =>
              /\ i \in DOMAIN ops /\ ops[i].state = "Running"
              /\ ops'[i].owner # "ppk2"
<1> USE DEF IInv
<1>1. CASE active # None /\ IsRunning(active)
  <2>1. ops' = Ended(active, "Failed") /\ active' = None
    BY <1>1 DEF FailActiveCapture
  <2>2. /\ PrunedStep
        /\ \A i \in DOMAIN ops' : i # active => ops'[i] = ops[i]
        /\ active \in DOMAIN ops' => ops'[active].state # "Running"
        /\ DOMAIN ops' \subseteq DOMAIN ops
    BY <1>1, <2>1, EndedPrunes DEF Ending
  <2> QED
    BY <2>1, <2>2, PrunedIsTyped DEF CaptureIsOwned
<1>2. CASE ~(active # None /\ IsRunning(active))
  <2>1. ops' = ops /\ active' = None
    BY <1>2 DEF FailActiveCapture
  <2> QED
    BY <1>2, <2>1, CaptureAssumption DEF CaptureIsOwned, IsRunning, TypeOK
<1> QED
  BY <1>1, <1>2

\* The steps that leave the list alone, but for the end of a session.
LEMMA LoopKeeps ==
  ASSUME IInv,
         \/ Connect \/ UsbConnected \/ Drained \/ Ready \/ RetryDelayOver \/ StopDone
         \/ SocketCloses \/ StreamDries \/ CreateFails \/ Fail \/ HalfClose
  PROVE  IInv'
<1> USE DEF IInv, TypeOK, CaptureIsOwned, OwnSamples, Served, Drains, Closed,
            runtime, link, service, ledger
<1>1. CASE Connect
  BY <1>1 DEF Connect
<1>2. CASE UsbConnected
  BY <1>2 DEF UsbConnected
<1>3. CASE Drained
  BY <1>3 DEF Drained
<1>4. CASE Ready
  BY <1>4 DEF Ready
<1>5. CASE RetryDelayOver
  BY <1>5 DEF RetryDelayOver
<1>6. CASE StopDone
  BY <1>6 DEF StopDone
<1>7. CASE SocketCloses
  BY <1>7 DEF SocketCloses
<1>8. CASE StreamDries
  BY <1>8 DEF StreamDries
<1>9. CASE CreateFails
  BY <1>9, FaultsTyped DEF CreateFails
<1>10. CASE Fail
  BY <1>10, FaultsTyped DEF Fail
<1>11. CASE HalfClose
  BY <1>11, FaultsTyped DEF HalfClose
<1> QED
  BY <1>1, <1>2, <1>3, <1>4, <1>5, <1>6, <1>7, <1>8, <1>9, <1>10, <1>11

\* The steps that may end the capture.
LEMMA EndSessionKeeps ==
  ASSUME IInv, EndSession
  PROVE  IInv' /\ (ops' = ops \/ PrunedStep)
<1> USE DEF EndSession
<1>1. CASE running
  <2>1. FailActiveCapture
    BY <1>1
  <2> USE FailEndsCapture, <1>1, <2>1
  <2>2. TypeOK'
    BY DEF IInv, TypeOK
  <2>3. CaptureIsOwned' /\ OwnSamples' /\ Served' /\ Drains'
    BY DEF IInv, CaptureIsOwned, OwnSamples, Served, Drains, Closed, TypeOK
  <2> QED
    BY <2>2, <2>3 DEF IInv
<1>2. CASE ~running
  BY <1>2 DEF IInv, TypeOK, CaptureIsOwned, OwnSamples, Served, Drains, Closed
<1> QED
  BY <1>1, <1>2

LEMMA UnsubscribeKeeps ==
  ASSUME IInv, NEW c \in Clients, Unsubscribe(c)
  PROVE  IInv' /\ (ops' = ops \/ PrunedStep)
<1> USE DEF Unsubscribe, link
<1>1. CASE subs = {c}
  <2>1. RuntimeStop /\ FailActiveCapture
    BY <1>1 DEF RuntimeStop
  <2> USE FailEndsCapture, <1>1, <2>1 DEF RuntimeStop
  <2>2. TypeOK'
    BY DEF IInv, TypeOK
  <2>3. CaptureIsOwned' /\ OwnSamples' /\ Served' /\ Drains'
    BY DEF IInv, CaptureIsOwned, OwnSamples, Served, Drains, Closed, TypeOK
  <2> QED
    BY <2>2, <2>3 DEF IInv
<1>2. CASE subs # {c}
  BY <1>2 DEF IInv, TypeOK, CaptureIsOwned, OwnSamples, Served, Drains, Closed, runtime
<1> QED
  BY <1>1, <1>2

LEMMA CloseServiceKeeps ==
  ASSUME IInv, CloseService
  PROVE  IInv' /\ (ops' = ops \/ PrunedStep)
<1> USE DEF CloseService, link
<1>1. CASE running \/ loop # "none"
  <2>1. RuntimeStop /\ FailActiveCapture
    BY <1>1 DEF RuntimeStop
  <2> USE FailEndsCapture, <1>1, <2>1 DEF RuntimeStop
  <2>2. TypeOK'
    BY DEF IInv, TypeOK
  <2>3. CaptureIsOwned' /\ OwnSamples' /\ Served' /\ Drains'
    BY DEF IInv, CaptureIsOwned, OwnSamples, Served, Drains, Closed, TypeOK
  <2> QED
    BY <2>2, <2>3 DEF IInv
<1>2. CASE ~(running \/ loop # "none")
  BY <1>2 DEF IInv, TypeOK, CaptureIsOwned, OwnSamples, Served, Drains, Closed, runtime
<1> QED
  BY <1>1, <1>2

\* A batch counts, or ends the capture.
CountStep ==
  /\ IsRunning(active) /\ ops[active].received < MaxBatches
  /\ ops' = [ops EXCEPT ![active].received = @ + 1] /\ nextId' = nextId

LEMMA BatchKeeps ==
  ASSUME IInv, Batch
  PROVE  IInv' /\ (ops' = ops \/ PrunedStep \/ CountStep)
<1> USE DEF Batch, link, runtime
<1>1. CASE IsRunning(active)
  <2>1. active \in DOMAIN ops /\ CountStep
    BY <1>1 DEF IsRunning, CountStep
  <2>2. \A i \in DOMAIN ops : ops'[i].owner = ops[i].owner /\ ops'[i].state = ops[i].state
    BY <1>1, <2>1 DEF IInv, TypeOK, Operations
  <2>3. ops' \in [DOMAIN ops -> Operations] /\ DOMAIN ops' = DOMAIN ops
    <3>1. [ops[active] EXCEPT !.received = @ + 1] \in Operations
      BY <1>1, <2>1, CaptureAssumption DEF IInv, TypeOK, Operations
    <3> QED
      BY <1>1, <2>1, <3>1 DEF IInv, TypeOK
  <2>4. TypeOK'
    BY <1>1, <2>3 DEF IInv, TypeOK
  <2>5. CaptureIsOwned' /\ Served' /\ Drains'
    BY <1>1, <2>2, <2>3 DEF IInv, CaptureIsOwned, Served, Drains, Closed
  <2>6. OwnSamples'
    BY <1>1 DEF IInv, OwnSamples, Drains
  <2> QED
    BY <2>1, <2>4, <2>5, <2>6 DEF IInv
<1>2. CASE ~IsRunning(active)
  <2>1. FailActiveCapture /\ nextId' = nextId /\ undrained' = TRUE
    BY <1>2 DEF StopAfterFailure
  <2> USE FailEndsCapture, <1>2, <2>1 DEF StopAfterFailure, AverageStop
  <2>2. TypeOK'
    BY DEF IInv, TypeOK
  <2>3. CaptureIsOwned' /\ OwnSamples' /\ Served' /\ Drains'
    BY DEF IInv, CaptureIsOwned, OwnSamples, Served, Drains, Closed, TypeOK
  <2> QED
    BY <2>2, <2>3 DEF IInv
<1> QED
  BY <1>1, <1>2

\* The requests.
LEMMA StartCaptureKeeps ==
  ASSUME IInv, StartCapture
  PROVE  IInv' /\ PrunedStep
<1> USE DEF StartCapture, runtime
<1>1. nextId \in 1 .. MaxOps /\ nextId # None
  BY CaptureAssumption DEF IInv, TypeOK
<1>2. \A i \in DOMAIN ops : ~(ops[i].owner = "ppk2" /\ ops[i].state = "Running")
  BY CaptureAssumption DEF IInv, TypeOK, CaptureIsOwned
<1>3. CASE measuring \/ ~writable
  <2>1. ops' = Started("ppk2", "Failed")
    BY <1>3
  <2>2. /\ PrunedStep
        /\ \A i \in DOMAIN ops' : ops'[i] = IF i = nextId
             THEN [owner |-> "ppk2", state |-> "Failed", received |-> 0] ELSE ops[i]
        /\ DOMAIN ops' \subseteq DOMAIN ops \cup {nextId}
    BY <2>1, StartedPrunes DEF IInv
  <2>3. TypeOK'
    BY <1>1, <1>3, <2>2, PrunedIsTyped DEF IInv, TypeOK
  <2>4. CaptureIsOwned'
    BY <1>2, <1>3, <2>2 DEF IInv, CaptureIsOwned, Closed
  <2>5. OwnSamples' /\ Served' /\ Drains'
    BY <1>3 DEF IInv, OwnSamples, Served, Drains, Closed, Turn
  <2> QED
    BY <2>2, <2>3, <2>4, <2>5 DEF IInv
<1>4. CASE ~(measuring \/ ~writable)
  <2>1. ops' = Started("ppk2", "Running") /\ active' = nextId
    BY <1>4
  <2>2. /\ PrunedStep
        /\ \A i \in DOMAIN ops' : ops'[i] = IF i = nextId
             THEN [owner |-> "ppk2", state |-> "Running", received |-> 0] ELSE ops[i]
        /\ DOMAIN ops' \subseteq DOMAIN ops \cup {nextId}
    BY <2>1, StartedPrunes DEF IInv
  <2>3. TypeOK'
    BY <1>1, <1>4, <2>2, PrunedIsTyped DEF IInv, TypeOK
  <2>4. CaptureIsOwned'
    BY <1>2, <1>4, <2>1, <2>2 DEF IInv, CaptureIsOwned, Closed
  <2>5. OwnSamples' /\ Served' /\ Drains'
    BY <1>4 DEF IInv, OwnSamples, Served, Drains, Closed, Turn
  <2> QED
    BY <2>2, <2>3, <2>4, <2>5 DEF IInv
<1> QED
  BY <1>3, <1>4

LEMMA StopCaptureKeeps ==
  ASSUME IInv, StopCapture
  PROVE  IInv' /\ (ops' = ops \/ PrunedStep)
<1> USE DEF StopCapture, runtime, AverageStop
<1>1. CASE measuring /\ ~writable
  <2>1. FailActiveCapture
    BY <1>1
  <2> USE FailEndsCapture, <1>1, <2>1
  <2>2. TypeOK'
    BY DEF IInv, TypeOK
  <2>3. CaptureIsOwned' /\ OwnSamples' /\ Served' /\ Drains'
    BY DEF IInv, CaptureIsOwned, OwnSamples, Served, Drains, Closed, TypeOK
  <2> QED
    BY <2>2, <2>3 DEF IInv
<1>2. CASE ~(measuring /\ ~writable)
  <2>1. TypeOK'
    BY <1>2 DEF IInv, TypeOK
  <2>2. CaptureIsOwned' /\ Served'
    BY <1>2 DEF IInv, CaptureIsOwned, Served, Closed
  <2>3. OwnSamples' /\ Drains'
    BY <1>2, CaptureAssumption DEF IInv, OwnSamples, Served, Drains, Closed, CaptureIsOwned, TypeOK
  <2> QED
    BY <1>2, <2>1, <2>2, <2>3 DEF IInv
<1> QED
  BY <1>1, <1>2

LEMMA StopCaptureDoneKeeps ==
  ASSUME IInv, StopCaptureDone
  PROVE  IInv' /\ (ops' = ops \/ PrunedStep)
<1> USE DEF StopCaptureDone, runtime, link
<1>1. /\ ops' = ops \/ PrunedStep
      /\ ops' \in [DOMAIN ops' -> Operations] /\ DOMAIN ops' \subseteq 1 .. nextId' - 1
      /\ \A i \in DOMAIN ops' : ops'[i].state = "Running" =>
           i \in DOMAIN ops /\ ops[i].state = "Running" /\ ops'[i].owner # "ppk2"
  <2>1. CASE ~Closed /\ IsRunning(draining)
    <3>1. ops' = Ended(draining, "Stopped") /\ nextId' = nextId
      BY <2>1
    <3>2. /\ PrunedStep
          /\ \A i \in DOMAIN ops' : i # draining => ops'[i] = ops[i]
          /\ draining \in DOMAIN ops' => ops'[draining].state # "Running"
          /\ DOMAIN ops' \subseteq DOMAIN ops
      BY <2>1, <3>1, EndedPrunes DEF Ending, IInv
    <3>3. \A i \in DOMAIN ops : i # draining => ~(ops[i].owner = "ppk2" /\ ops[i].state = "Running")
      BY CaptureAssumption DEF IInv, CaptureIsOwned, Served, TypeOK
    <3> QED
      BY <3>2, <3>3, PrunedIsTyped DEF IInv
  <2>2. CASE ~(~Closed /\ IsRunning(draining))
    <3>1. ops' = ops
      BY <2>2
    <3>2. \A i \in DOMAIN ops : ~(ops[i].owner = "ppk2" /\ ops[i].state = "Running")
      BY <2>2, CaptureAssumption DEF IInv, CaptureIsOwned, Served, TypeOK, IsRunning
    <3> QED
      BY <3>1, <3>2 DEF IInv, TypeOK
  <2> QED
    BY <2>1, <2>2
<1>2. TypeOK'
  BY <1>1 DEF IInv, TypeOK
<1>3. CaptureIsOwned' /\ OwnSamples' /\ Served' /\ Drains'
  BY <1>1 DEF IInv, CaptureIsOwned, OwnSamples, Served, Drains, Closed
<1> QED
  BY <1>1, <1>2, <1>3 DEF IInv

LEMMA OperationKeeps ==
  ASSUME IInv, OperationStart \/ \E o \in DOMAIN ops : OperationStop(o)
  PROVE  IInv' /\ PrunedStep
<1> USE DEF runtime, link, service
<1>1. CASE OperationStart
  <2> USE <1>1 DEF OperationStart
  <2>1. /\ PrunedStep
        /\ \A i \in DOMAIN ops' : ops'[i] = IF i = nextId
             THEN [owner |-> "browser", state |-> "Running", received |-> 0] ELSE ops[i]
        /\ DOMAIN ops' \subseteq DOMAIN ops \cup {nextId}
    BY StartedPrunes DEF IInv
  <2>2. TypeOK'
    BY <2>1, PrunedIsTyped DEF IInv, TypeOK
  <2>3. CaptureIsOwned' /\ OwnSamples' /\ Served' /\ Drains'
    BY <2>1 DEF IInv, CaptureIsOwned, OwnSamples, Served, Drains, Closed
  <2> QED
    BY <2>1, <2>2, <2>3 DEF IInv
<1>2. ASSUME NEW o \in DOMAIN ops, OperationStop(o) PROVE IInv' /\ PrunedStep
  <2> USE <1>2 DEF OperationStop
  <2>1. /\ PrunedStep
        /\ \A i \in DOMAIN ops' : i # o => ops'[i] = ops[i]
        /\ o \in DOMAIN ops' => ops'[o].state # "Running"
        /\ DOMAIN ops' \subseteq DOMAIN ops
    BY EndedPrunes DEF IInv, Ending
  <2>2. TypeOK'
    BY <2>1, PrunedIsTyped DEF IInv, TypeOK
  <2>3. CaptureIsOwned' /\ OwnSamples' /\ Served' /\ Drains'
    BY <2>1 DEF IInv, CaptureIsOwned, OwnSamples, Served, Drains, Closed
  <2> QED
    BY <2>1, <2>2, <2>3 DEF IInv
<1> QED
  BY <1>1, <1>2

\* Subscriptions and the shutdown.
LEMMA SubscribeKeeps ==
  ASSUME IInv, NEW c \in Clients, Subscribe(c)
  PROVE  IInv'
<1> USE DEF Subscribe, link, service, ledger, runtime
<1>1. CASE subs = {}
  BY <1>1 DEF RuntimeStart, IInv, TypeOK, CaptureIsOwned, OwnSamples, Served, Drains, Closed
<1>2. CASE subs # {}
  BY <1>2 DEF IInv, TypeOK, CaptureIsOwned, OwnSamples, Served, Drains, Closed
<1> QED
  BY <1>1, <1>2

LEMMA ShutdownKeeps ==
  ASSUME IInv, Shutdown
  PROVE  IInv' /\ PrunedStep
<1> USE DEF Shutdown, runtime, service, AverageStop
<1>1. PrunedStep /\ \A i \in DOMAIN ops' : ops'[i].state # "Running"
  BY StoppedAllPrunes DEF IInv
<1>2. TypeOK'
  BY <1>1, PrunedIsTyped DEF IInv, TypeOK
<1>3. CaptureIsOwned' /\ OwnSamples' /\ Served' /\ Drains'
  BY <1>1 DEF IInv, CaptureIsOwned, OwnSamples, Served, Drains, Closed
<1> QED
  BY <1>1, <1>2, <1>3 DEF IInv

LEMMA DownKeeps ==
  ASSUME IInv, Down \/ UNCHANGED vars
  PROVE  IInv'
<1> USE DEF IInv, TypeOK, CaptureIsOwned, OwnSamples, Served, Drains, Closed,
            runtime, link, service, ledger
<1>1. CASE Down
  BY <1>1 DEF Down
<1>2. CASE UNCHANGED vars
  BY <1>2 DEF vars
<1> QED
  BY <1>1, <1>2

\* What a step does to the list.
ListStep ==
  \/ ops' = ops /\ nextId' = nextId
  \/ PrunedStep
  \/ CountStep

LEMMA StepKeepsIInv == IInv /\ [Next]_vars => IInv' /\ ListStep
<1> SUFFICES ASSUME IInv, [Next]_vars PROVE IInv' /\ ListStep
  OBVIOUS
<1> USE DEF ListStep
<1>1. CASE \/ Connect \/ UsbConnected \/ Drained \/ Ready \/ RetryDelayOver \/ StopDone
           \/ SocketCloses \/ StreamDries \/ CreateFails \/ Fail \/ HalfClose
  <2>1. ops' = ops /\ nextId' = nextId
    BY <1>1 DEF Connect, UsbConnected, Drained, Ready, RetryDelayOver, StopDone, SocketCloses,
                StreamDries, CreateFails, Fail, HalfClose, ledger
  <2> QED
    BY <1>1, <2>1, LoopKeeps
<1>2. CASE EndSession
  BY <1>2, EndSessionKeeps DEF EndSession
<1>3. CASE Batch
  BY <1>3, BatchKeeps DEF Batch
<1>4. CASE StartCapture
  BY <1>4, StartCaptureKeeps
<1>5. CASE StopCapture
  BY <1>5, StopCaptureKeeps DEF StopCapture
<1>6. CASE OperationStart \/ \E o \in DOMAIN ops : OperationStop(o)
  BY <1>6, OperationKeeps
<1>7. CASE StopCaptureDone
  BY <1>7, StopCaptureDoneKeeps DEF StopCaptureDone
<1>8. CASE Shutdown
  BY <1>8, ShutdownKeeps
<1>9. CASE CloseService
  BY <1>9, CloseServiceKeeps DEF CloseService
<1>10. CASE Down \/ UNCHANGED vars
  BY <1>10, DownKeeps DEF Down, vars, ledger
<1>11. ASSUME NEW c \in Clients, Subscribe(c) PROVE IInv' /\ ListStep
  BY <1>11, SubscribeKeeps DEF Subscribe, ledger
<1>12. ASSUME NEW c \in Clients, Unsubscribe(c) PROVE IInv' /\ ListStep
  BY <1>12, UnsubscribeKeeps DEF Unsubscribe
<1> QED
  BY <1>1, <1>2, <1>3, <1>4, <1>5, <1>6, <1>7, <1>8, <1>9, <1>10, <1>11, <1>12
     DEF Next, LoopStep, Request, Server

LEMMA Invariance == Spec => []IInv
<1>1. IInv /\ [Next]_vars => IInv'
  BY StepKeepsIInv
<1> QED
  BY <1>1, InitIInv, PTL DEF Spec

-----------------------------------------------------------------------------
(* The theorems.                                                           *)

\* Type invariant of the capture.
THEOREM TypeCorrect == Spec => []TypeOK
<1>1. IInv => TypeOK
  BY DEF IInv
<1> QED
  BY <1>1, Invariance, PTL

\* No failure, stop of the runtime, stop in the list or shutdown leaves a capture
\* Running that nobody will end (Ppk2Service, Ppk2Runtime.stop), whatever the
\* number of browsers, operations and failures.
THEOREM CapturesAreOwned == Spec => []CaptureIsOwned
<1>1. IInv => CaptureIsOwned
  BY DEF IInv
<1> QED
  BY <1>1, Invariance, PTL

\* An operation counts its own samples only, as long as every capture ended with
\* its drain delay (Ppk2Runtime.stopMeasurement, createSession).
THEOREM SamplesAreOwn == Spec => []OwnSamples
<1>1. IInv => OwnSamples
  BY DEF IInv
<1> QED
  BY <1>1, Invariance, PTL

\* A step of the list is a step of the ledger or changes nothing in it.
LEMMA ListStepOfLedger ==
  ASSUME TypeOK, TypeOK', ListStep
  PROVE  Ledger!Next \/ UNCHANGED Book
<1>1. CASE ops' = ops /\ nextId' = nextId
  BY <1>1 DEF Book
<1>2. CASE PrunedStep
  BY <1>2, PrunedStepOfLedger
<1>3. CASE CountStep
  <2>1. active \in DOMAIN ops /\ active \in Ids /\ DOMAIN ops' = DOMAIN ops /\ nextId' = nextId
    BY <1>3, CaptureAssumption DEF CountStep, IsRunning, TypeOK, Ids
  <2>2. \A i \in Ids : i # active => Book'[i] = Book[i]
    BY <1>3, <2>1 DEF CountStep, Book, Ids
  <2>3. /\ Book[active].phase = "Running" /\ Book'[active].phase = "Running"
        /\ Book'[active].received = Book[active].received + 1
        /\ Book[active].received \in Nat
    BY <1>3, <2>1, CaptureAssumption DEF CountStep, Book, Ids, IsRunning, TypeOK, Operations
  <2>4. Ledger!Progress(active)
    BY <2>3 DEF Ledger!Progress
  <2>5. {i \in Ids : Book[i] = Ledger!NewEntry /\ Book'[i] # Ledger!NewEntry} = {}
    BY <2>2, <2>3 DEF Ledger!NewEntry
  <2>6. Cardinality({i \in Ids : Book[i] = Ledger!NewEntry /\ Book'[i] # Ledger!NewEntry}) <= 1
    BY <2>5, FS_EmptySet
  <2>7. Book' \in [Ids -> Ledger!Entries]
    <3>1. (TypeOK => Book \in [Ids -> Ledger!Entries])'
      BY BookTyped, PTL
    <3> QED
      BY <3>1 DEF Ids, Ledger!Entries, Ledger!Phases
  <2>8. \A i \in Ids : Book'[i] = Book[i] \/ Ledger!Progress(i)
    BY <2>2, <2>4
  <2> QED
    BY <2>6, <2>7, <2>8, LedgerCardinality DEF Ledger!Next, Ids
<1> QED
  BY <1>1, <1>2, <1>3 DEF ListStep

\* The service, the runtime and the browsers implement the ledger of the
\* acquisition operations (AcquisitionService).
THEOREM ImplementsLedger == Spec => LedgerSpec
<1>1. Init => Ledger!Init
  <2>1. ASSUME Init PROVE Book = [i \in Ids |-> Ledger!NewEntry]
    <3>1. DOMAIN ops = {} /\ nextId = 1
      BY <2>1 DEF Init
    <3>2. \A i \in Ids : ~(i < nextId)
      BY <3>1, CaptureAssumption DEF Ids
    <3> QED
      BY <3>1, <3>2 DEF Book, Ids, Ledger!NewEntry
  <2> QED
    BY <2>1 DEF Ledger!Init, Ids
<1>2. IInv /\ IInv' /\ [Next]_vars => [Ledger!Next]_Book
  BY StepKeepsIInv, ListStepOfLedger DEF IInv
<1> QED
  BY <1>1, <1>2, Invariance, PTL DEF Spec, LedgerSpec, Ledger!Spec
=============================================================================
