------------------------------ MODULE Ppk2Capture ------------------------------
(***************************************************************************)
(* Who starts a PPK2 capture and what ends it: Ppk2Runtime (the TCP        *)
(* session with the bridge, started by the first subscriber and stopped by *)
(* the last one), Ppk2Service (the capture), AcquisitionService (the       *)
(* operations browsers see), their WebSocket adapters and the shutdown of  *)
(* server.ts.  What a capture does with its samples is in Ppk2Stream.tla:  *)
(* here a batch is a step, and a batch is of the current measurement or of *)
(* an older one whose bytes are still on the way.                          *)
(*                                                                         *)
(* A mutation of Ppk2Service waits for the one before: a request that      *)
(* comes while another drains is a request that comes later.  Likewise the *)
(* registry starts no runtime that still stops (InstrumentLifecycle.tla).  *)
(***************************************************************************)
EXTENDS Naturals, FiniteSets, Functions

CONSTANTS
  None,
  Clients,      \* browsers
  MaxOps,       \* bound: operations started
  MaxRetained,  \* maxRetainedTerminalOperations (64 in the code)
  MaxBatches,   \* bound: batches an operation counts
  MaxFaults     \* bound: failures of the bridge or the device

ASSUME CaptureAssumption ==
  /\ {MaxOps, MaxRetained, MaxBatches, MaxFaults} \subseteq Nat
  /\ None \notin Nat

VARIABLES
  subs,       \* the browsers subscribed to the PPK2
  phase,      \* "up", "closing": Ppk2Service.close(), "stopping", "down"
  running,    \* Ppk2Runtime.running
  stopping,   \* a call of Ppk2Runtime.stop() waits for the loop
  loop,       \* runLoop: "none", "connecting", a phase of createSession, "serving"
              \* or "delay"
  session,    \* Ppk2Runtime.session # null
  failed,     \* the failure signal of the session has fired
  writable,   \* its socket takes commands
  measuring,  \* session.measuring
  averaging,  \* the device measures
  stale,      \* bytes of an ended measurement are still on the way
  active,     \* Ppk2Service.activeOperationId
  draining,   \* the operation whose stopCapture waits for the drain delay
  ops,        \* AcquisitionService.operations
  nextId,     \* AcquisitionService.nextId
  foreign,    \* history: an operation counted samples of an older measurement
  undrained,  \* history: a refused batch ended a capture, with no drain delay
  faults

runtime == <<running, stopping, loop, session>>
link    == <<failed, writable, measuring, averaging, stale>>
service == <<active, draining>>
ledger  == <<ops, nextId>>
vars    == <<subs, phase, runtime, link, service, ledger, foreign, undrained, faults>>

Closed == phase # "up"  \* AcquisitionService.closed and Ppk2Service.closed

-----------------------------------------------------------------------------
(* AcquisitionService.                                                     *)

IsRunning(o) == o \in DOMAIN ops /\ ops[o].state = "Running"

\* Mutant: the youngest operations are forgotten.
PruneYoungest(f) ==
  LET terminal == {i \in DOMAIN f : f[i].state # "Running"}
  IN Restrict(f, {i \in DOMAIN f :
       i \in terminal => Cardinality({j \in terminal : j < i}) < MaxRetained})

\* pruneTerminalOperations: the oldest are forgotten.
Prune(f) ==
  LET terminal == {i \in DOMAIN f : f[i].state # "Running"}
  IN Restrict(f, {i \in DOMAIN f :
       i \in terminal => Cardinality({j \in terminal : j > i}) < MaxRetained})

\* start, with the state the operation has when the caller is done
Started(owner, state) ==
  Prune([i \in DOMAIN ops \cup {nextId} |->
           IF i = nextId THEN [owner |-> owner, state |-> state, received |-> 0] ELSE ops[i]])

\* stop and fail of a running operation
Ended(o, state) == Prune([ops EXCEPT ![o].state = state])

\* close
StoppedAll ==
  Prune([i \in DOMAIN ops |->
           IF ops[i].state = "Running" THEN [ops[i] EXCEPT !.state = "Stopped"] ELSE ops[i]])

\* A browser starts an operation that has no producer.
OperationStart ==
  /\ ~Closed /\ nextId <= MaxOps
  /\ ops' = Started("browser", "Running")
  /\ nextId' = nextId + 1
  /\ UNCHANGED <<subs, phase, runtime, link, service, foreign, undrained, faults>>

\* A browser stops any operation of the list, a capture too.
OperationStop(o) ==
  /\ ~Closed /\ IsRunning(o)
  /\ ops' = Ended(o, "Stopped")
  /\ UNCHANGED <<subs, phase, runtime, link, service, nextId, foreign, undrained, faults>>

-----------------------------------------------------------------------------
(* Ppk2Service, as far as it is called back.                               *)

\* Mutant: the operation is left as it is.
FailServiceOnly == active' = None /\ UNCHANGED ops

\* failActiveCapture
FailActiveCapture ==
  /\ active' = None
  /\ ops' = IF active # None /\ IsRunning(active) THEN Ended(active, "Failed") ELSE ops

\* stopMeasurement of a session that measures, and of one whose socket throws
AverageStop ==
  IF measuring /\ writable
  THEN measuring' = FALSE /\ averaging' = FALSE /\ stale' = TRUE
  ELSE UNCHANGED <<measuring, averaging, stale>>

\* stopRuntimeMeasurementAfterFailure: the drain is not waited for.
StopAfterFailure == AverageStop /\ undrained' = TRUE

\* serializeMutation: captures start and stop one at a time.
Turn == subs # {} /\ ~Closed /\ draining = None

-----------------------------------------------------------------------------
(* Ppk2Runtime.                                                            *)

\* start
RuntimeStart ==
  /\ running' = TRUE
  /\ loop' = "connecting"
  /\ UNCHANGED <<stopping, session>>

\* stop: the loop sees it at its next step; a retry delay ends at once.
RuntimeStop ==
  /\ running' = FALSE
  /\ session' = FALSE
  /\ loop' = IF loop = "delay" THEN "none" ELSE loop
  /\ stopping' = TRUE
  /\ FailActiveCapture

\* The loop has ended, and the call of stop() with it.
StopDone ==
  /\ stopping /\ loop = "none"
  /\ stopping' = FALSE
  /\ UNCHANGED <<subs, phase, running, loop, session, link, service, ledger, foreign,
                 undrained, faults>>

\* The socket connects.
Connect ==
  /\ loop = "connecting" /\ running
  /\ loop' = "awaiting-usb"
  /\ failed' = FALSE /\ writable' = TRUE /\ measuring' = FALSE
  /\ UNCHANGED <<subs, phase, running, stopping, session, averaging, stale, service, ledger,
                 foreign, undrained, faults>>

\* The status frame of the bridge; the device is told to stop.
UsbConnected ==
  /\ loop = "awaiting-usb" /\ running /\ writable
  /\ loop' = "draining"
  /\ averaging' = FALSE
  /\ UNCHANGED <<subs, phase, running, stopping, session, failed, writable, measuring, stale,
                 service, ledger, foreign, undrained, faults>>

\* Mutant: the metadata is asked for, and a capture may start, at once.
DrainSkipped ==
  /\ loop = "draining" /\ running /\ writable
  /\ loop' = "metadata"
  /\ UNCHANGED <<subs, phase, running, stopping, session, link, service, ledger, foreign,
                 undrained, faults>>

\* The drain delay outlasts the bytes on the way.
Drained ==
  /\ loop = "draining" /\ running /\ writable /\ ~stale
  /\ loop' = "metadata"
  /\ UNCHANGED <<subs, phase, running, stopping, session, link, service, ledger, foreign,
                 undrained, faults>>

\* The metadata is complete, the device is configured: the session is used,
\* even if it failed meanwhile.
Ready ==
  /\ loop = "metadata" /\ running /\ writable
  /\ loop' = "serving"
  /\ session' = TRUE
  /\ UNCHANGED <<subs, phase, running, stopping, link, service, ledger, foreign, undrained,
                 faults>>

\* createSession fails: a refused connection, a timeout, lost metadata.  After
\* stop() it always fails, as its socket is destroyed.
CreateFails ==
  /\ loop \in {"connecting", "awaiting-usb", "draining", "metadata"}
  /\ IF running /\ writable /\ ~failed
     THEN faults < MaxFaults /\ faults' = faults + 1 ELSE UNCHANGED faults
  /\ loop' = IF running THEN "delay" ELSE "none"
  /\ UNCHANGED <<subs, phase, running, stopping, session, link, service, ledger, foreign,
                 undrained>>

RetryDelayOver ==
  /\ loop = "delay"
  /\ loop' = "connecting"
  /\ writable' = TRUE /\ failed' = FALSE
  /\ UNCHANGED <<subs, phase, running, stopping, session, measuring, averaging, stale,
                 service, ledger, foreign, undrained, faults>>

HasSocket == loop \in {"awaiting-usb", "draining", "metadata", "serving"}

\* The USB device goes, the bridge's session changes, or bytes are lost where
\* they must not be (acceptFrame, Ppk2StreamDecoder.push).
Fail ==
  /\ HasSocket /\ ~failed /\ faults < MaxFaults
  /\ failed' = TRUE
  /\ faults' = faults + 1
  /\ UNCHANGED <<subs, phase, runtime, writable, measuring, averaging, stale, service, ledger,
                 foreign, undrained>>

\* The bridge ends its side of the connection: the socket takes no command any
\* more, and closes later.
HalfClose ==
  /\ HasSocket /\ writable /\ faults < MaxFaults
  /\ writable' = FALSE
  /\ faults' = faults + 1
  /\ UNCHANGED <<subs, phase, runtime, failed, measuring, averaging, stale, service, ledger,
                 foreign, undrained>>

SocketCloses ==
  /\ HasSocket /\ ~writable /\ ~failed
  /\ failed' = TRUE
  /\ UNCHANGED <<subs, phase, runtime, writable, measuring, averaging, stale, service, ledger,
                 foreign, undrained, faults>>

\* The loop takes a session away that failed or was stopped.
EndSession ==
  /\ loop = "serving" /\ (failed \/ ~running)
  /\ session' = FALSE
  /\ loop' = IF running THEN "delay" ELSE "none"
  /\ measuring' = FALSE /\ stale' = (stale \/ averaging)
  /\ IF running THEN FailActiveCapture ELSE UNCHANGED <<active, ops>>
  /\ UNCHANGED <<subs, phase, running, stopping, failed, writable, averaging, draining, nextId,
                 foreign, undrained, faults>>

\* The last bytes of an ended measurement have come, or are lost.
StreamDries ==
  /\ stale /\ ~averaging
  /\ stale' = FALSE
  /\ UNCHANGED <<subs, phase, runtime, failed, writable, measuring, averaging, service, ledger,
                 foreign, undrained, faults>>

-----------------------------------------------------------------------------
(* Ppk2Service: requests, batches and close.                               *)

\* Mutant: a batch whose operation runs no longer is ignored.
BatchOfRunning ==
  /\ loop = "serving" /\ session /\ measuring /\ active # None
  /\ averaging \/ stale
  /\ IsRunning(active) /\ ops[active].received < MaxBatches
  /\ ops' = [ops EXCEPT ![active].received = @ + 1]
  /\ foreign' \in {foreign, foreign \/ stale}
  /\ UNCHANGED <<subs, phase, runtime, link, service, nextId, undrained, faults>>

\* acceptBatch.  An operation that runs no longer refuses the progress, which
\* ends the capture and stops the device without waiting for the drain.
Batch ==
  /\ loop = "serving" /\ session /\ measuring /\ active # None
  /\ averaging \/ stale
  /\ IF IsRunning(active)
     THEN /\ ops[active].received < MaxBatches
          /\ ops' = [ops EXCEPT ![active].received = @ + 1]
          /\ foreign' \in {foreign, foreign \/ stale}
          /\ UNCHANGED <<link, active, undrained>>
     ELSE /\ FailActiveCapture
          /\ StopAfterFailure
          /\ UNCHANGED <<failed, writable, foreign>>
  /\ UNCHANGED <<subs, phase, runtime, draining, nextId, faults>>

\* startCapture.  Of a session that measures already, or takes no command, the
\* operation fails at once.
StartCapture ==
  /\ Turn /\ nextId <= MaxOps
  /\ active = None /\ session
  /\ IF measuring \/ ~writable
     THEN ops' = Started("ppk2", "Failed") /\ UNCHANGED <<active, measuring, averaging>>
     ELSE /\ ops' = Started("ppk2", "Running")
          /\ active' = nextId
          /\ measuring' = TRUE /\ averaging' = TRUE
  /\ nextId' = nextId + 1
  /\ UNCHANGED <<subs, phase, runtime, failed, writable, stale, draining, foreign, undrained,
                 faults>>

\* stopCapture, as far as the drain delay of stopMeasurement.
StopCapture ==
  /\ Turn /\ active # None /\ session
  /\ AverageStop
  /\ IF measuring /\ ~writable
     THEN FailActiveCapture /\ UNCHANGED draining
     ELSE draining' = active /\ UNCHANGED <<active, ops>>
  /\ UNCHANGED <<subs, phase, runtime, failed, writable, nextId, foreign, undrained, faults>>

\* The rest of stopCapture.  The operation may have ended meanwhile, by another
\* hand: stop() of the acquisitions then throws.
StopCaptureDone ==
  /\ draining # None /\ ~stale
  /\ draining' = None
  /\ active' = None
  /\ ops' = IF ~Closed /\ IsRunning(draining) THEN Ended(draining, "Stopped") ELSE ops
  /\ UNCHANGED <<subs, phase, runtime, link, nextId, foreign, undrained, faults>>

-----------------------------------------------------------------------------
(* WebSocketGateway and server.ts.                                         *)

\* The first subscriber starts the runtime.
Subscribe(c) ==
  /\ ~Closed /\ c \notin subs /\ ~stopping
  /\ subs' = subs \cup {c}
  /\ IF subs = {} THEN RuntimeStart ELSE UNCHANGED runtime
  /\ UNCHANGED <<phase, link, service, ledger, foreign, undrained, faults>>

\* The last one stops it: it unsubscribes, or its socket closes.
Unsubscribe(c) ==
  /\ ~Closed /\ c \in subs
  /\ subs' = subs \ {c}
  /\ IF subs = {c} THEN RuntimeStop ELSE UNCHANGED <<runtime, active, ops>>
  /\ UNCHANGED <<phase, link, draining, nextId, foreign, undrained, faults>>

\* acquisitionService.close(), then ppk2Service.close() as far as its drain.
Shutdown ==
  /\ phase = "up"
  /\ phase' = "closing"
  /\ ops' = StoppedAll
  /\ IF active # None /\ session THEN AverageStop ELSE UNCHANGED <<measuring, averaging, stale>>
  /\ UNCHANGED <<subs, runtime, failed, writable, service, nextId, foreign, undrained, faults>>

\* The rest of ppk2Service.close(): the capture ends and the runtime stops.
CloseService ==
  /\ phase = "closing"
  /\ phase' = "stopping"
  /\ IF running \/ loop # "none" THEN RuntimeStop ELSE UNCHANGED <<runtime, active, ops>>
  /\ UNCHANGED <<subs, link, draining, nextId, foreign, undrained, faults>>

\* gateway.close() and instruments.stopAll() find the runtime stopped.
Down ==
  /\ phase = "stopping" /\ ~stopping
  /\ phase' = "down"
  /\ subs' = {}
  /\ UNCHANGED <<runtime, link, service, ledger, foreign, undrained, faults>>

-----------------------------------------------------------------------------
Init ==
  /\ subs = {} /\ phase = "up"
  /\ running = FALSE /\ stopping = FALSE /\ loop = "none" /\ session = FALSE
  /\ failed = FALSE /\ writable = TRUE /\ measuring = FALSE
  /\ averaging \in BOOLEAN /\ stale = averaging
  /\ active = None /\ draining = None
  /\ ops = [i \in {} |-> None] /\ nextId = 1
  /\ foreign = FALSE /\ undrained = FALSE /\ faults = 0

LoopStep ==
  \/ Connect \/ UsbConnected \/ Drained \/ Ready \/ RetryDelayOver \/ EndSession
  \/ StopDone \/ SocketCloses \/ StreamDries

Request == StartCapture \/ StopCapture \/ OperationStart \/ \E o \in DOMAIN ops : OperationStop(o)
Server  == Shutdown \/ CloseService \/ Down

Next ==
  \/ LoopStep \/ CreateFails \/ Fail \/ HalfClose
  \/ Batch \/ Request \/ StopCaptureDone \/ Server
  \/ \E c \in Clients : Subscribe(c) \/ Unsubscribe(c)

Spec == Init /\ [][Next]_vars

\* The loop and the timers go on, a device that measures sends, an initialisation
\* without an answer times out; nobody has to ask for anything.
Fairness ==
  /\ WF_vars(LoopStep) /\ WF_vars(CreateFails /\ ~running) /\ WF_vars(CreateFails /\ ~writable)
  /\ WF_vars(Batch) /\ WF_vars(StopCaptureDone) /\ WF_vars(CloseService) /\ WF_vars(Down)

FairSpec == Spec /\ Fairness

-----------------------------------------------------------------------------
(* Properties.                                                             *)

Operations == [owner : {"ppk2", "browser"}, state : {"Running", "Stopped", "Failed"},
               received : 0 .. MaxBatches]

\* Type invariant of all variables.
TypeOK ==
  /\ subs \subseteq Clients /\ phase \in {"up", "closing", "stopping", "down"}
  /\ {running, stopping, session, failed, writable, measuring, averaging, stale} \subseteq BOOLEAN
  /\ loop \in {"none", "connecting", "awaiting-usb", "draining", "metadata", "serving", "delay"}
  /\ {active, draining} \subseteq {None} \cup 1 .. MaxOps
  /\ nextId \in 1 .. MaxOps + 1 /\ DOMAIN ops \subseteq 1 .. nextId - 1
  /\ ops \in [DOMAIN ops -> Operations]
  /\ faults \in 0 .. MaxFaults

\* A capture that runs has somebody to end it: it is the service's active one,
\* its session is the runtime's, and the device measures for it or is about to
\* be drained.  So no failure, stop of the runtime, stop of the list or shutdown
\* leaves an operation that is Running for ever (acceptConnection, acceptBatch,
\* failActiveCapture, Ppk2Runtime.stop).
CaptureIsOwned ==
  /\ \A o \in DOMAIN ops : ops[o].owner = "ppk2" /\ ops[o].state = "Running" => active = o
  /\ active # None => session /\ (measuring \/ draining = active \/ Closed)

\* An operation counts samples of its own measurement only, as long as no
\* batch was refused after its operation had been stopped in the list: the drain
\* delays of stopCapture and of createSession see to it.
OwnSamples == foreign => undrained

\* The operations as AcquisitionLedger has them: one that is not in the map is
\* new or forgotten.
Book ==
  [i \in 1 .. MaxOps |->
     IF i \in DOMAIN ops THEN [phase |-> ops[i].state, received |-> ops[i].received]
     ELSE [phase |-> IF i < nextId THEN "forgotten" ELSE "new", received |-> 0]]

Ledger == INSTANCE AcquisitionLedger WITH Ids <- 1 .. MaxOps, book <- Book

\* Every step of the service, the runtime and the browsers is a step of the
\* ledger: numbers in order, progress only of what runs, one end, nothing
\* forgotten early (AcquisitionService).
LedgerSpec == Ledger!Spec

\* A capture whose operation was ended in the list does not hold the service
\* for ever: the next samples, or the loss of the session, free it.
StaleCaptureIsFreed ==
  (active # None /\ ~IsRunning(active)) ~> (active = None \/ IsRunning(active))

\* A shutdown comes to its end.
ShutdownEnds == phase = "closing" ~> phase = "down"

\* docs/acquisition-operations.md: a running operation survives the unsubscribe
\* of the instrument and the close of the browser (violated: the last one to
\* leave stops the runtime, and that ends the capture).
OutlivesBrowsers == [][subs' # subs /\ phase' = "up" => ops' = ops]_vars
=============================================================================
