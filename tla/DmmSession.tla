------------------------------ MODULE DmmSession ------------------------------
(***************************************************************************)
(* The multimeter: DmmRuntime (the session), DmmPoller, DmmStateStore,     *)
(* DmmService (what browsers are told, and their controls one by one) and  *)
(* Dm858eDriver (the queries an operation of the scheduler consists of).   *)
(*                                                                         *)
(* The scheduler runs one operation at a time (ScpiScheduler.tla), but the *)
(* meter has a front panel: it may be turned between two queries of one    *)
(* operation.  Each function of the meter keeps a range of its own; its    *)
(* rate is left out but for being one the driver knows.  A reading is the  *)
(* configuration it was measured with and the one it is labelled with.     *)
(***************************************************************************)
EXTENDS Naturals, Sequences

CONSTANTS
  None,
  Functions,      \* DmmMeasurementFunction
  ByConfigure,    \* those whose rate is written with CONFigure: AC voltage and current
  Ranges,
  Controls,       \* DmmControlChange, or a raw command, as browsers send them
  MaxEvents       \* bound: turns at the front panel, requests, faults and stops

Configs == [fn : Functions, range : Ranges]

AllControls ==
  [kind : {"function"}, fn : Functions] \cup [kind : {"rate"}, fn : Functions]
    \cup [kind : {"range"}, fn : Functions, range : Ranges] \cup [kind : {"raw"}]

\* What a query of the driver may have answered.
Seen == {None} \cup Functions \cup Configs \cup Ranges

\* An operation of the scheduler: whose it is, what it does, the query that is
\* next, what it has seen and measured, and the turns of the panel meanwhile.
Operations ==
  [who : {"create", "poller", "request"}, does : {"state", "reading", "write"}, step : 1 .. 4,
   seen : Seen, by : {None} \cup Configs, turned : 0 .. 2]

ASSUME DmmAssumption ==
  /\ ByConfigure \subseteq Functions /\ MaxEvents \in Nat
  /\ Ranges # {} /\ Controls \subseteq AllControls
  /\ None \notin Configs /\ None \notin Operations

VARIABLES
  meter,       \* the instrument: function, ranges, and the functions with a rate of no name
  link,        \* the transport is usable
  running,     \* DmmRuntime.running
  loop,        \* runLoop: "none", "connecting", "initial", "serving", "disposing", "delay"
  session,     \* DmmRuntime.session # null
  failed,      \* the failure signal of the session has fired
  store,       \* the state in the session's DmmStateStore
  polling,     \* DmmPoller.running
  poller,      \* its loop: "off", "wait", or the operation it wants, "state", "reading"
  wanted,      \* the function of the store when it asked for a reading
  op,          \* the operation of the scheduler that executes
  line,        \* the mutations: the first one runs, the others await mutationTail
  connection,  \* DmmService.connection: its state, None while disconnected
  snapshot,    \* DmmService.currentSnapshot
  outdated,    \* history: the state changed after the last reading was accepted
  events       \* how many of those there were

runtime == <<link, running, loop, session, failed, store>>
polls   == <<polling, poller, wanted>>
service == <<connection, snapshot>>
vars    == <<meter, runtime, polls, op, line, service, outdated, events>>

Config(m) == [fn |-> m.fn, range |-> m.range[m.fn]]
Meters    == [fn : Functions, range : [Functions -> Ranges], odd : SUBSET Functions]

\* What a turn, or a raw command, may do to the meter.
Edits(m) ==
  {[m EXCEPT !.fn = f] : f \in Functions} \cup {[m EXCEPT !.range[m.fn] = r] : r \in Ranges}
    \cup {[m EXCEPT !.odd = @ \cup {m.fn}], [m EXCEPT !.odd = @ \ {m.fn}]}

-----------------------------------------------------------------------------
(* DmmService: what it accepts of the runtime.                             *)

Value(label, by, turned) == [kind |-> "Value", label |-> label, by |-> by, turned |-> turned]
Unavailable(fn) == [kind |-> "Unavailable", label |-> fn]

\* acceptConnection of a disconnection
Disconnected == connection' = None /\ snapshot' = None /\ outdated' = FALSE

\* Mutant: the retained reading survives the change.
AcceptStateOnly(s) == connection' = s /\ UNCHANGED snapshot

\* acceptState: a retained reading is invalidated.
AcceptState(s) ==
  /\ connection' = s
  /\ snapshot' = IF snapshot = None THEN None ELSE Unavailable(s.fn)

\* Mutant: a state of the same function is taken for the same state.
ReplaceOther(s) ==
  /\ store' = IF s.fn = store.fn THEN store ELSE s
  /\ IF s.fn # store.fn /\ session
     THEN AcceptState(s) /\ outdated' = TRUE
     ELSE UNCHANGED <<service, outdated>>

\* replaceState and the subscription of createSession
ReplaceState(s) ==
  /\ store' = s
  /\ IF s # store /\ session
     THEN AcceptState(s) /\ outdated' = TRUE
     ELSE UNCHANGED <<service, outdated>>

\* publishSnapshot of createSession, and acceptSnapshot
AcceptSnapshot(s, fn) ==
  IF session /\ fn = store.fn /\ connection # None /\ fn = connection.fn
  THEN snapshot' = s /\ outdated' = FALSE /\ UNCHANGED connection
  ELSE UNCHANGED <<service, outdated>>

-----------------------------------------------------------------------------
(* The operations of Dm858eDriver, query by query.                         *)

Begun(who, does) ==
  [who |-> who, does |-> does, step |-> 1, seen |-> None, by |-> None, turned |-> 0]

\* The operation after a query that has seen, or measured, something.
Saw(o, step, seen)    == [o EXCEPT !.step = step, !.seen = seen]
Measured(o, step, by) == [o EXCEPT !.step = step, !.by = by]

\* The mutation that runs wants an operation.
Ready == line # <<>> /\ line[1].ready

\* takeNext: a mutation's operation before one of the poller.
Begin(who, does) ==
  /\ op = None /\ link
  /\ who = "poller" => ~Ready
  /\ op' = Begun(who, does)
  /\ UNCHANGED <<meter, runtime, polls, line, service, outdated, events>>

BeginCreate  == loop = "initial" /\ Begin("create", "state")
BeginPoll    == poller \in {"state", "reading"} /\ Begin("poller", poller)
BeginRequest == /\ Ready
                /\ Begin("request", IF line[1].stage = "write" THEN "write" ELSE "state")

\* The first query of readDmmState: the function.
QueryFunction ==
  /\ op # None /\ link /\ op.does = "state" /\ op.step = 1
  /\ op' = Saw(op, 2, meter.fn)
  /\ UNCHANGED <<meter, runtime, polls, line, service, outdated, events>>

\* readAcquisitionRate: what the panel or a raw command set may have no name.
RateHasName(fn) == fn \notin meter.odd

\* The rest of it: the state read.  A rate of no name is an error.
StateRead  == op # None /\ link /\ op.does = "state" /\ op.step = 2 /\ RateHasName(op.seen)
StateError == op # None /\ link /\ op.does = "state" /\ op.step = 2 /\ ~RateHasName(op.seen)
ReadState  == [fn |-> op.seen, range |-> meter.range[op.seen]]

\* readPrimarySnapshot: CONFigure? and SENSe:FUNCtion? before the measurement,
\* and the measurement.  MEASure of a function that is not the meter's may well
\* select it.
QueryBefore ==
  /\ op # None /\ link /\ op.does = "reading" /\ op.step = 1
  /\ op' = Saw(op, 2, Config(meter))
  /\ UNCHANGED <<meter, runtime, polls, line, service, outdated, events>>

Measure ==
  /\ op # None /\ link /\ op.does = "reading" /\ op.step = 2
  /\ meter' \in {meter, [meter EXCEPT !.fn = wanted]}
  /\ op' = Measured(op, 3, Config(meter'))
  /\ UNCHANGED <<runtime, polls, line, service, outdated, events>>

\* Mutant: only the functions before and after are compared.
CoherentFunction(after) ==
  op.seen.fn = after.fn /\ after.fn = wanted

\* The reading is one of the function asked for, and nothing changed around it.
Coherent(after) ==
  op.seen = after /\ after.fn = wanted

\* The operation of the request fails or has its effect.  A control is bound to
\* its function inside the operation (requireCurrentFunction).
Ctl == line[1].ctl

\* Mutant: the function is not read again inside the operation.
StepsUnbound(ctl) ==
  IF ctl.kind \in {"function", "raw"} THEN <<"command">>
  ELSE IF ctl.kind = "rate" /\ ctl.fn \in ByConfigure
  THEN <<"observe", "command">> ELSE <<"command">>

\* The queries of a control's operation.
Steps(ctl) ==
  IF ctl.kind \in {"function", "raw"} THEN <<"command">>
  ELSE IF ctl.kind = "rate" /\ ctl.fn \in ByConfigure
  THEN <<"check", "observe", "check", "command">> ELSE <<"check", "command">>

Writing(step) ==
  op # None /\ link /\ op.does = "write" /\ Steps(Ctl)[op.step] = step

\* setFunction, setRange, setAcquisitionRate, executeRawScpi: their command
Command(ctl) ==
  CASE ctl.kind = "function" -> {[meter EXCEPT !.fn = ctl.fn]}
    [] ctl.kind = "range"    -> {[meter EXCEPT !.range[ctl.fn] = ctl.range]}
    [] ctl.kind = "raw"      -> {meter} \cup Edits(meter)
    [] OTHER -> IF ctl.fn \in ByConfigure
                THEN {[meter EXCEPT !.fn = ctl.fn, !.range[ctl.fn] = op.seen,
                                    !.odd = @ \ {ctl.fn}]}
                ELSE {[meter EXCEPT !.odd = @ \ {ctl.fn}]}

CheckFunction ==
  /\ Writing("check") /\ meter.fn = Ctl.fn
  /\ op' = [op EXCEPT !.step = @ + 1]
  /\ UNCHANGED <<meter, runtime, polls, line, service, outdated, events>>

\* readStableRange; a panel that is being turned may make it fail (RequestFails).
ObserveRange ==
  /\ Writing("observe")
  /\ op' = Saw(op, op.step + 1, meter.range[Ctl.fn])
  /\ UNCHANGED <<meter, runtime, polls, line, service, outdated, events>>

-----------------------------------------------------------------------------
(* DmmPoller: what it does with its operations.                            *)

PollIs(does) == op # None /\ op.who = "poller" /\ op.does = does

\* The state is accepted, and a reading of its function comes next.
PollState ==
  /\ PollIs("state") /\ StateRead
  /\ op' = None
  /\ IF polling
     THEN ReplaceState(ReadState) /\ poller' = "reading" /\ wanted' = ReadState.fn
     ELSE poller' = "off" /\ UNCHANGED <<wanted, store, service, outdated>>
  /\ UNCHANGED <<meter, link, running, loop, session, failed, polling, line, events>>

\* parseMeasurementResponse: a number, or the sentinel of no data
Snapshots == {Value(op.seen, op.by, op.turned), Unavailable(op.seen.fn)}

\* A reading that changed underneath is dropped, another one is accepted.
PollReading ==
  /\ PollIs("reading") /\ link /\ op.step = 3
  /\ op' = None
  /\ poller' = IF polling THEN "wait" ELSE "off"
  /\ IF polling /\ Coherent(Config(meter))
     THEN \E s \in Snapshots : AcceptSnapshot(s, op.seen.fn)
     ELSE UNCHANGED <<service, outdated>>
  /\ UNCHANGED <<meter, runtime, polling, wanted, line, events>>

\* An error ends the loop, and the session with it.
PollFails ==
  /\ \/ PollIs("state") /\ StateError
     \/ poller \in {"state", "reading"} /\ ~link
  /\ op' = IF op # None /\ op.who = "poller" THEN None ELSE op
  /\ poller' = "off"
  /\ failed' = (failed \/ polling)
  /\ UNCHANGED <<meter, link, running, loop, session, store, polling, wanted, line, service,
                 outdated, events>>

\* The interval is over: the state is due, or only a reading.
PollWakes(next) ==
  /\ poller = "wait"
  /\ poller' = IF polling THEN next ELSE "off"
  /\ wanted' = IF polling /\ next = "reading" THEN store.fn ELSE wanted
  /\ UNCHANGED <<meter, runtime, polling, op, line, service, outdated, events>>

-----------------------------------------------------------------------------
(* DmmService: the mutations.                                              *)

HeadTo(stage, ready) ==
  line' = [line EXCEPT ![1] = [ctl |-> Ctl, stage |-> stage, ready |-> ready]]

\* Mutant: a mutation that fails does not let the next one go.
ReleaseIfDone(done) == line' = IF done THEN Tail(line) ELSE line

\* serializeMutation releases the next mutation, whatever came of this one.
Release(done) == line' = Tail(line)

\* A browser asks; without a session it is refused at once.
Ask(ctl) ==
  /\ session /\ events < MaxEvents
  /\ line' = Append(line, [ctl |-> ctl, stage |-> "queued", ready |-> FALSE])
  /\ events' = events + 1
  /\ UNCHANGED <<meter, runtime, polls, op, service, outdated>>

FirstStage(ctl) == IF ctl.kind \in {"range", "rate"} THEN "check" ELSE "write"

\* serializeMutation: its turn has come, in its session or too late; likewise
\* after a step, when the next operation is scheduled (the poller's may be first).
RequestGoesOn ==
  /\ line # <<>> /\ ~line[1].ready
  /\ IF session
     THEN HeadTo(IF line[1].stage = "queued" THEN FirstStage(Ctl) ELSE line[1].stage, TRUE)
     ELSE Release(FALSE)
  /\ UNCHANGED <<meter, runtime, polls, op, service, outdated, events>>

RequestIn(stage) == op # None /\ op.who = "request" /\ line[1].stage = stage

\* The state read before a range or rate: the function must be the control's.
RequestCheck ==
  /\ RequestIn("check") /\ StateRead
  /\ op' = None
  /\ IF session /\ op.seen = Ctl.fn THEN HeadTo("write", FALSE) ELSE Release(FALSE)
  /\ UNCHANGED <<meter, runtime, polls, service, outdated, events>>

RequestCommand ==
  /\ Writing("command")
  /\ op' = None
  /\ meter' \in Command(Ctl)
  /\ HeadTo("readback", FALSE)
  /\ UNCHANGED <<runtime, polls, service, outdated, events>>

\* The state read after the command is accepted, and the request is answered.
RequestReadback ==
  /\ RequestIn("readback") /\ StateRead
  /\ op' = None
  /\ IF session THEN ReplaceState(ReadState) ELSE UNCHANGED <<store, service, outdated>>
  /\ Release(session)
  /\ UNCHANGED <<meter, link, running, loop, session, failed, polls, events>>

\* A lost transport, a rate of no name, a control of another function, or a
\* range that is not stable.  A lost transport fails the session too.
RequestFails ==
  /\ \/ Ready /\ ~link
     \/ op # None /\ op.who = "request" /\ StateError
     \/ Writing("check") /\ meter.fn # Ctl.fn
     \/ Writing("observe") /\ op.turned > 0
  /\ op' = IF op # None /\ op.who = "request" THEN None ELSE op
  /\ failed' = (failed \/ ~link)
  /\ Release(FALSE)
  /\ UNCHANGED <<meter, link, running, loop, session, store, polls, service, outdated, events>>

-----------------------------------------------------------------------------
(* DmmRuntime.                                                             *)

Start ==
  /\ ~running /\ loop = "none"
  /\ running' = TRUE
  /\ loop' = "connecting"
  /\ Disconnected
  /\ UNCHANGED <<meter, link, session, failed, store, polls, op, line, events>>

\* stop: a delay ends, a transport that connects is destroyed, a session fails.
Stop ==
  /\ running /\ events < MaxEvents
  /\ running' = FALSE
  /\ session' = FALSE
  /\ Disconnected
  /\ loop' = IF loop = "delay" THEN "none" ELSE loop
  /\ link' = (link /\ loop \notin {"connecting", "initial"})
  /\ failed' = (failed \/ session)
  /\ events' = events + 1
  /\ UNCHANGED <<meter, store, polls, op, line>>

\* The socket opens; what the last session rejected has long been told so.
Connect ==
  /\ loop = "connecting" /\ running /\ op = None /\ line = <<>>
  /\ loop' = "initial"
  /\ link' = TRUE /\ failed' = FALSE
  /\ UNCHANGED <<meter, running, session, store, polls, op, line, service, outdated, events>>

\* createSession: the first state is published with the connection.
Serve ==
  /\ op # None /\ op.who = "create" /\ StateRead
  /\ op' = None
  /\ loop' = "serving" /\ session' = TRUE
  /\ store' = ReadState /\ connection' = ReadState
  /\ polling' = TRUE /\ poller' = "state"
  /\ UNCHANGED <<meter, link, running, failed, wanted, line, snapshot, outdated, events>>

\* It fails: no connection, no answer, or a rate of no name.
CreateFails ==
  /\ \/ loop = "connecting" /\ (~running \/ events < MaxEvents)
     \/ loop = "initial" /\ (~link \/ StateError)
  /\ op' = None
  /\ link' = FALSE
  /\ events' = IF loop = "connecting" /\ running THEN events + 1 ELSE events
  /\ IF running THEN Disconnected ELSE UNCHANGED <<service, outdated>>
  /\ loop' = IF running THEN "delay" ELSE "none"
  /\ UNCHANGED <<meter, running, session, failed, store, polls, line>>

RetryDelayOver ==
  /\ loop = "delay"
  /\ loop' = "connecting"
  /\ UNCHANGED <<meter, link, running, session, failed, store, polls, op, line, service,
                 outdated, events>>

\* The signal has fired: disposeSession, as far as the wait for the poller.
EndSession ==
  /\ loop = "serving" /\ failed
  /\ session' = FALSE
  /\ IF running THEN Disconnected ELSE UNCHANGED <<service, outdated>>
  /\ polling' = FALSE
  /\ link' = FALSE
  /\ loop' = "disposing"
  /\ UNCHANGED <<meter, running, failed, store, poller, wanted, op, line, events>>

Disposed ==
  /\ loop = "disposing" /\ poller = "off"
  /\ loop' = IF running THEN "delay" ELSE "none"
  /\ UNCHANGED <<meter, link, running, session, failed, store, polls, op, line, service,
                 outdated, events>>

-----------------------------------------------------------------------------
(* The instrument and the network.                                         *)

Turned == IF op = None THEN None ELSE [op EXCEPT !.turned = IF @ < 2 THEN @ + 1 ELSE 2]

PanelTurn ==
  /\ events < MaxEvents
  /\ meter' \in Edits(meter) \ {meter}
  /\ op' = Turned
  /\ events' = events + 1
  /\ UNCHANGED <<runtime, polls, line, service, outdated>>

LinkLost ==
  /\ link /\ loop \in {"initial", "serving"} /\ events < MaxEvents
  /\ link' = FALSE
  /\ events' = events + 1
  /\ UNCHANGED <<meter, running, loop, session, failed, store, polls, op, line, service, outdated>>

-----------------------------------------------------------------------------
Init ==
  /\ meter \in [fn : Functions, range : [Functions -> {CHOOSE r \in Ranges : TRUE}], odd : {{}}]
  /\ link = FALSE /\ running = FALSE /\ loop = "none" /\ session = FALSE /\ failed = FALSE
  /\ store = Config(meter)
  /\ polling = FALSE /\ poller = "off" /\ wanted = meter.fn
  /\ op = None /\ line = <<>>
  /\ connection = None /\ snapshot = None /\ outdated = FALSE
  /\ events = 0

Query ==
  \/ BeginCreate \/ BeginPoll \/ BeginRequest \/ QueryFunction \/ QueryBefore \/ Measure
  \/ CheckFunction \/ ObserveRange

Poll    == PollState \/ PollReading \/ PollFails \/ PollWakes("reading")
Request == RequestGoesOn \/ RequestCheck \/ RequestCommand \/ RequestReadback \/ RequestFails
Runtime == Connect \/ Serve \/ CreateFails \/ RetryDelayOver \/ EndSession \/ Disposed

Next ==
  \/ Query \/ Poll \/ PollWakes("state") \/ Request \/ Runtime
  \/ Start \/ Stop \/ PanelTurn \/ LinkLost
  \/ \E ctl \in Controls : Ask(ctl)

Spec == Init /\ [][Next]_vars

\* The meter answers, timers go off, and the state is due again and again;
\* nobody has to ask for anything, to turn the panel or to start the runtime.
Fairness ==
  WF_vars(Query) /\ WF_vars(Poll) /\ SF_vars(PollWakes("state")) /\ WF_vars(Request) /\ WF_vars(Runtime)

FairSpec == Spec /\ Fairness

-----------------------------------------------------------------------------
(* Properties.                                                             *)

\* Type invariant of all variables.
TypeOK ==
  /\ meter \in Meters
  /\ {link, running, session, failed, polling, outdated} \subseteq BOOLEAN
  /\ loop \in {"none", "connecting", "initial", "serving", "disposing", "delay"}
  /\ store \in Configs /\ connection \in {None} \cup Configs
  /\ poller \in {"off", "wait", "state", "reading"} /\ wanted \in Functions
  /\ op \in {None} \cup Operations
  /\ line \in Seq([ctl : Controls, stage : {"queued", "check", "write", "readback"}, ready : BOOLEAN])
  /\ snapshot \in {None} \cup [kind : {"Value"}, label : Configs, by : Configs, turned : 0 .. 2]
                        \cup [kind : {"Unavailable"}, label : Functions]

\* A number on the display is labelled with the function and range it was
\* measured with, unless the panel was turned twice within the operation
\* (readPrimarySnapshot compares what it reads before and after).
LabelIsTrue ==
  snapshot # None /\ snapshot.kind = "Value" =>
    snapshot.turned = 2 \/ snapshot.label = snapshot.by

\* No number outlives the configuration it was shown under: not a change found
\* by a poll, not one of a mutation, not a lost session (acceptState,
\* acceptConnection, the filters of createSession).
ReadingIsFresh ==
  /\ snapshot # None => connection # None
  /\ snapshot # None /\ snapshot.kind = "Value" =>
       ~outdated /\ snapshot.label.fn = connection.fn

\* A range or rate control never changes the meter's function, nor anything of
\* another function, nor a rate the range, unless the panel is turned while its
\* operation runs (setControl, requireCurrentFunction, readStableRange).
WriteIsBound ==
  [][op # None /\ op.does = "write" /\ op' = None /\ op.turned = 0
       /\ Ctl.kind \in {"range", "rate"} /\ meter' # meter
     => /\ meter.fn = Ctl.fn /\ meter'.fn = meter.fn
        /\ \A f \in Functions :
             (f = Ctl.fn /\ Ctl.kind = "range") \/ meter'.range[f] = meter.range[f]]_vars

Agrees ==
  /\ connection = Config(meter)
  /\ snapshot # None /\ snapshot.kind = "Value" => snapshot.label = Config(meter)

\* Whatever the panel, the browsers and the network did, at last the state and
\* the number shown are the meter's, as long as the driver knows its rate
\* (DmmPoller, runLoop).
CatchesUp == <>[](running /\ meter.fn \notin meter.odd => Agrees)

\* Every mutation is answered, and the next one has its turn (serializeMutation).
RequestsEnd == line # <<>> ~> line = <<>>

\* A stop comes to its end.
StopEnds == ~running ~> loop = "none"

\* Neither a mutation nor a stop waits for ever, whatever fails meanwhile.
NothingHangs == RequestsEnd /\ StopEnds
=============================================================================
