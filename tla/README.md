# rigol-web in TLA+

rigol-web is a Node server that talks SCPI to a Rigol DHO804 oscilloscope and a DM858E multimeter, and a bridge
protocol to a PPK2 power profiler, and shows them to any number of browsers over WebSockets. This directory holds
TLA+ models of the parts of the server and of the browser's side where several browsers, timers, one instrument that
does one thing at a time, and lost connections meet; TLC configurations that check them; and proofs that TLAPS checks.

Paths below are the repository's, line numbers those of the modelled commit. `PROJECT.json` maps every definition to
its lines, lists the runs, the theorems, the hazards and, for each checked property, a faulty variant of one
definition (operators commented "Mutant" in the modules) that makes the property fail.

- [1 The system](#1-the-system): components, state, operations, what is hard
- [2 The modules](#2-the-modules): how variables and actions correspond to the code
- [3 What the runs show](#3-what-the-runs-show): properties, bounds, fairness
- [4 What is proved](#4-what-is-proved)
- [5 Where code and documents disagree](#5-where-code-and-documents-disagree)
- [6 Not modelled](#6-not-modelled)
- [7 Plan](#7-plan)

To run: `tlc -config MCScpiScheduler.cfg MCScpiScheduler`, and `tlapm ScpiScheduler_proofs.tla`.

## 1 The system

```
 browser: UI -> actions/stores -> AppConnection            (src/web)
                                   |  WebSocket: requests, results, states, frames
 WebSocketGateway -- subscriptions --> InstrumentRegistry -- start/stop --> runtimes
   |  one adapter per instrument             (src/server/websocket, instruments)
   v
 ScopeWebSocketAdapter -> ScopeService -> ScopeController -> ScopeStateStore -> all browsers
   |        |                (scope)            |
   |        +-> LiveWaveformService             |
   |                  |                         v
   +------------------+--------------> Dho804Driver -> ScpiScheduler -> ScpiTransport -> TCP
 ScopeRuntime owns one session of driver, scheduler, transport, live service; reconnects; sleeps
 DmmRuntime/DmmService and Ppk2Runtime/Ppk2Service are the other two instruments
```

Node runs every promise continuation before the next event (a message, a timer, a socket chunk). So interleaving
happens at the events, and at each `await` another event's continuations may have changed what was read before it.
That is what nearly all hazards of this code are about, and the granularity of the modules.

| Component | State | Operations | Hard behaviour | Correct when |
| --- | --- | --- | --- | --- |
| SCPI scheduler `scpi/scpi-scheduler.ts` | five queues, the running operation, burst counter, stopped | schedule, scheduleInteractive, scheduleImmediate, scheduleLatest, pump, stop | coalescing moves the callers of a replaced operation to its replacement; wake-ups by microtask; stop or a broken transport while one runs | each promise settles once, with a result at least as new as its call; a key never goes back to an older value; streaming gets its turn |
| SCPI transport `scpi/scpi-transport.ts` | receive buffer, the pending query, two timers, validity | query (text, block, live block, two blocks), data, timeout, idle recovery, disconnect | TCP chunks end anywhere; the terminator after a block may or may not come; a short live block is accepted after silence | an answer holds the bytes of its own query, or the connection is given up |
| Live waveform service `waveform/live-waveform-service.ts` | wanted, paused, fresh wanted, the loop | start, stop, pause, resume, requestFresh, loop | a loop that ends while it is asked for more; nested pauses | the display neither freezes nor reads while it must not |
| Scope adapter `websocket/scope-websocket-adapter.ts` | interaction owner, horizontal queue, viewports, frame queue | InteractionUpdate/Commit, ControlSet, run actions, viewports, captures, subscribe, unsubscribe | several browsers own and take over a drag; a reconnect while requests wait | controls take effect in order, never on another session, and are answered |
| Scope controller and store `scope/scope-controller.ts`, `scope-state-store.ts` | shown state, mutation revision | set, interactive set, commit, run actions, raw SCPI | values are shown before they are written and read back after newer ones; a timebase change is STOP, wait, write, RUN | when all is done all browsers see what the scope has; the run state is kept |
| Scope runtime, power lifecycle `scope-runtime.ts`, `scope/scope-power-lifecycle.ts` | running, suspended, the session loop, connection shown | start, stop, sleep, wake, session failure | start, stop, sleep, wake and failure in any order around one loop | one session at a time, none while asleep, a reconnect in the end |
| DHO804 driver `scope/dho804-driver.ts` | caches: waveform setup, preambles, scales, units | live read, RAW capture, about 40 controls and queries | caches save queries; a failed read leaves the scope between two setups | a frame's metadata are those it was read with |
| Gateway, registry, server `websocket/websocket-gateway.ts`, `instruments/`, `server.ts` | clients, subscriptions, per runtime a chain of transitions | connect, subscribe, unsubscribe, close, shutdown | stops take time, starts arrive meanwhile; shutdown while sockets close | a runtime runs when subscribed, and none after shutdown |
| Deep capture, frames `waveform/deep-capture-service.ts`, `downsample.ts`, `waveform-frame-encoder.ts` | the last capture | capture several channels, reduce to a viewport, encode | another browser captures or runs the scope; rounding at bucket borders | one capture holds one acquisition; no peak is lost |
| DMM `dmm/` | session, polled state, the snapshot shown, mutation chain | poll, set control, raw SCPI, reconnect | a front panel that is turned between two queries; a reading taken before a function change arrives after it | readings carry the configuration they were measured with; controls keep to their function |
| PPK2 and acquisitions `ppk2/`, `acquisition/` | bridge connection, decoder, active capture, operation ledger, chunk store | start, stop, samples, loss, eviction, shutdown | the operation list can end a capture behind the service's back; a six-bit counter, samples across frames | ledger and capture agree; counts of stored, lost and evicted samples add up |
| Browser connection `web/app-connection.ts` | socket, pending requests, subscriptions | connect, hello, subscribe, request, close, retry | replayed subscriptions, late answers | every request settles once; both ends agree at rest |
| Browser DMM `web/dmm/` | shown state, pending control, reading | enter and leave the route, controls, states, readings | answers to older controls, readings of another configuration | the newest control is shown as pending; a reading stands next to its own function and the state it was published under |
| Browser scope display `web/scope-binding.ts`, `web/waveform/waveform-controller.ts` | mode, capture shown, frames, viewports | deep capture, pan, frames received, run state, reconnect | store and controller change one after the other; frames and announcements cross | what is drawn is what is announced, over all of the view |
| Browser scope actions `web/scope-actions.ts`, `scope-store.ts` | optimistic values, preview timer, measurements poll | preview, commit, states received | a 50 ms preview timer against the commit; own values against published ones | the final value is sent last and shown in the end |
| Waveform drawing and UI `web/waveform/`, `web/components/` | cursors, geometry | draw | floating-point geometry | - |

## 2 The modules

Each module models one component with what its neighbours promise; a property of the pair below is checked where
the pair is (`ScopeInteraction` holds the adapter, the live service and the scheduler's order together). `MC*` modules
hold the values that a configuration gives to constants, and the symmetry sets.

**ScpiScheduler** (`scpi-scheduler.ts`). The five arrays are one set `pending` of entries; an entry's `seat` is its
array position, kept when a newer operation replaces it in place. `running` is `activeOperation`, `pumps` the queued
microtasks of `requestPump`, `burst` is `interactiveBurstCount`; `status` and `answer` are the callers' promises.
`Schedule`, `ScheduleInteractive`, `ScheduleImmediate` and `ScheduleLatest` are the methods of those names; `Start` and
`PumpReturns` are `pump` up to its first await; `Succeed` and `Fail` are the end of `execute`, with the rejection of all
that waits when the transport is gone; `Stop` is `stop`. History: `lastRun` and `overtaken`.

**ScpiTransport** (`scpi-transport.ts`). A byte knows the query whose response it is from and what the framing can tell
about it. The instrument puts a whole response on `wire`; `OnData` delivers any chunk of it and runs
`processReceiveBuffer` to its end, `PartialRecovery` is the idle timer of a live block, `ResponseTimeout` the 2.5 s
timer with `invalidate`, `SocketLost` close and error; the verdict operators are the `tryParse…` functions. `taken`
records which bytes an answer was made of. The digits and length of a block header are one token.

**ScopeInteraction** (`scope-websocket-adapter.ts`, `live-waveform-service.ts`). `owner` is `interactionOwner`; `wanted`,
`paused`, `fresh`, `loop` are the live service, `left` the rest of its cycle; `status` says which await each request is
at. `Interaction` is InteractionUpdate and InteractionCommit, `HorizontalControl` a ControlSet of the horizontal system,
which `NextControl` takes from the promise chain. `Write` is `updateInteraction` and `commitInteraction` up to their first
await: the write itself or (`prepares`: a scale that crosses `ROLL_MIN_SCALE_SECONDS`, a scale or, in roll mode, a
position while the scope runs) what `writeRollTimebaseControl` awaits before it; `Prepared` is the end of that. The run,
the rest and the read-backs after a write are one, `ReadBack`. `PauseOver`, `StartOp`, `NextControl` are continuations,
and an event waits until there is none (`Quiet`). `OpDone` is the end of the operation on the wire: write, read-back or
live read. `Disconnect` is all that `disposeSession` does up to its await, `Reconnect` the next session.

**ScopeController** (`scope-controller.ts`, `scope-state-store.ts`, `ScopeService`). `store` is what browsers are shown,
`device` the scope, `revision` is `mutationRevision`, `job` the await each request is at. `Begin` shows and sends;
`Continue` is the code after the await: `AfterWrite`, `Restart`, `Checked`, `ReadBack`, `SingleMode`, `RunRead`.
`StartOperation`, `FinishOperation`, `RefuseAnswer` are the scheduler with its priorities and coalescing, `Expire` the
settle timers of `writeRollTimebaseControl`, `TriggerSingle` the scope that ends its single acquisition.
The scope makes of a value what it can have (`Coerce`); in the run it rounds one of three values.

**WaveformReads** (`dho804-driver.ts`). `selected`, `settings`, `scale`, `offset`, `displayed`, `timebase` are the scope, `source`,
`setup`, `preambles`, `scales` what the driver remembers. Each command of a read is a step and may be the last: a query
fails and the session survives. Sources are shown and hidden (`SetChannelEnabled`, `SetMathEnabled`), and of a scale and an
offset the scope takes what it can (`ScaleTaken`, `OffsetTaken`), of which the driver hears nothing. `frame` is what the
read returns, next to the scope as it was. History: `strayed`, a read with a cached preamble followed one of another source;
`rounded`, the channels of which the scope took another value than it was sent.

**ScopeSession** (`scope-runtime.ts`, `scope-power-lifecycle.ts`, `tcp-reachability-monitor.ts`, `dho804-power-control.ts`).
`loop` is where `runLoop` is; `published` the connection that browsers see; `power` and `monitor` the Sleep dialogue.
`TransportLost` is what the socket does, which only a live read notices (`ReadFails`).

**InstrumentLifecycle** (`websocket-gateway.ts`, `instrument-registry.ts`, `server.ts`). `chain` is the promise chain
`transition` of each entry, each element with what its caller goes on to do; `loop` is
`releaseClientSubscriptions` at its awaits; `phase` is the shutdown of `server.ts`.

**Ppk2Stream** (`ppk2-stream-decoder.ts`, `ppk2-bridge-protocol.ts`, `ppk2-runtime.ts`, `ppk2-service.ts`,
`bounded-chunk-store.ts`). The device emits samples and skips some; the bridge cuts their bytes into frames and drops
some. A byte is its offset, so `decoder` holds an interval; a frame is a step, from the runtime's check of its offset
through `push` and `acceptSample` to chunks, eviction and buckets. `Viewport` is `readViewport`. `recorded` is history:
what was recorded, next to the sample it is.

**AcquisitionLedger** is abstract: what `AcquisitionService` promises of the operations in its list, whoever produces the
samples. An operation gets the next number, counts upwards while it runs, ends once, and is forgotten only when enough
younger ones have ended.

**Ppk2Capture** (`ppk2-runtime.ts`, `ppk2-service.ts`, `acquisition-service.ts`, their adapters, `server.ts`). `loop` is
where `runLoop` and `createSession` are; `active` is `activeOperationId`, `ops` the list, `draining` the capture whose
stop waits for the drain delay, `stale` that bytes of an ended measurement are still on the way. A batch is a step. It
implements the ledger: `Ledger == INSTANCE AcquisitionLedger WITH book <- Book`, where `Book` reads the phase of a
number that is not in the map off `nextId`, and `LedgerSpec` is checked as a property.

**DmmSession** (`dmm-runtime.ts`, `dmm-poller.ts`, `dmm-state-store.ts`, `dmm-service.ts`, `dm858e-driver.ts`). `meter` is the
instrument with its front panel; `op` the scheduler operation that executes, one query a step, so that the panel can be
turned between any two of its queries; `line` is `mutationTail` with the await each request is at; `store`, `connection` and
`snapshot` what the session and the service hold. `Query`, `Poll`, `Request` and `Runtime` group the steps of the four programs.

**BrowserSession** (`app-connection.ts`, `web/dmm/`, `websocket-gateway.ts`, `dmm-websocket-adapter.ts`,
`instrument-registry.ts`). One browser on the multimeter's route and the server, each a sequential program, with their
messages in flight in `up` (per socket: the server may still serve one that the browser has lost) and `down`. `User`,
`Receive`, `CloseEvent` and `Reconnect` are the browser's handlers; `Accept`, `Gateway`, `Registry` and `FinishRequest`
the server's. `meter` is what the instrument is set to, `known` the state in the session: `Turned` changes the first, `Poll`
publishes it (every 500 ms in the code), and `Reading` (every 100 ms) publishes a value at the meter's setting when its function is
that of `known`. A snapshot remembers, as history, the setting it was measured with and the state it was published under.

**WaveformFrames** (`waveform-controller.ts`, `deep-capture-service.ts`, `downsample.ts`, `waveform-frame-encoder.ts`,
`waveform-frame-decoder.ts`) has the arithmetic of frames as operators: from times to samples, the widening of a range,
buckets and their extremes, sequence numbers modulo 2^32, and what encoder and decoder require.

**ScopeDisplay** (`scope-binding.ts`, `scope-store.ts`, `waveform-controller.ts`, `scope-websocket-adapter.ts`,
`deep-capture-service.ts`, the gateway's sends). `page` is the browser with the messages it has sent, `client` the
server's state of it with its socket buffer, `scope` link and run state, `live` sequences and `latestLiveFrames`, `deep`
the capture service. `Deliver` takes a message from the buffer, runs its send callback (`flushPendingLiveFrame`) and
lets the browser handle it.

How they fit together. `ScopeController` and `ScopeInteraction` use of the scheduler what `ScpiScheduler` shows
(priority order, coalescing that moves callers, one operation at a time, rejection of all work by stop). The scheduler
uses of the transport that one query is pending at a time and settles (`ScpiTransport`). `ScopeInteraction` and
`ScopeController` live within one session; `ScopeSession` says when sessions come and go, and `ScopeInteraction`'s
`Disconnect`/`Reconnect` is the seam. `InstrumentLifecycle` decides `Start` and `Stop` of `ScopeSession`, with its rule
that a runtime that stops is not started. The loop of `LiveWaveformService` is in both `ScopeInteraction` (in full) and
`ScopeSession` (idle, reading, waiting). `BrowserSession` composes the browser with the gateway and the registry and uses of
`DmmSession` that a request succeeds or fails; `Ppk2Capture` uses of `Ppk2Stream` that a batch is of one measurement, and of
the registry the same rule as `ScopeSession`. `ScopeDisplay` takes run actions as done, which `ScopeController` and
`ScopeInteraction` show, and EXTENDS `WaveformFrames` for the contents of frames.

## 3 What the runs show

Constants that bound a behavior are named `Max…`; where a bound ends a behavior the configuration turns deadlock
checking off and says so. In `MCWaveformReads.cfg` nothing ends, and deadlock is checked.

| Run | Instance | Properties |
| --- | --- | --- |
| scheduler | 3 calls of every kind on one control key and one stream key, 55 000 states | `FreshAnswer`: a result is of its key and not older than its call; `NewestRuns`: a key never goes back and its newest value is run; `WaveformOvertakenOnce`; `EveryRequestSettles` |
| transport | 3 queries of every kind, blocks of 2 bytes, LF or none after a block, 22 600 states | `OwnAnswers`: nothing is left between queries, a short block only goes to who accepts it, foreign bytes only ever follow a block or live read; `EveryQuerySettles` |
| interaction | 2 browsers, 2 requests of any or 3 of one, 2 connections, fair, 601 000 states | `LiveKeepsPolling`: the display keeps polling and each pause has a holder; `NoReplay` on a new connection; `LastAskedWins`: controls in order, a committed value survives while the scope does not stream; `ControlsAnswered` |
| lifecycle | 3 browsers, 2 instruments, 5 messages, 405 000 states | `RuntimesFollow`: a runtime at rest is as last asked, browsers of one instrument keep it running; `ShutdownStops` |
| waveform_reads | a channel and a math source, shown and hidden, 3 scales of which one is rounded, 2 offsets of which one is clamped at a scale, 1 timebase change, 353 000 states | `FrameAsRead`: frames have the format and X metadata they were read with; `FrameIsTrue`: data and Y metadata are the source's, until a warm read follows one of another source |
| controller | three workloads, below, 3 values of which the scope rounds one, 1.9 million states | `SettledAgrees`: server and scope agree in the end, as far as the code reads back; `ShownIsNewest`: a read-back never undoes a newer value; `TimebaseKeepsRun`: the scale is written while stopped, a running scope runs again |
| session | 2 faults, 2 Sleeps, fair, 1 848 states | `SessionIsTrue`: what is shown is true, a wanted runtime has a loop, adb works and the scope sleeps without sessions; `Reconnects`; `SleepEnds` |
| ppk2_stream | samples of 2 bytes, counter modulo 2, skips of 0 to 2, 4 samples, 2 captures, 1.4 million states | `SamplesAreTrue`: whole samples of this measurement, with the gaps the device made up to turns of its counter; `AccountsAgree`: received, lost, held and evicted add up; `ViewportIsComplete` |
| ppk2_capture | 2 browsers, 3 operations, 1 retained, 2 faults, fair, 172 000 states | `CaptureIsOwned`; `OwnSamples`; `LedgerSpec`, the refinement of `AcquisitionLedger`; `StaleCaptureIsFreed` |
| dmm | 2 functions with 2 ranges, a control of each kind, 3 events, fair, 370 000 states | `LabelIsTrue`, `ReadingIsFresh`: of the number shown; `WriteIsBound`: a control changes nothing of another function; `CatchesUp`; `NothingHangs` |
| connection | 3 visits or requests, 2 sockets, 1 lost session or turn at the meter, fair, 419 000 states | `ShownAtRest`, `StoppedWhenLeft`: both ends agree when nothing is in flight; `PageIsCoherent`; `Recovers` |
| scope_display | 8 samples, 3 views, 3 live frames, 2 captures, 1 run, 2 pans, 1 break, 3.1 million states | `ShownIsTheCapture`: store, controller and frames agree, with every peak; `ViewIsServed`; `RunShowsLive`; `LatestAtRest` |

A property that is a conjunction is written so in its module, with each part named and commented. Each module
of a component also states its type invariant `TypeOK`; it holds in each run's configuration when it is added to it.

**Why the bounds are enough.** Three calls of a scheduler are an operation that runs, one that waits and one that meets
both; a fourth meets no new pair, as entries of other keys only matter by priority. Three queries of a transport are one
that leaves something behind, one that finds it, and one after it. Two requests of two browsers are a drag and a control
of the other browser that meets it, three of one browser a drag, its commit and what follows; two connections give every
request a session it may be too late for. The configuration constrains the third request (`OneBrowserGoesOn`): it follows
only where all are of one browser, on the first connection, and none needs a preparation; the first request is always of
the same browser, as browsers are interchangeable. Requests and a reconnection are never due, so every behavior that the
constraint leaves is a fair one, and it can only hide violations in behaviors with more requests. Three browsers over two
instruments are one that leaves, one that stays and one that arrives during the stop; five messages let one of them come
back. A preamble's life is a read, one change that makes it stale or adjusts it, and a read; two sources, shown and hidden
in any order, let the reads of one be interrupted by those of the other. Two faults are a failure during the recovery of
another; two Sleeps are one after the wake of the other. Four samples with a counter modulo 2 wrap it, by themselves and
by a skip of one; a skip of two is a whole turn, which leaves no trace in it; with two bytes a sample every cut of a
sample is met, chunks of two and a capacity of three make chunks of which one is evicted; the second capture meets what
the first left on the way. Three operations with one retained are one that is pruned, one that stays and one that runs;
two faults, one in the session that a failure led to. Three events of a multimeter are a turn of the panel twice within
one operation, or a control, a turn and a lost link. Two settings of one function and one of another distinguish a change
of range from a change of function. The meter's own events (`Meter`) begin only when all that was sent to the browser is
read (`MaxFlight`); what a request, a start or a stop publishes still queues behind them. Two sockets are one that is lost
and the one that replaces it; the last does not break, as liveness is about what comes after the faults. Two captures are
one that is shown and one that replaces it; three views are all of the record, a part and one over its end; sequence
numbers modulo 16 start at 15, so the first frame wraps.

**The workloads of the controller.** All browsers' requests at once have no property worth stating (section 5), so a
behavior draws its requests from one of: discrete settings, up to three in flight, one refused; timebase settings
in all three forms (set, movement, commit), up to three in flight, one refused; and everything, one request at a time.
`SettledAgrees` and `ShownIsNewest` speak of the first and the last; of `TimebaseKeepsRun`, that the run state is restored is
about the second, that the scale is written while stopped about the last.

**Fairness**, and what in the code gives it:

- scheduler: a queued microtask runs (`Start`, `PumpReturns`), and an operation ends (`Succeed` or `Fail`), since the
  transport's timers end each of its queries (the transport run's own liveness property).
- transport: only the response timer (`ResponseTimeout`). Neither the instrument nor the network is fair.
- interaction: continuations run (`PauseOver`, `StartOp`, `NextControl`), timers fire (`GapOver`, `DelayOver`), the
  operation on the wire ends (`OpDone`), as in the scheduler, and so do the operations and the timer before a prepared write
  (`Prepared`). Browsers and the scope owe nothing.
- session: a connection attempt, a read, an adb dialogue and a probe end one way or the other, each having a timeout;
  delays elapse; disposal and stop end with the read they wait for. No fairness says a connection attempt succeeds:
  once the faults are used up, an attempt on a scope that is online does.
- ppk2_capture: the loop and its timers go on, a device that measures sends, an initialisation that gets no answer times
  out, and the shutdown's awaits end. No client asks for anything.
- dmm: the meter answers or its query times out, timers fire, the promise chain goes on. The poll of the state is strongly
  fair: when the poller wakes it reads the state if that is due, else only a reading, and by the clock the state becomes due
  again and again (`dmm-poller.ts:63-80`).
  The panel, browsers and network owe nothing.
- connection: either end takes its next event while it has one (one condition for each end, so that no event of it is
  preferred). The user, the meter and the network's faults owe nothing; stops of a runtime end (the runs above).

`ControlsAnswered` is about requests of which none drags: while another browser drags it fails (section 5).
`LastAskedWins` is about a scope that does not stream, and about movements that needed no preparation, where it says that
a commit survives: else the value can be lost (section 5). `FrameIsTrue` ends with the first warm read after one of
another source, and leaves out the Y metadata of a channel whose value the scope rounded (section 5). `SettledAgrees` has
the values that are not read back shown as asked or as the scope has them (section 5), and `SamplesAreTrue` counts a loss
up to whole turns of the counter (section 5). `PageIsCoherent` binds a value to the function it was measured with and the
state it was published under, not to that state's range and rate (section 5). `LabelIsTrue` excepts a panel that is turned
twice within one operation, `CatchesUp` a rate the driver has no name for, `ShownAtRest` and `StoppedWhenLeft` an
unsubscription that met its own subscription (section 5), `RunShowsLive` a run during a capture of this browser,
`ViewIsServed` a refused request until the view moves again, `LatestAtRest` a frame of an earlier session (section 5). The
variables that record these exceptions are history and are marked so in the modules. `Reconnects` is about a scope that
acquires in the end, `SleepEnds` about a wake that the monitor saw begin.

## 4 What is proved

TLAPS checks these for every value of the constants; 44 theorems are listed in `PROJECT.json`. They are all safety. Each
proof module extends the module it is about, and each rests on an inductive invariant `IInv`, which TLC checked on the run
of that module before it was proved; a step of the proof stands for an action. `WaveformReads_proofs` extends three: its
second part is about `ScopeSession` and its third about `ScopeController`, whose `SessionSpec`, `ControllerSpec` and their
parts have names of their own for that reason. Where a run checks the same property the list says so; the other theorems
are about parts of those, or about properties that no run repeats now that they are proved. `TypeOK` is proved of all nine
specifications and not named again below. What is assumed of the constants is in each module's `ASSUME`, which TLC
evaluates: the bounds are naturals, the subsets are subsets, and the values that stand for "nothing" (`None`, `NoKey`) are
no browser, number, key or record. Three assumptions are more than that and true of the program: the registry has finitely
many instruments, the multimeter has at least one range, and the scale at which roll mode begins is not the smallest
(`ROLL_MIN_SCALE_SECONDS`).

**ScpiScheduler_proofs**: for every number of calls and every set of keys, `WaiterInOnePlace`, `FreshAnswer`,
`WorkHasPump`, `StoppedIsDrained`, `WaveformOvertakenOnce`, and `NewestRuns`. The invariant `IInv` adds to them what makes
them inductive: an entry's operation is among its own waiters and is the newest of them, all of them of its key
(`EntriesSound`: without it a merge could answer a caller with older work); at most one entry runs and it is not pending
(`OneAtATime`); a call that was not made has left no trace (`UnsentUntouched`: otherwise the next call could meet its own
waiter); and the burst counter is positive once a waiting waveform read was overtaken (`OvertakenCounted`: this is what
makes the selection rule bound the overtaking). One step per action, and the actions that merge entries share lemmas about
moving waiters. `NewestRuns` has an invariant of its own on top of `IInv`, `KeyInv`: nothing that waits is older than what
was last run of its key (`NewerThanRun`); the work of a key waits in its own queue or, a commit, in the immediate one
(`KeyedQueues`); of a key there is at most one movement, younger than the commits that wait, and at most one waveform read
(`OneOfKey`); and the newest call of a key waits until it is run or rejected (`NewestIsKept`).

**WaveformReads_proofs**: for every set of sources, scales, offsets and changes, and whatever the scope makes of scales
and offsets, `FrameConfigured`, `HorizontalFresh`, and `FrameIsTrue`. `IInv` adds that a remembered setting is the scope's
(`SetupTrue`), that every remembered preamble has the present timebase (`TimeTrue`), and that a read past its settings
remembers all of them (`Configured`). `AlwaysAsRead` is the conjunction of the first two. They hold although the driver
may be wrong about the selected source (section 5). Until a warm read follows one of another source, the driver is right
about it: the source it believes selected is, wherever a read counts on it (`Believes`), and of a channel that was not
rounded the scale is known and a cached preamble was read since and has followed every scale and offset written
(`Remembers`; a scale stands for the increment that is proportional to it, so multiplying the increment of the previous
scale by the ratio gives that of the next).

**WaveformReads_proofs**, second part (the session): for every number of faults and Sleeps, `PublishedIsTrue`, `RunningHasLoop`,
`SleepIsQuiet` and the action property `OneSession`; `SessionAlwaysTrue` is the conjunction of the three invariants.
`SessionIInv` adds how the flags and the loop go together (`Waited`): suspended exactly during a Sleep, monitored only asleep,
never stopping and running, a loop that connects, serves or waits is wanted, and an unwanted loop is one that stop or
Sleep waits for. Without the last part a start could meet a loop about to end and be left without.

**WaveformReads_proofs**, third part (the controller): for every finite set of callers, every workload of the requests
that browsers send and every number of refused answers, `TimebaseKeepsRun` (the action property: the scale and the mode
are written while the scope is stopped, where requests come one at a time; and overlapping timebase changes, refused or
not, leave it running) and `ControllerTypeOK`, which says in particular that every request in flight waits for exactly one
operation, answer or timer. The invariant, `ControllerInv`, has three parts. `Ledger` accounts for who waits for what: the
waiters of all operations, answers and timers are callers, each in one place and at the step of its request that this
operation, answer or timer belongs to (`Fits`), and nobody else is in flight. With it a write that takes over the waiters
of a stale one is a lemma about sequences, stated once. `RunInv` is for timebase changes alone: a scope that is stopped is
so for a request whose `:STOP` was executed and whose `:RUN` was not (`InStop`). That every request reaches its `:RUN`,
also after a refused write (the `finally` of `writeRollTimebaseControl`), follows from the ledger and the steps a request
can be at; the scheduler's order is not needed for it, so overlapping changes may run each other's scope early but not
leave it stopped. `OneInv` is for requests one at a time: past its `:STOP` a request that restarts has the scope stopped
until its `:RUN`, and a request that does not has seen that it is stopped.

Of the controller also `ShownIsNewest` and `SettledAgrees`, for whatever the scope makes of the values it is sent
(`Coerce`, of which nothing is assumed): a read-back shows what the scope made of the newest value, and of a setting that
is not always read back either that or the value asked for is shown. The invariants, on top of `ControllerInv`, were
checked by TLC first. For requests one at a time, `PlainInv` says of each setting what is shown, was asked and is had
before and after the write of the one request under way, and what its answer will show; `ModeInv` whether that request
switches the mode, and on which side of the switch the scope is; `RunShownInv` the same of the run state. For discrete
controls that overlap, the invariant is about the order on the wire: all their work has one priority, at which nothing
merges, so `active \o pending` (`Bus`) is a queue, and `DiscreteInv` says that the last write of a setting in it, or else
the scope, has what was asked last (`LastIsAsked`), that no write follows that of the newest request (`NewestIsLast`), and
that an answer that may still be applied, since its request is the newest, has what the scope makes of what was asked last
(`DiscreteReady`). A refused answer breaks none of them: the write it was to confirm was executed, and what it wrote is
shown already.

**ScopeInteraction_proofs**: for every number of browsers, requests, waveform sources and connections, `LiveKeepsPolling`,
`NoReplay`, `ControlsInOrder`, and `LastAskedWins`. `IInv` adds that a request that was accepted and not answered is of
this connection (`Ledger`: it carries `NoReplay` through pauses and the queue of controls), that without a session nothing
is scheduled (`Gone`), that a loop in its poll delay remembers what it was asked for (`Polls`: otherwise a pause that ends
during the delay would leave no one to read), what the scheduler's entries have to do with the requests that await them
(`Work`: every entry awaited by requests in the right phase and of its own control, no request by two, one movement for
each control), that only a request that says so prepares its write, that one control executes and the others are younger
(`OneControl`), and that the control the scope shows is older than those not yet written (`ScopeIsBehind`: with it the
order of controls is an action property of one step). The second half of `LastAskedWins` assumes that the scope never
acquires, so it has an invariant of its own under that assumption, `StoppedInv`: nobody waits for a pause but a control or
the request sent last, no movement that a scheduled commit completes is left in the queue, and none runs or has the scope
once the commit is written, all of movements that needed no preparation.

**ScpiTransport_proofs**: for every number of queries and every payload length, `OwnAnswers`. `IInv` adds that the buffer and
the wire hold, in this order, exactly the rest of the pending query's response as long as no query before it may leave bytes
behind (`StreamIsOwn`); with it the parsers' verdicts on a prefix of a response are calculated once for text, blocks and
pairs of blocks (`OneToken`, `Offsets`, `BlocksTokens`). Block headers are single tokens in the model, so the arithmetic of
their digits is not part of this.

**InstrumentLifecycle_proofs**: for every finite set of instruments and every set of browsers and visits, `RuntimesFollow`
and `ShutdownStops`. `IInv` adds that the last transition queued for an instrument is what was last asked (`ChainEndsInLast`),
that after the sockets are closed nobody asks for a runtime (`NobodyAsks`), whose request each transition is
(`Asked`), and, for browsers with one instrument, that a stop is only queued where nothing is queued and nobody is
subscribed (`StopsAlone`: a browser with two instruments breaks it, which is why that half of the property excepts them).

**DmmSession_proofs**: for all functions, ranges and controls, `LabelIsTrue`, `ReadingIsFresh` and the action property
`WriteIsBound`. `IInv` adds whose operation runs (`OwnerWaits`) and what it knows at each of its queries, given how often
the panel was turned meanwhile: the function a state read goes by (`StateSeen`), the configuration seen and measured by a
reading (`ReadingKnows`: one turn spoils either what was seen or what was measured, and the second look finds it), and the
function and range that a control's operation checked (`WriteKnows`).

**Ppk2Capture_proofs**: for every set of browsers and every bound of the operation list, `CaptureIsOwned`, `OwnSamples`, and
`ImplementsLedger`: `Spec => LedgerSpec`, every step of the service, the runtime and the browsers is a step of
`AcquisitionLedger` or leaves the book alone. `IInv` adds that a session is served only while the runtime runs for
somebody and that one capture ends at a time (`Served`), and that no byte of an ended measurement is on its way when a
capture may start (`Drains`). The simulation needs a fact about pruning: a terminal operation that is forgotten has
`MaxRetained` younger terminal ones that are kept (`ForgottenBelowKept`, over any finite set of numbers). It also showed that
the ledger was too narrow for `MaxRetained = 0`, where a start that fails at once is forgotten in the same step; `StartPhases`
has that case now.

**BrowserSession_proofs**: for every number of sockets, visits, requests and settings, `ShownAtRest`, `StoppedWhenLeft`
and `PageIsCoherent`. None of the three is near to inductive, since what a browser will show is decided by what is in
flight. `IInv` adds, going up: that a subscription is preceded by the acknowledgement that lets the gateway accept it
(`AckFirst`); and that the last request among the messages that asks for the subscription asks what the route wants, and
that when there is none the server already has it (`RouteIsAsked`, which excepts an unsubscription that met its own
subscription, `ignored`). In the server: that a runtime that runs is used, or awaits the one stop in its chain, or is owed
to a browser that left while it was started (`RegistryIsWanted`), and that what the service published is of its session,
under its state and measured with that state's function (`ServiceAgrees`). Going down (`PageFollows`): the messages on
their way lead the page, through coherent pages only, to the page of what the server has now (`Leads`). Publishing appends
a message and moves the end of that path, the browser's handling of a message takes its first step; so `PageIsCoherent`
holds on the whole path and `ShownAtRest` is the case of a path of length 0. The lemmas about `Leads` and about the last
of some messages are stated once, without the model's variables.

Only model-checked: all liveness (liveness under fairness and `ENABLED` are beyond the prover); `AccountsAgree` and the other
invariants of the PPK2's stream, whose decoder folds over bytes, and those of the display of waveforms, whose views fold over
the displayed sources (what a fold computes for every input is an induction over data). No
module declares a RECURSIVE operator.

## 5 Where code and documents disagree

The models contain what the code does, and the properties of section 3 are conditioned around the disagreements below where
they would fail. For each a document, comment or test is quoted by its place. Where a property is named, it is stated in
its module and TLC finds it violated when it is added to the configuration, with the instance given.

The four of most consequence:

- Driver (`dho804-driver.ts:599`): a live read with a cached preamble sends `DATA?` without selecting the source. Read
  CH1, CH2, CH1: the last frame holds CH2's samples under CH1's name. The comment two lines up says that the source is
  configured above; see also `docs/live-waveform-performance.md:95`. `FrameIsItsSource` of `WaveformReads`, with both
  sources displayed. One source at a time is no help: hiding and showing a channel drops nothing
  (`setChannelEnabled`, `:351`), so CH1 alone, CH2 alone and CH1 again end the same way. Until a warm read follows one of another
  source all frames are right (`FrameIsTrue`).
- Interaction (`live-waveform-service.ts:88`): a control waits for the polling loop to be idle, somebody else's commit
  resumes the live display before it is, the loop never becomes idle, and the control and all behind it are never
  answered; `docs/websocket-protocol.md:257` has each request answered. `RequestsAnswered` of `ScopeInteraction`.
- Controller (`scope-controller.ts:694`): a Stop accepted during a timebase change is undone by that change's RUN;
  `docs/architecture.md:246` lets the last accepted write win. `StopWins` of `ScopeController`, with `Workloads <-
  StopLoads`.
- Session (`scope-runtime.ts:296`): a transport lost while the live loop is idle is noticed by nobody; the session
  stays published as connected; compare `docs/architecture.md:256`. The multimeter's runtime looks after each request
  (`dmm-runtime.ts:142`). `LostIsRecovered` of `ScopeSession`.

The others:

- Scheduler: a waveform read gets its turn before waiting Interactive and Normal work (`scpi-scheduler.ts:278`), where
  `docs/scpi-scheduler.md:93` selects the highest priority.
- Transport: a terminator that arrives in a chunk of its own is taken for the start of the next answer
  (`scpi-transport.ts:488`), and a live read that idles is ended before its entire block is read (`:624`); compare
  `docs/scpi-scheduler.md:28`. `ForeignIsKnown` and `ShortOnlyIfAccepted` bound what follows from it.
- Interaction: the first movement of a drag waits for the live pause while the commit of the same browser does not, and
  then overwrites it (`scope-websocket-adapter.ts:160`; `docs/scpi-scheduler.md:130`). `FinalValueKept` is the property
  that fails while the scope streams. A movement of the scale awaits `:TIMebase:MODE` at Normal priority where it crosses
  `ROLL_MIN_SCALE_SECONDS` on a stopped scope, and STOP with 50 ms on a running one, before it is written
  (`scope-controller.ts:294-309`, `:619-624`, `:669-698`); a commit of the same drag that is sent meanwhile is written
  first and then overwritten, also where nothing streams. `FinalValueKept` without its exemption of `prepares` fails. The
  end of one browser's interaction resumes the live display while another browser's horizontal write is in flight (`:342`;
  `docs/live-waveform-performance.md:26`).
- Lifecycle: a release over two instruments awaits the first stop with the second subscription still held, and then
  may queue a stop that meets another browser's start (`websocket-gateway.ts:472`; `docs/dm858e-ui-plan.md:93`;
  `SubscribedIsRunning` fails). A start that waits for a stop opens the instrument after its last subscriber left
  (`:444`; `docs/dm858e-ui-plan.md:97`). `docs/architecture.md:73` says unsubscribing stops nothing.
- Driver: a RAW capture trusts the source the driver remembers, wrong in the case above (`dho804-driver.ts:726`). After a
  scale or an offset the cached preamble is adjusted to the value sent (`:772-801`); where the scope rounds or clamps that
  (`docs/scope-model.md:667-672`), later frames carry wrong Y metadata until the preamble is read again. `FrameIsTrue` without
  `rounded` fails.
- Controller: a run action's update is dropped when any other change raised the revision meanwhile
  (`scope-controller.ts:314-320`), as is a read-back by a change of something else (`docs/scope-model.md:672`: the final
  read-back catches rounding); vertical scale and offset, horizontal position and trigger level are not read back at all,
  nor is a movement (`:245-309`), so where the scope rounds them browsers go on seeing the value asked for, against
  `docs/scope-model.md:672` and `docs/architecture.md:210`, until another control's read-back includes them; a commit
  overtakes an older Normal write of the same setting; two timebase changes that overlap write the scale while the scope
  runs (comment at `:41`); a drag of the scale does not update the mode shown.
- Power: a wake within one 2 s probe interval, or a tap on adb that missed, leaves the runtime suspended until a
  restart; `close()` during `powerControl.sleep` lets the monitor start after it.
- Browser and gateway: an unsubscription that arrives while its subscription awaits a start queued behind a slow stop
  is ignored (`websocket-gateway.ts:459`), and the runtime stays running with no browser; a later subscription returns
  early (`:440`) without initial publications. A socket that closes during the await has the same effect. Compare
  `docs/dm858e-ui-plan.md:91` and `:97`. The variables `ignored` and `orphan` of `BrowserSession` mark these.
- Live frames: those queued for a slow socket survive a change of the session (`scope-websocket-adapter.ts:90-97`
  clears only the latest frames); the browser accepts one of the old session and then drops the new session's as older
  (`docs/waveform-protocol.md:61` and `:152`).
- Deep display: a capture announced after the scope was run again is shown Deep while it runs
  (`docs/workstreams/frontend.md:580-583`); zooming in within a cached coarse frame asks for no finer data
  (`waveform-controller.ts:229-236`; `docs/development-practices.md:87`); a capture that fails clears the store
  (`scope-binding.ts:146`) while the controller keeps showing the capture before; a refused viewport request is not
  repeated until the next pan.
- PPK2: the last browser to leave stops the runtime, which ends the capture (`websocket-gateway.ts:464`), where
  `docs/ppk2.md:91`, `docs/acquisition-operations.md:24` and `:84` and `docs/architecture.md:73` have a running
  operation survive. `OutlivesBrowsers` of `Ppk2Capture`.
- PPK2: the native counter has six bits, so a loss of 64 samples, or of any whole turns, between two samples that follow each
  other on the wire without a bridge gap is not noticed (`ppk2-stream-decoder.ts:118-124`; `docs/ppk2.md:67` has a
  discontinuity contribute to the loss); the sequence then runs late by that much. `SamplesAreTrue` with an equality in
  place of the remainder fails.
- Multimeter: readings are polled every 100 ms and the state every 500 ms, and only their functions are compared
  (`dmm-poller.ts:63-80`, `dmm-runtime.ts:219-229`, `dmm-service.ts:197-205`, `dmm-store.ts:129-138`): after the range or the
  rate is turned at the panel, values of the new one are shown under the old one until the next state
  (`docs/workstreams/dm858e-frontend.md:21` invalidates a reading when its context changes). `ReadingAsLabelled` with
  `reading.of = view` fails. The docs place the current snapshot in `DmmRuntime`; the code has it in `DmmService`
  (`dmm-service.ts:197`).

## 6 Not modelled

Left out of the modelled components: log and metric output; parsing of messages and of SCPI tokens other than framing;
heartbeats and close codes; of the scope adapter measurements and raw SCPI requests; of the controller the XY mode,
measurements and settings that only differ from the modelled ones by their SCPI words; of the driver the plain queries.
The oscilloscope's own front panel is not used (the multimeter's is). A lost connection is modelled where sessions are
(`ScopeSession`, `ScopeInteraction`, `ScpiScheduler`, `DmmSession`, `Ppk2Capture`, `BrowserSession`, `ScopeDisplay`),
not in the controller, whose state ends with the session.

- PPK2: when bytes are lost between the start of a measurement and its first frame, the decoder begins within a sample and
  stays misaligned; the properties speak of captures that began on a clean stream (`CleanStart`). A batch that is refused,
  because its operation was stopped in the list, stops the device without the drain delay, and the next capture may count
  samples of the older measurement (`OwnSamples` excepts it as `undrained`). Conversion to amperes, the power of the device
  and its voltage are left out.
- Multimeter: a function's settings are one range, which stands for AUTO or fixed, the resolution and the rate that go
  with it; functions without a range are left out. Two turns of the panel within one operation that end where they began
  are not seen by the driver, nor a turn between the last check of a range and `CONFigure`. A rate of no name ends each
  session until the panel is turned again.
- Browser and gateway: sockets are not half open, and a stop always finds the runtime running. The store's control
  generation is implied by the token. A protocol version mismatch, the disposal of the page and the shutdown of the
  server are left out (the last is in `InstrumentLifecycle`).
- Display: a message leaves the socket buffer, its send callback runs and the browser handles it in one step; React's
  effects run with the store's change; one channel is captured, so a scope that is run between the RAW reads of two
  channels is not seen; toggled channels and measurements are left out; request numbers are used again when they are
  free; the order of queued frames of different sources is left open. A behavior begins with a session that has shown one
  frame of each source.

Not modelled as components, with the reason: the `ScopePoller` is not wired into the server; the HTTP handler, logging
and the emulator keep no state of the program; the UI components and waveform drawing are rendering and floating-point
geometry; the shared types are records here. Starvation of Normal and Background work behind endless drags cannot be
shown by a model that bounds the number of requests.

Stated and not part of a run: the type invariants, those properties that are proved, `ShutdownEnds` of `Ppk2Capture` (which
holds), and the violated ones that section 5 names, with `SubscribedIsRunning` of `InstrumentLifecycle`.

## 7 Plan

Done, most important first: the scheduler (all instruments depend on it), the transport, the interaction of browsers
with live display and controls, lifecycles of subscriptions, the driver's caches, the controller, the session; then the
PPK2's stream and captures with the ledger they implement, the multimeter, a browser's connection, and the display of
live and deep waveforms.

Theorems next: `AccountsAgree` of the stream, for which the prover would need induction over its fold.

Modules next: `ScopeActions` with the scope store (previews, their 50 ms timer, commits and published states); a second captured
channel in `ScopeDisplay`; a request ledger ("a request settles once, and its work is done at most once, within the session that
accepted it") that the scheduler over the transport implements; `ScopeSession` under `InstrumentLifecycle` as the runtime of
an instrument.
