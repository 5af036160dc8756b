------------------------------ MODULE ScopeSession ------------------------------
(***************************************************************************)
(* The physical session of the oscilloscope, its loss and recovery, and    *)
(* the Sleep of the instrument: src/server/scope-runtime.ts,               *)
(* src/server/scope/scope-power-lifecycle.ts and tcp-reachability-monitor. *)
(*                                                                         *)
(* The runtime runs one session loop: connect, serve until the session     *)
(* fails, dispose, wait, and again.  start and stop come from the registry *)
(* (InstrumentLifecycle.tla), which starts no runtime that still stops;    *)
(* Sleep comes from a browser at any time.  Of the live waveform only      *)
(* matters whether its loop is idle, reads, or waits for the next poll     *)
(* (ScopeInteraction.tla has the rest): a read is all that notices that    *)
(* the transport is gone.                                                  *)
(***************************************************************************)
EXTENDS Naturals

CONSTANTS
  MaxFaults,  \* bound: failures while the scope is reachable
  MaxSleeps   \* bound: Sleep requests

ASSUME SessionAssumption == MaxFaults \in Nat /\ MaxSleeps \in Nat

VARIABLES
  running, suspended,  \* ScopeRuntime.running, sleepSuspended
  loop,        \* the session loop (loopPromise): "none", "connecting",
               \* "serving", "disposing" or "delay"
  stopping,    \* a call of stop() waits for the loop
  published,   \* the connection that browsers are shown
  usable,      \* ScpiTransport.isUsable() of the session
  live,        \* the loop of LiveWaveformService: "idle", "reading", "waiting"
  acquirable,  \* a poll would read: not Stopped, not paused, a source enabled
  power,       \* ScopePowerLifecycle.sleep(): "awake", "suspending", "tapping",
               \* "asleep"
  monitor,     \* the wake monitor: "none", "watching", "sawOffline"
  closed,      \* ScopeService.close() was called
  online,      \* the scope answers on its SCPI port
  faults, sleeps

runtime == <<running, suspended, loop, stopping, published>>
session == <<usable, live, acquirable>>
sleep   == <<power, monitor, closed>>
counts  == <<faults, sleeps>>
sessionVars == <<runtime, session, sleep, online, counts>>

SessionInit ==
  /\ running = FALSE /\ suspended = FALSE
  /\ loop = "none" /\ stopping = FALSE /\ published = "inactive"
  /\ usable = FALSE /\ live = "idle" /\ acquirable = TRUE
  /\ power = "awake" /\ monitor = "none" /\ closed = FALSE
  /\ online \in BOOLEAN
  /\ faults = 0 /\ sleeps = 0

-----------------------------------------------------------------------------
(* ScopeRuntime: start, stop and the session loop.                         *)

ShouldRun == running /\ ~suspended

StartSessionLoop == loop' = "connecting" /\ published' = "pending"

\* disposeSession: the live loop is told to stop and a read in flight fails
\* with the transport; a poll delay runs to its end.
Dispose ==
  /\ usable' = FALSE
  /\ live' = IF live = "reading" THEN "idle" ELSE live
  /\ UNCHANGED acquirable

\* interruptSessionLoop: a retry delay or a connection attempt ends the loop.
InterruptSessionLoop ==
  /\ loop' = CASE loop = "serving"   -> "disposing"
               [] loop = "disposing" -> "disposing"
               [] OTHER              -> "none"
  /\ IF loop = "serving" THEN Dispose ELSE UNCHANGED session

\* Mutant: a start forgets that the scope sleeps.
StartAwake ==
  /\ ~running /\ ~stopping
  /\ running' = TRUE
  /\ StartSessionLoop
  /\ UNCHANGED <<suspended, stopping, session, sleep, online, counts>>

Start ==
  /\ ~running /\ ~stopping
  /\ running' = TRUE
  /\ IF suspended THEN published' = "sleeping" /\ UNCHANGED loop ELSE StartSessionLoop
  /\ UNCHANGED <<suspended, stopping, session, sleep, online, counts>>

Stop ==
  /\ running
  /\ running' = FALSE
  /\ stopping' = TRUE
  /\ published' = "inactive"
  /\ InterruptSessionLoop
  /\ UNCHANGED <<suspended, sleep, online, counts>>

\* waitForSessionLoop of stop()
StopDone ==
  /\ stopping /\ loop = "none"
  /\ stopping' = FALSE
  /\ UNCHANGED <<running, suspended, loop, published, session, sleep, online, counts>>

\* createSession and what the loop does with the new session: what the scope
\* is found doing decides whether the live waveform reads.
Connected ==
  /\ loop = "connecting" /\ online
  /\ loop' = "serving"
  /\ published' = "Connected"
  /\ usable' = TRUE
  /\ acquirable' \in BOOLEAN
  /\ live' = IF acquirable' THEN "reading" ELSE "idle"
  /\ UNCHANGED <<running, suspended, stopping, sleep, online, counts>>

\* The scope is absent, or, at times, refuses or answers wrongly.
Fault ==
  \/ ~online /\ UNCHANGED faults
  \/ online /\ faults < MaxFaults /\ faults' = faults + 1

ConnectFails ==
  /\ loop = "connecting" /\ Fault
  /\ loop' = "delay"
  /\ published' = "failed"
  /\ UNCHANGED <<running, suspended, stopping, session, sleep, online, sleeps>>

RetryDelayOver ==
  /\ loop = "delay"
  /\ loop' = "connecting"
  /\ UNCHANGED <<running, suspended, stopping, published, session, sleep, online, counts>>

\* The transport is invalidated: the socket closes, or a control times out.
TransportLost ==
  /\ loop = "serving" /\ usable /\ Fault
  /\ usable' = FALSE
  /\ UNCHANGED <<runtime, live, acquirable, sleep, online, sleeps>>

Disposed ==
  /\ loop = "disposing" /\ live = "idle"
  /\ loop' = IF ShouldRun THEN "delay" ELSE "none"
  /\ UNCHANGED <<running, suspended, stopping, published, session, sleep, online, counts>>

-----------------------------------------------------------------------------
(* The live waveform.                                                      *)

\* The state store changes: requestFresh.
StateChanged ==
  /\ loop = "serving"
  /\ acquirable' = ~acquirable
  /\ live' = IF live = "idle" /\ acquirable' THEN "reading" ELSE live
  /\ UNCHANGED <<runtime, usable, sleep, online, counts>>

ReadDone ==
  /\ live = "reading" /\ usable /\ online
  /\ live' = "waiting"
  /\ UNCHANGED <<runtime, usable, acquirable, sleep, online, counts>>

ReadError ==
  \/ ~usable /\ UNCHANGED faults
  \/ usable /\ Fault

\* Mutant: the error is reported to the log only.
ReadFailsLogged ==
  /\ live = "reading" /\ ReadError
  /\ usable' = FALSE
  /\ live' = "waiting"
  /\ UNCHANGED <<runtime, acquirable, sleep, online, sleeps>>

\* reportError on a dead transport fails the session; the live loop goes on
\* to its poll delay, which disposeSession then waits for.
ReadFails ==
  /\ live = "reading" /\ ReadError
  /\ usable' = FALSE
  /\ live' = "waiting"
  /\ loop' = "disposing"
  /\ published' = "failed"
  /\ UNCHANGED <<running, suspended, stopping, acquirable, sleep, online, sleeps>>

PollDelayOver ==
  /\ live = "waiting"
  /\ live' = IF loop = "serving" /\ acquirable THEN "reading" ELSE "idle"
  /\ UNCHANGED <<runtime, usable, acquirable, sleep, online, counts>>

-----------------------------------------------------------------------------
(* ScopePowerLifecycle.                                                    *)

\* sleep() and suspendForSleep; an inactive runtime refuses.
Sleep ==
  /\ power = "awake" /\ running /\ sleeps < MaxSleeps
  /\ sleeps' = sleeps + 1
  /\ power' = "suspending"
  /\ suspended' = TRUE
  /\ published' = "sleeping"
  /\ InterruptSessionLoop
  /\ UNCHANGED <<running, stopping, monitor, closed, online, faults>>

\* waitForSessionLoop of suspendForSleep
Suspended ==
  /\ power = "suspending" /\ loop = "none"
  /\ power' = "tapping"
  /\ UNCHANGED <<runtime, session, monitor, closed, online, counts>>

\* Mutant: a runtime that is inactive is not resumed.
ResumeIfRunning ==
  /\ suspended' = ~running
  /\ IF running THEN StartSessionLoop ELSE UNCHANGED <<loop, published>>
  /\ UNCHANGED <<running, stopping>>

ResumeAfterSleep ==
  /\ suspended' = FALSE
  /\ IF running /\ loop = "none" THEN StartSessionLoop ELSE UNCHANGED <<loop, published>>
  /\ UNCHANGED <<running, stopping>>

\* Dho804PowerControl.sleep: the tap is sent, or ADB fails.
Tapped ==
  /\ power = "tapping"
  /\ power' = "asleep"
  /\ monitor' = "watching"
  /\ UNCHANGED <<runtime, session, closed, online, counts>>

TapFails ==
  /\ power = "tapping"
  /\ power' = "awake"
  /\ ResumeAfterSleep
  /\ UNCHANGED <<session, monitor, closed, online, counts>>

\* waitForOfflineThenOnline: one probe.
ProbeOffline ==
  /\ monitor # "none" /\ ~online
  /\ monitor' = "sawOffline"
  /\ UNCHANGED <<runtime, session, power, closed, online, counts>>

ProbeAwake ==
  /\ monitor = "sawOffline" /\ online
  /\ monitor' = "none"
  /\ power' = "awake"
  /\ ResumeAfterSleep
  /\ UNCHANGED <<session, closed, online, counts>>

\* ScopeService.close(), when the server shuts down.
Close ==
  /\ ~closed
  /\ closed' = TRUE
  /\ monitor' = "none"
  /\ UNCHANGED <<runtime, session, power, online, counts>>

\* The scope comes and goes.
Reachability ==
  /\ online' = ~online
  /\ UNCHANGED <<runtime, session, sleep, counts>>

-----------------------------------------------------------------------------
SessionNext ==
  \/ Start \/ Stop \/ StopDone
  \/ Connected \/ ConnectFails \/ RetryDelayOver \/ TransportLost \/ Disposed
  \/ StateChanged \/ ReadDone \/ ReadFails \/ PollDelayOver
  \/ Sleep \/ Suspended \/ Tapped \/ TapFails \/ ProbeOffline \/ ProbeAwake \/ Close
  \/ Reachability

SessionSpec == SessionInit /\ [][SessionNext]_sessionVars

(* Timers expire, and what was asked of the network or of adb is answered  *)
(* or times out; no more is assumed of the scope, browsers or the registry.*)
FairSessionSpec ==
  /\ SessionSpec
  /\ WF_sessionVars(StopDone) /\ WF_sessionVars(Disposed) /\ WF_sessionVars(Suspended)
  /\ WF_sessionVars(Connected \/ ConnectFails) /\ WF_sessionVars(RetryDelayOver)
  /\ WF_sessionVars(ReadDone \/ ReadFails) /\ WF_sessionVars(PollDelayOver)
  /\ WF_sessionVars(Tapped \/ TapFails) /\ WF_sessionVars(ProbeOffline \/ ProbeAwake)

-----------------------------------------------------------------------------
\* Every variable holds a value of its kind, and a live loop that reads has
\* its session.
SessionTypeOK ==
  /\ running \in BOOLEAN /\ suspended \in BOOLEAN /\ stopping \in BOOLEAN
  /\ loop \in {"none", "connecting", "serving", "disposing", "delay"}
  /\ published \in {"inactive", "sleeping", "pending", "failed", "Connected"}
  /\ usable \in BOOLEAN /\ acquirable \in BOOLEAN
  /\ live \in {"idle", "reading", "waiting"}
  /\ power \in {"awake", "suspending", "tapping", "asleep"}
  /\ monitor \in {"none", "watching", "sawOffline"}
  /\ closed \in BOOLEAN /\ online \in BOOLEAN
  /\ faults \in 0 .. MaxFaults /\ sleeps \in 0 .. MaxSleeps
  /\ live = "reading" \/ usable => loop = "serving"
  /\ loop \in {"none", "connecting", "delay"} => live = "idle"

(* What browsers are shown is what the runtime does, however starts, stops, *)
(* Sleep and failures of the session overtake each other.                   *)
PublishedIsTrue ==
  /\ ~running => published = "inactive"
  /\ running /\ suspended => published = "sleeping"
  /\ ShouldRun => published \in {"pending", "failed", "Connected"}
  /\ published = "Connected" <=> loop = "serving"

(* A runtime that should run has a session loop: a resume, a start or a     *)
(* failure that meets a loop about to end does not leave it without one.    *)
RunningHasLoop == ShouldRun => loop # "none"

(* While adb operates the scope's power menu and while the scope sleeps, no *)
(* session exists or is attempted, whoever starts the runtime meanwhile.    *)
SleepIsQuiet == power \in {"tapping", "asleep"} => suspended /\ loop = "none"

(* The loop, what is shown of it, and what Sleep needs of it, agree.        *)
SessionIsTrue == PublishedIsTrue /\ RunningHasLoop /\ SleepIsQuiet

(* A session is gone before the next one is attempted.                      *)
OneSession == [][loop = "disposing" => loop' \in {"disposing", "delay", "none"}]_sessionVars

(* A runtime that runs, of a scope that is there and acquires, is connected *)
(* again in the end.                                                        *)
Reconnects ==
  <>[](ShouldRun /\ online /\ acquirable) => <>[](loop = "serving" /\ usable)

(* A wake that the monitor can see ends the suspension.                     *)
SleepEnds == [](monitor = "sawOffline" /\ []online => <>(~suspended \/ closed))

(* A session whose transport is lost is closed and recovered through the    *)
(* runtime (docs/architecture.md:256), also while nothing is acquired.      *)
LostIsRecovered ==
  loop = "serving" /\ ~usable ~> loop # "serving" \/ ~online
=============================================================================
