---------------------------- MODULE ScopeController ----------------------------
(***************************************************************************)
(* Controls of several browsers and the state the server shows for them:   *)
(* src/server/scope/scope-controller.ts over the command and query methods *)
(* of dho804-driver.ts and the queues of scpi-scheduler.ts.                *)
(*                                                                         *)
(* A control is shown at once (optimistic), then written, and some are     *)
(* read back in the end; a mutation revision guards what is read back.  A  *)
(* timebase change of a running scope is STOP, a pause, the write and RUN. *)
(*                                                                         *)
(* Requests may overlap in every way, also in ways that the adapter above  *)
(* (ScopeInteraction.tla: the horizontal queue, the owner of a drag) rules *)
(* out for the timebase.                                                   *)
(*                                                                         *)
(* One operation is on the wire at a time.  When it is done the requests   *)
(* that wait for it go on (Resume), before the next event (Begin, a timer) *)
(* and in any order with the start of the next operation.  A failure here  *)
(* is an answer the driver refuses; a lost connection ends the session     *)
(* with its controller and its store and is not modelled in this module.   *)
(***************************************************************************)
EXTENDS Integers, FiniteSets, Sequences, SequencesExt

CONSTANTS
  Callers,    \* requests that can be in flight together
  Values,     \* values of a setting
  RollMin,    \* ROLL_MIN_SCALE_SECONDS: from here on the scope rolls
  Coerce,     \* what the scope makes of a value it is sent
  Workloads   \* what browsers send: sets of requests, and the bounds on how
              \* many are sent (total), at once (inFlight), refused (refusals)

Actions == {"run", "stop", "single"}
Kinds   == {"set", "update", "commit"}

\* What a browser may send.  The mode is chosen with the scale, and is no
\* control of its own here.
Requests ==
  [kind : Kinds, prop : {"scale", "position", "sweep", "level"}, value : Values]
    \cup [kind : {"action"}, prop : Actions, value : {0}]

ASSUME ControllerAssumption ==
  /\ IsFiniteSet(Callers)
  /\ Values \subseteq Nat /\ 0 \in Values /\ RollMin \in Nat \ {0}
  /\ Coerce \in [Values -> Values] /\ Coerce[0] = 0
  /\ \A w \in Workloads : /\ w.requests \subseteq Requests
                          /\ w.total \in Nat /\ w.inFlight \in Nat /\ w.refusals \in Nat

VARIABLES
  workload,  \* what the browsers of this behavior send
  store,     \* ScopeStateStore: what browsers are shown
  device,    \* the settings and the run state of the scope
  revision,  \* mutationRevision
  job,       \* the request of each caller and how far it got
  pending,   \* operations queued in the scheduler, oldest first
  active,    \* the operation on the wire: <<>> or <<operation>>
  ready,     \* callers to resume, with the answer they waited for
  timers,    \* running timers, oldest first
  asked,     \* history: the newest value asked of each setting, the newest run action
  failures

bus  == <<pending, active>>
controllerVars == <<workload, store, device, revision, job, pending, active, ready, timers, asked, failures>>

-----------------------------------------------------------------------------
Horizontal == {"scale", "mode", "position"}
Trigger    == {"sweep", "level"}
ControlSettings   == Horizontal \cup Trigger
Group(p)   == IF p \in Horizontal THEN Horizontal ELSE Trigger

Immediate   == 0
Interactive == 1
Normal      == 2

PriorityOf(r) == IF r.kind = "update" THEN Interactive
                 ELSE IF r.kind = "set" THEN Normal ELSE Immediate

\* Settings whose writes carry a coalescing key, and requests that read back.
Keyed == {"scale", "position", "level"}
ReadsBack(r) ==
  \/ r.kind = "set" /\ r.prop \in {"sweep", "scale"}
  \/ r.kind = "commit" /\ r.prop = "scale"

TargetMode(v) == IF v >= RollMin THEN 1 ELSE 0   \* 0: Main, 1: Roll

Free == [at |-> "free"]

Operation(cmd, prop, value, priority, key) ==
  [cmd |-> cmd, prop |-> prop, value |-> value, priority |-> priority, key |-> key, by |-> <<>>]

\* What each command makes of the scope; a read changes nothing.
Performed(o) ==
  IF o.cmd = "write" THEN [device EXCEPT ![o.prop] = Coerce[o.value]]
  ELSE IF o.cmd = "mode" THEN [device EXCEPT !["mode"] = o.value]
  ELSE IF o.cmd \in Actions THEN [device EXCEPT !["run"] = o.cmd]
  ELSE device

ControllerInit ==
  /\ workload \in Workloads
  /\ device = [p \in ControlSettings \cup {"run"} |-> IF p = "run" THEN "run" ELSE 0]
  /\ store = device
  /\ revision = 0
  /\ job = [c \in Callers |-> Free]
  /\ pending = <<>> /\ active = <<>> /\ ready = <<>> /\ timers = <<>>
  /\ asked = device
  /\ failures = 0

-----------------------------------------------------------------------------
(* The scheduler: keyed interactive writes coalesce, an immediate write    *)
(* takes over the waiters of the interactive one it makes stale.           *)
Coalesces(o) == o.key /\ o.priority # Normal

IsStale(o, q) == Coalesces(o) /\ q.key /\ q.priority = Interactive /\ q.prop = o.prop

\* At most one waiting operation is stale: the one before it was replaced.
HasStale(o) == \E j \in DOMAIN pending : IsStale(o, pending[j])
StaleOf(o)  == CHOOSE j \in DOMAIN pending : IsStale(o, pending[j])

WaitersOf(o, c) == IF HasStale(o) THEN Append(pending[StaleOf(o)].by, c) ELSE <<c>>

Enqueued(o, c) ==
  LET q == [o EXCEPT !.by = WaitersOf(o, c)]
  IN  IF ~HasStale(o) THEN Append(pending, q)
      ELSE IF o.priority = Interactive THEN [pending EXCEPT ![StaleOf(o)] = q]
      ELSE Append(RemoveAt(pending, StaleOf(o)), q)

\* Caller c sends an operation and waits at step "at".
Send(c, o, at) ==
  /\ pending' = Enqueued(o, c)
  /\ job' = [job EXCEPT ![c].at = at]
  /\ UNCHANGED timers

Delay(c, at) ==
  /\ timers' = Append(timers, [by |-> c, at |-> at])
  /\ job' = [job EXCEPT ![c].at = at]
  /\ UNCHANGED pending

Finish(c) == job' = [job EXCEPT ![c] = Free] /\ UNCHANGED <<pending, timers>>

\* The newest operation goes first.
Newest(i) == /\ \A j \in DOMAIN pending : pending[j].priority >= pending[i].priority
             /\ \A j \in i + 1 .. Len(pending) : pending[j].priority > pending[i].priority

First(i) == /\ \A j \in DOMAIN pending : pending[j].priority >= pending[i].priority
            /\ \A j \in 1 .. i - 1 : pending[j].priority > pending[i].priority

StartOperation ==
  /\ active = <<>>
  /\ \E i \in DOMAIN pending :
       /\ First(i)
       /\ active' = <<pending[i]>>
       /\ pending' = RemoveAt(pending, i)
  /\ UNCHANGED <<workload, store, device, revision, job, ready, timers, asked, failures>>

Resumed(answer) ==
  ready' = ready \o [i \in DOMAIN active[1].by |-> [by |-> active[1].by[i], answer |-> answer]]

FinishOperation ==
  /\ active # <<>>
  /\ device' = Performed(active[1])
  /\ Resumed([ok |-> TRUE, state |-> device])
  /\ active' = <<>>
  /\ UNCHANGED <<workload, store, revision, job, pending, timers, asked, failures>>

RefuseAnswer ==
  /\ active # <<>> /\ active[1].cmd \in {"read", "check", "readrun"}
  /\ failures < workload.refusals
  /\ failures' = failures + 1
  /\ Resumed([ok |-> FALSE, state |-> device])
  /\ active' = <<>>
  /\ UNCHANGED <<workload, store, device, revision, job, pending, timers, asked>>

\* A single acquisition stops by itself.
TriggerSingle ==
  /\ device["run"] = "single" /\ active = <<>>
  /\ device' = [device EXCEPT !["run"] = "stop"]
  /\ UNCHANGED <<workload, store, revision, job, pending, active, ready, timers, asked, failures>>

-----------------------------------------------------------------------------
(* writeRollTimebaseControl                                                *)
ModeCommand(r)  == Operation("mode", "mode", TargetMode(r.value), Normal, FALSE)
WriteCommand(r) == Operation("write", r.prop, r.value,
                     IF r.prop = "sweep" THEN Normal ELSE PriorityOf(r), r.prop \in Keyed)
ActionCommand(a) == Operation(a, "run", 0, Immediate, FALSE)
CheckCommand(r)  == Operation("check", r.prop, 0, PriorityOf(r), FALSE)
ReadCommand(r)   == Operation("read", r.prop, 0, PriorityOf(r), FALSE)

Crossing(r, s) == r.prop = "scale" /\ s["mode"] # TargetMode(r.value)

Restarts(r, s) == s["run"] # "stop" /\ (r.prop = "scale" \/ (r.prop = "position" /\ s["mode"] = 1))

\* The controller reads the store once, after it was updated optimistically.
Begun(r, s) == [request |-> r, revision |-> revision', restart |-> Restarts(r, s),
                crossing |-> Crossing(r, s), failed |-> FALSE, at |-> "begin"]

FirstCommand(r, s) ==
  IF Restarts(r, s) THEN <<ActionCommand("stop"), "stopping">>
  ELSE IF Crossing(r, s) THEN <<ModeCommand(r), "mode">>
  ELSE <<WriteCommand(r), "write">>

\* A discrete setting here stands for any setting that is written in one
\* command, with ("sweep") or without ("level") being read back afterwards.
ApplyOptimisticControl(r) == store' = [store EXCEPT ![r.prop] = r.value]

BeginControl(c, r) ==
  /\ r.kind \in Kinds
  /\ ApplyOptimisticControl(r)
  /\ asked' = [asked EXCEPT ![r.prop] = r.value]
  /\ pending' = Enqueued(FirstCommand(r, store')[1], c)
  /\ job' = [job EXCEPT ![c] = [Begun(r, store') EXCEPT !.at = FirstCommand(r, store')[2]]]

\* performAcquisitionAction
BeginAction(c, r) ==
  /\ r.kind = "action"
  /\ asked' = [asked EXCEPT !["run"] = r.prop]
  /\ LET o == IF r.prop = "single" THEN Operation("read", "scale", 0, Immediate, FALSE)
              ELSE ActionCommand(r.prop)
         at == IF r.prop = "single" THEN "single-mode" ELSE "action"
     IN  /\ pending' = Enqueued(o, c)
         /\ job' = [job EXCEPT ![c] = [Begun(r, store) EXCEPT !.at = at]]
  /\ UNCHANGED store

Begin(c, r) ==
  /\ ready = <<>> /\ job[c] = Free /\ revision < workload.total
  /\ Cardinality({d \in Callers : job[d] # Free}) < workload.inFlight
  /\ revision' = revision + 1
  /\ BeginControl(c, r) \/ BeginAction(c, r)
  /\ UNCHANGED <<workload, device, active, ready, timers, failures>>

-----------------------------------------------------------------------------
(* What a request does once the operation it waited for is done.           *)
\* The newest answer wins, whatever was asked since.
ApplyUnconditionally(c, S, s) == store' = [p \in DOMAIN store |-> IF p \in S THEN s[p] ELSE store[p]]

ApplyReconciledUpdate(c, S, s) ==
  store' = IF job[c].revision = revision THEN [p \in DOMAIN store |-> IF p \in S THEN s[p] ELSE store[p]]
           ELSE store

AfterWrite(c) ==
  LET r == job[c].request
  IN  IF ReadsBack(r) THEN Send(c, ReadCommand(r), "read") ELSE Finish(c)

\* setHorizontalScale and setHorizontalPosition query the setting they wrote.
Written(c) ==
  LET r == job[c].request
  IN  IF r.prop \in {"scale", "position"} THEN Send(c, CheckCommand(r), "check") ELSE AfterWrite(c)

\* A refused write ends the request at once.
RestartIfWritten(c, ok) ==
  IF ok THEN Send(c, ActionCommand("run"), "running") ELSE Finish(c)

\* The scope runs again whether or not the write was accepted.
Restart(c, ok) ==
  /\ pending' = Enqueued(ActionCommand("run"), c)
  /\ job' = [job EXCEPT ![c].at = "running", ![c].failed = ~ok]
  /\ UNCHANGED timers

Checked(c, ok) ==
  \/ job[c].restart /\ Restart(c, ok)
  \/ ~job[c].restart /\ ok /\ AfterWrite(c)
  \/ ~job[c].restart /\ ~ok /\ Finish(c)

ReadBack(c, ok, s) ==
  LET r == job[c].request
  IN  IF ~ok THEN Finish(c) /\ UNCHANGED store
      ELSE /\ ApplyReconciledUpdate(c, Group(r.prop), s)
           /\ IF r.prop = "sweep"
                THEN Send(c, Operation("readrun", "run", 0, Normal, FALSE), "read-run")
                ELSE Finish(c)

SingleMode(c, ok, s) ==
  IF ~ok THEN Finish(c) /\ UNCHANGED store
  ELSE /\ ApplyReconciledUpdate(c, Horizontal, s)
       /\ IF s["mode"] = 1 THEN Finish(c) ELSE Send(c, ActionCommand("single"), "single")

RunRead(c, ok, s) ==
  /\ IF ok THEN ApplyReconciledUpdate(c, {"run"}, s) ELSE UNCHANGED store
  /\ Finish(c)

ActionDone(c) ==
  /\ ApplyReconciledUpdate(c, {"run"}, [run |-> job[c].request.prop])
  /\ Finish(c)

Continue(c, ok, s) ==
  LET r == job[c].request
  IN  \/ /\ UNCHANGED store
         /\ \/ job[c].at = "stopping" /\ Delay(c, "settle")
            \/ job[c].at = "mode"     /\ Send(c, WriteCommand(r), "write")
            \/ job[c].at = "write"    /\ Written(c)
            \/ job[c].at = "check"    /\ Checked(c, ok)
            \/ job[c].at = "running"  /\ IF job[c].failed THEN Finish(c) ELSE Delay(c, "rest")
            \/ job[c].at = "single"   /\ Send(c, Operation("readrun", "run", 0, Immediate, FALSE), "read-run")
      \/ job[c].at = "read"        /\ ReadBack(c, ok, s)
      \/ job[c].at = "single-mode" /\ SingleMode(c, ok, s)
      \/ job[c].at = "read-run"    /\ RunRead(c, ok, s)
      \/ job[c].at = "action"      /\ ActionDone(c)

Resume ==
  /\ ready # <<>>
  /\ ready' = Tail(ready)
  /\ Continue(ready[1].by, ready[1].answer.ok, ready[1].answer.state)
  /\ UNCHANGED <<workload, device, revision, active, asked, failures>>

\* The acquisition has stopped; and, later, it runs again.
Settled(c) ==
  LET o == IF job[c].crossing THEN ModeCommand(job[c].request) ELSE WriteCommand(job[c].request)
  IN  /\ pending' = Enqueued(o, c)
      /\ job' = [job EXCEPT ![c].at = IF job[c].crossing THEN "mode" ELSE "write"]

Rested(c) ==
  IF ReadsBack(job[c].request)
  THEN /\ pending' = Enqueued(ReadCommand(job[c].request), c)
       /\ job' = [job EXCEPT ![c].at = "read"]
  ELSE job' = [job EXCEPT ![c] = Free] /\ UNCHANGED pending

\* Timers of one duration expire in the order in which they were set.
Expire(i) ==
  /\ ready = <<>>
  /\ \A j \in 1 .. i - 1 : timers[j].at # timers[i].at
  /\ timers' = RemoveAt(timers, i)
  /\ \/ timers[i].at = "settle" /\ Settled(timers[i].by)
     \/ timers[i].at = "rest" /\ Rested(timers[i].by)
  /\ UNCHANGED <<workload, store, device, revision, active, ready, asked, failures>>

ControllerNext ==
  \/ \E c \in Callers : \E r \in workload.requests : Begin(c, r)
  \/ StartOperation
  \/ FinishOperation
  \/ RefuseAnswer
  \/ TriggerSingle
  \/ Resume
  \/ \E i \in DOMAIN timers : Expire(i)

ControllerSpec == ControllerInit /\ [][ControllerNext]_controllerVars

-----------------------------------------------------------------------------
AllDone == \A c \in Callers : job[c] = Free

\* Settings and run states are of their kinds, and every request in flight
\* waits for exactly one operation, answer or timer: none is ever forgotten.
ControllerTypeOK ==
  /\ \A p \in ControlSettings \ {"mode"} : store[p] \in Values /\ device[p] \in Values
  /\ store["mode"] \in {0, 1} /\ device["mode"] \in {0, 1}
  /\ store["run"] \in Actions /\ device["run"] \in Actions
  /\ revision \in 0 .. workload.total /\ failures \in 0 .. workload.refusals
  /\ \A c \in Callers : job[c] # Free =>
       Cardinality({i \in DOMAIN pending : Contains(pending[i].by, c)})
       + Cardinality({i \in DOMAIN active : Contains(active[i].by, c)})
       + Cardinality({i \in DOMAIN ready : ready[i].by = c})
       + Cardinality({i \in DOMAIN timers : timers[i].by = c}) = 1

\* What the properties say of concurrent requests is conditional: one at a
\* time and none refused, only discrete trigger controls, or only timebase
\* controls.
OneAtATime   == workload.inFlight = 1 /\ workload.refusals = 0
OnlyDiscrete == \A r \in workload.requests : r.kind = "set" /\ r.prop \in Trigger
OnlyTimebase == \A r \in workload.requests : r.kind # "action"

\* What is changed by requests that read back alone.
AlwaysReadBack(p) == \A r \in workload.requests : r.prop = p => ReadsBack(r)

\* The settings of their own; the mode goes with the scale.
Plain == ControlSettings \ {"mode"}

\* Once all requests are done the scope has, of every setting, what it makes of
\* the value asked for last, however discrete controls of several browsers
\* overlap and whatever is refused.  What is shown is that or, for the controls
\* that are not read back, the value asked for; requests that are not disturbed
\* by others leave shown what the scope has (docs/scope-model.md: the final
\* authoritative readback catches rounding), and the scope in the mode that
\* the scale asked for calls for (ROLL_MIN_SCALE_SECONDS).
SettledAgrees ==
  (OneAtATime \/ OnlyDiscrete) /\ AllDone =>
    /\ \A p \in Plain : device[p] = Coerce[asked[p]] /\ store[p] \in {asked[p], device[p]}
    /\ OneAtATime => \A p \in Plain : AlwaysReadBack(p) => store[p] = device[p]
    /\ AlwaysReadBack("scale") =>
         store["mode"] = device["mode"] /\ device["mode"] = TargetMode(asked["scale"])
    /\ store["run"] # "single" => store["run"] = device["run"]

\* What is read back for one control never replaces what a browser asked for
\* since by what the scope had before (the mutation revision), but by what the
\* scope makes of it.
ShownIsNewest ==
  OneAtATime \/ OnlyDiscrete => \A p \in Plain : store[p] \in {asked[p], Coerce[asked[p]]}

\* The scale is only written while the acquisition is stopped (the comment on
\* TIMEBASE_STOP_SETTLE_MS).
WrittenStopped ==
  OneAtATime => \A p \in {"scale", "mode"} :
    device'[p] # device[p] => device["run"] = "stop"
ScaleWrittenStopped == [][WrittenStopped]_controllerVars

\* Timebase changes leave a running scope running, also those that overlap and
\* those the scope refuses (the finally of writeRollTimebaseControl).
RunRestored == OnlyTimebase /\ AllDone => device["run"] = "run"

\* A timebase change interrupts the acquisition where it must and no longer.
TimebaseKeepsRun == [][WrittenStopped /\ RunRestored']_controllerVars

\* The last run action that was asked for is a Stop: the scope ends stopped
\* (docs/architecture.md: the last accepted physical write wins).
StopWins == AllDone /\ asked["run"] = "stop" => device["run"] = "stop"
=============================================================================
