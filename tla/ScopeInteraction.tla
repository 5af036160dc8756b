--------------------------- MODULE ScopeInteraction ---------------------------
(***************************************************************************)
(* Browsers drag and set scope controls while the scope streams live       *)
(* waveforms: interaction ownership and the horizontal control queue of    *)
(* src/server/websocket/scope-websocket-adapter.ts, the pause, resume and  *)
(* polling loop of src/server/waveform/live-waveform-service.ts, and the   *)
(* writes they put into the SCPI scheduler (ScpiScheduler.tla; here only   *)
(* its coalescing and the precedence of Immediate work).                   *)
(*                                                                         *)
(* Node runs every promise continuation before the next event.  A step is  *)
(* an event, or one of the continuations PauseOver, NextControl, StartOp;  *)
(* an event waits until no continuation is left (Quiet).                   *)
(***************************************************************************)
EXTENDS Naturals, FiniteSets, SequencesExt

CONSTANTS
  Browsers,        \* browser sessions subscribed to the scope
  Kinds,           \* requests they send: subset of AllKinds
  Keys,            \* controls they change: subset of AllKeys
  Acquirable,      \* values of "running, not XY, a source enabled"
  MaxRequests,     \* bound: requests sent
  MaxConnections,  \* bound: scope connections
  Sources          \* enabled waveform sources

AllKinds == {"update", "commit", "control"}
AllKeys  == {"horizontal", "level"}
Requests == 1 .. MaxRequests
None     == "none"

ASSUME InteractionAssumption ==
  /\ Kinds \subseteq AllKinds
  /\ Keys \subseteq AllKeys
  /\ None \notin Browsers
  /\ Acquirable \subseteq BOOLEAN /\ Acquirable # {}
  /\ MaxRequests \in Nat
  /\ MaxConnections \in Nat \ {0}
  /\ Sources \in Nat \ {0}

VARIABLES
  owner,       \* interactionOwner
  subscribed,  \* browsers subscribed to the scope
  issued,      \* number of requests sent
  request,     \* what each request asks for, and on which connection
  status,      \* where each request is
  queue,       \* the scheduler's pending operations, oldest first
  op,          \* the operation it runs
  scope,       \* per control: the request whose value the scope has
  conn,        \* number of the current scope connection
  up,          \* the runtime has a session
  wanted,      \* liveWanted
  paused,
  fresh,       \* freshWanted
  loop,        \* where the polling loop awaits; "idle": loopPromise is null
  left,        \* sources left in its cycle
  acquirable   \* the scope state allows a cycle

live == <<wanted, paused, fresh, loop, left>>
vars == <<owner, subscribed, issued, request, status, queue, op, scope,
          conn, up, live, acquirable>>

(* prepares: before its write it awaits the end of a STOP or of a change of *)
(* the timebase mode.  It depends on the value, and is known in advance.   *)
Request   == [kind : AllKinds, who : Browsers, key : AllKeys,
              conn : 1 .. MaxConnections, prepares : BOOLEAN]
Operation == [kind : {"write", "readback"}, prio : AllKinds, key : AllKeys,
              val : Requests, reqs : SUBSET Requests]
LiveRead  == [kind |-> "live", prio |-> "live", key |-> None,
              val |-> 0, reqs |-> {}]
NoOp      == [LiveRead EXCEPT !.kind = None]

Statuses == {"unsent", "queued", "pausing", "preparing", "writing", "readback",
             "done", "failed"}

TypeOK ==
  /\ owner \in Browsers \cup {None}
  /\ subscribed \subseteq Browsers
  /\ issued \in 0 .. MaxRequests
  /\ request \in Seq(Request) /\ Len(request) = issued
  /\ status \in [Requests -> Statuses]
  /\ queue \in Seq(Operation \cup {LiveRead})
  /\ op \in Operation \cup {LiveRead, NoOp}
  /\ scope \in [Keys -> 0 .. MaxRequests]
  /\ conn \in 1 .. MaxConnections
  /\ {up, wanted, paused, fresh, acquirable} \subseteq BOOLEAN
  /\ loop \in {"idle", "reading", "gap", "delay"}
  /\ left \in 0 .. Sources

-----------------------------------------------------------------------------
(* The scheduler's queue.                                                  *)

OpOf(r, asked, kind) ==
  [kind |-> kind, prio |-> asked.kind, key |-> asked.key, val |-> r,
   reqs |-> {r}]

(* The pending movement of a control.                                      *)
Movement(q, key) ==
  {i \in DOMAIN q : q[i].kind = "write" /\ q[i].prio = "update" /\ q[i].key = key}

(* Mutant: a final value leaves the pending movement in the queue.         *)
ScheduleKeepsMovement(q, o) == Append(q, o)

(* scheduleInteractive for an update, scheduleImmediate for a commit,      *)
(* schedule for the rest.                                                  *)
Schedule(q, o) ==
  LET same == Movement(q, o.key)
      i    == CHOOSE j \in same : TRUE
      all  == [o EXCEPT !.reqs = @ \cup q[i].reqs]
  IN  IF o.kind # "write" \/ o.prio = "control" \/ same = {} THEN Append(q, o)
      ELSE IF o.prio = "update" THEN [q EXCEPT ![i] = all]
      ELSE Append(RemoveAt(q, i), all)

(* takeNext: Immediate work before the rest, each priority in order.       *)
Selectable ==
  {i \in DOMAIN queue : \A j \in DOMAIN queue :
     /\ queue[j].prio = queue[i].prio => i <= j
     /\ queue[j].prio = "commit" => queue[i].prio = "commit"}

-----------------------------------------------------------------------------
(* The live waveform service.                                              *)

(* runLoop from the top of its while: a cycle begins or the loop ends.     *)
(* The result is the state of the loop, freshWanted and the queue.         *)
LoopTop(w, p, f, q) ==
  IF w /\ f /\ ~p /\ acquirable
  THEN [loop |-> "reading", left |-> Sources - 1, fresh |-> FALSE,
        queue |-> Append(q, LiveRead)]
  ELSE [loop |-> "idle", left |-> 0, fresh |-> FALSE, queue |-> q]

Becomes(n) ==
  /\ loop' = n.loop
  /\ left' = n.left
  /\ fresh' = n.fresh
  /\ queue' = n.queue

(* requestFresh, after the queue became q and paused became p.             *)
RequestFresh(p, q) ==
  IF ~wanted \/ p
  THEN Becomes([loop |-> loop, left |-> left, fresh |-> fresh, queue |-> q])
  ELSE IF loop = "idle" THEN Becomes(LoopTop(wanted, p, TRUE, q))
  ELSE Becomes([loop |-> loop, left |-> left, fresh |-> TRUE, queue |-> q])

(* resumeLiveWaveform: nothing without a session.                          *)
Resume(q) ==
  /\ paused' = IF up THEN FALSE ELSE paused
  /\ RequestFresh(paused', q)

(* pauseLiveWaveform, up to its wait for the loop.                         *)
Pause ==
  /\ paused' = (up \/ paused)
  /\ fresh' = (~up /\ fresh)

-----------------------------------------------------------------------------

Init ==
  /\ owner = None
  /\ subscribed = Browsers
  /\ issued = 0
  /\ request = <<>>
  /\ status = [r \in Requests |-> "unsent"]
  /\ op = NoOp
  /\ scope = [k \in Keys |-> 0]
  /\ conn = 1
  /\ up = TRUE
  /\ wanted = TRUE
  /\ paused = FALSE
  /\ fresh = FALSE
  /\ acquirable \in Acquirable
  /\ loop = IF acquirable THEN "reading" ELSE "idle"
  /\ left = IF acquirable THEN Sources - 1 ELSE 0
  /\ queue = IF acquirable THEN <<LiveRead>> ELSE <<>>

Executing(r) == status[r] \in {"pausing", "preparing", "writing", "readback"}

ControlExecuting ==
  \E r \in 1 .. issued : request[r].kind = "control" /\ Executing(r)

QueuedControls == {r \in Requests : status[r] = "queued"}

(* Continuations that run before the next event.                           *)
CanStartControl == QueuedControls # {} /\ ~ControlExecuting
CanEndPause     == loop = "idle" /\ \E r \in Requests : status[r] = "pausing"
CanStartOp      == op = NoOp /\ queue # <<>>

Quiet == ~CanStartControl /\ ~CanEndPause /\ ~CanStartOp

(* A request goes on after its pause: the controller shows the value       *)
(* (which asks for a fresh waveform) and writes it, or first prepares the  *)
(* scope for it.                                                           *)
Write(r, asked) ==
  \/ /\ up /\ asked.prepares
     /\ status' = [status EXCEPT ![r] = "preparing"]
     /\ RequestFresh(paused, queue)
  \/ /\ up /\ ~asked.prepares
     /\ status' = [status EXCEPT ![r] = "writing"]
     /\ RequestFresh(paused, Schedule(queue, OpOf(r, asked, "write")))
  \/ /\ ~up
     /\ status' = [status EXCEPT ![r] = "failed"]
     /\ UNCHANGED <<queue, loop, left, fresh>>

Oldest(r, R) == r \in R /\ \A s \in R : r <= s

(* waitForIdle returns to the oldest of the waiting requests.              *)
PauseOver ==
  /\ CanEndPause
  /\ \E r \in Requests :
       Oldest(r, {s \in Requests : status[s] = "pausing"}) /\ Write(r, request[r])
  /\ UNCHANGED <<owner, subscribed, issued, request, op, scope, conn, up,
                 wanted, paused, acquirable>>

(* The pump takes the next operation.                                      *)
StartOp ==
  /\ CanStartOp
  /\ \E i \in Selectable :
       /\ op' = queue[i]
       /\ queue' = RemoveAt(queue, i)
  /\ UNCHANGED <<owner, subscribed, issued, request, status, scope, conn, up,
                 live, acquirable>>

(* The horizontal control queue runs the next control once the one before  *)
(* it has ended.                                                           *)
NextControl ==
  /\ CanStartControl
  /\ \E r \in Requests :
       /\ Oldest(r, QueuedControls)
       /\ status' = [status EXCEPT ![r] = IF up THEN "pausing" ELSE "failed"]
  /\ Pause
  /\ UNCHANGED <<owner, subscribed, issued, request, queue, op, scope, conn,
                 up, wanted, loop, left, acquirable>>

-----------------------------------------------------------------------------
(* Messages from a browser.                                                *)

NewRequest(kind, b, key) ==
  /\ Quiet
  /\ issued < MaxRequests
  /\ issued' = issued + 1
  /\ \E p \in {key = "horizontal", FALSE} :
       request' = Append(request, [kind |-> kind, who |-> b, key |-> key,
                                   conn |-> conn, prepares |-> p])
  /\ UNCHANGED <<subscribed, op, scope, conn, up, wanted, acquirable>>

Refused(b) == b \notin subscribed \/ ~up

Refuse ==
  /\ status' = [status EXCEPT ![issued + 1] = "failed"]
  /\ UNCHANGED <<owner, queue, paused, fresh, loop, left>>

(* InteractionUpdate and InteractionCommit: acquireInteraction pauses only *)
(* when it takes the ownership; the owner goes on at once.                 *)
Interaction(kind, b, key) ==
  LET r == issued + 1
  IN  /\ NewRequest(kind, b, key)
      /\ \/ /\ Refused(b) \/ owner \notin {None, b}
            /\ Refuse
         \/ /\ ~Refused(b) /\ owner = b
            /\ Write(r, request'[r])
            /\ UNCHANGED <<owner, paused>>
         \/ /\ ~Refused(b) /\ owner = None
            /\ owner' = b
            /\ status' = [status EXCEPT ![r] = "pausing"]
            /\ Pause
            /\ UNCHANGED <<queue, loop, left>>

(* ControlSet of a horizontal control.                                     *)
HorizontalControl(b) ==
  /\ NewRequest("control", b, "horizontal")
  /\ \/ Refused(b) /\ Refuse
     \/ /\ ~Refused(b)
        /\ status' = [status EXCEPT ![issued + 1] = "queued"]
        /\ UNCHANGED <<owner, queue, paused, fresh, loop, left>>

(* The browser unsubscribes or its socket closes: sessionUnsubscribed.     *)
Unsubscribe(b) ==
  /\ Quiet
  /\ b \in subscribed
  /\ subscribed' = subscribed \ {b}
  /\ IF owner = b
     THEN owner' = None /\ Resume(queue)
     ELSE UNCHANGED <<owner, queue, paused, fresh, loop, left>>
  /\ UNCHANGED <<issued, request, status, op, scope, conn, up, wanted,
                 acquirable>>

-----------------------------------------------------------------------------
(* The scope answers an operation.                                         *)

(* The requests R have ended: a commit releases the interaction of its     *)
(* browser, a control resumes unless somebody owns an interaction.         *)
End(R) ==
  LET commits  == {r \in R : request[r].kind = "commit"}
      controls == {r \in R : request[r].kind = "control"}
  IN  IF \E r \in commits : request[r].who = owner
      THEN owner' = None /\ Resume(queue)
      ELSE IF controls # {} /\ owner = None
      THEN Resume(queue) /\ UNCHANGED owner
      ELSE UNCHANGED <<owner, queue, paused, fresh, loop, left>>

(* writeRollTimebaseControl has awaited what precedes the write, the       *)
(* operations and the timer of ScopeController.tla: it writes, or ends.    *)
Prepared(r) ==
  /\ Quiet
  /\ status[r] = "preparing"
  /\ \/ /\ up
        /\ status' = [status EXCEPT ![r] = "writing"]
        /\ queue' = Schedule(queue, OpOf(r, request[r], "write"))
        /\ UNCHANGED <<owner, paused, fresh, loop, left>>
     \/ /\ status' = [status EXCEPT ![r] = "failed"]
        /\ End({r})
  /\ UNCHANGED <<subscribed, issued, request, op, scope, conn, up, wanted, acquirable>>

Becoming(R, s) == [r \in Requests |-> IF r \in R THEN s ELSE status[r]]

(* The sequence of the requests of R in the order sent.                    *)
InOrder(R) ==
  {s \in [1 .. Cardinality(R) -> R] : \A i, j \in DOMAIN s : i < j => s[i] < s[j]}

ReadBacks(s) ==
  [i \in DOMAIN s |-> OpOf(s[i], request[s[i]], "readback")]

(* A horizontal value is read back by everyone who waited for the write.   *)
Written ==
  /\ op.kind = "write"
  /\ scope' = [scope EXCEPT ![op.key] = op.val]
  /\ IF op.key = "horizontal"
     THEN /\ status' = Becoming(op.reqs, "readback")
          /\ \E s \in InOrder(op.reqs) : queue' = queue \o ReadBacks(s)
          /\ UNCHANGED <<owner, paused, fresh, loop, left>>
     ELSE /\ status' = Becoming(op.reqs, "done")
          /\ End(op.reqs)

ReadBack ==
  /\ op.kind = "readback"
  /\ status' = Becoming(op.reqs, "done")
  /\ End(op.reqs)
  /\ UNCHANGED scope

(* The instrument refuses or garbles the answer; the connection survives.  *)
Failed ==
  /\ op.kind \in {"write", "readback"}
  /\ status' = Becoming(op.reqs, "failed")
  /\ End(op.reqs)
  /\ UNCHANGED scope

(* acquireCycle after a live read: publish and yield, or end if paused.    *)
ReadDone ==
  /\ op.kind = "live"
  /\ IF paused
     THEN Becomes(LoopTop(wanted, paused, fresh, queue))
     ELSE loop' = "gap" /\ UNCHANGED <<left, fresh, queue>>
  /\ UNCHANGED <<owner, status, scope, paused>>

(* A failed read ends a paused loop; otherwise the loop polls again.       *)
ReadFailed ==
  /\ op.kind = "live"
  /\ IF paused
     THEN Becomes(LoopTop(wanted, paused, fresh, queue))
     ELSE Becomes([loop |-> "delay", left |-> 0, fresh |-> TRUE,
                   queue |-> queue])
  /\ UNCHANGED <<owner, status, scope, paused>>

OpDone ==
  /\ Quiet
  /\ op # NoOp
  /\ op' = NoOp
  /\ Written \/ ReadBack \/ Failed \/ ReadDone \/ ReadFailed
  /\ UNCHANGED <<subscribed, issued, request, conn, up, wanted, acquirable>>

-----------------------------------------------------------------------------
(* Timers, the scope's own state, and the connection.                      *)

(* The yield after a published frame: next source, or the poll delay.      *)
GapOver ==
  /\ Quiet
  /\ loop = "gap"
  /\ IF wanted /\ ~paused
     THEN IF left > 0
          THEN Becomes([loop |-> "reading", left |-> left - 1,
                        fresh |-> fresh, queue |-> Append(queue, LiveRead)])
          ELSE Becomes([loop |-> "delay", left |-> 0, fresh |-> TRUE,
                        queue |-> queue])
     ELSE Becomes(LoopTop(wanted, paused, fresh, queue))
  /\ UNCHANGED <<owner, subscribed, issued, request, status, op, scope, conn,
                 up, wanted, paused, acquirable>>

DelayOver ==
  /\ Quiet
  /\ loop = "delay"
  /\ Becomes(LoopTop(wanted, paused, fresh, queue))
  /\ UNCHANGED <<owner, subscribed, issued, request, status, op, scope, conn,
                 up, wanted, paused, acquirable>>

(* Mutant: a changed scope state does not ask for a waveform.              *)
StateChangedSilently ==
  /\ Quiet
  /\ acquirable' \in Acquirable \ {acquirable}
  /\ UNCHANGED <<owner, subscribed, issued, request, status, queue, op, scope,
                 conn, up, live>>

(* Run, Stop, XY or a source enabled: the state store reports a new state. *)
StateChanged ==
  /\ Quiet
  /\ acquirable' \in Acquirable \ {acquirable}
  /\ IF ~wanted \/ paused \/ ~up THEN UNCHANGED <<fresh, loop, left, queue>>
     ELSE IF loop # "idle"
     THEN fresh' = TRUE /\ UNCHANGED <<loop, left, queue>>
     ELSE IF acquirable'
     THEN Becomes([loop |-> "reading", left |-> Sources - 1,
                   fresh |-> FALSE, queue |-> Append(queue, LiveRead)])
     ELSE UNCHANGED <<fresh, loop, left, queue>>
  /\ UNCHANGED <<owner, subscribed, issued, request, status, op, scope, conn,
                 up, wanted, paused>>

(* Mutant: stop rejects what waits but forgets the running operation.      *)
RejectedPending ==
  [r \in Requests |->
     IF status[r] \in {"writing", "readback"} /\ r \notin op.reqs
     THEN "failed" ELSE status[r]]

(* scheduler.stop and the lost transport reject all scheduled work.        *)
Rejected ==
  [r \in Requests |->
     IF status[r] \in {"writing", "readback"} THEN "failed" ELSE status[r]]

(* The session ends: it is forgotten, its adapter releases the interaction,*)
(* live.stop, scheduler.stop, transport.disconnect.                        *)
Disconnect ==
  /\ Quiet
  /\ up
  /\ up' = FALSE
  /\ owner' = None
  /\ wanted' = FALSE
  /\ fresh' = FALSE
  /\ queue' = <<>>
  /\ op' = NoOp
  /\ status' = Rejected
  /\ loop' = IF loop = "reading" THEN "idle" ELSE loop
  /\ left' = 0
  /\ UNCHANGED <<subscribed, issued, request, scope, conn, paused,
                 acquirable>>

(* A new session starts with a new live service.  It takes longer than the *)
(* 50 ms for which a stopped scope settles (reconnectDelayMs, two seconds).*)
NewSession ==
  /\ ~up /\ conn < MaxConnections
  /\ \A r \in Requests : status[r] # "preparing"
  /\ conn' = conn + 1
  /\ up' = TRUE
  /\ wanted' = TRUE
  /\ paused' = FALSE
  /\ loop' = IF acquirable THEN "reading" ELSE "idle"
  /\ left' = IF acquirable THEN Sources - 1 ELSE 0
  /\ queue' = IF acquirable THEN <<LiveRead>> ELSE <<>>
  /\ UNCHANGED <<owner, subscribed, issued, request, status, op, scope, fresh,
                 acquirable>>

(* Mutant: the next session does not wait for the old loop.                *)
ReconnectAtOnce == Quiet /\ NewSession

(* disposeSession has seen the old loop end; the runtime connects again.   *)
Reconnect == Quiet /\ loop = "idle" /\ NewSession

Next ==
  \/ PauseOver \/ StartOp \/ NextControl
  \/ \E b \in Browsers :
       \/ \E kind \in Kinds \ {"control"}, key \in Keys :
            Interaction(kind, b, key)
       \/ "control" \in Kinds /\ "horizontal" \in Keys /\ HorizontalControl(b)
       \/ Unsubscribe(b)
  \/ (\E r \in Requests : Prepared(r))
  \/ OpDone \/ GapOver \/ DelayOver
  \/ StateChanged \/ Disconnect \/ Reconnect

Spec == Init /\ [][Next]_vars

(* The event loop turns, timers fire, and the scope answers or the         *)
(* response timer ends the operation.                                      *)
FairSpec ==
  Spec /\ WF_vars(PauseOver) /\ WF_vars(StartOp) /\ WF_vars(NextControl)
       /\ WF_vars(\E r \in Requests : Prepared(r))
       /\ WF_vars(OpDone) /\ WF_vars(GapOver) /\ WF_vars(DelayOver)

-----------------------------------------------------------------------------
(* Properties.                                                             *)

(* The live display never freezes for good.  A pause has somebody who will *)
(* end it, the owner of an interaction or a horizontal control in          *)
(* progress; and no wake-up is lost: while the scope acquires and nobody   *)
(* pauses, the polling loop is alive, whatever pauses, resumes and state   *)
(* changes met it in.                                                      *)
LiveKeepsPolling ==
  up =>
    /\ paused => owner # None \/ ControlExecuting
    /\ ~paused /\ acquirable => loop # "idle"

(* Work accepted on one scope connection never reaches the scope on the    *)
(* next, although it may wait for a pause or in the control queue while    *)
(* the connection is replaced.                                             *)
NoReplay ==
  \A o \in ToSet(queue) \cup {op} : \A r \in o.reqs : request[r].conn = conn

(* Horizontal controls of all browsers reach the scope in the order sent,  *)
(* although each waits for a pause of its own: the last accepted wins.     *)
ControlsInOrder ==
  [][\A k \in Keys :
       /\ scope'[k] # scope[k] /\ scope[k] # 0
       /\ request[scope[k]].kind = "control"
       /\ request[scope'[k]].kind = "control"
       => scope[k] < scope'[k]]_vars

(* docs/scpi-scheduler.md:130 -- "the final interaction value cannot be    *)
(* lost behind a stale intermediate value": once a commit is done, no      *)
(* older movement by the same browser is on the scope that was written     *)
(* without a preparation.                                                  *)
FinalValueKept ==
  \A c \in 1 .. issued :
    request[c].kind = "commit" /\ status[c] = "done" =>
      LET v == scope[request[c].key]
      IN  request[v].who = request[c].who /\ request[v].kind = "update"
             /\ ~request[v].prepares
          => c < v

(* While the scope never acquires, nobody waits for a pause and a commit   *)
(* keeps its place after the movements it completes.                       *)
FinalValueKeptStopped == [](~acquirable) => []FinalValueKept

(* The value asked for last is the one the scope ends on: a control's over *)
(* older controls, a commit's over the movements it completes.             *)
LastAskedWins == ControlsInOrder /\ FinalValueKeptStopped

(* docs/websocket-protocol.md:257 -- "Messages with request IDs receive a  *)
(* typed result, CommandCompleted, or CommandFailed."                      *)
RequestsAnswered ==
  \A r \in Requests :
    status[r] = "queued" ~> status[r] \in {"done", "failed"}

(* As long as nobody drags, every horizontal control of every browser is   *)
(* answered, across pauses, state changes and lost connections.            *)
ControlsAnswered ==
  [](\A r \in 1 .. issued : request[r].kind = "control") => RequestsAnswered
=============================================================================
