---------------------------- MODULE ScpiScheduler ----------------------------
(***************************************************************************)
(* The priority scheduler that serialises all work for one SCPI transport  *)
(* (src/server/scpi/scpi-scheduler.ts).                                    *)
(*                                                                         *)
(* A request is one call of a schedule* method; requests are numbered in   *)
(* the order of the calls.  The promise a call returns is the request's    *)
(* status; the callback it passes is the operation of the same number.     *)
(*                                                                         *)
(* The five arrays of the code are one set of entries.  An entry sits in   *)
(* the array of its priority at its "seat": the number of the request that *)
(* was pushed there.  A later operation that replaces the entry in place   *)
(* (splice at the index of the old one) keeps the seat, so array order is  *)
(* seat order.                                                             *)
(***************************************************************************)
EXTENDS Integers, FiniteSets

CONSTANTS
  MaxRequests,   \* bound: how many schedule* calls are made
  ControlKeys,   \* symbols of continuous controls (scheduleInteractive/Immediate)
  StreamKeys,    \* symbols of latest-value work (scheduleLatest)
  NoKey          \* null

ASSUME SchedulerAssumption ==
  /\ MaxRequests \in Nat
  /\ ControlKeys \cap StreamKeys = {}
  /\ NoKey \notin ControlKeys \cup StreamKeys

Immediate   == 0
Interactive == 1
Normal      == 2
Waveform    == 3
Background  == 4
Priorities  == Immediate .. Background

Requests == 1 .. MaxRequests
Keys     == ControlKeys \cup StreamKeys

(* One QueuedOperation: the operation that will run and everybody who      *)
(* awaits it.                                                              *)
Entry == [priority    : Priorities,
          seat        : Requests,
          op          : Requests,
          waiters     : SUBSET Requests,
          coalesceKey : ControlKeys \cup {NoKey},
          latestKey   : StreamKeys \cup {NoKey}]

VARIABLES
  pending,     \* the entries of the five queues
  running,     \* the entry being executed, as a set of at most one
  stopped,     \* stop() has been called
  burst,       \* interactiveBurstCount
  pumps,       \* microtasks queued by requestPump and not yet run
  usable,      \* transport.isUsable()
  sent,        \* number of schedule* calls made
  key,         \* the symbol each request named, or NoKey
  status,      \* the promise of each request
  answer,      \* the operation whose result resolved the promise; 0: none
  lastRun,     \* history: the newest operation of each key that was started
  overtaken    \* history: interactive operations started in a row while a
               \* waveform operation was waiting

vars == <<pending, running, stopped, burst, pumps, usable, sent, key, status,
          answer, lastRun, overtaken>>

Statuses == {"unsent", "waiting", "resolved", "rejected"}

TypeOK ==
  /\ pending \subseteq Entry
  /\ running \subseteq Entry
  /\ stopped \in BOOLEAN
  /\ burst \in Nat
  /\ pumps \in Nat
  /\ usable \in BOOLEAN
  /\ sent \in 0 .. MaxRequests
  /\ key \in [Requests -> Keys \cup {NoKey}]
  /\ status \in [Requests -> Statuses]
  /\ answer \in [Requests -> 0 .. MaxRequests]
  /\ lastRun \in [Keys -> 0 .. MaxRequests]
  /\ overtaken \in Nat

Init ==
  /\ pending = {}
  /\ running = {}
  /\ stopped = FALSE
  /\ burst = 0
  /\ pumps = 0
  /\ usable = TRUE
  /\ sent = 0
  /\ key = [r \in Requests |-> NoKey]
  /\ status = [r \in Requests |-> "unsent"]
  /\ answer = [r \in Requests |-> 0]
  /\ lastRun = [k \in Keys |-> 0]
  /\ overtaken = 0

-----------------------------------------------------------------------------
(* Enqueueing.                                                             *)

Queue(p) == {e \in pending : e.priority = p}

WaitersOf(entries) == UNION {e.waiters : e \in entries}

(* Mutant: two operations without a key count as the same stream.          *)
SupersededNullMatches(p, ck, lk) ==
  {e \in Queue(p) : e.coalesceKey = ck /\ e.latestKey = lk}

(* The entry a new operation with this key takes the place of.             *)
Superseded(p, ck, lk) ==
  {e \in Queue(p) : \/ ck # NoKey /\ e.coalesceKey = ck
                    \/ lk # NoKey /\ e.latestKey = lk}

(* removePendingInteractive: the pending movement a commit makes stale.    *)
StaleInteractive(k) ==
  {e \in Queue(Interactive) : k # NoKey /\ e.coalesceKey = k}

(* The QueuedOperation of request r; merged are the entries it replaces.   *)
NewEntry(p, r, seat, ck, lk, merged) ==
  [priority |-> p, seat |-> seat, op |-> r,
   waiters |-> {r} \cup WaitersOf(merged),
   coalesceKey |-> ck, latestKey |-> lk]

(* enqueue.  old is the entry replaced in place and stale the entry taken  *)
(* out of another queue; their waiters are kept.                           *)
Enqueue(p, k, ck, lk, stale) ==
  LET r   == sent + 1
      old == Superseded(p, ck, lk)
  IN  /\ sent < MaxRequests
      /\ sent' = r
      /\ key' = [key EXCEPT ![r] = k]
      /\ IF stopped
         THEN /\ status' = [status EXCEPT ![r] = "rejected"]
              /\ pending' = pending \ stale
              /\ UNCHANGED pumps
         ELSE /\ status' = [status EXCEPT ![r] = "waiting"]
              /\ \E seat \in IF old = {} THEN {r} ELSE {e.seat : e \in old} :
                   pending' = (pending \ (stale \cup old)) \cup
                     {NewEntry(p, r, seat, ck, lk, stale \cup old)}
              /\ pumps' = pumps + 1
      /\ UNCHANGED <<running, stopped, burst, usable, answer, lastRun,
                     overtaken>>

(* schedule: discrete work and reads, never merged.                        *)
Schedule(p) == Enqueue(p, NoKey, NoKey, NoKey, {})

(* scheduleInteractive: the newest movement replaces a pending older one.  *)
ScheduleInteractive(k) == Enqueue(Interactive, k, k, NoKey, {})

(* scheduleImmediate: an action (no key) or the value that ends a drag.    *)
ScheduleImmediate(k) ==
  Enqueue(Immediate, k, NoKey, NoKey, StaleInteractive(k))

(* scheduleLatest: live waveform reads, always at the waveform priority.   *)
ScheduleLatest(k) == Enqueue(Waveform, k, NoKey, k, {})

-----------------------------------------------------------------------------
(* Selecting and running.                                                  *)

(* Mutant: two interactive operations before the waveform's turn.          *)
WaveformTurnLate ==
  /\ burst > 1
  /\ Queue(Immediate) = {}
  /\ Queue(Interactive) # {}
  /\ Queue(Waveform) # {}

(* takeNext lets one waveform operation past the interactive ones that     *)
(* have run since the last waveform operation.                             *)
WaveformTurn ==
  /\ burst > 0
  /\ Queue(Immediate) = {}
  /\ Queue(Interactive) # {}
  /\ Queue(Waveform) # {}

Selectable(p) ==
  IF WaveformTurn
  THEN p = Waveform
  ELSE /\ Queue(p) # {}
       /\ \A q \in Priorities : q < p => Queue(q) = {}

(* Mutant: pop instead of shift.                                           *)
NewestOf(p) == {e \in Queue(p) : \A f \in Queue(p) : e.seat >= f.seat}

(* shift: the first element of an array.                                   *)
FrontOf(p) == {e \in Queue(p) : \A f \in Queue(p) : e.seat <= f.seat}

(* pump, up to the call of execute.                                        *)
Start ==
  /\ pumps > 0
  /\ running = {}
  /\ ~stopped
  /\ \E p \in Priorities :
       /\ Selectable(p)
       /\ \E e \in FrontOf(p) :
            /\ running' = {e}
            /\ pending' = pending \ {e}
            /\ lastRun' = IF key[e.op] = NoKey THEN lastRun
                          ELSE [lastRun EXCEPT ![key[e.op]] = e.op]
       /\ burst' = CASE p = Interactive -> burst + 1
                     [] p = Waveform    -> 0
                     [] OTHER           -> burst
       /\ overtaken' = CASE p = Waveform -> 0
                         [] p = Interactive /\ Queue(Waveform) # {}
                              -> overtaken + 1
                         [] OTHER -> overtaken
  /\ pumps' = pumps - 1
  /\ UNCHANGED <<stopped, usable, sent, key, status, answer>>

(* pump returning early.                                                   *)
PumpReturns ==
  /\ pumps > 0
  /\ running # {} \/ stopped \/ pending = {}
  /\ pumps' = pumps - 1
  /\ UNCHANGED <<pending, running, stopped, burst, usable, sent, key, status,
                 answer, lastRun, overtaken>>

Reject(settled) ==
  status' = [r \in Requests |->
               IF r \in settled THEN "rejected" ELSE status[r]]

(* Mutant: the next pump is only requested by the next schedule call.      *)
ReleaseSilently ==
  /\ running' = {}
  /\ UNCHANGED pumps

(* The finally block of pump.                                              *)
Release ==
  /\ running' = {}
  /\ pumps' = IF stopped THEN pumps ELSE pumps + 1

(* execute resolves: every waiter gets the result.                         *)
Succeed ==
  /\ \E e \in running :
       /\ status' = [r \in Requests |->
                       IF r \in e.waiters THEN "resolved" ELSE status[r]]
       /\ answer' = [r \in Requests |->
                       IF r \in e.waiters THEN e.op ELSE answer[r]]
  /\ Release
  /\ UNCHANGED <<pending, stopped, burst, usable, sent, key, lastRun,
                 overtaken>>

(* execute rejects, possibly because it broke the transport: then nothing  *)
(* that waits can be answered either.                                      *)
Fail ==
  /\ \E e \in running, u \in {usable, FALSE} :
       /\ usable' = u
       /\ Reject(e.waiters \cup IF u THEN {} ELSE WaitersOf(pending))
       /\ pending' = IF u THEN pending ELSE {}
  /\ Release
  /\ UNCHANGED <<stopped, burst, sent, key, answer, lastRun, overtaken>>

(* stop: rejects what waits; the running operation is left to end.         *)
Stop ==
  /\ stopped' = TRUE
  /\ Reject(WaitersOf(pending))
  /\ pending' = {}
  /\ UNCHANGED <<running, burst, pumps, usable, sent, key, answer, lastRun,
                 overtaken>>

(* The socket breaks or is closed outside of an operation's own failure.   *)
TransportLost ==
  /\ usable
  /\ usable' = FALSE
  /\ UNCHANGED <<pending, running, stopped, burst, pumps, sent, key, status,
                 answer, lastRun, overtaken>>

Next ==
  \/ \E p \in {Interactive, Normal, Background} : Schedule(p)
  \/ \E k \in ControlKeys : ScheduleInteractive(k)
  \/ \E k \in ControlKeys \cup {NoKey} : ScheduleImmediate(k)
  \/ \E k \in StreamKeys : ScheduleLatest(k)
  \/ Start
  \/ PumpReturns
  \/ Succeed
  \/ Fail
  \/ Stop
  \/ TransportLost

Spec == Init /\ [][Next]_vars

(* The event loop runs every queued microtask, and an operation ends: each *)
(* transport exchange has a response timer that settles it.                *)
Fairness ==
  /\ WF_vars(Start \/ PumpReturns)
  /\ WF_vars(Succeed \/ Fail)

FairSpec == Spec /\ Fairness
-----------------------------------------------------------------------------
(* Properties.                                                             *)

Entries == pending \cup running

(* Every promise handed out is settled exactly once: a request that waits  *)
(* is held by exactly one entry, and an entry holds only requests that     *)
(* still wait.  Replacing, taking over by a commit, failing and stopping   *)
(* all move or settle whole groups of waiters.                             *)
WaiterInOnePlace ==
  /\ \A e, f \in Entries : e # f => e.waiters \cap f.waiters = {}
  /\ \A r \in Requests :
       status[r] = "waiting" <=> \E e \in Entries : r \in e.waiters

(* A result is never older than the request it answers, and comes from     *)
(* that request's own operation or a later one of the same key: merging    *)
(* answers nobody with foreign or stale work.                              *)
FreshAnswer ==
  \A r \in Requests : status[r] = "resolved" =>
    /\ r <= answer[r]
    /\ answer[r] = r \/ (key[r] # NoKey /\ key[answer[r]] = key[r])

(* The instrument never gets an older value of a control (or an older      *)
(* waveform request) after a newer one, across movements, commits,         *)
(* replacement in place and the waveform turn.                             *)
KeyNeverGoesBack ==
  [][\A k \in Keys : lastRun'[k] >= lastRun[k]]_vars

(* The final value of a drag is not lost: when the scheduler is idle, the  *)
(* newest request of every key was the last one run, unless stop or a      *)
(* broken transport rejected it.                                           *)
FinalValueRuns ==
  Entries = {} =>
    \A r \in Requests :
      /\ r <= sent
      /\ key[r] # NoKey
      /\ \A s \in Requests : key[s] = key[r] => s <= r
      => lastRun[key[r]] = r \/ status[r] = "rejected"

(* Of each key values are run in the order asked, and the newest is run.   *)
NewestRuns == KeyNeverGoesBack /\ []FinalValueRuns

(* No lost wake-up: work that waits while nothing runs has a microtask     *)
(* queued that will take it.                                               *)
WorkHasPump ==
  pending # {} /\ running = {} => pumps > 0

(* Nothing waits in a stopped scheduler, so no waiter is stranded by the   *)
(* early return of pump.                                                   *)
StoppedIsDrained == stopped => pending = {}

(* The interactive stream overtakes a waiting live waveform read at most   *)
(* once in a row, however movements, commits and reads interleave.         *)
WaveformOvertakenOnce == overtaken <= 1

(* Every promise settles.                                                  *)
EveryRequestSettles ==
  \A r \in Requests : status[r] = "waiting" ~> status[r] # "waiting"
=============================================================================
