---------------------------- MODULE BrowserSession ----------------------------
(***************************************************************************)
(* A browser on the multimeter's route and the server: the socket with its *)
(* hello, reconnects and replayed subscriptions (src/web/                  *)
(* app-connection.ts), the route's binding, store and actions (src/web/dmm)*)
(* against the clients of src/server/websocket/websocket-gateway.ts, the   *)
(* adapter dmm-websocket-adapter.ts and the registry's start and stop.     *)
(*                                                                         *)
(* Both ends are sequential programs; what they send each other is in      *)
(* flight in "up" and "down".  Sockets are numbered: the server may still  *)
(* read and serve a socket that the browser has lost.  DmmSession models   *)
(* what the runtime does with a control; here it succeeds or fails.        *)
(* The server runs its continuations before its next event (Quiet).        *)
(***************************************************************************)
EXTENDS Naturals, FiniteSets, Sequences

CONSTANTS
  Settings,     \* what the meter can be set to: function, range and rate
  Function,     \* the function of each setting
  Found,        \* the settings the meter may be found at
  RawSettings,  \* the settings that raw commands lead to
  PanelSettings,\* the settings that are turned to at the meter
  MaxSockets,   \* bound: sockets; the last one does not break
  MaxUses,      \* bound: visits of the route and requests, together
  MaxFlight,    \* bound: messages in flight when the meter changes
  MaxEvents     \* bound: sessions lost and settings turned at the meter

ASSUME BrowserAssumption ==
  /\ Function \in [Settings -> STRING]
  /\ Found \cup RawSettings \cup PanelSettings \subseteq Settings
  /\ {"awaiting", "gone", "none", "changed"} \cap Settings = {}
  /\ MaxSockets \in Nat \ {0}
  /\ {MaxUses, MaxEvents, MaxFlight} \subseteq Nat

Sockets == 1 .. MaxSockets

VARIABLES
  (* the browser *)
  active,     \* DmmBinding.active, and DMM in AppConnection.subscriptions
  visits,     \* times the route was entered
  n,          \* number of the socket
  socket,     \* "none", "connecting", "open", "closing": close event to come
  ready,      \* protocolReady
  timer,      \* reconnectTimer is set
  transport,  \* app-transport-store: "Connecting", "Connected", "Disconnected"
  view,       \* connection of dmm-store: "awaiting", "gone" or the state shown
  reading,    \* latestReading, null as NoSnapshot
  control,    \* pendingControl: the request that owns it, 0 for null
  newest,     \* history: the last control begun in this generation, or 0
  pending,    \* AppConnection.pending
  requestId,  \* requests made
  (* in flight *)
  up,         \* messages to the server, of each socket
  down,       \* messages to the browser
  (* the server *)
  client,     \* ClientState of each socket: in the map, protocolReady, subscribed
  running, chain, stopping,   \* the InstrumentEntry, as in InstrumentLifecycle
  session,    \* DmmRuntime has a session: the connection is Connected
  meter,      \* the meter's setting
  known,      \* the setting in the session's state: stateStore, connection.state
  snapshot,   \* DmmService.currentSnapshot
  jobs,       \* requests of DmmService, the first one runs
  events,
  (* history *)
  ignored,    \* sockets whose unsubscribe met a subscription awaiting its start
  orphan      \* a socket closed while its subscription awaited the start

page    == <<active, visits>>
link    == <<n, socket, ready, timer, transport>>
display == <<view, reading, control, newest>>
asked   == <<pending, requestId>>
browser == <<page, link, display, asked>>
entry   == <<running, chain, stopping>>
runtime == <<session, meter, known, snapshot, events>>
history == <<ignored, orphan>>
server  == <<client, entry, runtime, jobs>>
vars    == <<browser, up, down, server, history>>

\* A snapshot has its function; as history, the setting that its value was
\* measured with and the state that it was published under.
Snapshots ==
  [fn : {Function[s] : s \in Settings} \cup {"none"}, of : Settings \cup {"none"},
   under : Settings \cup {"none", "changed"}]

NoSnapshot     == [fn |-> "none", of |-> "none", under |-> "none"]
Measured(s)    == [fn |-> Function[s], of |-> s, under |-> known]
Invalidated(s) == [fn |-> Function[s], of |-> "none", under |-> "changed"]

Init ==
  /\ active = FALSE /\ visits = 0
  /\ n = 1 /\ socket = "connecting" /\ ready = FALSE /\ timer = FALSE
  /\ transport = "Connecting"
  /\ view = "awaiting" /\ reading = NoSnapshot /\ control = 0 /\ newest = 0
  /\ pending = {} /\ requestId = 0
  /\ up = [c \in Sockets |-> <<>>] /\ down = <<>>
  /\ client = [c \in Sockets |-> [open |-> FALSE, ready |-> FALSE, subs |-> FALSE]]
  /\ running = FALSE /\ chain = <<>> /\ stopping = FALSE
  /\ session = FALSE /\ meter \in Found /\ known = meter /\ snapshot = NoSnapshot
  /\ jobs = <<>> /\ events = 0
  /\ ignored = {} /\ orphan = FALSE

-----------------------------------------------------------------------------
(* The browser: dmm-store.                                                 *)

\* setAwaitingInstrument, setInstrumentDisconnected, setConnected: a new
\* generation, in which no older control owns anything.
NewContext(v) ==
  /\ view' = v /\ reading' = NoSnapshot /\ control' = 0 /\ newest' = 0

SetTransport(kind) == transport' = kind

\* The transport is not Connected; a route that is not active looks away.
TransportDown(kind) ==
  /\ SetTransport(kind)
  /\ IF active THEN NewContext("awaiting") ELSE UNCHANGED display

\* Mutant: a change of range or rate keeps the reading.
SameFunctionOnly(s) == Function[view] = Function[s]

SameContext(s) == view = s

\* finishControl, failControl.
Owns(id) == control = id

Release(id) == control' = IF Owns(id) THEN 0 ELSE control

BeginControl(id) == control' = id /\ newest' = id

\* dmmControlMatchesState.
Matches(s) == view = s

-----------------------------------------------------------------------------
(* The browser: AppConnection.                                             *)

Usable == socket = "open" /\ ready

Send(msgs) == up' = [up EXCEPT ![n] = @ \o msgs]

Subscribe   == [kind |-> "subscribe"]
Unsubscribe == [kind |-> "unsubscribe"]

\* The route is entered or left; the server hears of it now or after hello.
Activate ==
  /\ ~active /\ visits + requestId < MaxUses
  /\ active' = TRUE /\ visits' = visits + 1
  /\ NewContext("awaiting")
  /\ IF Usable THEN Send(<<Subscribe>>) ELSE UNCHANGED up
  /\ UNCHANGED <<link, asked, down, server, history>>

Deactivate ==
  /\ active
  /\ active' = FALSE
  /\ NewContext("awaiting")
  /\ IF Usable THEN Send(<<Unsubscribe>>) ELSE UNCHANGED up
  /\ UNCHANGED <<visits, link, asked, down, server, history>>

\* request: the promise is pending unless the message cannot be sent.
Request(msg) ==
  /\ visits + requestId < MaxUses
  /\ requestId' = requestId + 1
  /\ IF Usable
       THEN Send(<<msg>>) /\ pending' = pending \cup {requestId'}
       ELSE UNCHANGED <<up, pending>>

\* A range or a rate names the function it is for.
ControlMessage(s) ==
  [kind |-> "control", id |-> requestId + 1, to |-> s, bound |-> Function[s] = Function[view]]

\* setFunction, setRange, setAcquisitionRate: nothing without a state or when
\* the state is as wanted.  What cannot be sent fails at once.
ApplyControl(s) ==
  /\ view \in Settings /\ ~Matches(s)
  /\ Request(ControlMessage(s))
  /\ IF Usable THEN BeginControl(requestId')
               ELSE newest' = requestId' /\ control' = 0
  /\ UNCHANGED <<page, link, view, reading, down, server, history>>

\* executeScpi, which may change the meter's setting.
ExecuteScpi(s) ==
  /\ active
  /\ Request([kind |-> "raw", id |-> requestId + 1, to |-> s, bound |-> FALSE])
  /\ UNCHANGED <<page, link, display, down, server, history>>

\* connect(), from the timer.
Reconnect ==
  /\ timer
  /\ timer' = FALSE /\ n' = n + 1 /\ socket' = "connecting" /\ ready' = FALSE
  /\ TransportDown("Connecting")
  /\ UNCHANGED <<page, asked, up, down, server, history>>

\* The socket breaks, or the attempt to connect fails.  What the browser had
\* sent may still arrive, what the server had sent does not.
Break ==
  /\ socket \in {"connecting", "open"} /\ n < MaxSockets
  /\ socket' = "closing"
  /\ down' = <<>>
  /\ UNCHANGED <<page, n, ready, timer, transport, display, asked, up, server, history>>

ErrorEvent ==
  /\ socket = "closing" /\ transport # "Disconnected"
  /\ TransportDown("Disconnected")
  /\ UNCHANGED <<page, n, socket, ready, timer, asked, up, down, server, history>>

\* onclose: all requests are rejected and a reconnect is scheduled.
RejectPending == pending' = {}

ScheduleReconnect == timer' = TRUE

CloseEvent ==
  /\ socket = "closing"
  /\ socket' = "none" /\ ready' = FALSE /\ ScheduleReconnect
  /\ TransportDown("Disconnected")
  /\ RejectPending
  /\ UNCHANGED <<page, n, requestId, up, down, server, history>>

-----------------------------------------------------------------------------
(* The browser: messages of the server.                                    *)

\* The subscriptions are sent after each hello.
\* Mutant: only the acknowledgement is.
AckOnly == <<[kind |-> "ack"]>>

AfterHello ==
  <<[kind |-> "ack"]>> \o (IF active THEN <<Subscribe>> ELSE <<>>)

OnHello ==
  /\ Head(down).kind = "hello"
  /\ ready' = TRUE /\ SetTransport("Connected")
  /\ Send(AfterHello)
  /\ UNCHANGED <<n, socket, timer, display, asked>>

OnLifecycle ==
  /\ Head(down).kind = "lifecycle"
  /\ IF active THEN NewContext(Head(down).shown) ELSE UNCHANGED display
  /\ UNCHANGED <<link, asked, up>>

OnState ==
  /\ Head(down).kind = "state"
  /\ IF active /\ view \in Settings
       THEN /\ view' = Head(down).shown
            /\ reading' = IF SameContext(view') THEN reading ELSE NoSnapshot
       ELSE UNCHANGED <<view, reading>>
  /\ UNCHANGED <<link, control, newest, asked, up>>

OnSnapshot ==
  /\ Head(down).kind = "snapshot"
  /\ LET new == Head(down).snapshot IN
     reading' = IF active /\ view \in Settings /\ new.fn = Function[view]
                  THEN new ELSE reading
  /\ UNCHANGED <<link, view, control, newest, asked, up>>

\* CommandCompleted, ScpiResult and CommandFailed settle the promise.
OnAnswer ==
  /\ Head(down).kind = "answer"
  /\ LET id == Head(down).id IN
     IF id \in pending
     THEN pending' = pending \ {id} /\ Release(id)
     ELSE UNCHANGED <<pending, control>>
  /\ UNCHANGED <<link, view, reading, newest, requestId, up>>

Receive ==
  /\ socket = "open" /\ down # <<>>
  /\ down' = Tail(down)
  /\ OnHello \/ OnLifecycle \/ OnState \/ OnSnapshot \/ OnAnswer
  /\ UNCHANGED <<page, server, history>>

-----------------------------------------------------------------------------
(* The server: what it sends.                                              *)

Shown == IF session THEN known ELSE "gone"

Subscribers == {c \in Sockets : client[c].open /\ client[c].ready /\ client[c].subs}

Lifecycle(v)  == <<[kind |-> "lifecycle", shown |-> v]>>
State(s)      == <<[kind |-> "state", shown |-> s]>>
Snapshot(p)   == IF p = NoSnapshot THEN <<>> ELSE <<[kind |-> "snapshot", snapshot |-> p]>>
Answer(id)    == <<[kind |-> "answer", id |-> id]>>

\* Messages to sockets that the browser has lost go nowhere.
Out(S, msgs) == IF socket = "open" /\ n \in S THEN msgs ELSE <<>>

\* DmmService.acceptConnection without a session: its requests will fail.
SessionEnds ==
  /\ session' = FALSE /\ snapshot' = NoSnapshot
  /\ jobs' = [j \in DOMAIN jobs |-> [jobs[j] EXCEPT !.live = FALSE]]

\* DmmService.acceptState: a reading of the state before is replaced.
OldSnapshot(s) == IF snapshot = NoSnapshot THEN snapshot ELSE Invalidated(s)

\* replaceState: the poll, or the read-back of a request, finds the meter at s.
Observe(s) ==
  /\ known' = s
  /\ snapshot' = IF s = known THEN snapshot ELSE OldSnapshot(s)

Published(s) == IF s = known THEN <<>> ELSE State(s) \o Snapshot(OldSnapshot(s))

\* sendInitialPublications.
\* Mutant: the reading is left to the next one.
StateOnly == Lifecycle(Shown)

InitialPublications == Lifecycle(Shown) \o Snapshot(snapshot)

-----------------------------------------------------------------------------
(* The server: WebSocketGateway.                                           *)

Quiet == chain = <<>> \/ stopping

Queue(want, c) == chain' = Append(chain, [want |-> want, by |-> c])

\* Mutant: every client counts.
AnyClient(cl) == \E c \in Sockets : cl[c].open

HasSubscribers(cl) == \E c \in Sockets : cl[c].open /\ cl[c].subs

\* Nobody is left: the runtime stops.
StopIfUnused(cl) ==
  IF HasSubscribers(cl) THEN UNCHANGED chain ELSE Queue(FALSE, 0)

\* Subscriptions of the socket that await their start.
Awaiting(c) == \E k \in DOMAIN chain : chain[k].by = c

\* acceptClient.
Accept ==
  /\ Quiet /\ socket = "connecting"
  /\ socket' = "open"
  /\ client' = [client EXCEPT ![n].open = TRUE]
  /\ down' = <<[kind |-> "hello"]>>
  /\ UNCHANGED <<page, n, ready, timer, transport, display, asked, up, entry,
                 runtime, jobs, history>>

OnAck(c) ==
  /\ Head(up[c]).kind = "ack"
  /\ client' = [client EXCEPT ![c].ready = TRUE]
  /\ UNCHANGED <<chain, jobs, down, history>>

\* subscribeClient up to its await.
OnSubscribe(c) ==
  /\ Head(up[c]).kind = "subscribe"
  /\ IF client[c].subs THEN UNCHANGED chain ELSE Queue(TRUE, c)
  /\ UNCHANGED <<client, jobs, down, history>>

\* unsubscribeClient: what is not subscribed yet cannot be unsubscribed.
OnUnsubscribe(c) ==
  /\ Head(up[c]).kind = "unsubscribe"
  /\ client' = [client EXCEPT ![c].subs = FALSE]
  /\ IF client[c].subs THEN StopIfUnused(client') ELSE UNCHANGED chain
  /\ ignored' = IF ~client[c].subs /\ Awaiting(c) THEN ignored \cup {c} ELSE ignored \ {c}
  /\ UNCHANGED <<jobs, down, orphan>>

\* tryDispatch: a subscribed browser's request goes to the session.
OnRequest(c) ==
  LET msg == Head(up[c]) IN
  /\ msg.kind \in {"control", "raw"}
  /\ IF client[c].subs /\ session
       THEN /\ jobs' = Append(jobs, [by |-> c, id |-> msg.id, to |-> msg.to,
                                     bound |-> msg.bound, live |-> TRUE])
            /\ UNCHANGED down
       ELSE down' = down \o Out({c}, Answer(msg.id)) /\ UNCHANGED jobs
  /\ UNCHANGED <<client, chain, history>>

ServerReceive(c) ==
  /\ Quiet /\ client[c].open /\ up[c] # <<>>
  /\ up' = [up EXCEPT ![c] = Tail(@)]
  /\ OnAck(c) \/ OnSubscribe(c) \/ OnUnsubscribe(c) \/ OnRequest(c)
  /\ UNCHANGED <<browser, running, stopping, runtime>>

\* The server learns that a socket is gone: releaseClientSubscriptions.
ServerClose(c) ==
  /\ Quiet /\ client[c].open /\ (c # n \/ socket \in {"closing", "none"})
  /\ client' = [client EXCEPT ![c] = [open |-> FALSE, ready |-> FALSE, subs |-> FALSE]]
  /\ IF client[c].subs THEN StopIfUnused(client') ELSE UNCHANGED chain
  /\ up' = [up EXCEPT ![c] = <<>>]
  /\ orphan' = (orphan \/ Awaiting(c))
  /\ ignored' = ignored \ {c}
  /\ UNCHANGED <<browser, down, running, stopping, runtime, jobs>>

-----------------------------------------------------------------------------
(* The server: InstrumentRegistry and the start and stop of DmmRuntime.    *)

\* reconcile of a start; then the rest of subscribeClient.  A runtime that
\* starts says that its connection is pending.
SettleStart ==
  /\ ~Quiet /\ Head(chain).want
  /\ LET c == Head(chain).by IN
     /\ client' = [client EXCEPT ![c].subs = client[c].open]
     /\ down' = down \o (IF running THEN <<>> ELSE Out(Subscribers, Lifecycle("gone")))
                     \o Out({c}, InitialPublications)
  /\ running' = TRUE /\ chain' = Tail(chain)
  /\ UNCHANGED <<browser, up, stopping, runtime, jobs, history>>

\* A stop follows the start of the subscription that has ended: it never finds
\* the runtime stopped (InstrumentLifecycle has that case).
BeginStop ==
  /\ ~Quiet /\ ~Head(chain).want /\ running
  /\ stopping' = TRUE
  /\ SessionEnds
  /\ down' = down \o Out(Subscribers, Lifecycle("gone"))
  /\ orphan' = FALSE
  /\ UNCHANGED <<browser, up, client, running, chain, meter, known, events, ignored>>

StopDone ==
  /\ stopping
  /\ stopping' = FALSE /\ running' = FALSE /\ chain' = Tail(chain)
  /\ UNCHANGED <<browser, up, down, client, runtime, jobs, history>>

-----------------------------------------------------------------------------
(* The server: what DmmRuntime and DmmService publish.                     *)

SessionUp ==
  /\ Quiet /\ running /\ ~stopping /\ ~session
  /\ session' = TRUE /\ known' = meter
  /\ down' = down \o Out(Subscribers, Lifecycle(meter))
  /\ UNCHANGED <<browser, up, client, entry, meter, snapshot, events, jobs, history>>

SessionLost ==
  /\ Quiet /\ session /\ events < MaxEvents
  /\ events' = events + 1
  /\ SessionEnds
  /\ down' = down \o Out(Subscribers, Lifecycle("gone"))
  /\ UNCHANGED <<browser, up, client, entry, meter, known, history>>

\* Somebody turns the meter's panel.
Turned(s) ==
  /\ Quiet /\ s # meter /\ events < MaxEvents
  /\ events' = events + 1 /\ meter' = s
  /\ UNCHANGED <<browser, up, down, client, entry, session, known, snapshot, jobs, history>>

\* DmmPoller.runLoop: every half second the state is read and published.
Poll ==
  /\ Quiet /\ session /\ known # meter
  /\ Observe(meter)
  /\ down' = down \o Out(Subscribers, Published(meter))
  /\ UNCHANGED <<browser, up, client, entry, session, meter, events, jobs, history>>

\* DmmPoller.runLoop, publishSnapshot and acceptSnapshot: every tenth of a
\* second a value is read, at the meter's range and rate.  It is published if
\* it is of the function in the state and unlike the present one.
Reading ==
  /\ Quiet /\ session /\ Function[meter] = Function[known] /\ snapshot # Measured(meter)
  /\ snapshot' = Measured(meter)
  /\ down' = down \o Out(Subscribers, Snapshot(snapshot'))
  /\ UNCHANGED <<browser, up, client, entry, session, meter, known, events, jobs, history>>

Reply(j) == Out({j.by}, Answer(j.id))

\* DmmService: the function that a control is bound to is the meter's.
Applies(j) == j.bound => Function[j.to] = Function[meter]

\* The first request ends: the state that is read back is published before
\* it is answered.  One that fails may have written: the poll will tell.
FinishRequest ==
  /\ Quiet /\ jobs # <<>>
  /\ jobs' = Tail(jobs)
  /\ LET j == Head(jobs) IN
     \/ /\ j.live /\ Applies(j)
        /\ meter' = j.to /\ Observe(j.to)
        /\ down' = down \o Out(Subscribers, Published(j.to)) \o Reply(j)
     \/ /\ (meter' = meter) \/ (Applies(j) /\ meter' = j.to)
        /\ down' = down \o Reply(j)
        /\ UNCHANGED <<known, snapshot>>
  /\ UNCHANGED <<browser, up, client, entry, session, events, history>>

-----------------------------------------------------------------------------
User ==
  \/ Activate \/ Deactivate
  \/ \E s \in Settings : ApplyControl(s)
  \/ \E s \in RawSettings : ExecuteScpi(s)
Faults == Break \/ ErrorEvent
Gateway == \E c \in Sockets : ServerReceive(c) \/ ServerClose(c)
Registry == SettleStart \/ BeginStop \/ StopDone
Meter ==
  /\ Len(down) < MaxFlight
  /\ SessionUp \/ SessionLost \/ Poll \/ Reading \/ \E s \in PanelSettings : Turned(s)

Next ==
  \/ User \/ Faults \/ CloseEvent \/ Reconnect \/ Accept \/ Receive
  \/ Gateway \/ Registry \/ Meter \/ FinishRequest

Spec == Init /\ [][Next]_vars

(* Either end takes its next event while it has one: timers fire, messages *)
(* arrive as long as their socket lives, continuations run, stops of the   *)
(* runtime and requests come to an end.  The user, the meter and the       *)
(* network's faults owe nothing; no one of an end's events is preferred.   *)
BrowserStep == CloseEvent \/ Reconnect \/ Receive
ServerStep  == Accept \/ Gateway \/ Registry \/ FinishRequest

FairSpec == Spec /\ WF_vars(BrowserStep) /\ WF_vars(ServerStep)

-----------------------------------------------------------------------------
\* Every variable holds a value of its kind.
TypeOK ==
  /\ active \in BOOLEAN /\ visits \in 0 .. MaxUses
  /\ n \in Sockets
  /\ socket \in {"none", "connecting", "open", "closing"}
  /\ ready \in BOOLEAN /\ timer \in BOOLEAN
  /\ transport \in {"Connecting", "Connected", "Disconnected"}
  /\ view \in Settings \cup {"awaiting", "gone"}
  /\ reading \in Snapshots /\ snapshot \in Snapshots
  /\ {control, newest, requestId} \subseteq 0 .. MaxUses
  /\ pending \subseteq 1 .. MaxUses
  /\ client \in [Sockets -> [open : BOOLEAN, ready : BOOLEAN, subs : BOOLEAN]]
  /\ running \in BOOLEAN /\ stopping \in BOOLEAN /\ session \in BOOLEAN
  /\ {meter, known} \subseteq Settings
  /\ events \in 0 .. MaxEvents
  /\ ignored \subseteq Sockets /\ orphan \in BOOLEAN

(* Nothing is in flight, in either direction or in the registry.           *)
AtRest ==
  /\ chain = <<>> /\ socket = "open" /\ ready /\ down = <<>>
  /\ \A c \in Sockets : up[c] = <<>> /\ (client[c].open => c = n)

(* When nothing is in flight, a browser on the route shows the connection, *)
(* the state and the reading that the server has: what was subscribed, what*)
(* the subscription sent first and what was published since left no gap,   *)
(* across reconnects, visits and restarts of the runtime.  Except after an *)
(* unsubscribe that met a subscription still awaiting its start.           *)
ShownAtRest ==
  AtRest /\ active /\ n \notin ignored =>
    /\ running /\ view = Shown
    /\ reading = IF session THEN snapshot ELSE NoSnapshot

(* When nothing is in flight and the browser has left the route, the       *)
(* runtime is stopped; except when it left while its subscription awaited a*)
(* start.                                                                  *)
StoppedWhenLeft == AtRest /\ ~active /\ n \notin ignored /\ ~orphan => ~running

(* The control shown as pending is the newest one of what is shown since,  *)
(* as long as it is unanswered: answers of older ones, rejections of a lost*)
(* socket and visits neither end it early nor leave it behind.             *)
NewestControlShown == control = IF newest \in pending THEN newest ELSE 0

(* A value is shown next to the function it was measured with, and next to *)
(* the state it was published under, whatever order states, readings and   *)
(* contexts came in.  Its range and rate may be newer than that state,     *)
(* until the next poll of the state.                                       *)
ReadingAsLabelled ==
  reading.of \in Settings =>
    reading.under = view /\ Function[reading.of] = Function[view]

(* What the page puts side by side belongs together.                       *)
PageIsCoherent == NewestControlShown /\ ReadingAsLabelled

\* Every request settles: answered, or rejected with its socket.
RequestsSettle == \A id \in 1 .. MaxUses - 1 : id \in pending ~> id \notin pending

(* A browser that stays on the route gets to see whether the instrument is *)
(* there, after however many lost sockets: hello, subscriptions and first  *)
(* publications are repeated.                                              *)
ComesBack == active ~> (view # "awaiting" \/ ~active \/ n \in ignored)

(* A browser gets over whatever its sockets do.                            *)
Recovers == RequestsSettle /\ ComesBack
=============================================================================
