----------------------------- MODULE ScopeDisplay -----------------------------
(***************************************************************************)
(* What a browser on the oscilloscope's route shows: live frames, or a deep*)
(* capture through viewports.  The browser is src/web/scope-binding.ts,    *)
(* scope-store.ts and waveform/waveform-controller.ts; the server is       *)
(* scope-websocket-adapter.ts with its backpressure, the gateway's sends   *)
(* and waveform/deep-capture-service.ts.  WaveformFrames has the frames'   *)
(* arithmetic.                                                             *)
(*                                                                         *)
(* Messages to the server are in page.up.  client.buffer holds those to    *)
(* the browser: one leaves the socket's buffer, its send callback runs and *)
(* the browser handles it in one step.  Another browser captures, runs and *)
(* stops the same oscilloscope.  React's effects run with the store change *)
(* that causes them.  Every physical channel of Channels is enabled, as    *)
(* are the further sources of Sources, which have live frames only.        *)
(***************************************************************************)
EXTENDS WaveformFrames, TLC

CONSTANTS
  Channels,     \* enabled physical channels, which a deep capture reads
  Sources,      \* sources of live frames: the channels and enabled math
  Views,        \* time ranges the user looks at
  FirstView,    \* the range of the scope's horizontal settings
  PixelWidth,   \* width of the plot
  BufferLimit,  \* messages in the socket's buffer that are no backpressure
  FirstSequence,\* sequence numbers of the live frames shown at first
  MaxFrames,    \* bound: live frames published
  MaxCaptures,  \* bound: deep captures, of this and of the other browser
  MaxRuns,      \* bound: times the scope is run or stopped
  MaxPans,      \* bound: changes of the view
  MaxBreaks,    \* bound: sessions or sockets lost, route left
  MaxRequests   \* bound: requests under way at once

ASSUME DisplayAssumption ==
  /\ Channels \subseteq Sources /\ Channels # {}
  /\ FirstView \in Views
  /\ {PixelWidth, MaxRequests} \subseteq Nat \ {0}
  /\ {BufferLimit, MaxFrames, MaxCaptures, MaxRuns, MaxPans, MaxBreaks} \subseteq Nat
  /\ FirstSequence \subseteq 0 .. Modulus - 1

VARIABLES
  page,    \* the browser: store, controller and the messages it has sent
  client,  \* the server's ClientState and ScopeClientState, and its buffer
  scope,   \* link to the scope, number of the session, run state
  live,    \* the session's sequences and latestLiveFrames
  deep,    \* DeepCaptureService: retainedCapture, lastCaptureId, captures under way
  count    \* what has happened, for the bounds

vars == <<page, client, scope, live, deep, count>>

Empty == [x \in {} |-> x]
Without(map, keys) == [k \in DOMAIN map \ keys |-> map[k]]
NoContent == <<0, 0>>
NoDeep == [kind |-> "None", id |-> 0, content |-> NoContent, view |-> FirstView]

-----------------------------------------------------------------------------
(* The browser.  An operator maps the page to the page after the call.     *)

RequestIds ==
  {page.up[k].request : k \in DOMAIN page.up}
    \cup {client.buffer[k].request : k \in DOMAIN client.buffer}
    \cup {job.request : job \in deep.jobs}

\* AppConnection counts requests; here a number is free once nobody holds it.
FreeRequest(w) ==
  Min((1 .. MaxRequests) \ (RequestIds \cup w.asked
        \cup {w.up[k].request : k \in DOMAIN w.up}
        \cup {w.pending[ch] : ch \in DOMAIN w.pending}))

RetireController(w) ==
  [w EXCEPT !.mode = "Live", !.id = 0, !.frames = Empty, !.desired = Empty,
            !.pending = Empty, !.refused = {}]

RetireDeepCapture(w) == [RetireController(w) EXCEPT !.deep = NoDeep]

ResetSession(w) == [RetireController(w) EXCEPT !.live = Empty]

\* setAwaitingInstrument, setScopeDisconnected, setScopeConnected
SetConnection(w, kind) == [w EXCEPT !.connection = kind, !.deep = NoDeep]

\* ScopeRoute's effect enables the sources of a connected scope.
LiveSources(w) == IF w.connection = "ScopeConnected" THEN Sources ELSE {}

RequestViewport(w, request, ch) ==
  [w EXCEPT !.up = Append(@, [type |-> "WaveformViewportRequest", request |-> request,
                              id |-> w.id, channel |-> ch, range |-> w.desired[ch]])]

RequestDesiredViewport(w, ch) ==
  LET request == FreeRequest(w)
  IN  [RequestViewport(w, request, ch)
         EXCEPT !.pending = (ch :> request) @@ @, !.refused = @ \ {ch}]

SetDesiredDeepTimeRange(w, ch) ==
  LET desired == TimeRangeToSampleRange(w.deep.view)
      wanted  == [w EXCEPT !.desired = (ch :> desired) @@ @]
  IN  IF w.deep.id # w.id \/ w.mode # "Deep"
      THEN w
      ELSE IF \/ ch \in DOMAIN w.frames /\ Comfortable(w.frames[ch], desired)
              \/ ch \in DOMAIN w.pending
           THEN wanted
           ELSE RequestDesiredViewport(wanted, ch)

\* The plot's effect on a new view or capture, for each captured channel.
ShowView(w) ==
  IF w.mode = "Deep" /\ w.deep.kind = "Ready"
  THEN FoldSet(LAMBDA ch, acc : SetDesiredDeepTimeRange(acc, ch), w, Channels)
  ELSE w

SetDeepCapture(w, id) == [RetireController(w) EXCEPT !.mode = "Deep", !.id = id]

ControllerFirst(w, m) ==
  LET done == [w EXCEPT !.asked = @ \ {m.request}]
  IN  ShowView([SetDeepCapture(done, m.id) EXCEPT
        !.deep = IF w.connection = "ScopeConnected"
                 THEN [kind |-> "Ready", id |-> m.id, content |-> m.content, view |-> FirstView]
                 ELSE NoDeep])

\* ScopeBinding.deepCapture once it is answered: it does not ask if the route
\* is still the one that asked, only setDeepReady throws unless connected.
DeepCaptureReady(w, m) ==
  LET done == [w EXCEPT !.asked = @ \ {m.request}]
  IN  IF w.connection # "ScopeConnected"
      THEN [done EXCEPT !.deep = NoDeep]
      ELSE ShowView(SetDeepCapture(
             [done EXCEPT !.deep = [kind |-> "Ready", id |-> m.id, content |-> m.content,
                                    view |-> FirstView]], m.id))

ViewportRequestFailed(w, request) ==
  LET failed == {ch \in DOMAIN w.pending : w.pending[ch] = request}
  IN  [w EXCEPT !.pending = Without(@, failed), !.refused = @ \cup failed]

\* A failure settles the request that awaits it, or is a viewport's.
CommandFailed(w, request) ==
  IF request \in w.asked
  THEN [w EXCEPT !.asked = @ \ {request}, !.deep = NoDeep]
  ELSE IF w.active THEN ViewportRequestFailed(w, request) ELSE w

AcceptAnyRange(w, f) ==
  IF f.id # w.id THEN w
  ELSE [w EXCEPT !.pending = Without(@, {f.source}), !.frames = (f.source :> f) @@ @]

AcceptViewport(w, f) ==
  LET arrived == [w EXCEPT !.pending = Without(@, {f.source})]
  IN  IF f.id # w.id
      THEN w
      ELSE IF f.source \in DOMAIN w.desired /\ ~Covers(f, w.desired[f.source])
           THEN RequestDesiredViewport(arrived, f.source)
           ELSE [arrived EXCEPT !.frames = (f.source :> f) @@ @]

AcceptLive(w, f) ==
  IF \/ f.source \notin LiveSources(w)
     \/ /\ f.source \in DOMAIN w.live
        /\ ~IsNewerSequence(f.sequence, w.live[f.source].sequence)
  THEN w
  ELSE [w EXCEPT !.live = (f.source :> f) @@ @]

\* Three malformed frames on end close the socket, which no frame makes happen.
HandleBinary(w, m) ==
  IF ~w.active THEN w
  ELSE IF m.type = "Live" THEN [AcceptLive(w, m.frame) EXCEPT !.errors = 0]
  ELSE IF Decodable(m.frame) THEN [AcceptViewport(w, m.frame) EXCEPT !.errors = 0]
  ELSE [w EXCEPT !.errors = @ + 1]

\* What the plot draws: the frames of the display's mode.
Drawn(w) == IF w.mode = "Deep" THEN w.frames ELSE w.live

KeepOnRun(w, run) == IF run # "Stopped" THEN RetireController(w) ELSE w

ReconcileRunState(w, run) == IF run # "Stopped" THEN RetireDeepCapture(w) ELSE w

HandleJson(w, m) ==
  CASE m.type = "DeepCaptureReady" -> DeepCaptureReady(w, m)
    [] m.type = "CommandFailed" -> CommandFailed(w, m.request)
    [] m.type = "ScopeConnected" /\ w.active ->
         ReconcileRunState([SetConnection(ResetSession(w), "ScopeConnected")
                              EXCEPT !.run = m.run, !.errors = 0], m.run)
    [] m.type = "ScopeState" /\ w.active ->
         ReconcileRunState(IF w.connection = "ScopeConnected"
                           THEN [w EXCEPT !.run = m.run] ELSE w, m.run)
    [] m.type = "ScopeDisconnected" /\ w.active ->
         SetConnection(ResetSession(w), "ScopeDisconnected")
    [] OTHER -> w

\* The scope was seen running while a deep capture was asked for: it may yet
\* be shown, until the next state retires it.
History(w) ==
  [w EXCEPT !.raced = IF w.asked # {} /\ w.run # "Stopped" THEN TRUE
                      ELSE @ /\ w.mode = "Deep"]

Handle(w, m) ==
  History(IF m.type \in {"Live", "Viewport"} THEN HandleBinary(w, m) ELSE HandleJson(w, m))

-----------------------------------------------------------------------------
(* The server's end of the socket.                                         *)

IsBackpressured(c) == Len(c.buffer) > BufferLimit

Send(c, m) == [c EXCEPT !.buffer = Append(@, m)]

SendFailure(c, request) == Send(c, [type |-> "CommandFailed", request |-> request])

SendLiveFrame(c, f) ==
  [Send(c, [type |-> "Live", request |-> 0, frame |-> f]) EXCEPT !.inFlight = TRUE]

\* A frame that cannot be sent takes the place of the source's queued one.
QueueLiveFrame(c, f) ==
  IF c.inFlight \/ IsBackpressured(c)
  THEN [c EXCEPT !.queued = (f.source :> f) @@ @]
  ELSE SendLiveFrame([c EXCEPT !.queued = Without(@, {f.source})], f)

\* What a flush may come to; the map's insertion order is left open.
FlushOfLiveOnly(c, sent) ==
  IF sent.type # "Live" \/ c.inFlight \/ IsBackpressured(c) \/ c.queued = Empty
  THEN {c}
  ELSE {SendLiveFrame([c EXCEPT !.queued = Without(@, {s})], c.queued[s]) :
          s \in DOMAIN c.queued}

FlushPendingLiveFrame(c, sent) ==
  IF c.inFlight \/ IsBackpressured(c) \/ c.queued = Empty
  THEN {c}
  ELSE {SendLiveFrame([c EXCEPT !.queued = Without(@, {s})], c.queued[s]) :
          s \in DOMAIN c.queued}

Lifecycle ==
  IF scope.link
  THEN [type |-> "ScopeConnected", request |-> 0, run |-> scope.run]
  ELSE [type |-> "ScopeDisconnected", request |-> 0]

Broadcast(c, m) == IF c.subscribed THEN Send(c, m) ELSE c

\* Lifecycle message, then the latest frame of each source, in any order.
InitialPublications(c) ==
  LET told == Send([c EXCEPT !.subscribed = TRUE], Lifecycle)
  IN  {FoldSeq(LAMBDA s, acc : QueueLiveFrame(acc, live.latest[s]), told, order) :
         order \in SetToSeqs(DOMAIN live.latest)}

SessionUnsubscribed(c) == [c EXCEPT !.subscribed = FALSE, !.queued = Empty]

\* The frame that answers a viewport request.
ViewportFrame(range, ch) ==
  LET wide == Expanded(range)
  IN  [kind |-> "deep", source |-> ch, id |-> deep.retained.id, content |-> deep.retained.content,
       start |-> wide.start, end |-> wide.end,
       points |-> Downsample(wide, EffectivePixels(range, PixelWidth))]

-----------------------------------------------------------------------------
Init ==
  /\ \E run \in {"Stopped", "Running"}, first \in FirstSequence :
       LET shown == [s \in Sources |-> [source |-> s, sequence |-> first, session |-> 1]] IN
       /\ scope = [link |-> TRUE, session |-> 1, run |-> run]
       /\ page = [active |-> TRUE, connection |-> "ScopeConnected", run |-> run,
                   deep |-> NoDeep, asked |-> {}, up |-> <<>>,
                   mode |-> "Live", id |-> 0, frames |-> Empty, desired |-> Empty,
                   pending |-> Empty, refused |-> {}, live |-> shown,
                   errors |-> 0, raced |-> FALSE]
       /\ live = [sequence |-> [s \in Sources |-> first], latest |-> shown]
  /\ client = [open |-> TRUE, subscribed |-> TRUE, queued |-> Empty, inFlight |-> FALSE,
               buffer |-> <<>>]
  /\ deep = [retained |-> [id |-> 0, content |-> NoContent], lastId |-> 0, jobs |-> {}]
  /\ count = [frames |-> 0, captures |-> 0, runs |-> 0, pans |-> 0, breaks |-> 0]

Connected == page.active /\ page.connection = "ScopeConnected"

(* The user.                                                               *)

PressDeepCapture ==
  /\ Connected /\ page.run = "Stopped" /\ count.captures < MaxCaptures
  /\ LET request == FreeRequest(page)
     IN  page' = [page EXCEPT !.asked = @ \cup {request},
                              !.deep = [NoDeep EXCEPT !.kind = "Capturing"],
                              !.up = Append(@, [type |-> "DeepCaptureRequest",
                                                request |-> request])]
  /\ count' = [count EXCEPT !.captures = @ + 1]
  /\ UNCHANGED <<client, scope, live, deep>>

\* Run and Single retire the deep capture before they are sent.
Acquisition ==
  /\ Connected /\ page.run = "Stopped" /\ count.runs < MaxRuns
  /\ page' = History([RetireDeepCapture(page)
                        EXCEPT !.up = Append(@, [type |-> "AcquisitionAction", request |-> 0])])
  /\ count' = [count EXCEPT !.runs = @ + 1]
  /\ UNCHANGED <<client, scope, live, deep>>

\* A drag or a scale moves the view of a deep capture and nothing else.
SetDeepHorizontal(view) ==
  /\ Connected /\ page.deep.kind = "Ready" /\ view # page.deep.view
  /\ count.pans < MaxPans
  /\ page' = ShowView([page EXCEPT !.deep.view = view])
  /\ count' = [count EXCEPT !.pans = @ + 1]
  /\ UNCHANGED <<client, scope, live, deep>>

Tell(w, type) ==
  IF client.open THEN [w EXCEPT !.up = Append(@, [type |-> type, request |-> 0])] ELSE w

Deactivate ==
  /\ page.active /\ count.breaks < MaxBreaks
  /\ page' = History(Tell([SetConnection(ResetSession(page), "AwaitingInstrument")
                             EXCEPT !.active = FALSE], "InstrumentUnsubscribe"))
  /\ count' = [count EXCEPT !.breaks = @ + 1]
  /\ UNCHANGED <<client, scope, live, deep>>

Activate ==
  /\ ~page.active
  /\ page' = Tell([SetConnection(ResetSession(page), "AwaitingInstrument")
                     EXCEPT !.active = TRUE], "InstrumentSubscribe")
  /\ UNCHANGED <<client, scope, live, deep, count>>

(* The socket.                                                             *)

Deliver ==
  /\ client.buffer # <<>>
  /\ LET sent == Head(client.buffer)
         gone == [client EXCEPT !.buffer = Tail(@),
                                !.inFlight = @ /\ sent.type # "Live"]
     IN  /\ client' \in FlushPendingLiveFrame(gone, sent)
         /\ page' = Handle(page, sent)
  /\ UNCHANGED <<scope, live, deep, count>>

\* resetForTransportLoss; the requests under way are rejected.
TransportLost ==
  /\ client.open /\ count.breaks < MaxBreaks
  /\ client' = [open |-> FALSE, subscribed |-> FALSE, queued |-> Empty, inFlight |-> FALSE,
                buffer |-> <<>>]
  /\ page' = History([(IF page.active
                        THEN SetConnection(ResetSession(page), "AwaitingInstrument") ELSE page)
                       EXCEPT !.up = <<>>, !.asked = {}, !.deep = NoDeep])
  /\ deep' = [deep EXCEPT !.jobs = {[job EXCEPT !.request = 0] : job \in @}]
  /\ count' = [count EXCEPT !.breaks = @ + 1]
  /\ UNCHANGED <<scope, live>>

Reconnect ==
  /\ ~client.open
  /\ client' = [client EXCEPT !.open = TRUE]
  /\ page' = IF page.active
             THEN [page EXCEPT !.up = <<[type |-> "InstrumentSubscribe", request |-> 0]>>]
             ELSE page
  /\ UNCHANGED <<scope, live, deep, count>>

(* The server, which reads the oldest message.                             *)

Reads(type) == page.up # <<>> /\ Head(page.up).type = type

Incoming == Head(page.up)
Read == [page EXCEPT !.up = Tail(@)]

Subscribe ==
  /\ Reads("InstrumentSubscribe")
  /\ client' \in IF client.subscribed THEN {client} ELSE InitialPublications(client)
  /\ page' = Read
  /\ UNCHANGED <<scope, live, deep, count>>

Unsubscribe ==
  /\ Reads("InstrumentUnsubscribe")
  /\ client' = SessionUnsubscribed(client)
  /\ page' = Read
  /\ UNCHANGED <<scope, live, deep, count>>

RunAcquisition ==
  /\ Reads("AcquisitionAction")
  /\ page' = Read
  /\ IF client.subscribed /\ scope.link
     THEN /\ scope' = [scope EXCEPT !.run = "Running"]
          /\ client' = Send(client, [type |-> "ScopeState", request |-> 0, run |-> "Running"])
     ELSE UNCHANGED <<scope, client>>
  /\ UNCHANGED <<live, deep, count>>

DispatchCapture ==
  /\ Reads("DeepCaptureRequest")
  /\ page' = Read
  /\ IF client.subscribed /\ scope.link
     THEN /\ deep' = [deep EXCEPT !.jobs = @ \cup
                        {[request |-> Incoming.request, session |-> scope.session, phase |-> "state"]}]
          /\ UNCHANGED client
     ELSE /\ client' = SendFailure(client, Incoming.request)
          /\ UNCHANGED deep
  /\ UNCHANGED <<scope, live, count>>

\* A newer request for the channel that came with it supersedes this one;
\* an answer for which the socket has no room is dropped.
DispatchViewportRequest ==
  /\ Reads("WaveformViewportRequest")
  /\ page' = Read
  /\ \E superseded \in BOOLEAN :
       /\ superseded => \E k \in 2 .. Len(page.up) :
            /\ page.up[k].type = "WaveformViewportRequest"
            /\ page.up[k].channel = Incoming.channel
       /\ LET frame == ViewportFrame(Incoming.range, Incoming.channel)
          IN  client' =
                IF /\ client.subscribed /\ scope.link
                   /\ deep.retained.id = Incoming.id
                   /\ ~superseded /\ Encodable(frame)
                   /\ ~IsBackpressured(client)
                THEN Send(client, [type |-> "Viewport", request |-> 0, frame |-> frame])
                ELSE SendFailure(client, Incoming.request)
  /\ UNCHANGED <<scope, live, deep, count>>

\* DeepCaptureService.capture: the run state, then the channels' memory; the
\* capture is retained when the last channel is read.
CaptureStep ==
  \E job \in deep.jobs :
    LET rest     == deep.jobs \ {job}
        id       == deep.lastId + 1
        answered == job.request # 0
        ready    == [type |-> "DeepCaptureReady", request |-> job.request,
                     id |-> id, content |-> <<scope.session, id>>]
    IN  \/ /\ \/ ~scope.link \/ job.session # scope.session
              \/ job.phase = "state" /\ scope.run # "Stopped"
              \/ job.phase = "raw"
           /\ deep' = [deep EXCEPT !.jobs = rest]
           /\ client' = IF answered THEN SendFailure(client, job.request) ELSE client
        \/ /\ scope.link /\ job.session = scope.session
           /\ job.phase = "state" /\ scope.run = "Stopped"
           /\ deep' = [deep EXCEPT !.jobs = rest \cup {[job EXCEPT !.phase = "raw"]}]
           /\ UNCHANGED client
        \/ /\ scope.link /\ job.session = scope.session
           /\ job.phase = "raw"
           /\ deep' = [retained |-> [id |-> id, content |-> ready.content],
                       lastId |-> id, jobs |-> rest]
           /\ client' = IF answered THEN Send(client, ready) ELSE client
  /\ UNCHANGED <<page, scope, live, count>>

BroadcastWaveform(c, frame) == IF c.subscribed THEN QueueLiveFrame(c, frame) ELSE c

\* LiveWaveformService publishes a source's frame to every subscriber.
PublishWaveform(source) ==
  /\ scope.link /\ scope.run = "Running" /\ count.frames < MaxFrames
  /\ LET next  == NextSequence(live.sequence[source])
         frame == [source |-> source, sequence |-> next, session |-> scope.session]
     IN  /\ live' = [sequence |-> [live.sequence EXCEPT ![source] = next],
                     latest |-> (source :> frame) @@ live.latest]
         /\ client' = BroadcastWaveform(client, frame)
  /\ count' = [count EXCEPT !.frames = @ + 1]
  /\ UNCHANGED <<page, scope, deep>>

\* Another browser stops or runs the scope, or its keys do.
OtherRuns ==
  /\ scope.link /\ count.runs < MaxRuns
  /\ LET run == IF scope.run = "Stopped" THEN "Running" ELSE "Stopped"
     IN  /\ scope' = [scope EXCEPT !.run = run]
         /\ client' = Broadcast(client, [type |-> "ScopeState", request |-> 0, run |-> run])
  /\ count' = [count EXCEPT !.runs = @ + 1]
  /\ UNCHANGED <<page, live, deep>>

OtherCaptures ==
  /\ scope.link /\ count.captures < MaxCaptures
  /\ deep' = [deep EXCEPT !.jobs = @ \cup
                {[request |-> 0, session |-> scope.session, phase |-> "state"]}]
  /\ count' = [count EXCEPT !.captures = @ + 1]
  /\ UNCHANGED <<page, client, scope, live>>

\* The adapter forgets the latest frames, not those queued for a browser.
ScopeLost ==
  /\ scope.link /\ count.breaks < MaxBreaks
  /\ scope' = [scope EXCEPT !.link = FALSE]
  /\ live' = [live EXCEPT !.latest = Empty]
  /\ client' = Broadcast(client, [type |-> "ScopeDisconnected", request |-> 0])
  /\ count' = [count EXCEPT !.breaks = @ + 1]
  /\ UNCHANGED <<page, deep>>

\* A new session has new services: sequences and capture ids start again.
ScopeFound ==
  /\ ~scope.link
  /\ scope' = [scope EXCEPT !.link = TRUE, !.session = @ + 1]
  /\ live' = [sequence |-> [s \in Sources |-> 0], latest |-> Empty]
  /\ deep' = [deep EXCEPT !.retained = [id |-> 0, content |-> NoContent], !.lastId = 0]
  /\ client' = Broadcast(client, [type |-> "ScopeConnected", request |-> 0, run |-> scope.run])
  /\ UNCHANGED <<page, count>>

-----------------------------------------------------------------------------
User ==
  \/ PressDeepCapture
  \/ Acquisition
  \/ \E view \in Views : SetDeepHorizontal(view)
  \/ Deactivate
  \/ Activate

Server ==
  \/ Subscribe
  \/ Unsubscribe
  \/ RunAcquisition
  \/ DispatchCapture
  \/ DispatchViewportRequest

Next ==
  \/ User
  \/ Server
  \/ CaptureStep
  \/ Deliver
  \/ TransportLost
  \/ Reconnect
  \/ \E source \in Sources : PublishWaveform(source)
  \/ OtherRuns
  \/ OtherCaptures
  \/ ScopeLost
  \/ ScopeFound

Spec == Init /\ [][Next]_vars

-----------------------------------------------------------------------------
\* Type invariant of all variables.
TypeOK ==
  /\ {page.active, page.raced, client.open, client.subscribed, client.inFlight, scope.link}
       \subseteq BOOLEAN
  /\ page.connection \in {"ScopeConnected", "ScopeDisconnected", "AwaitingInstrument"}
  /\ {page.run, scope.run} \subseteq {"Stopped", "Running"}
  /\ page.deep.kind \in {"None", "Capturing", "Ready"} /\ page.deep.view \in Views
  /\ page.mode \in {"Live", "Deep"} /\ {page.id, page.deep.id} \subseteq 0 .. MaxCaptures
  /\ page.asked \subseteq 1 .. MaxRequests /\ Range(page.pending) \subseteq 1 .. MaxRequests
  /\ DOMAIN page.frames \cup page.refused \subseteq Channels
  /\ DOMAIN page.live \cup DOMAIN client.queued \subseteq Sources
  /\ \A j \in deep.jobs : j.request \in 0 .. MaxRequests /\ j.phase \in {"state", "raw"}
  /\ deep.retained.id \in 0 .. deep.lastId

(* No sample vanishes in the reduction: within a pixel of the frame there  *)
(* are drawn points at least as high and at least as low.                  *)
PeaksAreDrawn ==
  page.mode = "Deep" => \A ch \in DOMAIN Drawn(page) :
    LET f     == Drawn(page)[ch]
        drawn == {f.points[k] : k \in DOMAIN f.points}
        pixel == Ceiling(Width(f), PixelWidth)
    IN  \A i \in f.start .. f.end - 1 :
          LET near == {j \in drawn : j - i < pixel /\ i - j < pixel}
          IN  \E low, high \in near : Wave[low] <= Wave[i] /\ Wave[i] <= Wave[high]

(* The store says which capture is shown, the controller shows it; they are*)
(* set one after the other, by replies, states, breaks and the user, and a *)
(* reply may come when the route was left.  Every frame drawn is of the    *)
(* very capture announced, also when a new session's ids start again, and  *)
(* has its peaks; nothing deep is drawn once the scope is not connected.   *)
ShownIsTheCapture ==
  /\ page.deep.kind = "Ready" =>
       /\ page.mode = "Deep" /\ page.id = page.deep.id
       /\ \A ch \in DOMAIN page.frames : page.frames[ch].content = page.deep.content
  /\ page.mode = "Deep" => page.connection = "ScopeConnected"
  /\ PeaksAreDrawn

(* Whatever the browser waits for is on its way: a viewport whose answer   *)
(* stays out would never be asked for again, a deep capture never end.     *)
AnswersAreComing ==
  LET asked(request) == \E k \in DOMAIN page.up : page.up[k].request = request
      failed(request) ==
        \E k \in DOMAIN client.buffer : client.buffer[k].request = request
  IN  /\ \A ch \in DOMAIN page.pending :
           \/ asked(page.pending[ch]) \/ failed(page.pending[ch])
           \/ \E k \in DOMAIN client.buffer :
                /\ client.buffer[k].type = "Viewport"
                /\ client.buffer[k].frame.source = ch /\ client.buffer[k].frame.id = page.id
      /\ \A request \in page.asked :
           \/ asked(request) \/ failed(request)
           \/ \E job \in deep.jobs : job.request = request

(* However the view moved while an answer was under way, each captured     *)
(* channel is drawn over all of the visible range, unless an answer is on  *)
(* its way or the last request was refused.  A refused one, dropped under  *)
(* backpressure or overtaken by another browser's capture, is not repeated.*)
ViewIsServed ==
  /\ AnswersAreComing
  /\ page.deep.kind = "Ready" =>
       \A ch \in Channels \ (DOMAIN page.pending \cup page.refused) :
         /\ ch \in DOMAIN Drawn(page)
         /\ Covers(Drawn(page)[ch], TimeRangeToSampleRange(page.deep.view))

(* A running scope is shown live, unless it was run while a deep capture of*)
(* this browser was under way.                                             *)
RunShowsLive ==
  page.connection = "ScopeConnected" /\ page.run # "Stopped" /\ ~page.raced
    => page.mode = "Live" /\ page.deep.kind # "Ready"

(* When the socket is at rest the browser has the newest frame of every    *)
(* source, whatever was replaced while the socket had no room; a stopped   *)
(* scope sends no further one.  Excepted is a frame of an earlier session. *)
LatestAtRest ==
  client.subscribed /\ page.up = <<>> /\ client.buffer = <<>> =>
    \A s \in DOMAIN live.latest :
      /\ s \in DOMAIN page.live
      /\ page.live[s] = live.latest[s] \/ page.live[s].session # live.latest[s].session
=============================================================================
