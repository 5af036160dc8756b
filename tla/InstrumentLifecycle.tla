------------------------- MODULE InstrumentLifecycle -------------------------
(***************************************************************************)
(* Browsers subscribe to instruments and the server starts and stops the   *)
(* instrument runtimes: subscriptions and shutdown of                      *)
(* src/server/websocket/websocket-gateway.ts and src/server/server.ts, and *)
(* the transition chains of src/server/instruments/instrument-registry.ts. *)
(*                                                                         *)
(* A transition of the registry carries what its caller does once it       *)
(* settles ("by").  Node runs promise continuations before the next event: *)
(* first the release loop that runs (Release), then the clients that       *)
(* close() has still to release (ReleaseNext), then the transitions that   *)
(* settle at once (Settle); an event waits for all of them (Quiet).        *)
(* start() of a runtime completes at once, stop() waits for its session.   *)
(***************************************************************************)
EXTENDS Naturals, FiniteSets, Sequences

CONSTANTS
  Clients,      \* WebSocket connections
  Instruments,
  Visits,       \* the sets of instruments a browser may ask for in its life
  MaxMessages   \* bound: subscribe and unsubscribe messages

ASSUME LifecycleAssumption ==
  /\ IsFiniteSet(Instruments) /\ Visits \subseteq SUBSET Instruments
  /\ MaxMessages \in Nat

VARIABLES
  socket,       \* "new", "open": in the clients map, "closed"
  subs,         \* subscriptions of each client
  visits,       \* the instruments each client asks for
  messages,     \* messages received
  running,      \* InstrumentEntry.running
  chain,        \* InstrumentEntry.transition: what is queued, oldest first
  stopping,     \* runtime.stop() is awaited for the head of the chain
  loop,         \* the release loop that runs: <<>> or <<[client, rest]>>
  unreleased,   \* clients that close() has still to release
  phase,        \* "up", "closing": sockets close, "stopping": stopAll, "down"
  last          \* history: the state last asked of each runtime

gateway  == <<socket, subs, visits, messages>>
registry == <<running, chain, stopping, last>>
vars     == <<gateway, registry, loop, unreleased, phase>>

-----------------------------------------------------------------------------
(* Callers that wait for a transition: a client that subscribes to the     *)
(* instruments, a release loop with the instruments it has still to        *)
(* release, or one that goes on to nothing.                                *)
Callers ==
  [kind : {"subscribe", "release"}, client : Clients,
   instruments : SUBSET Instruments] \cup {[kind |-> "other"]}

Subscriber(c, i) == [kind |-> "subscribe", client |-> c, instruments |-> {i}]
ReleaseOf(c, S)  == [kind |-> "release", client |-> c, instruments |-> S]
Other            == [kind |-> "other"]

\* Whoever leaves stops the runtime.
NobodyElse(i, S) == FALSE

HasSubscribers(i, S) == \E c \in Clients : socket[c] = "open" /\ i \in S[c]

Queue(i, want, by) ==
  /\ chain' = [chain EXCEPT ![i] = Append(@, [want |-> want, by |-> by])]
  /\ last' = [last EXCEPT ![i] = want]
  /\ UNCHANGED <<running, stopping>>

StopIfUnused(i, S, by) ==
  IF HasSubscribers(i, S) THEN UNCHANGED registry ELSE Queue(i, FALSE, by)

Immediate(i) == chain[i] # <<>> /\ ~stopping[i]
Quiet == loop = <<>> /\ unreleased = {} /\ ~\E i \in Instruments : Immediate(i)

Init ==
  /\ socket = [c \in Clients |-> "new"]
  /\ subs = [c \in Clients |-> {}]
  /\ visits \in [Clients -> Visits]
  /\ messages = 0
  /\ running = [i \in Instruments |-> FALSE]
  /\ chain = [i \in Instruments |-> <<>>]
  /\ stopping = [i \in Instruments |-> FALSE]
  /\ last = [i \in Instruments |-> FALSE]
  /\ loop = <<>>
  /\ unreleased = {}
  /\ phase = "up"

-----------------------------------------------------------------------------
(* WebSocketGateway: events of the sockets.                                *)

\* A socket connects and acknowledges the protocol hello.
Connect(c) ==
  /\ Quiet /\ phase = "up" /\ socket[c] = "new"
  /\ socket' = [socket EXCEPT ![c] = "open"]
  /\ UNCHANGED <<subs, visits, messages, registry, loop, unreleased, phase>>

Message(c, i) ==
  /\ Quiet /\ socket[c] = "open" /\ i \in visits[c] /\ messages < MaxMessages
  /\ messages' = messages + 1
  /\ UNCHANGED <<socket, visits, loop, unreleased, phase>>

SubscribeClient(c, i) ==
  /\ Message(c, i)
  /\ IF i \in subs[c] THEN UNCHANGED registry ELSE Queue(i, TRUE, Subscriber(c, i))
  /\ UNCHANGED subs

UnsubscribeClient(c, i) ==
  /\ Message(c, i)
  /\ subs' = [subs EXCEPT ![c] = @ \ {i}]
  /\ IF i \in subs[c]
       THEN StopIfUnused(i, subs', Other)
       ELSE UNCHANGED registry

\* The socket closes, at any time; its subscriptions are released.
Close(c) ==
  /\ Quiet /\ socket[c] = "open"
  /\ socket' = [socket EXCEPT ![c] = "closed"]
  /\ loop' = <<[client |-> c, rest |-> subs[c]]>>
  /\ UNCHANGED <<subs, visits, messages, registry, unreleased, phase>>

(* releaseClientSubscriptions, one subscription at a time.  A stop is      *)
(* awaited: the rest of the loop goes with its transition.  The order of   *)
(* the subscriptions is left open.                                         *)
Release ==
  /\ loop # <<>>
  /\ LET c == loop[1].client  rest == loop[1].rest IN
     IF rest = {}
     THEN /\ subs' = [subs EXCEPT ![c] = {}]
          /\ loop' = <<>>
          /\ UNCHANGED registry
     ELSE \E i \in rest :
            LET S == [subs EXCEPT ![c] = @ \ {i}] IN
            /\ subs' = S
            /\ StopIfUnused(i, S, ReleaseOf(c, rest \ {i}))
            /\ loop' = IF HasSubscribers(i, S)
                         THEN <<[client |-> c, rest |-> rest \ {i}]>> ELSE <<>>
  /\ UNCHANGED <<socket, visits, messages, unreleased, phase>>

-----------------------------------------------------------------------------
(* InstrumentRegistry: transitions of one runtime.                         *)

\* What the caller does after its transition.  The browser's messages need
\* the adapters: a subscription that completes after detach() is undone.
Resume(by) ==
  /\ subs' = IF by.kind = "subscribe" /\ phase = "up"
               THEN [subs EXCEPT ![by.client] = @ \cup by.instruments] ELSE subs
  /\ loop' = IF by.kind = "release"
               THEN <<[client |-> by.client, rest |-> by.instruments]>> ELSE <<>>

Done(i) ==
  /\ Resume(Head(chain[i]).by)
  /\ chain' = [chain EXCEPT ![i] = Tail(@)]
  /\ UNCHANGED <<socket, visits, messages, unreleased, phase, last>>

\* reconcile: nothing to do, or a start, which completes at once.
Settle(i) ==
  /\ loop = <<>> /\ unreleased = {} /\ Immediate(i)
  /\ Head(chain[i]).want \/ ~running[i]
  /\ running' = [running EXCEPT ![i] = Head(chain[i]).want]
  /\ Done(i)
  /\ UNCHANGED stopping

\* reconcile: the runtime runs and must stop.
BeginStop(i) ==
  /\ loop = <<>> /\ unreleased = {} /\ Immediate(i)
  /\ ~Head(chain[i]).want /\ running[i]
  /\ stopping' = [stopping EXCEPT ![i] = TRUE]
  /\ UNCHANGED <<gateway, running, chain, last, loop, unreleased, phase>>

StopDone(i) ==
  /\ Quiet /\ stopping[i]
  /\ stopping' = [stopping EXCEPT ![i] = FALSE]
  /\ running' = [running EXCEPT ![i] = FALSE]
  /\ Done(i)

-----------------------------------------------------------------------------
(* server.ts: shutdown.                                                    *)

\* gateway.close(): the clients are released and told to close, then the
\* adapters are detached; no continuation runs in between.
Shutdown ==
  /\ Quiet /\ phase = "up"
  /\ phase' = "closing"
  /\ unreleased' = {c \in Clients : socket[c] = "open"}
  /\ UNCHANGED <<gateway, registry, loop>>

ReleaseNext(c) ==
  /\ loop = <<>> /\ c \in unreleased
  /\ unreleased' = unreleased \ {c}
  /\ loop' = <<[client |-> c, rest |-> subs[c]]>>
  /\ UNCHANGED <<gateway, registry, phase>>

\* The runtimes stop while the sockets still close.
NoWaitForSockets == TRUE

SocketsClosed == \A c \in Clients : socket[c] # "open"

StopAll ==
  /\ Quiet /\ phase = "closing" /\ SocketsClosed
  /\ phase' = "stopping"
  /\ chain' = [i \in Instruments |->
                 Append(chain[i], [want |-> FALSE, by |-> Other])]
  /\ last' = [i \in Instruments |-> FALSE]
  /\ UNCHANGED <<gateway, running, stopping, loop, unreleased>>

Down ==
  /\ Quiet /\ phase = "stopping" /\ \A i \in Instruments : chain[i] = <<>>
  /\ phase' = "down"
  /\ UNCHANGED <<gateway, registry, loop, unreleased>>

-----------------------------------------------------------------------------
SocketEvent ==
  \E c \in Clients :
    Connect(c) \/ Close(c) \/ \E i \in Instruments : SubscribeClient(c, i) \/ UnsubscribeClient(c, i)
Transition == \E i \in Instruments : Settle(i) \/ BeginStop(i) \/ StopDone(i)
Closing    == Shutdown \/ (\E c \in Clients : ReleaseNext(c)) \/ StopAll \/ Down

Next == SocketEvent \/ Release \/ Transition \/ Closing
Spec == Init /\ [][Next]_vars

-----------------------------------------------------------------------------
\* Every variable holds a value of its kind; only the head of a chain stops.
TypeOK ==
  /\ socket \in [Clients -> {"new", "open", "closed"}]
  /\ subs \in [Clients -> SUBSET Instruments]
  /\ visits \in [Clients -> Visits]
  /\ messages \in 0 .. MaxMessages
  /\ running \in [Instruments -> BOOLEAN]
  /\ chain \in [Instruments -> Seq([want : BOOLEAN, by : Callers])]
  /\ stopping \in [Instruments -> BOOLEAN]
  /\ last \in [Instruments -> BOOLEAN]
  /\ loop \in Seq([client : Clients, rest : SUBSET Instruments]) /\ Len(loop) <= 1
  /\ unreleased \subseteq Clients
  /\ phase \in {"up", "closing", "stopping", "down"}
  /\ \A i \in Instruments : stopping[i] => /\ chain[i] # <<>> /\ running[i]
                                         /\ ~Head(chain[i]).want

AtRest(i) == Quiet /\ chain[i] = <<>>

(* A runtime whose transitions have all settled is in the state that was   *)
(* asked for last, however starts and stops of several browsers overtook a *)
(* slow stop: what reconcile decides, it decides when its turn has come.   *)
LastTransitionWins == \A i \in Instruments : AtRest(i) => running[i] = last[i]

(* A browser that is subscribed to an instrument at rest finds its runtime *)
(* running: nobody else's departure stops it.                              *)
SubscribedIsRunning ==
  \A c \in Clients, i \in Instruments :
    phase = "up" /\ socket[c] = "open" /\ i \in subs[c] /\ AtRest(i) => running[i]

(* So it is as long as every browser asks for one instrument only: its     *)
(* departure is then a single stop, which HasSubscribers decides at once.  *)
OneVisitKeptRunning ==
  (\A c \in Clients : Cardinality(visits[c]) <= 1) => SubscribedIsRunning

(* A runtime is as its browsers want it: as last asked, and never stopped  *)
(* over the head of one that stays.                                        *)
RuntimesFollow == LastTransitionWins /\ OneVisitKeptRunning

(* A shutdown leaves no runtime running, whatever browsers ask for while   *)
(* their sockets close.                                                    *)
ShutdownStops == phase = "down" => \A i \in Instruments : ~running[i]
=============================================================================
