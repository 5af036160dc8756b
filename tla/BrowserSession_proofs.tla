-------------------------- MODULE BrowserSession_proofs --------------------------
(***************************************************************************)
(* What a browser shows and what the server runs for it, for every number  *)
(* of sockets, visits, requests and settings.  The inductive invariant     *)
(* says what is in flight: which subscription the browser has asked for    *)
(* last, and what the messages on their way down will make of its page.    *)
(***************************************************************************)
EXTENDS BrowserSession, SequenceTheorems, TLAPS

(***************************************************************************)
(* What is in flight, and what each end knows of the other.                *)

UpMessages ==
  [kind : {"ack", "subscribe", "unsubscribe"}] \cup
  [kind : {"control", "raw"}, id : 1 .. MaxUses, to : Settings, bound : BOOLEAN]

DownMessages ==
  [kind : {"hello"}] \cup [kind : {"lifecycle"}, shown : Settings \cup {"gone"}] \cup
  [kind : {"state"}, shown : Settings] \cup
  [kind : {"snapshot"}, snapshot : Snapshots] \cup
  [kind : {"answer"}, id : 1 .. MaxUses]

Transitions == [want : {TRUE}, by : Sockets] \cup [want : {FALSE}, by : {0}]

Jobs == [by : Sockets, id : 1 .. MaxUses, to : Settings, bound : BOOLEAN, live : BOOLEAN]

InFlightTyped ==
  /\ up \in [Sockets -> Seq(UpMessages)] /\ down \in Seq(DownMessages)
  /\ chain \in Seq(Transitions) /\ jobs \in Seq(Jobs)

\* A socket that is not the last may be lost, and is then replaced once.
SocketsInTurn ==
  /\ socket \in {"closing", "none"} => n < MaxSockets
  /\ timer => socket = "none"
  /\ socket = "connecting" => ~ready

\* The server has never heard of socket c.
Unknown(c) ==
  /\ up[c] = <<>> /\ client[c] = [open |-> FALSE, ready |-> FALSE, subs |-> FALSE]
  /\ ~Awaiting(c)

SocketsKnown ==
  /\ \A c \in Sockets : c > n => Unknown(c)
  /\ socket = "connecting" => Unknown(n)
  /\ socket = "open" => client[n].open
  /\ socket \in {"connecting", "open"} /\ ~ready =>
       up[n] = <<>> /\ ~client[n].ready /\ ~client[n].subs /\ ~Awaiting(n)

\* Nothing is subscribed before hello is acknowledged.
HasAck(msgs, acked) == acked \/ \E j \in DOMAIN msgs : msgs[j].kind = "ack"

AcksFirst(msgs, acked) ==
  \A k \in DOMAIN msgs : msgs[k].kind = "subscribe" =>
    acked \/ \E j \in DOMAIN msgs : j < k /\ msgs[j].kind = "ack"

AckFirst ==
  /\ \A c \in Sockets :
       /\ client[c].ready => client[c].open
       /\ client[c].subs => client[c].ready
       /\ client[c].open /\ Awaiting(c) => client[c].ready
       /\ AcksFirst(up[c], client[c].ready)
  /\ Usable => HasAck(up[n], client[n].ready)

\* What the last request for the subscription among some messages asks.
IsAsk(m) == m.kind \in {"subscribe", "unsubscribe"}

NoAsks(msgs) == \A k \in DOMAIN msgs : ~IsAsk(msgs[k])

NoUnsubscribe(msgs) == \A k \in DOMAIN msgs : msgs[k].kind # "unsubscribe"

LastAsks(msgs, wanted) ==
  \/ NoAsks(msgs)
  \/ \E k \in DOMAIN msgs :
       /\ IsAsk(msgs[k]) /\ \A j \in DOMAIN msgs : j > k => ~IsAsk(msgs[j])
       /\ msgs[k].kind = "subscribe" <=> wanted

\* The browser has asked for what the route wants, and once nothing is asked
\* the server has it; except after an unsubscribe that met a subscription
\* awaiting its start.
RouteIsAsked ==
  Usable =>
    /\ LastAsks(up[n], active)
    /\ NoAsks(up[n]) /\ n \notin ignored => (active <=> client[n].subs \/ Awaiting(n))

\* A stop is queued when nobody is subscribed and only ever first, and a runtime
\* that runs is used or owed to a browser that left.
RegistryIsWanted ==
  /\ stopping => chain # <<>> /\ ~Head(chain).want
  /\ \A k \in DOMAIN chain : ~chain[k].want =>
       /\ k = 1 /\ running /\ ~HasSubscribers(client)
       /\ ~stopping => Len(chain) = 1
  /\ \A k \in DOMAIN chain : chain[k].want /\ ~client[chain[k].by].open => orphan
  /\ HasSubscribers(client) => running
  /\ running /\ chain = <<>> => HasSubscribers(client) \/ orphan

\* Snapshot p belongs to state s.
Labelled(p, s) ==
  /\ p \in Snapshots /\ p.fn = Function[s]
  /\ p.of \in Settings => p.under = s /\ Function[p.of] = Function[s]

\* What the service has.
ServiceAgrees ==
  /\ ~session => snapshot = NoSnapshot
  /\ snapshot = NoSnapshot \/ Labelled(snapshot, known)
  /\ \A k \in DOMAIN jobs : jobs[k].live => session

\* The controls of the page.
ControlsKnown ==
  /\ pending \subseteq 1 .. requestId /\ newest \in 0 .. requestId
  /\ ~active => view = "awaiting" /\ reading = NoSnapshot /\ control = 0 /\ newest = 0
  /\ NewestControlShown

-----------------------------------------------------------------------------
(* What the messages in flight will make of the page.                      *)

Pages == [view : Settings \cup {"awaiting", "gone"}, reading : Snapshots]

Page     == [view |-> view, reading |-> reading]
Blank    == [view |-> "awaiting", reading |-> NoSnapshot]
ShownNow == [view |-> Shown, reading |-> IF session THEN snapshot ELSE NoSnapshot]

Coherent(p) ==
  /\ p \in Pages
  /\ p.reading.of \in Settings =>
       p.reading.under = p.view /\ Function[p.reading.of] = Function[p.view]

\* The page of an active route after message m.
After(p, m) ==
  IF m.kind = "lifecycle" THEN [view |-> m.shown, reading |-> NoSnapshot]
  ELSE IF m.kind = "state" /\ p.view \in Settings
  THEN [view |-> m.shown, reading |-> IF p.view = m.shown THEN p.reading ELSE NoSnapshot]
  ELSE IF m.kind = "snapshot" /\ p.view \in Settings /\ m.snapshot.fn = Function[p.view]
  THEN [view |-> p.view, reading |-> m.snapshot]
  ELSE p

\* The messages d lead from page p to page q, through coherent pages only.
Leads(p, d, q) ==
  \E w \in [0 .. Len(d) -> Pages] :
    /\ w[0] = p /\ w[Len(d)] = q
    /\ \A i \in 1 .. Len(d) : w[i] = After(w[i - 1], d[i])
    /\ \A i \in 0 .. Len(d) : Coherent(w[i])

\* The browser sees its subscription answered: nothing is asked of the server
\* that would end it.
Synced == active /\ n \notin ignored /\ NoUnsubscribe(up[n])

Subscribed == socket = "open" /\ n \in Subscribers

\* The messages in flight lead a subscribed browser's page to what the server
\* shows, and through coherent pages only.
PageFollows ==
  \E q \in Pages :
    /\ Leads(Page, down, q)
    /\ Subscribed => q \in {ShownNow, Blank}
    /\ Subscribed /\ Synced => q = ShownNow

IInv ==
  /\ TypeOK /\ InFlightTyped /\ SocketsInTurn /\ SocketsKnown /\ AckFirst
  /\ RouteIsAsked /\ RegistryIsWanted /\ ServiceAgrees /\ ControlsKnown /\ PageFollows

-----------------------------------------------------------------------------
(* Lemmas about the messages on their way to the page.                     *)

LEMMA NothingRead == NoSnapshot \in Snapshots /\ NoSnapshot.of \notin Settings
BY BrowserAssumption DEF NoSnapshot, Snapshots

LEMMA LeadsNowhere ==
  ASSUME NEW p, Coherent(p)
  PROVE  Leads(p, <<>>, p)
<1> DEFINE w == [i \in 0 .. 0 |-> p]
<1>1. Len(<<>>) = 0 /\ 0 .. Len(<<>>) = {0} /\ 1 .. Len(<<>>) = {}
  OBVIOUS
<1>2. w \in [0 .. Len(<<>>) -> Pages] /\ w[0] = p
  BY <1>1 DEF Coherent
<1> HIDE DEF w
<1> QED
  BY <1>1, <1>2 DEF Leads

LEMMA LeadsFromHere ==
  ASSUME NEW p, NEW q, Leads(p, <<>>, q)
  PROVE  p = q
BY DEF Leads

LEMMA LeadsThroughCoherent ==
  ASSUME NEW d \in Seq(DownMessages), NEW p, NEW q, Leads(p, d, q)
  PROVE  Coherent(p) /\ Coherent(q)
<1>1. Len(d) \in Nat
  OBVIOUS
<1>2. 0 \in 0 .. Len(d) /\ Len(d) \in 0 .. Len(d)
  BY <1>1
<1> QED
  BY <1>2 DEF Leads

\* One more message is sent.
LEMMA LeadsFurther ==
  ASSUME NEW d \in Seq(DownMessages), NEW p, NEW q, Leads(p, d, q),
         NEW m \in DownMessages, Coherent(After(q, m))
  PROVE  Leads(p, d \o <<m>>, After(q, m))
<1>1. PICK w \in [0 .. Len(d) -> Pages] :
        /\ w[0] = p /\ w[Len(d)] = q
        /\ \A i \in 1 .. Len(d) : w[i] = After(w[i - 1], d[i])
        /\ \A i \in 0 .. Len(d) : Coherent(w[i])
  BY DEF Leads
<1>2. PICK k : k = Len(d)
  OBVIOUS
<1>3. k \in Nat /\ Len(d \o <<m>>) = k + 1
  BY <1>2
<1>4. (d \o <<m>>)[k + 1] = m /\ \A i \in 1 .. k : (d \o <<m>>)[i] = d[i]
  BY <1>2
<1>5. PICK e : e = d \o <<m>>
  OBVIOUS
<1> DEFINE v == [i \in 0 .. k + 1 |-> IF i = k + 1 THEN After(q, m) ELSE w[i]]
<1>6. After(q, m) \in Pages
  BY DEF Coherent
<1>7. v \in [0 .. k + 1 -> Pages]
  BY <1>1, <1>2, <1>3, <1>6
<1>8. v[k + 1] = After(q, m) /\ \A i \in 0 .. k : v[i] = w[i]
  BY <1>3
<1> HIDE DEF v
<1>9. \A i \in 1 .. k + 1 : v[i] = After(v[i - 1], e[i])
  <2>1. ASSUME NEW i \in 1 .. k + 1, i # k + 1 PROVE v[i] = After(v[i - 1], e[i])
    <3>1. i \in 1 .. k /\ i \in 0 .. k /\ i - 1 \in 0 .. k
      BY <1>3, <2>1
    <3> QED
      BY <1>1, <1>2, <1>4, <1>5, <1>8, <3>1
  <2>2. ASSUME NEW i \in 1 .. k + 1, i = k + 1 PROVE v[i] = After(v[i - 1], e[i])
    <3>1. i - 1 = k /\ k \in 0 .. k
      BY <1>3, <2>2
    <3>2. v[i - 1] = q /\ e[i] = m
      BY <1>1, <1>2, <1>4, <1>5, <1>8, <2>2, <3>1
    <3> QED
      BY <1>8, <2>2, <3>2
  <2> QED
    BY <2>1, <2>2
<1>10. \A i \in 0 .. k + 1 : Coherent(v[i])
  <2>1. ASSUME NEW i \in 0 .. k + 1, i # k + 1 PROVE Coherent(v[i])
    <3>1. i \in 0 .. k
      BY <1>3, <2>1
    <3> QED
      BY <1>1, <1>2, <1>8, <3>1
  <2> QED
    BY <1>8, <2>1
<1>11. v[0] = p
  BY <1>1, <1>3, <1>8
<1> QED
  BY <1>3, <1>5, <1>7, <1>8, <1>9, <1>10, <1>11 DEF Leads

\* The page takes the next message.
LEMMA LeadsOn ==
  ASSUME NEW d \in Seq(DownMessages), d # <<>>, NEW p, NEW q, Leads(p, d, q)
  PROVE  Leads(After(p, Head(d)), Tail(d), q)
<1>1. PICK w \in [0 .. Len(d) -> Pages] :
        /\ w[0] = p /\ w[Len(d)] = q
        /\ \A i \in 1 .. Len(d) : w[i] = After(w[i - 1], d[i])
        /\ \A i \in 0 .. Len(d) : Coherent(w[i])
  BY DEF Leads
<1>2. PICK k : k = Len(d) - 1
  OBVIOUS
<1>3. k \in Nat /\ Len(d) = k + 1 /\ Len(Tail(d)) = k
  BY <1>2
<1>4. \A i \in 1 .. k : Tail(d)[i] = d[i + 1]
  BY <1>3
<1> DEFINE v == [i \in 0 .. k |-> w[i + 1]]
<1>5. \A i \in 0 .. k : i + 1 \in 0 .. Len(d) /\ i + 1 \in 1 .. Len(d)
  BY <1>3
<1>6. v \in [0 .. k -> Pages] /\ \A i \in 0 .. k : v[i] = w[i + 1]
  BY <1>1, <1>5
<1> HIDE DEF v
<1>7. \A i \in 1 .. k : v[i] = After(v[i - 1], Tail(d)[i])
  <2> TAKE i \in 1 .. k
  <2>1. i \in 0 .. k /\ i - 1 \in 0 .. k /\ i + 1 - 1 = i /\ i - 1 + 1 = i
    BY <1>3
  <2> QED
    BY <1>1, <1>4, <1>5, <1>6, <2>1
<1>8. \A i \in 0 .. k : Coherent(v[i])
  BY <1>1, <1>5, <1>6
<1>9. v[0] = After(p, Head(d)) /\ v[k] = q
  <2>1. 0 \in 0 .. k /\ k \in 0 .. k /\ 0 + 1 = 1 /\ 1 - 1 = 0 /\ 1 \in 1 .. Len(d)
    BY <1>3
  <2> QED
    BY <1>1, <1>3, <1>6, <2>1
<1> QED
  BY <1>3, <1>6, <1>7, <1>8, <1>9 DEF Leads

\* A new context begins: the page shows nothing until a lifecycle message.
LEMMA LeadsAnew ==
  ASSUME NEW d \in Seq(DownMessages), NEW p, NEW q, Leads(p, d, q)
  PROVE  \E r \in {q, Blank} : Leads(Blank, d, r)
<1>1. PICK w \in [0 .. Len(d) -> Pages] :
        /\ w[0] = p /\ w[Len(d)] = q
        /\ \A i \in 1 .. Len(d) : w[i] = After(w[i - 1], d[i])
        /\ \A i \in 0 .. Len(d) : Coherent(w[i])
  BY DEF Leads
<1> DEFINE seen(i) == \E j \in 1 .. i : d[j].kind = "lifecycle"
           v == [i \in 0 .. Len(d) |-> IF seen(i) THEN w[i] ELSE Blank]
<1>2. Len(d) \in Nat
  OBVIOUS
<1>3. Blank \in Pages /\ Coherent(Blank)
  BY BrowserAssumption, NothingRead DEF Blank, Pages, Coherent
<1>4. v \in [0 .. Len(d) -> Pages]
  BY <1>1, <1>3
<1>5. \A i \in 0 .. Len(d) : v[i] = IF seen(i) THEN w[i] ELSE Blank
  OBVIOUS
<1>6. ~seen(0)
  OBVIOUS
<1>7. \A i \in 1 .. Len(d) : seen(i) <=> seen(i - 1) \/ d[i].kind = "lifecycle"
  BY <1>2
<1> HIDE DEF v, seen
<1>8. \A i \in 1 .. Len(d) : v[i] = After(v[i - 1], d[i])
  <2> TAKE i \in 1 .. Len(d)
  <2>1. i \in 0 .. Len(d) /\ i - 1 \in 0 .. Len(d)
    BY <1>2
  <2>2. CASE seen(i - 1)
    BY <1>1, <1>5, <1>7, <2>1, <2>2
  <2>3. CASE ~seen(i - 1) /\ d[i].kind = "lifecycle"
    <3>1. v[i] = After(w[i - 1], d[i]) /\ v[i - 1] = Blank
      BY <1>1, <1>5, <1>7, <2>1, <2>3
    <3> QED
      BY <2>3, <3>1 DEF After
  <2>4. CASE ~seen(i - 1) /\ d[i].kind # "lifecycle"
    <3>1. v[i] = Blank /\ v[i - 1] = Blank
      BY <1>5, <1>7, <2>1, <2>4
    <3>2. Blank.view \notin Settings
      BY BrowserAssumption DEF Blank
    <3> QED
      BY <2>4, <3>1, <3>2 DEF After
  <2> QED
    BY <2>2, <2>3, <2>4
<1>9. \A i \in 0 .. Len(d) : Coherent(v[i])
  BY <1>1, <1>3, <1>5
<1>10. v[0] = Blank /\ v[Len(d)] \in {q, Blank}
  BY <1>1, <1>2, <1>5, <1>6
<1>11. Leads(Blank, d, v[Len(d)])
  BY <1>4, <1>8, <1>9, <1>10 DEF Leads
<1> QED
  BY <1>10, <1>11

-----------------------------------------------------------------------------
(* Lemmas about what a browser has asked, and who awaits a start.          *)

LEMMA Pushed ==
  ASSUME NEW S, NEW s \in Seq(S), NEW m \in S
  PROVE  /\ s \o <<m>> \in Seq(S) /\ Append(s, m) = s \o <<m>>
         /\ Len(s) \in Nat /\ Len(s \o <<m>>) = Len(s) + 1
         /\ DOMAIN s = 1 .. Len(s) /\ DOMAIN (s \o <<m>>) = 1 .. Len(s) + 1
         /\ (s \o <<m>>)[Len(s) + 1] = m
         /\ \A k \in DOMAIN s : (s \o <<m>>)[k] = s[k]
OBVIOUS

LEMMA Taken ==
  ASSUME NEW S, NEW s \in Seq(S), s # <<>>
  PROVE  /\ Tail(s) \in Seq(S) /\ Head(s) = s[1] /\ Head(s) \in S
         /\ Len(s) \in Nat \ {0} /\ DOMAIN s = 1 .. Len(s)
         /\ DOMAIN Tail(s) = 1 .. Len(s) - 1
         /\ \A k \in DOMAIN Tail(s) : Tail(s)[k] = s[k + 1]
<1>1. Len(s) \in Nat \ {0}
  BY EmptySeq
<1> QED
  BY <1>1

\* A further request for the subscription is the last one.
LEMMA AskIsLast ==
  ASSUME NEW s \in Seq(UpMessages), NEW m \in UpMessages, IsAsk(m),
         NEW wanted \in BOOLEAN, wanted <=> m.kind = "subscribe"
  PROVE  LastAsks(s \o <<m>>, wanted) /\ ~NoAsks(s \o <<m>>)
<1>1. PICK t : t = s \o <<m>>
  OBVIOUS
<1>2. DOMAIN t = 1 .. Len(s) + 1 /\ t[Len(s) + 1] = m /\ Len(s) \in Nat
  BY <1>1, Pushed
<1>3. ~NoAsks(t)
  BY <1>2 DEF NoAsks
<1>4. LastAsks(t, wanted)
  <2>1. Len(s) + 1 \in DOMAIN t /\ \A j \in DOMAIN t : ~(j > Len(s) + 1)
    BY <1>2
  <2> QED
    BY <1>2, <2>1 DEF LastAsks
<1> QED
  BY <1>1, <1>3, <1>4

LEMMA OtherLeavesAsks ==
  ASSUME NEW s \in Seq(UpMessages), NEW m \in UpMessages, ~IsAsk(m),
         NEW wanted \in BOOLEAN, LastAsks(s, wanted)
  PROVE  LastAsks(s \o <<m>>, wanted) /\ (NoAsks(s \o <<m>>) => NoAsks(s))
<1>1. PICK t : t = s \o <<m>>
  OBVIOUS
<1>2. /\ DOMAIN t = 1 .. Len(s) + 1 /\ t[Len(s) + 1] = m /\ Len(s) \in Nat
      /\ DOMAIN s = 1 .. Len(s) /\ \A k \in DOMAIN s : t[k] = s[k]
  BY <1>1, Pushed
<1>3. NoAsks(t) => NoAsks(s)
  <2> SUFFICES ASSUME NoAsks(t), NEW k \in DOMAIN s PROVE ~IsAsk(s[k])
    BY DEF NoAsks
  <2>1. k \in DOMAIN t /\ t[k] = s[k]
    BY <1>2
  <2> QED
    BY <2>1 DEF NoAsks
<1>4. CASE NoAsks(s)
  <2>1. ASSUME NEW k \in DOMAIN t PROVE ~IsAsk(t[k])
    <3>1. CASE k = Len(s) + 1
      BY <1>2, <3>1
    <3>2. CASE k # Len(s) + 1
      BY <1>2, <1>4, <3>2 DEF NoAsks
    <3> QED
      BY <3>1, <3>2
  <2> QED
    BY <1>1, <1>4, <2>1 DEF NoAsks, LastAsks
<1>5. CASE ~NoAsks(s)
  <2>1. PICK k \in DOMAIN s :
          /\ IsAsk(s[k]) /\ \A j \in DOMAIN s : j > k => ~IsAsk(s[j])
          /\ s[k].kind = "subscribe" <=> wanted
    BY <1>5 DEF LastAsks
  <2>2. k \in DOMAIN t /\ t[k] = s[k]
    BY <1>2
  <2>3. ASSUME NEW j \in DOMAIN t, j > k PROVE ~IsAsk(t[j])
    <3>1. CASE j = Len(s) + 1
      BY <1>2, <3>1
    <3>2. CASE j # Len(s) + 1
      BY <1>2, <2>1, <2>3, <3>2
    <3> QED
      BY <3>1, <3>2
  <2>4. LastAsks(t, wanted)
    BY <2>1, <2>2, <2>3 DEF LastAsks
  <2> QED
    BY <1>1, <1>3, <2>4
<1> QED
  BY <1>4, <1>5

\* A request is taken off: the last one stays last, or was the only one.
LEMMA AskTaken ==
  ASSUME NEW s \in Seq(UpMessages), s # <<>>, NEW wanted \in BOOLEAN, LastAsks(s, wanted)
  PROVE  /\ LastAsks(Tail(s), wanted)
         /\ NoAsks(Tail(s)) =>
              IF IsAsk(Head(s)) THEN Head(s).kind = "subscribe" <=> wanted ELSE NoAsks(s)
<1>1. PICK t : t = Tail(s)
  OBVIOUS
<1>2. /\ Len(s) \in Nat \ {0} /\ DOMAIN s = 1 .. Len(s) /\ Head(s) = s[1]
      /\ DOMAIN t = 1 .. Len(s) - 1 /\ \A k \in DOMAIN t : t[k] = s[k + 1]
  BY <1>1, Taken
<1>3. ASSUME NEW j \in DOMAIN s, j # 1
      PROVE  \E i \in DOMAIN t : j = i + 1 /\ t[i] = s[j]
  <2>1. j - 1 \in DOMAIN t /\ j = j - 1 + 1
    BY <1>2, <1>3
  <2> QED
    BY <1>2, <2>1
<1>4. ASSUME NEW k \in DOMAIN t PROVE k + 1 \in DOMAIN s /\ t[k] = s[k + 1]
  BY <1>2
<1>5. CASE NoAsks(s)
  <2>1. NoAsks(t)
    BY <1>4, <1>5 DEF NoAsks
  <2>2. ~IsAsk(Head(s))
    BY <1>2, <1>5 DEF NoAsks
  <2> QED
    BY <1>1, <1>5, <2>1, <2>2 DEF LastAsks
<1>6. ASSUME NEW k \in DOMAIN s, IsAsk(s[k]), \A j \in DOMAIN s : j > k => ~IsAsk(s[j]),
             s[k].kind = "subscribe" <=> wanted, k # 1
      PROVE  LastAsks(t, wanted) /\ ~NoAsks(t)
  <2>1. PICK i \in DOMAIN t : k = i + 1 /\ t[i] = s[k]
    BY <1>3, <1>6
  <2>2. ASSUME NEW j \in DOMAIN t, j > i PROVE ~IsAsk(t[j])
    <3>1. j + 1 \in DOMAIN s /\ t[j] = s[j + 1]
      BY <1>4
    <3>2. j + 1 > k
      BY <1>2, <2>1, <2>2
    <3> QED
      BY <1>6, <3>1, <3>2
  <2> QED
    BY <1>6, <2>1, <2>2 DEF LastAsks, NoAsks
<1>7. ASSUME NEW k \in DOMAIN s, IsAsk(s[k]), \A j \in DOMAIN s : j > k => ~IsAsk(s[j]),
             s[k].kind = "subscribe" <=> wanted, k = 1
      PROVE  NoAsks(t) /\ IsAsk(Head(s)) /\ (Head(s).kind = "subscribe" <=> wanted)
  <2>1. ASSUME NEW j \in DOMAIN t PROVE ~IsAsk(t[j])
    <3>1. j + 1 \in DOMAIN s /\ t[j] = s[j + 1]
      BY <1>4
    <3>2. j + 1 > k
      BY <1>2, <1>7
    <3> QED
      BY <1>7, <3>1, <3>2
  <2> QED
    BY <1>2, <1>7, <2>1 DEF NoAsks
<1>8. CASE ~NoAsks(s)
  <2>1. PICK k \in DOMAIN s :
          /\ IsAsk(s[k]) /\ \A j \in DOMAIN s : j > k => ~IsAsk(s[j])
          /\ s[k].kind = "subscribe" <=> wanted
    BY <1>8 DEF LastAsks
  <2>2. CASE k = 1
    BY <1>1, <1>7, <2>1, <2>2 DEF LastAsks
  <2>3. CASE k # 1
    BY <1>1, <1>6, <2>1, <2>3
  <2> QED
    BY <2>2, <2>3
<1> QED
  BY <1>5, <1>8

\* Nothing that has been asked ends the subscription, and it is not wanted.
LEMMA NothingAsked ==
  ASSUME NEW s \in Seq(UpMessages), LastAsks(s, FALSE), NoUnsubscribe(s)
  PROVE  NoAsks(s)
BY DEF LastAsks, IsAsk, NoUnsubscribe

LEMMA UnsubscribesPushed ==
  ASSUME NEW s \in Seq(UpMessages), NEW m \in UpMessages, NoUnsubscribe(s \o <<m>>)
  PROVE  NoUnsubscribe(s)
<1>1. PICK t : t = s \o <<m>>
  OBVIOUS
<1>2. /\ DOMAIN t = 1 .. Len(s) + 1 /\ Len(s) \in Nat
      /\ DOMAIN s = 1 .. Len(s) /\ \A k \in DOMAIN s : t[k] = s[k]
  BY <1>1, Pushed
<1>3. ASSUME NEW k \in DOMAIN s PROVE s[k].kind # "unsubscribe"
  <2>1. k \in DOMAIN t /\ t[k] = s[k]
    BY <1>2
  <2> QED
    BY <1>1, <2>1 DEF NoUnsubscribe
<1> QED
  BY <1>3 DEF NoUnsubscribe

LEMMA UnsubscribesTaken ==
  ASSUME NEW s \in Seq(UpMessages), s # <<>>, NoUnsubscribe(Tail(s)),
         Head(s).kind # "unsubscribe"
  PROVE  NoUnsubscribe(s)
<1>1. PICK t : t = Tail(s)
  OBVIOUS
<1>2. /\ Len(s) \in Nat \ {0} /\ DOMAIN s = 1 .. Len(s) /\ Head(s) = s[1]
      /\ DOMAIN t = 1 .. Len(s) - 1 /\ \A k \in DOMAIN t : t[k] = s[k + 1]
  BY <1>1, Taken
<1>3. ASSUME NEW j \in DOMAIN s, j # 1 PROVE s[j].kind # "unsubscribe"
  <2>1. j - 1 \in DOMAIN t /\ j = j - 1 + 1
    BY <1>2, <1>3
  <2>2. t[j - 1] = s[j]
    BY <1>2, <2>1
  <2> QED
    BY <1>1, <2>1, <2>2 DEF NoUnsubscribe
<1> QED
  BY <1>2, <1>3 DEF NoUnsubscribe

\* The acknowledgement goes before the subscriptions.
LEMMA AckPushed ==
  ASSUME NEW s \in Seq(UpMessages), NEW m \in UpMessages, NEW acked \in BOOLEAN,
         AcksFirst(s, acked), m.kind = "subscribe" => HasAck(s, acked)
  PROVE  /\ AcksFirst(s \o <<m>>, acked)
         /\ HasAck(s, acked) \/ m.kind = "ack" => HasAck(s \o <<m>>, acked)
<1>1. PICK t : t = s \o <<m>>
  OBVIOUS
<1>2. /\ DOMAIN t = 1 .. Len(s) + 1 /\ t[Len(s) + 1] = m /\ Len(s) \in Nat
      /\ DOMAIN s = 1 .. Len(s) /\ \A k \in DOMAIN s : k \in DOMAIN t /\ t[k] = s[k]
  BY <1>1, Pushed
<1>3. HasAck(s, acked) \/ m.kind = "ack" => HasAck(t, acked)
  BY <1>2 DEF HasAck
<1>4. AcksFirst(t, acked)
  <2> SUFFICES ASSUME NEW k \in DOMAIN t, t[k].kind = "subscribe"
               PROVE  acked \/ \E j \in DOMAIN t : j < k /\ t[j].kind = "ack"
    BY DEF AcksFirst
  <2>1. CASE k = Len(s) + 1
    <3>1. HasAck(s, acked)
      BY <1>2, <2>1
    <3>2. \A j \in DOMAIN s : j < k
      BY <1>2, <2>1
    <3> QED
      BY <1>2, <3>1, <3>2 DEF HasAck
  <2>2. CASE k # Len(s) + 1
    <3>1. k \in DOMAIN s
      BY <1>2, <2>2
    <3> QED
      BY <1>2, <3>1 DEF AcksFirst
  <2> QED
    BY <2>1, <2>2
<1> QED
  BY <1>1, <1>3, <1>4

LEMMA AckTaken ==
  ASSUME NEW s \in Seq(UpMessages), s # <<>>, NEW acked \in BOOLEAN, AcksFirst(s, acked)
  PROVE  /\ Head(s).kind = "subscribe" => acked
         /\ AcksFirst(Tail(s), acked \/ Head(s).kind = "ack")
         /\ HasAck(s, acked) => HasAck(Tail(s), acked \/ Head(s).kind = "ack")
<1>1. PICK t : t = Tail(s)
  OBVIOUS
<1>2. /\ Len(s) \in Nat \ {0} /\ DOMAIN s = 1 .. Len(s) /\ Head(s) = s[1]
      /\ DOMAIN t = 1 .. Len(s) - 1 /\ \A k \in DOMAIN t : t[k] = s[k + 1]
  BY <1>1, Taken
<1>3. ASSUME NEW j \in DOMAIN s, j # 1
      PROVE  \E i \in DOMAIN t : j = i + 1 /\ t[i] = s[j]
  <2>1. j - 1 \in DOMAIN t /\ j = j - 1 + 1
    BY <1>2, <1>3
  <2> QED
    BY <1>2, <2>1
<1>4. ASSUME s[1].kind = "subscribe" PROVE acked
  <2>1. 1 \in DOMAIN s /\ \A j \in DOMAIN s : ~(j < 1)
    BY <1>2
  <2> QED
    BY <1>4, <2>1 DEF AcksFirst
<1>5. ASSUME ~acked, s[1].kind # "ack" PROVE AcksFirst(t, FALSE)
  <2> SUFFICES ASSUME NEW k \in DOMAIN t, t[k].kind = "subscribe"
               PROVE  \E j \in DOMAIN t : j < k /\ t[j].kind = "ack"
    BY DEF AcksFirst
  <2>1. PICK l : l = k + 1
    OBVIOUS
  <2>2. l \in DOMAIN s /\ t[k] = s[l]
    BY <1>2, <2>1
  <2>3. PICK j \in DOMAIN s : j < l /\ s[j].kind = "ack"
    BY <1>5, <2>2 DEF AcksFirst
  <2>4. PICK i \in DOMAIN t : j = i + 1 /\ t[i] = s[j]
    BY <1>3, <1>5, <2>3
  <2> QED
    BY <1>2, <2>1, <2>3, <2>4
<1>6. HasAck(s, acked) => HasAck(t, acked \/ s[1].kind = "ack")
  <2> SUFFICES ASSUME NEW j \in DOMAIN s, s[j].kind = "ack", j # 1
               PROVE  \E i \in DOMAIN t : t[i].kind = "ack"
    BY DEF HasAck
  <2> QED
    BY <1>3
<1>7. acked \/ s[1].kind = "ack" => AcksFirst(t, TRUE)
  BY DEF AcksFirst
<1> QED
  BY <1>1, <1>2, <1>4, <1>5, <1>6, <1>7 DEF AcksFirst

\* Who awaits a start: whoever is in the queue.
InQueue(q, c) == \E k \in DOMAIN q : q[k].by = c

LEMMA QueuePushed ==
  ASSUME NEW q \in Seq(Transitions), NEW t \in Transitions, NEW c
  PROVE  InQueue(Append(q, t), c) <=> InQueue(q, c) \/ t.by = c
<1>1. PICK r : r = Append(q, t)
  OBVIOUS
<1>2. /\ DOMAIN r = 1 .. Len(q) + 1 /\ r[Len(q) + 1] = t /\ Len(q) \in Nat
      /\ DOMAIN q = 1 .. Len(q) /\ \A k \in DOMAIN q : k \in DOMAIN r /\ r[k] = q[k]
  BY <1>1, Pushed
<1>3. ASSUME NEW k \in DOMAIN r, r[k].by = c PROVE InQueue(q, c) \/ t.by = c
  <2>1. CASE k = Len(q) + 1
    BY <1>2, <1>3, <2>1
  <2>2. CASE k # Len(q) + 1
    BY <1>2, <1>3, <2>2 DEF InQueue
  <2> QED
    BY <2>1, <2>2
<1>4. Len(q) + 1 \in DOMAIN r
  BY <1>2
<1> QED
  BY <1>1, <1>2, <1>3, <1>4 DEF InQueue

LEMMA QueueTaken ==
  ASSUME NEW q \in Seq(Transitions), q # <<>>, NEW c
  PROVE  InQueue(q, c) <=> InQueue(Tail(q), c) \/ Head(q).by = c
<1>1. PICK r : r = Tail(q)
  OBVIOUS
<1>2. /\ Len(q) \in Nat \ {0} /\ DOMAIN q = 1 .. Len(q) /\ Head(q) = q[1]
      /\ DOMAIN r = 1 .. Len(q) - 1 /\ \A k \in DOMAIN r : r[k] = q[k + 1]
  BY <1>1, Taken
<1>3. ASSUME NEW j \in DOMAIN q, j # 1
      PROVE  \E i \in DOMAIN r : j = i + 1 /\ r[i] = q[j]
  <2>1. j - 1 \in DOMAIN r /\ j = j - 1 + 1
    BY <1>2, <1>3
  <2> QED
    BY <1>2, <2>1
<1>4. \A k \in DOMAIN r : k + 1 \in DOMAIN q
  BY <1>2
<1>5. 1 \in DOMAIN q
  BY <1>2
<1> QED
  BY <1>1, <1>2, <1>3, <1>4, <1>5 DEF InQueue

-----------------------------------------------------------------------------
(* The initial state.                                                      *)

LEMMA InitIInv == Init => IInv
<1> SUFFICES ASSUME Init PROVE IInv
  OBVIOUS
<1> USE BrowserAssumption DEF Init
<1>1. TypeOK /\ InFlightTyped
  <2>1. TypeOK
    <3>1. n \in Sockets /\ meter \in Settings
      BY DEF Sockets
    <3>2. client \in [Sockets -> [open : BOOLEAN, ready : BOOLEAN, subs : BOOLEAN]]
      OBVIOUS
    <3>3. /\ {control, newest, requestId} \subseteq 0 .. MaxUses /\ pending \subseteq 1 .. MaxUses
          /\ visits \in 0 .. MaxUses /\ events \in 0 .. MaxEvents
      OBVIOUS
    <3> QED
      BY <3>1, <3>2, <3>3, NothingRead DEF TypeOK
  <2>2. InFlightTyped
    BY DEF InFlightTyped
  <2> QED
    BY <2>1, <2>2
<1>2. \A c \in Sockets : Unknown(c)
  BY DEF Unknown, Awaiting
<1>3. SocketsInTurn /\ SocketsKnown
  <2>1. SocketsInTurn
    BY DEF SocketsInTurn
  <2>2. n \in Sockets
    BY DEF Sockets
  <2>3. Unknown(n)
    BY <1>2, <2>2
  <2> QED
    BY <1>2, <2>1, <2>3 DEF SocketsKnown, Unknown
<1>4. AckFirst
  BY DEF AckFirst, AcksFirst, Usable
<1>5. ~HasSubscribers(client)
  BY DEF HasSubscribers
<1>6. RouteIsAsked /\ RegistryIsWanted
  BY <1>5 DEF RouteIsAsked, Usable, RegistryIsWanted
<1>7. ServiceAgrees /\ ControlsKnown
  BY DEF ServiceAgrees, ControlsKnown, NewestControlShown
<1>8. PageFollows
  <2>1. Page = Blank /\ Blank \in Pages /\ Coherent(Blank)
    BY NothingRead DEF Page, Blank, Pages, Coherent
  <2>2. Leads(Page, down, Blank)
    BY <2>1, LeadsNowhere
  <2>3. ~Subscribed
    BY DEF Subscribed
  <2> QED
    BY <2>1, <2>2, <2>3 DEF PageFollows
<1> QED
  BY <1>1, <1>3, <1>4, <1>6, <1>7, <1>8 DEF IInv

-----------------------------------------------------------------------------
(* Types.                                                                  *)

LEMMA MessagesTyped ==
  ASSUME TypeOK
  PROVE  /\ \A v \in Settings \cup {"gone"} : Lifecycle(v) \in Seq(DownMessages)
         /\ \A s \in Settings : State(s) \in Seq(DownMessages)
         /\ \A s \in Settings : Snapshot(OldSnapshot(s)) \in Seq(DownMessages)
         /\ Snapshot(snapshot) \in Seq(DownMessages)
         /\ Snapshot(Measured(meter)) \in Seq(DownMessages)
         /\ \A id \in 1 .. MaxUses : Answer(id) \in Seq(DownMessages)
         /\ Shown \in Settings \cup {"gone"}
<1> USE BrowserAssumption
<1>1. \A v \in Settings \cup {"gone"} : Lifecycle(v) \in Seq(DownMessages)
  BY DEF Lifecycle, DownMessages
<1>2. \A s \in Settings : State(s) \in Seq(DownMessages)
  BY DEF State, DownMessages
<1>3. \A id \in 1 .. MaxUses : Answer(id) \in Seq(DownMessages)
  BY DEF Answer, DownMessages
<1>4. Shown \in Settings \cup {"gone"}
  BY DEF Shown, TypeOK
<1>5. \A p \in Snapshots : Snapshot(p) \in Seq(DownMessages)
  <2> TAKE p \in Snapshots
  <2>1. [kind |-> "snapshot", snapshot |-> p] \in DownMessages
    BY DEF DownMessages
  <2> QED
    BY <2>1 DEF Snapshot
<1>6. Snapshot(NoSnapshot) = <<>> /\ <<>> \in Seq(DownMessages)
  BY DEF Snapshot
<1>7. \A s \in Settings : Snapshot(OldSnapshot(s)) \in Seq(DownMessages)
  <2> TAKE s \in Settings
  <2>1. Invalidated(s) \in Snapshots
    BY DEF Invalidated, Snapshots
  <2> QED
    BY <1>5, <1>6, <2>1 DEF OldSnapshot
<1>8. Snapshot(snapshot) \in Seq(DownMessages)
  BY <1>5 DEF TypeOK
<1>9. Measured(meter) \in Snapshots
  BY DEF Measured, Snapshots, TypeOK
<1> QED
  BY <1>1, <1>2, <1>3, <1>4, <1>5, <1>7, <1>8, <1>9

LEMMA OutTyped ==
  ASSUME NEW S, NEW msgs \in Seq(DownMessages), NEW d \in Seq(DownMessages)
  PROVE  Out(S, msgs) \in Seq(DownMessages) /\ d \o Out(S, msgs) \in Seq(DownMessages)
BY DEF Out

LEMMA PublishedTyped ==
  ASSUME TypeOK, ServiceAgrees, NEW s \in Settings
  PROVE  Published(s) \in Seq(DownMessages)
BY MessagesTyped DEF Published

LEMMA SentTyped ==
  ASSUME TypeOK, InFlightTyped, NEW m \in UpMessages, Send(<<m>>)
  PROVE  up' \in [Sockets -> Seq(UpMessages)]
<1>1. n \in Sockets /\ up[n] \in Seq(UpMessages)
  BY DEF TypeOK, InFlightTyped
<1>2. up[n] \o <<m>> \in Seq(UpMessages)
  BY <1>1
<1> QED
  BY <1>1, <1>2 DEF Send, InFlightTyped

LEMMA AsksTyped == Subscribe \in UpMessages /\ Unsubscribe \in UpMessages
                   /\ [kind |-> "ack"] \in UpMessages
BY DEF Subscribe, Unsubscribe, UpMessages

LEMMA ContextTyped ==
  ASSUME NEW v \in Settings \cup {"awaiting", "gone"}, NewContext(v)
  PROVE  /\ view' \in Settings \cup {"awaiting", "gone"}
         /\ reading' \in Snapshots
         /\ {control', newest'} \subseteq 0 .. MaxUses
BY BrowserAssumption, NothingRead DEF NewContext

LEMMA DownContextTyped ==
  ASSUME TypeOK, NEW kind, TransportDown(kind)
  PROVE  /\ view' \in Settings \cup {"awaiting", "gone"}
         /\ reading' \in Snapshots
         /\ {control', newest'} \subseteq 0 .. MaxUses
<1>1. CASE active
  BY <1>1, ContextTyped DEF TransportDown
<1>2. CASE ~active
  BY <1>2 DEF TransportDown, display, TypeOK
<1> QED
  BY <1>1, <1>2

LEMMA RequestsTyped ==
  ASSUME TypeOK, InFlightTyped, NEW m \in UpMessages, Request(m)
  PROVE  /\ requestId' = requestId + 1 /\ requestId' \in 1 .. MaxUses
         /\ pending' \subseteq 1 .. MaxUses
         /\ up' \in [Sockets -> Seq(UpMessages)]
<1>1. requestId' = requestId + 1 /\ requestId' \in 1 .. MaxUses
  BY BrowserAssumption DEF Request, TypeOK
<1>2. CASE Usable
  BY <1>1, <1>2, SentTyped DEF Request, TypeOK
<1>3. CASE ~Usable
  BY <1>1, <1>3 DEF Request, TypeOK, InFlightTyped
<1> QED
  BY <1>1, <1>2, <1>3

LEMMA RequestIdFits ==
  ASSUME TypeOK, visits + requestId < MaxUses
  PROVE  requestId + 1 \in 1 .. MaxUses
BY BrowserAssumption DEF TypeOK

LEMMA BrowserStepsTyped ==
  ASSUME IInv, User \/ Faults \/ CloseEvent \/ Reconnect \/ Accept
  PROVE  TypeOK' /\ InFlightTyped'
<1> USE BrowserAssumption DEF page, link, display, asked, browser, entry, runtime, history, server
<1>1. TypeOK /\ InFlightTyped /\ SocketsInTurn
  BY DEF IInv
<1>2. CASE Activate
  <2>1. up' \in [Sockets -> Seq(UpMessages)]
    BY <1>1, <1>2, SentTyped, AsksTyped DEF Activate, InFlightTyped
  <2>2. InFlightTyped'
    BY <1>1, <1>2, <2>1 DEF Activate, InFlightTyped, Sockets, UpMessages, DownMessages, Transitions, Jobs
  <2>3. visits' \in 0 .. MaxUses
    BY <1>1, <1>2 DEF Activate, TypeOK
  <2> QED
    BY <1>1, <1>2, <2>2, <2>3, ContextTyped DEF Activate, TypeOK, Sockets
<1>3. CASE Deactivate
  <2>1. up' \in [Sockets -> Seq(UpMessages)]
    BY <1>1, <1>3, SentTyped, AsksTyped DEF Deactivate, InFlightTyped
  <2>2. InFlightTyped'
    BY <1>1, <1>3, <2>1 DEF Deactivate, InFlightTyped, Sockets, UpMessages, DownMessages, Transitions, Jobs
  <2> QED
    BY <1>1, <1>3, <2>2, ContextTyped DEF Deactivate, TypeOK, Sockets
<1>4. ASSUME NEW s \in Settings, ApplyControl(s) PROVE TypeOK' /\ InFlightTyped'
  <2>1. requestId + 1 \in 1 .. MaxUses
    BY <1>1, <1>4, RequestIdFits DEF ApplyControl, Request
  <2>2. ControlMessage(s) \in UpMessages
    BY <2>1 DEF ControlMessage, UpMessages
  <2>3. /\ requestId' = requestId + 1 /\ requestId' \in 1 .. MaxUses
        /\ pending' \subseteq 1 .. MaxUses /\ up' \in [Sockets -> Seq(UpMessages)]
    BY <1>1, <1>4, <2>2, RequestsTyped DEF ApplyControl
  <2>4. InFlightTyped'
    BY <1>1, <1>4, <2>3 DEF ApplyControl, InFlightTyped, Sockets, UpMessages, DownMessages, Transitions, Jobs
  <2>5. {control', newest', requestId'} \subseteq 0 .. MaxUses
    BY <1>4, <2>3 DEF ApplyControl, BeginControl
  <2> QED
    BY <1>1, <1>4, <2>3, <2>4, <2>5 DEF ApplyControl, TypeOK, Sockets
<1>5. ASSUME NEW s \in RawSettings, ExecuteScpi(s) PROVE TypeOK' /\ InFlightTyped'
  <2>1. requestId + 1 \in 1 .. MaxUses
    BY <1>1, <1>5, RequestIdFits DEF ExecuteScpi, Request
  <2>2. [kind |-> "raw", id |-> requestId + 1, to |-> s, bound |-> FALSE] \in UpMessages
    BY <2>1 DEF UpMessages
  <2>3. /\ requestId' = requestId + 1 /\ requestId' \in 1 .. MaxUses
        /\ pending' \subseteq 1 .. MaxUses /\ up' \in [Sockets -> Seq(UpMessages)]
    BY <1>1, <1>5, <2>2, RequestsTyped DEF ExecuteScpi
  <2>4. InFlightTyped'
    BY <1>1, <1>5, <2>3 DEF ExecuteScpi, InFlightTyped, Sockets, UpMessages, DownMessages, Transitions, Jobs
  <2> QED
    BY <1>1, <1>5, <2>3, <2>4 DEF ExecuteScpi, TypeOK, Sockets
<1>6. CASE Break
  <2>1. InFlightTyped'
    BY <1>1, <1>6 DEF Break, InFlightTyped, Sockets, UpMessages, DownMessages, Transitions, Jobs
  <2> QED
    BY <1>1, <1>6, <2>1 DEF Break, TypeOK, Sockets
<1>7. CASE ErrorEvent
  <2>1. InFlightTyped'
    BY <1>1, <1>7 DEF ErrorEvent, InFlightTyped, Sockets, UpMessages, DownMessages, Transitions, Jobs
  <2> QED
    BY <1>1, <1>7, <2>1, DownContextTyped DEF ErrorEvent, TransportDown, SetTransport, TypeOK, Sockets
<1>8. CASE CloseEvent
  <2>1. InFlightTyped'
    BY <1>1, <1>8 DEF CloseEvent, InFlightTyped, Sockets, UpMessages, DownMessages, Transitions, Jobs
  <2> QED
    BY <1>1, <1>8, <2>1, DownContextTyped
    DEF CloseEvent, TransportDown, SetTransport, RejectPending, ScheduleReconnect, TypeOK, Sockets
<1>9. CASE Reconnect
  <2>1. InFlightTyped'
    BY <1>1, <1>9 DEF Reconnect, InFlightTyped, Sockets, UpMessages, DownMessages, Transitions, Jobs
  <2>2. n' \in Sockets
    BY <1>1, <1>9 DEF Reconnect, SocketsInTurn, TypeOK, Sockets
  <2> QED
    BY <1>1, <1>9, <2>1, <2>2, DownContextTyped
    DEF Reconnect, TransportDown, SetTransport, TypeOK, Sockets
<1>10. CASE Accept
  <2>1. down' \in Seq(DownMessages)
    BY <1>10 DEF Accept, DownMessages
  <2>2. InFlightTyped'
    BY <1>1, <1>10, <2>1 DEF Accept, InFlightTyped, Sockets, UpMessages, DownMessages, Transitions, Jobs
  <2>3. client' \in [Sockets -> [open : BOOLEAN, ready : BOOLEAN, subs : BOOLEAN]]
    BY <1>1, <1>10 DEF Accept, TypeOK
  <2> QED
    BY <1>1, <1>10, <2>2, <2>3 DEF Accept, TypeOK, Sockets
<1> QED
  BY <1>2, <1>3, <1>4, <1>5, <1>6, <1>7, <1>8, <1>9, <1>10 DEF User, Faults

LEMMA ReceiveTyped ==
  ASSUME IInv, Receive
  PROVE  TypeOK' /\ InFlightTyped'
<1> USE BrowserAssumption DEF page, link, display, asked, browser, entry, runtime, history, server
<1>1. TypeOK /\ InFlightTyped
  BY DEF IInv
<1> DEFINE m == Head(down)
<1>2. m \in DownMessages /\ Tail(down) \in Seq(DownMessages)
  BY <1>1, Taken DEF Receive, InFlightTyped
<1>3. /\ down' \in Seq(DownMessages)
      /\ UNCHANGED <<active, visits, client, running, chain, stopping, session, meter,
                     known, snapshot, events, jobs, ignored, orphan>>
  BY <1>2 DEF Receive
<1>4. /\ UNCHANGED <<n, socket, timer>> /\ ready' \in BOOLEAN
      /\ transport' \in {"Connecting", "Connected", "Disconnected"}
      /\ requestId' = requestId
  BY <1>1 DEF Receive, OnHello, OnLifecycle, OnState, OnSnapshot, OnAnswer, SetTransport, TypeOK
<1>5. up' \in [Sockets -> Seq(UpMessages)]
  <2>1. CASE OnHello
    <3>1. n \in Sockets /\ up[n] \in Seq(UpMessages)
      BY <1>1 DEF TypeOK, InFlightTyped
    <3>2. AfterHello \in Seq(UpMessages)
      BY AsksTyped DEF AfterHello
    <3>3. up[n] \o AfterHello \in Seq(UpMessages)
      BY <3>1, <3>2
    <3> QED
      BY <1>1, <2>1, <3>3 DEF OnHello, Send, InFlightTyped
  <2>2. CASE OnLifecycle \/ OnState \/ OnSnapshot \/ OnAnswer
    BY <1>1, <2>2 DEF OnLifecycle, OnState, OnSnapshot, OnAnswer, InFlightTyped
  <2> QED
    BY <2>1, <2>2 DEF Receive
<1>6. /\ view' \in Settings \cup {"awaiting", "gone"}
      /\ reading' \in Snapshots
      /\ {control', newest'} \subseteq 0 .. MaxUses
      /\ pending' \subseteq 1 .. MaxUses
  <2>1. CASE OnHello
    BY <1>1, <2>1 DEF OnHello, TypeOK
  <2>2. CASE OnLifecycle
    <3>1. m.shown \in Settings \cup {"gone"}
      BY <1>2, <2>2 DEF OnLifecycle, DownMessages
    <3> QED
      BY <1>1, <2>2, <3>1, ContextTyped DEF OnLifecycle, TypeOK
  <2>3. CASE OnState
    <3>1. m.shown \in Settings
      BY <1>2, <2>3 DEF OnState, DownMessages
    <3> QED
      BY <1>1, <2>3, <3>1, NothingRead DEF OnState, TypeOK
  <2>4. CASE OnSnapshot
    <3>1. m.snapshot \in Snapshots
      BY <1>2, <2>4 DEF OnSnapshot, DownMessages
    <3> QED
      BY <1>1, <2>4, <3>1 DEF OnSnapshot, TypeOK
  <2>5. CASE OnAnswer
    <3>1. control' \in {0, control} /\ newest' = newest
      BY <2>5 DEF OnAnswer, Release
    <3>2. pending' \subseteq pending /\ view' = view /\ reading' = reading
      BY <2>5 DEF OnAnswer
    <3> QED
      BY <1>1, <3>1, <3>2 DEF TypeOK
  <2> QED
    BY <2>1, <2>2, <2>3, <2>4, <2>5 DEF Receive
<1>7. InFlightTyped'
  BY <1>1, <1>3, <1>5 DEF InFlightTyped, Sockets, UpMessages, DownMessages, Transitions, Jobs
<1> HIDE DEF m
<1> QED
  BY <1>1, <1>3, <1>4, <1>6, <1>7 DEF TypeOK, Sockets

LEMMA QueueTyped ==
  ASSUME InFlightTyped, NEW want \in BOOLEAN, NEW c, [want |-> want, by |-> c] \in Transitions,
         Queue(want, c)
  PROVE  chain' \in Seq(Transitions)
BY DEF Queue, InFlightTyped

LEMMA StopTyped ==
  ASSUME InFlightTyped, NEW cl, StopIfUnused(cl)
  PROVE  chain' \in Seq(Transitions)
<1>1. [want |-> FALSE, by |-> 0] \in Transitions
  BY DEF Transitions
<1> QED
  BY <1>1, QueueTyped DEF StopIfUnused, InFlightTyped

LEMMA GatewayTyped ==
  ASSUME IInv, NEW c \in Sockets, ServerReceive(c) \/ ServerClose(c)
  PROVE  TypeOK' /\ InFlightTyped'
<1> USE BrowserAssumption DEF page, link, display, asked, browser, entry, runtime, history, server
<1>1. TypeOK /\ InFlightTyped /\ ServiceAgrees
  BY DEF IInv
<1>2. CASE ServerReceive(c)
  <2>1. PICK m : m = Head(up[c])
    OBVIOUS
  <2>2. m \in UpMessages /\ Tail(up[c]) \in Seq(UpMessages)
    BY <1>1, <1>2, <2>1, Taken DEF ServerReceive, InFlightTyped
  <2>3. up' \in [Sockets -> Seq(UpMessages)]
    BY <1>1, <1>2, <2>2 DEF ServerReceive, InFlightTyped
  <2>4. UNCHANGED <<browser, running, stopping, runtime>>
    BY <1>2 DEF ServerReceive
  <2>5. /\ client' \in [Sockets -> [open : BOOLEAN, ready : BOOLEAN, subs : BOOLEAN]]
        /\ chain' \in Seq(Transitions) /\ down' \in Seq(DownMessages) /\ jobs' \in Seq(Jobs)
        /\ ignored' \subseteq Sockets /\ orphan' = orphan
    <3>1. CASE OnAck(c)
      BY <1>1, <3>1 DEF OnAck, TypeOK, InFlightTyped
    <3>2. CASE OnSubscribe(c)
      <4>1. [want |-> TRUE, by |-> c] \in Transitions
        BY DEF Transitions
      <4>2. chain' \in Seq(Transitions)
        BY <1>1, <3>2, <4>1, QueueTyped DEF OnSubscribe, InFlightTyped
      <4> QED
        BY <1>1, <3>2, <4>2 DEF OnSubscribe, TypeOK, InFlightTyped
    <3>3. CASE OnUnsubscribe(c)
      <4>1. chain' \in Seq(Transitions)
        BY <1>1, <3>3, StopTyped DEF OnUnsubscribe, InFlightTyped
      <4>2. client' \in [Sockets -> [open : BOOLEAN, ready : BOOLEAN, subs : BOOLEAN]]
        BY <1>1, <3>3 DEF OnUnsubscribe, TypeOK
      <4> QED
        BY <1>1, <3>3, <4>1, <4>2 DEF OnUnsubscribe, TypeOK, InFlightTyped
    <3>4. CASE OnRequest(c)
      <4>1. m.id \in 1 .. MaxUses /\ m.to \in Settings /\ m.bound \in BOOLEAN
        BY <2>1, <2>2, <3>4 DEF OnRequest, UpMessages
      <4>2. [by |-> c, id |-> m.id, to |-> m.to, bound |-> m.bound, live |-> TRUE] \in Jobs
        BY <4>1 DEF Jobs
      <4>3. jobs' \in Seq(Jobs)
        <5>1. \/ jobs' = Append(jobs, [by |-> c, id |-> m.id, to |-> m.to, bound |-> m.bound,
                                       live |-> TRUE])
              \/ jobs' = jobs
          BY <2>1, <3>4 DEF OnRequest
        <5>2. jobs \in Seq(Jobs)
          BY <1>1 DEF InFlightTyped
        <5> QED
          BY <4>2, <5>1, <5>2
      <4>4. Answer(m.id) \in Seq(DownMessages)
        BY <1>1, <4>1, MessagesTyped
      <4>5. down' \in Seq(DownMessages)
        <5>1. down' = down \o Out({c}, Answer(m.id)) \/ down' = down
          BY <2>1, <3>4 DEF OnRequest
        <5>2. down \in Seq(DownMessages)
          BY <1>1 DEF InFlightTyped
        <5>3. down \o Out({c}, Answer(m.id)) \in Seq(DownMessages)
          BY <4>4, <5>2, OutTyped
        <5> QED
          BY <5>1, <5>2, <5>3
      <4> QED
        BY <1>1, <3>4, <4>3, <4>5 DEF OnRequest, TypeOK, InFlightTyped
    <3> QED
      BY <1>2, <3>1, <3>2, <3>3, <3>4 DEF ServerReceive
  <2>6. InFlightTyped'
    BY <2>3, <2>5 DEF InFlightTyped, Sockets, UpMessages, DownMessages, Transitions, Jobs
  <2> QED
    BY <1>1, <2>4, <2>5, <2>6 DEF TypeOK, Sockets
<1>3. CASE ServerClose(c)
  <2>1. chain' \in Seq(Transitions)
    BY <1>1, <1>3, StopTyped DEF ServerClose, InFlightTyped
  <2>2. up' \in [Sockets -> Seq(UpMessages)]
    BY <1>1, <1>3 DEF ServerClose, InFlightTyped
  <2>3. InFlightTyped'
    BY <1>1, <1>3, <2>1, <2>2 DEF ServerClose, InFlightTyped, Sockets, UpMessages, DownMessages, Transitions, Jobs
  <2>4. client' \in [Sockets -> [open : BOOLEAN, ready : BOOLEAN, subs : BOOLEAN]]
    BY <1>1, <1>3 DEF ServerClose, TypeOK
  <2>5. orphan' \in BOOLEAN /\ ignored' \subseteq Sockets
    BY <1>1, <1>3 DEF ServerClose, TypeOK, Awaiting
  <2>6. UNCHANGED <<browser, running, stopping, runtime>>
    BY <1>3 DEF ServerClose
  <2> QED
    BY <1>1, <2>3, <2>4, <2>5, <2>6 DEF TypeOK, Sockets
<1> QED
  BY <1>2, <1>3

LEMMA SessionEndsTyped ==
  ASSUME InFlightTyped, SessionEnds
  PROVE  jobs' \in Seq(Jobs) /\ session' = FALSE
<1>1. Len(jobs) \in Nat /\ DOMAIN jobs = 1 .. Len(jobs) /\ \A j \in DOMAIN jobs : jobs[j] \in Jobs
  BY DEF InFlightTyped
<1>2. \A j \in DOMAIN jobs : [jobs[j] EXCEPT !.live = FALSE] \in Jobs
  BY <1>1 DEF Jobs
<1> QED
  BY <1>1, <1>2 DEF SessionEnds

LEMMA RegistryTyped ==
  ASSUME IInv, Registry
  PROVE  TypeOK' /\ InFlightTyped'
<1> USE BrowserAssumption DEF page, link, display, asked, browser, entry, runtime, history, server
<1>1. TypeOK /\ InFlightTyped /\ ServiceAgrees
  BY DEF IInv
<1>2. chain # <<>> => Tail(chain) \in Seq(Transitions) /\ Head(chain) \in Transitions
  BY <1>1, Taken DEF InFlightTyped
<1>3. CASE SettleStart
  <2>1. InitialPublications \in Seq(DownMessages) /\ Lifecycle("gone") \in Seq(DownMessages)
    BY <1>1, MessagesTyped DEF InitialPublications
  <2>2. \A S : (IF running THEN <<>> ELSE Out(S, Lifecycle("gone"))) \in Seq(DownMessages)
    BY <2>1 DEF Out
  <2>3. down \o (IF running THEN <<>> ELSE Out(Subscribers, Lifecycle("gone"))) \in Seq(DownMessages)
    BY <1>1, <2>2 DEF InFlightTyped
  <2>4. down' \in Seq(DownMessages)
    BY <1>3, <2>1, <2>3, OutTyped DEF SettleStart
  <2>5. InFlightTyped'
    BY <1>1, <1>2, <1>3, <2>4 DEF SettleStart, Quiet, InFlightTyped, Sockets, UpMessages, DownMessages, Transitions, Jobs
  <2>6. client' \in [Sockets -> [open : BOOLEAN, ready : BOOLEAN, subs : BOOLEAN]]
    <3>1. PICK c : c = Head(chain).by
      OBVIOUS
    <3>2. c \in Sockets
      BY <1>2, <1>3, <3>1 DEF SettleStart, Quiet, Transitions
    <3>3. client[c].open \in BOOLEAN
      BY <1>1, <3>2 DEF TypeOK
    <3>4. client' = [client EXCEPT ![c].subs = client[c].open]
      BY <1>3, <3>1 DEF SettleStart
    <3> QED
      BY <1>1, <3>2, <3>3, <3>4 DEF TypeOK
  <2> QED
    BY <1>1, <1>3, <2>5, <2>6 DEF SettleStart, TypeOK, Sockets
<1>4. CASE BeginStop
  <2>1. jobs' \in Seq(Jobs) /\ session' = FALSE
    BY <1>1, <1>4, SessionEndsTyped DEF BeginStop
  <2>2. down' \in Seq(DownMessages)
    BY <1>1, <1>4, MessagesTyped, OutTyped DEF BeginStop, InFlightTyped
  <2>3. InFlightTyped'
    BY <1>1, <1>4, <2>1, <2>2 DEF BeginStop, InFlightTyped, Sockets, UpMessages, DownMessages, Transitions, Jobs
  <2> QED
    BY <1>1, <1>4, <2>1, <2>3, NothingRead DEF BeginStop, SessionEnds, TypeOK, Sockets
<1>5. CASE StopDone
  <2>1. chain # <<>>
    BY <1>5 DEF StopDone, IInv, RegistryIsWanted
  <2>2. InFlightTyped'
    BY <1>1, <1>2, <1>5, <2>1 DEF StopDone, InFlightTyped, Sockets, UpMessages, DownMessages, Transitions, Jobs
  <2>3. /\ UNCHANGED <<active, visits, n, socket, ready, timer, transport>>
        /\ UNCHANGED <<view, reading, control, newest, pending, requestId>>
        /\ UNCHANGED <<client, session, meter, known, snapshot, events, ignored, orphan>>
    BY <1>5 DEF StopDone
  <2>4. stopping' = FALSE /\ running' = FALSE
    BY <1>5 DEF StopDone
  <2> QED
    <3>1. UNCHANGED <<view, reading, control, newest, pending, requestId, client>>
      BY <2>3
    <3>2. /\ view' \in Settings \cup {"awaiting", "gone"}
          /\ reading' \in Snapshots
          /\ {control', newest', requestId'} \subseteq 0 .. MaxUses
          /\ pending' \subseteq 1 .. MaxUses
          /\ client' \in [Sockets -> [open : BOOLEAN, ready : BOOLEAN, subs : BOOLEAN]]
      BY <1>1, <3>1 DEF TypeOK
    <3> QED
      BY <1>1, <2>2, <2>3, <2>4, <3>2 DEF TypeOK
<1> QED
  BY <1>3, <1>4, <1>5 DEF Registry

LEMMA ServiceStepsTyped ==
  ASSUME IInv, Meter \/ FinishRequest
  PROVE  TypeOK' /\ InFlightTyped'
<1> USE BrowserAssumption DEF page, link, display, asked, browser, entry, runtime, history, server
<1>1. TypeOK /\ InFlightTyped /\ ServiceAgrees
  BY DEF IInv
<1>2. down \in Seq(DownMessages) /\ meter \in Settings /\ known \in Settings
  BY <1>1 DEF InFlightTyped, TypeOK
<1>3. CASE SessionUp
  <2>1. down' \in Seq(DownMessages)
    BY <1>1, <1>2, <1>3, MessagesTyped, OutTyped DEF SessionUp
  <2>2. InFlightTyped'
    BY <1>1, <1>3, <2>1 DEF SessionUp, InFlightTyped, Sockets, UpMessages, DownMessages, Transitions, Jobs
  <2> QED
    BY <1>1, <1>3, <2>2 DEF SessionUp, TypeOK, Sockets
<1>4. CASE SessionLost
  <2>1. jobs' \in Seq(Jobs) /\ session' = FALSE
    BY <1>1, <1>4, SessionEndsTyped DEF SessionLost
  <2>2. down' \in Seq(DownMessages)
    BY <1>1, <1>2, <1>4, MessagesTyped, OutTyped DEF SessionLost
  <2>3. InFlightTyped'
    BY <1>1, <1>4, <2>1, <2>2 DEF SessionLost, InFlightTyped, Sockets, UpMessages, DownMessages, Transitions, Jobs
  <2>4. events' \in 0 .. MaxEvents
    BY <1>1, <1>4 DEF SessionLost, TypeOK
  <2>5. /\ UNCHANGED <<active, visits, n, socket, ready, timer, transport>>
        /\ UNCHANGED <<view, reading, control, newest, pending, requestId>>
        /\ UNCHANGED <<client, running, stopping, meter, known, ignored, orphan>>
    BY <1>4 DEF SessionLost
  <2>6. snapshot' \in Snapshots
    BY <1>4, NothingRead DEF SessionLost, SessionEnds
  <2> QED
    <3>1. UNCHANGED <<view, reading, control, newest, pending, requestId, client>>
      BY <2>5
    <3>2. /\ view' \in Settings \cup {"awaiting", "gone"}
          /\ reading' \in Snapshots
          /\ {control', newest', requestId'} \subseteq 0 .. MaxUses
          /\ pending' \subseteq 1 .. MaxUses
          /\ client' \in [Sockets -> [open : BOOLEAN, ready : BOOLEAN, subs : BOOLEAN]]
      BY <1>1, <3>1 DEF TypeOK
    <3> QED
      BY <1>1, <2>1, <2>3, <2>4, <2>5, <2>6, <3>2 DEF TypeOK
<1>5. CASE Reading
  <2>1. down' \in Seq(DownMessages)
    BY <1>1, <1>2, <1>5, MessagesTyped, OutTyped DEF Reading
  <2>2. InFlightTyped'
    BY <1>1, <1>5, <2>1 DEF Reading, InFlightTyped, Sockets, UpMessages, DownMessages, Transitions, Jobs
  <2>3. snapshot' \in Snapshots
    BY <1>2, <1>5 DEF Reading, Measured, Snapshots
  <2> QED
    BY <1>1, <1>5, <2>2, <2>3 DEF Reading, TypeOK, Sockets
<1>6. ASSUME NEW s \in PanelSettings, Turned(s) PROVE TypeOK' /\ InFlightTyped'
  <2>1. InFlightTyped'
    BY <1>1, <1>6 DEF Turned, InFlightTyped, Sockets, UpMessages, DownMessages, Transitions, Jobs
  <2>2. events' \in 0 .. MaxEvents /\ meter' \in Settings
    BY <1>1, <1>6 DEF Turned, TypeOK
  <2> QED
    BY <1>1, <1>6, <2>1, <2>2 DEF Turned, TypeOK, Sockets
<1>8. ASSUME NEW s \in Settings, Observe(s)
      PROVE  /\ known' \in Settings /\ snapshot' \in Snapshots
             /\ Published(s) \in Seq(DownMessages)
             /\ down \o Out(Subscribers, Published(s)) \in Seq(DownMessages)
  <2>1. Invalidated(s) \in Snapshots
    BY DEF Invalidated, Snapshots
  <2>2. known' \in Settings /\ snapshot' \in Snapshots
    BY <1>1, <1>8, <2>1 DEF Observe, OldSnapshot, TypeOK
  <2> QED
    BY <1>1, <1>2, <2>2, PublishedTyped, OutTyped
<1>9. CASE Poll
  <2>1. known' \in Settings /\ snapshot' \in Snapshots /\ down' \in Seq(DownMessages)
    BY <1>2, <1>8, <1>9 DEF Poll
  <2>2. InFlightTyped'
    BY <1>1, <1>9, <2>1 DEF Poll, InFlightTyped, Sockets, UpMessages, DownMessages, Transitions, Jobs
  <2> QED
    BY <1>1, <1>9, <2>1, <2>2 DEF Poll, TypeOK, Sockets
<1>7. CASE FinishRequest
  <2>1. PICK j : j = Head(jobs)
    OBVIOUS
  <2>2. j \in Jobs /\ Tail(jobs) \in Seq(Jobs)
    BY <1>1, <1>7, <2>1, Taken DEF FinishRequest, InFlightTyped
  <2>3. j.to \in Settings /\ j.id \in 1 .. MaxUses
    BY <2>2 DEF Jobs
  <2>4. Reply(j) \in Seq(DownMessages) /\ down \o Reply(j) \in Seq(DownMessages)
    BY <1>1, <1>2, <2>3, MessagesTyped, OutTyped DEF Reply
  <2>5. \/ /\ meter' = j.to /\ Observe(j.to)
           /\ down' = down \o Out(Subscribers, Published(j.to)) \o Reply(j)
        \/ /\ meter' \in {meter, j.to} /\ down' = down \o Reply(j)
           /\ UNCHANGED <<known, snapshot>>
    BY <1>7, <2>1 DEF FinishRequest
  <2>6. /\ down' \in Seq(DownMessages) /\ meter' \in Settings
        /\ known' \in Settings /\ snapshot' \in Snapshots
    <3>1. CASE /\ meter' = j.to /\ Observe(j.to)
               /\ down' = down \o Out(Subscribers, Published(j.to)) \o Reply(j)
      <4>1. PICK d : d = down \o Out(Subscribers, Published(j.to))
        OBVIOUS
      <4>2. d \in Seq(DownMessages) /\ d \o Reply(j) \in Seq(DownMessages)
        BY <1>8, <2>3, <2>4, <3>1, <4>1
      <4> QED
        BY <1>8, <2>3, <3>1, <4>1, <4>2
    <3>2. CASE /\ meter' \in {meter, j.to} /\ down' = down \o Reply(j)
               /\ UNCHANGED <<known, snapshot>>
      BY <1>1, <1>2, <2>3, <2>4, <3>2 DEF TypeOK
    <3> QED
      BY <2>5, <3>1, <3>2
  <2>7. InFlightTyped'
    BY <1>1, <1>7, <2>2, <2>1, <2>6 DEF FinishRequest, InFlightTyped, Sockets, UpMessages, DownMessages, Transitions, Jobs
  <2> QED
    BY <1>1, <1>7, <2>6, <2>7 DEF FinishRequest, TypeOK, Sockets
<1> QED
  BY <1>3, <1>4, <1>5, <1>6, <1>7, <1>9 DEF Meter

LEMMA TypesKept ==
  ASSUME IInv, [Next]_vars
  PROVE  TypeOK' /\ InFlightTyped'
<1>1. CASE User \/ Faults \/ CloseEvent \/ Reconnect \/ Accept
  BY <1>1, BrowserStepsTyped
<1>2. CASE Receive
  BY <1>2, ReceiveTyped
<1>3. CASE Gateway
  BY <1>3, GatewayTyped DEF Gateway
<1>4. CASE Registry
  BY <1>4, RegistryTyped
<1>5. CASE Meter \/ FinishRequest
  BY <1>5, ServiceStepsTyped
<1>6. CASE UNCHANGED vars
  BY <1>6 DEF IInv, TypeOK, InFlightTyped, Sockets, UpMessages, DownMessages, Transitions, Jobs,
     vars, browser, page, link, display, asked, server, entry, runtime, history
<1> QED
  BY <1>1, <1>2, <1>3, <1>4, <1>5, <1>6 DEF Next

-----------------------------------------------------------------------------
(* What the actions of one part leave to the others.                       *)

\* The user's actions send one message at most, on a socket that is usable.
LEMMA UserSends ==
  ASSUME IInv, User
  PROVE  /\ UNCHANGED <<n, socket, ready, timer, down, ignored, orphan>>
         /\ UNCHANGED <<client, running, chain, stopping, session, meter, known, snapshot, jobs>>
         /\ \/ up' = up
            \/ Usable /\ \E m \in UpMessages : Send(<<m>>)
<1> USE DEF page, link, display, asked, browser, entry, runtime, history, server
<1>1. TypeOK
  BY DEF IInv
<1>2. CASE Activate \/ Deactivate
  BY <1>2, AsksTyped DEF Activate, Deactivate
<1>3. ASSUME NEW s \in Settings, ApplyControl(s)
      PROVE  up' = up \/ (Usable /\ \E m \in UpMessages : Send(<<m>>))
  <2>1. requestId + 1 \in 1 .. MaxUses
    BY <1>1, <1>3, RequestIdFits DEF ApplyControl, Request
  <2>2. ControlMessage(s) \in UpMessages
    BY <2>1 DEF ControlMessage, UpMessages
  <2> QED
    BY <1>3, <2>2 DEF ApplyControl, Request
<1>4. ASSUME NEW s \in RawSettings, ExecuteScpi(s)
      PROVE  up' = up \/ (Usable /\ \E m \in UpMessages : Send(<<m>>))
  <2>1. requestId + 1 \in 1 .. MaxUses
    BY <1>1, <1>4, RequestIdFits DEF ExecuteScpi, Request
  <2>2. [kind |-> "raw", id |-> requestId + 1, to |-> s, bound |-> FALSE] \in UpMessages
    BY <2>1, BrowserAssumption DEF UpMessages
  <2> QED
    BY <1>4, <2>2 DEF ExecuteScpi, Request
<1>5. /\ UNCHANGED <<n, socket, ready, timer, down, ignored, orphan>>
      /\ UNCHANGED <<client, running, chain, stopping, session, meter, known, snapshot, jobs>>
  BY DEF User, Activate, Deactivate, ApplyControl, ExecuteScpi
<1> QED
  BY <1>2, <1>3, <1>4, <1>5 DEF User

LEMMA SocketSteps ==
  ASSUME Break \/ ErrorEvent \/ CloseEvent \/ Reconnect
  PROVE  /\ UNCHANGED <<active, up, ignored, orphan>>
         /\ UNCHANGED <<client, running, chain, stopping, session, meter, known, snapshot, jobs>>
         /\ ~Usable'
BY DEF Break, ErrorEvent, CloseEvent, Reconnect, Usable,
   page, link, display, asked, browser, entry, runtime, history, server

LEMMA ReceiveLeaves ==
  ASSUME Receive
  PROVE  /\ UNCHANGED <<active, n, socket, timer, ignored, orphan>>
         /\ UNCHANGED <<client, running, chain, stopping, session, meter, known, snapshot, jobs>>
         /\ socket = "open" /\ down # <<>> /\ down' = Tail(down)
         /\ OnHello \/ (up' = up /\ ready' = ready)
BY DEF Receive, OnHello, OnLifecycle, OnState, OnSnapshot, OnAnswer,
   page, link, display, asked, browser, entry, runtime, history, server

LEMMA ServiceLeaves ==
  ASSUME Meter \/ FinishRequest
  PROVE  /\ UNCHANGED <<active, visits, n, socket, ready, timer, transport>>
         /\ UNCHANGED <<view, reading, control, newest, pending, requestId>>
         /\ UNCHANGED <<up, client, running, chain, stopping, ignored, orphan>>
BY DEF Meter, SessionUp, SessionLost, Turned, Poll, Reading, FinishRequest,
   page, link, display, asked, browser, entry, runtime, history, server

LEMMA RegistryLeaves ==
  ASSUME Registry
  PROVE  /\ UNCHANGED <<active, visits, n, socket, ready, timer, transport>>
         /\ UNCHANGED <<view, reading, control, newest, pending, requestId>>
         /\ UNCHANGED <<up, ignored>>
BY DEF Registry, SettleStart, BeginStop, StopDone,
   page, link, display, asked, browser, entry, runtime, history, server

LEMMA GatewayLeaves ==
  ASSUME NEW c, ServerReceive(c) \/ ServerClose(c)
  PROVE  /\ UNCHANGED <<active, visits, n, socket, ready, timer, transport>>
         /\ UNCHANGED <<view, reading, control, newest, pending, requestId>>
         /\ UNCHANGED <<running, stopping, session, meter, known, snapshot>>
         /\ Quiet /\ client[c].open
BY DEF ServerReceive, ServerClose,
   page, link, display, asked, browser, entry, runtime, history, server

\* Nothing at all happens.
LEMMA Stutters ==
  ASSUME UNCHANGED vars
  PROVE  /\ UNCHANGED <<active, visits, n, socket, ready, timer, transport>>
         /\ UNCHANGED <<view, reading, control, newest, pending, requestId>>
         /\ UNCHANGED <<up, down, client, running, chain, stopping, ignored, orphan>>
         /\ UNCHANGED <<session, meter, known, snapshot, jobs>>
BY DEF vars, page, link, display, asked, browser, entry, runtime, history, server

LEMMA AwaitingIs ==
  ASSUME NEW c
  PROVE  (Awaiting(c) <=> InQueue(chain, c)) /\ (Awaiting(c)' <=> InQueue(chain', c))
BY DEF Awaiting, InQueue

LEMMA AwaitsWhenQueued ==
  ASSUME InFlightTyped, NEW want \in BOOLEAN, NEW c, Queue(want, c),
         [want |-> want, by |-> c] \in Transitions, NEW d
  PROVE  Awaiting(d)' <=> Awaiting(d) \/ d = c
BY QueuePushed, AwaitingIs DEF Queue, InFlightTyped

LEMMA AwaitsWhenTaken ==
  ASSUME InFlightTyped, chain # <<>>, chain' = Tail(chain), NEW d
  PROVE  Awaiting(d) <=> Awaiting(d)' \/ d = Head(chain).by
BY QueueTaken, AwaitingIs DEF InFlightTyped

LEMMA StopAwaitsNobody ==
  ASSUME InFlightTyped, NEW cl, StopIfUnused(cl), NEW d \in Sockets
  PROVE  Awaiting(d)' <=> Awaiting(d)
<1>1. [want |-> FALSE, by |-> 0] \in Transitions /\ d # 0
  BY BrowserAssumption DEF Transitions, Sockets
<1>2. CASE UNCHANGED chain
  BY <1>2 DEF Awaiting
<1>3. CASE Queue(FALSE, 0)
  BY <1>1, <1>3, AwaitsWhenQueued
<1> QED
  BY <1>2, <1>3 DEF StopIfUnused

\* The gateway's steps are about one socket.
LEMMA OtherSockets ==
  ASSUME IInv, NEW c \in Sockets, ServerReceive(c) \/ ServerClose(c),
         NEW d \in Sockets, d # c
  PROVE  /\ up'[d] = up[d] /\ client'[d] = client[d] /\ (Awaiting(d)' <=> Awaiting(d))
         /\ d \in ignored' <=> d \in ignored
<1>1. TypeOK /\ InFlightTyped
  BY DEF IInv
<1>2. up'[d] = up[d]
  BY <1>1 DEF ServerReceive, ServerClose, InFlightTyped
<1>3. CASE ServerClose(c)
  <2>1. Awaiting(d)' <=> Awaiting(d)
    <3>1. CASE client[c].subs
      BY <1>1, <1>3, <3>1, StopAwaitsNobody DEF ServerClose
    <3>2. CASE ~client[c].subs
      BY <1>3, <3>2 DEF ServerClose, Awaiting
    <3> QED
      BY <3>1, <3>2
  <2> QED
    BY <1>1, <1>2, <1>3, <2>1 DEF ServerClose, TypeOK
<1>4. CASE OnAck(c) \/ OnRequest(c)
  BY <1>1, <1>2, <1>4 DEF OnAck, OnRequest, TypeOK, Awaiting, history
<1>5. CASE OnSubscribe(c)
  <2>1. [want |-> TRUE, by |-> c] \in Transitions
    BY DEF Transitions
  <2>2. Awaiting(d)' <=> Awaiting(d)
    <3>1. CASE client[c].subs
      BY <1>5, <3>1 DEF OnSubscribe, Awaiting
    <3>2. CASE ~client[c].subs
      BY <1>1, <1>5, <2>1, <3>2, AwaitsWhenQueued DEF OnSubscribe
    <3> QED
      BY <3>1, <3>2
  <2> QED
    BY <1>2, <1>5, <2>2 DEF OnSubscribe, history
<1>6. CASE OnUnsubscribe(c)
  <2>1. Awaiting(d)' <=> Awaiting(d)
    <3>1. CASE client[c].subs
      BY <1>1, <1>6, <3>1, StopAwaitsNobody DEF OnUnsubscribe
    <3>2. CASE ~client[c].subs
      BY <1>6, <3>2 DEF OnUnsubscribe, Awaiting
    <3> QED
      BY <3>1, <3>2
  <2> QED
    BY <1>1, <1>2, <1>6, <2>1 DEF OnUnsubscribe, TypeOK
<1> QED
  BY <1>3, <1>4, <1>5, <1>6 DEF ServerReceive

\* The registry's steps serve those who awaited it.
LEMMA RegistrySockets ==
  ASSUME IInv, Registry, NEW d \in Sockets
  PROVE  /\ Awaiting(d)' => Awaiting(d)
         /\ \/ client'[d] = client[d] /\ (Awaiting(d)' <=> Awaiting(d))
            \/ Awaiting(d) /\ client'[d] = [client[d] EXCEPT !.subs = client[d].open]
<1>1. TypeOK /\ InFlightTyped /\ RegistryIsWanted
  BY DEF IInv
<1>2. CASE SettleStart
  <2>1. PICK c : c = Head(chain).by
    OBVIOUS
  <2>2. /\ chain # <<>> /\ chain' = Tail(chain)
        /\ client' = [client EXCEPT ![c].subs = client[c].open]
    BY <1>2, <2>1 DEF SettleStart, Quiet
  <2>3. Awaiting(d) <=> Awaiting(d)' \/ d = c
    BY <1>1, <2>1, <2>2, AwaitsWhenTaken
  <2>4. CASE d = c
    BY <1>1, <2>2, <2>3, <2>4 DEF TypeOK
  <2>5. CASE d # c
    BY <1>1, <2>2, <2>3, <2>5 DEF TypeOK
  <2> QED
    BY <2>4, <2>5
<1>3. CASE BeginStop
  BY <1>3 DEF BeginStop, Awaiting
<1>4. CASE StopDone
  <2>1. chain # <<>> /\ ~Head(chain).want /\ chain' = Tail(chain)
    BY <1>1, <1>4 DEF StopDone, RegistryIsWanted
  <2>2. Head(chain).by = 0
    <3>1. Head(chain) \in Transitions
      BY <1>1, <2>1, Taken DEF InFlightTyped
    <3> QED
      BY <2>1, <3>1 DEF Transitions
  <2>3. d # 0
    BY BrowserAssumption DEF Sockets
  <2>4. Awaiting(d) <=> Awaiting(d)'
    BY <1>1, <2>1, <2>2, <2>3, AwaitsWhenTaken
  <2> QED
    BY <1>4, <2>4 DEF StopDone
<1> QED
  BY <1>2, <1>3, <1>4 DEF Registry

\* While someone is subscribed, the registry does nothing.
LEMMA ServedQuietly ==
  ASSUME IInv, Quiet, NEW c \in Sockets, client[c].subs
  PROVE  chain = <<>> /\ running /\ ~stopping /\ HasSubscribers(client)
<1>1. HasSubscribers(client)
  BY DEF IInv, AckFirst, HasSubscribers
<1>2. ~stopping
  <2> SUFFICES ASSUME stopping PROVE FALSE
    OBVIOUS
  <2>1. chain # <<>> /\ ~Head(chain).want
    BY DEF IInv, RegistryIsWanted
  <2>2. 1 \in DOMAIN chain /\ Head(chain) = chain[1]
    BY <2>1, Taken DEF IInv, InFlightTyped
  <2> QED
    BY <1>1, <2>1, <2>2 DEF IInv, RegistryIsWanted
<1> QED
  BY <1>1, <1>2 DEF IInv, RegistryIsWanted, Quiet

-----------------------------------------------------------------------------
(* Sockets.                                                                *)

LEMMA SocketsInTurnKept ==
  ASSUME IInv, [Next]_vars
  PROVE  SocketsInTurn'
<1> USE DEF SocketsInTurn
<1>1. SocketsInTurn /\ TypeOK
  BY DEF IInv
<1>2. CASE User
  BY <1>1, <1>2, UserSends
<1>3. CASE Faults \/ CloseEvent \/ Reconnect
  BY <1>1, <1>3 DEF Faults, Break, ErrorEvent, CloseEvent, Reconnect, ScheduleReconnect, link, TypeOK
<1>4. CASE Accept
  BY <1>1, <1>4 DEF Accept
<1>5. CASE Receive
  <2>1. UNCHANGED <<n, timer>> /\ socket = "open" /\ socket' = "open"
    BY <1>5, ReceiveLeaves
  <2> QED
    BY <1>1, <2>1
<1>6. CASE Gateway
  BY <1>1, <1>6, GatewayLeaves DEF Gateway
<1>7. CASE Registry
  BY <1>1, <1>7, RegistryLeaves
<1>8. CASE Meter \/ FinishRequest
  BY <1>1, <1>8, ServiceLeaves
<1>9. CASE UNCHANGED vars
  BY <1>1, <1>9, Stutters
<1> QED
  BY <1>2, <1>3, <1>4, <1>5, <1>6, <1>7, <1>8, <1>9 DEF Next

LEMMA SocketsKnownKept ==
  ASSUME IInv, [Next]_vars
  PROVE  SocketsKnown'
<1>1. TypeOK /\ InFlightTyped /\ SocketsKnown
  BY DEF IInv
<1>2. n \in Sockets /\ \A c \in Sockets : c \in Nat
  BY <1>1 DEF TypeOK, Sockets
<1>3. CASE User
  <2>1. /\ UNCHANGED <<n, socket, ready, client, chain>>
        /\ \/ up' = up
           \/ Usable /\ \E m \in UpMessages : Send(<<m>>)
    BY <1>3, UserSends
  <2>2. CASE up' = up
    BY <1>1, <2>1, <2>2 DEF SocketsKnown, Unknown, Awaiting
  <2>3. CASE Usable /\ \E m \in UpMessages : Send(<<m>>)
    <3>1. \A c \in Sockets : c > n => up'[c] = up[c]
      BY <1>1, <1>2, <2>3 DEF Send, InFlightTyped
    <3>2. socket = "open" /\ ready
      BY <2>3 DEF Usable
    <3> QED
      BY <1>1, <2>1, <3>1, <3>2 DEF SocketsKnown, Unknown, Awaiting
  <2> QED
    BY <2>1, <2>2, <2>3
<1>4. CASE Break \/ ErrorEvent \/ CloseEvent
  <2>1. UNCHANGED <<up, client, chain>>
    BY <1>4, SocketSteps
  <2>2. n' = n /\ socket' \in {"closing", "none"}
    BY <1>4 DEF Break, ErrorEvent, CloseEvent
  <2> QED
    BY <1>1, <2>1, <2>2 DEF SocketsKnown, Unknown, Awaiting
<1>5. CASE Reconnect
  <2>1. UNCHANGED <<up, client, chain>>
    BY <1>5, SocketSteps
  <2>2. n' = n + 1 /\ socket' = "connecting"
    BY <1>5 DEF Reconnect
  <2>3. n' \in Sockets /\ n' > n
    BY <1>2, <1>5, <2>2, TypesKept DEF TypeOK
  <2>4. \A c \in Sockets : c >= n' => Unknown(c)
    BY <1>1, <1>2, <2>2 DEF SocketsKnown
  <2>5. \A c \in Sockets : c >= n' => Unknown(c)'
    BY <2>1, <2>4 DEF Unknown, Awaiting
  <2> QED
    BY <1>2, <2>2, <2>3, <2>5 DEF SocketsKnown, Unknown
<1>6. CASE Accept
  <2>1. /\ UNCHANGED <<n, up, chain>> /\ socket = "connecting" /\ socket' = "open"
        /\ client' = [client EXCEPT ![n].open = TRUE]
    BY <1>6 DEF Accept, entry
  <2>2. Unknown(n)
    BY <1>1, <2>1 DEF SocketsKnown
  <2>3. \A c \in Sockets : c > n => client'[c] = client[c]
    BY <1>1, <1>2, <2>1 DEF TypeOK
  <2>4. \A c \in Sockets : c > n => Unknown(c)'
    BY <1>1, <2>1, <2>3 DEF SocketsKnown, Unknown, Awaiting
  <2>5. client'[n] = [client[n] EXCEPT !.open = TRUE]
    BY <1>1, <1>2, <2>1 DEF TypeOK
  <2>6. client'[n].open /\ ~client'[n].ready /\ ~client'[n].subs
    BY <2>2, <2>5 DEF Unknown
  <2> QED
    BY <2>1, <2>2, <2>4, <2>6 DEF SocketsKnown, Unknown, Awaiting
<1>7. CASE Receive
  <2>1. /\ UNCHANGED <<n, socket, client, chain>> /\ socket = "open"
        /\ OnHello \/ (up' = up /\ ready' = ready)
    BY <1>7, ReceiveLeaves
  <2>2. CASE up' = up /\ ready' = ready
    BY <1>1, <2>1, <2>2 DEF SocketsKnown, Unknown, Awaiting
  <2>3. CASE OnHello
    <3>1. \A c \in Sockets : c > n => up'[c] = up[c]
      BY <1>1, <1>2, <2>3 DEF OnHello, Send, InFlightTyped
    <3>2. ready'
      BY <2>3 DEF OnHello
    <3> QED
      BY <1>1, <2>1, <3>1, <3>2 DEF SocketsKnown, Unknown, Awaiting
  <2> QED
    BY <2>1, <2>2, <2>3
<1>8. ASSUME NEW c \in Sockets, ServerReceive(c) \/ ServerClose(c) PROVE SocketsKnown'
  <2>1. UNCHANGED <<n, socket, ready>> /\ client[c].open
    BY <1>8, GatewayLeaves
  <2>2. \A d \in Sockets : d # c =>
          up'[d] = up[d] /\ client'[d] = client[d] /\ (Awaiting(d)' <=> Awaiting(d))
    BY <1>8, OtherSockets
  <2>3. \A d \in Sockets : d # c /\ Unknown(d) => Unknown(d)'
    BY <2>2 DEF Unknown
  <2>4. ~Unknown(c)
    BY <2>1 DEF Unknown
  <2>5. CASE c # n
    BY <1>1, <1>2, <2>1, <2>2, <2>3, <2>4, <2>5 DEF SocketsKnown
  <2>6. CASE c = n
    <3>1. socket # "connecting"
      BY <1>1, <2>4, <2>6 DEF SocketsKnown
    <3>2. CASE socket # "open"
      BY <1>1, <1>2, <2>1, <2>3, <2>4, <3>1, <3>2 DEF SocketsKnown
    <3>3. CASE socket = "open"
      <4>1. ServerReceive(c) /\ up[n] # <<>>
        BY <1>8, <2>6, <3>3 DEF ServerReceive, ServerClose
      <4>2. ready
        BY <1>1, <3>3, <4>1 DEF SocketsKnown
      <4>3. client'[c].open
        BY <1>1, <2>1, <4>1 DEF ServerReceive, OnAck, OnSubscribe, OnUnsubscribe, OnRequest, TypeOK
      <4> QED
        BY <1>1, <1>2, <2>1, <2>3, <2>4, <2>6, <3>3, <4>2, <4>3 DEF SocketsKnown
    <3> QED
      BY <3>2, <3>3
  <2> QED
    BY <2>5, <2>6
<1>9. CASE Registry
  <2>1. UNCHANGED <<n, socket, ready, up>>
    BY <1>9, RegistryLeaves
  <2>2. \A d \in Sockets :
          /\ Awaiting(d)' => Awaiting(d)
          /\ client'[d] = client[d] \/ Awaiting(d)
          /\ client'[d] = client[d] \/ client'[d] = [client[d] EXCEPT !.subs = client[d].open]
    BY <1>9, RegistrySockets
  <2>3. \A d \in Sockets : Unknown(d) => Unknown(d)'
    BY <2>1, <2>2 DEF Unknown
  <2>4. client[n].open => client'[n].open
    BY <1>1, <1>2, <2>2 DEF TypeOK
  <2> QED
    BY <1>1, <1>2, <2>1, <2>2, <2>3, <2>4 DEF SocketsKnown
<1>10. CASE Meter \/ FinishRequest
  BY <1>1, <1>10, ServiceLeaves DEF SocketsKnown, Unknown, Awaiting
<1>11. CASE UNCHANGED vars
  BY <1>1, <1>11, Stutters DEF SocketsKnown, Unknown, Awaiting
<1> QED
  BY <1>3, <1>4, <1>5, <1>6, <1>7, <1>8, <1>9, <1>10, <1>11 DEF Next, Faults, Gateway

-----------------------------------------------------------------------------
(* The acknowledgement before the subscriptions.                           *)

\* AckFirst of one socket.
AcksInTurn(c) ==
  /\ client[c].ready => client[c].open
  /\ client[c].subs => client[c].ready
  /\ client[c].open /\ Awaiting(c) => client[c].ready
  /\ AcksFirst(up[c], client[c].ready)

LEMMA SendKeepsAcks ==
  ASSUME IInv, UNCHANGED <<n, client, chain>>, NEW m \in UpMessages, Send(<<m>>),
         m.kind = "subscribe" => HasAck(up[n], client[n].ready)
  PROVE  /\ \A c \in Sockets : AcksInTurn(c)'
         /\ HasAck(up[n], client[n].ready) \/ m.kind = "ack" => HasAck(up'[n], client'[n].ready)
<1>1. TypeOK /\ InFlightTyped /\ \A c \in Sockets : AcksInTurn(c)
  BY DEF IInv, AckFirst, AcksInTurn
<1>2. n \in Sockets /\ client[n].ready \in BOOLEAN /\ up[n] \in Seq(UpMessages)
  BY <1>1 DEF TypeOK, InFlightTyped
<1>3. up'[n] = up[n] \o <<m>> /\ \A c \in Sockets : c # n => up'[c] = up[c]
  BY <1>1, <1>2 DEF Send, InFlightTyped
<1>4. AcksFirst(up[n], client[n].ready)
  BY <1>1, <1>2 DEF AcksInTurn
<1>5. /\ AcksFirst(up'[n], client[n].ready)
      /\ HasAck(up[n], client[n].ready) \/ m.kind = "ack" => HasAck(up'[n], client[n].ready)
  BY <1>2, <1>3, <1>4, AckPushed
<1>6. \A c \in Sockets : AcksFirst(up'[c], client'[c].ready)
  BY <1>1, <1>3, <1>5 DEF AcksInTurn
<1> QED
  BY <1>1, <1>5, <1>6 DEF AcksInTurn, Awaiting

LEMMA AckFirstKept ==
  ASSUME IInv, [Next]_vars
  PROVE  AckFirst'
<1>1. TypeOK /\ InFlightTyped /\ SocketsKnown /\ AckFirst /\ \A c \in Sockets : AcksInTurn(c)
  BY DEF IInv, AckFirst, AcksInTurn
<1>2. n \in Sockets
  BY <1>1 DEF TypeOK
<1>3. SUFFICES /\ \A c \in Sockets : AcksInTurn(c)'
               /\ Usable' => HasAck(up'[n'], client'[n'].ready)
  BY DEF AckFirst, AcksInTurn
<1>4. CASE User
  <2>1. /\ UNCHANGED <<n, socket, ready, client, chain>>
        /\ \/ up' = up
           \/ Usable /\ \E m \in UpMessages : Send(<<m>>)
    BY <1>4, UserSends
  <2>2. CASE up' = up
    BY <1>1, <2>1, <2>2 DEF AckFirst, AcksInTurn, Usable, Awaiting
  <2>3. ASSUME Usable, NEW m \in UpMessages, Send(<<m>>)
        PROVE  /\ \A c \in Sockets : AcksInTurn(c)'
               /\ HasAck(up'[n'], client'[n'].ready)
    <3>1. HasAck(up[n], client[n].ready)
      BY <1>1, <2>3 DEF AckFirst
    <3> QED
      BY <2>1, <2>3, <3>1, SendKeepsAcks
  <2> QED
    BY <2>1, <2>2, <2>3
<1>5. CASE Break \/ ErrorEvent \/ CloseEvent \/ Reconnect
  <2>1. UNCHANGED <<up, client, chain>> /\ ~Usable'
    BY <1>5, SocketSteps
  <2> QED
    BY <1>1, <2>1 DEF AcksInTurn, Awaiting
<1>6. CASE Accept
  <2>1. /\ UNCHANGED <<n, up, chain, ready>> /\ socket = "connecting"
        /\ client' = [client EXCEPT ![n].open = TRUE]
    BY <1>6 DEF Accept, entry
  <2>2. Unknown(n) /\ ~ready
    BY <1>1, <2>1 DEF IInv, SocketsInTurn, SocketsKnown
  <2>3. ~Usable'
    BY <2>1, <2>2 DEF Usable
  <2>4. ASSUME NEW c \in Sockets PROVE AcksInTurn(c)'
    <3>1. CASE c = n
      <4>1. client'[n] = [client[n] EXCEPT !.open = TRUE]
        BY <1>1, <1>2, <2>1 DEF TypeOK
      <4>2. client'[n].open /\ ~client'[n].ready /\ ~client'[n].subs /\ ~client[n].ready
        BY <2>2, <4>1 DEF Unknown
      <4>3. client'[n].ready = client[n].ready
        BY <4>1
      <4>4. AcksFirst(up[n], client[n].ready)
        BY <1>1, <1>2 DEF AcksInTurn
      <4> QED
        BY <2>1, <2>2, <3>1, <4>2, <4>3, <4>4 DEF AcksInTurn, Unknown, Awaiting
    <3>2. CASE c # n
      <4>1. client'[c] = client[c]
        BY <1>1, <1>2, <2>1, <3>2 DEF TypeOK
      <4> QED
        BY <1>1, <2>1, <4>1 DEF AcksInTurn, Awaiting
    <3> QED
      BY <3>1, <3>2
  <2> QED
    BY <2>3, <2>4
<1>7. CASE Receive
  <2>1. /\ UNCHANGED <<n, socket, client, chain>>
        /\ OnHello \/ (up' = up /\ ready' = ready)
    BY <1>7, ReceiveLeaves
  <2>2. CASE up' = up /\ ready' = ready
    BY <1>1, <2>1, <2>2 DEF AckFirst, AcksInTurn, Usable, Awaiting
  <2>3. CASE OnHello
    <3> DEFINE a == [kind |-> "ack"]
               s == up[n] \o <<a>>
    <3>1. up[n] \in Seq(UpMessages) /\ client[n].ready \in BOOLEAN
      BY <1>1, <1>2 DEF TypeOK, InFlightTyped
    <3>2. a \in UpMessages /\ Subscribe \in UpMessages
      BY AsksTyped
    <3>3. s \in Seq(UpMessages)
      BY <3>1, <3>2
    <3>4. AcksFirst(up[n], client[n].ready)
      BY <1>1, <1>2 DEF AcksInTurn
    <3>5. AcksFirst(s, client[n].ready) /\ HasAck(s, client[n].ready)
      BY <3>1, <3>2, <3>4, AckPushed
    <3>6. up'[n] = up[n] \o AfterHello /\ \A c \in Sockets : c # n => up'[c] = up[c]
      BY <1>1, <1>2, <2>3 DEF OnHello, Send, InFlightTyped
    <3>7. up'[n] = s \/ up'[n] = s \o <<Subscribe>>
      <4>1. CASE active
        <5>1. up'[n] = up[n] \o (<<a>> \o <<Subscribe>>)
          BY <3>6, <4>1 DEF AfterHello
        <5> HIDE DEF a
        <5> QED
          BY <3>1, <3>2, <5>1
      <4>2. CASE ~active
        <5>1. up'[n] = up[n] \o (<<a>> \o <<>>)
          BY <3>6, <4>2 DEF AfterHello
        <5>2. <<a>> \o <<>> = <<a>>
          OBVIOUS
        <5> QED
          BY <5>1, <5>2
      <4> QED
        BY <4>1, <4>2
    <3> HIDE DEF s, a
    <3>8. AcksFirst(up'[n], client[n].ready) /\ HasAck(up'[n], client[n].ready)
      BY <3>1, <3>2, <3>3, <3>5, <3>7, AckPushed
    <3>9. ASSUME NEW c \in Sockets PROVE AcksInTurn(c)'
      BY <1>1, <2>1, <3>6, <3>8 DEF AcksInTurn, Awaiting
    <3> QED
      BY <2>1, <3>8, <3>9
  <2> QED
    BY <2>1, <2>2, <2>3
<1>8. ASSUME NEW c \in Sockets, ServerReceive(c) \/ ServerClose(c)
      PROVE  /\ \A d \in Sockets : AcksInTurn(d)'
             /\ Usable' => HasAck(up'[n'], client'[n'].ready)
  <2>1. UNCHANGED <<n, socket, ready>> /\ client[c].open
    BY <1>8, GatewayLeaves
  <2>2. \A d \in Sockets : d # c =>
          up'[d] = up[d] /\ client'[d] = client[d] /\ (Awaiting(d)' <=> Awaiting(d))
    BY <1>8, OtherSockets
  <2>3. /\ AcksInTurn(c)'
        /\ HasAck(up[c], client[c].ready) => HasAck(up'[c], client'[c].ready) \/ ServerClose(c)
    <3>1. CASE ServerClose(c)
      <4>1. up'[c] = <<>> /\ client'[c] = [open |-> FALSE, ready |-> FALSE, subs |-> FALSE]
        BY <1>1, <3>1 DEF ServerClose, TypeOK, InFlightTyped
      <4> QED
        BY <3>1, <4>1 DEF AcksInTurn, AcksFirst
    <3>2. CASE ServerReceive(c)
      <4>1. up[c] # <<>> /\ up'[c] = Tail(up[c]) /\ up[c] \in Seq(UpMessages)
        BY <1>1, <3>2 DEF ServerReceive, InFlightTyped
      <4>2. AcksInTurn(c) /\ client[c].ready \in BOOLEAN
        BY <1>1 DEF TypeOK
      <4>3. /\ Head(up[c]).kind = "subscribe" => client[c].ready
            /\ AcksFirst(up'[c], client[c].ready \/ Head(up[c]).kind = "ack")
            /\ HasAck(up[c], client[c].ready) =>
                 HasAck(up'[c], client[c].ready \/ Head(up[c]).kind = "ack")
        BY <4>1, <4>2, AckTaken DEF AcksInTurn
      <4>4. CASE OnAck(c)
        <5>1. client'[c] = [client[c] EXCEPT !.ready = TRUE] /\ chain' = chain
              /\ Head(up[c]).kind = "ack"
          BY <1>1, <4>4 DEF OnAck, TypeOK
        <5>2. client'[c].ready = TRUE /\ client'[c].open
          BY <1>1, <2>1, <5>1 DEF TypeOK
        <5> QED
          BY <4>3, <5>1, <5>2 DEF AcksInTurn
      <4>5. CASE OnSubscribe(c) \/ OnRequest(c)
        <5>1. client'[c] = client[c] /\ Head(up[c]).kind # "ack"
          BY <4>5 DEF OnSubscribe, OnRequest
        <5>2. Head(up[c]).kind = "subscribe" \/ (Awaiting(c)' <=> Awaiting(c))
          BY <4>5 DEF OnSubscribe, OnRequest, Awaiting
        <5>3. (client[c].ready \/ Head(up[c]).kind = "ack") = client[c].ready
          BY <4>2, <5>1
        <5> QED
          BY <4>2, <4>3, <5>1, <5>2, <5>3 DEF AcksInTurn
      <4>6. CASE OnUnsubscribe(c)
        <5>1. client'[c] = [client[c] EXCEPT !.subs = FALSE] /\ Head(up[c]).kind # "ack"
          BY <1>1, <4>6 DEF OnUnsubscribe, TypeOK
        <5>2. /\ client'[c].open = client[c].open /\ client'[c].ready = client[c].ready
              /\ ~client'[c].subs
          BY <1>1, <5>1 DEF TypeOK
        <5>3. Awaiting(c)' => Awaiting(c)
          BY <1>1, <4>6, StopAwaitsNobody DEF OnUnsubscribe, Awaiting
        <5>4. (client[c].ready \/ Head(up[c]).kind = "ack") = client[c].ready
          BY <4>2, <5>1
        <5> QED
          BY <4>2, <4>3, <5>2, <5>3, <5>4 DEF AcksInTurn
      <4> QED
        BY <3>2, <4>4, <4>5, <4>6 DEF ServerReceive
    <3> QED
      BY <1>8, <3>1, <3>2
  <2>4. \A d \in Sockets : AcksInTurn(d)'
    BY <1>1, <2>2, <2>3 DEF AcksInTurn
  <2>5. ASSUME Usable' PROVE HasAck(up'[n], client'[n].ready)
    <3>1. Usable /\ HasAck(up[n], client[n].ready)
      BY <1>1, <2>1, <2>5 DEF Usable, AckFirst
    <3>2. CASE c # n
      BY <1>2, <2>2, <3>1, <3>2
    <3>3. CASE c = n
      BY <2>3, <3>1, <3>3 DEF Usable, ServerClose
    <3> QED
      BY <3>2, <3>3
  <2> QED
    BY <2>1, <2>4, <2>5
<1>9. CASE Registry
  <2>1. UNCHANGED <<n, socket, ready, up>>
    BY <1>9, RegistryLeaves
  <2>2. ASSUME NEW d \in Sockets
        PROVE  AcksInTurn(d)' /\ client'[d].ready = client[d].ready
    <3>1. /\ Awaiting(d)' => Awaiting(d)
          /\ \/ client'[d] = client[d] /\ (Awaiting(d)' <=> Awaiting(d))
             \/ Awaiting(d) /\ client'[d] = [client[d] EXCEPT !.subs = client[d].open]
      BY <1>9, RegistrySockets
    <3>2. AcksInTurn(d)
      BY <1>1
    <3>3. /\ client'[d].open = client[d].open /\ client'[d].ready = client[d].ready
          /\ client'[d].subs = client[d].subs \/ (Awaiting(d) /\ client'[d].subs = client[d].open)
      BY <1>1, <3>1 DEF TypeOK
    <3> QED
      BY <2>1, <3>1, <3>2, <3>3 DEF AcksInTurn
  <2> QED
    BY <1>1, <1>2, <2>1, <2>2 DEF AckFirst, Usable
<1>10. CASE Meter \/ FinishRequest
  BY <1>1, <1>10, ServiceLeaves DEF AckFirst, AcksInTurn, Usable, Awaiting
<1>11. CASE UNCHANGED vars
  BY <1>1, <1>11, Stutters DEF AckFirst, AcksInTurn, Usable, Awaiting
<1> QED
  BY <1>4, <1>5, <1>6, <1>7, <1>8, <1>9, <1>10, <1>11 DEF Next, Faults, Gateway

-----------------------------------------------------------------------------
(* What the browser has asked for is what its route wants.                 *)

\* RouteIsAsked of the socket that is usable.
AskedFor ==
  /\ LastAsks(up[n], active)
  /\ NoAsks(up[n]) /\ n \notin ignored => (active <=> client[n].subs \/ Awaiting(n))

LEMMA RouteIsAskedKept ==
  ASSUME IInv, [Next]_vars
  PROVE  RouteIsAsked'
<1>1. /\ TypeOK /\ InFlightTyped /\ SocketsKnown /\ RouteIsAsked
      /\ n \in Sockets /\ up[n] \in Seq(UpMessages) /\ active \in BOOLEAN
      /\ TypeOK'
  BY TypesKept DEF IInv, TypeOK, InFlightTyped
<1>0. PICK b : b = n
  OBVIOUS
<1>2. SUFFICES ASSUME Usable' PROVE AskedFor'
  BY DEF RouteIsAsked, AskedFor
<1>3. Usable => AskedFor
  BY <1>1 DEF RouteIsAsked, AskedFor
<1>4. CASE User
  <2>1. /\ UNCHANGED <<n, socket, ready, client, chain, ignored>>
        /\ \/ up' = up
           \/ Usable /\ \E m \in UpMessages : Send(<<m>>)
    BY <1>4, UserSends
  <2>2. AskedFor /\ Usable
    BY <1>2, <1>3, <2>1 DEF Usable
  <2>3. CASE Activate
    <3>1. up'[n] = up[n] \o <<Subscribe>> /\ active' = TRUE
      BY <1>1, <2>2, <2>3 DEF Activate, Send, InFlightTyped
    <3>2. IsAsk(Subscribe) /\ Subscribe.kind = "subscribe"
      BY DEF IsAsk, Subscribe
    <3>3. LastAsks(up'[n], TRUE) /\ ~NoAsks(up'[n])
      BY <1>1, <3>1, <3>2, AsksTyped, AskIsLast
    <3> QED
      BY <2>1, <3>1, <3>3 DEF AskedFor
  <2>4. CASE Deactivate
    <3>1. up'[n] = up[n] \o <<Unsubscribe>> /\ active' = FALSE
      BY <1>1, <2>2, <2>4 DEF Deactivate, Send, InFlightTyped
    <3>2. IsAsk(Unsubscribe) /\ Unsubscribe.kind # "subscribe"
      BY DEF IsAsk, Unsubscribe
    <3>3. LastAsks(up'[n], FALSE) /\ ~NoAsks(up'[n])
      BY <1>1, <3>1, <3>2, AsksTyped, AskIsLast
    <3> QED
      BY <2>1, <3>1, <3>3 DEF AskedFor
  <2>5. ASSUME NEW m \in UpMessages, ~IsAsk(m), Send(<<m>>), active' = active
        PROVE  AskedFor'
    <3>1. up'[n] = up[n] \o <<m>>
      BY <1>1, <2>5 DEF Send, InFlightTyped
    <3>2. LastAsks(up'[n], active) /\ (NoAsks(up'[n]) => NoAsks(up[n]))
      BY <1>1, <2>2, <2>5, <3>1, OtherLeavesAsks DEF AskedFor
    <3> QED
      BY <2>1, <2>2, <2>5, <3>2 DEF AskedFor, Awaiting
  <2>6. ASSUME NEW s \in Settings, ApplyControl(s) PROVE AskedFor'
    <3>1. requestId + 1 \in 1 .. MaxUses
      BY <1>1, <2>6, RequestIdFits DEF ApplyControl, Request
    <3>2. ControlMessage(s) \in UpMessages /\ ~IsAsk(ControlMessage(s))
      BY <3>1 DEF ControlMessage, UpMessages, IsAsk
    <3>3. Send(<<ControlMessage(s)>>) /\ active' = active
      BY <2>2, <2>6 DEF ApplyControl, Request, page
    <3> QED
      BY <2>5, <3>2, <3>3
  <2>7. ASSUME NEW s \in RawSettings, ExecuteScpi(s) PROVE AskedFor'
    <3> DEFINE m == [kind |-> "raw", id |-> requestId + 1, to |-> s, bound |-> FALSE]
    <3>1. requestId + 1 \in 1 .. MaxUses
      BY <1>1, <2>7, RequestIdFits DEF ExecuteScpi, Request
    <3>2. m \in UpMessages /\ ~IsAsk(m)
      BY <3>1, BrowserAssumption DEF UpMessages, IsAsk
    <3>3. Send(<<m>>) /\ active' = active
      BY <2>2, <2>7 DEF ExecuteScpi, Request, page
    <3> HIDE DEF m
    <3> QED
      BY <2>5, <3>2, <3>3
  <2> QED
    BY <1>4, <2>3, <2>4, <2>6, <2>7 DEF User
<1>5. CASE Break \/ ErrorEvent \/ CloseEvent \/ Reconnect
  BY <1>2, <1>5, SocketSteps
<1>6. CASE Accept
  <2>1. UNCHANGED <<n, ready>> /\ socket = "connecting"
    BY <1>6 DEF Accept
  <2> QED
    BY <1>2, <2>1 DEF IInv, SocketsInTurn, Usable
<1>7. CASE Receive
  <2>1. /\ UNCHANGED <<active, n, socket, client, chain, ignored>> /\ socket = "open"
        /\ OnHello \/ (up' = up /\ ready' = ready)
    BY <1>7, ReceiveLeaves
  <2>2. CASE up' = up /\ ready' = ready
    BY <1>2, <1>3, <2>1, <2>2 DEF AskedFor, Usable, Awaiting
  <2>3. CASE OnHello
    <3> DEFINE a == [kind |-> "ack"]
               s == up[n] \o <<a>>
    <3>1. /\ LastAsks(up[n], active)
          /\ NoAsks(up[n]) /\ ~active /\ n \notin ignored => ~client[n].subs /\ ~Awaiting(n)
      <4>1. CASE ready
        BY <1>3, <2>1, <4>1 DEF Usable, AskedFor
      <4>2. CASE ~ready
        <5>1. up[n] = <<>> /\ ~client[n].subs /\ ~Awaiting(n)
          BY <1>1, <2>1, <4>2 DEF SocketsKnown
        <5>2. NoAsks(<<>>)
          BY DEF NoAsks
        <5> QED
          BY <5>1, <5>2 DEF LastAsks
      <4> QED
        BY <4>1, <4>2
    <3>2. a \in UpMessages /\ ~IsAsk(a) /\ Subscribe \in UpMessages
      BY AsksTyped DEF IsAsk
    <3>3. LastAsks(s, active) /\ (NoAsks(s) => NoAsks(up[n])) /\ s \in Seq(UpMessages)
      BY <1>1, <3>1, <3>2, OtherLeavesAsks
    <3>4. up'[n] = up[n] \o AfterHello
      BY <1>1, <2>3 DEF OnHello, Send, InFlightTyped
    <3>5. CASE active
      <4>1. up'[n] = up[n] \o (<<a>> \o <<Subscribe>>)
        BY <3>4, <3>5 DEF AfterHello
      <4>2. up'[n] = s \o <<Subscribe>>
        <5> HIDE DEF a
        <5> QED
          BY <1>1, <3>2, <4>1
      <4>3. IsAsk(Subscribe) /\ Subscribe.kind = "subscribe"
        BY DEF IsAsk, Subscribe
      <4> HIDE DEF s, a
      <4>4. LastAsks(up'[n], TRUE) /\ ~NoAsks(up'[n])
        BY <3>2, <3>3, <4>2, <4>3, AskIsLast
      <4> QED
        BY <1>1, <2>1, <3>5, <4>4 DEF AskedFor
    <3>6. CASE ~active
      <4>1. up'[n] = up[n] \o (<<a>> \o <<>>)
        BY <3>4, <3>6 DEF AfterHello
      <4>2. up'[n] = s
        <5>1. <<a>> \o <<>> = <<a>>
          OBVIOUS
        <5> QED
          BY <4>1, <5>1
      <4> HIDE DEF s, a
      <4> QED
        BY <2>1, <3>1, <3>3, <3>6, <4>2 DEF AskedFor, Awaiting
    <3> QED
      BY <3>5, <3>6
  <2> QED
    BY <2>1, <2>2, <2>3
<1>8. ASSUME NEW c \in Sockets, ServerReceive(c) \/ ServerClose(c) PROVE AskedFor'
  <2>1. UNCHANGED <<active, n, socket, ready>> /\ client[c].open /\ Quiet
    BY <1>8, GatewayLeaves
  <2>2. AskedFor /\ Usable
    BY <1>2, <1>3, <2>1 DEF Usable
  <2>3. CASE c # n
    <3>1. /\ up'[b] = up[b] /\ client'[b] = client[b] /\ (Awaiting(b)' <=> Awaiting(b))
          /\ b \in ignored' <=> b \in ignored
      BY <1>0, <1>1, <1>8, <2>3, OtherSockets
    <3> QED
      BY <1>0, <2>1, <2>2, <3>1 DEF AskedFor, Awaiting
  <2>4. CASE c = n
    <3>1. ServerReceive(n) /\ up[n] # <<>> /\ up'[n] = Tail(up[n])
      BY <1>1, <1>8, <2>2, <2>4 DEF Usable, ServerReceive, ServerClose, InFlightTyped
    <3>2. /\ LastAsks(up'[n], active)
          /\ NoAsks(up'[n]) =>
               IF IsAsk(Head(up[n])) THEN Head(up[n]).kind = "subscribe" <=> active
                                     ELSE NoAsks(up[n])
      BY <1>1, <2>2, <3>1, AskTaken DEF AskedFor
    <3>3. CASE OnAck(n) \/ OnRequest(n)
      <4>1. /\ ~IsAsk(Head(up[n])) /\ client'[n].subs = client[n].subs
            /\ UNCHANGED <<chain, ignored>>
        <5>1. client[n] \in [open : BOOLEAN, ready : BOOLEAN, subs : BOOLEAN]
              /\ n \in DOMAIN client
          BY <1>1 DEF TypeOK
        <5>2. CASE OnAck(n)
          BY <5>1, <5>2 DEF OnAck, IsAsk, history
        <5>3. CASE OnRequest(n)
          BY <5>3 DEF OnRequest, IsAsk, history
        <5> QED
          BY <3>3, <5>2, <5>3
      <4> QED
        BY <2>1, <2>2, <3>2, <4>1 DEF AskedFor, Awaiting
    <3>4. CASE OnSubscribe(n)
      <4>1. IsAsk(Head(up[n])) /\ Head(up[n]).kind = "subscribe" /\ client' = client
        BY <3>4 DEF OnSubscribe, IsAsk
      <4>2. client[b].subs \/ Awaiting(b)'
        <5>1. [want |-> TRUE, by |-> b] \in Transitions
          BY <1>0, <1>1 DEF Transitions
        <5>2. client[b].subs \/ Queue(TRUE, b)
          BY <1>0, <3>4 DEF OnSubscribe
        <5> QED
          BY <1>1, <5>1, <5>2, AwaitsWhenQueued
      <4> QED
        BY <1>0, <2>1, <3>2, <4>1, <4>2 DEF AskedFor, Awaiting
    <3>5. CASE OnUnsubscribe(n)
      <4>1. IsAsk(Head(up[n])) /\ Head(up[n]).kind # "subscribe" /\ ~client'[n].subs
        BY <1>1, <3>5 DEF OnUnsubscribe, IsAsk, TypeOK
      <4>2. b \notin ignored' => ~Awaiting(b)'
        <5>1. CASE client[b].subs
          <6>1. chain = <<>>
            BY <1>0, <1>1, <2>1, <5>1, ServedQuietly
          <6>2. ~Awaiting(b)
            BY <6>1 DEF Awaiting
          <6>3. StopIfUnused(client')
            BY <1>0, <3>5, <5>1 DEF OnUnsubscribe
          <6>4. ASSUME NEW cl, StopIfUnused(cl) PROVE Awaiting(b)' <=> Awaiting(b)
            BY <1>0, <1>1, <6>4, StopAwaitsNobody
          <6> QED
            BY <6>2, <6>3, <6>4
        <5>2. CASE ~client[b].subs
          <6>1. chain' = chain /\ ignored' = IF Awaiting(b) THEN ignored \cup {b} ELSE ignored \ {b}
            BY <1>0, <3>5, <5>2 DEF OnUnsubscribe
          <6>2. Awaiting(b)' <=> Awaiting(b)
            BY <6>1 DEF Awaiting
          <6> QED
            BY <6>1, <6>2
        <5> QED
          BY <5>1, <5>2
      <4> QED
        BY <1>0, <1>1, <2>1, <3>2, <4>1, <4>2 DEF AskedFor, Awaiting
    <3> QED
      BY <3>1, <3>3, <3>4, <3>5 DEF ServerReceive
  <2> QED
    BY <2>3, <2>4
<1>9. CASE Registry
  <2>1. UNCHANGED <<active, n, socket, ready, up, ignored>>
    BY <1>9, RegistryLeaves
  <2>2. AskedFor /\ Usable
    BY <1>2, <1>3, <2>1 DEF Usable
  <2>3. \/ client'[b] = client[b] /\ (Awaiting(b)' <=> Awaiting(b))
        \/ Awaiting(b) /\ client'[b] = [client[b] EXCEPT !.subs = client[b].open]
    BY <1>0, <1>1, <1>9, RegistrySockets
  <2>4. client[b].open
    BY <1>0, <1>1, <2>2 DEF SocketsKnown, Usable
  <2>5. client'[b].subs \/ Awaiting(b)' <=> client[b].subs \/ Awaiting(b)
    <3>1. CASE client'[b] = client[b] /\ (Awaiting(b)' <=> Awaiting(b))
      BY <3>1
    <3>2. CASE Awaiting(b) /\ client'[b] = [client[b] EXCEPT !.subs = client[b].open]
      BY <1>0, <1>1, <2>4, <3>2 DEF TypeOK
    <3> QED
      BY <2>3, <3>1, <3>2
  <2> QED
    BY <1>0, <2>1, <2>2, <2>5 DEF AskedFor, Awaiting
<1>10. CASE Meter \/ FinishRequest
  <2>1. UNCHANGED <<active, n, socket, ready, up, client, chain, ignored>>
    BY <1>10, ServiceLeaves
  <2> QED
    BY <1>2, <1>3, <2>1 DEF AskedFor, Usable, Awaiting
<1>11. CASE UNCHANGED vars
  <2>1. UNCHANGED <<active, n, socket, ready, up, client, chain, ignored>>
    BY <1>11, Stutters
  <2> QED
    BY <1>2, <1>3, <2>1 DEF AskedFor, Usable, Awaiting
<1> QED
  BY <1>4, <1>5, <1>6, <1>7, <1>8, <1>9, <1>10, <1>11 DEF Next, Faults, Gateway

-----------------------------------------------------------------------------
(* The registry, the service and the page's controls.                      *)

LEMMA WantedBySockets ==
  ASSUME InFlightTyped
  PROVE  \A k \in DOMAIN chain : chain[k].want => chain[k].by \in Sockets
<1> TAKE k \in DOMAIN chain
<1>1. chain[k] \in Transitions
  BY DEF InFlightTyped
<1> QED
  BY <1>1 DEF Transitions

LEMMA QueuedStart ==
  ASSUME IInv, Quiet, NEW c \in Sockets, client[c].open, Queue(TRUE, c),
         UNCHANGED <<client, running, stopping, orphan>>
  PROVE  RegistryIsWanted'
<1>1. chain \in Seq(Transitions) /\ RegistryIsWanted
  BY DEF IInv, InFlightTyped
<1> DEFINE t == [want |-> TRUE, by |-> c]
<1>2. t \in Transitions /\ t.want /\ t.by = c /\ chain' = Append(chain, t)
  BY DEF Transitions, Queue
<1> HIDE DEF t
<1>3. PICK r : r = chain'
  OBVIOUS
<1>4. /\ DOMAIN r = 1 .. Len(chain) + 1 /\ r[Len(chain) + 1] = t /\ Len(chain) \in Nat
      /\ DOMAIN chain = 1 .. Len(chain) /\ \A k \in DOMAIN chain : r[k] = chain[k]
      /\ Len(r) = Len(chain) + 1 /\ r \in Seq(Transitions)
  BY <1>1, <1>2, <1>3, Pushed
<1>5. r # <<>> /\ Head(r) = r[1]
  <2>1. r # <<>>
    BY <1>4
  <2> QED
    BY <1>4, <2>1, Taken
<1>6. stopping => ~Head(r).want
  <2> SUFFICES ASSUME stopping PROVE ~r[1].want
    BY <1>5
  <2>1. chain # <<>> /\ ~Head(chain).want
    BY <1>1 DEF RegistryIsWanted
  <2>2. Head(chain) = chain[1] /\ 1 \in DOMAIN chain
    BY <1>1, <2>1, Taken
  <2> QED
    BY <1>4, <2>1, <2>2
<1>7. ASSUME NEW k \in DOMAIN r, ~r[k].want
      PROVE  k = 1 /\ running /\ ~HasSubscribers(client) /\ stopping
  <2>1. k \in DOMAIN chain /\ ~chain[k].want
    BY <1>2, <1>4, <1>7
  <2>2. stopping
    BY <2>1 DEF Quiet
  <2> QED
    BY <1>1, <2>1, <2>2 DEF RegistryIsWanted
<1>8. ASSUME NEW k \in DOMAIN r, r[k].want, ~client[r[k].by].open PROVE orphan
  <2>1. k \in DOMAIN chain /\ r[k] = chain[k]
    BY <1>2, <1>4, <1>8
  <2> QED
    BY <1>1, <1>8, <2>1 DEF RegistryIsWanted
<1>9. HasSubscribers(client)' = HasSubscribers(client)
  BY DEF HasSubscribers
<1> QED
  BY <1>1, <1>3, <1>5, <1>6, <1>7, <1>8, <1>9 DEF RegistryIsWanted

\* The last subscription of a socket that was served ends.
LEMMA StopQueued ==
  ASSUME IInv, Quiet, NEW c \in Sockets, client[c].subs, StopIfUnused(client'),
         UNCHANGED <<running, stopping>>
  PROVE  RegistryIsWanted'
<1>1. chain = <<>> /\ running /\ ~stopping
  BY ServedQuietly
<1>2. HasSubscribers(client)' <=> HasSubscribers(client')
  BY DEF HasSubscribers
<1>3. CASE HasSubscribers(client')
  BY <1>1, <1>2, <1>3 DEF StopIfUnused, RegistryIsWanted
<1>4. CASE ~HasSubscribers(client')
  <2>1. chain' = <<[want |-> FALSE, by |-> 0]>>
    BY <1>1, <1>4 DEF StopIfUnused, Queue
  <2> QED
    BY <1>1, <1>2, <1>4, <2>1 DEF RegistryIsWanted
<1> QED
  BY <1>3, <1>4

LEMMA SameSubscribers ==
  ASSUME \A d \in Sockets : client'[d].open = client[d].open /\ client'[d].subs = client[d].subs,
         RegistryIsWanted, TypeOK, InFlightTyped, UNCHANGED <<running, chain, stopping, orphan>>
  PROVE  RegistryIsWanted'
<1>1. HasSubscribers(client)' <=> HasSubscribers(client)
  BY DEF HasSubscribers
<1>2. \A k \in DOMAIN chain : chain[k].want => chain[k].by \in Sockets
  BY WantedBySockets
<1> QED
  BY <1>1, <1>2 DEF RegistryIsWanted

LEMMA RegistryIsWantedKept ==
  ASSUME IInv, [Next]_vars
  PROVE  RegistryIsWanted'
<1>1. TypeOK /\ InFlightTyped /\ RegistryIsWanted /\ n \in Sockets
  BY DEF IInv, TypeOK
<1>2. CASE User
  BY <1>1, <1>2, UserSends, SameSubscribers
<1>3. CASE Break \/ ErrorEvent \/ CloseEvent \/ Reconnect
  BY <1>1, <1>3, SocketSteps, SameSubscribers
<1>4. CASE Accept
  <2>1. /\ UNCHANGED <<running, chain, stopping, orphan>> /\ socket = "connecting"
        /\ client' = [client EXCEPT ![n].open = TRUE]
    BY <1>4 DEF Accept, entry, history
  <2>2. ~client[n].open /\ ~client[n].subs /\ ~Awaiting(n)
    BY <1>1, <2>1 DEF IInv, SocketsKnown, Unknown
  <2>3. /\ client'[n] = [client[n] EXCEPT !.open = TRUE]
        /\ \A d \in Sockets : d # n => client'[d] = client[d]
    BY <1>1, <2>1 DEF TypeOK
  <2>4. ~client'[n].subs
    BY <2>2, <2>3
  <2>5. HasSubscribers(client)' <=> HasSubscribers(client)
    BY <2>2, <2>3, <2>4 DEF HasSubscribers
  <2>6. \A k \in DOMAIN chain : chain[k].want => chain[k].by \in Sockets \ {n}
    BY <1>1, <2>2, WantedBySockets DEF Awaiting
  <2> QED
    BY <1>1, <2>1, <2>3, <2>5, <2>6 DEF RegistryIsWanted
<1>5. CASE Receive
  BY <1>1, <1>5, ReceiveLeaves, SameSubscribers
<1>6. ASSUME NEW c \in Sockets, ServerReceive(c) PROVE RegistryIsWanted'
  <2>1. UNCHANGED <<running, stopping>> /\ client[c].open /\ Quiet
    BY <1>6, GatewayLeaves
  <2>2. CASE OnAck(c) \/ OnRequest(c)
    <3>1. /\ UNCHANGED <<chain, orphan>>
          /\ \A d \in Sockets : client'[d].open = client[d].open /\ client'[d].subs = client[d].subs
      BY <1>1, <2>2 DEF OnAck, OnRequest, TypeOK, history
    <3> QED
      BY <1>1, <2>1, <3>1, SameSubscribers
  <2>3. CASE OnSubscribe(c)
    <3>1. UNCHANGED <<client, orphan>>
      BY <2>3 DEF OnSubscribe, history
    <3>2. CASE client[c].subs
      BY <1>1, <2>1, <2>3, <3>1, <3>2, SameSubscribers DEF OnSubscribe
    <3>3. CASE ~client[c].subs
      BY <2>1, <2>3, <3>1, <3>3, QueuedStart DEF OnSubscribe
    <3> QED
      BY <3>2, <3>3
  <2>4. CASE OnUnsubscribe(c)
    <3>1. CASE client[c].subs
      BY <2>1, <2>4, <3>1, StopQueued DEF OnUnsubscribe
    <3>2. CASE ~client[c].subs
      <4>1. UNCHANGED <<chain, orphan>> /\ client' = [client EXCEPT ![c].subs = FALSE]
        BY <2>4, <3>2 DEF OnUnsubscribe
      <4>2. client[c].subs = FALSE
        BY <1>1, <3>2 DEF TypeOK
      <4>3. \A d \in Sockets : client'[d].open = client[d].open /\ client'[d].subs = client[d].subs
        BY <1>1, <4>1, <4>2 DEF TypeOK
      <4> QED
        BY <1>1, <2>1, <4>1, <4>3, SameSubscribers
    <3> QED
      BY <3>1, <3>2
  <2> QED
    BY <1>6, <2>2, <2>3, <2>4 DEF ServerReceive
<1>7. ASSUME NEW c \in Sockets, ServerClose(c) PROVE RegistryIsWanted'
  <2>1. UNCHANGED <<running, stopping>> /\ client[c].open /\ Quiet
    BY <1>7, GatewayLeaves
  <2>2. CASE client[c].subs
    BY <1>7, <2>1, <2>2, StopQueued DEF ServerClose
  <2>3. CASE ~client[c].subs
    <3>1. /\ chain' = chain /\ orphan' = (orphan \/ Awaiting(c))
          /\ client' = [client EXCEPT ![c] = [open |-> FALSE, ready |-> FALSE, subs |-> FALSE]]
      BY <1>7, <2>3 DEF ServerClose
    <3>2. /\ client'[c] = [open |-> FALSE, ready |-> FALSE, subs |-> FALSE]
          /\ \A d \in Sockets : d # c => client'[d] = client[d]
      BY <1>1, <3>1 DEF TypeOK
    <3>3. HasSubscribers(client)' <=> HasSubscribers(client)
      BY <2>3, <3>2 DEF HasSubscribers
    <3>4. ASSUME NEW k \in DOMAIN chain, chain[k].want, ~client'[chain[k].by].open
          PROVE  orphan'
      <4>1. chain[k].by \in Sockets
        BY <1>1, <3>4, WantedBySockets
      <4>2. CASE chain[k].by = c
        BY <3>1, <4>2 DEF Awaiting
      <4>3. CASE chain[k].by # c
        BY <1>1, <3>1, <3>2, <3>4, <4>1, <4>3 DEF RegistryIsWanted
      <4> QED
        BY <4>2, <4>3
    <3> QED
      BY <1>1, <2>1, <3>1, <3>3, <3>4 DEF RegistryIsWanted
  <2> QED
    BY <2>2, <2>3
<1>8. ASSUME ~HasSubscribers(client)' \/ running', chain # <<>>, chain' = Tail(chain), ~stopping',
             \A k \in DOMAIN chain : ~chain[k].want => k = 1,
             \A d \in Sockets : client'[d].open = client[d].open,
             orphan' = orphan,
             running' /\ chain' = <<>> => HasSubscribers(client)' \/ orphan
      PROVE  RegistryIsWanted'
  <2>1. PICK r : r = chain'
    OBVIOUS
  <2>2. /\ Len(chain) \in Nat \ {0} /\ DOMAIN chain = 1 .. Len(chain)
        /\ DOMAIN r = 1 .. Len(chain) - 1 /\ \A k \in DOMAIN r : r[k] = chain[k + 1]
        /\ chain \in Seq(Transitions)
    BY <1>1, <1>8, <2>1, Taken DEF InFlightTyped
  <2>3. ASSUME NEW k \in DOMAIN r
        PROVE  r[k].want /\ (~client'[r[k].by].open => orphan)
    <3>1. k + 1 \in DOMAIN chain /\ k + 1 # 1
      BY <2>2
    <3>2. r[k].want
      BY <1>8, <2>2, <3>1
    <3>3. r[k].by \in Sockets
      BY <1>1, <2>2, <3>1, <3>2, WantedBySockets
    <3> QED
      BY <1>1, <1>8, <2>2, <3>1, <3>2, <3>3 DEF RegistryIsWanted
  <2> QED
    BY <1>8, <2>1, <2>3 DEF RegistryIsWanted
<1>9. \A k \in DOMAIN chain : ~chain[k].want => k = 1
  BY <1>1 DEF RegistryIsWanted
<1>10. CASE SettleStart
  <2>1. PICK c : c = Head(chain).by
    OBVIOUS
  <2>2. /\ chain # <<>> /\ ~stopping /\ Head(chain).want /\ chain' = Tail(chain)
        /\ client' = [client EXCEPT ![c].subs = client[c].open]
        /\ running' = TRUE /\ UNCHANGED <<stopping, orphan>>
    BY <1>10, <2>1 DEF SettleStart, Quiet, history
  <2>3. Head(chain) = chain[1] /\ 1 \in DOMAIN chain /\ c \in Sockets
    <3>1. Head(chain) = chain[1] /\ 1 \in DOMAIN chain /\ Head(chain) \in Transitions
      BY <1>1, <2>2, Taken DEF InFlightTyped
    <3> QED
      BY <2>1, <2>2, <3>1 DEF Transitions
  <2>4. /\ client'[c].subs = client[c].open
        /\ \A d \in Sockets : client'[d].open = client[d].open
    BY <1>1, <2>2, <2>3 DEF TypeOK
  <2>5. client[c].open => HasSubscribers(client)'
    BY <2>3, <2>4 DEF HasSubscribers
  <2>6. ~client[c].open => orphan
    BY <1>1, <2>1, <2>2, <2>3 DEF RegistryIsWanted
  <2> QED
    BY <1>8, <1>9, <2>2, <2>4, <2>5, <2>6
<1>11. CASE BeginStop
  <2>1. /\ chain # <<>> /\ ~stopping /\ ~Head(chain).want /\ running /\ stopping'
        /\ UNCHANGED <<client, running, chain>>
    BY <1>11 DEF BeginStop, Quiet
  <2>2. Head(chain) = chain[1] /\ 1 \in DOMAIN chain /\ DOMAIN chain = 1 .. Len(chain)
    BY <1>1, <2>1, Taken DEF InFlightTyped
  <2>3. Len(chain) = 1 /\ ~HasSubscribers(client)
    BY <1>1, <2>1, <2>2 DEF RegistryIsWanted
  <2>4. HasSubscribers(client)' <=> HasSubscribers(client)
    BY <2>1 DEF HasSubscribers
  <2>5. DOMAIN chain = {1}
    BY <2>2, <2>3
  <2> QED
    BY <2>1, <2>2, <2>3, <2>4, <2>5 DEF RegistryIsWanted
<1>12. CASE StopDone
  <2>1. /\ stopping /\ ~stopping' /\ ~running' /\ chain' = Tail(chain)
        /\ UNCHANGED <<client, orphan>>
    BY <1>12 DEF StopDone, history
  <2>2. chain # <<>> /\ ~Head(chain).want
    BY <1>1, <2>1 DEF RegistryIsWanted
  <2>3. Head(chain) = chain[1] /\ 1 \in DOMAIN chain
    BY <1>1, <2>2, Taken DEF InFlightTyped
  <2>4. ~HasSubscribers(client)'
    <3>1. ~HasSubscribers(client)
      BY <1>1, <2>2, <2>3 DEF RegistryIsWanted
    <3> QED
      BY <2>1, <3>1 DEF HasSubscribers
  <2> QED
    BY <1>8, <1>9, <2>1, <2>2, <2>4
<1>13. CASE Meter \/ FinishRequest
  BY <1>1, <1>13, ServiceLeaves, SameSubscribers
<1>14. CASE UNCHANGED vars
  BY <1>1, <1>14, Stutters, SameSubscribers
<1> QED
  BY <1>2, <1>3, <1>4, <1>5, <1>6, <1>7, <1>10, <1>11, <1>12, <1>13, <1>14
  DEF Next, Faults, Gateway, Registry

LEMMA ObservedAgrees ==
  ASSUME ServiceAgrees, TypeOK, NEW s \in Settings, session, Observe(s),
         session' = session, NEW js \in Seq(Jobs), jobs' = js
  PROVE  ServiceAgrees'
<1>1. known' = s /\ known \in Settings /\ (session' <=> TRUE)
  BY DEF Observe, TypeOK
<1>2. CASE s = known
  <2>1. snapshot' = snapshot
    BY <1>2 DEF Observe
  <2> QED
    BY <1>1, <1>2, <2>1 DEF ServiceAgrees
<1>3. CASE s # known
  <2>1. snapshot' = IF snapshot = NoSnapshot THEN NoSnapshot ELSE Invalidated(s)
    BY <1>3 DEF Observe, OldSnapshot
  <2>2. Labelled(Invalidated(s), s)
    BY BrowserAssumption DEF Invalidated, Snapshots, Labelled
  <2> QED
    BY <1>1, <2>1, <2>2 DEF ServiceAgrees
<1> QED
  BY <1>2, <1>3

LEMMA EndedAgrees ==
  ASSUME ServiceAgrees, InFlightTyped, SessionEnds
  PROVE  ServiceAgrees'
<1>1. /\ session' = FALSE /\ snapshot' = NoSnapshot
      /\ jobs' = [j \in DOMAIN jobs |-> [jobs[j] EXCEPT !.live = FALSE]]
  BY DEF SessionEnds
<1>2. \A j \in DOMAIN jobs : jobs[j] \in Jobs
  BY DEF InFlightTyped
<1>3. \A j \in DOMAIN jobs' : ~jobs'[j].live
  BY <1>1, <1>2 DEF Jobs
<1> QED
  BY <1>1, <1>3 DEF ServiceAgrees

LEMMA ServiceAgreesKept ==
  ASSUME IInv, [Next]_vars
  PROVE  ServiceAgrees'
<1>1. TypeOK /\ InFlightTyped /\ ServiceAgrees /\ jobs \in Seq(Jobs)
  BY DEF IInv, InFlightTyped
<1>2. CASE User
  <2>1. UNCHANGED <<session, meter, known, snapshot, jobs>>
    BY <1>2, UserSends
  <2> QED
    BY <1>1, <2>1 DEF ServiceAgrees
<1>3. CASE Break \/ ErrorEvent \/ CloseEvent \/ Reconnect
  BY <1>1, <1>3, SocketSteps DEF ServiceAgrees
<1>4. CASE Accept
  BY <1>1, <1>4 DEF Accept, runtime, ServiceAgrees
<1>5. CASE Receive
  BY <1>1, <1>5, ReceiveLeaves DEF ServiceAgrees
<1>6. ASSUME NEW c \in Sockets, ServerReceive(c) \/ ServerClose(c) PROVE ServiceAgrees'
  <2>1. UNCHANGED <<session, meter, known, snapshot>>
    BY <1>6, GatewayLeaves
  <2>2. jobs' = jobs \/ (session /\ \E j \in Jobs : jobs' = Append(jobs, j))
    <3>1. CASE ServerClose(c)
      BY <3>1 DEF ServerClose
    <3>2. CASE OnAck(c) \/ OnSubscribe(c) \/ OnUnsubscribe(c)
      BY <3>2 DEF OnAck, OnSubscribe, OnUnsubscribe
    <3>3. ASSUME OnRequest(c), up[c] # <<>>
          PROVE  jobs' = jobs \/ (session /\ \E j \in Jobs : jobs' = Append(jobs, j))
      <4>1. PICK m : m = Head(up[c])
        OBVIOUS
      <4>2. m \in UpMessages
        BY <1>1, <3>3, <4>1, Taken DEF InFlightTyped
      <4>3. m.id \in 1 .. MaxUses /\ m.to \in Settings /\ m.bound \in BOOLEAN
        BY <3>3, <4>1, <4>2 DEF OnRequest, UpMessages
      <4>4. [by |-> c, id |-> m.id, to |-> m.to, bound |-> m.bound, live |-> TRUE] \in Jobs
        BY <4>3 DEF Jobs
      <4> QED
        BY <3>3, <4>1, <4>4 DEF OnRequest
    <3> QED
      BY <1>6, <3>1, <3>2, <3>3 DEF ServerReceive
  <2>3. CASE jobs' = jobs
    BY <1>1, <2>1, <2>3 DEF ServiceAgrees
  <2>4. CASE session
    BY <1>1, <2>1, <2>4 DEF ServiceAgrees
  <2> QED
    BY <2>2, <2>3, <2>4
<1>7. CASE SettleStart
  BY <1>1, <1>7 DEF SettleStart, runtime, ServiceAgrees
<1>8. CASE StopDone
  BY <1>1, <1>8 DEF StopDone, runtime, ServiceAgrees
<1>9. CASE BeginStop
  BY <1>1, <1>9, EndedAgrees DEF BeginStop
<1>10. CASE SessionLost
  BY <1>1, <1>10, EndedAgrees DEF SessionLost
<1>11. CASE SessionUp
  BY <1>1, <1>11 DEF SessionUp, ServiceAgrees
<1>12. CASE Reading
  <2>1. /\ snapshot' = Measured(meter) /\ session /\ UNCHANGED <<session, known, jobs>>
        /\ meter \in Settings /\ known \in Settings /\ Function[meter] = Function[known]
    BY <1>1, <1>12 DEF Reading, TypeOK
  <2>2. Labelled(Measured(meter), known)
    BY <2>1, BrowserAssumption DEF Measured, Snapshots, Labelled
  <2> QED
    BY <2>1, <2>2 DEF ServiceAgrees
<1>13. CASE Poll
  <2>1. Observe(meter) /\ session /\ UNCHANGED <<session, jobs>> /\ meter \in Settings
    BY <1>1, <1>13 DEF Poll, TypeOK
  <2> QED
    BY <1>1, <2>1, ObservedAgrees
<1>16. ASSUME NEW s \in PanelSettings, Turned(s) PROVE ServiceAgrees'
  BY <1>1, <1>16 DEF Turned, ServiceAgrees
<1>14. CASE FinishRequest
  <2>1. jobs # <<>> /\ jobs' = Tail(jobs) /\ session' = session
    BY <1>14 DEF FinishRequest
  <2>2. PICK j : j = Head(jobs)
    OBVIOUS
  <2>3. /\ Tail(jobs) \in Seq(Jobs) /\ j = jobs[1] /\ j \in Jobs /\ 1 \in DOMAIN jobs
        /\ DOMAIN Tail(jobs) = 1 .. Len(jobs) - 1 /\ DOMAIN jobs = 1 .. Len(jobs)
        /\ \A k \in DOMAIN Tail(jobs) : Tail(jobs)[k] = jobs[k + 1]
        /\ Len(jobs) \in Nat
    BY <1>1, <2>1, <2>2, Taken
  <2>4. CASE j.live /\ Observe(j.to)
    <3>1. session /\ j.to \in Settings
      BY <1>1, <2>3, <2>4 DEF ServiceAgrees, Jobs
    <3> QED
      BY <1>1, <2>1, <2>3, <2>4, <3>1, ObservedAgrees
  <2>5. CASE UNCHANGED <<known, snapshot>>
    <3>1. \A k \in DOMAIN Tail(jobs) : Tail(jobs)[k].live => session
      <4> TAKE k \in DOMAIN Tail(jobs)
      <4>1. k + 1 \in DOMAIN jobs /\ Tail(jobs)[k] = jobs[k + 1]
        BY <2>3
      <4> QED
        BY <1>1, <4>1 DEF ServiceAgrees
    <3> QED
      BY <1>1, <2>1, <2>5, <3>1 DEF ServiceAgrees
  <2> QED
    BY <1>14, <2>2, <2>4, <2>5 DEF FinishRequest
<1>15. CASE UNCHANGED vars
  BY <1>1, <1>15, Stutters DEF ServiceAgrees
<1> QED
  BY <1>2, <1>3, <1>4, <1>5, <1>6, <1>7, <1>8, <1>9, <1>10, <1>11, <1>12, <1>13, <1>14, <1>15,
     <1>16
  DEF Next, Faults, Gateway, Registry, Meter

LEMMA ContextKeepsControls ==
  ASSUME TypeOK, pending' \subseteq pending, requestId' = requestId, pending \subseteq 1 .. requestId,
         NEW v, NewContext(v), v = "awaiting" \/ active'
  PROVE  ControlsKnown'
<1>1. 0 \notin pending' /\ control' = 0 /\ newest' = 0 /\ reading' = NoSnapshot /\ view' = v
  BY DEF NewContext, TypeOK
<1>2. newest' \in 0 .. requestId'
  BY <1>1 DEF TypeOK
<1> QED
  BY <1>1, <1>2 DEF ControlsKnown, NewestControlShown

LEMMA ControlsKnownKept ==
  ASSUME IInv, [Next]_vars
  PROVE  ControlsKnown'
<1>1. /\ TypeOK /\ ControlsKnown /\ requestId \in Nat
      /\ pending \subseteq 1 .. requestId /\ newest \in 0 .. requestId
      /\ control = IF newest \in pending THEN newest ELSE 0
  BY DEF IInv, TypeOK, ControlsKnown, NewestControlShown
<1>2. CASE Activate \/ Deactivate
  BY <1>1, <1>2, ContextKeepsControls DEF Activate, Deactivate, asked
<1>3. ASSUME NEW s \in Settings, ApplyControl(s) PROVE ControlsKnown'
  <2>1. active' = active /\ active
    BY <1>1, <1>3, BrowserAssumption DEF ApplyControl, page, ControlsKnown
  <2>2. requestId' = requestId + 1
    BY <1>3 DEF ApplyControl, Request
  <2>3. CASE Usable
    <3>1. pending' = pending \cup {requestId + 1} /\ control' = requestId + 1 /\ newest' = requestId + 1
      BY <1>3, <2>2, <2>3 DEF ApplyControl, Request, BeginControl
    <3> QED
      BY <1>1, <2>1, <2>2, <3>1 DEF ControlsKnown, NewestControlShown
  <2>4. CASE ~Usable
    <3>1. pending' = pending /\ control' = 0 /\ newest' = requestId + 1
      BY <1>3, <2>2, <2>4 DEF ApplyControl, Request
    <3> QED
      BY <1>1, <2>1, <2>2, <3>1 DEF ControlsKnown, NewestControlShown
  <2> QED
    BY <2>3, <2>4
<1>4. ASSUME NEW s \in RawSettings, ExecuteScpi(s) PROVE ControlsKnown'
  <2>1. /\ requestId' = requestId + 1 /\ UNCHANGED <<active, view, reading, control, newest>>
        /\ pending' \in {pending, pending \cup {requestId + 1}}
    BY <1>4 DEF ExecuteScpi, Request, page, display
  <2> QED
    BY <1>1, <2>1 DEF ControlsKnown, NewestControlShown
<1>5. ASSUME NEW kind, TransportDown(kind), active' = active, requestId' = requestId,
             pending' = pending \/ pending' = {}
      PROVE  ControlsKnown'
  <2>1. CASE active
    BY <1>1, <1>5, <2>1, ContextKeepsControls DEF TransportDown
  <2>2. CASE ~active
    <3>1. UNCHANGED <<view, reading, control, newest>>
      BY <1>5, <2>2 DEF TransportDown, display
    <3> QED
      BY <1>1, <1>5, <2>2, <3>1 DEF ControlsKnown, NewestControlShown
  <2> QED
    BY <2>1, <2>2
<1>6. CASE ErrorEvent \/ CloseEvent \/ Reconnect
  BY <1>5, <1>6 DEF ErrorEvent, CloseEvent, Reconnect, RejectPending, page, asked
<1>7. CASE Break \/ Accept
  <2>1. UNCHANGED <<active, view, reading, control, newest, pending, requestId>>
    BY <1>7 DEF Break, Accept, page, display, asked
  <2> QED
    BY <1>1, <2>1 DEF ControlsKnown, NewestControlShown
<1>8. CASE Receive
  <2>1. active' = active
    BY <1>8, ReceiveLeaves
  <2>2. CASE OnHello
    <3>1. UNCHANGED <<view, reading, control, newest, pending, requestId>>
      BY <2>2 DEF OnHello, display, asked
    <3> QED
      BY <1>1, <2>1, <3>1 DEF ControlsKnown, NewestControlShown
  <2>3. CASE OnLifecycle
    <3>1. CASE active
      BY <1>1, <2>1, <2>3, <3>1, ContextKeepsControls DEF OnLifecycle, asked
    <3>2. CASE ~active
      BY <1>1, <2>1, <2>3, <3>2 DEF OnLifecycle, display, asked, ControlsKnown, NewestControlShown
    <3> QED
      BY <3>1, <3>2
  <2>4. CASE OnState \/ OnSnapshot
    <3>1. UNCHANGED <<control, newest, pending, requestId>>
      BY <2>4 DEF OnState, OnSnapshot, asked
    <3>2. ~active => UNCHANGED <<view, reading>>
      BY <2>4 DEF OnState, OnSnapshot
    <3> QED
      BY <1>1, <2>1, <3>1, <3>2 DEF ControlsKnown, NewestControlShown
  <2>5. CASE OnAnswer
    <3>1. UNCHANGED <<view, reading, newest, requestId>>
      BY <2>5 DEF OnAnswer
    <3>2. CASE UNCHANGED <<pending, control>>
      BY <1>1, <2>1, <3>1, <3>2 DEF ControlsKnown, NewestControlShown
    <3>3. ASSUME NEW id \in pending, pending' = pending \ {id}, Release(id) PROVE ControlsKnown'
      <4>1. control' = IF control = id THEN 0 ELSE control
        BY <3>3 DEF Release, Owns
      <4>2. control' = IF newest \in pending' THEN newest ELSE 0
        BY <1>1, <3>3, <4>1
      <4>3. ~active => control' = 0
        BY <1>1, <4>1 DEF ControlsKnown
      <4> QED
        BY <1>1, <2>1, <3>1, <3>3, <4>2, <4>3 DEF ControlsKnown, NewestControlShown
    <3> QED
      BY <2>5, <3>2, <3>3 DEF OnAnswer
  <2> QED
    BY <1>8, <2>2, <2>3, <2>4, <2>5 DEF Receive
<1>9. CASE Gateway \/ Registry \/ Meter \/ FinishRequest \/ UNCHANGED vars
  <2>1. UNCHANGED <<active, view, reading, control, newest, pending, requestId>>
    BY <1>9, GatewayLeaves, RegistryLeaves, ServiceLeaves, Stutters DEF Gateway
  <2> QED
    BY <1>1, <2>1 DEF ControlsKnown, NewestControlShown
<1> QED
  BY <1>2, <1>3, <1>4, <1>6, <1>7, <1>8, <1>9 DEF Next, User, Faults

-----------------------------------------------------------------------------
(* The page and the messages on their way to it.                           *)

LEMMA Shows ==
  ASSUME TypeOK, ServiceAgrees
  PROVE  /\ ShownNow \in Pages /\ Coherent(ShownNow)
         /\ Blank \in Pages /\ Coherent(Blank)
         /\ Blank.view \notin Settings
         /\ \A d \in DownMessages : d.kind # "lifecycle" => After(Blank, d) = Blank
<1> USE BrowserAssumption
<1>0. NoSnapshot \in Snapshots /\ NoSnapshot.of \notin Settings
  BY NothingRead
<1>1. Blank \in Pages /\ Coherent(Blank) /\ Blank.view \notin Settings
  BY <1>0 DEF Blank, Pages, Coherent
<1>2. \A d \in DownMessages : d.kind # "lifecycle" => After(Blank, d) = Blank
  BY <1>1 DEF After
<1>3. CASE ~session
  BY <1>0, <1>1, <1>2, <1>3 DEF ShownNow, Shown, Pages, Coherent
<1>4. CASE session
  <2>1. known \in Settings /\ snapshot \in Snapshots
    BY DEF TypeOK
  <2>2. snapshot.of \in Settings =>
          snapshot.under = known /\ Function[snapshot.of] = Function[known]
    BY DEF ServiceAgrees, Labelled, NoSnapshot
  <2>3. ShownNow = [view |-> known, reading |-> snapshot]
    BY <1>4 DEF ShownNow, Shown
  <2> QED
    BY <1>1, <1>2, <2>1, <2>2, <2>3 DEF Pages, Coherent
<1> QED
  BY <1>3, <1>4

\* A context begins.
LEMMA LifecycleShows ==
  ASSUME NEW p, NEW v \in Settings \cup {"gone"}, NEW d \in Seq(DownMessages), NEW q,
         Leads(p, d, q)
  PROVE  Leads(p, d \o Lifecycle(v), [view |-> v, reading |-> NoSnapshot])
<1> DEFINE m == [kind |-> "lifecycle", shown |-> v]
<1>1. m \in DownMessages /\ After(q, m) = [view |-> v, reading |-> NoSnapshot]
  BY DEF DownMessages, After
<1>2. Coherent([view |-> v, reading |-> NoSnapshot])
  BY BrowserAssumption, NothingRead DEF Coherent, Pages
<1>3. Lifecycle(v) = <<m>>
  BY DEF Lifecycle
<1> HIDE DEF m
<1> QED
  BY <1>1, <1>2, <1>3, LeadsFurther

\* The state changes, of a page that shows another.
LEMMA StateShows ==
  ASSUME NEW p, NEW s \in Settings, NEW d \in Seq(DownMessages), NEW q, Leads(p, d, q),
         q.view \in Settings, q.view # s
  PROVE  Leads(p, d \o State(s), [view |-> s, reading |-> NoSnapshot])
<1> DEFINE m == [kind |-> "state", shown |-> s]
<1>1. m \in DownMessages /\ After(q, m) = [view |-> s, reading |-> NoSnapshot]
  BY DEF DownMessages, After
<1>2. Coherent([view |-> s, reading |-> NoSnapshot])
  BY BrowserAssumption, NothingRead DEF Coherent, Pages
<1>3. State(s) = <<m>>
  BY DEF State
<1> HIDE DEF m
<1> QED
  BY <1>1, <1>2, <1>3, LeadsFurther

\* A reading of the state that the page shows.
LEMMA SnapshotShows ==
  ASSUME NEW p, NEW s \in Settings, NEW d \in Seq(DownMessages), NEW q, Leads(p, d, q),
         q.view = s, NEW new, Labelled(new, s), new # NoSnapshot
  PROVE  Leads(p, d \o Snapshot(new), [view |-> s, reading |-> new])
<1> DEFINE m == [kind |-> "snapshot", snapshot |-> new]
<1>1. m \in DownMessages
  BY DEF DownMessages, Labelled
<1>2. m.kind = "snapshot" /\ m.snapshot = new
  OBVIOUS
<1>3. After(q, m) = [view |-> s, reading |-> new]
  BY <1>2 DEF After, Labelled
<1>4. Coherent([view |-> s, reading |-> new])
  BY BrowserAssumption DEF Coherent, Pages, Labelled
<1>5. Snapshot(new) = <<m>>
  BY DEF Snapshot
<1> HIDE DEF m
<1> QED
  BY <1>1, <1>3, <1>4, <1>5, LeadsFurther

\* What a page that has no context does not take.
LEMMA BlankStays ==
  ASSUME TypeOK, ServiceAgrees, NEW p, NEW d \in Seq(DownMessages), Leads(p, d, Blank),
         NEW m \in DownMessages, m.kind # "lifecycle"
  PROVE  Leads(p, d \o <<m>>, Blank)
BY Shows, LeadsFurther

LEMMA ReplyShows ==
  ASSUME NEW p, NEW d \in Seq(DownMessages), NEW q, Leads(p, d, q),
         NEW id \in 1 .. MaxUses, NEW S
  PROVE  Leads(p, d \o Out(S, Answer(id)), q)
<1> DEFINE m == [kind |-> "answer", id |-> id]
<1>1. m \in DownMessages /\ After(q, m) = q /\ Answer(id) = <<m>>
  BY DEF DownMessages, After, Answer
<1>2. Coherent(q)
  BY LeadsThroughCoherent
<1> HIDE DEF m
<1>3. Leads(p, d \o <<m>>, q)
  BY <1>1, <1>2, LeadsFurther
<1>4. d \o <<>> = d
  OBVIOUS
<1> QED
  BY <1>1, <1>3, <1>4 DEF Out

\* The page as the state in the session changes to s.
NowAt(s) ==
  [view |-> s, reading |-> IF s = known THEN snapshot ELSE OldSnapshot(s)]

LEMMA PublishedShows ==
  ASSUME TypeOK, ServiceAgrees, session, NEW p, NEW d \in Seq(DownMessages), NEW q,
         Leads(p, d, q), q \in {ShownNow, Blank}, NEW s \in Settings
  PROVE  \E r : /\ Leads(p, d \o Published(s), r)
                /\ r \in {NowAt(s), Blank}
                /\ q = ShownNow => r = NowAt(s)
<1>1. CASE s = known
  <2>1. Published(s) = <<>> /\ d \o <<>> = d /\ ShownNow = NowAt(s)
    BY <1>1 DEF Published, ShownNow, Shown, NowAt
  <2> QED
    BY <2>1
<1>2. CASE s # known
  <2>1. Published(s) = State(s) \o Snapshot(OldSnapshot(s))
    BY <1>2 DEF Published
  <2>2. State(s) \in Seq(DownMessages) /\ Snapshot(OldSnapshot(s)) \in Seq(DownMessages)
    BY MessagesTyped
  <2>3. /\ d \o Published(s) = (d \o State(s)) \o Snapshot(OldSnapshot(s))
        /\ d \o State(s) \in Seq(DownMessages)
    BY <2>1, <2>2
  <2>4. OldSnapshot(s) = NoSnapshot \/ OldSnapshot(s) = Invalidated(s)
    BY DEF OldSnapshot
  <2>5. Labelled(Invalidated(s), s) /\ Invalidated(s) # NoSnapshot
    <3>1. Invalidated(s).under # NoSnapshot.under
      BY DEF Invalidated, NoSnapshot
    <3> QED
      BY <3>1, BrowserAssumption DEF Invalidated, Snapshots, Labelled
  <2>6. Snapshot(NoSnapshot) = <<>> /\ (d \o State(s)) \o <<>> = d \o State(s)
    BY <2>3 DEF Snapshot
  <2>7. CASE q = ShownNow
    <3>1. q.view = known /\ known \in Settings
      BY <2>7 DEF ShownNow, Shown, TypeOK
    <3> DEFINE r == [view |-> s, reading |-> NoSnapshot]
    <3>2. Leads(p, d \o State(s), r)
      BY <1>2, <3>1, StateShows
    <3>3. r.view = s
      OBVIOUS
    <3>4. CASE OldSnapshot(s) = NoSnapshot
      BY <1>2, <2>3, <2>6, <3>2, <3>4 DEF NowAt
    <3>5. CASE OldSnapshot(s) = Invalidated(s)
      <4> HIDE DEF r
      <4>1. Leads(p, (d \o State(s)) \o Snapshot(Invalidated(s)),
                  [view |-> s, reading |-> Invalidated(s)])
        BY <2>3, <2>5, <3>2, <3>3, SnapshotShows
      <4> QED
        BY <1>2, <2>3, <3>5, <4>1 DEF NowAt
    <3> QED
      BY <2>4, <3>4, <3>5
  <2>8. CASE q = Blank
    <3> DEFINE m1 == [kind |-> "state", shown |-> s]
               m2 == [kind |-> "snapshot", snapshot |-> Invalidated(s)]
    <3>1. m1 \in DownMessages /\ m1.kind # "lifecycle" /\ State(s) = <<m1>>
      BY DEF DownMessages, State
    <3>2. m2 \in DownMessages /\ m2.kind # "lifecycle"
      BY <2>5 DEF DownMessages, Labelled
    <3>3. Snapshot(Invalidated(s)) \in {<<>>, <<m2>>}
      BY DEF Snapshot
    <3> HIDE DEF m1, m2
    <3>4. Leads(p, d \o State(s), Blank)
      BY <2>8, <3>1, BlankStays
    <3>5. Leads(p, (d \o State(s)) \o <<m2>>, Blank)
      BY <2>3, <3>2, <3>4, BlankStays
    <3>6. Leads(p, (d \o State(s)) \o Snapshot(OldSnapshot(s)), Blank)
      BY <2>4, <2>6, <3>3, <3>4, <3>5
    <3>7. Blank = ShownNow => FALSE
      <4>1. ShownNow.view = known /\ known \in Settings
        BY DEF ShownNow, Shown, TypeOK
      <4> QED
        BY <4>1, Shows
    <3> QED
      BY <2>3, <2>8, <3>6, <3>7
  <2> QED
    BY <2>7, <2>8
<1> QED
  BY <1>1, <1>2

\* Nothing changes for the page.
LEMMA PageAsBefore ==
  ASSUME PageFollows, Page' = Page, down' = down,
         Subscribed' => Subscribed /\ ShownNow' = ShownNow,
         Subscribed' /\ Synced' => Synced
  PROVE  PageFollows'
<1>1. PICK q \in Pages : /\ Leads(Page, down, q)
                         /\ Subscribed => q \in {ShownNow, Blank}
                         /\ Subscribed /\ Synced => q = ShownNow
  BY DEF PageFollows
<1>2. Leads(Page', down', q)
  BY <1>1
<1> QED
  BY <1>1, <1>2 DEF PageFollows

\* The page begins anew.
LEMMA PageBlank ==
  ASSUME TypeOK, InFlightTyped, ServiceAgrees, PageFollows, Page' = Blank, down' = down,
         Subscribed' => Subscribed /\ ShownNow' = ShownNow,
         ~(Subscribed' /\ Synced')
  PROVE  PageFollows'
<1>1. PICK q \in Pages : /\ Leads(Page, down, q)
                         /\ Subscribed => q \in {ShownNow, Blank}
                         /\ Subscribed /\ Synced => q = ShownNow
  BY DEF PageFollows
<1>2. PICK r \in {q, Blank} : Leads(Blank, down, r)
  BY <1>1, LeadsAnew DEF InFlightTyped
<1>3. Leads(Page', down', r) /\ r \in Pages
  BY <1>1, <1>2, Shows
<1> QED
  BY <1>1, <1>2, <1>3 DEF PageFollows

LEMMA UserKeepsPage ==
  ASSUME IInv, User
  PROVE  PageFollows'
<1>1. /\ TypeOK /\ InFlightTyped /\ SocketsKnown /\ AckFirst /\ RouteIsAsked /\ ServiceAgrees
      /\ PageFollows /\ n \in Sockets /\ up[n] \in Seq(UpMessages)
  BY DEF IInv, TypeOK, InFlightTyped
<1>2. /\ UNCHANGED <<n, socket, ready, down, ignored, client, session, meter, known, snapshot>>
      /\ \/ up' = up
         \/ Usable /\ \E m \in UpMessages : Send(<<m>>)
  BY UserSends
<1>3. (Subscribed' <=> Subscribed) /\ ShownNow' = ShownNow
  BY <1>2 DEF Subscribed, Subscribers, ShownNow, Shown
<1>4. NoUnsubscribe(up'[n]) => NoUnsubscribe(up[n])
  <2>1. CASE up' = up
    BY <2>1
  <2>2. ASSUME NEW m \in UpMessages, Send(<<m>>)
        PROVE  NoUnsubscribe(up'[n]) => NoUnsubscribe(up[n])
    <3>1. up'[n] = up[n] \o <<m>>
      BY <1>1, <2>2 DEF Send, InFlightTyped
    <3> QED
      BY <1>1, <3>1, UnsubscribesPushed
  <2> QED
    BY <1>2, <2>1, <2>2
<1>5. CASE Activate
  <2>1. Page' = Blank /\ ~active
    BY <1>5 DEF Activate, NewContext, Page, Blank
  <2>2. ASSUME Subscribed, n \notin ignored, NoUnsubscribe(up[n]) PROVE FALSE
    <3>1. socket = "open" /\ client[n].ready /\ client[n].subs
      BY <2>2 DEF Subscribed, Subscribers
    <3>2. Usable
      BY <1>1, <3>1 DEF SocketsKnown, Usable
    <3>3. active = FALSE
      BY <1>1, <2>1 DEF TypeOK
    <3>4. LastAsks(up[n], FALSE)
      BY <1>1, <3>2, <3>3 DEF RouteIsAsked
    <3>5. NoAsks(up[n])
      BY <1>1, <2>2, <3>4, NothingAsked
    <3> QED
      BY <1>1, <2>1, <2>2, <3>1, <3>2, <3>5 DEF RouteIsAsked
  <2>3. ~(Subscribed' /\ Synced')
    BY <1>2, <1>3, <1>4, <2>2 DEF Synced
  <2> QED
    BY <1>1, <1>2, <1>3, <2>1, <2>3, PageBlank
<1>6. CASE Deactivate
  <2>1. Page' = Blank /\ ~active'
    BY <1>6 DEF Deactivate, NewContext, Page, Blank
  <2>2. ~Synced'
    BY <2>1 DEF Synced
  <2> QED
    BY <1>1, <1>2, <1>3, <2>1, <2>2, PageBlank
<1>7. ASSUME UNCHANGED <<active, view, reading>> PROVE PageFollows'
  <2>1. Page' = Page
    BY <1>7 DEF Page
  <2>2. Synced' => Synced
    BY <1>2, <1>4, <1>7 DEF Synced
  <2> QED
    BY <1>1, <1>2, <1>3, <2>1, <2>2, PageAsBefore
<1>8. ASSUME NEW s \in Settings, ApplyControl(s) PROVE PageFollows'
  BY <1>7, <1>8 DEF ApplyControl, page
<1>9. ASSUME NEW s \in RawSettings, ExecuteScpi(s) PROVE PageFollows'
  BY <1>7, <1>9 DEF ExecuteScpi, page, display
<1> QED
  BY <1>5, <1>6, <1>8, <1>9 DEF User

LEMMA SocketKeepsPage ==
  ASSUME IInv, Break \/ ErrorEvent \/ CloseEvent \/ Reconnect \/ Accept
  PROVE  PageFollows'
<1>1. /\ TypeOK /\ InFlightTyped /\ SocketsKnown /\ ServiceAgrees /\ PageFollows
      /\ ControlsKnown /\ n \in Sockets
  BY DEF IInv, TypeOK
<1>2. PICK q \in Pages : Leads(Page, down, q)
  BY <1>1 DEF PageFollows
<1>3. Coherent(Page) /\ Page \in Pages
  BY <1>1, <1>2, LeadsThroughCoherent DEF InFlightTyped, Coherent
<1>4. CASE Break
  <2>1. down' = <<>> /\ Page' = Page /\ ~Subscribed'
    BY <1>4 DEF Break, Page, display, Subscribed
  <2>2. Leads(Page', down', Page)
    BY <1>3, <2>1, LeadsNowhere
  <2> QED
    BY <1>3, <2>1, <2>2 DEF PageFollows
<1>5. CASE Accept
  <2>1. /\ down' = <<[kind |-> "hello"]>> /\ Page' = Page /\ socket = "connecting" /\ n' = n
        /\ client' = [client EXCEPT ![n].open = TRUE]
    BY <1>5 DEF Accept, Page, display
  <2>2. ~client[n].subs
    BY <1>1, <2>1 DEF SocketsKnown, Unknown
  <2>3. ~client'[n].subs
    BY <1>1, <2>1, <2>2 DEF TypeOK
  <2>4. ~Subscribed'
    BY <2>1, <2>3 DEF Subscribed, Subscribers
  <2> DEFINE m == [kind |-> "hello"]
  <2>5. m \in DownMessages /\ After(Page, m) = Page
    BY DEF DownMessages, After
  <2>6. <<>> \o <<m>> = <<m>> /\ <<>> \in Seq(DownMessages)
    OBVIOUS
  <2>7. down' = <<m>>
    BY <2>1
  <2> HIDE DEF m
  <2>8. Leads(Page, <<>> \o <<m>>, Page)
    BY <1>3, <2>5, <2>6, LeadsNowhere, LeadsFurther
  <2>9. Leads(Page', down', Page)
    BY <2>1, <2>6, <2>7, <2>8
  <2> QED
    BY <1>3, <2>4, <2>9 DEF PageFollows
<1>6. CASE ErrorEvent \/ CloseEvent \/ Reconnect
  <2>1. down' = down /\ ~Subscribed'
    BY <1>6 DEF ErrorEvent, CloseEvent, Reconnect, Subscribed
  <2>2. \E kind : TransportDown(kind)
    BY <1>6 DEF ErrorEvent, CloseEvent, Reconnect
  <2>3. Page' = Blank \/ Page' = Page
    BY <2>2 DEF TransportDown, NewContext, display, Page, Blank
  <2> QED
    BY <1>1, <2>1, <2>3, PageBlank, PageAsBefore
<1> QED
  BY <1>4, <1>5, <1>6

LEMMA ReceiveKeepsPage ==
  ASSUME IInv, Receive
  PROVE  PageFollows'
<1>1. /\ TypeOK /\ InFlightTyped /\ ServiceAgrees /\ PageFollows /\ ControlsKnown
      /\ n \in Sockets /\ up[n] \in Seq(UpMessages) /\ down \in Seq(DownMessages)
  BY DEF IInv, TypeOK, InFlightTyped
<1>2. /\ UNCHANGED <<active, n, socket, ignored, client, session, meter, known, snapshot>>
      /\ down # <<>> /\ down' = Tail(down)
      /\ OnHello \/ (up' = up /\ ready' = ready)
  BY ReceiveLeaves
<1>3. (Subscribed' <=> Subscribed) /\ ShownNow' = ShownNow
  BY <1>2 DEF Subscribed, Subscribers, ShownNow, Shown
<1>4. NoUnsubscribe(up'[n]) => NoUnsubscribe(up[n])
  <2>1. CASE up' = up
    BY <2>1
  <2>2. CASE OnHello
    <3> DEFINE a == [kind |-> "ack"]
    <3>1. a \in UpMessages /\ Subscribe \in UpMessages
      BY AsksTyped
    <3>2. up'[n] = up[n] \o AfterHello
      BY <1>1, <2>2 DEF OnHello, Send, InFlightTyped
    <3>3. AfterHello \in {<<a>> \o <<Subscribe>>, <<a>> \o <<>>}
      BY DEF AfterHello
    <3> HIDE DEF a
    <3>4. /\ up[n] \o (<<a>> \o <<Subscribe>>) = (up[n] \o <<a>>) \o <<Subscribe>>
          /\ up[n] \o (<<a>> \o <<>>) = up[n] \o <<a>>
          /\ up[n] \o <<a>> \in Seq(UpMessages)
      BY <1>1, <3>1
    <3>5. up'[n] = (up[n] \o <<a>>) \o <<Subscribe>> \/ up'[n] = up[n] \o <<a>>
      BY <3>2, <3>3, <3>4
    <3>6. NoUnsubscribe(up[n] \o <<a>>) => NoUnsubscribe(up[n])
      BY <1>1, <3>1, UnsubscribesPushed
    <3>7. PICK s : s = up[n] \o <<a>>
      OBVIOUS
    <3>8. NoUnsubscribe(s \o <<Subscribe>>) => NoUnsubscribe(s)
      BY <3>1, <3>4, <3>7, UnsubscribesPushed
    <3> QED
      BY <3>5, <3>6, <3>7, <3>8
  <2> QED
    BY <1>2, <2>1, <2>2
<1>5. PICK q \in Pages : /\ Leads(Page, down, q)
                         /\ Subscribed => q \in {ShownNow, Blank}
                         /\ Subscribed /\ Synced => q = ShownNow
  BY <1>1 DEF PageFollows
<1>6. PICK m : m = Head(down)
  OBVIOUS
<1>7. m \in DownMessages /\ Tail(down) \in Seq(DownMessages)
  BY <1>1, <1>2, <1>6, Taken
<1>8. Leads(After(Page, m), down', q)
  BY <1>1, <1>2, <1>5, <1>6, LeadsOn
<1>9. CASE active
  <2>1. Page' = After(Page, m)
    <3>1. CASE OnHello
      BY <1>6, <3>1 DEF OnHello, After, Page, display
    <3>2. CASE OnLifecycle
      BY <1>6, <1>9, <3>2 DEF OnLifecycle, NewContext, After, Page
    <3>3. CASE OnState
      BY <1>6, <1>9, <3>3 DEF OnState, SameContext, After, Page
    <3>4. CASE OnSnapshot
      BY <1>6, <1>9, <3>4 DEF OnSnapshot, After, Page
    <3>5. CASE OnAnswer
      BY <1>6, <3>5 DEF OnAnswer, After, Page
    <3> QED
      BY <3>1, <3>2, <3>3, <3>4, <3>5 DEF Receive
  <2>2. Leads(Page', down', q)
    BY <1>8, <2>1
  <2>3. Synced' => Synced
    BY <1>2, <1>4 DEF Synced
  <2> QED
    BY <1>3, <1>5, <2>2, <2>3 DEF PageFollows
<1>10. CASE ~active
  <2>1. Page = Blank
    BY <1>1, <1>10 DEF ControlsKnown, Page, Blank
  <2>2. Page' = Page
    BY <1>10 DEF Receive, OnHello, OnLifecycle, OnState, OnSnapshot, OnAnswer, Page, display
  <2>3. PICK r \in {q, Blank} : Leads(Blank, down', r)
    BY <1>2, <1>7, <1>8, LeadsAnew
  <2>4. Leads(Page', down', r) /\ r \in Pages
    BY <1>1, <1>5, <2>1, <2>2, <2>3, Shows
  <2>5. ~Synced'
    BY <1>2, <1>10 DEF Synced
  <2> QED
    BY <1>3, <1>5, <2>3, <2>4, <2>5 DEF PageFollows
<1> QED
  BY <1>9, <1>10

LEMMA GatewayKeepsPage ==
  ASSUME IInv, NEW c \in Sockets, ServerReceive(c) \/ ServerClose(c)
  PROVE  PageFollows'
<1>1. /\ TypeOK /\ InFlightTyped /\ ServiceAgrees /\ PageFollows /\ AckFirst
      /\ n \in Sockets /\ down \in Seq(DownMessages)
  BY DEF IInv, TypeOK, InFlightTyped
<1>2. /\ UNCHANGED <<active, n, socket, view, reading, session, meter, known, snapshot>>
      /\ client[c].open
  BY GatewayLeaves
<1>3. Page' = Page /\ ShownNow' = ShownNow
  BY <1>2 DEF Page, ShownNow, Shown
<1>4. PICK b : b = n
  OBVIOUS
<1>5. ASSUME Subscribed' PROVE Subscribed /\ (Synced' => Synced)
  <2>1. socket = "open" /\ client'[b].open /\ client'[b].ready /\ client'[b].subs
    BY <1>2, <1>4, <1>5 DEF Subscribed, Subscribers
  <2>2. CASE c # b
    <3>1. up'[b] = up[b] /\ client'[b] = client[b] /\ (b \in ignored' <=> b \in ignored)
      BY <1>1, <1>4, <2>2, OtherSockets
    <3> QED
      BY <1>1, <1>2, <1>4, <2>1, <3>1 DEF Subscribed, Subscribers, Synced
  <2>3. CASE c = b
    <3>1. ~ServerClose(b) /\ ~OnUnsubscribe(b)
      BY <1>1, <1>4, <2>1 DEF ServerClose, OnUnsubscribe, TypeOK
    <3>2. /\ ServerReceive(b) /\ up[b] # <<>> /\ up'[b] = Tail(up[b])
          /\ up[b] \in Seq(UpMessages)
      BY <1>1, <1>4, <2>3, <3>1 DEF ServerReceive, InFlightTyped
    <3>3. OnAck(b) \/ OnSubscribe(b) \/ OnRequest(b)
      BY <3>1, <3>2 DEF ServerReceive
    <3>4. /\ Head(up[b]).kind # "unsubscribe" /\ ignored' = ignored
          /\ client'[b].subs = client[b].subs
      <4>1. CASE OnAck(b)
        <5>1. client' = [client EXCEPT ![b].ready = TRUE]
          BY <4>1 DEF OnAck
        <5> QED
          BY <1>1, <1>4, <4>1, <5>1 DEF OnAck, TypeOK, history
      <4>2. CASE OnSubscribe(b) \/ OnRequest(b)
        BY <4>2 DEF OnSubscribe, OnRequest, history
      <4> QED
        BY <3>3, <4>1, <4>2
    <3>5. client[b].ready /\ client[b].open
      BY <1>1, <1>2, <1>4, <2>1, <2>3, <3>4 DEF AckFirst
    <3>6. NoUnsubscribe(up'[b]) => NoUnsubscribe(up[b])
      BY <3>2, <3>4, UnsubscribesTaken
    <3> QED
      BY <1>1, <1>2, <1>4, <2>1, <3>4, <3>5, <3>6 DEF Subscribed, Subscribers, Synced
  <2> QED
    BY <2>2, <2>3
<1>6. down' = down \/ \E id \in 1 .. MaxUses : down' = down \o Out({c}, Answer(id))
  <2>1. CASE ServerClose(c)
    BY <2>1 DEF ServerClose
  <2>2. CASE OnAck(c) \/ OnSubscribe(c) \/ OnUnsubscribe(c)
    BY <2>2 DEF OnAck, OnSubscribe, OnUnsubscribe
  <2>3. ASSUME OnRequest(c), up[c] # <<>>
        PROVE  down' = down \/ \E id \in 1 .. MaxUses : down' = down \o Out({c}, Answer(id))
    <3>1. PICK m : m = Head(up[c])
      OBVIOUS
    <3>2. m \in UpMessages
      BY <1>1, <2>3, <3>1, Taken DEF InFlightTyped
    <3>3. m.id \in 1 .. MaxUses
      BY <2>3, <3>1, <3>2 DEF OnRequest, UpMessages
    <3> QED
      BY <2>3, <3>1, <3>3 DEF OnRequest
  <2> QED
    BY <2>1, <2>2, <2>3 DEF ServerReceive
<1>7. PICK q \in Pages : /\ Leads(Page, down, q)
                         /\ Subscribed => q \in {ShownNow, Blank}
                         /\ Subscribed /\ Synced => q = ShownNow
  BY <1>1 DEF PageFollows
<1>8. Leads(Page, down', q)
  BY <1>1, <1>6, <1>7, ReplyShows
<1>9. Leads(Page', down', q)
  BY <1>3, <1>8
<1> QED
  BY <1>3, <1>5, <1>7, <1>9 DEF PageFollows

LEMMA RegistryKeepsPage ==
  ASSUME IInv, Registry
  PROVE  PageFollows'
<1>1. /\ TypeOK /\ InFlightTyped /\ ServiceAgrees /\ PageFollows /\ AckFirst
      /\ SocketsKnown /\ RegistryIsWanted /\ n \in Sockets /\ down \in Seq(DownMessages)
  BY DEF IInv, TypeOK, InFlightTyped
<1>2. UNCHANGED <<active, n, socket, view, reading, up, ignored>>
  BY RegistryLeaves
<1>3. Page' = Page /\ (Synced' <=> Synced)
  BY <1>2 DEF Page, Synced
<1>4. PICK b : b = n
  OBVIOUS
<1>5. PICK q \in Pages : /\ Leads(Page, down, q)
                         /\ Subscribed => q \in {ShownNow, Blank}
                         /\ Subscribed /\ Synced => q = ShownNow
  BY <1>1 DEF PageFollows
<1>6. down \o <<>> = down
  BY <1>1
<1>7. CASE SettleStart
  <2>1. PICK c : c = Head(chain).by
    OBVIOUS
  <2>2. /\ chain # <<>> /\ Head(chain).want
        /\ client' = [client EXCEPT ![c].subs = client[c].open]
        /\ UNCHANGED <<session, meter, known, snapshot>>
        /\ down' = down \o (IF running THEN <<>> ELSE Out(Subscribers, Lifecycle("gone")))
                        \o Out({c}, InitialPublications)
    BY <1>7, <2>1 DEF SettleStart, Quiet, runtime
  <2>3. c \in Sockets /\ Awaiting(c)
    <3>1. Head(chain) = chain[1] /\ 1 \in DOMAIN chain /\ Head(chain) \in Transitions
      BY <1>1, <2>2, Taken DEF InFlightTyped
    <3> QED
      BY <2>1, <2>2, <3>1 DEF Transitions, Awaiting
  <2>4. ShownNow' = ShownNow
    BY <2>2 DEF ShownNow, Shown
  <2>5. running \/ Subscribers = {}
    BY <1>1 DEF RegistryIsWanted, HasSubscribers, Subscribers
  <2>6. (IF running THEN <<>> ELSE Out(Subscribers, Lifecycle("gone"))) = <<>>
    BY <2>5 DEF Out
  <2>7. down' = down \o Out({c}, InitialPublications)
    BY <1>6, <2>2, <2>6
  <2>8. CASE c # b
    <3>1. Out({c}, InitialPublications) = <<>> /\ client'[b] = client[b]
      BY <1>1, <1>4, <2>2, <2>8 DEF Out, TypeOK
    <3>2. (Subscribed' <=> Subscribed) /\ down' = down
      BY <1>2, <1>4, <1>6, <2>7, <3>1 DEF Subscribed, Subscribers
    <3> QED
      BY <1>1, <1>3, <2>4, <3>2, PageAsBefore
  <2>9. CASE c = b /\ socket # "open"
    <3>1. Out({c}, InitialPublications) = <<>>
      BY <2>9 DEF Out
    <3>2. ~Subscribed' /\ down' = down
      BY <1>2, <1>6, <2>7, <2>9, <3>1 DEF Subscribed
    <3> QED
      BY <1>1, <1>3, <3>2, PageAsBefore
  <2>10. CASE c = b /\ socket = "open"
    <3>1. Out({c}, InitialPublications) = Lifecycle(Shown) \o Snapshot(snapshot)
      BY <1>4, <2>10 DEF Out, InitialPublications
    <3>2. /\ Shown \in Settings \cup {"gone"} /\ Lifecycle(Shown) \in Seq(DownMessages)
          /\ Snapshot(snapshot) \in Seq(DownMessages)
      BY <1>1, MessagesTyped
    <3>3. /\ down' = (down \o Lifecycle(Shown)) \o Snapshot(snapshot)
          /\ down \o Lifecycle(Shown) \in Seq(DownMessages)
      <4>1. \A a, d \in Seq(DownMessages) :
              down \o (a \o d) = (down \o a) \o d /\ down \o a \in Seq(DownMessages)
        BY <1>1
      <4> QED
        BY <2>7, <3>1, <3>2, <4>1
    <3> DEFINE r == [view |-> Shown, reading |-> NoSnapshot]
    <3>4. Leads(Page, down \o Lifecycle(Shown), r)
      BY <1>1, <1>5, <3>2, LifecycleShows
    <3>5. Leads(Page, down', ShownNow)
      <4>1. CASE snapshot = NoSnapshot
        <5>1. /\ Snapshot(snapshot) = <<>> /\ r = ShownNow
              /\ (down \o Lifecycle(Shown)) \o <<>> = down \o Lifecycle(Shown)
          BY <3>3, <4>1 DEF Snapshot, ShownNow, NoSnapshot
        <5> QED
          BY <3>3, <3>4, <5>1
      <4>2. CASE snapshot # NoSnapshot
        <5>1. /\ session /\ Shown = known /\ known \in Settings
              /\ Labelled(snapshot, known)
          BY <1>1, <4>2 DEF ServiceAgrees, Shown, TypeOK
        <5>2. r.view = known
          BY <5>1
        <5> HIDE DEF r
        <5>3. Leads(Page, (down \o Lifecycle(Shown)) \o Snapshot(snapshot),
                    [view |-> known, reading |-> snapshot])
          BY <3>3, <3>4, <4>2, <5>1, <5>2, SnapshotShows
        <5>4. ShownNow = [view |-> known, reading |-> snapshot]
          BY <5>1 DEF ShownNow
        <5> QED
          BY <3>3, <5>3, <5>4
      <4> QED
        BY <4>1, <4>2
    <3>6. Leads(Page', down', ShownNow') /\ ShownNow' \in Pages
      BY <1>1, <1>3, <2>4, <3>5, Shows
    <3> QED
      BY <3>6 DEF PageFollows
  <2> QED
    BY <2>8, <2>9, <2>10
<1>8. CASE BeginStop
  <2>1. /\ chain # <<>> /\ ~Head(chain).want /\ client' = client
        /\ down' = down \o Out(Subscribers, Lifecycle("gone"))
    BY <1>8 DEF BeginStop, Quiet
  <2>2. Head(chain) = chain[1] /\ 1 \in DOMAIN chain
    BY <1>1, <2>1, Taken DEF InFlightTyped
  <2>3. Subscribers = {}
    BY <1>1, <2>1, <2>2 DEF RegistryIsWanted, HasSubscribers, Subscribers
  <2>4. down' = down /\ ~Subscribed'
    BY <1>2, <1>6, <2>1, <2>3 DEF Out, Subscribed, Subscribers
  <2> QED
    BY <1>1, <1>3, <2>4, PageAsBefore
<1>9. CASE StopDone
  <2>1. UNCHANGED <<down, client, session, meter, known, snapshot>>
    BY <1>9 DEF StopDone, runtime
  <2>2. (Subscribed' <=> Subscribed) /\ ShownNow' = ShownNow
    BY <1>2, <2>1 DEF Subscribed, Subscribers, ShownNow, Shown
  <2> QED
    BY <1>1, <1>3, <2>1, <2>2, PageAsBefore
<1> QED
  BY <1>7, <1>8, <1>9 DEF Registry

LEMMA ServiceKeepsPage ==
  ASSUME IInv, Meter \/ FinishRequest
  PROVE  PageFollows'
<1>1. /\ TypeOK /\ InFlightTyped /\ ServiceAgrees /\ PageFollows
      /\ n \in Sockets /\ down \in Seq(DownMessages) /\ {meter, known} \subseteq Settings
  BY DEF IInv, TypeOK, InFlightTyped
<1>2. UNCHANGED <<active, n, socket, view, reading, up, ignored, client>>
  BY ServiceLeaves
<1>3. Page' = Page /\ (Synced' <=> Synced) /\ (Subscribed' <=> Subscribed)
  BY <1>2 DEF Page, Synced, Subscribed, Subscribers
<1>4. PICK q \in Pages : /\ Leads(Page, down, q)
                         /\ Subscribed => q \in {ShownNow, Blank}
                         /\ Subscribed /\ Synced => q = ShownNow
  BY <1>1 DEF PageFollows
<1>5. \A msgs : Out(Subscribers, msgs) = IF Subscribed THEN msgs ELSE <<>>
  BY DEF Out, Subscribed
<1>6. down \o <<>> = down
  BY <1>1
<1>7. ASSUME NEW r, Leads(Page, down', r), Subscribed => r \in {ShownNow', Blank},
             Subscribed /\ Synced => r = ShownNow'
      PROVE  PageFollows'
  <2>1. Leads(Page', down', r)
    BY <1>3, <1>7
  <2>2. InFlightTyped'
    BY ServiceStepsTyped
  <2>3. r \in Pages
    BY <1>7, <2>2, LeadsThroughCoherent DEF InFlightTyped, Coherent
  <2> QED
    BY <1>3, <1>7, <2>1, <2>3 DEF PageFollows
<1>8. ASSUME ~Subscribed, down' = down PROVE PageFollows'
  BY <1>4, <1>7, <1>8
<1>9. ASSUME NEW v \in Settings \cup {"gone"}, down' = down \o Out(Subscribers, Lifecycle(v)),
             ShownNow' = [view |-> v, reading |-> NoSnapshot]
      PROVE  PageFollows'
  <2>1. CASE ~Subscribed
    BY <1>5, <1>6, <1>8, <1>9, <2>1
  <2>2. CASE Subscribed
    <3>1. Leads(Page, down \o Lifecycle(v), [view |-> v, reading |-> NoSnapshot])
      BY <1>1, <1>4, LifecycleShows
    <3>2. Leads(Page, down', ShownNow')
      BY <1>5, <1>9, <2>2, <3>1
    <3> QED
      BY <1>7, <3>2
  <2> QED
    BY <2>1, <2>2
<1>10. CASE SessionUp
  <2>1. session' = TRUE /\ ~session /\ known' = meter /\ snapshot' = snapshot
        /\ down' = down \o Out(Subscribers, Lifecycle(meter))
    BY <1>10 DEF SessionUp
  <2>2. snapshot = NoSnapshot
    BY <1>1, <2>1 DEF ServiceAgrees
  <2>3. ShownNow' = [view |-> meter, reading |-> NoSnapshot]
    BY <2>1, <2>2 DEF ShownNow, Shown
  <2> QED
    BY <1>1, <1>9, <2>1, <2>3
<1>11. CASE SessionLost
  <2>1. session' = FALSE /\ down' = down \o Out(Subscribers, Lifecycle("gone"))
    BY <1>11 DEF SessionLost, SessionEnds
  <2>2. ShownNow' = [view |-> "gone", reading |-> NoSnapshot]
    BY <2>1 DEF ShownNow, Shown
  <2> QED
    BY <1>9, <2>1, <2>2
<1>12. CASE Reading
  <2> DEFINE new == Measured(meter)
  <2>1. /\ session /\ session' = session /\ known' = known /\ snapshot' = new
        /\ down' = down \o Out(Subscribers, Snapshot(new))
        /\ Function[meter] = Function[known]
    BY <1>12 DEF Reading
  <2>2. Labelled(new, known) /\ new # NoSnapshot
    <3>1. new.of # NoSnapshot.of
      BY <1>1, BrowserAssumption DEF Measured, NoSnapshot
    <3> QED
      BY <1>1, <2>1, <3>1, BrowserAssumption DEF Measured, Snapshots, Labelled
  <2>3. ShownNow' = [view |-> known, reading |-> new]
    BY <2>1 DEF ShownNow, Shown
  <2>4. CASE ~Subscribed
    BY <1>5, <1>6, <1>8, <2>1, <2>4
  <2>5. CASE Subscribed /\ q = ShownNow
    <3>1. q.view = known
      BY <2>1, <2>5 DEF ShownNow, Shown
    <3> HIDE DEF new
    <3>2. Leads(Page, down \o Snapshot(new), [view |-> known, reading |-> new])
      BY <1>1, <1>4, <2>2, <3>1, SnapshotShows
    <3>3. Leads(Page, down', ShownNow')
      BY <1>5, <2>1, <2>3, <2>5, <3>2
    <3> QED
      BY <1>7, <3>3
  <2>6. CASE Subscribed /\ q = Blank /\ q # ShownNow
    <3> DEFINE m == [kind |-> "snapshot", snapshot |-> new]
    <3>1. new \in Snapshots
      BY <2>2 DEF Labelled
    <3>2. m \in DownMessages /\ m.kind # "lifecycle"
      BY <3>1 DEF DownMessages
    <3>3. Snapshot(new) \in {<<>>, <<m>>}
      BY DEF Snapshot
    <3> HIDE DEF m, new
    <3>4. Leads(Page, down \o <<m>>, Blank)
      BY <1>1, <1>4, <2>6, <3>2, BlankStays
    <3>5. Leads(Page, down', Blank)
      BY <1>4, <1>5, <1>6, <2>1, <2>6, <3>3, <3>4
    <3>6. ~Synced
      BY <1>4, <2>6
    <3> QED
      BY <1>7, <3>5, <3>6
  <2> QED
    BY <1>4, <2>4, <2>5, <2>6
<1>13. ASSUME NEW s \in Settings, Observe(s), session, session' = session
       PROVE  ShownNow' = NowAt(s)
  <2>1. known' = s
    BY <1>13 DEF Observe
  <2>2. snapshot' = IF s = known THEN snapshot ELSE OldSnapshot(s)
    BY <1>13 DEF Observe
  <2> QED
    BY <1>13, <2>1, <2>2 DEF ShownNow, Shown, NowAt
<1>14. ASSUME NEW s \in Settings, session
       PROVE  \E r : /\ Leads(Page, down \o Out(Subscribers, Published(s)), r)
                     /\ Subscribed => r \in {NowAt(s), Blank}
                     /\ Subscribed /\ Synced => r = NowAt(s)
  <2>1. CASE ~Subscribed
    <3>1. down \o Out(Subscribers, Published(s)) = down
      BY <1>5, <1>6, <2>1
    <3> QED
      BY <1>4, <2>1, <3>1
  <2>2. CASE Subscribed
    <3>1. q \in {ShownNow, Blank} /\ (Synced => q = ShownNow)
      BY <1>4, <2>2
    <3>2. PICK r : /\ Leads(Page, down \o Published(s), r)
                   /\ r \in {NowAt(s), Blank}
                   /\ q = ShownNow => r = NowAt(s)
      BY <1>1, <1>4, <1>14, <3>1, PublishedShows
    <3>3. down \o Out(Subscribers, Published(s)) = down \o Published(s)
      BY <1>5, <2>2
    <3> QED
      BY <3>1, <3>2, <3>3
  <2> QED
    BY <2>1, <2>2
<1>15. ASSUME NEW s \in PanelSettings, Turned(s) PROVE PageFollows'
  <2>1. UNCHANGED <<session, known, snapshot, down>>
    BY <1>15 DEF Turned
  <2>2. ShownNow' = ShownNow
    BY <2>1 DEF ShownNow, Shown
  <2> QED
    BY <1>1, <1>3, <2>1, <2>2, PageAsBefore
<1>17. CASE Poll
  <2>1. /\ meter \in Settings /\ Observe(meter) /\ session /\ session' = session
        /\ down' = down \o Out(Subscribers, Published(meter))
    BY <1>1, <1>17 DEF Poll
  <2>2. PICK r : /\ Leads(Page, down \o Out(Subscribers, Published(meter)), r)
                 /\ Subscribed => r \in {NowAt(meter), Blank}
                 /\ Subscribed /\ Synced => r = NowAt(meter)
    BY <1>14, <2>1
  <2>3. ShownNow' = NowAt(meter)
    BY <1>13, <2>1
  <2> QED
    BY <1>7, <2>1, <2>2, <2>3
<1>16. CASE FinishRequest
  <2>1. PICK j : j = Head(jobs)
    OBVIOUS
  <2>2. /\ jobs # <<>> /\ session' = session
        /\ \/ /\ j.live /\ Observe(j.to)
              /\ down' = down \o Out(Subscribers, Published(j.to)) \o Reply(j)
           \/ down' = down \o Reply(j) /\ UNCHANGED <<known, snapshot>>
    BY <1>16, <2>1 DEF FinishRequest
  <2>3. j \in Jobs /\ j = jobs[1] /\ 1 \in DOMAIN jobs
    BY <1>1, <2>1, <2>2, Taken DEF InFlightTyped
  <2>4. j.to \in Settings /\ j.id \in 1 .. MaxUses /\ Reply(j) = Out({j.by}, Answer(j.id))
    BY <2>3 DEF Jobs, Reply
  <2>5. CASE down' = down \o Reply(j) /\ UNCHANGED <<known, snapshot>>
    <3>1. Leads(Page, down', q)
      BY <1>1, <1>4, <2>4, <2>5, ReplyShows
    <3>2. ShownNow' = ShownNow
      BY <2>2, <2>5 DEF ShownNow, Shown
    <3> QED
      BY <1>4, <1>7, <3>1, <3>2
  <2>6. CASE /\ j.live /\ Observe(j.to)
             /\ down' = down \o Out(Subscribers, Published(j.to)) \o Reply(j)
    <3>1. session
      BY <1>1, <2>3, <2>6 DEF ServiceAgrees
    <3>2. PICK r : /\ Leads(Page, down \o Out(Subscribers, Published(j.to)), r)
                   /\ Subscribed => r \in {NowAt(j.to), Blank}
                   /\ Subscribed /\ Synced => r = NowAt(j.to)
      BY <1>14, <2>4, <3>1
    <3>3. ShownNow' = NowAt(j.to)
      BY <1>13, <2>2, <2>4, <2>6, <3>1
    <3>4. down \o Out(Subscribers, Published(j.to)) \in Seq(DownMessages)
      BY <1>1, <2>4, PublishedTyped, OutTyped
    <3>5. Leads(Page, down', r)
      BY <2>4, <2>6, <3>2, <3>4, ReplyShows
    <3> QED
      BY <1>7, <3>2, <3>3, <3>5
  <2> QED
    BY <2>2, <2>5, <2>6
<1> QED
  BY <1>10, <1>11, <1>12, <1>15, <1>16, <1>17 DEF Meter

LEMMA PageFollowsKept ==
  ASSUME IInv, [Next]_vars
  PROVE  PageFollows'
<1>1. CASE UNCHANGED vars
  <2>1. /\ UNCHANGED <<active, n, socket, view, reading, up, down, ignored, client>>
        /\ UNCHANGED <<session, meter, known, snapshot>>
    BY <1>1, Stutters
  <2>2. /\ Page' = Page /\ (Synced' <=> Synced) /\ (Subscribed' <=> Subscribed)
        /\ ShownNow' = ShownNow
    BY <2>1 DEF Page, Synced, Subscribed, Subscribers, ShownNow, Shown
  <2> QED
    BY <2>1, <2>2, PageAsBefore DEF IInv
<1> QED
  BY <1>1, UserKeepsPage, SocketKeepsPage, ReceiveKeepsPage, GatewayKeepsPage,
     RegistryKeepsPage, ServiceKeepsPage DEF Next, Faults, Gateway

-----------------------------------------------------------------------------
(* The theorems.                                                           *)

LEMMA InvariantHolds == Spec => []IInv
<1>1. IInv /\ [Next]_vars => IInv'
  BY TypesKept, SocketsInTurnKept, SocketsKnownKept, AckFirstKept, RouteIsAskedKept,
     RegistryIsWantedKept, ServiceAgreesKept, ControlsKnownKept, PageFollowsKept DEF IInv
<1> QED
  BY <1>1, InitIInv, PTL DEF Spec

(* Every variable holds a value of its kind: in particular no socket is    *)
(* opened after the last, and no request is numbered beyond the bound.     *)
THEOREM TypeCorrect == Spec => []TypeOK
<1>1. IInv => TypeOK
  BY DEF IInv
<1> QED
  BY <1>1, InvariantHolds, PTL

(* When nothing is in flight, the page of a browser on the route shows the *)
(* connection, the state and the reading that the server has, whatever was *)
(* subscribed, published, lost and repeated before: the publications of    *)
(* dmm-websocket-adapter.ts leave no gap for dmm-store.                    *)
THEOREM ShownAlwaysAtRest == Spec => []ShownAtRest
<1>1. IInv => ShownAtRest
  <2> SUFFICES ASSUME IInv, AtRest, active, n \notin ignored
               PROVE  running /\ view = Shown
                      /\ reading = IF session THEN snapshot ELSE NoSnapshot
    BY DEF ShownAtRest
  <2>1. /\ socket = "open" /\ ready /\ down = <<>> /\ chain = <<>> /\ n \in Sockets
        /\ up[n] = <<>>
    BY DEF AtRest, IInv, TypeOK
  <2>2. Usable /\ NoAsks(up[n]) /\ ~Awaiting(n) /\ NoUnsubscribe(up[n])
    BY <2>1 DEF Usable, NoAsks, Awaiting, NoUnsubscribe
  <2>3. client[n].subs
    BY <2>2 DEF IInv, RouteIsAsked
  <2>4. client[n].ready /\ client[n].open
    BY <2>1, <2>3 DEF IInv, AckFirst
  <2>5. Subscribed /\ Synced
    BY <2>1, <2>2, <2>3, <2>4 DEF Subscribed, Subscribers, Synced
  <2>6. Leads(Page, <<>>, ShownNow)
    BY <2>1, <2>5 DEF IInv, PageFollows
  <2>7. Page = ShownNow
    BY <2>6, LeadsFromHere
  <2>8. running
    BY <2>1, <2>3, <2>4 DEF IInv, RegistryIsWanted, HasSubscribers
  <2> QED
    BY <2>7, <2>8 DEF Page, ShownNow
<1> QED
  BY <1>1, InvariantHolds, PTL

(* When nothing is in flight and the browser has left the route, the       *)
(* runtime does not run: every way of leaving, by unsubscribing or by the  *)
(* loss of the socket, stops what was started for it, unless it left while *)
(* its subscription awaited the start.                                     *)
THEOREM AlwaysStoppedWhenLeft == Spec => []StoppedWhenLeft
<1>1. IInv => StoppedWhenLeft
  <2> SUFFICES ASSUME IInv, AtRest, ~active, n \notin ignored, ~orphan, running PROVE FALSE
    BY DEF StoppedWhenLeft
  <2>1. /\ socket = "open" /\ ready /\ chain = <<>> /\ n \in Sockets /\ up[n] = <<>>
        /\ \A c \in Sockets : client[c].open => c = n
    BY DEF AtRest, IInv, TypeOK
  <2>2. Usable /\ NoAsks(up[n])
    BY <2>1 DEF Usable, NoAsks
  <2>3. ~client[n].subs
    BY <2>2 DEF IInv, RouteIsAsked
  <2>4. ~HasSubscribers(client)
    BY <2>1, <2>3 DEF HasSubscribers
  <2> QED
    BY <2>1, <2>4 DEF IInv, RegistryIsWanted
<1> QED
  BY <1>1, InvariantHolds, PTL

(* The page shows a reading only next to the function it was measured with *)
(* and the state it was published under, and as pending only the newest    *)
(* control that is still unanswered, in whatever order states, readings,   *)
(* contexts, answers and lost sockets come.                                *)
THEOREM PageAlwaysCoherent == Spec => []PageIsCoherent
<1>1. IInv => PageIsCoherent
  <2> SUFFICES ASSUME IInv PROVE PageIsCoherent
    OBVIOUS
  <2>1. PICK q \in Pages : Leads(Page, down, q)
    BY DEF IInv, PageFollows
  <2>2. Coherent(Page)
    BY <2>1, LeadsThroughCoherent DEF IInv, InFlightTyped
  <2>3. ReadingAsLabelled
    BY <2>2 DEF Coherent, Page, ReadingAsLabelled
  <2> QED
    BY <2>3 DEF IInv, ControlsKnown, PageIsCoherent
<1> QED
  BY <1>1, InvariantHolds, PTL
=============================================================================
