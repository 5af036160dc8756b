----------------------- MODULE InstrumentLifecycle_proofs -----------------------
(***************************************************************************)
(* What holds of the runtimes for any number of browsers and instruments,  *)
(* whatever the browsers ask for and however long a stop takes.            *)
(***************************************************************************)
EXTENDS InstrumentLifecycle, TLAPS, FiniteSetTheorems, SequenceTheorems

-----------------------------------------------------------------------------
(* The inductive invariant.                                                *)

\* The last transition of a chain is the state last asked for; without one the
\* runtime is in that state.
ChainEndsInLast ==
  \A i \in Instruments :
    IF chain[i] = <<>> THEN running[i] = last[i] ELSE chain[i][Len(chain[i])].want = last[i]

\* Once the runtimes are told to stop, no socket is there to ask for one.  Clients
\* are released by close() only when the server closes.
NobodyAsks ==
  /\ phase = "up" => unreleased = {}
  /\ phase \in {"stopping", "down"} => SocketsClosed /\ \A i \in Instruments : ~last[i]
  /\ phase = "down" =>
       loop = <<>> /\ unreleased = {} /\ \A i \in Instruments : chain[i] = <<>>

\* A client asks for its own instruments: in its subscriptions, in the chains,
\* and in the release loop.
Mine(i, e) ==
  /\ e.by.kind = "subscribe" => /\ e.want /\ e.by.instruments = {i}
                                /\ i \in visits[e.by.client] /\ socket[e.by.client] # "new"
  /\ e.by.kind = "release" => e.by.instruments \subseteq visits[e.by.client]

Asked ==
  /\ \A c \in Clients : subs[c] \subseteq visits[c] /\ (socket[c] = "new" => subs[c] = {})
  /\ loop # <<>> => loop[1].rest \subseteq visits[loop[1].client]
  /\ \A i \in Instruments : \A k \in 1 .. Len(chain[i]) : Mine(i, chain[i][k])

OneVisit == \A c \in Clients : Cardinality(visits[c]) <= 1

Subscribed(i) == \E c \in Clients : socket[c] = "open" /\ i \in subs[c]

\* While each browser visits one instrument, a stop is queued only when nothing
\* else is, and when nobody is subscribed; nobody is until it is done.
Alone(i) ==
  /\ Subscribed(i) => last[i]
  /\ chain[i] # <<>> /\ ~chain[i][1].want => ~Subscribed(i)
  /\ \A k \in 1 .. Len(chain[i]) :
       /\ k > 1 => chain[i][k].want
       /\ chain[i][k].by.kind = "release" => chain[i][k].by.instruments = {}

StopsAlone ==
  /\ loop # <<>> => \A i \in loop[1].rest : chain[i] = <<>>
  /\ \A i \in Instruments : Alone(i)

IInv ==
  /\ TypeOK /\ ChainEndsInLast /\ NobodyAsks /\ Asked
  /\ OneVisit /\ phase = "up" => StopsAlone

LEMMA InitIInv == Init => IInv
<1> SUFFICES ASSUME Init PROVE IInv
  OBVIOUS
<1>1. TypeOK
  <2>1. visits \in [Clients -> SUBSET Instruments] /\ 0 \in 0 .. MaxMessages
    BY LifecycleAssumption DEF Init
  <2> QED
    BY <2>1 DEF Init, TypeOK
<1>2. ChainEndsInLast /\ NobodyAsks /\ Asked /\ StopsAlone
  BY DEF Init, ChainEndsInLast, NobodyAsks, Asked, StopsAlone, Alone, Subscribed
<1> QED
  BY <1>1, <1>2 DEF IInv

-----------------------------------------------------------------------------
(* What is queued and what is done.                                        *)

Entry == [want : BOOLEAN, by : Callers]

\* One chain gets longer.
LEMMA QueueEffect ==
  ASSUME TypeOK, NEW i \in Instruments, NEW want \in BOOLEAN, NEW by \in Callers,
         Queue(i, want, by)
  PROVE  /\ UNCHANGED <<running, stopping>>
         /\ chain' \in [Instruments -> Seq(Entry)] /\ last' \in [Instruments -> BOOLEAN]
         /\ last'[i] = want /\ chain'[i] # <<>> /\ Len(chain'[i]) = Len(chain[i]) + 1
         /\ chain'[i][Len(chain[i]) + 1] = [want |-> want, by |-> by]
         /\ \A k \in 1 .. Len(chain[i]) : chain'[i][k] = chain[i][k]
         /\ chain[i] # <<>> => Head(chain'[i]) = Head(chain[i])
         /\ \A j \in Instruments : j # i => chain'[j] = chain[j] /\ last'[j] = last[j]
<1>1. chain[i] \in Seq(Entry) /\ [want |-> want, by |-> by] \in Entry
  BY DEF TypeOK, Entry
<1>2. chain'[i] = Append(chain[i], [want |-> want, by |-> by])
  BY DEF Queue, TypeOK
<1>3. chain'[i] \in Seq(Entry)
  BY <1>1, <1>2
<1>4. \A j \in Instruments : j # i => chain'[j] = chain[j] /\ last'[j] = last[j]
  BY DEF Queue, TypeOK
<1>5. chain' \in [Instruments -> Seq(Entry)] /\ last' \in [Instruments -> BOOLEAN] /\ last'[i] = want
  BY <1>3, <1>4 DEF Queue, TypeOK, Entry
<1>6. chain[i] # <<>> => Head(chain'[i]) = Head(chain[i])
  <2>1. chain[i] # <<>> => Len(chain[i]) >= 1
    BY <1>1, EmptySeq
  <2>2. chain[i] # <<>> => chain'[i][1] = chain[i][1]
    BY <1>1, <1>2, <2>1
  <2> QED
    BY <2>2
<1> QED
  BY <1>1, <1>2, <1>4, <1>5, <1>6 DEF Queue

\* One chain gets shorter, and its caller goes on.
LEMMA DoneEffect ==
  ASSUME TypeOK, NEW i \in Instruments, chain[i] # <<>>, Done(i)
  PROVE  /\ UNCHANGED <<socket, visits, messages, unreleased, phase, last>>
         /\ chain' \in [Instruments -> Seq(Entry)]
         /\ Len(chain[i]) \in Nat \ {0} /\ Len(chain'[i]) = Len(chain[i]) - 1
         /\ chain'[i] = <<>> <=> Len(chain[i]) = 1
         /\ \A k \in 1 .. Len(chain'[i]) : chain'[i][k] = chain[i][k + 1]
         /\ \A j \in Instruments : j # i => chain'[j] = chain[j]
         /\ Head(chain[i]) = chain[i][1] /\ chain[i][1] \in Entry
         /\ Resume(chain[i][1].by)
<1>1. chain[i] \in Seq(Entry)
  BY DEF TypeOK, Entry
<1>2. chain'[i] = Tail(chain[i])
  BY DEF Done, TypeOK
<1>3. chain'[i] \in Seq(Entry)
  BY <1>1, <1>2
<1>4. \A j \in Instruments : j # i => chain'[j] = chain[j]
  BY DEF Done, TypeOK
<1>5. chain' \in [Instruments -> Seq(Entry)]
  BY <1>3, <1>4 DEF Done, TypeOK, Entry
<1>6. Head(chain[i]) = chain[i][1] /\ chain[i][1] \in Entry
  BY <1>1
<1>7. Len(chain[i]) \in Nat \ {0} /\ Len(chain'[i]) = Len(chain[i]) - 1
  BY <1>1, <1>2
<1>8. chain'[i] = <<>> <=> Len(chain[i]) = 1
  <2>1. chain'[i] # <<>> => Len(chain'[i]) # 0
    BY <1>3, EmptySeq
  <2>2. chain'[i] = <<>> => Len(chain'[i]) = 0
    BY EmptySeq
  <2> QED
    BY <1>7, <2>1, <2>2
<1>9. \A k \in 1 .. Len(chain'[i]) : chain'[i][k] = chain[i][k + 1]
  BY <1>1, <1>2, <1>7
<1>10. UNCHANGED <<socket, visits, messages, unreleased, phase, last>> /\ Resume(chain[i][1].by)
  BY <1>6 DEF Done
<1> QED
  BY <1>4, <1>5, <1>6, <1>7, <1>8, <1>9, <1>10

\* The caller that goes on is typed.
LEMMA ResumeTyped ==
  ASSUME TypeOK, NEW by \in Callers, Resume(by)
  PROVE  /\ subs' \in [Clients -> SUBSET Instruments]
         /\ loop' \in Seq([client : Clients, rest : SUBSET Instruments]) /\ Len(loop') <= 1
<1>1. CASE by.kind = "subscribe"
  <2>1. by.client \in Clients /\ by.instruments \subseteq Instruments
    BY <1>1 DEF Callers
  <2>2. loop' = <<>>
    BY <1>1 DEF Resume
  <2> QED
    BY <1>1, <2>1, <2>2 DEF Resume, TypeOK
<1>2. CASE by.kind = "release"
  <2>1. [client |-> by.client, rest |-> by.instruments]
          \in [client : Clients, rest : SUBSET Instruments]
    BY <1>2 DEF Callers
  <2>2. loop' = <<[client |-> by.client, rest |-> by.instruments]>> /\ subs' = subs
    BY <1>2 DEF Resume
  <2> QED
    BY <2>1, <2>2 DEF TypeOK
<1>3. CASE by.kind \notin {"subscribe", "release"}
  BY <1>3 DEF Resume, TypeOK
<1> QED
  BY <1>1, <1>2, <1>3

-----------------------------------------------------------------------------
(* Every action keeps the invariant.                                       *)

\* A queued transition does not disturb one that runs.
LEMMA QueueTyped ==
  ASSUME TypeOK, NEW i \in Instruments, NEW want \in BOOLEAN, NEW by \in Callers,
         Queue(i, want, by)
  PROVE  /\ running' \in [Instruments -> BOOLEAN] /\ stopping' \in [Instruments -> BOOLEAN]
         /\ last' \in [Instruments -> BOOLEAN]
         /\ chain' \in [Instruments -> Seq([want : BOOLEAN, by : Callers])]
         /\ \A j \in Instruments : stopping'[j] => /\ chain'[j] # <<>> /\ running'[j]
                                                   /\ ~Head(chain'[j]).want
<1>1. /\ chain' \in [Instruments -> Seq(Entry)] /\ last' \in [Instruments -> BOOLEAN]
      /\ running' = running /\ stopping' = stopping
  BY QueueEffect
<1>2. ASSUME NEW j \in Instruments, stopping[j] PROVE chain'[j] # <<>> /\ Head(chain'[j]) = Head(chain[j])
  <2>1. chain[j] # <<>>
    BY <1>2 DEF TypeOK
  <2>2. CASE j = i
    BY <2>1, <2>2, QueueEffect
  <2>3. CASE j # i
    <3>1. chain'[j] = chain[j]
      BY <2>3, QueueEffect
    <3> QED
      BY <2>1, <3>1
  <2> QED
    BY <2>2, <2>3
<1> QED
  BY <1>1, <1>2 DEF TypeOK, Entry

\* A transition that is queued is the last one asked for.
LEMMA QueueEndsInLast ==
  ASSUME IInv, NEW i \in Instruments, NEW want \in BOOLEAN, NEW by \in Callers,
         Queue(i, want, by)
  PROVE  ChainEndsInLast'
<1> SUFFICES ASSUME NEW j \in Instruments
             PROVE  IF chain'[j] = <<>> THEN running'[j] = last'[j]
                    ELSE chain'[j][Len(chain'[j])].want = last'[j]
  BY DEF ChainEndsInLast
<1> USE DEF IInv
<1>1. CASE j = i
  <2>1. chain'[i] # <<>> /\ chain'[i][Len(chain'[i])] = [want |-> want, by |-> by]
    BY QueueEffect
  <2>2. last'[i] = want
    BY QueueEffect
  <2> QED
    BY <1>1, <2>1, <2>2
<1>2. CASE j # i
  <2>1. chain'[j] = chain[j] /\ last'[j] = last[j] /\ running'[j] = running[j]
    BY <1>2, QueueEffect
  <2> QED
    BY <2>1 DEF ChainEndsInLast
<1> QED
  BY <1>1, <1>2

\* So it is when the first of a chain is done.
LEMMA DoneEndsInLast ==
  ASSUME IInv, NEW i \in Instruments, chain[i] # <<>>, Done(i),
         running' = [running EXCEPT ![i] = chain[i][1].want]
  PROVE  ChainEndsInLast'
<1> SUFFICES ASSUME NEW j \in Instruments
             PROVE  IF chain'[j] = <<>> THEN running'[j] = last'[j]
                    ELSE chain'[j][Len(chain'[j])].want = last'[j]
  BY DEF ChainEndsInLast
<1> USE DEF IInv
<1>1. CASE j = i
  <2>1. chain[i][Len(chain[i])].want = last[i] /\ last'[i] = last[i]
    BY DoneEffect DEF ChainEndsInLast
  <2>2. CASE chain'[i] = <<>>
    <3>1. running'[i] = chain[i][Len(chain[i])].want
      BY <2>2, DoneEffect DEF TypeOK
    <3> QED
      BY <1>1, <2>1, <2>2, <3>1
  <2>3. CASE chain'[i] # <<>>
    <3>1. Len(chain[i]) > 1
      BY <2>3, DoneEffect
    <3>2. chain'[i][Len(chain'[i])] = chain[i][Len(chain[i])]
      BY <3>1, DoneEffect
    <3> QED
      BY <1>1, <2>1, <2>3, <3>2
  <2> QED
    BY <2>2, <2>3
<1>2. CASE j # i
  <2>1. chain'[j] = chain[j] /\ last'[j] = last[j] /\ running'[j] = running[j]
    BY <1>2, DoneEffect DEF TypeOK
  <2> QED
    BY <2>1 DEF ChainEndsInLast
<1> QED
  BY <1>1, <1>2

\* Requests that are made are not affected by what the sockets do.
LEMMA MineStays ==
  ASSUME TypeOK, visits' = visits, \A c \in Clients : socket[c] # "new" => socket'[c] # "new",
         NEW i \in Instruments, NEW e \in Entry, Mine(i, e)
  PROVE  Mine(i, e)'
<1>1. e.by.kind \in {"subscribe", "release"} => e.by.client \in Clients
  BY DEF Entry, Callers
<1> QED
  BY <1>1 DEF Mine

LEMMA QueueAsked ==
  ASSUME IInv, NEW i \in Instruments, NEW want \in BOOLEAN, NEW by \in Callers,
         Queue(i, want, by), visits' = visits, socket' = socket, Mine(i, [want |-> want, by |-> by])
  PROVE  \A j \in Instruments : \A k \in 1 .. Len(chain'[j]) : Mine(j, chain[j][k])'
<1> SUFFICES ASSUME NEW j \in Instruments, NEW k \in 1 .. Len(chain'[j])
             PROVE  Mine(j, chain[j][k])'
  OBVIOUS
<1> USE DEF IInv
<1>1. CASE j = i /\ k = Len(chain[i]) + 1
  <2>1. chain'[i][k] = [want |-> want, by |-> by]
    BY <1>1, QueueEffect
  <2> QED
    BY <1>1, <2>1 DEF Mine
<1>2. CASE j = i /\ k # Len(chain[i]) + 1
  <2>1. k \in 1 .. Len(chain[i]) /\ chain'[i][k] = chain[i][k]
    <3>1. Len(chain[i]) \in Nat
      BY LenProperties DEF TypeOK
    <3> QED
      BY <1>2, <3>1, QueueEffect
  <2> QED
    BY <1>2, <2>1 DEF Mine, Asked
<1>3. CASE j # i
  <2>1. chain'[j] = chain[j]
    BY <1>3, QueueEffect
  <2> QED
    BY <1>3, <2>1 DEF Mine, Asked
<1> QED
  BY <1>1, <1>2, <1>3

LEMMA DoneAsked ==
  ASSUME IInv, NEW i \in Instruments, chain[i] # <<>>, Done(i)
  PROVE  Asked'
<1> USE DEF IInv
<1>1. \A j \in Instruments : \A k \in 1 .. Len(chain'[j]) : Mine(j, chain[j][k])'
  <2> SUFFICES ASSUME NEW j \in Instruments, NEW k \in 1 .. Len(chain'[j])
               PROVE  Mine(j, chain[j][k])'
    OBVIOUS
  <2>1. CASE j = i
    <3>1. k + 1 \in 1 .. Len(chain[i]) /\ chain'[i][k] = chain[i][k + 1]
      BY <2>1, DoneEffect
    <3> QED
      BY <2>1, <3>1, DoneEffect DEF Mine, Asked
  <2>2. CASE j # i
    <3>1. chain'[j] = chain[j]
      BY <2>2, DoneEffect
    <3> QED
      BY <2>2, <3>1, DoneEffect DEF Mine, Asked
  <2> QED
    BY <2>1, <2>2
<1>2. Mine(i, chain[i][1]) /\ chain[i][1].by \in Callers
  BY DoneEffect DEF Asked, Entry
<1>3. \A c \in Clients : subs'[c] \subseteq visits'[c] /\ (socket'[c] = "new" => subs'[c] = {})
  <2> SUFFICES ASSUME NEW c \in Clients
               PROVE  subs'[c] \subseteq visits'[c] /\ (socket'[c] = "new" => subs'[c] = {})
    OBVIOUS
  <2>1. UNCHANGED <<socket, visits>> /\ Resume(chain[i][1].by)
    BY DoneEffect
  <2>2. subs'[c] = subs[c] \/ (chain[i][1].by.kind = "subscribe" /\ chain[i][1].by.client = c
                               /\ subs'[c] = subs[c] \cup chain[i][1].by.instruments)
    BY <1>2, <2>1 DEF Resume, Callers, TypeOK
  <2> QED
    BY <1>2, <2>1, <2>2 DEF Asked, Mine
<1>4. loop' # <<>> => loop'[1].rest \subseteq visits'[loop'[1].client]
  BY <1>2, DoneEffect DEF Resume, Mine
<1> QED
  BY <1>1, <1>3, <1>4 DEF Asked

LEMMA QueueAlone ==
  ASSUME IInv, StopsAlone, NEW i \in Instruments, NEW want \in BOOLEAN, NEW by \in Callers,
         Queue(i, want, by), by.kind = "release" => by.instruments = {},
         want \/ (chain[i] = <<>> /\ ~Subscribed(i)'),
         \A j \in Instruments : Subscribed(j)' => Subscribed(j)
  PROVE  \A j \in Instruments : Alone(j)'
<1> SUFFICES ASSUME NEW j \in Instruments PROVE Alone(j)'
  OBVIOUS
<1> USE DEF IInv
<1>1. CASE j = i
  <2>9. Len(chain[i]) \in Nat /\ (chain[i] = <<>> <=> Len(chain[i]) = 0)
    BY EmptySeq, LenProperties DEF TypeOK
  <2>1. Subscribed(i)' => last'[i]
    BY QueueEffect
  <2>2. ~chain'[i][1].want => ~Subscribed(i)'
    <3>1. CASE chain[i] = <<>>
      <4>1. chain'[i][1] = [want |-> want, by |-> by]
        BY <2>9, <3>1, QueueEffect
      <4> QED
        BY <3>1, <4>1
    <3>2. CASE chain[i] # <<>>
      <4>1. chain'[i][1] = chain[i][1]
        <5>1. 1 \in 1 .. Len(chain[i])
          BY <2>9, <3>2
        <5> QED
          BY <5>1, QueueEffect
      <4> QED
        BY <3>2, <4>1 DEF StopsAlone, Alone
    <3> QED
      BY <3>1, <3>2
  <2>3. ASSUME NEW k \in 1 .. Len(chain'[i])
        PROVE  /\ k > 1 => chain'[i][k].want
               /\ chain'[i][k].by.kind = "release" => chain'[i][k].by.instruments = {}
    <3>1. CASE k = Len(chain[i]) + 1
      <4>1. chain'[i][k] = [want |-> want, by |-> by]
        BY <3>1, QueueEffect
      <4> QED
        BY <2>9, <3>1, <4>1
    <3>2. CASE k # Len(chain[i]) + 1
      <4>1. k \in 1 .. Len(chain[i])
        <5>1. Len(chain'[i]) = Len(chain[i]) + 1
          BY QueueEffect
        <5> QED
          BY <2>9, <3>2, <5>1
      <4>2. chain'[i][k] = chain[i][k]
        BY <4>1, QueueEffect
      <4> QED
        BY <4>1, <4>2 DEF StopsAlone, Alone
    <3> QED
      BY <3>1, <3>2
  <2> QED
    BY <1>1, <2>1, <2>2, <2>3 DEF Alone
<1>2. CASE j # i
  <2>1. chain'[j] = chain[j] /\ last'[j] = last[j]
    BY <1>2, QueueEffect
  <2>2. Alone(j) /\ (Subscribed(j)' => Subscribed(j))
    BY DEF StopsAlone
  <2> QED
    BY <2>1, <2>2 DEF Alone
<1> QED
  BY <1>1, <1>2

LEMMA DoneAlone ==
  ASSUME IInv, StopsAlone, phase = "up", NEW i \in Instruments, chain[i] # <<>>, Done(i)
  PROVE  StopsAlone'
<1> USE DEF IInv
<1> DEFINE by == chain[i][1].by
<1>1. Alone(i) /\ Mine(i, chain[i][1]) /\ by \in Callers /\ Resume(by) /\ socket' = socket
  BY DoneEffect DEF StopsAlone, Asked, Entry
<1>2. by.kind = "release" => by.instruments = {}
  BY <1>1, DoneEffect DEF Alone
<1>3. loop' # <<>> => \A j \in loop'[1].rest : chain'[j] = <<>>
  BY <1>1, <1>2 DEF Resume
<1>4. ASSUME NEW j \in Instruments, j # i PROVE Subscribed(j)' => Subscribed(j)
  <2>1. \A c \in Clients : j \in subs'[c] => j \in subs[c]
    BY <1>1, <1>4 DEF Resume, Mine, Callers, TypeOK
  <2> QED
    BY <1>1, <2>1 DEF Subscribed
<1>5. Subscribed(i)' => last[i]
  <2>1. CASE by.kind = "subscribe"
    <3>1. chain[i][1].want
      BY <1>1, <2>1 DEF Mine
    <3>2. chain[i][Len(chain[i])].want
      BY <1>1, <3>1, DoneEffect DEF Alone
    <3> QED
      BY <3>2 DEF ChainEndsInLast
  <2>2. CASE by.kind # "subscribe"
    <3>1. subs' = subs
      BY <1>1, <2>2 DEF Resume
    <3> QED
      BY <1>1, <3>1 DEF Alone, Subscribed
  <2> QED
    BY <2>1, <2>2
<1>6. ASSUME NEW k \in 1 .. Len(chain'[i])
      PROVE  /\ chain'[i][k].want
             /\ chain'[i][k].by.kind = "release" => chain'[i][k].by.instruments = {}
  <2>1. k + 1 \in 1 .. Len(chain[i]) /\ chain'[i][k] = chain[i][k + 1] /\ k + 1 > 1
    BY DoneEffect
  <2> QED
    BY <1>1, <2>1 DEF Alone
<1>7. Alone(i)'
  <2>1. chain'[i] # <<>> => 1 \in 1 .. Len(chain'[i])
    BY DoneEffect
  <2> QED
    BY <1>5, <1>6, <2>1, DoneEffect DEF Alone
<1>8. ASSUME NEW j \in Instruments, j # i PROVE Alone(j)'
  <2>1. chain'[j] = chain[j] /\ last'[j] = last[j]
    BY <1>8, DoneEffect
  <2>2. Alone(j)
    BY DEF StopsAlone
  <2> QED
    BY <1>4, <1>8, <2>1, <2>2 DEF Alone
<1> QED
  BY <1>3, <1>7, <1>8 DEF StopsAlone

\* The sockets.
LEMMA ConnectKeeps ==
  ASSUME IInv, NEW c \in Clients, Connect(c)
  PROVE  IInv'
<1> USE DEF IInv, Connect, registry
<1>1. TypeOK'
  BY DEF TypeOK
<1>2. ChainEndsInLast'
  BY DEF ChainEndsInLast
<1>3. NobodyAsks'
  BY DEF NobodyAsks
<1>4. Asked'
  <2>1. \A i \in Instruments : \A k \in 1 .. Len(chain[i]) : Mine(i, chain[i][k])'
    <3> SUFFICES ASSUME NEW i \in Instruments, NEW k \in 1 .. Len(chain[i])
                 PROVE  Mine(i, chain[i][k])'
      OBVIOUS
    <3>1. chain[i][k] \in Entry
      BY ElementOfSeq DEF TypeOK, Entry
    <3>2. Mine(i, chain[i][k])
      BY DEF Asked
    <3>3. \A d \in Clients : socket[d] # "new" => socket'[d] # "new"
      BY DEF TypeOK
    <3>4. chain[i][k].by.kind = "subscribe" => chain[i][k].by.client \in Clients
      BY <3>1 DEF Entry, Callers
    <3> QED
      BY <3>2, <3>3, <3>4 DEF Mine
  <2>2. \A d \in Clients : socket'[d] = "new" => socket[d] = "new"
    BY DEF TypeOK
  <2> QED
    BY <2>1, <2>2 DEF Asked
<1>5. StopsAlone => StopsAlone'
  <2>1. subs[c] = {}
    BY DEF Asked
  <2>2. \A i \in Instruments : Subscribed(i)' => Subscribed(i)
    BY <2>1 DEF Subscribed, TypeOK
  <2> QED
    BY <2>2 DEF StopsAlone, Alone
<1> QED
  BY <1>1, <1>2, <1>3, <1>4, <1>5 DEF OneVisit

LEMMA SubscribeKeeps ==
  ASSUME IInv, NEW c \in Clients, NEW i \in Instruments, SubscribeClient(c, i)
  PROVE  IInv'
<1> USE DEF IInv, SubscribeClient, Message
<1>1. messages' \in 0 .. MaxMessages
  BY LifecycleAssumption DEF TypeOK
<1>2. CASE i \in subs[c]
  <2> USE <1>2 DEF registry
  <2>1. TypeOK'
    BY <1>1 DEF TypeOK
  <2>2. ChainEndsInLast' /\ NobodyAsks'
    BY DEF ChainEndsInLast, NobodyAsks, SocketsClosed
  <2>3. Asked'
    BY DEF Asked, Mine
  <2>4. StopsAlone => StopsAlone'
    BY DEF StopsAlone, Alone, Subscribed
  <2> QED
    BY <2>1, <2>2, <2>3, <2>4 DEF OneVisit
<1>3. CASE i \notin subs[c]
  <2> DEFINE by == Subscriber(c, i)
  <2>1. by \in Callers /\ Queue(i, TRUE, by) /\ by.kind = "subscribe" /\ by.client = c
        /\ by.instruments = {i} /\ TRUE \in BOOLEAN
    BY <1>3 DEF Subscriber, Callers
  <2> HIDE DEF by
  <2>2. TypeOK'
    BY <1>1, <2>1, QueueTyped DEF TypeOK
  <2>3. ChainEndsInLast'
    BY <2>1, QueueEndsInLast
  <2>4. NobodyAsks'
    BY DEF NobodyAsks, SocketsClosed
  <2>5. Asked'
    <3>1. Mine(i, [want |-> TRUE, by |-> by])
      BY <2>1 DEF Mine, TypeOK
    <3>2. \A j \in Instruments : \A k \in 1 .. Len(chain'[j]) : Mine(j, chain[j][k])'
      BY <2>1, <3>1, QueueAsked
    <3> QED
      BY <3>2 DEF Asked
  <2>6. phase = "up" /\ StopsAlone => StopsAlone'
    <3>1. \A j \in Instruments : Subscribed(j)' => Subscribed(j)
      BY DEF Subscribed
    <3>2. StopsAlone => \A j \in Instruments : Alone(j)'
      BY <2>1, <3>1, QueueAlone
    <3> QED
      BY <3>2 DEF StopsAlone, Quiet
  <2> QED
    BY <2>2, <2>3, <2>4, <2>5, <2>6 DEF OneVisit
<1> QED
  BY <1>2, <1>3

\* A client that leaves: the runtime is told to stop, or stays.
LEMMA StopKeeps ==
  ASSUME IInv, NEW i \in Instruments, NEW by \in Callers, StopIfUnused(i, subs', by),
         UNCHANGED <<socket, visits>>, \A c \in Clients : subs'[c] \subseteq subs[c],
         Mine(i, [want |-> FALSE, by |-> by])
  PROVE  /\ running' \in [Instruments -> BOOLEAN] /\ stopping' \in [Instruments -> BOOLEAN]
         /\ last' \in [Instruments -> BOOLEAN]
         /\ chain' \in [Instruments -> Seq([want : BOOLEAN, by : Callers])]
         /\ \A j \in Instruments : stopping'[j] => /\ chain'[j] # <<>> /\ running'[j]
                                                   /\ ~Head(chain'[j]).want
         /\ ChainEndsInLast' /\ \A j \in Instruments : last'[j] => last[j]
         /\ \A j \in Instruments : \A k \in 1 .. Len(chain'[j]) : Mine(j, chain[j][k])'
         /\ \A j \in Instruments : j # i => chain'[j] = chain[j]
         /\ /\ StopsAlone /\ chain[i] = <<>>
            /\ by.kind = "release" => by.instruments = {}
            => \A j \in Instruments : Alone(j)'
<1> USE DEF IInv
<1>1. \A j \in Instruments : Subscribed(j)' => Subscribed(j)
  BY DEF Subscribed
<1>2. CASE HasSubscribers(i, subs')
  <2>1. UNCHANGED registry
    BY <1>2 DEF StopIfUnused
  <2> USE <2>1 DEF registry
  <2>2. StopsAlone => \A j \in Instruments : Alone(j)'
    BY <1>1 DEF StopsAlone, Alone
  <2>3. \A j \in Instruments : \A k \in 1 .. Len(chain'[j]) : Mine(j, chain[j][k])'
    BY DEF Asked, Mine
  <2>4. ChainEndsInLast'
    BY DEF ChainEndsInLast
  <2> QED
    BY <2>2, <2>3, <2>4 DEF TypeOK
<1>3. CASE ~HasSubscribers(i, subs')
  <2>1. Queue(i, FALSE, by) /\ FALSE \in BOOLEAN /\ ~Subscribed(i)'
    BY <1>3 DEF StopIfUnused, HasSubscribers, Subscribed
  <2>2. \A j \in Instruments : \A k \in 1 .. Len(chain'[j]) : Mine(j, chain[j][k])'
    BY <2>1, QueueAsked
  <2>3. ChainEndsInLast'
    BY <2>1, QueueEndsInLast
  <2>4. /\ StopsAlone /\ chain[i] = <<>>
        /\ by.kind = "release" => by.instruments = {}
        => \A j \in Instruments : Alone(j)'
    BY <1>1, <2>1, QueueAlone
  <2>5. /\ \A j \in Instruments : last'[j] => last[j]
        /\ \A j \in Instruments : j # i => chain'[j] = chain[j]
    BY <2>1, QueueEffect
  <2>6. /\ running' \in [Instruments -> BOOLEAN] /\ stopping' \in [Instruments -> BOOLEAN]
        /\ last' \in [Instruments -> BOOLEAN]
        /\ chain' \in [Instruments -> Seq([want : BOOLEAN, by : Callers])]
        /\ \A j \in Instruments : stopping'[j] => /\ chain'[j] # <<>> /\ running'[j]
                                                  /\ ~Head(chain'[j]).want
    BY <2>1, QueueTyped
  <2> QED
    BY <2>2, <2>3, <2>4, <2>5, <2>6
<1> QED
  BY <1>2, <1>3

\* While clients visit one instrument each, a subscription is of an instrument
\* at rest between two events.
LEMMA SubscribedAtRest ==
  ASSUME IInv, StopsAlone, Quiet, NEW i \in Instruments, Subscribed(i)
  PROVE  chain[i] = <<>>
BY DEF IInv, TypeOK, StopsAlone, Alone, Quiet, Immediate

LEMMA UnsubscribeKeeps ==
  ASSUME IInv, NEW c \in Clients, NEW i \in Instruments, UnsubscribeClient(c, i)
  PROVE  IInv'
<1> USE DEF IInv, UnsubscribeClient, Message
<1>1. messages' \in 0 .. MaxMessages
  BY LifecycleAssumption DEF TypeOK
<1>2. /\ subs' \in [Clients -> SUBSET Instruments]
      /\ \A d \in Clients : subs'[d] \subseteq subs[d]
  BY DEF TypeOK
<1>3. CASE i \in subs[c]
  <2>1. StopIfUnused(i, subs', Other) /\ Other \in Callers /\ Other.kind = "other"
    BY <1>3 DEF Other, Callers
  <2>2. Mine(i, [want |-> FALSE, by |-> Other])
    BY <2>1 DEF Mine
  <2>3. TypeOK'
    BY <1>1, <1>2, <2>1, <2>2, StopKeeps DEF TypeOK
  <2>4. ChainEndsInLast'
    BY <1>2, <2>1, <2>2, StopKeeps
  <2>5. NobodyAsks'
    <3>1. phase \notin {"stopping", "down"}
      BY <1>3 DEF NobodyAsks, SocketsClosed
    <3> QED
      BY <3>1 DEF NobodyAsks
  <2>6. Asked'
    <3>1. \A j \in Instruments : \A k \in 1 .. Len(chain'[j]) : Mine(j, chain[j][k])'
      BY <1>2, <2>1, <2>2, StopKeeps
    <3> QED
      BY <1>2, <3>1 DEF Asked
  <2>7. phase = "up" /\ StopsAlone => StopsAlone'
    <3>1. StopsAlone => chain[i] = <<>>
      BY <1>3, SubscribedAtRest DEF Subscribed
    <3>2. StopsAlone => \A j \in Instruments : Alone(j)'
      BY <1>2, <2>1, <2>2, <3>1, StopKeeps
    <3> QED
      BY <3>2 DEF StopsAlone, Quiet
  <2> QED
    BY <2>3, <2>4, <2>5, <2>6, <2>7 DEF OneVisit
<1>4. CASE i \notin subs[c]
  <2> USE <1>4 DEF registry
  <2>1. TypeOK'
    BY <1>1, <1>2 DEF TypeOK
  <2>2. ChainEndsInLast' /\ NobodyAsks'
    BY DEF ChainEndsInLast, NobodyAsks, SocketsClosed
  <2>3. Asked'
    BY <1>2 DEF Asked, Mine
  <2>4. StopsAlone => StopsAlone'
    BY <1>2 DEF StopsAlone, Alone, Subscribed
  <2> QED
    BY <2>1, <2>2, <2>3, <2>4 DEF OneVisit
<1> QED
  BY <1>3, <1>4

LEMMA CloseKeeps ==
  ASSUME IInv, NEW c \in Clients, Close(c)
  PROVE  IInv'
<1> USE DEF IInv, Close, registry
<1>1. TypeOK'
  <2>1. [client |-> c, rest |-> subs[c]] \in [client : Clients, rest : SUBSET Instruments]
    BY DEF TypeOK
  <2>2. loop' \in Seq([client : Clients, rest : SUBSET Instruments]) /\ Len(loop') <= 1
    BY <2>1
  <2>3. socket' \in [Clients -> {"new", "open", "closed"}]
    BY DEF TypeOK
  <2> QED
    BY <2>2, <2>3 DEF TypeOK
<1>2. ChainEndsInLast'
  BY DEF ChainEndsInLast
<1>3. NobodyAsks'
  BY DEF NobodyAsks, SocketsClosed, TypeOK
<1>4. Asked'
  <2>1. \A i \in Instruments : \A k \in 1 .. Len(chain[i]) : Mine(i, chain[i][k])'
    <3> SUFFICES ASSUME NEW i \in Instruments, NEW k \in 1 .. Len(chain[i])
                 PROVE  Mine(i, chain[i][k])'
      OBVIOUS
    <3>1. chain[i][k] \in Entry
      BY ElementOfSeq DEF TypeOK, Entry
    <3>2. Mine(i, chain[i][k])
      BY DEF Asked
    <3>3. \A d \in Clients : socket[d] # "new" => socket'[d] # "new"
      BY DEF TypeOK
    <3>4. chain[i][k].by.kind = "subscribe" => chain[i][k].by.client \in Clients
      BY <3>1 DEF Entry, Callers
    <3> QED
      BY <3>2, <3>3, <3>4 DEF Mine
  <2>2. \A d \in Clients : socket'[d] = "new" => socket[d] = "new"
    BY DEF TypeOK
  <2> QED
    BY <2>1, <2>2 DEF Asked
<1>5. StopsAlone => StopsAlone'
  <2>1. \A i \in Instruments : Subscribed(i)' => Subscribed(i)
    BY DEF Subscribed, TypeOK
  <2>2. StopsAlone => \A i \in subs[c] : chain[i] = <<>>
    BY SubscribedAtRest DEF Subscribed, TypeOK
  <2> QED
    BY <2>1, <2>2 DEF StopsAlone, Alone
<1> QED
  BY <1>1, <1>2, <1>3, <1>4, <1>5 DEF OneVisit

\* The release loop.
LEMMA LoopTyped ==
  ASSUME NEW c \in Clients, NEW S \in SUBSET Instruments,
         NEW l \in {<<>>, <<[client |-> c, rest |-> S]>>}
  PROVE  l \in Seq([client : Clients, rest : SUBSET Instruments]) /\ Len(l) <= 1
<1>1. CASE l = <<>>
  BY <1>1, EmptySeq
<1>2. CASE l = <<[client |-> c, rest |-> S]>>
  <2>1. [client |-> c, rest |-> S] \in [client : Clients, rest : SUBSET Instruments]
    OBVIOUS
  <2> QED
    BY <1>2, <2>1
<1> QED
  BY <1>1, <1>2

LEMMA ReleaseKeeps ==
  ASSUME IInv, Release
  PROVE  IInv'
<1> USE DEF IInv
<1> DEFINE c == loop[1].client
           rest == loop[1].rest
<1>1. loop # <<>> /\ c \in Clients /\ rest \subseteq Instruments /\ rest \subseteq visits[c]
      /\ UNCHANGED <<socket, visits, messages, unreleased, phase>>
  <2>1. loop # <<>> /\ loop \in Seq([client : Clients, rest : SUBSET Instruments])
    BY DEF Release, TypeOK
  <2>2. 1 \in 1 .. Len(loop)
    BY <2>1, EmptySeq
  <2>3. loop[1] \in [client : Clients, rest : SUBSET Instruments]
    BY <2>1, <2>2, ElementOfSeq
  <2> QED
    BY <2>1, <2>3 DEF Release, Asked
<1>2. CASE rest = {}
  <2>1. subs' = [subs EXCEPT ![c] = {}] /\ loop' = <<>> /\ UNCHANGED registry
    BY <1>2 DEF Release
  <2> USE <1>1, <2>1 DEF registry
  <2>2. TypeOK'
    <3>1. loop' \in Seq([client : Clients, rest : SUBSET Instruments]) /\ Len(loop') <= 1
      BY EmptySeq
    <3>2. subs' \in [Clients -> SUBSET Instruments]
      BY DEF TypeOK
    <3> HIDE DEF c, rest
    <3> QED
      BY <3>1, <3>2 DEF TypeOK
  <2>3. ChainEndsInLast' /\ NobodyAsks'
    BY DEF ChainEndsInLast, NobodyAsks, SocketsClosed
  <2>4. \A d \in Clients : subs'[d] \subseteq subs[d]
    BY DEF TypeOK
  <2>5. Asked'
    BY <2>4 DEF Asked, Mine
  <2>6. StopsAlone => StopsAlone'
    BY <2>4 DEF StopsAlone, Alone, Subscribed
  <2> QED
    BY <2>2, <2>3, <2>5, <2>6 DEF OneVisit
<1>3. CASE rest # {}
  <2>1. PICK i \in rest :
          /\ subs' = [subs EXCEPT ![c] = @ \ {i}]
          /\ StopIfUnused(i, [subs EXCEPT ![c] = @ \ {i}], ReleaseOf(c, rest \ {i}))
          /\ loop' = IF HasSubscribers(i, [subs EXCEPT ![c] = @ \ {i}])
                     THEN <<[client |-> c, rest |-> rest \ {i}]>> ELSE <<>>
    BY <1>3 DEF Release
  <2> DEFINE by == ReleaseOf(c, rest \ {i})
  <2>2. i \in Instruments /\ by \in Callers /\ StopIfUnused(i, subs', by)
        /\ by.kind = "release" /\ by.instruments = rest \ {i} /\ by.client = c
    BY <1>1, <2>1 DEF ReleaseOf, Callers
  <2>3. /\ subs' \in [Clients -> SUBSET Instruments]
        /\ \A d \in Clients : subs'[d] \subseteq subs[d]
    BY <1>1, <2>1 DEF TypeOK
  <2>4. loop' \in {<<>>, <<[client |-> c, rest |-> rest \ {i}]>>}
    BY <2>1
  <2> HIDE DEF by
  <2>5. Mine(i, [want |-> FALSE, by |-> by])
    BY <1>1, <2>2 DEF Mine
  <2>6. TypeOK'
    <3>1. loop' \in Seq([client : Clients, rest : SUBSET Instruments]) /\ Len(loop') <= 1
      <4>1. rest \ {i} \in SUBSET Instruments
        BY <1>1
      <4> HIDE DEF c, rest
      <4> QED
        BY <1>1, <2>4, <4>1, LoopTyped
    <3> QED
      BY <1>1, <2>2, <2>3, <2>5, <3>1, StopKeeps DEF TypeOK
  <2>7. ChainEndsInLast'
    BY <1>1, <2>2, <2>3, <2>5, StopKeeps
  <2>8. NobodyAsks'
    <3>1. \A j \in Instruments : last'[j] => last[j]
      BY <1>1, <2>2, <2>3, <2>5, StopKeeps
    <3>2. phase # "down"
      BY <1>1 DEF NobodyAsks
    <3> QED
      BY <1>1, <3>1, <3>2 DEF NobodyAsks, SocketsClosed, TypeOK
  <2>9. Asked'
    <3>1. \A j \in Instruments : \A k \in 1 .. Len(chain'[j]) : Mine(j, chain[j][k])'
      BY <1>1, <2>2, <2>3, <2>5, StopKeeps
    <3>2. loop' # <<>> => loop'[1].rest \subseteq visits[c] /\ loop'[1].client = c
      BY <1>1, <2>4
    <3> QED
      BY <1>1, <2>3, <3>1, <3>2 DEF Asked
  <2>10. ASSUME OneVisit, StopsAlone PROVE StopsAlone'
    <3>1. rest \ {i} = {}
      <4>1. IsFiniteSet(visits[c]) /\ Cardinality(visits[c]) <= 1
        <5>1. visits[c] \in SUBSET Instruments
          BY <1>1, LifecycleAssumption DEF TypeOK
        <5> QED
          BY <1>1, <2>10, <5>1, LifecycleAssumption, FS_Subset DEF OneVisit
      <4>2. i \in visits[c]
        BY <1>1, <2>1
      <4>3. visits[c] = {i}
        <5>1. Cardinality(visits[c]) \in Nat /\ Cardinality(visits[c]) # 0
          BY <4>1, <4>2, FS_EmptySet, FS_CardinalityType
        <5>2. Cardinality(visits[c]) = 1
          BY <4>1, <5>1
        <5>3. \E x : visits[c] = {x}
          BY <4>1, <5>2, FS_Singleton
        <5> QED
          BY <4>2, <5>3
      <4> QED
        BY <1>1, <4>3
    <3>2. chain[i] = <<>>
      BY <1>1, <2>1, <2>10 DEF StopsAlone
    <3>3. \A j \in Instruments : Alone(j)'
      BY <1>1, <2>2, <2>3, <2>5, <2>10, <3>1, <3>2, StopKeeps
    <3>4. loop' # <<>> => loop'[1].rest = {}
      BY <2>4, <3>1
    <3> QED
      BY <3>3, <3>4 DEF StopsAlone
  <2> QED
    BY <1>1, <2>6, <2>7, <2>8, <2>9, <2>10 DEF OneVisit
<1> QED
  BY <1>2, <1>3

\* The transitions.
LEMMA BeginStopKeeps ==
  ASSUME IInv, NEW i \in Instruments, BeginStop(i)
  PROVE  IInv'
<1> USE DEF IInv, BeginStop, gateway
<1>1. TypeOK'
  BY DEF TypeOK, Immediate
<1>2. ChainEndsInLast' /\ NobodyAsks'
  BY DEF ChainEndsInLast, NobodyAsks, SocketsClosed
<1>3. Asked'
  BY DEF Asked, Mine
<1>4. StopsAlone => StopsAlone'
  BY DEF StopsAlone, Alone, Subscribed
<1> QED
  BY <1>1, <1>2, <1>3, <1>4 DEF OneVisit

\* Done, whether the runtime is started, is left alone, or has stopped.
LEMMA DoneKeeps ==
  ASSUME IInv, NEW i \in Instruments, Settle(i) \/ StopDone(i)
  PROVE  IInv'
<1> USE DEF IInv
<1>1. /\ chain[i] # <<>> /\ Done(i)
      /\ running' = [running EXCEPT ![i] = chain[i][1].want]
      /\ stopping' \in [Instruments -> BOOLEAN] /\ ~stopping'[i]
      /\ \A j \in Instruments : j # i => stopping'[j] = stopping[j]
  <2>1. CASE Settle(i)
    BY <2>1 DEF Settle, Immediate, TypeOK
  <2>2. CASE StopDone(i)
    <3>1. chain[i] # <<>> /\ ~Head(chain[i]).want /\ Done(i)
      BY <2>2 DEF StopDone, TypeOK
    <3>2. chain[i][1].want = FALSE
      BY <3>1, DoneEffect DEF Entry
    <3> QED
      BY <2>2, <3>1, <3>2 DEF StopDone, TypeOK
  <2> QED
    BY <2>1, <2>2
<1>2. chain[i][1].by \in Callers /\ chain[i][1].want \in BOOLEAN
  BY <1>1, DoneEffect DEF Entry
<1>3. TypeOK'
  <2>1. running' \in [Instruments -> BOOLEAN] /\ \A j \in Instruments : j # i => running'[j] = running[j]
    BY <1>1, <1>2 DEF TypeOK
  <2>2. /\ subs' \in [Clients -> SUBSET Instruments]
        /\ loop' \in Seq([client : Clients, rest : SUBSET Instruments]) /\ Len(loop') <= 1
    BY <1>1, <1>2, DoneEffect, ResumeTyped
  <2>3. /\ chain' \in [Instruments -> Seq(Entry)]
        /\ \A j \in Instruments : j # i => chain'[j] = chain[j]
        /\ UNCHANGED <<socket, visits, messages, unreleased, phase, last>>
    BY <1>1, DoneEffect
  <2> QED
    BY <1>1, <2>1, <2>2, <2>3 DEF TypeOK, Entry
<1>4. ChainEndsInLast'
  BY <1>1, DoneEndsInLast
<1>5. NobodyAsks'
  <2>1. phase # "down"
    BY <1>1 DEF NobodyAsks
  <2> QED
    BY <1>1, <2>1, DoneEffect DEF NobodyAsks, SocketsClosed
<1>6. Asked'
  BY <1>1, DoneAsked
<1>7. phase = "up" /\ StopsAlone => StopsAlone'
  BY <1>1, DoneAlone
<1>8. UNCHANGED <<visits, phase>>
  BY <1>1, DoneEffect
<1> QED
  BY <1>3, <1>4, <1>5, <1>6, <1>7, <1>8 DEF OneVisit

\* The shutdown.
LEMMA ShutdownKeeps ==
  ASSUME IInv, Shutdown
  PROVE  IInv'
<1> USE DEF IInv, Shutdown, gateway, registry
<1>1. TypeOK' /\ ChainEndsInLast' /\ NobodyAsks'
  BY DEF TypeOK, ChainEndsInLast, NobodyAsks
<1>2. Asked'
  BY DEF Asked, Mine
<1> QED
  BY <1>1, <1>2

LEMMA ReleaseNextKeeps ==
  ASSUME IInv, NEW c \in Clients, ReleaseNext(c)
  PROVE  IInv'
<1> USE DEF IInv, ReleaseNext, gateway, registry
<1>1. TypeOK'
  <2>1. loop' \in Seq([client : Clients, rest : SUBSET Instruments]) /\ Len(loop') <= 1
    BY LoopTyped DEF TypeOK
  <2> QED
    BY <2>1 DEF TypeOK
<1>2. ChainEndsInLast' /\ NobodyAsks'
  BY DEF ChainEndsInLast, NobodyAsks, SocketsClosed
<1>3. Asked'
  BY DEF Asked, Mine
<1>4. phase = "up" /\ StopsAlone => StopsAlone'
  <2>1. phase = "up" => FALSE
    BY DEF NobodyAsks
  <2> QED
    BY <2>1
<1> QED
  BY <1>1, <1>2, <1>3, <1>4 DEF OneVisit

LEMMA StopAllKeeps ==
  ASSUME IInv, StopAll
  PROVE  IInv'
<1> USE DEF IInv, gateway
<1> DEFINE e == [want |-> FALSE, by |-> Other]
<1>1. e \in Entry /\ e.want = FALSE /\ e.by.kind = "other"
  BY DEF Other, Entry, Callers
<1> HIDE DEF e
<1>2. ASSUME NEW i \in Instruments
      PROVE  /\ chain'[i] = Append(chain[i], e) /\ chain'[i] \in Seq(Entry) /\ chain'[i] # <<>>
             /\ Len(chain[i]) \in Nat /\ Len(chain'[i]) = Len(chain[i]) + 1
             /\ chain'[i][Len(chain'[i])] = e
             /\ \A k \in 1 .. Len(chain[i]) : chain'[i][k] = chain[i][k]
             /\ stopping[i] => Head(chain'[i]) = Head(chain[i])
  <2>1. chain[i] \in Seq(Entry) /\ chain'[i] = Append(chain[i], e)
    BY DEF StopAll, TypeOK, Entry, e
  <2>2. Len(chain[i]) \in Nat /\ Len(chain'[i]) = Len(chain[i]) + 1 /\ chain'[i] \in Seq(Entry)
    BY <1>1, <2>1
  <2>3. \A k \in 1 .. Len(chain[i]) : chain'[i][k] = chain[i][k]
    BY <2>1
  <2>4. chain'[i][Len(chain'[i])] = e
    BY <2>1, <2>2
  <2>5. stopping[i] => Head(chain'[i]) = Head(chain[i])
    <3>1. stopping[i] => 1 \in 1 .. Len(chain[i])
      BY <2>1, EmptySeq DEF TypeOK
    <3> QED
      BY <2>3, <3>1
  <2> QED
    BY <2>1, <2>2, <2>3, <2>4, <2>5, EmptySeq
<1>3. UNCHANGED <<socket, subs, visits, messages, running, stopping, loop, unreleased>>
      /\ phase = "closing" /\ phase' = "stopping" /\ SocketsClosed
      /\ last' = [i \in Instruments |-> FALSE]
  BY DEF StopAll
<1>4. TypeOK'
  <2>1. chain' \in [Instruments -> Seq(Entry)]
    BY <1>2 DEF StopAll
  <2>2. \A i \in Instruments : stopping'[i] => /\ chain'[i] # <<>> /\ running'[i]
                                               /\ ~Head(chain'[i]).want
    BY <1>2, <1>3 DEF TypeOK
  <2> QED
    BY <1>3, <2>1, <2>2 DEF TypeOK, Entry
<1>5. ChainEndsInLast'
  BY <1>1, <1>2, <1>3 DEF ChainEndsInLast
<1>6. NobodyAsks'
  BY <1>3 DEF NobodyAsks, SocketsClosed
<1>7. Asked'
  <2>1. ASSUME NEW i \in Instruments, NEW k \in 1 .. Len(chain'[i])
        PROVE  Mine(i, chain[i][k])'
    <3>1. CASE k = Len(chain[i]) + 1
      BY <1>1, <1>2, <3>1 DEF Mine
    <3>2. CASE k # Len(chain[i]) + 1
      <4>1. k \in 1 .. Len(chain[i])
        BY <1>2, <3>2
      <4>2. chain'[i][k] = chain[i][k] /\ Mine(i, chain[i][k])
        BY <1>2, <4>1 DEF Asked
      <4> QED
        BY <1>3, <4>2 DEF Mine
    <3> QED
      BY <3>1, <3>2
  <2> QED
    BY <1>3, <2>1 DEF Asked
<1> QED
  BY <1>3, <1>4, <1>5, <1>6, <1>7

LEMMA DownKeeps ==
  ASSUME IInv, Down \/ UNCHANGED vars
  PROVE  IInv'
<1>1. UNCHANGED <<gateway, registry, loop, unreleased>>
  BY DEF Down, vars
<1> USE <1>1 DEF IInv, gateway, registry
<1>2. TypeOK' /\ ChainEndsInLast'
  BY DEF TypeOK, ChainEndsInLast, Down, vars
<1>3. NobodyAsks'
  BY DEF NobodyAsks, SocketsClosed, Down, vars, Quiet
<1>4. Asked'
  BY DEF Asked, Mine
<1>5. phase' = "up" => phase = "up"
  BY DEF Down, vars
<1>6. StopsAlone => StopsAlone'
  BY DEF StopsAlone, Alone, Subscribed
<1> QED
  BY <1>2, <1>3, <1>4, <1>5, <1>6 DEF OneVisit

LEMMA Invariance == Spec => []IInv
<1>1. IInv /\ [Next]_vars => IInv'
  <2> SUFFICES ASSUME IInv, [Next]_vars PROVE IInv'
    OBVIOUS
  <2>1. ASSUME NEW c \in Clients, Connect(c) PROVE IInv'
    BY <2>1, ConnectKeeps
  <2>2. ASSUME NEW c \in Clients, Close(c) PROVE IInv'
    BY <2>2, CloseKeeps
  <2>3. ASSUME NEW c \in Clients, NEW i \in Instruments, SubscribeClient(c, i) PROVE IInv'
    BY <2>3, SubscribeKeeps
  <2>4. ASSUME NEW c \in Clients, NEW i \in Instruments, UnsubscribeClient(c, i) PROVE IInv'
    BY <2>4, UnsubscribeKeeps
  <2>5. CASE Release
    BY <2>5, ReleaseKeeps
  <2>6. ASSUME NEW i \in Instruments, Settle(i) \/ StopDone(i) PROVE IInv'
    BY <2>6, DoneKeeps
  <2>7. ASSUME NEW i \in Instruments, BeginStop(i) PROVE IInv'
    BY <2>7, BeginStopKeeps
  <2>8. CASE Shutdown
    BY <2>8, ShutdownKeeps
  <2>9. ASSUME NEW c \in Clients, ReleaseNext(c) PROVE IInv'
    BY <2>9, ReleaseNextKeeps
  <2>10. CASE StopAll
    BY <2>10, StopAllKeeps
  <2>11. CASE Down \/ UNCHANGED vars
    BY <2>11, DownKeeps
  <2> QED
    BY <2>1, <2>2, <2>3, <2>4, <2>5, <2>6, <2>7, <2>8, <2>9, <2>10, <2>11
       DEF Next, SocketEvent, Transition, Closing
<1> QED
  BY <1>1, InitIInv, PTL DEF Spec

-----------------------------------------------------------------------------
(* The theorems.                                                           *)

\* Type invariant of the gateway and the registry.
THEOREM TypeCorrect == Spec => []TypeOK
<1>1. IInv => TypeOK
  BY DEF IInv
<1> QED
  BY <1>1, Invariance, PTL

\* A runtime at rest is as last asked, whatever overtook a slow stop, and as long
\* as every browser visits one instrument only, one that is subscribed to runs
\* (InstrumentRegistry, WebSocketGateway).
THEOREM RuntimesAreFollowed == Spec => []RuntimesFollow
<1>1. IInv => LastTransitionWins
  BY DEF IInv, ChainEndsInLast, LastTransitionWins, AtRest
<1>2. IInv => OneVisitKeptRunning
  <2> SUFFICES ASSUME IInv, OneVisit, NEW c \in Clients, NEW i \in Instruments,
                      phase = "up", socket[c] = "open", i \in subs[c], AtRest(i)
               PROVE  running[i]
    BY DEF OneVisitKeptRunning, OneVisit, SubscribedIsRunning
  <2>1. Subscribed(i) /\ Alone(i)
    BY DEF IInv, Subscribed, StopsAlone
  <2> QED
    BY <2>1 DEF IInv, Alone, ChainEndsInLast, AtRest
<1> QED
  BY <1>1, <1>2, Invariance, PTL DEF RuntimesFollow

\* A shutdown leaves no runtime running, whatever browsers asked for while their
\* sockets closed (server.ts, InstrumentRegistry.stopAll).
THEOREM ShutdownStopsAll == Spec => []ShutdownStops
<1>1. IInv => ShutdownStops
  BY DEF IInv, NobodyAsks, ChainEndsInLast, ShutdownStops
<1> QED
  BY <1>1, Invariance, PTL
=============================================================================
