------------------------- MODULE DmmSession_proofs -------------------------
(***************************************************************************)
(* What holds of the multimeter for any set of functions, ranges and       *)
(* controls and any number of events.                                      *)
(***************************************************************************)
EXTENDS DmmSession, TLAPS, SequenceTheorems

-----------------------------------------------------------------------------
(* The inductive invariant.                                                *)

\* Only a session that serves a running runtime is shown, and it is created
\* by the operation of a connection that was not given up.
SessionIs ==
  /\ session => loop = "serving" /\ running
  /\ connection # None => session
  /\ loop = "initial" /\ link => running

\* The operation that executes is its owner's, and the owner waits for it.
OwnerWaits ==
  op # None =>
    /\ op.who = "create" => loop = "initial"
    /\ op.who = "poller" => op.does = poller
    /\ op.who = "request" =>
         /\ line # <<>> /\ line[1].ready
         /\ op.does = IF line[1].stage = "write" THEN "write" ELSE "state"
    /\ op.does = "reading" => op.who = "poller"
    /\ op.does = "write" => op.who = "request"

\* A state read goes by the function it saw.
StateSeen == op # None /\ op.does = "state" /\ op.step # 1 => op.seen \in Functions

\* What a reading knows: without a turn of the panel the meter is as it was
\* seen, and as it measured; one turn spoils one of the two, and the reading
\* was still true if it is the one that was wanted.
ReadingKnows ==
  op # None /\ op.does = "reading" =>
    /\ op.step # 1 => op.seen \in Configs
    /\ op.step = 2 /\ op.turned = 0 => op.seen = Config(meter)
    /\ op.step \notin {1, 2} =>
         /\ op.by \in Configs
         /\ op.turned = 0 =>
              op.by = Config(meter) /\ (op.seen.fn = wanted => op.by = op.seen)
         /\ op.turned = 1 =>
              op.by = Config(meter) \/ (op.seen.fn = wanted => op.by = op.seen)

\* What the operation of a control knows: past its check the function is the
\* control's, and past the observation the range is the one it saw.
WriteKnows ==
  op # None /\ op.does = "write" =>
    /\ op.step \in DOMAIN Steps(Ctl)
    /\ op.step # 1 => Ctl.kind \in {"range", "rate"}
    /\ op.step # 1 /\ op.turned = 0 => meter.fn = Ctl.fn
    /\ op.step \notin {1, 2} =>
         /\ Ctl.kind = "rate" /\ Ctl.fn \in ByConfigure /\ op.seen \in Ranges
         /\ op.turned = 0 => op.seen = meter.range[Ctl.fn]

OpIs == OwnerWaits /\ StateSeen /\ ReadingKnows /\ WriteKnows

IInv == TypeOK /\ LabelIsTrue /\ ReadingIsFresh /\ SessionIs /\ OpIs

LEMMA InitIInv == Init => IInv
<1> SUFFICES ASSUME Init PROVE IInv
  OBVIOUS
<1> DEFINE r0 == CHOOSE r \in Ranges : TRUE
<1>1. r0 \in Ranges
  BY DmmAssumption
<1> HIDE DEF r0
<1>2. meter \in [fn : Functions, range : [Functions -> {r0}], odd : {{}}]
  BY DEF Init, r0
<1>3. meter \in Meters
  BY <1>1, <1>2 DEF Meters
<1>4. Config(meter) \in Configs /\ meter.fn \in Functions
  BY <1>3 DEF Meters, Config, Configs
<1>5. <<>> \in Seq([ctl : Controls, stage : {"queued", "check", "write", "readback"}, ready : BOOLEAN])
  BY EmptySeq
<1>6. TypeOK
  BY <1>3, <1>4, <1>5 DEF Init, TypeOK
<1> QED
  BY <1>6 DEF Init, IInv, LabelIsTrue, ReadingIsFresh, SessionIs, OpIs, OwnerWaits, StateSeen,
       ReadingKnows, WriteKnows

-----------------------------------------------------------------------------
(* What the steps have in common.                                          *)

Mutations == [ctl : Controls, stage : {"queued", "check", "write", "readback"}, ready : BOOLEAN]

\* The meter stays a meter, and only what was edited changes.
LEMMA EditsTyped ==
  ASSUME NEW m \in Meters, NEW e \in Edits(m)
  PROVE  e \in Meters
BY DEF Edits, Meters

LEMMA ConfigTyped ==
  ASSUME NEW m \in Meters
  PROVE  Config(m) \in Configs /\ m.fn \in Functions /\ \A f \in Functions : m.range[f] \in Ranges
BY DEF Config, Configs, Meters

\* The head of the line, and what becomes of it.
LEMMA HeadOfLine ==
  ASSUME TypeOK, line # <<>>
  PROVE  /\ line[1] \in Mutations /\ Ctl \in AllControls /\ Ctl \in Controls
         /\ Tail(line) \in Seq(Mutations)
         /\ \A st \in {"queued", "check", "write", "readback"}, b \in BOOLEAN :
              HeadTo(st, b) =>
                /\ line' \in Seq(Mutations) /\ line' # <<>>
                /\ line'[1].ctl = Ctl /\ line'[1].stage = st /\ line'[1].ready = b
<1>1. line \in Seq(Mutations) /\ Len(line) \in Nat /\ Len(line) >= 1
  BY EmptySeq DEF TypeOK, Mutations
<1>2. 1 \in 1 .. Len(line)
  BY <1>1
<1>3. line[1] \in Mutations
  BY <1>1, <1>2, ElementOfSeq
<1>4. Ctl \in AllControls /\ Ctl \in Controls
  BY <1>3, DmmAssumption DEF Mutations, Ctl
<1>5. Tail(line) \in Seq(Mutations)
  BY <1>1, HeadTailProperties
<1>6. ASSUME NEW st \in {"queued", "check", "write", "readback"}, NEW b \in BOOLEAN, HeadTo(st, b)
      PROVE  /\ line' \in Seq(Mutations) /\ line' # <<>>
             /\ line'[1].ctl = Ctl /\ line'[1].stage = st /\ line'[1].ready = b
  <2> DEFINE head == [ctl |-> Ctl, stage |-> st, ready |-> b]
  <2>1. head \in Mutations
    BY <1>4 DEF Mutations
  <2>2. line' = [line EXCEPT ![1] = head]
    BY <1>6 DEF HeadTo
  <2> HIDE DEF head
  <2>3. line' \in Seq(Mutations) /\ Len(line') = Len(line) /\ line'[1] = head
    BY <1>1, <1>2, <2>1, <2>2, ExceptSeq
  <2>4. line' # <<>>
    BY <1>1, <2>3, EmptySeq
  <2> QED
    BY <2>3, <2>4 DEF head
<1> QED
  BY <1>3, <1>4, <1>5, <1>6

\* A state is read by a typed query and stays in its types.
LEMMA StateTyped ==
  ASSUME IInv, StateRead
  PROVE  ReadState \in Configs /\ ReadState.fn \in Functions /\ op.seen \in Functions
<1>1. op.seen \in Functions
  BY DEF IInv, OpIs, StateSeen, StateRead
<1> QED
  BY <1>1, ConfigTyped DEF IInv, TypeOK, ReadState, Configs

LEMMA NoOperation == op' = None => OpIs'
BY DEF OpIs, OwnerWaits, StateSeen, ReadingKnows, WriteKnows

LEMMA SeenTyped ==
  /\ None \in Seen
  /\ \A f \in Functions : f \in Seen
  /\ \A c \in Configs : c \in Seen
  /\ \A r \in Ranges : r \in Seen
BY DEF Seen

\* What ReplaceState does to what is shown.
LEMMA ReplacedIsTyped ==
  ASSUME IInv, NEW s \in Configs, ReplaceState(s)
  PROVE  /\ store' = s /\ connection' \in {None} \cup Configs /\ outdated' \in BOOLEAN
         /\ snapshot' = snapshot \/ snapshot' = None \/ snapshot' = Unavailable(s.fn)
         /\ LabelIsTrue' /\ ReadingIsFresh'
         /\ connection' # None => session \/ connection' = connection
<1>1. s # None /\ s.fn \in Functions
  BY DmmAssumption DEF Configs
<1>2. CASE s # store /\ session
  <2>1. /\ connection' = s /\ outdated' = TRUE
        /\ snapshot' = None \/ snapshot' = Unavailable(s.fn)
    BY <1>2 DEF ReplaceState, AcceptState
  <2> QED
    BY <1>1, <1>2, <2>1 DEF ReplaceState, LabelIsTrue, ReadingIsFresh, Unavailable
<1>3. CASE ~(s # store /\ session)
  <2>1. UNCHANGED <<connection, snapshot, outdated>> /\ store' = s
    BY <1>3 DEF ReplaceState, service
  <2> QED
    BY <2>1 DEF IInv, TypeOK, LabelIsTrue, ReadingIsFresh
<1> QED
  BY <1>2, <1>3

LEMMA ShownKept ==
  ASSUME IInv, UNCHANGED <<service, outdated>>
  PROVE  LabelIsTrue' /\ ReadingIsFresh'
BY DEF IInv, LabelIsTrue, ReadingIsFresh, service

LEMMA DisconnectedShowsNothing ==
  ASSUME Disconnected
  PROVE  /\ LabelIsTrue' /\ ReadingIsFresh' /\ connection' = None /\ snapshot' = None
         /\ outdated' = FALSE
BY DEF Disconnected, LabelIsTrue, ReadingIsFresh

\* A reading that is accepted is one the meter was measured with, and labelled
\* with what is shown.
LEMMA ReadingAccepted ==
  ASSUME IInv, PollReading
  PROVE  /\ snapshot' \in {None} \cup [kind : {"Value"}, label : Configs, by : Configs, turned : 0 .. 2]
                                 \cup [kind : {"Unavailable"}, label : Functions]
         /\ outdated' \in BOOLEAN /\ UNCHANGED connection
         /\ LabelIsTrue' /\ ReadingIsFresh'
<1>1. CASE UNCHANGED <<service, outdated>>
  BY <1>1, ShownKept DEF IInv, TypeOK, service
<1>2. CASE /\ Coherent(Config(meter))
           /\ \E s \in Snapshots : AcceptSnapshot(s, op.seen.fn)
           /\ ~UNCHANGED <<service, outdated>>
  <2>1. PICK s \in Snapshots : AcceptSnapshot(s, op.seen.fn)
    BY <1>2
  <2>2. /\ session /\ connection # None /\ op.seen.fn = connection.fn
        /\ snapshot' = s /\ outdated' = FALSE /\ UNCHANGED connection
    BY <1>2, <2>1 DEF AcceptSnapshot
  <2>3. op \in Operations /\ op # None /\ op.does = "reading" /\ op.step = 3
    BY DEF PollReading, PollIs, IInv, TypeOK
  <2>4. /\ op.seen \in Configs /\ op.by \in Configs /\ op.turned \in 0 .. 2
        /\ op.turned = 0 => op.by = Config(meter) \/ (op.seen.fn = wanted => op.by = op.seen)
        /\ op.turned = 1 => op.by = Config(meter) \/ (op.seen.fn = wanted => op.by = op.seen)
    BY <2>3 DEF IInv, OpIs, ReadingKnows, Operations
  <2>5. op.seen = Config(meter) /\ op.seen.fn = wanted
    BY <1>2 DEF Coherent
  <2>6. op.turned = 2 \/ op.seen = op.by
    BY <2>4, <2>5
  <2>7. s = Value(op.seen, op.by, op.turned) \/ s = Unavailable(op.seen.fn)
    BY DEF Snapshots
  <2>8. op.seen.fn \in Functions
    BY <2>4 DEF Configs
  <2>9. CASE s = Value(op.seen, op.by, op.turned)
    BY <2>2, <2>4, <2>6, <2>9 DEF Value, LabelIsTrue, ReadingIsFresh
  <2>10. CASE s = Unavailable(op.seen.fn)
    BY <2>2, <2>8, <2>10 DEF Unavailable, LabelIsTrue, ReadingIsFresh
  <2> QED
    BY <2>2, <2>7, <2>9, <2>10
<1> QED
  BY <1>1, <1>2 DEF PollReading

-----------------------------------------------------------------------------
(* The operation that executes.                                            *)

\* Which query of a control's operation is which.
LEMMA StepsAre ==
  ASSUME NEW ctl \in AllControls, NEW n \in DOMAIN Steps(ctl)
  PROVE  /\ n \in 1 .. 4 /\ 1 \in DOMAIN Steps(ctl)
         /\ Steps(ctl)[n] = "check" =>
              /\ ctl.kind \in {"range", "rate"} /\ ctl.fn \in Functions
              /\ n + 1 \in DOMAIN Steps(ctl) /\ n + 1 \in 1 .. 4
              /\ n = 1 \/ n = 3
         /\ Steps(ctl)[n] = "observe" =>
              /\ ctl.kind = "rate" /\ ctl.fn \in ByConfigure /\ ctl.fn \in Functions
              /\ n = 2 /\ 3 \in DOMAIN Steps(ctl)
         /\ Steps(ctl)[n] = "command" /\ ctl.kind \in {"range", "rate"} =>
              /\ ctl.fn \in Functions /\ n # 1
              /\ ctl.kind = "rate" /\ ctl.fn \in ByConfigure => n = 4
         /\ ctl.kind \in {"function", "rate", "range"} => ctl.fn \in Functions
         /\ ctl.kind = "range" => ctl.range \in Ranges
<1>1. /\ ctl.kind \in {"function", "raw", "rate", "range"}
      /\ ctl.kind # "raw" => ctl.fn \in Functions
      /\ ctl.kind = "range" => ctl.range \in Ranges
  BY DEF AllControls
<1>2. CASE ctl.kind \in {"function", "raw"}
  <2>1. Steps(ctl) = <<"command">>
    BY <1>2 DEF Steps
  <2> QED
    BY <1>1, <1>2, <2>1
<1>3. CASE ctl.kind = "rate" /\ ctl.fn \in ByConfigure
  <2>1. Steps(ctl) = <<"check", "observe", "check", "command">>
    BY <1>3 DEF Steps
  <2>2. n \in 1 .. 4 /\ DOMAIN Steps(ctl) = 1 .. 4
    BY <2>1
  <2>3. /\ Steps(ctl)[1] = "check" /\ Steps(ctl)[2] = "observe"
        /\ Steps(ctl)[3] = "check" /\ Steps(ctl)[4] = "command"
    BY <2>1
  <2> QED
    BY <1>1, <1>3, <2>2, <2>3
<1>4. CASE ctl.kind \in {"rate", "range"} /\ ~(ctl.kind = "rate" /\ ctl.fn \in ByConfigure)
  <2>1. Steps(ctl) = <<"check", "command">>
    BY <1>4 DEF Steps
  <2>2. n \in 1 .. 2 /\ DOMAIN Steps(ctl) = 1 .. 2
    BY <2>1
  <2>3. Steps(ctl)[1] = "check" /\ Steps(ctl)[2] = "command"
    BY <2>1
  <2> QED
    BY <1>1, <1>4, <2>2, <2>3
<1> QED
  BY <1>1, <1>2, <1>3, <1>4

\* A control has a first query.
LEMMA StepsBegin ==
  ASSUME NEW ctl \in AllControls
  PROVE  1 \in DOMAIN Steps(ctl)
BY DEF Steps

\* Nothing the operation relies on has changed.
LEMMA OpKept ==
  ASSUME IInv, UNCHANGED <<op, meter>>,
         op # None =>
           /\ op.who = "create" => loop' = loop
           /\ op.who = "poller" => UNCHANGED <<poller, wanted>>
           /\ op.who = "request" => line' # <<>> /\ line'[1] = line[1]
  PROVE  OpIs'
<1>1. OwnerWaits' /\ StateSeen'
  BY DEF IInv, OpIs, OwnerWaits, StateSeen
<1>2. ReadingKnows'
  BY DEF IInv, OpIs, OwnerWaits, ReadingKnows
<1>3. ASSUME op # None, op.does = "write" PROVE Ctl' = Ctl
  BY <1>3 DEF IInv, OpIs, OwnerWaits, Ctl
<1>4. WriteKnows'
  BY <1>3 DEF IInv, OpIs, WriteKnows
<1> QED
  BY <1>1, <1>2, <1>4 DEF OpIs

\* An operation begins with its owner waiting for it.
LEMMA OpBegins ==
  ASSUME IInv, BeginCreate \/ BeginPoll \/ BeginRequest
  PROVE  OpIs' /\ op' \in Operations
<1>1. \E who \in {"create", "poller", "request"}, does \in {"state", "reading", "write"} :
        Begin(who, does)
  BY DEF BeginCreate, BeginPoll, BeginRequest
<1>2. op' \in Operations /\ op' # None /\ op'.step = 1
  BY <1>1, DmmAssumption, SeenTyped DEF Begin, Begun, Operations
<1>3. UNCHANGED <<meter, loop, poller, line>>
  BY <1>1 DEF Begin, runtime, polls
<1>4. CASE BeginCreate
  <2>1. op'.who = "create" /\ op'.does = "state" /\ loop = "initial"
    BY <1>4 DEF BeginCreate, Begin, Begun
  <2> QED
    BY <1>2, <1>3, <2>1 DEF OpIs, OwnerWaits, StateSeen, ReadingKnows, WriteKnows
<1>5. CASE BeginPoll
  <2>1. op'.who = "poller" /\ op'.does = poller /\ poller \in {"state", "reading"}
    BY <1>5 DEF BeginPoll, Begin, Begun
  <2> QED
    BY <1>2, <1>3, <2>1 DEF OpIs, OwnerWaits, StateSeen, ReadingKnows, WriteKnows
<1>6. CASE BeginRequest
  <2>1. /\ line # <<>> /\ line[1].ready /\ op'.who = "request"
        /\ op'.does = IF line[1].stage = "write" THEN "write" ELSE "state"
    BY <1>6 DEF BeginRequest, Ready, Begin, Begun
  <2>2. 1 \in DOMAIN Steps(Ctl) /\ Ctl' = Ctl
    BY <1>3, <2>1, HeadOfLine, StepsBegin DEF IInv, Ctl
  <2> QED
    BY <1>2, <1>3, <2>1, <2>2 DEF OpIs, OwnerWaits, StateSeen, ReadingKnows, WriteKnows
<1> QED
  BY <1>2, <1>4, <1>5, <1>6

\* The operation after a query: the step it is at and what it has learned.
LEMMA Learns ==
  ASSUME NEW o \in Operations, NEW n \in 1 .. 4, NEW y \in Seen
  PROVE  /\ Saw(o, n, y) \in Operations
         /\ Saw(o, n, y).who = o.who /\ Saw(o, n, y).does = o.does
         /\ Saw(o, n, y).step = n /\ Saw(o, n, y).seen = y /\ Saw(o, n, y).turned = o.turned
BY DEF Operations, Saw

LEMMA Measures ==
  ASSUME NEW o \in Operations, NEW n \in 1 .. 4, NEW y \in {None} \cup Configs, NEW e,
         e = Measured(o, n, y)
  PROVE  /\ e \in Operations /\ e.who = o.who /\ e.does = o.does
         /\ e.step = n /\ e.seen = o.seen /\ e.by = y /\ e.turned = o.turned
BY DEF Operations, Measured

\* Each query takes the operation one step further, knowing what it saw.
LEMMA QueryGoesOn ==
  ASSUME IInv, QueryFunction \/ QueryBefore \/ Measure \/ CheckFunction \/ ObserveRange
  PROVE  OpIs' /\ op' \in Operations /\ meter' \in Meters
<1>1. op # None /\ op \in Operations /\ meter \in Meters /\ wanted \in Functions
  BY DEF IInv, TypeOK, QueryFunction, QueryBefore, Measure, CheckFunction, ObserveRange, Writing
<1>2. UNCHANGED <<loop, poller, wanted, line>>
  BY DEF QueryFunction, QueryBefore, Measure, CheckFunction, ObserveRange, runtime, polls
<1>3. OwnerWaits /\ StateSeen /\ ReadingKnows /\ WriteKnows
  BY DEF IInv, OpIs
<1>4. Ctl' = Ctl
  BY <1>2 DEF Ctl
<1>5. CASE QueryFunction
  <2>1. /\ meter' = meter /\ op.does = "state"
        /\ op' = Saw(op, 2, meter.fn)
    BY <1>5 DEF QueryFunction
  <2>2. meter.fn \in Functions
    BY <1>1, ConfigTyped
  <2>3. /\ op' \in Operations /\ op'.who = op.who /\ op'.does = "state" /\ op'.step = 2
        /\ op'.seen = meter.fn
    <3>1. 2 \in 1 .. 4 /\ meter.fn \in Seen
      BY <2>2, SeenTyped
    <3> QED
      BY <1>1, <2>1, <3>1, Learns
  <2> QED
    BY <1>1, <1>2, <1>3, <2>1, <2>2, <2>3 DEF OpIs, OwnerWaits, StateSeen, ReadingKnows, WriteKnows
<1>6. CASE QueryBefore
  <2>1. /\ meter' = meter /\ op.does = "reading"
        /\ op' = Saw(op, 2, Config(meter))
    BY <1>6 DEF QueryBefore
  <2>2. Config(meter) \in Configs
    BY <1>1, ConfigTyped
  <2>3. /\ op' \in Operations /\ op'.who = op.who /\ op'.does = "reading" /\ op'.step = 2
        /\ op'.seen = Config(meter)
    <3>1. 2 \in 1 .. 4 /\ Config(meter) \in Seen
      BY <2>2, SeenTyped
    <3> QED
      BY <1>1, <2>1, <3>1, Learns
  <2> QED
    BY <1>1, <1>2, <1>3, <2>1, <2>2, <2>3 DEF OpIs, OwnerWaits, StateSeen, ReadingKnows, WriteKnows
<1>7. CASE Measure
  <2>1. /\ meter' \in {meter, [meter EXCEPT !.fn = wanted]}
        /\ op.does = "reading" /\ op.step = 2
        /\ op' = Measured(op, 3, Config(meter'))
    BY <1>7 DEF Measure
  <2>2. meter' \in Meters
    BY <1>1, <2>1 DEF Meters
  <2>3. Config(meter') \in Configs
    BY <2>2, ConfigTyped
  <2>4. /\ op' \in Operations /\ op'.who = op.who /\ op'.does = "reading" /\ op'.step = 3
        /\ op'.seen = op.seen /\ op'.by = Config(meter') /\ op'.turned = op.turned
    <3>1. 3 \in 1 .. 4 /\ Config(meter') \in {None} \cup Configs
      BY <2>3
    <3> QED
      BY <1>1, <2>1, <3>1, Measures
  <2>5. op.seen \in Configs /\ (op.turned = 0 => op.seen = Config(meter))
    BY <1>1, <1>3, <2>1 DEF ReadingKnows
  <2>6. ASSUME op.turned = 0, op.seen.fn = wanted PROVE Config(meter') = op.seen
    <3>1. meter.fn = wanted
      BY <2>5, <2>6 DEF Config
    <3>2. meter' = meter
      BY <1>1, <2>1, <3>1 DEF Meters
    <3> QED
      BY <2>5, <2>6, <3>2
  <2>7. Config(meter') = Config(meter)'
    BY DEF Config
  <2>8. ReadingKnows'
    BY <1>2, <2>3, <2>4, <2>5, <2>6, <2>7 DEF ReadingKnows
  <2> QED
    BY <1>1, <1>2, <1>3, <2>1, <2>2, <2>4, <2>8 DEF OpIs, OwnerWaits, StateSeen, WriteKnows
<1>8. CASE CheckFunction \/ ObserveRange
  <2>1. op.does = "write" /\ meter' = meter
    BY <1>8 DEF CheckFunction, ObserveRange, Writing
  <2>2. /\ op.who = "request" /\ line # <<>> /\ line[1].ready /\ line[1].stage = "write"
    BY <1>1, <1>3, <2>1 DEF OwnerWaits
  <2>3. Ctl \in AllControls
    BY <2>2, HeadOfLine DEF IInv
  <2>4. op.step \in DOMAIN Steps(Ctl)
    BY <1>1, <1>3, <2>1 DEF WriteKnows
  <2>5. CASE CheckFunction
    <3>1. /\ Steps(Ctl)[op.step] = "check" /\ meter.fn = Ctl.fn
          /\ op' = [op EXCEPT !.step = @ + 1]
      BY <2>5 DEF CheckFunction, Writing
    <3>2. /\ Ctl.kind \in {"range", "rate"} /\ op.step + 1 \in DOMAIN Steps(Ctl)
          /\ op.step + 1 \in 1 .. 4
          /\ op.step = 1 \/ op.step = 3
      BY <2>3, <2>4, <3>1, StepsAre
    <3>3. /\ op' \in Operations /\ op'.who = op.who /\ op'.does = op.does
          /\ op'.step = op.step + 1 /\ op'.seen = op.seen /\ op'.turned = op.turned
      BY <1>1, <3>1, <3>2 DEF Operations
    <3>4. WriteKnows'
      <4>1. CASE op.step = 1
        <5>1. op'.step = 2
          BY <3>3, <4>1
        <5> QED
          BY <1>4, <2>1, <3>1, <3>2, <3>3, <4>1, <5>1 DEF WriteKnows
      <4>2. CASE op.step = 3
        <5>1. op'.step = 4
          BY <3>3, <4>2
        <5>2. /\ Ctl.kind = "rate" /\ Ctl.fn \in ByConfigure /\ op.seen \in Ranges
              /\ op.turned = 0 => op.seen = meter.range[Ctl.fn]
          BY <1>1, <1>3, <2>1, <4>2 DEF WriteKnows
        <5> QED
          BY <1>4, <2>1, <3>1, <3>2, <3>3, <4>2, <5>1, <5>2 DEF WriteKnows
      <4> QED
        BY <3>2, <4>1, <4>2
    <3> QED
      BY <1>1, <1>2, <1>3, <2>1, <3>3, <3>4 DEF OpIs, OwnerWaits, StateSeen, ReadingKnows
  <2>6. CASE ObserveRange
    <3>1. /\ Steps(Ctl)[op.step] = "observe"
          /\ op' = Saw(op, op.step + 1, meter.range[Ctl.fn])
      BY <2>6 DEF ObserveRange, Writing
    <3>2. /\ Ctl.kind = "rate" /\ Ctl.fn \in ByConfigure /\ Ctl.fn \in Functions
          /\ op.step = 2 /\ 3 \in DOMAIN Steps(Ctl)
      BY <2>3, <2>4, <3>1, StepsAre
    <3>3. meter.range[Ctl.fn] \in Ranges
      BY <1>1, <3>2, ConfigTyped
    <3>4. /\ op' \in Operations /\ op'.who = op.who /\ op'.does = op.does
          /\ op'.step = 3 /\ op'.seen = meter.range[Ctl.fn] /\ op'.turned = op.turned
      <4> DEFINE y == meter.range[Ctl.fn]
      <4>1. op.step + 1 = 3 /\ 3 \in 1 .. 4
        BY <3>2
      <4>2. op' = Saw(op, 3, y) /\ y \in Seen
        BY <3>1, <3>3, <4>1, SeenTyped
      <4> HIDE DEF y
      <4>3. /\ op' \in Operations /\ op'.who = op.who /\ op'.does = op.does
            /\ op'.step = 3 /\ op'.seen = y /\ op'.turned = op.turned
        BY <1>1, <4>1, <4>2, Learns
      <4> QED
        BY <4>3 DEF y
    <3>5. op.turned = 0 => meter.fn = Ctl.fn
      BY <1>1, <1>3, <2>1, <3>2 DEF WriteKnows
    <3>6. WriteKnows'
      BY <1>4, <2>1, <3>2, <3>3, <3>4, <3>5 DEF WriteKnows
    <3> QED
      BY <1>1, <1>2, <1>3, <2>1, <3>4, <3>6 DEF OpIs, OwnerWaits, StateSeen, ReadingKnows
  <2> QED
    BY <1>1, <1>8, <2>1, <2>5, <2>6
<1> QED
  BY <1>5, <1>6, <1>7, <1>8

\* A turn of the panel: what the operation knew of the meter is void, once.
LEMMA TurnIsCounted ==
  ASSUME IInv, PanelTurn
  PROVE  OpIs' /\ op' \in {None} \cup Operations /\ meter' \in Meters /\ (op # None => op' # None)
<1>1. op \in {None} \cup Operations /\ meter' \in Edits(meter) /\ meter \in Meters
  BY DEF IInv, TypeOK, PanelTurn
<1>2. UNCHANGED <<loop, poller, wanted, line>>
  BY DEF PanelTurn, runtime, polls
<1>3. meter' \in Meters
  BY <1>1, EditsTyped
<1>4. CASE op = None
  BY <1>3, <1>4, NoOperation DEF PanelTurn, Turned
<1>5. CASE op # None
  <2>1. op \in Operations /\ op' = [op EXCEPT !.turned = IF @ < 2 THEN @ + 1 ELSE 2]
    BY <1>1, <1>5 DEF PanelTurn, Turned
  <2>2. op.turned \in {0, 1, 2}
    BY <2>1 DEF Operations
  <2>3. /\ op' \in Operations /\ op'.who = op.who /\ op'.does = op.does /\ op'.step = op.step
        /\ op'.seen = op.seen /\ op'.by = op.by
        /\ op'.turned = IF op.turned = 0 THEN 1 ELSE 2
    BY <2>1, <2>2 DEF Operations
  <2>4. OwnerWaits' /\ StateSeen'
    BY <1>2, <1>5, <2>3 DEF IInv, OpIs, OwnerWaits, StateSeen
  <2>5. ReadingKnows'
    BY <1>2, <1>5, <2>2, <2>3 DEF IInv, OpIs, ReadingKnows
  <2>6. Ctl' = Ctl
    BY <1>2 DEF Ctl
  <2>7. WriteKnows'
    BY <1>5, <2>3, <2>6 DEF IInv, OpIs, WriteKnows
  <2> QED
    BY <1>3, <2>3, <2>4, <2>5, <2>7, DmmAssumption DEF OpIs
<1> QED
  BY <1>4, <1>5

\* A range or rate command leaves the function alone that its operation found,
\* whatever belongs to another function, and a rate command the range, unless
\* the panel was turned.
LEMMA CommandTyped ==
  ASSUME IInv, op # None, op.does = "write", Steps(Ctl)[op.step] = "command",
         meter' \in Command(Ctl)
  PROVE  /\ meter' \in Meters
         /\ op.turned = 0 /\ Ctl.kind \in {"range", "rate"} =>
              /\ meter.fn = Ctl.fn /\ meter'.fn = meter.fn
              /\ \A f \in Functions :
                   (f = Ctl.fn /\ Ctl.kind = "range") \/ meter'.range[f] = meter.range[f]
<1>1. /\ meter \in Meters /\ line # <<>> /\ op.step \in DOMAIN Steps(Ctl)
      /\ op.step # 1 => Ctl.kind \in {"range", "rate"}
      /\ op.step # 1 /\ op.turned = 0 => meter.fn = Ctl.fn
      /\ op.step \notin {1, 2} =>
           /\ op.seen \in Ranges
           /\ op.turned = 0 => op.seen = meter.range[Ctl.fn]
  BY DEF IInv, TypeOK, OpIs, OwnerWaits, WriteKnows
<1>2. Ctl \in AllControls
  BY <1>1, HeadOfLine DEF IInv
<1>3. /\ Ctl.kind \in {"function", "raw", "rate", "range"}
      /\ Ctl.kind # "raw" => Ctl.fn \in Functions
      /\ Ctl.kind = "range" => Ctl.range \in Ranges
      /\ Ctl.kind \in {"range", "rate"} => op.step # 1
      /\ Ctl.kind = "rate" /\ Ctl.fn \in ByConfigure => op.step = 4
  <2>1. Ctl.kind \in {"function", "raw", "rate", "range"}
    BY <1>2 DEF AllControls
  <2> QED
    BY <1>1, <1>2, <2>1, StepsAre
<1>4. CASE Ctl.kind = "function"
  <2>1. meter' = [meter EXCEPT !.fn = Ctl.fn]
    BY <1>4 DEF Command
  <2> QED
    BY <1>1, <1>3, <1>4, <2>1 DEF Meters
<1>5. CASE Ctl.kind = "raw"
  <2>1. meter' = meter \/ meter' \in Edits(meter)
    BY <1>5 DEF Command
  <2> QED
    BY <1>1, <1>5, <2>1, EditsTyped
<1>6. CASE Ctl.kind = "range"
  <2>1. meter' = [meter EXCEPT !.range[Ctl.fn] = Ctl.range]
    BY <1>6 DEF Command
  <2> QED
    BY <1>1, <1>3, <1>6, <2>1 DEF Meters
<1>7. CASE Ctl.kind = "rate" /\ Ctl.fn \in ByConfigure
  <2>1. meter' = [meter EXCEPT !.fn = Ctl.fn, !.range[Ctl.fn] = op.seen, !.odd = @ \ {Ctl.fn}]
    BY <1>7 DEF Command
  <2>2. op.seen \in Ranges /\ (op.turned = 0 => op.seen = meter.range[Ctl.fn] /\ meter.fn = Ctl.fn)
    BY <1>1, <1>3, <1>7
  <2> QED
    BY <1>1, <1>3, <1>7, <2>1, <2>2 DEF Meters
<1>8. CASE Ctl.kind = "rate" /\ Ctl.fn \notin ByConfigure
  <2>1. meter' = [meter EXCEPT !.odd = @ \ {Ctl.fn}]
    BY <1>8 DEF Command
  <2> QED
    BY <1>1, <1>3, <1>8, <2>1 DEF Meters
<1> QED
  BY <1>3, <1>4, <1>5, <1>6, <1>7, <1>8

\* A state that was read is no operation any more; nor is a finished reading.
LEMMA PollStep ==
  ASSUME IInv, PollState \/ PollReading \/ PollFails \/ PollWakes("reading") \/ PollWakes("state")
  PROVE  IInv'
<1>1. CASE PollState
  <2>1. op' = None
    BY <1>1 DEF PollState
  <2>2. ReadState \in Configs /\ ReadState.fn \in Functions
    BY <1>1, StateTyped DEF PollState
  <2>3. UNCHANGED <<meter, link, running, loop, session, failed, polling, line, events>>
    BY <1>1 DEF PollState
  <2>4. /\ store' \in Configs /\ connection' \in {None} \cup Configs /\ outdated' \in BOOLEAN
        /\ snapshot' = snapshot \/ snapshot' = None \/ snapshot' = Unavailable(ReadState.fn)
        /\ LabelIsTrue' /\ ReadingIsFresh'
        /\ connection' # None => session \/ connection' = connection
        /\ poller' \in {"reading", "off"} /\ wanted' \in Functions
    <3>1. CASE polling
      <4>1. /\ ReplaceState(ReadState) /\ poller' = "reading" /\ wanted' = ReadState.fn
        BY <1>1, <3>1 DEF PollState
      <4> QED
        BY <2>2, <4>1, ReplacedIsTyped
    <3>2. CASE ~polling
      <4>1. poller' = "off" /\ UNCHANGED <<wanted, store, service, outdated>>
        BY <1>1, <3>2 DEF PollState
      <4> QED
        BY <4>1, ShownKept DEF IInv, TypeOK, service
    <3> QED
      BY <3>1, <3>2
  <2>5. TypeOK'
    <3>1. Unavailable(ReadState.fn) \in [kind : {"Unavailable"}, label : Functions]
      BY <2>2 DEF Unavailable
    <3> QED
      BY <2>1, <2>3, <2>4, <3>1 DEF IInv, TypeOK
  <2>6. SessionIs'
    BY <2>3, <2>4 DEF IInv, SessionIs
  <2> QED
    BY <2>1, <2>4, <2>5, <2>6, NoOperation DEF IInv
<1>2. CASE PollReading
  <2>1. /\ op' = None /\ poller' \in {"wait", "off"}
        /\ UNCHANGED <<meter, link, running, loop, session, failed, store, polling, wanted, line, events>>
    BY <1>2 DEF PollReading, runtime
  <2>2. /\ snapshot' \in {None} \cup [kind : {"Value"}, label : Configs, by : Configs, turned : 0 .. 2]
                                \cup [kind : {"Unavailable"}, label : Functions]
        /\ outdated' \in BOOLEAN /\ UNCHANGED connection
        /\ LabelIsTrue' /\ ReadingIsFresh'
    BY <1>2, ReadingAccepted
  <2>3. TypeOK' /\ SessionIs'
    BY <2>1, <2>2 DEF IInv, TypeOK, SessionIs
  <2> QED
    BY <2>1, <2>2, <2>3, NoOperation DEF IInv
<1>3. CASE PollFails
  <2>1. /\ UNCHANGED <<meter, link, running, loop, session, store, polling, wanted, line, service,
                       outdated, events>>
        /\ poller' = "off" /\ failed' = (failed \/ polling)
        /\ op' = IF op # None /\ op.who = "poller" THEN None ELSE op
    BY <1>3 DEF PollFails
  <2>2. TypeOK'
    BY <2>1 DEF IInv, TypeOK, service
  <2>3. SessionIs'
    BY <2>1 DEF IInv, SessionIs, service
  <2>4. OpIs'
    <3>1. CASE op # None /\ op.who = "poller"
      BY <2>1, <3>1, NoOperation
    <3>2. CASE ~(op # None /\ op.who = "poller")
      BY <2>1, <3>2, OpKept DEF IInv, OpIs, OwnerWaits
    <3> QED
      BY <3>1, <3>2
  <2> QED
    BY <2>1, <2>2, <2>3, <2>4, ShownKept DEF IInv
<1>4. CASE PollWakes("reading") \/ PollWakes("state")
  <2>1. /\ UNCHANGED <<meter, link, running, loop, session, failed, store, polling, op, line, service,
                       outdated, events>>
        /\ poller = "wait" /\ poller' \in {"state", "reading", "off"} /\ wanted' \in Functions
    BY <1>4 DEF PollWakes, runtime, IInv, TypeOK, Configs
  <2>2. TypeOK' /\ SessionIs'
    BY <2>1 DEF IInv, TypeOK, SessionIs, service
  <2>3. op # None => op \in Operations
    BY DEF IInv, TypeOK
  <2>4. op # None => op.who # "poller"
    BY <2>1, <2>3 DEF IInv, OpIs, OwnerWaits, Operations
  <2>5. OpIs'
    BY <2>1, <2>4, OpKept DEF IInv, OpIs, OwnerWaits
  <2> QED
    BY <2>1, <2>2, <2>5, ShownKept DEF IInv
<1> QED
  BY <1>1, <1>2, <1>3, <1>4

LEMMA QueryStep ==
  ASSUME IInv, Query
  PROVE  IInv'
<1>1. UNCHANGED <<runtime, polls, line, service, outdated, events>>
  BY DEF Query, BeginCreate, BeginPoll, BeginRequest, Begin, QueryFunction, QueryBefore, Measure,
       CheckFunction, ObserveRange
<1>2. OpIs' /\ op' \in Operations /\ meter' \in Meters
  <2>1. CASE BeginCreate \/ BeginPoll \/ BeginRequest
    <3>1. meter' = meter
      BY <2>1 DEF BeginCreate, BeginPoll, BeginRequest, Begin
    <3> QED
      BY <2>1, <3>1, OpBegins DEF IInv, TypeOK
  <2>2. CASE QueryFunction \/ QueryBefore \/ Measure \/ CheckFunction \/ ObserveRange
    BY <2>2, QueryGoesOn
  <2> QED
    BY <2>1, <2>2 DEF Query
<1>3. TypeOK' /\ SessionIs'
  BY <1>1, <1>2 DEF IInv, TypeOK, SessionIs, runtime, polls, service
<1> QED
  BY <1>1, <1>2, <1>3, ShownKept DEF IInv

\* The mutations: what a request does leaves the head of the line to nobody but
\* the request itself.
LEMMA RequestStep ==
  ASSUME IInv, Request
  PROVE  IInv'
<1>0. line \in Seq(Mutations)
  BY DEF IInv, TypeOK, Mutations
<1>1. CASE RequestGoesOn
  <2>1. /\ UNCHANGED <<meter, runtime, polls, op, service, outdated, events>>
        /\ line # <<>> /\ ~line[1].ready
    BY <1>1 DEF RequestGoesOn
  <2>2. Ctl \in AllControls /\ Tail(line) \in Seq(Mutations) /\ line[1] \in Mutations
    BY <2>1, HeadOfLine DEF IInv
  <2>3. line' \in Seq(Mutations)
    <3>1. CASE session
      <4>1. PICK st \in {"queued", "check", "write", "readback"} : HeadTo(st, TRUE)
        BY <1>1, <2>2, <3>1 DEF RequestGoesOn, FirstStage, Mutations
      <4> QED
        BY <2>1, <4>1, HeadOfLine DEF IInv
    <3>2. CASE ~session
      BY <1>1, <2>2, <3>2 DEF RequestGoesOn, Release
    <3> QED
      BY <3>1, <3>2
  <2>4. OpIs'
    <3>1. op # None => op.who # "request"
      BY <2>1 DEF IInv, OpIs, OwnerWaits
    <3> QED
      BY <2>1, <3>1, OpKept DEF runtime, polls
  <2>5. TypeOK' /\ SessionIs'
    BY <2>1, <2>3 DEF IInv, TypeOK, SessionIs, runtime, polls, service, Mutations
  <2> QED
    BY <2>1, <2>4, <2>5, ShownKept DEF IInv
<1>2. CASE RequestCheck
  <2>1. /\ op' = None /\ UNCHANGED <<meter, runtime, polls, service, outdated, events>>
        /\ op # None /\ op.who = "request"
    BY <1>2 DEF RequestCheck, RequestIn
  <2>2. line # <<>>
    BY <2>1 DEF IInv, OpIs, OwnerWaits
  <2>3. line' \in Seq(Mutations)
    BY <1>2, <2>2, HeadOfLine DEF IInv, RequestCheck, Release
  <2>4. TypeOK' /\ SessionIs'
    BY <2>1, <2>3 DEF IInv, TypeOK, SessionIs, runtime, polls, service, Mutations
  <2> QED
    BY <2>1, <2>4, NoOperation, ShownKept DEF IInv
<1>3. CASE RequestCommand
  <2>1. /\ op' = None /\ UNCHANGED <<runtime, polls, service, outdated, events>>
        /\ op # None /\ op.does = "write" /\ Steps(Ctl)[op.step] = "command"
        /\ meter' \in Command(Ctl) /\ HeadTo("readback", FALSE)
    BY <1>3 DEF RequestCommand, Writing
  <2>2. line # <<>> /\ op.step \in DOMAIN Steps(Ctl)
    BY <2>1 DEF IInv, OpIs, OwnerWaits, WriteKnows
  <2>3. line' \in Seq(Mutations) /\ Ctl \in AllControls
    BY <2>1, <2>2, HeadOfLine DEF IInv
  <2>4. meter' \in Meters
    BY <2>1, <2>2, <2>3, CommandTyped
  <2>5. TypeOK' /\ SessionIs'
    BY <2>1, <2>3, <2>4 DEF IInv, TypeOK, SessionIs, runtime, polls, service, Mutations
  <2> QED
    BY <2>1, <2>5, NoOperation, ShownKept DEF IInv
<1>4. CASE RequestReadback
  <2>1. /\ op' = None
        /\ UNCHANGED <<meter, link, running, loop, session, failed, polls, events>>
        /\ op # None /\ op.who = "request" /\ Release(session)
    BY <1>4 DEF RequestReadback, RequestIn
  <2>2. ReadState \in Configs /\ ReadState.fn \in Functions
    BY <1>4, StateTyped DEF RequestReadback
  <2>3. line # <<>>
    BY <2>1 DEF IInv, OpIs, OwnerWaits
  <2>4. line' \in Seq(Mutations)
    BY <2>1, <2>3, HeadOfLine DEF IInv, Release
  <2>5. /\ store' \in Configs /\ connection' \in {None} \cup Configs /\ outdated' \in BOOLEAN
        /\ snapshot' = snapshot \/ snapshot' = None \/ snapshot' = Unavailable(ReadState.fn)
        /\ LabelIsTrue' /\ ReadingIsFresh'
        /\ connection' # None => session \/ connection' = connection
    <3>1. CASE session
      BY <1>4, <2>2, <3>1, ReplacedIsTyped DEF RequestReadback
    <3>2. CASE ~session
      BY <1>4, <3>2, ShownKept DEF RequestReadback, IInv, TypeOK, service
    <3> QED
      BY <3>1, <3>2
  <2>6. TypeOK'
    <3>1. Unavailable(ReadState.fn) \in [kind : {"Unavailable"}, label : Functions]
      BY <2>2 DEF Unavailable
    <3> QED
      BY <2>1, <2>4, <2>5, <3>1 DEF IInv, TypeOK, Mutations, polls
  <2>7. SessionIs'
    BY <2>1, <2>5 DEF IInv, SessionIs
  <2> QED
    BY <2>1, <2>5, <2>6, <2>7, NoOperation DEF IInv
<1>5. CASE RequestFails
  <2>1. /\ UNCHANGED <<meter, link, running, loop, session, store, polls, service, outdated, events>>
        /\ failed' = (failed \/ ~link) /\ Release(FALSE)
        /\ op' = IF op # None /\ op.who = "request" THEN None ELSE op
    BY <1>5 DEF RequestFails
  <2>2. line # <<>>
    BY <1>5 DEF RequestFails, Ready, Writing, IInv, OpIs, OwnerWaits
  <2>3. line' \in Seq(Mutations)
    BY <2>1, <2>2, HeadOfLine DEF IInv, Release
  <2>4. TypeOK' /\ SessionIs'
    BY <2>1, <2>3 DEF IInv, TypeOK, SessionIs, polls, service, Mutations
  <2>5. OpIs'
    <3>1. CASE op # None /\ op.who = "request"
      BY <2>1, <3>1, NoOperation
    <3>2. CASE ~(op # None /\ op.who = "request")
      BY <2>1, <3>2, OpKept DEF polls
    <3> QED
      BY <3>1, <3>2
  <2> QED
    BY <2>1, <2>4, <2>5, ShownKept DEF IInv
<1> QED
  BY <1>1, <1>2, <1>3, <1>4, <1>5 DEF Request

\* The runtime: a session is shown from its first state to its end, and a
\* runtime that stops shows nothing more.
LEMMA RuntimeStep ==
  ASSUME IInv, Runtime
  PROVE  IInv'
<1>1. CASE Connect
  <2>1. /\ op = None /\ running /\ loop = "connecting" /\ loop' = "initial" /\ link' = TRUE
        /\ failed' = FALSE
        /\ UNCHANGED <<meter, running, session, store, polls, op, line, service, outdated, events>>
    BY <1>1 DEF Connect
  <2>2. TypeOK' /\ SessionIs'
    BY <2>1 DEF IInv, TypeOK, SessionIs, polls, service
  <2> QED
    BY <2>1, <2>2, NoOperation, ShownKept DEF IInv
<1>2. CASE Serve
  <2>1. /\ op # None /\ op.who = "create" /\ link /\ op' = None
        /\ loop' = "serving" /\ session' = TRUE
        /\ store' = ReadState /\ connection' = ReadState /\ polling' = TRUE /\ poller' = "state"
        /\ UNCHANGED <<meter, link, running, failed, wanted, line, snapshot, outdated, events>>
    BY <1>2 DEF Serve, StateRead
  <2>2. ReadState \in Configs /\ ReadState # None
    BY <1>2, StateTyped, DmmAssumption DEF Serve
  <2>3. running /\ snapshot = None
    BY <2>1 DEF IInv, OpIs, OwnerWaits, SessionIs, ReadingIsFresh
  <2>4. TypeOK' /\ SessionIs'
    BY <2>1, <2>2, <2>3 DEF IInv, TypeOK, SessionIs
  <2>5. LabelIsTrue' /\ ReadingIsFresh'
    BY <2>1, <2>3 DEF LabelIsTrue, ReadingIsFresh
  <2> QED
    BY <2>1, <2>4, <2>5, NoOperation DEF IInv
<1>3. CASE CreateFails
  <2>1. /\ op' = None /\ link' = FALSE /\ loop' = IF running THEN "delay" ELSE "none"
        /\ IF running THEN Disconnected ELSE UNCHANGED <<service, outdated>>
        /\ UNCHANGED <<meter, running, session, failed, store, polls, line>>
        /\ loop \in {"connecting", "initial"}
    BY <1>3 DEF CreateFails
  <2>2. ~session /\ connection = None
    BY <2>1 DEF IInv, SessionIs
  <2>3. LabelIsTrue' /\ ReadingIsFresh' /\ connection' = None
    BY <2>1, <2>2, ShownKept, DisconnectedShowsNothing DEF service
  <2>4. TypeOK'
    BY <2>1, DisconnectedShowsNothing DEF IInv, TypeOK, polls, service
  <2>5. SessionIs'
    BY <2>1, <2>2, <2>3 DEF SessionIs
  <2> QED
    BY <2>1, <2>3, <2>4, <2>5, NoOperation DEF IInv
<1>4. CASE RetryDelayOver \/ Disposed
  <2>1. /\ UNCHANGED <<meter, link, running, session, failed, store, polls, op, line, service,
                       outdated, events>>
        /\ loop \in {"delay", "disposing"} /\ loop' \in {"connecting", "delay", "none"}
    BY <1>4 DEF RetryDelayOver, Disposed
  <2>2. TypeOK' /\ SessionIs'
    BY <2>1 DEF IInv, TypeOK, SessionIs, polls, service
  <2>3. OpIs'
    BY <2>1, OpKept DEF polls, IInv, OpIs, OwnerWaits
  <2> QED
    BY <2>1, <2>2, <2>3, ShownKept DEF IInv
<1>5. CASE EndSession
  <2>1. /\ session' = FALSE /\ polling' = FALSE /\ link' = FALSE /\ loop' = "disposing"
        /\ loop = "serving"
        /\ IF running THEN Disconnected ELSE UNCHANGED <<service, outdated>>
        /\ UNCHANGED <<meter, running, failed, store, poller, wanted, op, line, events>>
    BY <1>5 DEF EndSession
  <2>2. ~running => connection = None
    BY DEF IInv, SessionIs
  <2>3. LabelIsTrue' /\ ReadingIsFresh' /\ connection' = None
    BY <2>1, <2>2, ShownKept, DisconnectedShowsNothing DEF service
  <2>4. TypeOK'
    BY <2>1, DisconnectedShowsNothing DEF IInv, TypeOK, service
  <2>5. SessionIs'
    BY <2>1, <2>3 DEF SessionIs
  <2>6. OpIs'
    BY <2>1, OpKept DEF IInv, OpIs, OwnerWaits
  <2> QED
    BY <2>3, <2>4, <2>5, <2>6 DEF IInv
<1> QED
  BY <1>1, <1>2, <1>3, <1>4, <1>5 DEF Runtime

\* What comes from outside: the owner starts and stops the runtime, a browser
\* asks, the panel is turned, the network fails.
LEMMA OutsideStep ==
  ASSUME IInv, Start \/ Stop \/ PanelTurn \/ LinkLost \/ \E ctl \in Controls : Ask(ctl)
  PROVE  IInv'
<1>0. line \in Seq(Mutations)
  BY DEF IInv, TypeOK, Mutations
<1>1. CASE Start
  <2>1. /\ loop = "none" /\ running' = TRUE /\ loop' = "connecting" /\ Disconnected
        /\ UNCHANGED <<meter, link, session, failed, store, polls, op, line, events>>
    BY <1>1 DEF Start
  <2>2. TypeOK' /\ SessionIs'
    BY <2>1, DisconnectedShowsNothing DEF IInv, TypeOK, SessionIs, polls
  <2>3. OpIs'
    BY <2>1, OpKept DEF polls, IInv, OpIs, OwnerWaits
  <2> QED
    BY <2>1, <2>2, <2>3, DisconnectedShowsNothing DEF IInv
<1>2. CASE Stop
  <2>1. /\ running' = FALSE /\ session' = FALSE /\ Disconnected
        /\ loop' = (IF loop = "delay" THEN "none" ELSE loop)
        /\ link' = (link /\ loop \notin {"connecting", "initial"})
        /\ failed' = (failed \/ session)
        /\ UNCHANGED <<meter, store, polls, op, line>>
    BY <1>2 DEF Stop
  <2>2. TypeOK' /\ SessionIs'
    BY <2>1, DisconnectedShowsNothing DEF IInv, TypeOK, SessionIs, polls
  <2>3. OpIs'
    BY <2>1, OpKept DEF polls, IInv, OpIs, OwnerWaits
  <2> QED
    BY <2>1, <2>2, <2>3, DisconnectedShowsNothing DEF IInv
<1>3. CASE PanelTurn
  <2>1. UNCHANGED <<runtime, polls, line, service, outdated>>
    BY <1>3 DEF PanelTurn
  <2>2. OpIs' /\ op' \in {None} \cup Operations /\ meter' \in Meters
    BY <1>3, TurnIsCounted
  <2>3. TypeOK' /\ SessionIs'
    BY <2>1, <2>2 DEF IInv, TypeOK, SessionIs, runtime, polls, service
  <2> QED
    BY <2>1, <2>2, <2>3, ShownKept DEF IInv
<1>4. CASE LinkLost
  <2>1. /\ link' = FALSE
        /\ UNCHANGED <<meter, running, loop, session, failed, store, polls, op, line, service, outdated>>
    BY <1>4 DEF LinkLost
  <2>2. TypeOK' /\ SessionIs'
    BY <2>1 DEF IInv, TypeOK, SessionIs, polls, service
  <2>3. OpIs'
    BY <2>1, OpKept DEF polls, IInv, OpIs, OwnerWaits
  <2> QED
    BY <2>1, <2>2, <2>3, ShownKept DEF IInv
<1>5. CASE \E ctl \in Controls : Ask(ctl)
  <2>1. PICK ctl \in Controls : Ask(ctl)
    BY <1>5
  <2> DEFINE asked == [ctl |-> ctl, stage |-> "queued", ready |-> FALSE]
  <2>2. /\ line' = Append(line, asked)
        /\ UNCHANGED <<meter, runtime, polls, op, service, outdated>>
    BY <2>1 DEF Ask
  <2>3. asked \in Mutations
    BY DEF Mutations
  <2> HIDE DEF asked
  <2>4. line' \in Seq(Mutations) /\ line' # <<>> /\ \A i \in 1 .. Len(line) : line'[i] = line[i]
    BY <1>0, <2>2, <2>3, AppendProperties
  <2>5. line # <<>> => 1 \in 1 .. Len(line)
    BY <1>0, EmptySeq
  <2>6. OpIs'
    <3>1. op # None /\ op.who = "request" => line' # <<>> /\ line'[1] = line[1]
      BY <2>4, <2>5 DEF IInv, OpIs, OwnerWaits
    <3> QED
      BY <2>2, <3>1, OpKept DEF runtime, polls
  <2>7. TypeOK' /\ SessionIs'
    BY <2>2, <2>4 DEF IInv, TypeOK, SessionIs, runtime, polls, service, Mutations
  <2> QED
    BY <2>2, <2>6, <2>7, ShownKept DEF IInv
<1> QED
  BY <1>1, <1>2, <1>3, <1>4, <1>5

LEMMA Invariance == Spec => []IInv
<1>1. ASSUME IInv, [Next]_vars PROVE IInv'
  <2>1. CASE UNCHANGED vars
    <3>1. UNCHANGED <<meter, runtime, polls, op, line, service, outdated, events>>
      BY <2>1 DEF vars
    <3>2. OpIs'
      BY <1>1, <3>1, OpKept DEF runtime, polls, IInv, OpIs, OwnerWaits
    <3>3. TypeOK' /\ SessionIs'
      BY <1>1, <3>1 DEF IInv, TypeOK, SessionIs, runtime, polls, service
    <3> QED
      BY <1>1, <3>1, <3>2, <3>3, ShownKept DEF IInv
  <2> QED
    BY <1>1, <2>1, QueryStep, PollStep, RequestStep, RuntimeStep, OutsideStep DEF Next, Poll
<1> QED
  BY <1>1, InitIInv, PTL DEF Spec

-----------------------------------------------------------------------------
(* The theorems.                                                           *)

\* The variables stay in their types: no step of a control, a state read or a
\* reading uses a field its operation has not got.
THEOREM TypeCorrect == Spec => []TypeOK
BY Invariance, PTL DEF IInv

\* A number is shown under the configuration it was measured with, unless the
\* panel was turned twice within its operation (readPrimarySnapshot).
THEOREM LabelsAreTrue == Spec => []LabelIsTrue
BY Invariance, PTL DEF IInv

\* No number outlives a change of the state, a mutation or its session
\* (acceptState, acceptSnapshot, createSession, stop).
THEOREM ReadingsAreFresh == Spec => []ReadingIsFresh
BY Invariance, PTL DEF IInv

\* A range or rate control writes to the function its browser saw or not at
\* all, unless the panel is turned while its operation runs (setControl,
\* requireCurrentFunction, readStableRange).
THEOREM WritesAreBound == Spec => WriteIsBound
<1> DEFINE Bound ==
      op # None /\ op.does = "write" /\ op' = None /\ op.turned = 0
        /\ Ctl.kind \in {"range", "rate"} /\ meter' # meter
      => /\ meter.fn = Ctl.fn /\ meter'.fn = meter.fn
         /\ \A f \in Functions :
              (f = Ctl.fn /\ Ctl.kind = "range") \/ meter'.range[f] = meter.range[f]
<1>1. ASSUME IInv, [Next]_vars PROVE [Bound]_vars
  <2> SUFFICES ASSUME op # None, op.does = "write", op' = None, meter' # meter PROVE Bound
    OBVIOUS
  <2>1. CASE RequestCommand
    <3>1. Steps(Ctl)[op.step] = "command" /\ meter' \in Command(Ctl)
      BY <2>1 DEF RequestCommand, Writing
    <3> QED
      BY <1>1, <3>1, CommandTyped
  <2>2. CASE Query
    BY <1>1, <2>2, DmmAssumption, OpBegins, QueryGoesOn DEF Query
  <2>3. CASE PanelTurn
    BY <1>1, <2>3, TurnIsCounted
  <2>4. meter' = meter \/ RequestCommand \/ Query \/ PanelTurn
    <3>1. CASE Poll \/ PollWakes("state")
      BY <3>1 DEF Poll, PollState, PollReading, PollFails, PollWakes
    <3>2. CASE Request
      BY <3>2 DEF Request, RequestGoesOn, RequestCheck, RequestReadback, RequestFails
    <3>3. CASE Runtime
      BY <3>3 DEF Runtime, Connect, Serve, CreateFails, RetryDelayOver, EndSession, Disposed
    <3>4. CASE Start \/ Stop \/ LinkLost \/ \E ctl \in Controls : Ask(ctl)
      BY <3>4 DEF Start, Stop, LinkLost, Ask
    <3> QED
      BY <1>1, <3>1, <3>2, <3>3, <3>4 DEF Next, vars
  <2> QED
    BY <2>1, <2>2, <2>3, <2>4
<1> QED
  BY <1>1, Invariance, PTL DEF Spec, WriteIsBound
=============================================================================
