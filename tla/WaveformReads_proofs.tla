-------------------------- MODULE WaveformReads_proofs --------------------------
(***************************************************************************)
(* What holds of the waveform reads for any set of sources, and so even    *)
(* when the driver is wrong about the source the scope has selected        *)
(* (FrameIsItsSource): the decoder gets the sample format it expects, and  *)
(* the X metadata of the present timebase.  And what holds until a live    *)
(* read has skipped SOURce for another source than the one read last: the  *)
(* waveform is its source's, with the Y metadata it has.                   *)
(*                                                                         *)
(* The second part is the session of the scope within which those reads    *)
(* happen (ScopeSession.tla): what holds of it for any number of failures  *)
(* and Sleep requests.                                                     *)
(*                                                                         *)
(* The third part is the controller (ScopeController.tla), which changes   *)
(* the settings those reads are made under: what holds of it for any       *)
(* number of callers, requests and refusals.                               *)
(***************************************************************************)
EXTENDS WaveformReads, ScopeSession, ScopeController, SequenceTheorems, FiniteSetTheorems, TLAPS

\* A rescaled or shifted preamble is a preamble, or none.
LEMMA RescaledType ==
  ASSUME NEW p \in Preambles \cup {Nothing}, NEW previous \in Scales \cup {Unknown},
         NEW next \in Scales
  PROVE  Rescaled(p, previous, next) \in Preambles \cup {Nothing}
BY DEF Rescaled, Preambles

LEMMA ShiftedType ==
  ASSUME NEW p \in Preambles \cup {Nothing}, NEW next \in Offsets
  PROVE  Shifted(p, next) \in Preambles \cup {Nothing}
BY DEF Shifted, Preambles

-----------------------------------------------------------------------------
(* The inductive invariant: what the driver remembers of a setting is what *)
(* the scope has, whatever it remembers of a preamble has the present      *)
(* timebase, and a read past its settings has the settings of its kind.    *)

SetupTrue == \A f \in Settings : setup[f] # None => setup[f] = settings[f]

TimeTrue == \A s \in Sources : preambles[s] # Nothing => preambles[s].time = timebase

Configured ==
  \/ op.kind = "live" /\ op.step \in {"source", "preamble", "data"}
  \/ op.kind = "raw" /\ op.step = "data"
  => setup = SetupOf(op.kind)

IInv == TypeOK /\ SetupTrue /\ TimeTrue /\ Configured /\ FrameConfigured /\ HorizontalFresh

LEMMA SetupsTyped ==
  /\ LiveSetup \in [Settings -> SettingValues]
  /\ RawSetup \in [Settings -> SettingValues]
  /\ LiveSetup # Nothing /\ RawSetup # Nothing
  /\ \A k : SetupOf(k) \in [Settings -> SettingValues]
  /\ \A k : \A f \in Settings : SetupOf(k)[f] # None
BY DEF LiveSetup, RawSetup, Settings, SettingValues, SetupOf, Nothing, None

LEMMA PreambleTyped ==
  ASSUME TypeOK, NEW s \in Sources
  PROVE  Preamble(s) \in Preambles /\ Preamble(s).time = timebase
BY WaveformAssumption DEF TypeOK, Preamble, Preambles

\* A scope whose settings are those the driver remembers has all of a setup
\* that the driver remembers.
LEMMA SetupReached ==
  ASSUME TypeOK, SetupTrue, NEW k, setup = SetupOf(k)
  PROVE  settings = SetupOf(k)
BY SetupsTyped DEF TypeOK, SetupTrue

LEMMA InitIInv == Init => IInv
<1> SUFFICES ASSUME Init PROVE IInv
  OBVIOUS
<1> USE DEF Init
<1>1. TypeOK
  <2>1. 0 \in 0 .. MaxWrites
    BY WaveformAssumption
  <2>2. op = Idle /\ op.kind = "idle"
    BY DEF Idle
  <2>3. settings \in [Settings -> SettingValues]
    BY SetupsTyped
  <2> QED
    BY <2>1, <2>2, <2>3, WaveformAssumption DEF TypeOK, Sources, Cleared, At, ScopeScales
<1>2. SetupTrue /\ TimeTrue
  BY DEF SetupTrue, TimeTrue, Cleared
<1>3. Configured /\ FrameConfigured /\ HorizontalFresh
  BY DEF Configured, FrameConfigured, HorizontalFresh, Idle
<1> QED
  BY <1>1, <1>2, <1>3 DEF IInv
-----------------------------------------------------------------------------
(* Reads keep the invariant.                                               *)

LEMMA StartKeeps ==
  ASSUME IInv, NEW kind \in {"live", "raw"}, NEW s \in Sources,
         kind = "raw" => s \in Channels, StartRead(kind, s)
  PROVE  IInv'
<1> USE DEF IInv, StartRead, scope, driver, past
<1>1. TypeOK'
  BY DEF TypeOK, At, Sources
<1>2. SetupTrue' /\ TimeTrue' /\ FrameConfigured' /\ HorizontalFresh'
  BY DEF SetupTrue, TimeTrue, FrameConfigured, HorizontalFresh
<1>3. Configured'
  BY DEF Configured
<1> QED
  BY <1>1, <1>2, <1>3

LEMMA SelectSourceKeeps ==
  ASSUME IInv, SelectSource
  PROVE  IInv'
<1> USE DEF IInv, SelectSource, At, Then, past
<1>1. TypeOK'
  <2>1. op.source \in Sources /\ op.kind \in {"live", "raw"} /\ op # Idle
    BY DEF TypeOK, Sources, Idle, None
  <2>2. \/ op' \in [kind : {"live"}, source : Sources, step : {"preamble"}]
        \/ op' \in [kind : {"raw"}, source : Channels, step : {"settings"}]
    BY <2>1 DEF TypeOK
  <2>3. selected' \in Sources /\ source' \in Sources \cup {None}
    BY <2>1 DEF TypeOK
  <2> QED
    BY <2>2, <2>3 DEF TypeOK
<1>2. SetupTrue' /\ TimeTrue' /\ FrameConfigured' /\ HorizontalFresh'
  BY DEF SetupTrue, TimeTrue, FrameConfigured, HorizontalFresh
<1>3. Configured'
  BY DEF Configured, TypeOK, Idle
<1> QED
  BY <1>1, <1>2, <1>3

LEMMA SetSettingKeeps ==
  ASSUME IInv, NEW f \in Settings, SetSetting(f)
  PROVE  IInv'
<1> USE DEF IInv, SetSetting, At, past
<1>1. TypeOK'
  <2>1. SetupOf(op.kind)[f] \in SettingValues
    BY SetupsTyped
  <2>2. settings' \in [Settings -> SettingValues]
    BY <2>1 DEF TypeOK
  <2>3. setup' \in [Settings -> SettingValues \cup {None}]
    BY <2>1 DEF TypeOK
  <2> QED
    BY <2>2, <2>3 DEF TypeOK
<1>2. SetupTrue'
  BY DEF SetupTrue, TypeOK
<1>3. TimeTrue' /\ FrameConfigured' /\ HorizontalFresh'
  BY DEF TimeTrue, FrameConfigured, HorizontalFresh
<1>4. Configured'
  BY DEF Configured
<1> QED
  BY <1>1, <1>2, <1>3, <1>4

LEMMA SettingsDoneKeeps ==
  ASSUME IInv, SettingsDone
  PROVE  IInv'
<1> USE DEF IInv, SettingsDone, At, Then, scope, driver, Warm
<1>1. TypeOK'
  <2>1. op.source \in Sources /\ op.kind \in {"live", "raw"} /\ op # Idle
    BY DEF TypeOK, Sources, Idle, None
  <2>2. \/ op' \in [kind : {"live"}, source : Sources, step : {"source", "data"}]
        \/ op' \in [kind : {"raw"}, source : Channels, step : {"data"}]
    BY <2>1 DEF TypeOK
  <2>3. op'.kind = "live" /\ op'.step = "data" => preambles[op'.source] # Nothing
    BY <2>1 DEF TypeOK
  <2>4. strayed' \in BOOLEAN /\ rounded' \subseteq Channels
    BY DEF TypeOK
  <2> QED
    BY <2>2, <2>3, <2>4 DEF TypeOK
<1>2. SetupTrue' /\ TimeTrue' /\ FrameConfigured' /\ HorizontalFresh'
  BY DEF SetupTrue, TimeTrue, FrameConfigured, HorizontalFresh
<1>3. setup = SetupOf(op.kind)
  <2>1. \A f \in Settings : setup[f] = SetupOf(op.kind)[f]
    BY DEF Outdated
  <2>2. SetupOf(op.kind) \in [Settings -> SettingValues]
    BY SetupsTyped
  <2>3. setup \in [Settings -> SettingValues \cup {None}]
    BY DEF TypeOK
  <2> QED
    BY <2>1, <2>2, <2>3
<1>4. Configured'
  BY <1>3 DEF Configured, TypeOK, Idle
<1> QED
  BY <1>1, <1>2, <1>4

LEMMA ReadPreambleKeeps ==
  ASSUME IInv, ReadPreamble
  PROVE  IInv'
<1> USE DEF IInv, ReadPreamble, At, Then
<1>1. Preamble(selected) \in Preambles /\ Preamble(selected).time = timebase
  BY PreambleTyped DEF TypeOK
<1>2. op.source \in Sources /\ op.kind = "live"
  BY DEF TypeOK, Sources, Idle, None
<1>3. Preamble(selected) # Nothing
  BY <1>1 DEF Preambles, Nothing
<1>4. TypeOK'
  <2>1. strayed' \in BOOLEAN /\ rounded' \subseteq Channels
    BY DEF TypeOK
  <2> QED
    BY <1>1, <1>2, <1>3, <2>1 DEF TypeOK, scope, Idle
<1>5. SetupTrue' /\ FrameConfigured' /\ HorizontalFresh'
  BY DEF SetupTrue, FrameConfigured, HorizontalFresh, scope
<1>6. TimeTrue'
  BY <1>1, <1>2 DEF TimeTrue, TypeOK, scope
<1>7. Configured'
  BY <1>2 DEF Configured, TypeOK, Idle
<1> QED
  BY <1>4, <1>5, <1>6, <1>7

\* A frame read past its settings has the settings of its kind.
LEMMA FrameRead ==
  ASSUME IInv, op # Idle, At("data"), NEW p \in Preambles, p.time = timebase,
         frame' = Frame(p)
  PROVE  /\ frame' \in [kind : {"live", "raw"}, of : Sources, from : Sources,
                        meta : Preambles, truth : Preambles,
                        settings : [Settings -> SettingValues]]
         /\ FrameConfigured' /\ HorizontalFresh'
<1>1. op.source \in Sources /\ op.kind \in {"live", "raw"}
  BY DEF IInv, TypeOK, Sources
<1>2. settings = SetupOf(op.kind)
  BY <1>1, SetupReached DEF IInv, Configured, At
<1>3. Preamble(op.source) \in Preambles /\ Preamble(op.source).time = timebase
  BY <1>1, PreambleTyped DEF IInv
<1>4. selected \in Sources /\ settings \in [Settings -> SettingValues]
  BY DEF IInv, TypeOK
<1> QED
  BY <1>1, <1>2, <1>3, <1>4 DEF Frame, FrameConfigured, HorizontalFresh

LEMMA ReadDataKeeps ==
  ASSUME IInv, ReadLiveData \/ ReadRawData
  PROVE  IInv'
<1>1. op # Idle /\ At("data") /\ op' = Idle /\ op.source \in Sources
  BY DEF ReadLiveData, ReadRawData, Idle, At, None, IInv, TypeOK, Sources
<1>2. PICK p \in Preambles : p.time = timebase /\ frame' = Frame(p)
  <2>1. CASE ReadLiveData
    <3>1. preambles[op.source] # Nothing
      BY <2>1 DEF ReadLiveData, IInv, TypeOK
    <3>2. preambles[op.source] \in Preambles
      BY <1>1, <3>1 DEF IInv, TypeOK
    <3> QED
      BY <1>1, <2>1, <3>1, <3>2 DEF ReadLiveData, IInv, TimeTrue
  <2>2. CASE ReadRawData
    BY <2>2, PreambleTyped DEF ReadRawData, IInv, TypeOK
  <2> QED
    BY <2>1, <2>2
<1>3. /\ frame' \in [kind : {"live", "raw"}, of : Sources, from : Sources,
                     meta : Preambles, truth : Preambles,
                     settings : [Settings -> SettingValues]]
      /\ FrameConfigured' /\ HorizontalFresh'
  BY <1>1, <1>2, FrameRead
<1>4. source' \in Sources \cup {None}
  BY <1>1 DEF ReadLiveData, ReadRawData, driver, IInv, TypeOK
<1>5. UNCHANGED <<scope, setup, preambles, scales, past>>
  BY DEF ReadLiveData, ReadRawData, driver
<1>6. TypeOK'
  BY <1>1, <1>3, <1>4, <1>5 DEF IInv, TypeOK, scope, past, Idle
<1>7. SetupTrue' /\ TimeTrue'
  BY <1>5 DEF IInv, SetupTrue, TimeTrue, scope
<1>8. Configured'
  BY <1>1 DEF Configured, Idle
<1> QED
  BY <1>3, <1>6, <1>7, <1>8 DEF IInv

LEMMA FailKeeps ==
  ASSUME IInv, Fail
  PROVE  IInv'
<1> USE DEF IInv, Fail, scope, driver, past
<1>1. TypeOK'
  BY DEF TypeOK, Idle, At
<1>2. SetupTrue' /\ TimeTrue' /\ FrameConfigured' /\ HorizontalFresh' /\ Configured'
  BY DEF SetupTrue, TimeTrue, FrameConfigured, HorizontalFresh, Configured, Idle
<1> QED
  BY <1>1, <1>2

-----------------------------------------------------------------------------
(* Writes keep the invariant: between reads, no frame and no step.         *)

LEMMA VerticalKeeps ==
  ASSUME IInv, op = Idle, UNCHANGED <<selected, settings, timebase, source, setup, op, strayed>>,
         frame' = Nothing, displayed' \subseteq Sources, rounded' \subseteq Channels,
         scale' \in [Sources -> Scales], offset' \in [Sources -> Offsets],
         scales' \in [Channels -> Scales \cup {Unknown}],
         preambles' \in [Sources -> Preambles \cup {Nothing}],
         \A s \in Sources : preambles'[s] # Nothing =>
           preambles[s] # Nothing /\ preambles'[s].time = preambles[s].time
  PROVE  IInv'
<1>1. TypeOK'
  BY DEF IInv, TypeOK, Idle, At
<1>2. SetupTrue' /\ TimeTrue' /\ Configured' /\ FrameConfigured' /\ HorizontalFresh'
  BY DEF IInv, SetupTrue, TimeTrue, Configured, FrameConfigured, HorizontalFresh
<1> QED
  BY <1>1, <1>2 DEF IInv

LEMMA EnabledKeeps ==
  ASSUME IInv,
         \/ \E c \in Channels : SetChannelEnabled(c)
         \/ \E m \in Maths : SetMathEnabled(m)
  PROVE  IInv'
<1>1. ASSUME NEW s \in Sources, displayed' = Toggled(s)
      PROVE  displayed' \subseteq Sources
  BY <1>1 DEF Toggled, IInv, TypeOK
<1>2. ASSUME NEW c \in Channels, SetChannelEnabled(c)
      PROVE  IInv'
  <2>1. displayed' \subseteq Sources
    BY <1>1, <1>2 DEF SetChannelEnabled, Sources
  <2> QED
    BY <1>2, <2>1, VerticalKeeps DEF SetChannelEnabled, driver, past, IInv, TypeOK
<1>3. ASSUME NEW m \in Maths, SetMathEnabled(m)
      PROVE  IInv'
  <2>1. displayed' \subseteq Sources /\ m \in Sources
    BY <1>1, <1>3 DEF SetMathEnabled, Sources
  <2>2. /\ preambles' \in [Sources -> Preambles \cup {Nothing}]
        /\ \A s \in Sources : preambles'[s] # Nothing =>
             preambles[s] # Nothing /\ preambles'[s].time = preambles[s].time
    BY <1>3, <2>1 DEF SetMathEnabled, IInv, TypeOK
  <2> QED
    BY <1>3, <2>1, <2>2, VerticalKeeps DEF SetMathEnabled, past, IInv, TypeOK
<1> QED
  BY <1>2, <1>3

\* What the scope takes of a channel's settings is of their kind.
LEMMA TakesType ==
  ASSUME TypeOK, NEW c \in Channels, NEW s \in Scales, NEW o \in Offsets, NEW b \in BOOLEAN,
         Takes(c, s, o, b)
  PROVE  /\ scale' \in [Sources -> Scales] /\ offset' \in [Sources -> Offsets]
         /\ rounded' \subseteq Channels
         /\ scale'[c] = s /\ offset'[c] = o
         /\ \A x \in Sources \ {c} : scale'[x] = scale[x] /\ offset'[x] = offset[x]
BY DEF TypeOK, Takes, Sources

LEMMA TakenType ==
  ASSUME TypeOK, NEW c \in Channels
  PROVE  /\ c \in Sources /\ scale[c] \in Scales /\ offset[c] \in Offsets
         /\ \A s \in Scales : ScaleTaken[s] \in Scales
         /\ \A s \in Scales : \A o \in Offsets : OffsetTaken[s][o] \in Offsets
BY WaveformAssumption DEF TypeOK, Sources

LEMMA SetChannelScaleKeeps ==
  ASSUME IInv, NEW c \in Channels, NEW v \in Scales, SetChannelScale(c, v)
  PROVE  IInv'
<1> USE DEF SetChannelScale
<1>0. c \in Sources /\ scales[c] \in Scales \cup {Unknown}
      /\ preambles[c] \in Preambles \cup {Nothing}
  BY DEF Sources, IInv, TypeOK
<1>1. Rescaled(preambles[c], scales[c], v) \in Preambles \cup {Nothing}
  BY <1>0, RescaledType
<1>2. preambles' \in [Sources -> Preambles \cup {Nothing}]
  BY <1>0, <1>1 DEF IInv, TypeOK
<1>3. \A s \in Sources : preambles'[s] # Nothing =>
        preambles[s] # Nothing /\ preambles'[s].time = preambles[s].time
  BY <1>0 DEF IInv, TypeOK, Rescaled, Preambles
<1>4. /\ scale' \in [Sources -> Scales] /\ offset' \in [Sources -> Offsets]
      /\ rounded' \subseteq Channels
  <2> DEFINE taken == ScaleTaken[v]
             moved == OffsetTaken[taken][offset[c]]
  <2>1. taken \in Scales /\ moved \in Offsets
    BY TakenType DEF IInv
  <2>2. Takes(c, taken, moved, taken = v /\ moved = offset[c])
    OBVIOUS
  <2> HIDE DEF taken, moved
  <2> QED
    BY <2>1, <2>2, TakesType DEF IInv
<1>5. scales' \in [Channels -> Scales \cup {Unknown}]
  BY DEF IInv, TypeOK
<1>6. /\ op = Idle /\ UNCHANGED <<selected, settings, timebase, source, setup, op, strayed>>
      /\ frame' = Nothing /\ displayed' \subseteq Sources
  BY DEF IInv, TypeOK
<1> QED
  BY <1>2, <1>3, <1>4, <1>5, <1>6, VerticalKeeps

LEMMA SetChannelOffsetKeeps ==
  ASSUME IInv, NEW c \in Channels, NEW v \in Offsets, SetChannelOffset(c, v)
  PROVE  IInv'
<1> USE DEF SetChannelOffset
<1>0. c \in Sources /\ preambles[c] \in Preambles \cup {Nothing}
  BY DEF Sources, IInv, TypeOK
<1>1. Shifted(preambles[c], v) \in Preambles \cup {Nothing}
  BY <1>0, ShiftedType
<1>2. preambles' \in [Sources -> Preambles \cup {Nothing}]
  BY <1>0, <1>1 DEF IInv, TypeOK
<1>3. \A s \in Sources : preambles'[s] # Nothing =>
        preambles[s] # Nothing /\ preambles'[s].time = preambles[s].time
  BY <1>0 DEF IInv, TypeOK, Shifted, Preambles
<1>4. /\ scale' \in [Sources -> Scales] /\ offset' \in [Sources -> Offsets]
      /\ rounded' \subseteq Channels
  <2> DEFINE taken == OffsetTaken[scale[c]][v]
  <2>1. taken \in Offsets /\ scale[c] \in Scales
    BY TakenType DEF IInv
  <2>2. Takes(c, scale[c], taken, taken = v)
    OBVIOUS
  <2> HIDE DEF taken
  <2> QED
    BY <2>1, <2>2, TakesType DEF IInv
<1>5. scales' \in [Channels -> Scales \cup {Unknown}]
  BY DEF IInv, TypeOK
<1>6. /\ op = Idle /\ UNCHANGED <<selected, settings, timebase, source, setup, op, strayed>>
      /\ frame' = Nothing /\ displayed' \subseteq Sources
  BY DEF IInv, TypeOK
<1> QED
  BY <1>2, <1>3, <1>4, <1>5, <1>6, VerticalKeeps

LEMMA SetMathKeeps ==
  ASSUME IInv, NEW m \in Maths, NEW v \in Scales, NEW o \in Offsets, SetMath(m, v, o)
  PROVE  IInv'
<1> USE DEF SetMath
<1>1. m \in Sources
  BY DEF Sources
<1>2. preambles' \in [Sources -> Preambles \cup {Nothing}]
  BY <1>1 DEF IInv, TypeOK
<1>3. \A s \in Sources : preambles'[s] # Nothing =>
        preambles[s] # Nothing /\ preambles'[s].time = preambles[s].time
  BY <1>1 DEF IInv, TypeOK
<1>4. /\ scale' \in [Sources -> Scales] /\ offset' \in [Sources -> Offsets]
      /\ scales' \in [Channels -> Scales \cup {Unknown}]
  BY <1>1 DEF IInv, TypeOK
<1> QED
  BY <1>2, <1>3, <1>4, VerticalKeeps DEF past, IInv, TypeOK

LEMMA ReadScaleKeeps ==
  ASSUME IInv, NEW c \in Channels, ReadScale(c)
  PROVE  IInv'
<1> USE DEF ReadScale, scope, past
<1>1. scale[c] \in Scales
  BY DEF IInv, TypeOK, Sources
<1>2. scales' \in [Channels -> Scales \cup {Unknown}]
  BY <1>1 DEF IInv, TypeOK
<1> QED
  BY <1>2, VerticalKeeps DEF IInv, TypeOK

\* A change of the scope that the driver answers by forgetting everything.
LEMMA ForgottenKeeps ==
  ASSUME IInv, Changed, Forgotten, op' = Idle, frame' = Nothing,
         scales' \in [Channels -> Scales \cup {Unknown}]
  PROVE  IInv'
<1>1. /\ selected' \in Sources /\ displayed' \subseteq Sources
      /\ timebase' \in 0 .. MaxWrites
      /\ scale' \in [Sources -> Scales] /\ offset' \in [Sources -> Offsets]
      /\ settings' \in [Settings -> SettingValues]
  <2>1. /\ selected \in Sources /\ displayed \subseteq Sources
        /\ timebase \in 0 .. MaxWrites
        /\ scale \in [Sources -> Scales] /\ offset \in [Sources -> Offsets]
        /\ settings \in [Settings -> SettingValues]
    BY DEF IInv, TypeOK
  <2>2. ASSUME NEW f \in Settings
        PROVE  /\ [settings EXCEPT ![f] = LiveSetup[f]] \in [Settings -> SettingValues]
               /\ [settings EXCEPT ![f] = RawSetup[f]] \in [Settings -> SettingValues]
    BY <2>1, SetupsTyped
  <2> QED
    BY <2>1, <2>2, WaveformAssumption DEF Changed, Sources, ScopeScales, ScopeOffsets
<1>2. TypeOK'
  BY <1>1 DEF TypeOK, Forgotten, Cleared, Idle, At
<1>3. SetupTrue' /\ TimeTrue' /\ Configured' /\ FrameConfigured' /\ HorizontalFresh'
  BY DEF SetupTrue, TimeTrue, Configured, FrameConfigured, HorizontalFresh,
         Forgotten, Cleared, Idle
<1> QED
  BY <1>2, <1>3 DEF IInv

LEMMA SetHorizontalKeeps ==
  ASSUME IInv, SetHorizontal
  PROVE  IInv'
<1> USE DEF IInv, SetHorizontal, past
<1>1. TypeOK'
  BY WaveformAssumption DEF TypeOK, Cleared, Idle, At
<1>2. SetupTrue' /\ TimeTrue' /\ Configured' /\ FrameConfigured' /\ HorizontalFresh'
  BY DEF SetupTrue, TimeTrue, Configured, FrameConfigured, HorizontalFresh, Cleared
<1> QED
  BY <1>1, <1>2

\* What changes the scope leaves its scales within their set.
LEMMA ChangedScale ==
  ASSUME TypeOK, Changed PROVE scale' \in [Sources -> Scales]
<1>1. scale \in [Sources -> Scales]
  BY DEF TypeOK
<1>2. CASE UNCHANGED scale
  BY <1>1, <1>2
<1>3. CASE \E c \in Channels, s \in ScopeScales : scale' = [scale EXCEPT ![c] = s]
  BY <1>1, <1>3 DEF ScopeScales
<1> QED
  BY <1>2, <1>3 DEF Changed

LEMMA ScopeChangeKeeps ==
  ASSUME IInv, ExecuteRawScpi \/ Reconnect
  PROVE  IInv'
<1>1. CASE ExecuteRawScpi
  BY <1>1, ForgottenKeeps DEF ExecuteRawScpi, Invalidate
<1>2. CASE Reconnect
  <2>1. scale' \in [Sources -> Scales]
    BY <1>2, ChangedScale DEF Reconnect, IInv
  <2>2. scales' \in [Channels -> Scales \cup {Unknown}]
    BY <1>2, <2>1 DEF Reconnect, Sources
  <2> QED
    BY <1>2, <2>2, ForgottenKeeps DEF Reconnect
<1> QED
  BY <1>1, <1>2

-----------------------------------------------------------------------------

LEMMA StepKeepsIInv == IInv /\ [Next]_vars => IInv'
<1> SUFFICES ASSUME IInv, [Next]_vars PROVE IInv'
  OBVIOUS
<1>1. CASE Read
  <2>1. ASSUME NEW s \in displayed, ReadLive(s) PROVE IInv'
    BY <2>1, StartKeeps DEF ReadLive, IInv, TypeOK
  <2>2. ASSUME NEW c \in displayed \cap Channels, ReadRaw(c) PROVE IInv'
    BY <2>2, StartKeeps DEF ReadRaw, Sources
  <2> QED
    BY <1>1, <2>1, <2>2, SelectSourceKeeps, SetSettingKeeps, SettingsDoneKeeps,
       ReadPreambleKeeps, ReadDataKeeps, FailKeeps DEF Read
<1>2. CASE Write
  BY <1>2, EnabledKeeps, SetChannelScaleKeeps, SetChannelOffsetKeeps, SetMathKeeps,
     ReadScaleKeeps, SetHorizontalKeeps, ScopeChangeKeeps DEF Write, ScopeScales, ScopeOffsets
<1>3. CASE UNCHANGED vars
  BY <1>3 DEF vars, scope, driver, past, IInv, TypeOK, At, SetupTrue, TimeTrue, Configured,
              FrameConfigured, HorizontalFresh
<1> QED
  BY <1>1, <1>2, <1>3 DEF Next

LEMMA Invariance == Spec => []IInv
BY InitIInv, StepKeepsIInv, PTL DEF Spec

(* Every variable keeps its kind, and a live read that reaches its data    *)
(* has a preamble to decode them with.                                     *)
THEOREM TypeCorrect == Spec => []TypeOK
<1>1. IInv => TypeOK
  BY DEF IInv
<1> QED
  BY Invariance, <1>1, PTL

(* For any sources, scales and number of writes, no waveform is read with  *)
(* another mode, format or point count than its decoder assumes            *)
(* (readLiveWaveform, readRawWaveform, invalidateWaveformSetup).           *)
THEOREM AlwaysConfigured == Spec => []FrameConfigured
<1>1. IInv => FrameConfigured
  BY DEF IInv
<1> QED
  BY Invariance, <1>1, PTL

(* The X metadata of every waveform is that of the timebase it was read    *)
(* with, whichever source the scope had selected: the cached preambles     *)
(* never survive a horizontal write, raw SCPI or a new session.            *)
THEOREM AlwaysHorizontalFresh == Spec => []HorizontalFresh
<1>1. IInv => HorizontalFresh
  BY DEF IInv
<1> QED
  BY Invariance, <1>1, PTL

(* Whatever the driver left out of a read because its caches said so, the  *)
(* frame is described as it was acquired (readLiveWaveform, readRawWaveform).*)
THEOREM AlwaysAsRead == Spec => []FrameAsRead
<1>1. FrameConfigured /\ HorizontalFresh => FrameAsRead
  BY DEF FrameAsRead
<1> QED
  BY <1>1, AlwaysConfigured, AlwaysHorizontalFresh, PTL
-----------------------------------------------------------------------------
(* Until the driver has strayed: what it believes and remembers is true.   *)

\* The source it believes selected is, and a read that counts on it has it.
Believes ==
  /\ source # None => selected = source
  /\ \/ At("preamble") \/ At("data")
     \/ op.kind = "raw" /\ At("settings")
     => source = op.source

\* The preamble of a source follows the scope.
Remembers(x) ==
  x \notin rounded =>
    /\ preambles[x] # Nothing => preambles[x].inc = scale[x] /\ preambles[x].off = offset[x]
    /\ ScaleKnown(x)

FrameTrue ==
  frame # Nothing =>
    /\ frame.from = frame.of
    /\ frame.of \notin rounded =>
         frame.meta.inc = frame.truth.inc /\ frame.meta.off = frame.truth.off

Knows == Believes /\ (\A x \in Sources : Remembers(x)) /\ FrameTrue

\* A preamble of a scale is rescaled to one of the next scale.
LEMMA RescaledIs ==
  ASSUME NEW p \in Preambles, NEW previous \in Scales, NEW next \in Scales,
         p.inc = previous
  PROVE  Rescaled(p, previous, next).inc = next /\ Rescaled(p, previous, next).off = p.off
<1>1. p # Nothing /\ previous # Unknown
  BY WaveformAssumption DEF Preambles, Nothing, Unknown
<1>2. Rescaled(p, previous, next) = [p EXCEPT !.inc = next]
  BY <1>1 DEF Rescaled, Preambles
<1> QED
  BY <1>2 DEF Preambles

\* What a step that leaves the cache of x alone keeps.
LEMMA KeptRemembered ==
  ASSUME NEW x \in Sources, Remembers(x), x \notin rounded' => x \notin rounded,
         preambles'[x] = preambles[x], scale'[x] = scale[x], offset'[x] = offset[x],
         x \in Channels => scales'[x] = scales[x]
  PROVE  Remembers(x)'
BY DEF Remembers, ScaleKnown

\* A write happens between reads and leaves the selected source.
LEMMA WriteBelieves ==
  ASSUME Believes, op = Idle, UNCHANGED <<op, source, selected>>, frame' = Nothing
  PROVE  Believes' /\ FrameTrue'
BY DEF Believes, FrameTrue, At, Idle, None

\* What the driver has forgotten is not wrong.
LEMMA ForgottenKnows ==
  ASSUME op' = Idle, source' = None, preambles' = Cleared, frame' = Nothing,
         \A c \in Channels : scales'[c] \in {Unknown, scale'[c]}
  PROVE  Knows'
<1>1. op'.kind = "idle" /\ op'.step = None
  BY DEF Idle
<1>2. Believes'
  BY <1>1 DEF Believes, At, None
<1>3. ASSUME NEW x \in Sources PROVE Remembers(x)'
  BY <1>3 DEF Remembers, ScaleKnown, Cleared
<1>4. FrameTrue'
  BY DEF FrameTrue
<1> QED
  BY <1>2, <1>3, <1>4 DEF Knows

LEMMA ReadKnows ==
  ASSUME IInv, Knows, ~strayed, ~strayed', Read
  PROVE  Knows'
<1> USE DEF At, Then
<1>1. TypeOK /\ Believes /\ (\A x \in Sources : Remembers(x))
  BY DEF IInv, Knows
<1>2. ASSUME NEW kind, NEW s, StartRead(kind, s) PROVE Knows'
  <2>1. /\ op' = [kind |-> kind, source |-> s,
                  step |-> IF kind = "live" THEN "settings" ELSE "source"]
        /\ frame' = Nothing /\ UNCHANGED <<scope, driver, past>>
    BY <1>2 DEF StartRead
  <2>2. op'.kind = kind /\ op'.step = IF kind = "live" THEN "settings" ELSE "source"
    BY <2>1
  <2>3. Believes'
    BY <1>1, <2>1, <2>2 DEF Believes, scope, driver
  <2>4. ASSUME NEW x \in Sources PROVE Remembers(x)'
    BY <1>1, <2>1, KeptRemembered DEF scope, driver, past
  <2> QED
    BY <2>1, <2>3, <2>4 DEF Knows, FrameTrue
<1>3. ASSUME UNCHANGED <<scale, offset, preambles, scales, rounded>>, frame' = Nothing, Believes'
      PROVE  Knows'
  <2>1. ASSUME NEW x \in Sources PROVE Remembers(x)'
    BY <1>1, <1>3, KeptRemembered
  <2> QED
    BY <1>3, <2>1 DEF Knows, FrameTrue
<1>4. CASE SelectSource
  <2>1. op \in [kind : {"live", "raw"}, source : Sources,
                step : {"settings", "source", "preamble", "data"}]
    BY <1>1, <1>4 DEF SelectSource, TypeOK, Idle, None, Sources
  <2>2. source' = op.source /\ selected' = op.source /\ op'.source = op.source
    BY <1>1, <1>4, <2>1, WaveformAssumption DEF SelectSource, Believes
  <2> QED
    BY <1>3, <1>4, <2>2 DEF SelectSource, Believes, past
<1>5. CASE \E f \in Settings : SetSetting(f)
  BY <1>1, <1>3, <1>5 DEF SetSetting, Believes, past
<1>6. CASE SettingsDone
  <2>1. op \in [kind : {"live", "raw"}, source : Sources, step : {"settings"}]
    BY <1>1, <1>6 DEF SettingsDone, TypeOK, Idle, None, Sources
  <2>2. /\ op'.source = op.source /\ op'.kind = op.kind
        /\ op'.step = IF op.kind = "raw" \/ Warm THEN "data" ELSE "source"
    BY <1>6, <2>1 DEF SettingsDone
  <2>3. op.kind = "raw" \/ Warm => source = op.source
    BY <1>1, <1>6 DEF SettingsDone, Believes
  <2>4. Believes'
    BY <1>1, <1>6, <2>1, <2>2, <2>3 DEF SettingsDone, Believes, scope, driver
  <2> QED
    BY <1>3, <1>6, <2>4 DEF SettingsDone, scope, driver
<1>7. CASE ReadPreamble
  <2>1. /\ op \in [kind : {"live"}, source : Sources, step : {"preamble"}]
        /\ op' = [op EXCEPT !.step = "data"]
        /\ UNCHANGED <<scope, source, setup, scales>> /\ frame' = Nothing
        /\ rounded' = IF ScaleKnown(op.source) THEN rounded \ {op.source} ELSE rounded
        /\ preambles' = [preambles EXCEPT ![op.source] = Preamble(selected)]
    BY <1>1, <1>7 DEF ReadPreamble, TypeOK, Idle, None
  <2>2. source = op.source /\ selected = op.source
    BY <1>1, <2>1, WaveformAssumption DEF Believes
  <2>3. Believes'
    BY <2>1, <2>2 DEF Believes, scope
  <2>4. ASSUME NEW x \in Sources, x # op.source PROVE Remembers(x)'
    <3>1. preambles'[x] = preambles[x]
      BY <1>1, <2>1, <2>4 DEF TypeOK
    <3>2. x \notin rounded' => x \notin rounded
      BY <2>1, <2>4
    <3> QED
      BY <1>1, <2>1, <3>1, <3>2, KeptRemembered DEF scope
  <2>5. Remembers(op.source)'
    <3>1. preambles'[op.source] = [inc |-> scale[op.source], off |-> offset[op.source],
                                   time |-> timebase]
      BY <1>1, <2>1, <2>2 DEF TypeOK, Preamble
    <3>2. op.source \notin rounded' => ScaleKnown(op.source)
      <4>1. op.source \in Sources
        BY <2>1
      <4> QED
        BY <1>1, <2>1, <4>1 DEF Remembers
    <3>3. op'.source = op.source
      BY <2>1
    <3> QED
      BY <2>1, <3>1, <3>2, <3>3 DEF Remembers, ScaleKnown, scope
  <2>6. ASSUME NEW x \in Sources PROVE Remembers(x)'
    <3>1. CASE x = op.source
      <4>1. op'.source = op.source
        BY <2>1
      <4> QED
        BY <2>5, <3>1, <4>1 DEF Remembers, ScaleKnown
    <3> QED
      BY <2>4, <3>1
  <2> QED
    BY <2>1, <2>3, <2>6 DEF Knows, FrameTrue
<1>8. ASSUME NEW p, op # Idle, At("data"), frame' = Frame(p),
             op.source \notin rounded => p.inc = scale[op.source] /\ p.off = offset[op.source],
             op' = Idle, source' \in {source, op.source},
             UNCHANGED <<scope, preambles, scales, rounded>>
      PROVE  Knows'
  <2>1. source = op.source /\ op.source \in Sources
    BY <1>1, <1>8 DEF Believes, TypeOK, Sources
  <2>2. selected = op.source /\ source' = source
    BY <1>1, <1>8, <2>1, WaveformAssumption DEF Believes
  <2>3. Believes'
    BY <1>1, <1>8, <2>2 DEF Believes, scope, Idle, None
  <2>4. /\ frame'.of = op.source /\ frame'.from = selected /\ frame'.meta = p
        /\ frame'.truth.inc = scale[op.source] /\ frame'.truth.off = offset[op.source]
    BY <1>8 DEF Frame, Preamble
  <2>5. FrameTrue'
    BY <1>8, <2>2, <2>4 DEF FrameTrue
  <2>6. ASSUME NEW x \in Sources PROVE Remembers(x)'
    BY <1>1, <1>8, KeptRemembered DEF scope
  <2> QED
    BY <2>3, <2>5, <2>6 DEF Knows
<1>9. CASE ReadLiveData
  <2>1. op # Idle /\ op.source \in Sources /\ preambles[op.source] # Nothing
    BY <1>1, <1>9 DEF ReadLiveData, Idle, TypeOK, Sources
  <2>2. op.source \notin rounded => /\ preambles[op.source].inc = scale[op.source]
                                    /\ preambles[op.source].off = offset[op.source]
    BY <1>1, <2>1 DEF Remembers
  <2>3. /\ At("data") /\ frame' = Frame(preambles[op.source]) /\ op' = Idle
        /\ source' = op.source /\ UNCHANGED <<scope, preambles, scales, rounded>>
    BY <1>9 DEF ReadLiveData, past
  <2> QED
    BY <1>8, <2>1, <2>2, <2>3
<1>10. CASE ReadRawData
  <2>1. op # Idle /\ op.source \in Sources
    BY <1>1, <1>10 DEF ReadRawData, Idle, TypeOK, Sources
  <2>2. source = op.source /\ selected = op.source
    BY <1>1, <1>10, <2>1, WaveformAssumption DEF ReadRawData, Believes
  <2>3. Preamble(selected).inc = scale[op.source] /\ Preamble(selected).off = offset[op.source]
    BY <2>2 DEF Preamble
  <2>4. /\ At("data") /\ frame' = Frame(Preamble(selected)) /\ op' = Idle
        /\ source' = source /\ UNCHANGED <<scope, preambles, scales, rounded>>
    BY <1>10 DEF ReadRawData, driver, past
  <2> QED
    BY <1>8, <2>1, <2>3, <2>4
<1>11. CASE Fail
  <2>1. op' = Idle /\ frame' = Nothing /\ UNCHANGED <<scope, driver, past>>
    BY <1>11 DEF Fail
  <2>2. Believes'
    BY <1>1, <2>1 DEF Believes, scope, driver, Idle, None
  <2> QED
    BY <1>3, <2>1, <2>2 DEF scope, driver, past
<1> QED
  BY <1>2, <1>4, <1>5, <1>6, <1>7, <1>9, <1>10, <1>11 DEF Read, ReadLive, ReadRaw

\* A scale the scope takes as it is sent is followed by the driver.
LEMMA ScaleRemembered ==
  ASSUME TypeOK, NEW c \in Channels, NEW v \in Scales, SetChannelScale(c, v),
         \A x \in Sources : Remembers(x)
  PROVE  \A x \in Sources : Remembers(x)'
<1> DEFINE taken == ScaleTaken[v]
           moved == OffsetTaken[taken][offset[c]]
           asSent == taken = v /\ moved = offset[c]
<1>1. c \in Sources /\ taken \in Scales /\ moved \in Offsets
  BY TakenType
<1>2. Takes(c, taken, moved, asSent)
  BY DEF SetChannelScale
<1>3. /\ scale'[c] = taken /\ offset'[c] = moved
      /\ \A x \in Sources \ {c} : scale'[x] = scale[x] /\ offset'[x] = offset[x]
      /\ rounded' = IF asSent THEN rounded ELSE rounded \cup {c}
  <2> HIDE DEF taken, moved, asSent
  <2>1. asSent \in BOOLEAN
    BY DEF asSent
  <2> QED
    BY <1>1, <1>2, <2>1, TakesType DEF Takes
<1>4. /\ preambles' = [preambles EXCEPT ![c] = Rescaled(@, scales[c], v)]
      /\ scales' = [scales EXCEPT ![c] = v]
  BY DEF SetChannelScale
<1> HIDE DEF taken, moved
<1>5. ASSUME NEW x \in Sources, x # c PROVE Remembers(x)'
  <2>1. preambles'[x] = preambles[x] /\ (x \in Channels => scales'[x] = scales[x])
    BY <1>4, <1>5 DEF TypeOK
  <2>2. x \notin rounded' => x \notin rounded
    BY <1>3, <1>5
  <2> QED
    BY <1>3, <1>5, <2>1, <2>2, KeptRemembered
<1>6. ASSUME c \notin rounded'
      PROVE  /\ preambles'[c] # Nothing =>
                  preambles'[c].inc = scale'[c] /\ preambles'[c].off = offset'[c]
             /\ scales'[c] = scale'[c]
  <2>1. c \notin rounded /\ taken = v /\ moved = offset[c]
    BY <1>3, <1>6
  <2>2. scale'[c] = v /\ offset'[c] = offset[c] /\ scales'[c] = v
    BY <1>3, <1>4, <2>1 DEF TypeOK
  <2>3. preambles'[c] = Rescaled(preambles[c], scales[c], v)
    BY <1>1, <1>4 DEF TypeOK
  <2>4. CASE preambles[c] = Nothing \/ scales[c] = Unknown
    BY <2>2, <2>3, <2>4 DEF Rescaled
  <2>5. CASE preambles[c] # Nothing /\ scales[c] # Unknown
    <3>1. /\ preambles[c] \in Preambles /\ scales[c] \in Scales /\ scales[c] = scale[c]
          /\ preambles[c].inc = scale[c] /\ preambles[c].off = offset[c]
      BY <1>1, <2>1, <2>5 DEF TypeOK, Remembers, ScaleKnown
    <3>2. preambles'[c].inc = v /\ preambles'[c].off = offset[c]
      BY <2>3, <3>1, RescaledIs
    <3> QED
      BY <2>2, <3>2
  <2> QED
    BY <2>4, <2>5
<1>7. Remembers(c)'
  BY <1>6 DEF Remembers, ScaleKnown
<1> QED
  BY <1>5, <1>7

\* And so is an offset.
LEMMA OffsetRemembered ==
  ASSUME TypeOK, NEW c \in Channels, NEW v \in Offsets, SetChannelOffset(c, v),
         \A x \in Sources : Remembers(x)
  PROVE  \A x \in Sources : Remembers(x)'
<1> DEFINE taken == OffsetTaken[scale[c]][v]
           asSent == taken = v
<1>1. c \in Sources /\ taken \in Offsets /\ scale[c] \in Scales
  BY TakenType
<1>2. Takes(c, scale[c], taken, asSent)
  BY DEF SetChannelOffset
<1>3. /\ scale'[c] = scale[c] /\ offset'[c] = taken
      /\ \A x \in Sources \ {c} : scale'[x] = scale[x] /\ offset'[x] = offset[x]
      /\ rounded' = IF asSent THEN rounded ELSE rounded \cup {c}
  <2> HIDE DEF taken, asSent
  <2>1. asSent \in BOOLEAN
    BY DEF asSent
  <2> QED
    BY <1>1, <1>2, <2>1, TakesType DEF Takes
<1>4. preambles' = [preambles EXCEPT ![c] = Shifted(@, v)] /\ scales' = scales
  BY DEF SetChannelOffset
<1> HIDE DEF taken
<1>5. ASSUME NEW x \in Sources, x # c PROVE Remembers(x)'
  <2>1. preambles'[x] = preambles[x]
    BY <1>4, <1>5 DEF TypeOK
  <2>2. x \notin rounded' => x \notin rounded
    BY <1>3, <1>5
  <2> QED
    BY <1>3, <1>4, <1>5, <2>1, <2>2, KeptRemembered
<1>6. ASSUME c \notin rounded'
      PROVE  /\ preambles'[c] # Nothing =>
                  preambles'[c].inc = scale'[c] /\ preambles'[c].off = offset'[c]
             /\ scales'[c] \in {Unknown, scale'[c]}
  <2>1. c \notin rounded /\ offset'[c] = v
    BY <1>3, <1>6
  <2>2. preambles'[c] = Shifted(preambles[c], v)
    BY <1>1, <1>4 DEF TypeOK
  <2>3. preambles[c] # Nothing =>
          preambles[c] \in Preambles /\ preambles[c].inc = scale[c]
    BY <1>1, <2>1 DEF TypeOK, Remembers
  <2>4. scales[c] \in {Unknown, scale[c]}
    BY <1>1, <2>1 DEF Remembers, ScaleKnown
  <2> QED
    BY <1>3, <1>4, <2>1, <2>2, <2>3, <2>4 DEF Shifted, Preambles
<1>7. Remembers(c)'
  BY <1>6 DEF Remembers, ScaleKnown
<1> QED
  BY <1>5, <1>7

LEMMA WriteKnows ==
  ASSUME IInv, Knows, Write
  PROVE  Knows'
<1>1. TypeOK /\ Believes /\ (\A x \in Sources : Remembers(x))
  BY DEF IInv, Knows
<1>2. ASSUME NEW c \in Channels, SetChannelEnabled(c) PROVE Knows'
  <2>1. Believes' /\ FrameTrue'
    BY <1>1, <1>2, WriteBelieves DEF SetChannelEnabled, driver
  <2>2. ASSUME NEW x \in Sources PROVE Remembers(x)'
    BY <1>1, <1>2, KeptRemembered DEF SetChannelEnabled, driver, past
  <2> QED
    BY <2>1, <2>2 DEF Knows
<1>3. ASSUME NEW m \in Maths, UNCHANGED <<selected, source, scales, op, rounded>>, op = Idle,
             frame' = Nothing, preambles' = [preambles EXCEPT ![m] = Nothing],
             \A x \in Sources \ {m} : scale'[x] = scale[x] /\ offset'[x] = offset[x]
      PROVE  Knows'
  <2>1. Believes' /\ FrameTrue'
    BY <1>1, <1>3, WriteBelieves
  <2>2. ASSUME NEW x \in Sources PROVE Remembers(x)'
    <3>1. CASE x = m
      <4>1. preambles'[x] = Nothing
        BY <1>1, <1>3, <3>1 DEF TypeOK
      <4>2. x \notin Channels
        BY <3>1, WaveformAssumption
      <4> QED
        BY <4>1, <4>2 DEF Remembers, ScaleKnown
    <3>2. CASE x # m
      <4>1. preambles'[x] = preambles[x]
        BY <1>1, <1>3, <3>2 DEF TypeOK
      <4> QED
        BY <1>1, <1>3, <3>2, <4>1, KeptRemembered
    <3> QED
      BY <3>1, <3>2
  <2> QED
    BY <2>1, <2>2 DEF Knows
<1>4. ASSUME NEW m \in Maths, SetMathEnabled(m) PROVE Knows'
  BY <1>3, <1>4 DEF SetMathEnabled, past
<1>5. ASSUME NEW m \in Maths, NEW s \in Scales, NEW o \in Offsets, SetMath(m, s, o)
      PROVE  Knows'
  <2>1. \A x \in Sources \ {m} : scale'[x] = scale[x] /\ offset'[x] = offset[x]
    BY <1>1, <1>5 DEF SetMath, TypeOK
  <2> QED
    BY <1>3, <1>5, <2>1 DEF SetMath, past
<1>6. ASSUME NEW c \in Channels, NEW v \in Scales, SetChannelScale(c, v) PROVE Knows'
  <2>1. Believes' /\ FrameTrue'
    BY <1>1, <1>6, WriteBelieves DEF SetChannelScale
  <2> QED
    BY <1>1, <1>6, <2>1, ScaleRemembered DEF Knows
<1>7. ASSUME NEW c \in Channels, NEW o \in Offsets, SetChannelOffset(c, o) PROVE Knows'
  <2>1. Believes' /\ FrameTrue'
    BY <1>1, <1>7, WriteBelieves DEF SetChannelOffset
  <2> QED
    BY <1>1, <1>7, <2>1, OffsetRemembered DEF Knows
<1>8. ASSUME NEW c \in Channels, ReadScale(c) PROVE Knows'
  <2>1. Believes' /\ FrameTrue'
    BY <1>1, <1>8, WriteBelieves DEF ReadScale, scope
  <2>2. ASSUME NEW x \in Sources PROVE Remembers(x)'
    BY <1>1, <1>8 DEF ReadScale, Remembers, ScaleKnown, scope, past, TypeOK
  <2> QED
    BY <2>1, <2>2 DEF Knows
<1>9. CASE SetHorizontal
  <2>1. Believes' /\ FrameTrue'
    BY <1>1, <1>9, WriteBelieves DEF SetHorizontal
  <2>2. ASSUME NEW x \in Sources PROVE Remembers(x)'
    BY <1>1, <1>9 DEF SetHorizontal, Cleared, Remembers, ScaleKnown, past
  <2> QED
    BY <2>1, <2>2 DEF Knows
<1>10. CASE ExecuteRawScpi
  <2>1. op' = Idle /\ source' = None /\ preambles' = Cleared /\ frame' = Nothing
        /\ (\A c \in Channels : scales'[c] = Unknown)
    BY <1>10 DEF ExecuteRawScpi, Invalidate, Forgotten
  <2> QED
    BY <2>1, ForgottenKnows
<1>11. CASE Reconnect
  <2>1. op' = Idle /\ source' = None /\ preambles' = Cleared /\ frame' = Nothing
        /\ (\A c \in Channels : scales'[c] = scale'[c])
    BY <1>11 DEF Reconnect, Forgotten
  <2> QED
    BY <2>1, ForgottenKnows
<1> QED
  BY <1>2, <1>4, <1>5, <1>6, <1>7, <1>8, <1>9, <1>10, <1>11
  DEF Write, ScopeScales, ScopeOffsets

\* A driver that has strayed has until it forgets.
LEMMA StraysOnce ==
  ASSUME Next, strayed, ~strayed'
  PROVE  Knows'
<1>1. ExecuteRawScpi \/ Reconnect
  BY DEF Next, Read, Write, ReadLive, ReadRaw, StartRead, SelectSource, SetSetting, SettingsDone,
         ReadPreamble, ReadLiveData, ReadRawData, Fail, SetChannelEnabled, SetMathEnabled,
         SetChannelScale, SetChannelOffset, SetMath, ReadScale, SetHorizontal, past
<1>2. /\ op' = Idle /\ source' = None /\ preambles' = Cleared /\ frame' = Nothing
      /\ \A c \in Channels : scales'[c] \in {Unknown, scale'[c]}
  BY <1>1 DEF ExecuteRawScpi, Reconnect, Invalidate, Forgotten
<1> QED
  BY <1>2, ForgottenKnows

(* For any sources, scales, offsets, roundings and number of writes: until *)
(* a live read takes a cached preamble after a read of another source, a   *)
(* waveform is that of its source, and its Y metadata are the source's for *)
(* as long as the scope takes the values it is sent (ensureWaveformSource, *)
(* updateCachedChannelScale, updateCachedChannelOffset).                   *)
THEOREM FrameAlwaysTrue == Spec => []FrameIsTrue
<1> DEFINE K == ~strayed => Knows
<1>1. Init => K
  <2> SUFFICES ASSUME Init PROVE Knows
    OBVIOUS
  <2>1. op.kind = "idle" /\ op.step = None /\ source = None
    BY DEF Init, Idle
  <2>2. Believes
    BY <2>1 DEF Believes, At, None
  <2>3. ASSUME NEW x \in Sources PROVE Remembers(x)
    BY <2>3 DEF Init, Cleared, Remembers, ScaleKnown
  <2> QED
    BY <2>2, <2>3 DEF Init, Knows, FrameTrue
<1>2. IInv /\ K /\ [Next]_vars => K'
  <2> SUFFICES ASSUME IInv, K, [Next]_vars, ~strayed' PROVE Knows'
    OBVIOUS
  <2>1. CASE UNCHANGED vars
    <3>1. Knows
      BY <2>1 DEF vars, past
    <3> QED
      BY <2>1, <3>1 DEF vars, scope, driver, past, Knows, Believes, Remembers, ScaleKnown,
                        FrameTrue, At
  <2>2. CASE Next /\ strayed
    BY <2>2, StraysOnce
  <2>3. CASE Next /\ ~strayed
    BY <2>3, ReadKnows, WriteKnows DEF Next
  <2> QED
    BY <2>1, <2>2, <2>3
<1>3. K => FrameIsTrue
  BY DEF Knows, FrameIsTrue, FrameTrue
<1> QED
  BY <1>1, <1>2, <1>3, Invariance, PTL DEF Spec

-----------------------------------------------------------------------------
(* The session of the scope.                                               *)

(* The inductive invariant adds what the flags say of each other: the      *)
(* runtime is suspended exactly during a Sleep, only an asleep scope is    *)
(* monitored, a loop that connects, serves or waits is wanted, and a loop  *)
(* outlives the wish only as long as stop() or Sleep waits for it.         *)
Waited ==
  /\ suspended <=> power # "awake"
  /\ monitor # "none" => power = "asleep"
  /\ stopping => ~running
  /\ loop \in {"connecting", "serving", "delay"} => ShouldRun
  /\ loop = "disposing" /\ ~ShouldRun => stopping \/ power = "suspending"
  /\ ~running /\ ~stopping => loop = "none"

SessionIInv == SessionTypeOK /\ PublishedIsTrue /\ RunningHasLoop /\ SleepIsQuiet /\ Waited

LEMMA SessionInitIInv == SessionInit => SessionIInv
<1> SUFFICES ASSUME SessionInit PROVE SessionIInv
  OBVIOUS
<1>1. 0 \in 0 .. MaxFaults /\ 0 \in 0 .. MaxSleeps
  BY SessionAssumption
<1>2. SessionTypeOK
  BY <1>1 DEF SessionInit, SessionTypeOK
<1>3. PublishedIsTrue /\ RunningHasLoop /\ SleepIsQuiet /\ Waited
  BY DEF SessionInit, PublishedIsTrue, RunningHasLoop, SleepIsQuiet, Waited, ShouldRun
<1> QED
  BY <1>2, <1>3 DEF SessionIInv

\* The calls of the registry.
LEMMA RegistryKeeps ==
  ASSUME SessionIInv, Start \/ Stop \/ StopDone
  PROVE  SessionIInv'
<1> USE DEF SessionIInv, SessionTypeOK, PublishedIsTrue, RunningHasLoop, SleepIsQuiet, Waited,
            ShouldRun, session, sleep, counts
<1>1. CASE Start
  BY <1>1 DEF Start, StartSessionLoop
<1>2. CASE Stop
  BY <1>2 DEF Stop, InterruptSessionLoop, Dispose
<1>3. CASE StopDone
  BY <1>3 DEF StopDone
<1> QED
  BY <1>1, <1>2, <1>3

\* The counters stay within their bounds.
LEMMA FaultTyped ==
  ASSUME faults \in 0 .. MaxFaults, Fault
  PROVE  faults' \in 0 .. MaxFaults
BY SessionAssumption DEF Fault

\* The session loop.
LEMMA LoopKeeps ==
  ASSUME SessionIInv, Connected \/ ConnectFails \/ RetryDelayOver \/ TransportLost \/ Disposed
  PROVE  SessionIInv'
<1> USE DEF SessionIInv, SessionTypeOK, PublishedIsTrue, RunningHasLoop, SleepIsQuiet, Waited,
            ShouldRun, runtime, session, sleep, counts
<1>1. CASE Connected
  BY <1>1 DEF Connected
<1>2. CASE ConnectFails
  BY <1>2, FaultTyped DEF ConnectFails
<1>3. CASE RetryDelayOver
  BY <1>3 DEF RetryDelayOver
<1>4. CASE TransportLost
  BY <1>4, FaultTyped DEF TransportLost
<1>5. CASE Disposed
  <2> USE <1>5 DEF Disposed
  <2>1. CASE ShouldRun
    <3>1. loop' = "delay"
      BY <2>1
    <3> QED
      BY <2>1, <3>1
  <2>2. CASE ~ShouldRun
    <3>1. loop' = "none"
      BY <2>2
    <3> QED
      BY <2>2, <3>1
  <2> QED
    BY <2>1, <2>2
<1> QED
  BY <1>1, <1>2, <1>3, <1>4, <1>5

\* The live waveform.
LEMMA LiveKeeps ==
  ASSUME SessionIInv, StateChanged \/ ReadDone \/ ReadFails \/ PollDelayOver
  PROVE  SessionIInv'
<1> USE DEF SessionIInv, SessionTypeOK, PublishedIsTrue, RunningHasLoop, SleepIsQuiet, Waited,
            ShouldRun, runtime, session, sleep, counts
<1>1. CASE StateChanged
  BY <1>1 DEF StateChanged
<1>2. CASE ReadDone
  BY <1>2 DEF ReadDone
<1>3. CASE ReadFails
  BY <1>3, FaultTyped DEF ReadFails, ReadError
<1>4. CASE PollDelayOver
  BY <1>4 DEF PollDelayOver
<1> QED
  BY <1>1, <1>2, <1>3, <1>4

\* Sleep and wake.
LEMMA SleepKeeps ==
  ASSUME SessionIInv, Sleep \/ Suspended \/ Tapped \/ TapFails
         \/ ProbeOffline \/ ProbeAwake \/ Close
  PROVE  SessionIInv'
<1> USE DEF SessionIInv, SessionTypeOK, PublishedIsTrue, RunningHasLoop, SleepIsQuiet, Waited,
            ShouldRun, runtime, session, sleep, counts
<1>1. CASE Sleep
  <2> USE <1>1 DEF Sleep, InterruptSessionLoop
  <2>1. sleeps' \in 0 .. MaxSleeps
    BY SessionAssumption
  <2>2. CASE loop = "serving"
    BY <2>1, <2>2 DEF Dispose
  <2>3. CASE loop # "serving"
    BY <2>1, <2>3
  <2> QED
    BY <2>2, <2>3
<1>2. CASE Suspended
  BY <1>2 DEF Suspended
<1>3. CASE Tapped
  BY <1>3 DEF Tapped
<1>4. CASE TapFails
  BY <1>4 DEF TapFails, ResumeAfterSleep, StartSessionLoop
<1>5. CASE ProbeOffline
  BY <1>5 DEF ProbeOffline
<1>6. CASE ProbeAwake
  BY <1>6 DEF ProbeAwake, ResumeAfterSleep, StartSessionLoop
<1>7. CASE Close
  BY <1>7 DEF Close
<1> QED
  BY <1>1, <1>2, <1>3, <1>4, <1>5, <1>6, <1>7

LEMMA StepKeepsSession == SessionIInv /\ [SessionNext]_sessionVars => SessionIInv'
<1> SUFFICES ASSUME SessionIInv, [SessionNext]_sessionVars PROVE SessionIInv'
  OBVIOUS
<1>1. CASE Reachability \/ UNCHANGED sessionVars
  <2>1. online' \in BOOLEAN /\ UNCHANGED <<runtime, session, sleep, counts>>
    BY <1>1 DEF Reachability, sessionVars, SessionIInv, SessionTypeOK
  <2>2. SessionTypeOK'
    BY <2>1 DEF runtime, session, sleep, counts, SessionIInv, SessionTypeOK
  <2>3. PublishedIsTrue' /\ RunningHasLoop' /\ SleepIsQuiet' /\ Waited'
    BY <2>1 DEF runtime, session, sleep, SessionIInv, PublishedIsTrue, RunningHasLoop, SleepIsQuiet,
                Waited, ShouldRun
  <2> QED
    BY <2>2, <2>3 DEF SessionIInv
<1> QED
  BY <1>1, RegistryKeeps, LoopKeeps, LiveKeeps, SleepKeeps DEF SessionNext

LEMMA SessionInvariance == SessionSpec => []SessionIInv
BY SessionInitIInv, StepKeepsSession, PTL DEF SessionSpec

(* Every variable keeps its kind, and the live loop reads only while there *)
(* is a session to read from.                                              *)
THEOREM SessionTypeCorrect == SessionSpec => []SessionTypeOK
<1>1. SessionIInv => SessionTypeOK
  BY DEF SessionIInv
<1> QED
  BY SessionInvariance, <1>1, PTL

(* The published connection is the state of the runtime after any sequence *)
(* of starts, stops, Sleep requests and failures (publishConnection calls  *)
(* of scope-runtime.ts).                                                   *)
THEOREM PublishedAlwaysTrue == SessionSpec => []PublishedIsTrue
<1>1. SessionIInv => PublishedIsTrue
  BY DEF SessionIInv
<1> QED
  BY SessionInvariance, <1>1, PTL

(* A runtime that should run always has a session loop (startSessionLoop,  *)
(* resumeAfterSleep).                                                      *)
THEOREM AlwaysHasLoop == SessionSpec => []RunningHasLoop
<1>1. SessionIInv => RunningHasLoop
  BY DEF SessionIInv
<1> QED
  BY SessionInvariance, <1>1, PTL

(* A session is disposed before the next one is attempted: stop() and      *)
(* Sleep wait for the loop, and a start meets none.                        *)
THEOREM SessionsInTurn == SessionSpec => OneSession
<1>1. SessionIInv /\ [SessionNext]_sessionVars
      => [loop = "disposing" => loop' \in {"disposing", "delay", "none"}]_sessionVars
  <2> SUFFICES ASSUME SessionIInv, SessionNext, loop = "disposing"
               PROVE  loop' \in {"disposing", "delay", "none"}
    BY DEF sessionVars
  <2>1. CASE Start \/ Stop \/ StopDone
    BY <2>1 DEF Start, Stop, StopDone, InterruptSessionLoop, SessionIInv, Waited
  <2>2. CASE Connected \/ ConnectFails \/ RetryDelayOver \/ TransportLost \/ Disposed
    BY <2>2 DEF Connected, ConnectFails, RetryDelayOver, TransportLost, Disposed, runtime
  <2>3. CASE StateChanged \/ ReadDone \/ ReadFails \/ PollDelayOver
    BY <2>3 DEF StateChanged, ReadDone, ReadFails, PollDelayOver, runtime
  <2>4. CASE Sleep \/ Suspended \/ Tapped \/ TapFails
    BY <2>4 DEF Sleep, Suspended, Tapped, TapFails, InterruptSessionLoop, ResumeAfterSleep,
                SessionIInv, SleepIsQuiet, runtime
  <2>5. CASE ProbeOffline \/ ProbeAwake \/ Close \/ Reachability
    BY <2>5 DEF ProbeOffline, ProbeAwake, Close, Reachability, ResumeAfterSleep,
                SessionIInv, Waited, SleepIsQuiet, SessionTypeOK, runtime
  <2> QED
    BY <2>1, <2>2, <2>3, <2>4, <2>5 DEF SessionNext
<1> QED
  BY SessionInvariance, <1>1, PTL DEF SessionSpec, OneSession

(* No session exists or is attempted while adb operates the scope and      *)
(* while it sleeps (suspendForSleep, ScopePowerLifecycle.sleep).           *)
THEOREM AlwaysQuietAsleep == SessionSpec => []SleepIsQuiet
<1>1. SessionIInv => SleepIsQuiet
  BY DEF SessionIInv
<1> QED
  BY SessionInvariance, <1>1, PTL

(* The session loop, the connection shown and the Sleep dialogue agree in  *)
(* every state of the runtime (scope-runtime.ts, scope-power-lifecycle.ts).*)
THEOREM SessionAlwaysTrue == SessionSpec => []SessionIsTrue
<1>1. PublishedIsTrue /\ RunningHasLoop /\ SleepIsQuiet => SessionIsTrue
  BY DEF SessionIsTrue
<1> QED
  BY <1>1, PublishedAlwaysTrue, AlwaysHasLoop, AlwaysQuietAsleep, PTL

-----------------------------------------------------------------------------
(***************************************************************************)
(* The controller.  A ledger of the operations, answers and timers that    *)
(* requests wait for, and what each tells of the scope's run state.        *)
(***************************************************************************)
(* The controller's inductive invariant.  What is typed: the settings, the *)
(* operations and, of each request in flight, which step it can be at.     *)
AllProps == ControlSettings \cup {"run"}

States ==
  {s \in [AllProps -> Values \cup {0, 1} \cup Actions] :
     /\ \A p \in ControlSettings \ {"mode"} : s[p] \in Values
     /\ s["mode"] \in {0, 1} /\ s["run"] \in Actions}

AnswerStages == {"stopping", "mode", "write", "check", "running", "read", "read-run",
                 "single-mode", "single", "action"}
TimerStages  == {"settle", "rest"}

Jobs == [request : Requests, revision : Nat, restart : BOOLEAN, crossing : BOOLEAN,
         failed : BOOLEAN, at : AnswerStages \cup TimerStages]

StageFits(b) ==
  /\ b.at \in {"action", "single-mode", "single"} => b.request.kind = "action"
  /\ b.request.kind = "action" => b.at \in {"action", "single-mode", "single", "read-run"}
  /\ b.at = "action" => b.request.prop \in {"run", "stop"}
  /\ b.at \in {"single-mode", "single"} => b.request.prop = "single"
  /\ b.request.kind = "action" /\ b.at = "read-run" => b.request.prop = "single"
  /\ b.restart => b.request.kind \in Kinds /\ b.request.prop \in {"scale", "position"}
  /\ b.at \in {"stopping", "settle", "running", "rest"} => b.restart
  /\ b.crossing => b.request.kind \in Kinds /\ b.request.prop = "scale"
  /\ b.at = "mode" => b.crossing
  /\ b.at = "check" => b.request.prop \in {"scale", "position"}
  /\ b.at = "read" => ReadsBack(b.request)
  /\ b.request.kind # "action" /\ b.at = "read-run" => b.request.prop = "sweep"

Commands == {"write", "mode", "check", "read", "readrun"} \cup Actions

Entries ==
  {q \in [cmd : Commands, prop : AllProps, value : Values \cup {0, 1}, priority : 0 .. 2,
          key : BOOLEAN, by : Seq(Callers)] :
     /\ q.cmd = "write" => q.prop \in ControlSettings \ {"mode"} /\ q.value \in Values
     /\ q.cmd = "mode" => q.value \in {0, 1}
     /\ q.key => q.cmd = "write"}

Answers == [by : Callers, answer : [ok : BOOLEAN, state : States]]
Timers  == [by : Callers, at : TimerStages]

Typed ==
  /\ workload \in Workloads
  /\ store \in States /\ device \in States
  /\ revision \in Nat /\ revision <= workload.total
  /\ failures \in Nat /\ failures <= workload.refusals
  /\ job \in [Callers -> {Free} \cup Jobs]
  /\ \A c \in Callers : job[c] # Free =>
       StageFits(job[c]) /\ job[c].request \in workload.requests
  /\ pending \in Seq(Entries)
  /\ active = <<>> \/ \E q \in Entries : active = <<q>>
  /\ ready \in Seq(Answers) /\ timers \in Seq(Timers)

-----------------------------------------------------------------------------
(* Each request in flight waits in one place, for what its step expects.   *)

Expects(b, q) ==
  /\ b \in Jobs
  /\ \/ b.at = "stopping" /\ q.cmd = "stop"
     \/ b.at = "mode" /\ q.cmd = "mode"
     \/ b.at = "write" /\ q.cmd = "write" /\ q.prop = b.request.prop
     \/ b.at = "check" /\ q.cmd = "check"
     \/ b.at = "running" /\ q.cmd = "run"
     \/ b.at \in {"read", "single-mode"} /\ q.cmd = "read"
     \/ b.at = "read-run" /\ q.cmd = "readrun"
     \/ b.at = "single" /\ q.cmd = "single"
     \/ b.at = "action" /\ q.cmd = b.request.prop

By(q) == {q.by[k] : k \in DOMAIN q.by}

Fits(q, j) ==
  /\ DOMAIN q.by # {}
  /\ \A k \in DOMAIN q.by : q.by[k] \in Callers /\ Expects(j[q.by[k]], q)
  /\ \A k, l \in DOMAIN q.by : q.by[k] = q.by[l] => k = l

Apart(p, c) == \A i \in DOMAIN p : c \notin By(p[i])

Separate(q, o) == \A c \in By(q) : c \notin By(o)

Work(p, j) ==
  /\ \A i \in DOMAIN p : Fits(p[i], j)
  /\ \A i, k \in DOMAIN p : i # k => Separate(p[i], p[k])

Once(s) == \A i, k \in DOMAIN s : s[i].by = s[k].by => i = k

Ledger(p, a, r, t, j) ==
  /\ Work(p, j) /\ Work(a, j) /\ Once(r) /\ Once(t)
  /\ \A i \in DOMAIN p, k \in DOMAIN a : Separate(p[i], a[k])
  /\ \A i \in DOMAIN r : /\ r[i].by \in Callers
                         /\ j[r[i].by] \in Jobs /\ j[r[i].by].at \in AnswerStages
                         /\ Apart(p, r[i].by) /\ Apart(a, r[i].by)
  /\ \A i \in DOMAIN t : /\ t[i].by \in Callers
                         /\ j[t[i].by] \in Jobs /\ j[t[i].by].at = t[i].at
                         /\ t[i].at \in TimerStages

\* Caller c waits nowhere.
Unheld(c, p, a, r, t) ==
  /\ Apart(p, c) /\ Apart(a, c)
  /\ \A i \in DOMAIN r : r[i].by # c
  /\ \A i \in DOMAIN t : t[i].by # c

\* Each of the callers C with a request waits somewhere.
NoneForgotten(C, p, a, r, t, j) ==
  \A c \in C : j[c] # Free => ~Unheld(c, p, a, r, t)

-----------------------------------------------------------------------------
(* Sequences.                                                              *)

LEMMA AppendIs ==
  ASSUME NEW S, NEW q \in Seq(S), NEW e \in S
  PROVE  /\ Append(q, e) \in Seq(S)
         /\ DOMAIN q = 1 .. Len(q) /\ Len(q) \in Nat
         /\ DOMAIN Append(q, e) = 1 .. Len(q) + 1
         /\ \A i \in 1 .. Len(q) + 1 : Append(q, e)[i] = IF i <= Len(q) THEN q[i] ELSE e
  OBVIOUS

LEMMA RemoveAtIs ==
  ASSUME NEW S, NEW q \in Seq(S), NEW k \in DOMAIN q
  PROVE  /\ RemoveAt(q, k) \in Seq(S)
         /\ DOMAIN q = 1 .. Len(q) /\ Len(q) \in Nat
         /\ DOMAIN RemoveAt(q, k) = 1 .. Len(q) - 1
         /\ \A i \in 1 .. Len(q) - 1 : RemoveAt(q, k)[i] = IF i < k THEN q[i] ELSE q[i + 1]
<1> DEFINE a == SubSeq(q, 1, k - 1)
           b == SubSeq(q, k + 1, Len(q))
<1>1. Len(q) \in Nat /\ DOMAIN q = 1 .. Len(q) /\ k \in 1 .. Len(q)
      /\ q \in [1 .. Len(q) -> S]
  BY LenProperties
<1>2. /\ a \in Seq(S) /\ Len(a) = k - 1
      /\ \A i \in 1 .. k - 1 : a[i] = q[i]
  <2>1. \A i \in 1 .. k - 1 : q[i] \in S
    BY <1>1
  <2>2. /\ SubSeq(q, 1, k - 1) \in Seq(S)
        /\ Len(SubSeq(q, 1, k - 1)) = IF 1 <= k - 1 THEN k - 1 - 1 + 1 ELSE 0
        /\ \A i \in 1 .. k - 1 - 1 + 1 : SubSeq(q, 1, k - 1)[i] = q[1 + i - 1]
    BY <1>1, <2>1, SubSeqProperties
  <2> QED
    BY <1>1, <2>2
<1>3. /\ b \in Seq(S) /\ Len(b) = Len(q) - k
      /\ \A i \in 1 .. Len(q) - k : b[i] = q[k + i]
  <2>1. \A i \in k + 1 .. Len(q) : q[i] \in S
    BY <1>1
  <2>2. /\ SubSeq(q, k + 1, Len(q)) \in Seq(S)
        /\ Len(SubSeq(q, k + 1, Len(q))) = IF k + 1 <= Len(q) THEN Len(q) - (k + 1) + 1 ELSE 0
        /\ \A i \in 1 .. Len(q) - (k + 1) + 1 :
             SubSeq(q, k + 1, Len(q))[i] = q[k + 1 + i - 1]
    BY <1>1, <2>1, SubSeqProperties
  <2> QED
    BY <1>1, <2>2
<1>4. RemoveAt(q, k) = a \o b
  BY DEF RemoveAt
<1> HIDE DEF a, b
<1>5. /\ a \o b \in Seq(S) /\ Len(a \o b) = Len(a) + Len(b)
      /\ \A i \in 1 .. Len(a) + Len(b) :
           (a \o b)[i] = IF i <= Len(a) THEN a[i] ELSE b[i - Len(a)]
  BY <1>2, <1>3, ConcatProperties
<1>6. Len(a) = k - 1 /\ Len(b) = Len(q) - k /\ Len(a) + Len(b) = Len(q) - 1
  BY <1>1, <1>2, <1>3
<1>7. DOMAIN (a \o b) = 1 .. Len(q) - 1
  <2>1. \A c \in Seq(S) : DOMAIN c = 1 .. Len(c)
    BY LenProperties
  <2> QED
    BY <1>5, <1>6, <2>1
<1>8. ASSUME NEW i \in 1 .. Len(q) - 1
      PROVE  (a \o b)[i] = IF i < k THEN q[i] ELSE q[i + 1]
  <2>0. (a \o b)[i] = IF i <= k - 1 THEN a[i] ELSE b[i - (k - 1)]
    BY <1>5, <1>6
  <2>1. CASE i < k
    <3>1. i <= k - 1 /\ i \in 1 .. k - 1
      BY <1>1, <2>1
    <3>2. a[i] = q[i]
      BY <1>2, <3>1
    <3> QED
      BY <2>0, <2>1, <3>1, <3>2
  <2>2. CASE ~(i < k)
    <3>1. ~(i <= k - 1) /\ i - (k - 1) \in 1 .. Len(q) - k /\ k + (i - (k - 1)) = i + 1
      BY <1>1, <2>2
    <3>2. b[i - (k - 1)] = q[k + (i - (k - 1))]
      BY <1>3, <3>1
    <3> QED
      BY <2>0, <2>2, <3>1, <3>2
  <2> QED
    BY <2>1, <2>2
<1> QED
  BY <1>1, <1>4, <1>5, <1>7, <1>8

LEMMA TailIs ==
  ASSUME NEW S, NEW q \in Seq(S), q # <<>>
  PROVE  /\ Tail(q) \in Seq(S) /\ DOMAIN Tail(q) = 1 .. Len(q) - 1 /\ 1 \in DOMAIN q
         /\ q[1] \in S
         /\ \A i \in DOMAIN Tail(q) : i + 1 \in DOMAIN q /\ i + 1 # 1 /\ Tail(q)[i] = q[i + 1]
         /\ \A i \in DOMAIN q : i # 1 => i - 1 \in DOMAIN Tail(q) /\ Tail(q)[i - 1] = q[i]
<1>1. Len(q) \in Nat \ {0} /\ DOMAIN q = 1 .. Len(q)
  BY EmptySeq, LenProperties
<1>2. Tail(q) \in Seq(S) /\ Len(Tail(q)) = Len(q) - 1
      /\ \A i \in 1 .. Len(Tail(q)) : Tail(q)[i] = q[i + 1]
  BY <1>1, HeadTailProperties
<1>3. DOMAIN Tail(q) = 1 .. Len(q) - 1
  BY <1>1, <1>2, LenProperties
<1>4. q[1] \in S
  BY <1>1, ElementOfSeq
<1> QED
  BY <1>1, <1>2, <1>3, <1>4

\* The elements after one is removed, and where they were.
LEMMA RemovedIs ==
  ASSUME NEW S, NEW q \in Seq(S), NEW k \in DOMAIN q
  PROVE  /\ RemoveAt(q, k) \in Seq(S)
         /\ \A i \in DOMAIN RemoveAt(q, k) :
              \E m \in DOMAIN q : m # k /\ RemoveAt(q, k)[i] = q[m]
         /\ \A m \in DOMAIN q : m # k =>
              \E i \in DOMAIN RemoveAt(q, k) : RemoveAt(q, k)[i] = q[m]
<1> DEFINE p == RemoveAt(q, k)
<1>1. /\ p \in Seq(S) /\ DOMAIN q = 1 .. Len(q) /\ Len(q) \in Nat
      /\ DOMAIN p = 1 .. Len(q) - 1
      /\ \A i \in 1 .. Len(q) - 1 : p[i] = IF i < k THEN q[i] ELSE q[i + 1]
  BY RemoveAtIs
<1> HIDE DEF p
<1>2. ASSUME NEW i \in DOMAIN p PROVE \E m \in DOMAIN q : m # k /\ p[i] = q[m]
  <2>1. CASE i < k
    BY <1>1, <2>1
  <2>2. CASE ~(i < k)
    <3>1. i + 1 \in DOMAIN q /\ i + 1 # k /\ p[i] = q[i + 1]
      BY <1>1, <2>2
    <3> QED
      BY <3>1
  <2> QED
    BY <2>1, <2>2
<1>3. ASSUME NEW m \in DOMAIN q, m # k PROVE \E i \in DOMAIN p : p[i] = q[m]
  <2>1. CASE m < k
    <3>1. m \in DOMAIN p /\ p[m] = q[m]
      BY <1>1, <2>1
    <3> QED
      BY <3>1
  <2>2. CASE ~(m < k)
    <3>1. m - 1 \in DOMAIN p /\ p[m - 1] = q[m]
      BY <1>1, <1>3, <2>2
    <3> QED
      BY <3>1
  <2> QED
    BY <2>1, <2>2
<1>4. p \in Seq(S)
  BY <1>1
<1> QED
  BY <1>2, <1>3, <1>4 DEF p

\* Elements that differ in a key by which there is one of each stay so.
LEMMA OnceRemoved ==
  ASSUME NEW S, NEW q \in Seq(S), NEW k \in DOMAIN q, Once(q)
  PROVE  /\ Once(RemoveAt(q, k))
         /\ \A i \in DOMAIN RemoveAt(q, k) : RemoveAt(q, k)[i].by # q[k].by
<1> DEFINE p == RemoveAt(q, k)
           g(i) == IF i < k THEN i ELSE i + 1
<1>1. /\ DOMAIN q = 1 .. Len(q) /\ Len(q) \in Nat
      /\ DOMAIN p = 1 .. Len(q) - 1
      /\ \A i \in 1 .. Len(q) - 1 : p[i] = IF i < k THEN q[i] ELSE q[i + 1]
  BY RemoveAtIs
<1> HIDE DEF p
<1>2. \A i \in DOMAIN p : g(i) \in DOMAIN q \ {k} /\ p[i] = q[g(i)]
  BY <1>1
<1>3. \A i, j \in DOMAIN p : g(i) = g(j) => i = j
  BY <1>1
<1> HIDE DEF g
<1>4. \A i, j \in DOMAIN p : p[i].by = p[j].by => i = j
  BY <1>2, <1>3 DEF Once
<1>5. \A i \in DOMAIN p : p[i].by # q[k].by
  BY <1>2 DEF Once
<1> QED
  BY <1>4, <1>5 DEF Once, p

LEMMA OnceAppended ==
  ASSUME NEW S, NEW q \in Seq(S), NEW e \in S, Once(q), \A i \in DOMAIN q : q[i].by # e.by
  PROVE  Once(Append(q, e))
<1> DEFINE p == Append(q, e)
<1>1. /\ DOMAIN q = 1 .. Len(q) /\ Len(q) \in Nat /\ DOMAIN p = 1 .. Len(q) + 1
      /\ \A i \in 1 .. Len(q) + 1 : p[i] = IF i <= Len(q) THEN q[i] ELSE e
  BY AppendIs
<1> HIDE DEF p
<1>2. \A i \in DOMAIN p : (i \in DOMAIN q /\ p[i] = q[i]) \/ (i = Len(q) + 1 /\ p[i] = e)
  BY <1>1
<1>3. \A i, k \in DOMAIN p : p[i].by = p[k].by => i = k
  BY <1>2 DEF Once
<1> QED
  BY <1>3 DEF Once, p

LEMMA OnceTail ==
  ASSUME NEW S, NEW q \in Seq(S), q # <<>>, Once(q)
  PROVE  Once(Tail(q)) /\ \A i \in DOMAIN Tail(q) : Tail(q)[i].by # q[1].by
<1>1. /\ DOMAIN Tail(q) = 1 .. Len(q) - 1 /\ 1 \in DOMAIN q
      /\ \A i \in DOMAIN Tail(q) : i + 1 \in DOMAIN q /\ i + 1 # 1 /\ Tail(q)[i] = q[i + 1]
  BY TailIs
<1>2. ASSUME NEW i \in DOMAIN Tail(q), NEW k \in DOMAIN Tail(q), Tail(q)[i].by = Tail(q)[k].by
      PROVE  i = k
  <2>1. q[i + 1].by = q[k + 1].by /\ i + 1 \in DOMAIN q /\ k + 1 \in DOMAIN q
    BY <1>1, <1>2
  <2>2. i + 1 = k + 1
    BY <2>1 DEF Once
  <2>3. i \in Int /\ k \in Int
    <3>1. Len(q) \in Nat
      BY LenProperties
    <3> QED
      BY <1>1, <3>1
  <2> QED
    BY <2>2, <2>3
<1>3. ASSUME NEW i \in DOMAIN Tail(q) PROVE Tail(q)[i].by # q[1].by
  BY <1>1 DEF Once
<1> QED
  BY <1>2, <1>3 DEF Once

-----------------------------------------------------------------------------
(* The work of the scheduler.                                              *)

LEMMA FitsFrame ==
  ASSUME NEW q, NEW j, NEW j2, NEW c, Fits(q, j), c \notin By(q), \A d \in Callers \ {c} : j2[d] = j[d]
  PROVE  Fits(q, j2)
<1>1. \A k \in DOMAIN q.by : q.by[k] # c
  BY DEF By
<1> QED
  BY <1>1 DEF Fits

LEMMA WorkFrame ==
  ASSUME NEW p, NEW j, NEW j2, NEW c, Work(p, j), Apart(p, c), \A d \in Callers \ {c} : j2[d] = j[d]
  PROVE  Work(p, j2)
<1>1. ASSUME NEW i \in DOMAIN p PROVE Fits(p[i], j2)
  <2>1. Fits(p[i], j) /\ c \notin By(p[i])
    BY DEF Work, Apart
  <2> QED
    BY <2>1, FitsFrame
<1> QED
  BY <1>1 DEF Work

LEMMA SeparateBothWays ==
  ASSUME NEW q, NEW o, Separate(q, o)
  PROVE  Separate(o, q)
BY DEF Separate

\* An operation is added.
LEMMA WorkAppend ==
  ASSUME NEW p \in Seq(Entries), NEW j, NEW e \in Entries, Work(p, j), Fits(e, j),
         \A i \in DOMAIN p : Separate(p[i], e)
  PROVE  /\ Append(p, e) \in Seq(Entries) /\ Work(Append(p, e), j)
         /\ \A d : Apart(Append(p, e), d) <=> Apart(p, d) /\ d \notin By(e)
<1> DEFINE q == Append(p, e)
<1>1. /\ q \in Seq(Entries) /\ DOMAIN p = 1 .. Len(p) /\ Len(p) \in Nat
      /\ DOMAIN q = 1 .. Len(p) + 1
      /\ \A i \in 1 .. Len(p) + 1 : q[i] = IF i <= Len(p) THEN p[i] ELSE e
  BY AppendIs
<1> HIDE DEF q
<1>2. \A i \in DOMAIN q : (i \in DOMAIN p /\ q[i] = p[i]) \/ (i = Len(p) + 1 /\ q[i] = e)
  BY <1>1
<1>3. \A i \in DOMAIN p : i \in DOMAIN q /\ q[i] = p[i]
  BY <1>1
<1>4. Len(p) + 1 \in DOMAIN q /\ q[Len(p) + 1] = e
  BY <1>1
<1>5. \A i \in DOMAIN q : Fits(q[i], j)
  BY <1>2 DEF Work
<1>6. ASSUME NEW i \in DOMAIN q, NEW k \in DOMAIN q, i # k PROVE Separate(q[i], q[k])
  <2>1. CASE i \in DOMAIN p /\ q[i] = p[i] /\ k \in DOMAIN p /\ q[k] = p[k]
    BY <1>6, <2>1 DEF Work
  <2>2. CASE i \in DOMAIN p /\ q[i] = p[i] /\ k = Len(p) + 1 /\ q[k] = e
    BY <2>2
  <2>3. CASE k \in DOMAIN p /\ q[k] = p[k] /\ i = Len(p) + 1 /\ q[i] = e
    BY <2>3, SeparateBothWays
  <2> QED
    BY <1>2, <1>6, <2>1, <2>2, <2>3
<1>7. Work(q, j)
  BY <1>5, <1>6 DEF Work
<1>8. ASSUME NEW d PROVE Apart(q, d) <=> Apart(p, d) /\ d \notin By(e)
  <2>1. ASSUME Apart(q, d) PROVE Apart(p, d) /\ d \notin By(e)
    BY <1>3, <1>4, <2>1 DEF Apart
  <2>2. ASSUME Apart(p, d), d \notin By(e) PROVE Apart(q, d)
    BY <1>2, <2>2 DEF Apart
  <2> QED
    BY <2>1, <2>2
<1> QED
  BY <1>1, <1>7, <1>8 DEF q

\* An operation is removed.
LEMMA WorkRemove ==
  ASSUME NEW p \in Seq(Entries), NEW j, NEW k \in DOMAIN p, Work(p, j)
  PROVE  /\ RemoveAt(p, k) \in Seq(Entries) /\ Work(RemoveAt(p, k), j)
         /\ \A i \in DOMAIN RemoveAt(p, k) : Separate(RemoveAt(p, k)[i], p[k])
         /\ \A d : Apart(p, d) <=> Apart(RemoveAt(p, k), d) /\ d \notin By(p[k])
<1> DEFINE q == RemoveAt(p, k)
           g(i) == IF i < k THEN i ELSE i + 1
<1>1. /\ q \in Seq(Entries) /\ DOMAIN p = 1 .. Len(p) /\ Len(p) \in Nat
      /\ DOMAIN q = 1 .. Len(p) - 1
      /\ \A i \in 1 .. Len(p) - 1 : q[i] = IF i < k THEN p[i] ELSE p[i + 1]
  BY RemoveAtIs
<1>2. \A m \in DOMAIN p : m # k => \E i \in DOMAIN q : q[i] = p[m]
  BY RemovedIs
<1> HIDE DEF q
<1>3. \A i \in DOMAIN q : g(i) \in DOMAIN p \ {k} /\ q[i] = p[g(i)]
  BY <1>1
<1>4. \A i, m \in DOMAIN q : i # m => g(i) # g(m)
  BY <1>1
<1> HIDE DEF g
<1>5. \A i \in DOMAIN q : Fits(q[i], j) /\ Separate(q[i], p[k])
  BY <1>3 DEF Work
<1>6. \A i, m \in DOMAIN q : i # m => Separate(q[i], q[m])
  BY <1>3, <1>4 DEF Work
<1>7. Work(q, j)
  BY <1>5, <1>6 DEF Work
<1>8. ASSUME NEW d PROVE Apart(p, d) <=> Apart(q, d) /\ d \notin By(p[k])
  <2>1. ASSUME Apart(p, d) PROVE Apart(q, d) /\ d \notin By(p[k])
    BY <1>3, <2>1 DEF Apart
  <2>2. ASSUME Apart(q, d), d \notin By(p[k]) PROVE Apart(p, d)
    BY <1>2, <2>2 DEF Apart
  <2> QED
    BY <2>1, <2>2
<1> QED
  BY <1>1, <1>5, <1>7, <1>8 DEF q

\* The operation at the place k is replaced.
LEMMA WorkReplace ==
  ASSUME NEW p \in Seq(Entries), NEW j, NEW e \in Entries, NEW k \in DOMAIN p,
         \A i \in DOMAIN p \ {k} : Fits(p[i], j) /\ Separate(p[i], e),
         \A i, m \in DOMAIN p : i # m => Separate(p[i], p[m]),
         Fits(e, j)
  PROVE  /\ [p EXCEPT ![k] = e] \in Seq(Entries) /\ Work([p EXCEPT ![k] = e], j)
         /\ \A d : Apart([p EXCEPT ![k] = e], d)
                     <=> d \notin By(e) /\ \A i \in DOMAIN p \ {k} : d \notin By(p[i])
<1> DEFINE q == [p EXCEPT ![k] = e]
<1>1. /\ q \in Seq(Entries) /\ DOMAIN q = DOMAIN p
      /\ \A i \in DOMAIN p : q[i] = IF i = k THEN e ELSE p[i]
  BY ExceptSeq, LenProperties
<1> HIDE DEF q
<1>2. \A i \in DOMAIN q : Fits(q[i], j)
  BY <1>1
<1>3. \A f : Separate(f, e) => Separate(e, f)
  BY SeparateBothWays
<1>4. \A i, m \in DOMAIN q : i # m => Separate(q[i], q[m])
  BY <1>1, <1>3
<1>5. Work(q, j)
  BY <1>2, <1>4 DEF Work
<1>6. \A d : Apart(q, d) <=> d \notin By(e) /\ \A i \in DOMAIN p \ {k} : d \notin By(p[i])
  BY <1>1 DEF Apart
<1> QED
  BY <1>1, <1>5, <1>6 DEF q

\* An operation and those that wait for it.
LEMMA Merged ==
  ASSUME NEW o \in Entries, NEW b \in Seq(Callers), NEW c \in Callers
  PROVE  LET e == [o EXCEPT !.by = Append(b, c)]
         IN  /\ e \in Entries /\ e.cmd = o.cmd /\ e.prop = o.prop /\ e.by = Append(b, c)
             /\ e.key = o.key /\ e.priority = o.priority /\ e.value = o.value
             /\ By(e) = {b[k] : k \in DOMAIN b} \cup {c}
<1> DEFINE e == [o EXCEPT !.by = Append(b, c)]
<1>1. /\ Append(b, c) \in Seq(Callers) /\ DOMAIN b = 1 .. Len(b) /\ Len(b) \in Nat
      /\ DOMAIN Append(b, c) = 1 .. Len(b) + 1
      /\ \A i \in 1 .. Len(b) + 1 : Append(b, c)[i] = IF i <= Len(b) THEN b[i] ELSE c
  BY AppendIs
<1>2. /\ e \in Entries /\ e.cmd = o.cmd /\ e.prop = o.prop /\ e.by = Append(b, c)
      /\ e.key = o.key /\ e.priority = o.priority /\ e.value = o.value
  BY <1>1 DEF Entries
<1> HIDE DEF e
<1>3. By(e) = {b[k] : k \in DOMAIN b} \cup {c}
  <2>1. \A d : d \in By(e) <=> \E k \in DOMAIN Append(b, c) : d = Append(b, c)[k]
    BY <1>2 DEF By
  <2>2. ASSUME NEW d, d \in By(e) PROVE d \in {b[k] : k \in DOMAIN b} \cup {c}
    BY <1>1, <2>1, <2>2
  <2>3. ASSUME NEW d \in {b[k] : k \in DOMAIN b} PROVE d \in By(e)
    BY <1>1, <2>1, <2>3
  <2>4. c \in By(e)
    <3>1. Len(b) + 1 \in DOMAIN Append(b, c) /\ Append(b, c)[Len(b) + 1] = c
      BY <1>1
    <3> QED
      BY <2>1, <3>1
  <2> QED
    BY <2>2, <2>3, <2>4
<1> QED
  BY <1>2, <1>3 DEF e

\* Those that wait for an operation may wait for one that writes the same.
LEMMA MergedFits ==
  ASSUME NEW j, NEW e \in Entries, NEW b \in Seq(Callers), NEW c \in Callers,
         e.by = Append(b, c), Expects(j[c], e),
         \A k \in DOMAIN b : Expects(j[b[k]], e) /\ b[k] # c,
         \A k, l \in DOMAIN b : b[k] = b[l] => k = l
  PROVE  Fits(e, j)
<1>1. /\ DOMAIN b = 1 .. Len(b) /\ Len(b) \in Nat
      /\ DOMAIN e.by = 1 .. Len(b) + 1
      /\ \A i \in 1 .. Len(b) + 1 : e.by[i] = IF i <= Len(b) THEN b[i] ELSE c
  BY AppendIs
<1>2. \A i \in DOMAIN e.by : (i \in DOMAIN b /\ e.by[i] = b[i]) \/ (i = Len(b) + 1 /\ e.by[i] = c)
  BY <1>1
<1>3. \A k \in DOMAIN e.by : e.by[k] \in Callers /\ Expects(j[e.by[k]], e)
  <2>1. \A k \in DOMAIN b : b[k] \in Callers
    BY ElementOfSeq
  <2> QED
    BY <1>2, <2>1
<1>4. \A k, l \in DOMAIN e.by : e.by[k] = e.by[l] => k = l
  BY <1>2
<1>5. Len(b) + 1 \in DOMAIN e.by
  BY <1>1
<1> QED
  BY <1>3, <1>4, <1>5 DEF Fits

LEMMA SentAlone ==
  ASSUME NEW o \in Entries, NEW c \in Callers
  PROVE  LET e == [o EXCEPT !.by = <<c>>]
         IN  /\ e \in Entries /\ e.cmd = o.cmd /\ e.prop = o.prop /\ e.by = <<c>>
             /\ By(e) = {c}
<1> DEFINE e == [o EXCEPT !.by = <<c>>]
<1>1. /\ e \in Entries /\ e.cmd = o.cmd /\ e.prop = o.prop /\ e.by = <<c>>
  <2> DEFINE b == <<c>>
  <2>1. b \in Seq(Callers)
    OBVIOUS
  <2> HIDE DEF b
  <2>2. LET f == [o EXCEPT !.by = b]
        IN  f \in Entries /\ f.cmd = o.cmd /\ f.prop = o.prop /\ f.by = b
    BY <2>1 DEF Entries
  <2> QED
    BY <2>2 DEF b
<1> HIDE DEF e
<1>2. DOMAIN e.by = {1} /\ e.by[1] = c
  BY <1>1
<1>3. By(e) = {c}
  BY <1>2 DEF By
<1> QED
  BY <1>1, <1>3 DEF e

\* An operation sent by a caller that waits nowhere: it is queued with its
\* sender, alone or with those that waited for a write it makes stale.
LEMMA SentWork ==
  ASSUME NEW o \in Entries, NEW c \in Callers, NEW j2,
         pending \in Seq(Entries), Work(pending, job), Apart(pending, c),
         \A d \in Callers \ {c} : j2[d] = job[d], Expects(j2[c], o), o.by = <<>>
  PROVE  /\ Enqueued(o, c) \in Seq(Entries) /\ Work(Enqueued(o, c), j2)
         /\ \A d : Apart(Enqueued(o, c), d) <=> Apart(pending, d) /\ d # c
<1> DEFINE e == [o EXCEPT !.by = WaitersOf(o, c)]
<1>1. Work(pending, j2)
  BY WorkFrame
<1>2. CASE ~HasStale(o)
  <2>1. e = [o EXCEPT !.by = <<c>>]
    BY <1>2 DEF WaitersOf
  <2>4. Enqueued(o, c) = Append(pending, e)
    BY <1>2 DEF Enqueued
  <2> HIDE DEF e
  <2>3. /\ e \in Entries /\ e.cmd = o.cmd /\ e.prop = o.prop /\ e.by = <<c>>
        /\ By(e) = {c}
    BY <2>1, SentAlone
  <2>5. Expects(j2[c], e)
    BY <2>3 DEF Expects
  <2>6. Fits(e, j2)
    <3>1. DOMAIN e.by = {1} /\ e.by[1] = c
      BY <2>3
    <3> QED
      BY <2>5, <3>1 DEF Fits
  <2>7. \A i \in DOMAIN pending : Separate(pending[i], e)
    BY <2>3 DEF Apart, Separate
  <2>8. /\ Append(pending, e) \in Seq(Entries) /\ Work(Append(pending, e), j2)
        /\ \A d : Apart(Append(pending, e), d) <=> Apart(pending, d) /\ d \notin By(e)
    BY <1>1, <2>3, <2>6, <2>7, WorkAppend
  <2> QED
    BY <2>3, <2>4, <2>8
<1>3. CASE HasStale(o)
  <2> DEFINE k == StaleOf(o)
             b == pending[k].by
  <2>1. k \in DOMAIN pending /\ IsStale(o, pending[k])
    BY <1>3 DEF HasStale, StaleOf
  <2>2. e = [o EXCEPT !.by = Append(b, c)]
    BY <1>3 DEF WaitersOf
  <2>3. Enqueued(o, c) = IF o.priority = Interactive THEN [pending EXCEPT ![k] = e]
                         ELSE Append(RemoveAt(pending, k), e)
    BY <1>3 DEF Enqueued
  <2> HIDE DEF k
  <2>4. pending[k] \in Entries /\ b \in Seq(Callers)
    BY <2>1, ElementOfSeq DEF Entries
  <2> HIDE DEF e
  <2>5. /\ e \in Entries /\ e.cmd = o.cmd /\ e.prop = o.prop /\ e.by = Append(b, c)
        /\ By(e) = {b[i] : i \in DOMAIN b} \cup {c}
    BY <2>2, <2>4, Merged
  <2>6. By(e) = By(pending[k]) \cup {c}
    BY <2>5 DEF By
  <2>7. o.cmd = "write" /\ pending[k].cmd = "write" /\ pending[k].prop = o.prop
    BY <2>1, <2>4 DEF IsStale, Coalesces, Entries
  <2>8. Fits(pending[k], j2) /\ c \notin By(pending[k])
    BY <1>1, <2>1 DEF Work, Apart
  <2>9. Fits(e, j2)
    <3>1. Expects(j2[c], e)
      BY <2>5 DEF Expects
    <3>2. \A i \in DOMAIN b : Expects(j2[b[i]], pending[k]) /\ b[i] # c
      BY <2>8 DEF Fits, By
    <3>3. \A i \in DOMAIN b : Expects(j2[b[i]], e)
      BY <2>5, <2>7, <3>2 DEF Expects
    <3>4. \A i, l \in DOMAIN b : b[i] = b[l] => i = l
      BY <2>8 DEF Fits
    <3> QED
      BY <2>4, <2>5, <3>1, <3>2, <3>3, <3>4, MergedFits
  <2>10. \A i \in DOMAIN pending \ {k} : Fits(pending[i], j2) /\ Separate(pending[i], e)
    <3>1. ASSUME NEW i \in DOMAIN pending \ {k} PROVE Separate(pending[i], e)
      <4>1. Separate(pending[i], pending[k]) /\ c \notin By(pending[i])
        BY <2>1 DEF Work, Apart
      <4> QED
        BY <2>6, <4>1 DEF Separate
    <3> QED
      BY <1>1, <3>1 DEF Work
  <2>11. CASE o.priority = Interactive
    <3>1. \A i, m \in DOMAIN pending : i # m => Separate(pending[i], pending[m])
      BY DEF Work
    <3>2. /\ [pending EXCEPT ![k] = e] \in Seq(Entries) /\ Work([pending EXCEPT ![k] = e], j2)
          /\ \A d : Apart([pending EXCEPT ![k] = e], d)
                     <=> d \notin By(e) /\ \A i \in DOMAIN pending \ {k} : d \notin By(pending[i])
      BY <2>1, <2>5, <2>9, <2>10, <3>1, WorkReplace
    <3>3. \A d : Apart([pending EXCEPT ![k] = e], d) <=> Apart(pending, d) /\ d # c
      BY <2>1, <2>6, <3>2 DEF Apart
    <3> QED
      BY <2>3, <2>11, <3>2, <3>3
  <2>12. CASE o.priority # Interactive
    <3> DEFINE p == RemoveAt(pending, k)
    <3>1. /\ p \in Seq(Entries) /\ Work(p, j2)
          /\ \A d : Apart(pending, d) <=> Apart(p, d) /\ d \notin By(pending[k])
          /\ \A i \in DOMAIN p : Separate(p[i], pending[k])
      BY <1>1, <2>1, WorkRemove
    <3> HIDE DEF p
    <3>2. \A i \in DOMAIN p : Separate(p[i], e)
      BY <2>6, <3>1 DEF Apart, Separate
    <3>3. /\ Append(p, e) \in Seq(Entries) /\ Work(Append(p, e), j2)
          /\ \A d : Apart(Append(p, e), d) <=> Apart(p, d) /\ d \notin By(e)
      BY <2>5, <2>9, <3>1, <3>2, WorkAppend
    <3>4. \A d : Apart(Append(p, e), d) <=> Apart(pending, d) /\ d # c
      BY <2>6, <3>1, <3>3
    <3> QED
      BY <2>3, <2>12, <3>3, <3>4 DEF p
  <2> QED
    BY <2>11, <2>12
<1> QED
  BY <1>2, <1>3

-----------------------------------------------------------------------------
(* The ledger: every request waits in one place.                           *)

\* A caller in flight that waits for nothing any longer.
LEMMA LedgerFrame ==
  ASSUME NEW p, NEW a, NEW r, NEW t, NEW j, NEW j2, NEW c, Ledger(p, a, r, t, j),
         Unheld(c, p, a, r, t), \A d \in Callers \ {c} : j2[d] = j[d]
  PROVE  Ledger(p, a, r, t, j2)
<1>1. Work(p, j2) /\ Work(a, j2)
  BY WorkFrame DEF Ledger, Unheld
<1>2. \A i \in DOMAIN r : j2[r[i].by] = j[r[i].by]
  BY DEF Unheld, Ledger
<1>3. \A i \in DOMAIN t : j2[t[i].by] = j[t[i].by]
  BY DEF Unheld, Ledger
<1> QED
  BY <1>1, <1>2, <1>3 DEF Ledger

\* It sends an operation.
LEMMA LedgerSent ==
  ASSUME NEW o \in Entries, NEW c \in Callers, NEW j2, NEW a, NEW r, NEW t,
         pending \in Seq(Entries), Ledger(pending, a, r, t, job),
         Unheld(c, pending, a, r, t),
         \A d \in Callers \ {c} : j2[d] = job[d], Expects(j2[c], o), o.by = <<>>
  PROVE  /\ Enqueued(o, c) \in Seq(Entries) /\ Ledger(Enqueued(o, c), a, r, t, j2)
         /\ \A d : Unheld(d, Enqueued(o, c), a, r, t) <=> Unheld(d, pending, a, r, t) /\ d # c
<1>1. /\ Enqueued(o, c) \in Seq(Entries) /\ Work(Enqueued(o, c), j2)
      /\ \A d : Apart(Enqueued(o, c), d) <=> Apart(pending, d) /\ d # c
  BY SentWork DEF Ledger, Unheld
<1> DEFINE p == Enqueued(o, c)
<1>2. Ledger(pending, a, r, t, j2)
  BY LedgerFrame
<1> HIDE DEF p
<1>3. ASSUME NEW i \in DOMAIN p, NEW k \in DOMAIN a PROVE Separate(p[i], a[k])
  <2>1. ASSUME NEW d \in By(p[i]), d \in By(a[k]) PROVE FALSE
    <3>1. ~Apart(p, d)
      BY DEF Apart
    <3>2. d = c \/ ~Apart(pending, d)
      BY <1>1, <3>1 DEF p
    <3>3. d # c
      BY <2>1 DEF Unheld, Apart
    <3>4. PICK m \in DOMAIN pending : d \in By(pending[m])
      BY <3>2, <3>3 DEF Apart
    <3>5. Separate(pending[m], a[k])
      BY DEF Ledger
    <3> QED
      BY <2>1, <3>4, <3>5 DEF Separate
  <2> QED
    BY <2>1 DEF Separate
<1>4. \A i \in DOMAIN r : Apart(p, r[i].by)
  BY <1>1 DEF p, Ledger, Unheld
<1>5. Work(p, j2)
  BY <1>1 DEF p
<1>6. Ledger(p, a, r, t, j2)
  BY <1>2, <1>3, <1>4, <1>5 DEF Ledger
<1>7. \A d : Unheld(d, p, a, r, t) <=> Unheld(d, pending, a, r, t) /\ d # c
  <2>1. \A d : Apart(p, d) <=> Apart(pending, d) /\ d # c
    BY <1>1 DEF p
  <2> QED
    BY <2>1 DEF Unheld
<1> QED
  BY <1>1, <1>6, <1>7 DEF p

\* It sets a timer.
LEMMA LedgerDelayed ==
  ASSUME NEW c \in Callers, NEW j, NEW j2, NEW p, NEW a, NEW r, NEW t \in Seq(Timers),
         NEW at \in TimerStages, Ledger(p, a, r, t, j), Unheld(c, p, a, r, t),
         \A d \in Callers \ {c} : j2[d] = j[d], j2[c] \in Jobs, j2[c].at = at
  PROVE  LET u == Append(t, [by |-> c, at |-> at])
         IN  /\ u \in Seq(Timers) /\ Ledger(p, a, r, u, j2)
             /\ \A d : Unheld(d, p, a, r, u) <=> Unheld(d, p, a, r, t) /\ d # c
<1> DEFINE e == [by |-> c, at |-> at]
           u == Append(t, e)
<1>1. e \in Timers /\ e.by = c /\ e.at = at
  BY DEF Timers
<1> HIDE DEF e
<1>2. /\ u \in Seq(Timers) /\ DOMAIN t = 1 .. Len(t) /\ Len(t) \in Nat
      /\ DOMAIN u = 1 .. Len(t) + 1
      /\ \A i \in 1 .. Len(t) + 1 : u[i] = IF i <= Len(t) THEN t[i] ELSE e
  BY <1>1, AppendIs
<1>3. Ledger(p, a, r, t, j2)
  BY LedgerFrame
<1>4. Once(u)
  BY <1>1, OnceAppended DEF Ledger, Unheld
<1> HIDE DEF u
<1>5. \A i \in DOMAIN u : (i \in DOMAIN t /\ u[i] = t[i]) \/ (i = Len(t) + 1 /\ u[i] = e)
  BY <1>2
<1>6. (\A i \in DOMAIN t : i \in DOMAIN u /\ u[i] = t[i])
      /\ Len(t) + 1 \in DOMAIN u /\ u[Len(t) + 1] = e
  BY <1>2
<1>7. \A i \in DOMAIN u : /\ u[i].by \in Callers
                          /\ j2[u[i].by] \in Jobs /\ j2[u[i].by].at = u[i].at
                          /\ u[i].at \in TimerStages
  BY <1>1, <1>3, <1>5 DEF Ledger
<1>8. Ledger(p, a, r, u, j2)
  BY <1>3, <1>4, <1>7 DEF Ledger
<1>9. ASSUME NEW d PROVE Unheld(d, p, a, r, u) <=> Unheld(d, p, a, r, t) /\ d # c
  <2>1. (\A i \in DOMAIN u : u[i].by # d) <=> (\A i \in DOMAIN t : t[i].by # d) /\ d # c
    BY <1>1, <1>5, <1>6
  <2> QED
    BY <2>1 DEF Unheld
<1> QED
  BY <1>2, <1>8, <1>9 DEF e, u

\* Those that wait for an operation are in flight.
LEMMA ExpectsAnswer ==
  ASSUME NEW p, NEW j, NEW c, Work(p, j), ~Apart(p, c)
  PROVE  j[c] \in Jobs /\ j[c].at \in AnswerStages
<1>1. PICK i \in DOMAIN p : c \in By(p[i])
  BY DEF Apart
<1>2. PICK k \in DOMAIN p[i].by : c = p[i].by[k]
  BY <1>1 DEF By
<1>3. Expects(j[c], p[i])
  BY <1>2 DEF Work, Fits
<1> QED
  BY <1>3 DEF Expects, AnswerStages

LEMMA FreeIsNoJob == Free \notin Jobs
<1>1. Free.at = "free"
  BY DEF Free
<1> QED
  BY <1>1 DEF Jobs, AnswerStages, TimerStages

\* A caller that has no request waits for nothing.
LEMMA FreeUnheld ==
  ASSUME NEW p, NEW a, NEW r, NEW t, NEW j, NEW c, Ledger(p, a, r, t, j), j[c] = Free
  PROVE  Unheld(c, p, a, r, t)
<1>1. Apart(p, c) /\ Apart(a, c)
  BY ExpectsAnswer, FreeIsNoJob DEF Ledger
<1> QED
  BY <1>1, FreeIsNoJob DEF Ledger, Unheld

\* A caller goes on with its answer.
LEMMA LedgerResumed ==
  ASSUME NEW p, NEW a, NEW r \in Seq(Answers), NEW t, NEW j, Ledger(p, a, r, t, j), r # <<>>
  PROVE  /\ Tail(r) \in Seq(Answers) /\ r[1] \in Answers
         /\ j[r[1].by] \in Jobs /\ j[r[1].by].at \in AnswerStages
         /\ Ledger(p, a, Tail(r), t, j) /\ Unheld(r[1].by, p, a, Tail(r), t)
         /\ \A d : Unheld(d, p, a, Tail(r), t) => d = r[1].by \/ Unheld(d, p, a, r, t)
<1>1. /\ Tail(r) \in Seq(Answers) /\ 1 \in DOMAIN r /\ r[1] \in Answers
      /\ \A i \in DOMAIN Tail(r) : i + 1 \in DOMAIN r /\ Tail(r)[i] = r[i + 1]
      /\ \A i \in DOMAIN r : i # 1 => i - 1 \in DOMAIN Tail(r) /\ Tail(r)[i - 1] = r[i]
  BY TailIs
<1>2. Once(Tail(r)) /\ \A i \in DOMAIN Tail(r) : Tail(r)[i].by # r[1].by
  BY OnceTail DEF Ledger
<1> DEFINE s == Tail(r)
<1> HIDE DEF s
<1>3. \A i \in DOMAIN s : \E m \in DOMAIN r : s[i] = r[m]
  BY <1>1 DEF s
<1>4. \A m \in DOMAIN r : m # 1 => \E i \in DOMAIN s : s[i] = r[m]
  BY <1>1 DEF s
<1>5. Once(s) /\ \A i \in DOMAIN s : s[i].by # r[1].by
  BY <1>2 DEF s
<1>6. j[r[1].by] \in Jobs /\ j[r[1].by].at \in AnswerStages
      /\ Apart(p, r[1].by) /\ Apart(a, r[1].by)
  BY <1>1 DEF Ledger
<1>7. \A i \in DOMAIN s : /\ s[i].by \in Callers
                          /\ j[s[i].by] \in Jobs /\ j[s[i].by].at \in AnswerStages
                          /\ Apart(p, s[i].by) /\ Apart(a, s[i].by)
  BY <1>3 DEF Ledger
<1>8. Ledger(p, a, s, t, j)
  BY <1>5, <1>7 DEF Ledger
<1>9. \A i \in DOMAIN t : t[i].by # r[1].by
  BY <1>6 DEF Ledger, AnswerStages, TimerStages
<1>10. Unheld(r[1].by, p, a, s, t)
  BY <1>5, <1>6, <1>9 DEF Unheld
<1>11. ASSUME NEW d, Unheld(d, p, a, s, t), d # r[1].by PROVE Unheld(d, p, a, r, t)
  <2>1. \A i \in DOMAIN r : r[i].by # d
    BY <1>4, <1>11 DEF Unheld
  <2> QED
    BY <1>11, <2>1 DEF Unheld
<1> QED
  BY <1>1, <1>6, <1>8, <1>10, <1>11 DEF s

\* A timer expires.
LEMMA LedgerExpired ==
  ASSUME NEW p, NEW a, NEW r, NEW t \in Seq(Timers), NEW j, NEW k \in DOMAIN t,
         Ledger(p, a, r, t, j)
  PROVE  /\ RemoveAt(t, k) \in Seq(Timers) /\ t[k] \in Timers
         /\ j[t[k].by] \in Jobs /\ j[t[k].by].at = t[k].at
         /\ Ledger(p, a, r, RemoveAt(t, k), j) /\ Unheld(t[k].by, p, a, r, RemoveAt(t, k))
         /\ \A d : Unheld(d, p, a, r, RemoveAt(t, k)) => d = t[k].by \/ Unheld(d, p, a, r, t)
<1> DEFINE u == RemoveAt(t, k)
<1>1. /\ u \in Seq(Timers)
      /\ \A i \in DOMAIN u : \E m \in DOMAIN t : m # k /\ u[i] = t[m]
      /\ \A m \in DOMAIN t : m # k => \E i \in DOMAIN u : u[i] = t[m]
  BY RemovedIs
<1>2. Once(u) /\ \A i \in DOMAIN u : u[i].by # t[k].by
  BY OnceRemoved DEF Ledger
<1> HIDE DEF u
<1>3. t[k] \in Timers
  BY ElementOfSeq
<1>4. j[t[k].by] \in Jobs /\ j[t[k].by].at = t[k].at /\ t[k].at \in TimerStages
  BY DEF Ledger
<1>5. j[t[k].by].at \notin AnswerStages
  BY <1>4 DEF AnswerStages, TimerStages
<1>6. Apart(p, t[k].by) /\ Apart(a, t[k].by)
  BY <1>5, ExpectsAnswer DEF Ledger
<1>7. \A i \in DOMAIN r : r[i].by # t[k].by
  BY <1>5 DEF Ledger
<1>8. \A i \in DOMAIN u : /\ u[i].by \in Callers
                          /\ j[u[i].by] \in Jobs /\ j[u[i].by].at = u[i].at
                          /\ u[i].at \in TimerStages
  BY <1>1 DEF Ledger
<1>9. Ledger(p, a, r, u, j)
  BY <1>2, <1>8 DEF Ledger
<1>10. Unheld(t[k].by, p, a, r, u)
  BY <1>2, <1>6, <1>7 DEF Unheld
<1>11. ASSUME NEW d, Unheld(d, p, a, r, u), d # t[k].by PROVE Unheld(d, p, a, r, t)
  <2>1. \A i \in DOMAIN t : t[i].by # d
    BY <1>1, <1>11 DEF Unheld
  <2> QED
    BY <1>11, <2>1 DEF Unheld
<1> QED
  BY <1>1, <1>3, <1>4, <1>9, <1>10, <1>11 DEF u

\* The scheduler takes an operation.
LEMMA LedgerStarted ==
  ASSUME NEW p \in Seq(Entries), NEW r, NEW t, NEW j, NEW k \in DOMAIN p,
         Ledger(p, <<>>, r, t, j)
  PROVE  /\ RemoveAt(p, k) \in Seq(Entries) /\ p[k] \in Entries
         /\ Ledger(RemoveAt(p, k), <<p[k]>>, r, t, j)
         /\ \A d : Unheld(d, RemoveAt(p, k), <<p[k]>>, r, t) => Unheld(d, p, <<>>, r, t)
<1> DEFINE q == RemoveAt(p, k)
           a == <<p[k]>>
<1>1. /\ q \in Seq(Entries) /\ Work(q, j)
      /\ \A i \in DOMAIN q : Separate(q[i], p[k])
      /\ \A d : Apart(p, d) <=> Apart(q, d) /\ d \notin By(p[k])
  BY WorkRemove DEF Ledger
<1>2. p[k] \in Entries
  BY ElementOfSeq
<1>3. DOMAIN a = {1} /\ a[1] = p[k]
  OBVIOUS
<1>4. DOMAIN <<>> = {}
  OBVIOUS
<1> HIDE DEF q, a
<1>5. Fits(p[k], j)
  BY DEF Ledger, Work
<1>6. Work(a, j)
  BY <1>3, <1>5 DEF Work
<1>7. \A d : Apart(a, d) <=> d \notin By(p[k])
  BY <1>3 DEF Apart
<1>8. \A i \in DOMAIN q, m \in DOMAIN a : Separate(q[i], a[m])
  BY <1>1, <1>3
<1>9. \A i \in DOMAIN r : Apart(q, r[i].by) /\ Apart(a, r[i].by)
  BY <1>1, <1>7 DEF Ledger
<1>10. Ledger(q, a, r, t, j)
  BY <1>1, <1>6, <1>8, <1>9 DEF Ledger
<1>11. \A d : Unheld(d, q, a, r, t) => Unheld(d, p, <<>>, r, t)
  <2>1. \A d : Apart(<<>>, d)
    BY <1>4 DEF Apart
  <2> QED
    BY <1>1, <1>7, <2>1 DEF Unheld
<1> QED
  BY <1>1, <1>2, <1>10, <1>11 DEF q, a

\* An operation is done: those that waited for it have its answer.
AnswersTo(q, x) == [i \in DOMAIN q.by |-> [by |-> q.by[i], answer |-> x]]

Given(p, q, x, r, s, t, j) ==
  /\ s \in Seq(Answers) /\ Ledger(p, <<>>, s, t, j)
  /\ \A d : Unheld(d, p, <<>>, s, t) => Unheld(d, p, <<q>>, r, t)
  /\ \A i \in DOMAIN r : i \in DOMAIN s /\ s[i] = r[i]
  /\ \A i \in DOMAIN s : \/ s[i].by \in By(q) /\ s[i].answer = x
                         \/ i \in DOMAIN r /\ s[i] = r[i]
  /\ \A d \in By(q) : \E i \in DOMAIN s : s[i].by = d

LEMMA LedgerAnswered ==
  ASSUME NEW p, NEW q \in Entries, NEW r \in Seq(Answers), NEW t, NEW j,
         NEW x \in [ok : BOOLEAN, state : States], Ledger(p, <<q>>, r, t, j),
         NEW s, s = r \o AnswersTo(q, x)
  PROVE  Given(p, q, x, r, s, t, j)
<1> DEFINE b == q.by
           w == AnswersTo(q, x)
<1>0. s = r \o w
  OBVIOUS
<1>1. b \in Seq(Callers) /\ Len(b) \in Nat /\ DOMAIN b = 1 .. Len(b)
      /\ \A i \in DOMAIN b : b[i] \in Callers
  BY LenProperties, ElementOfSeq DEF Entries
<1>2. \A d : d \in By(q) <=> \E i \in DOMAIN b : d = b[i]
  BY DEF By
<1>3. Fits(q, j)
  <2>1. 1 \in DOMAIN <<q>> /\ <<q>>[1] = q
    OBVIOUS
  <2> QED
    BY <2>1 DEF Ledger, Work
<1>4. \A i, m \in DOMAIN b : b[i] = b[m] => i = m
  BY <1>3 DEF Fits
<1>5. w \in Seq(Answers) /\ Len(w) = Len(b) /\ DOMAIN w = DOMAIN b
      /\ \A i \in DOMAIN b : w[i] = [by |-> b[i], answer |-> x]
  <2>0. w = [i \in DOMAIN b |-> [by |-> b[i], answer |-> x]]
    BY DEF AnswersTo
  <2> HIDE DEF b, w
  <2>1. w \in [1 .. Len(b) -> Answers]
    BY <1>1, <2>0 DEF Answers
  <2>2. w \in Seq(Answers)
    BY <1>1, <2>1, SeqDef
  <2> QED
    BY <1>1, <2>0, <2>1, <2>2, LenProperties
<1> HIDE DEF b, w
<1>6. /\ s \in Seq(Answers) /\ DOMAIN r = 1 .. Len(r) /\ Len(r) \in Nat
      /\ DOMAIN s = 1 .. Len(r) + Len(b)
      /\ \A i \in 1 .. Len(r) + Len(b) : s[i] = IF i <= Len(r) THEN r[i] ELSE w[i - Len(r)]
  <2>0. w \in Seq(Answers)
    BY <1>5
  <2>1. s \in Seq(Answers) /\ Len(s) = Len(r) + Len(w)
        /\ \A i \in 1 .. Len(r) + Len(w) : s[i] = IF i <= Len(r) THEN r[i] ELSE w[i - Len(r)]
    BY <1>0, <2>0, ConcatProperties
  <2> QED
    BY <1>1, <1>5, <2>1, LenProperties
<1>7. \A i \in DOMAIN r : i \in DOMAIN s /\ s[i] = r[i]
  BY <1>1, <1>6
<1>8. ASSUME NEW i \in DOMAIN s
      PROVE  \/ i \in DOMAIN r /\ s[i] = r[i]
             \/ \E m \in DOMAIN b : i = Len(r) + m /\ s[i].by = b[m] /\ s[i].answer = x
  <2>1. CASE i <= Len(r)
    BY <1>1, <1>6, <2>1
  <2>2. CASE ~(i <= Len(r))
    <3>1. i - Len(r) \in DOMAIN b /\ i = Len(r) + (i - Len(r)) /\ s[i] = w[i - Len(r)]
      BY <1>1, <1>6, <2>2
    <3> DEFINE m == i - Len(r)
    <3> HIDE DEF m
    <3>2. m \in DOMAIN b /\ i = Len(r) + m /\ s[i] = w[m]
      BY <3>1 DEF m
    <3>3. s[i].by = b[m] /\ s[i].answer = x
      BY <1>5, <3>2
    <3> QED
      BY <3>2, <3>3
  <2> QED
    BY <2>1, <2>2
<1>9. ASSUME NEW m \in DOMAIN b PROVE Len(r) + m \in DOMAIN s /\ s[Len(r) + m].by = b[m]
  <2>1. Len(r) + m \in DOMAIN s /\ s[Len(r) + m] = w[m]
    BY <1>1, <1>6
  <2> QED
    BY <1>5, <2>1
<1>10. \A i \in DOMAIN s : \/ s[i].by \in By(q) /\ s[i].answer = x
                           \/ i \in DOMAIN r /\ s[i] = r[i]
  BY <1>2, <1>8
<1>11. \A d \in By(q) : \E i \in DOMAIN s : s[i].by = d
  BY <1>2, <1>9
<1>12. \A i \in DOMAIN r : r[i].by \notin By(q)
  <2>1. 1 \in DOMAIN <<q>> /\ <<q>>[1] = q
    OBVIOUS
  <2> QED
    BY <2>1 DEF Ledger, Apart
<1>13. Once(s)
  <2>1. \A i, m \in DOMAIN s : s[i].by = s[m].by => i = m
    BY <1>2, <1>4, <1>8, <1>12 DEF Ledger, Once
  <2> QED
    BY <2>1 DEF Once
<1>14. DOMAIN <<>> = {}
  OBVIOUS
<1>15. \A d : Apart(<<>>, d)
  BY <1>14 DEF Apart
<1>16. \A d \in By(q) : d \in Callers /\ j[d] \in Jobs /\ j[d].at \in AnswerStages /\ Apart(p, d)
  <2>1. 1 \in DOMAIN <<q>> /\ <<q>>[1] = q
    OBVIOUS
  <2>2. ASSUME NEW d \in By(q) PROVE j[d] \in Jobs /\ j[d].at \in AnswerStages
    <3>1. ~Apart(<<q>>, d)
      BY <2>1 DEF Apart
    <3> QED
      BY <3>1, ExpectsAnswer DEF Ledger
  <2>3. \A i \in DOMAIN p : Separate(p[i], q)
    BY <2>1 DEF Ledger
  <2>4. \A d \in By(q) : Apart(p, d)
    BY <2>3 DEF Separate, Apart
  <2> QED
    BY <1>1, <1>2, <2>2, <2>4
<1>17. \A i \in DOMAIN s : /\ s[i].by \in Callers
                           /\ j[s[i].by] \in Jobs /\ j[s[i].by].at \in AnswerStages
                           /\ Apart(p, s[i].by) /\ Apart(<<>>, s[i].by)
  BY <1>10, <1>15, <1>16 DEF Ledger
<1>18. Work(<<>>, j)
  BY <1>14 DEF Work
<1>19. Ledger(p, <<>>, s, t, j)
  BY <1>13, <1>14, <1>17, <1>18 DEF Ledger
<1>20. ASSUME NEW d, Unheld(d, p, <<>>, s, t) PROVE Unheld(d, p, <<q>>, r, t)
  <2>1. d \notin By(q)
    BY <1>11, <1>20 DEF Unheld
  <2>2. DOMAIN <<q>> = {1} /\ <<q>>[1] = q
    OBVIOUS
  <2>3. Apart(<<q>>, d)
    BY <2>1, <2>2 DEF Apart
  <2>4. \A i \in DOMAIN r : r[i].by # d
    BY <1>7, <1>20 DEF Unheld
  <2> QED
    BY <1>20, <2>3, <2>4 DEF Unheld
<1> QED
  BY <1>6, <1>7, <1>10, <1>11, <1>19, <1>20 DEF Given

-----------------------------------------------------------------------------
(* What a request goes through.                                            *)

\* The steps of a request that follow one another.
NextStage(b, b2) ==
  \/ b.at = "stopping" /\ b2.at = "settle"
  \/ b.at = "settle" /\ b2.at = (IF b.crossing THEN "mode" ELSE "write")
  \/ b.at = "mode" /\ b2.at = "write"
  \/ b.at = "write" /\ b2.at = "check"
  \/ b.at = "write" /\ ~b.restart /\ b2.at = "read"
  \/ b.at = "check" /\ b.restart /\ b2.at = "running"
  \/ b.at = "check" /\ ~b.restart /\ b2.at = "read"
  \/ b.at = "running" /\ b2.at = "rest"
  \/ b.at = "rest" /\ b2.at = "read"
  \/ b.at = "read" /\ b2.at = "read-run"
  \/ b.at = "single-mode" /\ b2.at = "single"
  \/ b.at = "single" /\ b2.at = "read-run"

\* A change of the timebase is over only when the scope runs again, and none
\* before its write.
Ends(b) ==
  /\ b.restart => b.at \notin {"stopping", "settle", "mode", "write", "check"}
  /\ b.at \notin {"single", "mode"}

Follows(b, b2) ==
  /\ b2 \in Jobs /\ StageFits(b2) /\ b2.request = b.request /\ b2.revision = b.revision
  /\ b2.restart = b.restart /\ b2.crossing = b.crossing
  /\ NextStage(b, b2)

\* What an operation has of the request that sends it.
Carries(r, o) ==
  /\ o.cmd = "write" => o.value = r.value
  /\ o.cmd = "mode" => o.value = TargetMode(r.value)
  /\ r.kind = "set" /\ r.prop \in Trigger => o.priority = Normal

\* A request goes on: it sends an operation, sets a timer or is done.
Sends(c, o, p2, j2) ==
  /\ o \in Entries /\ o.by = <<>> /\ p2 = Enqueued(o, c) /\ Expects(j2[c], o)
  /\ Carries(j2[c].request, o)

\* Here t and t2 are the timers before and after.
Moves(c, t, t2) ==
  /\ \A d \in Callers \ {c} : job'[d] = job[d]
  /\ job' \in [Callers -> {Free} \cup Jobs]
  /\ \/ /\ Follows(job[c], job'[c]) /\ t2 = t
        /\ \E o \in Entries : Sends(c, o, pending', job')
     \/ /\ Follows(job[c], job'[c]) /\ pending' = pending
        /\ \E at \in TimerStages :
             job'[c].at = at /\ t2 = Append(t, [by |-> c, at |-> at])
     \/ Ends(job[c]) /\ job'[c] = Free /\ pending' = pending /\ t2 = t

GoesOn(c) == Moves(c, timers, timers')

LEMMA RequestFields ==
  ASSUME NEW r \in Requests
  PROVE  /\ r.kind \in Kinds \cup {"action"}
         /\ r.kind \in Kinds =>
              r.prop \in {"scale", "position", "sweep", "level"} /\ r.value \in Values
         /\ r.kind = "action" => r.prop \in Actions
         /\ PriorityOf(r) \in 0 .. 2 /\ TargetMode(r.value) \in {0, 1}
BY DEF Requests, Kinds, Actions, PriorityOf, Immediate, Interactive, Normal, TargetMode

LEMMA OperationIs ==
  ASSUME NEW cmd \in Commands, NEW prop \in AllProps, NEW value \in Values \cup {0, 1},
         NEW priority \in 0 .. 2, NEW key \in BOOLEAN,
         cmd = "write" => prop \in ControlSettings \ {"mode"} /\ value \in Values,
         cmd = "mode" => value \in {0, 1}, key => cmd = "write"
  PROVE  LET o == Operation(cmd, prop, value, priority, key)
         IN  o \in Entries /\ o.by = <<>> /\ o.cmd = cmd /\ o.prop = prop
<1> DEFINE b == <<>>
           o == [cmd |-> cmd, prop |-> prop, value |-> value, priority |-> priority,
                 key |-> key, by |-> b]
<1>1. b \in Seq(Callers)
  OBVIOUS
<1> HIDE DEF b
<1>2. o \in Entries /\ o.by = b /\ o.cmd = cmd /\ o.prop = prop
  BY <1>1 DEF Entries
<1> QED
  BY <1>2 DEF b, Operation

\* The operations of a request are operations of the scheduler.
LEMMA CommandsFit ==
  ASSUME NEW r \in Requests
  PROVE  /\ r.kind \in Kinds => ModeCommand(r) \in Entries /\ WriteCommand(r) \in Entries
                               /\ CheckCommand(r) \in Entries /\ ReadCommand(r) \in Entries
         /\ ModeCommand(r).by = <<>> /\ ModeCommand(r).cmd = "mode"
         /\ WriteCommand(r).by = <<>> /\ WriteCommand(r).cmd = "write"
         /\ WriteCommand(r).prop = r.prop
         /\ CheckCommand(r).by = <<>> /\ CheckCommand(r).cmd = "check"
         /\ ReadCommand(r).by = <<>> /\ ReadCommand(r).cmd = "read"
         /\ Carries(r, ModeCommand(r)) /\ Carries(r, WriteCommand(r))
         /\ Carries(r, CheckCommand(r)) /\ Carries(r, ReadCommand(r))
<1>1. /\ "mode" \in Commands /\ "write" \in Commands /\ "check" \in Commands
      /\ "read" \in Commands /\ "mode" \in AllProps
      /\ \A p \in {"scale", "position", "sweep", "level"} :
           p \in AllProps /\ p \in ControlSettings \ {"mode"}
      /\ 0 \in Values \cup {0, 1} /\ Normal \in 0 .. 2 /\ TRUE \in BOOLEAN /\ FALSE \in BOOLEAN
  BY DEF Commands, AllProps, ControlSettings, Horizontal, Trigger, Normal
<1>2. PriorityOf(r) \in 0 .. 2 /\ TargetMode(r.value) \in {0, 1}
  BY RequestFields
<1>3. ASSUME r.kind \in Kinds PROVE ModeCommand(r) \in Entries
  BY <1>1, <1>2, <1>3, OperationIs DEF ModeCommand
<1>4. ASSUME r.kind \in Kinds PROVE WriteCommand(r) \in Entries
  <2> DEFINE pr == IF r.prop = "sweep" THEN Normal ELSE PriorityOf(r)
             key == r.prop \in Keyed
  <2>1. r.prop \in AllProps /\ r.prop \in ControlSettings \ {"mode"} /\ r.value \in Values
    BY <1>1, <1>4, RequestFields
  <2>2. pr \in 0 .. 2
    BY <1>1, <1>2
  <2>3. key \in BOOLEAN
    OBVIOUS
  <2> HIDE DEF pr, key
  <2>4. Operation("write", r.prop, r.value, pr, key) \in Entries
    BY <1>1, <2>1, <2>2, <2>3, OperationIs
  <2> QED
    BY <2>4 DEF WriteCommand, pr, key
<1>5. ASSUME r.kind \in Kinds PROVE CheckCommand(r) \in Entries /\ ReadCommand(r) \in Entries
  <2>1. r.prop \in AllProps
    BY <1>1, <1>5, RequestFields
  <2>2. CheckCommand(r) \in Entries
    BY <1>1, <1>2, <2>1, OperationIs DEF CheckCommand
  <2>3. ReadCommand(r) \in Entries
    BY <1>1, <1>2, <2>1, OperationIs DEF ReadCommand
  <2> QED
    BY <2>2, <2>3
<1>6. /\ ModeCommand(r).by = <<>> /\ ModeCommand(r).cmd = "mode"
      /\ WriteCommand(r).by = <<>> /\ WriteCommand(r).cmd = "write"
      /\ WriteCommand(r).prop = r.prop
      /\ CheckCommand(r).by = <<>> /\ CheckCommand(r).cmd = "check"
      /\ ReadCommand(r).by = <<>> /\ ReadCommand(r).cmd = "read"
  BY DEF ModeCommand, WriteCommand, CheckCommand, ReadCommand, Operation
<1>7. r.kind = "set" => PriorityOf(r) = Normal
  BY DEF PriorityOf
<1>8. /\ Carries(r, ModeCommand(r)) /\ Carries(r, WriteCommand(r))
      /\ Carries(r, CheckCommand(r)) /\ Carries(r, ReadCommand(r))
  BY <1>7 DEF Carries, ModeCommand, WriteCommand, CheckCommand, ReadCommand, Operation
<1> QED
  BY <1>3, <1>4, <1>5, <1>6, <1>8

\* Operations that write no setting, at their request's priority if need be.
LEMMA CarriesNothing ==
  ASSUME NEW r, NEW o, o.cmd \notin {"write", "mode"},
         \/ r.kind = "action"
         \/ r.prop \notin Trigger
         \/ o.priority = Normal
  PROVE  Carries(r, o)
BY DEF Carries

LEMMA OtherCommandsFit ==
  /\ \A a \in Actions : /\ ActionCommand(a) \in Entries /\ ActionCommand(a).by = <<>>
                        /\ ActionCommand(a).cmd = a
  /\ \A pr \in 0 .. 2 :
       /\ Operation("readrun", "run", 0, pr, FALSE) \in Entries
       /\ Operation("readrun", "run", 0, pr, FALSE).by = <<>>
       /\ Operation("readrun", "run", 0, pr, FALSE).cmd = "readrun"
       /\ Operation("readrun", "run", 0, pr, FALSE).priority = pr
       /\ Operation("read", "scale", 0, pr, FALSE) \in Entries
       /\ Operation("read", "scale", 0, pr, FALSE).by = <<>>
       /\ Operation("read", "scale", 0, pr, FALSE).cmd = "read"
<1>1. /\ \A a \in Actions : a \in Commands /\ a # "write" /\ a # "mode"
      /\ "readrun" \in Commands /\ "read" \in Commands
      /\ "run" \in AllProps /\ "scale" \in AllProps
      /\ 0 \in Values \cup {0, 1} /\ Immediate \in 0 .. 2 /\ FALSE \in BOOLEAN
  BY DEF Commands, Actions, AllProps, ControlSettings, Horizontal, Immediate
<1>2. \A a \in Actions : ActionCommand(a) \in Entries
  BY <1>1, OperationIs DEF ActionCommand
<1>3. \A pr \in 0 .. 2 : Operation("readrun", "run", 0, pr, FALSE) \in Entries
  BY <1>1, OperationIs
<1>4. \A pr \in 0 .. 2 : Operation("read", "scale", 0, pr, FALSE) \in Entries
  BY <1>1, OperationIs
<1> QED
  BY <1>2, <1>3, <1>4 DEF ActionCommand, Operation

LEMMA StageChanged ==
  ASSUME NEW b \in Jobs, NEW at \in AnswerStages \cup TimerStages
  PROVE  LET b2 == [b EXCEPT !.at = at]
         IN  /\ b2 \in Jobs /\ b2.at = at /\ b2.request = b.request /\ b2.revision = b.revision
             /\ b2.restart = b.restart /\ b2.crossing = b.crossing /\ b2.failed = b.failed
BY DEF Jobs

LEMMA SendGoesOn ==
  ASSUME NEW c \in Callers, NEW o \in Entries, NEW at \in AnswerStages, NEW b,
         job \in [Callers -> {Free} \cup Jobs], o.by = <<>>, b \in Jobs, b.at = at,
         Follows(job[c], b), Expects(b, o), Carries(b.request, o),
         job' = [job EXCEPT ![c] = b], pending' = Enqueued(o, c), NEW t
  PROVE  Moves(c, t, t)
<1>1. /\ job'[c] = b /\ \A d \in Callers \ {c} : job'[d] = job[d]
      /\ job' \in [Callers -> {Free} \cup Jobs]
  OBVIOUS
<1>2. Sends(c, o, pending', job')
  BY <1>1 DEF Sends
<1> QED
  BY <1>1, <1>2 DEF Moves

LEMMA DelayGoesOn ==
  ASSUME NEW c \in Callers, NEW at \in TimerStages, NEW b,
         job \in [Callers -> {Free} \cup Jobs], b \in Jobs, b.at = at, Follows(job[c], b),
         job' = [job EXCEPT ![c] = b], pending' = pending,
         timers' = Append(timers, [by |-> c, at |-> at])
  PROVE  GoesOn(c)
<1>1. /\ job'[c] = b /\ \A d \in Callers \ {c} : job'[d] = job[d]
      /\ job' \in [Callers -> {Free} \cup Jobs]
  OBVIOUS
<1> QED
  BY <1>1 DEF GoesOn, Moves

LEMMA FinishGoesOn ==
  ASSUME NEW c \in Callers, job \in [Callers -> {Free} \cup Jobs], Ends(job[c]), Finish(c)
  PROVE  GoesOn(c)
<1>1. /\ job'[c] = Free /\ \A d \in Callers \ {c} : job'[d] = job[d]
      /\ job' \in [Callers -> {Free} \cup Jobs] /\ pending' = pending /\ timers' = timers
  BY DEF Finish
<1> QED
  BY <1>1 DEF GoesOn, Moves

LEMMA SendStage ==
  ASSUME NEW c \in Callers, NEW o \in Entries, NEW at \in AnswerStages,
         job \in [Callers -> {Free} \cup Jobs], job[c] \in Jobs, o.by = <<>>,
         Follows(job[c], [job[c] EXCEPT !.at = at]), Expects([job[c] EXCEPT !.at = at], o),
         Carries(job[c].request, o), Send(c, o, at)
  PROVE  GoesOn(c)
<1> DEFINE b == [job[c] EXCEPT !.at = at]
<1>1. job' = [job EXCEPT ![c] = b] /\ pending' = Enqueued(o, c) /\ timers' = timers
  BY DEF Send
<1>2. b \in Jobs /\ b.at = at
  BY StageChanged
<1>3. Follows(job[c], b) /\ Expects(b, o)
  OBVIOUS
<1> HIDE DEF b
<1>4. Carries(b.request, o)
  BY <1>3 DEF Follows
<1> QED
  BY <1>1, <1>2, <1>3, <1>4, SendGoesOn DEF GoesOn

LEMMA DelayStage ==
  ASSUME NEW c \in Callers, NEW at \in TimerStages,
         job \in [Callers -> {Free} \cup Jobs], job[c] \in Jobs,
         Follows(job[c], [job[c] EXCEPT !.at = at]), Delay(c, at)
  PROVE  GoesOn(c)
<1> DEFINE b == [job[c] EXCEPT !.at = at]
<1>1. /\ job' = [job EXCEPT ![c] = b] /\ pending' = pending
      /\ timers' = Append(timers, [by |-> c, at |-> at])
  BY DEF Delay
<1>2. b \in Jobs /\ b.at = at
  BY StageChanged
<1>3. Follows(job[c], b)
  OBVIOUS
<1> HIDE DEF b
<1> QED
  BY <1>1, <1>2, <1>3, DelayGoesOn

\* What an answer puts into the store.
LEMMA Applied ==
  ASSUME NEW c, NEW S, NEW s, store \in States,
         \A p \in S \cap (ControlSettings \ {"mode"}) : s[p] \in Values,
         "mode" \in S => s["mode"] \in {0, 1}, "run" \in S => s["run"] \in Actions,
         ApplyReconciledUpdate(c, S, s)
  PROVE  /\ store' \in States
         /\ "run" \notin S => store'["run"] = store["run"]
         /\ "run" \in S /\ job[c].revision = revision => store'["run"] = s["run"]
<1>1. CASE job[c].revision # revision
  BY <1>1 DEF ApplyReconciledUpdate
<1>2. CASE job[c].revision = revision
  <2>1. store' = [p \in DOMAIN store |-> IF p \in S THEN s[p] ELSE store[p]]
    BY <1>2 DEF ApplyReconciledUpdate
  <2>2. DOMAIN store = AllProps /\ DOMAIN store' = AllProps
        /\ \A p \in AllProps : store'[p] = IF p \in S THEN s[p] ELSE store[p]
    BY <2>1 DEF States
  <2>3. store' = [p \in AllProps |-> store'[p]]
    BY <2>1, <2>2
  <2>4. "run" \in AllProps /\ "mode" \in AllProps /\ ControlSettings \subseteq AllProps
    BY DEF AllProps, ControlSettings, Horizontal
  <2>5. \A p \in ControlSettings \ {"mode"} : store'[p] \in Values
    BY <2>2, <2>4 DEF States
  <2>6. store'["mode"] \in {0, 1} /\ store'["run"] \in Actions
    BY <2>2, <2>4 DEF States
  <2>7. \A p \in AllProps : store'[p] \in Values \cup {0, 1} \cup Actions
    BY <2>5, <2>6 DEF AllProps
  <2>8. store' \in [AllProps -> Values \cup {0, 1} \cup Actions]
    BY <2>3, <2>7
  <2>9. store' \in States
    BY <2>5, <2>6, <2>8 DEF States
  <2>10. /\ "run" \notin S => store'["run"] = store["run"]
         /\ "run" \in S => store'["run"] = s["run"]
    BY <2>2, <2>4
  <2> QED
    BY <2>9, <2>10
<1> QED
  BY <1>1, <1>2

\* What the server shows after an answer.
Shows(c, ok, s) ==
  /\ store' \in States
  /\ job[c].at \notin {"read-run", "action"} => store'["run"] = store["run"]
  /\ job[c].at = "read-run" /\ ok /\ job[c].revision = revision => store'["run"] = s["run"]
  /\ job[c].at = "action" /\ job[c].revision = revision => store'["run"] = job[c].request.prop

InFlight(c) ==
  /\ job \in [Callers -> {Free} \cup Jobs] /\ job[c] \in Jobs /\ StageFits(job[c])
  /\ job[c].request \in Requests /\ store \in States

LEMMA AfterWriteGoesOn ==
  ASSUME NEW c \in Callers, InFlight(c), AfterWrite(c), ~job[c].restart,
         job[c].at \in {"write", "check"}
  PROVE  GoesOn(c)
<1> DEFINE b == job[c]
           r == b.request
           b2 == [b EXCEPT !.at = "read"]
<1>1. b \in Jobs /\ StageFits(b) /\ r \in Requests /\ job \in [Callers -> {Free} \cup Jobs]
  BY DEF InFlight
<1>2. CASE ReadsBack(r)
  <2>1. Send(c, ReadCommand(r), "read")
    BY <1>2 DEF AfterWrite
  <2>2. r.kind \in Kinds
    BY <1>2 DEF ReadsBack, Kinds
  <2>3. ReadCommand(r) \in Entries /\ ReadCommand(r).by = <<>> /\ ReadCommand(r).cmd = "read"
        /\ Carries(r, ReadCommand(r))
    BY <1>1, <2>2, CommandsFit
  <2>4. /\ b2 \in Jobs /\ b2.at = "read" /\ b2.request = r /\ b2.revision = b.revision
        /\ b2.restart = b.restart /\ b2.crossing = b.crossing
    BY <1>1, StageChanged DEF AnswerStages
  <2> HIDE DEF b2
  <2>5. r.kind # "action"
    BY <1>2 DEF ReadsBack
  <2>6. StageFits(b2)
    BY <1>1, <1>2, <2>4, <2>5 DEF StageFits
  <2>7. Follows(b, b2)
    BY <2>4, <2>6 DEF Follows, NextStage
  <2>8. Expects(b2, ReadCommand(r))
    BY <2>3, <2>4 DEF Expects
  <2>9. "read" \in AnswerStages
    BY DEF AnswerStages
  <2> QED
    BY <1>1, <2>1, <2>3, <2>7, <2>8, <2>9, SendStage DEF b2
<1>3. CASE ~ReadsBack(r)
  <2>1. Finish(c)
    BY <1>3 DEF AfterWrite
  <2>2. Ends(b)
    BY DEF Ends
  <2> QED
    BY <1>1, <2>1, <2>2, FinishGoesOn
<1> QED
  BY <1>2, <1>3

LEMMA StoppingGoesOn ==
  ASSUME NEW c \in Callers, InFlight(c), job[c].at = "stopping", Delay(c, "settle")
  PROVE  GoesOn(c)
<1> DEFINE b == job[c]
           b2 == [b EXCEPT !.at = "settle"]
<1>1. b \in Jobs /\ StageFits(b) /\ job \in [Callers -> {Free} \cup Jobs]
      /\ "settle" \in TimerStages
  BY DEF InFlight, TimerStages
<1>2. /\ b2 \in Jobs /\ b2.at = "settle" /\ b2.request = b.request /\ b2.revision = b.revision
      /\ b2.restart = b.restart /\ b2.crossing = b.crossing
  BY <1>1, StageChanged
<1> HIDE DEF b2
<1>3. StageFits(b2)
  BY <1>1, <1>2 DEF StageFits
<1>4. Follows(b, b2)
  BY <1>2, <1>3 DEF Follows, NextStage
<1> QED
  BY <1>1, <1>4, DelayStage DEF b2

LEMMA ModeGoesOn ==
  ASSUME NEW c \in Callers, InFlight(c), job[c].at = "mode",
         Send(c, WriteCommand(job[c].request), "write")
  PROVE  GoesOn(c)
<1> DEFINE b == job[c]
           r == b.request
           b2 == [b EXCEPT !.at = "write"]
<1>1. b \in Jobs /\ StageFits(b) /\ r \in Requests /\ job \in [Callers -> {Free} \cup Jobs]
      /\ "write" \in AnswerStages
  BY DEF InFlight, AnswerStages
<1>2. /\ b2 \in Jobs /\ b2.at = "write" /\ b2.request = r /\ b2.revision = b.revision
      /\ b2.restart = b.restart /\ b2.crossing = b.crossing
  BY <1>1, StageChanged
<1> HIDE DEF b2
<1>3. r.kind \in Kinds /\ r.kind # "action"
  BY <1>1 DEF StageFits, Kinds
<1>4. /\ WriteCommand(r) \in Entries /\ WriteCommand(r).by = <<>>
      /\ WriteCommand(r).cmd = "write" /\ WriteCommand(r).prop = r.prop
      /\ Carries(r, WriteCommand(r))
  BY <1>1, <1>3, CommandsFit
<1>5. StageFits(b2)
  BY <1>1, <1>2, <1>3 DEF StageFits
<1>6. Follows(b, b2)
  BY <1>2, <1>5 DEF Follows, NextStage
<1>7. Expects(b2, WriteCommand(r))
  BY <1>2, <1>4 DEF Expects
<1> QED
  BY <1>1, <1>4, <1>6, <1>7, SendStage DEF b2

LEMMA WriteGoesOn ==
  ASSUME NEW c \in Callers, InFlight(c), job[c].at = "write", Written(c)
  PROVE  GoesOn(c)
<1> DEFINE b == job[c]
           r == b.request
           b2 == [b EXCEPT !.at = "check"]
<1>1. b \in Jobs /\ StageFits(b) /\ r \in Requests /\ job \in [Callers -> {Free} \cup Jobs]
      /\ "check" \in AnswerStages
  BY DEF InFlight, AnswerStages
<1>2. CASE r.prop \in {"scale", "position"}
  <2>1. Send(c, CheckCommand(r), "check")
    BY <1>2 DEF Written
  <2>2. /\ b2 \in Jobs /\ b2.at = "check" /\ b2.request = r /\ b2.revision = b.revision
        /\ b2.restart = b.restart /\ b2.crossing = b.crossing
    BY <1>1, StageChanged
  <2> HIDE DEF b2
  <2>3. r.kind # "action"
    BY <1>1 DEF StageFits
  <2>4. r.kind \in Kinds
    BY <1>1, <2>3, RequestFields
  <2>5. CheckCommand(r) \in Entries /\ CheckCommand(r).by = <<>> /\ CheckCommand(r).cmd = "check"
        /\ Carries(r, CheckCommand(r))
    BY <1>1, <2>4, CommandsFit
  <2>6. StageFits(b2)
    BY <1>1, <1>2, <2>2, <2>3 DEF StageFits
  <2>7. Follows(b, b2)
    BY <2>2, <2>6 DEF Follows, NextStage
  <2>8. Expects(b2, CheckCommand(r))
    BY <2>2, <2>5 DEF Expects
  <2> QED
    BY <1>1, <2>1, <2>5, <2>7, <2>8, SendStage DEF b2
<1>3. CASE r.prop \notin {"scale", "position"}
  <2>1. AfterWrite(c)
    BY <1>3 DEF Written
  <2>2. b.restart \in BOOLEAN
    BY <1>1 DEF Jobs
  <2>3. ~b.restart
    BY <1>1, <1>3, <2>2 DEF StageFits
  <2> QED
    BY <2>1, <2>3, AfterWriteGoesOn
<1> QED
  BY <1>2, <1>3

LEMMA CheckGoesOn ==
  ASSUME NEW c \in Callers, NEW ok, InFlight(c), job[c].at = "check", Checked(c, ok),
         ok \in BOOLEAN
  PROVE  GoesOn(c)
<1> DEFINE b == job[c]
           r == b.request
           b1 == [b EXCEPT !.at = "running"]
           b2 == [b1 EXCEPT !.failed = ~ok]
<1>1. b \in Jobs /\ StageFits(b) /\ r \in Requests /\ job \in [Callers -> {Free} \cup Jobs]
      /\ "running" \in AnswerStages
  BY DEF InFlight, AnswerStages
<1>2. CASE b.restart /\ Restart(c, ok)
  <2>1. /\ job' = [job EXCEPT ![c] = b2] /\ pending' = Enqueued(ActionCommand("run"), c)
        /\ timers' = timers
    <3>1. job' = [job EXCEPT ![c].at = "running", ![c].failed = ~ok]
      BY <1>2 DEF Restart
    <3>2. job' = [job EXCEPT ![c] = b2]
      BY <1>1, <3>1
    <3> QED
      BY <1>2, <3>2 DEF Restart
  <2>2. /\ b1 \in Jobs /\ b1.at = "running" /\ b1.request = r /\ b1.revision = b.revision
        /\ b1.restart = b.restart /\ b1.crossing = b.crossing
    BY <1>1, StageChanged
  <2> HIDE DEF b1
  <2>3. /\ b2 \in Jobs /\ b2.at = "running" /\ b2.request = r /\ b2.revision = b.revision
        /\ b2.restart = b.restart /\ b2.crossing = b.crossing
    BY <2>2 DEF Jobs
  <2> HIDE DEF b2
  <2>4. b.restart = TRUE
    BY <1>2
  <2>5. StageFits(b2)
    <3>1. r.kind \in Kinds /\ r.kind # "action" /\ r.prop \in {"scale", "position"}
      BY <1>1, <1>2 DEF StageFits, Kinds
    <3> QED
      BY <1>1, <1>2, <2>3, <3>1 DEF StageFits
  <2>6. Follows(b, b2)
    BY <1>2, <2>3, <2>5 DEF Follows, NextStage
  <2>7. /\ ActionCommand("run") \in Entries /\ ActionCommand("run").by = <<>>
        /\ ActionCommand("run").cmd = "run"
    BY OtherCommandsFit DEF Actions
  <2>8. Expects(b2, ActionCommand("run"))
    BY <2>3, <2>7 DEF Expects
  <2>9. Carries(b2.request, ActionCommand("run"))
    <3>1. r.prop \notin Trigger
      BY <1>1, <1>2 DEF StageFits, Trigger
    <3> QED
      BY <2>3, <2>7, <3>1, CarriesNothing
  <2> QED
    BY <1>1, <2>1, <2>3, <2>6, <2>7, <2>8, <2>9, SendGoesOn DEF GoesOn
<1>3. CASE ~b.restart /\ AfterWrite(c)
  BY <1>3, AfterWriteGoesOn
<1>4. CASE ~b.restart /\ Finish(c)
  BY <1>1, <1>4, FinishGoesOn DEF Ends
<1> QED
  BY <1>2, <1>3, <1>4 DEF Checked

LEMMA RunningGoesOn ==
  ASSUME NEW c \in Callers, InFlight(c), job[c].at = "running",
         IF job[c].failed THEN Finish(c) ELSE Delay(c, "rest")
  PROVE  GoesOn(c)
<1> DEFINE b == job[c]
           b2 == [b EXCEPT !.at = "rest"]
<1>1. b \in Jobs /\ StageFits(b) /\ job \in [Callers -> {Free} \cup Jobs]
      /\ "rest" \in TimerStages
  BY DEF InFlight, TimerStages
<1>2. CASE Delay(c, "rest")
  <2>1. /\ b2 \in Jobs /\ b2.at = "rest" /\ b2.request = b.request /\ b2.revision = b.revision
        /\ b2.restart = b.restart /\ b2.crossing = b.crossing
    BY <1>1, StageChanged
  <2> HIDE DEF b2
  <2>2. StageFits(b2)
    BY <1>1, <2>1 DEF StageFits
  <2>3. Follows(b, b2)
    BY <2>1, <2>2 DEF Follows, NextStage
  <2> QED
    BY <1>1, <1>2, <2>3, DelayStage DEF b2
<1>3. CASE Finish(c)
  BY <1>1, <1>3, FinishGoesOn DEF Ends
<1> QED
  BY <1>2, <1>3

LEMMA SingleGoesOn ==
  ASSUME NEW c \in Callers, InFlight(c), job[c].at = "single",
         Send(c, Operation("readrun", "run", 0, Immediate, FALSE), "read-run")
  PROVE  GoesOn(c)
<1> DEFINE b == job[c]
           b2 == [b EXCEPT !.at = "read-run"]
           o == Operation("readrun", "run", 0, Immediate, FALSE)
<1>1. b \in Jobs /\ StageFits(b) /\ job \in [Callers -> {Free} \cup Jobs]
      /\ "read-run" \in AnswerStages
  BY DEF InFlight, AnswerStages
<1>2. /\ b2 \in Jobs /\ b2.at = "read-run" /\ b2.request = b.request
      /\ b2.revision = b.revision /\ b2.restart = b.restart /\ b2.crossing = b.crossing
  BY <1>1, StageChanged
<1> HIDE DEF b2
<1>3. StageFits(b2)
  BY <1>1, <1>2 DEF StageFits
<1>4. Follows(b, b2)
  BY <1>2, <1>3 DEF Follows, NextStage
<1>5. o \in Entries /\ o.by = <<>> /\ o.cmd = "readrun"
  <2>1. Immediate \in 0 .. 2
    BY DEF Immediate
  <2> QED
    BY <2>1, OtherCommandsFit
<1> HIDE DEF o
<1>6. Expects(b2, o)
  BY <1>2, <1>5 DEF Expects
<1>7. Carries(b.request, o)
  BY <1>1, <1>5, CarriesNothing DEF StageFits
<1> QED
  BY <1>1, <1>4, <1>5, <1>6, <1>7, SendStage DEF b2, o

LEMMA GroupIs ==
  ASSUME NEW S, S = Horizontal \/ S = Trigger, NEW s \in States
  PROVE  /\ "run" \notin S
         /\ \A p \in S \cap (ControlSettings \ {"mode"}) : s[p] \in Values
         /\ "mode" \in S => s["mode"] \in {0, 1}
BY DEF Horizontal, Trigger, ControlSettings, States

LEMMA ReadGoesOn ==
  ASSUME NEW c \in Callers, NEW ok, NEW s \in States, InFlight(c), job[c].at = "read",
         ReadBack(c, ok, s)
  PROVE  GoesOn(c) /\ Shows(c, ok, s)
<1> DEFINE b == job[c]
           r == b.request
           b2 == [b EXCEPT !.at = "read-run"]
           o == Operation("readrun", "run", 0, Normal, FALSE)
<1>1. b \in Jobs /\ StageFits(b) /\ job \in [Callers -> {Free} \cup Jobs]
      /\ "read-run" \in AnswerStages /\ store \in States
  BY DEF InFlight, AnswerStages
<1>2. ASSUME Finish(c) PROVE GoesOn(c)
  BY <1>1, <1>2, FinishGoesOn DEF Ends
<1>3. CASE ~ok
  <2>1. Finish(c) /\ store' = store
    BY <1>3 DEF ReadBack
  <2> QED
    BY <1>1, <1>2, <2>1 DEF Shows
<1>4. CASE ok
  <2>1. ApplyReconciledUpdate(c, Group(r.prop), s)
    BY <1>4 DEF ReadBack
  <2>2. Shows(c, ok, s)
    <3> DEFINE S == Group(r.prop)
    <3>1. S = Horizontal \/ S = Trigger
      BY DEF Group
    <3> HIDE DEF S
    <3>2. /\ "run" \notin S
          /\ \A p \in S \cap (ControlSettings \ {"mode"}) : s[p] \in Values
          /\ "mode" \in S => s["mode"] \in {0, 1}
      BY <3>1, GroupIs
    <3>3. ApplyReconciledUpdate(c, S, s)
      BY <2>1 DEF S
    <3>4. store' \in States /\ store'["run"] = store["run"]
      BY <1>1, <3>2, <3>3, Applied
    <3> QED
      BY <3>4 DEF Shows
  <2>3. CASE r.prop = "sweep"
    <3>1. Send(c, o, "read-run")
      BY <1>4, <2>3 DEF ReadBack
    <3>2. /\ b2 \in Jobs /\ b2.at = "read-run" /\ b2.request = b.request
          /\ b2.revision = b.revision /\ b2.restart = b.restart /\ b2.crossing = b.crossing
      BY <1>1, StageChanged
    <3> HIDE DEF b2
    <3>3. r.kind # "action"
      BY <1>1 DEF StageFits
    <3>4. StageFits(b2)
      BY <1>1, <2>3, <3>2, <3>3 DEF StageFits
    <3>5. Follows(b, b2)
      BY <3>2, <3>4 DEF Follows, NextStage
    <3>6. o \in Entries /\ o.by = <<>> /\ o.cmd = "readrun" /\ o.priority = Normal
      <4>1. Normal \in 0 .. 2
        BY DEF Normal
      <4> QED
        BY <4>1, OtherCommandsFit
    <3> HIDE DEF o
    <3>7. Expects(b2, o)
      BY <3>2, <3>6 DEF Expects
    <3>8. Carries(r, o)
      BY <3>6, CarriesNothing
    <3>9. GoesOn(c)
      BY <1>1, <3>1, <3>5, <3>6, <3>7, <3>8, SendStage DEF b2
    <3> QED
      BY <2>2, <3>9
  <2>4. CASE r.prop # "sweep"
    <3>1. Finish(c)
      BY <1>4, <2>4 DEF ReadBack
    <3> QED
      BY <1>2, <2>2, <3>1
  <2> QED
    BY <2>3, <2>4
<1> QED
  BY <1>3, <1>4

LEMMA SingleModeGoesOn ==
  ASSUME NEW c \in Callers, NEW ok, NEW s \in States, InFlight(c), job[c].at = "single-mode",
         SingleMode(c, ok, s)
  PROVE  GoesOn(c) /\ Shows(c, ok, s)
<1> DEFINE b == job[c]
           b2 == [b EXCEPT !.at = "single"]
           o == ActionCommand("single")
<1>1. b \in Jobs /\ StageFits(b) /\ job \in [Callers -> {Free} \cup Jobs]
      /\ "single" \in AnswerStages /\ store \in States
  BY DEF InFlight, AnswerStages
<1>2. b.restart = FALSE
  <2>1. b.request.kind = "action" /\ b.restart \in BOOLEAN
    BY <1>1 DEF StageFits, Jobs
  <2> QED
    BY <1>1, <2>1 DEF StageFits, Kinds
<1>3. ASSUME Finish(c) PROVE GoesOn(c)
  BY <1>1, <1>3, FinishGoesOn DEF Ends
<1>4. CASE ~ok
  <2>1. Finish(c) /\ store' = store
    BY <1>4 DEF SingleMode
  <2> QED
    BY <1>1, <1>3, <2>1 DEF Shows
<1>5. CASE ok
  <2>1. ApplyReconciledUpdate(c, Horizontal, s)
    BY <1>5 DEF SingleMode
  <2>2. Shows(c, ok, s)
    <3>1. /\ "run" \notin Horizontal
          /\ \A p \in Horizontal \cap (ControlSettings \ {"mode"}) : s[p] \in Values
          /\ "mode" \in Horizontal => s["mode"] \in {0, 1}
      BY GroupIs
    <3>2. store' \in States /\ store'["run"] = store["run"]
      BY <1>1, <2>1, <3>1, Applied
    <3> QED
      BY <3>2 DEF Shows
  <2>3. CASE s["mode"] = 1
    BY <1>3, <1>5, <2>2, <2>3 DEF SingleMode
  <2>4. CASE s["mode"] # 1
    <3>1. Send(c, o, "single")
      BY <1>5, <2>4 DEF SingleMode
    <3>2. /\ b2 \in Jobs /\ b2.at = "single" /\ b2.request = b.request
          /\ b2.revision = b.revision /\ b2.restart = b.restart /\ b2.crossing = b.crossing
      BY <1>1, StageChanged
    <3> HIDE DEF b2
    <3>3. StageFits(b2)
      BY <1>1, <1>2, <3>2 DEF StageFits
    <3>4. Follows(b, b2)
      BY <3>2, <3>3 DEF Follows, NextStage
    <3>5. o \in Entries /\ o.by = <<>> /\ o.cmd = "single"
      BY OtherCommandsFit DEF Actions
    <3> HIDE DEF o
    <3>6. Expects(b2, o)
      BY <3>2, <3>5 DEF Expects
    <3>7. Carries(b.request, o)
      BY <1>1, <3>5, CarriesNothing DEF StageFits
    <3>8. GoesOn(c)
      BY <1>1, <3>1, <3>4, <3>5, <3>6, <3>7, SendStage DEF b2
    <3> QED
      BY <2>2, <3>8
  <2> QED
    BY <2>3, <2>4
<1> QED
  BY <1>4, <1>5

LEMMA RunReadGoesOn ==
  ASSUME NEW c \in Callers, NEW ok, NEW s \in States, InFlight(c), job[c].at = "read-run",
         RunRead(c, ok, s)
  PROVE  GoesOn(c) /\ Shows(c, ok, s)
<1>1. job \in [Callers -> {Free} \cup Jobs] /\ store \in States
  BY DEF InFlight
<1>2. GoesOn(c)
  BY <1>1, FinishGoesOn DEF RunRead, Ends
<1>3. CASE ~ok
  BY <1>1, <1>2, <1>3 DEF RunRead, Shows
<1>4. CASE ok
  <2>1. ApplyReconciledUpdate(c, {"run"}, s)
    BY <1>4 DEF RunRead
  <2>2. s["run"] \in Actions
    BY DEF States
  <2>3. "run" \notin ControlSettings
    BY DEF ControlSettings, Horizontal, Trigger
  <2>4. /\ store' \in States
        /\ job[c].revision = revision => store'["run"] = s["run"]
    BY <1>1, <2>1, <2>2, <2>3, Applied
  <2> QED
    BY <1>2, <2>4 DEF Shows
<1> QED
  BY <1>3, <1>4

LEMMA ActionGoesOn ==
  ASSUME NEW c \in Callers, NEW ok, NEW s, InFlight(c), job[c].at = "action", ActionDone(c)
  PROVE  GoesOn(c) /\ Shows(c, ok, s)
<1>1. job \in [Callers -> {Free} \cup Jobs] /\ store \in States /\ StageFits(job[c])
  BY DEF InFlight
<1>2. GoesOn(c)
  BY <1>1, FinishGoesOn DEF ActionDone, Ends
<1> DEFINE u == [run |-> job[c].request.prop]
<1>3. ApplyReconciledUpdate(c, {"run"}, u)
  BY DEF ActionDone
<1>4. u["run"] = job[c].request.prop
  OBVIOUS
<1>5. job[c].request.prop \in Actions
  BY <1>1 DEF StageFits, Actions
<1> HIDE DEF u
<1>6. "run" \notin ControlSettings
  BY DEF ControlSettings, Horizontal, Trigger
<1>7. /\ store' \in States
      /\ job[c].revision = revision => store'["run"] = u["run"]
  BY <1>1, <1>3, <1>4, <1>5, <1>6, Applied
<1> QED
  BY <1>2, <1>4, <1>7 DEF Shows

\* Whatever a request waited for, it goes on to its next step.
LEMMA ContinueGoesOn ==
  ASSUME NEW c \in Callers, NEW ok \in BOOLEAN, NEW s \in States, InFlight(c),
         Continue(c, ok, s)
  PROVE  GoesOn(c) /\ Shows(c, ok, s)
<1>1. CASE /\ UNCHANGED store
           /\ \/ job[c].at = "stopping" /\ Delay(c, "settle")
              \/ job[c].at = "mode"     /\ Send(c, WriteCommand(job[c].request), "write")
              \/ job[c].at = "write"    /\ Written(c)
              \/ job[c].at = "check"    /\ Checked(c, ok)
              \/ job[c].at = "running"  /\ IF job[c].failed THEN Finish(c) ELSE Delay(c, "rest")
              \/ job[c].at = "single"
                 /\ Send(c, Operation("readrun", "run", 0, Immediate, FALSE), "read-run")
  <2>1. GoesOn(c)
    BY <1>1, StoppingGoesOn, ModeGoesOn, WriteGoesOn, CheckGoesOn, RunningGoesOn, SingleGoesOn
  <2>2. job[c].at \notin {"read-run", "action"} /\ store' = store /\ store \in States
    BY <1>1 DEF InFlight
  <2> QED
    BY <2>1, <2>2 DEF Shows
<1>2. CASE job[c].at = "read" /\ ReadBack(c, ok, s)
  BY <1>2, ReadGoesOn
<1>3. CASE job[c].at = "single-mode" /\ SingleMode(c, ok, s)
  BY <1>3, SingleModeGoesOn
<1>4. CASE job[c].at = "read-run" /\ RunRead(c, ok, s)
  BY <1>4, RunReadGoesOn
<1>5. CASE job[c].at = "action" /\ ActionDone(c)
  BY <1>5, ActionGoesOn
<1> QED
  BY <1>1, <1>2, <1>3, <1>4, <1>5 DEF Continue

\* The pause after a Stop is over, or the one after a Run.
LEMMA SettledMoves ==
  ASSUME NEW c \in Callers, InFlight(c), job[c].at = "settle", Settled(c), NEW t
  PROVE  Moves(c, t, t)
<1> DEFINE b == job[c]
           r == b.request
           o == IF b.crossing THEN ModeCommand(r) ELSE WriteCommand(r)
           at == IF b.crossing THEN "mode" ELSE "write"
           b2 == [b EXCEPT !.at = at]
<1>1. b \in Jobs /\ StageFits(b) /\ r \in Requests /\ job \in [Callers -> {Free} \cup Jobs]
  BY DEF InFlight
<1>2. job' = [job EXCEPT ![c] = b2] /\ pending' = Enqueued(o, c)
  BY DEF Settled
<1>3. r.kind \in Kinds /\ r.kind # "action"
  BY <1>1 DEF StageFits, Kinds
<1>4. /\ o \in Entries /\ o.by = <<>> /\ (b.crossing => o.cmd = "mode")
      /\ (~b.crossing => o.cmd = "write" /\ o.prop = r.prop) /\ Carries(r, o)
  BY <1>1, <1>3, CommandsFit
<1>5. at \in AnswerStages /\ at \in AnswerStages \cup TimerStages
  BY DEF AnswerStages
<1> HIDE DEF o
<1>6. (b.crossing => at = "mode") /\ (~b.crossing => at = "write")
  OBVIOUS
<1> HIDE DEF at
<1>7. /\ b2 \in Jobs /\ b2.at = at /\ b2.request = r /\ b2.revision = b.revision
      /\ b2.restart = b.restart /\ b2.crossing = b.crossing
  BY <1>1, <1>5, StageChanged
<1> HIDE DEF b2
<1>8. StageFits(b2)
  <2>1. CASE b.crossing
    BY <1>1, <1>3, <1>6, <1>7, <2>1 DEF StageFits
  <2>2. CASE ~b.crossing
    BY <1>1, <1>3, <1>6, <1>7, <2>2 DEF StageFits
  <2> QED
    BY <2>1, <2>2
<1>9. Follows(b, b2)
  <2>1. NextStage(b, b2)
    BY <1>6, <1>7 DEF NextStage
  <2> QED
    BY <1>7, <1>8, <2>1 DEF Follows
<1>10. Expects(b2, o)
  BY <1>4, <1>6, <1>7 DEF Expects
<1> QED
  BY <1>1, <1>2, <1>4, <1>5, <1>7, <1>9, <1>10, SendGoesOn

LEMMA RestedMoves ==
  ASSUME NEW c \in Callers, InFlight(c), job[c].at = "rest", Rested(c), NEW t
  PROVE  Moves(c, t, t)
<1> DEFINE b == job[c]
           r == b.request
           o == ReadCommand(r)
           b2 == [b EXCEPT !.at = "read"]
<1>1. b \in Jobs /\ StageFits(b) /\ r \in Requests /\ job \in [Callers -> {Free} \cup Jobs]
      /\ "read" \in AnswerStages
  BY DEF InFlight, AnswerStages
<1>2. CASE ReadsBack(r)
  <2>1. job' = [job EXCEPT ![c] = b2] /\ pending' = Enqueued(o, c)
    BY <1>2 DEF Rested
  <2>2. r.kind \in Kinds /\ r.kind # "action"
    BY <1>2 DEF ReadsBack, Kinds
  <2>3. o \in Entries /\ o.by = <<>> /\ o.cmd = "read"
    BY <1>1, <2>2, CommandsFit
  <2>8. Carries(r, o)
    BY <1>1, CommandsFit
  <2> HIDE DEF o
  <2>4. /\ b2 \in Jobs /\ b2.at = "read" /\ b2.request = r /\ b2.revision = b.revision
        /\ b2.restart = b.restart /\ b2.crossing = b.crossing
    BY <1>1, StageChanged
  <2> HIDE DEF b2
  <2>5. StageFits(b2)
    BY <1>1, <1>2, <2>2, <2>4 DEF StageFits
  <2>6. Follows(b, b2)
    BY <2>4, <2>5 DEF Follows, NextStage
  <2>7. Expects(b2, o)
    BY <2>3, <2>4 DEF Expects
  <2> QED
    BY <1>1, <2>1, <2>3, <2>4, <2>6, <2>7, <2>8, SendGoesOn
<1>3. CASE ~ReadsBack(r)
  <2>1. job' = [job EXCEPT ![c] = Free] /\ pending' = pending
    BY <1>3 DEF Rested
  <2>2. /\ job'[c] = Free /\ \A d \in Callers \ {c} : job'[d] = job[d]
        /\ job' \in [Callers -> {Free} \cup Jobs]
    BY <1>1, <2>1
  <2>3. Ends(b)
    BY DEF Ends
  <2> QED
    BY <2>1, <2>2, <2>3 DEF Moves
<1> QED
  BY <1>2, <1>3

\* A request begins: it is shown, and its first operation is sent.
Starts(c, r) ==
  /\ \A d \in Callers \ {c} : job'[d] = job[d]
  /\ job' \in [Callers -> {Free} \cup Jobs]
  /\ job'[c] \in Jobs /\ StageFits(job'[c]) /\ job'[c].request = r
  /\ job'[c].revision = revision + 1
  /\ job'[c].at \in {"stopping", "mode", "write", "action", "single-mode"}
  /\ job'[c].restart <=> job'[c].at = "stopping"
  /\ store' \in States /\ store'["run"] = store["run"]
  /\ r.kind \in Kinds => job'[c].restart = Restarts(r, store')
  /\ \E o \in Entries : Sends(c, o, pending', job')

LEMMA BegunIs ==
  ASSUME NEW r \in Requests, NEW s \in States, NEW at \in AnswerStages, revision \in Nat,
         revision' = revision + 1
  PROVE  LET b == [Begun(r, s) EXCEPT !.at = at]
         IN  /\ b \in Jobs /\ b.at = at /\ b.request = r /\ b.revision = revision + 1
             /\ b.restart = Restarts(r, s) /\ b.crossing = Crossing(r, s)
<1>1. Restarts(r, s) \in BOOLEAN /\ Crossing(r, s) \in BOOLEAN
  BY DEF Restarts, Crossing
<1> DEFINE x == Restarts(r, s)
           y == Crossing(r, s)
           b0 == Begun(r, s)
<1>2. b0 = [request |-> r, revision |-> revision', restart |-> x, crossing |-> y,
            failed |-> FALSE, at |-> "begin"]
  BY DEF Begun
<1>3. x \in BOOLEAN /\ y \in BOOLEAN
  BY <1>1
<1> HIDE DEF x, y, b0
<1>4. /\ b0 \in [request : Requests, revision : Nat, restart : BOOLEAN, crossing : BOOLEAN,
                failed : BOOLEAN, at : {"begin"}]
      /\ b0.request = r /\ b0.revision = revision + 1 /\ b0.restart = x /\ b0.crossing = y
  BY <1>2, <1>3
<1>5. LET b == [b0 EXCEPT !.at = at]
      IN  /\ b \in Jobs /\ b.at = at /\ b.request = r /\ b.revision = revision + 1
          /\ b.restart = x /\ b.crossing = y
  BY <1>4 DEF Jobs
<1> QED
  BY <1>5 DEF b0, x, y

LEMMA ControlStarts ==
  ASSUME NEW c \in Callers, NEW r \in Requests, job \in [Callers -> {Free} \cup Jobs],
         store \in States, revision \in Nat, revision' = revision + 1, BeginControl(c, r)
  PROVE  Starts(c, r)
<1>1. /\ r.kind \in Kinds /\ r.kind # "action"
      /\ r.prop \in {"scale", "position", "sweep", "level"} /\ r.value \in Values
  BY RequestFields DEF BeginControl, Kinds
<1>2. store' = [store EXCEPT ![r.prop] = r.value]
  BY DEF BeginControl, ApplyOptimisticControl
<1>3. store' \in States /\ store'["run"] = store["run"]
  <2>1. store \in [AllProps -> Values \cup {0, 1} \cup Actions]
        /\ (\A p \in ControlSettings \ {"mode"} : store[p] \in Values)
        /\ store["mode"] \in {0, 1} /\ store["run"] \in Actions
    BY DEF States
  <2>2. r.prop \in AllProps /\ r.prop # "mode" /\ r.prop # "run"
    BY <1>1 DEF AllProps, ControlSettings, Horizontal, Trigger
  <2>3. store' \in [AllProps -> Values \cup {0, 1} \cup Actions]
    BY <1>1, <1>2, <2>1, <2>2
  <2>4. "run" \in AllProps /\ "mode" \in AllProps /\ ControlSettings \subseteq AllProps
    BY DEF AllProps, ControlSettings, Horizontal
  <2>5. \A p \in AllProps : store'[p] = IF p = r.prop THEN r.value ELSE store[p]
    BY <1>2, <2>1
  <2>6. \A p \in ControlSettings \ {"mode"} : store'[p] \in Values
    BY <1>1, <2>1, <2>4, <2>5
  <2>7. store'["mode"] = store["mode"] /\ store'["run"] = store["run"]
    BY <2>2, <2>4, <2>5
  <2> QED
    BY <2>1, <2>3, <2>6, <2>7 DEF States
<1> DEFINE o == FirstCommand(r, store')[1]
           at == FirstCommand(r, store')[2]
           b == [Begun(r, store') EXCEPT !.at = at]
<1>4. job' = [job EXCEPT ![c] = b] /\ pending' = Enqueued(o, c)
  BY DEF BeginControl
<1>5. \/ Restarts(r, store') /\ o = ActionCommand("stop") /\ at = "stopping"
      \/ ~Restarts(r, store') /\ Crossing(r, store') /\ o = ModeCommand(r) /\ at = "mode"
      \/ ~Restarts(r, store') /\ ~Crossing(r, store') /\ o = WriteCommand(r) /\ at = "write"
  BY DEF FirstCommand
<1>6. /\ ActionCommand("stop") \in Entries /\ ActionCommand("stop").by = <<>>
      /\ ActionCommand("stop").cmd = "stop"
      /\ ModeCommand(r) \in Entries /\ ModeCommand(r).by = <<>> /\ ModeCommand(r).cmd = "mode"
      /\ WriteCommand(r) \in Entries /\ WriteCommand(r).by = <<>>
      /\ WriteCommand(r).cmd = "write" /\ WriteCommand(r).prop = r.prop
      /\ Carries(r, ModeCommand(r)) /\ Carries(r, WriteCommand(r))
  BY <1>1, CommandsFit, OtherCommandsFit DEF Actions
<1> HIDE DEF o, at
<1>7. at \in AnswerStages /\ at \in {"stopping", "mode", "write"}
  BY <1>5 DEF AnswerStages
<1>8. /\ b \in Jobs /\ b.at = at /\ b.request = r /\ b.revision = revision + 1
      /\ b.restart = Restarts(r, store') /\ b.crossing = Crossing(r, store')
  BY <1>3, <1>7, BegunIs
<1> HIDE DEF b
<1>9. /\ Restarts(r, store') => r.prop \in {"scale", "position"}
      /\ Crossing(r, store') => r.prop = "scale"
  BY DEF Restarts, Crossing
<1>10. StageFits(b)
  BY <1>1, <1>5, <1>8, <1>9 DEF StageFits
<1>11. o \in Entries /\ o.by = <<>> /\ Expects(b, o)
  BY <1>5, <1>6, <1>8 DEF Expects
<1>12. /\ job'[c] = b /\ \A d \in Callers \ {c} : job'[d] = job[d]
       /\ job' \in [Callers -> {Free} \cup Jobs]
  BY <1>4, <1>8
<1>13. Carries(r, o)
  <2>1. CASE Restarts(r, store')
    <3>1. r.prop \notin Trigger /\ o.cmd = "stop"
      BY <1>5, <1>6, <1>9, <2>1 DEF Trigger
    <3> QED
      BY <3>1, CarriesNothing
  <2>2. CASE ~Restarts(r, store')
    BY <1>5, <1>6, <2>2
  <2> QED
    BY <2>1, <2>2
<1>16. Sends(c, o, pending', job')
  BY <1>4, <1>8, <1>11, <1>12, <1>13 DEF Sends
<1>14. b.restart <=> b.at = "stopping"
  BY <1>5, <1>8
<1>15. b.at \in {"stopping", "mode", "write", "action", "single-mode"}
  BY <1>7, <1>8
<1> QED
  BY <1>3, <1>8, <1>10, <1>11, <1>12, <1>14, <1>15, <1>16 DEF Starts

LEMMA ActionStarts ==
  ASSUME NEW c \in Callers, NEW r \in Requests, job \in [Callers -> {Free} \cup Jobs],
         store \in States, revision \in Nat, revision' = revision + 1, BeginAction(c, r)
  PROVE  Starts(c, r)
<1>1. r.kind = "action" /\ r.kind \notin Kinds /\ r.prop \in Actions /\ store' = store
  BY RequestFields DEF BeginAction, Kinds
<1> DEFINE o == IF r.prop = "single" THEN Operation("read", "scale", 0, Immediate, FALSE)
                ELSE ActionCommand(r.prop)
           at == IF r.prop = "single" THEN "single-mode" ELSE "action"
           b == [Begun(r, store) EXCEPT !.at = at]
<1>2. job' = [job EXCEPT ![c] = b] /\ pending' = Enqueued(o, c)
  BY DEF BeginAction
<1>3. /\ o \in Entries /\ o.by = <<>>
      /\ r.prop = "single" => o.cmd = "read" /\ at = "single-mode"
      /\ r.prop # "single" => o.cmd = r.prop /\ at = "action"
  <2>1. Immediate \in 0 .. 2
    BY DEF Immediate
  <2> QED
    BY <1>1, <2>1, OtherCommandsFit
<1> HIDE DEF o, at
<1>4. at \in AnswerStages /\ at \in {"action", "single-mode"}
  BY <1>3 DEF AnswerStages
<1>5. /\ b \in Jobs /\ b.at = at /\ b.request = r /\ b.revision = revision + 1
      /\ b.restart = Restarts(r, store) /\ b.crossing = Crossing(r, store)
  BY <1>4, BegunIs
<1> HIDE DEF b
<1>6. ~Restarts(r, store) /\ ~Crossing(r, store)
  BY <1>1 DEF Restarts, Crossing, Actions
<1>7. StageFits(b)
  BY <1>1, <1>3, <1>5, <1>6 DEF StageFits, Actions
<1>8. Expects(b, o)
  BY <1>3, <1>5 DEF Expects
<1>9. /\ job'[c] = b /\ \A d \in Callers \ {c} : job'[d] = job[d]
      /\ job' \in [Callers -> {Free} \cup Jobs]
  BY <1>2, <1>5
<1>12. Carries(r, o)
  <2>1. o.cmd \notin {"write", "mode"}
    BY <1>1, <1>3 DEF Actions
  <2> QED
    BY <1>1, <2>1, CarriesNothing
<1>10. Sends(c, o, pending', job')
  BY <1>2, <1>3, <1>5, <1>8, <1>9, <1>12 DEF Sends
<1>11. b.at \in {"stopping", "mode", "write", "action", "single-mode"} /\ b.at # "stopping"
  BY <1>4, <1>5
<1> QED
  BY <1>1, <1>3, <1>5, <1>6, <1>7, <1>9, <1>10, <1>11 DEF Starts

-----------------------------------------------------------------------------
(* The ledger is kept by every step.                                       *)

Accounts(p, a, r, t, j) == Ledger(p, a, r, t, j) /\ NoneForgotten(Callers, p, a, r, t, j)

JobsFit(j) == \A c \in Callers : j[c] # Free => StageFits(j[c]) /\ j[c].request \in workload.requests

CInv == Typed /\ Accounts(pending, active, ready, timers, job)

\* A request goes on from where it waited.
LEMMA MovesKeep ==
  ASSUME Typed, NEW c \in Callers, NEW r, NEW t \in Seq(Timers), NEW t2, job[c] \in Jobs,
         Ledger(pending, active, r, t, job), Unheld(c, pending, active, r, t),
         \A d \in Callers : job[d] # Free /\ Unheld(d, pending, active, r, t) => d = c,
         Moves(c, t, t2)
  PROVE  /\ pending' \in Seq(Entries) /\ t2 \in Seq(Timers) /\ JobsFit(job')
         /\ job' \in [Callers -> {Free} \cup Jobs]
         /\ Accounts(pending', active, r, t2, job')
<1>1. /\ \A d \in Callers \ {c} : job'[d] = job[d]
      /\ job' \in [Callers -> {Free} \cup Jobs] /\ pending \in Seq(Entries)
  BY DEF Moves, Typed
<1>2. JobsFit(job)
  BY DEF Typed, JobsFit
<1>3. job[c] # Free
  BY FreeIsNoJob
<1>4. JobsFit(job')
  <2>1. job'[c] # Free => StageFits(job'[c]) /\ job'[c].request = job[c].request
    BY DEF Moves, Follows
  <2> QED
    BY <1>1, <1>2, <1>3, <2>1 DEF JobsFit
<1>5. CASE /\ Follows(job[c], job'[c]) /\ t2 = t
           /\ \E o \in Entries : Sends(c, o, pending', job')
  <2>1. PICK o \in Entries : Sends(c, o, pending', job')
    BY <1>5
  <2>2. o.by = <<>> /\ pending' = Enqueued(o, c) /\ Expects(job'[c], o)
    BY <2>1 DEF Sends
  <2>3. PICK j2 : j2 = job'
    OBVIOUS
  <2>4. (\A d \in Callers \ {c} : j2[d] = job[d]) /\ Expects(j2[c], o)
    BY <1>1, <2>2, <2>3
  <2>5. PICK a : a = active
    OBVIOUS
  <2>6. Ledger(pending, a, r, t, job) /\ Unheld(c, pending, a, r, t)
    BY <2>5
  <2>7. /\ Enqueued(o, c) \in Seq(Entries) /\ Ledger(Enqueued(o, c), a, r, t, j2)
        /\ \A d : Unheld(d, Enqueued(o, c), a, r, t) <=> Unheld(d, pending, a, r, t) /\ d # c
    BY <1>1, <2>2, <2>4, <2>6, LedgerSent
  <2>8. /\ pending' \in Seq(Entries) /\ Ledger(pending', active, r, t, job')
        /\ \A d : Unheld(d, pending', active, r, t) <=> Unheld(d, pending, active, r, t) /\ d # c
    BY <2>2, <2>3, <2>5, <2>7
  <2>9. NoneForgotten(Callers, pending', active, r, t, job')
    BY <1>1, <2>8 DEF NoneForgotten
  <2> QED
    BY <1>1, <1>4, <1>5, <2>8, <2>9 DEF Accounts
<1>6. CASE /\ Follows(job[c], job'[c]) /\ pending' = pending
           /\ \E at \in TimerStages :
                job'[c].at = at /\ t2 = Append(t, [by |-> c, at |-> at])
  <2>1. PICK at \in TimerStages : job'[c].at = at /\ t2 = Append(t, [by |-> c, at |-> at])
    BY <1>6
  <2>2. job'[c] \in Jobs
    BY <1>6 DEF Follows
  <2>3. t2 \in Seq(Timers) /\ Ledger(pending, active, r, t2, job')
        /\ \A d : Unheld(d, pending, active, r, t2) <=> Unheld(d, pending, active, r, t) /\ d # c
    BY <1>1, <2>1, <2>2, LedgerDelayed
  <2>4. NoneForgotten(Callers, pending, active, r, t2, job')
    BY <1>1, <2>3 DEF NoneForgotten
  <2> QED
    BY <1>1, <1>4, <1>6, <2>3, <2>4 DEF Accounts
<1>7. CASE Ends(job[c]) /\ job'[c] = Free /\ pending' = pending /\ t2 = t
  <2>1. Ledger(pending, active, r, t, job')
    BY <1>1, LedgerFrame
  <2>2. NoneForgotten(Callers, pending, active, r, t, job')
    BY <1>1, <1>7 DEF NoneForgotten
  <2> QED
    BY <1>1, <1>4, <1>7, <2>1, <2>2 DEF Accounts
<1> QED
  BY <1>5, <1>6, <1>7 DEF Moves

LEMMA WorkloadIs ==
  ASSUME NEW w \in Workloads
  PROVE  w.requests \subseteq Requests /\ w.total \in Nat /\ w.inFlight \in Nat
         /\ w.refusals \in Nat
BY ControllerAssumption

\* What a resumed caller and its answer are.
LEMMA ResumedIs ==
  ASSUME CInv, ready # <<>>
  PROVE  /\ ready[1].by \in Callers /\ InFlight(ready[1].by)
         /\ ready[1].answer.ok \in BOOLEAN /\ ready[1].answer.state \in States
         /\ job[ready[1].by].at \in AnswerStages
         /\ 1 \in DOMAIN ready /\ Tail(ready) \in Seq(Answers)
         /\ Ledger(pending, active, Tail(ready), timers, job)
         /\ Unheld(ready[1].by, pending, active, Tail(ready), timers)
         /\ \A d \in Callers : job[d] # Free /\ Unheld(d, pending, active, Tail(ready), timers)
              => d = ready[1].by
<1>1. /\ Tail(ready) \in Seq(Answers) /\ ready[1] \in Answers
      /\ job[ready[1].by] \in Jobs /\ job[ready[1].by].at \in AnswerStages
      /\ Ledger(pending, active, Tail(ready), timers, job)
      /\ Unheld(ready[1].by, pending, active, Tail(ready), timers)
      /\ \A d : Unheld(d, pending, active, Tail(ready), timers)
                  => d = ready[1].by \/ Unheld(d, pending, active, ready, timers)
  BY LedgerResumed DEF CInv, Accounts, Typed
<1>2. /\ ready[1].by \in Callers /\ ready[1].answer.ok \in BOOLEAN
      /\ ready[1].answer.state \in States
  BY <1>1 DEF Answers
<1>3. 1 \in DOMAIN ready
  BY TailIs DEF CInv, Typed
<1>4. InFlight(ready[1].by)
  <2>1. job[ready[1].by] # Free
    BY <1>1, FreeIsNoJob
  <2>2. /\ StageFits(job[ready[1].by]) /\ job[ready[1].by].request \in workload.requests
        /\ workload \in Workloads
    BY <1>2, <2>1 DEF CInv, Typed
  <2>3. job[ready[1].by].request \in Requests
    BY <2>2, WorkloadIs
  <2> QED
    BY <1>1, <2>2, <2>3 DEF CInv, Typed, InFlight
<1> QED
  BY <1>1, <1>2, <1>3, <1>4 DEF CInv, Accounts, NoneForgotten

LEMMA ResumeMoves ==
  ASSUME CInv, Resume
  PROVE  /\ ready # <<>> /\ ready' = Tail(ready) /\ GoesOn(ready[1].by)
         /\ Shows(ready[1].by, ready[1].answer.ok, ready[1].answer.state)
         /\ UNCHANGED <<workload, device, revision, active, asked, failures>>
<1>1. /\ ready # <<>> /\ ready' = Tail(ready)
      /\ Continue(ready[1].by, ready[1].answer.ok, ready[1].answer.state)
      /\ UNCHANGED <<workload, device, revision, active, asked, failures>>
  BY DEF Resume
<1>2. /\ ready[1].by \in Callers /\ InFlight(ready[1].by)
      /\ ready[1].answer.ok \in BOOLEAN /\ ready[1].answer.state \in States
  BY <1>1, ResumedIs
<1>3. PICK c \in Callers, ok \in BOOLEAN, s \in States :
        c = ready[1].by /\ ok = ready[1].answer.ok /\ s = ready[1].answer.state
  BY <1>2
<1>4. InFlight(c) /\ Continue(c, ok, s)
  BY <1>1, <1>2, <1>3
<1>5. GoesOn(c) /\ Shows(c, ok, s)
  BY <1>4, ContinueGoesOn
<1> QED
  BY <1>1, <1>3, <1>5

LEMMA ResumeKeeps ==
  ASSUME CInv, Resume
  PROVE  CInv'
<1>1. /\ ready # <<>> /\ ready' = Tail(ready) /\ GoesOn(ready[1].by)
      /\ Shows(ready[1].by, ready[1].answer.ok, ready[1].answer.state)
      /\ UNCHANGED <<workload, device, revision, active, asked, failures>>
  BY ResumeMoves
<1>2. PICK c \in Callers : c = ready[1].by
  BY <1>1, ResumedIs
<1>3. PICK r : r = Tail(ready)
  OBVIOUS
<1>4. /\ job[c] \in Jobs /\ r \in Seq(Answers) /\ Ledger(pending, active, r, timers, job)
      /\ Unheld(c, pending, active, r, timers)
      /\ \A d \in Callers : job[d] # Free /\ Unheld(d, pending, active, r, timers) => d = c
  BY <1>1, <1>2, <1>3, ResumedIs DEF InFlight
<1>5. Moves(c, timers, timers')
  BY <1>1, <1>2 DEF GoesOn
<1>6. Typed /\ timers \in Seq(Timers)
  BY DEF CInv, Typed
<1>7. /\ pending' \in Seq(Entries) /\ timers' \in Seq(Timers) /\ JobsFit(job')
      /\ job' \in [Callers -> {Free} \cup Jobs]
      /\ Accounts(pending', active, r, timers', job')
  BY <1>4, <1>5, <1>6, MovesKeep
<1>8. Accounts(pending', active', ready', timers', job')
  BY <1>1, <1>3, <1>7
<1>9. store' \in States
  BY <1>1 DEF Shows
<1>10. Typed'
  <2>1. \A d \in Callers : job'[d] # Free =>
          StageFits(job'[d]) /\ job'[d].request \in workload'.requests
    BY <1>1, <1>7 DEF JobsFit
  <2> QED
    BY <1>1, <1>3, <1>4, <1>6, <1>7, <1>9, <2>1 DEF Typed
<1> QED
  BY <1>8, <1>10 DEF CInv

LEMMA ExpireMoves ==
  ASSUME CInv, NEW i \in DOMAIN timers, Expire(i)
  PROVE  /\ timers[i] \in Timers /\ InFlight(timers[i].by) /\ timers' = RemoveAt(timers, i)
         /\ Moves(timers[i].by, RemoveAt(timers, i), timers')
         /\ job[timers[i].by].at = timers[i].at /\ ready = <<>>
         /\ UNCHANGED <<workload, store, device, revision, active, ready, asked, failures>>
<1>1. /\ timers' = RemoveAt(timers, i) /\ ready = <<>>
      /\ \/ timers[i].at = "settle" /\ Settled(timers[i].by)
         \/ timers[i].at = "rest" /\ Rested(timers[i].by)
      /\ UNCHANGED <<workload, store, device, revision, active, ready, asked, failures>>
  BY DEF Expire
<1>2. PICK e \in Timers : e = timers[i]
  BY ElementOfSeq DEF CInv, Typed
<1>3. PICK c \in Callers : c = e.by
  BY DEF Timers
<1>4. job[c] \in Jobs /\ job[c].at = e.at
  BY <1>2, <1>3 DEF CInv, Accounts, Ledger
<1>5. InFlight(c)
  <2>1. job[c] # Free
    BY <1>4, FreeIsNoJob
  <2>2. StageFits(job[c]) /\ job[c].request \in workload.requests /\ workload \in Workloads
    BY <2>1 DEF CInv, Typed
  <2>3. job[c].request \in Requests
    BY <2>2, WorkloadIs
  <2> QED
    BY <1>4, <2>2, <2>3 DEF CInv, Typed, InFlight
<1>6. PICK t : t = RemoveAt(timers, i)
  OBVIOUS
<1>7. Moves(c, t, t)
  BY <1>1, <1>2, <1>3, <1>4, <1>5, SettledMoves, RestedMoves
<1> QED
  BY <1>1, <1>2, <1>3, <1>4, <1>5, <1>6, <1>7

LEMMA ExpireKeeps ==
  ASSUME CInv, NEW i \in DOMAIN timers, Expire(i)
  PROVE  CInv'
<1>1. /\ timers[i] \in Timers /\ InFlight(timers[i].by)
      /\ Moves(timers[i].by, RemoveAt(timers, i), timers')
      /\ UNCHANGED <<workload, store, device, revision, active, ready, asked, failures>>
  BY ExpireMoves
<1>2. PICK c \in Callers : c = timers[i].by
  BY <1>1 DEF Timers
<1>3. PICK t : t = RemoveAt(timers, i)
  OBVIOUS
<1>4. /\ t \in Seq(Timers) /\ Ledger(pending, active, ready, t, job)
      /\ Unheld(c, pending, active, ready, t)
      /\ \A d : Unheld(d, pending, active, ready, t)
                  => d = c \/ Unheld(d, pending, active, ready, timers)
  BY <1>2, <1>3, LedgerExpired DEF CInv, Accounts, Typed
<1>5. \A d \in Callers : job[d] # Free /\ Unheld(d, pending, active, ready, t) => d = c
  BY <1>4 DEF CInv, Accounts, NoneForgotten
<1>6. Moves(c, t, timers') /\ job[c] \in Jobs /\ Typed
  BY <1>1, <1>2, <1>3 DEF InFlight, CInv
<1>7. /\ pending' \in Seq(Entries) /\ timers' \in Seq(Timers) /\ JobsFit(job')
      /\ job' \in [Callers -> {Free} \cup Jobs]
      /\ Accounts(pending', active, ready, timers', job')
  BY <1>4, <1>5, <1>6, MovesKeep
<1>8. Accounts(pending', active', ready', timers', job')
  BY <1>1, <1>7
<1>9. Typed'
  <2>1. \A d \in Callers : job'[d] # Free =>
          StageFits(job'[d]) /\ job'[d].request \in workload'.requests
    BY <1>1, <1>7 DEF JobsFit
  <2> QED
    BY <1>1, <1>6, <1>7, <2>1 DEF Typed
<1> QED
  BY <1>8, <1>9 DEF CInv

LEMMA BeginStarts ==
  ASSUME CInv, NEW c \in Callers, NEW r \in workload.requests, Begin(c, r)
  PROVE  /\ Starts(c, r) /\ ready = <<>> /\ job[c] = Free /\ revision' = revision + 1
         /\ revision < workload.total
         /\ UNCHANGED <<workload, device, active, ready, timers, failures>>
<1>1. /\ ready = <<>> /\ job[c] = Free /\ revision' = revision + 1
      /\ revision < workload.total
      /\ BeginControl(c, r) \/ BeginAction(c, r)
      /\ UNCHANGED <<workload, device, active, ready, timers, failures>>
  BY DEF Begin
<1>2. /\ r \in Requests /\ job \in [Callers -> {Free} \cup Jobs] /\ store \in States
      /\ revision \in Nat
  BY WorkloadIs DEF CInv, Typed
<1> QED
  BY <1>1, <1>2, ControlStarts, ActionStarts

LEMMA BeginKeeps ==
  ASSUME CInv, NEW c \in Callers, NEW r \in workload.requests, Begin(c, r)
  PROVE  CInv'
<1>1. /\ Starts(c, r) /\ ready = <<>> /\ job[c] = Free /\ revision' = revision + 1
      /\ revision < workload.total
      /\ UNCHANGED <<workload, device, active, ready, timers, failures>>
  BY BeginStarts
<1>2. /\ \A d \in Callers \ {c} : job'[d] = job[d]
      /\ job' \in [Callers -> {Free} \cup Jobs]
      /\ job'[c] \in Jobs /\ StageFits(job'[c]) /\ job'[c].request = r /\ store' \in States
  BY <1>1 DEF Starts
<1>3. PICK o \in Entries : o.by = <<>> /\ pending' = Enqueued(o, c) /\ Expects(job'[c], o)
  BY <1>1 DEF Starts, Sends
<1>4. PICK j2 : j2 = job'
  OBVIOUS
<1>5. (\A d \in Callers \ {c} : j2[d] = job[d]) /\ Expects(j2[c], o)
  BY <1>2, <1>3, <1>4
<1>6. PICK a, s, t : a = active /\ s = ready /\ t = timers
  OBVIOUS
<1>7. Ledger(pending, a, s, t, job) /\ pending \in Seq(Entries)
  BY <1>6 DEF CInv, Accounts, Typed
<1>8. Unheld(c, pending, a, s, t)
  BY <1>1, <1>7, FreeUnheld
<1>9. /\ Enqueued(o, c) \in Seq(Entries) /\ Ledger(Enqueued(o, c), a, s, t, j2)
      /\ \A d : Unheld(d, Enqueued(o, c), a, s, t) <=> Unheld(d, pending, a, s, t) /\ d # c
  BY <1>3, <1>5, <1>7, <1>8, LedgerSent
<1>10. /\ pending' \in Seq(Entries) /\ Ledger(pending', active, ready, timers, job')
       /\ \A d : Unheld(d, pending', active, ready, timers)
                   => Unheld(d, pending, active, ready, timers) /\ d # c
  BY <1>3, <1>4, <1>6, <1>9
<1>11. NoneForgotten(Callers, pending', active, ready, timers, job')
  BY <1>2, <1>10 DEF NoneForgotten, CInv, Accounts
<1>12. Accounts(pending', active', ready', timers', job')
  BY <1>1, <1>10, <1>11 DEF Accounts
<1>13. Typed'
  <2>1. \A d \in Callers : job'[d] # Free =>
          StageFits(job'[d]) /\ job'[d].request \in workload'.requests
    BY <1>1, <1>2 DEF CInv, Typed
  <2>2. workload.total \in Nat
    BY WorkloadIs DEF CInv, Typed
  <2> QED
    BY <1>1, <1>2, <1>10, <2>1, <2>2 DEF CInv, Typed
<1> QED
  BY <1>12, <1>13 DEF CInv

LEMMA StartOperationKeeps ==
  ASSUME CInv, StartOperation
  PROVE  CInv'
<1>1. PICK i \in DOMAIN pending : active' = <<pending[i]>> /\ pending' = RemoveAt(pending, i)
  BY DEF StartOperation
<1>2. /\ active = <<>>
      /\ UNCHANGED <<workload, store, device, revision, job, ready, timers, asked, failures>>
  BY DEF StartOperation
<1>3. PICK p, r, t, j : p = pending /\ r = ready /\ t = timers /\ j = job
  OBVIOUS
<1>4. p \in Seq(Entries) /\ i \in DOMAIN p /\ Ledger(p, <<>>, r, t, j)
      /\ NoneForgotten(Callers, p, <<>>, r, t, j)
  BY <1>2, <1>3 DEF CInv, Accounts, Typed
<1>5. /\ RemoveAt(p, i) \in Seq(Entries) /\ p[i] \in Entries
      /\ Ledger(RemoveAt(p, i), <<p[i]>>, r, t, j)
      /\ \A d : Unheld(d, RemoveAt(p, i), <<p[i]>>, r, t) => Unheld(d, p, <<>>, r, t)
  BY <1>4, LedgerStarted
<1>6. NoneForgotten(Callers, RemoveAt(p, i), <<p[i]>>, r, t, j)
  BY <1>4, <1>5 DEF NoneForgotten
<1>7. Accounts(pending', active', ready', timers', job')
  BY <1>1, <1>2, <1>3, <1>5, <1>6 DEF Accounts
<1>8. Typed'
  BY <1>1, <1>2, <1>3, <1>5 DEF CInv, Typed
<1> QED
  BY <1>7, <1>8 DEF CInv

\* Those that waited for the operation on the wire have the answer x.
LEMMA AnswerKeeps ==
  ASSUME CInv, NEW x \in [ok : BOOLEAN, state : States], active # <<>>,
         ready' = ready \o AnswersTo(active[1], x),
         active' = <<>>, pending' = pending, timers' = timers, job' = job
  PROVE  /\ active[1] \in Entries /\ Fits(active[1], job)
         /\ ready' \in Seq(Answers) /\ Accounts(pending', active', ready', timers', job')
         /\ \A i \in DOMAIN ready : i \in DOMAIN ready' /\ ready'[i] = ready[i]
         /\ \A i \in DOMAIN ready' : \/ ready'[i].by \in By(active[1]) /\ ready'[i].answer = x
                                     \/ i \in DOMAIN ready /\ ready'[i] = ready[i]
         /\ \A d \in By(active[1]) : \E i \in DOMAIN ready' : ready'[i].by = d
<1>1. PICK q \in Entries : active = <<q>>
  BY DEF CInv, Typed
<1>2. active[1] = q /\ 1 \in DOMAIN active
  BY <1>1
<1>3. PICK p, r, t, j : p = pending /\ r = ready /\ t = timers /\ j = job
  OBVIOUS
<1>4. r \in Seq(Answers) /\ Ledger(p, <<q>>, r, t, j) /\ NoneForgotten(Callers, p, <<q>>, r, t, j)
  BY <1>1, <1>3 DEF CInv, Accounts, Typed
<1>5. PICK s : s = r \o AnswersTo(q, x)
  OBVIOUS
<1>6. Given(p, q, x, r, s, t, j)
  BY <1>4, <1>5, LedgerAnswered
<1>7. NoneForgotten(Callers, p, <<>>, s, t, j)
  BY <1>4, <1>6 DEF NoneForgotten, Given
<1>8. ready' = s
  BY <1>2, <1>3, <1>5
<1>9. Accounts(pending', active', ready', timers', job')
  BY <1>3, <1>6, <1>7, <1>8 DEF Accounts, Given
<1>10. Fits(q, job)
  BY <1>2 DEF CInv, Accounts, Ledger, Work
<1> QED
  BY <1>2, <1>3, <1>6, <1>8, <1>9, <1>10 DEF Given

LEMMA PerformedIs ==
  ASSUME NEW o \in Entries, device \in States
  PROVE  /\ Performed(o) \in States
         /\ o.cmd \notin Actions => Performed(o)["run"] = device["run"]
         /\ o.cmd \in Actions => Performed(o)["run"] = o.cmd
         /\ \A p \in {"scale", "mode"} :
              Performed(o)[p] # device[p] =>
                (o.cmd = "mode" \/ (o.cmd = "write" /\ o.prop = "scale"))
<1>1. /\ device \in [AllProps -> Values \cup {0, 1} \cup Actions]
      /\ \A p \in ControlSettings \ {"mode"} : device[p] \in Values
      /\ device["mode"] \in {0, 1} /\ device["run"] \in Actions
  BY DEF States
<1>2. /\ "run" \in AllProps /\ "mode" \in AllProps /\ "scale" \in AllProps
      /\ "run" \notin ControlSettings /\ ControlSettings \subseteq AllProps
      /\ "mode" \in ControlSettings
  BY DEF AllProps, ControlSettings, Horizontal, Trigger
<1>3. "write" \notin Actions /\ "mode" \notin Actions
  BY DEF Actions
<1> DEFINE n == Performed(o)
<1>4. CASE o.cmd = "write"
  <2>1. n = [device EXCEPT ![o.prop] = Coerce[o.value]]
    BY <1>4 DEF Performed
  <2>2. o.prop \in ControlSettings \ {"mode"} /\ o.value \in Values
    BY <1>4 DEF Entries
  <2>3. Coerce[o.value] \in Values
    BY <2>2, ControllerAssumption
  <2>4. PICK v \in Values : v = Coerce[o.value]
    BY <2>3
  <2> HIDE DEF n
  <2>5. /\ n \in [AllProps -> Values \cup {0, 1} \cup Actions]
        /\ \A p \in AllProps : n[p] = IF p = o.prop THEN v ELSE device[p]
    BY <1>1, <1>2, <2>1, <2>2, <2>4
  <2>6. /\ \A p \in ControlSettings \ {"mode"} : n[p] \in Values
        /\ n["mode"] = device["mode"] /\ n["run"] = device["run"]
        /\ n["scale"] # device["scale"] => o.prop = "scale"
    BY <1>1, <1>2, <2>2, <2>5
  <2>7. n \in States
    BY <1>1, <2>5, <2>6 DEF States
  <2> QED
    BY <1>3, <1>4, <2>6, <2>7 DEF n
<1>5. CASE o.cmd = "mode"
  <2>1. n = [device EXCEPT !["mode"] = o.value]
    BY <1>5 DEF Performed
  <2>2. PICK v \in {0, 1} : v = o.value
    BY <1>5 DEF Entries
  <2> HIDE DEF n
  <2>3. /\ n \in [AllProps -> Values \cup {0, 1} \cup Actions]
        /\ \A p \in AllProps : n[p] = IF p = "mode" THEN v ELSE device[p]
    BY <1>1, <1>2, <2>1, <2>2
  <2>4. /\ \A p \in ControlSettings \ {"mode"} : n[p] \in Values
        /\ n["mode"] \in {0, 1} /\ n["run"] = device["run"]
    BY <1>1, <1>2, <2>3
  <2>5. n \in States
    BY <1>1, <2>3, <2>4 DEF States
  <2> QED
    BY <1>3, <1>5, <2>4, <2>5 DEF n
<1>6. CASE o.cmd \in Actions
  <2>1. n = [device EXCEPT !["run"] = o.cmd]
    BY <1>3, <1>6 DEF Performed
  <2> HIDE DEF n
  <2>2. /\ n \in [AllProps -> Values \cup {0, 1} \cup Actions]
        /\ \A p \in AllProps : n[p] = IF p = "run" THEN o.cmd ELSE device[p]
    BY <1>1, <1>2, <1>6, <2>1
  <2>3. /\ \A p \in ControlSettings \ {"mode"} : n[p] \in Values
        /\ n["mode"] = device["mode"] /\ n["run"] = o.cmd /\ n["scale"] = device["scale"]
    BY <1>1, <1>2, <2>2
  <2>4. n \in States
    BY <1>1, <1>6, <2>2, <2>3 DEF States
  <2> QED
    BY <1>6, <2>3, <2>4 DEF n
<1>7. CASE o.cmd \notin Actions /\ o.cmd # "write" /\ o.cmd # "mode"
  BY <1>7 DEF Performed
<1> QED
  BY <1>4, <1>5, <1>6, <1>7

\* The operation on the wire is done, or its answer is refused.
Answered(x) ==
  /\ active # <<>>
  /\ ready' = ready \o AnswersTo(active[1], x)
  /\ active' = <<>>
  /\ UNCHANGED <<workload, store, revision, job, pending, timers, asked>>

LEMMA FinishIs ==
  ASSUME CInv, FinishOperation
  PROVE  \E x \in [ok : {TRUE}, state : States] :
           /\ Answered(x) /\ x.state = device /\ device' = Performed(active[1])
           /\ failures' = failures
<1> DEFINE x == [ok |-> TRUE, state |-> device]
<1>1. /\ active # <<>> /\ device' = Performed(active[1]) /\ Resumed(x) /\ active' = <<>>
      /\ UNCHANGED <<workload, store, revision, job, pending, timers, asked, failures>>
  BY DEF FinishOperation
<1>2. x \in [ok : {TRUE}, state : States] /\ x.state = device
  BY DEF CInv, Typed
<1> HIDE DEF x
<1>3. Answered(x)
  BY <1>1 DEF Answered, Resumed, AnswersTo
<1> QED
  BY <1>1, <1>2, <1>3

LEMMA RefuseIs ==
  ASSUME CInv, RefuseAnswer
  PROVE  \E x \in [ok : BOOLEAN, state : States] :
           Answered(x) /\ x.state = device /\ device' = device /\ failures' = failures + 1
           /\ failures < workload.refusals
<1> DEFINE x == [ok |-> FALSE, state |-> device]
<1>1. /\ active # <<>> /\ Resumed(x) /\ active' = <<>> /\ failures' = failures + 1
      /\ failures < workload.refusals
      /\ UNCHANGED <<workload, store, device, revision, job, pending, timers, asked>>
  BY DEF RefuseAnswer
<1>2. x \in [ok : BOOLEAN, state : States] /\ x.state = device
  BY DEF CInv, Typed
<1> HIDE DEF x
<1>3. Answered(x)
  BY <1>1 DEF Answered, Resumed, AnswersTo
<1> QED
  BY <1>1, <1>2, <1>3

LEMMA AnsweredKeeps ==
  ASSUME CInv, NEW x \in [ok : BOOLEAN, state : States], Answered(x), device' \in States,
         failures' \in Nat, failures' <= workload.refusals
  PROVE  CInv'
<1>1. /\ active # <<>> /\ active' = <<>>
      /\ UNCHANGED <<workload, store, revision, job, pending, timers, asked>>
      /\ ready' = ready \o AnswersTo(active[1], x)
  BY DEF Answered
<1>2. ready' \in Seq(Answers) /\ Accounts(pending', active', ready', timers', job')
  BY <1>1, AnswerKeeps
<1>3. Typed'
  BY <1>1, <1>2 DEF CInv, Typed
<1> QED
  BY <1>2, <1>3 DEF CInv

LEMMA TriggerKeeps ==
  ASSUME CInv, TriggerSingle
  PROVE  CInv' /\ device["run"] = "single" /\ device'["run"] = "stop"
         /\ \A p \in {"scale", "mode"} : device'[p] = device[p]
<1>1. /\ device["run"] = "single" /\ device' = [device EXCEPT !["run"] = "stop"]
      /\ UNCHANGED <<workload, store, revision, job, pending, active, ready, timers, failures>>
  BY DEF TriggerSingle
<1>2. /\ device \in [AllProps -> Values \cup {0, 1} \cup Actions]
      /\ \A p \in ControlSettings \ {"mode"} : device[p] \in Values
      /\ device["mode"] \in {0, 1} /\ device["run"] \in Actions
  BY DEF CInv, Typed, States
<1>3. /\ "run" \in AllProps /\ "mode" \in AllProps /\ "scale" \in AllProps
      /\ "run" \notin ControlSettings /\ ControlSettings \subseteq AllProps
      /\ "stop" \in Actions
  BY DEF AllProps, ControlSettings, Horizontal, Trigger, Actions
<1>4. /\ device' \in [AllProps -> Values \cup {0, 1} \cup Actions]
      /\ \A p \in AllProps : device'[p] = IF p = "run" THEN "stop" ELSE device[p]
  BY <1>1, <1>2, <1>3
<1>5. /\ \A p \in ControlSettings \ {"mode"} : device'[p] \in Values
      /\ device'["mode"] \in {0, 1} /\ device'["run"] = "stop"
      /\ \A p \in {"scale", "mode"} : device'[p] = device[p]
  BY <1>2, <1>3, <1>4
<1>6. device' \in States
  BY <1>3, <1>4, <1>5 DEF States
<1>7. Typed'
  BY <1>1, <1>6 DEF CInv, Typed
<1>8. Accounts(pending', active', ready', timers', job')
  BY <1>1 DEF CInv
<1> QED
  BY <1>1, <1>5, <1>7, <1>8 DEF CInv

LEMMA CInvInit == ControllerInit => CInv
<1> SUFFICES ASSUME ControllerInit PROVE CInv
  OBVIOUS
<1>1. /\ workload \in Workloads /\ store = device /\ revision = 0 /\ failures = 0
      /\ job = [c \in Callers |-> Free]
      /\ pending = <<>> /\ active = <<>> /\ ready = <<>> /\ timers = <<>>
      /\ device = [p \in AllProps |-> IF p = "run" THEN "run" ELSE 0]
  BY DEF ControllerInit, AllProps
<1>2. /\ "run" \in AllProps /\ "mode" \in AllProps /\ "run" \in Actions /\ 0 \in Values
      /\ "run" \notin ControlSettings /\ ControlSettings \subseteq AllProps
  BY ControllerAssumption DEF AllProps, ControlSettings, Horizontal, Trigger, Actions
<1>3. device \in States
  <2>1. device \in [AllProps -> Values \cup {0, 1} \cup Actions]
    BY <1>1, <1>2
  <2>2. \A p \in AllProps : device[p] = IF p = "run" THEN "run" ELSE 0
    BY <1>1
  <2>3. /\ \A p \in ControlSettings \ {"mode"} : device[p] \in Values
        /\ device["mode"] \in {0, 1} /\ device["run"] \in Actions
    BY <1>2, <2>2
  <2> QED
    BY <2>1, <2>3 DEF States
<1>4. \A c \in Callers : job[c] = Free
  BY <1>1
<1>5. /\ pending \in Seq(Entries) /\ ready \in Seq(Answers) /\ timers \in Seq(Timers)
      /\ DOMAIN pending = {} /\ DOMAIN active = {} /\ DOMAIN ready = {} /\ DOMAIN timers = {}
  BY <1>1
<1>6. Typed
  <2>1. job \in [Callers -> {Free} \cup Jobs]
    BY <1>1
  <2>2. workload.total \in Nat /\ workload.refusals \in Nat
    BY <1>1, WorkloadIs
  <2> QED
    BY <1>1, <1>3, <1>4, <1>5, <2>1, <2>2 DEF Typed
<1>7. Ledger(pending, active, ready, timers, job)
  BY <1>5 DEF Ledger, Work, Once
<1>8. NoneForgotten(Callers, pending, active, ready, timers, job)
  BY <1>4 DEF NoneForgotten
<1> QED
  BY <1>6, <1>7, <1>8 DEF CInv, Accounts

LEMMA CInvNext == CInv /\ [ControllerNext]_controllerVars => CInv'
<1> SUFFICES ASSUME CInv, [ControllerNext]_controllerVars PROVE CInv'
  OBVIOUS
<1>1. CASE \E c \in Callers : \E r \in workload.requests : Begin(c, r)
  BY <1>1, BeginKeeps
<1>2. CASE StartOperation
  BY <1>2, StartOperationKeeps
<1>3. CASE FinishOperation
  <2>1. PICK x \in [ok : {TRUE}, state : States] :
          Answered(x) /\ device' = Performed(active[1]) /\ failures' = failures
    BY <1>3, FinishIs
  <2>2. active[1] \in Entries /\ device \in States
    BY <2>1 DEF CInv, Typed, Answered
  <2>3. device' \in States
    BY <2>1, <2>2, PerformedIs
  <2>4. failures' \in Nat /\ failures' <= workload.refusals
    BY <2>1 DEF CInv, Typed
  <2> QED
    BY <2>1, <2>3, <2>4, AnsweredKeeps
<1>4. CASE RefuseAnswer
  <2>1. PICK x \in [ok : BOOLEAN, state : States] :
          /\ Answered(x) /\ device' = device /\ failures' = failures + 1
          /\ failures < workload.refusals
    BY <1>4, RefuseIs
  <2>2. device' \in States
    BY <2>1 DEF CInv, Typed
  <2>3. workload.refusals \in Nat
    BY WorkloadIs DEF CInv, Typed
  <2>4. failures' \in Nat /\ failures' <= workload.refusals
    BY <2>1, <2>3 DEF CInv, Typed
  <2> QED
    BY <2>1, <2>2, <2>4, AnsweredKeeps
<1>5. CASE TriggerSingle
  BY <1>5, TriggerKeeps
<1>6. CASE Resume
  BY <1>6, ResumeKeeps
<1>7. CASE \E i \in DOMAIN timers : Expire(i)
  BY <1>7, ExpireKeeps
<1>8. CASE UNCHANGED controllerVars
  <2>1. /\ workload' = workload /\ store' = store /\ device' = device /\ revision' = revision
        /\ job' = job /\ pending' = pending /\ active' = active /\ ready' = ready
        /\ timers' = timers /\ failures' = failures
    BY <1>8 DEF controllerVars
  <2>2. Typed'
    BY <2>1 DEF CInv, Typed
  <2>3. Accounts(pending', active', ready', timers', job')
    BY <2>1 DEF CInv
  <2> QED
    BY <2>2, <2>3 DEF CInv
<1> QED
  BY <1>1, <1>2, <1>3, <1>4, <1>5, <1>6, <1>7, <1>8 DEF ControllerNext

-----------------------------------------------------------------------------
(* Timebase changes leave the scope running.                               *)

InReady(c) == \E i \in DOMAIN ready : ready[i].by = c

\* The acquisition is stopped for the request of c, which will run it again.
InStop(c) ==
  /\ job[c] \in Jobs /\ job[c].restart
  /\ \/ job[c].at \in {"settle", "mode", "write", "check"}
     \/ job[c].at = "stopping" /\ InReady(c)
     \/ job[c].at = "running" /\ ~InReady(c)

RunInv ==
  OnlyTimebase =>
    /\ device["run"] # "single"
    /\ device["run"] = "stop" => \E c \in Callers : InStop(c)

-----------------------------------------------------------------------------
(* One request at a time.                                                  *)

Alone == \A c, d \in Callers : job[c] # Free /\ job[d] # Free => c = d

\* What the server shows of the run state, and what the scope does, while the
\* request of c is in flight.
RunKnown(c) ==
  LET b == job[c]
  IN  /\ b.revision = revision
      /\ b.restart => store["run"] # "stop"
      /\ b.at \in {"mode", "write"} /\ b.request.prop = "scale" /\ ~b.restart
           => store["run"] = "stop"
      /\ b.restart /\ (b.at \in {"settle", "mode", "write"} \/ (b.at = "stopping" /\ InReady(c)))
           => device["run"] = "stop"
      /\ b.at = "action" /\ b.request.prop = "stop" /\ InReady(c) => device["run"] = "stop"
      /\ \A i \in DOMAIN ready :
           ready[i].by = c /\ b.at = "read-run" /\ ready[i].answer.state["run"] = "stop"
             => device["run"] = "stop"

RunStages == {"action", "single", "read-run"}

StopShown ==
  (\A c \in Callers : job[c].at \notin RunStages) /\ store["run"] = "stop"
    => device["run"] = "stop"

OneInv ==
  OneAtATime =>
    /\ \A i \in DOMAIN ready : ready[i].answer.ok
    /\ Alone /\ StopShown
    /\ \A c \in Callers : job[c] # Free => RunKnown(c)

LEMMA RunInit == ControllerInit => RunInv
<1> SUFFICES ASSUME ControllerInit PROVE device["run"] = "run"
  BY DEF RunInv
<1>1. "run" \in ControlSettings \cup {"run"}
  OBVIOUS
<1> QED
  BY <1>1 DEF ControllerInit

LEMMA RunFrame ==
  ASSUME RunInv, workload' = workload, device'["run"] = device["run"],
         \A c \in Callers : InStop(c) => InStop(c)'
  PROVE  RunInv'
<1>1. OnlyTimebase' => OnlyTimebase
  BY DEF OnlyTimebase
<1> QED
  BY <1>1 DEF RunInv

\* Who waits for an operation of the wire.
LEMMA WaitingFor ==
  ASSUME CInv, active # <<>>
  PROVE  /\ active[1] \in Entries /\ Fits(active[1], job)
         /\ \E c \in Callers : c \in By(active[1])
         /\ \A c \in By(active[1]) :
              /\ c \in Callers /\ job[c] \in Jobs /\ job[c] # Free /\ StageFits(job[c])
              /\ Expects(job[c], active[1]) /\ ~InReady(c)
              /\ job[c].request \in workload.requests
<1>1. PICK q \in Entries : active = <<q>>
  BY DEF CInv, Typed
<1>2. active[1] = q /\ 1 \in DOMAIN active
  BY <1>1
<1>3. Fits(q, job)
  BY <1>2 DEF CInv, Accounts, Ledger, Work
<1>4. \E c \in Callers : c \in By(q)
  BY <1>3 DEF Fits, By
<1>5. ASSUME NEW c \in By(q)
      PROVE  /\ c \in Callers /\ job[c] \in Jobs /\ job[c] # Free /\ StageFits(job[c])
             /\ Expects(job[c], q) /\ ~InReady(c)
             /\ job[c].request \in workload.requests
  <2>1. c \in Callers /\ Expects(job[c], q)
    BY <1>3 DEF Fits, By
  <2>2. job[c] \in Jobs /\ job[c] # Free
    BY <2>1, FreeIsNoJob DEF Expects
  <2>3. StageFits(job[c]) /\ job[c].request \in workload.requests
    BY <2>1, <2>2 DEF CInv, Typed
  <2>4. ~InReady(c)
    <3>1. \A i \in DOMAIN ready : Apart(active, ready[i].by)
      BY DEF CInv, Accounts, Ledger
    <3> QED
      BY <1>2, <3>1 DEF Apart, InReady
  <2> QED
    BY <2>1, <2>2, <2>3, <2>4
<1> QED
  BY <1>2, <1>3, <1>4, <1>5

\* What is ready after the operation on the wire is done.
LEMMA ReadyAfter ==
  ASSUME CInv, NEW x \in [ok : BOOLEAN, state : States], Answered(x)
  PROVE  /\ active # <<>>
         /\ \A c \in By(active[1]) : InReady(c)'
         /\ \A c \in Callers \ By(active[1]) : InReady(c)' <=> InReady(c)
         /\ \A i \in DOMAIN ready' : \/ ready'[i].by \in By(active[1]) /\ ready'[i].answer = x
                                     \/ i \in DOMAIN ready /\ ready'[i] = ready[i]
         /\ UNCHANGED <<workload, store, revision, job, pending, timers, asked>>
<1>1. /\ active # <<>> /\ active' = <<>>
      /\ UNCHANGED <<workload, store, revision, job, pending, timers, asked>>
      /\ ready' = ready \o AnswersTo(active[1], x)
  BY DEF Answered
<1>2. /\ \A i \in DOMAIN ready : i \in DOMAIN ready' /\ ready'[i] = ready[i]
      /\ \A i \in DOMAIN ready' : \/ ready'[i].by \in By(active[1]) /\ ready'[i].answer = x
                                  \/ i \in DOMAIN ready /\ ready'[i] = ready[i]
      /\ \A d \in By(active[1]) : \E i \in DOMAIN ready' : ready'[i].by = d
  BY <1>1, AnswerKeeps
<1>3. ASSUME NEW c PROVE InReady(c)' <=> \E i \in DOMAIN ready' : ready'[i].by = c
  BY DEF InReady
<1>4. \A c \in By(active[1]) : InReady(c)'
  BY <1>2, <1>3
<1>5. \A c \in Callers \ By(active[1]) : InReady(c)' <=> InReady(c)
  BY <1>2, <1>3 DEF InReady
<1> QED
  BY <1>1, <1>2, <1>4, <1>5

\* Stopped for a request whose operation is not the one that is done.
LEMMA InStopAnswered ==
  ASSUME CInv, NEW x \in [ok : BOOLEAN, state : States], Answered(x), active[1].cmd # "run",
         NEW c \in Callers, InStop(c)
  PROVE  InStop(c)'
<1>1. /\ active # <<>> /\ job' = job
      /\ \A d \in By(active[1]) : InReady(d)'
      /\ \A d \in Callers \ By(active[1]) : InReady(d)' <=> InReady(d)
  BY ReadyAfter
<1>2. job'[c] = job[c]
  BY <1>1
<1>3. CASE c \in By(active[1])
  <2>1. Expects(job[c], active[1])
    BY <1>1, <1>3, WaitingFor
  <2>2. job[c].at # "running"
    BY <2>1 DEF Expects
  <2> QED
    BY <1>1, <1>2, <1>3, <2>2 DEF InStop
<1>4. CASE c \notin By(active[1])
  <2>1. InReady(c)' <=> InReady(c)
    BY <1>1, <1>4
  <2> QED
    BY <1>2, <2>1 DEF InStop
<1> QED
  BY <1>3, <1>4

LEMMA RunFinish ==
  ASSUME CInv, RunInv, FinishOperation
  PROVE  RunInv'
<1>1. PICK x \in [ok : {TRUE}, state : States] :
        Answered(x) /\ device' = Performed(active[1])
  BY FinishIs
<1>2. x \in [ok : BOOLEAN, state : States]
  BY <1>1
<1> DEFINE q == active[1]
<1>3. /\ active # <<>> /\ workload' = workload /\ job' = job
      /\ \A c \in By(q) : InReady(c)'
  BY <1>1, <1>2, ReadyAfter
<1>4. /\ q \in Entries /\ \E c \in Callers : c \in By(q)
      /\ \A c \in By(q) : /\ c \in Callers /\ job[c] \in Jobs /\ StageFits(job[c])
                          /\ Expects(job[c], q) /\ job[c].request \in workload.requests
  BY <1>3, WaitingFor
<1>5. /\ q.cmd \notin Actions => device'["run"] = device["run"]
      /\ q.cmd \in Actions => device'["run"] = q.cmd
  BY <1>1, <1>4, PerformedIs DEF CInv, Typed
<1> HIDE DEF q
<1>6. CASE q.cmd \notin Actions
  <2>1. q.cmd # "run"
    BY <1>6 DEF Actions
  <2>2. \A c \in Callers : InStop(c) => InStop(c)'
    BY <1>1, <1>2, <2>1, InStopAnswered DEF q
  <2> QED
    BY <1>3, <1>5, <1>6, <2>2, RunFrame
<1>7. CASE q.cmd = "run"
  BY <1>5, <1>7 DEF RunInv, Actions
<1>8. CASE q.cmd = "stop" \/ q.cmd = "single"
  <2> SUFFICES ASSUME OnlyTimebase
               PROVE  q.cmd = "stop" /\ \E c \in Callers : InStop(c)'
    <3>1. OnlyTimebase' => OnlyTimebase
      BY <1>3 DEF OnlyTimebase
    <3> QED
      BY <1>5, <1>8, <3>1 DEF RunInv, Actions
  <2>1. PICK c \in Callers : c \in By(q)
    BY <1>4
  <2>2. /\ job[c] \in Jobs /\ StageFits(job[c]) /\ Expects(job[c], q)
        /\ job[c].request.kind # "action" /\ InReady(c)'
    BY <1>3, <1>4, <2>1 DEF OnlyTimebase
  <2>3. job[c].at \notin {"action", "single"}
    BY <2>2 DEF StageFits
  <2>4. q.cmd = "stop" /\ job[c].at = "stopping"
    BY <1>8, <2>2, <2>3 DEF Expects
  <2>5. job[c].restart
    BY <2>2, <2>4 DEF StageFits
  <2>6. job'[c] = job[c]
    BY <1>3
  <2>7. InStop(c)'
    BY <2>2, <2>4, <2>5, <2>6 DEF InStop
  <2> QED
    BY <2>4, <2>7
<1> QED
  BY <1>6, <1>7, <1>8 DEF Actions

LEMMA RunRefuse ==
  ASSUME CInv, RunInv, RefuseAnswer
  PROVE  RunInv'
<1>1. PICK x \in [ok : BOOLEAN, state : States] : Answered(x) /\ device' = device
  BY RefuseIs
<1>2. workload' = workload /\ active[1].cmd # "run"
  BY <1>1 DEF Answered, RefuseAnswer
<1>3. \A c \in Callers : InStop(c) => InStop(c)'
  BY <1>1, <1>2, InStopAnswered
<1> QED
  BY <1>1, <1>2, <1>3, RunFrame

LEMMA RunBegin ==
  ASSUME CInv, RunInv, NEW c \in Callers, NEW r \in workload.requests, Begin(c, r)
  PROVE  RunInv'
<1>1. /\ Starts(c, r) /\ job[c] = Free
      /\ UNCHANGED <<workload, device, active, ready, timers, failures>>
  BY BeginStarts
<1>2. ASSUME NEW d \in Callers, InStop(d) PROVE InStop(d)'
  <2>1. d # c
    BY <1>1, <1>2, FreeIsNoJob DEF InStop
  <2>2. job'[d] = job[d] /\ ready' = ready
    BY <1>1, <2>1 DEF Starts
  <2> QED
    BY <1>2, <2>2 DEF InStop, InReady
<1> QED
  BY <1>1, <1>2, RunFrame

LEMMA RunStart ==
  ASSUME CInv, RunInv, StartOperation
  PROVE  RunInv'
<1>1. workload' = workload /\ device' = device /\ job' = job /\ ready' = ready
  BY DEF StartOperation
<1>2. \A d \in Callers : InStop(d) => InStop(d)'
  BY <1>1 DEF InStop, InReady
<1> QED
  BY <1>1, <1>2, RunFrame

\* A request that is stopped for goes on to run the acquisition again.
LEMMA InStopMoves ==
  ASSUME NEW c \in Callers, NEW t, NEW t2, Moves(c, t, t2), InStop(c), job[c].at # "running",
         ~InReady(c)'
  PROVE  InStop(c)'
<1>1. job[c].restart
  BY DEF InStop
<1>2. job[c].at \in {"settle", "mode", "write", "check", "stopping"}
  BY DEF InStop
<1>3. ~Ends(job[c])
  BY <1>1, <1>2 DEF Ends
<1>4. Follows(job[c], job'[c])
  BY <1>3 DEF Moves
<1>5. job'[c].restart /\ job'[c] \in Jobs
  BY <1>1, <1>4 DEF Follows
<1>6. job'[c].at \in {"settle", "mode", "write", "check", "running"}
  BY <1>1, <1>2, <1>4 DEF Follows, NextStage
<1> QED
  BY <1>5, <1>6 DEF InStop

LEMMA RunResume ==
  ASSUME CInv, RunInv, Resume
  PROVE  RunInv'
<1>1. /\ ready # <<>> /\ ready' = Tail(ready) /\ GoesOn(ready[1].by)
      /\ UNCHANGED <<workload, device, revision, active, asked, failures>>
  BY ResumeMoves
<1>2. PICK c \in Callers : c = ready[1].by
  BY <1>1, ResumedIs
<1>3. /\ 1 \in DOMAIN ready
      /\ \A i \in DOMAIN Tail(ready) : i + 1 \in DOMAIN ready /\ Tail(ready)[i] = ready[i + 1]
      /\ \A i \in DOMAIN ready : i # 1 =>
           i - 1 \in DOMAIN Tail(ready) /\ Tail(ready)[i - 1] = ready[i]
  BY <1>1, TailIs DEF CInv, Typed
<1>4. PICK u : u = Tail(ready)
  OBVIOUS
<1>5. ready' = u
  BY <1>1, <1>4
<1>6. /\ \A i \in DOMAIN u : \E m \in DOMAIN ready : u[i] = ready[m]
      /\ \A m \in DOMAIN ready : m # 1 => \E i \in DOMAIN u : u[i] = ready[m]
  BY <1>3, <1>4
<1>7. ~InReady(c)'
  <2>1. Unheld(c, pending, active, u, timers)
    BY <1>1, <1>2, <1>4, ResumedIs
  <2> QED
    BY <1>5, <2>1 DEF Unheld, InReady
<1>8. InReady(c)
  BY <1>2, <1>3 DEF InReady
<1>9. ASSUME NEW d \in Callers, InStop(d) PROVE InStop(d)'
  <2>1. CASE d = c
    <3>1. job[c].at # "running"
      BY <1>8, <1>9, <2>1 DEF InStop
    <3> QED
      BY <1>1, <1>2, <1>7, <1>9, <2>1, <3>1, InStopMoves DEF GoesOn
  <2>2. CASE d # c
    <3>1. job'[d] = job[d]
      BY <1>1, <1>2, <2>2 DEF GoesOn, Moves
    <3>2. InReady(d)' <=> InReady(d)
      <4>1. InReady(d)' <=> \E i \in DOMAIN u : u[i].by = d
        BY <1>5 DEF InReady
      <4> QED
        BY <1>2, <1>6, <2>2, <4>1 DEF InReady
    <3> QED
      BY <1>9, <3>1, <3>2 DEF InStop
  <2> QED
    BY <2>1, <2>2
<1> QED
  BY <1>1, <1>9, RunFrame

LEMMA RunExpire ==
  ASSUME CInv, RunInv, NEW i \in DOMAIN timers, Expire(i)
  PROVE  RunInv'
<1>1. /\ timers[i] \in Timers /\ ready = <<>>
      /\ Moves(timers[i].by, RemoveAt(timers, i), timers')
      /\ job[timers[i].by].at = timers[i].at
      /\ UNCHANGED <<workload, store, device, revision, active, ready, asked, failures>>
  BY ExpireMoves
<1>2. PICK c \in Callers : c = timers[i].by
  BY <1>1 DEF Timers
<1>3. job[c].at # "running" /\ Moves(c, RemoveAt(timers, i), timers')
  BY <1>1, <1>2 DEF Timers, TimerStages
<1>4. ~InReady(c)'
  <2>1. ready' = <<>> /\ DOMAIN <<>> = {}
    BY <1>1
  <2> QED
    BY <2>1 DEF InReady
<1>5. ASSUME NEW d \in Callers, InStop(d) PROVE InStop(d)'
  <2>1. CASE d = c
    BY <1>3, <1>4, <1>5, <2>1, InStopMoves
  <2>2. CASE d # c
    <3>1. job'[d] = job[d] /\ ready' = ready
      BY <1>1, <1>3, <2>2 DEF Moves
    <3> QED
      BY <1>5, <3>1 DEF InStop, InReady
  <2> QED
    BY <2>1, <2>2
<1> QED
  BY <1>1, <1>5, RunFrame

LEMMA RunNext == CInv /\ RunInv /\ [ControllerNext]_controllerVars => RunInv'
<1> SUFFICES ASSUME CInv, RunInv, [ControllerNext]_controllerVars PROVE RunInv'
  OBVIOUS
<1>1. CASE \E c \in Callers : \E r \in workload.requests : Begin(c, r)
  BY <1>1, RunBegin
<1>2. CASE StartOperation
  BY <1>2, RunStart
<1>3. CASE FinishOperation
  BY <1>3, RunFinish
<1>4. CASE RefuseAnswer
  BY <1>4, RunRefuse
<1>5. CASE TriggerSingle
  <2>1. device["run"] = "single" /\ workload' = workload
    BY <1>5 DEF TriggerSingle
  <2>2. ~OnlyTimebase
    BY <2>1 DEF RunInv
  <2> QED
    BY <2>1, <2>2 DEF RunInv, OnlyTimebase
<1>6. CASE Resume
  BY <1>6, RunResume
<1>7. CASE \E i \in DOMAIN timers : Expire(i)
  BY <1>7, RunExpire
<1>8. CASE UNCHANGED controllerVars
  <2>1. workload' = workload /\ device' = device /\ job' = job /\ ready' = ready
    BY <1>8 DEF controllerVars
  <2>2. \A d \in Callers : InStop(d) => InStop(d)'
    BY <2>1 DEF InStop, InReady
  <2> QED
    BY <2>1, <2>2, RunFrame
<1> QED
  BY <1>1, <1>2, <1>3, <1>4, <1>5, <1>6, <1>7, <1>8 DEF ControllerNext

\* When all requests are done the scope runs.
LEMMA RunRestoredHolds ==
  ASSUME CInv, RunInv
  PROVE  RunRestored
<1> SUFFICES ASSUME OnlyTimebase, AllDone PROVE device["run"] = "run"
  BY DEF RunRestored
<1>1. \A c \in Callers : ~InStop(c)
  BY FreeIsNoJob DEF InStop, AllDone
<1>2. device["run"] \in Actions
  BY DEF CInv, Typed, States
<1> QED
  BY <1>1, <1>2 DEF RunInv, Actions

-----------------------------------------------------------------------------
(* One request at a time: the scale is written while the scope is stopped. *)

LEMMA OneInit == ControllerInit => OneInv
<1> SUFFICES ASSUME ControllerInit PROVE OneInv
  OBVIOUS
<1>1. /\ store = device /\ ready = <<>> /\ DOMAIN ready = {}
      /\ \A c \in Callers : job[c] = Free
  BY DEF ControllerInit
<1> QED
  BY <1>1 DEF OneInv, Alone, StopShown

LEMMA RunKnownFrame ==
  ASSUME NEW c, RunKnown(c), job'[c] = job[c], revision' = revision, store' = store,
         ready' = ready, device'["run"] = device["run"] \/ device'["run"] = "stop"
  PROVE  RunKnown(c)'
<1>1. InReady(c)' <=> InReady(c)
  BY DEF InReady
<1> QED
  BY <1>1 DEF RunKnown

\* Steps that leave the requests, and what is shown, as they are.
LEMMA OneFrame ==
  ASSUME OneInv, job' = job, revision' = revision, store' = store, workload' = workload,
         ready' = ready, device'["run"] = device["run"] \/ device'["run"] = "stop"
  PROVE  OneInv'
<1> SUFFICES ASSUME OneAtATime' PROVE OneInv'
  BY DEF OneInv
<1>1. OneAtATime
  BY DEF OneAtATime
<1>2. /\ \A i \in DOMAIN ready : ready[i].answer.ok
      /\ Alone /\ StopShown
      /\ \A c \in Callers : job[c] # Free => RunKnown(c)
  BY <1>1 DEF OneInv
<1>3. \A c \in Callers : job'[c] # Free => RunKnown(c)'
  BY <1>2, RunKnownFrame
<1>4. Alone' /\ StopShown'
  BY <1>2 DEF Alone, StopShown
<1> QED
  BY <1>2, <1>3, <1>4 DEF OneInv

LEMMA FewerThanOne ==
  ASSUME NEW S \in SUBSET Callers, Cardinality(S) < 1
  PROVE  S = {}
<1>1. IsFiniteSet(S)
  BY ControllerAssumption, FS_Subset
<1>2. Cardinality(S) \in Nat
  BY <1>1, FS_CardinalityType
<1> QED
  BY <1>1, <1>2, FS_EmptySet

LEMMA OneBegin ==
  ASSUME CInv, OneInv, NEW c \in Callers, NEW r \in workload.requests, Begin(c, r)
  PROVE  OneInv'
<1>1. /\ Starts(c, r) /\ ready = <<>> /\ job[c] = Free /\ revision' = revision + 1
      /\ UNCHANGED <<workload, device, active, ready, timers, failures>>
  BY BeginStarts
<1> SUFFICES ASSUME OneAtATime' PROVE OneInv'
  BY DEF OneInv
<1>2. OneAtATime
  BY <1>1 DEF OneAtATime
<1>3. \A d \in Callers : job[d] = Free
  <2>1. Cardinality({d \in Callers : job[d] # Free}) < 1
    BY <1>2 DEF Begin, OneAtATime
  <2> DEFINE S == {d \in Callers : job[d] # Free}
  <2>2. S \in SUBSET Callers /\ Cardinality(S) < 1
    BY <2>1
  <2> HIDE DEF S
  <2>3. S = {}
    BY <2>2, FewerThanOne
  <2> QED
    BY <2>3 DEF S
<1>4. /\ \A d \in Callers \ {c} : job'[d] = job[d]
      /\ job'[c] \in Jobs /\ StageFits(job'[c]) /\ job'[c].request = r
      /\ job'[c].revision = revision'
      /\ job'[c].at \in {"stopping", "mode", "write", "action", "single-mode"}
      /\ job'[c].restart <=> job'[c].at = "stopping"
      /\ store'["run"] = store["run"]
      /\ r.kind \in Kinds => job'[c].restart = Restarts(r, store')
  BY <1>1 DEF Starts
<1>5. ready' = <<>> /\ DOMAIN ready' = {} /\ ~InReady(c)'
  BY <1>1 DEF InReady
<1>6. Alone'
  BY <1>3, <1>4 DEF Alone
<1>7. StopShown'
  <2>1. Free.at \notin RunStages
    BY DEF Free, RunStages
  <2>2. StopShown
    BY <1>2 DEF OneInv
  <2> QED
    BY <1>1, <1>3, <1>4, <2>1, <2>2 DEF StopShown
<1>8. RunKnown(c)'
  <2> DEFINE b == job'[c]
  <2>1. b.restart => r.kind \in Kinds
    BY <1>4 DEF StageFits
  <2>2. b.restart => store'["run"] # "stop"
    BY <1>4, <2>1 DEF Restarts
  <2>3. ASSUME b.at \in {"mode", "write"}, b.request.prop = "scale", ~b.restart
        PROVE  store'["run"] = "stop"
    <3>1. r.kind # "action"
      BY <1>4, <2>3 DEF StageFits
    <3>2. r.kind \in Kinds
      <4>1. r \in Requests
        BY WorkloadIs DEF CInv, Typed
      <4> QED
        BY <3>1, <4>1, RequestFields
    <3>3. ~Restarts(r, store')
      BY <1>4, <2>3, <3>2
    <3> QED
      BY <1>4, <2>3, <3>3 DEF Restarts
  <2>4. ~(b.restart /\ (b.at \in {"settle", "mode", "write"} \/ (b.at = "stopping" /\ InReady(c)')))
    BY <1>4, <1>5
  <2> QED
    BY <1>4, <1>5, <2>2, <2>3, <2>4 DEF RunKnown
<1>9. \A d \in Callers : job'[d] # Free => RunKnown(d)'
  <2>1. \A d \in Callers : job'[d] # Free => d = c
    BY <1>3, <1>4
  <2> QED
    BY <1>8, <2>1
<1> QED
  BY <1>5, <1>6, <1>7, <1>9 DEF OneInv

\* The only request is the one that waits for the operation on the wire.
LEMMA OneWaits ==
  ASSUME CInv, OneInv, OneAtATime, NEW x \in [ok : BOOLEAN, state : States], Answered(x)
  PROVE  \E c \in Callers :
           /\ c \in By(active[1]) /\ \A d \in Callers : job[d] # Free => d = c
           /\ InReady(c)' /\ \A i \in DOMAIN ready' : ready'[i].by = c /\ ready'[i].answer = x
<1>1. /\ active # <<>>
      /\ \A c \in By(active[1]) : InReady(c)'
      /\ \A i \in DOMAIN ready' : \/ ready'[i].by \in By(active[1]) /\ ready'[i].answer = x
                                  \/ i \in DOMAIN ready /\ ready'[i] = ready[i]
  BY ReadyAfter
<1>2. PICK c \in Callers : c \in By(active[1])
  BY <1>1, WaitingFor
<1>3. /\ job[c] # Free /\ ~InReady(c)
      /\ \A d \in By(active[1]) : d \in Callers /\ job[d] # Free
  BY <1>1, <1>2, WaitingFor
<1>4. \A d \in Callers : job[d] # Free => d = c
  BY <1>3 DEF OneInv, Alone
<1>5. \A i \in DOMAIN ready : FALSE
  <2>1. ASSUME NEW i \in DOMAIN ready PROVE FALSE
    <3>1. ready[i].by \in Callers /\ job[ready[i].by] \in Jobs
      BY DEF CInv, Accounts, Ledger
    <3>2. ready[i].by = c
      BY <1>4, <3>1, FreeIsNoJob
    <3> QED
      BY <1>3, <3>2 DEF InReady
  <2> QED
    BY <2>1
<1>6. \A i \in DOMAIN ready' : ready'[i].by = c /\ ready'[i].answer = x
  BY <1>1, <1>3, <1>4, <1>5
<1> QED
  BY <1>1, <1>2, <1>4, <1>6

LEMMA OneFinish ==
  ASSUME CInv, OneInv, FinishOperation
  PROVE  OneInv'
<1>1. PICK x \in [ok : {TRUE}, state : States] :
        Answered(x) /\ x.state = device /\ device' = Performed(active[1])
  BY FinishIs
<1>2. x \in [ok : BOOLEAN, state : States] /\ x.ok
  BY <1>1
<1>3. /\ active # <<>>
      /\ workload' = workload /\ job' = job /\ store' = store /\ revision' = revision
  BY <1>1 DEF Answered
<1> SUFFICES ASSUME OneAtATime' PROVE OneInv'
  BY DEF OneInv
<1>4. OneAtATime
  BY <1>3 DEF OneAtATime
<1> DEFINE q == active[1]
<1>5. PICK c \in Callers :
        /\ c \in By(q) /\ \A d \in Callers : job[d] # Free => d = c
        /\ InReady(c)' /\ \A i \in DOMAIN ready' : ready'[i].by = c /\ ready'[i].answer = x
  BY <1>1, <1>2, <1>4, OneWaits
<1>6. /\ q \in Entries /\ job[c] \in Jobs /\ job[c] # Free /\ StageFits(job[c])
      /\ Expects(job[c], q)
  BY <1>3, <1>5, WaitingFor
<1>7. /\ q.cmd \notin Actions => device'["run"] = device["run"]
      /\ q.cmd \in Actions => device'["run"] = q.cmd
  BY <1>1, <1>6, PerformedIs DEF CInv, Typed
<1>8. /\ Alone /\ StopShown /\ RunKnown(c)
  BY <1>4, <1>6 DEF OneInv
<1>9. Alone'
  BY <1>3, <1>8 DEF Alone
<1> HIDE DEF q
<1> DEFINE b == job[c]
<1>10. /\ b.restart => store["run"] # "stop"
       /\ b.revision = revision
       /\ b.at \in {"mode", "write"} /\ b.request.prop = "scale" /\ ~b.restart
            => store["run"] = "stop"
       /\ b.restart /\ b.at \in {"settle", "mode", "write"} => device["run"] = "stop"
  BY <1>8 DEF RunKnown
<1>11. StopShown'
  <2> SUFFICES ASSUME b.at \notin RunStages, store["run"] = "stop",
                      \A d \in Callers : job[d].at \notin RunStages
               PROVE  device'["run"] = "stop"
    BY <1>3 DEF StopShown
  <2>1. device["run"] = "stop"
    BY <1>8 DEF StopShown
  <2>2. ~b.restart
    BY <1>10
  <2>3. b.at \notin {"stopping", "running"}
    BY <1>6, <2>2 DEF StageFits
  <2>4. q.cmd \notin Actions
    BY <1>6, <2>3 DEF Expects, RunStages, Actions
  <2> QED
    BY <1>7, <2>1, <2>4
<1>12. RunKnown(c)'
  <2>1. b.at # "settle"
    BY <1>6 DEF Expects
  <2>2. ASSUME b.at = "stopping" PROVE device'["run"] = "stop"
    BY <1>6, <1>7, <2>2 DEF Expects, Actions
  <2>3. ASSUME b.at = "action", b.request.prop = "stop" PROVE device'["run"] = "stop"
    BY <1>6, <1>7, <2>3 DEF Expects, Actions
  <2>4. ASSUME b.at \in {"mode", "write"} PROVE device'["run"] = device["run"]
    BY <1>6, <1>7, <2>4 DEF Expects, Actions
  <2>5. ASSUME b.at = "read-run", NEW i \in DOMAIN ready',
               ready'[i].answer.state["run"] = "stop"
        PROVE  device'["run"] = "stop"
    <3>1. device'["run"] = device["run"]
      BY <1>6, <1>7, <2>5 DEF Expects, Actions
    <3>2. ready'[i].answer.state = device
      BY <1>1, <1>5
    <3> QED
      BY <2>5, <3>1, <3>2
  <2>6. b.restart /\ (b.at \in {"settle", "mode", "write"} \/ (b.at = "stopping" /\ InReady(c)'))
          => device'["run"] = "stop"
    BY <1>10, <2>1, <2>2, <2>4
  <2>7. \A i \in DOMAIN ready' :
          ready'[i].by = c /\ b.at = "read-run" /\ ready'[i].answer.state["run"] = "stop"
            => device'["run"] = "stop"
    BY <2>5
  <2> QED
    BY <1>3, <1>10, <2>3, <2>6, <2>7 DEF RunKnown
<1>13. \A d \in Callers : job'[d] # Free => RunKnown(d)'
  BY <1>3, <1>5, <1>12
<1>14. \A i \in DOMAIN ready' : ready'[i].answer.ok
  BY <1>2, <1>5
<1> QED
  BY <1>9, <1>11, <1>13, <1>14 DEF OneInv

LEMMA OneRefuse ==
  ASSUME CInv, OneInv, RefuseAnswer
  PROVE  OneInv'
<1>1. failures < workload.refusals /\ workload' = workload /\ failures \in Nat
  BY DEF RefuseAnswer, CInv, Typed
<1>2. ~OneAtATime
  BY <1>1 DEF OneAtATime
<1> QED
  BY <1>1, <1>2 DEF OneInv, OneAtATime

\* The only request goes on.
LEMMA OneMoves ==
  ASSUME OneInv, NEW c \in Callers, InFlight(c), NEW t, NEW t2, Moves(c, t, t2),
         device' = device, revision' = revision, workload' = workload, ~InReady(c)',
         OneAtATime => \A i \in DOMAIN ready' : ready'[i].answer.ok,
         job[c].at \notin {"read-run", "action"} => store'["run"] = store["run"],
         OneAtATime /\ job[c].at \in {"read-run", "action"} /\ store'["run"] = "stop"
           => device["run"] = "stop",
         job[c].at = "stopping" => InReady(c)
  PROVE  OneInv'
<1> SUFFICES ASSUME OneAtATime' PROVE OneInv'
  BY DEF OneInv
<1>1. OneAtATime
  BY DEF OneAtATime
<1> DEFINE b == job[c]
           b2 == job'[c]
<1>2. b \in Jobs /\ b # Free /\ StageFits(b)
  BY FreeIsNoJob DEF InFlight
<1>3. Alone /\ StopShown /\ RunKnown(c)
  BY <1>1, <1>2 DEF OneInv
<1>4. \A d \in Callers : job[d] # Free => d = c
  BY <1>2, <1>3 DEF Alone
<1>5. \A d \in Callers : d # c => job'[d] = Free
  BY <1>4 DEF Moves
<1>6. Alone'
  BY <1>5 DEF Alone
<1>7. Follows(b, b2) \/ (Ends(b) /\ b2 = Free)
  BY DEF Moves
<1>8. /\ b.revision = revision
      /\ b.restart => store["run"] # "stop"
      /\ b.at \in {"mode", "write"} /\ b.request.prop = "scale" /\ ~b.restart
           => store["run"] = "stop"
      /\ b.restart /\ (b.at \in {"settle", "mode", "write"} \/ (b.at = "stopping" /\ InReady(c)))
           => device["run"] = "stop"
  BY <1>3 DEF RunKnown
<1>9. b.restart => b.at \notin {"read-run", "action"}
  <2>1. ASSUME b.restart PROVE b.request.kind # "action" /\ b.request.prop # "sweep"
    BY <1>2, <2>1 DEF StageFits, Kinds
  <2> QED
    BY <1>2, <2>1 DEF StageFits
<1>10. Free.at \notin RunStages
  BY DEF Free, RunStages
<1>11. StopShown'
  <2> SUFFICES ASSUME \A d \in Callers : job'[d].at \notin RunStages, store'["run"] = "stop"
               PROVE  device["run"] = "stop"
    BY DEF StopShown
  <2>1. b2.at \notin RunStages
    OBVIOUS
  <2>2. CASE b.at \in {"read-run", "action"}
    BY <1>1, <2>2
  <2>3. CASE b.at = "single"
    <3>1. Follows(b, b2)
      BY <1>7, <2>3 DEF Ends
    <3>2. b2.at = "read-run"
      BY <2>3, <3>1 DEF Follows, NextStage
    <3> QED
      BY <2>1, <3>2 DEF RunStages
  <2>4. CASE b.at \notin {"read-run", "action", "single"}
    <3>1. \A d \in Callers : job[d].at \notin RunStages
      BY <1>4, <1>10, <2>4 DEF RunStages
    <3> QED
      BY <1>3, <2>4, <3>1 DEF StopShown
  <2> QED
    BY <2>2, <2>3, <2>4
<1>12. ASSUME b2 # Free PROVE RunKnown(c)'
  <2>1. Follows(b, b2)
    BY <1>7, <1>12
  <2>2. /\ b2.revision = revision' /\ b2.restart = b.restart /\ b2.request = b.request
        /\ NextStage(b, b2)
    BY <1>8, <2>1 DEF Follows
  <2>3. b2.restart => store'["run"] # "stop"
    BY <1>8, <1>9, <2>2
  <2>4. ASSUME b2.at \in {"mode", "write"}, b2.request.prop = "scale", ~b2.restart
        PROVE  store'["run"] = "stop"
    <3>1. b.at \in {"mode", "settle"}
      BY <2>2, <2>4 DEF NextStage
    <3>2. b.at # "settle"
      BY <1>2, <2>2, <2>4 DEF StageFits
    <3> QED
      BY <1>8, <2>2, <2>4, <3>1, <3>2
  <2>5. ASSUME b2.restart, b2.at \in {"settle", "mode", "write"}
        PROVE  device'["run"] = "stop"
    <3>1. b.at \in {"stopping", "settle", "mode"}
      BY <2>2, <2>5 DEF NextStage
    <3> QED
      BY <1>8, <2>2, <2>5, <3>1
  <2>6. \A i \in DOMAIN ready' : ready'[i].by # c
    BY DEF InReady
  <2> QED
    BY <2>2, <2>3, <2>4, <2>5, <2>6 DEF RunKnown
<1>13. \A d \in Callers : job'[d] # Free => RunKnown(d)'
  BY <1>5, <1>12
<1> QED
  BY <1>1, <1>6, <1>11, <1>13 DEF OneInv

LEMMA OneResume ==
  ASSUME CInv, OneInv, Resume
  PROVE  OneInv'
<1>1. /\ ready # <<>> /\ ready' = Tail(ready) /\ GoesOn(ready[1].by)
      /\ Shows(ready[1].by, ready[1].answer.ok, ready[1].answer.state)
      /\ UNCHANGED <<workload, device, revision, active, asked, failures>>
  BY ResumeMoves
<1>2. /\ ready[1].by \in Callers /\ InFlight(ready[1].by) /\ 1 \in DOMAIN ready
      /\ Unheld(ready[1].by, pending, active, Tail(ready), timers)
  BY <1>1, ResumedIs
<1>3. PICK c \in Callers : c = ready[1].by
  BY <1>2
<1>4. \A i \in DOMAIN Tail(ready) : i + 1 \in DOMAIN ready /\ Tail(ready)[i] = ready[i + 1]
  BY <1>1, TailIs DEF CInv, Typed
<1>5. PICK u : u = Tail(ready)
  OBVIOUS
<1>6. ready' = u /\ \A i \in DOMAIN u : \E m \in DOMAIN ready : u[i] = ready[m]
  BY <1>1, <1>4, <1>5
<1>7. ~InReady(c)' /\ InReady(c)
  <2>1. \A i \in DOMAIN u : u[i].by # c
    BY <1>2, <1>3, <1>5 DEF Unheld
  <2> QED
    BY <1>2, <1>3, <1>6, <2>1 DEF InReady
<1>8. OneAtATime => \A i \in DOMAIN ready' : ready'[i].answer.ok
  BY <1>6 DEF OneInv
<1>9. /\ job[c].at \notin {"read-run", "action"} => store'["run"] = store["run"]
      /\ job[c].at = "read-run" /\ ready[1].answer.ok /\ job[c].revision = revision
           => store'["run"] = ready[1].answer.state["run"]
      /\ job[c].at = "action" /\ job[c].revision = revision
           => store'["run"] = job[c].request.prop
  BY <1>1, <1>3 DEF Shows
<1>10. ASSUME OneAtATime, job[c].at \in {"read-run", "action"}, store'["run"] = "stop"
       PROVE  device["run"] = "stop"
  <2>1. job[c] # Free
    BY <1>2, <1>3, FreeIsNoJob DEF InFlight
  <2>2. RunKnown(c) /\ ready[1].answer.ok
    BY <1>2, <1>10, <2>1 DEF OneInv
  <2>3. job[c].revision = revision
    BY <2>2 DEF RunKnown
  <2>4. CASE job[c].at = "read-run"
    BY <1>2, <1>3, <1>9, <1>10, <2>2, <2>3, <2>4 DEF RunKnown
  <2>5. CASE job[c].at = "action"
    BY <1>7, <1>9, <1>10, <2>2, <2>3, <2>5 DEF RunKnown
  <2> QED
    BY <1>10, <2>4, <2>5
<1>11. Moves(c, timers, timers') /\ InFlight(c)
  BY <1>1, <1>2, <1>3 DEF GoesOn
<1>12. device' = device /\ revision' = revision /\ workload' = workload
  BY <1>1
<1> QED
  BY <1>7, <1>8, <1>9, <1>10, <1>11, <1>12, OneMoves

LEMMA OneExpire ==
  ASSUME CInv, OneInv, NEW i \in DOMAIN timers, Expire(i)
  PROVE  OneInv'
<1>1. /\ timers[i] \in Timers /\ InFlight(timers[i].by) /\ ready = <<>>
      /\ Moves(timers[i].by, RemoveAt(timers, i), timers')
      /\ job[timers[i].by].at = timers[i].at
      /\ UNCHANGED <<workload, store, device, revision, active, ready, asked, failures>>
  BY ExpireMoves
<1>2. PICK c \in Callers : c = timers[i].by
  BY <1>1 DEF Timers
<1>3. PICK t : t = RemoveAt(timers, i)
  OBVIOUS
<1>4. /\ InFlight(c) /\ Moves(c, t, timers')
      /\ job[c].at \notin {"read-run", "action", "stopping"}
  BY <1>1, <1>2, <1>3 DEF Timers, TimerStages
<1>5. ready' = <<>> /\ DOMAIN ready' = {} /\ ~InReady(c)'
  BY <1>1 DEF InReady
<1> QED
  BY <1>1, <1>4, <1>5, OneMoves

LEMMA OneNext == CInv /\ OneInv /\ [ControllerNext]_controllerVars => OneInv'
<1> SUFFICES ASSUME CInv, OneInv, [ControllerNext]_controllerVars PROVE OneInv'
  OBVIOUS
<1>1. CASE \E c \in Callers : \E r \in workload.requests : Begin(c, r)
  BY <1>1, OneBegin
<1>2. CASE StartOperation
  <2>1. /\ job' = job /\ revision' = revision /\ store' = store /\ workload' = workload
        /\ ready' = ready /\ device' = device
    BY <1>2 DEF StartOperation
  <2> QED
    BY <2>1, OneFrame
<1>3. CASE FinishOperation
  BY <1>3, OneFinish
<1>4. CASE RefuseAnswer
  BY <1>4, OneRefuse
<1>5. CASE TriggerSingle
  <2>1. /\ job' = job /\ revision' = revision /\ store' = store /\ workload' = workload
        /\ ready' = ready /\ device'["run"] = "stop"
    BY <1>5, TriggerKeeps DEF TriggerSingle
  <2> QED
    BY <2>1, OneFrame
<1>6. CASE Resume
  BY <1>6, OneResume
<1>7. CASE \E i \in DOMAIN timers : Expire(i)
  BY <1>7, OneExpire
<1>8. CASE UNCHANGED controllerVars
  <2>1. /\ job' = job /\ revision' = revision /\ store' = store /\ workload' = workload
        /\ ready' = ready /\ device' = device
    BY <1>8 DEF controllerVars
  <2> QED
    BY <2>1, OneFrame
<1> QED
  BY <1>1, <1>2, <1>3, <1>4, <1>5, <1>6, <1>7, <1>8 DEF ControllerNext

\* A write of the scale or the mode finds the acquisition stopped.
LEMMA StoppedForWrite ==
  ASSUME CInv, OneInv, FinishOperation
  PROVE  WrittenStopped
<1> SUFFICES ASSUME OneAtATime, NEW p \in {"scale", "mode"}, device'[p] # device[p]
             PROVE  device["run"] = "stop"
  BY DEF WrittenStopped
<1> DEFINE q == active[1]
<1>1. device' = Performed(q) /\ active # <<>>
  BY DEF FinishOperation
<1>2. q \in Entries
  BY <1>1, WaitingFor
<1>3. q.cmd = "mode" \/ (q.cmd = "write" /\ q.prop = "scale")
  BY <1>1, <1>2, PerformedIs DEF CInv, Typed
<1>4. PICK c \in Callers : c \in By(q)
  BY <1>1, WaitingFor
<1>5. job[c] \in Jobs /\ job[c] # Free /\ StageFits(job[c]) /\ Expects(job[c], q)
  BY <1>1, <1>4, WaitingFor
<1> HIDE DEF q
<1> DEFINE b == job[c]
<1>6. b.at \in {"mode", "write"} /\ b.request.prop = "scale"
  <2>1. CASE q.cmd = "mode"
    <3>1. b.at = "mode" \/ (b.at = "action" /\ b.request.prop = "mode")
      BY <1>5, <2>1 DEF Expects
    <3>2. b.at = "mode"
      BY <1>5, <3>1 DEF StageFits
    <3> QED
      BY <1>5, <3>2 DEF StageFits
  <2>2. CASE q.cmd = "write" /\ q.prop = "scale"
    <3>1. (b.at = "write" /\ q.prop = b.request.prop)
            \/ (b.at = "action" /\ b.request.prop = "write")
      BY <1>5, <2>2 DEF Expects
    <3> QED
      BY <1>5, <2>2, <3>1 DEF StageFits
  <2> QED
    BY <1>3, <2>1, <2>2
<1>7. RunKnown(c) /\ StopShown /\ Alone
  BY <1>5 DEF OneInv
<1>8. CASE b.restart
  BY <1>6, <1>7, <1>8 DEF RunKnown
<1>9. CASE ~b.restart
  <2>1. store["run"] = "stop"
    BY <1>6, <1>7, <1>9 DEF RunKnown
  <2>2. \A d \in Callers : job[d].at \notin RunStages
    <3>1. \A d \in Callers : job[d] = Free \/ d = c
      BY <1>5, <1>7 DEF Alone
    <3>2. Free.at \notin RunStages /\ b.at \notin RunStages
      BY <1>6 DEF Free, RunStages
    <3> QED
      BY <3>1, <3>2
  <2> QED
    BY <1>7, <2>1, <2>2 DEF StopShown
<1> QED
  BY <1>8, <1>9

LEMMA WrittenStoppedNext ==
  ASSUME CInv, OneInv, [ControllerNext]_controllerVars
  PROVE  WrittenStopped
<1>1. CASE \E c \in Callers : \E r \in workload.requests : Begin(c, r)
  BY <1>1 DEF Begin, WrittenStopped
<1>2. CASE StartOperation
  BY <1>2 DEF StartOperation, WrittenStopped
<1>3. CASE FinishOperation
  BY <1>3, StoppedForWrite
<1>4. CASE RefuseAnswer
  BY <1>4 DEF RefuseAnswer, WrittenStopped
<1>5. CASE TriggerSingle
  BY <1>5, TriggerKeeps DEF WrittenStopped
<1>6. CASE Resume
  BY <1>6 DEF Resume, WrittenStopped
<1>7. CASE \E i \in DOMAIN timers : Expire(i)
  BY <1>7 DEF Expire, WrittenStopped
<1>8. CASE UNCHANGED controllerVars
  BY <1>8 DEF controllerVars, WrittenStopped
<1> QED
  BY <1>1, <1>2, <1>3, <1>4, <1>5, <1>6, <1>7, <1>8 DEF ControllerNext

ControllerInv == CInv /\ RunInv /\ OneInv

LEMMA ControllerInvHolds == ControllerSpec => []ControllerInv
<1>1. ControllerInit => ControllerInv
  BY CInvInit, RunInit, OneInit DEF ControllerInv
<1>2. ControllerInv /\ [ControllerNext]_controllerVars => ControllerInv'
  BY CInvNext, RunNext, OneNext DEF ControllerInv
<1> QED
  BY <1>1, <1>2, PTL DEF ControllerSpec

\* Timebase changes leave a running scope running, however they overlap and
\* whatever the scope refuses, and a scope that serves one request at a time
\* has its scale and its mode written only while it is stopped
\* (writeRollTimebaseControl).
THEOREM RunIsKept == ControllerSpec => TimebaseKeepsRun
<1>1. ControllerInv /\ RunRestored' /\ [ControllerNext]_controllerVars
        => [WrittenStopped /\ RunRestored']_controllerVars
  BY WrittenStoppedNext DEF ControllerInv
<1>2. ControllerInv => RunRestored
  BY RunRestoredHolds DEF ControllerInv
<1> QED
  BY <1>1, <1>2, ControllerInvHolds, PTL DEF ControllerSpec, TimebaseKeepsRun

LEMMA AtMostOne ==
  ASSUME NEW S, \A x, y \in S : x = y
  PROVE  Cardinality(S) = IF S = {} THEN 0 ELSE 1
<1>1. CASE S = {}
  BY <1>1, FS_EmptySet
<1>2. CASE S # {}
  <2>1. PICK x : x \in S
    BY <1>2
  <2>2. S = {x}
    BY <2>1
  <2> QED
    BY <1>2, <2>2, FS_Singleton
<1> QED
  BY <1>1, <1>2

LEMMA ContainsIsBy ==
  ASSUME NEW q \in Entries, NEW c
  PROVE  Contains(q.by, c) <=> c \in By(q)
<1>1. q.by \in Seq(Callers) /\ DOMAIN q.by = 1 .. Len(q.by)
  BY LenProperties DEF Entries
<1> QED
  BY <1>1 DEF Contains, By

\* A request in flight waits in exactly one place.
LEMMA OnePlace ==
  ASSUME CInv, NEW c \in Callers, job[c] # Free
  PROVE  Cardinality({i \in DOMAIN pending : Contains(pending[i].by, c)})
         + Cardinality({i \in DOMAIN active : Contains(active[i].by, c)})
         + Cardinality({i \in DOMAIN ready : ready[i].by = c})
         + Cardinality({i \in DOMAIN timers : timers[i].by = c}) = 1
<1> DEFINE P == {i \in DOMAIN pending : Contains(pending[i].by, c)}
           A == {i \in DOMAIN active : Contains(active[i].by, c)}
           R == {i \in DOMAIN ready : ready[i].by = c}
           T == {i \in DOMAIN timers : timers[i].by = c}
<1>1. /\ Work(pending, job) /\ Work(active, job) /\ Once(ready) /\ Once(timers)
      /\ \A i \in DOMAIN pending, k \in DOMAIN active : Separate(pending[i], active[k])
      /\ \A i \in DOMAIN ready : /\ job[ready[i].by].at \in AnswerStages
                                 /\ Apart(pending, ready[i].by) /\ Apart(active, ready[i].by)
      /\ \A i \in DOMAIN timers : /\ job[timers[i].by].at = timers[i].at
                                  /\ timers[i].at \in TimerStages
  BY DEF CInv, Accounts, Ledger
<1>2. ~Unheld(c, pending, active, ready, timers)
  BY DEF CInv, Accounts, NoneForgotten
<1>3. \A i \in DOMAIN pending : i \in P <=> c \in By(pending[i])
  <2>1. \A i \in DOMAIN pending : pending[i] \in Entries
    BY ElementOfSeq DEF CInv, Typed
  <2> QED
    BY <2>1, ContainsIsBy
<1>4. \A i \in DOMAIN active : i \in A <=> c \in By(active[i])
  <2>1. \A i \in DOMAIN active : active[i] \in Entries
    BY DEF CInv, Typed
  <2> QED
    BY <2>1, ContainsIsBy
<1>5. P \subseteq DOMAIN pending /\ A \subseteq DOMAIN active
  OBVIOUS
<1>6. \A i \in DOMAIN ready : i \in R <=> ready[i].by = c
  OBVIOUS
<1>7. \A i \in DOMAIN timers : i \in T <=> timers[i].by = c
  OBVIOUS
<1>8. R \subseteq DOMAIN ready /\ T \subseteq DOMAIN timers
  OBVIOUS
<1> HIDE DEF P, A, R, T
<1>9. (\A x, y \in P : x = y) /\ (\A x, y \in A : x = y)
  BY <1>1, <1>3, <1>4, <1>5 DEF Work, Separate
<1>10. (\A x, y \in R : x = y) /\ (\A x, y \in T : x = y)
  BY <1>1, <1>6, <1>7, <1>8 DEF Once
<1>11. /\ Cardinality(P) = IF P = {} THEN 0 ELSE 1
       /\ Cardinality(A) = IF A = {} THEN 0 ELSE 1
       /\ Cardinality(R) = IF R = {} THEN 0 ELSE 1
       /\ Cardinality(T) = IF T = {} THEN 0 ELSE 1
  BY <1>9, <1>10, AtMostOne
<1>12. P # {} \/ A # {} \/ R # {} \/ T # {}
  BY <1>2, <1>3, <1>4, <1>6, <1>7 DEF Unheld, Apart
<1>13. P = {} \/ A = {}
  BY <1>1, <1>3, <1>4, <1>5 DEF Separate
<1>14. R # {} => P = {} /\ A = {}
  BY <1>1, <1>3, <1>4, <1>5, <1>6, <1>8 DEF Apart
<1>15. R # {} => job[c].at \in AnswerStages
  BY <1>1, <1>6, <1>8
<1>16. T # {} => job[c].at \in TimerStages
  BY <1>1, <1>7, <1>8
<1>17. P # {} => job[c].at \in AnswerStages
  BY <1>1, <1>3, <1>5, ExpectsAnswer DEF Apart
<1>18. A # {} => job[c].at \in AnswerStages
  BY <1>1, <1>4, <1>5, ExpectsAnswer DEF Apart
<1>19. T # {} => P = {} /\ A = {} /\ R = {}
  BY <1>15, <1>16, <1>17, <1>18 DEF AnswerStages, TimerStages
<1>20. Cardinality(P) + Cardinality(A) + Cardinality(R) + Cardinality(T) = 1
  BY <1>11, <1>12, <1>13, <1>14, <1>19
<1> QED
  BY <1>20 DEF P, A, R, T

\* Settings and run states stay of their kinds and the counters in their
\* bounds, and every request in flight waits for exactly one operation, answer
\* or timer: none is forgotten by the scheduler or answered twice when a write
\* takes over the waiters of the one it makes stale (enqueue and
\* removePendingInteractive in scpi-scheduler.ts).
THEOREM ControllerTypeCorrect == ControllerSpec => []ControllerTypeOK
<1>1. ASSUME CInv PROVE ControllerTypeOK
  <2>1. /\ \A p \in ControlSettings \ {"mode"} : store[p] \in Values /\ device[p] \in Values
        /\ store["mode"] \in {0, 1} /\ device["mode"] \in {0, 1}
        /\ store["run"] \in Actions /\ device["run"] \in Actions
    BY <1>1 DEF CInv, Typed, States
  <2>2. workload.total \in Nat /\ workload.refusals \in Nat
    BY <1>1, WorkloadIs DEF CInv, Typed
  <2>3. revision \in 0 .. workload.total /\ failures \in 0 .. workload.refusals
    BY <1>1, <2>2 DEF CInv, Typed
  <2> QED
    BY <1>1, <2>1, <2>3, OnePlace DEF ControllerTypeOK
<1>2. ControllerInv => ControllerTypeOK
  BY <1>1 DEF ControllerInv
<1> QED
  BY <1>2, ControllerInvHolds, PTL

-----------------------------------------------------------------------------
(* What is shown, what the scope has and what was last asked.              *)

LEMMA PlainIs ==
  /\ Plain = {"scale", "position", "sweep", "level"} /\ Plain \subseteq AllProps
  /\ "mode" \notin Plain /\ "run" \notin Plain /\ Trigger \subseteq Plain
  /\ \A p \in ControlSettings : p \in Plain \/ p = "mode"
  /\ \A p \in AllProps : p \in ControlSettings \/ p = "run"
  /\ \A p \in Plain : p \in ControlSettings
  /\ "run" \notin ControlSettings /\ "mode" \in ControlSettings
  /\ "mode" \in AllProps /\ "run" \in AllProps
BY DEF Plain, ControlSettings, Horizontal, Trigger, AllProps

LEMMA PerformedSettings ==
  ASSUME NEW o \in Entries, device \in States, NEW p \in ControlSettings
  PROVE  /\ o.cmd = "write" => Performed(o)[p] = IF p = o.prop THEN Coerce[o.value] ELSE device[p]
         /\ o.cmd = "mode" => Performed(o)[p] = IF p = "mode" THEN o.value ELSE device[p]
         /\ o.cmd \notin {"write", "mode"} => Performed(o)[p] = device[p]
<1>1. DOMAIN device = AllProps /\ p \in AllProps /\ p # "run" /\ "mode" \in AllProps
      /\ "run" \in AllProps
  BY PlainIs DEF States, AllProps
<1>2. CASE o.cmd = "write"
  <2>1. Performed(o) = [device EXCEPT ![o.prop] = Coerce[o.value]]
    BY <1>2 DEF Performed
  <2>2. o.prop \in AllProps
    BY DEF Entries
  <2> QED
    BY <1>1, <1>2, <2>1, <2>2
<1>3. CASE o.cmd = "mode"
  <2>1. Performed(o) = [device EXCEPT !["mode"] = o.value]
    BY <1>3 DEF Performed
  <2> QED
    BY <1>1, <1>3, <2>1
<1>4. CASE o.cmd \notin {"write", "mode"}
  <2>1. Performed(o) = [device EXCEPT !["run"] = o.cmd] \/ Performed(o) = device
    BY <1>4 DEF Performed
  <2> QED
    BY <1>1, <1>4, <2>1
<1> QED
  BY <1>2, <1>3, <1>4

LEMMA TriggerSettings ==
  ASSUME CInv, TriggerSingle, NEW p \in ControlSettings
  PROVE  device'[p] = device[p]
<1>1. device' = [device EXCEPT !["run"] = "stop"] /\ DOMAIN device = AllProps
  BY DEF TriggerSingle, CInv, Typed, States
<1> QED
  BY <1>1, PlainIs

LEMMA BegunAnew ==
  ASSUME NEW r, NEW s, NEW at
  PROVE  ~[Begun(r, s) EXCEPT !.at = at].failed
<1> DEFINE x == Restarts(r, s)
           y == Crossing(r, s)
           n == revision'
           b0 == Begun(r, s)
<1>1. b0 = [request |-> r, revision |-> n, restart |-> x, crossing |-> y,
            failed |-> FALSE, at |-> "begin"]
  BY DEF Begun
<1> HIDE DEF x, y, n, b0
<1>2. ~[b0 EXCEPT !.at = at].failed
  BY <1>1
<1> QED
  BY <1>2 DEF b0

\* What a new request shows.
LEMMA BeginShows ==
  ASSUME CInv, asked \in States, NEW c \in Callers, NEW r \in workload.requests, Begin(c, r)
  PROVE  /\ asked' \in States
         /\ r.kind \in Kinds =>
              \A p \in AllProps : /\ store'[p] = (IF p = r.prop THEN r.value ELSE store[p])
                                  /\ asked'[p] = (IF p = r.prop THEN r.value ELSE asked[p])
         /\ r.kind = "action" =>
              store' = store /\ \A p \in ControlSettings : asked'[p] = asked[p]
         /\ ~job'[c].failed
         /\ r.kind \in Kinds =>
              /\ job'[c].crossing = Crossing(r, store')
              /\ job'[c].at = "write" => ~job'[c].crossing
<1>1. /\ r \in Requests /\ job \in [Callers -> {Free} \cup Jobs] /\ store \in States
      /\ revision \in Nat
  BY WorkloadIs DEF CInv, Typed
<1>2. revision' = revision + 1 /\ (BeginControl(c, r) \/ BeginAction(c, r))
  BY DEF Begin
<1>3. DOMAIN store = AllProps /\ DOMAIN asked = AllProps
  BY <1>1 DEF States
<1>4. store' \in States
  BY BeginStarts DEF Starts
<1>5. CASE BeginControl(c, r)
  <2>1. /\ r.kind \in Kinds /\ r.kind # "action"
        /\ r.prop \in {"scale", "position", "sweep", "level"} /\ r.value \in Values
    BY <1>1, <1>5, RequestFields DEF BeginControl, Kinds
  <2>2. /\ store' = [store EXCEPT ![r.prop] = r.value]
        /\ asked' = [asked EXCEPT ![r.prop] = r.value]
    BY <1>5 DEF BeginControl, ApplyOptimisticControl
  <2>3. r.prop \in Plain /\ r.prop \in AllProps
    BY <2>1, PlainIs
  <2>4. \A p \in AllProps : /\ store'[p] = (IF p = r.prop THEN r.value ELSE store[p])
                            /\ asked'[p] = (IF p = r.prop THEN r.value ELSE asked[p])
    BY <1>3, <2>2
  <2>5. asked' \in States
    <3>1. asked \in [AllProps -> Values \cup {0, 1} \cup Actions]
          /\ (\A p \in ControlSettings \ {"mode"} : asked[p] \in Values)
          /\ asked["mode"] \in {0, 1} /\ asked["run"] \in Actions
      BY DEF States
    <3>2. asked' \in [AllProps -> Values \cup {0, 1} \cup Actions]
      BY <2>1, <2>2, <2>3, <3>1
    <3>3. \A p \in ControlSettings \ {"mode"} : asked'[p] \in Values
      BY <2>1, <2>4, <3>1, PlainIs DEF Plain
    <3>4. asked'["mode"] = asked["mode"] /\ asked'["run"] = asked["run"]
      BY <2>3, <2>4, PlainIs
    <3> QED
      BY <3>1, <3>2, <3>3, <3>4 DEF States
  <2> DEFINE at == FirstCommand(r, store')[2]
             b == [Begun(r, store') EXCEPT !.at = at]
  <2>6. job' = [job EXCEPT ![c] = b]
    BY <1>5 DEF BeginControl
  <2>7. at \in {"stopping", "mode", "write"} /\ (at = "write" => ~Crossing(r, store'))
    BY DEF FirstCommand
  <2> HIDE DEF at
  <2>8. at \in AnswerStages
    BY <2>7 DEF AnswerStages
  <2>9. b.at = at /\ b.crossing = Crossing(r, store') /\ ~b.failed
    <3>1. ~b.failed
      BY BegunAnew
    <3>3. revision \in Nat /\ revision' = revision + 1
      BY <1>1, <1>2
    <3>2. /\ b \in Jobs /\ b.at = at /\ b.request = r /\ b.revision = revision + 1
          /\ b.restart = Restarts(r, store') /\ b.crossing = Crossing(r, store')
      BY <1>1, <1>4, <2>8, <3>3, BegunIs
    <3> QED
      BY <3>1, <3>2
  <2>10. job'[c] = b
    BY <1>1, <2>6
  <2> QED
    BY <2>1, <2>4, <2>5, <2>7, <2>9, <2>10
<1>6. CASE BeginAction(c, r)
  <2>1. r.kind = "action" /\ r.kind \notin Kinds /\ r.prop \in Actions /\ store' = store
        /\ asked' = [asked EXCEPT !["run"] = r.prop]
    BY <1>1, <1>6, RequestFields DEF BeginAction, Kinds
  <2>2. \A p \in ControlSettings : asked'[p] = asked[p]
    BY <1>3, <2>1, PlainIs
  <2>3. asked' \in States
    <3>1. asked \in [AllProps -> Values \cup {0, 1} \cup Actions]
          /\ (\A p \in ControlSettings \ {"mode"} : asked[p] \in Values)
          /\ asked["mode"] \in {0, 1}
      BY DEF States
    <3>2. asked' \in [AllProps -> Values \cup {0, 1} \cup Actions] /\ asked'["run"] = r.prop
      BY <2>1, <3>1, PlainIs
    <3> QED
      BY <2>1, <2>2, <3>1, <3>2, PlainIs DEF States
  <2> DEFINE at == IF r.prop = "single" THEN "single-mode" ELSE "action"
             b == [Begun(r, store) EXCEPT !.at = at]
  <2>4. job' = [job EXCEPT ![c] = b]
    BY <1>6 DEF BeginAction
  <2>5. at \in AnswerStages
    BY DEF AnswerStages
  <2> HIDE DEF at
  <2>6. ~b.failed
    BY BegunAnew
  <2>7. job'[c] = b
    BY <1>1, <2>4
  <2> QED
    BY <2>1, <2>2, <2>3, <2>6, <2>7
<1> QED
  BY <1>2, <1>5, <1>6

\* Where what is shown comes from when a request goes on.
LEMMA AppliedSettings ==
  ASSUME NEW c, NEW S, NEW s, store \in States, ApplyReconciledUpdate(c, S, s),
         NEW p \in AllProps
  PROVE  /\ store'[p] = store[p] \/ (p \in S /\ job[c].revision = revision /\ store'[p] = s[p])
         /\ p \in S /\ job[c].revision = revision => store'[p] = s[p]
<1>1. DOMAIN store = AllProps
  BY DEF States
<1>2. CASE job[c].revision # revision
  BY <1>2 DEF ApplyReconciledUpdate
<1>3. CASE job[c].revision = revision
  BY <1>1, <1>3 DEF ApplyReconciledUpdate
<1> QED
  BY <1>2, <1>3

\* The settings an answer at step "at" of a request is about.
Answering(b) ==
  IF b.at = "read" THEN Group(b.request.prop)
  ELSE IF b.at = "single-mode" THEN Horizontal
  ELSE IF b.at = "read-run" THEN {"run"}
  ELSE {}

LEMMA ContinueShows ==
  ASSUME NEW c \in Callers, NEW ok \in BOOLEAN, NEW s \in States, InFlight(c),
         Continue(c, ok, s), NEW p \in AllProps
  PROVE  /\ \/ store'[p] = store[p]
            \/ /\ store'[p] = s[p] /\ ok /\ job[c].revision = revision
               /\ p \in Answering(job[c])
            \/ job[c].at = "action" /\ p = "run"
         /\ ok /\ job[c].revision = revision /\ p \in Answering(job[c]) => store'[p] = s[p]
<1>1. store \in States
  BY DEF InFlight
<1>2. CASE /\ UNCHANGED store
           /\ job[c].at \in {"stopping", "mode", "write", "check", "running", "single"}
  BY <1>2 DEF Answering
<1>3. CASE job[c].at = "read" /\ ReadBack(c, ok, s)
  <2>1. /\ ~ok => store' = store
        /\ ok => ApplyReconciledUpdate(c, Group(job[c].request.prop), s)
    BY <1>3 DEF ReadBack
  <2> QED
    BY <1>1, <1>3, <2>1, AppliedSettings DEF Answering
<1>4. CASE job[c].at = "single-mode" /\ SingleMode(c, ok, s)
  <2>1. /\ ~ok => store' = store
        /\ ok => ApplyReconciledUpdate(c, Horizontal, s)
    BY <1>4 DEF SingleMode
  <2> QED
    BY <1>1, <1>4, <2>1, AppliedSettings DEF Answering
<1>5. CASE job[c].at = "read-run" /\ RunRead(c, ok, s)
  <2>1. /\ ~ok => store' = store
        /\ ok => ApplyReconciledUpdate(c, {"run"}, s)
    BY <1>5 DEF RunRead
  <2> QED
    BY <1>1, <1>5, <2>1, AppliedSettings DEF Answering
<1>6. CASE job[c].at = "action" /\ ActionDone(c)
  <2>1. ApplyReconciledUpdate(c, {"run"}, [run |-> job[c].request.prop])
    BY <1>6 DEF ActionDone
  <2> QED
    BY <1>1, <1>6, <2>1, AppliedSettings DEF Answering
<1> QED
  BY <1>2, <1>3, <1>4, <1>5, <1>6 DEF Continue

\* Accepted, a request does not fail, and reads back in the end what it must.
LEMMA ContinueEnds ==
  ASSUME NEW c \in Callers, NEW s, InFlight(c), Continue(c, TRUE, s), ~job[c].failed
  PROVE  /\ job'[c] # Free => ~job'[c].failed
         /\ job'[c] = Free /\ job[c].request.prop = "scale" /\ ReadsBack(job[c].request)
              => job[c].at = "read"
         /\ job'[c] = Free /\ ReadsBack(job[c].request) => job[c].at \in {"read", "read-run"}
<1> DEFINE b == job[c]
<1>1. b \in Jobs /\ StageFits(b) /\ job \in [Callers -> {Free} \cup Jobs]
  BY DEF InFlight
<1>2. ASSUME NEW at, [b EXCEPT !.at = at] \in Jobs PROVE ~[b EXCEPT !.at = at].failed
  BY <1>1, <1>2 DEF Jobs
<1>3. ASSUME NEW at \in AnswerStages \cup TimerStages, job' = [job EXCEPT ![c].at = at]
      PROVE  job'[c] # Free /\ ~job'[c].failed
  <2> DEFINE b2 == [b EXCEPT !.at = at]
  <2>1. b2 \in Jobs /\ b2.failed = b.failed
    BY <1>1, StageChanged
  <2> HIDE DEF b2
  <2>2. job'[c] = b2
    BY <1>1, <1>3 DEF b2
  <2> QED
    BY <2>1, <2>2, FreeIsNoJob
<1>4. ASSUME NEW o, NEW at \in AnswerStages, Send(c, o, at)
      PROVE  job'[c] # Free /\ ~job'[c].failed
  BY <1>3, <1>4 DEF Send
<1>5. ASSUME NEW at \in TimerStages, Delay(c, at) PROVE job'[c] # Free /\ ~job'[c].failed
  BY <1>3, <1>5 DEF Delay
<1>6. /\ "write" \in AnswerStages /\ "check" \in AnswerStages /\ "read" \in AnswerStages
      /\ "single" \in AnswerStages /\ "read-run" \in AnswerStages
      /\ "settle" \in TimerStages /\ "rest" \in TimerStages /\ "running" \in AnswerStages
  BY DEF AnswerStages, TimerStages
<1>7. ASSUME Finish(c) PROVE job'[c] = Free
  BY <1>1, <1>7 DEF Finish
<1>8. ASSUME AfterWrite(c)
      PROVE  /\ job'[c] = Free \/ ~job'[c].failed
             /\ ReadsBack(b.request) => job'[c] # Free
  BY <1>4, <1>6, <1>7, <1>8 DEF AfterWrite
<1>9. CASE b.at = "stopping" /\ Delay(c, "settle")
  BY <1>5, <1>6, <1>9
<1>10. CASE b.at = "mode" /\ Send(c, WriteCommand(b.request), "write")
  BY <1>4, <1>6, <1>10
<1>11. CASE b.at = "write" /\ Written(c)
  BY <1>4, <1>6, <1>8, <1>11 DEF Written
<1>12. CASE b.at = "check" /\ Checked(c, TRUE)
  <2>1. CASE b.restart /\ Restart(c, TRUE)
    <3> DEFINE b1 == [b EXCEPT !.at = "running"]
               b2 == [b1 EXCEPT !.failed = FALSE]
    <3>1. job' = [job EXCEPT ![c].at = "running", ![c].failed = FALSE]
      BY <2>1 DEF Restart
    <3>2. job'[c] = b2
      BY <1>1, <3>1
    <3>3. b1 \in Jobs
      BY <1>1, <1>6, StageChanged
    <3> HIDE DEF b1
    <3>4. b2 \in Jobs /\ ~b2.failed
      BY <3>3 DEF Jobs
    <3> QED
      BY <3>2, <3>4, FreeIsNoJob
  <2>2. CASE AfterWrite(c)
    BY <1>8, <2>2
  <2> QED
    BY <1>12, <2>1, <2>2 DEF Checked
<1>13. CASE b.at = "running" /\ IF b.failed THEN Finish(c) ELSE Delay(c, "rest")
  BY <1>5, <1>6, <1>13
<1>14. CASE /\ b.at = "single"
            /\ Send(c, Operation("readrun", "run", 0, Immediate, FALSE), "read-run")
  BY <1>4, <1>6, <1>14
<1>15. CASE b.at = "read" /\ ReadBack(c, TRUE, s)
  BY <1>4, <1>6, <1>7, <1>15 DEF ReadBack
<1>16. ReadsBack(b.request) => b.request.kind # "action"
  BY DEF ReadsBack
<1>17. CASE b.at = "single-mode" /\ SingleMode(c, TRUE, s)
  <2>1. ~ReadsBack(b.request)
    BY <1>1, <1>16, <1>17 DEF StageFits
  <2> QED
    BY <1>4, <1>6, <1>7, <1>17, <2>1 DEF SingleMode
<1>18. CASE b.at = "read-run" /\ RunRead(c, TRUE, s)
  <2>1. b.request.prop # "scale" \/ ~ReadsBack(b.request)
    BY <1>1, <1>16, <1>18 DEF StageFits
  <2> QED
    BY <1>7, <1>18, <2>1 DEF RunRead
<1>19. CASE b.at = "action" /\ ActionDone(c)
  <2>1. ~ReadsBack(b.request)
    BY <1>1, <1>16, <1>19 DEF StageFits
  <2> QED
    BY <1>7, <1>19, <2>1 DEF ActionDone
<1> QED
  BY <1>9, <1>10, <1>11, <1>12, <1>13, <1>14, <1>15, <1>17, <1>18, <1>19 DEF Continue


-----------------------------------------------------------------------------
(* One request at a time: what every step finds.                           *)

\* What an operation in the scheduler has of the requests that wait for it.
Carried(q, j) ==
  \A k \in DOMAIN q.by :
    /\ q.cmd = "write" => q.value = j[q.by[k]].request.value
    /\ q.cmd = "mode" => q.value = TargetMode(j[q.by[k]].request.value)

\* The only request goes on.
GoesAlone(c, t, t2) ==
  /\ InFlight(c) /\ Moves(c, t, t2)
  /\ \A d \in Callers : d # c => job[d] = Free /\ job'[d] = Free
  /\ job[c].revision = revision
  /\ job[c].at \in AnswerStages => InReady(c)
  /\ DOMAIN ready' = {} /\ DOMAIN pending = {} /\ DOMAIN active = {}
  /\ workload' = workload /\ device' = device /\ revision' = revision
  /\ active' = active /\ asked' = asked

LEMMA NoneWaits ==
  ASSUME NEW p, NEW j, NEW c, Work(p, j), Apart(p, c),
         \A d \in Callers : d # c => j[d] = Free
  PROVE  DOMAIN p = {}
<1>1. ASSUME NEW i \in DOMAIN p PROVE FALSE
  <2>1. Fits(p[i], j) /\ c \notin By(p[i])
    BY DEF Work, Apart
  <2>2. PICK k \in DOMAIN p[i].by : TRUE
    BY <2>1 DEF Fits
  <2>3. p[i].by[k] \in Callers /\ j[p[i].by[k]] \in Jobs /\ p[i].by[k] # c
    BY <2>1 DEF Fits, Expects, By
  <2> QED
    BY <2>3, FreeIsNoJob
<1> QED
  BY <1>1

LEMMA SentCarried ==
  ASSUME NEW o \in Entries, NEW c \in Callers, NEW j, pending \in Seq(Entries),
         DOMAIN pending = {}, Carries(j[c].request, o)
  PROVE  \A i \in DOMAIN Enqueued(o, c) : Carried(Enqueued(o, c)[i], j)
<1>1. ~HasStale(o)
  BY DEF HasStale
<1>2. PICK q : q = [o EXCEPT !.by = <<c>>]
  OBVIOUS
<1>3. q \in Entries /\ q.cmd = o.cmd /\ q.by = <<c>>
  BY <1>2, SentAlone
<1>4. q.value = o.value
  BY <1>2 DEF Entries
<1>5. Enqueued(o, c) = Append(pending, q)
  BY <1>1, <1>2 DEF Enqueued, WaitersOf
<1>6. Carried(q, j)
  <2>1. \A k \in DOMAIN q.by : q.by[k] = c
    BY <1>3
  <2> QED
    BY <1>3, <1>4, <2>1 DEF Carried, Carries
<1>7. \A i \in DOMAIN Append(pending, q) : Append(pending, q)[i] = q
  <2>1. Len(pending) = 0
    BY AppendIs, <1>3
  <2> QED
    BY <1>3, <2>1, AppendIs
<1> QED
  BY <1>5, <1>6, <1>7

LEMMA OneResumed ==
  ASSUME CInv, OneInv, OneAtATime, Resume
  PROVE  \E c \in Callers, s \in States :
           /\ GoesAlone(c, timers, timers') /\ Continue(c, TRUE, s)
           /\ \E i \in DOMAIN ready : ready[i].by = c /\ ready[i].answer.state = s
<1>1. /\ ready # <<>> /\ ready' = Tail(ready) /\ GoesOn(ready[1].by)
      /\ UNCHANGED <<workload, device, revision, active, asked, failures>>
  BY ResumeMoves
<1>2. /\ ready[1].by \in Callers /\ InFlight(ready[1].by) /\ 1 \in DOMAIN ready
      /\ ready[1].answer.ok \in BOOLEAN /\ ready[1].answer.state \in States
      /\ Unheld(ready[1].by, pending, active, Tail(ready), timers)
  BY <1>1, ResumedIs
<1>3. PICK c \in Callers, s \in States : c = ready[1].by /\ s = ready[1].answer.state
  BY <1>2
<1>4. ready[1].answer.ok = TRUE
  BY <1>2 DEF OneInv
<1>5. Continue(c, TRUE, s)
  BY <1>3, <1>4 DEF Resume
<1>6. PICK u : u = Tail(ready)
  OBVIOUS
<1>7. InFlight(c) /\ Unheld(c, pending, active, u, timers) /\ Moves(c, timers, timers')
  BY <1>1, <1>2, <1>3, <1>6 DEF GoesOn
<1>8. job[c] # Free /\ Alone /\ RunKnown(c)
  BY <1>7, FreeIsNoJob DEF InFlight, OneInv
<1>9. \A d \in Callers : d # c => job[d] = Free
  BY <1>8 DEF Alone
<1>10. \A d \in Callers : d # c => job'[d] = Free
  BY <1>7, <1>9 DEF Moves
<1>11. InReady(c) /\ \E i \in DOMAIN ready : ready[i].by = c /\ ready[i].answer.state = s
  BY <1>2, <1>3 DEF InReady
<1>12. DOMAIN pending = {} /\ DOMAIN active = {}
  BY <1>7, <1>9, NoneWaits DEF CInv, Accounts, Ledger, Unheld
<1>13. DOMAIN ready' = {}
  <2>1. ASSUME NEW i \in DOMAIN u PROVE FALSE
    <3>1. i + 1 \in DOMAIN ready /\ u[i] = ready[i + 1]
      BY <1>1, <1>6, TailIs DEF CInv, Typed
    <3>2. ready[i + 1].by \in Callers /\ job[ready[i + 1].by] \in Jobs
      BY <3>1 DEF CInv, Accounts, Ledger
    <3>3. u[i].by # c
      BY <1>7 DEF Unheld
    <3> QED
      BY <1>9, <3>1, <3>2, <3>3, FreeIsNoJob
  <2> QED
    BY <1>1, <1>6, <2>1
<1>14. job[c].revision = revision
  BY <1>8 DEF RunKnown
<1>15. GoesAlone(c, timers, timers')
  BY <1>1, <1>7, <1>9, <1>10, <1>11, <1>12, <1>13, <1>14 DEF GoesAlone
<1> QED
  BY <1>5, <1>11, <1>15

LEMMA ExpireEnds ==
  ASSUME CInv, NEW i \in DOMAIN timers, Expire(i), ~job[timers[i].by].failed
  PROVE  /\ job'[timers[i].by] # Free => ~job'[timers[i].by].failed
         /\ job'[timers[i].by] = Free => ~ReadsBack(job[timers[i].by].request)
<1>1. /\ timers[i] \in Timers /\ InFlight(timers[i].by)
  BY ExpireMoves
<1>2. PICK c \in Callers : c = timers[i].by
  BY <1>1 DEF Timers
<1>3. Settled(c) \/ Rested(c)
  BY <1>2 DEF Expire
<1> DEFINE b == job[c]
<1>4. b \in Jobs /\ job \in [Callers -> {Free} \cup Jobs]
  BY <1>1, <1>2 DEF InFlight
<1>5. ASSUME NEW at \in AnswerStages, job' = [job EXCEPT ![c].at = at]
      PROVE  job'[c] # Free /\ ~job'[c].failed
  <2> DEFINE b2 == [b EXCEPT !.at = at]
  <2>1. b2 \in Jobs /\ b2.failed = b.failed
    BY <1>4, StageChanged
  <2> HIDE DEF b2
  <2>2. job'[c] = b2
    BY <1>4, <1>5 DEF b2
  <2> QED
    BY <1>2, <2>1, <2>2, FreeIsNoJob
<1>6. "mode" \in AnswerStages /\ "write" \in AnswerStages /\ "read" \in AnswerStages
  BY DEF AnswerStages
<1>7. CASE Settled(c)
  <2>1. job' = [job EXCEPT ![c].at = IF job[c].crossing THEN "mode" ELSE "write"]
    BY <1>7 DEF Settled
  <2>2. PICK at \in AnswerStages : job' = [job EXCEPT ![c].at = at]
    BY <1>6, <2>1
  <2> QED
    BY <1>2, <1>5, <2>2
<1>8. CASE Rested(c)
  <2>1. CASE ReadsBack(b.request)
    <3>1. job' = [job EXCEPT ![c].at = "read"]
      BY <1>8, <2>1 DEF Rested
    <3> QED
      BY <1>2, <1>5, <1>6, <3>1
  <2>2. CASE ~ReadsBack(b.request)
    <3>1. job' = [job EXCEPT ![c] = Free]
      BY <1>8, <2>2 DEF Rested
    <3> QED
      BY <1>2, <1>4, <2>2, <3>1
  <2> QED
    BY <2>1, <2>2
<1> QED
  BY <1>3, <1>7, <1>8

LEMMA OneExpired ==
  ASSUME CInv, OneInv, OneAtATime, NEW i \in DOMAIN timers, Expire(i)
  PROVE  /\ timers[i].by \in Callers /\ GoesAlone(timers[i].by, RemoveAt(timers, i), timers')
         /\ job[timers[i].by].at \in TimerStages /\ store' = store
<1>1. /\ timers[i] \in Timers /\ InFlight(timers[i].by) /\ ready = <<>>
      /\ Moves(timers[i].by, RemoveAt(timers, i), timers')
      /\ job[timers[i].by].at = timers[i].at
      /\ UNCHANGED <<workload, store, device, revision, active, ready, asked, failures>>
  BY ExpireMoves
<1>2. PICK c \in Callers : c = timers[i].by
  BY <1>1 DEF Timers
<1>3. PICK t : t = RemoveAt(timers, i)
  OBVIOUS
<1>4. InFlight(c) /\ Moves(c, t, timers') /\ job[c].at \in TimerStages
  BY <1>1, <1>2, <1>3 DEF Timers
<1>5. Unheld(c, pending, active, ready, t)
  BY <1>2, <1>3, LedgerExpired DEF CInv, Accounts, Typed
<1>6. job[c] # Free /\ Alone /\ RunKnown(c)
  BY <1>4, FreeIsNoJob DEF InFlight, OneInv
<1>7. \A d \in Callers : d # c => job[d] = Free
  BY <1>6 DEF Alone
<1>8. \A d \in Callers : d # c => job'[d] = Free
  BY <1>4, <1>7 DEF Moves
<1>9. DOMAIN pending = {} /\ DOMAIN active = {}
  BY <1>5, <1>7, NoneWaits DEF CInv, Accounts, Ledger, Unheld
<1>10. DOMAIN ready' = {}
  BY <1>1
<1>11. job[c].revision = revision /\ job[c].at \notin AnswerStages
  BY <1>4, <1>6 DEF RunKnown, TimerStages, AnswerStages
<1>12. GoesAlone(c, t, timers')
  BY <1>1, <1>4, <1>7, <1>8, <1>9, <1>10, <1>11 DEF GoesAlone
<1> QED
  BY <1>1, <1>2, <1>3, <1>4, <1>12

\* The only request begins.
BeginsAlone(c, r) ==
  /\ Starts(c, r)
  /\ \A d \in Callers : job[d] = Free
  /\ \A d \in Callers : d # c => job'[d] = Free
  /\ DOMAIN ready = {} /\ DOMAIN ready' = {} /\ DOMAIN pending = {} /\ DOMAIN active = {}
  /\ workload' = workload /\ device' = device /\ active' = active
  /\ job'[c].at \in {"action", "single-mode"} => r.kind = "action"

LEMMA OneBegins ==
  ASSUME CInv, OneInv, OneAtATime, NEW c \in Callers, NEW r \in workload.requests, Begin(c, r)
  PROVE  BeginsAlone(c, r)
<1>1. /\ Starts(c, r) /\ ready = <<>>
      /\ UNCHANGED <<workload, device, active, ready, timers, failures>>
  BY BeginStarts
<1>2. \A d \in Callers : job[d] = Free
  <2> DEFINE S == {d \in Callers : job[d] # Free}
  <2>1. S \in SUBSET Callers /\ Cardinality(S) < 1
    BY DEF Begin, OneAtATime
  <2> HIDE DEF S
  <2>2. S = {}
    BY <2>1, FewerThanOne
  <2> QED
    BY <2>2 DEF S
<1>3. \A d \in Callers : d # c => job'[d] = Free
  BY <1>1, <1>2 DEF Starts
<1>4. Unheld(c, pending, active, ready, timers)
  BY <1>2, FreeUnheld DEF CInv, Accounts
<1>5. DOMAIN pending = {} /\ DOMAIN active = {}
  BY <1>2, <1>4, NoneWaits DEF CInv, Accounts, Ledger, Unheld
<1>6. DOMAIN ready = {} /\ DOMAIN ready' = {}
  BY <1>1
<1>7. job'[c].at \in {"action", "single-mode"} => r.kind = "action"
  BY <1>1 DEF Starts, StageFits
<1> QED
  BY <1>1, <1>2, <1>3, <1>5, <1>6, <1>7 DEF BeginsAlone

-----------------------------------------------------------------------------
(* One request at a time: the settings that are shown, asked and had.      *)

Unwritten(c) ==
  \/ job[c].at \in {"stopping", "settle", "mode"}
  \/ job[c].at = "write" /\ ~InReady(c)

\* What is shown of the setting of the request of c, and what the scope has.
PlainKnown(c) ==
  LET b == job[c]
  IN  /\ ~b.failed
      /\ b.request.kind \in Kinds =>
           /\ asked[b.request.prop] = b.request.value
           /\ ~Unwritten(c) => device[b.request.prop] = Coerce[b.request.value]
           /\ b.at = "read-run" => store[b.request.prop] = device[b.request.prop]

Untouched(p) == \A c \in Callers : job[c] # Free => job[c].request.prop # p

\* Of a setting that no request is about, the scope has what it makes of the
\* value asked for, and if it was read back, so is what is shown.
PlainShown(p) ==
  /\ store[p] \in {asked[p], Coerce[asked[p]]}
  /\ Untouched(p) => /\ device[p] = Coerce[asked[p]]
                     /\ AlwaysReadBack(p) => store[p] = device[p]

ReadyIsNow ==
  \A i \in DOMAIN ready : job[ready[i].by].at \in {"read", "single-mode"} =>
    \A p \in ControlSettings : ready[i].answer.state[p] = device[p]

BusCarried(p) == \A i \in DOMAIN p : Carried(p[i], job)

PlainInv ==
  /\ asked \in States
  /\ OneAtATime =>
       /\ \A p \in Plain : PlainShown(p)
       /\ \A c \in Callers : job[c] # Free => PlainKnown(c)
       /\ ReadyIsNow /\ BusCarried(pending) /\ BusCarried(active)

LEMMA PlainInit == ControllerInit => PlainInv
<1> SUFFICES ASSUME ControllerInit PROVE PlainInv
  OBVIOUS
<1>1. /\ store = device /\ asked = device /\ DOMAIN ready = {} /\ DOMAIN pending = {}
      /\ DOMAIN active = {} /\ \A c \in Callers : job[c] = Free
  BY DEF ControllerInit
<1>2. device \in States
  BY CInvInit DEF CInv, Typed
<1>3. \A p \in Plain : device[p] = 0
  BY PlainIs DEF ControllerInit, AllProps
<1>4. \A p \in Plain : PlainShown(p)
  BY <1>1, <1>3, ControllerAssumption DEF PlainShown
<1> QED
  BY <1>1, <1>2, <1>4 DEF PlainInv, ReadyIsNow, BusCarried

LEMMA RequestOf ==
  ASSUME CInv, NEW c \in Callers, job[c] # Free
  PROVE  /\ job[c] \in Jobs /\ StageFits(job[c]) /\ job[c].request \in workload.requests
         /\ job[c].request \in Requests
         /\ job[c].request.kind \in Kinds \cup {"action"}
         /\ job[c].request.kind \in Kinds =>
              job[c].request.prop \in Plain /\ job[c].request.value \in Values
         /\ job[c].request.kind = "action" =>
              job[c].request.prop \in Actions /\ job[c].request.prop \notin Plain
<1>1. /\ job[c] \in Jobs /\ StageFits(job[c]) /\ job[c].request \in workload.requests
      /\ workload \in Workloads
  BY DEF CInv, Typed
<1>2. job[c].request \in Requests
  BY <1>1, WorkloadIs
<1>3. \A p \in Actions : p \notin Plain
  BY PlainIs DEF Actions
<1> QED
  BY <1>1, <1>2, <1>3, RequestFields, PlainIs

LEMMA PlainFrame ==
  ASSUME CInv, PlainInv, job' = job, store' = store, ready' = ready, asked' = asked,
         workload' = workload, \A p \in ControlSettings : device'[p] = device[p],
         OneAtATime => \A i \in DOMAIN pending' : Carried(pending'[i], job),
         OneAtATime => \A i \in DOMAIN active' : Carried(active'[i], job)
  PROVE  PlainInv'
<1> SUFFICES ASSUME OneAtATime' PROVE PlainInv'
  BY DEF PlainInv
<1>1. OneAtATime
  BY DEF OneAtATime
<1>2. asked' \in States
  BY DEF PlainInv
<1>3. \A p \in Plain : PlainShown(p)'
  BY <1>1, PlainIs DEF PlainInv, PlainShown, Untouched, AlwaysReadBack
<1>4. ASSUME NEW c \in Callers, job'[c] # Free PROVE PlainKnown(c)'
  <2>1. PlainKnown(c) /\ job'[c] = job[c] /\ (Unwritten(c)' <=> Unwritten(c))
    BY <1>1, <1>4 DEF PlainInv, Unwritten, InReady
  <2>2. job[c].request.kind \in Kinds => job[c].request.prop \in ControlSettings
    BY <1>4, RequestOf, PlainIs
  <2> QED
    BY <2>1, <2>2 DEF PlainKnown
<1>5. ReadyIsNow'
  BY <1>1 DEF PlainInv, ReadyIsNow
<1>6. BusCarried(pending)' /\ BusCarried(active)'
  BY <1>1 DEF BusCarried
<1> QED
  BY <1>2, <1>3, <1>4, <1>5, <1>6 DEF PlainInv

LEMMA PlainBegin ==
  ASSUME CInv, OneInv, PlainInv, NEW c \in Callers, NEW r \in workload.requests, Begin(c, r)
  PROVE  PlainInv'
<1>1. /\ asked' \in States
      /\ r.kind \in Kinds =>
           \A p \in AllProps : /\ store'[p] = (IF p = r.prop THEN r.value ELSE store[p])
                               /\ asked'[p] = (IF p = r.prop THEN r.value ELSE asked[p])
      /\ r.kind = "action" => store' = store /\ \A p \in ControlSettings : asked'[p] = asked[p]
      /\ ~job'[c].failed
  BY BeginShows DEF PlainInv
<1> SUFFICES ASSUME OneAtATime' PROVE PlainInv'
  BY <1>1 DEF PlainInv
<1>2. OneAtATime
  BY DEF Begin, OneAtATime
<1>3. BeginsAlone(c, r)
  BY <1>2, OneBegins
<1>4. /\ job'[c] \in Jobs /\ job'[c].request = r /\ device' = device /\ active' = active
      /\ job'[c].at \in {"stopping", "mode", "write", "action", "single-mode"}
      /\ job'[c].at \in {"action", "single-mode"} => r.kind = "action"
      /\ \A d \in Callers : job[d] = Free
      /\ \A d \in Callers : d # c => job'[d] = Free
      /\ DOMAIN ready' = {} /\ DOMAIN pending = {} /\ DOMAIN active = {}
  BY <1>3 DEF BeginsAlone, Starts
<1>5. job'[c] # Free
  BY <1>4, FreeIsNoJob
<1>6. r \in Requests
  BY WorkloadIs DEF CInv, Typed
<1>7. /\ r.kind \in Kinds \cup {"action"}
      /\ r.kind \in Kinds => r.prop \in Plain
      /\ r.kind = "action" => r.kind \notin Kinds
  BY <1>6, RequestFields, PlainIs DEF Kinds
<1>8. \A p \in Plain : PlainShown(p) /\ Untouched(p)
  BY <1>2, <1>4 DEF PlainInv, Untouched
<1>16. workload' = workload
  BY <1>3 DEF BeginsAlone
<1>9. ASSUME NEW p \in Plain PROVE PlainShown(p)'
  <2>0. p \in AllProps /\ (AlwaysReadBack(p)' => AlwaysReadBack(p))
    BY <1>16, PlainIs DEF AlwaysReadBack
  <2>1. CASE r.kind \in Kinds
    <3>1. Untouched(p)' => p # r.prop
      BY <1>4, <1>5 DEF Untouched
    <3> QED
      BY <1>1, <1>4, <1>8, <2>0, <2>1, <3>1 DEF PlainShown
  <2>2. CASE r.kind = "action"
    BY <1>1, <1>4, <1>8, <2>0, <2>2, PlainIs DEF PlainShown
  <2> QED
    BY <1>7, <2>1, <2>2
<1>10. PlainKnown(c)'
  <2>1. ~InReady(c)'
    BY <1>4 DEF InReady
  <2>2. r.kind \in Kinds => Unwritten(c)'
    BY <1>4, <1>7, <2>1 DEF Unwritten
  <2>3. r.kind \in Kinds => asked'[r.prop] = r.value
    BY <1>1, <1>7, PlainIs
  <2> QED
    BY <1>1, <1>4, <2>2, <2>3 DEF PlainKnown
<1>11. \A d \in Callers : job'[d] # Free => PlainKnown(d)'
  BY <1>4, <1>10
<1>12. BusCarried(pending)' /\ BusCarried(active)'
  <2>1. PICK o \in Entries : Sends(c, o, pending', job')
    BY <1>3 DEF BeginsAlone, Starts
  <2>2. Carries(job'[c].request, o) /\ pending' = Enqueued(o, c) /\ pending \in Seq(Entries)
    BY <2>1 DEF Sends, CInv, Typed
  <2>3. PICK j : j = job'
    OBVIOUS
  <2>4. \A i \in DOMAIN Enqueued(o, c) : Carried(Enqueued(o, c)[i], j)
    BY <1>4, <2>2, <2>3, SentCarried
  <2> QED
    BY <1>4, <2>2, <2>3, <2>4 DEF BusCarried
<1>13. ReadyIsNow'
  BY <1>4 DEF ReadyIsNow
<1> QED
  BY <1>1, <1>9, <1>11, <1>12, <1>13 DEF PlainInv

LEMMA PlainMoves ==
  ASSUME CInv, PlainInv, OneAtATime, NEW c \in Callers, NEW t, NEW t2, GoesAlone(c, t, t2),
         \A p \in Plain : \/ store'[p] = store[p]
                          \/ store'[p] = device[p] /\ device[p] = Coerce[asked[p]],
         job[c].at = "read" => store'[job[c].request.prop] = device[job[c].request.prop],
         job'[c] = Free /\ ReadsBack(job[c].request) => job[c].at \in {"read", "read-run"},
         job'[c] # Free => ~job'[c].failed
  PROVE  PlainInv'
<1> DEFINE b == job[c]
           b2 == job'[c]
<1>1. /\ b \in Jobs /\ b # Free /\ StageFits(b)
      /\ b.at \in AnswerStages => InReady(c)
      /\ \A d \in Callers : d # c => job[d] = Free /\ job'[d] = Free
      /\ DOMAIN ready' = {} /\ DOMAIN pending = {} /\ DOMAIN active = {}
      /\ device' = device /\ active' = active /\ asked' = asked
  BY FreeIsNoJob DEF GoesAlone, InFlight
<1>2. Follows(b, b2) \/ (Ends(b) /\ b2 = Free)
  BY DEF GoesAlone, Moves
<1>3. PlainKnown(c) /\ \A p \in Plain : PlainShown(p)
  BY <1>1 DEF PlainInv
<1>4. ~InReady(c)'
  BY <1>1 DEF InReady
<1>5. ASSUME NEW p \in Plain PROVE PlainShown(p)'
  <2>1. /\ store'[p] \in {asked'[p], Coerce[asked'[p]]}
        /\ AlwaysReadBack(p)' => AlwaysReadBack(p)
    BY <1>1, <1>3 DEF PlainShown, GoesAlone, AlwaysReadBack
  <2> SUFFICES ASSUME Untouched(p)'
               PROVE  /\ device[p] = Coerce[asked[p]]
                      /\ AlwaysReadBack(p) => store'[p] = device[p]
    BY <1>1, <2>1 DEF PlainShown
  <2>2. CASE b.request.prop # p
    BY <1>1, <1>3, <2>2 DEF Untouched, PlainShown
  <2>3. CASE b.request.prop = p
    <3>1. b.request.kind \in Kinds
      BY <1>1, <2>3, RequestOf
    <3>2. b2 = Free
      BY <1>2, <2>3 DEF Follows, Untouched
    <3>3. Ends(b)
      BY <1>2, <3>2, FreeIsNoJob DEF Follows
    <3>4. ~Unwritten(c)
      <4>1. b.at \notin {"stopping", "settle", "mode"}
        BY <1>1, <3>3 DEF Ends, StageFits
      <4>2. b.at = "write" => InReady(c)
        BY <1>1 DEF AnswerStages
      <4> QED
        BY <4>1, <4>2 DEF Unwritten
    <3>5. device[p] = Coerce[asked[p]]
      BY <1>3, <2>3, <3>1, <3>4 DEF PlainKnown
    <3>6. ASSUME AlwaysReadBack(p) PROVE store'[p] = device[p]
      <4>1. ReadsBack(b.request)
        BY <1>1, <2>3, <3>6, RequestOf DEF AlwaysReadBack
      <4>2. b.at \in {"read", "read-run"}
        BY <3>2, <4>1
      <4>3. b.at = "read-run" => store[p] = device[p]
        BY <1>3, <2>3, <3>1 DEF PlainKnown
      <4> QED
        BY <2>3, <4>2, <4>3
    <3> QED
      BY <3>5, <3>6
  <2> QED
    BY <2>2, <2>3
<1>6. ASSUME b2 # Free PROVE PlainKnown(c)'
  <2>1. b2.request = b.request /\ NextStage(b, b2)
    BY <1>2, <1>6 DEF Follows
  <2>2. ~Unwritten(c)' => ~Unwritten(c)
    <3>1. ASSUME ~Unwritten(c)' PROVE b2.at \notin {"stopping", "settle", "mode", "write"}
      BY <1>4, <3>1 DEF Unwritten
    <3>2. b2.at \notin {"stopping", "settle", "mode", "write"}
            => b.at \notin {"stopping", "settle", "mode"}
      BY <2>1 DEF NextStage
    <3>3. b.at = "write" => InReady(c)
      BY <1>1 DEF AnswerStages
    <3> QED
      BY <3>1, <3>2, <3>3 DEF Unwritten
  <2>3. b.request.kind \in Kinds => b.request.prop \in Plain
    BY <1>1, RequestOf
  <2>4. ASSUME b2.at = "read-run", b.request.kind \in Kinds
        PROVE  store'[b.request.prop] = device[b.request.prop]
    <3>1. b.at \in {"read", "single"}
      BY <2>1, <2>4 DEF NextStage
    <3>2. b.at # "single"
      BY <1>1, <2>4 DEF StageFits, Kinds
    <3> QED
      BY <3>1, <3>2
  <2> QED
    BY <1>1, <1>3, <1>6, <2>1, <2>2, <2>3, <2>4 DEF PlainKnown
<1>7. \A d \in Callers : job'[d] # Free => PlainKnown(d)'
  BY <1>1, <1>6
<1>8. BusCarried(pending)' /\ BusCarried(active)'
  <2>1. CASE pending' = pending
    BY <1>1, <2>1 DEF BusCarried
  <2>2. CASE \E o \in Entries : Sends(c, o, pending', job')
    <3>1. PICK o \in Entries : Sends(c, o, pending', job')
      BY <2>2
    <3>2. Carries(job'[c].request, o) /\ pending' = Enqueued(o, c) /\ pending \in Seq(Entries)
      BY <3>1 DEF Sends, CInv, Typed
    <3>3. PICK j : j = job'
      OBVIOUS
    <3>4. \A i \in DOMAIN Enqueued(o, c) : Carried(Enqueued(o, c)[i], j)
      BY <1>1, <3>2, <3>3, SentCarried
    <3> QED
      BY <1>1, <3>2, <3>3, <3>4 DEF BusCarried
  <2> QED
    BY <2>1, <2>2 DEF GoesAlone, Moves
<1>9. ReadyIsNow'
  BY <1>1 DEF ReadyIsNow
<1>10. asked' \in States
  BY <1>1 DEF PlainInv
<1> QED
  BY <1>5, <1>7, <1>8, <1>9, <1>10 DEF PlainInv

LEMMA PlainResume ==
  ASSUME CInv, OneInv, PlainInv, Resume
  PROVE  PlainInv'
<1>1. asked' = asked /\ workload' = workload
  BY DEF Resume
<1> SUFFICES ASSUME OneAtATime' PROVE PlainInv'
  BY <1>1 DEF PlainInv
<1>2. OneAtATime
  BY <1>1 DEF OneAtATime
<1>3. PICK c \in Callers, s \in States :
        /\ GoesAlone(c, timers, timers') /\ Continue(c, TRUE, s)
        /\ \E i \in DOMAIN ready : ready[i].by = c /\ ready[i].answer.state = s
  BY <1>2, OneResumed
<1>4. /\ InFlight(c) /\ job[c] # Free /\ job[c].revision = revision
      /\ \A d \in Callers : d # c => job[d] = Free
  BY <1>3, FreeIsNoJob DEF GoesAlone, InFlight
<1>5. PlainKnown(c) /\ ReadyIsNow
  BY <1>2, <1>4 DEF PlainInv
<1>6. /\ job'[c] # Free => ~job'[c].failed
      /\ job'[c] = Free /\ ReadsBack(job[c].request) => job[c].at \in {"read", "read-run"}
  BY <1>3, <1>4, <1>5, ContinueEnds DEF PlainKnown
<1>8. ASSUME job[c].at = "read"
      PROVE  store'[job[c].request.prop] = device[job[c].request.prop]
  <2>1. job[c].request.kind # "action"
    BY <1>4, <1>8 DEF InFlight, StageFits
  <2>2. job[c].request.prop \in Plain
    BY <1>4, <2>1, RequestOf
  <2>3. PICK p \in AllProps : p = job[c].request.prop /\ p \in ControlSettings
    BY <2>2, PlainIs
  <2>4. p \in Answering(job[c])
    BY <1>8, <2>3 DEF Answering, Group, ControlSettings
  <2>5. PICK ok \in BOOLEAN : ok = TRUE
    OBVIOUS
  <2>6. store'[p] = s[p]
    BY <1>3, <1>4, <2>4, <2>5, ContinueShows
  <2>7. s[p] = device[p]
    BY <1>3, <1>5, <1>8, <2>3 DEF ReadyIsNow
  <2> QED
    BY <2>3, <2>6, <2>7
<1>7. ASSUME NEW p \in Plain
      PROVE  \/ store'[p] = store[p]
             \/ store'[p] = device[p] /\ device[p] = Coerce[asked[p]]
  <2>1. p \in AllProps /\ p # "run" /\ p \in ControlSettings
    BY PlainIs
  <2>2. \/ store'[p] = store[p]
        \/ /\ store'[p] = s[p] /\ p \in Answering(job[c])
        \/ job[c].at = "action" /\ p = "run"
    <3>1. PICK ok \in BOOLEAN : ok = TRUE
      OBVIOUS
    <3>2. Continue(c, ok, s)
      BY <1>3, <3>1
    <3> QED
      BY <1>4, <2>1, <3>2, ContinueShows
  <2>3. CASE store'[p] = s[p] /\ p \in Answering(job[c])
    <3>1. job[c].at \in {"read", "single-mode"}
      BY <2>1, <2>3 DEF Answering
    <3>2. s[p] = device[p]
      BY <1>3, <1>5, <2>1, <3>1 DEF ReadyIsNow
    <3>3. CASE job[c].request.prop = p
      <4>1. job[c].request.kind \in Kinds
        BY <1>4, <3>3, RequestOf
      <4>2. ~Unwritten(c)
        BY <3>1 DEF Unwritten
      <4> QED
        BY <1>5, <2>3, <3>2, <3>3, <4>1, <4>2 DEF PlainKnown
    <3>4. CASE job[c].request.prop # p
      <4>1. Untouched(p)
        BY <1>4, <3>4 DEF Untouched
      <4> QED
        BY <1>2, <2>3, <3>2, <4>1 DEF PlainInv, PlainShown
    <3> QED
      BY <3>3, <3>4
  <2> QED
    BY <2>1, <2>2, <2>3
<1> QED
  BY <1>2, <1>3, <1>6, <1>7, <1>8, PlainMoves

LEMMA PlainExpire ==
  ASSUME CInv, OneInv, PlainInv, NEW i \in DOMAIN timers, Expire(i)
  PROVE  PlainInv'
<1>1. asked' = asked /\ workload' = workload
  BY DEF Expire
<1> SUFFICES ASSUME OneAtATime' PROVE PlainInv'
  BY <1>1 DEF PlainInv
<1>2. OneAtATime
  BY <1>1 DEF OneAtATime
<1>3. /\ timers[i].by \in Callers /\ GoesAlone(timers[i].by, RemoveAt(timers, i), timers')
      /\ job[timers[i].by].at \in TimerStages /\ store' = store
  BY <1>2, OneExpired
<1>4. PICK c \in Callers : c = timers[i].by
  BY <1>3
<1>0. PICK t : t = RemoveAt(timers, i)
  OBVIOUS
<1>5. GoesAlone(c, t, timers') /\ job[c] # Free
  BY <1>0, <1>3, <1>4, FreeIsNoJob DEF GoesAlone, InFlight
<1>6. ~job[c].failed
  BY <1>2, <1>5 DEF PlainInv, PlainKnown
<1>7. /\ job'[c] # Free => ~job'[c].failed
      /\ job'[c] = Free => ~ReadsBack(job[c].request)
  BY <1>4, <1>6, ExpireEnds
<1>8. job[c].at # "read"
  BY <1>3, <1>4 DEF TimerStages
<1> QED
  BY <1>2, <1>3, <1>5, <1>7, <1>8, PlainMoves

LEMMA PlainFinish ==
  ASSUME CInv, OneInv, PlainInv, FinishOperation
  PROVE  PlainInv'
<1>1. PICK x \in [ok : {TRUE}, state : States] :
        Answered(x) /\ x.state = device /\ device' = Performed(active[1])
  BY FinishIs
<1>2. x \in [ok : BOOLEAN, state : States]
  BY <1>1
<1>3. /\ active # <<>> /\ active' = <<>> /\ pending' = pending /\ asked' = asked
      /\ workload' = workload /\ job' = job /\ store' = store /\ revision' = revision
  BY <1>1 DEF Answered
<1> SUFFICES ASSUME OneAtATime' PROVE PlainInv'
  BY <1>3 DEF PlainInv
<1>4. OneAtATime
  BY <1>3 DEF OneAtATime
<1> DEFINE q == active[1]
<1>5. PICK c \in Callers :
        /\ c \in By(q) /\ \A d \in Callers : job[d] # Free => d = c
        /\ InReady(c)' /\ \A i \in DOMAIN ready' : ready'[i].by = c /\ ready'[i].answer = x
  BY <1>1, <1>2, <1>4, OneWaits
<1>6. /\ q \in Entries /\ job[c] \in Jobs /\ job[c] # Free /\ StageFits(job[c])
      /\ Expects(job[c], q)
  BY <1>3, <1>5, WaitingFor
<1>7. PICK k \in DOMAIN q.by : q.by[k] = c
  BY <1>5 DEF By
<1>8. q.cmd = "write" => q.value = job[c].request.value
  <2>1. 1 \in DOMAIN active
    BY <1>3 DEF CInv, Typed
  <2>2. Carried(q, job)
    BY <1>4, <2>1 DEF PlainInv, BusCarried
  <2> QED
    BY <1>7, <2>2 DEF Carried
<1>9. PlainKnown(c) /\ \A p \in Plain : PlainShown(p)
  BY <1>4, <1>6 DEF PlainInv
<1>10. q.cmd = "write" => /\ job[c].at = "write" /\ q.prop = job[c].request.prop
                          /\ job[c].request.kind \in Kinds
  <2>1. q.cmd = "write" => job[c].at = "write" /\ q.prop = job[c].request.prop
    BY <1>6 DEF Expects, StageFits
  <2>2. job[c].at = "write" => job[c].request.kind # "action"
    BY <1>6 DEF StageFits
  <2> QED
    BY <1>6, <2>1, <2>2, RequestOf
<1>11. \A p \in ControlSettings :
         /\ q.cmd = "write" => device'[p] = IF p = q.prop THEN Coerce[q.value] ELSE device[p]
         /\ q.cmd = "mode" => device'[p] = IF p = "mode" THEN q.value ELSE device[p]
         /\ q.cmd \notin {"write", "mode"} => device'[p] = device[p]
  BY <1>1, <1>6, PerformedSettings DEF CInv, Typed
<1> HIDE DEF q
<1>12. ASSUME NEW p \in Plain PROVE PlainShown(p)'
  <2>0. AlwaysReadBack(p)' => AlwaysReadBack(p)
    BY <1>3 DEF AlwaysReadBack
  <2> SUFFICES ASSUME Untouched(p)'
               PROVE  /\ device'[p] = Coerce[asked[p]]
                      /\ AlwaysReadBack(p) => store[p] = device'[p]
    BY <1>3, <1>9, <2>0 DEF PlainShown
  <2>1. Untouched(p) /\ job[c].request.prop # p
    BY <1>3, <1>6 DEF Untouched
  <2>2. device'[p] = device[p]
    BY <1>10, <1>11, <2>1, PlainIs
  <2> QED
    BY <1>9, <2>1, <2>2 DEF PlainShown
<1>17. ASSUME job[c].request.kind \in Kinds, job[c].at = "read-run"
       PROVE  store[job[c].request.prop] = device'[job[c].request.prop]
  <2>1. q.cmd = "readrun"
    BY <1>6, <1>17 DEF Expects
  <2>2. job[c].request.prop \in ControlSettings
    BY <1>6, <1>17, RequestOf, PlainIs
  <2> QED
    BY <1>9, <1>11, <1>17, <2>1, <2>2 DEF PlainKnown
<1>13. PlainKnown(c)'
  <2> SUFFICES ASSUME job[c].request.kind \in Kinds, ~Unwritten(c)'
               PROVE  device'[job[c].request.prop] = Coerce[job[c].request.value]
    BY <1>3, <1>9, <1>17 DEF PlainKnown
  <2> DEFINE p == job[c].request.prop
  <2>1. p \in Plain /\ p \in ControlSettings /\ p # "mode" /\ job[c].request.value \in Values
    BY <1>6, RequestOf, PlainIs
  <2>2. CASE q.cmd = "write"
    BY <1>8, <1>10, <1>11, <2>1, <2>2
  <2>3. CASE q.cmd # "write"
    <3>1. device'[p] = device[p]
      BY <1>11, <2>1, <2>3
    <3>2. job[c].at # "write"
      BY <1>6, <2>3 DEF Expects
    <3>3. ~Unwritten(c)
      BY <1>3, <3>2 DEF Unwritten
    <3> QED
      BY <1>9, <3>1, <3>3 DEF PlainKnown
  <2> QED
    BY <2>2, <2>3
<1>14. \A d \in Callers : job'[d] # Free => PlainKnown(d)'
  BY <1>3, <1>5, <1>13
<1>15. ReadyIsNow'
  <2> SUFFICES ASSUME NEW i \in DOMAIN ready', job'[ready'[i].by].at \in {"read", "single-mode"},
                      NEW p \in ControlSettings
               PROVE  ready'[i].answer.state[p] = device'[p]
    BY DEF ReadyIsNow
  <2>1. ready'[i].answer.state = device /\ job[c].at \in {"read", "single-mode"}
    BY <1>1, <1>3, <1>5
  <2>2. q.cmd = "read"
    BY <1>6, <2>1 DEF Expects
  <2> QED
    BY <1>11, <2>1, <2>2
<1>16. BusCarried(pending)' /\ BusCarried(active)'
  BY <1>3, <1>4 DEF PlainInv, BusCarried
<1> QED
  BY <1>3, <1>12, <1>14, <1>15, <1>16 DEF PlainInv

\* The scheduler moves an operation to the wire.
LEMMA StartedIs ==
  ASSUME CInv, StartOperation
  PROVE  /\ \A i \in DOMAIN pending' : \E m \in DOMAIN pending : pending'[i] = pending[m]
         /\ \A i \in DOMAIN active' : \E m \in DOMAIN pending : active'[i] = pending[m]
         /\ UNCHANGED <<workload, store, device, revision, job>>
         /\ UNCHANGED <<ready, timers, asked, failures>>
<1>1. PICK i \in DOMAIN pending : active' = <<pending[i]>> /\ pending' = RemoveAt(pending, i)
  BY DEF StartOperation
<1>2. \A m \in DOMAIN pending' : \E k \in DOMAIN pending : pending'[m] = pending[k]
  BY <1>1, RemovedIs DEF CInv, Typed
<1> QED
  BY <1>1, <1>2 DEF StartOperation

LEMMA PlainNext ==
  ASSUME CInv, OneInv, PlainInv, [ControllerNext]_controllerVars
  PROVE  PlainInv'
<1>1. CASE \E c \in Callers : \E r \in workload.requests : Begin(c, r)
  BY <1>1, PlainBegin
<1>2. CASE StartOperation
  <2>1. /\ job' = job /\ store' = store /\ ready' = ready /\ asked' = asked
        /\ workload' = workload /\ device' = device
    BY <1>2, StartedIs
  <2>2. /\ OneAtATime => \A i \in DOMAIN pending' : Carried(pending'[i], job)
        /\ OneAtATime => \A i \in DOMAIN active' : Carried(active'[i], job)
    BY <1>2, StartedIs DEF PlainInv, BusCarried
  <2> QED
    BY <2>1, <2>2, PlainFrame
<1>3. CASE FinishOperation
  BY <1>3, PlainFinish
<1>4. CASE RefuseAnswer
  <2>1. failures < workload.refusals /\ workload' = workload /\ failures \in Nat /\ asked' = asked
    BY <1>4 DEF RefuseAnswer, CInv, Typed
  <2> QED
    BY <2>1 DEF PlainInv, OneAtATime
<1>5. CASE TriggerSingle
  <2>1. /\ job' = job /\ store' = store /\ ready' = ready /\ asked' = asked
        /\ workload' = workload /\ pending' = pending /\ active' = active
    BY <1>5 DEF TriggerSingle
  <2>2. \A p \in ControlSettings : device'[p] = device[p]
    BY <1>5, TriggerSettings
  <2> QED
    BY <2>1, <2>2, PlainFrame DEF PlainInv, BusCarried
<1>6. CASE Resume
  BY <1>6, PlainResume
<1>7. CASE \E i \in DOMAIN timers : Expire(i)
  BY <1>7, PlainExpire
<1>8. CASE UNCHANGED controllerVars
  <2>1. /\ job' = job /\ store' = store /\ ready' = ready /\ asked' = asked
        /\ workload' = workload /\ pending' = pending /\ active' = active /\ device' = device
    BY <1>8 DEF controllerVars
  <2> QED
    BY <2>1, PlainFrame DEF PlainInv, BusCarried
<1> QED
  BY <1>1, <1>2, <1>3, <1>4, <1>5, <1>6, <1>7, <1>8 DEF ControllerNext

-----------------------------------------------------------------------------
(* One request at a time: the mode of the scope.                           *)

Unswitched(c) ==
  \/ job[c].at \in {"stopping", "settle"}
  \/ job[c].at = "mode" /\ ~InReady(c)

ModeKnown(c) ==
  LET b == job[c]
  IN  b.request.prop = "scale" =>
        /\ b.crossing <=> store["mode"] # TargetMode(b.request.value)
        /\ b.crossing /\ ~Unswitched(c) => device["mode"] = TargetMode(b.request.value)
        /\ ~b.crossing \/ Unswitched(c) => device["mode"] = store["mode"]

ModeAgrees ==
  store["mode"] = device["mode"] /\ device["mode"] = TargetMode(asked["scale"])

ModeInv ==
  OneAtATime /\ AlwaysReadBack("scale") =>
    /\ \A c \in Callers : job[c] # Free => ModeKnown(c)
    /\ Untouched("scale") => ModeAgrees

LEMMA ModeInit == ControllerInit => ModeInv
<1> SUFFICES ASSUME ControllerInit PROVE ModeInv
  OBVIOUS
<1>1. store = device /\ asked = device /\ \A c \in Callers : job[c] = Free
  BY DEF ControllerInit
<1>2. device["mode"] = 0 /\ device["scale"] = 0
  BY PlainIs DEF ControllerInit, AllProps
<1>3. TargetMode(0) = 0
  BY ControllerAssumption DEF TargetMode
<1> QED
  BY <1>1, <1>2, <1>3 DEF ModeInv, ModeAgrees

LEMMA ModeFrame ==
  ASSUME ModeInv, job' = job, store' = store, ready' = ready, workload' = workload,
         asked' = asked, \A p \in ControlSettings : device'[p] = device[p]
  PROVE  ModeInv'
<1> SUFFICES ASSUME OneAtATime', AlwaysReadBack("scale")' PROVE ModeInv'
  BY DEF ModeInv
<1>1. OneAtATime /\ AlwaysReadBack("scale")
  BY DEF OneAtATime, AlwaysReadBack
<1>2. device'["mode"] = device["mode"] /\ device'["scale"] = device["scale"]
  BY PlainIs
<1>3. \A c \in Callers : job'[c] # Free => ModeKnown(c)'
  BY <1>1, <1>2 DEF ModeInv, ModeKnown, Unswitched, InReady
<1> QED
  BY <1>1, <1>2, <1>3 DEF ModeInv, ModeAgrees, Untouched

LEMMA ModeBegin ==
  ASSUME CInv, OneInv, PlainInv, ModeInv, NEW c \in Callers, NEW r \in workload.requests,
         Begin(c, r)
  PROVE  ModeInv'
<1>1. /\ r.kind \in Kinds =>
           \A p \in AllProps : /\ store'[p] = (IF p = r.prop THEN r.value ELSE store[p])
                               /\ asked'[p] = (IF p = r.prop THEN r.value ELSE asked[p])
      /\ r.kind = "action" => store' = store /\ \A p \in ControlSettings : asked'[p] = asked[p]
      /\ r.kind \in Kinds => /\ job'[c].crossing = Crossing(r, store')
                             /\ job'[c].at = "write" => ~job'[c].crossing
  BY BeginShows DEF PlainInv
<1> SUFFICES ASSUME OneAtATime', AlwaysReadBack("scale")' PROVE ModeInv'
  BY DEF ModeInv
<1>2. OneAtATime /\ AlwaysReadBack("scale")
  BY DEF Begin, OneAtATime, AlwaysReadBack
<1>3. /\ job'[c] \in Jobs /\ job'[c].request = r /\ device' = device
      /\ job'[c].at \in {"stopping", "mode", "write", "action", "single-mode"}
      /\ job'[c].at \in {"action", "single-mode"} => r.kind = "action"
      /\ \A d \in Callers : job[d] = Free
      /\ \A d \in Callers : d # c => job'[d] = Free
      /\ DOMAIN ready' = {}
  BY <1>2, OneBegins DEF BeginsAlone, Starts
<1>4. job'[c] # Free /\ r \in Requests
  BY <1>3, FreeIsNoJob, WorkloadIs DEF CInv, Typed
<1>5. /\ r.kind \in Kinds \cup {"action"}
      /\ r.kind \in Kinds => r.prop \in Plain
      /\ r.kind = "action" => r.kind \notin Kinds /\ r.prop # "scale"
  BY <1>4, RequestFields, PlainIs DEF Kinds, Actions
<1>6. store["mode"] = device["mode"] /\ device["mode"] = TargetMode(asked["scale"])
  BY <1>2, <1>3 DEF ModeInv, ModeAgrees, Untouched
<1>7. store'["mode"] = store["mode"]
  BY <1>1, <1>5, PlainIs
<1>8. ModeKnown(c)'
  <2> SUFFICES ASSUME r.prop = "scale"
               PROVE  /\ job'[c].crossing <=> store'["mode"] # TargetMode(r.value)
                      /\ job'[c].crossing => Unswitched(c)'
    BY <1>3, <1>6, <1>7 DEF ModeKnown
  <2>1. r.kind \in Kinds
    BY <1>5
  <2>2. job'[c].crossing <=> store'["mode"] # TargetMode(r.value)
    BY <1>1, <2>1 DEF Crossing
  <2>3. ~InReady(c)'
    BY <1>3 DEF InReady
  <2>4. job'[c].crossing => Unswitched(c)'
    BY <1>1, <1>3, <1>5, <2>1, <2>3 DEF Unswitched
  <2> QED
    BY <2>2, <2>4
<1>9. \A d \in Callers : job'[d] # Free => ModeKnown(d)'
  BY <1>3, <1>8
<1>10. Untouched("scale")' => asked'["scale"] = asked["scale"]
  <2>1. Untouched("scale")' => r.prop # "scale"
    BY <1>3, <1>4 DEF Untouched
  <2> QED
    BY <1>1, <1>5, <2>1, PlainIs
<1> QED
  BY <1>3, <1>6, <1>7, <1>9, <1>10 DEF ModeInv, ModeAgrees

LEMMA ModeMoves ==
  ASSUME CInv, ModeInv, PlainInv, OneAtATime, AlwaysReadBack("scale"),
         NEW c \in Callers, NEW t, NEW t2,
         GoesAlone(c, t, t2),
         store'["mode"] = store["mode"] \/ store'["mode"] = device["mode"],
         job[c].request.prop = "scale" /\ job'[c] = Free =>
           store'["mode"] = device["mode"] /\ job[c].at = "read",
         job[c].request.prop = "scale" /\ job'[c] # Free => store'["mode"] = store["mode"]
  PROVE  ModeInv'
<1> DEFINE b == job[c]
           b2 == job'[c]
<1>1. /\ b \in Jobs /\ b # Free /\ StageFits(b)
      /\ b.at \in AnswerStages => InReady(c)
      /\ \A d \in Callers : d # c => job[d] = Free /\ job'[d] = Free
      /\ DOMAIN ready' = {} /\ device' = device /\ asked' = asked
  BY FreeIsNoJob DEF GoesAlone, InFlight
<1>2. Follows(b, b2) \/ (Ends(b) /\ b2 = Free)
  BY DEF GoesAlone, Moves
<1>3. ModeKnown(c) /\ (Untouched("scale") => ModeAgrees)
  BY <1>1 DEF ModeInv
<1>4. ~InReady(c)'
  BY <1>1 DEF InReady
<1>5. ASSUME Untouched("scale")'
      PROVE  store'["mode"] = device["mode"] /\ device["mode"] = TargetMode(asked["scale"])
  <2>1. CASE b.request.prop # "scale"
    BY <1>1, <1>3, <2>1 DEF Untouched, ModeAgrees
  <2>2. CASE b.request.prop = "scale"
    <3>1. b2 = Free
      BY <1>2, <1>5, <2>2 DEF Follows, Untouched
    <3>2. b.at = "read" /\ store'["mode"] = device["mode"]
      BY <2>2, <3>1
    <3>3. device["mode"] = TargetMode(b.request.value)
      <4>1. ~Unswitched(c)
        BY <3>2 DEF Unswitched
      <4> QED
        BY <1>3, <2>2, <4>1 DEF ModeKnown
    <3>4. asked["scale"] = b.request.value
      <4>1. b.request.kind \in Kinds
        BY <1>1, <2>2, RequestOf, PlainIs
      <4> QED
        BY <1>1, <2>2, <4>1 DEF PlainInv, PlainKnown
    <3> QED
      BY <3>2, <3>3, <3>4
  <2> QED
    BY <2>1, <2>2
<1>6. ASSUME b2 # Free PROVE ModeKnown(c)'
  <2>1. b2.request = b.request /\ b2.crossing = b.crossing /\ NextStage(b, b2)
    BY <1>2, <1>6 DEF Follows
  <2>2. ASSUME b.crossing PROVE Unswitched(c)' <=> Unswitched(c)
    <3>1. b.at \in {"stopping", "settle", "mode"} \/ b2.at \notin {"stopping", "settle", "mode"}
      BY <2>1 DEF NextStage
    <3>2. b.at = "stopping" => b2.at = "settle"
      BY <2>1 DEF NextStage
    <3>3. b.at = "settle" => b2.at = "mode"
      BY <2>1, <2>2 DEF NextStage
    <3>4. b.at = "mode" => b2.at = "write" /\ InReady(c)
      BY <1>1, <2>1 DEF NextStage, AnswerStages
    <3> QED
      BY <1>4, <3>1, <3>2, <3>3, <3>4 DEF Unswitched
  <2> QED
    BY <1>1, <1>3, <1>6, <2>1, <2>2 DEF ModeKnown
<1>7. \A d \in Callers : job'[d] # Free => ModeKnown(d)'
  BY <1>1, <1>6
<1> QED
  BY <1>1, <1>5, <1>7 DEF ModeInv, ModeAgrees

LEMMA OneReadsBack ==
  ASSUME AlwaysReadBack("scale"), CInv, NEW c \in Callers, job[c] # Free,
         job[c].request.prop = "scale"
  PROVE  ReadsBack(job[c].request)
<1>1. job[c].request \in workload.requests
  BY RequestOf
<1> QED
  BY <1>1 DEF AlwaysReadBack

LEMMA ModeResume ==
  ASSUME CInv, OneInv, PlainInv, ModeInv, Resume
  PROVE  ModeInv'
<1>1. workload' = workload
  BY DEF Resume
<1> SUFFICES ASSUME OneAtATime', AlwaysReadBack("scale")' PROVE ModeInv'
  BY <1>1 DEF ModeInv
<1>2. OneAtATime /\ AlwaysReadBack("scale")
  BY <1>1 DEF OneAtATime, AlwaysReadBack
<1>3. PICK c \in Callers, s \in States :
        /\ GoesAlone(c, timers, timers') /\ Continue(c, TRUE, s)
        /\ \E i \in DOMAIN ready : ready[i].by = c /\ ready[i].answer.state = s
  BY <1>2, OneResumed
<1>4. /\ InFlight(c) /\ job[c] # Free /\ job[c].revision = revision /\ StageFits(job[c])
  BY <1>3, FreeIsNoJob DEF GoesAlone, InFlight
<1>5. ReadyIsNow /\ ~job[c].failed
  BY <1>2, <1>4 DEF PlainInv, PlainKnown
<1>6. /\ \/ store'["mode"] = store["mode"]
         \/ store'["mode"] = s["mode"] /\ "mode" \in Answering(job[c])
      /\ "mode" \in Answering(job[c]) => store'["mode"] = s["mode"]
  <2>1. PICK ok \in BOOLEAN : ok = TRUE
    OBVIOUS
  <2>2. Continue(c, ok, s) /\ ok /\ "mode" \in AllProps /\ "mode" # "run"
    BY <1>3, <2>1, PlainIs
  <2> QED
    BY <1>4, <2>2, ContinueShows
<1>7. "mode" \in Answering(job[c]) =>
        job[c].at \in {"read", "single-mode"} /\ s["mode"] = device["mode"]
  <2>1. "mode" \in Answering(job[c]) => job[c].at \in {"read", "single-mode"}
    BY DEF Answering
  <2> QED
    BY <1>3, <1>5, <2>1, PlainIs DEF ReadyIsNow
<1>8. ASSUME job[c].request.prop = "scale", job'[c] = Free
      PROVE  store'["mode"] = device["mode"] /\ job[c].at = "read"
  <2>1. job[c].at = "read"
    BY <1>2, <1>3, <1>4, <1>5, <1>8, OneReadsBack, ContinueEnds
  <2>2. "mode" \in Answering(job[c])
    BY <1>8, <2>1 DEF Answering, Group, Horizontal
  <2> QED
    BY <1>6, <1>7, <2>1, <2>2
<1>9. ASSUME job[c].request.prop = "scale", job'[c] # Free
      PROVE  store'["mode"] = store["mode"]
  <2>1. Follows(job[c], job'[c])
    BY <1>3, <1>9 DEF GoesAlone, Moves
  <2>2. job[c].at # "read"
    <3>1. job[c].at = "read" => job'[c].at = "read-run"
      BY <2>1 DEF Follows, NextStage
    <3>2. job'[c].at = "read-run" /\ job'[c].request.prop = "scale" =>
            job'[c].request.kind = "action"
      BY <2>1 DEF Follows, StageFits
    <3>3. job'[c].request = job[c].request
      BY <2>1 DEF Follows
    <3>4. job[c].at = "read" => job[c].request.kind # "action"
      BY <1>4 DEF StageFits
    <3> QED
      BY <1>9, <3>1, <3>2, <3>3, <3>4
  <2>3. job[c].at # "single-mode"
    BY <1>4, <1>9 DEF StageFits
  <2> QED
    BY <1>6, <1>7, <2>2, <2>3
<1>10. store'["mode"] = store["mode"] \/ store'["mode"] = device["mode"]
  BY <1>6, <1>7
<1> QED
  BY <1>2, <1>3, <1>8, <1>9, <1>10, ModeMoves

LEMMA ModeExpire ==
  ASSUME CInv, OneInv, PlainInv, ModeInv, NEW i \in DOMAIN timers, Expire(i)
  PROVE  ModeInv'
<1>1. workload' = workload
  BY DEF Expire
<1> SUFFICES ASSUME OneAtATime', AlwaysReadBack("scale")' PROVE ModeInv'
  BY <1>1 DEF ModeInv
<1>2. OneAtATime /\ AlwaysReadBack("scale")
  BY <1>1 DEF OneAtATime, AlwaysReadBack
<1>3. /\ timers[i].by \in Callers /\ GoesAlone(timers[i].by, RemoveAt(timers, i), timers')
      /\ store' = store
  BY <1>2, OneExpired
<1>4. PICK c \in Callers : c = timers[i].by
  BY <1>3
<1>0. PICK t : t = RemoveAt(timers, i)
  OBVIOUS
<1>5. GoesAlone(c, t, timers') /\ job[c] # Free
  BY <1>0, <1>3, <1>4, FreeIsNoJob DEF GoesAlone, InFlight
<1>6. ~job[c].failed
  BY <1>2, <1>5 DEF PlainInv, PlainKnown
<1>7. ~(job[c].request.prop = "scale" /\ job'[c] = Free)
  BY <1>2, <1>4, <1>5, <1>6, ExpireEnds, OneReadsBack
<1> QED
  BY <1>2, <1>3, <1>5, <1>7, ModeMoves

LEMMA ModeFinish ==
  ASSUME CInv, OneInv, PlainInv, ModeInv, FinishOperation
  PROVE  ModeInv'
<1>1. PICK x \in [ok : {TRUE}, state : States] :
        Answered(x) /\ x.state = device /\ device' = Performed(active[1])
  BY FinishIs
<1>2. x \in [ok : BOOLEAN, state : States]
  BY <1>1
<1>3. /\ active # <<>> /\ workload' = workload /\ job' = job /\ store' = store /\ asked' = asked
  BY <1>1 DEF Answered
<1> SUFFICES ASSUME OneAtATime', AlwaysReadBack("scale")' PROVE ModeInv'
  BY <1>3 DEF ModeInv
<1>4. OneAtATime /\ AlwaysReadBack("scale")
  BY <1>3 DEF OneAtATime, AlwaysReadBack
<1> DEFINE q == active[1]
<1>5. PICK c \in Callers :
        /\ c \in By(q) /\ \A d \in Callers : job[d] # Free => d = c
        /\ InReady(c)'
  BY <1>1, <1>2, <1>4, OneWaits
<1>6. /\ q \in Entries /\ job[c] \in Jobs /\ job[c] # Free /\ StageFits(job[c])
      /\ Expects(job[c], q)
  BY <1>3, <1>5, WaitingFor
<1>7. PICK k \in DOMAIN q.by : q.by[k] = c
  BY <1>5 DEF By
<1>8. q.cmd = "mode" => q.value = TargetMode(job[c].request.value)
  <2>1. 1 \in DOMAIN active
    BY <1>3 DEF CInv, Typed
  <2>2. Carried(q, job)
    BY <1>4, <2>1 DEF PlainInv, BusCarried
  <2> QED
    BY <1>7, <2>2 DEF Carried
<1>9. ModeKnown(c) /\ (Untouched("scale") => ModeAgrees)
  BY <1>4, <1>6 DEF ModeInv
<1>10. \A p \in ControlSettings :
         /\ q.cmd = "write" => device'[p] = IF p = q.prop THEN Coerce[q.value] ELSE device[p]
         /\ q.cmd = "mode" => device'[p] = IF p = "mode" THEN q.value ELSE device[p]
         /\ q.cmd \notin {"write", "mode"} => device'[p] = device[p]
  BY <1>1, <1>6, PerformedSettings DEF CInv, Typed
<1>11. /\ q.cmd = "mode" <=> job[c].at = "mode"
       /\ q.cmd = "write" => q.prop = job[c].request.prop /\ q.prop # "mode"
  <2>1. q.cmd = "mode" <=> job[c].at = "mode"
    BY <1>6 DEF Expects, StageFits
  <2>2. q.cmd = "write" => q.prop = job[c].request.prop
    BY <1>6 DEF Expects, StageFits
  <2>3. q.cmd = "write" => q.prop # "mode"
    BY <1>6 DEF Entries
  <2> QED
    BY <2>1, <2>2, <2>3
<1>12. job[c].at = "mode" => job[c].crossing /\ job[c].request.prop = "scale"
  BY <1>6 DEF StageFits
<1> HIDE DEF q
<1>13. /\ job[c].at = "mode" => device'["mode"] = TargetMode(job[c].request.value)
       /\ job[c].at # "mode" => device'["mode"] = device["mode"]
  BY <1>8, <1>10, <1>11, PlainIs
<1>14. ASSUME Untouched("scale")'
       PROVE  store["mode"] = device'["mode"] /\ device'["mode"] = TargetMode(asked["scale"])
  <2>1. Untouched("scale") /\ job[c].request.prop # "scale"
    BY <1>3, <1>6, <1>14 DEF Untouched
  <2>2. device'["mode"] = device["mode"]
    BY <1>12, <1>13, <2>1
  <2> QED
    BY <1>9, <2>1, <2>2 DEF ModeAgrees
<1>15. ModeKnown(c)'
  <2>1. CASE job[c].at = "mode"
    <3>1. ~Unswitched(c)' /\ job[c].crossing
      BY <1>3, <1>5, <1>12, <2>1 DEF Unswitched
    <3> QED
      BY <1>3, <1>9, <1>13, <2>1, <3>1 DEF ModeKnown
  <2>2. CASE job[c].at # "mode"
    <3>1. Unswitched(c)' <=> Unswitched(c)
      BY <1>3, <2>2 DEF Unswitched
    <3> QED
      BY <1>3, <1>9, <1>13, <2>2, <3>1 DEF ModeKnown
  <2> QED
    BY <2>1, <2>2
<1>16. \A d \in Callers : job'[d] # Free => ModeKnown(d)'
  BY <1>3, <1>5, <1>15
<1> QED
  BY <1>3, <1>14, <1>16 DEF ModeInv, ModeAgrees

LEMMA ModeNext ==
  ASSUME CInv, OneInv, PlainInv, ModeInv, [ControllerNext]_controllerVars
  PROVE  ModeInv'
<1>1. CASE \E c \in Callers : \E r \in workload.requests : Begin(c, r)
  BY <1>1, ModeBegin
<1>2. CASE StartOperation
  <2>1. /\ job' = job /\ store' = store /\ ready' = ready /\ workload' = workload
        /\ device' = device /\ asked' = asked
    BY <1>2, StartedIs
  <2> QED
    BY <2>1, ModeFrame
<1>3. CASE FinishOperation
  BY <1>3, ModeFinish
<1>4. CASE RefuseAnswer
  <2>1. failures < workload.refusals /\ workload' = workload /\ failures \in Nat
    BY <1>4 DEF RefuseAnswer, CInv, Typed
  <2> QED
    BY <2>1 DEF ModeInv, OneAtATime
<1>5. CASE TriggerSingle
  <2>1. /\ job' = job /\ store' = store /\ ready' = ready /\ workload' = workload
        /\ asked' = asked
    BY <1>5 DEF TriggerSingle
  <2>2. \A p \in ControlSettings : device'[p] = device[p]
    BY <1>5, TriggerSettings
  <2> QED
    BY <2>1, <2>2, ModeFrame
<1>6. CASE Resume
  BY <1>6, ModeResume
<1>7. CASE \E i \in DOMAIN timers : Expire(i)
  BY <1>7, ModeExpire
<1>8. CASE UNCHANGED controllerVars
  <2>1. /\ job' = job /\ store' = store /\ ready' = ready /\ workload' = workload
        /\ device' = device /\ asked' = asked
    BY <1>8 DEF controllerVars
  <2> QED
    BY <2>1, ModeFrame
<1> QED
  BY <1>1, <1>2, <1>3, <1>4, <1>5, <1>6, <1>7, <1>8 DEF ControllerNext

-----------------------------------------------------------------------------
(* One request at a time: that the scope runs.                             *)

Interrupts(b) == b # Free /\ (b.restart \/ b.at \in RunStages)

\* Where the request of c has seen to it that the scope runs.
Ran(c) ==
  LET b == job[c]
  IN  /\ b.restart /\ (b.at \in {"rest", "read"} \/ (b.at = "running" /\ InReady(c)))
           => device["run"] = "run"
      /\ b.at = "action" /\ b.request.prop = "run" /\ InReady(c) => device["run"] = "run"
      /\ \A i \in DOMAIN ready :
           ready[i].by = c /\ b.at = "read-run" /\ ready[i].answer.state["run"] = "run"
             => device["run"] = "run"

RunShown ==
  (\A c \in Callers : ~Interrupts(job[c])) /\ store["run"] = "run" => device["run"] = "run"

RunShownInv ==
  OneAtATime => RunShown /\ \A c \in Callers : job[c] # Free => Ran(c)

LEMMA RunShownInit == ControllerInit => RunShownInv
<1> SUFFICES ASSUME ControllerInit PROVE RunShownInv
  OBVIOUS
<1>1. store = device /\ \A c \in Callers : job[c] = Free
  BY DEF ControllerInit
<1> QED
  BY <1>1 DEF RunShownInv, RunShown

LEMMA RunShownFrame ==
  ASSUME RunShownInv, job' = job, store' = store, ready' = ready, workload' = workload,
         device["run"] = "run" => device'["run"] = "run"
  PROVE  RunShownInv'
<1> SUFFICES ASSUME OneAtATime' PROVE RunShownInv'
  BY DEF RunShownInv
<1>1. OneAtATime
  BY DEF OneAtATime
<1>2. \A c \in Callers : job'[c] # Free => Ran(c)'
  BY <1>1 DEF RunShownInv, Ran, InReady
<1>3. RunShown'
  BY <1>1 DEF RunShownInv, RunShown
<1> QED
  BY <1>2, <1>3 DEF RunShownInv

LEMMA RunShownBegin ==
  ASSUME CInv, OneInv, RunShownInv, NEW c \in Callers, NEW r \in workload.requests, Begin(c, r)
  PROVE  RunShownInv'
<1> SUFFICES ASSUME OneAtATime' PROVE RunShownInv'
  BY DEF RunShownInv
<1>1. OneAtATime
  BY DEF Begin, OneAtATime
<1>2. /\ job'[c] \in Jobs /\ device' = device /\ store'["run"] = store["run"]
      /\ job'[c].at \in {"stopping", "mode", "write", "action", "single-mode"}
      /\ \A d \in Callers : job[d] = Free
      /\ \A d \in Callers : d # c => job'[d] = Free
      /\ DOMAIN ready' = {}
  BY <1>1, OneBegins DEF BeginsAlone, Starts
<1>3. ~InReady(c)'
  BY <1>2 DEF InReady
<1>4. store["run"] = "run" => device["run"] = "run"
  BY <1>1, <1>2 DEF RunShownInv, RunShown, Interrupts
<1>5. RunShown'
  BY <1>2, <1>4 DEF RunShown
<1>6. Ran(c)'
  BY <1>2, <1>3 DEF Ran
<1>7. \A d \in Callers : job'[d] # Free => Ran(d)'
  BY <1>2, <1>6
<1> QED
  BY <1>5, <1>7 DEF RunShownInv

\* A request that interrupts the acquisition is a control or an action.
LEMMA RestartsNoAction ==
  ASSUME NEW b, StageFits(b), b.restart
  PROVE  b.at \notin RunStages \cup {"single-mode"}
<1>1. b.request.kind # "action" /\ b.request.prop \in {"scale", "position"}
  BY DEF StageFits, Kinds
<1>2. b.at \notin {"action", "single", "single-mode"}
  BY <1>1 DEF StageFits
<1>3. b.at # "read-run"
  BY <1>1 DEF StageFits
<1> QED
  BY <1>2, <1>3 DEF RunStages

LEMMA RunShownMoves ==
  ASSUME RunShownInv, OneAtATime, NEW c \in Callers, NEW t, NEW t2, GoesAlone(c, t, t2),
         job[c].at \notin {"read-run", "action"} => store'["run"] = store["run"],
         job[c].at \in {"read-run", "action"} /\ store'["run"] = "run" => device["run"] = "run"
  PROVE  RunShownInv'
<1> DEFINE b == job[c]
           b2 == job'[c]
<1>1. /\ b \in Jobs /\ b # Free /\ StageFits(b)
      /\ b.at \in AnswerStages => InReady(c)
      /\ \A d \in Callers : d # c => job[d] = Free /\ job'[d] = Free
      /\ DOMAIN ready' = {} /\ device' = device
  BY FreeIsNoJob DEF GoesAlone, InFlight
<1>2. Follows(b, b2) \/ (Ends(b) /\ b2 = Free)
  BY DEF GoesAlone, Moves
<1>3. RunShown /\ Ran(c)
  BY <1>1 DEF RunShownInv
<1>4. ~InReady(c)'
  BY <1>1 DEF InReady
<1>5. b.at = "running" => InReady(c)
  BY <1>1 DEF AnswerStages
<1>6. ASSUME ~b.restart, b.at \notin RunStages, store'["run"] = "run" PROVE device["run"] = "run"
  <2>1. \A d \in Callers : ~Interrupts(job[d])
    BY <1>1, <1>6 DEF Interrupts
  <2>2. store'["run"] = store["run"]
    BY <1>6 DEF RunStages
  <2> QED
    BY <1>3, <1>6, <2>1, <2>2 DEF RunShown
<1>7. RunShown'
  <2> SUFFICES ASSUME ~Interrupts(b2), store'["run"] = "run" PROVE device["run"] = "run"
    BY <1>1 DEF RunShown
  <2>1. CASE Follows(b, b2)
    <3>1. b2 # Free /\ b2.restart = b.restart /\ NextStage(b, b2)
      BY <2>1, FreeIsNoJob DEF Follows
    <3>2. ~b.restart /\ b2.at \notin RunStages
      BY <3>1 DEF Interrupts
    <3>3. b.at \notin RunStages
      BY <3>1, <3>2 DEF NextStage, RunStages
    <3> QED
      BY <1>6, <3>2, <3>3
  <2>2. CASE Ends(b) /\ b.restart
    <3>1. b.at \notin RunStages \cup {"single-mode"}
      BY <1>1, <2>2, RestartsNoAction
    <3>2. b.at \in AnswerStages \cup TimerStages
      BY <1>1 DEF Jobs
    <3>3. b.at \in {"running", "rest", "read"}
      BY <2>2, <3>1, <3>2 DEF Ends, AnswerStages, TimerStages, RunStages
    <3> QED
      BY <1>3, <1>5, <2>2, <3>3 DEF Ran
  <2>3. CASE Ends(b) /\ b.at \in RunStages
    <3>1. b.at \in {"read-run", "action"}
      BY <2>3 DEF Ends, RunStages
    <3> QED
      BY <3>1
  <2> QED
    BY <1>2, <1>6, <2>1, <2>2, <2>3
<1>8. ASSUME b2 # Free PROVE Ran(c)'
  <2>1. b2.restart = b.restart /\ NextStage(b, b2)
    BY <1>2, <1>8 DEF Follows
  <2>2. ASSUME b2.restart, b2.at \in {"rest", "read"} PROVE device["run"] = "run"
    <3>1. b.at \in {"running", "rest"}
      BY <2>1, <2>2 DEF NextStage
    <3> QED
      BY <1>3, <1>5, <2>1, <2>2, <3>1 DEF Ran
  <2> QED
    BY <1>1, <1>4, <2>2 DEF Ran
<1>9. \A d \in Callers : job'[d] # Free => Ran(d)'
  BY <1>1, <1>8
<1> QED
  BY <1>7, <1>9 DEF RunShownInv

LEMMA RunShownResume ==
  ASSUME CInv, OneInv, RunShownInv, Resume
  PROVE  RunShownInv'
<1>1. workload' = workload
  BY DEF Resume
<1> SUFFICES ASSUME OneAtATime' PROVE RunShownInv'
  BY <1>1 DEF RunShownInv
<1>2. OneAtATime
  BY <1>1 DEF OneAtATime
<1>3. PICK c \in Callers, s \in States :
        /\ GoesAlone(c, timers, timers') /\ Continue(c, TRUE, s)
        /\ \E i \in DOMAIN ready : ready[i].by = c /\ ready[i].answer.state = s
  BY <1>2, OneResumed
<1>4. /\ InFlight(c) /\ job[c] # Free /\ job[c].revision = revision
  BY <1>3, FreeIsNoJob DEF GoesAlone, InFlight
<1>5. Ran(c) /\ InReady(c)
  BY <1>2, <1>3, <1>4 DEF RunShownInv, InReady
<1>6. /\ job[c].at \notin {"read-run", "action"} => store'["run"] = store["run"]
      /\ job[c].at = "read-run" => store'["run"] = s["run"]
      /\ job[c].at = "action" => store'["run"] = job[c].request.prop
  <2>1. PICK ok \in BOOLEAN : ok = TRUE
    OBVIOUS
  <2>2. Shows(c, ok, s) /\ ok
    BY <1>3, <1>4, <2>1, ContinueGoesOn
  <2> QED
    BY <1>4, <2>2 DEF Shows
<1>7. ASSUME job[c].at \in {"read-run", "action"}, store'["run"] = "run"
      PROVE  device["run"] = "run"
  <2>1. CASE job[c].at = "read-run"
    BY <1>3, <1>5, <1>6, <1>7, <2>1 DEF Ran
  <2>2. CASE job[c].at = "action"
    BY <1>5, <1>6, <1>7, <2>2 DEF Ran
  <2> QED
    BY <1>7, <2>1, <2>2
<1> QED
  BY <1>2, <1>3, <1>6, <1>7, RunShownMoves

LEMMA RunShownExpire ==
  ASSUME CInv, OneInv, RunShownInv, NEW i \in DOMAIN timers, Expire(i)
  PROVE  RunShownInv'
<1>1. workload' = workload
  BY DEF Expire
<1> SUFFICES ASSUME OneAtATime' PROVE RunShownInv'
  BY <1>1 DEF RunShownInv
<1>2. OneAtATime
  BY <1>1 DEF OneAtATime
<1>3. /\ timers[i].by \in Callers /\ GoesAlone(timers[i].by, RemoveAt(timers, i), timers')
      /\ job[timers[i].by].at \in TimerStages /\ store' = store
  BY <1>2, OneExpired
<1>4. PICK c \in Callers : c = timers[i].by
  BY <1>3
<1>0. PICK t : t = RemoveAt(timers, i)
  OBVIOUS
<1>5. GoesAlone(c, t, timers') /\ job[c].at \notin {"read-run", "action"}
  BY <1>0, <1>3, <1>4 DEF TimerStages
<1> QED
  BY <1>2, <1>3, <1>5, RunShownMoves

LEMMA RunShownFinish ==
  ASSUME CInv, OneInv, RunShownInv, FinishOperation
  PROVE  RunShownInv'
<1>1. PICK x \in [ok : {TRUE}, state : States] :
        Answered(x) /\ x.state = device /\ device' = Performed(active[1])
  BY FinishIs
<1>2. x \in [ok : BOOLEAN, state : States]
  BY <1>1
<1>3. /\ active # <<>> /\ workload' = workload /\ job' = job /\ store' = store
  BY <1>1 DEF Answered
<1> SUFFICES ASSUME OneAtATime' PROVE RunShownInv'
  BY <1>3 DEF RunShownInv
<1>4. OneAtATime
  BY <1>3 DEF OneAtATime
<1> DEFINE q == active[1]
<1>5. PICK c \in Callers :
        /\ c \in By(q) /\ \A d \in Callers : job[d] # Free => d = c
        /\ InReady(c)' /\ \A i \in DOMAIN ready' : ready'[i].by = c /\ ready'[i].answer = x
  BY <1>1, <1>2, <1>4, OneWaits
<1>6. /\ q \in Entries /\ job[c] \in Jobs /\ job[c] # Free /\ StageFits(job[c])
      /\ Expects(job[c], q)
  BY <1>3, <1>5, WaitingFor
<1>7. /\ q.cmd \notin Actions => device'["run"] = device["run"]
      /\ q.cmd \in Actions => device'["run"] = q.cmd
  BY <1>1, <1>6, PerformedIs DEF CInv, Typed
<1>8. RunShown /\ Ran(c)
  BY <1>4, <1>6 DEF RunShownInv
<1> HIDE DEF q
<1> DEFINE b == job[c]
<1>9. RunShown'
  <2> SUFFICES ASSUME \A d \in Callers : ~Interrupts(job[d]), store["run"] = "run"
               PROVE  device'["run"] = "run"
    BY <1>3 DEF RunShown
  <2>1. device["run"] = "run"
    BY <1>8 DEF RunShown
  <2>2. ~b.restart /\ b.at \notin RunStages
    BY <1>6 DEF Interrupts
  <2>3. b.at \notin {"stopping", "running"}
    BY <1>6, <2>2 DEF StageFits
  <2>4. q.cmd \notin Actions
    BY <1>6, <2>2, <2>3 DEF Expects, RunStages, Actions
  <2> QED
    BY <1>7, <2>1, <2>4
<1>10. Ran(c)'
  <2>1. ASSUME b.restart, b.at \in {"rest", "read"} PROVE device'["run"] = "run"
    <3>1. b.at = "read" /\ q.cmd = "read"
      BY <1>6, <2>1 DEF Expects
    <3>2. device["run"] = "run"
      BY <1>8, <2>1 DEF Ran
    <3> QED
      BY <1>7, <3>1, <3>2 DEF Actions
  <2>2. ASSUME b.at = "running" PROVE device'["run"] = "run"
    BY <1>6, <1>7, <2>2 DEF Expects, Actions
  <2>3. ASSUME b.at = "action", b.request.prop = "run" PROVE device'["run"] = "run"
    BY <1>6, <1>7, <2>3 DEF Expects, Actions
  <2>4. ASSUME b.at = "read-run", NEW i \in DOMAIN ready',
               ready'[i].answer.state["run"] = "run"
        PROVE  device'["run"] = "run"
    <3>1. device'["run"] = device["run"]
      BY <1>6, <1>7, <2>4 DEF Expects, Actions
    <3>2. ready'[i].answer.state = device
      BY <1>1, <1>5
    <3> QED
      BY <2>4, <3>1, <3>2
  <2> QED
    BY <1>3, <2>1, <2>2, <2>3, <2>4 DEF Ran
<1>11. \A d \in Callers : job'[d] # Free => Ran(d)'
  BY <1>3, <1>5, <1>10
<1> QED
  BY <1>9, <1>11 DEF RunShownInv

LEMMA RunShownNext ==
  ASSUME CInv, OneInv, RunShownInv, [ControllerNext]_controllerVars
  PROVE  RunShownInv'
<1>1. CASE \E c \in Callers : \E r \in workload.requests : Begin(c, r)
  BY <1>1, RunShownBegin
<1>2. CASE StartOperation
  <2>1. /\ job' = job /\ store' = store /\ ready' = ready /\ workload' = workload
        /\ device' = device
    BY <1>2, StartedIs
  <2> QED
    BY <2>1, RunShownFrame
<1>3. CASE FinishOperation
  BY <1>3, RunShownFinish
<1>4. CASE RefuseAnswer
  <2>1. failures < workload.refusals /\ workload' = workload /\ failures \in Nat
    BY <1>4 DEF RefuseAnswer, CInv, Typed
  <2> QED
    BY <2>1 DEF RunShownInv, OneAtATime
<1>5. CASE TriggerSingle
  <2>1. /\ job' = job /\ store' = store /\ ready' = ready /\ workload' = workload
        /\ device["run"] = "single"
    BY <1>5 DEF TriggerSingle
  <2> QED
    BY <2>1, RunShownFrame
<1>6. CASE Resume
  BY <1>6, RunShownResume
<1>7. CASE \E i \in DOMAIN timers : Expire(i)
  BY <1>7, RunShownExpire
<1>8. CASE UNCHANGED controllerVars
  <2>1. /\ job' = job /\ store' = store /\ ready' = ready /\ workload' = workload
        /\ device' = device
    BY <1>8 DEF controllerVars
  <2> QED
    BY <2>1, RunShownFrame
<1> QED
  BY <1>1, <1>2, <1>3, <1>4, <1>5, <1>6, <1>7, <1>8 DEF ControllerNext

-----------------------------------------------------------------------------
(* Discrete controls of several browsers: writes reach the scope in the    *)
(* order in which they were asked for.                                     *)

\* What is on the wire and what waits for it, in the order in which it goes.
Bus == active \o pending

Writes(q, x) == q.cmd = "write" /\ q.prop = x

\* The last write of a setting on its way has the value asked for last, or else
\* the scope has what it makes of it.
LastIsAsked(s, d, k) ==
  \A x \in Trigger :
    /\ (\A i \in DOMAIN s : ~Writes(s[i], x)) => d[x] = Coerce[k[x]]
    /\ \A i \in DOMAIN s :
         Writes(s[i], x) /\ (\A l \in DOMAIN s : l > i => ~Writes(s[l], x)) => s[i].value = k[x]

\* No write is on its way after that of the newest request.
NewestIsLast(s, j, v) ==
  \A c \in Callers : j[c] # Free /\ j[c].revision = v =>
    \A i \in DOMAIN s : s[i].cmd = "write" =>
      /\ j[c].at = "write"
      /\ \E l \in DOMAIN s : l >= i /\ s[l].cmd = "write" /\ c \in By(s[l])

DiscreteShown ==
  /\ \A p \in Plain : store[p] \in {asked[p], Coerce[asked[p]]}
  /\ \A p \in Horizontal : store[p] = 0 /\ device[p] = 0 /\ asked[p] = 0
  /\ store["run"] = "run" /\ device["run"] = "run"

\* What is to be read back for the newest request is what the scope makes of
\* the values asked for last.
DiscreteReady ==
  \A i \in DOMAIN ready :
    /\ ready[i].answer.state["run"] = "run"
    /\ job[ready[i].by].at = "read" /\ job[ready[i].by].revision = revision =>
         \A x \in Trigger : ready[i].answer.state[x] = Coerce[asked[x]]

DiscreteInv ==
  OnlyDiscrete =>
    /\ DiscreteShown /\ DiscreteReady
    /\ \A c \in Callers : job[c] # Free => job[c].revision <= revision
    /\ \A i \in DOMAIN pending : pending[i].priority = Normal
    /\ LastIsAsked(Bus, device, asked) /\ NewestIsLast(Bus, job, revision)

LEMMA JoinedIs ==
  ASSUME NEW S, NEW a \in Seq(S), NEW p \in Seq(S)
  PROVE  /\ a \o p \in Seq(S) /\ Len(a \o p) = Len(a) + Len(p)
         /\ \A i \in 1 .. Len(a) + Len(p) :
              (a \o p)[i] = IF i <= Len(a) THEN a[i] ELSE p[i - Len(a)]
  BY ConcatProperties

LEMMA BusIs ==
  ASSUME CInv
  PROVE  /\ Bus \in Seq(Entries)
         /\ active = <<>> => Bus = pending
         /\ active # <<>> => Bus # <<>> /\ Bus[1] = active[1] /\ Tail(Bus) = pending
<1>1. pending \in Seq(Entries) /\ (active = <<>> \/ \E q \in Entries : active = <<q>>)
  BY DEF CInv, Typed
<1>2. CASE active = <<>>
  BY <1>1, <1>2 DEF Bus
<1>3. ASSUME NEW q \in Entries, active = <<q>>
      PROVE  Bus \in Seq(Entries) /\ Bus # <<>> /\ Bus[1] = q /\ Tail(Bus) = pending
  <2>1. active \in Seq(Entries) /\ Len(active) = 1 /\ active[1] = q
    BY <1>3
  <2> DEFINE n == Len(active)
             m == Len(pending)
  <2>a. /\ active \o pending \in Seq(Entries) /\ Len(active \o pending) = n + m
        /\ \A i \in 1 .. n + m :
             (active \o pending)[i] = IF i <= n THEN active[i] ELSE pending[i - n]
    BY <1>1, <2>1, JoinedIs
  <2>8. /\ Bus \in Seq(Entries) /\ Len(Bus) = n + m
        /\ \A i \in 1 .. n + m : Bus[i] = IF i <= n THEN active[i] ELSE pending[i - n]
    BY <2>a, Zenon DEF Bus
  <2>9. n = 1 /\ m \in Nat
    BY <1>1, <2>1
  <2> HIDE DEF n, m
  <2>2. /\ Bus \in Seq(Entries) /\ Len(Bus) = Len(pending) + 1
        /\ \A i \in 1 .. Len(Bus) : Bus[i] = IF i <= 1 THEN active[i] ELSE pending[i - 1]
    BY <2>8, <2>9 DEF m
  <2>3. Len(pending) \in Nat /\ Bus # <<>> /\ Bus[1] = q
    BY <1>1, <2>1, <2>2
  <2>4. /\ Tail(Bus) \in Seq(Entries) /\ DOMAIN Tail(Bus) = 1 .. Len(Bus) - 1
        /\ \A i \in DOMAIN Tail(Bus) : Tail(Bus)[i] = Bus[i + 1]
    BY <2>2, <2>3, TailIs
  <2>5. \A i \in 1 .. Len(pending) : Tail(Bus)[i] = pending[i]
    BY <2>2, <2>3, <2>4
  <2>6. Len(Tail(Bus)) = Len(pending)
    BY <2>2, <2>3, <2>4
  <2>7. Tail(Bus) = pending
    BY <1>1, <2>4, <2>5, <2>6, SeqEqual
  <2> QED
    BY <2>2, <2>3, <2>7
<1> QED
  BY <1>1, <1>2, <1>3

\* An operation that writes nothing is sent.
LEMMA LastAppended ==
  ASSUME NEW s \in Seq(Entries), NEW e \in Entries, e.cmd # "write", NEW d, NEW k,
         LastIsAsked(s, d, k)
  PROVE  LastIsAsked(Append(s, e), d, k)
<1> DEFINE u == Append(s, e)
           n == Len(s)
<1>1. /\ n \in Nat /\ DOMAIN s = 1 .. n /\ DOMAIN u = 1 .. n + 1
      /\ \A i \in 1 .. n + 1 : u[i] = IF i <= n THEN s[i] ELSE e
  BY AppendIs
<1> HIDE DEF u, n
<1>2. ASSUME NEW x, NEW i \in DOMAIN u, Writes(u[i], x)
      PROVE  i \in DOMAIN s /\ Writes(s[i], x) /\ u[i] = s[i]
  BY <1>1, <1>2 DEF Writes
<1>3. \A i \in DOMAIN s : i \in DOMAIN u /\ u[i] = s[i]
  BY <1>1
<1>4. ASSUME NEW x \in Trigger, \A i \in DOMAIN u : ~Writes(u[i], x) PROVE d[x] = Coerce[k[x]]
  BY <1>3, <1>4 DEF LastIsAsked
<1>5. ASSUME NEW x \in Trigger, NEW i \in DOMAIN u, Writes(u[i], x),
             \A l \in DOMAIN u : l > i => ~Writes(u[l], x)
      PROVE  u[i].value = k[x]
  <2>1. i \in DOMAIN s /\ Writes(s[i], x) /\ u[i] = s[i]
    BY <1>2, <1>5
  <2>2. \A l \in DOMAIN s : l > i => ~Writes(s[l], x)
    BY <1>3, <1>5
  <2> QED
    BY <2>1, <2>2 DEF LastIsAsked
<1> QED
  BY <1>4, <1>5 DEF LastIsAsked, u

\* The write of a new request is sent.
LEMMA LastWritten ==
  ASSUME NEW s \in Seq(Entries), NEW e \in Entries, e.cmd = "write", NEW d, NEW k, NEW k2,
         k2[e.prop] = e.value, \A x \in Trigger : x # e.prop => k2[x] = k[x],
         LastIsAsked(s, d, k)
  PROVE  LastIsAsked(Append(s, e), d, k2)
<1> DEFINE u == Append(s, e)
           n == Len(s)
<1>1. /\ n \in Nat /\ DOMAIN s = 1 .. n /\ DOMAIN u = 1 .. n + 1
      /\ \A i \in 1 .. n + 1 : u[i] = IF i <= n THEN s[i] ELSE e
  BY AppendIs
<1> HIDE DEF u, n
<1>2. n + 1 \in DOMAIN u /\ u[n + 1] = e /\ Writes(u[n + 1], e.prop)
  BY <1>1 DEF Writes
<1>3. \A i \in DOMAIN s : i \in DOMAIN u /\ u[i] = s[i] /\ n + 1 > i
  BY <1>1
<1>4. ASSUME NEW x \in Trigger, \A i \in DOMAIN u : ~Writes(u[i], x) PROVE d[x] = Coerce[k2[x]]
  <2>1. x # e.prop
    BY <1>2, <1>4
  <2> QED
    BY <1>3, <1>4, <2>1 DEF LastIsAsked
<1>5. ASSUME NEW x \in Trigger, NEW i \in DOMAIN u, Writes(u[i], x),
             \A l \in DOMAIN u : l > i => ~Writes(u[l], x)
      PROVE  u[i].value = k2[x]
  <2>1. CASE i = n + 1
    BY <1>2, <1>5, <2>1 DEF Writes
  <2>2. CASE i # n + 1
    <3>1. i \in DOMAIN s /\ u[i] = s[i]
      BY <1>1, <2>2
    <3>2. x # e.prop
      BY <1>2, <1>3, <1>5, <3>1
    <3>3. \A l \in DOMAIN s : l > i => ~Writes(s[l], x)
      BY <1>3, <1>5
    <3> QED
      BY <1>5, <3>1, <3>2, <3>3 DEF LastIsAsked
  <2> QED
    BY <2>1, <2>2
<1> QED
  BY <1>4, <1>5 DEF LastIsAsked, u

\* The first operation is done.
LEMMA LastDone ==
  ASSUME NEW s \in Seq(Entries), s # <<>>, NEW d, NEW d2, NEW k,
         \A x \in Trigger : d2[x] = IF Writes(s[1], x) THEN Coerce[s[1].value] ELSE d[x],
         LastIsAsked(s, d, k)
  PROVE  LastIsAsked(Tail(s), d2, k)
<1> DEFINE u == Tail(s)
<1>1. /\ 1 \in DOMAIN s /\ DOMAIN s = 1 .. Len(s) /\ Len(s) \in Nat
      /\ \A i \in DOMAIN u : i \in Nat /\ i + 1 \in DOMAIN s /\ u[i] = s[i + 1]
      /\ \A i \in DOMAIN s : i # 1 => i - 1 \in DOMAIN u /\ u[i - 1] = s[i]
  BY TailIs
<1> HIDE DEF u
<1>2. ASSUME NEW x \in Trigger, \A i \in DOMAIN u : ~Writes(u[i], x) PROVE d2[x] = Coerce[k[x]]
  <2>1. \A i \in DOMAIN s : i # 1 => ~Writes(s[i], x)
    BY <1>1, <1>2
  <2>2. CASE Writes(s[1], x)
    <3>1. \A l \in DOMAIN s : l > 1 => ~Writes(s[l], x)
      BY <1>1, <2>1
    <3> QED
      BY <1>1, <2>2, <3>1 DEF LastIsAsked
  <2>3. CASE ~Writes(s[1], x)
    BY <2>1, <2>3 DEF LastIsAsked
  <2> QED
    BY <2>2, <2>3
<1>3. ASSUME NEW x \in Trigger, NEW i \in DOMAIN u, Writes(u[i], x),
             \A l \in DOMAIN u : l > i => ~Writes(u[l], x)
      PROVE  u[i].value = k[x]
  <2>1. i \in Nat /\ i + 1 \in DOMAIN s /\ u[i] = s[i + 1]
    BY <1>1
  <2>2. ASSUME NEW l \in DOMAIN s, l > i + 1 PROVE ~Writes(s[l], x)
    <3>1. l \in Nat /\ l # 1 /\ l - 1 > i
      BY <1>1, <2>1, <2>2
    <3> QED
      BY <1>1, <1>3, <3>1
  <2> QED
    BY <1>3, <2>1, <2>2 DEF LastIsAsked
<1> QED
  BY <1>2, <1>3 DEF LastIsAsked, u

\* The newest request is that of c, and its write is the last.
LEMMA NewestWritten ==
  ASSUME NEW s \in Seq(Entries), NEW e \in Entries, e.cmd = "write", NEW c \in Callers,
         c \in By(e), NEW j, NEW v, j[c].at = "write",
         \A d \in Callers \ {c} : j[d] # Free => j[d].revision # v
  PROVE  NewestIsLast(Append(s, e), j, v)
<1> DEFINE u == Append(s, e)
           n == Len(s)
<1>1. /\ n \in Nat /\ DOMAIN s = 1 .. n /\ DOMAIN u = 1 .. n + 1
      /\ \A i \in 1 .. n + 1 : u[i] = IF i <= n THEN s[i] ELSE e
  BY AppendIs
<1> HIDE DEF u, n
<1>2. n + 1 \in DOMAIN u /\ u[n + 1] = e /\ \A i \in DOMAIN u : n + 1 >= i
  BY <1>1
<1> QED
  BY <1>2 DEF NewestIsLast, u

\* The request of c goes on: it waits for no write any longer.
LEMMA NewestKept ==
  ASSUME NEW s, NEW c \in Callers, \A i \in DOMAIN s : c \notin By(s[i]),
         NEW j, NEW j2, NEW v, NewestIsLast(s, j, v), \A d \in Callers \ {c} : j2[d] = j[d],
         j2[c] # Free => j[c] # Free /\ j2[c].revision = j[c].revision
  PROVE  NewestIsLast(s, j2, v)
<1>1. ASSUME NEW d \in Callers, j2[d] # Free, j2[d].revision = v,
             NEW i \in DOMAIN s, s[i].cmd = "write"
      PROVE  /\ j2[d].at = "write"
             /\ \E l \in DOMAIN s : l >= i /\ s[l].cmd = "write" /\ d \in By(s[l])
  <2>1. CASE d = c
    <3>1. \E l \in DOMAIN s : c \in By(s[l])
      BY <1>1, <2>1 DEF NewestIsLast
    <3> QED
      BY <3>1
  <2>2. CASE d # c
    BY <1>1, <2>2 DEF NewestIsLast
  <2> QED
    BY <2>1, <2>2
<1> QED
  BY <1>1 DEF NewestIsLast

LEMMA NewestSent ==
  ASSUME NEW s \in Seq(Entries), NEW e \in Entries, e.cmd # "write", NEW j, NEW v,
         NewestIsLast(s, j, v)
  PROVE  NewestIsLast(Append(s, e), j, v)
<1> DEFINE u == Append(s, e)
           n == Len(s)
<1>1. /\ n \in Nat /\ DOMAIN s = 1 .. n /\ DOMAIN u = 1 .. n + 1
      /\ \A i \in 1 .. n + 1 : u[i] = IF i <= n THEN s[i] ELSE e
  BY AppendIs
<1> HIDE DEF u, n
<1>2. /\ \A i \in DOMAIN s : i \in DOMAIN u /\ u[i] = s[i]
      /\ \A i \in DOMAIN u : u[i].cmd = "write" => i \in DOMAIN s /\ u[i] = s[i]
  BY <1>1
<1> QED
  BY <1>2 DEF NewestIsLast, u

LEMMA NewestDone ==
  ASSUME NEW s \in Seq(Entries), s # <<>>, NEW j, NEW v, NewestIsLast(s, j, v)
  PROVE  NewestIsLast(Tail(s), j, v)
<1> DEFINE u == Tail(s)
<1>1. /\ DOMAIN s = 1 .. Len(s) /\ Len(s) \in Nat
      /\ \A i \in DOMAIN u : i \in Nat /\ i + 1 \in DOMAIN s /\ i + 1 # 1 /\ u[i] = s[i + 1]
      /\ \A i \in DOMAIN s : i # 1 => i - 1 \in DOMAIN u /\ u[i - 1] = s[i]
  BY TailIs
<1> HIDE DEF u
<1>2. ASSUME NEW d \in Callers, j[d] # Free, j[d].revision = v,
             NEW i \in DOMAIN u, u[i].cmd = "write"
      PROVE  /\ j[d].at = "write"
             /\ \E l \in DOMAIN u : l >= i /\ u[l].cmd = "write" /\ d \in By(u[l])
  <2>1. i \in Nat /\ i + 1 \in DOMAIN s /\ s[i + 1].cmd = "write"
    BY <1>1, <1>2
  <2>2. j[d].at = "write"
    BY <1>2, <2>1 DEF NewestIsLast
  <2>3. PICK l \in DOMAIN s : l >= i + 1 /\ s[l].cmd = "write" /\ d \in By(s[l])
    BY <1>2, <2>1 DEF NewestIsLast
  <2>4. l \in Nat /\ l # 1 /\ l - 1 >= i
    BY <1>1, <2>1, <2>3
  <2>5. l - 1 \in DOMAIN u /\ u[l - 1] = s[l]
    BY <1>1, <2>3, <2>4
  <2> QED
    BY <2>2, <2>3, <2>4, <2>5
<1> QED
  BY <1>2 DEF NewestIsLast, u

LEMMA DiscreteInit == ControllerInit => DiscreteInv
<1> SUFFICES ASSUME ControllerInit PROVE DiscreteInv
  OBVIOUS
<1>1. /\ store = device /\ asked = device /\ device["run"] = "run"
      /\ DOMAIN ready = {} /\ DOMAIN pending = {} /\ pending = <<>> /\ active = <<>>
      /\ \A c \in Callers : job[c] = Free
  BY DEF ControllerInit
<1>2. Bus = pending
  BY <1>1, CInvInit, BusIs
<1>3. LastIsAsked(Bus, device, asked) /\ NewestIsLast(Bus, job, revision)
  <2>1. \A x \in Trigger : device[x] = Coerce[asked[x]]
    BY <1>1, PlainIs, ControllerAssumption DEF ControllerInit, AllProps, Trigger
  <2> QED
    BY <1>1, <1>2, <2>1 DEF LastIsAsked, NewestIsLast
<1>4. DiscreteShown /\ DiscreteReady
  <2>1. /\ \A p \in Plain : device[p] = 0 /\ Coerce[asked[p]] = 0
        /\ \A p \in Horizontal : device[p] = 0
    BY <1>1, PlainIs, ControllerAssumption
         DEF ControllerInit, AllProps, ControlSettings, Horizontal
  <2> QED
    BY <1>1, <2>1 DEF DiscreteShown, DiscreteReady
<1> QED
  BY <1>1, <1>3, <1>4 DEF DiscreteInv

\* A discrete control is a write, then an answer, then the run state.
LEMMA DiscreteStages ==
  ASSUME NEW b, b \in Jobs, StageFits(b), b.request.kind = "set", b.request.prop \in Trigger
  PROVE  ~b.restart /\ b.at \in {"write", "read", "read-run"}
<1>1. b.request.prop \notin {"scale", "position"} /\ b.request.kind # "action"
  BY DEF Trigger
<1>2. ~b.restart /\ ~b.crossing
  BY <1>1 DEF StageFits
<1>3. b.at \notin {"stopping", "settle", "running", "rest", "mode"}
  BY <1>2 DEF StageFits
<1>4. b.at \notin {"check", "action", "single-mode", "single"}
  BY <1>1 DEF StageFits
<1>5. b.at \in AnswerStages \cup TimerStages
  BY DEF Jobs
<1> QED
  BY <1>2, <1>3, <1>4, <1>5 DEF AnswerStages, TimerStages

LEMMA DiscreteJob ==
  ASSUME CInv, OnlyDiscrete, NEW c \in Callers, job[c] # Free
  PROVE  /\ job[c] \in Jobs /\ StageFits(job[c])
         /\ job[c].request.kind = "set" /\ job[c].request.prop \in Trigger
         /\ ~job[c].restart /\ job[c].at \in {"write", "read", "read-run"}
<1>1. /\ job[c] \in Jobs /\ StageFits(job[c]) /\ job[c].request \in workload.requests
  BY RequestOf
<1>2. job[c].request.kind = "set" /\ job[c].request.prop \in Trigger
  BY <1>1 DEF OnlyDiscrete
<1> QED
  BY <1>1, <1>2, DiscreteStages

\* What it sends is queued behind all others.
LEMMA DiscreteSent ==
  ASSUME CInv, NEW o \in Entries, NEW c \in Callers, o.priority = Normal,
         pending' = Enqueued(o, c), active' = active,
         \A i \in DOMAIN pending : pending[i].priority = Normal
  PROVE  \E e \in Entries :
           /\ e.cmd = o.cmd /\ e.prop = o.prop /\ e.value = o.value /\ By(e) = {c}
           /\ Bus' = Append(Bus, e)
           /\ \A i \in DOMAIN pending' : pending'[i].priority = Normal
<1>1. ~HasStale(o)
  BY DEF HasStale, IsStale, Coalesces
<1>2. PICK e : e = [o EXCEPT !.by = <<c>>]
  OBVIOUS
<1>3. e \in Entries /\ e.cmd = o.cmd /\ e.prop = o.prop /\ By(e) = {c}
  BY <1>2, SentAlone
<1>4. e.value = o.value /\ e.priority = Normal
  BY <1>2 DEF Entries
<1>5. pending' = Append(pending, e)
  BY <1>1, <1>2 DEF Enqueued, WaitersOf
<1>6. \A i \in DOMAIN pending' : pending'[i].priority = Normal
  <2>1. pending \in Seq(Entries)
    BY DEF CInv, Typed
  <2>2. /\ Len(pending) \in Nat /\ DOMAIN pending = 1 .. Len(pending)
        /\ DOMAIN pending' = 1 .. Len(pending) + 1
        /\ \A i \in 1 .. Len(pending) + 1 :
             pending'[i] = IF i <= Len(pending) THEN pending[i] ELSE e
    BY <1>3, <1>5, <2>1, AppendIs
  <2> QED
    BY <1>4, <2>2
<1>7. active \o Append(pending, e) = Append(active \o pending, e)
  <2>1. /\ pending \in Seq(Entries)
        /\ active = <<>> \/ \E q \in Entries : active = <<q>>
    BY DEF CInv, Typed
  <2>2. CASE active = <<>>
    <3>1. active \in Seq(Entries)
      BY <2>2
    <3> QED
      BY <1>3, <2>1, <3>1
  <2>3. ASSUME NEW q \in Entries, active = <<q>>
        PROVE  active \o Append(pending, e) = Append(active \o pending, e)
    <3>1. active \in Seq(Entries)
      BY <2>3
    <3> QED
      BY <1>3, <2>1, <3>1
  <2> QED
    BY <2>1, <2>2, <2>3
<1>8. Bus' = Append(Bus, e)
  BY <1>5, <1>7 DEF Bus
<1> QED
  BY <1>3, <1>4, <1>6, <1>8

LEMMA DiscreteBegin ==
  ASSUME CInv, asked \in States, DiscreteInv, NEW c \in Callers, NEW r \in workload.requests,
         Begin(c, r)
  PROVE  DiscreteInv'
<1>1. /\ Starts(c, r) /\ ready = <<>> /\ revision' = revision + 1
      /\ UNCHANGED <<workload, device, active, ready, timers, failures>>
  BY BeginStarts
<1> SUFFICES ASSUME OnlyDiscrete' PROVE DiscreteInv'
  BY DEF DiscreteInv
<1>2. OnlyDiscrete
  BY <1>1 DEF OnlyDiscrete
<1>3. r.kind = "set" /\ r.kind \in Kinds /\ r.prop \in Trigger /\ r.prop \in Plain
  BY <1>2, PlainIs DEF OnlyDiscrete, Kinds
<1>4. /\ DiscreteShown
      /\ \A d \in Callers : job[d] # Free => job[d].revision <= revision
      /\ \A i \in DOMAIN pending : pending[i].priority = Normal
      /\ LastIsAsked(Bus, device, asked) /\ NewestIsLast(Bus, job, revision)
  BY <1>2 DEF DiscreteInv
<1>5. \A p \in AllProps : /\ store'[p] = (IF p = r.prop THEN r.value ELSE store[p])
                          /\ asked'[p] = (IF p = r.prop THEN r.value ELSE asked[p])
  BY <1>3, BeginShows
<1>6. /\ \A d \in Callers \ {c} : job'[d] = job[d]
      /\ job'[c] \in Jobs /\ StageFits(job'[c]) /\ job'[c].request = r
      /\ job'[c].revision = revision'
      /\ job'[c].at \in {"stopping", "mode", "write", "action", "single-mode"}
      /\ \E o \in Entries : Sends(c, o, pending', job')
  BY <1>1 DEF Starts
<1>7. job'[c].at = "write" /\ job'[c] # Free
  BY <1>3, <1>6, DiscreteStages, FreeIsNoJob
<1>8. PICK o \in Entries : /\ pending' = Enqueued(o, c) /\ o.cmd = "write" /\ o.prop = r.prop
                           /\ o.value = r.value /\ o.priority = Normal
  <2>1. PICK o \in Entries : Sends(c, o, pending', job')
    BY <1>6
  <2>2. o.cmd = "write" /\ o.prop = r.prop
    BY <1>6, <1>7, <2>1 DEF Sends, Expects
  <2> QED
    BY <1>3, <1>6, <2>1, <2>2 DEF Sends, Carries
<1>9. PICK e \in Entries :
        /\ e.cmd = "write" /\ e.prop = r.prop /\ e.value = r.value /\ By(e) = {c}
        /\ Bus' = Append(Bus, e) /\ \A i \in DOMAIN pending' : pending'[i].priority = Normal
  BY <1>1, <1>4, <1>8, DiscreteSent
<1>10. revision \in Nat /\ Bus \in Seq(Entries)
  BY BusIs DEF CInv, Typed
<1>11. LastIsAsked(Bus', device', asked')
  <2>1. \A x \in Trigger : x \in AllProps
    BY PlainIs
  <2>2. PICK k2 : k2 = asked'
    OBVIOUS
  <2>3. k2[e.prop] = e.value /\ \A x \in Trigger : x # e.prop => k2[x] = asked[x]
    BY <1>3, <1>5, <1>9, <2>1, <2>2
  <2>4. LastIsAsked(Append(Bus, e), device, k2)
    BY <1>4, <1>9, <1>10, <2>3, LastWritten
  <2> QED
    BY <1>1, <1>9, <2>2, <2>4
<1>12. NewestIsLast(Bus', job', revision')
  <2>1. PICK j, v : j = job' /\ v = revision'
    OBVIOUS
  <2>2. \A d \in Callers \ {c} : j[d] # Free => j[d].revision # v
    <3>1. ASSUME NEW d \in Callers \ {c}, job[d] # Free PROVE job[d].revision # revision + 1
      <4>1. job[d].revision \in Nat
        BY <3>1, RequestOf DEF Jobs
      <4> QED
        BY <1>4, <1>10, <3>1, <4>1
    <3> QED
      BY <1>1, <1>6, <2>1, <3>1
  <2>3. NewestIsLast(Append(Bus, e), j, v)
    BY <1>7, <1>9, <1>10, <2>1, <2>2, NewestWritten
  <2> QED
    BY <1>9, <2>1, <2>3
<1>13. \A d \in Callers : job'[d] # Free => job'[d].revision <= revision'
  <2>1. ASSUME NEW d \in Callers, job'[d] # Free PROVE job'[d].revision <= revision'
    <3>1. CASE d = c
      BY <1>1, <1>6, <1>10, <3>1
    <3>2. CASE d # c
      <4>1. job'[d] = job[d] /\ job[d] # Free
        BY <1>6, <2>1, <3>2
      <4>2. job[d].revision \in Nat /\ job[d].revision <= revision
        BY <1>4, <4>1, RequestOf DEF Jobs
      <4> QED
        BY <1>1, <1>10, <4>1, <4>2
    <3> QED
      BY <3>1, <3>2
  <2> QED
    BY <2>1
<1>14. DiscreteShown'
  <2>1. \A p \in Plain : p \in AllProps
    BY PlainIs
  <2>2. \A p \in Plain : store'[p] \in {asked'[p], Coerce[asked'[p]]}
    BY <1>4, <1>5, <2>1 DEF DiscreteShown
  <2>3. \A p \in Horizontal : p \in AllProps /\ p # r.prop
    BY <1>3 DEF Horizontal, Trigger, AllProps, ControlSettings
  <2>4. "run" \in AllProps /\ "run" # r.prop
    BY <1>3, PlainIs
  <2> QED
    BY <1>1, <1>4, <1>5, <2>2, <2>3, <2>4 DEF DiscreteShown
<1>15. DiscreteReady'
  BY <1>1 DEF DiscreteReady
<1> QED
  BY <1>9, <1>11, <1>12, <1>13, <1>14, <1>15 DEF DiscreteInv

LEMMA DiscreteStart ==
  ASSUME CInv, DiscreteInv, StartOperation
  PROVE  DiscreteInv'
<1>1. PICK i \in DOMAIN pending :
        /\ active = <<>> /\ First(i) /\ active' = <<pending[i]>> /\ pending' = RemoveAt(pending, i)
  BY DEF StartOperation
<1>2. /\ workload' = workload /\ store' = store /\ device' = device /\ revision' = revision
      /\ job' = job /\ ready' = ready /\ asked' = asked
  BY DEF StartOperation
<1> SUFFICES ASSUME OnlyDiscrete' PROVE DiscreteInv'
  BY DEF DiscreteInv
<1>3. OnlyDiscrete
  BY <1>2 DEF OnlyDiscrete
<1>4. /\ DiscreteShown /\ DiscreteReady
      /\ \A d \in Callers : job[d] # Free => job[d].revision <= revision
      /\ \A m \in DOMAIN pending : pending[m].priority = Normal
      /\ LastIsAsked(Bus, device, asked) /\ NewestIsLast(Bus, job, revision)
  BY <1>3 DEF DiscreteInv
<1>5. pending \in Seq(Entries)
  BY DEF CInv, Typed
<1>6. i = 1
  <2>1. DOMAIN pending = 1 .. Len(pending) /\ Len(pending) \in Nat
    BY <1>5
  <2>2. ASSUME i # 1 PROVE FALSE
    <3>1. 1 \in DOMAIN pending /\ 1 \in 1 .. i - 1
      BY <2>1, <2>2
    <3>2. pending[1].priority > pending[i].priority
      BY <1>1, <3>1 DEF First
    <3> QED
      BY <1>4, <3>1, <3>2 DEF Normal
  <2> QED
    BY <2>2
<1>7. Bus' = Bus
  <2>1. Bus = pending
    BY <1>1, BusIs
  <2>2. CInv'
    BY StartOperationKeeps
  <2>3. active' # <<>> /\ active'[1] = pending[1]
    BY <1>1, <1>6
  <2>4. Bus' \in Seq(Entries) /\ Bus' # <<>> /\ Bus'[1] = pending[1] /\ Tail(Bus') = pending'
    <3> DEFINE P == CInv => /\ Bus \in Seq(Entries)
                            /\ active # <<>> =>
                                 Bus # <<>> /\ Bus[1] = active[1] /\ Tail(Bus) = pending
    <3>1. P'
      BY BusIs, PTL
    <3> QED
      BY <2>2, <2>3, <3>1
  <2>5. PICK u : u = Bus'
    OBVIOUS
  <2>6. /\ u \in Seq(Entries) /\ u # <<>> /\ u[1] = pending[1] /\ Tail(u) = RemoveAt(pending, 1)
    BY <1>1, <1>6, <2>4, <2>5
  <2>7. u = pending
    <3>1. /\ DOMAIN RemoveAt(pending, 1) = 1 .. Len(pending) - 1
          /\ \A m \in 1 .. Len(pending) - 1 : RemoveAt(pending, 1)[m] = pending[m + 1]
          /\ Len(pending) \in Nat /\ Len(pending) >= 1
      BY <1>5, <1>6, RemoveAtIs
    <3>2. /\ Len(u) \in Nat /\ DOMAIN u = 1 .. Len(u) /\ DOMAIN Tail(u) = 1 .. Len(u) - 1
          /\ \A m \in DOMAIN u : m # 1 => m - 1 \in DOMAIN Tail(u) /\ Tail(u)[m - 1] = u[m]
          /\ 1 \in DOMAIN u
      BY <2>6, TailIs
    <3>3. Len(u) = Len(pending)
      <4>1. 1 .. Len(u) - 1 = 1 .. Len(pending) - 1 /\ Len(u) >= 1
        BY <2>6, <3>1, <3>2
      <4>2. ASSUME Len(u) < Len(pending) PROVE FALSE
        <5>1. Len(u) \in 1 .. Len(pending) - 1 /\ Len(u) \notin 1 .. Len(u) - 1
          BY <3>1, <3>2, <4>1, <4>2
        <5> QED
          BY <4>1, <5>1
      <4>3. ASSUME Len(u) > Len(pending) PROVE FALSE
        <5>1. Len(pending) \in 1 .. Len(u) - 1 /\ Len(pending) \notin 1 .. Len(pending) - 1
          BY <3>1, <3>2, <4>1, <4>3
        <5> QED
          BY <4>1, <5>1
      <4> QED
        BY <3>1, <3>2, <4>2, <4>3
    <3>4. ASSUME NEW m \in 1 .. Len(u) PROVE u[m] = pending[m]
      <4>1. CASE m = 1
        BY <2>6, <4>1
      <4>2. CASE m # 1
        <5>1. m - 1 \in 1 .. Len(pending) - 1 /\ m - 1 + 1 = m
          BY <3>1, <3>3, <4>2
        <5>2. u[m] = RemoveAt(pending, 1)[m - 1]
          BY <2>6, <3>2, <4>2
        <5>3. RemoveAt(pending, 1)[m - 1] = pending[m - 1 + 1]
          BY <3>1, <5>1
        <5> QED
          BY <5>1, <5>2, <5>3
      <4> QED
        BY <4>1, <4>2
    <3> QED
      BY <1>5, <2>6, <3>3, <3>4, SeqEqual
  <2> QED
    BY <2>1, <2>5, <2>7
<1>8. \A m \in DOMAIN pending' : pending'[m].priority = Normal
  BY <1>4, StartedIs
<1>9. DiscreteShown' /\ DiscreteReady'
  BY <1>2, <1>4 DEF DiscreteShown, DiscreteReady
<1> QED
  BY <1>2, <1>4, <1>7, <1>8, <1>9 DEF DiscreteInv

LEMMA BusApart ==
  ASSUME CInv, NEW c, Apart(pending, c), Apart(active, c)
  PROVE  \A i \in DOMAIN Bus : c \notin By(Bus[i])
<1>1. CASE active = <<>>
  BY <1>1, BusIs DEF Apart
<1>2. CASE active # <<>>
  <2>1. Bus \in Seq(Entries) /\ Bus # <<>> /\ Bus[1] = active[1] /\ Tail(Bus) = pending
    BY <1>2, BusIs
  <2>2. 1 \in DOMAIN active
    BY <1>2 DEF CInv, Typed
  <2>3. \A i \in DOMAIN Bus : i # 1 => i - 1 \in DOMAIN pending /\ pending[i - 1] = Bus[i]
    BY <2>1, TailIs
  <2> QED
    BY <2>1, <2>2, <2>3 DEF Apart
<1> QED
  BY <1>1, <1>2

\* Discrete controls write, and read back.
LEMMA DiscreteWire ==
  ASSUME CInv, OnlyDiscrete, active # <<>>
  PROVE  /\ active[1] \in Entries /\ active[1].cmd \in {"write", "read", "readrun"}
         /\ active[1].cmd = "write" => active[1].prop \in Trigger /\ active[1].value \in Values
         /\ \A c \in By(active[1]) : c \in Callers /\ job[c] # Free
                                       /\ (job[c].at = "read" => active[1].cmd = "read")
<1>1. PICK c \in Callers : c \in By(active[1])
  BY WaitingFor
<1>2. active[1] \in Entries /\ job[c] # Free /\ Expects(job[c], active[1])
  BY <1>1, WaitingFor
<1>3. job[c].at \in {"write", "read", "read-run"} /\ job[c].request.prop \in Trigger
  BY <1>2, DiscreteJob
<1>4. /\ active[1].cmd \in {"write", "read", "readrun"}
      /\ active[1].cmd = "write" => active[1].prop \in Trigger
  BY <1>2, <1>3 DEF Expects
<1>5. active[1].cmd = "write" => active[1].value \in Values
  BY <1>2 DEF Entries
<1>6. ASSUME NEW d \in By(active[1])
      PROVE  /\ d \in Callers /\ job[d] # Free
             /\ job[d].at = "read" => active[1].cmd = "read"
  <2>1. d \in Callers /\ job[d] # Free /\ Expects(job[d], active[1])
    BY WaitingFor
  <2> QED
    BY <2>1 DEF Expects
<1> QED
  BY <1>2, <1>4, <1>5, <1>6

LEMMA DiscreteAnswered ==
  ASSUME CInv, DiscreteInv, NEW x \in [ok : BOOLEAN, state : States], Answered(x),
         x.state = device,
         OnlyDiscrete =>
           \A p \in ControlSettings :
             device'[p] = IF Writes(active[1], p) THEN Coerce[active[1].value] ELSE device[p],
         OnlyDiscrete => device'["run"] = device["run"]
  PROVE  DiscreteInv'
<1>1. /\ active # <<>> /\ active' = <<>>
      /\ UNCHANGED <<workload, store, revision, job, pending, timers, asked>>
  BY DEF Answered
<1> SUFFICES ASSUME OnlyDiscrete' PROVE DiscreteInv'
  BY DEF DiscreteInv
<1>2. OnlyDiscrete
  BY <1>1 DEF OnlyDiscrete
<1>3. /\ DiscreteShown /\ DiscreteReady
      /\ \A d \in Callers : job[d] # Free => job[d].revision <= revision
      /\ \A m \in DOMAIN pending : pending[m].priority = Normal
      /\ LastIsAsked(Bus, device, asked) /\ NewestIsLast(Bus, job, revision)
  BY <1>2 DEF DiscreteInv
<1>4. Bus \in Seq(Entries) /\ Bus # <<>> /\ Bus[1] = active[1] /\ Tail(Bus) = pending
  BY <1>1, BusIs
<1>5. Bus' = Tail(Bus)
  <2>1. pending \in Seq(Entries)
    BY DEF CInv, Typed
  <2> QED
    BY <1>1, <1>4, <2>1 DEF Bus
<1> DEFINE q == active[1]
<1>6. /\ q \in Entries /\ q.cmd \in {"write", "read", "readrun"}
      /\ q.cmd = "write" => q.prop \in Trigger
      /\ \A c \in By(q) : c \in Callers /\ job[c] # Free /\ (job[c].at = "read" => q.cmd = "read")
  BY <1>1, <1>2, DiscreteWire
<1>7. \A i \in DOMAIN ready' : \/ ready'[i].by \in By(q) /\ ready'[i].answer = x
                               \/ i \in DOMAIN ready /\ ready'[i] = ready[i]
  BY ReadyAfter
<1>8. /\ \A p \in ControlSettings : device'[p] = IF Writes(q, p) THEN Coerce[q.value] ELSE device[p]
      /\ device'["run"] = device["run"]
  BY <1>2
<1> HIDE DEF q
<1>9. LastIsAsked(Bus', device', asked')
  <2>1. PICK d2 : d2 = device'
    OBVIOUS
  <2>2. \A p \in Trigger : d2[p] = IF Writes(Bus[1], p) THEN Coerce[Bus[1].value] ELSE device[p]
    BY <1>4, <1>8, <2>1, PlainIs DEF q
  <2>3. LastIsAsked(Tail(Bus), d2, asked)
    BY <1>3, <1>4, <2>2, LastDone
  <2> QED
    BY <1>1, <1>5, <2>1, <2>3
<1>10. NewestIsLast(Bus', job', revision')
  BY <1>1, <1>3, <1>4, <1>5, NewestDone
<1>11. DiscreteShown'
  <2>1. \A p \in Horizontal : device'[p] = device[p]
    <3>1. \A p \in Horizontal : p \in ControlSettings /\ p \notin Trigger
      BY DEF Horizontal, Trigger, ControlSettings
    <3> QED
      BY <1>6, <1>8, <3>1 DEF Writes
  <2> QED
    BY <1>1, <1>3, <1>8, <2>1 DEF DiscreteShown
<1>12. DiscreteReady'
  <2> SUFFICES ASSUME NEW i \in DOMAIN ready'
               PROVE  /\ ready'[i].answer.state["run"] = "run"
                      /\ job[ready'[i].by].at = "read" /\ job[ready'[i].by].revision = revision =>
                           \A p \in Trigger : ready'[i].answer.state[p] = Coerce[asked[p]]
    BY <1>1 DEF DiscreteReady
  <2>1. CASE i \in DOMAIN ready /\ ready'[i] = ready[i]
    BY <1>3, <2>1 DEF DiscreteReady
  <2>2. CASE ready'[i].by \in By(q) /\ ready'[i].answer = x
    <3>1. PICK c \in Callers : c = ready'[i].by
      BY <1>6, <2>2
    <3>2. ready'[i].answer.state = device /\ device["run"] = "run" /\ job[c] # Free
      BY <1>3, <1>6, <2>2, <3>1 DEF DiscreteShown
    <3>3. ASSUME job[c].at = "read", job[c].revision = revision, NEW p \in Trigger
          PROVE  device[p] = Coerce[asked[p]]
      <4>1. \A m \in DOMAIN Bus : Bus[m].cmd # "write"
        BY <1>3, <3>2, <3>3 DEF NewestIsLast
      <4>2. \A m \in DOMAIN Bus : ~Writes(Bus[m], p)
        BY <4>1 DEF Writes
      <4> QED
        BY <1>3, <4>2 DEF LastIsAsked
    <3> QED
      BY <3>1, <3>2, <3>3
  <2> QED
    BY <1>7, <2>1, <2>2
<1> QED
  BY <1>1, <1>3, <1>9, <1>10, <1>11, <1>12 DEF DiscreteInv

LEMMA DiscreteFinish ==
  ASSUME CInv, DiscreteInv, FinishOperation
  PROVE  DiscreteInv'
<1>1. PICK x \in [ok : {TRUE}, state : States] :
        Answered(x) /\ x.state = device /\ device' = Performed(active[1])
  BY FinishIs
<1>2. x \in [ok : BOOLEAN, state : States] /\ active # <<>>
  BY <1>1 DEF Answered
<1>3. ASSUME OnlyDiscrete, NEW p \in ControlSettings
      PROVE  device'[p] = IF Writes(active[1], p) THEN Coerce[active[1].value] ELSE device[p]
  <2>1. /\ active[1] \in Entries /\ active[1].cmd \in {"write", "read", "readrun"}
        /\ active[1].cmd = "write" => active[1].value \in Values
    BY <1>2, <1>3, DiscreteWire
  <2>2. /\ active[1].cmd = "write" =>
             device'[p] = IF p = active[1].prop THEN Coerce[active[1].value] ELSE device[p]
        /\ active[1].cmd \notin {"write", "mode"} => device'[p] = device[p]
    BY <1>1, <2>1, PerformedSettings DEF CInv, Typed
  <2> QED
    BY <2>1, <2>2 DEF Writes
<1>4. ASSUME OnlyDiscrete PROVE device'["run"] = device["run"]
  <2>1. active[1] \in Entries /\ active[1].cmd \notin Actions
    BY <1>2, <1>4, DiscreteWire DEF Actions
  <2> QED
    BY <1>1, <2>1, PerformedIs DEF CInv, Typed
<1> QED
  BY <1>1, <1>2, <1>3, <1>4, DiscreteAnswered

LEMMA DiscreteRefuse ==
  ASSUME CInv, DiscreteInv, RefuseAnswer
  PROVE  DiscreteInv'
<1>1. PICK x \in [ok : BOOLEAN, state : States] :
        Answered(x) /\ x.state = device /\ device' = device
  BY RefuseIs
<1>2. active[1].cmd # "write"
  BY DEF RefuseAnswer
<1>3. \A p \in ControlSettings :
        device'[p] = IF Writes(active[1], p) THEN Coerce[active[1].value] ELSE device[p]
  BY <1>1, <1>2 DEF Writes
<1> QED
  BY <1>1, <1>3, DiscreteAnswered

LEMMA DiscreteResume ==
  ASSUME CInv, DiscreteInv, Resume
  PROVE  DiscreteInv'
<1>1. /\ ready # <<>> /\ ready' = Tail(ready) /\ GoesOn(ready[1].by)
      /\ UNCHANGED <<workload, device, revision, active, asked, failures>>
      /\ Continue(ready[1].by, ready[1].answer.ok, ready[1].answer.state)
  BY ResumeMoves DEF Resume
<1> SUFFICES ASSUME OnlyDiscrete' PROVE DiscreteInv'
  BY DEF DiscreteInv
<1>2. OnlyDiscrete
  BY <1>1 DEF OnlyDiscrete
<1>3. /\ DiscreteShown /\ DiscreteReady
      /\ \A d \in Callers : job[d] # Free => job[d].revision <= revision
      /\ \A m \in DOMAIN pending : pending[m].priority = Normal
      /\ LastIsAsked(Bus, device, asked) /\ NewestIsLast(Bus, job, revision)
  BY <1>2 DEF DiscreteInv
<1>4. /\ ready[1].by \in Callers /\ InFlight(ready[1].by) /\ 1 \in DOMAIN ready
      /\ ready[1].answer.ok \in BOOLEAN /\ ready[1].answer.state \in States
      /\ Unheld(ready[1].by, pending, active, Tail(ready), timers)
  BY <1>1, ResumedIs
<1>18. PICK u : u = Tail(ready)
  OBVIOUS
<1>5. PICK c \in Callers, ok \in BOOLEAN, s \in States :
        c = ready[1].by /\ ok = ready[1].answer.ok /\ s = ready[1].answer.state
  BY <1>4
<1>6. InFlight(c) /\ Continue(c, ok, s) /\ Moves(c, timers, timers') /\ job[c] # Free
  BY <1>1, <1>4, <1>5, FreeIsNoJob DEF GoesOn, InFlight
<1>7. /\ Apart(pending, c) /\ Apart(active, c) /\ \A i \in DOMAIN u : u[i].by # c
  BY <1>4, <1>5, <1>18 DEF Unheld
<1>8. /\ job[c].request.kind = "set" /\ job[c].request.prop \in Trigger
      /\ job[c].at \in {"write", "read", "read-run"}
  BY <1>2, <1>6, DiscreteJob
<1>9. ASSUME NEW p \in AllProps
      PROVE  store'[p] = store[p] \/ (p \in Trigger /\ store'[p] = Coerce[asked[p]])
  <2>1. \/ store'[p] = store[p]
        \/ store'[p] = s[p] /\ job[c].revision = revision /\ p \in Answering(job[c])
    BY <1>6, <1>8, ContinueShows
  <2>2. CASE store'[p] = s[p] /\ job[c].revision = revision /\ p \in Answering(job[c])
    <3>1. CASE job[c].at = "read"
      <4>1. p \in Trigger
        BY <1>8, <2>2, <3>1 DEF Answering, Group, Horizontal, Trigger
      <4>2. s[p] = Coerce[asked[p]]
        BY <1>3, <1>4, <1>5, <2>2, <3>1, <4>1 DEF DiscreteReady
      <4> QED
        BY <2>2, <4>1, <4>2
    <3>2. CASE job[c].at # "read"
      <4>1. p = "run"
        BY <1>8, <2>2, <3>2 DEF Answering
      <4>2. s["run"] = "run"
        BY <1>3, <1>4, <1>5 DEF DiscreteReady
      <4> QED
        BY <1>3, <2>2, <4>1, <4>2 DEF DiscreteShown
    <3> QED
      BY <3>1, <3>2
  <2> QED
    BY <2>1, <2>2
<1>10. DiscreteShown'
  <2>1. /\ \A p \in Plain : p \in AllProps
        /\ \A p \in Horizontal : p \in AllProps
        /\ "run" \in AllProps
    BY PlainIs DEF Horizontal, AllProps, ControlSettings
  <2>2. "run" \notin Trigger /\ \A p \in Horizontal : p \notin Trigger
    BY DEF Trigger, Horizontal
  <2> QED
    BY <1>1, <1>3, <1>9, <2>1, <2>2 DEF DiscreteShown
<1>11. /\ \A d \in Callers \ {c} : job'[d] = job[d]
       /\ job'[c] # Free => Follows(job[c], job'[c])
  BY <1>6 DEF Moves
<1>12. job'[c] # Free => /\ job'[c].revision = job[c].revision
                         /\ job'[c].at \in {"read", "read-run"}
  <2> SUFFICES ASSUME job'[c] # Free PROVE /\ job'[c].revision = job[c].revision
                                           /\ job'[c].at \in {"read", "read-run"}
    OBVIOUS
  <2>1. /\ job'[c] \in Jobs /\ StageFits(job'[c]) /\ job'[c].request = job[c].request
        /\ job'[c].revision = job[c].revision /\ NextStage(job[c], job'[c])
    BY <1>11 DEF Follows
  <2>2. job'[c].at \in {"write", "read", "read-run"}
    BY <1>8, <2>1, DiscreteStages
  <2>3. job'[c].at # "write"
    BY <1>8, <2>1 DEF NextStage
  <2> QED
    BY <2>1, <2>2, <2>3
<1>13. \A d \in Callers : job'[d] # Free => job'[d].revision <= revision'
  BY <1>1, <1>3, <1>6, <1>11, <1>12
<1>14. DiscreteReady'
  <2> SUFFICES ASSUME NEW i \in DOMAIN u
               PROVE  /\ u[i].answer.state["run"] = "run"
                      /\ job'[u[i].by].at = "read" /\ job'[u[i].by].revision = revision =>
                           \A p \in Trigger : u[i].answer.state[p] = Coerce[asked[p]]
    BY <1>1, <1>18 DEF DiscreteReady
  <2>1. i + 1 \in DOMAIN ready /\ u[i] = ready[i + 1]
    BY <1>1, <1>18, TailIs DEF CInv, Typed
  <2>2. ready[i + 1].by \in Callers
    BY <2>1 DEF CInv, Accounts, Ledger
  <2>3. job'[u[i].by] = job[u[i].by]
    BY <1>7, <1>11, <2>1, <2>2
  <2> QED
    BY <1>3, <2>1, <2>3 DEF DiscreteReady
<1>15. PICK j2, v : j2 = job' /\ v = revision
  OBVIOUS
<1>16. NewestIsLast(Bus, j2, v)
  <2>1. \A i \in DOMAIN Bus : c \notin By(Bus[i])
    BY <1>7, BusApart
  <2>2. /\ \A d \in Callers \ {c} : j2[d] = job[d]
        /\ j2[c] # Free => job[c] # Free /\ j2[c].revision = job[c].revision
    BY <1>6, <1>11, <1>12, <1>15
  <2> QED
    BY <1>3, <1>15, <2>1, <2>2, NewestKept
<1>17. /\ LastIsAsked(Bus', device, asked) /\ NewestIsLast(Bus', j2, v)
       /\ \A i \in DOMAIN pending' : pending'[i].priority = Normal
  <2>1. CASE pending' = pending
    <3>1. Bus' = Bus
      BY <1>1, <2>1 DEF Bus
    <3> QED
      BY <1>3, <1>16, <2>1, <3>1
  <2>2. CASE \E o \in Entries : job'[c] # Free /\ Sends(c, o, pending', job')
    <3>1. PICK o \in Entries : job'[c] # Free /\ Sends(c, o, pending', job')
      BY <2>2
    <3>2. job'[c].request = job[c].request /\ job'[c].at \in {"read", "read-run"}
      BY <1>11, <1>12, <3>1 DEF Follows
    <3>3. pending' = Enqueued(o, c) /\ o.cmd # "write" /\ o.priority = Normal
      BY <1>8, <3>1, <3>2 DEF Sends, Expects, Carries
    <3>4. PICK e \in Entries :
            /\ e.cmd = o.cmd /\ Bus' = Append(Bus, e)
            /\ \A i \in DOMAIN pending' : pending'[i].priority = Normal
      BY <1>1, <1>3, <3>3, DiscreteSent
    <3>5. Bus \in Seq(Entries)
      BY BusIs
    <3>6. LastIsAsked(Append(Bus, e), device, asked)
      BY <1>3, <3>3, <3>4, <3>5, LastAppended
    <3>7. NewestIsLast(Append(Bus, e), j2, v)
      BY <1>16, <3>3, <3>4, <3>5, NewestSent
    <3> QED
      BY <3>4, <3>6, <3>7
  <2>3. Follows(job[c], job'[c]) => job'[c] # Free
    BY FreeIsNoJob DEF Follows
  <2> QED
    BY <1>6, <2>1, <2>2, <2>3 DEF Moves
<1> QED
  BY <1>1, <1>10, <1>13, <1>14, <1>15, <1>17 DEF DiscreteInv

LEMMA DiscreteNext ==
  ASSUME CInv, asked \in States, DiscreteInv, [ControllerNext]_controllerVars
  PROVE  DiscreteInv'
<1>1. CASE \E c \in Callers : \E r \in workload.requests : Begin(c, r)
  BY <1>1, DiscreteBegin
<1>2. CASE StartOperation
  BY <1>2, DiscreteStart
<1>3. CASE FinishOperation
  BY <1>3, DiscreteFinish
<1>4. CASE RefuseAnswer
  BY <1>4, DiscreteRefuse
<1>5. CASE TriggerSingle
  <2>1. workload' = workload /\ device["run"] = "single"
    BY <1>5 DEF TriggerSingle
  <2>2. OnlyDiscrete' <=> OnlyDiscrete
    BY <2>1 DEF OnlyDiscrete
  <2> QED
    BY <2>1, <2>2 DEF DiscreteInv, DiscreteShown
<1>6. CASE Resume
  BY <1>6, DiscreteResume
<1>7. CASE \E i \in DOMAIN timers : Expire(i)
  <2>1. PICK i \in DOMAIN timers : Expire(i)
    BY <1>7
  <2>2. /\ timers[i] \in Timers /\ InFlight(timers[i].by) /\ job[timers[i].by].at = timers[i].at
        /\ UNCHANGED <<workload, store, device, revision, active, ready, asked, failures>>
    BY <2>1, ExpireMoves
  <2>3. PICK c \in Callers : c = timers[i].by
    BY <2>2 DEF Timers
  <2>4. job[c] # Free /\ job[c].at \in TimerStages
    BY <2>2, <2>3, FreeIsNoJob DEF InFlight, Timers
  <2>5. ~OnlyDiscrete
    BY <2>4, DiscreteJob DEF TimerStages
  <2>6. ~OnlyDiscrete'
    BY <2>2, <2>5 DEF OnlyDiscrete
  <2> QED
    BY <2>6 DEF DiscreteInv
<1>8. CASE UNCHANGED controllerVars
  <2>1. /\ workload' = workload /\ store' = store /\ device' = device /\ revision' = revision
        /\ job' = job /\ ready' = ready /\ asked' = asked /\ pending' = pending
        /\ active' = active
    BY <1>8 DEF controllerVars
  <2>2. OnlyDiscrete' <=> OnlyDiscrete
    BY <2>1 DEF OnlyDiscrete
  <2> QED
    BY <2>1, <2>2 DEF DiscreteInv, DiscreteShown, DiscreteReady, Bus
<1> QED
  BY <1>1, <1>2, <1>3, <1>4, <1>5, <1>6, <1>7, <1>8 DEF ControllerNext

-----------------------------------------------------------------------------
(* What is shown is what was asked, and in the end what the scope has.     *)

AgreementInv ==
  CInv /\ OneInv /\ PlainInv /\ DiscreteInv

LEMMA AgreementHolds == ControllerSpec => []AgreementInv
<1>1. ControllerInit => AgreementInv
  BY CInvInit, OneInit, PlainInit, DiscreteInit DEF AgreementInv
<1>2. AgreementInv /\ [ControllerNext]_controllerVars => AgreementInv'
  <2> SUFFICES ASSUME AgreementInv, [ControllerNext]_controllerVars PROVE AgreementInv'
    OBVIOUS
  <2>1. CInv /\ OneInv /\ PlainInv /\ DiscreteInv /\ asked \in States
    BY DEF AgreementInv, PlainInv
  <2>2. CInv' /\ OneInv'
    BY <2>1, CInvNext, OneNext
  <2>3. PlainInv'
    BY <2>1, PlainNext
  <2>4. DiscreteInv'
    BY <2>1, DiscreteNext
  <2> QED
    BY <2>2, <2>3, <2>4 DEF AgreementInv
<1> QED
  BY <1>1, <1>2, PTL DEF ControllerSpec

\* What is read back never shows an older value than was asked for last, but
\* that value as the scope rounds it: when requests come one at a time, and for
\* discrete controls however they overlap and are refused
\* (applyReconciledUpdate, the mutation revision).
THEOREM NewestIsShown == ControllerSpec => []ShownIsNewest
<1>1. AgreementInv => ShownIsNewest
  BY DEF AgreementInv, PlainInv, PlainShown, DiscreteInv, DiscreteShown, ShownIsNewest
<1> QED
  BY <1>1, AgreementHolds, PTL

SettledInv == AgreementInv /\ ModeInv /\ RunShownInv

LEMMA SettledInvHolds == ControllerSpec => []SettledInv
<1>1. ControllerInit => ModeInv /\ RunShownInv
  BY ModeInit, RunShownInit
<1>2. AgreementInv /\ ModeInv /\ RunShownInv /\ [ControllerNext]_controllerVars
        => (ModeInv /\ RunShownInv)'
  BY ModeNext, RunShownNext DEF AgreementInv
<1>3. ControllerSpec => [](ModeInv /\ RunShownInv)
  BY <1>1, <1>2, AgreementHolds, PTL DEF ControllerSpec
<1>4. AgreementInv /\ (ModeInv /\ RunShownInv) => SettledInv
  BY DEF SettledInv
<1> QED
  BY <1>3, <1>4, AgreementHolds, PTL

\* No request in flight, nothing is on its way.
LEMMA NothingAtRest ==
  ASSUME CInv, AllDone
  PROVE  \A i \in DOMAIN Bus : FALSE
<1>1. \A d \in Callers : job[d] = Free
  BY DEF AllDone
<1>2. ASSUME NEW p, Work(p, job), NEW i \in DOMAIN p PROVE FALSE
  <2>1. Fits(p[i], job)
    BY <1>2 DEF Work
  <2>2. PICK k \in DOMAIN p[i].by : TRUE
    BY <2>1 DEF Fits
  <2>3. p[i].by[k] \in Callers /\ job[p[i].by[k]] \in Jobs
    BY <2>1 DEF Fits, Expects
  <2> QED
    BY <1>1, <2>3, FreeIsNoJob
<1>3. Work(pending, job) /\ Work(active, job)
  BY DEF CInv, Accounts, Ledger
<1>4. active = <<>>
  <2>1. active # <<>> => 1 \in DOMAIN active
    BY DEF CInv, Typed
  <2> QED
    BY <1>2, <1>3, <2>1
<1> QED
  BY <1>2, <1>3, <1>4, BusIs

\* Once all requests are done the scope has what it makes of the values asked
\* for last, and the server shows that, as it is read back or as it was asked
\* for, the run state and the mode included, whatever the scope rounds
\* (applyReconciledUpdate, writeRollTimebaseControl).
THEOREM ShownAgrees == ControllerSpec => []SettledAgrees
<1>1. SettledInv => SettledAgrees
  <2> DEFINE Had(p) == device[p] = Coerce[asked[p]] /\ store[p] \in {asked[p], device[p]}
             Mode == /\ store["mode"] = device["mode"]
                     /\ device["mode"] = TargetMode(asked["scale"])
  <2> SUFFICES ASSUME SettledInv, OneAtATime \/ OnlyDiscrete, AllDone
               PROVE  /\ \A p \in Plain : Had(p)
                      /\ OneAtATime =>
                           \A p \in Plain : AlwaysReadBack(p) => store[p] = device[p]
                      /\ AlwaysReadBack("scale") => Mode
                      /\ store["run"] # "single" => store["run"] = device["run"]
    BY DEF SettledAgrees
  <2>1. CInv /\ OneInv /\ PlainInv /\ DiscreteInv /\ ModeInv /\ RunShownInv
    BY DEF SettledInv, AgreementInv
  <2>2. \A c \in Callers : job[c] = Free
    BY DEF AllDone
  <2>3. \A p : Untouched(p)
    BY <2>2 DEF Untouched
  <2>4. ASSUME OneAtATime
        PROVE  /\ \A p \in Plain : Had(p) /\ (AlwaysReadBack(p) => store[p] = device[p])
               /\ AlwaysReadBack("scale") => Mode
               /\ store["run"] # "single" => store["run"] = device["run"]
    <3>1. \A p \in Plain : Had(p) /\ (AlwaysReadBack(p) => store[p] = device[p])
      BY <2>1, <2>3, <2>4 DEF PlainInv, PlainShown
    <3>2. AlwaysReadBack("scale") => Mode
      BY <2>1, <2>3, <2>4 DEF ModeInv, ModeAgrees
    <3>3. store["run"] = "run" => device["run"] = "run"
      BY <2>1, <2>2, <2>4 DEF RunShownInv, RunShown, Interrupts
    <3>4. store["run"] = "stop" => device["run"] = "stop"
      <4>1. Free.at \notin RunStages
        BY DEF Free, RunStages
      <4>2. \A c \in Callers : job[c].at \notin RunStages
        BY <2>2, <4>1
      <4> QED
        BY <2>1, <2>4, <4>2 DEF OneInv, StopShown
    <3>5. store["run"] \in {"run", "stop", "single"}
      BY <2>1 DEF CInv, Typed, States, Actions
    <3> QED
      BY <3>1, <3>2, <3>3, <3>4, <3>5
  <2>5. ASSUME OnlyDiscrete
        PROVE  (\A p \in Plain : Had(p)) /\ Mode /\ store["run"] = device["run"]
    <3>1. DiscreteShown /\ LastIsAsked(Bus, device, asked)
      BY <2>1, <2>5 DEF DiscreteInv
    <3>2. \A x \in Trigger : device[x] = Coerce[asked[x]]
      BY <2>1, <3>1, NothingAtRest DEF LastIsAsked
    <3>3. \A p \in Plain : p \in Horizontal \/ p \in Trigger
      BY DEF Plain, ControlSettings
    <3>4. "mode" \in Horizontal /\ "scale" \in Horizontal /\ TargetMode(0) = 0
      BY ControllerAssumption DEF Horizontal, TargetMode
    <3>5. \A p \in Plain : Had(p)
      BY <3>1, <3>2, <3>3, ControllerAssumption DEF DiscreteShown
    <3> QED
      BY <3>1, <3>4, <3>5 DEF DiscreteShown
  <2>6. (OneAtATime \/ OnlyDiscrete) => \A p \in Plain : Had(p)
    BY <2>4, <2>5
  <2>7. ASSUME OneAtATime, NEW p \in Plain, AlwaysReadBack(p) PROVE store[p] = device[p]
    BY <2>4, <2>7
  <2> HIDE DEF Had, Mode
  <2> QED
    BY <2>4, <2>5, <2>6, <2>7
<1> QED
  BY <1>1, SettledInvHolds, PTL

=============================================================================
