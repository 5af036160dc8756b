----------------------------- MODULE WaveformReads -----------------------------
(***************************************************************************)
(* The waveform reads of src/server/scope/dho804-driver.ts and what the    *)
(* driver remembers to save queries: the waveform setup of the scope, the  *)
(* preamble of each source and the scale of each channel, kept true (or    *)
(* not) across live reads, RAW captures, app writes, raw SCPI and a new    *)
(* session.                                                                *)
(*                                                                         *)
(* The scheduler runs one operation at a time (ScpiScheduler.tla), so only *)
(* the commands within an operation are steps: each may be the last one,   *)
(* when a query fails and the session survives.  The scope's own front     *)
(* panel is not used.  Channel units are cached and cleared like the       *)
(* preambles and left out.                                                 *)
(***************************************************************************)
EXTENDS Naturals

CONSTANTS
  Channels, Maths,  \* waveform sources
  Scales,           \* vertical scales
  Offsets,          \* vertical offsets
  ScaleTaken,       \* the scale the scope takes of the one it is sent
  OffsetTaken,      \* at a scale: the offset it takes of the one it is sent
  MaxWrites         \* bound: changes of the timebase

Sources == Channels \cup Maths
None    == "none"
Unknown == 0                  \* no scale
Nothing == [kind |-> None]    \* no preamble, no waveform

ASSUME WaveformAssumption ==
  /\ None \notin Sources /\ Channels # {} /\ Channels \cap Maths = {}
  /\ Scales \subseteq Nat \ {0} /\ Scales # {}
  /\ Offsets \subseteq Nat /\ Offsets # {}
  /\ ScaleTaken \in [Scales -> Scales]
  /\ OffsetTaken \in [Scales -> [Offsets -> Offsets]]
  /\ MaxWrites \in Nat

\* The scales the scope can have, and the offsets at a scale.
ScopeScales == {s \in Scales : ScaleTaken[s] = s}
ScopeOffsets(s) == {o \in Offsets : OffsetTaken[s][o] = o}

Settings == {"mode", "format", "points"}
LiveSetup == [mode |-> "NORM", format |-> "BYTE", points |-> "live"]
RawSetup  == [mode |-> "RAW",  format |-> "WORD", points |-> "depth"]
SetupOf(kind) == IF kind = "live" THEN LiveSetup ELSE RawSetup
SettingValues == {"NORM", "BYTE", "live", "RAW", "WORD", "depth"}

VARIABLES
  \* the scope
  selected,    \* :WAVeform:SOURce
  settings,    \* :WAVeform:MODE, FORMat, POINts
  scale, offset,  \* of each source
  displayed,   \* the sources that are displayed
  timebase,    \* the horizontal scale and position: a number per change
  \* Dho804Driver
  source,      \* waveformSetup.source
  setup,       \* waveformSetup.mode, format, points
  preambles,   \* liveWaveformPreambles
  scales,      \* channelScales
  op,          \* the read that runs: kind, source and next step
  frame,       \* the waveform a step has read, and the scope it was read from
  \* what happened since the driver last forgot what it remembers
  strayed,     \* a live read skipped SOURce and PREamble?, but another source was read last
  rounded      \* channels of which the scope took another value than it was sent

scope  == <<selected, settings, scale, offset, displayed, timebase>>
driver == <<source, setup, preambles, scales>>
past   == <<strayed, rounded>>
vars   == <<scope, driver, op, frame, past>>

\* What PREamble? says of a source: yIncrement is proportional to the scale,
\* and stands for it; yOrigin is the offset in such increments, so the offset
\* is their product.  Increments of none of the scales are Unknown.
Preamble(s) == [inc |-> scale[s], off |-> offset[s], time |-> timebase]
Preambles   == [inc : Scales \cup {Unknown}, off : Offsets, time : 0 .. MaxWrites]

Idle == [kind |-> "idle", source |-> None, step |-> None]
Cleared == [s \in Sources |-> Nothing]

\* Mutant: the settings survive.
ForgottenSource ==
  /\ source' = None /\ preambles' = Cleared
  /\ strayed' = FALSE /\ rounded' = {}
  /\ UNCHANGED setup

Forgotten ==
  /\ source' = None
  /\ setup' = [f \in Settings |-> None]
  /\ preambles' = Cleared
  /\ strayed' = FALSE /\ rounded' = {}

Init ==
  /\ selected \in Channels
  /\ settings = LiveSetup
  /\ scale \in [Sources -> ScopeScales]
  /\ offset \in [Sources -> Offsets]
  /\ \A s \in Sources : offset[s] \in ScopeOffsets(scale[s])
  /\ displayed \in SUBSET Sources
  /\ timebase = 0
  /\ source = None
  /\ setup = [f \in Settings |-> None]
  /\ preambles = Cleared
  /\ scales = [c \in Channels |-> scale[c]]
  /\ op = Idle
  /\ frame = Nothing
  /\ strayed = FALSE /\ rounded = {}

-----------------------------------------------------------------------------
(* Reads.                                                                  *)

StartRead(kind, s) ==
  /\ op = Idle
  /\ op' = [kind |-> kind, source |-> s,
            step |-> IF kind = "live" THEN "settings" ELSE "source"]
  /\ frame' = Nothing
  /\ UNCHANGED <<scope, driver, past>>

ReadLive(s) == StartRead("live", s)
ReadRaw(c)  == StartRead("raw", c)

At(step) == op.step = step
Then(step) == op' = [op EXCEPT !.step = step]

\* ensureWaveformSource
SelectSource ==
  /\ At("source")
  /\ IF source = op.source THEN UNCHANGED <<selected, source>>
     ELSE selected' = op.source /\ source' = op.source
  /\ Then(IF op.kind = "live" THEN "preamble" ELSE "settings")
  /\ frame' = Nothing
  /\ UNCHANGED <<displayed, settings, scale, offset, timebase, setup, preambles, scales, past>>

\* ensureWaveformModeFormatPoints, one command at a time, in any order.
Outdated == {f \in Settings : setup[f] # SetupOf(op.kind)[f]}

SetSetting(f) ==
  /\ At("settings") /\ f \in Outdated
  /\ settings' = [settings EXCEPT ![f] = SetupOf(op.kind)[f]]
  /\ setup' = [setup EXCEPT ![f] = SetupOf(op.kind)[f]]
  /\ frame' = Nothing
  /\ UNCHANGED <<displayed, selected, scale, offset, timebase, source, preambles, scales, op, past>>

\* A live read whose preamble is cached is warm: it goes to its data at once.
Warm == op.kind = "live" /\ preambles[op.source] # Nothing

SettingsDone ==
  /\ At("settings") /\ Outdated = {}
  /\ Then(IF op.kind = "raw" \/ Warm THEN "data" ELSE "source")
  /\ strayed' = (strayed \/ (Warm /\ source # op.source))
  /\ frame' = Nothing
  /\ UNCHANGED <<scope, driver, rounded>>

\* What the driver believes of a channel's scale is so, or nothing.
ScaleKnown(s) == s \in Channels => scales[s] \in {Unknown, scale[s]}

\* liveWaveformPreamble: the scope answers for the source it has selected.
ReadPreamble ==
  /\ At("preamble")
  /\ preambles' = [preambles EXCEPT ![op.source] = Preamble(selected)]
  /\ rounded' = IF ScaleKnown(op.source) THEN rounded \ {op.source} ELSE rounded
  /\ Then("data")
  /\ frame' = Nothing
  /\ UNCHANGED <<scope, source, setup, scales, strayed>>

\* :WAVeform:DATA?; a RAW capture reads its preamble with its data.
Frame(preamble) ==
  [kind |-> op.kind, of |-> op.source, from |-> selected, meta |-> preamble,
   truth |-> Preamble(op.source), settings |-> settings]

ReadLiveData ==
  /\ At("data") /\ op.kind = "live"
  /\ frame' = Frame(preambles[op.source])
  /\ source' = op.source
  /\ op' = Idle
  /\ UNCHANGED <<scope, setup, preambles, scales, past>>

ReadRawData ==
  /\ At("data") /\ op.kind = "raw"
  /\ frame' = Frame(Preamble(selected))
  /\ op' = Idle
  /\ UNCHANGED <<scope, driver, past>>

\* A query of the read fails.
Fail ==
  /\ op # Idle
  /\ op' = Idle
  /\ frame' = Nothing
  /\ UNCHANGED <<scope, driver, past>>

-----------------------------------------------------------------------------
(* Writes.                                                                 *)

Toggled(s) == IF s \in displayed THEN displayed \ {s} ELSE displayed \cup {s}

\* The driver keeps all it remembers of a channel that is hidden or shown.
SetChannelEnabled(c) ==
  /\ op = Idle
  /\ displayed' = Toggled(c)
  /\ frame' = Nothing
  /\ UNCHANGED <<selected, settings, scale, offset, timebase, driver, op, past>>

SetMathEnabled(m) ==
  /\ op = Idle
  /\ displayed' = Toggled(m)
  /\ preambles' = [preambles EXCEPT ![m] = Nothing]
  /\ frame' = Nothing
  /\ UNCHANGED <<selected, settings, scale, offset, timebase, source, setup, scales, op, past>>

\* Mutant: the ratio is inverted.
RescaledInversely(p, previous, next) ==
  IF p = Nothing \/ previous = Unknown THEN Nothing
  ELSE [p EXCEPT !.inc = IF @ = next THEN previous ELSE Unknown]

\* The increments are multiplied by next / previous: those of the previous
\* scale become those of the next.
Rescaled(p, previous, next) ==
  IF p = Nothing \/ previous = Unknown THEN Nothing
  ELSE [p EXCEPT !.inc = IF @ = previous THEN next ELSE Unknown]

\* The scope takes a scale and an offset for a channel, as sent or not.
Takes(c, s, o, asSent) ==
  /\ scale' = [scale EXCEPT ![c] = s]
  /\ offset' = [offset EXCEPT ![c] = o]
  /\ rounded' = IF asSent THEN rounded ELSE rounded \cup {c}

\* The offset may be out of the range of the new scale.
SetChannelScale(c, value) ==
  LET taken == ScaleTaken[value]
      moved == OffsetTaken[taken][offset[c]]
  IN  /\ op = Idle
      /\ Takes(c, taken, moved, taken = value /\ moved = offset[c])
      /\ scales' = [scales EXCEPT ![c] = value]
      /\ preambles' = [preambles EXCEPT ![c] = Rescaled(@, scales[c], value)]
      /\ frame' = Nothing
      /\ UNCHANGED <<displayed, selected, settings, timebase, source, setup, op, strayed>>

Shifted(p, next) == IF p = Nothing THEN Nothing ELSE [p EXCEPT !.off = next]

SetChannelOffset(c, value) ==
  LET taken == OffsetTaken[scale[c]][value]
  IN  /\ op = Idle
      /\ Takes(c, scale[c], taken, taken = value)
      /\ preambles' = [preambles EXCEPT ![c] = Shifted(@, value)]
      /\ frame' = Nothing
      /\ UNCHANGED <<displayed, selected, settings, timebase, source, setup, scales, op, strayed>>

\* setMathOperator, setMathSource1 and 2, setMathScale, setMathOffset: what the scope has then.
SetMath(m, s, o) ==
  /\ op = Idle
  /\ scale' = [scale EXCEPT ![m] = s]
  /\ offset' = [offset EXCEPT ![m] = o]
  /\ preambles' = [preambles EXCEPT ![m] = Nothing]
  /\ frame' = Nothing
  /\ UNCHANGED <<displayed, selected, settings, timebase, source, setup, scales, op, past>>

\* setHorizontalScale, setHorizontalPosition
SetHorizontal ==
  /\ op = Idle /\ timebase < MaxWrites
  /\ timebase' = timebase + 1
  /\ preambles' = Cleared
  /\ frame' = Nothing
  /\ UNCHANGED <<displayed, selected, settings, scale, offset, source, setup, scales, op, past>>

\* readChannelState
ReadScale(c) ==
  /\ op = Idle
  /\ scales' = [scales EXCEPT ![c] = scale[c]]
  /\ frame' = Nothing
  /\ UNCHANGED <<scope, source, setup, preambles, op, past>>

Invalidate == Forgotten /\ scales' = [c \in Channels |-> Unknown]

\* Something of the scope changes without the driver's knowledge.
Changed ==
  \/ /\ selected' \in Sources
     /\ UNCHANGED <<displayed, settings, scale, offset, timebase>>
  \/ /\ displayed' \in SUBSET Sources
     /\ UNCHANGED <<selected, settings, scale, offset, timebase>>
  \/ /\ \E f \in Settings : settings' \in
          {[settings EXCEPT ![f] = LiveSetup[f]], [settings EXCEPT ![f] = RawSetup[f]]}
     /\ UNCHANGED <<displayed, selected, scale, offset, timebase>>
  \/ /\ \E c \in Channels, s \in ScopeScales : \E o \in ScopeOffsets(s) :
          /\ scale' = [scale EXCEPT ![c] = s]
          /\ offset' = [offset EXCEPT ![c] = o]
     /\ UNCHANGED <<displayed, selected, settings, timebase>>
  \/ /\ timebase < MaxWrites /\ timebase' = timebase + 1
     /\ UNCHANGED <<displayed, selected, settings, scale, offset>>

ExecuteRawScpi ==
  /\ op = Idle
  /\ Changed
  /\ Invalidate
  /\ frame' = Nothing
  /\ UNCHANGED op

\* The session ends; the next one has a new driver, which reads the state.
Reconnect ==
  /\ Changed
  /\ Forgotten
  /\ scales' = [c \in Channels |-> scale'[c]]
  /\ op' = Idle
  /\ frame' = Nothing

-----------------------------------------------------------------------------
Read ==
  \/ \E s \in displayed : ReadLive(s)
  \/ \E c \in displayed \cap Channels : ReadRaw(c)
  \/ SelectSource \/ (\E f \in Settings : SetSetting(f)) \/ SettingsDone
  \/ ReadPreamble \/ ReadLiveData \/ ReadRawData \/ Fail

Write ==
  \/ \E c \in Channels : SetChannelEnabled(c)
  \/ \E m \in Maths : SetMathEnabled(m)
  \/ \E c \in Channels, s \in Scales : SetChannelScale(c, s)
  \/ \E c \in Channels, o \in Offsets : SetChannelOffset(c, o)
  \/ \E m \in Maths, s \in ScopeScales : \E o \in ScopeOffsets(s) : SetMath(m, s, o)
  \/ \E c \in Channels : ReadScale(c)
  \/ SetHorizontal \/ ExecuteRawScpi \/ Reconnect

Next == Read \/ Write
Spec == Init /\ [][Next]_vars

-----------------------------------------------------------------------------
\* Every variable holds a value of its kind; a read has the preamble it uses.
TypeOK ==
  /\ selected \in Sources
  /\ settings \in [Settings -> SettingValues]
  /\ scale \in [Sources -> Scales] /\ offset \in [Sources -> Offsets]
  /\ displayed \subseteq Sources /\ timebase \in 0 .. MaxWrites
  /\ source \in Sources \cup {None}
  /\ setup \in [Settings -> SettingValues \cup {None}]
  /\ preambles \in [Sources -> Preambles \cup {Nothing}]
  /\ scales \in [Channels -> Scales \cup {Unknown}]
  /\ \/ op = Idle
     \/ op \in [kind : {"live"}, source : Sources,
                step : {"settings", "source", "preamble", "data"}]
     \/ op \in [kind : {"raw"}, source : Channels, step : {"source", "settings", "data"}]
  /\ op.kind = "live" /\ At("data") => preambles[op.source] # Nothing
  /\ \/ frame = Nothing
     \/ frame \in [kind : {"live", "raw"}, of : Sources, from : Sources,
                   meta : Preambles, truth : Preambles, settings : [Settings -> SettingValues]]
  /\ strayed \in BOOLEAN /\ rounded \subseteq Channels

(* A waveform is read with the mode, format and points its decoder expects, *)
(* whatever a RAW capture, a failed read or raw SCPI left in the scope.     *)
FrameConfigured == frame # Nothing => frame.settings = SetupOf(frame.kind)

(* The X metadata of a waveform is that of the timebase it was read with:  *)
(* every horizontal write drops every cached preamble.                     *)
HorizontalFresh == frame # Nothing => frame.meta.time = frame.truth.time

(* What a waveform says of how it was acquired is how it was acquired,     *)
(* although the driver asks the scope as little as it can.                 *)
FrameAsRead == FrameConfigured /\ HorizontalFresh

\* The data of a waveform are those of the source it is published under.
FrameIsItsSource == frame # Nothing => frame.from = frame.of

(* A waveform is that of its source, and its Y metadata those of the       *)
(* source when it was read, through any sequence of scale and offset       *)
(* writes, which the driver follows without asking the scope, of sources   *)
(* shown and hidden, RAW captures, failed reads and raw SCPI: until a live *)
(* read whose preamble is cached follows one of another source, and, for   *)
(* the Y metadata, as long as the scope takes the values it is sent.       *)
FrameIsTrue ==
  frame # Nothing /\ ~strayed =>
    /\ frame.from = frame.of
    /\ frame.of \notin rounded =>
         frame.meta.inc = frame.truth.inc /\ frame.meta.off = frame.truth.off
=============================================================================
