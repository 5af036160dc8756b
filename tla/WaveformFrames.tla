---------------------------- MODULE WaveformFrames ----------------------------
(***************************************************************************)
(* The arithmetic of waveform frames: the samples a time range asks for    *)
(* (src/web/waveform/waveform-controller.ts), the range the server answers *)
(* with, twice as wide (src/server/waveform/deep-capture-service.ts), the  *)
(* minima and maxima it reduces the samples to (downsample.ts), and what   *)
(* the encoder and the browser's decoder require of a frame.               *)
(*                                                                         *)
(* Times are integers: a sample is XIncrement wide and sample 0 is at      *)
(* XOrigin.  A frame's bytes are a record of what the header and the       *)
(* points say; magic, version, unit and lengths are left out.              *)
(***************************************************************************)
EXTENDS Integers, Sequences, SequencesExt, FiniteSetsExt

CONSTANTS
  Wave,        \* the samples of a channel's capture, 0 .. SampleCount - 1
  XIncrement,  \* time from a sample to the next
  XOrigin,     \* time of sample 0
  Modulus      \* sequence numbers are modulo this; 2^32 in the code

SampleCount == Cardinality(DOMAIN Wave)

ASSUME FramesAssumption ==
  /\ DOMAIN Wave = 0 .. SampleCount - 1
  /\ SampleCount > 0
  /\ Wave \in [DOMAIN Wave -> Int]
  /\ XIncrement \in Nat \ {0}
  /\ XOrigin \in Int
  /\ Modulus \in Nat /\ Modulus > 2 /\ Modulus % 2 = 0

Lower(a, b) == IF a < b THEN a ELSE b
Upper(a, b) == IF a < b THEN b ELSE a
Ceiling(a, b) == -((-a) \div b)

NextSequence(s) == (s + 1) % Modulus

IsNewerSequence(next, current) ==
  LET difference == (next - current) % Modulus
  IN  difference # 0 /\ difference < Modulus \div 2

\* The samples of a time range: floor, ceiling, and at least one sample.
TimeRangeToSampleRange(range) ==
  LET start == Upper(0, Lower(SampleCount - 1,
                              (Lower(range[1], range[2]) - XOrigin) \div XIncrement))
      end   == Upper(start + 1,
                     Lower(SampleCount,
                           Ceiling(Upper(range[1], range[2]) - XOrigin, XIncrement)))
  IN  [start |-> start, end |-> end]

Width(r) == r.end - r.start

\* Is the visible range at least a fifth of its width inside the cached one?
Comfortable(cached, visible) ==
  LET comfort == Upper(1, Width(visible) \div 5)
  IN  /\ visible.start - cached.start >= comfort
      /\ cached.end - visible.end >= comfort

Covers(cached, visible) ==
  cached.start <= visible.start /\ cached.end >= visible.end

\* The range an answer represents: twice the asked one, moved back inside.
Expanded(r) ==
  LET wanted == Lower(SampleCount, 2 * Width(r))
      first  == Upper(0, r.start - (wanted - Width(r)) \div 2)
      start  == IF Lower(SampleCount, first + wanted) - first < wanted
                THEN Upper(0, SampleCount - wanted) ELSE first
  IN  [start |-> start, end |-> Lower(SampleCount, start + wanted)]

EffectivePixels(r, pixels) == Ceiling(pixels * Width(Expanded(r)), Width(r))

\* One bucket gives its first minimum and its first maximum, in their order.
Extremes(first, last) ==
  LET at(v)  == Min({i \in first .. last : Wave[i] = v})
      lowest == at(Min({Wave[i] : i \in first .. last}))
      peak   == at(Max({Wave[i] : i \in first .. last}))
  IN  IF lowest = peak THEN <<lowest>> ELSE <<Lower(lowest, peak), Upper(lowest, peak)>>

BucketStart(r, buckets, bucket) == r.start + (bucket * Width(r)) \div buckets

\* The indices of the points that stand for the samples of a range.
Downsample(r, pixels) ==
  IF Width(r) <= 2 * pixels
  THEN [k \in 1 .. Width(r) |-> r.start + k - 1]
  ELSE LET buckets == Lower(pixels, Width(r))
       IN  FlattenSeq([k \in 1 .. buckets |->
             Extremes(BucketStart(r, buckets, k - 1), BucketStart(r, buckets, k) - 1)])

\* What the encoder refuses to put in a frame...
Encodable(f) ==
  /\ f.start >= 0 /\ f.end > f.start
  /\ (f.kind = "live") <=> (f.id = 0)
  /\ \A k \in DOMAIN f.points : f.start <= f.points[k] /\ f.points[k] < f.end

\* ...and what the decoder refuses to take from one: also points out of order.
Decodable(f) ==
  /\ f.end > f.start
  /\ (f.kind = "live") <=> (f.id = 0)
  /\ \A k \in DOMAIN f.points :
       /\ f.start <= f.points[k] /\ f.points[k] < f.end
       /\ k > 1 => f.points[k - 1] <= f.points[k]
=============================================================================
