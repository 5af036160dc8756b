------------------------------- MODULE Ppk2Stream -------------------------------
(***************************************************************************)
(* The sample path of a PPK2 capture: the device and its USB bridge        *)
(* (external), the frames that Ppk2Runtime accepts, Ppk2StreamDecoder, the *)
(* counters, chunks and display buckets of Ppk2Service, and                *)
(* BoundedAcquisitionChunkStore.                                           *)
(*                                                                         *)
(* A sample is known by its measurement and its true index in it: the      *)
(* model compares what the server says of a sample (its sequence number,   *)
(* what was lost before it) with what the device did.  SampleBytes bytes   *)
(* make a sample, and a byte is its offset in the stream of the bridge; so *)
(* the decoder's buffer is an interval of offsets.  Who may start and stop *)
(* a capture, and what ends it, is in Ppk2Capture.tla.                     *)
(***************************************************************************)
EXTENDS Integers, SequencesExt

CONSTANTS
  None,
  SampleBytes,     \* PPK2_SAMPLE_BYTES (4 in the code)
  Modulus,         \* PPK2_COUNTER_MODULUS (64 in the code)
  Skips,           \* what the device may lose between two samples it sends; a
                   \* whole turn of its counter (Modulus) leaves no trace in it
  ChunkSamples,    \* STORE_CHUNK_SAMPLES (1024 in the code)
  Capacity,        \* PPK2_RETAINED_BYTES, in samples (8388608 in the code)
  BucketSamples,   \* LIVE_BUCKET_SAMPLES (100 in the code)
  PublishBuckets,  \* LIVE_PUBLISH_BUCKETS
  MaxSamples,      \* bound: samples the device sends
  MaxCaptures      \* bound: captures

ASSUME StreamAssumption ==
  /\ \A c \in {SampleBytes, Modulus, ChunkSamples, BucketSamples, PublishBuckets} :
        c \in Nat \ {0}
  /\ Skips \subseteq Nat
  /\ Capacity \in Nat /\ Capacity >= ChunkSamples
  /\ MaxSamples \in Nat /\ MaxCaptures \in Nat

VARIABLES
  emitted,      \* the samples the device sent, in order
  produced,     \* the samples of this measurement that the device took
  averaging,    \* the device measures
  measurement,  \* the number of the current or latest measurement
  wire,         \* the bridge: the first offset that no frame has passed
  nextOffset,   \* session.nextStreamOffset
  measuring,    \* session.measuring
  failed,       \* the failure signal of the session has fired
  decoder,      \* Ppk2StreamDecoder
  active,       \* Ppk2Service.activeOperationId # null
  draining,     \* stopCapture waits in stopMeasurement
  capture,      \* the counters, chunks and buckets of Ppk2Service
  recorded,     \* history: the samples acceptSample took, in order
  start         \* history: the offset of the first byte of the measurement

device  == <<emitted, produced, averaging, measurement>>
session == <<nextOffset, measuring, failed, decoder>>
service == <<active, draining, capture, recorded, start>>
vars    == <<device, wire, session, service>>

Sent == Len(emitted) * SampleBytes  \* the offset after the last byte sent

-----------------------------------------------------------------------------
(* BoundedAcquisitionChunkStore, a record.  A chunk is an interval of      *)
(* sequence numbers.                                                       *)

EmptyStore == [chunks |-> <<>>, stored |-> 0, evicted |-> 0, sourceLost |-> 0,
               expected |-> None]

Items(chunks) == FoldLeft(LAMBDA n, c : n + c.count, 0, chunks)

\* evictToCapacity: the fewest of the oldest chunks go.
EvictToCapacity(store) ==
  LET n == CHOOSE k \in 0 .. Len(store.chunks) :
             /\ Items(SubSeq(store.chunks, k + 1, Len(store.chunks))) <= Capacity
             /\ \A j \in 0 .. k - 1 :
                  Items(SubSeq(store.chunks, j + 1, Len(store.chunks))) > Capacity
      kept == SubSeq(store.chunks, n + 1, Len(store.chunks))
  IN [store EXCEPT !.chunks = kept, !.stored = Items(kept),
                   !.evicted = @ + store.stored - Items(kept)]

\* append.  It throws on a chunk that overlaps: see StoreAccounts.
StoreAppend(store, chunk) ==
  EvictToCapacity(
    [store EXCEPT !.chunks = Append(@, chunk), !.stored = @ + chunk.count,
                  !.sourceLost = IF store.expected = None THEN @
                                 ELSE @ + chunk.first - store.expected,
                  !.expected = chunk.first + chunk.count])

\* readRange
StoreRange(store, first, end) ==
  SelectSeq(store.chunks, LAMBDA c : c.first < end /\ c.first + c.count > first)

-----------------------------------------------------------------------------
(* Ppk2Service: what a capture has seen so far.                            *)

\* resetCaptureState
EmptyCapture ==
  [received |-> 0, lost |-> 0, latest |-> None, pending |-> None,
   bucket |-> None, buckets |-> <<>>, shown |-> <<>>, store |-> EmptyStore]

FlushPendingChunk(c) ==
  IF c.pending = None THEN c
  ELSE [c EXCEPT !.store = StoreAppend(@, c.pending), !.pending = None]

\* shown is a history: the buckets that the browsers were sent.
FlushLivePublications(c) ==
  [c EXCEPT !.shown = @ \o c.buckets, !.buckets = <<>>]

FlushLiveBucket(c) ==
  IF c.bucket = None THEN c
  ELSE LET d == [c EXCEPT !.buckets = Append(@, c.bucket), !.bucket = None]
       IN IF Len(d.buckets) >= PublishBuckets THEN FlushLivePublications(d) ELSE d

FlushAll(c) == FlushLivePublications(FlushLiveBucket(FlushPendingChunk(c)))

\* createBucket and addToBucket; of the values only their number is kept.
CreateBucket(seq) == [first |-> seq, last |-> seq, count |-> 1]
AddToBucket(b, seq) == [b EXCEPT !.last = seq, !.count = @ + 1]

\* Mutant: a gap does not end the chunk and the bucket.
AcceptAcrossGap(c0, seq) ==
  LET c1 == [c0 EXCEPT !.received = @ + 1, !.latest = seq,
               !.pending = IF @ = None THEN [first |-> seq, count |-> 1]
                           ELSE [@ EXCEPT !.count = @ + 1],
               !.bucket = IF @ = None THEN CreateBucket(seq) ELSE AddToBucket(@, seq)]
      c2 == IF c1.pending.count >= ChunkSamples THEN FlushPendingChunk(c1) ELSE c1
  IN IF c2.bucket.count >= BucketSamples THEN FlushLiveBucket(c2) ELSE c2

\* acceptSample.  It throws on a sequence that does not increase: see
\* SamplesAreTrue.
AcceptSample(c, seq) ==
  LET c0 == IF c.latest # None /\ seq # c.latest + 1
            THEN FlushLiveBucket(FlushPendingChunk(c)) ELSE c
      c1 == [c0 EXCEPT !.received = @ + 1, !.latest = seq,
               !.pending = IF @ = None THEN [first |-> seq, count |-> 1]
                           ELSE [@ EXCEPT !.count = @ + 1],
               !.bucket = IF @ = None THEN CreateBucket(seq) ELSE AddToBucket(@, seq)]
      c2 == IF c1.pending.count >= ChunkSamples THEN FlushPendingChunk(c1) ELSE c1
  IN IF c2.bucket.count >= BucketSamples THEN FlushLiveBucket(c2) ELSE c2

\* acceptBatch
AcceptBatch(c, samples, lost) ==
  FoldLeft(LAMBDA acc, s : AcceptSample(acc, s.seq), [c EXCEPT !.lost = @ + lost], samples)

-----------------------------------------------------------------------------
(* Ppk2StreamDecoder.                                                      *)

\* start: expected is expectedStreamOffset, buffer is bufferStartOffset.
DecoderAt(offset) ==
  [base |-> offset, expected |-> offset, buffer |-> offset, counter |-> None,
   nativeLost |-> 0]

\* The four bytes at an offset: a sample of the device, or parts of two.
Word(offset) == IF offset % SampleBytes = 0 THEN emitted[offset \div SampleBytes + 1]
                ELSE [m |-> 0, n |-> 0]

\* What the six counter bits say: anything, of bytes that are no sample.
Junk == IF decoder.base % SampleBytes = 0 THEN {0} ELSE 0 .. Modulus - 1
Counter(offset, junk) == IF offset % SampleBytes = 0 THEN Word(offset).n % Modulus ELSE junk

\* Mutant: the native counter is not restarted after a bridge gap.
AfterGapKeepsCounter(d, from) == [d EXCEPT !.buffer = from]

\* A gap that the bridge offsets account for: buffer and counter restart.
AfterGap(d, from) == [d EXCEPT !.buffer = from, !.counter = None]

\* The samples at the given offsets, and what the counter says was lost.
Decode(d, offsets, junk) ==
  FoldLeft(
    LAMBDA acc, o :
      LET c    == Counter(o, junk)
          loss == IF acc.d.counter = None THEN 0 ELSE (c - acc.d.counter + Modulus) % Modulus
          nl   == acc.d.nativeLost + loss
      IN [d       |-> [acc.d EXCEPT !.counter = (c + 1) % Modulus, !.nativeLost = nl],
          lost    |-> acc.lost + loss,
          samples |-> Append(acc.samples,
                             [seq |-> (o - d.base) \div SampleBytes + nl,
                              word |-> Word(o), at |-> o])],
    [d |-> d, lost |-> 0, samples |-> <<>>], offsets)

\* Mutant: only the number of missing bytes is tested.
BoundaryByLength(d, from) == (from - d.expected) % SampleBytes = 0

\* A gap is recoverable when both its sides are sample boundaries.
OnBoundary(d, from) ==
  /\ (from - d.expected) % SampleBytes = 0
  /\ (d.expected - d.base) % SampleBytes = 0
  /\ (from - d.base) % SampleBytes = 0

\* push of the payload at from .. to - 1, once OnBoundary holds of a gap: the
\* new decoder, the samples and the loss.
Push(d, from, to, junk) ==
  LET gap   == from > d.expected
      d1    == [(IF gap THEN AfterGap(d, from) ELSE d) EXCEPT !.expected = to]
      count == (to - d1.buffer) \div SampleBytes
      r     == Decode(d1, [i \in 1 .. count |-> d1.buffer + (i - 1) * SampleBytes], junk)
  IN [d       |-> [r.d EXCEPT !.buffer = @ + count * SampleBytes],
      lost    |-> r.lost + (IF gap THEN (from - d.expected) \div SampleBytes ELSE 0),
      samples |-> r.samples]

-----------------------------------------------------------------------------
Init ==
  /\ emitted = <<>> /\ produced = 0 /\ averaging = FALSE /\ measurement = 0
  /\ wire = 0
  /\ nextOffset = 0 /\ measuring = FALSE /\ failed = FALSE /\ decoder = DecoderAt(0)
  /\ active = FALSE /\ draining = FALSE /\ capture = EmptyCapture
  /\ recorded = <<>> /\ start = 0

\* The device takes a sample, and may have lost some before it.
Emit(skip) ==
  /\ averaging /\ Len(emitted) < MaxSamples
  /\ emitted' = Append(emitted, [m |-> measurement, n |-> produced + skip])
  /\ produced' = produced + skip + 1
  /\ UNCHANGED <<averaging, measurement, wire, session, service>>

\* startCapture and startMeasurement
StartCapture ==
  /\ ~active /\ ~draining /\ ~failed /\ ~measuring /\ measurement < MaxCaptures
  /\ active' = TRUE
  /\ capture' = EmptyCapture
  /\ recorded' = <<>> /\ start' = Sent
  /\ decoder' = DecoderAt(nextOffset)
  /\ measuring' = TRUE
  /\ averaging' = TRUE /\ measurement' = measurement + 1 /\ produced' = 0
  /\ UNCHANGED <<emitted, wire, nextOffset, failed, draining>>

\* A data frame the bridge may send next: in order, and never empty.
Frame(from, to) == wire <= from /\ from < to /\ to <= Sent

\* acceptFrame of the bytes from .. to - 1: what lies between wire and from the
\* bridge discarded.  The frames of one TCP read are all accepted, those after
\* a frame that failed the session too.
AcceptFrame(from, to, junk) ==
  /\ Frame(from, to)
  /\ wire' = to
  /\ IF ~measuring
     THEN nextOffset' = to /\ UNCHANGED <<measuring, failed, decoder, service>>
     ELSE IF from > decoder.expected /\ ~OnBoundary(decoder, from)
     THEN failed' = TRUE /\ UNCHANGED <<nextOffset, measuring, decoder, service>>
     ELSE LET r == Push(decoder, from, to, junk)
          IN /\ decoder' = r.d
             /\ nextOffset' = to
             /\ IF active
                THEN /\ capture' = AcceptBatch(capture, r.samples, r.lost)
                     /\ recorded' = recorded \o r.samples
                ELSE UNCHANGED <<capture, recorded>>
             /\ UNCHANGED <<measuring, failed, active, draining, start>>
  /\ UNCHANGED device

\* stopCapture as far as the drain delay of stopMeasurement
StopMeasurement ==
  /\ active /\ measuring /\ ~draining
  /\ measuring' = FALSE
  /\ averaging' = FALSE
  /\ draining' = TRUE
  /\ UNCHANGED <<emitted, produced, measurement, wire, nextOffset, failed, decoder,
                 active, capture, recorded, start>>

\* the rest of stopCapture; a failure may have ended the capture before
StopCapture ==
  /\ draining
  /\ draining' = FALSE
  /\ active' = FALSE
  /\ capture' = IF active THEN FlushAll(capture) ELSE capture
  /\ UNCHANGED <<device, wire, session, recorded, start>>

\* The USB device is unplugged, or the connection breaks.
Fail ==
  /\ ~failed
  /\ failed' = TRUE
  /\ UNCHANGED <<device, wire, nextOffset, measuring, decoder, service>>

\* The run loop takes the failed session away, and failActiveCapture runs.  The
\* next session stops the device, drains it and finds the stream where the
\* bridge stands.
NextSession ==
  /\ failed
  /\ failed' = FALSE
  /\ measuring' = FALSE
  /\ averaging' = FALSE
  /\ nextOffset' \in wire .. Sent
  /\ wire' = nextOffset'
  /\ decoder' = DecoderAt(nextOffset')
  /\ active' = FALSE
  /\ capture' = IF active THEN FlushAll(capture) ELSE capture
  /\ UNCHANGED <<emitted, produced, measurement, draining, recorded, start>>

Next ==
  \/ \E skip \in Skips : Emit(skip)
  \/ StartCapture
  \/ \E from, to \in 0 .. Sent, junk \in Junk : AcceptFrame(from, to, junk)
  \/ StopMeasurement \/ StopCapture \/ Fail \/ NextSession

Spec == Init /\ [][Next]_vars

-----------------------------------------------------------------------------
(* readViewport                                                            *)

Seqs(chunk) == chunk.first .. chunk.first + chunk.count - 1

\* Mutant: the chunk that is still filled is not read.
RetainedStoreOnly(first, end) == StoreRange(capture.store, first, end)

\* The chunks a viewport reads: those of the store and the pending one.
RetainedChunks(first, end) ==
  LET p == capture.pending
  IN StoreRange(capture.store, first, end)
     \o (IF p # None /\ p.first < end /\ first < p.first + p.count THEN <<p>> ELSE <<>>)

\* The buckets: bucket i of the answer covers width sequence numbers.
Viewport(first, end, maxBuckets) ==
  LET span  == end - first
      width == (span + maxBuckets - 1) \div maxBuckets
      seqs  == {s \in first .. end - 1 :
                  \E c \in ToSet(RetainedChunks(first, end)) : s \in Seqs(c)}
  IN {[index |-> i, seqs |-> {s \in seqs : (s - first) \div width = i}] :
        i \in {(s - first) \div width : s \in seqs}}

\* firstAvailableSequence and endAvailableSequenceExclusive
FirstAvailable ==
  IF capture.store.chunks # <<>> THEN capture.store.chunks[1].first
  ELSE IF capture.pending # None THEN capture.pending.first ELSE None
EndAvailable ==
  IF capture.pending # None THEN capture.pending.first + capture.pending.count
  ELSE IF capture.store.chunks # <<>> THEN capture.store.expected ELSE None

-----------------------------------------------------------------------------
(* Properties.                                                             *)

Interval == [first : Nat, count : Nat \ {0}]
Bucket   == [first : Nat, last : Nat, count : Nat \ {0}]

\* Type invariant of all variables.
TypeOK ==
  /\ emitted \in Seq([m : Nat, n : Nat]) /\ produced \in Nat
  /\ averaging \in BOOLEAN /\ measurement \in 0 .. MaxCaptures
  /\ wire \in 0 .. Sent /\ nextOffset \in 0 .. wire
  /\ measuring \in BOOLEAN /\ failed \in BOOLEAN
  /\ active \in BOOLEAN /\ draining \in BOOLEAN
  /\ capture.pending \in {None} \cup Interval /\ capture.store.chunks \in Seq(Interval)
  /\ capture.bucket \in {None} \cup Bucket /\ capture.buckets \in Seq(Bucket)
  /\ recorded \in Seq([seq : Nat, word : [m : Nat, n : Nat], at : Nat])

\* The measurement began on a clean stream: its first byte follows the last
\* byte that the server had accepted.
CleanStart == decoder.base = start

\* Over every gap, recoverable or not, and every way the bytes are cut into
\* frames: a capture that began on a clean stream records whole samples of its
\* own measurement, with increasing sequence numbers, and between two samples
\* that follow each other on the wire the sequence numbers tell what the device
\* lost there, whole turns of its counter apart: exactly, where that is less
\* than a turn, and never more (Ppk2StreamDecoder.push, Ppk2Service.acceptSample).
SamplesAreTrue ==
  /\ \A i, j \in 1 .. Len(recorded) : i < j => recorded[i].seq < recorded[j].seq
  /\ active /\ CleanStart =>
       /\ \A i \in 1 .. Len(recorded) :
            /\ recorded[i].at % SampleBytes = 0
            /\ recorded[i].word.m = measurement
            /\ recorded[i].seq <= recorded[i].word.n
       /\ \A i \in 1 .. Len(recorded) - 1 :
            recorded[i + 1].at = recorded[i].at + SampleBytes =>
              recorded[i + 1].seq - recorded[i].seq - 1
                = (recorded[i + 1].word.n - recorded[i].word.n - 1) % Modulus

\* What is reported as received and lost reaches the latest sequence number and
\* never exceeds what the device took: no loss is counted twice, by the offsets
\* of the bridge and by the counter of the device (Ppk2StreamDecoder.push; the
\* comment at its head).
LossIsAccounted ==
  active =>
    /\ capture.latest # None => capture.received + capture.lost >= capture.latest + 1
    /\ measuring /\ CleanStart => capture.received + capture.lost <= produced

\* The samples still held.
Held == capture.store.stored + (IF capture.pending = None THEN 0 ELSE capture.pending.count)

\* Received samples are held or were evicted, what is held is the end of what
\* was recorded, chunk after chunk without overlap, and the store's own count
\* of source loss, which sees neither the head nor the tail, is within the
\* capture's (acceptSample, flushPendingChunk, append, evictToCapacity).
StoreAccounts ==
  LET st == capture.store
      n  == Len(recorded)
  IN /\ Held + st.evicted = capture.received /\ capture.received = n
     /\ st.stored = Items(st.chunks) /\ st.stored <= Capacity
     /\ st.sourceLost <= capture.lost
     /\ \A i \in 1 .. Len(st.chunks) - 1 :
          st.chunks[i].first + st.chunks[i].count <= st.chunks[i + 1].first
     /\ UNION {Seqs(c) : c \in ToSet(RetainedChunks(0, IF n = 0 THEN 1 ELSE capture.latest + 1))}
          = {recorded[i].seq : i \in n - Held + 1 .. n}

\* Every sample of the device is lost, held or evicted, and is counted once.
AccountsAgree == LossIsAccounted /\ StoreAccounts

\* Whatever window a browser asks for and however many buckets: each retained
\* sample of the window is in one bucket and nothing else is, there are no more
\* buckets than asked for, and the availability the answer states covers them
\* (readViewport); no live bucket that was shown spans a gap (acceptSample).
ViewportIsComplete ==
  LET n    == Len(recorded)
      held == {recorded[i].seq : i \in n - Held + 1 .. n}
  IN /\ \A w \in {<<0, 8>>, <<1, 4>>, <<3, 7>>}, maxBuckets \in {1, 3} :
          LET v == Viewport(w[1], w[2], maxBuckets)
          IN /\ UNION {b.seqs : b \in v} = held \cap (w[1] .. w[2] - 1)
             /\ \A b \in v : b.index \in 0 .. maxBuckets - 1
     /\ held # {} => /\ FirstAvailable \in held /\ EndAvailable - 1 \in held
                     /\ held \subseteq FirstAvailable .. EndAvailable - 1
     /\ \A b \in ToSet(capture.shown) : b.count = b.last - b.first + 1
=============================================================================
