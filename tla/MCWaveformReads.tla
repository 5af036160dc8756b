---------------------------- MODULE MCWaveformReads ----------------------------
(* Model checking instance of WaveformReads.                               *)
EXTENDS WaveformReads

\* The largest scale is rounded down, and the smallest one has no offset.
Rounding == [s \in Scales |-> IF s = 3 THEN 2 ELSE s]
Clamping == [s \in Scales |-> [o \in Offsets |-> IF s = 1 THEN 0 ELSE o]]
=============================================================================
