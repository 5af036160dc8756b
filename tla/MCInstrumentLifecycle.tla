------------------------ MODULE MCInstrumentLifecycle ------------------------
(* Model checking instances of InstrumentLifecycle.                        *)
EXTENDS InstrumentLifecycle, TLC

Symmetric == Permutations(Clients) \cup Permutations(Instruments)

\* A browser may visit any of the instruments.
AnyVisits == SUBSET Instruments
=============================================================================
