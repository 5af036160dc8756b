--------------------------- MODULE MCScpiScheduler ---------------------------
(* Model checking instance of ScpiScheduler.                               *)
EXTENDS ScpiScheduler
=============================================================================
