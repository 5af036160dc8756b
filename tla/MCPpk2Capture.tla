---------------------------- MODULE MCPpk2Capture ----------------------------
(* Model checking instances of Ppk2Capture.                                *)
EXTENDS Ppk2Capture, TLC

Symmetric == Permutations(Clients)
=============================================================================
