---------------------------- MODULE MCPpk2Stream ----------------------------
(* Model checking instances of Ppk2Stream.                                 *)
EXTENDS Ppk2Stream
=============================================================================
