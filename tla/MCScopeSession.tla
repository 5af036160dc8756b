----------------------------- MODULE MCScopeSession -----------------------------
(* Model checking instances of ScopeSession.                               *)
EXTENDS ScopeSession
=============================================================================
