---------------------------- MODULE MCDmmSession ----------------------------
(* Model checking instance of DmmSession: one function of each way to write *)
(* the rate, and a control of each kind.                                    *)
EXTENDS DmmSession

CONSTANTS dc, ac, r1, r2

SomeControls ==
  {[kind |-> "function", fn |-> ac], [kind |-> "range", fn |-> dc, range |-> r2],
   [kind |-> "rate", fn |-> ac], [kind |-> "raw"]}
=============================================================================
