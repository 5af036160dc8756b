-------------------------- MODULE MCBrowserSession --------------------------
(* Model checking instance of BrowserSession.                              *)
EXTENDS BrowserSession

\* Two settings of one function, which differ in range, and one of another.
TwoFunctions == [s \in {"V1", "V2", "Ohm"} |-> IF s = "Ohm" THEN "resistance" ELSE "voltage"]
=============================================================================
