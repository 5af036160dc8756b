--------------------------- MODULE MCScopeDisplay ---------------------------
(* Model checking instance of ScopeDisplay.                                *)
EXTENDS ScopeDisplay

\* Eight samples: a peak before a trough, equal samples, a peak at the end.
ShortWave == 0 :> 1 @@ 1 :> 3 @@ 2 :> 0 @@ 3 :> 1 @@ 4 :> 1 @@ 5 :> 2 @@ 6 :> 0 @@ 7 :> 3

\* The times of the samples are -8 to 8: all of them, two inside, and a range
\* over the end.
ThreeViews == {<<-8, 8>>, <<-3, 0>>, <<5, 12>>}
WholeView == <<-8, 8>>
MiddleView == <<-3, 0>>
MinusEight == -8
=============================================================================
