--------------------------- MODULE MCScpiTransport ---------------------------
(* Model checking instances of ScpiTransport.                              *)
EXTENDS ScpiTransport

(* The optional terminator of a block.                                     *)
OptionalEnding == {<<>>, <<"LF">>}
=============================================================================
