-------------------------- MODULE MCScopeInteraction --------------------------
(* A model checking instance of ScopeInteraction.                          *)
EXTENDS ScopeInteraction

First == CHOOSE b \in Browsers : TRUE

(* Two requests of any browsers, or three of one on the first connection,  *)
(* which need no preparation.  Browsers are interchangeable: the first     *)
(* request is always of the same one.                                      *)
(* Neither requests nor a reconnection is ever due, so every behaviour     *)
(* that is left is a fair one.                                             *)
OneBrowserGoesOn ==
  /\ issued > 0 => request[1].who = First
  /\ issued > 2 => /\ conn = 1
                   /\ \A r \in 1 .. issued : request[r].who = First /\ ~request[r].prepares
=============================================================================
