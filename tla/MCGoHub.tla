-------------------------------- MODULE MCGoHub --------------------------------
(* TLC instances of GoHub: the sessions are interchangeable. *)
EXTENDS GoHub, TLC

ViewerSymmetry == Permutations(Viewers)
ConnSymmetry   == Permutations(Conns)
HubSymmetry    == ViewerSymmetry \union ConnSymmetry
================================================================================
