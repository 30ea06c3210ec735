---------------------------------- MODULE MCLed ----------------------------------
(* TLC instances of Led: the queue has its real length. *)
EXTENDS Led
===============================================================================
