----------------------------- MODULE MCFrameChannel -----------------------------
(* TLC instances of FrameChannel: the constants are numbers. *)
EXTENDS FrameChannel
===============================================================================
