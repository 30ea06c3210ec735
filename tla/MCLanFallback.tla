----------------------------- MODULE MCLanFallback -----------------------------
(* TLC instances of LanFallback; a tick stands for 30 s. *)
EXTENDS LanFallback
===============================================================================
