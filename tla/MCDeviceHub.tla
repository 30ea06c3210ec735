------------------------------ MODULE MCDeviceHub ------------------------------
(* TLC instances of DeviceHub: connections, and sessions, are interchangeable. *)
EXTENDS DeviceHub, TLC

HubSymmetry == Permutations(Conns) \union Permutations(Viewers)
================================================================================
