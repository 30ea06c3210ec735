----------------------------- MODULE MCPeerSession -----------------------------
(* TLC instances of PeerSession: what offers may carry. *)
EXTENDS PeerSession

Url(isString, fits, isUdp) == [string |-> isString, fits |-> fits, udp |-> isUdp]
Stun   == Url(TRUE, TRUE, FALSE)
Long   == Url(TRUE, FALSE, FALSE)
Number == Url(FALSE, TRUE, FALSE)
UdpUrl == Url(TRUE, TRUE, TRUE)
LongUdp == Url(TRUE, FALSE, TRUE)

Turn(urls) == [login |-> TRUE, urls |-> urls]
OfferBodies ==
  [stun: {<<>>, <<Stun, Long>>, <<Stun, Number, Stun>>, <<Stun, Stun, Long, Stun>>},
   turn: {Turn(<<Stun, UdpUrl>>), Turn(<<LongUdp, UdpUrl>>),
          [login |-> FALSE, urls |-> <<UdpUrl>>]}]
===============================================================================
