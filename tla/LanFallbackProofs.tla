--------------------------- MODULE LanFallbackProofs ---------------------------
(***************************************************************************)
(* What holds of LanFallback for every clock size, window, ping interval   *)
(* and boot time.                                                          *)
(*                                                                         *)
(* LanInStep is not inductive: that a stop finds a server to stop, and a   *)
(* start finds none, follows from where the peer task is (PeerKnows).      *)
(* FlagIsFresh needs more: how far the clock, the sample and the last ping *)
(* may be apart at each place of the round (OneTick, Fresh).               *)
(***************************************************************************)
EXTENDS LanFallback, TLAPS

\* What the peer task's position says about its server.
PeerKnows ==
  /\ ppc \in {"countdown", "start"} => ~lanUp
  /\ ppc \in {"stop", "stopped"} => lanUp
  /\ ppc = "stopped" => ~server

Inv == TypeOK /\ LanInStep /\ PeerKnows

LEMMA ClockLemma ==
  ASSUME NEW t \in Nat
  PROVE  Wrapped(t) \in 0..(ClockSize - 1)
BY LanFallbackAssumption DEF Wrapped

LEMMA CapLemma ==
  ASSUME NEW max \in Nat, NEW n \in 0..max
  PROVE  Capped(n, max) \in 0..max
BY DEF Capped

\* Type correctness: whatever the parameters, no reading leaves the clock and
\* every flag and position has its type (webrtc_stream.c:88-100).
LEMMA TypeStep == TypeOK /\ [Next]_vars => TypeOK'
<1> SUFFICES ASSUME TypeOK, [Next]_vars PROVE TypeOK'
  OBVIOUS
<1> USE DEF TypeOK, PeerPcs, WsPcs, still, clockVars, flagVars, loopVars,
            runVars, httpVars, peerVars
<1>1. CASE PeerSample
  BY <1>1 DEF PeerSample
<1>2. CASE PeerCheck \/ PeerCountdown
  BY <1>2 DEF PeerCheck, PeerCountdown
<1>3. CASE PeerPing \/ PeerAsk
  BY <1>3, LanFallbackAssumption DEF PeerPing, PeerAsk, MaxUntried
<1>4. CASE PeerHeal
  BY <1>4 DEF PeerHeal
<1>5. CASE PeerHealStamp
  BY <1>5 DEF PeerHealStamp
<1>6. CASE PeerLan
  BY <1>6 DEF PeerLan
<1>7. CASE PeerStops
  BY <1>7 DEF PeerStops
<1>8. CASE PeerLanDown
  BY <1>8 DEF PeerLanDown
<1>9. CASE PeerStarts
  BY <1>9 DEF PeerStarts
<1>10. CASE PeerStartFails
  BY <1>10 DEF PeerStartFails
<1>11. CASE WsDials
  BY <1>11, LanFallbackAssumption DEF WsDials
<1>12. CASE WsDrops
  BY <1>12 DEF WsDrops
<1>13. CASE WsSilentLoss
  BY <1>13 DEF WsSilentLoss
<1>14. CASE WsError
  BY <1>14 DEF WsError
<1>15. CASE WsConnected
  BY <1>15, LanFallbackAssumption DEF WsConnected, MaxUntried
<1>16. CASE WsStamp
  BY <1>16 DEF WsStamp
<1>17. CASE WsClear
  BY <1>17 DEF WsClear
<1>18. CASE ClientOpens
  BY <1>18 DEF ClientOpens
<1>19. CASE ClientLeaves \/ HandlerEnds \/ CameraDies
  <2>1. UNCHANGED <<clockVars, flagVars, peerVars, wpc, runVars, up, untried>>
    BY <1>19 DEF ClientLeaves, HandlerEnds, CameraDies
  <2>2. streaming' \in BOOLEAN /\ camera' \in BOOLEAN
    BY <1>19 DEF ClientLeaves, HandlerEnds, CameraDies
  <2>3. /\ now' \in 0..(ClockSize - 1) /\ stamp' \in 0..(ClockSize - 1)
        /\ nowMs' \in 0..(ClockSize - 1) /\ lastPing' \in 0..(ClockSize - 1)
        /\ downFor' \in 0..FallbackTicks /\ untried' \in 0..(MaxUntried + 1)
    BY <2>1
  <2>4. /\ ppc' \in PeerPcs /\ wpc' \in WsPcs
    BY <2>1
  <2>5. /\ ticked' \in BOOLEAN /\ up' \in BOOLEAN /\ connected' \in BOOLEAN
        /\ lanActive' \in BOOLEAN /\ lanUp' \in BOOLEAN
        /\ server' \in BOOLEAN /\ stopping' \in BOOLEAN
    BY <2>1
  <2> QED
    BY <2>2, <2>3, <2>4, <2>5
<1>20. CASE Tick
  <2>1. now' \in 0..(ClockSize - 1)
    <3>1. now + 1 \in Nat
      BY LanFallbackAssumption
    <3> QED BY <1>20, <3>1, ClockLemma DEF Tick
  <2>2. downFor' \in 0..FallbackTicks
    BY <1>20, CapLemma, LanFallbackAssumption DEF Tick
  <2>3. untried' \in 0..(MaxUntried + 1)
    <3>1. MaxUntried + 1 \in Nat
      BY LanFallbackAssumption DEF MaxUntried
    <3> QED BY <1>20, <3>1, CapLemma DEF Tick
  <2> QED BY <1>20, <2>1, <2>2, <2>3 DEF Tick
<1>21. CASE UNCHANGED vars
  BY <1>21 DEF vars
<1> QED
  BY <1>1, <1>2, <1>3, <1>4, <1>5, <1>6, <1>7, <1>8, <1>9, <1>10, <1>11, <1>12,
     <1>13, <1>14, <1>15, <1>16, <1>17, <1>18, <1>19, <1>20, <1>21
  DEF Next, Peer, Handler

LEMMA ServerStep == Inv /\ [Next]_vars => LanInStep' /\ PeerKnows'
<1> SUFFICES ASSUME Inv, [Next]_vars PROVE LanInStep' /\ PeerKnows'
  OBVIOUS
<1> USE DEF Inv, LanInStep, PeerKnows, still, clockVars, flagVars, loopVars,
            runVars, httpVars, peerVars
<1>0. /\ ppc \in PeerPcs /\ lanUp \in BOOLEAN /\ lanActive \in BOOLEAN
      /\ server \in BOOLEAN /\ streaming \in BOOLEAN
  BY DEF TypeOK
<1>1. CASE PeerSample
  BY <1>1 DEF PeerSample
<1>2. CASE PeerCheck \/ PeerCountdown
  BY <1>0, <1>2 DEF PeerCheck, PeerCountdown
<1>3. CASE PeerPing \/ PeerAsk
  BY <1>3 DEF PeerPing, PeerAsk
<1>4. CASE PeerHeal \/ PeerHealStamp
  BY <1>4 DEF PeerHeal, PeerHealStamp
<1>5. CASE PeerLan
  BY <1>0, <1>5 DEF PeerLan
<1>6. CASE PeerStops
  BY <1>6 DEF PeerStops
<1>7. CASE PeerLanDown
  BY <1>0, <1>7 DEF PeerLanDown
<1>8. CASE PeerStarts
  BY <1>8 DEF PeerStarts
<1>9. CASE PeerStartFails
  BY <1>9 DEF PeerStartFails
<1>10. CASE Handler
  BY <1>10 DEF Handler, WsConnected, WsStamp, WsClear
<1>11. CASE WsDials \/ WsDrops \/ WsSilentLoss \/ WsError
  BY <1>11 DEF WsDials, WsDrops, WsSilentLoss, WsError
<1>12. CASE ClientOpens \/ ClientLeaves \/ HandlerEnds \/ CameraDies
  BY <1>12 DEF ClientOpens, ClientLeaves, HandlerEnds, CameraDies
<1>13. CASE Tick
  BY <1>13 DEF Tick
<1>14. CASE UNCHANGED vars
  BY <1>14 DEF vars
<1> QED
  BY <1>1, <1>2, <1>3, <1>4, <1>5, <1>6, <1>7, <1>8, <1>9, <1>10, <1>11, <1>12,
     <1>13, <1>14 DEF Next, Peer

\* The invariant the theorems below are read off.
THEOREM Invariance == Spec => []Inv
<1>1. Init => Inv
  <2> SUFFICES ASSUME Init PROVE Inv
    OBVIOUS
  <2>1. TypeOK
    <3>1. 0 \in 0..(ClockSize - 1) /\ 0 \in 0..FallbackTicks /\ 0 \in 0..(MaxUntried + 1)
      BY LanFallbackAssumption DEF MaxUntried
    <3> QED
      BY <3>1, LanFallbackAssumption
      DEF Init, TypeOK, PeerPcs, WsPcs
  <2>2. LanInStep /\ PeerKnows
    BY DEF Init, LanInStep, PeerKnows
  <2> QED
    BY <2>1, <2>2 DEF Inv
<1>2. Inv /\ [Next]_vars => Inv'
  BY TypeStep, ServerStep DEF Inv
<1> QED
  BY <1>1, <1>2, PTL DEF Spec

\* Type correctness (webrtc_stream.c:88-100, 218-223).
THEOREM TypeCorrect == Spec => []TypeOK
BY Invariance, PTL DEF Inv

\* lan_up, s_lan_active and the HTTP server agree outside httpd_stop, so that no
\* server is left running that nobody will stop (webrtc_stream.c:253-270,
\* lan_stream.c:86-140).
THEOREM ServerTracked == Spec => []LanInStep
BY Invariance, PTL DEF Inv

\* The countdown moves only on the way out of "connected", on a heal and on a
\* failed start: errors of the retry storm leave it alone, whatever the
\* interleaving (webrtc_stream.c:479-491).
THEOREM CountdownKept == Spec => StormKeepsCountdown
<1>1. [Next]_vars => [stamp' # stamp => connected \/ ppc \in {"healed", "start"}]_vars
  <2> SUFFICES ASSUME Next, stamp' # stamp
               PROVE  connected \/ ppc \in {"healed", "start"}
    OBVIOUS
  <2> USE DEF still, clockVars, flagVars, loopVars, runVars, httpVars,
              peerVars
  <2>1. CASE Peer
    BY <2>1 DEF Peer, PeerSample, PeerCheck, PeerCountdown, PeerPing, PeerAsk,
                PeerHeal, PeerHealStamp, PeerLan, PeerStops, PeerLanDown, PeerStarts,
                PeerStartFails
  <2>2. CASE Handler
    BY <2>2 DEF Handler, WsConnected, WsStamp, WsClear
  <2>3. CASE WsDials \/ WsDrops \/ WsSilentLoss \/ WsError \/ Tick
    BY <2>3 DEF WsDials, WsDrops, WsSilentLoss, WsError, Tick
  <2>4. CASE ClientOpens \/ ClientLeaves \/ HandlerEnds \/ CameraDies
    BY <2>4 DEF ClientOpens, ClientLeaves, HandlerEnds, CameraDies
  <2> QED BY <2>1, <2>2, <2>3, <2>4 DEF Next
<1> QED
  BY <1>1, PTL DEF Spec, StormKeepsCountdown
-------------------------------------------------------------------------------
(* The clock: what Since says after one tick, without the wrap.             *)

Clock == 0..(ClockSize - 1)

LEMMA WrapLemma ==
  ASSUME NEW t \in 0..(2 * ClockSize - 1)
  PROVE  Wrapped(t) = IF t < ClockSize THEN t ELSE t - ClockSize
<1> USE LanFallbackAssumption
<1>1. CASE t < ClockSize
  <2>1. ClockSize \in Nat \ {0} /\ t \in 0..(ClockSize - 1)
    BY <1>1
  <2>2. t % ClockSize = t
    BY <2>1
  <2> QED BY <1>1, <2>2 DEF Wrapped
<1>2. CASE ~(t < ClockSize)
  <2>1. ClockSize \in Nat \ {0} /\ t \in ClockSize..(2 * ClockSize - 1)
    BY <1>2
  <2>2. t % ClockSize = t - ClockSize
    BY <2>1
  <2> QED BY <1>2, <2>2 DEF Wrapped
<1> QED BY <1>1, <1>2

LEMMA SinceLemma ==
  ASSUME NEW a \in Clock, NEW b \in Clock
  PROVE  Since(a, b) = IF a >= b THEN a - b ELSE a + ClockSize - b
<1>1. a + ClockSize - b \in 0..(2 * ClockSize - 1)
  BY LanFallbackAssumption DEF Clock
<1>2. Since(a, b) = Wrapped(a + ClockSize - b)
  BY DEF Since, Wrapped
<1> QED BY <1>1, <1>2, WrapLemma, LanFallbackAssumption DEF Clock

LEMMA SinceTick ==
  ASSUME NEW a \in Clock, NEW b \in Clock, Since(a, b) + 1 < ClockSize
  PROVE  Since(Wrapped(a + 1), b) = Since(a, b) + 1
<1>1. a + 1 \in 0..(2 * ClockSize - 1)
  BY LanFallbackAssumption DEF Clock
<1>2. Wrapped(a + 1) = IF a + 1 < ClockSize THEN a + 1 ELSE a + 1 - ClockSize
  BY <1>1, WrapLemma, LanFallbackAssumption DEF Clock
<1>3. Wrapped(a + 1) \in Clock
  BY <1>2, LanFallbackAssumption DEF Clock
<1>4. Since(Wrapped(a + 1), b) = IF Wrapped(a + 1) >= b THEN Wrapped(a + 1) - b
                                 ELSE Wrapped(a + 1) + ClockSize - b
  BY <1>3, SinceLemma
<1>5. Since(a, b) = IF a >= b THEN a - b ELSE a + ClockSize - b
  BY SinceLemma
<1>6. CASE a >= b
  BY <1>2, <1>4, <1>5, <1>6, LanFallbackAssumption DEF Clock
<1>7. CASE ~(a >= b)
  BY <1>2, <1>4, <1>5, <1>7, LanFallbackAssumption DEF Clock
<1> QED BY <1>6, <1>7

-------------------------------------------------------------------------------
(* The freshness of s_ws_connected.                                         *)

Spun == IF ticked THEN 1 ELSE 0

\* The clock moved at most once since the peer task read it.
InRound == now = Wrapped(nowMs + Spun)

OneTick == ppc \notin {"loop", "stop", "stopped"} => InRound

Gap == Since(nowMs, lastPing)

\* The ping is still to come, and what is untried follows the time since the last.
Counted(n) == Gap < n /\ untried <= Gap + 2 + Spun

\* How much of untried each place in the round may have seen.  A LAN server that
\* is to be stopped holds the first round up; from then on the time since the last
\* ping counts along, until the ping is due.
Fresh ==
  connected =>
    /\ (lanUp /\ ppc = "loop") \/ ppc \in {"countdown", "start", "healed"} => untried <= Spun
    /\ lanUp /\ ppc \in {"check", "lan", "stop", "stopped"} => untried <= 1 + Spun
    /\ ~lanUp /\ ppc \in {"loop", "lan"} =>
         untried <= 1 + Spun \/ (Counted(PingTicks) /\ InRound)
    /\ ~lanUp /\ ppc = "check" => untried <= 2 + Spun \/ Counted(PingTicks + 1)

\* A new round: the sample advances by what the clock has moved, and the ping is
\* due before the gap can wrap.
LEMMA SampleFresh == Inv /\ Fresh /\ PeerSample => Fresh' /\ OneTick'
<1> SUFFICES ASSUME Inv, Fresh, PeerSample PROVE Fresh' /\ OneTick'
  OBVIOUS
<1> USE DEF flagVars, httpVars
<1>1. /\ now \in Clock /\ nowMs \in Clock /\ lastPing \in Clock
      /\ ticked \in BOOLEAN /\ connected \in BOOLEAN /\ lanUp \in BOOLEAN
      /\ untried \in Nat /\ Gap \in Nat
  BY SinceLemma, LanFallbackAssumption DEF Inv, TypeOK, Clock, MaxUntried, Gap
<1>2. /\ ppc = "loop" /\ ppc' = "check" /\ nowMs' = now /\ now' = now
      /\ ticked' = FALSE /\ Spun' = 0
      /\ UNCHANGED <<connected, lanUp, lastPing, untried>>
  BY DEF PeerSample, Spun
<1>3. Wrapped(now) = now
  BY <1>1, WrapLemma, LanFallbackAssumption DEF Clock
<1>4. OneTick'
  BY <1>1, <1>2, <1>3 DEF OneTick, InRound, Clock
<1>5. ASSUME connected, lanUp PROVE untried <= 1
  BY <1>1, <1>2, <1>5 DEF Fresh, Spun
<1>6. ASSUME connected, ~lanUp PROVE untried <= 2 \/ Counted(PingTicks + 1)'
  <2>1. CASE untried <= 1 + Spun
    BY <1>1, <2>1 DEF Spun
  <2>2. CASE Counted(PingTicks) /\ InRound
    <3>1. Since(nowMs', lastPing') = Gap + Spun
      <4>1. CASE ticked
        <5>1. Gap + 1 < ClockSize
          BY <1>1, <2>2, LanFallbackAssumption DEF Counted
        <5>2. now = Wrapped(nowMs + 1)
          BY <2>2, <4>1 DEF InRound, Spun
        <5> QED BY <1>1, <1>2, <4>1, <5>1, <5>2, SinceTick DEF Gap, Spun
      <4>2. CASE ~ticked
        <5>1. now = nowMs
          BY <1>1, <2>2, <4>2, WrapLemma, LanFallbackAssumption DEF InRound, Spun, Clock
        <5> QED BY <1>1, <1>2, <4>2, <5>1 DEF Gap, Spun
      <4> QED BY <1>1, <4>1, <4>2
    <3> QED BY <1>1, <1>2, <2>2, <3>1, LanFallbackAssumption DEF Counted, Gap, Spun
  <2> QED BY <1>2, <1>6, <2>1, <2>2 DEF Fresh
<1> QED BY <1>1, <1>2, <1>4, <1>5, <1>6 DEF Fresh

\* A tick: at most one a round, unless httpd_stop is waited for.
LEMMA TickFresh == Inv /\ Fresh /\ OneTick /\ Tick => Fresh' /\ OneTick'
<1> SUFFICES ASSUME Inv, Fresh, OneTick, Tick PROVE Fresh' /\ OneTick'
  OBVIOUS
<1> USE DEF flagVars, httpVars, peerVars
<1>1. /\ now \in Clock /\ nowMs \in Clock /\ lastPing \in Clock
      /\ ticked \in BOOLEAN /\ connected \in BOOLEAN /\ lanUp \in BOOLEAN
      /\ untried \in Nat /\ Gap \in Nat /\ ppc \in PeerPcs
  BY SinceLemma, LanFallbackAssumption DEF Inv, TypeOK, Clock, MaxUntried, Gap
<1>2. /\ UNCHANGED <<connected, nowMs, lastPing, lanUp, ppc>>
      /\ ticked' /\ now' = Wrapped(now + 1) /\ Spun' = 1 /\ Gap' = Gap
  BY DEF Tick, Spun, Gap
<1>3. CASE ppc = "stop"
  <2>1. untried' = untried
    BY <1>3 DEF Tick
  <2> QED BY <1>1, <1>2, <1>3, <2>1 DEF Fresh, OneTick, Spun, Inv, PeerKnows
<1>4. CASE ppc # "stop"
  <2>1. ~ticked /\ Spun = 0
    BY <1>4 DEF Tick, Spun
  <2>2. untried' <= untried + 1 /\ untried' \in Nat
    BY <1>1, LanFallbackAssumption DEF Tick, Capped, MaxUntried
  <2>3. InRound => InRound'
    BY <1>1, <1>2, <2>1, WrapLemma, LanFallbackAssumption DEF InRound, Clock
  <2>4. ASSUME NEW n, Counted(n) PROVE Counted(n)'
    BY <1>1, <1>2, <2>1, <2>2, <2>4 DEF Counted
  <2>5. OneTick'
    BY <1>2, <2>3 DEF OneTick
  <2>6. Fresh'
    BY <1>1, <1>2, <2>1, <2>2, <2>3, <2>4 DEF Fresh
  <2> QED BY <2>5, <2>6
<1> QED BY <1>3, <1>4

\* The rest of the round.
LEMMA RoundFresh ==
  Inv /\ Fresh /\ OneTick /\ Peer /\ ~PeerSample => Fresh' /\ OneTick'
<1> SUFFICES ASSUME Inv, Fresh, OneTick, Peer, ~PeerSample PROVE Fresh' /\ OneTick'
  OBVIOUS
<1> USE DEF still, flagVars, loopVars, runVars, Spun
<1>1. /\ ticked \in BOOLEAN /\ connected \in BOOLEAN /\ lanUp \in BOOLEAN
      /\ untried \in Nat /\ Gap \in Nat /\ ppc \in PeerPcs
  BY SinceLemma, LanFallbackAssumption DEF Inv, TypeOK, Clock, MaxUntried, Gap
<1>2. UNCHANGED <<now, ticked, nowMs>>
  BY DEF Peer, PeerCheck, PeerCountdown, PeerPing, PeerAsk, PeerHeal, PeerHealStamp,
         PeerLan, PeerStops, PeerLanDown, PeerStarts, PeerStartFails
<1>3. InRound' = InRound
  BY <1>2 DEF InRound
<1>4. CASE PeerCheck
  <2>1. InRound
    BY <1>4 DEF PeerCheck, OneTick
  <2>2. CASE connected /\ PingDue
    BY <1>3, <1>4, <2>1, <2>2 DEF PeerCheck, Fresh, OneTick
  <2>3. CASE connected /\ ~PingDue
    <3>1. /\ ppc = "check" /\ ppc' = "lan" /\ Gap < PingTicks
          /\ UNCHANGED <<connected, untried, lanUp, lastPing>>
      BY <1>1, <1>4, <2>3, LanFallbackAssumption DEF PeerCheck, PingDue, Gap
    <3>2. Gap' = Gap
      BY <1>2, <3>1 DEF Gap
    <3>3. Gap >= 0
      BY SinceLemma, LanFallbackAssumption DEF Inv, TypeOK, Clock, Gap
    <3>4. ~lanUp => Counted(PingTicks)'
      BY <1>1, <1>2, <2>3, <3>1, <3>2, <3>3 DEF Fresh, Counted
    <3> QED BY <1>1, <1>2, <1>3, <2>1, <2>3, <3>1, <3>4 DEF Fresh, OneTick
  <2>4. CASE ~connected
    BY <1>3, <1>4, <2>1, <2>4 DEF PeerCheck, Fresh, OneTick
  <2> QED BY <2>2, <2>3, <2>4
<1>5. CASE PeerPing \/ PeerAsk
  BY <1>1, <1>2, <1>3, <1>5 DEF PeerPing, PeerAsk, Fresh, OneTick
<1>6. CASE PeerHeal \/ PeerHealStamp
  BY <1>1, <1>2, <1>3, <1>6 DEF PeerHeal, PeerHealStamp, Fresh, OneTick
<1>7. CASE PeerLan
  <2>1. Gap' = Gap
    BY <1>2, <1>7 DEF PeerLan, Gap
  <2> QED BY <1>1, <1>2, <1>3, <1>7, <2>1 DEF PeerLan, Fresh, OneTick, Counted
<1>8. CASE PeerStops \/ PeerLanDown
  BY <1>1, <1>2, <1>8 DEF PeerStops, PeerLanDown, Fresh, OneTick, Inv, PeerKnows
<1>9. CASE PeerStarts \/ PeerStartFails
  BY <1>1, <1>2, <1>9 DEF PeerStarts, PeerStartFails, Fresh, OneTick
<1>10. CASE PeerCountdown
  BY <1>1, <1>2, <1>3, <1>10 DEF PeerCountdown, Fresh, OneTick, Inv, PeerKnows
<1> QED BY <1>4, <1>5, <1>6, <1>7, <1>8, <1>9, <1>10 DEF Peer

LEMMA FreshStep == Inv /\ Fresh /\ OneTick /\ [Next]_vars => Fresh' /\ OneTick'
<1> SUFFICES ASSUME Inv, Fresh, OneTick, [Next]_vars PROVE Fresh' /\ OneTick'
  OBVIOUS
<1>1. CASE Peer
  BY <1>1, SampleFresh, RoundFresh
<1>2. CASE Tick
  BY <1>2, TickFresh
<1>3. CASE WsConnected
  <2>1. untried' = 0 /\ UNCHANGED <<now, ticked, nowMs, lastPing, lanUp, ppc>>
    BY <1>3 DEF WsConnected, peerVars, clockVars
  <2>2. OneTick'
    BY <2>1 DEF OneTick, InRound, Spun
  <2>3. 0 <= Spun' /\ 0 <= 1 + Spun' /\ 0 <= 2 + Spun'
    BY DEF Spun
  <2> QED BY <2>1, <2>2, <2>3 DEF Fresh
<1>4. CASE WsClear
  <2>1. ~connected' /\ UNCHANGED <<now, ticked, nowMs, ppc>>
    BY <1>4 DEF WsClear, peerVars, clockVars
  <2> QED BY <2>1 DEF Fresh, OneTick, InRound, Spun
<1>5. CASE \/ WsStamp \/ WsDials \/ WsDrops \/ WsSilentLoss \/ WsError
           \/ ClientOpens \/ ClientLeaves \/ HandlerEnds \/ CameraDies \/ UNCHANGED vars
  <2>1. UNCHANGED <<now, ticked, nowMs, lastPing, lanUp, ppc, connected, untried>>
    BY <1>5 DEF WsStamp, WsDials, WsDrops, WsSilentLoss, WsError, ClientOpens,
                ClientLeaves, HandlerEnds, CameraDies, vars, peerVars, clockVars, flagVars
  <2> QED BY <2>1 DEF Fresh, OneTick, InRound, Spun, Counted, Gap
<1> QED BY <1>1, <1>2, <1>3, <1>4, <1>5 DEF Next, Handler

\* A stale s_ws_connected is found, and a live connection is pinged or asked for,
\* within one ping interval and three rounds, whatever the clock's size and wherever it wraps
\* (webrtc_stream.c:229-251).
THEOREM FlagFresh == Spec => []FlagIsFresh
<1>1. Init => Fresh /\ OneTick
  BY WrapLemma, LanFallbackAssumption DEF Init, Fresh, OneTick
<1>2. Inv /\ Fresh => FlagIsFresh
  <2> SUFFICES ASSUME Inv, Fresh PROVE FlagIsFresh
    OBVIOUS
  <2>1. /\ lanUp \in BOOLEAN /\ untried \in Nat /\ Gap \in Nat
    BY SinceLemma, LanFallbackAssumption DEF Inv, TypeOK, Clock, MaxUntried, Gap
  <2> QED BY <2>1, LanFallbackAssumption DEF FlagIsFresh, Fresh, Counted, Spun, MaxUntried
<1> QED
  BY <1>1, <1>2, FreshStep, Invariance, PTL DEF Spec
===============================================================================
