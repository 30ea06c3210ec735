---------------------------- MODULE PeerSessionProofs ----------------------------
(***************************************************************************)
(* Proofs about PeerSession, for any number of offers and any ICE servers: *)
(* the types, that s_dc_open settles on the state of the channel, that an  *)
(* offer ends a session that has SCTP up, and that the loop which fills    *)
(* the ICE table keeps a place for the relay.                              *)
(***************************************************************************)
EXTENDS PeerSession, TLAPS, WellFoundedInduction

\* The steps, one level flatter than Next.
LEMMA NextCases ==
  ASSUME [Next]_vars
  PROVE  \/ LibAdvances \/ LibEnds \/ LibReportsEnd \/ LibAnswers
         \/ OnState \/ OnStateSwitch \/ OnMsg
         \/ Connected \/ SessionGone \/ ClearOpen
         \/ Offer \/ OfferStale \/ OfferIce \/ OfferConnect \/ OfferSdp
         \/ UNCHANGED vars
  BY DEF Next

LEMMA InitTyped == Init => SessionTypeOK
<1> SUFFICES ASSUME Init PROVE SessionTypeOK
  OBVIOUS
<1>1. /\ fed \in BOOLEAN /\ answered \in BOOLEAN /\ ended \in BOOLEAN
      /\ dcOpen \in BOOLEAN /\ link \in BOOLEAN
  BY DEF Init
<1>2. /\ libId \in 0..MaxOffers /\ msgFor \in 0..MaxOffers /\ offers \in 0..MaxOffers
      /\ tableOf \in 0..offers /\ body \in Bodies
  BY PeerSessionAssumption DEF Init
<1>3. /\ lib \in Phases /\ ppc \in PeerPcs /\ wpc \in WsPcs
      /\ report \in States /\ peerState \in States
  BY DEF Init, Phases, PeerPcs, WsPcs, States, Over
<1> QED
  BY <1>1, <1>2, <1>3 DEF SessionTypeOK

LEMMA NextTyped == SessionTypeOK /\ [Next]_vars => SessionTypeOK'
<1> SUFFICES ASSUME SessionTypeOK, [Next]_vars PROVE SessionTypeOK'
  OBVIOUS
<1> USE PeerSessionAssumption DEF SessionTypeOK, libVars, peerVars, wsVars
<1>1. CASE LibAdvances
  BY <1>1 DEF LibAdvances, Reports, Phases, PeerPcs, States, Idle
<1>2. CASE LibEnds
  BY <1>2 DEF LibEnds, Reports, Phases, PeerPcs, States, Over
<1>3. CASE LibReportsEnd
  BY <1>3 DEF LibReportsEnd, Reports, PeerPcs, States, Over
<1>4. CASE LibAnswers
  BY <1>4 DEF LibAnswers, PeerPcs
<1>5. CASE OnState
  BY <1>5 DEF OnState, PeerPcs
<1>6. CASE OnStateSwitch
  BY <1>6 DEF OnStateSwitch, PeerPcs, Phases
<1>7. CASE OnMsg
  BY <1>7 DEF OnMsg, PeerPcs
<1>8. CASE Connected
  BY <1>8 DEF Connected
<1>9. CASE SessionGone
  BY <1>9 DEF SessionGone, Disconnect, Phases, WsPcs
<1>10. CASE ClearOpen
  BY <1>10 DEF ClearOpen, WsPcs
<1>11. CASE Offer
  BY <1>11 DEF Offer, WsPcs
<1>12. CASE OfferStale
  BY <1>12 DEF OfferStale, Disconnect, Phases, WsPcs
<1>13. CASE OfferIce
  BY <1>13 DEF OfferIce, WsPcs
<1>14. CASE OfferConnect
  BY <1>14 DEF OfferConnect, Phases, WsPcs
<1>15. CASE OfferSdp
  BY <1>15 DEF OfferSdp, WsPcs
<1>16. CASE UNCHANGED vars
  BY <1>16 DEF vars
<1> QED
  BY <1>1, <1>2, <1>3, <1>4, <1>5, <1>6, <1>7, <1>8, <1>9, <1>10, <1>11, <1>12, <1>13,
     <1>14, <1>15, <1>16, NextCases

\* The two tasks, the library and the handler stay within their states.
THEOREM SessionTypeCorrect == Spec => []SessionTypeOK
  BY InitTyped, NextTyped, PTL DEF Spec

-------------------------------------------------------------------------------
WithSctp == {"sctp", "channel", "opened"}

Reporting == ppc \in {"state", "switch"}

\* What the flag is going to be once the report under way is dealt with.
Settled == IF Reporting /\ report = "DATA_CHANNEL_OPENED" THEN TRUE
           ELSE IF Reporting /\ report \in Over THEN FALSE ELSE dcOpen

\* A session that was disconnected leaves nothing behind but its report, a report
\* is about the session as it still is, and once SCTP is up s_peer_state says so.
Tracking ==
  /\ (wpc = "clear" => lib = "none")
  /\ (ended => lib \in {"none", "new"})
  /\ (Reporting /\ ~ended /\ report = "DATA_CHANNEL_OPENED" => lib = "opened")
  /\ (Reporting /\ ~ended /\ report \in Over => lib # "opened")
  /\ (~ended /\ wpc # "clear" => (Settled <=> lib = "opened"))

Noticed ==
  /\ (ended => lib \in {"none", "new"})
  /\ (lib \in WithSctp \cup {"connected"} /\ ppc = "state" => report \notin Idle)
  /\ (lib = "connected" /\ ppc # "state" => peerState \notin Idle)
  /\ (lib \in WithSctp => peerState \notin Idle)

LEMMA NextTracks == SessionTypeOK /\ Tracking /\ [Next]_vars => Tracking'
<1> SUFFICES ASSUME SessionTypeOK, Tracking, [Next]_vars PROVE Tracking'
  OBVIOUS
<1> USE DEF Tracking, Reporting, Settled, Over, libVars, peerVars, wsVars
<1>1. CASE LibAdvances
  BY <1>1 DEF LibAdvances, Reports
<1>2. CASE LibEnds
  BY <1>2 DEF LibEnds, Reports
<1>3. CASE LibReportsEnd
  BY <1>3 DEF LibReportsEnd, Reports
<1>4. CASE LibAnswers
  BY <1>4 DEF LibAnswers
<1>5. CASE OnState
  BY <1>5 DEF OnState
<1>6. CASE OnStateSwitch
  <2>1. /\ wpc' = wpc /\ ended' = ended /\ ppc = "switch" /\ ppc' = "loop"
        /\ (lib' = lib \/ (lib = "sctp" /\ lib' = "channel"))
    BY <1>6 DEF OnStateSwitch
  <2>2. dcOpen' = Settled
    BY <1>6 DEF OnStateSwitch, SessionOver
  <2>3. ~ended /\ wpc # "clear" => (dcOpen' <=> lib' = "opened")
    BY <2>1, <2>2
  <2>4. wpc' = "clear" => lib' = "none"
    BY <2>1
  <2>5. ended' => lib' \in {"none", "new"}
    BY <2>1
  <2> QED BY <2>1, <2>3, <2>4, <2>5
<1>7. CASE OnMsg
  BY <1>7 DEF OnMsg
<1>8. CASE Connected \/ Offer \/ OfferIce \/ OfferSdp
  BY <1>8 DEF Connected, Offer, OfferIce, OfferSdp
<1>9. CASE SessionGone
  BY <1>9 DEF SessionGone, Disconnect
<1>10. CASE ClearOpen
  BY <1>10 DEF ClearOpen
<1>11. CASE OfferStale
  BY <1>11 DEF OfferStale, Disconnect
<1>12. CASE OfferConnect
  <2>1. /\ wpc = "connect" /\ wpc' \in {"sdp", "idle"}
        /\ ppc' = ppc /\ report' = report /\ dcOpen' = dcOpen
        /\ \/ lib' = "new" /\ ended' = (ended \/ lib # "none")
           \/ lib' = lib /\ ended' = ended
    BY <1>12 DEF OfferConnect
  <2>2. CASE lib' = "new" /\ ended' = (ended \/ lib # "none")
    <3>1. ~ended' => ~ended /\ lib = "none"
      BY <2>2
    <3>2. ~ended' => ~Settled /\ Settled' = Settled
      BY <2>1, <3>1
    <3>3. ~ended' => ~(Reporting /\ report = "DATA_CHANNEL_OPENED")
      BY <3>1
    <3> QED BY <2>1, <2>2, <3>2, <3>3
  <2>3. CASE lib' = lib /\ ended' = ended
    BY <2>1, <2>3
  <2> QED BY <2>1, <2>2, <2>3
<1>13. CASE UNCHANGED vars
  BY <1>13 DEF vars
<1> QED
  BY <1>1, <1>2, <1>3, <1>4, <1>5, <1>6, <1>7, <1>8, <1>9, <1>10, <1>11, <1>12, <1>13,
     NextCases

\* Frames are sent exactly when the session has an open channel, as soon as the
\* reports are dealt with (on_peer_state, handle_ws_message, websocket_event_handler).
THEOREM FlagTracks == Spec => []FlagTracksChannel
<1>1. Init => Tracking
  <2> SUFFICES ASSUME Init PROVE Tracking
    OBVIOUS
  <2>1. ppc = "loop" /\ ~ended /\ lib = "none" /\ ~dcOpen /\ wpc = "idle"
    BY DEF Init
  <2> QED BY <2>1 DEF Tracking, Reporting, Settled
<1>2. Tracking => FlagTracksChannel
  BY DEF Tracking, Reporting, Settled, FlagTracksChannel
<1> QED
  BY <1>1, <1>2, NextTracks, SessionTypeCorrect, PTL DEF Spec

LEMMA NextNoticed == Noticed /\ [Next]_vars => Noticed'
<1> SUFFICES ASSUME Noticed, [Next]_vars PROVE Noticed'
  OBVIOUS
<1> USE DEF Noticed, WithSctp, Idle, libVars, peerVars, wsVars
<1>1. CASE LibAdvances
  BY <1>1 DEF LibAdvances, Reports
<1>2. CASE LibEnds
  BY <1>2 DEF LibEnds, Reports
<1>3. CASE LibReportsEnd
  BY <1>3 DEF LibReportsEnd, Reports
<1>4. CASE LibAnswers \/ OnState \/ OnMsg
  BY <1>4 DEF LibAnswers, OnState, OnMsg
<1>9. CASE OnStateSwitch
  <2>1. /\ ended' = ended /\ peerState' = peerState /\ ppc = "switch" /\ ppc' = "loop"
        /\ (lib' = lib \/ (lib = "sctp" /\ lib' = "channel"))
    BY <1>9 DEF OnStateSwitch
  <2> QED BY <2>1
<1>5. CASE Connected \/ ClearOpen \/ Offer \/ OfferIce \/ OfferSdp
  BY <1>5 DEF Connected, ClearOpen, Offer, OfferIce, OfferSdp
<1>6. CASE SessionGone \/ OfferStale
  BY <1>6 DEF SessionGone, OfferStale, Disconnect
<1>7. CASE OfferConnect
  BY <1>7 DEF OfferConnect
<1>8. CASE UNCHANGED vars
  BY <1>8 DEF vars
<1> QED
  BY <1>1, <1>2, <1>3, <1>4, <1>5, <1>6, <1>7, <1>8, <1>9, NextCases

LEMMA StepTearsDown ==
  SessionTypeOK /\ Noticed /\ [Next]_vars =>
    [wpc = "offer" /\ wpc' = "ice" => lib' \in {"none", "new", "connected"}]_vars
<1> SUFFICES ASSUME SessionTypeOK, Noticed, [Next]_vars, wpc = "offer", wpc' = "ice"
             PROVE  lib' \in {"none", "new", "connected"}
  OBVIOUS
<1>1. OfferStale
  BY NextCases DEF LibAdvances, LibEnds, LibReportsEnd, LibAnswers, OnState, OnStateSwitch,
     OnMsg, Connected, SessionGone, ClearOpen, Offer, OfferIce, OfferConnect, OfferSdp,
     vars, wsVars
<1>2. CASE Stale
  BY <1>1, <1>2 DEF OfferStale, Disconnect
<1>3. CASE ~Stale
  BY <1>1, <1>3 DEF OfferStale, Stale, Noticed, WithSctp, SessionTypeOK, Phases, libVars
<1> QED
  BY <1>2, <1>3

\* handle_offer tears down a session that has SCTP up, whenever the offer comes and
\* however far s_peer_state has fallen behind.
THEOREM TearsDown == Spec => OfferTearsDown
<1>1. Init => Noticed
  BY DEF Init, Noticed, WithSctp
<1> QED
  BY <1>1, NextNoticed, StepTearsDown, SessionTypeCorrect, PTL DEF Spec, OfferTearsDown

-------------------------------------------------------------------------------
(* The table of ICE servers.  Induction over the rounds of the loop is by   *)
(* the least round that fails.                                              *)

LEMMA SetInduction ==
  ASSUME NEW S, 0 \in S, \A n \in Nat : n \in S => n + 1 \in S
  PROVE  Nat \subseteq S
<1> DEFINE T == Nat \ S
<1> SUFFICES ASSUME T # {} PROVE FALSE
  OBVIOUS
<1>1. PICK x \in T : \A y \in T : ~ (<<y, x>> \in OpToRel(<, Nat))
  <2>1. T \subseteq Nat  OBVIOUS
  <2> HIDE DEF T
  <2> QED BY <2>1, NatLessThanWellFounded, WFMin
<1>2. \A y \in T : ~(y < x)  BY <1>1 DEF OpToRel
<1>3. x # 0 /\ x \in Nat  OBVIOUS
<1>4. x - 1 \in Nat /\ x - 1 < x /\ (x - 1) + 1 = x  BY <1>3
<1> QED BY <1>2, <1>3, <1>4

LEMMA FirstIsLeast ==
  ASSUME NEW S \in SUBSET Nat, S # {}
  PROVE  First(S) \in S
<1>1. PICK x \in S : \A y \in S : ~ (<<y, x>> \in OpToRel(<, Nat))
  BY NatLessThanWellFounded, WFMin
<1>2. ASSUME NEW y \in S PROVE x <= y
  <2>1. x \in Nat /\ y \in Nat
    OBVIOUS
  <2>2. ~(y < x)
    BY <1>1, <2>1 DEF OpToRel
  <2> QED
    BY <2>1, <2>2
<1> QED
  BY <1>2 DEF First

\* The table after n rounds, from that after n - 1.
Round(stun, g, n) ==
  IF n = 0 THEN <<>>
  ELSE IF Taken(stun, n, g[n - 1]) THEN Append(g[n - 1], stun[n])
  ELSE g[n - 1]

\* The loop has a result, and each round makes it from that of the round before.
LEMMA LoopExists ==
  ASSUME NEW stun, NEW N \in Nat
  PROVE  \E g : g = [n \in 0..N |-> Round(stun, g, n)]
<1> DEFINE Good == {m \in Nat : \E g : g = [n \in 0..m |-> Round(stun, g, n)]}
<1>1. 0 \in Good
  <2> DEFINE g == [n \in 0..0 |-> <<>>]
  <2>1. g = [n \in 0..0 |-> Round(stun, g, n)]
    BY DEF Round
  <2> QED
    BY <2>1
<1>2. ASSUME NEW m \in Nat, m \in Good PROVE m + 1 \in Good
  <2>1. PICK g : g = [n \in 0..m |-> Round(stun, g, n)]
    BY <1>2
  <2> DEFINE h == [n \in 0..m + 1 |-> IF n = m + 1 THEN Round(stun, g, n) ELSE g[n]]
  <2>2. ASSUME NEW n \in 0..m + 1 PROVE h[n] = Round(stun, h, n)
    <3>1. CASE n = 0
      BY <2>1, <3>1 DEF Round
    <3>2. CASE n \in 1..m + 1
      <4>1. n - 1 \in 0..m /\ h[n - 1] = g[n - 1]
        BY <3>2
      <4>2. h[n] = Round(stun, g, n)
        BY <2>1, <3>2
      <4> HIDE DEF h
      <4> QED
        BY <4>1, <4>2 DEF Round
    <3> QED
      BY <3>1, <3>2
  <2>3. h = [n \in 0..m + 1 |-> Round(stun, h, n)]
    <3>1. h = [n \in 0..m + 1 |-> h[n]]
      OBVIOUS
    <3> HIDE DEF h
    <3> QED
      BY <2>2, <3>1
  <2> HIDE DEF h
  <2> QED
    BY <2>3
<1> HIDE DEF Good
<1>3. Nat \subseteq Good
  BY <1>1, <1>2, SetInduction
<1> QED
  BY <1>3 DEF Good

LEMMA LoopUnfolds ==
  ASSUME NEW stun \in Seq(URLs)
  PROVE  /\ StunLoop(stun)[0] = <<>>
         /\ \A n \in 1..Len(stun) : StunLoop(stun)[n] = Round(stun, StunLoop(stun), n)
<1>1. PICK g : g = [n \in 0..Len(stun) |-> Round(stun, g, n)]
  <2>1. Len(stun) \in Nat
    OBVIOUS
  <2> QED
    BY <2>1, LoopExists
<1>2. StunLoop(stun) = [n \in 0..Len(stun) |-> Round(stun, StunLoop(stun), n)]
  BY <1>1 DEF StunLoop, Round
<1>3. Len(stun) \in Nat /\ 0 \in 0..Len(stun)
  OBVIOUS
<1>4. StunLoop(stun)[0] = Round(stun, StunLoop(stun), 0)
  BY <1>2, <1>3
<1>5. Round(stun, StunLoop(stun), 0) = <<>>
  BY DEF Round
<1>6. ASSUME NEW n \in 1..Len(stun)
      PROVE  StunLoop(stun)[n] = Round(stun, StunLoop(stun), n)
  BY <1>2, <1>3
<1> QED
  BY <1>4, <1>5, <1>6

\* A table of at most n servers that were all copied whole.
Filled(t, n) ==
  t \in Seq(URLs) /\ Len(t) <= n /\ \A i \in 1..Len(t) : Fits(t[i])

\* STUN servers leave a place for TURN.
LEMMA StunTable ==
  ASSUME NEW stun \in Seq(URLs)
  PROVE  Filled(StunServers(stun), StunPlaces)
<1> DEFINE after == StunLoop(stun)
           Good  == {n \in Nat : n <= Len(stun) => Filled(after[n], StunPlaces)}
<1>0. StunPlaces \in Nat /\ Len(stun) \in Nat
  BY PeerSessionAssumption DEF StunPlaces
<1>1. 0 \in Good
  <2>1. after[0] = <<>>
    BY LoopUnfolds
  <2>2. Filled(<<>>, StunPlaces)
    BY <1>0 DEF Filled
  <2> HIDE DEF after
  <2> QED
    BY <2>1, <2>2
<1>2. ASSUME NEW n \in Nat, n \in Good PROVE n + 1 \in Good
  <2> SUFFICES ASSUME n + 1 <= Len(stun) PROVE Filled(after[n + 1], StunPlaces)
    OBVIOUS
  <2>1. n + 1 \in 1..Len(stun) /\ (n + 1) - 1 = n /\ n + 1 # 0
    BY <1>0
  <2>2. Filled(after[n], StunPlaces)
    BY <1>0, <1>2
  <2>3. after[n + 1] = Round(stun, after, n + 1)
    BY <2>1, LoopUnfolds
  <2> HIDE DEF after
  <2>4. CASE Taken(stun, n + 1, after[n])
    <3>1. after[n + 1] = Append(after[n], stun[n + 1])
      BY <2>1, <2>3, <2>4 DEF Round
    <3>2. stun[n + 1] \in URLs /\ Fits(stun[n + 1]) /\ Len(after[n]) < StunPlaces
      BY <2>1, <2>4 DEF Taken
    <3> QED
      BY <1>0, <2>2, <3>1, <3>2 DEF Filled
  <2>5. CASE ~Taken(stun, n + 1, after[n])
    BY <2>1, <2>2, <2>3, <2>5 DEF Round
  <2> QED
    BY <2>4, <2>5
<1> HIDE DEF Good
<1>3. Len(stun) \in Good
  BY <1>0, <1>1, <1>2, SetInduction
<1> QED
  BY <1>0, <1>3 DEF Good, StunServers

\* The relay is picked among the URLs that are strings, by preference UDP.
LEMMA PickedIsString ==
  ASSUME NEW urls \in Seq(URLs), Strings(urls) # {}
  PROVE  /\ Picked(urls) \in URLs
         /\ Udp(urls) # {} => \E i \in Udp(urls) : Picked(urls) = urls[i]
<1>1. Strings(urls) \subseteq 1..Len(urls) /\ Udp(urls) \subseteq Strings(urls)
  BY DEF Strings, Udp
<1>2. \A i \in 1..Len(urls) : urls[i] \in URLs /\ i \in Nat
  OBVIOUS
<1>3. CASE Udp(urls) # {}
  <2>1. First(Udp(urls)) \in Udp(urls)
    BY <1>1, <1>2, <1>3, FirstIsLeast
  <2> QED
    BY <1>1, <1>2, <1>3, <2>1 DEF Picked
<1>4. CASE Udp(urls) = {}
  <2>1. First(Strings(urls)) \in Strings(urls)
    BY <1>1, <1>2, FirstIsLeast
  <2> QED
    BY <1>1, <1>2, <1>4, <2>1 DEF Picked
<1> QED
  BY <1>3, <1>4

\* No offer overruns the table.
LEMMA IceFilled ==
  ASSUME NEW b \in Bodies
  PROVE  Filled(IceServers(b), MaxIceServers)
<1> DEFINE stun == StunServers(b.stun)
           turn == TurnServer(b.turn)
<1>1. Filled(stun, StunPlaces)
  BY StunTable, PeerSessionAssumption
<1>2. Filled(turn, 1)
  BY PickedIsString, PeerSessionAssumption DEF TurnServer, Filled
<1>3. IceServers(b) = stun \o turn
  <2>1. Len(stun) < MaxIceServers
    BY <1>1, PeerSessionAssumption DEF Filled, StunPlaces
  <2> QED
    BY <2>1 DEF IceServers
<1> HIDE DEF stun, turn
<1>4. Filled(stun \o turn, StunPlaces + 1)
  BY <1>1, <1>2, PeerSessionAssumption DEF Filled, StunPlaces
<1> QED
  BY <1>3, <1>4, PeerSessionAssumption DEF StunPlaces

\* If every UDP URL can be copied, the relay is the last entry, and one of them.
LEMMA RelayIsLast ==
  ASSUME NEW b \in Bodies, b.turn.login, Udp(b.turn.urls) # {},
         \A i \in Udp(b.turn.urls) : Fits(b.turn.urls[i])
  PROVE  LET t == IceServers(b)
         IN  t # <<>> /\ \E i \in Udp(b.turn.urls) : t[Len(t)] = b.turn.urls[i]
<1> DEFINE stun == StunServers(b.stun)
           urls == b.turn.urls
<1>1. Filled(stun, StunPlaces)
  BY StunTable, PeerSessionAssumption
<1>2. Strings(urls) # {}
  BY DEF Udp
<1>3. PICK i \in Udp(urls) : Picked(urls) = urls[i]
  BY <1>2, PickedIsString, PeerSessionAssumption
<1>4. TurnServer(b.turn) = <<urls[i]>>
  BY <1>2, <1>3 DEF TurnServer
<1>5. IceServers(b) = stun \o <<urls[i]>>
  <2>1. Len(stun) < MaxIceServers
    BY <1>1, PeerSessionAssumption DEF Filled, StunPlaces
  <2> QED
    BY <1>4, <2>1 DEF IceServers
<1>6. urls[i] \in URLs
  BY PeerSessionAssumption DEF Udp, Strings
<1> HIDE DEF stun
<1>7. (stun \o <<urls[i]>>) # <<>> /\ (stun \o <<urls[i]>>)[Len(stun \o <<urls[i]>>)] = urls[i]
  BY <1>1, <1>6 DEF Filled
<1> QED
  BY <1>5, <1>7

LEMMA NextTable ==
  TypeOK /\ [Next]_vars => (table \in Seq(URLs) /\ Len(table) <= MaxIceServers
                             /\ \A i \in 1..Len(table) : Fits(table[i]))'
<1> SUFFICES ASSUME TypeOK, [Next]_vars PROVE Filled(table', MaxIceServers)
  BY DEF Filled
<1>1. CASE OfferIce
  BY <1>1, IceFilled DEF OfferIce, TypeOK, SessionTypeOK
<1>2. CASE UNCHANGED table
  BY <1>2 DEF TypeOK, Filled
<1>3. OfferIce \/ UNCHANGED table
  BY NextCases DEF vars, wsVars, LibAdvances, LibEnds, LibReportsEnd, LibAnswers,
     OnState, OnStateSwitch, OnMsg, Connected, SessionGone, ClearOpen, Offer,
     OfferStale, OfferConnect, OfferSdp
<1> QED
  BY <1>1, <1>2, <1>3

\* build_ice_servers: whatever an offer carries, the table stays within its
\* MAX_ICE_SERVERS places and holds no URL that overran its storage.
THEOREM TypeCorrect == Spec => []TypeOK
<1>1. Init => TypeOK
  <2>1. Init => Filled(table, MaxIceServers)
    BY PeerSessionAssumption DEF Init, Filled
  <2> QED
    BY <2>1, InitTyped DEF TypeOK, Filled
<1>2. TypeOK /\ [Next]_vars => TypeOK'
  BY NextTyped, NextTable DEF TypeOK
<1> QED
  BY <1>1, <1>2, PTL DEF Spec

\* The table that is passed on was made from the offer being handled.
TableOfOffer == wpc = "connect" => table = IceServers(body)

LEMMA NextTableOfOffer == TableOfOffer /\ [Next]_vars => TableOfOffer'
<1> SUFFICES ASSUME TableOfOffer, [Next]_vars PROVE TableOfOffer'
  OBVIOUS
<1>1. CASE OfferIce
  BY <1>1 DEF OfferIce, TableOfOffer
<1>2. CASE wpc' # "connect"
  BY <1>2 DEF TableOfOffer
<1>3. CASE UNCHANGED <<wpc, table, body>>
  BY <1>3 DEF TableOfOffer
<1>4. OfferIce \/ wpc' # "connect" \/ UNCHANGED <<wpc, table, body>>
  BY NextCases DEF vars, wsVars, LibAdvances, LibEnds, LibReportsEnd, LibAnswers,
     OnState, OnStateSwitch, OnMsg, Connected, SessionGone, ClearOpen, Offer,
     OfferStale, OfferConnect, OfferSdp
<1> QED
  BY <1>1, <1>2, <1>3, <1>4

\* webrtc_stream.c:314: however many STUN servers come with it, the relay that
\* the UDP URLs of an offer name is in the table.
THEOREM RelayKept == Spec => []TurnKept
<1>1. Init => TableOfOffer
  BY DEF Init, TableOfOffer
<1>2. Spec => []TableOfOffer
  BY <1>1, NextTableOfOffer, PTL DEF Spec
<1>3. SessionTypeOK /\ TableOfOffer => TurnKept
  BY RelayIsLast DEF SessionTypeOK, TableOfOffer, TurnKept
<1> QED
  BY <1>2, <1>3, SessionTypeCorrect, PTL
===============================================================================
