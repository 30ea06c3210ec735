------------------------------- MODULE PeerSession -------------------------------
(***************************************************************************)
(* The firmware's peer session: what the websocket event handler does with *)
(* offer, ice, viewer_gone and a lost link, and what the callbacks of the  *)
(* peer task do with the library's reports.  The two tasks share           *)
(* s_peer_state and s_dc_open without a lock; a step reads or writes one.  *)
(*                                                                         *)
(* esp_peer is external.  Assumed of it: a call from the handler takes     *)
(* effect at once; reports are made one at a time and in order inside      *)
(* main_loop; a session that was disconnected is reported DISCONNECTED     *)
(* before its successor makes progress; esp_peer_new_connection over a     *)
(* session fails, or ends it as esp_peer_disconnect does.                  *)
(***************************************************************************)
EXTENDS Naturals, Sequences

CONSTANTS MaxOffers,     \* offers received
          Bodies,        \* what an offer carries: [stun, turn]
          MaxIceServers  \* MAX_ICE_SERVERS

\* Whether a URL is a JSON string, fits its storage (copy_ice_url), and names UDP.
URLs == [string: BOOLEAN, fits: BOOLEAN, udp: BOOLEAN]

\* login: there is a turn object with a username and a credential.
ASSUME PeerSessionAssumption ==
  /\ MaxOffers \in Nat /\ MaxIceServers \in Nat \ {0}
  /\ \A b \in Bodies : /\ b.stun \in Seq(URLs)
                      /\ b.turn.login \in BOOLEAN /\ b.turn.urls \in Seq(URLs)

VARIABLES
  lib,        \* the library's session
  libId,      \* the offer it was opened for
  fed,        \* it was given that offer
  answered,   \* it has made its answer
  ended,      \* a session was disconnected and the report is still to come
  ppc,        \* where the peer task is in main_loop
  report,     \* the state it is reporting
  msgFor,     \* the session whose answer it is forwarding
  peerState,  \* s_peer_state
  dcOpen,     \* s_dc_open
  wpc,        \* where the event handler is
  offers,     \* offers received so far; the last is being handled
  body,       \* what it carries
  table,      \* s_ice_servers, up to the count passed on
  tableOf,    \* the offer it was built for
  link        \* the signaling socket is connected

libVars  == <<lib, libId, fed, answered, ended>>
peerVars == <<ppc, report, msgFor>>
wsVars   == <<wpc, offers, body, table, tableOf, link>>
vars == <<lib, libId, fed, answered, ended, ppc, report, msgFor, peerState,
          dcOpen, wpc, offers, body, table, tableOf, link>>

\* "sctp": SCTP is up and there is no channel; "channel": it is to be opened.
Phases == {"none", "new", "connected", "sctp", "channel", "opened"}
Over   == {"DISCONNECTED", "CONNECT_FAILED", "DATA_CHANNEL_CLOSED"}
Idle   == {"DISCONNECTED", "CLOSED", "NEW_CONNECTION"}
States == Over \union Idle \union
          {"CONNECTED", "DATA_CHANNEL_CONNECTED", "DATA_CHANNEL_OPENED"}
PeerPcs == {"loop", "state", "switch", "msg"}
WsPcs == {"idle", "offer", "ice", "connect", "sdp", "clear"}

-------------------------------------------------------------------------------
(* The table of ICE servers of an offer.                                    *)

Fits(u) == u.fits

\* One place is kept for TURN.
NoPlaceKept == MaxIceServers   \* mutant: STUN may fill the table

StunPlaces == MaxIceServers - 1

Uncopied(stun, n, sofar) ==    \* mutant: copy_ice_url's answer is not looked at
  Len(sofar) < StunPlaces /\ \A i \in 1..n : stun[i].string

\* The loop comes to entry n, no place having run out and every entry being a
\* string so far, and copies it.
Taken(stun, n, sofar) ==
  /\ Len(sofar) < StunPlaces
  /\ \A i \in 1..n : stun[i].string
  /\ Fits(stun[n])

\* The table after each round of the loop over the STUN URLs.
StunLoop(stun) ==
  LET after[n \in 0..Len(stun)] ==
        IF n = 0 THEN <<>>
        ELSE IF Taken(stun, n, after[n - 1]) THEN Append(after[n - 1], stun[n])
        ELSE after[n - 1]
  IN  after

StunServers(stun) == StunLoop(stun)[Len(stun)]

Strings(urls) == {i \in 1..Len(urls) : urls[i].string}
Udp(urls)     == {i \in Strings(urls) : urls[i].udp}

First(S) == CHOOSE i \in S : \A j \in S : i <= j

\* The first UDP URL, or the first of all.
Picked(urls) ==
  urls[First(IF Udp(urls) # {} THEN Udp(urls) ELSE Strings(urls))]

TurnServer(turn) ==
  IF turn.login /\ Strings(turn.urls) # {} /\ Fits(Picked(turn.urls))
  THEN <<Picked(turn.urls)>>
  ELSE <<>>

\* build_ice_servers
IceServers(b) ==
  LET stun == StunServers(b.stun)
  IN  IF Len(stun) < MaxIceServers THEN stun \o TurnServer(b.turn) ELSE stun

Init ==
  /\ lib = "none" /\ libId = 0 /\ fed = FALSE /\ answered = FALSE /\ ended = FALSE
  /\ ppc = "loop" /\ report = "DISCONNECTED" /\ msgFor = 0
  /\ peerState = "DISCONNECTED" /\ dcOpen = FALSE
  /\ wpc = "idle" /\ offers = 0 /\ body \in Bodies
  /\ table = <<>> /\ tableOf = 0 /\ link = FALSE

-------------------------------------------------------------------------------
(* The peer task: esp_peer_main_loop and its callbacks.                     *)

Reports(s) == ppc = "loop" /\ ppc' = "state" /\ report' = s

\* The session makes progress.
LibAdvances ==
  /\ ~ended /\ fed
  /\ \/ lib = "new" /\ UNCHANGED lib /\ Reports("NEW_CONNECTION")
     \/ lib = "new" /\ lib' = "connected" /\ Reports("CONNECTED")
     \/ lib = "connected" /\ lib' = "sctp" /\ Reports("DATA_CHANNEL_CONNECTED")
     \/ lib = "channel" /\ lib' = "opened" /\ Reports("DATA_CHANNEL_OPENED")
  /\ UNCHANGED <<wsVars, libId, fed, answered, ended, msgFor, peerState, dcOpen>>

\* The session fails, or the browser closes its channel and then goes.
LibEnds ==
  /\ ~ended
  /\ \/ lib # "none" /\ lib' = "none"
        /\ \E s \in {"DISCONNECTED", "CONNECT_FAILED"} : Reports(s)
     \/ lib = "opened" /\ lib' = "sctp" /\ Reports("DATA_CHANNEL_CLOSED")
  /\ UNCHANGED <<wsVars, libId, fed, answered, ended, msgFor, peerState, dcOpen>>

LibReportsEnd ==
  /\ ended /\ ended' = FALSE /\ Reports("DISCONNECTED")
  /\ UNCHANGED <<wsVars, lib, libId, fed, answered, msgFor, peerState, dcOpen>>

LibAnswers ==
  /\ ppc = "loop" /\ ppc' = "msg"
  /\ ~ended /\ lib # "none" /\ fed /\ ~answered
  /\ answered' = TRUE /\ msgFor' = libId
  /\ UNCHANGED <<wsVars, lib, libId, fed, ended, report, peerState, dcOpen>>

\* on_peer_state: the state is stored, then looked at.
OnState ==
  /\ ppc = "state" /\ ppc' = "switch"
  /\ peerState' = report
  /\ UNCHANGED <<wsVars, libVars, report, msgFor, dcOpen>>

OnlyDisconnected == {"DISCONNECTED"}   \* mutant: the other ends are not handled

SessionOver == Over

OnStateSwitch ==
  /\ ppc = "switch" /\ ppc' = "loop"
  /\ dcOpen' = IF report = "DATA_CHANNEL_OPENED" THEN TRUE
               ELSE IF report \in SessionOver THEN FALSE ELSE dcOpen
  /\ \/ report = "DATA_CHANNEL_CONNECTED" /\ lib = "sctp" /\ lib' = "channel"
     \/ UNCHANGED lib   \* no channel to create, or creating it failed
  /\ UNCHANGED <<wsVars, libId, fed, answered, ended, report, msgFor, peerState>>

\* on_peer_msg: the answer goes out, if the socket is there to take it.
OnMsg ==
  /\ ppc = "msg" /\ ppc' = "loop"
  /\ UNCHANGED <<wsVars, libVars, report, msgFor, peerState, dcOpen>>

-------------------------------------------------------------------------------
(* The websocket event handler.                                             *)

Disconnect ==
  /\ lib' = "none"
  /\ ended' = (ended \/ lib # "none")
  /\ UNCHANGED <<libId, fed, answered>>

Connected ==
  /\ wpc = "idle" /\ ~link
  /\ link' = TRUE
  /\ UNCHANGED <<libVars, peerVars, peerState, dcOpen, wpc, offers, body,
                 table, tableOf>>

\* DISCONNECTED, CLOSED (the link is lost), or a viewer_gone message.
SessionGone ==
  /\ wpc = "idle" /\ link
  /\ wpc' = "clear" /\ link' \in BOOLEAN
  /\ Disconnect
  /\ UNCHANGED <<peerVars, peerState, dcOpen, offers, body, table, tableOf>>

ClearOpen ==
  /\ wpc = "clear" /\ wpc' = "idle"
  /\ dcOpen' = FALSE
  /\ UNCHANGED <<libVars, peerVars, peerState, offers, body, table,
                 tableOf, link>>

Offer ==
  /\ wpc = "idle" /\ link /\ offers < MaxOffers
  /\ wpc' = "offer" /\ offers' = offers + 1
  /\ body' \in Bodies
  /\ UNCHANGED <<libVars, peerVars, peerState, dcOpen, table, tableOf, link>>

\* handle_offer tears a stale session down, going by s_peer_state.
OnlyOpened == peerState = "DATA_CHANNEL_OPENED"   \* mutant: only while streaming

Stale == peerState \notin Idle

OfferStale ==
  /\ wpc = "offer" /\ wpc' = "ice"
  /\ IF Stale THEN Disconnect ELSE UNCHANGED libVars
  /\ UNCHANGED <<peerVars, peerState, dcOpen, offers, body, table,
                 tableOf, link>>

\* The table is rebuilt in place; the library keeps pointers into it.
OfferIce ==
  /\ wpc = "ice" /\ wpc' = "connect"
  /\ table' = IceServers(body) /\ tableOf' = offers
  /\ UNCHANGED <<libVars, peerVars, peerState, dcOpen, offers, body, link>>

\* esp_peer_new_connection, which may fail.
OfferConnect ==
  /\ wpc = "connect"
  /\ \/ /\ wpc' = "sdp" /\ lib' = "new" /\ libId' = offers
        /\ ended' = (ended \/ lib # "none")
        /\ fed' = FALSE /\ answered' = FALSE
     \/ wpc' = "idle" /\ UNCHANGED libVars
  /\ UNCHANGED <<peerVars, peerState, dcOpen, offers, body, table,
                 tableOf, link>>

\* esp_peer_send_msg with the SDP, which may fail, and with the candidates in it.
OfferSdp ==
  /\ wpc = "sdp" /\ wpc' = "idle"
  /\ fed' \in {fed, lib # "none"}
  /\ UNCHANGED <<peerVars, peerState, dcOpen, lib, libId, answered, ended, offers,
                 body, table, tableOf, link>>

-------------------------------------------------------------------------------
Next ==
  \/ LibAdvances \/ LibEnds \/ LibReportsEnd \/ LibAnswers
  \/ OnState \/ OnStateSwitch \/ OnMsg
  \/ Connected \/ SessionGone \/ ClearOpen
  \/ Offer \/ OfferStale \/ OfferIce \/ OfferConnect \/ OfferSdp

Spec == Init /\ [][Next]_vars

-------------------------------------------------------------------------------
(* Properties.                                                              *)

SessionTypeOK ==
  /\ lib \in Phases /\ libId \in 0..MaxOffers
  /\ fed \in BOOLEAN /\ answered \in BOOLEAN /\ ended \in BOOLEAN
  /\ ppc \in PeerPcs /\ report \in States /\ msgFor \in 0..MaxOffers
  /\ peerState \in States /\ dcOpen \in BOOLEAN
  /\ wpc \in WsPcs /\ offers \in 0..MaxOffers /\ body \in Bodies
  /\ tableOf \in 0..offers /\ link \in BOOLEAN

TypeOK ==
  /\ SessionTypeOK
  /\ table \in Seq(URLs) /\ Len(table) <= MaxIceServers
  /\ \A i \in 1..Len(table) : Fits(table[i])

\* Whatever the order of the two tasks' writes: once no report is under way, no
\* end is to be reported and the handler is not about to clear the flag, frames
\* are sent exactly when the session has an open channel.  Neither is a dead
\* channel fed for ever nor a live one left dark.
FlagTracksChannel ==
  ppc \in {"loop", "msg"} /\ ~ended /\ wpc # "clear" => (dcOpen <=> lib = "opened")

\* webrtc_stream.c:388, "tear it down first": an offer that finds a session with
\* SCTP up ends it, although s_peer_state runs behind the library.
OfferTearsDown ==
  [][wpc = "offer" /\ wpc' = "ice" => lib' \in {"none", "new", "connected"}]_vars

\* webrtc_stream.c:314: however many STUN servers come with it, the relay that
\* the UDP URLs of an offer name is in the table.
TurnKept ==
  LET urls == body.turn.urls
  IN  /\ wpc = "connect" /\ body.turn.login
      /\ Udp(urls) # {} /\ \A i \in Udp(urls) : Fits(urls[i])
      => table # <<>> /\ \E i \in Udp(urls) : table[Len(table)] = urls[i]

-------------------------------------------------------------------------------
(* What comments say and the code does not do: TLC refutes each of these;   *)
(* README.md says how to see it.                                            *)

\* webrtc_stream.c:388: no session is begun over another.
BegunOverNone == [][wpc = "connect" /\ wpc' = "sdp" => lib = "none"]_vars

\* webrtc_stream.c:378, "(re)start the session as answerer": what is forwarded
\* answers the offer that was received last.
AnswersLastOffer == ppc = "msg" => msgFor = offers

\* webrtc_stream.c:48: the library's pointers are to the table of its session.
TableIsItsOwn == lib # "none" => tableOf = libId
===============================================================================
