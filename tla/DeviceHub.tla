------------------------------- MODULE DeviceHub -------------------------------
(***************************************************************************)
(* The Cloudflare hub of one device: a Durable Object with hibernating     *)
(* websockets, its storage, its alarm and the device's presence row in D1. *)
(*                                                                         *)
(* An event handler runs alone up to an await that leaves the object.      *)
(* Storage awaits close the input gate, so they are part of the step; the  *)
(* D1 queries and the TURN request are not, and other events run while     *)
(* they are under way.  Each such call is two steps: the one that issues   *)
(* it and the one in which its answer arrives and the handler goes on.     *)
(*                                                                         *)
(* A close issued by the object reaches the client late (about 10 s): the  *)
(* socket is "dying" until its close event, and may still send.            *)
(***************************************************************************)
EXTENDS Naturals, FiniteSets

CONSTANTS Conns,       \* device connections
          Viewers,     \* viewing sessions; each has the sid of its socket
          None,
          Migrated,    \* the dbReady flag is in storage from the start
          D1Fails,     \* whether D1 queries may fail
          MaxSockets,  \* bound: sockets opened altogether
          MaxRestarts  \* bound: how often the object is torn down (redeploy)

ASSUME DeviceHubAssumption ==
  /\ None \notin Conns \union Viewers
  /\ Conns \intersect Viewers = {}
  /\ Migrated \in BOOLEAN /\ D1Fails \in BOOLEAN
  /\ MaxSockets \in Nat /\ MaxRestarts \in Nat

VARIABLES
  sock,      \* each websocket as the object sees it: "none", "open", "lost"
             \* (the client is gone, no close event yet), "dying" or "gone"
  stale,     \* device sockets marked stale in their attachment
  sid,       \* storage.viewerSid: the session that holds the claim
  ice,       \* storage.iceServers: the session they were minted for
  viewIdle,  \* storage.viewerLastActivity is more than VIEWER_IDLE_MS old
  devIdle,   \* storage.deviceLastActivity is more than DEVICE_IDLE_MS old
  dbReady,   \* storage.dbReady
  alarm,     \* an alarm is set
  joining,   \* onDeviceConnect of each connection: "no", "ensure" (waiting
             \* for ensureDatabase), "upsert" (for the D1 upsert), "done", or
             \* "failed" before it registered its socket
  leaving,   \* webSocketClose of each connection: "no", "offline" or "done"
  minting,   \* sessions whose onViewerConnect waits for mintIceServers
  touching,  \* the alarm handler waits for touchDeviceLastSeen
  alarmSid,  \* the viewerSid that alarm handler read when it began
  row,       \* the D1 row: "absent", "online" or "offline"
  heard,     \* what each browser received: the type, and whose session it is
  session,   \* the viewer whose offer the firmware serves on a connection
  reply,     \* an answer of the firmware under way, by session
  offer,     \* the last offer relayed: who sent it, whose credentials it carries
  restarts

claimVars == <<sid, ice, viewIdle>>
taskVars  == <<joining, leaving, minting, touching, alarmSid>>
peerVars  == <<heard, session, reply, offer>>
vars == <<sock, stale, sid, ice, viewIdle, devIdle, dbReady, alarm, joining,
          leaving, minting, touching, alarmSid, row, heard, session, reply,
          offer, restarts>>

Sockets == Conns \union Viewers
NoOffer == [from |-> None, creds |-> None]
Heard(type, v) == [type |-> type, session |-> v]
HeardTypes == {"ice_servers", "answer", "peer_gone", "error"}

Init ==
  /\ sock = [c \in Sockets |-> "none"] /\ stale = {}
  /\ sid = None /\ ice = None /\ viewIdle = FALSE /\ devIdle = FALSE
  /\ dbReady = Migrated /\ alarm = FALSE
  /\ joining = [d \in Conns |-> "no"] /\ leaving = [d \in Conns |-> "no"]
  /\ minting = {} /\ touching = FALSE /\ alarmSid = None
  /\ row = "absent"
  /\ heard = [v \in Viewers |-> {}]
  /\ session = [d \in Conns |-> None] /\ reply = [d \in Conns |-> None]
  /\ offer = NoOffer /\ restarts = 0

-------------------------------------------------------------------------------
(* Helpers of the class.                                                    *)

\* getWebSockets() returns a socket until its close event.
Present(c) == sock[c] \in {"open", "lost", "dying"}

\* deviceSocket() returns one of these.
ActiveDevices == {d \in Conns : Present(d) /\ d \notin stale}

\* viewerSocket(): the socket whose sid holds the claim.
ViewerSockets == {v \in Viewers : v = sid /\ Present(v)}

\* Messages reach a client that is still there, unless the socket is closing.
Told(v, type) == IF sock[v] = "open" THEN heard[v] \union {Heard(type, v)}
                 ELSE heard[v]

AllTold(vs, type) == [v \in Viewers |-> IF v \in vs THEN Told(v, type) ELSE heard[v]]

\* close() on each of these sockets, from the object's side.
Dying(cs) == [c \in Sockets |-> IF c \in cs /\ Present(c) THEN "dying" ELSE sock[c]]

\* clearViewerState.
ClaimKept == UNCHANGED claimVars   \* mutant: nothing is cleared

ClearViewerState == sid' = None /\ ice' = None /\ viewIdle' = FALSE

-------------------------------------------------------------------------------
(* Connecting: fetch, then onDeviceConnect or onViewerConnect.              *)

\* onDeviceConnect past the schema check: mark every other device socket
\* stale and close it, evict the viewer, note the activity, write D1.
OthersUnmarked(d) == {}   \* mutant: the old sockets keep their role

Superseded(d) == ActiveDevices \ {d}

Register(d) ==
  /\ stale' = stale \union Superseded(d)
  /\ heard' = AllTold(ViewerSockets, "peer_gone")
  /\ sock' = [Dying(Superseded(d) \union ViewerSockets)
                EXCEPT ![d] = IF joining[d] = "no" THEN "open" ELSE @]
  /\ ClearViewerState
  /\ devIdle' = FALSE
  /\ joining' = [joining EXCEPT ![d] = "upsert"]

SocketLeft == Cardinality({c \in Sockets : sock[c] # "none"}) < MaxSockets

\* The device opens a socket.  One physical device: its earlier link is over.
DeviceConnect(d) ==
  /\ sock[d] = "none" /\ SocketLeft /\ \A e \in Conns : sock[e] # "open"
  /\ IF dbReady
     THEN Register(d)
     ELSE /\ sock' = [sock EXCEPT ![d] = "open"]
          /\ joining' = [joining EXCEPT ![d] = "ensure"]
          /\ UNCHANGED <<stale, heard, claimVars, devIdle>>
  /\ session' = [e \in Conns |-> None] /\ reply' = [e \in Conns |-> None]
  /\ UNCHANGED <<dbReady, alarm, leaving, minting, touching, alarmSid, row, offer,
                 restarts>>

\* ensureDatabase answers; onDeviceConnect goes on, whatever happened to its
\* socket in the meantime.
DatabaseEnsured(d) ==
  /\ joining[d] = "ensure"
  /\ dbReady' = TRUE
  /\ Register(d)
  /\ UNCHANGED <<alarm, leaving, minting, touching, alarmSid, row, session,
                 reply, offer, restarts>>

\* upsertDeviceOnline answers; the alarm is set.
UpsertWithoutAlarm(d) ==   \* mutant
  /\ joining[d] = "upsert"
  /\ row' = "online"
  /\ joining' = [joining EXCEPT ![d] = "done"]
  /\ UNCHANGED <<sock, stale, claimVars, devIdle, dbReady, alarm, leaving, minting,
                 touching, alarmSid, peerVars, restarts>>

UpsertDone(d) ==
  /\ joining[d] = "upsert"
  /\ row' = "online"
  /\ alarm' = TRUE
  /\ joining' = [joining EXCEPT ![d] = "done"]
  /\ UNCHANGED <<sock, stale, claimVars, devIdle, dbReady, leaving, minting,
                 touching, alarmSid, peerVars, restarts>>

\* A failing D1 query throws out of onDeviceConnect; the socket stays.
JoinFails(d) ==
  /\ D1Fails /\ joining[d] \in {"ensure", "upsert"}
  /\ joining' = [joining EXCEPT ![d] = IF @ = "ensure" THEN "failed" ELSE "done"]
  /\ UNCHANGED <<sock, stale, claimVars, devIdle, dbReady, alarm, leaving,
                 minting, touching, alarmSid, row, peerVars, restarts>>

\* No device, or the slot is taken: error, then close.
RefusedUnclosed(v) ==   \* mutant: the refused socket stays, and pings
  /\ sock[v] = "none" /\ SocketLeft
  /\ ActiveDevices = {} \/ sid # None
  /\ heard' = [heard EXCEPT ![v] = {Heard("error", v)}]
  /\ sock' = [sock EXCEPT ![v] = "open"]
  /\ UNCHANGED <<stale, claimVars, devIdle, dbReady, alarm, taskVars, row,
                 session, reply, offer, restarts>>

ViewerRefused(v) ==
  /\ sock[v] = "none" /\ SocketLeft
  /\ ActiveDevices = {} \/ sid # None
  /\ heard' = [heard EXCEPT ![v] = {Heard("error", v)}]
  /\ sock' = [sock EXCEPT ![v] = "dying"]
  /\ UNCHANGED <<stale, claimVars, devIdle, dbReady, alarm, taskVars, row,
                 session, reply, offer, restarts>>

\* onViewerConnect claims the slot and asks for TURN credentials.
SlotUntested == TRUE   \* mutant: the slot is not tested

SlotIsFree == sid = None

RoleStored(v) == sid' = "viewer"   \* mutant: the wrong field of the attachment

Claims(v) == sid' = v

ViewerClaims(v) ==
  /\ sock[v] = "none" /\ SocketLeft
  /\ ActiveDevices # {} /\ SlotIsFree
  /\ sock' = [sock EXCEPT ![v] = "open"]
  /\ Claims(v) /\ viewIdle' = FALSE /\ UNCHANGED ice
  /\ minting' = minting \union {v}
  /\ UNCHANGED <<stale, devIdle, dbReady, alarm, joining, leaving, touching,
                 alarmSid, row, peerVars, restarts>>

\* mintIceServers answers (it degrades to STUN and never throws); the
\* credentials are stored and sent without looking at the claim again.
Minted(v) ==
  /\ v \in minting
  /\ minting' = minting \ {v}
  /\ ice' = v
  /\ heard' = AllTold({v}, "ice_servers")
  /\ UNCHANGED <<sock, stale, sid, viewIdle, devIdle, dbReady, alarm, joining,
                 leaving, touching, alarmSid, row, session, reply, offer, restarts>>

-------------------------------------------------------------------------------
(* webSocketMessage.                                                        *)

\* The firmware's answer (or a candidate) goes to the viewer with the claim.
DeviceAnswer(d) ==
  /\ reply[d] # None /\ sock[d] \in {"open", "dying"}
  /\ reply' = [reply EXCEPT ![d] = None]
  /\ heard' = IF d \in stale THEN heard
              ELSE [v \in Viewers |-> IF v \in ViewerSockets /\ sock[v] = "open"
                                      THEN heard[v] \union {Heard("answer", reply[d])}
                                      ELSE heard[v]]
  /\ UNCHANGED <<sock, stale, claimVars, devIdle, dbReady, alarm, taskVars, row,
                 session, offer, restarts>>

DevicePing(d) ==
  /\ sock[d] \in {"open", "dying"} /\ d \notin stale
  /\ devIdle' = FALSE
  /\ UNCHANGED <<sock, stale, claimVars, dbReady, alarm, taskVars, row, peerVars,
                 restarts>>

\* A browser that has its ICE servers sends its offer; the stored credentials
\* ride along.  The claim is not looked at.
ViewerOffer(v) ==
  /\ sock[v] \in {"open", "dying"} /\ Heard("ice_servers", v) \in heard[v]
  /\ \E d \in ActiveDevices :
       /\ sock[d] = "open"
       /\ session' = [session EXCEPT ![d] = v]
  /\ offer' = [from |-> v, creds |-> ice]
  /\ UNCHANGED <<sock, stale, claimVars, devIdle, dbReady, alarm, taskVars, row,
                 heard, reply, restarts>>

ViewerPing(v) ==
  /\ sock[v] \in {"open", "dying"}
  /\ viewIdle' = FALSE
  /\ UNCHANGED <<sock, stale, sid, ice, devIdle, dbReady, alarm, taskVars, row,
                 peerVars, restarts>>

-------------------------------------------------------------------------------
(* webSocketClose.                                                          *)

\* The close event of a device socket: unless it is stale, the session ends
\* with it, the alarm is deleted and D1 is told.
StaleIgnored(d) == TRUE   \* mutant: a stale socket runs the detach as well

RunsDetach(d) == d \notin stale

DeviceCloses(d) ==
  /\ sock[d] \in {"lost", "dying"}
  /\ IF RunsDetach(d)
     THEN /\ heard' = AllTold(ViewerSockets, "peer_gone")
          /\ sock' = [Dying(ViewerSockets) EXCEPT ![d] = "gone"]
          /\ ClearViewerState
          /\ alarm' = FALSE
          /\ leaving' = [leaving EXCEPT ![d] = "offline"]
     ELSE /\ sock' = [sock EXCEPT ![d] = "gone"]
          /\ UNCHANGED <<heard, claimVars, alarm, leaving>>
  /\ session' = [session EXCEPT ![d] = None]
  /\ reply' = [reply EXCEPT ![d] = None]
  /\ UNCHANGED <<stale, devIdle, dbReady, joining, minting, touching, alarmSid,
                 row, offer, restarts>>

\* setDeviceOffline answers; without a row it changes nothing.
OfflineDone(d) ==
  /\ leaving[d] = "offline"
  /\ leaving' = [leaving EXCEPT ![d] = "done"]
  /\ row' = IF row = "absent" THEN "absent" ELSE "offline"
  /\ UNCHANGED <<sock, stale, claimVars, devIdle, dbReady, alarm, joining, minting,
                 touching, alarmSid, peerVars, restarts>>

OfflineFails(d) ==
  /\ D1Fails /\ leaving[d] = "offline"
  /\ leaving' = [leaving EXCEPT ![d] = "done"]
  /\ UNCHANGED <<sock, stale, claimVars, devIdle, dbReady, alarm, joining, minting,
                 touching, alarmSid, row, peerVars, restarts>>

\* The close event of a viewer socket: if it holds the claim, the slot is
\* freed and the device is told.
ReleasesAlways(v) == TRUE   \* mutant: the sid is not compared

HoldsClaim(v) == sid = v

DeviceUntold(v) == UNCHANGED session   \* mutant: viewer_gone is not sent

TellDevice(v) ==
  session' = [d \in Conns |->
    IF d \in ActiveDevices /\ sock[d] = "open" THEN None ELSE session[d]]

ViewerCloses(v) ==
  /\ sock[v] \in {"lost", "dying"}
  /\ sock' = [sock EXCEPT ![v] = "gone"]
  /\ IF HoldsClaim(v)
     THEN ClearViewerState /\ TellDevice(v)
     ELSE UNCHANGED <<claimVars, session>>
  /\ UNCHANGED <<stale, devIdle, dbReady, alarm, taskVars, row, heard, reply,
                 offer, restarts>>

-------------------------------------------------------------------------------
(* alarm.                                                                   *)

\* Viewer idle eviction, at the end of the handler.
EvictsAnyone == ViewerSockets   \* mutant: the idle time is not tested

IdleViewers == IF viewIdle THEN ViewerSockets ELSE {}

\* No device: the alarm is not set again.
AlarmWithoutDevice ==
  /\ alarm /\ ~touching /\ ActiveDevices = {}
  /\ alarm' = FALSE
  /\ sock' = Dying(IF sid = None THEN {} ELSE IdleViewers)
  /\ UNCHANGED <<stale, claimVars, devIdle, dbReady, taskVars, row, peerVars,
                 restarts>>

\* Nobody watches a silent device: it is closed, and its close event does
\* the rest.
AlarmKillsDevice ==
  /\ alarm /\ ~touching /\ sid = None /\ devIdle
  /\ alarm' = FALSE
  /\ \E d \in ActiveDevices : sock' = Dying({d})
  /\ UNCHANGED <<stale, claimVars, devIdle, dbReady, taskVars, row, peerVars,
                 restarts>>

\* Otherwise the presence is refreshed first.
AlarmTouches ==
  /\ alarm /\ ~touching /\ ActiveDevices # {} /\ ~(sid = None /\ devIdle)
  /\ alarm' = FALSE /\ touching' = TRUE /\ alarmSid' = sid
  /\ UNCHANGED <<sock, stale, claimVars, devIdle, dbReady, joining, leaving,
                 minting, row, peerVars, restarts>>

\* touchDeviceLastSeen answers; the alarm is set again, idle viewers go.
TouchDone ==
  /\ touching /\ touching' = FALSE /\ alarmSid' = None
  /\ row' = IF row = "absent" THEN "absent" ELSE "online"
  /\ alarm' = TRUE
  /\ sock' = Dying(IF alarmSid = None THEN {} ELSE IdleViewers)
  /\ UNCHANGED <<stale, claimVars, devIdle, dbReady, joining, leaving, minting,
                 peerVars, restarts>>

\* The handler throws and the runtime runs the alarm again.
TouchFails ==
  /\ D1Fails /\ touching
  /\ touching' = FALSE /\ alarmSid' = None /\ alarm' = TRUE
  /\ UNCHANGED <<sock, stale, claimVars, devIdle, dbReady, joining, leaving,
                 minting, row, peerVars, restarts>>

-------------------------------------------------------------------------------
(* Time, the peers, the platform.                                           *)

DeviceIdles ==
  /\ ~devIdle /\ devIdle' = TRUE
  /\ UNCHANGED <<sock, stale, claimVars, dbReady, alarm, taskVars, row, peerVars,
                 restarts>>

ViewerIdles ==
  /\ sid # None /\ ~viewIdle /\ viewIdle' = TRUE
  /\ UNCHANGED <<sock, stale, sid, ice, devIdle, dbReady, alarm, taskVars, row,
                 peerVars, restarts>>

\* The firmware answers the offer it serves.
DeviceReplies(d) ==
  /\ sock[d] \in {"open", "dying"} /\ session[d] # None /\ reply[d] = None
  /\ reply' = [reply EXCEPT ![d] = session[d]]
  /\ UNCHANGED <<sock, stale, claimVars, devIdle, dbReady, alarm, taskVars, row,
                 heard, session, offer, restarts>>

\* A client closes, crashes or loses the network; the close event comes
\* later, or not by itself.
DeviceDrops(d) ==
  /\ sock[d] = "open"
  /\ sock' = [sock EXCEPT ![d] = "lost"]
  /\ session' = [session EXCEPT ![d] = None]
  /\ reply' = [reply EXCEPT ![d] = None]
  /\ UNCHANGED <<stale, claimVars, devIdle, dbReady, alarm, taskVars, row, heard,
                 offer, restarts>>

ViewerDrops(v) ==
  /\ sock[v] = "open"
  /\ sock' = [sock EXCEPT ![v] = "lost"]
  /\ UNCHANGED <<stale, claimVars, devIdle, dbReady, alarm, taskVars, row, peerVars,
                 restarts>>

\* A redeploy: sockets and running handlers vanish without close events, the
\* storage and the alarm stay (an alarm that was running is run again), the
\* D1 queries under way are lost.
Restart ==
  /\ restarts < MaxRestarts /\ restarts' = restarts + 1
  /\ sock' = [c \in Sockets |-> IF Present(c) THEN "gone" ELSE sock[c]]
  /\ alarm' = (alarm \/ touching)
  /\ touching' = FALSE /\ alarmSid' = None /\ minting' = {}
  /\ joining' = [d \in Conns |-> IF joining[d] = "ensure" THEN "failed"
                             ELSE IF joining[d] = "upsert" THEN "done" ELSE joining[d]]
  /\ leaving' = [d \in Conns |-> IF leaving[d] = "no" THEN "no" ELSE "done"]
  /\ session' = [d \in Conns |-> None] /\ reply' = [d \in Conns |-> None]
  /\ UNCHANGED <<stale, claimVars, devIdle, dbReady, row, heard, offer>>

\* All connections of the instance are used up.
Finished ==
  /\ \A c \in Sockets : sock[c] \in {"none", "gone"}
  /\ \A d \in Conns : joining[d] \notin {"ensure", "upsert"} /\ leaving[d] # "offline"
  /\ minting = {} /\ ~touching /\ ~alarm
  /\ UNCHANGED vars

-------------------------------------------------------------------------------
DeviceNext(d) ==
  \/ DeviceConnect(d) \/ DatabaseEnsured(d) \/ UpsertDone(d) \/ JoinFails(d)
  \/ DeviceAnswer(d) \/ DevicePing(d) \/ DeviceCloses(d)
  \/ OfflineDone(d) \/ OfflineFails(d) \/ DeviceReplies(d) \/ DeviceDrops(d)

ViewerNext(v) ==
  \/ ViewerRefused(v) \/ ViewerClaims(v) \/ Minted(v)
  \/ ViewerOffer(v) \/ ViewerPing(v) \/ ViewerCloses(v) \/ ViewerDrops(v)

Alarm == AlarmWithoutDevice \/ AlarmKillsDevice \/ AlarmTouches

Next ==
  \/ \E d \in Conns : DeviceNext(d)
  \/ \E v \in Viewers : ViewerNext(v)
  \/ Alarm \/ TouchDone \/ TouchFails
  \/ DeviceIdles \/ ViewerIdles \/ Restart
  \/ Finished

Spec == Init /\ [][Next]_vars

\* D1 and the TURN service answer, alarms fire, a socket the object closed
\* gets its close event, and time passes for who says nothing.  Nobody has to
\* connect, to speak or to leave.
Fairness ==
  /\ \A d \in Conns :
       /\ WF_vars(DatabaseEnsured(d)) /\ WF_vars(UpsertDone(d))
       /\ WF_vars(OfflineDone(d))
       /\ WF_vars(sock[d] = "dying" /\ DeviceCloses(d))
  /\ \A v \in Viewers :
       /\ WF_vars(Minted(v))
       /\ WF_vars(sock[v] = "dying" /\ ViewerCloses(v))
       /\ WF_vars(sid = v /\ sock[v] # "open" /\ ViewerIdles)
  /\ WF_vars(Alarm) /\ WF_vars(TouchDone)
  /\ WF_vars((\A d \in ActiveDevices : sock[d] # "open") /\ DeviceIdles)

FairSpec == Spec /\ Fairness

-------------------------------------------------------------------------------
(* Properties.                                                              *)

\* What the object keeps has the types its storage and attachments give it.
TypeOK ==
  /\ sock \in [Sockets -> {"none", "open", "lost", "dying", "gone"}]
  /\ stale \subseteq Conns
  /\ sid \in Viewers \union {None} /\ ice \in Viewers \union {None}
  /\ viewIdle \in BOOLEAN /\ devIdle \in BOOLEAN
  /\ dbReady \in BOOLEAN /\ alarm \in BOOLEAN /\ touching \in BOOLEAN
  /\ joining \in [Conns -> {"no", "ensure", "upsert", "done", "failed"}]
  /\ leaving \in [Conns -> {"no", "offline", "done"}]
  /\ minting \subseteq Viewers
  /\ alarmSid \in Viewers \union {None}
  /\ row \in {"absent", "online", "offline"}
  /\ heard \in [Viewers -> SUBSET [type : HeardTypes, session : Viewers]]
  /\ session \in [Conns -> Viewers \union {None}]
  /\ reply \in [Conns -> Viewers \union {None}]
  /\ offer \in [from : Viewers \union {None}, creds : Viewers \union {None}]
  /\ restarts \in 0..MaxRestarts

\* The stored claim is never a ghost's: while a device is registered, the
\* claimant's socket is still there and will bring its close event, so no
\* viewer is told "busy" for ever, even across a redeploy (onDeviceConnect
\* clears what a redeploy left in storage).
SlotIsBacked ==
  dbReady /\ ActiveDevices # {} /\ sid # None => Present(sid)

\* A session does not outlive its device (devicehub.ts:118 and 237): whoever holds
\* the claim has a device socket to talk to, but for a claim that a redeploy left
\* without its own socket.
ClaimHasDevice ==
  sid # None /\ (restarts = 0 \/ Present(sid)) => ActiveDevices # {}

\* Of the sockets onDeviceConnect has registered one at most is not marked
\* stale: relays never go to a superseded connection.
OneDeviceSocket ==
  \A d, e \in ActiveDevices :
    joining[d] \in {"upsert", "done"} /\ joining[e] \in {"upsert", "done"} => d = e

\* A connected device always has the alarm that watches over it: set, being
\* handled, or about to close the device.
AlarmArmed ==
  \A d \in ActiveDevices :
    joining[d] = "done" /\ sock[d] # "dying" => alarm \/ touching

\* Nobody but an idle viewer, or one whose device went, is thrown out: the
\* alarm handler's stale copy of viewerSid never costs a newer viewer its
\* session.
OnlyIdleEvicted ==
  [][\A v \in Viewers : sid = v /\ sock[v] = "open" /\ sock'[v] = "dying" =>
       viewIdle \/ sid' = None]_vars

\* The object keeps the promise of ViewerSlot.
Slot == INSTANCE ViewerSlot WITH
  slot    <- sid,
  running <- {v \in Viewers : Present(v) /\ Heard("error", v) \notin heard[v]},
  links   <- ActiveDevices,
  serving <- TRUE

ImplementsViewerSlot == Slot!SlotSpec

\* So it does through first contacts and redeploys, with the slot in storage.
ImplementsStoredSlot == Slot!StoredSlotSpec

\* A viewer that went silent gives the slot back, although the pings of a viewer
\* that was refused refresh its idle time until that one's socket is closed.
SilentViewerFreed ==
  \A v \in Viewers : (sid = v /\ sock[v] = "lost") ~> sid # v

\* The firmware does not go on streaming to a viewer that went silent with the
\* claim in its hands, whether or not other viewers try for the slot meanwhile.
DeviceLearnsOfLeaving ==
  \A d \in Conns, v \in Viewers :
    (session[d] = v /\ sid = v /\ sock[v] = "lost") ~> session[d] # v

\* A half-open device socket that nobody watches is closed and cleaned up.
HalfOpenReaped ==
  \A d \in Conns :
    (sock[d] = "lost" /\ d \notin stale) ~> (sock[d] = "gone" \/ d \in stale \/ sid # None)

\* A device that stays connected shows as online in the end, in whatever order
\* the D1 writes of its earlier connections arrive.
PresenceRecovers ==
  \A d \in Conns :
    (d \in ActiveDevices /\ sock[d] = "open") ~> (row = "online" \/ sock[d] # "open")

-------------------------------------------------------------------------------
(* What comments say and the code does not do: TLC refutes each of these;   *)
(* README.md says how to see them fail.                                     *)

\* devicehub.ts:5, the object "keeps the D1 presence row current": with the
\* device gone and no query under way the row does not say online.
PresenceSettles ==
  restarts = 0 /\ ActiveDevices = {} /\ ~touching
    /\ (\A d \in Conns : joining[d] \notin {"ensure", "upsert"} /\ leaving[d] # "offline")
  => row # "online"

\* devicehub.ts:167, the offer "carries the same credentials the browser
\* already configured its PC with".
OfferCarriesOwnCredentials ==
  [][offer' # offer /\ offer'.from = sid => offer'.creds = offer'.from]_vars

\* devicehub.ts:3, "the single viewer slot": the viewer whose offer reaches the
\* device is the one that has it.
OffersComeFromClaimant == [][offer' # offer => offer'.from = sid]_vars

\* view.html:109, ice_servers is "sent once per session, before anything else".
IceServersFirst ==
  \A v \in Viewers :
    (\E m \in heard[v] : m.type = "answer") => Heard("ice_servers", v) \in heard[v]
===============================================================================
