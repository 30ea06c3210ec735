------------------------------ MODULE LanFallback ------------------------------
(***************************************************************************)
(* The firmware's cloud/LAN mode: the peer task's loop (application ping,  *)
(* self-heal, 60 s countdown, LAN server), the websocket event handler and *)
(* the MJPEG server.  What led_update shows of the flags is left out.      *)
(*                                                                         *)
(* Two tasks share the flags without a lock, so every step reads or writes *)
(* them once.  Time is a clock of ClockSize ticks that wraps, as           *)
(* esp_timer_get_time() / 1000 does in 32 bits; differences are taken      *)
(* modulo ClockSize, like the unsigned subtraction of the code.            *)
(***************************************************************************)
EXTENDS Naturals

CONSTANTS ClockSize,     \* 2^32 ms
          FallbackTicks, \* LAN_FALLBACK_MS
          PingTicks,     \* APP_PING_INTERVAL_MS
          BootTicks,     \* the clock when the peer task starts
          StartFails,    \* whether lan_stream_start may fail
          ErrorEvents    \* whether failed dials report WEBSOCKET_EVENT_ERROR

ASSUME LanFallbackAssumption ==
  /\ FallbackTicks \in Nat \ {0} /\ PingTicks \in Nat \ {0}
  /\ ClockSize \in Nat /\ ClockSize > FallbackTicks /\ ClockSize > PingTicks
  /\ BootTicks \in 0..(ClockSize - 1)
  /\ StartFails \in BOOLEAN /\ ErrorEvents \in BOOLEAN

VARIABLES
  now,        \* the clock
  ticked,     \* the clock has moved since the peer task read it
  up,         \* esp_websocket_client_is_connected
  connected,  \* s_ws_connected
  stamp,      \* s_disconnected_at_ms
  lanActive,  \* s_lan_active
  lanUp,      \* lan_up of peer_task
  nowMs,      \* now_ms of peer_task
  lastPing,   \* last_ping_ms of peer_task
  ppc,        \* where the peer task is
  wpc,        \* where the event handler is
  server,     \* the HTTP server runs
  streaming,  \* the MJPEG handler is serving a client
  stopping,   \* s_stopping
  camera,     \* camera_capture returns frames
  downFor,    \* history: ticks since the connection was lost, to FallbackTicks
  untried     \* history: ticks the peer task ran with s_ws_connected set, since it
              \* last found the connection up, to MaxUntried + 1

clockVars == <<now, ticked, downFor>>
still == <<now, ticked, downFor, up, wpc, streaming, camera>>
httpVars == <<server, streaming, stopping, camera>>
peerVars == <<lanUp, nowMs, lastPing, ppc>>
loopVars == <<lanUp, nowMs, lastPing>>
flagVars == <<connected, stamp, lanActive>>
runVars == <<server, stopping>>
vars == <<now, ticked, up, connected, stamp, lanActive, lanUp, nowMs, lastPing,
          ppc, wpc, server, streaming, stopping, camera, downFor, untried>>

\* One ping interval and three rounds (one before the first check, one that a LAN
\* server holds up, one to find the ping due): with rounds of 200 ms well inside the
\* 90 s after which the hub ends a silent connection.
MaxUntried == PingTicks + 3

PeerPcs == {"loop", "check", "ping", "ask", "heal", "healed", "lan", "stop", "stopped",
            "countdown", "start"}
WsPcs == {"idle", "connected", "mark", "clear"}

Capped(n, max) == IF n < max THEN n + 1 ELSE max

\* The cast of a clock reading to 32 bits, and the unsigned difference of two.
Uncast(t) == t   \* mutant: the clock keeps its 64 bits

Wrapped(t) == t % ClockSize

Since(t, then) == (t + ClockSize - then) % ClockSize

Init ==
  /\ now = BootTicks /\ ticked = FALSE /\ downFor = 0 /\ untried = 0
  /\ up = FALSE /\ connected = FALSE /\ stamp = 0 /\ lanActive = FALSE
  /\ lanUp = FALSE /\ nowMs = BootTicks /\ lastPing = 0
  /\ ppc = "loop" /\ wpc = "idle"
  /\ server = FALSE /\ streaming = FALSE /\ stopping = FALSE /\ camera = TRUE

-------------------------------------------------------------------------------
(* The peer task.                                                           *)

PeerSample ==
  /\ ppc = "loop" /\ ppc' = "check"
  /\ nowMs' = now /\ ticked' = FALSE
  /\ UNCHANGED <<httpVars, flagVars, wpc, now, downFor, up, lanUp, lastPing,
                 untried>>

\* Whether the 30 s, and the 60 s, have passed.
PingOnce == lastPing = 0 /\ nowMs # 0   \* mutant: only the first ping is sent

PingDue == Since(nowMs, lastPing) >= PingTicks

FallbackDue == Since(nowMs, stamp) >= FallbackTicks

\* The branches that begin with a read of s_ws_connected.
PeerCheck ==
  /\ ppc = "check"
  /\ \/ /\ connected /\ PingDue
        /\ lastPing' = nowMs /\ ppc' = "ping"
     \/ /\ connected /\ ~PingDue
        /\ ppc' = "lan" /\ UNCHANGED lastPing
     \/ /\ ~connected
        /\ ppc' = IF lanUp THEN "loop" ELSE "countdown"
        /\ UNCHANGED lastPing
  /\ UNCHANGED <<still, flagVars, runVars, lanUp, nowMs, untried>>

\* The same condition goes on to read s_disconnected_at_ms.
PeerCountdown ==
  /\ ppc = "countdown"
  /\ ppc' = IF FallbackDue THEN "start" ELSE "loop"
  /\ UNCHANGED <<still, loopVars, flagVars, runVars, untried>>

\* The ping is sent, or it fails, which it may on a live connection too.
PeerPing ==
  /\ ppc = "ping"
  /\ \/ up /\ untried' = 0 /\ ppc' = "lan"
     \/ ppc' = "ask" /\ UNCHANGED untried
  /\ UNCHANGED <<still, loopVars, flagVars, runVars>>

\* Then the client is asked whether it is connected.
PeerAsk ==
  /\ ppc = "ask"
  /\ \/ up /\ untried' = 0 /\ ppc' = "lan"
     \/ ~up /\ ppc' = "heal" /\ UNCHANGED untried
  /\ UNCHANGED <<still, loopVars, flagVars, runVars>>

PeerHeal ==
  /\ ppc = "heal" /\ ppc' = "healed"
  /\ connected' = FALSE
  /\ UNCHANGED <<still, loopVars, runVars, stamp, lanActive, untried>>

PeerHealStamp ==
  /\ ppc = "healed" /\ ppc' = "lan"
  /\ stamp' = nowMs
  /\ UNCHANGED <<still, loopVars, runVars, connected, lanActive, untried>>

\* Cloud is back: lan_stream_stop, if the LAN stream runs.
PeerLan ==
  /\ ppc = "lan"
  /\ ppc' = IF lanUp THEN "stop" ELSE "loop"
  /\ stopping' = (lanUp \/ stopping)
  /\ UNCHANGED <<still, loopVars, flagVars, server, untried>>

\* httpd_stop waits for the server's only task, which runs the handler.
PeerStops ==
  /\ ppc = "stop" /\ ~streaming
  /\ ppc' = "stopped"
  /\ server' = FALSE
  /\ UNCHANGED <<still, loopVars, flagVars, stopping, untried>>

FlagKept ==   \* mutant: s_lan_active is not cleared
  /\ ppc = "stopped" /\ ppc' = "loop"
  /\ lanUp' = FALSE
  /\ UNCHANGED <<still, flagVars, runVars, nowMs, lastPing, untried>>

PeerLanDown ==
  /\ ppc = "stopped" /\ ppc' = "loop"
  /\ lanUp' = FALSE /\ lanActive' = FALSE
  /\ UNCHANGED <<still, runVars, connected, stamp, nowMs, lastPing, untried>>

PeerStarts ==
  /\ ppc = "start" /\ ppc' = "loop"
  /\ server' = TRUE /\ stopping' = FALSE
  /\ lanUp' = TRUE /\ lanActive' = TRUE
  /\ UNCHANGED <<still, connected, stamp, nowMs, lastPing, untried>>

\* A failed start waits for another full window.
PeerStartFails ==
  /\ StartFails /\ ppc = "start" /\ ppc' = "loop"
  /\ stopping' = FALSE
  /\ stamp' = nowMs
  /\ UNCHANGED <<still, loopVars, connected, lanActive, server, untried>>

-------------------------------------------------------------------------------
(* The websocket client's task and the event handler it runs.               *)

WsDials ==
  /\ wpc = "idle" /\ ~up
  /\ up' = TRUE /\ downFor' = 0
  /\ wpc' = "connected"
  /\ UNCHANGED <<httpVars, peerVars, flagVars, now, ticked, untried>>

WsConnected ==
  /\ wpc = "connected" /\ wpc' = "idle"
  /\ connected' = TRUE /\ untried' = 0
  /\ UNCHANGED <<httpVars, peerVars, clockVars, up, stamp, lanActive>>

\* DISCONNECTED or CLOSED.
WsDrops ==
  /\ wpc = "idle" /\ up
  /\ up' = FALSE /\ wpc' = "mark"
  /\ UNCHANGED <<httpVars, peerVars, flagVars, clockVars, untried>>

\* The connection is lost and the handler sees no event.
WsSilentLoss ==
  /\ wpc = "idle" /\ up
  /\ up' = FALSE
  /\ UNCHANGED <<httpVars, peerVars, flagVars, clockVars, wpc, untried>>

\* A dial that failed.
WsError ==
  /\ ErrorEvents /\ wpc = "idle" /\ ~up
  /\ wpc' = "mark"
  /\ UNCHANGED <<httpVars, peerVars, flagVars, clockVars, up, untried>>

\* mark_ws_disconnected: stamp on the way out of "connected", then clear.
StampAlways ==   \* mutant: every error moves the countdown
  /\ wpc = "mark" /\ wpc' = "clear"
  /\ stamp' = now
  /\ UNCHANGED <<httpVars, peerVars, clockVars, up, connected, lanActive,
                 untried>>

WsStamp ==
  /\ wpc = "mark" /\ wpc' = "clear"
  /\ stamp' = IF connected THEN now ELSE stamp
  /\ UNCHANGED <<httpVars, peerVars, clockVars, up, connected, lanActive,
                 untried>>

WsClear ==
  /\ wpc = "clear" /\ wpc' = "idle"
  /\ connected' = FALSE
  /\ UNCHANGED <<httpVars, peerVars, clockVars, up, stamp, lanActive, untried>>

-------------------------------------------------------------------------------
(* The MJPEG handler, the camera and the clock.                             *)

\* A client may still open a stream when s_stopping is set: the handler does not
\* look at it before a frame is missing.
ClientOpens ==
  /\ server /\ ~streaming
  /\ streaming' = TRUE
  /\ UNCHANGED <<peerVars, flagVars, clockVars, wpc, runVars, up, camera,
                 untried>>

\* The handler sends the next frame to a client that went away.
ClientLeaves ==
  /\ streaming /\ camera /\ streaming' = FALSE
  /\ UNCHANGED <<peerVars, flagVars, clockVars, wpc, runVars, up, camera,
                 untried>>

\* Without a frame the handler looks at s_stopping.
StopUnseen == FALSE   \* mutant: a dead camera is retried for ever

StopSeen == stopping

HandlerEnds ==
  /\ streaming /\ ~camera /\ StopSeen
  /\ streaming' = FALSE
  /\ UNCHANGED <<peerVars, flagVars, clockVars, wpc, runVars, up, camera,
                 untried>>

CameraDies ==
  /\ camera /\ camera' = FALSE
  /\ UNCHANGED <<peerVars, flagVars, clockVars, wpc, runVars, up, streaming,
                 untried>>

\* At most one tick passes in a round of the peer loop, unless it is blocked.
Tick ==
  /\ ~ticked \/ ppc = "stop"
  /\ ticked' = TRUE
  /\ now' = Wrapped(now + 1)
  /\ downFor' = IF up THEN 0 ELSE Capped(downFor, FallbackTicks)
  /\ untried' = IF connected /\ ppc # "stop" THEN Capped(untried, MaxUntried + 1)
                                          ELSE untried
  /\ UNCHANGED <<httpVars, peerVars, flagVars, wpc, up>>

-------------------------------------------------------------------------------
Peer ==
  \/ PeerSample \/ PeerCheck \/ PeerCountdown
  \/ PeerPing \/ PeerAsk \/ PeerHeal \/ PeerHealStamp
  \/ PeerLan \/ PeerStops \/ PeerLanDown \/ PeerStarts \/ PeerStartFails

Handler == WsConnected \/ WsStamp \/ WsClear

Next ==
  \/ Peer \/ Handler
  \/ WsDials \/ WsDrops \/ WsSilentLoss \/ WsError
  \/ ClientOpens \/ ClientLeaves \/ HandlerEnds \/ CameraDies
  \/ Tick

Spec == Init /\ [][Next]_vars

\* Both tasks keep running, the clock advances, the handler's loop goes round,
\* httpd_start does not fail for ever, and the server's task takes the message of
\* httpd_stop in the end, whoever keeps opening streams.  Nobody has to dial
\* successfully, and no client has to leave.
Fairness ==
  /\ WF_vars(Peer) /\ WF_vars(Handler) /\ WF_vars(Tick) /\ WF_vars(HandlerEnds)
  /\ SF_vars(PeerStarts) /\ SF_vars(PeerStops)

FairSpec == Spec /\ Fairness

-------------------------------------------------------------------------------
(* Properties.                                                              *)

TypeOK ==
  /\ now \in 0..(ClockSize - 1) /\ stamp \in 0..(ClockSize - 1)
  /\ nowMs \in 0..(ClockSize - 1) /\ lastPing \in 0..(ClockSize - 1)
  /\ ticked \in BOOLEAN /\ up \in BOOLEAN /\ connected \in BOOLEAN
  /\ lanActive \in BOOLEAN /\ lanUp \in BOOLEAN
  /\ ppc \in PeerPcs /\ wpc \in WsPcs
  /\ server \in BOOLEAN /\ streaming \in BOOLEAN
  /\ stopping \in BOOLEAN /\ camera \in BOOLEAN
  /\ downFor \in 0..FallbackTicks /\ untried \in 0..(MaxUntried + 1)

\* The peer task's own idea of the LAN server, its flag for the event handler
\* and the server agree, except between httpd_stop and the two writes: no server
\* is left running with nobody to stop it.
LanInStep ==
  /\ ppc # "stopped" => lanUp = server
  /\ lanActive = lanUp
  /\ streaming => server

\* s_ws_connected is never older than MaxUntried: within that time the peer task
\* pings, or asks the client when the ping fails, so a connection that was lost
\* without an event is noticed, wherever the clock wraps and whichever rounds the
\* LAN server holds up.  Time blocked in httpd_stop itself is not counted.
FlagIsFresh ==
  connected /\ ppc \in {"loop", "check"} => untried <= MaxUntried

\* Only failed starts and losses move the countdown: while the cloud stays
\* unreachable, errors of the retry storm do not.
StormKeepsCountdown ==
  [][stamp' # stamp => connected \/ ppc \in {"healed", "start"}]_vars

\* Out of reach of the cloud for good, the device serves the LAN in the end.
FallbackEngages == ~up ~> (server \/ up)

\* When the camera is dead, a stream that is being served does not keep the
\* LAN server from stopping.
DeadCameraCannotWedge == (ppc = "stop" /\ ~camera) ~> ppc # "stop"

-------------------------------------------------------------------------------
(* What comments and the plan say and the code does not do: TLC refutes     *)
(* each of these; README.md says how to see them fail.                      *)

\* webrtc_stream.c:64, "Offline for ~60 s: ... start the LAN MJPEG fallback":
\* it does not start before a window (to the tick) offline has passed.
FallbackNotEarly ==
  [][~server /\ server' /\ ~up => downFor + 1 >= FallbackTicks]_vars

\* CLOUDFLARE_REVISION_PLAN.md:410, a stale flag heals within a cycle; between
\* events, the flag of a live connection is set.
FlagFollowsConnection ==
  ppc = "loop" /\ wpc = "idle" /\ up => connected

\* CLOUDFLARE_REVISION_PLAN.md:252, "on CONNECTED the LAN server stops".
ConnectedStopsLan == (up /\ server) ~> (~server \/ ~up)
===============================================================================
