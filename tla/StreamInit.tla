------------------------------- MODULE StreamInit --------------------------------
(***************************************************************************)
(* webrtc_stream_init: what it acquires, in order, what it gives back when *)
(* a step fails, and the websocket client's task, which runs the event     *)
(* handler from the moment the client is started until it is destroyed.    *)
(* Acquiring, releasing and an event are one step each.  The client ends   *)
(* its task without a last event when it is destroyed.                     *)
(***************************************************************************)
EXTENDS Sequences

VARIABLES
  initPc,      \* the next step of webrtc_stream_init
  held,        \* handles and buffers that are allocated (the statics are not NULL)
  unwind,      \* what a failure path still has to release, in order
  clientRuns,  \* the client's task runs, and with it websocket_event_handler
  wsConnected  \* s_ws_connected

initVars == <<initPc, held, unwind, clientRuns, wsConnected>>

Handles == {"peer", "parent", "ws", "client"}
Buffers == {"staging", "chunk"}

MayFail == Handles \cup {"configure", "start", "task"}
Steps   == MayFail \cup Buffers \cup {"idle", "unwind", "done"}

\* The handles in the order they are acquired, and what comes between.
Then == [peer |-> "parent", parent |-> "ws", ws |-> "configure",
         configure |-> "client", client |-> "start", start |-> "task",
         task |-> "staging", staging |-> "chunk", chunk |-> "done"]

StreamInitial ==
  /\ initPc = "idle" /\ held = {} /\ unwind = <<>>
  /\ clientRuns = FALSE /\ wsConnected = FALSE

StreamLost ==
  /\ initPc' = "idle" /\ held' = {} /\ unwind' = <<>>
  /\ clientRuns' = FALSE /\ wsConnected' = FALSE

-------------------------------------------------------------------------------
StreamBegins ==
  /\ initPc = "idle" /\ initPc' = "peer"
  /\ UNCHANGED <<held, unwind, clientRuns, wsConnected>>

StreamAcquires ==
  /\ initPc \in Handles
  /\ held' = held \cup {initPc}
  /\ initPc' = Then[initPc]
  /\ UNCHANGED <<unwind, clientRuns, wsConnected>>

\* The transport is configured; the client's task is started; the peer task is.
StreamProceeds ==
  /\ initPc \in {"configure", "start", "task"}
  /\ initPc' = Then[initPc]
  /\ clientRuns' = (clientRuns \/ initPc = "start")
  /\ UNCHANGED <<held, unwind, wsConnected>>

\* Without its buffer the stream is declared ready all the same.
StreamBuffers ==
  /\ initPc \in Buffers
  /\ held' \in {held, held \cup {initPc}}
  /\ initPc' = Then[initPc]
  /\ UNCHANGED <<unwind, clientRuns, wsConnected>>

\* What the failure path of each step releases.
PeerFirst ==   \* mutant: the peer is closed while the client's task runs
  [peer |-> <<>>, parent |-> <<"peer">>, ws |-> <<"parent", "peer">>,
   configure |-> <<"ws", "parent", "peer">>, client |-> <<"ws", "parent", "peer">>,
   start |-> <<"peer", "client", "ws", "parent">>,
   task |-> <<"peer", "client", "ws", "parent">>]

Releases ==
  [peer |-> <<>>, parent |-> <<"peer">>, ws |-> <<"parent", "peer">>,
   configure |-> <<"ws", "parent", "peer">>, client |-> <<"ws", "parent", "peer">>,
   start |-> <<"client", "ws", "parent", "peer">>,
   task |-> <<"client", "ws", "parent", "peer">>]

StreamFails ==
  /\ initPc \in MayFail
  /\ unwind' = Releases[initPc]
  /\ initPc' = "unwind"
  /\ UNCHANGED <<held, clientRuns, wsConnected>>

\* Destroying the client stops its task first.
StreamReleases ==
  /\ initPc = "unwind" /\ unwind # <<>>
  /\ held' = held \ {Head(unwind)}
  /\ clientRuns' = (clientRuns /\ Head(unwind) # "client")
  /\ unwind' = Tail(unwind)
  /\ UNCHANGED <<initPc, wsConnected>>

StreamGivesUp ==
  /\ initPc = "unwind" /\ unwind = <<>>
  /\ initPc' = "idle"
  /\ UNCHANGED <<held, unwind, clientRuns, wsConnected>>

\* CONNECTED; DISCONNECTED, CLOSED or ERROR, which also call esp_peer.
StreamEvent ==
  /\ clientRuns
  /\ wsConnected' \in BOOLEAN
  /\ UNCHANGED <<initPc, held, unwind, clientRuns>>

StreamWorks == StreamBegins \/ StreamAcquires \/ StreamProceeds \/ StreamBuffers
               \/ StreamReleases \/ StreamGivesUp

-------------------------------------------------------------------------------
(* Properties.                                                              *)

StreamTypeOK ==
  /\ initPc \in Steps /\ held \subseteq Handles \cup Buffers
  /\ unwind \in Seq(Handles) /\ clientRuns \in BOOLEAN /\ wsConnected \in BOOLEAN

\* The event handler never runs without the peer, the client and the transports
\* under it, a transport never outlives its parent, and when init has given up,
\* and app_main is about to try again, nothing is held: whichever step failed,
\* and whatever the handler did meanwhile.
NothingDangles ==
  /\ (clientRuns => Handles \subseteq held)
  /\ ("client" \in held => "ws" \in held)
  /\ ("ws" \in held => "parent" \in held)
  /\ (initPc = "idle" => held = {})
===============================================================================
