--------------------------------- MODULE GoHub ---------------------------------
(***************************************************************************)
(* The Go signaling hub for one device ID: the registry entry (a mutex     *)
(* around the device's socket and the viewer slot), one ServeDeviceWS      *)
(* goroutine per device connection, one ServeViewerWS goroutine per        *)
(* viewing session, and the shutdown loop of main.  A critical section of  *)
(* the mutex, or one websocket call, is one step; everything between two   *)
(* of them interleaves.                                                    *)
(*                                                                         *)
(* The peers (firmware and browser) are modelled from the messages they    *)
(* exchange with the hub.  Every message is tagged with the session it     *)
(* belongs to; the tag is history, the wire format has none.               *)
(***************************************************************************)
EXTENDS Naturals, Sequences

CONSTANTS Conns,      \* device connections, each one ServeDeviceWS call
          Viewers,    \* viewing sessions, each one ServeViewerWS call
          None,       \* Go's nil
          FromViewer, \* message types the browser sends
          FromDevice, \* message types the firmware sends
          CanStop,    \* whether main gets its signal
          MaxInbox,   \* bound: messages queued in one device socket
          MaxUp       \* bound: messages the device has in flight to the hub

ASSUME GoHubAssumption ==
  /\ None \notin Conns \union Viewers
  /\ Conns \intersect Viewers = {}
  /\ FromViewer \subseteq {"offer", "ice"}
  /\ FromDevice \subseteq {"answer", "ice"}
  /\ CanStop \in BOOLEAN
  /\ MaxInbox \in Nat \ {0} /\ MaxUp \in Nat \ {0}

VARIABLES
  known,    \* the registry has an entry for the device ID
  conn,     \* Device.conn
  viewer,   \* Device.viewer
  sock,     \* each websocket: "none", "open", "gone" (the peer is gone),
            \* "closing" (the hub sent its close frame) or "closed"
  dpc,      \* where each device handler stands
  dtask,    \* the write a device handler is about to make
  vpc,      \* where each viewer handler stands
  vtask,    \* the write a viewer handler is about to make
  inbox,    \* messages delivered to a device socket and not yet handled
  up,       \* messages the device sent and its handler has not read
  heard,    \* messages delivered to a viewer
  session,  \* the viewer whose offer the device is serving, or None
  phase,    \* "run", "closing" (Device.Close took the sockets) or "down"
  victims   \* the sockets Device.Close took

hubVars  == <<known, conn, viewer>>
devVars  == <<dpc, dtask>>
viewVars == <<vpc, vtask>>
peerVars == <<inbox, up, heard, session>>
endVars  == <<phase, victims>>
vars == <<known, conn, viewer, sock, dpc, dtask, vpc, vtask,
          inbox, up, heard, session, phase, victims>>

Sockets == Conns \union Viewers

Msg(type, v) == [type |-> type, session |-> v]
Task(to, m)  == [to |-> to, msg |-> m]
NoTask       == Task(None, Msg("error", None))

Types    == {"offer", "answer", "ice", "viewer_gone", "ice_servers",
             "peer_gone", "error"}
Messages == [type : Types, session : Viewers \union {None}]
Tasks    == [to : Sockets \union {None}, msg : Messages]

SockStates == {"none", "open", "gone", "closing", "closed"}

\* A device handler is in its loop from Attach to Detach.
InLoop == {"read", "send"}
DevPcs == InLoop \union {"idle", "accepted", "evict", "evicted", "close", "done"}

\* A viewer handler is in its session from TryClaimViewer to ReleaseViewer.
InSession == {"greet", "read", "send", "leave"}
Ended     == {"done", "refused", "notFound"}
ViewPcs   == InSession \union Ended \union
             {"idle", "lookup", "claim", "refuse", "gone", "goneSend", "close"}

Init ==
  /\ known = FALSE /\ conn = None /\ viewer = None
  /\ sock = [c \in Sockets |-> "none"]
  /\ dpc = [d \in Conns |-> "idle"]   /\ dtask = [d \in Conns |-> NoTask]
  /\ vpc = [v \in Viewers |-> "idle"] /\ vtask = [v \in Viewers |-> NoTask]
  /\ inbox = [d \in Conns |-> <<>>]   /\ up = [d \in Conns |-> <<>>]
  /\ heard = [v \in Viewers |-> {}]   /\ session = None
  /\ phase = "run" /\ victims = {}

-------------------------------------------------------------------------------
(* Websocket calls (github.com/coder/websocket), as the hub relies on them. *)

\* Close sends the close frame to a peer that is there, else drops the socket.
AfterClose(s) == IF s = "open" THEN "closing" ELSE
                 IF s = "gone" THEN "closed" ELSE s

\* Writes to a socket succeed while it is open and, for a while, after the
\* peer vanished.  A full socket makes the write wait.
DeviceGets(d, m) ==
  \/ /\ sock[d] = "open" /\ Len(inbox[d]) < MaxInbox
     /\ inbox' = [inbox EXCEPT ![d] = Append(@, m)]
  \/ sock[d] = "gone" /\ UNCHANGED inbox

ViewerGets(v, m) ==
  \/ sock[v] = "open" /\ heard' = [heard EXCEPT ![v] = @ \union {m}]
  \/ sock[v] = "gone" /\ UNCHANGED heard

WriteFails(c) == sock[c] # "open"

\* A Read returns an error once the hub closed the socket (until the closing
\* handshake is over it may still return data), or once a vanished peer is
\* noticed: a viewer's by the 60 s deadline of its read, a device's only when
\* TCP reports it, for its read has no deadline and may wait for ever.
ReadFails(c) == sock[c] \in {"gone", "closing", "closed"}
ReadsData(c) == sock[c] \in {"open", "closing"}

-------------------------------------------------------------------------------
(* ServeDeviceWS: one goroutine per device connection d.                    *)

\* The device connects; one physical device has one live socket.  Accept and
\* GetOrCreate.  The listener takes connections until main shuts it.
DeviceConnect(d) ==
  /\ dpc[d] = "idle" /\ phase # "down"
  /\ \A e \in Conns : sock[e] \notin {"open", "closing"}
  /\ sock' = [sock EXCEPT ![d] = "open"]
  /\ dpc' = [dpc EXCEPT ![d] = "accepted"]
  /\ known' = TRUE
  /\ UNCHANGED <<conn, viewer, dtask, viewVars, peerVars, endVars>>

DeviceAttach(d) ==
  /\ dpc[d] = "accepted"
  /\ conn' = d
  /\ dpc' = [dpc EXCEPT ![d] = "read"]
  /\ UNCHANGED <<known, viewer, sock, dtask, viewVars, peerVars, endVars>>

\* The loop reads an answer or a candidate, and SendViewer looks up the viewer
\* under the mutex.  Without one the message is dropped.
DeviceReadUnchecked(d) ==   \* mutant: the nil test is missing
  /\ dpc[d] = "read" /\ ReadsData(d) /\ up[d] # <<>>
  /\ up' = [up EXCEPT ![d] = Tail(@)]
  /\ dpc' = [dpc EXCEPT ![d] = "send"]
  /\ dtask' = [dtask EXCEPT ![d] = Task(viewer, Head(up[d]))]
  /\ UNCHANGED <<hubVars, sock, viewVars, inbox, heard, session, endVars>>

DeviceRead(d) ==
  /\ dpc[d] = "read" /\ ReadsData(d) /\ up[d] # <<>>
  /\ up' = [up EXCEPT ![d] = Tail(@)]
  /\ IF viewer = None
     THEN UNCHANGED devVars
     ELSE /\ dpc' = [dpc EXCEPT ![d] = "send"]
          /\ dtask' = [dtask EXCEPT ![d] = Task(viewer, Head(up[d]))]
  /\ UNCHANGED <<hubVars, sock, viewVars, inbox, heard, session, endVars>>

\* SendViewer writes after the unlock.  An error is only logged.
DeviceForward(d) ==
  LET t == dtask[d] IN
  /\ dpc[d] = "send"
  /\ \/ ViewerGets(t.to, t.msg)
     \/ WriteFails(t.to) /\ UNCHANGED heard
  /\ dpc' = [dpc EXCEPT ![d] = "read"]
  /\ dtask' = [dtask EXCEPT ![d] = NoTask]
  /\ UNCHANGED <<hubVars, sock, viewVars, inbox, up, session, endVars>>

\* Detach: forget the socket if it is still the registered one, take the
\* viewer whoever it is.
DetachedBlindly(d) == None   \* mutant: the equality test is missing
DetachForgotten(d) == conn   \* mutant: the socket stays registered

Detached(d) == IF conn = d THEN None ELSE conn

DeviceDetach(d) ==
  /\ dpc[d] = "read" /\ ReadFails(d)
  /\ conn' = Detached(d)
  /\ viewer' = None
  /\ dpc' = [dpc EXCEPT ![d] = IF viewer = None THEN "close" ELSE "evict"]
  /\ dtask' = [dtask EXCEPT ![d] = IF viewer = None THEN NoTask
                 ELSE Task(viewer, Msg("peer_gone", viewer))]
  /\ UNCHANGED <<known, sock, viewVars, peerVars, endVars>>

\* writeJSON(peer_gone) to the evicted viewer; a failed write closes it.
DeviceEvict(d) ==
  LET t == dtask[d] IN
  /\ dpc[d] = "evict"
  /\ \/ ViewerGets(t.to, t.msg) /\ UNCHANGED sock
     \/ /\ WriteFails(t.to) /\ UNCHANGED heard
        /\ sock' = [sock EXCEPT ![t.to] = AfterClose(@)]
  /\ dpc' = [dpc EXCEPT ![d] = "evicted"]
  /\ UNCHANGED <<hubVars, dtask, viewVars, inbox, up, session, endVars>>

DeviceEvictClose(d) ==
  /\ dpc[d] = "evicted"
  /\ sock' = [sock EXCEPT ![dtask[d].to] = AfterClose(@)]
  /\ dpc' = [dpc EXCEPT ![d] = "close"]
  /\ dtask' = [dtask EXCEPT ![d] = NoTask]
  /\ UNCHANGED <<hubVars, viewVars, peerVars, endVars>>

DeviceClose(d) ==
  /\ dpc[d] = "close"
  /\ sock' = [sock EXCEPT ![d] = AfterClose(@)]
  /\ dpc' = [dpc EXCEPT ![d] = "done"]
  /\ UNCHANGED <<hubVars, dtask, viewVars, peerVars, endVars>>

-------------------------------------------------------------------------------
(* ServeViewerWS: one goroutine per viewing session v.                      *)

ViewerConnect(v) ==
  /\ vpc[v] = "idle" /\ phase # "down"
  /\ sock' = [sock EXCEPT ![v] = "open"]
  /\ vpc' = [vpc EXCEPT ![v] = "lookup"]
  /\ UNCHANGED <<hubVars, devVars, vtask, peerVars, endVars>>

\* No registry entry: http.Error on a connection that was already upgraded,
\* and the handler returns.
ViewerNotFound(v) ==
  /\ vpc[v] = "lookup" /\ ~known
  /\ vpc' = [vpc EXCEPT ![v] = "notFound"]
  /\ UNCHANGED <<hubVars, sock, devVars, vtask, peerVars, endVars>>

\* The Online check, a critical section of its own.
ViewerOnline(v) ==
  /\ vpc[v] = "lookup" /\ known
  /\ vpc' = [vpc EXCEPT ![v] = IF conn = None THEN "refuse" ELSE "claim"]
  /\ UNCHANGED <<hubVars, sock, devVars, vtask, peerVars, endVars>>

\* TryClaimViewer: the slot is taken if it is free; if not, the viewer is
\* refused.
ClaimUnchecked == TRUE   \* mutant

SlotIsFree == viewer = None

ViewerClaim(v) ==
  /\ vpc[v] = "claim" /\ SlotIsFree
  /\ viewer' = v
  /\ vpc' = [vpc EXCEPT ![v] = "greet"]
  /\ UNCHANGED <<known, conn, sock, devVars, vtask, peerVars, endVars>>

BusyWithoutReturn(v) ==   \* mutant: the handler goes on
  /\ vpc[v] = "claim" /\ viewer # None
  /\ vpc' = [vpc EXCEPT ![v] = "greet"]
  /\ UNCHANGED <<hubVars, sock, devVars, vtask, peerVars, endVars>>

ViewerBusy(v) ==
  /\ vpc[v] = "claim" /\ viewer # None
  /\ vpc' = [vpc EXCEPT ![v] = "refuse"]
  /\ UNCHANGED <<hubVars, sock, devVars, vtask, peerVars, endVars>>

\* sendError and Close: nobody else knows this socket yet.
ViewerRefuse(v) ==
  /\ vpc[v] = "refuse"
  /\ \/ ViewerGets(v, Msg("error", v))
     \/ WriteFails(v) /\ UNCHANGED heard
  /\ sock' = [sock EXCEPT ![v] = AfterClose(@)]
  /\ vpc' = [vpc EXCEPT ![v] = "refused"]
  /\ UNCHANGED <<hubVars, devVars, vtask, inbox, up, session, endVars>>

\* writeJSON(ice_servers); a failed write closes the socket and ends the session.
ViewerGreet(v) ==
  /\ vpc[v] = "greet"
  /\ \/ /\ ViewerGets(v, Msg("ice_servers", v))
        /\ vpc' = [vpc EXCEPT ![v] = "read"]
        /\ UNCHANGED sock
     \/ /\ WriteFails(v) /\ UNCHANGED heard
        /\ vpc' = [vpc EXCEPT ![v] = "leave"]
        /\ sock' = [sock EXCEPT ![v] = AfterClose(@)]
  /\ UNCHANGED <<hubVars, devVars, vtask, inbox, up, session, endVars>>

\* The loop reads an offer or a candidate, and Send looks up the device socket
\* under the mutex.  Without one Send fails and the session ends.
ViewerRead(v) ==
  /\ vpc[v] = "read" /\ ReadsData(v) /\ Msg("ice_servers", v) \in heard[v]
  /\ IF conn = None
     THEN vpc' = [vpc EXCEPT ![v] = "leave"] /\ UNCHANGED vtask
     ELSE /\ vpc' = [vpc EXCEPT ![v] = "send"]
          /\ \E type \in FromViewer :
               vtask' = [vtask EXCEPT ![v] = Task(conn, Msg(type, v))]
  /\ UNCHANGED <<hubVars, sock, devVars, peerVars, endVars>>

ViewerForward(v) ==
  LET t == vtask[v] IN
  /\ vpc[v] = "send"
  /\ \/ DeviceGets(t.to, t.msg) /\ vpc' = [vpc EXCEPT ![v] = "read"]
     \/ /\ WriteFails(t.to) /\ UNCHANGED inbox
        /\ vpc' = [vpc EXCEPT ![v] = "leave"]
  /\ vtask' = [vtask EXCEPT ![v] = NoTask]
  /\ UNCHANGED <<hubVars, sock, devVars, up, heard, session, endVars>>

\* Read fails: the browser left, the 60 s deadline passed, or the hub closed
\* the socket.
ReadWithoutDeadline(v) ==   \* mutant: the read waits for TCP to notice
  /\ vpc[v] = "read" /\ sock[v] \in {"closing", "closed"}
  /\ vpc' = [vpc EXCEPT ![v] = "leave"]
  /\ UNCHANGED <<hubVars, sock, devVars, vtask, peerVars, endVars>>

ReadFailsUnreleased(v) ==   \* mutant: the cleanup does not release the slot
  /\ vpc[v] = "read" /\ ReadFails(v)
  /\ vpc' = [vpc EXCEPT ![v] = "gone"]
  /\ UNCHANGED <<hubVars, sock, devVars, vtask, peerVars, endVars>>

ViewerReadFails(v) ==
  /\ vpc[v] = "read" /\ ReadFails(v)
  /\ vpc' = [vpc EXCEPT ![v] = "leave"]
  /\ UNCHANGED <<hubVars, sock, devVars, vtask, peerVars, endVars>>

\* ReleaseViewer: frees the slot only if it is still this session's.
ReleasedBlindly(v) == None   \* mutant: the equality test is missing

Released(v) == IF viewer = v THEN None ELSE viewer

ViewerRelease(v) ==
  /\ vpc[v] = "leave"
  /\ viewer' = Released(v)
  /\ vpc' = [vpc EXCEPT ![v] = "gone"]
  /\ UNCHANGED <<known, conn, sock, devVars, vtask, peerVars, endVars>>

\* Send(viewer_gone) looks up the device socket after the slot was freed.
GoneUnsent(v) ==   \* mutant: the device is not told
  /\ vpc[v] = "gone"
  /\ vpc' = [vpc EXCEPT ![v] = "close"]
  /\ UNCHANGED <<hubVars, sock, devVars, vtask, peerVars, endVars>>

ViewerGone(v) ==
  /\ vpc[v] = "gone"
  /\ IF conn = None
     THEN vpc' = [vpc EXCEPT ![v] = "close"] /\ UNCHANGED vtask
     ELSE /\ vpc' = [vpc EXCEPT ![v] = "goneSend"]
          /\ vtask' = [vtask EXCEPT ![v] = Task(conn, Msg("viewer_gone", v))]
  /\ UNCHANGED <<hubVars, sock, devVars, peerVars, endVars>>

\* The write of viewer_gone; a write that outlives its 5 s poisons the socket.
ViewerGoneSend(v) ==
  LET t == vtask[v] IN
  /\ vpc[v] = "goneSend"
  /\ \/ DeviceGets(t.to, t.msg) /\ UNCHANGED sock
     \/ WriteFails(t.to) /\ UNCHANGED <<inbox, sock>>
     \/ /\ sock[t.to] = "open" /\ Len(inbox[t.to]) = MaxInbox
        /\ sock' = [sock EXCEPT ![t.to] = "closing"]
        /\ UNCHANGED inbox
  /\ vpc' = [vpc EXCEPT ![v] = "close"]
  /\ vtask' = [vtask EXCEPT ![v] = NoTask]
  /\ UNCHANGED <<hubVars, devVars, up, heard, session, endVars>>

ViewerClose(v) ==
  /\ vpc[v] = "close"
  /\ sock' = [sock EXCEPT ![v] = AfterClose(@)]
  /\ vpc' = [vpc EXCEPT ![v] = "done"]
  /\ UNCHANGED <<hubVars, devVars, vtask, peerVars, endVars>>

-------------------------------------------------------------------------------
(* Shutdown (main), which runs Device.Close and then stops the listener.    *)

Victims == {conn, viewer} \ {None}

ShutdownTake ==
  /\ CanStop /\ phase = "run" /\ known
  /\ victims' = Victims
  /\ conn' = None /\ viewer' = None
  /\ phase' = "closing"
  /\ UNCHANGED <<known, sock, devVars, viewVars, peerVars>>

\* One Close after the other, each up to 5 s long, the viewer's first.
ShutdownClose(c) ==
  /\ phase = "closing" /\ c \in victims
  /\ c \in Conns => victims \intersect Viewers = {}
  /\ sock' = [sock EXCEPT ![c] = AfterClose(@)]
  /\ victims' = victims \ {c}
  /\ UNCHANGED <<hubVars, devVars, viewVars, peerVars, phase>>

ShutdownDown ==
  /\ phase = "closing" /\ victims = {}
  /\ phase' = "down"
  /\ UNCHANGED <<hubVars, sock, devVars, viewVars, peerVars, victims>>

-------------------------------------------------------------------------------
(* The peers and the network.                                               *)

\* The firmware handles the next signaling message: an offer replaces the
\* session it serves, viewer_gone ends it, whoever sent it.
DeviceHandles(d) ==
  LET m == Head(inbox[d]) IN
  /\ sock[d] \in {"open", "closing"} /\ inbox[d] # <<>>
  /\ inbox' = [inbox EXCEPT ![d] = Tail(@)]
  /\ session' = IF m.type = "offer" THEN m.session
                ELSE IF m.type = "viewer_gone" THEN None ELSE session
  /\ UNCHANGED <<hubVars, sock, devVars, viewVars, up, heard, endVars>>

\* The firmware answers the offer it serves, or sends a candidate for it.
DeviceSays(d) ==
  /\ sock[d] = "open" /\ session # None /\ Len(up[d]) < MaxUp
  /\ \E type \in FromDevice : up' = [up EXCEPT ![d] = Append(@, Msg(type, session))]
  /\ UNCHANGED <<hubVars, sock, devVars, viewVars, inbox, heard, session, endVars>>

\* The end of a device connection as the device sees it: what was queued in
\* the socket is lost and the firmware drops its session.
DeviceLosesLink(d) ==
  /\ inbox' = [inbox EXCEPT ![d] = <<>>]
  /\ up' = [up EXCEPT ![d] = <<>>]
  /\ session' = None
  /\ UNCHANGED <<hubVars, devVars, viewVars, heard, endVars>>

\* The link breaks without a close frame: the hub notices when a read fails.
DeviceDrops(d) ==
  /\ sock[d] = "open" /\ sock' = [sock EXCEPT ![d] = "gone"]
  /\ DeviceLosesLink(d)

DeviceHangsUp(d) ==
  /\ sock[d] = "closing" /\ sock' = [sock EXCEPT ![d] = "closed"]
  /\ DeviceLosesLink(d)

\* The browser goes away, or stays silent past the 60 s deadline.
ViewerDrops(v) ==
  /\ sock[v] = "open" /\ sock' = [sock EXCEPT ![v] = "gone"]
  /\ UNCHANGED <<hubVars, devVars, viewVars, peerVars, endVars>>

ViewerHangsUp(v) ==
  /\ sock[v] = "closing" /\ sock' = [sock EXCEPT ![v] = "closed"]
  /\ UNCHANGED <<hubVars, devVars, viewVars, peerVars, endVars>>

-------------------------------------------------------------------------------
\* What a device handler does without waiting for the device to speak.
DeviceStep(d) ==
  \/ DeviceAttach(d) \/ DeviceForward(d) \/ DeviceDetach(d)
  \/ DeviceEvict(d) \/ DeviceEvictClose(d) \/ DeviceClose(d)

\* What a viewer handler does without waiting for the browser to speak.
ViewerStep(v) ==
  \/ ViewerNotFound(v) \/ ViewerOnline(v) \/ ViewerClaim(v) \/ ViewerBusy(v)
  \/ ViewerRefuse(v) \/ ViewerGreet(v) \/ ViewerForward(v) \/ ViewerReadFails(v)
  \/ ViewerRelease(v) \/ ViewerGone(v) \/ ViewerGoneSend(v) \/ ViewerClose(v)

DeviceNext(d) ==
  \/ DeviceConnect(d) \/ DeviceRead(d) \/ DeviceStep(d)
  \/ DeviceHandles(d) \/ DeviceSays(d) \/ DeviceDrops(d) \/ DeviceHangsUp(d)

ViewerNext(v) ==
  \/ ViewerConnect(v) \/ ViewerRead(v) \/ ViewerStep(v)
  \/ ViewerDrops(v) \/ ViewerHangsUp(v)

ShutdownNext ==
  \/ ShutdownTake \/ ShutdownDown
  \/ \E c \in Sockets : ShutdownClose(c)

\* All connections of the instance are used up.
Finished ==
  /\ \A d \in Conns : dpc[d] \in {"idle", "done"}
  /\ \A v \in Viewers : vpc[v] \in Ended \union {"idle"}
  /\ CanStop => phase = "down"
  /\ UNCHANGED vars

Next ==
  \/ \E d \in Conns : DeviceNext(d)
  \/ \E v \in Viewers : ViewerNext(v)
  \/ ShutdownNext
  \/ Finished

Spec == Init /\ [][Next]_vars

\* What only TCP ends: a device's read, and the write of a relay, on a socket
\* whose peer vanished.  Neither has a deadline (context.Background()).
DeviceWaitsForTcp(d) ==
  \/ dpc[d] = "read" /\ sock[d] = "gone"
  \/ dpc[d] = "send" /\ sock[dtask[d].to] = "gone"

ViewerWaitsForTcp(v) == vpc[v] = "send" /\ sock[vtask[v].to] = "gone"

\* Goroutines are scheduled, blocked websocket writes to a live peer are served
\* in turn, a closing handshake ends (the library waits 5 s) and the firmware
\* handles what it receives.  TCP need not notice a peer that vanished, and
\* nobody has to connect, to speak, to leave or to shut the server down.
Fairness ==
  /\ \A d \in Conns : /\ SF_vars(DeviceStep(d) /\ ~DeviceWaitsForTcp(d))
                      /\ WF_vars(DeviceHangsUp(d))
                      /\ WF_vars(DeviceHandles(d))
  /\ \A v \in Viewers : /\ SF_vars(ViewerStep(v) /\ ~ViewerWaitsForTcp(v))
                        /\ WF_vars(ViewerHangsUp(v))
  /\ \A c \in Sockets : WF_vars(ShutdownClose(c))
  /\ WF_vars(ShutdownDown)

FairSpec == Spec /\ Fairness

-------------------------------------------------------------------------------
(* Properties.                                                              *)

\* The variables hold what the program can put there; a handler about to
\* write has a socket to write to (the nil tests of Send and SendViewer).
TypeOK ==
  /\ known \in BOOLEAN
  /\ conn \in Conns \union {None}
  /\ viewer \in Viewers \union {None}
  /\ sock \in [Sockets -> SockStates]
  /\ dpc \in [Conns -> DevPcs]
  /\ dtask \in [Conns -> Tasks]
  /\ vpc \in [Viewers -> ViewPcs]
  /\ vtask \in [Viewers -> Tasks]
  /\ inbox \in [Conns -> Seq(Messages)]
  /\ up \in [Conns -> Seq(Messages)]
  /\ heard \in [Viewers -> SUBSET Messages]
  /\ session \in Viewers \union {None}
  /\ phase \in {"run", "closing", "down"}
  /\ victims \subseteq Sockets /\ (phase # "closing" => victims = {})
  /\ \A d \in Conns : dpc[d] \in {"send", "evict", "evicted"} => dtask[d].to \in Viewers
  /\ \A v \in Viewers : vpc[v] \in {"send", "goneSend"} => vtask[v].to \in Conns

\* The slot always belongs to a session that is still going to release it
\* (ReleaseViewer in the deferred cleanup of ServeViewerWS): no path through
\* the handler, and no eviction, leaves the slot taken for ever.
SlotIsReleasable == viewer # None => vpc[viewer] \in InSession

\* The registered device socket always belongs to a handler that is still
\* going to detach it: a device never shows as online with nobody reading.
OnlineIsServed == conn # None => dpc[conn] \in InLoop

\* Two sessions are never both served: a session that runs without the slot
\* has been told so or is about to be, its socket being closed by the device
\* handler or the shutdown that took its slot, or it is leaving by itself
\* (TryClaimViewer's false branch, and the viewer Detach returns to evict).
BeingEvicted(v) ==
  \E d \in Conns : dpc[d] \in {"evict", "evicted"} /\ dtask[d].to = v

OneServedViewer ==
  \A v \in Viewers : vpc[v] \in InSession =>
    \/ viewer = v
    \/ BeingEvicted(v) \/ v \in victims
    \/ sock[v] # "open" \/ vpc[v] = "leave"

\* Only the handler of the registered socket takes the device offline: the
\* late Detach of an old connection never unregisters the new one (the
\* equality test of Detach), and otherwise only a newer socket or the
\* shutdown replaces it.
OnlyOwnerTakesOffline ==
  [][\A d \in Conns : conn = d /\ conn' # d =>
       \/ dpc[d] = "read" /\ dpc'[d] \in {"evict", "close"}
       \/ conn' # None
       \/ phase' # phase]_vars

\* The hub keeps the promise of ViewerSlot.
Slot == INSTANCE ViewerSlot WITH
  slot    <- viewer,
  running <- {v \in Viewers : vpc[v] \in InSession},
  links   <- {d \in Conns : dpc[d] \in InLoop},
  serving <- phase = "run"

ImplementsViewerSlot == Slot!SlotSpec

\* A session whose socket is not open any more, because the browser vanished
\* (the 60 s deadline of hub.go:212) or because the hub closed it, ends and
\* gives the slot back, unless its handler waits for ever in a relay to a device
\* that vanished.  A device whose socket a write of the hub poisoned stops
\* showing as online.  Nothing is said of a device that vanished silently:
\* its read has no deadline (HalfOpenDeviceDetached below).
BrokenSocketUnwinds ==
  /\ \A v \in Viewers : []<>~ViewerWaitsForTcp(v) =>
       ((vpc[v] \in InSession /\ sock[v] # "open") ~> (vpc[v] \in Ended /\ viewer # v))
  /\ \A d \in Conns : (conn = d /\ sock[d] \in {"closing", "closed"}) ~> conn # d

\* The device never keeps a PeerConnection for a viewer that left: as long as
\* the registered socket is the live one, viewer_gone reaches the firmware
\* (hub.go:178, "so it tears its PeerConnection down and frees the heap
\* instead of timing out on its own").
DeviceLearnsOfLeaving ==
  \A v \in Viewers :
    (session = v /\ vpc[v] = "done" /\ conn # None /\ sock[conn] = "open")
      ~> session # v

-------------------------------------------------------------------------------
(* What comments of the code say and the code does not do: TLC refutes each *)
(* of these.  GoHubGoneEndsOwnSession.cfg is a run of the project; README.md *)
(* says how to see the others fail.                                         *)

\* registry.go:39, "a session cannot outlive its device".
SessionHasDevice == viewer # None => conn # None

\* registry.go:52, "Online reports whether the device currently has a live
\* signaling socket": a live socket that a handler serves makes it online.
LiveMeansOnline ==
  (\E d \in Conns : dpc[d] = "read" /\ sock[d] = "open") => conn # None

\* hub.go:97, "a reconnect taking over the slot kills the session".
ReconnectEvicts ==
  [][conn # None /\ conn' \notin {conn, None} => viewer' = None]_vars

\* registry.go:18, "writes to either socket are serialized by the mutex": so
\* the socket a relay writes to is the one the entry holds.
WriteTargetsCurrent ==
  /\ \A d \in Conns : dpc[d] = "send" => dtask[d].to = viewer
  /\ \A v \in Viewers : vpc[v] = "send" => vtask[v].to = conn

\* view.html:104 (the template the backend serves): ice_servers is "sent once
\* per session, before anything else".
IceServersFirst ==
  \A v \in Viewers : vpc[v] \in InSession =>
    \A m \in heard[v] : m.type \in {"answer", "ice"} =>
                          Msg("ice_servers", v) \in heard[v]

\* hub.go:178, viewer_gone tells "the device the session is over": the session
\* of the viewer that left, not the one of its successor.
GoneEndsOwnSession ==
  [][\A d \in Conns : inbox[d] # <<>> /\ inbox'[d] = Tail(inbox[d])
        /\ Head(inbox[d]).type = "viewer_gone" =>
       session \in {None, Head(inbox[d]).session}]_vars

\* CLOUDFLARE_REVISION_PLAN.md:133, "the half-open-socket gap the Go hub left to
\* TCP": a device that vanished stops showing as online.
HalfOpenDeviceDetached ==
  \A d \in Conns : (conn = d /\ sock[d] = "gone") ~> conn # d

\* hub.go:207, "a viewer that goes away without closing the socket is evicted
\* within 60s": not while its handler relays to a device that vanished too.
SilentViewerEvicted ==
  \A v \in Viewers : (viewer = v /\ sock[v] = "gone") ~> viewer # v

\* main.go:104, shutting down closes "every device and viewer socket".
ShutdownClosesAll ==
  phase = "down" =>
    /\ \A d \in Conns : dpc[d] \in InLoop => sock[d] # "open"
    /\ \A v \in Viewers : vpc[v] \in InSession => sock[v] # "open"

\* CLOUDFLARE_REVISION_PLAN.md:120, a never-seen device ID gets "today's 404":
\* it is not left with an upgraded socket that nobody serves.
UnknownDeviceIsRefused ==
  \A v \in Viewers : vpc[v] = "notFound" => sock[v] # "open"
===============================================================================
