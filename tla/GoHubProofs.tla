------------------------------ MODULE GoHubProofs ------------------------------
(***************************************************************************)
(* Theorems about GoHub, for any number of connections and sessions.       *)
(***************************************************************************)
EXTENDS GoHub, TLAPS

\* A well-typed task and a well-typed message.
LEMMA TaskType ==
  ASSUME NEW to \in Sockets \union {None}, NEW m \in Messages
  PROVE  Task(to, m) \in Tasks /\ Task(to, m).to = to /\ Task(to, m).msg = m
  BY DEF Task, Tasks

LEMMA MsgType ==
  ASSUME NEW type \in Types, NEW v \in Viewers \union {None}
  PROVE  Msg(type, v) \in Messages
  BY DEF Msg, Messages

LEMMA NoTaskType == NoTask \in Tasks
  BY DEF NoTask, Task, Tasks, Msg, Messages, Types

LEMMA AfterCloseType ==
  ASSUME NEW s \in SockStates
  PROVE  AfterClose(s) \in SockStates /\ AfterClose(s) # "open"
  BY DEF AfterClose, SockStates

\* Writes keep the queues well typed.
LEMMA ViewerGetsType ==
  ASSUME heard \in [Viewers -> SUBSET Messages], NEW v \in Viewers, NEW m \in Messages,
         ViewerGets(v, m) \/ UNCHANGED heard
  PROVE  heard' \in [Viewers -> SUBSET Messages]
<1>1. CASE heard' = [heard EXCEPT ![v] = @ \union {m}]
  <2>1. heard[v] \union {m} \in SUBSET Messages
    OBVIOUS
  <2> QED BY <1>1, <2>1
<1> QED BY <1>1 DEF ViewerGets

LEMMA DeviceGetsType ==
  ASSUME inbox \in [Conns -> Seq(Messages)], NEW d \in Conns, NEW m \in Messages,
         DeviceGets(d, m) \/ UNCHANGED inbox
  PROVE  inbox' \in [Conns -> Seq(Messages)]
<1>1. Append(inbox[d], m) \in Seq(Messages)
  OBVIOUS
<1> QED BY <1>1 DEF DeviceGets

\* Closing a socket keeps the sockets well typed and never reopens one.
LEMMA CloseType ==
  ASSUME sock \in [Sockets -> SockStates], NEW c \in Sockets,
         sock' = [sock EXCEPT ![c] = AfterClose(@)]
  PROVE  /\ sock' \in [Sockets -> SockStates]
         /\ sock'[c] # "open"
         /\ \A b \in Sockets : sock[b] # "open" => sock'[b] # "open"
  BY AfterCloseType

\* The initial state is well typed.
LEMMA TypeInit == Init => TypeOK
<1> SUFFICES ASSUME Init PROVE TypeOK
  OBVIOUS
<1>1. sock \in [Sockets -> SockStates]
  BY DEF Init, SockStates
<1>2. dpc \in [Conns -> DevPcs] /\ vpc \in [Viewers -> ViewPcs]
  BY DEF Init, DevPcs, ViewPcs
<1>3. dtask \in [Conns -> Tasks] /\ vtask \in [Viewers -> Tasks]
  BY NoTaskType DEF Init
<1>4. inbox \in [Conns -> Seq(Messages)] /\ up \in [Conns -> Seq(Messages)]
  BY DEF Init
<1> QED
  BY <1>1, <1>2, <1>3, <1>4 DEF Init, TypeOK

\* A step of a device handler, of the firmware behind it or of its link
\* preserves the types.
LEMMA TypeDevice ==
  ASSUME TypeOK, NEW d \in Conns, DeviceNext(d)
  PROVE  TypeOK'
<1> USE GoHubAssumption DEF TypeOK, hubVars, devVars, viewVars, peerVars, endVars
<1>1. CASE DeviceConnect(d)
  BY <1>1 DEF DeviceConnect, SockStates, DevPcs, InLoop, Sockets
<1>2. CASE DeviceAttach(d)
  BY <1>2 DEF DeviceAttach, DevPcs, InLoop
<1>3. CASE DeviceRead(d)
  <2>1. Head(up[d]) \in Messages /\ Tail(up[d]) \in Seq(Messages)
    BY <1>3 DEF DeviceRead
  <2>2. up' \in [Conns -> Seq(Messages)]
    BY <1>3, <2>1 DEF DeviceRead
  <2>3. CASE viewer = None
    BY <1>3, <2>2, <2>3 DEF DeviceRead
  <2>4. CASE viewer # None
    <3>1. Task(viewer, Head(up[d])) \in Tasks /\ Task(viewer, Head(up[d])).to = viewer
      BY <2>1, TaskType DEF Sockets
    <3>2. dtask' = [dtask EXCEPT ![d] = Task(viewer, Head(up[d]))]
          /\ dpc' = [dpc EXCEPT ![d] = "send"]
      BY <1>3, <2>4 DEF DeviceRead
    <3>3. dtask' \in [Conns -> Tasks] /\ dpc' \in [Conns -> DevPcs]
      BY <3>1, <3>2 DEF DevPcs, InLoop
    <3>4. \A e \in Conns : dpc'[e] \in {"send", "evict", "evicted"} => dtask'[e].to \in Viewers
      BY <2>4, <3>1, <3>2
    <3> QED
      BY <1>3, <2>2, <3>3, <3>4 DEF DeviceRead
  <2> QED BY <2>3, <2>4
<1>4. CASE DeviceForward(d)
  <2>1. dtask[d].to \in Viewers /\ dtask[d].msg \in Messages
    BY <1>4 DEF DeviceForward, Tasks
  <2>2. heard' \in [Viewers -> SUBSET Messages]
    BY <1>4, <2>1, ViewerGetsType DEF DeviceForward
  <2>3. dtask' \in [Conns -> Tasks] /\ dpc' \in [Conns -> DevPcs]
    BY <1>4, NoTaskType DEF DeviceForward, DevPcs, InLoop
  <2>4. \A e \in Conns : dpc'[e] \in {"send", "evict", "evicted"} => dtask'[e].to \in Viewers
    BY <1>4 DEF DeviceForward
  <2> QED
    BY <1>4, <2>2, <2>3, <2>4 DEF DeviceForward
<1>5. CASE DeviceDetach(d)
  <2>1. conn' \in Conns \union {None}
    BY <1>5 DEF DeviceDetach, Detached
  <2>2. CASE viewer = None
    BY <1>5, <2>1, <2>2, NoTaskType DEF DeviceDetach, DevPcs, InLoop
  <2>3. CASE viewer # None
    <3>1. Msg("peer_gone", viewer) \in Messages
      BY MsgType DEF Types
    <3>2. /\ Task(viewer, Msg("peer_gone", viewer)) \in Tasks
          /\ Task(viewer, Msg("peer_gone", viewer)).to = viewer
      BY <3>1, TaskType DEF Sockets
    <3>3. dtask' = [dtask EXCEPT ![d] = Task(viewer, Msg("peer_gone", viewer))]
          /\ dpc' = [dpc EXCEPT ![d] = "evict"]
      BY <1>5, <2>3 DEF DeviceDetach
    <3>4. dtask' \in [Conns -> Tasks] /\ dpc' \in [Conns -> DevPcs]
      BY <3>2, <3>3 DEF DevPcs
    <3>5. \A e \in Conns : dpc'[e] \in {"send", "evict", "evicted"} => dtask'[e].to \in Viewers
      BY <2>3, <3>2, <3>3
    <3> QED
      BY <1>5, <2>1, <3>4, <3>5 DEF DeviceDetach
  <2> QED BY <2>2, <2>3
<1>6. CASE DeviceEvict(d)
  <2>1. dtask[d].to \in Viewers /\ dtask[d].msg \in Messages
    BY <1>6 DEF DeviceEvict, Tasks
  <2>2. heard' \in [Viewers -> SUBSET Messages]
    BY <1>6, <2>1, ViewerGetsType DEF DeviceEvict
  <2>3. sock' \in [Sockets -> SockStates]
    BY <1>6, <2>1, CloseType DEF DeviceEvict, Sockets
  <2> QED
    BY <1>6, <2>2, <2>3 DEF DeviceEvict, DevPcs, InLoop
<1>7. CASE DeviceEvictClose(d)
  <2>1. sock' \in [Sockets -> SockStates]
    BY <1>7, AfterCloseType DEF DeviceEvictClose, Sockets
  <2> QED
    BY <1>7, <2>1, NoTaskType DEF DeviceEvictClose, DevPcs, InLoop
<1>8. CASE DeviceClose(d)
  <2>1. sock' \in [Sockets -> SockStates]
    BY <1>8, AfterCloseType DEF DeviceClose, Sockets
  <2> QED
    BY <1>8, <2>1 DEF DeviceClose, DevPcs, InLoop
<1>9. CASE DeviceHandles(d)
  <2>1. Head(inbox[d]) \in Messages /\ Tail(inbox[d]) \in Seq(Messages)
    BY <1>9 DEF DeviceHandles
  <2>2. session' \in Viewers \union {None}
    BY <1>9, <2>1 DEF DeviceHandles, Messages
  <2> QED
    BY <1>9, <2>1, <2>2 DEF DeviceHandles
<1>10. CASE DeviceSays(d)
  <2>1. PICK type \in FromDevice : up' = [up EXCEPT ![d] = Append(@, Msg(type, session))]
    BY <1>10 DEF DeviceSays
  <2>2. Msg(type, session) \in Messages
    BY MsgType DEF Types
  <2>3. up' \in [Conns -> Seq(Messages)]
    BY <2>1, <2>2
  <2> QED
    BY <1>10, <2>3 DEF DeviceSays
<1>11. CASE DeviceDrops(d) \/ DeviceHangsUp(d)
  <2>1. inbox' \in [Conns -> Seq(Messages)] /\ up' \in [Conns -> Seq(Messages)]
    <3>1. inbox' = [inbox EXCEPT ![d] = <<>>] /\ up' = [up EXCEPT ![d] = <<>>]
      BY <1>11 DEF DeviceDrops, DeviceHangsUp, DeviceLosesLink
    <3> QED BY <3>1
  <2>2. sock' \in [Sockets -> SockStates]
    BY <1>11 DEF DeviceDrops, DeviceHangsUp, SockStates, Sockets
  <2>3. UNCHANGED <<hubVars, devVars, viewVars, heard, endVars>> /\ session' = None
    BY <1>11 DEF DeviceDrops, DeviceHangsUp, DeviceLosesLink
  <2> QED
    BY <2>1, <2>2, <2>3
<1> QED
  BY <1>1, <1>2, <1>3, <1>4, <1>5, <1>6, <1>7, <1>8, <1>9, <1>10, <1>11
  DEF DeviceNext, DeviceStep

\* A step of a viewer handler or of its browser preserves the types.
LEMMA TypeViewer ==
  ASSUME TypeOK, NEW v \in Viewers, ViewerNext(v)
  PROVE  TypeOK'
<1> USE GoHubAssumption DEF TypeOK, hubVars, devVars, viewVars, peerVars, endVars
<1>1. CASE ViewerConnect(v) \/ ViewerDrops(v) \/ ViewerHangsUp(v)
  <2>1. sock' \in [Sockets -> SockStates]
    BY <1>1 DEF ViewerConnect, ViewerDrops, ViewerHangsUp, Sockets, SockStates
  <2>2. vpc' \in [Viewers -> ViewPcs]
    BY <1>1 DEF ViewerConnect, ViewerDrops, ViewerHangsUp, ViewPcs
  <2>3. \A u \in Viewers : vpc'[u] \in {"send", "goneSend"} => vtask'[u].to \in Conns
    BY <1>1 DEF ViewerConnect, ViewerDrops, ViewerHangsUp
  <2> QED
    BY <1>1, <2>1, <2>2, <2>3 DEF ViewerConnect, ViewerDrops, ViewerHangsUp
<1>2. CASE ViewerNotFound(v) \/ ViewerOnline(v) \/ ViewerBusy(v) \/ ViewerReadFails(v)
  <2>1. vpc' \in [Viewers -> ViewPcs]
    BY <1>2 DEF ViewerNotFound, ViewerOnline, ViewerBusy, ViewerReadFails,
                ViewPcs, InSession, Ended
  <2>2. \A u \in Viewers : vpc'[u] \in {"send", "goneSend"} => vtask'[u].to \in Conns
    BY <1>2 DEF ViewerNotFound, ViewerOnline, ViewerBusy, ViewerReadFails
  <2> QED
    BY <1>2, <2>1, <2>2 DEF ViewerNotFound, ViewerOnline, ViewerBusy, ViewerReadFails
<1>3. CASE ViewerClaim(v)
  BY <1>3 DEF ViewerClaim, ViewPcs, InSession
<1>4. CASE ViewerRefuse(v)
  <2>1. Msg("error", v) \in Messages
    BY MsgType DEF Types
  <2>2. heard' \in [Viewers -> SUBSET Messages]
    BY <1>4, <2>1, ViewerGetsType DEF ViewerRefuse
  <2>3. sock' \in [Sockets -> SockStates]
    BY <1>4, CloseType DEF ViewerRefuse, Sockets
  <2> QED
    BY <1>4, <2>2, <2>3 DEF ViewerRefuse, ViewPcs, Ended
<1>5. CASE ViewerGreet(v)
  <2>1. Msg("ice_servers", v) \in Messages
    BY MsgType DEF Types
  <2>2. heard' \in [Viewers -> SUBSET Messages]
    BY <1>5, <2>1, ViewerGetsType DEF ViewerGreet
  <2>3. sock' \in [Sockets -> SockStates]
    BY <1>5, CloseType DEF ViewerGreet, Sockets
  <2> QED
    BY <1>5, <2>2, <2>3 DEF ViewerGreet, ViewPcs, InSession
<1>6. CASE ViewerRead(v)
  <2>1. CASE conn = None
    BY <1>6, <2>1 DEF ViewerRead, ViewPcs, InSession
  <2>2. CASE conn # None
    <3>1. PICK type \in FromViewer : vtask' = [vtask EXCEPT ![v] = Task(conn, Msg(type, v))]
      BY <1>6, <2>2 DEF ViewerRead
    <3>2. vpc' = [vpc EXCEPT ![v] = "send"]
      BY <1>6, <2>2 DEF ViewerRead
    <3>3. Task(conn, Msg(type, v)) \in Tasks /\ Task(conn, Msg(type, v)).to = conn
      BY MsgType, TaskType DEF Types, Sockets
    <3>4. vtask' \in [Viewers -> Tasks] /\ vpc' \in [Viewers -> ViewPcs]
      BY <3>1, <3>2, <3>3 DEF ViewPcs, InSession
    <3>5. \A u \in Viewers : vpc'[u] \in {"send", "goneSend"} => vtask'[u].to \in Conns
      BY <2>2, <3>1, <3>2, <3>3
    <3> QED
      BY <1>6, <3>4, <3>5 DEF ViewerRead
  <2> QED BY <2>1, <2>2
<1>7. CASE ViewerForward(v) \/ ViewerGoneSend(v)
  <2>1. vtask[v].to \in Conns /\ vtask[v].msg \in Messages
    BY <1>7 DEF ViewerForward, ViewerGoneSend, Tasks
  <2>2. inbox' \in [Conns -> Seq(Messages)]
    BY <1>7, <2>1, DeviceGetsType DEF ViewerForward, ViewerGoneSend
  <2>3. vtask' = [vtask EXCEPT ![v] = NoTask]
    BY <1>7 DEF ViewerForward, ViewerGoneSend
  <2>4. vtask' \in [Viewers -> Tasks]
    BY <2>3, NoTaskType
  <2>5. vpc' \in [Viewers -> ViewPcs]
    BY <1>7 DEF ViewerForward, ViewerGoneSend, ViewPcs, InSession
  <2>6. \A u \in Viewers : vpc'[u] \in {"send", "goneSend"} => vtask'[u].to \in Conns
    BY <1>7 DEF ViewerForward, ViewerGoneSend
  <2>7. sock' \in [Sockets -> SockStates]
    BY <1>7, <2>1 DEF ViewerForward, ViewerGoneSend, Sockets, SockStates
  <2> QED
    BY <1>7, <2>2, <2>4, <2>5, <2>6, <2>7 DEF ViewerForward, ViewerGoneSend
<1>8. CASE ViewerRelease(v)
  BY <1>8 DEF ViewerRelease, Released, ViewPcs
<1>9. CASE ViewerGone(v)
  <2>1. CASE conn = None
    BY <1>9, <2>1 DEF ViewerGone, ViewPcs
  <2>2. CASE conn # None
    <3>1. /\ vtask' = [vtask EXCEPT ![v] = Task(conn, Msg("viewer_gone", v))]
          /\ vpc' = [vpc EXCEPT ![v] = "goneSend"]
      BY <1>9, <2>2 DEF ViewerGone
    <3>2. /\ Task(conn, Msg("viewer_gone", v)) \in Tasks
          /\ Task(conn, Msg("viewer_gone", v)).to = conn
      BY MsgType, TaskType DEF Types, Sockets
    <3>3. vtask' \in [Viewers -> Tasks] /\ vpc' \in [Viewers -> ViewPcs]
      BY <3>1, <3>2 DEF ViewPcs
    <3>4. \A u \in Viewers : vpc'[u] \in {"send", "goneSend"} => vtask'[u].to \in Conns
      BY <2>2, <3>1, <3>2
    <3> QED
      BY <1>9, <3>3, <3>4 DEF ViewerGone
  <2> QED BY <2>1, <2>2
<1>10. CASE ViewerClose(v)
  <2>1. sock' \in [Sockets -> SockStates]
    BY <1>10, CloseType DEF ViewerClose, Sockets
  <2> QED
    BY <1>10, <2>1 DEF ViewerClose, ViewPcs, Ended
<1> QED
  BY <1>1, <1>2, <1>3, <1>4, <1>5, <1>6, <1>7, <1>8, <1>9, <1>10
  DEF ViewerNext, ViewerStep

\* Shutting down preserves the types.
LEMMA TypeShutdown ==
  ASSUME TypeOK, ShutdownNext
  PROVE  TypeOK'
<1> USE GoHubAssumption DEF TypeOK, hubVars, devVars, viewVars, peerVars
<1>1. CASE ShutdownTake
  BY <1>1 DEF ShutdownTake, Victims, Sockets
<1>2. ASSUME NEW c \in Sockets, ShutdownClose(c) PROVE TypeOK'
  <2>1. sock' \in [Sockets -> SockStates]
    BY <1>2, AfterCloseType DEF ShutdownClose
  <2> QED BY <1>2, <2>1 DEF ShutdownClose
<1>3. CASE ShutdownDown
  BY <1>3 DEF ShutdownDown
<1> QED BY <1>1, <1>2, <1>3 DEF ShutdownNext

\* TypeOK does not depend on anything a stuttering step could change.
LEMMA TypeStutter == TypeOK /\ UNCHANGED vars => TypeOK'
  BY DEF TypeOK, vars

LEMMA TypeStep == TypeOK /\ [Next]_vars => TypeOK'
<1> SUFFICES ASSUME TypeOK, [Next]_vars PROVE TypeOK'
  OBVIOUS
<1>1. CASE \E d \in Conns : DeviceNext(d)
  BY <1>1, TypeDevice
<1>2. CASE \E v \in Viewers : ViewerNext(v)
  BY <1>2, TypeViewer
<1>3. CASE ShutdownNext
  BY <1>3, TypeShutdown
<1>4. CASE UNCHANGED vars
  BY <1>4, TypeStutter
<1> QED BY <1>1, <1>2, <1>3, <1>4 DEF Next, Finished

\* The hub's variables keep their types, and a handler about to write always
\* has a socket to write to: the nil tests of Send and SendViewer cover every
\* interleaving.
THEOREM TypeCorrect == Spec => []TypeOK
  BY TypeInit, TypeStep, PTL DEF Spec

-------------------------------------------------------------------------------
\* The inductive invariant behind the safety theorems.
Inv == TypeOK /\ SlotIsReleasable /\ OnlineIsServed /\ OneServedViewer

LEMMA InvInit == Init => Inv
<1> SUFFICES ASSUME Init PROVE Inv
  OBVIOUS
<1>1. SlotIsReleasable /\ OnlineIsServed
  BY DEF Init, SlotIsReleasable, OnlineIsServed
<1>2. OneServedViewer
  BY DEF Init, OneServedViewer, InSession
<1> QED BY <1>1, <1>2, TypeInit DEF Inv

\* What a step has to do to keep the slot invariants: a session that is in
\* its handler afterwards was so before, or has just taken the slot; sockets
\* do not reopen; nobody who was about to be closed is forgotten.
LEMMA OneServedKept ==
  ASSUME OneServedViewer, viewer' = viewer, victims' = victims,
         \A u \in Viewers : vpc'[u] \in InSession =>
            vpc[u] \in InSession /\ (vpc[u] = "leave" => vpc'[u] = "leave"),
         \A u \in Viewers : vpc'[u] \in InSession /\ sock[u] # "open" => sock'[u] # "open",
         \A u \in Viewers : BeingEvicted(u) => BeingEvicted(u)' \/ sock'[u] # "open"
  PROVE  OneServedViewer'
  BY DEF OneServedViewer

LEMMA InvDevice ==
  ASSUME Inv, NEW d \in Conns, DeviceNext(d)
  PROVE  (SlotIsReleasable /\ OnlineIsServed /\ OneServedViewer)'
<1> USE GoHubAssumption DEF Inv
<1>0. vpc' = vpc /\ victims' = victims
  BY DEF DeviceNext, DeviceStep, DeviceConnect, DeviceAttach, DeviceRead, DeviceForward,
     DeviceDetach, DeviceEvict, DeviceEvictClose, DeviceClose, DeviceHandles, DeviceSays,
     DeviceDrops, DeviceHangsUp, DeviceLosesLink, viewVars, endVars
<1>1. CASE DeviceConnect(d)
  <2>1. conn' = conn /\ viewer' = viewer /\ dtask' = dtask
        /\ dpc[d] = "idle" /\ dpc' = [dpc EXCEPT ![d] = "accepted"]
    BY <1>1 DEF DeviceConnect
  <2>2. \A u \in Viewers : sock'[u] = sock[u]
    BY <1>1 DEF DeviceConnect, TypeOK, Sockets
  <2>3. \A u \in Viewers : BeingEvicted(u) => BeingEvicted(u)'
    BY <2>1 DEF BeingEvicted, TypeOK
  <2>4. OneServedViewer'
    BY <1>0, <2>1, <2>2, <2>3, OneServedKept
  <2> QED
    BY <1>0, <2>1, <2>4 DEF SlotIsReleasable, OnlineIsServed, InLoop, TypeOK
<1>2. CASE DeviceAttach(d)
  <2>1. conn' = d /\ viewer' = viewer /\ dtask' = dtask /\ sock' = sock
        /\ dpc[d] = "accepted" /\ dpc' = [dpc EXCEPT ![d] = "read"]
    BY <1>2 DEF DeviceAttach
  <2>2. \A u \in Viewers : BeingEvicted(u) => BeingEvicted(u)'
    BY <2>1 DEF BeingEvicted, TypeOK
  <2>3. OneServedViewer'
    BY <1>0, <2>1, <2>2, OneServedKept
  <2> QED
    BY <1>0, <2>1, <2>3 DEF SlotIsReleasable, OnlineIsServed, InLoop, TypeOK
<1>3. CASE DeviceRead(d) \/ DeviceForward(d)
  <2>1. conn' = conn /\ viewer' = viewer /\ sock' = sock
    BY <1>3 DEF DeviceRead, DeviceForward, hubVars
  <2>2. \A e \in Conns : (dpc[e] \in InLoop => dpc'[e] \in InLoop)
    BY <1>3 DEF DeviceRead, DeviceForward, devVars, InLoop, TypeOK
  <2>3. \A e \in Conns : dpc[e] \in {"evict", "evicted"} =>
                           dpc'[e] = dpc[e] /\ dtask'[e] = dtask[e]
    BY <1>3 DEF DeviceRead, DeviceForward, devVars, TypeOK
  <2>4. \A u \in Viewers : BeingEvicted(u) => BeingEvicted(u)'
    BY <2>3 DEF BeingEvicted
  <2>5. OneServedViewer'
    BY <1>0, <2>1, <2>4, OneServedKept
  <2> QED
    BY <1>0, <2>1, <2>2, <2>5 DEF SlotIsReleasable, OnlineIsServed, TypeOK
<1>4. CASE DeviceDetach(d)
  <2>1. conn' = Detached(d) /\ viewer' = None /\ sock' = sock /\ dpc[d] = "read"
    BY <1>4 DEF DeviceDetach
  <2>2. \A e \in Conns : e # d => dpc'[e] = dpc[e] /\ dtask'[e] = dtask[e]
    BY <1>4 DEF DeviceDetach, TypeOK
  <2>3. \A u \in Viewers : viewer = u => BeingEvicted(u)'
    BY <1>4 DEF DeviceDetach, TypeOK, BeingEvicted, Task
  <2>4. \A u \in Viewers : BeingEvicted(u) => BeingEvicted(u)'
    BY <2>1, <2>2 DEF BeingEvicted
  <2>5. OneServedViewer'
    BY <1>0, <2>1, <2>3, <2>4 DEF OneServedViewer
  <2>6. OnlineIsServed'
    BY <2>1, <2>2 DEF OnlineIsServed, Detached, TypeOK
  <2> QED
    BY <2>1, <2>5, <2>6 DEF SlotIsReleasable
<1>5. CASE DeviceEvict(d)
  <2>1. conn' = conn /\ viewer' = viewer /\ dtask' = dtask
        /\ dpc[d] = "evict" /\ dpc' = [dpc EXCEPT ![d] = "evicted"]
    BY <1>5 DEF DeviceEvict, hubVars
  <2>2. dtask[d].to \in Viewers
    BY <2>1 DEF TypeOK
  <2>3. \A u \in Viewers : sock[u] # "open" => sock'[u] # "open"
    BY <1>5, <2>2, CloseType DEF DeviceEvict, TypeOK, Sockets
  <2>4. \A u \in Viewers : BeingEvicted(u) => BeingEvicted(u)'
    BY <2>1 DEF BeingEvicted, TypeOK
  <2>5. OneServedViewer'
    BY <1>0, <2>1, <2>3, <2>4, OneServedKept
  <2> QED
    BY <1>0, <2>1, <2>5 DEF SlotIsReleasable, OnlineIsServed, InLoop, TypeOK
<1>6. CASE DeviceEvictClose(d)
  <2>1. conn' = conn /\ viewer' = viewer /\ dpc[d] = "evicted"
        /\ dpc' = [dpc EXCEPT ![d] = "close"]
    BY <1>6 DEF DeviceEvictClose, hubVars
  <2>2. dtask[d].to \in Viewers
    BY <2>1 DEF TypeOK
  <2>3. /\ \A u \in Viewers : sock[u] # "open" => sock'[u] # "open"
        /\ sock'[dtask[d].to] # "open"
    BY <1>6, <2>2, CloseType DEF DeviceEvictClose, TypeOK, Sockets
  <2>4. \A e \in Conns : e # d => dpc'[e] = dpc[e] /\ dtask'[e] = dtask[e]
    BY <1>6 DEF DeviceEvictClose, TypeOK
  <2>5. \A u \in Viewers : BeingEvicted(u) => BeingEvicted(u)' \/ sock'[u] # "open"
    BY <2>3, <2>4 DEF BeingEvicted
  <2>6. OneServedViewer'
    BY <1>0, <2>1, <2>3, <2>5, OneServedKept
  <2> QED
    BY <1>0, <2>1, <2>6 DEF SlotIsReleasable, OnlineIsServed, InLoop, TypeOK
<1>7. CASE DeviceClose(d)
  <2>1. conn' = conn /\ viewer' = viewer /\ dtask' = dtask
        /\ dpc[d] = "close" /\ dpc' = [dpc EXCEPT ![d] = "done"]
    BY <1>7 DEF DeviceClose, hubVars
  <2>2. \A u \in Viewers : sock[u] # "open" => sock'[u] # "open"
    BY <1>7, CloseType DEF DeviceClose, TypeOK, Sockets
  <2>3. \A u \in Viewers : BeingEvicted(u) => BeingEvicted(u)'
    BY <2>1 DEF BeingEvicted, TypeOK
  <2>4. OneServedViewer'
    BY <1>0, <2>1, <2>2, <2>3, OneServedKept
  <2> QED
    BY <1>0, <2>1, <2>4 DEF SlotIsReleasable, OnlineIsServed, InLoop, TypeOK
<1>8. CASE DeviceHandles(d) \/ DeviceSays(d) \/ DeviceDrops(d) \/ DeviceHangsUp(d)
  <2>1. conn' = conn /\ viewer' = viewer /\ dpc' = dpc /\ dtask' = dtask
    BY <1>8 DEF DeviceHandles, DeviceSays, DeviceDrops, DeviceHangsUp, DeviceLosesLink,
                hubVars, devVars
  <2>2. \A u \in Viewers : sock'[u] = sock[u]
    BY <1>8 DEF DeviceHandles, DeviceSays, DeviceDrops, DeviceHangsUp, TypeOK, Sockets
  <2>3. \A u \in Viewers : BeingEvicted(u) => BeingEvicted(u)'
    BY <2>1 DEF BeingEvicted
  <2>4. OneServedViewer'
    BY <1>0, <2>1, <2>2, <2>3, OneServedKept
  <2> QED
    BY <1>0, <2>1, <2>4 DEF SlotIsReleasable, OnlineIsServed
<1> QED
  BY <1>1, <1>2, <1>3, <1>4, <1>5, <1>6, <1>7, <1>8 DEF DeviceNext, DeviceStep

LEMMA InvViewer ==
  ASSUME Inv, NEW v \in Viewers, ViewerNext(v)
  PROVE  (SlotIsReleasable /\ OnlineIsServed /\ OneServedViewer)'
<1> USE GoHubAssumption DEF Inv
<1>0. /\ conn' = conn /\ dpc' = dpc /\ dtask' = dtask /\ victims' = victims
      /\ \A u \in Viewers : u # v => vpc'[u] = vpc[u]
  BY DEF ViewerNext, ViewerStep, ViewerConnect, ViewerNotFound, ViewerOnline,
     ViewerClaim, ViewerBusy, ViewerRefuse, ViewerGreet, ViewerRead,
     ViewerForward, ViewerReadFails, ViewerRelease, ViewerGone, ViewerGoneSend,
     ViewerClose, ViewerDrops, ViewerHangsUp, TypeOK,
     hubVars, devVars, viewVars, endVars
<1>1. OnlineIsServed'
  BY <1>0 DEF OnlineIsServed
<1>2. \A u \in Viewers : BeingEvicted(u) => BeingEvicted(u)'
  BY <1>0 DEF BeingEvicted
<1>3. CASE ViewerClaim(v)
  <2>1. /\ viewer = None /\ viewer' = v /\ sock' = sock
        /\ vpc' = [vpc EXCEPT ![v] = "greet"]
    BY <1>3 DEF ViewerClaim, SlotIsFree
  <2>2. OneServedViewer'
    BY <1>0, <1>2, <2>1 DEF OneServedViewer, TypeOK
  <2> QED
    BY <1>1, <2>1, <2>2 DEF SlotIsReleasable, InSession, TypeOK
<1>4. CASE ViewerRelease(v)
  <2>1. /\ viewer' = Released(v) /\ sock' = sock
        /\ vpc' = [vpc EXCEPT ![v] = "gone"]
    BY <1>4 DEF ViewerRelease
  <2>2. OneServedViewer'
    BY <1>0, <1>2, <2>1 DEF OneServedViewer, Released, InSession, TypeOK
  <2> QED
    BY <1>0, <1>1, <2>1, <2>2 DEF SlotIsReleasable, Released
<1>5. CASE ~ViewerClaim(v) /\ ~ViewerRelease(v)
  <2>1. viewer' = viewer
    BY <1>5 DEF ViewerNext, ViewerStep, ViewerConnect, ViewerNotFound,
       ViewerOnline, ViewerBusy, ViewerRefuse, ViewerGreet, ViewerRead,
       ViewerForward, ViewerReadFails, ViewerGone, ViewerGoneSend,
       ViewerClose, ViewerDrops, ViewerHangsUp, hubVars
  <2>2. /\ vpc'[v] \in InSession => vpc[v] \in InSession
        /\ vpc[v] \in InSession => vpc'[v] \in InSession
        /\ vpc[v] = "leave" => vpc'[v] = "leave"
    BY <1>5 DEF ViewerNext, ViewerStep, ViewerConnect, ViewerNotFound,
       ViewerOnline, ViewerBusy, ViewerRefuse, ViewerGreet, ViewerRead,
       ViewerForward, ViewerReadFails, ViewerGone, ViewerGoneSend,
       ViewerClose, ViewerDrops, ViewerHangsUp, viewVars, InSession, TypeOK
  <2>3. vpc[v] \in InSession /\ sock[v] # "open" => sock'[v] # "open"
    <3>1. CASE ViewerGreet(v)
      BY <3>1, CloseType DEF ViewerGreet, TypeOK, Sockets
    <3>2. CASE ViewerGoneSend(v)
      BY <3>2 DEF ViewerGoneSend, InSession
    <3>3. CASE ~ViewerGreet(v) /\ ~ViewerGoneSend(v)
      BY <1>5, <3>3 DEF ViewerNext, ViewerStep, ViewerConnect, ViewerNotFound,
         ViewerOnline, ViewerBusy, ViewerRefuse, ViewerRead,
         ViewerForward, ViewerReadFails, ViewerGone,
         ViewerClose, ViewerDrops, ViewerHangsUp, InSession, TypeOK, Sockets
    <3> QED BY <3>1, <3>2, <3>3
  <2>4. \A u \in Viewers : u # v /\ sock[u] # "open" => sock'[u] # "open"
    <3>1. CASE ViewerGoneSend(v)
      <4>1. vtask[v].to \in Conns
        BY <3>1 DEF ViewerGoneSend, TypeOK
      <4> QED BY <3>1, <4>1 DEF ViewerGoneSend, TypeOK, Sockets
    <3>2. CASE ~ViewerGoneSend(v)
      BY <1>5, <3>2 DEF ViewerNext, ViewerStep, ViewerConnect, ViewerNotFound,
         ViewerOnline, ViewerBusy, ViewerRefuse, ViewerGreet, ViewerRead,
         ViewerForward, ViewerReadFails, ViewerGone,
         ViewerClose, ViewerDrops, ViewerHangsUp, TypeOK, Sockets
    <3> QED BY <3>1, <3>2
  <2>5. \A u \in Viewers : vpc'[u] \in InSession =>
            vpc[u] \in InSession /\ (vpc[u] = "leave" => vpc'[u] = "leave")
    BY <1>0, <2>2
  <2>6. \A u \in Viewers : vpc'[u] \in InSession /\ sock[u] # "open" => sock'[u] # "open"
    BY <2>2, <2>3, <2>4
  <2>7. OneServedViewer'
    BY <1>0, <1>2, <2>1, <2>5, <2>6, OneServedKept
  <2>8. SlotIsReleasable'
    BY <1>0, <2>1, <2>2 DEF SlotIsReleasable, TypeOK
  <2> QED BY <1>1, <2>7, <2>8
<1> QED BY <1>3, <1>4, <1>5

LEMMA InvShutdown ==
  ASSUME Inv, ShutdownNext
  PROVE  (SlotIsReleasable /\ OnlineIsServed /\ OneServedViewer)'
<1> USE GoHubAssumption DEF Inv
<1>0. vpc' = vpc /\ dpc' = dpc /\ dtask' = dtask
  BY DEF ShutdownNext, ShutdownTake, ShutdownClose, ShutdownDown, devVars, viewVars
<1>1. \A u \in Viewers : BeingEvicted(u) => BeingEvicted(u)'
  BY <1>0 DEF BeingEvicted
<1>2. CASE ShutdownTake
  <2>1. /\ conn' = None /\ viewer' = None /\ sock' = sock
        /\ victims' = {conn, viewer} \ {None} /\ phase = "run"
    BY <1>2 DEF ShutdownTake, Victims
  <2>2. victims = {}
    BY <2>1 DEF TypeOK
  <2> QED
    BY <1>0, <1>1, <2>1, <2>2
    DEF SlotIsReleasable, OnlineIsServed, OneServedViewer, TypeOK
<1>3. ASSUME NEW c \in Sockets, ShutdownClose(c)
      PROVE  (SlotIsReleasable /\ OnlineIsServed /\ OneServedViewer)'
  <2>1. conn' = conn /\ viewer' = viewer
    BY <1>3 DEF ShutdownClose, hubVars
  <2>2. \A e \in Sockets : sock[e] # "open" => sock'[e] # "open"
    BY <1>3, AfterCloseType DEF ShutdownClose, TypeOK
  <2>3. \A e \in victims : e \in victims' \/ sock'[e] # "open"
    BY <1>3, AfterCloseType DEF ShutdownClose, TypeOK
  <2> QED
    BY <1>0, <1>1, <2>1, <2>2, <2>3
    DEF SlotIsReleasable, OnlineIsServed, OneServedViewer, Sockets
<1>4. CASE ShutdownDown
  BY <1>0, <1>1, <1>4
  DEF ShutdownDown, hubVars, SlotIsReleasable, OnlineIsServed, OneServedViewer
<1> QED BY <1>2, <1>3, <1>4 DEF ShutdownNext

LEMMA InvStep == Inv /\ [Next]_vars => Inv'
<1> SUFFICES ASSUME Inv, [Next]_vars PROVE Inv'
  OBVIOUS
<1>0. TypeOK'
  BY TypeStep DEF Inv
<1>1. CASE \E d \in Conns : DeviceNext(d)
  BY <1>0, <1>1, InvDevice DEF Inv
<1>2. CASE \E v \in Viewers : ViewerNext(v)
  BY <1>0, <1>2, InvViewer DEF Inv
<1>3. CASE ShutdownNext
  BY <1>0, <1>3, InvShutdown DEF Inv
<1>4. CASE UNCHANGED vars
  BY <1>0, <1>4 DEF Inv, vars, SlotIsReleasable, OnlineIsServed, OneServedViewer,
                    BeingEvicted
<1> QED BY <1>1, <1>2, <1>3, <1>4 DEF Next, Finished

\* The inductive invariant, from which the theorems below follow.
THEOREM Invariance == Spec => []Inv
  BY InvInit, InvStep, PTL DEF Spec

\* The slot is never leaked: whoever holds it is a handler that has its
\* ReleaseViewer still to run.
THEOREM NothingLeaks == Spec => []SlotIsReleasable
<1>1. Inv => SlotIsReleasable
  BY DEF Inv
<1> QED BY <1>1, Invariance, PTL

\* The registered device socket has a handler between its Attach and its Detach:
\* nothing shows as online with nobody reading.
THEOREM OnlineServed == Spec => []OnlineIsServed
<1>1. Inv => OnlineIsServed
  BY DEF Inv
<1> QED BY <1>1, Invariance, PTL

\* Two viewers are never both served.
THEOREM Exclusion == Spec => []OneServedViewer
<1>1. Inv => OneServedViewer
  BY DEF Inv
<1> QED BY <1>1, Invariance, PTL

-------------------------------------------------------------------------------
\* The hub implements ViewerSlot: each step of a handler is a step of the
\* abstract slot, or leaves it alone.

LEMMA SlotInitially == Init => Slot!SlotInit
  BY DEF Init, Slot!SlotInit, InSession, InLoop

\* A step that moves no session and no link across its boundary.
LEMMA SlotStutter ==
  ASSUME viewer' = viewer, (phase = "run")' = (phase = "run"),
         \A u \in Viewers : (vpc'[u] \in InSession) <=> (vpc[u] \in InSession),
         \A e \in Conns : (dpc'[e] \in InLoop) <=> (dpc[e] \in InLoop)
  PROVE  UNCHANGED Slot!slotVars
  BY DEF Slot!slotVars

LEMMA SlotDevice ==
  ASSUME TypeOK, NEW d \in Conns, DeviceNext(d)
  PROVE  [Slot!SlotNext]_(Slot!slotVars)
<1> USE DEF TypeOK
<1>0. /\ vpc' = vpc /\ phase' = phase
      /\ \A e \in Conns : e # d => dpc'[e] = dpc[e]
  BY DEF DeviceNext, DeviceStep, DeviceConnect, DeviceAttach, DeviceRead, DeviceForward,
     DeviceDetach, DeviceEvict, DeviceEvictClose, DeviceClose, DeviceHandles, DeviceSays,
     DeviceDrops, DeviceHangsUp, DeviceLosesLink, devVars, viewVars, endVars
<1>1. CASE DeviceAttach(d)
  <2>1. viewer' = viewer /\ dpc[d] = "accepted" /\ dpc'[d] = "read"
    BY <1>1 DEF DeviceAttach
  <2>2. Slot!LinkUp(d)
    BY <1>0, <2>1 DEF Slot!LinkUp, InLoop
  <2> QED BY <2>2 DEF Slot!SlotNext
<1>2. CASE DeviceDetach(d)
  <2>1. viewer' = None /\ dpc[d] = "read" /\ dpc'[d] \in {"close", "evict"}
    BY <1>2 DEF DeviceDetach
  <2>2. Slot!LinkDown(d)
    BY <1>0, <2>1 DEF Slot!LinkDown, InLoop
  <2> QED BY <2>2 DEF Slot!SlotNext
<1>3. CASE ~DeviceAttach(d) /\ ~DeviceDetach(d)
  <2>1. viewer' = viewer
    BY <1>3 DEF DeviceNext, DeviceStep, DeviceConnect, DeviceRead, DeviceForward,
       DeviceEvict, DeviceEvictClose, DeviceClose, DeviceHandles, DeviceSays,
       DeviceDrops, DeviceHangsUp, DeviceLosesLink, hubVars
  <2>2. dpc'[d] \in InLoop <=> dpc[d] \in InLoop
    BY <1>3 DEF DeviceNext, DeviceStep, DeviceConnect, DeviceRead, DeviceForward,
       DeviceEvict, DeviceEvictClose, DeviceClose, DeviceHandles, DeviceSays,
       DeviceDrops, DeviceHangsUp, DeviceLosesLink, devVars, InLoop
  <2> QED BY <1>0, <2>1, <2>2, SlotStutter
<1> QED BY <1>1, <1>2, <1>3

LEMMA SlotViewer ==
  ASSUME TypeOK, NEW v \in Viewers, ViewerNext(v)
  PROVE  [Slot!SlotNext]_(Slot!slotVars)
<1> USE DEF TypeOK
<1>0. /\ dpc' = dpc /\ phase' = phase
      /\ \A u \in Viewers : u # v => vpc'[u] = vpc[u]
  BY DEF ViewerNext, ViewerStep, ViewerConnect, ViewerNotFound, ViewerOnline,
     ViewerClaim, ViewerBusy, ViewerRefuse, ViewerGreet, ViewerRead,
     ViewerForward, ViewerReadFails, ViewerRelease, ViewerGone, ViewerGoneSend,
     ViewerClose, ViewerDrops, ViewerHangsUp, devVars, viewVars, endVars
<1>1. CASE ViewerClaim(v)
  <2>1. viewer = None /\ viewer' = v /\ vpc[v] = "claim" /\ vpc'[v] = "greet"
    BY <1>1 DEF ViewerClaim, SlotIsFree
  <2>2. Slot!Take(v)
    BY <1>0, <2>1 DEF Slot!Take, InSession
  <2> QED BY <2>2 DEF Slot!SlotNext
<1>2. CASE ViewerRelease(v)
  <2>1. viewer' = Released(v) /\ vpc[v] = "leave" /\ vpc'[v] = "gone"
    BY <1>2 DEF ViewerRelease
  <2>2. Slot!Leave(v)
    BY <1>0, <2>1 DEF Slot!Leave, Released, InSession
  <2> QED BY <2>2 DEF Slot!SlotNext
<1>3. CASE ~ViewerClaim(v) /\ ~ViewerRelease(v)
  <2>1. viewer' = viewer
    BY <1>3 DEF ViewerNext, ViewerStep, ViewerConnect, ViewerNotFound,
       ViewerOnline, ViewerBusy, ViewerRefuse, ViewerGreet, ViewerRead,
       ViewerForward, ViewerReadFails, ViewerGone, ViewerGoneSend,
       ViewerClose, ViewerDrops, ViewerHangsUp, hubVars
  <2>2. vpc'[v] \in InSession <=> vpc[v] \in InSession
    BY <1>3 DEF ViewerNext, ViewerStep, ViewerConnect, ViewerNotFound,
       ViewerOnline, ViewerBusy, ViewerRefuse, ViewerGreet, ViewerRead,
       ViewerForward, ViewerReadFails, ViewerGone, ViewerGoneSend,
       ViewerClose, ViewerDrops, ViewerHangsUp, viewVars, InSession
  <2> QED BY <1>0, <2>1, <2>2, SlotStutter
<1> QED BY <1>1, <1>2, <1>3

LEMMA SlotShutdown ==
  ASSUME ShutdownNext
  PROVE  [Slot!SlotNext]_(Slot!slotVars)
<1>0. vpc' = vpc /\ dpc' = dpc
  BY DEF ShutdownNext, ShutdownTake, ShutdownClose, ShutdownDown, devVars, viewVars
<1>1. CASE ShutdownTake
  <2>1. Slot!Shutdown
    BY <1>0, <1>1 DEF ShutdownTake, Slot!Shutdown
  <2> QED BY <2>1 DEF Slot!SlotNext
<1>2. CASE ~ShutdownTake
  <2>1. viewer' = viewer /\ phase' \in {phase, "down"} /\ (phase' # phase => phase # "run")
    BY <1>2 DEF ShutdownNext, ShutdownClose, ShutdownDown, hubVars
  <2> QED BY <1>0, <2>1, SlotStutter
<1> QED BY <1>1, <1>2

LEMMA SlotStep == TypeOK /\ [Next]_vars => [Slot!SlotNext]_(Slot!slotVars)
<1> SUFFICES ASSUME TypeOK, [Next]_vars PROVE [Slot!SlotNext]_(Slot!slotVars)
  OBVIOUS
<1>1. CASE \E d \in Conns : DeviceNext(d)
  BY <1>1, SlotDevice
<1>2. CASE \E v \in Viewers : ViewerNext(v)
  BY <1>2, SlotViewer
<1>3. CASE ShutdownNext
  BY <1>3, SlotShutdown
<1>4. CASE UNCHANGED vars
  BY <1>4, SlotStutter DEF vars
<1> QED BY <1>1, <1>2, <1>3, <1>4 DEF Next, Finished

\* The Go hub implements the exactly-one-viewer slot: only a free slot is
\* taken, a leaving session frees no slot but its own, and only the end of a
\* device connection or the shutdown evicts.
THEOREM Refinement == Spec => ImplementsViewerSlot
<1>1. Init => Slot!SlotInit
  BY SlotInitially
<1>2. TypeOK /\ [Next]_vars => [Slot!SlotNext]_(Slot!slotVars)
  BY SlotStep
<1> QED
  BY <1>1, <1>2, TypeCorrect, PTL DEF Spec, ImplementsViewerSlot, Slot!SlotSpec

-------------------------------------------------------------------------------
\* What takes device d offline in one step.
OwnerStep(d) ==
  conn = d /\ conn' # d =>
    \/ dpc[d] = "read" /\ dpc'[d] \in {"evict", "close"}
    \/ conn' # None
    \/ phase' # phase

LEMMA OwnerDevice ==
  ASSUME TypeOK, NEW d \in Conns, NEW e \in Conns, DeviceNext(e)
  PROVE  OwnerStep(d)
<1>1. CASE DeviceAttach(e)
  BY <1>1, GoHubAssumption DEF DeviceAttach, OwnerStep
<1>2. CASE DeviceDetach(e)
  <2>1. CASE d = e
    BY <1>2, <2>1 DEF DeviceDetach, OwnerStep, TypeOK
  <2>2. CASE d # e
    BY <1>2, <2>2 DEF DeviceDetach, Detached, OwnerStep
  <2> QED BY <2>1, <2>2
<1>3. CASE ~DeviceAttach(e) /\ ~DeviceDetach(e)
  <2>1. conn' = conn
    BY <1>3 DEF DeviceNext, DeviceStep, DeviceConnect, DeviceRead, DeviceForward,
       DeviceEvict, DeviceEvictClose, DeviceClose, DeviceHandles, DeviceSays,
       DeviceDrops, DeviceHangsUp, DeviceLosesLink, hubVars
  <2> QED BY <2>1 DEF OwnerStep
<1> QED BY <1>1, <1>2, <1>3

LEMMA OwnerOther ==
  ASSUME NEW d \in Conns,
         \/ \E v \in Viewers : ViewerNext(v)
         \/ ShutdownNext \/ UNCHANGED vars
  PROVE  OwnerStep(d)
<1>1. CASE ShutdownTake
  BY <1>1 DEF ShutdownTake, OwnerStep
<1>2. CASE ~ShutdownTake
  <2>1. conn' = conn
    BY <1>2 DEF ViewerNext, ViewerStep, ViewerConnect, ViewerNotFound, ViewerOnline,
       ViewerClaim, ViewerBusy, ViewerRefuse, ViewerGreet, ViewerRead,
       ViewerForward, ViewerReadFails, ViewerRelease, ViewerGone, ViewerGoneSend,
       ViewerClose, ViewerDrops, ViewerHangsUp, ShutdownNext, ShutdownClose,
       ShutdownDown, hubVars, vars
  <2> QED BY <2>1 DEF OwnerStep
<1> QED BY <1>1, <1>2

\* The late Detach of an old connection never takes the newer one offline.
THEOREM OwnerOnly == Spec => OnlyOwnerTakesOffline
<1>1. TypeOK /\ [Next]_vars => \A d \in Conns : OwnerStep(d)
  BY OwnerDevice, OwnerOther DEF Next, Finished
<1>2. TypeOK /\ [Next]_vars => [\A d \in Conns : OwnerStep(d)]_vars
  BY <1>1
<1>3. OnlyOwnerTakesOffline <=> [][\A d \in Conns : OwnerStep(d)]_vars
  BY PTL DEF OnlyOwnerTakesOffline, OwnerStep
<1> QED
  BY <1>2, <1>3, TypeCorrect, PTL DEF Spec
===============================================================================
