---------------------------- MODULE DeviceHubProofs ----------------------------
(***************************************************************************)
(* Theorems about DeviceHub, for any number of connections, sessions and   *)
(* redeploys, with or without failing D1 queries where nothing is said.    *)
(***************************************************************************)
EXTENDS DeviceHub, TLAPS

SockStates == {"none", "open", "lost", "dying", "gone"}
JoinStates == {"no", "ensure", "upsert", "done", "failed"}
HeardSets  == SUBSET [type : HeardTypes, session : Viewers]

\* What a step does to the sockets: those of a set begin to close.
LEMMA DyingType ==
  ASSUME sock \in [Sockets -> SockStates], NEW cs
  PROVE  /\ Dying(cs) \in [Sockets -> SockStates]
         /\ \A c \in Sockets : Dying(cs)[c] = sock[c] \/ (Present(c) /\ Dying(cs)[c] = "dying")
  BY DEF Dying, SockStates

\* Messages to viewers are well typed, and add only messages of that type.
LEMMA ToldType ==
  ASSUME heard \in [Viewers -> HeardSets], NEW vs, NEW type \in HeardTypes
  PROVE  /\ AllTold(vs, type) \in [Viewers -> HeardSets]
         /\ \A v \in Viewers : AllTold(vs, type)[v] \subseteq heard[v] \union {Heard(type, v)}
         /\ \A v \in Viewers : sock[v] = "none" => AllTold(vs, type)[v] = heard[v]
         /\ \A v \in Viewers : heard[v] \subseteq AllTold(vs, type)[v]
<1>1. \A v \in Viewers : Heard(type, v) \in [type : HeardTypes, session : Viewers]
  BY DEF Heard
<1>2. \A v \in Viewers : Told(v, type) \in HeardSets
  BY <1>1 DEF Told, HeardSets
<1> QED BY <1>2 DEF AllTold, Told

\* The effect of Register on each variable, for a step that may have opened
\* the socket.
LEMMA RegisterType ==
  ASSUME TypeOK, NEW d \in Conns, Register(d)
  PROVE  /\ sock' \in [Sockets -> SockStates]
         /\ stale' \subseteq Conns
         /\ heard' \in [Viewers -> HeardSets]
         /\ sid' = None /\ ice' = None /\ viewIdle' = FALSE /\ devIdle' = FALSE
         /\ joining' \in [Conns -> JoinStates]
<1>1. sock \in [Sockets -> SockStates] /\ heard \in [Viewers -> HeardSets]
  BY DEF TypeOK, SockStates, HeardSets
<1>2. Dying(Superseded(d) \union ViewerSockets) \in [Sockets -> SockStates]
  BY <1>1, DyingType
<1>3. sock' \in [Sockets -> SockStates]
  BY <1>2 DEF Register, SockStates
<1>4. heard' \in [Viewers -> HeardSets]
  BY <1>1, ToldType DEF Register, HeardTypes
<1>5. stale' \subseteq Conns
  BY DEF Register, Superseded, ActiveDevices, TypeOK
<1>6. joining' \in [Conns -> JoinStates]
  BY DEF Register, TypeOK, JoinStates
<1> QED BY <1>3, <1>4, <1>5, <1>6 DEF Register, ClearViewerState

LEMMA TypeInit == Init => TypeOK
<1> SUFFICES ASSUME Init PROVE TypeOK
  OBVIOUS
<1>1. dbReady \in BOOLEAN
  BY DeviceHubAssumption, Zenon DEF Init
<1>2. offer \in [from : Viewers \union {None}, creds : Viewers \union {None}]
  BY DEF Init, NoOffer
<1>3. /\ stale \subseteq Conns /\ minting \subseteq Viewers
      /\ restarts \in 0..MaxRestarts
  BY DeviceHubAssumption DEF Init
<1>4. /\ heard \in [Viewers -> SUBSET [type : HeardTypes, session : Viewers]]
      /\ session \in [Conns -> Viewers \union {None}]
      /\ reply \in [Conns -> Viewers \union {None}]
  BY DEF Init
<1> QED BY <1>1, <1>2, <1>3, <1>4 DEF Init, TypeOK

\* Steps of a device, of its handlers and of its link preserve the types.
LEMMA TypeDevice ==
  ASSUME TypeOK, NEW d \in Conns, DeviceNext(d)
  PROVE  TypeOK'
<1> USE DeviceHubAssumption DEF TypeOK, claimVars, taskVars, peerVars
<1>1. CASE DeviceConnect(d)
  <2>1. CASE dbReady
    <3>1. Register(d)
      BY <1>1, <2>1 DEF DeviceConnect
    <3> QED BY <1>1, <3>1, RegisterType DEF DeviceConnect, SockStates, JoinStates, HeardSets
  <2>2. CASE ~dbReady
    BY <1>1, <2>2 DEF DeviceConnect
  <2> QED BY <2>1, <2>2
<1>2. CASE DatabaseEnsured(d)
  BY <1>2, RegisterType DEF DatabaseEnsured, SockStates, JoinStates, HeardSets
<1>3. CASE UpsertDone(d)
  BY <1>3 DEF UpsertDone
<1>4. CASE JoinFails(d)
  BY <1>4 DEF JoinFails
<1>5. CASE DeviceAnswer(d)
  <2>1. Heard("answer", reply[d]) \in [type : HeardTypes, session : Viewers]
    BY <1>5 DEF DeviceAnswer, Heard, HeardTypes
  <2> QED BY <1>5, <2>1 DEF DeviceAnswer
<1>6. CASE DevicePing(d)
  BY <1>6 DEF DevicePing
<1>7. CASE DeviceCloses(d)
  <2>1. Dying(ViewerSockets) \in [Sockets -> SockStates]
    BY DyingType DEF SockStates
  <2>2. AllTold(ViewerSockets, "peer_gone") \in [Viewers -> HeardSets]
    BY ToldType DEF HeardSets, HeardTypes
  <2>3. sock' \in [Sockets -> SockStates]
    BY <1>7, <2>1 DEF DeviceCloses, SockStates
  <2>4. heard' \in [Viewers -> HeardSets]
    BY <1>7, <2>2 DEF DeviceCloses, HeardSets
  <2> QED BY <1>7, <2>3, <2>4 DEF DeviceCloses, ClearViewerState, SockStates, HeardSets
<1>8. CASE OfflineDone(d)
  BY <1>8 DEF OfflineDone
<1>9. CASE OfflineFails(d)
  BY <1>9 DEF OfflineFails
<1>10. CASE DeviceReplies(d)
  BY <1>10 DEF DeviceReplies
<1>11. CASE DeviceDrops(d)
  BY <1>11 DEF DeviceDrops, Sockets
<1> QED
  BY <1>1, <1>2, <1>3, <1>4, <1>5, <1>6, <1>7, <1>8, <1>9, <1>10, <1>11 DEF DeviceNext

\* Steps of a viewing session preserve the types.
LEMMA TypeViewer ==
  ASSUME TypeOK, NEW v \in Viewers, ViewerNext(v)
  PROVE  TypeOK'
<1> USE DeviceHubAssumption DEF TypeOK, claimVars, taskVars, peerVars
<1>1. CASE ViewerRefused(v)
  <2>1. {Heard("error", v)} \in HeardSets
    BY DEF Heard, HeardSets, HeardTypes
  <2> QED BY <1>1, <2>1 DEF ViewerRefused, HeardSets, Sockets
<1>2. CASE ViewerClaims(v)
  BY <1>2 DEF ViewerClaims, Claims, Sockets
<1>3. CASE Minted(v)
  <2>1. heard' \in [Viewers -> HeardSets]
    BY <1>3, ToldType DEF Minted, HeardSets, HeardTypes
  <2> QED BY <1>3, <2>1 DEF Minted, HeardSets
<1>4. CASE ViewerOffer(v)
  <2>1. PICK d \in ActiveDevices : session' = [session EXCEPT ![d] = v]
    BY <1>4 DEF ViewerOffer
  <2>2. session' \in [Conns -> Viewers \union {None}]
    BY <2>1
  <2>3. offer' \in [from : Viewers \union {None}, creds : Viewers \union {None}]
    BY <1>4 DEF ViewerOffer
  <2> QED BY <1>4, <2>2, <2>3 DEF ViewerOffer
<1>5. CASE ViewerPing(v)
  BY <1>5 DEF ViewerPing
<1>6. CASE ViewerCloses(v)
  <2>1. session' \in [Conns -> Viewers \union {None}]
    BY <1>6 DEF ViewerCloses, TellDevice
  <2> QED BY <1>6, <2>1 DEF ViewerCloses, ClearViewerState, Sockets
<1>7. CASE ViewerDrops(v)
  BY <1>7 DEF ViewerDrops, Sockets
<1> QED BY <1>1, <1>2, <1>3, <1>4, <1>5, <1>6, <1>7 DEF ViewerNext

\* The alarm, time and the platform preserve the types.
LEMMA TypeOther ==
  ASSUME TypeOK,
         Alarm \/ TouchDone \/ TouchFails \/ DeviceIdles \/ ViewerIdles \/ Restart
  PROVE  TypeOK'
<1> USE DeviceHubAssumption DEF TypeOK, claimVars, taskVars, peerVars
<1>0. \A cs : Dying(cs) \in [Sockets -> {"none", "open", "lost", "dying", "gone"}]
  BY DyingType DEF SockStates
<1>1. CASE AlarmWithoutDevice
  BY <1>0, <1>1 DEF AlarmWithoutDevice
<1>2. CASE AlarmKillsDevice
  <2>1. PICK d \in ActiveDevices : sock' = Dying({d})
    BY <1>2 DEF AlarmKillsDevice
  <2> QED BY <1>0, <1>2, <2>1 DEF AlarmKillsDevice
<1>3. CASE AlarmTouches
  BY <1>3 DEF AlarmTouches
<1>4. CASE TouchDone
  BY <1>0, <1>4 DEF TouchDone
<1>5. CASE TouchFails
  BY <1>5 DEF TouchFails
<1>6. CASE DeviceIdles \/ ViewerIdles
  BY <1>6 DEF DeviceIdles, ViewerIdles
<1>7. CASE Restart
  <2>1. alarm' \in BOOLEAN
    BY <1>7, Zenon DEF Restart
  <2>2. sock' \in [Sockets -> {"none", "open", "lost", "dying", "gone"}]
    BY <1>7 DEF Restart
  <2>3. /\ joining' \in [Conns -> {"no", "ensure", "upsert", "done", "failed"}]
        /\ leaving' \in [Conns -> {"no", "offline", "done"}]
    BY <1>7 DEF Restart
  <2>4. /\ session' \in [Conns -> Viewers \union {None}]
        /\ reply' \in [Conns -> Viewers \union {None}]
    BY <1>7 DEF Restart
  <2>5. restarts < MaxRestarts /\ restarts' = restarts + 1 /\ minting' = {}
    BY <1>7, Zenon DEF Restart
  <2>6. touching' = FALSE /\ alarmSid' = None
    BY <1>7, Zenon DEF Restart
  <2>7. UNCHANGED <<stale, claimVars, devIdle, dbReady, row, heard, offer>>
    BY <1>7 DEF Restart
  <2>8. restarts' \in 0..MaxRestarts
    BY <2>5
  <2> QED BY <2>1, <2>2, <2>3, <2>4, <2>5, <2>6, <2>7, <2>8
<1> QED BY <1>1, <1>2, <1>3, <1>4, <1>5, <1>6, <1>7 DEF Alarm

LEMMA TypeStutter == TypeOK /\ UNCHANGED vars => TypeOK'
  BY DEF TypeOK, vars

LEMMA TypeStep == TypeOK /\ [Next]_vars => TypeOK'
  BY TypeDevice, TypeViewer, TypeOther, TypeStutter DEF Next, Finished

\* Every variable keeps its type, for any constants.
THEOREM TypeCorrect == Spec => []TypeOK
  BY TypeInit, TypeStep, PTL DEF Spec

-------------------------------------------------------------------------------
(* The inductive invariant.  SlotIsBacked is inductive on its own; what the *)
(* alarm needs is that a registered socket is the only active one, which in *)
(* turn needs that nothing registers before the schema check is through.    *)

Registered(d) == joining[d] \in {"upsert", "done"}

SoleRegistered ==
  \A d, e \in ActiveDevices : Registered(e) => d = e

RegisteredMigrated ==
  \A d \in Conns : Registered(d) => dbReady

\* The claim is never of a session that is yet to come.
ClaimantCame == sid # None => sock[sid] # "none"

Inv == TypeOK /\ SlotIsBacked /\ ClaimHasDevice /\ SoleRegistered
         /\ RegisteredMigrated /\ ClaimantCame

LEMMA InvInit == Init => Inv
<1> SUFFICES ASSUME Init PROVE Inv
  OBVIOUS
<1>1. TypeOK
  BY TypeInit
<1>2. SlotIsBacked /\ ClaimHasDevice /\ ClaimantCame
  BY DEF Init, SlotIsBacked, ClaimHasDevice, ClaimantCame
<1>3. SoleRegistered /\ RegisteredMigrated
  BY DEF Init, SoleRegistered, RegisteredMigrated, Registered, ActiveDevices
<1> QED BY <1>1, <1>2, <1>3 DEF Inv

\* Sockets that begin to close are still present.
LEMMA DyingPresent ==
  ASSUME TypeOK, NEW cs, NEW c \in Sockets
  PROVE  Dying(cs)[c] \in {"open", "lost", "dying"} <=> Present(c)
  BY DEF Dying, Present, TypeOK

\* After Register the connection, if its socket is present and not stale, is
\* the one active device.
LEMMA RegisterActive ==
  ASSUME TypeOK, NEW d \in Conns, Register(d),
         joining[d] = "no" => sock[d] = "none"
  PROVE  /\ ActiveDevices' \subseteq {d}
         /\ \A e \in Conns : Registered(e)' <=> Registered(e) \/ e = d
<1>1. \A e \in Conns : e # d => (Present(e)' <=> Present(e))
  BY DyingPresent DEF Register, Present, Sockets
<1>2. \A e \in Conns : e \notin stale' => e = d \/ e \notin ActiveDevices
  BY DEF Register, Superseded
<1>3. ActiveDevices' \subseteq {d}
  BY <1>1, <1>2 DEF ActiveDevices, Register
<1>4. \A e \in Conns : Registered(e)' <=> Registered(e) \/ e = d
  BY DEF Register, Registered, TypeOK
<1> QED BY <1>3, <1>4

\* The invariant survives a step that registers a connection.
LEMMA InvRegister ==
  ASSUME Inv, NEW d \in Conns, Register(d), TypeOK', dbReady',
         joining[d] = "no" => sock[d] = "none"
  PROVE  Inv'
<1>1. SlotIsBacked' /\ ClaimHasDevice' /\ ClaimantCame'
  BY DEF Register, ClearViewerState, SlotIsBacked, ClaimHasDevice, ClaimantCame
<1>2. SoleRegistered'
  BY RegisterActive DEF SoleRegistered, Inv
<1>3. RegisteredMigrated'
  BY DEF RegisteredMigrated
<1> QED BY <1>1, <1>2, <1>3 DEF Inv

\* The invariant survives a step that opens no device socket, registers
\* nothing and leaves the claim alone.
LEMMA InvKept ==
  ASSUME Inv, TypeOK', UNCHANGED <<sid, stale, dbReady, restarts>>,
         \A c \in Sockets : /\ Present(c)' <=> Present(c)
                            /\ sock[c] # "none" => sock'[c] # "none",
         \A d \in Conns : Registered(d)' => Registered(d)
  PROVE  Inv'
<1>1. ActiveDevices' = ActiveDevices
  BY DEF ActiveDevices, Sockets
<1>2. SlotIsBacked'
  BY <1>1 DEF SlotIsBacked, Inv, Sockets, TypeOK
<1>3. ClaimHasDevice'
  BY <1>1 DEF ClaimHasDevice, Inv, Sockets, TypeOK
<1>4. SoleRegistered'
  BY <1>1 DEF SoleRegistered, Inv, ActiveDevices
<1>5. RegisteredMigrated'
  BY DEF RegisteredMigrated, Inv
<1>6. ClaimantCame'
  BY DEF ClaimantCame, Inv, TypeOK, Sockets
<1> QED BY <1>2, <1>3, <1>4, <1>5, <1>6 DEF Inv

LEMMA InvDevice ==
  ASSUME Inv, NEW d \in Conns, DeviceNext(d), TypeOK'
  PROVE  Inv'
<1> USE DeviceHubAssumption DEF claimVars, taskVars, peerVars
<1>1. CASE DeviceConnect(d) /\ dbReady
  BY <1>1, InvRegister DEF DeviceConnect, Register
<1>2. CASE DeviceConnect(d) /\ ~dbReady
  <2>1. \A e \in Conns : ~Registered(e)'
    BY <1>2 DEF DeviceConnect, Registered, Inv, RegisteredMigrated, TypeOK
  <2>2. SoleRegistered' /\ RegisteredMigrated'
    BY <2>1 DEF SoleRegistered, RegisteredMigrated, ActiveDevices
  <2>3. SlotIsBacked'
    BY <1>2 DEF DeviceConnect, SlotIsBacked
  <2>4. ActiveDevices \subseteq ActiveDevices'
    BY <1>2 DEF DeviceConnect, ActiveDevices, Present, Inv, TypeOK, Sockets
  <2>5. ClaimHasDevice' /\ ClaimantCame'
    BY <1>2, <2>4 DEF DeviceConnect, ClaimHasDevice, ClaimantCame, Present, Inv, TypeOK, Sockets
  <2> QED BY <2>2, <2>3, <2>5 DEF Inv
<1>3. CASE DatabaseEnsured(d)
  BY <1>3, InvRegister DEF DatabaseEnsured
<1>4. CASE DeviceCloses(d)
  <2>1. ActiveDevices' \subseteq ActiveDevices
    BY <1>4, DyingPresent DEF DeviceCloses, ActiveDevices, Present, Inv, Sockets, TypeOK
  <2>2. \A e \in Conns : Registered(e)' <=> Registered(e)
    BY <1>4 DEF DeviceCloses, Registered
  <2>3. SoleRegistered' /\ RegisteredMigrated'
    BY <1>4, <2>1, <2>2 DEF SoleRegistered, RegisteredMigrated, Inv, DeviceCloses, ActiveDevices
  <2>4. CASE RunsDetach(d)
    <3>1. sid' = None
      BY <1>4, <2>4 DEF DeviceCloses, ClearViewerState
    <3> QED BY <3>1, <2>3 DEF SlotIsBacked, ClaimHasDevice, ClaimantCame, Inv
  <2>5. CASE ~RunsDetach(d)
    <3>1. UNCHANGED <<sid, dbReady, restarts>>
      BY <1>4, <2>5 DEF DeviceCloses
    <3>2. ActiveDevices' = ActiveDevices
      BY <1>4, <2>5 DEF DeviceCloses, RunsDetach, ActiveDevices, Present, Inv, TypeOK, Sockets
    <3>3. \A v \in Viewers : Present(v)' <=> Present(v)
      BY <1>4, <2>5 DEF DeviceCloses, Present, Inv, TypeOK, Sockets
    <3>4. SlotIsBacked'
      BY <3>1, <3>2, <3>3 DEF SlotIsBacked, Inv, TypeOK
    <3>5. ClaimHasDevice' /\ ClaimantCame'
      BY <1>4, <2>5, <3>1, <3>2, <3>3
      DEF DeviceCloses, ClaimHasDevice, ClaimantCame, Inv, TypeOK, Sockets
    <3> QED BY <3>4, <3>5, <2>3 DEF Inv
  <2> QED BY <2>4, <2>5
<1>5. CASE DeviceDrops(d)
  BY <1>5, InvKept DEF DeviceDrops, Present, Registered, Inv, TypeOK, Sockets
<1>6. CASE UpsertDone(d) \/ JoinFails(d)
  <2>1. \A e \in Conns : Registered(e)' => Registered(e)
    BY <1>6 DEF UpsertDone, JoinFails, Registered, Inv, TypeOK
  <2>2. UNCHANGED <<sock, sid, stale, dbReady, restarts>>
    BY <1>6 DEF UpsertDone, JoinFails
  <2> QED BY <2>1, <2>2, InvKept DEF Present
<1>7. CASE \/ DeviceAnswer(d) \/ DevicePing(d) \/ OfflineDone(d)
           \/ OfflineFails(d) \/ DeviceReplies(d)
  <2>1. UNCHANGED <<sock, sid, stale, dbReady, restarts, joining>>
    BY <1>7 DEF DeviceAnswer, DevicePing, OfflineDone, OfflineFails, DeviceReplies
  <2> QED BY <2>1, InvKept DEF Present, Registered
<1> QED
  BY <1>1, <1>2, <1>3, <1>4, <1>5, <1>6, <1>7 DEF DeviceNext

LEMMA InvViewer ==
  ASSUME Inv, NEW v \in Viewers, ViewerNext(v), TypeOK'
  PROVE  Inv'
<1> USE DeviceHubAssumption DEF claimVars, taskVars, peerVars
<1>1. \A d \in Conns : Registered(d)' <=> Registered(d)
  BY DEF ViewerNext, ViewerRefused, ViewerClaims, Minted, ViewerOffer, ViewerPing,
     ViewerCloses, ViewerDrops, Registered
<1>2. UNCHANGED <<stale, dbReady, restarts>>
  BY DEF ViewerNext, ViewerRefused, ViewerClaims, Minted, ViewerOffer, ViewerPing,
     ViewerCloses, ViewerDrops
<1>3. \A c \in Sockets : c # v => (Present(c)' <=> Present(c))
  BY DEF ViewerNext, ViewerRefused, ViewerClaims, Minted, ViewerOffer, ViewerPing,
     ViewerCloses, ViewerDrops, Present, Inv, TypeOK
<1>4. ActiveDevices' = ActiveDevices
  BY <1>2, <1>3 DEF ActiveDevices, Sockets
<1>5. SoleRegistered' /\ RegisteredMigrated'
  BY <1>1, <1>2, <1>4 DEF SoleRegistered, RegisteredMigrated, Inv, ActiveDevices
<1>6. SlotIsBacked' /\ ClaimHasDevice' /\ ClaimantCame'
  <2>1. CASE ViewerClaims(v)
    BY <1>4, <2>1 DEF ViewerClaims, Claims, SlotIsBacked, ClaimHasDevice, ClaimantCame, Present, Inv,
       TypeOK, Sockets
  <2>2. CASE ViewerCloses(v)
    BY <1>2, <1>3, <1>4, <2>2 DEF ViewerCloses, HoldsClaim, ClearViewerState,
       SlotIsBacked, ClaimHasDevice, ClaimantCame, Inv, TypeOK, Sockets
  <2>3. CASE ViewerRefused(v) \/ ViewerDrops(v)
    <3>1. sid' = sid /\ Present(v)' /\ sock'[v] # "none" /\ (sid = v => Present(v))
      BY <2>3 DEF ViewerRefused, ViewerDrops, Present, ClaimantCame, Inv, TypeOK, Sockets
    <3>2. \A c \in Sockets : c # v => sock'[c] = sock[c]
      BY <2>3 DEF ViewerRefused, ViewerDrops, Inv, TypeOK
    <3> QED BY <1>2, <1>3, <1>4, <3>1, <3>2 DEF SlotIsBacked, ClaimHasDevice, ClaimantCame, Inv, TypeOK, Sockets
  <2>4. CASE Minted(v) \/ ViewerOffer(v) \/ ViewerPing(v)
    <3>1. UNCHANGED <<sid, sock>>
      BY <2>4 DEF Minted, ViewerOffer, ViewerPing
    <3> QED BY <1>2, <1>4, <3>1 DEF SlotIsBacked, ClaimHasDevice, ClaimantCame, Present, Inv
  <2> QED BY <2>1, <2>2, <2>3, <2>4 DEF ViewerNext
<1> QED BY <1>5, <1>6 DEF Inv

LEMMA InvOther ==
  ASSUME Inv, TypeOK',
         Alarm \/ TouchDone \/ TouchFails \/ DeviceIdles \/ ViewerIdles \/ Restart
  PROVE  Inv'
<1> USE DeviceHubAssumption DEF claimVars, taskVars, peerVars
<1>1. CASE Alarm \/ TouchDone
  <2>1. PICK cs : sock' = Dying(cs) \/ sock' = sock
    BY <1>1 DEF Alarm, AlarmWithoutDevice, AlarmKillsDevice, AlarmTouches, TouchDone
  <2>2. \A c \in Sockets : /\ Present(c)' <=> Present(c)
                           /\ sock[c] # "none" => sock'[c] # "none"
    BY <2>1, DyingPresent DEF Present, Dying, Inv
  <2>3. UNCHANGED <<sid, stale, dbReady, restarts, joining>>
    BY <1>1 DEF Alarm, AlarmWithoutDevice, AlarmKillsDevice, AlarmTouches, TouchDone
  <2> QED BY <2>2, <2>3, InvKept DEF Registered
<1>2. CASE TouchFails \/ DeviceIdles \/ ViewerIdles
  <2>1. UNCHANGED <<sock, sid, stale, dbReady, restarts, joining>>
    BY <1>2 DEF TouchFails, DeviceIdles, ViewerIdles
  <2> QED BY <2>1, InvKept DEF Present, Registered
<1>3. CASE Restart
  <2>1. ActiveDevices' = {}
    BY <1>3 DEF Restart, ActiveDevices, Present, Sockets
  <2>2. \A d \in Conns : Registered(d)' => Registered(d)
    BY <1>3 DEF Restart, Registered
  <2>3. restarts' # 0 /\ dbReady' = dbReady /\ sid' = sid
    BY <1>3 DEF Restart, Inv, TypeOK
  <2>4. \A c \in Sockets : ~Present(c)' /\ (sock[c] # "none" => sock'[c] # "none")
    BY <1>3 DEF Restart, Present, Inv, TypeOK
  <2>5. ClaimHasDevice' /\ ClaimantCame'
    BY <2>3, <2>4 DEF ClaimHasDevice, ClaimantCame, Inv, TypeOK, Sockets
  <2> QED BY <2>1, <2>2, <2>3, <2>5 DEF Inv, SlotIsBacked, SoleRegistered, RegisteredMigrated
<1> QED BY <1>1, <1>2, <1>3

LEMMA InvStep == Inv /\ [Next]_vars => Inv'
<1> SUFFICES ASSUME Inv, [Next]_vars PROVE Inv'
  OBVIOUS
<1>1. TypeOK'
  BY TypeStep DEF Inv
<1>2. CASE UNCHANGED vars
  BY <1>1, <1>2, InvKept DEF vars, Present, Registered
<1> QED BY <1>1, <1>2, InvDevice, InvViewer, InvOther DEF Next, Finished

\* The stored claim is backed by a socket while a device is registered, across
\* any number of redeploys and failing queries; a claim does not outlive its
\* device; and of the registered device sockets at most one is active.
THEOREM Invariance == Spec => []Inv
  BY InvInit, InvStep, PTL DEF Spec

THEOREM SlotNeverGhost == Spec => []SlotIsBacked
<1>1. Inv => SlotIsBacked
  BY DEF Inv
<1> QED BY <1>1, Invariance, PTL

THEOREM ClaimEndsWithDevice == Spec => []ClaimHasDevice
<1>1. Inv => ClaimHasDevice
  BY DEF Inv
<1> QED BY <1>1, Invariance, PTL

THEOREM SoleDevice == Spec => []OneDeviceSocket
<1>1. Inv => OneDeviceSocket
  BY DEF Inv, SoleRegistered, OneDeviceSocket, Registered
<1> QED BY <1>1, Invariance, PTL

-------------------------------------------------------------------------------
(* The alarm.  An upsert that throws leaves its device without one, so the   *)
(* theorem supposes that D1 queries do not fail.                             *)

LEMMA AlarmDevice ==
  ASSUME Inv, AlarmArmed, NEW d \in Conns, DeviceNext(d), D1Fails = FALSE, TypeOK'
  PROVE  AlarmArmed'
<1> USE DEF claimVars, taskVars, peerVars
<1>1. CASE DeviceConnect(d) /\ dbReady
  <2>1. Register(d) /\ joining'[d] = "upsert" /\ ActiveDevices' \subseteq {d}
    BY <1>1, RegisterActive DEF DeviceConnect, Register, Inv, TypeOK
  <2> QED BY <2>1 DEF AlarmArmed
<1>2. CASE DeviceConnect(d) /\ ~dbReady
  <2>1. \A e \in Conns : joining'[e] # "done"
    BY <1>2 DEF DeviceConnect, Registered, Inv, RegisteredMigrated, TypeOK
  <2> QED BY <2>1 DEF AlarmArmed, ActiveDevices
<1>3. CASE DatabaseEnsured(d)
  <2>1. Register(d) /\ joining'[d] = "upsert" /\ ActiveDevices' \subseteq {d}
    BY <1>3, RegisterActive DEF DatabaseEnsured, Register, Inv, TypeOK
  <2> QED BY <2>1 DEF AlarmArmed
<1>4. CASE UpsertDone(d)
  BY <1>4 DEF UpsertDone, AlarmArmed
<1>5. CASE JoinFails(d) \/ OfflineFails(d)
  BY <1>5 DEF JoinFails, OfflineFails
<1>6. CASE DeviceCloses(d)
  <2>1. \A e \in Conns \ {d} : Present(e)' => Present(e)
    BY <1>6, DyingPresent DEF DeviceCloses, Present, Inv, Sockets, TypeOK
  <2>2. stale' = stale /\ ~Present(d)' /\ UNCHANGED <<joining, touching>>
    BY <1>6, DyingPresent DEF DeviceCloses, Present, Inv, Sockets, TypeOK
  <2>3. ActiveDevices' \subseteq ActiveDevices \ {d}
    BY <2>1, <2>2 DEF ActiveDevices
  <2>4. CASE RunsDetach(d)
    <3>1. d \in ActiveDevices
      BY <1>6, <2>4 DEF DeviceCloses, RunsDetach, ActiveDevices, Present
    <3>2. \A e \in ActiveDevices' : joining'[e] # "done"
      BY <2>2, <2>3, <3>1 DEF Inv, SoleRegistered, Registered
    <3> QED BY <3>2 DEF AlarmArmed
  <2>5. CASE ~RunsDetach(d)
    <3>1. alarm' = alarm /\ sock' = [sock EXCEPT ![d] = "gone"]
      BY <1>6, <2>5 DEF DeviceCloses
    <3>2. \A e \in ActiveDevices' : e \in ActiveDevices /\ sock'[e] = sock[e]
      BY <2>3, <3>1 DEF Inv, TypeOK, ActiveDevices, Sockets
    <3> QED BY <2>2, <3>1, <3>2 DEF AlarmArmed
  <2> QED BY <2>4, <2>5
<1>7. CASE DeviceDrops(d)
  <2>1. \A e \in ActiveDevices' : e \in ActiveDevices /\ (sock[e] = "dying" => sock'[e] = "dying")
    BY <1>7 DEF DeviceDrops, ActiveDevices, Present, Inv, TypeOK, Sockets
  <2> QED BY <1>7, <2>1 DEF DeviceDrops, AlarmArmed
<1>8. CASE \/ DeviceAnswer(d) \/ DevicePing(d) \/ OfflineDone(d) \/ DeviceReplies(d)
  <2>1. UNCHANGED <<sock, stale, joining, alarm, touching>>
    BY <1>8 DEF DeviceAnswer, DevicePing, OfflineDone, DeviceReplies
  <2> QED BY <2>1 DEF AlarmArmed, ActiveDevices, Present
<1> QED BY <1>1, <1>2, <1>3, <1>4, <1>5, <1>6, <1>7, <1>8 DEF DeviceNext

LEMMA AlarmViewer ==
  ASSUME Inv, AlarmArmed, NEW v \in Viewers, ViewerNext(v)
  PROVE  AlarmArmed'
<1>1. UNCHANGED <<stale, joining, alarm, touching>>
  BY DEF ViewerNext, ViewerRefused, ViewerClaims, Minted, ViewerOffer, ViewerPing,
     ViewerCloses, ViewerDrops, claimVars, taskVars, peerVars
<1>2. \A d \in Conns : sock'[d] = sock[d]
  BY DeviceHubAssumption DEF ViewerNext, ViewerRefused, ViewerClaims, Minted, ViewerOffer,
     ViewerPing, ViewerCloses, ViewerDrops, Inv, TypeOK, Sockets, claimVars, taskVars, peerVars
<1> QED BY <1>1, <1>2 DEF AlarmArmed, ActiveDevices, Present

LEMMA AlarmOther ==
  ASSUME Inv, AlarmArmed, D1Fails = FALSE,
         Alarm \/ TouchDone \/ TouchFails \/ DeviceIdles \/ ViewerIdles \/ Restart
  PROVE  AlarmArmed'
<1> USE DEF claimVars, taskVars, peerVars
<1>1. CASE AlarmWithoutDevice
  <2>1. \A d \in Conns : Present(d)' <=> Present(d)
    BY <1>1, DyingPresent DEF AlarmWithoutDevice, Present, Inv, Sockets
  <2>2. ActiveDevices' = {}
    BY <1>1, <2>1 DEF AlarmWithoutDevice, ActiveDevices
  <2> QED BY <2>2 DEF AlarmArmed
<1>2. CASE AlarmKillsDevice
  <2>1. PICK d \in ActiveDevices : sock' = Dying({d})
    BY <1>2 DEF AlarmKillsDevice
  <2>2. sock'[d] = "dying" /\ UNCHANGED <<stale, joining>>
    BY <1>2, <2>1 DEF AlarmKillsDevice, Dying, ActiveDevices, Sockets
  <2>3. \A e \in Conns : Present(e)' <=> Present(e)
    BY <2>1, DyingPresent DEF Present, Inv, Sockets
  <2>4. ActiveDevices' = ActiveDevices
    BY <2>2, <2>3 DEF ActiveDevices
  <2>5. \A e \in ActiveDevices' : joining'[e] = "done" => e = d
    BY <2>1, <2>2, <2>4 DEF Inv, SoleRegistered, Registered
  <2> QED BY <2>2, <2>5 DEF AlarmArmed
<1>3. CASE AlarmTouches
  BY <1>3 DEF AlarmTouches, AlarmArmed
<1>4. CASE TouchDone
  BY <1>4 DEF TouchDone, AlarmArmed
<1>5. CASE TouchFails
  BY <1>5 DEF TouchFails, AlarmArmed
<1>6. CASE DeviceIdles \/ ViewerIdles
  BY <1>6 DEF DeviceIdles, ViewerIdles, AlarmArmed, ActiveDevices, Present
<1>7. CASE Restart
  BY <1>7 DEF Restart, AlarmArmed, ActiveDevices, Present, Sockets
<1> QED BY <1>1, <1>2, <1>3, <1>4, <1>5, <1>6, <1>7 DEF Alarm

\* While D1 answers, a connected device is always watched over by the alarm.
THEOREM AlarmWatches == ASSUME D1Fails = FALSE PROVE Spec => []AlarmArmed
<1>1. Init => AlarmArmed
  BY DEF Init, AlarmArmed, ActiveDevices
<1>2. Inv /\ Inv' /\ AlarmArmed /\ [Next]_vars => AlarmArmed'
  <2> SUFFICES ASSUME Inv, Inv', AlarmArmed, [Next]_vars PROVE AlarmArmed'
    OBVIOUS
  <2>1. CASE UNCHANGED vars
    BY <2>1 DEF vars, AlarmArmed, ActiveDevices, Present
  <2> QED BY <2>1, AlarmDevice, AlarmViewer, AlarmOther DEF Next, Finished, Inv
<1> QED BY <1>1, <1>2, Invariance, PTL DEF Spec

-------------------------------------------------------------------------------
(* Evictions.                                                                *)

\* How a step may throw viewer v out.
EvictStep(v) ==
  sid = v /\ sock[v] = "open" /\ sock'[v] = "dying" => viewIdle \/ sid' = None

LEMMA EvictDevice ==
  ASSUME Inv, NEW v \in Viewers, NEW d \in Conns, DeviceNext(d)
  PROVE  EvictStep(v)
<1> USE DeviceHubAssumption DEF claimVars, taskVars, peerVars
<1>1. CASE sid' = None
  BY <1>1 DEF EvictStep
<1>2. CASE sid' # None
  <2>1. sock'[v] = sock[v]
    BY <1>2 DEF DeviceNext, DeviceConnect, DatabaseEnsured, Register, ClearViewerState,
       UpsertDone, JoinFails, DeviceAnswer, DevicePing, DeviceCloses, OfflineDone,
       OfflineFails, DeviceReplies, DeviceDrops, Inv, TypeOK, Sockets
  <2> QED BY <2>1 DEF EvictStep
<1> QED BY <1>1, <1>2

LEMMA EvictOther ==
  ASSUME Inv, NEW v \in Viewers,
         \/ \E w \in Viewers : ViewerNext(w)
         \/ Alarm \/ TouchDone \/ TouchFails \/ DeviceIdles \/ ViewerIdles \/ Restart
  PROVE  EvictStep(v)
<1> USE DeviceHubAssumption DEF claimVars, taskVars, peerVars
<1>1. CASE \E w \in Viewers : ViewerNext(w)
  BY <1>1 DEF ViewerNext, ViewerRefused, ViewerClaims, Minted, ViewerOffer, ViewerPing,
     ViewerCloses, ViewerDrops, EvictStep, Inv, TypeOK, Sockets
<1>2. CASE AlarmWithoutDevice \/ TouchDone
  BY <1>2 DEF AlarmWithoutDevice, TouchDone, IdleViewers, Dying, EvictStep, Sockets
<1>3. CASE AlarmKillsDevice
  BY <1>3 DEF AlarmKillsDevice, ActiveDevices, Dying, EvictStep, Sockets
<1>4. CASE AlarmTouches \/ TouchFails \/ DeviceIdles \/ ViewerIdles
  BY <1>4 DEF AlarmTouches, TouchFails, DeviceIdles, ViewerIdles, EvictStep
<1>5. CASE Restart
  BY <1>5 DEF Restart, EvictStep, Sockets
<1> QED BY <1>1, <1>2, <1>3, <1>4, <1>5 DEF Alarm

\* Only an idle viewer, or one whose device went, is thrown out, whatever the
\* alarm handler read before its D1 query.
THEOREM EvictedForCause == Spec => OnlyIdleEvicted
<1>1. Inv /\ [Next]_vars => [\A v \in Viewers : EvictStep(v)]_vars
  BY EvictDevice, EvictOther DEF Next, Finished
<1>2. OnlyIdleEvicted <=> [][\A v \in Viewers : EvictStep(v)]_vars
  BY PTL DEF OnlyIdleEvicted, EvictStep
<1> QED BY <1>1, <1>2, Invariance, PTL DEF Spec

-------------------------------------------------------------------------------
(* The refinement.  A step of the object is a step of ViewerSlot or a       *)
(* stutter, but for the end of a first contact and for a redeploy.          *)

\* A session in its slot was not refused; sockets not yet opened have no past.
SlotInv ==
  /\ \A d \in Conns : sock[d] = "none" => d \notin stale
  /\ \A d \in Conns : joining[d] = "no" <=> sock[d] = "none"
  /\ \A v \in Viewers : sock[v] = "none" => heard[v] = {}
  /\ sid # None => Heard("error", sid) \notin heard[sid]

Running == {v \in Viewers : Present(v) /\ Heard("error", v) \notin heard[v]}

\* A step that changes neither the claim nor who is connected keeps SlotInv.
LEMMA SlotInvKept ==
  ASSUME SlotInv, TypeOK, TypeOK', UNCHANGED <<sid, stale, joining>>,
         \A c \in Sockets : sock'[c] = "none" <=> sock[c] = "none",
         \A v \in Viewers : /\ Heard("error", v) \in heard'[v] => Heard("error", v) \in heard[v]
                            /\ sock[v] = "none" => heard'[v] = heard[v]
  PROVE  SlotInv'
  BY DEF SlotInv, Sockets, TypeOK

\* Such a step is a stutter of the slot.
LEMMA SlotStutter ==
  ASSUME UNCHANGED <<sid, stale>>,
         \A c \in Sockets : Present(c)' <=> Present(c),
         \A v \in Viewers : Heard("error", v) \in heard'[v] <=> Heard("error", v) \in heard[v]
  PROVE  UNCHANGED Slot!slotVars
<1>1. ActiveDevices' = ActiveDevices
  BY DEF ActiveDevices, Sockets
<1>2. Running' = Running
  BY DEF Running, Sockets
<1> QED BY <1>1, <1>2 DEF Slot!slotVars, Running

\* What AllTold does to refusals, for any other type of message.
LEMMA NoRefusalTold ==
  ASSUME TypeOK, NEW vs, NEW type \in HeardTypes \ {"error"}, heard' = AllTold(vs, type)
  PROVE  \A v \in Viewers :
           /\ Heard("error", v) \in heard'[v] <=> Heard("error", v) \in heard[v]
           /\ sock[v] = "none" => heard'[v] = heard[v]
<1>1. heard \in [Viewers -> HeardSets]
  BY DEF TypeOK, HeardSets
<1>2. \A v \in Viewers : Heard("error", v) # Heard(type, v)
  BY DEF Heard
<1> QED BY <1>1, <1>2, ToldType

\* What Register does to who is connected and to what was told, whether the
\* connection is a new one or one that waited for the schema check.
LEMMA SlotRegister ==
  ASSUME Inv, SlotInv, TypeOK', NEW d \in Conns, Register(d),
         joining[d] \in {"no", "ensure"}
  PROVE  SlotInv' /\ sid' = None /\ Running' = Running
<1> USE DeviceHubAssumption
<1>1. sid' = None
  BY DEF Register, ClearViewerState
<1>2. \A v \in Viewers : /\ Heard("error", v) \in heard'[v] <=> Heard("error", v) \in heard[v]
                         /\ sock[v] = "none" => heard'[v] = heard[v]
  BY NoRefusalTold DEF Register, HeardTypes, Inv
<1>3. \A c \in Sockets \ {d} : (Present(c)' <=> Present(c)) /\ (sock'[c] = "none" <=> sock[c] = "none")
  BY DyingPresent DEF Register, Present, Dying, Inv
<1>4. sock'[d] # "none"
  <2>1. CASE joining[d] = "no"
    BY <2>1 DEF Register, Dying, Sockets
  <2>2. CASE joining[d] = "ensure"
    <3>1. sock[d] # "none" /\ sock'[d] = Dying(Superseded(d) \union ViewerSockets)[d]
      BY <2>2 DEF Register, SlotInv, Dying, Sockets
    <3> QED BY <3>1 DEF Dying, Sockets
  <2> QED BY <2>1, <2>2
<1>5. stale' \subseteq stale \union {e \in Conns : Present(e)}
  BY DEF Register, Superseded, ActiveDevices
<1>6. joining'[d] = "upsert" /\ \A e \in Conns \ {d} : joining'[e] = joining[e]
  BY DEF Register, Inv, TypeOK
<1>7. SlotInv'
  <2>1. \A e \in Conns : sock'[e] = "none" => e \notin stale'
    BY <1>3, <1>4, <1>5 DEF SlotInv, Present, Sockets
  <2>2. \A e \in Conns : joining'[e] = "no" <=> sock'[e] = "none"
    BY <1>3, <1>4, <1>6 DEF SlotInv, Sockets
  <2>3. \A v \in Viewers : sock'[v] = "none" => heard'[v] = {}
    BY <1>2, <1>3 DEF SlotInv, Sockets
  <2> QED BY <1>1, <2>1, <2>2, <2>3 DEF SlotInv
<1>8. Running' = Running
  BY <1>2, <1>3 DEF Running, Sockets
<1> QED BY <1>1, <1>7, <1>8

\* A connection that registers at once takes over; during a first contact it is
\* served before that.
LEMMA SlotConnects ==
  ASSUME Inv, SlotInv, TypeOK', NEW d \in Conns, DeviceConnect(d)
  PROVE  SlotInv' /\ (Slot!Takeover(d) \/ Slot!LinkUp(d))
<1> USE DeviceHubAssumption
<1>1. sock[d] = "none" /\ joining[d] = "no" /\ d \notin stale /\ d \notin ActiveDevices
  BY DEF DeviceConnect, SlotInv, ActiveDevices, Present
<1>2. CASE dbReady
  <2>1. Register(d)
    BY <1>2 DEF DeviceConnect
  <2>2. SlotInv' /\ sid' = None /\ Running' = Running
    BY <1>1, <2>1, SlotRegister
  <2>3. Present(d)' /\ d \notin stale'
    BY <1>1, <2>1 DEF Register, Superseded, Present, Dying, Sockets
  <2>4. ActiveDevices' = {d}
    BY <1>1, <2>1, <2>3, RegisterActive DEF ActiveDevices, Inv
  <2> QED BY <1>1, <2>2, <2>4 DEF Slot!Takeover, Running
<1>3. CASE ~dbReady
  <2>1. /\ UNCHANGED <<sid, stale, heard>>
        /\ sock' = [sock EXCEPT ![d] = "open"]
        /\ joining' = [joining EXCEPT ![d] = "ensure"]
    BY <1>3 DEF DeviceConnect, claimVars
  <2>2. SlotInv'
    BY <1>1, <2>1 DEF SlotInv, Inv, TypeOK, Sockets
  <2>3. ActiveDevices' = ActiveDevices \union {d}
    BY <1>1, <2>1 DEF ActiveDevices, Present, Inv, TypeOK, Sockets
  <2>4. Running' = Running
    BY <2>1 DEF Running, Present, Inv, TypeOK, Sockets
  <2> QED BY <1>1, <2>1, <2>2, <2>3, <2>4 DEF Slot!LinkUp, Running
<1> QED BY <1>2, <1>3

\* A first contact ends: the connection takes over late.
LEMMA SlotEnsured ==
  ASSUME Inv, SlotInv, TypeOK', NEW d \in Conns, DatabaseEnsured(d)
  PROVE  SlotInv' /\ Slot!LateTakeover(d)
<1>1. Register(d) /\ joining[d] = "ensure" /\ sock[d] # "none"
  BY DEF DatabaseEnsured, SlotInv
<1>2. SlotInv' /\ sid' = None /\ Running' = Running
  BY <1>1, SlotRegister
<1>3. ActiveDevices' \subseteq {d}
  BY <1>1, RegisterActive DEF Inv
<1>4. Present(d)' <=> Present(d)
  BY <1>1, DyingPresent DEF Register, Present, Dying, Sockets, Inv
<1>5. d \in stale' <=> d \in stale
  BY <1>1 DEF Register, Superseded
<1>6. ActiveDevices' = ActiveDevices \cap {d}
  BY <1>3, <1>4, <1>5 DEF ActiveDevices
<1> QED BY <1>2, <1>6 DEF Slot!LateTakeover, Running

LEMMA SlotDevice ==
  ASSUME Inv, SlotInv, TypeOK', NEW d \in Conns, DeviceNext(d), ~DatabaseEnsured(d)
  PROVE  SlotInv' /\ [Slot!SlotNext]_(Slot!slotVars)
<1> USE DeviceHubAssumption DEF claimVars, taskVars, peerVars
<1>1. CASE DeviceConnect(d)
  BY <1>1, SlotConnects DEF Slot!SlotNext
<1>2. CASE DeviceCloses(d) /\ RunsDetach(d)
  <2>1. /\ sid' = None /\ d \in ActiveDevices
        /\ UNCHANGED <<stale, joining>>
        /\ heard' = AllTold(ViewerSockets, "peer_gone")
        /\ sock' = [Dying(ViewerSockets) EXCEPT ![d] = "gone"]
    BY <1>2 DEF DeviceCloses, RunsDetach, ClearViewerState, ActiveDevices, Present
  <2>2. \A v \in Viewers : /\ Heard("error", v) \in heard'[v] <=> Heard("error", v) \in heard[v]
                           /\ sock[v] = "none" => heard'[v] = heard[v]
    BY <2>1, NoRefusalTold DEF HeardTypes, Inv
  <2>3. \A c \in Sockets \ {d} : /\ Present(c)' <=> Present(c)
                                 /\ sock'[c] = "none" <=> sock[c] = "none"
    BY <2>1, DyingPresent DEF Present, Dying, Inv
  <2>4. sock'[d] = "gone"
    BY <2>1 DEF Dying, Sockets
  <2>5. SlotInv'
    BY <2>1, <2>2, <2>3, <2>4 DEF SlotInv, Sockets, ActiveDevices, Present
  <2>6. ActiveDevices' = ActiveDevices \ {d}
    BY <2>1, <2>3, <2>4 DEF ActiveDevices, Present, Sockets
  <2>7. Running' = Running
    BY <2>2, <2>3 DEF Running, Sockets
  <2>8. Slot!LinkDown(d)
    BY <2>1, <2>6, <2>7 DEF Slot!LinkDown, Running
  <2> QED BY <2>5, <2>8 DEF Slot!SlotNext
<1>3. CASE DeviceCloses(d) /\ ~RunsDetach(d)
  <2>1. /\ UNCHANGED <<sid, stale, joining, heard>>
        /\ sock' = [sock EXCEPT ![d] = "gone"] /\ sock[d] # "none"
        /\ d \in stale
    BY <1>3 DEF DeviceCloses, RunsDetach
  <2>2. SlotInv'
    BY <2>1 DEF SlotInv, Inv, TypeOK, Sockets
  <2>3. ActiveDevices' = ActiveDevices
    BY <2>1 DEF ActiveDevices, Present, Inv, TypeOK, Sockets
  <2>4. Running' = Running
    BY <2>1 DEF Running, Present, Inv, TypeOK, Sockets
  <2> QED BY <2>1, <2>2, <2>3, <2>4 DEF Slot!slotVars, Running
<1>4. CASE DeviceAnswer(d)
  <2>1. \A v \in Viewers : /\ Heard("error", v) \in heard'[v] <=> Heard("error", v) \in heard[v]
                           /\ sock[v] = "none" => heard'[v] = heard[v]
    <3>1. \A v \in Viewers : Heard("error", v) # Heard("answer", reply[d])
      BY DEF Heard
    <3> QED BY <1>4, <3>1 DEF DeviceAnswer, Inv, TypeOK
  <2>2. UNCHANGED <<sock, sid, stale, joining>>
    BY <1>4 DEF DeviceAnswer
  <2>3. SlotInv'
    BY <2>1, <2>2, SlotInvKept DEF Inv
  <2> QED BY <2>1, <2>2, <2>3, SlotStutter DEF Present
<1>5. CASE UpsertDone(d) \/ JoinFails(d)
  <2>1. UNCHANGED <<sock, sid, stale, heard>>
    BY <1>5 DEF UpsertDone, JoinFails
  <2>2. \A e \in Conns : joining'[e] = "no" <=> joining[e] = "no"
    BY <1>5 DEF UpsertDone, JoinFails, Inv, TypeOK
  <2>4. SlotInv'
    BY <2>1, <2>2 DEF SlotInv
  <2> QED BY <2>1, <2>4, SlotStutter DEF Present
<1>6. CASE DeviceDrops(d)
  <2>1. UNCHANGED <<sid, stale, joining, heard>>
    BY <1>6 DEF DeviceDrops
  <2>2. \A c \in Sockets : (Present(c)' <=> Present(c)) /\ (sock'[c] = "none" <=> sock[c] = "none")
    BY <1>6 DEF DeviceDrops, Present, Inv, TypeOK, Sockets
  <2>3. SlotInv'
    BY <2>1, <2>2, SlotInvKept DEF Inv
  <2> QED BY <2>1, <2>2, <2>3, SlotStutter
<1>7. CASE \/ DevicePing(d) \/ OfflineDone(d) \/ OfflineFails(d) \/ DeviceReplies(d)
  <2>1. UNCHANGED <<sock, sid, stale, joining, heard>>
    BY <1>7 DEF DevicePing, OfflineDone, OfflineFails, DeviceReplies
  <2>2. SlotInv'
    BY <2>1, SlotInvKept DEF Inv
  <2> QED BY <2>1, <2>2, SlotStutter DEF Present
<1> QED BY <1>1, <1>2, <1>3, <1>4, <1>5, <1>6, <1>7 DEF DeviceNext

LEMMA SlotViewer ==
  ASSUME Inv, SlotInv, TypeOK', NEW v \in Viewers, ViewerNext(v)
  PROVE  SlotInv' /\ [Slot!SlotNext]_(Slot!slotVars)
<1> USE DeviceHubAssumption DEF claimVars, taskVars, peerVars
<1>1. CASE ViewerRefused(v)
  <2>1. /\ UNCHANGED <<sid, stale, joining>>
        /\ sock[v] = "none" /\ sock' = [sock EXCEPT ![v] = "dying"]
        /\ heard' = [heard EXCEPT ![v] = {Heard("error", v)}]
    BY <1>1 DEF ViewerRefused
  <2>2. sid # None => sid # v
    BY <2>1 DEF Inv, ClaimantCame
  <2>3. SlotInv'
    BY <2>1, <2>2 DEF SlotInv, Inv, TypeOK, Sockets
  <2>4. ActiveDevices' = ActiveDevices
    BY <2>1 DEF ActiveDevices, Present, Inv, TypeOK, Sockets
  <2>5. Running' = Running
    BY <2>1 DEF Running, Present, Inv, TypeOK, Sockets
  <2> QED BY <2>1, <2>3, <2>4, <2>5 DEF Slot!slotVars, Running
<1>2. CASE ViewerClaims(v)
  <2>1. /\ UNCHANGED <<stale, joining, heard>>
        /\ sid = None /\ sid' = v /\ sock[v] = "none"
        /\ sock' = [sock EXCEPT ![v] = "open"]
    BY <1>2 DEF ViewerClaims, Claims, SlotIsFree
  <2>2. heard[v] = {}
    BY <2>1 DEF SlotInv
  <2>3. SlotInv'
    BY <2>1, <2>2 DEF SlotInv, Inv, TypeOK, Sockets
  <2>4. ActiveDevices' = ActiveDevices
    BY <2>1 DEF ActiveDevices, Present, Inv, TypeOK, Sockets
  <2>5. Running' = Running \union {v} /\ v \notin Running
    BY <2>1, <2>2 DEF Running, Present, Inv, TypeOK, Sockets
  <2>6. Slot!Take(v)
    BY <2>1, <2>4, <2>5 DEF Slot!Take, Running
  <2> QED BY <2>3, <2>6 DEF Slot!SlotNext
<1>3. CASE Minted(v)
  <2>1. UNCHANGED <<sock, sid, stale, joining>>
    BY <1>3 DEF Minted
  <2>2. \A w \in Viewers : /\ Heard("error", w) \in heard'[w] <=> Heard("error", w) \in heard[w]
                           /\ sock[w] = "none" => heard'[w] = heard[w]
    BY <1>3, NoRefusalTold DEF Minted, HeardTypes, Inv
  <2>3. SlotInv'
    BY <2>1, <2>2, SlotInvKept DEF Inv
  <2> QED BY <2>1, <2>2, <2>3, SlotStutter DEF Present
<1>4. CASE ViewerOffer(v) \/ ViewerPing(v)
  <2>1. UNCHANGED <<sock, sid, stale, joining, heard>>
    BY <1>4 DEF ViewerOffer, ViewerPing
  <2>2. SlotInv'
    BY <2>1, SlotInvKept DEF Inv
  <2> QED BY <2>1, <2>2, SlotStutter DEF Present
<1>5. CASE ViewerCloses(v)
  <2>1. /\ UNCHANGED <<stale, joining, heard>>
        /\ Present(v) /\ sock' = [sock EXCEPT ![v] = "gone"]
        /\ sid' = IF sid = v THEN None ELSE sid
    BY <1>5 DEF ViewerCloses, HoldsClaim, ClearViewerState, Present
  <2>2. SlotInv'
    BY <2>1 DEF SlotInv, Inv, TypeOK, Sockets
  <2>3. ActiveDevices' = ActiveDevices
    BY <2>1 DEF ActiveDevices, Present, Inv, TypeOK, Sockets
  <2>4. Running' = Running \ {v}
    BY <2>1 DEF Running, Present, Inv, TypeOK, Sockets
  <2>5. CASE v \in Running
    <3>1. Slot!Leave(v)
      BY <2>1, <2>3, <2>4, <2>5 DEF Slot!Leave, Running
    <3> QED BY <2>2, <3>1 DEF Slot!SlotNext
  <2>6. CASE v \notin Running
    <3>1. sid # v
      BY <2>1, <2>6 DEF Running, SlotInv
    <3>2. sid' = sid /\ Running' = Running
      BY <2>1, <2>4, <2>6, <3>1
    <3> QED BY <2>2, <2>3, <3>2 DEF Slot!slotVars, Running
  <2> QED BY <2>5, <2>6
<1>6. CASE ViewerDrops(v)
  <2>1. UNCHANGED <<sid, stale, joining, heard>>
    BY <1>6 DEF ViewerDrops
  <2>2. \A c \in Sockets : (Present(c)' <=> Present(c)) /\ (sock'[c] = "none" <=> sock[c] = "none")
    BY <1>6 DEF ViewerDrops, Present, Inv, TypeOK, Sockets
  <2>3. SlotInv'
    BY <2>1, <2>2, SlotInvKept DEF Inv
  <2> QED BY <2>1, <2>2, <2>3, SlotStutter
<1> QED BY <1>1, <1>2, <1>3, <1>4, <1>5, <1>6 DEF ViewerNext

LEMMA SlotOther ==
  ASSUME Inv, SlotInv, TypeOK',
         Alarm \/ TouchDone \/ TouchFails \/ DeviceIdles \/ ViewerIdles
  PROVE  SlotInv' /\ [Slot!SlotNext]_(Slot!slotVars)
<1> USE DeviceHubAssumption DEF claimVars, taskVars, peerVars
<1>1. CASE Alarm \/ TouchDone
  <2>1. PICK cs : sock' = Dying(cs) \/ sock' = sock
    BY <1>1 DEF Alarm, AlarmWithoutDevice, AlarmKillsDevice, AlarmTouches, TouchDone
  <2>2. \A c \in Sockets : (Present(c)' <=> Present(c)) /\ (sock'[c] = "none" <=> sock[c] = "none")
    BY <2>1, DyingPresent DEF Present, Dying, Inv
  <2>3. UNCHANGED <<sid, stale, joining, heard>>
    BY <1>1 DEF Alarm, AlarmWithoutDevice, AlarmKillsDevice, AlarmTouches, TouchDone
  <2>4. SlotInv'
    BY <2>2, <2>3, SlotInvKept DEF Inv
  <2> QED BY <2>2, <2>3, <2>4, SlotStutter
<1>2. CASE TouchFails \/ DeviceIdles \/ ViewerIdles
  <2>1. UNCHANGED <<sock, sid, stale, joining, heard>>
    BY <1>2 DEF TouchFails, DeviceIdles, ViewerIdles
  <2>2. SlotInv'
    BY <2>1, SlotInvKept DEF Inv
  <2> QED BY <2>1, <2>2, SlotStutter DEF Present
<1> QED BY <1>1, <1>2

\* A redeploy ends every session and connection and leaves the claim in storage.
LEMMA SlotRestart ==
  ASSUME Inv, SlotInv, Restart
  PROVE  SlotInv' /\ Slot!Redeploy
<1> USE DeviceHubAssumption DEF claimVars
<1>1. UNCHANGED <<sid, stale, heard>>
  BY DEF Restart
<1>2. \A c \in Sockets : (sock'[c] = "none" <=> sock[c] = "none") /\ ~Present(c)'
  BY DEF Restart, Present, Inv, TypeOK
<1>3. \A d \in Conns : joining'[d] = "no" <=> joining[d] = "no"
  BY DEF Restart
<1>4. SlotInv'
  BY <1>1, <1>2, <1>3 DEF SlotInv, Sockets, Inv, TypeOK
<1>5. ActiveDevices' = {} /\ Running' = {}
  BY <1>2 DEF ActiveDevices, Running, Sockets
<1> QED BY <1>1, <1>4, <1>5 DEF Slot!Redeploy, Running

LEMMA SlotBegins == Init => SlotInv /\ Slot!SlotInit
<1> SUFFICES ASSUME Init PROVE SlotInv /\ Slot!SlotInit
  OBVIOUS
<1>1. SlotInv
  BY Zenon DEF Init, SlotInv, Sockets
<1>2. ActiveDevices = {} /\ Running = {}
  BY DEF Init, ActiveDevices, Running, Present, Sockets
<1> QED BY <1>1, <1>2 DEF Init, Slot!SlotInit, Running

LEMMA SlotStep ==
  ASSUME Inv, Inv', SlotInv, [Next]_vars
  PROVE  /\ SlotInv'
         /\ \/ [Slot!SlotNext]_(Slot!slotVars)
            \/ Restart /\ Slot!Redeploy
            \/ \E d \in Conns : DatabaseEnsured(d) /\ Slot!LateTakeover(d)
<1>1. CASE UNCHANGED vars
  <2>1. UNCHANGED <<sock, sid, stale, joining, heard>>
    BY <1>1 DEF vars
  <2>2. SlotInv'
    BY <2>1, SlotInvKept DEF Inv
  <2> QED BY <2>1, <2>2, SlotStutter DEF Present
<1>2. CASE \E d \in Conns : DeviceNext(d)
  BY <1>2, SlotDevice, SlotEnsured DEF Inv
<1>3. CASE \E v \in Viewers : ViewerNext(v)
  BY <1>3, SlotViewer DEF Inv
<1>4. CASE Alarm \/ TouchDone \/ TouchFails \/ DeviceIdles \/ ViewerIdles
  BY <1>4, SlotOther DEF Inv
<1>5. CASE Restart
  BY <1>5, SlotRestart
<1> QED BY <1>1, <1>2, <1>3, <1>4, <1>5 DEF Next, Finished

\* The object implements the slot that is kept in storage: exactly one session at
\* a time has the slot and a session frees only its own, through first contacts,
\* failing queries and any number of redeploys; a connection evicts, late or not,
\* and a redeploy does not.
THEOREM StoredRefinement == Spec => ImplementsStoredSlot
<1>1. Inv /\ Inv' /\ SlotInv /\ [Next]_vars
        => SlotInv' /\ [Slot!StoredSlotNext]_(Slot!slotVars)
  BY SlotStep DEF Slot!StoredSlotNext
<1> QED
  BY <1>1, SlotBegins, Invariance, PTL
  DEF Spec, ImplementsStoredSlot, Slot!StoredSlotSpec

\* With the schema in place and no redeploy, nothing waits for the schema check.
NoFirstContact == dbReady /\ restarts = 0 /\ \A d \in Conns : joining[d] # "ensure"

LEMMA NextNoFirstContact ==
  MaxRestarts = 0 /\ TypeOK /\ NoFirstContact /\ [Next]_vars => NoFirstContact'
<1> SUFFICES ASSUME MaxRestarts = 0, TypeOK, NoFirstContact, [Next]_vars
             PROVE  NoFirstContact'
  OBVIOUS
<1> USE DEF claimVars, taskVars, peerVars
<1>1. ASSUME NEW d \in Conns, DeviceNext(d) PROVE NoFirstContact'
  <2>1. UNCHANGED <<dbReady, restarts>>
    BY <1>1 DEF NoFirstContact, DeviceNext, DeviceConnect, DatabaseEnsured, UpsertDone,
       JoinFails, DeviceAnswer, DevicePing, DeviceCloses, OfflineDone, OfflineFails,
       DeviceReplies, DeviceDrops
  <2>2. \A e \in Conns : joining'[e] = joining[e] \/ joining'[e] \in {"upsert", "done"}
    BY <1>1 DEF NoFirstContact, TypeOK, DeviceNext, DeviceConnect, Register,
       DatabaseEnsured, UpsertDone, JoinFails, DeviceAnswer, DevicePing, DeviceCloses,
       OfflineDone, OfflineFails, DeviceReplies, DeviceDrops
  <2> QED BY <2>1, <2>2 DEF NoFirstContact
<1>2. ASSUME NEW v \in Viewers, ViewerNext(v) PROVE NoFirstContact'
  BY <1>2 DEF NoFirstContact, ViewerNext, ViewerRefused, ViewerClaims, Minted,
     ViewerOffer, ViewerPing, ViewerCloses, ViewerDrops
<1>3. CASE Alarm \/ TouchDone \/ TouchFails \/ DeviceIdles \/ ViewerIdles \/ Finished
           \/ UNCHANGED vars
  BY <1>3 DEF NoFirstContact, Alarm, AlarmWithoutDevice, AlarmKillsDevice, AlarmTouches,
     TouchDone, TouchFails, DeviceIdles, ViewerIdles, Finished, vars
<1>4. CASE Restart
  BY <1>4 DEF Restart, NoFirstContact
<1> QED BY <1>1, <1>2, <1>3, <1>4 DEF Next

\* The object implements the abstract slot: exactly one session at a time has
\* the slot, a session frees only its own slot, and only the end or the
\* takeover of a device connection evicts.
THEOREM Refinement ==
  ASSUME Migrated = TRUE, MaxRestarts = 0
  PROVE  Spec => ImplementsViewerSlot
<1>1. Init => NoFirstContact
  BY DEF Init, NoFirstContact
<1>2. Inv /\ Inv' /\ SlotInv /\ NoFirstContact /\ NoFirstContact' /\ [Next]_vars
        => SlotInv' /\ [Slot!SlotNext]_(Slot!slotVars)
  <2>1. NoFirstContact /\ NoFirstContact'
          => ~Restart /\ \A d \in Conns : ~DatabaseEnsured(d)
    BY DEF NoFirstContact, Restart, DatabaseEnsured
  <2> QED BY <2>1, SlotStep
<1>3. TypeOK /\ NoFirstContact /\ [Next]_vars => NoFirstContact'
  BY NextNoFirstContact
<1> QED
  BY <1>1, <1>2, <1>3, SlotBegins, Invariance, TypeCorrect, PTL
  DEF Spec, ImplementsViewerSlot, Slot!SlotSpec
===============================================================================
