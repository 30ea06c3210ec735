------------------------------- MODULE BootProofs --------------------------------
(***************************************************************************)
(* Proofs about Boot, for any forms, networks and buffer sizes and any     *)
(* number of power cuts: its types, that webrtc_stream_init leaves nothing *)
(* dangling, that a configuration the portal acknowledged is kept, and     *)
(* that the form shows all of it.                                          *)
(***************************************************************************)
EXTENDS Boot, TLAPS

\* The steps, one level flatter than Next.
LEMMA NextCases ==
  ASSUME [Next]_vars
  PROVE  \/ SystemUp \/ Load \/ StaStarts \/ WaitEnds \/ WaitTimesOut \/ WifiStop
         \/ ApStarts \/ PortalStarts \/ Streams \/ NvsErased \/ StaFails \/ GotIp
         \/ Disconnected \/ Checks \/ Checked \/ CameraStarts \/ StreamStep \/ Event
         \/ Post \/ ClientGone \/ BodyRead \/ NvsSet \/ NvsCommit \/ NvsFails
         \/ Restart \/ PowerCut \/ UNCHANGED vars
  BY DEF Next, Main

-------------------------------------------------------------------------------
(* Nothing dangles.                                                         *)

\* What is held while a step of init is under way, and while a failure is unwound.
HeldAt ==
  [peer |-> {}, parent |-> {"peer"}, ws |-> {"peer", "parent"},
   configure |-> {"peer", "parent", "ws"}, client |-> {"peer", "parent", "ws"},
   start |-> Handles, task |-> Handles]

Unwinding ==
  \/ unwind = <<"client", "ws", "parent", "peer">> /\ held = Handles
  \/ unwind = <<"ws", "parent", "peer">> /\ held = {"ws", "parent", "peer"} /\ ~clientRuns
  \/ unwind = <<"parent", "peer">> /\ held = {"parent", "peer"} /\ ~clientRuns
  \/ unwind = <<"peer">> /\ held = {"peer"} /\ ~clientRuns
  \/ unwind = <<>> /\ held = {} /\ ~clientRuns

StreamInv ==
  /\ initPc \in Steps
  /\ (initPc = "idle" => held = {} /\ ~clientRuns)
  /\ (initPc \in MayFail => held = HeldAt[initPc] /\ (clientRuns => initPc = "task"))
  /\ (initPc \in Buffers \cup {"done"} => Handles \subseteq held)
  /\ (initPc = "unwind" => Unwinding)

LEMMA StreamInvInit == StreamInitial => StreamInv
  BY DEF StreamInitial, StreamInv, Steps, MayFail, Buffers, Handles

LEMMA StreamInvLost == StreamLost => StreamInv'
  BY DEF StreamLost, StreamInv, Steps, MayFail, Buffers, Handles

LEMMA StreamInvStep ==
  ASSUME StreamInv, StreamWorks \/ StreamFails \/ StreamEvent
  PROVE  StreamInv'
<1>1. CASE StreamBegins
  BY <1>1 DEF StreamBegins, StreamInv, HeldAt, Steps, MayFail, Buffers, Handles
<1>2. CASE StreamAcquires
  <2>1. initPc \in Handles /\ initPc' = Then[initPc] /\ held' = held \cup {initPc}
        /\ clientRuns' = clientRuns
    BY <1>2 DEF StreamAcquires
  <2>2. initPc \in MayFail /\ held = HeldAt[initPc] /\ ~clientRuns
    BY <2>1 DEF StreamInv, MayFail, Handles
  <2>3. CASE initPc = "peer"
    BY <2>1, <2>2, <2>3 DEF Then, HeldAt, StreamInv, Steps, MayFail, Buffers, Handles
  <2>4. CASE initPc = "parent"
    BY <2>1, <2>2, <2>4 DEF Then, HeldAt, StreamInv, Steps, MayFail, Buffers, Handles
  <2>5. CASE initPc = "ws"
    BY <2>1, <2>2, <2>5 DEF Then, HeldAt, StreamInv, Steps, MayFail, Buffers, Handles
  <2>6. CASE initPc = "client"
    BY <2>1, <2>2, <2>6 DEF Then, HeldAt, StreamInv, Steps, MayFail, Buffers, Handles
  <2> QED BY <2>1, <2>3, <2>4, <2>5, <2>6 DEF Handles
<1>3. CASE StreamProceeds
  <2>1. initPc \in {"configure", "start", "task"} /\ initPc' = Then[initPc] /\ held' = held
        /\ clientRuns' = (clientRuns \/ initPc = "start")
    BY <1>3 DEF StreamProceeds
  <2>2. held = HeldAt[initPc] /\ (clientRuns => initPc = "task")
    BY <2>1 DEF StreamInv, MayFail
  <2>3. CASE initPc = "configure"
    BY <2>1, <2>2, <2>3 DEF Then, HeldAt, StreamInv, Steps, MayFail, Buffers, Handles
  <2>4. CASE initPc = "start"
    BY <2>1, <2>2, <2>4 DEF Then, HeldAt, StreamInv, Steps, MayFail, Buffers, Handles
  <2>5. CASE initPc = "task"
    BY <2>1, <2>2, <2>5 DEF Then, HeldAt, StreamInv, Steps, MayFail, Buffers, Handles
  <2> QED BY <2>1, <2>3, <2>4, <2>5
<1>4. CASE StreamBuffers
  <2>1. initPc' \in {"chunk", "done"} /\ held \subseteq held'
    BY <1>4 DEF StreamBuffers, Buffers, Then
  <2> QED BY <1>4, <2>1 DEF StreamBuffers, StreamInv, Steps, MayFail, Buffers, Handles
<1>5. CASE StreamFails
  <2>1. initPc \in MayFail /\ unwind' = Releases[initPc] /\ initPc' = "unwind"
        /\ held' = held /\ clientRuns' = clientRuns
    BY <1>5 DEF StreamFails
  <2>2. held = HeldAt[initPc] /\ (clientRuns => initPc = "task")
    BY <2>1 DEF StreamInv
  <2>3. Unwinding'
    BY <2>1, <2>2 DEF Releases, HeldAt, Unwinding, MayFail, Handles
  <2> QED BY <2>1, <2>3 DEF StreamInv, Steps, MayFail, Buffers, Handles
<1>6. CASE StreamReleases
  <2>1. initPc = "unwind" /\ initPc' = "unwind" /\ unwind # <<>> /\ unwind' = Tail(unwind)
        /\ held' = held \ {Head(unwind)}
        /\ clientRuns' = (clientRuns /\ Head(unwind) # "client")
    BY <1>6 DEF StreamReleases
  <2>2. Unwinding
    BY <2>1 DEF StreamInv
  <2>3. Unwinding'
    <3>1. CASE unwind = <<"client", "ws", "parent", "peer">> /\ held = Handles
      <4>1. Head(unwind) = "client" /\ Tail(unwind) = <<"ws", "parent", "peer">>
        BY <3>1
      <4> QED BY <2>1, <3>1, <4>1 DEF Unwinding, Handles
    <3>2. CASE unwind = <<"ws", "parent", "peer">> /\ held = {"ws", "parent", "peer"}
               /\ ~clientRuns
      <4>1. Head(unwind) = "ws" /\ Tail(unwind) = <<"parent", "peer">>
        BY <3>2
      <4> QED BY <2>1, <3>2, <4>1 DEF Unwinding
    <3>3. CASE unwind = <<"parent", "peer">> /\ held = {"parent", "peer"} /\ ~clientRuns
      <4>1. Head(unwind) = "parent" /\ Tail(unwind) = <<"peer">>
        BY <3>3
      <4> QED BY <2>1, <3>3, <4>1 DEF Unwinding
    <3>4. CASE unwind = <<"peer">> /\ held = {"peer"} /\ ~clientRuns
      <4>1. Head(unwind) = "peer" /\ Tail(unwind) = <<>>
        BY <3>4
      <4> QED BY <2>1, <3>4, <4>1 DEF Unwinding
    <3> QED BY <2>1, <2>2, <3>1, <3>2, <3>3, <3>4 DEF Unwinding
  <2> QED BY <2>1, <2>3 DEF StreamInv, Steps, MayFail, Buffers, Handles
<1>7. CASE StreamGivesUp
  <2>1. held = {} /\ ~clientRuns
    BY <1>7 DEF StreamGivesUp, StreamInv, Unwinding
  <2> QED BY <1>7, <2>1 DEF StreamGivesUp, StreamInv, Steps, MayFail, Buffers, Handles
<1>8. CASE StreamEvent
  BY <1>8 DEF StreamEvent, StreamInv, Unwinding
<1> QED
  BY <1>1, <1>2, <1>3, <1>4, <1>5, <1>6, <1>7, <1>8 DEF StreamWorks

LEMMA NextStreamInv == StreamInv /\ [Next]_vars => StreamInv'
<1> SUFFICES ASSUME StreamInv, [Next]_vars PROVE StreamInv'
  OBVIOUS
<1>1. CASE UNCHANGED initVars
  BY <1>1 DEF initVars, StreamInv, Unwinding
<1>2. CASE StreamStep \/ Event
  BY <1>2, StreamInvStep DEF StreamStep, Event
<1>3. CASE Restart \/ PowerCut
  BY <1>3, StreamInvLost DEF Restart, PowerCut, Reset
<1>4. \/ UNCHANGED initVars \/ StreamStep \/ Event \/ Restart \/ PowerCut
  BY NextCases DEF SystemUp, Load, StaStarts, WaitEnds, WaitTimesOut, WifiStop, ApStarts,
     PortalStarts, Streams, NvsErased, StaFails, GotIp, Disconnected, Checks, Checked,
     CameraStarts, Post, ClientGone, BodyRead, NvsSet, NvsCommit, NvsFails, vars
<1> QED
  BY <1>1, <1>2, <1>3, <1>4

LEMMA StreamInvSuffices == StreamInv => NothingDangles
<1> SUFFICES ASSUME StreamInv PROVE NothingDangles
  OBVIOUS
<1>1. CASE initPc = "idle"
  BY <1>1 DEF StreamInv, NothingDangles
<1>2. CASE initPc \in MayFail
  BY <1>2 DEF StreamInv, NothingDangles, HeldAt, MayFail, Handles
<1>3. CASE initPc \in Buffers \cup {"done"}
  BY <1>3 DEF StreamInv, NothingDangles, Buffers, Handles
<1>4. CASE initPc = "unwind"
  BY <1>4 DEF StreamInv, Unwinding, NothingDangles, Handles
<1> QED
  BY <1>1, <1>2, <1>3, <1>4 DEF StreamInv, Steps

\* Whichever step of webrtc_stream_init fails, whatever the event handler does in the
\* meantime and however often it is tried: the handler runs on live handles only, and
\* a failed init has given everything back.
THEOREM Undangling == Spec => []NothingDangles
<1>1. Init => StreamInv
  BY StreamInvInit DEF Init
<1> QED
  BY <1>1, NextStreamInv, StreamInvSuffices, PTL DEF Spec

-------------------------------------------------------------------------------
(* What was saved is kept.                                                  *)

\* A blob that waits for its commit is one of those that were tried, and the portal
\* runs in portal mode only, so NVS is never erased under it.
SaveInv ==
  /\ (http # "off" => pc = "portal")
  /\ (pc = "init" => pending = None)
  /\ (pending # None => pending \in tried)
  /\ (http = "commit" => pending = Parsed(form))
  /\ (acked # None => stored \in tried \cup {IF wiped THEN None ELSE acked})

LEMMA NextSaveInv == SaveInv /\ [Next]_vars => SaveInv'
<1> SUFFICES ASSUME SaveInv, [Next]_vars PROVE SaveInv'
  OBVIOUS
<1> USE DEF SaveInv, mainVars, nvsVars, wifiVars, httpVars
<1>1. CASE SystemUp \/ Load \/ StaStarts \/ WaitEnds \/ WaitTimesOut \/ WifiStop
  BY <1>1 DEF SystemUp, Load, StaStarts, WaitEnds, WaitTimesOut, AfterTimeout, WifiStop
<1>2. CASE ApStarts \/ PortalStarts \/ Streams \/ StaFails \/ GotIp \/ Disconnected
  BY <1>2 DEF ApStarts, PortalStarts, Streams, StaFails, GotIp, Disconnected
<1>3. CASE NvsErased
  BY <1>3 DEF NvsErased
<1>4. CASE Checks \/ Checked \/ CameraStarts \/ StreamStep \/ Event
  BY <1>4 DEF Checks, Checked, CameraStarts, StreamStep, Event
<1>5. CASE Post \/ ClientGone \/ BodyRead
  BY <1>5 DEF Post, ClientGone, BodyRead
<1>6. CASE NvsSet
  BY <1>6 DEF NvsSet
<1>7. CASE NvsCommit
  BY <1>7 DEF NvsCommit, Committed
<1>8. CASE NvsFails
  BY <1>8 DEF NvsFails
<1>9. CASE Restart \/ PowerCut
  BY <1>9 DEF Restart, PowerCut, Reset, Visible
<1>10. CASE UNCHANGED vars
  BY <1>10 DEF vars
<1> QED
  BY <1>1, <1>2, <1>3, <1>4, <1>5, <1>6, <1>7, <1>8, <1>9, <1>10, NextCases

\* Once the success page was sent, flash holds that configuration or a later one that
\* was being saved, however often and whenever the power is cut (config_store_save),
\* unless a boot erased the partition since (app_main.c:193-197).
THEOREM Kept == Spec => []SavedIsKept
<1>1. Init => SaveInv
  BY DEF Init, SaveInv
<1>2. SaveInv => SavedIsKept
  BY DEF SaveInv, SavedIsKept
<1> QED
  BY <1>1, <1>2, NextSaveInv, PTL DEF Spec

-------------------------------------------------------------------------------
(* Types.                                                                   *)

LEMMA CopiedTypes ==
  ASSUME NEW t \in Text, NEW n \in Nat \ {0}
  PROVE  Copied(t, n) \in Text
<1>1. CASE t.len < n
  BY <1>1 DEF Copied
<1>2. CASE ~(t.len < n)
  <2>1. n - 1 \in Nat /\ (IF t.bad < n THEN t.bad ELSE 0) \in Nat
    BY DEF Text
  <2> QED BY <1>2, <2>1 DEF Copied, Text
<1> QED BY <1>1, <1>2

LEMMA ParsedTypes == ASSUME NEW f \in Form PROVE Parsed(f) \in Config
<1>1. \A x \in Fields : MaxLen[x] + 1 \in Nat \ {0}
  BY DEF Fields, MaxLen
<1>2. Empty \in Text
  BY DEF Empty, Text
<1>3. \A x \in Fields : f.fields[x].text \in Text
  BY DEF Form, Raw
<1>4. \A x \in Fields :
        (IF f.fields[x].decodes THEN Copied(f.fields[x].text, MaxLen[x] + 1) ELSE Empty)
          \in Text
  BY <1>1, <1>2, <1>3, CopiedTypes
<1> QED
  BY <1>4 DEF Parsed, Config

LEMMA StaTypes ==
  ASSUME NEW c \in Config PROVE StaConfig(c) \in [{"ssid", "pass"} -> Text]
<1>1. \A x \in {"ssid", "pass"} : c[x] \in Text /\ StaSize[x] \in Nat \ {0}
  BY DEF Config, Fields, StaSize
<1> QED
  BY <1>1, CopiedTypes DEF StaConfig

\* Besides the types: the station starts with a configuration, and a request that is
\* being handled is one of the forms.
TypedInv ==
  /\ TypeOK
  /\ (pc = "wifi" => cfg \in Config)
  /\ (http \in {"reading", "set", "commit"} => form \in Forms)

LEMMA StreamTyped ==
  ASSUME StreamTypeOK, StreamWorks \/ StreamFails \/ StreamEvent
  PROVE  StreamTypeOK'
<1> USE DEF StreamTypeOK
<1>1. CASE StreamBegins \/ StreamGivesUp
  BY <1>1 DEF StreamBegins, StreamGivesUp, Steps, MayFail, Handles
<1>2. CASE StreamAcquires
  BY <1>2 DEF StreamAcquires, Then, Steps, MayFail, Handles, Buffers
<1>3. CASE StreamProceeds
  BY <1>3 DEF StreamProceeds, Then, Steps, MayFail, Handles, Buffers
<1>4. CASE StreamBuffers
  BY <1>4 DEF StreamBuffers, Then, Steps, MayFail, Handles, Buffers
<1>5. CASE StreamFails
  <2>1. /\ <<>> \in Seq(Handles) /\ <<"peer">> \in Seq(Handles)
        /\ <<"parent", "peer">> \in Seq(Handles) /\ <<"ws", "parent", "peer">> \in Seq(Handles)
        /\ <<"client", "ws", "parent", "peer">> \in Seq(Handles)
    BY DEF Handles
  <2>2. Releases[initPc] \in {<<>>, <<"peer">>, <<"parent", "peer">>, <<"ws", "parent", "peer">>,
                              <<"client", "ws", "parent", "peer">>}
    BY <1>5 DEF StreamFails, Releases, MayFail, Handles
  <2> QED BY <1>5, <2>1, <2>2 DEF StreamFails, Steps
<1>6. CASE StreamReleases
  <2>1. Tail(unwind) \in Seq(Handles)
    BY <1>6 DEF StreamReleases
  <2> QED BY <1>6, <2>1 DEF StreamReleases
<1>7. CASE StreamEvent
  BY <1>7 DEF StreamEvent
<1> QED
  BY <1>1, <1>2, <1>3, <1>4, <1>5, <1>6, <1>7 DEF StreamWorks

LEMMA OtaTyped == ASSUME OtaTypeOK, OtaWorks PROVE OtaTypeOK'
<1> USE OtaAssumption DEF OtaTypeOK
<1>1. CASE OtaBegins \/ OtaFails \/ OtaParses
  BY <1>1 DEF OtaBegins, OtaFails, OtaParses
<1>2. CASE OtaReceives
  <2>1. PICK n \in 1..MaxChunk :
          /\ otaSent + n <= MaxBody /\ otaSent' = otaSent + n
          /\ otaLen' = IF HasSpace(n) THEN otaLen + n ELSE otaLen
          /\ UNCHANGED <<otaPc, otaNul>>
    BY <1>2 DEF OtaReceives
  <2> QED BY <2>1 DEF HasSpace
<1> QED
  BY <1>1, <1>2 DEF OtaWorks

LEMMA InitTyped == Init => TypedInv
<1> SUFFICES ASSUME Init PROVE TypedInv
  OBVIOUS
<1>1. StreamTypeOK
  <2>1. <<>> \in Seq(Handles)
    OBVIOUS
  <2>2. clientRuns \in BOOLEAN /\ wsConnected \in BOOLEAN
    BY DEF Init, StreamInitial
  <2> QED BY <2>1, <2>2 DEF Init, StreamInitial, StreamTypeOK, Steps
<1>2. OtaTypeOK
  BY OtaAssumption DEF Init, OtaInitial, OtaTypeOK
<1>3. gotIp \in BOOLEAN
  BY DEF Init
<1>4. cuts \in 0..MaxCuts
  BY BootAssumption DEF Init
<1> QED
  BY <1>1, <1>2, <1>3, <1>4 DEF Init, TypedInv, TypeOK, Places, Blobs

LEMMA ResetTyped == ASSUME TypedInv, Reset, cuts' \in 0..MaxCuts PROVE TypedInv'
<1>1. StreamTypeOK'
  <2>1. <<>> \in Seq(Handles)
    OBVIOUS
  <2>2. clientRuns' \in BOOLEAN /\ wsConnected' \in BOOLEAN
    BY DEF Reset, StreamLost
  <2> QED BY <2>1, <2>2 DEF Reset, StreamLost, StreamTypeOK, Steps
<1>2. OtaTypeOK'
  BY OtaAssumption DEF Reset, OtaLost, OtaTypeOK
<1>3. stored' \in Blobs
  BY DEF Reset, Visible, TypedInv, TypeOK, Blobs
<1>4. gotIp' \in BOOLEAN
  BY DEF Reset
<1> QED
  BY <1>1, <1>2, <1>3, <1>4 DEF Reset, TypedInv, TypeOK, Places

LEMMA NextTyped == TypedInv /\ [Next]_vars => TypedInv'
<1> SUFFICES ASSUME TypedInv, [Next]_vars PROVE TypedInv'
  OBVIOUS
<1> USE DEF TypedInv, TypeOK, mainVars, nvsVars, wifiVars, httpVars
<1>1. UNCHANGED initVars => StreamTypeOK'
  BY DEF initVars, StreamTypeOK
<1>2. UNCHANGED otaVars => OtaTypeOK'
  BY DEF otaVars, OtaTypeOK
<1>3. CASE SystemUp \/ WaitEnds \/ WaitTimesOut \/ WifiStop \/ StaFails \/ Streams
  BY <1>1, <1>2, <1>3 DEF SystemUp, WaitEnds, WaitTimesOut, AfterTimeout, WifiStop, StaFails,
     Streams, Places
<1>4. CASE Load
  <2>1. Loadable(Visible) => Visible \in Config
    BY DEF Loadable, Visible, Blobs
  <2> QED BY <1>1, <1>2, <1>4, <2>1 DEF Load, Places
<1>5. CASE StaStarts
  <2>1. sta' \in [{"ssid", "pass"} -> Text]
    BY <1>5, StaTypes DEF StaStarts
  <2>2. gotIp' \in BOOLEAN
    BY <1>5 DEF StaStarts
  <2> QED BY <1>1, <1>2, <1>5, <2>1, <2>2 DEF StaStarts, Places
<1>6. CASE GotIp \/ Disconnected
  <2>1. gotIp' \in BOOLEAN
    BY <1>6 DEF GotIp, Disconnected
  <2> QED BY <1>1, <1>2, <1>6, <2>1 DEF GotIp, Disconnected
<1>7. CASE ApStarts \/ PortalStarts \/ CameraStarts
  BY <1>1, <1>2, <1>7 DEF ApStarts, PortalStarts, CameraStarts, Places
<1>8. CASE NvsErased
  BY <1>1, <1>2, <1>8 DEF NvsErased, Blobs
<1>9. CASE Checks
  <2>1. OtaTypeOK'
    BY <1>9, OtaTyped DEF Checks
  <2> QED BY <1>1, <1>9, <2>1 DEF Checks
<1>10. CASE Checked
  <2>1. OtaTypeOK'
    BY <1>10, OtaAssumption DEF Checked, OtaTypeOK
  <2> QED BY <1>1, <1>10, <2>1 DEF Checked, Places
<1>11. CASE StreamStep \/ Event
  <2>1. StreamTypeOK'
    BY <1>11, StreamTyped DEF StreamStep, Event
  <2> QED BY <1>2, <1>11, <2>1 DEF StreamStep, Event
<1>12. CASE Post
  BY <1>1, <1>2, <1>12 DEF Post
<1>13. CASE ClientGone \/ BodyRead
  BY <1>1, <1>2, <1>13 DEF ClientGone, BodyRead
<1>14. CASE NvsSet
  <2>1. Parsed(form) \in Config
    BY <1>14, ParsedTypes, BootAssumption DEF NvsSet
  <2> QED BY <1>1, <1>2, <1>14, <2>1 DEF NvsSet
<1>15. CASE NvsCommit
  <2>1. Parsed(form) \in Config
    BY <1>15, ParsedTypes, BootAssumption DEF NvsCommit
  <2> QED BY <1>1, <1>2, <1>15, <2>1 DEF NvsCommit, Committed, Blobs
<1>16. CASE NvsFails
  BY <1>1, <1>2, <1>16 DEF NvsFails
<1>17. CASE Restart \/ PowerCut
  <2>1. cuts' \in 0..MaxCuts
    BY <1>17, BootAssumption DEF Restart, PowerCut
  <2> QED BY <1>17, <2>1, ResetTyped DEF Restart, PowerCut
<1>18. CASE UNCHANGED vars
  BY <1>1, <1>2, <1>18 DEF vars
<1> QED
  BY <1>3, <1>4, <1>5, <1>6, <1>7, <1>8, <1>9, <1>10, <1>11, <1>12, <1>13, <1>14, <1>15,
     <1>16, <1>17, <1>18, NextCases

LEMMA AlwaysTyped == Spec => []TypedInv
  BY InitTyped, NextTyped, PTL DEF Spec

\* Whatever form is posted: every copy stays within its buffer, what reaches NVS is a
\* configuration, and the OTA buffer is never written past its end.
THEOREM TypeCorrect == Spec => []TypeOK
<1>1. TypedInv => TypeOK
  BY DEF TypedInv
<1> QED
  BY <1>1, AlwaysTyped, PTL

\* The buffers of the form hold every text that passes validation, all of it escaped
\* (html_escape, send_form).
LEMMA EscapeFits ==
  ASSUME NEW c \in Config, Valid(c), NEW f \in Fields
  PROVE  Shown(c[f], EscapeSize(f)) = c[f].len
<1> DEFINE n == c[f].len
           w == c[f].width
<1>1. n \in Nat /\ w \in 1..6 /\ MaxLen[f] \in Nat /\ n <= MaxLen[f]
  BY DEF Config, Text, Fields, MaxLen, Valid, LengthOK
<1>2. n = 0 \/ n - 1 \in Nat
  BY <1>1
<1>3. n # 0 => (n - 1) * w <= (n - 1) * 6
  <2>1. w \in {1, 2, 3, 4, 5, 6}
    BY <1>1
  <2> QED BY <1>1, <2>1
<1>4. n # 0 => (n - 1) * w + 6 < MaxLen[f] * 6 + 1
  BY <1>1, <1>3
<1> QED
  BY <1>4 DEF Shown, EscapeSize

\* The form shows the whole of every configuration that is stored, whatever it is.
THEOREM PrefillsWhole == Spec => []PrefillWhole
<1>1. TypedInv => PrefillWhole
  <2> SUFFICES ASSUME TypedInv, Loadable(stored), NEW f \in Fields
               PROVE  Shown(stored[f], EscapeSize(f)) = stored[f].len
    BY DEF PrefillWhole
  <2>1. stored \in Config /\ Valid(stored)
    BY DEF TypedInv, TypeOK, Loadable, Blobs
  <2> QED BY <2>1, EscapeFits
<1> QED
  BY <1>1, AlwaysTyped, PTL

-------------------------------------------------------------------------------
(* What becomes of a text on its way from the form to flash and to the driver. *)

\* A blob is valid before it is handed to NVS, and stays the parsed form until the
\* success page is sent.
ValidInv ==
  /\ stored \in Config => Valid(stored)
  /\ pending \in Config => Valid(pending)
  /\ http \in {"set", "commit", "saved"} => form \in Forms /\ Valid(Parsed(form))
  /\ http = "saved" => stored = Parsed(form)

LEMMA NextValidInv ==
  SaveInv /\ TypedInv /\ ValidInv /\ [Next]_vars => ValidInv'
<1> SUFFICES ASSUME SaveInv, TypedInv, ValidInv, [Next]_vars PROVE ValidInv'
  OBVIOUS
<1> USE DEF ValidInv, mainVars, nvsVars, wifiVars, httpVars
<1>1. CASE UNCHANGED <<stored, pending, http, form>>
  BY <1>1
<1>2. CASE NvsErased
  <2>1. http # "saved" /\ None \notin Config
    BY <1>2, BootAssumption DEF NvsErased, SaveInv
  <2> QED BY <1>2, <2>1 DEF NvsErased
<1>3. CASE PortalStarts \/ Post \/ ClientGone \/ NvsFails
  BY <1>3 DEF PortalStarts, Post, ClientGone, NvsFails
<1>4. CASE BodyRead
  BY <1>4 DEF BodyRead, TypedInv
<1>5. CASE NvsSet
  BY <1>5 DEF NvsSet
<1>6. CASE NvsCommit
  <2>1. pending = Parsed(form)
    BY <1>6 DEF NvsCommit, SaveInv
  <2> QED BY <1>6, <2>1, BootAssumption DEF NvsCommit, Committed
<1>7. CASE Restart \/ PowerCut
  <2>1. http' = "off" /\ pending' = None /\ stored' \in {stored, pending}
    BY <1>7 DEF Restart, PowerCut, Reset, Visible
  <2> QED BY <2>1, BootAssumption
<1> QED
  BY <1>1, <1>2, <1>3, <1>4, <1>5, <1>6, <1>7, NextCases
  DEF SystemUp, Load, StaStarts, WaitEnds, WaitTimesOut, WifiStop, ApStarts, Streams,
      StaFails, GotIp, Disconnected, Checks, Checked, CameraStarts, StreamStep, Event, vars

\* A text that fits is copied whole.
LEMMA CopiedWhole ==
  ASSUME NEW t \in Text, NEW n \in Nat, t.len < n PROVE Copied(t, n) = t
  BY DEF Copied

\* What the portal stores is valid, and is what was submitted but for texts that do
\* not decode or are too long (parse_form, config_validate, config_store_save).
THEOREM StoresSubmitted == Spec => []StoredIsSubmitted
<1>1. Init => ValidInv
  BY BootAssumption DEF Init, ValidInv
<1>2. Init => SaveInv
  BY DEF Init, SaveInv
<1>3. ValidInv => StoredIsSubmitted
  <2> SUFFICES ASSUME ValidInv, http = "saved", NEW f \in Fields,
                      form.fields[f].decodes, form.fields[f].text.len <= MaxLen[f]
               PROVE  stored[f] = form.fields[f].text
    BY DEF ValidInv, StoredIsSubmitted
  <2>1. stored = Parsed(form) /\ form \in Form
    BY BootAssumption DEF ValidInv
  <2>2. form.fields[f].text \in Text /\ MaxLen[f] \in Nat
    BY <2>1 DEF Form, Raw, Fields, MaxLen
  <2>3. Copied(form.fields[f].text, MaxLen[f] + 1) = form.fields[f].text
    BY <2>2, CopiedWhole DEF Text
  <2> QED BY <2>1, <2>3 DEF Parsed
<1> QED
  BY <1>1, <1>2, <1>3, NextValidInv, NextSaveInv, AlwaysTyped, PTL DEF Spec

\* The driver has the configuration that was loaded, as far as it fits.
DialInv ==
  /\ pc = "wifi" => cfg \in Config /\ Valid(cfg)
  /\ radio = "sta" => /\ pc \notin {"init", "load", "wifi"}
                      /\ cfg \in Config /\ Valid(cfg) /\ sta = StaConfig(cfg)

LEMMA NextDialInv == TypedInv /\ DialInv /\ [Next]_vars => DialInv'
<1> SUFFICES ASSUME TypedInv, DialInv, [Next]_vars PROVE DialInv'
  OBVIOUS
<1> USE DEF DialInv, mainVars, nvsVars, wifiVars, httpVars
<1>1. CASE Load
  <2>1. Loadable(Visible) => Visible \in Config /\ Valid(Visible)
    BY DEF Loadable, Visible, TypedInv, TypeOK, Blobs
  <2> QED BY <1>1, <2>1 DEF Load
<1>2. CASE StaStarts
  BY <1>2 DEF StaStarts
<1>3. CASE SystemUp \/ WaitEnds \/ WaitTimesOut \/ WifiStop \/ ApStarts \/ PortalStarts
           \/ Streams \/ StaFails \/ Checked \/ CameraStarts
  BY <1>3 DEF SystemUp, WaitEnds, WaitTimesOut, AfterTimeout, WifiStop, ApStarts,
     PortalStarts, Streams, StaFails, Checked, CameraStarts
<1>4. CASE Restart \/ PowerCut
  BY <1>4 DEF Restart, PowerCut, Reset
<1>5. CASE UNCHANGED <<pc, cfg, radio, sta>>
  BY <1>5
<1> QED
  BY <1>1, <1>2, <1>3, <1>4, <1>5, NextCases
  DEF NvsErased, GotIp, Disconnected, Checks, StreamStep, Event, Post, ClientGone,
      BodyRead, NvsSet, NvsCommit, NvsFails, vars

\* What BootDials refutes is all there is: the driver is given the configured name and
\* password, unless one of them is as long as its field allows (wifi_start_sta).
THEOREM DialsOthers == Spec => []DialsUnlessFull
<1>1. Init => DialInv
  BY DEF Init, DialInv
<1>2. DialInv => DialsUnlessFull
  <2> SUFFICES ASSUME DialInv, radio = "sta", NEW f \in {"ssid", "pass"},
                      cfg[f].len < MaxLen[f]
               PROVE  sta[f] = cfg[f]
    BY DEF DialsUnlessFull
  <2>1. cfg[f] \in Text /\ StaSize[f] = MaxLen[f] /\ StaSize[f] \in Nat
    BY DEF DialInv, Config, Fields, StaSize, MaxLen
  <2>2. Copied(cfg[f], StaSize[f]) = cfg[f]
    BY <2>1, CopiedWhole
  <2> QED BY <2>2 DEF DialInv, StaConfig
<1> QED
  BY <1>1, <1>2, NextDialInv, AlwaysTyped, PTL DEF Spec
===============================================================================
