---------------------------------- MODULE Boot -----------------------------------
(***************************************************************************)
(* One camera from power-on to streaming or to the configuration portal:   *)
(* app_main and the two modes (the main task), the Wi-Fi station and its   *)
(* event handler, the portal's HTTP task, the configuration in NVS, the    *)
(* OTA check and webrtc_stream_init.  The power may be cut at any step.    *)
(*                                                                         *)
(* NVS is modelled from how it is used: nvs_set_blob makes a value visible *)
(* at once, nvs_commit makes it durable, a reset before that keeps the old *)
(* value or the new one, whole.                                            *)
(***************************************************************************)
EXTENDS ConfigStore, StreamInit, OtaCheck

CONSTANTS
  None,      \* no configuration: a blank NVS, or nothing pending
  Corrupt,   \* a blob of another size, magic or version
  Forms,     \* what a browser in the portal may submit
  Networks,  \* the station configurations some access point accepts
  AutoOta,   \* CONFIG_ENABLE_AUTO_OTA
  MaxCuts    \* bound: how often the power is cut

ASSUME BootAssumption ==
  /\ Forms \subseteq Form /\ AutoOta \in BOOLEAN /\ MaxCuts \in Nat
  /\ None \notin Config /\ Corrupt \notin Config /\ Corrupt # None

VARIABLES
  pc,       \* the main task
  stored,   \* the blob in flash
  pending,  \* a blob that was set and not committed
  cfg,      \* cfg of app_main
  radio,    \* the Wi-Fi driver: off, station, access point
  sta,      \* the station configuration the driver was given
  link,     \* the station: idle, connecting, up
  gotIp,    \* WIFI_BIT_GOT_IP
  http,     \* the portal's HTTP task
  form,     \* the request it handles
  acked,    \* history: the last configuration a success page was sent for
  tried,    \* history: the configurations handed to NVS since, or since an erasure
  wiped,    \* history: the partition was erased since the last success page
  cuts      \* how often the power was cut

nvsVars  == <<stored, pending, acked, tried, wiped>>
wifiVars == <<radio, sta, link, gotIp>>
httpVars == <<http, form>>
mainVars == <<pc, cfg, cuts>>
vars == <<mainVars, nvsVars, wifiVars, httpVars, initVars, otaVars>>

Places == {"init", "load", "wifi", "wait", "giveup", "ota", "camera", "stream",
           "running", "ap", "httpd", "portal"}

Init ==
  /\ pc = "init" /\ pending = None /\ cfg = None
  /\ radio = "off" /\ sta = None /\ link = "idle" /\ gotIp = FALSE
  /\ http = "off" /\ form = None
  /\ StreamInitial /\ OtaInitial
  /\ stored \in {None, Corrupt}
  /\ acked = None /\ tried = {} /\ wiped = FALSE /\ cuts = 0

-------------------------------------------------------------------------------
(* Boot: NVS, the LED and the Wi-Fi subsystem, then the stored configuration. *)

\* Every failure aborts, and the abort resets.
SystemUp ==
  /\ pc = "init" /\ pc' = "load"
  /\ UNCHANGED <<cfg, cuts, nvsVars, wifiVars, httpVars, initVars, otaVars>>

\* nvs_flash_init finds no free pages or a newer version: the partition is erased,
\* and with it what was saved.
NvsErased ==
  /\ pc = "init" /\ stored # None
  /\ stored' = None /\ tried' = {} /\ wiped' = TRUE
  /\ UNCHANGED <<mainVars, pending, acked, wifiVars, httpVars, initVars, otaVars>>

Visible == IF pending = None THEN stored ELSE pending

Loadable(blob) == blob \notin {None, Corrupt} /\ Valid(blob)

\* Nothing valid is stored, or NVS cannot be read: the portal opens.
Load ==
  /\ pc = "load"
  /\ \/ Loadable(Visible) /\ cfg' = Visible /\ pc' = "wifi"
     \/ pc' = "ap" /\ UNCHANGED cfg
  /\ UNCHANGED <<cuts, nvsVars, wifiVars, httpVars, initVars, otaVars>>

-------------------------------------------------------------------------------
(* Station mode.  The handler connects when the station starts and again      *)
(* whenever it is disconnected.                                               *)

StaStarts ==
  /\ pc = "wifi" /\ pc' = "wait"
  /\ radio' = "sta" /\ sta' = StaConfig(cfg)
  /\ link' = "connecting" /\ gotIp' = FALSE
  /\ UNCHANGED <<cfg, cuts, nvsVars, httpVars, initVars, otaVars>>

\* A call of the driver fails.
StaFails ==
  /\ pc = "wifi" /\ pc' = "giveup"
  /\ UNCHANGED <<cfg, cuts, nvsVars, wifiVars, httpVars, initVars, otaVars>>

GotIp ==
  /\ radio = "sta" /\ link = "connecting" /\ sta \in Networks
  /\ link' = "up" /\ gotIp' = TRUE
  /\ UNCHANGED <<mainVars, nvsVars, radio, sta, httpVars, initVars, otaVars>>

Disconnected ==
  /\ link = "up" /\ link' = "connecting"
  /\ UNCHANGED <<mainVars, nvsVars, radio, sta, gotIp, httpVars, initVars, otaVars>>

WaitEnds ==
  /\ pc = "wait" /\ gotIp
  /\ pc' = IF AutoOta THEN "ota" ELSE "camera"
  /\ UNCHANGED <<cfg, cuts, nvsVars, wifiVars, httpVars, initVars, otaVars>>

TriesForever == "wifi"   \* mutant: the station is started again

AfterTimeout == "giveup"

\* STA_CONNECT_TIMEOUT_MS; an address that comes now is too late.
WaitTimesOut ==
  /\ pc = "wait" /\ ~gotIp
  /\ pc' = AfterTimeout
  /\ UNCHANGED <<cfg, cuts, nvsVars, wifiVars, httpVars, initVars, otaVars>>

WifiStop ==
  /\ pc = "giveup" /\ pc' = "ap"
  /\ radio' = "off" /\ link' = "idle"
  /\ UNCHANGED <<cfg, cuts, nvsVars, sta, gotIp, httpVars, initVars, otaVars>>

-------------------------------------------------------------------------------
(* Normal mode once the network is up.                                        *)

Checks ==
  /\ pc = "ota" /\ OtaWorks
  /\ UNCHANGED <<mainVars, nvsVars, wifiVars, httpVars, initVars>>

Checked ==
  /\ pc = "ota" /\ otaPc = "done" /\ pc' = "camera"
  /\ otaSent' = 0 /\ otaLen' = 0 /\ otaNul' = 0
  /\ UNCHANGED <<cfg, cuts, nvsVars, wifiVars, httpVars, initVars, otaPc>>

\* A camera that does not start is tried again, which changes nothing.
CameraStarts ==
  /\ pc = "camera" /\ pc' = "stream"
  /\ UNCHANGED <<cfg, cuts, nvsVars, wifiVars, httpVars, initVars, otaVars>>

StreamStep ==
  /\ pc = "stream" /\ (StreamWorks \/ StreamFails)
  /\ UNCHANGED <<mainVars, nvsVars, wifiVars, httpVars, otaVars>>

Event ==
  /\ StreamEvent
  /\ UNCHANGED <<mainVars, nvsVars, wifiVars, httpVars, otaVars>>

Streams ==
  /\ pc = "stream" /\ initPc = "done" /\ pc' = "running"
  /\ UNCHANGED <<cfg, cuts, nvsVars, wifiVars, httpVars, initVars, otaVars>>

-------------------------------------------------------------------------------
(* The portal: there is no way out but a reset.  An access point or a server  *)
(* that does not start is logged.                                             *)

ApStarts ==
  /\ pc = "ap" /\ pc' = "httpd"
  /\ radio' \in {"ap", "off"}
  /\ UNCHANGED <<cfg, cuts, nvsVars, sta, link, gotIp, httpVars, initVars, otaVars>>

PortalStarts ==
  /\ pc = "httpd" /\ pc' = "portal"
  /\ http' \in {"ready", "off"}
  /\ UNCHANGED <<cfg, cuts, nvsVars, wifiVars, form, initVars, otaVars>>

\* POST /save; a body that is too long is refused.
Post ==
  \E f \in Forms :
    /\ http = "ready" /\ radio = "ap" /\ f.size <= MaxFormBody
    /\ http' = "reading" /\ form' = f
    /\ UNCHANGED <<mainVars, nvsVars, wifiVars, initVars, otaVars>>

\* The client goes before its body is read; a receive that times out is repeated.
ClientGone ==
  /\ http = "reading" /\ http' = "ready" /\ form' = None
  /\ UNCHANGED <<mainVars, nvsVars, wifiVars, initVars, otaVars>>

\* The form is served again if what it said is not valid.
BodyRead ==
  /\ http = "reading"
  /\ IF Valid(Parsed(form)) THEN http' = "set" /\ form' = form
                            ELSE http' = "ready" /\ form' = None
  /\ UNCHANGED <<mainVars, nvsVars, wifiVars, initVars, otaVars>>

NvsSet ==
  /\ http = "set" /\ http' = "commit"
  /\ pending' = Parsed(form) /\ tried' = tried \cup {Parsed(form)}
  /\ UNCHANGED <<mainVars, stored, acked, wiped, wifiVars, form, initVars, otaVars>>

NotCommitted == stored   \* mutant: nvs_commit is not called

Committed == pending

\* The success page is sent when both calls went well.
NvsCommit ==
  /\ http = "commit" /\ http' = "saved"
  /\ stored' = Committed /\ pending' = None
  /\ acked' = Parsed(form) /\ tried' = {} /\ wiped' = FALSE
  /\ UNCHANGED <<mainVars, wifiVars, form, initVars, otaVars>>

\* The form is served again; a blob that was set stays visible.
NvsFails ==
  /\ http \in {"set", "commit"} /\ http' = "ready" /\ form' = None
  /\ UNCHANGED <<mainVars, nvsVars, wifiVars, initVars, otaVars>>

-------------------------------------------------------------------------------
(* Resets.                                                                    *)

Reset ==
  /\ pc' = "init" /\ pending' = None /\ cfg' = None
  /\ radio' = "off" /\ sta' = None /\ link' = "idle" /\ gotIp' = FALSE
  /\ http' = "off" /\ form' = None
  /\ StreamLost /\ OtaLost
  /\ stored' \in {stored, Visible}
  /\ UNCHANGED <<acked, tried, wiped>>

\* The saved page has been shown for two seconds.
Restart == http = "saved" /\ Reset /\ UNCHANGED cuts

PowerCut == cuts < MaxCuts /\ cuts' = cuts + 1 /\ Reset

-------------------------------------------------------------------------------
Main == SystemUp \/ Load \/ StaStarts \/ WaitEnds \/ WaitTimesOut \/ WifiStop
        \/ ApStarts \/ PortalStarts \/ Streams

Next ==
  \/ Main \/ NvsErased \/ StaFails \/ GotIp \/ Disconnected
  \/ Checks \/ Checked \/ CameraStarts \/ StreamStep \/ Event
  \/ Post \/ ClientGone \/ BodyRead \/ NvsSet \/ NvsCommit \/ NvsFails
  \/ Restart \/ PowerCut

Spec == Init /\ [][Next]_vars

\* The main task and the httpd task are scheduled, and wait with timeouts.
FairSpec == Spec /\ WF_vars(Main)

-------------------------------------------------------------------------------
(* Properties.                                                                *)

Blobs == Config \cup {None, Corrupt}

TypeOK ==
  /\ pc \in Places /\ stored \in Blobs /\ pending \in Config \cup {None}
  /\ cfg \in Config \cup {None}
  /\ radio \in {"off", "sta", "ap"} /\ link \in {"idle", "connecting", "up"}
  /\ sta \in [{"ssid", "pass"} -> Text] \cup {None} /\ gotIp \in BOOLEAN
  /\ http \in {"off", "ready", "reading", "set", "commit", "saved"}
  /\ form \in Forms \cup {None}
  /\ acked \in Config \cup {None} /\ tried \subseteq Config /\ wiped \in BOOLEAN
  /\ cuts \in 0..MaxCuts
  /\ StreamTypeOK /\ OtaTypeOK

\* config_store.h, "a single blob write is atomic": once the success page was sent,
\* flash holds that configuration or one that was being saved since, whenever the
\* power is cut and whichever nvs_set_blob or nvs_commit fails.  One thing loses it:
\* a boot that finds NVS without free pages or of another version erases the
\* partition (app_main.c:193-197); from then on flash holds nothing, or what was
\* being saved after that.
SavedIsKept ==
  acked # None => stored \in tried \cup {IF wiped THEN None ELSE acked}

\* The form that is served shows the whole of what would be saved again: no stored
\* text is cut by the escaping, however many of its characters need it.
PrefillWhole ==
  Loadable(stored) =>
    \A f \in Fields : Shown(stored[f], EscapeSize(f)) = stored[f].len

\* Nothing gets to flash that config_validate refuses, and a text of it differs from
\* what was submitted only if it did not decode or was longer than its field.
StoredIsSubmitted ==
  /\ stored \in Config => Valid(stored)
  /\ http = "saved" =>
       \A f \in Fields : LET raw == form.fields[f] IN
         raw.decodes /\ raw.text.len <= MaxLen[f] => stored[f] = raw.text

\* The station dials what is configured, but for a text as long as its field.
DialsUnlessFull ==
  radio = "sta" =>
    \A f \in {"ssid", "pass"} : cfg[f].len < MaxLen[f] => sta[f] = cfg[f]

Joinable(blob) == Loadable(blob) /\ StaConfig(blob) \in Networks

\* README.md:56: a configuration that is missing, invalid, or refused by every
\* access point leads to the portal; only a cut of the power can come before.
UnusableReachesPortal ==
  (pc = "load" /\ ~Joinable(Visible)) ~> (pc \in {"portal", "init"})

-------------------------------------------------------------------------------
(* What the documents say and the code does not do: TLC refutes each.         *)

\* README.md:35, "each camera stores them in NVS": what was saved is there until
\* something else is saved.
SavedSurvives == acked # None => stored \in tried \cup {acked}

\* wifi.h:18, "Connect to `ssid`".
DialsConfigured ==
  radio = "sta" => \A f \in {"ssid", "pass"} : sta[f] = cfg[f]

\* web_portal.h:7, "validates and stores the submitted config".
SavedAsSubmitted ==
  http = "saved" => \A f \in Fields : form.fields[f].text = stored[f]

\* webrtc_stream.h:26: a stream that runs can send.
RunningCanSend == pc = "running" => "chunk" \in held

\* webrtc_stream.c:92: the flag is about a client that exists.
ConnectedHasClient == wsConnected => "client" \in held
===============================================================================
