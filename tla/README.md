# A verification project for ESP32-Surveillance

The repository holds a surveillance camera in three parts: firmware for an
ESP32 camera, a signaling server that puts a browser and the camera in touch
over WebRTC (written twice: a Go backend, and a Cloudflare Durable Object that
replaces it), and the page the browser runs.  This directory models the parts
whose correctness depends on the order of events, model-checks them with TLC
and proves theorems about them with TLAPS.

Paths in this file and in `PROJECT.json` are relative to the repository.

## 1. The system

| component | source | state | operations |
|---|---|---|---|
| Go registry | `backend/internal/registry` | per device: socket, viewer slot, last seen; one mutex | Attach, Detach, Online, Send, TryClaimViewer, ReleaseViewer, SendViewer, Close |
| Go signaling hub | `backend/internal/signaling/hub.go`, `cmd/server/main.go` | one goroutine per socket | ServeDeviceWS, ServeViewerWS, shutdown |
| Durable Object hub | `cloudflare/src/devicehub.ts`, `db.ts` | hibernating sockets with attachments, DO storage (claim, activity times, ICE servers), the alarm, a D1 row per device | fetch (connect), webSocketMessage, webSocketClose, alarm |
| Worker front end, TURN credentials | `cloudflare/src/index.ts`, `turn.ts` | none of its own | auth, routing, mintIceServers |
| Firmware signaling and streaming | `esp32-firmware/main/webrtc_stream.c` | connection flags shared by three tasks, peer state, ICE table | websocket events, peer callbacks, peer_task, init, send_frame |
| Firmware LAN fallback | `lan_stream.c` | an HTTP server | start, stop |
| Firmware LED | `led.c` | a queue of commands, the pattern shown, the flashes left | led_set_pattern, led_error_flash, led_task |
| Firmware boot | `app_main.c`, `config_store.c`, `web_portal.c`, `wifi.c`, `camera.c`, `ota.c` | NVS configuration, Wi-Fi state, the portal's HTTP server | portal, normal mode, streaming loop |
| Browser page | `view.html` (two copies) | socket, PeerConnection, chunk assembly | signaling, reconnect, drawing |

How they interact: the device keeps one websocket to the hub; a browser opens
one per viewing session.  The hub relays offer, answer and candidates, gives
the browser its ICE servers and the device the same credentials with the
offer, allows one viewer per device, evicts the viewer when the device goes
(`peer_gone`) and tells the device when the viewer goes (`viewer_gone`).
Frames go from the device to the browser over a WebRTC data channel.

What is hard in each part, and what makes it correct:

- **Go registry and hub.**  The mutex covers single fields, while a relay, a
  claim or a disconnect is several sections with writes to sockets in between.
  A device reconnects before its old handler has noticed the loss (half-open
  sockets, read deadlines), and the shutdown of `main` runs beside everything.
  Correct means: one viewer at a time, the slot always comes back, the late
  cleanup of an old connection does not harm the new one, an evicted viewer
  is closed, and the firmware learns that its viewer left.
- **Durable Object hub.**  Handlers run one at a time only up to an `await` of
  something outside the object (D1, the TURN service).  Closes arrive late,
  the alarm is the only watchdog, and a redeploy ends sockets without events
  and keeps the storage.  Correct means: the claim in storage never belongs to
  a ghost, one device socket is registered, the alarm watches while a device
  is there, a live viewer is not evicted, and the presence row recovers.
- **Firmware cloud/LAN mode.**  Two tasks share flags without a lock, time is
  a 32-bit difference, and `httpd_stop` waits for a handler that streams.
  Correct means: the server and the flags agree, a lost connection is
  noticed, the fallback is neither starved nor wedged.
- **Firmware peer session and frame channel.**  `s_peer_state` and `s_dc_open`
  are written by callbacks on the peer task and by the event handler, and read
  by both and by the streaming task, without a lock.  A frame is cut into
  chunks whose channel is unordered and lossy and whose send may fail.  Correct
  means: the flag settles on the channel's state, a stale session is torn down
  when an offer comes, the relay is in the ICE table, and the browser
  recovers from whatever it missed.
- **LED.**  Four callers share a queue of four places that drops what does not
  fit, and `led_update` runs on two tasks.  Correct means: a flash gives back
  the pattern asked for last, and the pattern is the one due.
- **Boot, portal, configuration.**  The power may go at any step, NVS calls
  fail, `webrtc_stream_init` has eight steps and a release path for each, and
  texts pass through buffers of different sizes.  Correct means: what the
  portal acknowledged survives, nothing dangles after a failed init, no text is
  cut, and a configuration that is of no use leads to the portal.
- **Browser page** (its protocol and its frames; reconnecting is planned).
  Reconnect timers, and messages of an older session that arrive in a newer
  one.

The full list of hazards, each at its line and with the properties aimed at
it, is `hazards` in `PROJECT.json`.

## 2. The modules

| module | models | proofs |
|---|---|---|
| `ViewerSlot` | what either hub promises about the viewer slot (abstract) | - |
| `GoHub` | registry entry, both websocket handlers, shutdown | `GoHubProofs` |
| `DeviceHub` | the Durable Object and its D1 row | `DeviceHubProofs` |
| `LanFallback` | peer task, websocket events, MJPEG server | `LanFallbackProofs` |
| `PeerSession` | the esp_peer session between event handler and peer task, the ICE table | `PeerSessionProofs` |
| `FrameChannel` | streaming task, chunk sender, data channel, assembly and drawing in the page | `FrameChannelProofs` |
| `Led` | LED task and queue, `led_update`, the main task and the portal as callers | `LedProofs` |
| `Boot` | app_main, Wi-Fi station, portal, NVS, resets; composes the next three | `BootProofs` |
| `ConfigStore` | the four texts of the configuration and every copy made of them | in `BootProofs` |
| `StreamInit` | `webrtc_stream_init` and its failure paths | in `BootProofs` |
| `OtaCheck` | the release check and its buffer | in `BootProofs` |

The modules named `MC...` extend these for TLC; they only add symmetry sets
and the values of constants.  `map` in `PROJECT.json` gives, for every
definition that models code, the lines it stands for.  Definitions marked
`\* mutant` are not part of any specification: each is a wrong version of the
operator below it, and `mutants` in `PROJECT.json` names the property that
must fail when it is put in its place.

### ViewerSlot

The state is the slot, the sessions that took it and have not left, the device
connections being served, and whether the hub is serving.  `Take` needs a free
slot, `Leave` frees the slot only if it is the session's own, and only the end
or the replacement of a device connection (or the shutdown) evicts.  Both hubs
are shown to implement it:
`GoHub` and a migrated `DeviceHub` implement `SlotSpec`; `DeviceHub` from a fresh
D1 and through redeploys implements `StoredSlotSpec`, which adds the two things
that can happen to a slot kept in storage: `Redeploy` ends every session and
connection and leaves the slot, and `LateTakeover` is a first contact that
evicts only when the schema check is done, when it may itself be gone.

| | `slot` | `running` | `links` |
|---|---|---|---|
| `GoHub` | `viewer` | sessions whose handler is between claim and release | connections in the read loop |
| `DeviceHub` | `sid` | viewer sockets that are present and were not refused | device sockets not marked stale |

### GoHub

One device ID.  `conn` and `viewer` are the two fields of `registry.Device`;
`dpc`/`dtask` and `vpc`/`vtask` say where each ServeDeviceWS and ServeViewerWS
goroutine stands and which write it is about to make.  **A step is one mutex
section or one websocket call**, so everything the code lets interleave does:
Online and TryClaimViewer are two steps, Send is one step that copies the
socket and one that writes to it.  `sock` is the state of a websocket, with a
peer that is gone unnoticed (`"gone"`) and a closing handshake under way
(`"closing"`).

The firmware and the browser appear through what they send and receive:
`inbox` is what a device socket has yet to deliver, `up` what the device has
sent, `session` the viewer whose offer the firmware answers, `heard` what a
browser received.  A message carries the session it belongs to *in the model
only*; the wire format has no such field, which is what several of the refuted
expectations in section 4 come down to.

A relay's write waits while the socket of a live peer is full, and a write or a
device's read on a socket whose peer vanished ends when TCP says so, which it
may never do (see Fairness).

Left out: Touch, last-seen times and the device list, message contents, how
much TCP buffers of what is written to a peer that vanished.

### DeviceHub

`devicehub.ts:13` says events "run exclusively".  That holds up to the next
`await` that leaves the object: storage operations close the input gate, D1
queries and the TURN request do not.  **A step is therefore a handler, or the
part of it up to such an await**; `joining`, `leaving`, `minting` and
`touching` say which answers are outstanding.  The D1 row changes in the step
that takes the answer.  `viewIdle` and `devIdle` stand for "the activity time
in storage is older than the limit": they are set by the passing of time and
cleared where the code stores a new time.

A socket is `"open"`, `"lost"` (the client is gone, no event yet), `"dying"`
(the object called close; the close event comes later and the client may still
send) or `"gone"`.  `Restart` is a redeploy: sockets vanish without events,
handlers stop, storage and the alarm stay.

`MaxSockets` bounds the sockets opened altogether.

Left out: the device list query, the texts of errors, `turn.ts` (the request for
credentials and the choice of URLs: mintIceServers answers and never throws).

### LanFallback

The variables have the names of the code's flags and locals.  The peer task
(`ppc`) and the event handler (`wpc`) run on two tasks without a lock, so **a
step reads or writes one shared flag**.  `up` is what
`esp_websocket_client_is_connected` would say.  `Tick` moves a clock of
`ClockSize` ticks that wraps like the 32-bit millisecond clock, and differences
are taken modulo `ClockSize` like the code's unsigned subtraction.  A tick is
30 s; at most one passes in a round of the peer loop (200 ms in the code),
unless the loop is blocked in `httpd_stop`.  `downFor` and `untried` are
history variables, read by properties only.

Left out: what `led_update` shows (`Led` has it), the streaming loop that frees
the camera for the LAN handler (the camera is a flag: frames or none).

### PeerSession

Two actors again: the event handler (`wpc`) with CONNECTED, a lost link,
viewer_gone and the stages of `handle_offer` (look at `s_peer_state`, rebuild
the table, open the connection, hand over the SDP), and the peer task (`ppc`),
which inside `esp_peer_main_loop` reports a state or an answer to
`on_peer_state` and `on_peer_msg`.  **A step reads or writes one of
`s_peer_state`, `s_dc_open`, or makes one library call.**  The library is
external and its session is `lib`; what is assumed of it stands at the head of
the module: calls from the handler take effect at once, reports come one at a
time and in order, a disconnected session is reported DISCONNECTED before its
successor makes progress, and a new connection over a session fails or ends
it.  `fed`, `answered`, `libId`, `msgFor` and `tableOf` say which offer the
session, the answer and the table belong to; the wire and the code have no such
field.

`IceServers` is `build_ice_servers` as an operator: a URL is whether it is a
string, fits its storage and names UDP.  `StunLoop` gives the table after each
round of the loop over the STUN URLs, as a recursive function that the proofs can
reason about; `Taken` is what a round asks before it copies.  The comment over `copy_ice_url` says
"truncating"; the code rejects a URL that does not fit, and so does the model.

Left out: candidates (`ice` messages and those embedded in the SDP), which are
passed on and change no state of the firmware; the SDP's text.

### FrameChannel

A chunk is a record of its frame, its place and its flags.  Only the flags are
on the wire: frame and place exist so that properties can say what was joined.
The sender looks at `s_dc_open` once per frame and then sends chunk by chunk;
between two chunks the session may end and another begin.  `air` is the data
channel: any chunk in it may arrive next, or be lost (`maxRetransmits` 1,
unordered), unless `calm`, which is chosen at the start, says that the network
does neither.  The page is `onChunk`, `drawFrame` and the bitmaps
`createImageBitmap` is busy with, which are ready in any order.  `run` and
`arrived` record what came in a row; they are history, written by no code.

Left out: the bytes of a chunk and its length field, the canvas' size, and
what a decoder makes of a blob that is not a JPEG (it may be drawn or not).

### Led

`Send` is `xQueueSend` without waiting.  The LED task drains the queue before
each period and shows one period at a time (`Receive`, `Show`, `Shown`).  The
callers are the main task (portal, normal mode, camera failure), the portal's
handler, and `led_update`, which takes three steps: read `s_ws_connected`, read
`s_lan_active`, queue the pattern.  `mode` is what the main task is doing;
changes of the two flags come from the handler (`WsChanges`) and the peer task
(`PeerHeals`, `PeerServesLan`, `PeerLeavesLan`), whose conditions are
`LanFallback`'s business.  `taken` and `raced` are history.

Left out: the GPIO levels and lengths of a pattern's period.

### Boot, ConfigStore, StreamInit, OtaCheck

`Boot` extends the other three and is one camera.  `pc` is the main task,
`link` and `gotIp` the station with its event handler, `http` the portal's
handler of `/save`, `initPc` the step of `webrtc_stream_init`, `otaPc` the
release check.  A reset (`Restart` after a save, `PowerCut` at any step) loses
everything but flash.  NVS is external: `nvs_set_blob` makes a value visible at
once (`pending`), `nvs_commit` makes it durable (`stored`), and a reset in
between keeps the old value or the new one, whole.  Every call of NVS, Wi-Fi
and init may fail where the code has a path for it; NVS may be unreadable at
`Load`.

`ConfigStore` keeps of a text what the copies tell apart: its length, its first
bad character, and how many bytes of HTML one of its characters takes.
`Copied` is `strlcpy`, `Shown` is `html_escape`, `Parsed` is `parse_form` with
`url_decode`.

`StreamInit` has one step per acquisition; `Releases` lists what each failure
path gives back, in its order.  The event handler may run from the start of the
client to its destruction.  Destroying the client is taken to end its task
without a last event.

`OtaCheck` is the HTTP event handler that collects the body, with the
terminator written behind it.

Left out: what the parsed release says (it reaches the log only), the pages'
text, `GET /`, which changes nothing, the time a step takes.

## 3. The runs that pass

| run (`.cfg`) | distinct states | what it shows |
|---|---|---|
| `GoHub` | 2.3 M | Two device connections and two sessions, without shutdown.  `SlotIsReleasable`: no path leaks the slot.  `OnlineIsServed`: nothing shows as online with no reader.  `OneServedViewer`: a second session is never served beside the first, except while the first is being closed.  `OnlyOwnerTakesOffline`: a stale Detach does not unregister a newer socket.  `ImplementsViewerSlot`. |
| `GoHubStop` | 168 K | A device that reconnects, one session, and the shutdown racing with both.  `BrokenSocketUnwinds`: a session whose browser vanished or whose socket the hub closed ends and gives the slot back, unless its handler waits for ever in a relay to a device that vanished; a device whose socket a write of the hub poisoned goes offline.  `DeviceLearnsOfLeaving`. |
| `DeviceHub` | 1.1 M | Two device sockets and two sessions over a migrated D1 that answers in any order.  `ClaimHasDevice` (a session never outlives its device), `AlarmArmed` (the `deleteAlarm` of an old socket never disarms a newer one), `OnlyIdleEvicted` (the alarm's stale copy of `viewerSid` never costs a newer viewer its session), `ImplementsViewerSlot`. |
| `DeviceHubRestart` | 158 K | A fresh D1 (two first contacts both wait in `ensureDatabase`), failing queries, a redeploy at any moment: `SlotIsBacked` (the claim is never a ghost's) and `OneDeviceSocket`. |
| `DeviceHubLive` | 164 K | Three sockets at most: a device that reconnects and a viewer, or a device, the claimant and a viewer that is refused and pings.  `HalfOpenReaped`, `PresenceRecovers`, `SilentViewerFreed` (the refused viewer's pings refresh the claimant's idle time), `DeviceLearnsOfLeaving` under fairness. |
| `LanFallback` | 342 K | `LanInStep`, `FlagIsFresh` (within one ping interval and three rounds of the loop, which is inside the hub's 90 s, the peer task pings or, when the ping fails, asks the client, and so finds a stale `s_ws_connected`), `StormKeepsCountdown`, `FallbackEngages`, `DeadCameraCannotWedge`, with failing starts and a storm of error events. |
| `FrameChannel` | 743 K | `Resyncs`: whatever was lost, overtaken or cut before, chunks that arrive in a row from a head are assembled and drawn as they are.  `CalmDrawsWhole`: without loss and reordering only whole frames are drawn, although the channel is full, sends fail, and sessions end between two chunks. |
| `PeerSession` | 199 K | `FlagTracksChannel`: in whatever order the two tasks write, `s_dc_open` settles on the state of the session's channel.  `OfferTearsDown`: an offer that finds a session with SCTP up ends it, though `s_peer_state` runs behind the library.  `TurnKept`: STUN servers never crowd the relay out of the table. |
| `Led` | 509 K | `FlashRestores`: flashes that overlap or queue up give back the pattern asked for last.  `WrongOnlyByRace`: with nothing being queued, the pattern is the one due unless callers of `led_update` overlapped, a command found the queue full, or the LAN server stopped after the cloud had gone again. |
| `Boot` | 187 K | `SavedIsKept`: a configuration whose success page was sent, or a later one, stays in flash whenever the power is cut and whichever write to NVS fails; only a boot that erases the partition loses it.  `PrefillWhole`: no stored text is cut by the escaping.  `NothingDangles`: the event handler never runs over released handles, and a failed init holds nothing.  `UnusableReachesPortal`.  Its `TypeOK` includes that the terminator of the release check stays inside its buffer. |

**Bounds.**  The hazards of the hubs need an old and a new device connection
and an old and a new viewer, so two of each; every connection is used once,
because a reconnect in the code is a new socket with a new handler.  Where
liveness or the shutdown enlarges the state, `GoHubStop` keeps one viewer, since its
properties relate a viewer to a device and not to another viewer, and
`DeviceHubLive` opens three of its four sockets (`MaxSockets`): the order of D1
writes needs two connections, the pings of a refused viewer need two viewers, and
nothing the properties speak of needs both.  `MaxInbox`
and `MaxUp` bound the messages under way to and from the device: at 1 for the passing
runs, at 2 where a finding needs a viewer_gone behind an offer.  `MaxRestarts`
is 1, since a second redeploy meets nothing in storage the first did not.  In
`LanFallback` the ping interval is one tick and the window two, as 30 s is to
60 s; `ClockSize` 5 leaves room for a stamp just before and a sample just after
the wrap.  Permuting connections or viewers changes nothing in the code, so the
safety runs use symmetry; runs with liveness do not.

`FrameChannel` has three frames (an older and a newer one around the one that
is cut), of up to three chunks (head, middle, tail), the two-chunk ones staged
and the three-chunk ones not, a channel that is full at three, and two
sessions.  `PeerSession` has three offers, since a stale session may itself
have replaced one, and a table of three places, so that three STUN servers
reach the limit; the bodies in `MCPeerSession` hold URLs that are too long or no
strings at each end of the list.  `Led` has the code's queue of four.  `Boot`
cuts the power twice (once while saving and once more while booting what was
saved); its forms are at and one beyond each limit: every text as long as it
may be with every character escaped, a text that is cut, one with a bad
character, one that does not decode, a body that is too long; the release check
has a buffer of 4 bytes for bodies of up to 6 in chunks of up to 3.

**Deadlock** is checked in every run but those of `Boot`.  The two hubs and
`FrameChannel` have a `Finished` step for the state in which the instance is
used up and nothing is under way; any other state without a successor is an
error.  `Boot` says `CHECK_DEADLOCK FALSE`: a portal whose access point or
server did not start waits for ever in the code too (`enter_portal_mode` has
no way out but a reset).

**Fairness.**  `GoHub`: goroutines are scheduled, and a write that waits for
another on the same socket gets its turn (strong fairness of a handler's
steps); the library ends a closing handshake
after 5 s; the firmware handles what it receives.  Nothing is assumed of TCP: a
device's read and a relay's write have no deadline (`context.Background()`,
`hub.go:111` and `:205`), and on a socket whose peer vanished they may wait for
ever (`DeviceWaitsForTcp`, `ViewerWaitsForTcp`).  A viewer's read has 60 s, and
what the cleanup writes has 5 s.  `DeviceHub`: D1 and the TURN
request answer, the alarm fires, a socket the object closed gets its close
event, and the time limits pass for those who are gone.  `LanFallback`: both
tasks and the clock keep running, the handler's loop goes round, and
`httpd_start` does not fail for ever (strong fairness of `PeerStarts`; each
failure waits for another window), and the server's task takes the message of
`httpd_stop` in the end though clients keep opening streams (strong fairness of
`PeerStops`).  `Boot`: the main task is scheduled and its
wait for an address times out; nothing is assumed of the access point, the
release check, the camera or the power.  `PeerSession`,
`FrameChannel` and `Led` state safety only.  In none of them does anybody have to
connect, to speak, to leave, to dial successfully, or to stop the server.

**What the properties do not say.**  `BrokenSocketUnwinds` says nothing of a
device that vanished silently, which shows as online until TCP reports it or it
reconnects, and exempts a session that waits for ever in a relay to one; section
4 has both as refuted expectations.  `SavedIsKept` exempts the erasure of NVS at a
boot (`app_main.c:193-197`).  `FlagIsFresh` counts a failed ping on a live
connection as a look at it, although the next ping is 30 s away; it does not
count the time the peer task is blocked in `httpd_stop`; that wait has no limit when the camera is
live and the client keeps reading (`ConnectedStopsLan` below).  `HalfOpenReaped`
exempts a device with a claimed slot, as the code does.  `AlarmArmed` is checked
with a D1 that answers; see below for one that does not.  `FlagTracksChannel`
says nothing while a report is under way, when frames may be handed to a
channel that is closing (the library refuses them).  `CalmDrawsWhole` needs the
calm: on a lossy network frames are joined from what arrives (`DrawsWhole`
below).  `UnusableReachesPortal` counts a reset as an answer, since the boot
then starts again.

## 4. What the code does not do

Two runs state what a comment in the repository says, and TLC refutes each.
`findings` in `PROJECT.json` quotes the lines.

| run | expectation | what happens |
|---|---|---|
| `GoHubGoneEndsOwnSession` | `GoneEndsOwnSession`: viewer_gone ends the session that left | The slot is released before viewer_gone is sent; the next viewer's offer can go first, and the firmware then tears the new session down. |
| `BootDials` | `DialsConfigured`: the station connects to the configured network | `strlcpy` into the driver's 32 bytes keeps one for a NUL: a name of 32 characters, which validation accepts, is cut to 31 (and a password of 64 to 63).  That nothing shorter is changed on the way is the theorem `DialsOthers`. |

Further expectations that the code does not meet are stated at the end of the
modules and are not runs of their own.  To see one fail, copy the `.cfg` named
here, replace its list of properties by the one line, and run TLC on the MC
module.

| copy | line | fails because |
|---|---|---|
| `GoHubGoneEndsOwnSession` | `INVARIANT SessionHasDevice` | Online is true, the device detaches and finds no viewer to evict, TryClaimViewer succeeds: the viewer waits for a device that is not there until it leaves by itself |
| `GoHubGoneEndsOwnSession` | `INVARIANT LiveMeansOnline` | the older of two connections attaches last, replaces the newer and then detaches; the newer is live and served, the device is offline |
| `GoHubGoneEndsOwnSession` | `PROPERTY ReconnectEvicts` | Attach replaces the socket and keeps the viewer; the eviction is left to a Detach that no longer owns the socket |
| `GoHubGoneEndsOwnSession` | `INVARIANT WriteTargetsCurrent` | the socket is copied under the mutex and written to after it |
| `GoHubGoneEndsOwnSession` | `INVARIANT IceServersFirst` | the slot is claimed before ice_servers is sent, and an answer meant for the previous viewer is relayed to the new one in between |
| `GoHubGoneEndsOwnSession` | `INVARIANT UnknownDeviceIsRefused` | the device is looked up after the upgrade |
| `GoHubStop` | `INVARIANT ShutdownClosesAll` | a handler attaches after the shutdown took its list |
| `GoHubStop` | `PROPERTY HalfOpenDeviceDetached` | the read of a device has no deadline: until TCP reports the loss or the device reconnects, a device that vanished shows as online |
| `GoHubStop` | `PROPERTY SilentViewerEvicted` | the 60 s are those of the read: a handler that waits in `dev.Send` for a device that vanished keeps the slot of a browser that vanished too |
| `DeviceHub`, without `SYMMETRY` | `INVARIANT PresenceSettles` | a device drops while its upsert is under way; offline is written and then online, and with no device left nothing corrects the row |
| `DeviceHub`, without `SYMMETRY` | `PROPERTY OfferCarriesOwnCredentials` | two mints overlap and the evicted viewer's answer comes last |
| `DeviceHub`, without `SYMMETRY` | `PROPERTY OffersComeFromClaimant` | the messages of a viewer whose close is being flushed are still relayed |
| `DeviceHub`, without `SYMMETRY` | `INVARIANT IceServersFirst` | as in the Go hub: a late answer reaches the next viewer while its credentials are being minted |
| `DeviceHub`, with `D1Fails = TRUE` | `INVARIANT AlarmArmed` | the upsert throws and `setAlarm` behind it is skipped (DeviceConnect, JoinFails) |
| `LanFallback` | `PROPERTY FallbackNotEarly` | a disconnect stamps a time later than the sample of the peer task; the unsigned difference is huge and the server starts at once |
| `LanFallback` | `PROPERTY ConnectedStopsLan` | `httpd_stop` waits for a handler whose client keeps reading; the peer task is blocked with it |
| `LanFallback` | `INVARIANT FlagFollowsConnection` | is_connected says no, the client connects, and the self-heal then clears the flag of the live connection: it stays cleared until the next loss |
| `FrameChannel` | `INVARIANT DrawsWhole` | only a lost head is noticed; a frame whose middle was lost or overtaken is drawn |
| `FrameChannel` | `PROPERTY NeverBack` | `createImageBitmap` answers in any order, so an older frame may be drawn over a newer one |
| `FrameChannel` | `INVARIANT TailHasHead` | the session changes between two chunks and the new channel gets the tail only |
| `PeerSession` | `PROPERTY BegunOverNone` | the first session is at NEW_CONNECTION, or its report is not in yet, and `handle_offer` does not tear it down before the next |
| `PeerSession` | `INVARIANT AnswersLastOffer` | the answer is forwarded without its session: it may be the one to the offer before |
| `PeerSession` | `INVARIANT TableIsItsOwn` | the table is rebuilt in place while a session that was not torn down still points into it |
| `Led` | `INVARIANT LedShowsMode` | one of the three races of `WrongOnlyByRace` |
| `Boot` | `INVARIANT SavedSurvives` | a boot that finds NVS without free pages or of another version erases it, and the portal opens |
| `Boot` | `INVARIANT SavedAsSubmitted` | a text that is too long is cut, one that does not decode is left empty, and what remains may be valid |
| `Boot` | `INVARIANT RunningCanSend` | the stream is declared ready without its chunk buffer |
| `Boot` | `INVARIANT ConnectedHasClient` | an event sets `s_ws_connected` and init then fails; the release path does not clear the flag |
| `Boot` | `PROPERTY OtaTruncates` | a chunk that does not fit is left out, and a smaller one behind it is not |

One sentence of the repository's README, that the camera reopens the portal
when "the stored WiFi credentials stop working", is true at boot only: a
station that loses its access point later reconnects for ever (`Disconnected`
has no way to `giveup`).

## 5. The theorems

All are for any number of connections and viewers, any bounds, and any
clock; each module's only assumptions are the named `ASSUME`s on its constants
(`GoHubAssumption`, `LedAssumption` and so on), which TLC
evaluates in every run, and those stated in the theorem.

**GoHubProofs.**  The inductive invariant is
`TypeOK /\ SlotIsReleasable /\ OnlineIsServed /\ OneServedViewer`: exclusion
needs to know that whoever is in the slot still has its release to run, and
that the registered socket's handler is in its loop, so that the Detach that
evicts is still to come.  `TypeCorrect`, `NothingLeaks`,
`OnlineServed` and `Exclusion` are its conjuncts; `OwnerOnly` (`OnlyOwnerTakesOffline`) goes through the
steps that change `conn`.  `Refinement` (`ImplementsViewerSlot`) maps each step
of the hub to a step of `ViewerSlot` or a stutter: ViewerClaim to Take,
ViewerRelease to Leave, DeviceAttach to LinkUp, DeviceDetach to LinkDown (of the
owner) and so on; it uses the invariant for the releases, which are steps of
`ViewerSlot` only for a session that is running.

**DeviceHubProofs.**  `Inv` is `TypeOK`, `SlotIsBacked`, `ClaimHasDevice`,
`ClaimantCame`, `SoleRegistered` and `RegisteredMigrated`.  `ClaimantCame` says
that whoever is in the slot has connected, so that the socket a redeploy ends
is not one that comes later.
`SoleRegistered` says that a registered socket that is not stale is the only
active one, and `RegisteredMigrated` that a registered
socket has the `dbReady` flag behind it: a connection that registers at once
would otherwise meet another that is still waiting for the schema check.  `TypeCorrect`,
`SlotNeverGhost`, `ClaimEndsWithDevice`, `SoleDevice` and `EvictedForCause` hold
with failing queries and any number of redeploys.  `AlarmWatches` assumes
`D1Fails = FALSE` (it is false otherwise, see section 4).  `StoredRefinement`
(`ImplementsStoredSlot`) has no hypothesis: each step of the object is a step of
`StoredSlotNext` or a stutter, whatever D1 does.  `Refinement`
(`ImplementsViewerSlot`) follows the same case lemmas and assumes
`Migrated = TRUE` and `MaxRestarts = 0`, under which the two additional steps cannot
happen (`NoFirstContact`): a device socket that waits for the schema check is a link
before it evicts anybody, and a redeploy ends sessions without touching the
slot, neither of which `SlotSpec` has.

**LanFallbackProofs.**  `Inv` adds `PeerKnows` to `TypeOK` and `LanInStep`:
where the peer task stands says what `lan_up` must be (it stops only a server
that runs, and starts one only when none does).  `ServerTracked`
is `LanInStep`; `CountdownKept` is `StormKeepsCountdown`, by cases on the step
that writes the stamp.  `FlagFresh` (`FlagIsFresh`) is about time, and its
invariant counts: `OneTick` says that the clock moved at most once since the
peer task read it, and `Fresh` bounds `untried`, the ticks since the connection was
last found up, at every place of the round: by a constant in the first rounds, which
a LAN server may hold up, and from then on by the time since the last ping and two
more, until the ping is due.  `SinceLemma` and `SinceTick` are the arithmetic of the
wrapping difference: a tick adds one to it unless that reaches the size of the
clock, which the ping prevents.

**PeerSessionProofs.**  `FlagTracks` rests on `Tracking`: the flag that
will hold once the report under way is dealt with (`Settled`) is right, a
report is about the session as it still is, and a disconnected session leaves
nothing but its report.  `TearsDown` rests on `Noticed`: once SCTP is up,
`s_peer_state` has left the states `handle_offer` takes for idle, because the
report before it was stored before the library could go on.
`TypeCorrect` (`TypeOK`, with the ICE table) and `RelayKept` (`TurnKept`) need what the loop
of `build_ice_servers` computes.  The provers see a recursive function as the
choice of one that satisfies its equation, so `LoopExists` first shows that there is one, `LoopUnfolds` that it satisfies the equation, and `StunTable` that
after every round the table holds URLs that fit and leaves a place for TURN.  The
induction in these is `SetInduction`: a set of naturals with 0 and every successor
is all of them, since the naturals outside it would have a least member.  It rests
on the library's theorem on well-founded minima, which, unlike its induction
theorems, has no operator as a parameter.

**FrameChannelProofs.**  `Resynchronises` is inductive with the types.
`CalmWhole` needs `Orderly`: on a calm network the chunks under way follow each
other, the first of them follows what the page holds, and the sender's next one
follows the last of them, so that whatever does not follow is the head of a
frame.  `CalmInOrder` (`CalmDrawsInOrder`: frames are drawn in the order of their
capture and none twice) adds `Numbered`: a frame whose end was sent is older than
every chunk sent after it, and one that was drawn is older than whatever is under
way or still to be sent.

**LedProofs.**  `Restores` is inductive with the types.  `RaceOnly` needs
`OnItsWay`: a `led_update` with which nothing raced is the only one under way,
and what it has read is still so (`Alone`); and with none under way, the last
command in the queue that is not a flash, or else the current pattern, is the
one due (`Latest`).

**BootProofs.**  `Undangling` from `StreamInv`: what is held at each step of
init and at each step of the unwinding, by table.  `Kept` from `SaveInv`: a blob
that awaits its commit is one of those tried, and the portal's handler runs only
in the portal, so `nvs_flash_erase`, which runs at boot, never meets it.  What an
erasure does to a configuration that was acknowledged is in the statement: `wiped`,
set by it and cleared by the next success page, is the one exception.  `TypeCorrect` from
`TypedInv`; that the parsed form is a configuration is a lemma about `Copied`.
`PrefillsWhole` is arithmetic over `Shown` and `EscapeSize` from the lengths
`Valid` allows.  `StoresSubmitted` (`StoredIsSubmitted`: flash holds nothing that
`config_validate` refuses, and a stored text is the one submitted unless that did
not decode or was too long) rests on `ValidInv`: a blob is valid before it is handed to NVS,
and what is stored stays the parsed form until the success page is sent; `DialsOthers` (`DialsUnlessFull`) on
`DialInv`: the driver has the configuration that was loaded, as far as it fits.

**Only model-checked:** everything under fairness (the `~>` properties:
`BrokenSocketUnwinds`, `HalfOpenReaped`, `FallbackEngages`, `UnusableReachesPortal`
and the like), which needs ENABLED and is out of the prover's reach.  Every
safety invariant and action property of the runs that pass is a theorem.

**Only proved:** `ImplementsStoredSlot`, `CalmDrawsInOrder`, `StoredIsSubmitted` and
`DialsUnlessFull` are not among the properties of a run; each holds under TLC
with the constants of its module's `.cfg` (`ImplementsStoredSlot` with those of
`DeviceHubRestart`).  `GoHubStop` checks liveness; that the slot is releasable
and held by one viewer *during a shutdown* is what the theorems of
`GoHubProofs` say for any `CanStop`.  In the same way `SlotIsBacked` and
`OneDeviceSocket` for two viewers are `DeviceHubProofs`'.

## 6. What is not modelled, and the plan

Not modelled, and not planned: the Worker's login cookie and routing, the
HTTP API, the UI templates, the Go configuration, the wrapper around the
third-party TURN server, `device_id.c` (stateless or sequential code with no
order to get wrong); `ota_apply`, which nothing calls; the camera driver;
last-seen times and the Go device list; build, CI and scripts.

Seen, and outside the model: the portal's `/save` repeats a receive that times
out without limit (`web_portal.c:197`), so a client that stays silent keeps the
portal's only HTTP task; the model has the client going away, and neither
fairness nor a property about one that does not.

Next, in this order:

1. `ViewerPage`: reconnect timers and messages across sessions
   (`view.html`, `connect`, `restartSession`, `ws.onclose`), composed with
   `ViewerSlot`.  Properties: a page without a socket has its timer armed; a
   page that keeps trying gets the slot once its holder has left.
2. `IceChoice`: the choice of URLs in `turn.ts` as an operator, checked against
   a reference definition, feeding `PeerSession`'s bodies.
3. `StreamInit` against an abstract specification of its own: all that was
   acquired is released once.
