----------------------------------- MODULE Led -----------------------------------
(***************************************************************************)
(* The status LED: the LED task and its queue (led.c), and those who ask   *)
(* for patterns: the main task while it boots, the portal's HTTP task, and *)
(* led_update, which the peer task and the websocket event handler run     *)
(* without a lock.                                                         *)
(*                                                                         *)
(* led_update reads s_ws_connected, perhaps s_lan_active, and queues a     *)
(* command: three steps.  The flags change where LanFallback changes them; *)
(* what makes them change is left to that module.                          *)
(***************************************************************************)
EXTENDS Naturals, Sequences

CONSTANT QueueLen  \* LED_QUEUE_LEN

ASSUME LedAssumption == QueueLen \in Nat \ {0}

VARIABLES
  mode,      \* what the main task is doing
  connected, \* s_ws_connected
  lanActive, \* s_lan_active
  task,      \* where each of the two callers is in its step
  queue,     \* s_led_queue
  ledPc,     \* the LED task drains the queue, or shows a pattern
  current,   \* current of led_task
  restore,   \* restore
  flashes,   \* transient_remaining
  lit,       \* the pattern the LED shows
  taken,     \* history: the last persistent pattern taken from the queue
  raced      \* history: since the last led_update began, the two callers overlapped,
             \* a command was dropped, or the LAN server stopped with the cloud gone

ledVars  == <<ledPc, current, restore, flashes, lit, taken>>
flagVars == <<connected, lanActive>>
vars == <<mode, connected, lanActive, task, queue, ledPc, current, restore,
          flashes, lit, taken, raced>>

Patterns == {"off", "solid", "double", "slow", "fast"}
Callers  == {"peer", "ws"}
Modes    == {"boot", "portal", "wifi", "camera", "running"}
Steps    == {"idle", "connected", "lan", "solid", "slow", "fast"}
\* A camera that does not start, and a form that is not accepted.
CameraFlashes == 2
PortalFlashes == 3
MaxFlashes    == 3

Commands == [pattern: Patterns, flashes: 0..MaxFlashes]

Pattern(p) == [pattern |-> p, flashes |-> 0]
Flash(n)   == [pattern |-> "fast", flashes |-> n]

Init ==
  /\ mode = "boot" /\ connected = FALSE /\ lanActive = FALSE
  /\ task = [t \in Callers |-> "idle"]
  /\ queue = <<>> /\ ledPc = "drain"
  /\ current = "off" /\ restore = "off" /\ flashes = 0 /\ lit = "off"
  /\ taken = "off" /\ raced = FALSE

-------------------------------------------------------------------------------
(* The queue: xQueueSend without waiting drops the command when it is full. *)

Full == Len(queue) = QueueLen

NeverFull == TRUE   \* mutant: the queue grows

HasRoom == ~Full

Send(cmd) ==
  /\ queue' = IF HasRoom THEN Append(queue, cmd) ELSE queue
  /\ raced' = (raced \/ ~HasRoom)

-------------------------------------------------------------------------------
(* The main task and the portal.                                            *)

EnterPortal ==
  /\ mode \in {"boot", "wifi"}
  /\ mode' = "portal"
  /\ Send(Pattern("double"))
  /\ UNCHANGED <<flagVars, task, ledVars>>

EnterNormal ==
  /\ mode = "boot" /\ mode' = "wifi"
  /\ Send(Pattern("fast"))
  /\ UNCHANGED <<flagVars, task, ledVars>>

\* The access point was joined: the main task starts the camera, then the stream.
WifiUp ==
  /\ mode = "wifi" /\ mode' = "camera"
  /\ UNCHANGED <<flagVars, task, queue, ledVars, raced>>

ErrorFlash ==
  /\ \/ mode = "camera" /\ Send(Flash(CameraFlashes))
     \/ mode = "portal" /\ Send(Flash(PortalFlashes))
  /\ UNCHANGED <<mode, flagVars, task, ledVars>>

StreamStarts ==
  /\ mode = "camera" /\ mode' = "running"
  /\ UNCHANGED <<flagVars, task, queue, ledVars, raced>>

-------------------------------------------------------------------------------
(* led_update and what precedes it.                                         *)

Other(t) == IF t = "peer" THEN "ws" ELSE "peer"

\* The other task has read a flag, or is about to, and has not queued its command.
Overlaps(t) == task[Other(t)] # "idle"

\* CONNECTED; DISCONNECTED, CLOSED or ERROR.
WsChanges(b) ==
  /\ mode = "running" /\ task["ws"] = "idle"
  /\ connected' = b
  /\ task' = [task EXCEPT !["ws"] = "connected"]
  /\ raced' = Overlaps("ws")
  /\ UNCHANGED <<mode, lanActive, queue, ledVars>>

\* The self-heal after a failed ping; a LAN server that came up.
PeerHeals ==
  /\ mode = "running" /\ task["peer"] = "idle"
  /\ connected' = FALSE
  /\ task' = [task EXCEPT !["peer"] = "connected"]
  /\ raced' = Overlaps("peer")
  /\ UNCHANGED <<mode, lanActive, queue, ledVars>>

NotShown == "idle"   \* mutant: the mode change is not shown

LanShown == "connected"

PeerServesLan ==
  /\ mode = "running" /\ task["peer"] = "idle" /\ ~lanActive
  /\ lanActive' = TRUE
  /\ task' = [task EXCEPT !["peer"] = LanShown]
  /\ raced' = Overlaps("peer")
  /\ UNCHANGED <<mode, connected, queue, ledVars>>

\* The cloud is back; nothing is queued, since the handler has done so.
PeerLeavesLan ==
  /\ mode = "running" /\ task["peer"] = "idle" /\ lanActive
  /\ lanActive' = FALSE
  /\ raced' = (raced \/ Overlaps("peer") \/ ~connected)
  /\ UNCHANGED <<mode, connected, task, queue, ledVars>>

ReadsConnected(t) ==
  /\ task[t] = "connected"
  /\ task' = [task EXCEPT ![t] = IF connected THEN "solid" ELSE "lan"]
  /\ UNCHANGED <<mode, flagVars, queue, ledVars, raced>>

ReadsLan(t) ==
  /\ task[t] = "lan"
  /\ task' = [task EXCEPT ![t] = IF lanActive THEN "slow" ELSE "fast"]
  /\ UNCHANGED <<mode, flagVars, queue, ledVars, raced>>

SetsPattern(t) ==
  /\ task[t] \in Patterns
  /\ Send(Pattern(task[t]))
  /\ task' = [task EXCEPT ![t] = "idle"]
  /\ UNCHANGED <<mode, flagVars, ledVars>>

LedUpdate(t) == ReadsConnected(t) \/ ReadsLan(t) \/ SetsPattern(t)

-------------------------------------------------------------------------------
(* The LED task.                                                            *)

\* A transient is remembered over the pattern it interrupts; a pattern ends it.
RestoresFlash(cmd) == "fast"   \* mutant: the flash is what comes back

Restored(cmd) == current

Receive ==
  /\ ledPc = "drain" /\ queue # <<>>
  /\ LET cmd == Head(queue) IN
       IF cmd.flashes > 0
       THEN /\ flashes' = cmd.flashes /\ restore' = Restored(cmd)
            /\ UNCHANGED <<current, taken>>
       ELSE /\ flashes' = 0 /\ current' = cmd.pattern /\ taken' = cmd.pattern
            /\ UNCHANGED restore
  /\ queue' = Tail(queue)
  /\ UNCHANGED <<mode, flagVars, task, ledPc, lit, raced>>

Show ==
  /\ ledPc = "drain" /\ queue = <<>>
  /\ ledPc' = "show"
  /\ lit' = IF flashes > 0 THEN "fast" ELSE current
  /\ UNCHANGED <<mode, flagVars, task, queue, current, restore, flashes, taken,
                 raced>>

\* One period of the pattern is over.
Shown ==
  /\ ledPc = "show" /\ ledPc' = "drain"
  /\ flashes' = IF flashes > 0 THEN flashes - 1 ELSE 0
  /\ current' = IF flashes = 1 THEN restore ELSE current
  /\ UNCHANGED <<mode, flagVars, task, queue, restore, lit, taken, raced>>

-------------------------------------------------------------------------------
Next ==
  \/ EnterPortal \/ EnterNormal \/ WifiUp \/ ErrorFlash \/ StreamStarts
  \/ \E b \in BOOLEAN : WsChanges(b)
  \/ PeerHeals \/ PeerServesLan \/ PeerLeavesLan
  \/ \E t \in Callers : LedUpdate(t)
  \/ Receive \/ Show \/ Shown

Spec == Init /\ [][Next]_vars

-------------------------------------------------------------------------------
(* Properties.                                                              *)

TypeOK ==
  /\ mode \in Modes /\ connected \in BOOLEAN /\ lanActive \in BOOLEAN
  /\ task \in [Callers -> Steps]
  /\ queue \in Seq(Commands) /\ Len(queue) <= QueueLen
  /\ ledPc \in {"drain", "show"}
  /\ current \in Patterns /\ restore \in Patterns /\ lit \in Patterns
  /\ flashes \in 0..MaxFlashes /\ taken \in Patterns /\ raced \in BOOLEAN

\* led.h, "restore the previous pattern": whatever flashes came in between, and
\* however many were queued at once, the pattern to come back to is the last that
\* was asked for.
FlashRestores ==
  /\ current = taken
  /\ (flashes > 0 => restore = taken)

\* The pattern that is due (webrtc_stream.c:201, README.md:54).
Due == CASE mode = "boot" -> "off"
         [] mode = "portal" -> "double"
         [] mode \in {"wifi", "camera"} -> "fast"
         [] mode = "running" -> IF connected THEN "solid"
                                ELSE IF lanActive THEN "slow" ELSE "fast"

Quiet == queue = <<>> /\ \A t \in Callers : task[t] = "idle"

\* When nothing is being queued, the LED's pattern is the one that is due, unless
\* since the last led_update began the two callers overlapped, a command found the
\* queue full, or the LAN server was stopped after the cloud had gone again: there
\* is no other way to be wrong, and the next update sets it right.
WrongOnlyByRace == Quiet /\ ~raced => current = Due

-------------------------------------------------------------------------------
(* What a comment says and the code does not do: TLC refutes it.            *)

\* webrtc_stream.c:201, "The LED shows the system mode".
LedShowsMode == Quiet => current = Due
===============================================================================
