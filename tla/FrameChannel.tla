------------------------------ MODULE FrameChannel ------------------------------
(***************************************************************************)
(* A frame on its way from the camera to the screen: the streaming task    *)
(* (streaming_task), the chunk sender (webrtc_stream_send_frame), the data *)
(* channel (unordered, one retransmission: chunks overtake each other and  *)
(* are lost), and the assembly and drawing of frames in the browser.       *)
(*                                                                         *)
(* A chunk is a record of its frame, its place in it and its flags; frame  *)
(* and place are the model's, the wire has the flags only.  The sender     *)
(* looks at s_dc_open once per frame, and the session may end and a new    *)
(* one begin between any two chunks.  What a session's end does to the     *)
(* flag is PeerSession's business: here the flag is the channel's state.   *)
(***************************************************************************)
EXTENDS Naturals, Sequences

CONSTANTS MaxFrames,    \* frames captured
          MaxChunks,    \* chunks of the largest frame
          StagedChunks, \* the largest frame that fits the staging buffer; 0: none
          CacheSize,    \* chunks the channel holds before it says WOULD_BLOCK
          MaxSessions   \* sessions opened

ASSUME FrameChannelAssumption ==
  /\ MaxFrames \in Nat /\ MaxSessions \in Nat /\ StagedChunks \in Nat
  /\ MaxChunks \in Nat \ {0} /\ CacheSize \in Nat \ {0}

VARIABLES
  spc,       \* where the streaming task is
  frame,     \* the frame it captured last
  size,      \* the number of its chunks
  valid,     \* it has the SOI and EOI markers
  next,      \* the chunk to send next
  held,      \* the task holds the camera's framebuffer
  open,      \* the channel of the session is open: s_dc_open
  sessions,  \* sessions opened so far
  air,       \* chunks under way, in the order they were sent
  calm,      \* the network neither loses nor reorders anything
  asm,       \* frameChunks of the page
  decoding,  \* blobs createImageBitmap is busy with
  screen,    \* the blob on the canvas
  drawn,     \* history: the blobs drawFrame was called with
  run,       \* history: the chunks of one frame, from its first, received in a row
  arrived    \* history: the frames received in a row from first to last

sendVars == <<spc, frame, size, valid, next, held>>
chanVars == <<open, sessions, air>>
pageVars == <<asm, decoding, screen, drawn, run, arrived>>
vars == <<spc, frame, size, valid, next, held, open, sessions, air, calm,
          asm, decoding, screen, drawn, run, arrived>>

Flags == {"start", "end"}
Chunks == [frame: 1..MaxFrames, idx: 1..MaxChunks, flags: SUBSET Flags]
Pcs == {"grab", "check", "send", "done"}

\* The header of the i-th of n chunks.
Chunk(f, i, n) ==
  [frame |-> f, idx |-> i,
   flags |-> {x \in Flags : (x = "start" /\ i = 1) \/ (x = "end" /\ i = n)}]

Starts(c) == "start" \in c.flags
Ends(c)   == "end" \in c.flags

Without(s, i) == [j \in 1..(Len(s) - 1) |-> IF j < i THEN s[j] ELSE s[j + 1]]

Init ==
  /\ spc = "grab" /\ frame = 0 /\ size = 1 /\ valid = FALSE /\ next = 1
  /\ held = FALSE /\ open = FALSE /\ sessions = 0 /\ air = <<>>
  /\ calm \in BOOLEAN
  /\ asm = <<>> /\ decoding = <<>> /\ screen = <<>>
  /\ drawn = {} /\ run = <<>> /\ arrived = {}

-------------------------------------------------------------------------------
(* The streaming task.                                                      *)

\* A frame that fits is copied to the staging buffer and the framebuffer goes
\* back at once; otherwise it is held until the frame is sent.
Capture ==
  /\ spc = "grab" /\ frame < MaxFrames
  /\ frame' = frame + 1 /\ next' = 1
  /\ size' \in 1..MaxChunks /\ valid' \in BOOLEAN
  /\ held' = (size' > StagedChunks)
  /\ spc' = "check"
  /\ UNCHANGED <<chanVars, pageVars, calm>>

\* A frame without its markers, or without a channel, is not sent.
SendFrame ==
  /\ spc = "check"
  /\ spc' = IF valid /\ open THEN "send" ELSE "done"
  /\ UNCHANGED <<chanVars, pageVars, calm, frame, size, valid, next, held>>

\* One chunk is handed to the channel; left > 0 goes on to the next.
OneTooMany == next <= size   \* mutant: off by one

More == next < size

SendChunk ==
  /\ spc = "send" /\ open /\ Len(air) < CacheSize
  /\ air' = Append(air, Chunk(frame, next, size))
  /\ next' = IF More THEN next + 1 ELSE next
  /\ spc' = IF More THEN "send" ELSE "done"
  /\ UNCHANGED <<pageVars, calm, open, sessions, frame, size, valid, held>>

\* WOULD_BLOCK: the rest of the frame is dropped.
SkipsChunk ==   \* mutant: only the chunk is dropped
  /\ spc = "send" /\ open /\ Len(air) = CacheSize
  /\ next' = IF More THEN next + 1 ELSE next
  /\ spc' = IF More THEN "send" ELSE "done"
  /\ UNCHANGED <<chanVars, pageVars, calm, frame, size, valid, held>>

WouldBlock ==
  /\ spc = "send" /\ open /\ Len(air) = CacheSize
  /\ spc' = "done"
  /\ UNCHANGED <<chanVars, pageVars, calm, frame, size, valid, next, held>>

\* Any other error, as when the session is over.
SendFails ==
  /\ spc = "send"
  /\ spc' = "done"
  /\ UNCHANGED <<chanVars, pageVars, calm, frame, size, valid, next, held>>

Release ==
  /\ spc = "done"
  /\ spc' = "grab" /\ held' = FALSE
  /\ UNCHANGED <<chanVars, pageVars, calm, frame, size, valid, next>>

-------------------------------------------------------------------------------
(* The browser.                                                             *)

KeepsOn(c) == asm   \* mutant: a Start flag does not resync

Restarted(c) == IF Starts(c) THEN <<>> ELSE asm

Accepts(c) == Starts(c) \/ asm # <<>>

\* onChunk.  An accepted chunk that ends the frame goes to drawFrame.
OnChunk(c) ==
  LET got == Append(Restarted(c), c) IN
  IF ~Accepts(c) THEN UNCHANGED <<asm, decoding, drawn>>
  ELSE IF Ends(c)
       THEN /\ asm' = <<>>
            /\ decoding' = Append(decoding, got)
            /\ drawn' = drawn \union {got}
       ELSE asm' = got /\ UNCHANGED <<decoding, drawn>>

\* What was received in a row, seen from outside.
Continues(c) == run # <<>> /\ c.frame = run[1].frame /\ c.idx = Len(run) + 1

InARow(c) == IF Starts(c) THEN <<c>>
             ELSE IF Continues(c) THEN Append(run, c) ELSE <<>>

Record(c) ==
  /\ run' = IF Ends(c) THEN <<>> ELSE InARow(c)
  /\ arrived' = IF Ends(c) /\ InARow(c) # <<>>
                THEN arrived \union {InARow(c)} ELSE arrived

Deliver ==
  /\ \E i \in 1..Len(air) :
       /\ calm => i = 1
       /\ air' = Without(air, i)
       /\ OnChunk(air[i]) /\ Record(air[i])
  /\ UNCHANGED <<sendVars, calm, open, sessions, screen>>

\* A bitmap is ready; two of them in any order.  One that cannot be decoded is
\* forgotten.
Decoded ==
  /\ \E i \in 1..Len(decoding) :
       /\ decoding' = Without(decoding, i)
       /\ screen' \in {screen, decoding[i]}
  /\ UNCHANGED <<sendVars, chanVars, calm, asm, drawn, run, arrived>>

-------------------------------------------------------------------------------
(* The channel and its sessions.                                            *)

Lose ==
  /\ ~calm
  /\ \E i \in 1..Len(air) : air' = Without(air, i)
  /\ UNCHANGED <<sendVars, pageVars, calm, open, sessions>>

\* A session begins for a page that has just made its RTCPeerConnection, having
\* torn down the one before (teardownPC).
PiecesKept == asm   \* mutant: teardownPC keeps frameChunks

TornDown == <<>>

Opens ==
  /\ ~open /\ sessions < MaxSessions
  /\ open' = TRUE /\ sessions' = sessions + 1
  /\ asm' = TornDown /\ run' = <<>>
  /\ UNCHANGED <<sendVars, calm, air, decoding, screen, drawn, arrived>>

\* What was under way is gone with the channel.
Closes ==
  /\ open
  /\ open' = FALSE /\ air' = <<>>
  /\ UNCHANGED <<sendVars, pageVars, calm, sessions>>

\* The instance is used up.
Finished ==
  /\ frame = MaxFrames /\ spc = "grab" /\ sessions = MaxSessions /\ ~open
  /\ decoding = <<>>
  /\ UNCHANGED vars

-------------------------------------------------------------------------------
Next ==
  \/ Capture \/ SendFrame \/ SendChunk \/ WouldBlock \/ SendFails \/ Release
  \/ Deliver \/ Decoded \/ Lose \/ Opens \/ Closes \/ Finished

Spec == Init /\ [][Next]_vars

-------------------------------------------------------------------------------
(* Properties.                                                              *)

TypeOK ==
  /\ spc \in Pcs /\ frame \in 0..MaxFrames /\ size \in 1..MaxChunks
  /\ (spc # "grab" => frame > 0)
  /\ valid \in BOOLEAN /\ next \in 1..size
  /\ held \in BOOLEAN /\ open \in BOOLEAN /\ calm \in BOOLEAN
  /\ sessions \in 0..MaxSessions
  /\ air \in Seq(Chunks) /\ Len(air) <= CacheSize
  /\ asm \in Seq(Chunks) /\ run \in Seq(Chunks) /\ screen \in Seq(Chunks)
  /\ decoding \in Seq(Seq(Chunks))
  /\ drawn \subseteq Seq(Chunks) /\ arrived \subseteq Seq(Chunks)

\* The stream resyncs (view.html:74, webrtc_stream.c:837): whatever was lost,
\* overtaken or cut before, a frame whose chunks arrive in a row is assembled
\* from exactly these chunks and drawn.
Resyncs == (run # <<>> => asm = run) /\ arrived \subseteq drawn

\* One frame, all of it, in order.
Whole(b) ==
  /\ b # <<>>
  /\ \A i \in 1..Len(b) :
       /\ b[i].frame = b[1].frame /\ b[i].idx = i
       /\ Ends(b[i]) <=> i = Len(b)

\* While the network neither loses nor reorders, nothing else is drawn: a frame
\* cut by WOULD_BLOCK, by an error or by the end of the session, and the rest of
\* a frame whose head went to the session before, are not joined to anything.
CalmDrawsWhole == calm => \A b \in drawn : Whole(b)

\* And they are drawn in the order of their capture, none twice.
CalmDrawsInOrder ==
  [][calm /\ Len(decoding') > Len(decoding) =>
       \A b \in drawn : b[1].frame < decoding'[Len(decoding')][1].frame]_vars

-------------------------------------------------------------------------------
(* What comments say and the code does not do: TLC refutes each of these;   *)
(* README.md says how to see it.                                            *)

\* view.html:73, "lost a chunk, drop until the next Start flag": only a lost
\* Start is noticed, a lost or overtaken middle is not.
DrawsWhole == \A b \in drawn : Whole(b)

\* view.html:86, "the next one overwrites": bitmaps are ready in any order.
NeverBack ==
  [][screen # <<>> /\ screen' # screen => screen'[1].frame > screen[1].frame]_vars

\* webrtc_stream.h:27, "ESP_OK - all chunks queued to the data channel": the
\* session may change under the loop, so the channel gets the tail only.
TailHasHead ==
  calm /\ air # <<>> /\ asm = <<>> => Starts(air[1])
===============================================================================
