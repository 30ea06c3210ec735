---------------------------- MODULE FrameChannelProofs ---------------------------
(***************************************************************************)
(* Proofs about FrameChannel, for frames and caches of any size and any    *)
(* number of sessions: its types, that the browser finds its feet again    *)
(* after whatever went before, and that a network which neither loses nor  *)
(* reorders leads to whole frames only.                                    *)
(***************************************************************************)
EXTENDS FrameChannel, TLAPS

LEMMA NextCases ==
  ASSUME [Next]_vars
  PROVE  \/ Capture \/ SendFrame \/ SendChunk \/ WouldBlock \/ SendFails \/ Release
         \/ Deliver \/ Decoded \/ Lose \/ Opens \/ Closes \/ UNCHANGED vars
  BY DEF Next, Finished

-------------------------------------------------------------------------------
(* Operators.                                                               *)

LEMMA WithoutProperties ==
  ASSUME NEW S, NEW s \in Seq(S), NEW i \in 1..Len(s)
  PROVE  /\ Without(s, i) \in Seq(S)
         /\ Len(Without(s, i)) = Len(s) - 1
         /\ \A j \in 1..(Len(s) - 1) :
              Without(s, i)[j] = IF j < i THEN s[j] ELSE s[j + 1]
<1> DEFINE w == Without(s, i)
<1>1. Len(s) \in Nat /\ Len(s) - 1 \in Nat
  OBVIOUS
<1>2. w = [j \in 1..(Len(s) - 1) |-> IF j < i THEN s[j] ELSE s[j + 1]]
  BY DEF Without
<1>3. \A j \in 1..(Len(s) - 1) : (IF j < i THEN s[j] ELSE s[j + 1]) \in S
  BY <1>1
<1>4. w \in [1..(Len(s) - 1) -> S]
  BY <1>2, <1>3
<1>5. w \in Seq(S) /\ Len(w) = Len(s) - 1
  BY <1>1, <1>4
<1> QED
  BY <1>2, <1>5

LEMMA ChunkProperties ==
  ASSUME NEW f \in 1..MaxFrames, NEW n \in 1..MaxChunks, NEW i \in 1..n
  PROVE  /\ Chunk(f, i, n) \in Chunks
         /\ Chunk(f, i, n).frame = f /\ Chunk(f, i, n).idx = i
         /\ Starts(Chunk(f, i, n)) <=> i = 1
<1>1. i \in 1..MaxChunks
  BY FrameChannelAssumption
<1>2. {x \in Flags : (x = "start" /\ i = 1) \/ (x = "end" /\ i = n)} \in SUBSET Flags
  OBVIOUS
<1> QED
  BY <1>1, <1>2 DEF Chunk, Chunks, Starts, Flags

-------------------------------------------------------------------------------
(* Types.                                                                   *)

LEMMA InitTyped == Init => TypeOK
<1> SUFFICES ASSUME Init PROVE TypeOK
  OBVIOUS
<1>1. /\ valid \in BOOLEAN /\ held \in BOOLEAN /\ open \in BOOLEAN /\ calm \in BOOLEAN
      /\ spc \in Pcs
  BY DEF Init, Pcs
<1>2. /\ frame \in 0..MaxFrames /\ size \in 1..MaxChunks /\ next \in 1..size
      /\ sessions \in 0..MaxSessions /\ (spc # "grab" => frame > 0)
  BY FrameChannelAssumption DEF Init
<1>3. <<>> \in Seq(Chunks) /\ <<>> \in Seq(Seq(Chunks)) /\ Len(<<>>) = 0
  OBVIOUS
<1>4. /\ air \in Seq(Chunks) /\ Len(air) <= CacheSize
      /\ asm \in Seq(Chunks) /\ run \in Seq(Chunks) /\ screen \in Seq(Chunks)
      /\ decoding \in Seq(Seq(Chunks))
      /\ drawn \subseteq Seq(Chunks) /\ arrived \subseteq Seq(Chunks)
  BY <1>3, FrameChannelAssumption DEF Init
<1> QED
  BY <1>1, <1>2, <1>4 DEF TypeOK

LEMMA DeliverTyped == ASSUME TypeOK, Deliver PROVE TypeOK'
<1>1. PICK i \in 1..Len(air) :
        air' = Without(air, i) /\ OnChunk(air[i]) /\ Record(air[i])
  BY DEF Deliver
<1> DEFINE c == air[i]
<1>2. c \in Chunks
  BY DEF TypeOK
<1>3. air' \in Seq(Chunks) /\ Len(air') <= CacheSize
  <2>1. Len(Without(air, i)) = Len(air) - 1 /\ Without(air, i) \in Seq(Chunks)
    BY WithoutProperties DEF TypeOK
  <2>2. Len(air) \in Nat /\ CacheSize \in Nat
    BY FrameChannelAssumption DEF TypeOK
  <2> QED BY <1>1, <2>1, <2>2 DEF TypeOK
<1>4. Append(Restarted(c), c) \in Seq(Chunks)
  BY <1>2 DEF Restarted, TypeOK
<1>5. /\ asm' \in Seq(Chunks) /\ drawn' \subseteq Seq(Chunks)
      /\ decoding' \in Seq(Seq(Chunks))
  <2> HIDE DEF c
  <2>1. CASE ~Accepts(c)
    BY <1>1, <2>1 DEF OnChunk, TypeOK, c
  <2>2. CASE Accepts(c) /\ Ends(c)
    <3>1. asm' = <<>> /\ decoding' = Append(decoding, Append(Restarted(c), c))
          /\ drawn' = drawn \union {Append(Restarted(c), c)}
      BY <1>1, <2>2 DEF OnChunk, c
    <3>2. <<>> \in Seq(Chunks)
      OBVIOUS
    <3>3. asm' \in Seq(Chunks)
      BY <3>1, <3>2
    <3>4. decoding' \in Seq(Seq(Chunks))
      BY <1>4, <3>1 DEF TypeOK
    <3>5. drawn' \subseteq Seq(Chunks)
      BY <1>4, <3>1 DEF TypeOK
    <3> QED BY <3>3, <3>4, <3>5
  <2>3. CASE Accepts(c) /\ ~Ends(c)
    <3>1. asm' = Append(Restarted(c), c) /\ decoding' = decoding /\ drawn' = drawn
      BY <1>1, <2>3 DEF OnChunk, c
    <3> QED BY <1>4, <3>1 DEF TypeOK
  <2> QED BY <2>1, <2>2, <2>3
<1>6. InARow(c) \in Seq(Chunks)
  BY <1>2 DEF InARow, TypeOK
<1>7. run' \in Seq(Chunks) /\ arrived' \subseteq Seq(Chunks)
  BY <1>1, <1>6 DEF Record, TypeOK
<1> QED
  BY <1>3, <1>5, <1>7 DEF Deliver, TypeOK, sendVars

LEMMA NextTyped == TypeOK /\ [Next]_vars => TypeOK'
<1> SUFFICES ASSUME TypeOK, [Next]_vars PROVE TypeOK'
  OBVIOUS
<1> USE FrameChannelAssumption DEF sendVars, chanVars, pageVars
<1>1. CASE Capture
  BY <1>1 DEF Capture, TypeOK, Pcs
<1>2. CASE SendFrame
  BY <1>2 DEF SendFrame, TypeOK, Pcs
<1>3. CASE SendChunk
  <2>1. Chunk(frame, next, size) \in Chunks
    BY <1>3, ChunkProperties DEF SendChunk, TypeOK
  <2>2. air' \in Seq(Chunks) /\ Len(air') <= CacheSize
    BY <1>3, <2>1 DEF SendChunk, TypeOK
  <2>3. next' \in 1..size' /\ spc' \in Pcs /\ (spc' # "grab" => frame' > 0)
    BY <1>3 DEF SendChunk, More, TypeOK, Pcs
  <2> QED BY <1>3, <2>2, <2>3 DEF SendChunk, TypeOK
<1>4. CASE WouldBlock \/ SendFails \/ Release
  BY <1>4 DEF WouldBlock, SendFails, Release, TypeOK, Pcs
<1>5. CASE Deliver
  BY <1>5, DeliverTyped
<1>6. CASE Decoded
  <2>1. PICK i \in 1..Len(decoding) :
          decoding' = Without(decoding, i) /\ screen' \in {screen, decoding[i]}
    BY <1>6 DEF Decoded
  <2>2. decoding[i] \in Seq(Chunks) /\ decoding' \in Seq(Seq(Chunks))
    BY <2>1, WithoutProperties DEF TypeOK
  <2> QED BY <1>6, <2>1, <2>2 DEF Decoded, TypeOK
<1>7. CASE Lose
  <2>1. air' \in Seq(Chunks) /\ Len(air') <= CacheSize
    BY <1>7, WithoutProperties DEF Lose, TypeOK
  <2> QED BY <1>7, <2>1 DEF Lose, TypeOK
<1>8. CASE Opens
  BY <1>8 DEF Opens, TornDown, TypeOK
<1>9. CASE Closes
  <2>1. air' \in Seq(Chunks) /\ Len(air') <= CacheSize
    <3>1. <<>> \in Seq(Chunks) /\ Len(<<>>) = 0
      OBVIOUS
    <3> QED BY <1>9, <3>1 DEF Closes
  <2> QED BY <1>9, <2>1 DEF Closes, TypeOK
<1>10. CASE UNCHANGED vars
  BY <1>10 DEF vars, TypeOK
<1> QED
  BY <1>1, <1>2, <1>3, <1>4, <1>5, <1>6, <1>7, <1>8, <1>9, <1>10, NextCases

\* The chunk sent next is one of the frame's, the channel's cache is never exceeded,
\* and only chunks reach the page (webrtc_stream_send_frame, onChunk).
THEOREM TypeCorrect == Spec => []TypeOK
  BY InitTyped, NextTyped, PTL DEF Spec

-------------------------------------------------------------------------------
(* Resynchronisation.                                                       *)

LEMMA NextResyncs == TypeOK /\ Resyncs /\ [Next]_vars => Resyncs'
<1> SUFFICES ASSUME TypeOK, Resyncs, [Next]_vars PROVE Resyncs'
  OBVIOUS
<1>1. CASE Deliver
  <2>1. PICK i \in 1..Len(air) : OnChunk(air[i]) /\ Record(air[i])
    BY <1>1 DEF Deliver
  <2> DEFINE c == air[i]
             got == Append(Restarted(c), c)
  <2>2. InARow(c) # <<>> => Accepts(c) /\ got = InARow(c)
    <3>1. CASE Starts(c)
      BY <3>1 DEF InARow, Accepts, Restarted
    <3>2. CASE ~Starts(c) /\ Continues(c)
      BY <3>2 DEF InARow, Accepts, Restarted, Continues, Resyncs
    <3>3. CASE ~Starts(c) /\ ~Continues(c)
      BY <3>3 DEF InARow
    <3> QED BY <3>1, <3>2, <3>3
  <2>3. /\ run' = IF Ends(c) THEN <<>> ELSE InARow(c)
        /\ arrived' = IF Ends(c) /\ InARow(c) # <<>>
                      THEN arrived \union {InARow(c)} ELSE arrived
    BY <2>1 DEF Record
  <2>4. /\ Accepts(c) /\ Ends(c) => drawn' = drawn \union {got}
        /\ Accepts(c) /\ ~Ends(c) => asm' = got
        /\ drawn \subseteq drawn'
    BY <2>1 DEF OnChunk
  <2> HIDE DEF c, got
  <2>5. run' # <<>> => asm' = run'
    BY <2>2, <2>3, <2>4
  <2>6. arrived' \subseteq drawn'
    BY <2>2, <2>3, <2>4 DEF Resyncs
  <2> QED BY <2>5, <2>6 DEF Resyncs
<1>2. CASE Opens
  BY <1>2 DEF Opens, Resyncs
<1>3. CASE UNCHANGED <<asm, run, arrived, drawn>>
  BY <1>3 DEF Resyncs
<1>4. Deliver \/ Opens \/ UNCHANGED <<asm, run, arrived, drawn>>
  BY NextCases DEF Capture, SendFrame, SendChunk, WouldBlock, SendFails, Release, Decoded,
     Lose, Closes, vars, pageVars
<1> QED
  BY <1>1, <1>2, <1>3, <1>4

\* A frame whose chunks arrive in a row is assembled from them and drawn, whatever
\* was lost, overtaken or cut before (onChunk).
THEOREM Resynchronises == Spec => []Resyncs
<1>1. Init => Resyncs
  BY DEF Init, Resyncs
<1> QED
  BY <1>1, NextResyncs, TypeCorrect, PTL DEF Spec

-------------------------------------------------------------------------------
(* A calm network.                                                          *)

Follows(a, b) == Starts(b) \/ (b.frame = a.frame /\ b.idx = a.idx + 1)

\* The chunk the sender has handed over last.
Newest(c) == c.frame = frame /\ c.idx = next - 1

\* The head of a frame.
Part(s) ==
  \A i \in 1..Len(s) : s[i].frame = s[1].frame /\ s[i].idx = i /\ ~Ends(s[i])

\* Without loss and reordering, the chunks under way follow each other, the first of
\* them what the page holds, and the sender's next one the last of them: a chunk that
\* does not follow starts a frame.
Orderly ==
  /\ (~open => air = <<>>)
  /\ (\A i \in 1..Len(air) : Starts(air[i]) <=> air[i].idx = 1)
  /\ (\A i \in 1..(Len(air) - 1) : Follows(air[i], air[i + 1]))
  /\ Part(asm)
  /\ (asm # <<>> /\ air # <<>> => Follows(asm[Len(asm)], air[1]))
  /\ (open /\ spc = "send" /\ next > 1 =>
        /\ (air # <<>> => Newest(air[Len(air)]))
        /\ (air = <<>> /\ asm # <<>> => Newest(asm[Len(asm)])))
  /\ (\A b \in drawn : Whole(b))

CalmInv == (spc = "check" => next = 1) /\ (calm => Orderly)

LEMMA InitCalm == Init => CalmInv
<1> SUFFICES ASSUME Init PROVE CalmInv
  OBVIOUS
<1>1. air = <<>> /\ asm = <<>> /\ drawn = {} /\ spc = "grab" /\ Len(<<>>) = 0
  BY DEF Init
<1>2. Part(asm)
  BY <1>1 DEF Part
<1> QED
  BY <1>1, <1>2 DEF CalmInv, Orderly

\* One more chunk is under way.
LEMMA SendChunkCalm ==
  ASSUME TypeOK, CalmInv, calm, SendChunk
  PROVE  Orderly'
<1> DEFINE c == Chunk(frame, next, size)
           n == Len(air)
<1> USE DEF CalmInv
<1>1. /\ c \in Chunks /\ c.frame = frame /\ c.idx = next /\ (Starts(c) <=> next = 1)
  BY ChunkProperties DEF SendChunk, TypeOK
<1>2. /\ n \in Nat /\ air' = Append(air, c) /\ Len(air') = n + 1 /\ air'[n + 1] = c
      /\ \A i \in 1..n : air'[i] = air[i]
  BY DEF SendChunk, TypeOK
<1> HIDE DEF c
<1>3. open /\ open' = open /\ spc = "send" /\ asm' = asm /\ drawn' = drawn /\ frame' = frame
  BY DEF SendChunk, pageVars
<1>4. next \in Nat \ {0} /\ (next = 1 \/ next > 1)
  BY DEF TypeOK
<1>5. \A i \in 1..Len(air') : Starts(air'[i]) <=> air'[i].idx = 1
  BY <1>1, <1>2 DEF Orderly
<1>6. n > 0 => Follows(air[n], c)
  <2>1. CASE next = 1
    BY <1>1, <2>1 DEF Follows
  <2>2. CASE next > 1 /\ n > 0
    <3>1. air # <<>>
      BY <2>2
    <3>2. Newest(air[n])
      BY <1>3, <2>2, <3>1 DEF Orderly
    <3> QED BY <1>1, <1>4, <3>2 DEF Newest, Follows
  <2> QED BY <1>4, <2>1, <2>2
<1>7. \A i \in 1..(Len(air') - 1) : Follows(air'[i], air'[i + 1])
  <2> SUFFICES ASSUME NEW i \in 1..n PROVE Follows(air'[i], air'[i + 1])
    BY <1>2
  <2>1. CASE i = n
    BY <1>2, <1>6, <2>1
  <2>2. CASE i < n
    <3>1. i \in 1..(n - 1) /\ i \in 1..n /\ i + 1 \in 1..n
      BY <1>2, <2>2
    <3> QED BY <1>2, <3>1 DEF Orderly
  <2> QED BY <1>2, <2>1, <2>2
<1>8. asm' # <<>> /\ air' # <<>> => Follows(asm'[Len(asm')], air'[1])
  <2> SUFFICES ASSUME asm # <<>> PROVE Follows(asm[Len(asm)], air'[1])
    BY <1>3
  <2>1. CASE n > 0
    <3>1. air # <<>> /\ air'[1] = air[1]
      BY <1>2, <2>1
    <3> QED BY <3>1 DEF Orderly
  <2>2. CASE n = 0
    <3>1. air = <<>> /\ air'[1] = c
      BY <1>2, <2>2 DEF TypeOK
    <3>2. CASE next = 1
      BY <1>1, <3>1, <3>2 DEF Follows
    <3>3. CASE next > 1
      <4>1. Newest(asm[Len(asm)])
        BY <1>3, <3>1, <3>3 DEF Orderly
      <4> QED BY <1>1, <1>4, <3>1, <4>1 DEF Newest, Follows
    <3> QED BY <1>4, <3>2, <3>3
  <2> QED BY <1>2, <2>1, <2>2
<1>9. air' # <<>> /\ (spc' = "send" => Newest(air[Len(air)])')
  <2>1. spc' = "send" => next' = next + 1
    BY DEF SendChunk
  <2>2. air' # <<>>
    BY <1>2
  <2> QED BY <1>1, <1>2, <1>3, <1>4, <2>1, <2>2 DEF Newest
<1> QED
  BY <1>3, <1>5, <1>7, <1>8, <1>9 DEF Orderly, Part

\* What the page makes of the first chunk: a frame from its first chunk on.
LEMMA Assembled ==
  ASSUME TypeOK, CalmInv, calm, air # <<>>, Accepts(air[1])
  PROVE  LET c == air[1]
             got == Append(Restarted(c), c)
         IN  /\ got \in Seq(Chunks) /\ Len(got) \in Nat \ {0}
             /\ got[Len(got)] = c
             /\ \A i \in 1..Len(got) : got[i].frame = got[1].frame /\ got[i].idx = i
             /\ \A i \in 1..(Len(got) - 1) : ~Ends(got[i])
<1> DEFINE c == air[1]
           n == Len(air)
           got == Append(Restarted(c), c)
<1> SUFFICES /\ got \in Seq(Chunks) /\ Len(got) \in Nat \ {0}
             /\ got[Len(got)] = c
             /\ \A i \in 1..Len(got) : got[i].frame = got[1].frame /\ got[i].idx = i
             /\ \A i \in 1..(Len(got) - 1) : ~Ends(got[i])
  OBVIOUS
<1> USE DEF CalmInv
<1>1. c \in Chunks /\ 1 \in 1..n
  BY DEF TypeOK
<1>2. CASE Starts(c)
  <2>1. got = <<c>> /\ c.idx = 1
    BY <1>1, <1>2 DEF Restarted, Orderly
  <2> QED BY <1>1, <2>1
<1>3. CASE ~Starts(c)
  <2> DEFINE m == Len(asm)
  <2>1. asm # <<>> /\ got = Append(asm, c)
    BY <1>3 DEF Accepts, Restarted
  <2>2. m \in Nat \ {0} /\ asm \in Seq(Chunks)
    BY <2>1 DEF TypeOK
  <2>3. /\ got \in Seq(Chunks) /\ Len(got) = m + 1 /\ got[m + 1] = c
        /\ \A i \in 1..m : got[i] = asm[i]
    BY <1>1, <2>1, <2>2
  <2>4. c.frame = asm[m].frame /\ c.idx = asm[m].idx + 1
    BY <1>3, <2>1 DEF Orderly, Follows
  <2> HIDE DEF got
  <2>5. \A i \in 1..m : asm[i].frame = asm[1].frame /\ asm[i].idx = i /\ ~Ends(asm[i])
    BY DEF Orderly, Part
  <2>6. c.frame = asm[1].frame /\ c.idx = m + 1
    BY <2>2, <2>4, <2>5
  <2>7. \A i \in 1..(m + 1) : got[i].frame = got[1].frame /\ got[i].idx = i
    <3> TAKE i \in 1..(m + 1)
    <3>1. 1 \in 1..m /\ got[1] = asm[1]
      BY <2>2, <2>3
    <3>2. CASE i = m + 1
      BY <2>3, <2>6, <3>1, <3>2
    <3>3. CASE i \in 1..m
      BY <2>3, <2>5, <3>1, <3>3
    <3> QED BY <2>2, <3>2, <3>3
  <2>8. \A i \in 1..((m + 1) - 1) : ~Ends(got[i])
    BY <2>2, <2>3, <2>5
  <2> QED BY <2>2, <2>3, <2>7, <2>8
<1> QED BY <1>2, <1>3

\* The first chunk arrives.
LEMMA DeliverCalm ==
  ASSUME TypeOK, CalmInv, calm, Deliver
  PROVE  Orderly'
<1> DEFINE c == air[1]
           n == Len(air)
           got == Append(Restarted(c), c)
<1> USE DEF CalmInv
<1>1. /\ n \in Nat \ {0} /\ air' = Without(air, 1) /\ OnChunk(c)
      /\ air # <<>>
  BY DEF Deliver, TypeOK
<1>2. /\ Len(air') = n - 1 /\ \A j \in 1..(n - 1) : air'[j] = air[j + 1]
      /\ air' \in Seq(Chunks)
  <2>1. 1 \in 1..Len(air) /\ air \in Seq(Chunks) /\ ~(\E j \in 1..(n - 1) : j < 1)
    BY <1>1 DEF TypeOK
  <2>2. \A j \in 1..(n - 1) : Without(air, 1)[j] = IF j < 1 THEN air[j] ELSE air[j + 1]
    BY <2>1, WithoutProperties
  <2>3. Without(air, 1) \in Seq(Chunks) /\ Len(Without(air, 1)) = n - 1
    BY <2>1, WithoutProperties
  <2> QED BY <1>1, <2>1, <2>2, <2>3
<1>3. /\ open' = open /\ spc' = spc /\ next' = next /\ frame' = frame
  BY DEF Deliver, sendVars
<1>4. open
  BY <1>1 DEF Orderly
<1>5. \A i \in 1..Len(air') : Starts(air'[i]) <=> air'[i].idx = 1
  <2> TAKE i \in 1..Len(air')
  <2>1. i + 1 \in 1..n /\ air'[i] = air[i + 1]
    BY <1>1, <1>2
  <2> QED BY <2>1 DEF Orderly
<1>6. \A i \in 1..(Len(air') - 1) : Follows(air'[i], air'[i + 1])
  <2> TAKE i \in 1..(Len(air') - 1)
  <2>1. /\ i + 1 \in 1..(n - 1) /\ air'[i] = air[i + 1] /\ air'[i + 1] = air[(i + 1) + 1]
    BY <1>1, <1>2
  <2> QED BY <2>1 DEF Orderly
<1>7. air' # <<>> => n > 1 /\ air'[1] = air[2] /\ Follows(c, air'[1])
  <2> SUFFICES ASSUME air' # <<>> PROVE n > 1 /\ air'[1] = air[2] /\ Follows(c, air'[1])
    OBVIOUS
  <2>1. Len(air') # 0
    BY <1>2
  <2>2. n > 1 /\ air'[1] = air[1 + 1] /\ 1 \in 1..(n - 1)
    BY <1>1, <1>2, <2>1
  <2> QED BY <2>2 DEF Orderly
<1>8. air' # <<>> => air'[Len(air')] = air[n]
  BY <1>1, <1>2, <1>7
<1>9. air' = <<>> => n = 1
  BY <1>1, <1>2
<1>10. Accepts(c) => /\ got \in Seq(Chunks) /\ Len(got) \in Nat \ {0}
                     /\ got[Len(got)] = c
                     /\ \A i \in 1..Len(got) : got[i].frame = got[1].frame /\ got[i].idx = i
                     /\ \A i \in 1..(Len(got) - 1) : ~Ends(got[i])
  BY <1>1, Assembled
<1>11. /\ ~Accepts(c) => asm' = asm /\ drawn' = drawn /\ asm = <<>>
       /\ Accepts(c) /\ Ends(c) => asm' = <<>> /\ drawn' = drawn \union {got}
       /\ Accepts(c) /\ ~Ends(c) => asm' = got /\ drawn' = drawn
  BY <1>1 DEF OnChunk, Accepts
<1> HIDE DEF got, c
<1>12. Part(asm')
  <2>1. CASE ~Accepts(c)
    BY <1>11, <2>1 DEF Orderly
  <2>2. CASE Accepts(c) /\ Ends(c)
    <3>1. Len(<<>>) = 0
      OBVIOUS
    <3> QED BY <1>11, <2>2, <3>1 DEF Part
  <2>3. CASE Accepts(c) /\ ~Ends(c)
    <3>1. \A i \in 1..Len(got) : i = Len(got) \/ i \in 1..(Len(got) - 1)
      BY <1>10, <2>3
    <3> QED BY <1>10, <1>11, <2>3, <3>1 DEF Part
  <2> QED BY <2>1, <2>2, <2>3
<1>13. asm' # <<>> => asm'[Len(asm')] = c
  BY <1>10, <1>11
<1>14. \A b \in drawn' : Whole(b)
  <2>1. CASE Accepts(c) /\ Ends(c)
    <3>1. \A i \in 1..Len(got) : Ends(got[i]) <=> i = Len(got)
      <4> TAKE i \in 1..Len(got)
      <4>1. i = Len(got) \/ i \in 1..(Len(got) - 1)
        BY <1>10, <2>1
      <4> QED BY <1>10, <2>1, <4>1
    <3>2. got # <<>>
      BY <1>10, <2>1
    <3>3. Whole(got)
      BY <1>10, <2>1, <3>1, <3>2 DEF Whole
    <3> QED BY <1>11, <2>1, <3>3 DEF Orderly
  <2>2. CASE ~(Accepts(c) /\ Ends(c))
    BY <1>11, <2>2 DEF Orderly
  <2> QED BY <2>1, <2>2
<1>15. open /\ spc = "send" /\ next > 1 => Newest(air[n])
  BY <1>1 DEF Orderly
<1>16. open' /\ spc' = "send" /\ next' > 1 =>
         /\ (air' # <<>> => Newest(air[Len(air)])')
         /\ (air' = <<>> /\ asm' # <<>> => Newest(asm[Len(asm)])')
  BY <1>3, <1>8, <1>9, <1>13, <1>15 DEF Newest, c
<1> QED
  BY <1>3, <1>4, <1>5, <1>6, <1>7, <1>12, <1>13, <1>14, <1>16 DEF Orderly, Part

LEMMA NextCalm == TypeOK /\ CalmInv /\ [Next]_vars => CalmInv'
<1> SUFFICES ASSUME TypeOK, CalmInv, [Next]_vars PROVE CalmInv'
  OBVIOUS
<1> USE DEF CalmInv, sendVars, chanVars, pageVars
<1>1. CASE Capture
  <2>1. spc' = "check" /\ next' = 1 /\ UNCHANGED <<open, air, asm, drawn, calm>>
    BY <1>1 DEF Capture
  <2> QED BY <2>1 DEF Orderly, Part
<1>2. CASE SendFrame
  <2>1. /\ next' = 1 /\ spc' # "check"
        /\ UNCHANGED <<open, air, asm, drawn, calm>>
    BY <1>2 DEF SendFrame
  <2> QED BY <2>1 DEF Orderly, Part
<1>3. CASE SendChunk
  <2>1. spc' # "check" /\ calm' = calm
    BY <1>3 DEF SendChunk
  <2> QED BY <1>3, <2>1, SendChunkCalm
<1>4. CASE WouldBlock \/ SendFails \/ Release
  <2>1. spc' \notin {"check", "send"} /\ UNCHANGED <<open, air, asm, drawn, calm>>
    BY <1>4 DEF WouldBlock, SendFails, Release
  <2> QED BY <2>1 DEF Orderly, Part
<1>5. CASE Deliver
  <2>1. spc' = spc /\ next' = next /\ calm' = calm
    BY <1>5 DEF Deliver
  <2> QED BY <1>5, <2>1, DeliverCalm
<1>6. CASE Decoded
  BY <1>6 DEF Decoded, Orderly, Part, Newest
<1>7. CASE Lose
  BY <1>7 DEF Lose
<1>8. CASE Opens
  <2>1. /\ ~open /\ asm' = <<>> /\ Len(<<>>) = 0
        /\ UNCHANGED <<air, drawn, calm, spc, next, frame>>
    BY <1>8 DEF Opens, TornDown
  <2>2. Part(asm')
    BY <2>1 DEF Part
  <2>3. calm => air = <<>>
    BY <2>1 DEF Orderly
  <2> QED BY <2>1, <2>2, <2>3 DEF Orderly
<1>9. CASE Closes
  <2>1. /\ air' = <<>> /\ ~open' /\ Len(<<>>) = 0
        /\ UNCHANGED <<asm, drawn, calm, spc, next, frame>>
    BY <1>9 DEF Closes
  <2> QED BY <2>1 DEF Orderly, Part
<1>10. CASE UNCHANGED vars
  BY <1>10 DEF vars, Orderly, Part, Newest
<1> QED
  BY <1>1, <1>2, <1>3, <1>4, <1>5, <1>6, <1>7, <1>8, <1>9, <1>10, NextCases

\* On a calm network the page draws whole frames only, whatever WOULD_BLOCK, errors
\* and sessions that change under the sender's loop cut off.
THEOREM CalmWhole == Spec => []CalmDrawsWhole
<1>1. CalmInv => CalmDrawsWhole
  BY DEF CalmInv, Orderly, CalmDrawsWhole
<1> QED
  BY <1>1, InitCalm, NextCalm, TypeCorrect, PTL DEF Spec

-------------------------------------------------------------------------------
(* The order of the frames.                                                 *)

\* On a calm network an ended frame is older than whatever was sent after its
\* end, and a drawn one than whatever is under way or still to be sent.
Numbered ==
  /\ \A i \in 1..Len(air) : air[i].frame <= frame
  /\ \A i, j \in 1..Len(air) : i < j /\ Ends(air[i]) => air[i].frame < air[j].frame
  /\ \A b \in drawn : \A i \in 1..Len(air) : b[1].frame < air[i].frame
  /\ \A b \in drawn : b[1].frame <= frame
  /\ spc \in {"check", "send"} =>
       /\ \A i \in 1..Len(air) : Ends(air[i]) => air[i].frame < frame
       /\ \A b \in drawn : b[1].frame < frame

OrderInv == calm => Numbered

LEMMA SendChunkNumbered ==
  ASSUME TypeOK, Numbered, SendChunk
  PROVE  Numbered'
<1> DEFINE c == Chunk(frame, next, size)
           n == Len(air)
<1>1. c.frame = frame /\ (Ends(c) <=> next = size)
  BY DEF Chunk, Ends, Flags
<1>2. /\ n \in Nat /\ Len(air') = n + 1 /\ air'[n + 1] = c
      /\ \A i \in 1..n : air'[i] = air[i]
  BY DEF SendChunk, TypeOK
<1>3. /\ spc = "send" /\ UNCHANGED <<frame, drawn>>
      /\ spc' \in {"check", "send"} => next # size
  BY DEF SendChunk, pageVars, More, TypeOK
<1> HIDE DEF c
<1>4. frame \in Nat
  BY DEF TypeOK
<1>5. \A i \in 1..Len(air') : i = n + 1 \/ i \in 1..n
  BY <1>2
<1>6. \A i \in 1..Len(air') : air'[i].frame <= frame
  BY <1>1, <1>2, <1>4, <1>5 DEF Numbered
<1>7. \A i, j \in 1..Len(air') : i < j /\ Ends(air'[i]) => air'[i].frame < air'[j].frame
  <2> SUFFICES ASSUME NEW i \in 1..Len(air'), NEW j \in 1..Len(air'), i < j, Ends(air'[i])
               PROVE  air'[i].frame < air'[j].frame
    OBVIOUS
  <2>1. i \in 1..n
    BY <1>2
  <2> QED BY <1>1, <1>2, <1>3, <1>5, <2>1 DEF Numbered
<1>8. \A b \in drawn : \A i \in 1..Len(air') : b[1].frame < air'[i].frame
  BY <1>1, <1>2, <1>3, <1>5 DEF Numbered
<1>9. spc' \in {"check", "send"} =>
        \A i \in 1..Len(air') : Ends(air'[i]) => air'[i].frame < frame
  BY <1>1, <1>2, <1>3, <1>5 DEF Numbered
<1> QED
  BY <1>3, <1>6, <1>7, <1>8, <1>9 DEF Numbered

\* What a delivery on a calm network draws is newer than all that was drawn.
LEMMA DeliverDraws ==
  ASSUME TypeOK, CalmInv, OrderInv, calm, Deliver
  PROVE  /\ air # <<>> /\ air' = Without(air, 1) /\ UNCHANGED <<spc, frame>>
         /\ \/ UNCHANGED <<decoding, drawn>>
            \/ \E got \in Seq(Chunks) :
                 /\ got[1].frame = air[1].frame /\ Ends(air[1])
                 /\ decoding' = Append(decoding, got) /\ drawn' = drawn \union {got}
<1> DEFINE c == air[1]
           got == Append(Restarted(c), c)
<1>1. /\ air # <<>> /\ air' = Without(air, 1) /\ UNCHANGED <<spc, frame>> /\ OnChunk(c)
  BY DEF Deliver, sendVars, TypeOK
<1>2. CASE Accepts(c) /\ Ends(c)
  <2>1. got \in Seq(Chunks) /\ got[1].frame = c.frame
    <3>1. /\ got \in Seq(Chunks) /\ Len(got) \in Nat \ {0} /\ got[Len(got)] = c
          /\ \A i \in 1..Len(got) : got[i].frame = got[1].frame
      BY <1>1, <1>2, Assembled
    <3> HIDE DEF got
    <3> QED BY <3>1
  <2>2. decoding' = Append(decoding, got) /\ drawn' = drawn \union {got}
    BY <1>1, <1>2 DEF OnChunk
  <2> QED BY <1>1, <1>2, <2>1, <2>2
<1>3. CASE ~(Accepts(c) /\ Ends(c))
  BY <1>1, <1>3 DEF OnChunk
<1> QED
  BY <1>2, <1>3

LEMMA DeliverNumbered ==
  ASSUME TypeOK, CalmInv, OrderInv, calm, Deliver
  PROVE  Numbered'
<1> DEFINE n == Len(air)
<1>1. /\ n \in Nat \ {0} /\ Len(air') = n - 1
      /\ \A i \in 1..(n - 1) : air'[i] = air[i + 1]
  <2>1. 1 \in 1..n /\ air \in Seq(Chunks) /\ n \in Nat \ {0}
    BY DeliverDraws DEF TypeOK
  <2>2. /\ Len(Without(air, 1)) = n - 1
        /\ \A i \in 1..(n - 1) : Without(air, 1)[i] = IF i < 1 THEN air[i] ELSE air[i + 1]
    BY <2>1, WithoutProperties
  <2>3. \A i \in 1..(n - 1) : ~(i < 1)
    OBVIOUS
  <2> QED BY <2>1, <2>2, <2>3, DeliverDraws
<1>2. UNCHANGED <<spc, frame>>
  BY DeliverDraws
<1>3. Numbered /\ frame \in Nat
  <2>1. frame \in Nat
    BY DEF TypeOK
  <2> QED BY <2>1 DEF OrderInv
<1>4. \A i \in 1..Len(air') : i + 1 \in 1..n /\ air'[i] = air[i + 1] /\ 1 < i + 1
  BY <1>1
<1>5. \A b \in drawn' : b \in drawn \/ (b[1].frame = air[1].frame /\ Ends(air[1]))
  BY DeliverDraws
<1>6. 1 \in 1..n
  BY <1>1
<1>7. \A i \in 1..Len(air') : air'[i].frame <= frame
  BY <1>3, <1>4 DEF Numbered
<1>8. \A i, j \in 1..Len(air') : i < j /\ Ends(air'[i]) => air'[i].frame < air'[j].frame
  <2> TAKE i, j \in 1..Len(air')
  <2>1. i < j => i + 1 < j + 1
    BY <1>1
  <2> QED BY <1>3, <1>4, <2>1 DEF Numbered
<1>9. \A b \in drawn' : \A i \in 1..Len(air') : b[1].frame < air'[i].frame
  BY <1>3, <1>4, <1>5, <1>6 DEF Numbered
<1>10. \A b \in drawn' : b[1].frame <= frame
  BY <1>3, <1>5, <1>6 DEF Numbered
<1>11. spc \in {"check", "send"} =>
         /\ \A i \in 1..Len(air') : Ends(air'[i]) => air'[i].frame < frame
         /\ \A b \in drawn' : b[1].frame < frame
  BY <1>3, <1>4, <1>5, <1>6 DEF Numbered
<1> QED
  BY <1>2, <1>7, <1>8, <1>9, <1>10, <1>11 DEF Numbered

LEMMA NextNumbered == TypeOK /\ CalmInv /\ OrderInv /\ [Next]_vars => OrderInv'
<1> SUFFICES ASSUME TypeOK, CalmInv, OrderInv, [Next]_vars, calm'
             PROVE  Numbered'
  BY DEF OrderInv
<1> USE DEF sendVars, chanVars, pageVars
<1>1. calm
  BY NextCases DEF Capture, SendFrame, SendChunk, WouldBlock, SendFails, Release, Deliver,
     Decoded, Lose, Opens, Closes, vars
<1>2. Numbered /\ frame \in Nat /\ (\A i \in 1..Len(air) : air[i].frame \in Nat)
  <2>1. \A i \in 1..Len(air) : air[i] \in Chunks
    BY DEF TypeOK
  <2> QED BY <1>1, <2>1 DEF OrderInv, TypeOK, Chunks
<1>3. CASE Capture
  <2>1. frame' = frame + 1 /\ UNCHANGED <<air, drawn>>
    BY <1>3 DEF Capture
  <2>2. \A i \in 1..Len(air) : air[i].frame < frame + 1 /\ air[i].frame <= frame + 1
    BY <1>2, <1>3 DEF Numbered
  <2>3. \A b \in drawn : b[1].frame < frame + 1 /\ b[1].frame <= frame + 1
    <3> TAKE b \in drawn
    <3>1. b # <<>> /\ b \in Seq(Chunks)
      BY <1>1 DEF CalmInv, Orderly, Whole, TypeOK
    <3>2. b[1] \in Chunks
      BY <3>1
    <3>3. b[1].frame \in Nat /\ b[1].frame <= frame
      BY <1>2, <3>2 DEF Chunks, Numbered
    <3> QED BY <1>2, <3>3
  <2> QED BY <1>2, <2>1, <2>2, <2>3 DEF Numbered
<1>4. CASE SendChunk
  BY <1>2, <1>4, SendChunkNumbered
<1>5. CASE Deliver
  BY <1>1, <1>5, DeliverNumbered
<1>6. CASE SendFrame \/ WouldBlock \/ SendFails \/ Release
  <2>1. UNCHANGED <<frame, air, drawn>> /\ (spc' \in {"check", "send"} => spc \in {"check", "send"})
    BY <1>6 DEF SendFrame, WouldBlock, SendFails, Release
  <2> QED BY <1>2, <2>1 DEF Numbered
<1>7. CASE Closes
  <2>1. UNCHANGED <<spc, frame, drawn>> /\ air' = <<>> /\ Len(<<>>) = 0
    BY <1>7 DEF Closes
  <2> QED BY <1>2, <2>1 DEF Numbered
<1>8. CASE UNCHANGED <<spc, frame, air, drawn>>
  BY <1>2, <1>8 DEF Numbered
<1>9. CASE Lose
  BY <1>1, <1>9 DEF Lose
<1> QED
  BY <1>3, <1>4, <1>5, <1>6, <1>7, <1>8, <1>9, NextCases DEF Decoded, Opens, vars

LEMMA StepInOrder ==
  ASSUME TypeOK, CalmInv, OrderInv, [Next]_vars, calm, Len(decoding') > Len(decoding)
  PROVE  \A b \in drawn : b[1].frame < decoding'[Len(decoding')][1].frame
<1> USE DEF sendVars, chanVars, pageVars
<1>1. Deliver
  <2>1. Decoded => ~(Len(decoding') > Len(decoding))
    <3> SUFFICES ASSUME NEW i \in 1..Len(decoding), decoding' = Without(decoding, i)
                 PROVE  ~(Len(decoding') > Len(decoding))
      BY DEF Decoded
    <3>1. Len(decoding') = Len(decoding) - 1
      BY WithoutProperties DEF TypeOK
    <3> QED BY <3>1 DEF TypeOK
  <2>2. Len(decoding) \in Nat
    BY DEF TypeOK
  <2>3. decoding' # decoding
    BY <2>2
  <2> QED
    BY <2>1, <2>2, <2>3, NextCases DEF Capture, SendFrame, SendChunk, WouldBlock, SendFails,
       Release, Lose, Opens, Closes, vars
<1>2. PICK got \in Seq(Chunks) :
        got[1].frame = air[1].frame /\ decoding' = Append(decoding, got)
  <2>1. decoding' # decoding
    BY DEF TypeOK
  <2> QED BY <1>1, <2>1, DeliverDraws
<1>3. decoding'[Len(decoding')] = got
  BY <1>2 DEF TypeOK
<1>4. 1 \in 1..Len(air)
  BY <1>1, DeliverDraws DEF TypeOK
<1> QED
  BY <1>2, <1>3, <1>4 DEF OrderInv, Numbered

\* On a calm network what the page draws is always newer than all it drew before:
\* frames are drawn in the order of their capture, and none twice.
THEOREM CalmInOrder == Spec => CalmDrawsInOrder
<1>1. Init => OrderInv
  <2>1. Init => air = <<>> /\ Len(<<>>) = 0 /\ drawn = {} /\ spc = "grab"
    BY DEF Init
  <2> QED BY <2>1 DEF OrderInv, Numbered
<1>2. TypeOK /\ CalmInv /\ OrderInv /\ [Next]_vars
        => [calm /\ Len(decoding') > Len(decoding) =>
              \A b \in drawn : b[1].frame < decoding'[Len(decoding')][1].frame]_vars
  BY StepInOrder
<1> QED
  BY <1>1, <1>2, InitCalm, NextCalm, NextNumbered, TypeCorrect, PTL
  DEF Spec, CalmDrawsInOrder
=================================================================================
