--------------------------------- MODULE LedProofs ---------------------------------
(***************************************************************************)
(* Proofs about Led: its types, that flashes give back the pattern they    *)
(* interrupted, and that only the three races named in the module leave    *)
(* the LED with a pattern that is not due.                                 *)
(***************************************************************************)
EXTENDS Led, TLAPS

USE LedAssumption

\* The pattern that is shown once the queue is drained: the last one in it, or,
\* if there are only flashes in it, the current one.
Latest(q, c, p) ==
  \/ c = p /\ \A i \in 1..Len(q) : q[i].flashes > 0
  \/ \E i \in 1..Len(q) : /\ q[i].flashes = 0 /\ q[i].pattern = p
                          /\ \A j \in (i + 1)..Len(q) : q[j].flashes > 0

LEMMA LatestOfPattern ==
  ASSUME NEW q \in Seq(Commands), NEW c, NEW p \in Patterns
  PROVE  Latest(Append(q, Pattern(p)), c, p)
<1> DEFINE r == Append(q, Pattern(p))
<1>1. Len(r) = Len(q) + 1 /\ r[Len(r)] = Pattern(p) /\ Len(q) \in Nat
  OBVIOUS
<1>2. r[Len(r)].flashes = 0 /\ r[Len(r)].pattern = p
  BY <1>1 DEF Pattern
<1>3. Len(r) \in 1..Len(r) /\ (Len(r) + 1)..Len(r) = {}
  BY <1>1
<1> QED
  BY <1>2, <1>3 DEF Latest

LEMMA LatestOfFlash ==
  ASSUME NEW q \in Seq(Commands), NEW c, NEW p, NEW n \in Nat \ {0}, Latest(q, c, p)
  PROVE  Latest(Append(q, Flash(n)), c, p)
<1> DEFINE r == Append(q, Flash(n))
<1>1. /\ Len(r) = Len(q) + 1 /\ Len(q) \in Nat
      /\ \A i \in 1..Len(q) : r[i] = q[i]
      /\ r[Len(q) + 1] = Flash(n)
  OBVIOUS
<1>2. r[Len(q) + 1].flashes > 0
  BY <1>1 DEF Flash
<1> HIDE DEF r
<1>3. CASE c = p /\ \A i \in 1..Len(q) : q[i].flashes > 0
  <2>1. \A i \in 1..Len(r) : r[i].flashes > 0
    BY <1>1, <1>2, <1>3
  <2> QED BY <1>3, <2>1 DEF Latest, r
<1>4. CASE \E i \in 1..Len(q) : /\ q[i].flashes = 0 /\ q[i].pattern = p
                                /\ \A j \in (i + 1)..Len(q) : q[j].flashes > 0
  <2>1. PICK i \in 1..Len(q) : /\ q[i].flashes = 0 /\ q[i].pattern = p
                               /\ \A j \in (i + 1)..Len(q) : q[j].flashes > 0
    BY <1>4
  <2>2. i \in 1..Len(r) /\ r[i] = q[i]
    BY <1>1
  <2>3. \A j \in (i + 1)..Len(r) : r[j].flashes > 0
    BY <1>1, <1>2, <2>1
  <2> QED BY <2>1, <2>2, <2>3 DEF Latest, r
<1> QED
  BY <1>3, <1>4 DEF Latest

LEMMA LatestOfTail ==
  ASSUME NEW q \in Seq(Commands), q # <<>>, NEW c, NEW p, Latest(q, c, p)
  PROVE  Latest(Tail(q), IF Head(q).flashes > 0 THEN c ELSE Head(q).pattern, p)
<1> DEFINE r == Tail(q)
           d == IF Head(q).flashes > 0 THEN c ELSE Head(q).pattern
<1>1. /\ Len(q) \in Nat \ {0} /\ Len(r) = Len(q) - 1 /\ Head(q) = q[1]
      /\ \A i \in 1..Len(r) : r[i] = q[i + 1]
  OBVIOUS
<1>2. q[1].flashes \in Nat
  <2>1. q[1] \in Commands
    BY <1>1
  <2> QED BY <2>1 DEF Commands, MaxFlashes
<1> HIDE DEF r
<1>3. CASE c = p /\ \A i \in 1..Len(q) : q[i].flashes > 0
  <2>1. \A i \in 1..Len(r) : r[i].flashes > 0
    BY <1>1, <1>3
  <2>2. d = p
    BY <1>1, <1>3
  <2> QED BY <2>1, <2>2 DEF Latest, r
<1>4. CASE \E i \in 1..Len(q) : /\ q[i].flashes = 0 /\ q[i].pattern = p
                                /\ \A j \in (i + 1)..Len(q) : q[j].flashes > 0
  <2>1. PICK i \in 1..Len(q) : /\ q[i].flashes = 0 /\ q[i].pattern = p
                               /\ \A j \in (i + 1)..Len(q) : q[j].flashes > 0
    BY <1>4
  <2>2. CASE i = 1
    <3>1. \A k \in 1..Len(r) : r[k].flashes > 0
      BY <1>1, <2>1, <2>2
    <3>2. d = p
      BY <1>1, <2>1, <2>2
    <3> QED BY <3>1, <3>2 DEF Latest, r
  <2>3. CASE i # 1
    <3>1. i - 1 \in 1..Len(r) /\ r[i - 1] = q[i]
      BY <1>1, <2>3
    <3>2. \A j \in ((i - 1) + 1)..Len(r) : r[j].flashes > 0
      BY <1>1, <2>1
    <3>3. \E k \in 1..Len(r) : /\ r[k].flashes = 0 /\ r[k].pattern = p
                               /\ \A j \in (k + 1)..Len(r) : r[j].flashes > 0
      BY <2>1, <3>1, <3>2
    <3> QED BY <3>3 DEF Latest, r
  <2> QED BY <2>2, <2>3
<1> QED
  BY <1>3, <1>4 DEF Latest

LEMMA LatestOfNone ==
  ASSUME NEW c, NEW p, Latest(<<>>, c, p)
  PROVE  c = p
  BY DEF Latest

-------------------------------------------------------------------------------
LEMMA SendTypes ==
  ASSUME TypeOK, NEW cmd \in Commands, Send(cmd)
  PROVE  queue' \in Seq(Commands) /\ Len(queue') <= QueueLen /\ raced' \in BOOLEAN
<1>1. CASE HasRoom
  <2>1. queue' = Append(queue, cmd)
    BY <1>1 DEF Send
  <2>2. Len(queue) < QueueLen
    BY <1>1 DEF TypeOK, HasRoom, Full
  <2> QED BY <2>1, <2>2 DEF TypeOK, Send
<1>2. CASE ~HasRoom
  BY <1>2 DEF Send, TypeOK
<1> QED BY <1>1, <1>2

LEMMA CommandTypes ==
  /\ \A p \in Patterns : Pattern(p) \in Commands
  /\ \A n \in 0..MaxFlashes : Flash(n) \in Commands
  BY DEF Commands, Pattern, Flash, Patterns, MaxFlashes

LEMMA InitTyped == Init => TypeOK
<1> SUFFICES ASSUME Init PROVE TypeOK
  OBVIOUS
<1>1. <<>> \in Seq(Commands) /\ Len(<<>>) = 0 /\ QueueLen \in Nat
  BY LedAssumption
<1>2. queue \in Seq(Commands) /\ Len(queue) <= QueueLen
  BY <1>1 DEF Init
<1>3. task \in [Callers -> Steps]
  BY DEF Init, Steps
<1>4. connected \in BOOLEAN /\ lanActive \in BOOLEAN /\ raced \in BOOLEAN
  BY DEF Init
<1>5. /\ mode \in Modes /\ ledPc \in {"drain", "show"} /\ flashes \in 0..MaxFlashes
      /\ current \in Patterns /\ restore \in Patterns /\ lit \in Patterns /\ taken \in Patterns
  BY DEF Init, Modes, Patterns, MaxFlashes
<1> QED
  BY <1>2, <1>3, <1>4, <1>5 DEF TypeOK

LEMMA NextTyped == TypeOK /\ [Next]_vars => TypeOK'
<1> SUFFICES ASSUME TypeOK, [Next]_vars PROVE TypeOK'
  OBVIOUS
<1> USE DEF flagVars, ledVars
<1>1. CASE EnterPortal
  <2>1. Pattern("double") \in Commands
    BY CommandTypes DEF Patterns
  <2>2. queue' \in Seq(Commands) /\ Len(queue') <= QueueLen /\ raced' \in BOOLEAN
    BY <1>1, <2>1, SendTypes DEF EnterPortal
  <2> QED BY <1>1, <2>2 DEF EnterPortal, TypeOK, Modes
<1>2. CASE EnterNormal
  <2>1. Pattern("fast") \in Commands
    BY CommandTypes DEF Patterns
  <2>2. queue' \in Seq(Commands) /\ Len(queue') <= QueueLen /\ raced' \in BOOLEAN
    BY <1>2, <2>1, SendTypes DEF EnterNormal
  <2> QED BY <1>2, <2>2 DEF EnterNormal, TypeOK, Modes
<1>3. CASE WifiUp \/ StreamStarts
  BY <1>3 DEF WifiUp, StreamStarts, TypeOK, Modes
<1>4. CASE ErrorFlash
  <2>1. Flash(CameraFlashes) \in Commands /\ Flash(PortalFlashes) \in Commands
    BY CommandTypes DEF CameraFlashes, PortalFlashes, MaxFlashes
  <2>2. queue' \in Seq(Commands) /\ Len(queue') <= QueueLen /\ raced' \in BOOLEAN
    BY <1>4, <2>1, SendTypes DEF ErrorFlash
  <2> QED BY <1>4, <2>2 DEF ErrorFlash, TypeOK
<1>5. CASE \E b \in BOOLEAN : WsChanges(b)
  BY <1>5 DEF WsChanges, TypeOK, Callers, Steps, Overlaps
<1>6. CASE PeerHeals \/ PeerServesLan \/ PeerLeavesLan
  BY <1>6 DEF PeerHeals, PeerServesLan, PeerLeavesLan, LanShown, TypeOK, Callers, Steps,
              Overlaps
<1>7. CASE \E t \in Callers : ReadsConnected(t) \/ ReadsLan(t)
  BY <1>7 DEF ReadsConnected, ReadsLan, TypeOK, Steps
<1>8. CASE \E t \in Callers : SetsPattern(t)
  <2>1. PICK t \in Callers : SetsPattern(t)
    BY <1>8
  <2>2. Pattern(task[t]) \in Commands
    BY <2>1, CommandTypes DEF SetsPattern
  <2>3. queue' \in Seq(Commands) /\ Len(queue') <= QueueLen /\ raced' \in BOOLEAN
    BY <2>1, <2>2, SendTypes DEF SetsPattern
  <2> QED BY <2>1, <2>3 DEF SetsPattern, TypeOK, Steps
<1>9. CASE Receive
  <2>1. Head(queue) \in Commands /\ Tail(queue) \in Seq(Commands)
        /\ Len(Tail(queue)) <= QueueLen
    BY <1>9 DEF Receive, TypeOK
  <2> QED BY <1>9, <2>1 DEF Receive, Restored, TypeOK, Commands
<1>10. CASE Show \/ Shown
  BY <1>10 DEF Show, Shown, TypeOK, Patterns, MaxFlashes
<1>11. CASE UNCHANGED vars
  BY <1>11 DEF vars, TypeOK
<1> QED
  BY <1>1, <1>2, <1>3, <1>4, <1>5, <1>6, <1>7, <1>8, <1>9, <1>10, <1>11
  DEF Next, LedUpdate

\* The LED task and its queue keep their types: no command is queued beyond the
\* queue's length, no more flashes are pending than a caller asks for.
THEOREM TypeCorrect == Spec => []TypeOK
  BY InitTyped, NextTyped, PTL DEF Spec

-------------------------------------------------------------------------------
LEMMA NextRestores == TypeOK /\ FlashRestores /\ [Next]_vars => FlashRestores'
<1> SUFFICES ASSUME TypeOK, FlashRestores, [Next]_vars PROVE FlashRestores'
  OBVIOUS
<1>1. CASE Receive
  <2>1. Head(queue) \in Commands
    BY <1>1 DEF Receive, TypeOK
  <2> QED BY <1>1, <2>1 DEF Receive, Restored, FlashRestores, Commands, MaxFlashes
<1>2. CASE Shown
  BY <1>2 DEF Shown, FlashRestores, TypeOK, MaxFlashes
<1>3. CASE UNCHANGED <<current, restore, flashes, taken>>
  BY <1>3 DEF FlashRestores
<1>4. Receive \/ Shown \/ UNCHANGED <<current, restore, flashes, taken>>
  BY DEF Next, vars, EnterPortal, EnterNormal, WifiUp, ErrorFlash, StreamStarts, WsChanges,
         PeerHeals, PeerServesLan, PeerLeavesLan, LedUpdate, ReadsConnected, ReadsLan,
         SetsPattern, Show, ledVars
<1> QED
  BY <1>1, <1>2, <1>3, <1>4

\* Flashes that overlap, or are queued behind each other, never become the pattern
\* that is restored (led_task's transient_remaining and restore).
THEOREM Restores == Spec => []FlashRestores
<1>1. Init => FlashRestores
  BY DEF Init, FlashRestores
<1> QED
  BY <1>1, NextRestores, TypeCorrect, PTL DEF Spec

-------------------------------------------------------------------------------
\* A led_update under way, if nothing raced with it, is the only one, and what it
\* has read is still so.
Alone(t) ==
  task[t] # "idle" =>
    /\ task[Other(t)] = "idle"
    /\ (task[t] = "solid" => connected)
    /\ (task[t] \in {"lan", "slow", "fast"} => ~connected)
    /\ (task[t] = "slow" => lanActive)
    /\ (task[t] = "fast" => ~lanActive)

\* What is due is under way: in the queue, or a led_update is going to queue it.
OnItsWay ==
  /\ mode # "running" =>
       ~connected /\ ~lanActive /\ \A t \in Callers : task[t] = "idle"
  /\ ~raced => \A t \in Callers : Alone(t)
  /\ ~raced /\ (\A t \in Callers : task[t] = "idle") => Latest(queue, current, Due)
  /\ \A t \in Callers : task[t] \notin {"off", "double"}

LEMMA InitOnItsWay == Init => OnItsWay
  BY DEF Init, OnItsWay, Alone, Latest, Due, Callers

LEMMA QueuedPattern ==
  ASSUME TypeOK, NEW p \in Patterns, Send(Pattern(p)), ~raced'
  PROVE  Latest(queue', current, p)
<1>1. queue' = Append(queue, Pattern(p))
  BY DEF Send
<1> QED BY <1>1, LatestOfPattern DEF TypeOK

LEMMA QueuedFlash ==
  ASSUME TypeOK, NEW n \in Nat \ {0}, Send(Flash(n)), ~raced', NEW p, Latest(queue, current, p)
  PROVE  Latest(queue', current, p)
<1>1. queue' = Append(queue, Flash(n))
  BY DEF Send
<1> QED BY <1>1, LatestOfFlash DEF TypeOK

LEMMA NextOnItsWay ==
  TypeOK /\ FlashRestores /\ OnItsWay /\ [Next]_vars => OnItsWay'
<1> SUFFICES ASSUME TypeOK, FlashRestores, OnItsWay, [Next]_vars PROVE OnItsWay'
  OBVIOUS
<1> USE DEF flagVars, ledVars
<1>1. CASE EnterPortal
  <2>1. ~raced' => Latest(queue', current, "double")
    BY <1>1, QueuedPattern DEF EnterPortal, Patterns
  <2>2. Due' = "double" /\ current' = current
    BY <1>1 DEF EnterPortal, Due
  <2> QED BY <1>1, <2>1, <2>2 DEF EnterPortal, OnItsWay, Alone
<1>2. CASE EnterNormal
  <2>1. ~raced' => Latest(queue', current, "fast")
    BY <1>2, QueuedPattern DEF EnterNormal, Patterns
  <2>2. Due' = "fast" /\ current' = current
    BY <1>2 DEF EnterNormal, Due
  <2> QED BY <1>2, <2>1, <2>2 DEF EnterNormal, OnItsWay, Alone
<1>3. CASE WifiUp \/ StreamStarts
  <2>1. Due' = Due /\ Due = "fast" /\ current' = current /\ queue' = queue
    BY <1>3 DEF WifiUp, StreamStarts, OnItsWay, Due
  <2>2. ~raced /\ (\A t \in Callers : task[t] = "idle") => Latest(queue', current', Due')
    BY <2>1 DEF OnItsWay
  <2> QED BY <1>3, <2>2 DEF WifiUp, StreamStarts, OnItsWay, Alone
<1>4. CASE ErrorFlash
  <2>1. ~raced' => ~raced
    BY <1>4 DEF ErrorFlash, Send
  <2>2. \A t \in Callers : task[t] = "idle"
    BY <1>4 DEF ErrorFlash, OnItsWay
  <2>3. PICK n \in {CameraFlashes, PortalFlashes} : Send(Flash(n))
    BY <1>4 DEF ErrorFlash
  <2>4. n \in Nat \ {0}
    BY DEF CameraFlashes, PortalFlashes
  <2>5. ~raced => Latest(queue, current, Due)
    BY <2>2 DEF OnItsWay
  <2>6. ~raced' => Latest(queue', current, Due)
    BY <2>1, <2>3, <2>4, <2>5, QueuedFlash
  <2>7. Due' = Due /\ current' = current
    BY <1>4 DEF ErrorFlash, Due
  <2> QED BY <1>4, <2>1, <2>2, <2>6, <2>7 DEF ErrorFlash, OnItsWay, Alone
<1>5. CASE \E b \in BOOLEAN : WsChanges(b)
  <2>1. task'["ws"] = "connected" /\ task'["peer"] = task["peer"] /\ mode' = "running"
        /\ raced' = (task["peer"] # "idle")
    BY <1>5 DEF WsChanges, TypeOK, Callers, Overlaps, Other
  <2> QED BY <2>1 DEF OnItsWay, Alone, Callers, Other
<1>6. CASE PeerHeals \/ PeerServesLan
  <2>1. task'["peer"] = "connected" /\ task'["ws"] = task["ws"] /\ mode' = "running"
        /\ raced' = (task["ws"] # "idle")
    BY <1>6 DEF PeerHeals, PeerServesLan, LanShown, TypeOK, Callers, Overlaps, Other
  <2> QED BY <2>1 DEF OnItsWay, Alone, Callers, Other
<1>7. CASE PeerLeavesLan
  <2>1. /\ task' = task /\ mode' = "running" /\ queue' = queue /\ current' = current
        /\ connected' = connected
        /\ ~raced' => ~raced /\ connected /\ \A t \in Callers : task[t] = "idle"
    BY <1>7 DEF PeerLeavesLan, Overlaps, Other, Callers
  <2>2. connected => Due' = Due
    BY <1>7, <2>1 DEF PeerLeavesLan, Due
  <2>3. ~raced' => Latest(queue', current', Due')
    BY <2>1, <2>2 DEF OnItsWay
  <2> QED BY <2>1, <2>3 DEF OnItsWay, Alone
<1>8. CASE \E t \in Callers : ReadsConnected(t) \/ ReadsLan(t)
  <2>1. PICK t \in Callers : ReadsConnected(t) \/ ReadsLan(t)
    BY <1>8
  <2>2. /\ task[t] \in {"connected", "lan"} /\ raced' = raced /\ mode' = mode
        /\ connected' = connected /\ lanActive' = lanActive
        /\ Other(t) \in Callers /\ Other(t) # t /\ Other(Other(t)) = t
        /\ task'[Other(t)] = task[Other(t)]
    BY <2>1 DEF ReadsConnected, ReadsLan, Callers, Other, TypeOK
  <2>3. /\ (task'[t] = "solid" => connected) /\ (task'[t] = "slow" => lanActive)
        /\ (task'[t] = "fast" => ~lanActive /\ task[t] = "lan")
        /\ (task'[t] = "slow" => task[t] = "lan") /\ (task'[t] = "lan" => ~connected)
        /\ task'[t] \in {"solid", "lan", "slow", "fast"}
    BY <2>1 DEF ReadsConnected, ReadsLan, TypeOK
  <2>4. ~raced => Alone(t)'
    BY <2>2, <2>3 DEF OnItsWay, Alone
  <2>5. ~raced => task[Other(t)] = "idle"
    BY <2>2 DEF OnItsWay, Alone
  <2>6. \A u \in Callers : u = t \/ u = Other(t)
    BY DEF Callers, Other
  <2>7. ~raced => \A u \in Callers : Alone(u)'
    BY <2>2, <2>4, <2>5, <2>6 DEF Alone
  <2>8. mode = "running"
    BY <2>2 DEF OnItsWay
  <2>9. \A u \in Callers : task'[u] \notin {"off", "double"}
    BY <2>2, <2>3, <2>6 DEF OnItsWay
  <2> QED BY <2>2, <2>3, <2>7, <2>8, <2>9 DEF OnItsWay
<1>9. CASE \E t \in Callers : SetsPattern(t)
  <2>1. PICK t \in Callers : SetsPattern(t)
    BY <1>9
  <2>2. /\ task[t] \in Patterns /\ Send(Pattern(task[t])) /\ mode' = mode
        /\ connected' = connected /\ lanActive' = lanActive /\ current' = current
        /\ task'[t] = "idle" /\ task'[Other(t)] = task[Other(t)]
        /\ Other(t) \in Callers /\ Other(t) # t
    BY <2>1 DEF SetsPattern, Callers, Other, TypeOK
  <2>3. mode = "running"
    BY <2>2 DEF OnItsWay, Patterns
  <2>4. ~raced' => ~raced
    BY <2>2 DEF Send
  <2>5. ~raced => task[t] = Due
    BY <2>2, <2>3 DEF OnItsWay, Alone, Due, Patterns
  <2>6. ~raced' => Latest(queue', current, Due)
    BY <2>2, <2>4, <2>5, QueuedPattern
  <2>7. Due' = Due
    BY <2>2 DEF Due
  <2>8. \A u \in Callers : u = t \/ u = Other(t)
    BY DEF Callers, Other
  <2>9. ~raced => task[Other(t)] = "idle"
    BY <2>2 DEF OnItsWay, Alone, Patterns
  <2>10. ~raced' => \A u \in Callers : Alone(u)'
    BY <2>2, <2>4, <2>8, <2>9 DEF Alone
  <2>11. \A u \in Callers : task'[u] \notin {"off", "double"}
    BY <2>2, <2>8 DEF OnItsWay
  <2> QED BY <2>2, <2>3, <2>6, <2>7, <2>10, <2>11 DEF OnItsWay
<1>10. CASE Receive
  <2>1. Head(queue) \in Commands /\ queue \in Seq(Commands) /\ queue # <<>>
    BY <1>10 DEF Receive, TypeOK
  <2>2. current' = IF Head(queue).flashes > 0 THEN current ELSE Head(queue).pattern
    BY <1>10 DEF Receive
  <2>3. queue' = Tail(queue) /\ Due' = Due /\ raced' = raced
    BY <1>10 DEF Receive, Due
  <2>4. ~raced /\ (\A t \in Callers : task[t] = "idle") => Latest(queue', current', Due')
    BY <2>1, <2>2, <2>3, LatestOfTail DEF OnItsWay
  <2> QED BY <1>10, <2>4 DEF Receive, OnItsWay, Alone
<1>11. CASE Show \/ Shown \/ UNCHANGED vars
  <2>1. current' = current
    BY <1>11 DEF Show, Shown, vars, FlashRestores, TypeOK
  <2>2. queue' = queue /\ mode' = mode /\ connected' = connected /\ lanActive' = lanActive
        /\ task' = task /\ raced' = raced
    <3>1. CASE Show BY <3>1 DEF Show
    <3>2. CASE Shown BY <3>2 DEF Shown
    <3>3. CASE UNCHANGED vars BY <3>3 DEF vars
    <3> QED BY <1>11, <3>1, <3>2, <3>3
  <2>4. Due' = Due
    BY <2>2 DEF Due
  <2>3. ~raced /\ (\A t \in Callers : task[t] = "idle") => Latest(queue', current', Due')
    BY <2>1, <2>2, <2>4 DEF OnItsWay
  <2> QED BY <2>2, <2>3 DEF OnItsWay, Alone
<1> QED
  BY <1>1, <1>2, <1>3, <1>4, <1>5, <1>6, <1>7, <1>8, <1>9, <1>10, <1>11
  DEF Next, LedUpdate

\* The LED shows what is due unless the two callers of led_update overlapped, a
\* command was dropped, or the LAN server was stopped with the cloud gone again.
THEOREM RaceOnly == Spec => []WrongOnlyByRace
<1>1. OnItsWay => WrongOnlyByRace
  <2> SUFFICES ASSUME OnItsWay, Quiet, ~raced PROVE current = Due
    BY DEF WrongOnlyByRace
  <2>1. Latest(<<>>, current, Due)
    BY DEF OnItsWay, Quiet
  <2> QED BY <2>1, LatestOfNone
<1> QED
  BY <1>1, InitOnItsWay, NextOnItsWay, TypeCorrect, Restores, PTL DEF Spec
===============================================================================
