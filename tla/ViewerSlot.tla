------------------------------ MODULE ViewerSlot ------------------------------
(***************************************************************************)
(* What the signaling hubs promise about "exactly one viewer per device",  *)
(* whichever hub runs it.  A device is reached through a series of         *)
(* connections; a viewer is one viewing session.  A session begins by      *)
(* taking the free slot.  It ends by leaving, and then frees the slot only *)
(* if the slot is its own; or it is evicted, and nothing but the end of a  *)
(* device connection (or the hub's shutdown) evicts.                       *)
(***************************************************************************)
CONSTANTS Conns,    \* device connections
          Viewers,  \* viewing sessions
          None      \* the free slot

VARIABLES slot,     \* the session the slot belongs to, or None
          running,  \* sessions that took the slot and have not left
          links,    \* device connections being served
          serving   \* FALSE once the hub began to shut down

slotVars == <<slot, running, links, serving>>

SlotInit == slot = None /\ running = {} /\ links = {} /\ serving = TRUE

\* A session takes the slot: only when it is free.
Take(v) ==
  /\ slot = None
  /\ v \notin running
  /\ slot' = v
  /\ running' = running \union {v}
  /\ UNCHANGED <<links, serving>>

\* A session ends and frees the slot if the slot is its own.
Leave(v) ==
  /\ v \in running
  /\ running' = running \ {v}
  /\ slot' = IF slot = v THEN None ELSE slot
  /\ UNCHANGED <<links, serving>>

LinkUp(d) ==
  /\ d \notin links
  /\ links' = links \union {d}
  /\ UNCHANGED <<slot, running, serving>>

\* A device connection ends: whoever watches is evicted.
LinkDown(d) ==
  /\ d \in links
  /\ links' = links \ {d}
  /\ slot' = None
  /\ UNCHANGED <<running, serving>>

\* A new device connection replaces every older one: whoever watches is evicted.
Takeover(d) ==
  /\ d \notin links
  /\ links' = {d}
  /\ slot' = None
  /\ UNCHANGED <<running, serving>>

\* Shutting down is the one other thing that evicts, and it happens once.
Shutdown ==
  /\ serving
  /\ serving' = FALSE
  /\ slot' = None
  /\ UNCHANGED <<running, links>>

SlotNext ==
  \/ \E v \in Viewers : Take(v) \/ Leave(v)
  \/ \E d \in Conns : LinkUp(d) \/ LinkDown(d) \/ Takeover(d)
  \/ Shutdown

SlotSpec == SlotInit /\ [][SlotNext]_slotVars

-------------------------------------------------------------------------------
(* A hub that keeps the slot in storage promises the same, but for two      *)
(* things that happen to it.                                                *)

\* It is torn down and started anew: every session and connection is over, and
\* the slot is still whose it was, until the next connection takes over.
Redeploy ==
  /\ running' = {} /\ links' = {}
  /\ UNCHANGED <<slot, serving>>

\* A connection that was served already takes over late: by then it may itself
\* be gone, or replaced.
LateTakeover(d) ==
  /\ links' = links \cap {d}
  /\ slot' = None
  /\ UNCHANGED <<running, serving>>

StoredSlotNext == SlotNext \/ Redeploy \/ \E d \in Conns : LateTakeover(d)

StoredSlotSpec == SlotInit /\ [][StoredSlotNext]_slotVars
===============================================================================
