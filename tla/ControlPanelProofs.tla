------------------------- MODULE ControlPanelProofs -------------------------
(***************************************************************************)
(* Safety of the control panel's run slot and hub, for any number of runs, *)
(* pages and any capacity of the channels.                                 *)
(***************************************************************************)
EXTENDS ControlPanel, TLAPS

\* The control state the run slot depends on.
SlotType ==
  /\ slot \in Runs \cup {Idle}
  /\ handler \in [Runs -> {"none", "announce", "done"}]
  /\ goroutine \in [Runs -> {"none", "running", "released", "done"}]
  /\ stopped \subseteq Runs /\ kids \subseteq Runs

\* OneRunAtATime alone is not inductive: the goroutine that frees the slot must
\* not be that of a run whose handler is still about to announce it.
\* And children are those of a command that fn still waits for.
StartedByHandler ==
  \A r \in Runs : /\ goroutine[r] # "none" => handler[r] = "done"
                  /\ r \in kids => goroutine[r] = "running"

SlotInv == SlotType /\ OneRunAtATime /\ StartedByHandler

\* The slot is changed by start, by its goroutine and by handleStop alone: every
\* step of the hub and of the pages leaves it as it is.
HubStep ==
  \/ Chatter
  \/ \E p \in Pages : Subscribe(p) \/ ReadSlot(p) \/ PublishSnap(p) \/ Deliver(p)
                        \/ Unsub(p) \/ CloseChan(p)

\* No step of the hub or of a page touches the run slot (hub.go:18-85).
LEMMA HubLeavesSlot == HubStep => UNCHANGED slotVars
<1>1. Chatter => UNCHANGED slotVars
  BY DEF Chatter
<1>2. ASSUME NEW p \in Pages
      PROVE  Subscribe(p) \/ ReadSlot(p) \/ PublishSnap(p) \/ Deliver(p)
               \/ Unsub(p) \/ CloseChan(p) => UNCHANGED slotVars
  BY DEF Subscribe, ReadSlot, PublishSnap, Deliver, Unsub, CloseChan
<1> QED BY <1>1, <1>2 DEF HubStep

\* Each step of start, of its goroutine and of handleStop keeps SlotInv
\* (ui.go:757-787).
LEMMA SlotStep ==
  ASSUME SlotInv, [Next]_vars
  PROVE  SlotInv'
<1> USE DEF SlotInv
<1>1. ASSUME NEW r \in Runs, Claim(r) PROVE SlotInv'
  <2>1. SlotType' /\ StartedByHandler'
    BY <1>1 DEF Claim, SlotType, StartedByHandler
  <2>2. \A q \in Runs : goroutine[q] # "running" /\ handler[q] # "announce" /\ q \notin kids
    BY <1>1 DEF Claim, OneRunAtATime, Runs, Idle
  <2>3. OneRunAtATime'
    BY <1>1, <2>2 DEF Claim, SlotType, OneRunAtATime
  <2> QED BY <2>1, <2>3
<1>2. ASSUME NEW r \in Runs, Announce(r) PROVE SlotInv'
  <2>1. slot = r
    BY <1>2 DEF Announce, OneRunAtATime
  <2>2. SlotType' /\ StartedByHandler'
    BY <1>2 DEF Announce, SlotType, StartedByHandler
  <2>3. OneRunAtATime'
    BY <1>2, <2>1 DEF Announce, SlotType, OneRunAtATime
  <2> QED BY <2>2, <2>3
<1>3. ASSUME NEW r \in Runs, Release(r) PROVE SlotInv'
  <2>1. slot = r /\ handler[r] = "done"
    BY <1>3 DEF Release, OneRunAtATime, StartedByHandler
  <2>2. \A q \in Runs : q # r => goroutine[q] # "running" /\ handler[q] # "announce" /\ q \notin kids
    BY <2>1 DEF OneRunAtATime
  <2>3. SlotType' /\ StartedByHandler'
    BY <1>3 DEF Release, SlotType, StartedByHandler
  <2>4. OneRunAtATime'
    BY <1>3, <2>1, <2>2 DEF Release, SlotType, OneRunAtATime
  <2> QED BY <2>3, <2>4
<1>4. ASSUME NEW r \in Runs, AnnounceIdle(r) PROVE SlotInv'
  BY <1>4 DEF AnnounceIdle, SlotType, OneRunAtATime, StartedByHandler
<1>5. ASSUME HandleStop PROVE SlotInv'
  <2>1. UNCHANGED <<slot, handler, goroutine, kids>> /\ stopped' \subseteq Runs
    BY <1>5 DEF HandleStop, SlotType, Idle
  <2> QED BY <2>1 DEF SlotType, OneRunAtATime, StartedByHandler
<1>6. ASSUME UNCHANGED slotVars PROVE SlotInv'
  BY <1>6 DEF slotVars, SlotType, OneRunAtATime, StartedByHandler
<1>7. CASE HubStep
  BY <1>6, <1>7, HubLeavesSlot
<1>8. CASE UNCHANGED vars
  BY <1>6, <1>8 DEF vars
<1>9. ASSUME NEW r \in Runs, Forks(r) \/ KidsEnd(r) PROVE SlotInv'
  <2>1. goroutine[r] = "running" /\ slot = r
    BY <1>9 DEF Forks, KidsEnd, OneRunAtATime, StartedByHandler
  <2> QED BY <1>9, <2>1 DEF Forks, KidsEnd, SlotType, OneRunAtATime, StartedByHandler
<1> QED BY <1>1, <1>2, <1>3, <1>4, <1>5, <1>7, <1>8, <1>9 DEF Next, HubStep

\* start "claims the single run slot so two actions cannot interleave"
\* (ui.go:757): no two commands run at once, and the one that runs is the one
\* handleStop cancels, however many runs are started and stopped.
THEOREM RunsExclude == Spec => []OneRunAtATime
<1>1. Init => SlotInv
  BY DEF Init, SlotInv, SlotType, OneRunAtATime, StartedByHandler
<1>2. SlotInv /\ [Next]_vars => SlotInv'
  BY SlotStep
<1>3. SlotInv => OneRunAtATime
  BY DEF SlotInv
<1> QED BY <1>1, <1>2, <1>3, PTL DEF Spec

-----------------------------------------------------------------------------

\* A page's channel is open exactly while its handler is between sub and the
\* close, and in the hub only until unsub removes it.
ChannelOpen ==
  \A p \in Pages :
    /\ p \in subs => events[p] \in {"read", "publish", "loop"}
    /\ p \in closed <=> events[p] = "away"

HubInv ==
  /\ subs \subseteq Pages /\ closed \subseteq Pages
  /\ events \in [Pages -> {"away", "read", "publish", "loop", "closing"}]
  /\ ChannelOpen

\* Every step of a page keeps HubInv: sub opens a channel, unsub takes it out of
\* the hub, and only then it is closed (hub.go:18-31, 63-64).
LEMMA HubKept ==
  ASSUME HubInv, [Next]_vars
  PROVE  HubInv'
<1> USE DEF HubInv, ChannelOpen
<1>1. ASSUME UNCHANGED <<subs, closed, events>> PROVE HubInv'
  BY <1>1
<1>2. ASSUME NEW r \in Runs, \/ Claim(r) \/ Announce(r) \/ Release(r) \/ AnnounceIdle(r)
                             \/ Forks(r) \/ KidsEnd(r)
      PROVE  HubInv'
  BY <1>1, <1>2 DEF Claim, Announce, Release, AnnounceIdle, Forks, KidsEnd, hubOnly, hubVars
<1>3. ASSUME HandleStop \/ Chatter PROVE HubInv'
  BY <1>1, <1>3 DEF HandleStop, Chatter, hubOnly
<1>4. ASSUME NEW p \in Pages, Subscribe(p) PROVE HubInv'
  BY <1>4 DEF Subscribe
<1>5. ASSUME NEW p \in Pages, ReadSlot(p) \/ PublishSnap(p) PROVE HubInv'
  BY <1>5 DEF ReadSlot, PublishSnap
<1>6. ASSUME NEW p \in Pages, Deliver(p) PROVE HubInv'
  BY <1>1, <1>6 DEF Deliver
<1>7. ASSUME NEW p \in Pages, Unsub(p) PROVE HubInv'
  BY <1>7 DEF Unsub
<1>8. ASSUME NEW p \in Pages, CloseChan(p) PROVE HubInv'
  BY <1>8 DEF CloseChan
<1>9. CASE UNCHANGED vars
  BY <1>1, <1>9 DEF vars, hubVars
<1> QED BY <1>2, <1>3, <1>4, <1>5, <1>6, <1>7, <1>8, <1>9 DEF Next

\* publish finds no closed channel in the hub, whatever the pages do
\* (hub.go:26-31, 38-45): the panel never panics on a page that left.
THEOREM HubIsSafe == Spec => []NoSendOnClosed
<1>1. Init => HubInv
  BY DEF Init, HubInv, ChannelOpen
<1>2. HubInv /\ [Next]_vars => HubInv'
  BY HubKept
<1>3. HubInv => NoSendOnClosed
  BY DEF HubInv, ChannelOpen, NoSendOnClosed
<1> QED BY <1>1, <1>2, <1>3, PTL DEF Spec
=============================================================================
