---------------------------- MODULE ControlPanel ----------------------------
(***************************************************************************)
(* The server of the control panel (internal/ui): the single run slot, the *)
(* hub that fans messages out to the pages, and the /api/events handler of *)
(* each page.  What the panel derives from log lines is in FlowState.      *)
(*                                                                         *)
(* A run is its number; a status message is the number of the run it       *)
(* announces, or Idle.  All other messages are alike to the hub.  The      *)
(* commands a run executes, docker and the browser are external.           *)
(***************************************************************************)
EXTENDS Integers, Sequences

CONSTANTS
  Pages,      \* browser pages with an event stream
  ChanCap,    \* capacity of a subscriber's channel (512 in the code)
  MaxRuns     \* bound: runs started in one behaviour

ASSUME PanelAssumption == ChanCap \in Nat \ {0} /\ MaxRuns \in Nat

Runs == 1..MaxRuns
Idle == 0
Other == -1     \* a log, flow or udp message

VARIABLES
  slot,      \* the run whose cancel is in Server.cancel, Idle if nil
  handler,   \* the request that starts each run
  goroutine, \* the goroutine that start creates for it
  stopped,   \* runs whose context is cancelled
  kids,      \* runs whose command has children that hold its output pipe
  subs,      \* hub.subs
  chan,      \* the channel of each page's handleEvents
  closed,    \* pages whose channel is closed
  events,    \* handleEvents of each page
  snap,      \* the running, name it read
  view       \* the status each page shows

slotVars == <<slot, handler, goroutine, stopped, kids>>
hubVars  == <<subs, chan, closed, events, snap, view>>
vars     == <<slotVars, hubVars>>

TypeOK ==
  /\ slot \in Runs \cup {Idle}
  /\ handler \in [Runs -> {"none", "announce", "done"}]
  /\ goroutine \in [Runs -> {"none", "running", "released", "done"}]
  /\ stopped \subseteq Runs /\ kids \subseteq Runs
  /\ subs \subseteq Pages /\ closed \subseteq Pages
  /\ \A p \in Pages : chan[p] \in Seq(Runs \cup {Idle, Other}) /\ Len(chan[p]) <= ChanCap
  /\ events \in [Pages -> {"away", "read", "publish", "loop", "closing"}]
  /\ snap \in [Pages -> Runs \cup {Idle}]
  /\ view \in [Pages -> Runs \cup {Idle}]

Init ==
  /\ slot = Idle
  /\ handler = [r \in Runs |-> "none"]
  /\ goroutine = [r \in Runs |-> "none"]
  /\ stopped = {} /\ kids = {}
  /\ subs = {} /\ closed = Pages
  /\ chan = [p \in Pages |-> <<>>]
  /\ events = [p \in Pages |-> "away"]
  /\ snap = [p \in Pages |-> Idle]
  /\ view = [p \in Pages |-> Idle]

-----------------------------------------------------------------------------
(* hub.                                                                    *)

\* publish: a subscriber whose channel is full misses the message.
Offered(q, m) == IF Len(q) < ChanCap THEN Append(q, m) ELSE q
Publish(m) == chan' = [p \in Pages |-> IF p \in subs THEN Offered(chan[p], m) ELSE chan[p]]

\* log: the line, or nothing when the source is over its budget; the note of a
\* new window is one more message, a Chatter.
PublishLog == Publish(Other) \/ UNCHANGED chan

hubOnly == UNCHANGED <<subs, closed, events, snap, view>>

-----------------------------------------------------------------------------
(* The run slot.                                                           *)

\* start, up to the unlock; a second run is refused while one holds the slot.
Claim(r) ==
  /\ slot = Idle
  /\ handler[r] = "none" /\ \A q \in 1..(r - 1) : handler[q] # "none"
  /\ slot' = r
  /\ handler' = [handler EXCEPT ![r] = "announce"]
  /\ UNCHANGED <<goroutine, stopped, kids, hubVars>>

\* status(true, name), then the go statement.
Announce(r) ==
  /\ handler[r] = "announce"
  /\ Publish(r)
  /\ handler' = [handler EXCEPT ![r] = "done"]
  /\ goroutine' = [goroutine EXCEPT ![r] = "running"]
  /\ UNCHANGED <<slot, stopped, kids>> /\ hubOnly

\* The command starts children that share its output, as the scripts and
\* docker compose do.  A command whose context is cancelled is about to be
\* killed; what it still starts counts as started before.
Forks(r) ==
  /\ goroutine[r] = "running" /\ r \notin stopped /\ r \notin kids
  /\ kids' = kids \cup {r}
  /\ UNCHANGED <<slot, handler, goroutine, stopped, hubVars>>

KidsEnd(r) ==
  /\ r \in kids
  /\ kids' = kids \ {r}
  /\ UNCHANGED <<slot, handler, goroutine, stopped, hubVars>>

\* fn returned.  runStreaming scans the output to its end before it waits for the
\* command: that the command ended, or was killed when its context was
\* cancelled, is not enough while a child of it holds the pipe.
ReleaseUnlessStopped(r) ==
  /\ goroutine[r] = "running" /\ r \notin kids
  /\ goroutine' = [goroutine EXCEPT ![r] = "released"]
  /\ slot' = IF r \in stopped THEN slot ELSE Idle
  /\ UNCHANGED <<handler, stopped, kids, hubVars>>
Release(r) ==
  /\ goroutine[r] = "running" /\ r \notin kids
  /\ goroutine' = [goroutine EXCEPT ![r] = "released"]
  /\ slot' = Idle
  /\ UNCHANGED <<handler, stopped, kids, hubVars>>

\* status(false, "").
AnnounceIdle(r) ==
  /\ goroutine[r] = "released"
  /\ Publish(Idle)
  /\ goroutine' = [goroutine EXCEPT ![r] = "done"]
  /\ UNCHANGED <<slot, handler, stopped, kids>> /\ hubOnly

StopFreesSlot ==
  /\ stopped' = IF slot # Idle THEN stopped \cup {slot} ELSE stopped
  /\ slot' = Idle
  /\ PublishLog
  /\ UNCHANGED <<handler, goroutine, kids>> /\ hubOnly
HandleStop ==
  /\ stopped' = IF slot # Idle THEN stopped \cup {slot} ELSE stopped
  /\ PublishLog
  /\ UNCHANGED <<slot, handler, goroutine, kids>> /\ hubOnly

-----------------------------------------------------------------------------
\* log, publishFlow, publishUDPDelta, from any of their goroutines.
Chatter ==
  /\ Publish(Other)
  /\ UNCHANGED slotVars /\ hubOnly

-----------------------------------------------------------------------------
(* handleEvents, and the page behind it.                                   *)

Subscribe(p) ==
  /\ events[p] = "away"
  /\ subs' = subs \cup {p} /\ closed' = closed \ {p}
  /\ chan' = [chan EXCEPT ![p] = <<>>]
  /\ events' = [events EXCEPT ![p] = "read"]
  /\ UNCHANGED <<snap, view, slotVars>>

ReadSlot(p) ==
  /\ events[p] = "read"
  /\ snap' = [snap EXCEPT ![p] = slot]
  /\ events' = [events EXCEPT ![p] = "publish"]
  /\ UNCHANGED <<subs, chan, closed, view, slotVars>>

\* status(running, name) goes to every page.
PublishSnap(p) ==
  /\ events[p] = "publish"
  /\ Publish(snap[p])
  /\ events' = [events EXCEPT ![p] = "loop"]
  /\ snap' = [snap EXCEPT ![p] = Idle]
  /\ UNCHANGED <<subs, closed, view, slotVars>>

Deliver(p) ==
  /\ events[p] = "loop" /\ chan[p] # <<>>
  /\ chan' = [chan EXCEPT ![p] = Tail(@)]
  /\ view' = IF Head(chan[p]) = Other THEN view ELSE [view EXCEPT ![p] = Head(chan[p])]
  /\ UNCHANGED <<subs, closed, events, snap, slotVars>>

\* The page is gone: unsub removes the channel, then closes it.
UnsubClosesFirst(p) ==
  /\ events[p] = "loop"
  /\ closed' = closed \cup {p}
  /\ events' = [events EXCEPT ![p] = "closing"]
  /\ UNCHANGED <<subs, chan, snap, view, slotVars>>
Unsub(p) ==
  /\ events[p] = "loop"
  /\ subs' = subs \ {p}
  /\ events' = [events EXCEPT ![p] = "closing"]
  /\ UNCHANGED <<chan, closed, snap, view, slotVars>>

CloseChan(p) ==
  /\ events[p] = "closing"
  /\ closed' = closed \cup {p}
  /\ chan' = [chan EXCEPT ![p] = <<>>]
  /\ events' = [events EXCEPT ![p] = "away"]
  /\ UNCHANGED <<subs, snap, view, slotVars>>

-----------------------------------------------------------------------------

Next ==
  \/ \E r \in Runs : Claim(r) \/ Announce(r) \/ Release(r) \/ AnnounceIdle(r)
  \/ \E r \in Runs : Forks(r) \/ KidsEnd(r)
  \/ HandleStop \/ Chatter
  \/ \E p \in Pages : Subscribe(p) \/ ReadSlot(p) \/ PublishSnap(p) \/ Deliver(p)
                        \/ Unsub(p) \/ CloseChan(p)

\* Handlers and goroutines run, and a command whose context is cancelled is
\* killed by exec.CommandContext, which kills no child of it and, without a
\* WaitDelay, closes no pipe.  A command that is not stopped may run on, and so
\* may its children in any case.
Fairness ==
  \A r \in Runs : /\ WF_vars(Announce(r)) /\ WF_vars(AnnounceIdle(r))
                  /\ WF_vars(r \in stopped /\ Release(r))

Spec == Init /\ [][Next]_vars /\ Fairness

-----------------------------------------------------------------------------
(* Properties.                                                             *)

\* "start claims the single run slot so two actions cannot interleave"
\* (ui.go:757): at most one command runs, whatever is started and stopped, and
\* it is the one that stop would cancel; nor do children of a killed command
\* write into the log of the next run.
OneRunAtATime ==
  \A r \in Runs :
    goroutine[r] = "running" \/ handler[r] = "announce" \/ r \in kids => slot = r

\* publish never sends on a closed channel, which would panic and end the panel
\* (hub.go:26-31, 38-45).
NoSendOnClosed == subs \cap closed = {}

\* A run that was told to stop gives up the slot, also when the stop came
\* between the claim and the start of its goroutine, unless children of its
\* command hold the output pipe for ever: then the panel stays busy and refuses
\* every run (ui.go:549-568, 758-787).
StopFreesTheSlot == \A r \in Runs : (r \in stopped) ~> (slot # r \/ [](r \in kids))
=============================================================================
