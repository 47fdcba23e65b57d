----------------------------- MODULE TokenPacer -----------------------------
(***************************************************************************)
(* The pacer of blast (internal/blast/load.go, tokenPacer): workers that   *)
(* share a rate reserve start slots under p.mu and sleep until their slot. *)
(* Time is discrete; a goroutine whose timer fired may run any time later. *)
(***************************************************************************)
EXTENDS Integers, FiniteSets

CONSTANTS
  Workers,    \* goroutines that call wait
  Interval,   \* tokenPacer.interval, in ticks (0 for rps above 10^9)
  MaxTime     \* bound: ticks of one behaviour

ASSUME PacerAssumption == IsFiniteSet(Workers) /\ Interval \in Nat /\ MaxTime \in Nat

Zero == -1    \* the zero time.Time

VARIABLES
  now,        \* time.Now()
  next,       \* tokenPacer.next
  pc,         \* wait of each worker: "idle", "sleep" or "gone"
  until,      \* the time a sleeping worker's timer fires
  ctxDone,    \* ctx.Err() # nil
  slots       \* history: the start times granted, with their holders

vars == <<now, next, pc, until, ctxDone, slots>>

Slot == [at : Nat, by : Workers]

TypeOK ==
  /\ now \in 0..MaxTime
  /\ next \in {Zero} \cup Nat
  /\ pc \in [Workers -> {"idle", "sleep", "gone"}]
  /\ until \in [Workers -> Nat]
  /\ ctxDone \in BOOLEAN
  /\ slots \subseteq Slot

Init ==
  /\ now = 0
  /\ next = Zero
  /\ pc = [w \in Workers |-> "idle"]
  /\ until = [w \in Workers |-> 0]
  /\ ctxDone = FALSE
  /\ slots = {}

-----------------------------------------------------------------------------
(* wait, up to p.mu.Unlock.                                                *)

Grant(w, t) == slots' = slots \cup {[at |-> t, by |-> w]}

\* next has passed: the slot is now, and idle time earns nothing.
TakeNowKeepingCredit(w) ==
  /\ pc[w] = "idle"
  /\ next = Zero \/ next <= now
  /\ next' = (IF next = Zero THEN now ELSE next) + Interval
  /\ Grant(w, now)
  /\ pc' = IF ctxDone THEN [pc EXCEPT ![w] = "gone"] ELSE pc
  /\ UNCHANGED <<now, until, ctxDone>>
TakeNow(w) ==
  /\ pc[w] = "idle"
  /\ next = Zero \/ next <= now
  /\ next' = now + Interval
  /\ Grant(w, now)
  /\ pc' = IF ctxDone THEN [pc EXCEPT ![w] = "gone"] ELSE pc
  /\ UNCHANGED <<now, until, ctxDone>>

\* next is ahead: reserve it and sleep until it comes.
Reserve(w) ==
  /\ pc[w] = "idle"
  /\ next > now
  /\ until' = [until EXCEPT ![w] = next]
  /\ next' = next + Interval
  /\ Grant(w, next)
  /\ pc' = [pc EXCEPT ![w] = "sleep"]
  /\ UNCHANGED <<now, ctxDone>>

(* The select of wait. *)

TimerFiresAtOnce(w) ==
  /\ pc[w] = "sleep"
  /\ pc' = [pc EXCEPT ![w] = "idle"]
  /\ UNCHANGED <<now, next, until, ctxDone, slots>>
TimerFires(w) ==
  /\ pc[w] = "sleep"
  /\ until[w] <= now
  /\ pc' = [pc EXCEPT ![w] = "idle"]
  /\ UNCHANGED <<now, next, until, ctxDone, slots>>

\* The slot of a cancelled waiter is not given back.
Cancelled(w) ==
  /\ pc[w] = "sleep"
  /\ ctxDone
  /\ pc' = [pc EXCEPT ![w] = "gone"]
  /\ UNCHANGED <<now, next, until, ctxDone, slots>>

CtxEnds ==
  /\ ~ctxDone
  /\ ctxDone' = TRUE
  /\ UNCHANGED <<now, next, pc, until, slots>>

Tick ==
  /\ now < MaxTime
  /\ now' = now + 1
  /\ UNCHANGED <<next, pc, until, ctxDone, slots>>

Wait(w) == TakeNow(w) \/ Reserve(w) \/ TimerFires(w) \/ Cancelled(w)

Next == CtxEnds \/ Tick \/ \E w \in Workers : Wait(w)

Spec == Init /\ [][Next]_vars

-----------------------------------------------------------------------------
(* Properties.                                                             *)

Apart(a, b) == a - b >= Interval \/ b - a >= Interval

\* Two granted slots are never closer than one interval, whatever the
\* interleaving of the workers and however long they were idle: "late waiters
\* do not burst; they take the next slot" (load.go:79-80).
SlotsSpaced ==
  \A s, t \in slots : s # t => Apart(s.at, t.at)

\* The rate is also an upper bound on the backlog: next is at most one
\* interval per sleeping or just started worker ahead of the clock.
BacklogBounded ==
  next <= now + Interval * (1 + Cardinality({w \in Workers : pc[w] # "idle"}))

=============================================================================
