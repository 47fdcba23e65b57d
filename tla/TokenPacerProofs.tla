-------------------------- MODULE TokenPacerProofs --------------------------
(* Proofs about TokenPacer, for every set of workers and every interval. *)
EXTENDS TokenPacer, TLAPS, FiniteSetTheorems

\* Every granted slot lies at least one interval before next: what makes
\* SlotsSpaced inductive, since a new slot is never earlier than next.
SlotsBehindNext == \A s \in slots : s.at + Interval <= next

IInv == TypeOK /\ SlotsBehindNext /\ SlotsSpaced

\* Before the first call no slot is granted.
LEMMA InitIInv == Init => IInv
<1> SUFFICES ASSUME Init PROVE IInv
  OBVIOUS
<1>1. TypeOK
  <2>1. now \in 0..MaxTime /\ next \in {Zero} \cup Nat
    BY PacerAssumption DEF Init
  <2>2. pc \in [Workers -> {"idle", "sleep", "gone"}] /\ until \in [Workers -> Nat]
    BY DEF Init
  <2>3. ctxDone \in BOOLEAN /\ slots \subseteq Slot
    BY DEF Init
  <2> QED BY <2>1, <2>2, <2>3 DEF TypeOK
<1>2. slots = {}
  BY DEF Init
<1> QED BY <1>1, <1>2 DEF IInv, SlotsBehindNext, SlotsSpaced

\* A slot granted at t, not before next, with next moved to t + Interval: the
\* step that TakeNow and Reserve share.
LEMMA GrantSpaced ==
  ASSUME IInv, NEW w \in Workers, NEW t \in Nat,
         next = Zero \/ next <= t,
         next' = t + Interval, Grant(w, t)
  PROVE  next' \in {Zero} \cup Nat /\ slots' \subseteq Slot /\ SlotsBehindNext' /\ SlotsSpaced'
<1> DEFINE g == [at |-> t, by |-> w]
<1>1. slots' = slots \cup {g} /\ g \in Slot /\ g.at = t
  BY DEF Grant, Slot
<1>2. slots \subseteq Slot /\ next \in {Zero} \cup Nat
  BY DEF IInv, TypeOK
<1>3. \A s \in slots : s.at \in Nat /\ s.at + Interval <= t
  BY <1>2, PacerAssumption DEF IInv, SlotsBehindNext, Slot, Zero
<1>4. next' \in Nat /\ slots' \subseteq Slot
  BY <1>1, <1>2, PacerAssumption
<1>5. SlotsBehindNext'
  <2> SUFFICES ASSUME NEW s \in slots' PROVE s.at + Interval <= next'
    BY DEF SlotsBehindNext
  <2>1. CASE s = g
    BY <2>1, <1>1, PacerAssumption
  <2>2. CASE s \in slots
    BY <2>2, <1>3, PacerAssumption
  <2> QED BY <2>1, <2>2, <1>1
<1>6. SlotsSpaced'
  <2> SUFFICES ASSUME NEW s \in slots', NEW u \in slots', s # u PROVE Apart(s.at, u.at)
    BY DEF SlotsSpaced, Apart
  <2>1. CASE s \in slots /\ u \in slots
    BY <2>1 DEF IInv, SlotsSpaced
  <2>2. CASE s = g /\ u \in slots
    BY <2>2, <1>1, <1>3, PacerAssumption DEF Apart
  <2>3. CASE s \in slots /\ u = g
    BY <2>3, <1>1, <1>3, PacerAssumption DEF Apart
  <2> QED BY <2>1, <2>2, <2>3, <1>1
<1> QED BY <1>4, <1>5, <1>6

\* IInv is inductive.
LEMMA NextIInv == IInv /\ [Next]_vars => IInv'
<1> SUFFICES ASSUME IInv, [Next]_vars PROVE IInv'
  OBVIOUS
<1>t. TypeOK /\ Interval \in Nat /\ MaxTime \in Nat
  BY PacerAssumption DEF IInv
<1>n. now \in Nat
  BY <1>t DEF TypeOK
<1>1. ASSUME NEW w \in Workers, TakeNow(w) PROVE IInv'
  <2>1. next' \in {Zero} \cup Nat /\ slots' \subseteq Slot /\ SlotsBehindNext' /\ SlotsSpaced'
    <3>1. next = Zero \/ next <= now
      BY <1>1 DEF TakeNow
    <3>2. next' = now + Interval /\ Grant(w, now)
      BY <1>1 DEF TakeNow
    <3> QED BY <3>1, <3>2, <1>n, GrantSpaced
  <2>2. pc' \in [Workers -> {"idle", "sleep", "gone"}]
    BY <1>1, <1>t, <1>n DEF TakeNow, TypeOK
  <2> QED BY <1>1, <1>t, <2>1, <2>2 DEF TakeNow, TypeOK, IInv
<1>2. ASSUME NEW w \in Workers, Reserve(w) PROVE IInv'
  <2>0. next \in Nat
    BY <1>2, <1>t, <1>n DEF Reserve, TypeOK, Zero
  <2>1. next' \in {Zero} \cup Nat /\ slots' \subseteq Slot /\ SlotsBehindNext' /\ SlotsSpaced'
    <3>1. next' = next + Interval /\ Grant(w, next) /\ next <= next
      BY <1>2, <2>0 DEF Reserve
    <3> QED BY <3>1, <2>0, GrantSpaced
  <2> QED BY <1>2, <1>t, <2>0, <2>1 DEF Reserve, TypeOK, IInv
<1>3. ASSUME NEW w \in Workers, TimerFires(w) PROVE IInv'
  BY <1>3, <1>t, <1>n DEF TimerFires, IInv, TypeOK, SlotsBehindNext, SlotsSpaced, Apart
<1>4. ASSUME NEW w \in Workers, Cancelled(w) PROVE IInv'
  BY <1>4 DEF Cancelled, IInv, TypeOK, SlotsBehindNext, SlotsSpaced, Apart
<1>5. CASE CtxEnds
  BY <1>5 DEF CtxEnds, IInv, TypeOK, SlotsBehindNext, SlotsSpaced, Apart
<1>6. CASE Tick
  BY <1>6, <1>t DEF Tick, IInv, TypeOK, SlotsBehindNext, SlotsSpaced, Apart
<1>7. CASE UNCHANGED vars
  BY <1>7 DEF vars, IInv, TypeOK, SlotsBehindNext, SlotsSpaced, Apart
<1> QED BY <1>1, <1>2, <1>3, <1>4, <1>5, <1>6, <1>7 DEF Next, Wait

\* The start slots tokenPacer.wait hands out are never closer than one
\* interval, for any number of workers, any interval and any interleaving.
THEOREM PacerNeverBursts == Spec => [](TypeOK /\ SlotsSpaced)
<1>1. IInv => TypeOK /\ SlotsSpaced
  BY DEF IInv
<1> QED BY InitIInv, NextIInv, <1>1, PTL DEF Spec

-----------------------------------------------------------------------------
(* The backlog.                                                            *)

\* The workers that hold a slot after t.
Ahead(t) == {w \in Workers : pc[w] # "idle" /\ until[w] > t}

\* From every time on, not from the present alone, next is one interval per slot
\* still ahead away: as the clock ticks, slots are left behind.
Spread == \A t \in Nat : t >= now => next <= t + Interval * (1 + Cardinality(Ahead(t)))

\* The workers are finitely many, and so are the ones that wait.
LEMMA AheadFinite ==
  ASSUME NEW S \in SUBSET Workers
  PROVE  IsFiniteSet(S) /\ Cardinality(S) \in Nat
BY PacerAssumption, FS_Subset, FS_CardinalityType

\* A slot more is an interval more.
LEMMA OneMore ==
  ASSUME NEW I \in Nat, NEW c \in Nat, NEW d \in Nat
  PROVE  /\ I * (1 + c) \in Nat /\ I * (1 + (c + 1)) = I * (1 + c) + I
         /\ I <= I * (1 + c)
         /\ c <= d => I * (1 + c) <= I * (1 + d)
<1>1. I * (1 + c) = I + I * c /\ I * c \in Nat
  OBVIOUS
<1>2. I * (1 + (c + 1)) = I * (1 + c) + I
  OBVIOUS
<1>3. ASSUME c <= d PROVE I * (1 + c) <= I * (1 + d)
  <2>1. PICK e \in Nat : d = c + e
    <3>1. d = c + (d - c) /\ d - c \in Nat
      BY <1>3
    <3> QED BY <3>1
  <2>2. I * (1 + d) = I * (1 + c) + I * e /\ I * e \in Nat
    BY <2>1
  <2> QED BY <1>1, <2>2
<1> QED BY <1>1, <1>2, <1>3

\* A step that adds no slot, lets none be given up before its time and does not
\* turn back the clock.
LEMMA SpreadKept ==
  ASSUME TypeOK, now' \in Nat, Spread, next' = next, now <= now',
         \A t \in Nat : t >= now' => Ahead(t)' = Ahead(t)
  PROVE  Spread'
<1> SUFFICES ASSUME NEW t \in Nat, t >= now'
             PROVE  next' <= t + Interval * (1 + Cardinality(Ahead(t)'))
  BY DEF Spread
<1>1. t >= now
  BY DEF TypeOK
<1> QED BY <1>1 DEF Spread

\* Spread is inductive.
LEMMA SpreadStep == TypeOK /\ TypeOK' /\ Spread /\ [Next]_vars => Spread'
<1> SUFFICES ASSUME TypeOK, TypeOK', Spread, [Next]_vars PROVE Spread'
  OBVIOUS
<1>t. /\ Interval \in Nat /\ now \in Nat /\ now' \in Nat
      /\ next \in Int /\ next' \in Int
  BY PacerAssumption DEF TypeOK, Zero
<1>s. \A t : Ahead(t) \in SUBSET Workers /\ Ahead(t)' \in SUBSET Workers
  BY DEF Ahead
<1>c. \A t : Cardinality(Ahead(t)) \in Nat /\ Cardinality(Ahead(t)') \in Nat
  BY <1>s, AheadFinite
<1>1. ASSUME NEW w \in Workers, TakeNow(w) PROVE Spread'
  <2> SUFFICES ASSUME NEW t \in Nat, t >= now'
               PROVE  next' <= t + Interval * (1 + Cardinality(Ahead(t)'))
    BY DEF Spread
  <2>1. now' = now /\ next' = now + Interval
    BY <1>1 DEF TakeNow
  <2> DEFINE c == Cardinality(Ahead(t)')
  <2>2. Interval * (1 + c) \in Nat /\ Interval <= Interval * (1 + c)
    BY <1>t, <1>c, OneMore
  <2> HIDE DEF c
  <2>3. next' <= t + Interval * (1 + c)
    BY <1>t, <2>1, <2>2
  <2> QED BY <2>3 DEF c
<1>2. ASSUME NEW w \in Workers, Reserve(w) PROVE Spread'
  <2> SUFFICES ASSUME NEW t \in Nat, t >= now'
               PROVE  next' <= t + Interval * (1 + Cardinality(Ahead(t)'))
    BY DEF Spread
  <2>1. /\ now' = now /\ next' = next + Interval /\ pc[w] = "idle"
        /\ until' = [until EXCEPT ![w] = next] /\ pc' = [pc EXCEPT ![w] = "sleep"]
    BY <1>2 DEF Reserve
  <2> DEFINE c == Cardinality(Ahead(t))
             d == Cardinality(Ahead(t)')
  <2>2. next <= t + Interval * (1 + c)
    BY <2>1 DEF Spread
  <2>3. c \in Nat /\ d \in Nat
    BY <1>c
  <2>4. next > t => d = c + 1
    <3> SUFFICES ASSUME next > t PROVE d = c + 1
      OBVIOUS
    <3>1. Ahead(t)' = Ahead(t) \cup {w} /\ w \notin Ahead(t)
      BY <2>1 DEF Ahead, TypeOK
    <3> QED BY <1>s, <3>1, AheadFinite, FS_AddElement
  <2>5. /\ Interval * (1 + c) \in Nat /\ Interval * (1 + (c + 1)) = Interval * (1 + c) + Interval
        /\ Interval * (1 + d) \in Nat /\ Interval <= Interval * (1 + d)
    BY <1>t, <2>3, OneMore
  <2> HIDE DEF c, d
  <2>6. CASE next > t
    BY <1>t, <2>1, <2>2, <2>3, <2>4, <2>5, <2>6 DEF d
  <2>7. CASE ~(next > t)
    BY <1>t, <2>1, <2>5, <2>7 DEF d
  <2> QED BY <2>6, <2>7
<1>3. ASSUME NEW w \in Workers, TimerFires(w) PROVE Spread'
  <2>1. now' = now /\ next' = next
    BY <1>3 DEF TimerFires
  <2>2. ASSUME NEW t \in Nat, t >= now' PROVE Ahead(t)' = Ahead(t)
    BY <1>3, <1>t, <2>2 DEF TimerFires, Ahead, TypeOK
  <2> QED BY <1>t, <2>1, <2>2, SpreadKept
<1>4. ASSUME NEW w \in Workers, Cancelled(w) PROVE Spread'
  <2>1. now' = now /\ next' = next
    BY <1>4 DEF Cancelled
  <2>2. ASSUME NEW t \in Nat, t >= now' PROVE Ahead(t)' = Ahead(t)
    BY <1>4 DEF Cancelled, Ahead, TypeOK
  <2> QED BY <1>t, <2>1, <2>2, SpreadKept
<1>5. CASE CtxEnds \/ Tick \/ UNCHANGED vars
  <2>1. next' = next /\ now <= now' /\ UNCHANGED <<pc, until>>
    BY <1>5, <1>t DEF CtxEnds, Tick, vars
  <2>2. ASSUME NEW t \in Nat, t >= now' PROVE Ahead(t)' = Ahead(t)
    BY <2>1 DEF Ahead
  <2> QED BY <1>t, <2>1, <2>2, SpreadKept
<1> QED BY <1>1, <1>2, <1>3, <1>4, <1>5 DEF Next, Wait

\* However many workers share a rate, next runs ahead of the clock by no more than
\* an interval for each of them that is asleep or gone, and one: a slot is handed
\* out only to a worker that then waits for it (tokenPacer.wait).
THEOREM BacklogIsBounded == Spec => []BacklogBounded
<1>1. Init => Spread
  <2> SUFFICES ASSUME Init, NEW t \in Nat
               PROVE  next <= t + Interval * (1 + Cardinality(Ahead(t)))
    BY DEF Spread
  <2>1. Cardinality(Ahead(t)) \in Nat /\ Interval \in Nat
    BY AheadFinite, PacerAssumption DEF Ahead
  <2>2. Interval * (1 + Cardinality(Ahead(t))) \in Nat
    BY <2>1, OneMore
  <2> QED BY <2>2 DEF Init, Zero
<1>2. TypeOK /\ Spread => BacklogBounded
  <2> SUFFICES ASSUME TypeOK, Spread PROVE BacklogBounded
    OBVIOUS
  <2> DEFINE Busy == {w \in Workers : pc[w] # "idle"}
             c == Cardinality(Ahead(now))
             d == Cardinality(Busy)
  <2>1. now \in Nat /\ Interval \in Nat /\ next \in Int
    BY PacerAssumption DEF TypeOK, Zero
  <2>2. Ahead(now) \subseteq Busy /\ Busy \subseteq Workers
    BY DEF Ahead
  <2>3. c \in Nat /\ d \in Nat /\ c <= d
    BY <2>2, AheadFinite, FS_Subset
  <2>4. next <= now + Interval * (1 + c)
    BY <2>1 DEF Spread
  <2>5. /\ Interval * (1 + c) <= Interval * (1 + d)
        /\ Interval * (1 + c) \in Nat /\ Interval * (1 + d) \in Nat
    BY <2>1, <2>3, OneMore
  <2> HIDE DEF c, d, Busy
  <2>6. next <= now + Interval * (1 + d)
    BY <2>1, <2>4, <2>5
  <2> QED BY <2>6 DEF BacklogBounded, d, Busy
<1>3. Spec => []TypeOK
  BY PacerNeverBursts, PTL
<1> QED BY <1>1, <1>2, <1>3, SpreadStep, PTL DEF Spec
=============================================================================
