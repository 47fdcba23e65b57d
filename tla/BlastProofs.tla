---------------------------- MODULE BlastProofs -----------------------------
(***************************************************************************)
(* Proofs about Blast, for every set of command lines, every bound and     *)
(* every size of the sample store.                                         *)
(*                                                                         *)
(* The figures of a run are sums over goroutines that each do one thing at *)
(* a time.  The invariant counts, besides what was recorded, the           *)
(* goroutines on their way to record it: InFlight, Counting, Filing and    *)
(* Answered.  A command line that Main refuses starts nothing, so that it  *)
(* has an invariant of its own, Refused.                                   *)
(*                                                                         *)
(* What sorting does is an induction over the length of the list, written  *)
(* as the absence of a least length that fails (LeastNatural).             *)
(***************************************************************************)
EXTENDS Blast, TLAPS, FiniteSetTheorems, SequenceTheorems, FunctionTheorems,
        WellFoundedInduction

-----------------------------------------------------------------------------
(* Counting, and arithmetic.                                               *)

\* What the move of one element does to the size of a subset.
LEMMA OneMoves ==
  ASSUME NEW T, IsFiniteSet(T), NEW A \in SUBSET T, NEW B \in SUBSET T, NEW t \in T,
         \A u \in T \ {t} : u \in A <=> u \in B
  PROVE  /\ Cardinality(A) \in Nat /\ Cardinality(B) \in Nat
         /\ Cardinality(B) + (IF t \in A THEN 1 ELSE 0)
              = Cardinality(A) + (IF t \in B THEN 1 ELSE 0)
<1>1. IsFiniteSet(A) /\ IsFiniteSet(B)
  BY FS_Subset
<1>2. Cardinality(A) \in Nat /\ Cardinality(B) \in Nat
  BY <1>1, FS_CardinalityType
<1> DEFINE a == Cardinality(A)
           b == Cardinality(B)
           k == Cardinality(A \ {t})
<1>3. k = IF t \in A THEN a - 1 ELSE a
  BY <1>1, FS_RemoveElement
<1>4. A \ {t} = B \ {t}
  OBVIOUS
<1>5. k = IF t \in B THEN b - 1 ELSE b
  BY <1>1, <1>4, FS_RemoveElement
<1> HIDE DEF a, b, k
<1>6. a \in Nat /\ b \in Nat
  BY <1>2 DEF a, b
<1>7. b + (IF t \in A THEN 1 ELSE 0) = a + (IF t \in B THEN 1 ELSE 0)
  BY <1>3, <1>5, <1>6
<1> QED
  BY <1>6, <1>7 DEF a, b

\* The quotient of a number below c * w by w is below c.
LEMMA QuotientBelow ==
  ASSUME NEW a \in Nat, NEW w \in Nat \ {0}, NEW c \in Nat, a < c * w
  PROVE  a \div w \in 0..(c - 1)
<1> DEFINE q == a \div w
<1>1. q \in Nat /\ a = w * q + (a % w) /\ a % w \in 0..(w - 1)
  OBVIOUS
<1>2. ASSUME q >= c PROVE FALSE
  <2>1. PICK d \in Nat : q = c + d
    BY <1>1, <1>2
  <2>2. w * q = w * c + w * d /\ w * d >= 0
    BY <2>1
  <2> QED
    BY <1>1, <2>2
<1> QED
  BY <1>1, <1>2

\* The goroutines of any command line are finitely many.
LEMMA TasksFinite ==
  ASSUME NEW c \in Config
  PROVE  /\ IsFiniteSet(TasksOf(c)) /\ Cardinality(TasksOf(c)) \in Nat
         /\ TasksOf(c) \subseteq Nat \ {0}
<1> DEFINE k == IF c.mode = "open" THEN Inflight(c) ELSE c.conns * c.workers
<1>1. k \in Int
  <2>1. c.conns \in Int /\ c.workers \in Int /\ c.maxInflight \in Int
    BY DEF Config
  <2>2. c.conns * c.workers \in Int
    BY <2>1
  <2>3. Inflight(c) \in Int
    BY <2>1, <2>2 DEF Inflight
  <2> QED
    BY <2>2, <2>3
<1>2. TasksOf(c) = 1..k
  BY DEF TasksOf
<1> HIDE DEF k
<1>3. IsFiniteSet(1..k)
  BY <1>1, FS_Interval
<1> QED
  BY <1>1, <1>2, <1>3, FS_CardinalityType

-----------------------------------------------------------------------------
(* The invariant.                                                          *)

In(S) == {t \in Tasks : task[t].st \in S}
InFlight == In({"do", "sent", "body", "result"})
Counting == In({"pace", "do", "sent", "body", "result"})
Filing   == In({"filing"})
Answered == {t \in Tasks : task[t].status # 0}

\* A command line that Main refuses starts nothing.
Refused ==
  /\ cfg \in Configs /\ ~Validate(cfg)
  /\ main \in {"parse", "exit"} /\ verdict \in {"none", "usage"}
  /\ signalled = FALSE /\ ctxDone = FALSE
  /\ task = Loaded /\ disp = DispatchStart /\ i = 0 /\ n = 0
  /\ rec = NewRecorder /\ lat = NewLatencyHist
  /\ conn = [c \in ConnIx |-> "none"]
  /\ unwatched = 0 /\ lost = 0 /\ starts = 0

\* Goroutines run only inside runLoad, and the verdict comes last.
Phased ==
  /\ ~Loading => disp # "offer" /\ \A t \in Tasks : task[t].st \in {"loop", "free", "gone"}
  /\ main \notin {"close", "exit"} => verdict = "none"

\* The two loops use different stages, and a status is known only once there is
\* a response.
Shaped ==
  /\ Mode = "closed" => disp = "stop"
  /\ \A t \in Tasks :
       /\ Mode = "open" => task[t].st \notin {"loop", "pace", "gone"}
       /\ task[t].st \notin {"body", "result", "filing"} => task[t].status = 0

\* Every counted request is a sample, a failure or about to be filed; every
\* reason has its failure or drop; every response is counted by its status,
\* abandoned, or in the hands of a goroutine.
Ledger ==
  /\ rec.requests = lat.seen + rec.failures + Cardinality(Filing)
  /\ rec.kinds = rec.failures + rec.connDrops
  /\ rec.status + Cardinality(Answered) <= rec.protos
  /\ rec.protos <= rec.status + Cardinality(Answered) + rec.abandoned

\* A worker past the check of -requests may still add one to the count.
Overshoot ==
  Mode = "closed" /\ Requests > 0 =>
    rec.requests + Cardinality(Counting) <= Requests + Cardinality(Tasks) - 1

\* Until closeTransports only lost connections are counted, or about to be.
DropsAreLosses == main # "exit" => rec.connDrops + unwatched <= lost

Counts == Ledger /\ OfferedAccounted /\ Overshoot

Accepted ==
  /\ Validate(cfg) /\ TypeOK /\ Phased /\ Shaped
  /\ Counts /\ DropsAreLosses /\ GateIsFair

IndInv == Refused \/ Accepted

-----------------------------------------------------------------------------
(* Facts about an accepted command line.                                   *)

\* The numbers of a command line that Main accepts.
LEMMA ConfigFacts ==
  ASSUME cfg \in Configs, Validate(cfg)
  PROVE  /\ cfg \in Config /\ Mode \in {"closed", "open"}
         /\ NConns \in Nat \ {0} /\ NWorkers \in Nat \ {0} /\ NURLs \in Nat \ {0}
         /\ Requests \in Int /\ 0 \in ConnIx
         /\ IsFiniteSet(Tasks) /\ Cardinality(Tasks) \in Nat /\ Tasks \subseteq Nat \ {0}
<1>1. cfg \in Config
  BY BlastAssumption
<1>2. /\ cfg.conns \in Int /\ cfg.workers \in Int /\ cfg.requests \in Int
      /\ cfg.targets \in Nat \ {0}
  BY <1>1 DEF Config
<1>3. /\ cfg.conns >= 1 /\ cfg.workers >= 1 /\ cfg.mode \in {"closed", "open"}
  BY DEF Validate
<1>4. IsFiniteSet(Tasks) /\ Cardinality(Tasks) \in Nat /\ Tasks \subseteq Nat \ {0}
  BY <1>1, TasksFinite DEF Tasks
<1> QED
  BY <1>1, <1>2, <1>3, <1>4 DEF NConns, NWorkers, NURLs, Requests, ConnIx, Mode

\* The goroutines runLoad creates are well typed and idle: the index of the
\* client that a closed-loop worker uses is the index of one.
LEMMA LoadedTyped ==
  ASSUME cfg \in Configs, Validate(cfg)
  PROVE  /\ Loaded \in [Tasks -> Task]
         /\ \A t \in Tasks : /\ Loaded[t].st = IF Mode = "open" THEN "free" ELSE "loop"
                             /\ Loaded[t].status = 0
<1>1. ASSUME NEW t \in Tasks, Mode # "open"
      PROVE  (t - 1) \div NWorkers \in ConnIx
  <2>1. t \in 1..(NConns * NWorkers)
    BY <1>1 DEF Tasks, TasksOf, Mode, NConns, NWorkers
  <2>2. NConns \in Nat /\ NWorkers \in Nat \ {0} /\ NConns * NWorkers \in Nat
    BY ConfigFacts
  <2>3. t - 1 \in Nat /\ t - 1 < NConns * NWorkers
    BY <2>1, <2>2
  <2> QED
    BY <2>2, <2>3, QuotientBelow DEF ConnIx
<1>2. ASSUME NEW t \in Tasks
      PROVE  [st     |-> IF Mode = "open" THEN "free" ELSE "loop",
              conn   |-> IF Mode = "open" THEN 0 ELSE (t - 1) \div NWorkers,
              status |-> 0, err |-> FALSE] \in Task
  BY <1>1, ConfigFacts DEF Task, Stages
<1> QED
  BY <1>2 DEF Loaded

\* The run that runLoad starts, with nothing recorded.
Fresh ==
  /\ cfg \in Config
  /\ \A t \in Tasks : task[t].st \in {"free", "loop"} /\ task[t].status = 0
  /\ rec = NewRecorder /\ lat = NewLatencyHist

\* Nothing recorded and nobody at work balance.
LEMMA FreshCounts == Fresh => Counts
<1> SUFFICES ASSUME Fresh PROVE Counts
  OBVIOUS
<1>1. InFlight = {} /\ Counting = {} /\ Filing = {} /\ Answered = {}
  BY DEF Fresh, InFlight, Counting, Filing, Answered, In
<1>2. /\ Cardinality(InFlight) = 0 /\ Cardinality(Counting) = 0
      /\ Cardinality(Filing) = 0 /\ Cardinality(Answered) = 0
  BY <1>1, FS_EmptySet, Zenon
<1>3. /\ \A k \in Counters : rec[k] = 0
      /\ lat.seen = 0
  BY DEF Fresh, NewRecorder, NewLatencyHist
<1>4. /\ rec.requests = 0 /\ rec.failures = 0 /\ rec.abandoned = 0 /\ rec.omitted = 0
      /\ rec.offered = 0 /\ rec.status = 0 /\ rec.kinds = 0 /\ rec.protos = 0
      /\ rec.connDrops = 0
  BY <1>3 DEF Counters
<1>5. Cardinality(Tasks) \in Nat /\ Requests \in Int
  <2>1. cfg.requests \in Int
    BY DEF Fresh, Config
  <2> QED
    BY <2>1, TasksFinite DEF Fresh, Tasks, Requests
<1>6. Ledger
  BY <1>2, <1>3, <1>4 DEF Ledger
<1>7. OfferedAccounted
  BY <1>2, <1>4 DEF OfferedAccounted, InFlight, In
<1>8. Overshoot
  BY <1>2, <1>4, <1>5 DEF Overshoot
<1> QED
  BY <1>6, <1>7, <1>8 DEF Counts

-----------------------------------------------------------------------------
(* What the step of one goroutine does to the counts.                      *)

Was(t, S) == IF task[t].st \in S THEN 1 ELSE 0
Is(t, S)  == IF task'[t].st \in S THEN 1 ELSE 0
One(k, R) == IF k \in R THEN 1 ELSE 0

\* The move of goroutine t, which counts R and leaves the other goroutines
\* alone, balances.
Balanced(t, R) ==
  /\ lat'.seen \in Nat
  /\ lat.seen + One("requests", R) + Was(t, {"filing"})
       = lat'.seen + One("failures", R) + Is(t, {"filing"})
  /\ One("kinds", R) = One("failures", R) + One("connDrops", R)
  /\ LET before == IF task[t].status # 0 THEN 1 ELSE 0
         after  == IF task'[t].status # 0 THEN 1 ELSE 0
     IN  /\ One("status", R) + after <= One("protos", R) + before
         /\ One("protos", R) + before <= One("status", R) + after + One("abandoned", R)
  /\ Mode = "open" /\ cfg.bad = {} =>
       LET S == {"do", "sent", "body", "result"}
       IN  One("offered", R) + Was(t, S)
             = One("omitted", R) + One("requests", R) + One("abandoned", R) + Is(t, S)
  /\ Mode = "closed" /\ Requests > 0 =>
       LET S == {"pace", "do", "sent", "body", "result"}
       IN  \/ One("requests", R) = 0 /\ rec.requests < Requests
           \/ One("requests", R) + Is(t, S) <= Was(t, S)

\* Counted adds one to each counter of R.
LEMMA BumpFacts ==
  ASSUME rec \in [Counters -> Nat], NEW R, Counted(R)
  PROVE  /\ rec' \in [Counters -> Nat]
         /\ \A k \in Counters : rec'[k] = rec[k] + One(k, R)
  BY DEF Counted, Bump, One

\* The goroutines at the stages S, when only t moves.
LEMMA InMoves ==
  ASSUME cfg \in Configs, Validate(cfg), UNCHANGED cfg,
         NEW t \in Tasks, \A u \in Tasks \ {t} : task'[u] = task[u], NEW S
  PROVE  /\ Cardinality(In(S)) \in Nat /\ Cardinality(In(S)') \in Nat
         /\ Cardinality(In(S)') + Was(t, S) = Cardinality(In(S)) + Is(t, S)
         /\ Cardinality(In(S)') <= Cardinality(Tasks)
<1>1. IsFiniteSet(Tasks) /\ Tasks' = Tasks
  BY ConfigFacts DEF Tasks
<1> DEFINE A == In(S)
           B == In(S)'
<1>2. A \in SUBSET Tasks /\ B \in SUBSET Tasks
  BY <1>1 DEF In
<1>3. \A u \in Tasks \ {t} : u \in A <=> u \in B
  BY <1>1 DEF In
<1>4. (t \in A <=> task[t].st \in S) /\ (t \in B <=> task'[t].st \in S)
  BY <1>1 DEF In
<1> HIDE DEF A, B
<1>5. /\ Cardinality(A) \in Nat /\ Cardinality(B) \in Nat
      /\ Cardinality(B) + (IF t \in A THEN 1 ELSE 0) = Cardinality(A) + (IF t \in B THEN 1 ELSE 0)
  BY <1>1, <1>2, <1>3, OneMoves
<1>6. Cardinality(B) <= Cardinality(Tasks)
  BY <1>1, <1>2, FS_Subset
<1> QED
  BY <1>4, <1>5, <1>6 DEF A, B, Was, Is

\* The goroutines that have a response, when only t moves.
LEMMA AnsweredMoves ==
  ASSUME cfg \in Configs, Validate(cfg), UNCHANGED cfg,
         NEW t \in Tasks, \A u \in Tasks \ {t} : task'[u] = task[u]
  PROVE  /\ Cardinality(Answered) \in Nat /\ Cardinality(Answered') \in Nat
         /\ Cardinality(Answered') + (IF task[t].status # 0 THEN 1 ELSE 0)
              = Cardinality(Answered) + (IF task'[t].status # 0 THEN 1 ELSE 0)
<1>1. IsFiniteSet(Tasks) /\ Tasks' = Tasks
  BY ConfigFacts DEF Tasks
<1> DEFINE A == Answered
           B == Answered'
<1>2. A \in SUBSET Tasks /\ B \in SUBSET Tasks
  BY <1>1 DEF Answered
<1>3. \A u \in Tasks \ {t} : u \in A <=> u \in B
  BY <1>1 DEF Answered
<1>4. (t \in A <=> task[t].status # 0) /\ (t \in B <=> task'[t].status # 0)
  BY <1>1 DEF Answered
<1> HIDE DEF A, B
<1>5. /\ Cardinality(A) \in Nat /\ Cardinality(B) \in Nat
      /\ Cardinality(B) + (IF t \in A THEN 1 ELSE 0) = Cardinality(A) + (IF t \in B THEN 1 ELSE 0)
  BY <1>1, <1>2, <1>3, OneMoves
<1> QED
  BY <1>4, <1>5 DEF A, B

\* A balanced move keeps the counts in balance.
LEMMA MoveCounts ==
  ASSUME Accepted, UNCHANGED cfg, NEW t \in Tasks,
         \A u \in Tasks \ {t} : task'[u] = task[u],
         NEW R \in SUBSET Counters, Counted(R), Balanced(t, R)
  PROVE  Counts'
<1>1. /\ cfg \in Configs /\ Validate(cfg) /\ rec \in [Counters -> Nat] /\ lat.seen \in Nat
      /\ lat'.seen \in Nat
  BY DEF Accepted, TypeOK, Balanced
<1>2. rec' \in [Counters -> Nat] /\ \A k \in Counters : rec'[k] = rec[k] + One(k, R)
  BY <1>1, BumpFacts
<1>3. \A k \in Counters : One(k, R) \in 0..1
  BY DEF One
<1>4. Ledger'
  <2> DEFINE f == Cardinality(Filing)
             g == Cardinality(Filing')
             a == Cardinality(Answered)
             b == Cardinality(Answered')
  <2>1. /\ f \in Nat /\ g \in Nat /\ g + Was(t, {"filing"}) = f + Is(t, {"filing"})
    BY <1>1, InMoves DEF Filing
  <2>2. /\ a \in Nat /\ b \in Nat
        /\ b + (IF task[t].status # 0 THEN 1 ELSE 0) = a + (IF task'[t].status # 0 THEN 1 ELSE 0)
    BY <1>1, AnsweredMoves
  <2>3. /\ rec.requests = lat.seen + rec.failures + f
        /\ rec.kinds = rec.failures + rec.connDrops
        /\ rec.status + a <= rec.protos /\ rec.protos <= rec.status + a + rec.abandoned
    BY DEF Accepted, Counts, Ledger
  <2> HIDE DEF f, g, a, b
  <2>4. Was(t, {"filing"}) \in 0..1 /\ Is(t, {"filing"}) \in 0..1
    BY DEF Was, Is
  <2>5. rec'.requests = lat'.seen + rec'.failures + g
    <3>1. /\ rec.requests \in Nat /\ rec.failures \in Nat
          /\ rec'.requests = rec.requests + One("requests", R)
          /\ rec'.failures = rec.failures + One("failures", R)
          /\ One("requests", R) \in 0..1 /\ One("failures", R) \in 0..1
      BY <1>1, <1>2, <1>3 DEF Counters
    <3> QED
      BY <1>1, <3>1, <2>1, <2>3, <2>4 DEF Balanced
  <2>6. rec'.kinds = rec'.failures + rec'.connDrops
    BY <1>1, <1>2, <1>3, <2>3 DEF Balanced, Counters
  <2>7. rec'.status + b <= rec'.protos /\ rec'.protos <= rec'.status + b + rec'.abandoned
    <3> DEFINE x == IF task[t].status # 0 THEN 1 ELSE 0
               y == IF task'[t].status # 0 THEN 1 ELSE 0
    <3>1. x \in 0..1 /\ y \in 0..1 /\ b + x = a + y
      BY <2>2
    <3>2. /\ One("status", R) + y <= One("protos", R) + x
          /\ One("protos", R) + x <= One("status", R) + y + One("abandoned", R)
      BY DEF Balanced
    <3> HIDE DEF x, y
    <3>3. /\ rec.status \in Nat /\ rec.protos \in Nat /\ rec.abandoned \in Nat
          /\ rec'.status = rec.status + One("status", R)
          /\ rec'.protos = rec.protos + One("protos", R)
          /\ rec'.abandoned = rec.abandoned + One("abandoned", R)
          /\ One("status", R) \in 0..1 /\ One("protos", R) \in 0..1 /\ One("abandoned", R) \in 0..1
      BY <1>1, <1>2, <1>3 DEF Counters
    <3> QED
      BY <2>2, <2>3, <3>1, <3>2, <3>3
  <2> QED
    BY <2>5, <2>6, <2>7 DEF Ledger, g, b
<1>5. OfferedAccounted'
  <2> SUFFICES ASSUME Mode = "open", cfg.bad = {}
               PROVE  rec'.offered = rec'.omitted + rec'.requests + rec'.abandoned
                                       + Cardinality(InFlight')
    BY DEF OfferedAccounted, Mode, InFlight, In
  <2> DEFINE S == {"do", "sent", "body", "result"}
             f == Cardinality(InFlight)
             g == Cardinality(InFlight')
  <2>1. /\ f \in Nat /\ g \in Nat /\ g + Was(t, S) = f + Is(t, S)
    BY <1>1, InMoves DEF InFlight
  <2>2. rec.offered = rec.omitted + rec.requests + rec.abandoned + f
    BY DEF Accepted, Counts, OfferedAccounted, InFlight, In
  <2>3. One("offered", R) + Was(t, S)
          = One("omitted", R) + One("requests", R) + One("abandoned", R) + Is(t, S)
    BY DEF Balanced
  <2>4. Was(t, S) \in 0..1 /\ Is(t, S) \in 0..1
    BY DEF Was, Is
  <2> HIDE DEF S, f, g
  <2>5. /\ rec.offered \in Nat /\ rec.omitted \in Nat /\ rec.requests \in Nat /\ rec.abandoned \in Nat
        /\ rec'.offered = rec.offered + One("offered", R)
        /\ rec'.omitted = rec.omitted + One("omitted", R)
        /\ rec'.requests = rec.requests + One("requests", R)
        /\ rec'.abandoned = rec.abandoned + One("abandoned", R)
        /\ One("offered", R) \in 0..1 /\ One("omitted", R) \in 0..1
        /\ One("requests", R) \in 0..1 /\ One("abandoned", R) \in 0..1
    BY <1>1, <1>2, <1>3 DEF Counters
  <2>6. rec'.offered = rec'.omitted + rec'.requests + rec'.abandoned + g
    BY <2>1, <2>2, <2>3, <2>4, <2>5
  <2> QED
    BY <2>6 DEF g
<1>6. Overshoot'
  <2> SUFFICES ASSUME Mode = "closed", Requests > 0
               PROVE  rec'.requests + Cardinality(Counting') <= Requests + Cardinality(Tasks) - 1
    BY DEF Overshoot, Mode, Requests, Tasks
  <2> DEFINE S == {"pace", "do", "sent", "body", "result"}
             f == Cardinality(Counting)
             g == Cardinality(Counting')
             m == Cardinality(Tasks)
  <2>1. /\ f \in Nat /\ g \in Nat /\ g + Was(t, S) = f + Is(t, S) /\ g <= m
    BY <1>1, InMoves DEF Counting
  <2>2. rec.requests + f <= Requests + m - 1 /\ m \in Nat /\ Requests \in Int
    BY <1>1, ConfigFacts DEF Accepted, Counts, Overshoot
  <2>3. \/ One("requests", R) = 0 /\ rec.requests < Requests
        \/ One("requests", R) + Is(t, S) <= Was(t, S)
    BY DEF Balanced
  <2>4. Was(t, S) \in 0..1 /\ Is(t, S) \in 0..1
    BY DEF Was, Is
  <2> HIDE DEF S, f, g, m
  <2>5. /\ rec.requests \in Nat /\ rec'.requests = rec.requests + One("requests", R)
        /\ One("requests", R) \in 0..1
    BY <1>1, <1>2, <1>3 DEF Counters
  <2>6. rec'.requests + g <= Requests + m - 1
    BY <2>1, <2>2, <2>3, <2>4, <2>5
  <2> QED
    BY <2>6 DEF g, m
<1> QED
  BY <1>4, <1>5, <1>6 DEF Counts

-----------------------------------------------------------------------------
(* The steps of the goroutines.                                            *)

\* A step that records nothing counts the empty set.
LEMMA CountsNothing ==
  ASSUME rec \in [Counters -> Nat], UNCHANGED rec
  PROVE  Counted({})
  BY DEF Counted, Bump

LatOK == lat.samples \in Seq(Nat) /\ Len(lat.samples) <= Cap /\ lat.seen \in Nat

\* The step of a goroutine inside runLoad, which balances, keeps the invariant.
LEMMA WorkerAccepted ==
  ASSUME Accepted, Loading, NEW t \in Tasks,
         mainUnchanged, UNCHANGED <<disp, i, connVars>>,
         n' \in 0..(NURLs - 1), starts' \in Nat, LatOK',
         task' \in [Tasks -> Task], \A u \in Tasks \ {t} : task'[u] = task[u],
         Mode = "open" => task'[t].st \notin {"loop", "pace", "gone"},
         task'[t].st \notin {"body", "result", "filing"} => task'[t].status = 0,
         NEW R \in SUBSET (Counters \ {"connDrops"}), Counted(R), Balanced(t, R)
  PROVE  Accepted'
<1> USE DEF mainUnchanged, mainVars
<1>1. /\ UNCHANGED <<cfg, main, verdict, signalled, ctxDone, disp, i, conn, unwatched, lost>>
      /\ rec \in [Counters -> Nat] /\ verdict = "none"
  BY DEF connVars, Accepted, TypeOK, Phased, Loading
<1>2. rec' \in [Counters -> Nat] /\ rec'.connDrops = rec.connDrops
  BY <1>1, BumpFacts DEF One, Counters
<1>3. TypeOK'
  BY <1>1, <1>2 DEF Accepted, TypeOK, LatOK, Tasks, TasksOf, Task, ConnIx, NConns, NURLs, Validate
<1>4. Phased'
  BY <1>1 DEF Accepted, Phased, Loading
<1>5. Shaped'
  <2>1. Tasks' = Tasks /\ Mode' = Mode
    BY <1>1 DEF Tasks, Mode
  <2> QED
    BY <1>1, <2>1 DEF Accepted, Shaped
<1>6. Counts'
  BY <1>1, MoveCounts
<1>7. DropsAreLosses'
  BY <1>1, <1>2 DEF Accepted, DropsAreLosses
<1>8. GateIsFair'
  BY <1>1 DEF GateIsFair
<1> QED
  BY <1>1, <1>3, <1>4, <1>5, <1>6, <1>7, <1>8 DEF Accepted, Validate

\* A goroutine that is at work is inside runLoad.
LEMMA AtWork ==
  ASSUME Accepted, NEW t \in Tasks, task[t].st \notin {"loop", "free", "gone"}
  PROVE  Loading
  BY DEF Accepted, Phased

\* The types of a goroutine and of the recorder.
LEMMA TaskTypes ==
  ASSUME Accepted, NEW t \in Tasks
  PROVE  /\ task \in [Tasks -> Task] /\ task[t] \in Task
         /\ task[t] = [st |-> task[t].st, conn |-> task[t].conn,
                       status |-> task[t].status, err |-> task[t].err]
         /\ task[t].st \in Stages /\ task[t].conn \in ConnIx
         /\ task[t].status \in {0, 200, 500} /\ task[t].err \in BOOLEAN
  BY ConfigFacts DEF Accepted, TypeOK, Task

\* The types of what the goroutines share.
LEMMA SharedTypes ==
  ASSUME Accepted
  PROVE  /\ task \in [Tasks -> Task]
         /\ rec \in [Counters -> Nat] /\ LatOK
         /\ n \in 0..(NURLs - 1) /\ starts \in Nat
         /\ Mode \in {"closed", "open"}
  BY ConfigFacts DEF Accepted, TypeOK, LatOK

\* What a new stage does to a goroutine.
LEMMA StageFields ==
  ASSUME NEW x \in Task, NEW st \in Stages
  PROVE  /\ [x EXCEPT !.st = st] \in Task
         /\ [x EXCEPT !.st = st].st = st
         /\ [x EXCEPT !.st = st].status = x.status
         /\ [x EXCEPT !.st = st].err = x.err
<1>1. /\ DOMAIN [x EXCEPT !.st = st] = {"st", "conn", "status", "err"}
  BY DEF Task
<1>2. [x EXCEPT !.st = st] = [st |-> st, conn |-> x.conn, status |-> x.status, err |-> x.err]
  BY DEF Task
<1>3. x.conn \in ConnIx /\ x.status \in {0, 200, 500} /\ x.err \in BOOLEAN
  BY DEF Task
<1> QED
  BY <1>2, <1>3 DEF Task

\* The same of the goroutine that Goto moves.
LEMMA GotoFields ==
  ASSUME Accepted, NEW t \in Tasks, NEW st \in Stages, Goto(t, st)
  PROVE  /\ task' \in [Tasks -> Task] /\ \A u \in Tasks \ {t} : task'[u] = task[u]
         /\ task'[t].st = st /\ task'[t].status = task[t].status /\ task'[t].err = task[t].err
<1>1. task \in [Tasks -> Task] /\ task[t] \in Task
  BY SharedTypes
<1>2. task' = [task EXCEPT ![t] = [task[t] EXCEPT !.st = st]]
  BY DEF Goto
<1> DEFINE y == [task[t] EXCEPT !.st = st]
<1>3. y \in Task /\ y.st = st /\ y.status = task[t].status /\ y.err = task[t].err
  BY <1>1, StageFields
<1> HIDE DEF y
<1> QED
  BY <1>1, <1>2, <1>3 DEF y

\* The loop's head and the pacer: nothing is recorded, and a worker that goes
\* on found the count below -requests.
LEMMA PaceAccepted ==
  ASSUME Accepted, NEW t \in Tasks,
         LoopHead(t) \/ PaceGranted(t) \/ PaceDenied(t)
  PROVE  Accepted'
<1>1. task[t].st \in {"loop", "pace"} /\ Loading
  BY AtWork DEF LoopHead, PaceGranted, PaceDenied, At
<1>2. /\ starts \in Nat /\ n \in 0..(NURLs - 1) /\ Mode \in {"closed", "open"} /\ LatOK
      /\ rec \in [Counters -> Nat] /\ rec.requests \in Nat /\ Requests \in Int
  <2>1. Requests \in Int
    BY ConfigFacts DEF Accepted, TypeOK
  <2>2. /\ starts \in Nat /\ n \in 0..(NURLs - 1) /\ Mode \in {"closed", "open"}
        /\ LatOK /\ rec \in [Counters -> Nat]
    BY SharedTypes
  <2>3. rec.requests \in Nat
    BY <2>2 DEF Counters
  <2> QED
    BY <2>1, <2>2, <2>3
<1>3. PICK st \in {"gone", "pace", "do"} :
        /\ Goto(t, st)
        /\ task[t].st = "pace" => st # "pace"
        /\ task[t].st = "loop" => st # "do" /\ (st = "pace" => ~Reached(rec.requests))
  BY DEF LoopHead, PaceGranted, PaceDenied, At
<1>4. mainUnchanged /\ UNCHANGED <<disp, i, n, rec, lat, connVars>>
  BY DEF LoopHead, PaceGranted, PaceDenied, recVars
<1>5. starts' \in Nat
  BY <1>2 DEF LoopHead, PaceGranted, PaceDenied
<1>6. /\ task' \in [Tasks -> Task] /\ \A u \in Tasks \ {t} : task'[u] = task[u]
      /\ task'[t].st = st /\ task'[t].status = task[t].status
  BY <1>3, GotoFields DEF Stages
<1>7. Mode = "closed" /\ task[t].status = 0
  BY <1>1, <1>2 DEF Accepted, Shaped
<1>8. Counted({})
  BY <1>2, <1>4, CountsNothing
<1>9. Balanced(t, {})
  <2>1. lat'.seen = lat.seen /\ lat.seen \in Nat
    BY <1>2, <1>4 DEF LatOK
  <2>2. Was(t, {"filing"}) = 0 /\ Is(t, {"filing"}) = 0
    BY <1>1, <1>6 DEF Was, Is
  <2>3. \A k : One(k, {}) = 0
    BY DEF One
  <2>4. Requests > 0 =>
          \/ rec.requests < Requests
          \/ Is(t, {"pace", "do", "sent", "body", "result"})
               <= Was(t, {"pace", "do", "sent", "body", "result"})
    BY <1>1, <1>2, <1>3, <1>6 DEF Was, Is, Reached
  <2>5. \A S : Was(t, S) \in 0..1 /\ Is(t, S) \in 0..1
    BY DEF Was, Is
  <2> QED
    BY <1>6, <1>7, <2>1, <2>2, <2>3, <2>4, <2>5 DEF Balanced
<1>10. LatOK'
  BY <1>2, <1>4 DEF LatOK
<1> QED
  BY <1>1, <1>2, <1>4, <1>5, <1>6, <1>7, <1>8, <1>9, <1>10, WorkerAccepted

\* A goroutine that doRequest leaves as y.
Becomes(t, y) == task' = [task EXCEPT ![t] = y]

\* The fields of a goroutine put together.
LEMMA TaskRecord ==
  ASSUME NEW st \in Stages, NEW c \in ConnIx, NEW status \in {0, 200, 500}, NEW e \in BOOLEAN
  PROVE  [st |-> st, conn |-> c, status |-> status, err |-> e] \in Task
  BY DEF Task

\* A step of doRequest that balances keeps the invariant.
LEMMA RequestAccepted ==
  ASSUME Accepted, NEW t \in Tasks, task[t].st \in {"do", "sent", "body", "result", "filing"},
         mainUnchanged, UNCHANGED <<disp, i, starts, connVars>>,
         n' \in 0..(NURLs - 1), LatOK',
         NEW y \in Task, Becomes(t, y),
         y.st \in {End, "sent", "body", "result", "filing"},
         y.st \in {End, "sent"} => y.status = 0,
         NEW R \in SUBSET (Counters \ {"connDrops"}), Counted(R), Balanced(t, R)
  PROVE  Accepted'
<1>1. Loading
  BY AtWork
<1>2. task \in [Tasks -> Task] /\ starts' \in Nat /\ Mode \in {"closed", "open"}
  BY SharedTypes
<1>3. task' \in [Tasks -> Task] /\ task'[t] = y /\ \A u \in Tasks \ {t} : task'[u] = task[u]
  BY <1>2 DEF Becomes
<1>4. Mode = "open" => y.st \notin {"loop", "pace", "gone"}
  BY DEF End
<1>5. y.st \notin {"body", "result", "filing"} => y.status = 0
  OBVIOUS
<1> QED
  BY <1>1, <1>2, <1>3, <1>4, <1>5, WorkerAccepted

\* nextURL keeps its index inside the list of URLs.
LEMMA NextURLType ==
  ASSUME Accepted
  PROVE  NextURL \in 0..(NURLs - 1)
<1>1. NURLs \in Nat \ {0} /\ n \in 0..(NURLs - 1)
  BY ConfigFacts DEF Accepted, TypeOK
<1> QED
  BY <1>1 DEF NextURL

\* What is known of a goroutine in doRequest and of the counters, for the steps
\* below.
Known(t) ==
  /\ task \in [Tasks -> Task] /\ task[t] \in Task
  /\ task[t] = [st |-> task[t].st, conn |-> task[t].conn,
                status |-> task[t].status, err |-> task[t].err]
  /\ task[t].conn \in ConnIx
  /\ task[t].status \in {0, 200, 500} /\ task[t].err \in BOOLEAN
  /\ End \in {"free", "loop"} /\ (Mode = "closed" => End = "loop")
  /\ task[t].st \in {"do", "sent"} => task[t].status = 0
  /\ rec \in [Counters -> Nat] /\ LatOK /\ lat.seen \in Nat
  /\ n \in 0..(NURLs - 1)

\* It holds of every goroutine.
LEMMA RequestFacts ==
  ASSUME Accepted, NEW t \in Tasks
  PROVE  Known(t)
<1>1. task[t].st \in {"do", "sent"} => task[t].status = 0
  BY DEF Accepted, Shaped
<1>2. End \in {"free", "loop"} /\ (Mode = "closed" => End = "loop")
  BY DEF End
<1> QED
  BY <1>1, <1>2, TaskTypes, SharedTypes DEF Known, LatOK

\* One field of a goroutine's record written.
LEMMA FieldWrites ==
  ASSUME NEW a, NEW b, NEW c, NEW d, NEW v
  PROVE  LET x == [st |-> a, conn |-> b, status |-> c, err |-> d]
         IN  /\ [x EXCEPT !.st = v] = [st |-> v, conn |-> b, status |-> c, err |-> d]
             /\ [x EXCEPT !.status = v] = [st |-> a, conn |-> b, status |-> v, err |-> d]
             /\ [x EXCEPT !.err = v] = [st |-> a, conn |-> b, status |-> c, err |-> v]
  OBVIOUS

\* The ways doRequest writes to a goroutine's record.
LEMMA RecordWrites ==
  ASSUME NEW t \in Tasks, Known(t), NEW st, NEW s, NEW e
  PROVE  /\ Goto(t, st) =>
              Becomes(t, [st |-> st, conn |-> task[t].conn,
                          status |-> task[t].status, err |-> task[t].err])
         /\ task' = [task EXCEPT ![t].st = st, ![t].status = s] =>
              Becomes(t, [st |-> st, conn |-> task[t].conn, status |-> s, err |-> task[t].err])
         /\ task' = [task EXCEPT ![t].st = st, ![t].err = e] =>
              Becomes(t, [st |-> st, conn |-> task[t].conn,
                          status |-> task[t].status, err |-> e])
         /\ task' = [task EXCEPT ![t].st = st, ![t].status = s, ![t].err = e] =>
              Becomes(t, [st |-> st, conn |-> task[t].conn, status |-> s, err |-> e])
         /\ task' = [task EXCEPT ![t] = [@ EXCEPT !.st = st, !.status = s, !.err = e]] =>
              Becomes(t, [st |-> st, conn |-> task[t].conn, status |-> s, err |-> e])
<1> DEFINE x == task[t]
<1>1. /\ task \in [Tasks -> Task]
      /\ x = [st |-> x.st, conn |-> x.conn, status |-> x.status, err |-> x.err]
  BY DEF Known
<1>2. [x EXCEPT !.st = st] = [st |-> st, conn |-> x.conn, status |-> x.status, err |-> x.err]
  BY <1>1
<1> DEFINE y == [st |-> st, conn |-> x.conn, status |-> x.status, err |-> x.err]
           z == [st |-> st, conn |-> x.conn, status |-> s, err |-> x.err]
<1>3. [x EXCEPT !.st = st, !.status = s] = z
  <2>1. [x EXCEPT !.st = st, !.status = s] = [y EXCEPT !.status = s]
    BY <1>2
  <2> QED
    BY <2>1, FieldWrites
<1>4. [x EXCEPT !.st = st, !.err = e]
        = [st |-> st, conn |-> x.conn, status |-> x.status, err |-> e]
  <2>1. [x EXCEPT !.st = st, !.err = e] = [y EXCEPT !.err = e]
    BY <1>2
  <2> QED
    BY <2>1, FieldWrites
<1>5. [x EXCEPT !.st = st, !.status = s, !.err = e]
        = [st |-> st, conn |-> x.conn, status |-> s, err |-> e]
  <2>1. [x EXCEPT !.st = st, !.status = s, !.err = e] = [z EXCEPT !.err = e]
    BY <1>3
  <2> QED
    BY <2>1, FieldWrites
<1>6. [task EXCEPT ![t].st = st, ![t].status = s]
        = [task EXCEPT ![t] = [x EXCEPT !.st = st, !.status = s]]
  BY <1>1
<1>7. [task EXCEPT ![t].st = st, ![t].err = e]
        = [task EXCEPT ![t] = [x EXCEPT !.st = st, !.err = e]]
  BY <1>1
<1>8. [task EXCEPT ![t].st = st, ![t].status = s, ![t].err = e]
        = [task EXCEPT ![t] = [x EXCEPT !.st = st, !.status = s, !.err = e]]
  BY <1>1
<1> QED
  BY <1>2, <1>3, <1>4, <1>5, <1>6, <1>7, <1>8 DEF Becomes, Goto

\* A step that writes the error as well as the stage.
LEMMA ErrWrites ==
  ASSUME NEW t \in Tasks, Known(t), NEW st, NEW e,
         task' = [task EXCEPT ![t].st = st, ![t].err = e]
  PROVE  Becomes(t, [st |-> st, conn |-> task[t].conn, status |-> task[t].status, err |-> e])
  BY RecordWrites

\* Build: the request that cannot be built leaves the books open only if some
\* target is bad.
LEMMA BuildAccepted ==
  ASSUME Accepted, NEW t \in Tasks, Build(t)
  PROVE  Accepted'
<1> DEFINE to == IF n \in cfg.bad THEN End ELSE "sent"
           y == [st |-> to, conn |-> task[t].conn, status |-> task[t].status, err |-> task[t].err]
<1>1. Known(t)
  BY RequestFacts
<1>2. task[t].st = "do" /\ task[t].status = 0
  BY <1>1 DEF Build, At, Known
<1>3. /\ to \in {End, "sent"} /\ to \in Stages /\ (cfg.bad = {} => to = "sent")
      /\ to \in {"free", "loop", "sent"}
  BY <1>1 DEF Known, Stages
<1>4. Goto(t, to)
  BY DEF Build
<1> HIDE DEF to
<1>5. Becomes(t, y)
  BY <1>1, <1>4, RecordWrites
<1>6. y \in Task
  BY <1>1, <1>3, TaskRecord DEF Known
<1>7. y.st = to /\ y.status = 0
  BY <1>2
<1> HIDE DEF y
<1>8. task'[t] = y
  BY <1>1, <1>5 DEF Becomes, Known
<1>9. mainUnchanged /\ UNCHANGED <<disp, i, starts, rec, lat, connVars>> /\ n' = NextURL
  BY DEF Build, recVars
<1>10. n' \in 0..(NURLs - 1) /\ LatOK' /\ lat'.seen = lat.seen /\ lat.seen \in Nat
  BY <1>1, <1>9, NextURLType DEF Known, LatOK
<1>11. Counted({})
  BY <1>1, <1>9, CountsNothing DEF Known
<1>12. Balanced(t, {})
  BY <1>2, <1>3, <1>7, <1>8, <1>10 DEF Balanced, One, Was, Is
<1> QED
  BY <1>2, <1>3, <1>5, <1>6, <1>7, <1>9, <1>10, <1>11, <1>12, RequestAccepted

\* A stage and a status written at once, as Responds does.
Stored(t, st, s) == task' = [task EXCEPT ![t].st = st, ![t].status = s]

\* The record that leaves.
LEMMA StoredRecord ==
  ASSUME NEW t \in Tasks, Known(t), NEW st, NEW s, Stored(t, st, s)
  PROVE  Becomes(t, [st |-> st, conn |-> task[t].conn, status |-> s, err |-> task[t].err])
  BY RecordWrites DEF Stored

\* Responds: the response is in the goroutine's hands.
LEMMA RespondsAccepted ==
  ASSUME Accepted, NEW t \in Tasks, Responds(t)
  PROVE  Accepted'
<1>1. Known(t)
  BY RequestFacts
<1>2. task[t].st = "sent" /\ task[t].status = 0
  BY <1>1 DEF Responds, At, Known
<1>3. PICK s \in {200, 500} : task' = [task EXCEPT ![t].st = "body", ![t].status = s]
  BY DEF Responds
<1> DEFINE y == [st |-> "body", conn |-> task[t].conn, status |-> s, err |-> task[t].err]
<1>4. Becomes(t, y)
  <2>1. Stored(t, "body", s)
    BY <1>3 DEF Stored
  <2> QED
    BY <1>1, <2>1, StoredRecord
<1>5. y \in Task
  BY <1>1, TaskRecord DEF Known, Stages
<1>6. y.st = "body" /\ y.status = s
  OBVIOUS
<1> HIDE DEF y
<1>7. task'[t] = y
  BY <1>1, <1>4 DEF Becomes, Known
<1>8. mainUnchanged /\ UNCHANGED <<disp, i, n, starts, lat, connVars>> /\ Counted({"protos"})
  BY DEF Responds
<1>9. n' \in 0..(NURLs - 1) /\ LatOK' /\ lat'.seen = lat.seen /\ lat.seen \in Nat
  BY <1>1, <1>8 DEF Known, LatOK
<1>10. {"protos"} \in SUBSET (Counters \ {"connDrops"})
  BY DEF Counters
<1>11. Balanced(t, {"protos"})
  BY <1>2, <1>6, <1>7, <1>9 DEF Balanced, One, Was, Is
<1>12. End \in {"free", "loop"}
  BY <1>1 DEF Known
<1> QED
  BY <1>2, <1>4, <1>5, <1>6, <1>8, <1>9, <1>10, <1>11, <1>12, RequestAccepted

\* DoFails: there is no response.
LEMMA DoFailsAccepted ==
  ASSUME Accepted, NEW t \in Tasks, DoFails(t)
  PROVE  Accepted'
<1> DEFINE y == [st |-> "result", conn |-> task[t].conn, status |-> 0, err |-> TRUE]
<1>1. Known(t)
  BY RequestFacts
<1>2. task[t].st = "sent" /\ task[t].status = 0
  BY <1>1 DEF DoFails, At, Known
<1>3. task' = [task EXCEPT ![t].st = "result", ![t].status = 0, ![t].err = TRUE]
  BY DEF DoFails
<1>4. Becomes(t, y)
  BY <1>1, <1>3, RecordWrites
<1>5. y \in Task
  BY <1>1 DEF Known, Stages, Task
<1>6. y.st = "result" /\ y.status = 0
  OBVIOUS
<1> HIDE DEF y
<1>7. task'[t] = y
  BY <1>1, <1>4 DEF Becomes, Known
<1>8. mainUnchanged /\ UNCHANGED <<disp, i, n, starts, rec, lat, connVars>>
  BY DEF DoFails, recVars
<1>9. n' \in 0..(NURLs - 1) /\ LatOK' /\ lat'.seen = lat.seen /\ lat.seen \in Nat
  BY <1>1, <1>8 DEF Known, LatOK
<1>10. Counted({})
  BY <1>1, <1>8, CountsNothing DEF Known
<1>11. Balanced(t, {})
  BY <1>2, <1>6, <1>7, <1>9 DEF Balanced, One, Was, Is
<1> QED
  BY <1>2, <1>4, <1>5, <1>6, <1>8, <1>9, <1>10, <1>11, RequestAccepted

\* Drains: the response keeps its status, whether or not its body failed.
LEMMA DrainsAccepted ==
  ASSUME Accepted, NEW t \in Tasks, Drains(t)
  PROVE  Accepted'
<1>1. Known(t)
  BY RequestFacts
<1>2. task[t].st = "body"
  BY DEF Drains, At
<1>3. PICK e \in BOOLEAN : task' = [task EXCEPT ![t].st = "result", ![t].err = e]
  BY DEF Drains
<1> DEFINE y == [st |-> "result", conn |-> task[t].conn, status |-> task[t].status, err |-> e]
<1>4. Becomes(t, y)
  BY <1>1, <1>3, ErrWrites
<1>5. y \in Task
  BY <1>1, TaskRecord DEF Known, Stages
<1>6. y.st = "result" /\ y.status = task[t].status
  OBVIOUS
<1> HIDE DEF y
<1>7. task'[t] = y
  BY <1>1, <1>4 DEF Becomes, Known
<1>8. mainUnchanged /\ UNCHANGED <<disp, i, n, starts, rec, lat, connVars>>
  BY DEF Drains, recVars
<1>9. n' \in 0..(NURLs - 1) /\ LatOK' /\ lat'.seen = lat.seen /\ lat.seen \in Nat
  BY <1>1, <1>8 DEF Known, LatOK
<1>10. Counted({})
  BY <1>1, <1>8, CountsNothing DEF Known
<1>11. Balanced(t, {})
  BY <1>2, <1>6, <1>7, <1>9 DEF Balanced, One, Was, Is
<1>12. End \in {"free", "loop"}
  BY <1>1 DEF Known
<1> QED
  BY <1>2, <1>4, <1>5, <1>6, <1>8, <1>9, <1>10, <1>11, <1>12, RequestAccepted

\* Count: the request is counted before it is filed.
LEMMA CountAccepted ==
  ASSUME Accepted, NEW t \in Tasks, Count(t)
  PROVE  Accepted'
<1> DEFINE y == [st |-> "filing", conn |-> task[t].conn, status |-> task[t].status, err |-> task[t].err]
<1>1. Known(t)
  BY RequestFacts
<1>2. task[t].st = "result" /\ Goto(t, "filing")
  BY DEF Count, At
<1>3. Becomes(t, y)
  BY <1>1, <1>2, RecordWrites
<1>4. y \in Task
  BY <1>1, TaskRecord DEF Known, Stages
<1>5. y.st = "filing" /\ y.status = task[t].status
  OBVIOUS
<1> HIDE DEF y
<1>6. task'[t] = y
  BY <1>1, <1>3 DEF Becomes, Known
<1>7. mainUnchanged /\ UNCHANGED <<disp, i, n, starts, lat, connVars>> /\ Counted({"requests"})
  BY DEF Count
<1>8. n' \in 0..(NURLs - 1) /\ LatOK' /\ lat'.seen = lat.seen /\ lat.seen \in Nat
  BY <1>1, <1>7 DEF Known, LatOK
<1>9. {"requests"} \in SUBSET (Counters \ {"connDrops"})
  BY DEF Counters
<1>10. Balanced(t, {"requests"})
  BY <1>2, <1>5, <1>6, <1>8 DEF Balanced, One, Was, Is
<1>12. End \in {"free", "loop"}
  BY <1>1 DEF Known
<1> QED
  BY <1>2, <1>3, <1>4, <1>5, <1>7, <1>8, <1>9, <1>10, <1>12, RequestAccepted

\* The record of a goroutine whose doRequest returned.
LEMMA ResetWrites ==
  ASSUME NEW t \in Tasks, Known(t),
         task' = [task EXCEPT ![t] = [@ EXCEPT !.st = End, !.status = 0, !.err = FALSE]]
  PROVE  \E y \in Task : Becomes(t, y) /\ y.st = End /\ y.status = 0
<1> DEFINE y == [st |-> End, conn |-> task[t].conn, status |-> 0, err |-> FALSE]
<1>1. Becomes(t, y)
  BY RecordWrites
<1>2. y \in Task
  BY DEF Known, Stages, Task
<1> QED
  BY <1>1, <1>2

\* Abandon: what the end of the run cut off is neither a request nor a failure.
LEMMA AbandonAccepted ==
  ASSUME Accepted, NEW t \in Tasks, Abandon(t)
  PROVE  Accepted'
<1>1. Known(t)
  BY RequestFacts
<1>2. task[t].st = "result"
  BY DEF Abandon, At
<1>3. PICK y \in Task : Becomes(t, y) /\ y.st = End /\ y.status = 0
  BY <1>1, ResetWrites DEF Abandon
<1>4. task'[t] = y /\ End \in {"free", "loop"}
  BY <1>1, <1>3 DEF Becomes, Known
<1>5. mainUnchanged /\ UNCHANGED <<disp, i, n, starts, lat, connVars>> /\ Counted({"abandoned"})
  BY DEF Abandon
<1>6. n' \in 0..(NURLs - 1) /\ LatOK' /\ lat'.seen = lat.seen /\ lat.seen \in Nat
  BY <1>1, <1>5 DEF Known, LatOK
<1>7. {"abandoned"} \in SUBSET (Counters \ {"connDrops"})
  BY DEF Counters
<1>8. Balanced(t, {"abandoned"})
  BY <1>2, <1>3, <1>4, <1>6 DEF Balanced, One, Was, Is
<1> QED
  BY <1>2, <1>3, <1>5, <1>6, <1>7, <1>8, RequestAccepted

\* One more sample: the store keeps its type and its bound.
LEMMA AddedTyped ==
  ASSUME LatOK, NEW d \in Nat
  PROVE  /\ Added(lat, d).samples \in Seq(Nat) /\ Len(Added(lat, d).samples) <= Cap
         /\ Added(lat, d).seen = lat.seen + 1
<1> DEFINE q == lat.samples
<1>1. q \in Seq(Nat) /\ Len(q) \in Nat /\ Len(q) <= Cap /\ Cap \in Nat \ {0}
  BY HistAssumption DEF LatOK, Cap
<1>2. CASE Len(q) < Cap
  <2>1. Append(q, d) \in Seq(Nat) /\ Len(Append(q, d)) = Len(q) + 1
    BY <1>1, AppendProperties
  <2> QED
    BY <1>1, <1>2, <2>1 DEF Added
<1>3. CASE ~(Len(q) < Cap)
  <2>1. Slot(lat.seen + 1) \in 1..Len(q)
    <3>1. Len(q) = Cap /\ lat.seen + 1 \in Nat
      BY <1>1, <1>3 DEF LatOK
    <3> QED
      BY <3>1, <1>1 DEF Slot
  <2>2. /\ [q EXCEPT ![Slot(lat.seen + 1)] = d] \in Seq(Nat)
        /\ Len([q EXCEPT ![Slot(lat.seen + 1)] = d]) = Len(q)
    BY <1>1, <2>1, ExceptSeq
  <2> QED
    BY <1>1, <1>3, <2>2 DEF Added
<1> QED
  BY <1>2, <1>3

\* File: a counted request becomes a sample or a failure with its reason, and
\* its response a status.
LEMMA FileAccepted ==
  ASSUME Accepted, NEW t \in Tasks, File(t)
  PROVE  Accepted'
<1> DEFINE R == (IF task[t].status # 0 THEN {"status"} ELSE {})
                  \cup (IF Failed(t) THEN {"failures", "kinds"} ELSE {})
<1>1. Known(t)
  BY RequestFacts
<1>2. task[t].st = "filing"
  BY DEF File, At
<1>3. PICK y \in Task : Becomes(t, y) /\ y.st = End /\ y.status = 0
  BY <1>1, ResetWrites DEF File
<1>4. task'[t] = y /\ End \in {"free", "loop"}
  BY <1>1, <1>3 DEF Becomes, Known
<1>5. mainUnchanged /\ UNCHANGED <<disp, i, n, starts, connVars>> /\ Counted(R)
  BY DEF File
<1>6. lat' = IF Failed(t) THEN lat ELSE Added(lat, lat.seen + 1)
  BY DEF File
<1>7. LatOK /\ lat.seen \in Nat /\ n' \in 0..(NURLs - 1)
  BY <1>1, <1>5 DEF Known
<1>8. LatOK' /\ lat'.seen = IF Failed(t) THEN lat.seen ELSE lat.seen + 1
  <2>1. CASE Failed(t)
    BY <1>6, <1>7, <2>1 DEF LatOK
  <2>2. CASE ~Failed(t)
    <3>1. /\ Added(lat, lat.seen + 1).samples \in Seq(Nat)
          /\ Len(Added(lat, lat.seen + 1).samples) <= Cap
          /\ Added(lat, lat.seen + 1).seen = lat.seen + 1 /\ lat.seen + 1 \in Nat
      BY <1>7, AddedTyped
    <3> QED
      BY <1>6, <2>2, <3>1 DEF LatOK
  <2> QED
    BY <2>1, <2>2
<1>9. R \in SUBSET (Counters \ {"connDrops"})
  BY DEF Counters
<1>10. /\ One("requests", R) = 0 /\ One("connDrops", R) = 0 /\ One("protos", R) = 0
       /\ One("abandoned", R) = 0 /\ One("offered", R) = 0 /\ One("omitted", R) = 0
       /\ One("status", R) = IF task[t].status # 0 THEN 1 ELSE 0
       /\ One("failures", R) = IF Failed(t) THEN 1 ELSE 0
       /\ One("kinds", R) = IF Failed(t) THEN 1 ELSE 0
  BY DEF One
<1> HIDE DEF R
<1>11. Balanced(t, R)
  BY <1>2, <1>3, <1>4, <1>7, <1>8, <1>10 DEF Balanced, Was, Is
<1> QED
  BY <1>2, <1>3, <1>5, <1>7, <1>8, <1>9, <1>11, RequestAccepted

\* Every step of a goroutine keeps the invariant.
LEMMA WorkerStep ==
  ASSUME Accepted, NEW t \in Tasks, Worker(t)
  PROVE  Accepted'
  BY PaceAccepted, BuildAccepted, RespondsAccepted, DoFailsAccepted, DrainsAccepted,
     AbandonAccepted, CountAccepted, FileAccepted DEF Worker, DoRequest

-----------------------------------------------------------------------------
(* The steps of runOpen's own loop.                                        *)

\* runLoad always has a goroutine.
LEMMA SomeTask ==
  ASSUME Accepted
  PROVE  1 \in Tasks
<1>1. NConns \in Nat \ {0} /\ NWorkers \in Nat \ {0} /\ cfg \in Config
  BY ConfigFacts DEF Accepted, TypeOK
<1>2. NConns * NWorkers \in Nat /\ NConns * NWorkers >= 1
  BY <1>1
<1>3. cfg.maxInflight \in Int
  BY <1>1 DEF Config
<1>4. Inflight(cfg) \in Nat /\ Inflight(cfg) >= 1
  BY <1>2, <1>3 DEF Inflight, NConns, NWorkers
<1> QED
  BY <1>2, <1>4 DEF Tasks, TasksOf, NConns, NWorkers

\* While no goroutine moves, an omitted offer and a counted drop balance.
LEMMA StandingCounts ==
  ASSUME Accepted, UNCHANGED <<cfg, task, lat>>,
         NEW R \in {{"offered", "omitted"}, {"connDrops", "kinds"}}, Counted(R)
  PROVE  Counts'
<1>1. 1 \in Tasks
  BY SomeTask
<1>2. R \in SUBSET Counters
  BY DEF Counters
<1>3. lat.seen \in Nat
  BY DEF Accepted, TypeOK
<1>4. /\ One("requests", R) = 0 /\ One("failures", R) = 0 /\ One("protos", R) = 0
      /\ One("status", R) = 0 /\ One("abandoned", R) = 0
      /\ One("kinds", R) = One("connDrops", R) /\ One("kinds", R) \in 0..1
      /\ One("offered", R) = One("omitted", R) /\ One("offered", R) \in 0..1
  BY DEF One
<1>5. \A S : Is(1, S) = Was(1, S) /\ Was(1, S) \in 0..1
  BY DEF Is, Was
<1>6. Balanced(1, R)
  BY <1>3, <1>4, <1>5 DEF Balanced
<1> QED
  BY <1>1, <1>2, <1>6, MoveCounts

\* What Dispatch leaves to show when it is known what the counts do.
LEMMA DispatchAccepted ==
  ASSUME Accepted, Loading, Mode = "open", mainUnchanged, UNCHANGED <<n, lat, connVars>>,
         starts' \in Nat, disp' \in {"pace", "offer", "stop"}, i' \in ConnIx \cup {0},
         task' \in [Tasks -> Task],
         \A t \in Tasks : task'[t] # task[t] => task'[t].st = "do" /\ task'[t].status = 0,
         rec' \in [Counters -> Nat], rec'.connDrops = rec.connDrops, Counts'
  PROVE  Accepted'
<1>1. /\ UNCHANGED <<cfg, main, verdict, signalled, ctxDone, conn, unwatched, lost>>
      /\ verdict = "none"
  BY DEF mainUnchanged, mainVars, connVars, Accepted, Phased, Loading
<1>2. Tasks' = Tasks /\ Mode' = Mode
  BY <1>1 DEF Tasks, Mode
<1>3. TypeOK'
  BY <1>1, <1>2 DEF Accepted, TypeOK, Task, ConnIx, NConns, NURLs, Validate
<1>4. Phased'
  BY <1>1 DEF Accepted, Phased, Loading
<1>5. Shaped'
  BY <1>1, <1>2 DEF Accepted, Shaped
<1>6. DropsAreLosses' /\ GateIsFair'
  BY <1>1 DEF Accepted, DropsAreLosses, GateIsFair
<1> QED
  BY <1>1, <1>3, <1>4, <1>5, <1>6 DEF Accepted, Validate

\* An omitted offer.
LEMMA OmitAccepted ==
  ASSUME Accepted, Offer, {t \in Tasks : At(t, "free")} = {}
  PROVE  Accepted'
<1>1. Loading /\ Mode = "open"
  BY ConfigFacts DEF Accepted, TypeOK, Phased, Shaped, Offer
<1>2. /\ mainUnchanged /\ UNCHANGED <<cfg, n, lat, connVars, task, i>>
      /\ disp' = "pace" /\ Counted({"offered", "omitted"})
  BY DEF Offer, mainUnchanged, mainVars
<1>3. /\ task \in [Tasks -> Task] /\ rec \in [Counters -> Nat] /\ starts \in Nat
      /\ i \in ConnIx \cup {0}
  BY DEF Accepted, TypeOK
<1>4. rec' \in [Counters -> Nat] /\ rec'.connDrops = rec.connDrops
  BY <1>2, <1>3, BumpFacts DEF One, Counters
<1>5. Counts'
  BY <1>2, StandingCounts
<1>6. starts' \in Nat
  BY <1>3 DEF Offer
<1>7. task' \in [Tasks -> Task] /\ i' \in ConnIx \cup {0}
  BY <1>2, <1>3
<1> QED
  BY <1>1, <1>2, <1>4, <1>5, <1>6, <1>7, DispatchAccepted

\* An offer that takes a slot.
LEMMA TakeAccepted ==
  ASSUME Accepted, Offer, {t \in Tasks : At(t, "free")} # {}
  PROVE  Accepted'
<1>1. Loading /\ Mode = "open"
  BY ConfigFacts DEF Accepted, TypeOK, Phased, Shaped, Offer
<1> DEFINE t == CHOOSE u \in {u \in Tasks : At(u, "free")} : TRUE
           y == [st |-> "do", conn |-> i, status |-> 0, err |-> FALSE]
<1>2. t \in Tasks /\ task[t].st = "free"
  BY DEF At
<1>3. /\ mainUnchanged /\ UNCHANGED <<cfg, n, lat, connVars>>
      /\ disp' = "pace" /\ Counted({"offered"})
      /\ task' = [task EXCEPT ![t] = y] /\ i' = (i + 1) % NConns
  BY DEF Offer, mainUnchanged, mainVars
<1>4. /\ task \in [Tasks -> Task] /\ rec \in [Counters -> Nat] /\ starts \in Nat
      /\ NConns \in Nat \ {0} /\ i \in ConnIx /\ lat.seen \in Nat
  BY ConfigFacts DEF Accepted, TypeOK
<1>5. y \in Task
  BY <1>4 DEF Task, Stages
<1>6. y.st = "do" /\ y.status = 0
  OBVIOUS
<1> HIDE DEF t, y
<1>7. task' \in [Tasks -> Task] /\ task'[t] = y /\ \A u \in Tasks \ {t} : task'[u] = task[u]
  BY <1>2, <1>3, <1>4, <1>5
<1>8. i' \in ConnIx \cup {0}
  BY <1>3, <1>4 DEF ConnIx
<1>9. rec' \in [Counters -> Nat] /\ rec'.connDrops = rec.connDrops
  BY <1>3, <1>4, BumpFacts DEF One, Counters
<1>10. Counts'
  <2>1. task[t].status = 0
    BY <1>2 DEF Accepted, Shaped
  <2>2. Balanced(t, {"offered"})
    BY <1>1, <1>2, <1>3, <1>4, <1>6, <1>7, <2>1 DEF Balanced, One, Was, Is
  <2>3. {"offered"} \in SUBSET Counters
    BY DEF Counters
  <2> QED
    BY <1>2, <1>3, <1>7, <2>2, <2>3, MoveCounts
<1>11. starts' \in Nat
  BY <1>4 DEF Offer
<1>12. \A u \in Tasks : task'[u] # task[u] => task'[u].st = "do" /\ task'[u].status = 0
  BY <1>6, <1>7
<1> QED
  BY <1>1, <1>3, <1>7, <1>8, <1>9, <1>10, <1>11, <1>12, DispatchAccepted

\* The counts do not depend on where Main and the dispatcher are.
LEMMA QuietCounts ==
  ASSUME Counts, UNCHANGED <<cfg, task, rec, lat>>
  PROVE  Counts'
  BY DEF Counts, Ledger, OfferedAccounted, Overshoot, Counting, Filing, Answered, In,
         Tasks, Mode, Requests

\* Every step of runOpen's loop keeps the invariant.
LEMMA DispatchStep ==
  ASSUME Accepted, Dispatch
  PROVE  Accepted'
<1>1. CASE DispatchGranted \/ DispatchDenied \/ OfferReached
  <2>1. Loading /\ Mode = "open"
    BY <1>1, ConfigFacts
    DEF Accepted, TypeOK, Phased, Shaped, DispatchGranted, DispatchDenied, OfferReached
  <2>2. /\ mainUnchanged /\ UNCHANGED <<cfg, task, i, n, starts, rec, lat, connVars>>
        /\ disp' \in {"pace", "offer", "stop"}
    BY <1>1 DEF DispatchGranted, DispatchDenied, OfferReached, recVars, mainUnchanged, mainVars
  <2>3. /\ task' \in [Tasks -> Task] /\ starts' \in Nat /\ i' \in ConnIx \cup {0}
        /\ rec' \in [Counters -> Nat]
    BY <2>2 DEF Accepted, TypeOK
  <2>4. Counts'
    BY <2>2, QuietCounts DEF Accepted
  <2> QED
    BY <2>1, <2>2, <2>3, <2>4, DispatchAccepted
<1>2. CASE Offer
  BY <1>2, OmitAccepted, TakeAccepted
<1> QED
  BY <1>1, <1>2 DEF Dispatch

-----------------------------------------------------------------------------
(* The steps of Main, of the connections and of their watchers.            *)

\* A step that records nothing and moves no goroutine keeps the invariant if it
\* keeps what is said of Main and of the connections.
LEMMA StillAccepted ==
  ASSUME Accepted, UNCHANGED <<cfg, loadVars, recVars>>,
         main' \in {"parse", "ticket", "resume", "warmup", "run", "verdict", "close", "exit"},
         verdict' \in {"none", "usage", "pass", "failures", "drops"},
         signalled' \in BOOLEAN, ctxDone' \in BOOLEAN,
         conn' \in [ConnIx -> {"none", "open"}], unwatched' \in Nat, lost' \in Nat,
         Phased', DropsAreLosses', GateIsFair'
  PROVE  Accepted'
<1>1. UNCHANGED <<cfg, task, disp, i, n, starts, rec, lat>>
  BY DEF loadVars, recVars
<1>2. Tasks' = Tasks /\ Mode' = Mode /\ ConnIx' = ConnIx /\ NURLs' = NURLs
  BY <1>1 DEF Tasks, Mode, ConnIx, NConns, NURLs
<1>3. TypeOK'
  BY <1>1, <1>2 DEF Accepted, TypeOK, Task, Validate
<1>4. Shaped'
  BY <1>1, <1>2 DEF Accepted, Shaped
<1>5. Counts'
  BY <1>1, QuietCounts DEF Accepted
<1> QED
  BY <1>1, <1>3, <1>4, <1>5 DEF Accepted, Validate

\* Main goes on without touching anything else.
LEMMA MainGoesAccepted ==
  ASSUME Accepted, verdict = "none",
         NEW to \in {"ticket", "resume", "warmup", "run", "verdict"}, MainGoes(to),
         main # "exit",
         to \in {"warmup", "run"} \/
           (disp # "offer" /\ \A t \in Tasks : task[t].st \in {"loop", "free", "gone"})
  PROVE  Accepted'
<1>1. /\ main' = to
      /\ UNCHANGED <<cfg, verdict, signalled, ctxDone, loadVars, recVars, conn, unwatched, lost>>
  BY DEF MainGoes, connVars
<1>2. Phased'
  BY <1>1 DEF Phased, Loading, loadVars, Tasks
<1>3. DropsAreLosses' /\ GateIsFair'
  BY <1>1 DEF Accepted, DropsAreLosses, GateIsFair, recVars
<1>4. /\ signalled' \in BOOLEAN /\ ctxDone' \in BOOLEAN /\ verdict' = "none"
      /\ conn' \in [ConnIx -> {"none", "open"}] /\ unwatched' \in Nat /\ lost' \in Nat
  BY <1>1 DEF Accepted, TypeOK
<1> QED
  BY <1>1, <1>2, <1>3, <1>4, StillAccepted

\* The goroutines are all back when wg.Wait returns.
LEMMA ReturnedIsIdle ==
  ASSUME Returned
  PROVE  disp # "offer" /\ \A t \in Tasks : task[t].st \in {"loop", "free", "gone"}
  BY DEF Returned

\* The run up to the verdict.
LEMMA EarlyMainAccepted ==
  ASSUME Accepted, SetUp \/ FirstDial \/ SecondDial \/ RunLoadReturns
  PROVE  Accepted'
<1>1. verdict = "none" /\ main # "exit"
  BY DEF Accepted, Phased, SetUp, FirstDial, SecondDial, RunLoadReturns
<1>2. FirstLoad \in {"warmup", "run"}
  BY DEF FirstLoad
<1>3. CASE SetUp
  <2>1. disp # "offer" /\ \A t \in Tasks : task[t].st \in {"loop", "free", "gone"}
    BY <1>3 DEF SetUp, Accepted, Phased, Loading
  <2> QED
    BY <1>1, <1>2, <1>3, <2>1, MainGoesAccepted DEF SetUp
<1>4. CASE FirstDial
  <2>1. disp # "offer" /\ \A t \in Tasks : task[t].st \in {"loop", "free", "gone"}
    BY <1>4 DEF FirstDial, Accepted, Phased, Loading
  <2> QED
    BY <1>1, <1>2, <1>4, <2>1, MainGoesAccepted DEF FirstDial
<1>5. CASE SecondDial
  BY <1>1, <1>2, <1>5, MainGoesAccepted DEF SecondDial
<1>6. CASE RunLoadReturns
  BY <1>1, <1>6, ReturnedIsIdle, MainGoesAccepted DEF RunLoadReturns
<1> QED
  BY <1>3, <1>4, <1>5, <1>6

\* Nor does a run whose files cannot be opened record anything.
LEMMA SetUpFailsAccepted ==
  ASSUME Accepted, SetUpFails
  PROVE  Accepted'
<1>1. /\ main = "parse" /\ main' = "exit" /\ verdict' = "usage"
      /\ UNCHANGED <<cfg, signalled, ctxDone, loadVars, recVars, conn, unwatched, lost>>
  BY DEF SetUpFails, connVars
<1>2. disp # "offer" /\ \A t \in Tasks : task[t].st \in {"loop", "free", "gone"}
  BY <1>1 DEF Accepted, Phased, Loading
<1>3. Phased'
  BY <1>1, <1>2 DEF Phased, Loading, loadVars, Tasks
<1>4. DropsAreLosses' /\ GateIsFair'
  BY <1>1 DEF DropsAreLosses, GateIsFair
<1>5. /\ signalled' \in BOOLEAN /\ ctxDone' \in BOOLEAN
      /\ conn' \in [ConnIx -> {"none", "open"}] /\ unwatched' \in Nat /\ lost' \in Nat
  BY <1>1 DEF Accepted, TypeOK
<1> QED
  BY <1>1, <1>3, <1>4, <1>5, StillAccepted

\* The measured run starts from nothing.
LEMMA WarmupEndsAccepted ==
  ASSUME Accepted, WarmupEnds
  PROVE  Accepted'
<1>1. cfg \in Configs /\ Validate(cfg) /\ cfg \in Config /\ Mode \in {"closed", "open"}
  BY ConfigFacts DEF Accepted, TypeOK
<1>2. /\ UNCHANGED <<cfg, verdict, signalled, n, starts, conn, unwatched, lost>>
      /\ main' = "run" /\ rec' = NewRecorder /\ lat' = NewLatencyHist
      /\ ctxDone' = signalled /\ task' = Loaded /\ disp' = DispatchStart /\ i' = 0
  BY DEF WarmupEnds, ResetRequestStats, connVars
<1>3. Tasks' = Tasks /\ Mode' = Mode /\ ConnIx' = ConnIx /\ NURLs' = NURLs
  BY <1>2 DEF Tasks, Mode, ConnIx, NConns, NURLs
<1>4. /\ Loaded \in [Tasks -> Task]
      /\ \A t \in Tasks : /\ Loaded[t].st = IF Mode = "open" THEN "free" ELSE "loop"
                          /\ Loaded[t].status = 0
  BY <1>1, LoadedTyped
<1>5. /\ NewRecorder \in [Counters -> Nat] /\ NewRecorder.connDrops = 0
      /\ NewLatencyHist.samples = <<>> /\ NewLatencyHist.seen = 0
  BY DEF NewRecorder, NewLatencyHist, Counters
<1>6. <<>> \in Seq(Nat) /\ Len(<<>>) = 0 /\ Cap \in Nat
  BY HistAssumption DEF Cap
<1>7. TypeOK'
  <2>1. /\ verdict \in {"none", "usage", "pass", "failures", "drops"} /\ signalled \in BOOLEAN
        /\ n \in 0..(NURLs - 1) /\ conn \in [ConnIx -> {"none", "open"}]
        /\ unwatched \in Nat /\ lost \in Nat /\ starts \in Nat
    BY DEF Accepted, TypeOK
  <2>2. Task' = Task /\ DispatchStart \in {"pace", "offer", "stop"}
    BY <1>3 DEF Task, DispatchStart
  <2> HIDE DEF Task
  <2>3. /\ lat'.samples \in Seq(Nat) /\ Len(lat'.samples) <= Cap /\ lat'.seen \in Nat
    BY <1>2, <1>5, <1>6
  <2> QED
    BY <1>1, <1>2, <1>3, <1>4, <1>5, <2>1, <2>2, <2>3 DEF TypeOK
<1>8. Phased'
  BY <1>2 DEF Phased, Loading, Accepted, WarmupEnds
<1>9. Shaped'
  BY <1>1, <1>2, <1>3, <1>4 DEF Shaped, DispatchStart
<1>10. Counts'
  <2>1. Fresh'
    BY <1>1, <1>2, <1>3, <1>4 DEF Fresh, NewRecorder, NewLatencyHist
  <2> QED
    BY <2>1, FreshCounts, PTL
<1>11. DropsAreLosses'
  <2>1. rec.connDrops \in Nat /\ unwatched \in Nat /\ lost \in Nat
    BY DEF Accepted, TypeOK, Counters
  <2>2. rec.connDrops + unwatched <= lost
    BY DEF Accepted, DropsAreLosses, WarmupEnds
  <2>3. rec'.connDrops = 0 /\ unwatched' = unwatched /\ lost' = lost
    BY <1>2, <1>5
  <2> QED
    BY <2>1, <2>2, <2>3 DEF DropsAreLosses
<1>12. GateIsFair'
  BY <1>2 DEF GateIsFair, Accepted, Phased, WarmupEnds
<1> QED
  BY <1>1, <1>2, <1>7, <1>8, <1>9, <1>10, <1>11, <1>12 DEF Accepted, Validate

\* What the verdict judges: with every goroutine back, no failure is hidden
\* behind a count of no requests.
LEMMA VerdictAccepted ==
  ASSUME Accepted, Verdict
  PROVE  Accepted'
<1>1. /\ main = "verdict" /\ main' = "close" /\ verdict' = VerdictOf(rec)
      /\ UNCHANGED <<cfg, signalled, ctxDone, loadVars, recVars, conn, unwatched, lost>>
  BY DEF Verdict, connVars
<1>2. disp # "offer" /\ \A t \in Tasks : task[t].st \in {"loop", "free", "gone"}
  BY <1>1 DEF Accepted, Phased, Loading
<1>3. Phased'
  BY <1>1, <1>2 DEF Phased, loadVars, Tasks
<1>4. DropsAreLosses'
  BY <1>1 DEF Accepted, DropsAreLosses, recVars
<1>5. /\ rec.requests \in Nat /\ rec.failures \in Nat /\ rec.connDrops \in Nat /\ lat.seen \in Nat
      /\ unwatched \in Nat /\ lost \in Nat
  BY DEF Accepted, TypeOK, Counters
<1>6. cfg.maxFailPct \in Int /\ cfg.maxDrops \in Int
  <2>1. cfg \in Config
    BY ConfigFacts DEF Accepted, TypeOK
  <2> QED
    BY <2>1 DEF Config
<1>7. rec.requests = lat.seen + rec.failures
  <2>1. Filing = {}
    BY <1>2 DEF Filing, In
  <2>2. Cardinality(Filing) = 0
    BY <2>1, FS_EmptySet, Zenon
  <2>3. rec.requests = lat.seen + rec.failures + Cardinality(Filing)
    BY DEF Accepted, Counts, Ledger
  <2> QED
    BY <1>5, <2>2, <2>3
<1>8. GateIsFair'
  <2>1. ASSUME VerdictOf(rec) = "drops"
        PROVE  lost > cfg.maxDrops
    <3>1. rec.connDrops > cfg.maxDrops
      BY <2>1 DEF VerdictOf
    <3>2. rec.connDrops + unwatched <= lost
      BY <1>1 DEF Accepted, DropsAreLosses
    <3> QED
      BY <1>5, <1>6, <3>1, <3>2
  <2>2. ASSUME VerdictOf(rec) = "pass", cfg.maxFailPct = 0
        PROVE  rec.failures = 0
    <3>1. ~(rec.requests > 0 /\ 100 * rec.failures > 0 * rec.requests)
      BY <2>2 DEF VerdictOf
    <3> QED
      BY <1>5, <1>7, <3>1
  <2>3. UNCHANGED <<cfg, rec, lost>>
    BY <1>1 DEF recVars
  <2> QED
    BY <1>1, <2>1, <2>2, <2>3 DEF GateIsFair
<1>9. /\ verdict' \in {"none", "usage", "pass", "failures", "drops"}
      /\ signalled' \in BOOLEAN /\ ctxDone' \in BOOLEAN
      /\ conn' \in [ConnIx -> {"none", "open"}] /\ unwatched' \in Nat /\ lost' \in Nat
  BY <1>1 DEF Accepted, TypeOK, VerdictOf
<1> QED
  BY <1>1, <1>3, <1>4, <1>8, <1>9, StillAccepted

\* closeTransports, the timers and signals, and the connections.
LEMMA AroundAccepted ==
  ASSUME Accepted,
         \/ CloseTransports \/ CtxTimesOut \/ Signal
         \/ \E c \in ConnIx : Dial(c) \/ ConnLost(c)
  PROVE  Accepted'
<1>1. UNCHANGED <<cfg, verdict, loadVars, recVars>>
  BY DEF CloseTransports, CtxTimesOut, Signal, Dial, ConnLost, mainUnchanged, mainVars
<1>2. /\ unwatched \in Nat /\ lost \in Nat /\ conn \in [ConnIx -> {"none", "open"}]
      /\ rec.connDrops \in Nat /\ cfg \in Config /\ signalled \in BOOLEAN /\ ctxDone \in BOOLEAN
      /\ main \in {"parse", "ticket", "resume", "warmup", "run", "verdict", "close", "exit"}
      /\ verdict \in {"none", "usage", "pass", "failures", "drops"}
  BY ConfigFacts DEF Accepted, TypeOK, Counters
<1>3. Cardinality({c \in ConnIx : conn[c] = "open"}) \in Nat
  <2>1. IsFiniteSet(ConnIx)
    <3>1. NConns \in Nat
      BY ConfigFacts DEF Accepted, TypeOK
    <3> QED
      BY <3>1, FS_Interval DEF ConnIx
  <2>2. {c \in ConnIx : conn[c] = "open"} \in SUBSET ConnIx
    OBVIOUS
  <2> HIDE DEF ConnIx
  <2> QED
    BY <2>1, <2>2, FS_Subset, FS_CardinalityType
<1>4. \/ main' = main
      \/ main = "close" /\ main' = "exit"
  BY DEF CloseTransports, CtxTimesOut, Signal, Dial, ConnLost, mainUnchanged, mainVars
<1>5. Phased'
  BY <1>1, <1>4 DEF Accepted, Phased, Loading, loadVars, Tasks
<1>6. /\ conn' \in [ConnIx -> {"none", "open"}] /\ unwatched' \in Nat /\ lost' \in Nat
      /\ lost' >= lost
      /\ \/ main' = "exit"
         \/ unwatched' + lost = unwatched + lost'
  <2>1. CASE CloseTransports
    BY <2>1, <1>2, <1>3 DEF CloseTransports
  <2>2. CASE CtxTimesOut \/ Signal
    BY <2>2, <1>2 DEF CtxTimesOut, Signal, connVars
  <2>3. CASE \E c \in ConnIx : Dial(c)
    BY <2>3, <1>2 DEF Dial
  <2>4. CASE \E c \in ConnIx : ConnLost(c)
    BY <2>4, <1>2 DEF ConnLost
  <2> QED
    BY <2>1, <2>2, <2>3, <2>4
<1>7. DropsAreLosses'
  <2>1. UNCHANGED rec /\ (main' # "exit" => main # "exit")
    BY <1>1, <1>4 DEF recVars
  <2>2. main # "exit" => rec.connDrops + unwatched <= lost
    BY DEF Accepted, DropsAreLosses
  <2>3. ASSUME main' # "exit" PROVE rec'.connDrops + unwatched' <= lost'
    <3>1. unwatched' + lost = unwatched + lost' /\ rec'.connDrops = rec.connDrops
      BY <1>6, <2>1, <2>3
    <3>2. rec.connDrops + unwatched <= lost
      BY <2>1, <2>2, <2>3
    <3>3. /\ rec.connDrops \in Nat /\ unwatched \in Nat /\ lost \in Nat
          /\ unwatched' \in Nat /\ lost' \in Nat
      BY <1>2, <1>6
    <3> QED
      BY <3>1, <3>2, <3>3
  <2> QED
    BY <2>3 DEF DropsAreLosses
<1>8. GateIsFair'
  <2>1. cfg.maxDrops \in Int
    BY <1>2 DEF Config
  <2> QED
    BY <1>1, <1>2, <1>6, <2>1 DEF Accepted, GateIsFair, recVars
<1>9. signalled' \in BOOLEAN /\ ctxDone' \in BOOLEAN
  BY <1>2 DEF CloseTransports, CtxTimesOut, Signal, Dial, ConnLost, mainUnchanged, mainVars
<1> QED
  BY <1>1, <1>2, <1>4, <1>5, <1>6, <1>7, <1>8, <1>9, StillAccepted

\* A watcher counts a drop and its reason together.
LEMMA WatcherAccepted ==
  ASSUME Accepted, WatcherCounts
  PROVE  Accepted'
<1>1. /\ UNCHANGED <<cfg, main, verdict, signalled, ctxDone, task, disp, i, n, starts, conn, lost, lat>>
      /\ unwatched > 0 /\ unwatched' = unwatched - 1 /\ Counted({"connDrops", "kinds"})
  BY DEF WatcherCounts, mainUnchanged, mainVars, loadVars
<1>2. rec \in [Counters -> Nat] /\ unwatched \in Nat /\ lost \in Nat
  BY DEF Accepted, TypeOK
<1>3. /\ rec' \in [Counters -> Nat] /\ rec'.connDrops = rec.connDrops + 1
      /\ rec'.failures = rec.failures
  BY <1>1, <1>2, BumpFacts DEF One, Counters
<1>4. Tasks' = Tasks /\ Mode' = Mode /\ ConnIx' = ConnIx /\ NURLs' = NURLs
  BY <1>1 DEF Tasks, Mode, ConnIx, NConns, NURLs
<1>5. TypeOK'
  BY <1>1, <1>2, <1>3, <1>4 DEF Accepted, TypeOK, Task, Validate
<1>6. Phased' /\ Shaped'
  BY <1>1, <1>4 DEF Accepted, Phased, Shaped, Loading
<1>7. Counts'
  BY <1>1, StandingCounts
<1>8. DropsAreLosses'
  BY <1>1, <1>2, <1>3 DEF Accepted, DropsAreLosses, Counters
<1>9. GateIsFair'
  BY <1>1, <1>3 DEF Accepted, GateIsFair
<1> QED
  BY <1>1, <1>5, <1>6, <1>7, <1>8, <1>9 DEF Accepted, Validate

-----------------------------------------------------------------------------
(* The theorems.                                                           *)

\* A run starts accepted or refused.
LEMMA InitIndInv == Init => IndInv
<1> SUFFICES ASSUME Init PROVE IndInv
  OBVIOUS
<1>1. CASE ~Validate(cfg)
  BY <1>1 DEF Init, IndInv, Refused
<1>2. CASE Validate(cfg)
  <2>1. /\ cfg \in Configs /\ cfg \in Config /\ Mode \in {"closed", "open"}
        /\ NURLs \in Nat \ {0}
    BY <1>2, ConfigFacts DEF Init
  <2>2. /\ Loaded \in [Tasks -> Task]
        /\ \A t \in Tasks : /\ Loaded[t].st = IF Mode = "open" THEN "free" ELSE "loop"
                            /\ Loaded[t].status = 0
    BY <1>2, <2>1, LoadedTyped
  <2>3. /\ NewRecorder \in [Counters -> Nat] /\ NewRecorder.connDrops = 0
        /\ NewLatencyHist.samples = <<>> /\ NewLatencyHist.seen = 0
    BY DEF NewRecorder, NewLatencyHist, Counters
  <2>4. <<>> \in Seq(Nat) /\ Len(<<>>) = 0 /\ Cap \in Nat
    BY HistAssumption DEF Cap
  <2>5. TypeOK
    <3>1. lat.samples \in Seq(Nat) /\ Len(lat.samples) <= Cap /\ lat.seen \in Nat
      BY <2>3, <2>4 DEF Init
    <3>2. i = 0 /\ n = 0 /\ 0 \in 0..(NURLs - 1) /\ DispatchStart \in {"pace", "offer", "stop"}
      BY <2>1 DEF Init, DispatchStart
    <3>3. conn \in [ConnIx -> {"none", "open"}]
      BY DEF Init
    <3> QED
      BY <2>1, <2>2, <2>3, <3>1, <3>2, <3>3 DEF Init, TypeOK
  <2>6. Phased
    BY <2>1, <2>2 DEF Init, Phased, DispatchStart
  <2>7. Shaped
    BY <2>1, <2>2 DEF Init, Shaped, DispatchStart
  <2>8. Counts
    BY <2>1, <2>2, FreshCounts DEF Init, Fresh
  <2>9. DropsAreLosses /\ GateIsFair
    BY <2>3 DEF Init, DropsAreLosses, GateIsFair
  <2> QED
    BY <1>2, <2>5, <2>6, <2>7, <2>8, <2>9 DEF IndInv, Accepted
<1> QED
  BY <1>1, <1>2

\* The only thing that happens to a refused command line is that Main exits.
LEMMA RefusedStep ==
  ASSUME Refused, Next
  PROVE  Refused'
<1>1. /\ ~Validate(cfg) /\ main \in {"parse", "exit"} /\ disp \in {"pace", "stop"}
      /\ \A t \in Tasks : task[t].st \in {"free", "loop"}
      /\ \A c \in ConnIx : conn[c] = "none"
      /\ unwatched = 0
  BY DEF Refused, Loaded, DispatchStart
<1>2. /\ ~(SetUpFails \/ SetUp \/ FirstDial \/ SecondDial \/ WarmupEnds)
      /\ ~(RunLoadReturns \/ Verdict \/ CloseTransports)
  BY <1>1 DEF SetUpFails, SetUp, FirstDial, SecondDial, WarmupEnds, RunLoadReturns, Verdict, CloseTransports
<1>3. ~CtxTimesOut /\ ~Signal /\ ~WatcherCounts /\ ~Dispatch
  BY <1>1 DEF CtxTimesOut, Signal, WatcherCounts, Dispatch, DispatchGranted, DispatchDenied,
              Offer, OfferReached, Loading
<1>4. \A t \in Tasks : ~Worker(t)
  BY <1>1 DEF Worker, LoopHead, PaceGranted, PaceDenied, DoRequest, Build, Responds, DoFails,
              Drains, Abandon, Count, File, At, Loading
<1>5. \A c \in ConnIx : ~Dial(c) /\ ~ConnLost(c)
  BY <1>1 DEF Dial, ConnLost, At
<1>6. Reject
  BY <1>2, <1>3, <1>4, <1>5 DEF Next, MainStep
<1>7. /\ UNCHANGED <<cfg, signalled, ctxDone, task, disp, i, n, starts, rec, lat, conn, unwatched, lost>>
      /\ main' = "exit" /\ verdict' = "usage"
  BY <1>6 DEF Reject, loadVars, recVars, connVars
<1>8. Loaded' = Loaded /\ DispatchStart' = DispatchStart /\ ConnIx' = ConnIx
  BY <1>7 DEF Loaded, DispatchStart, ConnIx, NConns, NWorkers, Mode, Tasks
<1> QED
  BY <1>7, <1>8 DEF Refused, Validate, NewRecorder, NewLatencyHist

\* Every step keeps the invariant.
LEMMA NextIndInv == IndInv /\ [Next]_vars => IndInv'
<1> SUFFICES ASSUME IndInv, [Next]_vars PROVE IndInv'
  OBVIOUS
<1>1. CASE Refused /\ Next
  BY <1>1, RefusedStep DEF IndInv
<1>2. CASE Accepted /\ Next
  <2>1. ~Reject
    BY <1>2 DEF Reject, Accepted
  <2> QED
    BY <1>2, <2>1, EarlyMainAccepted, SetUpFailsAccepted, WarmupEndsAccepted, VerdictAccepted, AroundAccepted,
       WatcherAccepted, DispatchStep, WorkerStep DEF Next, MainStep, IndInv
<1>3. CASE UNCHANGED vars
  <2>1. /\ UNCHANGED <<cfg, main, verdict, signalled, ctxDone, loadVars, recVars>>
        /\ UNCHANGED <<task, disp, i, n, starts, rec, lat, conn, unwatched, lost>>
    BY <1>3 DEF vars, mainVars, loadVars, recVars, connVars
  <2>2. CASE Refused
    <3>1. Loaded' = Loaded /\ DispatchStart' = DispatchStart /\ ConnIx' = ConnIx
      BY <2>1 DEF Loaded, DispatchStart, ConnIx, NConns, NWorkers, Mode, Tasks
    <3> QED
      BY <2>1, <2>2, <3>1 DEF IndInv, Refused, Validate, NewRecorder, NewLatencyHist
  <2>3. CASE Accepted
    <3>1. Phased' /\ DropsAreLosses' /\ GateIsFair'
      BY <2>1, <2>3 DEF Accepted, Phased, DropsAreLosses, GateIsFair, Loading, Tasks
    <3>2. /\ main \in {"parse", "ticket", "resume", "warmup", "run", "verdict", "close", "exit"}
          /\ verdict \in {"none", "usage", "pass", "failures", "drops"}
          /\ signalled \in BOOLEAN /\ ctxDone \in BOOLEAN
          /\ conn \in [ConnIx -> {"none", "open"}] /\ unwatched \in Nat /\ lost \in Nat
      BY <2>3 DEF Accepted, TypeOK
    <3> QED
      BY <2>1, <2>3, <3>1, <3>2, StillAccepted DEF IndInv
  <2> QED
    BY <2>2, <2>3 DEF IndInv
<1> QED
  BY <1>1, <1>2, <1>3 DEF IndInv

\* The invariant holds in every run.
LEMMA RunIsSound == Spec => []IndInv
  BY InitIndInv, NextIndInv, PTL DEF Spec

\* In a refused run nothing was recorded and every property holds.
LEMMA RefusedIsQuiet ==
  ASSUME Refused
  PROVE  /\ TypeOK /\ Counts /\ GateIsFair
         /\ rec.requests = 0 /\ rec.failures = 0 /\ rec.kinds = 0 /\ rec.connDrops = 0
         /\ rec.status = 0 /\ rec.protos = 0 /\ rec.abandoned = 0 /\ lat.seen = 0
<1>1. cfg \in Config
  BY BlastAssumption DEF Refused
<1>2. /\ rec \in [Counters -> Nat]
      /\ rec.requests = 0 /\ rec.failures = 0 /\ rec.kinds = 0 /\ rec.connDrops = 0
      /\ rec.status = 0 /\ rec.protos = 0 /\ rec.abandoned = 0
  BY DEF Refused, NewRecorder, Counters
<1>3. lat.seen = 0 /\ lat.samples = <<>>
  BY DEF Refused, NewLatencyHist
<1>4. <<>> \in Seq(Nat) /\ Len(<<>>) = 0 /\ Cap \in Nat
  BY HistAssumption DEF Cap
<1>5. TypeOK
  <2>1. NURLs \in Nat \ {0}
    BY <1>1 DEF Config, NURLs
  <2>2. lat.samples \in Seq(Nat) /\ Len(lat.samples) <= Cap /\ lat.seen \in Nat
    BY <1>3, <1>4
  <2>3. /\ cfg \in Configs /\ ~Validate(cfg) /\ main \in {"parse", "exit"}
        /\ verdict \in {"none", "usage"} /\ signalled \in BOOLEAN /\ ctxDone \in BOOLEAN
        /\ disp \in {"pace", "stop"} /\ i = 0 /\ n = 0
        /\ unwatched = 0 /\ lost = 0 /\ starts = 0
    BY DEF Refused, DispatchStart
  <2>4. conn \in [ConnIx -> {"none", "open"}]
    BY DEF Refused
  <2>5. n \in 0..(NURLs - 1)
    BY <2>1, <2>3
  <2> QED
    BY <1>2, <2>2, <2>3, <2>4, <2>5 DEF TypeOK
<1>6. Counts
  <2>1. Fresh
    BY <1>1 DEF Refused, Fresh, Loaded
  <2> QED
    BY <2>1, FreshCounts
<1> QED
  BY <1>2, <1>3, <1>5, <1>6 DEF Refused, GateIsFair

\* The types hold for every command line: in particular every worker, also one
\* of many, uses a client that exists (load.go:20-36, 53-76).
THEOREM BlastTypeCorrect == Spec => []TypeOK
<1>1. IndInv => TypeOK
  BY RefusedIsQuiet DEF IndInv, Accepted
<1> QED
  BY <1>1, RunIsSound, PTL

\* Every offered request is omitted, in flight, counted or abandoned
\* (load.go:53-76, blast.go:168-183).
THEOREM OffersAreAccounted == Spec => []OfferedAccounted
<1>1. IndInv => OfferedAccounted
  BY RefusedIsQuiet DEF IndInv, Accepted, Counts
<1> QED
  BY <1>1, RunIsSound, PTL

\* The closed loop passes -requests by less than its number of workers
\* (load.go:29-36).
THEOREM OvershootIsBounded == Spec => []OvershootBounded
<1>1. IndInv => OvershootBounded
  <2> SUFFICES ASSUME IndInv, Mode = "closed", Requests > 0
               PROVE  rec.requests <= Requests + Cardinality(Tasks) - 1
    BY DEF OvershootBounded
  <2>1. cfg \in Config /\ rec \in [Counters -> Nat] /\ Overshoot
    BY RefusedIsQuiet, BlastAssumption DEF IndInv, Accepted, Counts, TypeOK
  <2>2. IsFiniteSet(Tasks) /\ Cardinality(Tasks) \in Nat
    BY <2>1, TasksFinite DEF Tasks
  <2>3. Counting \in SUBSET Tasks
    BY DEF Counting, In
  <2>4. Cardinality(Counting) \in Nat
    BY <2>2, <2>3, FS_Subset, FS_CardinalityType
  <2>5. Requests \in Int /\ rec.requests \in Nat
    BY <2>1 DEF Requests, Config, Counters
  <2> QED
    BY <2>1, <2>2, <2>4, <2>5 DEF Overshoot
<1> QED
  BY <1>1, RunIsSound, PTL

\* The figures of the summary agree, once no goroutine is left to change them
\* (blast.go:159-195, 452-468, 613-639).
THEOREM SummariesBalance == Spec => []SummaryBalances
<1>1. IndInv => SummaryBalances
  <2> SUFFICES ASSUME IndInv, main \in {"verdict", "close", "exit"}
               PROVE  /\ rec.requests = lat.seen + rec.failures
                      /\ rec.kinds = rec.failures + rec.connDrops
                      /\ rec.status <= rec.protos /\ rec.protos <= rec.status + rec.abandoned
    BY DEF SummaryBalances
  <2>1. CASE Refused
    BY <2>1, RefusedIsQuiet
  <2>2. CASE Accepted
    <3>1. \A t \in Tasks : task[t].st \in {"loop", "free", "gone"}
      BY <2>2 DEF Accepted, Phased, Loading
    <3>2. Filing = {} /\ Answered = {}
      BY <2>2, <3>1 DEF Filing, Answered, In, Accepted, Shaped
    <3>3. Cardinality(Filing) = 0 /\ Cardinality(Answered) = 0
      BY <3>2, FS_EmptySet, Zenon
    <3>4. /\ rec.requests \in Nat /\ rec.failures \in Nat /\ rec.status \in Nat
          /\ rec.protos \in Nat /\ rec.abandoned \in Nat /\ lat.seen \in Nat
      BY <2>2 DEF Accepted, TypeOK, Counters
    <3>5. Ledger
      BY <2>2 DEF Accepted, Counts
    <3> QED
      BY <3>3, <3>4, <3>5 DEF Ledger
  <2> QED
    BY <2>1, <2>2 DEF IndInv
<1> QED
  BY <1>1, RunIsSound, PTL

\* The gates of a pipeline judge only what was lost or failed
\* (blast.go:482-501).
THEOREM GatesAreFair == Spec => []GateIsFair
<1>1. IndInv => GateIsFair
  BY RefusedIsQuiet DEF IndInv, Accepted
<1> QED
  BY <1>1, RunIsSound, PTL

-----------------------------------------------------------------------------
(* The sample store.                                                       *)

\* Slot j of a store that overwrites holds the j-th sample, or a later one whose
\* slot it is, and the samples of the last round are all in their slots.
HistInv ==
  /\ lat.samples \in Seq(Nat) /\ lat.seen \in Nat
  /\ Len(lat.samples) = IF lat.seen < Cap THEN lat.seen ELSE Cap
  /\ \A j \in 1..Len(lat.samples) :
       \/ lat.samples[j] = j
       \/ lat.seen > Cap /\ lat.samples[j] > Cap /\ Slot(lat.samples[j]) = j
  /\ \A k \in (Cap + 1)..lat.seen : k > lat.seen - Cap => lat.samples[Slot(k)] = k

\* Two numbers less than C apart differ modulo C.
LEMMA ModDiffers ==
  ASSUME NEW C \in Nat \ {0}, NEW a \in Nat, NEW b \in Nat, a < b, b - a < C
  PROVE  a % C # b % C
<1> DEFINE p == a \div C
           q == b \div C
<1>1. /\ p \in Int /\ a % C \in 0..(C - 1) /\ a = C * p + (a % C)
      /\ q \in Int /\ b % C \in 0..(C - 1) /\ b = C * q + (b % C)
  OBVIOUS
<1>2. SUFFICES ASSUME a % C = b % C PROVE FALSE
  OBVIOUS
<1> HIDE DEF p, q
<1>3. b - a = C * q - C * p
  BY <1>1, <1>2
<1>4. PICK d \in Int : q = p + d
  <2>1. q = p + (q - p) /\ q - p \in Int
    BY <1>1
  <2> QED
    BY <2>1
<1>5. b - a = C * d
  <2>1. C * q = C * p + C * d
    BY <1>1, <1>4
  <2> QED
    BY <1>1, <1>3, <2>1
<1>6. CASE d <= 0
  <2>1. C * d <= 0
    BY <1>6
  <2> QED
    BY <1>5, <2>1
<1>7. CASE d >= 1
  <2>1. C * d >= C
    BY <1>7
  <2> QED
    BY <1>5, <2>1
<1> QED
  BY <1>6, <1>7

\* The slot of every sample is a slot, and the slots of nearby samples differ.
LEMMA SlotFacts ==
  /\ Cap \in Nat \ {0}
  /\ \A k \in Nat : Slot(k) \in 1..Cap
  /\ \A a, b \in Nat : a < b /\ b - a < Cap => Slot(a) # Slot(b)
<1>1. Cap \in Nat \ {0}
  BY HistAssumption DEF Cap
<1>2. ASSUME NEW k \in Nat PROVE k % Cap \in 0..(Cap - 1)
  BY <1>1
<1>3. ASSUME NEW a \in Nat, NEW b \in Nat, a < b, b - a < Cap PROVE Slot(a) # Slot(b)
  <2>1. a % Cap # b % Cap
    BY <1>1, <1>3, ModDiffers
  <2> QED
    BY <1>2, <2>1 DEF Slot
<1> QED
  BY <1>1, <1>2, <1>3 DEF Slot

\* Adding the next sample keeps the store in order.
LEMMA AddedKeepsHist ==
  ASSUME HistInv, lat' = Added(lat, lat.seen + 1)
  PROVE  HistInv'
<1> DEFINE q == lat.samples
           m == lat.seen
           C == Cap
<1>1. C \in Nat \ {0} /\ q \in Seq(Nat) /\ m \in Nat /\ Len(q) = IF m < C THEN m ELSE C
  BY SlotFacts DEF HistInv
<1>2. /\ \A j \in 1..Len(q) : q[j] = j \/ (m > C /\ q[j] > C /\ Slot(q[j]) = j)
      /\ \A k \in (C + 1)..m : k > m - C => q[Slot(k)] = k
  BY DEF HistInv
<1>3. \A j \in 1..Len(q) : q[j] \in Nat
  BY <1>1
<1>4. CASE m < C
  <2>1. lat' = [seen |-> m + 1, samples |-> Append(q, m + 1)]
    BY <1>1, <1>4 DEF Added
  <2>2. /\ Append(q, m + 1) \in Seq(Nat) /\ Len(Append(q, m + 1)) = m + 1
        /\ \A j \in 1..(m + 1) : Append(q, m + 1)[j] = IF j <= m THEN q[j] ELSE m + 1
    BY <1>1, <1>4, AppendProperties
  <2> HIDE DEF q, m, C
  <2>3. \A j \in 1..(m + 1) : Append(q, m + 1)[j] = j
    BY <1>1, <1>2, <1>4, <2>2
  <2>4. lat'.seen = m + 1 /\ lat'.samples = Append(q, m + 1)
    BY <2>1
  <2>5. Len(lat'.samples) = IF lat'.seen < C THEN lat'.seen ELSE C
    BY <1>1, <1>4, <2>2, <2>4
  <2>6. \A j \in 1..Len(lat'.samples) : lat'.samples[j] = j
    BY <2>2, <2>3, <2>4
  <2>7. \A k \in (C + 1)..lat'.seen : FALSE
    BY <1>1, <1>4, <2>4
  <2>8. lat'.samples \in Seq(Nat) /\ lat'.seen \in Nat
    <3>1. m + 1 \in Nat
      BY <1>1
    <3> QED
      BY <2>2, <2>4, <3>1, Zenon
  <2> QED
    BY <2>5, <2>6, <2>7, <2>8 DEF HistInv, C
<1>5. CASE m >= C
  <2> DEFINE s == Slot(m + 1)
             r == [q EXCEPT ![s] = m + 1]
  <2>1. lat' = [seen |-> m + 1, samples |-> r]
    BY <1>1, <1>5 DEF Added
  <2>2. s \in 1..C /\ Len(q) = C
    BY <1>1, <1>5, SlotFacts
  <2>3. r \in Seq(Nat) /\ Len(r) = C /\ \A j \in 1..C : r[j] = IF j = s THEN m + 1 ELSE q[j]
    BY <1>1, <2>2, ExceptSeq
  <2>4. ASSUME NEW j \in 1..C
        PROVE  r[j] = j \/ (m + 1 > C /\ r[j] > C /\ Slot(r[j]) = j)
    <3>1. CASE j = s
      <4>1. r[j] = m + 1 /\ Slot(m + 1) = j
        BY <2>3, <3>1
      <4> QED
        BY <1>1, <1>5, <4>1
    <3>2. CASE j # s
      <4>1. r[j] = q[j]
        BY <2>3, <3>2
      <4> QED
        BY <1>1, <1>2, <2>2, <4>1
    <3> QED
      BY <3>1, <3>2
  <2>5. ASSUME NEW k \in (C + 1)..(m + 1), k > (m + 1) - C
        PROVE  r[Slot(k)] = k
    <3>1. Slot(k) \in 1..C
      BY <1>1, SlotFacts
    <3>2. CASE k = m + 1
      BY <2>3, <3>1, <3>2
    <3>3. CASE k # m + 1
      <4>1. k \in (C + 1)..m /\ k > m - C /\ k < m + 1 /\ (m + 1) - k < C
        BY <1>1, <2>5, <3>3
      <4>2. Slot(k) # s
        <5>1. k \in Nat /\ m + 1 \in Nat /\ (m + 1) - k < Cap /\ k < m + 1
          BY <1>1, <4>1
        <5>2. Slot(k) # Slot(m + 1)
          BY <5>1, SlotFacts
        <5> QED
          BY <5>2
      <4> QED
        BY <1>2, <2>3, <3>1, <4>1, <4>2
    <3> QED
      BY <3>2, <3>3
  <2>6. lat'.seen = m + 1 /\ lat'.samples = r
    BY <2>1
  <2> HIDE DEF q, m, C, s, r
  <2>7. Len(lat'.samples) = C /\ lat'.seen > C
    BY <1>1, <1>5, <2>3, <2>6
  <2>8. Len(lat'.samples) = IF lat'.seen < C THEN lat'.seen ELSE C
    BY <1>1, <1>5, <2>6, <2>7
  <2>9. \A j \in 1..Len(lat'.samples) :
          \/ lat'.samples[j] = j
          \/ lat'.seen > C /\ lat'.samples[j] > C /\ Slot(lat'.samples[j]) = j
    BY <2>4, <2>6, <2>7
  <2>10. \A k \in (C + 1)..lat'.seen : k > lat'.seen - C => lat'.samples[Slot(k)] = k
    BY <2>5, <2>6
  <2>11. lat'.samples \in Seq(Nat) /\ lat'.seen \in Nat
    BY <1>1, <2>3, <2>6
  <2> HIDE DEF C
  <2>12. /\ (lat.samples)' \in Seq(Nat) /\ (lat.seen)' \in Nat
         /\ Len((lat.samples)') = IF (lat.seen)' < Cap THEN (lat.seen)' ELSE Cap
         /\ \A j \in 1..Len((lat.samples)') :
              \/ (lat.samples)'[j] = j
              \/ (lat.seen)' > Cap /\ (lat.samples)'[j] > Cap /\ Slot((lat.samples)'[j]) = j
         /\ \A k \in (Cap + 1)..(lat.seen)' :
              k > (lat.seen)' - Cap => (lat.samples)'[Slot(k)] = k
    BY <2>8, <2>9, <2>10, <2>11, Zenon DEF C
  <2> QED
    BY <2>12, Zenon DEF HistInv
<1> QED
  BY <1>1, <1>4, <1>5

\* Only File and the reset after the warm-up change the store.
LEMMA HistSteps ==
  ASSUME [Next]_vars
  PROVE  lat' \in {lat, NewLatencyHist, Added(lat, lat.seen + 1)}
<1>1. CASE MainStep \/ CtxTimesOut \/ Signal
  BY <1>1 DEF MainStep, Reject, SetUpFails, SetUp, FirstDial, SecondDial, WarmupEnds, RunLoadReturns, Verdict,
              CloseTransports, CtxTimesOut, Signal, MainGoes, recVars
<1>2. CASE Dispatch
  BY <1>2 DEF Dispatch, DispatchGranted, DispatchDenied, Offer, OfferReached, recVars
<1>3. CASE \E t \in Tasks : Worker(t)
  BY <1>3 DEF Worker, LoopHead, PaceGranted, PaceDenied, DoRequest, Build, Responds, DoFails,
              Drains, Abandon, Count, File, recVars
<1>4. CASE (\E c \in ConnIx : Dial(c) \/ ConnLost(c)) \/ WatcherCounts
  BY <1>4 DEF Dial, ConnLost, WatcherCounts, recVars
<1>5. CASE UNCHANGED vars
  BY <1>5 DEF vars, recVars
<1> QED
  BY <1>1, <1>2, <1>3, <1>4, <1>5 DEF Next

\* An empty store is in order.
LEMMA EmptyHist ==
  ASSUME lat = NewLatencyHist
  PROVE  HistInv
<1>1. lat.samples = <<>> /\ lat.seen = 0 /\ Len(<<>>) = 0 /\ <<>> \in Seq(Nat)
  BY DEF NewLatencyHist
<1>2. Cap \in Nat \ {0}
  BY SlotFacts
<1> QED
  BY <1>1, <1>2 DEF HistInv

\* The store is always in order.
LEMMA HistInOrder == Spec => []HistInv
<1>1. Init => HistInv
  BY EmptyHist DEF Init
<1>2. (lat = NewLatencyHist) => HistInv
  BY EmptyHist
<1>3. (lat = NewLatencyHist)' => HistInv'
  BY <1>2, PTL
<1>4. HistInv /\ [Next]_vars => HistInv'
  <2> SUFFICES ASSUME HistInv, [Next]_vars PROVE HistInv'
    OBVIOUS
  <2>1. CASE lat' = lat
    BY <2>1 DEF HistInv
  <2>2. CASE lat' = NewLatencyHist
    BY <1>3, <2>2 DEF NewLatencyHist
  <2>3. CASE lat' = Added(lat, lat.seen + 1)
    BY <2>3, AddedKeepsHist
  <2> QED
    BY <2>1, <2>2, <2>3, HistSteps
<1> QED
  BY <1>1, <1>4, PTL DEF Spec

\* The store keeps its samples apart, never loses the newest, and after two
\* rounds holds exactly the last Cap of them (hist.go:20-30).
THEOREM NewestAreKept == Spec => []NewestKept
<1>1. HistInv => NewestKept
  <2> SUFFICES ASSUME HistInv PROVE NewestKept
    OBVIOUS
  <2> DEFINE q == lat.samples
             m == lat.seen
             C == Cap
             K == Len(q)
  <2>1. /\ C \in Nat \ {0} /\ q \in Seq(Nat) /\ m \in Nat /\ K \in Nat
        /\ K = IF m < C THEN m ELSE C
        /\ q \in [1..K -> Nat] /\ DOMAIN q = 1..K
    BY SlotFacts, LenProperties DEF HistInv
  <2>2. \A j \in 1..K : q[j] = j \/ (m > C /\ q[j] > C /\ Slot(q[j]) = j)
    BY DEF HistInv
  <2>3. \A k \in (C + 1)..m : k > m - C => q[Slot(k)] = k /\ Slot(k) \in 1..C
    BY SlotFacts DEF HistInv
  <2>4. Kept = {q[j] : j \in 1..K}
    BY <2>1 DEF Kept
  <2> HIDE DEF q, m, C, K
  <2>5. Cardinality(Kept) = K /\ IsFiniteSet(Kept)
    <3>1. \A a, b \in 1..K : q[a] = q[b] => a = b
      BY <2>1, <2>2
    <3>2. q \in [1..K -> Kept] /\ \A v \in Kept : \E j \in 1..K : q[j] = v
      BY <2>1, <2>4
    <3>3. q \in Bijection(1..K, Kept)
      BY <3>1, <3>2, Fun_IsBij
    <3>4. IsFiniteSet(1..K) /\ Cardinality(1..K) = K
      BY <2>1, FS_Interval
    <3> QED
      BY <3>3, <3>4, FS_Bijection DEF ExistsBijection
  <2>6. m <= C => Kept = 1..m
    BY <2>1, <2>2, <2>4
  <2>7. m > 0 => m \in Kept
    <3>1. CASE m <= C
      BY <2>1, <2>6, <3>1
    <3>2. CASE m > C
      <4>1. m \in (C + 1)..m /\ m > m - C /\ K = C
        BY <2>1, <3>2
      <4> QED
        BY <2>3, <2>4, <4>1
    <3> QED
      BY <2>1, <3>1, <3>2
  <2>8. m >= 2 * C => Kept = (m - C + 1)..m
    <3> SUFFICES ASSUME m >= 2 * C PROVE Kept = (m - C + 1)..m
      OBVIOUS
    <3> DEFINE Last == (m - C + 1)..m
    <3>1. K = C /\ \A k \in Last : k \in (C + 1)..m /\ k > m - C
      BY <2>1
    <3>2. Last \in SUBSET Kept
      BY <2>3, <2>4, <3>1
    <3>3. Cardinality(Last) = C
      BY <2>1, FS_Interval
    <3> HIDE DEF Last
    <3>4. Kept = Last
      BY <2>5, <3>1, <3>2, <3>3, FS_Subset
    <3> QED
      BY <3>4 DEF Last
  <2> QED
    BY <2>5, <2>6, <2>7, <2>8 DEF NewestKept, LastSeen, q, m, C, K
<1> QED
  BY <1>1, HistInOrder, PTL

-----------------------------------------------------------------------------
(* Sorting and percentiles.                                                *)

\* A nonempty set of numbers has a least one.
LEMMA LeastNatural ==
  ASSUME NEW T, T \subseteq Nat, T # {}
  PROVE  \E L \in T : \A m \in T : L <= m
<1> DEFINE R == {p \in Nat \X Nat : p[1] < p[2]}
<1>1. IsWellFoundedOn(R, Nat)
  BY NatLessThanWellFounded DEF OpToRel
<1>2. ASSUME NEW m \in T, NEW L \in T, m < L PROVE <<m, L>> \in R
  BY <1>2
<1> HIDE DEF R
<1>3. PICK L \in T : \A m \in T : ~(<<m, L>> \in R)
  BY <1>1, WFMin
<1>4. ASSUME NEW m \in T PROVE L <= m
  <2>1. ~(m < L)
    BY <1>2, <1>3
  <2>2. m \in Nat /\ L \in Nat
    OBVIOUS
  <2> QED
    BY <2>1, <2>2
<1> QED
  BY <1>4

\* The least of the samples comes first; the others, whose places close up behind
\* it, are put in order by the order of a list that is one shorter.
LEMMA OrderOneMore ==
  ASSUME NEW L \in Nat \ {0}, NEW s \in [1..L -> Nat],
         \A t \in [1..(L - 1) -> Nat] :
           \E q \in [1..(L - 1) -> 1..(L - 1)] :
             \A a, b \in 1..(L - 1) : a < b => q[a] # q[b] /\ t[q[a]] <= t[q[b]]
  PROVE  \E p \in [1..L -> 1..L] :
           \A a, b \in 1..L : a < b => p[a] # p[b] /\ s[p[a]] <= s[p[b]]
<1>1. PICK m \in 1..L : \A a \in 1..L : s[m] <= s[a]
  <2> DEFINE T == {s[a] : a \in 1..L}
  <2>1. T \subseteq Nat
    OBVIOUS
  <2>2. s[1] \in T
    OBVIOUS
  <2>3. PICK v \in T : \A w \in T : v <= w
    BY <2>1, <2>2, LeastNatural
  <2>4. PICK m \in 1..L : s[m] = v
    OBVIOUS
  <2> QED
    BY <2>3, <2>4
<1> DEFINE Up(x) == IF x < m THEN x ELSE x + 1
           t == [a \in 1..(L - 1) |-> s[Up(a)]]
<1>2. \A x \in 1..(L - 1) : Up(x) \in 1..L /\ Up(x) # m
  OBVIOUS
<1>3. \A x, y \in 1..(L - 1) : x # y => Up(x) # Up(y)
  OBVIOUS
<1> HIDE DEF Up
<1>4. t \in [1..(L - 1) -> Nat]
  BY <1>2
<1>5. PICK q \in [1..(L - 1) -> 1..(L - 1)] :
        \A a, b \in 1..(L - 1) : a < b => q[a] # q[b] /\ t[q[a]] <= t[q[b]]
  BY <1>4
<1> DEFINE p == [a \in 1..L |-> IF a = 1 THEN m ELSE Up(q[a - 1])]
<1>6. ASSUME NEW a \in 2..L PROVE a - 1 \in 1..(L - 1) /\ q[a - 1] \in 1..(L - 1)
  <2>1. a - 1 \in 1..(L - 1)
    OBVIOUS
  <2> QED
    BY <2>1
<1>7. p \in [1..L -> 1..L]
  <2>1. ASSUME NEW a \in 1..L PROVE p[a] \in 1..L
    <3>1. CASE a = 1
      BY <3>1
    <3>2. CASE a \in 2..L
      <4>1. p[a] = Up(q[a - 1])
        BY <3>2
      <4>2. q[a - 1] \in 1..(L - 1)
        BY <1>6, <3>2
      <4> HIDE DEF p
      <4> QED
        BY <1>2, <4>1, <4>2
    <3> QED
      BY <3>1, <3>2
  <2> QED
    BY <2>1
<1>8. ASSUME NEW a \in 1..L, NEW b \in 1..L, a < b
      PROVE  p[a] # p[b] /\ s[p[a]] <= s[p[b]]
  <2>1. b \in 2..L /\ p[b] = Up(q[b - 1])
    BY <1>8
  <2>2. CASE a = 1
    BY <1>1, <1>2, <1>6, <1>7, <2>1, <2>2
  <2>3. CASE a \in 2..L
    <3> DEFINE d == q[a - 1]
               e == q[b - 1]
    <3>1. a - 1 \in 1..(L - 1) /\ b - 1 \in 1..(L - 1) /\ a - 1 < b - 1
      BY <1>8, <2>1, <2>3
    <3>2. d # e /\ t[d] <= t[e] /\ d \in 1..(L - 1) /\ e \in 1..(L - 1)
      BY <1>5, <3>1
    <3>3. p[a] = Up(d) /\ p[b] = Up(e)
      BY <2>1, <2>3
    <3> HIDE DEF d, e, p
    <3>4. t[d] = s[Up(d)] /\ t[e] = s[Up(e)]
      BY <3>2
    <3> HIDE DEF t
    <3> QED
      BY <1>3, <3>2, <3>3, <3>4
  <2> QED
    BY <2>2, <2>3
<1> HIDE DEF p
<1> QED
  BY <1>7, <1>8

\* Every list can be put in order.
LEMMA OrderExists ==
  ASSUME NEW L \in Nat, NEW s \in [1..L -> Nat]
  PROVE  \E p \in [1..L -> 1..L] :
           \A a, b \in 1..L : a < b => p[a] # p[b] /\ s[p[a]] <= s[p[b]]
<1> DEFINE Orders(k) ==
             \A t \in [1..k -> Nat] : \E p \in [1..k -> 1..k] :
               \A a, b \in 1..k : a < b => p[a] # p[b] /\ t[p[a]] <= t[p[b]]
           T == {k \in Nat : ~Orders(k)}
<1>1. SUFFICES ASSUME T # {} PROVE FALSE
  OBVIOUS
<1> HIDE DEF Orders
<1>2. T \subseteq Nat
  OBVIOUS
<1>3. PICK k \in T : \A l \in T : k <= l
  BY <1>1, <1>2, LeastNatural
<1>4. k \in Nat /\ ~Orders(k)
  OBVIOUS
<1>5. Orders(0)
  <2>1. ASSUME NEW t \in [1..0 -> Nat]
        PROVE  \E p \in [1..0 -> 1..0] :
                 \A a, b \in 1..0 : a < b => p[a] # p[b] /\ t[p[a]] <= t[p[b]]
    <3> DEFINE p == [a \in 1..0 |-> a]
    <3>1. p \in [1..0 -> 1..0] /\ 1..0 = {}
      OBVIOUS
    <3> QED
      BY <3>1
  <2> QED
    BY <2>1 DEF Orders
<1>6. k # 0
  BY <1>4, <1>5
<1>7. k - 1 \in Nat /\ ~(k <= k - 1)
  BY <1>4, <1>6
<1>8. Orders(k - 1)
  BY <1>3, <1>7
<1>9. Orders(k)
  <2>1. ASSUME NEW t \in [1..k -> Nat]
        PROVE  \E p \in [1..k -> 1..k] :
                 \A a, b \in 1..k : a < b => p[a] # p[b] /\ t[p[a]] <= t[p[b]]
    <3>1. k \in Nat \ {0}
      BY <1>4, <1>6
    <3> QED
      BY <1>8, <3>1, OrderOneMore DEF Orders
  <2> QED
    BY <2>1 DEF Orders
<1> QED
  BY <1>4, <1>9

\* What Sorted returns: the samples at the places o, each place once, in order.
SortedBy(o, s, L) ==
  /\ o \in [1..L -> 1..L]
  /\ \A a, b \in 1..L : a < b => o[a] # o[b] /\ s[o[a]] <= s[o[b]]
  /\ Sorted(s) = [a \in 1..L |-> s[o[a]]]

LEMMA SortedProperties ==
  ASSUME NEW L \in Nat, NEW s \in [1..L -> Nat]
  PROVE  \E o : SortedBy(o, s, L)
<1>1. DOMAIN s = 1..L
  OBVIOUS
<1>2. \E p \in [DOMAIN s -> DOMAIN s] : IsOrder(p, s)
  BY <1>1, OrderExists DEF IsOrder
<1> DEFINE q == CHOOSE p \in [DOMAIN s -> DOMAIN s] : IsOrder(p, s)
<1>3. q \in [DOMAIN s -> DOMAIN s] /\ IsOrder(q, s)
  BY <1>2
<1>4. Sorted(s) = [a \in DOMAIN s |-> s[q[a]]]
  BY DEF Sorted
<1> HIDE DEF q
<1>5. \A a, b \in 1..L : a < b => q[a] # q[b] /\ s[q[a]] <= s[q[b]]
  BY <1>1, <1>3 DEF IsOrder
<1>6. SortedBy(q, s, L)
  BY <1>1, <1>3, <1>4, <1>5 DEF SortedBy
<1> QED
  BY <1>6

\* As many places as an injective function has arguments.
LEMMA AtLeast ==
  ASSUME NEW S, NEW T, IsFiniteSet(T), NEW f \in [S -> T],
         \A x, y \in S : x # y => f[x] # f[y]
  PROVE  Cardinality(S) <= Cardinality(T)
<1>1. f \in Injection(S, T)
  BY DEF Injection, IsInjective
<1> QED
  BY <1>1, FS_Injection

\* The index that percentile truncates to, and where it lies: p thousandths of the
\* list end there.
Index(p, L) == (p * L) \div 1000
Thousandths == 0..999
IsIndex(k, p, L) ==
  /\ k \in 0..(L - 1)
  /\ 1000 * k <= p * L
  /\ p * L <= 1000 * (k + 1)

LEMMA IndexBounds ==
  ASSUME NEW L \in Nat \ {0}, NEW p \in Thousandths
  PROVE  IsIndex(Index(p, L), p, L)
<1> DEFINE x == p * L
           k == x \div 1000
<1>1. x \in Nat /\ x <= 999 * L
  BY Z3 DEF Thousandths
<1> HIDE DEF x
<1>2. k \in Int /\ 1000 * k <= x /\ x < 1000 * (k + 1)
  BY <1>1
<1> HIDE DEF k
<1>3. k >= 0 /\ k < L
  BY <1>1, <1>2
<1>4. k \in 0..(L - 1) /\ x <= 1000 * (k + 1)
  BY <1>1, <1>2, <1>3
<1> QED
  BY <1>2, <1>4 DEF IsIndex, Index, k, x

\* v separates the list s of length L at p thousandths.
Splits(s, L, p, v) ==
  /\ 1000 * Cardinality({a \in 1..L : s[a] <= v}) >= p * L
  /\ 1000 * Cardinality({a \in 1..L : s[a] >= v}) >= (1000 - p) * L

\* A percentile separates any list of samples, of any length: p thousandths of
\* them are not above it and the rest are not below it (percentile).
LEMMA PercentileSplitsAny ==
  ASSUME NEW L \in Nat \ {0}, NEW s \in [1..L -> Nat], NEW p \in Thousandths,
         NEW v, v = Percentile(Sorted(s), p)
  PROVE  Splits(s, L, p, v)
<1>0. PICK o : SortedBy(o, s, L)
  <2>1. L \in Nat
    OBVIOUS
  <2> QED
    BY <2>1, SortedProperties
<1>1. /\ o \in [1..L -> 1..L]
      /\ \A a, b \in 1..L : a < b => o[a] # o[b] /\ s[o[a]] <= s[o[b]]
      /\ Sorted(s) = [a \in 1..L |-> s[o[a]]]
  BY <1>0 DEF SortedBy
<1> DEFINE k == Index(p, L)
           Below == {a \in 1..L : s[a] <= v}
           Above == {a \in 1..L : s[a] >= v}
<1>2. k \in 0..(L - 1) /\ 1000 * k <= p * L /\ p * L <= 1000 * (k + 1)
  <2>1. IsIndex(k, p, L)
    BY IndexBounds
  <2> QED
    BY <2>1 DEF IsIndex
<1>3. Len(Sorted(s)) = L
  BY <1>1
<1>4. Percentile(Sorted(s), p) = Sorted(s)[(IF k > L - 1 THEN L - 1 ELSE k) + 1]
  BY <1>3 DEF Percentile, Index
<1> HIDE DEF k
<1>5. v = s[o[k + 1]] /\ k + 1 \in 1..L
  BY <1>1, <1>2, <1>4
<1>6. IsFiniteSet(Below) /\ IsFiniteSet(Above)
  <2>1. IsFiniteSet(1..L)
    BY FS_Interval
  <2> QED
    BY <2>1, FS_Subset
<1>7. Cardinality(Below) \in Nat /\ Cardinality(Above) \in Nat
  BY <1>6, FS_CardinalityType
<1>8. \A a, b \in 1..L : a # b => o[a] # o[b]
  <2>1. \A a, b \in 1..L : a # b => a < b \/ b < a
    OBVIOUS
  <2> QED
    BY <1>1, <2>1
<1>9. Cardinality(Below) >= k + 1
  <2> DEFINE S == 1..(k + 1)
             f == [a \in S |-> o[a]]
  <2>1. Cardinality(S) = k + 1
    BY <1>2, FS_Interval
  <2>2. ASSUME NEW a \in S PROVE a \in 1..L /\ o[a] \in 1..L /\ s[o[a]] <= v
    <3>1. a \in 1..L /\ (a < k + 1 \/ a = k + 1)
      BY <1>2
    <3>2. o[a] \in 1..L /\ s[o[a]] \in Nat
      BY <1>1, <3>1
    <3>3. CASE a = k + 1
      BY <1>5, <3>1, <3>2, <3>3
    <3>4. CASE a # k + 1
      BY <1>1, <1>5, <3>1, <3>2, <3>4
    <3> QED
      BY <3>3, <3>4
  <2>3. f \in [S -> Below]
    BY <2>2
  <2>4. \A a, b \in S : a # b => f[a] # f[b]
    BY <1>8, <2>2
  <2> HIDE DEF S, f, Below
  <2>5. Cardinality(S) <= Cardinality(Below)
    BY <1>6, <2>3, <2>4, AtLeast
  <2> QED
    BY <1>2, <1>7, <2>1, <2>5
<1>10. Cardinality(Above) >= L - k
  <2> DEFINE S == (k + 1)..L
             f == [a \in S |-> o[a]]
  <2>1. Cardinality(S) = L - k
    BY <1>2, FS_Interval
  <2>2. ASSUME NEW a \in S PROVE a \in 1..L /\ o[a] \in 1..L /\ s[o[a]] >= v
    <3>1. a \in 1..L /\ (k + 1 < a \/ a = k + 1)
      BY <1>2
    <3>2. o[a] \in 1..L /\ s[o[a]] \in Nat
      BY <1>1, <3>1
    <3>3. CASE a = k + 1
      BY <1>5, <3>1, <3>2, <3>3
    <3>4. CASE a # k + 1
      BY <1>1, <1>5, <3>1, <3>2, <3>4
    <3> QED
      BY <3>3, <3>4
  <2>3. f \in [S -> Above]
    BY <2>2
  <2>4. \A a, b \in S : a # b => f[a] # f[b]
    BY <1>8, <2>2
  <2> HIDE DEF S, f, Above
  <2>5. Cardinality(S) <= Cardinality(Above)
    BY <1>6, <2>3, <2>4, AtLeast
  <2> QED
    BY <1>2, <1>7, <2>1, <2>5
<1>11. (1000 - p) * L = 1000 * L - p * L /\ p * L \in Nat
  BY Z3 DEF Thousandths
<1> HIDE DEF Below, Above
<1>12. 1000 * Cardinality(Below) >= p * L
  BY <1>2, <1>7, <1>9, <1>11
<1>13. 1000 * Cardinality(Above) >= (1000 - p) * L
  BY <1>2, <1>7, <1>10, <1>11
<1> QED
  BY <1>12, <1>13 DEF Splits, Below, Above

\* The reservoir holds numbers.
LEMMA KeptNumbers == HistInv => Kept \subseteq Nat
<1>1. HistInv => lat.samples \in Seq(Nat)
  BY DEF HistInv
<1>2. ASSUME lat.samples \in Seq(Nat) PROVE Kept \subseteq Nat
  BY <1>2, ElementOfSeq DEF Kept
<1> QED
  BY <1>1, <1>2

\* The percentiles that writeLatencySummary prints separate the samples: at least
\* p percent are not above, at least the rest not below (blast.go:780-793,
\* 823-832).
THEOREM PercentilesSplit == Spec => []PercentileSplits
<1>1. HistInv => PercentileSplits
  <2> HAVE HistInv
  <2> USE DEF PercentileSplits
  <2> HAVE main = "verdict"
  <2> TAKE s \in UNION {[1..k -> Kept] : k \in 1..4}, p \in Printed
  <2>0. PICK k \in 1..4 : s \in [1..k -> Kept]
    OBVIOUS
  <2>1. Kept \subseteq Nat
    BY KeptNumbers
  <2>2. k \in Nat \ {0}
    OBVIOUS
  <2> HIDE DEF Kept
  <2>4. s \in [1..k -> Nat] /\ DOMAIN s = 1..k
    BY <2>0, <2>1
  <2>5. Len(s) = k
    <3>1. s = [a \in 1..k |-> s[a]]
      BY <2>4
    <3>2. Len([a \in 1..k |-> s[a]]) = k
      BY <2>2
    <3> QED
      BY <3>1, <3>2
  <2> DEFINE v == Percentile(Sorted(s), p)
  <2>3. p \in Thousandths
    BY DEF Printed, Thousandths
  <2> HIDE DEF v
  <2>6. v = Percentile(Sorted(s), p)
    BY DEF v
  <2>7. Splits(s, k, p, v)
    BY <2>2, <2>3, <2>4, <2>6, PercentileSplitsAny, Zenon
  <2> HIDE DEF PercentileSplits
  <2>8. /\ {a \in 1..k : s[a] <= v} = {a \in DOMAIN s : s[a] <= v}
        /\ {a \in 1..k : s[a] >= v} = {a \in DOMAIN s : s[a] >= v}
    BY <2>4
  <2> DEFINE NotAbove == {a \in DOMAIN s : s[a] <= v}
             NotBelow == {a \in DOMAIN s : s[a] >= v}
  <2>9. /\ 1000 * Cardinality(NotAbove) >= p * k
        /\ 1000 * Cardinality(NotBelow) >= (1000 - p) * k
    <3> DEFINE A == {a \in 1..k : s[a] <= v}
               B == {a \in 1..k : s[a] >= v}
    <3>1. 1000 * Cardinality(A) >= p * k /\ 1000 * Cardinality(B) >= (1000 - p) * k
      BY <2>7 DEF Splits
    <3>2. A = NotAbove /\ B = NotBelow
      BY <2>8
    <3> HIDE DEF A, B, NotAbove, NotBelow
    <3> QED
      BY <3>1, <3>2
  <2>10. /\ 1000 * Cardinality(NotAbove) >= p * Len(s)
         /\ 1000 * Cardinality(NotBelow) >= (1000 - p) * Len(s)
    <3> HIDE DEF NotAbove, NotBelow
    <3> QED
      BY <2>5, <2>9
  <2> QED
    BY <2>6, <2>10
<1> QED
  BY <1>1, HistInOrder, PTL
=============================================================================
