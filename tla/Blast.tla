------------------------------- MODULE Blast --------------------------------
(***************************************************************************)
(* One run of the load generator (internal/blast): Main with the check of  *)
(* its flags, the 0-RTT probe (zerortt.go) and the warm-up, the closed and *)
(* the open loop (load.go), doRequest, the recorder the goroutines share,  *)
(* the watcher of every QUIC connection and the verdict.                   *)
(*                                                                         *)
(* A task is a worker of the closed loop or an in-flight slot of the open  *)
(* one.  The server, net/http and quic-go are external: a request may be   *)
(* answered or fail in every way they allow.  The recorder's maps are kept *)
(* as the sums of their values, a latency sample as its number in the run; *)
(* TokenPacer models pacer.wait in detail.                                 *)
(***************************************************************************)
EXTENDS LatencyHist

CONSTANTS
  Configs,     \* command lines as parseConfig and loadPayload leave them
  MaxStarts,   \* bound: calls of doRequest in one behaviour, for each mode
  MaxLosses    \* bound: connections lost in one behaviour

\* A duration or a rate is only whether it is positive.  targets is the number
\* of URLs, bad the positions of those newRequest rejects.
Config == [mode : STRING, conns : Int, workers : Int, maxInflight : Int, requests : Int,
           warmup : BOOLEAN, duration : BOOLEAN, rps : BOOLEAN, readBody : BOOLEAN,
           probe0RTT : BOOLEAN, maxFailPct : Int, maxDrops : Int,
           targets : Nat \ {0}, bad : SUBSET Nat]

ASSUME BlastAssumption ==
  /\ Configs \subseteq Config
  /\ MaxStarts \in [{"closed", "open"} -> Nat] /\ MaxLosses \in Nat

VARIABLES
  cfg,        \* the config of this run
  main,       \* Main: "parse", "ticket", "resume", "warmup", "run", "verdict",
              \* "close" or "exit"
  verdict,    \* what Main returns: "none" yet, "usage" without a run, "pass",
              \* "failures" or "drops"
  signalled,  \* the process got SIGINT or SIGTERM
  ctxDone,    \* the ctx of the current runLoad is done
  task,       \* the goroutines of runLoad
  disp,       \* runOpen's own loop: "pace", "offer" or "stop"
  i,          \* runOpen's i, modulo len(clients)
  n,          \* reqSpec.n, modulo len(urls)
  rec,        \* the counters of recorder
  lat,        \* recorder.lat
  conn,       \* the QUIC connection of each transport: "none" or "open"
  unwatched,  \* connections gone whose watcher has not counted them yet
  lost,       \* history: connections lost before closeTransports
  starts      \* history: calls of doRequest

loadVars == <<task, disp, i, n, starts>>
connVars == <<conn, unwatched, lost>>
recVars  == <<rec, lat>>
mainVars == <<cfg, main, verdict, signalled, ctxDone>>
vars == <<mainVars, loadVars, recVars, connVars>>

Mode == cfg.mode
NConns == cfg.conns
NWorkers == cfg.workers
Requests == cfg.requests
NURLs == cfg.targets

\* config.validate.
Validate(c) ==
  /\ c.mode \in {"closed", "open"}
  /\ c.mode = "open" => c.rps
  /\ c.conns >= 1 /\ c.workers >= 1

\* config.inflight.
Inflight(c) ==
  LET k == IF c.maxInflight > 0 THEN c.maxInflight
           ELSE c.conns * c.workers * (IF c.mode = "open" THEN 8 ELSE 1)
  IN  IF k < 1 THEN 1 ELSE IF k > 4096 THEN 4096 ELSE k

TasksOf(c) == 1..(IF c.mode = "open" THEN Inflight(c) ELSE c.conns * c.workers)
Tasks  == TasksOf(cfg)
ConnIx == 0..(NConns - 1)

Stages == {"loop", "pace", "gone", "free", "do", "sent", "body", "result", "filing"}
Task == [st : Stages, conn : ConnIx, status : {0, 200, 500}, err : BOOLEAN]
Counters == {"requests", "failures", "abandoned", "omitted", "offered",
             "status", "kinds", "protos", "connDrops"}

\* Types; the goroutines of a command line that Main refuses never exist.
TypeOK ==
  /\ cfg \in Configs
  /\ main \in {"parse", "ticket", "resume", "warmup", "run", "verdict", "close", "exit"}
  /\ verdict \in {"none", "usage", "pass", "failures", "drops"}
  /\ signalled \in BOOLEAN /\ ctxDone \in BOOLEAN
  /\ Validate(cfg) => task \in [Tasks -> Task]
  /\ disp \in {"pace", "offer", "stop"}
  /\ i \in ConnIx \cup {0} /\ n \in 0..(NURLs - 1)
  /\ rec \in [Counters -> Nat]
  /\ lat.samples \in Seq(Nat) /\ Len(lat.samples) <= Cap /\ lat.seen \in Nat
  /\ conn \in [ConnIx -> {"none", "open"}]
  /\ unwatched \in Nat /\ lost \in Nat /\ starts \in Nat

\* rec with one more of every counter in S.
Bump(S) == [k \in Counters |-> IF k \in S THEN rec[k] + 1 ELSE rec[k]]
Counted(S) == rec' = Bump(S)

NewRecorder == [k \in Counters |-> 0]

\* The goroutines as runLoad creates them.
Loaded ==
  [t \in Tasks |->
    [st     |-> IF Mode = "open" THEN "free" ELSE "loop",
     conn   |-> IF Mode = "open" THEN 0 ELSE (t - 1) \div NWorkers,
     status |-> 0, err |-> FALSE]]
DispatchStart == IF Mode = "open" THEN "pace" ELSE "stop"

Init ==
  /\ cfg \in Configs
  /\ main = "parse"
  /\ verdict = "none"
  /\ signalled = FALSE /\ ctxDone = FALSE
  /\ task = Loaded
  /\ disp = DispatchStart
  /\ i = 0 /\ n = 0
  /\ rec = NewRecorder /\ lat = NewLatencyHist
  /\ conn = [c \in ConnIx |-> "none"]
  /\ unwatched = 0 /\ lost = 0 /\ starts = 0

-----------------------------------------------------------------------------
(* Main.                                                                   *)

FirstLoad == IF cfg.warmup THEN "warmup" ELSE "run"
MainGoes(to) ==
  /\ main' = to
  /\ UNCHANGED <<cfg, verdict, signalled, ctxDone, loadVars, recVars, connVars>>

Reject ==
  /\ main = "parse" /\ ~Validate(cfg)
  /\ main' = "exit" /\ verdict' = "usage"
  /\ UNCHANGED <<cfg, signalled, ctxDone, loadVars, recVars, connVars>>

\* A file of the command line cannot be read or opened: loadPayload,
\* outputWriter, tlsConfig, quicConfig.
SetUpFails ==
  /\ main = "parse" /\ Validate(cfg)
  /\ main' = "exit" /\ verdict' = "usage"
  /\ UNCHANGED <<cfg, signalled, ctxDone, loadVars, recVars, connVars>>

SetUp ==
  /\ main = "parse" /\ Validate(cfg)
  /\ MainGoes(IF cfg.probe0RTT THEN "ticket" ELSE FirstLoad)

\* probe0RTT: a first dial, a pause that the end of ctx cuts short, and a second
\* dial.  Its connections are its own, and an error is only logged.
FirstDial == main = "ticket" /\ (MainGoes("resume") \/ MainGoes(FirstLoad))
SecondDial == main = "resume" /\ MainGoes(FirstLoad)

\* wg.Wait of runClosed or runOpen returns.
Returned ==
  /\ disp = "stop"
  /\ \A t \in Tasks : task[t].st = IF Mode = "open" THEN "free" ELSE "gone"

ResetForgetsOffered == [NewRecorder EXCEPT !.offered = rec.offered]
ResetForgetsKinds == [NewRecorder EXCEPT !.kinds = rec.kinds]
ResetRequestStats == NewRecorder

\* The warm-up's runLoad returns, its counts are dropped, the measured run starts.
WarmupEnds ==
  /\ main = "warmup" /\ Returned
  /\ main' = "run"
  /\ rec' = ResetRequestStats /\ lat' = NewLatencyHist
  /\ ctxDone' = signalled
  /\ task' = Loaded /\ disp' = DispatchStart /\ i' = 0
  /\ UNCHANGED <<cfg, verdict, signalled, n, starts, connVars>>

RunLoadReturns == main = "run" /\ Returned /\ MainGoes("verdict")

VerdictOf(r) ==
  IF cfg.maxFailPct >= 0 /\ r.requests > 0 /\ 100 * r.failures > cfg.maxFailPct * r.requests
  THEN "failures"
  ELSE IF cfg.maxDrops >= 0 /\ r.connDrops > cfg.maxDrops THEN "drops" ELSE "pass"

VerdictAfterClosing ==
  /\ main = "verdict"
  /\ main' = "close"
  /\ verdict' = VerdictOf([rec EXCEPT !.connDrops =
                    @ + Cardinality({c \in ConnIx : conn[c] = "open"})])
  /\ UNCHANGED <<cfg, signalled, ctxDone, loadVars, recVars, connVars>>
Verdict ==
  /\ main = "verdict"
  /\ main' = "close"
  /\ verdict' = VerdictOf(rec)
  /\ UNCHANGED <<cfg, signalled, ctxDone, loadVars, recVars, connVars>>

\* The deferred closeTransports; the watchers see these closes too.
CloseTransports ==
  /\ main = "close"
  /\ main' = "exit"
  /\ conn' = [c \in ConnIx |-> "none"]
  /\ unwatched' = unwatched + Cardinality({c \in ConnIx : conn[c] = "open"})
  /\ UNCHANGED <<cfg, verdict, signalled, ctxDone, loadVars, recVars, lost>>

\* The deadline of the warm-up, or of the run when -duration is given.
CtxTimesOut ==
  /\ main = "warmup" \/ (main = "run" /\ cfg.duration)
  /\ ~ctxDone /\ ctxDone' = TRUE
  /\ UNCHANGED <<cfg, main, verdict, signalled, loadVars, recVars, connVars>>

Signal ==
  /\ main \in {"ticket", "resume", "warmup", "run"} /\ ~signalled
  /\ signalled' = TRUE /\ ctxDone' = TRUE
  /\ UNCHANGED <<cfg, main, verdict, loadVars, recVars, connVars>>

-----------------------------------------------------------------------------
(* runClosed and runOpen.                                                  *)

At(t, st) == task[t].st = st
Goto(t, st) == task' = [task EXCEPT ![t].st = st]
Reached(count) == Requests > 0 /\ count >= Requests

mainUnchanged == UNCHANGED mainVars
Loading == main \in {"warmup", "run"}

\* The head of a closed-loop worker: ctx.Err(), then -requests.
LoopHeadUnlimited(t) ==
  /\ Loading /\ At(t, "loop")
  /\ Goto(t, IF ctxDone THEN "gone" ELSE "pace")
  /\ mainUnchanged /\ UNCHANGED <<disp, i, n, starts, recVars, connVars>>
LoopHead(t) ==
  /\ Loading /\ At(t, "loop")
  /\ Goto(t, IF ctxDone \/ Reached(rec.requests) THEN "gone" ELSE "pace")
  /\ mainUnchanged /\ UNCHANGED <<disp, i, n, starts, recVars, connVars>>

\* pacer.wait returns true; a sleeping waiter may still be woken by its timer
\* when ctx is done as well.
PaceGranted(t) ==
  /\ At(t, "pace")
  /\ cfg.rps \/ ~ctxDone
  /\ starts < MaxStarts[Mode] /\ starts' = starts + 1
  /\ Goto(t, "do")
  /\ mainUnchanged /\ UNCHANGED <<disp, i, n, recVars, connVars>>

PaceDenied(t) ==
  /\ At(t, "pace") /\ ctxDone
  /\ Goto(t, "gone")
  /\ mainUnchanged /\ UNCHANGED <<disp, i, n, starts, recVars, connVars>>

DispatchGranted ==
  /\ Loading /\ disp = "pace" /\ starts < MaxStarts[Mode]
  /\ disp' = "offer"
  /\ mainUnchanged /\ UNCHANGED <<task, i, n, starts, recVars, connVars>>

DispatchDenied ==
  /\ Loading /\ disp = "pace" /\ ctxDone
  /\ disp' = "stop"
  /\ mainUnchanged /\ UNCHANGED <<task, i, n, starts, recVars, connVars>>

\* One offered request: it takes an in-flight slot or is omitted.
Offer ==
  /\ disp = "offer" /\ ~Reached(rec.offered)
  /\ disp' = "pace"
  /\ starts' = starts + 1
  /\ LET free == {t \in Tasks : At(t, "free")} IN
       IF free = {} THEN /\ Counted({"offered", "omitted"})
                         /\ UNCHANGED <<task, i>>
       ELSE /\ Counted({"offered"})
            /\ task' = [task EXCEPT ![CHOOSE t \in free : TRUE] =
                          [st |-> "do", conn |-> i, status |-> 0, err |-> FALSE]]
            /\ i' = (i + 1) % NConns
  /\ mainUnchanged /\ UNCHANGED <<n, lat, connVars>>

OfferReached ==
  /\ disp = "offer" /\ Reached(rec.offered)
  /\ disp' = "stop"
  /\ mainUnchanged /\ UNCHANGED <<task, i, n, starts, recVars, connVars>>

-----------------------------------------------------------------------------
(* doRequest and the recorder.                                             *)

\* Where the goroutine goes when doRequest returns.
End == IF Mode = "open" THEN "free" ELSE "loop"

NextURLClamped == IF n + 1 < NURLs THEN n + 1 ELSE n
NextURL == (n + 1) % NURLs

\* nextURL and newRequest; a request that cannot be built is not recorded.
Build(t) ==
  /\ At(t, "do")
  /\ n' = NextURL
  /\ Goto(t, IF n \in cfg.bad THEN End ELSE "sent")
  /\ mainUnchanged /\ UNCHANGED <<disp, i, starts, recVars, connVars>>

\* client.Do returns a response.
Responds(t) ==
  /\ At(t, "sent") /\ conn[task[t].conn] = "open"
  /\ \E s \in {200, 500} :
       task' = [task EXCEPT ![t].st = "body", ![t].status = s]
  /\ Counted({"protos"}) /\ UNCHANGED lat
  /\ mainUnchanged /\ UNCHANGED <<disp, i, n, starts, connVars>>

\* client.Do returns an error: a dial or stream error, the request's timeout,
\* the end of ctx.
DoFails(t) ==
  /\ At(t, "sent")
  /\ task' = [task EXCEPT ![t].st = "result", ![t].status = 0, ![t].err = TRUE]
  /\ mainUnchanged /\ UNCHANGED <<disp, i, n, starts, recVars, connVars>>

\* drainResponse: only a body that is read can fail.
Drains(t) ==
  /\ At(t, "body")
  /\ \E e \in BOOLEAN :
       /\ e => cfg.readBody \/ task[t].status = 500
       /\ task' = [task EXCEPT ![t].st = "result", ![t].err = e]
  /\ mainUnchanged /\ UNCHANGED <<disp, i, n, starts, recVars, connVars>>

\* recordDialError, or recordHTTPResult with an error, after the run has ended.
Abandon(t) ==
  /\ At(t, "result") /\ task[t].err /\ ctxDone
  /\ Counted({"abandoned"}) /\ UNCHANGED lat
  /\ task' = [task EXCEPT ![t] = [@ EXCEPT !.st = End, !.status = 0, !.err = FALSE]]
  /\ mainUnchanged /\ UNCHANGED <<disp, i, n, starts, connVars>>

\* The first statement of success and of failure: requests.Add.
Count(t) ==
  /\ At(t, "result") /\ ~(task[t].err /\ ctxDone)
  /\ Counted({"requests"}) /\ UNCHANGED lat
  /\ Goto(t, "filing")
  /\ mainUnchanged /\ UNCHANGED <<disp, i, n, starts, connVars>>

\* The rest of success or of failure.
Failed(t) == task[t].err \/ task[t].status >= 500
File(t) ==
  /\ At(t, "filing")
  /\ Counted((IF task[t].status # 0 THEN {"status"} ELSE {})
               \cup (IF Failed(t) THEN {"failures", "kinds"} ELSE {}))
  /\ lat' = IF Failed(t) THEN lat ELSE Added(lat, lat.seen + 1)
  /\ task' = [task EXCEPT ![t] = [@ EXCEPT !.st = End, !.status = 0, !.err = FALSE]]
  /\ mainUnchanged /\ UNCHANGED <<disp, i, n, starts, connVars>>

DoRequest(t) ==
  Build(t) \/ Responds(t) \/ DoFails(t) \/ Drains(t) \/ Abandon(t) \/ Count(t) \/ File(t)

-----------------------------------------------------------------------------
(* The connections of makeTransports.                                      *)

\* A request finds its transport without a connection and dials one.
Dial(c) ==
  /\ main # "exit" /\ conn[c] = "none"
  /\ \E t \in Tasks : At(t, "sent") /\ task[t].conn = c
  /\ conn' = [conn EXCEPT ![c] = "open"]
  /\ mainUnchanged /\ UNCHANGED <<loadVars, recVars, unwatched, lost>>

ConnLost(c) ==
  /\ conn[c] = "open" /\ lost < MaxLosses
  /\ conn' = [conn EXCEPT ![c] = "none"]
  /\ lost' = lost + 1 /\ unwatched' = unwatched + 1
  /\ mainUnchanged /\ UNCHANGED <<loadVars, recVars>>

\* The goroutine that waits for conn.Context().Done().
WatcherCountsEarly ==
  /\ unwatched' = unwatched - 1
  /\ Counted({"connDrops", "kinds"}) /\ UNCHANGED lat
  /\ mainUnchanged /\ UNCHANGED <<loadVars, conn, lost>>
WatcherCounts ==
  /\ unwatched > 0
  /\ unwatched' = unwatched - 1
  /\ Counted({"connDrops", "kinds"}) /\ UNCHANGED lat
  /\ mainUnchanged /\ UNCHANGED <<loadVars, conn, lost>>

-----------------------------------------------------------------------------

MainStep == Reject \/ SetUpFails \/ SetUp \/ FirstDial \/ SecondDial \/ WarmupEnds
              \/ RunLoadReturns \/ Verdict \/ CloseTransports
Dispatch == DispatchGranted \/ DispatchDenied \/ Offer \/ OfferReached
Worker(t) == LoopHead(t) \/ PaceGranted(t) \/ PaceDenied(t) \/ DoRequest(t)

Next ==
  \/ MainStep \/ CtxTimesOut \/ Signal
  \/ Dispatch
  \/ \E t \in Tasks : Worker(t)
  \/ \E c \in ConnIx : Dial(c) \/ ConnLost(c)
  \/ WatcherCounts

Spec == Init /\ [][Next]_vars

\* Goroutines are scheduled, and every request ends: spec.timeout is on its
\* context from the start.  Nothing is assumed of the server or of signals.
FairSpec ==
  /\ Spec
  /\ WF_vars(MainStep) /\ WF_vars(Dispatch)
  /\ WF_vars(CtxTimesOut)
  /\ \A t \in UNION {TasksOf(c) : c \in Configs} : WF_vars(t \in Tasks /\ Worker(t))

-----------------------------------------------------------------------------
(* Properties.                                                             *)

\* Every request the open loop offered is omitted, in flight, counted or
\* abandoned, at all times and across the reset after the warm-up: nothing of
\* the warm-up leaks into the measured run (blast.go:168-183, load.go:53-76).
OfferedAccounted ==
  Mode = "open" /\ cfg.bad = {} =>
    rec.offered = rec.omitted + rec.requests + rec.abandoned
      + Cardinality({t \in Tasks : task[t].st \in {"do", "sent", "body", "result"}})

\* The figures the summary prints agree with each other: a counted request is
\* a latency sample or a failure; a disconnect or failure reason is a failure
\* or a connection drop, although the watchers count on their own; and a
\* response without a status count was abandoned in its body
\* (blast.go:159-195, 452-468, 613-639).
SummaryBalances ==
  main \in {"verdict", "close", "exit"} =>
    /\ rec.requests = lat.seen + rec.failures
    /\ rec.kinds = rec.failures + rec.connDrops
    /\ rec.status <= rec.protos /\ rec.protos <= rec.status + rec.abandoned

\* The closed loop passes -requests by at most one request per other worker,
\* since each of them checks the count before it sends (load.go:29-36).
OvershootBounded ==
  Mode = "closed" /\ Requests > 0 =>
    rec.requests <= Requests + Cardinality(Tasks) - 1

\* The gate of a pipeline: a run fails for drops only if more connections were
\* lost than allowed, blast's own closes not counted, and passes
\* -max-failure-pct 0 only if no measured request failed (blast.go:482-501).
GateIsFair ==
  /\ verdict = "drops" => lost > cfg.maxDrops
  /\ verdict = "pass" /\ cfg.maxFailPct = 0 => rec.failures = 0

\* A run with a -duration, or with -requests, ends, also when some of its targets
\* cannot be requested; any other ends only by a signal or before its first
\* request.  One that is to "stop after this many requests" (blast.go:207) is
\* among the others if it is a closed loop of which no request can be built: no
\* flag check refuses it, and it spins (load.go:20-76, blast.go:92-101, 227-301,
\* 534-545).
Unbuildable == Mode = "closed" /\ 0..(NURLs - 1) \subseteq cfg.bad
EndsByItself == cfg.duration \/ (Requests > 0 /\ ~Unbuildable)
RunEnds ==
  /\ EndsByItself ~> (main = "exit")
  /\ [](main = "exit" => EndsByItself \/ signalled \/ verdict = "usage")

\* No sample is lost before the store is full, the newest one is always there,
\* and from the 2*Cap-th sample on the store holds the last Cap samples and
\* nothing else, although add writes the first overwriting sample to index 1
\* and not to index 0 (hist.go:20-30).
Kept == {lat.samples[j] : j \in DOMAIN lat.samples}
LastSeen(k) == (lat.seen - k + 1)..lat.seen
NewestKept ==
  /\ Cardinality(Kept) = Len(lat.samples)
  /\ lat.seen <= Cap => Kept = 1..lat.seen
  /\ lat.seen > 0 => lat.seen \in Kept
  /\ lat.seen >= 2 * Cap => Kept = LastSeen(Cap)

\* A percentile the summary prints separates the samples: at least p percent of
\* them are not above it and at least the rest are not below it, for every list
\* of up to four of the stored values (blast.go:780-793, 823-832).
PercentileSplits ==
  main = "verdict" =>
    \A s \in UNION {[1..k -> Kept] : k \in 1..4}, p \in Printed :
      LET v == Percentile(Sorted(s), p)
          NotAbove == {j \in DOMAIN s : s[j] <= v}
          NotBelow == {j \in DOMAIN s : s[j] >= v}
      IN  /\ 1000 * Cardinality(NotAbove) >= p * Len(s)
          /\ 1000 * Cardinality(NotBelow) >= (1000 - p) * Len(s)
=============================================================================
