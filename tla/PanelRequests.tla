--------------------------- MODULE PanelRequests ----------------------------
(***************************************************************************)
(* What the control panel makes of a request (internal/ui: handleRun,      *)
(* handleImpair, handleStack and the functions that check a request and    *)
(* build a command line), and what the command it starts makes of that     *)
(* command line (blast.parseConfig and validate, probe.Main, edge.Main,    *)
(* scripts/impair.sh).                                                     *)
(*                                                                         *)
(* A duration is "" (left out), "bad" (not of the form 30s), "zero",       *)
(* "good", or "huge": of that form, and beyond what the flag package       *)
(* parses.  A netem value is its unit.                                     *)
(***************************************************************************)
EXTENDS Integers, Sequences

\* The bodies of the three endpoints, as their JSON decoders type them.
RunReq == [api : {"run"}, tool : STRING, url : STRING, header : STRING, runner : STRING,
           insecure : BOOLEAN, localCerts : BOOLEAN, duration : STRING, warmup : STRING,
           mode : STRING, rps : Int, conns : Int]
ImpairReq == [api : {"impair"}, service : STRING, mode : STRING, a : STRING, b : STRING,
              burst : STRING]
StackReq == [api : {"stack"}, action : STRING, env : STRING, connectors : Int]

DurationRE(d) == d \in {"zero", "good", "huge"}
ParsesDuration(d) == d # "huge"

ClampAbove(v, lo, hi) == IF v > hi THEN hi ELSE v
Clamp(v, lo, hi) == IF v < lo THEN lo ELSE IF v > hi THEN hi ELSE v

----------------------------------------------------------------------------
\* handleRun

Scripted(q) == q.tool \in {"curl", "chrome"}

ValidateRunRequest(q) ==
  /\ q.url = "good"
  /\ q.tool \in {"blast", "probe", "curl", "chrome"}
  /\ q.header # "bad"

AppendDurationFlags(q) ==
  /\ q.duration = "" \/ DurationRE(q.duration)
  /\ q.warmup = "" \/ DurationRE(q.warmup)

RunAccepted(q) == ValidateRunRequest(q) /\ (q.tool = "blast" => AppendDurationFlags(q))

\* planRun: the flags of the command line.  A flag left out has its default.
PlanRun(q) ==
  [tool     |-> q.tool,
   insecure |-> q.insecure \/ (Scripted(q) /\ q.localCerts),
   certs    |-> q.localCerts /\ ~Scripted(q),
   duration |-> q.duration,
   warmup   |-> IF q.warmup = "zero" THEN "" ELSE q.warmup,
   conns    |-> Clamp(q.conns, 1, 64),
   mode     |-> IF q.mode = "open" THEN "open" ELSE "closed",
   rps      |-> IF q.rps > 0 THEN q.rps ELSE 0]

\* The flag sets of the tools, and blast's validate.
RunStarts(a) ==
  CASE a.tool = "probe" -> ~a.certs
    [] a.tool = "blast" -> /\ ParsesDuration(a.duration) /\ ParsesDuration(a.warmup)
                           /\ a.mode \in {"closed", "open"}
                           /\ a.mode = "open" => a.rps > 0
                           /\ a.conns >= 1
    [] OTHER -> TRUE

----------------------------------------------------------------------------
\* handleImpair

Units == {"%", "ms", "mbit"}

ImpairAccepted(q) ==
  /\ q.service \in {"edge", "connector", "origin"}
  /\ q.mode \in {"loss", "delay", "rate", "reorder", "clear"}
  /\ q.mode # "clear" => \A v \in {q.a, q.b, q.burst} : v = "" \/ v \in Units

\* buildImpairCommand: empty values are left out, so later ones move up.
Given(v) == IF v = "" THEN <<>> ELSE <<v>>
ImpairArgs(q) == Given(q.a) \o Given(q.b) \o Given(q.burst)

UnitOf == [loss |-> "%", reorder |-> "%", delay |-> "ms", rate |-> "mbit"]

\* impair.sh takes two values at most; compose gives the origin no NET_ADMIN,
\* and clear ignores that its command fails.
ImpairStarts(q) ==
  LET v == ImpairArgs(q) IN
  q.mode # "clear" =>
    /\ q.service # "origin"
    /\ Len(v) >= 1 /\ v[1] = UnitOf[q.mode]
    /\ q.mode \in {"delay", "reorder"} /\ Len(v) >= 2 => v[2] = UnitOf[q.mode]

----------------------------------------------------------------------------
\* handleStack

StackActions == {"up", "down", "restart-edge", "scale-connectors", "stop-connector",
                 "start-connector"}

\* stackCommand; env is one of the durations it hands to docker compose.
StackAccepted(q) ==
  /\ q.env = "" \/ DurationRE(q.env)
  /\ q.action \in StackActions
  /\ q.action = "scale-connectors" => q.connectors \in 0..10

\* docker compose takes anything; the edge parses its flags when it starts.
StackStarts(q) == q.action \in {"up", "restart-edge"} => ParsesDuration(q.env)

----------------------------------------------------------------------------

Accepted(q) ==
  CASE q.api = "run"    -> RunAccepted(q)
    [] q.api = "impair" -> ImpairAccepted(q)
    [] q.api = "stack"  -> StackAccepted(q)

\* The command of an accepted request gets past its own command line.
Starts(q) ==
  CASE q.api = "run"    -> RunStarts(PlanRun(q))
    [] q.api = "impair" -> ImpairStarts(q)
    [] q.api = "stack"  -> StackStarts(q)
=============================================================================
