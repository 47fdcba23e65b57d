-------------------------------- MODULE Lab ---------------------------------
(***************************************************************************)
(* The lab as docker-compose.yml and the control panel run it: the certs   *)
(* service, the edge and the connector that wait for it, the panel's       *)
(* commands, the probe and the UDP counters.  An operator works on the     *)
(* same containers from a terminal.                                        *)
(*                                                                         *)
(* The panel runs one command at a time; ControlPanel models that in       *)
(* detail, Tunnel and RequestPath what the processes do once they run.     *)
(***************************************************************************)
EXTENDS Probe, UdpMeters, PanelRequests

CONSTANTS
  Requests,   \* what is posted to /api/run, /api/impair and /api/stack
  Scenes,     \* bound: the kinds of operation that one behaviour may mix
  MaxOps      \* bound: operations in one behaviour

Kinds == {"stack", "command", "probe", "force", "cut", "fault", "local", "meter"}

ASSUME LabAssumption == Scenes \subseteq SUBSET Kinds /\ MaxOps \in Nat
ASSUME RequestAssumption == Requests \subseteq RunReq \cup ImpairReq \cup StackReq

VARIABLES
  panel,   \* the panel's command: where it is, its request and how it ended
  scene,   \* the kinds of operation of this behaviour
  ops      \* operations so far

labVars == <<certVars, edgeVars, pool, probe, meterVars, panel, scene, ops>>

NoRequest == [api |-> "none"]

LabInit ==
  /\ CertInit /\ EdgeInit /\ MeterInit
  /\ probe = NoProbe
  /\ panel = [st |-> "free", req |-> NoRequest, exit |-> "none"]
  /\ scene \in Scenes /\ ops = 0

Operation(kind) ==
  kind \in scene /\ ops < MaxOps /\ ops' = ops + 1 /\ UNCHANGED scene

Kind(q) == IF q.api = "stack" THEN "stack" ELSE IF q.api = "run" /\ q.tool = "probe" THEN "probe"
           ELSE "command"

\* A probe under way sees the edge change.
Watched == probe' = [probe EXCEPT !.steady = @ /\ Serving(edge')]

\* The command of q has ended; a request that went well is forgotten.
Done(q, exit) ==
  [st |-> "free", req |-> IF exit = "usage" THEN q ELSE NoRequest, exit |-> exit]

Req == panel.req
Finish(exit) == panel' = Done(Req, exit)

----------------------------------------------------------------------------
\* The panel.

\* blast's tlsConfig.  The host has no /certs; a container shares the volume.
FindsCA(q) ==
  LET a == PlanRun(q) IN
  a.tool = "blast" /\ a.certs /\ ~a.insecure => q.runner = "docker" /\ LoadedPool # 0

\* A command with more than one step: docker compose, and a probe.
Takes(q) == q.api = "stack" \/ (q.api = "run" /\ q.tool = "probe" /\ Starts(q))

\* How a command of one step ends: blast and the scripts, whose work other
\* modules have or is external.
ExitOf(q) ==
  IF ~Accepted(q) THEN "rejected" ELSE IF ~Starts(q) THEN "usage"
  ELSE IF q.api = "run" /\ ~FindsCA(q) THEN "no ca" ELSE "ran"

\* handleRun, handleImpair, handleStack.
HandleRequest(q) ==
  /\ Operation(Kind(q))
  /\ panel.st = "free"
  /\ panel' = IF Accepted(q) /\ Takes(q)
              THEN [st |-> "started", req |-> q, exit |-> "none"]
              ELSE Done(q, ExitOf(q))
  /\ UNCHANGED <<certVars, edgeVars, pool, probe, meterVars>>

PanelProbes ==
  /\ panel.st = "started" /\ Req.api = "run"
  /\ panel' = [panel EXCEPT !.st = "probe"]
  /\ \E blocked, known \in BOOLEAN : ProbeStarts(PlanRun(Req).insecure, TRUE, blocked, known)
  /\ UNCHANGED <<certVars, edgeVars, pool, meterVars, scene, ops>>

\* The same tool from a shell, where -control may be empty.
ShellProbes ==
  /\ Operation("probe")
  /\ probe.pc \in {"none", "done"} /\ panel.st # "probe"
  /\ \E blocked \in BOOLEAN : ProbeStarts(TRUE, FALSE, blocked, FALSE)
  /\ UNCHANGED <<certVars, edgeVars, pool, meterVars, panel>>

ProbeMoves ==
  /\ ProbeStep
  /\ IF panel.st = "probe" /\ probe'.pc = "done" THEN Finish("ran") ELSE UNCHANGED panel
  /\ UNCHANGED <<certVars, edgeVars, pool, meterVars, scene, ops>>

----------------------------------------------------------------------------
\* docker compose.

Stops == \/ Req.action \in {"down", "stop-connector"}
         \/ Req.action = "scale-connectors" /\ Req.connectors = 0

ComposeStops ==
  /\ panel.st = "started" /\ Req.api = "stack" /\ Stops
  /\ Finish("ran")
  /\ pool' = 0
  /\ edge' = IF Req.action = "down" /\ ~edge.local THEN Off ELSE edge
  /\ Watched
  /\ UNCHANGED <<certVars, caller, meterVars, scene, ops>>

\* depends_on: the certs service first, and to a successful end.
ComposeRunsCerts ==
  /\ panel.st = "started" /\ Req.api = "stack" /\ ~Stops
  /\ StartGen("compose")
  /\ panel' = [panel EXCEPT !.st = "certs"]
  /\ UNCHANGED <<edgeVars, pool, probe, meterVars, scene, ops>>

\* up leaves a running container alone unless its image was rebuilt or its
\* settings differ from the ones it runs with, which is up to the operator.
StartsEdge(recreate) ==
  Req.action = "restart-edge" \/ (Req.action = "up" /\ (edge = Off \/ recreate))
StartsConnector == Req.action # "restart-edge"

\* A command line the edge cannot parse ends it at once (edge.Main).
ComposeStarts ==
  /\ panel.st = "certs" /\ ~Running("compose")
  /\ ~edge.local /\ caller # "waiting"
  /\ \E recreate \in BOOLEAN :
       /\ IF StartsEdge(recreate) /\ Starts(Req) THEN EdgeStarts /\ NewContainer
          ELSE /\ edge' = IF StartsEdge(recreate) THEN Off ELSE edge
               /\ UNCHANGED <<caller, meterVars>>
       /\ IF StartsConnector THEN ConnectorStarts(recreate) ELSE UNCHANGED pool
  /\ Watched
  /\ Finish(IF Starts(Req) THEN "ran" ELSE "usage")
  /\ UNCHANGED <<certVars, scene, ops>>

\* A failed dependency ends the command.
GenFails(w) ==
  /\ Operation("cut")
  /\ CutOff(w)
  /\ IF w = "compose" THEN Finish("failed") ELSE UNCHANGED panel
  /\ UNCHANGED <<edgeVars, pool, probe, meterVars>>

GenMoves(w) == GenStep(w) /\ UNCHANGED <<edgeVars, pool, probe, meterVars, panel, scene, ops>>

----------------------------------------------------------------------------
\* The processes, and the operator.

EdgeMoves == EdgeStep /\ Watched /\ UNCHANGED <<certVars, pool, meterVars, panel, scene, ops>>

EdgeFaults ==
  /\ Operation("fault")
  /\ H3Fails \/ TcpFails \/ EdgeStops
  /\ Watched
  /\ UNCHANGED <<certVars, pool, meterVars, panel>>

\* The integration tests run the edge in their own process.
LocalMoves ==
  /\ \/ StartLocal /\ Operation("local")
     \/ LocalStep /\ UNCHANGED <<scene, ops>>
  /\ Watched
  /\ UNCHANGED <<certVars, pool, meterVars, panel>>

OperatorForces ==
  /\ Operation("force")
  /\ StartGen("operator")
  /\ UNCHANGED <<edgeVars, pool, probe, meterVars, panel>>

Containered == edge.pc # "off" /\ ~edge.local

MetersMove ==
  /\ "meter" \in scene /\ Containered
  /\ \/ edge.pc \in {"udp", "run"} /\ ~logger.on /\ LoggerStarts
     \/ edge.h3 = "up" /\ Datagram
     \/ edge.pc = "run" /\ \E ok \in BOOLEAN : LogTick(ok)
     \/ Poll
  /\ UNCHANGED <<certVars, edgeVars, pool, probe, panel, scene, ops>>

LabNext ==
  \/ \E q \in Requests : HandleRequest(q)
  \/ PanelProbes \/ ShellProbes \/ ProbeMoves
  \/ ComposeStops \/ ComposeRunsCerts \/ ComposeStarts
  \/ \E w \in Writers : GenFails(w) \/ GenMoves(w)
  \/ EdgeMoves \/ EdgeFaults \/ LocalMoves \/ OperatorForces \/ MetersMove

\* The goroutines of the edge run on; nothing is assumed of the rest.
LabSpec == LabInit /\ [][LabNext]_labVars /\ WF_labVars(EdgeMoves)

----------------------------------------------------------------------------

\* The fields of a request that the panel lets through and the command refuses:
\* the local CA for a probe, which has no -certs flag; a duration beyond the
\* flag package's range; an open loop without a rate; an impairment of the
\* origin, or with a value of the wrong unit or none.
Gap(q) ==
  CASE q.api = "run"    -> \/ q.tool = "probe" /\ q.localCerts
                           \/ q.tool = "blast" /\ "huge" \in {q.duration, q.warmup}
                           \/ q.tool = "blast" /\ q.mode = "open" /\ q.rps <= 0
    [] q.api = "impair" -> \/ q.service = "origin"
                           \/ q.a # UnitOf[q.mode]
                           \/ ~({q.b, q.burst} \subseteq {"", UnitOf[q.mode]})
    [] q.api = "stack"  -> q.env = "huge"

\* A request the panel accepts starts a command that gets past its own flags and
\* arguments, whatever else the request holds: the panel's checks and the tools'
\* differ in no other place than the ones above (planRun, buildImpairCommand,
\* stackCommand).
AcceptedIsRunnable == panel.exit = "usage" => Gap(panel.req)

\* An edge that was started ends up serving both protocols or not at all: a
\* listener that cannot be bound, or fails later, takes the process down (Start,
\* servePublic).  Only under StartLocal does the rest of it live on.
AllOrNothing == edge.pc # "off" ~> edge.pc \in {"off", "failed"} \/ Serving(edge)
=============================================================================
