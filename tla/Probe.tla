------------------------------- MODULE Probe --------------------------------
(***************************************************************************)
(* The probe tool against the edge (internal/probe): a TLS dial over TCP,  *)
(* a request over TCP that looks for Alt-Svc, a request over HTTP/3, and,  *)
(* when that fails, one to a control endpoint, with the verdict drawn from *)
(* the four.  The edge may start, fail and stop between them.              *)
(*                                                                         *)
(* The DNS step is printed and otherwise unused.  The lab's CA is in no    *)
(* system trust store, so a probe of the edge needs -insecure.             *)
(***************************************************************************)
EXTENDS EdgeProcess

VARIABLE probe

\* blocked, known: UDP does not leave the probe's host; the control endpoint is
\* up.  asked: -control is not empty.  steady: history, the edge has served both
\* protocols since the probe began and no answer came later than -timeout.
NoProbe == [pc |-> "none", insecure |-> FALSE, asked |-> FALSE, blocked |-> FALSE,
            known |-> FALSE, tcp |-> FALSE, alt |-> FALSE, h3 |-> FALSE,
            verdict |-> "none", steady |-> FALSE]

Serving(e) == e.h3 = "up" /\ e.tcp = "up"

ProbeStarts(insecure, asked, blocked, known) ==
  probe' = [NoProbe EXCEPT !.pc = "tcp", !.insecure = insecure, !.asked = asked,
                           !.blocked = blocked, !.known = known, !.steady = Serving(edge)]

\* verdict: the cases of its switch, in their order.
VerdictTcpFirst(tcpOK, h3OK, altSvc, controlTested, controlOK) ==
  IF h3OK THEN "works"
  ELSE IF ~tcpOK THEN "unreachable"
  ELSE IF controlTested /\ ~controlOK THEN "blocked here"
  ELSE IF ~altSvc THEN "not enabled" ELSE "path"
VerdictOf(tcpOK, h3OK, altSvc, controlTested, controlOK) ==
  IF h3OK THEN "works"
  ELSE IF controlTested /\ ~controlOK THEN "blocked here"
  ELSE IF ~tcpOK THEN "unreachable"
  ELSE IF ~altSvc THEN "not enabled" ELSE "path"

\* probeTCP: the dial.
ProbeDial(late) ==
  /\ probe.pc = "tcp"
  /\ LET ok == edge.tcp = "up" /\ probe.insecure /\ ~late IN
     probe' = [probe EXCEPT !.tcp = ok, !.pc = IF ok THEN "http" ELSE "h3",
                            !.steady = @ /\ ~late]

\* ... and the request.  SetQUICHeaders adds Alt-Svc once HTTP/3 is served.
ProbeHTTP(late) ==
  /\ probe.pc = "http"
  /\ LET ok == edge.tcp = "up" /\ ~late IN
     probe' = [probe EXCEPT !.tcp = ok, !.alt = ok /\ edge.h3 = "up", !.pc = "h3",
                            !.steady = @ /\ ~late]

Ended(h3, tested, control) ==
  [probe EXCEPT !.pc = "done", !.h3 = h3,
                !.verdict = VerdictOf(probe.tcp, h3, probe.alt, tested, control)]

\* probeH3 of the target; the control is asked only when it fails.
ProbeH3(late) ==
  /\ probe.pc = "h3"
  /\ LET ok == edge.h3 = "up" /\ probe.insecure /\ ~probe.blocked /\ ~late IN
     probe' = [IF probe.asked /\ ~ok THEN [probe EXCEPT !.pc = "control"]
                                     ELSE Ended(ok, FALSE, TRUE)
               EXCEPT !.steady = @ /\ ~late]

ProbeControl(late) ==
  /\ probe.pc = "control"
  /\ probe' = [Ended(FALSE, TRUE, probe.known /\ ~probe.blocked /\ ~late)
               EXCEPT !.steady = @ /\ ~late]

ProbeStep == \E late \in BOOLEAN :
  ProbeDial(late) \/ ProbeHTTP(late) \/ ProbeH3(late) \/ ProbeControl(late)

\* What a probe of an edge that serves all along may conclude.
TrueVerdict ==
  IF probe.insecure /\ ~probe.blocked THEN "works"
  ELSE IF probe.asked /\ (probe.blocked \/ ~probe.known) THEN "blocked here"
  ELSE IF probe.insecure THEN "path" ELSE "unreachable"

----------------------------------------------------------------------------

\* The verdict on an edge that serves throughout follows from the probe's own
\* side alone: in particular it is never "not enabled", which the edge earns
\* only while it starts or stops, and "path" (whose text says that the control
\* succeeded) is printed only when no control was asked (verdict).
SteadyVerdict == probe.pc = "done" /\ probe.steady => probe.verdict = TrueVerdict
=============================================================================
