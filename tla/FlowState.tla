----------------------------- MODULE FlowState ------------------------------
(***************************************************************************)
(* What the control panel derives from log lines (internal/ui/ui.go): the  *)
(* flowState behind the diagram and the per-source budget of displayed     *)
(* lines.  flowState's maps are kept as the sums of their values; latency  *)
(* samples are left out.                                                   *)
(***************************************************************************)
EXTENDS Integers, Sequences, FiniteSets

CONSTANTS
  LinesPerSecond,   \* linesPerSecond (120 in the code)
  MaxLines,         \* bound: lines logged in one behaviour
  MaxResets         \* bound: calls of handleReset in one behaviour

ASSUME FlowAssumption ==
  LinesPerSecond \in Nat \ {0} /\ MaxLines \in Nat /\ MaxResets \in Nat

Sources == {"edge", "blast", "ui"}

\* The lines with which ServeHTTP ends a request: those observeEdgeLine has a
\* case for ("origin timeout" is an "origin failure" whose status is 524), and
\* those it has none for.  A client that gave up leaves a Debug line, which the
\* edge's logger does not write.
KnownOutcomes   == {"proxied", "origin timeout", "origin failure", "no connector"}
UnknownOutcomes == {"open tunnel stream", "write tunnel request", "body copy interrupted"}

\* The lines the edge and blast write.  n is the number a regular expression
\* finds in the line, 0 if it finds none: "connector lost" has a "connectors"
\* field, "connector registered" does not.
EdgeLines ==
  [msg : KnownOutcomes \cup UnknownOutcomes \cup {"connector registered", "other"}, n : {0}]
  \cup [msg : {"connector lost"}, n : {0, 1}]
BlastLines ==
  [msg : {"conn_open", "conn_closed"}, n : {0}]
  \cup [msg : {"total", "conn drops"}, n : {1}]
UiText == [msg |-> "text", n |-> 0]
LinesOf == [edge |-> EdgeLines, blast |-> BlastLines, ui |-> {UiText}]

VARIABLES
  flow,      \* Server.flow
  rate,      \* Server.rate: the bucket of each source
  expired,   \* sources whose bucket's window is a second old
  lines,     \* history: lines logged
  resets,    \* history: calls of handleReset
  seen,      \* history: request lines of the edge since the last reset, those of
             \* an unknown outcome among them, and the requests published
  hidden,    \* history: lines of each source neither shown nor reported
  lastEdge   \* history: the last edge line since pollConnectors, "none" if none

vars == <<flow, rate, expired, lines, resets, seen, hidden, lastEdge>>

Totals    == {"edgeReq", "edge524", "edge502"}
Intervals == {"dReq", "d524", "d502", "connOpened", "connClosed"}
Counters  == Totals \cup Intervals \cup
             {"clientReq", "connectorReq", "connectorErr", "connOpenedTotal",
              "connClosedTotal", "connDropsTotal", "activeConns"}
Flow == [tunnelUp : BOOLEAN, tunnelKnown : BOOLEAN, connectors : Nat,
         count : [Counters -> Nat]]

Zeroes == [k \in Counters |-> 0]
NothingSeen == [requests |-> 0, unknown |-> 0, published |-> 0]

TypeOK ==
  /\ flow \in Flow
  /\ rate \in [Sources -> [count : Nat, suppressed : Nat]]
  /\ expired \subseteq Sources
  /\ lines \in 0..MaxLines /\ resets \in 0..MaxResets
  /\ seen \in [requests : Nat, unknown : Nat, published : Nat]
  /\ hidden \in [Sources -> Nat]
  /\ lastEdge \in {"none"} \cup {l.msg : l \in EdgeLines}

Init ==
  /\ flow = [tunnelUp |-> FALSE, tunnelKnown |-> FALSE, connectors |-> 0,
             count |-> Zeroes]
  /\ rate = [s \in Sources |-> [count |-> 0, suppressed |-> 0]]
  /\ expired = {}
  /\ lines = 0 /\ resets = 0
  /\ seen = NothingSeen
  /\ hidden = [s \in Sources |-> 0]
  /\ lastEdge = "none"

-----------------------------------------------------------------------------
(* observe.                                                                *)

Bumped(f, S) == [f EXCEPT !.count = [k \in Counters |-> IF k \in S THEN @[k] + 1 ELSE @[k]]]
Shown(f, up) == [f EXCEPT !.tunnelUp = up, !.tunnelKnown = TRUE]

Request == {"edgeReq", "dReq"}

ObserveEdgeProxied(f) == Shown(Bumped(f, Request \cup {"connectorReq"}), TRUE)

\* Only a 524 proves that the request reached the origin.
ObserveEdgeOriginFailure(f, timeout) ==
  IF timeout THEN Shown(Bumped(f, Request \cup {"edge524", "d524", "connectorErr"}), TRUE)
  ELSE Bumped(f, Request \cup {"edge502", "d502", "connectorErr"})

ObserveEdgeNoConnector(f) ==
  [Shown(Bumped(f, Request \cup {"edge502", "d502"}), FALSE) EXCEPT !.connectors = 0]

ObserveEdgeConnectorState(f, line) ==
  [Shown(f, line.n > 0) EXCEPT !.connectors = line.n]

ObserveEdgeLine(f, line) ==
  CASE line.msg = "proxied"        -> ObserveEdgeProxied(f)
    [] line.msg = "origin timeout" -> ObserveEdgeOriginFailure(f, TRUE)
    [] line.msg = "origin failure" -> ObserveEdgeOriginFailure(f, FALSE)
    [] line.msg = "no connector"   -> ObserveEdgeNoConnector(f)
    [] line.msg \in {"connector registered", "connector lost"}
                                   -> ObserveEdgeConnectorState(f, line)
    [] OTHER                       -> f

\* A connection that blast opened before a reset may close after it.
ClosedUnguarded(c) == c - 1
Closed(c) == IF c > 0 THEN c - 1 ELSE c

ObserveBlast(f, line) ==
  CASE line.msg = "conn_open"   -> Bumped(f, {"connOpened", "connOpenedTotal", "activeConns"})
    [] line.msg = "conn_closed" ->
         [Bumped(f, {"connClosed", "connClosedTotal", "connDropsTotal"})
            EXCEPT !.count.activeConns = Closed(@)]
    [] line.msg = "total"       -> [f EXCEPT !.count.clientReq = line.n]
    [] line.msg = "conn drops"  -> [f EXCEPT !.count.connDropsTotal = line.n]

Observe(f, src, line) ==
  CASE src = "edge"  -> ObserveEdgeLine(f, line)
    [] src = "blast" -> ObserveBlast(f, line)
    [] src = "ui"    -> f

-----------------------------------------------------------------------------
(* allow and log.                                                          *)

Renewed(src) ==
  IF src \in expired THEN [count |-> 0, suppressed |-> 0] ELSE rate[src]
Allowed(src) == Renewed(src).count < LinesPerSecond

\* The suppressed lines the note of a new window reports.
NotedForgets(src) == 0
Noted(src) == IF src \in expired THEN rate[src].suppressed ELSE 0

Charged(src) ==
  [count      |-> Renewed(src).count + 1,
   suppressed |-> Renewed(src).suppressed + (IF Allowed(src) THEN 0 ELSE 1)]

\* log: f is the flow it starts from.  The locks of observe, allow and publish
\* guard unrelated state, so that their order only matters within one call;
\* what publish does is in module ControlPanel.
LogAfterAllow(f, src, line) ==
  /\ lines < MaxLines /\ lines' = lines + 1
  /\ flow' = IF Allowed(src) THEN Observe(f, src, line) ELSE f
  /\ rate' = [rate EXCEPT ![src] = Charged(src)]
  /\ expired' = expired \ {src}
  /\ hidden' = [hidden EXCEPT ![src] = @ + (IF Allowed(src) THEN 0 ELSE 1) - Noted(src)]
  /\ lastEdge' = IF src = "edge" THEN line.msg ELSE lastEdge
Log(f, src, line) ==
  /\ lines < MaxLines /\ lines' = lines + 1
  /\ flow' = Observe(f, src, line)
  /\ rate' = [rate EXCEPT ![src] = Charged(src)]
  /\ expired' = expired \ {src}
  /\ hidden' = [hidden EXCEPT ![src] = @ + (IF Allowed(src) THEN 0 ELSE 1) - Noted(src)]
  /\ lastEdge' = IF src = "edge" THEN line.msg ELSE lastEdge

IsUnknown(src, line) == src = "edge" /\ line.msg \in UnknownOutcomes
IsRequest(src, line) == src = "edge" /\ line.msg \in KnownOutcomes \cup UnknownOutcomes

One(b) == IF b THEN 1 ELSE 0

\* One line of a container or of a run.
LogLine(src, line) ==
  /\ Log(flow, src, line)
  /\ seen' = [seen EXCEPT !.requests = @ + One(IsRequest(src, line)),
                          !.unknown  = @ + One(IsUnknown(src, line))]
  /\ UNCHANGED resets

-----------------------------------------------------------------------------

\* resetFlow leaves what is known of the tunnel and of the impairment alone.
ResetKeepsInterval(f) == [f EXCEPT !.count = [k \in Counters |->
                            IF k \in Intervals THEN @[k] ELSE 0]]
ResetFlow(f) == [f EXCEPT !.count = Zeroes]

HandleReset ==
  /\ resets < MaxResets /\ resets' = resets + 1
  /\ Log(ResetFlow(flow), "ui", UiText)
  /\ seen' = NothingSeen

\* publishFlow's critical section: the message is built and the interval ends.
PublishFlow ==
  /\ seen' = [seen EXCEPT !.published = @ + flow.count.dReq]
  /\ flow' = [flow EXCEPT !.count = [k \in Counters |->
                IF k \in Intervals THEN 0 ELSE @[k]]]
  /\ UNCHANGED <<rate, expired, lines, resets, hidden, lastEdge>>

PollConnectors ==
  /\ \E k \in {0, 1} : flow' = [Shown(flow, k > 0) EXCEPT !.connectors = k]
  /\ lastEdge' = "none"
  /\ UNCHANGED <<rate, expired, lines, resets, seen, hidden>>

\* A second passes since a bucket's window began.
WindowEnds(src) ==
  /\ src \notin expired /\ rate[src].count > 0
  /\ expired' = expired \cup {src}
  /\ UNCHANGED <<flow, rate, lines, resets, seen, hidden, lastEdge>>

-----------------------------------------------------------------------------

Next ==
  \/ \E src \in Sources : \E line \in LinesOf[src] : LogLine(src, line)
  \/ HandleReset \/ PublishFlow \/ PollConnectors
  \/ \E src \in Sources : WindowEnds(src)

Spec == Init /\ [][Next]_vars

-----------------------------------------------------------------------------
(* Properties.                                                             *)

\* The diagram's figures agree.  Every request line of the edge is counted once
\* as a request, except those of the three outcomes observeEdgeLine has no case
\* for (a stream that could not be opened, a request that could not be written,
\* a body cut short), which it never counts although flowState "stays accurate";
\* what publishFlow sent since the last reset, with the interval in progress, is
\* that total; and each counted request is a connector's answer, a 524 or a 502.
\* The rate limit hides lines but no count, and neither a reset nor a published
\* interval loses or doubles one (ui.go:115-116, 168-262, 427-480, 795-813).
KnownOutcomesCounted ==
  LET n == flow.count IN
  /\ n.edgeReq + seen.unknown = seen.requests
  /\ seen.published + n.dReq = n.edgeReq
  /\ n.edgeReq = n.connectorReq + n.edge524 + n.edge502
  /\ n.connectorErr <= n.edge524 + n.edge502

\* "The overflow is counted and reported": a line of a source was displayed, or
\* is part of a note, or is in the count of the bucket that the next note will
\* report.  A source that falls silent gets no next note, so the last of its
\* hidden lines stay unreported (ui.go:494-543).
SuppressedAreReported == \A s \in Sources : hidden[s] = rate[s].suppressed

\* flowState "stays accurate" (ui.go:115-116), "until traffic or a register/lost
\* line tells us" (ui.go:120): after the line of a connector that registered the
\* tunnel is shown up.
RegisteredShowsUp == lastEdge = "connector registered" => flow.tunnelUp
=============================================================================
