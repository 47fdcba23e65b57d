-------------------------- MODULE FlowStateProofs ---------------------------
(***************************************************************************)
(* The figures of the control panel's diagram add up, for any number of    *)
(* lines and resets and any display budget.                                *)
(***************************************************************************)
EXTENDS FlowState, TLAPS

\* The part of KnownOutcomesCounted that speaks of flowState alone.
Balanced(f) ==
  /\ f.count.edgeReq = f.count.connectorReq + f.count.edge524 + f.count.edge502
  /\ f.count.connectorErr <= f.count.edge524 + f.count.edge502

\* What one observed line may do to the two request counters.
CountsLine(f, g, k) ==
  /\ g.count.edgeReq = f.count.edgeReq + k
  /\ g.count.dReq = f.count.dReq + k

IsKnown(src, line) == src = "edge" /\ line.msg \in KnownOutcomes
Weight(src, line)  == One(IsKnown(src, line))

-----------------------------------------------------------------------------
(* flowState's operations.                                                 *)

\* Incrementing counters changes those counters by one and nothing else.
LEMMA BumpedFlow ==
  ASSUME NEW f \in Flow, NEW S \in SUBSET Counters
  PROVE  /\ Bumped(f, S) \in Flow
         /\ \A k \in Counters :
              Bumped(f, S).count[k] = f.count[k] + (IF k \in S THEN 1 ELSE 0)
<1> DEFINE c == [k \in Counters |-> IF k \in S THEN f.count[k] + 1 ELSE f.count[k]]
<1>1. f.count \in [Counters -> Nat]
  BY DEF Flow
<1>2. c \in [Counters -> Nat]
  BY <1>1
<1>3. Bumped(f, S) = [f EXCEPT !.count = c]
  BY DEF Bumped
<1> HIDE DEF c
<1>4. Bumped(f, S) \in Flow /\ Bumped(f, S).count = c
  BY <1>2, <1>3 DEF Flow
<1> QED BY <1>1, <1>4 DEF c

\* The counters one request line may increment: the two request counters, one
\* outcome, and the connector's errors only with an error of the edge.
RequestBumps == {Request \cup {"connectorReq"},
                 Request \cup {"edge524", "d524", "connectorErr"},
                 Request \cup {"edge502", "d502", "connectorErr"},
                 Request \cup {"edge502", "d502"}}

\* Such an increment counts one request and keeps the balance.
LEMMA RequestCounted ==
  ASSUME NEW f \in Flow, Balanced(f), NEW S \in RequestBumps
  PROVE  LET b == Bumped(f, S)
         IN  b \in Flow /\ Balanced(b) /\ CountsLine(f, b, 1)
<1> DEFINE b == Bumped(f, S)
<1>1. S \in SUBSET Counters
  BY DEF RequestBumps, Request, Counters, Totals, Intervals
<1>2. b \in Flow /\ \A k \in Counters : b.count[k] = f.count[k] + (IF k \in S THEN 1 ELSE 0)
  BY <1>1, BumpedFlow
<1>3. f.count \in [Counters -> Nat]
  BY DEF Flow
<1> HIDE DEF b
<1>4. Balanced(b) /\ CountsLine(f, b, 1)
  BY <1>2, <1>3 DEF Balanced, CountsLine, RequestBumps, Request, Counters, Totals, Intervals
<1> QED BY <1>2, <1>4 DEF b

\* observeEdgeLine counts a request line of a known outcome once, under that
\* outcome, and no other line (ui.go:193-276).
LEMMA ObserveEdge ==
  ASSUME NEW f \in Flow, Balanced(f), NEW line \in EdgeLines
  PROVE  LET g == ObserveEdgeLine(f, line)
         IN  g \in Flow /\ Balanced(g) /\ CountsLine(f, g, Weight("edge", line))
<1> DEFINE g == ObserveEdgeLine(f, line)
           Good == g \in Flow /\ Balanced(g) /\ CountsLine(f, g, Weight("edge", line))
<1> SUFFICES Good
  OBVIOUS
<1>1. line.n \in Nat
  <2>1. line.n \in {0} \/ line.n \in {0, 1}
    BY DEF EdgeLines
  <2> QED BY <2>1
<1>2. line.msg \in {"proxied", "origin timeout", "origin failure", "no connector",
                    "connector registered", "connector lost", "other"} \cup UnknownOutcomes
  BY DEF EdgeLines, KnownOutcomes
<1>3. f.count \in [Counters -> Nat]
  BY DEF Flow
<1>4. ASSUME NEW S \in RequestBumps, NEW up \in BOOLEAN, NEW n \in Nat,
             IsKnown("edge", line),
             \/ g = Bumped(f, S)
             \/ g = Shown(Bumped(f, S), up)
             \/ g = [Shown(Bumped(f, S), up) EXCEPT !.connectors = n]
      PROVE  Good
  <2> DEFINE b == Bumped(f, S)
  <2>1. b \in Flow /\ Balanced(b) /\ CountsLine(f, b, 1)
    BY RequestCounted
  <2> HIDE DEF b, g
  <2>2. g \in Flow /\ g.count = b.count
    BY <1>4, <2>1 DEF b, Shown, Flow
  <2> QED BY <1>4, <2>1, <2>2 DEF Balanced, CountsLine, Weight, One, g
<1>5. CASE line.msg = "proxied"
  BY <1>4, <1>5 DEF ObserveEdgeLine, ObserveEdgeProxied, RequestBumps, IsKnown, KnownOutcomes
<1>6. CASE line.msg = "origin timeout"
  BY <1>4, <1>6 DEF ObserveEdgeLine, ObserveEdgeOriginFailure, RequestBumps, IsKnown, KnownOutcomes
<1>7. CASE line.msg = "origin failure"
  BY <1>4, <1>7 DEF ObserveEdgeLine, ObserveEdgeOriginFailure, RequestBumps, IsKnown, KnownOutcomes
<1>8. CASE line.msg = "no connector"
  BY <1>4, <1>8 DEF ObserveEdgeLine, ObserveEdgeNoConnector, RequestBumps, IsKnown, KnownOutcomes
<1>9. CASE line.msg \in {"connector registered", "connector lost"}
  <2> DEFINE up == line.n > 0
             n  == line.n
  <2>1. g = [Shown(f, up) EXCEPT !.connectors = n]
    BY <1>9 DEF ObserveEdgeLine, ObserveEdgeConnectorState
  <2>2. up \in BOOLEAN /\ n \in Nat
    BY <1>1
  <2> HIDE DEF g, up, n
  <2>3. g \in Flow /\ g.count = f.count
    BY <2>1, <2>2 DEF Shown, Flow
  <2>4. Weight("edge", line) = 0
    BY <1>9 DEF Weight, One, IsKnown, KnownOutcomes
  <2>5. f.count.edgeReq \in Nat /\ f.count.dReq \in Nat
    BY <1>3 DEF Counters, Totals, Intervals
  <2> QED BY <2>3, <2>4, <2>5 DEF Balanced, CountsLine, g
<1>10. CASE line.msg \in {"other"} \cup UnknownOutcomes
  <2>1. g = f /\ Weight("edge", line) = 0
    BY <1>10 DEF ObserveEdgeLine, Weight, One, IsKnown, KnownOutcomes, UnknownOutcomes
  <2>2. f.count.edgeReq \in Nat /\ f.count.dReq \in Nat
    BY <1>3 DEF Counters, Totals, Intervals
  <2> HIDE DEF g
  <2> QED BY <2>1, <2>2 DEF CountsLine, g
<1> QED BY <1>2, <1>5, <1>6, <1>7, <1>8, <1>9, <1>10

\* A line of blast changes none of the request counters (ui.go:306-388).
LEMMA ObserveBlastLine ==
  ASSUME NEW f \in Flow, Balanced(f), NEW line \in BlastLines
  PROVE  LET g == ObserveBlast(f, line)
         IN  g \in Flow /\ Balanced(g) /\ CountsLine(f, g, 0)
<1> DEFINE g == ObserveBlast(f, line)
<1> SUFFICES g \in Flow /\ Balanced(g) /\ CountsLine(f, g, 0)
  OBVIOUS
<1>1. line.msg \in {"conn_open", "conn_closed", "total", "conn drops"}
  BY DEF BlastLines
<1>2. line.n \in Nat
  <2>1. line.n \in {0} \/ line.n \in {1}
    BY DEF BlastLines
  <2> QED BY <2>1
<1>3. f.count \in [Counters -> Nat]
  BY DEF Flow
<1> DEFINE Kept == {"edgeReq", "dReq", "connectorReq", "edge524", "edge502", "connectorErr"}
<1>4. Kept \subseteq Counters
  BY DEF Counters, Totals, Intervals
<1>5. ASSUME NEW b \in Flow, \A k \in Kept : b.count[k] = f.count[k],
             NEW k0 \in Counters \ Kept, NEW v \in Nat,
             g = b \/ g = [b EXCEPT !.count = [b.count EXCEPT ![k0] = v]]
      PROVE  g \in Flow /\ Balanced(g) /\ CountsLine(f, g, 0)
  <2> HIDE DEF g
  <2>1. b.count \in [Counters -> Nat]
    BY <1>5 DEF Flow
  <2> DEFINE c == [b.count EXCEPT ![k0] = v]
  <2>2. c \in [Counters -> Nat] /\ \A k \in Kept : c[k] = b.count[k]
    BY <1>4, <1>5, <2>1
  <2>3. g = b \/ g = [b EXCEPT !.count = c]
    BY <1>5
  <2> HIDE DEF c
  <2>4. g \in Flow /\ (g.count = b.count \/ g.count = c)
    BY <1>5, <2>2, <2>3 DEF Flow
  <2>5. \A k \in Kept : g.count[k] = f.count[k]
    BY <1>5, <2>2, <2>4
  <2>6. \A k \in Kept : f.count[k] \in Nat
    BY <1>3, <1>4
  <2> QED BY <2>4, <2>5, <2>6 DEF Balanced, CountsLine
<1>6. CASE line.msg = "conn_open"
  <2> DEFINE S == {"connOpened", "connOpenedTotal", "activeConns"}
  <2>1. S \in SUBSET Counters /\ S \cap Kept = {}
    BY DEF Counters, Totals, Intervals
  <2>2. Bumped(f, S) \in Flow /\ \A k \in Kept : Bumped(f, S).count[k] = f.count[k]
    BY <1>3, <1>4, <2>1, BumpedFlow
  <2>3. g = Bumped(f, S)
    BY <1>6 DEF ObserveBlast
  <2>4. "activeConns" \in Counters \ Kept
    BY DEF Counters
  <2> QED BY <1>5, <2>2, <2>3, <2>4
<1>7. CASE line.msg = "conn_closed"
  <2> DEFINE S == {"connClosed", "connClosedTotal", "connDropsTotal"}
             b == Bumped(f, S)
             v == Closed(b.count["activeConns"])
  <2>1. S \in SUBSET Counters /\ S \cap Kept = {}
    BY DEF Counters, Totals, Intervals
  <2>2. b \in Flow /\ \A k \in Kept : b.count[k] = f.count[k]
    BY <1>3, <1>4, <2>1, BumpedFlow
  <2>3. "activeConns" \in Counters \ Kept
    BY DEF Counters
  <2>4. b.count["activeConns"] \in Nat
    BY <2>2, <2>3 DEF Flow
  <2>5. v \in Nat
    BY <2>4 DEF Closed
  <2>6. g = [b EXCEPT !.count = [b.count EXCEPT !["activeConns"] = v]]
    BY <1>7, <2>2 DEF ObserveBlast, Flow
  <2> QED BY <1>5, <2>2, <2>3, <2>5, <2>6
<1>8. CASE line.msg = "total"
  <2>1. "clientReq" \in Counters \ Kept
    BY DEF Counters
  <2>2. g = [f EXCEPT !.count = [f.count EXCEPT !["clientReq"] = line.n]]
    BY <1>8 DEF ObserveBlast, Flow
  <2> QED BY <1>2, <1>5, <2>1, <2>2
<1>9. CASE line.msg = "conn drops"
  <2>1. "connDropsTotal" \in Counters \ Kept
    BY DEF Counters
  <2>2. g = [f EXCEPT !.count = [f.count EXCEPT !["connDropsTotal"] = line.n]]
    BY <1>9 DEF ObserveBlast, Flow
  <2> QED BY <1>2, <1>5, <2>1, <2>2
<1> QED BY <1>1, <1>6, <1>7, <1>8, <1>9

\* observe counts exactly the request lines of the known outcomes (ui.go:168-191).
LEMMA ObserveCounts ==
  ASSUME NEW f \in Flow, Balanced(f), NEW src \in Sources, NEW line \in LinesOf[src]
  PROVE  LET g == Observe(f, src, line)
         IN  g \in Flow /\ Balanced(g) /\ CountsLine(f, g, Weight(src, line))
<1>1. CASE src = "edge"
  BY <1>1, ObserveEdge DEF Observe, LinesOf
<1>2. CASE src = "blast"
  <2>1. Weight(src, line) = 0
    BY <1>2 DEF Weight, One, IsKnown
  <2> QED BY <1>2, <2>1, ObserveBlastLine DEF Observe, LinesOf
<1>3. CASE src = "ui"
  <2>1. Weight(src, line) = 0 /\ Observe(f, src, line) = f
    BY <1>3 DEF Weight, One, IsKnown, Observe
  <2>2. f.count.edgeReq \in Nat /\ f.count.dReq \in Nat
    BY DEF Flow, Counters, Totals, Intervals
  <2> QED BY <2>1, <2>2 DEF CountsLine
<1> QED BY <1>1, <1>2, <1>3 DEF Sources

-----------------------------------------------------------------------------
(* The invariant.                                                          *)

\* KnownOutcomesCounted is inductive only together with the types: the counters
\* are naturals and so may be added and compared.  SuppressedAreReported is what
\* makes hidden a natural.
IInv == TypeOK /\ KnownOutcomesCounted /\ SuppressedAreReported

\* allow, then the note: what log hides is what the bucket will report
\* (ui.go:505-543).
LEMMA AllowReports ==
  ASSUME TypeOK, SuppressedAreReported, NEW src \in Sources,
         rate' = [rate EXCEPT ![src] = Charged(src)],
         hidden' = [hidden EXCEPT ![src] = @ + (IF Allowed(src) THEN 0 ELSE 1) - Noted(src)]
  PROVE  /\ rate' \in [Sources -> [count : Nat, suppressed : Nat]]
         /\ hidden' \in [Sources -> Nat]
         /\ SuppressedAreReported'
<1> DEFINE k == IF Allowed(src) THEN 0 ELSE 1
<1>1. rate[src] \in [count : Nat, suppressed : Nat] /\ hidden[src] = rate[src].suppressed
  BY DEF TypeOK, SuppressedAreReported
<1>2. k \in Nat
  OBVIOUS
<1> HIDE DEF k
<1>3. Renewed(src).count \in Nat /\ Renewed(src).suppressed \in Nat
  BY <1>1 DEF Renewed
<1>4. /\ Charged(src) \in [count : Nat, suppressed : Nat]
      /\ Charged(src).suppressed = Renewed(src).suppressed + k
  BY <1>2, <1>3 DEF Charged, k
<1>5. hidden[src] + k - Noted(src) = Renewed(src).suppressed + k
  BY <1>1, <1>2 DEF Noted, Renewed
<1>6. hidden' = [hidden EXCEPT ![src] = Charged(src).suppressed]
  BY <1>4, <1>5 DEF k
<1>7. Charged(src).suppressed \in Nat
  BY <1>4
<1> HIDE DEF Charged
<1> QED BY <1>4, <1>6, <1>7 DEF TypeOK, SuppressedAreReported

\* log, from any flowState f that adds up, keeps everything but seen
\* (ui.go:530-543).
LEMMA LogKeeps ==
  ASSUME TypeOK, SuppressedAreReported, NEW f \in Flow, Balanced(f),
         NEW src \in Sources, NEW line \in LinesOf[src], Log(f, src, line)
  PROVE  /\ flow' \in Flow /\ Balanced(flow') /\ CountsLine(f, flow', Weight(src, line))
         /\ rate' \in [Sources -> [count : Nat, suppressed : Nat]]
         /\ hidden' \in [Sources -> Nat] /\ SuppressedAreReported'
         /\ expired' \subseteq Sources /\ lines' \in 0..MaxLines
         /\ lastEdge' \in {"none"} \cup {l.msg : l \in EdgeLines}
<1>1. flow' \in Flow /\ Balanced(flow') /\ CountsLine(f, flow', Weight(src, line))
  <2>1. flow' = Observe(f, src, line)
    BY DEF Log
  <2> QED BY <2>1, ObserveCounts
<1>2. /\ rate' = [rate EXCEPT ![src] = Charged(src)]
      /\ hidden' = [hidden EXCEPT ![src] = @ + (IF Allowed(src) THEN 0 ELSE 1) - Noted(src)]
  BY DEF Log
<1>3. /\ rate' \in [Sources -> [count : Nat, suppressed : Nat]]
      /\ hidden' \in [Sources -> Nat] /\ SuppressedAreReported'
  BY <1>2, AllowReports
<1>4. expired' \subseteq Sources
  BY DEF Log, TypeOK
<1>5. lines' \in 0..MaxLines
  BY FlowAssumption DEF Log, TypeOK
<1>6. lastEdge' \in {"none"} \cup {l.msg : l \in EdgeLines}
  <2>1. CASE src = "edge"
    <3>1. line \in EdgeLines /\ lastEdge' = line.msg
      BY <2>1 DEF Log, LinesOf
    <3> QED BY <3>1
  <2>2. CASE src # "edge"
    BY <2>2 DEF Log, TypeOK
  <2> QED BY <2>1, <2>2
<1> QED BY <1>1, <1>3, <1>4, <1>5, <1>6

\* The initial state satisfies the invariant.
LEMMA InitInv == Init => IInv
<1> SUFFICES ASSUME Init PROVE IInv
  OBVIOUS
<1>1. Zeroes \in [Counters -> Nat] /\ \A k \in Counters : Zeroes[k] = 0
  BY DEF Zeroes
<1>2. flow \in Flow /\ flow.count = Zeroes
  BY <1>1 DEF Init, Flow
<1>3. KnownOutcomesCounted
  BY <1>1, <1>2 DEF Init, NothingSeen, KnownOutcomesCounted, Counters, Totals, Intervals
<1>4. TypeOK
  BY <1>2, FlowAssumption DEF Init, NothingSeen, TypeOK
<1>5. SuppressedAreReported
  BY DEF Init, SuppressedAreReported
<1> QED BY <1>3, <1>4, <1>5 DEF IInv

\* One line, a reset, a published interval, a poll or the end of a window: each
\* keeps the figures in step (ui.go:427-480, 505-543, 654-672, 789-813).
LEMMA StepInv ==
  ASSUME IInv, [Next]_vars
  PROVE  IInv'
<1> USE DEF IInv
<1>1. flow \in Flow /\ flow.count \in [Counters -> Nat] /\ Balanced(flow)
  BY DEF TypeOK, Flow, KnownOutcomesCounted, Balanced
<1>2. seen.requests \in Nat /\ seen.unknown \in Nat /\ seen.published \in Nat
      /\ seen \in [requests : Nat, unknown : Nat, published : Nat]
  BY DEF TypeOK
<1>3. {"edgeReq", "dReq", "connectorReq", "edge524", "edge502", "connectorErr"} \subseteq Counters
  BY DEF Counters, Totals, Intervals
<1>4. ASSUME NEW src \in Sources, NEW line \in LinesOf[src], LogLine(src, line)
      PROVE  IInv'
  <2>1. /\ flow' \in Flow /\ Balanced(flow') /\ CountsLine(flow, flow', Weight(src, line))
        /\ rate' \in [Sources -> [count : Nat, suppressed : Nat]]
        /\ hidden' \in [Sources -> Nat] /\ SuppressedAreReported'
        /\ expired' \subseteq Sources /\ lines' \in 0..MaxLines
        /\ lastEdge' \in {"none"} \cup {l.msg : l \in EdgeLines}
    BY <1>1, <1>4, LogKeeps DEF LogLine
  <2> DEFINE u == One(IsUnknown(src, line))
             q == One(IsRequest(src, line))
  <2>0. u \in Nat /\ Weight(src, line) \in Nat /\ q = Weight(src, line) + u
    <3>1. ~(IsKnown(src, line) /\ IsUnknown(src, line))
      BY DEF IsKnown, IsUnknown, KnownOutcomes, UnknownOutcomes
    <3>2. IsRequest(src, line) <=> (IsKnown(src, line) \/ IsUnknown(src, line))
      BY DEF IsRequest, IsKnown, IsUnknown
    <3>3. CASE IsKnown(src, line)
      BY <3>1, <3>2, <3>3 DEF One, Weight
    <3>4. CASE IsUnknown(src, line)
      BY <3>1, <3>2, <3>4 DEF One, Weight
    <3>5. CASE ~IsKnown(src, line) /\ ~IsUnknown(src, line)
      BY <3>2, <3>5 DEF One, Weight
    <3> QED BY <3>3, <3>4, <3>5
  <2>2. /\ seen' \in [requests : Nat, unknown : Nat, published : Nat]
        /\ seen'.requests = seen.requests + (Weight(src, line) + u)
        /\ seen'.unknown = seen.unknown + u
        /\ seen'.published = seen.published
    <3>1. seen' = [seen EXCEPT !.requests = @ + q, !.unknown = @ + u]
      BY <1>4 DEF LogLine
    <3> HIDE DEF q, u
    <3>2. seen.requests + q \in Nat /\ seen.unknown + u \in Nat
      BY <1>2, <2>0
    <3>3. seen' = [requests |-> seen.requests + q, unknown |-> seen.unknown + u,
                   published |-> seen.published]
      BY <1>2, <3>1
    <3> QED BY <1>2, <2>0, <3>2, <3>3
  <2>3. resets' \in 0..MaxResets
    BY <1>4 DEF LogLine, TypeOK
  <2> HIDE DEF u, q
  <2>4. flow.count.dReq \in Nat /\ flow.count.edgeReq \in Nat /\ Weight(src, line) \in Nat
    BY <1>1, <1>3, <2>0
  <2>5. flow'.count.edgeReq + seen'.unknown = seen'.requests
    <3>1. flow.count.edgeReq + seen.unknown = seen.requests
      BY DEF KnownOutcomesCounted
    <3>2. flow'.count.edgeReq = flow.count.edgeReq + Weight(src, line)
      BY <2>1 DEF CountsLine
    <3> QED BY <1>2, <2>0, <2>2, <2>4, <3>1, <3>2
  <2>6. seen'.published + flow'.count.dReq = flow'.count.edgeReq
    <3>1. seen.published + flow.count.dReq = flow.count.edgeReq
      BY DEF KnownOutcomesCounted
    <3>2. /\ flow'.count.edgeReq = flow.count.edgeReq + Weight(src, line)
          /\ flow'.count.dReq = flow.count.dReq + Weight(src, line)
      BY <2>1 DEF CountsLine
    <3> QED BY <1>2, <2>2, <2>4, <3>1, <3>2
  <2>7. KnownOutcomesCounted'
    BY <2>1, <2>5, <2>6 DEF KnownOutcomesCounted, Balanced
  <2> QED BY <2>1, <2>2, <2>3, <2>7 DEF TypeOK
<1>5. ASSUME HandleReset PROVE IInv'
  <2> DEFINE f == ResetFlow(flow)
  <2>1. Zeroes \in [Counters -> Nat] /\ \A k \in Counters : Zeroes[k] = 0
    BY DEF Zeroes
  <2>2. f \in Flow /\ f.count = Zeroes
    BY <1>1, <2>1 DEF ResetFlow, Flow
  <2>3. Balanced(f) /\ f.count.edgeReq = 0 /\ f.count.dReq = 0
    BY <1>3, <2>1, <2>2 DEF Balanced
  <2>4. "ui" \in Sources /\ UiText \in LinesOf["ui"] /\ Weight("ui", UiText) = 0
    BY DEF Sources, LinesOf, Weight, One, IsKnown
  <2>5. Log(f, "ui", UiText)
    BY <1>5 DEF HandleReset
  <2> HIDE DEF f
  <2>6. /\ flow' \in Flow /\ Balanced(flow') /\ CountsLine(f, flow', Weight("ui", UiText))
        /\ rate' \in [Sources -> [count : Nat, suppressed : Nat]]
        /\ hidden' \in [Sources -> Nat] /\ SuppressedAreReported'
        /\ expired' \subseteq Sources /\ lines' \in 0..MaxLines
        /\ lastEdge' \in {"none"} \cup {l.msg : l \in EdgeLines}
    BY <2>2, <2>3, <2>4, <2>5, LogKeeps
  <2>7. seen' = [requests |-> 0, unknown |-> 0, published |-> 0]
    BY <1>5 DEF HandleReset, NothingSeen
  <2>8. resets' \in 0..MaxResets
    BY <1>5, FlowAssumption DEF HandleReset, TypeOK
  <2>9. KnownOutcomesCounted'
    BY <2>3, <2>4, <2>6, <2>7 DEF KnownOutcomesCounted, Balanced, CountsLine
  <2> QED BY <2>6, <2>7, <2>8, <2>9 DEF TypeOK
<1>6. ASSUME PublishFlow PROVE IInv'
  <2> DEFINE c == [k \in Counters |-> IF k \in Intervals THEN 0 ELSE flow.count[k]]
  <2>1. c \in [Counters -> Nat]
    BY <1>1
  <2>2. flow' = [flow EXCEPT !.count = c]
    BY <1>6 DEF PublishFlow
  <2>3. /\ c["dReq"] = 0
        /\ \A k \in {"edgeReq", "connectorReq", "edge524", "edge502", "connectorErr"} :
             c[k] = flow.count[k]
    BY <1>3 DEF Intervals
  <2> HIDE DEF c
  <2>4. flow' \in Flow /\ flow'.count = c
    BY <1>1, <2>1, <2>2 DEF Flow
  <2>5. flow.count.dReq \in Nat
    BY <1>1, <1>3
  <2>6. /\ seen' \in [requests : Nat, unknown : Nat, published : Nat]
        /\ seen'.requests = seen.requests /\ seen'.unknown = seen.unknown
        /\ seen'.published = seen.published + flow.count.dReq
    BY <1>2, <1>6, <2>5 DEF PublishFlow
  <2>7. seen'.published + flow'.count.dReq = flow'.count.edgeReq
    <3>1. seen.published + flow.count.dReq = flow.count.edgeReq
      BY DEF KnownOutcomesCounted
    <3>2. flow'.count.edgeReq = flow.count.edgeReq /\ flow'.count.dReq = 0
      BY <2>3, <2>4
    <3> QED BY <1>2, <2>5, <2>6, <3>1, <3>2
  <2>8. Balanced(flow') /\ flow'.count.edgeReq = flow.count.edgeReq
    BY <1>1, <2>3, <2>4 DEF Balanced
  <2>9. KnownOutcomesCounted'
    BY <2>6, <2>7, <2>8 DEF KnownOutcomesCounted, Balanced
  <2> QED BY <1>6, <2>4, <2>6, <2>9 DEF PublishFlow, TypeOK, SuppressedAreReported
<1>7. ASSUME PollConnectors PROVE IInv'
  <2>1. PICK n \in {0, 1} : flow' = [Shown(flow, n > 0) EXCEPT !.connectors = n]
    BY <1>7 DEF PollConnectors
  <2> DEFINE up == n > 0
  <2>2. up \in BOOLEAN /\ n \in Nat /\ flow' = [Shown(flow, up) EXCEPT !.connectors = n]
    BY <2>1
  <2> HIDE DEF up
  <2>3. flow' \in Flow /\ flow'.count = flow.count
    BY <1>1, <2>2 DEF Shown, Flow
  <2>4. KnownOutcomesCounted'
    BY <1>7, <2>3 DEF PollConnectors, KnownOutcomesCounted
  <2> QED BY <1>7, <2>3, <2>4 DEF PollConnectors, TypeOK, SuppressedAreReported
<1>8. ASSUME NEW src \in Sources, WindowEnds(src) PROVE IInv'
  BY <1>8 DEF WindowEnds, TypeOK, KnownOutcomesCounted, SuppressedAreReported
<1>9. CASE UNCHANGED vars
  BY <1>9 DEF vars, TypeOK, KnownOutcomesCounted, SuppressedAreReported
<1> QED BY <1>4, <1>5, <1>6, <1>7, <1>8, <1>9 DEF Next

\* Every counter and bucket of the panel keeps its type; the active connections
\* never go below zero (ui.go:117-148, 355-357).
THEOREM FlowTypeCorrect == Spec => []TypeOK
<1>1. IInv /\ [Next]_vars => IInv'
  BY StepInv
<1>2. IInv => TypeOK
  BY DEF IInv
<1> QED BY InitInv, <1>1, <1>2, PTL DEF Spec

\* The diagram counts every request line of an outcome it knows once, in one
\* interval and under one outcome, whatever the display hides and whenever it is
\* published or reset; it counts none of the lines of edge.go:461, 474 and 511
\* (ui.go:168-262, 427-480, 795-813).
THEOREM DiagramAddsUp == Spec => []KnownOutcomesCounted
<1>1. IInv /\ [Next]_vars => IInv'
  BY StepInv
<1>2. IInv => KnownOutcomesCounted
  BY DEF IInv
<1> QED BY InitInv, <1>1, <1>2, PTL DEF Spec

\* "The overflow is counted and reported" (ui.go:494-496): every hidden line is
\* in the count that the next note of its source reports.
THEOREM OverflowReported == Spec => []SuppressedAreReported
<1>1. IInv /\ [Next]_vars => IInv'
  BY StepInv
<1>2. IInv => SuppressedAreReported
  BY DEF IInv
<1> QED BY InitInv, <1>1, <1>2, PTL DEF Spec
=============================================================================
