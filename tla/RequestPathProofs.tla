------------------------- MODULE RequestPathProofs --------------------------
(***************************************************************************)
(* Proofs about RequestPath, for every set of requests, whatever they ask  *)
(* for and whatever the limit on streams.                                  *)
(*                                                                         *)
(* The invariants of the runs are about what ServeHTTP reported.  They are *)
(* inductive together with four facts that tie the two ends of a stream    *)
(* together: Linked, CtxTellsWhy, RespTellsWhy and HalfEnded.              *)
(***************************************************************************)
EXTENDS RequestPath, TLAPS

\* A stream exists before anything is written to it, and serveStream only runs
\* on a stream that brought bytes.
Linked ==
  \A r \in Reqs :
    /\ pc[r] \in {"write", "read", "copy", "stalled"} => r \in opened
    /\ req[r] # "none" => r \in opened
    /\ sp[r] # "none" => req[r] # "none"

\* ctx.Err() names the event that ended ctx.
CtxTellsWhy ==
  \A r \in Reqs :
    /\ ctxErr[r] = "nil" => clk[r] = 0
    /\ ctxErr[r] = "canceled" => Gone(r)
    /\ ctxErr[r] = "deadline" => clk[r] > 0

\* What the response half holds is what the origin call did: a reset means a
\* broken origin or patience that ended, and a whole response a complete one.
\* A serveStream that gives up leaves no empty response: by then nothing it
\* writes arrives.
RespTellsWhy ==
  \A r \in Reqs :
    /\ resp[r] # "empty"
    /\ resp[r] = "reset" => At(r).abort \/ PatienceEnds(r)
    /\ resp[r] = "whole" => sp[r] = "done" /\ org[r] = "complete" /\ At(r).whole

\* A serveStream that returned ended the response half, while the connection
\* can tell the edge.
HalfEnded ==
  \A r \in Reqs : sp[r] = "done" /\ cend = "open" /\ ~lost => SendHalfEnded(r)

\* The response that was proxied stays what it was.
ProxiedIsOver ==
  \A r \in Reqs : out[r] = "proxied" => sp[r] = "done" /\ org[r] = "complete" /\ At(r).whole

\* The types of the variables with the links between the two ends.
Typed == TypeOK /\ Linked

\* What is reported agrees with what happened.
Reported ==
  /\ CtxTellsWhy /\ RespTellsWhy /\ HalfEnded
  /\ TimeoutMeansTime /\ BadGatewayMeansBroken /\ ProxiedIsOver

IndInv == Typed /\ Reported

-----------------------------------------------------------------------------
(* Types.                                                                  *)

\* Init establishes the types and the links.
LEMMA InitTyped == Init => Typed
<1> SUFFICES ASSUME Init PROVE Typed
  OBVIOUS
<1>1. \A r \in Reqs : ask[r] \in Asks[r]
  BY DEF Init
<1>2. sent \subseteq Reqs
  BY DEF Init
<1>3. /\ pc \in [Reqs -> {"new", "open", "write", "read", "copy", "stalled", "done"}]
      /\ out \in [Reqs -> Outcomes]
      /\ clk \in [Reqs -> 0..2]
      /\ ctxErr \in [Reqs -> {"nil", "canceled", "deadline"}]
  BY DEF Init, Outcomes
<1>4. /\ req \in [Reqs -> {"none", "some", "all"}]
      /\ resp \in [Reqs -> {"none", "head", "whole", "short", "empty", "reset"}]
      /\ sp \in [Reqs -> {"none", "readreq", "origin", "respond", "done"}]
      /\ org \in [Reqs -> {"none", "asked", "headed", "complete", "failed", "left"}]
  BY DEF Init
<1>5. left = {} /\ opened = {} /\ stop = {} /\ eof = {} /\ busy = {}
  BY DEF Init
<1>6. con = "serve" /\ cend = "open" /\ tun = "up" /\ lost = FALSE
  BY DEF Init
<1>7. Linked
  BY DEF Init, Linked
<1> QED
  BY <1>1, <1>2, <1>3, <1>4, <1>5, <1>6, <1>7 DEF Typed, TypeOK

\* Whatever ServeHTTP reports when it returns, the types and links survive.
LEMMA ReturnTyped ==
  ASSUME Typed, NEW r \in Reqs, NEW o \in Outcomes, Return(r, o)
  PROVE  Typed'
<1>1. /\ pc' = [pc EXCEPT ![r] = "done"] /\ out' = [out EXCEPT ![r] = o]
      /\ stop' = stop \/ (r \in opened /\ stop' = stop \cup {r})
  BY DEF Return
<1>2. UNCHANGED <<sent, left, clk, ctxErr, opened, req, resp, connVars, tunVars>>
  BY DEF Return
<1>3. pc' \in [Reqs -> {"new", "open", "write", "read", "copy", "stalled", "done"}]
  BY <1>1 DEF Typed, TypeOK
<1>4. out' \in [Reqs -> Outcomes] /\ stop' \subseteq opened
  BY <1>1 DEF Typed, TypeOK
<1>5. TypeOK'
  BY <1>2, <1>3, <1>4 DEF Typed, TypeOK, connVars, tunVars
<1>6. \A q \in Reqs : pc'[q] = pc[q] \/ pc'[q] = "done"
  BY <1>1 DEF Typed, TypeOK
<1>7. Linked'
  BY <1>2, <1>6 DEF Typed, Linked, connVars, tunVars
<1> QED
  BY <1>5, <1>7 DEF Typed

\* The steps of ServeHTTP keep the types and the links.
LEMMA EdgeTyped ==
  ASSUME Typed, NEW r \in Reqs,
         PickNone(r) \/ Pick(r) \/ EdgeStep(r) \/ CopyEnds(r) \/ WriteSome(r) \/ WriteFails(r)
  PROVE  Typed'
<1>1. CASE PickNone(r)
  BY <1>1, ReturnTyped DEF PickNone, Outcomes
<1>2. CASE Pick(r)
  BY <1>2 DEF Pick, Step, Typed, TypeOK, Linked, streamVars, connVars, tunVars
<1>3. CASE OpenStream(r)
  BY <1>3 DEF OpenStream, Step, Typed, TypeOK, Linked, streamVars, connVars, tunVars
<1>4. CASE OpenStreamFails(r)
  BY <1>4, ReturnTyped DEF OpenStreamFails, Outcomes
<1>5. CASE WriteAll(r)
  BY <1>5 DEF WriteAll, Step, Typed, TypeOK, Linked, connVars, tunVars
<1>6. CASE ReadHead(r)
  BY <1>6 DEF ReadHead, Step, Typed, TypeOK, Linked, streamVars, connVars, tunVars
<1>7. CASE ReadFails(r)
  BY <1>7, ReturnTyped DEF ReadFails, ClassifyOriginFailure, Outcomes
<1>8. CASE CopyDone(r)
  BY <1>8, ReturnTyped DEF CopyDone, Outcomes
<1>9. CASE CopyFails(r)
  BY <1>9, ReturnTyped DEF CopyFails, Outcomes
<1>10. CASE WriteSome(r)
  BY <1>10 DEF WriteSome, Typed, TypeOK, Linked, edgeVars, connVars, tunVars
<1>11. CASE WriteFails(r)
  BY <1>11, ReturnTyped DEF WriteFails, Outcomes
<1> QED
  BY <1>1, <1>2, <1>3, <1>4, <1>5, <1>6, <1>7, <1>8, <1>9, <1>10, <1>11 DEF EdgeStep, CopyEnds

\* So do the client and the clock.
LEMMA ClientTyped ==
  ASSUME Typed, NEW r \in Reqs,
         ClientSends(r) \/ ClientLeaves(r) \/ ClientStalls(r) \/ DeadlinePasses(r)
  PROVE  Typed'
<1>1. CASE ClientSends(r)
  BY <1>1 DEF ClientSends, Typed, TypeOK, Linked, streamVars, connVars, tunVars
<1>2. CASE ClientLeaves(r)
  BY <1>2 DEF ClientLeaves, CtxEnds, Typed, TypeOK, Linked, streamVars, connVars, tunVars
<1>3. CASE DeadlinePasses(r)
  <2>1. clk' \in [Reqs -> 0..2]
    BY <1>3 DEF DeadlinePasses, Typed, TypeOK
  <2>2. ctxErr' \in [Reqs -> {"nil", "canceled", "deadline"}]
    BY <1>3 DEF DeadlinePasses, CtxEnds, Typed, TypeOK
  <2> QED
    BY <2>1, <2>2, <1>3 DEF DeadlinePasses, Typed, TypeOK, Linked, streamVars, connVars, tunVars
<1>4. CASE ClientStalls(r)
  BY <1>4 DEF ClientStalls, Step, Typed, TypeOK, Linked, streamVars, connVars, tunVars
<1> QED
  BY <1>1, <1>2, <1>3, <1>4

\* A return of serveStream that reports what the call can end with keeps them.
LEMMA LeaveTyped ==
  ASSUME Typed, NEW r \in Reqs, sp[r] # "none",
         NEW what \in {"head", "whole", "short", "empty", "reset"},
         NEW o \in {"none", "asked", "headed", "complete", "failed", "left"},
         Leave(r, what, o), UNCHANGED eof, ConnectorOnly
  PROVE  Typed'
  BY DEF Leave, Write, ConnectorOnly, connectorOnly, Typed, TypeOK, Linked, edgeVars, tunVars

\* The steps of serveStream and of the origin keep them.
LEMMA ConnectorTyped ==
  ASSUME Typed, NEW r \in Reqs,
         \/ ConnectorStep(r) \/ ReadRequest(r) \/ BadTarget(r) \/ OriginAnswers(r)
         \/ OriginFails(r) \/ RespondDone(r) \/ RespondShort(r) \/ HandlerReturns(r)
  PROVE  Typed'
<1> USE DEF ConnectorOnly, connectorOnly, edgeVars, tunVars
<1>1. CASE Accept(r)
  BY <1>1 DEF Accept, Typed, TypeOK, Linked
<1>2. CASE ReadRequestFails(r)
  BY <1>2, LeaveTyped DEF ReadRequestFails, Typed, TypeOK
<1>3. CASE OriginAbandoned(r)
  BY <1>3, LeaveTyped DEF OriginAbandoned
<1>4. CASE RespondAbandoned(r)
  BY <1>4, LeaveTyped DEF RespondAbandoned
<1>5. CASE ReadRequest(r)
  BY <1>5 DEF ReadRequest, Typed, TypeOK, Linked
<1>6. CASE BadTarget(r)
  BY <1>6, LeaveTyped DEF BadTarget
<1>7. CASE OriginAnswers(r)
  BY <1>7 DEF OriginAnswers, Write, Typed, TypeOK, Linked
<1>8. CASE OriginFails(r)
  BY <1>8, LeaveTyped DEF OriginFails
<1>9. CASE RespondDone(r)
  BY <1>9, LeaveTyped DEF RespondDone
<1>10. CASE RespondShort(r)
  BY <1>10, LeaveTyped DEF RespondShort
<1>11. CASE HandlerReturns(r)
  BY <1>11 DEF HandlerReturns, Typed, TypeOK, Linked, streamVars
<1> QED
  BY <1>1, <1>2, <1>3, <1>4, <1>5, <1>6, <1>7, <1>8, <1>9, <1>10, <1>11 DEF ConnectorStep

\* The steps of runOnce and of the connection.
TunnelActs == Drain \/ DrainEnds \/ DrainTimesOut \/ PathLost \/ TunnelStep

\* They touch no request, and keep the types and the links.
LEMMA TunnelTyped ==
  ASSUME Typed, TunnelActs
  PROVE  Typed'
<1>1. TunnelOnly
  BY DEF TunnelActs, Drain, DrainEnds, DrainTimesOut, PathLost, TunnelStep, EdgeSeesClose,
         EdgeIdles, ConnectorIdles
<1>2. /\ con' \in {"serve", "drain", "gone"} /\ cend' \in {"open", "closed"}
      /\ tun' \in {"up", "app", "idle"} /\ lost' \in BOOLEAN
  BY DEF TunnelActs, Drain, DrainEnds, DrainTimesOut, PathLost, TunnelStep, EdgeSeesClose,
         EdgeIdles, ConnectorIdles, Typed, TypeOK
<1>3. TypeOK'
  BY <1>1, <1>2 DEF TunnelOnly, Typed, TypeOK, edgeVars, streamVars, connVars
<1>4. Linked'
  BY <1>1 DEF TunnelOnly, Typed, Linked, edgeVars, streamVars, connVars
<1> QED
  BY <1>3, <1>4 DEF Typed

\* Every step is one of the edge, the client, the connector or the tunnel.
LEMMA StepCases ==
  ASSUME Next
  PROVE  \/ \E r \in Reqs : PickNone(r) \/ Pick(r) \/ EdgeStep(r) \/ CopyEnds(r) \/ WriteSome(r) \/ WriteFails(r)
         \/ \E r \in Reqs : ClientSends(r) \/ ClientLeaves(r) \/ ClientStalls(r) \/ DeadlinePasses(r)
         \/ \E r \in Reqs :
              \/ ConnectorStep(r) \/ ReadRequest(r) \/ BadTarget(r) \/ OriginAnswers(r)
              \/ OriginFails(r) \/ RespondDone(r) \/ RespondShort(r) \/ HandlerReturns(r)
         \/ TunnelActs
  BY DEF Next, TunnelActs

\* Every step keeps the types and the links.
LEMMA NextTyped == Typed /\ [Next]_vars => Typed'
<1> SUFFICES ASSUME Typed, [Next]_vars PROVE Typed'
  OBVIOUS
<1>1. CASE Next
  BY <1>1, StepCases, EdgeTyped, ClientTyped, ConnectorTyped, TunnelTyped
<1>2. CASE UNCHANGED vars
  BY <1>2 DEF vars, edgeVars, streamVars, connVars, tunVars, Typed, TypeOK, Linked
<1> QED
  BY <1>1, <1>2

\* The types hold: in particular only a stream that was opened is stopped or
\* read to its end (edge.go:453-520, connector.go:165-312).
THEOREM RequestTypeCorrect == Spec => []TypeOK
<1>1. Typed => TypeOK
  BY DEF Typed
<1> QED
  BY <1>1, InitTyped, NextTyped, PTL DEF Spec

-----------------------------------------------------------------------------
(* What is reported.                                                       *)

\* Before anything happened nothing is reported.
LEMMA InitReported == Init => Reported
<1> SUFFICES ASSUME Init PROVE Reported
  OBVIOUS
<1>1. \A r \in Reqs : /\ out[r] = "none" /\ clk[r] = 0 /\ ctxErr[r] = "nil"
                       /\ resp[r] = "none" /\ sp[r] = "none"
  BY DEF Init
<1> QED
  BY <1>1 DEF Reported, CtxTellsWhy, RespTellsWhy, HalfEnded, TimeoutMeansTime,
              BadGatewayMeansBroken, ProxiedIsOver

\* ServeHTTP may return with an outcome that is justified when it does.
Justified(r, o) ==
  /\ o = "524" => clk[r] > 0 \/ tun = "idle"
  /\ o = "1033 open" => clk[r] > 0 \/ tun # "up"
  /\ o = "1033 write" => clk[r] > 0 \/ tun # "up" \/ Gone(r)
  /\ o = "1014" => At(r).abort \/ ShortPatience \/ tun # "up"
  /\ o = "proxied" => sp[r] = "done" /\ org[r] = "complete" /\ At(r).whole

\* A justified outcome keeps every report right.
LEMMA ReturnReported ==
  ASSUME Typed, Reported, NEW r \in Reqs, NEW o \in Outcomes, Return(r, o), Justified(r, o)
  PROVE  Reported'
<1> USE DEF Return, connVars, tunVars
<1>1. CtxTellsWhy' /\ RespTellsWhy' /\ HalfEnded'
  BY DEF Reported, CtxTellsWhy, RespTellsWhy, HalfEnded, Gone, At, PatienceEnds, SendHalfEnded
<1>2. TimeoutMeansTime'
  BY ZenonT(30) DEF Reported, Typed, TypeOK, TimeoutMeansTime, Justified, Gone
<1>3. BadGatewayMeansBroken'
  BY ZenonT(30) DEF Reported, Typed, TypeOK, BadGatewayMeansBroken, Justified, At
<1>4. ProxiedIsOver'
  BY ZenonT(30) DEF Reported, Typed, TypeOK, ProxiedIsOver, Justified, At
<1> QED
  BY <1>1, <1>2, <1>3, <1>4 DEF Reported

\* A step that changes no more than how far ServeHTTP and the request half are
\* reports nothing.
LEMMA QuietReported ==
  ASSUME Reported,
         UNCHANGED <<out, left, clk, ctxErr, resp, sp, org, ask, cend, tun, lost, stop>>
  PROVE  Reported'
  BY DEF Reported, CtxTellsWhy, RespTellsWhy, HalfEnded, TimeoutMeansTime,
         BadGatewayMeansBroken, ProxiedIsOver, Gone, At, PatienceEnds, SendHalfEnded

\* Every error the read can meet is classified for a reason: a reset that is not
\* the origin's own comes of patience that ended with the deadline.
LEMMA ReadFailsJustified ==
  ASSUME Typed, Reported, NEW r \in Reqs, NEW e \in ReadErrors(r), ~Gone(r)
  PROVE  Justified(r, ClassifyOriginFailure(r, e))
<1>1. CASE ctxErr[r] = "deadline" \/ IsTimeout(e)
  <2>1. clk[r] \in 0..2 /\ (clk[r] = 2 => clk[r] > 0)
    BY DEF Typed, TypeOK
  <2>2. clk[r] > 0 \/ tun = "idle"
    <3>1. CASE ctxErr[r] = "deadline"
      BY <3>1 DEF Reported, CtxTellsWhy
    <3>2. CASE IsTimeout(e)
      BY <3>2, <2>1 DEF IsTimeout, ReadErrors
    <3> QED
      BY <1>1, <3>1, <3>2
  <2> QED
    BY <1>1, <2>2 DEF ClassifyOriginFailure, Justified
<1>2. CASE ~(ctxErr[r] = "deadline" \/ IsTimeout(e))
  <2>1. clk[r] = 0
    BY <1>2 DEF Reported, CtxTellsWhy, Typed, TypeOK
  <2>2. tun = "app" \/ resp[r] = "reset"
    BY <1>2 DEF IsTimeout, ReadErrors, Reported, RespTellsWhy
  <2> QED
    BY <1>2, <2>1, <2>2
    DEF ClassifyOriginFailure, Justified, Reported, RespTellsWhy, PatienceEnds
<1> QED
  BY <1>1, <1>2

\* The steps of ServeHTTP report what happened.
LEMMA EdgeReported ==
  ASSUME Typed, Reported, NEW r \in Reqs,
         PickNone(r) \/ Pick(r) \/ EdgeStep(r) \/ CopyEnds(r) \/ WriteSome(r) \/ WriteFails(r)
  PROVE  Reported'
<1>1. CASE PickNone(r)
  BY <1>1, ReturnReported DEF PickNone, Outcomes, Justified
<1>2. CASE Pick(r) \/ OpenStream(r) \/ WriteAll(r) \/ ReadHead(r) \/ WriteSome(r)
  BY <1>2, QuietReported
  DEF Pick, OpenStream, WriteAll, ReadHead, WriteSome, edgeVars, streamVars, connVars, tunVars
<1>3. CASE OpenStreamFails(r)
  <2>1. Justified(r, IF Gone(r) THEN "gone" ELSE "1033 open")
    BY <1>3 DEF OpenStreamFails, Justified, Reported, CtxTellsWhy, Typed, TypeOK
  <2> QED
    BY <2>1, <1>3, ReturnReported DEF OpenStreamFails, Outcomes
<1>4. CASE ReadFails(r)
  <2>1. PICK e \in ReadErrors(r) :
          Return(r, IF Gone(r) THEN "gone" ELSE ClassifyOriginFailure(r, e))
    BY <1>4 DEF ReadFails
  <2>2. Justified(r, IF Gone(r) THEN "gone" ELSE ClassifyOriginFailure(r, e))
    BY ReadFailsJustified DEF Justified
  <2>3. (IF Gone(r) THEN "gone" ELSE ClassifyOriginFailure(r, e)) \in Outcomes
    BY DEF ClassifyOriginFailure, Outcomes
  <2> QED
    BY <2>1, <2>2, <2>3, ReturnReported
<1>5. CASE CopyDone(r)
  BY <1>5, ReturnReported DEF CopyDone, Outcomes, Justified, Reported, RespTellsWhy
<1>6. CASE CopyFails(r)
  BY <1>6, ReturnReported DEF CopyFails, Outcomes, Justified
<1>7. CASE WriteFails(r)
  <2>1. clk[r] = 2 => clk[r] > 0
    BY DEF Typed, TypeOK
  <2>2. Justified(r, "1033 write")
    BY <1>7, <2>1 DEF WriteFails, Justified
  <2> QED
    BY <2>2, <1>7, ReturnReported DEF WriteFails, Outcomes
<1> QED
  BY <1>1, <1>2, <1>3, <1>4, <1>5, <1>6, <1>7 DEF EdgeStep, CopyEnds

\* The client and the clock add reasons and take none away.
LEMMA ClientReported ==
  ASSUME Typed, Reported, NEW r \in Reqs,
         ClientSends(r) \/ ClientLeaves(r) \/ ClientStalls(r) \/ DeadlinePasses(r)
  PROVE  Reported'
<1> USE DEF streamVars, connVars, tunVars
<1>1. CASE ClientSends(r) \/ ClientStalls(r)
  BY <1>1, QuietReported DEF ClientSends, ClientStalls
<1>2. CASE ClientLeaves(r)
  <2>1. CtxTellsWhy'
    BY <1>2 DEF ClientLeaves, CtxEnds, Reported, CtxTellsWhy, Gone, Typed, TypeOK
  <2>2. RespTellsWhy' /\ HalfEnded' /\ TimeoutMeansTime' /\ BadGatewayMeansBroken'
          /\ ProxiedIsOver'
    BY <1>2 DEF ClientLeaves, Reported, RespTellsWhy, HalfEnded, TimeoutMeansTime,
                BadGatewayMeansBroken, ProxiedIsOver, Gone, At, PatienceEnds, SendHalfEnded
  <2> QED
    BY <2>1, <2>2 DEF Reported
<1>3. CASE DeadlinePasses(r)
  <2>1. /\ clk' \in [Reqs -> 0..2] /\ clk'[r] > 0
        /\ \A q \in Reqs : (clk[q] = 2 => clk'[q] = 2) /\ (clk[q] > 0 => clk'[q] > 0)
    BY <1>3 DEF DeadlinePasses, Typed, TypeOK
  <2>2. CtxTellsWhy'
    BY <1>3, <2>1 DEF DeadlinePasses, CtxEnds, Reported, CtxTellsWhy, Gone, Typed, TypeOK
  <2>3. RespTellsWhy' /\ HalfEnded' /\ BadGatewayMeansBroken' /\ ProxiedIsOver'
    BY <1>3, <2>1 DEF DeadlinePasses, Reported, RespTellsWhy, HalfEnded,
                      BadGatewayMeansBroken, ProxiedIsOver, At, PatienceEnds, SendHalfEnded
  <2>4. TimeoutMeansTime'
    BY <1>3, <2>1 DEF DeadlinePasses, Reported, TimeoutMeansTime, Gone
  <2> QED
    BY <2>2, <2>3, <2>4 DEF Reported
<1> QED
  BY <1>1, <1>2, <1>3

\* serveStream may return with an end that is justified when it does.
LeaveJustified(r, what, o) ==
  /\ what \in {"whole", "short", "empty", "reset"}
  /\ what = "empty" => r \in stop \/ cend = "closed" \/ lost
  /\ what = "reset" => At(r).abort \/ PatienceEnds(r)
  /\ what = "whole" => o = "complete" /\ At(r).whole

\* A justified end of serveStream keeps every report right.
LEMMA LeaveReported ==
  ASSUME Typed, Reported, NEW r \in Reqs, sp[r] # "done",
         NEW what, NEW o, LeaveJustified(r, what, o),
         Leave(r, what, o), ConnectorOnly
  PROVE  Reported'
<1> USE DEF Leave, ConnectorOnly, connectorOnly, edgeVars, tunVars
<1>1. CtxTellsWhy' /\ TimeoutMeansTime' /\ BadGatewayMeansBroken'
  BY DEF Reported, CtxTellsWhy, TimeoutMeansTime, BadGatewayMeansBroken, Gone, At
<1>2. RespTellsWhy'
  BY DEF Write, LeaveJustified, Reported, RespTellsWhy, Typed, TypeOK, At, PatienceEnds
<1>3. HalfEnded'
  BY DEF Write, LeaveJustified, Reported, HalfEnded, Typed, TypeOK, SendHalfEnded
<1>4. ProxiedIsOver'
  BY DEF Reported, ProxiedIsOver, Typed, TypeOK, At
<1> QED
  BY <1>1, <1>2, <1>3, <1>4 DEF Reported

\* The steps of serveStream and of the origin keep every report right.
LEMMA ConnectorReported ==
  ASSUME Typed, Reported, NEW r \in Reqs,
         \/ ConnectorStep(r) \/ ReadRequest(r) \/ BadTarget(r) \/ OriginAnswers(r)
         \/ OriginFails(r) \/ RespondDone(r) \/ RespondShort(r) \/ HandlerReturns(r)
  PROVE  Reported'
<1>1. CASE Accept(r) \/ ReadRequest(r)
  <2>1. UNCHANGED <<out, left, clk, ctxErr, resp, ask, cend, tun, lost, stop>>
    BY <1>1 DEF Accept, ReadRequest, ConnectorOnly, connectorOnly, edgeVars, tunVars
  <2>2. \A q \in Reqs : (sp'[q] = sp[q] /\ org'[q] = org[q]) \/ (sp[q] # "done" /\ sp'[q] # "done")
    BY <1>1 DEF Accept, ReadRequest, Typed, TypeOK
  <2> QED
    BY <2>1, <2>2 DEF Reported, CtxTellsWhy, RespTellsWhy, HalfEnded, TimeoutMeansTime,
         BadGatewayMeansBroken, ProxiedIsOver, Gone, At, PatienceEnds, SendHalfEnded
<1>2. CASE ReadRequestFails(r)
  <2>1. LeaveJustified(r, "empty", org[r])
    BY <1>2 DEF ReadRequestFails, LeaveJustified
  <2> QED
    BY <1>2, <2>1, LeaveReported DEF ReadRequestFails
<1>3. CASE OriginAbandoned(r)
  <2>1. LeaveJustified(r, "empty", "left")
    BY <1>3 DEF OriginAbandoned, LeaveJustified, ReqCtxDone
  <2> QED
    BY <1>3, <2>1, LeaveReported DEF OriginAbandoned
<1>4. CASE RespondAbandoned(r)
  BY <1>4, LeaveReported DEF RespondAbandoned, LeaveJustified
<1>5. CASE BadTarget(r)
  <2>1. At(r).whole
    BY <1>5 DEF BadTarget, At, Handler, Plain
  <2> QED
    BY <1>5, <2>1, LeaveReported DEF BadTarget, LeaveJustified
<1>6. CASE OriginAnswers(r)
  <2>1. UNCHANGED <<out, left, clk, ctxErr, ask, cend, tun, lost, stop>>
    BY <1>6 DEF OriginAnswers, ConnectorOnly, connectorOnly, edgeVars, tunVars
  <2>2. /\ sp[r] # "done" /\ sp'[r] # "done" /\ resp'[r] \in {resp[r], "head"}
        /\ \A q \in Reqs \ {r} : sp'[q] = sp[q] /\ org'[q] = org[q] /\ resp'[q] = resp[q]
    BY <1>6 DEF OriginAnswers, Write, Typed, TypeOK
  <2>3. CtxTellsWhy' /\ TimeoutMeansTime' /\ BadGatewayMeansBroken'
    BY <2>1 DEF Reported, CtxTellsWhy, TimeoutMeansTime, BadGatewayMeansBroken, Gone, At
  <2>4. RespTellsWhy'
    BY <2>1, <2>2 DEF Reported, RespTellsWhy, At, PatienceEnds
  <2>5. HalfEnded' /\ ProxiedIsOver'
    BY <2>1, <2>2 DEF Reported, HalfEnded, ProxiedIsOver, At, SendHalfEnded
  <2> QED
    BY <2>3, <2>4, <2>5 DEF Reported
<1>7. CASE OriginFails(r)
  <2>1. LeaveJustified(r, IF ReqCtxDone(r) THEN "empty" ELSE "reset", "failed")
    BY <1>7 DEF OriginFails, LeaveJustified, ReqCtxDone
  <2> QED
    BY <1>7, <2>1, LeaveReported DEF OriginFails
<1>8. CASE RespondDone(r)
  BY <1>8, LeaveReported DEF RespondDone, LeaveJustified
<1>9. CASE RespondShort(r)
  BY <1>9, LeaveReported DEF RespondShort, LeaveJustified
<1>10. CASE HandlerReturns(r)
  BY <1>10, QuietReported DEF HandlerReturns, edgeVars, streamVars, tunVars
<1> QED
  BY <1>1, <1>2, <1>3, <1>4, <1>5, <1>6, <1>7, <1>8, <1>9, <1>10 DEF ConnectorStep

\* The connection only ever closes and the path is only ever lost: what was
\* blamed on the tunnel stays its fault.
LEMMA TunnelReported ==
  ASSUME Typed, Reported, TunnelActs
  PROVE  Reported'
<1>1. /\ UNCHANGED <<out, left, clk, ctxErr, resp, sp, org, ask, stop>>
      /\ cend = "closed" => cend' = "closed"
      /\ lost => lost'
      /\ tun # "up" => tun' = tun
  BY DEF TunnelActs, Drain, DrainEnds, DrainTimesOut, PathLost, TunnelStep, EdgeSeesClose,
         EdgeIdles, ConnectorIdles, TunnelOnly, edgeVars, streamVars, connVars
<1>2. cend' = "open" /\ ~lost' => cend = "open" /\ ~lost
  BY <1>1 DEF Typed, TypeOK
<1> QED
  BY <1>1, <1>2 DEF Reported, CtxTellsWhy, RespTellsWhy, HalfEnded, TimeoutMeansTime,
       BadGatewayMeansBroken, ProxiedIsOver, Gone, At, PatienceEnds, SendHalfEnded

\* Every step keeps every report right.
LEMMA NextIndInv == IndInv /\ [Next]_vars => IndInv'
<1> SUFFICES ASSUME Typed, Reported, [Next]_vars PROVE Typed' /\ Reported'
  BY DEF IndInv
<1>1. CASE Next
  BY <1>1, StepCases, EdgeReported, ClientReported, ConnectorReported, TunnelReported, NextTyped
<1>2. CASE UNCHANGED vars
  BY <1>2, NextTyped, QuietReported DEF vars, edgeVars, streamVars, connVars, tunVars
<1> QED
  BY <1>1, <1>2

\* The invariant the three theorems on reports share.
LEMMA ReportsAgree == Spec => []IndInv
<1>1. Init => IndInv
  BY InitTyped, InitReported DEF IndInv
<1> QED
  BY <1>1, NextIndInv, PTL DEF Spec

\* A 524, and a 1033 for a connector that had been picked, mean that time ran
\* out, the tunnel died or, for the write, the client left (edge.go:453-503).
THEOREM TimeoutsAreTimeouts == Spec => []TimeoutMeansTime
<1>1. IndInv => TimeoutMeansTime
  BY DEF IndInv, Reported
<1> QED
  BY <1>1, ReportsAgree, PTL

\* A 1014 means a dropping endpoint, a connector with the shorter patience or a
\* tunnel that went (edge.go:480-503, connector.go:281-299).
THEOREM BadGatewaysAreBroken == Spec => []BadGatewayMeansBroken
<1>1. IndInv => BadGatewayMeansBroken
  BY DEF IndInv, Reported
<1> QED
  BY <1>1, ReportsAgree, PTL

\* A response that is logged as proxied is the whole answer of the origin
\* (edge.go:504-515).
THEOREM ProxiedResponsesAreWhole == Spec => []ProxiedIsWhole
<1>1. IndInv => ProxiedIsWhole
  BY DEF IndInv, Reported, ProxiedIsOver, ProxiedIsWhole
<1> QED
  BY <1>1, ReportsAgree, PTL

\* Whatever way serveStream returns, it ends its half of the stream
\* (connector.go:262-312).
THEOREM HandlersEndStreams == Spec => []HandlerEndsStream
<1>1. IndInv => HandlerEndsStream
  BY DEF IndInv, Reported, HalfEnded, HandlerEndsStream, HoldsSlot
<1> QED
  BY <1>1, ReportsAgree, PTL
=============================================================================
