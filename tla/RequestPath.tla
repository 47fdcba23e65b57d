---------------------------- MODULE RequestPath -----------------------------
(***************************************************************************)
(* One tunnel connection carrying requests: Edge.ServeHTTP                 *)
(* (internal/edge/edge.go), the drain of runOnce and serveStream           *)
(* (internal/connector/connector.go), between a client that may leave,     *)
(* upload slowly or stop reading and the handlers of the test origin       *)
(* (internal/origin/handlers.go), one of which every request asks for.     *)
(*                                                                         *)
(* A request owns one bidirectional QUIC stream.  QUIC, net/http and the   *)
(* client are external.                                                    *)
(***************************************************************************)
EXTENDS Naturals, FiniteSets

CONSTANTS
  Reqs,         \* requests in flight
  Asks,         \* for each of them, the endpoints it may ask for, with a body or not
  MayStall,     \* bound: the requests whose client may stop reading
  MaxStreams,   \* streams the connector lets the edge keep open
  ShortPatience \* the connector's -origin-timeout is below the edge's

-----------------------------------------------------------------------------
(* The origin's handlers.  head: it may answer; whole: and finish the      *)
(* answer; abort: it may break the connection before the head; cut: and    *)
(* after it; reads: it answers only once it has the whole body.  ends:     *)
(* what ends the handler's goroutine.                                      *)

Plain == [head |-> TRUE, whole |-> TRUE, abort |-> FALSE, cut |-> FALSE,
          reads |-> FALSE, ends |-> "itself"]
\* Waits for its context only.
Silent == [Plain EXCEPT !.head = FALSE, !.whole = FALSE, !.ends = "context"]
\* make and Repeat panic on a negative size, WriteHeader on a code that is no
\* status: net/http then drops the connection.
Panicking == [Plain EXCEPT !.abort = TRUE]
Dropped == [Plain EXCEPT !.head = FALSE, !.whole = FALSE, !.abort = TRUE]
AfterBody == [Plain EXCEPT !.reads = TRUE]
\* Nothing reads a hijacked connection, so its context never ends.
Held == [Silent EXCEPT !.ends = "never"]
Truncated == [Plain EXCEPT !.whole = FALSE, !.cut = TRUE]

\* newMux: fast is also /healthz, /slow, /bytes, /flaky and /headers-then-hang,
\* status also /drip and /headers, echo also /stall.  An origin that is down
\* refuses the connection; star is a target that is no URL ("*").
Handler == [fast |-> Plain, hang |-> Silent, status |-> Panicking, reset |-> Dropped,
            echo |-> AfterBody, acceptHang |-> Held, closeAfterHeaders |-> Truncated,
            down |-> Dropped, star |-> Plain]

ASSUME RequestAssumption ==
  /\ Asks \in [Reqs -> SUBSET [at : DOMAIN Handler, body : BOOLEAN]]
  /\ MayStall \subseteq Reqs
  /\ MaxStreams \in Nat
  /\ ShortPatience \in BOOLEAN

VARIABLES
  pc,      \* ServeHTTP: "new", "open", "write", "read", "copy", "done"; "stalled"
           \* is "copy" to a client that has stopped reading for good
  out,     \* what ServeHTTP logged and sent
  sent,    \* requests whose client has sent everything
  left,    \* requests whose client is gone
  clk,     \* 0; 1: the ctx deadline passed; 2: the stream deadline too
  ctxErr,  \* ctx.Err(): "nil", "canceled" or "deadline", whichever came first
  opened,  \* requests whose stream was opened
  req,     \* request half: "none", "some" bytes or "all" with FIN
  resp,    \* response half: "none", "head", "whole", "short", "empty", "reset"
  stop,    \* requests whose response half got STOP_SENDING
  sp,      \* serveStream: "none", "readreq", "origin", "respond", "done"
  eof,     \* requests whose end the connector has read
  org,     \* origin call: "none", "asked", "headed", "complete", "failed", "left"
  ask,     \* what each request asks for
  busy,    \* requests whose handler is in the origin until its client leaves
  con,     \* runOnce: "serve", "drain" or "gone"
  cend,    \* the connector's end of the connection: "open" or "closed"
  tun,     \* the edge's end: "up", or closed by "app" or "idle" timeout
  lost     \* the path between the ends delivers nothing any more

edgeVars   == <<pc, out, sent, left, clk, ctxErr, opened>>
streamVars == <<req, resp, stop>>
connVars   == <<sp, eof, org, ask, busy>>
tunVars    == <<con, cend, tun, lost>>
vars == <<edgeVars, streamVars, connVars, tunVars>>

Gone(r) == r \in left      \* clientGone
At(r) == Handler[ask[r].at]
Bodied == {r \in Reqs : ask[r].body}

-----------------------------------------------------------------------------
(* Stream credit.  The connector grants a new stream when both halves of   *)
(* an old one ended for it: it read the end of the request, and the        *)
(* response half finished, was reset, or was stopped by the edge.          *)

SendHalfEnded(r) == resp[r] \in {"whole", "short", "empty", "reset"} \/ r \in stop
HoldsSlot(r) == r \in opened /\ ~(r \in eof /\ SendHalfEnded(r))
SlotFree == Cardinality({r \in Reqs : HoldsSlot(r)}) < MaxStreams

-----------------------------------------------------------------------------
(* ServeHTTP.                                                              *)

ReturnStopsAnyway(r, o) ==
  /\ pc' = [pc EXCEPT ![r] = "done"]
  /\ out' = [out EXCEPT ![r] = o]
  /\ stop' = stop \cup {r}
  /\ UNCHANGED <<sent, left, clk, ctxErr, opened, req, resp, connVars, tunVars>>

ReturnNeverStops(r, o) ==
  /\ pc' = [pc EXCEPT ![r] = "done"]
  /\ out' = [out EXCEPT ![r] = o]
  /\ UNCHANGED <<sent, left, clk, ctxErr, opened, req, resp, stop, connVars, tunVars>>

\* The handler returns: deferred CancelRead on the stream, then cancel().
Return(r, o) ==
  /\ pc' = [pc EXCEPT ![r] = "done"]
  /\ out' = [out EXCEPT ![r] = o]
  /\ stop' = IF r \in opened /\ ~lost /\ tun = "up" /\ o # "proxied"
             THEN stop \cup {r} ELSE stop
  /\ UNCHANGED <<sent, left, clk, ctxErr, opened, req, resp, connVars, tunVars>>

Step(r, to) == pc' = [pc EXCEPT ![r] = to]

\* pickConnector: the choice itself is in module EdgeRegistry.
PickNone(r) ==
  /\ pc[r] = "new"
  /\ Return(r, "1033 no connector")

Pick(r) ==
  /\ pc[r] = "new"
  /\ Step(r, "open")
  /\ UNCHANGED <<out, sent, left, clk, ctxErr, opened, streamVars, connVars, tunVars>>

OpenStream(r) ==
  /\ pc[r] = "open" /\ ctxErr[r] = "nil" /\ tun = "up" /\ SlotFree
  /\ Step(r, "write")
  /\ opened' = opened \cup {r}
  /\ UNCHANGED <<out, sent, left, clk, ctxErr, streamVars, connVars, tunVars>>

OpenStreamFails(r) ==
  /\ pc[r] = "open"
  /\ ctxErr[r] # "nil" \/ tun # "up"
  /\ Return(r, IF Gone(r) THEN "gone" ELSE "1033 open")

\* outbound.Write flushes a first part before the body is all there.
WriteSome(r) ==
  /\ pc[r] = "write" /\ req[r] = "none" /\ r \in Bodied
  /\ tun = "up" /\ clk[r] < 2 /\ ~lost
  /\ req' = [req EXCEPT ![r] = "some"]
  /\ UNCHANGED <<edgeVars, resp, stop, connVars, tunVars>>

\* outbound.Write returned nil, str.Close ends the request half.
WriteAll(r) ==
  /\ pc[r] = "write" /\ r \in sent
  /\ tun = "up" /\ clk[r] < 2
  /\ Step(r, "read")
  /\ req' = IF lost THEN req ELSE [req EXCEPT ![r] = "all"]
  /\ UNCHANGED <<out, sent, left, clk, ctxErr, opened, resp, stop, connVars, tunVars>>

\* The write to the stream fails, or the read of the client's body.
WriteFails(r) ==
  /\ pc[r] = "write"
  /\ tun # "up" \/ clk[r] = 2 \/ (Gone(r) /\ r \in Bodied)
  /\ Return(r, "1033 write")

\* ReadResponse sees the stream, not ctx: only the stream deadline stops it.
ReadHead(r) ==
  /\ pc[r] = "read" /\ resp[r] \in {"head", "whole", "short"}
  /\ tun = "up" /\ clk[r] < 2
  /\ Step(r, "copy")
  /\ UNCHANGED <<out, sent, left, clk, ctxErr, opened, streamVars, connVars, tunVars>>

ReadErrors(r) == {e \in {"stream deadline", "idle timeout", "app close", "reset", "eof"} :
  \/ e = "stream deadline" /\ clk[r] = 2
  \/ e = "idle timeout" /\ tun = "idle"
  \/ e = "app close" /\ tun = "app"
  \/ e = "reset" /\ resp[r] = "reset" /\ tun = "up"
  \/ e = "eof" /\ resp[r] = "empty" /\ tun = "up"}

\* net.Error.Timeout(): also true of quic.IdleTimeoutError.
IsTimeout(e) == e \in {"stream deadline", "idle timeout"}

ClassifyResetAsTimeout(r, e) ==
  IF ctxErr[r] = "deadline" \/ IsTimeout(e) \/ e = "reset" THEN "524" ELSE "1014"
ClassifyOriginFailure(r, e) ==
  IF ctxErr[r] = "deadline" \/ IsTimeout(e) THEN "524" ELSE "1014"

ReadFails(r) ==
  /\ pc[r] = "read"
  /\ \E e \in ReadErrors(r) :
       Return(r, IF Gone(r) THEN "gone" ELSE ClassifyOriginFailure(r, e))

InCopy(r) == pc[r] \in {"copy", "stalled"}

\* io.Copy: the framing of the body (Content-Length or chunks) tells a whole
\* response from a short one.  What is left of the response may still fit into
\* the buffers to a client that has stopped reading.
CopyIgnoresFraming(r) ==
  /\ InCopy(r) /\ resp[r] \in {"whole", "short"}
  /\ tun = "up" /\ clk[r] < 2 /\ ~Gone(r)
  /\ Return(r, "proxied")

CopyDone(r) ==
  /\ InCopy(r) /\ resp[r] = "whole"
  /\ tun = "up" /\ clk[r] < 2 /\ ~Gone(r)
  /\ Return(r, "proxied")

CopyFails(r) ==
  /\ InCopy(r)
  /\ resp[r] = "short" \/ tun # "up" \/ clk[r] = 2 \/ Gone(r)
  /\ Return(r, "interrupted")

-----------------------------------------------------------------------------
(* The client, and the clock of the two deadlines.                         *)

ClientSends(r) ==
  /\ r \notin sent /\ ~Gone(r)
  /\ sent' = sent \cup {r}
  /\ UNCHANGED <<pc, out, left, clk, ctxErr, opened, streamVars, connVars, tunVars>>

CtxEnds(r, why) == IF ctxErr[r] = "nil" THEN [ctxErr EXCEPT ![r] = why] ELSE ctxErr

ClientLeaves(r) ==
  /\ ~Gone(r) /\ pc[r] \notin {"new", "done"}
  /\ left' = left \cup {r}
  /\ ctxErr' = CtxEnds(r, "canceled")
  /\ UNCHANGED <<pc, out, sent, clk, opened, streamVars, connVars, tunVars>>

\* The client stays and stops reading, while w.Write has its response to write.
ClientStalls(r) ==
  /\ r \in MayStall /\ pc[r] = "copy" /\ ~Gone(r)
  /\ Step(r, "stalled")
  /\ UNCHANGED <<out, sent, left, clk, ctxErr, opened, streamVars, connVars, tunVars>>

\* No SetDeadline on the stream: only ctx ends.
DeadlineOnlyOfCtx(r) ==
  /\ clk[r] = 0 /\ pc[r] \in {"open", "write", "read", "copy", "stalled"}
  /\ clk' = [clk EXCEPT ![r] = 1]
  /\ ctxErr' = CtxEnds(r, "deadline")
  /\ UNCHANGED <<pc, out, sent, left, opened, streamVars, connVars, tunVars>>

\* The stream deadline is set after the stream opened, so it is the later one.
DeadlinePasses(r) ==
  /\ \/ clk[r] = 0 /\ pc[r] \in {"open", "write", "read", "copy", "stalled"}
     \/ clk[r] = 1 /\ pc[r] \in {"write", "read", "copy", "stalled"}
  /\ clk' = [clk EXCEPT ![r] = @ + 1]
  /\ ctxErr' = CtxEnds(r, "deadline")
  /\ UNCHANGED <<pc, out, sent, left, opened, streamVars, connVars, tunVars>>

-----------------------------------------------------------------------------
(* serveStream.                                                            *)

connectorOnly == UNCHANGED <<edgeVars, req, stop, tunVars, ask>>
ConnectorOnly == connectorOnly /\ UNCHANGED busy

\* reqCtx: derived from the stream's context, which ends with STOP_SENDING and
\* with the connection.
ReqCtxFromProcess(r) == r \in stop \/ cend = "closed" \/ con = "drain"
ReqCtxDone(r) == r \in stop \/ cend = "closed"

\* What the edge can still get of a write to the response half.
Write(r, what) ==
  resp' = IF r \in stop \/ cend = "closed" \/ lost THEN resp
          ELSE [resp EXCEPT ![r] = what]

\* serveStream returns: the origin call ends, str.Close ends the half.
Leave(r, what, o) ==
  /\ sp' = [sp EXCEPT ![r] = "done"]
  /\ org' = [org EXCEPT ![r] = o]
  /\ Write(r, what)

\* AcceptStream in runOnce.
Accept(r) ==
  /\ con = "serve" /\ cend = "open" /\ req[r] # "none" /\ sp[r] = "none"
  /\ sp' = [sp EXCEPT ![r] = "readreq"]
  /\ UNCHANGED <<resp, eof, org>> /\ ConnectorOnly

\* ReadRequest stops after the headers.  Without a body nothing reads on, and
\* the end of the request was read only if it came with the last bytes.
ReadRequest(r) ==
  /\ sp[r] = "readreq" /\ cend = "open" /\ req[r] # "none" /\ ask[r].at # "star"
  /\ sp' = [sp EXCEPT ![r] = "origin"]
  /\ org' = [org EXCEPT ![r] = "asked"]
  /\ \/ UNCHANGED eof
     \/ r \notin Bodied /\ req[r] = "all" /\ eof' = eof \cup {r}
  /\ busy' = IF At(r).ends = "itself" THEN busy ELSE busy \cup {r}
  /\ UNCHANGED resp /\ connectorOnly

\* The edge never resets the request half: ReadRequest fails only with the
\* connection.
ReadRequestFails(r) ==
  /\ sp[r] = "readreq" /\ cend = "closed"
  /\ Leave(r, "empty", org[r])
  /\ UNCHANGED eof /\ ConnectorOnly

\* The target is not a URL: a 400 of the connector's own.
BadTarget(r) ==
  /\ sp[r] = "readreq" /\ cend = "open" /\ req[r] # "none" /\ ask[r].at = "star"
  /\ Leave(r, "whole", "complete")
  /\ UNCHANGED eof /\ ConnectorOnly

\* client.Do returned a response, resp.Write begins.  A body was read to its
\* end, or the origin answered early.
OriginAnswers(r) ==
  /\ sp[r] = "origin" /\ At(r).head
  /\ At(r).reads /\ r \in Bodied => req[r] = "all"
  /\ sp' = [sp EXCEPT ![r] = "respond"]
  /\ org' = [org EXCEPT ![r] = "headed"]
  /\ \/ UNCHANGED eof
     \/ r \in Bodied /\ req[r] = "all" /\ eof' = eof \cup {r}
  /\ Write(r, "head")
  /\ ConnectorOnly

\* The Timeout of the connector's http.Client.
PatienceEnds(r) == ShortPatience \/ clk[r] = 2

\* client.Do failed: dial, RST, close or the client's own timeout.  The stream
\* is reset unless the edge had given up.
OriginFails(r) ==
  /\ sp[r] = "origin" /\ (At(r).abort \/ PatienceEnds(r))
  /\ Leave(r, IF ReqCtxDone(r) THEN "empty" ELSE "reset", "failed")
  /\ UNCHANGED eof /\ ConnectorOnly

\* client.Do failed because reqCtx was done.
OriginAbandoned(r) ==
  /\ sp[r] = "origin" /\ ReqCtxDone(r)
  /\ Leave(r, "empty", "left")
  /\ UNCHANGED eof /\ ConnectorOnly

RespondForgetsClose(r) ==
  /\ sp[r] = "respond" /\ At(r).whole
  /\ Leave(r, "head", "complete")
  /\ UNCHANGED eof /\ ConnectorOnly

RespondDone(r) ==
  /\ sp[r] = "respond" /\ At(r).whole
  /\ Leave(r, "whole", "complete")
  /\ UNCHANGED eof /\ ConnectorOnly

\* The origin's body broke off: resp.Write fails, and the deferred Close ends
\* the half like any other.
RespondShort(r) ==
  /\ sp[r] = "respond" /\ (At(r).cut \/ PatienceEnds(r))
  /\ Leave(r, "short", "failed")
  /\ UNCHANGED eof /\ ConnectorOnly

\* The write, or the read of the origin's body, fails because the edge or the
\* connection left.
RespondAbandoned(r) ==
  /\ sp[r] = "respond" /\ ReqCtxDone(r)
  /\ Leave(r, "short", "left")
  /\ UNCHANGED eof /\ ConnectorOnly

\* net/http ends the context of a request whose client is gone, but it watches
\* the connection only once the request's body was read, and these handlers
\* never read it.
HandlerReturns(r) ==
  /\ r \in busy /\ At(r).ends = "context"
  /\ org[r] \in {"left", "failed"} /\ r \notin Bodied
  /\ busy' = busy \ {r}
  /\ UNCHANGED <<edgeVars, streamVars, sp, eof, org, ask, tunVars>>

-----------------------------------------------------------------------------
(* runOnce around the streams, and the connection.                         *)

TunnelOnly == UNCHANGED <<edgeVars, streamVars, connVars>>

\* AcceptStream failed: SIGTERM, or the connection ended.
Drain ==
  /\ con = "serve"
  /\ con' = "drain"
  /\ UNCHANGED <<cend, tun, lost>> /\ TunnelOnly

Inflight == {r \in Reqs : sp[r] \in {"readreq", "origin", "respond"}}

\* The deferred wait, then CloseWithError.
DrainEnds ==
  /\ con = "drain" /\ Inflight = {}
  /\ con' = "gone" /\ cend' = "closed"
  /\ UNCHANGED <<tun, lost>> /\ TunnelOnly

DrainTimesOut ==
  /\ con = "drain" /\ Inflight # {}
  /\ con' = "gone" /\ cend' = "closed"
  /\ UNCHANGED <<tun, lost>> /\ TunnelOnly

PathLost ==
  /\ ~lost
  /\ lost' = TRUE
  /\ UNCHANGED <<con, cend, tun>> /\ TunnelOnly

ConnectorIdles ==
  /\ cend = "open" /\ lost
  /\ cend' = "closed"
  /\ UNCHANGED <<con, tun, lost>> /\ TunnelOnly

EdgeSeesClose ==
  /\ tun = "up" /\ con = "gone" /\ ~lost
  /\ tun' = "app"
  /\ UNCHANGED <<con, cend, lost>> /\ TunnelOnly

EdgeIdles ==
  /\ tun = "up" /\ lost
  /\ tun' = "idle"
  /\ UNCHANGED <<con, cend, lost>> /\ TunnelOnly

-----------------------------------------------------------------------------

Init ==
  /\ ask \in {a \in [Reqs -> UNION {Asks[r] : r \in Reqs}] : \A r \in Reqs : a[r] \in Asks[r]}
  /\ pc = [r \in Reqs |-> "new"]
  /\ out = [r \in Reqs |-> "none"]
  /\ sent = Reqs \ Bodied
  /\ left = {}
  /\ clk = [r \in Reqs |-> 0]
  /\ ctxErr = [r \in Reqs |-> "nil"]
  /\ opened = {}
  /\ req = [r \in Reqs |-> "none"]
  /\ resp = [r \in Reqs |-> "none"]
  /\ stop = {}
  /\ sp = [r \in Reqs |-> "none"]
  /\ eof = {}
  /\ org = [r \in Reqs |-> "none"]
  /\ busy = {}
  /\ con = "serve" /\ cend = "open" /\ tun = "up" /\ lost = FALSE

EdgeStep(r) ==
  \/ OpenStream(r)
  \/ OpenStreamFails(r)
  \/ WriteAll(r)
  \/ ReadHead(r)
  \/ ReadFails(r)

CopyEnds(r) == CopyDone(r) \/ CopyFails(r)

ConnectorStep(r) ==
  \/ Accept(r)
  \/ ReadRequestFails(r)
  \/ OriginAbandoned(r)
  \/ RespondAbandoned(r)

TunnelStep == EdgeSeesClose \/ EdgeIdles \/ ConnectorIdles

Next ==
  \/ \E r \in Reqs : PickNone(r)
  \/ \E r \in Reqs : Pick(r)
  \/ \E r \in Reqs : EdgeStep(r)
  \/ \E r \in Reqs : WriteSome(r)
  \/ \E r \in Reqs : WriteFails(r)
  \/ \E r \in Reqs : CopyEnds(r)
  \/ \E r \in Reqs : ClientSends(r)
  \/ \E r \in Reqs : ClientLeaves(r)
  \/ \E r \in Reqs : ClientStalls(r)
  \/ \E r \in Reqs : DeadlinePasses(r)
  \/ \E r \in Reqs : ConnectorStep(r)
  \/ \E r \in Reqs : ReadRequest(r)
  \/ \E r \in Reqs : BadTarget(r)
  \/ \E r \in Reqs : OriginAnswers(r)
  \/ \E r \in Reqs : OriginFails(r)
  \/ \E r \in Reqs : RespondDone(r)
  \/ \E r \in Reqs : RespondShort(r)
  \/ \E r \in Reqs : HandlerReturns(r)
  \/ Drain
  \/ DrainEnds
  \/ DrainTimesOut
  \/ PathLost
  \/ TunnelStep

\* ServeHTTP waits for a client that stays: in the read of its body, or in the
\* write of the response to it.  The stream's deadline covers neither, and the
\* public servers set no other.
ClientHolds(r) == /\ ~Gone(r)
                  /\ \/ pc[r] = "write" /\ r \notin sent
                     \/ pc[r] = "stalled"

\* Goroutines run, deadlines pass, and both ends of a lost path time out.  A
\* failed write, and the end of a copy, are due only when no client holds
\* ServeHTTP.  Clients and the origin owe nothing: neither a byte nor their
\* leaving.
Fairness ==
  /\ \A r \in Reqs :
       /\ WF_vars(EdgeStep(r))
       /\ WF_vars(~ClientHolds(r) /\ (WriteFails(r) \/ CopyEnds(r)))
       /\ WF_vars(DeadlinePasses(r))
       /\ WF_vars(ConnectorStep(r))
       /\ WF_vars(HandlerReturns(r))
  /\ WF_vars(TunnelStep)

Spec == Init /\ [][Next]_vars /\ Fairness

-----------------------------------------------------------------------------
(* Properties.                                                             *)

Outcomes == {"none", "1033 no connector", "1033 open", "1033 write", "gone",
             "524", "1014", "proxied", "interrupted"}

\* Types of the variables.
TypeOK ==
  /\ pc \in [Reqs -> {"new", "open", "write", "read", "copy", "stalled", "done"}]
  /\ out \in [Reqs -> Outcomes]
  /\ sent \subseteq Reqs /\ left \subseteq Reqs /\ opened \subseteq Reqs
  /\ clk \in [Reqs -> 0..2]
  /\ ctxErr \in [Reqs -> {"nil", "canceled", "deadline"}]
  /\ req \in [Reqs -> {"none", "some", "all"}]
  /\ resp \in [Reqs -> {"none", "head", "whole", "short", "empty", "reset"}]
  /\ stop \subseteq opened /\ eof \subseteq opened
  /\ sp \in [Reqs -> {"none", "readreq", "origin", "respond", "done"}]
  /\ org \in [Reqs -> {"none", "asked", "headed", "complete", "failed", "left"}]
  /\ \A r \in Reqs : ask[r] \in Asks[r]
  /\ busy \subseteq Reqs
  /\ con \in {"serve", "drain", "gone"} /\ cend \in {"open", "closed"}
  /\ tun \in {"up", "app", "idle"} /\ lost \in BOOLEAN

\* What the edge blames is what happened.  A 524, or a 1033 for a connector that
\* had been picked, means that time ran out or the tunnel died: an origin that
\* resets is never reported as slow ("a 502 rather than a 524",
\* handlers.go:99), and no picked tunnel is given up early (edge.go:453-503).
TimeoutMeansTime ==
  \A r \in Reqs :
    /\ out[r] = "524" => clk[r] > 0 \/ tun = "idle"
    /\ out[r] = "1033 open" => clk[r] > 0 \/ tun # "up"
    /\ out[r] = "1033 write" => clk[r] > 0 \/ tun # "up" \/ Gone(r)

\* A 1014 means that something broke: the endpoint is one that drops the
\* connection, or the tunnel went.  An origin that holds the connection is a 524
\* ("not 1014", handlers.go:183), unless the connector's patience is the shorter
\* one, and a request whose origin works on is not failed by a draining
\* connector.
BadGatewayMeansBroken ==
  \A r \in Reqs : out[r] = "1014" => At(r).abort \/ ShortPatience \/ tun # "up"

\* A response logged as proxied is the whole answer of an endpoint that gives
\* one: a body that the origin cuts short, or that the tunnel loses the end of,
\* is never taken for complete (handlers.go:198, edge.go:504-515).
ProxiedIsWhole ==
  \A r \in Reqs : out[r] = "proxied" => org[r] = "complete" /\ At(r).whole

\* Whatever way serveStream returns, it ends the response half, so that the
\* only slots that stay taken are those whose request the connector did not
\* read to its end.
HandlerEndsStream ==
  \A r \in Reqs : sp[r] = "done" /\ cend = "open" /\ ~lost /\ HoldsSlot(r) => r \notin eof

\* A request comes to an end, unless its own client stays for ever without
\* sending its body or without reading the response: nothing else, the origin,
\* the connector, the tunnel or another request at the stream limit, holds
\* ServeHTTP for good (edge.go:449-517).
EveryRequestEnds ==
  \A r \in Reqs : (pc[r] = "open") ~> (pc[r] = "done" \/ []ClientHolds(r))

\* When the edge is done with a request, the origin is released (connector.go:
\* STOP_SENDING "releases the origin immediately"): the call ends, and with it
\* the handler, all but two: /accept-hang, whose hijacked connection nobody
\* reads, and /hang with a body, which nobody reads either.
OutlivesItsClient(r) == At(r).ends = "never" \/ (At(r).ends = "context" /\ r \in Bodied)
OriginReleased ==
  \A r \in Reqs : (pc[r] = "done") ~>
    /\ org[r] \notin {"asked", "headed"}
    /\ r \in busy => OutlivesItsClient(r)

\* edge.go:481: "A client that walked away is not an edge failure, and must not
\* be logged as one".
GoneIsNotAnError ==
  \A r \in Reqs : Gone(r) => out[r] \notin {"1033 open", "1033 write", "524", "1014"}
=============================================================================
