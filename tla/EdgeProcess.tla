---------------------------- MODULE EdgeProcess -----------------------------
(***************************************************************************)
(* The edge as a process (internal/edge: Main, Start, StartLocal,          *)
(* serveTunnel, servePublic): it loads its key pair from the directory     *)
(* CertVolume models, opens the tunnel listener and the public UDP socket, *)
(* and serves HTTP/3 and TLS over TCP until one of the two fails.          *)
(* The connector is here as far as its start goes (connector.Main): the    *)
(* certificate pool it loads once.                                         *)
(*                                                                         *)
(* Whether a bind succeeds is up to the host.  StartLocal is the same edge *)
(* inside a test process, where the end of Start ends nothing else.        *)
(***************************************************************************)
EXTENDS CertVolume

VARIABLES
  edge,     \* the edge
  caller,   \* StartLocal: "none", "waiting", "ok" or "err"
  pool      \* the generation of the CA a running connector trusts, 0 without one

edgeVars == <<edge, caller>>

\* tunnel, public: tunnelBound and publicBound are set.  h3, tcp: the two
\* goroutines of servePublic, whose "err" is in errCh.
Off == [pc |-> "off", local |-> FALSE, cert |-> 0, tunnel |-> FALSE, public |-> FALSE,
        h3 |-> "none", tcp |-> "none"]

EdgeInit == edge = Off /\ caller = "none" /\ pool = 0

\* The caller of StartLocal holds the ctx until it is told to end.
LocalGone == edge = Off /\ caller # "waiting"

EdgeStarts == edge' = [Off EXCEPT !.pc = "cert"] /\ UNCHANGED caller

StartLocal ==
  /\ LocalGone
  /\ edge' = [Off EXCEPT !.pc = "cert", !.local = TRUE]
  /\ caller' = "waiting"

\* LoadX509KeyPair fails: both callers give up before anything is open.
LoadFails ==
  /\ edge' = Off
  /\ caller' = IF edge.local THEN "err" ELSE caller

\* LoadX509KeyPair reads the two files one after the other and compares them.
ReadCert ==
  /\ edge.pc = "cert"
  /\ IF vol["cert"] > 0
     THEN edge' = [edge EXCEPT !.cert = vol["cert"], !.pc = "key"] /\ UNCHANGED caller
     ELSE LoadFails

ReadKey ==
  /\ edge.pc = "key"
  /\ IF vol["key"] = edge.cert
     THEN edge' = [edge EXCEPT !.pc = "tunnel"] /\ UNCHANGED caller
     ELSE LoadFails

\* Start returns an error.  A process exits; under StartLocal the deferred Close
\* takes the UDP socket, and the accept loop and the TCP server live on.
StartEnds ==
  /\ edge' = IF edge.local THEN [edge EXCEPT !.pc = "failed", !.h3 = "err"] ELSE Off
  /\ UNCHANGED caller

ServeTunnel ==
  /\ edge.pc = "tunnel"
  /\ edge' = [edge EXCEPT !.tunnel = TRUE, !.pc = "udp"]
  /\ UNCHANGED caller

\* servePublic: udpsock.Listen, then a goroutine for each server.
ServePublic ==
  /\ edge.pc = "udp"
  /\ edge' = [edge EXCEPT !.public = TRUE, !.h3 = "starting", !.tcp = "starting",
                          !.pc = "run"]
  /\ UNCHANGED caller

BindFails == edge.pc \in {"tunnel", "udp"} /\ StartEnds

H3Serves == edge.h3 = "starting" /\ edge.pc = "run"
            /\ edge' = [edge EXCEPT !.h3 = "up"] /\ UNCHANGED caller
H3Fails == edge.h3 \in {"starting", "up"} /\ edge.pc = "run"
           /\ edge' = [edge EXCEPT !.h3 = "err"] /\ UNCHANGED caller

\* ListenAndServeTLS binds by itself, on the port the UDP socket got.
TcpServes == edge.tcp = "starting"
             /\ edge' = [edge EXCEPT !.tcp = "up"] /\ UNCHANGED caller
TcpFailsUnreported == edge.tcp \in {"starting", "up"}
                      /\ edge' = [edge EXCEPT !.tcp = "none"] /\ UNCHANGED caller
TcpFails == edge.tcp \in {"starting", "up"}
            /\ edge' = [edge EXCEPT !.tcp = "err"] /\ UNCHANGED caller

\* The select of servePublic takes an error.
StartReturns ==
  /\ edge.pc = "run" /\ "err" \in {edge.h3, edge.tcp}
  /\ StartEnds

\* The process is signalled or removed, or the caller of StartLocal ends its ctx.
EdgeStops == edge.pc # "off" /\ edge' = Off /\ UNCHANGED caller

\* StartLocal polls the two addresses without a lock, and looks at errCh only
\* while one is missing; its deadline may pass at any time.
LocalReady ==
  /\ caller = "waiting" /\ edge.tunnel /\ edge.public
  /\ caller' = "ok" /\ UNCHANGED edge

LocalGivesUp ==
  /\ caller = "waiting"
  /\ caller' = "err" /\ UNCHANGED edge

EdgeStep ==
  \/ ReadCert \/ ReadKey \/ ServeTunnel \/ ServePublic \/ BindFails
  \/ H3Serves \/ TcpServes \/ StartReturns

LocalStep == LocalReady \/ LocalGivesUp

\* connector.Main, LoadCAPool: a missing or empty ca.pem ends the process.
LoadedPool == IF vol["ca"] > 0 THEN vol["ca"] ELSE 0

\* A running connector is left alone unless its container is recreated.
ConnectorStarts(recreate) == pool' = IF pool = 0 \/ recreate THEN LoadedPool ELSE pool

EdgeTypeOK ==
  /\ edge \in [pc : {"off", "cert", "key", "tunnel", "udp", "run", "failed"},
               local : BOOLEAN, cert : 0..MaxMints, tunnel : BOOLEAN, public : BOOLEAN,
               h3 : {"none", "starting", "up", "err"},
               tcp : {"none", "starting", "up", "err"}]
  /\ caller \in {"none", "waiting", "ok", "err"}
  /\ pool \in 0..MaxMints
=============================================================================
