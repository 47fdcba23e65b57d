------------------------------- MODULE Tunnel -------------------------------
(***************************************************************************)
(* The edge's registry composed with the connectors that dial it           *)
(* (internal/connector/connector.go): Start runs HA reconnect loops per    *)
(* process, each loop runs runOnce, and every connection has a ping loop   *)
(* and an unregister goroutine.  The QUIC connection between the two is    *)
(* external: each end learns of its end on its own, a path may be cut, and *)
(* control messages not yet read are lost, from the last one backwards,    *)
(* when it is.                                                             *)
(*                                                                         *)
(* Requests are in module RequestPath; here the drain of runOnce is the    *)
(* time a loop spends leaving.                                             *)
(***************************************************************************)
EXTENDS EdgeRegistry

CONSTANTS
  Procs,          \* connector processes
  HA,             \* -ha-connections
  SkipRegister,   \* StartOpts.SkipRegister
  RegisterDelay,  \* StartOpts.RegisterDelay, only its sign matters
  PingEvery,      \* the ping period (connector -keepalive, or 5s), in ticks
  MaxFaults,      \* bound: cuts, failed dials and crashes in one behaviour
  None            \* no connection

ASSUME TunnelAssumption ==
  /\ HA \in Int /\ RegisterDelay \in Int /\ SkipRegister \in BOOLEAN
  /\ PingEvery \in Nat \ {0}
  /\ MaxFaults \in Nat
  /\ None \notin Conns

\* Start: one reconnect loop per HA connection, at least one.
NumLoops == IF HA < 1 THEN 1 ELSE HA
Loops == Procs \X (0..(NumLoops - 1))

VARIABLES
  pc,        \* reconnectLoop and runOnce
  conn,      \* runOnce's conn
  backoff,   \* reconnectLoop's backoff, in half seconds
  ctxDone,   \* the process context is cancelled (SIGTERM)
  cli,       \* the connector's end: "none", "open" or "closed"
  srv,       \* the edge's end before registration: "none", "pending", "taken"
  ctrl,      \* control messages written and not yet read
  pinger,    \* ticks until the next ping, PingerOff when the loop ended
  unreg,     \* connections whose unregister goroutine waits for ctx
  cut,       \* connections whose path no longer delivers
  faults,    \* faults so far
  dead       \* history: ticks since the connection stopped carrying pings

procVars == <<pc, conn, backoff, ctxDone>>
quicVars == <<cli, srv, ctrl, pinger, unreg, cut>>
tunnelVars == <<regVars, pickVars, procVars, quicVars, faults, dead>>

PingerOff == -1
Delay == RegisterDelay > 0
Carries(c) == cli[c] = "open" /\ c \notin cut

\* A write to a cut path succeeds locally and goes nowhere.
Sent(c, m) == IF c \in cut THEN ctrl[c] ELSE Append(ctrl[c], m)
Prefixes(q) == {SubSeq(q, 1, k) : k \in 0..Len(q)}

\* Once the connector's end is closed, the writes of its ping loop and of its
\* unregister goroutine only fail: what closes it ends them.
GoroutinesEnd(c) ==
  /\ pinger' = [pinger EXCEPT ![c] = PingerOff]
  /\ unreg' = unreg \ {c}

-----------------------------------------------------------------------------
(* The edge, driven by what the connections carry.                         *)

EdgeOnly == UNCHANGED <<pickVars, procVars, cli, pinger, unreg, cut, faults, dead>>

EdgeAccept(c) ==
  /\ srv[c] = "pending"
  /\ AddConnector(c)
  /\ srv' = [srv EXCEPT ![c] = "taken"]
  /\ UNCHANGED ctrl /\ EdgeOnly

\* The handshake never completed at the edge.
EdgeNeverSees(c) ==
  /\ srv[c] = "pending" /\ ~Carries(c)
  /\ srv' = [srv EXCEPT ![c] = "taken"]
  /\ ctrl' = [ctrl EXCEPT ![c] = <<>>]
  /\ UNCHANGED regVars /\ EdgeOnly

EdgeAcceptControl(c) ==
  /\ ctrl[c] # <<>>
  /\ AcceptControl(c)
  /\ UNCHANGED <<srv, ctrl>> /\ EdgeOnly

EdgeAcceptControlFails(c) ==
  /\ AcceptControlFails(c)
  /\ ctrl' = [ctrl EXCEPT ![c] = <<>>]
  /\ UNCHANGED srv /\ EdgeOnly

EdgeReads(c) ==
  /\ ctrl[c] # <<>>
  /\ \/ Head(ctrl[c]) = "register" /\ OnRegister(c)
     \/ Head(ctrl[c]) = "ping" /\ OnPing(c)
     \/ Head(ctrl[c]) = "unregister" /\ OnUnregister(c)
  /\ ctrl' = [ctrl EXCEPT ![c] = Tail(@)]
  /\ UNCHANGED srv /\ EdgeOnly

\* The connector writes whole, well-formed lines and never ends the stream, so
\* a read fails only with the connection.
EdgeReadError(c) ==
  /\ c \in closed
  /\ ControlReadError(c)
  /\ ctrl' = [ctrl EXCEPT ![c] = <<>>]
  /\ UNCHANGED srv /\ EdgeOnly

EdgeWatchLost(c) ==
  /\ WatchLost(c)
  /\ UNCHANGED <<srv, ctrl>> /\ EdgeOnly

\* CONNECTION_CLOSE arrived, or the idle timeout.
EdgeSeesClose(c) ==
  /\ ~Carries(c)
  /\ ConnClosed(c)
  /\ UNCHANGED <<srv, ctrl>> /\ EdgeOnly

-----------------------------------------------------------------------------
(* reconnectLoop and runOnce.                                              *)

ConnectorOnly == UNCHANGED <<regVars, pickVars, ctxDone, srv, cut, dead>>

Cancelled(l) == ctxDone[l[1]]

FreeConns == {c \in Conns : cli[c] = "none"}

Dial(l) ==
  /\ pc[l] = "dial" /\ FreeConns # {}
  /\ LET c == CHOOSE c \in FreeConns : TRUE
     IN /\ conn' = [conn EXCEPT ![l] = c]
        /\ cli' = [cli EXCEPT ![c] = "open"]
        /\ srv' = [srv EXCEPT ![c] = "pending"]
  /\ pc' = [pc EXCEPT ![l] = IF SkipRegister THEN "serve"
                             ELSE IF Delay THEN "delay" ELSE "open"]
  /\ UNCHANGED <<regVars, pickVars, backoff, ctxDone, ctrl, pinger, unreg, cut, faults, dead>>

DialFailsForGood(l) ==
  /\ pc[l] = "dial" /\ ~Cancelled(l)
  /\ faults < MaxFaults
  /\ faults' = faults + 1
  /\ pc' = [pc EXCEPT ![l] = "exit"]
  /\ UNCHANGED <<conn, backoff, cli, ctrl, pinger, unreg>> /\ ConnectorOnly

DialFails(l) ==
  /\ pc[l] = "dial" /\ ~Cancelled(l)
  /\ faults < MaxFaults
  /\ faults' = faults + 1
  /\ pc' = [pc EXCEPT ![l] = "backoff"]
  /\ UNCHANGED <<conn, backoff, cli, ctrl, pinger, unreg>> /\ ConnectorOnly

\* ctx.Err() at the loop's head, after runOnce and in both selects.
LoopEnds(l) ==
  /\ pc[l] \in {"dial", "backoff"} /\ Cancelled(l)
  /\ pc' = [pc EXCEPT ![l] = "exit"]
  /\ UNCHANGED <<conn, backoff, cli, ctrl, pinger, unreg, faults>> /\ ConnectorOnly

DelayEnds(l) ==
  /\ pc[l] = "delay"
  /\ pc' = [pc EXCEPT ![l] = IF Cancelled(l) THEN "leave" ELSE "open"]
  /\ UNCHANGED <<conn, backoff, cli, ctrl, pinger, unreg, faults>> /\ ConnectorOnly

OpenControlLeaks(l) ==
  /\ pc[l] = "open"
  /\ pc' = [pc EXCEPT ![l] = IF Cancelled(l) \/ cli[conn[l]] # "open"
                             THEN "backoff" ELSE "register"]
  /\ conn' = [conn EXCEPT ![l] = IF pc'[l] = "backoff" THEN None ELSE @]
  /\ UNCHANGED <<backoff, cli, ctrl, pinger, unreg, faults>> /\ ConnectorOnly

OpenControl(l) ==
  /\ pc[l] = "open"
  /\ pc' = [pc EXCEPT ![l] = IF Cancelled(l) \/ cli[conn[l]] # "open"
                             THEN "leave" ELSE "register"]
  /\ UNCHANGED <<conn, backoff, cli, ctrl, pinger, unreg, faults>> /\ ConnectorOnly

\* The write does not look at ctx.
WriteRegister(l) ==
  /\ pc[l] = "register"
  /\ LET c == conn[l] IN
     \/ /\ cli[c] = "open"
        /\ ctrl' = [ctrl EXCEPT ![c] = Sent(c, "register")]
        /\ pinger' = [pinger EXCEPT ![c] = PingEvery]
        /\ unreg' = unreg \cup {c}
        /\ pc' = [pc EXCEPT ![l] = "serve"]
     \/ /\ cli[c] # "open"
        /\ pc' = [pc EXCEPT ![l] = "leave"]
        /\ UNCHANGED <<ctrl, pinger, unreg>>
  /\ UNCHANGED <<conn, backoff, cli, faults>> /\ ConnectorOnly

ServeIgnoresCtx(l) ==
  /\ pc[l] = "serve"
  /\ cli[conn[l]] # "open"
  /\ pc' = [pc EXCEPT ![l] = "leave"]
  /\ UNCHANGED <<conn, backoff, cli, ctrl, pinger, unreg, faults>> /\ ConnectorOnly

\* AcceptStream fails: the deferred calls follow, first the drain.
ServeEnds(l) ==
  /\ pc[l] = "serve"
  /\ Cancelled(l) \/ cli[conn[l]] # "open"
  /\ pc' = [pc EXCEPT ![l] = "leave"]
  /\ UNCHANGED <<conn, backoff, cli, ctrl, pinger, unreg, faults>> /\ ConnectorOnly

\* The end of the deferred calls of runOnce: the drain, if it came to serving,
\* took its time (module RequestPath), then CloseWithError, which loses what
\* was not yet transmitted.
CloseConn(l) ==
  /\ pc[l] = "leave"
  /\ LET c == conn[l] IN
     /\ cli' = [cli EXCEPT ![c] = "closed"]
     /\ \E q \in Prefixes(ctrl[c]) : ctrl' = [ctrl EXCEPT ![c] = q]
     /\ GoroutinesEnd(c)
  /\ conn' = [conn EXCEPT ![l] = None]
  /\ pc' = [pc EXCEPT ![l] = IF Cancelled(l) THEN "exit" ELSE "backoff"]
  /\ UNCHANGED <<backoff, faults>> /\ ConnectorOnly

NextBackoff(b) == IF b < 20 THEN 2 * b ELSE b

BackoffEnds(l) ==
  /\ pc[l] = "backoff" /\ ~Cancelled(l)
  /\ backoff' = [backoff EXCEPT ![l] = NextBackoff(@)]
  /\ pc' = [pc EXCEPT ![l] = "dial"]
  /\ UNCHANGED <<conn, cli, ctrl, pinger, unreg, faults>> /\ ConnectorOnly

-----------------------------------------------------------------------------
(* The ping loop and the unregister goroutine of a connection.  Both may   *)
(* run after ctx is cancelled, and race each other and CloseWithError.     *)

OwnerCancelled(c) == \E l \in Loops : conn[l] = c /\ Cancelled(l)

PingerSends(c) ==
  /\ pinger[c] = 0
  /\ ctrl' = [ctrl EXCEPT ![c] = Sent(c, "ping")]
  /\ pinger' = [pinger EXCEPT ![c] = PingEvery]
  /\ UNCHANGED <<pc, conn, backoff, cli, unreg, faults>> /\ ConnectorOnly

PingerStops(c) ==
  /\ pinger[c] # PingerOff /\ OwnerCancelled(c)
  /\ pinger' = [pinger EXCEPT ![c] = PingerOff]
  /\ UNCHANGED <<pc, conn, backoff, cli, ctrl, unreg, faults>> /\ ConnectorOnly

UnregisterSends(c) ==
  /\ c \in unreg /\ OwnerCancelled(c) /\ cli[c] = "open"
  /\ ctrl' = [ctrl EXCEPT ![c] = Sent(c, "unregister")]
  /\ unreg' = unreg \ {c}
  /\ UNCHANGED <<pc, conn, backoff, cli, pinger, faults>> /\ ConnectorOnly

-----------------------------------------------------------------------------
(* Signals, the network and time.                                          *)

Shutdown(p) ==
  /\ ~ctxDone[p]
  /\ ctxDone' = [ctxDone EXCEPT ![p] = TRUE]
  /\ UNCHANGED <<regVars, pickVars, pc, conn, backoff, quicVars, faults, dead>>

Cut(c) ==
  /\ Carries(c) /\ faults < MaxFaults
  /\ faults' = faults + 1
  /\ cut' = cut \cup {c}
  /\ \E q \in Prefixes(ctrl[c]) : ctrl' = [ctrl EXCEPT ![c] = q]
  /\ UNCHANGED <<regVars, pickVars, procVars, cli, srv, pinger, unreg, dead>>

\* The connector's own idle timeout.
ConnectorSeesCut(c) ==
  /\ cli[c] = "open" /\ c \in cut
  /\ cli' = [cli EXCEPT ![c] = "closed"]
  /\ GoroutinesEnd(c)
  /\ UNCHANGED <<regVars, pickVars, procVars, srv, ctrl, cut, faults, dead>>

\* A connector dies without a word and a new process takes its place.
ConnectorCrash(p) ==
  /\ faults < MaxFaults
  /\ faults' = faults + 1
  /\ LET mine == {l \in Loops : l[1] = p}
         lost == {conn[l] : l \in mine} \ {None}
     IN /\ pc' = [l \in Loops |-> IF l \in mine THEN "dial" ELSE pc[l]]
        /\ conn' = [l \in Loops |-> IF l \in mine THEN None ELSE conn[l]]
        /\ backoff' = [l \in Loops |-> IF l \in mine THEN 1 ELSE backoff[l]]
        /\ cli' = [c \in Conns |-> IF c \in lost THEN "closed" ELSE cli[c]]
        /\ pinger' = [c \in Conns |-> IF c \in lost THEN PingerOff ELSE pinger[c]]
        /\ unreg' = unreg \ lost
        /\ cut' = cut \cup lost
        /\ \E kept \in SUBSET lost :
             ctrl' = [c \in Conns |-> IF c \in lost \ kept THEN <<>> ELSE ctrl[c]]
  /\ ctxDone' = [ctxDone EXCEPT ![p] = FALSE]
  /\ UNCHANGED <<regVars, pickVars, srv, dead>>

\* The edge process is replaced; it knew its connectors only in memory.
EdgeCrash ==
  /\ faults < MaxFaults
  /\ faults' = faults + 1
  /\ connectors' = <<>> /\ nextConnectorID' = 0 /\ closed' = {}
  /\ ctl' = [c \in Conns |-> "off"] /\ wl' = [c \in Conns |-> "off"]
  /\ cid' = [c \in Conns |-> 0]
  /\ rr' = 0 /\ window' = [live |-> <<>>, picked |-> <<>>] /\ pinned' = [k \in Keys |-> 0]
  /\ srv' = [c \in Conns |-> IF cli[c] = "none" THEN "none" ELSE "taken"]
  /\ ctrl' = [c \in Conns |-> <<>>]
  /\ cut' = {c \in Conns : cli[c] # "none"}
  /\ UNCHANGED <<procVars, cli, pinger, unreg, dead>>

\* Both ends forgot the connection: its name may be used again.
Retire(c) ==
  /\ cli[c] = "closed" /\ srv[c] # "pending" /\ \A l \in Loops : conn[l] # c
  /\ wl[c] = "off" /\ ctl[c] = "off"
  /\ closed' = closed \ {c}
  /\ cli' = [cli EXCEPT ![c] = "none"]
  /\ srv' = [srv EXCEPT ![c] = "none"]
  /\ ctrl' = [ctrl EXCEPT ![c] = <<>>]
  /\ cut' = cut \ {c}
  /\ dead' = [dead EXCEPT ![c] = 0]
  /\ cid' = [cid EXCEPT ![c] = 0]
  /\ UNCHANGED <<connectors, nextConnectorID, ctl, wl, pickVars, procVars, pinger, unreg, faults>>

\* One tick passes.  A tick is longer than a due ping or a control message
\* waits: both are handled first.
TimePasses ==
  /\ \A c \in Conns : pinger[c] # 0 /\ ctrl[c] = <<>>
  /\ Tick
  /\ pinger' = [c \in Conns |-> IF pinger[c] = PingerOff THEN PingerOff ELSE pinger[c] - 1]
  /\ dead' = [c \in Conns |-> IF cli[c] = "none" \/ Carries(c) \/ dead[c] >= StaleAfter
                              THEN dead[c] ELSE dead[c] + 1]
  /\ UNCHANGED <<pickVars, procVars, cli, srv, ctrl, unreg, cut, faults>>

-----------------------------------------------------------------------------

TunnelInit ==
  /\ Init
  /\ pc = [l \in Loops |-> "dial"]
  /\ conn = [l \in Loops |-> None]
  /\ backoff = [l \in Loops |-> 1]
  /\ ctxDone = [p \in Procs |-> FALSE]
  /\ cli = [c \in Conns |-> "none"]
  /\ srv = [c \in Conns |-> "none"]
  /\ ctrl = [c \in Conns |-> <<>>]
  /\ pinger = [c \in Conns |-> PingerOff]
  /\ unreg = {}
  /\ cut = {}
  /\ faults = 0
  /\ dead = [c \in Conns |-> 0]

EdgeStep(c) ==
  \/ EdgeAccept(c)
  \/ EdgeNeverSees(c)
  \/ EdgeAcceptControl(c)
  \/ EdgeAcceptControlFails(c)
  \/ EdgeReads(c)
  \/ EdgeReadError(c)
  \/ EdgeWatchLost(c)
  \/ EdgeSeesClose(c)

LoopStep(l) ==
  \/ Dial(l)
  \/ LoopEnds(l)
  \/ DelayEnds(l)
  \/ OpenControl(l)
  \/ WriteRegister(l)
  \/ ServeEnds(l)
  \/ CloseConn(l)
  \/ BackoffEnds(l)

TunnelNext ==
  \/ \E c \in Conns : EdgeStep(c)
  \/ \E l \in Loops : LoopStep(l)
  \/ \E l \in Loops : DialFails(l)
  \/ \E c \in Conns : PingerSends(c)
  \/ \E c \in Conns : PingerStops(c)
  \/ \E c \in Conns : UnregisterSends(c)
  \/ \E c \in Conns : Cut(c)
  \/ \E c \in Conns : ConnectorSeesCut(c)
  \/ \E c \in Conns : Retire(c)
  \/ \E p \in Procs : Shutdown(p)
  \/ \E p \in Procs : ConnectorCrash(p)
  \/ EdgeCrash
  \/ TimePasses

\* Goroutines run, packets on a path that is not cut arrive, both ends have an
\* idle timeout, and a dial that meets no fault succeeds.  Faults, signals and
\* time owe nothing.
TunnelFairness ==
  /\ \A c \in Conns :
       /\ WF_tunnelVars(EdgeAccept(c) \/ EdgeNeverSees(c))
       /\ WF_tunnelVars(EdgeAcceptControl(c) \/ EdgeReads(c))
       /\ WF_tunnelVars(EdgeAcceptControlFails(c) \/ EdgeReadError(c))
       /\ WF_tunnelVars(EdgeWatchLost(c))
       /\ WF_tunnelVars(EdgeSeesClose(c))
       /\ WF_tunnelVars(ConnectorSeesCut(c))
       /\ WF_tunnelVars(Retire(c))
  /\ \A l \in Loops : WF_tunnelVars(LoopStep(l))

TunnelSpec == TunnelInit /\ [][TunnelNext]_tunnelVars /\ TunnelFairness

-----------------------------------------------------------------------------
(* Properties.                                                             *)

\* Types of the variables this module adds.
TunnelTypeOK ==
  /\ TypeOK
  /\ pc \in [Loops -> {"dial", "delay", "open", "register", "serve", "leave",
                       "backoff", "exit"}]
  /\ conn \in [Loops -> Conns \cup {None}]
  /\ backoff \in [Loops -> Nat]
  /\ ctxDone \in [Procs -> BOOLEAN]
  /\ cli \in [Conns -> {"none", "open", "closed"}]
  /\ srv \in [Conns -> {"none", "pending", "taken"}]
  /\ ctrl \in [Conns -> Seq({"register", "ping", "unregister"})]
  /\ pinger \in [Conns -> {PingerOff} \cup 0..PingEvery]
  /\ unreg \subseteq Conns /\ cut \subseteq Conns
  /\ faults \in 0..MaxFaults
  /\ dead \in [Conns -> 0..StaleAfter]

\* A connector that is up, pings and was not told to stop is live at the edge
\* whenever it is registered: with pings every PingEvery ticks and the edge's
\* limit of three keepalive periods, staleness never hits a healthy connector.
HealthyStaysLive ==
  \A i \in 1..Len(connectors), l \in Loops :
     /\ connectors[i].conn = conn[l] /\ connectors[i].registered
     /\ Carries(conn[l]) /\ ~Cancelled(l)
     => Live(connectors[i])

\* A connector that died, or whose path was cut, is picked for at most the
\* stale limit, whether or not the edge has noticed that the connection is
\* gone.
DeadIsNotPicked ==
  \A i \in 1..Len(connectors) :
     dead[connectors[i].conn] >= StaleAfter => StaleAfter = 0 \/ ~Live(connectors[i])

\* Each loop uses its connection alone, and a loop that left runOnce left no
\* open connection behind: no reconnect leaks a QUIC connection.
NoLeakedConnection ==
  /\ \A l, m \in Loops : l # m /\ conn[l] = conn[m] => conn[l] = None
  /\ \A c \in Conns : cli[c] = "open" => \E l \in Loops : conn[l] = c

\* The edge's view of every connection follows ConnectorLifecycle.
RegisteredAt(c) == \E i \in 1..Len(connectors) :
                     connectors[i].conn = c /\ connectors[i].registered
EverRegistered(c) == /\ ctl[c] # "accept"
                     /\ \A i \in 1..Len(connectors) :
                          connectors[i].conn = c => connectors[i].lastPing # NeverPinged
Phase(c) ==
  IF wl[c] = "off" THEN "absent"
  ELSE IF RegisteredAt(c) THEN "registered"
  ELSE IF EverRegistered(c) THEN "unregistered" ELSE "connected"
Lifecycle == INSTANCE ConnectorLifecycle WITH phase <- [c \in Conns |-> Phase(c)]
FollowsLifecycle == Lifecycle!LifecycleSpec

\* Once the faults are over, every loop of a process that was not told to stop
\* ends up registered and live, for good.
SlotLive(l) == \E i \in 1..Len(connectors) : connectors[i].conn = conn[l] /\ Live(connectors[i])
Recovers == \A l \in Loops : <>[](Cancelled(l) \/ SlotLive(l))

\* A process told to stop leaves: its loops end and the edge forgets it.
StopLeaves ==
  \A p \in Procs : ctxDone[p] ~>
     \/ ~ctxDone[p]
     \/ /\ \A l \in Loops : l[1] = p => pc[l] = "exit"
        /\ Cardinality(Procs) = 1 => connectors = <<>>
=============================================================================
