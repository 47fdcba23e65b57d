---------------------------- MODULE EdgeRegistry ----------------------------
(***************************************************************************)
(* The tunnel side of the edge (internal/edge/edge.go): the slice of       *)
(* connector references guarded by Edge.mu, the goroutines that change it  *)
(* (the accept loop, one serveControl and one watchLost per connection)    *)
(* and the choice of a connector for a request.                            *)
(*                                                                         *)
(* The environment is the most general one: a connection may be closed at  *)
(* any time and its control stream may carry any messages in any order.    *)
(* Module Tunnel composes these actions with the connector that really     *)
(* sends them.                                                             *)
(*                                                                         *)
(* Time is discrete.  A reference keeps the age of its last ping instead   *)
(* of its time stamp; the age saturates at StaleAfter, past which the code *)
(* makes no further distinction.                                           *)
(***************************************************************************)
EXTENDS Integers, Sequences, FiniteSets

CONSTANTS
  Conns,            \* identities of *quic.Conn values; reused once retired
  TunnelKeepAlive,  \* -tunnel-keepalive, in ticks
  TunnelLB,         \* -tunnel-lb: "rr" or "hash"
  Keys,             \* request paths, "" included when it may occur
  Hash,             \* fnv.New32a, as a function on Keys
  RRWidth,          \* modulus of the round-robin counter (2^64 in the code)
  MaxID             \* bound: connections accepted in one behaviour

ASSUME RegistryAssumption ==
  /\ TunnelKeepAlive \in Int
  /\ TunnelLB \in {"rr", "hash"}
  /\ Hash \in [Keys -> Nat]
  /\ RRWidth \in Nat \ {0}
  /\ MaxID \in Nat

VARIABLES
  connectors,       \* Edge.connectors
  nextConnectorID,  \* Edge.nextConnectorID
  rr,               \* Edge.rr
  ctl,              \* serveControl goroutine of each connection
  wl,               \* watchLost goroutine of each connection
  cid,              \* the id those two goroutines were started with
  closed,           \* connections whose Context() is done at the edge
  window,           \* history: the run of picks over an unchanged live list
  pinned            \* history: the id last picked by hash, 0 if none

regVars  == <<connectors, nextConnectorID, ctl, wl, cid, closed>>
pickVars == <<rr, window, pinned>>
vars     == <<regVars, pickVars>>

-----------------------------------------------------------------------------
(* Staleness of a registration.                                            *)

NeverPinged == -1     \* the zero time.Time

StaleAfterOnePeriod == IF TunnelKeepAlive <= 0 THEN 0 ELSE TunnelKeepAlive
StaleAfter == IF TunnelKeepAlive <= 0 THEN 0 ELSE 3 * TunnelKeepAlive

Ages == {NeverPinged} \cup 0..StaleAfter

ConnectorRef == [id : Nat, conn : Conns, registered : BOOLEAN, lastPing : Ages]

LiveIgnoresPing(ref) == ref.registered
Live(ref) ==
  /\ ref.registered
  /\ \/ StaleAfter <= 0
     \/ ref.lastPing = NeverPinged
     \/ ref.lastPing < StaleAfter

\* pickConnector's loop over the slice: the live references among the first i.
LiveUpTo[i \in 0..Len(connectors)] ==
  IF i = 0 THEN <<>>
  ELSE IF Live(connectors[i]) THEN Append(LiveUpTo[i - 1], connectors[i])
                              ELSE LiveUpTo[i - 1]

LiveRefs == LiveUpTo[Len(connectors)]
LiveIds  == [i \in 1..Len(LiveRefs) |-> LiveRefs[i].id]

Older(age) == IF age = NeverPinged \/ age >= StaleAfter THEN age ELSE age + 1

-----------------------------------------------------------------------------
(* The critical sections of Edge.mu.                                       *)

\* append(e.connectors[:i], e.connectors[i+1:]...)
WithoutIndex(s, i) == SubSeq(s, 1, i - 1) \o SubSeq(s, i + 1, Len(s))

\* What serveControl passes to updateConnector for a message of each type; a
\* read error is handled like "unregister".
RegisterForgetsPing(ref) == [ref EXCEPT !.registered = TRUE]
SetRegistered(ref)   == [ref EXCEPT !.registered = TRUE, !.lastPing = 0]
PingRegisters(ref)   == [ref EXCEPT !.lastPing = 0, !.registered = TRUE]
SetPinged(ref)       == [ref EXCEPT !.lastPing = 0]
SetUnregistered(ref) == [ref EXCEPT !.registered = FALSE]

Applied(ref, type) ==
  IF type = "register" THEN SetRegistered(ref)
  ELSE IF type = "ping" THEN SetPinged(ref)
  ELSE SetUnregistered(ref)

\* updateConnector: the reference with that id, if there is one.
UpsertConnector(id, type) ==
  connectors' = IF \E i \in 1..Len(connectors) : connectors[i].id = id
                THEN [i \in 1..Len(connectors) |->
                        IF connectors[i].id = id THEN Applied(connectors[i], type)
                                                 ELSE connectors[i]]
                ELSE Append(connectors,
                       Applied([id |-> id, conn |-> CHOOSE c \in Conns : cid[c] = id,
                                registered |-> FALSE, lastPing |-> NeverPinged], type))

UpdateConnector(id, type) ==
  connectors' = [i \in 1..Len(connectors) |->
                   IF connectors[i].id = id THEN Applied(connectors[i], type)
                                            ELSE connectors[i]]

-----------------------------------------------------------------------------
(* addConnector, called by the accept loop for every accepted connection.  *)

AddConnectorNoWatcher(c) ==
  /\ ctl[c] = "off" /\ wl[c] = "off"
  /\ nextConnectorID < MaxID
  /\ nextConnectorID' = nextConnectorID + 1
  /\ connectors' = Append(connectors, [id |-> nextConnectorID', conn |-> c,
                          registered |-> FALSE, lastPing |-> NeverPinged])
  /\ ctl' = [ctl EXCEPT ![c] = "accept"]
  /\ cid' = [cid EXCEPT ![c] = nextConnectorID']
  /\ UNCHANGED <<wl, closed>>

AddConnector(c) ==
  /\ ctl[c] = "off" /\ wl[c] = "off"
  /\ nextConnectorID < MaxID
  /\ nextConnectorID' = nextConnectorID + 1
  /\ connectors' = Append(connectors, [id |-> nextConnectorID', conn |-> c,
                          registered |-> FALSE, lastPing |-> NeverPinged])
  /\ ctl' = [ctl EXCEPT ![c] = "accept"]
  /\ wl' = [wl EXCEPT ![c] = "watching"]
  /\ cid' = [cid EXCEPT ![c] = nextConnectorID']
  /\ UNCHANGED closed

-----------------------------------------------------------------------------
(* serveControl: AcceptStream, then one message per iteration.             *)

AcceptControl(c) ==
  /\ ctl[c] = "accept"
  /\ ctl' = [ctl EXCEPT ![c] = "reading"]
  /\ UNCHANGED <<connectors, nextConnectorID, wl, cid, closed>>

AcceptControlFails(c) ==
  /\ ctl[c] = "accept" /\ c \in closed
  /\ ctl' = [ctl EXCEPT ![c] = "off"]
  /\ UNCHANGED <<connectors, nextConnectorID, wl, cid, closed>>

\* The message may come out of the bufio.Reader after the connection closed.
OnRegister(c) ==
  /\ ctl[c] = "reading"
  /\ UpdateConnector(cid[c], "register")
  /\ UNCHANGED <<nextConnectorID, ctl, wl, cid, closed>>

OnPing(c) ==
  /\ ctl[c] = "reading"
  /\ UpdateConnector(cid[c], "ping")
  /\ UNCHANGED <<nextConnectorID, ctl, wl, cid, closed>>

OnUnregister(c) ==
  /\ ctl[c] = "reading"
  /\ UpdateConnector(cid[c], "unregister")
  /\ UNCHANGED <<nextConnectorID, ctl, wl, cid, closed>>

\* Read error: the connection failed, or the line was not a message.
ReadErrorKeepsRegistered(c) ==
  /\ ctl[c] = "reading"
  /\ ctl' = [ctl EXCEPT ![c] = "off"]
  /\ UNCHANGED <<connectors, nextConnectorID, wl, cid, closed>>

ControlReadError(c) ==
  /\ ctl[c] = "reading"
  /\ UpdateConnector(cid[c], "unregister")
  /\ ctl' = [ctl EXCEPT ![c] = "off"]
  /\ UNCHANGED <<nextConnectorID, wl, cid, closed>>

-----------------------------------------------------------------------------
(* watchLost: remove the first reference to the connection, if any.        *)

WatchLostKeepsRef(c) ==
  /\ wl[c] = "watching" /\ c \in closed
  /\ wl' = [wl EXCEPT ![c] = "off"]
  /\ UNCHANGED <<connectors, nextConnectorID, ctl, cid, closed>>

WatchLost(c) ==
  /\ wl[c] = "watching" /\ c \in closed
  /\ \/ \E i \in 1..Len(connectors) :
          /\ connectors[i].conn = c
          /\ \A j \in 1..(i - 1) : connectors[j].conn # c
          /\ connectors' = WithoutIndex(connectors, i)
     \/ /\ \A i \in 1..Len(connectors) : connectors[i].conn # c
        /\ UNCHANGED connectors
  /\ wl' = [wl EXCEPT ![c] = "off"]
  /\ UNCHANGED <<nextConnectorID, ctl, cid, closed>>

-----------------------------------------------------------------------------
(* pickConnector and pickConnectorIndex, called by every request.          *)

UseHash(key) == TunnelLB = "hash" /\ key # ""

PickConnectorIndexConcurrent(n, key) ==
  IF UseHash(key) THEN Hash[key] % n ELSE (rr \div 2) % n

PickConnectorIndex(n, key) ==
  IF UseHash(key) THEN Hash[key] % n ELSE rr % n

\* The picks since the live list last changed, restarted once every
\* connector had its turn and when the counter wraps.
NextWindow(id) ==
  LET same == /\ window.live = LiveIds
              /\ Len(window.picked) < Len(LiveIds)
              /\ rr # 0
  IN [live |-> LiveIds,
      picked |-> IF same THEN Append(window.picked, id) ELSE <<id>>]

PickConnector(key) ==
  /\ LiveRefs # <<>>
  /\ LET id == LiveIds[PickConnectorIndex(Len(LiveRefs), key) + 1]
     IN \/ /\ UseHash(key)
           /\ pinned' = [pinned EXCEPT ![key] = id]
           /\ UNCHANGED <<rr, window>>
        \/ /\ ~UseHash(key)
           /\ rr' = (rr + 1) % RRWidth
           /\ window' = NextWindow(id)
           /\ UNCHANGED pinned
  /\ UNCHANGED regVars

-----------------------------------------------------------------------------
(* The environment.                                                        *)

\* quic-go ends the connection: peer close, idle timeout, reset.
ConnClosed(c) ==
  /\ c \notin closed /\ wl[c] = "watching"
  /\ closed' = closed \cup {c}
  /\ UNCHANGED <<connectors, nextConnectorID, ctl, wl, cid>>

\* The *quic.Conn is unreachable once both goroutines ended.
ConnFreed(c) ==
  /\ c \in closed /\ wl[c] = "off" /\ ctl[c] = "off"
  /\ closed' = closed \ {c}
  /\ UNCHANGED <<connectors, nextConnectorID, ctl, wl, cid>>

Tick ==
  /\ connectors' = [i \in 1..Len(connectors) |->
                     [connectors[i] EXCEPT !.lastPing = Older(@)]]
  /\ UNCHANGED <<nextConnectorID, ctl, wl, cid, closed>>

-----------------------------------------------------------------------------

Init ==
  /\ connectors = <<>>
  /\ nextConnectorID = 0
  /\ ctl = [c \in Conns |-> "off"]
  /\ wl = [c \in Conns |-> "off"]
  /\ cid = [c \in Conns |-> 0]
  /\ closed = {}
  /\ rr = 0
  /\ window = [live |-> <<>>, picked |-> <<>>]
  /\ pinned = [k \in Keys |-> 0]

RegistryStep ==
  \/ \E c \in Conns : /\ c \notin closed
                      /\ AddConnector(c)
  \/ \E c \in Conns : AcceptControl(c)
  \/ \E c \in Conns : AcceptControlFails(c)
  \/ \E c \in Conns : OnRegister(c)
  \/ \E c \in Conns : OnPing(c)
  \/ \E c \in Conns : OnUnregister(c)
  \/ \E c \in Conns : ControlReadError(c)
  \/ \E c \in Conns : WatchLost(c)
  \/ \E c \in Conns : ConnClosed(c)
  \/ \E c \in Conns : ConnFreed(c)
  \/ Tick

Next ==
  \/ RegistryStep /\ UNCHANGED pickVars
  \/ \E k \in Keys : PickConnector(k)

\* The goroutines run; connections, messages, requests and time owe nothing.
Fairness == \A c \in Conns : /\ WF_vars(WatchLost(c) /\ UNCHANGED pickVars)
                             /\ WF_vars(AcceptControlFails(c) /\ UNCHANGED pickVars)

Spec == Init /\ [][Next]_vars /\ Fairness

-----------------------------------------------------------------------------
(* Properties.                                                             *)

\* Types of the variables.
TypeOK ==
  /\ connectors \in Seq(ConnectorRef)
  /\ nextConnectorID \in 0..MaxID
  /\ ctl \in [Conns -> {"off", "accept", "reading"}]
  /\ wl \in [Conns -> {"off", "watching"}]
  /\ cid \in [Conns -> 0..MaxID]
  /\ closed \subseteq Conns
  /\ rr \in 0..(RRWidth - 1)

\* The slice is ordered by id and no id is above the counter, so that an
\* update by id (updateConnector) reaches exactly one reference.
OrderedByID ==
  /\ \A i, j \in 1..Len(connectors) : i < j => connectors[i].id < connectors[j].id
  /\ \A i \in 1..Len(connectors) : connectors[i].id \in 1..nextConnectorID

\* watchLost searches by connection and updateConnector by id: a connection
\* has a reference in the slice exactly while its watchLost goroutine is
\* still waiting, the reference is unique and it carries the id that the
\* connection's goroutines captured.  Nothing stays in the slice that no
\* goroutine will remove.
RefIffWatched ==
  /\ \A i \in 1..Len(connectors) :
        /\ wl[connectors[i].conn] = "watching"
        /\ cid[connectors[i].conn] = connectors[i].id
  /\ \A c \in Conns : wl[c] = "watching" =>
        \E i \in 1..Len(connectors) : connectors[i].conn = c

\* A connector counted as registered still has the serveControl goroutine
\* that can unregister it; once that goroutine is gone (read error, malformed
\* line) the connector is not registered, even if QUIC stays up.
RegisteredHasReader ==
  \A i \in 1..Len(connectors) :
     connectors[i].registered => ctl[connectors[i].conn] = "reading"

\* A registered reference always has a ping time, whichever of register, ping,
\* unregister and register again came first: the lastPing.IsZero() escape in
\* live() (edge.go:320), with which a connector that dies before its first ping
\* would stay in rotation however long nothing is heard of it, never applies.
RegisteredHasPing ==
  \A i \in 1..Len(connectors) :
     connectors[i].registered => connectors[i].lastPing # NeverPinged

\* Round robin: over an unchanged list of n live connectors, n consecutive
\* picks reach n different connectors, whatever happened to the registry
\* before (removals shift the slice, the counter keeps counting).
RoundRobinEven ==
  \A i, j \in 1..Len(window.picked) :
     i # j => window.picked[i] # window.picked[j]

\* A reference that left the slice never comes back: messages read from the
\* control stream after watchLost removed the connector change nothing.
Ids == {connectors[i].id : i \in 1..Len(connectors)}
NoResurrection ==
  [][\A id \in 1..nextConnectorID : id \notin Ids => id \notin Ids']_vars

\* A connection that QUIC reports closed leaves the slice.
ClosedIsRemoved ==
  \A c \in Conns : (c \in closed) ~> \A i \in 1..Len(connectors) : connectors[i].conn # c

\* README.md, on EDGE_TUNNEL_LB=hash: "pins a request path to one connector".
\* While the connector last picked for a path is live, it stays picked.
HashPinsPath ==
  [][\A k \in Keys : pinned[k] \in {LiveIds[i] : i \in 1..Len(LiveIds)}
                       => pinned'[k] = pinned[k]]_pinned
=============================================================================
