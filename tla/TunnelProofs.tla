---------------------------- MODULE TunnelProofs ----------------------------
(***************************************************************************)
(* Safety of the tunnel, edge and connectors together, for any number of   *)
(* connections, processes and faults, any HA count, delay and keepalive:   *)
(* no reconnect leaks a connection, a dead connector is not picked beyond  *)
(* the stale limit, a healthy one stays live, and the edge's view of a     *)
(* connection follows ConnectorLifecycle.                                  *)
(*                                                                         *)
(* The slice of references is first replaced by what it says of each       *)
(* connection (RegisteredAt and Age); the rest of the argument is about    *)
(* one connection at a time (Good).                                        *)
(***************************************************************************)
EXTENDS Tunnel, EdgeRegistryProofs

-----------------------------------------------------------------------------
(* The slice, seen from the connections.                                   *)

\* The age of the last ping of c's reference; a connection without one has
\* never pinged.
Age(c) ==
  IF wl[c] = "watching"
  THEN connectors[CHOOSE i \in 1..Len(connectors) : connectors[i].conn = c].lastPing
  ELSE NeverPinged

View ==
  /\ \A i \in 1..Len(connectors) :
       /\ connectors[i].conn \in Conns /\ wl[connectors[i].conn] = "watching"
       /\ RegisteredAt(connectors[i].conn) <=> connectors[i].registered
       /\ Age(connectors[i].conn) = connectors[i].lastPing
  /\ \A c \in Conns :
       /\ wl[c] = "watching" => \E i \in 1..Len(connectors) : connectors[i].conn = c
       /\ wl[c] # "watching" => ~RegisteredAt(c) /\ Age(c) = NeverPinged
       /\ RegisteredAt(c) => Age(c) # NeverPinged /\ ctl[c] = "reading"
       /\ Age(c) \in Ages

\* RegisteredAt and Age are what the one reference of a connection says.
LEMMA ViewHolds == IInv => View
<1> SUFFICES ASSUME IInv PROVE View
  OBVIOUS
<1>1. ASSUME NEW i \in 1..Len(connectors)
      PROVE  /\ connectors[i].conn \in Conns /\ wl[connectors[i].conn] = "watching"
             /\ RegisteredAt(connectors[i].conn) <=> connectors[i].registered
             /\ Age(connectors[i].conn) = connectors[i].lastPing
  <2>1. connectors[i].conn \in Conns /\ wl[connectors[i].conn] = "watching"
    BY RefType DEF IInv, RefInv, RefIffWatched
  <2>2. \A j \in 1..Len(connectors) : connectors[j].conn = connectors[i].conn => j = i
    BY ConnIsUnique
  <2>3. RegisteredAt(connectors[i].conn) <=> connectors[i].registered
    BY <2>2 DEF RegisteredAt
  <2> DEFINE d == connectors[i].conn
             k == CHOOSE j \in 1..Len(connectors) : connectors[j].conn = d
  <2>4. k \in 1..Len(connectors) /\ connectors[k].conn = d
    OBVIOUS
  <2>5. k = i
    BY <2>2, <2>4
  <2> QED
    BY <2>1, <2>3, <2>5 DEF Age
<1>2. ASSUME NEW c \in Conns
      PROVE  /\ wl[c] = "watching" => \E i \in 1..Len(connectors) : connectors[i].conn = c
             /\ wl[c] # "watching" => ~RegisteredAt(c) /\ Age(c) = NeverPinged
             /\ RegisteredAt(c) => Age(c) # NeverPinged /\ ctl[c] = "reading"
             /\ Age(c) \in Ages
  <2>1. wl[c] = "watching" => \E i \in 1..Len(connectors) : connectors[i].conn = c
    BY DEF IInv, RefInv, RefIffWatched
  <2>2. wl[c] # "watching" => ~RegisteredAt(c) /\ Age(c) = NeverPinged
    BY DEF IInv, RefInv, RefIffWatched, RegisteredAt, Age
  <2>3. RegisteredAt(c) => Age(c) # NeverPinged /\ ctl[c] = "reading"
    <3> SUFFICES ASSUME RegisteredAt(c) PROVE Age(c) # NeverPinged /\ ctl[c] = "reading"
      OBVIOUS
    <3>1. PICK i \in 1..Len(connectors) : connectors[i].conn = c /\ connectors[i].registered
      BY DEF RegisteredAt
    <3>2. connectors[i].lastPing # NeverPinged /\ ctl[c] = "reading"
      BY <3>1 DEF IInv, RegInv, RegisteredHasReader, RegisteredHasPing
    <3>3. Age(c) = connectors[i].lastPing
      BY <1>1, <3>1
    <3> QED
      BY <3>2, <3>3
  <2>4. Age(c) \in Ages
    <3>1. CASE wl[c] # "watching"
      BY <2>2, <3>1 DEF Ages
    <3>2. CASE wl[c] = "watching"
      <4>1. PICK i \in 1..Len(connectors) : connectors[i].conn = c
        BY <2>1, <3>2
      <4>2. Age(c) = connectors[i].lastPing /\ connectors[i].lastPing \in Ages
        BY <1>1, <4>1, RefType DEF IInv
      <4> QED
        BY <4>2
    <3> QED
      BY <3>1, <3>2
  <2> QED
    BY <2>1, <2>2, <2>3, <2>4
<1> QED
  BY <1>1, <1>2 DEF View

\* The same of the next state.
LEMMA ViewHoldsNext == IInv' => View'
BY ViewHolds, PTL

\* A step that leaves the slice and the watchers alone.
LEMMA ViewSame ==
  ASSUME UNCHANGED <<connectors, wl>>, NEW d
  PROVE  (RegisteredAt(d)' <=> RegisteredAt(d)) /\ Age(d)' = Age(d)
BY DEF RegisteredAt, Age

\* A step that rewrites references where they are.
LEMMA ViewInPlace ==
  ASSUME View, View', UNCHANGED wl, Len(connectors') = Len(connectors),
         \A i \in 1..Len(connectors) : connectors'[i].conn = connectors[i].conn,
         NEW d \in Conns, wl[d] = "watching"
  PROVE  \E i \in 1..Len(connectors) :
           /\ connectors[i].conn = d
           /\ RegisteredAt(d) <=> connectors[i].registered
           /\ Age(d) = connectors[i].lastPing
           /\ RegisteredAt(d)' <=> connectors'[i].registered
           /\ Age(d)' = connectors'[i].lastPing
<1>1. PICK i \in 1..Len(connectors) : connectors[i].conn = d
  BY DEF View
<1>2. (RegisteredAt(d) <=> connectors[i].registered) /\ Age(d) = connectors[i].lastPing
  BY <1>1 DEF View
<1>3. i \in 1..Len(connectors') /\ connectors'[i].conn = d
  BY <1>1
<1>4. \A j \in 1..Len(connectors') : connectors'[j].conn = d =>
        (RegisteredAt(d)' <=> connectors'[j].registered) /\ Age(d)' = connectors'[j].lastPing
  BY DEF View
<1> QED
  BY <1>1, <1>2, <1>3, <1>4

\* What is unwatched before and after says the same.
LEMMA ViewUnwatched ==
  ASSUME View, View', NEW d \in Conns, wl[d] # "watching", wl'[d] # "watching"
  PROVE  (RegisteredAt(d)' <=> RegisteredAt(d)) /\ Age(d)' = Age(d)
BY DEF View

\* A message of c, or the error in its place, changes what the slice says of c
\* alone, if it still has a reference.
LEMMA MessageView ==
  ASSUME IInv, IInv', NEW c \in Conns, NEW type \in {"register", "ping", "unregister"},
         UpdateConnector(cid[c], type), UNCHANGED wl,
         \/ OnRegister(c) \/ OnPing(c) \/ OnUnregister(c) \/ ControlReadError(c)
  PROVE  /\ \A d \in Conns : d # c =>
              (RegisteredAt(d)' <=> RegisteredAt(d)) /\ Age(d)' = Age(d)
         /\ wl[c] = "watching" =>
              /\ type = "register" => RegisteredAt(c)' /\ Age(c)' = 0
              /\ type = "ping" => (RegisteredAt(c)' <=> RegisteredAt(c)) /\ Age(c)' = 0
              /\ type = "unregister" => ~RegisteredAt(c)' /\ Age(c)' = Age(c)
<1>1. View /\ View'
  BY ViewHolds, ViewHoldsNext
<1>2. /\ Len(connectors') = Len(connectors)
      /\ \A i \in 1..Len(connectors) : connectors'[i].conn = connectors[i].conn
  BY MessageFrame
<1>3. \A i \in 1..Len(connectors) :
        connectors'[i] = IF connectors[i].id = cid[c] THEN Applied(connectors[i], type)
                         ELSE connectors[i]
  BY DEF UpdateConnector
<1>4. ASSUME NEW d \in Conns, d # c
      PROVE  (RegisteredAt(d)' <=> RegisteredAt(d)) /\ Age(d)' = Age(d)
  <2>1. CASE wl[d] # "watching"
    BY <1>1, <2>1, ViewUnwatched
  <2>2. CASE wl[d] = "watching"
    <3>1. PICK i \in 1..Len(connectors) :
            /\ connectors[i].conn = d
            /\ RegisteredAt(d) <=> connectors[i].registered
            /\ Age(d) = connectors[i].lastPing
            /\ RegisteredAt(d)' <=> connectors'[i].registered
            /\ Age(d)' = connectors'[i].lastPing
      BY <1>1, <1>2, <2>2, ViewInPlace
    <3>2. connectors[i].id # cid[c]
      BY <1>4, <3>1, IdIsConn
    <3>3. connectors'[i] = connectors[i]
      BY <1>3, <3>2
    <3> QED
      BY <3>1, <3>3
  <2> QED
    BY <2>1, <2>2
<1>5. ASSUME wl[c] = "watching"
      PROVE  /\ type = "register" => RegisteredAt(c)' /\ Age(c)' = 0
             /\ type = "ping" => (RegisteredAt(c)' <=> RegisteredAt(c)) /\ Age(c)' = 0
             /\ type = "unregister" => ~RegisteredAt(c)' /\ Age(c)' = Age(c)
  <2>1. PICK i \in 1..Len(connectors) :
          /\ connectors[i].conn = c
          /\ RegisteredAt(c) <=> connectors[i].registered
          /\ Age(c) = connectors[i].lastPing
          /\ RegisteredAt(c)' <=> connectors'[i].registered
          /\ Age(c)' = connectors'[i].lastPing
    BY <1>1, <1>2, <1>5, ViewInPlace
  <2>2. connectors[i].id = cid[c] /\ connectors[i] \in ConnectorRef
    BY <2>1, RefType DEF IInv, RefInv, RefIffWatched
  <2>3. connectors'[i] = Applied(connectors[i], type)
    BY <1>3, <2>2
  <2> DEFINE r == connectors[i]
  <2>4. /\ SetRegistered(r).registered = TRUE /\ SetRegistered(r).lastPing = 0
        /\ SetPinged(r).registered = r.registered /\ SetPinged(r).lastPing = 0
        /\ SetUnregistered(r).registered = FALSE /\ SetUnregistered(r).lastPing = r.lastPing
    BY <2>2 DEF ConnectorRef, SetRegistered, SetPinged, SetUnregistered
  <2> HIDE DEF r
  <2>5. CASE type = "register"
    <3>1. connectors'[i] = SetRegistered(r)
      BY <2>3, <2>5 DEF Applied, r
    <3> QED
      BY <2>1, <2>4, <2>5, <3>1
  <2>6. CASE type = "ping"
    <3>1. connectors'[i] = SetPinged(r)
      BY <2>3, <2>6 DEF Applied, r
    <3> QED
      BY <2>1, <2>4, <2>6, <3>1 DEF r
  <2>7. CASE type = "unregister"
    <3>1. connectors'[i] = SetUnregistered(r)
      BY <2>3, <2>7 DEF Applied, r
    <3> QED
      BY <2>1, <2>4, <2>7, <3>1 DEF r
  <2> QED
    BY <2>5, <2>6, <2>7
<1> QED
  BY <1>4, <1>5

\* A tick makes every reference older.
LEMMA TickView ==
  ASSUME IInv, IInv', Tick, NEW d \in Conns
  PROVE  (RegisteredAt(d)' <=> RegisteredAt(d)) /\ Age(d)' = Older(Age(d))
<1>1. View /\ View' /\ UNCHANGED wl
  BY ViewHolds, ViewHoldsNext DEF Tick
<1>2. CASE wl[d] # "watching"
  <2>1. ~RegisteredAt(d) /\ ~RegisteredAt(d)' /\ Age(d) = NeverPinged /\ Age(d)' = NeverPinged
    BY <1>1, <1>2 DEF View
  <2> QED
    BY <2>1 DEF Older
<1>3. CASE wl[d] = "watching"
  <2>1. PICK i \in 1..Len(connectors) :
          /\ connectors[i].conn = d
          /\ RegisteredAt(d) <=> connectors[i].registered
          /\ Age(d) = connectors[i].lastPing
          /\ RegisteredAt(d)' <=> connectors'[i].registered
          /\ Age(d)' = connectors'[i].lastPing
    BY <1>1, <1>3, TickFrame, ViewInPlace
  <2>2. /\ connectors'[i].registered = connectors[i].registered
        /\ connectors'[i].lastPing = Older(connectors[i].lastPing)
    BY <2>1, TickFrame
  <2> QED
    BY <2>1, <2>2
<1> QED
  BY <1>2, <1>3

\* A new connection is not registered and has not pinged.
LEMMA AddView ==
  ASSUME IInv, IInv', NEW c \in Conns, AddConnector(c)
  PROVE  /\ ~RegisteredAt(c)' /\ Age(c)' = NeverPinged
         /\ \A d \in Conns : d # c =>
              (RegisteredAt(d)' <=> RegisteredAt(d)) /\ Age(d)' = Age(d)
<1> DEFINE n == Len(connectors)
           new == [id |-> nextConnectorID + 1, conn |-> c, registered |-> FALSE,
                   lastPing |-> NeverPinged]
<1>1. /\ View /\ View' /\ connectors \in Seq(ConnectorRef) /\ n \in Nat
      /\ wl' = [wl EXCEPT ![c] = "watching"] /\ wl \in [Conns -> {"off", "watching"}]
      /\ nextConnectorID \in Nat
  BY ViewHolds, ViewHoldsNext, LenProperties DEF AddConnector, IInv, TypeOK
<1>2. connectors' = Append(connectors, new)
  BY DEF AddConnector
<1>3. new \in ConnectorRef
  BY <1>1 DEF ConnectorRef, Ages
<1>4. /\ Len(connectors') = n + 1 /\ connectors'[n + 1] = new
      /\ \A i \in 1..n : connectors'[i] = connectors[i]
  BY <1>1, <1>2, <1>3
<1>5. new.conn = c /\ new.registered = FALSE /\ new.lastPing = NeverPinged
  OBVIOUS
<1> HIDE DEF n, new
<1>6. n + 1 \in 1..Len(connectors')
  BY <1>1, <1>4
<1>7. \A j \in 1..Len(connectors') : connectors'[j].conn = c =>
        (RegisteredAt(c)' <=> connectors'[j].registered) /\ Age(c)' = connectors'[j].lastPing
  BY <1>1 DEF View
<1>8. ~RegisteredAt(c)' /\ Age(c)' = NeverPinged
  BY <1>4, <1>5, <1>6, <1>7
<1>9. ASSUME NEW d \in Conns, d # c
      PROVE  (RegisteredAt(d)' <=> RegisteredAt(d)) /\ Age(d)' = Age(d)
  <2>1. CASE wl[d] # "watching"
    BY <1>1, <1>9, <2>1, ViewUnwatched
  <2>2. CASE wl[d] = "watching"
    <3>1. PICK i \in 1..n : connectors[i].conn = d
      BY <1>1, <2>2 DEF View, n
    <3>2. (RegisteredAt(d) <=> connectors[i].registered) /\ Age(d) = connectors[i].lastPing
      BY <1>1, <3>1 DEF View, n
    <3>3. i \in 1..Len(connectors') /\ connectors'[i] = connectors[i]
      BY <1>1, <1>4, <3>1
    <3>4. (RegisteredAt(d)' <=> connectors'[i].registered) /\ Age(d)' = connectors'[i].lastPing
      BY <1>1, <3>1, <3>3 DEF View
    <3> QED
      BY <3>2, <3>3, <3>4
  <2> QED
    BY <2>1, <2>2
<1> QED
  BY <1>8, <1>9

\* A lost connection leaves the slice; what the slice says of the others stays.
LEMMA LostView ==
  ASSUME IInv, IInv', NEW c \in Conns, WatchLost(c)
  PROVE  \A d \in Conns : d # c =>
           (RegisteredAt(d)' <=> RegisteredAt(d)) /\ Age(d)' = Age(d)
<1> DEFINE n == Len(connectors)
<1>1. /\ View /\ View' /\ connectors \in Seq(ConnectorRef) /\ n \in Nat
      /\ wl[c] = "watching" /\ wl' = [wl EXCEPT ![c] = "off"]
      /\ wl \in [Conns -> {"off", "watching"}]
  BY ViewHolds, ViewHoldsNext, LenProperties DEF WatchLost, IInv, TypeOK
<1>2. PICK k \in 1..n : connectors[k].conn = c /\ connectors' = WithoutIndex(connectors, k)
  <2>1. \E i \in 1..n : connectors[i].conn = c
    BY <1>1 DEF View
  <2> QED
    BY <2>1 DEF WatchLost
<1>3. /\ Len(connectors') = n - 1
      /\ \A j \in 1..(n - 1) :
           connectors'[j] = IF j < k THEN connectors[j] ELSE connectors[j + 1]
  BY <1>1, <1>2, WithoutIndexProperties
<1> SUFFICES ASSUME NEW d \in Conns, d # c
             PROVE  (RegisteredAt(d)' <=> RegisteredAt(d)) /\ Age(d)' = Age(d)
  OBVIOUS
<1>4. CASE wl[d] # "watching"
  BY <1>1, <1>4, ViewUnwatched
<1>5. CASE wl[d] = "watching"
  <2>1. PICK i \in 1..n : connectors[i].conn = d
    BY <1>1, <1>5 DEF View
  <2>2. (RegisteredAt(d) <=> connectors[i].registered) /\ Age(d) = connectors[i].lastPing
    BY <1>1, <2>1 DEF View
  <2> HIDE DEF n
  <2>3. PICK j \in 1..(n - 1) : connectors'[j] = connectors[i]
    <3>1. CASE i < k
      <4>1. i \in 1..(n - 1)
        BY <1>1, <3>1
      <4> QED
        BY <1>3, <3>1, <4>1
    <3>2. CASE i > k
      <4>1. i - 1 \in 1..(n - 1) /\ ~(i - 1 < k) /\ (i - 1) + 1 = i
        BY <1>1, <3>2
      <4> QED
        BY <1>3, <4>1
    <3>3. i # k
      BY <1>2, <2>1
    <3> QED
      BY <1>1, <3>1, <3>2, <3>3
  <2>4. \A q \in 1..Len(connectors') : connectors'[q].conn = d =>
          (RegisteredAt(d)' <=> connectors'[q].registered) /\ Age(d)' = connectors'[q].lastPing
    BY <1>1 DEF View
  <2>5. j \in 1..Len(connectors') /\ connectors'[j].conn = d
    BY <1>3, <2>1, <2>3
  <2> QED
    BY <2>2, <2>3, <2>4, <2>5
<1> QED
  BY <1>4, <1>5

-----------------------------------------------------------------------------
(* The registry's invariant under the steps of the composition.            *)

\* The new edge process starts with an empty registry.
LEMMA EdgeCrashInv ==
  ASSUME IInv, EdgeCrash
  PROVE  IInv'
<1>1. connectors' \in Seq(ConnectorRef) /\ Len(connectors') = 0
  BY EmptySeq DEF EdgeCrash
<1>2. TypeOK'
  BY <1>1, RegistryAssumption DEF EdgeCrash, IInv, TypeOK, pickVars
<1>3. OrderedByID' /\ RegisteredHasReader' /\ RegisteredHasPing'
  BY <1>1 DEF OrderedByID, RegisteredHasReader, RegisteredHasPing
<1>4. RefIffWatched'
  BY <1>1 DEF EdgeCrash, RefIffWatched
<1>5. DistinctIds'
  BY DEF EdgeCrash, DistinctIds
<1> QED
  BY <1>2, <1>3, <1>4, <1>5 DEF IInv, RefInv, RegInv

\* A retired connection has no reference, so its id may go.
LEMMA RetireInv ==
  ASSUME IInv, NEW c \in Conns, Retire(c)
  PROVE  IInv'
<1>1. /\ UNCHANGED <<connectors, nextConnectorID, ctl, wl, rr>>
      /\ wl[c] = "off" /\ closed' = closed \ {c} /\ cid' = [cid EXCEPT ![c] = 0]
      /\ cid \in [Conns -> 0..MaxID] /\ nextConnectorID \in Nat
  BY DEF Retire, pickVars, IInv, TypeOK
<1>2. TypeOK'
  BY <1>1, RegistryAssumption DEF IInv, TypeOK
<1>3. OrderedByID'
  BY <1>1 DEF IInv, RefInv, OrderedByID
<1>4. RefIffWatched'
  <2>1. \A i \in 1..Len(connectors) :
          connectors[i].conn \in Conns /\ wl[connectors[i].conn] = "watching"
    BY ViewHolds DEF View
  <2>2. \A i \in 1..Len(connectors) : cid'[connectors[i].conn] = cid[connectors[i].conn]
    BY <1>1, <2>1
  <2> QED
    BY <1>1, <2>2 DEF IInv, RefInv, RefIffWatched
<1>5. DistinctIds'
  <2>1. \A d \in Conns : cid'[d] = IF d = c THEN 0 ELSE cid[d]
    BY <1>1
  <2> QED
    BY <1>1, <2>1 DEF IInv, RefInv, DistinctIds
<1>6. RegInv'
  BY <1>1 DEF IInv, RegInv, RegisteredHasReader, RegisteredHasPing
<1> QED
  BY <1>2, <1>3, <1>4, <1>5, <1>6 DEF IInv, RefInv

\* A step of a connector leaves the registry alone.
LEMMA RegistrySame ==
  ASSUME IInv, UNCHANGED <<regVars, rr>>
  PROVE  IInv'
<1>1. UNCHANGED <<connectors, nextConnectorID, ctl, wl, cid, closed, rr>>
  BY DEF regVars
<1>2. RefInv'
  BY <1>1, InPlace
<1> QED
  BY <1>1, <1>2 DEF IInv, TypeOK, RegInv, RegisteredHasReader, RegisteredHasPing

LEMMA EdgeStepInv ==
  ASSUME IInv, NEW c \in Conns, EdgeStep(c)
  PROVE  IInv'
<1>1. rr' = rr
  BY DEF EdgeStep, EdgeAccept, EdgeNeverSees, EdgeAcceptControl, EdgeAcceptControlFails,
         EdgeReads, EdgeReadError, EdgeWatchLost, EdgeSeesClose, EdgeOnly, pickVars
<1>2. CASE EdgeNeverSees(c)
  BY <1>1, <1>2, RegistrySame DEF EdgeNeverSees
<1>3. \/ EdgeNeverSees(c) \/ AddConnector(c) \/ AcceptControl(c) \/ AcceptControlFails(c)
      \/ OnRegister(c) \/ OnPing(c) \/ OnUnregister(c) \/ ControlReadError(c)
      \/ WatchLost(c) \/ ConnClosed(c)
  BY DEF EdgeStep, EdgeAccept, EdgeAcceptControl, EdgeAcceptControlFails,
         EdgeReads, EdgeReadError, EdgeWatchLost, EdgeSeesClose
<1> QED
  BY <1>1, <1>2, <1>3, AddConnectorInv, AcceptInv, MessageInv, WatchLostInv, ClosedInv

LEMMA RegistryNext == IInv /\ [TunnelNext]_tunnelVars => IInv'
<1> SUFFICES ASSUME IInv, [TunnelNext]_tunnelVars PROVE IInv'
  OBVIOUS
<1>1. ASSUME NEW c \in Conns, EdgeStep(c) PROVE IInv'
  BY <1>1, EdgeStepInv
<1>2. ASSUME NEW c \in Conns, Retire(c) PROVE IInv'
  BY <1>2, RetireInv
<1>3. CASE EdgeCrash
  BY <1>3, EdgeCrashInv
<1>4. CASE TimePasses
  BY <1>4, TickInv DEF TimePasses, pickVars
<1>5. CASE UNCHANGED <<regVars, rr>>
  BY <1>5, RegistrySame
<1>6. ASSUME NEW l \in Loops, LoopStep(l) \/ DialFails(l) PROVE UNCHANGED <<regVars, rr>>
  BY <1>6 DEF LoopStep, DialFails, Dial, LoopEnds, DelayEnds, OpenControl, WriteRegister,
              ServeEnds, CloseConn, BackoffEnds, ConnectorOnly, pickVars
<1>7. ASSUME NEW c \in Conns,
             \/ PingerSends(c) \/ PingerStops(c) \/ UnregisterSends(c) \/ Cut(c)
             \/ ConnectorSeesCut(c)
      PROVE  UNCHANGED <<regVars, rr>>
  BY <1>7 DEF PingerSends, PingerStops, UnregisterSends, Cut, ConnectorSeesCut,
              ConnectorOnly, pickVars
<1>8. ASSUME NEW p \in Procs, Shutdown(p) \/ ConnectorCrash(p) PROVE UNCHANGED <<regVars, rr>>
  BY <1>8 DEF Shutdown, ConnectorCrash, pickVars
<1>9. UNCHANGED tunnelVars => UNCHANGED <<regVars, rr>>
  BY DEF tunnelVars, pickVars
<1> QED
  BY <1>1, <1>2, <1>3, <1>4, <1>5, <1>6, <1>7, <1>8, <1>9 DEF TunnelNext

-----------------------------------------------------------------------------
(* Types and loops.                                                        *)

Messages == {"register", "ping", "unregister"}
Outside == {"dial", "backoff", "exit"}
Inside == {"delay", "open", "register", "serve", "leave"}

\* A loop has a connection exactly while runOnce is running, and nothing else
\* has it.
LoopInv ==
  /\ \A l \in Loops : conn[l] = None <=> pc[l] \in Outside
  /\ \A l \in Loops : conn[l] # None => cli[conn[l]] # "none"
  /\ NoLeakedConnection

\* What is lost of a queue is its end.
LEMMA PrefixProperties ==
  ASSUME NEW S, NEW s \in Seq(S), NEW q \in Prefixes(s)
  PROVE  /\ q \in Seq(S) /\ Len(q) \in 0..Len(s)
         /\ \A k \in 1..Len(q) : q[k] = s[k]
<1>1. Len(s) \in Nat
  BY LenProperties
<1>2. PICK k \in 0..Len(s) : q = SubSeq(s, 1, k)
  BY DEF Prefixes
<1>3. \A j \in 1..k : s[j] \in S
  BY <1>1, <1>2, ElementOfSeq
<1>4. /\ q \in Seq(S) /\ Len(q) = k
      /\ \A j \in 1..k : q[j] = s[j]
  BY <1>1, <1>2, <1>3, SubSeqProperties
<1> QED
  BY <1>1, <1>4

\* A write adds its message at the end, if it goes anywhere.
LEMMA SentProperties ==
  ASSUME TunnelTypeOK, NEW c \in Conns, NEW m \in Messages
  PROVE  /\ ctrl[c] \in Seq(Messages) /\ Sent(c, m) \in Seq(Messages)
         /\ c \in cut => Sent(c, m) = ctrl[c]
         /\ c \notin cut => /\ Len(Sent(c, m)) = Len(ctrl[c]) + 1
                            /\ Sent(c, m)[Len(ctrl[c]) + 1] = m
                            /\ \A k \in 1..Len(ctrl[c]) : Sent(c, m)[k] = ctrl[c][k]
<1>1. ctrl[c] \in Seq(Messages)
  BY DEF TunnelTypeOK, Messages
<1> QED
  BY <1>1, LenProperties DEF Sent

\* The process of a loop, and whether it was told to stop.
LEMMA LoopProc ==
  ASSUME NEW l \in Loops
  PROVE  l[1] \in Procs
BY DEF Loops

\* A loop inside runOnce has a connection that was dialled.
LEMMA InsideHasConn ==
  ASSUME TunnelTypeOK, LoopInv, NEW l \in Loops, pc[l] \in Inside
  PROVE  conn[l] \in Conns /\ conn[l] # None /\ cli[conn[l]] # "none"
<1>1. pc[l] \notin Outside
  BY DEF Inside, Outside
<1>2. conn[l] # None /\ conn[l] \in Conns \cup {None}
  BY <1>1 DEF LoopInv, TunnelTypeOK
<1> QED
  BY <1>2 DEF LoopInv

\* A step that leaves the loops, and what is open, alone.
LEMMA LoopsSame ==
  ASSUME LoopInv, UNCHANGED <<pc, conn, cli>>
  PROVE  LoopInv'
BY DEF LoopInv, NoLeakedConnection

\* A step of a loop that stays inside runOnce, or outside.
LEMMA LoopMoves ==
  ASSUME TunnelTypeOK, LoopInv, NEW l \in Loops, NEW a, UNCHANGED <<conn, cli>>,
         pc' = [pc EXCEPT ![l] = a],
         (pc[l] \in Outside /\ a \in Outside) \/ (pc[l] \in Inside /\ a \in Inside)
  PROVE  LoopInv'
<1>1. pc[l] \in Outside <=> a \in Outside
  BY DEF Outside, Inside
<1>2. \A m \in Loops : pc'[m] = IF m = l THEN a ELSE pc[m]
  BY DEF TunnelTypeOK
<1>3. \A m \in Loops : conn'[m] = None <=> pc'[m] \in Outside
  BY <1>1, <1>2 DEF LoopInv
<1> QED
  BY <1>3 DEF LoopInv, NoLeakedConnection

LEMMA DialLoops ==
  ASSUME TunnelTypeOK, LoopInv, NEW l \in Loops, Dial(l)
  PROVE  LoopInv'
<1> DEFINE c == CHOOSE c \in FreeConns : TRUE
           a == IF SkipRegister THEN "serve" ELSE IF Delay THEN "delay" ELSE "open"
<1>1. c \in Conns /\ cli[c] = "none"
  BY DEF Dial, FreeConns
<1>2. /\ conn' = [conn EXCEPT ![l] = c] /\ cli' = [cli EXCEPT ![c] = "open"]
      /\ pc' = [pc EXCEPT ![l] = a] /\ pc[l] = "dial"
  BY DEF Dial
<1>3. a \notin Outside /\ c # None
  BY <1>1, TunnelAssumption DEF Outside
<1> HIDE DEF a, c
<1>4. /\ \A m \in Loops : conn'[m] = IF m = l THEN c ELSE conn[m]
      /\ \A m \in Loops : pc'[m] = IF m = l THEN a ELSE pc[m]
      /\ \A d \in Conns : cli'[d] = IF d = c THEN "open" ELSE cli[d]
      /\ \A m \in Loops : conn[m] \in Conns \cup {None} /\ conn[m] # c
  BY <1>1, <1>2, <1>3 DEF TunnelTypeOK, LoopInv
<1>5. \A m \in Loops : conn'[m] = None <=> pc'[m] \in Outside
  BY <1>3, <1>4 DEF LoopInv
<1>6. \A m \in Loops : conn'[m] # None => cli'[conn'[m]] # "none"
  BY <1>1, <1>4 DEF LoopInv
<1>7. \A m, o \in Loops : m # o /\ conn'[m] = conn'[o] => conn'[m] = None
  BY <1>4 DEF LoopInv, NoLeakedConnection
<1>8. \A d \in Conns : cli'[d] = "open" => \E m \in Loops : conn'[m] = d
  <2> SUFFICES ASSUME NEW d \in Conns, cli'[d] = "open" PROVE \E m \in Loops : conn'[m] = d
    OBVIOUS
  <2>1. CASE d = c
    BY <1>4, <2>1
  <2>2. CASE d # c
    <3>1. PICK m \in Loops : conn[m] = d
      BY <1>4, <2>2 DEF LoopInv, NoLeakedConnection
    <3>2. pc[l] \in Outside /\ d # None
      BY <1>2, TunnelAssumption DEF Outside
    <3>3. m # l
      BY <3>1, <3>2 DEF LoopInv
    <3> QED
      BY <1>4, <3>1, <3>3
  <2> QED
    BY <2>1, <2>2
<1> QED
  BY <1>5, <1>6, <1>7, <1>8 DEF LoopInv, NoLeakedConnection

LEMMA CloseLoops ==
  ASSUME TunnelTypeOK, LoopInv, NEW l \in Loops, CloseConn(l)
  PROVE  LoopInv'
<1> DEFINE c == conn[l]
           a == IF Cancelled(l) THEN "exit" ELSE "backoff"
<1>1. /\ conn' = [conn EXCEPT ![l] = None] /\ cli' = [cli EXCEPT ![c] = "closed"]
      /\ pc' = [pc EXCEPT ![l] = a] /\ pc[l] = "leave"
  BY DEF CloseConn
<1>2. c \in Conns /\ a \in Outside
  BY <1>1, InsideHasConn DEF Inside, Outside
<1> HIDE DEF a, c
<1>3. /\ \A m \in Loops : conn'[m] = IF m = l THEN None ELSE conn[m]
      /\ \A m \in Loops : pc'[m] = IF m = l THEN a ELSE pc[m]
      /\ \A d \in Conns : cli'[d] = IF d = c THEN "closed" ELSE cli[d]
      /\ \A m \in Loops : conn[m] \in Conns \cup {None}
  BY <1>1, <1>2 DEF TunnelTypeOK
<1>4. \A m \in Loops : conn'[m] = None <=> pc'[m] \in Outside
  BY <1>2, <1>3 DEF LoopInv
<1>5. \A m \in Loops : conn'[m] # None => cli'[conn'[m]] # "none"
  BY <1>3 DEF LoopInv
<1>6. \A m, o \in Loops : m # o /\ conn'[m] = conn'[o] => conn'[m] = None
  BY <1>3 DEF LoopInv, NoLeakedConnection
<1>7. \A d \in Conns : cli'[d] = "open" => \E m \in Loops : conn'[m] = d
  <2> SUFFICES ASSUME NEW d \in Conns, cli'[d] = "open" PROVE \E m \in Loops : conn'[m] = d
    OBVIOUS
  <2>1. d # c /\ cli[d] = "open"
    BY <1>3
  <2>2. PICK m \in Loops : conn[m] = d
    BY <2>1 DEF LoopInv, NoLeakedConnection
  <2> QED
    BY <1>3, <2>1, <2>2 DEF c
<1> QED
  BY <1>4, <1>5, <1>6, <1>7 DEF LoopInv, NoLeakedConnection

LEMMA CrashLoops ==
  ASSUME TunnelTypeOK, LoopInv, NEW p \in Procs, ConnectorCrash(p)
  PROVE  LoopInv'
<1> DEFINE mine == {l \in Loops : l[1] = p}
           lost == {conn[l] : l \in mine} \ {None}
<1>1. /\ \A m \in Loops : conn'[m] = IF m \in mine THEN None ELSE conn[m]
      /\ \A m \in Loops : pc'[m] = IF m \in mine THEN "dial" ELSE pc[m]
      /\ \A d \in Conns : cli'[d] = IF d \in lost THEN "closed" ELSE cli[d]
      /\ \A m \in Loops : conn[m] \in Conns \cup {None}
  BY DEF ConnectorCrash, TunnelTypeOK
<1>2. \A m \in Loops : conn'[m] = None <=> pc'[m] \in Outside
  BY <1>1 DEF LoopInv, Outside
<1>3. \A m \in Loops : conn'[m] # None => cli'[conn'[m]] # "none"
  BY <1>1 DEF LoopInv
<1>4. \A m, o \in Loops : m # o /\ conn'[m] = conn'[o] => conn'[m] = None
  BY <1>1 DEF LoopInv, NoLeakedConnection
<1>5. \A d \in Conns : cli'[d] = "open" => \E m \in Loops : conn'[m] = d
  <2> SUFFICES ASSUME NEW d \in Conns, cli'[d] = "open" PROVE \E m \in Loops : conn'[m] = d
    OBVIOUS
  <2>1. d \notin lost /\ cli[d] = "open"
    BY <1>1
  <2>2. PICK m \in Loops : conn[m] = d
    BY <2>1 DEF LoopInv, NoLeakedConnection
  <2>3. m \notin mine
    BY <2>1, <2>2, TunnelAssumption
  <2> QED
    BY <1>1, <2>2, <2>3
<1> QED
  BY <1>2, <1>3, <1>4, <1>5 DEF LoopInv, NoLeakedConnection

LEMMA LoopsNext ==
  ASSUME TunnelTypeOK, LoopInv, [TunnelNext]_tunnelVars
  PROVE  LoopInv'
<1>1. ASSUME NEW c \in Conns, EdgeStep(c) PROVE LoopInv'
  <2>1. UNCHANGED <<pc, conn, cli>>
    BY <1>1 DEF EdgeStep, EdgeAccept, EdgeNeverSees, EdgeAcceptControl, EdgeAcceptControlFails,
         EdgeReads, EdgeReadError, EdgeWatchLost, EdgeSeesClose, EdgeOnly, procVars
  <2> QED
    BY <2>1, LoopsSame
<1>2. ASSUME NEW l \in Loops, LoopStep(l) \/ DialFails(l) PROVE LoopInv'
  <2>1. CASE Dial(l)
    BY <2>1, DialLoops
  <2>2. CASE LoopEnds(l) \/ DialFails(l) \/ BackoffEnds(l)
    <3>1. /\ UNCHANGED <<conn, cli>> /\ pc[l] \in Outside
          /\ \E a \in Outside : pc' = [pc EXCEPT ![l] = a]
      BY <2>2 DEF LoopEnds, DialFails, BackoffEnds, Outside
    <3> QED
      BY <3>1, LoopMoves
  <2>3. CASE DelayEnds(l) \/ OpenControl(l) \/ WriteRegister(l) \/ ServeEnds(l)
    <3>1. /\ UNCHANGED <<conn, cli>> /\ pc[l] \in Inside
          /\ \E a \in Inside : pc' = [pc EXCEPT ![l] = a]
      BY <2>3 DEF DelayEnds, OpenControl, WriteRegister, ServeEnds, Inside
    <3> QED
      BY <3>1, LoopMoves
  <2>4. CASE CloseConn(l)
    BY <2>4, CloseLoops
  <2> QED
    BY <1>2, <2>1, <2>2, <2>3, <2>4 DEF LoopStep
<1>3. ASSUME NEW c \in Conns, PingerSends(c) \/ PingerStops(c) \/ UnregisterSends(c) \/ Cut(c)
      PROVE  LoopInv'
  BY <1>3, LoopsSame DEF PingerSends, PingerStops, UnregisterSends, Cut, procVars
<1>4. ASSUME NEW c \in Conns, ConnectorSeesCut(c) PROVE LoopInv'
  <2>1. UNCHANGED <<pc, conn>> /\ \A d \in Conns : cli'[d] = IF d = c THEN "closed" ELSE cli[d]
    BY <1>4 DEF ConnectorSeesCut, procVars, TunnelTypeOK
  <2>2. \A m \in Loops : conn[m] \in Conns \cup {None}
    BY DEF TunnelTypeOK
  <2> QED
    BY <2>1, <2>2 DEF LoopInv, NoLeakedConnection
<1>5. ASSUME NEW c \in Conns, Retire(c) PROVE LoopInv'
  <2>1. /\ UNCHANGED <<pc, conn>> /\ \A d \in Conns : cli'[d] = IF d = c THEN "none" ELSE cli[d]
        /\ \A l \in Loops : conn[l] # c
    BY <1>5 DEF Retire, procVars, TunnelTypeOK
  <2>2. \A m \in Loops : conn[m] \in Conns \cup {None}
    BY DEF TunnelTypeOK
  <2> QED
    BY <2>1, <2>2 DEF LoopInv, NoLeakedConnection
<1>6. ASSUME NEW p \in Procs, ConnectorCrash(p) PROVE LoopInv'
  BY <1>6, CrashLoops
<1>7. ASSUME NEW p \in Procs, Shutdown(p) PROVE LoopInv'
  BY <1>7, LoopsSame DEF Shutdown, quicVars
<1>8. CASE EdgeCrash \/ TimePasses \/ UNCHANGED tunnelVars
  BY <1>8, LoopsSame DEF EdgeCrash, TimePasses, tunnelVars, procVars, quicVars
<1> QED
  BY <1>1, <1>2, <1>3, <1>4, <1>5, <1>6, <1>7, <1>8 DEF TunnelNext

\* The variables of the composition keep their types.
LEMMA EdgeTypes ==
  ASSUME TunnelTypeOK, TypeOK', NEW c \in Conns, EdgeStep(c)
  PROVE  TunnelTypeOK'
<1>1. UNCHANGED <<pc, conn, backoff, ctxDone, cli, pinger, unreg, cut, faults, dead>>
  BY DEF EdgeStep, EdgeAccept, EdgeNeverSees, EdgeAcceptControl, EdgeAcceptControlFails,
         EdgeReads, EdgeReadError, EdgeWatchLost, EdgeSeesClose, EdgeOnly, procVars
<1>2. srv' = srv \/ srv' = [srv EXCEPT ![c] = "taken"]
  BY DEF EdgeStep, EdgeAccept, EdgeNeverSees, EdgeAcceptControl, EdgeAcceptControlFails,
         EdgeReads, EdgeReadError, EdgeWatchLost, EdgeSeesClose
<1>3. \/ ctrl' = ctrl \/ ctrl' = [ctrl EXCEPT ![c] = <<>>]
      \/ ctrl[c] # <<>> /\ ctrl' = [ctrl EXCEPT ![c] = Tail(@)]
  BY DEF EdgeStep, EdgeAccept, EdgeNeverSees, EdgeAcceptControl, EdgeAcceptControlFails,
         EdgeReads, EdgeReadError, EdgeWatchLost, EdgeSeesClose
<1>4. ctrl' \in [Conns -> Seq({"register", "ping", "unregister"})]
  <2>1. ctrl[c] \in Seq(Messages)
    BY DEF TunnelTypeOK, Messages
  <2>2. <<>> \in Seq(Messages) /\ (ctrl[c] # <<>> => Tail(ctrl[c]) \in Seq(Messages))
    BY <2>1, EmptySeq, HeadTailProperties
  <2> QED
    BY <1>3, <2>2 DEF TunnelTypeOK, Messages
<1> QED
  BY <1>1, <1>2, <1>4 DEF TunnelTypeOK

LEMMA LoopTypes ==
  ASSUME TunnelTypeOK, LoopInv, TypeOK', NEW l \in Loops, LoopStep(l) \/ DialFails(l)
  PROVE  TunnelTypeOK'
<1>1. CASE Dial(l)
  <2> DEFINE c == CHOOSE c \in FreeConns : TRUE
             a == IF SkipRegister THEN "serve" ELSE IF Delay THEN "delay" ELSE "open"
  <2>1. c \in Conns
    BY <1>1 DEF Dial, FreeConns
  <2>2. /\ conn' = [conn EXCEPT ![l] = c] /\ cli' = [cli EXCEPT ![c] = "open"]
        /\ srv' = [srv EXCEPT ![c] = "pending"] /\ pc' = [pc EXCEPT ![l] = a]
        /\ UNCHANGED <<backoff, ctxDone, ctrl, pinger, unreg, cut, faults, dead>>
    BY <1>1 DEF Dial
  <2>3. a \in {"serve", "delay", "open"}
    OBVIOUS
  <2> HIDE DEF a, c
  <2> QED
    BY <2>1, <2>2, <2>3 DEF TunnelTypeOK
<1>2. CASE LoopEnds(l) \/ DelayEnds(l) \/ OpenControl(l) \/ ServeEnds(l)
  <2>1. /\ UNCHANGED <<conn, backoff, ctxDone, cli, srv, ctrl, pinger, unreg, cut, faults, dead>>
        /\ \E a \in {"exit", "leave", "open", "register"} : pc' = [pc EXCEPT ![l] = a]
    BY <1>2 DEF LoopEnds, DelayEnds, OpenControl, ServeEnds, ConnectorOnly
  <2> QED
    BY <2>1 DEF TunnelTypeOK
<1>3. CASE WriteRegister(l)
  <2> DEFINE c == conn[l]
  <2>1. c \in Conns
    BY <1>3, InsideHasConn DEF WriteRegister, Inside
  <2>2. Sent(c, "register") \in Seq(Messages)
    BY <2>1, SentProperties DEF Messages
  <2>3. /\ UNCHANGED <<conn, backoff, ctxDone, cli, srv, cut, faults, dead>>
        /\ \E a \in {"serve", "leave"} : pc' = [pc EXCEPT ![l] = a]
        /\ ctrl' = ctrl \/ ctrl' = [ctrl EXCEPT ![c] = Sent(c, "register")]
        /\ pinger' = pinger \/ pinger' = [pinger EXCEPT ![c] = PingEvery]
        /\ unreg' = unreg \/ unreg' = unreg \cup {c}
    BY <1>3 DEF WriteRegister, ConnectorOnly
  <2> HIDE DEF c
  <2>4. PingEvery \in 0..PingEvery
    BY TunnelAssumption
  <2>5. ctrl' \in [Conns -> Seq(Messages)]
    BY <2>1, <2>2, <2>3 DEF TunnelTypeOK, Messages
  <2>6. pinger' \in [Conns -> {PingerOff} \cup 0..PingEvery]
    BY <2>1, <2>3, <2>4 DEF TunnelTypeOK
  <2>7. unreg' \subseteq Conns
    BY <2>1, <2>3 DEF TunnelTypeOK
  <2>8. pc' \in [Loops -> {"dial", "delay", "open", "register", "serve", "leave",
                          "backoff", "exit"}]
    BY <2>3 DEF TunnelTypeOK
  <2> QED
    BY <2>3, <2>5, <2>6, <2>7, <2>8 DEF TunnelTypeOK, Messages
<1>4. CASE CloseConn(l)
  <2>1. conn[l] \in Conns
    BY <1>4, InsideHasConn DEF CloseConn, Inside
  <2>2. PICK q \in Prefixes(ctrl[conn[l]]) : ctrl' = [ctrl EXCEPT ![conn[l]] = q]
    BY <1>4 DEF CloseConn
  <2>3. ctrl[conn[l]] \in Seq(Messages)
    BY <2>1 DEF TunnelTypeOK, Messages
  <2>4. q \in Seq(Messages)
    BY <2>3, PrefixProperties
  <2>5. /\ UNCHANGED <<backoff, ctxDone, srv, cut, faults, dead>>
        /\ conn' = [conn EXCEPT ![l] = None] /\ cli' = [cli EXCEPT ![conn[l]] = "closed"]
        /\ pinger' = [pinger EXCEPT ![conn[l]] = PingerOff] /\ unreg' = unreg \ {conn[l]}
        /\ \E a \in {"exit", "backoff"} : pc' = [pc EXCEPT ![l] = a]
    BY <1>4 DEF CloseConn, ConnectorOnly, GoroutinesEnd
  <2> QED
    BY <2>1, <2>2, <2>4, <2>5 DEF TunnelTypeOK, Messages
<1>5. CASE BackoffEnds(l)
  <2>1. \A b \in Nat : NextBackoff(b) \in Nat
    BY DEF NextBackoff
  <2>2. /\ UNCHANGED <<conn, ctxDone, cli, srv, ctrl, pinger, unreg, cut, faults, dead>>
        /\ pc' = [pc EXCEPT ![l] = "dial"]
        /\ backoff' = [backoff EXCEPT ![l] = NextBackoff(backoff[l])]
    BY <1>5 DEF BackoffEnds, ConnectorOnly
  <2> QED
    BY <2>1, <2>2 DEF TunnelTypeOK
<1>6. CASE DialFails(l)
  <2>1. /\ UNCHANGED <<conn, backoff, ctxDone, cli, srv, ctrl, pinger, unreg, cut, dead>>
        /\ pc' = [pc EXCEPT ![l] = "backoff"] /\ faults < MaxFaults /\ faults' = faults + 1
    BY <1>6 DEF DialFails, ConnectorOnly
  <2> QED
    BY <2>1, TunnelAssumption DEF TunnelTypeOK
<1> QED
  BY <1>1, <1>2, <1>3, <1>4, <1>5, <1>6 DEF LoopStep

LEMMA ConnTypes ==
  ASSUME TunnelTypeOK, TypeOK', NEW c \in Conns,
         \/ PingerSends(c) \/ PingerStops(c) \/ UnregisterSends(c) \/ Cut(c)
         \/ ConnectorSeesCut(c) \/ Retire(c)
  PROVE  TunnelTypeOK'
<1>1. PingEvery \in 0..PingEvery /\ MaxFaults \in Nat /\ 0 \in 0..StaleAfter
  BY TunnelAssumption, StaleAfterType
<1>2. ctrl[c] \in Seq(Messages) /\ <<>> \in Seq(Messages)
  BY EmptySeq DEF TunnelTypeOK, Messages
<1>3. CASE PingerSends(c) \/ UnregisterSends(c)
  <2>1. \A m \in Messages : Sent(c, m) \in Seq(Messages)
    BY SentProperties
  <2>2. /\ UNCHANGED <<pc, conn, backoff, ctxDone, cli, srv, cut, faults, dead>>
        /\ \E m \in Messages : ctrl' = [ctrl EXCEPT ![c] = Sent(c, m)]
        /\ pinger' = pinger \/ pinger' = [pinger EXCEPT ![c] = PingEvery]
        /\ unreg' = unreg \/ unreg' = unreg \ {c}
    BY <1>3 DEF PingerSends, UnregisterSends, ConnectorOnly, Messages
  <2>3. ctrl' \in [Conns -> Seq(Messages)]
    BY <2>1, <2>2 DEF TunnelTypeOK, Messages
  <2>4. pinger' \in [Conns -> {PingerOff} \cup 0..PingEvery] /\ unreg' \subseteq Conns
    BY <1>1, <2>2, SMTT(30) DEF TunnelTypeOK
  <2> QED
    BY <2>2, <2>3, <2>4 DEF TunnelTypeOK, Messages
<1>4. CASE PingerStops(c)
  <2>1. /\ UNCHANGED <<pc, conn, backoff, ctxDone, cli, srv, ctrl, unreg, cut, faults, dead>>
        /\ pinger' = [pinger EXCEPT ![c] = PingerOff]
    BY <1>4 DEF PingerStops, ConnectorOnly
  <2> QED
    BY <2>1 DEF TunnelTypeOK
<1>5. CASE Cut(c)
  <2>1. PICK q \in Prefixes(ctrl[c]) : ctrl' = [ctrl EXCEPT ![c] = q]
    BY <1>5 DEF Cut
  <2>2. q \in Seq(Messages)
    BY <1>2, PrefixProperties
  <2>3. /\ UNCHANGED <<pc, conn, backoff, ctxDone, cli, srv, pinger, unreg, dead>>
        /\ cut' = cut \cup {c} /\ faults < MaxFaults /\ faults' = faults + 1
    BY <1>5 DEF Cut, procVars
  <2> QED
    BY <1>1, <2>1, <2>2, <2>3 DEF TunnelTypeOK, Messages
<1>6. CASE ConnectorSeesCut(c)
  <2>1. /\ UNCHANGED <<pc, conn, backoff, ctxDone, srv, ctrl, cut, faults, dead>>
        /\ cli' = [cli EXCEPT ![c] = "closed"]
        /\ pinger' = [pinger EXCEPT ![c] = PingerOff] /\ unreg' = unreg \ {c}
    BY <1>6 DEF ConnectorSeesCut, GoroutinesEnd, procVars
  <2> QED
    BY <2>1 DEF TunnelTypeOK
<1>7. CASE Retire(c)
  <2>1. /\ UNCHANGED <<pc, conn, backoff, ctxDone, pinger, unreg, faults>>
        /\ cli' = [cli EXCEPT ![c] = "none"] /\ srv' = [srv EXCEPT ![c] = "none"]
        /\ ctrl' = [ctrl EXCEPT ![c] = <<>>] /\ cut' = cut \ {c}
        /\ dead' = [dead EXCEPT ![c] = 0]
    BY <1>7 DEF Retire, procVars
  <2> QED
    BY <1>1, <1>2, <2>1 DEF TunnelTypeOK, Messages
<1> QED
  BY <1>3, <1>4, <1>5, <1>6, <1>7

LEMMA TypesNext ==
  ASSUME TunnelTypeOK, LoopInv, TypeOK', [TunnelNext]_tunnelVars
  PROVE  TunnelTypeOK'
<1>1. ASSUME NEW c \in Conns, EdgeStep(c) PROVE TunnelTypeOK'
  BY <1>1, EdgeTypes
<1>2. ASSUME NEW l \in Loops, LoopStep(l) \/ DialFails(l) PROVE TunnelTypeOK'
  BY <1>2, LoopTypes
<1>3. ASSUME NEW c \in Conns,
             \/ PingerSends(c) \/ PingerStops(c) \/ UnregisterSends(c) \/ Cut(c)
             \/ ConnectorSeesCut(c) \/ Retire(c)
      PROVE  TunnelTypeOK'
  BY <1>3, ConnTypes
<1>4. ASSUME NEW p \in Procs, Shutdown(p) PROVE TunnelTypeOK'
  BY <1>4 DEF Shutdown, quicVars, TunnelTypeOK
<1>5. ASSUME NEW p \in Procs, ConnectorCrash(p) PROVE TunnelTypeOK'
  <2> DEFINE mine == {l \in Loops : l[1] = p}
             lost == {conn[l] : l \in mine} \ {None}
  <2>1. /\ pc' = [l \in Loops |-> IF l \in mine THEN "dial" ELSE pc[l]]
        /\ conn' = [l \in Loops |-> IF l \in mine THEN None ELSE conn[l]]
        /\ backoff' = [l \in Loops |-> IF l \in mine THEN 1 ELSE backoff[l]]
        /\ cli' = [c \in Conns |-> IF c \in lost THEN "closed" ELSE cli[c]]
        /\ pinger' = [c \in Conns |-> IF c \in lost THEN PingerOff ELSE pinger[c]]
        /\ unreg' = unreg \ lost /\ cut' = cut \cup lost
        /\ \E kept \in SUBSET lost :
             ctrl' = [c \in Conns |-> IF c \in lost \ kept THEN <<>> ELSE ctrl[c]]
        /\ faults < MaxFaults /\ faults' = faults + 1
        /\ ctxDone' = [ctxDone EXCEPT ![p] = FALSE] /\ UNCHANGED <<srv, dead>>
    BY <1>5 DEF ConnectorCrash
  <2>2. lost \subseteq Conns
    BY DEF TunnelTypeOK
  <2> HIDE DEF mine, lost
  <2>3. ctrl' \in [Conns -> Seq(Messages)]
    BY <2>1, EmptySeq DEF TunnelTypeOK, Messages
  <2>4. faults' \in 0..MaxFaults
    BY <2>1, TunnelAssumption DEF TunnelTypeOK
  <2>5. /\ pc' \in [Loops -> {"dial", "delay", "open", "register", "serve", "leave",
                              "backoff", "exit"}]
        /\ conn' \in [Loops -> Conns \cup {None}] /\ backoff' \in [Loops -> Nat]
        /\ ctxDone' \in [Procs -> BOOLEAN]
    BY <2>1 DEF TunnelTypeOK
  <2>6. /\ cli' \in [Conns -> {"none", "open", "closed"}]
        /\ pinger' \in [Conns -> {PingerOff} \cup 0..PingEvery]
        /\ unreg' \subseteq Conns /\ cut' \subseteq Conns
    BY <2>1, <2>2 DEF TunnelTypeOK
  <2> QED
    BY <2>1, <2>3, <2>4, <2>5, <2>6 DEF TunnelTypeOK, Messages
<1>6. CASE EdgeCrash
  <2>1. /\ UNCHANGED <<pc, conn, backoff, ctxDone, cli, pinger, unreg, dead>>
        /\ faults < MaxFaults /\ faults' = faults + 1
        /\ srv' = [c \in Conns |-> IF cli[c] = "none" THEN "none" ELSE "taken"]
        /\ ctrl' = [c \in Conns |-> <<>>] /\ cut' = {c \in Conns : cli[c] # "none"}
    BY <1>6 DEF EdgeCrash, procVars
  <2>2. ctrl' \in [Conns -> Seq(Messages)] /\ srv' \in [Conns -> {"none", "pending", "taken"}]
    BY <2>1, EmptySeq
  <2>3. faults' \in 0..MaxFaults
    BY <2>1, TunnelAssumption DEF TunnelTypeOK
  <2> QED
    BY <2>1, <2>2, <2>3 DEF TunnelTypeOK, Messages
<1>7. CASE TimePasses
  <2>1. /\ UNCHANGED <<pc, conn, backoff, ctxDone, cli, srv, ctrl, unreg, cut, faults>>
        /\ \A c \in Conns : pinger[c] # 0
        /\ pinger' = [c \in Conns |-> IF pinger[c] = PingerOff THEN PingerOff ELSE pinger[c] - 1]
        /\ dead' = [c \in Conns |-> IF cli[c] = "none" \/ Carries(c) \/ dead[c] >= StaleAfter
                                    THEN dead[c] ELSE dead[c] + 1]
    BY <1>7 DEF TimePasses, procVars
  <2>2. pinger' \in [Conns -> {PingerOff} \cup 0..PingEvery]
    <3>1. \A c \in Conns : pinger[c] \in {PingerOff} \cup 0..PingEvery /\ pinger[c] # 0
      BY <2>1 DEF TunnelTypeOK
    <3>2. \A x \in 0..PingEvery : x # 0 => x - 1 \in 0..PingEvery
      BY TunnelAssumption
    <3> QED
      BY <2>1, <3>1, <3>2
  <2>3. dead' \in [Conns -> 0..StaleAfter]
    <3>1. \A x \in 0..StaleAfter : ~(x >= StaleAfter) => x + 1 \in 0..StaleAfter
      BY StaleAfterType
    <3>2. \A c \in Conns : dead[c] \in 0..StaleAfter
      BY DEF TunnelTypeOK
    <3> QED
      BY <2>1, <3>1, <3>2
  <2> QED
    BY <2>1, <2>2, <2>3 DEF TunnelTypeOK
<1>8. CASE UNCHANGED tunnelVars
  BY <1>8 DEF tunnelVars, procVars, quicVars, TunnelTypeOK
<1> QED
  BY <1>1, <1>2, <1>3, <1>4, <1>5, <1>6, <1>7, <1>8 DEF TunnelNext

LEMMA TunnelInitInv == TunnelInit => IInv /\ TunnelTypeOK /\ LoopInv
<1> SUFFICES ASSUME TunnelInit PROVE IInv /\ TunnelTypeOK /\ LoopInv
  OBVIOUS
<1>1. IInv
  BY InitInv DEF TunnelInit
<1>2. TunnelTypeOK
  <2>1. <<>> \in Seq({"register", "ping", "unregister"}) /\ 0 \in 0..StaleAfter /\ 0 \in 0..MaxFaults
    BY EmptySeq, StaleAfterType, TunnelAssumption
  <2> QED
    BY <1>1, <2>1 DEF TunnelInit, TunnelTypeOK, IInv
<1>3. LoopInv
  BY DEF TunnelInit, LoopInv, NoLeakedConnection, Outside
<1> QED
  BY <1>1, <1>2, <1>3

-----------------------------------------------------------------------------
(* What holds of every connection.                                         *)

\* The ping loop or the unregister goroutine may still write.
Speaks(c) == pinger[c] # PingerOff \/ c \in unreg

\* The edge reads the connection, or will.
Heard(c) == srv[c] = "pending" \/ wl[c] = "watching"

\* The connection was dialled and its "register" not yet written.
Early == {"delay", "open", "register"}
Starting(c) == \E l \in Loops : conn[l] = c /\ pc[l] \in Early

\* An unused name left nothing behind; only an open end writes; the edge sees
\* an end only where there is one; a connection that stopped carrying pings
\* before the last tick has none under way.
Settled(c) ==
  /\ cli[c] = "none" => /\ srv[c] = "none" /\ wl[c] = "off" /\ ctl[c] = "off"
                        /\ ctrl[c] = <<>> /\ c \notin cut /\ c \notin closed /\ dead[c] = 0
  /\ Speaks(c) => cli[c] = "open"
  /\ c \in closed => ~Carries(c)
  /\ dead[c] > 0 => ~Carries(c) /\ ctrl[c] = <<>>
  /\ srv[c] = "pending" => wl[c] = "off" /\ ctl[c] = "off"

\* Since it stopped carrying pings, a registration only grew older.
Overdue(c) == RegisteredAt(c) => Age(c) >= dead[c]

\* A registration on a path that carries pings has a ping loop, and its age
\* and the time to the next ping never exceed the period together.
Kept(c) ==
  Carries(c) /\ ~OwnerCancelled(c) =>
    /\ RegisteredAt(c) \/ ctrl[c] # <<>> => pinger[c] # PingerOff
    /\ RegisteredAt(c) => /\ Age(c) <= PingEvery
                          /\ ctrl[c] = <<>> => Age(c) + pinger[c] <= PingEvery

\* "register" is the first message the edge reads of a connection and is
\* written once.
Spoken(c) ==
  /\ Heard(c) => \A k \in 1..Len(ctrl[c]) :
       ctrl[c][k] = "register" <=> k = 1 /\ Age(c) = NeverPinged
  /\ Starting(c) => ~Speaks(c) /\ ctrl[c] = <<>> /\ Age(c) = NeverPinged
  /\ Speaks(c) /\ Carries(c) /\ Heard(c) => ctrl[c] # <<>> \/ Age(c) # NeverPinged
  /\ ctl[c] = "accept" => Age(c) = NeverPinged

Good(c) == Settled(c) /\ Overdue(c) /\ Kept(c) /\ Spoken(c)

TInv == IInv /\ TunnelTypeOK /\ LoopInv /\ \A c \in Conns : Good(c)

\* A step that does not touch d.
Untouched(d) ==
  /\ cli'[d] = cli[d] /\ srv'[d] = srv[d] /\ wl'[d] = wl[d] /\ ctl'[d] = ctl[d]
  /\ ctrl'[d] = ctrl[d] /\ pinger'[d] = pinger[d] /\ dead'[d] = dead[d]
  /\ d \in unreg' <=> d \in unreg
  /\ d \in cut' <=> d \in cut
  /\ d \in closed' <=> d \in closed
  /\ RegisteredAt(d)' <=> RegisteredAt(d)
  /\ Age(d)' = Age(d)
  /\ Starting(d)' => Starting(d)
  /\ OwnerCancelled(d) => OwnerCancelled(d)'

LEMMA UntouchedGood ==
  ASSUME NEW d \in Conns, Good(d), Untouched(d)
  PROVE  Good(d)'
<1>1. Settled(d)'
  BY DEF Good, Settled, Untouched, Speaks, Carries
<1>2. Overdue(d)'
  BY DEF Good, Overdue, Untouched
<1>3. Kept(d)'
  BY DEF Good, Kept, Untouched, Carries
<1>4. Spoken(d)'
  BY DEF Good, Spoken, Untouched, Speaks, Carries, Heard
<1> QED
  BY <1>1, <1>2, <1>3, <1>4 DEF Good

\* A step of the edge leaves owners and loops alone.
LEMMA OwnersSame ==
  ASSUME UNCHANGED <<pc, conn, ctxDone>>, NEW d
  PROVE  (Starting(d)' <=> Starting(d)) /\ (OwnerCancelled(d)' <=> OwnerCancelled(d))
BY DEF Starting, OwnerCancelled, Cancelled

\* The values of the variables at one connection.
LEMMA LocalTypes ==
  ASSUME IInv, TunnelTypeOK, NEW c \in Conns
  PROVE  /\ cli[c] \in {"none", "open", "closed"} /\ srv[c] \in {"none", "pending", "taken"}
         /\ wl[c] \in {"off", "watching"} /\ ctl[c] \in {"off", "accept", "reading"}
         /\ ctrl[c] \in Seq(Messages) /\ Len(ctrl[c]) \in Nat
         /\ ctrl[c] = <<>> <=> Len(ctrl[c]) = 0
         /\ pinger[c] \in Int /\ pinger[c] \in {PingerOff} \cup 0..PingEvery
         /\ dead[c] \in Nat /\ dead[c] <= StaleAfter
         /\ Age(c) \in Int /\ Age(c) \in {NeverPinged} \cup 0..StaleAfter
         /\ PingEvery \in Nat /\ PingEvery > 0 /\ StaleAfter \in Nat
         /\ NeverPinged = -1 /\ PingerOff = -1
         /\ wl[c] # "watching" => ~RegisteredAt(c) /\ Age(c) = NeverPinged
         /\ RegisteredAt(c) => Age(c) # NeverPinged /\ ctl[c] = "reading"
<1>1. ctrl[c] \in Seq(Messages) /\ PingEvery \in Nat /\ PingEvery > 0 /\ StaleAfter \in Nat
  BY TunnelAssumption, StaleAfterType DEF TunnelTypeOK, Messages
<1>2. Len(ctrl[c]) \in Nat /\ (ctrl[c] = <<>> <=> Len(ctrl[c]) = 0)
  BY <1>1, EmptySeq, LenProperties
<1>3. /\ Age(c) \in Ages /\ (wl[c] # "watching" => ~RegisteredAt(c) /\ Age(c) = NeverPinged)
      /\ RegisteredAt(c) => Age(c) # NeverPinged /\ ctl[c] = "reading"
  BY ViewHolds DEF View
<1>4. Age(c) \in Int /\ Age(c) \in {NeverPinged} \cup 0..StaleAfter
  BY <1>1, <1>3 DEF Ages, NeverPinged
<1>5. pinger[c] \in Int /\ pinger[c] \in {PingerOff} \cup 0..PingEvery
  BY <1>1 DEF TunnelTypeOK, PingerOff
<1>6. dead[c] \in Nat /\ dead[c] <= StaleAfter
  BY <1>1 DEF TunnelTypeOK
<1>7. /\ cli[c] \in {"none", "open", "closed"} /\ srv[c] \in {"none", "pending", "taken"}
      /\ wl[c] \in {"off", "watching"} /\ ctl[c] \in {"off", "accept", "reading"}
  BY DEF TunnelTypeOK, TypeOK
<1> QED
  BY <1>1, <1>2, <1>3, <1>4, <1>5, <1>6, <1>7 DEF NeverPinged, PingerOff

-----------------------------------------------------------------------------
(* The edge's steps.                                                       *)

\* What every step of the edge on c leaves alone.
LEMMA EdgeFrame ==
  ASSUME IInv, TunnelTypeOK, NEW c \in Conns, EdgeStep(c)
  PROVE  /\ UNCHANGED <<pc, conn, ctxDone, cli, pinger, unreg, cut, dead>>
         /\ \A d \in Conns : d # c =>
              /\ srv'[d] = srv[d] /\ wl'[d] = wl[d] /\ ctl'[d] = ctl[d] /\ ctrl'[d] = ctrl[d]
              /\ d \in closed' <=> d \in closed
<1>1. UNCHANGED <<pc, conn, ctxDone, cli, pinger, unreg, cut, dead>>
  BY DEF EdgeStep, EdgeAccept, EdgeNeverSees, EdgeAcceptControl, EdgeAcceptControlFails,
         EdgeReads, EdgeReadError, EdgeWatchLost, EdgeSeesClose, EdgeOnly, procVars
<1>2. /\ srv \in [Conns -> {"none", "pending", "taken"}]
      /\ ctrl \in [Conns -> Seq({"register", "ping", "unregister"})]
      /\ wl \in [Conns -> {"off", "watching"}] /\ ctl \in [Conns -> {"off", "accept", "reading"}]
  BY DEF TunnelTypeOK, TypeOK
<1>3. \A d \in Conns : d # c => srv'[d] = srv[d] /\ ctrl'[d] = ctrl[d]
  BY <1>2 DEF EdgeStep, EdgeAccept, EdgeNeverSees, EdgeAcceptControl, EdgeAcceptControlFails,
         EdgeReads, EdgeReadError, EdgeWatchLost, EdgeSeesClose
<1>4. \A d \in Conns : d # c =>
        wl'[d] = wl[d] /\ ctl'[d] = ctl[d] /\ (d \in closed' <=> d \in closed)
  BY <1>2 DEF EdgeStep, EdgeAccept, EdgeNeverSees, EdgeAcceptControl, EdgeAcceptControlFails,
         EdgeReads, EdgeReadError, EdgeWatchLost, EdgeSeesClose, regVars, AddConnector,
         AcceptControl, AcceptControlFails, OnRegister, OnPing, OnUnregister, ControlReadError,
         WatchLost, ConnClosed
<1> QED
  BY <1>1, <1>3, <1>4

LEMMA EdgeView ==
  ASSUME IInv, IInv', NEW c \in Conns, EdgeStep(c), NEW d \in Conns, d # c
  PROVE  (RegisteredAt(d)' <=> RegisteredAt(d)) /\ Age(d)' = Age(d)
<1>1. CASE EdgeAccept(c)
  BY <1>1, AddView DEF EdgeAccept
<1>2. CASE EdgeNeverSees(c) \/ EdgeAcceptControl(c) \/ EdgeAcceptControlFails(c) \/ EdgeSeesClose(c)
  <2>1. UNCHANGED <<connectors, wl>>
    BY <1>2 DEF EdgeNeverSees, EdgeAcceptControl, EdgeAcceptControlFails, EdgeSeesClose,
                regVars, AcceptControl, AcceptControlFails, ConnClosed
  <2> QED
    BY <2>1, ViewSame
<1>3. CASE EdgeReads(c) \/ EdgeReadError(c)
  <2>1. /\ OnRegister(c) \/ OnPing(c) \/ OnUnregister(c) \/ ControlReadError(c)
        /\ UNCHANGED wl
        /\ \E type \in {"register", "ping", "unregister"} : UpdateConnector(cid[c], type)
    BY <1>3 DEF EdgeReads, EdgeReadError, OnRegister, OnPing, OnUnregister, ControlReadError
  <2> QED
    BY <2>1, MessageView
<1>4. CASE EdgeWatchLost(c)
  BY <1>4, LostView DEF EdgeWatchLost
<1> QED
  BY <1>1, <1>2, <1>3, <1>4 DEF EdgeStep

LEMMA EdgeOthers ==
  ASSUME TInv, IInv', NEW c \in Conns, EdgeStep(c), NEW d \in Conns, d # c
  PROVE  Good(d)'
<1>1. Untouched(d)
  BY EdgeFrame, EdgeView, OwnersSame DEF TInv, Untouched
<1> QED
  BY <1>1, UntouchedGood DEF TInv

LEMMA AcceptGood ==
  ASSUME TInv, IInv', NEW c \in Conns, EdgeAccept(c)
  PROVE  Good(c)'
<1>1. /\ UNCHANGED <<pc, conn, ctxDone, cli, pinger, unreg, cut, dead>>
  BY EdgeFrame DEF TInv, EdgeStep
<1>2. /\ srv[c] = "pending" /\ srv'[c] = "taken" /\ wl'[c] = "watching" /\ ctl'[c] = "accept"
      /\ ctrl'[c] = ctrl[c] /\ closed' = closed
  BY DEF EdgeAccept, AddConnector, TInv, TunnelTypeOK, TypeOK
<1>3. ~RegisteredAt(c)' /\ Age(c)' = NeverPinged
  BY AddView DEF EdgeAccept, TInv
<1>4. Good(c) /\ ~RegisteredAt(c) /\ Age(c) = NeverPinged
  BY <1>2, LocalTypes DEF TInv, Good, Settled
<1>5. (Starting(c)' <=> Starting(c)) /\ (OwnerCancelled(c)' <=> OwnerCancelled(c))
  BY <1>1, OwnersSame
<1>6. Settled(c)'
  BY <1>1, <1>2, <1>4 DEF Good, Settled, Speaks, Carries
<1>7. Overdue(c)' /\ Kept(c)'
  BY <1>1, <1>2, <1>3, <1>4, <1>5 DEF Good, Overdue, Kept, Carries
<1>8. Spoken(c)'
  BY <1>1, <1>2, <1>3, <1>4, <1>5 DEF Good, Spoken, Speaks, Carries, Heard
<1> QED
  BY <1>6, <1>7, <1>8 DEF Good

\* The edge gives up a connection that no longer carries anything: the accept
\* that never returns, the failed accept of the control stream, the read error.
LEMMA GivesUpGood ==
  ASSUME TInv, IInv', NEW c \in Conns, ~Carries(c),
         UNCHANGED <<pc, conn, ctxDone, cli, pinger, unreg, cut, dead>>,
         ctrl'[c] = <<>>, ctl'[c] = "off", wl'[c] = wl[c], srv'[c] \in {srv[c], "taken"},
         c \in closed' <=> c \in closed, ~RegisteredAt(c)', Age(c)' = Age(c),
         cli[c] # "none", srv'[c] # "pending"
  PROVE  Good(c)'
<1>1. Good(c) /\ (Starting(c)' <=> Starting(c))
  BY OwnersSame DEF TInv
<1>2. Settled(c)'
  BY <1>1 DEF Good, Settled, Speaks, Carries
<1>3. Overdue(c)' /\ Kept(c)'
  BY <1>1 DEF Overdue, Kept, Carries
<1>4. Len(<<>>) = 0
  BY EmptySeq
<1>5. Spoken(c)'
  BY <1>1, <1>4 DEF Good, Spoken, Speaks, Carries, Heard
<1> QED
  BY <1>2, <1>3, <1>5 DEF Good

LEMMA NeverSeesGood ==
  ASSUME TInv, IInv', NEW c \in Conns, EdgeNeverSees(c)
  PROVE  Good(c)'
<1>1. UNCHANGED <<pc, conn, ctxDone, cli, pinger, unreg, cut, dead>>
  BY EdgeFrame DEF TInv, EdgeStep
<1>2. /\ srv[c] = "pending" /\ ~Carries(c) /\ srv'[c] = "taken" /\ ctrl'[c] = <<>>
      /\ UNCHANGED <<connectors, wl, ctl, closed>>
  BY DEF EdgeNeverSees, TInv, TunnelTypeOK, regVars
<1>3. wl[c] = "off" /\ ctl[c] = "off" /\ cli[c] # "none"
  BY <1>2 DEF TInv, Good, Settled
<1>4. ~RegisteredAt(c) /\ (RegisteredAt(c)' <=> RegisteredAt(c)) /\ Age(c)' = Age(c)
  BY <1>2, <1>3, LocalTypes, ViewSame DEF TInv
<1> QED
  BY <1>1, <1>2, <1>3, <1>4, GivesUpGood

LEMMA AcceptControlGood ==
  ASSUME TInv, IInv', NEW c \in Conns, EdgeAcceptControl(c)
  PROVE  Good(c)'
<1>1. UNCHANGED <<pc, conn, ctxDone, cli, pinger, unreg, cut, dead>>
  BY EdgeFrame DEF TInv, EdgeStep
<1>2. /\ ctl[c] = "accept" /\ ctl'[c] = "reading"
      /\ UNCHANGED <<connectors, wl, srv, ctrl, closed>>
  BY DEF EdgeAcceptControl, AcceptControl, TInv, TunnelTypeOK, TypeOK
<1>3. Good(c) /\ (RegisteredAt(c)' <=> RegisteredAt(c)) /\ Age(c)' = Age(c)
  BY <1>2, ViewSame DEF TInv
<1>4. (Starting(c)' <=> Starting(c)) /\ (OwnerCancelled(c)' <=> OwnerCancelled(c))
  BY <1>1, OwnersSame
<1>5. Settled(c)'
  BY <1>1, <1>2, <1>3 DEF Good, Settled, Speaks, Carries
<1>6. Overdue(c)' /\ Kept(c)'
  BY <1>1, <1>2, <1>3, <1>4 DEF Good, Overdue, Kept, Carries
<1>7. Spoken(c)'
  BY <1>1, <1>2, <1>3, <1>4 DEF Good, Spoken, Speaks, Carries, Heard
<1> QED
  BY <1>5, <1>6, <1>7 DEF Good

LEMMA AcceptControlFailsGood ==
  ASSUME TInv, IInv', NEW c \in Conns, EdgeAcceptControlFails(c)
  PROVE  Good(c)'
<1>1. UNCHANGED <<pc, conn, ctxDone, cli, pinger, unreg, cut, dead>>
  BY EdgeFrame DEF TInv, EdgeStep
<1>2. /\ c \in closed /\ ctl[c] = "accept" /\ ctl'[c] = "off" /\ ctrl'[c] = <<>>
      /\ UNCHANGED <<connectors, wl, srv, closed>>
  BY DEF EdgeAcceptControlFails, AcceptControlFails, TInv, TunnelTypeOK, TypeOK
<1>3. ~Carries(c) /\ cli[c] # "none" /\ srv[c] # "pending"
  BY <1>2 DEF TInv, Good, Settled
<1>4. ~RegisteredAt(c) /\ (RegisteredAt(c)' <=> RegisteredAt(c)) /\ Age(c)' = Age(c)
  BY <1>2, LocalTypes, ViewSame DEF TInv
<1> QED
  BY <1>1, <1>2, <1>3, <1>4, GivesUpGood

LEMMA ReadErrorGood ==
  ASSUME TInv, IInv', NEW c \in Conns, EdgeReadError(c)
  PROVE  Good(c)'
<1>1. UNCHANGED <<pc, conn, ctxDone, cli, pinger, unreg, cut, dead>>
  BY EdgeFrame DEF TInv, EdgeStep
<1>2. /\ c \in closed /\ ctl[c] = "reading" /\ ctl'[c] = "off" /\ ctrl'[c] = <<>>
      /\ UNCHANGED <<wl, srv, closed>> /\ ControlReadError(c)
      /\ UpdateConnector(cid[c], "unregister")
  BY DEF EdgeReadError, ControlReadError, TInv, TunnelTypeOK, TypeOK
<1>3. ~Carries(c) /\ cli[c] # "none" /\ srv[c] # "pending"
  BY <1>2 DEF TInv, Good, Settled
<1>4. ~RegisteredAt(c)' /\ Age(c)' = Age(c)
  <2>1. CASE wl[c] = "watching"
    BY <1>2, <2>1, MessageView DEF TInv
  <2>2. CASE wl[c] # "watching"
    <3>1. ~RegisteredAt(c)
      BY <2>2, LocalTypes DEF TInv
    <3> QED
      BY <1>2, <2>2, <3>1, ViewHolds, ViewHoldsNext, ViewUnwatched DEF TInv
  <2> QED
    BY <2>1, <2>2
<1> QED
  BY <1>1, <1>2, <1>3, <1>4, GivesUpGood

LEMMA WatchLostGood ==
  ASSUME TInv, IInv', NEW c \in Conns, EdgeWatchLost(c)
  PROVE  Good(c)'
<1>1. UNCHANGED <<pc, conn, ctxDone, cli, pinger, unreg, cut, dead>>
  BY EdgeFrame DEF TInv, EdgeStep
<1>2. /\ c \in closed /\ wl[c] = "watching" /\ wl'[c] = "off"
      /\ UNCHANGED <<ctl, srv, ctrl, closed>>
  BY DEF EdgeWatchLost, WatchLost, TInv, TunnelTypeOK, TypeOK
<1>3. Good(c) /\ ~Carries(c) /\ cli[c] # "none" /\ srv[c] # "pending"
  BY <1>2 DEF TInv, Good, Settled
<1>4. ~RegisteredAt(c)' /\ Age(c)' = NeverPinged
  BY <1>2, ViewHoldsNext DEF View
<1>5. Starting(c)' <=> Starting(c)
  BY <1>1, OwnersSame
<1>6. Settled(c)'
  BY <1>1, <1>2, <1>3 DEF Good, Settled, Speaks, Carries
<1>7. Overdue(c)' /\ Kept(c)'
  BY <1>1, <1>3, <1>4 DEF Overdue, Kept, Carries
<1>8. Spoken(c)'
  BY <1>1, <1>2, <1>3, <1>4, <1>5 DEF Good, Spoken, Speaks, Carries, Heard
<1> QED
  BY <1>6, <1>7, <1>8 DEF Good

LEMMA SeesCloseGood ==
  ASSUME TInv, IInv', NEW c \in Conns, EdgeSeesClose(c)
  PROVE  Good(c)'
<1>1. UNCHANGED <<pc, conn, ctxDone, cli, pinger, unreg, cut, dead>>
  BY EdgeFrame DEF TInv, EdgeStep
<1>2. /\ ~Carries(c) /\ wl[c] = "watching" /\ UNCHANGED <<connectors, wl, ctl, srv, ctrl>>
  BY DEF EdgeSeesClose, ConnClosed
<1>3. Good(c) /\ cli[c] # "none" /\ (RegisteredAt(c)' <=> RegisteredAt(c)) /\ Age(c)' = Age(c)
  BY <1>2, ViewSame DEF TInv, Good, Settled
<1>4. Starting(c)' <=> Starting(c)
  BY <1>1, OwnersSame
<1>5. Settled(c)'
  BY <1>1, <1>2, <1>3 DEF Good, Settled, Speaks, Carries
<1>6. Overdue(c)' /\ Kept(c)'
  BY <1>1, <1>2, <1>3 DEF Good, Overdue, Kept, Carries
<1>7. Spoken(c)'
  BY <1>1, <1>2, <1>3, <1>4 DEF Good, Spoken, Speaks, Carries, Heard
<1> QED
  BY <1>5, <1>6, <1>7 DEF Good

\* A message is read: "register" if the connection never pinged, another one
\* if it did.
LEMMA ReadsGood ==
  ASSUME TInv, IInv', NEW c \in Conns, EdgeReads(c)
  PROVE  Good(c)'
<1> DEFINE q == ctrl[c]
<1>1. UNCHANGED <<pc, conn, ctxDone, cli, pinger, unreg, cut, dead>>
  BY EdgeFrame DEF TInv, EdgeStep
<1>2. /\ q # <<>> /\ ctrl'[c] = Tail(q) /\ ctl[c] = "reading"
      /\ UNCHANGED <<wl, ctl, srv, closed>>
  BY DEF EdgeReads, OnRegister, OnPing, OnUnregister, TInv, TunnelTypeOK
<1>3. /\ q \in Seq(Messages) /\ Len(q) \in Nat /\ Len(q) > 0
      /\ Head(q) = q[1] /\ Tail(q) \in Seq(Messages) /\ Len(Tail(q)) = Len(q) - 1
      /\ \A k \in 1..Len(Tail(q)) : Tail(q)[k] = q[k + 1]
  <2>1. q \in Seq(Messages) /\ Len(q) \in Nat /\ (q = <<>> <=> Len(q) = 0)
    BY LocalTypes DEF TInv
  <2>2. Head(q) = q[1] /\ Tail(q) \in Seq(Messages) /\ Len(Tail(q)) = Len(q) - 1
    BY <1>2, <2>1, HeadTailProperties
  <2>3. \A k \in 1..Len(Tail(q)) : Tail(q)[k] = q[k + 1]
    BY <1>2, <2>1, HeadTailProperties
  <2> QED
    BY <1>2, <2>1, <2>2, <2>3
<1>4. Good(c) /\ dead[c] = 0 /\ cli[c] # "none" /\ ~Starting(c) /\ srv[c] # "pending"
  BY <1>2, LocalTypes DEF TInv, Good, Settled, Spoken
<1>5. (Starting(c)' <=> Starting(c)) /\ (OwnerCancelled(c)' <=> OwnerCancelled(c))
  BY <1>1, OwnersSame
<1>6. /\ wl[c] # "watching" => ~RegisteredAt(c)'
      /\ wl[c] = "watching" =>
           /\ Age(c)' # NeverPinged /\ Age(c)' \in Int /\ Age(c)' >= 0
           /\ RegisteredAt(c)' => Age(c)' = 0
  <2>1. wl[c] # "watching" => ~RegisteredAt(c)'
    BY <1>2, ViewHoldsNext DEF View
  <2> SUFFICES ASSUME wl[c] = "watching"
               PROVE  /\ Age(c)' # NeverPinged /\ Age(c)' \in Int /\ Age(c)' >= 0
                      /\ RegisteredAt(c)' => Age(c)' = 0
    BY <2>1
  <2>2. Head(q) = "register" <=> Age(c) = NeverPinged
    BY <1>3, <1>4 DEF Good, Spoken, Heard
  <2>3. CASE Head(q) = "register" /\ OnRegister(c)
    <3>1. UpdateConnector(cid[c], "register")
      BY <2>3 DEF OnRegister
    <3>2. Age(c)' = 0
      BY <1>2, <2>3, <3>1, MessageView DEF TInv
    <3> QED
      BY <3>2 DEF NeverPinged
  <2>4. CASE Head(q) = "ping" /\ OnPing(c)
    <3>1. UpdateConnector(cid[c], "ping")
      BY <2>4 DEF OnPing
    <3>2. Age(c)' = 0
      BY <1>2, <2>4, <3>1, MessageView DEF TInv
    <3> QED
      BY <3>2 DEF NeverPinged
  <2>5. CASE Head(q) = "unregister" /\ OnUnregister(c)
    <3>1. UpdateConnector(cid[c], "unregister")
      BY <2>5 DEF OnUnregister
    <3>2. ~RegisteredAt(c)' /\ Age(c)' = Age(c)
      BY <1>2, <2>5, <3>1, MessageView DEF TInv
    <3>3. Age(c) # NeverPinged /\ Age(c) \in {NeverPinged} \cup 0..StaleAfter /\ StaleAfter \in Nat
      BY <2>2, <2>5, LocalTypes DEF TInv
    <3> QED
      BY <3>2, <3>3
  <2> QED
    BY <2>3, <2>4, <2>5 DEF EdgeReads
<1> HIDE DEF q
<1>7. Settled(c)'
  BY <1>1, <1>2, <1>4 DEF Good, Settled, Speaks, Carries
<1>8. Overdue(c)'
  BY <1>1, <1>4, <1>6, ViewHoldsNext DEF Overdue, View
<1>9. Kept(c)'
  <2> SUFFICES ASSUME Carries(c), ~OwnerCancelled(c)
               PROVE  /\ pinger[c] # PingerOff
                      /\ RegisteredAt(c)' => Age(c)' <= PingEvery /\ Age(c)' + pinger[c] <= PingEvery
    BY <1>1, <1>5 DEF Kept, Carries
  <2>1. pinger[c] # PingerOff
    BY <1>2, <1>4 DEF Good, Kept, q
  <2>2. pinger[c] \in 0..PingEvery /\ PingEvery \in Nat
    BY <2>1, LocalTypes DEF TInv
  <2>3. RegisteredAt(c)' => Age(c)' = 0
    BY <1>2, <1>6
  <2> QED
    BY <2>1, <2>2, <2>3
<1>10. Spoken(c)'
  <2>1. \A k \in 1..Len(Tail(q)) : wl[c] = "watching" => Tail(q)[k] # "register"
    <3> SUFFICES ASSUME NEW k \in 1..Len(Tail(q)), wl[c] = "watching"
                 PROVE  Tail(q)[k] # "register"
      OBVIOUS
    <3>1. k + 1 \in 1..Len(q) /\ k + 1 # 1
      BY <1>3
    <3>2. q[k + 1] # "register"
      BY <1>4, <3>1 DEF Good, Spoken, Heard, q
    <3> QED
      BY <1>3, <3>2
  <2> QED
    BY <1>1, <1>2, <1>4, <1>5, <1>6, <2>1 DEF Spoken, Heard
<1> QED
  BY <1>7, <1>8, <1>9, <1>10 DEF Good

LEMMA EdgeStepGood ==
  ASSUME TInv, IInv', NEW c \in Conns, EdgeStep(c)
  PROVE  \A d \in Conns : Good(d)'
<1>1. Good(c)'
  BY AcceptGood, NeverSeesGood, AcceptControlGood, AcceptControlFailsGood, ReadsGood,
     ReadErrorGood, WatchLostGood, SeesCloseGood DEF EdgeStep
<1> QED
  BY <1>1, EdgeOthers

-----------------------------------------------------------------------------
(* The connector's steps.                                                  *)

\* A step that leaves the registry alone leaves the edge's view alone.
LEMMA RegistryView ==
  ASSUME UNCHANGED regVars, NEW d
  PROVE  /\ UNCHANGED <<wl, ctl, closed>>
         /\ (RegisteredAt(d)' <=> RegisteredAt(d)) /\ Age(d)' = Age(d)
<1>1. UNCHANGED <<connectors, wl, ctl, closed>>
  BY DEF regVars
<1> QED
  BY <1>1, ViewSame

\* A loop moves on without touching its connection.
LEMMA LoopMovesGood ==
  ASSUME TInv, NEW l \in Loops, NEW a, pc' = [pc EXCEPT ![l] = a],
         a \in Early => pc[l] \in Early,
         UNCHANGED <<regVars, conn, ctxDone, cli, srv, ctrl, pinger, unreg, cut, dead>>
  PROVE  \A d \in Conns : Good(d)'
<1> SUFFICES ASSUME NEW d \in Conns PROVE Good(d)'
  OBVIOUS
<1>1. \A m \in Loops : pc'[m] \in Early => pc[m] \in Early
  BY DEF TInv, TunnelTypeOK
<1>2. (Starting(d)' => Starting(d)) /\ (OwnerCancelled(d) => OwnerCancelled(d)')
  BY <1>1 DEF Starting, OwnerCancelled, Cancelled
<1>3. /\ UNCHANGED <<wl, ctl, closed>>
      /\ (RegisteredAt(d)' <=> RegisteredAt(d)) /\ Age(d)' = Age(d)
  BY RegistryView
<1>4. Untouched(d)
  BY <1>2, <1>3 DEF Untouched
<1> QED
  BY <1>4, UntouchedGood DEF TInv

LEMMA DialGood ==
  ASSUME TInv, NEW l \in Loops, Dial(l)
  PROVE  \A d \in Conns : Good(d)'
<1>1. PICK c \in Conns : /\ cli[c] = "none"
                         /\ conn' = [conn EXCEPT ![l] = c] /\ cli' = [cli EXCEPT ![c] = "open"]
                         /\ srv' = [srv EXCEPT ![c] = "pending"]
  BY DEF Dial, FreeConns
<1>2. /\ \E a \in {"serve", "delay", "open"} : pc' = [pc EXCEPT ![l] = a]
      /\ pc[l] = "dial" /\ UNCHANGED <<regVars, ctxDone, ctrl, pinger, unreg, cut, dead>>
  BY DEF Dial
<1>3. /\ \A m \in Loops : conn'[m] = IF m = l THEN c ELSE conn[m]
      /\ \A m \in Loops : m # l => pc'[m] = pc[m]
      /\ \A d \in Conns : cli'[d] = IF d = c THEN "open" ELSE cli[d]
      /\ \A d \in Conns : srv'[d] = IF d = c THEN "pending" ELSE srv[d]
      /\ conn[l] = None /\ None \notin Conns
  BY <1>1, <1>2, TunnelAssumption DEF TInv, TunnelTypeOK, LoopInv, Outside
<1>4. \A d \in Conns : /\ UNCHANGED <<wl, ctl, closed>>
                       /\ (RegisteredAt(d)' <=> RegisteredAt(d)) /\ Age(d)' = Age(d)
  BY <1>2, RegistryView
<1>5. ASSUME NEW d \in Conns, d # c PROVE Good(d)'
  <2>1. (Starting(d)' => Starting(d)) /\ (OwnerCancelled(d) => OwnerCancelled(d)')
    BY <1>2, <1>3, <1>5 DEF Starting, OwnerCancelled, Cancelled
  <2>2. Untouched(d)
    BY <1>2, <1>3, <1>4, <1>5, <2>1 DEF Untouched
  <2> QED
    BY <2>2, UntouchedGood DEF TInv
<1>6. Good(c)'
  <2>1. /\ Good(c) /\ wl[c] = "off" /\ ctl[c] = "off" /\ ctrl[c] = <<>> /\ c \notin cut
        /\ c \notin closed /\ dead[c] = 0 /\ ~Speaks(c)
    BY <1>1 DEF TInv, Good, Settled
  <2>2. ~RegisteredAt(c) /\ Age(c) = NeverPinged /\ Len(ctrl[c]) = 0
    BY <1>1, <2>1, LocalTypes DEF TInv
  <2>3. cli'[c] = "open" /\ srv'[c] = "pending"
    BY <1>1, <1>3
  <2>4. Settled(c)'
    BY <1>1, <1>2, <1>4, <2>1, <2>3 DEF Settled, Speaks, Carries
  <2>5. Overdue(c)' /\ Kept(c)'
    BY <1>1, <1>2, <1>4, <2>1, <2>2 DEF Overdue, Kept
  <2>6. Spoken(c)'
    BY <1>1, <1>2, <1>4, <2>1, <2>2 DEF Spoken, Speaks
  <2> QED
    BY <2>4, <2>5, <2>6 DEF Good
<1> QED
  BY <1>5, <1>6

\* "register" is written: the loop is the connection's only one.
LEMMA WriteRegisterGood ==
  ASSUME TInv, NEW l \in Loops, WriteRegister(l), cli[conn[l]] = "open"
  PROVE  \A d \in Conns : Good(d)'
<1>1. PICK c \in Conns : c = conn[l] /\ pc[l] = "register"
  BY InsideHasConn DEF WriteRegister, Inside, TInv
<1>2. /\ ctrl' = [ctrl EXCEPT ![c] = Sent(c, "register")]
      /\ pinger' = [pinger EXCEPT ![c] = PingEvery] /\ unreg' = unreg \cup {c}
      /\ pc' = [pc EXCEPT ![l] = "serve"]
      /\ UNCHANGED <<regVars, conn, ctxDone, cli, srv, cut, dead>> /\ cli[c] = "open"
  BY <1>1 DEF WriteRegister, ConnectorOnly
<1>3. \A m \in Loops : conn[m] = c => m = l
  BY <1>1, TunnelAssumption DEF TInv, LoopInv, NoLeakedConnection
<1>4. /\ \A m \in Loops : pc'[m] = IF m = l THEN "serve" ELSE pc[m]
      /\ \A d \in Conns : ctrl'[d] = IF d = c THEN Sent(c, "register") ELSE ctrl[d]
      /\ \A d \in Conns : pinger'[d] = IF d = c THEN PingEvery ELSE pinger[d]
  BY <1>1, <1>2 DEF TInv, TunnelTypeOK
<1>5. \A d \in Conns : /\ UNCHANGED <<wl, ctl, closed>>
                       /\ (RegisteredAt(d)' <=> RegisteredAt(d)) /\ Age(d)' = Age(d)
  BY <1>2, RegistryView
<1>6. ASSUME NEW d \in Conns, d # c PROVE Good(d)'
  <2>1. (Starting(d)' => Starting(d)) /\ (OwnerCancelled(d) => OwnerCancelled(d)')
    BY <1>2, <1>4, <1>6 DEF Starting, OwnerCancelled, Cancelled, Early
  <2>2. Untouched(d)
    BY <1>2, <1>4, <1>5, <1>6, <2>1 DEF Untouched
  <2> QED
    BY <2>2, UntouchedGood DEF TInv
<1>7. Good(c)'
  <2>1. Starting(c)
    BY <1>1 DEF Starting, Early
  <2>2. Good(c) /\ ~Speaks(c) /\ ctrl[c] = <<>> /\ Age(c) = NeverPinged /\ Len(ctrl[c]) = 0
    BY <1>1, <2>1, LocalTypes DEF TInv, Good, Spoken
  <2>3. ~RegisteredAt(c)
    BY <1>1, <2>2, LocalTypes DEF TInv
  <2>4. ~Starting(c)'
    BY <1>2, <1>3, <1>4 DEF Starting, Early
  <2>5. /\ c \in cut => ctrl'[c] = <<>>
        /\ c \notin cut => ctrl'[c] # <<>> /\ Len(ctrl'[c]) = 1 /\ ctrl'[c][1] = "register"
    <3>1. /\ c \in cut => Sent(c, "register") = ctrl[c]
          /\ c \notin cut => /\ Len(Sent(c, "register")) = 1
                             /\ Sent(c, "register")[1] = "register"
      <4>1. "register" \in Messages /\ TunnelTypeOK /\ Len(ctrl[c]) + 1 = 1
        BY <2>2 DEF Messages, TInv
      <4>2. /\ c \in cut => Sent(c, "register") = ctrl[c]
            /\ c \notin cut => /\ Len(Sent(c, "register")) = Len(ctrl[c]) + 1
                               /\ Sent(c, "register")[Len(ctrl[c]) + 1] = "register"
        BY <4>1, SentProperties
      <4> QED
        BY <4>1, <4>2
    <3>2. Len(<<>>) = 0
      BY EmptySeq
    <3> QED
      BY <1>1, <1>4, <2>2, <3>1, <3>2
  <2>6. Settled(c)'
    BY <1>1, <1>2, <1>4, <1>5, <2>2, <2>5 DEF Good, Settled, Speaks, Carries
  <2>7. Overdue(c)'
    BY <1>1, <1>5, <2>3 DEF Overdue
  <2>8. Kept(c)'
    <3>1. pinger'[c] # PingerOff
      BY <1>1, <1>4, LocalTypes DEF TInv
    <3> QED
      BY <1>1, <1>5, <2>3, <3>1 DEF Kept
  <2>9. Spoken(c)'
    <3>1. \A k \in 1..Len(ctrl'[c]) : k = 1 /\ ctrl'[c][k] = "register"
      <4>1. CASE c \in cut
        <5>1. Len(ctrl'[c]) = 0
          BY <2>2, <2>5, <4>1
        <5> QED
          BY <5>1
      <4>2. CASE c \notin cut
        <5>1. Len(ctrl'[c]) = 1 /\ ctrl'[c][1] = "register"
          BY <2>5, <4>2
        <5>2. \A k \in 1..1 : k = 1
          OBVIOUS
        <5> QED
          BY <5>1, <5>2
      <4> QED
        BY <4>1, <4>2
    <3>2. \A k \in 1..Len(ctrl'[c]) : ctrl'[c][k] = "register" <=> k = 1 /\ Age(c)' = NeverPinged
      BY <1>1, <1>5, <2>2, <3>1
    <3>3. Carries(c)' => ctrl'[c] # <<>>
      BY <1>2, <2>5 DEF Carries
    <3>4. ctl'[c] = "accept" => Age(c)' = NeverPinged
      BY <1>1, <1>5, <2>2
    <3> QED
      BY <2>4, <3>2, <3>3, <3>4 DEF Spoken
  <2> QED
    BY <2>6, <2>7, <2>8, <2>9 DEF Good
<1> QED
  BY <1>6, <1>7

\* A connection stops carrying: the end of its queue may be lost.
LEMMA StopsGood ==
  ASSUME TInv, NEW c \in Conns, cli[c] # "none", cli'[c] # "none", ~Carries(c)',
         srv'[c] = srv[c], wl'[c] = wl[c], ctl'[c] = ctl[c], dead'[c] = dead[c],
         c \in closed' <=> c \in closed, RegisteredAt(c)' <=> RegisteredAt(c), Age(c)' = Age(c),
         ctrl'[c] \in Seq(Messages), Len(ctrl'[c]) \in 0..Len(ctrl[c]),
         \A k \in 1..Len(ctrl'[c]) : ctrl'[c][k] = ctrl[c][k],
         Speaks(c)' => Speaks(c) /\ cli'[c] = "open", Starting(c)' => Starting(c)
  PROVE  Good(c)'
<1>1. Good(c) /\ Len(ctrl[c]) \in Nat /\ (ctrl[c] = <<>> <=> Len(ctrl[c]) = 0)
  BY LocalTypes DEF TInv
<1>2. ctrl[c] = <<>> => ctrl'[c] = <<>>
  BY <1>1, EmptySeq
<1>3. Settled(c)'
  BY <1>1, <1>2 DEF Good, Settled
<1>4. Overdue(c)' /\ Kept(c)'
  BY <1>1 DEF Good, Overdue, Kept
<1>5. Spoken(c)'
  <2>1. \A k \in 1..Len(ctrl'[c]) : k \in 1..Len(ctrl[c])
    BY <1>1
  <2>2. Heard(c)' => Heard(c)
    BY DEF Heard
  <2>3. Heard(c)' => \A k \in 1..Len(ctrl'[c]) :
          ctrl'[c][k] = "register" <=> k = 1 /\ Age(c)' = NeverPinged
    BY <1>1, <2>1, <2>2 DEF Good, Spoken
  <2> QED
    BY <1>1, <1>2, <2>3 DEF Good, Spoken
<1> QED
  BY <1>3, <1>4, <1>5 DEF Good

\* A goroutine that may still write adds a message that is not "register".
LEMMA SpeaksGood ==
  ASSUME TInv, NEW c \in Conns, NEW m \in {"ping", "unregister"}, Speaks(c),
         ctrl'[c] = Sent(c, m), UNCHANGED <<cli, srv, cut, dead>>, UNCHANGED regVars,
         Starting(c)' => Starting(c), OwnerCancelled(c) => OwnerCancelled(c)',
         OwnerCancelled(c)' \/ pinger'[c] = PingEvery
  PROVE  Good(c)'
<1> DEFINE q == ctrl[c]
           r == Sent(c, m)
<1>1. /\ Good(c) /\ q \in Seq(Messages) /\ Len(q) \in Nat /\ (q = <<>> <=> Len(q) = 0)
      /\ PingEvery # PingerOff
  BY LocalTypes DEF TInv
<1>2. /\ m \in Messages /\ m # "register" /\ TunnelTypeOK
  BY DEF Messages, TInv
<1>3. /\ r \in Seq(Messages) /\ (c \in cut => r = q)
      /\ c \notin cut => /\ Len(r) = Len(q) + 1 /\ r[Len(q) + 1] = m
                         /\ \A k \in 1..Len(q) : r[k] = q[k]
  BY <1>2, SentProperties
<1> HIDE DEF q, r
<1>4. c \notin cut => r # <<>>
  <2>1. Len(<<>>) = 0
    BY EmptySeq
  <2> QED
    BY <1>1, <1>3, <2>1
<1>5. /\ UNCHANGED <<wl, ctl, closed>>
      /\ (RegisteredAt(c)' <=> RegisteredAt(c)) /\ Age(c)' = Age(c)
  BY RegistryView
<1>6. cli[c] = "open" /\ ~Starting(c)'
  BY <1>1 DEF Good, Settled, Spoken
<1>7. ctrl'[c] = r
  BY DEF r
<1>8. Settled(c)'
  BY <1>1, <1>3, <1>5, <1>6, <1>7 DEF Good, Settled, Carries, q
<1>9. Overdue(c)'
  BY <1>1, <1>5 DEF Good, Overdue
<1>10. Kept(c)'
  BY <1>1, <1>4, <1>5, <1>7 DEF Good, Kept, Carries
<1>11. Spoken(c)'
  <2>1. CASE c \in cut
    <3>1. r = q /\ ~Carries(c)'
      BY <1>3, <2>1 DEF Carries
    <3> QED
      BY <1>1, <1>5, <1>6, <1>7, <3>1 DEF Good, Spoken, Heard, q
  <2>2. CASE c \notin cut
    <3>1. ASSUME Heard(c), NEW k \in 1..Len(r)
          PROVE  r[k] = "register" <=> k = 1 /\ Age(c) = NeverPinged
      <4>1. CASE k \in 1..Len(q)
        BY <1>1, <1>3, <2>2, <3>1, <4>1 DEF Good, Spoken, q
      <4>2. CASE k = Len(q) + 1
        <5>1. Carries(c)
          BY <1>6, <2>2 DEF Carries
        <5>2. q # <<>> \/ Age(c) # NeverPinged
          BY <1>1, <3>1, <5>1 DEF Good, Spoken, q
        <5>3. ~(k = 1 /\ Age(c) = NeverPinged)
          BY <1>1, <4>2, <5>2
        <5>4. r[k] # "register"
          BY <1>2, <1>3, <2>2, <4>2
        <5> QED
          BY <5>3, <5>4
      <4> QED
        BY <1>1, <1>3, <2>2, <4>1, <4>2
    <3>2. Heard(c)' <=> Heard(c)
      BY <1>5 DEF Heard
    <3> QED
      BY <1>1, <1>4, <1>5, <1>6, <1>7, <2>2, <3>1, <3>2 DEF Good, Spoken
  <2> QED
    BY <2>1, <2>2
<1> QED
  BY <1>8, <1>9, <1>10, <1>11 DEF Good

LEMMA CloseGood ==
  ASSUME TInv, NEW l \in Loops, CloseConn(l)
  PROVE  \A d \in Conns : Good(d)'
<1>1. PICK c \in Conns : c = conn[l] /\ pc[l] = "leave" /\ cli[c] # "none"
  BY InsideHasConn DEF CloseConn, Inside, TInv
<1>2. /\ conn' = [conn EXCEPT ![l] = None] /\ cli' = [cli EXCEPT ![c] = "closed"]
      /\ pinger' = [pinger EXCEPT ![c] = PingerOff] /\ unreg' = unreg \ {c}
      /\ \E a \in {"exit", "backoff"} : pc' = [pc EXCEPT ![l] = a]
      /\ UNCHANGED <<regVars, ctxDone, srv, cut, dead>>
  BY <1>1 DEF CloseConn, GoroutinesEnd, ConnectorOnly
<1>3. PICK q \in Prefixes(ctrl[c]) : ctrl' = [ctrl EXCEPT ![c] = q]
  BY <1>1 DEF CloseConn
<1>4. /\ \A m \in Loops : conn'[m] = IF m = l THEN None ELSE conn[m]
      /\ \A m \in Loops : m # l => pc'[m] = pc[m]
      /\ \A d \in Conns : cli'[d] = IF d = c THEN "closed" ELSE cli[d]
      /\ \A d \in Conns : pinger'[d] = IF d = c THEN PingerOff ELSE pinger[d]
      /\ \A d \in Conns : ctrl'[d] = IF d = c THEN q ELSE ctrl[d]
  BY <1>2, <1>3 DEF TInv, TunnelTypeOK
<1>5. \A d \in Conns : /\ UNCHANGED <<wl, ctl, closed>>
                       /\ (RegisteredAt(d)' <=> RegisteredAt(d)) /\ Age(d)' = Age(d)
  BY <1>2, RegistryView
<1>6. ASSUME NEW d \in Conns PROVE Starting(d)' => Starting(d)
  BY <1>4, TunnelAssumption DEF Starting
<1>7. ASSUME NEW d \in Conns, d # c PROVE Good(d)'
  <2>1. OwnerCancelled(d) => OwnerCancelled(d)'
    BY <1>1, <1>2, <1>4, <1>7 DEF OwnerCancelled, Cancelled
  <2>2. Untouched(d)
    BY <1>2, <1>4, <1>5, <1>6, <1>7, <2>1 DEF Untouched
  <2> QED
    BY <2>2, UntouchedGood DEF TInv
<1>8. Good(c)'
  <2>1. ctrl[c] \in Seq(Messages)
    BY LocalTypes DEF TInv
  <2>2. q \in Seq(Messages) /\ Len(q) \in 0..Len(ctrl[c]) /\ \A k \in 1..Len(q) : q[k] = ctrl[c][k]
    BY <2>1, PrefixProperties
  <2>3. ctrl'[c] = q /\ cli'[c] = "closed" /\ ~Speaks(c)' /\ ~Carries(c)'
    BY <1>2, <1>4 DEF Speaks, Carries
  <2> QED
    BY <1>1, <1>2, <1>5, <1>6, <2>2, <2>3, StopsGood
<1> QED
  BY <1>7, <1>8

LEMMA LoopStepGood ==
  ASSUME TInv, NEW l \in Loops, LoopStep(l) \/ DialFails(l)
  PROVE  \A d \in Conns : Good(d)'
<1>1. CASE Dial(l)
  BY <1>1, DialGood
<1>2. CASE \/ LoopEnds(l) \/ DialFails(l) \/ BackoffEnds(l) \/ DelayEnds(l) \/ OpenControl(l)
           \/ ServeEnds(l)
  <2>1. /\ UNCHANGED <<regVars, conn, ctxDone, cli, srv, ctrl, pinger, unreg, cut, dead>>
        /\ \E a \in {"exit", "backoff", "dial", "leave", "open", "register"} :
             pc' = [pc EXCEPT ![l] = a] /\ (a \in Early => pc[l] \in Early)
    BY <1>2 DEF LoopEnds, DialFails, BackoffEnds, DelayEnds, OpenControl, ServeEnds,
                ConnectorOnly, Early
  <2> QED
    BY <2>1, LoopMovesGood
<1>3. CASE WriteRegister(l) /\ cli[conn[l]] = "open"
  BY <1>3, WriteRegisterGood
<1>4. CASE WriteRegister(l) /\ cli[conn[l]] # "open"
  <2>1. /\ UNCHANGED <<regVars, conn, ctxDone, cli, srv, ctrl, pinger, unreg, cut, dead>>
        /\ pc' = [pc EXCEPT ![l] = "leave"] /\ "leave" \notin Early
    BY <1>4 DEF WriteRegister, ConnectorOnly, Early
  <2> QED
    BY <2>1, LoopMovesGood
<1>5. CASE CloseConn(l)
  BY <1>5, CloseGood
<1> QED
  BY <1>1, <1>2, <1>3, <1>4, <1>5 DEF LoopStep

\* The ping loop and the unregister goroutine.
LEMMA GoroutinesGood ==
  ASSUME TInv, NEW c \in Conns, PingerSends(c) \/ PingerStops(c) \/ UnregisterSends(c)
  PROVE  \A d \in Conns : Good(d)'
<1>1. /\ UNCHANGED <<pc, conn, ctxDone, cli, srv, cut, dead>> /\ UNCHANGED regVars
      /\ \A d \in Conns : d # c => /\ ctrl'[d] = ctrl[d] /\ pinger'[d] = pinger[d]
                                   /\ d \in unreg' <=> d \in unreg
  BY DEF PingerSends, PingerStops, UnregisterSends, ConnectorOnly, TInv, TunnelTypeOK
<1>2. \A d \in Conns : (Starting(d)' <=> Starting(d)) /\ (OwnerCancelled(d)' <=> OwnerCancelled(d))
  BY <1>1, OwnersSame
<1>3. \A d \in Conns : /\ UNCHANGED <<wl, ctl, closed>>
                       /\ (RegisteredAt(d)' <=> RegisteredAt(d)) /\ Age(d)' = Age(d)
  BY <1>1, RegistryView
<1>4. ASSUME NEW d \in Conns, d # c PROVE Good(d)'
  <2>1. Untouched(d)
    BY <1>1, <1>2, <1>3, <1>4 DEF Untouched
  <2> QED
    BY <2>1, UntouchedGood DEF TInv
<1>5. CASE PingerSends(c)
  <2>1. ctrl'[c] = Sent(c, "ping") /\ pinger'[c] = PingEvery /\ pinger[c] = 0
    BY <1>5 DEF PingerSends, TInv, TunnelTypeOK
  <2>2. Speaks(c)
    BY <2>1 DEF Speaks, PingerOff
  <2>3. Good(c)'
    BY <1>1, <1>2, <2>1, <2>2, SpeaksGood
  <2> QED
    BY <1>4, <2>3
<1>6. CASE UnregisterSends(c)
  <2>1. ctrl'[c] = Sent(c, "unregister") /\ c \in unreg /\ OwnerCancelled(c)
    BY <1>6 DEF UnregisterSends, TInv, TunnelTypeOK
  <2>2. Speaks(c)
    BY <2>1 DEF Speaks
  <2>3. Good(c)'
    BY <1>1, <1>2, <2>1, <2>2, SpeaksGood
  <2> QED
    BY <1>4, <2>3
<1>7. CASE PingerStops(c)
  <2>1. /\ OwnerCancelled(c) /\ pinger'[c] = PingerOff /\ pinger[c] # PingerOff
        /\ UNCHANGED <<ctrl, unreg>>
    BY <1>7 DEF PingerStops, TInv, TunnelTypeOK
  <2>2. Good(c) /\ (Speaks(c)' => Speaks(c))
    BY <2>1 DEF TInv, Speaks
  <2>3. Settled(c)'
    BY <1>1, <1>3, <2>1, <2>2 DEF Good, Settled, Carries
  <2>4. Overdue(c)' /\ Kept(c)'
    BY <1>1, <1>2, <1>3, <2>1, <2>2 DEF Good, Overdue, Kept
  <2>5. Spoken(c)'
    BY <1>1, <1>2, <1>3, <2>1, <2>2 DEF Good, Spoken, Carries, Heard
  <2>6. Good(c)'
    BY <2>3, <2>4, <2>5 DEF Good
  <2> QED
    BY <1>4, <2>6
<1> QED
  BY <1>5, <1>6, <1>7

-----------------------------------------------------------------------------
(* Signals, the network and time.                                          *)

LEMMA ShutdownGood ==
  ASSUME TInv, NEW p \in Procs, Shutdown(p)
  PROVE  \A d \in Conns : Good(d)'
<1> SUFFICES ASSUME NEW d \in Conns PROVE Good(d)'
  OBVIOUS
<1>1. /\ UNCHANGED <<pc, conn, cli, srv, ctrl, pinger, unreg, cut, dead>> /\ UNCHANGED regVars
      /\ \A l \in Loops : Cancelled(l) => Cancelled(l)'
  BY LoopProc DEF Shutdown, quicVars, Cancelled, TInv, TunnelTypeOK
<1>2. (Starting(d)' => Starting(d)) /\ (OwnerCancelled(d) => OwnerCancelled(d)')
  BY <1>1 DEF Starting, OwnerCancelled
<1>3. /\ UNCHANGED <<wl, ctl, closed>>
      /\ (RegisteredAt(d)' <=> RegisteredAt(d)) /\ Age(d)' = Age(d)
  BY <1>1, RegistryView
<1>4. Untouched(d)
  BY <1>1, <1>2, <1>3 DEF Untouched
<1> QED
  BY <1>4, UntouchedGood DEF TInv

LEMMA CutGood ==
  ASSUME TInv, NEW c \in Conns, Cut(c) \/ ConnectorSeesCut(c)
  PROVE  \A d \in Conns : Good(d)'
<1>1. /\ UNCHANGED <<pc, conn, ctxDone, srv, dead>> /\ UNCHANGED regVars /\ cli[c] = "open"
      /\ \A d \in Conns : d # c => /\ cli'[d] = cli[d] /\ ctrl'[d] = ctrl[d]
                                   /\ pinger'[d] = pinger[d]
                                   /\ d \in unreg' <=> d \in unreg
                                   /\ d \in cut' <=> d \in cut
  BY DEF Cut, ConnectorSeesCut, GoroutinesEnd, Carries, procVars, TInv, TunnelTypeOK
<1>2. \A d \in Conns : (Starting(d)' <=> Starting(d)) /\ (OwnerCancelled(d)' <=> OwnerCancelled(d))
  BY <1>1, OwnersSame
<1>3. \A d \in Conns : /\ UNCHANGED <<wl, ctl, closed>>
                       /\ (RegisteredAt(d)' <=> RegisteredAt(d)) /\ Age(d)' = Age(d)
  BY <1>1, RegistryView
<1>4. ASSUME NEW d \in Conns, d # c PROVE Good(d)'
  <2>1. Untouched(d)
    BY <1>1, <1>2, <1>3, <1>4 DEF Untouched
  <2> QED
    BY <2>1, UntouchedGood DEF TInv
<1>5. ctrl[c] \in Seq(Messages) /\ Len(ctrl[c]) \in Nat
  BY LocalTypes DEF TInv
<1>6. PICK q : /\ ctrl'[c] = q /\ q \in Seq(Messages) /\ Len(q) \in 0..Len(ctrl[c])
               /\ \A k \in 1..Len(q) : q[k] = ctrl[c][k]
  <2>1. CASE Cut(c)
    <3>1. PICK q \in Prefixes(ctrl[c]) : ctrl' = [ctrl EXCEPT ![c] = q]
      BY <2>1 DEF Cut
    <3>2. ctrl'[c] = q
      BY <3>1 DEF TInv, TunnelTypeOK
    <3> QED
      BY <1>5, <3>1, <3>2, PrefixProperties
  <2>2. CASE ConnectorSeesCut(c)
    <3>1. ctrl' = ctrl
      BY <2>2 DEF ConnectorSeesCut
    <3> QED
      BY <1>5, <3>1
  <2> QED
    BY <2>1, <2>2
<1>7. cli'[c] # "none" /\ ~Carries(c)' /\ (Speaks(c)' => Speaks(c) /\ cli'[c] = "open")
  BY <1>1 DEF Cut, ConnectorSeesCut, GoroutinesEnd, Carries, Speaks, TInv, TunnelTypeOK
<1>8. Good(c)'
  BY <1>1, <1>2, <1>3, <1>6, <1>7, StopsGood
<1> QED
  BY <1>4, <1>8

LEMMA ConnectorCrashGood ==
  ASSUME TInv, NEW p \in Procs, ConnectorCrash(p)
  PROVE  \A d \in Conns : Good(d)'
<1> SUFFICES ASSUME NEW d \in Conns PROVE Good(d)'
  OBVIOUS
<1> DEFINE mine == {l \in Loops : l[1] = p}
           lost == {conn[l] : l \in mine} \ {None}
<1>1. /\ \A l \in Loops : pc'[l] = IF l \in mine THEN "dial" ELSE pc[l]
      /\ \A l \in Loops : conn'[l] = IF l \in mine THEN None ELSE conn[l]
      /\ cli'[d] = IF d \in lost THEN "closed" ELSE cli[d]
      /\ pinger'[d] = IF d \in lost THEN PingerOff ELSE pinger[d]
      /\ unreg' = unreg \ lost /\ cut' = cut \cup lost
      /\ ctrl'[d] = ctrl[d] \/ (d \in lost /\ ctrl'[d] = <<>>)
      /\ UNCHANGED <<srv, dead>> /\ UNCHANGED regVars
      /\ ctxDone' = [ctxDone EXCEPT ![p] = FALSE]
  BY DEF ConnectorCrash
<1>2. /\ UNCHANGED <<wl, ctl, closed>>
      /\ (RegisteredAt(d)' <=> RegisteredAt(d)) /\ Age(d)' = Age(d)
  BY <1>1, RegistryView
<1>3. Starting(d)' => Starting(d)
  BY <1>1, TunnelAssumption DEF Starting
<1>4. CASE d \notin lost
  <2>1. OwnerCancelled(d) => OwnerCancelled(d)'
    <3> SUFFICES ASSUME NEW l \in Loops, conn[l] = d, Cancelled(l)
                 PROVE  conn'[l] = d /\ Cancelled(l)'
      BY DEF OwnerCancelled
    <3>1. l \notin mine
      BY <1>4, TunnelAssumption
    <3>2. l[1] # p /\ l[1] \in Procs
      BY <3>1, LoopProc
    <3> QED
      BY <1>1, <3>1, <3>2 DEF Cancelled, TInv, TunnelTypeOK
  <2>2. Untouched(d)
    BY <1>1, <1>2, <1>3, <1>4, <2>1 DEF Untouched
  <2> QED
    BY <2>2, UntouchedGood DEF TInv
<1>5. CASE d \in lost
  <2>1. cli[d] # "none"
    BY <1>5 DEF TInv, LoopInv
  <2>2. cli'[d] = "closed" /\ ~Carries(d)' /\ ~Speaks(d)'
    BY <1>1, <1>5 DEF Carries, Speaks
  <2>3. ctrl[d] \in Seq(Messages) /\ Len(ctrl[d]) \in Nat
    BY LocalTypes DEF TInv
  <2>4. <<>> \in Seq(Messages) /\ Len(<<>>) = 0
    BY EmptySeq
  <2>5. /\ ctrl'[d] \in Seq(Messages) /\ Len(ctrl'[d]) \in 0..Len(ctrl[d])
        /\ \A k \in 1..Len(ctrl'[d]) : ctrl'[d][k] = ctrl[d][k]
    <3>1. CASE ctrl'[d] = ctrl[d]
      BY <2>3, <3>1
    <3>2. CASE ctrl'[d] = <<>>
      BY <2>3, <2>4, <3>2
    <3> QED
      BY <1>1, <3>1, <3>2
  <2> HIDE DEF lost, mine
  <2> QED
    BY <1>1, <1>2, <1>3, <2>1, <2>2, <2>5, StopsGood
<1> QED
  BY <1>4, <1>5

LEMMA EdgeCrashGood ==
  ASSUME TInv, IInv', EdgeCrash
  PROVE  \A d \in Conns : Good(d)'
<1> SUFFICES ASSUME NEW d \in Conns PROVE Good(d)'
  OBVIOUS
<1>1. /\ UNCHANGED <<pc, conn, ctxDone, cli, pinger, unreg, dead>>
      /\ wl'[d] = "off" /\ ctl'[d] = "off" /\ ctrl'[d] = <<>> /\ closed' = {}
      /\ srv'[d] = IF cli[d] = "none" THEN "none" ELSE "taken"
      /\ d \in cut' <=> cli[d] # "none"
  BY DEF EdgeCrash, procVars
<1>2. ~RegisteredAt(d)' /\ Age(d)' = NeverPinged
  BY <1>1, ViewHoldsNext DEF View
<1>3. Good(d) /\ ~Carries(d)' /\ (Starting(d)' <=> Starting(d)) /\ Len(<<>>) = 0
  BY <1>1, OwnersSame, EmptySeq DEF TInv, Carries
<1>4. Settled(d)'
  BY <1>1, <1>3 DEF Good, Settled, Speaks
<1>5. Overdue(d)' /\ Kept(d)'
  BY <1>2, <1>3 DEF Overdue, Kept
<1>6. Spoken(d)'
  BY <1>1, <1>2, <1>3 DEF Good, Spoken, Speaks, Heard
<1> QED
  BY <1>4, <1>5, <1>6 DEF Good

LEMMA RetireGood ==
  ASSUME TInv, IInv', NEW c \in Conns, Retire(c)
  PROVE  \A d \in Conns : Good(d)'
<1>1. /\ UNCHANGED <<pc, conn, ctxDone, pinger, unreg, connectors, wl, ctl>>
      /\ \A d \in Conns : d # c => /\ cli'[d] = cli[d] /\ srv'[d] = srv[d] /\ ctrl'[d] = ctrl[d]
                                   /\ dead'[d] = dead[d]
                                   /\ d \in cut' <=> d \in cut
                                   /\ d \in closed' <=> d \in closed
      /\ cli[c] = "closed" /\ cli'[c] = "none" /\ srv'[c] = "none" /\ ctrl'[c] = <<>>
      /\ dead'[c] = 0 /\ c \notin cut' /\ c \notin closed' /\ wl[c] = "off" /\ ctl[c] = "off"
  BY DEF Retire, procVars, TInv, TunnelTypeOK
<1>2. \A d \in Conns : (Starting(d)' <=> Starting(d)) /\ (OwnerCancelled(d)' <=> OwnerCancelled(d))
  BY <1>1, OwnersSame
<1>3. \A d \in Conns : (RegisteredAt(d)' <=> RegisteredAt(d)) /\ Age(d)' = Age(d)
  BY <1>1, ViewSame
<1>4. ASSUME NEW d \in Conns, d # c PROVE Good(d)'
  <2>1. Untouched(d)
    BY <1>1, <1>2, <1>3, <1>4 DEF Untouched
  <2> QED
    BY <2>1, UntouchedGood DEF TInv
<1>5. Good(c)'
  <2>1. /\ Good(c) /\ ~Speaks(c) /\ ~RegisteredAt(c) /\ Age(c) = NeverPinged /\ Len(<<>>) = 0
    BY <1>1, LocalTypes, EmptySeq DEF TInv, Good, Settled
  <2>2. ~Speaks(c)' /\ ~Carries(c)' /\ ~Heard(c)'
    BY <1>1, <2>1 DEF Speaks, Carries, Heard
  <2>3. Settled(c)'
    BY <1>1, <2>2 DEF Settled
  <2>4. Overdue(c)' /\ Kept(c)'
    BY <1>3, <2>1, <2>2 DEF Overdue, Kept
  <2>5. Spoken(c)'
    BY <1>1, <1>2, <1>3, <2>1, <2>2 DEF Spoken
  <2> QED
    BY <2>3, <2>4, <2>5 DEF Good
<1> QED
  BY <1>4, <1>5

\* A tick: no message is waiting and no ping is due.
LEMMA TimeGood ==
  ASSUME TInv, IInv', TimePasses
  PROVE  \A d \in Conns : Good(d)'
<1> SUFFICES ASSUME NEW d \in Conns PROVE Good(d)'
  OBVIOUS
<1>1. /\ UNCHANGED <<pc, conn, ctxDone, cli, srv, ctrl, unreg, cut>> /\ Tick
      /\ pinger[d] # 0 /\ ctrl[d] = <<>>
      /\ pinger'[d] = IF pinger[d] = PingerOff THEN PingerOff ELSE pinger[d] - 1
      /\ dead'[d] = IF cli[d] = "none" \/ Carries(d) \/ dead[d] >= StaleAfter
                    THEN dead[d] ELSE dead[d] + 1
  BY DEF TimePasses, procVars
<1>2. /\ UNCHANGED <<wl, ctl, closed>>
      /\ (RegisteredAt(d)' <=> RegisteredAt(d)) /\ Age(d)' = Older(Age(d))
  BY <1>1, TickView DEF Tick, TInv
<1>3. (Starting(d)' <=> Starting(d)) /\ (OwnerCancelled(d)' <=> OwnerCancelled(d))
  BY <1>1, OwnersSame
<1> DEFINE a == Age(d)
           b == Older(a)
<1>4. /\ Good(d) /\ a \in Int /\ a \in {-1} \cup 0..StaleAfter /\ StaleAfter \in Nat
      /\ PingEvery \in Nat /\ NeverPinged = -1 /\ PingerOff = -1
      /\ pinger[d] \in {-1} \cup 0..PingEvery /\ dead[d] \in Nat /\ dead[d] <= StaleAfter
      /\ RegisteredAt(d) => a # NeverPinged
  BY LocalTypes DEF TInv
<1>5. /\ b \in Int /\ (b = -1 <=> a = -1) /\ b <= a + 1
      /\ a # -1 => b >= a /\ (b = a => a >= StaleAfter) /\ (b = a \/ b = a + 1)
  BY <1>4 DEF Older
<1> HIDE DEF a, b
<1>6. Age(d) = a /\ Age(d)' = b
  BY <1>2 DEF a, b
<1>7. (pinger'[d] = PingerOff <=> pinger[d] = PingerOff) /\ (Speaks(d)' <=> Speaks(d))
  <2>1. pinger'[d] = PingerOff <=> pinger[d] = PingerOff
    BY <1>1, <1>4
  <2> QED
    BY <1>1, <2>1 DEF Speaks
<1>8. Carries(d)' <=> Carries(d)
  BY <1>1 DEF Carries
<1>9. Settled(d)'
  <2>1. dead'[d] > 0 => ~Carries(d)
    BY <1>1, <1>4 DEF Good, Settled
  <2>2. cli[d] = "none" => dead'[d] = dead[d]
    BY <1>1
  <2> QED
    BY <1>1, <1>2, <1>4, <1>7, <1>8, <2>1, <2>2 DEF Good, Settled
<1>10. Overdue(d)'
  <2> SUFFICES ASSUME RegisteredAt(d) PROVE b >= dead'[d]
    BY <1>2, <1>6 DEF Overdue
  <2>1. a >= dead[d] /\ a # -1
    BY <1>4, <1>6 DEF Good, Overdue
  <2>2. dead'[d] = dead[d] \/ (dead[d] < StaleAfter /\ dead'[d] = dead[d] + 1)
    BY <1>1, <1>4
  <2> QED
    BY <1>4, <1>5, <2>1, <2>2
<1>11. Kept(d)'
  <2> SUFFICES ASSUME Carries(d), ~OwnerCancelled(d), RegisteredAt(d)
               PROVE  pinger'[d] # PingerOff /\ b <= PingEvery /\ b + pinger'[d] <= PingEvery
    BY <1>1, <1>2, <1>3, <1>6, <1>8 DEF Kept
  <2>1. pinger[d] # PingerOff /\ a + pinger[d] <= PingEvery
    BY <1>1, <1>4, <1>6 DEF Good, Kept
  <2>2. pinger'[d] = pinger[d] - 1 /\ pinger[d] >= 1 /\ pinger[d] \in Int
    BY <1>1, <1>4, <2>1
  <2> QED
    BY <1>4, <1>5, <2>1, <2>2
<1>12. Spoken(d)'
  <2>1. Len(<<>>) = 0
    BY EmptySeq
  <2>2. b = NeverPinged <=> a = NeverPinged
    BY <1>4, <1>5
  <2>3. Heard(d)' <=> Heard(d)
    BY <1>1, <1>2 DEF Heard
  <2> QED
    BY <1>1, <1>2, <1>3, <1>4, <1>6, <1>7, <1>8, <2>1, <2>2, <2>3 DEF Good, Spoken
<1> QED
  BY <1>9, <1>10, <1>11, <1>12 DEF Good

-----------------------------------------------------------------------------
(* The inductive invariant.                                                *)

LEMMA GoodNext ==
  ASSUME TInv, IInv', [TunnelNext]_tunnelVars
  PROVE  \A d \in Conns : Good(d)'
<1>1. ASSUME NEW c \in Conns, EdgeStep(c) PROVE \A d \in Conns : Good(d)'
  BY <1>1, EdgeStepGood
<1>2. ASSUME NEW l \in Loops, LoopStep(l) \/ DialFails(l) PROVE \A d \in Conns : Good(d)'
  BY <1>2, LoopStepGood
<1>3. ASSUME NEW c \in Conns, PingerSends(c) \/ PingerStops(c) \/ UnregisterSends(c)
      PROVE  \A d \in Conns : Good(d)'
  BY <1>3, GoroutinesGood
<1>4. ASSUME NEW c \in Conns, Cut(c) \/ ConnectorSeesCut(c) PROVE \A d \in Conns : Good(d)'
  BY <1>4, CutGood
<1>5. ASSUME NEW c \in Conns, Retire(c) PROVE \A d \in Conns : Good(d)'
  BY <1>5, RetireGood
<1>6. ASSUME NEW p \in Procs, Shutdown(p) PROVE \A d \in Conns : Good(d)'
  BY <1>6, ShutdownGood
<1>7. ASSUME NEW p \in Procs, ConnectorCrash(p) PROVE \A d \in Conns : Good(d)'
  BY <1>7, ConnectorCrashGood
<1>8. CASE EdgeCrash
  BY <1>8, EdgeCrashGood
<1>9. CASE TimePasses
  BY <1>9, TimeGood
<1>10. ASSUME UNCHANGED tunnelVars, NEW d \in Conns PROVE Good(d)'
  <2>1. UNCHANGED <<pc, conn, ctxDone, cli, srv, ctrl, pinger, unreg, cut, dead>> /\ UNCHANGED regVars
    BY <1>10 DEF tunnelVars, procVars, quicVars
  <2>2. Untouched(d)
    BY <2>1, OwnersSame, RegistryView DEF Untouched
  <2> QED
    BY <2>2, UntouchedGood DEF TInv
<1> QED
  BY <1>1, <1>2, <1>3, <1>4, <1>5, <1>6, <1>7, <1>8, <1>9, <1>10 DEF TunnelNext

LEMMA TunnelInitGood == TunnelInit => TInv
<1> SUFFICES ASSUME TunnelInit PROVE TInv
  OBVIOUS
<1>1. IInv /\ TunnelTypeOK /\ LoopInv
  BY TunnelInitInv
<1>2. ASSUME NEW c \in Conns PROVE Good(c)
  <2>1. /\ cli[c] = "none" /\ srv[c] = "none" /\ ctrl[c] = <<>> /\ pinger[c] = PingerOff
        /\ unreg = {} /\ cut = {} /\ closed = {} /\ dead[c] = 0 /\ wl[c] = "off" /\ ctl[c] = "off"
        /\ conn = [l \in Loops |-> None]
    BY DEF TunnelInit, Init
  <2>2. ~Speaks(c) /\ ~Carries(c) /\ ~Heard(c) /\ ~Starting(c) /\ ~RegisteredAt(c)
    BY <1>1, <2>1, LocalTypes, TunnelAssumption DEF Speaks, Carries, Heard, Starting
  <2>3. Settled(c) /\ Overdue(c) /\ Kept(c) /\ Spoken(c)
    BY <2>1, <2>2 DEF Settled, Overdue, Kept, Spoken
  <2> QED
    BY <2>3 DEF Good
<1> QED
  BY <1>1, <1>2 DEF TInv

LEMMA TunnelInvNext == TInv /\ [TunnelNext]_tunnelVars => TInv'
<1> SUFFICES ASSUME TInv, [TunnelNext]_tunnelVars PROVE TInv'
  OBVIOUS
<1>1. IInv'
  BY RegistryNext DEF TInv
<1>2. LoopInv'
  BY LoopsNext DEF TInv
<1>3. TypeOK'
  BY <1>1 DEF IInv
<1>4. TunnelTypeOK'
  BY <1>3, TypesNext DEF TInv
<1>5. \A d \in Conns : Good(d)'
  BY <1>1, GoodNext
<1> QED
  BY <1>1, <1>2, <1>4, <1>5 DEF TInv

LEMMA TunnelInvariance == TunnelSpec => []TInv
  BY TunnelInitGood, TunnelInvNext, PTL DEF TunnelSpec

-----------------------------------------------------------------------------
(* The theorems.                                                           *)

\* Every variable of the tunnel keeps its type.
THEOREM TunnelTypeCorrect == TunnelSpec => []TunnelTypeOK
<1>1. TInv => TunnelTypeOK
  BY DEF TInv
<1> QED
  BY <1>1, TunnelInvariance, PTL

\* However often the loops redial, and whatever faults and signals interrupt
\* them, runOnce closes what it dialled: every open connection has the one loop
\* that will close it.
THEOREM ReconnectsLeakNothing == TunnelSpec => []NoLeakedConnection
<1>1. TInv => NoLeakedConnection
  BY DEF TInv, LoopInv
<1> QED
  BY <1>1, TunnelInvariance, PTL

\* A reference whose connection stopped carrying pings StaleAfter ticks ago is
\* not live, whether or not QUIC has told the edge: pings in flight when the
\* path was cut cannot refresh it later.
THEOREM DeadConnectorsGoStale == TunnelSpec => []DeadIsNotPicked
<1>1. TInv => DeadIsNotPicked
  <2> SUFFICES ASSUME TInv, NEW i \in 1..Len(connectors),
                      dead[connectors[i].conn] >= StaleAfter, StaleAfter # 0
               PROVE  ~Live(connectors[i])
    BY DEF DeadIsNotPicked
  <2>1. /\ connectors[i].conn \in Conns
        /\ RegisteredAt(connectors[i].conn) <=> connectors[i].registered
        /\ Age(connectors[i].conn) = connectors[i].lastPing
    BY ViewHolds DEF TInv, View
  <2> DEFINE c == connectors[i].conn
  <2>2. /\ dead[c] \in Nat /\ Age(c) \in Int /\ StaleAfter \in Nat
        /\ RegisteredAt(c) => Age(c) # NeverPinged /\ Age(c) >= dead[c]
    BY <2>1, LocalTypes DEF TInv, Good, Overdue
  <2> HIDE DEF c
  <2>3. RegisteredAt(c) => Age(c) # NeverPinged /\ ~(Age(c) < StaleAfter) /\ ~(StaleAfter <= 0)
    BY <2>2 DEF c
  <2> QED
    BY <2>1, <2>3 DEF Live, c
<1> QED
  BY <1>1, TunnelInvariance, PTL

\* A ping period below the edge's limit, or no limit.
PingsInTime == StaleAfter = 0 \/ PingEvery < StaleAfter

\* If pings are due before the limit, then a registered connector whose path
\* carries them and whose process was not told to stop is live in every state:
\* no interleaving of reads, ticks and other connections makes it stale.
THEOREM HealthyConnectorsStayLive == PingsInTime => (TunnelSpec => []HealthyStaysLive)
<1> SUFFICES ASSUME PingsInTime PROVE TunnelSpec => []HealthyStaysLive
  OBVIOUS
<1>1. TInv => HealthyStaysLive
  <2> SUFFICES ASSUME TInv, NEW i \in 1..Len(connectors), NEW l \in Loops,
                      connectors[i].conn = conn[l], connectors[i].registered,
                      Carries(conn[l]), ~Cancelled(l)
               PROVE  Live(connectors[i])
    BY DEF HealthyStaysLive
  <2>1. PICK c \in Conns : c = conn[l] /\ RegisteredAt(c) /\ Age(c) = connectors[i].lastPing
    BY ViewHolds DEF TInv, View
  <2>2. ~OwnerCancelled(c)
    <3>1. \A m \in Loops : conn[m] = c => m = l
      BY <2>1, TunnelAssumption DEF TInv, LoopInv, NoLeakedConnection
    <3> QED
      BY <3>1 DEF OwnerCancelled
  <2>3. Age(c) <= PingEvery /\ Age(c) \in Int /\ PingEvery \in Nat /\ StaleAfter \in Nat
    BY <2>1, <2>2, LocalTypes DEF TInv, Good, Kept
  <2>4. StaleAfter <= 0 \/ Age(c) < StaleAfter
    BY <2>3 DEF PingsInTime
  <2> QED
    BY <2>1, <2>4 DEF Live
<1> QED
  BY <1>1, TunnelInvariance, PTL

-----------------------------------------------------------------------------
(* The tunnel implements ConnectorLifecycle.                               *)

phases == [c \in Conns |-> Phase(c)]

\* The phase of a connection, from the age of its last ping.
LEMMA PhaseIs ==
  ASSUME TInv, NEW c \in Conns
  PROVE  Phase(c) = IF wl[c] = "off" THEN "absent"
                    ELSE IF RegisteredAt(c) THEN "registered"
                    ELSE IF Age(c) # NeverPinged THEN "unregistered" ELSE "connected"
<1>1. CASE wl[c] = "off"
  BY <1>1 DEF Phase
<1>2. CASE wl[c] # "off"
  <2>1. wl[c] = "watching" /\ (ctl[c] = "accept" => Age(c) = NeverPinged)
    BY <1>2, LocalTypes DEF TInv, Good, Spoken
  <2>2. PICK i \in 1..Len(connectors) : connectors[i].conn = c
    BY <2>1, ViewHolds DEF TInv, View
  <2>3. \A j \in 1..Len(connectors) : connectors[j].conn = c => connectors[j].lastPing = Age(c)
    BY ViewHolds DEF TInv, View
  <2>4. EverRegistered(c) <=> Age(c) # NeverPinged
    BY <2>1, <2>2, <2>3 DEF EverRegistered
  <2> QED
    BY <1>2, <2>4 DEF Phase
<1> QED
  BY <1>1, <1>2

PhaseByAge ==
  \A c \in Conns : Phase(c) = IF wl[c] = "off" THEN "absent"
                              ELSE IF RegisteredAt(c) THEN "registered"
                              ELSE IF Age(c) # NeverPinged THEN "unregistered" ELSE "connected"

\* The same of the next state.
LEMMA PhaseByAgeNext == TInv' => PhaseByAge'
<1>1. TInv => PhaseByAge
  BY PhaseIs DEF PhaseByAge
<1> QED
  BY <1>1, PTL

LEMMA PhaseIsNext ==
  ASSUME TInv', NEW c \in Conns
  PROVE  Phase(c)' = IF wl'[c] = "off" THEN "absent"
                     ELSE IF RegisteredAt(c)' THEN "registered"
                     ELSE IF Age(c)' # NeverPinged THEN "unregistered" ELSE "connected"
BY PhaseByAgeNext DEF PhaseByAge

\* A step that changes neither the reference nor whether it ever pinged.
LEMMA PhaseSame ==
  ASSUME TInv, TInv', NEW d \in Conns, wl'[d] = wl[d], RegisteredAt(d)' <=> RegisteredAt(d),
         Age(d)' = NeverPinged <=> Age(d) = NeverPinged
  PROVE  Phase(d)' = Phase(d)
BY PhaseIs, PhaseIsNext

\* What a step of the edge on c does to the phases.
LEMMA EdgeStepMoves ==
  ASSUME TInv, TInv', NEW c \in Conns, EdgeStep(c)
  PROVE  \/ UNCHANGED phases
         \/ Lifecycle!Connect(c) \/ Lifecycle!Register(c) \/ Lifecycle!Unregister(c)
         \/ Lifecycle!Lose(c)
<1>1. IInv /\ IInv' /\ TunnelTypeOK
  BY DEF TInv
<1>2. ASSUME NEW d \in Conns, d # c PROVE Phase(d)' = Phase(d)
  BY <1>1, <1>2, EdgeFrame, EdgeView, PhaseSame
<1>3. phases' = [phases EXCEPT ![c] = Phase(c)'] /\ phases[c] = Phase(c)
  BY <1>2 DEF phases
<1>4. ASSUME Phase(c)' = Phase(c) PROVE UNCHANGED phases
  BY <1>2, <1>4 DEF phases
<1>5. /\ Phase(c) = "absent" /\ Phase(c)' = "connected" => Lifecycle!Connect(c)
      /\ Phase(c) = "connected" /\ Phase(c)' = "registered" => Lifecycle!Register(c)
      /\ Phase(c) = "registered" /\ Phase(c)' = "unregistered" => Lifecycle!Unregister(c)
      /\ Phase(c) # "absent" /\ Phase(c)' = "absent" => Lifecycle!Lose(c)
  <2>1. Phase(c) \in {"absent", "registered", "unregistered", "connected"}
    BY DEF Phase
  <2> QED
    BY <1>3, <2>1 DEF phases, Lifecycle!Connect, Lifecycle!Register, Lifecycle!Unregister,
                      Lifecycle!Lose, Lifecycle!Move, Lifecycle!Phases
<1>6. /\ Phase(c) = IF wl[c] = "off" THEN "absent"
                    ELSE IF RegisteredAt(c) THEN "registered"
                    ELSE IF Age(c) # NeverPinged THEN "unregistered" ELSE "connected"
      /\ Phase(c)' = IF wl'[c] = "off" THEN "absent"
                     ELSE IF RegisteredAt(c)' THEN "registered"
                     ELSE IF Age(c)' # NeverPinged THEN "unregistered" ELSE "connected"
      /\ wl[c] \in {"off", "watching"} /\ (RegisteredAt(c) => Age(c) # NeverPinged)
      /\ wl[c] # "watching" => ~RegisteredAt(c) /\ Age(c) = NeverPinged
  BY <1>1, PhaseIs, PhaseIsNext, LocalTypes
<1>7. CASE EdgeAccept(c)
  <2>1. wl[c] = "off" /\ wl'[c] = "watching" /\ ~RegisteredAt(c)' /\ Age(c)' = NeverPinged
    BY <1>1, <1>7, AddView DEF EdgeAccept, AddConnector, TunnelTypeOK, TypeOK
  <2> QED
    BY <1>5, <1>6, <2>1
<1>8. CASE EdgeNeverSees(c) \/ EdgeAcceptControl(c) \/ EdgeAcceptControlFails(c) \/ EdgeSeesClose(c)
  <2>1. UNCHANGED <<connectors, wl>>
    BY <1>8 DEF EdgeNeverSees, EdgeAcceptControl, EdgeAcceptControlFails, EdgeSeesClose,
                regVars, AcceptControl, AcceptControlFails, ConnClosed
  <2> QED
    BY <1>4, <2>1, ViewSame, PhaseSame
<1>9. CASE EdgeReads(c)
  <2>1. wl' = wl /\ ctl[c] = "reading" /\ ctrl[c] # <<>>
    BY <1>9 DEF EdgeReads, OnRegister, OnPing, OnUnregister
  <2>2. CASE wl[c] # "watching"
    <3>1. wl'[c] = "off"
      BY <1>6, <2>1, <2>2
    <3> QED
      BY <1>4, <1>6, <2>2, <3>1
  <2>3. CASE wl[c] = "watching"
    <3>1. Head(ctrl[c]) = "register" <=> Age(c) = NeverPinged
      <4>1. ctrl[c] \in Seq(Messages) /\ Len(ctrl[c]) \in Nat /\ Len(ctrl[c]) # 0
        BY <1>1, <2>1, LocalTypes
      <4>2. Head(ctrl[c]) = ctrl[c][1] /\ 1 \in 1..Len(ctrl[c])
        BY <4>1
      <4> QED
        BY <2>3, <4>2 DEF TInv, Good, Spoken, Heard
    <3>2. CASE Head(ctrl[c]) = "register" /\ OnRegister(c)
      <4>1. RegisteredAt(c)'
        BY <1>1, <2>1, <2>3, <3>2, MessageView DEF OnRegister
      <4> QED
        BY <1>5, <1>6, <2>1, <2>3, <3>1, <3>2, <4>1
    <3>3. CASE Head(ctrl[c]) = "ping" /\ OnPing(c)
      <4>1. (RegisteredAt(c)' <=> RegisteredAt(c)) /\ Age(c)' = 0
        BY <1>1, <2>1, <2>3, <3>3, MessageView DEF OnPing
      <4>2. Age(c) # NeverPinged /\ Age(c)' # NeverPinged
        BY <3>1, <3>3, <4>1 DEF NeverPinged
      <4> QED
        BY <1>4, <2>1, <4>1, <4>2, PhaseSame
    <3>4. CASE Head(ctrl[c]) = "unregister" /\ OnUnregister(c)
      <4>1. ~RegisteredAt(c)' /\ Age(c)' = Age(c) /\ Age(c) # NeverPinged
        BY <1>1, <2>1, <2>3, <3>1, <3>4, MessageView DEF OnUnregister
      <4> QED
        BY <1>4, <1>5, <1>6, <2>1, <2>3, <4>1
    <3> QED
      BY <1>9, <3>2, <3>3, <3>4 DEF EdgeReads
  <2> QED
    BY <2>2, <2>3
<1>10. CASE EdgeReadError(c)
  <2>1. wl' = wl /\ ControlReadError(c) /\ UpdateConnector(cid[c], "unregister")
    BY <1>10 DEF EdgeReadError, ControlReadError
  <2>2. CASE wl[c] # "watching"
    <3>1. wl'[c] = "off"
      BY <1>6, <2>1, <2>2
    <3> QED
      BY <1>4, <1>6, <2>2, <3>1
  <2>3. CASE wl[c] = "watching"
    <3>1. ~RegisteredAt(c)' /\ Age(c)' = Age(c)
      BY <1>1, <2>1, <2>3, MessageView
    <3> QED
      BY <1>4, <1>5, <1>6, <2>1, <2>3, <3>1
  <2> QED
    BY <2>2, <2>3
<1>11. CASE EdgeWatchLost(c)
  <2>1. wl[c] = "watching" /\ wl'[c] = "off"
    BY <1>11 DEF EdgeWatchLost, WatchLost, TInv, TunnelTypeOK, TypeOK
  <2> QED
    BY <1>5, <1>6, <2>1
<1> QED
  BY <1>7, <1>8, <1>9, <1>10, <1>11 DEF EdgeStep

LEMMA StepMoves ==
  ASSUME TInv, TInv', [TunnelNext]_tunnelVars
  PROVE  [Lifecycle!LifecycleNext]_phases
<1>1. ASSUME NEW c \in Conns, EdgeStep(c) PROVE [Lifecycle!LifecycleNext]_phases
  BY <1>1, EdgeStepMoves DEF Lifecycle!LifecycleNext
<1>2. CASE EdgeCrash
  <2>1. \A c \in Conns : Phase(c)' = "absent"
    BY <1>2, PhaseIsNext DEF EdgeCrash
  <2>2. Lifecycle!Forget
    BY <2>1 DEF Lifecycle!Forget, phases
  <2> QED
    BY <2>2 DEF Lifecycle!LifecycleNext
<1>3. CASE TimePasses
  <2>1. IInv /\ IInv' /\ Tick /\ wl' = wl
    BY <1>3 DEF TInv, TimePasses, Tick
  <2>2. ASSUME NEW d \in Conns PROVE Phase(d)' = Phase(d)
    <3>1. (RegisteredAt(d)' <=> RegisteredAt(d)) /\ Age(d)' = Older(Age(d))
      BY <2>1, TickView
    <3>2. Age(d) \in {-1} \cup 0..StaleAfter /\ StaleAfter \in Nat /\ NeverPinged = -1
      BY LocalTypes DEF TInv
    <3>3. Age(d)' = NeverPinged <=> Age(d) = NeverPinged
      BY <3>1, <3>2 DEF Older
    <3> QED
      BY <2>1, <3>1, <3>3, PhaseSame
  <2>3. UNCHANGED phases
    BY <2>2 DEF phases
  <2> QED
    BY <2>3
<1>4. ASSUME UNCHANGED <<connectors, wl>> PROVE [Lifecycle!LifecycleNext]_phases
  <2>1. \A d \in Conns : Phase(d)' = Phase(d)
    BY <1>4, ViewSame, PhaseSame
  <2>2. UNCHANGED phases
    BY <2>1 DEF phases
  <2> QED
    BY <2>2
<1>5. ASSUME NEW l \in Loops, LoopStep(l) \/ DialFails(l) PROVE UNCHANGED <<connectors, wl>>
  BY <1>5 DEF LoopStep, DialFails, Dial, LoopEnds, DelayEnds, OpenControl, WriteRegister,
              ServeEnds, CloseConn, BackoffEnds, ConnectorOnly, regVars
<1>6. ASSUME NEW c \in Conns,
             \/ PingerSends(c) \/ PingerStops(c) \/ UnregisterSends(c) \/ Cut(c)
             \/ ConnectorSeesCut(c) \/ Retire(c)
      PROVE  UNCHANGED <<connectors, wl>>
  BY <1>6 DEF PingerSends, PingerStops, UnregisterSends, Cut, ConnectorSeesCut, Retire,
              ConnectorOnly, regVars
<1>7. ASSUME NEW p \in Procs, Shutdown(p) \/ ConnectorCrash(p) PROVE UNCHANGED <<connectors, wl>>
  BY <1>7 DEF Shutdown, ConnectorCrash, regVars
<1>8. UNCHANGED tunnelVars => UNCHANGED <<connectors, wl>>
  BY DEF tunnelVars, regVars
<1> QED
  BY <1>1, <1>2, <1>3, <1>4, <1>5, <1>6, <1>7, <1>8 DEF TunnelNext

\* Registry, control stream and connectors together implement the lifecycle:
\* every connection is connected, registered and unregistered at most once and
\* in that order, whatever is delayed, lost or read after the connection ended.
THEOREM TunnelFollowsLifecycle == TunnelSpec => FollowsLifecycle
<1>1. TunnelInit => Lifecycle!LifecycleInit
  BY DEF TunnelInit, Init, Lifecycle!LifecycleInit, Phase
<1>2. TInv /\ TInv' /\ [TunnelNext]_tunnelVars => [Lifecycle!LifecycleNext]_phases
  BY StepMoves
<1> QED
  BY <1>1, <1>2, TunnelInvariance, PTL
     DEF TunnelSpec, FollowsLifecycle, Lifecycle!LifecycleSpec, phases
=============================================================================
