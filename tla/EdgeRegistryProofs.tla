------------------------- MODULE EdgeRegistryProofs -------------------------
(***************************************************************************)
(* Safety of the edge's connector registry for any number of connections,  *)
(* any keepalive and any number of accepted connections.                   *)
(*                                                                         *)
(* RegisteredHasReader is not inductive by itself: updateConnector finds a *)
(* reference by id and watchLost finds it by connection, so the argument   *)
(* needs that the two keys denote the same reference (RefIffWatched) and   *)
(* that no two connections' goroutines captured the same id (DistinctIds). *)
(*                                                                         *)
(* RoundRobinEven rests on the ids of the live list being different, which *)
(* is an induction over the loop that builds it, and on the picks of a     *)
(* window being the turns just before the counter (WindowInv).             *)
(***************************************************************************)
EXTENDS EdgeRegistry, SequenceTheorems, WellFoundedInduction, TLAPS

\* The id captured by a connection's goroutines is never captured twice.
DistinctIds ==
  /\ \A c \in Conns : cid[c] <= nextConnectorID
  /\ \A c, d \in Conns : c # d /\ cid[c] = cid[d] => cid[c] = 0

RefInv == OrderedByID /\ RefIffWatched /\ DistinctIds
RegInv == RegisteredHasReader /\ RegisteredHasPing
IInv == TypeOK /\ RefInv /\ RegInv

-----------------------------------------------------------------------------
(* Sequences.                                                              *)

\* Rewriting every element in place keeps the length and the element set.
LEMMA PointwiseUpdate ==
  ASSUME NEW S, NEW s \in Seq(S), NEW t,
         t = [i \in 1..Len(s) |-> t[i]],
         \A i \in 1..Len(s) : t[i] \in S
  PROVE  t \in Seq(S) /\ Len(t) = Len(s)
<1>1. Len(s) \in Nat
  BY LenProperties
<1>2. t \in [1..Len(s) -> S]
  OBVIOUS
<1>3. t \in Seq(S)
  BY <1>1, <1>2, SeqDef
<1>4. DOMAIN t = 1..Len(s) /\ DOMAIN t = 1..Len(t) /\ Len(t) \in Nat
  BY <1>2, <1>3, LenProperties
<1>5. Len(t) = Len(s)
  BY <1>1, <1>4
<1> QED
  BY <1>3, <1>5

\* Removing index i: the slice idiom of watchLost keeps every other element,
\* in order.
LEMMA WithoutIndexProperties ==
  ASSUME NEW S, NEW s \in Seq(S), NEW i \in 1..Len(s)
  PROVE  /\ WithoutIndex(s, i) \in Seq(S)
         /\ Len(WithoutIndex(s, i)) = Len(s) - 1
         /\ \A j \in 1..(Len(s) - 1) :
              WithoutIndex(s, i)[j] = IF j < i THEN s[j] ELSE s[j + 1]
<1> DEFINE a == SubSeq(s, 1, i - 1)
           b == SubSeq(s, i + 1, Len(s))
<1>1. Len(s) \in Nat /\ i \in Nat /\ 1 <= i /\ i <= Len(s)
  BY LenProperties
<1>2. /\ a \in Seq(S) /\ Len(a) = i - 1
      /\ \A j \in 1..(i - 1) : a[j] = s[j]
  <2>1. \A j \in 1..(i - 1) : s[j] \in S
    BY <1>1, ElementOfSeq
  <2> QED
    BY <1>1, <2>1, SubSeqProperties
<1>3. /\ b \in Seq(S) /\ Len(b) = Len(s) - i
      /\ \A j \in 1..(Len(s) - i) : b[j] = s[i + j]
  <2>1. \A j \in (i + 1)..Len(s) : s[j] \in S
    BY <1>1, ElementOfSeq
  <2> QED
    BY <1>1, <2>1, SubSeqProperties
<1> HIDE DEF a, b
<1>4. /\ a \o b \in Seq(S)
      /\ Len(a \o b) = Len(s) - 1
      /\ \A j \in 1..(Len(s) - 1) :
           (a \o b)[j] = IF j <= i - 1 THEN a[j] ELSE b[j - (i - 1)]
  <2>1. Len(a) + Len(b) = Len(s) - 1 /\ Len(a) = i - 1
    BY <1>1, <1>2, <1>3
  <2>2. /\ a \o b \in Seq(S)
        /\ Len(a \o b) = Len(a) + Len(b)
        /\ \A j \in 1..(Len(a) + Len(b)) :
             (a \o b)[j] = IF j <= Len(a) THEN a[j] ELSE b[j - Len(a)]
    BY <1>2, <1>3, ConcatProperties
  <2> QED
    BY <2>1, <2>2
<1>5. ASSUME NEW j \in 1..(Len(s) - 1)
      PROVE  (a \o b)[j] = IF j < i THEN s[j] ELSE s[j + 1]
  <2>1. CASE j < i
    BY <1>1, <1>2, <1>4, <2>1
  <2>2. CASE ~(j < i)
    <3>1. j - (i - 1) \in 1..(Len(s) - i) /\ i + (j - (i - 1)) = j + 1
      BY <1>1, <2>2
    <3> QED
      BY <1>1, <1>3, <1>4, <2>2, <3>1
  <2> QED
    BY <2>1, <2>2
<1>6. WithoutIndex(s, i) = a \o b
  BY DEF WithoutIndex, a, b
<1> QED
  BY <1>4, <1>5, <1>6

-----------------------------------------------------------------------------
(* Facts about one state.                                                  *)

LEMMA StaleAfterType == StaleAfter \in Nat
  BY RegistryAssumption DEF StaleAfter

\* Every reference in the slice is a well-formed one.
LEMMA RefType ==
  ASSUME TypeOK, NEW i \in 1..Len(connectors)
  PROVE  /\ connectors[i] \in ConnectorRef
         /\ connectors[i].id \in Nat
         /\ connectors[i].conn \in Conns
         /\ connectors[i].registered \in BOOLEAN
         /\ connectors[i].lastPing \in Ages
<1>1. connectors[i] \in ConnectorRef
  BY ElementOfSeq DEF TypeOK
<1> QED
  BY <1>1 DEF ConnectorRef

\* The reference updated through the id of c's goroutines is c's own.
LEMMA IdIsConn ==
  ASSUME IInv, NEW c \in Conns, NEW i \in 1..Len(connectors),
         connectors[i].id = cid[c]
  PROVE  connectors[i].conn = c
<1>1. connectors[i].conn \in Conns /\ connectors[i].id \in 1..nextConnectorID
  BY RefType DEF IInv, RefInv, OrderedByID
<1>2. connectors[i].id # 0
  BY <1>1
<1>3. cid[connectors[i].conn] = cid[c]
  BY DEF IInv, RefInv, RefIffWatched
<1> QED
  BY <1>1, <1>2, <1>3 DEF IInv, RefInv, DistinctIds

\* A connection has at most one reference.
LEMMA ConnIsUnique ==
  ASSUME IInv, NEW i \in 1..Len(connectors), NEW j \in 1..Len(connectors),
         connectors[i].conn = connectors[j].conn
  PROVE  i = j
<1>1. connectors[i].id = connectors[j].id
  BY DEF IInv, RefInv, RefIffWatched
<1>2. Len(connectors) \in Nat
  BY LenProperties DEF IInv, TypeOK
<1>3. connectors[i].id \in Nat
  BY RefType DEF IInv
<1> QED
  BY <1>1, <1>2, <1>3 DEF IInv, RefInv, OrderedByID

\* Changing references in place (updateConnector, the clock) keeps the part
\* of the invariant that is about ids and connections.
LEMMA InPlace ==
  ASSUME IInv,
         Len(connectors') = Len(connectors),
         \A i \in 1..Len(connectors) :
            /\ connectors'[i].id = connectors[i].id
            /\ connectors'[i].conn = connectors[i].conn,
         UNCHANGED <<nextConnectorID, wl, cid>>
  PROVE  RefInv'
<1>1. OrderedByID'
  BY DEF IInv, RefInv, OrderedByID
<1>2. RefIffWatched'
  BY DEF IInv, RefInv, RefIffWatched
<1>3. DistinctIds'
  BY DEF IInv, RefInv, DistinctIds
<1> QED
  BY <1>1, <1>2, <1>3 DEF RefInv

\* updateConnector rewrites at most the reference of the calling goroutine's
\* connection and keeps its id and its connection.
LEMMA UpdateFrame ==
  ASSUME IInv, NEW c \in Conns, NEW t,
         t = [i \in 1..Len(connectors) |-> t[i]],
         \A i \in 1..Len(connectors) :
            \/ t[i] = connectors[i]
            \/ /\ connectors[i].id = cid[c]
               /\ t[i] \in ConnectorRef
               /\ t[i].id = connectors[i].id
               /\ t[i].conn = connectors[i].conn
  PROVE  /\ t \in Seq(ConnectorRef)
         /\ Len(t) = Len(connectors)
         /\ \A i \in 1..Len(connectors) :
              /\ t[i].id = connectors[i].id
              /\ t[i].conn = connectors[i].conn
              /\ t[i] = connectors[i] \/ connectors[i].conn = c
<1>1. connectors \in Seq(ConnectorRef)
  BY DEF IInv, TypeOK
<1>2. \A i \in 1..Len(connectors) : t[i] \in ConnectorRef
  BY <1>1, ElementOfSeq
<1>3. t \in Seq(ConnectorRef) /\ Len(t) = Len(connectors)
  BY <1>1, <1>2, PointwiseUpdate
<1> QED
  BY <1>3, IdIsConn

-----------------------------------------------------------------------------
(* One lemma per action.                                                   *)

LEMMA InitInv == Init => IInv
<1> SUFFICES ASSUME Init PROVE IInv
  OBVIOUS
<1>1. connectors \in Seq(ConnectorRef) /\ Len(connectors) = 0
  BY EmptySeq DEF Init
<1>2. TypeOK
  BY <1>1, RegistryAssumption DEF Init, TypeOK
<1>3. OrderedByID /\ RegisteredHasReader /\ RegisteredHasPing
  BY <1>1 DEF OrderedByID, RegisteredHasReader, RegisteredHasPing
<1>4. RefIffWatched
  BY <1>1 DEF Init, RefIffWatched
<1>5. DistinctIds
  BY DEF Init, DistinctIds
<1> QED
  BY <1>2, <1>3, <1>4, <1>5 DEF IInv, RefInv, RegInv

LEMMA AddConnectorInv ==
  ASSUME IInv, NEW c \in Conns, AddConnector(c), rr' = rr
  PROVE  IInv'
<1> DEFINE n == Len(connectors)
           new == [id |-> nextConnectorID + 1, conn |-> c,
                   registered |-> FALSE, lastPing |-> NeverPinged]
<1>1. /\ connectors \in Seq(ConnectorRef)
      /\ n \in Nat
      /\ nextConnectorID \in Nat /\ nextConnectorID < MaxID
      /\ nextConnectorID' = nextConnectorID + 1
  BY LenProperties DEF IInv, TypeOK, AddConnector
<1>2. new \in ConnectorRef
  BY <1>1 DEF ConnectorRef, Ages
<1>3. connectors' = Append(connectors, new)
  BY DEF AddConnector
<1>4. /\ connectors' \in Seq(ConnectorRef)
      /\ Len(connectors') = n + 1
      /\ \A i \in 1..n : connectors'[i] = connectors[i]
      /\ connectors'[n + 1] = new
  BY <1>1, <1>2, <1>3
<1>5. \A i \in 1..n : connectors[i].conn # c
  BY DEF IInv, RefInv, RefIffWatched, AddConnector
<1>6. \A i \in 1..n : connectors[i].conn \in Conns /\ connectors[i].id \in 1..nextConnectorID
  BY <1>1, RefType DEF IInv, RefInv, OrderedByID
<1> HIDE DEF n
<1>7. TypeOK'
  BY <1>1, <1>4, RegistryAssumption DEF IInv, TypeOK, AddConnector
<1>8. OrderedByID'
  <2>1. \A i, j \in 1..(n + 1) : i < j => connectors'[i].id < connectors'[j].id
    <3> SUFFICES ASSUME NEW i \in 1..(n + 1), NEW j \in 1..(n + 1), i < j
                 PROVE  connectors'[i].id < connectors'[j].id
      OBVIOUS
    <3>1. CASE j = n + 1
      <4>1. i \in 1..n
        BY <1>1, <3>1
      <4>2. connectors'[i].id \in 1..nextConnectorID
        BY <1>4, <1>6, <4>1
      <4> QED
        BY <1>1, <1>4, <3>1, <4>2
    <3>2. CASE j # n + 1
      <4>1. i \in 1..n /\ j \in 1..n
        BY <1>1, <3>2
      <4> QED
        BY <1>4, <4>1 DEF IInv, RefInv, OrderedByID, n
    <3> QED
      BY <3>1, <3>2
  <2>2. \A i \in 1..(n + 1) : connectors'[i].id \in 1..nextConnectorID'
    <3> SUFFICES ASSUME NEW i \in 1..(n + 1) PROVE connectors'[i].id \in 1..nextConnectorID'
      OBVIOUS
    <3>1. CASE i = n + 1
      BY <1>1, <1>4, <3>1
    <3>2. CASE i # n + 1
      <4>1. i \in 1..n
        BY <1>1, <3>2
      <4>2. connectors'[i].id \in 1..nextConnectorID
        BY <1>4, <1>6, <4>1
      <4> QED
        BY <1>1, <4>2
    <3> QED
      BY <3>1, <3>2
  <2> QED
    BY <1>4, <2>1, <2>2 DEF OrderedByID
<1>9. /\ wl' = [wl EXCEPT ![c] = "watching"] /\ cid' = [cid EXCEPT ![c] = nextConnectorID + 1]
      /\ ctl' = [ctl EXCEPT ![c] = "accept"]
      /\ wl \in [Conns -> {"off", "watching"}] /\ cid \in [Conns -> 0..MaxID]
      /\ ctl \in [Conns -> {"off", "accept", "reading"}]
  BY DEF AddConnector, IInv, TypeOK
<1>10. \A i \in 1..(n + 1) : i \in 1..n \/ i = n + 1
  BY <1>1
<1>11. RefIffWatched'
  <2>1. \A i \in 1..n : /\ wl'[connectors'[i].conn] = "watching"
                        /\ cid'[connectors'[i].conn] = connectors'[i].id
    BY <1>4, <1>5, <1>6, <1>9 DEF IInv, RefInv, RefIffWatched, n
  <2>2. wl'[connectors'[n + 1].conn] = "watching" /\ cid'[connectors'[n + 1].conn] = connectors'[n + 1].id
    BY <1>4, <1>9
  <2>3. ASSUME NEW d \in Conns, wl'[d] = "watching"
        PROVE  \E i \in 1..(n + 1) : connectors'[i].conn = d
    <3>1. CASE d = c
      <4>1. connectors'[n + 1].conn = c /\ n + 1 \in 1..(n + 1)
        BY <1>1, <1>4
      <4> QED
        BY <3>1, <4>1
    <3>2. CASE d # c
      <4>1. PICK i \in 1..n : connectors[i].conn = d
        BY <1>9, <2>3, <3>2 DEF IInv, RefInv, RefIffWatched, n
      <4>2. i \in 1..(n + 1) /\ connectors'[i].conn = d
        BY <1>1, <1>4, <4>1
      <4> QED
        BY <4>2
    <3> QED
      BY <3>1, <3>2
  <2> QED
    BY <1>4, <1>10, <2>1, <2>2, <2>3 DEF RefIffWatched
<1>12. DistinctIds'
  <2>1. \A d \in Conns : cid[d] \in Nat /\ cid[d] <= nextConnectorID
    BY <1>9 DEF IInv, RefInv, DistinctIds
  <2> QED
    BY <1>1, <1>9, <2>1 DEF IInv, RefInv, DistinctIds
<1>13. RegInv'
  <2>1. \A i \in 1..n : connectors'[i].registered =>
          ctl'[connectors'[i].conn] = "reading" /\ connectors'[i].lastPing # NeverPinged
    BY <1>4, <1>5, <1>6, <1>9 DEF IInv, RegInv, RegisteredHasReader, RegisteredHasPing, n
  <2>2. ~connectors'[n + 1].registered
    BY <1>4
  <2> QED
    BY <1>4, <1>10, <2>1, <2>2 DEF RegInv, RegisteredHasReader, RegisteredHasPing, NeverPinged
<1> QED
  BY <1>7, <1>8, <1>11, <1>12, <1>13 DEF IInv, RefInv

\* The three functions serveControl passes to updateConnector.
LEMMA SetterFields ==
  ASSUME NEW r \in ConnectorRef
  PROVE  /\ SetRegistered(r) \in ConnectorRef
         /\ SetRegistered(r).id = r.id /\ SetRegistered(r).conn = r.conn
         /\ SetRegistered(r).lastPing = 0
         /\ SetPinged(r) \in ConnectorRef
         /\ SetPinged(r).id = r.id /\ SetPinged(r).conn = r.conn
         /\ SetPinged(r).lastPing = 0
         /\ SetUnregistered(r) \in ConnectorRef
         /\ SetUnregistered(r).id = r.id /\ SetUnregistered(r).conn = r.conn
         /\ SetUnregistered(r).registered = FALSE
<1>1. 0 \in Ages
  BY StaleAfterType DEF Ages
<1> QED
  BY <1>1 DEF ConnectorRef, SetRegistered, SetPinged, SetUnregistered

\* What handling one control message, or a read error, does to the slice.
LEMMA MessageFrame ==
  ASSUME IInv, NEW c \in Conns,
         \/ OnRegister(c) \/ OnPing(c) \/ OnUnregister(c) \/ ControlReadError(c)
  PROVE  /\ connectors' \in Seq(ConnectorRef)
         /\ Len(connectors') = Len(connectors)
         /\ \A i \in 1..Len(connectors) :
              /\ connectors'[i].id = connectors[i].id
              /\ connectors'[i].conn = connectors[i].conn
              /\ connectors'[i] = connectors[i] \/ connectors[i].conn = c
              /\ \/ connectors'[i] = connectors[i] /\ connectors[i].id # cid[c]
                 \/ connectors'[i] = SetRegistered(connectors[i])
                 \/ connectors'[i] = SetPinged(connectors[i])
                 \/ connectors'[i] = SetUnregistered(connectors[i])
<1> DEFINE n == Len(connectors)
<1>1. \A i \in 1..n : connectors[i] \in ConnectorRef
  BY RefType DEF IInv
<1>2. \E fn \in {"r", "p", "u"} :
        connectors' = [i \in 1..n |->
          IF connectors[i].id # cid[c] THEN connectors[i]
          ELSE IF fn = "r" THEN SetRegistered(connectors[i])
          ELSE IF fn = "p" THEN SetPinged(connectors[i])
          ELSE SetUnregistered(connectors[i])]
  <2>1. CASE OnRegister(c)
    BY <2>1 DEF OnRegister, UpdateConnector, Applied
  <2>2. CASE OnPing(c)
    BY <2>2 DEF OnPing, UpdateConnector, Applied
  <2>3. CASE OnUnregister(c)
    BY <2>3 DEF OnUnregister, UpdateConnector, Applied
  <2>4. CASE ControlReadError(c)
    BY <2>4 DEF ControlReadError, UpdateConnector, Applied
  <2> QED
    BY <2>1, <2>2, <2>3, <2>4
<1>3. \A i \in 1..n :
        \/ connectors'[i] = connectors[i] /\ connectors[i].id # cid[c]
        \/ /\ connectors[i].id = cid[c]
           /\ \/ connectors'[i] = SetRegistered(connectors[i])
              \/ connectors'[i] = SetPinged(connectors[i])
              \/ connectors'[i] = SetUnregistered(connectors[i])
  BY <1>2
<1>4. connectors' = [i \in 1..n |-> connectors'[i]]
  BY <1>2
<1>5. ASSUME NEW i \in 1..n
      PROVE  \/ connectors'[i] = connectors[i]
             \/ /\ connectors[i].id = cid[c]
                /\ connectors'[i] \in ConnectorRef
                /\ connectors'[i].id = connectors[i].id
                /\ connectors'[i].conn = connectors[i].conn
  <2> DEFINE r == connectors[i]
  <2>1. r \in ConnectorRef
    BY <1>1
  <2> HIDE DEF r
  <2>2. /\ SetRegistered(r) \in ConnectorRef
        /\ SetRegistered(r).id = r.id /\ SetRegistered(r).conn = r.conn
        /\ SetPinged(r) \in ConnectorRef
        /\ SetPinged(r).id = r.id /\ SetPinged(r).conn = r.conn
        /\ SetUnregistered(r) \in ConnectorRef
        /\ SetUnregistered(r).id = r.id /\ SetUnregistered(r).conn = r.conn
    BY <2>1, SetterFields
  <2> QED
    BY <1>3, <2>2 DEF r
<1>6. /\ connectors' \in Seq(ConnectorRef)
      /\ Len(connectors') = n
      /\ \A i \in 1..n : /\ connectors'[i].id = connectors[i].id
                         /\ connectors'[i].conn = connectors[i].conn
                         /\ connectors'[i] = connectors[i] \/ connectors[i].conn = c
  BY <1>4, <1>5, UpdateFrame
<1> QED
  BY <1>3, <1>6

\* A control message rewrites the sender's own reference (OnRegister, OnPing,
\* OnUnregister) and a read error also ends its serveControl goroutine.
LEMMA MessageInv ==
  ASSUME IInv, NEW c \in Conns, rr' = rr,
         \/ OnRegister(c) \/ OnPing(c) \/ OnUnregister(c) \/ ControlReadError(c)
  PROVE  IInv'
<1> DEFINE n == Len(connectors)
<1>1. /\ ctl[c] = "reading"
      /\ UNCHANGED <<nextConnectorID, wl, cid, closed>>
  BY DEF OnRegister, OnPing, OnUnregister, ControlReadError
<1>2. /\ ctl \in [Conns -> {"off", "accept", "reading"}]
      /\ ctl' = ctl \/ (ControlReadError(c) /\ ctl' = [ctl EXCEPT ![c] = "off"])
  BY DEF OnRegister, OnPing, OnUnregister, ControlReadError, IInv, TypeOK
<1>3. \A i \in 1..n : connectors[i] \in ConnectorRef
  BY RefType DEF IInv
<1>4. TypeOK'
  BY <1>1, <1>2, MessageFrame DEF IInv, TypeOK
<1>5. RefInv'
  BY <1>1, MessageFrame, InPlace
<1>6. RegisteredHasReader'
  <2> SUFFICES ASSUME NEW i \in 1..n, connectors'[i].registered
               PROVE  ctl'[connectors'[i].conn] = "reading"
    BY MessageFrame DEF RegisteredHasReader
  <2>1. connectors[i].conn \in Conns
    BY RefType DEF IInv
  <2>2. CASE ctl' = ctl
    BY <1>1, <2>2, MessageFrame DEF IInv, RegInv, RegisteredHasReader
  <2>3. CASE ControlReadError(c) /\ ctl' = [ctl EXCEPT ![c] = "off"]
    <3>1. connectors'[i] = IF connectors[i].id = cid[c] THEN SetUnregistered(connectors[i])
                                                        ELSE connectors[i]
      BY <2>3 DEF ControlReadError, UpdateConnector, Applied
    <3>2. connectors[i].id # cid[c]
      BY <1>3, <3>1, SetterFields
    <3>3. connectors'[i] = connectors[i]
      BY <3>1, <3>2
    <3>4. connectors[i].conn # c
      BY <3>2 DEF IInv, RefInv, RefIffWatched
    <3> QED
      BY <1>2, <2>1, <2>3, <3>3, <3>4 DEF IInv, RegInv, RegisteredHasReader
  <2> QED
    BY <1>2, <2>2, <2>3
<1>7. RegisteredHasPing'
  <2> SUFFICES ASSUME NEW i \in 1..n, connectors'[i].registered
               PROVE  connectors'[i].lastPing # -1
    BY MessageFrame DEF RegisteredHasPing, NeverPinged
  <2>1. CASE connectors'[i] = connectors[i]
    BY <2>1 DEF IInv, RegInv, RegisteredHasPing, NeverPinged
  <2>2. CASE connectors'[i] \in {SetRegistered(connectors[i]), SetPinged(connectors[i])}
    <3>1. /\ SetRegistered(connectors[i]).lastPing = 0
          /\ SetPinged(connectors[i]).lastPing = 0
      BY <1>3, SetterFields
    <3>2. connectors'[i].lastPing = 0
      BY <2>2, <3>1
    <3> QED
      BY <3>2
  <2>3. CASE connectors'[i] = SetUnregistered(connectors[i])
    BY <1>3, <2>3, SetterFields
  <2> QED
    BY <2>1, <2>2, <2>3, MessageFrame
<1> QED
  BY <1>4, <1>5, <1>6, <1>7 DEF IInv, RegInv

LEMMA AcceptInv ==
  ASSUME IInv, NEW c \in Conns, rr' = rr, AcceptControl(c) \/ AcceptControlFails(c)
  PROVE  IInv'
<1>1. /\ UNCHANGED <<connectors, nextConnectorID, wl, cid, closed>>
      /\ ctl[c] = "accept"
      /\ ctl \in [Conns -> {"off", "accept", "reading"}]
      /\ ctl' = [ctl EXCEPT ![c] = "reading"] \/ ctl' = [ctl EXCEPT ![c] = "off"]
  BY DEF AcceptControl, AcceptControlFails, IInv, TypeOK
<1>2. TypeOK'
  BY <1>1 DEF IInv, TypeOK
<1>3. RefInv'
  BY <1>1, InPlace
<1>4. RegisteredHasReader'
  BY <1>1, RefType DEF IInv, RegInv, RegisteredHasReader
<1>5. RegisteredHasPing'
  BY <1>1 DEF IInv, RegInv, RegisteredHasPing
<1> QED
  BY <1>2, <1>3, <1>4, <1>5 DEF IInv, RegInv

LEMMA ClosedInv ==
  ASSUME IInv, NEW c \in Conns, rr' = rr, ConnClosed(c) \/ ConnFreed(c)
  PROVE  IInv'
<1>1. /\ UNCHANGED <<connectors, nextConnectorID, ctl, wl, cid>>
      /\ closed' = closed \cup {c} \/ closed' = closed \ {c}
  BY DEF ConnClosed, ConnFreed
<1>2. TypeOK'
  BY <1>1 DEF IInv, TypeOK
<1>3. RefInv'
  BY <1>1, InPlace
<1>4. RegInv'
  BY <1>1 DEF IInv, RegInv, RegisteredHasReader, RegisteredHasPing
<1> QED
  BY <1>2, <1>3, <1>4 DEF IInv

LEMMA TickFrame ==
  ASSUME IInv, Tick
  PROVE  /\ connectors' \in Seq(ConnectorRef)
         /\ Len(connectors') = Len(connectors)
         /\ \A i \in 1..Len(connectors) :
              /\ connectors'[i].id = connectors[i].id
              /\ connectors'[i].conn = connectors[i].conn
              /\ connectors'[i].registered = connectors[i].registered
              /\ connectors'[i].lastPing = Older(connectors[i].lastPing)
<1> DEFINE n == Len(connectors)
<1>1. \A a \in Ages : Older(a) \in Ages
  BY StaleAfterType DEF Ages, Older, NeverPinged
<1>2. ASSUME NEW i \in 1..n
      PROVE  /\ connectors'[i] \in ConnectorRef
             /\ connectors'[i].id = connectors[i].id
             /\ connectors'[i].conn = connectors[i].conn
             /\ connectors'[i].registered = connectors[i].registered
             /\ connectors'[i].lastPing = Older(connectors[i].lastPing)
  <2>1. connectors'[i] = [connectors[i] EXCEPT !.lastPing = Older(connectors[i].lastPing)]
    BY DEF Tick
  <2>2. connectors[i] \in ConnectorRef /\ Older(connectors[i].lastPing) \in Ages
    BY <1>1, RefType DEF IInv
  <2> QED
    BY <2>1, <2>2 DEF ConnectorRef
<1>3. connectors' = [i \in 1..n |-> connectors'[i]]
  BY DEF Tick
<1>4. connectors \in Seq(ConnectorRef)
  BY DEF IInv, TypeOK
<1>5. connectors' \in Seq(ConnectorRef) /\ Len(connectors') = n
  BY <1>2, <1>3, <1>4, PointwiseUpdate
<1> QED
  BY <1>2, <1>5

LEMMA TickInv ==
  ASSUME IInv, rr' = rr, Tick
  PROVE  IInv'
<1>1. \A a \in Ages : Older(a) = NeverPinged => a = NeverPinged
  BY StaleAfterType DEF Ages, Older, NeverPinged
<1>2. UNCHANGED <<nextConnectorID, ctl, wl, cid, closed>>
  BY DEF Tick
<1>3. TypeOK'
  BY <1>2, TickFrame DEF IInv, TypeOK
<1>4. RefInv'
  BY <1>2, TickFrame, InPlace
<1>5. RegisteredHasReader'
  BY <1>2, TickFrame DEF IInv, RegInv, RegisteredHasReader
<1>6. RegisteredHasPing'
  <2> SUFFICES ASSUME NEW i \in 1..Len(connectors), connectors'[i].registered
               PROVE  connectors'[i].lastPing # NeverPinged
    BY TickFrame DEF RegisteredHasPing, NeverPinged
  <2>1. connectors[i].registered /\ connectors[i].lastPing \in Ages
    BY TickFrame, RefType DEF IInv
  <2>2. connectors[i].lastPing # NeverPinged
    BY <2>1 DEF IInv, RegInv, RegisteredHasPing
  <2> QED
    BY <1>1, <2>1, <2>2, TickFrame
<1> QED
  BY <1>3, <1>4, <1>5, <1>6 DEF IInv, RegInv

LEMMA WatchLostInv ==
  ASSUME IInv, NEW c \in Conns, rr' = rr, WatchLost(c)
  PROVE  IInv'
<1> DEFINE n == Len(connectors)
<1>1. /\ wl[c] = "watching" /\ wl' = [wl EXCEPT ![c] = "off"]
      /\ wl \in [Conns -> {"off", "watching"}]
      /\ UNCHANGED <<nextConnectorID, ctl, cid, closed>>
      /\ connectors \in Seq(ConnectorRef) /\ n \in Nat
  BY LenProperties DEF WatchLost, IInv, TypeOK
<1>2. PICK k \in 1..n : connectors[k].conn = c /\ connectors' = WithoutIndex(connectors, k)
  <2>1. \E i \in 1..n : connectors[i].conn = c
    BY <1>1 DEF IInv, RefInv, RefIffWatched
  <2> QED
    BY <2>1 DEF WatchLost
<1>3. /\ connectors' \in Seq(ConnectorRef)
      /\ Len(connectors') = n - 1
      /\ \A j \in 1..(n - 1) :
           connectors'[j] = IF j < k THEN connectors[j] ELSE connectors[j + 1]
  BY <1>1, <1>2, WithoutIndexProperties
<1> DEFINE src(j) == IF j < k THEN j ELSE j + 1
<1>4. \A j \in 1..(n - 1) : /\ src(j) \in 1..n /\ src(j) # k
                            /\ connectors'[j] = connectors[src(j)]
  BY <1>1, <1>3
<1>5. \A i \in 1..n : i # k => \E j \in 1..(n - 1) : src(j) = i
  <2> SUFFICES ASSUME NEW i \in 1..n, i # k
               PROVE  \E j \in 1..(n - 1) : src(j) = i
    OBVIOUS
  <2>1. CASE i < k
    <3>1. i \in 1..(n - 1) /\ src(i) = i
      BY <1>1, <2>1
    <3> QED
      BY <3>1
  <2>2. CASE i > k
    <3>1. i - 1 \in 1..(n - 1) /\ src(i - 1) = i
      BY <1>1, <2>2
    <3> QED
      BY <3>1
  <2> QED
    BY <1>1, <2>1, <2>2
<1>6. \A i, j \in 1..(n - 1) : i < j => src(i) < src(j)
  BY <1>1
<1>7. \A j \in 1..(n - 1) : /\ connectors[src(j)].conn # c
                            /\ connectors[src(j)].conn \in Conns
  BY <1>2, <1>4, ConnIsUnique, RefType DEF IInv
<1> HIDE DEF src, n
<1>8. TypeOK'
  BY <1>1, <1>3 DEF IInv, TypeOK
<1>9. OrderedByID'
  BY <1>1, <1>3, <1>4, <1>6 DEF IInv, RefInv, OrderedByID, n
<1>10. RefIffWatched'
  <2>1. ASSUME NEW j \in 1..(n - 1)
        PROVE  /\ wl'[connectors'[j].conn] = "watching"
               /\ cid'[connectors'[j].conn] = connectors'[j].id
    <3> DEFINE r == connectors[src(j)]
    <3>1. wl[r.conn] = "watching" /\ cid[r.conn] = r.id
      BY <1>4 DEF IInv, RefInv, RefIffWatched, n
    <3>2. r.conn # c /\ r.conn \in Conns /\ connectors'[j] = r
      BY <1>4, <1>7
    <3> QED
      BY <1>1, <3>1, <3>2
  <2>2. ASSUME NEW d \in Conns, wl'[d] = "watching"
        PROVE  \E j \in 1..(n - 1) : connectors'[j].conn = d
    <3>1. d # c /\ wl[d] = "watching"
      BY <1>1, <2>2
    <3>2. PICK i \in 1..n : connectors[i].conn = d
      BY <3>1 DEF IInv, RefInv, RefIffWatched, n
    <3>3. PICK j \in 1..(n - 1) : src(j) = i
      BY <1>2, <1>5, <3>1, <3>2
    <3> QED
      BY <1>4, <3>2, <3>3
  <2> QED
    BY <1>3, <2>1, <2>2 DEF RefIffWatched
<1>11. DistinctIds'
  BY <1>1 DEF IInv, RefInv, DistinctIds
<1>12. RegInv'
  <2>1. \A j \in 1..(n - 1) : connectors'[j].registered =>
          ctl'[connectors'[j].conn] = "reading" /\ connectors'[j].lastPing # NeverPinged
    BY <1>1, <1>4 DEF IInv, RegInv, RegisteredHasReader, RegisteredHasPing, n
  <2> QED
    BY <1>3, <2>1 DEF RegInv, RegisteredHasReader, RegisteredHasPing, NeverPinged
<1> QED
  BY <1>8, <1>9, <1>10, <1>11, <1>12 DEF IInv, RefInv

LEMMA PickInv ==
  ASSUME IInv, NEW key \in Keys, PickConnector(key)
  PROVE  IInv'
<1>1. UNCHANGED <<connectors, nextConnectorID, ctl, wl, cid, closed>>
  BY DEF PickConnector, regVars
<1>2. rr' = rr \/ rr' = (rr + 1) % RRWidth
  BY DEF PickConnector
<1>3. rr' \in 0..(RRWidth - 1)
  BY <1>2, RegistryAssumption DEF IInv, TypeOK
<1>4. TypeOK'
  BY <1>1, <1>3 DEF IInv, TypeOK
<1>5. RefInv'
  BY <1>1, InPlace
<1>6. RegInv'
  BY <1>1 DEF IInv, RegInv, RegisteredHasReader, RegisteredHasPing
<1> QED
  BY <1>4, <1>5, <1>6 DEF IInv

LEMMA NextInv == IInv /\ [Next]_vars => IInv'
<1> SUFFICES ASSUME IInv, [Next]_vars PROVE IInv'
  OBVIOUS
<1>1. CASE RegistryStep /\ UNCHANGED pickVars
  <2>1. rr' = rr
    BY <1>1 DEF pickVars
  <2>2. CASE Tick
    BY <2>1, <2>2, TickInv
  <2>3. ASSUME NEW c \in Conns,
               \/ AddConnector(c) \/ AcceptControl(c) \/ AcceptControlFails(c)
               \/ OnRegister(c) \/ OnPing(c) \/ OnUnregister(c) \/ ControlReadError(c)
               \/ WatchLost(c) \/ ConnClosed(c) \/ ConnFreed(c)
        PROVE  IInv'
    BY <2>1, <2>3, AddConnectorInv, AcceptInv, MessageInv, WatchLostInv, ClosedInv
  <2> QED
    BY <1>1, <2>2, <2>3 DEF RegistryStep
<1>2. ASSUME NEW key \in Keys, PickConnector(key) PROVE IInv'
  BY <1>2, PickInv
<1>3. CASE UNCHANGED vars
  <2>1. UNCHANGED <<connectors, nextConnectorID, ctl, wl, cid, closed, rr>>
    BY <1>3 DEF vars, regVars, pickVars
  <2>2. RefInv'
    BY <2>1, InPlace
  <2> QED
    BY <2>1, <2>2 DEF IInv, TypeOK, RegInv, RegisteredHasReader, RegisteredHasPing
<1> QED
  BY <1>1, <1>2, <1>3 DEF Next

-----------------------------------------------------------------------------
(* The theorems.                                                           *)

LEMMA Invariance == Spec => []IInv
  BY InitInv, NextInv, PTL DEF Spec

\* Every variable of the registry keeps its type.
THEOREM TypeCorrect == Spec => []TypeOK
<1>1. IInv => TypeOK
  BY DEF IInv
<1> QED
  BY <1>1, Invariance, PTL

\* Any number of connections, reconnections and late messages leaves the
\* slice ordered by id, with exactly one reference per watched connection.
THEOREM SliceConsistent == Spec => [](OrderedByID /\ RefIffWatched)
<1>1. IInv => OrderedByID /\ RefIffWatched
  BY DEF IInv, RefInv
<1> QED
  BY <1>1, Invariance, PTL

\* A registration never outlives the goroutine that can end it, and is always
\* subject to the ping timeout.
THEOREM RegistrationsCanEnd == Spec => [](RegisteredHasReader /\ RegisteredHasPing)
<1>1. IInv => RegisteredHasReader /\ RegisteredHasPing
  BY DEF IInv, RegInv
<1> QED
  BY <1>1, Invariance, PTL

\* No step of any goroutine, however late its message, brings back a reference
\* that watchLost removed.
THEOREM RemovalIsFinal == Spec => NoResurrection
<1> DEFINE Keeps == \A id \in 1..nextConnectorID : id \notin Ids => id \notin Ids'
<1>1. ASSUME IInv, Next PROVE Keeps
  <2>1. CASE \E c \in Conns : AddConnector(c)
    <3>1. PICK c \in Conns : AddConnector(c)
      BY <2>1
    <3> DEFINE new == [id |-> nextConnectorID + 1, conn |-> c,
                       registered |-> FALSE, lastPing |-> NeverPinged]
    <3>2. connectors' = Append(connectors, new) /\ connectors \in Seq(ConnectorRef)
      BY <1>1, <3>1 DEF AddConnector, IInv, TypeOK
    <3>3. new \in ConnectorRef /\ nextConnectorID \in Nat
      BY <1>1 DEF IInv, TypeOK, ConnectorRef, Ages
    <3> HIDE DEF new
    <3>4. /\ Len(connectors') = Len(connectors) + 1 /\ Len(connectors) \in Nat
          /\ \A i \in 1..Len(connectors) : connectors'[i] = connectors[i]
          /\ connectors'[Len(connectors) + 1] = new
      BY <3>2, <3>3, LenProperties
    <3>5. new.id = nextConnectorID + 1
      BY DEF new
    <3>6. \A i \in 1..(Len(connectors) + 1) :
            connectors'[i].id \in Ids \cup {nextConnectorID + 1}
      BY <3>4, <3>5 DEF Ids
    <3>7. Ids' \subseteq Ids \cup {nextConnectorID + 1}
      BY <3>4, <3>6 DEF Ids
    <3> QED
      BY <3>3, <3>7
  <2>2. CASE \E c \in Conns : WatchLost(c)
    <3>1. PICK c \in Conns : WatchLost(c)
      BY <2>2
    <3>2. CASE connectors' = connectors
      BY <3>2 DEF Ids
    <3>3. ASSUME NEW k \in 1..Len(connectors), connectors' = WithoutIndex(connectors, k)
          PROVE  Keeps
      <4>1. connectors \in Seq(ConnectorRef) /\ Len(connectors) \in Nat
        BY <1>1, LenProperties DEF IInv, TypeOK
      <4>2. /\ Len(connectors') = Len(connectors) - 1
            /\ \A j \in 1..(Len(connectors) - 1) :
                 connectors'[j] = IF j < k THEN connectors[j] ELSE connectors[j + 1]
        BY <3>3, <4>1, WithoutIndexProperties
      <4>3. \A j \in 1..(Len(connectors) - 1) : connectors'[j].id \in Ids
        BY <4>1, <4>2 DEF Ids
      <4> QED
        BY <4>2, <4>3 DEF Ids
    <3> QED
      BY <3>1, <3>2, <3>3 DEF WatchLost
  <2>3. CASE connectors' = connectors
    BY <2>3 DEF Ids
  <2>4. ASSUME Len(connectors') = Len(connectors),
               \A i \in 1..Len(connectors) : connectors'[i].id = connectors[i].id
        PROVE  Keeps
    BY <2>4 DEF Ids
  <2>5. CASE Tick
    BY <1>1, <2>4, <2>5, TickFrame
  <2>6. ASSUME NEW c \in Conns,
               \/ OnRegister(c) \/ OnPing(c) \/ OnUnregister(c) \/ ControlReadError(c)
        PROVE  Keeps
    BY <1>1, <2>4, <2>6, MessageFrame
  <2>7. ASSUME NEW c \in Conns,
               \/ AcceptControl(c) \/ AcceptControlFails(c)
               \/ ConnClosed(c) \/ ConnFreed(c)
        PROVE  connectors' = connectors
    BY <2>7 DEF AcceptControl, AcceptControlFails, ConnClosed, ConnFreed
  <2>8. ASSUME NEW key \in Keys, PickConnector(key)
        PROVE  connectors' = connectors
    BY <2>8 DEF PickConnector, regVars
  <2> HIDE DEF Keeps
  <2> QED
    BY <1>1, <2>1, <2>2, <2>3, <2>5, <2>6, <2>7, <2>8 DEF Next, RegistryStep
<1>2. UNCHANGED vars => Keeps
  BY DEF vars, regVars, Ids
<1>3. IInv /\ [Next]_vars => [Keeps]_vars
  BY <1>1, <1>2
<1> QED
  BY <1>3, Invariance, PTL DEF Spec, NoResurrection

-----------------------------------------------------------------------------
(* The live list.  LiveUpTo is defined by recursion over the slice, so that *)
(* what it computes is shown by induction, as the absence of a least        *)
(* counterexample.                                                          *)

LEMMA LeastNatural ==
  ASSUME NEW T, T \subseteq Nat, T # {}
  PROVE  \E n \in T : \A m \in T : n <= m
<1> DEFINE R == {p \in Nat \X Nat : p[1] < p[2]}
<1>1. IsWellFoundedOn(R, Nat)
  BY NatLessThanWellFounded DEF OpToRel
<1>2. ASSUME NEW m \in T, NEW n \in T, m < n PROVE <<m, n>> \in R
  BY <1>2
<1> HIDE DEF R
<1>3. PICK n \in T : \A m \in T : ~(<<m, n>> \in R)
  BY <1>1, WFMin
<1>4. \A m \in T : ~(m < n)
  BY <1>2, <1>3
<1>5. ASSUME NEW m \in T PROVE n <= m
  BY <1>4
<1> QED
  BY <1>5

\* A set of numbers up to n that holds 0, and with each number below n the next
\* one, holds them all.
LEMMA CountUp ==
  ASSUME NEW n \in Nat, NEW G,
         0 \in G, \A i \in 1..n : i - 1 \in G => i \in G
  PROVE  \A i \in 0..n : i \in G
<1> DEFINE T == {i \in 0..n : i \notin G}
<1>1. SUFFICES ASSUME T # {} PROVE FALSE
  OBVIOUS
<1>2. T \subseteq Nat
  OBVIOUS
<1>3. PICK i \in T : \A m \in T : i <= m
  BY <1>1, <1>2, LeastNatural
<1>4. i \in 1..n /\ i \notin G
  OBVIOUS
<1>5. i - 1 \in 0..n /\ ~(i <= i - 1)
  BY <1>4
<1>6. i - 1 \in G
  BY <1>3, <1>5
<1> QED
  BY <1>4, <1>6

\* The equations of the recursive definition have a solution, which LiveUpTo is.
LEMMA LiveUpToDef ==
  ASSUME connectors \in Seq(ConnectorRef)
  PROVE  /\ LiveUpTo[0] = <<>>
         /\ \A i \in 1..Len(connectors) :
              LiveUpTo[i] = IF Live(connectors[i])
                            THEN Append(LiveUpTo[i - 1], connectors[i])
                            ELSE LiveUpTo[i - 1]
<1> DEFINE Step(x, i) == IF Live(connectors[i]) THEN Append(x, connectors[i]) ELSE x
           Loop(f, n) == [i \in 0..n |-> IF i = 0 THEN <<>> ELSE Step(f[i - 1], i)]
           N == Len(connectors)
           G == {n \in 0..N : \E f : f = Loop(f, n)}
<1>1. N \in Nat
  OBVIOUS
<1> HIDE DEF N
<1>2. 0 \in G
  <2> DEFINE f == [i \in 0..0 |-> <<>>]
  <2>1. f = Loop(f, 0)
    OBVIOUS
  <2>2. 0 \in 0..N
    BY <1>1
  <2> HIDE DEF f, Loop
  <2> QED
    BY <2>1, <2>2
<1>3. ASSUME NEW n \in 1..N, n - 1 \in G PROVE n \in G
  <2>1. PICK f : f = Loop(f, n - 1)
    BY <1>3
  <2> DEFINE g == [i \in 0..n |-> IF i < n THEN f[i] ELSE Step(f[n - 1], n)]
  <2> HIDE DEF Step
  <2>2. ASSUME NEW i \in 0..n PROVE g[i] = Loop(g, n)[i]
    <3>1. CASE i = 0
      <4>1. f[0] = <<>>
        BY <2>1
      <4> QED
        BY <3>1, <4>1
    <3>2. CASE i \in 1..(n - 1)
      <4>1. f[i] = Step(f[i - 1], i)
        BY <2>1, <3>2
      <4>2. g[i] = f[i] /\ g[i - 1] = f[i - 1]
        BY <3>2
      <4>3. Loop(g, n)[i] = Step(g[i - 1], i)
        BY <3>2
      <4> QED
        BY <4>1, <4>2, <4>3
    <3>3. CASE i = n
      <4>1. g[n] = Step(f[n - 1], n) /\ g[n - 1] = f[n - 1]
        OBVIOUS
      <4>2. Loop(g, n)[n] = Step(g[n - 1], n)
        OBVIOUS
      <4> QED
        BY <3>3, <4>1, <4>2
    <3> QED
      BY <3>1, <3>2, <3>3
  <2>3. g = Loop(g, n)
    BY <2>2
  <2>4. n \in 0..N
    BY <1>1
  <2> QED
    BY <2>3, <2>4
<1>4. N \in 0..N
  BY <1>1
<1>5. \A i \in 0..N : i \in G
  <2> HIDE DEF G
  <2> QED
    BY <1>1, <1>2, <1>3, CountUp
<1>6. \E f : f = Loop(f, N)
  BY <1>4, <1>5
<1>7. LiveUpTo = CHOOSE f : f = Loop(f, N)
  BY DEF LiveUpTo, N
<1>8. LiveUpTo = Loop(LiveUpTo, N)
  <2> HIDE DEF Loop
  <2> QED
    BY <1>6, <1>7
<1>9. 0 \in 0..N /\ \A i \in 1..N : i \in 0..N /\ i # 0
  BY <1>1
<1> QED
  BY <1>8, <1>9 DEF N

\* The list the picks index holds the ids of the live references, each once.
LEMMA LiveList ==
  ASSUME IInv
  PROVE  /\ LiveRefs \in Seq(ConnectorRef)
         /\ \A a \in 1..Len(LiveRefs) : \E j \in 1..Len(connectors) :
              LiveRefs[a] = connectors[j] /\ Live(connectors[j])
         /\ \A j \in 1..Len(connectors) : Live(connectors[j]) =>
              \E a \in 1..Len(LiveRefs) : LiveRefs[a] = connectors[j]
         /\ \A a, b \in 1..Len(LiveRefs) : a < b => LiveRefs[a].id < LiveRefs[b].id
<1> DEFINE N == Len(connectors)
           Lists(i) ==
             /\ LiveUpTo[i] \in Seq(ConnectorRef)
             /\ \A a \in 1..Len(LiveUpTo[i]) : \E j \in 1..i :
                  LiveUpTo[i][a] = connectors[j] /\ Live(connectors[j])
             /\ \A j \in 1..i : Live(connectors[j]) =>
                  \E a \in 1..Len(LiveUpTo[i]) : LiveUpTo[i][a] = connectors[j]
             /\ \A a, b \in 1..Len(LiveUpTo[i]) :
                  a < b => LiveUpTo[i][a].id < LiveUpTo[i][b].id
           G == {i \in 0..N : Lists(i)}
<1>1. /\ connectors \in Seq(ConnectorRef) /\ N \in Nat
      /\ \A i, j \in 1..N : i < j => connectors[i].id < connectors[j].id
  BY DEF IInv, TypeOK, RefInv, OrderedByID
<1>2. /\ LiveUpTo[0] = <<>>
      /\ \A i \in 1..N : LiveUpTo[i] = IF Live(connectors[i])
                                       THEN Append(LiveUpTo[i - 1], connectors[i])
                                       ELSE LiveUpTo[i - 1]
  BY <1>1, LiveUpToDef
<1> HIDE DEF N
<1>3. 0 \in G
  <2>1. Lists(0)
    BY <1>2
  <2> QED
    BY <1>1, <2>1
<1>4. ASSUME NEW i \in 1..N, i - 1 \in G PROVE i \in G
  <2> DEFINE s == LiveUpTo[i - 1]
             r == connectors[i]
  <2>0. i \in Nat /\ i - 1 \in Nat /\ i \in 0..N /\ i \in 1..i
    BY <1>1
  <2>1. /\ s \in Seq(ConnectorRef) /\ Len(s) \in Nat
        /\ \A a \in 1..Len(s) : \E j \in 1..(i - 1) :
             s[a] = connectors[j] /\ Live(connectors[j])
        /\ \A j \in 1..(i - 1) : Live(connectors[j]) =>
             \E a \in 1..Len(s) : s[a] = connectors[j]
        /\ \A a, b \in 1..Len(s) : a < b => s[a].id < s[b].id
    BY <1>4
  <2>2. LiveUpTo[i] = IF Live(r) THEN Append(s, r) ELSE s
    BY <1>2
  <2>3. r \in ConnectorRef
    BY <1>1, ElementOfSeq DEF N
  <2> HIDE DEF s
  <2>4. CASE ~Live(r)
    <3>1. LiveUpTo[i] = s
      BY <2>2, <2>4
    <3>2. \A j \in 1..i : Live(connectors[j]) => j \in 1..(i - 1)
      BY <2>0, <2>4
    <3>3. \A j \in 1..(i - 1) : j \in 1..i
      BY <2>0
    <3>4. Lists(i)
      BY <2>1, <3>1, <3>2, <3>3
    <3> QED
      BY <2>0, <3>4
  <2>5. CASE Live(r)
    <3> DEFINE t == Append(s, r)
    <3>1. LiveUpTo[i] = t
      BY <2>2, <2>5
    <3>2. /\ t \in Seq(ConnectorRef) /\ Len(t) = Len(s) + 1
          /\ \A a \in 1..Len(s) : t[a] = s[a]
          /\ t[Len(s) + 1] = r
      BY <2>1, <2>3, AppendProperties
    <3> HIDE DEF t
    <3>3. ASSUME NEW a \in 1..Len(t)
          PROVE  \E j \in 1..i : t[a] = connectors[j] /\ Live(connectors[j])
      <4>1. CASE a = Len(s) + 1
        BY <2>0, <2>5, <3>2, <4>1
      <4>2. CASE a \in 1..Len(s)
        <5>1. PICK j \in 1..(i - 1) : s[a] = connectors[j] /\ Live(connectors[j])
          BY <2>1, <4>2
        <5>2. j \in 1..i
          BY <2>0
        <5> QED
          BY <3>2, <4>2, <5>1, <5>2
      <4> QED
        BY <2>1, <3>2, <4>1, <4>2
    <3>4. ASSUME NEW j \in 1..i, Live(connectors[j])
          PROVE  \E a \in 1..Len(t) : t[a] = connectors[j]
      <4>1. CASE j = i
        BY <2>1, <3>2, <4>1
      <4>2. CASE j \in 1..(i - 1)
        <5>1. PICK a \in 1..Len(s) : s[a] = connectors[j]
          BY <2>1, <3>4, <4>2
        <5>2. a \in 1..Len(t)
          BY <2>1, <3>2
        <5> QED
          BY <3>2, <5>1, <5>2
      <4> QED
        BY <2>0, <4>1, <4>2
    <3>5. ASSUME NEW a \in 1..Len(t), NEW b \in 1..Len(t), a < b
          PROVE  t[a].id < t[b].id
      <4>1. a \in 1..Len(s)
        BY <2>1, <3>2, <3>5
      <4>2. CASE b \in 1..Len(s)
        BY <2>1, <3>2, <3>5, <4>1, <4>2
      <4>3. CASE b = Len(s) + 1
        <5>1. PICK j \in 1..(i - 1) : s[a] = connectors[j]
          BY <2>1, <4>1
        <5>2. j \in 1..N /\ i \in 1..N /\ j < i
          BY <1>1, <2>0
        <5>3. connectors[j].id < connectors[i].id
          BY <1>1, <5>2
        <5> QED
          BY <3>2, <4>1, <4>3, <5>1, <5>3
      <4> QED
        BY <2>1, <3>2, <4>2, <4>3
    <3>6. Lists(i)
      BY <3>1, <3>2, <3>3, <3>4, <3>5
    <3> QED
      BY <2>0, <3>6
  <2> QED
    BY <2>4, <2>5
<1>5. \A i \in 0..N : i \in G
  <2> HIDE DEF G
  <2> QED
    BY <1>1, <1>3, <1>4, CountUp
<1>6. N \in 0..N
  BY <1>1
<1>7. Lists(N)
  BY <1>5, <1>6
<1>8. LiveRefs = LiveUpTo[N]
  BY DEF LiveRefs, N
<1> QED
  BY <1>7, <1>8 DEF N

-----------------------------------------------------------------------------
(* Round robin.                                                            *)

\* Turns fewer than n apart index different places of a list of n.
LEMMA TurnsDiffer ==
  ASSUME NEW n \in Nat \ {0}, NEW a \in Nat, NEW b \in Nat, a < b, b - a < n
  PROVE  a % n # b % n
<1>1. SUFFICES ASSUME a % n = b % n PROVE FALSE
  OBVIOUS
<1> DEFINE p == a \div n
           q == b \div n
<1>2. /\ p \in Int /\ a % n \in 0..(n - 1) /\ a = n * p + (a % n)
      /\ q \in Int /\ b % n \in 0..(n - 1) /\ b = n * q + (b % n)
  OBVIOUS
<1> HIDE DEF p, q
<1>3. PICK d \in Int : d = q - p
  BY <1>2
<1>4. n * q = n * p + n * d
  BY <1>2, <1>3
<1>5. b - a = n * d
  BY <1>1, <1>2, <1>4
<1>6. d <= 0 => n * d <= 0
  OBVIOUS
<1>7. d >= 1 => n * d >= n
  OBVIOUS
<1> QED
  BY <1>5, <1>6, <1>7

\* RoundRobinEven is not inductive: the next pick differs from the last ones only
\* because those were the turns just before rr on a list without repetition.
\* While rr is 0 the turns lie before the wrap, and the next pick starts anew.
WindowInv ==
  LET live   == window.live
      picked == window.picked
  IN  /\ live \in Seq(Nat) /\ picked \in Seq(Nat)
      /\ \A i, j \in 1..Len(live) : i # j => live[i] # live[j]
      /\ Len(picked) <= Len(live)
      /\ RoundRobinEven
      /\ rr # 0 => /\ Len(picked) <= rr
                   /\ \A k \in 1..Len(picked) :
                        picked[k] = live[((rr - Len(picked) + k - 1) % Len(live)) + 1]

LEMMA LiveIdsDistinct ==
  ASSUME IInv
  PROVE  /\ LiveIds \in Seq(Nat) /\ Len(LiveIds) = Len(LiveRefs)
         /\ \A i, j \in 1..Len(LiveIds) : i # j => LiveIds[i] # LiveIds[j]
<1>1. /\ LiveRefs \in Seq(ConnectorRef) /\ Len(LiveRefs) \in Nat
      /\ \A a, b \in 1..Len(LiveRefs) : a < b => LiveRefs[a].id < LiveRefs[b].id
  BY LiveList
<1>2. ASSUME NEW i \in 1..Len(LiveRefs) PROVE LiveRefs[i].id \in Nat
  <2>1. LiveRefs[i] \in ConnectorRef
    BY <1>1, ElementOfSeq
  <2> QED
    BY <2>1 DEF ConnectorRef
<1>3. LiveIds \in Seq(Nat) /\ Len(LiveIds) = Len(LiveRefs)
  BY <1>1, <1>2 DEF LiveIds
<1>4. ASSUME NEW i \in 1..Len(LiveRefs), NEW j \in 1..Len(LiveRefs), i # j
      PROVE  LiveIds[i] # LiveIds[j]
  <2>1. LiveIds[i] = LiveRefs[i].id /\ LiveIds[j] = LiveRefs[j].id
    BY DEF LiveIds
  <2>2. i < j \/ j < i
    BY <1>1, <1>4
  <2> QED
    BY <1>1, <1>2, <2>1, <2>2
<1> QED
  BY <1>3, <1>4

\* A step that leaves the counter and the window alone.
LEMMA WindowSame ==
  ASSUME WindowInv, rr' = rr, window' = window
  PROVE  WindowInv'
  BY DEF WindowInv, RoundRobinEven

\* One pick by round robin, whose counter either wraps to 0 or counts on.
LEMMA PickWindow ==
  ASSUME IInv, WindowInv, LiveRefs # <<>>, NEW key \in Keys, ~UseHash(key),
         rr' # 0 => rr' = rr + 1,
         window' = NextWindow(LiveIds[PickConnectorIndex(Len(LiveRefs), key) + 1])
  PROVE  WindowInv'
<1> DEFINE live   == LiveIds
           n      == Len(LiveRefs)
           old    == window.picked
           m      == Len(old)
           turn   == (rr % n) + 1
           id     == live[turn]
           picked == window'.picked
<1>1. /\ live \in Seq(Nat) /\ Len(live) = n /\ n \in Nat
      /\ \A i, j \in 1..n : i # j => live[i] # live[j]
  <2>1. LiveRefs \in Seq(ConnectorRef)
    BY LiveList
  <2>2. /\ LiveIds \in Seq(Nat) /\ Len(LiveIds) = Len(LiveRefs)
        /\ \A i, j \in 1..Len(LiveIds) : i # j => LiveIds[i] # LiveIds[j]
    BY LiveIdsDistinct
  <2> QED
    BY <2>1, <2>2
<1>2. n # 0
  <2>1. LiveRefs \in Seq(ConnectorRef)
    BY LiveList
  <2> QED
    BY <2>1, EmptySeq
<1>3. rr \in Nat /\ RRWidth \in Nat /\ RRWidth # 0 /\ rr < RRWidth
  BY RegistryAssumption DEF IInv, TypeOK
<1>4. id = LiveIds[PickConnectorIndex(Len(LiveRefs), key) + 1]
  BY DEF PickConnectorIndex
<1>5. turn \in 1..n /\ id \in Nat
  <2>1. turn \in 1..n
    BY <1>1, <1>2, <1>3
  <2> QED
    BY <1>1, <2>1, ElementOfSeq
<1>6. /\ old \in Seq(Nat) /\ m \in Nat
  BY DEF WindowInv
<1> DEFINE same == window.live = live /\ m < Len(live) /\ rr # 0
<1>7. /\ window'.live = live
      /\ picked = IF same THEN Append(old, id) ELSE <<id>>
  BY <1>4 DEF NextWindow
<1>8. CASE ~same
  <2>1. picked = <<id>> /\ picked \in Seq(Nat) /\ Len(picked) = 1 /\ picked[1] = id
    BY <1>5, <1>7, <1>8
  <2> HIDE DEF live, n, id, turn, picked, same, old, m
  <2>2. RoundRobinEven'
    BY <2>1 DEF RoundRobinEven, picked
  <2>3. ASSUME rr' # 0
        PROVE  /\ 1 <= rr'
               /\ \A k \in 1..1 : picked[k] = live[((rr' - 1 + k - 1) % n) + 1]
    <3>1. rr' = rr + 1 /\ rr' - 1 + 1 - 1 = rr
      BY <1>3, <2>3
    <3>2. picked[1] = live[((rr' - 1 + 1 - 1) % n) + 1]
      BY <2>1, <3>1 DEF id, turn
    <3> QED
      BY <1>3, <3>1, <3>2
  <2>4. 1 <= n
    BY <1>1, <1>2
  <2> QED
    BY <1>1, <1>7, <2>1, <2>2, <2>3, <2>4 DEF WindowInv, picked
<1>9. CASE same
  <2>1. /\ m <= rr
        /\ \A k \in 1..m : old[k] = live[((rr - m + k - 1) % n) + 1]
        /\ \A i, j \in 1..m : i # j => old[i] # old[j]
        /\ m < n
    BY <1>1, <1>9 DEF WindowInv, RoundRobinEven
  <2>2. picked = Append(old, id)
    BY <1>7, <1>9
  <2> HIDE DEF live, n, id, picked, same, old, m
  <2>3. /\ picked \in Seq(Nat) /\ Len(picked) = m + 1
        /\ \A k \in 1..m : picked[k] = old[k]
        /\ picked[m + 1] = id
    BY <1>5, <1>6, <2>2, AppendProperties DEF m
  <2>4. ASSUME NEW k \in 1..m PROVE picked[k] # id
    <3> DEFINE a == rr - m + k - 1
    <3>1. a \in Nat /\ a < rr /\ rr - a < n
      BY <1>1, <1>3, <1>6, <2>1
    <3>2. old[k] = live[(a % n) + 1]
      BY <2>1
    <3> HIDE DEF a
    <3>3. a % n # rr % n
      BY <1>1, <1>2, <1>3, <3>1, TurnsDiffer
    <3>4. a % n \in 0..(n - 1) /\ rr % n \in 0..(n - 1)
      BY <1>1, <1>2, <1>3, <3>1
    <3> DEFINE x == a % n
               y == rr % n
    <3> HIDE DEF x, y
    <3>5. x + 1 \in 1..n /\ y + 1 \in 1..n /\ x + 1 # y + 1
      <4>1. x \in 0..(n - 1) /\ y \in 0..(n - 1) /\ x # y
        BY <3>3, <3>4 DEF x, y
      <4> QED
        BY <1>1, <4>1
    <3>6. live[(a % n) + 1] # live[(rr % n) + 1]
      BY <1>1, <3>5 DEF x, y
    <3> QED
      BY <2>3, <3>2, <3>6 DEF id
  <2>5. \A i, j \in 1..(m + 1) : i # j => picked[i] # picked[j]
    <3>1. \A i \in 1..(m + 1) : i \in 1..m \/ i = m + 1
      BY <1>6
    <3> QED
      BY <2>1, <2>3, <2>4, <3>1
  <2>6. RoundRobinEven'
    BY <2>3, <2>5 DEF RoundRobinEven, picked
  <2>7. ASSUME rr' # 0
        PROVE  /\ m + 1 <= rr'
               /\ \A k \in 1..(m + 1) :
                    picked[k] = live[((rr' - (m + 1) + k - 1) % n) + 1]
    <3>1. rr' = rr + 1
      BY <2>7
    <3>2. ASSUME NEW k \in 1..(m + 1)
          PROVE  picked[k] = live[((rr' - (m + 1) + k - 1) % n) + 1]
      <4>1. CASE k \in 1..m
        <5>1. rr' - (m + 1) + k - 1 = rr - m + k - 1
          BY <1>3, <1>6, <3>1
        <5> QED
          BY <2>1, <2>3, <4>1, <5>1
      <4>2. CASE k = m + 1
        <5>1. rr' - (m + 1) + k - 1 = rr
          BY <1>3, <1>6, <3>1, <4>2
        <5> QED
          BY <2>3, <4>2, <5>1 DEF id
      <4> QED
        BY <1>6, <4>1, <4>2
    <3> QED
      BY <1>3, <1>6, <2>1, <3>1, <3>2
  <2>8. m + 1 <= n
    BY <1>1, <1>6, <2>1
  <2>9. /\ window'.live = live /\ Len(window'.live) = n
        /\ window'.picked = picked /\ Len(window'.picked) = m + 1
    BY <1>1, <1>7, <2>3 DEF picked
  <2>10. rr' # 0 =>
           /\ Len(window'.picked) <= rr'
           /\ \A k \in 1..Len(window'.picked) :
                window'.picked[k] =
                  window'.live[((rr' - Len(window'.picked) + k - 1) % Len(window'.live)) + 1]
    BY <2>7, <2>9
  <2> QED
    BY <1>1, <2>3, <2>6, <2>8, <2>9, <2>10 DEF WindowInv
<1> QED
  BY <1>8, <1>9

\* Over an unchanged list of n live connectors, n consecutive picks reach n
\* different connectors, whatever joined, left or went stale before
\* (pickConnectorIndex: "rr.Add(1) - 1" modulo the length of the list).
THEOREM RoundRobinIsEven == Spec => []RoundRobinEven
<1>1. Init => WindowInv
  BY DEF Init, WindowInv, RoundRobinEven
<1>2. IInv /\ WindowInv /\ [Next]_vars => WindowInv'
  <2> SUFFICES ASSUME IInv, WindowInv, [Next]_vars PROVE WindowInv'
    OBVIOUS
  <2>1. CASE UNCHANGED pickVars
    BY <2>1, WindowSame DEF pickVars
  <2>2. ASSUME NEW k \in Keys, PickConnector(k) PROVE WindowInv'
    <3>1. CASE UseHash(k)
      <4>1. rr' = rr /\ window' = window
        BY <2>2, <3>1 DEF PickConnector
      <4> QED
        BY <4>1, WindowSame
    <3>2. CASE ~UseHash(k)
      <4>1. /\ LiveRefs # <<>> /\ rr' = (rr + 1) % RRWidth
            /\ window' = NextWindow(LiveIds[PickConnectorIndex(Len(LiveRefs), k) + 1])
        BY <2>2, <3>2 DEF PickConnector
      <4>2. rr \in Nat /\ RRWidth \in Nat /\ rr < RRWidth
        BY RegistryAssumption DEF IInv, TypeOK
      <4>3. rr' # 0 => rr' = rr + 1
        <5>1. CASE rr + 1 < RRWidth
          BY <4>1, <4>2, <5>1
        <5>2. CASE rr + 1 = RRWidth
          BY <4>1, <4>2, <5>2
        <5> QED
          BY <4>2, <5>1, <5>2
      <4> QED
        BY <3>2, <4>1, <4>3, PickWindow
    <3> QED
      BY <3>1, <3>2
  <2> QED
    BY <2>1, <2>2 DEF Next, vars
<1>3. WindowInv => RoundRobinEven
  BY DEF WindowInv
<1> QED
  BY <1>1, <1>2, <1>3, Invariance, PTL DEF Spec
=============================================================================
