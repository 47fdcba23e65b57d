----------------------------- MODULE UdpMeters ------------------------------
(***************************************************************************)
(* The kernel's UDP counters of the edge container and their two readers:  *)
(* the edge's own log (logUDPCounters, udpsock.Counters.Sub) and the       *)
(* control panel (pollUDP, publishUDPDelta).  Both subtract the previous   *)
(* reading in 64-bit arithmetic.                                           *)
(*                                                                         *)
(* One counter stands for the seven of the Udp: line.  The progress line   *)
(* of blast reads its own container's counters the way the edge's log      *)
(* does, ok dropped likewise, so logger with its rx stands for it too.     *)
(***************************************************************************)
EXTENDS Integers

CONSTANTS
  Modulus,   \* the counters wrap around at it: 2^64 in the code
  MaxRx      \* bound: datagrams counted by one container

ASSUME MeterAssumption == Modulus \in Nat /\ MaxRx \in Nat /\ MaxRx < Modulus

VARIABLES
  rx,      \* the counter of the running container
  logger,  \* logUDPCounters
  page     \* pollUDP

meterVars == <<rx, logger, page>>

\* prev: the reading before.  since, odd: history, the datagrams counted since
\* it, and whether something came between the two readings.  shown: the last
\* delta reported, with the truth about it.
NoDelta == [delta |-> 0, since |-> 0, odd |-> FALSE]
Meter == [on |-> FALSE, prev |-> 0, since |-> 0, odd |-> FALSE, shown |-> NoDelta]

MeterInit == rx = 0 /\ logger = Meter /\ page = [Meter EXCEPT !.on = TRUE]

\* Counters.Sub, and the subtractions of publishUDPDelta.
Sub(cur, prev) == (cur - prev) % Modulus

ReportKeepsPrev(mt, cur, odd) ==
  [mt EXCEPT !.shown = [delta |-> Sub(cur, mt.prev), since |-> mt.since, odd |-> odd],
             !.since = 0, !.odd = FALSE]
Report(mt, cur, odd) ==
  [mt EXCEPT !.shown = [delta |-> Sub(cur, mt.prev), since |-> mt.since, odd |-> odd],
             !.prev = cur, !.since = 0, !.odd = FALSE]

\* A container starts with new counters and a new process; the panel goes on.
NewContainer ==
  /\ rx' = 0
  /\ logger' = Meter
  /\ page' = [page EXCEPT !.odd = TRUE]

\* The first reading, without which the edge logs no counters at all.
LoggerStarts ==
  /\ logger' = [Meter EXCEPT !.on = TRUE, !.prev = rx]
  /\ UNCHANGED <<rx, page>>

Datagram ==
  /\ rx < MaxRx
  /\ rx' = rx + 1
  /\ logger' = [logger EXCEPT !.since = IF logger.on THEN @ + 1 ELSE 0]
  /\ page' = [page EXCEPT !.since = IF page.prev # 0 THEN @ + 1 ELSE 0]

\* ReadCounters: a failure comes with zeroes.
Reading(ok) == IF ok THEN rx ELSE 0

\* A tick of the edge's log, which drops ReadCounters' ok and takes the zeroes for
\* a reading; so the next delta is off as well.
LogTick(ok) ==
  /\ logger.on
  /\ logger' = [Report(logger, Reading(ok), logger.odd \/ ~ok) EXCEPT !.odd = ~ok]
  /\ UNCHANGED <<rx, page>>

\* A poll of the panel; a failed one is skipped.  A previous reading of all
\* zeroes counts as none.
Poll ==
  /\ page' = IF page.prev = 0 THEN [page EXCEPT !.prev = rx, !.since = 0, !.odd = FALSE]
             ELSE Report(page, rx, page.odd)
  /\ UNCHANGED <<rx, logger>>

MeterNext ==
  \/ NewContainer \/ LoggerStarts \/ Datagram \/ Poll
  \/ \E ok \in BOOLEAN : LogTick(ok)

MeterSpec == MeterInit /\ [][MeterNext]_meterVars

Meters == [on : BOOLEAN, prev : 0..MaxRx, since : Nat, odd : BOOLEAN,
           shown : [delta : 0..(Modulus - 1), since : Nat, odd : BOOLEAN]]

MeterTypeOK == rx \in 0..MaxRx /\ logger \in Meters /\ page \in Meters

----------------------------------------------------------------------------

\* A delta that the log or the panel reports is the number of datagrams since
\* the reading before, unless a reading failed (edge.go:570 drops ok) or the
\* edge container was replaced between two polls (publishUDPDelta).
DeltasHonest ==
  \A mt \in {logger, page} : mt.shown.odd \/ mt.shown.delta = mt.shown.since
=============================================================================
