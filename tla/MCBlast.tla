------------------------------ MODULE MCBlast -------------------------------
(* Instances of Blast for TLC. *)
EXTENDS Blast

\* A closed loop limited by -requests alone, one of whose two targets cannot be
\* requested.  -1 is the default of -max-failure-pct and -max-conn-drops.
Closed ==
  [mode |-> "closed", conns |-> 1, workers |-> 2, maxInflight |-> 0, requests |-> 3,
   warmup |-> FALSE, duration |-> FALSE, rps |-> FALSE, readBody |-> TRUE,
   probe0RTT |-> FALSE, maxFailPct |-> -1, maxDrops |-> -1, targets |-> 2, bad |-> {1}]

\* An open loop with a warm-up, a probe and both gates, on one connection.
Open ==
  [mode |-> "open", conns |-> 1, workers |-> 1, maxInflight |-> 2, requests |-> 3,
   warmup |-> TRUE, duration |-> TRUE, rps |-> TRUE, readBody |-> TRUE,
   probe0RTT |-> TRUE, maxFailPct |-> 0, maxDrops |-> 0, targets |-> 1, bad |-> {}]

\* The same on two connections and up to its limit, a loop that nothing limits,
\* one of which no request can be built, and two command lines that Main refuses.
MCConfigs ==
  {Closed, Open,
   [Open EXCEPT !.conns = 2, !.maxInflight = 1, !.requests = 2],
   [Closed EXCEPT !.workers = 1, !.requests = 0, !.bad = {}],
   [Closed EXCEPT !.bad = {0, 1}],
   [Open EXCEPT !.rps = FALSE],
   [Closed EXCEPT !.workers = 0]}

MCMaxStarts == [closed |-> 10, open |-> 3]
=============================================================================
