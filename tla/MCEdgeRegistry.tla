--------------------------- MODULE MCEdgeRegistry ---------------------------
(* Instances of EdgeRegistry for TLC. *)
EXTENDS EdgeRegistry, TLC

\* Two hash values that index the same connector of one and different
\* connectors of two.
MCHash == [k \in Keys |-> IF k = "/fast" THEN 4 ELSE 3]

\* Connections differ only by their names; for runs without liveness.
ConnSymmetry == Permutations(Conns)
=============================================================================
