------------------------------ MODULE MCTunnel ------------------------------
(* Instances of Tunnel for TLC. *)
EXTENDS Tunnel, TLC

\* Requests, and so the load balancer, are not part of these instances.
MCHash == [k \in Keys |-> 0]
=============================================================================
