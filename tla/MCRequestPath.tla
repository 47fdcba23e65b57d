--------------------------- MODULE MCRequestPath ----------------------------
(* Instances of RequestPath for TLC. *)
EXTENDS RequestPath, TLC

\* One request for every endpoint.
AnyAsk == [r \in Reqs |-> [at : DOMAIN Handler, body : BOOLEAN]]

\* Two requests, the second with a body, for an endpoint that may do anything.
PairAsk == [r \in Reqs |-> {[at |-> "status", body |-> r = 2]}]
=============================================================================
