------------------------------- MODULE MCLab --------------------------------
(* An instance of Lab for TLC. *)
EXTENDS Lab

Blast == [api |-> "run", tool |-> "blast", url |-> "good", header |-> "good",
          runner |-> "docker", insecure |-> FALSE, localCerts |-> TRUE,
          duration |-> "good", warmup |-> "", mode |-> "closed", rps |-> 0, conns |-> 4]

\* A blast request and every request that differs from it in one field, open
\* loops, and the other tools.
Runs ==
  UNION {
    {[Blast EXCEPT !.tool = t] : t \in {"blast", "curl", "chrome", "telnet"}},
    {[Blast EXCEPT !.url = "bad"], [Blast EXCEPT !.header = "bad"],
     [Blast EXCEPT !.runner = "host"], [Blast EXCEPT !.conns = 0],
     [Blast EXCEPT !.rps = -1]},
    {[Blast EXCEPT !.duration = d] : d \in {"", "bad", "zero", "huge"}},
    {[Blast EXCEPT !.warmup = d] : d \in {"bad", "zero", "huge"}},
    {[Blast EXCEPT !.mode = "open", !.rps = r] : r \in {0, 1}},
    {[Blast EXCEPT !.tool = "probe", !.localCerts = l, !.insecure = s] : l, s \in BOOLEAN}}

Impairs ==
  {[api |-> "impair", service |-> s, mode |-> m, a |-> a, b |-> b, burst |-> u] :
     s \in {"edge", "origin"}, m \in {"delay", "clear"},
     a \in {"", "ms"}, b \in {"", "ms"}, u \in {"", "%"}}

Stacks ==
  {[api |-> "stack", action |-> a, env |-> "", connectors |-> 1] :
     a \in StackActions \cup {"reboot"}}
  \cup {[api |-> "stack", action |-> "scale-connectors", env |-> "", connectors |-> n] :
          n \in {0, 11}}
  \cup {[api |-> "stack", action |-> "restart-edge", env |-> d, connectors |-> 1] :
          d \in {"bad", "good", "huge"}}

\* Damage to the certificates, the counters across restarts, probes of an edge
\* that comes and goes, the edge of the tests, and single commands.
MCScenes ==
  {{"stack", "force", "cut"}, {"stack", "fault", "meter"}, {"stack", "fault", "probe"},
   {"stack", "fault", "local"}, {"stack", "command"}}

MCRequests == Runs \cup Impairs \cup Stacks
=============================================================================
