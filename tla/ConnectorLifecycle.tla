------------------------- MODULE ConnectorLifecycle -------------------------
(***************************************************************************)
(* What the tunnel control plane promises about one connection, as the     *)
(* package comment of internal/tunnelproto puts it: QUIC up is not tunnel  *)
(* up.  A connection is connected, then registered, then unregistered,     *)
(* each at most once and in that order, and may be lost at any point; a    *)
(* connector that said goodbye is never a candidate again on that          *)
(* connection.  Module Tunnel implements this specification.               *)
(***************************************************************************)
CONSTANT Conns
VARIABLE phase

Phases == {"absent", "connected", "registered", "unregistered"}

LifecycleInit == phase = [c \in Conns |-> "absent"]

Move(c, from, to) == phase[c] = from /\ phase' = [phase EXCEPT ![c] = to]

Connect(c)    == Move(c, "absent", "connected")
Register(c)   == Move(c, "connected", "registered")
Unregister(c) == Move(c, "registered", "unregistered")
Lose(c)       == \E p \in Phases \ {"absent"} : Move(c, p, "absent")

\* The edge process dies and forgets everyone.
Forget == phase' = [c \in Conns |-> "absent"]

LifecycleNext ==
  \/ \E c \in Conns : Connect(c) \/ Register(c) \/ Unregister(c) \/ Lose(c)
  \/ Forget

LifecycleSpec == LifecycleInit /\ [][LifecycleNext]_phase
=============================================================================
