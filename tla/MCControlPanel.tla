--------------------------- MODULE MCControlPanel ---------------------------
(* Instances of ControlPanel for TLC. *)
EXTENDS ControlPanel, TLC
=============================================================================
