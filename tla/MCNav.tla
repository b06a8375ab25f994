-------------------------------- MODULE MCNav --------------------------------
(* Instances of SessionNav for TLC. *)
EXTENDS SessionNav
=============================================================================
