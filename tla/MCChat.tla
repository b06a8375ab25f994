------------------------------- MODULE MCChat -------------------------------
(* Instances of ChatStreams for TLC. *)
EXTENDS ChatStreams
=============================================================================
