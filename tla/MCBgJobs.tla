------------------------------ MODULE MCBgJobs ------------------------------
(* Instances of BgJobs for TLC. *)
EXTENDS BgJobs
=============================================================================
