-------------------------- MODULE MCLeaderElection --------------------------
(* Values of LeaderElection's constants for TLC. *)
EXTENDS LeaderElection

CONSTANTS r1, r2
=============================================================================
