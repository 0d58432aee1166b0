----------------------------- MODULE MCRuntime -----------------------------
(* Small instances of one rank's training thread with its planner service. *)
EXTENDS TargetPlanRuntime, TLC

=============================================================================
