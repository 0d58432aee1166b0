------------------------------- MODULE MCLane -------------------------------
(* Small instances of the publication lane. *)
EXTENDS PublicationLane, TLC

=============================================================================
