------------------------------ MODULE MCStore ------------------------------
(* Small instances of the store under arbitrary callers. *)
EXTENDS TargetPlanStore, TLC

\* The store compares digests for equality only.
DigestSymmetry == Permutations(Digests)

=============================================================================
