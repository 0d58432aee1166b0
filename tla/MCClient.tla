------------------------------ MODULE MCClient ------------------------------
(* Small instances of the planner service under arbitrary callers. *)
EXTENDS PlannerClient, TLC

\* Digests are only compared for equality.
DigestSymmetry == Permutations(Digests)

\* Two submissions before the restart, one after it.
MCSubmits == [s \in Sessions |-> IF s = 1 THEN 2 ELSE 1]

=============================================================================
