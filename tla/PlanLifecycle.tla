--------------------------- MODULE PlanLifecycle ---------------------------
(***************************************************************************)
(* What the runtime promises of a prepared plan, as the transition table   *)
(* of the store states it (store.py, _transition_table): a key gets one    *)
(* plan at most, the plan goes through its stages one by one, and ends in  *)
(* one final status that is never left.  Several keys may move at once.    *)
(***************************************************************************)
CONSTANTS
  Keys,
  Digests,
  None      \* no plan

VARIABLE life   \* stage and plan of each key

Stages == {"ABSENT", "LOGICAL_READY", "CLAIMED", "BOUND", "EXECUTING"}
Ends   == {"COMPLETED", "FAILED", "EXPIRED", "CANCELLED", "REJECTED"}

Transitions ==
  [s \in Stages \cup Ends |->
     CASE s = "ABSENT"        -> {"LOGICAL_READY", "FAILED", "EXPIRED", "CANCELLED"}
       [] s = "LOGICAL_READY" -> {"CLAIMED", "FAILED", "EXPIRED", "CANCELLED", "REJECTED"}
       [] s = "CLAIMED"       -> {"BOUND", "FAILED", "EXPIRED", "CANCELLED", "REJECTED"}
       [] s = "BOUND"         -> {"EXECUTING", "FAILED", "EXPIRED", "CANCELLED", "REJECTED"}
       [] s = "EXECUTING"     -> {"COMPLETED", "FAILED"}
       [] s \in Ends          -> {}]

LifeInit == life = [k \in Keys |-> [stage |-> "ABSENT", plan |-> None]]

\* Only the publication of an absent key chooses a plan.
Allowed(l, m) ==
  \/ m = l
  \/ l.stage = "ABSENT" /\ m.stage = "LOGICAL_READY" /\ m.plan \in Digests
  \/ m.stage \in Transitions[l.stage] \ {"LOGICAL_READY"} /\ m.plan = l.plan

LifeNext ==
  /\ life' \in [Keys -> [stage : Stages \cup Ends, plan : Digests \cup {None}]]
  /\ \A k \in Keys : Allowed(life[k], life'[k])

LifeSpec == LifeInit /\ [][LifeNext]_life
=============================================================================
