---------------------------- MODULE PhaseAuthority ----------------------------
(***************************************************************************)
(* The scheduler's authority over one phase of the off-line simulator:     *)
(* the canonical catalogue, the facts of each task                         *)
(* (rs_sim/scheduler/execution/state.py) and the plans with the record of  *)
(* the phase (rs_sim/scheduler/execution/authority.py).                    *)
(*                                                                         *)
(* At most one plan is active; its remaining order loses the tasks of each *)
(* committed batch.  What a commit has frozen is not planned again.        *)
(***************************************************************************)
EXTENDS TransferTasks, Naturals, Sequences, SequencesExt

VARIABLES canonical,      \* canonical_task_ids, registered so far
          permits,        \* tasks with permit_granted_at_ns
          sourceReady,    \* tasks with source_payload_ready_at_ns
          state,          \* TaskRuntimeFacts.state
          record,         \* the task lists of the PhaseExecutionRecord
          planStatus,     \* status of the last plan, "NONE" before the first
          remaining,      \* remaining_task_ids of the active plan: the place of each in its order
          epoch           \* phase_plan_epoch

authorityVars == <<canonical, permits, sourceReady, state, record, planStatus, remaining, epoch>>

AuthorityInit ==
    /\ canonical = {} /\ permits = {} /\ sourceReady = {}
    /\ state = [t \in Tasks |-> "PENDING"]
    /\ record = [committed |-> {}, running |-> {}, completed |-> {}]
    /\ planStatus = "NONE" /\ remaining = <<>> /\ epoch = 0

Frozen == record.committed \cup record.running \cup record.completed
Unfrozen == canonical \ Frozen

\* An order as the function from what it orders to the places.
Places(order) == [t \in ToSet(order) |-> CHOOSE i \in DOMAIN order : order[i] = t]

\* Faulty variants: each is a plausible mistake in the operator it is named
\* after, for the property written beside it; no specification uses them.

\* TaskViewsAgree: the order is not compared with what is frozen by now.
ActivatePlanFault(order) ==
    /\ Len(order) > 0
    /\ planStatus' = "ACTIVE" /\ remaining' = Places(order)
    /\ epoch' = epoch + 1
    /\ UNCHANGED <<canonical, permits, sourceReady, state, record>>

\* _refresh_ready.
Refreshed(permitted, sourced) ==
    [t \in Tasks |-> IF state[t] = "PENDING" /\ t \in permitted /\ t \in sourced
                     THEN "READY" ELSE state[t]]

\* register_catalogue, then note_source_payload_ready for a source known to be ready.
RegisterTasks(tasks, sourced) ==
    /\ canonical' = canonical \cup tasks
    /\ sourceReady' = sourceReady \cup sourced
    /\ state' = Refreshed(permits, sourceReady')
    /\ UNCHANGED <<permits, record, planStatus, remaining, epoch>>

NoteSourcePayloadReady(tasks) ==
    /\ sourceReady' = sourceReady \cup tasks
    /\ state' = Refreshed(permits, sourceReady')
    /\ UNCHANGED <<canonical, permits, record, planStatus, remaining, epoch>>

NotePermit(t) ==
    /\ permits' = permits \cup {t}
    /\ state' = Refreshed(permits', sourceReady)
    /\ UNCHANGED <<canonical, sourceReady, record, planStatus, remaining, epoch>>

\* draft_plan and activate_plan: the order has every unfrozen task once and no
\* other, and an active plan is superseded.
ActivatePlan(order) ==
    /\ ToSet(order) = Unfrozen /\ IsInjective(order) /\ Len(order) > 0
    /\ planStatus' = "ACTIVE" /\ remaining' = Places(order)
    /\ epoch' = epoch + 1
    /\ UNCHANGED <<canonical, permits, sourceReady, state, record>>

\* apply_commit_receipt and commit_batch; the stamp of the receipt is the
\* authority it was compiled under.
CommitBatch(batch, stamp) ==
    /\ planStatus = "ACTIVE" /\ stamp = epoch
    /\ batch # {} /\ batch \subseteq DOMAIN remaining
    /\ \A t \in batch : state[t] = "READY"
    /\ state' = [t \in Tasks |-> IF t \in batch THEN "COMMITTED" ELSE state[t]]
    /\ remaining' = Restrict(remaining, DOMAIN remaining \ batch)
    /\ record' = [record EXCEPT !.committed = @ \cup batch]
    /\ UNCHANGED <<canonical, permits, sourceReady, planStatus, epoch>>

MarkRunning(t) ==
    /\ t \in record.committed /\ state[t] = "COMMITTED"
    /\ state' = [state EXCEPT ![t] = "RUNNING"]
    /\ record' = [record EXCEPT !.committed = @ \ {t}, !.running = @ \cup {t}]
    /\ UNCHANGED <<canonical, permits, sourceReady, planStatus, remaining, epoch>>

\* mark_completed completes the active plan when nothing registered is left.
PlanIsDone(rec) ==
    /\ planStatus = "ACTIVE" /\ DOMAIN remaining = {}
    /\ rec.committed = {} /\ rec.running = {} /\ rec.completed = canonical
MarkCompleted(t) ==
    /\ t \in record.running /\ state[t] = "RUNNING"
    /\ state' = [state EXCEPT ![t] = "COMPLETED"]
    /\ record' = [record EXCEPT !.running = @ \ {t}, !.completed = @ \cup {t}]
    /\ IF PlanIsDone(record')
       THEN planStatus' = "COMPLETED" /\ epoch' = epoch + 1
       ELSE UNCHANGED <<planStatus, epoch>>
    /\ UNCHANGED <<canonical, permits, sourceReady, remaining>>

----------------------------------------------------------------------------
States == {"PENDING", "READY", "COMMITTED", "RUNNING", "COMPLETED"}
AuthorityTypeOK ==
    /\ canonical \subseteq Tasks /\ permits \subseteq Tasks /\ sourceReady \subseteq Tasks
    /\ state \in [Tasks -> States]
    /\ planStatus \in {"NONE", "ACTIVE", "COMPLETED"}
    /\ DOMAIN remaining \subseteq Tasks /\ epoch \in Nat

InState(s) == {t \in Tasks : state[t] = s}

RecordFollowsState ==
    /\ record.committed = InState("COMMITTED")
    /\ record.running = InState("RUNNING")
    /\ record.completed = InState("COMPLETED")

\* The record of the phase and the facts of its tasks tell the same story, and
\* what an active plan has left to commit was registered, once, and is not frozen.
RecordAgrees ==
    /\ RecordFollowsState
    /\ planStatus = "ACTIVE" => DOMAIN remaining \subseteq Unfrozen /\ IsInjective(remaining)
=============================================================================
