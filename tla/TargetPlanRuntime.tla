------------------------- MODULE TargetPlanRuntime -------------------------
(***************************************************************************)
(* The training thread of one rank (lifecycle.py) over the planner service *)
(* and the store: begin_forward, the dispatch and combine hooks of each    *)
(* layer in turn, end_forward, and the close callback of the host.         *)
(*                                                                         *)
(* The hooks of layer p submit the plan of layer p + 1, so the plan of a   *)
(* layer is built while the layer before it runs.  Where the thread takes  *)
(* the service's lock and then the store's, the worker may run in between, *)
(* and the model has two steps.  The other ranks of the group appear as    *)
(* the outcome of a poll of the control lane (communication_lane.py).      *)
(***************************************************************************)
EXTENDS TargetPlannerService

CONSTANT Stream   \* the run and microbatch of this runtime

ASSUME RuntimeAssumption ==
  /\ Streams = {Stream}
  /\ Layers \subseteq Nat \ {0}

VARIABLES
  driver,      \* where the training thread is in its hooks
  epoch,       \* _forward_epoch
  position,    \* the layer whose hooks run
  candidates,  \* _ready_target_plan_candidates
  view         \* _expected_, _terminal_ and _published_publication_slots

driverVars == <<driver, epoch, position, candidates, view>>
vars == <<storeVars, serviceVars, driverVars>>

\* The hooks of a layer in order, then how a forward and the runtime end
DispatchAt == {"dispatch", "poll", "plan", "prepare", "peeked", "claimed", "bound", "started", "execute"}
CombineAt  == {"compute", "combine", "combined", "pollnext", "complete"}
InForward  == DispatchAt \cup CombineAt \cup {"leaving"}
DriverAt   == InForward \cup {"outside", "beginning", "ending", "closing", "joining", "closed"}
SlotView   == {"none", "expected", "terminal", "published"}

\* Control is with the host between two hooks of a layer.
BetweenHooks == {"outside", "dispatch", "execute", "compute", "combined", "leaving"}

Init ==
  /\ StoreInit
  /\ ServiceInit
  /\ driver     = "outside"
  /\ epoch      = 0
  /\ position   = 0
  /\ candidates = [k \in Key |-> NoItem]
  /\ view       = [k \in Key |-> "none"]

KeyOf(layer) == [stream |-> Stream, generation |-> epoch, layer |-> layer]

\* The service and the store exist once a hook has created them.
Created == session > 0

ForgetSlots ==
  /\ candidates' = [k \in Key |-> NoItem]
  /\ view' = [k \in Key |-> "none"]

Goto(from, to) == driver = from /\ driver' = to

-----------------------------------------------------------------------------
\* begin_forward and end_forward

BeginForward ==
  /\ Goto("outside", "beginning")
  /\ epoch + 1 \in Generations
  /\ epoch' = epoch + 1
  /\ ForgetSlots
  /\ IF Created THEN CancelBeforeGeneration(Stream, epoch + 1) ELSE UNCHANGED serviceVars
  /\ UNCHANGED <<storeVars, position>>

BeginForwardCleanup ==
  /\ Goto("beginning", "dispatch")
  /\ IF Created THEN CleanupBeforeGeneration(Stream, epoch) ELSE UNCHANGED storeVars
  /\ position' = 0
  /\ UNCHANGED <<serviceVars, epoch, candidates, view>>

\* After the last layer, or when a hook or the host's own code raised
EndForward ==
  /\ driver \in InForward
  /\ driver' = "ending"
  /\ ForgetSlots
  /\ IF Created THEN CancelGeneration(Stream, epoch) ELSE UNCHANGED serviceVars
  /\ UNCHANGED <<storeVars, epoch, position>>

EndForwardCleanup ==
  /\ Goto("ending", "outside")
  /\ IF Created THEN CleanupEpoch(Stream, epoch) ELSE UNCHANGED storeVars
  /\ UNCHANGED <<serviceVars, epoch, position, candidates, view>>

-----------------------------------------------------------------------------
\* Pump and poll, called from several hooks

\* _pump_target_planner_publications: the last result of a key wins.
PumpFrom(from, to) ==
  LET of(k) == {i \in DOMAIN ready : ready[i].key = k /\ Presentable(ready[i])}
      last(k) == Nth(Cardinality(of(k)), of(k)) IN
  /\ Goto(from, to)
  /\ ready' = <<>>
  /\ candidates' = [k \in Key |-> IF of(k) = {} THEN candidates[k] ELSE ready[last(k)]]
  /\ UNCHANGED <<storeVars, queue, pending, queuedKeys, inflight, slots, cancelled, svcFloor,
                 closed, session, version, worker, epoch, position, view>>

Pump == PumpFrom("dispatch", "poll") \/ PumpFrom("compute", "combine") \/ PumpFrom("combined", "pollnext")

\* Each of the two safe points polls its slot once.
PolledKey == KeyOf(IF driver = "poll" THEN position ELSE position + 1)
AfterPoll == Goto("poll", "plan") \/ Goto("pollnext", "complete")

\* _poll_target_plan_slot returns early when there is no open slot ...
PollIsOpen == PolledKey \in Key /\ view[PolledKey] = "expected"

\* ... and changes nothing when some rank is not ready, or when this rank has
\* finished its plan after its last pump.
PollWithoutEffect ==
  /\ AfterPoll
  /\ PollIsOpen => candidates[PolledKey] # NoItem \/ slots[PolledKey] \in {"BUILDING", "READY"}
  /\ UNCHANGED <<storeVars, serviceVars, epoch, position, candidates, view>>

\* Every rank presented the same plan.  A publication the store refuses changes
\* nothing, and the slot stays open for its next safe point.
PollReady ==
  LET k == PolledKey
      r == candidates[k]
      done == PublishStatus(k, r.token, r.digest) \in {"PUBLISHED", "ALREADY_PUBLISHED_SAME"} IN
  /\ AfterPoll
  /\ PollIsOpen
  /\ r # NoItem
  /\ PublishIfCurrent(k, r.token, r.digest)
  /\ candidates' = IF done THEN [candidates EXCEPT ![k] = NoItem] ELSE candidates
  /\ view' = IF done THEN [view EXCEPT ![k] = "published"] ELSE view
  /\ UNCHANGED <<serviceVars, epoch, position>>

\* Some rank, this one or another, failed or cancelled the slot or presented a
\* different plan: the slot and the key are closed here too.  The three calls take
\* the locks one after the other, but no step of the worker tells their order:
\* it reads neither the slot's status nor the token, and closing a key twice is
\* closing it once.
PollTerminal(status) ==
  LET k == PolledKey
      close == terminal[k] = NoItem /\ claimed[k] = NoItem IN
  /\ AfterPoll
  /\ PollIsOpen
  /\ CancelSlot(k, status)
  /\ plans' = IF close THEN [plans EXCEPT ![k] = NoItem] ELSE plans
  /\ terminal' = IF close
                 THEN [terminal EXCEPT ![k] =
                        Final(IF plans[k] # NoItem THEN plans[k].digest ELSE NoItem,
                              IF status \in {"FAILED", "SLOT_MISMATCH"} THEN "FAILED" ELSE "CANCELLED")]
                 ELSE terminal
  /\ publishTokens' = [publishTokens EXCEPT ![k] = NoItem]
  /\ candidates' = [candidates EXCEPT ![k] = NoItem]
  /\ view' = [view EXCEPT ![k] = "terminal"]
  /\ UNCHANGED <<claimed, floor, epoch, position>>

Poll ==
  \/ PollWithoutEffect
  \/ PollReady
  \/ \E status \in {"FAILED", "CANCELLED", "EXPIRED", "SLOT_MISMATCH"} : PollTerminal(status)

-----------------------------------------------------------------------------
\* before_token_dispatch: submit the plan of the next layer, use that of this one

\* _ensure_target_planner_runtime: the service starts at its first use.
EnsureStarted ==
  /\ driver = "plan"
  /\ ~Created
  /\ position + 1 \in Layers
  /\ Start
  /\ UNCHANGED <<storeVars, driverVars>>

\* OpenSlotIsPublishable: a dropped task leaves an open slot.
SubmitNextFault ==
  LET k == KeyOf(position + 1) IN
  /\ Goto("plan", "prepare")
  /\ Created
  /\ k \in Key
  /\ Submit(k)
  /\ view' = [view EXCEPT ![k] = "expected"]
  /\ UNCHANGED <<epoch, position, candidates>>

\* _record_prediction_for_dispatch.  A task that is dropped or refused ends the
\* slot on this rank.
SubmitNext ==
  LET k == KeyOf(position + 1) IN
  /\ Goto("plan", "prepare")
  /\ Created
  /\ k \in Key
  /\ Submit(k)
  /\ view' = [view EXCEPT ![k] = IF SubmitStatus(k) \in {"ACCEPTED", "REPLACED_STALE"}
                                 THEN "expected" ELSE "terminal"]
  /\ UNCHANGED <<epoch, position, candidates>>

NothingToSubmit ==
  /\ Goto("plan", "prepare")
  /\ position + 1 \notin Layers
  /\ UNCHANGED <<storeVars, serviceVars, epoch, position, candidates, view>>

\* _try_prepared_target_plan_for_p0 meets only the store.
StoreStep(step) == step /\ UNCHANGED <<serviceVars, epoch, position, candidates, view>>

This == KeyOf(position)

NoPreparedPlan ==
  /\ Goto("prepare", "execute")
  /\ This \in Key => Peek(This) = NoItem
  /\ StoreStep(UNCHANGED storeVars)

PeekPrepared ==
  /\ Goto("prepare", "peeked")
  /\ This \in Key /\ Peek(This) # NoItem
  /\ StoreStep(UNCHANGED storeVars)

\* The store's lock was free between the two calls.
ClaimPrepared == Goto("peeked", "claimed") /\ StoreStep(Claim(This))

\* reconcile_once rejected the plan: the layer runs on its provisional plan.
RejectPrepared == Goto("claimed", "execute") /\ StoreStep(Finalize(This, "FAILED"))

\* HookFindsItsPlan: the start of the execution is not recorded.
StartPreparedFault == Goto("bound", "started") /\ StoreStep(UNCHANGED storeVars)

BindPrepared  == Goto("claimed", "bound") /\ StoreStep(Bind(This))
StartPrepared == Goto("bound", "started") /\ StoreStep(StartExecution(This))

Materialized == Goto("started", "execute") /\ StoreStep(UNCHANGED storeVars)
MaterializationFails == Goto("started", "execute") /\ StoreStep(Finalize(This, "FAILED"))

-----------------------------------------------------------------------------
\* The exchange, after_token_dispatch and the combine hooks

FailIfLive(k) == IF k \in Key /\ Live(k) THEN Finalize(k, "FAILED") ELSE UNCHANGED storeVars

\* The transport adapter fails the plan of a dispatch that failed, and raises.
ExecutionFails == Goto("execute", "leaving") /\ StoreStep(FailIfLive(This))

\* A plan nobody claimed came too late.
Dispatched ==
  /\ Goto("execute", "compute")
  /\ StoreStep(IF Created /\ This \in Key THEN CloseKeyIfUnclaimed(This, "EXPIRED")
                                          ELSE UNCHANGED storeVars)

\* before_token_combine prepares the combine of the executed plan.
CombinePrepared == Goto("combine", "combined") /\ StoreStep(UNCHANGED storeVars)
CombineNotMaterialized == Goto("combine", "combined") /\ StoreStep(FailIfLive(This))

\* ClaimIsOfThisLayer: the layer ends and its plan is not completed.
CompleteLayerFault ==
  /\ driver = "complete"
  /\ IF position + 1 \in Layers
     THEN position' = position + 1 /\ driver' = "dispatch"
     ELSE driver' = "leaving" /\ UNCHANGED position
  /\ UNCHANGED <<storeVars, serviceVars, epoch, candidates, view>>

\* after_token_combine
CompleteLayer ==
  /\ driver = "complete"
  /\ IF This \in Key /\ claimed[This] # NoItem
     THEN Complete(This) ELSE UNCHANGED storeVars
  /\ IF position + 1 \in Layers
     THEN position' = position + 1 /\ driver' = "dispatch"
     ELSE driver' = "leaving" /\ UNCHANGED position
  /\ UNCHANGED <<serviceVars, epoch, candidates, view>>

-----------------------------------------------------------------------------
\* _cleanup_target_plan_runtime, the close callback of the host

CloseUnused ==
  /\ driver \in BetweenHooks /\ driver' = "closed"
  /\ ~Created
  /\ UNCHANGED <<storeVars, serviceVars, epoch, position, candidates, view>>

CloseService ==
  /\ driver \in BetweenHooks /\ driver' = "closing"
  /\ Created
  /\ RaiseStop
  /\ UNCHANGED <<storeVars, epoch, position, candidates, view>>

CloseClears ==
  /\ Goto("closing", "joining")
  /\ ClearAndPoison
  /\ UNCHANGED <<storeVars, epoch, position, candidates, view>>

\* The thread ended: the store is shut down and every slot forgotten.
CloseJoined ==
  /\ Goto("joining", "closed")
  /\ worker.at = "dead"
  /\ Shutdown
  /\ ForgetSlots
  /\ UNCHANGED <<serviceVars, epoch, position>>

\* A build that outlasts the join timeout makes close raise: nothing after it runs.
CloseTimesOut ==
  /\ Goto("joining", "closed")
  /\ worker.at # "dead"
  /\ UNCHANGED <<storeVars, serviceVars, epoch, position, candidates, view>>

-----------------------------------------------------------------------------
DriverStep ==
  \/ BeginForward \/ BeginForwardCleanup \/ EndForward \/ EndForwardCleanup
  \/ Pump \/ Poll
  \/ EnsureStarted \/ SubmitNext \/ NothingToSubmit
  \/ NoPreparedPlan \/ PeekPrepared \/ ClaimPrepared \/ RejectPrepared \/ BindPrepared \/ StartPrepared
  \/ Materialized \/ MaterializationFails \/ ExecutionFails \/ Dispatched
  \/ CombinePrepared \/ CombineNotMaterialized \/ CompleteLayer
  \/ CloseUnused \/ CloseService \/ CloseClears \/ CloseJoined \/ CloseTimesOut

Next == DriverStep \/ (WorkerStep /\ UNCHANGED driverVars)

Spec == Init /\ [][Next]_vars

-----------------------------------------------------------------------------
\* Properties

TypeOK ==
  /\ StoreTypeOK
  /\ ServiceTypeOK
  /\ driver     \in DriverAt
  /\ epoch      \in Nat
  /\ position   \in Nat
  /\ candidates \in [Key -> Result \cup {NoItem}]
  /\ view       \in [Key -> SlotView]

\* The plan somebody has claimed is the plan of the layer whose hooks run: no
\* plan stays claimed into the next layer or the next forward.
ClaimIsOfThisLayer ==
  \A k \in Key : driver \notin {"ending", "closed"} /\ claimed[k] # NoItem =>
    k.generation = epoch /\ (driver \notin {"closing", "joining"} => driver \in InForward /\ k.layer = position)

\* Between two forwards the store holds neither a plan nor a token, although the
\* worker may still be building for the forward that ended.
CleanBetweenForwards ==
  driver = "outside" => \A k \in Key : ~Live(k) /\ publishTokens[k] = NoItem

\* A slot the rank still polls can be published, or its key has been closed: no
\* slot is polled that nobody can ever publish or close.
OpenSlotIsPublishable ==
  \A k \in Key : driver \in InForward /\ view[k] = "expected" =>
    publishTokens[k] # NoItem \/ terminal[k] # NoItem

\* Each store call of a hook finds the plan in the state it requires; if it did
\* not, the call would raise in the middle of the training step.  Between two
\* calls the store's lock is free, and the worker may close keys.
HookFindsItsPlan ==
  /\ driver = "peeked"  => plans[This] # NoItem /\ ~Expired(This)
  /\ driver = "claimed" => claimed[This] # NoItem /\ claimed[This].state = "CLAIMED"
  /\ driver = "bound"   => claimed[This] # NoItem /\ claimed[This].state = "BOUND"
  /\ driver = "started" => claimed[This] # NoItem /\ claimed[This].state = "EXECUTING"
  /\ driver = "complete" /\ This \in Key /\ Live(This)
       => claimed[This] # NoItem /\ claimed[This].state = "EXECUTING"

\* The life of the plan of each key, for the abstract specification
Life == [k \in Key |->
  IF Live(k) THEN [stage |-> Item(k).state, plan |-> Item(k).digest]
  ELSE IF terminal[k] # NoItem THEN [stage |-> terminal[k].status, plan |-> terminal[k].digest]
  ELSE [stage |-> "ABSENT", plan |-> NoItem]]

Lifecycle == INSTANCE PlanLifecycle WITH Keys <- Key, None <- NoItem, life <- Life

\* The runtime implements the life cycle: whatever the worker, the other ranks
\* and a failing hook do, no plan is lost, replaced, revived or skips a stage.
PlanLifecycleHolds == Lifecycle!LifeSpec
=============================================================================
