----------------------- MODULE TargetPlanRuntimeProofs -----------------------
(***************************************************************************)
(* The runtime of one rank, its training thread, planner service and       *)
(* worker together, implements the specification of the store: whatever    *)
(* hook runs and whatever the worker does in between, the store is only    *)
(* changed the way its methods change it.  Hence what is shown of the      *)
(* store under arbitrary callers (TargetPlannerServiceProofs) holds in the *)
(* runtime.                                                                *)
(*                                                                         *)
(* The types of the service's tables are what this rests on: that a        *)
(* candidate presented for publication has a token and a digest follows    *)
(* from its way through the queue, the worker and the ready results.       *)
(*                                                                         *)
(* The last part shows what only holds of the three together: a task is in *)
(* one place at a time, a record closes its key for good, a hook finds the *)
(* plan of its layer as the hook before has left it, and the runtime       *)
(* implements the abstract lifecycle of a plan.                            *)
(***************************************************************************)
EXTENDS TargetPlanRuntime, TargetPlannerServiceProofs

\* A step of the runtime may assume ...
DriverTypeOK ==
  /\ driver     \in DriverAt
  /\ epoch      \in Nat
  /\ position   \in Nat
  /\ candidates \in [Key -> Result \cup {NoItem}]
  /\ view       \in [Key -> SlotView]

\* ... that a forward that runs has a generation, ...
ForwardIsKnown ==
  driver \in InForward \cup {"beginning", "ending"} => epoch \in Generations

\* ... and that a hook that has peeked a plan works on a key.
PreparedIsKey ==
  driver \in {"peeked", "claimed", "bound", "started"} => This \in Key

RuntimeInv ==
  /\ StoreInv
  /\ ServiceTypeOK
  /\ DriverTypeOK
  /\ ForwardIsKnown
  /\ PreparedIsKey

-----------------------------------------------------------------------------
\* Every step of the runtime is one method of the store, or leaves it alone.

LEMMA StreamType == Stream \in Streams
  BY RuntimeAssumption

\* begin_forward, end_forward and the close callback clean up.
LEMMA CleanupRefines ==
  ASSUME RuntimeInv, BeginForwardCleanup \/ EndForwardCleanup \/ CloseJoined
  PROVE  [StoreNext]_storeVars
<1>1. CASE BeginForwardCleanup
  <2>1. epoch \in Generations
    BY <1>1 DEF BeginForwardCleanup, Goto, RuntimeInv, ForwardIsKnown
  <2>2. QED  BY <1>1, <2>1, StreamType DEF BeginForwardCleanup, StoreNext
<1>2. CASE EndForwardCleanup
  <2>1. epoch \in Generations
    BY <1>2 DEF EndForwardCleanup, Goto, RuntimeInv, ForwardIsKnown
  <2>2. QED  BY <1>2, <2>1, StreamType DEF EndForwardCleanup, StoreNext
<1>3. CASE CloseJoined
  BY <1>3 DEF CloseJoined, StoreNext
<1>4. QED  BY <1>1, <1>2, <1>3

\* A poll publishes with the token and digest of a candidate, or closes the key
\* and clears its token: where close_key_if_unclaimed closes, it clears the
\* token itself, and elsewhere only the token goes.
LEMMA PollRefines ==
  ASSUME RuntimeInv, Poll
  PROVE  [StoreNext]_storeVars
<1>1. CASE PollWithoutEffect
  BY <1>1 DEF PollWithoutEffect
<1>2. CASE PollReady
  <2> DEFINE r == candidates[PolledKey]
  <2>1. PolledKey \in Key /\ r # NoItem /\ PublishIfCurrent(PolledKey, r.token, r.digest)
    BY <1>2 DEF PollReady, PollIsOpen
  <2>2. r \in Result
    BY <2>1 DEF RuntimeInv, DriverTypeOK
  <2>3. r.token \in Token /\ r.digest \in Digests
    BY <2>2 DEF Result
  <2>4. QED  BY <2>1, <2>3 DEF StoreNext
<1>3. ASSUME NEW status \in {"FAILED", "CANCELLED", "EXPIRED", "SLOT_MISMATCH"}, PollTerminal(status)
      PROVE  [StoreNext]_storeVars
  <2> DEFINE k == PolledKey
             final == IF status \in {"FAILED", "SLOT_MISMATCH"} THEN "FAILED" ELSE "CANCELLED"
  <2>1. k \in Key
    BY <1>3 DEF PollTerminal, PollIsOpen
  <2>2. CASE terminal[k] = NoItem /\ claimed[k] = NoItem
    <3>1. CloseKeyIfUnclaimed(k, final)
      BY <1>3, <2>2 DEF PollTerminal, CloseKeyIfUnclaimed
    <3>2. QED  BY <2>1, <3>1 DEF StoreNext
  <2>3. CASE ~(terminal[k] = NoItem /\ claimed[k] = NoItem)
    <3>1. ClearExpectedPublication(k)
      BY <1>3, <2>3 DEF PollTerminal, ClearExpectedPublication
    <3>2. QED  BY <2>1, <3>1 DEF StoreNext
  <2>4. QED  BY <2>2, <2>3
<1>4. QED  BY <1>1, <1>2, <1>3 DEF Poll

\* submit registers the token of a task whose session and version are in use.
LEMMA SubmitRefines ==
  ASSUME RuntimeInv, SubmitNext
  PROVE  [StoreNext]_storeVars
<1> DEFINE k == KeyOf(position + 1)
<1>1. k \in Key /\ Submit(k)
  BY DEF SubmitNext
<1>2. Task \in Token
  BY <1>1 DEF Submit, Task, Token, RuntimeInv, ServiceTypeOK
<1>3. RegisterExpectedPublication(k, Task) \/ UNCHANGED storeVars
  BY <1>1 DEF Submit
<1>4. QED  BY <1>1, <1>2, <1>3 DEF StoreNext

\* The hooks that use a prepared plan
LEMMA HookRefines ==
  ASSUME RuntimeInv,
         \/ NoPreparedPlan \/ PeekPrepared \/ ClaimPrepared \/ RejectPrepared
         \/ BindPrepared \/ StartPrepared \/ Materialized \/ MaterializationFails
         \/ ExecutionFails \/ Dispatched \/ CombinePrepared \/ CombineNotMaterialized
         \/ CompleteLayer
  PROVE  [StoreNext]_storeVars
<1>1. driver \in {"peeked", "claimed", "bound", "started"} => This \in Key
  BY DEF RuntimeInv, PreparedIsKey
<1>2. CASE NoPreparedPlan \/ PeekPrepared \/ Materialized \/ CombinePrepared
  BY <1>2 DEF NoPreparedPlan, PeekPrepared, Materialized, CombinePrepared, StoreStep
<1>3. CASE ClaimPrepared \/ BindPrepared \/ StartPrepared
  <2>1. This \in Key /\ (Claim(This) \/ Bind(This) \/ StartExecution(This))
    BY <1>1, <1>3 DEF ClaimPrepared, BindPrepared, StartPrepared, StoreStep, Goto
  <2>2. QED  BY <2>1 DEF StoreNext
<1>4. CASE RejectPrepared \/ MaterializationFails
  <2>1. This \in Key /\ Finalize(This, "FAILED")
    BY <1>1, <1>4 DEF RejectPrepared, MaterializationFails, StoreStep, Goto
  <2>2. QED  BY <2>1 DEF StoreNext
<1>5. CASE ExecutionFails \/ CombineNotMaterialized
  <2>1. (This \in Key /\ Finalize(This, "FAILED")) \/ UNCHANGED storeVars
    BY <1>5 DEF ExecutionFails, CombineNotMaterialized, StoreStep, FailIfLive
  <2>2. QED  BY <2>1 DEF StoreNext
<1>6. CASE Dispatched
  <2>1. (This \in Key /\ CloseKeyIfUnclaimed(This, "EXPIRED")) \/ UNCHANGED storeVars
    BY <1>6 DEF Dispatched, StoreStep
  <2>2. QED  BY <2>1 DEF StoreNext
<1>7. CASE CompleteLayer
  <2>1. (This \in Key /\ Complete(This)) \/ UNCHANGED storeVars
    BY <1>7 DEF CompleteLayer
  <2>2. QED  BY <2>1 DEF StoreNext
<1>8. QED  BY <1>2, <1>3, <1>4, <1>5, <1>6, <1>7

\* The worker reaches the store only to close the key of a task that failed.
LEMMA WorkerRefines ==
  ASSUME RuntimeInv, WorkerStep
  PROVE  [StoreNext]_storeVars
<1>1. CASE WorkerCloseKey
  <2>1. worker.key \in Key /\ CloseKeyIfUnclaimed(worker.key, "FAILED")
    BY <1>1 DEF WorkerCloseKey, RuntimeInv, ServiceTypeOK, WorkerState
  <2>2. QED  BY <2>1 DEF StoreNext
<1>2. CASE UNCHANGED storeVars
  BY <1>2
<1>3. QED  BY <1>1, <1>2 DEF WorkerStep

LEMMA NextRefines == RuntimeInv /\ [Next]_vars => [StoreNext]_storeVars
<1> SUFFICES ASSUME RuntimeInv, [Next]_vars PROVE [StoreNext]_storeVars
  OBVIOUS
<1>1. CASE BeginForward \/ EndForward \/ Pump \/ EnsureStarted \/ NothingToSubmit
           \/ CloseUnused \/ CloseService \/ CloseClears \/ CloseTimesOut
  BY <1>1
  DEF BeginForward, EndForward, Pump, PumpFrom, EnsureStarted, NothingToSubmit,
      CloseUnused, CloseService, CloseClears, CloseTimesOut
<1>2. CASE UNCHANGED vars
  BY <1>2 DEF vars
<1>3. CASE DriverStep
  BY <1>1, <1>3, CleanupRefines, PollRefines, SubmitRefines, HookRefines DEF DriverStep
<1>4. QED  BY <1>2, <1>3, WorkerRefines DEF Next

-----------------------------------------------------------------------------
\* Every step of the runtime keeps the types of the service and of the hooks.

\* A pump takes the last of the results of a key, if there is one.
LEMMA PumpKeepsType ==
  ASSUME RuntimeInv, NEW from, NEW to \in DriverAt, PumpFrom(from, to)
  PROVE  ServiceTypeOK' /\ DriverTypeOK'
<1> DEFINE of(k) == {i \in DOMAIN ready : ready[i].key = k /\ Presentable(ready[i])}
           last(k) == Nth(Cardinality(of(k)), of(k))
<1>1. ready \in Seq(Result)
  BY DEF RuntimeInv, ServiceTypeOK
<1>2. \A k \in Key : of(k) # {} => ready[last(k)] \in Result
  <2> SUFFICES ASSUME NEW k \in Key, of(k) # {} PROVE ready[last(k)] \in Result
    OBVIOUS
  <2>1. of(k) \in SUBSET Nat /\ IsFiniteSet(of(k)) /\ Cardinality(of(k)) \in Nat
    BY <1>1, PositionsAreFinite
  <2>2. Cardinality(of(k)) # 0
    BY <2>1, FS_EmptySet
  <2>3. Cardinality(of(k)) \in 1 .. Cardinality(of(k))
    BY <2>1, <2>2
  <2>4. last(k) \in of(k)
    BY <2>1, <2>3, NthIsAnElement
  <2>5. QED  BY <1>1, <2>4
<1>3. candidates' = [k \in Key |-> IF of(k) = {} THEN candidates[k] ELSE ready[last(k)]]
  BY DEF PumpFrom
<1>4. candidates' \in [Key -> Result \cup {NoItem}]
  <2> HIDE DEF of, last
  <2> QED  BY <1>2, <1>3 DEF RuntimeInv, DriverTypeOK
<1>5. ready' \in Seq(Result)
  BY DEF PumpFrom
<1>6. ServiceTypeOK'
  BY <1>5 DEF PumpFrom, RuntimeInv, ServiceTypeOK
<1>7. DriverTypeOK'
  BY <1>4 DEF PumpFrom, Goto, RuntimeInv, DriverTypeOK
<1>8. QED  BY <1>6, <1>7

\* Forgetting every slot
LEMMA ForgottenType ==
  ASSUME ForgetSlots
  PROVE  candidates' \in [Key -> Result \cup {NoItem}] /\ view' \in [Key -> SlotView]
  BY DEF ForgetSlots, SlotView

\* begin_forward and end_forward
LEMMA ForwardKeepsType ==
  ASSUME RuntimeInv, BeginForward \/ BeginForwardCleanup \/ EndForward \/ EndForwardCleanup
  PROVE  ServiceTypeOK' /\ DriverTypeOK'
<1>1. CASE BeginForward
  <2>1. ServiceTypeOK'
    BY <1>1, StreamType, CancelKeepsType, ServiceUntouched DEF BeginForward, RuntimeInv
  <2>2. DriverTypeOK'
    BY <1>1, ForgottenType DEF BeginForward, Goto, RuntimeInv, DriverTypeOK, DriverAt
  <2>3. QED  BY <2>1, <2>2
<1>2. CASE EndForward
  <2>1. epoch \in Generations
    BY <1>2 DEF EndForward, RuntimeInv, ForwardIsKnown
  <2>2. ServiceTypeOK'
    BY <1>2, <2>1, StreamType, CancelKeepsType, ServiceUntouched DEF EndForward, RuntimeInv
  <2>3. DriverTypeOK'
    BY <1>2, ForgottenType DEF EndForward, RuntimeInv, DriverTypeOK, DriverAt
  <2>4. QED  BY <2>2, <2>3
<1>3. CASE BeginForwardCleanup \/ EndForwardCleanup
  <2>1. ServiceTypeOK'
    BY <1>3, ServiceUntouched DEF BeginForwardCleanup, EndForwardCleanup, RuntimeInv
  <2>2. DriverTypeOK'
    BY <1>3
    DEF BeginForwardCleanup, EndForwardCleanup, Goto, RuntimeInv, DriverTypeOK, DriverAt,
        InForward, DispatchAt
  <2>3. QED  BY <2>1, <2>2
<1>4. QED  BY <1>1, <1>2, <1>3

\* The polls
LEMMA PollKeepsType ==
  ASSUME RuntimeInv, Poll
  PROVE  ServiceTypeOK' /\ DriverTypeOK'
<1>1. driver' \in DriverAt
  BY DEF Poll, PollWithoutEffect, PollReady, PollTerminal, AfterPoll, Goto,
         DriverAt, InForward, DispatchAt, CombineAt
<1>2. CASE PollWithoutEffect
  BY <1>1, <1>2, ServiceUntouched DEF PollWithoutEffect, RuntimeInv, DriverTypeOK
<1>3. CASE PollReady
  <2>1. ServiceTypeOK'
    BY <1>3, ServiceUntouched DEF PollReady, RuntimeInv
  <2>2. DriverTypeOK'
    BY <1>1, <1>3 DEF PollReady, RuntimeInv, DriverTypeOK, SlotView
  <2>3. QED  BY <2>1, <2>2
<1>4. ASSUME NEW status \in {"FAILED", "CANCELLED", "EXPIRED", "SLOT_MISMATCH"}, PollTerminal(status)
      PROVE  ServiceTypeOK' /\ DriverTypeOK'
  <2>1. PolledKey \in Key /\ CancelSlot(PolledKey, status) /\ status \in SlotStatus
    BY <1>4 DEF PollTerminal, PollIsOpen, SlotStatus
  <2>2. ServiceTypeOK'
    BY <2>1, CancelSlotKeepsType DEF RuntimeInv
  <2>3. DriverTypeOK'
    BY <1>1, <1>4 DEF PollTerminal, RuntimeInv, DriverTypeOK, SlotView
  <2>4. QED  BY <2>2, <2>3
<1>5. QED  BY <1>2, <1>3, <1>4 DEF Poll

\* The dispatch hook's submit
LEMMA PlanKeepsType ==
  ASSUME RuntimeInv, EnsureStarted \/ SubmitNext \/ NothingToSubmit
  PROVE  ServiceTypeOK' /\ DriverTypeOK'
<1>1. CASE EnsureStarted
  BY <1>1, StartKeepsType DEF EnsureStarted, driverVars, RuntimeInv, DriverTypeOK
<1>2. CASE SubmitNext
  <2>1. ServiceTypeOK'
    BY <1>2, SubmitKeepsType DEF SubmitNext, RuntimeInv
  <2>2. DriverTypeOK'
    BY <1>2
    DEF SubmitNext, Goto, RuntimeInv, DriverTypeOK, DriverAt, InForward, DispatchAt, SlotView
  <2>3. QED  BY <2>1, <2>2
<1>3. CASE NothingToSubmit
  BY <1>3, ServiceUntouched
  DEF NothingToSubmit, Goto, RuntimeInv, DriverTypeOK, DriverAt, InForward, DispatchAt
<1>4. QED  BY <1>1, <1>2, <1>3

\* The hooks that meet only the store
LEMMA HookKeepsType ==
  ASSUME RuntimeInv,
         \/ NoPreparedPlan \/ PeekPrepared \/ ClaimPrepared \/ RejectPrepared
         \/ BindPrepared \/ StartPrepared \/ Materialized \/ MaterializationFails
         \/ ExecutionFails \/ Dispatched \/ CombinePrepared \/ CombineNotMaterialized
         \/ CompleteLayer
  PROVE  ServiceTypeOK' /\ DriverTypeOK'
<1>1. /\ UNCHANGED <<serviceVars, epoch, candidates, view>>
      /\ position' \in {position, position + 1}
  BY DEF NoPreparedPlan, PeekPrepared, ClaimPrepared, RejectPrepared, BindPrepared,
         StartPrepared, Materialized, MaterializationFails, ExecutionFails, Dispatched,
         CombinePrepared, CombineNotMaterialized, CompleteLayer, StoreStep
<1>2. driver' \in InForward
  BY DEF NoPreparedPlan, PeekPrepared, ClaimPrepared, RejectPrepared, BindPrepared,
         StartPrepared, Materialized, MaterializationFails, ExecutionFails, Dispatched,
         CombinePrepared, CombineNotMaterialized, CompleteLayer, Goto,
         InForward, DispatchAt, CombineAt
<1>3. QED
  BY <1>1, <1>2, ServiceUntouched DEF RuntimeInv, DriverTypeOK, DriverAt

\* The close callback
LEMMA CloseKeepsType ==
  ASSUME RuntimeInv, CloseUnused \/ CloseService \/ CloseClears \/ CloseJoined \/ CloseTimesOut
  PROVE  ServiceTypeOK' /\ DriverTypeOK'
<1>1. ServiceTypeOK'
  BY ServiceUntouched, StartKeepsType
  DEF CloseUnused, CloseService, CloseClears, CloseJoined, CloseTimesOut, RuntimeInv
<1>2. DriverTypeOK'
  BY ForgottenType
  DEF CloseUnused, CloseService, CloseClears, CloseJoined, CloseTimesOut, Goto,
      RuntimeInv, DriverTypeOK, DriverAt
<1>3. QED  BY <1>1, <1>2

-----------------------------------------------------------------------------
\* The inductive invariant and what follows from it

LEMMA InitRuntimeInv == Init => RuntimeInv
<1> SUFFICES ASSUME Init PROVE RuntimeInv
  OBVIOUS
<1>1. StoreInv
  BY InitStoreInv DEF Init
<1>2. ServiceTypeOK
  BY InitServiceInv DEF Init, ServiceInv
<1>3. DriverTypeOK
  BY DEF Init, DriverTypeOK, DriverAt, SlotView
<1>4. ForwardIsKnown /\ PreparedIsKey
  BY DEF Init, ForwardIsKnown, PreparedIsKey, InForward, DispatchAt, CombineAt
<1>5. QED  BY <1>1, <1>2, <1>3, <1>4 DEF RuntimeInv

LEMMA NextKeepsType ==
  ASSUME RuntimeInv, Next
  PROVE  ServiceTypeOK' /\ DriverTypeOK'
<1>1. CASE Pump
  <2>1. "poll" \in DriverAt /\ "combine" \in DriverAt /\ "pollnext" \in DriverAt
    BY DEF DriverAt, InForward, DispatchAt, CombineAt
  <2>2. QED  BY <1>1, <2>1, PumpKeepsType DEF Pump
<1>2. CASE DriverStep
  BY <1>1, <1>2, ForwardKeepsType, PollKeepsType, PlanKeepsType, HookKeepsType, CloseKeepsType
  DEF DriverStep
<1>3. CASE WorkerStep /\ UNCHANGED driverVars
  BY <1>3, WorkerKeepsType DEF driverVars, RuntimeInv, DriverTypeOK
<1>4. QED  BY <1>2, <1>3 DEF Next

\* Only begin_forward changes the epoch, and only the end of a layer and
\* begin_forward change the position.
LEMMA NextKeepsPlace ==
  ASSUME RuntimeInv, Next
  PROVE  ForwardIsKnown' /\ PreparedIsKey'
<1> USE DEF RuntimeInv, ForwardIsKnown, PreparedIsKey, This, KeyOf, Goto
<1>1. CASE BeginForward \/ BeginForwardCleanup \/ EndForward \/ EndForwardCleanup
  BY <1>1
  DEF BeginForward, BeginForwardCleanup, EndForward, EndForwardCleanup,
      InForward, DispatchAt, CombineAt
<1>2. CASE Pump \/ Poll
  BY <1>2
  DEF Pump, PumpFrom, Poll, PollWithoutEffect, PollReady, PollTerminal, AfterPoll,
      InForward, DispatchAt, CombineAt
<1>3. CASE EnsureStarted \/ SubmitNext \/ NothingToSubmit
  BY <1>3
  DEF EnsureStarted, SubmitNext, NothingToSubmit, driverVars, InForward, DispatchAt, CombineAt
<1>4. CASE \/ NoPreparedPlan \/ PeekPrepared \/ ClaimPrepared \/ RejectPrepared
           \/ BindPrepared \/ StartPrepared \/ Materialized \/ MaterializationFails
  BY <1>4
  DEF NoPreparedPlan, PeekPrepared, ClaimPrepared, RejectPrepared, BindPrepared,
      StartPrepared, Materialized, MaterializationFails, StoreStep, InForward, DispatchAt
<1>5. CASE ExecutionFails \/ Dispatched \/ CombinePrepared \/ CombineNotMaterialized \/ CompleteLayer
  BY <1>5
  DEF ExecutionFails, Dispatched, CombinePrepared, CombineNotMaterialized, CompleteLayer,
      StoreStep, InForward, DispatchAt, CombineAt
<1>6. CASE CloseUnused \/ CloseService \/ CloseClears \/ CloseJoined \/ CloseTimesOut
  BY <1>6
  DEF CloseUnused, CloseService, CloseClears, CloseJoined, CloseTimesOut,
      InForward, DispatchAt, CombineAt
<1>7. CASE UNCHANGED driverVars
  BY <1>7 DEF driverVars
<1>8. QED  BY <1>1, <1>2, <1>3, <1>4, <1>5, <1>6, <1>7 DEF Next, DriverStep

LEMMA NextKeepsRuntimeInv == RuntimeInv /\ [Next]_vars => RuntimeInv'
<1> SUFFICES ASSUME RuntimeInv, [Next]_vars PROVE RuntimeInv'
  OBVIOUS
<1>1. StoreInv'
  BY NextRefines, NextKeepsInv DEF RuntimeInv
<1>2. CASE Next
  BY <1>1, <1>2, NextKeepsType, NextKeepsPlace DEF RuntimeInv
<1>3. CASE UNCHANGED vars
  <2>1. UNCHANGED serviceVars /\ UNCHANGED driverVars
    BY <1>3 DEF vars
  <2>2. ServiceTypeOK'
    BY <2>1, ServiceUntouched DEF RuntimeInv
  <2>3. DriverTypeOK' /\ ForwardIsKnown' /\ PreparedIsKey'
    BY <2>1 DEF driverVars, RuntimeInv, DriverTypeOK, ForwardIsKnown, PreparedIsKey, This, KeyOf
  <2>4. QED  BY <1>1, <2>2, <2>3 DEF RuntimeInv
<1>4. QED  BY <1>2, <1>3

\* The inductive invariant holds in every state of the runtime of a rank
\* (lifecycle.py over planner_service.py and store.py).
THEOREM RuntimeInvariant == Spec => []RuntimeInv
  BY InitRuntimeInv, NextKeepsRuntimeInv, PTL DEF Spec

\* The queue, the tables of the service, the hand of the worker and the fields of
\* the lifecycle always hold what their annotations say.
THEOREM RuntimeTypeCorrect == Spec => []TypeOK
<1>1. RuntimeInv => TypeOK
  BY DEF RuntimeInv, StoreInv, DriverTypeOK, TypeOK
<1>2. QED  BY <1>1, RuntimeInvariant, PTL

\* The runtime implements the store's specification: hooks and worker change the
\* store only by calls of its methods, with keys, tokens and digests of the right
\* kind.
THEOREM RuntimeImplementsStore == Spec => StoreSpec
<1>1. Init => StoreInit
  BY DEF Init
<1>2. QED  BY <1>1, NextRefines, RuntimeInvariant, PTL DEF Spec, StoreSpec

\* In the runtime, as in the store alone: a plan has one holder, and nothing of a
\* generation below the floor exists, although the worker may still be building
\* for it.
THEOREM RuntimeKeepsStoreInvariants == Spec => [](OneHolder /\ NothingBelowFloor)
<1>1. RuntimeInv => OneHolder /\ NothingBelowFloor
  BY DEF RuntimeInv, StoreInv
<1>2. QED  BY <1>1, RuntimeInvariant, PTL

\* In the runtime, as in the store alone: digests are stable, stages come in
\* order and final records are final.
THEOREM RuntimeKeepsStoreSteps == Spec => DigestIsStable /\ StagesInOrder /\ RecordIsKept
  BY RuntimeImplementsStore, DigestStability, StageOrder, RecordFinality

-----------------------------------------------------------------------------
\* The store belongs to the running forward

\* The store holds something for a key.
Holds(k) == Live(k) \/ publishTokens[k] # NoItem

\* What the store holds it holds for the running forward, and the plan that is
\* claimed is that of the layer whose hooks run.
ForwardOwnsStore ==
  \A k \in Key :
    /\ Holds(k) => Created
    /\ Holds(k) /\ driver # "closed" => k.generation = epoch /\ driver \notin {"outside", "beginning"}
    /\ claimed[k] # NoItem /\ driver \in InForward => k.layer = position

\* Nothing new comes into the store, and nothing is claimed.
Shrinks ==
  \A k \in Key : /\ Holds(k)' => Holds(k)
                 /\ claimed'[k] # NoItem => claimed[k] # NoItem

\* All methods shrink the store but register_expected_publication and claim: a
\* publication uses up the token it needs.
LEMMA MethodsShrink ==
  ASSUME StoreTypeOK
  PROVE  /\ UNCHANGED storeVars => Shrinks
         /\ \A k \in Key, t \in Token, d \in Digests : PublishIfCurrent(k, t, d) => Shrinks
         /\ \A k \in Key : \/ ClearExpectedPublication(k) \/ Bind(k) \/ StartExecution(k)
                           \/ Complete(k) \/ Finalize(k, "FAILED")
                           => Shrinks
         /\ \A k \in Key, f \in FinalState : CloseKeyIfUnclaimed(k, f) => Shrinks
         /\ \A doomed : CleanupMatching(doomed) => Shrinks
<1> USE DEF StoreTypeOK, Shrinks, Holds, Live
<1>1. UNCHANGED storeVars => Shrinks
  BY DEF storeVars
<1>2. ASSUME NEW k \in Key, NEW t \in Token, NEW d \in Digests, PublishIfCurrent(k, t, d)
      PROVE  Shrinks
  <2>1. PublishStatus(k, t, d) = "PUBLISHED" => publishTokens[k] # NoItem
    BY DEF PublishStatus
  <2> DEFINE status == PublishStatus(k, t, d)
  <2>2. /\ \A j \in Key : j # k => plans'[j] = plans[j]
        /\ status # "PUBLISHED" => plans' = plans
        /\ \A j \in Key : publishTokens'[j] = publishTokens[j] \/ publishTokens'[j] = NoItem
        /\ claimed' = claimed
    BY <1>2 DEF PublishIfCurrent
  <2> HIDE DEF status
  <2>3. QED  BY <2>1, <2>2 DEF status
<1>3. ASSUME NEW k \in Key,
             \/ ClearExpectedPublication(k) \/ Complete(k) \/ Finalize(k, "FAILED")
             \/ \E f \in FinalState : CloseKeyIfUnclaimed(k, f)
      PROVE  Shrinks
  <2>1. \A j \in Key : /\ plans'[j] = plans[j] \/ plans'[j] = NoItem
                       /\ claimed'[j] = claimed[j] \/ claimed'[j] = NoItem
                       /\ publishTokens'[j] = publishTokens[j] \/ publishTokens'[j] = NoItem
    BY <1>3 DEF ClearExpectedPublication, Complete, Finalize, CloseKeyIfUnclaimed, storeVars
  <2>2. QED  BY <2>1
<1>4. ASSUME NEW k \in Key, Bind(k) \/ StartExecution(k)
      PROVE  Shrinks
  BY <1>4 DEF Bind, StartExecution, Advance
<1>5. ASSUME NEW doomed, CleanupMatching(doomed)
      PROVE  Shrinks
  BY <1>5 DEF CleanupMatching
<1>6. QED  BY <1>1, <1>2, <1>3, <1>4, <1>5

\* A step within a forward, into its end or into the closing of the runtime
LEMMA ShrinkingKeepsOwner ==
  ASSUME ForwardOwnsStore, Shrinks, UNCHANGED <<epoch, position, session>>,
         \/ driver' = driver
         \/ driver \in InForward /\ driver' \in InForward \cup {"ending"}
         \/ driver # "closed" /\ driver' \in {"closing", "joining", "closed"}
  PROVE  ForwardOwnsStore'
<1>1. "outside" \notin InForward /\ "beginning" \notin InForward
      /\ "closing" \notin InForward /\ "joining" \notin InForward /\ "closed" \notin InForward
      /\ "ending" \notin InForward
  BY DEF InForward, DispatchAt, CombineAt
<1>2. \A k \in Key : claimed[k] # NoItem => Holds(k)
  BY DEF Holds, Live
<1>3. Created' = Created
  BY DEF Created
<1>4. SUFFICES ASSUME NEW k \in Key
      PROVE  /\ Holds(k)' => Created'
             /\ Holds(k)' /\ driver' # "closed"
                  => k.generation = epoch' /\ driver' \notin {"outside", "beginning"}
             /\ claimed'[k] # NoItem /\ driver' \in InForward => k.layer = position'
  BY DEF ForwardOwnsStore
<1>5. Holds(k)' => Created'
  BY <1>3 DEF ForwardOwnsStore, Shrinks
<1>6. Holds(k)' /\ driver' # "closed"
        => k.generation = epoch' /\ driver' \notin {"outside", "beginning"}
  BY <1>1 DEF ForwardOwnsStore, Shrinks
<1>7. claimed'[k] # NoItem /\ driver' \in InForward => k.layer = position'
  BY <1>1, <1>2 DEF ForwardOwnsStore, Shrinks
<1>8. QED  BY <1>5, <1>6, <1>7

\* The four steps of begin_forward and end_forward
LEMMA ForwardKeepsOwner ==
  ASSUME RuntimeInv, ForwardOwnsStore,
         BeginForward \/ BeginForwardCleanup \/ EndForward \/ EndForwardCleanup
  PROVE  ForwardOwnsStore'
<1> USE DEF Goto
<1>1. StoreTypeOK /\ session \in Nat
  BY ServiceAssumption DEF RuntimeInv, StoreInv, ServiceTypeOK
<1>2. CASE BeginForward
  <2>1. \A k \in Key : ~Holds(k) /\ claimed[k] = NoItem
    BY <1>2 DEF BeginForward, ForwardOwnsStore, Holds, Live
  <2>2. QED  BY <1>2, <2>1 DEF BeginForward, ForwardOwnsStore, Holds, Live, storeVars
<1>3. CASE BeginForwardCleanup
  <2>1. Shrinks
    BY <1>1, <1>3, MethodsShrink DEF BeginForwardCleanup, CleanupBeforeGeneration
  <2>2. \A k \in Key : ~Holds(k) /\ claimed[k] = NoItem
    BY <1>3 DEF BeginForwardCleanup, ForwardOwnsStore, Holds, Live
  <2>3. QED  BY <2>1, <2>2 DEF ForwardOwnsStore, Shrinks
<1>4. CASE EndForward
  <2>1. Shrinks
    BY <1>1, <1>4, MethodsShrink DEF EndForward
  <2>2. UNCHANGED <<epoch, position, session>> /\ driver \in InForward /\ driver' = "ending"
    BY <1>4 DEF EndForward, CancelGeneration, serviceVars
  <2>3. QED  BY <2>1, <2>2, ShrinkingKeepsOwner
<1>5. CASE EndForwardCleanup
  <2>1. \A k \in Key : ~Holds(k)' /\ claimed'[k] = NoItem
    <3> TAKE k \in Key
    <3>1. CASE ~Created
      BY <1>5, <3>1 DEF EndForwardCleanup, ForwardOwnsStore, Holds, Live, storeVars
    <3>2. CASE Created
      <4>1. CleanupMatching({j \in Key : j.stream = Stream /\ j.generation = epoch})
        BY <1>5, <3>2 DEF EndForwardCleanup, CleanupEpoch
      <4>2. k.stream = Stream
        BY RuntimeAssumption DEF Key
      <4>3. Holds(k) => k.generation = epoch
        BY <1>5 DEF EndForwardCleanup, ForwardOwnsStore
      <4>4. QED  BY <4>1, <4>2, <4>3 DEF CleanupMatching, Holds, Live
    <3>3. QED  BY <3>1, <3>2
  <2>2. QED  BY <2>1 DEF ForwardOwnsStore
<1>6. QED  BY <1>2, <1>3, <1>4, <1>5

\* A submit registers a key of the running forward.
LEMMA SubmitKeepsOwner ==
  ASSUME RuntimeInv, ForwardOwnsStore, SubmitNext
  PROVE  ForwardOwnsStore'
<1> DEFINE s == KeyOf(position + 1)
<1>1. /\ driver = "plan" /\ driver' = "prepare" /\ Created
      /\ s \in Key /\ s.generation = epoch
      /\ UNCHANGED <<epoch, position, session>>
      /\ UNCHANGED <<plans, claimed>>
      /\ \A k \in Key : k # s => publishTokens'[k] = publishTokens[k]
  BY DEF SubmitNext, Submit, SubmitToQueue, RegisterExpectedPublication, Goto, KeyOf, storeVars,
         RuntimeInv, StoreInv, StoreTypeOK
<1>2. "plan" \in InForward /\ "prepare" \in InForward
  BY DEF InForward, DispatchAt
<1>3. QED  BY <1>1, <1>2 DEF ForwardOwnsStore, Holds, Live, Created

\* A claim is of a plan of this layer.
LEMMA ClaimKeepsOwner ==
  ASSUME RuntimeInv, ForwardOwnsStore, ClaimPrepared
  PROVE  ForwardOwnsStore'
<1>1. /\ driver = "peeked" /\ driver' = "claimed" /\ Claim(This)
      /\ UNCHANGED <<epoch, position, session>>
  BY DEF ClaimPrepared, Goto, StoreStep, serviceVars
<1>2. This \in Key /\ This.layer = position
  BY <1>1 DEF RuntimeInv, PreparedIsKey, This, KeyOf
<1>3. /\ \A k \in Key : Holds(k)' => Holds(k)
      /\ \A k \in Key : k # This => claimed'[k] = claimed[k]
  BY <1>1, <1>2 DEF Claim, Holds, Live, RuntimeInv, StoreInv, StoreTypeOK
<1>4. "peeked" \in InForward /\ "claimed" \in InForward
  BY DEF InForward, DispatchAt
<1>5. QED  BY <1>1, <1>2, <1>3, <1>4 DEF ForwardOwnsStore, Created

\* The end of a layer completes the plan that is claimed, or there is none.
LEMMA CompleteKeepsOwner ==
  ASSUME RuntimeInv, ForwardOwnsStore, CompleteLayer
  PROVE  ForwardOwnsStore'
<1>1. /\ driver = "complete" /\ driver' \in {"dispatch", "leaving"}
      /\ UNCHANGED <<epoch, session>>
  BY DEF CompleteLayer, serviceVars
<1>2. driver \in InForward /\ driver' \in InForward
  BY <1>1 DEF InForward, DispatchAt, CombineAt
<1>3. Shrinks
  BY MethodsShrink DEF CompleteLayer, RuntimeInv, StoreInv
<1>4. \A k \in Key : claimed'[k] = NoItem
  <2> TAKE k \in Key
  <2>1. CASE claimed[k] = NoItem
    BY <1>3, <2>1 DEF Shrinks
  <2>2. CASE claimed[k] # NoItem
    <3>1. k.layer = position /\ k.generation = epoch /\ k.stream = Stream
      BY <1>1, <1>2, <2>2, RuntimeAssumption DEF ForwardOwnsStore, Holds, Live, Key
    <3>2. k = This
      BY <3>1 DEF This, KeyOf, Key
    <3>3. Complete(k)
      BY <2>2, <3>2 DEF CompleteLayer
    <3>4. QED  BY <3>3 DEF Complete, RuntimeInv, StoreInv, StoreTypeOK
  <2>3. QED  BY <2>1, <2>2
<1>5. QED  BY <1>1, <1>2, <1>3, <1>4 DEF ForwardOwnsStore, Shrinks, Created

\* Pumps, polls and the first use of the service
LEMMA PollKeepsOwner ==
  ASSUME RuntimeInv, ForwardOwnsStore, Pump \/ Poll \/ EnsureStarted \/ NothingToSubmit
  PROVE  ForwardOwnsStore'
<1> USE DEF Goto
<1>1. StoreTypeOK /\ session \in Nat
  BY ServiceAssumption DEF RuntimeInv, StoreInv, ServiceTypeOK
<1>2. CASE EnsureStarted
  <2>1. session' = session + 1 /\ UNCHANGED <<storeVars, driver, epoch, position>>
    BY <1>2 DEF EnsureStarted, Start, driverVars
  <2>2. QED  BY <1>1, <2>1 DEF ForwardOwnsStore, Holds, Live, Created, storeVars
<1>3. CASE Pump \/ NothingToSubmit
  <2>1. Shrinks
    BY <1>1, <1>3, MethodsShrink DEF Pump, PumpFrom, NothingToSubmit
  <2>2. /\ UNCHANGED <<epoch, position, session>>
        /\ driver \in InForward /\ driver' \in InForward
    BY <1>3
    DEF Pump, PumpFrom, NothingToSubmit, serviceVars, InForward, DispatchAt, CombineAt
  <2>3. QED  BY <2>1, <2>2, ShrinkingKeepsOwner
<1>4. CASE Poll
  <2>1. /\ UNCHANGED <<epoch, position, session>>
        /\ driver \in InForward /\ driver' \in InForward
    BY <1>4
    DEF Poll, PollWithoutEffect, PollReady, PollTerminal, CancelSlot, AfterPoll, serviceVars,
        InForward, DispatchAt, CombineAt
  <2>2. Shrinks
    <3>1. CASE PollWithoutEffect
      BY <1>1, <3>1, MethodsShrink DEF PollWithoutEffect
    <3>2. CASE PollReady
      <4>1. PolledKey \in Key /\ candidates[PolledKey] \in Result
        BY <3>2 DEF PollReady, PollIsOpen, RuntimeInv, DriverTypeOK
      <4>2. QED  BY <1>1, <3>2, <4>1, MethodsShrink DEF PollReady, Result
    <3>3. ASSUME NEW status, PollTerminal(status) PROVE Shrinks
      <4>1. /\ claimed' = claimed
            /\ \A k \in Key : /\ plans'[k] = plans[k] \/ plans'[k] = NoItem
                              /\ publishTokens'[k] = publishTokens[k] \/ publishTokens'[k] = NoItem
        BY <1>1, <3>3 DEF PollTerminal, StoreTypeOK
      <4>2. QED  BY <4>1 DEF Shrinks, Holds, Live
    <3>4. QED  BY <1>4, <3>1, <3>2, <3>3 DEF Poll
  <2>3. QED  BY <2>1, <2>2, ShrinkingKeepsOwner
<1>5. QED  BY <1>2, <1>3, <1>4

\* The hooks other than claim and the end of the layer
LEMMA HookKeepsOwner ==
  ASSUME RuntimeInv, ForwardOwnsStore,
         \/ NoPreparedPlan \/ PeekPrepared \/ RejectPrepared \/ BindPrepared \/ StartPrepared
         \/ Materialized \/ MaterializationFails \/ ExecutionFails \/ Dispatched
         \/ CombinePrepared \/ CombineNotMaterialized
  PROVE  ForwardOwnsStore'
<1>1. driver \in InForward /\ driver' \in InForward /\ UNCHANGED <<epoch, position, session>>
  BY DEF NoPreparedPlan, PeekPrepared, RejectPrepared, BindPrepared, StartPrepared,
         Materialized, MaterializationFails, ExecutionFails, Dispatched, CombinePrepared,
         CombineNotMaterialized, Goto, StoreStep, serviceVars, InForward, DispatchAt, CombineAt
<1>2. driver \in {"claimed", "bound", "started"} => This \in Key
  BY DEF RuntimeInv, PreparedIsKey
<1>3. \/ UNCHANGED storeVars
      \/ /\ This \in Key
         /\ \/ Bind(This) \/ StartExecution(This) \/ Finalize(This, "FAILED")
            \/ CloseKeyIfUnclaimed(This, "EXPIRED")
  BY <1>2
  DEF NoPreparedPlan, PeekPrepared, RejectPrepared, BindPrepared, StartPrepared,
      Materialized, MaterializationFails, ExecutionFails, Dispatched, CombinePrepared,
      CombineNotMaterialized, FailIfLive, Goto, StoreStep
<1>4. Shrinks
  BY <1>3, MethodsShrink DEF RuntimeInv, StoreInv, FinalState
<1>5. QED  BY <1>1, <1>4, ShrinkingKeepsOwner

\* The close callback, and the worker between the steps of the hooks
LEMMA OthersKeepOwner ==
  ASSUME RuntimeInv, ForwardOwnsStore,
         \/ CloseUnused \/ CloseService \/ CloseClears \/ CloseJoined \/ CloseTimesOut
         \/ WorkerStep /\ UNCHANGED driverVars
         \/ UNCHANGED vars
  PROVE  ForwardOwnsStore'
<1>1. StoreTypeOK
  BY DEF RuntimeInv, StoreInv
<1>2. CASE CloseUnused \/ CloseService \/ CloseClears \/ CloseJoined \/ CloseTimesOut
  <2>1. /\ driver # "closed" /\ driver' \in {"closing", "joining", "closed"}
        /\ UNCHANGED <<epoch, position, session>>
    BY <1>2
    DEF CloseUnused, CloseService, CloseClears, CloseJoined, CloseTimesOut, RaiseStop,
        ClearAndPoison, Goto, serviceVars, BetweenHooks
  <2>2. Shrinks
    BY <1>1, <1>2, MethodsShrink
    DEF CloseUnused, CloseService, CloseClears, CloseJoined, CloseTimesOut, Shutdown
  <2>3. QED  BY <2>1, <2>2, ShrinkingKeepsOwner
<1>3. CASE WorkerStep /\ UNCHANGED driverVars
  <2>1. UNCHANGED <<driver, epoch, position, session>>
    BY <1>3
    DEF driverVars, WorkerStep, WorkerGet, WorkerTake, WorkerBuilt, WorkerFailed, WorkerCloseKey
  <2>2. UNCHANGED storeVars \/ (worker.key \in Key /\ CloseKeyIfUnclaimed(worker.key, "FAILED"))
    BY <1>3 DEF WorkerStep, WorkerCloseKey, RuntimeInv, ServiceTypeOK, WorkerState
  <2>3. Shrinks
    BY <1>1, <2>2, MethodsShrink DEF FinalState
  <2>4. QED  BY <2>1, <2>3, ShrinkingKeepsOwner
<1>4. CASE UNCHANGED vars
  <2>1. UNCHANGED <<storeVars, driver, epoch, position, session>>
    BY <1>4 DEF vars, serviceVars, driverVars
  <2>2. QED  BY <1>1, <2>1, MethodsShrink, ShrinkingKeepsOwner
<1>5. QED  BY <1>2, <1>3, <1>4

\* Everything the store holds belongs to the running forward: the reason why the
\* clean-up of one generation at end_forward leaves nothing behind.
THEOREM ForwardOwnership == Spec => []ForwardOwnsStore
<1>1. Init => ForwardOwnsStore
  BY DEF Init, StoreInit, ForwardOwnsStore, Holds, Live
<1>2. RuntimeInv /\ ForwardOwnsStore /\ [Next]_vars => ForwardOwnsStore'
  BY ForwardKeepsOwner, PollKeepsOwner, SubmitKeepsOwner, HookKeepsOwner, ClaimKeepsOwner,
     CompleteKeepsOwner, OthersKeepOwner
  DEF Next, DriverStep
<1>3. QED  BY <1>1, <1>2, RuntimeInvariant, PTL DEF Spec

\* Between two forwards the store holds neither a plan nor a token: no late worker
\* and no hook that raised leaves one behind.
THEOREM ForwardsAreSeparate == Spec => []CleanBetweenForwards
<1>1. ForwardOwnsStore => CleanBetweenForwards
  BY DEF ForwardOwnsStore, CleanBetweenForwards, Holds
<1>2. QED  BY <1>1, ForwardOwnership, PTL

\* No plan stays claimed into the next layer or the next forward.
THEOREM ClaimsAreLocal == Spec => []ClaimIsOfThisLayer
<1>1. RuntimeInv /\ ForwardOwnsStore => ClaimIsOfThisLayer
  <2> SUFFICES ASSUME RuntimeInv, ForwardOwnsStore, NEW k \in Key,
                      driver \notin {"ending", "closed"}, claimed[k] # NoItem
               PROVE  /\ k.generation = epoch
                      /\ driver \notin {"closing", "joining"} => driver \in InForward /\ k.layer = position
    BY DEF ClaimIsOfThisLayer
  <2>1. k.generation = epoch /\ driver \notin {"outside", "beginning"}
    BY DEF ForwardOwnsStore, Holds, Live
  <2>2. driver \notin {"closing", "joining"} => driver \in InForward
    BY <2>1 DEF RuntimeInv, DriverTypeOK, DriverAt
  <2>3. QED  BY <2>1, <2>2 DEF ForwardOwnsStore
<1>2. QED  BY <1>1, RuntimeInvariant, ForwardOwnership, PTL

-----------------------------------------------------------------------------
\* What the service keeps, it keeps in the runtime.

LEMMA NextCallsService == RuntimeInv /\ [Next]_vars => ServiceCall
<1> SUFFICES ASSUME RuntimeInv, [Next]_vars PROVE ServiceCall
  OBVIOUS
<1>1. CASE BeginForward \/ EndForward
  <2>1. EndForward => epoch \in Generations
    BY DEF EndForward, RuntimeInv, ForwardIsKnown
  <2>2. QED  BY <1>1, <2>1, StreamType DEF BeginForward, EndForward, ServiceCall
<1>2. CASE Pump
  <2>1. DrainReady \/ UNCHANGED serviceVars
    BY <1>2 DEF Pump, PumpFrom, DrainReady, serviceVars
  <2>2. QED  BY <2>1 DEF ServiceCall
<1>3. CASE Poll
  <2>1. PollWithoutEffect \/ PollReady => UNCHANGED serviceVars
    BY DEF PollWithoutEffect, PollReady
  <2>2. ASSUME NEW status \in {"FAILED", "CANCELLED", "EXPIRED", "SLOT_MISMATCH"}, PollTerminal(status)
        PROVE  PolledKey \in Key /\ CancelSlot(PolledKey, status) /\ status \in SlotStatus
    BY <2>2 DEF PollTerminal, PollIsOpen, SlotStatus
  <2>3. QED  BY <1>3, <2>1, <2>2 DEF Poll, ServiceCall
<1>4. CASE EnsureStarted \/ SubmitNext \/ CloseService \/ CloseClears
  BY <1>4 DEF EnsureStarted, SubmitNext, CloseService, CloseClears, ServiceCall
<1>5. CASE \/ BeginForwardCleanup \/ EndForwardCleanup \/ NothingToSubmit
           \/ NoPreparedPlan \/ PeekPrepared \/ ClaimPrepared \/ RejectPrepared
           \/ BindPrepared \/ StartPrepared \/ Materialized \/ MaterializationFails
           \/ ExecutionFails \/ Dispatched \/ CombinePrepared \/ CombineNotMaterialized
           \/ CompleteLayer \/ CloseUnused \/ CloseJoined \/ CloseTimesOut
  BY <1>5
  DEF BeginForwardCleanup, EndForwardCleanup, NothingToSubmit, NoPreparedPlan, PeekPrepared,
      ClaimPrepared, RejectPrepared, BindPrepared, StartPrepared, Materialized,
      MaterializationFails, ExecutionFails, Dispatched, CombinePrepared,
      CombineNotMaterialized, CompleteLayer, CloseUnused, CloseJoined, CloseTimesOut,
      StoreStep, ServiceCall
<1>6. CASE WorkerStep \/ UNCHANGED vars
  BY <1>6 DEF vars, ServiceCall
<1>7. QED  BY <1>1, <1>2, <1>3, <1>4, <1>5, <1>6 DEF Next, DriverStep

\* In the runtime no waiting task loses its place in the queue, and no result of
\* an overtaken forward or of a closed session is ever pumped.
THEOREM RuntimeServiceInvariant == Spec => [](QueueCoversPending /\ ReadyIsCurrent)
<1>1. Init => ServiceInv
  BY InitServiceInv DEF Init
<1>2. ServiceInv => QueueCoversPending /\ ReadyIsCurrent
  BY QueueInvSuffices DEF ServiceInv
<1>3. QED
  BY <1>1, <1>2, NextCallsService, CallKeepsServiceInv, RuntimeInvariant, PTL DEF Spec

-----------------------------------------------------------------------------
\* A task of a key is in one place

\* The worker builds the plan of a key, or is about to close it; a result of the
\* key waits to be pumped.
AtWorker(k) == worker.at \in {"build", "close"} /\ worker.key = k
InReady(k)  == \E i \in DOMAIN ready : ready[i].key = k

\* Some table of the store, the service or the lifecycle knows the key.
Touched(k) ==
  \/ Holds(k) \/ terminal[k] # NoItem
  \/ pending[k] # NoItem \/ AtWorker(k) \/ InReady(k)
  \/ candidates[k] # NoItem \/ view[k] # "none"

\* The hooks have come to the key: submit is called once for a key, by the hooks
\* of the layer before it.
Reached(k) ==
  \/ k.generation < epoch
  \/ /\ k.generation = epoch /\ driver # "beginning"
     /\ \/ k.layer <= position
        \/ k.layer = position + 1 /\ driver \notin {"dispatch", "poll", "plan"}

KeysAreReached == \A k \in Key : Touched(k) => Reached(k)

\* The one task of a key waits, is built, is ready, is a candidate or has become
\* the plan in the store: a worker that is about to close a key in the store
\* cannot meet a plan there.
TaskHasOnePlace ==
  \A k \in Key :
    /\ pending[k] # NoItem => ~AtWorker(k)
    /\ pending[k] # NoItem \/ AtWorker(k) => ~InReady(k)
    /\ pending[k] # NoItem \/ AtWorker(k) \/ InReady(k) => candidates[k] = NoItem
    /\ pending[k] # NoItem \/ AtWorker(k) \/ InReady(k) \/ candidates[k] # NoItem => ~Live(k)

PlaceInv == KeysAreReached /\ TaskHasOnePlace

StaysReached == \A k \in Key : Reached(k) => Reached(k)'

\* A key is of the runtime's stream and of a layer after the first.
LEMMA KeyNumbers ==
  ASSUME NEW k \in Key
  PROVE  k.generation \in Nat /\ k.layer \in Nat /\ k.layer # 0 /\ k.stream = Stream
  BY StoreAssumption, RuntimeAssumption DEF Key

\* The hooks go on from one layer to the next and from one forward to the next, so a
\* key once reached stays reached: submit is not called for it again.
LEMMA NextStaysReached ==
  ASSUME RuntimeInv, Next
  PROVE  StaysReached
<1> SUFFICES ASSUME NEW k \in Key, Reached(k) PROVE Reached(k)'
  BY DEF StaysReached
<1> USE KeyNumbers DEF Reached, Goto
<1>1. epoch \in Nat /\ position \in Nat
  BY DEF RuntimeInv, DriverTypeOK
<1>2. CASE BeginForward
  BY <1>1, <1>2 DEF BeginForward
<1>3. CASE BeginForwardCleanup
  BY <1>1, <1>3 DEF BeginForwardCleanup
<1>4. CASE CompleteLayer
  BY <1>1, <1>4 DEF CompleteLayer
<1>5. ASSUME UNCHANGED <<epoch, position>>,
             driver' \in {"dispatch", "poll", "plan", "beginning"}
               => \/ driver' = driver
                  \/ driver \in {"dispatch", "poll", "plan"} /\ driver' # "beginning"
      PROVE  Reached(k)'
  BY <1>1, <1>5
<1>6. CASE \/ EndForward \/ EndForwardCleanup \/ Pump \/ Poll
           \/ EnsureStarted \/ SubmitNext \/ NothingToSubmit
           \/ NoPreparedPlan \/ PeekPrepared \/ ClaimPrepared \/ RejectPrepared
           \/ BindPrepared \/ StartPrepared \/ Materialized \/ MaterializationFails
           \/ ExecutionFails \/ Dispatched \/ CombinePrepared \/ CombineNotMaterialized
           \/ CloseUnused \/ CloseService \/ CloseClears \/ CloseJoined \/ CloseTimesOut
  <2>1. UNCHANGED <<epoch, position>>
    BY <1>6
    DEF EndForward, EndForwardCleanup, Pump, PumpFrom, Poll, PollWithoutEffect, PollReady,
        PollTerminal, EnsureStarted, SubmitNext, NothingToSubmit, NoPreparedPlan, PeekPrepared,
        ClaimPrepared, RejectPrepared, BindPrepared, StartPrepared, Materialized,
        MaterializationFails, ExecutionFails, Dispatched, CombinePrepared,
        CombineNotMaterialized, CloseUnused, CloseService, CloseClears, CloseJoined,
        CloseTimesOut, StoreStep, driverVars
  <2>2. driver' \in {"dispatch", "poll", "plan", "beginning"}
          => \/ driver' = driver
             \/ driver \in {"dispatch", "poll", "plan"} /\ driver' # "beginning"
    BY <1>6
    DEF EndForward, EndForwardCleanup, Pump, PumpFrom, Poll, PollWithoutEffect, PollReady,
        PollTerminal, AfterPoll, EnsureStarted, SubmitNext, NothingToSubmit, NoPreparedPlan,
        PeekPrepared,
        ClaimPrepared, RejectPrepared, BindPrepared, StartPrepared, Materialized,
        MaterializationFails, ExecutionFails, Dispatched, CombinePrepared,
        CombineNotMaterialized, CloseUnused, CloseService, CloseClears, CloseJoined,
        CloseTimesOut, driverVars
  <2>3. QED  BY <1>5, <2>1, <2>2
<1>7. CASE WorkerStep /\ UNCHANGED driverVars
  BY <1>7 DEF driverVars
<1>8. QED  BY <1>2, <1>3, <1>4, <1>6, <1>7 DEF Next, DriverStep

-----------------------------------------------------------------------------
\* The life of a plan

\* A key with a record holds no plan and no token, so nothing can be published
\* under it any more; and no plan of the runtime ends as "CONSUMED".
Endings == {"COMPLETED", "FAILED", "EXPIRED", "CANCELLED"}

RecordClosesKey ==
  \A k \in Key : terminal[k] # NoItem => ~Holds(k) /\ terminal[k].status \in Endings

\* The calls of the store the runtime makes, and what it knows when it makes them
RuntimeCall ==
  \/ UNCHANGED storeVars
  \/ \E k \in Key :
       \/ \E t \in Token : RegisterExpectedPublication(k, t) /\ ~Touched(k) /\ Reached(k)'
       \/ \E t \in Token, d \in Digests :
            /\ PublishIfCurrent(k, t, d) /\ candidates[k] # NoItem
            /\ PublishStatus(k, t, d) \in {"PUBLISHED", "ALREADY_PUBLISHED_SAME"}
                 => candidates'[k] = NoItem /\ view'[k] = "published"
       \/ ClearExpectedPublication(k) /\ (terminal[k] # NoItem \/ Live(k)) /\ view'[k] = "terminal"
       \/ Claim(k) \/ Bind(k) \/ StartExecution(k) \/ Complete(k) \/ Finalize(k, "FAILED")
       \/ \E f \in Endings \ {"COMPLETED"} : CloseKeyIfUnclaimed(k, f) /\ (Touched(k) \/ Reached(k))
  \/ /\ driver \in {"beginning", "ending", "joining"}
     /\ \E doomed : CleanupMatching(doomed)
     /\ floor' \in {floor, [floor EXCEPT ![Stream] = epoch]}

\* Every step makes one of these calls, or leaves the store alone.
LEMMA NextCallsStore ==
  ASSUME RuntimeInv, PlaceInv, Next
  PROVE  RuntimeCall
<1>1. CASE UNCHANGED storeVars
  BY <1>1 DEF storeVars, RuntimeCall
<1>2. CASE BeginForwardCleanup \/ EndForwardCleanup \/ CloseJoined
  <2>1. driver \in {"beginning", "ending", "joining"}
    BY <1>2 DEF BeginForwardCleanup, EndForwardCleanup, CloseJoined, Goto
  <2>2. UNCHANGED storeVars \/ \E doomed : CleanupMatching(doomed)
    BY <1>2 DEF BeginForwardCleanup, EndForwardCleanup, CloseJoined,
                CleanupBeforeGeneration, CleanupEpoch, Shutdown
  <2>3. UNCHANGED storeVars \/ floor' \in {floor, [floor EXCEPT ![Stream] = epoch]}
    BY <1>2 DEF BeginForwardCleanup, EndForwardCleanup, CloseJoined,
                CleanupBeforeGeneration, CleanupEpoch, Shutdown, RuntimeInv, StoreInv, StoreTypeOK
  <2>4. QED  BY <2>1, <2>2, <2>3 DEF RuntimeCall
<1>3. CASE Poll
  <2>1. CASE PollWithoutEffect
    BY <1>1, <2>1 DEF PollWithoutEffect
  <2>2. CASE PollReady
    <3>1. PolledKey \in Key /\ candidates[PolledKey] # NoItem
          /\ PublishIfCurrent(PolledKey, candidates[PolledKey].token, candidates[PolledKey].digest)
      BY <2>2 DEF PollReady, PollIsOpen
    <3>2. candidates[PolledKey] \in Result
      BY <3>1 DEF RuntimeInv, DriverTypeOK
    <3>3. PublishStatus(PolledKey, candidates[PolledKey].token, candidates[PolledKey].digest)
              \in {"PUBLISHED", "ALREADY_PUBLISHED_SAME"}
            => /\ candidates' = [candidates EXCEPT ![PolledKey] = NoItem]
               /\ view' = [view EXCEPT ![PolledKey] = "published"]
      BY <2>2 DEF PollReady
    <3>4. PICK k \in Key : k = PolledKey
      BY <3>1
    <3>5. QED  BY <3>1, <3>2, <3>3, <3>4 DEF Result, RuntimeCall, RuntimeInv, DriverTypeOK
  <2>3. ASSUME NEW status \in {"FAILED", "CANCELLED", "EXPIRED", "SLOT_MISMATCH"}, PollTerminal(status)
        PROVE  RuntimeCall
    <3> PICK k \in Key : k = PolledKey
      BY <2>3 DEF PollTerminal, PollIsOpen
    <3> DEFINE final == IF status \in {"FAILED", "SLOT_MISMATCH"} THEN "FAILED" ELSE "CANCELLED"
    <3>1. k \in Key /\ view[k] = "expected"
      BY <2>3 DEF PollTerminal, PollIsOpen
    <3>2. CASE terminal[k] = NoItem /\ claimed[k] = NoItem
      <4>1. CloseKeyIfUnclaimed(k, final) /\ final \in Endings \ {"COMPLETED"}
        BY <2>3, <3>2 DEF PollTerminal, CloseKeyIfUnclaimed, Endings
      <4>2. Touched(k)
        BY <3>1 DEF Touched
      <4>3. QED  BY <3>1, <4>1, <4>2 DEF RuntimeCall
    <3>3. CASE ~(terminal[k] = NoItem /\ claimed[k] = NoItem)
      <4>1. ClearExpectedPublication(k) /\ view' = [view EXCEPT ![k] = "terminal"]
        BY <2>3, <3>3 DEF PollTerminal, ClearExpectedPublication
      <4>2. QED  BY <3>1, <3>3, <4>1 DEF RuntimeCall, Live, RuntimeInv, DriverTypeOK
    <3>4. QED  BY <3>2, <3>3
  <2>4. QED  BY <1>3, <2>1, <2>2, <2>3 DEF Poll
<1>4. CASE SubmitNext
  <2> PICK k \in Key : k = KeyOf(position + 1)
    BY <1>4 DEF SubmitNext
  <2>1. /\ k \in Key /\ Submit(k) /\ driver = "plan" /\ driver' = "prepare"
        /\ UNCHANGED <<epoch, position>>
    BY <1>4 DEF SubmitNext, Goto
  <2>2. /\ ~Reached(k) /\ Reached(k)'
    BY <2>1 DEF Reached, KeyOf, RuntimeInv, DriverTypeOK
  <2>3. ~Touched(k)
    BY <2>1, <2>2 DEF PlaceInv, KeysAreReached
  <2>4. Task \in Token
    BY <2>1 DEF Submit, Task, Token, RuntimeInv, ServiceTypeOK
  <2>5. RegisterExpectedPublication(k, Task) \/ UNCHANGED storeVars
    BY <2>1 DEF Submit
  <2>6. QED  BY <1>1, <2>1, <2>2, <2>3, <2>4, <2>5 DEF RuntimeCall
<1>5. driver \in {"peeked", "claimed", "bound", "started"} => This \in Key
  BY DEF RuntimeInv, PreparedIsKey
<1>6. CASE \/ NoPreparedPlan \/ PeekPrepared \/ ClaimPrepared \/ RejectPrepared
           \/ BindPrepared \/ StartPrepared \/ Materialized \/ MaterializationFails
  <2>1. \/ UNCHANGED storeVars
        \/ /\ This \in Key
           /\ Claim(This) \/ Bind(This) \/ StartExecution(This) \/ Finalize(This, "FAILED")
    BY <1>5, <1>6
    DEF NoPreparedPlan, PeekPrepared, ClaimPrepared, RejectPrepared, BindPrepared,
        StartPrepared, Materialized, MaterializationFails, StoreStep, Goto
  <2>2. QED  BY <1>1, <2>1 DEF RuntimeCall
<1>7. CASE ExecutionFails \/ CombinePrepared \/ CombineNotMaterialized \/ CompleteLayer
  <2>1. \/ UNCHANGED storeVars
        \/ This \in Key /\ (Finalize(This, "FAILED") \/ Complete(This))
    BY <1>7
    DEF ExecutionFails, CombinePrepared, CombineNotMaterialized, CompleteLayer, StoreStep, FailIfLive
  <2>2. QED  BY <1>1, <2>1 DEF RuntimeCall
<1>8. CASE Dispatched
  <2>1. \/ UNCHANGED storeVars
        \/ This \in Key /\ CloseKeyIfUnclaimed(This, "EXPIRED")
    BY <1>8 DEF Dispatched, StoreStep
  <2>2. Reached(This)
    BY <1>8, KeyNumbers DEF Dispatched, Goto, Reached, This, KeyOf, RuntimeInv, DriverTypeOK
  <2>3. QED  BY <1>1, <2>1, <2>2 DEF RuntimeCall, Endings
<1>9. CASE WorkerStep
  <2>1. CASE WorkerCloseKey
    <3>1. /\ worker.key \in Key /\ CloseKeyIfUnclaimed(worker.key, "FAILED")
          /\ AtWorker(worker.key)
      BY <2>1 DEF WorkerCloseKey, AtWorker, RuntimeInv, ServiceTypeOK, WorkerState
    <3>2. Touched(worker.key)
      BY <3>1 DEF Touched
    <3>3. QED  BY <3>1, <3>2 DEF RuntimeCall, Endings
  <2>2. QED  BY <1>1, <1>9, <2>1 DEF WorkerStep
<1>10. CASE BeginForward \/ EndForward \/ Pump \/ EnsureStarted \/ NothingToSubmit
            \/ CloseUnused \/ CloseService \/ CloseClears \/ CloseTimesOut
  BY <1>1, <1>10
  DEF BeginForward, EndForward, Pump, PumpFrom, EnsureStarted, NothingToSubmit,
      CloseUnused, CloseService, CloseClears, CloseTimesOut
<1>11. QED
  BY <1>2, <1>3, <1>4, <1>6, <1>7, <1>8, <1>9, <1>10 DEF Next, DriverStep

\* What a step may do to a key: its plan moves along the table, and a record closes it.
KeyFollowsLifecycle(k) ==
  /\ terminal'[k] # NoItem => ~Holds(k)' /\ terminal'[k].status \in Endings
  /\ Lifecycle!Allowed(Life[k], Life[k]')

\* One call for one key moves its plan the way the transition table allows.
LEMMA CallFollowsLifecycle ==
  ASSUME StoreInv, RecordClosesKey, RuntimeCall
  PROVE  RecordClosesKey' /\ \A k \in Key : Lifecycle!Allowed(Life[k], Life[k]')
<1>1. SUFFICES ASSUME NEW k \in Key PROVE KeyFollowsLifecycle(k)
  BY DEF RecordClosesKey, KeyFollowsLifecycle
<1>2. Life[k] = IF Live(k) THEN [stage |-> Item(k).state, plan |-> Item(k).digest]
                ELSE IF terminal[k] # NoItem
                     THEN [stage |-> terminal[k].status, plan |-> terminal[k].digest]
                ELSE [stage |-> "ABSENT", plan |-> NoItem]
  BY DEF Life
<1>3. Life[k]' = IF Live(k)' THEN [stage |-> Item(k)'.state, plan |-> Item(k)'.digest]
                ELSE IF terminal'[k] # NoItem
                     THEN [stage |-> terminal'[k].status, plan |-> terminal'[k].digest]
                ELSE [stage |-> "ABSENT", plan |-> NoItem]
  BY DEF Life
<1>4. /\ StoreTypeOK
      /\ plans[k] # NoItem
           => claimed[k] = NoItem /\ plans[k].state = "LOGICAL_READY" /\ plans[k] \in StoredPlan
      /\ claimed[k] # NoItem
           => claimed[k] \in StoredPlan /\ claimed[k].state \in {"CLAIMED", "BOUND", "EXECUTING"}
      /\ terminal[k] # NoItem => ~Holds(k) /\ terminal[k].status \in Endings
  BY DEF StoreInv, StoreTypeOK, OneHolder, RecordClosesKey, StoredPlan, LiveState
<1>5. ASSUME plans'[k] = plans[k], claimed'[k] = claimed[k], terminal'[k] = terminal[k],
             publishTokens'[k] = publishTokens[k] \/ publishTokens'[k] = NoItem
      PROVE  KeyFollowsLifecycle(k)
  <2>1. Life[k]' = Life[k]
    BY <1>2, <1>3, <1>5 DEF Live, Item
  <2>2. QED  BY <1>4, <1>5, <2>1 DEF Holds, Live, Lifecycle!Allowed, KeyFollowsLifecycle
<1>6. ASSUME NEW t \in Token, RegisterExpectedPublication(k, t), ~Touched(k)
      PROVE  KeyFollowsLifecycle(k)
  <2>1. Life[k]' = Life[k] /\ terminal'[k] = NoItem
    BY <1>2, <1>3, <1>6 DEF Live, Item, RegisterExpectedPublication, Touched
  <2>2. QED  BY <2>1 DEF Lifecycle!Allowed, KeyFollowsLifecycle
<1>7. ASSUME NEW t \in Token, NEW d \in Digests, PublishIfCurrent(k, t, d)
      PROVE  KeyFollowsLifecycle(k)
  <2> DEFINE status == PublishStatus(k, t, d)
             fresh == [digest |-> d, state |-> "LOGICAL_READY"]
  <2>1. CASE status = "PUBLISHED"
    <3>1. ~Live(k) /\ publishTokens[k] # NoItem
      BY <2>1 DEF PublishStatus
    <3>2. terminal[k] = NoItem
      BY <1>4, <3>1 DEF Holds
    <3>3. fresh \in StoredPlan /\ fresh # NoItem
      BY StoreAssumption DEF StoredPlan, LiveState
    <3>4. plans'[k] = fresh /\ terminal'[k] = NoItem
      BY <1>4, <1>7, <2>1, <3>2 DEF PublishIfCurrent, StoreTypeOK
    <3>5. Life[k] = [stage |-> "ABSENT", plan |-> NoItem]
      BY <1>2, <3>1, <3>2
    <3>6. Life[k]' = [stage |-> "LOGICAL_READY", plan |-> d]
      BY <1>3, <3>3, <3>4 DEF Live, Item
    <3>7. QED  BY <3>4, <3>5, <3>6 DEF Lifecycle!Allowed, KeyFollowsLifecycle
  <2>2. CASE status # "PUBLISHED"
    BY <1>4, <1>5, <1>7, <2>2 DEF PublishIfCurrent, StoreTypeOK
  <2>3. QED  BY <2>1, <2>2
<1>8. CASE ClearExpectedPublication(k)
  BY <1>4, <1>5, <1>8 DEF ClearExpectedPublication, StoreTypeOK
<1>9. CASE Claim(k) \/ Bind(k) \/ StartExecution(k)
  <2>1. terminal'[k] = terminal[k] /\ terminal[k] = NoItem
    BY <1>4, <1>9 DEF Claim, Bind, StartExecution, Advance, Holds, Live
  <2>2. Live(k) /\ Live(k)' /\ Item(k)'.digest = Item(k).digest
        /\ Item(k)'.state \in {"CLAIMED", "BOUND", "EXECUTING"}
        /\ <<Item(k).state, Item(k)'.state>>
             \in {<<"LOGICAL_READY", "CLAIMED">>, <<"CLAIMED", "BOUND">>, <<"BOUND", "EXECUTING">>}
    <3>1. CASE Claim(k)
      <4> DEFINE taken == [plans[k] EXCEPT !.state = "CLAIMED"]
      <4>1. plans[k] \in StoredPlan /\ plans[k].state = "LOGICAL_READY" /\ plans[k] # NoItem
        BY <1>4, <3>1 DEF Claim
      <4>2. /\ taken \in StoredPlan /\ taken # NoItem
            /\ taken.state = "CLAIMED" /\ taken.digest = plans[k].digest
        BY <4>1, StoreAssumption DEF StoredPlan, LiveState
      <4> HIDE DEF taken
      <4>3. plans'[k] = NoItem /\ claimed'[k] = taken
        BY <1>4, <3>1, <4>1 DEF Claim, StoreTypeOK, taken
      <4>4. QED  BY <1>4, <4>1, <4>2, <4>3 DEF Live, Item
    <3>2. ASSUME NEW from, NEW to \in {"BOUND", "EXECUTING"}, Advance(k, from, to)
          PROVE  Live(k) /\ Live(k)' /\ Item(k)'.digest = Item(k).digest
                 /\ Item(k).state = from /\ Item(k)'.state = to
      <4> DEFINE moved == [claimed[k] EXCEPT !.state = to]
      <4>1. /\ claimed[k] \in StoredPlan /\ claimed[k] # NoItem /\ claimed[k].state = from
            /\ plans[k] = NoItem
        BY <1>4, <3>2 DEF Advance
      <4>2. /\ moved \in StoredPlan /\ moved # NoItem
            /\ moved.state = to /\ moved.digest = claimed[k].digest
        BY <4>1, StoreAssumption DEF StoredPlan, LiveState
      <4> HIDE DEF moved
      <4>3. plans'[k] = NoItem /\ claimed'[k] = moved
        BY <1>4, <3>2, <4>1 DEF Advance, StoreTypeOK, moved
      <4>4. QED  BY <1>4, <4>1, <4>2, <4>3 DEF Live, Item
    <3>3. CASE Bind(k)
      BY <3>2, <3>3 DEF Bind
    <3>4. CASE StartExecution(k)
      BY <3>2, <3>4 DEF StartExecution
    <3>5. QED  BY <1>9, <3>1, <3>3, <3>4
  <2>3. Life[k] = [stage |-> Item(k).state, plan |-> Item(k).digest]
        /\ Life[k]' = [stage |-> Item(k)'.state, plan |-> Item(k)'.digest]
    BY <1>2, <1>3, <2>2
  <2>4. /\ Life[k]'.stage \in Lifecycle!Transitions[Life[k].stage] \ {"LOGICAL_READY"}
        /\ Life[k]'.plan = Life[k].plan
    BY <2>2, <2>3 DEF Lifecycle!Transitions, Lifecycle!Stages, Lifecycle!Ends
  <2>5. QED  BY <2>1, <2>4 DEF Lifecycle!Allowed, KeyFollowsLifecycle
\* What ends the plan of a key, or closes a key without one
<1>10. ASSUME NEW f \in Endings, NEW d,
              Live(k) => d = Item(k).digest,
              ~Live(k) => d = NoItem /\ f # "COMPLETED",
              Live(k) /\ Item(k).state = "EXECUTING" => f \in {"COMPLETED", "FAILED"},
              Live(k) /\ Item(k).state # "EXECUTING" => f # "COMPLETED",
              terminal[k] = NoItem, terminal'[k] = Final(d, f), ~Holds(k)'
       PROVE  KeyFollowsLifecycle(k)
  <2>1. terminal'[k] # NoItem /\ terminal'[k].status = f
    <3>1. terminal'[k] \in TerminalRecord
      BY <1>4, <1>10 DEF Live, Item, Final, TerminalRecord, StoredPlan, FinalState, Endings
    <3>2. QED  BY <1>10, <3>1, StoreAssumption DEF Final
  <2>2. Life[k]' = [stage |-> f, plan |-> d]
    BY <1>3, <1>10, <2>1 DEF Final, Holds
  <2>3. Life[k] = [stage |-> IF Live(k) THEN Item(k).state ELSE "ABSENT", plan |-> d]
    BY <1>2, <1>10
  <2>4. Life[k].stage \in {"ABSENT", "LOGICAL_READY", "CLAIMED", "BOUND", "EXECUTING"}
    BY <1>4, <2>3 DEF Live, Item
  <2>5. f \in Lifecycle!Transitions[Life[k].stage] \ {"LOGICAL_READY"}
    BY <1>10, <2>3, <2>4 DEF Lifecycle!Transitions, Lifecycle!Stages, Lifecycle!Ends, Endings
  <2>6. QED  BY <1>10, <2>1, <2>2, <2>3, <2>5 DEF Lifecycle!Allowed, KeyFollowsLifecycle
<1>11. CASE Complete(k)
  <2>1. /\ claimed[k] # NoItem /\ plans[k] = NoItem /\ terminal[k] = NoItem
        /\ Live(k) /\ Item(k) = claimed[k] /\ Item(k).state = "EXECUTING"
    BY <1>4, <1>11 DEF Complete, Live, Item, Holds
  <2>2. ~Holds(k)' /\ terminal'[k] = Final(Item(k).digest, "COMPLETED")
    BY <1>4, <1>11, <2>1 DEF Complete, Live, Holds, StoreTypeOK
  <2>3. QED  BY <1>10, <2>1, <2>2 DEF Endings
<1>12. CASE Finalize(k, "FAILED")
  <2>1. Live(k) /\ terminal[k] = NoItem
    BY <1>4, <1>12 DEF Finalize, Holds
  <2>2. ~Holds(k)' /\ terminal'[k] = Final(Item(k).digest, "FAILED")
    BY <1>4, <1>12, <2>1 DEF Finalize, Finals, Live, Holds, StoreTypeOK
  <2>3. QED  BY <1>10, <2>1, <2>2 DEF Endings
<1>13. ASSUME NEW f \in Endings \ {"COMPLETED"}, CloseKeyIfUnclaimed(k, f)
       PROVE  KeyFollowsLifecycle(k)
  <2>1. CASE terminal[k] = NoItem /\ claimed[k] = NoItem
    <3> DEFINE d == IF plans[k] # NoItem THEN plans[k].digest ELSE NoItem
    <3>1. /\ ~Holds(k)' /\ terminal'[k] = Final(d, f)
          /\ Live(k) => d = Item(k).digest /\ Item(k).state = "LOGICAL_READY"
          /\ ~Live(k) => d = NoItem
      BY <1>4, <1>13, <2>1 DEF CloseKeyIfUnclaimed, Live, Item, Holds, StoreTypeOK
    <3> HIDE DEF d
    <3>2. QED  BY <1>10, <1>13, <2>1, <3>1
  <2>2. CASE ~(terminal[k] = NoItem /\ claimed[k] = NoItem)
    BY <1>5, <1>13, <2>2 DEF CloseKeyIfUnclaimed, storeVars
  <2>3. QED  BY <2>1, <2>2
<1>14. ASSUME NEW doomed, CleanupMatching(doomed)
       PROVE  KeyFollowsLifecycle(k)
  <2>1. CASE k \in doomed /\ Live(k)
    <3> DEFINE f == IF Item(k).state = "EXECUTING" THEN "FAILED" ELSE "CANCELLED"
    <3>1. terminal[k] = NoItem
      BY <1>4, <2>1 DEF Holds
    <3>2. ~Holds(k)' /\ terminal'[k] = Final(Item(k).digest, f)
      BY <1>14, <2>1, <3>1 DEF CleanupMatching, Live, Holds
    <3>3. f \in Endings /\ f # "COMPLETED" /\ (Item(k).state = "EXECUTING" => f = "FAILED")
      BY DEF Endings
    <3> HIDE DEF f
    <3>4. QED  BY <1>10, <2>1, <3>1, <3>2, <3>3
  <2>2. CASE ~(k \in doomed /\ Live(k))
    <3>1. plans'[k] = plans[k] /\ claimed'[k] = claimed[k] /\ terminal'[k] = terminal[k]
          /\ (publishTokens'[k] = publishTokens[k] \/ publishTokens'[k] = NoItem)
      BY <1>14, <2>2 DEF CleanupMatching, Live
    <3>2. QED  BY <1>5, <3>1
  <2>3. QED  BY <2>1, <2>2
<1>15. ASSUME NEW j \in Key, j # k,
              \/ \E t \in Token : RegisterExpectedPublication(j, t)
              \/ \E t \in Token, d \in Digests : PublishIfCurrent(j, t, d)
              \/ ClearExpectedPublication(j)
              \/ Claim(j) \/ Bind(j) \/ StartExecution(j) \/ Complete(j) \/ Finalize(j, "FAILED")
              \/ \E f \in Endings \ {"COMPLETED"} : CloseKeyIfUnclaimed(j, f)
       PROVE  KeyFollowsLifecycle(k)
  <2>1. plans'[k] = plans[k] /\ claimed'[k] = claimed[k] /\ terminal'[k] = terminal[k]
        /\ publishTokens'[k] = publishTokens[k]
    BY <1>4, <1>15
    DEF RegisterExpectedPublication, PublishIfCurrent, ClearExpectedPublication, Claim, Bind,
        StartExecution, Advance, Complete, Finalize, CloseKeyIfUnclaimed, storeVars, StoreTypeOK
  <2>2. QED  BY <1>5, <2>1
<1>16. QED
  BY <1>5, <1>6, <1>7, <1>8, <1>9, <1>11, <1>12, <1>13, <1>14, <1>15 DEF RuntimeCall, Endings, storeVars

\* How the task of a key moves on in a step: it comes to a new place by leaving
\* the one before.
TaskMovesOn(k) ==
  /\ pending'[k] # NoItem => pending[k] # NoItem \/ ~Touched(k)
  /\ AtWorker(k)' => AtWorker(k) \/ (pending[k] # NoItem /\ pending'[k] = NoItem)
  /\ InReady(k)' => InReady(k) \/ (AtWorker(k) /\ ~AtWorker(k)')
  /\ candidates'[k] # NoItem => candidates[k] # NoItem \/ (InReady(k) /\ ~InReady(k)')
  /\ Live(k)' => Live(k) \/ (candidates[k] # NoItem /\ candidates'[k] = NoItem)

\* A task that moves this way stays in one place.
LEMMA MovingKeepsOnePlace ==
  ASSUME TaskHasOnePlace, \A k \in Key : TaskMovesOn(k)
  PROVE  TaskHasOnePlace'
<1> SUFFICES ASSUME NEW k \in Key
             PROVE  /\ pending'[k] # NoItem => ~AtWorker(k)'
                    /\ pending'[k] # NoItem \/ AtWorker(k)' => ~InReady(k)'
                    /\ pending'[k] # NoItem \/ AtWorker(k)' \/ InReady(k)' => candidates'[k] = NoItem
                    /\ pending'[k] # NoItem \/ AtWorker(k)' \/ InReady(k)' \/ candidates'[k] # NoItem => ~Live(k)'
  BY DEF TaskHasOnePlace
<1>1. TaskMovesOn(k)
  OBVIOUS
<1>2. Touched(k) <=> \/ Holds(k) \/ terminal[k] # NoItem
                     \/ pending[k] # NoItem \/ AtWorker(k) \/ InReady(k)
                     \/ candidates[k] # NoItem \/ view[k] # "none"
  BY DEF Touched
<1>3. Live(k) => Holds(k)
  BY DEF Holds
<1>4. QED  BY <1>1, <1>2, <1>3 DEF TaskMovesOn, TaskHasOnePlace

\* What the store gains it gains for a candidate, a new task or a key already reached.
LEMMA StoreMoves ==
  ASSUME RuntimeInv, PlaceInv, Next, NEW k \in Key
  PROVE  /\ Live(k)' => Live(k) \/ (candidates[k] # NoItem /\ candidates'[k] = NoItem)
         /\ publishTokens'[k] # NoItem => publishTokens[k] # NoItem \/ Reached(k)'
         /\ terminal'[k] # NoItem => Touched(k) \/ Reached(k)
<1> DEFINE Goal == /\ Live(k)' => Live(k) \/ (candidates[k] # NoItem /\ candidates'[k] = NoItem)
                   /\ publishTokens'[k] # NoItem => publishTokens[k] # NoItem \/ Reached(k)'
                   /\ terminal'[k] # NoItem => Touched(k) \/ Reached(k)
<1>1. RuntimeCall
  BY NextCallsStore
<1>2. StoreTypeOK
  BY DEF RuntimeInv, StoreInv
<1>3. Live(k) \/ terminal[k] # NoItem => Touched(k)
  BY DEF Touched, Holds
<1>4. CASE UNCHANGED storeVars
  BY <1>3, <1>4 DEF Live, storeVars
<1>5. ASSUME NEW j \in Key, NEW t \in Token, RegisterExpectedPublication(j, t), Reached(j)'
      PROVE  Goal
  BY <1>2, <1>3, <1>5 DEF RegisterExpectedPublication, Live, StoreTypeOK
<1>6. ASSUME NEW j \in Key, NEW t \in Token, NEW d \in Digests, PublishIfCurrent(j, t, d),
             candidates[j] # NoItem, PublishStatus(j, t, d) = "PUBLISHED" => candidates'[j] = NoItem
      PROVE  Goal
  <2>1. /\ k # j \/ PublishStatus(j, t, d) # "PUBLISHED" => plans'[k] = plans[k]
        /\ publishTokens'[k] = publishTokens[k] \/ publishTokens'[k] = NoItem
        /\ claimed' = claimed /\ terminal' = terminal
    BY <1>2, <1>6 DEF PublishIfCurrent, StoreTypeOK
  <2>2. QED  BY <1>3, <1>6, <2>1 DEF Live
<1>7. ASSUME NEW j \in Key,
             \/ ClearExpectedPublication(j)
             \/ Claim(j) \/ Bind(j) \/ StartExecution(j) \/ Complete(j) \/ Finalize(j, "FAILED")
             \/ \E f : CloseKeyIfUnclaimed(j, f) /\ (Touched(j) \/ Reached(j))
      PROVE  Goal
  <2>1. /\ Live(k)' => Live(k)
        /\ publishTokens'[k] = publishTokens[k] \/ publishTokens'[k] = NoItem
    BY <1>2, <1>7
    DEF ClearExpectedPublication, Claim, Bind, StartExecution, Advance, Complete, Finalize,
        CloseKeyIfUnclaimed, storeVars, StoreTypeOK, Live
  <2>2. terminal'[k] # NoItem => terminal[k] # NoItem \/ Live(k) \/ (k = j /\ (Touched(j) \/ Reached(j)))
    BY <1>2, <1>7
    DEF ClearExpectedPublication, Claim, Bind, StartExecution, Advance, Complete, Finalize,
        CloseKeyIfUnclaimed, storeVars, StoreTypeOK, Live
  <2>3. QED  BY <1>3, <2>1, <2>2
<1>8. ASSUME NEW doomed, CleanupMatching(doomed)
      PROVE  Goal
  <2>1. /\ Live(k)' => Live(k)
        /\ publishTokens'[k] = publishTokens[k] \/ publishTokens'[k] = NoItem
        /\ terminal'[k] # NoItem => terminal[k] # NoItem \/ Live(k)
    BY <1>2, <1>8 DEF CleanupMatching, Live
  <2>2. QED  BY <1>3, <2>1
<1>9. QED  BY <1>1, <1>4, <1>5, <1>6, <1>7, <1>8 DEF RuntimeCall

\* The worker takes a task from the waiting ones, and hands its result on.
LEMMA CallMovesTask ==
  ASSUME ServiceTypeOK, ServiceCall, NEW k \in Key
  PROVE  /\ AtWorker(k)' => AtWorker(k) \/ (pending[k] # NoItem /\ pending'[k] = NoItem)
         /\ InReady(k)' => InReady(k) \/ (AtWorker(k) /\ ~AtWorker(k)')
<1> DEFINE Goal == /\ AtWorker(k)' => AtWorker(k) \/ (pending[k] # NoItem /\ pending'[k] = NoItem)
                   /\ InReady(k)' => InReady(k) \/ (AtWorker(k) /\ ~AtWorker(k)')
<1>1. ASSUME worker' = worker, ready' = ready \/ ready' = <<>> PROVE Goal
  BY <1>1 DEF AtWorker, InReady
<1>2. ASSUME NEW doomed, ready' = ReadyWithout(doomed), worker' = worker PROVE Goal
  <2>1. InReady(k)' => InReady(k)
    BY <1>2, ReadyWithoutElements DEF InReady
  <2>2. QED  BY <1>2, <2>1 DEF AtWorker
<1>3. CASE \/ \E j \in Key : Submit(j)
           \/ \E j \in Key, status \in SlotStatus : CancelSlot(j, status)
           \/ DrainReady \/ RaiseStop \/ ClearAndPoison \/ UNCHANGED serviceVars
  BY <1>1, <1>3
  DEF Submit, SubmitToQueue, CancelSlot, DrainReady, RaiseStop, ClearAndPoison, ClearTables, serviceVars
<1>4. CASE \E s \in Streams, g \in Generations : CancelGeneration(s, g) \/ CancelBeforeGeneration(s, g)
  BY <1>2, <1>4 DEF CancelGeneration, CancelBeforeGeneration
<1>5. CASE Start
  BY <1>5 DEF Start, ClearTables, Waiting, Worker, AtWorker, InReady
<1>6. CASE WorkerGet \/ WorkerCloseKey
  BY <1>6 DEF WorkerGet, WorkerCloseKey, Waiting, Dead, Worker, AtWorker, InReady
<1>7. CASE WorkerTake
  BY <1>7 DEF WorkerTake, Waiting, Worker, AtWorker, InReady, ServiceTypeOK
<1>8. CASE WorkerFailed
  <2>1. worker \in WorkerState
    BY DEF ServiceTypeOK
  <2>2. AtWorker(k)' => AtWorker(k)
    BY <1>8, <2>1 DEF WorkerFailed, Waiting, Worker, AtWorker, WorkerState
  <2>3. QED  BY <1>8, <2>2 DEF WorkerFailed, InReady
<1>9. ASSUME NEW d \in Digests, WorkerBuilt(d) PROVE Goal
  <2> DEFINE result == [key |-> worker.key, token |-> worker.task, digest |-> d]
  <2>1. ~AtWorker(k)' /\ (ready' = ready \/ ready' = Append(ready, result)) /\ worker.at = "build"
    BY <1>9 DEF WorkerBuilt, Waiting, Worker, AtWorker
  <2>2. ready \in Seq(Result)
    BY DEF ServiceTypeOK
  <2>3. \A i \in DOMAIN ready' : (i \in DOMAIN ready /\ ready'[i] = ready[i]) \/ ready'[i] = result
    BY <2>1, <2>2
  <2>4. QED  BY <2>1, <2>3 DEF InReady, AtWorker
<1>10. QED
  BY <1>3, <1>4, <1>5, <1>6, <1>7, <1>8, <1>9 DEF ServiceCall, WorkerStep

\* Only the submit of a key reached now gives it a task; no other step adds one.
LEMMA WaitingMoves ==
  ASSUME RuntimeInv, PlaceInv, Next, NEW k \in Key
  PROVE  pending'[k] # NoItem => pending[k] # NoItem \/ (~Touched(k) /\ Reached(k)')
<1>1. CASE UNCHANGED serviceVars
  BY <1>1 DEF serviceVars
<1>2. CASE BeginForward \/ EndForward
  BY <1>1, <1>2
  DEF BeginForward, EndForward, CancelBeforeGeneration, CancelGeneration, WithoutKeys
<1>3. CASE Pump \/ EnsureStarted \/ CloseService \/ CloseClears
  BY <1>3
  DEF Pump, PumpFrom, EnsureStarted, Start, CloseService, RaiseStop, CloseClears, ClearAndPoison,
      ClearTables
<1>4. CASE Poll
  BY <1>1, <1>4 DEF Poll, PollWithoutEffect, PollReady, PollTerminal, CancelSlot
<1>5. CASE SubmitNext
  <2> PICK j \in Key : j = KeyOf(position + 1)
    BY <1>5 DEF SubmitNext
  <2>1. /\ Submit(j) /\ driver = "plan" /\ driver' = "prepare"
        /\ UNCHANGED <<epoch, position>>
    BY <1>5 DEF SubmitNext, Goto
  <2>2. ~Reached(j) /\ Reached(j)'
    BY <2>1 DEF Reached, KeyOf, RuntimeInv, DriverTypeOK
  <2>3. ~Touched(j)
    BY <2>1, <2>2 DEF PlaceInv, KeysAreReached
  <2>4. k # j => pending'[k] = pending[k]
    BY <2>1 DEF Submit, SubmitToQueue, RuntimeInv, ServiceTypeOK
  <2>5. QED  BY <2>2, <2>3, <2>4
<1>6. CASE WorkerStep
  BY <1>6
  DEF WorkerStep, WorkerGet, WorkerTake, WorkerFailed, WorkerBuilt, WorkerCloseKey,
      RuntimeInv, ServiceTypeOK, WorkerState
<1>7. CASE \/ BeginForwardCleanup \/ EndForwardCleanup \/ NothingToSubmit
           \/ NoPreparedPlan \/ PeekPrepared \/ ClaimPrepared \/ RejectPrepared
           \/ BindPrepared \/ StartPrepared \/ Materialized \/ MaterializationFails
           \/ ExecutionFails \/ Dispatched \/ CombinePrepared \/ CombineNotMaterialized
           \/ CompleteLayer \/ CloseUnused \/ CloseJoined \/ CloseTimesOut
  BY <1>1, <1>7
  DEF BeginForwardCleanup, EndForwardCleanup, NothingToSubmit, NoPreparedPlan, PeekPrepared,
      ClaimPrepared, RejectPrepared, BindPrepared, StartPrepared, Materialized,
      MaterializationFails, ExecutionFails, Dispatched, CombinePrepared,
      CombineNotMaterialized, CompleteLayer, CloseUnused, CloseJoined, CloseTimesOut, StoreStep
<1>8. QED  BY <1>2, <1>3, <1>4, <1>5, <1>6, <1>7 DEF Next, DriverStep

\* A pump makes a ready result the candidate of its key; the poll shows what the
\* submit opened.
LEMMA SlotsMove ==
  ASSUME RuntimeInv, Next, NEW k \in Key
  PROVE  /\ candidates'[k] # NoItem => candidates[k] # NoItem \/ (InReady(k) /\ ~InReady(k)')
         /\ view'[k] # "none" => view[k] # "none" \/ Reached(k)'
<1> DEFINE Goal == /\ candidates'[k] # NoItem => candidates[k] # NoItem \/ (InReady(k) /\ ~InReady(k)')
                   /\ view'[k] # "none" => view[k] # "none" \/ Reached(k)'
<1>1. DriverTypeOK
  BY DEF RuntimeInv
<1>2. CASE UNCHANGED <<candidates, view>>
  BY <1>2
<1>3. CASE BeginForward \/ EndForward \/ CloseJoined
  BY <1>3 DEF BeginForward, EndForward, CloseJoined, ForgetSlots
<1>4. CASE Pump
  <2> DEFINE of == {i \in DOMAIN ready : ready[i].key = k /\ Presentable(ready[i])}
  <2>1. of = {} => candidates'[k] = candidates[k]
    BY <1>4 DEF Pump, PumpFrom
  <2>2. of # {} => InReady(k)
    BY DEF InReady
  <2>3. ~InReady(k)' /\ view' = view
    BY <1>4 DEF Pump, PumpFrom, InReady
  <2>4. QED  BY <2>1, <2>2, <2>3
<1>5. CASE Poll
  <2>1. candidates'[k] # NoItem => candidates[k] # NoItem
    BY <1>1, <1>5 DEF Poll, PollWithoutEffect, PollReady, PollTerminal, DriverTypeOK
  <2>2. view'[k] # "none" => view[k] # "none"
    BY <1>1, <1>5 DEF Poll, PollWithoutEffect, PollReady, PollTerminal, PollIsOpen, DriverTypeOK
  <2>3. QED  BY <2>1, <2>2
<1>6. CASE SubmitNext
  <2>1. candidates' = candidates
    BY <1>6 DEF SubmitNext
  <2>2. k # KeyOf(position + 1) => view'[k] = view[k]
    BY <1>1, <1>6 DEF SubmitNext, DriverTypeOK
  <2>3. k = KeyOf(position + 1) => Reached(k)'
    BY <1>1, <1>6 DEF SubmitNext, Goto, Reached, KeyOf, DriverTypeOK
  <2>4. QED  BY <2>1, <2>2, <2>3
<1>7. CASE \/ BeginForwardCleanup \/ EndForwardCleanup \/ EnsureStarted \/ NothingToSubmit
           \/ NoPreparedPlan \/ PeekPrepared \/ ClaimPrepared \/ RejectPrepared
           \/ BindPrepared \/ StartPrepared \/ Materialized \/ MaterializationFails
           \/ ExecutionFails \/ Dispatched \/ CombinePrepared \/ CombineNotMaterialized
           \/ CompleteLayer
           \/ CloseUnused \/ CloseService \/ CloseClears \/ CloseTimesOut
           \/ UNCHANGED driverVars
  BY <1>2, <1>7
  DEF BeginForwardCleanup, EndForwardCleanup, EnsureStarted, NothingToSubmit, NoPreparedPlan,
      PeekPrepared, ClaimPrepared, RejectPrepared, BindPrepared, StartPrepared, Materialized,
      MaterializationFails, ExecutionFails, Dispatched, CombinePrepared, CombineNotMaterialized,
      CompleteLayer, CloseUnused, CloseService, CloseClears, CloseTimesOut, StoreStep, driverVars
<1>8. QED  BY <1>3, <1>4, <1>5, <1>6, <1>7 DEF Next, DriverStep

\* A task of a key is in one place, and only keys the hooks have reached have one.
LEMMA NextKeepsPlaces ==
  ASSUME RuntimeInv, PlaceInv, Next
  PROVE  PlaceInv'
<1>1. ServiceTypeOK /\ ServiceCall
  BY NextCallsService DEF RuntimeInv
<1>2. ASSUME NEW k \in Key PROVE TaskMovesOn(k)
  BY <1>1, StoreMoves, CallMovesTask, WaitingMoves, SlotsMove DEF TaskMovesOn
<1>3. ASSUME NEW k \in Key, Touched(k)' PROVE Reached(k)'
  <2>1. Reached(k) \/ Touched(k) => Reached(k)'
    BY NextStaysReached DEF StaysReached, PlaceInv, KeysAreReached
  <2>2. Touched(k) \/ Reached(k) \/ Reached(k)'
    BY <1>1, <1>3, StoreMoves, CallMovesTask, WaitingMoves, SlotsMove DEF Touched, Holds
  <2>3. QED  BY <2>1, <2>2
<1>4. QED  BY <1>2, <1>3, MovingKeepsOnePlace DEF PlaceInv, KeysAreReached

-----------------------------------------------------------------------------
\* What begin_forward, end_forward and close leave behind

FloorIsOfForward == floor[Stream] <= epoch

CloseIsFlagged == driver \in {"closing", "joining"} => closed

\* A task waits only during its own forward.
WaitingIsOfForward ==
  \A k \in Key : pending[k] # NoItem =>
    /\ Created
    /\ ~closed => driver \in InForward /\ k.generation = epoch

SlotsAreForgotten == driver = "beginning" => \A k \in Key : view[k] = "none"

ForwardInv == FloorIsOfForward /\ CloseIsFlagged /\ WaitingIsOfForward /\ SlotsAreForgotten

\* cleanup_before_generation is called with the forward that begins.
LEMMA NextKeepsFloor ==
  ASSUME RuntimeInv, PlaceInv, FloorIsOfForward, Next
  PROVE  FloorIsOfForward'
<1>1. RuntimeCall
  BY NextCallsStore
<1>2. epoch \in Nat /\ floor \in [Streams -> Nat] /\ Stream \in Streams
  BY StreamType DEF RuntimeInv, DriverTypeOK, StoreInv, StoreTypeOK
<1>3. epoch' = epoch \/ epoch' = epoch + 1
  BY DEF Next, DriverStep, BeginForward, BeginForwardCleanup, EndForward, EndForwardCleanup, Pump,
         PumpFrom, Poll, PollWithoutEffect, PollReady, PollTerminal, EnsureStarted, SubmitNext,
         NothingToSubmit, NoPreparedPlan, PeekPrepared, ClaimPrepared, RejectPrepared, BindPrepared,
         StartPrepared, Materialized, MaterializationFails, ExecutionFails, Dispatched,
         CombinePrepared, CombineNotMaterialized, CompleteLayer, CloseUnused, CloseService,
         CloseClears, CloseJoined, CloseTimesOut, StoreStep, driverVars
<1>4. floor' \in {floor, [floor EXCEPT ![Stream] = epoch]}
  BY <1>1
  DEF RuntimeCall, RegisterExpectedPublication, PublishIfCurrent, ClearExpectedPublication, Claim,
      Bind, StartExecution, Advance, Complete, Finalize, CloseKeyIfUnclaimed, storeVars
<1>5. QED  BY <1>2, <1>3, <1>4 DEF FloorIsOfForward

\* Only start lowers the flag of a closed service, and the close callback raises it.
LEMMA NextKeepsFlag ==
  ASSUME RuntimeInv, CloseIsFlagged, Next
  PROVE  CloseIsFlagged'
<1>1. CASE CloseService \/ CloseClears \/ CloseJoined \/ CloseTimesOut \/ CloseUnused
  BY <1>1 DEF CloseService, RaiseStop, CloseClears, ClearAndPoison, CloseJoined, CloseTimesOut,
              CloseUnused, Goto, CloseIsFlagged
<1>2. CASE WorkerStep /\ UNCHANGED driverVars
  BY <1>2 DEF WorkerStep, WorkerGet, WorkerTake, WorkerFailed, WorkerBuilt, WorkerCloseKey,
              driverVars, CloseIsFlagged
<1>3. CASE \/ BeginForward \/ BeginForwardCleanup \/ EndForward \/ EndForwardCleanup
           \/ Pump \/ Poll \/ EnsureStarted \/ SubmitNext \/ NothingToSubmit
           \/ NoPreparedPlan \/ PeekPrepared \/ ClaimPrepared \/ RejectPrepared
           \/ BindPrepared \/ StartPrepared \/ Materialized \/ MaterializationFails
           \/ ExecutionFails \/ Dispatched \/ CombinePrepared \/ CombineNotMaterialized
           \/ CompleteLayer
  BY <1>3
  DEF BeginForward, BeginForwardCleanup, EndForward, EndForwardCleanup, Pump, PumpFrom, Poll,
      PollWithoutEffect, PollReady, PollTerminal, AfterPoll, EnsureStarted, SubmitNext,
      NothingToSubmit, NoPreparedPlan, PeekPrepared, ClaimPrepared, RejectPrepared, BindPrepared,
      StartPrepared, Materialized, MaterializationFails, ExecutionFails, Dispatched,
      CombinePrepared, CombineNotMaterialized, CompleteLayer, driverVars, Goto, CloseIsFlagged
<1>4. QED  BY <1>1, <1>2, <1>3 DEF Next, DriverStep

\* The cancellations of begin_forward and end_forward take the waiting tasks out.
LEMMA NextKeepsWaiting ==
  ASSUME RuntimeInv, PlaceInv, CloseIsFlagged, WaitingIsOfForward, Next
  PROVE  WaitingIsOfForward'
<1>1. SUFFICES ASSUME NEW k \in Key, pending'[k] # NoItem
               PROVE  Created' /\ (~closed' => driver' \in InForward /\ k.generation = epoch')
  BY DEF WaitingIsOfForward
<1>2. pending[k] # NoItem => Created /\ (~closed => driver \in InForward /\ k.generation = epoch)
  BY DEF WaitingIsOfForward
<1>3. "outside" \notin InForward /\ "beginning" \notin InForward /\ "ending" \notin InForward
      /\ "closing" \notin InForward /\ "joining" \notin InForward
  BY DEF InForward, DispatchAt, CombineAt
<1>4. CASE BeginForward
  <2>1. pending[k] # NoItem /\ closed' = closed /\ session' = session
    BY <1>1, <1>4 DEF BeginForward, CancelBeforeGeneration, WithoutKeys, serviceVars
  <2>2. QED  BY <1>2, <1>3, <1>4, <2>1 DEF BeginForward, Goto, Created
<1>5. CASE BeginForwardCleanup \/ EndForwardCleanup
  BY <1>1, <1>2, <1>3, <1>5 DEF BeginForwardCleanup, EndForwardCleanup, serviceVars, Goto, Created
<1>6. CASE EndForward
  <2>1. CASE ~Created
    BY <1>1, <1>2, <1>6, <2>1 DEF EndForward, serviceVars
  <2>2. CASE Created
    <3>1. CancelGeneration(Stream, epoch)
      BY <1>6, <2>2 DEF EndForward
    <3>2. /\ pending[k] # NoItem /\ Generation(k) # <<Stream, epoch>>
          /\ closed' = closed /\ session' = session
      BY <1>1, <3>1 DEF CancelGeneration, WithoutKeys
    <3>3. k.stream = Stream
      BY KeyNumbers
    <3>4. k.generation # epoch
      BY <3>2, <3>3 DEF Generation
    <3>5. QED  BY <1>2, <2>2, <3>2, <3>4 DEF Created
  <2>3. QED  BY <2>1, <2>2
<1>7. CASE SubmitNext
  <2>1. /\ driver \in InForward /\ driver' \in InForward /\ Created /\ Created'
        /\ UNCHANGED <<epoch, closed>>
    BY <1>7 DEF SubmitNext, Submit, SubmitToQueue, Goto, Created, InForward, DispatchAt
  <2>2. k # KeyOf(position + 1) => pending'[k] = pending[k]
    BY <1>7 DEF SubmitNext, Submit, SubmitToQueue, RuntimeInv, ServiceTypeOK
  <2>3. KeyOf(position + 1).generation = epoch
    BY DEF KeyOf
  <2>4. QED  BY <1>1, <1>2, <2>1, <2>2, <2>3
<1>8. CASE EnsureStarted \/ CloseClears
  BY <1>1, <1>8 DEF EnsureStarted, CloseClears, Start, ClearAndPoison, ClearTables
<1>9. CASE CloseUnused \/ CloseService \/ CloseJoined \/ CloseTimesOut
  BY <1>1, <1>2, <1>3, <1>9
  DEF CloseUnused, CloseService, RaiseStop, CloseJoined, CloseTimesOut, CloseIsFlagged, serviceVars,
      Created, Goto
<1>10. ASSUME pending[k] # NoItem, UNCHANGED <<epoch, closed, session>>,
              driver \in InForward => driver' \in InForward
       PROVE  Created' /\ (~closed' => driver' \in InForward /\ k.generation = epoch')
  BY <1>2, <1>10 DEF Created
<1>11. CASE WorkerStep /\ UNCHANGED driverVars
  <2>1. pending[k] # NoItem
    BY <1>1, <1>11 DEF WorkerStep, WorkerGet, WorkerTake, WorkerFailed, WorkerBuilt, WorkerCloseKey,
                RuntimeInv, ServiceTypeOK, WorkerState
  <2>2. UNCHANGED <<epoch, closed, session, driver>>
    BY <1>11 DEF WorkerStep, WorkerGet, WorkerTake, WorkerFailed, WorkerBuilt, WorkerCloseKey, driverVars
  <2>3. QED  BY <1>10, <2>1, <2>2
<1>12. CASE Pump \/ Poll \/ NothingToSubmit
  <2>1. pending' = pending /\ UNCHANGED <<epoch, closed, session>>
    BY <1>12 DEF Pump, PumpFrom, Poll, PollWithoutEffect, PollReady, PollTerminal, CancelSlot,
                 NothingToSubmit, serviceVars
  <2>2. driver' \in InForward
    BY <1>12 DEF Pump, PumpFrom, Poll, PollWithoutEffect, PollReady, PollTerminal, AfterPoll,
                 NothingToSubmit, Goto, InForward, DispatchAt, CombineAt
  <2>3. QED  BY <1>1, <1>10, <2>1, <2>2
<1>13. CASE \/ NoPreparedPlan \/ PeekPrepared \/ ClaimPrepared \/ RejectPrepared
            \/ BindPrepared \/ StartPrepared \/ Materialized \/ MaterializationFails
            \/ ExecutionFails \/ Dispatched \/ CombinePrepared \/ CombineNotMaterialized
            \/ CompleteLayer
  <2>1. pending' = pending /\ UNCHANGED <<epoch, closed, session>>
    BY <1>13 DEF NoPreparedPlan, PeekPrepared, ClaimPrepared, RejectPrepared, BindPrepared,
      StartPrepared, Materialized, MaterializationFails, ExecutionFails, Dispatched,
      CombinePrepared, CombineNotMaterialized, CompleteLayer, StoreStep, serviceVars
  <2>2. driver' \in InForward
    BY <1>13 DEF NoPreparedPlan, PeekPrepared, ClaimPrepared, RejectPrepared, BindPrepared,
      StartPrepared, Materialized, MaterializationFails, ExecutionFails, Dispatched,
      CombinePrepared, CombineNotMaterialized, CompleteLayer, Goto, InForward, DispatchAt, CombineAt
  <2>3. QED  BY <1>1, <1>10, <2>1, <2>2
<1>14. QED
  BY <1>4, <1>5, <1>6, <1>7, <1>8, <1>9, <1>11, <1>12, <1>13 DEF Next, DriverStep

\* begin_forward forgets the slots of the forward before.
LEMMA NextKeepsForgotten ==
  ASSUME SlotsAreForgotten, Next
  PROVE  SlotsAreForgotten'
<1>1. CASE BeginForward
  BY <1>1 DEF BeginForward, ForgetSlots, SlotsAreForgotten
<1>2. driver' = "beginning" => BeginForward \/ UNCHANGED driverVars
  BY DEF Next, DriverStep, BeginForwardCleanup, EndForward, EndForwardCleanup, Pump, PumpFrom, Poll,
         PollWithoutEffect, PollReady, PollTerminal, AfterPoll, EnsureStarted, SubmitNext,
         NothingToSubmit, NoPreparedPlan, PeekPrepared, ClaimPrepared, RejectPrepared, BindPrepared,
         StartPrepared, Materialized, MaterializationFails, ExecutionFails, Dispatched,
         CombinePrepared, CombineNotMaterialized, CompleteLayer, CloseUnused, CloseService,
         CloseClears, CloseJoined, CloseTimesOut, Goto
<1>3. CASE UNCHANGED driverVars
  BY <1>3 DEF driverVars, SlotsAreForgotten
<1>4. QED  BY <1>1, <1>2, <1>3 DEF SlotsAreForgotten

\* Outside the clean-ups the token of a key goes only when a plan or a record comes,
\* or when the poll leaves its slot; and a plan goes only into a record.
LEMMA StoreKeepsKeyOpen ==
  ASSUME RuntimeInv, PlaceInv, RecordClosesKey, Next,
         driver \notin {"beginning", "ending", "joining"}, NEW k \in Key
  PROVE  /\ Live(k) => Live(k)' \/ terminal'[k] # NoItem
         /\ terminal[k] # NoItem => terminal'[k] # NoItem
         /\ \/ publishTokens'[k] = publishTokens[k]
            \/ ~Touched(k)
            \/ (Live(k)' \/ terminal'[k] # NoItem) /\ (terminal'[k] # NoItem \/ view'[k] # "expected")
<1> DEFINE Goal == /\ Live(k) => Live(k)' \/ terminal'[k] # NoItem
                   /\ terminal[k] # NoItem => terminal'[k] # NoItem
                   /\ \/ publishTokens'[k] = publishTokens[k]
                      \/ ~Touched(k)
                      \/ /\ Live(k)' \/ terminal'[k] # NoItem
                         /\ terminal'[k] # NoItem \/ view'[k] # "expected"
<1>1. RuntimeCall
  BY NextCallsStore
<1>2. StoreTypeOK /\ OneHolder
  BY DEF RuntimeInv, StoreInv
<1>3. \A d \in Digests \cup {NoItem}, f \in FinalState : Final(d, f) # NoItem
  BY StoreAssumption DEF Final, TerminalRecord
<1>4. CASE UNCHANGED storeVars
  BY <1>4 DEF storeVars, Live
<1>5. ASSUME NEW j \in Key, NEW t \in Token, RegisterExpectedPublication(j, t), ~Touched(j)
      PROVE  Goal
  BY <1>2, <1>5 DEF RegisterExpectedPublication, Live, StoreTypeOK
<1>6. ASSUME NEW j \in Key, NEW t \in Token, NEW d \in Digests, PublishIfCurrent(j, t, d),
             PublishStatus(j, t, d) \in {"PUBLISHED", "ALREADY_PUBLISHED_SAME"} => view'[j] = "published"
      PROVE  Goal
  <2> DEFINE status == PublishStatus(j, t, d)
             fresh == [digest |-> d, state |-> "LOGICAL_READY"]
  <2>1. /\ k # j \/ status \notin {"PUBLISHED", "ALREADY_PUBLISHED_SAME"}
             => publishTokens'[k] = publishTokens[k]
        /\ k # j \/ status # "PUBLISHED" => plans'[k] = plans[k]
        /\ k = j /\ status = "PUBLISHED" => plans'[k] = fresh
        /\ claimed' = claimed /\ terminal' = terminal
    BY <1>2, <1>6 DEF PublishIfCurrent, StoreTypeOK
  <2>2. fresh # NoItem
    BY StoreAssumption DEF StoredPlan, LiveState
  <2>3. status = "ALREADY_PUBLISHED_SAME" => Live(j)
    BY DEF PublishStatus
  <2>4. k = j /\ status = "PUBLISHED" => Live(k)'
    BY <2>1, <2>2 DEF Live
  <2>5. Live(k) => Live(k)'
    BY <2>1, <2>2 DEF Live
  <2> HIDE DEF status
  <2>6. QED  BY <1>6, <2>1, <2>3, <2>4, <2>5 DEF status
<1>7. ASSUME NEW j \in Key, ClearExpectedPublication(j),
             terminal[j] # NoItem \/ Live(j), view'[j] = "terminal"
      PROVE  Goal
  BY <1>2, <1>7 DEF ClearExpectedPublication, Live, StoreTypeOK
<1>8. ASSUME NEW j \in Key, Claim(j) \/ Bind(j) \/ StartExecution(j)
      PROVE  Goal
  <2>1. terminal' = terminal /\ publishTokens' = publishTokens
    BY <1>8 DEF Claim, Bind, StartExecution, Advance
  <2>2. Live(k) => Live(k)'
    <3>1. CASE Claim(j)
      <4>1. plans[j] \in StoredPlan /\ plans[j].state = "LOGICAL_READY"
        BY <1>2, <3>1 DEF Claim, StoreTypeOK, OneHolder
      <4>2. [plans[j] EXCEPT !.state = "CLAIMED"] \in StoredPlan
        BY <4>1 DEF StoredPlan, LiveState
      <4>3. QED  BY <1>2, <3>1, <4>1, <4>2, StoreAssumption DEF Claim, Live, StoreTypeOK
    <3>2. ASSUME NEW from, NEW to \in LiveState, Advance(j, from, to)
          PROVE  Live(k) => Live(k)'
      <4>1. claimed[j] \in StoredPlan
        BY <1>2, <3>2 DEF Advance, StoreTypeOK
      <4>2. [claimed[j] EXCEPT !.state = to] \in StoredPlan
        BY <4>1 DEF StoredPlan
      <4>3. QED  BY <1>2, <3>2, <4>2, StoreAssumption DEF Advance, Live, StoreTypeOK
    <3>3. QED  BY <1>8, <3>1, <3>2 DEF Bind, StartExecution, LiveState
  <2>3. QED  BY <2>1, <2>2
<1>9. ASSUME NEW j \in Key,
             \/ Complete(j) \/ Finalize(j, "FAILED")
             \/ \E f \in Endings \ {"COMPLETED"} : CloseKeyIfUnclaimed(j, f)
      PROVE  Goal
  <2>1. CASE k # j
    BY <1>2, <1>9, <2>1
    DEF Complete, Finalize, CloseKeyIfUnclaimed, storeVars, Live, StoreTypeOK
  <2>2. CASE k = j /\ Complete(j)
    <3>1. claimed[j].digest \in Digests /\ terminal'[j] = Final(claimed[j].digest, "COMPLETED")
      BY <1>2, <2>2 DEF Complete, StoreTypeOK, StoredPlan
    <3>2. QED  BY <1>3, <2>2, <3>1 DEF FinalState
  <2>3. CASE k = j /\ Finalize(j, "FAILED")
    <3>1. Item(j).digest \in Digests /\ terminal'[j] = Final(Item(j).digest, "FAILED")
      BY <1>2, <2>3 DEF Finalize, Finals, Item, Live, StoreTypeOK, StoredPlan
    <3>2. QED  BY <1>3, <2>3, <3>1 DEF FinalState
  <2>4. ASSUME NEW f \in Endings \ {"COMPLETED"}, k = j, CloseKeyIfUnclaimed(j, f)
        PROVE  Goal
    <3>1. CASE terminal[j] = NoItem /\ claimed[j] = NoItem
      <4> DEFINE d == IF plans[j] # NoItem THEN plans[j].digest ELSE NoItem
      <4>1. d \in Digests \cup {NoItem} /\ terminal'[j] = Final(d, f) /\ f \in FinalState
        BY <1>2, <2>4, <3>1 DEF CloseKeyIfUnclaimed, StoreTypeOK, StoredPlan, FinalState, Endings
      <4>2. QED  BY <1>3, <2>4, <4>1
    <3>2. CASE ~(terminal[j] = NoItem /\ claimed[j] = NoItem)
      BY <2>4, <3>2 DEF CloseKeyIfUnclaimed, storeVars, Live
    <3>3. QED  BY <3>1, <3>2
  <2>5. QED  BY <1>9, <2>1, <2>2, <2>3, <2>4
<1>10. QED
  BY <1>1, <1>4, <1>5, <1>6, <1>7, <1>8, <1>9 DEF RuntimeCall

\* The submit of the dispatch hook opens a slot for a task the store has registered:
\* the floor of the store is not above the forward that runs.
LEMMA SubmitOpensSlot ==
  ASSUME RuntimeInv, PlaceInv, FloorIsOfForward, SubmitNext, NEW k \in Key, k = KeyOf(position + 1)
  PROVE  /\ ~closed /\ pending'[k] # NoItem => publishTokens'[k] = pending'[k]
         /\ view'[k] = "expected" => publishTokens'[k] # NoItem
<1>1. Submit(k) /\ driver = "plan"
  BY DEF SubmitNext, Goto
<1>2. ~Touched(k)
  <2>1. ~Reached(k)
    BY <1>1 DEF Reached, KeyOf, RuntimeInv, DriverTypeOK
  <2>2. QED  BY <2>1 DEF PlaceInv, KeysAreReached
<1>3. pending[k] = NoItem
  BY <1>2 DEF Touched
<1>4. Registered(k)
  <2>1. k.stream = Stream /\ k.generation = epoch
    BY DEF KeyOf
  <2>2. floor[Stream] \in Nat /\ epoch \in Nat
    BY StreamType DEF RuntimeInv, DriverTypeOK, StoreInv, StoreTypeOK
  <2>3. QED  BY <2>1, <2>2 DEF Registered, Expired, FloorIsOfForward
<1>5. Task \in Token
  BY <1>1 DEF Submit, Task, Token, RuntimeInv, ServiceTypeOK
<1>6. publishTokens \in [Key -> Token \cup {NoItem}] /\ pending \in [Key -> Token \cup {NoItem}]
      /\ view \in [Key -> SlotView]
  BY DEF RuntimeInv, StoreInv, StoreTypeOK, ServiceTypeOK, DriverTypeOK
<1>7. SubmitStatus(k) \in {"REJECTED_CLOSED", "REJECTED_EXPIRED", "DROPPED_OVERLOAD",
                            "REPLACED_STALE", "ACCEPTED"}
  BY <1>4 DEF SubmitStatus
<1>8. CASE SubmitStatus(k) \in {"REPLACED_STALE", "ACCEPTED"}
  <2>1. publishTokens'[k] = Task
    BY <1>1, <1>4, <1>6, <1>8 DEF Submit, RegisterExpectedPublication
  <2>2. pending'[k] = Task
    BY <1>1, <1>6, <1>8 DEF Submit, SubmitToQueue
  <2>3. QED  BY <1>5, <2>1, <2>2, StoreAssumption
<1>9. CASE SubmitStatus(k) \in {"REJECTED_CLOSED", "REJECTED_EXPIRED", "DROPPED_OVERLOAD"}
  <2>1. pending'[k] = NoItem
    BY <1>1, <1>3, <1>9 DEF Submit, SubmitToQueue
  <2>2. view'[k] = "terminal"
    BY <1>6, <1>9 DEF SubmitNext
  <2>3. QED  BY <2>1, <2>2
<1>10. QED  BY <1>7, <1>8, <1>9

\* What becomes of a waiting task in a step that is no submit of its key
LEMMA WaitingStays ==
  ASSUME RuntimeInv, Next, NEW k \in Key, ~SubmitNext \/ k # KeyOf(position + 1), pending'[k] # NoItem
  PROVE  (pending'[k] = pending[k] /\ closed' = closed) \/ closed'
<1>1. CASE UNCHANGED serviceVars
  BY <1>1 DEF serviceVars
<1>2. CASE BeginForward \/ EndForward
  BY <1>1, <1>2
  DEF BeginForward, EndForward, CancelBeforeGeneration, CancelGeneration, WithoutKeys
<1>3. CASE Pump \/ EnsureStarted \/ CloseService \/ CloseClears
  BY <1>3
  DEF Pump, PumpFrom, EnsureStarted, Start, CloseService, RaiseStop, CloseClears, ClearAndPoison,
      ClearTables
<1>4. CASE Poll
  BY <1>1, <1>4 DEF Poll, PollWithoutEffect, PollReady, PollTerminal, CancelSlot
<1>5. CASE SubmitNext
  BY <1>5 DEF SubmitNext, Submit, SubmitToQueue, RuntimeInv, ServiceTypeOK
<1>6. CASE WorkerStep
  BY <1>6
  DEF WorkerStep, WorkerGet, WorkerTake, WorkerFailed, WorkerBuilt, WorkerCloseKey,
      RuntimeInv, ServiceTypeOK, WorkerState
<1>7. CASE \/ BeginForwardCleanup \/ EndForwardCleanup \/ NothingToSubmit
           \/ NoPreparedPlan \/ PeekPrepared \/ ClaimPrepared \/ RejectPrepared
           \/ BindPrepared \/ StartPrepared \/ Materialized \/ MaterializationFails
           \/ ExecutionFails \/ Dispatched \/ CombinePrepared \/ CombineNotMaterialized
           \/ CompleteLayer \/ CloseUnused \/ CloseJoined \/ CloseTimesOut
  BY <1>1, <1>7
  DEF BeginForwardCleanup, EndForwardCleanup, NothingToSubmit, NoPreparedPlan, PeekPrepared,
      ClaimPrepared, RejectPrepared, BindPrepared, StartPrepared, Materialized,
      MaterializationFails, ExecutionFails, Dispatched, CombinePrepared,
      CombineNotMaterialized, CompleteLayer, CloseUnused, CloseJoined, CloseTimesOut, StoreStep
<1>8. QED  BY <1>2, <1>3, <1>4, <1>5, <1>6, <1>7 DEF Next, DriverStep

\* A task that waits keeps its right to publish until a plan or a record comes.
LEMMA NextKeepsRight ==
  ASSUME RuntimeInv, PlaceInv, RecordClosesKey, ForwardInv, WaitingTaskMayPublish, Next
  PROVE  WaitingTaskMayPublish'
<1> SUFFICES ASSUME NEW k \in Key, ~closed', pending'[k] # NoItem
             PROVE  publishTokens'[k] = pending'[k] \/ Live(k)' \/ terminal'[k] # NoItem
  BY DEF WaitingTaskMayPublish
<1>1. CASE SubmitNext /\ k = KeyOf(position + 1)
  <2>1. closed' = closed
    BY <1>1 DEF SubmitNext, Submit, SubmitToQueue
  <2>2. QED  BY <1>1, <2>1, SubmitOpensSlot DEF ForwardInv
<1>2. CASE ~(SubmitNext /\ k = KeyOf(position + 1))
  <2>1. pending'[k] = pending[k] /\ ~closed
    BY <1>2, WaitingStays DEF RuntimeInv, ServiceTypeOK
  <2>2. driver \notin {"beginning", "ending", "joining"}
    BY <2>1 DEF ForwardInv, WaitingIsOfForward, InForward, DispatchAt, CombineAt
  <2>3. Touched(k)
    BY <2>1 DEF Touched
  <2>4. QED  BY <2>1, <2>2, <2>3, StoreKeepsKeyOpen DEF WaitingTaskMayPublish
<1>3. QED  BY <1>1, <1>2

\* A slot is opened by the submit alone.
LEMMA OpenSlotStays ==
  ASSUME RuntimeInv, Next, NEW k \in Key, ~SubmitNext \/ k # KeyOf(position + 1), view'[k] = "expected"
  PROVE  view[k] = "expected"
<1>1. CASE UNCHANGED view
  BY <1>1
<1>2. CASE BeginForward \/ EndForward \/ CloseJoined
  BY <1>2 DEF BeginForward, EndForward, CloseJoined, ForgetSlots
<1>3. CASE Poll \/ SubmitNext
  BY <1>3
  DEF Poll, PollWithoutEffect, PollReady, PollTerminal, PollIsOpen, SubmitNext, RuntimeInv, DriverTypeOK
<1>4. CASE \/ BeginForwardCleanup \/ EndForwardCleanup \/ Pump \/ EnsureStarted \/ NothingToSubmit
           \/ NoPreparedPlan \/ PeekPrepared \/ ClaimPrepared \/ RejectPrepared
           \/ BindPrepared \/ StartPrepared \/ Materialized \/ MaterializationFails
           \/ ExecutionFails \/ Dispatched \/ CombinePrepared \/ CombineNotMaterialized
           \/ CompleteLayer
           \/ CloseUnused \/ CloseService \/ CloseClears \/ CloseTimesOut
           \/ UNCHANGED driverVars
  BY <1>1, <1>4
  DEF BeginForwardCleanup, EndForwardCleanup, Pump, PumpFrom, EnsureStarted, NothingToSubmit,
      NoPreparedPlan, PeekPrepared, ClaimPrepared, RejectPrepared, BindPrepared, StartPrepared, Materialized,
      MaterializationFails, ExecutionFails, Dispatched, CombinePrepared, CombineNotMaterialized,
      CompleteLayer, CloseUnused, CloseService, CloseClears, CloseTimesOut, StoreStep, driverVars
<1>5. QED  BY <1>2, <1>3, <1>4 DEF Next, DriverStep

\* The slot a rank announces as building keeps its token until its record.
LEMMA NextKeepsSlotsOpen ==
  ASSUME RuntimeInv, PlaceInv, RecordClosesKey, ForwardInv, OpenSlotIsPublishable, Next
  PROVE  OpenSlotIsPublishable'
<1> SUFFICES ASSUME NEW k \in Key, driver' \in InForward, view'[k] = "expected"
             PROVE  publishTokens'[k] # NoItem \/ terminal'[k] # NoItem
  BY DEF OpenSlotIsPublishable
<1>1. CASE SubmitNext /\ k = KeyOf(position + 1)
  BY <1>1, SubmitOpensSlot DEF ForwardInv
<1>2. CASE ~(SubmitNext /\ k = KeyOf(position + 1))
  <2>1. view[k] = "expected"
    BY <1>2, OpenSlotStays
  <2>2. driver # "beginning"
    BY <2>1 DEF ForwardInv, SlotsAreForgotten
  <2>3. driver \in InForward
    BY <2>2
    DEF Next, DriverStep, BeginForward, BeginForwardCleanup, EndForward, EndForwardCleanup, Pump,
        PumpFrom, Poll, PollWithoutEffect, PollReady, PollTerminal, AfterPoll, EnsureStarted,
        SubmitNext, NothingToSubmit, NoPreparedPlan, PeekPrepared, ClaimPrepared, RejectPrepared,
        BindPrepared, StartPrepared, Materialized, MaterializationFails, ExecutionFails, Dispatched,
        CombinePrepared, CombineNotMaterialized, CompleteLayer, CloseUnused, CloseService,
        CloseClears, CloseJoined, CloseTimesOut, Goto, driverVars, InForward, DispatchAt, CombineAt
  <2>4. driver \notin {"beginning", "ending", "joining"}
    BY <2>3 DEF InForward, DispatchAt, CombineAt
  <2>5. Touched(k)
    BY <2>1 DEF Touched
  <2>6. QED  BY <2>1, <2>3, <2>4, <2>5, StoreKeepsKeyOpen DEF OpenSlotIsPublishable
<1>3. QED  BY <1>1, <1>2

-----------------------------------------------------------------------------
\* Each hook finds the plan of its layer as the hook before has left it.

InState(k, state) == claimed[k] # NoItem /\ claimed[k].state = state

AsTheHookLeftIt(k) ==
  /\ driver \in {"dispatch", "poll", "plan", "prepare", "peeked"} => claimed[k] = NoItem
  /\ driver = "peeked"  => plans[k] # NoItem
  /\ driver = "claimed" => InState(k, "CLAIMED")
  /\ driver = "bound"   => InState(k, "BOUND")
  /\ driver = "started" => InState(k, "EXECUTING")
  /\ driver \in {"execute"} \cup CombineAt => ~Live(k) \/ InState(k, "EXECUTING")

PlanFollowsHook == \A k \in Key : k = This => AsTheHookLeftIt(k)

\* Only the hooks of this layer touch its plan once they have peeked it: the
\* worker has no task of the key any more, and the polls are of other keys or over.
LEMMA OthersLeavePlan ==
  ASSUME RuntimeInv, PlaceInv, PlanFollowsHook, This' = This, driver' = driver,
         UNCHANGED storeVars \/ WorkerStep
  PROVE  PlanFollowsHook'
<1>1. CASE UNCHANGED storeVars
  BY <1>1 DEF PlanFollowsHook, AsTheHookLeftIt, InState, Live, storeVars
<1>2. CASE WorkerCloseKey
  <2> DEFINE j == worker.key
  <2>1. j \in Key /\ AtWorker(j) /\ CloseKeyIfUnclaimed(j, "FAILED")
    BY <1>2 DEF WorkerCloseKey, AtWorker, RuntimeInv, ServiceTypeOK, WorkerState
  <2>2. ~Live(j)
    BY <2>1 DEF PlaceInv, TaskHasOnePlace
  <2>3. claimed' = claimed /\ \A k \in Key : plans'[k] = plans[k]
    BY <2>1, <2>2 DEF CloseKeyIfUnclaimed, storeVars, Live, RuntimeInv, StoreInv, StoreTypeOK
  <2>4. QED  BY <2>3 DEF PlanFollowsHook, AsTheHookLeftIt, InState, Live
<1>3. QED  BY <1>1, <1>2 DEF WorkerStep

\* The poll before the plan hook precedes the claim, the one after compute polls the
\* next layer's slot.
LEMMA PollsLeavePlan ==
  ASSUME RuntimeInv, PlanFollowsHook, Poll
  PROVE  PlanFollowsHook'
<1>1. /\ This' = This
      /\ \/ driver = "poll" /\ driver' = "plan"
         \/ driver = "pollnext" /\ driver' = "complete"
  <2>1. AfterPoll /\ position' = position /\ epoch' = epoch
    BY DEF Poll, PollWithoutEffect, PollReady, PollTerminal
  <2>2. QED  BY <2>1 DEF AfterPoll, Goto, This, KeyOf
<1>2. claimed' = claimed
  BY DEF Poll, PollWithoutEffect, PollReady, PublishIfCurrent, PollTerminal, storeVars
<1>3. ASSUME NEW k \in Key, k = This, driver = "pollnext" PROVE plans'[k] = plans[k]
  <2>1. PolledKey # k
    BY <1>3 DEF PolledKey, This, KeyOf, RuntimeInv, DriverTypeOK
  <2>2. QED
    BY <2>1 DEF Poll, PollWithoutEffect, PollReady, PublishIfCurrent, PollTerminal, storeVars,
                RuntimeInv, StoreInv, StoreTypeOK
<1>4. QED  BY <1>1, <1>2, <1>3 DEF PlanFollowsHook, AsTheHookLeftIt, InState, Live, CombineAt

\* Each hook moves the plan of its layer to the state the next hook expects.
LEMMA HooksMovePlan ==
  ASSUME RuntimeInv, PlanFollowsHook,
         \/ NoPreparedPlan \/ PeekPrepared \/ ClaimPrepared \/ RejectPrepared
         \/ BindPrepared \/ StartPrepared \/ Materialized \/ MaterializationFails
         \/ ExecutionFails \/ Dispatched \/ CombinePrepared \/ CombineNotMaterialized
  PROVE  PlanFollowsHook'
<1> USE DEF Goto, StoreStep
<1>1. This' = This
  BY DEF NoPreparedPlan, PeekPrepared, ClaimPrepared, RejectPrepared, BindPrepared, StartPrepared,
         Materialized, MaterializationFails, ExecutionFails, Dispatched, CombinePrepared,
         CombineNotMaterialized, This, KeyOf
<1>2. SUFFICES ASSUME NEW k \in Key, k = This, AsTheHookLeftIt(k) PROVE AsTheHookLeftIt(k)'
  BY <1>1 DEF PlanFollowsHook
<1>3. StoreTypeOK /\ (plans[k] # NoItem => claimed[k] = NoItem /\ plans[k].state = "LOGICAL_READY")
  BY <1>2 DEF RuntimeInv, StoreInv, OneHolder
<1>4. CASE NoPreparedPlan
  <2>1. plans[k] = NoItem
    BY <1>2, <1>3, <1>4, StoreAssumption DEF NoPreparedPlan, Peek, StoreTypeOK, StoredPlan
  <2>2. QED  BY <1>2, <1>4, <2>1 DEF NoPreparedPlan, AsTheHookLeftIt, Live, storeVars, CombineAt
<1>5. CASE PeekPrepared
  BY <1>2, <1>5 DEF PeekPrepared, Peek, AsTheHookLeftIt, storeVars, CombineAt
<1>6. CASE ClaimPrepared
  <2> DEFINE taken == [plans[k] EXCEPT !.state = "CLAIMED"]
  <2>1. Claim(k) /\ driver' = "claimed" /\ plans[k] \in StoredPlan
    BY <1>2, <1>3, <1>6 DEF ClaimPrepared, Claim, StoreTypeOK
  <2>2. taken \in StoredPlan /\ taken.state = "CLAIMED" /\ taken # NoItem
    BY <2>1, StoreAssumption DEF StoredPlan, LiveState
  <2>3. claimed'[k] = taken
    BY <1>2, <1>3, <2>1 DEF Claim, StoreTypeOK
  <2> HIDE DEF taken
  <2>4. QED  BY <2>1, <2>2, <2>3 DEF AsTheHookLeftIt, InState, CombineAt
<1>7. ASSUME NEW from, NEW to \in {"BOUND", "EXECUTING"}, Advance(k, from, to)
      PROVE  InState(k, to)'
  <2> DEFINE moved == [claimed[k] EXCEPT !.state = to]
  <2>1. claimed[k] \in StoredPlan
    BY <1>2, <1>3, <1>7 DEF Advance, StoreTypeOK
  <2>2. moved \in StoredPlan /\ moved.state = to /\ moved # NoItem
    BY <2>1, StoreAssumption DEF StoredPlan, LiveState
  <2>3. claimed'[k] = moved
    BY <1>2, <1>3, <1>7 DEF Advance, StoreTypeOK
  <2> HIDE DEF moved
  <2>4. QED  BY <2>2, <2>3 DEF InState
<1>8. CASE BindPrepared
  <2>1. Advance(k, "CLAIMED", "BOUND") /\ driver' = "bound"
    BY <1>2, <1>8 DEF BindPrepared, Bind
  <2>2. QED  BY <1>7, <2>1 DEF AsTheHookLeftIt, CombineAt
<1>9. CASE StartPrepared
  <2>1. Advance(k, "BOUND", "EXECUTING") /\ driver' = "started"
    BY <1>2, <1>9 DEF StartPrepared, StartExecution
  <2>2. QED  BY <1>7, <2>1 DEF AsTheHookLeftIt, CombineAt
<1>10. CASE RejectPrepared \/ MaterializationFails
  <2>1. Finalize(k, "FAILED") /\ driver' = "execute"
    BY <1>2, <1>10 DEF RejectPrepared, MaterializationFails
  <2>2. ~Live(k)'
    BY <1>2, <1>3, <2>1 DEF Finalize, Live, StoreTypeOK
  <2>3. QED  BY <2>1, <2>2 DEF AsTheHookLeftIt, CombineAt
<1>11. CASE Materialized
  BY <1>2, <1>11 DEF Materialized, AsTheHookLeftIt, InState, storeVars, CombineAt
<1>12. CASE ExecutionFails
  BY <1>12 DEF ExecutionFails, AsTheHookLeftIt, CombineAt
<1>13. CASE Dispatched
  <2>1. driver = "execute" /\ driver' = "compute"
        /\ (UNCHANGED storeVars \/ CloseKeyIfUnclaimed(k, "EXPIRED"))
    BY <1>2, <1>13 DEF Dispatched
  <2>2. claimed' = claimed /\ (plans'[k] = plans[k] \/ plans'[k] = NoItem)
    BY <1>2, <1>3, <2>1 DEF CloseKeyIfUnclaimed, storeVars, StoreTypeOK
  <2>3. QED  BY <1>2, <2>1, <2>2 DEF AsTheHookLeftIt, InState, Live, CombineAt
<1>14. CASE CombinePrepared
  BY <1>2, <1>14 DEF CombinePrepared, AsTheHookLeftIt, InState, Live, storeVars, CombineAt
<1>15. CASE CombineNotMaterialized
  <2>1. driver' = "combined" /\ driver = "combine"
        /\ ((~Live(k) /\ UNCHANGED storeVars) \/ Finalize(k, "FAILED"))
    BY <1>2, <1>15 DEF CombineNotMaterialized, FailIfLive
  <2>2. ~Live(k)'
    BY <1>2, <1>3, <2>1 DEF Finalize, Live, StoreTypeOK, storeVars
  <2>3. QED  BY <2>1, <2>2 DEF AsTheHookLeftIt, CombineAt
<1>16. QED
  BY <1>4, <1>5, <1>6, <1>8, <1>9, <1>10, <1>11, <1>12, <1>13, <1>14, <1>15

\* A new layer begins without a claimed plan.
LEMMA LayersBeginClean ==
  ASSUME RuntimeInv, ForwardOwnsStore, BeginForwardCleanup \/ CompleteLayer
  PROVE  PlanFollowsHook'
<1>1. driver' \in {"dispatch", "leaving"}
  BY DEF BeginForwardCleanup, CompleteLayer, Goto
<1>2. ASSUME NEW k \in Key, k = This', driver' = "dispatch" PROVE claimed'[k] = NoItem
  <2>1. CASE BeginForwardCleanup
    <3>1. claimed[k] = NoItem
      BY <2>1 DEF BeginForwardCleanup, Goto, ForwardOwnsStore, Holds, Live
    <3>2. QED
      BY <2>1, <3>1 DEF BeginForwardCleanup, CleanupBeforeGeneration, CleanupMatching, storeVars
  <2>2. CASE CompleteLayer
    <3>1. driver \in InForward
      BY <2>2 DEF CompleteLayer, InForward, CombineAt
    <3>2. claimed'[k] # NoItem => claimed[k] # NoItem
      BY <2>2 DEF CompleteLayer, Complete, storeVars, RuntimeInv, StoreInv, StoreTypeOK
    <3>3. k.layer # position
      BY <1>2, <2>2 DEF CompleteLayer, This, KeyOf, RuntimeInv, DriverTypeOK
    <3>4. QED  BY <3>1, <3>2, <3>3 DEF ForwardOwnsStore
  <2>3. QED  BY <2>1, <2>2
<1>3. QED  BY <1>1, <1>2 DEF PlanFollowsHook, AsTheHookLeftIt, CombineAt

\* Whoever moves, the hooks find the plan of their layer as they left it.
LEMMA NextKeepsPlan ==
  ASSUME RuntimeInv, PlaceInv, ForwardOwnsStore, PlanFollowsHook, Next
  PROVE  PlanFollowsHook'
<1>1. CASE Poll
  BY <1>1, PollsLeavePlan
<1>2. CASE \/ NoPreparedPlan \/ PeekPrepared \/ ClaimPrepared \/ RejectPrepared
           \/ BindPrepared \/ StartPrepared \/ Materialized \/ MaterializationFails
           \/ ExecutionFails \/ Dispatched \/ CombinePrepared \/ CombineNotMaterialized
  BY <1>2, HooksMovePlan
<1>3. CASE BeginForwardCleanup \/ CompleteLayer
  BY <1>3, LayersBeginClean
<1>4. CASE EnsureStarted \/ (WorkerStep /\ UNCHANGED driverVars)
  <2>1. This' = This /\ driver' = driver
    BY <1>4 DEF EnsureStarted, driverVars, This, KeyOf
  <2>2. QED  BY <1>4, <2>1, OthersLeavePlan DEF EnsureStarted
<1>5. CASE Pump \/ SubmitNext \/ NothingToSubmit
  <2>1. /\ This' = This /\ claimed' = claimed /\ plans' = plans
        /\ \/ driver \in {"dispatch", "poll", "plan"} /\ driver' \in {"poll", "plan", "prepare"}
           \/ driver \in CombineAt /\ driver' \in CombineAt
    BY <1>5
    DEF Pump, PumpFrom, SubmitNext, Submit, RegisterExpectedPublication, NothingToSubmit, Goto,
        This, KeyOf, storeVars, CombineAt
  <2>2. QED  BY <2>1 DEF PlanFollowsHook, AsTheHookLeftIt, InState, Live, CombineAt
<1>6. CASE BeginForward \/ EndForward \/ EndForwardCleanup
           \/ CloseUnused \/ CloseService \/ CloseClears \/ CloseJoined \/ CloseTimesOut
  <2>1. driver' \in {"beginning", "ending", "outside", "closing", "joining", "closed"}
    BY <1>6 DEF BeginForward, EndForward, EndForwardCleanup, CloseUnused, CloseService, CloseClears,
                CloseJoined, CloseTimesOut, Goto
  <2>2. QED  BY <2>1 DEF PlanFollowsHook, AsTheHookLeftIt, CombineAt
<1>7. CASE DriverStep
  BY <1>1, <1>2, <1>3, <1>4, <1>5, <1>6, <1>7 DEF DriverStep
<1>8. QED  BY <1>4, <1>7 DEF Next

-----------------------------------------------------------------------------

\* The inductive invariant of the plan path of one rank
LifecycleInv ==
  /\ RuntimeInv
  /\ ForwardOwnsStore
  /\ PlaceInv
  /\ RecordClosesKey
  /\ ForwardInv
  /\ WaitingTaskMayPublish
  /\ OpenSlotIsPublishable
  /\ PlanFollowsHook

\* A stutter keeps it.
LEMMA StutterKeepsLifecycle ==
  ASSUME LifecycleInv, UNCHANGED vars
  PROVE  PlaceInv' /\ RecordClosesKey' /\ ForwardInv' /\ WaitingTaskMayPublish'
         /\ OpenSlotIsPublishable' /\ PlanFollowsHook'
<1> USE DEF vars, storeVars, serviceVars, driverVars, LifecycleInv
<1>1. PlaceInv'
  BY DEF PlaceInv, KeysAreReached, TaskHasOnePlace, Touched, Reached, Holds, Live, AtWorker, InReady
<1>2. RecordClosesKey'
  BY DEF RecordClosesKey, Holds, Live
<1>3. ForwardInv'
  BY DEF ForwardInv, FloorIsOfForward, CloseIsFlagged, WaitingIsOfForward, SlotsAreForgotten, Created
<1>4. WaitingTaskMayPublish' /\ OpenSlotIsPublishable'
  BY DEF WaitingTaskMayPublish, OpenSlotIsPublishable, Live
<1>5. PlanFollowsHook'
  BY DEF PlanFollowsHook, AsTheHookLeftIt, InState, Live, This, KeyOf
<1>6. QED  BY <1>1, <1>2, <1>3, <1>4, <1>5

\* Nothing is touched when the runtime is made.
LEMMA InitLifecycleInv == Init => LifecycleInv
<1> SUFFICES ASSUME Init PROVE LifecycleInv
  OBVIOUS
<1>1. RuntimeInv
  BY InitRuntimeInv
<1>2. ForwardOwnsStore
  BY DEF Init, StoreInit, ForwardOwnsStore, Holds, Live
<1>3. \A k \in Key : ~Touched(k) /\ ~Live(k)
  BY DEF Init, StoreInit, ServiceInit, Touched, Holds, Live, AtWorker, InReady, Dead, Worker
<1>4. PlaceInv /\ RecordClosesKey
  BY <1>3 DEF PlaceInv, KeysAreReached, TaskHasOnePlace, RecordClosesKey, Touched
<1>5. ForwardInv
  BY StreamType DEF Init, StoreInit, ServiceInit, ForwardInv, FloorIsOfForward, CloseIsFlagged,
                    WaitingIsOfForward, SlotsAreForgotten
<1>6. WaitingTaskMayPublish /\ OpenSlotIsPublishable
  BY DEF Init, ServiceInit, WaitingTaskMayPublish, OpenSlotIsPublishable
<1>7. PlanFollowsHook
  BY DEF Init, PlanFollowsHook, AsTheHookLeftIt, CombineAt
<1>8. QED  BY <1>1, <1>2, <1>4, <1>5, <1>6, <1>7 DEF LifecycleInv

\* And every step keeps it.
LEMMA NextKeepsLifecycle ==
  LifecycleInv /\ [Next]_vars /\ RuntimeInv' /\ ForwardOwnsStore' => LifecycleInv'
<1> SUFFICES ASSUME LifecycleInv, [Next]_vars, RuntimeInv', ForwardOwnsStore' PROVE LifecycleInv'
  OBVIOUS
<1>1. CASE UNCHANGED vars
  BY <1>1, StutterKeepsLifecycle DEF LifecycleInv
<1>2. CASE Next
  <2>1. PlaceInv'
    BY <1>2, NextKeepsPlaces DEF LifecycleInv
  <2>2. RecordClosesKey'
    BY <1>2, NextCallsStore, CallFollowsLifecycle DEF LifecycleInv, RuntimeInv
  <2>3. ForwardInv'
    BY <1>2, NextKeepsFloor, NextKeepsFlag, NextKeepsWaiting, NextKeepsForgotten
    DEF LifecycleInv, ForwardInv
  <2>4. WaitingTaskMayPublish' /\ OpenSlotIsPublishable'
    BY <1>2, NextKeepsRight, NextKeepsSlotsOpen DEF LifecycleInv
  <2>5. PlanFollowsHook'
    BY <1>2, NextKeepsPlan DEF LifecycleInv
  <2>6. QED  BY <2>1, <2>2, <2>3, <2>4, <2>5 DEF LifecycleInv
<1>3. QED  BY <1>1, <1>2

\* The task of a key is in one place, a record closes its key, and the hooks find
\* the plan of their layer as they left it.
THEOREM LifecycleInvariant == Spec => []LifecycleInv
  BY InitLifecycleInv, NextKeepsLifecycle, RuntimeInvariant, ForwardOwnership, PTL DEF Spec

\* A task that waits in an open service holds the token its key expects, unless the
\* key has its plan or its record already: no worker builds a plan in vain because
\* the queue and the store disagree about the newest task.
THEOREM WaitingTasksMayPublish == Spec => []WaitingTaskMayPublish
<1>1. LifecycleInv => WaitingTaskMayPublish
  BY DEF LifecycleInv
<1>2. QED  BY <1>1, LifecycleInvariant, PTL

\* During a forward a slot the rank expects a plan for is one the store would accept
\* a plan under, or one it has closed with a record.
THEOREM OpenSlotsArePublishable == Spec => []OpenSlotIsPublishable
<1>1. LifecycleInv => OpenSlotIsPublishable
  BY DEF LifecycleInv
<1>2. QED  BY <1>1, LifecycleInvariant, PTL

\* Between the hooks of a layer, with the worker and the polls running in between,
\* the plan of the layer is found in the state the hook before has left it in.
THEOREM HooksFindTheirPlan == Spec => []HookFindsItsPlan
<1>1. LifecycleInv => HookFindsItsPlan
  <2> SUFFICES ASSUME LifecycleInv PROVE HookFindsItsPlan
    OBVIOUS
  <2>1. driver \in {"peeked", "claimed", "bound", "started"} => This \in Key
    BY DEF LifecycleInv, RuntimeInv, PreparedIsKey
  <2>2. driver = "peeked" => ~Expired(This)
    <3>1. floor[Stream] \in Nat /\ epoch \in Nat /\ floor[Stream] <= epoch
      BY StreamType
      DEF LifecycleInv, RuntimeInv, StoreInv, StoreTypeOK, DriverTypeOK, ForwardInv, FloorIsOfForward
    <3>2. QED  BY <3>1 DEF Expired, This, KeyOf
  <2>3. QED
    BY <2>1, <2>2
    DEF LifecycleInv, PlanFollowsHook, AsTheHookLeftIt, InState, HookFindsItsPlan, CombineAt
<1>2. QED  BY <1>1, LifecycleInvariant, PTL

\* The runtime implements the abstract lifecycle: each plan moves along the transition
\* table the store's lifecycle module declares, never back and never past its end.
THEOREM RuntimeFollowsLifecycle == Spec => PlanLifecycleHolds
<1>1. Init => Lifecycle!LifeInit
  BY DEF Init, StoreInit, Lifecycle!LifeInit, Life, Live
<1>2. LifecycleInv /\ LifecycleInv' /\ [Next]_vars => [Lifecycle!LifeNext]_Life
  <2> SUFFICES ASSUME LifecycleInv, LifecycleInv', [Next]_vars PROVE [Lifecycle!LifeNext]_Life
    OBVIOUS
  <2>1. CASE UNCHANGED vars
    BY <2>1 DEF vars, storeVars, Life, Live, Item
  <2>2. CASE Next
    <3>1. \A k \in Key : Lifecycle!Allowed(Life[k], Life[k]')
      BY <2>2, NextCallsStore, CallFollowsLifecycle DEF LifecycleInv, RuntimeInv
    <3>2. Life' \in [Key -> [stage : Lifecycle!Stages \cup Lifecycle!Ends, plan : Digests \cup {NoItem}]]
      <4>1. ASSUME NEW k \in Key
            PROVE  Life[k]' \in [stage : Lifecycle!Stages \cup Lifecycle!Ends, plan : Digests \cup {NoItem}]
        <5>1. Live(k)' => Item(k)' \in StoredPlan
          BY DEF LifecycleInv, RuntimeInv, StoreInv, StoreTypeOK, Live, Item
        <5>2. terminal'[k] # NoItem => terminal'[k] \in TerminalRecord /\ terminal'[k].status \in Endings
          BY DEF LifecycleInv, RuntimeInv, StoreInv, StoreTypeOK, RecordClosesKey
        <5>3. QED
          BY <5>1, <5>2
          DEF Life, StoredPlan, LiveState, TerminalRecord, Endings, Lifecycle!Stages, Lifecycle!Ends
      <4>2. QED  BY <4>1 DEF Life
    <3>3. QED  BY <3>1, <3>2 DEF Lifecycle!LifeNext, Life
  <2>3. QED  BY <2>1, <2>2
<1>3. QED  BY <1>1, <1>2, LifecycleInvariant, PTL DEF Spec, PlanLifecycleHolds, Lifecycle!LifeSpec
==============================================================================
