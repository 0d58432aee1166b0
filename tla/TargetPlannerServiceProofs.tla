--------------------- MODULE TargetPlannerServiceProofs ---------------------
(***************************************************************************)
(* What the store guarantees to callers that call any method at any time,  *)
(* and what every critical section of the planner service keeps, whoever   *)
(* calls it: the types of the tables, that no waiting task is lost, and    *)
(* that no overtaken result is handed out.  TargetPlanRuntimeProofs and    *)
(* PlannerClientProofs use it for the two compositions.                    *)
(*                                                                         *)
(* The inductive invariant of the store is StoreInv.  Type correctness     *)
(* alone is not enough for OneHolder: that claim cannot overwrite a        *)
(* claimed plan follows from a waiting plan having no claimed twin; and    *)
(* that publication below the floor is impossible needs the floor clean-up *)
(* and the guards of register, publish and claim together.                 *)
(***************************************************************************)
EXTENDS TargetPlannerService, FiniteSetTheorems, TLAPS

-----------------------------------------------------------------------------
(* The store. *)

StoreInv == StoreTypeOK /\ OneHolder /\ NothingBelowFloor

\* The invariant holds of the empty store.
LEMMA InitStoreInv == StoreInit => StoreInv
  BY StoreAssumption
  DEF StoreInit, StoreInv, StoreTypeOK, OneHolder, NothingBelowFloor, Expired, Live

\* register_expected_publication, clear_expected_publication
LEMMA TokensKeepInv ==
  ASSUME StoreInv, NEW k \in Key,
         \/ \E t \in Token : RegisterExpectedPublication(k, t)
         \/ ClearExpectedPublication(k)
  PROVE  StoreInv'
  BY StoreAssumption
  DEF RegisterExpectedPublication, ClearExpectedPublication, Registered,
      StoreInv, StoreTypeOK, OneHolder, NothingBelowFloor, Expired, Live

\* publish_if_current, publish_logical: a plan only enters under a key that is
\* neither live nor expired.
LEMMA PublicationKeepsInv ==
  ASSUME StoreInv, NEW k \in Key,
         \/ \E t \in Token, d \in Digests : PublishIfCurrent(k, t, d)
         \/ \E d \in Digests : PublishLogical(k, d)
  PROVE  StoreInv'
<1>1. CASE \E d \in Digests : PublishLogical(k, d)
  <2> PICK d \in Digests : PublishLogical(k, d)  BY <1>1
  <2> DEFINE fresh == [digest |-> d, state |-> "LOGICAL_READY"]
  <2>1. fresh \in StoredPlan  BY DEF StoredPlan, LiveState
  <2>2. QED
    BY <2>1, StoreAssumption
    DEF PublishLogical, StoreInv, StoreTypeOK, OneHolder, NothingBelowFloor, Expired, Live
<1>2. CASE \E t \in Token, d \in Digests : PublishIfCurrent(k, t, d)
  <2> PICK t \in Token, d \in Digests : PublishIfCurrent(k, t, d)  BY <1>2
  <2> DEFINE fresh == [digest |-> d, state |-> "LOGICAL_READY"]
             status == PublishStatus(k, t, d)
  <2>1. fresh \in StoredPlan  BY DEF StoredPlan, LiveState
  <2>2. status = "PUBLISHED" => ~Expired(k) /\ ~Live(k)
    BY DEF PublishStatus
  <2>3. /\ plans' = IF status = "PUBLISHED" THEN [plans EXCEPT ![k] = fresh] ELSE plans
        /\ \/ publishTokens' = publishTokens
           \/ publishTokens' = [publishTokens EXCEPT ![k] = NoItem]
        /\ UNCHANGED <<claimed, terminal, floor>>
    BY DEF PublishIfCurrent
  <2> HIDE DEF status, fresh
  <2>4. fresh # NoItem /\ fresh.state = "LOGICAL_READY"
    BY <2>1, StoreAssumption DEF fresh
  <2>5. QED
    BY <2>1, <2>2, <2>3, <2>4
    DEF StoreInv, StoreTypeOK, OneHolder, NothingBelowFloor, Expired, Live
<1>3. QED  BY <1>1, <1>2

\* claim, bind, start_execution: the holder changes, the key stays live.
LEMMA OwnerKeepsInv ==
  ASSUME StoreInv, NEW k \in Key, Claim(k) \/ Bind(k) \/ StartExecution(k)
  PROVE  StoreInv'
<1>1. CASE Claim(k)
  <2> DEFINE taken == [plans[k] EXCEPT !.state = "CLAIMED"]
  <2>1. plans[k] \in StoredPlan
    BY <1>1 DEF Claim, StoreInv, StoreTypeOK
  <2>2. taken \in StoredPlan /\ taken # NoItem /\ taken.state = "CLAIMED"
    BY <2>1, StoreAssumption DEF StoredPlan, LiveState
  <2>3. QED
    BY <1>1, <2>2 DEF Claim, StoreInv, StoreTypeOK, OneHolder, NothingBelowFloor, Expired, Live
<1>2. ASSUME NEW from, NEW to \in LiveState \ {"LOGICAL_READY"}, Advance(k, from, to)
      PROVE  StoreInv'
  <2> DEFINE moved == [claimed[k] EXCEPT !.state = to]
  <2>1. claimed[k] \in StoredPlan
    BY <1>2 DEF Advance, StoreInv, StoreTypeOK
  <2>2. moved \in StoredPlan /\ moved # NoItem /\ moved.state = to
    BY <2>1, StoreAssumption DEF StoredPlan
  <2>3. QED
    BY <1>2, <2>2 DEF Advance, StoreInv, StoreTypeOK, OneHolder, NothingBelowFloor, Expired, Live
<1>3. QED  BY <1>1, <1>2 DEF Bind, StartExecution, LiveState

\* Removing entries and tokens, and writing well-typed records, keeps the
\* invariant as long as the floor does not move.
LEMMA RemovalKeepsInv ==
  ASSUME StoreInv, floor' = floor,
         plans' \in [Key -> StoredPlan \cup {NoItem}],
         claimed' \in [Key -> StoredPlan \cup {NoItem}],
         publishTokens' \in [Key -> Token \cup {NoItem}],
         terminal' \in [Key -> TerminalRecord \cup {NoItem}],
         \A j \in Key : /\ plans'[j] = plans[j] \/ plans'[j] = NoItem
                        /\ claimed'[j] = claimed[j] \/ claimed'[j] = NoItem
                        /\ publishTokens'[j] = publishTokens[j] \/ publishTokens'[j] = NoItem
  PROVE  StoreInv'
  BY DEF StoreInv, StoreTypeOK, OneHolder, NothingBelowFloor, Expired, Live

LEMMA FinalType ==
  ASSUME NEW d \in Digests \cup {NoItem}, NEW f \in FinalState
  PROVE  Final(d, f) \in TerminalRecord
  BY DEF Final, TerminalRecord

LEMMA ItemType ==
  ASSUME StoreTypeOK, NEW k \in Key, Live(k)
  PROVE  Item(k) \in StoredPlan /\ Item(k).digest \in Digests
  BY DEF StoreTypeOK, Live, Item, StoredPlan

\* complete, consume_once, fail, reject, expire_key, cancel, and the tombstone
LEMMA EndingKeepsInv ==
  ASSUME StoreInv, NEW k \in Key,
         \/ Complete(k)
         \/ ConsumeOnce(k)
         \/ \E f \in {"FAILED", "REJECTED", "EXPIRED", "CANCELLED"} : Finalize(k, f)
         \/ \E f \in {"FAILED", "EXPIRED", "CANCELLED"} : CloseKeyIfUnclaimed(k, f)
  PROVE  StoreInv'
<1>1. /\ \A f \in FinalState : Live(k) => Final(Item(k).digest, f) \in TerminalRecord
      /\ \A f \in FinalState : plans[k] # NoItem => Final(plans[k].digest, f) \in TerminalRecord
      /\ \A f \in FinalState : claimed[k] # NoItem => Final(claimed[k].digest, f) \in TerminalRecord
      /\ \A f \in FinalState : Final(NoItem, f) \in TerminalRecord
  BY FinalType, ItemType DEF StoreInv, StoreTypeOK, StoredPlan, Item, Live
<1>2. CASE Complete(k)
  <2>1. terminal' \in [Key -> TerminalRecord \cup {NoItem}]
    BY <1>1, <1>2 DEF Complete, StoreInv, StoreTypeOK, FinalState
  <2>2. QED
    BY <1>2, <2>1, RemovalKeepsInv DEF Complete, StoreInv, StoreTypeOK
<1>3. CASE ConsumeOnce(k)
  <2>1. terminal' \in [Key -> TerminalRecord \cup {NoItem}]
    BY <1>1, <1>3 DEF ConsumeOnce, Live, StoreInv, StoreTypeOK, FinalState
  <2>2. QED
    BY <1>3, <2>1, RemovalKeepsInv DEF ConsumeOnce, StoreInv, StoreTypeOK
<1>4. ASSUME NEW f \in {"FAILED", "REJECTED", "EXPIRED", "CANCELLED"}, Finalize(k, f)
      PROVE  StoreInv'
  <2>1. terminal' \in [Key -> TerminalRecord \cup {NoItem}]
    BY <1>1, <1>4 DEF Finalize, StoreInv, StoreTypeOK, FinalState
  <2>2. QED
    BY <1>4, <2>1, RemovalKeepsInv DEF Finalize, StoreInv, StoreTypeOK
<1>5. ASSUME NEW f \in {"FAILED", "EXPIRED", "CANCELLED"}, CloseKeyIfUnclaimed(k, f)
      PROVE  StoreInv'
  <2>1. CASE terminal[k] = NoItem /\ claimed[k] = NoItem
    <3>1. terminal' \in [Key -> TerminalRecord \cup {NoItem}]
      BY <1>1, <1>5, <2>1 DEF CloseKeyIfUnclaimed, StoreInv, StoreTypeOK, FinalState
    <3>2. QED
      BY <1>5, <2>1, <3>1, RemovalKeepsInv DEF CloseKeyIfUnclaimed, StoreInv, StoreTypeOK
  <2>2. CASE ~(terminal[k] = NoItem /\ claimed[k] = NoItem)
    BY <1>5, <2>2, RemovalKeepsInv
    DEF CloseKeyIfUnclaimed, storeVars, StoreInv, StoreTypeOK
  <2>3. QED  BY <2>1, <2>2
<1>6. QED  BY <1>2, <1>3, <1>4, <1>5

\* _cleanup_matching_locked leaves well-typed dictionaries with the doomed
\* entries and tokens gone and everything else in place.
LEMMA CleanupEffect ==
  ASSUME StoreTypeOK, NEW doomed \in SUBSET Key, CleanupMatching(doomed)
  PROVE  /\ plans' \in [Key -> StoredPlan \cup {NoItem}]
         /\ claimed' \in [Key -> StoredPlan \cup {NoItem}]
         /\ publishTokens' \in [Key -> Token \cup {NoItem}]
         /\ terminal' \in [Key -> TerminalRecord \cup {NoItem}]
         /\ \A j \in Key :
              /\ plans'[j] = IF j \in doomed THEN NoItem ELSE plans[j]
              /\ claimed'[j] = IF j \in doomed THEN NoItem ELSE claimed[j]
              /\ publishTokens'[j] = IF j \in doomed THEN NoItem ELSE publishTokens[j]
<1>1. ASSUME NEW j \in Key, Live(j), NEW f \in {"FAILED", "CANCELLED"}
      PROVE  Final(Item(j).digest, f) \in TerminalRecord
  BY <1>1, FinalType, ItemType DEF FinalState
<1>2. terminal' \in [Key -> TerminalRecord \cup {NoItem}]
  BY <1>1 DEF CleanupMatching, StoreTypeOK
<1>3. QED  BY <1>2 DEF CleanupMatching, StoreTypeOK

\* cleanup_epoch, cleanup_before_generation, shutdown and expire.  The floor
\* rises in one step with the removal of what falls below it.
LEMMA CleanupKeepsInv ==
  ASSUME StoreInv,
         \/ \E doomed \in SUBSET Key : Expire(doomed)
         \/ \E s \in Streams, g \in Generations :
              CleanupEpoch(s, g) \/ CleanupBeforeGeneration(s, g)
         \/ Shutdown
  PROVE  StoreInv'
<1>1. ASSUME NEW doomed \in SUBSET Key, Expire(doomed)
      PROVE  StoreInv'
  <2>1. ASSUME NEW j \in doomed
        PROVE  Final(plans[j].digest, "EXPIRED") \in TerminalRecord
    BY <1>1, <2>1, FinalType DEF Expire, StoreInv, StoreTypeOK, StoredPlan, FinalState
  <2>2. terminal' \in [Key -> TerminalRecord \cup {NoItem}]
    BY <1>1, <2>1 DEF Expire, StoreInv, StoreTypeOK
  <2>3. QED
    BY <1>1, <2>2, RemovalKeepsInv DEF Expire, StoreInv, StoreTypeOK
<1>2. ASSUME NEW doomed \in SUBSET Key, CleanupMatching(doomed), UNCHANGED floor
      PROVE  StoreInv'
  BY <1>2, CleanupEffect, RemovalKeepsInv DEF StoreInv
<1>3. ASSUME NEW s \in Streams, NEW g \in Generations, CleanupBeforeGeneration(s, g)
      PROVE  StoreInv'
  <2> DEFINE raised == IF g > floor[s] THEN g ELSE floor[s]
             doomed == {k \in Key : k.stream = s /\ k.generation < raised}
  <2>1. raised \in Nat /\ floor' = [floor EXCEPT ![s] = raised] /\ CleanupMatching(doomed)
    BY <1>3, StoreAssumption DEF CleanupBeforeGeneration, StoreInv, StoreTypeOK
  <2>2. doomed \in SUBSET Key
    OBVIOUS
  <2> HIDE DEF raised
  <2>3. ASSUME NEW k \in Key, k.generation < floor'[k.stream], k \notin doomed
        PROVE  k.generation < floor[k.stream]
    BY <2>1, <2>3 DEF StoreInv, StoreTypeOK, Key
  <2> HIDE DEF doomed
  <2>4. StoreTypeOK'
    BY <2>1, <2>2, CleanupEffect DEF StoreInv, StoreTypeOK
  <2>5. OneHolder'
    BY <2>1, <2>2, CleanupEffect DEF StoreInv, OneHolder
  <2>6. NothingBelowFloor'
    BY <2>1, <2>2, <2>3, CleanupEffect DEF StoreInv, NothingBelowFloor, Expired, Live
  <2>7. QED  BY <2>4, <2>5, <2>6 DEF StoreInv
<1>4. ASSUME NEW s \in Streams, NEW g \in Generations, CleanupEpoch(s, g)
      PROVE  StoreInv'
  BY <1>2, <1>4 DEF CleanupEpoch
<1>5. CASE Shutdown
  BY <1>2, <1>5 DEF Shutdown
<1>6. QED  BY <1>1, <1>3, <1>4, <1>5

LEMMA NextKeepsInv == StoreInv /\ [StoreNext]_storeVars => StoreInv'
<1> SUFFICES ASSUME StoreInv, [StoreNext]_storeVars  PROVE StoreInv'
  OBVIOUS
<1>1. CASE UNCHANGED storeVars
  BY <1>1 DEF storeVars, StoreInv, StoreTypeOK, OneHolder, NothingBelowFloor, Expired, Live
<1>2. CASE StoreNext
  BY <1>2, TokensKeepInv, PublicationKeepsInv, OwnerKeepsInv, EndingKeepsInv, CleanupKeepsInv
  DEF StoreNext
<1>3. QED  BY <1>1, <1>2

\* The store is type correct, a plan has one holder, and nothing lives below the
\* generation floor, whatever the callers do and however many there are.
THEOREM StoreInvariant == StoreSpec => []StoreInv
  BY InitStoreInv, NextKeepsInv, PTL DEF StoreSpec

\* The dictionaries hold what the annotations of the class say.
THEOREM StoreTypeCorrect == StoreSpec => []StoreTypeOK
<1>1. StoreInv => StoreTypeOK  BY DEF StoreInv
<1>2. QED  BY <1>1, StoreInvariant, PTL

\* No plan is both waiting in _plans and claimed.
THEOREM HolderIsUnique == StoreSpec => []OneHolder
<1>1. StoreInv => OneHolder  BY DEF StoreInv
<1>2. QED  BY <1>1, StoreInvariant, PTL

\* No plan and no token of a generation that begin_forward has left behind.
THEOREM FloorIsRespected == StoreSpec => []NothingBelowFloor
<1>1. StoreInv => NothingBelowFloor  BY DEF StoreInv
<1>2. QED  BY <1>1, StoreInvariant, PTL

-----------------------------------------------------------------------------
\* What no step of any caller does

StepKept == \A k \in Key : DigestKept(k) /\ StageKept(k) /\ RecordKept(k)

\* A key whose entries and record a step leaves alone is fine.
LEMMA UntouchedIsKept ==
  ASSUME NEW k \in Key,
         plans'[k] = plans[k], claimed'[k] = claimed[k], terminal'[k] = terminal[k]
  PROVE  DigestKept(k) /\ StageKept(k) /\ RecordKept(k)
  BY DEF DigestKept, StageKept, RecordKept, Live, Item

\* So is a key that becomes live from nothing, and one whose plan leaves with a
\* record of that plan, or with the record it already had.
LEMMA BirthIsKept ==
  ASSUME NEW k \in Key, ~Live(k), terminal'[k] = terminal[k]
  PROVE  DigestKept(k) /\ StageKept(k) /\ RecordKept(k)
  BY DEF DigestKept, StageKept, RecordKept

LEMMA EndIsKept ==
  ASSUME NEW k \in Key, Live(k), ~Live(k)', NEW f,
         \/ terminal'[k] = terminal[k]
         \/ terminal'[k] = Final(Item(k).digest, f),
         f = "COMPLETED" => Item(k).state = "EXECUTING"
  PROVE  DigestKept(k) /\ StageKept(k) /\ RecordKept(k)
  BY DEF DigestKept, StageKept, RecordKept, Final

\* publish_if_current, publish_logical, claim, bind, start_execution
LEMMA LivePlanIsKept ==
  ASSUME StoreInv, NEW k \in Key,
         \/ \E t \in Token, d \in Digests : PublishIfCurrent(k, t, d)
         \/ \E d \in Digests : PublishLogical(k, d)
         \/ Claim(k) \/ Bind(k) \/ StartExecution(k)
  PROVE  StepKept
<1>1. ASSUME NEW t \in Token, NEW d \in Digests, PublishIfCurrent(k, t, d)
      PROVE  StepKept
  <2>1. \/ ~Live(k)
        \/ plans' = plans
    BY <1>1 DEF PublishIfCurrent, PublishStatus
  <2>2. \A j \in Key \ {k} : plans'[j] = plans[j]
    BY <1>1 DEF PublishIfCurrent, StoreInv, StoreTypeOK
  <2>3. UNCHANGED <<claimed, terminal>>
    BY <1>1 DEF PublishIfCurrent
  <2>4. QED
    BY <2>1, <2>2, <2>3, UntouchedIsKept, BirthIsKept DEF StepKept
<1>2. ASSUME NEW d \in Digests, PublishLogical(k, d)
      PROVE  StepKept
  BY <1>2, UntouchedIsKept, BirthIsKept DEF PublishLogical, StepKept, StoreInv, StoreTypeOK
<1>3. CASE Claim(k)
  <2>1. /\ plans[k] \in StoredPlan /\ plans[k].state = "LOGICAL_READY"
        /\ claimed[k] = NoItem /\ plans[k] # NoItem
    BY <1>3 DEF Claim, StoreInv, StoreTypeOK, OneHolder
  <2>2. /\ plans'[k] = NoItem
        /\ claimed'[k] = [plans[k] EXCEPT !.state = "CLAIMED"]
        /\ UNCHANGED terminal
    BY <1>3, <2>1 DEF Claim, StoreInv, StoreTypeOK
  <2>3. claimed'[k].digest = plans[k].digest /\ claimed'[k].state = "CLAIMED"
    BY <2>1, <2>2 DEF StoredPlan
  <2>4. DigestKept(k) /\ StageKept(k) /\ RecordKept(k)
    BY <2>1, <2>2, <2>3 DEF DigestKept, StageKept, RecordKept, StageStep, Live, Item
  <2>5. QED
    BY <1>3, <2>4, UntouchedIsKept DEF Claim, StepKept, StoreInv, StoreTypeOK
<1>4. ASSUME NEW from, NEW to, <<from, to>> \in StageStep, Advance(k, from, to)
      PROVE  StepKept
  <2>1. /\ plans[k] = NoItem /\ claimed[k] # NoItem
        /\ claimed[k] \in StoredPlan /\ claimed[k].state = from
    BY <1>4 DEF Advance, StoreInv, StoreTypeOK, OneHolder
  <2>2. /\ UNCHANGED <<plans, terminal>>
        /\ claimed'[k] = [claimed[k] EXCEPT !.state = to]
    BY <1>4 DEF Advance, StoreInv, StoreTypeOK
  <2>3. claimed'[k].digest = claimed[k].digest /\ claimed'[k].state = to
    BY <2>1, <2>2 DEF StoredPlan
  <2>4. DigestKept(k) /\ StageKept(k) /\ RecordKept(k)
    BY <1>4, <2>1, <2>2, <2>3 DEF DigestKept, StageKept, RecordKept, Live, Item
  <2>5. QED
    BY <1>4, <2>4, UntouchedIsKept DEF Advance, StepKept, StoreInv, StoreTypeOK
<1>5. QED  BY <1>1, <1>2, <1>3, <1>4 DEF Bind, StartExecution, StageStep

\* complete, consume_once, fail and its kin, tombstone, expire and clean-up
LEMMA EndedPlanIsKept ==
  ASSUME StoreInv, NEW k \in Key,
         \/ Complete(k)
         \/ ConsumeOnce(k)
         \/ \E f \in {"FAILED", "REJECTED", "EXPIRED", "CANCELLED"} : Finalize(k, f)
         \/ \E f \in {"FAILED", "EXPIRED", "CANCELLED"} : CloseKeyIfUnclaimed(k, f)
  PROVE  StepKept
<1>1. CASE Complete(k)
  <2>1. /\ Live(k) /\ Item(k) = claimed[k] /\ Item(k).state = "EXECUTING" /\ ~Live(k)'
        /\ terminal'[k] = Final(Item(k).digest, "COMPLETED")
    BY <1>1 DEF Complete, StoreInv, StoreTypeOK, OneHolder, Live, Item
  <2>2. QED
    BY <1>1, <2>1, EndIsKept, UntouchedIsKept DEF Complete, StepKept, StoreInv, StoreTypeOK
<1>2. CASE ConsumeOnce(k)
  <2>1. /\ Live(k) /\ ~Live(k)'
        /\ terminal'[k] = Final(Item(k).digest, "CONSUMED")
    BY <1>2 DEF ConsumeOnce, StoreInv, StoreTypeOK, OneHolder, Live, Item
  <2>2. DigestKept(k) /\ StageKept(k) /\ RecordKept(k)
    BY <2>1, EndIsKept
  <2>3. ASSUME NEW j \in Key \ {k}
        PROVE  plans'[j] = plans[j] /\ claimed'[j] = claimed[j] /\ terminal'[j] = terminal[j]
    BY <1>2 DEF ConsumeOnce, StoreInv, StoreTypeOK
  <2>4. QED
    BY <2>2, <2>3, UntouchedIsKept DEF StepKept
<1>3. ASSUME NEW f \in {"FAILED", "REJECTED", "EXPIRED", "CANCELLED"}, Finalize(k, f)
      PROVE  StepKept
  <2>1. /\ Live(k) /\ ~Live(k)'
        /\ terminal'[k] = terminal[k] \/ terminal'[k] = Final(Item(k).digest, f)
    BY <1>3 DEF Finalize, StoreInv, StoreTypeOK, OneHolder, Live, Item
  <2>2. QED
    BY <1>3, <2>1, EndIsKept, UntouchedIsKept DEF Finalize, StepKept, StoreInv, StoreTypeOK
<1>4. ASSUME NEW f \in {"FAILED", "EXPIRED", "CANCELLED"}, CloseKeyIfUnclaimed(k, f)
      PROVE  StepKept
  <2>1. CASE terminal[k] = NoItem /\ claimed[k] = NoItem
    <3>1. /\ ~Live(k)'
          /\ Live(k) => terminal'[k] = Final(Item(k).digest, f)
          /\ ~Live(k) => terminal'[k] = Final(NoItem, f)
      BY <1>4, <2>1 DEF CloseKeyIfUnclaimed, StoreInv, StoreTypeOK, Live, Item
    <3>2. ~Live(k) => DigestKept(k) /\ StageKept(k) /\ RecordKept(k)
      BY <1>4, <2>1, <3>1 DEF DigestKept, StageKept, RecordKept, Final
    <3>3. QED
      BY <1>4, <2>1, <3>1, <3>2, EndIsKept, UntouchedIsKept
      DEF CloseKeyIfUnclaimed, StepKept, StoreInv, StoreTypeOK
  <2>2. CASE ~(terminal[k] = NoItem /\ claimed[k] = NoItem)
    BY <1>4, <2>2, UntouchedIsKept DEF CloseKeyIfUnclaimed, storeVars, StepKept
  <2>3. QED  BY <2>1, <2>2
<1>5. QED  BY <1>1, <1>2, <1>3, <1>4

LEMMA CleanupIsKept ==
  ASSUME StoreInv,
         \/ \E doomed \in SUBSET Key : Expire(doomed)
         \/ \E doomed \in SUBSET Key : CleanupMatching(doomed)
  PROVE  StepKept
<1>1. ASSUME NEW doomed \in SUBSET Key, Expire(doomed)
      PROVE  StepKept
  <2>1. ASSUME NEW j \in doomed
        PROVE  Live(j) /\ ~Live(j)' /\ terminal'[j] = Final(Item(j).digest, "EXPIRED")
    BY <1>1, <2>1 DEF Expire, StoreInv, OneHolder, Live, Item
  <2>2. ASSUME NEW j \in Key \ doomed
        PROVE  plans'[j] = plans[j] /\ claimed'[j] = claimed[j] /\ terminal'[j] = terminal[j]
    BY <1>1, <2>2 DEF Expire
  <2>3. QED
    BY <2>1, <2>2, EndIsKept, UntouchedIsKept DEF StepKept
<1>2. ASSUME NEW doomed \in SUBSET Key, CleanupMatching(doomed)
      PROVE  StepKept
  <2>1. ASSUME NEW j \in doomed, Live(j)
        PROVE  /\ ~Live(j)'
               /\ \E f \in {"FAILED", "CANCELLED"} :
                    terminal'[j] = terminal[j] \/ terminal'[j] = Final(Item(j).digest, f)
    BY <1>2, <2>1 DEF CleanupMatching, Live
  <2>2. ASSUME NEW j \in Key, ~Live(j) \/ j \notin doomed
        PROVE  /\ terminal'[j] = terminal[j]
               /\ j \notin doomed => plans'[j] = plans[j] /\ claimed'[j] = claimed[j]
    BY <1>2, <2>2 DEF CleanupMatching
  <2>3. QED
    BY <2>1, <2>2, EndIsKept, UntouchedIsKept, BirthIsKept DEF StepKept
<1>3. QED  BY <1>1, <1>2

LEMMA NextIsKept == StoreInv /\ StoreNext => StepKept
<1> SUFFICES ASSUME StoreInv, StoreNext  PROVE StepKept
  OBVIOUS
<1>1. ASSUME NEW k \in Key,
             \/ \E t \in Token : RegisterExpectedPublication(k, t)
             \/ ClearExpectedPublication(k)
      PROVE  StepKept
  BY <1>1, UntouchedIsKept DEF RegisterExpectedPublication, ClearExpectedPublication, StepKept
<1>2. ASSUME NEW s \in Streams, NEW g \in Generations,
             CleanupEpoch(s, g) \/ CleanupBeforeGeneration(s, g)
      PROVE  StepKept
  BY <1>2, CleanupIsKept DEF CleanupEpoch, CleanupBeforeGeneration
<1>3. CASE Shutdown
  BY <1>3, CleanupIsKept DEF Shutdown
<1>4. QED
  BY <1>1, <1>2, <1>3, LivePlanIsKept, EndedPlanIsKept, CleanupIsKept DEF StoreNext

\* A published plan is never replaced, and the record of its end names it.
THEOREM DigestStability == StoreSpec => DigestIsStable
<1>1. StoreInv /\ [StoreNext]_storeVars => [\A k \in Key : DigestKept(k)]_storeVars
  BY NextIsKept DEF StepKept
<1>2. QED  BY <1>1, StoreInvariant, PTL DEF StoreSpec, DigestIsStable

\* Stages are passed in order, and COMPLETED is only said of an executed plan.
THEOREM StageOrder == StoreSpec => StagesInOrder
<1>1. StoreInv /\ [StoreNext]_storeVars => [\A k \in Key : StageKept(k)]_storeVars
  BY NextIsKept DEF StepKept
<1>2. QED  BY <1>1, StoreInvariant, PTL DEF StoreSpec, StagesInOrder

\* The record of a key without a live plan never changes again.
THEOREM RecordFinality == StoreSpec => RecordIsKept
<1>1. StoreInv /\ [StoreNext]_storeVars => [\A k \in Key : RecordKept(k)]_storeVars
  BY NextIsKept DEF StepKept
<1>2. QED  BY <1>1, StoreInvariant, PTL DEF StoreSpec, RecordIsKept

-----------------------------------------------------------------------------
(* The service. *)

\* The operators the service filters its results with

\* Ranking the elements of a finite set of numbers is a bijection onto 1 .. n:
\* a strictly larger element has a strictly larger rank.
LEMMA NthIsAnElement ==
  ASSUME NEW S \in SUBSET Nat, IsFiniteSet(S), NEW n \in 1 .. Cardinality(S)
  PROVE  Nth(n, S) \in S
<1> DEFINE c == Cardinality(S)
           below(i) == {j \in S : j <= i}
           rank == [i \in S |-> Rank(i, S)]
<1>1. c \in Nat
  BY FS_CardinalityType
<1>2. \A i \in S : IsFiniteSet(below(i)) /\ Rank(i, S) \in 1 .. c
  <2> TAKE i \in S
  <2>1. IsFiniteSet(below(i)) /\ Cardinality(below(i)) <= c
    BY FS_Subset
  <2>2. Cardinality(below(i)) \in Nat /\ Cardinality(below(i)) # 0
    <3>1. i \in below(i)
      OBVIOUS
    <3>2. QED  BY <2>1, <3>1, FS_CardinalityType, FS_EmptySet
  <2>3. QED  BY <1>1, <2>1, <2>2 DEF Rank
<1>3. ASSUME NEW i \in S, NEW j \in S, i < j
      PROVE  Rank(i, S) # Rank(j, S)
  <2>1. below(i) \in SUBSET below(j) /\ below(i) # below(j)
    <3>1. j \in below(j) /\ j \notin below(i)
      BY <1>3
    <3>2. ASSUME NEW m \in below(i) PROVE m \in below(j)
      <4>1. m \in S /\ m \in Nat /\ i \in Nat /\ j \in Nat /\ m <= i
        OBVIOUS
      <4>2. m <= j
        BY <1>3, <4>1
      <4>3. QED  BY <4>1, <4>2
    <3>3. QED  BY <3>1, <3>2
  <2>2. Cardinality(below(i)) # Cardinality(below(j))
    BY <1>2, <2>1, FS_Subset
  <2>3. QED  BY <2>2 DEF Rank
<1>4. rank \in Injection(S, 1 .. c)
  <2>1. rank \in [S -> 1 .. c]
    BY <1>2
  <2>2. \A i, j \in S : rank[i] = rank[j] => i = j
    <3>1. \A i, j \in S : i # j => i < j \/ j < i
      OBVIOUS
    <3>2. QED  BY <1>3, <3>1
  <2>3. QED  BY <2>1, <2>2 DEF Injection, IsInjective
<1>5. IsFiniteSet(1 .. c) /\ Cardinality(1 .. c) = c
  BY <1>1, FS_Interval
<1>6. rank \in Surjection(S, 1 .. c)
  BY <1>4, <1>5, FS_Injection
<1>7. \E i \in S : Rank(i, S) = n
  BY <1>6 DEF Surjection
<1>8. QED  BY <1>7 DEF Nth

LEMMA PositionsAreFinite ==
  ASSUME NEW T, NEW s \in Seq(T), NEW P \in SUBSET DOMAIN s
  PROVE  P \in SUBSET Nat /\ IsFiniteSet(P) /\ Cardinality(P) \in Nat
<1>1. DOMAIN s = 1 .. Len(s) /\ Len(s) \in Nat
  OBVIOUS
<1>2. P \in SUBSET Nat
  BY <1>1
<1>3. IsFiniteSet(DOMAIN s)
  BY <1>1, FS_Interval
<1>4. QED  BY <1>2, <1>3, FS_Subset, FS_CardinalityType

LEMMA ReadyWithoutType ==
  ASSUME ServiceTypeOK, NEW doomed
  PROVE  ReadyWithout(doomed) \in Seq(Result)
<1> DEFINE kept == {i \in DOMAIN ready : ready[i].key \notin doomed}
           c == Cardinality(kept)
<1>1. ready \in Seq(Result)
  BY DEF ServiceTypeOK
<1>2. kept \in SUBSET Nat /\ IsFiniteSet(kept) /\ c \in Nat
  BY <1>1, PositionsAreFinite
<1>3. \A n \in 1 .. c : Nth(n, kept) \in DOMAIN ready
  BY <1>2, NthIsAnElement
<1>4. \A n \in 1 .. c : ready[Nth(n, kept)] \in Result
  BY <1>1, <1>3
<1>5. [n \in 1 .. c |-> ready[Nth(n, kept)]] \in Seq(Result)
  BY <1>2, <1>4
<1>6. QED  BY <1>5 DEF ReadyWithout

-----------------------------------------------------------------------------
\* The critical sections of the service keep the types of its tables.

LEMMA SlotsAsType ==
  ASSUME ServiceTypeOK, NEW doomed, NEW status \in SlotStatus
  PROVE  SlotsAs(doomed, status) \in [Key -> SlotStatus \cup {NoItem}]
  BY DEF ServiceTypeOK, SlotsAs

LEMMA GenerationType ==
  ASSUME NEW k \in Key
  PROVE  Generation(k) \in Streams \X Generations
  BY DEF Generation, Key

\* cancel_generation, cancel_before_generation, cancel_slot
LEMMA CancelKeepsType ==
  ASSUME ServiceTypeOK, NEW s \in Streams, NEW g \in Generations,
         CancelGeneration(s, g) \/ CancelBeforeGeneration(s, g)
  PROVE  ServiceTypeOK'
<1>1. g \in Nat
  BY StoreAssumption
<1>2. \A doomed : ReadyWithout(doomed) \in Seq(Result)
  BY ReadyWithoutType
<1>3. \A doomed : /\ SlotsAs(doomed, "CANCELLED") \in [Key -> SlotStatus \cup {NoItem}]
                  /\ SlotsAs(doomed, "EXPIRED") \in [Key -> SlotStatus \cup {NoItem}]
  BY SlotsAsType DEF SlotStatus
<1>4. \A doomed : WithoutKeys(pending, doomed) \in [Key -> Token \cup {NoItem}]
  BY DEF ServiceTypeOK, WithoutKeys
<1>5. CASE CancelGeneration(s, g)
  <2>1. cancelled' \subseteq Streams \X Generations
    BY <1>5 DEF CancelGeneration, ServiceTypeOK
  <2>2. QED
    BY <1>2, <1>3, <1>4, <1>5, <2>1 DEF CancelGeneration, ServiceTypeOK
<1>6. CASE CancelBeforeGeneration(s, g)
  <2>1. cancelled' \subseteq Streams \X Generations
    BY <1>6, GenerationType DEF CancelBeforeGeneration, ServiceTypeOK
  <2>2. svcFloor' \in [Streams -> Nat]
    BY <1>1, <1>6 DEF CancelBeforeGeneration, ServiceTypeOK
  <2>3. QED
    BY <1>2, <1>3, <1>4, <1>6, <2>1, <2>2 DEF CancelBeforeGeneration, ServiceTypeOK
<1>7. QED  BY <1>5, <1>6

LEMMA CancelSlotKeepsType ==
  ASSUME ServiceTypeOK, NEW k \in Key, NEW status \in SlotStatus, CancelSlot(k, status)
  PROVE  ServiceTypeOK'
  BY SlotsAsType DEF CancelSlot, ServiceTypeOK

\* submit
LEMMA SubmitKeepsType ==
  ASSUME ServiceTypeOK, NEW k \in Key, Submit(k)
  PROVE  ServiceTypeOK'
<1> DEFINE status == SubmitStatus(k)
<1>1. version + 1 \in Versions /\ SubmitToQueue(k, status)
  BY DEF Submit
<1>2. Task \in Token
  BY <1>1 DEF Task, Token, ServiceTypeOK
<1>3. version' \in Nat
  BY <1>1 DEF SubmitToQueue, ServiceTypeOK
<1>4. queue' \in Seq(Key \cup {NoItem})
  <2>1. queue' = queue \/ queue' = Append(queue, k)
    BY <1>1 DEF SubmitToQueue
  <2>2. queue \in Seq(Key \cup {NoItem}) /\ k \in Key \cup {NoItem}
    BY DEF ServiceTypeOK
  <2>3. QED  BY <2>1, <2>2
<1>5. pending' \in [Key -> Token \cup {NoItem}] /\ queuedKeys' \subseteq Key
  BY <1>1, <1>2 DEF SubmitToQueue, ServiceTypeOK
<1>6. slots' \in [Key -> SlotStatus \cup {NoItem}]
  BY <1>1 DEF SubmitToQueue, ServiceTypeOK, SlotStatus
<1>7. QED
  BY <1>1, <1>3, <1>4, <1>5, <1>6 DEF SubmitToQueue, ServiceTypeOK

\* start and close
LEMMA StartKeepsType ==
  ASSUME ServiceTypeOK, Start \/ RaiseStop \/ ClearAndPoison
  PROVE  ServiceTypeOK'
<1>1. Waiting \in WorkerState
  BY DEF Waiting, Worker, WorkerState
<1>2. CASE Start
  <2>1. queue' \in Seq(Key \cup {NoItem}) /\ ready' \in Seq(Result)
    BY <1>2 DEF Start, ClearTables
  <2>2. QED
    BY <1>1, <1>2, <2>1, ServiceAssumption DEF Start, ClearTables, ServiceTypeOK
<1>3. CASE RaiseStop
  BY <1>3 DEF RaiseStop, ServiceTypeOK
<1>4. CASE ClearAndPoison
  <2>1. queue' \in Seq(Key \cup {NoItem}) /\ ready' \in Seq(Result)
    BY <1>4 DEF ClearAndPoison, ClearTables
  <2>2. QED
    BY <1>4, <2>1 DEF ClearAndPoison, ClearTables, ServiceTypeOK
<1>5. QED  BY <1>2, <1>3, <1>4

\* The worker thread: get, take, build, fail.  What it holds in its hand has the
\* type of what it took.
LEMMA WorkerKeepsType ==
  ASSUME ServiceTypeOK, WorkerStep
  PROVE  ServiceTypeOK'
<1>1. /\ worker \in WorkerState /\ pending \in [Key -> Token \cup {NoItem}]
      /\ inflight \in [Key -> Token \cup {NoItem}]
      /\ Waiting \in WorkerState /\ Dead \in WorkerState
  BY DEF ServiceTypeOK, Waiting, Dead, Worker, WorkerState
<1>2. CASE WorkerGet
  <2>1. queue \in Seq(Key \cup {NoItem}) /\ queue # <<>> /\ queue' = Tail(queue)
    BY <1>2 DEF WorkerGet, ServiceTypeOK
  <2>2. Head(queue) \in Key \cup {NoItem} /\ queue' \in Seq(Key \cup {NoItem})
    BY <2>1
  <2>3. worker' \in WorkerState
    <3>1. \A k \in Key : Worker("take", k, NoItem) \in WorkerState
      BY DEF Worker, WorkerState
    <3>2. QED  BY <1>1, <1>2, <2>2, <3>1 DEF WorkerGet
  <2>4. QED  BY <1>2, <2>2, <2>3 DEF WorkerGet, ServiceTypeOK
<1>3. CASE WorkerTake
  <2>1. worker.key \in Key
    BY <1>1, <1>3 DEF WorkerTake, WorkerState
  <2>2. pending[worker.key] # NoItem => Worker("build", worker.key, pending[worker.key]) \in WorkerState
    BY <1>1, <2>1 DEF Worker, WorkerState
  <2>3. worker' \in WorkerState
    BY <1>1, <1>3, <2>2 DEF WorkerTake
  <2>4. pending' \in [Key -> Token \cup {NoItem}] /\ inflight' \in [Key -> Token \cup {NoItem}]
    BY <1>1, <1>3, <2>1 DEF WorkerTake
  <2>5. QED  BY <1>3, <2>3, <2>4 DEF WorkerTake, ServiceTypeOK
<1>4. ASSUME NEW d \in Digests, WorkerBuilt(d) PROVE ServiceTypeOK'
  <2>1. worker.key \in Key /\ worker.task \in Token
    BY <1>1, <1>4 DEF WorkerBuilt, WorkerState
  <2> DEFINE result == [key |-> worker.key, token |-> worker.task, digest |-> d]
  <2>2. result \in Result
    BY <2>1 DEF Result
  <2>3. ready \in Seq(Result) /\ (ready' = ready \/ ready' = Append(ready, result))
    BY <1>4 DEF WorkerBuilt, ServiceTypeOK
  <2>4. ready' \in Seq(Result)
    BY <2>2, <2>3
  <2>5. slots' \in [Key -> SlotStatus \cup {NoItem}] /\ inflight' \in [Key -> Token \cup {NoItem}]
    BY <1>1, <1>4 DEF WorkerBuilt, ServiceTypeOK, SlotStatus
  <2>6. QED  BY <1>1, <1>4, <2>4, <2>5 DEF WorkerBuilt, ServiceTypeOK
<1>5. CASE WorkerFailed
  <2>1. worker.key \in Key /\ worker.task \in Token
    BY <1>1, <1>5 DEF WorkerFailed, WorkerState
  <2>2. [worker EXCEPT !.at = "close"] \in WorkerState
    BY <1>1, <1>5, <2>1 DEF WorkerFailed, WorkerState
  <2>3. worker' \in WorkerState
    BY <1>1, <1>5, <2>2 DEF WorkerFailed
  <2>4. slots' \in [Key -> SlotStatus \cup {NoItem}] /\ inflight' \in [Key -> Token \cup {NoItem}]
    BY <1>1, <1>5 DEF WorkerFailed, ServiceTypeOK, SlotStatus
  <2>5. QED  BY <1>5, <2>3, <2>4 DEF WorkerFailed, ServiceTypeOK
<1>6. CASE WorkerCloseKey
  BY <1>1, <1>6 DEF WorkerCloseKey, ServiceTypeOK
<1>7. QED  BY <1>2, <1>3, <1>4, <1>5, <1>6 DEF WorkerStep

LEMMA ServiceUntouched ==
  ASSUME ServiceTypeOK, UNCHANGED serviceVars
  PROVE  ServiceTypeOK'
  BY DEF ServiceTypeOK, serviceVars

-----------------------------------------------------------------------------
\* No waiting task is lost.

\* A key that counts as queued is in the queue or about to be taken: only this
\* makes it safe that submit does not queue such a key again.
InQueue(k) == \/ \E i \in DOMAIN queue : queue[i] = k
              \/ worker.at = "take" /\ worker.key = k

QueueInv ==
  ~closed => /\ \A k \in queuedKeys : InQueue(k)
             /\ \A k \in Key : pending[k] # NoItem => k \in queuedKeys

LEMMA QueueInvSuffices == ServiceTypeOK /\ QueueInv => QueueCoversPending
  BY DEF ServiceTypeOK, QueueInv, QueueCoversPending, InQueue

LEMMA SubmitKeepsQueue ==
  ASSUME ServiceTypeOK, QueueInv, NEW k \in Key, Submit(k)
  PROVE  QueueInv'
<1> DEFINE status == SubmitStatus(k)
<1>1. SubmitToQueue(k, status) /\ closed' = closed /\ worker' = worker
  BY DEF Submit, SubmitToQueue
<1>2. queue \in Seq(Key \cup {NoItem}) /\ k \in Key \cup {NoItem}
      /\ pending \in [Key -> Token \cup {NoItem}]
  BY DEF ServiceTypeOK
<1>3. /\ queue' = queue \/ queue' = Append(queue, k)
      /\ k \notin queuedKeys /\ k \in queuedKeys' => queue' = Append(queue, k)
      /\ queuedKeys \subseteq queuedKeys' /\ queuedKeys' \subseteq queuedKeys \cup {k}
      /\ \A j \in Key : j # k => pending'[j] = pending[j]
      /\ pending'[k] # NoItem => pending[k] # NoItem \/ k \in queuedKeys'
  BY <1>1, <1>2 DEF SubmitToQueue, NeedsQueueSlot
<1>4. /\ \A i \in DOMAIN queue : i \in DOMAIN queue' /\ queue'[i] = queue[i]
      /\ queue' = Append(queue, k) => \E i \in DOMAIN queue' : queue'[i] = k
  <2>1. CASE queue' = queue
    <3>1. queue' # Append(queue, k)
      BY <1>2, <2>1
    <3>2. QED  BY <2>1, <3>1
  <2>2. CASE queue' = Append(queue, k)
    <3>1. Len(queue) + 1 \in DOMAIN queue' /\ queue'[Len(queue) + 1] = k
      BY <1>2, <2>2
    <3>2. \A i \in DOMAIN queue : i \in DOMAIN queue' /\ queue'[i] = queue[i]
      BY <1>2, <2>2
    <3>3. QED  BY <3>1, <3>2
  <2>3. QED  BY <1>3, <2>1, <2>2
<1>5. \A j : InQueue(j) => InQueue(j)'
  BY <1>1, <1>4 DEF InQueue
<1>6. k \notin queuedKeys /\ k \in queuedKeys' => InQueue(k)'
  BY <1>3, <1>4 DEF InQueue
<1>7. QED  BY <1>1, <1>3, <1>5, <1>6 DEF QueueInv

\* Cancellation takes a key out of both tables and leaves it in the queue.
LEMMA CancelKeepsQueue ==
  ASSUME ServiceTypeOK, QueueInv,
         \/ \E s \in Streams, g \in Generations : CancelGeneration(s, g) \/ CancelBeforeGeneration(s, g)
         \/ \E k \in Key, status \in SlotStatus : CancelSlot(k, status)
         \/ DrainReady \/ RaiseStop
  PROVE  QueueInv'
<1>1. ASSUME NEW dropped, pending' = WithoutKeys(pending, dropped), queuedKeys' = queuedKeys \ dropped,
             UNCHANGED <<queue, worker, closed>>
      PROVE  QueueInv'
  BY <1>1 DEF QueueInv, InQueue, WithoutKeys
<1>2. ASSUME NEW s \in Streams, NEW g \in Generations,
             CancelGeneration(s, g) \/ CancelBeforeGeneration(s, g)
      PROVE  QueueInv'
  BY <1>1, <1>2 DEF CancelGeneration, CancelBeforeGeneration
<1>3. CASE DrainReady \/ \E k \in Key, status \in SlotStatus : CancelSlot(k, status)
  BY <1>3 DEF DrainReady, CancelSlot, QueueInv, InQueue
<1>4. CASE RaiseStop
  BY <1>4 DEF RaiseStop, QueueInv
<1>5. QED  BY <1>2, <1>3, <1>4

\* start and close forget every waiting task.
LEMMA StartKeepsQueue ==
  ASSUME Start \/ ClearAndPoison
  PROVE  QueueInv'
  BY DEF Start, ClearAndPoison, ClearTables, QueueInv

\* The worker takes the key it has been given, and with it the task.
LEMMA WorkerKeepsQueue ==
  ASSUME ServiceTypeOK, QueueInv, WorkerStep
  PROVE  QueueInv'
<1>1. queue \in Seq(Key \cup {NoItem}) /\ queuedKeys \subseteq Key /\ worker \in WorkerState
  BY DEF ServiceTypeOK
<1>2. CASE WorkerGet
  <2>1. /\ queue # <<>> /\ queue' = Tail(queue) /\ worker.at = "get"
        /\ UNCHANGED <<queuedKeys, pending, closed>>
        /\ ~closed /\ Head(queue) # NoItem => worker' = Worker("take", Head(queue), NoItem)
    BY <1>2 DEF WorkerGet
  <2>2. ASSUME NEW k \in queuedKeys, ~closed
        PROVE  InQueue(k)'
    <3>1. k \in Key /\ k # NoItem
      BY <1>1, ServiceAssumption
    <3>2. PICK i \in DOMAIN queue : queue[i] = k
      BY <2>1, <2>2 DEF QueueInv, InQueue
    <3>3. CASE i = 1
      <4>1. Head(queue) = k
        BY <1>1, <2>1, <3>2, <3>3
      <4>2. worker' = Worker("take", k, NoItem)
        BY <2>1, <2>2, <3>1, <4>1
      <4>3. QED  BY <4>2 DEF InQueue, Worker
    <3>4. CASE i # 1
      <4>1. i - 1 \in DOMAIN queue' /\ queue'[i - 1] = k
        BY <1>1, <2>1, <3>2, <3>4
      <4>2. QED  BY <4>1 DEF InQueue
    <3>5. QED  BY <3>3, <3>4
  <2>3. QED  BY <2>1, <2>2 DEF QueueInv
<1>3. CASE WorkerTake
  <2>1. /\ worker.at = "take" /\ queuedKeys' = queuedKeys \ {worker.key}
        /\ UNCHANGED <<queue, closed>>
        /\ \A k \in Key : k # worker.key => pending'[k] = pending[k]
        /\ pending'[worker.key] = NoItem
    BY <1>1, <1>3 DEF WorkerTake, ServiceTypeOK, WorkerState
  <2>2. QED  BY <1>1, <2>1 DEF QueueInv, InQueue
<1>4. ASSUME worker.at # "take", UNCHANGED <<queue, pending, queuedKeys, closed>>
      PROVE  QueueInv'
  BY <1>4 DEF QueueInv, InQueue
<1>5. CASE WorkerFailed \/ WorkerCloseKey \/ \E d \in Digests : WorkerBuilt(d)
  BY <1>4, <1>5 DEF WorkerFailed, WorkerCloseKey, WorkerBuilt
<1>6. QED  BY <1>2, <1>3, <1>5 DEF WorkerStep

-----------------------------------------------------------------------------
\* No overtaken result is handed out.

\* What a filter leaves of the results is some of the results.
LEMMA ReadyWithoutElements ==
  ASSUME ServiceTypeOK, NEW doomed, NEW n \in DOMAIN ReadyWithout(doomed)
  PROVE  \E i \in DOMAIN ready : /\ ReadyWithout(doomed)[n] = ready[i]
                                 /\ ready[i].key \notin doomed
<1> DEFINE kept == {i \in DOMAIN ready : ready[i].key \notin doomed}
<1>1. ready \in Seq(Result)
  BY DEF ServiceTypeOK
<1>2. kept \in SUBSET Nat /\ IsFiniteSet(kept)
  BY <1>1, PositionsAreFinite
<1>3. ReadyWithout(doomed) = [m \in 1 .. Cardinality(kept) |-> ready[Nth(m, kept)]]
  BY DEF ReadyWithout
<1>4. n \in 1 .. Cardinality(kept) /\ ReadyWithout(doomed)[n] = ready[Nth(n, kept)]
  BY <1>3
<1>5. Nth(n, kept) \in kept
  BY <1>2, <1>4, NthIsAnElement
<1>6. QED  BY <1>4, <1>5

LEMMA CancelKeepsCurrent ==
  ASSUME ServiceTypeOK, ReadyIsCurrent, NEW s \in Streams, NEW g \in Generations,
         CancelGeneration(s, g) \/ CancelBeforeGeneration(s, g)
  PROVE  ReadyIsCurrent'
<1>1. \A i \in DOMAIN ready : ready[i].key \in Key
  <2>1. ready \in Seq(Result)
    BY DEF ServiceTypeOK
  <2>2. \A i \in DOMAIN ready : ready[i] \in Result
    BY <2>1
  <2>3. QED  BY <2>2 DEF Result
<1>2. CASE CancelGeneration(s, g)
  <2> DEFINE matching == {k \in Key : Generation(k) = <<s, g>>}
  <2>1. /\ ready' = ReadyWithout(matching) /\ cancelled' = cancelled \cup {<<s, g>>}
        /\ UNCHANGED <<session, svcFloor>>
    BY <1>2 DEF CancelGeneration
  <2>2. ASSUME NEW i \in DOMAIN ready, ready[i].key \notin matching
        PROVE  Generation(ready[i].key) \notin cancelled'
    BY <1>1, <2>1, <2>2 DEF ReadyIsCurrent, Cancelled
  <2>3. QED
    BY <2>1, <2>2, ReadyWithoutElements DEF ReadyIsCurrent, Cancelled, BelowServiceFloor
<1>3. CASE CancelBeforeGeneration(s, g)
  <2> DEFINE raised == IF g > svcFloor[s] THEN g ELSE svcFloor[s]
             matching == {k \in Key : k.stream = s /\ k.generation < raised}
  <2>1. /\ ready' = ReadyWithout(matching) /\ session' = session
        /\ svcFloor' = [svcFloor EXCEPT ![s] = raised]
        /\ \A x \in cancelled' : x \in cancelled \/ \E k \in matching : x = Generation(k)
    BY <1>3 DEF CancelBeforeGeneration
  <2>2. ASSUME NEW i \in DOMAIN ready, ready[i].key \notin matching
        PROVE  /\ Generation(ready[i].key) \notin cancelled'
               /\ ~(ready[i].key.generation < svcFloor'[ready[i].key.stream])
    <3>1. ready[i].key \in Key /\ ready[i].key.stream \in Streams
      BY <1>1 DEF Key
    <3>2. \A k \in matching : Generation(ready[i].key) # Generation(k)
      BY <2>2, <3>1 DEF Generation
    <3>3. Generation(ready[i].key) \notin cancelled'
      BY <2>1, <3>2 DEF ReadyIsCurrent, Cancelled
    <3>4. ~(ready[i].key.generation < svcFloor'[ready[i].key.stream])
      BY <2>1, <2>2, <3>1 DEF ReadyIsCurrent, BelowServiceFloor, ServiceTypeOK
    <3>5. QED  BY <3>3, <3>4
  <2>3. QED
    BY <2>1, <2>2, ReadyWithoutElements DEF ReadyIsCurrent, Cancelled, BelowServiceFloor
<1>4. QED  BY <1>2, <1>3

LEMMA WorkerKeepsCurrent ==
  ASSUME ServiceTypeOK, ReadyIsCurrent, WorkerStep
  PROVE  ReadyIsCurrent'
<1>1. UNCHANGED <<cancelled, svcFloor, session>>
  BY DEF WorkerStep, WorkerGet, WorkerTake, WorkerFailed, WorkerBuilt, WorkerCloseKey
<1>2. CASE ready' = ready
  BY <1>1, <1>2 DEF ReadyIsCurrent, Cancelled, BelowServiceFloor
<1>3. ASSUME NEW d \in Digests, WorkerBuilt(d), ready' # ready
      PROVE  ReadyIsCurrent'
  <2> DEFINE result == [key |-> worker.key, token |-> worker.task, digest |-> d]
  <2>1. /\ ready' = Append(ready, result)
        /\ worker.task.session = session
        /\ ~Cancelled(worker.key) /\ ~BelowServiceFloor(worker.key)
    BY <1>3 DEF WorkerBuilt
  <2>2. ready \in Seq(Result)
    BY DEF ServiceTypeOK
  <2>3. \A i \in DOMAIN ready' : (i \in DOMAIN ready /\ ready'[i] = ready[i]) \/ ready'[i] = result
    BY <2>1, <2>2
  <2>4. QED
    BY <1>1, <2>1, <2>3 DEF ReadyIsCurrent, Cancelled, BelowServiceFloor
<1>4. QED
  BY <1>2, <1>3 DEF WorkerStep, WorkerGet, WorkerTake, WorkerFailed, WorkerCloseKey

\* The other critical sections leave the results alone or drop them all.
LEMMA OthersKeepCurrent ==
  ASSUME ServiceTypeOK, ReadyIsCurrent,
         \/ \E k \in Key : Submit(k)
         \/ \E k \in Key, status \in SlotStatus : CancelSlot(k, status)
         \/ ready' = <<>>
         \/ RaiseStop
         \/ UNCHANGED serviceVars
  PROVE  ReadyIsCurrent'
<1>1. CASE ready' = <<>>
  BY <1>1 DEF ReadyIsCurrent
<1>2. CASE UNCHANGED <<ready, cancelled, svcFloor, session>>
  BY <1>2 DEF ReadyIsCurrent, Cancelled, BelowServiceFloor
<1>3. QED
  BY <1>1, <1>2 DEF Submit, SubmitToQueue, CancelSlot, RaiseStop, serviceVars

-----------------------------------------------------------------------------
\* The service under callers that may enter any critical section at any time

ServiceCall ==
  \/ \E k \in Key : Submit(k)
  \/ \E s \in Streams, g \in Generations : CancelGeneration(s, g) \/ CancelBeforeGeneration(s, g)
  \/ \E k \in Key, status \in SlotStatus : CancelSlot(k, status)
  \/ DrainReady \/ Start \/ RaiseStop \/ ClearAndPoison
  \/ WorkerStep
  \/ UNCHANGED serviceVars

ServiceInv == ServiceTypeOK /\ QueueInv /\ ReadyIsCurrent

LEMMA InitServiceInv == ServiceInit => ServiceInv
<1> SUFFICES ASSUME ServiceInit PROVE ServiceInv
  OBVIOUS
<1>1. Dead \in WorkerState
  BY DEF Dead, Worker, WorkerState
<1>2. queue \in Seq(Key \cup {NoItem}) /\ ready \in Seq(Result)
  BY DEF ServiceInit
<1>3. ServiceTypeOK
  BY <1>1, <1>2, ServiceAssumption DEF ServiceInit, ServiceTypeOK
<1>4. QueueInv /\ ReadyIsCurrent
  BY DEF ServiceInit, QueueInv, ReadyIsCurrent
<1>5. QED  BY <1>3, <1>4 DEF ServiceInv

LEMMA CallKeepsServiceInv == ServiceInv /\ ServiceCall => ServiceInv'
<1> SUFFICES ASSUME ServiceInv, ServiceCall PROVE ServiceInv'
  OBVIOUS
<1> USE DEF ServiceInv
<1>1. CASE \E k \in Key : Submit(k)
  BY <1>1, SubmitKeepsType, SubmitKeepsQueue, OthersKeepCurrent
<1>2. CASE \E s \in Streams, g \in Generations : CancelGeneration(s, g) \/ CancelBeforeGeneration(s, g)
  BY <1>2, CancelKeepsType, CancelKeepsQueue, CancelKeepsCurrent
<1>3. CASE \E k \in Key, status \in SlotStatus : CancelSlot(k, status)
  BY <1>3, CancelSlotKeepsType, CancelKeepsQueue, OthersKeepCurrent
<1>4. CASE DrainReady
  <2>1. ready' = <<>> /\ ready' \in Seq(Result)
    BY <1>4 DEF DrainReady
  <2>2. ServiceTypeOK'
    BY <1>4, <2>1 DEF DrainReady, ServiceTypeOK
  <2>3. QED  BY <1>4, <2>1, <2>2, CancelKeepsQueue, OthersKeepCurrent
<1>5. CASE Start \/ ClearAndPoison
  <2>1. ready' = <<>>
    BY <1>5 DEF Start, ClearAndPoison, ClearTables
  <2>2. QED  BY <1>5, <2>1, StartKeepsType, StartKeepsQueue, OthersKeepCurrent
<1>6. CASE RaiseStop
  BY <1>6, StartKeepsType, CancelKeepsQueue, OthersKeepCurrent
<1>7. CASE WorkerStep
  BY <1>7, WorkerKeepsType, WorkerKeepsQueue, WorkerKeepsCurrent
<1>8. CASE UNCHANGED serviceVars
  <2>1. QueueInv'
    BY <1>8 DEF serviceVars, QueueInv, InQueue
  <2>2. QED  BY <1>8, <2>1, ServiceUntouched, OthersKeepCurrent
<1>9. QED  BY <1>1, <1>2, <1>3, <1>4, <1>5, <1>6, <1>7, <1>8 DEF ServiceCall
=============================================================================
