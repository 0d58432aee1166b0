-------------------------- MODULE TargetPlanStore --------------------------
(***************************************************************************)
(* The store of prepared target-layer plans of the RouteSense online      *)
(* runtime (target_planning/store.py, class TargetPlanStore).             *)
(*                                                                         *)
(* Every public method runs under one re-entrant lock, so each method is   *)
(* one action.  A method that raises before it has changed anything is     *)
(* not an action (nothing moves); one that raises after it has changed     *)
(* something is (see Finalize).                                            *)
(*                                                                         *)
(* The dictionaries of the class are total functions over Key whose value  *)
(* NoItem stands for "key not in the dictionary".  A plan is abstracted to *)
(* the digest of its logical plan, and owners, origins and time stamps are *)
(* left out: no guard of the store reads them.                             *)
(***************************************************************************)
EXTENDS Integers

CONSTANTS
  Streams,      \* (run_id, microbatch_id) pairs
  Generations,  \* forward epochs
  Layers,       \* target layer ids
  Digests,      \* logical plan digests
  Sessions,     \* planner service sessions that issue tokens
  Versions,     \* task versions, and publish sequence numbers, of a session
  NoItem        \* absent dictionary entry, and the empty digest of a tombstone

Key == [stream : Streams, generation : Generations, layer : Layers]

LiveState  == {"LOGICAL_READY", "CLAIMED", "BOUND", "EXECUTING"}
FinalState == {"COMPLETED", "FAILED", "EXPIRED", "CANCELLED", "REJECTED", "CONSUMED"}

\* PreparationToken.  Its target_key is the key it is stored under and its
\* forward_generation that key's generation; the one issuer of tokens advances
\* task_version and publish_sequence together, so one field stands for both.
Token          == [session : Sessions, version : Versions]
StoredPlan     == [digest : Digests, state : LiveState]
TerminalRecord == [digest : Digests \cup {NoItem}, status : FinalState]

ASSUME StoreAssumption ==
  /\ Generations \subseteq Nat
  /\ NoItem \notin StoredPlan
  /\ NoItem \notin TerminalRecord
  /\ NoItem \notin Token
  /\ NoItem \notin Digests

VARIABLES
  plans,          \* _plans: published, nobody has claimed it
  claimed,        \* _claimed: owned by the reconciliation or the executor
  terminal,       \* _terminal: the final record of a key
  publishTokens,  \* _publish_tokens: the one task allowed to publish a key
  floor           \* _generation_floor_by_stream

storeVars == <<plans, claimed, terminal, publishTokens, floor>>

StoreInit ==
  /\ plans         = [k \in Key |-> NoItem]
  /\ claimed       = [k \in Key |-> NoItem]
  /\ terminal      = [k \in Key |-> NoItem]
  /\ publishTokens = [k \in Key |-> NoItem]
  /\ floor         = [s \in Streams |-> 0]

-----------------------------------------------------------------------------
\* Reading the store

Expired(k) == k.generation < floor[k.stream]

Live(k) == plans[k] # NoItem \/ claimed[k] # NoItem

\* The entry a pop of _plans, then of _claimed, finds.
Item(k) == IF plans[k] # NoItem THEN plans[k] ELSE claimed[k]

\* peek: the digest of an unclaimed plan
Peek(k) == IF plans[k] # NoItem /\ plans[k].state = "LOGICAL_READY"
           THEN plans[k].digest ELSE NoItem

\* The final statuses _finalize accepts for an entry in this state.
Finals(state) ==
  IF state = "EXECUTING" THEN {"COMPLETED", "FAILED"}
                         ELSE {"FAILED", "EXPIRED", "CANCELLED", "REJECTED"}

Final(digest, status) == [digest |-> digest, status |-> status]

-----------------------------------------------------------------------------
\* Faulty variants.  No specification uses a definition whose name ends in
\* "Fault": each is one plausible mistake in the operation it is named after,
\* and shows that the property written beside it notices the mistake.

\* NothingBelowFloor: the floor is not looked at when a token is registered.
RegisteredFault(k) == TRUE

\* DigestIsStable: a live plan is overwritten.
PublishStatusFault(k, token, digest) ==
  IF Expired(k) THEN "EXPIRED_GENERATION"
  ELSE IF publishTokens[k] = NoItem THEN "STALE_TOKEN"
  ELSE IF publishTokens[k] # token THEN "SLOT_MISMATCH"
  ELSE "PUBLISHED"

\* PublishedIsNewest: only the session of the token is compared.
PublishVersionFault(k, token, digest) ==
  IF Expired(k) THEN "EXPIRED_GENERATION"
  ELSE IF publishTokens[k] = NoItem THEN "STALE_TOKEN"
  ELSE IF publishTokens[k].session # token.session THEN "STALE_SESSION"
  ELSE IF Live(k)
       THEN IF Item(k).digest = digest THEN "ALREADY_PUBLISHED_SAME" ELSE "CONFLICTING_PLAN"
  ELSE "PUBLISHED"

\* StagesInOrder: complete accepts a plan that was never executed.
CompleteFault(k) ==
  /\ claimed[k] # NoItem
  /\ claimed'  = [claimed EXCEPT ![k] = NoItem]
  /\ terminal' = [terminal EXCEPT ![k] = Final(claimed[k].digest, "COMPLETED")]
  /\ publishTokens' = [publishTokens EXCEPT ![k] = NoItem]
  /\ UNCHANGED <<plans, floor>>

\* PlanLifecycleHolds: the plan is removed and nothing recorded.
FinalizeFault(k, status) ==
  /\ Live(k)
  /\ plans'   = [plans EXCEPT ![k] = NoItem]
  /\ claimed' = [claimed EXCEPT ![k] = NoItem]
  /\ publishTokens' = [publishTokens EXCEPT ![k] = NoItem]
  /\ UNCHANGED <<terminal, floor>>

\* RecordIsKept: the tombstone is written over an earlier record.
CloseKeyIfUnclaimedFault(k, status) ==
  IF claimed[k] = NoItem
  THEN /\ plans' = [plans EXCEPT ![k] = NoItem]
       /\ terminal' = [terminal EXCEPT ![k] =
            Final(IF plans[k] # NoItem THEN plans[k].digest ELSE NoItem, status)]
       /\ publishTokens' = [publishTokens EXCEPT ![k] = NoItem]
       /\ UNCHANGED <<claimed, floor>>
  ELSE UNCHANGED storeVars

\* CleanBetweenForwards: the clean-up forgets the tokens.
CleanupMatchingFault(doomed) ==
  /\ plans'   = [k \in Key |-> IF k \in doomed THEN NoItem ELSE plans[k]]
  /\ claimed' = [k \in Key |-> IF k \in doomed THEN NoItem ELSE claimed[k]]
  /\ terminal' = [k \in Key |->
       IF k \in doomed /\ Live(k) /\ terminal[k] = NoItem
       THEN Final(Item(k).digest,
                  IF Item(k).state = "EXECUTING" THEN "FAILED" ELSE "CANCELLED")
       ELSE terminal[k]]
  /\ UNCHANGED publishTokens

-----------------------------------------------------------------------------
\* Publication

\* register_expected_publication; the caller learns Registered(k).
Registered(k) == ~Expired(k)

RegisterExpectedPublication(k, token) ==
  /\ publishTokens' = IF Registered(k) THEN [publishTokens EXCEPT ![k] = token]
                                       ELSE publishTokens
  /\ UNCHANGED <<plans, claimed, terminal, floor>>

ClearExpectedPublication(k) ==
  /\ publishTokens' = [publishTokens EXCEPT ![k] = NoItem]
  /\ UNCHANGED <<plans, claimed, terminal, floor>>

\* The result of publish_if_current for a valid plan whose identity is that
\* of the key, in the order of the early returns.
PublishStatus(k, token, digest) ==
  IF Expired(k) THEN "EXPIRED_GENERATION"
  ELSE IF publishTokens[k] = NoItem
       THEN IF terminal[k] # NoItem THEN "TERMINAL" ELSE "STALE_TOKEN"
  ELSE IF publishTokens[k].session # token.session THEN "STALE_SESSION"
  ELSE IF publishTokens[k].version # token.version THEN "SLOT_MISMATCH"
  ELSE IF Live(k)
       THEN IF Item(k).digest = digest THEN "ALREADY_PUBLISHED_SAME" ELSE "CONFLICTING_PLAN"
  ELSE "PUBLISHED"

PublishIfCurrent(k, token, digest) ==
  LET status == PublishStatus(k, token, digest) IN
  /\ plans' = IF status = "PUBLISHED"
              THEN [plans EXCEPT ![k] = [digest |-> digest, state |-> "LOGICAL_READY"]]
              ELSE plans
  /\ publishTokens' = IF status \in {"PUBLISHED", "ALREADY_PUBLISHED_SAME"}
                      THEN [publishTokens EXCEPT ![k] = NoItem]
                      ELSE publishTokens
  /\ UNCHANGED <<claimed, terminal, floor>>

\* publish_logical (and its alias put) checks no token, and raises or returns
\* without effect when the key is expired, closed or live.
PublishLogical(k, digest) ==
  /\ ~Expired(k)
  /\ terminal[k] = NoItem
  /\ ~Live(k)
  /\ plans' = [plans EXCEPT ![k] = [digest |-> digest, state |-> "LOGICAL_READY"]]
  /\ publishTokens' = [publishTokens EXCEPT ![k] = NoItem]
  /\ UNCHANGED <<claimed, terminal, floor>>

-----------------------------------------------------------------------------
\* The owner of a plan: claim, bind, execute, finish

Claim(k) ==
  /\ ~Expired(k)
  /\ plans[k] # NoItem
  /\ plans' = [plans EXCEPT ![k] = NoItem]
  /\ claimed' = IF plans[k].state = "LOGICAL_READY"
                THEN [claimed EXCEPT ![k] = [plans[k] EXCEPT !.state = "CLAIMED"]]
                ELSE claimed
  /\ UNCHANGED <<terminal, publishTokens, floor>>

\* bind and start_execution
Advance(k, from, to) ==
  /\ claimed[k] # NoItem
  /\ claimed[k].state = from
  /\ claimed' = [claimed EXCEPT ![k].state = to]
  /\ UNCHANGED <<plans, terminal, publishTokens, floor>>

Bind(k)           == Advance(k, "CLAIMED", "BOUND")
StartExecution(k) == Advance(k, "BOUND", "EXECUTING")

Complete(k) ==
  /\ claimed[k] # NoItem
  /\ claimed[k].state = "EXECUTING"
  /\ claimed'  = [claimed EXCEPT ![k] = NoItem]
  /\ terminal' = [terminal EXCEPT ![k] = Final(claimed[k].digest, "COMPLETED")]
  /\ publishTokens' = [publishTokens EXCEPT ![k] = NoItem]
  /\ UNCHANGED <<plans, floor>>

\* consume_once looks in _claimed first, and accepts every state.
ConsumeOnce(k) ==
  /\ Live(k)
  /\ IF claimed[k] # NoItem
     THEN /\ claimed' = [claimed EXCEPT ![k] = NoItem]
          /\ terminal' = [terminal EXCEPT ![k] = Final(claimed[k].digest, "CONSUMED")]
          /\ UNCHANGED plans
     ELSE /\ plans' = [plans EXCEPT ![k] = NoItem]
          /\ terminal' = [terminal EXCEPT ![k] = Final(plans[k].digest, "CONSUMED")]
          /\ UNCHANGED claimed
  /\ publishTokens' = [publishTokens EXCEPT ![k] = NoItem]
  /\ UNCHANGED floor

\* fail, reject, invalidate, expire_key and cancel.  The entry and the token are
\* gone before the transition table is looked at: when the table refuses, the
\* method raises and the key has neither an entry nor a terminal record.
Finalize(k, status) ==
  /\ Live(k)
  /\ IF plans[k] # NoItem
     THEN plans' = [plans EXCEPT ![k] = NoItem] /\ UNCHANGED claimed
     ELSE claimed' = [claimed EXCEPT ![k] = NoItem] /\ UNCHANGED plans
  /\ publishTokens' = [publishTokens EXCEPT ![k] = NoItem]
  /\ terminal' = IF status \in Finals(Item(k).state)
                 THEN [terminal EXCEPT ![k] = Final(Item(k).digest, status)]
                 ELSE terminal
  /\ UNCHANGED floor

-----------------------------------------------------------------------------
\* Closing and clean-up

\* close_key_if_unclaimed writes a tombstone even when there is no plan.
CloseKeyIfUnclaimed(k, status) ==
  IF terminal[k] = NoItem /\ claimed[k] = NoItem
  THEN /\ plans' = [plans EXCEPT ![k] = NoItem]
       /\ terminal' = [terminal EXCEPT ![k] =
            Final(IF plans[k] # NoItem THEN plans[k].digest ELSE NoItem, status)]
       /\ publishTokens' = [publishTokens EXCEPT ![k] = NoItem]
       /\ UNCHANGED <<claimed, floor>>
  ELSE UNCHANGED storeVars

\* expire: the plans older than some age, whichever those are
Expire(doomed) ==
  /\ doomed \subseteq {k \in Key : plans[k] # NoItem}
  /\ plans' = [k \in Key |-> IF k \in doomed THEN NoItem ELSE plans[k]]
  /\ terminal' = [k \in Key |-> IF k \in doomed THEN Final(plans[k].digest, "EXPIRED")
                                               ELSE terminal[k]]
  /\ publishTokens' = [k \in Key |-> IF k \in doomed THEN NoItem ELSE publishTokens[k]]
  /\ UNCHANGED <<claimed, floor>>

\* _cleanup_matching_locked: a key that already has a terminal record keeps it.
CleanupMatching(doomed) ==
  /\ plans'         = [k \in Key |-> IF k \in doomed THEN NoItem ELSE plans[k]]
  /\ claimed'       = [k \in Key |-> IF k \in doomed THEN NoItem ELSE claimed[k]]
  /\ publishTokens' = [k \in Key |-> IF k \in doomed THEN NoItem ELSE publishTokens[k]]
  /\ terminal' = [k \in Key |->
       IF k \in doomed /\ Live(k) /\ terminal[k] = NoItem
       THEN Final(Item(k).digest,
                  IF Item(k).state = "EXECUTING" THEN "FAILED" ELSE "CANCELLED")
       ELSE terminal[k]]

CleanupEpoch(s, g) ==
  /\ CleanupMatching({k \in Key : k.stream = s /\ k.generation = g})
  /\ UNCHANGED floor

CleanupBeforeGeneration(s, g) ==
  LET raised == IF g > floor[s] THEN g ELSE floor[s] IN
  /\ floor' = [floor EXCEPT ![s] = raised]
  /\ CleanupMatching({k \in Key : k.stream = s /\ k.generation < raised})

Shutdown == CleanupMatching(Key) /\ UNCHANGED floor

-----------------------------------------------------------------------------
\* The store under callers that may call any method at any time

StoreNext ==
  \/ \E k \in Key :
       \/ \E t \in Token : RegisterExpectedPublication(k, t)
       \/ ClearExpectedPublication(k)
       \/ \E t \in Token, d \in Digests : PublishIfCurrent(k, t, d)
       \/ \E d \in Digests : PublishLogical(k, d)
       \/ Claim(k)
       \/ Bind(k)
       \/ StartExecution(k)
       \/ Complete(k)
       \/ ConsumeOnce(k)
       \/ \E f \in {"FAILED", "REJECTED", "EXPIRED", "CANCELLED"} : Finalize(k, f)
       \/ \E f \in {"FAILED", "EXPIRED", "CANCELLED"} : CloseKeyIfUnclaimed(k, f)
  \/ \E doomed \in SUBSET Key : Expire(doomed)
  \/ \E s \in Streams, g \in Generations :
       \/ CleanupEpoch(s, g)
       \/ CleanupBeforeGeneration(s, g)
  \/ Shutdown

StoreSpec == StoreInit /\ [][StoreNext]_storeVars

-----------------------------------------------------------------------------
\* Properties

\* The dictionaries hold what the type annotations of the class say.
StoreTypeOK ==
  /\ plans         \in [Key -> StoredPlan \cup {NoItem}]
  /\ claimed       \in [Key -> StoredPlan \cup {NoItem}]
  /\ terminal      \in [Key -> TerminalRecord \cup {NoItem}]
  /\ publishTokens \in [Key -> Token \cup {NoItem}]
  /\ floor         \in [Streams -> Nat]

\* A plan has one holder: it waits in _plans or belongs to one claimer, never
\* both, and its state says which (claim moves it, nothing ever moves it back).
OneHolder ==
  \A k \in Key :
    /\ plans[k] # NoItem => claimed[k] = NoItem /\ plans[k].state = "LOGICAL_READY"
    /\ claimed[k] # NoItem => claimed[k].state # "LOGICAL_READY"

\* Once begin_forward has raised the floor of a stream, no plan and no token
\* of an older generation exists, whoever published or registered it.
NothingBelowFloor ==
  \A k \in Key : Expired(k) => ~Live(k) /\ publishTokens[k] = NoItem

\* The digest under a key is the one first published for as long as the key is
\* live: no later publication replaces the plan somebody may have claimed, and
\* the record the key ends with names that plan.
DigestKept(k) ==
  /\ Live(k) /\ Live(k)' => Item(k)'.digest = Item(k).digest
  /\ Live(k) /\ ~Live(k)' /\ terminal'[k] # terminal[k]
       => terminal'[k].digest = Item(k).digest

DigestIsStable == [][\A k \in Key : DigestKept(k)]_storeVars

\* A plan moves along LOGICAL_READY, CLAIMED, BOUND, EXECUTING one stage at a
\* time, and only an executed plan is recorded as COMPLETED.
StageStep == {<<"LOGICAL_READY", "CLAIMED">>, <<"CLAIMED", "BOUND">>, <<"BOUND", "EXECUTING">>}

StageKept(k) ==
  /\ Live(k) /\ Live(k)' /\ Item(k)'.state # Item(k).state
       => <<Item(k).state, Item(k)'.state>> \in StageStep
  /\ terminal'[k] # terminal[k] /\ terminal'[k].status = "COMPLETED"
       => Live(k) /\ Item(k).state = "EXECUTING"

StagesInOrder == [][\A k \in Key : StageKept(k)]_storeVars

\* The record of a key without a live plan is final: no clean-up, tombstone or
\* late call removes or rewrites it.
RecordKept(k) == terminal[k] # NoItem /\ ~Live(k) => terminal'[k] = terminal[k]

RecordIsKept == [][\A k \in Key : RecordKept(k)]_storeVars

=============================================================================
