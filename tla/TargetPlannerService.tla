------------------------ MODULE TargetPlannerService ------------------------
(***************************************************************************)
(* The background planner of one rank                                      *)
(* (target_planning/planner_service.py, class TargetLayerPlannerService): *)
(* a bounded queue of task keys, one worker thread, and the tables the     *)
(* training thread and the worker share under one lock.                    *)
(*                                                                         *)
(* Each critical section is one action.  Between two of them the other     *)
(* thread may run: the worker builds a plan outside the lock, and after a  *)
(* failed build it closes the key in the store in a step of its own.       *)
(* A request is abstracted to its key: the source layer of a publication   *)
(* slot is the layer before the target, so slots and keys coincide.        *)
(***************************************************************************)
EXTENDS TargetPlanStore, Sequences, FiniteSets

CONSTANT MaxQueue   \* max_queue_size of the queue.Queue

ASSUME ServiceAssumption ==
  /\ MaxQueue \in Nat \ {0}
  /\ Sessions \subseteq Nat /\ 0 \in Sessions
  /\ Versions \subseteq Nat
  /\ NoItem \notin Key

VARIABLES
  queue,        \* _queue: task keys, and NoItem as the None that stops the worker
  pending,      \* _pending_by_key: the newest task of a key not yet taken
  queuedKeys,   \* _queued_keys
  inflight,     \* _inflight_by_key
  ready,        \* _ready_results
  slots,        \* _publication_state_by_slot: the local status of a slot
  cancelled,    \* _cancelled_generations
  svcFloor,     \* _generation_floor_by_stream of the service
  closed,       \* _closed and _stop
  session,      \* _service_session_id
  version,      \* _next_task_version and _next_publish_sequence
  worker        \* the worker thread: where it is, and its local item

serviceVars == <<queue, pending, queuedKeys, inflight, ready, slots, cancelled,
                 svcFloor, closed, session, version, worker>>

SlotStatus == {"BUILDING", "READY", "FAILED", "CANCELLED", "EXPIRED", "SLOT_MISMATCH"}
Result     == [key : Key, token : Token, digest : Digests]

\* The worker thread outside a task, with a key in hand, and with a task
WorkerState == [at : {"dead", "get"}, key : {NoItem}, task : {NoItem}]
          \cup [at : {"take"}, key : Key, task : {NoItem}]
          \cup [at : {"build", "close"}, key : Key, task : Token]

Worker(at, k, task) == [at |-> at, key |-> k, task |-> task]
Waiting == Worker("get", NoItem, NoItem)
Dead    == Worker("dead", NoItem, NoItem)

ServiceInit ==
  /\ queue      = <<>>
  /\ pending    = [k \in Key |-> NoItem]
  /\ queuedKeys = {}
  /\ inflight   = [k \in Key |-> NoItem]
  /\ ready      = <<>>
  /\ slots      = [k \in Key |-> NoItem]
  /\ cancelled  = {}
  /\ svcFloor   = [s \in Streams |-> 0]
  /\ closed     = FALSE
  /\ session    = 0
  /\ version    = 0
  /\ worker     = Dead

-----------------------------------------------------------------------------
\* Shared tests

Generation(k) == <<k.stream, k.generation>>

Cancelled(k) == Generation(k) \in cancelled

BelowServiceFloor(k) == k.generation < svcFloor[k.stream]

\* The tables filtered or overwritten for a set of doomed keys
WithoutKeys(table, doomed) == [k \in Key |-> IF k \in doomed THEN NoItem ELSE table[k]]

\* The n-th smallest of a set of positions.  (SelectSeq would do here, but
\* nothing can be proved of it.)
Rank(i, positions) == Cardinality({j \in positions : j <= i})
Nth(n, positions)  == CHOOSE i \in positions : Rank(i, positions) = n

\* Faulty variant of the next definition (ReadyIsCurrent): a cancellation
\* leaves the finished results alone.
ReadyWithoutFault(doomed) == ready

ReadyWithout(doomed) ==
  LET kept == {i \in DOMAIN ready : ready[i].key \notin doomed} IN
  [n \in 1 .. Cardinality(kept) |-> ready[Nth(n, kept)]]

SlotsAs(doomed, status) ==
  [k \in Key |-> IF k \in doomed /\ slots[k] # NoItem THEN status ELSE slots[k]]

-----------------------------------------------------------------------------
\* Faulty variants, as in TargetPlanStore

\* WaitingTaskMayPublish: the waiting tasks of a cancelled generation stay.
CancelGenerationFault(s, g) ==
  /\ cancelled' = cancelled \cup {<<s, g>>}
  /\ ready' = ReadyWithout({k \in Key : Generation(k) = <<s, g>>})
  /\ slots' = SlotsAs({k \in Key : Generation(k) = <<s, g>>}, "CANCELLED")
  /\ UNCHANGED <<queue, pending, queuedKeys, inflight, svcFloor, closed, session, version, worker>>

\* CloseStopsWorker: nothing wakes the worker that waits on the empty queue.
ClearAndPoisonFault ==
  /\ pending'    = [k \in Key |-> NoItem]
  /\ queuedKeys' = {}
  /\ inflight'   = [k \in Key |-> NoItem]
  /\ ready'      = <<>>
  /\ slots'      = [k \in Key |-> NoItem]
  /\ svcFloor'   = [s \in Streams |-> 0]
  /\ queue'      = <<>>
  /\ UNCHANGED <<cancelled, closed, session, version, worker>>

\* QueueCoversPending: the key of a taken task still counts as queued.
WorkerTakeFault ==
  LET k == worker.key IN
  /\ worker.at = "take"
  /\ IF pending[k] = NoItem
     THEN /\ worker' = Waiting
          /\ UNCHANGED <<pending, inflight>>
     ELSE /\ worker'   = Worker("build", k, pending[k])
          /\ pending'  = [pending EXCEPT ![k] = NoItem]
          /\ inflight' = [inflight EXCEPT ![k] = pending[k]]
  /\ UNCHANGED <<queue, queuedKeys, ready, slots, cancelled, svcFloor, closed, session, version>>

\* BuildingEnds: a failed build is not reported in the slot.
WorkerFailedFault ==
  /\ worker.at = "build"
  /\ inflight' = [inflight EXCEPT ![worker.key] = NoItem]
  /\ worker' = Waiting
  /\ UNCHANGED <<queue, pending, queuedKeys, ready, slots, cancelled, svcFloor, closed, session, version>>

-----------------------------------------------------------------------------
\* The training thread: submit

Task == [session |-> session, version |-> version + 1]

NeedsQueueSlot(k) == k \notin queuedKeys

QueueIsFull == Len(queue) >= MaxQueue

SubmitStatus(k) ==
  IF closed THEN "REJECTED_CLOSED"
  ELSE IF BelowServiceFloor(k) \/ Cancelled(k) THEN "REJECTED_EXPIRED"
  ELSE IF NeedsQueueSlot(k) /\ QueueIsFull THEN "DROPPED_OVERLOAD"
  ELSE IF ~Registered(k) THEN "REJECTED_UNREGISTERED"   \* reported as REJECTED_EXPIRED
  ELSE IF pending[k] # NoItem \/ inflight[k] # NoItem THEN "REPLACED_STALE"
  ELSE "ACCEPTED"

\* What submit does to the service.  Version numbers are spent even on a task
\* that is dropped; a task the store refuses leaves its key in the queue.
SubmitToQueue(k, status) ==
  /\ version' = IF status \in {"REJECTED_CLOSED", "REJECTED_EXPIRED"} THEN version ELSE version + 1
  /\ IF status \in {"REJECTED_CLOSED", "REJECTED_EXPIRED", "DROPPED_OVERLOAD"}
     THEN UNCHANGED <<queue, queuedKeys, pending>>
     ELSE /\ queue' = IF NeedsQueueSlot(k) THEN Append(queue, k) ELSE queue
          /\ IF status = "REJECTED_UNREGISTERED" /\ NeedsQueueSlot(k)
             THEN /\ pending' = [pending EXCEPT ![k] = NoItem]
                  /\ UNCHANGED queuedKeys
             ELSE /\ pending' = [pending EXCEPT ![k] = Task]
                  /\ queuedKeys' = queuedKeys \cup {k}
  /\ slots' = IF status \in {"ACCEPTED", "REPLACED_STALE"}
              THEN [slots EXCEPT ![k] = "BUILDING"] ELSE slots
  /\ UNCHANGED <<inflight, ready, cancelled, svcFloor, closed, session, worker>>

\* submit, the registration in the store included: it happens under the lock.
Submit(k) ==
  LET status == SubmitStatus(k) IN
  /\ version + 1 \in Versions
  /\ SubmitToQueue(k, status)
  /\ IF status \in {"ACCEPTED", "REPLACED_STALE"}
     THEN RegisterExpectedPublication(k, Task)
     ELSE UNCHANGED storeVars

-----------------------------------------------------------------------------
\* The training thread: cancel, drain, start, close

CancelGeneration(s, g) ==
  LET matching == {k \in Key : Generation(k) = <<s, g>>}
      dropped  == {k \in matching : pending[k] # NoItem} IN
  /\ cancelled'  = cancelled \cup {<<s, g>>}
  /\ pending'    = WithoutKeys(pending, dropped)
  /\ queuedKeys' = queuedKeys \ dropped
  /\ ready'      = ReadyWithout(matching)
  /\ slots'      = SlotsAs(matching, "CANCELLED")
  /\ UNCHANGED <<queue, inflight, svcFloor, closed, session, version, worker>>

\* cancel_before_generation: a task in flight is not stopped; its generation
\* joins the cancelled ones so that its result is dropped.
CancelBeforeGeneration(s, g) ==
  LET raised   == IF g > svcFloor[s] THEN g ELSE svcFloor[s]
      matching == {k \in Key : k.stream = s /\ k.generation < raised}
      dropped  == {k \in matching : pending[k] # NoItem}
      running  == {k \in matching : inflight[k] # NoItem} IN
  /\ svcFloor'   = [svcFloor EXCEPT ![s] = raised]
  /\ pending'    = WithoutKeys(pending, dropped)
  /\ queuedKeys' = queuedKeys \ dropped
  /\ ready'      = ReadyWithout(matching)
  /\ slots'      = SlotsAs(matching, "EXPIRED")
  /\ cancelled'  = cancelled \cup {Generation(k) : k \in dropped \cup running}
  /\ UNCHANGED <<queue, inflight, closed, session, version, worker>>

\* cancel_slot
CancelSlot(k, status) ==
  /\ slots' = SlotsAs({k}, status)
  /\ UNCHANGED <<queue, pending, queuedKeys, inflight, ready, cancelled, svcFloor,
                 closed, session, version, worker>>

\* drain_ready_publications hands every result to the caller ...
DrainReady ==
  /\ ready # <<>>
  /\ ready' = <<>>
  /\ UNCHANGED <<queue, pending, queuedKeys, inflight, slots, cancelled, svcFloor,
                 closed, session, version, worker>>

\* ... and local_publication_candidate says which of them may be presented.
Presentable(r) == ~Cancelled(r.key) /\ r.token.session = session

\* Clearing shared by start and close
ClearTables ==
  /\ pending'    = [k \in Key |-> NoItem]
  /\ queuedKeys' = {}
  /\ inflight'   = [k \in Key |-> NoItem]
  /\ ready'      = <<>>
  /\ slots'      = [k \in Key |-> NoItem]
  /\ svcFloor'   = [s \in Streams |-> 0]

\* start does nothing while the thread lives, even if the service is closed.
Start ==
  /\ worker.at = "dead"
  /\ session + 1 \in Sessions
  /\ session' = session + 1
  /\ version' = 0
  /\ closed' = FALSE
  /\ queue' = <<>>
  /\ ClearTables
  /\ cancelled' = {}
  /\ worker' = Waiting

\* close raises the flags first ...
RaiseStop ==
  /\ closed' = TRUE
  /\ UNCHANGED <<queue, pending, queuedKeys, inflight, ready, slots, cancelled,
                 svcFloor, session, version, worker>>

\* ... then clears the tables, empties the queue and leaves the None.
ClearAndPoison ==
  /\ ClearTables
  /\ queue' = <<NoItem>>
  /\ UNCHANGED <<cancelled, closed, session, version, worker>>

-----------------------------------------------------------------------------
\* The worker thread

WorkerGet ==
  /\ worker.at = "get"
  /\ queue # <<>>
  /\ queue' = Tail(queue)
  /\ worker' = IF Head(queue) = NoItem THEN Dead
               ELSE IF closed THEN Waiting
               ELSE Worker("take", Head(queue), NoItem)
  /\ UNCHANGED <<pending, queuedKeys, inflight, ready, slots, cancelled,
                 svcFloor, closed, session, version>>

WorkerTake ==
  LET k == worker.key IN
  /\ worker.at = "take"
  /\ queuedKeys' = queuedKeys \ {k}
  /\ IF pending[k] = NoItem
     THEN /\ worker' = Waiting
          /\ UNCHANGED <<pending, inflight>>
     ELSE /\ worker'   = Worker("build", k, pending[k])
          /\ pending'  = [pending EXCEPT ![k] = NoItem]
          /\ inflight' = [inflight EXCEPT ![k] = pending[k]]
  /\ UNCHANGED <<queue, ready, slots, cancelled, svcFloor, closed, session, version>>

StillInflight == inflight[worker.key] # NoItem /\ inflight[worker.key].version = worker.task.version

\* The plan was built: it becomes a ready result unless it has been overtaken.
WorkerBuilt(digest) ==
  LET k == worker.key
      overtaken == \/ pending[k] # NoItem /\ pending[k].version > worker.task.version
                   \/ Cancelled(k)
                   \/ BelowServiceFloor(k)
                   \/ worker.task.session # session IN
  /\ worker.at = "build"
  /\ inflight' = IF StillInflight THEN [inflight EXCEPT ![k] = NoItem] ELSE inflight
  /\ IF StillInflight /\ ~overtaken
     THEN /\ ready' = Append(ready, [key |-> k, token |-> worker.task, digest |-> digest])
          /\ slots' = [slots EXCEPT ![k] = "READY"]
     ELSE UNCHANGED <<ready, slots>>
  /\ worker' = Waiting
  /\ UNCHANGED <<queue, pending, queuedKeys, cancelled, svcFloor, closed, session, version>>

\* The build raised.  Whether the key is to be closed is decided here, under the
\* lock; it is closed in the store after the lock is released (WorkerCloseKey).
WorkerFailed ==
  LET k == worker.key
      publishFailed == /\ pending[k] = NoItem
                       /\ worker.task.session = session
                       /\ ~Cancelled(k)
                       /\ ~BelowServiceFloor(k) IN
  /\ worker.at = "build"
  /\ inflight' = IF StillInflight THEN [inflight EXCEPT ![k] = NoItem] ELSE inflight
  /\ slots' = IF publishFailed THEN [slots EXCEPT ![k] = "FAILED"]
              ELSE IF Cancelled(k) THEN [slots EXCEPT ![k] = "CANCELLED"]
              ELSE IF BelowServiceFloor(k) THEN [slots EXCEPT ![k] = "EXPIRED"]
              ELSE slots
  /\ worker' = IF publishFailed THEN [worker EXCEPT !.at = "close"] ELSE Waiting
  /\ UNCHANGED <<queue, pending, queuedKeys, ready, cancelled, svcFloor, closed, session, version>>

WorkerCloseKey ==
  /\ worker.at = "close"
  /\ CloseKeyIfUnclaimed(worker.key, "FAILED")
  /\ worker' = Waiting
  /\ UNCHANGED <<queue, pending, queuedKeys, inflight, ready, slots, cancelled,
                 svcFloor, closed, session, version>>

WorkerStep ==
  \/ (WorkerGet \/ WorkerTake \/ WorkerFailed) /\ UNCHANGED storeVars
  \/ (\E d \in Digests : WorkerBuilt(d)) /\ UNCHANGED storeVars
  \/ WorkerCloseKey

-----------------------------------------------------------------------------
\* Properties that every composition with this service keeps

\* The tables of the service hold what their annotations say.
ServiceTypeOK ==
  /\ queue      \in Seq(Key \cup {NoItem})
  /\ pending    \in [Key -> Token \cup {NoItem}]
  /\ queuedKeys \subseteq Key
  /\ inflight   \in [Key -> Token \cup {NoItem}]
  /\ ready      \in Seq(Result)
  /\ slots      \in [Key -> SlotStatus \cup {NoItem}]
  /\ cancelled  \subseteq Streams \X Generations
  /\ svcFloor   \in [Streams -> Nat]
  /\ closed     \in BOOLEAN
  /\ session    \in Sessions
  /\ version    \in Nat
  /\ worker     \in WorkerState

\* No wakeup is lost: while the service runs, the key of every waiting task is
\* in the queue or in the hand of the worker about to take the task.
QueueCoversPending ==
  \A k \in Key : ~closed /\ pending[k] # NoItem =>
    /\ k \in queuedKeys
    /\ (\E i \in DOMAIN queue : queue[i] = k) \/ (worker.at = "take" /\ worker.key = k)

\* Ready results are worth publishing: they come from the running session, and
\* no cancellation or newer forward has overtaken them.
ReadyIsCurrent ==
  \A i \in DOMAIN ready :
    /\ ready[i].token.session = session
    /\ ~Cancelled(ready[i].key)
    /\ ~BelowServiceFloor(ready[i].key)

\* Where a task is after it was taken from the waiting ones.
TaskAtWorker(k) == IF worker.at = "build" /\ worker.key = k THEN {worker.task} ELSE {}
TasksReady(k)   == {ready[i].token : i \in {j \in DOMAIN ready : ready[j].key = k}}

\* A waiting task keeps the right to publish until its key is closed or its
\* forward is over: nobody registers the key away from it.
WaitingTaskMayPublish ==
  \A k \in Key : ~closed /\ pending[k] # NoItem =>
    publishTokens[k] = pending[k] \/ Live(k) \/ terminal[k] # NoItem
=============================================================================
