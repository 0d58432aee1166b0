------------------------- MODULE PlannerClientProofs -------------------------
(***************************************************************************)
(* The store and the planner service keep their invariants under a caller  *)
(* that uses their public methods in any order, restarts the service and   *)
(* publishes results late: for every number of streams, generations and    *)
(* layers, every queue size and every number of restarts; and whatever the *)
(* caller keeps back, only the newest task of a key is ever published.     *)
(***************************************************************************)
EXTENDS PlannerClient, TargetPlannerServiceProofs

ClientInv ==
  /\ StoreInv
  /\ ServiceInv
  /\ drained \subseteq Result
  /\ closing \in Closing

\* A step of the caller or the worker is a call of the service and a method of the
\* store, or leaves the store alone.
LEMMA ClientStepRefines ==
  ASSUME ClientInv, [ClientNext]_clientVars
  PROVE  [StoreNext]_storeVars /\ ServiceCall
<1> USE DEF Call
<1>1. CASE ClientSubmit
  <2>1. PICK k \in Key : Submit(k)
    BY <1>1 DEF ClientSubmit
  <2>2. Task \in Token
    BY <2>1 DEF Submit, Task, Token, ClientInv, ServiceInv, ServiceTypeOK
  <2>3. RegisterExpectedPublication(k, Task) \/ UNCHANGED storeVars
    BY <2>1 DEF Submit
  <2>4. QED  BY <2>1, <2>2, <2>3 DEF StoreNext, ServiceCall
<1>2. CASE ClientCancelGeneration \/ ClientCancelBefore \/ ClientDrain \/ ClientStart
           \/ ClientClose \/ ClientCloseClears \/ ClientCloseReturns
  BY <1>2
  DEF ClientCancelGeneration, ClientCancelBefore, ClientDrain, ClientStart, ClientClose,
      ClientCloseClears, ClientCloseReturns, ServiceCall
<1>3. CASE ClientCleanup
  BY <1>3 DEF ClientCleanup, StoreNext, ServiceCall
<1>4. CASE ClientPublish
  <2>1. PICK r \in drained : PublishIfCurrent(r.key, r.token, r.digest)
    BY <1>4 DEF ClientPublish
  <2>2. r \in Result
    BY DEF ClientInv
  <2>3. r.key \in Key /\ r.token \in Token /\ r.digest \in Digests
    BY <2>2 DEF Result
  <2>4. QED  BY <1>4, <2>1, <2>3 DEF ClientPublish, StoreNext, ServiceCall
<1>5. CASE WorkerStep
  <2>1. WorkerCloseKey => worker.key \in Key /\ CloseKeyIfUnclaimed(worker.key, "FAILED")
    BY DEF WorkerCloseKey, ClientInv, ServiceInv, ServiceTypeOK, WorkerState
  <2>2. QED  BY <1>5, <2>1 DEF WorkerStep, StoreNext, ServiceCall
<1>6. CASE UNCHANGED clientVars
  BY <1>6 DEF clientVars, ServiceCall
<1>7. QED  BY <1>1, <1>2, <1>3, <1>4, <1>5, <1>6 DEF ClientNext

LEMMA ClientStepKeepsHand ==
  ASSUME ClientInv, [ClientNext]_clientVars
  PROVE  drained' \subseteq Result /\ closing' \in Closing
<1>1. drained' \subseteq drained \/ drained' = Drained
  BY DEF ClientNext, ClientSubmit, ClientCancelGeneration, ClientCancelBefore, ClientDrain,
         ClientStart, ClientClose, ClientCloseClears, ClientCloseReturns, ClientCleanup,
         ClientPublish, Call, clientVars
<1>2. Drained \subseteq Result
  <2>1. ready \in Seq(Result)
    BY DEF ClientInv, ServiceInv, ServiceTypeOK
  <2>2. \A i \in DOMAIN ready : ready[i] \in Result
    BY <2>1
  <2>3. QED  BY <2>2 DEF Drained, ClientInv
<1>3. closing' \in Closing
  BY DEF ClientNext, ClientSubmit, ClientCancelGeneration, ClientCancelBefore, ClientDrain,
         ClientStart, ClientClose, ClientCloseClears, ClientCloseReturns, ClientCleanup,
         ClientPublish, Call, clientVars, ClientInv, Closing
<1>4. QED  BY <1>1, <1>2, <1>3 DEF ClientInv

\* The inductive invariant of the composition of planner_service.py and store.py
THEOREM ClientInvariant == ClientSpec => []ClientInv
<1>1. ClientInit => ClientInv
  BY InitStoreInv, InitServiceInv DEF ClientInit, ClientInv, Closing
<1>2. ClientInv /\ [ClientNext]_clientVars => ClientInv'
  BY ClientStepRefines, ClientStepKeepsHand, NextKeepsInv, CallKeepsServiceInv DEF ClientInv
<1>3. QED  BY <1>1, <1>2, PTL DEF ClientSpec

\* Tables, queue, worker and what the caller has drained keep their types, whatever
\* the caller does.
THEOREM ClientTypeCorrect == ClientSpec => []ClientTypeOK
<1>1. ClientInv => ClientTypeOK
  BY DEF ClientInv, ServiceInv, StoreInv, ClientTypeOK
<1>2. QED  BY <1>1, ClientInvariant, PTL

\* No wakeup is lost: submit does not queue a key that counts as queued, and each
\* such key is still to be taken by the worker (planner_service.py, _queued_keys).
THEOREM NoTaskIsLost == ClientSpec => []QueueCoversPending
<1>1. ClientInv => QueueCoversPending
  BY QueueInvSuffices DEF ClientInv, ServiceInv
<1>2. QED  BY <1>1, ClientInvariant, PTL

\* A drain never hands out a result of a cancelled generation, of one below the
\* floor, or of an earlier session.
THEOREM ResultsAreCurrent == ClientSpec => []ReadyIsCurrent
<1>1. ClientInv => ReadyIsCurrent
  BY DEF ClientInv, ServiceInv
<1>2. QED  BY <1>1, ClientInvariant, PTL

\* Store and service together change the store only as its methods do.
THEOREM ClientImplementsStore == ClientSpec => StoreSpec
<1>1. ClientInit => StoreInit
  BY DEF ClientInit
<1>2. ClientInv /\ [ClientNext]_clientVars => [StoreNext]_storeVars
  BY ClientStepRefines
<1>3. QED  BY <1>1, <1>2, ClientInvariant, PTL DEF ClientSpec, StoreSpec

-----------------------------------------------------------------------------
\* A result that is published is of the newest task of its key.

\* The tasks of a key that are still on their way to a publication
TasksOf(k) ==
  TaskAtWorker(k) \cup TasksReady(k) \cup ({pending[k]} \ {NoItem})
    \cup {q.token : q \in {q \in drained : q.key = k}}

\* submit has issued the task: in an earlier session, or earlier in this one.
Issued(a) == a.session < session \/ (a.session = session /\ a.version <= version)

\* A token the store expects is not older than any task of its key.
ExpectsNewest(k) ==
  publishTokens[k] # NoItem => \A a \in TasksOf(k) : NotAfter(a, publishTokens[k])

NewestInv == \A k \in Key : ExpectsNewest(k) /\ \A a \in TasksOf(k) : Issued(a)

\* A task is the token submit made of it.
LEMMA TasksType ==
  ASSUME ClientInv, NEW k \in Key
  PROVE  TasksOf(k) \subseteq Token
<1>1. TaskAtWorker(k) \subseteq Token
  BY DEF TaskAtWorker, ClientInv, ServiceInv, ServiceTypeOK, WorkerState
<1>2. TasksReady(k) \subseteq Token
  <2>1. ready \in Seq(Result)
    BY DEF ClientInv, ServiceInv, ServiceTypeOK
  <2>2. \A i \in DOMAIN ready : ready[i] \in Result
    BY <2>1
  <2>3. QED  BY <2>2 DEF TasksReady, Result
<1>3. pending[k] \in Token \cup {NoItem}
  BY DEF ClientInv, ServiceInv, ServiceTypeOK
<1>4. \A q \in drained : q.token \in Token
  BY DEF ClientInv, Result
<1>5. QED  BY <1>1, <1>2, <1>3, <1>4 DEF TasksOf

\* A task is not multiplied, and nothing but submit makes one.
LEMMA TasksMove ==
  ASSUME ClientInv, [ClientNext]_clientVars, NEW k \in Key
  PROVE  \/ TasksOf(k)' \subseteq TasksOf(k)
         \/ ClientSubmit
<1> USE DEF Call
<1>1. CASE ClientCancelGeneration \/ ClientCancelBefore
  <2>1. PICK doomed : ready' = ReadyWithout(doomed)
    BY <1>1 DEF ClientCancelGeneration, ClientCancelBefore, CancelGeneration, CancelBeforeGeneration
  <2>2. worker' = worker /\ drained' = drained /\ (pending'[k] = pending[k] \/ pending'[k] = NoItem)
    BY <1>1 DEF ClientCancelGeneration, ClientCancelBefore, CancelGeneration,
                CancelBeforeGeneration, WithoutKeys
  <2>3. TasksReady(k)' \subseteq TasksReady(k)
    BY <2>1, ReadyWithoutElements DEF TasksReady, ClientInv, ServiceInv
  <2>4. QED  BY <2>2, <2>3 DEF TasksOf, TaskAtWorker
<1>2. CASE ClientDrain
  <2>1. ready' = <<>> /\ drained' = Drained /\ UNCHANGED <<pending, worker>>
    BY <1>2 DEF ClientDrain, DrainReady
  <2>2. QED  BY <2>1 DEF TasksOf, TaskAtWorker, TasksReady, Drained
<1>3. CASE ClientPublish
  <2>1. drained' \subseteq drained /\ UNCHANGED <<ready, pending, worker>>
    BY <1>3 DEF ClientPublish, serviceVars
  <2>2. QED  BY <2>1 DEF TasksOf, TaskAtWorker, TasksReady
<1>4. CASE ClientStart \/ ClientCloseClears
  <2>1. /\ ready' = <<>> /\ drained' = drained /\ pending'[k] = NoItem
        /\ worker' = worker \/ worker' = Waiting
    BY <1>4 DEF ClientStart, Start, ClientCloseClears, ClearAndPoison, ClearTables
  <2>2. QED  BY <2>1 DEF TasksOf, TaskAtWorker, TasksReady, Waiting, Worker
<1>5. CASE ClientClose \/ ClientCloseReturns \/ ClientCleanup \/ UNCHANGED clientVars
  BY <1>5
  DEF ClientClose, RaiseStop, ClientCloseReturns, ClientCleanup, clientVars, serviceVars,
      TasksOf, TaskAtWorker, TasksReady
<1>6. CASE (WorkerGet \/ WorkerFailed \/ WorkerCloseKey) /\ UNCHANGED drained
  <2>1. UNCHANGED <<ready, pending, drained>>
    BY <1>6 DEF WorkerGet, WorkerFailed, WorkerCloseKey
  <2>2. worker \in WorkerState /\ worker'.at # "build"
    BY <1>6 DEF WorkerGet, WorkerFailed, WorkerCloseKey, Waiting, Dead, Worker, WorkerState,
                ClientInv, ServiceInv, ServiceTypeOK
  <2>3. QED  BY <2>1, <2>2 DEF TasksOf, TaskAtWorker, TasksReady
<1>7. CASE WorkerTake /\ UNCHANGED drained
  <2>1. UNCHANGED <<ready, drained>> /\ worker.key \in Key
    BY <1>7 DEF WorkerTake, WorkerState, ClientInv, ServiceInv, ServiceTypeOK
  <2>2. \/ worker' = Waiting /\ pending' = pending
        \/ /\ worker' = Worker("build", worker.key, pending[worker.key])
           /\ pending' = [pending EXCEPT ![worker.key] = NoItem]
           /\ pending[worker.key] # NoItem
    BY <1>7 DEF WorkerTake
  <2>3. QED
    BY <2>1, <2>2
    DEF TasksOf, TaskAtWorker, TasksReady, Waiting, Worker, ClientInv, ServiceInv, ServiceTypeOK
<1>8. CASE (\E d \in Digests : WorkerBuilt(d)) /\ UNCHANGED drained
  <2>1. PICK d \in Digests : WorkerBuilt(d)
    BY <1>8
  <2> DEFINE result == [key |-> worker.key, token |-> worker.task, digest |-> d]
  <2>2. UNCHANGED <<pending, drained>> /\ worker' = Waiting /\ worker.at = "build"
        /\ (ready' = ready \/ ready' = Append(ready, result))
    BY <1>8, <2>1 DEF WorkerBuilt
  <2>3. \A i \in DOMAIN ready' : (i \in DOMAIN ready /\ ready'[i] = ready[i]) \/ ready'[i] = result
    <3>1. ready \in Seq(Result)
      BY DEF ClientInv, ServiceInv, ServiceTypeOK
    <3> HIDE DEF result
    <3>2. QED  BY <2>2, <3>1
  <2>4. TasksReady(k)' \subseteq TasksReady(k) \cup TaskAtWorker(k)
    BY <2>2, <2>3 DEF TasksReady, TaskAtWorker
  <2>5. TaskAtWorker(k)' = {}
    BY <2>2 DEF TaskAtWorker, Waiting, Worker
  <2>6. QED  BY <2>2, <2>4, <2>5 DEF TasksOf
<1>9. QED
  BY <1>1, <1>2, <1>3, <1>4, <1>5, <1>6, <1>7, <1>8 DEF ClientNext, WorkerStep

\* The counters only go on, and a token goes without another taking its place.
LEMMA CountersMove ==
  ASSUME ClientInv, [ClientNext]_clientVars, ~ClientSubmit
  PROVE  /\ (session' = session /\ version' = version) \/ session' = session + 1
         /\ \A k \in Key : publishTokens'[k] = publishTokens[k] \/ publishTokens'[k] = NoItem
<1> USE DEF Call
<1>1. (session' = session /\ version' = version) \/ session' = session + 1
  BY DEF ClientNext, ClientCancelGeneration, ClientCancelBefore, ClientDrain, ClientStart,
         ClientClose, ClientCloseClears, ClientCloseReturns, ClientCleanup, ClientPublish,
         CancelGeneration, CancelBeforeGeneration, DrainReady, Start, RaiseStop, ClearAndPoison,
         WorkerStep, WorkerGet, WorkerTake, WorkerFailed, WorkerBuilt, WorkerCloseKey,
         serviceVars, clientVars
<1>2. publishTokens \in [Key -> Token \cup {NoItem}]
  BY DEF ClientInv, StoreInv, StoreTypeOK
<1>3. ASSUME NEW k \in Key PROVE publishTokens'[k] = publishTokens[k] \/ publishTokens'[k] = NoItem
  BY <1>2
  DEF ClientNext, ClientCancelGeneration, ClientCancelBefore, ClientDrain, ClientStart,
      ClientClose, ClientCloseClears, ClientCloseReturns, ClientCleanup, ClientPublish,
      PublishIfCurrent, CleanupEpoch, CleanupBeforeGeneration, CleanupMatching,
      WorkerStep, WorkerCloseKey, CloseKeyIfUnclaimed, storeVars, clientVars
<1>4. QED  BY <1>1, <1>3

\* A new task is newer than all others, and the store expects it
\* unless the store has closed the key for good.
LEMMA SubmitKeepsNewest ==
  ASSUME ClientInv, NewestInv, ClientSubmit
  PROVE  NewestInv'
<1>1. PICK j \in Key : Submit(j) /\ drained' = drained
  BY DEF ClientSubmit, Call
<1>2. /\ session \in Nat /\ version \in Nat /\ Task \in Token
      /\ pending \in [Key -> Token \cup {NoItem}]
      /\ publishTokens \in [Key -> Token \cup {NoItem}]
  BY <1>1, ServiceAssumption
  DEF Submit, Task, Token, ClientInv, StoreInv, StoreTypeOK, ServiceInv, ServiceTypeOK
<1>3. UNCHANGED <<ready, worker, session>> /\ version' \in {version, version + 1}
  BY <1>1 DEF Submit, SubmitToQueue
<1> DEFINE status   == SubmitStatus(j)
           fresh(k) == k = j /\ status \in {"ACCEPTED", "REPLACED_STALE", "REJECTED_UNREGISTERED"}
<1>4. ASSUME NEW k \in Key
      PROVE  \/ pending'[k] = pending[k] \/ pending'[k] = NoItem
             \/ fresh(k) /\ pending'[k] = Task /\ version' = version + 1
  <2>1. status \in {"REJECTED_CLOSED", "REJECTED_EXPIRED", "DROPPED_OVERLOAD",
                    "REJECTED_UNREGISTERED", "REPLACED_STALE", "ACCEPTED"}
    BY DEF SubmitStatus
  <2>2. SubmitToQueue(j, status)
    BY <1>1 DEF Submit
  <2> HIDE DEF status
  <2>3. QED  BY <1>2, <2>1, <2>2 DEF SubmitToQueue
<1>5. ASSUME NEW k \in Key, NEW a \in TasksOf(k)'
      PROVE  a \in TasksOf(k) \/ (fresh(k) /\ a = Task /\ version' = version + 1)
  <2> HIDE DEF fresh
  <2>1. QED  BY <1>1, <1>3, <1>4, <1>5 DEF TasksOf, TaskAtWorker, TasksReady
<1> HIDE DEF fresh
<1>6. ASSUME NEW k \in Key, NEW a \in TasksOf(k)' PROVE Issued(a)'
  <2>1. (a \in Token /\ Issued(a)) \/ (a = Task /\ version' = version + 1)
    BY <1>5, <1>6, TasksType DEF NewestInv
  <2>2. CASE a = Task /\ version' = version + 1
    <3>1. a.session = session /\ a.version = version + 1
      BY <2>2 DEF Task
    <3>2. QED  BY <1>2, <1>3, <2>2, <3>1 DEF Issued
  <2>3. CASE a \in Token /\ Issued(a)
    <3>1. a.session \in Nat /\ a.version \in Nat
      BY <2>3, ServiceAssumption DEF Token
    <3>2. QED  BY <1>2, <1>3, <2>3, <3>1 DEF Issued
  <2>4. QED  BY <2>1, <2>2, <2>3
<1>7. ASSUME NEW k \in Key PROVE ExpectsNewest(k)'
  <2>1. \/ publishTokens'[k] = publishTokens[k] /\ (fresh(k) => ~Registered(j))
        \/ publishTokens'[k] = Task
    <3>1. CASE status \in {"ACCEPTED", "REPLACED_STALE"}
      <4>1. Registered(j)
        BY <3>1 DEF SubmitStatus
      <4>2. RegisterExpectedPublication(j, Task)
        BY <1>1, <3>1 DEF Submit
      <4>3. publishTokens' = [publishTokens EXCEPT ![j] = Task]
        BY <4>1, <4>2 DEF RegisterExpectedPublication
      <4>4. k # j => ~fresh(k)
        BY DEF fresh
      <4>5. QED  BY <1>2, <4>3, <4>4
    <3>2. CASE status \notin {"ACCEPTED", "REPLACED_STALE"}
      <4>1. status = "REJECTED_UNREGISTERED" => ~Registered(j)
        BY DEF SubmitStatus
      <4>2. publishTokens' = publishTokens
        BY <1>1, <3>2 DEF Submit, storeVars
      <4>3. QED  BY <3>2, <4>1, <4>2 DEF fresh
    <3>3. QED  BY <3>1, <3>2
  <2>2. CASE publishTokens'[k] = Task
    <3>1. \A a \in TasksOf(k)' : a \in Token /\ (Issued(a) \/ a = Task)
      BY <1>2, <1>5, TasksType DEF NewestInv
    <3>2. Task.session = session /\ Task.version = version + 1
      BY DEF Task
    <3>3. \A a \in Token : a.version \in Nat /\ a.session \in Nat
      BY ServiceAssumption DEF Token
    <3>4. \A a \in Token : Issued(a) \/ a = Task => NotAfter(a, Task)
      BY <1>2, <3>2, <3>3 DEF Issued, NotAfter
    <3>5. \A a \in TasksOf(k)' : NotAfter(a, publishTokens'[k])
      BY <2>2, <3>1, <3>4
    <3>6. QED  BY <3>5 DEF ExpectsNewest, NotAfter
  <2>3. CASE publishTokens'[k] = publishTokens[k] /\ ~fresh(k)
    BY <1>5, <2>3 DEF ExpectsNewest, NewestInv, NotAfter
  <2>4. CASE publishTokens'[k] = publishTokens[k] /\ fresh(k) /\ ~Registered(j)
    BY <2>4 DEF fresh, ExpectsNewest, Registered, ClientInv, StoreInv, NothingBelowFloor
  <2>5. QED  BY <2>1, <2>2, <2>3, <2>4
<1>8. QED  BY <1>6, <1>7 DEF NewestInv

\* Every step keeps the order of the tasks of a key.
LEMMA StepKeepsNewest == ClientInv /\ NewestInv /\ [ClientNext]_clientVars => NewestInv'
<1> SUFFICES ASSUME ClientInv, NewestInv, [ClientNext]_clientVars, ~ClientSubmit PROVE NewestInv'
  BY SubmitKeepsNewest
<1>1. ASSUME NEW k \in Key PROVE TasksOf(k)' \subseteq TasksOf(k)
  BY TasksMove
<1>2. session \in Nat /\ version \in Nat
  BY ServiceAssumption DEF ClientInv, ServiceInv, ServiceTypeOK
<1>3. ASSUME NEW k \in Key, NEW a \in TasksOf(k)' PROVE Issued(a)'
  <2>1. a \in Token /\ Issued(a)
    BY <1>1, <1>3, TasksType DEF NewestInv
  <2>2. a.session \in Nat
    BY <2>1, ServiceAssumption DEF Token
  <2>3. QED  BY <1>2, <2>1, <2>2, CountersMove DEF Issued
<1>4. ASSUME NEW k \in Key PROVE ExpectsNewest(k)'
  BY <1>1, CountersMove DEF NewestInv, ExpectsNewest, NotAfter
<1>5. QED  BY <1>3, <1>4 DEF NewestInv

\* A publication that succeeds is of the newest task of its key: what a caller kept
\* while the key was submitted again, the service having been restarted or not, is
\* refused, whatever the order (store.py,
\* publish_if_current; planner_service.py, submit).
THEOREM PublicationsAreNewest == ClientSpec => PublishedIsNewest
<1>1. ClientInit => NewestInv
  BY DEF ClientInit, StoreInit, ServiceInit, NewestInv, ExpectsNewest, TasksOf, TaskAtWorker,
         TasksReady, Dead, Worker
<1>2. ASSUME ClientInv, NewestInv, ClientNext, NEW r \in drained, r \notin drained',
             plans'[r.key] # plans[r.key], NEW a \in TasksOf(r.key)
      PROVE  NotAfter(a, r.token)
  <2>1. ClientPublish
    BY <1>2 DEF ClientNext, ClientSubmit, ClientCancelGeneration, ClientCancelBefore, ClientDrain,
         ClientStart, ClientClose, ClientCloseClears, ClientCloseReturns, ClientCleanup, Call, Drained
  <2>2. PublishIfCurrent(r.key, r.token, r.digest)
    BY <1>2, <2>1 DEF ClientPublish, Call
  <2>3. r.key \in Key /\ r.token \in Token
    BY <1>2 DEF ClientInv, Result
  <2>4. /\ publishTokens[r.key] # NoItem
        /\ publishTokens[r.key].session = r.token.session
        /\ publishTokens[r.key].version = r.token.version
    BY <1>2, <2>2 DEF PublishIfCurrent, PublishStatus
  <2>5. QED  BY <1>2, <2>3, <2>4 DEF NewestInv, ExpectsNewest, NotAfter
<1>3. ClientInv /\ NewestInv /\ [ClientNext]_clientVars =>
        [\A r \in drained \ drained' :
           plans'[r.key] # plans[r.key] =>
             \A a \in TaskAtWorker(r.key) \cup TasksReady(r.key) \cup ({pending[r.key]} \ {NoItem})
                     \cup {q.token : q \in {q \in drained : q.key = r.key}} :
               NotAfter(a, r.token)]_clientVars
  BY <1>2 DEF TasksOf
<1>4. QED  BY <1>1, <1>3, StepKeepsNewest, ClientInvariant, PTL DEF ClientSpec, PublishedIsNewest
=============================================================================
