# RouterSense: a TLA+ development

RouterSense plans the token exchanges of mixture-of-experts layers. The online
runtime (`repo/online`) hooks into an expert-parallel Megatron run: while layer
*p* executes, every rank plans the exchange of layer *p + 1* in a background
thread, the ranks agree on that plan, and the hooks of layer *p + 1* reconcile it
with the actual traffic and execute it. The offline simulator (`repo/offline-sim`)
evaluates the same policies over recorded traces.

This directory models three parts of it. Of the online runtime, the part where
threads and ranks meet: the store of prepared plans, the background planner, the
hooks of one rank's training thread, the control lane between the ranks, the
exchange itself under a published plan, and the synchronous mode, in which the ranks
agree on a plan and execute it by blocking collectives. Of the simulator, the path of one dispatch
phase through its kernel, control channel, receivers, scheduler and data channel.
And the sweep that runs the simulator over a repository of traces, with the
journal it is resumed from.

Paths below are relative to `repo/online/src/rs/runtime/online/megatron_ep/` in
the sections on the online runtime and to `repo/offline-sim/src/rs_sim/` in those
on the simulator, unless they begin with `repo/`, `docs/` or `dialogue/` (the last
two are under `repo/online/`).

## Inventory

| Component | State | Operations | Hard because |
|---|---|---|---|
| Prepared-plan store (`target_planning/store.py`) | `_plans`, `_claimed`, `_terminal`, `_publish_tokens`, generation floors; one lock | register/clear token, publish, claim, bind, start, complete, consume, finalise, tombstone, expire, clean up | two threads call it; a hook makes several calls for one decision; stale tokens and generations |
| Planner service (`target_planning/planner_service.py`) | bounded queue, pending/queued/in-flight tables, ready results, slot statuses, cancelled generations, floors, session and version counters, worker thread; one lock | start, close, submit, cancel a generation / older generations / a slot, drain; worker: get, take, build, fail | coalescing of keys, a build outside the lock, cancellation of running work, restart, join timeout |
| Lifecycle, prepared-plan path (`lifecycle.py`) | forward epoch, candidates, expected/terminal/published slots, poll attempts | `begin_forward`, dispatch and combine hooks, `end_forward`, close | every hook interleaves with the worker; a hook may raise at any point |
| Control lane (`control/communication_lane.py`) | generation floor | `poll`: gather of statuses, decision, broadcast of the root's plan | a rank-local decision to enter a collective; independent planners |
| Reconciliation (`target_planning/reconcile.py`) | none | repair of a plan against the actual matrix | conservation of rows per edge |
| Synchronous agreement and wave executor (`control/plan_agreement.py`, `execution/sync_wave_executor.py`) | the active phase of the adapter, its plan | gather of summaries, plan of the root, two broadcasts, local plan; one `all_to_all_single` per wave | collectives pair by their order only; waves in which a rank has no part; splits computed at both ends; a rank that raises alone |
| Execution under a published plan (`materialization/`, `execution/api.py`, `pipeline.py`) | materialised batches, consumed invocations, release ledger, posted work | materialise, check the layout, reserve, post a window, wait, record | tags and offsets counted by each rank for itself; ranks ahead of each other; a layout that fits on some ranks only |
| Execution of a provisional plan (`execution/`) | release frontier, posted work | preflight, release, post, wait, fall back, late suffix | order of sends and receives across ranks |
| Async release, pending window (`async_release/`, `pending_window/`) | shadow state | simulation of early release | not on the prepared-plan path |
| Host attachment (`host.py`, `public_types.py`) | wrappers, callbacks | attach, detach, close | callbacks run although one of them raises |
| Simulation kernel (`backend/core/simulation.py` of the simulator) | event heap, time, round, phase | schedule, run a time stamp to its fixed point | events of the same time, in phases already passed or still to come |
| Backend and receivers (`backend/core/engine.py`, `backend/resources/receiver.py`) | expectations, catalogues, jobs, two servers and a staging memory per rank | register, mark ready, post, complete, drain, release of the next phase | bounded memory; three conditions that arrive in any order |
| Control channel (`transport/control/channel.py`) | FIFO, one server | publish, arrive, serve, deliver | one pending service event at a time |
| Data channel (`transport/data/channel.py`) | busy sets, receipts, transfers | prepare, confirm, abort, start, complete | two-phase commit of shared resources |
| Phase authority and planning (`scheduler/execution/`, `scheduler/decorators/planning_gate.py`) | catalogue, task facts, plans, record, three service lines | observe, coalesce, plan, activate, commit, run, complete | a plan is old when it is activated; four adapters hold a view of each task |
| Scheduling algorithms (`scheduler/core`, `scheduler/planning`) | none | order tasks, solve the Oracle | numerical optimisation |
| Sweep (`app/formal_sweep.py`) | CSV journal, progress, manifest | discover, run, validate, append, resume | crash between two writes or inside one; parallel runs; kept failures |
| Trace collection, reports, archives | files | record, export | file output only |

What interacts: the lifecycle calls the service and then the store, under two
different locks; the worker of the service calls the store after it has released
the service's lock; the lifecycle of one rank meets those of the others in the
lane's collectives, in the gather of the dispatch matrix and in the exchange. The
host calls the lifecycle through hooks and the close callback.

In the simulator everything happens in a handler of the kernel or in its callback of
phase 7. The backend publishes rows to the control channel and observations to the
scheduler; the scheduler commits batches to the data channel; the data channel
tells scheduler, receiver and the bookkeeping of resources, in this order, that a
transfer has ended. The sweep runs the simulator as a process that passes or fails.

What makes each component correct:

- store: a key has at most one plan with one holder; the plan is never replaced,
  passes its stages in order and ends in one final record; nothing of a generation
  below the floor exists;
- service: every waiting task is met by the worker; results of overtaken, cancelled
  or closed work are never handed out; only the newest task of a key is published;
  a closed service loses its thread;
- lifecycle: each store call of a hook finds the plan in the state it requires; no
  candidate, claim, token or plan of a forward survives it; an open slot can still
  be published or has been closed;
- execution: requests of two ranks pair by flow and payload, every row arrives once
  and at its place, the return starts after the dispatch, and nobody waits for ever;
- synchronous mode: all make the same collectives in the same order, with splits that
  match; no two phases overlap; every rank gets the tensors of the native all-to-all;
- lane: ranks in a collective are there for the same slot; published plans are
  equal; the outcome of a slot is the same for all; the forward ends;
- kernel: no event is left behind by the round or the time stamp it belongs to;
- receivers and data channel: memory, endpoints, NICs and lanes are held exactly by
  the tasks that use them, and given back exactly once;
- authority: scheduler, receiver and channel agree on every task; no wakeup is lost;
  the phase delivers every task and completes its plan;
- sweep: a passed run is not repeated; a fixture is complete, and the manifest says
  PASS, only when every run in it has a result; a torn row is not taken for done.

## Modules

| Module | Models |
|---|---|
| `TargetPlanStore` | the store, one action per public method (each holds the lock throughout) |
| `TargetPlannerService` | the service: one action per critical section, worker included; EXTENDS the store because `submit` registers the token under the service's lock and the worker closes keys |
| `PlannerClient` | composition: store and service under a caller that uses the public methods in any order, restarts the service and publishes drained results late, out of order or never |
| `TargetPlanRuntime` | composition: store, service and the training thread of one rank, hook by hook |
| `PlanLifecycle` | abstract specification: the life of the plan of each key |
| `PublicationLane` | all ranks of a group over one forward: planners, pumps, polls, and the collectives |
| `ReleaseExecution` | all ranks of a group exchanging one layer under a published plan: materialisation, layout check, guard, windows of tagged requests, release ledger |
| `NativeExchange` | abstract specification: the tensors Megatron's own all-to-all gives to each rank |
| `PhaseSync` | all ranks of a group in the synchronous mode: agreement, local plan, waves; implements `NativeExchange` |
| `SimulationKernel` | the event kernel, with the steps of its loop and an abstract specification in which handlers are open |
| `TransferTasks` | the tasks of a phase, a constant of the next four |
| `DescriptorChannel` | the control channel |
| `ReceiverService` | the receivers: eligibility, posting, staging memory, draining |
| `PhaseAuthority` | catalogue, task facts, plan and record of a phase |
| `FormalDataPlane` | the data channel, with a specification of its own for any caller |
| `FormalExchange` | composition: the five above and the scheduler's runtime adapter, one action per event handler |
| `SweepJournal` | the sweep and its journal, with crashes |
| `TargetPlannerServiceProofs` | proofs about `TargetPlanStore`; lemmas about the service: types, the queue, the ready results |
| `PlannerClientProofs`, `TargetPlanRuntimeProofs` | proofs about the two compositions |
| `PublicationLaneProofs` | proofs about the lane |
| `ReleaseExecutionProofs` | proofs about the execution under a published plan |
| `FormalExchangeProofs` | proofs about the data channel, the kernel and the simulated phase, which refines both |
| `SweepJournalProofs` | proofs about the sweep |
| `PhaseSyncProofs` | proofs about the synchronous mode |
| `MCStore`, `MCClient`, `MCRuntime`, `MCLane`, `MCRelease`, `MCSync`, `MCExchange`, `MCSweep` | instances for TLC |

### How state and actions correspond to the code

*Store.* Each dictionary is a function over `Key` with `NoItem` for an absent
entry. A plan is its digest and its state. Tokens keep session and version;
`task_version` and `publish_sequence` always advance together, so one field
stands for both. `PublishStatus` is the chain of early returns of
`publish_if_current`. A method that raises before it has changed anything is no
action. `Finalize` has one because `_finalize` removes the entry and the token
before it consults the transition table and then may raise.

*Service.* The queue holds keys and the `None` that ends the worker (`NoItem`).
`Submit` is the whole critical section, the registration in the store included.
`worker.at` says where the thread is: blocked in `get`, with a key in hand
(`take`), building outside the lock (`build`), or past the lock after a failed
build with the key still to be closed (`close`). `close()` is three steps: flags,
clearing and poison, join. The join may time out.

*Runtime.* `driver` is the place of the training thread between lock
acquisitions: `begin_forward` and `end_forward` cancel in the service and clean the
store in two steps, and peek, claim, bind and start of the prepared plan are four.
A poll is one step that contains the clearing of the slot, of the token and of the
key; the comment at `PollTerminal` says why the worker cannot tell their order. The
other ranks are the outcome of the poll: no effect, the agreed plan, or a terminal
status. A hook, or the host between hooks, may raise at any point, which leads to
`EndForward`.

*Lane.* One rank is `at` its place in the hooks of layer `position`. Entering the
lane records the status the rank offers; `LanePoll` is the gather, the decision
every rank takes from it and what `_poll_target_plan_slot` does with the answer.
The lane runs on a process group of its own, the gather and the exchange on the
expert-parallel group: a rank waiting in one does not meet a rank waiting in the
other.

*Execution.* The plan and the router's rows are chosen once, the same on all ranks:
that published plans agree is what the lane is for. A flow is one row, because a
flow is read, sent and written as one block; an offset in rows is then a number of
earlier flows, and `Tag`, `Offset`, `SourceRow` are the running counters of
`materialize` and `_local_flow_source_offsets` at that flow. `Tag` takes the rank
as a parameter because every rank counts for itself; in the code it does not matter,
and the faulty variants show why it must not. A stage is one call of
`maybe_execute`: two payloads of the dispatch and one of the return. `Transfer` is
the transport: requests meet by source, destination and tag, as Gloo's do. NCCL
ignores tags and pairs the requests of two ranks in the order they are posted; it
may also run the requests of a rank one after the other, which the model does not
show. A row is in `output` from its transfer on, although the code copies it when
the window is complete: a failed window returns no output.

*Synchronous mode.* `calls` is what each member has called so far; a collective is the
n-th call of everybody, as in `torch.distributed`, and what it carries stays in the
call. Everything a member computes between two collectives is one step. `MayReturn` is
the weakest condition on which a collective can give its result: a gather needs all, a
broadcast its root, an exchange those who have rows for the caller. A member may so be
ahead of the others; backends that return later have fewer behaviours. On a device the
steps are those of the stream. A row is named by its payload, sender, receiver and place
between the two, so a tensor says where each of its rows came from. The matrix that the
dispatch hook gathers is only recorded in this mode and carries nothing. The comparison
of the plan's hash after the broadcast is left out: a member copies the hash from the
payload it compares it with (`plan_agreement.py:431`, `phase_execution_utils.py`).
`Place` is a function and not an operator over a list for TLC's sake: its values are
kept while the checker asks for `ENABLED`.

*Simulated phase.* An event is its time, round, phase and a label; the heap is a
set. The last part of the heap's key is a digest, so the order of events that agree
in time, round and phase depends on names only: the model takes any of them, which
includes the one the code takes. `Handle` and `Callback` are the kernel's part of a
step and each action of `FormalExchange` is one handler with them: what it changes
in the five components and what it schedules, in its phase. The phases that have
nothing to do are passed in one step (`NextPhase`). The kernel's callback is
`_stabilize`: `PrepareBatch`, `ConfirmBatch` once per batch and `EndSubmit`. Between
prepare and confirm nothing else can run; the abort, which the code reaches only
when it is about to raise, is in `FormalDataPlane` and in its proofs but never taken
by the phase. `NextBatch` is the greedy pass over the active plan's order, which is kept
as the function from the tasks that remain to their places (`Places`), so that a
commit is a restriction. A planning
job carries the order it was prepared with; any permutation of what is not frozen may
be planned (`PreparedOrders`), because the model leaves the policy out. A step that
would raise in the code is not enabled: were one reachable, the run would find a
deadlock or miss `DeliversOrSkips`. Costs are the constants of a `setting`; they
decide which events coincide, and the run takes twenty-four of them. Time stamps are
taken as they come, not bounded: every run of the simulator ends.

*Sweep.* `file` is the journal as `DictReader` sees it, a row being its type, key and
status; `results` are the runs whose result file is on the disk, which is written
before the row. `tail` says where the last line breaks off: a row is its columns in
the order type, status, key, ..., path of the result, and `PartsOf` is what can be read
of it when it is cut, `Extended` what can be read once text has been appended behind a
cut line, by the code's two ways of reading: `StatusOf` needs the key,
`CommittedRows` the type and the path too (a row without them is `TORN`). `pc` and `row` are the place of the
loop and the argument of an append under way; `Expand` and `Write` are the two
writes of an append, and `Returned` is what its caller does next. `committed` is
loaded at `Start` and kept, as in the code, while the journal grows. `Crash` is
possible between any two steps, `Tear` and `TearHeader` are a crash within the writing
of a row or of the first header. The order of
launches and polls within one turn of the loop is open.

Definitions whose name ends in `Fault` are plausible mistakes in the operation
they are named after. No specification uses them; substituted for the operation
they must break the property written beside them.

## Runs

| Run | Instance | Shows |
|---|---|---|
| `store` | 1 stream, 2 generations, 1 layer, 2 digests, 2 token versions | `NothingBelowFloor`, `DigestIsStable`, `StagesInOrder`, `RecordIsKept` under arbitrary callers |
| `client` | 2 generations, 1 layer, 2 sessions with a restart between them, 2 submissions in the first and 1 in the second, queue of 1, at most 2 results held by the caller | `QueueCoversPending`, `ReadyIsCurrent`, `PublishedIsNewest`, and with a worker that runs `BuildingEnds`, `CloseStopsWorker` |
| `runtime` | 2 forwards of 2 prepared layers after a layer 0 that is not, queue of 1 | what hooks find and leave behind, and that the runtime implements `PlanLifecycle` (`PlanLifecycleHolds`) |
| `lane` | 2 ranks, 2 prepared layers, 2 digests, queue of 1 | `PublishedPlansAgree`, `OutcomesAgree`, `LaneSlotsAgree`, `ForwardEndsOrDiverges` |
| `release` | 3 ranks, 3 plans (an edge split over two waves; destinations out of order; planned local rows and an idle rank), each against 5 row matrices, windows of 2 batches, 2 forwards | `RequestsPair`, `DeliveredIsComplete`, `RowsAreSentOnce`, `MismatchedEdgesAreSilent`, `OneWindowAtATime`, `ReleaseEndsOrRaises` |
| `exchange` | 3 ranks, 4 tasks, 2 lanes, a staging memory of two chunks, 24 settings | `NoEventIsOverdue`, `StagingIsAccounted`, `TaskViewsAgree`, `WorkIsStarted`, `HoldersAreDisjoint`, that the phase implements the kernel with open handlers (`KernelSpec`), and `DeliversOrSkips` |
| `sweep` | 2 fixtures, 2 treatments, a warm-up and a measured repeat, 2 workers, up to 3 starts | `CommittedIsNotRepeated`, `CompleteMeansDone`, `OracleSeesTheFixture`, `ManifestIsTrue` |
| `sync` | 3 ranks, 2 layers, 3 matrices, whole edges or buckets of 2 rows, both policies | `CollectivesAgree`, `PhasesDoNotOverlap`, that every rank gets what the native call gives it (`ExchangesNatively`), and `ExchangeEnds` |
| `lane_fallback`, `release_rows`, `sim_replan`, `sync_second` | the same or smaller ones | the disagreements listed below |

### Bounds, and why they are enough

- `Versions` bounds the submissions of a session. Two give a task and its
  replacement, which is all that coalescing tells apart; with the one after the
  restart (`MaxSubmits` of `client`) a key is replaced twice while an older result is
  still held; four (`runtime`) is one submission for each layer of each forward.
- `Generations` of two give a forward and its successor. Every cancellation and
  floor compares one generation with another, never three.
- `MaxQueue = 1` makes overload reachable: a key of a cancelled generation that
  still sits in the queue blocks the next submit. The default in the code is 16.
- `Sessions` of `client` are 0, which is a service that has not been started, 1 and 2:
  one restart, which a task in the build, a closing thread and a drained result can
  all outlive. `runtime` starts the service once.
- Two ranks: the lane's decisions are "some rank" and "all ranks" over pairs of
  statuses or digests. A third rank adds a rank that agrees with one of the two.
- Two prepared layers let one layer's slot be polled while the next is submitted.
- Three ranks give an edge a rank that has no part in it, which is what tags are
  counted for. Up to five batches of a payload make three windows of two, the
  code's default `max_inflight_batches`. The matrices are those of the plans, one
  with an edge the forecast has missed and one with rows that stay on their rank.
  `MaxForwards` is 2: the guard remembers one forward in the next.
- `MaxDrained` bounds the results the caller holds, and only there.
- The four tasks of `exchange` are two chunks of one edge, a second edge of its
  source and one of another source to its destination: every pair that competes
  for a sender, a receiver, a posting server, a drain line, memory or a lane. The
  destination's memory holds two of the four bytes sent to it, so posting waits for
  draining. `MaxEventPlans` is 4, one plan for each task that becomes ready; the
  code's default is 256. `MaxRounds` is 30; no fixed point comes near it, or
  `DeliversOrSkips` would fail.
- The settings of `exchange` have costs of 0 to 3 and make planning immediate,
  slower than a transfer, or slow in its second line only; a source is ready with
  the others or late.
- `sync` has three members, the least with a wave in which one has no part, and two
  layers, so that a phase follows another of the same and of the other kind. Its
  matrices have edges of up to three rows, cut into two buckets by `bucket_rows` 2 or
  left whole by 0, rows that stay, members that send or receive nothing, and no remote
  row at all. `sync_second` has the ranks 2 and 3.
- In `sweep` one fixture of two is unloadable when failures are passed over, which
  keeps the failures of a fixture and of its runs apart; when the sweep stops at the
  first failure it may be given three times: a row is torn, the next start appends to
  the torn line, and a third reads what came of it. Two workers run both treatments at
  once.
- Digests are symmetric in `store`; the other runs use no symmetry.

`CHECK_DEADLOCK FALSE` stands in `MCRuntime.cfg`, `MCLane*.cfg`, `MCRelease*.cfg`,
`MCSync*.cfg` and `MCSweep*.cfg`: a closed runtime stops, a finished forward stops,
ranks that have diverged stop, so do the peers of a rank that has raised, and a sweep
is not given for ever; what may stop is said by `ForwardEndsOrDiverges`,
`ReleaseEndsOrRaises` and `ExchangeEnds`. The `client`, `store` and `exchange` runs
check deadlock: the simulator may stop only with an empty heap.

### Fairness

`ClientFairness` assumes that the worker thread keeps running, that a build ends,
and that `close()` goes on to its next statement. It assumes nothing of the
caller: nobody has to submit, drain or publish. `LaneFairness` assumes that every
rank's hooks and worker run and that a collective every rank has entered
completes. It does not assume that ranks enter. `ReleaseFairness` assumes that the
threads run and that two requests that match complete. `SyncSpec` assumes that a member
runs, and that a collective returns when every member has called it; an earlier return
is possible and never assumed. `TargetPlanRuntime` and the store
have no fairness: only safety is checked there. The simulator is one thread whose
loop runs until the heap is empty (`run_to_completion`), so `ExchangeSpec` assumes
that it takes some step as long as it can; nothing is assumed of the order among
events that tie. `SweepSpec` assumes the same of a sweep that runs; nobody has to
start one, and a crash need not happen.

## Where code and documents disagree

1. `lane_fallback`: a build that ends between the pump and the poll of its rank is
   `READY` for the lane while the rank has no candidate. If all others are ready
   too, they publish and this rank returns with an open slot, then exchanges tokens
   on its provisional plan. `docs/runtime_joint_async_design.md` promises a
   validated global digest and a consistent fallback before the first P2P
   operation; `_agree_joint_plan_digest` has no caller. After this, or after a
   submit dropped on one rank only, the ranks disagree on whether the slot is still
   polled, and one waits in the lane while the others wait in the gather of the
   next layer: the case `ForwardEndsOrDiverges` excepts, although
   `docs/experiments/distributed_failure_protocol.md` asks that all ranks exit
   without deadlock.
2. `release_rows`: a sender reads its packed input at offsets added up in the order
   of the plan (`execution/api.py:174-188`), while the input is packed by
   destination. If the plan serves rank 3 before rank 2, each receives the other's
   rows. `experiments/distributed/run_m2_formal_execution_gloo.py` compares with
   the packed order.
3. `sim_replan`: in EVENT mode a plan is prepared when its control job ends and
   activated when its binding job ends. If a batch of the older active plan is
   committed in between, the new plan covers tasks that are frozen by now and is
   skipped (`scheduler/execution/live.py:764`); nothing plans again, and a task that
   only the skipped plan held stays ready for ever. With a binding cost above the
   control cost the simulation ends in "formal integration runtime is not terminal"
   (`runtime/core/engine.py:269`). In GLOBAL mode there is one plan and no such end,
   and with immediate planning neither: `DeliversOrSkips`.
4. `sync_second`: the rank that builds the plan is found by comparing a rank within the
   group with the global rank of the group's first member
   (`control/plan_agreement.py:344`). In the group of the ranks 2 and 3 nobody is the
   root: it broadcasts an empty payload, which no member can decode.
   `docs/runtime_online_hotpath_contract.md` says that the root makes the plan, and
   `tests/contract/megatron_ep/test_dedicated_p2p_group_registry.py:46` sets up such a
   group.

Two disagreements of the store with `dialogue/m1_runtime/target_plan_state_machine.md`
and `dialogue/m01_strict_closure/report.md` are visible in its module without a run:
`cancel`, `reject`, `invalidate` and `expire_key` of an `EXECUTING` plan raise after
the plan and its token are gone, so no final record exists (`store.py:552-575`, the
case of `Finalize` without a successor); and tokens survive `close()` and `start()`
of the service, so a caller that holds a drained result across the restart may
publish it (`PublishIfCurrent` compares with the token only). The lifecycle does
neither. `dialogue/m01_strict_closure/report.md:10` speaks of tokens per task, but the
worker closes the key of a failed build after it has released the service's lock, without
a token: a task submitted in between loses its registration, and what it builds is
refused as `TERMINAL`. The lifecycle submits a key once per forward and does not meet
this either.

In the synchronous mode the summary has a place for each of the ranks 0 to the size of
the group, while its edges are named by global ranks (`control/plan_agreement.py:93-94`,
the operator `Encoded`). In a group of every second rank edges are lost, the plan does
not cover a sender's rows, and that sender raises alone while the others go on to the
waves. The `sync` run has the group 0, 1, 2 and shows what holds where neither this nor
`sync_second` occurs.

The sweep appends a row to its journal without a look at the end of the file, and
nothing repairs a row that breaks off (`app/formal_sweep.py:241`).
`repo/offline-sim/FORMAL_REPOSITORY_SWEEP.md:56-57` says that rows are never partially
written. Its reason, that only the parent writes, holds for the workers and not for a
crash, and the model lets rows be torn, as a full disk or a power loss may do anywhere
and a kill where a buffer ends. Mostly a torn line swallows a row whose run is repeated
or whose fixture is completed again; the results on the disk keep completions and the
manifest honest, which is what `sweep` shows. But if the row of a run breaks off behind
its key and before the path of its result, a restart counts the run as passed and does
not repeat it (161-170), does not load its result either (191-193), and calls the
fixture complete without having compared the run: `Tear` leaves a `TORN` row, which
`StatusOf` reads and `CommittedRows` does not. The comment at 175-177 promises that an
Oracle validation after a restart sees the old treatments as well as the new ones. That
is why `OracleSeesTheFixture` speaks of the repeats whose rows can be read. Rows are
taken to be ASCII: a file cut within a longer character cannot be read at all.

Two more observations of the `release` run contradict no document and so are no
findings. In the second forward of a prepared layer every rank raises
`duplicate_invocation`: the guard outlives the forward and the invocation is named
without it (`transport_adapter.py:170`). And a plan of the planner never fits a
layer in which rows stay on their rank: `_phase_chunks` plans remote edges only,
while the layout check wants every row of the splits covered, and `prepare` raises
instead of returning an invalid result.

## Proofs

`TargetPlannerServiceProofs` proves of the store, for every set of streams, generations (naturals),
layers, digests, sessions and versions, finite or not, the type invariant,
`OneHolder` and the four properties the `store` run checks. The assumption is
`StoreAssumption`: generations are naturals and `NoItem` is none of the values it
stands beside.

The inductive invariant is `StoreInv`: types, `OneHolder` and `NothingBelowFloor`
together. Types alone do not carry `OneHolder` over `claim`, which must not
overwrite a claimed plan, and `NothingBelowFloor` needs that the clean-up raises
the floor in one step with the removal of what falls below it. Most actions only
remove entries; `RemovalKeepsInv` and `CleanupEffect` are shared by them. The
three action properties follow from `StoreInv` and one lemma per kind of key in a
step: untouched (`UntouchedIsKept`), new (`BirthIsKept`), ended (`EndIsKept`).

The other modules prove, again for any values of the constants that satisfy the
assumptions beside their declarations:

| Module | Proves | With the inductive invariant |
|---|---|---|
| `PlannerClientProofs` | `ClientTypeOK`, `QueueCoversPending`, `ReadyIsCurrent`, `PublishedIsNewest`, and `ClientSpec => StoreSpec` | `ClientInv`: `StoreInv`, `ServiceInv` and the types of the caller; `NewestInv` |
| `TargetPlanRuntimeProofs` | `TypeOK`, `Spec => StoreSpec`, the store's properties in the runtime, `CleanBetweenForwards`, `ClaimIsOfThisLayer`, `QueueCoversPending`, `ReadyIsCurrent`; `WaitingTaskMayPublish`, `OpenSlotIsPublishable`, `HookFindsItsPlan`, and that the runtime implements `PlanLifecycle` | `RuntimeInv`, on top of it `ForwardOwnsStore` and `ServiceInv`, and on top of these `LifecycleInv` |
| `PublicationLaneProofs` | `LaneTypeOK`, `LaneSlotsAgree`, `PublishedPlansAgree`, `OutcomesAgree` | `LaneInv` |
| `ReleaseExecutionProofs` | `MismatchedEdgesAreSilent`, `OneWindowAtATime`; `RequestsPair`, `RowsAreSentOnce`, `DeliveredIsComplete` | `ReleaseInv`; `ExchangeInv` |
| `FormalExchangeProofs` | `BusyIsHeld`, `HoldersAreDisjoint`, `ConfirmedOnce` of the data channel for any topology and caller; `NoEventIsOverdue` and `TimeGoesForward` of the kernel for any handlers; that `ExchangeSpec` implements `KernelSpec` and `DataSpec`, and so has their properties; `SchedulerFollowsChannel`, `RecordFollowsState`, and `TaskViewsAgree` as a whole; `StagingIsAccounted`; `WorkIsStarted` | `DataInv`, `KernelInv`, `AgreeInv`, `ViewsInv`, `StagingInv`, `WorkInv` |
| `SweepJournalProofs` | `CompleteMeansDone`, `ManifestIsTrue`, `CommittedIsNotRepeated`, and `OracleSeesTheFixture` where the treatments are `Comparable` | `SweepInv` |
| `PhaseSyncProofs` | `CollectivesAgree`, `PhasesDoNotOverlap`; for a group of the ranks 0 to N-1, `ExchangesNatively`: that `SyncSpec` implements `NativeExchange`; and `GroupIsNeverStuck`: that no member raises, the root plans every phase, and the members never all wait for each other | `SyncInv`; with it `OutputInv`, and `PlansInv` |

*Service.* `QueueCoversPending` speaks of keys with a waiting task only and is
not inductive: `submit` puts no key into the queue that is already in
`_queued_keys`, whether a task waits for it or not. `QueueInv` says what the
code relies on: while the service is open, every key of `_queued_keys` is in
the queue or in the worker's hand and every waiting task has its key in
`_queued_keys`. A cancellation discards a key from `_queued_keys` and leaves it
in the queue, so the same key may be queued twice; that the invariant survives
this is the point of the lemma `CancelKeepsQueue`. `ServiceCall` lists what may
happen to the service in one step; the client and the runtime show that each of
their steps is one of these, so the argument about the service is made once.

*Runtime.* `NextRefines` maps each hook, each step of the worker and the close
callback to one method of the store or to none. What the store's module shows
under arbitrary callers then holds in the runtime without another proof
(`RuntimeKeepsStoreSteps`). `CleanBetweenForwards` is not inductive either:
`ForwardOwnsStore` adds that plans and tokens carry the epoch of the running
forward and that a claimed plan is that of the layer whose hooks run. It rests on
`MethodsShrink`: every method but registration and claim only removes, because a
publication consumes the token it needs; and no step of the worker registers
anything.

*Life cycle.* What the hooks find depends on where the other copies of a task are. A
key is submitted once in its forward: whatever a table knows of a key, the hooks have
come to it (`KeysAreReached`), and once reached it stays reached
(`NextStaysReached`). So its one task waits, is built, is ready, is a candidate or
has become the plan, and only one of these (`TaskHasOnePlace`); a worker that closes
the key of a failed build, which it does without a token and after it has released
the lock, cannot meet a plan there. A record closes its key for good
(`RecordClosesKey`). From the two follow that a waiting task may still be published,
that an open slot can be, and, with what each hook has just done
(`PlanFollowsHook`), that no store call of a hook finds the plan in a state it does
not expect. `RuntimeFollowsLifecycle` then maps every step to one of
`PlanLifecycle` or to none: there a record comes only where no plan is left.

*Newest task.* `PublishedIsNewest` speaks of one step. `NewestInv` is about all the
copies of a key's tasks: waiting, at the worker, among the ready results, drained and
kept by the caller. None was made after the one the store's token for that key names,
by session and then by version, because a restart begins a session whose versions
begin again; and none was made after the present session and version. `submit` moves
the token and the version together, so a result of an earlier session is refused once
its key has been submitted again. Where it has not, the token of the earlier session
still stands, and the result is published (see the disagreements below).

*Lane.* The ranks move at their own pace between two collectives of the group.
`InStep` says how far apart they can be: all are before the gather of the matrix
or all after it, and those before it poll the same slot, although some run the
last hook of a layer and others the first of the next. Then ranks in the lane have
the same slot, a poll changes that slot everywhere, and `PublishedIsBuilt` carries
the agreement on plans.

*Execution.* What a rank has posted survives the state it was posted in: the
transport completes it when the other end is there. `ReleaseInv` ties each
outstanding request back to its owner: the owner waits for it, or waited when the
wait failed, in the payload and the window the request is of (`RequestsAreCurrent`),
and it has passed the layout check of that phase (`LayoutIsChecked`). Both
properties follow. The layout check of one end is enough for an edge, since the
check of a rank covers what it sends and what it receives. Nothing is assumed of
the plans but that their flows have ranks of the group for ends.

*Exchange between ranks.* `ExchangeInv` adds what two ranks know of each other. A rank
posts for a payload once in its life, because its guard refuses the invocation in a
later forward (`Progress`); so a request that is gone, of a flow whose window was
posted (`Posted`), has been transferred, and its other end is gone too
(`PairsGoTogether`). If a send and a receive meet by source, destination and tag,
both ranks have passed the same flows of the edges they share up to there; the two
counters of tags then name the same flow of the same payload (`MatchingIsPairing`).
The output has the row of every flow that has arrived (`ArrivedIsWritten`), and a
payload enters the ledger only after its last window (`DeliveredHasArrived`).

*Kernel and phase.* `KernelInv` is proved of the kernel with open handlers: an event
accepted during a time stamp belongs to the slot being emptied or to a later one
(`AcceptedIsNotOverdue`), and a slot that is left is empty because its head was
looked at last (`EmptySlot`, `PassedPhasesAreEmpty`). `DataInv` is proved of the data
channel with any caller. The phase then has little to add: `HandlersAreOpen` shows
that each of its handlers schedules acceptable events only, for which costs must be
naturals and the free times of the two service lines not in the past
(`ExchangeInv`), and `ExchangeStepIsDataStep` that it uses the channel by its
operations. `ExchangeImplementsKernel` and `ExchangeImplementsData` carry the
invariants over. `AgreeInv` relates three adapters: the state of a task, the record
of the phase, and the channel's transfers. Only commit, start and completion move
a task in two of them at once, so all other steps are one lemma
(`OtherStepsKeepAgreement`).

*Views of a task.* The rest of `TaskViewsAgree` is about what is under way in the
heap. A task becomes ready when the scheduler was told that its buffer is posted and
its source ready, which is later than either; `NewsIsTrue` says that whatever the
scheduler was told, or will be by an event of the heap, is so, and nothing is ever
undone. `EventsInv` says that a task has one event of each kind while it waits for
it, and none otherwise; the lemmas about `Moves` say when a step that takes one
event and asks for others keeps, takes or adds one. `PlanInv` is the plan's part: a
new plan has nothing frozen, and what a commit freezes leaves the plan. It needs that
an order has each task at one place, which `draft_plan` checks.

*Memory of the receivers.* `StagingIsAccounted` compares a counter with a sum over
sets of tasks. The library's induction over finite sets cannot be used (its theorems
take an operator), but a smallest counterexample can: `LeastSet` picks, of finite sets
that are exceptions, one of least size, and from it follow that every finite set has a
sum (`SumsExist`), only one (`SumsAreUnique`), and that `TotalBytes` changes by what
is added or removed (`TotalWith`, `TotalWithout`). That the memory is within its
capacity needs that the line starts at most one posting at a time
(`OnePostIsStarted`): the first by time and `StableOrder` is one task, because that
order is strict. The theorem assumes finitely many tasks, natural capacities and
distinct natural places in `StableOrder`.

*Wakeups.* `WorkIsStarted` is about the end of a time stamp only, so `WorkInv` says
what holds inside one: whoever could start has its flag set (`servicePending`,
`stabilizing`, `dirty`), and a flag that is set has an event of this time stamp in
the heap (`Due`), which keeps the time stamp from ending, as `NoEventIsOverdue`
says. A stabilization leaves nothing that could start (`NothingElseStarts`). The
submission has no event: its callback runs in every round, so what matters is what may
happen after it. From its end to the end of the round `NextBatch` is empty unless
something signalled progress, and then there is another round. A new observation makes
no task of the active plan ready without progress, because a task is refreshed as soon
as it is told of (`TellsInv`) and a plan has registered tasks only (`PlanInv`). The
kernel that gives up at `MaxRounds` has not reached the fixed point, and the property
says nothing of it; that no run gives up is part of `DeliversOrSkips`. The theorem uses
that the submission's phase is 7 of 8, which is the code's enumeration
(`contracts/schema.py`).

*Sweep.* A process decides by its memory, and a crash leaves only the journal and the
results. Rows may be torn and lost, so memory and journal do not agree; what is
invariant is that a row that can be read is true of the results (`JournalInv`), and that
a process remembers every passed run that can be read and has the result of everything
it remembers as passed or complete (`MemoryFollowsJournal`). An append, whole or torn,
changes the file in one way (`ExtendedGrows`, `WritesGrow`): each row that can be read
after it could be read before, perhaps by more of its columns, or is the one written, in
whole or in part, and comes last; so `JournalInv` is kept by every kind of append alike
(`GrowthKeepsJournal`). `RowFits` says
which row may be under way where. A run of the
repeat under way has passed, waits, is active or has just ended (`RunsInv`); so a
fixture that has reached its end without a failure has passed everywhere, and
`ProgressInv` carries that to the manifest over all fixtures. The Oracle's part has a
hypothesis, `Comparable`: with the Oracle as the only treatment there is nothing to
compare it with, its validation is recorded as incomplete, and the fixture is
complete all the same. Every configuration under `configs/experiment/` has several
treatments that are not an Oracle. It also is about the repeats whose rows can be read
(`RepeatIsWhole`), which is what `FixtureInv` can say of the rows loaded at a restart.

*Synchronous mode.* A member may be ahead of another by any number of waves, so no
invariant on the last call of each would do. `SyncInv` says that there is one history
of collectives, of which each member has gone a part (`History`): what follows a
collective is determined by it and, after a broadcast, by the plan of the root
(`Ahead`, `AfterWave`). A plan may be materialised before the other members have come
to the broadcast, but not before all have given a summary (`PhasesGathered`), which is
`PhasesDoNotOverlap`. That a receiver expects what is sent to it needs that both ends
of an edge keep the same task of the broadcast plan, at most one in a wave, and cut it
from the same rows, whenever each comes to that wave (`Fits`, `WaveFits`). None of
this depends on what the policies do: a plan is whatever the root has broadcast and both
ends have validated.

That the model gets the tensors of the native call (`NativeTensorsAreKept`) does depend on
it. `SyncInv` carries what the exchange needs along the history: every summary has all
edges of its member, so the plan the root builds has every bucket of every edge in some
wave (`Complete`; `PackedHasAll` shows it of the greedy packing under both policies), and
every row sent in a wave is the row of that name in the sender's payload (`Moves`).
`OutputInv` speaks of the receiver: each row of its own part, and each row of a task in
a wave it has left, is at its place in the output (`Receives`). Two facts about sums carry
it: the segments of the sources lie side by side and fill the output (`PlacesOfSegments`),
and the concatenation that the native call makes has the same places (`JoinedSegments`,
`NativeTensors`). Past the last wave every row has arrived; each place has a row; so the
output is the native tensor, and giving it to the model is `Deliver` of the abstract
exchange. Sums over sets and packings are folds, and the proofs replace the induction
over them by the argument that a least counterexample has a smaller one.

`GroupIsNeverStuck` is the safety part of `ExchangeEnds`: what could keep the members from
getting through all layers is that one raises while the others wait in a collective, or
that all wait for each other. Neither happens. The packing gives each bucket one wave and
each end at most one bucket per wave (`Exact`), and the buckets of an edge have its rows
(`BucketsAddUp`), so the root's plan passes its validation and each member's part passes
the member's (`RootPlanValidates`, `MemberAccepts`); a plan has at least one element, so
the length that is broadcast is never the 0 that says there is no plan
(`PlanHasElements`). And of the members that are not done, take one that has called least:
the others that are not done have made its call, and one that is done has made all calls
of the last phase (`Position`, `Reached`), so the collective of that member is complete.
The first part is `RootPlansThePhase`, which the run `sync_second` refutes for a group of
other ranks. That a member whose collective is complete does take its step is fairness,
and stays with TLC.

Both theorems have the hypothesis `WholeGroup`: every rank of the group is below the group's
size. Without it the properties fail and not only the proofs: in the group 0, 1, 5 the
tensor of a summary has no place for rank 5, its edge is missing from the plan, the
member that would send it raises, and the member that would receive it gives the model an
output with a row nobody wrote. TLC finds that run; it is the loss described under
*Where code and documents disagree*.

The library's induction theorems cannot be cited, so the results that survive a
cancellation are given by position (`Nth`) and not by `SelectSeq`; that they keep
their types follows from an injection between finite sets (`NthIsAnElement`).

For the same reason the plan of a phase keeps the places of its tasks in a function:
removing a batch from a sequence would be a recursion.

Only model-checked:

- all liveness properties: fairness and ENABLED are not in the prover's reach. Of
  `ExchangeEnds`, what does not need them is `GroupIsNeverStuck`.

## Not modelled

- How a plan is computed and repaired: to the protocol a plan is a digest, to the
  exchange a sequence of waves.
- The path of a provisional plan: preflight, frontier, fallback to waves; and the
  variant of the execution under a published plan that uses one `all_to_all_single` per
  batch.
- Of the synchronous mode: layers that are not scheduled (their payloads go to the
  native call), the policies that optimise, the prediction, and the publication of
  canonical plans for other processes (`control/plan_publisher.py`).
- The autopublish branch of the pump for a group of one rank, where the poll
  follows each drained result at once.
- The lane's own generation floor: slots of a running forward are never below it.
- Malformed payloads in the lane, which end like a failed candidate.
- The late suffix (the provider is set to `None` on this path), the shadow and
  pending-window paths, observation.
- Of the simulator: edges without rows and from a rank to itself, which make no
  task; the release of a rank into the next phase, local computation and the combine
  phase; the prediction line and the planning over two phases (`CURRENT_P12`,
  `WINDOW_JOINT`); the phase barrier; metrics, evidence and the clean-up of a failed
  run; the policies and the Oracle, whose results are orders of tasks.
- Of the sweep: discovery, the Oracle over two phases, `--no-resume` and
  `max_fixtures`, a change of the configuration between two starts.
- Plan reconciliation: a numerical repair within one call.
- Trace collection, reports, archives and legacy prototypes: file output, or code
  the running system does not load. They are most of the repository's lines.

## Plan

Built so far, in this order: store, its proofs, service, client composition,
runtime composition with the abstract life cycle, lane, proofs of the
compositions and of the lane, execution under a published plan and its proofs,
the simulated phase, the sweep and the synchronous mode, each with its proofs.

What would come next:

1. `PhaseExchange`, the path of a provisional plan: preflight, frontier of single
   transfers, fallback to collectives per wave (`execution/async_p2p_executor.py`,
   `release_frontier.py`); its waves are those of `PhaseSync`.
2. The second phase of the simulator: release of ranks, combine, and the planning
   over both phases of a window.
