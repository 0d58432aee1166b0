---------------------------- MODULE FormalExchange ----------------------------
(***************************************************************************)
(* One dispatch phase of the off-line simulator, run by the kernel:        *)
(* the sources publish their rows and become ready, the control channel    *)
(* delivers the rows, the receivers post and drain, the scheduler plans    *)
(* (rs_sim/scheduler/execution/runtime_adapter.py) and the data channel    *)
(* transfers.                                                              *)
(*                                                                         *)
(* In EVENT mode every batch of observations in which a task became ready  *)
(* starts a planning job; in GLOBAL mode the closure of the phase starts   *)
(* one.  A job passes the control line and the binding line, two FIFO      *)
(* servers, and its plan is activated at the end of the second, if it      *)
(* still covers what is not frozen.                                        *)
(***************************************************************************)
EXTENDS SimulationKernel, DescriptorChannel, ReceiverService, PhaseAuthority, FormalDataPlane

CONSTANTS Settings,       \* mode and costs of a run of the simulator
          MaxEventPlans   \* max_event_plans_per_phase

ASSUME ExchangeAssumption ==
    /\ Submit = 7
    /\ \A s \in Settings :
        /\ s.mode \in {"EVENT", "GLOBAL"} /\ s.ready \in [Ranks -> Nat]
        /\ s.serialization \in Nat /\ s.latency \in Nat
        /\ s.post \in Nat /\ s.drain \in Nat /\ s.launch \in Nat /\ s.wire \in Nat
        /\ s.control \in Nat /\ s.binding \in Nat

VARIABLES setting,
          sourceKnown,    \* scheduler: _source_ready_at
          stabilizing,    \* backend: a stabilization is pending at this time
          envelopes,      \* accumulator: kinds of the observations not yet drained
          planCount,      \* planning gate: plans created
          controlFree, bindingFree, \* available_at_ns of the two lines
          skipped,        \* _stale_activation_count > 0
          dirty,          \* the phase is in _dirty_phases
          stamp,          \* authority stamp of the batch being committed
          submitted       \* the callback of this round has run

schedulerVars == <<sourceKnown, envelopes, planCount, controlFree, bindingFree, skipped>>
submitVars == <<dirty, stamp, submitted>>
vars == <<kernelVars, channelVars, receiverVars, authorityVars, dataVars,
          schedulerVars, setting, stabilizing, submitVars>>

Event(at, ph, kind, about) == [at |-> at, phase |-> ph, label |-> <<kind, about>>]
Stabilization == IF stabilizing THEN {} ELSE {Event(now, 4, "Stabilize", 0)}

ExchangeInit ==
    /\ setting \in Settings
    /\ KernelInit({Event(setting.ready[s], 4, "Source", s) : s \in Ranks})
    /\ ChannelInit /\ ReceiverInit /\ AuthorityInit /\ DataInit
    /\ sourceKnown = {} /\ stabilizing = FALSE /\ envelopes = {} /\ planCount = 0
    /\ controlFree = 0 /\ bindingFree = 0 /\ skipped = FALSE
    /\ dirty = FALSE /\ stamp = 0 /\ submitted = FALSE

----------------------------------------------------------------------------
(* The backend's events. *)

\* _publish_dispatch_source_and_thread_ready.
SourceReady ==
    \E e \in SlotOf(phase), s \in Ranks :
        /\ e.label = <<"Source", s>>
        /\ Handle(e, {Event(now, 2, "Arrival", s), Event(now, 3, "SourceSeen", s)}
                        \cup Stabilization, TRUE)
        /\ PublishRow(s)
        /\ MarkSourcePayloadReady(s, now)
        /\ stabilizing' = TRUE
        /\ UNCHANGED <<authorityVars, dataVars, schedulerVars, setting, submitVars>>

\* stabilize: posting and draining start, each for one task of a rank.
Stabilize ==
    \E e \in SlotOf(phase) :
        /\ e.label[1] = "Stabilize"
        /\ Handle(e, {Event(now + setting.post, 4, "Posted", t) : t \in PostStarts}
                        \cup {Event(now + setting.drain, 4, "Drained", t) : t \in DrainStarts}, TRUE)
        /\ StabilizeReceivers
        /\ stabilizing' = FALSE
        /\ UNCHANGED <<channelVars, authorityVars, dataVars, schedulerVars, setting, submitVars>>

Posted ==
    \E e \in SlotOf(phase), t \in Tasks :
        /\ e.label = <<"Posted", t>>
        /\ Handle(e, {Event(now, 3, "PermitSeen", t)} \cup Stabilization, TRUE)
        /\ OnReceiverPostComplete(t)
        /\ stabilizing' = TRUE
        /\ UNCHANGED <<channelVars, authorityVars, dataVars, schedulerVars, setting, submitVars>>

\* WorkIsStarted (a faulty variant no specification uses): the memory that is
\* given back wakes nobody.
DrainedFault ==
    \E e \in SlotOf(phase), t \in Tasks :
        /\ e.label = <<"Drained", t>>
        /\ Handle(e, {}, TRUE)
        /\ OnReceiverDrainFinish(t)
        /\ UNCHANGED <<channelVars, authorityVars, dataVars, schedulerVars,
                       setting, stabilizing, submitVars>>

Drained ==
    \E e \in SlotOf(phase), t \in Tasks :
        /\ e.label = <<"Drained", t>>
        /\ Handle(e, Stabilization, TRUE)
        /\ OnReceiverDrainFinish(t)
        /\ stabilizing' = TRUE
        /\ UNCHANGED <<channelVars, authorityVars, dataVars, schedulerVars, setting, submitVars>>

----------------------------------------------------------------------------
(* The control channel's events. *)

Service(before) == IF servicePending' /\ ~before THEN {Event(now, 7, "Service", 0)} ELSE {}

Arrival ==
    \E e \in SlotOf(phase), s \in Ranks :
        /\ e.label = <<"Arrival", s>>
        /\ HandleArrival(s)
        /\ Handle(e, Service(servicePending), TRUE)
        /\ UNCHANGED <<receiverVars, authorityVars, dataVars, schedulerVars,
                       setting, stabilizing, submitVars>>

StartService ==
    \E e \in SlotOf(phase), s \in Ranks :
        /\ e.label[1] = "Service"
        /\ HandleService(s)
        /\ Handle(e, {Event(now + setting.serialization, 7, "Served", s),
                      Event(now + setting.serialization + setting.latency, 3, "Delivery", s)}, TRUE)
        /\ UNCHANGED <<receiverVars, authorityVars, dataVars, schedulerVars,
                       setting, stabilizing, submitVars>>

ServiceComplete ==
    \E e \in SlotOf(phase) :
        /\ e.label[1] = "Served"
        /\ HandleServiceComplete
        /\ Handle(e, Service(servicePending), TRUE)
        /\ UNCHANGED <<receiverVars, authorityVars, dataVars, schedulerVars,
                       setting, stabilizing, submitVars>>

\* on_dispatch_descriptor_delivered and _maybe_finalize_phase_closure: one
\* observation for each edge of the row that carries tasks, and the closure of
\* the phase with the last row.
Delivery ==
    \E e \in SlotOf(phase), s \in Ranks :
        /\ e.label = <<"Delivery", s>>
        /\ RegisterExpectations(s, now)
        /\ Handle(e, {Event(now, 3, "EdgeSeen", edge) : edge \in {f \in Edges : f[1] = s}}
                        \cup (IF \A r \in Ranks : expectedAt'[r] # NoTime
                              THEN {Event(now, 3, "ClosureSeen", 0)} ELSE {})
                        \cup Stabilization, TRUE)
        /\ stabilizing' = TRUE
        /\ UNCHANGED <<channelVars, authorityVars, dataVars, schedulerVars, setting, submitVars>>

----------------------------------------------------------------------------
(* The scheduler's observations, all in phase 3, and their coalescing. *)

Observed(kinds) == envelopes' = envelopes \cup kinds
Coalescing == IF envelopes = {} THEN {Event(now, 4, "Coalesce", 0)} ELSE {}
BecameReady == \E t \in Tasks : state[t] # "READY" /\ state'[t] = "READY"
ReadyEnvelope == IF BecameReady THEN {"READY"} ELSE {}
planningVars == <<planCount, controlFree, bindingFree, skipped>>

ObserveExpectation ==
    \E e \in SlotOf(phase), edge \in Edges :
        LET tasks == {t \in Tasks : Edge(t) = edge} IN
        /\ e.label = <<"EdgeSeen", edge>>
        /\ RegisterTasks(tasks, {t \in tasks : Src[t] \in sourceKnown})
        /\ RegisterCatalogue(tasks, now)
        /\ Handle(e, Coalescing \cup Stabilization, TRUE)
        /\ Observed({"OTHER"})
        /\ stabilizing' = TRUE
        /\ UNCHANGED <<channelVars, dataVars, sourceKnown, planningVars, setting, submitVars>>

ObserveSource ==
    \E e \in SlotOf(phase), s \in Ranks :
        LET tasks == {t \in canonical : Src[t] = s} IN
        /\ e.label = <<"SourceSeen", s>>
        /\ sourceKnown' = sourceKnown \cup {s}
        /\ NoteSourcePayloadReady(tasks)
        /\ Handle(e, Coalescing, tasks # {})
        /\ Observed({"OTHER"} \cup ReadyEnvelope)
        /\ dirty' = TRUE
        /\ UNCHANGED <<channelVars, receiverVars, dataVars, planningVars,
                       setting, stabilizing, stamp, submitted>>

\* DeliversOrSkips (a faulty variant no specification uses): a permit is not
\* reported as the change that made a task ready.
ObservePermitFault ==
    \E e \in SlotOf(phase), t \in Tasks :
        /\ e.label = <<"PermitSeen", t>>
        /\ NotePermit(t)
        /\ Handle(e, Coalescing, TRUE)
        /\ Observed({"OTHER"})
        /\ dirty' = TRUE
        /\ UNCHANGED <<channelVars, receiverVars, dataVars, sourceKnown, planningVars,
                       setting, stabilizing, stamp, submitted>>

ObservePermit ==
    \E e \in SlotOf(phase), t \in Tasks :
        /\ e.label = <<"PermitSeen", t>>
        /\ NotePermit(t)
        /\ Handle(e, Coalescing, TRUE)
        /\ Observed({"OTHER"} \cup ReadyEnvelope)
        /\ dirty' = TRUE
        /\ UNCHANGED <<channelVars, receiverVars, dataVars, sourceKnown, planningVars,
                       setting, stabilizing, stamp, submitted>>

ObserveClosure ==
    \E e \in SlotOf(phase) :
        /\ e.label[1] = "ClosureSeen"
        /\ Handle(e, Coalescing, TRUE)
        /\ Observed({"CLOSURE"})
        /\ UNCHANGED <<channelVars, receiverVars, authorityVars, dataVars, sourceKnown, planningVars,
                       setting, stabilizing, submitVars>>

\* _enqueue_control: the control line serves its jobs one after the other.
LineEnd(free, cost) == (IF now > free THEN now ELSE free) + cost
EnqueueControl ==
    /\ planCount' = planCount + 1
    /\ controlFree' = LineEnd(controlFree, setting.control)
    /\ UNCHANGED <<bindingFree, skipped>>
ControlJob == {Event(controlFree', 5, "Control", planCount')}

\* EVENT: the enabled trigger is TASK_READY.
CoalesceEvent ==
    \E e \in SlotOf(phase) :
        /\ e.label[1] = "Coalesce" /\ setting.mode = "EVENT"
        /\ IF "READY" \in envelopes /\ planCount < MaxEventPlans
           THEN EnqueueControl /\ Handle(e, ControlJob, TRUE)
           ELSE UNCHANGED planningVars /\ Handle(e, {}, "READY" \in envelopes)
        /\ envelopes' = {}
        /\ UNCHANGED <<channelVars, receiverVars, authorityVars, dataVars, sourceKnown,
                       setting, stabilizing, submitVars>>

CoalesceGlobal ==
    \E e \in SlotOf(phase) :
        /\ e.label[1] = "Coalesce" /\ setting.mode = "GLOBAL"
        /\ Handle(e, IF "CLOSURE" \in envelopes /\ planCount = 0
                     THEN {Event(now, 8, "Defer", 0)} ELSE {}, TRUE)
        /\ envelopes' = {}
        /\ UNCHANGED <<channelVars, receiverVars, authorityVars, dataVars, sourceKnown, planningVars,
                       setting, stabilizing, submitVars>>

DeferGlobal ==
    \E e \in SlotOf(phase) :
        /\ e.label[1] = "Defer"
        /\ Handle(e, {Event(now, 4, "Finalize", 0)}, FALSE)
        /\ UNCHANGED <<channelVars, receiverVars, authorityVars, dataVars, schedulerVars,
                       setting, stabilizing, submitVars>>

\* seal_phase raises unless the whole catalogue was registered.
FinalizeGlobal ==
    \E e \in SlotOf(phase) :
        /\ e.label[1] = "Finalize"
        /\ canonical = Tasks
        /\ EnqueueControl /\ Handle(e, ControlJob, TRUE)
        /\ UNCHANGED <<channelVars, receiverVars, authorityVars, dataVars, sourceKnown, envelopes,
                       setting, stabilizing, submitVars>>

----------------------------------------------------------------------------
(* The control and binding lines. *)

\* _handle_control_complete: any order of what is not frozen may be planned.
PreparedOrders == IF Unfrozen = {} THEN {<<>>} ELSE SetToSeqs(Unfrozen)
ControlComplete ==
    \E e \in SlotOf(phase), order \in PreparedOrders :
        /\ e.label[1] = "Control"
        /\ bindingFree' = LineEnd(bindingFree, setting.binding)
        /\ Handle(e, {Event(bindingFree', 5, "Bind", <<e.label[2], order>>)}, FALSE)
        /\ UNCHANGED <<channelVars, receiverVars, authorityVars, dataVars, sourceKnown, envelopes,
                       planCount, controlFree, skipped, setting, stabilizing, submitVars>>

\* activate_prepared: the plan is activated if it covers what is not frozen now;
\* a GLOBAL plan has to cover the whole sealed catalogue.
Bindings == {e \in SlotOf(phase) : e.label[1] = "Bind"}
Prepared(e) == e.label[2][2]
BindPlan ==
    \E e \in Bindings :
        /\ ActivatePlan(Prepared(e))
        /\ setting.mode = "GLOBAL" => ToSet(Prepared(e)) = canonical
        /\ Handle(e, {}, TRUE)
        /\ dirty' = TRUE
        /\ UNCHANGED <<channelVars, receiverVars, dataVars, schedulerVars,
                       setting, stabilizing, stamp, submitted>>

\* A stale plan is skipped in EVENT mode and raises in GLOBAL mode.
SkipStalePlan ==
    \E e \in Bindings :
        /\ Prepared(e) # <<>> /\ ToSet(Prepared(e)) # Unfrozen /\ setting.mode = "EVENT"
        /\ skipped' = TRUE
        /\ Handle(e, {}, FALSE)
        /\ UNCHANGED <<channelVars, receiverVars, authorityVars, dataVars, sourceKnown, envelopes,
                       planCount, controlFree, bindingFree, setting, stabilizing, submitVars>>

BindNothing ==
    \E e \in Bindings :
        /\ Prepared(e) = <<>>
        /\ Handle(e, {}, FALSE)
        /\ UNCHANGED <<channelVars, receiverVars, authorityVars, dataVars, schedulerVars,
                       setting, stabilizing, submitVars>>

----------------------------------------------------------------------------
(* _stabilize, the callback of phase 7: batches are compiled and committed   *)
(* until no ready task of the active plan fits.                              *)

\* compile_next goes through the remaining order and takes what fits.
InOrder(tasks, place) == SetToSortSeq(tasks, LAMBDA t, u : place[t] < place[u])
ReadyTasks == IF planStatus = "ACTIVE"
              THEN InOrder({t \in DOMAIN remaining : state[t] = "READY"}, remaining) ELSE <<>>
CanAdd(selected, t, idle, lanes) ==
    /\ Cardinality(selected) < BatchLimit
    /\ Src[t] # Dst[t] /\ t \in idle
    /\ \A u \in selected : LinkClass[u] = LinkClass[t] /\ ~Conflict(t, u)
    /\ Assignments(selected \cup {t}, lanes) # {}
BatchOf(order, idle, lanes) ==
    FoldLeft(LAMBDA selected, t : IF CanAdd(selected, t, idle, lanes)
                                  THEN selected \cup {t} ELSE selected, {}, order)
NextBatch == BatchOf(ReadyTasks, {t \in Tasks : Idle(t)}, Lanes \ busyLanes)

Submitting == dirty /\ ~submitted

PrepareBatch ==
    /\ Submitting /\ prepared = {} /\ NextBatch # {}
    /\ Callback({}, FALSE)
    /\ Prepare(NextBatch, permits)
    /\ stamp' = epoch
    /\ UNCHANGED <<channelVars, receiverVars, authorityVars, schedulerVars,
                   setting, stabilizing, dirty, submitted>>

ConfirmBatch ==
    \E receipt \in prepared :
        /\ Submitting
        /\ CommitBatch(TasksOf(receipt), stamp)
        /\ Confirm(receipt)
        /\ Callback({Event(now + setting.launch, 1, "Start", t) : t \in TasksOf(receipt)}, TRUE)
        /\ stamp' = 0
        /\ UNCHANGED <<channelVars, receiverVars, schedulerVars,
                       setting, stabilizing, dirty, submitted>>

\* The phase stays dirty as long as a ready task of the plan waits for resources.
EndSubmit ==
    /\ Submitting /\ prepared = {} /\ NextBatch = {}
    /\ Callback({}, FALSE)
    /\ dirty' = (ReadyTasks # <<>>) /\ submitted' = TRUE
    /\ UNCHANGED <<channelVars, receiverVars, authorityVars, dataVars, schedulerVars,
                   setting, stabilizing, stamp>>

----------------------------------------------------------------------------
(* The data channel's events and the adapters behind its sinks. *)

TransferStarts ==
    \E e \in SlotOf(phase), t \in Tasks :
        /\ e.label = <<"Start", t>>
        /\ StartTransfer(t) /\ MarkRunning(t)
        /\ Handle(e, {Event(now + setting.wire, 1, "Complete", t)}, TRUE)
        /\ UNCHANGED <<channelVars, receiverVars, schedulerVars, setting, stabilizing, submitVars>>

\* The scheduler first, then the receiver, then the resources.
TransferCompletes ==
    \E e \in SlotOf(phase), t \in Tasks :
        /\ e.label = <<"Complete", t>>
        /\ MarkCompleted(t) /\ OnTransferCompleted(t, now) /\ CompleteTransfer(t)
        /\ Handle(e, Stabilization, TRUE)
        /\ stabilizing' = TRUE /\ dirty' = TRUE
        /\ UNCHANGED <<channelVars, schedulerVars, setting, stamp, submitted>>

----------------------------------------------------------------------------
(* The kernel's loop; run_to_completion takes time stamps until the heap is empty. *)

systemVars == <<channelVars, receiverVars, authorityVars, dataVars, schedulerVars,
                setting, stabilizing, dirty, stamp>>

NextTime == NextTimestamp /\ UNCHANGED <<systemVars, submitted>>
EnterPhase ==
    /\ phase = Submit => ~Submitting
    /\ NextPhase /\ submitted' = FALSE /\ UNCHANGED systemVars
FinishRound == EndRound /\ UNCHANGED <<systemVars, submitted>>

Quiet == phase = 0 /\ begun /\ queue = {}
Terminated == Quiet /\ UNCHANGED vars

HandleEvent ==
    \/ SourceReady \/ Stabilize \/ Posted \/ Drained
    \/ Arrival \/ StartService \/ ServiceComplete \/ Delivery
    \/ ObserveExpectation \/ ObserveSource \/ ObservePermit \/ ObserveClosure
    \/ CoalesceEvent \/ CoalesceGlobal \/ DeferGlobal \/ FinalizeGlobal
    \/ ControlComplete \/ BindPlan \/ SkipStalePlan \/ BindNothing
    \/ TransferStarts \/ TransferCompletes

ExchangeNext ==
    \/ NextTime \/ EnterPhase \/ FinishRound \/ HandleEvent
    \/ PrepareBatch \/ ConfirmBatch \/ EndSubmit \/ Terminated

\* The simulator is one loop that runs until its heap is empty.
ExchangeSpec == ExchangeInit /\ [][ExchangeNext]_vars /\ WF_vars(ExchangeNext)

----------------------------------------------------------------------------
(* What the phase promises. *)

Pending(kind, t) == {e \in queue : e.label = <<kind, t>>}

\* What the scheduler takes for committed, running or completed is so in the
\* data channel.
SchedulerFollowsChannel ==
    \A t \in Tasks :
        /\ state[t] = "COMMITTED" <=> t \in TasksOf(transfers) \ started
        /\ state[t] = "RUNNING" <=> t \in started \ finished
        /\ state[t] = "COMPLETED" <=> t \in finished

\* The phase's record, the scheduler, the receiver, the data channel and the heap
\* tell the same story of every task: it is committed or running exactly while it is a
\* transfer of the channel with one event that moves it on, its posting and
\* its draining have one event each, and it is ready only after its buffer
\* was posted and its source's payload became ready.
TaskViewsAgree ==
    /\ RecordAgrees
    /\ SchedulerFollowsChannel
    /\ \A t \in Tasks :
        /\ state[t] = "COMPLETED" <=> job[t] \in {"TRANSFERRED", "DRAINING", "ASSEMBLED"}
        /\ state[t] # "PENDING" => payloadAt[Src[t]] # NoTime /\ job[t] \notin {"WAITING", "POSTING"}
        /\ Cardinality(Pending("Start", t)) = IF state[t] = "COMMITTED" THEN 1 ELSE 0
        /\ Cardinality(Pending("Complete", t)) = IF state[t] = "RUNNING" THEN 1 ELSE 0
        /\ Cardinality(Pending("Posted", t)) = IF job[t] = "POSTING" THEN 1 ELSE 0
        /\ Cardinality(Pending("Drained", t)) = IF job[t] = "DRAINING" THEN 1 ELSE 0

\* No wakeup is lost: when a time stamp has reached its fixed point, no server
\* that could start is idle - the control server, a posting server, a drain
\* line - and no ready task of the active plan still fits into a batch.  A kernel
\* that gave up has not reached it.
WorkIsStarted ==
    phase = 0 /\ begun /\ ~cycle =>
        /\ waiting # {} => serverBusy
        /\ PostStarts = {} /\ DrainStarts = {}
        /\ NextBatch = {}

AllDelivered ==
    /\ \A t \in Tasks : job[t] = "ASSEMBLED" /\ state[t] = "COMPLETED"
    /\ planStatus # "ACTIVE"

\* Every run delivers every task and completes its plan, and no fixed point
\* runs out of rounds; only in EVENT mode, and only after a stale plan was
\* skipped, may tasks be left.
DeliversOrSkips ==
    <>(Quiet /\ ~cycle /\ (AllDelivered \/ (setting.mode = "EVENT" /\ skipped)))

\* assert_terminal after run_to_completion: "formal integration runtime is not
\* terminal" is never raised, so every run that ends has delivered everything.
TerminalWhenQuiet == Quiet => AllDelivered
=============================================================================
