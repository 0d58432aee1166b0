---------------------------- MODULE FormalDataPlane ----------------------------
(***************************************************************************)
(* The data channel of the off-line simulator                              *)
(* (rs_sim/transport/data/channel.py).                                     *)
(*                                                                         *)
(* A batch of transfers is prepared - its endpoints, NICs and lanes are    *)
(* reserved in one step and a receipt is returned - and the receipt is     *)
(* then confirmed, which starts the transfers, or aborted, which gives     *)
(* everything back.  A transfer keeps what it holds until it completes.    *)
(* Times are left to the module that schedules the events, and the batches *)
(* and permits to the caller.                                              *)
(***************************************************************************)
EXTENDS TransferTasks, Naturals, FiniteSets

CONSTANTS TxNic, RxNic,   \* the NICs a rank sends and receives through
          LinkClass,      \* intra-node or inter-node, by task
          Lanes,
          EligibleLanes,  \* the lanes of the link class a task may use
          BatchLimit      \* hardware_profile.max_batch_tasks

ASSUME DataPlaneAssumption ==
    /\ BatchLimit \in Nat \ {0}
    /\ \A t \in Tasks : EligibleLanes[t] \subseteq Lanes

VARIABLES busySrc, busyDst, busyNics, busyLanes,
          prepared,       \* the live receipts, each a set of reservations
          transfers,      \* _active_transfers, with the lane of each
          known,          \* _known_physical_task_ids
          started, finished

dataVars == <<busySrc, busyDst, busyNics, busyLanes, prepared, transfers, known, started, finished>>

\* The NICs of a transfer's footprint.
Nics(t) == {TxNic[Src[t]], RxNic[Dst[t]]}
Reservations == [task : Tasks, lane : Lanes]
TasksOf(held) == {r.task : r \in held}

DataInit ==
    /\ busySrc = {} /\ busyDst = {} /\ busyNics = {} /\ busyLanes = {}
    /\ prepared = {} /\ transfers = {}
    /\ known = {} /\ started = {} /\ finished = {}

\* Two transfers of one batch may not share an endpoint or a NIC.
Conflict(t, u) ==
    Src[t] = Src[u] \/ Dst[t] = Dst[u] \/ Nics(t) \cap Nics(u) # {}

\* _exact_lane_assignment: one eligible lane for each task, no lane twice.
Assignments(batch, free) ==
    {lane \in [batch -> free] :
        /\ \A t \in batch : lane[t] \in EligibleLanes[t]
        /\ \A t, u \in batch : t # u => lane[t] # lane[u]}

\* A faulty variant of Idle, for HoldersAreDisjoint: only the sender is looked
\* at.  No specification uses it.
IdleFault(t) == Src[t] \notin busySrc

\* The checks of prepare_commit that do not depend on what is busy; a batch
\* that fails one is a fatal contract error.
WellFormed(batch, permits) ==
    /\ Cardinality(batch) \in 1..BatchLimit
    /\ \A t \in batch :
          /\ Src[t] # Dst[t]
          /\ t \notin known /\ t \notin TasksOf(UNION prepared)
          /\ t \in permits
    /\ \A t, u \in batch : LinkClass[t] = LinkClass[u] /\ (t # u => ~Conflict(t, u))
    /\ Assignments(batch, Lanes) # {}

\* The checks whose failure is retried when resources are released.
Idle(t) == Src[t] \notin busySrc /\ Dst[t] \notin busyDst /\ Nics(t) \cap busyNics = {}
Available(batch) ==
    /\ \A t \in batch : Idle(t)
    /\ Assignments(batch, Lanes \ busyLanes) # {}

Prepare(batch, permits) ==
    /\ WellFormed(batch, permits) /\ Available(batch)
    /\ \E lane \in Assignments(batch, Lanes \ busyLanes) :
          /\ prepared' = prepared \cup {{[task |-> t, lane |-> lane[t]] : t \in batch}}
          /\ busyLanes' = busyLanes \cup {lane[t] : t \in batch}
    /\ busySrc' = busySrc \cup {Src[t] : t \in batch}
    /\ busyDst' = busyDst \cup {Dst[t] : t \in batch}
    /\ busyNics' = busyNics \cup UNION {Nics(t) : t \in batch}
    /\ UNCHANGED <<transfers, known, started, finished>>

Confirm(receipt) ==
    /\ receipt \in prepared
    /\ prepared' = prepared \ {receipt}
    /\ transfers' = transfers \cup receipt
    /\ known' = known \cup TasksOf(receipt)
    /\ UNCHANGED <<busySrc, busyDst, busyNics, busyLanes, started, finished>>

\* _release_reserved, and the end of _handle_complete.
Release(held) ==
    /\ busySrc' = busySrc \ {Src[t] : t \in TasksOf(held)}
    /\ busyDst' = busyDst \ {Dst[t] : t \in TasksOf(held)}
    /\ busyNics' = busyNics \ UNION {Nics(t) : t \in TasksOf(held)}
    /\ busyLanes' = busyLanes \ {r.lane : r \in held}

\* The receipt's name is a digest of the batch, the time and the busy sets, and
\* a name that was aborted before is not aborted again; the only caller raises
\* after an abort, so a name never comes back.
Abort(receipt) ==
    /\ receipt \in prepared
    /\ prepared' = prepared \ {receipt}
    /\ Release(receipt)
    /\ UNCHANGED <<transfers, known, started, finished>>

StartTransfer(t) ==
    /\ t \in TasksOf(transfers) /\ t \notin started
    /\ started' = started \cup {t}
    /\ UNCHANGED <<busySrc, busyDst, busyNics, busyLanes, prepared, transfers, known, finished>>

CompleteTransfer(t) ==
    /\ t \in started /\ t \notin finished
    /\ \E r \in transfers :
          /\ r.task = t
          /\ transfers' = transfers \ {r}
          /\ Release({r})
    /\ finished' = finished \cup {t}
    /\ UNCHANGED <<prepared, known, started>>

DataNext ==
    \/ \E batch \in SUBSET Tasks : Prepare(batch, Tasks)
    \/ \E receipt \in prepared : Confirm(receipt) \/ Abort(receipt)
    \/ \E t \in Tasks : StartTransfer(t) \/ CompleteTransfer(t)

DataSpec == DataInit /\ [][DataNext]_dataVars

----------------------------------------------------------------------------
Held == transfers \cup UNION prepared

DataTypeOK ==
    /\ prepared \subseteq SUBSET Reservations /\ transfers \subseteq Reservations
    /\ known \subseteq Tasks /\ started \subseteq Tasks /\ finished \subseteq Tasks
    /\ busyLanes \subseteq Lanes

\* The busy sets of the channel are exactly what the prepared and the running
\* transfers hold: a reservation does not outlive an abort or a completion,
\* and none is given back while its transfer still needs it.
BusyIsHeld ==
    /\ busySrc = {Src[t] : t \in TasksOf(Held)}
    /\ busyDst = {Dst[t] : t \in TasksOf(Held)}
    /\ busyNics = UNION {Nics(t) : t \in TasksOf(Held)}
    /\ busyLanes = {r.lane : r \in Held}

\* Two transfers that hold resources at the same time share no endpoint, NIC
\* or lane, whether they are in one batch or in two.
HoldersAreDisjoint ==
    \A r, s \in Held : r # s => r.lane # s.lane /\ ~Conflict(r.task, s.task)

\* A transfer that was confirmed is under way or finished and never both, and
\* a prepared one was never confirmed before.
ConfirmedOnce ==
    /\ known = TasksOf(transfers) \cup finished
    /\ TasksOf(transfers) \cap finished = {}
    /\ TasksOf(UNION prepared) \cap known = {}
    /\ finished \subseteq started /\ started \subseteq known
=============================================================================
