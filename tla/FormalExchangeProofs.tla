---------------------------- MODULE FormalExchangeProofs ----------------------------
(***************************************************************************)
(* The kernel of the simulator with any handlers, and the dispatch phase   *)
(* as a use of that kernel and of the data channel.                        *)
(*                                                                         *)
(* First the data channel for any topology and any caller.  Then: with     *)
(* handlers that schedule acceptable events only, no event is              *)
(* overdue and time goes forward.  Then: every handler of the phase is     *)
(* such a handler, and touches the data channel by its operations only, so *)
(* what is proved of the two holds in every run of the phase - for all     *)
(* ranks, tasks, buffers, costs and limits.  Then: the record, the         *)
(* scheduler, the receivers, the channel and the heap agree on every task. *)
(* Last: the receivers' memory is accounted for.                           *)
(***************************************************************************)
EXTENDS FormalExchange, FiniteSetTheorems, WellFoundedInduction, TLAPS

----------------------------------------------------------------------------
(* The reservations of the data channel.  Its three invariants are inductive *)
(* together with the types and one more fact: no reservation is in two       *)
(* receipts.  An abort gives back what its receipt reserved; that nobody     *)
(* else holds any of it is exactly that and the disjointness of the holders. *)

ReceiptsAreApart == \A p, q \in prepared : p # q => p \cap q = {}

DataInv ==
    /\ DataTypeOK /\ ReceiptsAreApart
    /\ BusyIsHeld /\ HoldersAreDisjoint /\ ConfirmedOnce

----------------------------------------------------------------------------
(* Facts about what is held. *)

\* What a receipt or a running transfer holds is a task of the channel with a lane.
LEMMA HeldIsTyped ==
    ASSUME DataTypeOK
    PROVE  Held \subseteq Reservations
  BY DEF DataTypeOK, Held

\* The busy sets, once some holders have given back what they had: the rest
\* still holds exactly what is left, because no two holders share anything.
LEMMA ReleaseKeepsTheRest ==
    ASSUME NEW out, out \subseteq Held, BusyIsHeld, HoldersAreDisjoint, Release(out),
           DataTypeOK
    PROVE  LET rest == Held \ out IN
           /\ busySrc' = {Src[t] : t \in TasksOf(rest)}
           /\ busyDst' = {Dst[t] : t \in TasksOf(rest)}
           /\ busyNics' = UNION {Nics(t) : t \in TasksOf(rest)}
           /\ busyLanes' = {r.lane : r \in rest}
<1> DEFINE rest == Held \ out
<1>1. \A r \in rest, s \in out : r.lane # s.lane /\ ~Conflict(r.task, s.task)
  BY DEF HoldersAreDisjoint
<1>2. Held = rest \cup out
  OBVIOUS
<1>3. busySrc' = {Src[t] : t \in TasksOf(rest)}
  <2>1. busySrc = {Src[r.task] : r \in Held}
    BY DEF BusyIsHeld, TasksOf
  <2>2. busySrc' = busySrc \ {Src[r.task] : r \in out}
    BY DEF Release, TasksOf
  <2>3. \A r \in rest, s \in out : Src[r.task] # Src[s.task]
    BY <1>1 DEF Conflict
  <2>4. busySrc' = {Src[r.task] : r \in rest}
    BY <1>2, <2>1, <2>2, <2>3
  <2> QED
    BY <2>4 DEF TasksOf
<1>4. busyDst' = {Dst[t] : t \in TasksOf(rest)}
  <2>1. busyDst = {Dst[r.task] : r \in Held}
    BY DEF BusyIsHeld, TasksOf
  <2>2. busyDst' = busyDst \ {Dst[r.task] : r \in out}
    BY DEF Release, TasksOf
  <2>3. \A r \in rest, s \in out : Dst[r.task] # Dst[s.task]
    BY <1>1 DEF Conflict
  <2>4. busyDst' = {Dst[r.task] : r \in rest}
    BY <1>2, <2>1, <2>2, <2>3
  <2> QED
    BY <2>4 DEF TasksOf
<1>5. busyNics' = UNION {Nics(t) : t \in TasksOf(rest)}
  <2>1. \A n : n \in busyNics <=> \E r \in Held : n \in Nics(r.task)
    BY DEF BusyIsHeld, TasksOf
  <2>2. \A n : n \in busyNics' <=> n \in busyNics /\ ~\E r \in out : n \in Nics(r.task)
    BY DEF Release, TasksOf
  <2>3. \A r \in rest, s \in out : \A n : ~(n \in Nics(r.task) /\ n \in Nics(s.task))
    BY <1>1 DEF Conflict
  <2>4. \A n : n \in busyNics' <=> \E r \in rest : n \in Nics(r.task)
    BY <1>2, <2>1, <2>2, <2>3
  <2>5. \A n : n \in UNION {Nics(t) : t \in TasksOf(rest)} <=> \E r \in rest : n \in Nics(r.task)
    BY DEF TasksOf
  <2> QED
    BY <2>4, <2>5
<1>6. busyLanes' = {r.lane : r \in rest}
  BY <1>1, <1>2 DEF BusyIsHeld, Release
<1> QED
  BY <1>3, <1>4, <1>5, <1>6

----------------------------------------------------------------------------
(* The steps. *)

LEMMA PrepareKeepsDataInv ==
    ASSUME NEW batch, NEW allowed, allowed \subseteq Tasks, DataInv, Prepare(batch, allowed)
    PROVE  DataInv'
<1> USE DEF DataInv
<1>1. PICK lane \in Assignments(batch, Lanes \ busyLanes) :
          /\ prepared' = prepared \cup {{[task |-> t, lane |-> lane[t]] : t \in batch}}
          /\ busyLanes' = busyLanes \cup {lane[t] : t \in batch}
  BY DEF Prepare
<1> DEFINE new == {[task |-> t, lane |-> lane[t]] : t \in batch}
<1>2. \A t \in batch : /\ t \in Tasks /\ t \notin known /\ t \notin TasksOf(UNION prepared)
                       /\ Idle(t) /\ lane[t] \in Lanes /\ lane[t] \notin busyLanes
  BY <1>1 DEF Prepare, WellFormed, Available, Assignments
<1>3. \A t, u \in batch : t # u => ~Conflict(t, u) /\ lane[t] # lane[u]
  BY <1>1 DEF Prepare, WellFormed, Assignments
<1>4. /\ transfers' = transfers /\ known' = known /\ started' = started /\ finished' = finished
      /\ busySrc' = busySrc \cup {Src[t] : t \in batch}
      /\ busyDst' = busyDst \cup {Dst[t] : t \in batch}
      /\ busyNics' = busyNics \cup UNION {Nics(t) : t \in batch}
  BY DEF Prepare
<1>5. TasksOf(new) = batch /\ {r.lane : r \in new} = {lane[t] : t \in batch}
  <2> DEFINE of(t) == [task |-> t, lane |-> lane[t]]
  <2>1. \A t : of(t).task = t /\ of(t).lane = lane[t]
    OBVIOUS
  <2>2. \A r : r \in new <=> \E t \in batch : r = of(t)
    OBVIOUS
  <2> HIDE DEF of, new
  <2>3. TasksOf(new) = batch
    BY <2>1, <2>2 DEF TasksOf
  <2>4. {r.lane : r \in new} = {lane[t] : t \in batch}
    BY <2>1, <2>2
  <2> QED
    BY <2>3, <2>4
<1>6. Held' = Held \cup new
  BY <1>1, <1>4 DEF Held
<1>7. new \subseteq Reservations
  BY <1>2 DEF Reservations
<1>8. DataTypeOK'
  BY <1>1, <1>2, <1>4, <1>7 DEF DataTypeOK
<1>9. ReceiptsAreApart'
  <2>1. \A p \in prepared : p \cap new = {}
    BY <1>2 DEF TasksOf
  <2> QED
    BY <1>1, <2>1 DEF ReceiptsAreApart
<1>10. BusyIsHeld'
  <2>1. TasksOf(Held') = TasksOf(Held) \cup batch
    BY <1>5, <1>6 DEF TasksOf
  <2>2. {r.lane : r \in Held'} = {r.lane : r \in Held} \cup {lane[t] : t \in batch}
    BY <1>5, <1>6
  <2> QED
    BY <1>1, <1>4, <2>1, <2>2 DEF BusyIsHeld, Nics
<1>11. HoldersAreDisjoint'
  <2>1. ASSUME NEW r \in new, NEW s \in Held
        PROVE  r.lane # s.lane /\ ~Conflict(r.task, s.task) /\ ~Conflict(s.task, r.task)
    <3>1. r.task \in batch /\ r.lane = lane[r.task]
      OBVIOUS
    <3>2. s.lane \in busyLanes /\ Src[s.task] \in busySrc /\ Dst[s.task] \in busyDst
          /\ Nics(s.task) \subseteq busyNics
      BY DEF BusyIsHeld, TasksOf
    <3> QED
      BY <1>2, <3>1, <3>2 DEF Idle, Conflict
  <2>2. ASSUME NEW r \in new, NEW s \in new, r # s
        PROVE  r.lane # s.lane /\ ~Conflict(r.task, s.task)
    <3>1. PICK t \in batch : r = [task |-> t, lane |-> lane[t]]
      OBVIOUS
    <3>2. PICK u \in batch : s = [task |-> u, lane |-> lane[u]]
      OBVIOUS
    <3> QED
      BY <1>3, <2>2, <3>1, <3>2
  <2>3. \A r, s \in Held : r # s => r.lane # s.lane /\ ~Conflict(r.task, s.task)
    BY DEF HoldersAreDisjoint
  <2>4. \A r, s \in Held' : r # s => r.lane # s.lane /\ ~Conflict(r.task, s.task)
    BY <1>6, <2>1, <2>2, <2>3
  <2> QED
    BY <2>4 DEF HoldersAreDisjoint, Conflict, Nics
<1>12. ConfirmedOnce'
  <2>1. TasksOf(UNION prepared') = TasksOf(UNION prepared) \cup batch
    BY <1>1, <1>5 DEF TasksOf
  <2> QED
    BY <1>2, <1>4, <2>1 DEF ConfirmedOnce, TasksOf
<1> QED
  BY <1>8, <1>9, <1>10, <1>11, <1>12

LEMMA ConfirmKeepsDataInv ==
    ASSUME NEW receipt, DataInv, Confirm(receipt)
    PROVE  DataInv'
<1> USE DEF DataInv, Confirm
<1>1. Held' = Held
  BY DEF Held
<1>2. DataTypeOK'
  BY DEF DataTypeOK, TasksOf, Reservations
<1>3. ReceiptsAreApart'
  BY DEF ReceiptsAreApart
<1>4. BusyIsHeld'
  BY <1>1 DEF BusyIsHeld, TasksOf, Nics
<1>5. HoldersAreDisjoint'
  BY <1>1 DEF HoldersAreDisjoint, Conflict, Nics
<1>6. ConfirmedOnce'
  <2>1. receipt \subseteq UNION prepared /\ TasksOf(receipt) \cap known = {}
    BY DEF ConfirmedOnce, TasksOf
  <2>2. TasksOf(transfers') = TasksOf(transfers) \cup TasksOf(receipt)
    BY DEF TasksOf
  <2>3. TasksOf(UNION prepared') \cap TasksOf(receipt) = {}
    <3>1. ASSUME NEW r \in UNION prepared', NEW s \in receipt, r.task = s.task
          PROVE  FALSE
      <4>1. r # s
        BY <3>1 DEF ReceiptsAreApart
      <4>2. r \in Held /\ s \in Held
        BY <3>1 DEF Held
      <4> QED
        BY <3>1, <4>1, <4>2 DEF HoldersAreDisjoint, Conflict
    <3> QED
      BY <3>1 DEF TasksOf
  <2>4. TasksOf(UNION prepared') \subseteq TasksOf(UNION prepared)
    BY DEF TasksOf
  <2> QED
    BY <2>1, <2>2, <2>3, <2>4 DEF ConfirmedOnce
<1> QED
  BY <1>2, <1>3, <1>4, <1>5, <1>6

LEMMA AbortKeepsDataInv ==
    ASSUME NEW receipt, DataInv, Abort(receipt)
    PROVE  DataInv'
<1> USE DEF DataInv
<1>1. receipt \in prepared /\ prepared' = prepared \ {receipt} /\ Release(receipt)
      /\ transfers' = transfers /\ known' = known /\ started' = started /\ finished' = finished
  BY DEF Abort
<1>2. Held' = Held \ receipt
  <2>1. receipt \cap transfers = {}
    BY <1>1 DEF ConfirmedOnce, TasksOf
  <2> QED
    BY <1>1, <2>1 DEF Held, ReceiptsAreApart
<1>3. DataTypeOK'
  BY <1>1 DEF DataTypeOK, Release
<1>4. ReceiptsAreApart'
  BY <1>1 DEF ReceiptsAreApart
<1>5. BusyIsHeld'
  <2>1. receipt \subseteq Held
    BY <1>1 DEF Held
  <2> QED
    BY <1>1, <1>2, <2>1, ReleaseKeepsTheRest DEF BusyIsHeld, TasksOf, Nics
<1>6. HoldersAreDisjoint'
  BY <1>2 DEF HoldersAreDisjoint, Conflict, Nics
<1>7. ConfirmedOnce'
  BY <1>1 DEF ConfirmedOnce, TasksOf
<1> QED
  BY <1>3, <1>4, <1>5, <1>6, <1>7

LEMMA StartKeepsDataInv ==
    ASSUME NEW t, DataInv, StartTransfer(t)
    PROVE  DataInv'
<1> USE DEF DataInv, StartTransfer
<1>1. Held' = Held /\ t \in known
  BY DEF Held, ConfirmedOnce
<1>2. DataTypeOK' /\ ReceiptsAreApart'
  BY <1>1 DEF DataTypeOK, ReceiptsAreApart
<1>3. BusyIsHeld'
  BY <1>1 DEF BusyIsHeld, TasksOf, Nics
<1>4. HoldersAreDisjoint'
  BY <1>1 DEF HoldersAreDisjoint, Conflict, Nics
<1>5. ConfirmedOnce'
  BY <1>1 DEF ConfirmedOnce, TasksOf
<1> QED
  BY <1>2, <1>3, <1>4, <1>5

LEMMA CompleteKeepsDataInv ==
    ASSUME NEW t, DataInv, CompleteTransfer(t)
    PROVE  DataInv'
<1> USE DEF DataInv
<1>1. PICK r \in transfers : r.task = t /\ transfers' = transfers \ {r} /\ Release({r})
  BY DEF CompleteTransfer
<1>2. /\ t \in started /\ t \notin finished /\ finished' = finished \cup {t}
      /\ prepared' = prepared /\ known' = known /\ started' = started
  BY DEF CompleteTransfer
<1>3. Held' = Held \ {r}
  <2>1. r \notin UNION prepared
    BY <1>1 DEF ConfirmedOnce, TasksOf
  <2> QED
    BY <1>1, <1>2, <2>1 DEF Held
<1>4. DataTypeOK' /\ ReceiptsAreApart'
  BY <1>1, <1>2 DEF DataTypeOK, ReceiptsAreApart, Release
<1>5. BusyIsHeld'
  <2>1. {r} \subseteq Held
    BY <1>1 DEF Held
  <2> QED
    BY <1>1, <1>3, <2>1, ReleaseKeepsTheRest DEF BusyIsHeld, TasksOf, Nics
<1>6. HoldersAreDisjoint'
  BY <1>3 DEF HoldersAreDisjoint, Conflict, Nics
<1>7. ConfirmedOnce'
  <2>1. TasksOf(transfers') = TasksOf(transfers) \ {t}
    <3>1. \A s \in transfers : s.task = t => s = r
      BY <1>1 DEF HoldersAreDisjoint, Held, Conflict
    <3> QED
      BY <1>1, <3>1 DEF TasksOf
  <2>2. t \in TasksOf(transfers)
    BY <1>1 DEF TasksOf
  <2> QED
    BY <1>2, <2>1, <2>2 DEF ConfirmedOnce, TasksOf
<1> QED
  BY <1>4, <1>5, <1>6, <1>7

----------------------------------------------------------------------------
(* The theorems. *)

LEMMA DataInitHolds == DataInit => DataInv
  BY DEF DataInit, DataInv, DataTypeOK, ReceiptsAreApart, BusyIsHeld, HoldersAreDisjoint,
         ConfirmedOnce, Held, TasksOf

\* Every step of the channel keeps the invariant.
LEMMA DataStepHolds == DataInv /\ [DataNext]_dataVars => DataInv'
<1> SUFFICES ASSUME DataInv, [DataNext]_dataVars PROVE DataInv'
  OBVIOUS
<1>1. ASSUME NEW batch \in SUBSET Tasks, Prepare(batch, Tasks) PROVE DataInv'
  BY <1>1, PrepareKeepsDataInv
<1>2. ASSUME NEW receipt \in prepared, Confirm(receipt) \/ Abort(receipt) PROVE DataInv'
  BY <1>2, ConfirmKeepsDataInv, AbortKeepsDataInv
<1>3. ASSUME NEW t \in Tasks, StartTransfer(t) \/ CompleteTransfer(t) PROVE DataInv'
  BY <1>3, StartKeepsDataInv, CompleteKeepsDataInv
<1>4. CASE UNCHANGED dataVars
  BY <1>4 DEF dataVars, DataInv, DataTypeOK, ReceiptsAreApart, BusyIsHeld, HoldersAreDisjoint,
              ConfirmedOnce, Held, TasksOf, Conflict, Nics
<1> QED
  BY <1>1, <1>2, <1>3, <1>4 DEF DataNext

\* The invariant of the channel, from which the three theorems below follow.
THEOREM DataInvariant == DataSpec => []DataInv
<1>1. DataInit => DataInv
  BY DataInitHolds
<1>2. DataInv /\ [DataNext]_dataVars => DataInv'
  BY DataStepHolds
<1> QED
  BY <1>1, <1>2, PTL DEF DataSpec

\* The busy sets of the channel (prepare_commit, abort_commit and
\* _handle_complete) are always exactly what its holders hold.
THEOREM BusyIsHeldHolds == DataSpec => []BusyIsHeld
<1>1. DataInv => BusyIsHeld
  BY DEF DataInv
<1> QED
  BY <1>1, DataInvariant, PTL

\* No endpoint, NIC or lane ever serves two transfers at once (the checks of
\* prepare_commit against _busy_src, _busy_dst, _busy_nics and _busy_lanes).
THEOREM HoldersAreDisjointHolds == DataSpec => []HoldersAreDisjoint
<1>1. DataInv => HoldersAreDisjoint
  BY DEF DataInv
<1> QED
  BY <1>1, DataInvariant, PTL

\* A task is confirmed at most once, and what is confirmed runs or has finished
\* (_known_physical_task_ids and _active_transfers).
THEOREM ConfirmedOnceHolds == DataSpec => []ConfirmedOnce
<1>1. DataInv => ConfirmedOnce
  BY DEF DataInv
<1> QED
  BY <1>1, DataInvariant, PTL

----------------------------------------------------------------------------
(* The kernel: its definitions. *)

Slot == [at |-> now, round |-> round, phase |-> phase]

KernelInv ==
    /\ KernelTypeOK /\ NoEventIsOverdue
    /\ ~begun => now = 0

----------------------------------------------------------------------------
(* The kernel. *)

\* While a time stamp is processed, what waits for it belongs to this slot or a later one.
LEMMA OverdueMeans ==
    ASSUME KernelTypeOK, phase # 0
    PROVE  NoEventIsOverdue <=>
              \A e \in queue :
                  e.at >= now /\ (e.at = now => e.round > round \/ (e.round = round /\ e.phase >= phase))
  BY DEF KernelTypeOK, IsEvent, Phases, NoEventIsOverdue, Before

\* An event the kernel accepts during a time stamp is not overdue.
LEMMA AcceptedIsNotOverdue ==
    ASSUME KernelTypeOK, phase # 0, NEW f, Accepted(f)
    PROVE  /\ IsEvent(f) /\ f.at >= now
           /\ f.at = now => f.round > round \/ (f.round = round /\ f.phase >= phase)
  BY DEF KernelTypeOK, IsEvent, Phases, Accepted, RoundOf

LEMMA TimestampKeepsKernelInv ==
    ASSUME KernelInv, NextTimestamp PROVE KernelInv' /\ now' >= now /\ (begun => now' > now)
<1> USE DEF KernelInv
<1>1. PICK e \in queue : IsHead(e) /\ now' = e.at
  BY DEF NextTimestamp
<1>2. begun' = TRUE /\ round' = 0 /\ phase' = 1 /\ moved' = FALSE /\ queue' = queue /\ cycle' = cycle
  BY DEF NextTimestamp
<1>3. KernelTypeOK'
  <2>1. now' \in Nat /\ round' \in Nat /\ phase' \in 0..8
    BY <1>1, <1>2 DEF KernelTypeOK, IsEvent
  <2>2. begun' \in BOOLEAN /\ moved' \in BOOLEAN /\ cycle' \in BOOLEAN
    BY <1>2, Zenon DEF KernelTypeOK
  <2>3. \A f \in queue' : IsEvent(f)
    BY <1>2 DEF KernelTypeOK
  <2> QED
    BY <2>1, <2>2, <2>3 DEF KernelTypeOK, IsEvent
<1>4. \A f \in queue' : f.at >= now' /\ (f.at = now' => f.round >= 0 /\ f.phase >= 1)
  BY <1>1, <1>2 DEF KernelTypeOK, IsEvent, IsHead, Before, Phases
<1>5. NoEventIsOverdue'
  BY <1>2, <1>3, <1>4 DEF KernelTypeOK, IsEvent, Phases, NoEventIsOverdue, Before
<1>6. now' >= now /\ (begun => now' > now)
  BY <1>1 DEF NextTimestamp, NoEventIsOverdue, KernelTypeOK, IsEvent
<1> QED
  BY <1>2, <1>3, <1>5, <1>6

LEMMA HandlersKeepKernelInv ==
    ASSUME KernelInv, HandleAny \/ CallbackAny PROVE KernelInv'
<1> USE DEF KernelInv
<1>1. /\ phase # 0 /\ now' = now /\ begun' = begun /\ round' = round /\ phase' = phase
      /\ cycle' = cycle /\ moved' \in {moved, TRUE}
      /\ \A f \in queue' : f \in queue \/ Accepted(f)
  <2>1. CASE HandleAny
    <3>1. \A f \in queue' : f \in queue \/ Accepted(f)
      BY <2>1 DEF HandleAny
    <3> QED
      BY <2>1, <3>1, Zenon DEF HandleAny
  <2>2. CASE CallbackAny
    <3>1. phase # 0
      BY <2>2, KernelAssumption DEF CallbackAny
    <3>2. \A f \in queue' : f \in queue \/ Accepted(f)
      BY <2>2 DEF CallbackAny
    <3> QED
      BY <2>2, <3>1, <3>2, Zenon DEF CallbackAny
  <2> QED
    BY <2>1, <2>2
<1>2. KernelTypeOK'
  <2>1. now' \in Nat /\ round' \in Nat /\ phase' \in 0..8
    BY <1>1 DEF KernelTypeOK
  <2>2. begun' \in BOOLEAN /\ moved' \in BOOLEAN /\ cycle' \in BOOLEAN
    BY <1>1, Zenon DEF KernelTypeOK
  <2>3. \A f \in queue' : IsEvent(f)
    BY <1>1 DEF KernelTypeOK, Accepted
  <2> QED
    BY <2>1, <2>2, <2>3 DEF KernelTypeOK, IsEvent
<1>3. \A e \in queue' :
          e.at >= now /\ (e.at = now => e.round > round \/ (e.round = round /\ e.phase >= phase))
  BY <1>1, OverdueMeans, AcceptedIsNotOverdue
<1>4. NoEventIsOverdue'
  BY <1>1, <1>2, <1>3 DEF KernelTypeOK, IsEvent, Phases, NoEventIsOverdue, Before
<1> QED
  BY <1>1, <1>2, <1>4

\* A slot that looks empty at the head of the heap is empty, when nothing comes before it.
LEMMA EmptySlot ==
    ASSUME KernelTypeOK, NEW ph \in Phases, SlotOf(ph) = {},
           \A e \in queue : ~Before(e, [at |-> now, round |-> round, phase |-> ph])
    PROVE  \A e \in queue : ~(e.at = now /\ e.round = round /\ e.phase = ph)
<1> SUFFICES ASSUME NEW e \in queue, e.at = now, e.round = round, e.phase = ph PROVE FALSE
  OBVIOUS
<1>1. IsHead(e)
  BY DEF IsHead, Before
<1> QED
  BY <1>1 DEF SlotOf

\* Phases that are passed held nothing of this round.
LEMMA PassedPhasesAreEmpty ==
    ASSUME KernelInv, phase \in 1..7, NEW ph \in (phase + 1)..8,
           \A q \in phase..(ph - 1) : SlotOf(q) = {}
    PROVE  \A e \in queue : ~(e.at = now /\ e.round = round /\ e.phase < ph)
<1> USE DEF KernelInv
<1> DEFINE None(q) == \A e \in queue : ~(e.at = now /\ e.round = round /\ e.phase = q)
           Clear(k) == \A q \in phase..(ph - 1) : q <= k => None(q)
<1>1. KernelTypeOK /\ phase # 0
  OBVIOUS
<1>2. \A e \in queue :
          /\ e.at \in Nat /\ e.round \in Nat /\ e.phase \in 1..8
          /\ e.at >= now /\ (e.at = now => e.round > round \/ (e.round = round /\ e.phase >= phase))
  BY <1>1, OverdueMeans DEF KernelTypeOK, IsEvent, Phases
<1>3. now \in Nat /\ round \in Nat
  BY DEF KernelTypeOK
<1>4. ASSUME NEW k \in 0..7, Clear(k) PROVE Clear(k + 1)
  <2> SUFFICES ASSUME k + 1 \in phase..(ph - 1) PROVE None(k + 1)
    BY <1>4
  <2>1. \A e \in queue : ~(e.at = now /\ e.round = round /\ e.phase <= k)
    BY <1>2, <1>4
  <2>2. \A e \in queue : ~Before(e, [at |-> now, round |-> round, phase |-> k + 1])
    BY <1>2, <1>3, <2>1 DEF Before
  <2>3. k + 1 \in Phases /\ SlotOf(k + 1) = {}
    BY DEF Phases
  <2> QED
    BY <1>1, <2>2, <2>3, EmptySlot
<1>5. Clear(0)
  OBVIOUS
<1>6. Clear(7)
  <2> HIDE DEF Clear
  <2>1. Clear(0 + 1)
    BY <1>4, <1>5
  <2>2. Clear(2)
    BY <1>4, <2>1
  <2>3. Clear(3)
    BY <1>4, <2>2
  <2>4. Clear(4)
    BY <1>4, <2>3
  <2>5. Clear(5)
    BY <1>4, <2>4
  <2>6. Clear(6)
    BY <1>4, <2>5
  <2> QED
    BY <1>4, <2>6
<1> QED
  BY <1>2, <1>6

LEMMA NextPhaseKeepsKernelInv ==
    ASSUME KernelInv, NextPhase PROVE KernelInv' /\ phase' > phase
<1>1. /\ now' = now /\ begun' = begun /\ round' = round /\ queue' = queue
      /\ moved' = moved /\ cycle' = cycle /\ phase \in 1..7
  BY DEF NextPhase
<1>2. phase' \in (phase + 1)..8 /\ \A q \in phase..(phase' - 1) : SlotOf(q) = {}
  BY DEF NextPhase, Occupied
<1>3. \A e \in queue : ~(e.at = now /\ e.round = round /\ e.phase < phase')
  BY <1>1, <1>2, PassedPhasesAreEmpty
<1>4. KernelTypeOK'
  <2>1. phase' \in 0..8 /\ now' \in Nat /\ round' \in Nat
    BY <1>1, <1>2 DEF KernelInv, KernelTypeOK
  <2>2. begun' \in BOOLEAN /\ moved' \in BOOLEAN /\ cycle' \in BOOLEAN
    BY <1>1, Zenon DEF KernelInv, KernelTypeOK
  <2> QED
    BY <1>1, <2>1, <2>2 DEF KernelInv, KernelTypeOK, IsEvent
<1>5. NoEventIsOverdue'
  BY <1>1, <1>2, <1>3 DEF KernelInv, KernelTypeOK, IsEvent, Phases, NoEventIsOverdue, Before
<1> QED
  BY <1>1, <1>2, <1>4, <1>5 DEF KernelInv

LEMMA EndRoundKeepsKernelInv ==
    ASSUME KernelInv, EndRound PROVE KernelInv' /\ (phase' = 0 \/ round' > round)
<1> USE DEF KernelInv
<1>1. phase = 8 /\ SlotOf(8) = {} /\ now' = now /\ begun' = begun /\ queue' = queue
      /\ moved' = FALSE
  BY DEF EndRound
<1>2. \/ SameTimePending /\ cycle' = TRUE /\ phase' = 0 /\ round' = 0
      \/ cycle' = TRUE /\ phase' = 0 /\ round' = 0
      \/ cycle' = FALSE /\ phase' = 1 /\ round' = round + 1
      \/ ~SameTimePending /\ cycle' = FALSE /\ phase' = 0 /\ round' = 0
  BY DEF EndRound
<1>3. KernelTypeOK'
  <2>1. phase' \in 0..8 /\ now' \in Nat /\ round' \in Nat
    BY <1>1, <1>2 DEF KernelTypeOK
  <2>2. begun' \in BOOLEAN /\ moved' \in BOOLEAN /\ cycle' \in BOOLEAN
    BY <1>1, <1>2, Zenon DEF KernelTypeOK
  <2> QED
    BY <1>1, <2>1, <2>2 DEF KernelTypeOK, IsEvent
<1>4. \A e \in queue : e.at >= now /\ (e.at = now => e.round > round)
  <2>1. \A e \in queue :
            e.at >= now /\ (e.at = now => e.round > round \/ (e.round = round /\ e.phase >= 8))
    BY <1>1, OverdueMeans
  <2>2. 8 \in Phases /\ \A e \in queue : ~Before(e, [at |-> now, round |-> round, phase |-> 8])
    BY <2>1 DEF KernelTypeOK, IsEvent, Phases, Before
  <2>3. \A e \in queue : ~(e.at = now /\ e.round = round /\ e.phase = 8)
    BY <1>1, <2>2, EmptySlot
  <2> QED
    BY <2>1, <2>3 DEF KernelTypeOK, IsEvent, Phases
<1>5. NoEventIsOverdue'
  BY <1>1, <1>2, <1>3, <1>4
     DEF KernelTypeOK, IsEvent, Phases, NoEventIsOverdue, Before, SameTimePending
<1> QED
  BY <1>1, <1>2, <1>3, <1>5 DEF KernelTypeOK

LEMMA KernelInitHolds ==
    ASSUME now = 0, begun = FALSE, round = 0, phase = 0, moved = FALSE, cycle = FALSE,
           \A e \in queue : IsEvent(e) /\ e.round = 0
    PROVE  KernelInv
<1>1. begun \in BOOLEAN /\ moved \in BOOLEAN /\ cycle \in BOOLEAN
  BY Zenon
<1>2. KernelTypeOK
  BY <1>1 DEF KernelTypeOK
<1>3. NoEventIsOverdue
  BY Zenon DEF NoEventIsOverdue
<1> QED
  BY <1>2, <1>3 DEF KernelInv

LEMMA KernelStepHolds == KernelInv /\ [KernelNext]_kernelVars => KernelInv'
<1> SUFFICES ASSUME KernelInv, [KernelNext]_kernelVars PROVE KernelInv'
  OBVIOUS
<1>1. CASE UNCHANGED kernelVars
  BY <1>1 DEF kernelVars, KernelInv, KernelTypeOK, IsEvent, NoEventIsOverdue, Before
<1> QED
  BY <1>1, TimestampKeepsKernelInv, HandlersKeepKernelInv, NextPhaseKeepsKernelInv,
     EndRoundKeepsKernelInv DEF KernelNext

\* The invariant of the kernel, whatever the handlers do.
LEMMA KernelInvariant == KernelSpec => []KernelInv
<1>1. ASSUME now = 0, begun = FALSE, round = 0, phase = 0, moved = FALSE, cycle = FALSE,
             \A e \in queue : IsEvent(e) /\ e.round = 0
      PROVE  KernelInv
  BY <1>1, KernelInitHolds
<1> QED
  BY <1>1, KernelStepHolds, PTL DEF KernelSpec

\* No event is left behind by the rounds and phases of run_next_timestamp,
\* whatever its handlers schedule.
THEOREM NoEventIsOverdueHolds == KernelSpec => []NoEventIsOverdue
<1>1. KernelInv => NoEventIsOverdue
  BY DEF KernelInv
<1> QED
  BY <1>1, KernelInvariant, PTL

\* Time stamps are taken in increasing order, and rounds and phases in order.
THEOREM TimeGoesForwardHolds == KernelSpec => TimeGoesForward
<1> DEFINE Forward ==
      \/ now' > now
      \/ /\ now' = now
         /\ \/ ~begun \/ phase' = 0 \/ round' > round
            \/ round' = round /\ phase' >= phase
<1>1. KernelInv /\ [KernelNext]_kernelVars => [Forward]_kernelVars
  <2> SUFFICES ASSUME KernelInv, KernelNext PROVE Forward
    OBVIOUS
  <2>1. now \in Nat /\ round \in Nat /\ phase \in 0..8
    BY DEF KernelInv, KernelTypeOK
  <2>2. CASE NextTimestamp
    <3>1. now' >= now /\ (begun => now' > now) /\ now' \in Nat
      BY <2>2, TimestampKeepsKernelInv DEF KernelInv, KernelTypeOK
    <3> QED
      BY <2>1, <3>1
  <2>3. CASE HandleAny \/ CallbackAny
    <3>1. now' = now /\ round' = round /\ phase' = phase
      BY <2>3, Zenon DEF HandleAny, CallbackAny
    <3> QED
      BY <2>1, <3>1
  <2>4. CASE NextPhase
    BY <2>1, <2>4, NextPhaseKeepsKernelInv DEF NextPhase
  <2>5. CASE EndRound
    BY <2>1, <2>5, EndRoundKeepsKernelInv DEF EndRound
  <2> QED
    BY <2>2, <2>3, <2>4, <2>5 DEF KernelNext
<1> QED
  BY <1>1, KernelInvariant, PTL DEF KernelSpec, TimeGoesForward

----------------------------------------------------------------------------
(* What a handler of the phase may ask of the kernel. *)

Open(requests) == \A r \in requests : r.at \in Nat /\ r.at >= now /\ r.phase \in Phases

ExchangeInv ==
    /\ KernelTypeOK /\ permits \subseteq Tasks
    /\ setting \in Settings /\ controlFree \in Nat /\ bindingFree \in Nat

LEMMA AcceptedWhenOpen ==
    ASSUME KernelTypeOK, phase # 0, NEW requests, Open(requests), NEW f \in Stamped(requests)
    PROVE  /\ Accepted(f)
           /\ ~(f.at = now /\ f.round = round /\ f.phase = phase)
<1>1. PICK r \in requests :
          f = [at |-> r.at, round |-> RoundOf(r.at, r.phase), phase |-> r.phase, label |-> r.label]
  BY DEF Stamped
<1>2. r.at \in Nat /\ r.at >= now /\ r.phase \in Phases
  BY DEF Open
<1>3. f.at = r.at /\ f.round = RoundOf(r.at, r.phase) /\ f.phase = r.phase
  BY <1>1
<1>4. round \in Nat /\ now \in Nat /\ phase \in Nat
  BY DEF KernelTypeOK
<1>5. f.round \in Nat
  BY <1>2, <1>3, <1>4 DEF RoundOf
<1>6. ~(f.at = now /\ f.round = round /\ f.phase = phase)
  BY <1>2, <1>3, <1>4 DEF RoundOf, Phases
<1> QED
  BY <1>2, <1>3, <1>5, <1>6 DEF Accepted, IsEvent

LEMMA HandleIsOpen ==
    ASSUME KernelTypeOK, NEW e, NEW requests, NEW progress \in BOOLEAN,
           Handle(e, requests, progress), Open(requests)
    PROVE  HandleAny
<1>1. /\ phase # 0 /\ e \in SlotOf(phase)
      /\ queue' = (queue \ {e}) \cup Stamped(requests)
      /\ UNCHANGED <<now, begun, round, phase, cycle>>
  BY DEF Handle
<1>2. \A f \in Stamped(requests) : Accepted(f) /\ f # e
  BY <1>1, AcceptedWhenOpen DEF SlotOf
<1>3. moved' \in {moved, TRUE}
  <2>1. moved' = (moved \/ progress)
    BY DEF Handle
  <2>2. moved \in BOOLEAN
    BY DEF KernelTypeOK
  <2> QED
    BY <2>1, <2>2, Zenon
<1>4. /\ queue \ {e} \subseteq queue' /\ e \notin queue'
      /\ \A f \in queue' \ queue : Accepted(f)
  BY <1>1, <1>2
<1> QED
  BY <1>1, <1>3, <1>4, Zenon DEF HandleAny

LEMMA CallbackIsOpen ==
    ASSUME KernelTypeOK, NEW requests, NEW progress \in BOOLEAN,
           Callback(requests, progress), Open(requests)
    PROVE  CallbackAny
<1>1. /\ phase = Submit /\ SlotOf(phase) = {} /\ queue' = queue \cup Stamped(requests)
      /\ UNCHANGED <<now, begun, round, phase, cycle>>
  BY DEF Callback
<1>2. \A f \in Stamped(requests) : Accepted(f)
  BY <1>1, KernelAssumption, AcceptedWhenOpen
<1>3. moved' \in {moved, TRUE}
  <2>1. moved' = (moved \/ progress)
    BY DEF Callback
  <2>2. moved \in BOOLEAN
    BY DEF KernelTypeOK
  <2> QED
    BY <2>1, <2>2, Zenon
<1>4. queue \subseteq queue' /\ \A f \in queue' \ queue : Accepted(f)
  BY <1>1, <1>2
<1> QED
  BY <1>1, <1>3, <1>4, Zenon DEF CallbackAny

\* Requests for now, or for later by a cost of the setting, are open.
LEMMA EventIsOpen ==
    ASSUME NEW at \in Nat, at >= now, NEW ph \in Phases, NEW kind, NEW about
    PROVE  Open({Event(at, ph, kind, about)})
  BY DEF Open, Event

LEMMA EventsAreOpen ==
    ASSUME NEW at \in Nat, at >= now, NEW ph \in Phases, NEW kind, NEW S
    PROVE  Open({Event(at, ph, kind, x) : x \in S})
  BY DEF Open, Event

LEMMA OpenUnion ==
    ASSUME NEW R, NEW Q, Open(R), Open(Q) PROVE Open(R \cup Q)
  BY DEF Open

LEMMA NothingIsOpen == Open({})
  BY DEF Open

LEMMA UsualRequestsAreOpen ==
    ASSUME KernelTypeOK, NEW before
    PROVE  Open(Stabilization) /\ Open(Coalescing) /\ Open(Service(before))
  BY EventIsOpen, NothingIsOpen DEF Stabilization, Coalescing, Service, KernelTypeOK, Phases

----------------------------------------------------------------------------
(* Every handler of the phase is a handler of the kernel. *)

\* The times of the phase: what a line or a channel finishes is not in the past.
LEMMA CostsAreTimes ==
    ASSUME ExchangeInv
    PROVE  /\ now \in Nat
           /\ \A c \in {setting.post, setting.drain, setting.serialization, setting.launch,
                       setting.wire, setting.serialization + setting.latency} :
                 now + c \in Nat /\ now + c >= now
           /\ LineEnd(controlFree, setting.control) \in Nat
           /\ LineEnd(controlFree, setting.control) >= now
           /\ LineEnd(bindingFree, setting.binding) \in Nat
           /\ LineEnd(bindingFree, setting.binding) >= now
  BY ExchangeAssumption DEF ExchangeInv, KernelTypeOK, LineEnd

LEMMA BackendEventsAreOpen ==
    ASSUME ExchangeInv, SourceReady \/ Stabilize \/ Posted \/ Drained
    PROVE  HandleAny
<1>1. KernelTypeOK /\ now \in Nat /\ now >= now
  BY DEF ExchangeInv, KernelTypeOK
<1>2. CASE SourceReady
  <2>1. PICK e \in SlotOf(phase), s \in Ranks :
            Handle(e, {Event(now, 2, "Arrival", s), Event(now, 3, "SourceSeen", s)}
                          \cup Stabilization, TRUE)
    BY <1>2 DEF SourceReady
  <2>2. Open({Event(now, 2, "Arrival", s), Event(now, 3, "SourceSeen", s)})
    BY <1>1 DEF Open, Event, Phases
  <2> QED
    BY <1>1, <2>1, <2>2, OpenUnion, UsualRequestsAreOpen, HandleIsOpen
<1>3. CASE Stabilize
  <2>1. PICK e \in SlotOf(phase) :
            Handle(e, {Event(now + setting.post, 4, "Posted", t) : t \in PostStarts}
                        \cup {Event(now + setting.drain, 4, "Drained", t) : t \in DrainStarts}, TRUE)
    BY <1>3 DEF Stabilize
  <2>2. Open({Event(now + setting.post, 4, "Posted", t) : t \in PostStarts})
    BY CostsAreTimes, EventsAreOpen DEF Phases
  <2>3. Open({Event(now + setting.drain, 4, "Drained", t) : t \in DrainStarts})
    BY CostsAreTimes, EventsAreOpen DEF Phases
  <2> QED
    BY <1>1, <2>1, <2>2, <2>3, OpenUnion, HandleIsOpen
<1>4. CASE Posted
  <2>1. PICK e \in SlotOf(phase), t \in Tasks :
            Handle(e, {Event(now, 3, "PermitSeen", t)} \cup Stabilization, TRUE)
    BY <1>4 DEF Posted
  <2>2. Open({Event(now, 3, "PermitSeen", t)})
    BY <1>1, EventIsOpen DEF Phases
  <2> QED
    BY <1>1, <2>1, <2>2, OpenUnion, UsualRequestsAreOpen, HandleIsOpen
<1>5. CASE Drained
  BY <1>1, <1>5, UsualRequestsAreOpen, HandleIsOpen DEF Drained
<1> QED
  BY <1>2, <1>3, <1>4, <1>5

LEMMA ChannelEventsAreOpen ==
    ASSUME ExchangeInv, Arrival \/ StartService \/ ServiceComplete \/ Delivery
    PROVE  HandleAny
<1>1. KernelTypeOK /\ now \in Nat /\ now >= now
  BY DEF ExchangeInv, KernelTypeOK
<1>2. CASE Arrival
  BY <1>1, <1>2, UsualRequestsAreOpen, HandleIsOpen DEF Arrival
<1>3. CASE StartService
  <2>1. PICK e \in SlotOf(phase), s \in Ranks :
            Handle(e, {Event(now + setting.serialization, 7, "Served", s),
                       Event(now + setting.serialization + setting.latency, 3, "Delivery", s)}, TRUE)
    BY <1>3 DEF StartService
  <2>2. setting.serialization \in Nat /\ setting.latency \in Nat
    BY ExchangeAssumption DEF ExchangeInv
  <2>3. Open({Event(now + setting.serialization, 7, "Served", s),
              Event(now + setting.serialization + setting.latency, 3, "Delivery", s)})
    BY <1>1, <2>2 DEF Open, Event, Phases
  <2> QED
    BY <1>1, <2>1, <2>3, HandleIsOpen
<1>4. CASE ServiceComplete
  BY <1>1, <1>4, UsualRequestsAreOpen, HandleIsOpen DEF ServiceComplete
<1>5. CASE Delivery
  <2>1. PICK e \in SlotOf(phase), s \in Ranks :
            Handle(e, {Event(now, 3, "EdgeSeen", edge) : edge \in {f \in Edges : f[1] = s}}
                        \cup (IF \A r \in Ranks : expectedAt'[r] # NoTime
                              THEN {Event(now, 3, "ClosureSeen", 0)} ELSE {})
                        \cup Stabilization, TRUE)
    BY <1>5 DEF Delivery
  <2>2. Open({Event(now, 3, "EdgeSeen", edge) : edge \in {f \in Edges : f[1] = s}})
    BY <1>1 DEF Open, Event, Phases
  <2>3. Open(IF \A r \in Ranks : expectedAt'[r] # NoTime
             THEN {Event(now, 3, "ClosureSeen", 0)} ELSE {})
    BY <1>1, EventIsOpen, NothingIsOpen DEF Phases
  <2> QED
    BY <1>1, <2>1, <2>2, <2>3, OpenUnion, UsualRequestsAreOpen, HandleIsOpen
<1> QED
  BY <1>2, <1>3, <1>4, <1>5

LEMMA ObservationsAreOpen ==
    ASSUME ExchangeInv,
           ObserveExpectation \/ ObserveSource \/ ObservePermit \/ ObserveClosure
    PROVE  HandleAny
<1>1. KernelTypeOK /\ Open(Coalescing) /\ Open(Stabilization)
  BY UsualRequestsAreOpen DEF ExchangeInv
<1>2. CASE ObserveExpectation
  BY <1>1, <1>2, OpenUnion, HandleIsOpen DEF ObserveExpectation
<1>3. CASE ObserveSource
  <2>1. PICK e \in SlotOf(phase), s \in Ranks :
            Handle(e, Coalescing, {t \in canonical : Src[t] = s} # {})
    BY <1>3 DEF ObserveSource
  <2>2. ({t \in canonical : Src[t] = s} # {}) \in BOOLEAN
    OBVIOUS
  <2> QED
    BY <1>1, <2>1, <2>2, HandleIsOpen
<1>4. CASE ObservePermit
  BY <1>1, <1>4, HandleIsOpen DEF ObservePermit
<1>5. CASE ObserveClosure
  BY <1>1, <1>5, HandleIsOpen DEF ObserveClosure
<1> QED
  BY <1>2, <1>3, <1>4, <1>5

LEMMA PlanningEventsAreOpen ==
    ASSUME ExchangeInv,
           \/ CoalesceEvent \/ CoalesceGlobal \/ DeferGlobal \/ FinalizeGlobal
           \/ ControlComplete \/ BindPlan \/ SkipStalePlan \/ BindNothing
    PROVE  HandleAny
<1>1. KernelTypeOK /\ Open({}) /\ now \in Nat /\ now >= now
  BY NothingIsOpen DEF ExchangeInv, KernelTypeOK
<1>2. ASSUME EnqueueControl PROVE Open(ControlJob)
  <2>1. controlFree' = LineEnd(controlFree, setting.control)
    BY <1>2 DEF EnqueueControl
  <2> QED
    BY <2>1, CostsAreTimes, EventIsOpen DEF ControlJob, Phases
<1>3. CASE CoalesceEvent
  <2>1. PICK e \in SlotOf(phase) :
            IF "READY" \in envelopes /\ planCount < MaxEventPlans
            THEN EnqueueControl /\ Handle(e, ControlJob, TRUE)
            ELSE Handle(e, {}, "READY" \in envelopes)
    BY <1>3 DEF CoalesceEvent
  <2>2. ("READY" \in envelopes) \in BOOLEAN
    OBVIOUS
  <2>3. CASE EnqueueControl /\ Handle(e, ControlJob, TRUE)
    BY <1>1, <1>2, <2>3, HandleIsOpen
  <2>4. CASE Handle(e, {}, "READY" \in envelopes)
    BY <1>1, <2>2, <2>4, HandleIsOpen
  <2> QED
    BY <2>1, <2>3, <2>4
<1>4. CASE CoalesceGlobal
  <2>1. PICK e \in SlotOf(phase) :
            Handle(e, IF "CLOSURE" \in envelopes /\ planCount = 0
                      THEN {Event(now, 8, "Defer", 0)} ELSE {}, TRUE)
    BY <1>4 DEF CoalesceGlobal
  <2>2. Open({Event(now, 8, "Defer", 0)})
    BY <1>1, EventIsOpen DEF Phases
  <2> QED
    BY <1>1, <2>1, <2>2, HandleIsOpen
<1>5. CASE DeferGlobal
  <2>1. Open({Event(now, 4, "Finalize", 0)})
    BY <1>1, EventIsOpen DEF Phases
  <2> QED
    BY <1>1, <1>5, <2>1, HandleIsOpen DEF DeferGlobal
<1>6. CASE FinalizeGlobal
  BY <1>1, <1>2, <1>6, HandleIsOpen DEF FinalizeGlobal
<1>7. CASE ControlComplete
  <2>1. PICK e \in SlotOf(phase), order \in PreparedOrders :
            /\ bindingFree' = LineEnd(bindingFree, setting.binding)
            /\ Handle(e, {Event(bindingFree', 5, "Bind", <<e.label[2], order>>)}, FALSE)
    BY <1>7 DEF ControlComplete
  <2>2. Open({Event(bindingFree', 5, "Bind", <<e.label[2], order>>)})
    BY <2>1, CostsAreTimes, EventIsOpen DEF Phases
  <2> QED
    BY <1>1, <2>1, <2>2, HandleIsOpen
<1>8. CASE BindPlan
  BY <1>1, <1>8, HandleIsOpen DEF BindPlan
<1>9. CASE SkipStalePlan
  BY <1>1, <1>9, HandleIsOpen DEF SkipStalePlan
<1>10. CASE BindNothing
  BY <1>1, <1>10, HandleIsOpen DEF BindNothing
<1> QED
  BY <1>3, <1>4, <1>5, <1>6, <1>7, <1>8, <1>9, <1>10

LEMMA TransfersAreOpen ==
    ASSUME ExchangeInv
    PROVE  /\ TransferStarts \/ TransferCompletes => HandleAny
           /\ PrepareBatch \/ ConfirmBatch \/ EndSubmit => CallbackAny
<1>1. KernelTypeOK /\ Open({}) /\ Open(Stabilization)
  BY NothingIsOpen, UsualRequestsAreOpen DEF ExchangeInv
<1>2. TransferStarts => HandleAny
  <2> SUFFICES ASSUME TransferStarts PROVE HandleAny
    OBVIOUS
  <2>1. PICK e \in SlotOf(phase), t \in Tasks :
            Handle(e, {Event(now + setting.wire, 1, "Complete", t)}, TRUE)
    BY DEF TransferStarts
  <2>2. Open({Event(now + setting.wire, 1, "Complete", t)})
    BY CostsAreTimes, EventIsOpen DEF Phases
  <2> QED
    BY <1>1, <2>1, <2>2, HandleIsOpen
<1>3. TransferCompletes => HandleAny
  BY <1>1, HandleIsOpen DEF TransferCompletes
<1>4. PrepareBatch => CallbackAny
  BY <1>1, CallbackIsOpen DEF PrepareBatch
<1>5. ConfirmBatch => CallbackAny
  <2> SUFFICES ASSUME ConfirmBatch PROVE CallbackAny
    OBVIOUS
  <2>1. PICK receipt \in prepared :
            Callback({Event(now + setting.launch, 1, "Start", t) : t \in TasksOf(receipt)}, TRUE)
    BY DEF ConfirmBatch
  <2>2. Open({Event(now + setting.launch, 1, "Start", t) : t \in TasksOf(receipt)})
    BY CostsAreTimes, EventsAreOpen DEF Phases
  <2> QED
    BY <1>1, <2>1, <2>2, CallbackIsOpen
<1>6. EndSubmit => CallbackAny
  BY <1>1, CallbackIsOpen DEF EndSubmit
<1> QED
  BY <1>2, <1>3, <1>4, <1>5, <1>6

LEMMA HandlersAreOpen == ASSUME ExchangeInv, HandleEvent PROVE HandleAny
  BY BackendEventsAreOpen, ChannelEventsAreOpen, ObservationsAreOpen, PlanningEventsAreOpen,
     TransfersAreOpen DEF HandleEvent

\* A step of the phase is a step of the kernel, or leaves it alone.
LEMMA ExchangeStepIsKernelStep ==
    ASSUME ExchangeInv, [ExchangeNext]_vars PROVE [KernelNext]_kernelVars
<1>1. CASE NextTime \/ EnterPhase \/ FinishRound
  BY <1>1 DEF NextTime, EnterPhase, FinishRound, KernelNext
<1>2. CASE HandleEvent
  BY <1>2, HandlersAreOpen DEF KernelNext
<1>3. CASE PrepareBatch \/ ConfirmBatch \/ EndSubmit
  BY <1>3, TransfersAreOpen DEF KernelNext
<1>4. CASE Terminated \/ UNCHANGED vars
  BY <1>4 DEF Terminated, vars
<1> QED
  BY <1>1, <1>2, <1>3, <1>4 DEF ExchangeNext

----------------------------------------------------------------------------
(* The phase and the data channel. *)

\* Only the batches and the transfers touch the channel, by its operations.
LEMMA ExchangeStepIsDataStep ==
    ASSUME ExchangeInv, [ExchangeNext]_vars PROVE [DataNext]_dataVars
<1>1. CASE NextTime \/ EnterPhase \/ FinishRound
  BY <1>1 DEF NextTime, EnterPhase, FinishRound, systemVars
<1>2. CASE SourceReady \/ Stabilize \/ Posted \/ Drained
  BY <1>2 DEF SourceReady, Stabilize, Posted, Drained
<1>3. CASE Arrival \/ StartService \/ ServiceComplete \/ Delivery
  BY <1>3 DEF Arrival, StartService, ServiceComplete, Delivery
<1>4. CASE ObserveExpectation \/ ObserveSource \/ ObservePermit \/ ObserveClosure
  BY <1>4 DEF ObserveExpectation, ObserveSource, ObservePermit, ObserveClosure
<1>5. CASE CoalesceEvent \/ CoalesceGlobal \/ DeferGlobal \/ FinalizeGlobal
  BY <1>5 DEF CoalesceEvent, CoalesceGlobal, DeferGlobal, FinalizeGlobal
<1>6. CASE ControlComplete \/ BindPlan \/ SkipStalePlan \/ BindNothing
  BY <1>6 DEF ControlComplete, BindPlan, SkipStalePlan, BindNothing
<1>7. CASE TransferStarts
  BY <1>7 DEF TransferStarts, DataNext
<1>8. CASE TransferCompletes
  BY <1>8 DEF TransferCompletes, DataNext
<1>9. CASE PrepareBatch
  <2>1. PICK batch : Prepare(batch, permits)
    BY <1>9 DEF PrepareBatch
  <2>2. permits \subseteq Tasks
    BY DEF ExchangeInv
  <2>3. batch \in SUBSET Tasks /\ Prepare(batch, Tasks)
    BY <2>1, <2>2 DEF Prepare, WellFormed
  <2> QED
    BY <2>3 DEF DataNext
<1>10. CASE ConfirmBatch
  BY <1>10 DEF ConfirmBatch, DataNext
<1>11. CASE EndSubmit \/ Terminated \/ UNCHANGED vars
  BY <1>11 DEF EndSubmit, Terminated, vars
<1> QED
  BY <1>1, <1>2, <1>3, <1>4, <1>5, <1>6, <1>7, <1>8, <1>9, <1>10, <1>11
     DEF ExchangeNext, HandleEvent

----------------------------------------------------------------------------
(* The theorems about the phase. *)

PhaseInv == KernelInv /\ ExchangeInv

LEMMA PhaseInitHolds ==
    ASSUME ExchangeInit
    PROVE  /\ PhaseInv /\ DataInit
           /\ now = 0 /\ begun = FALSE /\ round = 0 /\ phase = 0 /\ moved = FALSE /\ cycle = FALSE
           /\ \A e \in queue : IsEvent(e) /\ e.round = 0
<1>1. now = 0 /\ begun = FALSE /\ round = 0 /\ phase = 0 /\ moved = FALSE /\ cycle = FALSE
  BY DEF ExchangeInit, KernelInit
<1>2. \A e \in queue : IsEvent(e) /\ e.round = 0
  <2>1. \A s \in Ranks : setting.ready[s] \in Nat
    BY ExchangeAssumption DEF ExchangeInit
  <2>2. \A r \in {Event(setting.ready[s], 4, "Source", s) : s \in Ranks} :
            r.at \in Nat /\ r.phase = 4
    BY <2>1 DEF Event
  <2>3. queue = {[at |-> r.at, round |-> 0, phase |-> r.phase, label |-> r.label] :
                    r \in {Event(setting.ready[s], 4, "Source", s) : s \in Ranks}}
    BY DEF ExchangeInit, KernelInit
  <2> QED
    BY <2>2, <2>3 DEF IsEvent, Phases
<1>3. KernelInv
  BY <1>1, <1>2, KernelInitHolds
<1>4. ExchangeInv
  BY <1>3 DEF ExchangeInit, AuthorityInit, ExchangeInv, KernelInv
<1> QED
  BY <1>1, <1>2, <1>3, <1>4 DEF ExchangeInit, PhaseInv

\* The settings never change, permits are of tasks, and the lines are free at a time.
LEMMA ExchangeInvStep ==
    ASSUME PhaseInv, [ExchangeNext]_vars
    PROVE  PhaseInv'
<1>1. ExchangeInv /\ KernelInv
  BY DEF PhaseInv
<1>2. KernelInv'
  BY <1>1, ExchangeStepIsKernelStep, KernelStepHolds
<1>3. setting' = setting
  <2>1. CASE NextTime \/ EnterPhase \/ FinishRound \/ Terminated \/ UNCHANGED vars
    BY <2>1 DEF NextTime, EnterPhase, FinishRound, Terminated, vars, systemVars
  <2>2. CASE SourceReady \/ Stabilize \/ Posted \/ Drained
    BY <2>2 DEF SourceReady, Stabilize, Posted, Drained
  <2>3. CASE Arrival \/ StartService \/ ServiceComplete \/ Delivery
    BY <2>3 DEF Arrival, StartService, ServiceComplete, Delivery
  <2>4. CASE ObserveExpectation \/ ObserveSource \/ ObservePermit \/ ObserveClosure
    BY <2>4 DEF ObserveExpectation, ObserveSource, ObservePermit, ObserveClosure
  <2>5. CASE CoalesceEvent \/ CoalesceGlobal \/ DeferGlobal \/ FinalizeGlobal
    BY <2>5 DEF CoalesceEvent, CoalesceGlobal, DeferGlobal, FinalizeGlobal
  <2>6. CASE ControlComplete \/ BindPlan \/ SkipStalePlan \/ BindNothing
    BY <2>6 DEF ControlComplete, BindPlan, SkipStalePlan, BindNothing
  <2>7. CASE PrepareBatch \/ ConfirmBatch \/ EndSubmit \/ TransferStarts \/ TransferCompletes
    BY <2>7 DEF PrepareBatch, ConfirmBatch, EndSubmit, TransferStarts, TransferCompletes
  <2> QED
    BY <2>1, <2>2, <2>3, <2>4, <2>5, <2>6, <2>7 DEF ExchangeNext, HandleEvent
<1>4. permits' = permits \/ \E t \in Tasks : permits' = permits \cup {t}
  <2>1. CASE NextTime \/ EnterPhase \/ FinishRound \/ Terminated \/ UNCHANGED vars
    BY <2>1 DEF NextTime, EnterPhase, FinishRound, Terminated, vars, systemVars, authorityVars
  <2>2. CASE SourceReady \/ Stabilize \/ Posted \/ Drained
    BY <2>2 DEF SourceReady, Stabilize, Posted, Drained, authorityVars
  <2>3. CASE Arrival \/ StartService \/ ServiceComplete \/ Delivery
    BY <2>3 DEF Arrival, StartService, ServiceComplete, Delivery, authorityVars
  <2>4. CASE ObserveExpectation \/ ObserveSource \/ ObserveClosure
    BY <2>4 DEF ObserveExpectation, ObserveSource, ObserveClosure, authorityVars,
                RegisterTasks, NoteSourcePayloadReady
  <2>5. CASE ObservePermit
    BY <2>5 DEF ObservePermit, NotePermit
  <2>6. CASE CoalesceEvent \/ CoalesceGlobal \/ DeferGlobal \/ FinalizeGlobal
    BY <2>6 DEF CoalesceEvent, CoalesceGlobal, DeferGlobal, FinalizeGlobal, authorityVars
  <2>7. CASE ControlComplete \/ BindPlan \/ SkipStalePlan \/ BindNothing
    BY <2>7 DEF ControlComplete, BindPlan, SkipStalePlan, BindNothing, authorityVars, ActivatePlan
  <2>8. CASE PrepareBatch \/ ConfirmBatch \/ EndSubmit \/ TransferStarts \/ TransferCompletes
    BY <2>8 DEF PrepareBatch, ConfirmBatch, EndSubmit, TransferStarts, TransferCompletes,
                authorityVars, CommitBatch, MarkRunning, MarkCompleted
  <2> QED
    BY <2>1, <2>2, <2>3, <2>4, <2>5, <2>6, <2>7, <2>8 DEF ExchangeNext, HandleEvent
<1>5. /\ controlFree' = controlFree \/ controlFree' = LineEnd(controlFree, setting.control)
      /\ bindingFree' = bindingFree \/ bindingFree' = LineEnd(bindingFree, setting.binding)
  <2>1. CASE NextTime \/ EnterPhase \/ FinishRound \/ Terminated \/ UNCHANGED vars
    BY <2>1 DEF NextTime, EnterPhase, FinishRound, Terminated, vars, systemVars, schedulerVars
  <2>2. CASE SourceReady \/ Stabilize \/ Posted \/ Drained
    BY <2>2 DEF SourceReady, Stabilize, Posted, Drained, schedulerVars
  <2>3. CASE Arrival \/ StartService \/ ServiceComplete \/ Delivery
    BY <2>3 DEF Arrival, StartService, ServiceComplete, Delivery, schedulerVars
  <2>4. CASE ObserveExpectation \/ ObserveSource \/ ObservePermit \/ ObserveClosure
    BY <2>4 DEF ObserveExpectation, ObserveSource, ObservePermit, ObserveClosure, planningVars
  <2>5. CASE CoalesceEvent \/ CoalesceGlobal \/ DeferGlobal \/ FinalizeGlobal
    BY <2>5 DEF CoalesceEvent, CoalesceGlobal, DeferGlobal, FinalizeGlobal, planningVars,
                schedulerVars, EnqueueControl
  <2>6. CASE ControlComplete \/ BindPlan \/ SkipStalePlan \/ BindNothing
    BY <2>6 DEF ControlComplete, BindPlan, SkipStalePlan, BindNothing, schedulerVars
  <2>7. CASE PrepareBatch \/ ConfirmBatch \/ EndSubmit \/ TransferStarts \/ TransferCompletes
    BY <2>7 DEF PrepareBatch, ConfirmBatch, EndSubmit, TransferStarts, TransferCompletes,
                schedulerVars
  <2> QED
    BY <2>1, <2>2, <2>3, <2>4, <2>5, <2>6, <2>7 DEF ExchangeNext, HandleEvent
<1>6. ExchangeInv'
  BY <1>1, <1>2, <1>3, <1>4, <1>5, CostsAreTimes DEF ExchangeInv, KernelInv
<1> QED
  BY <1>2, <1>6 DEF PhaseInv

LEMMA PhaseInvariant == ExchangeSpec => []PhaseInv
<1>1. ExchangeInit => PhaseInv
  BY PhaseInitHolds
<1>2. PhaseInv /\ [ExchangeNext]_vars => PhaseInv'
  BY ExchangeInvStep
<1> QED
  BY <1>1, <1>2, PTL DEF ExchangeSpec

\* The phase is a use of the kernel: every handler of the backend, the
\* scheduler and the two channels schedules acceptable events only
\* (SimulationKernel.schedule never raises).
THEOREM ExchangeImplementsKernel == ExchangeSpec => KernelSpec
<1>1. PhaseInv /\ [ExchangeNext]_vars => [KernelNext]_kernelVars
  BY ExchangeStepIsKernelStep DEF PhaseInv
<1>2. ExchangeInit =>
          /\ now = 0 /\ begun = FALSE /\ round = 0 /\ phase = 0 /\ moved = FALSE /\ cycle = FALSE
          /\ \A e \in queue : IsEvent(e) /\ e.round = 0
  BY PhaseInitHolds
<1> QED
  BY <1>1, <1>2, PhaseInvariant, PTL DEF ExchangeSpec, KernelSpec

\* The scheduler uses the data channel by its operations only, and prepares
\* batches of canonical tasks.
THEOREM ExchangeImplementsData == ExchangeSpec => DataSpec
<1>1. PhaseInv /\ [ExchangeNext]_vars => [DataNext]_dataVars
  BY ExchangeStepIsDataStep DEF PhaseInv
<1>2. ExchangeInit => DataInit
  BY PhaseInitHolds
<1> QED
  BY <1>1, <1>2, PhaseInvariant, PTL DEF ExchangeSpec, DataSpec

\* In every run of the phase, no event is left behind.
THEOREM NoEventOfThePhaseIsOverdue == ExchangeSpec => []NoEventIsOverdue
  BY ExchangeImplementsKernel, NoEventIsOverdueHolds, PTL

\* In every run of the phase, time goes forward.
THEOREM TimeOfThePhaseGoesForward == ExchangeSpec => TimeGoesForward
  BY ExchangeImplementsKernel, TimeGoesForwardHolds, PTL

\* In every run of the phase the channel's busy sets are what its transfers
\* hold, and no endpoint, NIC or lane serves two of them.
THEOREM TransfersOfThePhaseAreDisjoint == ExchangeSpec => [](BusyIsHeld /\ HoldersAreDisjoint)
  BY ExchangeImplementsData, BusyIsHeldHolds, HoldersAreDisjointHolds, PTL

----------------------------------------------------------------------------
(* The scheduler and the data channel. *)

AgreeInv ==
    /\ state \in [Tasks -> States]
    /\ record \in [committed : SUBSET Tasks, running : SUBSET Tasks, completed : SUBSET Tasks]
    /\ RecordFollowsState /\ SchedulerFollowsChannel

shared == <<state, record, transfers, started, finished>>

\* A task that becomes ready was pending; the channel does not know it.
LEMMA RefreshKeepsAgreement ==
    ASSUME AgreeInv, NEW permitted, NEW sourced, state' = Refreshed(permitted, sourced),
           UNCHANGED <<record, transfers, started, finished>>
    PROVE  AgreeInv'
<1>1. \A t \in Tasks : \/ state'[t] = state[t]
                       \/ state[t] = "PENDING" /\ state'[t] = "READY"
  BY DEF Refreshed
<1>2. state' \in [Tasks -> States]
  BY DEF Refreshed, AgreeInv, States
<1>3. InState("COMMITTED")' = InState("COMMITTED") /\ InState("RUNNING")' = InState("RUNNING")
      /\ InState("COMPLETED")' = InState("COMPLETED")
  BY <1>1 DEF InState
<1>4. RecordFollowsState'
  BY <1>3 DEF AgreeInv, RecordFollowsState
<1>5. SchedulerFollowsChannel'
  BY <1>1 DEF AgreeInv, SchedulerFollowsChannel, TasksOf
<1> QED
  BY <1>2, <1>4, <1>5 DEF AgreeInv

\* Every other step of the phase leaves the tasks' states, the record and the
\* transfers alone, but for commit, start and completion.
LEMMA OtherStepsKeepAgreement ==
    ASSUME AgreeInv, [ExchangeNext]_vars, ~ConfirmBatch, ~TransferStarts, ~TransferCompletes
    PROVE  AgreeInv'
<1>1. CASE UNCHANGED shared
  BY <1>1 DEF shared, AgreeInv, RecordFollowsState, InState, SchedulerFollowsChannel, TasksOf
<1>2. CASE ObserveExpectation \/ ObserveSource \/ ObservePermit
  <2>1. PICK permitted, sourced : state' = Refreshed(permitted, sourced)
    BY <1>2 DEF ObserveExpectation, ObserveSource, ObservePermit, RegisterTasks,
                NoteSourcePayloadReady, NotePermit
  <2>2. UNCHANGED <<record, transfers, started, finished>>
    BY <1>2 DEF ObserveExpectation, ObserveSource, ObservePermit, RegisterTasks,
                NoteSourcePayloadReady, NotePermit, dataVars
  <2> QED
    BY <2>1, <2>2, RefreshKeepsAgreement
<1>3. CASE NextTime \/ EnterPhase \/ FinishRound \/ Terminated \/ UNCHANGED vars
  BY <1>1, <1>3 DEF NextTime, EnterPhase, FinishRound, Terminated, vars, systemVars,
                    authorityVars, dataVars, shared
<1>4. CASE SourceReady \/ Stabilize \/ Posted \/ Drained
  BY <1>1, <1>4 DEF SourceReady, Stabilize, Posted, Drained, authorityVars, dataVars, shared
<1>5. CASE Arrival \/ StartService \/ ServiceComplete \/ Delivery
  BY <1>1, <1>5 DEF Arrival, StartService, ServiceComplete, Delivery, authorityVars, dataVars, shared
<1>6. CASE ObserveClosure
  BY <1>1, <1>6 DEF ObserveClosure, authorityVars, dataVars, shared
<1>7. CASE CoalesceEvent \/ CoalesceGlobal \/ DeferGlobal \/ FinalizeGlobal
  BY <1>1, <1>7 DEF CoalesceEvent, CoalesceGlobal, DeferGlobal, FinalizeGlobal,
                    authorityVars, dataVars, shared
<1>8. CASE ControlComplete \/ BindPlan \/ SkipStalePlan \/ BindNothing
  BY <1>1, <1>8 DEF ControlComplete, BindPlan, SkipStalePlan, BindNothing, ActivatePlan,
                    authorityVars, dataVars, shared
<1>9. CASE PrepareBatch \/ EndSubmit
  BY <1>1, <1>9 DEF PrepareBatch, EndSubmit, Prepare, authorityVars, dataVars, shared
<1> QED
  BY <1>2, <1>3, <1>4, <1>5, <1>6, <1>7, <1>8, <1>9 DEF ExchangeNext, HandleEvent

\* A batch is committed by both sides: its tasks were ready, so the channel
\* neither carries nor has finished one of them.
LEMMA CommitKeepsAgreement ==
    ASSUME AgreeInv, DataInv, ConfirmBatch
    PROVE  AgreeInv'
<1>1. PICK receipt \in prepared : CommitBatch(TasksOf(receipt), stamp) /\ Confirm(receipt)
  BY DEF ConfirmBatch
<1> DEFINE batch == TasksOf(receipt)
<1>2. /\ state' = [t \in Tasks |-> IF t \in batch THEN "COMMITTED" ELSE state[t]]
      /\ record' = [record EXCEPT !.committed = @ \cup batch]
      /\ \A t \in batch : state[t] = "READY"
  BY <1>1 DEF CommitBatch
<1>3. transfers' = transfers \cup receipt /\ started' = started /\ finished' = finished
  BY <1>1 DEF Confirm
<1>4. TasksOf(transfers)' = TasksOf(transfers) \cup batch
  BY <1>3 DEF TasksOf
<1>5. batch \subseteq Tasks /\ batch \cap started = {} /\ finished \subseteq started
  BY <1>1 DEF DataInv, DataTypeOK, ConfirmedOnce, TasksOf, Reservations
<1>6. /\ state' \in [Tasks -> States]
      /\ record' \in [committed : SUBSET Tasks, running : SUBSET Tasks, completed : SUBSET Tasks]
  BY <1>2, <1>5 DEF AgreeInv, States
<1>7. SchedulerFollowsChannel'
  <2> SUFFICES ASSUME NEW t \in Tasks
               PROVE  /\ state'[t] = "COMMITTED" <=> t \in (TasksOf(transfers) \cup batch) \ started
                      /\ state'[t] = "RUNNING" <=> t \in started \ finished
                      /\ state'[t] = "COMPLETED" <=> t \in finished
    BY <1>3, <1>4 DEF SchedulerFollowsChannel
  <2>1. CASE t \in batch
    BY <1>2, <1>5, <2>1
  <2>2. CASE t \notin batch
    BY <1>2, <2>2 DEF AgreeInv, SchedulerFollowsChannel
  <2> QED
    BY <2>1, <2>2
<1>8. RecordFollowsState'
  <2>1. InState("COMMITTED")' = InState("COMMITTED") \cup batch
    BY <1>2, <1>5 DEF InState
  <2>2. InState("RUNNING")' = InState("RUNNING") /\ InState("COMPLETED")' = InState("COMPLETED")
    BY <1>2, <1>5 DEF InState
  <2> QED
    BY <1>2, <2>1, <2>2 DEF AgreeInv, RecordFollowsState
<1> QED
  BY <1>6, <1>7, <1>8 DEF AgreeInv

\* A committed task starts on both sides.
LEMMA StartKeepsAgreement ==
    ASSUME AgreeInv, DataInv, TransferStarts
    PROVE  AgreeInv'
<1>1. PICK t \in Tasks : StartTransfer(t) /\ MarkRunning(t)
  BY DEF TransferStarts
<1>2. /\ state[t] = "COMMITTED" /\ state' = [state EXCEPT ![t] = "RUNNING"]
      /\ record' = [record EXCEPT !.committed = @ \ {t}, !.running = @ \cup {t}]
  BY <1>1 DEF MarkRunning
<1>3. /\ t \in TasksOf(transfers) /\ t \notin started /\ started' = started \cup {t}
      /\ transfers' = transfers /\ finished' = finished /\ finished \subseteq started
  BY <1>1 DEF StartTransfer, DataInv, ConfirmedOnce
<1>4. /\ state' \in [Tasks -> States]
      /\ record' \in [committed : SUBSET Tasks, running : SUBSET Tasks, completed : SUBSET Tasks]
  BY <1>2 DEF AgreeInv, States
<1>5. SchedulerFollowsChannel'
  BY <1>2, <1>3 DEF AgreeInv, SchedulerFollowsChannel, TasksOf
<1>6. RecordFollowsState'
  <2>1. /\ InState("COMMITTED")' = InState("COMMITTED") \ {t}
        /\ InState("RUNNING")' = InState("RUNNING") \cup {t}
        /\ InState("COMPLETED")' = InState("COMPLETED")
    BY <1>2 DEF InState, AgreeInv
  <2> QED
    BY <1>2, <2>1 DEF AgreeInv, RecordFollowsState
<1> QED
  BY <1>4, <1>5, <1>6 DEF AgreeInv

\* A running transfer completes on both sides.
LEMMA CompletionKeepsAgreement ==
    ASSUME AgreeInv, DataInv, TransferCompletes
    PROVE  AgreeInv'
<1>1. PICK t \in Tasks : MarkCompleted(t) /\ CompleteTransfer(t)
  BY DEF TransferCompletes
<1>2. /\ state[t] = "RUNNING" /\ state' = [state EXCEPT ![t] = "COMPLETED"]
      /\ record' = [record EXCEPT !.running = @ \ {t}, !.completed = @ \cup {t}]
  BY <1>1 DEF MarkCompleted
<1>3. PICK r \in transfers : r.task = t /\ transfers' = transfers \ {r}
  BY <1>1 DEF CompleteTransfer
<1>4. /\ t \in started /\ t \notin finished /\ finished' = finished \cup {t} /\ started' = started
  BY <1>1 DEF CompleteTransfer
<1>5. TasksOf(transfers)' \ started = TasksOf(transfers) \ started
  BY <1>3, <1>4 DEF TasksOf
<1>6. /\ state' \in [Tasks -> States]
      /\ record' \in [committed : SUBSET Tasks, running : SUBSET Tasks, completed : SUBSET Tasks]
  BY <1>2 DEF AgreeInv, States
<1>7. SchedulerFollowsChannel'
  <2> SUFFICES ASSUME NEW u \in Tasks
               PROVE  /\ state'[u] = "COMMITTED" <=> u \in TasksOf(transfers) \ started
                      /\ state'[u] = "RUNNING" <=> u \in started \ (finished \cup {t})
                      /\ state'[u] = "COMPLETED" <=> u \in finished \cup {t}
    BY <1>4, <1>5 DEF SchedulerFollowsChannel
  <2> QED
    BY <1>2, <1>4 DEF AgreeInv, SchedulerFollowsChannel
<1>8. RecordFollowsState'
  <2>1. /\ InState("COMMITTED")' = InState("COMMITTED")
        /\ InState("RUNNING")' = InState("RUNNING") \ {t}
        /\ InState("COMPLETED")' = InState("COMPLETED") \cup {t}
    BY <1>2 DEF InState, AgreeInv
  <2> QED
    BY <1>2, <2>1 DEF AgreeInv, RecordFollowsState
<1> QED
  BY <1>6, <1>7, <1>8 DEF AgreeInv

\* The agreement of the scheduler and the channel, and the types it needs, hold.
LEMMA AgreeInvariant == ExchangeSpec => []AgreeInv
<1>1. ExchangeInit => AgreeInv
  BY DEF ExchangeInit, AuthorityInit, DataInit, AgreeInv, States, RecordFollowsState, InState,
         SchedulerFollowsChannel, TasksOf
<1>2. AgreeInv /\ DataInv /\ [ExchangeNext]_vars => AgreeInv'
  BY OtherStepsKeepAgreement, CommitKeepsAgreement, StartKeepsAgreement, CompletionKeepsAgreement
<1> QED
  BY <1>1, <1>2, ExchangeImplementsData, DataInvariant, PTL DEF ExchangeSpec

\* In every run of the phase the scheduler takes a task for committed, running
\* or completed exactly while the data channel has confirmed it, transfers it
\* or has finished it, and its record of the phase says the same.
THEOREM SchedulerAndChannelAgree ==
    ExchangeSpec => [](SchedulerFollowsChannel /\ RecordFollowsState)
<1>1. AgreeInv => SchedulerFollowsChannel /\ RecordFollowsState
  BY DEF AgreeInv
<1> QED
  BY <1>1, AgreeInvariant, PTL

----------------------------------------------------------------------------
(* The views of a task: what the record, the receiver, the scheduler and the *)
(* heap say of it.  That a task is ready only after its buffer was posted    *)
(* needs the events under way: what the scheduler was told, or will be told  *)
(* by an event of the heap, is so (NewsIsTrue).  That a task has one event   *)
(* for what it waits for needs the two sides to move in one step.            *)

Jobs == {"WAITING", "POSTING", "POSTED", "TRANSFERRED", "DRAINING", "ASSEMBLED"}

ViewsType ==
    /\ job \in [Tasks -> Jobs] /\ payloadAt \in [Ranks -> Nat \cup {NoTime}]
    /\ permits \subseteq Tasks /\ sourceReady \subseteq Tasks /\ sourceKnown \subseteq Ranks
    /\ canonical \subseteq Tasks

IsPosted(t) == job[t] \notin {"WAITING", "POSTING"}
HasPayload(s) == payloadAt[s] # NoTime

\* What the scheduler was told of a task, or will be by an event, is so.
NewsIsTrue ==
    /\ \A e \in queue :
          /\ \A s \in Ranks : e.label = <<"SourceSeen", s>> => HasPayload(s)
          /\ \A t \in Tasks : e.label = <<"PermitSeen", t>> => IsPosted(t)
    /\ \A s \in sourceKnown : HasPayload(s)
    /\ \A t \in sourceReady : HasPayload(Src[t])
    /\ \A t \in permits : IsPosted(t)

\* A task is ready only by what the scheduler was told, and transferred on both sides.
StagesAgree ==
    \A t \in Tasks :
        /\ state[t] # "PENDING" => t \in permits /\ t \in sourceReady
        /\ state[t] = "COMPLETED" <=> job[t] \in {"TRANSFERRED", "DRAINING", "ASSEMBLED"}

\* A task has one event of a kind while that event is due, and none otherwise.
HasOne(kind, t, due) ==
    IF due THEN \E e : Pending(kind, t) = {e} ELSE Pending(kind, t) = {}

EventsOf(t) ==
    /\ HasOne("Start", t, state[t] = "COMMITTED")
    /\ HasOne("Complete", t, state[t] = "RUNNING")
    /\ HasOne("Posted", t, job[t] = "POSTING")
    /\ HasOne("Drained", t, job[t] = "DRAINING")

EventsInv == \A t \in Tasks : EventsOf(t)

PlanInv ==
    planStatus = "ACTIVE" => DOMAIN remaining \subseteq Unfrozen /\ IsInjective(remaining)

\* The views of a task, but for the plan.
ViewsCore == ViewsType /\ NewsIsTrue /\ StagesAgree /\ EventsInv
ViewsInv == ViewsCore /\ PlanInv

----------------------------------------------------------------------------
(* The events of a task. *)

\* A step takes some events from the heap and adds those that are asked for.
Moves(gone, requests) == queue' = (queue \ gone) \cup Stamped(requests)

\* What a handler and a callback do to the heap.
LEMMA HandlersMove ==
    ASSUME NEW e, NEW requests, NEW progress
    PROVE  /\ Handle(e, requests, progress) => e \in queue /\ Moves({e}, requests)
           /\ Callback(requests, progress) => Moves({}, requests)
  BY DEF Handle, Callback, SlotOf, Moves

\* A request keeps its label in the heap.
LEMMA StampedLabels ==
    ASSUME NEW requests
    PROVE  /\ \A f \in Stamped(requests) : \E r \in requests : f.label = r.label
           /\ \A r \in requests : \E f \in Stamped(requests) : f.label = r.label
<1> DEFINE stamped(r) ==
      [at |-> r.at, round |-> RoundOf(r.at, r.phase), phase |-> r.phase, label |-> r.label]
<1>1. \A r : stamped(r).label = r.label
  OBVIOUS
<1>2. Stamped(requests) = {stamped(r) : r \in requests}
  BY DEF Stamped
<1> HIDE DEF stamped
<1> QED
  BY <1>1, <1>2

\* Events that are neither taken nor asked for wait on.
LEMMA PendingIsKept ==
    ASSUME NEW gone, NEW requests, Moves(gone, requests), NEW kind, NEW t,
           \A g \in gone : g.label # <<kind, t>>,
           \A r \in requests : r.label # <<kind, t>>
    PROVE  Pending(kind, t)' = Pending(kind, t)
<1>1. \A f \in Stamped(requests) : f.label # <<kind, t>>
  BY StampedLabels
<1> QED
  BY <1>1 DEF Moves, Pending

\* The one event of a kind is asked for.
LEMMA PendingIsAdded ==
    ASSUME NEW gone, NEW requests, Moves(gone, requests), NEW kind, NEW t, Pending(kind, t) = {},
           \E r \in requests :
              /\ r.label = <<kind, t>>
              /\ \A q \in requests : q.label = <<kind, t>> => q = r
    PROVE  HasOne(kind, t, TRUE)'
<1>1. PICK r \in requests :
         /\ r.label = <<kind, t>>
         /\ \A q \in requests : q.label = <<kind, t>> => q = r
  OBVIOUS
<1> DEFINE e == [at |-> r.at, round |-> RoundOf(r.at, r.phase), phase |-> r.phase, label |-> r.label]
<1>2. e \in Stamped(requests) /\ e.label = <<kind, t>>
  BY <1>1 DEF Stamped
<1>3. ASSUME NEW f \in Stamped(requests), f.label = <<kind, t>> PROVE f = e
  <2>1. PICK q \in requests :
          f = [at |-> q.at, round |-> RoundOf(q.at, q.phase), phase |-> q.phase, label |-> q.label]
    BY DEF Stamped
  <2>2. q = r
    BY <1>1, <1>3, <2>1
  <2> QED
    BY <2>1, <2>2
<1> HIDE DEF e
<1>4. Pending(kind, t)' = {e}
  BY <1>2, <1>3 DEF Moves, Pending
<1> QED
  BY <1>4 DEF HasOne

\* The kinds of events that EventsOf counts, and those that tell something.
Tracked == {"Start", "Complete", "Posted", "Drained"}
News == {"SourceSeen", "PermitSeen"}

\* The events of a task change by the events of its kinds only.
LEMMA EventsStay ==
    ASSUME NEW gone, NEW requests, Moves(gone, requests),
           \A g \in gone : g.label[1] \notin Tracked,
           \A r \in requests : r.label[1] \notin Tracked,
           NEW t \in Tasks
    PROVE  \A kind \in Tracked : Pending(kind, t)' = Pending(kind, t)
<1>1. ASSUME NEW kind \in Tracked PROVE Pending(kind, t)' = Pending(kind, t)
  <2>1. \A x : x[1] \notin Tracked => x # <<kind, t>>
    BY <1>1
  <2> QED
    BY <2>1, PendingIsKept
<1> QED
  BY <1>1

\* The one event of a kind is taken.
LEMMA OneIsTaken ==
    ASSUME NEW e, NEW requests, Moves({e}, requests), NEW kind, NEW t,
           Pending(kind, t) = {e}, \A r \in requests : r.label # <<kind, t>>
    PROVE  Pending(kind, t)' = {}
<1>1. \A f \in Stamped(requests) : f.label # <<kind, t>>
  BY StampedLabels
<1> QED
  BY <1>1 DEF Moves, Pending

\* The one event of a task is taken and nothing of the kinds that count is asked for.
LEMMA OneIsTakenOnly ==
    ASSUME NEW e, NEW requests, Moves({e}, requests), NEW kind \in Tracked, NEW t,
           Pending(kind, t) = {e}, \A r \in requests : r.label[1] \notin Tracked
    PROVE  /\ Pending(kind, t)' = {}
           /\ \A u \in Tasks, k \in Tracked :
                 u # t \/ k # kind => Pending(k, u)' = Pending(k, u)
<1>1. e.label = <<kind, t>>
  BY DEF Pending
<1>2. \A x : x[1] \notin Tracked => \A k \in Tracked : \A u : x # <<k, u>>
  OBVIOUS
<1>3. Pending(kind, t)' = {}
  <2>1. \A r \in requests : r.label # <<kind, t>>
    BY <1>2
  <2> QED
    BY <2>1, OneIsTaken
<1>4. ASSUME NEW u \in Tasks, NEW k \in Tracked, u # t \/ k # kind
      PROVE  Pending(k, u)' = Pending(k, u)
  <2>1. \A r \in requests : r.label # <<k, u>>
    BY <1>2
  <2>2. \A g \in {e} : g.label # <<k, u>>
    BY <1>1, <1>4
  <2> QED
    BY <2>1, <2>2, PendingIsKept
<1> QED
  BY <1>3, <1>4

\* The one event of a kind is the one at hand.
LEMMA TheOneEvent ==
    ASSUME NEW e \in queue, NEW kind, NEW t, e.label = <<kind, t>>, HasOne(kind, t, TRUE)
    PROVE  Pending(kind, t) = {e}
  BY DEF HasOne, Pending

\* What the events of the heap tell stays true when nothing is undone.
LEMMA HeapStaysTrue ==
    ASSUME NewsIsTrue, NEW gone, NEW requests, Moves(gone, requests),
           \A r \in requests :
              /\ \A s \in Ranks : r.label = <<"SourceSeen", s>> => HasPayload(s)'
              /\ \A t \in Tasks : r.label = <<"PermitSeen", t>> => IsPosted(t)',
           \A s \in Ranks : HasPayload(s) => HasPayload(s)',
           \A t \in Tasks : IsPosted(t) => IsPosted(t)'
    PROVE  \A e \in queue' :
              /\ \A s \in Ranks : e.label = <<"SourceSeen", s>> => HasPayload(s)'
              /\ \A t \in Tasks : e.label = <<"PermitSeen", t>> => IsPosted(t)'
<1>1. \A f \in Stamped(requests) :
         /\ \A s \in Ranks : f.label = <<"SourceSeen", s>> => HasPayload(s)'
         /\ \A t \in Tasks : f.label = <<"PermitSeen", t>> => IsPosted(t)'
  BY StampedLabels
<1>2. ASSUME NEW e \in queue'
      PROVE  /\ \A s \in Ranks : e.label = <<"SourceSeen", s>> => HasPayload(s)'
             /\ \A t \in Tasks : e.label = <<"PermitSeen", t>> => IsPosted(t)'
  <2>1. CASE e \in queue
    BY <2>1 DEF NewsIsTrue
  <2>2. CASE e \in Stamped(requests)
    BY <1>1, <2>2
  <2> QED
    BY <1>2, <2>1, <2>2 DEF Moves
<1> QED
  BY <1>2

\* A step that tells the scheduler nothing keeps what it was told.
LEMMA NewsIsKept ==
    ASSUME ViewsType, NewsIsTrue, NEW gone, NEW requests, Moves(gone, requests),
           \A r \in requests :
              /\ \A s \in Ranks : r.label = <<"SourceSeen", s>> => HasPayload(s)'
              /\ \A t \in Tasks : r.label = <<"PermitSeen", t>> => IsPosted(t)',
           \A s \in Ranks : HasPayload(s) => HasPayload(s)',
           \A t \in Tasks : IsPosted(t) => IsPosted(t)',
           UNCHANGED <<sourceKnown, sourceReady, permits>>
    PROVE  NewsIsTrue'
<1>1. \A e \in queue' :
         /\ \A s \in Ranks : e.label = <<"SourceSeen", s>> => HasPayload(s)'
         /\ \A t \in Tasks : e.label = <<"PermitSeen", t>> => IsPosted(t)'
  BY HeapStaysTrue
<1>2. /\ \A s \in sourceKnown : HasPayload(s)'
      /\ \A t \in permits : IsPosted(t)'
  BY DEF NewsIsTrue, ViewsType
<1>3. \A t \in sourceReady : HasPayload(Src[t])'
  <2>1. \A t \in Tasks : Src[t] \in Ranks
    BY TaskAssumption
  <2>2. \A t \in Tasks : HasPayload(Src[t]) => payloadAt'[Src[t]] # NoTime
    BY <2>1 DEF HasPayload
  <2>3. \A t \in sourceReady : payloadAt'[Src[t]] # NoTime
    BY <2>2 DEF NewsIsTrue, ViewsType
  <2> QED
    BY <2>3 DEF HasPayload
<1> QED
  BY <1>1, <1>2, <1>3 DEF NewsIsTrue

\* A request of another kind tells nothing.
LEMMA SilentRequests ==
    ASSUME NEW requests, \A r \in requests : r.label[1] \notin News
    PROVE  \A r \in requests :
              /\ \A s \in Ranks : r.label = <<"SourceSeen", s>> => HasPayload(s)'
              /\ \A t \in Tasks : r.label = <<"PermitSeen", t>> => IsPosted(t)'
  BY DEF News

----------------------------------------------------------------------------
(* The steps that move no task on. *)

Untracked(requests) == \A r \in requests : r.label[1] \notin Tracked \cup News

\* Such a step may tell the scheduler what is so, which makes tasks ready.
LEMMA ObservationsKeep ==
    ASSUME ViewsCore, state \in [Tasks -> States],
           NEW gone, NEW requests, Moves(gone, requests), Untracked(requests),
           \A g \in gone : g.label[1] \notin Tracked,
           UNCHANGED <<job, payloadAt>>,
           permits \subseteq permits', permits' \subseteq Tasks,
           sourceReady \subseteq sourceReady', sourceReady' \subseteq Tasks,
           sourceKnown' \subseteq Ranks, canonical' \subseteq Tasks,
           \A s \in sourceKnown' : HasPayload(s),
           \A t \in sourceReady' : HasPayload(Src[t]),
           \A t \in permits' : IsPosted(t),
           \A t \in Tasks :
              \/ state'[t] = state[t]
              \/ /\ state[t] = "PENDING" /\ state'[t] = "READY"
                 /\ t \in permits' /\ t \in sourceReady'
    PROVE  ViewsCore'
<1> USE DEF ViewsCore
<1>1. ViewsType'
  BY DEF ViewsType
<1>2. /\ \A s : HasPayload(s)' <=> HasPayload(s)
      /\ \A t : IsPosted(t)' <=> IsPosted(t)
  BY DEF HasPayload, IsPosted
<1>3. NewsIsTrue'
  <2>1. \A r \in requests : r.label[1] \notin News
    BY DEF Untracked
  <2>2. \A e \in queue' :
           /\ \A s \in Ranks : e.label = <<"SourceSeen", s>> => HasPayload(s)'
           /\ \A t \in Tasks : e.label = <<"PermitSeen", t>> => IsPosted(t)'
    BY <1>2, <2>1, SilentRequests, HeapStaysTrue
  <2>3. \A t : HasPayload(Src[t])' <=> HasPayload(Src[t])
    BY DEF HasPayload
  <2> QED
    BY <1>2, <2>2, <2>3 DEF NewsIsTrue
<1>4. StagesAgree'
  BY DEF StagesAgree
<1>5. EventsInv'
  <2>1. \A r \in requests : r.label[1] \notin Tracked
    BY DEF Untracked
  <2> SUFFICES ASSUME NEW t \in Tasks PROVE EventsOf(t)'
    BY DEF EventsInv
  <2>2. \A kind \in Tracked : Pending(kind, t)' = Pending(kind, t)
    BY <2>1, EventsStay
  <2>3. /\ state'[t] = "COMMITTED" <=> state[t] = "COMMITTED"
        /\ state'[t] = "RUNNING" <=> state[t] = "RUNNING"
        /\ job'[t] = job[t]
    OBVIOUS
  <2> QED
    BY <2>2, <2>3 DEF EventsInv, EventsOf, HasOne, Tracked
<1> QED
  BY <1>1, <1>3, <1>4, <1>5

viewVars == <<job, payloadAt, permits, sourceReady, sourceKnown, canonical, state>>

\* A step that only the kernel, the channels and the planning lines see.
LEMMA OthersKeep ==
    ASSUME ViewsCore, state \in [Tasks -> States], UNCHANGED viewVars,
           NEW gone, NEW requests, Moves(gone, requests), Untracked(requests),
           \A g \in gone : g.label[1] \notin Tracked
    PROVE  ViewsCore'
<1>1. UNCHANGED <<job, payloadAt, permits, sourceReady, sourceKnown, canonical, state>>
  BY DEF viewVars
<1>2. /\ permits' \subseteq Tasks /\ sourceReady' \subseteq Tasks
      /\ sourceKnown' \subseteq Ranks /\ canonical' \subseteq Tasks
  BY <1>1 DEF ViewsCore, ViewsType
<1>3. /\ \A s \in sourceKnown' : HasPayload(s)
      /\ \A t \in sourceReady' : HasPayload(Src[t])
      /\ \A t \in permits' : IsPosted(t)
  BY <1>1 DEF ViewsCore, NewsIsTrue
<1> QED
  BY <1>1, <1>2, <1>3, ObservationsKeep

\* The same, for a handler of one event.
LEMMA QuietHandlersKeep ==
    ASSUME ViewsCore, state \in [Tasks -> States], UNCHANGED viewVars,
           NEW e, NEW requests, Moves({e}, requests),
           e.label[1] \notin Tracked, Untracked(requests)
    PROVE  ViewsCore'
<1>1. \A g \in {e} : g.label[1] \notin Tracked
  OBVIOUS
<1> QED
  BY <1>1, OthersKeep

\* The usual requests are of other kinds.
LEMMA UsualRequestsAreUntracked ==
    /\ Untracked({}) /\ Untracked(Stabilization) /\ Untracked(Coalescing)
    /\ \A before : Untracked(Service(before))
    /\ \A R, Q : Untracked(R) /\ Untracked(Q) => Untracked(R \cup Q)
  BY DEF Untracked, Stabilization, Coalescing, Service, Event, Tracked, News

\* The handlers of the control channel.
LEMMA ChannelKeepsViews ==
    ASSUME ViewsCore, state \in [Tasks -> States],
           Arrival \/ StartService \/ ServiceComplete \/ Delivery
    PROVE  ViewsCore'
<1>1. UNCHANGED viewVars
  BY DEF Arrival, StartService, ServiceComplete, Delivery, RegisterExpectations, receiverVars,
         authorityVars, schedulerVars, viewVars
<1>2. CASE Arrival
  <2>1. PICK e, s : e.label = <<"Arrival", s>> /\ Handle(e, Service(servicePending), TRUE)
    BY <1>2 DEF Arrival
  <2>2. e.label[1] \notin Tracked
    BY <2>1 DEF Tracked
  <2> QED
    BY <1>1, <2>1, <2>2, HandlersMove, UsualRequestsAreUntracked, QuietHandlersKeep
<1>3. CASE StartService
  <2>1. PICK e, s : e.label[1] = "Service" /\
          Handle(e, {Event(now + setting.serialization, 7, "Served", s),
                     Event(now + setting.serialization + setting.latency, 3, "Delivery", s)}, TRUE)
    BY <1>3 DEF StartService
  <2>2. e.label[1] \notin Tracked
    BY <2>1 DEF Tracked
  <2>3. Untracked({Event(now + setting.serialization, 7, "Served", s),
                   Event(now + setting.serialization + setting.latency, 3, "Delivery", s)})
    BY DEF Untracked, Event, Tracked, News
  <2> QED
    BY <1>1, <2>1, <2>2, <2>3, HandlersMove, QuietHandlersKeep
<1>4. CASE ServiceComplete
  <2>1. PICK e : e.label[1] = "Served" /\ Handle(e, Service(servicePending), TRUE)
    BY <1>4 DEF ServiceComplete
  <2>2. e.label[1] \notin Tracked
    BY <2>1 DEF Tracked
  <2> QED
    BY <1>1, <2>1, <2>2, HandlersMove, UsualRequestsAreUntracked, QuietHandlersKeep
<1>5. CASE Delivery
  <2> DEFINE closure == IF \A r \in Ranks : expectedAt'[r] # NoTime
                        THEN {Event(now, 3, "ClosureSeen", 0)} ELSE {}
             seen(s) == {Event(now, 3, "EdgeSeen", edge) : edge \in {f \in Edges : f[1] = s}}
  <2>1. PICK e, s : /\ e.label = <<"Delivery", s>>
                    /\ Handle(e, seen(s) \cup closure \cup Stabilization, TRUE)
    BY <1>5 DEF Delivery
  <2>2. e.label[1] \notin Tracked
    BY <2>1 DEF Tracked
  <2>3. Untracked(seen(s)) /\ Untracked(closure)
    BY DEF Untracked, Event, Tracked, News
  <2> HIDE DEF closure, seen
  <2>4. Untracked(seen(s) \cup closure \cup Stabilization)
    BY <2>3, UsualRequestsAreUntracked
  <2> QED
    BY <1>1, <2>1, <2>2, <2>4, HandlersMove, QuietHandlersKeep
<1> QED
  BY <1>2, <1>3, <1>4, <1>5

\* Coalescing and the two planning lines.
LEMMA PlanningKeepsViews ==
    ASSUME ViewsCore, state \in [Tasks -> States],
           \/ ObserveClosure \/ CoalesceEvent \/ CoalesceGlobal \/ DeferGlobal \/ FinalizeGlobal
           \/ ControlComplete \/ BindPlan \/ SkipStalePlan \/ BindNothing
    PROVE  ViewsCore'
<1>1. UNCHANGED viewVars
  BY DEF ObserveClosure, CoalesceEvent, CoalesceGlobal, DeferGlobal, FinalizeGlobal,
         ControlComplete, BindPlan, SkipStalePlan, BindNothing, ActivatePlan, receiverVars,
         authorityVars, schedulerVars, viewVars
<1>2. Untracked(ControlJob)
  BY DEF ControlJob, Untracked, Event, Tracked, News
<1>3. CASE ObserveClosure
  <2>1. PICK e : e.label[1] = "ClosureSeen" /\ Handle(e, Coalescing, TRUE)
    BY <1>3 DEF ObserveClosure
  <2>2. e.label[1] \notin Tracked
    BY <2>1 DEF Tracked
  <2> QED
    BY <1>1, <2>1, <2>2, HandlersMove, UsualRequestsAreUntracked, QuietHandlersKeep
<1>4. CASE CoalesceEvent
  <2>1. PICK e : /\ e.label[1] = "Coalesce"
                 /\ IF "READY" \in envelopes /\ planCount < MaxEventPlans
                    THEN Handle(e, ControlJob, TRUE)
                    ELSE Handle(e, {}, "READY" \in envelopes)
    BY <1>4 DEF CoalesceEvent
  <2>2. e.label[1] \notin Tracked
    BY <2>1 DEF Tracked
  <2>3. Handle(e, ControlJob, TRUE) => Moves({e}, ControlJob)
    BY HandlersMove
  <2>4. Handle(e, {}, "READY" \in envelopes) => Moves({e}, {})
    BY HandlersMove
  <2>5. Moves({e}, ControlJob) \/ Moves({e}, {})
    BY <2>1, <2>3, <2>4
  <2> QED
    BY <1>1, <1>2, <2>2, <2>5, UsualRequestsAreUntracked, QuietHandlersKeep
<1>5. CASE CoalesceGlobal
  <2> DEFINE R == IF "CLOSURE" \in envelopes /\ planCount = 0
                  THEN {Event(now, 8, "Defer", 0)} ELSE {}
  <2>1. PICK e : e.label[1] = "Coalesce" /\ Handle(e, R, TRUE)
    BY <1>5 DEF CoalesceGlobal
  <2>2. e.label[1] \notin Tracked
    BY <2>1 DEF Tracked
  <2>3. Untracked(R)
    BY DEF Untracked, Event, Tracked, News
  <2> HIDE DEF R
  <2> QED
    BY <1>1, <2>1, <2>2, <2>3, HandlersMove, QuietHandlersKeep
<1>6. CASE DeferGlobal
  <2>1. PICK e : e.label[1] = "Defer" /\ Handle(e, {Event(now, 4, "Finalize", 0)}, FALSE)
    BY <1>6 DEF DeferGlobal
  <2>2. e.label[1] \notin Tracked
    BY <2>1 DEF Tracked
  <2>3. Untracked({Event(now, 4, "Finalize", 0)})
    BY DEF Untracked, Event, Tracked, News
  <2> QED
    BY <1>1, <2>1, <2>2, <2>3, HandlersMove, QuietHandlersKeep
<1>7. CASE FinalizeGlobal
  <2>1. PICK e : e.label[1] = "Finalize" /\ Handle(e, ControlJob, TRUE)
    BY <1>7 DEF FinalizeGlobal
  <2>2. e.label[1] \notin Tracked
    BY <2>1 DEF Tracked
  <2> QED
    BY <1>1, <1>2, <2>1, <2>2, HandlersMove, QuietHandlersKeep
<1>8. CASE ControlComplete
  <2>1. PICK e, order, R : /\ e.label[1] = "Control" /\ Handle(e, R, FALSE)
            /\ R = {Event(bindingFree', 5, "Bind", <<e.label[2], order>>)}
    BY <1>8 DEF ControlComplete
  <2>2. e.label[1] \notin Tracked
    BY <2>1 DEF Tracked
  <2>3. Untracked(R)
    BY <2>1 DEF Untracked, Event, Tracked, News
  <2> QED
    BY <1>1, <2>1, <2>2, <2>3, HandlersMove, QuietHandlersKeep
<1>9. CASE BindPlan \/ SkipStalePlan \/ BindNothing
  <2>1. PICK e \in Bindings : Handle(e, {}, TRUE) \/ Handle(e, {}, FALSE)
    BY <1>9 DEF BindPlan, SkipStalePlan, BindNothing
  <2>2. e.label[1] \notin Tracked
    BY DEF Bindings, Tracked
  <2> QED
    BY <1>1, <2>1, <2>2, HandlersMove, UsualRequestsAreUntracked, QuietHandlersKeep
<1> QED
  BY <1>3, <1>4, <1>5, <1>6, <1>7, <1>8, <1>9

\* The kernel's own steps, and the callback where it commits nothing.
LEMMA LoopKeepsViews ==
    ASSUME ViewsCore, state \in [Tasks -> States],
           \/ NextTime \/ EnterPhase \/ FinishRound \/ Terminated \/ UNCHANGED vars
           \/ PrepareBatch \/ EndSubmit
    PROVE  ViewsCore'
<1>1. UNCHANGED viewVars
  BY DEF NextTime, EnterPhase, FinishRound, Terminated, PrepareBatch, EndSubmit, vars, systemVars,
         receiverVars, authorityVars, schedulerVars, viewVars
<1>2. Moves({}, {})
  <2>1. CASE NextTime \/ EnterPhase \/ FinishRound \/ Terminated \/ UNCHANGED vars
    BY <2>1 DEF NextTime, EnterPhase, FinishRound, Terminated, NextTimestamp, NextPhase, EndRound,
                vars, kernelVars, Moves, Stamped
  <2>2. CASE PrepareBatch \/ EndSubmit
    BY <2>2, HandlersMove DEF PrepareBatch, EndSubmit
  <2> QED
    BY <2>1, <2>2
<1> QED
  BY <1>1, <1>2, OthersKeep, UsualRequestsAreUntracked

----------------------------------------------------------------------------
(* The scheduler's observations: what each event tells is so. *)

\* _refresh_ready makes ready what was pending and is permitted and sourced.
LEMMA RefreshingStarts ==
    ASSUME NEW permitted, NEW sourced, state' = Refreshed(permitted, sourced)
    PROVE  \A t \in Tasks :
              \/ state'[t] = state[t]
              \/ /\ state[t] = "PENDING" /\ state'[t] = "READY"
                 /\ t \in permitted /\ t \in sourced
  BY DEF Refreshed

\* The tasks of a delivered edge are registered; those of a known source are sourced.
LEMMA ExpectationKeepsViews ==
    ASSUME ViewsCore, state \in [Tasks -> States], ObserveExpectation
    PROVE  ViewsCore'
<1>1. PICK e, edge :
         LET tasks == {t \in Tasks : Edge(t) = edge} IN
         /\ e.label = <<"EdgeSeen", edge>>
         /\ RegisterTasks(tasks, {t \in tasks : Src[t] \in sourceKnown})
         /\ RegisterCatalogue(tasks, now)
         /\ Handle(e, Coalescing \cup Stabilization, TRUE)
         /\ UNCHANGED sourceKnown
  BY DEF ObserveExpectation
<1> DEFINE sourced == {t \in Tasks : Edge(t) = edge /\ Src[t] \in sourceKnown}
<1>2. /\ canonical' = canonical \cup {t \in Tasks : Edge(t) = edge}
      /\ sourceReady' = sourceReady \cup sourced
      /\ state' = Refreshed(permits, sourceReady')
      /\ UNCHANGED <<permits, sourceKnown, job, payloadAt>>
  BY <1>1 DEF RegisterTasks, RegisterCatalogue
<1>3. Moves({e}, Coalescing \cup Stabilization)
  BY <1>1, HandlersMove
<1>4. Untracked(Coalescing \cup Stabilization)
  BY UsualRequestsAreUntracked
<1>5. \A g \in {e} : g.label[1] \notin Tracked
  BY <1>1 DEF Tracked
<1>6. /\ permits' \subseteq Tasks /\ sourceReady' \subseteq Tasks
      /\ sourceKnown' \subseteq Ranks /\ canonical' \subseteq Tasks
      /\ permits \subseteq permits' /\ sourceReady \subseteq sourceReady'
  BY <1>2 DEF ViewsCore, ViewsType
<1>7. /\ \A s \in sourceKnown' : HasPayload(s)
      /\ \A t \in sourceReady' : HasPayload(Src[t])
      /\ \A t \in permits' : IsPosted(t)
  BY <1>2 DEF ViewsCore, NewsIsTrue
<1>8. \A t \in Tasks :
         \/ state'[t] = state[t]
         \/ /\ state[t] = "PENDING" /\ state'[t] = "READY"
            /\ t \in permits' /\ t \in sourceReady'
  BY <1>2, RefreshingStarts
<1>9. UNCHANGED <<job, payloadAt>>
  BY <1>2
<1> QED
  BY <1>3, <1>4, <1>5, <1>6, <1>7, <1>8, <1>9, ObservationsKeep

\* The scheduler learns that a source's payload is ready.
LEMMA SourceNewsKeepsViews ==
    ASSUME ViewsCore, state \in [Tasks -> States], ObserveSource
    PROVE  ViewsCore'
<1>1. PICK e \in queue, s \in Ranks :
         LET tasks == {t \in canonical : Src[t] = s} IN
         /\ e.label = <<"SourceSeen", s>>
         /\ sourceKnown' = sourceKnown \cup {s}
         /\ NoteSourcePayloadReady(tasks)
         /\ Handle(e, Coalescing, tasks # {})
         /\ UNCHANGED receiverVars
  BY DEF ObserveSource, SlotOf
<1> DEFINE tasks == {t \in canonical : Src[t] = s}
<1>2. /\ sourceReady' = sourceReady \cup tasks
      /\ state' = Refreshed(permits, sourceReady')
      /\ UNCHANGED <<permits, canonical, job, payloadAt>>
  BY <1>1 DEF NoteSourcePayloadReady, receiverVars
<1>3. Moves({e}, Coalescing)
  BY <1>1, HandlersMove
<1>4. Untracked(Coalescing)
  BY UsualRequestsAreUntracked
<1>5. \A g \in {e} : g.label[1] \notin Tracked
  BY <1>1 DEF Tracked
<1>6. HasPayload(s)
  BY <1>1 DEF ViewsCore, NewsIsTrue
<1>7. /\ permits' \subseteq Tasks /\ sourceReady' \subseteq Tasks
      /\ sourceKnown' \subseteq Ranks /\ canonical' \subseteq Tasks
      /\ permits \subseteq permits' /\ sourceReady \subseteq sourceReady'
  BY <1>1, <1>2 DEF ViewsCore, ViewsType
<1>8. /\ \A r \in sourceKnown' : HasPayload(r)
      /\ \A t \in sourceReady' : HasPayload(Src[t])
      /\ \A t \in permits' : IsPosted(t)
  BY <1>1, <1>2, <1>6 DEF ViewsCore, NewsIsTrue
<1>9. \A t \in Tasks :
         \/ state'[t] = state[t]
         \/ /\ state[t] = "PENDING" /\ state'[t] = "READY"
            /\ t \in permits' /\ t \in sourceReady'
  BY <1>2, RefreshingStarts
<1>10. UNCHANGED <<job, payloadAt>>
  BY <1>2
<1> QED
  BY <1>3, <1>4, <1>5, <1>7, <1>8, <1>9, <1>10, ObservationsKeep

\* The scheduler learns that a task's buffer is posted.
LEMMA PermitNewsKeepsViews ==
    ASSUME ViewsCore, state \in [Tasks -> States], ObservePermit
    PROVE  ViewsCore'
<1>1. PICK e \in queue, t \in Tasks :
         /\ e.label = <<"PermitSeen", t>>
         /\ NotePermit(t)
         /\ Handle(e, Coalescing, TRUE)
         /\ UNCHANGED <<receiverVars, sourceKnown>>
  BY DEF ObservePermit, SlotOf
<1>2. /\ permits' = permits \cup {t}
      /\ state' = Refreshed(permits', sourceReady)
      /\ UNCHANGED <<sourceReady, sourceKnown, canonical, job, payloadAt>>
  BY <1>1 DEF NotePermit, receiverVars
<1>3. Moves({e}, Coalescing)
  BY <1>1, HandlersMove
<1>4. Untracked(Coalescing)
  BY UsualRequestsAreUntracked
<1>5. \A g \in {e} : g.label[1] \notin Tracked
  BY <1>1 DEF Tracked
<1>6. IsPosted(t)
  BY <1>1 DEF ViewsCore, NewsIsTrue
<1>7. /\ permits' \subseteq Tasks /\ sourceReady' \subseteq Tasks
      /\ sourceKnown' \subseteq Ranks /\ canonical' \subseteq Tasks
      /\ permits \subseteq permits' /\ sourceReady \subseteq sourceReady'
  BY <1>1, <1>2 DEF ViewsCore, ViewsType
<1>8. /\ \A r \in sourceKnown' : HasPayload(r)
      /\ \A u \in sourceReady' : HasPayload(Src[u])
      /\ \A u \in permits' : IsPosted(u)
  BY <1>2, <1>6 DEF ViewsCore, NewsIsTrue
<1>9. \A u \in Tasks :
         \/ state'[u] = state[u]
         \/ /\ state[u] = "PENDING" /\ state'[u] = "READY"
            /\ u \in permits' /\ u \in sourceReady'
  BY <1>2, RefreshingStarts
<1>10. UNCHANGED <<job, payloadAt>>
  BY <1>2
<1> QED
  BY <1>3, <1>4, <1>5, <1>7, <1>8, <1>9, <1>10, ObservationsKeep

----------------------------------------------------------------------------
(* The steps that move a task on. *)

\* A task that stays where it is keeps its events.
LEMMA UnmovedKeepsEvents ==
    ASSUME NEW u, EventsOf(u), state'[u] = state[u], job'[u] = job[u],
           \A kind \in Tracked : Pending(kind, u)' = Pending(kind, u)
    PROVE  EventsOf(u)'
  BY DEF EventsOf, HasOne, Tracked

\* A source's payload becomes ready, which is what its event to the scheduler says.
LEMMA SourceReadyKeepsViews ==
    ASSUME ViewsCore, now \in Nat, SourceReady
    PROVE  ViewsCore'
<1>1. PICK e \in queue, s \in Ranks :
         /\ e.label = <<"Source", s>>
         /\ Handle(e, {Event(now, 2, "Arrival", s), Event(now, 3, "SourceSeen", s)}
                         \cup Stabilization, TRUE)
         /\ MarkSourcePayloadReady(s, now)
  BY DEF SourceReady, SlotOf
<1>2. UNCHANGED <<permits, sourceReady, sourceKnown, canonical, state>>
  BY DEF SourceReady, authorityVars, schedulerVars
<1> DEFINE R == {Event(now, 2, "Arrival", s), Event(now, 3, "SourceSeen", s)} \cup Stabilization
<1>3. Moves({e}, R)
  BY <1>1, HandlersMove
<1>4. payloadAt' = [payloadAt EXCEPT ![s] = now] /\ job' = job
  BY <1>1 DEF MarkSourcePayloadReady
<1>5. ViewsType'
  BY <1>2, <1>4 DEF ViewsCore, ViewsType
<1>6. /\ \A r \in Ranks : HasPayload(r) => HasPayload(r)'
      /\ HasPayload(s)'
      /\ \A t \in Tasks : IsPosted(t) => IsPosted(t)'
  BY <1>4, ReceiverAssumption DEF ViewsCore, ViewsType, HasPayload, IsPosted
<1>7. \A r \in R : /\ r.label[1] \notin Tracked
                   /\ r.label[1] \in News => r.label = <<"SourceSeen", s>>
  BY DEF Stabilization, Event, Tracked, News
<1> HIDE DEF R
<1>8. NewsIsTrue'
  <2>1. ASSUME NEW r \in R
        PROVE  /\ \A q \in Ranks : r.label = <<"SourceSeen", q>> => HasPayload(q)'
               /\ \A t \in Tasks : r.label # <<"PermitSeen", t>>
    <3>1. ASSUME NEW q \in Ranks, r.label = <<"SourceSeen", q>> PROVE HasPayload(q)'
      <4>1. r.label = <<"SourceSeen", s>>
        BY <1>7, <3>1 DEF News
      <4>2. q = s
        BY <3>1, <4>1
      <4> QED
        BY <1>6, <4>2
    <3>2. \A t \in Tasks : r.label # <<"PermitSeen", t>>
      BY <1>7 DEF News
    <3> QED
      BY <3>1, <3>2
  <2> QED
    BY <1>2, <1>3, <1>6, <2>1, NewsIsKept DEF ViewsCore
<1>9. StagesAgree'
  BY <1>2, <1>4 DEF ViewsCore, StagesAgree
<1>10. EventsInv'
  <2> SUFFICES ASSUME NEW t \in Tasks PROVE EventsOf(t)'
    BY DEF EventsInv
  <2>1. \A g \in {e} : g.label[1] \notin Tracked
    BY <1>1 DEF Tracked
  <2>2. \A kind \in Tracked : Pending(kind, t)' = Pending(kind, t)
    BY <1>3, <1>7, <2>1, EventsStay
  <2> QED
    BY <1>2, <1>4, <2>2, UnmovedKeepsEvents DEF ViewsCore, EventsInv
<1> QED
  BY <1>5, <1>8, <1>9, <1>10 DEF ViewsCore

\* A posting ends; its one event is gone, and the scheduler is going to be told.
LEMMA PostedKeepsViews ==
    ASSUME ViewsCore, Posted
    PROVE  ViewsCore'
<1>1. PICK e \in queue, t \in Tasks :
         /\ e.label = <<"Posted", t>>
         /\ Handle(e, {Event(now, 3, "PermitSeen", t)} \cup Stabilization, TRUE)
         /\ OnReceiverPostComplete(t)
  BY DEF Posted, SlotOf
<1>2. UNCHANGED <<permits, sourceReady, sourceKnown, canonical, state>>
  BY DEF Posted, authorityVars, schedulerVars
<1> DEFINE R == {Event(now, 3, "PermitSeen", t)} \cup Stabilization
<1>3. Moves({e}, R)
  BY <1>1, HandlersMove
<1>4. job[t] = "POSTING" /\ job' = [job EXCEPT ![t] = "POSTED"] /\ payloadAt' = payloadAt
  BY <1>1 DEF OnReceiverPostComplete
<1>5. ViewsType'
  BY <1>2, <1>4 DEF ViewsCore, ViewsType, Jobs
<1>6. /\ \A r \in Ranks : HasPayload(r) => HasPayload(r)'
      /\ \A u \in Tasks : IsPosted(u) => IsPosted(u)'
      /\ IsPosted(t)'
  BY <1>4 DEF ViewsCore, ViewsType, HasPayload, IsPosted
<1>7. \A r \in R : /\ r.label[1] \notin Tracked
                   /\ r.label[1] \in News => r.label = <<"PermitSeen", t>>
  BY DEF Stabilization, Event, Tracked, News
<1> HIDE DEF R
<1>8. NewsIsTrue'
  <2>1. ASSUME NEW r \in R
        PROVE  /\ \A q \in Ranks : r.label # <<"SourceSeen", q>>
               /\ \A u \in Tasks : r.label = <<"PermitSeen", u>> => IsPosted(u)'
    <3>1. ASSUME NEW u \in Tasks, r.label = <<"PermitSeen", u>> PROVE IsPosted(u)'
      <4>1. r.label = <<"PermitSeen", t>>
        BY <1>7, <3>1 DEF News
      <4>2. u = t
        BY <3>1, <4>1
      <4> QED
        BY <1>6, <4>2
    <3>2. \A q \in Ranks : r.label # <<"SourceSeen", q>>
      BY <1>7 DEF News
    <3> QED
      BY <3>1, <3>2
  <2> QED
    BY <1>2, <1>3, <1>6, <2>1, NewsIsKept DEF ViewsCore
<1>9. StagesAgree'
  BY <1>2, <1>4 DEF ViewsCore, ViewsType, StagesAgree
<1>10. EventsInv'
  <2>1. EventsInv /\ Pending("Posted", t) = {e} /\ "Posted" \in Tracked
    BY <1>1, <1>4, TheOneEvent DEF ViewsCore, EventsInv, EventsOf, HasOne, Tracked
  <2>2. /\ Pending("Posted", t)' = {}
        /\ \A u \in Tasks, k \in Tracked :
              u # t \/ k # "Posted" => Pending(k, u)' = Pending(k, u)
    BY <1>3, <1>7, <2>1, OneIsTakenOnly
  <2>3. ASSUME NEW u \in Tasks, u # t PROVE EventsOf(u)'
    <3>1. job'[u] = job[u] /\ state'[u] = state[u] /\ EventsOf(u)
      BY <1>2, <1>4, <2>1, <2>3 DEF EventsInv
    <3> QED
      BY <2>2, <2>3, <3>1, UnmovedKeepsEvents
  <2>4. EventsOf(t)'
    <3>1. EventsOf(t) /\ job'[t] = "POSTED" /\ state'[t] = state[t]
      BY <1>2, <1>4, <2>1 DEF EventsInv, ViewsCore, ViewsType
    <3> QED
      BY <1>4, <2>2, <3>1 DEF EventsOf, HasOne, Tracked
  <2> QED
    BY <2>3, <2>4 DEF EventsInv
<1> QED
  BY <1>5, <1>8, <1>9, <1>10 DEF ViewsCore

\* A draining ends, and its one event is gone.
LEMMA DrainedKeepsViews ==
    ASSUME ViewsCore, Drained
    PROVE  ViewsCore'
<1>1. PICK e \in queue, t \in Tasks :
         /\ e.label = <<"Drained", t>>
         /\ Handle(e, Stabilization, TRUE)
         /\ OnReceiverDrainFinish(t)
  BY DEF Drained, SlotOf
<1>2. UNCHANGED <<permits, sourceReady, sourceKnown, canonical, state>>
  BY DEF Drained, authorityVars, schedulerVars
<1>3. Moves({e}, Stabilization)
  BY <1>1, HandlersMove
<1>4. job[t] = "DRAINING" /\ job' = [job EXCEPT ![t] = "ASSEMBLED"] /\ payloadAt' = payloadAt
  BY <1>1 DEF OnReceiverDrainFinish
<1>5. ViewsType'
  BY <1>2, <1>4 DEF ViewsCore, ViewsType, Jobs
<1>6. \A r \in Stabilization : r.label[1] \notin Tracked /\ r.label[1] \notin News
  BY UsualRequestsAreUntracked DEF Untracked
<1>7. NewsIsTrue'
  <2>1. /\ \A r \in Ranks : HasPayload(r) => HasPayload(r)'
        /\ \A u \in Tasks : IsPosted(u) => IsPosted(u)'
    BY <1>4 DEF ViewsCore, ViewsType, HasPayload, IsPosted
  <2> QED
    BY <1>2, <1>3, <1>6, <2>1, SilentRequests, NewsIsKept DEF ViewsCore
<1>8. StagesAgree'
  BY <1>2, <1>4 DEF ViewsCore, ViewsType, StagesAgree
<1>9. EventsInv'
  <2>1. EventsInv /\ Pending("Drained", t) = {e} /\ "Drained" \in Tracked
    BY <1>1, <1>4, TheOneEvent DEF ViewsCore, EventsInv, EventsOf, HasOne, Tracked
  <2>2. /\ Pending("Drained", t)' = {}
        /\ \A u \in Tasks, k \in Tracked :
              u # t \/ k # "Drained" => Pending(k, u)' = Pending(k, u)
    BY <1>3, <1>6, <2>1, OneIsTakenOnly
  <2>3. ASSUME NEW u \in Tasks, u # t PROVE EventsOf(u)'
    <3>1. job'[u] = job[u] /\ state'[u] = state[u] /\ EventsOf(u)
      BY <1>2, <1>4, <2>1, <2>3 DEF EventsInv
    <3> QED
      BY <2>2, <2>3, <3>1, UnmovedKeepsEvents
  <2>4. EventsOf(t)'
    <3>1. EventsOf(t) /\ job'[t] = "ASSEMBLED" /\ state'[t] = state[t]
      BY <1>2, <1>4, <2>1 DEF EventsInv, ViewsCore, ViewsType
    <3> QED
      BY <1>4, <2>2, <3>1 DEF EventsOf, HasOne, Tracked
  <2> QED
    BY <2>3, <2>4 DEF EventsInv
<1> QED
  BY <1>5, <1>7, <1>8, <1>9 DEF ViewsCore

\* A step that only asks for a stabilisation takes its own event and no other that counts.
LEMMA StabilizationTakesOne ==
    ASSUME NEW e, Moves({e}, Stabilization), NEW kind \in Tracked, NEW t, Pending(kind, t) = {e}
    PROVE  /\ Pending(kind, t)' = {}
           /\ \A u \in Tasks, k \in Tracked :
                 u # t \/ k # kind => Pending(k, u)' = Pending(k, u)
<1>1. \A r \in Stabilization : r.label[1] \notin Tracked
  BY UsualRequestsAreUntracked DEF Untracked
<1> QED
  BY <1>1, OneIsTakenOnly

\* A transfer completes for the scheduler and the receiver in one step.
LEMMA CompletionKeepsViews ==
    ASSUME ViewsCore, state \in [Tasks -> States], TransferCompletes
    PROVE  ViewsCore'
<1>1. PICK e \in queue, t \in Tasks :
         /\ e.label = <<"Complete", t>>
         /\ MarkCompleted(t) /\ OnTransferCompleted(t, now)
         /\ Handle(e, Stabilization, TRUE)
  BY DEF TransferCompletes, SlotOf
<1>2. /\ state[t] = "RUNNING" /\ state' = [state EXCEPT ![t] = "COMPLETED"]
      /\ job[t] = "POSTED" /\ job' = [job EXCEPT ![t] = "TRANSFERRED"]
      /\ UNCHANGED <<permits, sourceReady, canonical, payloadAt>>
  BY <1>1 DEF MarkCompleted, OnTransferCompleted
<1>3. Moves({e}, Stabilization)
  BY <1>1, HandlersMove
<1>4. UNCHANGED sourceKnown
  BY DEF TransferCompletes, schedulerVars
<1>5. ViewsType'
  BY <1>2, <1>4 DEF ViewsCore, ViewsType, Jobs
<1>6. \A r \in Stabilization : r.label[1] \notin Tracked /\ r.label[1] \notin News
  BY UsualRequestsAreUntracked DEF Untracked
<1>7. NewsIsTrue'
  <2>1. /\ \A r \in Ranks : HasPayload(r) => HasPayload(r)'
        /\ \A u \in Tasks : IsPosted(u) => IsPosted(u)'
    BY <1>2 DEF ViewsCore, ViewsType, HasPayload, IsPosted
  <2> QED
    BY <1>2, <1>3, <1>4, <1>6, <2>1, SilentRequests, NewsIsKept DEF ViewsCore
<1>8. StagesAgree'
  BY <1>2 DEF ViewsCore, ViewsType, StagesAgree
<1>9. EventsInv'
  <2>1. EventsInv /\ Pending("Complete", t) = {e} /\ "Complete" \in Tracked
    BY <1>1, <1>2, TheOneEvent DEF ViewsCore, EventsInv, EventsOf, HasOne, Tracked
  <2>2. /\ Pending("Complete", t)' = {}
        /\ \A u \in Tasks, k \in Tracked :
              u # t \/ k # "Complete" => Pending(k, u)' = Pending(k, u)
    BY <1>3, <2>1, StabilizationTakesOne
  <2>3. ASSUME NEW u \in Tasks, u # t PROVE EventsOf(u)'
    <3>1. job'[u] = job[u] /\ state'[u] = state[u] /\ EventsOf(u)
      BY <1>2, <2>1, <2>3 DEF EventsInv
    <3> QED
      BY <2>2, <2>3, <3>1, UnmovedKeepsEvents
  <2>4. EventsOf(t)'
    <3>1. EventsOf(t) /\ job'[t] = "TRANSFERRED" /\ state'[t] = "COMPLETED"
      BY <1>2, <2>1 DEF EventsInv, ViewsCore, ViewsType
    <3> QED
      BY <1>2, <2>2, <3>1 DEF EventsOf, HasOne, Tracked
  <2> QED
    BY <2>3, <2>4 DEF EventsInv
<1> QED
  BY <1>5, <1>7, <1>8, <1>9 DEF ViewsCore

\* A transfer starts: its start event is replaced by its completion.
LEMMA StartKeepsViews ==
    ASSUME ViewsCore, state \in [Tasks -> States], TransferStarts
    PROVE  ViewsCore'
<1>1. PICK e \in queue, t \in Tasks :
         /\ e.label = <<"Start", t>>
         /\ MarkRunning(t)
         /\ Handle(e, {Event(now + setting.wire, 1, "Complete", t)}, TRUE)
  BY DEF TransferStarts, SlotOf
<1> DEFINE r == Event(now + setting.wire, 1, "Complete", t)
           R == {r}
<1>2. /\ state[t] = "COMMITTED" /\ state' = [state EXCEPT ![t] = "RUNNING"]
      /\ UNCHANGED <<permits, sourceReady, canonical>>
  BY <1>1 DEF MarkRunning
<1>3. Moves({e}, R)
  BY <1>1, HandlersMove
<1>4. UNCHANGED <<sourceKnown, job, payloadAt>>
  BY DEF TransferStarts, schedulerVars, receiverVars
<1>5. /\ r \in R /\ r.label = <<"Complete", t>>
      /\ \A q \in R : q = r /\ q.label = <<"Complete", t>>
  BY DEF Event
<1> HIDE DEF r, R
<1>6. ViewsType'
  BY <1>2, <1>4 DEF ViewsCore, ViewsType
<1>7. NewsIsTrue'
  <2>1. /\ \A s \in Ranks : HasPayload(s) => HasPayload(s)'
        /\ \A u \in Tasks : IsPosted(u) => IsPosted(u)'
    BY <1>4 DEF HasPayload, IsPosted
  <2>2. \A q \in R : q.label[1] \notin News
    BY <1>5 DEF News
  <2> QED
    BY <1>2, <1>3, <1>4, <2>1, <2>2, SilentRequests, NewsIsKept DEF ViewsCore
<1>8. StagesAgree'
  BY <1>2, <1>4 DEF ViewsCore, StagesAgree
<1>9. EventsInv'
  <2>1. EventsInv /\ Pending("Start", t) = {e} /\ Pending("Complete", t) = {}
    BY <1>1, <1>2, TheOneEvent DEF ViewsCore, EventsInv, EventsOf, HasOne
  <2>2. Pending("Start", t)' = {}
    <3>1. \A q \in R : q.label # <<"Start", t>>
      BY <1>5
    <3> QED
      BY <1>3, <2>1, <3>1, OneIsTaken
  <2>3. HasOne("Complete", t, TRUE)'
    <3>1. \E q \in R :
             /\ q.label = <<"Complete", t>>
             /\ \A p \in R : p.label = <<"Complete", t>> => p = q
      BY <1>5
    <3> QED
      BY <1>3, <2>1, <3>1, PendingIsAdded
  <2>4. ASSUME NEW u \in Tasks, NEW k \in Tracked, u # t \/ k \notin {"Start", "Complete"}
        PROVE  Pending(k, u)' = Pending(k, u)
    <3>1. \A g \in {e} : g.label # <<k, u>>
      BY <1>1, <2>4
    <3>2. \A q \in R : q.label # <<k, u>>
      BY <1>5, <2>4
    <3> QED
      BY <1>3, <3>1, <3>2, PendingIsKept
  <2>5. ASSUME NEW u \in Tasks, u # t PROVE EventsOf(u)'
    <3>1. job'[u] = job[u] /\ state'[u] = state[u] /\ EventsOf(u)
      BY <1>2, <1>4, <2>1, <2>5 DEF EventsInv
    <3> QED
      BY <2>4, <2>5, <3>1, UnmovedKeepsEvents
  <2>6. EventsOf(t)'
    <3>1. EventsOf(t) /\ job'[t] = job[t] /\ state'[t] = "RUNNING"
      BY <1>2, <1>4, <2>1 DEF EventsInv
    <3>2. /\ Pending("Posted", t)' = Pending("Posted", t)
          /\ Pending("Drained", t)' = Pending("Drained", t)
      BY <2>4 DEF Tracked
    <3> QED
      BY <2>2, <2>3, <3>1, <3>2 DEF EventsOf, HasOne
  <2> QED
    BY <2>5, <2>6 DEF EventsInv
<1> QED
  BY <1>6, <1>7, <1>8, <1>9 DEF ViewsCore

\* A batch is committed: each of its tasks, ready before, gets its start event.
LEMMA CommitKeepsViews ==
    ASSUME ViewsCore, state \in [Tasks -> States], DataInv, ConfirmBatch
    PROVE  ViewsCore'
<1>1. PICK receipt \in prepared :
         /\ CommitBatch(TasksOf(receipt), stamp)
         /\ Callback({Event(now + setting.launch, 1, "Start", t) : t \in TasksOf(receipt)}, TRUE)
  BY DEF ConfirmBatch
<1> DEFINE batch == TasksOf(receipt)
           start(t) == Event(now + setting.launch, 1, "Start", t)
           R == {start(t) : t \in batch}
<1>2. /\ state' = [t \in Tasks |-> IF t \in batch THEN "COMMITTED" ELSE state[t]]
      /\ \A t \in batch : state[t] = "READY"
      /\ UNCHANGED <<permits, sourceReady, canonical>>
  BY <1>1 DEF CommitBatch
<1>3. batch \subseteq Tasks
  BY DEF DataInv, DataTypeOK, TasksOf, Reservations
<1>4. UNCHANGED <<sourceKnown, job, payloadAt>>
  BY DEF ConfirmBatch, schedulerVars, receiverVars
<1>5. Moves({}, R)
  BY <1>1, HandlersMove
<1>6. \A t : start(t).label = <<"Start", t>>
  BY DEF Event
<1> HIDE DEF batch, start
<1>7. /\ \A r \in R : \E t \in batch : r.label = <<"Start", t>> /\ r = start(t)
      /\ \A t \in batch : start(t) \in R
  BY <1>6
<1> HIDE DEF R
<1>8. ViewsType'
  BY <1>2, <1>4 DEF ViewsCore, ViewsType
<1>9. NewsIsTrue'
  <2>1. /\ \A s \in Ranks : HasPayload(s) => HasPayload(s)'
        /\ \A u \in Tasks : IsPosted(u) => IsPosted(u)'
    BY <1>4 DEF HasPayload, IsPosted
  <2>2. \A r \in R : r.label[1] \notin News
    BY <1>7 DEF News
  <2> QED
    BY <1>2, <1>4, <1>5, <2>1, <2>2, SilentRequests, NewsIsKept DEF ViewsCore
<1>10. StagesAgree'
  <2> SUFFICES ASSUME NEW t \in Tasks
               PROVE  /\ state'[t] # "PENDING" => t \in permits /\ t \in sourceReady
                      /\ state'[t] = "COMPLETED" <=>
                           job[t] \in {"TRANSFERRED", "DRAINING", "ASSEMBLED"}
    BY <1>2, <1>4 DEF StagesAgree
  <2> QED
    BY <1>2 DEF ViewsCore, StagesAgree
<1>11. EventsInv'
  <2>1. EventsInv
    BY DEF ViewsCore
  <2>2. ASSUME NEW u \in Tasks, NEW k \in Tracked, u \notin batch \/ k # "Start"
        PROVE  Pending(k, u)' = Pending(k, u)
    <3>1. \A q \in R : q.label # <<k, u>>
      BY <1>7, <2>2
    <3>2. \A g \in {} : g.label # <<k, u>>
      OBVIOUS
    <3> QED
      BY <1>5, <3>1, <3>2, PendingIsKept
  <2>3. ASSUME NEW u \in Tasks, u \notin batch PROVE EventsOf(u)'
    <3>1. job'[u] = job[u] /\ state'[u] = state[u] /\ EventsOf(u)
      BY <1>2, <1>4, <2>1, <2>3 DEF EventsInv
    <3> QED
      BY <2>2, <2>3, <3>1, UnmovedKeepsEvents
  <2>4. ASSUME NEW u \in batch PROVE EventsOf(u)'
    <3>1. /\ u \in Tasks /\ state[u] = "READY" /\ state'[u] = "COMMITTED"
          /\ job'[u] = job[u] /\ EventsOf(u)
      BY <1>2, <1>3, <1>4, <2>1 DEF EventsInv
    <3>2. Pending("Start", u) = {} /\ Pending("Complete", u) = {}
      BY <3>1 DEF EventsOf, HasOne
    <3>3. HasOne("Start", u, TRUE)'
      <4>1. \E q \in R :
               /\ q.label = <<"Start", u>>
               /\ \A p \in R : p.label = <<"Start", u>> => p = q
        <5>1. start(u) \in R /\ start(u).label = <<"Start", u>>
          BY <1>6, <1>7
        <5>2. \A p \in R : p.label = <<"Start", u>> => p = start(u)
          BY <1>7
        <5> QED
          BY <5>1, <5>2
      <4> QED
        BY <1>5, <3>2, <4>1, PendingIsAdded
    <3>4. /\ Pending("Complete", u)' = Pending("Complete", u)
          /\ Pending("Posted", u)' = Pending("Posted", u)
          /\ Pending("Drained", u)' = Pending("Drained", u)
      BY <2>2, <3>1 DEF Tracked
    <3> QED
      BY <3>1, <3>2, <3>3, <3>4 DEF EventsOf, HasOne
  <2> QED
    BY <2>3, <2>4 DEF EventsInv
<1> QED
  BY <1>8, <1>9, <1>10, <1>11 DEF ViewsCore

\* Postings and drainings start, each with the event that ends it.
LEMMA StabilizeKeepsViews ==
    ASSUME ViewsCore, Stabilize
    PROVE  ViewsCore'
<1>1. PICK e \in queue :
         /\ e.label[1] = "Stabilize"
         /\ Handle(e, {Event(now + setting.post, 4, "Posted", t) : t \in PostStarts}
                         \cup {Event(now + setting.drain, 4, "Drained", t) : t \in DrainStarts}, TRUE)
         /\ StabilizeReceivers
  BY DEF Stabilize, SlotOf
<1>2. UNCHANGED <<permits, sourceReady, sourceKnown, canonical, state>>
  BY DEF Stabilize, authorityVars, schedulerVars
<1> DEFINE post(t) == Event(now + setting.post, 4, "Posted", t)
           drain(t) == Event(now + setting.drain, 4, "Drained", t)
           R == {post(t) : t \in PostStarts} \cup {drain(t) : t \in DrainStarts}
<1>3. Moves({e}, R)
  BY <1>1, HandlersMove
<1>4. \A t : post(t).label = <<"Posted", t>> /\ drain(t).label = <<"Drained", t>>
  BY DEF Event
<1>5. /\ PostStarts \subseteq Tasks /\ DrainStarts \subseteq Tasks
      /\ \A t \in PostStarts : job[t] = "WAITING"
      /\ \A t \in DrainStarts : job[t] = "TRANSFERRED"
  BY DEF PostStarts, DrainStarts, Eligible
<1>6. /\ job' = [t \in Tasks |-> IF t \in DrainStarts THEN "DRAINING"
                                 ELSE IF t \in PostStarts THEN "POSTING" ELSE job[t]]
      /\ payloadAt' = payloadAt
  BY <1>1 DEF StabilizeReceivers
<1> HIDE DEF post, drain
<1>7. /\ \A r \in R : \/ \E t \in PostStarts : r.label = <<"Posted", t>> /\ r = post(t)
                      \/ \E t \in DrainStarts : r.label = <<"Drained", t>> /\ r = drain(t)
      /\ \A t \in PostStarts : post(t) \in R
      /\ \A t \in DrainStarts : drain(t) \in R
  BY <1>4
<1> HIDE DEF R
<1> DEFINE P == PostStarts
           D == DrainStarts
<1> HIDE DEF P, D
<1>8. /\ P \subseteq Tasks /\ D \subseteq Tasks
      /\ \A t \in P : job[t] = "WAITING" /\ job'[t] = "POSTING"
      /\ \A t \in D : job[t] = "TRANSFERRED" /\ job'[t] = "DRAINING"
      /\ \A t \in Tasks : t \notin P /\ t \notin D => job'[t] = job[t]
      /\ job' \in [Tasks -> Jobs]
  BY <1>5, <1>6 DEF P, D, ViewsCore, ViewsType, Jobs
<1>9. /\ \A r \in R : \/ \E t \in P : r.label = <<"Posted", t>> /\ r = post(t)
                      \/ \E t \in D : r.label = <<"Drained", t>> /\ r = drain(t)
      /\ \A t \in P : post(t) \in R
      /\ \A t \in D : drain(t) \in R
  BY <1>7 DEF P, D
<1>10. ViewsType'
  BY <1>2, <1>6, <1>8 DEF ViewsCore, ViewsType
<1>11. NewsIsTrue'
  <2>1. /\ \A s \in Ranks : HasPayload(s) => HasPayload(s)'
        /\ \A u \in Tasks : IsPosted(u) => IsPosted(u)'
    BY <1>6, <1>8 DEF HasPayload, IsPosted
  <2>2. \A r \in R : r.label[1] \notin News
    BY <1>9 DEF News
  <2> QED
    BY <1>2, <1>3, <2>1, <2>2, SilentRequests, NewsIsKept DEF ViewsCore
<1>12. StagesAgree'
  <2>1. \A t \in Tasks : job'[t] \in {"TRANSFERRED", "DRAINING", "ASSEMBLED"}
                      <=> job[t] \in {"TRANSFERRED", "DRAINING", "ASSEMBLED"}
    BY <1>8
  <2> QED
    BY <1>2, <2>1 DEF ViewsCore, StagesAgree
<1>13. EventsInv'
  <2>1. EventsInv
    BY DEF ViewsCore
  <2>2. ASSUME NEW u \in Tasks, NEW k \in Tracked, u \notin P \/ k # "Posted",
               u \notin D \/ k # "Drained"
        PROVE  Pending(k, u)' = Pending(k, u)
    <3>1. \A q \in R : q.label # <<k, u>>
      BY <1>9, <2>2
    <3>2. \A g \in {e} : g.label # <<k, u>>
      BY <1>1, <2>2 DEF Tracked
    <3> QED
      BY <1>3, <3>1, <3>2, PendingIsKept
  <2>3. ASSUME NEW u \in Tasks, u \notin P, u \notin D PROVE EventsOf(u)'
    <3>1. job'[u] = job[u] /\ state'[u] = state[u] /\ EventsOf(u)
      BY <1>2, <1>8, <2>1, <2>3 DEF EventsInv
    <3> QED
      BY <2>2, <2>3, <3>1, UnmovedKeepsEvents
  <2>4. ASSUME NEW u \in P PROVE EventsOf(u)'
    <3>1. /\ u \in Tasks /\ u \notin D /\ job[u] = "WAITING" /\ job'[u] = "POSTING"
          /\ state'[u] = state[u] /\ EventsOf(u)
      BY <1>2, <1>8, <2>1 DEF EventsInv
    <3>2. Pending("Posted", u) = {} /\ Pending("Drained", u) = {}
      BY <3>1 DEF EventsOf, HasOne
    <3>3. HasOne("Posted", u, TRUE)'
      <4>1. \E q \in R :
               /\ q.label = <<"Posted", u>>
               /\ \A p \in R : p.label = <<"Posted", u>> => p = q
        <5>1. post(u) \in R /\ post(u).label = <<"Posted", u>>
          BY <1>4, <1>9
        <5>2. \A p \in R : p.label = <<"Posted", u>> => p = post(u)
          BY <1>9
        <5> QED
          BY <5>1, <5>2
      <4> QED
        BY <1>3, <3>2, <4>1, PendingIsAdded
    <3>4. /\ Pending("Start", u)' = Pending("Start", u)
          /\ Pending("Complete", u)' = Pending("Complete", u)
          /\ Pending("Drained", u)' = Pending("Drained", u)
      BY <2>2, <3>1 DEF Tracked
    <3> QED
      BY <3>1, <3>2, <3>3, <3>4 DEF EventsOf, HasOne
  <2>5. ASSUME NEW u \in D PROVE EventsOf(u)'
    <3>1. /\ u \in Tasks /\ u \notin P /\ job[u] = "TRANSFERRED" /\ job'[u] = "DRAINING"
          /\ state'[u] = state[u] /\ EventsOf(u)
      BY <1>2, <1>8, <2>1 DEF EventsInv
    <3>2. Pending("Posted", u) = {} /\ Pending("Drained", u) = {}
      BY <3>1 DEF EventsOf, HasOne
    <3>3. HasOne("Drained", u, TRUE)'
      <4>1. \E q \in R :
               /\ q.label = <<"Drained", u>>
               /\ \A p \in R : p.label = <<"Drained", u>> => p = q
        <5>1. drain(u) \in R /\ drain(u).label = <<"Drained", u>>
          BY <1>4, <1>9
        <5>2. \A p \in R : p.label = <<"Drained", u>> => p = drain(u)
          BY <1>9
        <5> QED
          BY <5>1, <5>2
      <4> QED
        BY <1>3, <3>2, <4>1, PendingIsAdded
    <3>4. /\ Pending("Start", u)' = Pending("Start", u)
          /\ Pending("Complete", u)' = Pending("Complete", u)
          /\ Pending("Posted", u)' = Pending("Posted", u)
      BY <2>2, <3>1 DEF Tracked
    <3> QED
      BY <3>1, <3>2, <3>3, <3>4 DEF EventsOf, HasOne
  <2> QED
    BY <2>3, <2>4, <2>5 DEF EventsInv
<1> QED
  BY <1>10, <1>11, <1>12, <1>13 DEF ViewsCore

\* No step of the phase breaks what the views of a task say of each other.
LEMMA ViewsStep ==
    ASSUME ViewsCore, state \in [Tasks -> States], now \in Nat, DataInv, [ExchangeNext]_vars
    PROVE  ViewsCore'
<1>1. CASE HandleEvent
  BY <1>1, SourceReadyKeepsViews, StabilizeKeepsViews, PostedKeepsViews, DrainedKeepsViews,
     ChannelKeepsViews, ExpectationKeepsViews, SourceNewsKeepsViews, PermitNewsKeepsViews,
     PlanningKeepsViews, StartKeepsViews, CompletionKeepsViews DEF HandleEvent
<1>2. CASE ConfirmBatch
  BY <1>2, CommitKeepsViews
<1> QED
  BY <1>1, <1>2, LoopKeepsViews DEF ExchangeNext

----------------------------------------------------------------------------
(* The plan and the record. *)

planVars == <<canonical, record, planStatus, remaining>>

\* A new plan has each of its tasks at one place, and nothing that is frozen.
LEMMA ActivationKeepsPlan ==
    ASSUME NEW order, ActivatePlan(order)
    PROVE  PlanInv'
<1>1. /\ ToSet(order) = Unfrozen /\ IsInjective(order) /\ remaining' = Places(order)
      /\ canonical' = canonical /\ record' = record
  BY DEF ActivatePlan
<1>2. Unfrozen' = Unfrozen
  BY <1>1 DEF Unfrozen, Frozen
<1>3. DOMAIN remaining' = ToSet(order)
  BY <1>1 DEF Places
<1>4. IsInjective(remaining')
  <2>1. \A t \in ToSet(order) : /\ remaining'[t] \in DOMAIN order
                                /\ order[remaining'[t]] = t
    BY <1>1 DEF Places, ToSet
  <2> QED
    BY <1>3, <2>1 DEF IsInjective
<1> QED
  BY <1>1, <1>2, <1>3, <1>4 DEF PlanInv

\* A committed batch leaves the plan and is frozen.
LEMMA CommitKeepsPlan ==
    ASSUME PlanInv, AgreeInv, NEW batch, NEW s, CommitBatch(batch, s)
    PROVE  PlanInv'
<1>1. /\ planStatus = "ACTIVE" /\ canonical' = canonical
      /\ remaining' = [t \in DOMAIN remaining \ batch |-> remaining[t]]
      /\ record' = [record EXCEPT !.committed = @ \cup batch]
  BY DEF CommitBatch, Restrict
<1>2. Unfrozen' = Unfrozen \ batch
  BY <1>1 DEF Unfrozen, Frozen, AgreeInv
<1>3. DOMAIN remaining' = DOMAIN remaining \ batch
  BY <1>1
<1>4. IsInjective(remaining')
  BY <1>1 DEF PlanInv, IsInjective
<1> QED
  BY <1>1, <1>2, <1>3, <1>4 DEF PlanInv

\* What runs or completes stays frozen.
LEMMA ProgressKeepsPlan ==
    ASSUME PlanInv, AgreeInv, NEW t, MarkRunning(t) \/ MarkCompleted(t)
    PROVE  PlanInv'
<1>1. CASE MarkRunning(t)
  <2>1. Frozen' = Frozen
    BY <1>1 DEF MarkRunning, Frozen, AgreeInv
  <2> QED
    BY <1>1, <2>1 DEF MarkRunning, PlanInv, Unfrozen
<1>2. CASE MarkCompleted(t)
  <2>1. Frozen' = Frozen
    BY <1>2 DEF MarkCompleted, Frozen, AgreeInv
  <2>2. /\ planStatus' = "ACTIVE" => planStatus = "ACTIVE"
        /\ canonical' = canonical /\ remaining' = remaining
    BY <1>2 DEF MarkCompleted
  <2> QED
    BY <2>1, <2>2 DEF PlanInv, Unfrozen
<1> QED
  BY <1>1, <1>2

\* Nothing else touches the plan or the record.
LEMMA PlanStep ==
    ASSUME PlanInv, AgreeInv, [ExchangeNext]_vars
    PROVE  PlanInv'
<1>1. CASE UNCHANGED planVars
  BY <1>1 DEF planVars, PlanInv, Unfrozen, Frozen
<1>2. CASE ObserveExpectation \/ ObserveSource \/ ObservePermit
  <2>1. canonical \subseteq canonical' /\ UNCHANGED <<record, planStatus, remaining>>
    BY <1>2 DEF ObserveExpectation, ObserveSource, ObservePermit, RegisterTasks,
                NoteSourcePayloadReady, NotePermit
  <2> QED
    BY <2>1 DEF PlanInv, Unfrozen, Frozen
<1>3. CASE NextTime \/ EnterPhase \/ FinishRound \/ Terminated \/ UNCHANGED vars
  BY <1>1, <1>3 DEF NextTime, EnterPhase, FinishRound, Terminated, vars, systemVars,
                    authorityVars, planVars
<1>4. CASE SourceReady \/ Stabilize \/ Posted \/ Drained
  BY <1>1, <1>4 DEF SourceReady, Stabilize, Posted, Drained, authorityVars, planVars
<1>5. CASE Arrival \/ StartService \/ ServiceComplete \/ Delivery
  BY <1>1, <1>5 DEF Arrival, StartService, ServiceComplete, Delivery, authorityVars, planVars
<1>6. CASE ObserveClosure \/ CoalesceEvent \/ CoalesceGlobal \/ DeferGlobal \/ FinalizeGlobal
  BY <1>1, <1>6 DEF ObserveClosure, CoalesceEvent, CoalesceGlobal, DeferGlobal, FinalizeGlobal,
                    authorityVars, planVars
<1>7. CASE ControlComplete \/ SkipStalePlan \/ BindNothing
  BY <1>1, <1>7 DEF ControlComplete, SkipStalePlan, BindNothing, authorityVars, planVars
<1>8. CASE BindPlan
  BY <1>8, ActivationKeepsPlan DEF BindPlan
<1>9. CASE PrepareBatch \/ EndSubmit
  BY <1>1, <1>9 DEF PrepareBatch, EndSubmit, authorityVars, planVars
<1>10. CASE ConfirmBatch
  <2>1. PICK batch, s : CommitBatch(batch, s)
    BY <1>10 DEF ConfirmBatch
  <2> QED
    BY <2>1, CommitKeepsPlan
<1>11. CASE TransferStarts \/ TransferCompletes
  <2>1. PICK t : MarkRunning(t) \/ MarkCompleted(t)
    BY <1>11 DEF TransferStarts, TransferCompletes
  <2> QED
    BY <2>1, ProgressKeepsPlan
<1> QED
  BY <1>2, <1>3, <1>4, <1>5, <1>6, <1>7, <1>8, <1>9, <1>10, <1>11 DEF ExchangeNext, HandleEvent

----------------------------------------------------------------------------
(* The theorem about the views. *)

\* At first nothing is known of any task, and only sources are in the heap.
LEMMA ViewsInitHolds == ExchangeInit => ViewsInv
<1> SUFFICES ASSUME ExchangeInit PROVE ViewsInv
  OBVIOUS
<1>1. /\ state = [t \in Tasks |-> "PENDING"] /\ job = [t \in Tasks |-> "WAITING"]
      /\ payloadAt = [s \in Ranks |-> NoTime]
      /\ permits = {} /\ sourceReady = {} /\ sourceKnown = {} /\ canonical = {}
      /\ planStatus = "NONE"
  BY DEF ExchangeInit, AuthorityInit, ReceiverInit
<1>2. \A e \in queue : e.label[1] = "Source"
  BY DEF ExchangeInit, KernelInit, Event
<1>3. ViewsType
  BY <1>1 DEF ViewsType, Jobs
<1>4. NewsIsTrue
  BY <1>1, <1>2 DEF NewsIsTrue
<1>5. StagesAgree
  BY <1>1 DEF StagesAgree
<1>6. EventsInv
  <2>1. ASSUME NEW kind \in Tracked, NEW t PROVE Pending(kind, t) = {}
    BY <1>2 DEF Pending, Tracked
  <2>2. \A t \in Tasks : state[t] = "PENDING" /\ job[t] = "WAITING"
    BY <1>1
  <2> QED
    BY <2>1, <2>2 DEF EventsInv, EventsOf, HasOne, Tracked
<1>7. PlanInv
  BY <1>1 DEF PlanInv
<1> QED
  BY <1>3, <1>4, <1>5, <1>6, <1>7 DEF ViewsInv, ViewsCore

\* The invariant is what the phase promises.
LEMMA ViewsMeanAgreement ==
    ASSUME ViewsInv, AgreeInv
    PROVE  TaskViewsAgree
<1>1. RecordAgrees /\ SchedulerFollowsChannel
  BY DEF ViewsInv, PlanInv, AgreeInv, RecordAgrees
<1>2. ASSUME NEW t \in Tasks
      PROVE  /\ state[t] = "COMPLETED" <=> job[t] \in {"TRANSFERRED", "DRAINING", "ASSEMBLED"}
             /\ state[t] # "PENDING" =>
                  payloadAt[Src[t]] # NoTime /\ job[t] \notin {"WAITING", "POSTING"}
    BY DEF ViewsInv, ViewsCore, StagesAgree, NewsIsTrue, HasPayload, IsPosted
<1>3. ASSUME NEW t \in Tasks
      PROVE  /\ Cardinality(Pending("Start", t)) = IF state[t] = "COMMITTED" THEN 1 ELSE 0
             /\ Cardinality(Pending("Complete", t)) = IF state[t] = "RUNNING" THEN 1 ELSE 0
             /\ Cardinality(Pending("Posted", t)) = IF job[t] = "POSTING" THEN 1 ELSE 0
             /\ Cardinality(Pending("Drained", t)) = IF job[t] = "DRAINING" THEN 1 ELSE 0
  <2>1. EventsOf(t)
    BY DEF ViewsInv, ViewsCore, EventsInv
  <2> QED
    BY <2>1, FS_Singleton, FS_EmptySet DEF EventsOf, HasOne
<1> QED
  BY <1>1, <1>2, <1>3 DEF TaskViewsAgree

LEMMA ViewsInvariant == ExchangeSpec => [](ViewsInv /\ AgreeInv)
<1>1. ViewsInv /\ AgreeInv /\ PhaseInv /\ DataInv /\ [ExchangeNext]_vars => ViewsInv'
  <2> SUFFICES ASSUME ViewsInv, AgreeInv, PhaseInv, DataInv, [ExchangeNext]_vars PROVE ViewsInv'
    OBVIOUS
  <2>1. state \in [Tasks -> States] /\ now \in Nat
    BY DEF AgreeInv, PhaseInv, KernelInv, KernelTypeOK
  <2> QED
    BY <2>1, ViewsStep, PlanStep DEF ViewsInv
<1> QED
  BY <1>1, ViewsInitHolds, AgreeInvariant, PhaseInvariant, ExchangeImplementsData,
     DataInvariant, PTL DEF ExchangeSpec

\* In every run of the phase the record, the scheduler, the receiver, the data
\* channel and the heap tell the same story of every task (the adapters of
\* runtime_adapter.py never disagree about one).
THEOREM ViewsOfATaskAgree == ExchangeSpec => []TaskViewsAgree
<1>1. ViewsInv /\ AgreeInv => TaskViewsAgree
  BY ViewsMeanAgreement
<1> QED
  BY <1>1, ViewsInvariant, PTL

----------------------------------------------------------------------------
(* Sums over finite sets.  The prover has no induction over sets: where one is *)
(* needed, a counterexample of which no part is one leads to a contradiction.   *)

\* Of finite sets with a property, one has no part with it.
LEMMA LeastSet ==
  ASSUME NEW S, IsFiniteSet(S), NEW T, T \subseteq SUBSET S, T # {}
  PROVE  \E x \in T : \A y \in T : y \subseteq x => y = x
<1>1. IsWellFoundedOn(StrictSubsetOrdering(S), SUBSET S)
  BY FS_StrictSubsetOrderingWellFounded, FS_FiniteSubsetsOfFinite
<1>2. PICK x \in T : \A y \in T : ~ (<<y, x>> \in StrictSubsetOrdering(S))
  BY <1>1, WFMin
<1>3. \A y \in T : y \subseteq x => y = x
  BY <1>2 DEF StrictSubsetOrdering
<1> QED
  BY <1>3

\* g gives the sum over each subset of S, one element taken away at a time.
Taken(s) == CHOOSE x \in s : TRUE
Sums(g, S) == g = [s \in SUBSET S |-> IF s = {} THEN 0 ELSE Bytes[Taken(s)] + g[s \ {Taken(s)}]]

LEMMA TakenIsIn == \A s : s # {} => Taken(s) \in s
  BY DEF Taken

\* The sums over the subsets of two sets are the same for what is in both.
LEMMA SumsAreUnique ==
  ASSUME NEW S, IsFiniteSet(S), NEW U, NEW g, NEW h, Sums(g, U), Sums(h, S), S \subseteq U
  PROVE  \A s \in SUBSET S : g[s] = h[s]
<1> DEFINE T == {s \in SUBSET S : g[s] # h[s]}
<1> SUFFICES ASSUME T # {} PROVE FALSE
  OBVIOUS
<1>0. T \subseteq SUBSET S
  OBVIOUS
<1>1. PICK x \in T : \A y \in T : y \subseteq x => y = x
  <2> HIDE DEF T
  <2> QED
    BY <1>0, LeastSet
<1>2. x \in SUBSET S /\ x \in SUBSET U /\ g[x] # h[x]
  BY <1>1
<1> DEFINE rest == x \ {Taken(x)}
<1>3. g[x] = (IF x = {} THEN 0 ELSE Bytes[Taken(x)] + g[rest])
  BY <1>2 DEF Sums
<1>4. h[x] = (IF x = {} THEN 0 ELSE Bytes[Taken(x)] + h[rest])
  BY <1>2 DEF Sums
<1>5. x # {} /\ g[rest] # h[rest]
  BY <1>2, <1>3, <1>4
<1>6. rest \subseteq x /\ rest # x /\ rest \in SUBSET S
  BY <1>2, <1>5, TakenIsIn
<1> QED
  BY <1>1, <1>5, <1>6

LEMMA SumsExist ==
  ASSUME NEW S, IsFiniteSet(S)
  PROVE  \E g : Sums(g, S)
<1> DEFINE T == {s \in SUBSET S : \A g : ~Sums(g, s)}
<1> SUFFICES ASSUME T # {} PROVE FALSE
  OBVIOUS
<1>0. T \subseteq SUBSET S
  OBVIOUS
<1>1. PICK U \in T : \A y \in T : y \subseteq U => y = U
  <2> HIDE DEF T
  <2> QED
    BY <1>0, LeastSet
<1> DEFINE sol(s) == CHOOSE g : Sums(g, s)
<1>2. \A s \in SUBSET U : s # U => Sums(sol(s), s)
  <2> TAKE s \in SUBSET U
  <2> HAVE s # U
  <2>1. \E g : Sums(g, s)
    BY <1>1
  <2> QED
    BY <2>1
<1> HIDE DEF sol
<1> DEFINE g == [s \in SUBSET U |-> IF s = {} THEN 0
                                    ELSE Bytes[Taken(s)] + sol(s \ {Taken(s)})[s \ {Taken(s)}]]
<1>3. ASSUME NEW s \in SUBSET U, s # U PROVE g[s] = sol(s)[s]
  <2>1. CASE s = {}
    <3>1. sol(s)[s] = 0
      BY <1>2, <1>3, <2>1 DEF Sums
    <3> QED
      BY <2>1, <3>1
  <2>2. CASE s # {}
    <3> DEFINE rest == s \ {Taken(s)}
    <3>1. rest \in SUBSET s /\ rest \in SUBSET U /\ rest # U
      BY <1>3, <2>2, TakenIsIn
    <3>2. Sums(sol(s), s) /\ Sums(sol(rest), rest)
      BY <1>2, <1>3, <3>1
    <3>3. sol(s)[s] = Bytes[Taken(s)] + sol(s)[rest]
      BY <2>2, <3>2 DEF Sums
    <3>4. IsFiniteSet(rest)
      BY <3>1, <1>1, FS_Subset
    <3>5. sol(s)[rest] = sol(rest)[rest]
      BY <3>1, <3>2, <3>4, SumsAreUnique
    <3> QED
      BY <2>2, <3>3, <3>5
  <2> QED
    BY <2>1, <2>2
<1>4. ASSUME NEW s \in SUBSET U, s # {}
      PROVE  s \ {Taken(s)} \in SUBSET U /\ s \ {Taken(s)} # U
  BY <1>4, TakenIsIn
<1>5. \A s \in SUBSET U : s # {} => g[s \ {Taken(s)}] = sol(s \ {Taken(s)})[s \ {Taken(s)}]
  BY <1>3, <1>4
<1>6. \A s \in SUBSET U :
        g[s] = IF s = {} THEN 0 ELSE Bytes[Taken(s)] + sol(s \ {Taken(s)})[s \ {Taken(s)}]
  OBVIOUS
<1>7. g = [s \in SUBSET U |-> g[s]]
  OBVIOUS
<1> HIDE DEF g
<1>8. \A s \in SUBSET U : g[s] = IF s = {} THEN 0 ELSE Bytes[Taken(s)] + g[s \ {Taken(s)}]
  BY <1>5, <1>6
<1>9. Sums(g, U)
  BY <1>7, <1>8 DEF Sums
<1> QED
  BY <1>1, <1>9

\* TotalBytes is the last of the sums.
LEMMA TotalIsASum ==
  ASSUME NEW S, IsFiniteSet(S)
  PROVE  \E g : Sums(g, S) /\ TotalBytes(S) = g[S]
<1>1. PICK g : Sums(g, S)
  BY SumsExist
<1> DEFINE any(z) == CHOOSE x \in z : TRUE
           it == CHOOSE it : it = [z \in SUBSET S |-> IF z = {} THEN 0 ELSE Bytes[any(z)] + it[z \ {any(z)}]]
<1>2. it = [z \in SUBSET S |-> IF z = {} THEN 0 ELSE Bytes[any(z)] + it[z \ {any(z)}]]
  BY <1>1 DEF Sums, Taken
<1>3. TotalBytes(S) = it[S]
  BY DEF TotalBytes, MapThenSumSet, MapThenFoldSet
<1>4. Sums(it, S)
  BY <1>2 DEF Sums, Taken
<1> QED
  BY <1>3, <1>4

LEMMA TotalUnfolds ==
  /\ TotalBytes({}) = 0
  /\ \A S : IsFiniteSet(S) /\ S # {} =>
       TotalBytes(S) = Bytes[Taken(S)] + TotalBytes(S \ {Taken(S)})
<1>1. TotalBytes({}) = 0
  <2>1. PICK g : Sums(g, {}) /\ TotalBytes({}) = g[{}]
    BY TotalIsASum, FS_EmptySet
  <2> QED
    BY <2>1 DEF Sums
<1>2. ASSUME NEW S, IsFiniteSet(S), S # {}
      PROVE  TotalBytes(S) = Bytes[Taken(S)] + TotalBytes(S \ {Taken(S)})
  <2> DEFINE rest == S \ {Taken(S)}
  <2>1. IsFiniteSet(rest) /\ rest \subseteq S
    BY <1>2, FS_Subset
  <2>2. PICK g : Sums(g, S) /\ TotalBytes(S) = g[S]
    BY <1>2, TotalIsASum
  <2>3. PICK h : Sums(h, rest) /\ TotalBytes(rest) = h[rest]
    BY <2>1, TotalIsASum
  <2>4. g[rest] = h[rest]
    BY <2>1, <2>2, <2>3, SumsAreUnique
  <2>5. g[S] = Bytes[Taken(S)] + g[rest]
    BY <1>2, <2>2 DEF Sums
  <2> QED
    BY <2>2, <2>3, <2>4, <2>5
<1> QED
  BY <1>1, <1>2

\* Whichever element is taken first, the sum is the same.
LEMMA TotalWithout ==
  ASSUME NEW S, S \subseteq Tasks, IsFiniteSet(S)
  PROVE  /\ TotalBytes(S) \in Nat
         /\ \A t \in S : TotalBytes(S) = Bytes[t] + TotalBytes(S \ {t})
<1>1. \A t \in Tasks : Bytes[t] \in Nat
  BY ReceiverAssumption
<1> DEFINE Fine(s) == /\ TotalBytes(s) \in Nat
                      /\ \A t \in s : TotalBytes(s) = Bytes[t] + TotalBytes(s \ {t})
           T == {s \in SUBSET S : ~Fine(s)}
<1> SUFFICES ASSUME T # {} PROVE FALSE
  OBVIOUS
<1>0. T \subseteq SUBSET S
  OBVIOUS
<1>2. PICK x \in T : \A y \in T : y \subseteq x => y = x
  <2> HIDE DEF T
  <2> QED
    BY <1>0, LeastSet
<1>3. x \in SUBSET S /\ ~Fine(x) /\ IsFiniteSet(x)
  BY <1>2, FS_Subset
<1>4. \A y \in SUBSET x : y # x => Fine(y)
  BY <1>2, <1>3
<1> HIDE DEF T
<1>5. x # {}
  BY <1>3, TotalUnfolds
<1> DEFINE a == Taken(x)
<1>6. a \in x /\ TotalBytes(x) = Bytes[a] + TotalBytes(x \ {a})
  BY <1>3, <1>5, TotalUnfolds, TakenIsIn
<1> HIDE DEF a
<1>7. Fine(x \ {a})
  BY <1>4, <1>6
<1>8. Bytes[a] \in Nat
  BY <1>1, <1>3, <1>6
<1>9. ASSUME NEW t \in x, t # a PROVE TotalBytes(x) = Bytes[t] + TotalBytes(x \ {t})
  <2>1. Fine(x \ {t}) /\ Fine((x \ {t}) \ {a})
    BY <1>4, <1>6
  <2>2. TotalBytes(x \ {t}) = Bytes[a] + TotalBytes((x \ {t}) \ {a})
    BY <2>1, <1>6, <1>9
  <2>3. TotalBytes(x \ {a}) = Bytes[t] + TotalBytes((x \ {a}) \ {t})
    BY <1>7, <1>9
  <2>4. (x \ {a}) \ {t} = (x \ {t}) \ {a}
    OBVIOUS
  <2>5. Bytes[t] \in Nat
    BY <1>1, <1>3
  <2>6. TotalBytes((x \ {t}) \ {a}) \in Nat
    BY <2>1
  <2>7. TotalBytes(x) = Bytes[a] + (Bytes[t] + TotalBytes((x \ {t}) \ {a}))
    BY <1>6, <2>3, <2>4
  <2>8. TotalBytes(x) = Bytes[t] + (Bytes[a] + TotalBytes((x \ {t}) \ {a}))
    BY <1>8, <2>5, <2>6, <2>7
  <2> QED
    BY <2>2, <2>8
<1>10. Fine(x)
  <2>1. TotalBytes(x \ {a}) \in Nat
    BY <1>7
  <2>2. TotalBytes(x) \in Nat
    BY <1>6, <1>8, <2>1
  <2> QED
    BY <1>6, <1>9, <2>2
<1> QED
  BY <1>3, <1>10

LEMMA TotalWith ==
  ASSUME NEW S, S \subseteq Tasks, NEW t \in Tasks, t \notin S
  PROVE  /\ TotalBytes(S) \in Nat /\ Bytes[t] \in Nat
         /\ TotalBytes(S \cup {t}) = TotalBytes(S) + Bytes[t]
<1>1. IsFiniteSet(S) /\ IsFiniteSet(S \cup {t})
  BY ReceiverAssumption, FS_Subset, FS_AddElement
<1>2. TotalBytes(S) \in Nat
  BY <1>1, TotalWithout
<1>3. Bytes[t] \in Nat
  BY ReceiverAssumption
<1>4. (S \cup {t}) \ {t} = S /\ t \in S \cup {t} /\ S \cup {t} \subseteq Tasks
  OBVIOUS
<1>5. TotalBytes(S \cup {t}) = Bytes[t] + TotalBytes((S \cup {t}) \ {t})
  BY <1>1, <1>4, TotalWithout
<1>6. TotalBytes(S \cup {t}) = Bytes[t] + TotalBytes(S)
  BY <1>4, <1>5
<1> QED
  BY <1>2, <1>3, <1>6

----------------------------------------------------------------------------
(* The memory of the receivers. *)

Times == Nat \cup {NoTime}

\* The types the accounts need, and with them the property
ReceiverTypes ==
    /\ job \in [Tasks -> Jobs]
    /\ expectedAt \in [Ranks -> Times] /\ registeredAt \in [Tasks -> Times]
    /\ payloadAt \in [Ranks -> Times]
    /\ reserved \in [Ranks -> Nat] /\ used \in [Ranks -> Nat] /\ assembled \in [Edges -> Nat]

StagingInv == ReceiverTypes /\ StagingIsAccounted

LEMMA TasksHaveEnds ==
  \A t \in Tasks : Src[t] \in Ranks /\ Dst[t] \in Ranks /\ Edge(t) \in Edges
BY TaskAssumption DEF Edges

\* The tasks of an edge with a given job
Arrived(edge) == {t \in Tasks : Edge(t) = edge /\ job[t] = "ASSEMBLED"}

\* A posting server takes one task at a time: what it may start is the first of an order.
LEMMA OnePostIsStarted ==
  ASSUME ReceiverTypes, NEW t \in PostStarts, NEW u \in PostStarts, Dst[t] = Dst[u]
  PROVE  t = u
<1> SUFFICES ASSUME t # u PROVE FALSE
  OBVIOUS
<1>1. t \in Tasks /\ u \in Tasks /\ Eligible(t) /\ Eligible(u) /\ PostsBefore(t, u) /\ PostsBefore(u, t)
  BY DEF PostStarts
<1>2. ASSUME NEW v \in Tasks, Eligible(v)
      PROVE  RequestedAt(v) \in Nat /\ EligibleAt(v) \in Nat /\ StableOrder[v] \in Nat
  <2>1. /\ expectedAt[Src[v]] \in Nat /\ registeredAt[v] \in Nat /\ payloadAt[Src[v]] \in Nat
    BY <1>2, TasksHaveEnds DEF Eligible, Requested, ReceiverTypes, Times
  <2> QED
    BY <2>1, ReceiverAssumption DEF RequestedAt, EligibleAt, Later
<1>3. StableOrder[t] # StableOrder[u]
  BY <1>1, ReceiverAssumption
<1> QED
  BY <1>1, <1>2, <1>3 DEF PostsBefore

\* Starting reserves the memory of what is posted and touches no other.
LEMMA StabilizeKeepsStaging ==
  ASSUME StagingInv, StabilizeReceivers
  PROVE  StagingInv'
<1> DEFINE opening(d) == {t \in PostStarts : Dst[t] = d}
<1>1. /\ PostStarts \subseteq Tasks /\ DrainStarts \subseteq Tasks
      /\ \A t \in PostStarts : job[t] = "WAITING" /\ Fits(t)
      /\ \A t \in DrainStarts : job[t] = "TRANSFERRED"
  BY DEF PostStarts, DrainStarts, Eligible
<1>2. /\ job' = [t \in Tasks |-> IF t \in DrainStarts THEN "DRAINING"
                                 ELSE IF t \in PostStarts THEN "POSTING" ELSE job[t]]
      /\ reserved' = [d \in Ranks |-> reserved[d] + TotalBytes(opening(d))]
      /\ UNCHANGED <<expectedAt, registeredAt, payloadAt, used, assembled>>
  BY DEF StabilizeReceivers
<1>3. ReceiverTypes /\ StagingIsAccounted
  BY DEF StagingInv
<1>4. \A d \in Ranks : opening(d) = {} \/ \E t \in PostStarts : Dst[t] = d /\ opening(d) = {t}
  BY <1>3, OnePostIsStarted
<1>5. job' \in [Tasks -> Jobs]
  BY <1>2, <1>3 DEF ReceiverTypes, Jobs
<1> HIDE DEF opening
<1>6. /\ \A t \in Tasks : job'[t] \in {"TRANSFERRED", "DRAINING"} <=> job[t] \in {"TRANSFERRED", "DRAINING"}
      /\ \A t \in Tasks : job'[t] = "ASSEMBLED" <=> job[t] = "ASSEMBLED"
      /\ \A t \in Tasks : job'[t] \in {"POSTING", "POSTED"} <=> (job[t] \in {"POSTING", "POSTED"} \/ t \in PostStarts)
  BY <1>1, <1>2
<1>7. ASSUME NEW d \in Ranks
      PROVE  /\ reserved'[d] \in Nat
             /\ reserved'[d] = TotalBytes(JobsAt(d, {"POSTING", "POSTED"})')
             /\ reserved'[d] + used'[d] <= Capacity[d]
  <2> DEFINE before == JobsAt(d, {"POSTING", "POSTED"})
  <2>1. JobsAt(d, {"POSTING", "POSTED"})' = before \cup opening(d)
    BY <1>1, <1>6 DEF JobsAt, opening
  <2>2. /\ reserved[d] \in Nat /\ used[d] \in Nat /\ Capacity[d] \in Nat
        /\ reserved[d] = TotalBytes(before) /\ reserved[d] + used[d] <= Capacity[d]
        /\ reserved'[d] = reserved[d] + TotalBytes(opening(d)) /\ used'[d] = used[d]
    BY <1>2, <1>3, ReceiverAssumption DEF ReceiverTypes, StagingIsAccounted
  <2>3. CASE opening(d) = {}
    <3>1. TotalBytes(opening(d)) = 0 /\ JobsAt(d, {"POSTING", "POSTED"})' = before
      BY <2>1, <2>3, TotalUnfolds
    <3> HIDE DEF before
    <3>2. reserved'[d] = reserved[d]
      BY <2>2, <3>1
    <3> QED
      BY <2>2, <3>1, <3>2
  <2>4. ASSUME NEW t \in PostStarts, Dst[t] = d, opening(d) = {t}
        PROVE  /\ reserved'[d] \in Nat
               /\ reserved'[d] = TotalBytes(JobsAt(d, {"POSTING", "POSTED"})')
               /\ reserved'[d] + used'[d] <= Capacity[d]
    <3>1. t \in Tasks /\ t \notin before /\ before \subseteq Tasks
      BY <1>1 DEF JobsAt
    <3>2. TotalBytes(before \cup {t}) = TotalBytes(before) + Bytes[t] /\ Bytes[t] \in Nat
      BY <3>1, TotalWith
    <3>3. TotalBytes({} \cup {t}) = TotalBytes({}) + Bytes[t]
      BY <3>1, TotalWith
    <3>4. TotalBytes({t}) = Bytes[t]
      <4>1. {} \cup {t} = {t}
        OBVIOUS
      <4> QED
        BY <3>2, <3>3, <4>1, TotalUnfolds
    <3>5. Bytes[t] <= Capacity[d] - (reserved[d] + used[d])
      BY <1>1, <2>4 DEF Fits
    <3>6. JobsAt(d, {"POSTING", "POSTED"})' = before \cup {t}
      BY <2>1, <2>4
    <3>7. reserved'[d] = reserved[d] + Bytes[t]
      BY <2>2, <2>4, <3>4
    <3> HIDE DEF before
    <3>8. /\ reserved[d] + Bytes[t] \in Nat
          /\ (reserved[d] + Bytes[t]) + used[d] <= Capacity[d]
      BY <2>2, <3>2, <3>5
    <3> QED
      BY <2>2, <3>2, <3>6, <3>7, <3>8
  <2> QED
    BY <1>4, <2>3, <2>4
<1>8. \A d \in Ranks : JobsAt(d, {"TRANSFERRED", "DRAINING"})' = JobsAt(d, {"TRANSFERRED", "DRAINING"})
  BY <1>6 DEF JobsAt
<1>9. \A edge \in Edges : Arrived(edge)' = Arrived(edge)
  BY <1>6 DEF Arrived
<1>10. StagingIsAccounted'
  BY <1>2, <1>3, <1>7, <1>8, <1>9 DEF StagingIsAccounted, Arrived
<1>11. ReceiverTypes'
  <2>1. reserved' \in [Ranks -> Nat]
    BY <1>2, <1>7
  <2> QED
    BY <1>2, <1>3, <1>5, <2>1 DEF ReceiverTypes
<1> QED
  BY <1>10, <1>11 DEF StagingInv

LEMMA PostCompleteKeepsStaging ==
  ASSUME StagingInv, NEW t \in Tasks, OnReceiverPostComplete(t)
  PROVE  StagingInv'
<1>1. /\ job[t] = "POSTING" /\ job' = [job EXCEPT ![t] = "POSTED"]
      /\ UNCHANGED <<expectedAt, registeredAt, payloadAt, reserved, used, assembled>>
  BY DEF OnReceiverPostComplete
<1>2. job \in [Tasks -> Jobs]
  BY DEF StagingInv, ReceiverTypes
<1>3. \A d \in Ranks :
        /\ JobsAt(d, {"POSTING", "POSTED"})' = JobsAt(d, {"POSTING", "POSTED"})
        /\ JobsAt(d, {"TRANSFERRED", "DRAINING"})' = JobsAt(d, {"TRANSFERRED", "DRAINING"})
  BY <1>1, <1>2 DEF JobsAt
<1>4. \A edge \in Edges : Arrived(edge)' = Arrived(edge)
  BY <1>1, <1>2 DEF Arrived
<1>5. job' \in [Tasks -> Jobs]
  BY <1>1, <1>2 DEF Jobs
<1> QED
  BY <1>1, <1>3, <1>4, <1>5 DEF StagingInv, ReceiverTypes, StagingIsAccounted, Arrived

\* A transfer turns what was reserved for its task into used memory.
LEMMA TransferKeepsStaging ==
  ASSUME StagingInv, NEW t \in Tasks, NEW at, OnTransferCompleted(t, at)
  PROVE  StagingInv'
<1> DEFINE d == Dst[t]
           posted == JobsAt(d, {"POSTING", "POSTED"})
           held == JobsAt(d, {"TRANSFERRED", "DRAINING"})
<1>1. /\ job[t] = "POSTED" /\ job' = [job EXCEPT ![t] = "TRANSFERRED"]
      /\ reserved' = [reserved EXCEPT ![d] = @ - Bytes[t]]
      /\ used' = [used EXCEPT ![d] = @ + Bytes[t]]
      /\ UNCHANGED <<expectedAt, registeredAt, payloadAt, assembled>>
  BY DEF OnTransferCompleted
<1>2. ReceiverTypes /\ StagingIsAccounted /\ d \in Ranks /\ job \in [Tasks -> Jobs]
  BY TasksHaveEnds DEF StagingInv, ReceiverTypes
<1>3. /\ reserved[d] \in Nat /\ used[d] \in Nat /\ reserved[d] + used[d] <= Capacity[d]
      /\ reserved[d] = TotalBytes(posted) /\ used[d] = TotalBytes(held)
      /\ Capacity[d] \in Nat
  BY <1>2, ReceiverAssumption DEF ReceiverTypes, StagingIsAccounted
<1>4. t \in posted /\ t \notin held /\ posted \subseteq Tasks /\ held \subseteq Tasks
  BY <1>1 DEF JobsAt
<1>5. JobsAt(d, {"POSTING", "POSTED"})' = posted \ {t} /\ JobsAt(d, {"TRANSFERRED", "DRAINING"})' = held \cup {t}
  BY <1>1, <1>2 DEF JobsAt
<1>6. \A x \in Ranks : x # d =>
        /\ JobsAt(x, {"POSTING", "POSTED"})' = JobsAt(x, {"POSTING", "POSTED"})
        /\ JobsAt(x, {"TRANSFERRED", "DRAINING"})' = JobsAt(x, {"TRANSFERRED", "DRAINING"})
        /\ reserved'[x] = reserved[x] /\ used'[x] = used[x]
  BY <1>1, <1>2 DEF JobsAt, ReceiverTypes
<1>7. \A edge \in Edges : Arrived(edge)' = Arrived(edge)
  BY <1>1, <1>2 DEF Arrived
<1>8. reserved'[d] = reserved[d] - Bytes[t] /\ used'[d] = used[d] + Bytes[t]
  BY <1>1, <1>2 DEF ReceiverTypes
<1> HIDE DEF posted, held
<1>9. /\ TotalBytes(posted) = TotalBytes(posted \ {t}) + Bytes[t]
      /\ TotalBytes(held \cup {t}) = TotalBytes(held) + Bytes[t]
      /\ TotalBytes(posted \ {t}) \in Nat /\ Bytes[t] \in Nat
  <2>1. (posted \ {t}) \cup {t} = posted /\ t \notin posted \ {t} /\ posted \ {t} \subseteq Tasks
    BY <1>4
  <2> QED
    BY <1>4, <2>1, TotalWith
<1> HIDE DEF d
<1>10. /\ reserved'[d] \in Nat /\ used'[d] \in Nat /\ reserved'[d] + used'[d] <= Capacity[d]
       /\ reserved'[d] = TotalBytes(posted \ {t}) /\ used'[d] = TotalBytes(held \cup {t})
  BY <1>3, <1>8, <1>9
<1>11. StagingIsAccounted'
  BY <1>1, <1>2, <1>5, <1>6, <1>7, <1>10 DEF StagingIsAccounted, Arrived
<1>12. ReceiverTypes'
  <2>1. job' \in [Tasks -> Jobs]
    BY <1>1, <1>2 DEF Jobs
  <2>2. \A x \in Ranks : reserved'[x] \in Nat /\ used'[x] \in Nat
    BY <1>2, <1>6, <1>10 DEF ReceiverTypes
  <2>3. reserved' \in [Ranks -> Nat] /\ used' \in [Ranks -> Nat]
    BY <1>1, <1>2, <2>2 DEF ReceiverTypes
  <2> QED
    BY <1>1, <1>2, <2>1, <2>3 DEF ReceiverTypes
<1> QED
  BY <1>11, <1>12 DEF StagingInv

\* A drained task gives its memory back and its edge has its bytes.
LEMMA DrainKeepsStaging ==
  ASSUME StagingInv, NEW t \in Tasks, OnReceiverDrainFinish(t)
  PROVE  StagingInv'
<1> DEFINE d == Dst[t]
           edge == Edge(t)
           held == JobsAt(d, {"TRANSFERRED", "DRAINING"})
<1>1. /\ job[t] = "DRAINING" /\ job' = [job EXCEPT ![t] = "ASSEMBLED"]
      /\ used' = [used EXCEPT ![d] = @ - Bytes[t]]
      /\ assembled' = [assembled EXCEPT ![edge] = @ + Bytes[t]]
      /\ UNCHANGED <<expectedAt, registeredAt, payloadAt, reserved>>
  BY DEF OnReceiverDrainFinish
<1>2. ReceiverTypes /\ StagingIsAccounted /\ d \in Ranks /\ edge \in Edges /\ job \in [Tasks -> Jobs]
  BY TasksHaveEnds DEF StagingInv, ReceiverTypes
<1>3. /\ reserved[d] \in Nat /\ used[d] \in Nat /\ reserved[d] + used[d] <= Capacity[d]
      /\ used[d] = TotalBytes(held) /\ assembled[edge] = TotalBytes(Arrived(edge))
      /\ Capacity[d] \in Nat /\ assembled[edge] \in Nat
  BY <1>2, ReceiverAssumption DEF ReceiverTypes, StagingIsAccounted, Arrived
<1>4. t \in held /\ t \notin Arrived(edge) /\ held \subseteq Tasks /\ Arrived(edge) \subseteq Tasks
  BY <1>1 DEF JobsAt, Arrived
<1>5. JobsAt(d, {"TRANSFERRED", "DRAINING"})' = held \ {t} /\ Arrived(edge)' = Arrived(edge) \cup {t}
  BY <1>1, <1>2 DEF JobsAt, Arrived
<1>6. /\ \A x \in Ranks : /\ JobsAt(x, {"POSTING", "POSTED"})' = JobsAt(x, {"POSTING", "POSTED"})
                          /\ x # d => /\ JobsAt(x, {"TRANSFERRED", "DRAINING"})' = JobsAt(x, {"TRANSFERRED", "DRAINING"})
                                      /\ used'[x] = used[x]
      /\ \A f \in Edges : f # edge => Arrived(f)' = Arrived(f) /\ assembled'[f] = assembled[f]
  BY <1>1, <1>2 DEF JobsAt, Arrived, ReceiverTypes
<1>7. used'[d] = used[d] - Bytes[t] /\ assembled'[edge] = assembled[edge] + Bytes[t]
  BY <1>1, <1>2 DEF ReceiverTypes
<1> HIDE DEF held, edge
<1>8. /\ TotalBytes(held) = TotalBytes(held \ {t}) + Bytes[t]
      /\ TotalBytes(Arrived(edge) \cup {t}) = TotalBytes(Arrived(edge)) + Bytes[t]
      /\ TotalBytes(held \ {t}) \in Nat /\ Bytes[t] \in Nat
  <2>1. (held \ {t}) \cup {t} = held /\ t \notin held \ {t} /\ held \ {t} \subseteq Tasks
    BY <1>4
  <2> QED
    BY <1>4, <2>1, TotalWith
<1> HIDE DEF d
<1>9. /\ used'[d] \in Nat /\ reserved[d] + used'[d] <= Capacity[d]
      /\ used'[d] = TotalBytes(held \ {t})
      /\ assembled'[edge] \in Nat /\ assembled'[edge] = TotalBytes(Arrived(edge) \cup {t})
  BY <1>3, <1>7, <1>8
<1>10. StagingIsAccounted'
  <2>1. \A f \in Edges : assembled'[f] = TotalBytes(Arrived(f)')
    BY <1>2, <1>5, <1>6, <1>9 DEF StagingIsAccounted, Arrived
  <2>2. ASSUME NEW x \in Ranks
        PROVE  /\ reserved'[x] = TotalBytes(JobsAt(x, {"POSTING", "POSTED"})')
               /\ used'[x] = TotalBytes(JobsAt(x, {"TRANSFERRED", "DRAINING"})')
               /\ reserved'[x] + used'[x] <= Capacity[x]
    BY <1>1, <1>2, <1>5, <1>6, <1>9 DEF StagingIsAccounted
  <2> QED
    BY <2>1, <2>2 DEF StagingIsAccounted, Arrived
<1>11. ReceiverTypes'
  <2>1. job' \in [Tasks -> Jobs]
    BY <1>1, <1>2 DEF Jobs
  <2>2. \A x \in Ranks : used'[x] \in Nat
    BY <1>2, <1>6, <1>9 DEF ReceiverTypes
  <2>3. \A f \in Edges : assembled'[f] \in Nat
    BY <1>2, <1>6, <1>9 DEF ReceiverTypes
  <2>4. used' \in [Ranks -> Nat] /\ assembled' \in [Edges -> Nat]
    BY <1>1, <1>2, <2>2, <2>3 DEF ReceiverTypes
  <2> QED
    BY <1>1, <1>2, <2>1, <2>4 DEF ReceiverTypes
<1> QED
  BY <1>10, <1>11 DEF StagingInv

\* The other steps tell the receivers a time, or nothing.
LEMMA OthersKeepStaging ==
  ASSUME StagingInv, UNCHANGED <<job, reserved, used, assembled>>,
         expectedAt' \in [Ranks -> Times], registeredAt' \in [Tasks -> Times],
         payloadAt' \in [Ranks -> Times]
  PROVE  StagingInv'
<1>1. \A d, statuses : JobsAt(d, statuses)' = JobsAt(d, statuses)
  BY DEF JobsAt
<1>2. \A edge \in Edges : Arrived(edge)' = Arrived(edge)
  BY DEF Arrived
<1>3. StagingIsAccounted'
  BY <1>1, <1>2 DEF StagingInv, StagingIsAccounted, Arrived
<1>4. ReceiverTypes'
  BY DEF StagingInv, ReceiverTypes
<1> QED
  BY <1>3, <1>4 DEF StagingInv

LEMMA StagingStarts == ReceiverInit => StagingInv
<1> SUFFICES ASSUME ReceiverInit PROVE StagingInv
  OBVIOUS
<1>1. /\ job = [t \in Tasks |-> "WAITING"] /\ expectedAt = [s \in Ranks |-> NoTime]
      /\ registeredAt = [t \in Tasks |-> NoTime] /\ payloadAt = [s \in Ranks |-> NoTime]
      /\ reserved = [d \in Ranks |-> 0] /\ used = [d \in Ranks |-> 0]
      /\ assembled = [edge \in Edges |-> 0]
  BY DEF ReceiverInit
<1>2. ReceiverTypes
  BY <1>1 DEF ReceiverTypes, Jobs, Times
<1>3. \A d \in Ranks : /\ JobsAt(d, {"POSTING", "POSTED"}) = {}
                       /\ JobsAt(d, {"TRANSFERRED", "DRAINING"}) = {}
  BY <1>1 DEF JobsAt
<1>4. \A edge \in Edges : Arrived(edge) = {}
  BY <1>1 DEF Arrived
<1>5. \A d \in Ranks : Capacity[d] \in Nat
  BY ReceiverAssumption
<1>6. StagingIsAccounted
  <2>1. TotalBytes({}) = 0
    BY TotalUnfolds
  <2>2. \A d \in Ranks : reserved[d] = 0 /\ used[d] = 0 /\ reserved[d] + used[d] <= Capacity[d]
    BY <1>1, <1>5
  <2>3. \A edge \in Edges : assembled[edge] = TotalBytes(Arrived(edge))
    BY <1>1, <1>4, <2>1
  <2> QED
    BY <1>3, <2>1, <2>2, <2>3 DEF StagingIsAccounted, Arrived
<1> QED
  BY <1>2, <1>6 DEF StagingInv

\* A step of the phase is one of the receivers' operations or leaves them alone.
LEMMA StagingStep ==
  ASSUME StagingInv, now \in Nat, [ExchangeNext]_vars
  PROVE  StagingInv'
<1>1. CASE UNCHANGED receiverVars
  <2>1. UNCHANGED <<job, reserved, used, assembled, expectedAt, registeredAt, payloadAt>>
    BY <1>1 DEF receiverVars
  <2> QED
    BY <2>1, OthersKeepStaging DEF StagingInv, ReceiverTypes
<1>2. CASE SourceReady
  <2>1. PICK s \in Ranks : MarkSourcePayloadReady(s, now)
    BY <1>2 DEF SourceReady
  <2> QED
    BY <2>1, OthersKeepStaging DEF MarkSourcePayloadReady, StagingInv, ReceiverTypes, Times
<1>3. CASE Delivery
  <2>1. PICK s \in Ranks : RegisterExpectations(s, now)
    BY <1>3 DEF Delivery
  <2> QED
    BY <2>1, OthersKeepStaging DEF RegisterExpectations, StagingInv, ReceiverTypes, Times
<1>4. CASE ObserveExpectation
  <2>1. PICK tasks : RegisterCatalogue(tasks, now)
    BY <1>4 DEF ObserveExpectation
  <2>2. registeredAt' \in [Tasks -> Times]
    BY <2>1 DEF RegisterCatalogue, StagingInv, ReceiverTypes, Times
  <2> QED
    BY <2>1, <2>2, OthersKeepStaging DEF RegisterCatalogue, StagingInv, ReceiverTypes
<1>5. CASE Stabilize
  BY <1>5, StabilizeKeepsStaging DEF Stabilize
<1>6. CASE Posted \/ Drained \/ TransferCompletes
  BY <1>6, PostCompleteKeepsStaging, DrainKeepsStaging, TransferKeepsStaging
     DEF Posted, Drained, TransferCompletes
<1>7. CASE NextTime \/ EnterPhase \/ FinishRound \/ Terminated \/ UNCHANGED vars
  BY <1>1, <1>7 DEF NextTime, EnterPhase, FinishRound, Terminated, vars, systemVars
<1>8. CASE Arrival \/ StartService \/ ServiceComplete \/ ObserveSource \/ ObservePermit \/ ObserveClosure
  BY <1>1, <1>8 DEF Arrival, StartService, ServiceComplete, ObserveSource, ObservePermit, ObserveClosure
<1>9. CASE CoalesceEvent \/ CoalesceGlobal \/ DeferGlobal \/ FinalizeGlobal \/ ControlComplete
  BY <1>1, <1>9 DEF CoalesceEvent, CoalesceGlobal, DeferGlobal, FinalizeGlobal, ControlComplete
<1>10. CASE BindPlan \/ SkipStalePlan \/ BindNothing \/ TransferStarts
  BY <1>1, <1>10 DEF BindPlan, SkipStalePlan, BindNothing, TransferStarts
<1>11. CASE PrepareBatch \/ ConfirmBatch \/ EndSubmit
  BY <1>1, <1>11 DEF PrepareBatch, ConfirmBatch, EndSubmit
<1> QED
  BY <1>2, <1>3, <1>4, <1>5, <1>6, <1>7, <1>8, <1>9, <1>10, <1>11 DEF ExchangeNext, HandleEvent

LEMMA StagingInvariant == ExchangeSpec => []StagingInv
<1>1. ExchangeInit => StagingInv
  BY StagingStarts DEF ExchangeInit
<1>2. StagingInv /\ PhaseInv /\ [ExchangeNext]_vars => StagingInv'
  BY StagingStep DEF PhaseInv, KernelInv, KernelTypeOK
<1> QED
  BY <1>1, <1>2, PhaseInvariant, PTL DEF ExchangeSpec

\* In every run of the phase the memory of each rank is accounted for, byte by byte,
\* and never exceeds its capacity (receiver.py's reservations and their returns).
THEOREM StagingIsAccountedFor == ExchangeSpec => []StagingIsAccounted
<1>1. StagingInv => StagingIsAccounted
  BY DEF StagingInv
<1> QED
  BY <1>1, StagingInvariant, PTL

----------------------------------------------------------------------------
(* No wakeup is lost.  Each of the three who start work has a flag that says  *)
(* whether it was called: the control server an event of its own, the         *)
(* receivers a stabilization, the submission a dirty phase.  Where work could *)
(* start, the flag is set; a set flag keeps the time stamp from ending.       *)

\* An event of a kind is due at this time.
Due(kind) == \E q \in queue : q.at = now /\ q.label[1] = kind

\* What is due stays until it is taken, and what is asked for now is due.
LEMMA DueStays ==
    ASSUME NEW gone, NEW requests, Moves(gone, requests), now' = now, NEW kind
    PROVE  /\ Due(kind) /\ (\A g \in gone : g.label[1] # kind) => Due(kind)'
           /\ (\E r \in requests : r.at = now /\ r.label[1] = kind) => Due(kind)'
<1>1. ASSUME Due(kind), \A g \in gone : g.label[1] # kind PROVE Due(kind)'
  <2>1. PICK q \in queue : q.at = now /\ q.label[1] = kind
    BY <1>1 DEF Due
  <2>2. q \in queue'
    BY <1>1, <2>1 DEF Moves
  <2> QED
    BY <2>1, <2>2 DEF Due
<1>2. ASSUME NEW r \in requests, r.at = now, r.label[1] = kind PROVE Due(kind)'
  <2> DEFINE q == [at |-> r.at, round |-> RoundOf(r.at, r.phase), phase |-> r.phase, label |-> r.label]
  <2>1. q \in Stamped(requests)
    BY DEF Stamped
  <2>2. q.at = now /\ q.label[1] = kind
    BY <1>2
  <2> HIDE DEF q
  <2>3. q \in queue'
    BY <2>1 DEF Moves
  <2> QED
    BY <2>2, <2>3 DEF Due
<1> QED
  BY <1>1, <1>2

\* The control server.
ServiceInv ==
    /\ waiting # {} => serverBusy \/ servicePending
    /\ servicePending => begun /\ Due("Service")

\* The receivers.
ReceiversInv ==
    /\ PostStarts # {} \/ DrainStarts # {} => stabilizing
    /\ stabilizing => begun /\ Due("Stabilize")

\* The submission: its callback sees every ready task of the plan, and what it
\* leaves can only fit after progress.
SubmitInv ==
    /\ ReadyTasks # <<>> => dirty
    /\ submitted => phase = Submit
    /\ phase = 0 => ~moved
    /\ submitted \/ phase > Submit \/ (phase = 0 /\ begun /\ ~cycle) => NextBatch = {} \/ moved

\* A task is ready as soon as the two things it waits for were told, and a source
\* that is known to be ready is so for all its registered tasks.
TellsInv ==
    /\ \A t \in Tasks : t \in permits /\ t \in sourceReady => state[t] # "PENDING"
    /\ \A t \in canonical : Src[t] \in sourceKnown => t \in sourceReady

\* Between two time stamps nothing is due at the last one.
LEMMA NothingIsDue ==
    ASSUME NoEventIsOverdue, PhaseInv, phase = 0, begun, ~cycle, NEW kind
    PROVE  ~Due(kind)
<1>1. now \in Nat /\ \A q \in queue : q.at \in Nat
  BY DEF PhaseInv, KernelInv, KernelTypeOK, IsEvent
<1>2. \A q \in queue : q.at > now
  BY DEF NoEventIsOverdue
<1> QED
  BY <1>1, <1>2 DEF Due

----------------------------------------------------------------------------
(* The control server. *)

\* Each handler takes one event of its kind.
Takes(kind) == \E e, requests, progress : e.label[1] = kind /\ Handle(e, requests, progress)

LEMMA HandlersTake ==
  /\ SourceReady => Takes("Source")
  /\ Stabilize => Takes("Stabilize")
  /\ Posted => Takes("Posted")
  /\ Drained => Takes("Drained")
  /\ Arrival => Takes("Arrival")
  /\ StartService => Takes("Service")
  /\ ServiceComplete => Takes("Served")
  /\ Delivery => Takes("Delivery")
  /\ ObserveExpectation => Takes("EdgeSeen")
  /\ ObserveSource => Takes("SourceSeen")
  /\ ObservePermit => Takes("PermitSeen")
  /\ ObserveClosure => Takes("ClosureSeen")
  /\ CoalesceEvent => Takes("Coalesce")
  /\ CoalesceGlobal => Takes("Coalesce")
  /\ DeferGlobal => Takes("Defer")
  /\ FinalizeGlobal => Takes("Finalize")
  /\ ControlComplete => Takes("Control")
  /\ BindPlan => Takes("Bind")
  /\ SkipStalePlan => Takes("Bind")
  /\ BindNothing => Takes("Bind")
  /\ TransferStarts => Takes("Start")
  /\ TransferCompletes => Takes("Complete")
<1>1. ASSUME SourceReady PROVE Takes("Source")
  <2>1. PICK e, x, requests, progress : e.label = <<"Source", x>> /\ Handle(e, requests, progress)
    BY <1>1 DEF SourceReady
  <2>2. e.label[1] = "Source"
    BY <2>1
  <2> QED
    BY <2>1, <2>2 DEF Takes
<1>2. Stabilize => Takes("Stabilize")
  BY DEF Takes, Stabilize
<1>3. ASSUME Posted PROVE Takes("Posted")
  <2>1. PICK e, x, requests, progress : e.label = <<"Posted", x>> /\ Handle(e, requests, progress)
    BY <1>3 DEF Posted
  <2>2. e.label[1] = "Posted"
    BY <2>1
  <2> QED
    BY <2>1, <2>2 DEF Takes
<1>4. ASSUME Drained PROVE Takes("Drained")
  <2>1. PICK e, x, requests, progress : e.label = <<"Drained", x>> /\ Handle(e, requests, progress)
    BY <1>4 DEF Drained
  <2>2. e.label[1] = "Drained"
    BY <2>1
  <2> QED
    BY <2>1, <2>2 DEF Takes
<1>5. ASSUME Arrival PROVE Takes("Arrival")
  <2>1. PICK e, x, requests, progress : e.label = <<"Arrival", x>> /\ Handle(e, requests, progress)
    BY <1>5 DEF Arrival
  <2>2. e.label[1] = "Arrival"
    BY <2>1
  <2> QED
    BY <2>1, <2>2 DEF Takes
<1>6. StartService => Takes("Service")
  BY DEF Takes, StartService
<1>7. ServiceComplete => Takes("Served")
  BY DEF Takes, ServiceComplete
<1>8. ASSUME Delivery PROVE Takes("Delivery")
  <2>1. PICK e, x, requests, progress : e.label = <<"Delivery", x>> /\ Handle(e, requests, progress)
    BY <1>8 DEF Delivery
  <2>2. e.label[1] = "Delivery"
    BY <2>1
  <2> QED
    BY <2>1, <2>2 DEF Takes
<1>9. ASSUME ObserveExpectation PROVE Takes("EdgeSeen")
  <2>1. PICK e, x, requests, progress : e.label = <<"EdgeSeen", x>> /\ Handle(e, requests, progress)
    BY <1>9 DEF ObserveExpectation
  <2>2. e.label[1] = "EdgeSeen"
    BY <2>1
  <2> QED
    BY <2>1, <2>2 DEF Takes
<1>10. ASSUME ObserveSource PROVE Takes("SourceSeen")
  <2>1. PICK e, x, requests, progress : e.label = <<"SourceSeen", x>> /\ Handle(e, requests, progress)
    BY <1>10 DEF ObserveSource
  <2>2. e.label[1] = "SourceSeen"
    BY <2>1
  <2> QED
    BY <2>1, <2>2 DEF Takes
<1>11. ASSUME ObservePermit PROVE Takes("PermitSeen")
  <2>1. PICK e, x, requests, progress : e.label = <<"PermitSeen", x>> /\ Handle(e, requests, progress)
    BY <1>11 DEF ObservePermit
  <2>2. e.label[1] = "PermitSeen"
    BY <2>1
  <2> QED
    BY <2>1, <2>2 DEF Takes
<1>12. ObserveClosure => Takes("ClosureSeen")
  BY DEF Takes, ObserveClosure
<1>13. CoalesceEvent => Takes("Coalesce")
  BY DEF Takes, CoalesceEvent
<1>14. CoalesceGlobal => Takes("Coalesce")
  BY DEF Takes, CoalesceGlobal
<1>15. DeferGlobal => Takes("Defer")
  BY DEF Takes, DeferGlobal
<1>16. FinalizeGlobal => Takes("Finalize")
  BY DEF Takes, FinalizeGlobal
<1>17. ControlComplete => Takes("Control")
  BY DEF Takes, ControlComplete
<1>18. BindPlan => Takes("Bind")
  BY DEF Takes, BindPlan, Bindings
<1>19. SkipStalePlan => Takes("Bind")
  BY DEF Takes, SkipStalePlan, Bindings
<1>20. BindNothing => Takes("Bind")
  BY DEF Takes, BindNothing, Bindings
<1>21. ASSUME TransferStarts PROVE Takes("Start")
  <2>1. PICK e, x, requests, progress : e.label = <<"Start", x>> /\ Handle(e, requests, progress)
    BY <1>21 DEF TransferStarts
  <2>2. e.label[1] = "Start"
    BY <2>1
  <2> QED
    BY <2>1, <2>2 DEF Takes
<1>22. ASSUME TransferCompletes PROVE Takes("Complete")
  <2>1. PICK e, x, requests, progress : e.label = <<"Complete", x>> /\ Handle(e, requests, progress)
    BY <1>22 DEF TransferCompletes
  <2>2. e.label[1] = "Complete"
    BY <2>1
  <2> QED
    BY <2>1, <2>2 DEF Takes
<1> QED
  BY <1>1, <1>2, <1>3, <1>4, <1>5, <1>6, <1>7, <1>8, <1>9, <1>10, <1>11,
     <1>12, <1>13, <1>14, <1>15, <1>16, <1>17, <1>18, <1>19, <1>20, <1>21, <1>22

LEMMA TakenMoves ==
    ASSUME NEW kind, Takes(kind)
    PROVE  \E e, requests : /\ e.label[1] = kind /\ Moves({e}, requests)
                            /\ UNCHANGED <<now, begun>> /\ phase # 0
BY HandlersMove DEF Takes, Handle

\* A step that leaves the control channel alone and takes another event.
LEMMA ServiceWaits ==
    ASSUME ServiceInv, UNCHANGED <<now, begun, waiting, serverBusy, servicePending>>,
           NEW gone, NEW requests, Moves(gone, requests), \A g \in gone : g.label[1] # "Service"
    PROVE  ServiceInv'
BY DueStays DEF ServiceInv

LEMMA ServiceIsUntouched ==
    ASSUME ServiceInv, NEW kind, Takes(kind), kind # "Service",
           UNCHANGED <<waiting, serverBusy, servicePending>>
    PROVE  ServiceInv'
<1>1. PICK e, requests : /\ e.label[1] = kind /\ Moves({e}, requests)
                         /\ UNCHANGED <<now, begun>>
  BY TakenMoves
<1>2. \A g \in {e} : g.label[1] # "Service"
  BY <1>1
<1> QED
  BY <1>1, <1>2, ServiceWaits

LEMMA ServiceStep ==
    ASSUME ServiceInv, PhaseInv, NoEventIsOverdue, phase # 0 => begun, [ExchangeNext]_vars
    PROVE  ServiceInv'
<1>2. CASE SourceReady
  <2>1. UNCHANGED <<waiting, serverBusy, servicePending>>
    BY <1>2 DEF SourceReady, PublishRow
  <2> QED
    BY <1>2, <2>1, HandlersTake, ServiceIsUntouched
<1>3. CASE Stabilize \/ Posted \/ Drained \/ Delivery
  <2>1. UNCHANGED channelVars
    BY <1>3 DEF Stabilize, Posted, Drained, Delivery
  <2>2. UNCHANGED <<waiting, serverBusy, servicePending>>
    BY <2>1 DEF channelVars
  <2> QED
    BY <1>3, <2>2, HandlersTake, ServiceIsUntouched
<1>4. CASE ObserveExpectation \/ ObserveSource \/ ObservePermit \/ ObserveClosure
  <2>1. UNCHANGED channelVars
    BY <1>4 DEF ObserveExpectation, ObserveSource, ObservePermit, ObserveClosure
  <2>2. UNCHANGED <<waiting, serverBusy, servicePending>>
    BY <2>1 DEF channelVars
  <2> QED
    BY <1>4, <2>2, HandlersTake, ServiceIsUntouched
<1>5. CASE CoalesceEvent \/ CoalesceGlobal \/ DeferGlobal \/ FinalizeGlobal
  <2>1. UNCHANGED channelVars
    BY <1>5 DEF CoalesceEvent, CoalesceGlobal, DeferGlobal, FinalizeGlobal
  <2>2. UNCHANGED <<waiting, serverBusy, servicePending>>
    BY <2>1 DEF channelVars
  <2> QED
    BY <1>5, <2>2, HandlersTake, ServiceIsUntouched
<1>6. CASE ControlComplete \/ BindPlan \/ SkipStalePlan \/ BindNothing
  <2>1. UNCHANGED channelVars
    BY <1>6 DEF ControlComplete, BindPlan, SkipStalePlan, BindNothing
  <2>2. UNCHANGED <<waiting, serverBusy, servicePending>>
    BY <2>1 DEF channelVars
  <2> QED
    BY <1>6, <2>2, HandlersTake, ServiceIsUntouched
<1>7. CASE TransferStarts \/ TransferCompletes
  <2>1. UNCHANGED channelVars
    BY <1>7 DEF TransferStarts, TransferCompletes
  <2>2. UNCHANGED <<waiting, serverBusy, servicePending>>
    BY <2>1 DEF channelVars
  <2> QED
    BY <1>7, <2>2, HandlersTake, ServiceIsUntouched
<1>8. CASE Arrival \/ ServiceComplete
  <2>1. PICK e : /\ e.label[1] # "Service" /\ Handle(e, Service(servicePending), TRUE)
                 /\ waiting' # {} => serverBusy' \/ servicePending'
    <3>1. CASE Arrival
      <4>1. PICK e, s : /\ e.label = <<"Arrival", s>> /\ HandleArrival(s)
                        /\ Handle(e, Service(servicePending), TRUE)
        BY <3>1 DEF Arrival
      <4>2. e.label[1] # "Service"
        BY <4>1
      <4>3. waiting' # {} => serverBusy' \/ servicePending'
        BY <4>1 DEF HandleArrival, NeedsService
      <4> QED
        BY <4>1, <4>2, <4>3
    <3>2. CASE ServiceComplete
      <4>1. PICK e : /\ e.label[1] = "Served" /\ HandleServiceComplete
                     /\ Handle(e, Service(servicePending), TRUE)
        BY <3>2 DEF ServiceComplete
      <4>2. waiting' # {} => serverBusy' \/ servicePending'
        BY <4>1 DEF HandleServiceComplete, NeedsService
      <4>3. e.label[1] # "Service"
        BY <4>1
      <4> QED
        BY <4>1, <4>2, <4>3
    <3> QED
      BY <1>8, <3>1, <3>2
  <2>2. Moves({e}, Service(servicePending)) /\ UNCHANGED <<now, begun>> /\ phase # 0
    BY <2>1, HandlersMove DEF Handle
  <2>3. ASSUME servicePending' PROVE Due("Service")'
    <3>1. CASE servicePending
      <4>1. \A g \in {e} : g.label[1] # "Service"
        BY <2>1
      <4>2. Due("Service")
        BY <3>1 DEF ServiceInv
      <4> QED
        BY <2>2, <4>1, <4>2, DueStays
    <3>2. CASE ~servicePending
      <4>1. Event(now, 7, "Service", 0) \in Service(servicePending)
        BY <2>3, <3>2 DEF Service
      <4>2. Event(now, 7, "Service", 0).at = now /\ Event(now, 7, "Service", 0).label[1] = "Service"
        BY DEF Event
      <4> QED
        BY <2>2, <4>1, <4>2, DueStays
    <3> QED
      BY <3>1, <3>2
  <2> QED
    BY <2>1, <2>2, <2>3 DEF ServiceInv
<1>9. CASE StartService
  BY <1>9 DEF StartService, HandleService, ServiceInv
<1>10. CASE PrepareBatch \/ ConfirmBatch \/ EndSubmit
  <2>1. PICK requests, progress : Callback(requests, progress)
    BY <1>10 DEF PrepareBatch, ConfirmBatch, EndSubmit
  <2>2. Moves({}, requests) /\ UNCHANGED <<now, begun>>
    BY <2>1, HandlersMove DEF Callback
  <2>3. UNCHANGED <<waiting, serverBusy, servicePending>>
    BY <1>10 DEF PrepareBatch, ConfirmBatch, EndSubmit, channelVars
  <2> QED
    BY <2>2, <2>3, ServiceWaits
<1>11. CASE NextTime
  <2>1. ~servicePending
    BY <1>11, NothingIsDue DEF NextTime, NextTimestamp, ServiceInv
  <2> QED
    BY <1>11, <2>1 DEF NextTime, systemVars, channelVars, ServiceInv
<1>12. CASE EnterPhase \/ FinishRound \/ Terminated \/ UNCHANGED vars
  <2>1. UNCHANGED <<now, begun, queue, waiting, serverBusy, servicePending>>
    BY <1>12 DEF EnterPhase, FinishRound, Terminated, vars, systemVars, channelVars, kernelVars,
                 NextPhase, EndRound
  <2> QED
    BY <2>1 DEF ServiceInv, Due
<1> QED
  BY <1>2, <1>3, <1>4, <1>5, <1>6, <1>7, <1>8, <1>9, <1>10, <1>11, <1>12 DEF ExchangeNext, HandleEvent

----------------------------------------------------------------------------
(* The receivers. *)

\* A stabilization starts all that can start: what is left waits for a server, for
\* memory or behind another task.
LEMMA NothingElseStarts ==
    ASSUME ReceiverTypes, StabilizeReceivers
    PROVE  PostStarts' = {} /\ DrainStarts' = {}
<1>1. /\ job' = [t \in Tasks |-> IF t \in DrainStarts THEN "DRAINING"
                                 ELSE IF t \in PostStarts THEN "POSTING" ELSE job[t]]
      /\ drainer' = [d \in Ranks |-> IF \E t \in DrainStarts : Dst[t] = d
                                     THEN CHOOSE t \in DrainStarts : Dst[t] = d ELSE drainer[d]]
      /\ poster' = [d \in Ranks |-> IF \E t \in PostStarts : Dst[t] = d
                                    THEN CHOOSE t \in PostStarts : Dst[t] = d ELSE poster[d]]
      /\ reserved' = [d \in Ranks |-> reserved[d] + TotalBytes({t \in PostStarts : Dst[t] = d})]
      /\ UNCHANGED <<expectedAt, registeredAt, payloadAt, transferredAt, used>>
  BY DEF StabilizeReceivers
<1>2. /\ \A t \in PostStarts : t \in Tasks /\ job[t] = "WAITING"
      /\ \A t \in DrainStarts : t \in Tasks /\ job[t] = "TRANSFERRED"
  BY DEF PostStarts, DrainStarts, Eligible
<1>3. \A t \in Tasks : /\ job'[t] = "TRANSFERRED" => job[t] = "TRANSFERRED"
                       /\ job'[t] = "WAITING" => job[t] = "WAITING"
  BY <1>1
<1>4. ASSUME NEW t \in DrainStarts' PROVE FALSE
  <2>1. /\ t \in Tasks /\ Dst[t] \in Ranks /\ job'[t] = "TRANSFERRED" /\ drainer'[Dst[t]] = NoTask
        /\ \A u \in Tasks : job'[u] = "TRANSFERRED" /\ Dst[u] = Dst[t] /\ u # t => DrainsBefore(t, u)'
    BY <1>4, TasksHaveEnds DEF DrainStarts
  <2>2. ~(\E u \in DrainStarts : Dst[u] = Dst[t]) /\ drainer[Dst[t]] = NoTask
    <3>1. CASE \E u \in DrainStarts : Dst[u] = Dst[t]
      <4> DEFINE first == CHOOSE u \in DrainStarts : Dst[u] = Dst[t]
      <4>1. first \in Tasks
        BY <1>2, <3>1
      <4>2. drainer'[Dst[t]] = first
        BY <1>1, <2>1, <3>1
      <4> QED
        BY <2>1, <4>1, <4>2, ReceiverAssumption
    <3>2. CASE ~\E u \in DrainStarts : Dst[u] = Dst[t]
      BY <1>1, <2>1, <3>2
    <3> QED
      BY <3>1, <3>2
  <2>3. ASSUME NEW u \in Tasks, job[u] = "TRANSFERRED", Dst[u] = Dst[t], u # t
        PROVE  DrainsBefore(t, u)
    <3>1. job'[u] = "TRANSFERRED"
      BY <1>1, <1>2, <2>2, <2>3
    <3>2. DrainsBefore(t, u)'
      BY <2>1, <2>3, <3>1
    <3> QED
      BY <1>1, <3>2 DEF DrainsBefore
  <2>4. t \in DrainStarts
    BY <1>3, <2>1, <2>2, <2>3 DEF DrainStarts
  <2> QED
    BY <2>2, <2>4
<1>5. ASSUME NEW t \in PostStarts' PROVE FALSE
  <2>1. /\ t \in Tasks /\ Dst[t] \in Ranks /\ Eligible(t)' /\ poster'[Dst[t]] = NoTask /\ Fits(t)'
        /\ \A u \in Tasks : Eligible(u)' /\ Dst[u] = Dst[t] /\ u # t => PostsBefore(t, u)'
    BY <1>5, TasksHaveEnds DEF PostStarts
  <2>2. ~(\E u \in PostStarts : Dst[u] = Dst[t]) /\ poster[Dst[t]] = NoTask
    <3>1. CASE \E u \in PostStarts : Dst[u] = Dst[t]
      <4> DEFINE first == CHOOSE u \in PostStarts : Dst[u] = Dst[t]
      <4>1. first \in Tasks
        BY <1>2, <3>1
      <4>2. poster'[Dst[t]] = first
        BY <1>1, <2>1, <3>1
      <4> QED
        BY <2>1, <4>1, <4>2, ReceiverAssumption
    <3>2. CASE ~\E u \in PostStarts : Dst[u] = Dst[t]
      BY <1>1, <2>1, <3>2
    <3> QED
      BY <3>1, <3>2
  <2>3. Eligible(t)
    BY <1>1, <1>3, <2>1 DEF Eligible, Requested
  <2>4. Fits(t)
    <3>1. {u \in PostStarts : Dst[u] = Dst[t]} = {}
      BY <2>2
    <3>2. reserved'[Dst[t]] = reserved[Dst[t]] + TotalBytes({})
      BY <1>1, <2>1, <3>1
    <3>3. reserved'[Dst[t]] = reserved[Dst[t]]
      BY <2>1, <3>2, TotalUnfolds DEF ReceiverTypes
    <3>4. Bytes[t] <= Capacity[Dst[t]] - (reserved'[Dst[t]] + used'[Dst[t]])
      BY <2>1 DEF Fits
    <3> QED
      BY <1>1, <3>3, <3>4 DEF Fits
  <2>5. ASSUME NEW u \in Tasks, Eligible(u), Dst[u] = Dst[t], u # t
        PROVE  PostsBefore(t, u)
    <3>1. job'[u] = "WAITING"
      BY <1>1, <1>2, <2>2, <2>5 DEF Eligible
    <3>2. Eligible(u)'
      BY <1>1, <2>5, <3>1 DEF Eligible, Requested
    <3>3. PostsBefore(t, u)'
      BY <2>1, <2>5, <3>2
    <3> QED
      BY <1>1, <3>3 DEF PostsBefore, EligibleAt, RequestedAt, Later
  <2>6. t \in PostStarts
    BY <2>1, <2>2, <2>3, <2>4, <2>5 DEF PostStarts
  <2> QED
    BY <2>2, <2>6
<1> QED
  BY <1>4, <1>5

\* A step that leaves the receivers alone and takes another event.
LEMMA ReceiversWait ==
    ASSUME ReceiversInv, UNCHANGED <<now, begun, receiverVars, stabilizing>>,
           NEW gone, NEW requests, Moves(gone, requests), \A g \in gone : g.label[1] # "Stabilize"
    PROVE  ReceiversInv'
<1>1. PostStarts' = PostStarts /\ DrainStarts' = DrainStarts
  BY DEF PostStarts, DrainStarts, Eligible, Requested, PostsBefore, DrainsBefore, EligibleAt,
         RequestedAt, Later, Fits, receiverVars
<1>2. stabilizing => Due("Stabilize")'
  BY DueStays DEF ReceiversInv
<1> QED
  BY <1>1, <1>2 DEF ReceiversInv

LEMMA ReceiversAreUntouched ==
    ASSUME ReceiversInv, NEW kind, Takes(kind), kind # "Stabilize",
           UNCHANGED <<receiverVars, stabilizing>>
    PROVE  ReceiversInv'
<1>1. PICK e, requests : /\ e.label[1] = kind /\ Moves({e}, requests)
                         /\ UNCHANGED <<now, begun>>
  BY TakenMoves
<1>2. \A g \in {e} : g.label[1] # "Stabilize"
  BY <1>1
<1> QED
  BY <1>1, <1>2, ReceiversWait

\* A handler that changes what the receivers look at calls them.
LEMMA ReceiversAreCalled ==
    ASSUME ReceiversInv, phase # 0 => begun, stabilizing', NEW e, NEW requests,
           Handle(e, requests, TRUE), e.label[1] # "Stabilize", Stabilization \subseteq requests
    PROVE  ReceiversInv'
<1>2. Moves({e}, requests) /\ UNCHANGED <<now, begun>> /\ begun
  BY HandlersMove DEF Handle
<1>3. \A g \in {e} : g.label[1] # "Stabilize"
  OBVIOUS
<1>1. Due("Stabilize")'
  <2>1. CASE stabilizing
    BY <1>2, <1>3, <2>1, DueStays DEF ReceiversInv
  <2>2. CASE ~stabilizing
    <3>1. Event(now, 4, "Stabilize", 0) \in requests
      BY <2>2 DEF Stabilization
    <3>2. Event(now, 4, "Stabilize", 0).at = now /\ Event(now, 4, "Stabilize", 0).label[1] = "Stabilize"
      BY DEF Event
    <3> QED
      BY <1>2, <3>1, <3>2, DueStays
  <2> QED
    BY <2>1, <2>2
<1> QED
  BY <1>1, <1>2 DEF ReceiversInv

LEMMA ReceiversStep ==
    ASSUME ReceiversInv, ReceiverTypes, PhaseInv, NoEventIsOverdue, phase # 0 => begun,
           [ExchangeNext]_vars
    PROVE  ReceiversInv'
<1>1. CASE SourceReady \/ Posted \/ Drained \/ Delivery \/ ObserveExpectation \/ TransferCompletes
  <2>1. CASE SourceReady
    <3>1. PICK e, s, news : /\ e.label = <<"Source", s>> /\ stabilizing'
                         /\ Handle(e, news \cup Stabilization, TRUE)
      BY <2>1 DEF SourceReady
    <3>2. e.label[1] # "Stabilize" /\ Stabilization \subseteq news \cup Stabilization
      BY <3>1
    <3> QED
      BY <3>1, <3>2, ReceiversAreCalled
  <2>2. CASE Posted
    <3>1. PICK e, t, news : /\ e.label = <<"Posted", t>> /\ stabilizing'
                         /\ Handle(e, news \cup Stabilization, TRUE)
      BY <2>2 DEF Posted
    <3>2. e.label[1] # "Stabilize" /\ Stabilization \subseteq news \cup Stabilization
      BY <3>1
    <3> QED
      BY <3>1, <3>2, ReceiversAreCalled
  <2>3. CASE Drained
    <3>1. PICK e, t : /\ e.label = <<"Drained", t>> /\ stabilizing'
                         /\ Handle(e, Stabilization, TRUE)
      BY <2>3 DEF Drained
    <3>2. e.label[1] # "Stabilize" /\ Stabilization \subseteq Stabilization
      BY <3>1
    <3> QED
      BY <3>1, <3>2, ReceiversAreCalled
  <2>4. CASE Delivery
    <3>1. PICK e, s, edges, closure : /\ e.label = <<"Delivery", s>> /\ stabilizing'
                         /\ Handle(e, edges \cup closure \cup Stabilization, TRUE)
      BY <2>4 DEF Delivery
    <3>2. e.label[1] # "Stabilize" /\ Stabilization \subseteq edges \cup closure \cup Stabilization
      BY <3>1
    <3> QED
      BY <3>1, <3>2, ReceiversAreCalled
  <2>5. CASE ObserveExpectation
    <3>1. PICK e, edge : /\ e.label = <<"EdgeSeen", edge>> /\ stabilizing'
                         /\ Handle(e, Coalescing \cup Stabilization, TRUE)
      BY <2>5 DEF ObserveExpectation
    <3>2. e.label[1] # "Stabilize" /\ Stabilization \subseteq Coalescing \cup Stabilization
      BY <3>1
    <3> QED
      BY <3>1, <3>2, ReceiversAreCalled
  <2>6. CASE TransferCompletes
    <3>1. PICK e, t : /\ e.label = <<"Complete", t>> /\ stabilizing'
                         /\ Handle(e, Stabilization, TRUE)
      BY <2>6 DEF TransferCompletes
    <3>2. e.label[1] # "Stabilize" /\ Stabilization \subseteq Stabilization
      BY <3>1
    <3> QED
      BY <3>1, <3>2, ReceiversAreCalled
  <2> QED
    BY <1>1, <2>1, <2>2, <2>3, <2>4, <2>5, <2>6
<1>2. CASE Stabilize
  BY <1>2, NothingElseStarts DEF Stabilize, ReceiversInv
<1>3. CASE Arrival \/ StartService \/ ServiceComplete
  <2>1. UNCHANGED <<receiverVars, stabilizing>>
    BY <1>3 DEF Arrival, StartService, ServiceComplete
  <2> QED
    BY <1>3, <2>1, HandlersTake, ReceiversAreUntouched
<1>4. CASE ObserveSource \/ ObservePermit \/ ObserveClosure
  <2>1. UNCHANGED <<receiverVars, stabilizing>>
    BY <1>4 DEF ObserveSource, ObservePermit, ObserveClosure
  <2> QED
    BY <1>4, <2>1, HandlersTake, ReceiversAreUntouched
<1>5. CASE CoalesceEvent \/ CoalesceGlobal \/ DeferGlobal \/ FinalizeGlobal
  <2>1. UNCHANGED <<receiverVars, stabilizing>>
    BY <1>5 DEF CoalesceEvent, CoalesceGlobal, DeferGlobal, FinalizeGlobal
  <2> QED
    BY <1>5, <2>1, HandlersTake, ReceiversAreUntouched
<1>6. CASE ControlComplete \/ BindPlan \/ SkipStalePlan \/ BindNothing \/ TransferStarts
  <2>1. UNCHANGED <<receiverVars, stabilizing>>
    BY <1>6 DEF ControlComplete, BindPlan, SkipStalePlan, BindNothing, TransferStarts
  <2> QED
    BY <1>6, <2>1, HandlersTake, ReceiversAreUntouched
<1>7. CASE PrepareBatch \/ ConfirmBatch \/ EndSubmit
  <2>1. PICK requests, progress : Callback(requests, progress)
    BY <1>7 DEF PrepareBatch, ConfirmBatch, EndSubmit
  <2>2. Moves({}, requests) /\ UNCHANGED <<now, begun>>
    BY <2>1, HandlersMove DEF Callback
  <2>3. UNCHANGED <<receiverVars, stabilizing>>
    BY <1>7 DEF PrepareBatch, ConfirmBatch, EndSubmit
  <2> QED
    BY <2>2, <2>3, ReceiversWait
<1>8. CASE NextTime
  <2>1. ~stabilizing /\ PostStarts = {} /\ DrainStarts = {}
    BY <1>8, NothingIsDue DEF NextTime, NextTimestamp, ReceiversInv
  <2>2. UNCHANGED <<receiverVars, stabilizing>>
    BY <1>8 DEF NextTime, systemVars
  <2>3. PostStarts' = PostStarts /\ DrainStarts' = DrainStarts
    BY <2>2 DEF PostStarts, DrainStarts, Eligible, Requested, PostsBefore, DrainsBefore, EligibleAt,
                RequestedAt, Later, Fits, receiverVars
  <2> QED
    BY <2>1, <2>2, <2>3 DEF ReceiversInv
<1>9. CASE EnterPhase \/ FinishRound \/ Terminated \/ UNCHANGED vars
  <2>1. UNCHANGED <<now, begun, queue, receiverVars, stabilizing>>
    BY <1>9 DEF EnterPhase, FinishRound, Terminated, vars, systemVars, kernelVars, NextPhase, EndRound
  <2>2. Moves({}, {})
    BY <2>1 DEF Moves, Stamped
  <2> QED
    BY <2>1, <2>2, ReceiversWait
<1> QED
  BY <1>1, <1>2, <1>3, <1>4, <1>5, <1>6, <1>7, <1>8, <1>9 DEF ExchangeNext, HandleEvent

----------------------------------------------------------------------------
(* The submission. *)

\* Nothing is taken from an empty order.
LEMMA NothingIsTaken ==
    ASSUME NEW idle, NEW lanes
    PROVE  BatchOf(<<>>, idle, lanes) = {}
<1> DEFINE last(z) == CHOOSE x \in z : \A y \in z : x >= y
           add(t, selected) == IF CanAdd(selected, t, idle, lanes) THEN selected \cup {t} ELSE selected
           it == CHOOSE it : it = [z \in SUBSET (DOMAIN <<>>) |->
                                     IF z = {} THEN {} ELSE add(<<>>[last(z)], it[z \ {last(z)}])]
           none == [z \in SUBSET (DOMAIN <<>>) |-> {}]
<1>1. BatchOf(<<>>, idle, lanes) = it[DOMAIN <<>>]
  BY DEF BatchOf, FoldLeft, MapThenFoldSet, Max
<1>2. DOMAIN <<>> = {}
  OBVIOUS
<1> HIDE DEF add, last
<1>3. none = [z \in SUBSET (DOMAIN <<>>) |->
                IF z = {} THEN {} ELSE add(<<>>[last(z)], none[z \ {last(z)}])]
  BY <1>2
<1> HIDE DEF none
<1>4. it = [z \in SUBSET (DOMAIN <<>>) |->
              IF z = {} THEN {} ELSE add(<<>>[last(z)], it[z \ {last(z)}])]
  BY <1>3
<1> HIDE DEF it
<1>5. it[{}] = {}
  BY <1>2, <1>4
<1> QED
  BY <1>1, <1>2, <1>5

\* What the submission looks at.
LEMMA ReadyTasksStay ==
    ASSUME UNCHANGED <<planStatus, remaining>>,
           planStatus = "ACTIVE" =>
               \A t \in DOMAIN remaining : state'[t] = "READY" <=> state[t] = "READY"
    PROVE  ReadyTasks' = ReadyTasks
<1>1. CASE planStatus = "ACTIVE"
  <2>1. {t \in DOMAIN remaining : state[t] = "READY"}' = {t \in DOMAIN remaining : state[t] = "READY"}
    BY <1>1
  <2> QED
    BY <1>1, <2>1 DEF ReadyTasks
<1>2. CASE planStatus # "ACTIVE"
  BY <1>2 DEF ReadyTasks
<1> QED
  BY <1>1, <1>2

LEMMA NextBatchStays ==
    ASSUME ReadyTasks' = ReadyTasks, UNCHANGED <<busySrc, busyDst, busyNics, busyLanes>>
    PROVE  NextBatch' = NextBatch
<1>1. {t \in Tasks : Idle(t)}' = {t \in Tasks : Idle(t)}
  BY DEF Idle
<1> QED
  BY <1>1 DEF NextBatch

LEMMA NothingChanges ==
    ASSUME UNCHANGED <<authorityVars, dataVars>>
    PROVE  ReadyTasks' = ReadyTasks /\ NextBatch' = NextBatch
<1>1. UNCHANGED <<planStatus, remaining, state, busySrc, busyDst, busyNics, busyLanes>>
  BY DEF authorityVars, dataVars
<1>2. ReadyTasks' = ReadyTasks
  BY <1>1, ReadyTasksStay
<1> QED
  BY <1>1, <1>2, NextBatchStays

\* A handler may change what fits if it makes progress, and what is ready if it
\* makes the phase dirty.
LEMMA HandlersReport ==
    ASSUME SubmitInv, UNCHANGED <<begun, phase, cycle, submitted>>, phase # 0,
           moved' = moved \/ moved' = TRUE,
           moved' = TRUE \/ NextBatch' = NextBatch,
           dirty' = TRUE \/ (dirty' = dirty /\ ReadyTasks' = ReadyTasks)
    PROVE  SubmitInv'
BY DEF SubmitInv

LEMMA SubmissionIsUntouched ==
    ASSUME SubmitInv, NEW kind, Takes(kind), UNCHANGED <<authorityVars, dataVars, submitVars>>
    PROVE  SubmitInv'
<1>1. ReadyTasks' = ReadyTasks /\ NextBatch' = NextBatch
  BY NothingChanges
<1>2. UNCHANGED <<dirty, submitted>>
  BY DEF submitVars
<1>3. PICK progress : /\ phase # 0 /\ moved' = (moved \/ progress)
                      /\ UNCHANGED <<begun, phase, cycle>>
  BY DEF Takes, Handle
<1>4. CASE moved \/ progress
  BY <1>1, <1>2, <1>3, <1>4 DEF SubmitInv
<1>5. CASE ~(moved \/ progress)
  BY <1>1, <1>2, <1>3, <1>5 DEF SubmitInv
<1> QED
  BY <1>4, <1>5

\* A handler that makes progress.
LEMMA SubmissionIsTold ==
    ASSUME SubmitInv, NEW e, NEW requests, Handle(e, requests, TRUE), submitted' = submitted,
           dirty' = TRUE \/ (dirty' = dirty /\ ReadyTasks' = ReadyTasks)
    PROVE  SubmitInv'
<1>1. phase # 0 /\ moved' = TRUE /\ UNCHANGED <<begun, phase, cycle>>
  BY DEF Handle
<1> QED
  BY <1>1, HandlersReport

\* The tasks of an edge are registered before a plan has them.
LEMMA ExpectationKeepsSubmission ==
    ASSUME SubmitInv, TellsInv, PlanInv, ViewsType, ObserveExpectation
    PROVE  SubmitInv'
<1>1. PICK e, edge :
         LET tasks == {t \in Tasks : Edge(t) = edge} IN
         /\ RegisterTasks(tasks, {t \in tasks : Src[t] \in sourceKnown})
         /\ Handle(e, Coalescing \cup Stabilization, TRUE)
         /\ UNCHANGED submitVars
  BY DEF ObserveExpectation
<1> DEFINE sourced == {t \in Tasks : Edge(t) = edge /\ Src[t] \in sourceKnown}
<1>2. /\ sourceReady' = sourceReady \cup sourced
      /\ state' = Refreshed(permits, sourceReady')
      /\ UNCHANGED <<planStatus, remaining>>
  BY <1>1 DEF RegisterTasks
<1>3. ASSUME planStatus = "ACTIVE", NEW t \in DOMAIN remaining
      PROVE  state'[t] = state[t]
    <2>1. t \in canonical /\ t \in Tasks
      BY <1>3 DEF PlanInv, Unfrozen, ViewsType
    <2>2. t \in sourced => t \in sourceReady
      BY <2>1 DEF TellsInv
    <2>3. state[t] = "PENDING" => ~(t \in permits /\ t \in sourceReady')
      BY <1>2, <2>1, <2>2 DEF TellsInv
    <2> QED
      BY <1>2, <2>1, <2>3 DEF Refreshed
<1>4. ReadyTasks' = ReadyTasks
  BY <1>2, <1>3, ReadyTasksStay
<1> QED
  BY <1>1, <1>4, SubmissionIsTold DEF submitVars

\* A source without registered tasks is no progress, and changes no task.
LEMMA SourceNewsKeepsSubmission ==
    ASSUME SubmitInv, TellsInv, state \in [Tasks -> States], ObserveSource
    PROVE  SubmitInv'
<1>1. PICK e, s :
         LET tasks == {t \in canonical : Src[t] = s} IN
         /\ NoteSourcePayloadReady(tasks)
         /\ Handle(e, Coalescing, tasks # {})
         /\ dirty' = TRUE
         /\ UNCHANGED <<dataVars, submitted>>
  BY DEF ObserveSource
<1> DEFINE tasks == {t \in canonical : Src[t] = s}
<1>2. CASE tasks # {}
  <2>1. Handle(e, Coalescing, TRUE)
    BY <1>1, <1>2 DEF Handle
  <2> QED
    BY <1>1, <2>1, SubmissionIsTold
<1>3. CASE tasks = {}
  <2>1. /\ state' = Refreshed(permits, sourceReady) /\ UNCHANGED <<planStatus, remaining>>
    BY <1>1, <1>3 DEF NoteSourcePayloadReady
  <2>2. \A t \in Tasks : Refreshed(permits, sourceReady)[t] = state[t]
    BY DEF TellsInv, Refreshed
  <2>3. state' = state
    BY <2>1, <2>2 DEF Refreshed
  <2>4. ReadyTasks' = ReadyTasks
    BY <2>1, <2>3, ReadyTasksStay
  <2>5. NextBatch' = NextBatch
    BY <1>1, <2>4, NextBatchStays DEF dataVars
  <2>6. phase # 0 /\ moved' = (moved \/ FALSE) /\ UNCHANGED <<begun, phase, cycle>>
    BY <1>1, <1>3 DEF Handle
  <2> QED
    BY <1>1, <2>4, <2>5, <2>6 DEF SubmitInv
<1> QED
  BY <1>2, <1>3

\* The loop ends a callback and a round only when there is nothing left to take.
LEMMA LoopKeepsSubmission ==
    ASSUME SubmitInv, PhaseInv, phase # 0 => begun, NextTime \/ EnterPhase \/ FinishRound
    PROVE  SubmitInv'
<1>1. UNCHANGED <<authorityVars, dataVars, dirty>>
  BY DEF NextTime, EnterPhase, FinishRound, systemVars
<1>2. ReadyTasks' = ReadyTasks /\ NextBatch' = NextBatch
  BY <1>1, NothingChanges
<1>3. Submit = 7 /\ phase \in 0 .. 8
  BY ExchangeAssumption DEF PhaseInv, KernelInv, KernelTypeOK
<1>4. CASE NextTime
  BY <1>1, <1>2, <1>3, <1>4 DEF NextTime, NextTimestamp, SubmitInv
<1>5. CASE EnterPhase
  <2>1. /\ phase \in 1 .. 7 /\ phase' \in (phase + 1) .. 8 /\ submitted' = FALSE
        /\ \A between \in (phase + 1) .. (phase' - 1) : ~Occupied(between)
        /\ UNCHANGED <<begun, moved, cycle>> /\ (phase = Submit => ~Submitting)
    BY <1>5 DEF EnterPhase, NextPhase
  <2>2. ASSUME phase' > Submit PROVE NextBatch = {} \/ moved
    <3>1. phase = Submit
      <4>1. Occupied(Submit)
        BY DEF Occupied
      <4>2. Submit \notin (phase + 1) .. (phase' - 1)
        BY <2>1, <4>1
      <4>3. \A p, q, s \in Nat : p < s /\ s < q => s \in (p + 1) .. (q - 1)
        OBVIOUS
      <4>4. phase \in Nat /\ phase' \in Nat /\ Submit \in Nat /\ Submit < phase'
        BY <1>3, <2>1, <2>2
      <4>5. ~(phase < Submit)
        BY <4>2, <4>3, <4>4
      <4>6. ~(7 < phase)
        BY <2>1
      <4> QED
        BY <1>3, <4>4, <4>5, <4>6
    <3>2. CASE submitted
      BY <3>2 DEF SubmitInv
    <3>3. CASE ~dirty
      BY <3>3, NothingIsTaken DEF SubmitInv, NextBatch
    <3> QED
      BY <2>1, <3>1, <3>2, <3>3 DEF Submitting
  <2> QED
    BY <1>1, <1>2, <1>3, <2>1, <2>2 DEF SubmitInv
<1>6. CASE FinishRound
  <2>1. /\ phase = 8 /\ moved' = FALSE /\ submitted' = submitted /\ phase' \in {0, 1}
        /\ phase' = 0 /\ ~cycle' => ~moved
    BY <1>6 DEF FinishRound, EndRound
  <2>2. ~submitted /\ (NextBatch = {} \/ moved)
    BY <1>3, <2>1 DEF SubmitInv
  <2> QED
    BY <1>1, <1>2, <1>3, <2>1, <2>2 DEF SubmitInv
<1> QED
  BY <1>4, <1>5, <1>6

LEMMA SubmitStep ==
    ASSUME SubmitInv, TellsInv, PlanInv, ViewsType, state \in [Tasks -> States], PhaseInv,
           phase # 0 => begun, [ExchangeNext]_vars
    PROVE  SubmitInv'
<1>1. CASE SourceReady \/ Stabilize \/ Posted \/ Drained
  <2>1. UNCHANGED <<authorityVars, dataVars, submitVars>>
    BY <1>1 DEF SourceReady, Stabilize, Posted, Drained
  <2> QED
    BY <1>1, <2>1, HandlersTake, SubmissionIsUntouched
<1>2. CASE Arrival \/ StartService \/ ServiceComplete \/ Delivery
  <2>1. UNCHANGED <<authorityVars, dataVars, submitVars>>
    BY <1>2 DEF Arrival, StartService, ServiceComplete, Delivery
  <2> QED
    BY <1>2, <2>1, HandlersTake, SubmissionIsUntouched
<1>3. CASE ObserveExpectation
  BY <1>3, ExpectationKeepsSubmission
<1>4. CASE ObserveSource
  BY <1>4, SourceNewsKeepsSubmission
<1>5. CASE ObservePermit \/ BindPlan \/ TransferCompletes
  <2>1. PICK e, requests : Handle(e, requests, TRUE)
    BY <1>5 DEF ObservePermit, BindPlan, TransferCompletes
  <2>2. dirty' = TRUE /\ submitted' = submitted
    BY <1>5 DEF ObservePermit, BindPlan, TransferCompletes
  <2> QED
    BY <2>1, <2>2, SubmissionIsTold
<1>6. CASE ObserveClosure \/ CoalesceEvent \/ CoalesceGlobal \/ DeferGlobal \/ FinalizeGlobal
  <2>1. UNCHANGED <<authorityVars, dataVars, submitVars>>
    BY <1>6 DEF ObserveClosure, CoalesceEvent, CoalesceGlobal, DeferGlobal, FinalizeGlobal
  <2> QED
    BY <1>6, <2>1, HandlersTake, SubmissionIsUntouched
<1>7. CASE ControlComplete \/ SkipStalePlan \/ BindNothing
  <2>1. UNCHANGED <<authorityVars, dataVars, submitVars>>
    BY <1>7 DEF ControlComplete, SkipStalePlan, BindNothing
  <2> QED
    BY <1>7, <2>1, HandlersTake, SubmissionIsUntouched
<1>8. CASE TransferStarts
  <2>1. PICK e, requests, t : MarkRunning(t) /\ Handle(e, requests, TRUE) /\ UNCHANGED submitVars
    BY <1>8 DEF TransferStarts
  <2>2. /\ state[t] = "COMMITTED" /\ state' = [state EXCEPT ![t] = "RUNNING"]
        /\ UNCHANGED <<planStatus, remaining>>
    BY <2>1 DEF MarkRunning
  <2>3. planStatus = "ACTIVE" => \A u \in DOMAIN remaining : state'[u] = "READY" <=> state[u] = "READY"
    <3>1. planStatus = "ACTIVE" => DOMAIN remaining \subseteq Tasks
      BY DEF PlanInv, Unfrozen, ViewsType
    <3> QED
      BY <2>2, <3>1
  <2>4. ReadyTasks' = ReadyTasks
    BY <2>2, <2>3, ReadyTasksStay
  <2> QED
    BY <2>1, <2>4, SubmissionIsTold DEF submitVars
<1>9. CASE PrepareBatch \/ ConfirmBatch
  <2>1. /\ dirty /\ dirty' = dirty /\ ~submitted /\ submitted' = submitted
        /\ phase = Submit /\ UNCHANGED <<begun, phase, cycle>>
    BY <1>9 DEF PrepareBatch, ConfirmBatch, Submitting, Callback
  <2>2. Submit = 7
    BY ExchangeAssumption
  <2> QED
    BY <2>1, <2>2 DEF SubmitInv
<1>10. CASE EndSubmit
  <2>1. /\ NextBatch = {} /\ dirty' = (ReadyTasks # <<>>) /\ phase = Submit
        /\ UNCHANGED <<authorityVars, dataVars, phase>>
    BY <1>10 DEF EndSubmit, Callback
  <2>2. ReadyTasks' = ReadyTasks /\ NextBatch' = NextBatch
    BY <2>1, NothingChanges
  <2>3. Submit = 7
    BY ExchangeAssumption
  <2>4. ReadyTasks' # <<>> => dirty'
    BY <2>1, <2>2
  <2>5. NextBatch' = {} /\ phase' = Submit /\ phase' # 0
    BY <2>1, <2>2, <2>3
  <2> QED
    BY <2>4, <2>5 DEF SubmitInv
<1>11. CASE NextTime \/ EnterPhase \/ FinishRound
  BY <1>11, LoopKeepsSubmission
<1>12. CASE Terminated \/ UNCHANGED vars
  <2>1. UNCHANGED <<authorityVars, dataVars, dirty, submitted, phase, moved, begun, cycle>>
    BY <1>12 DEF Terminated, vars, submitVars, kernelVars
  <2>2. ReadyTasks' = ReadyTasks /\ NextBatch' = NextBatch
    BY <2>1, NothingChanges
  <2> QED
    BY <2>1, <2>2 DEF SubmitInv
<1> QED
  BY <1>1, <1>2, <1>3, <1>4, <1>5, <1>6, <1>7, <1>8, <1>9, <1>10, <1>11, <1>12
     DEF ExchangeNext, HandleEvent

----------------------------------------------------------------------------
(* What the scheduler was told. *)

\* No step makes a task pending again, and those that tell refresh at once.
LEMMA TellsStay ==
    ASSUME TellsInv, UNCHANGED <<permits, sourceReady, sourceKnown, canonical>>,
           \A t \in Tasks : state'[t] = "PENDING" => state[t] = "PENDING"
    PROVE  TellsInv'
BY DEF TellsInv

LEMMA TellsStep ==
    ASSUME TellsInv, ViewsType, AgreeInv, [ExchangeNext]_vars
    PROVE  TellsInv'
<1>1. ASSUME NEW permitted, NEW sourced, state' = Refreshed(permitted, sourced), NEW t \in Tasks,
             t \in permitted, t \in sourced
      PROVE  state'[t] # "PENDING"
  BY <1>1 DEF Refreshed
<1>2. CASE ObserveExpectation
  <2>1. PICK edge :
          LET tasks == {t \in Tasks : Edge(t) = edge} IN
          /\ RegisterTasks(tasks, {t \in tasks : Src[t] \in sourceKnown})
          /\ UNCHANGED sourceKnown
    BY <1>2 DEF ObserveExpectation
  <2>2. /\ canonical' = canonical \cup {t \in Tasks : Edge(t) = edge}
        /\ sourceReady' = sourceReady \cup {t \in Tasks : Edge(t) = edge /\ Src[t] \in sourceKnown}
        /\ state' = Refreshed(permits, sourceReady') /\ UNCHANGED <<permits, sourceKnown>>
    BY <2>1 DEF RegisterTasks
  <2>3. \A t \in Tasks : t \in permits' /\ t \in sourceReady' => state'[t] # "PENDING"
    BY <1>1, <2>2
  <2>4. \A t \in canonical' : Src[t] \in sourceKnown' => t \in sourceReady'
    BY <2>2 DEF TellsInv
  <2> QED
    BY <2>3, <2>4 DEF TellsInv
<1>3. CASE ObserveSource
  <2>1. PICK s : /\ NoteSourcePayloadReady({t \in canonical : Src[t] = s})
                 /\ sourceKnown' = sourceKnown \cup {s}
    BY <1>3 DEF ObserveSource
  <2>2. /\ sourceReady' = sourceReady \cup {t \in canonical : Src[t] = s}
        /\ state' = Refreshed(permits, sourceReady') /\ UNCHANGED <<permits, canonical>>
    BY <2>1 DEF NoteSourcePayloadReady
  <2>3. \A t \in Tasks : t \in permits' /\ t \in sourceReady' => state'[t] # "PENDING"
    BY <1>1, <2>2
  <2>4. \A t \in canonical' : Src[t] \in sourceKnown' => t \in sourceReady'
    BY <2>1, <2>2 DEF TellsInv
  <2> QED
    BY <2>3, <2>4 DEF TellsInv
<1>4. CASE ObservePermit
  <2>1. PICK t : NotePermit(t) /\ UNCHANGED sourceKnown
    BY <1>4 DEF ObservePermit
  <2>2. /\ state' = Refreshed(permits', sourceReady) /\ UNCHANGED <<sourceReady, canonical>>
    BY <2>1 DEF NotePermit
  <2>3. \A u \in Tasks : u \in permits' /\ u \in sourceReady' => state'[u] # "PENDING"
    BY <1>1, <2>2
  <2> QED
    BY <2>1, <2>2, <2>3 DEF TellsInv
<1>5. CASE BindPlan \/ ConfirmBatch \/ TransferStarts \/ TransferCompletes
  <2>1. UNCHANGED <<permits, sourceReady, sourceKnown, canonical>>
    BY <1>5 DEF BindPlan, ConfirmBatch, TransferStarts, TransferCompletes, schedulerVars,
                ActivatePlan, CommitBatch, MarkRunning, MarkCompleted
  <2>2. \A t \in Tasks : state'[t] = "PENDING" => state[t] = "PENDING"
    <3>1. CASE BindPlan
      BY <3>1 DEF BindPlan, ActivatePlan
    <3>2. CASE ConfirmBatch
      BY <3>2 DEF ConfirmBatch, CommitBatch
    <3>3. CASE TransferStarts \/ TransferCompletes
      BY <3>3 DEF TransferStarts, TransferCompletes, MarkRunning, MarkCompleted, AgreeInv
    <3> QED
      BY <1>5, <3>1, <3>2, <3>3
  <2> QED
    BY <2>1, <2>2, TellsStay
<1>6. CASE UNCHANGED <<authorityVars, sourceKnown>>
  BY <1>6, TellsStay DEF authorityVars
<1>7. CASE SourceReady \/ Stabilize \/ Posted \/ Drained
  BY <1>6, <1>7 DEF SourceReady, Stabilize, Posted, Drained, schedulerVars
<1>8. CASE Arrival \/ StartService \/ ServiceComplete \/ Delivery
  BY <1>6, <1>8 DEF Arrival, StartService, ServiceComplete, Delivery, schedulerVars
<1>9. CASE ObserveClosure \/ CoalesceEvent \/ CoalesceGlobal \/ DeferGlobal \/ FinalizeGlobal
  BY <1>6, <1>9 DEF ObserveClosure, CoalesceEvent, CoalesceGlobal, DeferGlobal, FinalizeGlobal,
                    schedulerVars
<1>10. CASE ControlComplete \/ SkipStalePlan \/ BindNothing \/ PrepareBatch \/ EndSubmit
  BY <1>6, <1>10 DEF ControlComplete, SkipStalePlan, BindNothing, PrepareBatch, EndSubmit, schedulerVars
<1>11. CASE NextTime \/ EnterPhase \/ FinishRound \/ Terminated \/ UNCHANGED vars
  BY <1>6, <1>11 DEF NextTime, EnterPhase, FinishRound, Terminated, vars, systemVars, schedulerVars
<1> QED
  BY <1>2, <1>3, <1>4, <1>5, <1>7, <1>8, <1>9, <1>10, <1>11 DEF ExchangeNext, HandleEvent

----------------------------------------------------------------------------
(* The theorem about work that could start. *)

WorkInv == (phase # 0 => begun) /\ ServiceInv /\ ReceiversInv /\ SubmitInv /\ TellsInv

\* Before the first time stamp nobody is known and no task may move.
LEMMA WorkStarts == ExchangeInit => WorkInv
<1> SUFFICES ASSUME ExchangeInit PROVE WorkInv
  OBVIOUS
<1>1. /\ phase = 0 /\ begun = FALSE /\ moved = FALSE /\ submitted = FALSE /\ stabilizing = FALSE
      /\ waiting = {} /\ servicePending = FALSE /\ planStatus = "NONE"
      /\ canonical = {} /\ permits = {}
      /\ job = [t \in Tasks |-> "WAITING"] /\ expectedAt = [s \in Ranks |-> NoTime]
  BY DEF ExchangeInit, KernelInit, ChannelInit, ReceiverInit, AuthorityInit
<1>2. PostStarts = {} /\ DrainStarts = {}
  BY <1>1, TasksHaveEnds DEF PostStarts, DrainStarts, Eligible, Requested
<1>3. ReadyTasks = <<>>
  BY <1>1 DEF ReadyTasks
<1>4. ~(phase > Submit)
  BY <1>1, ExchangeAssumption
<1> QED
  BY <1>1, <1>2, <1>3, <1>4 DEF WorkInv, ServiceInv, ReceiversInv, SubmitInv, TellsInv

\* A time stamp is under way only after one was begun.
LEMMA BegunStep ==
    ASSUME phase # 0 => begun, [ExchangeNext]_vars, PhaseInv
    PROVE  (phase # 0 => begun)'
<1>1. [KernelNext]_kernelVars
  BY ExchangeStepIsKernelStep DEF PhaseInv
<1>2. CASE NextTimestamp \/ HandleAny \/ CallbackAny
  BY <1>2 DEF NextTimestamp, HandleAny, CallbackAny
<1>3. CASE NextPhase
  BY <1>3 DEF NextPhase
<1>4. CASE EndRound
  BY <1>4 DEF EndRound
<1> QED
  BY <1>1, <1>2, <1>3, <1>4 DEF KernelNext, kernelVars

\* In every run of the phase, when a time stamp is over and the kernel did not give
\* up, nobody who could start is idle: no wakeup of the control channel, the
\* receivers or the scheduler's submission is lost (channel.py, receiver.py,
\* runtime_adapter.py).
THEOREM NoWakeupIsLost == ExchangeSpec => []WorkIsStarted
<1>1. WorkInv /\ StagingInv /\ ViewsInv /\ AgreeInv /\ PhaseInv /\ NoEventIsOverdue /\ [ExchangeNext]_vars
        => WorkInv'
  <2> SUFFICES ASSUME WorkInv, StagingInv, ViewsInv, AgreeInv, PhaseInv, NoEventIsOverdue,
                      [ExchangeNext]_vars
               PROVE  WorkInv'
    OBVIOUS
  <2>1. /\ ReceiverTypes /\ ViewsType /\ PlanInv /\ state \in [Tasks -> States]
        /\ phase # 0 => begun
    BY DEF StagingInv, ViewsInv, ViewsCore, AgreeInv, WorkInv
  <2>2. (phase # 0 => begun)'
    BY <2>1, BegunStep
  <2>3. ServiceInv' /\ ReceiversInv'
    BY <2>1, ServiceStep, ReceiversStep DEF WorkInv
  <2>4. SubmitInv' /\ TellsInv'
    BY <2>1, SubmitStep, TellsStep DEF WorkInv
  <2> QED
    BY <2>2, <2>3, <2>4 DEF WorkInv
<1>2. WorkInv /\ PhaseInv /\ NoEventIsOverdue => WorkIsStarted
  <2> SUFFICES ASSUME WorkInv, PhaseInv, NoEventIsOverdue, phase = 0, begun, ~cycle
               PROVE  /\ waiting # {} => serverBusy
                      /\ PostStarts = {} /\ DrainStarts = {} /\ NextBatch = {}
    BY DEF WorkIsStarted
  <2>1. ~Due("Service") /\ ~Due("Stabilize")
    BY NothingIsDue
  <2> QED
    BY <2>1 DEF WorkInv, ServiceInv, ReceiversInv, SubmitInv
<1> QED
  BY <1>1, <1>2, WorkStarts, ViewsInvariant, StagingInvariant, AgreeInvariant, PhaseInvariant,
     NoEventOfThePhaseIsOverdue, PTL DEF ExchangeSpec
=============================================================================
