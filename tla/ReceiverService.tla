---------------------------- MODULE ReceiverService ----------------------------
(***************************************************************************)
(* The receivers of the off-line simulator                                 *)
(* (rs_sim/backend/resources/receiver.py): one posting server, one drain   *)
(* line and one bounded staging memory per rank.                           *)
(*                                                                         *)
(* A task is requested when its edge is expected and its catalogue is      *)
(* registered, eligible when its source's payload is ready too, posted     *)
(* after its bytes were reserved, and drained after its transfer.  The     *)
(* handlers are actions; what they schedule is left to FormalExchange.     *)
(***************************************************************************)
EXTENDS TransferTasks, Naturals, FiniteSets, FiniteSetsExt

CONSTANTS Bytes,          \* payload_bytes
          Capacity,       \* capacity_bytes of a rank's staging memory
          StableOrder,    \* a task's place by (src_rank, chunk_index, task_stable_key)
          NoTime, NoTask

ASSUME ReceiverAssumption ==
    /\ IsFiniteSet(Tasks)
    /\ Capacity \in [Ranks -> Nat] /\ StableOrder \in [Tasks -> Nat]
    /\ \A t, u \in Tasks :
          /\ Bytes[t] \in 1..Capacity[Dst[t]]
          /\ StableOrder[t] = StableOrder[u] => t = u
    /\ NoTime \notin Nat /\ NoTask \notin Tasks

VARIABLES expectedAt,     \* when a source's row was delivered, with its expectations
          registeredAt,   \* when a task's catalogue was registered
          payloadAt,      \* _source_payload_ready_at
          job,            \* ReceiverJobStatus, "WAITING" up to ELIGIBLE
          transferredAt,  \* transfer_complete_at_ns
          poster, drainer, \* active_task_id of the two servers of a rank
          reserved, used, \* DestinationMemory
          assembled       \* assembled_bytes, by edge

receiverVars == <<expectedAt, registeredAt, payloadAt, job, transferredAt,
                  poster, drainer, reserved, used, assembled>>

TotalBytes(S) == MapThenSumSet(LAMBDA t : Bytes[t], S)
ExpectedBytes(edge) == TotalBytes({t \in Tasks : Edge(t) = edge})

ReceiverInit ==
    /\ expectedAt = [s \in Ranks |-> NoTime]
    /\ registeredAt = [t \in Tasks |-> NoTime]
    /\ payloadAt = [s \in Ranks |-> NoTime]
    /\ job = [t \in Tasks |-> "WAITING"]
    /\ transferredAt = [t \in Tasks |-> NoTime]
    /\ poster = [d \in Ranks |-> NoTask] /\ drainer = [d \in Ranks |-> NoTask]
    /\ reserved = [d \in Ranks |-> 0] /\ used = [d \in Ranks |-> 0]
    /\ assembled = [edge \in Edges |-> 0]

\* register_expectation for every edge of a delivered row.
RegisterExpectations(s, at) ==
    /\ expectedAt' = [expectedAt EXCEPT ![s] = at]
    /\ UNCHANGED <<registeredAt, payloadAt, job, transferredAt, poster, drainer,
                   reserved, used, assembled>>

\* register_task_catalogue for the tasks of one edge; a catalogue is not extended.
RegisterCatalogue(tasks, at) ==
    /\ registeredAt' = [t \in Tasks |-> IF t \in tasks THEN at ELSE registeredAt[t]]
    /\ UNCHANGED <<expectedAt, payloadAt, job, transferredAt, poster, drainer,
                   reserved, used, assembled>>

MarkSourcePayloadReady(s, at) ==
    /\ payloadAt' = [payloadAt EXCEPT ![s] = at]
    /\ UNCHANGED <<expectedAt, registeredAt, job, transferredAt, poster, drainer,
                   reserved, used, assembled>>

\* _refresh_edge_jobs runs after each of the three, in whatever order they come.
Later(x, y) == IF x > y THEN x ELSE y
Requested(t) == expectedAt[Src[t]] # NoTime /\ registeredAt[t] # NoTime
RequestedAt(t) == Later(expectedAt[Src[t]], registeredAt[t])
Eligible(t) == job[t] = "WAITING" /\ Requested(t) /\ payloadAt[Src[t]] # NoTime
EligibleAt(t) == Later(RequestedAt(t), payloadAt[Src[t]])

\* fifo_key of the posting queue, and the key of the drain line.
PostsBefore(t, u) ==
    \/ EligibleAt(t) < EligibleAt(u)
    \/ EligibleAt(t) = EligibleAt(u) /\ RequestedAt(t) < RequestedAt(u)
    \/ /\ EligibleAt(t) = EligibleAt(u) /\ RequestedAt(t) = RequestedAt(u)
       /\ StableOrder[t] < StableOrder[u]
DrainsBefore(t, u) ==
    \/ transferredAt[t] < transferredAt[u]
    \/ transferredAt[t] = transferredAt[u] /\ StableOrder[t] < StableOrder[u]

\* stabilize_drain: the idle drain lines take their first task.
DrainStarts ==
    {t \in Tasks :
        /\ job[t] = "TRANSFERRED" /\ drainer[Dst[t]] = NoTask
        /\ \A u \in Tasks : job[u] = "TRANSFERRED" /\ Dst[u] = Dst[t] /\ u # t => DrainsBefore(t, u)}

\* StagingIsAccounted (a faulty variant no specification uses): what was
\* transferred and not yet drained is forgotten.
FitsFault(t) == Bytes[t] <= Capacity[Dst[t]] - reserved[Dst[t]]

\* stabilize_posting: the idle posting servers take the head of their queue,
\* unless its bytes do not fit; nothing overtakes a head that waits for memory.
Fits(t) == Bytes[t] <= Capacity[Dst[t]] - (reserved[Dst[t]] + used[Dst[t]])
PostStarts ==
    {t \in Tasks :
        /\ Eligible(t) /\ poster[Dst[t]] = NoTask /\ Fits(t)
        /\ \A u \in Tasks : Eligible(u) /\ Dst[u] = Dst[t] /\ u # t => PostsBefore(t, u)}

StabilizeReceivers ==
    /\ job' = [t \in Tasks |->
                  IF t \in DrainStarts THEN "DRAINING"
                  ELSE IF t \in PostStarts THEN "POSTING" ELSE job[t]]
    /\ drainer' = [d \in Ranks |->
                      IF \E t \in DrainStarts : Dst[t] = d
                      THEN CHOOSE t \in DrainStarts : Dst[t] = d ELSE drainer[d]]
    /\ poster' = [d \in Ranks |->
                     IF \E t \in PostStarts : Dst[t] = d
                     THEN CHOOSE t \in PostStarts : Dst[t] = d ELSE poster[d]]
    /\ reserved' = [d \in Ranks |-> reserved[d] + TotalBytes({t \in PostStarts : Dst[t] = d})]
    /\ UNCHANGED <<expectedAt, registeredAt, payloadAt, transferredAt, used, assembled>>

OnReceiverPostComplete(t) ==
    /\ job[t] = "POSTING" /\ poster[Dst[t]] = t
    /\ job' = [job EXCEPT ![t] = "POSTED"]
    /\ poster' = [poster EXCEPT ![Dst[t]] = NoTask]
    /\ UNCHANGED <<expectedAt, registeredAt, payloadAt, transferredAt, drainer,
                   reserved, used, assembled>>

OnTransferCompleted(t, at) ==
    /\ job[t] = "POSTED" /\ reserved[Dst[t]] >= Bytes[t]
    /\ job' = [job EXCEPT ![t] = "TRANSFERRED"]
    /\ transferredAt' = [transferredAt EXCEPT ![t] = at]
    /\ reserved' = [reserved EXCEPT ![Dst[t]] = @ - Bytes[t]]
    /\ used' = [used EXCEPT ![Dst[t]] = @ + Bytes[t]]
    /\ UNCHANGED <<expectedAt, registeredAt, payloadAt, poster, drainer, assembled>>

OnReceiverDrainFinish(t) ==
    /\ job[t] = "DRAINING" /\ drainer[Dst[t]] = t /\ used[Dst[t]] >= Bytes[t]
    /\ assembled[Edge(t)] + Bytes[t] <= ExpectedBytes(Edge(t))
    /\ job' = [job EXCEPT ![t] = "ASSEMBLED"]
    /\ drainer' = [drainer EXCEPT ![Dst[t]] = NoTask]
    /\ used' = [used EXCEPT ![Dst[t]] = @ - Bytes[t]]
    /\ assembled' = [assembled EXCEPT ![Edge(t)] = @ + Bytes[t]]
    /\ UNCHANGED <<expectedAt, registeredAt, payloadAt, transferredAt, poster, reserved>>

----------------------------------------------------------------------------
ReceiverTypeOK ==
    /\ DOMAIN job = Tasks
    /\ \A t \in Tasks :
          job[t] \in {"WAITING", "POSTING", "POSTED", "TRANSFERRED", "DRAINING", "ASSEMBLED"}
    /\ \A d \in Ranks : poster[d] \in Tasks \cup {NoTask} /\ drainer[d] \in Tasks \cup {NoTask}
    /\ \A d \in Ranks : reserved[d] \in Nat /\ used[d] \in Nat

JobsAt(d, statuses) == {t \in Tasks : Dst[t] = d /\ job[t] \in statuses}

\* The memory of a rank is accounted for: what is reserved belongs to tasks
\* that were posted and not yet transferred, what is used to tasks that were
\* transferred and not yet drained, together they fit the capacity, and an
\* edge has assembled exactly the bytes of its drained tasks.
StagingIsAccounted ==
    /\ \A d \in Ranks :
          /\ reserved[d] = TotalBytes(JobsAt(d, {"POSTING", "POSTED"}))
          /\ used[d] = TotalBytes(JobsAt(d, {"TRANSFERRED", "DRAINING"}))
          /\ reserved[d] + used[d] <= Capacity[d]
    /\ \A edge \in Edges :
          assembled[edge] = TotalBytes({t \in Tasks : Edge(t) = edge /\ job[t] = "ASSEMBLED"})
=============================================================================
