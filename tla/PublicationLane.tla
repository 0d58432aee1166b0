-------------------------- MODULE PublicationLane --------------------------
(***************************************************************************)
(* One forward pass of a whole expert-parallel group: every rank plans the *)
(* next layer in the background, and the ranks agree on each plan through  *)
(* the control lane (control/communication_lane.py), polled from the hooks *)
(* of lifecycle.py.                                                        *)
(*                                                                         *)
(* A collective is one step of all ranks, and a rank that has entered it   *)
(* waits.  Collectives of the lane run on a group of their own; the matrix *)
(* gather and the token exchanges run on the expert-parallel group, so a   *)
(* rank in the lane and a rank in an exchange wait for one another.        *)
(***************************************************************************)
EXTENDS Integers, FiniteSets

CONSTANTS
  Ranks,     \* the ranks of the expert-parallel group
  LastLayer, \* layers 1 .. LastLayer are prepared, each one layer ahead
  Digests,   \* what a rank's planner may come up with
  MaxQueue,  \* keys that wait in the queue of a rank's planner service
  None

ASSUME LaneAssumption ==
  /\ IsFiniteSet(Ranks) /\ Ranks # {}
  /\ LastLayer \in Nat \ {0}
  /\ MaxQueue \in Nat \ {0}
  /\ None \notin Digests

VARIABLES
  at,        \* where the training thread of a rank is
  position,  \* the layer whose hooks it runs
  task,      \* its planner's task for each layer
  digest,    \* the plan the task built
  view,      \* what the rank's lifecycle holds of each publication slot
  offered    \* the local status a rank has taken into the lane

laneVars == <<at, position, task, digest, view, offered>>

Layers == 1 .. LastLayer

\* A built result is "ready" in the service until the pump drains it into a
\* candidate of the lifecycle.
TaskState == {"none", "building", "ready", "candidate", "failed"}
SlotView  == {"none", "expected", "dropped", "terminal", "published"}
RankAt    == {"dispatch", "poll", "lane", "matrix", "submit", "exchange",
              "combine", "pollnext", "lanenext", "done"}
Status    == {"NOT_SUBMITTED", "BUILDING", "READY", "FAILED"}

LaneInit ==
  /\ at       = [r \in Ranks |-> "dispatch"]
  /\ position = [r \in Ranks |-> 0]
  /\ task     = [r \in Ranks |-> [l \in Layers |-> "none"]]
  /\ digest   = [r \in Ranks |-> [l \in Layers |-> None]]
  /\ view     = [r \in Ranks |-> [l \in Layers |-> "none"]]
  /\ offered  = [r \in Ranks |-> "NOT_SUBMITTED"]

-----------------------------------------------------------------------------
\* The planner of a rank

Building(r) == {l \in Layers : task[r][l] = "building"}

\* The worker builds one plan after the other, in the order of their layers.
Build(r) ==
  \E l \in Building(r) :
    /\ \A m \in Building(r) : l <= m
    /\ \/ /\ \E d \in Digests : digest' = [digest EXCEPT ![r][l] = d]
          /\ task' = [task EXCEPT ![r][l] = "ready"]
       \/ /\ task' = [task EXCEPT ![r][l] = "failed"]
          /\ UNCHANGED digest
    /\ UNCHANGED <<at, position, view, offered>>

\* publication_state_for_slot, or the candidate the pump has taken
LocalStatus(r, l) ==
  CASE task[r][l] = "none"                   -> "NOT_SUBMITTED"
    [] task[r][l] = "building"               -> "BUILDING"
    [] task[r][l] \in {"ready", "candidate"} -> "READY"
    [] task[r][l] = "failed"                 -> "FAILED"

-----------------------------------------------------------------------------
\* The hooks of a rank

Pump(r) ==
  /\ at[r] \in {"dispatch", "combine"}
  /\ at' = [at EXCEPT ![r] = IF at[r] = "dispatch" THEN "poll" ELSE "pollnext"]
  /\ task' = [task EXCEPT ![r] =
       [l \in Layers |-> IF task[r][l] = "ready" THEN "candidate" ELSE task[r][l]]]
  /\ UNCHANGED <<position, digest, view, offered>>

\* Faulty variants: each is a plausible mistake in the operator it is named
\* after, for the property written beside it; no specification uses them.

\* LaneSlotsAgree: a rank polls the first result its own queue has finished.
SlotOfFault(r) ==
  LET own == {l \in Layers : view[r][l] = "expected" /\ task[r][l] = "candidate"} IN
  IF own # {} THEN CHOOSE l \in own : \A m \in own : l <= m
  ELSE position[r] + (IF at[r] \in {"pollnext", "lanenext"} THEN 1 ELSE 0)

SlotOf(r) == position[r] + (IF at[r] \in {"pollnext", "lanenext"} THEN 1 ELSE 0)

IsOpen(r) == SlotOf(r) \in Layers /\ view[r][SlotOf(r)] = "expected"

\* Where a rank goes on after a poll: after the last layer the forward ends.
Onward(r) ==
  IF at[r] \in {"poll", "lane"} THEN "matrix"
  ELSE IF position[r] = LastLayer THEN "done" ELSE "dispatch"

Position(r) == IF Onward(r) = "dispatch" THEN position[r] + 1 ELSE position[r]

\* _poll_target_plan_slot returns at once for a slot that is not open here, and
\* otherwise enters the lane with the status of this moment.
SkipPoll(r) ==
  /\ at[r] \in {"poll", "pollnext"}
  /\ ~IsOpen(r)
  /\ at' = [at EXCEPT ![r] = Onward(r)]
  /\ position' = [position EXCEPT ![r] = Position(r)]
  /\ UNCHANGED <<task, digest, view, offered>>

EnterLane(r) ==
  /\ at[r] \in {"poll", "pollnext"}
  /\ IsOpen(r)
  /\ at' = [at EXCEPT ![r] = IF at[r] = "poll" THEN "lane" ELSE "lanenext"]
  /\ offered' = [offered EXCEPT ![r] = LocalStatus(r, SlotOf(r))]
  /\ UNCHANGED <<position, task, digest, view>>

\* The keys of the tasks that build wait in the queue, all or all but the one
\* the worker has taken; a key that finds no room is dropped on this rank.
MustDrop(r) == Cardinality(Building(r)) > MaxQueue
MayDrop(r)  == Cardinality(Building(r)) >= MaxQueue

Submit(r) ==
  LET l == position[r] + 1 IN
  /\ at[r] = "submit"
  /\ at' = [at EXCEPT ![r] = "exchange"]
  /\ IF l \notin Layers THEN UNCHANGED <<task, view>>
     ELSE \/ /\ ~MustDrop(r)
             /\ task' = [task EXCEPT ![r][l] = "building"]
             /\ view' = [view EXCEPT ![r][l] = "expected"]
          \/ /\ MayDrop(r)
             /\ view' = [view EXCEPT ![r][l] = "dropped"]
             /\ UNCHANGED task
  /\ UNCHANGED <<position, digest, offered>>

-----------------------------------------------------------------------------
\* The collectives

AllIn(places) == \A r \in Ranks : at[r] \in places

\* PublishedPlansAgree: the digests the ranks present are not compared.
PollStatusFault ==
  IF \E r, s \in Ranks : SlotOf(r) # SlotOf(s) THEN "SLOT_MISMATCH"
  ELSE IF \E r \in Ranks : offered[r] = "FAILED" THEN "FAILED"
  ELSE IF \E r \in Ranks : offered[r] # "READY" THEN "NOT_READY"
  ELSE "READY"

\* OutcomesAgree: a rank decides from its own status.
ViewAfterPollFault(r, l) ==
  IF l # SlotOf(r) THEN view[r][l]
  ELSE IF offered[r] = "FAILED" THEN "terminal"
  ELSE IF task[r][l] = "candidate" THEN "published"
  ELSE view[r][l]

\* ForwardEndsOrDiverges: only the rank that failed closes the slot.
ViewOfFailedFault(r, l) ==
  IF l # SlotOf(r) THEN view[r][l]
  ELSE IF offered[r] = "FAILED" THEN "terminal"
  ELSE IF (\A s \in Ranks : offered[s] = "READY") /\ task[r][l] = "candidate" THEN "published"
  ELSE view[r][l]

\* all_gather_object, and the decision every rank takes from what it gathered
PollStatus ==
  IF \E r, s \in Ranks : SlotOf(r) # SlotOf(s) THEN "SLOT_MISMATCH"
  ELSE IF \E r \in Ranks : offered[r] = "FAILED" THEN "FAILED"
  ELSE IF \E r \in Ranks : offered[r] # "READY" THEN "NOT_READY"
  ELSE IF \E r, s \in Ranks : digest[r][SlotOf(r)] # digest[s][SlotOf(s)] THEN "FAILED"
  ELSE "READY"

\* A rank that is told READY publishes the candidate it has pumped.  A result
\* that was finished after the pump counts as READY but is not a candidate, and
\* its rank returns with the slot still open.
ViewAfterPoll(r, l) ==
  IF l # SlotOf(r) THEN view[r][l]
  ELSE IF PollStatus \in {"FAILED", "SLOT_MISMATCH"} THEN "terminal"
  ELSE IF PollStatus = "READY" /\ task[r][l] = "candidate" THEN "published"
  ELSE view[r][l]

LanePoll ==
  /\ AllIn({"lane", "lanenext"})
  /\ view' = [r \in Ranks |-> [l \in Layers |-> ViewAfterPoll(r, l)]]
  /\ at' = [r \in Ranks |-> Onward(r)]
  /\ position' = [r \in Ranks |-> Position(r)]
  /\ UNCHANGED <<task, digest, offered>>

\* The gather of the dispatch matrix, and the exchange of the tokens
GroupCollective(from, to) ==
  /\ AllIn({from})
  /\ at' = [r \in Ranks |-> to]
  /\ UNCHANGED <<position, task, digest, view, offered>>

MatrixGather == GroupCollective("matrix", "submit")
Exchange     == GroupCollective("exchange", "combine")

-----------------------------------------------------------------------------
AllDone == \A r \in Ranks : at[r] = "done"

RankStep(r) == Pump(r) \/ SkipPoll(r) \/ EnterLane(r) \/ Submit(r)

LaneNext ==
  \/ \E r \in Ranks : RankStep(r) \/ Build(r)
  \/ LanePoll
  \/ MatrixGather
  \/ Exchange

\* Every thread of every rank runs, builds end, and a collective all ranks have
\* entered completes.
LaneFairness ==
  /\ \A r \in Ranks : WF_laneVars(RankStep(r)) /\ WF_laneVars(Build(r))
  /\ WF_laneVars(LanePoll)
  /\ WF_laneVars(MatrixGather)
  /\ WF_laneVars(Exchange)

LaneSpec == LaneInit /\ [][LaneNext]_laneVars /\ LaneFairness

-----------------------------------------------------------------------------
\* Properties

LaneTypeOK ==
  /\ at       \in [Ranks -> RankAt]
  /\ position \in [Ranks -> 0 .. LastLayer]
  /\ task     \in [Ranks -> [Layers -> TaskState]]
  /\ digest   \in [Ranks -> [Layers -> Digests \cup {None}]]
  /\ view     \in [Ranks -> [Layers -> SlotView]]
  /\ offered  \in [Ranks -> Status]

\* Ranks that publish a slot publish the same plan, although each publishes the
\* result of its own planner.
PublishedPlansAgree ==
  \A r, s \in Ranks, l \in Layers :
    view[r][l] = "published" /\ view[s][l] = "published" => digest[r][l] = digest[s][l]

\* The lane never tells one rank that a slot is published and another that it
\* is closed.
OutcomesAgree ==
  \A r, s \in Ranks, l \in Layers : ~(view[r][l] = "published" /\ view[s][l] = "terminal")

\* Ranks that are in the lane together are there for the same slot: no
\* collective of the lane pairs two slots, whatever the planners' timing.
LaneSlotsAgree ==
  \A r, s \in Ranks :
    at[r] \in {"lane", "lanenext"} /\ at[s] \in {"lane", "lanenext"} => SlotOf(r) = SlotOf(s)

\* The ranks disagree on whether a slot is still polled: one has published or
\* dropped it and another expects it.
Diverged ==
  \E r, s \in Ranks, l \in Layers :
    view[r][l] \in {"published", "dropped"} /\ view[s][l] = "expected"

\* While the ranks agree, the forward ends on all of them, whatever plans were
\* slow, failed or differed.
ForwardEndsOrDiverges == <>(AllDone \/ Diverged)

\* docs/runtime_joint_async_design.md:83-94 "Before first P2P work: validate global
\* plan digest [...] all ranks fall back consistently before P2P starts": ranks
\* that exchange the tokens of a layer all use the published plan, or all their
\* provisional one.  No digest is compared between the poll and the exchange.
FallBackIsConsistent ==
  \A r, s \in Ranks :
    at[r] = "exchange" /\ at[s] = "exchange" /\ position[r] \in Layers =>
      (view[r][position[r]] = "published" <=> view[s][position[s]] = "published")

=============================================================================
