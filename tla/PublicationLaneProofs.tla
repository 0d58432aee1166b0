------------------------ MODULE PublicationLaneProofs ------------------------
(***************************************************************************)
(* What the publication lane guarantees for every number of ranks, layers  *)
(* and plans, whatever the planners of the ranks do and when.              *)
(*                                                                         *)
(* The ranks are kept in step by the two collectives of the group: between *)
(* an exchange and the next gather of the matrix all ranks are at the one  *)
(* slot of InStep, although some run the last hook of a layer and others   *)
(* the first hook of the next.  From that follows that ranks in the lane   *)
(* poll the same slot, hence that a poll changes the same slot everywhere, *)
(* hence that plans and outcomes agree.                                    *)
(***************************************************************************)
EXTENDS PublicationLane, TLAPS

\* Places before the gather of the matrix, where a rank may poll, and after it
Polling    == {"dispatch", "poll", "lane", "matrix", "combine", "pollnext", "lanenext", "done"}
Exchanging == {"submit", "exchange"}

\* The slot a rank polls next, or has just polled
Stage(r) == IF at[r] \in {"combine", "pollnext", "lanenext", "done"}
            THEN position[r] + 1 ELSE position[r]

\* The layers a rank may have submitted
Submitted(r) == IF at[r] \in {"exchange", "combine", "pollnext", "lanenext", "done"}
                THEN position[r] + 1 ELSE position[r]

InStep ==
  /\ AllIn(Polling) \/ AllIn(Exchanging)
  /\ \A r, s \in Ranks : Stage(r) = Stage(s)

\* A rank in the lane polls a slot that is open here, with a status that its
\* planner has not taken back.
LaneIsOpen ==
  \A r \in Ranks : at[r] \in {"lane", "lanenext"} =>
    /\ IsOpen(r)
    /\ offered[r] = "READY" => task[r][SlotOf(r)] \in {"ready", "candidate"}

NothingAhead ==
  \A r \in Ranks, l \in Layers : l > Submitted(r) => task[r][l] = "none"

\* Once a rank has published a slot, every rank has built the plan of it.
PublishedIsBuilt ==
  \A r, s \in Ranks, l \in Layers : view[r][l] = "published" =>
    /\ task[s][l] \in {"ready", "candidate"}
    /\ digest[s][l] = digest[r][l]

LaneInv ==
  /\ LaneTypeOK
  /\ InStep
  /\ LaneIsOpen
  /\ NothingAhead
  /\ PublishedIsBuilt
  /\ OutcomesAgree

\* At the start of a forward nothing has been submitted.
LEMMA InitLaneInv == LaneInit => LaneInv
  BY LaneAssumption
  DEF LaneInit, LaneInv, LaneTypeOK, InStep, LaneIsOpen, NothingAhead, PublishedIsBuilt,
      OutcomesAgree, AllIn, Polling, Stage, TaskState, SlotView, RankAt, Status, Layers

\* A table of tables keeps its type when one entry changes.
LEMMA UpdateType ==
  ASSUME NEW S, NEW T, NEW V, NEW f \in [S -> [T -> V]], NEW a \in S, NEW b \in T, NEW v \in V
  PROVE  [f EXCEPT ![a][b] = v] \in [S -> [T -> V]]
<1>1. [f[a] EXCEPT ![b] = v] \in [T -> V]
  OBVIOUS
<1>2. [f EXCEPT ![a] = [f[a] EXCEPT ![b] = v]] \in [S -> [T -> V]]
  BY <1>1
<1>3. QED  BY <1>2

\* The worker of a rank: a built plan never goes back to building.
LEMMA BuildKeepsInv ==
  ASSUME LaneInv, NEW r \in Ranks, Build(r)
  PROVE  LaneInv'
<1> PICK l \in Building(r) :
      /\ \/ /\ \E d \in Digests : digest' = [digest EXCEPT ![r][l] = d]
            /\ task' = [task EXCEPT ![r][l] = "ready"]
         \/ /\ task' = [task EXCEPT ![r][l] = "failed"]
            /\ UNCHANGED digest
      /\ UNCHANGED <<at, position, view, offered>>
  BY DEF Build
<1>1. l \in Layers /\ task[r][l] = "building"
  BY DEF Building
<1>2. LaneTypeOK'
  <2> task \in [Ranks -> [Layers -> TaskState]] /\ digest \in [Ranks -> [Layers -> Digests \cup {None}]]
    BY DEF LaneInv, LaneTypeOK
  <2>1. task' \in [Ranks -> [Layers -> TaskState]]
    <3>1. "ready" \in TaskState /\ "failed" \in TaskState
      BY DEF TaskState
    <3>2. \A v \in TaskState : [task EXCEPT ![r][l] = v] \in [Ranks -> [Layers -> TaskState]]
      BY <1>1, UpdateType
    <3>3. QED  BY <3>1, <3>2
  <2>2. digest' \in [Ranks -> [Layers -> Digests \cup {None}]]
    <3>1. ASSUME NEW d \in Digests, digest' = [digest EXCEPT ![r][l] = d]
          PROVE  digest' \in [Ranks -> [Layers -> Digests \cup {None}]]
      <4>1. [digest EXCEPT ![r][l] = d] \in [Ranks -> [Layers -> Digests \cup {None}]]
        BY <1>1, UpdateType
      <4>2. QED  BY <4>1, <3>1
    <3>2. (\E d \in Digests : digest' = [digest EXCEPT ![r][l] = d]) \/ digest' = digest
      OBVIOUS
    <3>3. QED  BY <3>1, <3>2
  <2>3. QED
    BY <2>1, <2>2 DEF LaneInv, LaneTypeOK
<1>3. \A s \in Ranks, m \in Layers :
        <<s, m>> # <<r, l>> => task'[s][m] = task[s][m] /\ digest'[s][m] = digest[s][m]
  BY <1>1 DEF LaneInv, LaneTypeOK
<1>4. InStep'
  BY DEF LaneInv, InStep, AllIn, Stage
<1>5. LaneIsOpen'
  BY <1>1, <1>3 DEF LaneInv, LaneIsOpen, IsOpen, SlotOf
<1>6. NothingAhead'
  BY <1>1, <1>3 DEF LaneInv, NothingAhead, Submitted
<1>7. PublishedIsBuilt'
  BY <1>1, <1>3 DEF LaneInv, PublishedIsBuilt
<1>8. OutcomesAgree'
  BY DEF LaneInv, OutcomesAgree
<1>9. QED  BY <1>2, <1>4, <1>5, <1>6, <1>7, <1>8 DEF LaneInv

\* The pump only moves results that are built.
LEMMA PumpKeepsInv ==
  ASSUME LaneInv, NEW r \in Ranks, Pump(r)
  PROVE  LaneInv'
<1> DEFINE after == IF at[r] = "dispatch" THEN "poll" ELSE "pollnext"
           pumped == [l \in Layers |-> IF task[r][l] = "ready" THEN "candidate" ELSE task[r][l]]
<1>1. /\ at[r] \in {"dispatch", "combine"}
      /\ at' = [at EXCEPT ![r] = after]
      /\ task' = [task EXCEPT ![r] = pumped]
      /\ UNCHANGED <<position, digest, view, offered>>
  BY DEF Pump
<1>2. pumped \in [Layers -> TaskState] /\ after \in RankAt
  BY DEF LaneInv, LaneTypeOK, TaskState, RankAt
<1>3. LaneTypeOK'
  BY <1>1, <1>2 DEF LaneInv, LaneTypeOK
<1>4. \A s \in Ranks, l \in Layers :
        /\ task'[s][l] = task[s][l] \/ (task[s][l] = "ready" /\ task'[s][l] = "candidate")
        /\ s # r => at'[s] = at[s] /\ task'[s][l] = task[s][l]
  BY <1>1 DEF LaneInv, LaneTypeOK
<1>5. at'[r] = after
  BY <1>1 DEF LaneInv, LaneTypeOK
<1>6. /\ \A s \in Ranks : Stage(s)' = Stage(s)
      /\ \A s \in Ranks : Submitted(s)' = Submitted(s)
  BY <1>1, <1>4, <1>5 DEF Stage, Submitted, LaneInv, LaneTypeOK
<1>7. InStep'
  BY <1>1, <1>6 DEF LaneInv, LaneTypeOK, InStep, AllIn, Polling, Exchanging
<1>8. LaneIsOpen'
  <2> SUFFICES ASSUME NEW s \in Ranks, at'[s] \in {"lane", "lanenext"}
               PROVE  /\ IsOpen(s)'
                      /\ offered'[s] = "READY" => task'[s][SlotOf(s)'] \in {"ready", "candidate"}
    BY DEF LaneIsOpen
  <2>1. s # r /\ at'[s] = at[s]
    BY <1>1, <1>5 DEF LaneInv, LaneTypeOK
  <2>2. SlotOf(s)' = SlotOf(s) /\ IsOpen(s) /\ SlotOf(s) \in Layers
    BY <1>1, <2>1 DEF LaneInv, LaneIsOpen, IsOpen, SlotOf
  <2>3. QED
    BY <1>1, <1>4, <2>1, <2>2 DEF LaneInv, LaneIsOpen, IsOpen
<1>9. NothingAhead'
  BY <1>4, <1>6 DEF LaneInv, NothingAhead
<1>10. PublishedIsBuilt'
  BY <1>1, <1>4 DEF LaneInv, PublishedIsBuilt
<1>11. OutcomesAgree'
  BY <1>1 DEF LaneInv, OutcomesAgree
<1>12. QED  BY <1>3, <1>7, <1>8, <1>9, <1>10, <1>11 DEF LaneInv

\* What a rank does when its poll is over, alone or with the others
LEMMA OnwardType ==
  ASSUME LaneTypeOK, NEW r \in Ranks, at[r] \in {"poll", "pollnext", "lane", "lanenext"}
  PROVE  /\ Onward(r) \in {"matrix", "dispatch", "done"}
         /\ Position(r) \in 0 .. LastLayer
         /\ (IF Onward(r) = "done" THEN Position(r) + 1 ELSE Position(r)) = Stage(r)
         /\ (IF Onward(r) = "done" THEN Position(r) + 1 ELSE Position(r)) = Submitted(r)
         /\ SlotOf(r) = Stage(r)
<1>1. position[r] \in 0 .. LastLayer /\ LastLayer \in Nat
  BY LaneAssumption DEF LaneTypeOK
<1>2. CASE at[r] \in {"poll", "lane"}
  BY <1>1, <1>2 DEF Onward, Position, Stage, Submitted, SlotOf
<1>3. CASE at[r] \in {"pollnext", "lanenext"}
  BY <1>1, <1>3 DEF Onward, Position, Stage, Submitted, SlotOf
<1>4. QED  BY <1>2, <1>3

LEMMA SkipPollKeepsInv ==
  ASSUME LaneInv, NEW r \in Ranks, SkipPoll(r)
  PROVE  LaneInv'
<1>1. /\ at[r] \in {"poll", "pollnext"}
      /\ at' = [at EXCEPT ![r] = Onward(r)]
      /\ position' = [position EXCEPT ![r] = Position(r)]
      /\ UNCHANGED <<task, digest, view, offered>>
  BY DEF SkipPoll
<1>2. /\ Onward(r) \in {"matrix", "dispatch", "done"}
      /\ Position(r) \in 0 .. LastLayer
      /\ (IF Onward(r) = "done" THEN Position(r) + 1 ELSE Position(r)) = Stage(r)
      /\ (IF Onward(r) = "done" THEN Position(r) + 1 ELSE Position(r)) = Submitted(r)
  BY <1>1, OnwardType DEF LaneInv
<1>3. LaneTypeOK'
  BY <1>1, <1>2 DEF LaneInv, LaneTypeOK, RankAt
<1>4. /\ at'[r] = Onward(r) /\ position'[r] = Position(r)
      /\ \A s \in Ranks : s # r => at'[s] = at[s] /\ position'[s] = position[s]
  BY <1>1 DEF LaneInv, LaneTypeOK
<1>5. \A s \in Ranks : Stage(s)' = Stage(s) /\ Submitted(s)' = Submitted(s)
  <2>1. Stage(r)' = Stage(r) /\ Submitted(r)' = Submitted(r)
    BY <1>2, <1>4 DEF Stage, Submitted
  <2>2. \A s \in Ranks \ {r} : Stage(s)' = Stage(s) /\ Submitted(s)' = Submitted(s)
    BY <1>4 DEF Stage, Submitted
  <2>3. QED  BY <2>1, <2>2
<1>6. InStep'
  BY <1>1, <1>2, <1>4, <1>5 DEF LaneInv, InStep, AllIn, Polling, Exchanging
<1>7. LaneIsOpen'
  BY <1>1, <1>2, <1>4 DEF LaneInv, LaneIsOpen, IsOpen, SlotOf
<1>8. NothingAhead'
  BY <1>1, <1>5 DEF LaneInv, NothingAhead
<1>9. PublishedIsBuilt' /\ OutcomesAgree'
  BY <1>1 DEF LaneInv, PublishedIsBuilt, OutcomesAgree
<1>10. QED  BY <1>3, <1>6, <1>7, <1>8, <1>9 DEF LaneInv

\* A rank enters the lane with the status of this moment.
LEMMA EnterLaneKeepsInv ==
  ASSUME LaneInv, NEW r \in Ranks, EnterLane(r)
  PROVE  LaneInv'
<1> DEFINE place == IF at[r] = "poll" THEN "lane" ELSE "lanenext"
           status == LocalStatus(r, SlotOf(r))
<1>1. /\ at[r] \in {"poll", "pollnext"}
      /\ IsOpen(r)
      /\ at' = [at EXCEPT ![r] = place]
      /\ offered' = [offered EXCEPT ![r] = status]
      /\ UNCHANGED <<position, task, digest, view>>
  BY DEF EnterLane
<1>2. SlotOf(r) \in Layers /\ task[r][SlotOf(r)] \in TaskState
  BY <1>1 DEF IsOpen, LaneInv, LaneTypeOK
<1>3. /\ status \in Status
      /\ status = "READY" => task[r][SlotOf(r)] \in {"ready", "candidate"}
  BY <1>2 DEF LocalStatus, Status, TaskState
<1> HIDE DEF status
<1>4. LaneTypeOK'
  BY <1>1, <1>3 DEF LaneInv, LaneTypeOK, RankAt
<1>5. /\ at'[r] = place /\ offered'[r] = status
      /\ \A s \in Ranks : s # r => at'[s] = at[s] /\ offered'[s] = offered[s]
  BY <1>1 DEF LaneInv, LaneTypeOK
<1>6. \A s \in Ranks : Stage(s)' = Stage(s) /\ Submitted(s)' = Submitted(s) /\ SlotOf(s)' = SlotOf(s)
  <2>1. Stage(r)' = Stage(r) /\ Submitted(r)' = Submitted(r) /\ SlotOf(r)' = SlotOf(r)
    BY <1>1, <1>5 DEF Stage, Submitted, SlotOf
  <2>2. \A s \in Ranks \ {r} :
          Stage(s)' = Stage(s) /\ Submitted(s)' = Submitted(s) /\ SlotOf(s)' = SlotOf(s)
    BY <1>1, <1>5 DEF Stage, Submitted, SlotOf
  <2>3. QED  BY <2>1, <2>2
<1>7. InStep'
  BY <1>1, <1>5, <1>6 DEF LaneInv, InStep, AllIn, Polling, Exchanging
<1>8. LaneIsOpen'
  BY <1>1, <1>3, <1>5, <1>6 DEF LaneInv, LaneIsOpen, IsOpen
<1>9. NothingAhead'
  BY <1>1, <1>6 DEF LaneInv, NothingAhead
<1>10. PublishedIsBuilt' /\ OutcomesAgree'
  BY <1>1 DEF LaneInv, PublishedIsBuilt, OutcomesAgree
<1>11. QED  BY <1>4, <1>7, <1>8, <1>9, <1>10 DEF LaneInv

\* A submit opens or drops a slot nobody has submitted here before, hence one
\* that no rank has published.
LEMMA SubmitKeepsInv ==
  ASSUME LaneInv, NEW r \in Ranks, Submit(r)
  PROVE  LaneInv'
<1> DEFINE l == position[r] + 1
<1>1. /\ at[r] = "submit"
      /\ at' = [at EXCEPT ![r] = "exchange"]
      /\ UNCHANGED <<position, digest, offered>>
  BY DEF Submit
<1>2. \/ UNCHANGED <<task, view>>
      \/ l \in Layers /\ task' = [task EXCEPT ![r][l] = "building"]
           /\ view' = [view EXCEPT ![r][l] = "expected"]
      \/ l \in Layers /\ task' = task /\ view' = [view EXCEPT ![r][l] = "dropped"]
  BY DEF Submit
<1>3. task \in [Ranks -> [Layers -> TaskState]] /\ view \in [Ranks -> [Layers -> SlotView]]
      /\ position[r] \in Nat /\ at \in [Ranks -> RankAt]
  BY LaneAssumption DEF LaneInv, LaneTypeOK
<1>4. task' \in [Ranks -> [Layers -> TaskState]] /\ view' \in [Ranks -> [Layers -> SlotView]]
  <2>1. "building" \in TaskState /\ "expected" \in SlotView /\ "dropped" \in SlotView
    BY DEF TaskState, SlotView
  <2>2. CASE UNCHANGED <<task, view>>
    BY <1>3, <2>2
  <2>3. CASE l \in Layers
    <3>1. /\ [task EXCEPT ![r][l] = "building"] \in [Ranks -> [Layers -> TaskState]]
          /\ [view EXCEPT ![r][l] = "expected"] \in [Ranks -> [Layers -> SlotView]]
          /\ [view EXCEPT ![r][l] = "dropped"] \in [Ranks -> [Layers -> SlotView]]
      BY <1>3, <2>1, <2>3, UpdateType
    <3>2. QED  BY <1>2, <1>3, <3>1
  <2>4. QED  BY <1>2, <2>2, <2>3
<1>5. LaneTypeOK'
  BY <1>1, <1>4 DEF LaneInv, LaneTypeOK, RankAt
<1>6. /\ \A s \in Ranks, m \in Layers :
           <<s, m>> # <<r, l>> => task'[s][m] = task[s][m] /\ view'[s][m] = view[s][m]
      /\ \A s \in Ranks : s # r => at'[s] = at[s]
      /\ at'[r] = "exchange"
  BY <1>1, <1>2, <1>3
<1>7. l \in Layers => /\ task[r][l] = "none"
                      /\ \A s \in Ranks : view[s][l] # "published"
                      /\ view'[r][l] = view[r][l] \/ view'[r][l] \in {"expected", "dropped"}
  <2>1. l \in Layers => task[r][l] = "none"
    BY <1>1, <1>3 DEF LaneInv, NothingAhead, Submitted
  <2>2. l \in Layers => \A s \in Ranks : view[s][l] # "published"
    BY <2>1 DEF LaneInv, PublishedIsBuilt
  <2>3. QED  BY <1>2, <1>3, <2>1, <2>2
<1>8. InStep'
  <2>1. \A s \in Ranks : Stage(s)' = Stage(s)
    BY <1>1, <1>6 DEF Stage
  <2>2. AllIn(Exchanging)
    BY <1>1 DEF LaneInv, InStep, AllIn, Polling
  <2>3. QED  BY <1>6, <2>1, <2>2 DEF LaneInv, InStep, AllIn, Exchanging
<1>9. LaneIsOpen'
  <2>1. \A s \in Ranks : at'[s] \notin {"lane", "lanenext"}
    BY <1>1, <1>6 DEF LaneInv, InStep, AllIn, Polling, Exchanging
  <2>2. QED  BY <2>1 DEF LaneIsOpen
<1>10. NothingAhead'
  <2> SUFFICES ASSUME NEW s \in Ranks, NEW m \in Layers, m > Submitted(s)'
               PROVE  task'[s][m] = "none"
    BY DEF NothingAhead
  <2>1. CASE s = r
    <3>1. Submitted(s)' = l /\ m \in Nat /\ m > l /\ m > position[r]
      BY <1>1, <1>3, <1>6, <2>1 DEF Submitted, Layers
    <3>2. task[s][m] = "none"
      BY <1>1, <2>1, <3>1 DEF LaneInv, NothingAhead, Submitted
    <3>3. QED  BY <1>3, <1>6, <3>1, <3>2
  <2>2. CASE s # r
    <3>1. Submitted(s)' = Submitted(s)
      BY <1>1, <1>6, <2>2 DEF Submitted
    <3>2. QED  BY <1>6, <2>2, <3>1 DEF LaneInv, NothingAhead
  <2>3. QED  BY <2>1, <2>2
<1>11. PublishedIsBuilt'
  BY <1>1, <1>6, <1>7 DEF LaneInv, PublishedIsBuilt
<1>12. OutcomesAgree'
  BY <1>6, <1>7 DEF LaneInv, OutcomesAgree
<1>13. QED  BY <1>5, <1>8, <1>9, <1>10, <1>11, <1>12 DEF LaneInv

\* All ranks pass a collective of the group together.
LEMMA CollectiveKeepsInv ==
  ASSUME LaneInv, MatrixGather \/ Exchange
  PROVE  LaneInv'
<1>1. UNCHANGED <<position, task, digest, view, offered>>
  BY DEF MatrixGather, Exchange, GroupCollective
<1>2. CASE MatrixGather
  <2>1. /\ \A r \in Ranks : at[r] = "matrix"
        /\ at' = [r \in Ranks |-> "submit"]
    BY <1>2 DEF MatrixGather, GroupCollective, AllIn
  <2>2. \A r \in Ranks : Stage(r)' = Stage(r) /\ Submitted(r)' = Submitted(r)
    BY <1>1, <2>1 DEF Stage, Submitted
  <2>3. QED
    BY <1>1, <2>1, <2>2
    DEF LaneInv, LaneTypeOK, InStep, LaneIsOpen, NothingAhead, PublishedIsBuilt, OutcomesAgree,
        AllIn, Exchanging, RankAt
<1>3. CASE Exchange
  <2>1. /\ \A r \in Ranks : at[r] = "exchange"
        /\ at' = [r \in Ranks |-> "combine"]
    BY <1>3 DEF Exchange, GroupCollective, AllIn
  <2>2. \A r \in Ranks : Stage(r)' = Stage(r) + 1 /\ Submitted(r)' = Submitted(r)
    BY <1>1, <2>1 DEF Stage, Submitted
  <2>3. QED
    BY <1>1, <2>1, <2>2
    DEF LaneInv, LaneTypeOK, InStep, LaneIsOpen, NothingAhead, PublishedIsBuilt, OutcomesAgree,
        AllIn, Polling, RankAt
<1>4. QED  BY <1>2, <1>3

\* Ranks that are in the lane together are there for one slot.
LEMMA OneSlot ==
  ASSUME LaneInv, NEW r \in Ranks, NEW s \in Ranks,
         at[r] \in {"lane", "lanenext"}, at[s] \in {"lane", "lanenext"}
  PROVE  SlotOf(r) = SlotOf(s)
  BY OnwardType DEF LaneInv, InStep

\* The poll changes the same slot on all ranks, which is open on all of them.
\* It is published only when every rank has built the same plan of it, and closed
\* on all ranks or on none.
LEMMA LanePollKeepsInv ==
  ASSUME LaneInv, LanePoll
  PROVE  LaneInv'
<1>1. /\ \A r \in Ranks : at[r] \in {"lane", "lanenext"}
      /\ view' = [r \in Ranks |-> [l \in Layers |-> ViewAfterPoll(r, l)]]
      /\ at' = [r \in Ranks |-> Onward(r)]
      /\ position' = [r \in Ranks |-> Position(r)]
      /\ UNCHANGED <<task, digest, offered>>
  BY DEF LanePoll, AllIn
<1>2. \A r \in Ranks :
        /\ Onward(r) \in {"matrix", "dispatch", "done"}
        /\ Position(r) \in 0 .. LastLayer
        /\ (IF Onward(r) = "done" THEN Position(r) + 1 ELSE Position(r)) = Stage(r)
        /\ (IF Onward(r) = "done" THEN Position(r) + 1 ELSE Position(r)) = Submitted(r)
  BY <1>1, OnwardType DEF LaneInv
<1>3. PICK slot \in Layers :
        \A r \in Ranks : SlotOf(r) = slot /\ view[r][slot] = "expected"
  <2>1. PICK q \in Ranks : TRUE
    BY LaneAssumption
  <2>2. SlotOf(q) \in Layers /\ \A r \in Ranks : SlotOf(r) = SlotOf(q)
    BY <1>1, OneSlot DEF LaneInv, LaneIsOpen, IsOpen
  <2>3. QED  BY <1>1, <2>2 DEF LaneInv, LaneIsOpen, IsOpen
<1>4. \A r \in Ranks, l \in Layers :
        /\ l # slot => view'[r][l] = view[r][l]
        /\ view'[r][slot] = IF PollStatus \in {"FAILED", "SLOT_MISMATCH"} THEN "terminal"
                            ELSE IF PollStatus = "READY" /\ task[r][slot] = "candidate"
                            THEN "published" ELSE view[r][slot]
  BY <1>1, <1>3 DEF ViewAfterPoll
<1>5. PollStatus = "READY" => \A r, s \in Ranks :
        task[s][slot] \in {"ready", "candidate"} /\ digest[s][slot] = digest[r][slot]
  BY <1>1, <1>3 DEF PollStatus, LaneInv, LaneIsOpen
<1>6. LaneTypeOK'
  <2>1. at' \in [Ranks -> RankAt] /\ position' \in [Ranks -> 0 .. LastLayer]
    BY <1>1, <1>2 DEF RankAt
  <2>2. view' \in [Ranks -> [Layers -> SlotView]]
    BY <1>1 DEF LaneInv, LaneTypeOK, ViewAfterPoll, SlotView
  <2>3. QED  BY <1>1, <2>1, <2>2 DEF LaneInv, LaneTypeOK
<1>7. \A r \in Ranks : Stage(r)' = Stage(r) /\ Submitted(r)' = Submitted(r)
  BY <1>1, <1>2 DEF Stage, Submitted
<1>8. InStep'
  BY <1>1, <1>2, <1>7 DEF LaneInv, InStep, AllIn, Polling
<1>9. LaneIsOpen'
  BY <1>1, <1>2 DEF LaneIsOpen
<1>10. NothingAhead'
  BY <1>1, <1>7 DEF LaneInv, NothingAhead
<1>11. PublishedIsBuilt'
  <2> SUFFICES ASSUME NEW r \in Ranks, NEW s \in Ranks, NEW l \in Layers, view'[r][l] = "published"
               PROVE  task[s][l] \in {"ready", "candidate"} /\ digest[s][l] = digest[r][l]
    BY <1>1 DEF PublishedIsBuilt
  <2>1. CASE l = slot
    BY <1>3, <1>4, <1>5, <2>1
  <2>2. CASE l # slot
    BY <1>4, <2>2 DEF LaneInv, PublishedIsBuilt
  <2>3. QED  BY <2>1, <2>2
<1>12. OutcomesAgree'
  <2> SUFFICES ASSUME NEW r \in Ranks, NEW s \in Ranks, NEW l \in Layers
               PROVE  ~(view'[r][l] = "published" /\ view'[s][l] = "terminal")
    BY DEF OutcomesAgree
  <2>1. CASE l = slot
    BY <1>3, <1>4, <2>1
  <2>2. CASE l # slot
    BY <1>4, <2>2 DEF LaneInv, OutcomesAgree
  <2>3. QED  BY <2>1, <2>2
<1>13. QED  BY <1>6, <1>8, <1>9, <1>10, <1>11, <1>12 DEF LaneInv

\* The invariant is inductive.
LEMMA NextKeepsLaneInv == LaneInv /\ [LaneNext]_laneVars => LaneInv'
<1> SUFFICES ASSUME LaneInv, [LaneNext]_laneVars PROVE LaneInv'
  OBVIOUS
<1>1. ASSUME NEW r \in Ranks, RankStep(r) PROVE LaneInv'
  BY <1>1, PumpKeepsInv, SkipPollKeepsInv, EnterLaneKeepsInv, SubmitKeepsInv DEF RankStep
<1>2. ASSUME NEW r \in Ranks, Build(r) PROVE LaneInv'
  BY <1>2, BuildKeepsInv
<1>3. CASE LanePoll
  BY <1>3, LanePollKeepsInv
<1>4. CASE MatrixGather \/ Exchange
  BY <1>4, CollectiveKeepsInv
<1>5. CASE UNCHANGED laneVars
  BY <1>5
  DEF laneVars, LaneInv, LaneTypeOK, InStep, LaneIsOpen, NothingAhead, PublishedIsBuilt,
      OutcomesAgree, AllIn, Stage, Submitted, IsOpen, SlotOf
<1>6. QED  BY <1>1, <1>2, <1>3, <1>4, <1>5 DEF LaneNext

\* The inductive invariant holds in every state of a forward pass
\* (lifecycle.py, communication_lane.py).
THEOREM LaneInvariant == LaneSpec => []LaneInv
  BY InitLaneInv, NextKeepsLaneInv, PTL DEF LaneSpec

\* The places, tasks and slots of the ranks have the values the code gives them.
THEOREM LaneTypeCorrect == LaneSpec => []LaneTypeOK
<1>1. LaneInv => LaneTypeOK  BY DEF LaneInv
<1>2. QED  BY <1>1, LaneInvariant, PTL

\* The gather of the lane never pairs two slots: its SLOT_MISMATCH branch is
\* unreachable, whatever the number of ranks and layers.
THEOREM SlotsAgree == LaneSpec => []LaneSlotsAgree
<1>1. LaneInv => LaneSlotsAgree  BY OneSlot DEF LaneSlotsAgree
<1>2. QED  BY <1>1, LaneInvariant, PTL

\* Ranks that have published a slot, in the same poll or in different ones, have
\* published the same plan.
THEOREM PlansAgree == LaneSpec => []PublishedPlansAgree
<1>1. LaneInv => PublishedPlansAgree  BY DEF LaneInv, PublishedIsBuilt, PublishedPlansAgree
<1>2. QED  BY <1>1, LaneInvariant, PTL

\* No slot is published on one rank and closed by the lane on another.
THEOREM OutcomeAgreement == LaneSpec => []OutcomesAgree
<1>1. LaneInv => OutcomesAgree  BY DEF LaneInv
<1>2. QED  BY <1>1, LaneInvariant, PTL
=============================================================================
