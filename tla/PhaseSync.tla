------------------------------ MODULE PhaseSync ------------------------------
(***************************************************************************)
(* The synchronous mode: the members of an expert group agree on a plan    *)
(* for a phase (control/plan_agreement.py) and execute it wave by wave     *)
(* (execution/sync_wave_executor.py), all with blocking collectives of one *)
(* process group.  The hooks are those of lifecycle.py and the calls come  *)
(* through execution/transport_adapter.py.                                 *)
(*                                                                         *)
(* A collective is matched by its number: the n-th call of a member meets  *)
(* the n-th call of the others.  On a device the steps are the stream's.   *)
(***************************************************************************)
EXTENDS Integers, Sequences, FiniteSets, SequencesExt

CONSTANTS
  Group,       \* the global ranks of the members, in order
  Matrices,    \* the rows a router may send, from each member to each member
  BucketSizes, \* bucket_rows; 0 puts an edge in one bucket
  Policies,    \* the phase-local policies
  Layers       \* how many layers are scheduled

N == Len(Group)
Members == 1 .. N

ASSUME SyncAssumption ==
  /\ Group \in Seq(Nat) /\ N > 1
  /\ \A i, j \in Members : i < j => Group[i] < Group[j]
  /\ Matrices \subseteq [Members -> [Members -> Nat]] /\ Layers \in Nat \ {0}
  /\ BucketSizes \subseteq Nat
  /\ Policies \subseteq {"phase_barrier_fifo", "trivial_reverse_bucket"}

VARIABLES
  demand,   \* the rows of each layer's dispatch
  setup,    \* the configuration: [policy, bucket_rows]
  calls,    \* the collectives each member has called: [op, data]
  at,       \* where the training thread of a member is
  plan,     \* its plan of the phase: [bucket_rows, waves]
  wave,     \* the wave it executes
  output,   \* its output tensor
  delivered \* the tensors given back to the model

vars == <<demand, setup, calls, at, plan, wave, output, delivered>>

Exchange == INSTANCE NativeExchange

NoPlan == [bucket_rows |-> 0, waves |-> <<>>]
Unwritten == <<>>

\* The payload a member is at, and the splits of its phase
Payload(i) == Len(delivered[i]) + 1
Rows(i, s, d) == Exchange!Rows(Payload(i), s, d)

SumOf(f(_), set) == MapThenSumSet(f, set)

-----------------------------------------------------------------------------
\* The planner's side: run_phase_plan_agreement, the phase-local policies

\* The place in the group is compared with the global rank of the root.
IsPlanner(i) == i - 1 = Group[1]

\* to_planning_summary
Summary(i) ==
  {[src |-> i, dst |-> d, rows |-> Rows(i, i, d)] :
     d \in {e \in Members \ {i} : Rows(i, i, e) > 0}}

\* A faulty variant, for ExchangeEnds: the last rank is left out of the tensor.
EncodedFault(i) == {e \in Summary(i) : Group[e.dst] < N - 1}

\* The tensor has a place for each of the ranks 0 .. N-1.
Encoded(i) == {e \in Summary(i) : Group[e.dst] < N}

StepOf(rows, b) == IF b = 0 THEN rows ELSE b
Buckets(rows, b) == IF rows = 0 THEN 0 ELSE (rows + StepOf(rows, b) - 1) \div StepOf(rows, b)
RowsOf(rows, b, bucket) ==
  LET left == rows - bucket * StepOf(rows, b) IN
  IF left < StepOf(rows, b) THEN left ELSE StepOf(rows, b)

\* The planner has its own context whole and the others' from their summaries.
Collected(i) ==
  UNION {IF j = i THEN Summary(i) ELSE calls[j][Len(calls[i])].data : j \in Members}

Tasks(edges, b) ==
  UNION {{[src |-> e.src, dst |-> e.dst, bucket |-> o] : o \in 0 .. Buckets(e.rows, b) - 1} :
           e \in edges}

\* fifo_task_key and reverse_bucket_task_key
Before(u, t) ==
  \/ u.src < t.src
  \/ u.src = t.src /\ u.dst < t.dst
  \/ /\ u.src = t.src /\ u.dst = t.dst
     /\ IF setup.policy = "phase_barrier_fifo" THEN u.bucket < t.bucket ELSE u.bucket > t.bucket

Ordered(tasks) ==
  [k \in 1 .. Cardinality(tasks) |->
     CHOOSE t \in tasks : Cardinality({u \in tasks : Before(u, t)}) = k - 1]

\* pack_phase_tasks: the first wave where sender and receiver are free
Task == [src : Members, dst : Members, bucket : Nat]
Place[p \in Seq(SUBSET Task) \X Task] ==
  LET waves == p[1]
      t == p[2]
      w == SelectInSeq(waves, LAMBDA v : \A u \in v : u.src # t.src /\ u.dst # t.dst)
  IN IF w = 0 THEN Append(waves, {t}) ELSE [waves EXCEPT ![w] = @ \cup {t}]

Pack(tasks) == FoldLeft(LAMBDA waves, t : Place[<<waves, t>>], <<>>, Ordered(tasks))

PlanOf(i) ==
  [bucket_rows |-> setup.bucket_rows, waves |-> Pack(Tasks(Collected(i), setup.bucket_rows))]

\* The elements of the encoded plan
Numel(p) == 16 + SumOf(LAMBDA w : 2 + 4 * Cardinality(p.waves[w]), DOMAIN p.waves)

-----------------------------------------------------------------------------
\* Every member's side: materialize_local_execution_plan

\* Faulty variants: each is a plausible mistake in the operator it is named
\* after, for the property written beside it; no specification uses them.

\* CollectivesAgree: the last bucket of a receive slot is not cut to what is left.
TaskRowsFault(i, p, t) ==
  LET rows == Rows(i, t.src, t.dst) IN
  IF t.dst = i THEN StepOf(rows, p.bucket_rows) ELSE RowsOf(rows, p.bucket_rows, t.bucket)

\* ExchangesNatively: every bucket is written to the start of its slot.
RecvOffsetFault(i, p, t) == SumOf(LAMBDA s : Rows(i, s, i), 1 .. t.src - 1)

\* The references a member finds in its own catalogues; others are dropped.
Materialised(i, p) ==
  [bucket_rows |-> p.bucket_rows,
   waves |-> [w \in DOMAIN p.waves |->
     {t \in p.waves[w] : /\ i \in {t.src, t.dst}
                         /\ t.bucket \in 0 .. Buckets(Rows(i, t.src, t.dst), p.bucket_rows) - 1}]]

TaskRows(i, p, t) == RowsOf(Rows(i, t.src, t.dst), p.bucket_rows, t.bucket)
Consumed(i, p, t) == t.bucket * StepOf(Rows(i, t.src, t.dst), p.bucket_rows)

\* validate_phase_execution_plan
Validates(i, p) ==
  /\ \A w \in DOMAIN p.waves : \A t, u \in p.waves[w] : t # u => t.src # u.src /\ t.dst # u.dst
  /\ \A d \in Members \ {i} :
       LET places == UNION {{<<w, t>> : t \in {u \in p.waves[w] : u.src = i /\ u.dst = d}} :
                              w \in DOMAIN p.waves}
       IN SumOf(LAMBDA x : TaskRows(i, p, x[2]), places) = Rows(i, i, d)

\* sender_offset_rows and receiver_offset_rows
SendOffset(i, p, t) == SumOf(LAMBDA d : Rows(i, i, d), 1 .. t.dst - 1) + Consumed(i, p, t)
RecvOffset(i, p, t) == SumOf(LAMBDA s : Rows(i, s, i), 1 .. t.src - 1) + Consumed(i, p, t)

\* _copy_segment
Written(tensor, offset, rows) ==
  [x \in DOMAIN tensor |->
     IF x > offset /\ x <= offset + Len(rows) THEN rows[x - offset] ELSE tensor[x]]

-----------------------------------------------------------------------------
\* Collectives

Post(i, op, data) == calls' = [calls EXCEPT ![i] = Append(@, [op |-> op, data |-> data])]

\* A member has made the call another one waits in.
Joins(j, i) ==
  LET n == Len(calls[i]) IN n <= Len(calls[j]) /\ calls[j][n].op = calls[i][n].op

\* A gather waits for all, a broadcast for the root of the group, an exchange
\* for the members that have rows for the caller.
MayReturn(i) ==
  LET call == Last(calls[i]) IN
  CASE call.op \in {"matrix", "summary"} -> \A j \in Members : Joins(j, i)
    [] call.op \in {"length", "payload"} -> Joins(1, i)
    [] call.op = "wave" -> \A s \in Members : call.data.recv[s] > 0 => Joins(s, i)

Raise(i) ==
  /\ at' = [at EXCEPT ![i] = "raised"]
  /\ UNCHANGED <<demand, setup, calls, plan, wave, output, delivered>>

-----------------------------------------------------------------------------
\* The hooks and run_phase_plan_agreement, a step up to the next collective

\* before_token_dispatch gathers the matrix of the dispatch, which this mode only
\* records; before_token_combine goes to the agreement at once.
BeforeTokenDispatch(i) ==
  /\ at[i] = "hook" /\ Exchange!PhaseOf(Payload(i)) = "P0"
  /\ Post(i, "matrix", {})
  /\ at' = [at EXCEPT ![i] = "matrix"]
  /\ UNCHANGED <<demand, setup, plan, wave, output, delivered>>

Summarise(i) ==
  /\ Post(i, "summary", Encoded(i))
  /\ at' = [at EXCEPT ![i] = "summary"]
  /\ UNCHANGED <<demand, setup, plan, wave, output, delivered>>

BeforeTokenCombine(i) ==
  at[i] = "hook" /\ Exchange!PhaseOf(Payload(i)) = "P1" /\ Summarise(i)

MatrixGathered(i) == at[i] = "matrix" /\ MayReturn(i) /\ Summarise(i)

\* The planner builds the plan from the context of the root; a planner that is
\* not the root has only a summary there, which cannot be validated.
BuildPlan(i) ==
  /\ at[i] = "summary" /\ MayReturn(i) /\ IsPlanner(i)
  /\ IF i = 1 /\ Validates(i, PlanOf(i))
     THEN /\ plan' = [plan EXCEPT ![i] = PlanOf(i)]
          /\ Post(i, "length", Numel(PlanOf(i)))
          /\ at' = [at EXCEPT ![i] = "length"]
          /\ UNCHANGED <<demand, setup, wave, output, delivered>>
     ELSE Raise(i)

AwaitPlan(i) ==
  /\ at[i] = "summary" /\ MayReturn(i) /\ ~IsPlanner(i)
  /\ Post(i, "length", 0)
  /\ at' = [at EXCEPT ![i] = "length"]
  /\ UNCHANGED <<demand, setup, plan, wave, output, delivered>>

LengthKnown(i) ==
  /\ at[i] = "length" /\ MayReturn(i)
  /\ Post(i, "payload", plan[i])
  /\ at' = [at EXCEPT ![i] = "payload"]
  /\ UNCHANGED <<demand, setup, plan, wave, output, delivered>>

\* An empty payload has no header to decode; a plan that does not cover the rows
\* of the member is refused.
Materialise(i) ==
  /\ at[i] = "payload" /\ MayReturn(i)
  /\ LET n == Len(calls[i])
         local == Materialised(i, calls[1][n].data) IN
     IF calls[1][n - 1].data > 0 /\ Validates(i, local)
     THEN /\ plan' = [plan EXCEPT ![i] = local]
          /\ at' = [at EXCEPT ![i] = "transport"]
          /\ UNCHANGED <<demand, setup, calls, wave, output, delivered>>
     ELSE Raise(i)

-----------------------------------------------------------------------------
\* execute_scheduled_phase_tensor

\* A new tensor of the received rows, with the rows that stay on the member
StartPayload(i) ==
  /\ at[i] = "transport"
  /\ LET k == Payload(i)
         sum(t) == SumOf(LAMBDA s : Rows(i, s, i), t)
         own == SubSeq(Exchange!Sent(i, k), SumOf(LAMBDA d : Rows(i, i, d), 1 .. i - 1) + 1,
                       SumOf(LAMBDA d : Rows(i, i, d), 1 .. i))
     IN output' = [output EXCEPT ![i] =
                     Written([x \in 1 .. sum(Members) |-> Unwritten], sum(1 .. i - 1), own)]
  /\ wave' = [wave EXCEPT ![i] = 1]
  /\ at' = [at EXCEPT ![i] = "executing"]
  /\ UNCHANGED <<demand, setup, calls, plan, delivered>>

\* The rows of some tasks of a wave, and how many are expected for some
Slice(i, t) ==
  LET sent == Exchange!Sent(i, Payload(i))
      off  == SendOffset(i, plan[i], t)
  IN [x \in 1 .. TaskRows(i, plan[i], t) |-> sent[off + x]]
Packed(i, tasks)   == Exchange!Joined(SetToSeq({Slice(i, t) : t \in tasks}))
Expected(i, tasks) == SumOf(LAMBDA t : TaskRows(i, plan[i], t), tasks)

\* The collective of a wave; a member with no part in it takes part with nothing.
EnterWave(i) ==
  /\ at[i] = "executing" /\ wave[i] \in DOMAIN plan[i].waves
  /\ LET Edge(s, d) == {t \in plan[i].waves[wave[i]] : t.src = s /\ t.dst = d}
     IN Post(i, "wave", [send |-> [d \in Members |-> Packed(i, Edge(i, d))],
                         recv |-> [s \in Members |-> Expected(i, Edge(s, i))]])
  /\ at' = [at EXCEPT ![i] = "wave"]
  /\ UNCHANGED <<demand, setup, plan, wave, output, delivered>>

\* The rows that came are copied to the place of the task they belong to.
LeaveWave(i) ==
  /\ at[i] = "wave" /\ MayReturn(i)
  /\ LET n == Len(calls[i])
         came(t) == calls[t.src][n].data.send[i]
         tasks == {t \in plan[i].waves[wave[i]] : t.dst = i}
     IN output' = [output EXCEPT ![i] =
          IF tasks = {} THEN @
          ELSE LET t == CHOOSE u \in tasks : TRUE
               IN Written(@, RecvOffset(i, plan[i], t), came(t))]
  /\ wave' = [wave EXCEPT ![i] = @ + 1]
  /\ at' = [at EXCEPT ![i] = "executing"]
  /\ UNCHANGED <<demand, setup, calls, plan, delivered>>

\* A faulty variant, for PhasesDoNotOverlap: the return reuses the plan of the
\* dispatch, turned round, and needs no agreement.
FinishPayloadFault(i) ==
  /\ at[i] = "executing" /\ wave[i] \notin DOMAIN plan[i].waves
  /\ LET k == Payload(i)
         back(t) == [src |-> t.dst, dst |-> t.src, bucket |-> t.bucket] IN
     /\ at' = [at EXCEPT ![i] = IF k % 3 # 0 THEN "transport"
                                 ELSE IF k = Exchange!Payloads THEN "done" ELSE "hook"]
     /\ plan' = [plan EXCEPT ![i].waves =
                    IF k % 3 # 2 THEN @ ELSE [w \in DOMAIN @ |-> {back(t) : t \in @[w]}]]
  /\ delivered' = [delivered EXCEPT ![i] = Append(@, output[i])]
  /\ output' = [output EXCEPT ![i] = <<>>]
  /\ wave' = [wave EXCEPT ![i] = 0]
  /\ UNCHANGED <<demand, setup, calls>>

\* The tensor goes back to the model; after the last payload of a phase
\* after_token_dispatch or after_token_combine clears the transport.
FinishPayload(i) ==
  /\ at[i] = "executing" /\ wave[i] \notin DOMAIN plan[i].waves
  /\ LET last == Payload(i) % 3 # 1 IN
     /\ at' = [at EXCEPT ![i] = IF ~last THEN "transport"
                                 ELSE IF Payload(i) = Exchange!Payloads THEN "done" ELSE "hook"]
     /\ plan' = [plan EXCEPT ![i] = IF last THEN NoPlan ELSE @]
  /\ delivered' = [delivered EXCEPT ![i] = Append(@, output[i])]
  /\ output' = [output EXCEPT ![i] = <<>>]
  /\ wave' = [wave EXCEPT ![i] = 0]
  /\ UNCHANGED <<demand, setup, calls>>

-----------------------------------------------------------------------------
Init ==
  /\ demand \in [1 .. Layers -> Matrices]
  /\ setup \in [policy : Policies, bucket_rows : BucketSizes]
  /\ calls = [i \in Members |-> <<>>]
  /\ at = [i \in Members |-> "hook"]
  /\ plan = [i \in Members |-> NoPlan]
  /\ wave = [i \in Members |-> 0]
  /\ output = [i \in Members |-> <<>>]
  /\ delivered = [i \in Members |-> <<>>]

Member(i) ==
  \/ BeforeTokenDispatch(i) \/ BeforeTokenCombine(i) \/ MatrixGathered(i)
  \/ BuildPlan(i) \/ AwaitPlan(i) \/ LengthKnown(i) \/ Materialise(i)
  \/ StartPayload(i) \/ EnterWave(i) \/ LeaveWave(i) \/ FinishPayload(i)

Next == \E i \in Members : Member(i)

\* A collective is only sure to return when every member has made its call:
\* whether it returns earlier is the backend's choice.
Met(i) ==
  at[i] \in {"matrix", "summary", "length", "payload", "wave"} =>
    \A j \in Members : Joins(j, i)

SyncSpec == Init /\ [][Next]_vars /\ \A i \in Members : WF_vars(Met(i) /\ Member(i))

-----------------------------------------------------------------------------
\* The members make the same collectives in the same order: where a wave leaves
\* a member without a task, its call is what the others wait for.  In every wave
\* a member expects from each other exactly the rows that member sends, although
\* the two cut the edge into buckets on their own, from their own splits.
CollectivesAgree ==
  \A i, j \in Members : \A n \in DOMAIN calls[i] \cap DOMAIN calls[j] :
    /\ calls[i][n].op = calls[j][n].op
    /\ calls[i][n].op = "wave" => calls[i][n].data.recv[j] = Len(calls[j][n].data.send[i])

\* Rows of two phases never travel at a time: a member moves rows of a phase only
\* when all have left the phase before, whatever the broadcasts let it run ahead.
PhasesDoNotOverlap ==
  \A i, j \in Members :
    at[i] = "wave" /\ at[j] = "wave" =>
      /\ Exchange!PhaseOf(Payload(i)) = Exchange!PhaseOf(Payload(j))
      /\ (Payload(i) - 1) \div 3 = (Payload(j) - 1) \div 3

\* Agreement and waves give every member the tensors the native all-to-all gives
\* it: each row once, at its place, none of another payload, none unwritten.
ExchangesNatively == Exchange!Spec

\* With sure collectives only, every member gets through all its layers.
ExchangeEnds == <>[](\A i \in Members : at[i] = "done")

\* The contract of the hot path: the root gathers the summaries and builds the
\* plan that is broadcast.
RootPlansThePhase ==
  \A n \in DOMAIN calls[1] : calls[1][n].op = "length" => calls[1][n].data > 0
=============================================================================
