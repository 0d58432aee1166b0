--------------------------- MODULE ReleaseExecution ---------------------------
(***************************************************************************)
(* The exchange of one layer's tokens under a published plan: every rank   *)
(* of the group materialises the plan for its own part                     *)
(* (materialization/materializer.py, layout.py) and the peer-to-peer       *)
(* executor (execution/api.py) runs it for each payload, called through    *)
(* execution/transport_adapter.py.                                         *)
(*                                                                         *)
(* A flow is one row: a flow of several rows is read, sent and written as  *)
(* one contiguous block, so that an offset in rows is a number of flows.   *)
(***************************************************************************)
EXTENDS Integers, Sequences, FiniteSets

CONSTANTS
  N,           \* the ranks are 1 .. N
  Plans,       \* published plans: sequences of waves, a wave a sequence of flows
  Matrices,    \* rows the router really sends, from each rank to each rank
  MaxInflight, \* max_inflight_batches
  MaxForwards  \* bound on the forwards that use the plan

Ranks == 1 .. N

FlowType == [phase : {"P0", "P1"}, src : Ranks, dst : Ranks]

ASSUME ReleaseAssumption ==
  /\ N \in Nat \ {0} /\ MaxInflight \in Nat \ {0} /\ MaxForwards \in Nat \ {0}
  /\ \A plan \in Plans : plan \in Seq(Seq(FlowType))
  /\ Matrices \subseteq [Ranks -> [Ranks -> Nat]]

VARIABLES
  plan,      \* the plan all ranks have published
  actual,    \* the rows of this layer's dispatch
  at,        \* where the training thread of a rank is
  stage,     \* the payload it exchanges
  window,    \* the window of batches it is in
  consumed,  \* the invocations its execution guard has seen
  delivered, \* the payloads its release ledger has complete
  forward,   \* the number of its forward
  requests,  \* the posted isend and irecv that have not completed
  output     \* the rows written: [rank, stage, src, slot, row]

vars == <<plan, actual, at, stage, window, consumed, delivered, forward, requests, output>>

\* The payloads in the order of their exchange: hidden_states and routing_probs
\* of the dispatch, hidden_states of the return.
Stages == 1 .. 3
PhaseOf(k) == IF k = 3 THEN "P1" ELSE "P0"
RoleOf(k)  == IF k = 2 THEN 2 ELSE 1
Payloads(p) == IF p = "P0" THEN 2 ELSE 1

\* The return sends back what the dispatch brought.
Rows(p, s, d) == IF p = "P0" THEN actual[s][d] ELSE actual[d][s]

-----------------------------------------------------------------------------
\* CommonPlanMaterializer

\* The flows of a phase by their wave and their place in it
Flows(p) ==
  UNION {{<<w, i>> : i \in {j \in DOMAIN plan[w] : plan[w][j].phase = p}} : w \in DOMAIN plan}

Src(f) == plan[f[1]][f[2]].src
Dst(f) == plan[f[1]][f[2]].dst

\* A wave with a flow of the phase is a batch of every rank, also of a rank that
\* has no part in it: batches, and so windows, have one numbering in the group.
Batches(p) == {w \in DOMAIN plan : \E f \in Flows(p) : f[1] = w}

\* The flows of the phase that are materialised before a flow
Earlier(p, f) ==
  {g \in Flows(p) : g[1] < f[1] \/ (g[1] = f[1] /\ g[2] < f[2])}

Edge(p, s, d) == {f \in Flows(p) : Src(f) = s /\ Dst(f) = d}

\* Faulty variants: each is a plausible mistake in the operator it is named
\* after, for the property written beside it; no specification uses them.

\* RequestsPair: the flows of other ranks are not counted.
TagFault(r, k, f) ==
  RoleOf(k) + Payloads(PhaseOf(k)) *
    Cardinality({g \in Earlier(PhaseOf(k), f) : r \in {Src(g), Dst(g)}})

\* ReleaseEndsOrRaises: the flows of other ranks are counted once, not once for
\* each payload.
TagOnceFault(r, k, f) ==
  LET p == PhaseOf(k)
      own == {g \in Earlier(p, f) : r \in {Src(g), Dst(g)}} IN
  RoleOf(k) + Payloads(p) * Cardinality(own) + Cardinality(Earlier(p, f) \ own)

\* DeliveredIsComplete: the places on an edge are counted in each batch anew.
OffsetFault(p, f) ==
  Cardinality({g \in Earlier(p, f) \cap Edge(p, Src(f), Dst(f)) : g[1] = f[1]})

\* MismatchedEdgesAreSilent: only the rows a rank sends are checked.
LayoutIsValidFault(r, p) == \A e \in Ranks : Cardinality(Edge(p, r, e)) = Rows(p, r, e)

\* RowsAreSentOnce: the rows of a sender are counted in each batch anew.
SourceRowFault(p, f) ==
  Cardinality({g \in Earlier(p, f) : Src(g) = Src(f) /\ g[1] = f[1]})

\* OneWindowAtATime: the handles of the receives are not waited for.
OutstandingFault(r) == {q \in requests : q.kind = "send" /\ q.src = r}

\* next_transfer_tag: a rank counts the flows of the other ranks as well.
Tag(r, k, f) == RoleOf(k) + Payloads(PhaseOf(k)) * Cardinality(Earlier(PhaseOf(k), f))

\* send_offset_rows and recv_offset_rows: the place of a flow on its edge
Offset(p, f) == Cardinality(Earlier(p, f) \cap Edge(p, Src(f), Dst(f)))

\* validate_materialized_layout: a rank checks the rows it sends and the rows it
\* receives, and that a batch gives it one remote peer in each direction.
LayoutIsValid(r, p) ==
  /\ \A e \in Ranks : /\ Cardinality(Edge(p, r, e)) = Rows(p, r, e)
                      /\ Cardinality(Edge(p, e, r)) = Rows(p, e, r)
  /\ \A f, g \in Flows(p) :
       f[1] = g[1] =>
         /\ Src(f) = r /\ Src(g) = r => r \in {Dst(f), Dst(g)} \/ Dst(f) = Dst(g)
         /\ Dst(f) = r /\ Dst(g) = r => r \in {Src(f), Src(g)} \/ Src(f) = Src(g)

-----------------------------------------------------------------------------
\* P2PReleaseExecutor

\* _local_flow_source_offsets: a sender reads its rows in the order of the plan.
SourceRow(p, f) == Cardinality({g \in Earlier(p, f) : Src(g) = Src(f)})

\* _chunked_batches: the windows of max_inflight_batches batches each
WindowOf(p, f) ==
  1 + (Cardinality({w \in Batches(p) : w <= f[1]}) - 1) \div MaxInflight

Windows(p) == (Cardinality(Batches(p)) + MaxInflight - 1) \div MaxInflight

InWindow(p, w) == {f \in Flows(p) : WindowOf(p, f) = w}

Request(kind, r, k, f) ==
  [kind |-> kind, src |-> Src(f), dst |-> Dst(f),
   tag |-> Tag(r, k, f), stage |-> k, flow |-> f]

OwnerOf(q) == IF q.kind = "send" THEN q.src ELSE q.dst

\* What a rank posts for a window: all receives, then all sends, and it waits
\* only when they are all posted.
Posts(r, k, w) ==
  LET p == PhaseOf(k)
      remote == {f \in InWindow(p, w) : Src(f) # Dst(f)} IN
  {Request("recv", r, k, f) : f \in {g \in remote : Dst(g) = r}}
    \cup {Request("send", r, k, f) : f \in {g \in remote : Src(g) = r}}

\* A row in the output tensor, at the place _target_output_offset gives it
Written(k, f, row) ==
  [rank |-> Dst(f), stage |-> k, src |-> Src(f),
   slot |-> Offset(PhaseOf(k), f), row |-> row]

LocalCopies(r, k, w) ==
  {Written(k, f, SourceRow(PhaseOf(k), f)) :
     f \in InWindow(PhaseOf(k), w) \cap Edge(PhaseOf(k), r, r)}

Outstanding(r) == {q \in requests : OwnerOf(q) = r}

\* The payloads whose delivery releases the sends of a payload
Needs(r, k) ==
  IF PhaseOf(k) = "P1" /\ \E f \in Flows("P1") : Src(f) = r THEN {1, 2} ELSE {}

-----------------------------------------------------------------------------
ReleaseInit ==
  /\ plan \in Plans
  /\ actual \in Matrices
  /\ at        = [r \in Ranks |-> "hook"]
  /\ stage     = [r \in Ranks |-> 1]
  /\ window    = [r \in Ranks |-> 1]
  /\ consumed  = [r \in Ranks |-> {}]
  /\ delivered = [r \in Ranks |-> {}]
  /\ forward   = [r \in Ranks |-> 1]
  /\ requests  = {}
  /\ output    = {}

\* before_token_dispatch and before_token_combine: the plan is materialised for
\* the phase, and a layout that does not fit raises out of the hook.
Materialize(r) ==
  /\ at[r] = "hook"
  /\ at' = [at EXCEPT ![r] = IF LayoutIsValid(r, PhaseOf(stage[r])) THEN "call" ELSE "raised"]
  /\ UNCHANGED <<plan, actual, stage, window, consumed, delivered, forward, requests, output>>

\* CommonExecutionGuard: an invocation is its layer, phase, payload and call, but
\* not its forward, and is accepted once.
GuardAccepts(r, k) == k \notin consumed[r]

\* An invocation the guard has seen is refused, and a send that is not released.
\* Either way the adapter raises, which clears the ledger; otherwise a new output
\* tensor is made.
Call(r) ==
  LET k == stage[r] IN
  /\ at[r] = "call"
  /\ consumed' = [consumed EXCEPT ![r] = @ \cup {k}]
  /\ IF GuardAccepts(r, k) /\ Needs(r, k) \subseteq delivered[r]
     THEN /\ at' = [at EXCEPT ![r] = "post"]
          /\ output' = {o \in output : o.rank # r \/ o.stage # k}
          /\ UNCHANGED delivered
     ELSE /\ at' = [at EXCEPT ![r] = "raised"]
          /\ delivered' = [delivered EXCEPT ![r] = {}]
          /\ UNCHANGED output
  /\ UNCHANGED <<plan, actual, stage, window, forward, requests>>

PostWindow(r) ==
  LET k == stage[r] IN
  /\ at[r] = "post"
  /\ window[r] <= Windows(PhaseOf(k))
  /\ at' = [at EXCEPT ![r] = "wait"]
  /\ requests' = requests \cup Posts(r, k, window[r])
  /\ output' = output \cup LocalCopies(r, k, window[r])
  /\ UNCHANGED <<plan, actual, stage, window, consumed, delivered, forward>>

\* A receive meets a send with its source, destination and tag, and brings the
\* row the sender has read.  It is written to the output when the window is
\* complete, which nothing observes earlier.
Transfer ==
  \E s, q \in requests :
    /\ s.kind = "send" /\ q.kind = "recv"
    /\ <<s.src, s.dst, s.tag>> = <<q.src, q.dst, q.tag>>
    /\ requests' = requests \ {s, q}
    /\ output' = output \cup
         {Written(q.stage, q.flow, SourceRow(PhaseOf(s.stage), s.flow))}
    /\ UNCHANGED <<plan, actual, at, stage, window, consumed, delivered, forward>>

FinishWindow(r) ==
  /\ at[r] = "wait"
  /\ Outstanding(r) = {}
  /\ at' = [at EXCEPT ![r] = "post"]
  /\ window' = [window EXCEPT ![r] = @ + 1]
  /\ UNCHANGED <<plan, actual, stage, consumed, delivered, forward, requests, output>>

\* A wait that raises fails the outcome, and the adapter raises.  What the rank has
\* posted stays with the transport.
WorkFails(r) ==
  /\ at[r] = "wait"
  /\ Outstanding(r) # {}
  /\ at' = [at EXCEPT ![r] = "failed"]
  /\ delivered' = [delivered EXCEPT ![r] = {}]
  /\ UNCHANGED <<plan, actual, stage, window, consumed, forward, requests, output>>

\* The payload is recorded and the thread goes on: to the next payload of the
\* phase, to the hook of the next phase, or to the end of the layer.  The loop over
\* windows starts anew with each payload.
CompletePayload(r) ==
  LET k == stage[r] IN
  /\ at[r] = "post"
  /\ window[r] > Windows(PhaseOf(k))
  /\ delivered' = [delivered EXCEPT ![r] = @ \cup {k}]
  /\ window' = [window EXCEPT ![r] = 1]
  /\ IF k = 3
     THEN at' = [at EXCEPT ![r] = "done"] /\ UNCHANGED stage
     ELSE /\ at' = [at EXCEPT ![r] = IF PhaseOf(k + 1) = PhaseOf(k) THEN "call" ELSE "hook"]
          /\ stage' = [stage EXCEPT ![r] = k + 1]
  /\ UNCHANGED <<plan, actual, consumed, forward, requests, output>>

\* The next forward starts with an empty release ledger; the guard belongs to the
\* runtime and stays as it is.
NextForward(r) ==
  /\ at[r] = "done"
  /\ forward[r] < MaxForwards
  /\ forward' = [forward EXCEPT ![r] = @ + 1]
  /\ at' = [at EXCEPT ![r] = "hook"]
  /\ stage' = [stage EXCEPT ![r] = 1]
  /\ delivered' = [delivered EXCEPT ![r] = {}]
  /\ UNCHANGED <<plan, actual, window, consumed, requests, output>>

-----------------------------------------------------------------------------
RankStep(r) ==
  \/ Materialize(r)
  \/ Call(r)
  \/ PostWindow(r)
  \/ FinishWindow(r)
  \/ CompletePayload(r)
  \/ NextForward(r)

ReleaseNext ==
  \/ \E r \in Ranks : RankStep(r) \/ WorkFails(r)
  \/ Transfer

\* The threads run and a pair of requests that match completes; nothing has to
\* fail.
ReleaseFairness ==
  /\ \A r \in Ranks : WF_vars(RankStep(r))
  /\ WF_vars(Transfer)

ReleaseSpec == ReleaseInit /\ [][ReleaseNext]_vars /\ ReleaseFairness

-----------------------------------------------------------------------------
\* Properties

ReleaseTypeOK ==
  /\ plan \in Plans
  /\ actual \in Matrices
  /\ at        \in [Ranks -> {"hook", "call", "post", "wait", "done", "raised", "failed"}]
  /\ stage     \in [Ranks -> Stages]
  /\ window    \in [Ranks -> Nat \ {0}]
  /\ consumed  \in [Ranks -> SUBSET Stages]
  /\ delivered \in [Ranks -> SUBSET Stages]
  /\ forward   \in [Ranks -> 1 .. MaxForwards]
  /\ requests \subseteq [kind : {"send", "recv"}, src : Ranks, dst : Ranks, tag : Nat,
                         stage : Stages, flow : Flows("P0") \cup Flows("P1")]
  /\ output \subseteq [rank : Ranks, stage : Stages, src : Ranks, slot : Nat, row : Nat]
  /\ \A r \in Ranks : window[r] <= Windows(PhaseOf(stage[r])) + 1

\* The tags each rank counts for itself agree across the group: a send and a
\* receive that can meet are for the same payload of the same flow, also while
\* one rank is a window or a payload ahead of the other.
RequestsPair ==
  \A s, q \in requests :
    /\ s.kind = "send" /\ q.kind = "recv"
    /\ <<s.src, s.dst, s.tag>> = <<q.src, q.dst, q.tag>>
    => s.stage = q.stage /\ s.flow = q.flow

\* A payload that is recorded as delivered, which releases the return's sends, has
\* every row of its output written, and written once.
DeliveredIsComplete ==
  \A r, s \in Ranks : \A k \in delivered[r] :
    \A n \in 0 .. Rows(PhaseOf(k), s, r) - 1 :
      Cardinality({o \in output : o.rank = r /\ o.stage = k /\ o.src = s /\ o.slot = n}) = 1

\* No row of a sender reaches two places: whatever order the rows are read in,
\* a flow never reads the rows of another one.
RowsAreSentOnce ==
  \A o, u \in output :
    o.src = u.src /\ o.stage = u.stage /\ o.row = u.row => o = u

\* Each rank checks only its own rows, and yet nothing is posted for an edge on
\* which the plan and the router disagree, at either end of it.
MismatchedEdgesAreSilent ==
  \A q \in requests :
    Cardinality(Edge(PhaseOf(q.stage), q.src, q.dst)) = Rows(PhaseOf(q.stage), q.src, q.dst)

\* A rank that posts for the return of a layer has nothing left of its dispatch:
\* its requests belong to one payload and one window at a time.
OneWindowAtATime ==
  \A q, u \in requests :
    OwnerOf(q) = OwnerOf(u) =>
      /\ q.stage = u.stage
      /\ WindowOf(PhaseOf(q.stage), q.flow) = WindowOf(PhaseOf(u.stage), u.flow)

\* No rank waits for ever under a plan that fits: the exchanges end on every
\* rank, or some rank has raised.
ReleaseEndsOrRaises ==
  <>((\A r \in Ranks : at[r] = "done" /\ forward[r] = MaxForwards)
       \/ \E r \in Ranks : at[r] \in {"raised", "failed"})

\* experiments/distributed/run_m2_formal_execution_gloo.py:136 expects the rows
\* from "source_peer_base = int(sum(int(matrix[src_group_rank][peer]) for peer in
\* range(local_group_rank)))" on, else "p2p output mismatch" (260): a slot holds
\* the row the sender has packed for it, where rows lie in the order of their
\* destinations.
PackedRow(p, s, d, slot) ==
  slot + Cardinality(UNION {{<<e, n>> : n \in 1 .. Rows(p, s, e)} : e \in 1 .. d - 1})

ReceivesItsOwnRows ==
  \A o \in output : o.row = PackedRow(PhaseOf(o.stage), o.src, o.rank, o.slot)
=============================================================================
