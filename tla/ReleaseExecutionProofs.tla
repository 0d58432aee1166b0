------------------------ MODULE ReleaseExecutionProofs ------------------------
(***************************************************************************)
(* What the exchange of a layer guarantees for any plan, any number of     *)
(* ranks and any rows.  First the requests of one rank: they belong to the *)
(* window the rank waits in, and to a phase whose layout the rank has      *)
(* checked.  Then the exchange between ranks, which rests on two things:   *)
(* the numbers the ranks give to flows without asking each other are       *)
(* distinct and without gaps, and the two ends of a flow complete          *)
(* together, however far one rank is ahead of the other.                   *)
(***************************************************************************)
EXTENDS ReleaseExecution, FiniteSetTheorems, TLAPS

Places == {"hook", "call", "post", "wait", "done", "raised", "failed"}

DriverType ==
  /\ plan \in Plans /\ actual \in Matrices
  /\ at     \in [Ranks -> Places]
  /\ stage  \in [Ranks -> Stages]
  /\ window \in [Ranks -> Nat \ {0}]

\* A rank that is past the hook of a phase has found its layout valid.
LayoutIsChecked ==
  \A r \in Ranks : at[r] \in {"call", "post", "wait"} => LayoutIsValid(r, PhaseOf(stage[r]))

\* A posted request is one of the window its rank waits in, or waited in when the
\* wait failed.
Current(q) ==
  LET o == OwnerOf(q) IN
  /\ q.src \in Ranks /\ q.dst \in Ranks
  /\ at[o] \in {"wait", "failed"}
  /\ q.stage = stage[o]
  /\ q.flow \in InWindow(PhaseOf(stage[o]), window[o])
  /\ LayoutIsValid(o, PhaseOf(stage[o]))

RequestsAreCurrent == \A q \in requests : Current(q)

ReleaseInv == DriverType /\ LayoutIsChecked /\ RequestsAreCurrent

\* What is said of a rank or a request carries over a step that keeps the plan,
\* the rows and what the rank is at.
LEMMA PlanIsKept ==
  ASSUME plan' = plan, actual' = actual
  PROVE  /\ \A r, p : LayoutIsValid(r, p)' <=> LayoutIsValid(r, p)
         /\ \A p, w : InWindow(p, w)' = InWindow(p, w)
<1>1. \A f : Src(f)' = Src(f) /\ Dst(f)' = Dst(f)
  BY DEF Src, Dst
<1>2. \A p : Flows(p)' = Flows(p)
  BY DEF Flows
<1>3. \A p, s, d : Edge(p, s, d)' = Edge(p, s, d)
  BY <1>1, <1>2 DEF Edge
<1>4. \A p, s, d : Rows(p, s, d)' = Rows(p, s, d)
  BY DEF Rows
<1>5. \A p, f : WindowOf(p, f)' = WindowOf(p, f)
  <2>1. \A p : Batches(p)' = Batches(p)
    BY <1>2 DEF Batches
  <2> QED BY <2>1 DEF WindowOf
<1>6. \A r, p : LayoutIsValid(r, p)' <=> LayoutIsValid(r, p)
  BY <1>1, <1>2, <1>3, <1>4 DEF LayoutIsValid
<1>7. \A p, w : InWindow(p, w)' = InWindow(p, w)
  BY <1>2, <1>5 DEF InWindow
<1> QED BY <1>6, <1>7

\* The ends of a flow of a plan are ranks.
LEMMA FlowsAreTyped ==
  ASSUME plan \in Plans, NEW p, NEW f \in Flows(p)
  PROVE  Src(f) \in Ranks /\ Dst(f) \in Ranks
<1>1. PICK w \in DOMAIN plan : \E i \in DOMAIN plan[w] : f = <<w, i>>
  BY DEF Flows
<1>2. PICK i \in DOMAIN plan[w] : f = <<w, i>>
  BY <1>1
<1>3. plan \in Seq(Seq(FlowType))
  BY ReleaseAssumption
<1>4. plan[w] \in Seq(FlowType)
  BY <1>3
<1>5. plan[w][i] \in FlowType
  BY <1>4
<1> QED BY <1>2, <1>5 DEF FlowType, Src, Dst
\* A request stays current when the place, the payload and the window of its
\* rank do not change.
LEMMA CurrentIsKept ==
  ASSUME plan' = plan, actual' = actual, NEW q, Current(q),
         at'[OwnerOf(q)] \in {"wait", "failed"},
         stage'[OwnerOf(q)] = stage[OwnerOf(q)], window'[OwnerOf(q)] = window[OwnerOf(q)]
  PROVE  Current(q)'
BY PlanIsKept DEF Current, OwnerOf

\* The step of a rank that has no request outstanding, or that only raises,
\* leaves the requests of the others as they are.
LEMMA RankKeepsRequests ==
  ASSUME ReleaseInv, NEW r \in Ranks, plan' = plan, actual' = actual,
         at[r] \notin {"wait", "failed"} \/ Outstanding(r) = {},
         \A s \in Ranks \ {r} :
           at'[s] = at[s] /\ stage'[s] = stage[s] /\ window'[s] = window[s]
  PROVE  \A q \in requests : OwnerOf(q) # r /\ Current(q)'
<1> SUFFICES ASSUME NEW q \in requests PROVE OwnerOf(q) # r /\ Current(q)'
  OBVIOUS
<1>1. Current(q)
  BY DEF ReleaseInv, RequestsAreCurrent
<1>2. OwnerOf(q) \in Ranks /\ at[OwnerOf(q)] \in {"wait", "failed"}
  BY <1>1 DEF Current, OwnerOf
<1>3. OwnerOf(q) # r
  BY <1>2 DEF Outstanding
<1> QED BY <1>1, <1>2, <1>3, CurrentIsKept

\* Likewise for what the other ranks have checked.
LEMMA LayoutIsKept ==
  ASSUME ReleaseInv, NEW r \in Ranks, plan' = plan, actual' = actual,
         \A s \in Ranks \ {r} : at'[s] = at[s] /\ stage'[s] = stage[s],
         at'[r] \in {"call", "post", "wait"} => LayoutIsValid(r, PhaseOf(stage'[r]))
  PROVE  LayoutIsChecked'
<1> SUFFICES ASSUME NEW s \in Ranks, at'[s] \in {"call", "post", "wait"}
             PROVE  LayoutIsValid(s, PhaseOf(stage'[s]))
  BY PlanIsKept DEF LayoutIsChecked
<1>1. CASE s = r
  BY <1>1
<1>2. CASE s # r
  BY <1>2 DEF ReleaseInv, LayoutIsChecked
<1> QED BY <1>1, <1>2

LEMMA ReleaseInitInv == ReleaseInit => ReleaseInv
BY DEF ReleaseInit, ReleaseInv, DriverType, LayoutIsChecked, RequestsAreCurrent, Places, Stages

LEMMA ReleaseNextInv == ReleaseInv /\ [ReleaseNext]_vars => ReleaseInv'
<1> SUFFICES ASSUME ReleaseInv, [ReleaseNext]_vars PROVE ReleaseInv'
  OBVIOUS
<1> USE DEF Places, Stages
<1>1. ASSUME NEW r \in Ranks, Materialize(r) PROVE ReleaseInv'
  <2>1. DriverType'
    BY <1>1 DEF Materialize, ReleaseInv, DriverType
  <2>2. LayoutIsChecked'
    BY <1>1, LayoutIsKept DEF Materialize, ReleaseInv, DriverType
  <2>3. RequestsAreCurrent'
    BY <1>1, RankKeepsRequests DEF Materialize, ReleaseInv, DriverType, RequestsAreCurrent
  <2> QED BY <2>1, <2>2, <2>3 DEF ReleaseInv
<1>2. ASSUME NEW r \in Ranks, Call(r) PROVE ReleaseInv'
  <2>1. DriverType'
    BY <1>2 DEF Call, ReleaseInv, DriverType
  <2>2. LayoutIsChecked'
    <3>1. LayoutIsValid(r, PhaseOf(stage[r]))
      BY <1>2 DEF Call, ReleaseInv, LayoutIsChecked
    <3> QED BY <1>2, <3>1, LayoutIsKept DEF Call, ReleaseInv, DriverType
  <2>3. RequestsAreCurrent'
    BY <1>2, RankKeepsRequests DEF Call, ReleaseInv, DriverType, RequestsAreCurrent
  <2> QED BY <2>1, <2>2, <2>3 DEF ReleaseInv
<1>3. ASSUME NEW r \in Ranks, PostWindow(r) PROVE ReleaseInv'
  <2>0. LayoutIsValid(r, PhaseOf(stage[r]))
    BY <1>3 DEF PostWindow, ReleaseInv, LayoutIsChecked
  <2>1. DriverType'
    BY <1>3 DEF PostWindow, ReleaseInv, DriverType
  <2>2. LayoutIsChecked'
    BY <1>3, <2>0, LayoutIsKept DEF PostWindow, ReleaseInv, DriverType
  <2>3. \A q \in requests : Current(q)'
    BY <1>3, RankKeepsRequests DEF PostWindow, ReleaseInv, DriverType
  <2>4. ASSUME NEW q \in Posts(r, stage[r], window[r]) PROVE Current(q)'
    <3>1. PICK f \in InWindow(PhaseOf(stage[r]), window[r]) :
            q.src = Src(f) /\ q.dst = Dst(f) /\ q.stage = stage[r] /\ q.flow = f
              /\ OwnerOf(q) = r
      BY <2>4 DEF Posts, Request, OwnerOf
    <3>2. q.src \in Ranks /\ q.dst \in Ranks
      BY <3>1, FlowsAreTyped DEF InWindow, ReleaseInv, DriverType
    <3>3. at'[r] = "wait" /\ stage' = stage /\ window' = window /\ plan' = plan /\ actual' = actual
      BY <1>3 DEF PostWindow, ReleaseInv, DriverType
    <3> QED BY <2>0, <3>1, <3>2, <3>3, PlanIsKept DEF Current
  <2>5. RequestsAreCurrent'
    BY <1>3, <2>3, <2>4 DEF PostWindow, RequestsAreCurrent
  <2> QED BY <2>1, <2>2, <2>5 DEF ReleaseInv
<1>4. ASSUME NEW r \in Ranks, FinishWindow(r) PROVE ReleaseInv'
  <2>1. DriverType'
    BY <1>4 DEF FinishWindow, ReleaseInv, DriverType
  <2>2. LayoutIsChecked'
    <3>1. LayoutIsValid(r, PhaseOf(stage[r]))
      BY <1>4 DEF FinishWindow, ReleaseInv, LayoutIsChecked
    <3> QED BY <1>4, <3>1, LayoutIsKept DEF FinishWindow, ReleaseInv, DriverType
  <2>3. RequestsAreCurrent'
    BY <1>4, RankKeepsRequests DEF FinishWindow, ReleaseInv, DriverType, RequestsAreCurrent
  <2> QED BY <2>1, <2>2, <2>3 DEF ReleaseInv
<1>5. ASSUME NEW r \in Ranks, WorkFails(r) PROVE ReleaseInv'
  <2>1. DriverType'
    BY <1>5 DEF WorkFails, ReleaseInv, DriverType
  <2>2. LayoutIsChecked'
    BY <1>5, LayoutIsKept DEF WorkFails, ReleaseInv, DriverType
  <2>3. ASSUME NEW q \in requests PROVE Current(q)'
    <3>1. Current(q)
      BY DEF ReleaseInv, RequestsAreCurrent
    <3>2. at'[OwnerOf(q)] \in {"wait", "failed"}
      BY <1>5, <3>1 DEF WorkFails, ReleaseInv, DriverType, Current, OwnerOf
    <3> QED BY <1>5, <3>1, <3>2, CurrentIsKept DEF WorkFails
  <2>4. RequestsAreCurrent'
    BY <1>5, <2>3 DEF WorkFails, RequestsAreCurrent
  <2> QED BY <2>1, <2>2, <2>4 DEF ReleaseInv
<1>6. ASSUME NEW r \in Ranks, CompletePayload(r) PROVE ReleaseInv'
  <2>1. DriverType'
    BY <1>6 DEF CompletePayload, ReleaseInv, DriverType
  <2>2. LayoutIsChecked'
    <3>1. LayoutIsValid(r, PhaseOf(stage[r]))
      BY <1>6 DEF CompletePayload, ReleaseInv, LayoutIsChecked
    <3> QED BY <1>6, <3>1, LayoutIsKept DEF CompletePayload, ReleaseInv, DriverType
  <2>3. RequestsAreCurrent'
    BY <1>6, RankKeepsRequests DEF CompletePayload, ReleaseInv, DriverType, RequestsAreCurrent
  <2> QED BY <2>1, <2>2, <2>3 DEF ReleaseInv
<1>7. ASSUME NEW r \in Ranks, NextForward(r) PROVE ReleaseInv'
  <2>1. DriverType'
    BY <1>7 DEF NextForward, ReleaseInv, DriverType
  <2>2. LayoutIsChecked'
    BY <1>7, LayoutIsKept DEF NextForward, ReleaseInv, DriverType
  <2>3. RequestsAreCurrent'
    BY <1>7, RankKeepsRequests DEF NextForward, ReleaseInv, DriverType, RequestsAreCurrent
  <2> QED BY <2>1, <2>2, <2>3 DEF ReleaseInv
<1>8. ASSUME Transfer \/ UNCHANGED vars PROVE ReleaseInv'
  <2>1. UNCHANGED <<plan, actual, at, stage, window>> /\ requests' \subseteq requests
    BY <1>8 DEF Transfer, vars
  <2>2. DriverType'
    BY <2>1 DEF ReleaseInv, DriverType
  <2>3. LayoutIsChecked'
    BY <2>1, PlanIsKept DEF ReleaseInv, LayoutIsChecked
  <2>4. \A q \in requests : Current(q)'
    BY <2>1, CurrentIsKept DEF ReleaseInv, RequestsAreCurrent, Current
  <2>5. RequestsAreCurrent'
    BY <2>1, <2>4 DEF RequestsAreCurrent
  <2> QED BY <2>2, <2>3, <2>5 DEF ReleaseInv
<1> QED BY <1>1, <1>2, <1>3, <1>4, <1>5, <1>6, <1>7, <1>8 DEF ReleaseNext, RankStep

\* The inductive invariant of the exchange: places and payloads have their types,
\* a rank past the hook has checked its layout, and what it has posted belongs to
\* the window it waits in.
THEOREM ReleaseInvariant == ReleaseSpec => []ReleaseInv
<1>1. ReleaseInit => ReleaseInv
  BY ReleaseInitInv
<1>2. ReleaseInv /\ [ReleaseNext]_vars => ReleaseInv'
  BY ReleaseNextInv
<1> QED BY <1>1, <1>2, PTL DEF ReleaseSpec

\* Nothing is posted for an edge on which the plan and the actual rows disagree,
\* although each rank checks its own rows only (materialization/layout.py).
THEOREM NothingIsPostedForAWrongEdge == ReleaseSpec => []MismatchedEdgesAreSilent
<1>1. ReleaseInv => MismatchedEdgesAreSilent
  <2> SUFFICES ASSUME ReleaseInv, NEW q \in requests
               PROVE  Cardinality(Edge(PhaseOf(q.stage), q.src, q.dst))
                        = Rows(PhaseOf(q.stage), q.src, q.dst)
    BY DEF MismatchedEdgesAreSilent
  <2>1. Current(q)
    BY DEF ReleaseInv, RequestsAreCurrent
  <2>2. OwnerOf(q) \in {q.src, q.dst}
    BY DEF OwnerOf
  <2> QED BY <2>1, <2>2 DEF Current, LayoutIsValid
<1> QED BY <1>1, ReleaseInvariant, PTL

\* The requests of a rank are of one payload and one window (the loop over windows
\* in P2PReleaseExecutor.execute waits for every handle it has made).
THEOREM WindowsDoNotOverlap == ReleaseSpec => []OneWindowAtATime
<1>1. ReleaseInv => OneWindowAtATime
  <2> SUFFICES ASSUME ReleaseInv, NEW q \in requests, NEW u \in requests, OwnerOf(q) = OwnerOf(u)
               PROVE  /\ q.stage = u.stage
                      /\ WindowOf(PhaseOf(q.stage), q.flow) = WindowOf(PhaseOf(u.stage), u.flow)
    BY DEF OneWindowAtATime
  <2>1. Current(q) /\ Current(u)
    BY DEF ReleaseInv, RequestsAreCurrent
  <2> QED BY <2>1 DEF Current, InWindow
<1> QED BY <1>1, ReleaseInvariant, PTL

-----------------------------------------------------------------------------
\* Counting the flows of a plan

\* A flow of a phase is a place in a wave.
LEMMA FlowsArePlaces ==
  ASSUME plan \in Plans, NEW p, NEW f \in Flows(p)
  PROVE  f \in Nat \X Nat /\ f[1] \in DOMAIN plan /\ f[2] \in DOMAIN plan[f[1]]
<1>1. PICK w \in DOMAIN plan :
        f \in {<<w, i>> : i \in {j \in DOMAIN plan[w] : plan[w][j].phase = p}}
  BY DEF Flows
<1>2. PICK i \in DOMAIN plan[w] : f = <<w, i>>
  BY <1>1
<1>3. plan \in Seq(Seq(FlowType))
  BY ReleaseAssumption
<1>4. w \in Nat /\ plan[w] \in Seq(FlowType)
  BY <1>3
<1>5. i \in Nat
  BY <1>4
<1>6. QED  BY <1>2, <1>4, <1>5

\* A plan is a finite sequence of finite waves.
LEMMA FlowsAreFinite ==
  ASSUME plan \in Plans, NEW p
  PROVE  IsFiniteSet(Flows(p))
<1> DEFINE places(w) == {j \in DOMAIN plan[w] : plan[w][j].phase = p}
           wave(w)   == {<<w, i>> : i \in places(w)}
           waves     == {wave(w) : w \in DOMAIN plan}
<1>1. plan \in Seq(Seq(FlowType))
  BY ReleaseAssumption
<1>2. \A w \in DOMAIN plan : plan[w] \in Seq(FlowType)
  BY <1>1
<1>3. ASSUME NEW w \in DOMAIN plan PROVE IsFiniteSet(wave(w))
  <2>1. DOMAIN plan[w] = 1 .. Len(plan[w]) /\ Len(plan[w]) \in Nat
    BY <1>2
  <2>2. IsFiniteSet(places(w))
    <3>1. IsFiniteSet(1 .. Len(plan[w]))
      BY <2>1, FS_Interval
    <3>2. places(w) \in SUBSET (1 .. Len(plan[w]))
      BY <2>1
    <3>3. QED  BY <3>1, <3>2, FS_Subset
  <2>3. [i \in places(w) |-> <<w, i>>] \in Surjection(places(w), wave(w))
    BY DEF Surjection
  <2> HIDE DEF places, wave
  <2>4. QED  BY <2>2, <2>3, FS_Surjection
<1>4. IsFiniteSet(waves)
  <2> HIDE DEF wave
  <2>1. DOMAIN plan = 1 .. Len(plan) /\ Len(plan) \in Nat
    BY <1>1
  <2>2. IsFiniteSet(DOMAIN plan)
    BY <2>1, FS_Interval
  <2>3. [w \in DOMAIN plan |-> wave(w)] \in Surjection(DOMAIN plan, waves)
    BY DEF Surjection
  <2> HIDE DEF waves
  <2>4. QED  BY <2>2, <2>3, FS_Surjection
<1>5. \A T \in waves : IsFiniteSet(T)
  BY <1>3
<1>6. Flows(p) = UNION waves
  BY DEF Flows
<1> HIDE DEF waves
<1>7. QED  BY <1>4, <1>5, <1>6, FS_UNION

\* The flows of a phase are materialised one after the other.
LEMMA FlowsAreOrdered ==
  ASSUME plan \in Plans, NEW p, NEW f \in Flows(p), NEW g \in Flows(p)
  PROVE  /\ f \notin Earlier(p, f)
         /\ f # g => f \in Earlier(p, g) \/ g \in Earlier(p, f)
         /\ f \in Earlier(p, g) => Earlier(p, f) \subseteq Earlier(p, g)
<1>1. \A h \in Flows(p) : h \in Nat \X Nat /\ h = <<h[1], h[2]>> /\ h[1] \in Nat /\ h[2] \in Nat
  BY FlowsArePlaces
<1>2. f # g => f[1] # g[1] \/ f[2] # g[2]
  BY <1>1
<1>3. QED  BY <1>1, <1>2 DEF Earlier

\* Among the flows of a set each has a number of its own: that of the flows of the
\* set before it.  The tags, the places on an edge and the rows of a sender are
\* such numbers.
LEMMA FlowsAreNumbered ==
  ASSUME plan \in Plans, NEW p, NEW S \in SUBSET Flows(p)
  PROVE  /\ \A f \in S : Cardinality(Earlier(p, f) \cap S) \in 0 .. Cardinality(S) - 1
         /\ \A f, g \in S :
              Cardinality(Earlier(p, f) \cap S) = Cardinality(Earlier(p, g) \cap S) => f = g
<1> DEFINE before(f) == Earlier(p, f) \cap S
<1>1. IsFiniteSet(S) /\ Cardinality(S) \in Nat
  BY FlowsAreFinite, FS_Subset, FS_CardinalityType
<1>2. ASSUME NEW f \in S
      PROVE  /\ IsFiniteSet(before(f)) /\ Cardinality(before(f)) \in Nat
             /\ Cardinality(before(f)) < Cardinality(S)
  <2>1. f \notin before(f) /\ before(f) \in SUBSET S
    BY FlowsAreOrdered
  <2>2. before(f) # S
    BY <2>1
  <2> HIDE DEF before
  <2>3. /\ IsFiniteSet(before(f)) /\ Cardinality(before(f)) <= Cardinality(S)
        /\ Cardinality(S) # Cardinality(before(f))
    BY <1>1, <2>1, <2>2, FS_Subset
  <2>4. Cardinality(before(f)) \in Nat
    BY <2>3, FS_CardinalityType
  <2>5. QED  BY <1>1, <2>3, <2>4
<1>3. ASSUME NEW f \in S, NEW g \in S, f \in Earlier(p, g)
      PROVE  Cardinality(before(f)) # Cardinality(before(g))
  <2>1. before(f) \in SUBSET before(g) /\ f \in before(g) /\ f \notin before(f)
    BY <1>3, FlowsAreOrdered
  <2>2. before(f) # before(g)
    BY <2>1
  <2>3. IsFiniteSet(before(g))
    BY <1>2
  <2> HIDE DEF before
  <2>4. QED  BY <2>1, <2>2, <2>3, FS_Subset
<1>4. ASSUME NEW f \in S, NEW g \in S, f # g
      PROVE  Cardinality(before(f)) # Cardinality(before(g))
  BY <1>3, <1>4, FlowsAreOrdered
<1>5. QED
  <2> HIDE DEF before
  <2>1. \A f \in S : Cardinality(before(f)) \in 0 .. Cardinality(S) - 1
    BY <1>1, <1>2
  <2>2. QED  BY <1>4, <2>1 DEF before

\* And the numbers below their count are all given.
LEMMA NumbersAreGiven ==
  ASSUME plan \in Plans, NEW p, NEW S \in SUBSET Flows(p)
  PROVE  \A n \in 0 .. Cardinality(S) - 1 : \E f \in S : Cardinality(Earlier(p, f) \cap S) = n
<1> DEFINE number == [f \in S |-> Cardinality(Earlier(p, f) \cap S)]
           range  == 0 .. Cardinality(S) - 1
<1>1. IsFiniteSet(S) /\ Cardinality(S) \in Nat
  BY FlowsAreFinite, FS_Subset, FS_CardinalityType
<1>2. number \in Injection(S, range)
  <2>1. \A f \in S : number[f] \in range
    BY FlowsAreNumbered
  <2>2. \A f, g \in S : number[f] = number[g] => f = g
    BY FlowsAreNumbered
  <2>3. number \in [S -> range] /\ DOMAIN number = S
    BY <2>1
  <2> HIDE DEF number, range
  <2>4. QED  BY <2>2, <2>3 DEF Injection, IsInjective
<1>3. IsFiniteSet(range) /\ Cardinality(range) = Cardinality(S)
  BY <1>1, FS_Interval
<1>4. number \in Surjection(S, range)
  <2> HIDE DEF number, range
  <2>1. QED  BY <1>2, <1>3, FS_Injection
<1>5. \A n \in range : \E f \in S : number[f] = n
  BY <1>4 DEF Surjection
<1>6. QED  BY <1>5

\* A tag tells the payload and the flow it stands for among those of a phase.
LEMMA TagsAreDistinct ==
  ASSUME plan \in Plans, NEW k \in Stages, NEW j \in Stages, PhaseOf(k) = PhaseOf(j),
         NEW f \in Flows(PhaseOf(k)), NEW g \in Flows(PhaseOf(k)), NEW r, NEW s,
         Tag(r, k, f) = Tag(s, j, g)
  PROVE  k = j /\ f = g
<1> DEFINE p     == PhaseOf(k)
           m(h)  == Cardinality(Earlier(p, h))
<1>1. \A h \in Flows(p) : Earlier(p, h) = Earlier(p, h) \cap Flows(p)
  BY DEF Earlier
<1>2. IsFiniteSet(Flows(p)) /\ Cardinality(Flows(p)) \in Nat
  BY FlowsAreFinite, FS_CardinalityType
<1>3. m(f) \in Nat /\ m(g) \in Nat /\ (m(f) = m(g) => f = g)
  <2>1. m(f) \in 0 .. Cardinality(Flows(p)) - 1 /\ m(g) \in 0 .. Cardinality(Flows(p)) - 1
    BY <1>1, FlowsAreNumbered
  <2>2. m(f) = m(g) => f = g
    <3>1. PICK S \in SUBSET Flows(p) : S = Flows(p)
      OBVIOUS
    <3>2. \A x, y \in S : Cardinality(Earlier(p, x) \cap S) = Cardinality(Earlier(p, y) \cap S) => x = y
      BY FlowsAreNumbered
    <3>3. QED  BY <1>1, <3>1, <3>2
  <2>3. QED  BY <1>2, <2>1, <2>2
<1>4. RoleOf(k) + Payloads(p) * m(f) = RoleOf(j) + Payloads(p) * m(g)
  BY DEF Tag
<1> HIDE DEF m
<1>5. CASE k = 3
  BY <1>3, <1>4, <1>5 DEF RoleOf, Payloads, PhaseOf, Stages
<1>6. CASE k # 3
  <2>1. j # 3 /\ Payloads(p) = 2
    BY <1>6 DEF PhaseOf, Payloads
  <2>2. RoleOf(k) \in {1, 2} /\ RoleOf(j) \in {1, 2} /\ (RoleOf(k) = RoleOf(j) => k = j)
    BY <1>6, <2>1 DEF RoleOf, Stages
  <2> HIDE DEF p
  <2>3. RoleOf(k) + 2 * m(f) = RoleOf(j) + 2 * m(g)
    BY <1>4, <2>1
  <2>4. QED  BY <1>3, <2>2, <2>3
<1>7. QED  BY <1>5, <1>6

\* The places on an edge are the numbers of its flows, each given once.
LEMMA OffsetsAreDistinct ==
  ASSUME plan \in Plans, NEW p, NEW s, NEW d, NEW f \in Edge(p, s, d), NEW g \in Edge(p, s, d),
         Offset(p, f) = Offset(p, g)
  PROVE  f = g
<1>1. Edge(p, s, d) \in SUBSET Flows(p)
  BY DEF Edge
<1>2. Offset(p, f) = Cardinality(Earlier(p, f) \cap Edge(p, s, d))
      /\ Offset(p, g) = Cardinality(Earlier(p, g) \cap Edge(p, s, d))
  BY DEF Edge, Offset
<1>3. QED  BY <1>1, <1>2, FlowsAreNumbered

\* And an edge of n flows has a flow for each place below n.
LEMMA OffsetsAreGiven ==
  ASSUME plan \in Plans, NEW p, NEW s, NEW d, NEW n \in 0 .. Cardinality(Edge(p, s, d)) - 1
  PROVE  \E f \in Edge(p, s, d) : Offset(p, f) = n
<1> DEFINE S == Edge(p, s, d)
<1>1. S \in SUBSET Flows(p) /\ n \in 0 .. Cardinality(S) - 1
  BY DEF Edge
<1> HIDE DEF S
<1>2. PICK f \in S : Cardinality(Earlier(p, f) \cap S) = n
  <2>1. Cardinality(S) \in Nat
    BY <1>1, FlowsAreFinite, FS_Subset, FS_CardinalityType
  <2>2. QED  BY <1>1, <2>1, NumbersAreGiven
<1>3. f \in Edge(p, s, d) /\ Src(f) = s /\ Dst(f) = d
  BY DEF S, Edge
<1>4. QED  BY <1>2, <1>3 DEF Offset, S

\* No two flows of a sender read the same row.
LEMMA SourceRowsAreDistinct ==
  ASSUME plan \in Plans, NEW p, NEW f \in Flows(p), NEW g \in Flows(p), Src(f) = Src(g),
         SourceRow(p, f) = SourceRow(p, g)
  PROVE  f = g
<1> DEFINE S == {h \in Flows(p) : Src(h) = Src(f)}
<1>1. S \in SUBSET Flows(p) /\ f \in S /\ g \in S
  OBVIOUS
<1>2. {h \in Earlier(p, f) : Src(h) = Src(f)} = Earlier(p, f) \cap S
      /\ {h \in Earlier(p, g) : Src(h) = Src(g)} = Earlier(p, g) \cap S
  BY DEF Earlier
<1>3. Cardinality(Earlier(p, f) \cap S) = Cardinality(Earlier(p, g) \cap S)
  BY <1>2 DEF SourceRow
<1> HIDE DEF S
<1>4. QED  BY <1>1, <1>3, FlowsAreNumbered

\* A division rounded up
LEMMA RoundedUp ==
  ASSUME NEW c \in Nat, NEW n \in Nat, NEW m \in Nat \ {0}, 1 <= c, c <= n
  PROVE  1 + (c - 1) \div m \in 1 .. (n + m - 1) \div m
<1> DEFINE x == (c - 1) \div m
           y == (n + m - 1) \div m
<1>1. /\ x \in Int /\ m * x <= c - 1 /\ c - 1 < m * (x + 1)
      /\ y \in Int /\ m * y <= n + m - 1 /\ n + m - 1 < m * (y + 1)
  OBVIOUS
<1>2. 0 <= x
  OBVIOUS
<1> HIDE DEF x, y
<1>3. m * x < m * y
  <2>1. m * (y + 1) = m * y + m
    BY <1>1
  <2>2. QED  BY <1>1, <2>1
<1>4. x < y
  <2>1. SUFFICES ASSUME y <= x PROVE FALSE
    BY <1>1
  <2>2. m * y <= m * x
    BY <1>1, <2>1
  <2>3. m * x \in Int /\ m * y \in Int
    BY <1>1
  <2>4. QED  BY <1>3, <2>2, <2>3
<1>5. QED  BY <1>1, <1>2, <1>4 DEF x, y

\* The window of a flow is one of those the executor works through.
LEMMA WindowsAreCounted ==
  ASSUME plan \in Plans, NEW p, NEW f \in Flows(p)
  PROVE  Windows(p) \in Int /\ WindowOf(p, f) \in 1 .. Windows(p)
<1> DEFINE upto == {w \in Batches(p) : w <= f[1]}
<1>1. IsFiniteSet(Batches(p))
  <2>1. plan \in Seq(Seq(FlowType))
    BY ReleaseAssumption
  <2>2. DOMAIN plan = 1 .. Len(plan) /\ Len(plan) \in Nat
    BY <2>1
  <2>3. IsFiniteSet(1 .. Len(plan)) /\ Batches(p) \in SUBSET (1 .. Len(plan))
    BY <2>2, FS_Interval DEF Batches
  <2>4. QED  BY <2>3, FS_Subset
<1>2. f[1] \in upto /\ upto \in SUBSET Batches(p)
  BY FlowsArePlaces DEF Batches
<1> HIDE DEF upto
<1>3. /\ IsFiniteSet(upto) /\ Cardinality(upto) \in Nat /\ Cardinality(Batches(p)) \in Nat
      /\ Cardinality(upto) <= Cardinality(Batches(p)) /\ Cardinality(upto) # 0
  BY <1>1, <1>2, FS_Subset, FS_CardinalityType, FS_EmptySet
<1>4. MaxInflight \in Nat \ {0}
  BY ReleaseAssumption
<1>5. 1 + (Cardinality(upto) - 1) \div MaxInflight
        \in 1 .. (Cardinality(Batches(p)) + MaxInflight - 1) \div MaxInflight
  BY <1>3, <1>4, RoundedUp
<1>6. (Cardinality(Batches(p)) + MaxInflight - 1) \div MaxInflight \in Int
  BY <1>3, <1>4
<1>7. QED  BY <1>5, <1>6 DEF WindowOf, Windows, upto

-----------------------------------------------------------------------------
\* What a rank has posted, and what has become of it

Remote(p) == {f \in Flows(p) : Src(f) # Dst(f)}

SendOf(k, f) == Request("send", Src(f), k, f)
RecvOf(k, f) == Request("recv", Dst(f), k, f)
Row(k, f)    == Written(k, f, SourceRow(PhaseOf(k), f))

\* The rank has posted its part of a flow: the flow's window is behind it, or it is
\* the one the rank waits in.  A rank posts for a payload once in its life: in a
\* later forward its guard refuses the invocation.
Posted(r, k, f) ==
  \/ forward[r] > 1
  \/ at[r] = "done"
  \/ stage[r] > k
  \/ /\ stage[r] = k
     /\ \/ window[r] > WindowOf(PhaseOf(k), f)
        \/ window[r] = WindowOf(PhaseOf(k), f) /\ at[r] \in {"wait", "failed"}

Progress(r) ==
  /\ forward[r] \in Nat \ {0}
  /\ at[r] \in {"post", "wait", "failed"} => forward[r] = 1 /\ stage[r] \in consumed[r]
  /\ at[r] \notin {"post", "wait", "failed"} => window[r] = 1
  /\ at[r] = "done" => stage[r] = 3 /\ forward[r] = 1 /\ 3 \in consumed[r]
  /\ forward[r] > 1 => Stages \subseteq consumed[r]
  /\ \A k \in Stages : k < stage[r] => k \in consumed[r]

ProgressInv ==
  /\ consumed \in [Ranks -> SUBSET Stages] /\ delivered \in [Ranks -> SUBSET Stages]
  /\ forward \in [Ranks -> Nat]
  /\ \A r \in Ranks : Progress(r)

\* A request is one end of a flow between two ranks.
RequestsAreOfFlows ==
  \A q \in requests :
    /\ q.stage \in Stages /\ q.flow \in Remote(PhaseOf(q.stage))
    /\ q \in {SendOf(q.stage, q.flow), RecvOf(q.stage, q.flow)}

\* The two ends of a flow complete together.
SendIsGone(k, f) == Posted(Src(f), k, f) /\ SendOf(k, f) \notin requests
RecvIsGone(k, f) == Posted(Dst(f), k, f) /\ RecvOf(k, f) \notin requests

PairsGoTogether ==
  \A k \in Stages : \A f \in Remote(PhaseOf(k)) :
    /\ SendOf(k, f) \in requests => Posted(Src(f), k, f)
    /\ RecvOf(k, f) \in requests => Posted(Dst(f), k, f)
    /\ SendIsGone(k, f) <=> RecvIsGone(k, f)

\* A flow has arrived where it goes.
HasArrived(k, f) == Posted(Dst(f), k, f) /\ (Src(f) = Dst(f) \/ RecvOf(k, f) \notin requests)

\* The output holds rows of flows, and the row of each flow that has arrived.
RowsAreOfFlows == \A o \in output : \E k \in Stages : \E f \in Flows(PhaseOf(k)) : o = Row(k, f)

ArrivedIsWritten ==
  \A k \in Stages : \A f \in Flows(PhaseOf(k)) : HasArrived(k, f) => Row(k, f) \in output

DeliveredHasArrived ==
  \A r \in Ranks : \A k \in delivered[r] :
    /\ k \in consumed[r] /\ LayoutIsValid(r, PhaseOf(k))
    /\ \A f \in Flows(PhaseOf(k)) : Dst(f) = r => HasArrived(k, f)

ExchangeInv ==
  /\ ReleaseInv
  /\ ProgressInv
  /\ RequestsAreOfFlows
  /\ PairsGoTogether
  /\ RowsAreOfFlows
  /\ ArrivedIsWritten
  /\ DeliveredHasArrived

-----------------------------------------------------------------------------
\* A send and a receive that match are the two ends of one flow.
LEMMA MatchingIsPairing ==
  ASSUME ReleaseInv, RequestsAreOfFlows, PairsGoTogether,
         NEW s \in requests, NEW q \in requests, s.kind = "send", q.kind = "recv",
         <<s.src, s.dst, s.tag>> = <<q.src, q.dst, q.tag>>
  PROVE  /\ s.stage = q.stage /\ s.flow = q.flow
         /\ s = SendOf(s.stage, s.flow) /\ q = RecvOf(s.stage, s.flow)
<1> DEFINE k == s.stage
           j == q.stage
           f == s.flow
           g == q.flow
<1>1. /\ k \in Stages /\ j \in Stages /\ f \in Remote(PhaseOf(k)) /\ g \in Remote(PhaseOf(j))
      /\ s = SendOf(k, f) /\ q = RecvOf(j, g)
  BY DEF RequestsAreOfFlows, SendOf, RecvOf, Request
<1>2. plan \in Plans
  BY DEF ReleaseInv, DriverType
<1>3. /\ Src(f) = Src(g) /\ Dst(f) = Dst(g) /\ Tag(Src(f), k, f) = Tag(Dst(g), j, g)
      /\ OwnerOf(s) = Src(f) /\ OwnerOf(q) = Dst(g)
  BY <1>1 DEF SendOf, RecvOf, Request, OwnerOf
<1>4. /\ Src(f) \in Ranks /\ Dst(f) \in Ranks
      /\ \A u \in requests : u.stage = stage[OwnerOf(u)]
  BY <1>1, <1>2, FlowsAreTyped DEF Remote, ReleaseInv, RequestsAreCurrent, Current
<1>5. \A i \in Stages : \A h \in Remote(PhaseOf(i)) :
        /\ SendOf(i, h).stage = i /\ OwnerOf(SendOf(i, h)) = Src(h)
        /\ RecvOf(i, h).stage = i /\ OwnerOf(RecvOf(i, h)) = Dst(h)
  BY DEF SendOf, RecvOf, Request, OwnerOf
<1> HIDE DEF k, j, f, g
<1>6. CASE PhaseOf(k) = PhaseOf(j)
  BY <1>1, <1>2, <1>3, <1>6, TagsAreDistinct DEF Remote, k, j, f, g
\* The sender is a phase ahead: its own part of the flow it sent then is still there.
<1>7. CASE k > j
  <2>1. stage[Src(g)] = k
    BY <1>3, <1>4 DEF k
  <2>2. Posted(Src(g), j, g)
    BY <1>7, <2>1 DEF Posted
  <2>3. SendOf(j, g) \in requests
    BY <1>1, <2>2 DEF PairsGoTogether, SendIsGone, RecvIsGone
  <2>4. stage[Src(g)] = j
    BY <1>1, <1>4, <1>5, <2>3
  <2>5. QED  BY <1>1, <1>7, <2>1, <2>4 DEF Stages
\* The receiver is a phase ahead.
<1>8. CASE j > k
  <2>1. stage[Dst(f)] = j
    BY <1>3, <1>4 DEF j
  <2>2. Posted(Dst(f), k, f)
    BY <1>8, <2>1 DEF Posted
  <2>3. RecvOf(k, f) \in requests
    BY <1>1, <2>2 DEF PairsGoTogether, SendIsGone, RecvIsGone
  <2>4. stage[Dst(f)] = k
    BY <1>1, <1>4, <1>5, <2>3
  <2>5. QED  BY <1>1, <1>8, <2>1, <2>4 DEF Stages
<1>9. QED  BY <1>1, <1>6, <1>7, <1>8 DEF Stages, PhaseOf

-----------------------------------------------------------------------------
\* The steps of the exchange

\* The shape of the flows depends on the plan alone.
LEMMA ShapeIsKept ==
  ASSUME plan' = plan
  PROVE  /\ \A f : Src(f)' = Src(f) /\ Dst(f)' = Dst(f)
         /\ \A p : Flows(p)' = Flows(p) /\ Remote(p)' = Remote(p)
         /\ \A p, f : WindowOf(p, f)' = WindowOf(p, f)
         /\ \A k, f : /\ SendOf(k, f)' = SendOf(k, f) /\ RecvOf(k, f)' = RecvOf(k, f)
                      /\ Row(k, f)' = Row(k, f)
<1>1. \A f : Src(f)' = Src(f) /\ Dst(f)' = Dst(f)
  BY DEF Src, Dst
<1>2. \A p : Flows(p)' = Flows(p)
  BY DEF Flows
<1>3. \A p : Remote(p)' = Remote(p)
  BY <1>1, <1>2 DEF Remote
<1>4. \A p, f : WindowOf(p, f)' = WindowOf(p, f)
  <2>1. \A p : Batches(p)' = Batches(p)
    BY <1>2 DEF Batches
  <2>2. QED  BY <2>1 DEF WindowOf
<1>5. \A p, f : Earlier(p, f)' = Earlier(p, f)
  BY <1>2 DEF Earlier
<1>6. \A r, k, f : Tag(r, k, f)' = Tag(r, k, f)
  BY <1>5 DEF Tag
<1>7. \A p, s, d : Edge(p, s, d)' = Edge(p, s, d)
  BY <1>1, <1>2 DEF Edge
<1>8. \A p, f : Offset(p, f)' = Offset(p, f) /\ SourceRow(p, f)' = SourceRow(p, f)
  BY <1>1, <1>5, <1>7 DEF Offset, SourceRow
<1>9. \A k, f : /\ SendOf(k, f)' = SendOf(k, f) /\ RecvOf(k, f)' = RecvOf(k, f)
                /\ Row(k, f)' = Row(k, f)
  BY <1>1, <1>6, <1>8 DEF SendOf, RecvOf, Request, Row, Written
<1>10. QED  BY <1>1, <1>2, <1>3, <1>4, <1>9

\* A step that posts nothing changes nothing about what a rank has posted.
SamePosted(r) ==
  \A k \in Stages : \A f \in Flows(PhaseOf(k)) : Posted(r, k, f)' <=> Posted(r, k, f)

\* Where a rank goes from a place does not matter to the others.
LEMMA OthersAreKept ==
  ASSUME plan' = plan, NEW r \in Ranks,
         at'[r] = at[r], stage'[r] = stage[r], window'[r] = window[r], forward'[r] = forward[r]
  PROVE  SamePosted(r) /\ (consumed'[r] = consumed[r] /\ Progress(r) => Progress(r)')
  BY ShapeIsKept DEF SamePosted, Posted, Progress

\* A rank's own step keeps what it has posted, but for the posting of a window.
LEMMA StepKeepsPosted ==
  ASSUME ReleaseInv, ProgressInv, NEW r \in Ranks,
         \/ Materialize(r) \/ Call(r) \/ FinishWindow(r) \/ WorkFails(r)
         \/ CompletePayload(r) \/ NextForward(r)
  PROVE  SamePosted(r) /\ Progress(r)'
<1>1. /\ at[r] \in Places /\ stage[r] \in Stages /\ window[r] \in Nat \ {0} /\ forward[r] \in Nat \ {0}
      /\ consumed[r] \subseteq Stages /\ Progress(r) /\ plan \in Plans /\ plan' = plan
      /\ MaxForwards \in Nat
  BY ReleaseAssumption
  DEF ReleaseInv, DriverType, ProgressInv, Progress, Materialize, Call, FinishWindow, WorkFails,
      CompletePayload, NextForward
<1>2. ASSUME NEW k \in Stages, NEW f \in Flows(PhaseOf(k))
      PROVE  /\ WindowOf(PhaseOf(k), f) \in Nat \ {0}
             /\ Windows(PhaseOf(k)) \in Int /\ WindowOf(PhaseOf(k), f) <= Windows(PhaseOf(k))
             /\ WindowOf(PhaseOf(k), f)' = WindowOf(PhaseOf(k), f)
  <2>1. Windows(PhaseOf(k)) \in Int /\ WindowOf(PhaseOf(k), f) \in 1 .. Windows(PhaseOf(k))
    BY <1>1, WindowsAreCounted
  <2>2. WindowOf(PhaseOf(k), f)' = WindowOf(PhaseOf(k), f)
    BY <1>1, ShapeIsKept
  <2>3. QED  BY <2>1, <2>2
<1>3. ASSUME NEW k \in Stages, NEW f \in Flows(PhaseOf(k))
      PROVE  Posted(r, k, f)' <=> Posted(r, k, f)
  <2>1. CASE Materialize(r) \/ Call(r)
    BY <1>1, <1>2, <2>1 DEF Materialize, Call, Posted, Progress, ReleaseInv, DriverType, ProgressInv
  <2>2. CASE FinishWindow(r) \/ WorkFails(r)
    BY <1>1, <1>2, <2>2
    DEF FinishWindow, WorkFails, Posted, Progress, ReleaseInv, DriverType, ProgressInv
  <2>3. CASE CompletePayload(r)
    <3>1. /\ at[r] = "post" /\ window[r] > Windows(PhaseOf(stage[r])) /\ window'[r] = 1
          /\ \/ stage[r] = 3 /\ at'[r] = "done"
             \/ /\ stage[r] # 3 /\ at'[r] \in {"call", "hook"} /\ stage'[r] = stage[r] + 1
                /\ forward' = forward
      BY <2>3 DEF CompletePayload, ReleaseInv, DriverType
    <3>2. CASE k = stage[r]
      <4>1. Posted(r, k, f)
        BY <1>1, <1>2, <3>1, <3>2 DEF Posted
      <4>2. stage'[r] > k \/ at'[r] = "done"
        BY <1>1, <3>1, <3>2 DEF Stages
      <4>3. QED  BY <4>1, <4>2 DEF Posted
    <3>3. CASE k # stage[r]
      BY <1>1, <1>2, <3>1, <3>3 DEF Posted, Progress, Stages
    <3>4. QED  BY <3>2, <3>3
  <2>4. CASE NextForward(r)
    BY <1>1, <1>2, <2>4 DEF NextForward, Posted, Progress, ReleaseInv, DriverType, ProgressInv
  <2>5. QED  BY <2>1, <2>2, <2>3, <2>4
<1>4. Progress(r)'
  <2>1. CASE Materialize(r) \/ FinishWindow(r) \/ WorkFails(r)
    BY <1>1, <2>1
    DEF Materialize, FinishWindow, WorkFails, Progress, ReleaseInv, DriverType, ProgressInv, Places
  <2>2. CASE Call(r)
    <3>1. /\ consumed'[r] = consumed[r] \cup {stage[r]} /\ UNCHANGED <<stage, window, forward>>
          /\ at'[r] \in {"post", "raised"} /\ at[r] = "call"
          /\ at'[r] = "post" => stage[r] \notin consumed[r]
      BY <2>2 DEF Call, GuardAccepts, ReleaseInv, DriverType, ProgressInv
    <3>2. QED  BY <1>1, <3>1 DEF Progress
  <2>3. CASE CompletePayload(r)
    <3>1. /\ at[r] = "post" /\ window'[r] = 1 /\ UNCHANGED <<consumed, forward>>
          /\ \/ stage[r] = 3 /\ at'[r] = "done" /\ stage' = stage
             \/ stage[r] # 3 /\ at'[r] \in {"call", "hook"} /\ stage'[r] = stage[r] + 1
      BY <2>3 DEF CompletePayload, ReleaseInv, DriverType
    <3>2. QED  BY <1>1, <3>1 DEF Progress, Stages
  <2>4. CASE NextForward(r)
    <3>1. /\ at[r] = "done" /\ at'[r] = "hook" /\ stage'[r] = 1 /\ UNCHANGED <<window, consumed>>
          /\ forward'[r] = forward[r] + 1
      BY <2>4 DEF NextForward, ReleaseInv, DriverType, ProgressInv
    <3>2. QED  BY <1>1, <3>1 DEF Progress, Stages
  <2>5. QED  BY <2>1, <2>2, <2>3, <2>4
<1>5. QED  BY <1>3, <1>4 DEF SamePosted

\* The posting of a window adds its flows, none of which the rank has posted before.
LEMMA PostAddsWindow ==
  ASSUME ReleaseInv, ProgressInv, NEW r \in Ranks, PostWindow(r)
  PROVE  /\ Progress(r)'
         /\ \A k \in Stages : \A f \in Flows(PhaseOf(k)) :
              LET now == k = stage[r] /\ f \in InWindow(PhaseOf(k), window[r]) IN
              /\ Posted(r, k, f)' <=> Posted(r, k, f) \/ now
              /\ now => ~Posted(r, k, f)
<1>1. /\ at[r] = "post" /\ at'[r] = "wait" /\ UNCHANGED <<plan, stage, window, consumed, forward>>
      /\ stage[r] \in Stages /\ window[r] \in Nat \ {0} /\ forward[r] = 1 /\ Progress(r) /\ plan \in Plans
  BY DEF PostWindow, ReleaseInv, DriverType, ProgressInv, Progress
<1>2. Progress(r)'
  BY <1>1 DEF Progress
<1>3. ASSUME NEW k \in Stages, NEW f \in Flows(PhaseOf(k))
      PROVE  LET now == k = stage[r] /\ f \in InWindow(PhaseOf(k), window[r]) IN
             /\ Posted(r, k, f)' <=> Posted(r, k, f) \/ now
             /\ now => ~Posted(r, k, f)
  <2>1. WindowOf(PhaseOf(k), f) \in Int /\ WindowOf(PhaseOf(k), f)' = WindowOf(PhaseOf(k), f)
    <3>1. WindowOf(PhaseOf(k), f) \in 1 .. Windows(PhaseOf(k))
      BY <1>1, WindowsAreCounted
    <3>2. QED  BY <1>1, <3>1, ShapeIsKept
  <2>2. QED  BY <1>1, <2>1 DEF Posted, InWindow, Stages
<1>4. QED  BY <1>2, <1>3

\* What hangs on the requests and the output alone
LEMMA QuietStepKeepsExchange ==
  ASSUME RequestsAreOfFlows, PairsGoTogether, ArrivedIsWritten, RowsAreOfFlows,
         plan' = plan, plan \in Plans, requests' = requests, output' \subseteq output,
         \A r \in Ranks : SamePosted(r),
         \A k \in Stages : \A f \in Flows(PhaseOf(k)) :
           HasArrived(k, f) => Row(k, f) \in output' \/ Row(k, f) \notin output
  PROVE  /\ RequestsAreOfFlows' /\ PairsGoTogether' /\ ArrivedIsWritten' /\ RowsAreOfFlows'
         /\ \A k \in Stages : \A f \in Flows(PhaseOf(k)) : HasArrived(k, f)' <=> HasArrived(k, f)
<1> USE ShapeIsKept
<1>1. \A k \in Stages : \A f \in Flows(PhaseOf(k)) : Src(f) \in Ranks /\ Dst(f) \in Ranks
  BY FlowsAreTyped
<1>2. \A k \in Stages : \A f \in Flows(PhaseOf(k)) :
        /\ Posted(Src(f), k, f)' <=> Posted(Src(f), k, f)
        /\ Posted(Dst(f), k, f)' <=> Posted(Dst(f), k, f)
  BY <1>1 DEF SamePosted, Posted
<1>3. \A k \in Stages : \A f \in Flows(PhaseOf(k)) : HasArrived(k, f)' <=> HasArrived(k, f)
  BY <1>2 DEF HasArrived
<1>4. RequestsAreOfFlows'
  BY DEF RequestsAreOfFlows
<1>5. PairsGoTogether'
  BY <1>2 DEF PairsGoTogether, SendIsGone, RecvIsGone, Remote
<1>6. ArrivedIsWritten'
  BY <1>3 DEF ArrivedIsWritten
<1>7. RowsAreOfFlows'
  BY DEF RowsAreOfFlows
<1>8. QED  BY <1>3, <1>4, <1>5, <1>6, <1>7

\* The two ends of a flow are two requests, and no other flow has them.
LEMMA EndsAreDistinct ==
  \A k, j, f, g :
    /\ SendOf(k, f) = SendOf(j, g) => k = j /\ f = g
    /\ RecvOf(k, f) = RecvOf(j, g) => k = j /\ f = g
    /\ SendOf(k, f) # RecvOf(j, g)
<1> SUFFICES ASSUME NEW k, NEW j, NEW f, NEW g
             PROVE  /\ SendOf(k, f) = SendOf(j, g) => k = j /\ f = g
                    /\ RecvOf(k, f) = RecvOf(j, g) => k = j /\ f = g
                    /\ SendOf(k, f) # RecvOf(j, g)
  OBVIOUS
<1>1. /\ SendOf(k, f).stage = k /\ SendOf(k, f).flow = f /\ SendOf(k, f).kind = "send"
      /\ RecvOf(k, f).stage = k /\ RecvOf(k, f).flow = f /\ RecvOf(k, f).kind = "recv"
      /\ SendOf(j, g).stage = j /\ SendOf(j, g).flow = g
      /\ RecvOf(j, g).stage = j /\ RecvOf(j, g).flow = g /\ RecvOf(j, g).kind = "recv"
  BY DEF SendOf, RecvOf, Request
<1>2. QED  BY <1>1

\* What has been delivered stays delivered while no flow is taken back.
LEMMA DeliveredIsKept ==
  ASSUME plan' = plan, actual' = actual, DeliveredHasArrived,
         \A k \in Stages : \A f \in Flows(PhaseOf(k)) : HasArrived(k, f) => HasArrived(k, f)',
         NEW r \in Ranks, NEW k \in delivered[r], k \in Stages, consumed[r] \subseteq consumed'[r]
  PROVE  /\ k \in consumed'[r] /\ LayoutIsValid(r, PhaseOf(k))'
         /\ \A f \in Flows(PhaseOf(k))' : Dst(f)' = r => HasArrived(k, f)'
  BY PlanIsKept, ShapeIsKept DEF DeliveredHasArrived

\* The steps of a rank that move no request and write nothing
LEMMA QuietKeepsExchange ==
  ASSUME ExchangeInv, ReleaseInv', NEW r \in Ranks,
         \/ Materialize(r) \/ FinishWindow(r) \/ WorkFails(r)
         \/ CompletePayload(r) \/ NextForward(r)
  PROVE  ExchangeInv'
<1>1. /\ plan' = plan /\ actual' = actual /\ plan \in Plans
      /\ requests' = requests /\ output' = output /\ consumed' = consumed
      /\ MaxForwards \in Nat
  BY ReleaseAssumption
  DEF ExchangeInv, ReleaseInv, DriverType, Materialize, FinishWindow, WorkFails,
      CompletePayload, NextForward
<1>2. ReleaseInv /\ ProgressInv
  BY DEF ExchangeInv
<1>3. /\ delivered' \in [Ranks -> SUBSET Stages] /\ forward' \in [Ranks -> Nat]
      /\ \A s \in Ranks \ {r} : /\ at'[s] = at[s] /\ stage'[s] = stage[s] /\ window'[s] = window[s]
                                /\ forward'[s] = forward[s]
      /\ \A s \in Ranks : delivered'[s] \subseteq delivered[s] \cup
                            (IF s = r /\ CompletePayload(r) THEN {stage[r]} ELSE {})
  BY <1>2
  DEF ReleaseInv, DriverType, ProgressInv, Materialize, FinishWindow, WorkFails,
      CompletePayload, NextForward
<1>4. \A s \in Ranks : SamePosted(s) /\ Progress(s)'
  <2>1. SamePosted(r) /\ Progress(r)'
    BY <1>2, StepKeepsPosted
  <2>2. ASSUME NEW s \in Ranks \ {r} PROVE SamePosted(s) /\ Progress(s)'
    BY <1>1, <1>2, <1>3, OthersAreKept DEF ProgressInv
  <2>3. QED  BY <2>1, <2>2
<1>5. ProgressInv'
  BY <1>1, <1>2, <1>3, <1>4 DEF ProgressInv
<1>6. /\ RequestsAreOfFlows' /\ PairsGoTogether' /\ ArrivedIsWritten' /\ RowsAreOfFlows'
      /\ \A k \in Stages : \A f \in Flows(PhaseOf(k)) : HasArrived(k, f)' <=> HasArrived(k, f)
  BY <1>1, <1>4, QuietStepKeepsExchange DEF ExchangeInv, ArrivedIsWritten
<1>7. ASSUME NEW s \in Ranks, NEW k \in delivered'[s]
      PROVE  /\ k \in consumed'[s] /\ LayoutIsValid(s, PhaseOf(k))'
             /\ \A f \in Flows(PhaseOf(k))' : Dst(f)' = s => HasArrived(k, f)'
  <2>1. CASE k \in delivered[s]
    <3>1. k \in Stages /\ DeliveredHasArrived
      BY <1>2, <2>1 DEF ExchangeInv, ProgressInv
    <3>2. QED  BY <1>1, <1>6, <2>1, <3>1, DeliveredIsKept
  \* The payload that is recorded: its windows are all behind the rank, which has
  \* nothing outstanding.
  <2>2. CASE s = r /\ CompletePayload(r) /\ k = stage[r]
    <3>1. /\ at[r] = "post" /\ window[r] > Windows(PhaseOf(k)) /\ k \in Stages
          /\ window[r] \in Nat
      BY <1>2, <2>2 DEF CompletePayload, ReleaseInv, DriverType
    <3>2. k \in consumed[r] /\ LayoutIsValid(r, PhaseOf(k))
      BY <1>2, <2>2, <3>1 DEF ProgressInv, Progress, ReleaseInv, LayoutIsChecked
    <3>3. ASSUME NEW f \in Flows(PhaseOf(k)), Dst(f) = r PROVE HasArrived(k, f)
      <4>1. Posted(r, k, f)
        <5>1. Windows(PhaseOf(k)) \in Int /\ WindowOf(PhaseOf(k), f) \in 1 .. Windows(PhaseOf(k))
          BY <1>1, WindowsAreCounted
        <5>2. QED  BY <2>2, <3>1, <5>1 DEF Posted
      <4>2. RecvOf(k, f) \notin requests
        <5>1. OwnerOf(RecvOf(k, f)) = r
          BY <3>3 DEF RecvOf, Request, OwnerOf
        <5>2. QED  BY <1>2, <3>1, <5>1 DEF ReleaseInv, RequestsAreCurrent, Current
      <4>3. QED  BY <3>3, <4>1, <4>2 DEF HasArrived
    <3>4. QED  BY <1>1, <1>6, <2>2, <3>1, <3>2, <3>3, PlanIsKept, ShapeIsKept
  <2>3. QED  BY <1>3, <2>1, <2>2
<1>8. QED  BY <1>5, <1>6, <1>7 DEF ExchangeInv, DeliveredHasArrived

\* The call clears an output tensor for which nothing has been posted.
LEMMA CallKeepsExchange ==
  ASSUME ExchangeInv, ReleaseInv', NEW r \in Ranks, Call(r)
  PROVE  ExchangeInv'
<1>1. /\ plan' = plan /\ actual' = actual /\ plan \in Plans /\ requests' = requests
      /\ output' \subseteq output /\ UNCHANGED <<stage, window, forward>> /\ at[r] = "call"
      /\ stage[r] \in Stages
  BY DEF ExchangeInv, ReleaseInv, DriverType, Call
<1>2. ReleaseInv /\ ProgressInv
  BY DEF ExchangeInv
<1>3. /\ consumed' \in [Ranks -> SUBSET Stages] /\ delivered' \in [Ranks -> SUBSET Stages]
      /\ \A s \in Ranks : consumed[s] \subseteq consumed'[s] /\ delivered'[s] \subseteq delivered[s]
      /\ \A s \in Ranks \ {r} : at'[s] = at[s] /\ consumed'[s] = consumed[s]
  BY <1>1, <1>2 DEF Call, ProgressInv, ReleaseInv, DriverType
<1>4. \A s \in Ranks : SamePosted(s) /\ Progress(s)'
  <2>1. SamePosted(r) /\ Progress(r)'
    BY <1>2, StepKeepsPosted
  <2>2. ASSUME NEW s \in Ranks \ {r} PROVE SamePosted(s) /\ Progress(s)'
    BY <1>1, <1>2, <1>3, OthersAreKept DEF ProgressInv
  <2>3. QED  BY <2>1, <2>2
<1>5. ProgressInv'
  BY <1>1, <1>2, <1>3, <1>4 DEF ProgressInv
<1>6. ASSUME NEW k \in Stages, NEW f \in Flows(PhaseOf(k)), HasArrived(k, f)
      PROVE  Row(k, f) \in output' \/ Row(k, f) \notin output
  <2>1. CASE output' = output
    BY <2>1
  <2>2. CASE /\ GuardAccepts(r, stage[r])
             /\ output' = {o \in output : o.rank # r \/ o.stage # stage[r]}
    <3>1. Row(k, f).rank = Dst(f) /\ Row(k, f).stage = k
      BY DEF Row, Written
    <3>2. SUFFICES ASSUME Dst(f) = r, k = stage[r] PROVE FALSE
      BY <2>2, <3>1
    <3>3. forward[r] = 1 /\ window[r] = 1
      BY <1>1, <1>2, <2>2 DEF ProgressInv, Progress, GuardAccepts
    <3>4. WindowOf(PhaseOf(k), f) \in 1 .. Windows(PhaseOf(k)) /\ Windows(PhaseOf(k)) \in Int
      BY <1>1, WindowsAreCounted
    <3>5. Posted(r, k, f)
      BY <1>6, <3>2 DEF HasArrived
    <3>6. QED  BY <1>1, <3>2, <3>3, <3>4, <3>5 DEF Posted, Stages
  <2>3. QED  BY <2>1, <2>2 DEF Call
<1>7. /\ RequestsAreOfFlows' /\ PairsGoTogether' /\ ArrivedIsWritten' /\ RowsAreOfFlows'
      /\ \A k \in Stages : \A f \in Flows(PhaseOf(k)) : HasArrived(k, f)' <=> HasArrived(k, f)
  BY <1>1, <1>4, <1>6, QuietStepKeepsExchange DEF ExchangeInv
<1>8. DeliveredHasArrived'
  <2>1. ASSUME NEW s \in Ranks, NEW k \in delivered'[s]
        PROVE  /\ k \in consumed'[s] /\ LayoutIsValid(s, PhaseOf(k))'
               /\ \A f \in Flows(PhaseOf(k))' : Dst(f)' = s => HasArrived(k, f)'
    <3>1. k \in delivered[s] /\ k \in Stages /\ DeliveredHasArrived
      BY <1>2, <1>3 DEF ExchangeInv, ProgressInv
    <3>2. QED  BY <1>1, <1>3, <1>7, <3>1, DeliveredIsKept
  <2>2. QED  BY <2>1 DEF DeliveredHasArrived
<1>9. QED  BY <1>5, <1>7, <1>8 DEF ExchangeInv

\* What a window adds to the requests and to the output, flow by flow
LEMMA PostsAreOfWindow ==
  ASSUME NEW r, NEW i, NEW w
  PROVE  /\ \A q \in Posts(r, i, w) :
              \E f \in InWindow(PhaseOf(i), w) \cap Remote(PhaseOf(i)) :
                (Src(f) = r /\ q = SendOf(i, f)) \/ (Dst(f) = r /\ q = RecvOf(i, f))
         /\ \A f \in InWindow(PhaseOf(i), w) \cap Remote(PhaseOf(i)) :
              /\ Src(f) = r => SendOf(i, f) \in Posts(r, i, w)
              /\ Dst(f) = r => RecvOf(i, f) \in Posts(r, i, w)
         /\ \A o \in LocalCopies(r, i, w) : \E f \in InWindow(PhaseOf(i), w) : o = Row(i, f)
         /\ \A f \in InWindow(PhaseOf(i), w) :
              Src(f) = r /\ Dst(f) = r => Row(i, f) \in LocalCopies(r, i, w)
  BY DEF Posts, LocalCopies, InWindow, Remote, SendOf, RecvOf, Row, Edge

\* A window is posted for flows of which the rank has posted nothing yet.
LEMMA PostKeepsExchange ==
  ASSUME ExchangeInv, ReleaseInv', NEW r \in Ranks, PostWindow(r)
  PROVE  ExchangeInv'
<1> DEFINE i      == stage[r]
           w      == window[r]
           now(f) == f \in InWindow(PhaseOf(i), w)
<1>1. /\ plan' = plan /\ actual' = actual /\ plan \in Plans /\ i \in Stages
      /\ requests' = requests \cup Posts(r, i, w)
      /\ output' = output \cup LocalCopies(r, i, w)
      /\ UNCHANGED <<stage, window, consumed, delivered, forward>>
      /\ \A s \in Ranks \ {r} : at'[s] = at[s]
  BY DEF ExchangeInv, ReleaseInv, DriverType, PostWindow
<1>2. ReleaseInv /\ ProgressInv /\ RequestsAreOfFlows /\ PairsGoTogether
  BY DEF ExchangeInv
<1>3. /\ Progress(r)'
      /\ \A k \in Stages : \A f \in Flows(PhaseOf(k)) :
           /\ Posted(r, k, f)' <=> Posted(r, k, f) \/ (k = i /\ now(f))
           /\ k = i /\ now(f) => ~Posted(r, k, f)
  BY <1>2, PostAddsWindow
<1>4. \A s \in Ranks \ {r} : SamePosted(s) /\ Progress(s)'
  BY <1>1, <1>2, OthersAreKept DEF ProgressInv
<1>5. ProgressInv'
  BY <1>1, <1>2, <1>3, <1>4 DEF ProgressInv
<1>6. \A k \in Stages : \A f \in Flows(PhaseOf(k)) :
        /\ Src(f) \in Ranks /\ Dst(f) \in Ranks
        /\ Posted(Src(f), k, f)' <=> Posted(Src(f), k, f) \/ (Src(f) = r /\ k = i /\ now(f))
        /\ Posted(Dst(f), k, f)' <=> Posted(Dst(f), k, f) \/ (Dst(f) = r /\ k = i /\ now(f))
  <2>1. ASSUME NEW k \in Stages, NEW f \in Flows(PhaseOf(k))
        PROVE  Src(f) \in Ranks /\ Dst(f) \in Ranks
    BY <1>1, FlowsAreTyped
  <2>2. ASSUME NEW s \in Ranks, NEW k \in Stages, NEW f \in Flows(PhaseOf(k))
        PROVE  Posted(s, k, f)' <=> Posted(s, k, f) \/ (s = r /\ k = i /\ now(f))
    <3>1. CASE s = r
      BY <1>3, <3>1
    <3>2. CASE s # r
      BY <1>4, <3>2 DEF SamePosted
    <3>3. QED  BY <3>1, <3>2
  <2>3. ASSUME NEW k \in Stages, NEW f \in Flows(PhaseOf(k)), NEW s \in Ranks, Src(f) = s
        PROVE  Posted(Src(f), k, f)' <=> Posted(s, k, f)'
    BY <1>1, <2>3, ShapeIsKept DEF Posted
  <2>4. ASSUME NEW k \in Stages, NEW f \in Flows(PhaseOf(k)), NEW s \in Ranks, Dst(f) = s
        PROVE  Posted(Dst(f), k, f)' <=> Posted(s, k, f)'
    BY <1>1, <2>4, ShapeIsKept DEF Posted
  <2>5. QED  BY <2>1, <2>2, <2>3, <2>4
<1>7. /\ \A q \in Posts(r, i, w) :
           \E f \in Remote(PhaseOf(i)) :
             now(f) /\ ((Src(f) = r /\ q = SendOf(i, f)) \/ (Dst(f) = r /\ q = RecvOf(i, f)))
      /\ \A f \in Remote(PhaseOf(i)) :
           now(f) => /\ Src(f) = r => SendOf(i, f) \in Posts(r, i, w)
                     /\ Dst(f) = r => RecvOf(i, f) \in Posts(r, i, w)
  BY PostsAreOfWindow
<1>8. /\ \A o \in LocalCopies(r, i, w) : \E f \in Flows(PhaseOf(i)) : o = Row(i, f)
      /\ \A f \in Flows(PhaseOf(i)) :
           now(f) /\ Src(f) = r /\ Dst(f) = r => Row(i, f) \in LocalCopies(r, i, w)
  BY PostsAreOfWindow DEF InWindow
<1> HIDE DEF i, w, now
<1>9. \A k \in Stages : \A f \in Remote(PhaseOf(k)) :
        /\ SendOf(k, f) \in requests'
             <=> SendOf(k, f) \in requests \/ (Src(f) = r /\ k = i /\ now(f))
        /\ RecvOf(k, f) \in requests'
             <=> RecvOf(k, f) \in requests \/ (Dst(f) = r /\ k = i /\ now(f))
  BY <1>1, <1>7, EndsAreDistinct
<1>10. \A k \in Stages : \A f \in Remote(PhaseOf(k)) : f \in Flows(PhaseOf(k)) /\ Src(f) # Dst(f)
  BY DEF Remote
<1>11. RequestsAreOfFlows'
  <2>1. ASSUME NEW q \in requests'
        PROVE  \E k \in Stages : \E f \in Remote(PhaseOf(k)) : q \in {SendOf(k, f), RecvOf(k, f)}
    BY <1>1, <1>2, <1>7 DEF RequestsAreOfFlows
  <2>2. ASSUME NEW q \in requests'
        PROVE  /\ q.stage \in Stages /\ q.flow \in Remote(PhaseOf(q.stage))
               /\ q \in {SendOf(q.stage, q.flow), RecvOf(q.stage, q.flow)}
    <3>1. PICK k \in Stages : \E f \in Remote(PhaseOf(k)) : q \in {SendOf(k, f), RecvOf(k, f)}
      BY <2>1
    <3>2. PICK f \in Remote(PhaseOf(k)) : q \in {SendOf(k, f), RecvOf(k, f)}
      BY <3>1
    <3>3. q.stage = k /\ q.flow = f
      BY <3>2 DEF SendOf, RecvOf, Request
    <3>4. QED  BY <3>2, <3>3
  <2>3. QED  BY <1>1, <2>2, ShapeIsKept DEF RequestsAreOfFlows
<1>12. PairsGoTogether'
  <2>1. ASSUME NEW k \in Stages, NEW f \in Remote(PhaseOf(k))
        PROVE  /\ SendOf(k, f) \in requests' => Posted(Src(f), k, f)'
               /\ RecvOf(k, f) \in requests' => Posted(Dst(f), k, f)'
               /\ Posted(Src(f), k, f)' /\ SendOf(k, f) \notin requests'
                    <=> Posted(Dst(f), k, f)' /\ RecvOf(k, f) \notin requests'
    <3>1. k = i /\ now(f) => /\ Src(f) = r => ~Posted(Src(f), k, f)
                             /\ Dst(f) = r => ~Posted(Dst(f), k, f)
      BY <1>3, <1>10
    <3>2. QED  BY <1>2, <1>6, <1>9, <1>10, <3>1 DEF PairsGoTogether, SendIsGone, RecvIsGone
  <2>2. QED  BY <1>1, <2>1, ShapeIsKept DEF PairsGoTogether, SendIsGone, RecvIsGone
<1>13. RowsAreOfFlows'
  <2>1. \A o \in output' : \E k \in Stages : \E f \in Flows(PhaseOf(k)) : o = Row(k, f)
    BY <1>1, <1>8 DEF ExchangeInv, RowsAreOfFlows
  <2>2. QED  BY <1>1, <2>1, ShapeIsKept DEF RowsAreOfFlows
<1>14. ASSUME NEW k \in Stages, NEW f \in Flows(PhaseOf(k))
       PROVE  HasArrived(k, f)' <=>
                HasArrived(k, f) \/ (Src(f) = r /\ Dst(f) = r /\ k = i /\ now(f))
  <2>1. HasArrived(k, f)' <=>
          Posted(Dst(f), k, f)' /\ (Src(f) = Dst(f) \/ RecvOf(k, f) \notin requests')
    BY <1>1, ShapeIsKept DEF HasArrived
  <2>2. Dst(f) = r /\ k = i /\ now(f) => ~Posted(Dst(f), k, f)
    BY <1>3
  <2>3. CASE Src(f) = Dst(f)
    BY <1>6, <2>1, <2>3 DEF HasArrived
  <2>4. CASE Src(f) # Dst(f)
    <3>1. f \in Remote(PhaseOf(k))
      BY <2>4 DEF Remote
    <3>2. QED  BY <1>6, <1>9, <2>1, <2>2, <2>4, <3>1 DEF HasArrived
  <2>5. QED  BY <2>3, <2>4
<1>15. ArrivedIsWritten'
  <2>1. ASSUME NEW k \in Stages, NEW f \in Flows(PhaseOf(k)), HasArrived(k, f)'
        PROVE  Row(k, f) \in output'
    BY <1>1, <1>8, <1>14, <2>1 DEF ExchangeInv, ArrivedIsWritten
  <2>2. QED  BY <1>1, <2>1, ShapeIsKept DEF ArrivedIsWritten
<1>16. DeliveredHasArrived'
  <2>1. ASSUME NEW s \in Ranks, NEW k \in delivered'[s]
        PROVE  /\ k \in consumed'[s] /\ LayoutIsValid(s, PhaseOf(k))'
               /\ \A f \in Flows(PhaseOf(k))' : Dst(f)' = s => HasArrived(k, f)'
    <3>1. /\ k \in delivered[s] /\ k \in Stages /\ DeliveredHasArrived
          /\ consumed[s] \subseteq consumed'[s]
      BY <1>1, <1>2 DEF ExchangeInv, ProgressInv
    <3>2. QED  BY <1>1, <1>14, <3>1, DeliveredIsKept
  <2>2. QED  BY <2>1 DEF DeliveredHasArrived
<1>17. QED  BY <1>5, <1>11, <1>12, <1>13, <1>15, <1>16 DEF ExchangeInv

\* A transfer takes the two ends of one flow and writes its row.
LEMMA TransferKeepsExchange ==
  ASSUME ExchangeInv, ReleaseInv', Transfer
  PROVE  ExchangeInv'
<1>1. /\ plan' = plan /\ actual' = actual /\ plan \in Plans
      /\ UNCHANGED <<at, stage, window, consumed, delivered, forward>>
  BY DEF ExchangeInv, ReleaseInv, DriverType, Transfer
<1>2. ReleaseInv /\ ProgressInv /\ RequestsAreOfFlows /\ PairsGoTogether
  BY DEF ExchangeInv
<1>3. PICK s \in requests, q \in requests :
        /\ s.kind = "send" /\ q.kind = "recv"
        /\ <<s.src, s.dst, s.tag>> = <<q.src, q.dst, q.tag>>
        /\ requests' = requests \ {s, q}
        /\ output' = output \cup {Written(q.stage, q.flow, SourceRow(PhaseOf(s.stage), s.flow))}
  BY DEF Transfer
<1> DEFINE i == s.stage
           h == s.flow
<1>4. /\ i \in Stages /\ h \in Remote(PhaseOf(i)) /\ s = SendOf(i, h) /\ q = RecvOf(i, h)
      /\ q.stage = i /\ q.flow = h
  BY <1>2, <1>3, MatchingIsPairing DEF RequestsAreOfFlows
<1>5. output' = output \cup {Row(i, h)}
  BY <1>3, <1>4 DEF Row
<1> HIDE DEF i, h
<1>6. ProgressInv' /\ \A r \in Ranks : SamePosted(r)
  BY <1>1, <1>2, OthersAreKept DEF ProgressInv
<1>7. \A k \in Stages : \A f \in Flows(PhaseOf(k)) :
        /\ Posted(Src(f), k, f)' <=> Posted(Src(f), k, f)
        /\ Posted(Dst(f), k, f)' <=> Posted(Dst(f), k, f)
  BY <1>1, ShapeIsKept DEF Posted
<1>8. \A k \in Stages : \A f \in Remote(PhaseOf(k)) :
        /\ f \in Flows(PhaseOf(k))
        /\ SendOf(k, f) \in requests' <=> SendOf(k, f) \in requests /\ ~(k = i /\ f = h)
        /\ RecvOf(k, f) \in requests' <=> RecvOf(k, f) \in requests /\ ~(k = i /\ f = h)
  BY <1>3, <1>4, EndsAreDistinct DEF Remote
<1>9. Posted(Src(h), i, h) /\ Posted(Dst(h), i, h)
  BY <1>2, <1>3, <1>4 DEF PairsGoTogether
<1>10. RequestsAreOfFlows'
  BY <1>1, <1>2, <1>3, ShapeIsKept DEF RequestsAreOfFlows
<1>11. PairsGoTogether'
  <2>1. ASSUME NEW k \in Stages, NEW f \in Remote(PhaseOf(k))
        PROVE  /\ SendOf(k, f) \in requests' => Posted(Src(f), k, f)'
               /\ RecvOf(k, f) \in requests' => Posted(Dst(f), k, f)'
               /\ Posted(Src(f), k, f)' /\ SendOf(k, f) \notin requests'
                    <=> Posted(Dst(f), k, f)' /\ RecvOf(k, f) \notin requests'
    BY <1>2, <1>7, <1>8, <1>9 DEF PairsGoTogether, SendIsGone, RecvIsGone
  <2>2. QED  BY <1>1, <2>1, ShapeIsKept DEF PairsGoTogether, SendIsGone, RecvIsGone
<1>12. RowsAreOfFlows'
  <2>1. \A o \in output' : \E k \in Stages : \E f \in Flows(PhaseOf(k)) : o = Row(k, f)
    BY <1>4, <1>5, <1>8 DEF ExchangeInv, RowsAreOfFlows
  <2>2. QED  BY <1>1, <2>1, ShapeIsKept DEF RowsAreOfFlows
<1>13. ASSUME NEW k \in Stages, NEW f \in Flows(PhaseOf(k))
       PROVE  HasArrived(k, f)' <=> HasArrived(k, f) \/ (k = i /\ f = h)
  <2>1. HasArrived(k, f)' <=>
          Posted(Dst(f), k, f)' /\ (Src(f) = Dst(f) \/ RecvOf(k, f) \notin requests')
    BY <1>1, ShapeIsKept DEF HasArrived
  <2>2. CASE Src(f) = Dst(f)
    BY <1>4, <1>7, <2>1, <2>2 DEF HasArrived, Remote
  <2>3. CASE Src(f) # Dst(f)
    <3>1. f \in Remote(PhaseOf(k))
      BY <2>3 DEF Remote
    <3>2. QED  BY <1>7, <1>8, <1>9, <2>1, <2>3, <3>1 DEF HasArrived
  <2>4. QED  BY <2>2, <2>3
<1>14. ArrivedIsWritten'
  <2>1. ASSUME NEW k \in Stages, NEW f \in Flows(PhaseOf(k)), HasArrived(k, f)'
        PROVE  Row(k, f) \in output'
    BY <1>5, <1>13, <2>1 DEF ExchangeInv, ArrivedIsWritten
  <2>2. QED  BY <1>1, <2>1, ShapeIsKept DEF ArrivedIsWritten
<1>15. DeliveredHasArrived'
  <2>1. ASSUME NEW r \in Ranks, NEW k \in delivered'[r]
        PROVE  /\ k \in consumed'[r] /\ LayoutIsValid(r, PhaseOf(k))'
               /\ \A f \in Flows(PhaseOf(k))' : Dst(f)' = r => HasArrived(k, f)'
    <3>1. /\ k \in delivered[r] /\ k \in Stages /\ DeliveredHasArrived
          /\ consumed[r] \subseteq consumed'[r]
      BY <1>1, <1>2 DEF ExchangeInv, ProgressInv
    <3>2. QED  BY <1>1, <1>13, <3>1, DeliveredIsKept
  <2>2. QED  BY <2>1 DEF DeliveredHasArrived
<1>16. QED  BY <1>6, <1>10, <1>11, <1>12, <1>14, <1>15 DEF ExchangeInv

\* Nothing is posted at first.
LEMMA ExchangeInit == ReleaseInit => ExchangeInv
<1> SUFFICES ASSUME ReleaseInit PROVE ExchangeInv
  OBVIOUS
<1>1. ReleaseInv /\ plan \in Plans
  BY ReleaseInitInv DEF ReleaseInit
<1>2. ProgressInv
  BY DEF ReleaseInit, ProgressInv, Progress, Stages
<1>3. \A r \in Ranks : \A k \in Stages : \A f \in Flows(PhaseOf(k)) : ~Posted(r, k, f)
  <2>1. ASSUME NEW r \in Ranks, NEW k \in Stages, NEW f \in Flows(PhaseOf(k))
        PROVE  ~Posted(r, k, f)
    <3>1. WindowOf(PhaseOf(k), f) \in 1 .. Windows(PhaseOf(k)) /\ Windows(PhaseOf(k)) \in Int
      BY <1>1, WindowsAreCounted
    <3>2. QED  BY <3>1 DEF ReleaseInit, Posted, Stages
  <2>2. QED  BY <2>1
<1>4. \A k \in Stages : \A f \in Flows(PhaseOf(k)) :
        ~Posted(Src(f), k, f) /\ ~Posted(Dst(f), k, f)
  BY <1>1, <1>3, FlowsAreTyped
<1>5. RequestsAreOfFlows /\ RowsAreOfFlows /\ DeliveredHasArrived
  BY DEF ReleaseInit, RequestsAreOfFlows, RowsAreOfFlows, DeliveredHasArrived
<1>6. PairsGoTogether
  BY <1>4 DEF ReleaseInit, PairsGoTogether, SendIsGone, RecvIsGone, Remote
<1>7. ArrivedIsWritten
  BY <1>4 DEF ArrivedIsWritten, HasArrived
<1>8. QED  BY <1>1, <1>2, <1>5, <1>6, <1>7 DEF ExchangeInv

\* One step for each kind of step
LEMMA ExchangeNext == ExchangeInv /\ [ReleaseNext]_vars => ExchangeInv'
<1> SUFFICES ASSUME ExchangeInv, [ReleaseNext]_vars PROVE ExchangeInv'
  OBVIOUS
<1>1. ReleaseInv'
  BY ReleaseNextInv DEF ExchangeInv
<1>2. ASSUME NEW r \in Ranks,
             \/ Materialize(r) \/ FinishWindow(r) \/ WorkFails(r)
             \/ CompletePayload(r) \/ NextForward(r)
      PROVE  ExchangeInv'
  BY <1>1, <1>2, QuietKeepsExchange
<1>3. ASSUME NEW r \in Ranks, Call(r) PROVE ExchangeInv'
  BY <1>1, <1>3, CallKeepsExchange
<1>4. ASSUME NEW r \in Ranks, PostWindow(r) PROVE ExchangeInv'
  BY <1>1, <1>4, PostKeepsExchange
<1>5. CASE Transfer
  BY <1>1, <1>5, TransferKeepsExchange
<1>6. CASE UNCHANGED vars
  <2>1. /\ plan' = plan /\ actual' = actual /\ plan \in Plans /\ requests' = requests
        /\ output' = output /\ UNCHANGED <<at, stage, window, consumed, delivered, forward>>
        /\ ProgressInv
    BY <1>6 DEF vars, ExchangeInv, ReleaseInv, DriverType
  <2>2. ProgressInv' /\ \A r \in Ranks : SamePosted(r)
    BY <2>1, OthersAreKept DEF ProgressInv
  <2>3. /\ RequestsAreOfFlows' /\ PairsGoTogether' /\ ArrivedIsWritten' /\ RowsAreOfFlows'
        /\ \A k \in Stages : \A f \in Flows(PhaseOf(k)) : HasArrived(k, f)' <=> HasArrived(k, f)
    BY <2>1, <2>2, QuietStepKeepsExchange DEF ExchangeInv, ArrivedIsWritten
  <2>4. DeliveredHasArrived'
    <3>1. ASSUME NEW r \in Ranks, NEW k \in delivered'[r]
          PROVE  /\ k \in consumed'[r] /\ LayoutIsValid(r, PhaseOf(k))'
                 /\ \A f \in Flows(PhaseOf(k))' : Dst(f)' = r => HasArrived(k, f)'
      <4>1. k \in delivered[r] /\ k \in Stages /\ DeliveredHasArrived
            /\ consumed[r] \subseteq consumed'[r]
        BY <2>1 DEF ExchangeInv, ProgressInv
      <4>2. QED  BY <2>1, <2>3, <4>1, DeliveredIsKept
    <3>2. QED  BY <3>1 DEF DeliveredHasArrived
  <2>5. QED  BY <1>1, <2>2, <2>3, <2>4 DEF ExchangeInv
<1>7. QED  BY <1>2, <1>3, <1>4, <1>5, <1>6 DEF ReleaseNext, RankStep

\* The inductive invariant of the exchange between ranks: beside ReleaseInv, a rank
\* posts for a payload in its first forward only, a request is an end of a flow, the
\* two ends of a flow complete together, and the output holds the rows of flows, the
\* row of every flow that has arrived and all of those of a delivered payload.
THEOREM ExchangeInvariant == ReleaseSpec => []ExchangeInv
<1>1. ReleaseInit => ExchangeInv
  BY ExchangeInit
<1>2. ExchangeInv /\ [ReleaseNext]_vars => ExchangeInv'
  BY ExchangeNext
<1>3. QED  BY <1>1, <1>2, PTL DEF ReleaseSpec

\* A send and a receive that can meet are for the same payload of the same flow:
\* the tags each rank counts for itself (next_transfer_tag) agree across the group.
THEOREM MatchesAreOfOneFlow == ReleaseSpec => []RequestsPair
<1>1. ExchangeInv => RequestsPair
  BY MatchingIsPairing DEF ExchangeInv, RequestsPair
<1>2. QED  BY <1>1, ExchangeInvariant, PTL

\* No row of a sender is written to two places (_local_flow_source_offsets).
THEOREM RowsReachOnePlace == ReleaseSpec => []RowsAreSentOnce
<1>1. ExchangeInv => RowsAreSentOnce
  <2> SUFFICES ASSUME ExchangeInv, NEW o \in output, NEW u \in output,
                      o.src = u.src, o.stage = u.stage, o.row = u.row
               PROVE  o = u
    BY DEF RowsAreSentOnce
  <2>1. PICK k \in Stages : \E f \in Flows(PhaseOf(k)) : o = Row(k, f)
    BY DEF ExchangeInv, RowsAreOfFlows
  <2>2. PICK f \in Flows(PhaseOf(k)) : o = Row(k, f)
    BY <2>1
  <2>3. PICK j \in Stages : \E g \in Flows(PhaseOf(j)) : u = Row(j, g)
    BY DEF ExchangeInv, RowsAreOfFlows
  <2>4. PICK g \in Flows(PhaseOf(j)) : u = Row(j, g)
    BY <2>3
  <2>5. /\ j = k /\ Src(f) = Src(g)
        /\ SourceRow(PhaseOf(k), f) = SourceRow(PhaseOf(j), g)
    BY <2>2, <2>4 DEF Row, Written
  <2>6. f = g
    BY <2>4, <2>5, SourceRowsAreDistinct DEF ExchangeInv, ReleaseInv, DriverType
  <2>7. QED  BY <2>2, <2>4, <2>5, <2>6
<1>2. QED  BY <1>1, ExchangeInvariant, PTL

\* A payload in the release ledger has every row of its output written once, which
\* is what releases the sends of the return.
THEOREM DeliveriesAreComplete == ReleaseSpec => []DeliveredIsComplete
<1>1. ExchangeInv => DeliveredIsComplete
  <2> SUFFICES ASSUME ExchangeInv, NEW r \in Ranks, NEW s \in Ranks, NEW k \in delivered[r],
                      NEW n \in 0 .. Rows(PhaseOf(k), s, r) - 1
               PROVE  Cardinality({o \in output : o.rank = r /\ o.stage = k
                                                    /\ o.src = s /\ o.slot = n}) = 1
    BY DEF DeliveredIsComplete
  <2> DEFINE p  == PhaseOf(k)
             there == {o \in output : o.rank = r /\ o.stage = k /\ o.src = s /\ o.slot = n}
  <2>1. k \in Stages /\ plan \in Plans /\ LayoutIsValid(r, p)
    BY DEF ExchangeInv, ReleaseInv, DriverType, ProgressInv, DeliveredHasArrived
  <2>2. n \in 0 .. Cardinality(Edge(p, s, r)) - 1
    BY <2>1 DEF LayoutIsValid
  <2>3. PICK f \in Edge(p, s, r) : Offset(p, f) = n
    BY <2>1, <2>2, OffsetsAreGiven
  <2>4. f \in Flows(p) /\ Src(f) = s /\ Dst(f) = r
    BY <2>3 DEF Edge
  <2>5. Row(k, f) \in there
    <3>1. HasArrived(k, f)
      BY <2>4 DEF ExchangeInv, DeliveredHasArrived
    <3>2. Row(k, f) \in output
      BY <2>1, <2>4, <3>1 DEF ExchangeInv, ArrivedIsWritten
    <3>3. QED  BY <2>3, <2>4, <3>2 DEF Row, Written
  <2>6. ASSUME NEW o \in there PROVE o = Row(k, f)
    <3>1. PICK j \in Stages : \E g \in Flows(PhaseOf(j)) : o = Row(j, g)
      BY <2>6 DEF ExchangeInv, RowsAreOfFlows
    <3>2. PICK g \in Flows(PhaseOf(j)) : o = Row(j, g)
      BY <3>1
    <3>3. j = k /\ Src(g) = s /\ Dst(g) = r /\ Offset(PhaseOf(j), g) = n
      BY <2>6, <3>2 DEF Row, Written
    <3>4. g \in Edge(p, s, r) /\ Offset(p, g) = n
      BY <3>2, <3>3 DEF Edge
    <3>5. g = f
      BY <2>1, <2>3, <3>4, OffsetsAreDistinct
    <3>6. QED  BY <3>2, <3>3, <3>5
  <2> HIDE DEF there
  <2>7. there = {Row(k, f)}
    BY <2>5, <2>6
  <2>8. Cardinality(there) = 1
    BY <2>7, FS_Singleton
  <2>9. QED  BY <2>8 DEF there
<1>2. QED  BY <1>1, ExchangeInvariant, PTL
=============================================================================
