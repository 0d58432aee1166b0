--------------------------- MODULE PhaseSyncProofs ---------------------------
(***************************************************************************)
(* The synchronous mode, for every group, every demand and any number of   *)
(* layers: what keeps the members in step, and what they give to the model.*)
(*                                                                         *)
(* A member may be ahead of another by any number of waves.  What the      *)
(* slower one will call is determined by what it is at and by the plan of  *)
(* the root; the faster one has called just that.  So there is one history *)
(* of collectives (History), of which each member has gone a part.  A      *)
(* summary is gathered from all, so nobody is past the agreement of a      *)
(* phase while another member has not come to that phase.  And in a wave   *)
(* both ends of an edge have kept the same task, if any, and cut it from   *)
(* the same rows, whenever each of them comes to that wave.                *)
(*                                                                         *)
(* In a group of the ranks 0 .. N-1 (WholeGroup) no summary loses an edge, *)
(* so the plan of the root has every bucket of every edge in some wave     *)
(* (Complete), whichever policy packs it.  The rows of the waves behind a  *)
(* member are at the places that the native exchange gives them            *)
(* (OutputInv); past the last wave the output is the native tensor.  The   *)
(* plan has a bucket once only, and buckets in a wave have no end in       *)
(* common (Exact), so the root and every member accept it: none raises.    *)
(* Of the members that are not done, one that has called least finds all   *)
(* others at its call or past it (NobodyIsStuck).                          *)
(***************************************************************************)
EXTENDS PhaseSync, SequenceTheorems, FiniteSetTheorems, TLAPS

----------------------------------------------------------------------------
(* Sequences that grow. *)

IsSequence(s) == \E S : s \in Seq(S)

\* What Append does to a sequence of anything.
LEMMA AppendOne ==
  ASSUME NEW s, IsSequence(s), NEW x
  PROVE  /\ IsSequence(Append(s, x))
         /\ Len(s) \in Nat /\ Len(Append(s, x)) = Len(s) + 1
         /\ \A m \in 1 .. Len(s) : Append(s, x)[m] = s[m]
         /\ Append(s, x)[Len(s) + 1] = x
<1>1. PICK S : s \in Seq(S)
  BY DEF IsSequence
<1> DEFINE T == S \cup {x}
<1>2. \A m \in 1 .. Len(s) : s[m] \in T
  BY <1>1
<1>3. s \in Seq(T)
  BY <1>1, <1>2
<1>4. x \in T
  OBVIOUS
<1> HIDE DEF T
<1>5. Append(s, x) \in Seq(T) /\ Len(s) \in Nat
  BY <1>3, <1>4
<1>6. /\ Len(Append(s, x)) = Len(s) + 1
      /\ \A m \in 1 .. Len(s) : Append(s, x)[m] = s[m]
      /\ Append(s, x)[Len(s) + 1] = x
  BY <1>3, <1>4
<1> QED
  BY <1>5, <1>6 DEF IsSequence

----------------------------------------------------------------------------
(* Folds over finite sets.  The prover has no induction over sets: where one is *)
(* needed, a counterexample of which no part is one leads to a contradiction.    *)

\* Of sets of one finite set, one has no other of them as a part.
LEMMA LeastSet ==
  ASSUME NEW S, IsFiniteSet(S), NEW T, T \subseteq SUBSET S, T # {}
  PROVE  \E x \in T : \A y \in T : y \subseteq x => y = x
<1>1. IsWellFoundedOn(StrictSubsetOrdering(S), SUBSET S)
  BY FS_StrictSubsetOrderingWellFounded, FS_FiniteSubsetsOfFinite
<1>2. PICK x \in T : \A y \in T : ~ (<<y, x>> \in StrictSubsetOrdering(S))
  BY <1>1, WFMin
<1>3. \A y \in T : y \subseteq x => y = x
  BY <1>2 DEF StrictSubsetOrdering
<1> QED
  BY <1>3

\* Of numbers, one is the least.
LEMMA LeastNumber ==
  ASSUME NEW T, T \subseteq Nat, T # {}
  PROVE  \E n \in T : \A m \in T : n <= m
<1>1. PICK n \in T : \A m \in T : ~ (<<m, n>> \in OpToRel(<, Nat))
  BY NatLessThanWellFounded, WFMin
<1>2. \A m \in T : ~ (m < n)
  BY <1>1 DEF OpToRel
<1> QED
  BY <1>2

\* The value a fold gives to each subset of S: take away an element, fold the rest.
Fold(g, S, base, step, pick) ==
  \A z \in SUBSET S : g[z] = IF z = {} THEN base ELSE step[<<pick[z], g[z \ {pick[z]}]>>]

LEMMA FoldIsUnique ==
  ASSUME NEW S, IsFiniteSet(S), NEW U, S \subseteq U, NEW base, NEW step, NEW pick,
         \A z \in SUBSET U : z # {} => pick[z] \in z,
         NEW g, NEW h, Fold(g, U, base, step, pick), Fold(h, S, base, step, pick)
  PROVE  \A z \in SUBSET S : g[z] = h[z]
<1> DEFINE T == {z \in SUBSET S : g[z] # h[z]}
<1> SUFFICES ASSUME T # {} PROVE FALSE
  OBVIOUS
<1>0. T \subseteq SUBSET S
  OBVIOUS
<1>1. PICK x \in T : \A y \in T : y \subseteq x => y = x
  <2> HIDE DEF T
  <2> QED
    BY <1>0, LeastSet
<1>2. x \in SUBSET S /\ x \in SUBSET U /\ g[x] # h[x]
  BY <1>1
<1> DEFINE rest == x \ {pick[x]}
<1>3. g[x] = IF x = {} THEN base ELSE step[<<pick[x], g[rest]>>]
  BY <1>2 DEF Fold
<1>4. h[x] = IF x = {} THEN base ELSE step[<<pick[x], h[rest]>>]
  BY <1>2 DEF Fold
<1>5. x # {} /\ g[rest] # h[rest]
  BY <1>2, <1>3, <1>4
<1>6. rest \subseteq x /\ rest # x /\ rest \in SUBSET S
  BY <1>2, <1>5
<1> QED
  BY <1>1, <1>5, <1>6

\* A fold whose values are of V exists.
LEMMA FoldExists ==
  ASSUME NEW S, IsFiniteSet(S), NEW V, NEW base \in V, NEW step \in [S \X V -> V], NEW pick,
         \A z \in SUBSET S : z # {} => pick[z] \in z
  PROVE  \E g \in [SUBSET S -> V] : Fold(g, S, base, step, pick)
<1> DEFINE Solved(z) == \E g \in [SUBSET z -> V] : Fold(g, z, base, step, pick)
           T == {z \in SUBSET S : ~Solved(z)}
<1> SUFFICES ASSUME T # {} PROVE FALSE
  OBVIOUS
<1>0. T \subseteq SUBSET S
  OBVIOUS
<1>1. PICK U \in T : \A y \in T : y \subseteq U => y = U
  <2> HIDE DEF T
  <2> QED
    BY <1>0, LeastSet
<1>2. U \in SUBSET S /\ ~Solved(U) /\ \A z \in SUBSET U : z # U => Solved(z)
  BY <1>1
<1> HIDE DEF T
<1> DEFINE sol(z) == CHOOSE g \in [SUBSET z -> V] : Fold(g, z, base, step, pick)
<1>3. \A z \in SUBSET U : z # U => sol(z) \in [SUBSET z -> V] /\ Fold(sol(z), z, base, step, pick)
  BY <1>2
<1> HIDE DEF sol, Solved
<1> DEFINE rest(z) == z \ {pick[z]}
           g == [z \in SUBSET U |-> IF z = {} THEN base ELSE step[<<pick[z], sol(rest(z))[rest(z)]>>]]
<1>4. ASSUME NEW z \in SUBSET U, z # {}
      PROVE  /\ pick[z] \in S /\ rest(z) \in SUBSET U /\ rest(z) # U /\ rest(z) \in SUBSET z
             /\ sol(rest(z))[rest(z)] \in V
  <2>1. pick[z] \in z
    BY <1>2, <1>4
  <2>2. rest(z) \in SUBSET U /\ rest(z) # U /\ rest(z) \in SUBSET z
    BY <2>1
  <2>3. sol(rest(z)) \in [SUBSET rest(z) -> V]
    BY <2>2, <1>3
  <2>4. sol(rest(z))[rest(z)] \in V
    BY <2>3
  <2> QED
    BY <2>1, <2>2, <2>4, <1>2
<1>5. ASSUME NEW z \in SUBSET U, z # U PROVE g[z] = sol(z)[z]
  <2>1. Fold(sol(z), z, base, step, pick)
    BY <1>3, <1>5
  <2>2. CASE z = {}
    BY <2>1, <2>2 DEF Fold
  <2>3. CASE z # {}
    <3>1. Fold(sol(rest(z)), rest(z), base, step, pick)
      BY <1>3, <1>4, <2>3
    <3>2. IsFiniteSet(rest(z)) /\ \A y \in SUBSET z : y # {} => pick[y] \in y
      BY <1>2, FS_Subset
    <3>3. sol(z)[rest(z)] = sol(rest(z))[rest(z)]
      <4>1. rest(z) \subseteq z
        OBVIOUS
      <4>2. \A y \in SUBSET rest(z) : sol(z)[y] = sol(rest(z))[y]
        <5> HIDE DEF rest
        <5> QED
          BY <4>1, <2>1, <3>1, <3>2, FoldIsUnique
      <4> QED
        BY <4>2
    <3>4. sol(z)[z] = step[<<pick[z], sol(z)[rest(z)]>>]
      BY <2>1, <2>3 DEF Fold
    <3> QED
      BY <2>3, <3>3, <3>4
  <2> QED
    BY <2>2, <2>3
<1>6. g \in [SUBSET U -> V]
  <2>1. ASSUME NEW z \in SUBSET U, z # {} PROVE step[<<pick[z], sol(rest(z))[rest(z)]>>] \in V
    BY <1>4, <2>1
  <2> QED
    BY <2>1
<1>7. Fold(g, U, base, step, pick)
  <2>1. ASSUME NEW z \in SUBSET U
        PROVE  g[z] = IF z = {} THEN base ELSE step[<<pick[z], g[rest(z)]>>]
    <3>1. CASE z = {}
      BY <3>1
    <3>2. CASE z # {}
      <4>1. g[rest(z)] = sol(rest(z))[rest(z)]
        BY <3>2, <1>4, <1>5
      <4>2. g[z] = step[<<pick[z], sol(rest(z))[rest(z)]>>]
        BY <3>2
      <4> QED
        BY <3>2, <4>1, <4>2
    <3> QED
      BY <3>1, <3>2
  <2> QED
    BY <2>1 DEF Fold
<1>8. Solved(U)
  <2> HIDE DEF g
  <2> QED
    BY <1>6, <1>7 DEF Solved
<1> QED
  BY <1>2, <1>8

----------------------------------------------------------------------------
(* Sums, and the places of segments one after the other. *)

\* g gives the sum of L over each subset of S, one element taken away at a time.
Taken(z) == CHOOSE x \in z : TRUE
Sums(g, L, S) == g = [z \in SUBSET S |-> IF z = {} THEN 0 ELSE L[Taken(z)] + g[z \ {Taken(z)}]]
Total(L, S) == (CHOOSE g : Sums(g, L, S))[S]

LEMMA SumsAreUnique ==
  ASSUME NEW L, NEW S, IsFiniteSet(S), NEW U, S \subseteq U, NEW g, NEW h, Sums(g, L, U), Sums(h, L, S)
  PROVE  \A z \in SUBSET S : g[z] = h[z]
<1> DEFINE T == {z \in SUBSET S : g[z] # h[z]}
<1> SUFFICES ASSUME T # {} PROVE FALSE
  OBVIOUS
<1>0. T \subseteq SUBSET S
  OBVIOUS
<1>1. PICK x \in T : \A y \in T : y \subseteq x => y = x
  <2> HIDE DEF T
  <2> QED
    BY <1>0, LeastSet
<1>2. x \in SUBSET S /\ x \in SUBSET U /\ g[x] # h[x]
  BY <1>1
<1> DEFINE rest == x \ {Taken(x)}
<1>3. g[x] = IF x = {} THEN 0 ELSE L[Taken(x)] + g[rest]
  BY <1>2 DEF Sums
<1>4. h[x] = IF x = {} THEN 0 ELSE L[Taken(x)] + h[rest]
  BY <1>2 DEF Sums
<1>5. x # {} /\ g[rest] # h[rest]
  BY <1>2, <1>3, <1>4
<1>6. rest \subseteq x /\ rest # x /\ rest \in SUBSET S
  BY <1>2, <1>5 DEF Taken
<1> QED
  BY <1>1, <1>5, <1>6

\* The sum exists and is the one any such function gives.
LEMMA TotalIsTheSum ==
  ASSUME NEW S, IsFiniteSet(S), NEW L, \A x \in S : L[x] \in Nat
  PROVE  /\ \E g : Sums(g, L, S)
         /\ \A g : Sums(g, L, S) => Total(L, S) = g[S]
<1>1. \E g : Sums(g, L, S)
  <2>1. PICK pick : pick = [z \in SUBSET S |-> Taken(z)]
    OBVIOUS
  <2>2. PICK step : step = [p \in S \X Nat |-> L[p[1]] + p[2]]
    OBVIOUS
  <2>3. step \in [S \X Nat -> Nat]
    BY <2>2
  <2>4. \A z \in SUBSET S : z # {} => pick[z] \in z /\ pick[z] = Taken(z)
    BY <2>1 DEF Taken
  <2>5. PICK g \in [SUBSET S -> Nat] : Fold(g, S, 0, step, pick)
    BY <2>3, <2>4, FoldExists
  <2>6. ASSUME NEW z \in SUBSET S, z # {} PROVE g[z] = L[Taken(z)] + g[z \ {Taken(z)}]
    <3>1. g[z] = step[<<pick[z], g[z \ {pick[z]}]>>]
      BY <2>5, <2>6 DEF Fold
    <3>2. <<Taken(z), g[z \ {Taken(z)}]>> \in S \X Nat
      BY <2>4, <2>6
    <3> QED
      BY <3>1, <3>2, <2>2, <2>4, <2>6
  <2>7. g[{}] = 0
    BY <2>5 DEF Fold
  <2> QED
    BY <2>6, <2>7 DEF Sums
<1>2. ASSUME NEW g, Sums(g, L, S) PROVE Total(L, S) = g[S]
  <2>1. PICK h : h = CHOOSE f : Sums(f, L, S)
    OBVIOUS
  <2>2. Sums(h, L, S) /\ Total(L, S) = h[S]
    BY <1>2, <2>1 DEF Total
  <2> QED
    BY <2>2, <1>2, SumsAreUnique
<1> QED
  BY <1>1, <1>2

\* Whichever element is taken first, the sum is the same.
LEMMA TotalWithout ==
  ASSUME NEW S, IsFiniteSet(S), NEW L, \A x \in S : L[x] \in Nat
  PROVE  /\ Total(L, S) \in Nat /\ (S = {} => Total(L, S) = 0)
         /\ \A t \in S : Total(L, S) = L[t] + Total(L, S \ {t})
<1> DEFINE Fine(s) == /\ Total(L, s) \in Nat /\ (s = {} => Total(L, s) = 0)
                      /\ \A t \in s : Total(L, s) = L[t] + Total(L, s \ {t})
           T == {s \in SUBSET S : ~Fine(s)}
<1> SUFFICES ASSUME T # {} PROVE FALSE
  OBVIOUS
<1>0. T \subseteq SUBSET S
  OBVIOUS
<1>1. PICK x \in T : \A y \in T : y \subseteq x => y = x
  <2> HIDE DEF T
  <2> QED
    BY <1>0, LeastSet
<1>2. x \in SUBSET S /\ ~Fine(x) /\ IsFiniteSet(x)
  BY <1>1, FS_Subset
<1>3. \A y \in SUBSET x : y # x => Fine(y)
  BY <1>1, <1>2
<1> HIDE DEF T
<1>4. \A y \in SUBSET x : /\ IsFiniteSet(y) /\ \A e \in y : L[e] \in Nat
  BY <1>2, FS_Subset
<1>5. PICK g : Sums(g, L, x) /\ Total(L, x) = g[x]
  BY <1>4, TotalIsTheSum
<1>6. x # {}
  BY <1>2, <1>5 DEF Sums
<1> DEFINE a == Taken(x)
<1>7. a \in x /\ L[a] \in Nat /\ Total(L, x) = L[a] + Total(L, x \ {a})
  <2>1. a \in x /\ x \ {a} \in SUBSET x
    BY <1>6 DEF Taken
  <2>2. PICK h : Sums(h, L, x \ {a}) /\ Total(L, x \ {a}) = h[x \ {a}]
    BY <2>1, <1>4, TotalIsTheSum
  <2>3. g[x \ {a}] = h[x \ {a}]
    BY <2>1, <2>2, <1>4, <1>5, SumsAreUnique
  <2>4. g[x] = L[a] + g[x \ {a}]
    BY <1>5, <1>6 DEF Sums
  <2> QED
    BY <2>1, <2>2, <2>3, <2>4, <1>4, <1>5
<1> HIDE DEF a
<1>8. Fine(x \ {a})
  BY <1>3, <1>7
<1>9. ASSUME NEW t \in x, t # a PROVE Total(L, x) = L[t] + Total(L, x \ {t})
  <2>1. Fine(x \ {t}) /\ Fine((x \ {t}) \ {a})
    BY <1>3, <1>7
  <2>2. Total(L, x \ {t}) = L[a] + Total(L, (x \ {t}) \ {a})
    BY <2>1, <1>7, <1>9
  <2>3. Total(L, x \ {a}) = L[t] + Total(L, (x \ {a}) \ {t})
    BY <1>8, <1>9
  <2>4. (x \ {a}) \ {t} = (x \ {t}) \ {a}
    OBVIOUS
  <2>5. L[t] \in Nat /\ Total(L, (x \ {t}) \ {a}) \in Nat
    BY <2>1, <1>4
  <2>6. Total(L, x) = L[a] + (L[t] + Total(L, (x \ {t}) \ {a}))
    BY <1>7, <2>3, <2>4
  <2>7. Total(L, x) = L[t] + (L[a] + Total(L, (x \ {t}) \ {a}))
    BY <1>7, <2>5, <2>6
  <2> QED
    BY <2>2, <2>7
<1>10. Fine(x)
  <2>1. Total(L, x \ {a}) \in Nat
    BY <1>8
  <2>2. Total(L, x) \in Nat
    BY <1>7, <2>1
  <2> QED
    BY <1>6, <1>7, <1>9, <2>2
<1> QED
  BY <1>2, <1>10

\* Segments of lengths L, one after the other: where each begins
LEMMA Beginnings ==
  ASSUME NEW n \in Nat, NEW L \in [1 .. n -> Nat]
  PROVE  /\ Total(L, 1 .. 0) = 0
         /\ \A m \in 0 .. n : Total(L, 1 .. m) \in Nat
         /\ \A m \in 1 .. n : Total(L, 1 .. m) = Total(L, 1 .. m - 1) + L[m]
         /\ \A a, b \in 0 .. n : a <= b => Total(L, 1 .. a) <= Total(L, 1 .. b)
<1>1. ASSUME NEW m \in 0 .. n PROVE IsFiniteSet(1 .. m) /\ \A x \in 1 .. m : L[x] \in Nat
  <2>1. \A x \in 1 .. m : L[x] \in Nat
    OBVIOUS
  <2>2. IsFiniteSet(1 .. m)
    BY FS_Interval
  <2> QED
    BY <2>1, <2>2
<1>2. \A m \in 0 .. n : Total(L, 1 .. m) \in Nat
  BY <1>1, TotalWithout
<1>3. Total(L, 1 .. 0) = 0
  <2>1. 1 .. 0 = {} /\ 0 \in 0 .. n
    OBVIOUS
  <2> QED
    BY <2>1, <1>1, TotalWithout
<1>4. ASSUME NEW m \in 1 .. n PROVE Total(L, 1 .. m) = Total(L, 1 .. m - 1) + L[m]
  <2>1. (1 .. m) \ {m} = 1 .. m - 1 /\ m \in 1 .. m /\ m \in 0 .. n /\ m - 1 \in 0 .. n
    OBVIOUS
  <2>2. Total(L, 1 .. m) = L[m] + Total(L, (1 .. m) \ {m})
    BY <2>1, <1>1, TotalWithout
  <2>3. Total(L, 1 .. m - 1) \in Nat /\ L[m] \in Nat
    BY <2>1, <1>2
  <2>4. Total(L, (1 .. m) \ {m}) = Total(L, 1 .. m - 1)
    BY <2>1, Zenon
  <2> QED
    BY <2>2, <2>3, <2>4
<1>5. ASSUME NEW a \in 0 .. n, NEW c \in 0 .. n, a <= c, ~ (Total(L, 1 .. a) <= Total(L, 1 .. c))
      PROVE  FALSE
  <2> DEFINE T == {b \in 0 .. n : a <= b /\ ~ (Total(L, 1 .. a) <= Total(L, 1 .. b))}
  <2>1. T \subseteq Nat /\ T # {}
    BY <1>5
  <2>2. PICK b \in T : \A m \in T : b <= m
    <3> HIDE DEF T
    <3> QED
      BY <2>1, LeastNumber
  <2>3. b \in 0 .. n /\ a <= b /\ ~ (Total(L, 1 .. a) <= Total(L, 1 .. b))
    BY <2>2
  <2>4. b # a
    BY <2>3, <1>2
  <2>5. b \in 1 .. n /\ b - 1 \in 0 .. n /\ a <= b - 1
    BY <2>3, <2>4
  <2>6. Total(L, 1 .. a) <= Total(L, 1 .. b - 1)
    <3>1. b - 1 \notin T
      <4> HIDE DEF T
      <4> QED
        BY <2>2, <2>5
    <3> QED
      BY <3>1, <2>5
  <2>7. Total(L, 1 .. b) = Total(L, 1 .. b - 1) + L[b] /\ L[b] \in Nat
    BY <2>5, <1>4
  <2> QED
    BY <2>3, <2>5, <2>6, <2>7, <1>2
<1> QED
  BY <1>2, <1>3, <1>4, <1>5

\* Every place is of one segment, at one place in it.
LEMMA PlacesOfSegments ==
  ASSUME NEW n \in Nat, NEW L \in [1 .. n -> Nat]
  PROVE  /\ \A d \in 1 .. n : \A y \in 1 .. L[d] : Total(L, 1 .. d - 1) + y \in 1 .. Total(L, 1 .. n)
         /\ \A q \in 1 .. Total(L, 1 .. n) : \E d \in 1 .. n : \E y \in 1 .. L[d] :
              q = Total(L, 1 .. d - 1) + y
         /\ \A d, e \in 1 .. n : \A y \in 1 .. L[d] : \A z \in 1 .. L[e] :
              Total(L, 1 .. d - 1) + y = Total(L, 1 .. e - 1) + z => d = e /\ y = z
<1> DEFINE P(m) == Total(L, 1 .. m)
<1>1. /\ P(0) = 0 /\ \A m \in 0 .. n : P(m) \in Nat
      /\ \A m \in 1 .. n : P(m) = P(m - 1) + L[m]
      /\ \A a, b \in 0 .. n : a <= b => P(a) <= P(b)
  BY Beginnings
<1> HIDE DEF P
<1>2. ASSUME NEW d \in 1 .. n, NEW y \in 1 .. L[d] PROVE P(d - 1) + y \in 1 .. P(n)
  <2>1. d \in 0 .. n /\ d - 1 \in 0 .. n /\ n \in 0 .. n /\ d <= n
    OBVIOUS
  <2>2. P(d) <= P(n) /\ P(d) = P(d - 1) + L[d] /\ P(d - 1) \in Nat /\ P(n) \in Nat /\ L[d] \in Nat
    BY <2>1, <1>1
  <2> QED
    BY <2>2
<1>3. ASSUME NEW q \in 1 .. P(n) PROVE \E d \in 1 .. n : \E y \in 1 .. L[d] : q = P(d - 1) + y
  <2> DEFINE T == {m \in 0 .. n : q <= P(m)}
  <2>1. T \subseteq Nat /\ n \in T
    BY <1>1
  <2>2. PICK d \in T : \A m \in T : d <= m
    <3> HIDE DEF T
    <3> QED
      BY <2>1, LeastNumber
  <2>3. d \in 0 .. n /\ q <= P(d)
    BY <2>2
  <2>4. d # 0
    BY <2>3, <1>1
  <2>5. d \in 1 .. n /\ d - 1 \in 0 .. n
    BY <2>3, <2>4
  <2>6. ~ (q <= P(d - 1))
    <3>1. d - 1 \notin T
      <4> HIDE DEF T
      <4> QED
        BY <2>2, <2>5
    <3> QED
      BY <3>1, <2>5
  <2>7. P(d - 1) \in Nat /\ P(n) \in Nat /\ L[d] \in Nat /\ P(d) = P(d - 1) + L[d]
    BY <2>5, <1>1
  <2>8. q - P(d - 1) \in 1 .. L[d] /\ q = P(d - 1) + (q - P(d - 1))
    BY <2>3, <2>6, <2>7
  <2> QED
    BY <2>5, <2>8
<1>4. ASSUME NEW d \in 1 .. n, NEW e \in 1 .. n, NEW y \in 1 .. L[d], NEW z \in 1 .. L[e],
             P(d - 1) + y = P(e - 1) + z
      PROVE  d = e /\ y = z
  <2>1. /\ P(d - 1) \in Nat /\ P(e - 1) \in Nat /\ P(d) \in Nat /\ P(e) \in Nat
        /\ L[d] \in Nat /\ L[e] \in Nat
        /\ P(d) = P(d - 1) + L[d] /\ P(e) = P(e - 1) + L[e]
    BY <1>1
  <2>2. CASE d < e
    <3>1. d <= e - 1 /\ d \in 0 .. n /\ e - 1 \in 0 .. n
      BY <2>2
    <3>2. P(d) <= P(e - 1)
      BY <3>1, <1>1
    <3> QED
      BY <3>2, <2>1, <1>4
  <2>3. CASE e < d
    <3>1. e <= d - 1 /\ e \in 0 .. n /\ d - 1 \in 0 .. n
      BY <2>3
    <3>2. P(e) <= P(d - 1)
      BY <3>1, <1>1
    <3> QED
      BY <3>2, <2>1, <1>4
  <2>4. CASE d = e
    <3>1. P(d - 1) + y = P(d - 1) + z /\ y \in Nat /\ z \in Nat
      BY <2>4, <2>1, <1>4
    <3> HIDE DEF P
    <3>2. y = z
      BY <3>1, <2>1
    <3> QED
      BY <2>4, <3>2
  <2> QED
    BY <2>2, <2>3, <2>4
<1> QED
  BY <1>2, <1>3, <1>4 DEF P

\* The last place of a set of them
Top(z) == CHOOSE x \in z : \A y \in z : x >= y

LEMMA TopIsIn ==
  ASSUME NEW n \in Nat, NEW z \in SUBSET (1 .. n), z # {}
  PROVE  Top(z) \in z /\ \A y \in z : Top(z) >= y
<1> DEFINE T == {m \in 0 .. n : n - m \in z}
<1>1. T \subseteq Nat /\ T # {}
  <2>1. PICK y : y \in z
    OBVIOUS
  <2>2. n - y \in 0 .. n /\ n - (n - y) = y
    BY <2>1
  <2>3. n - y \in T
    BY <2>1, <2>2
  <2> QED
    BY <2>3
<1>2. PICK m \in T : \A l \in T : m <= l
  <2> HIDE DEF T
  <2> QED
    BY <1>1, LeastNumber
<1>3. n - m \in z /\ m \in 0 .. n
  BY <1>2
<1>4. ASSUME NEW y \in z PROVE n - m >= y
  <2>1. n - y \in 0 .. n /\ n - (n - y) = y
    OBVIOUS
  <2>2. m <= n - y
    BY <2>1, <1>2
  <2> QED
    BY <2>1, <2>2, <1>3
<1>5. \E x \in z : \A y \in z : x >= y
  BY <1>3, <1>4
<1> QED
  BY <1>5 DEF Top

LEMMA TopOfFirst ==
  ASSUME NEW m \in Nat \ {0}
  PROVE  Top(1 .. m) = m /\ (1 .. m) \ {m} = 1 .. m - 1 /\ 1 .. m # {}
<1>1. Top(1 .. m) \in 1 .. m /\ \A y \in 1 .. m : Top(1 .. m) >= y
  <2>1. 1 .. m # {} /\ 1 .. m \in SUBSET (1 .. m)
    BY m \in 1 .. m
  <2> QED
    BY <2>1, TopIsIn
<1> QED
  BY <1>1

\* Segments and their lengths, and a tensor that has them one after the other
Segments(F, L, n) ==
  /\ n \in Nat /\ L \in [1 .. n -> Nat] /\ \A d \in 1 .. n : L[d] = Len(F[d])
  /\ \E X : F \in [1 .. n -> Seq(X)]
LaidOut(tensor, F, L, n) ==
  /\ IsSequence(tensor) /\ Len(tensor) = Total(L, 1 .. n)
  /\ \A d \in 1 .. n : \A y \in 1 .. L[d] : tensor[Total(L, 1 .. d - 1) + y] = F[d][y]

LEMMA JoinedSegments ==
  ASSUME NEW F, NEW L, NEW n, Segments(F, L, n)
  PROVE  LaidOut(Exchange!Joined(F), F, L, n)
<1> SUFFICES ASSUME NEW X, n \in Nat, F \in [1 .. n -> Seq(X)],
                    L \in [1 .. n -> Nat], \A d \in 1 .. n : L[d] = Len(F[d])
             PROVE  /\ Exchange!Joined(F) \in Seq(X) /\ Len(Exchange!Joined(F)) = Total(L, 1 .. n)
                    /\ \A d \in 1 .. n : \A y \in 1 .. L[d] :
                         Exchange!Joined(F)[Total(L, 1 .. d - 1) + y] = F[d][y]
  BY DEF Segments, LaidOut, IsSequence
<1>1. L \in [1 .. n -> Nat]
  OBVIOUS
<1>2. PICK pick : pick = [z \in SUBSET (1 .. n) |-> Top(z)]
  OBVIOUS
<1>3. \A z \in SUBSET (1 .. n) : z # {} => pick[z] \in z /\ pick[z] = Top(z)
  BY <1>2, TopIsIn
<1>4. PICK step : step = [p \in (1 .. n) \X Seq(X) |-> p[2] \o F[p[1]]]
  OBVIOUS
<1>5. step \in [(1 .. n) \X Seq(X) -> Seq(X)]
  BY <1>4
<1>6. PICK h \in [SUBSET (1 .. n) -> Seq(X)] : Fold(h, 1 .. n, <<>>, step, pick)
  <2>1. <<>> \in Seq(X) /\ IsFiniteSet(1 .. n)
    BY FS_Interval
  <2> QED
    BY <2>1, <1>3, <1>5, FoldExists
<1> DEFINE Unfolds(g) == g = [z \in SUBSET (1 .. n) |-> IF z = {} THEN <<>> ELSE g[z \ {Top(z)}] \o F[Top(z)]]
<1>7. Unfolds(h)
  <2>1. ASSUME NEW z \in SUBSET (1 .. n), z # {} PROVE h[z] = h[z \ {Top(z)}] \o F[Top(z)]
    <3>1. h[z] = step[<<Top(z), h[z \ {Top(z)}]>>]
      BY <1>3, <1>6, <2>1 DEF Fold
    <3>2. <<Top(z), h[z \ {Top(z)}]>> \in (1 .. n) \X Seq(X)
      BY <1>3, <2>1
    <3> QED
      BY <3>1, <3>2, <1>4
  <2>2. h[{}] = <<>>
    BY <1>6 DEF Fold
  <2> QED
    BY <2>1, <2>2
<1>8. PICK g : Unfolds(g) /\ Exchange!Joined(F) = g[1 .. n]
  <2> DEFINE top(z) == CHOOSE x \in z : \A y \in z : x >= y
             it == CHOOSE it : it = [z \in SUBSET DOMAIN F |-> IF z = {} THEN <<>> ELSE it[z \ {top(z)}] \o F[top(z)]]
  <2>1. \E f : f = [z \in SUBSET DOMAIN F |-> IF z = {} THEN <<>> ELSE f[z \ {top(z)}] \o F[top(z)]]
    BY <1>7 DEF Top
  <2>2. it = [z \in SUBSET DOMAIN F |-> IF z = {} THEN <<>> ELSE it[z \ {top(z)}] \o F[top(z)]]
    BY <2>1
  <2>3. Exchange!Joined(F) = it[DOMAIN F]
    BY DEF Exchange!Joined, Exchange!FoldLeft, Exchange!MapThenFoldSet, Exchange!Max
  <2>4. DOMAIN F = 1 .. n
    OBVIOUS
  <2>5. Unfolds(it)
    BY <2>2, <2>4 DEF Top
  <2> QED
    BY <2>3, <2>4, <2>5
<1> DEFINE Laid(m) == /\ g[1 .. m] \in Seq(X) /\ Len(g[1 .. m]) = Total(L, 1 .. m)
                      /\ \A d \in 1 .. m : \A y \in 1 .. L[d] : g[1 .. m][Total(L, 1 .. d - 1) + y] = F[d][y]
<1>9. /\ Total(L, 1 .. 0) = 0
      /\ \A m \in 0 .. n : Total(L, 1 .. m) \in Nat
      /\ \A m \in 1 .. n : Total(L, 1 .. m) = Total(L, 1 .. m - 1) + L[m]
      /\ \A a, b \in 0 .. n : a <= b => Total(L, 1 .. a) <= Total(L, 1 .. b)
  BY <1>1, Beginnings
<1>10. Laid(0)
  <2>1. 1 .. 0 = {} /\ {} \in SUBSET (1 .. n)
    OBVIOUS
  <2>2. g[1 .. 0] = <<>>
    BY <2>1, <1>8
  <2> QED
    BY <2>1, <2>2, <1>9
<1>11. ASSUME NEW m \in 1 .. n, Laid(m - 1) PROVE Laid(m)
  <2>1. Top(1 .. m) = m /\ (1 .. m) \ {m} = 1 .. m - 1 /\ 1 .. m # {} /\ 1 .. m \in SUBSET (1 .. n)
    <3> HIDE DEF Laid, Unfolds
    <3>1. m \in Nat \ {0} /\ 1 .. m \in SUBSET (1 .. n)
      OBVIOUS
    <3> QED
      BY <3>1, TopOfFirst
  <2>2. g[1 .. m] = g[1 .. m - 1] \o F[m]
    <3>1. g[1 .. m] = g[(1 .. m) \ {Top(1 .. m)}] \o F[Top(1 .. m)]
      BY <2>1, <1>8
    <3> QED
      BY <3>1, <2>1
  <2>3. PICK s : s = g[1 .. m - 1]
    OBVIOUS
  <2>4. s \in Seq(X) /\ Len(s) = Total(L, 1 .. m - 1) /\ F[m] \in Seq(X) /\ Len(F[m]) = L[m]
    BY <2>3, <1>11
  <2>5. /\ s \o F[m] \in Seq(X) /\ Len(s \o F[m]) = Len(s) + Len(F[m])
        /\ \A q \in 1 .. Len(s) : (s \o F[m])[q] = s[q]
        /\ \A y \in 1 .. Len(F[m]) : (s \o F[m])[Len(s) + y] = F[m][y]
    <3> HIDE DEF Laid, Unfolds
    <3>1. s \in Seq(X) /\ F[m] \in Seq(X)
      BY <2>4
    <3> QED
      BY <3>1, ConcatProperties
  <2>6. ASSUME NEW d \in 1 .. m, NEW y \in 1 .. L[d]
        PROVE  g[1 .. m][Total(L, 1 .. d - 1) + y] = F[d][y]
    <3>1. CASE d = m
      BY <3>1, <2>2, <2>3, <2>4, <2>5
    <3>2. CASE d # m
      <4>1. d \in 1 .. m - 1 /\ d \in 1 .. n /\ d - 1 \in 0 .. n /\ d \in 0 .. n /\ m - 1 \in 0 .. n /\ d <= m - 1
        BY <3>2
      <4>2. Total(L, 1 .. d) <= Len(s) /\ Total(L, 1 .. d) = Total(L, 1 .. d - 1) + L[d]
        BY <4>1, <2>4, <1>9
      <4>3. Total(L, 1 .. d - 1) \in Nat /\ Total(L, 1 .. d) \in Nat /\ L[d] \in Nat /\ Len(s) \in Nat
        <5>1. L[d] \in Nat
          BY <4>1, <1>1
        <5> QED
          BY <5>1, <4>1, <1>9, <2>4
      <4>4. Total(L, 1 .. d - 1) + y \in 1 .. Len(s)
        BY <4>2, <4>3
      <4>5. s[Total(L, 1 .. d - 1) + y] = F[d][y]
        BY <4>1, <2>3, <1>11
      <4> QED
        BY <4>4, <4>5, <2>2, <2>3, <2>5
    <3> QED
      BY <3>1, <3>2
  <2>7. g[1 .. m] \in Seq(X) /\ Len(g[1 .. m]) = Total(L, 1 .. m)
    BY <2>2, <2>3, <2>4, <2>5, <1>9
  <2> QED
    BY <2>6, <2>7
<1>12. Laid(n)
  <2> HIDE DEF Laid
  <2> DEFINE T == {m \in 0 .. n : ~Laid(m)}
  <2> SUFFICES ASSUME ~Laid(n) PROVE FALSE
    OBVIOUS
  <2>0. T # {}
    <3>1. n \in 0 .. n
      OBVIOUS
    <3>2. n \in T
      BY <3>1
    <3> QED
      BY <3>2
  <2>1. T \subseteq Nat
    OBVIOUS
  <2>2. PICK m \in T : \A l \in T : m <= l
    <3> HIDE DEF T
    <3> QED
      BY <2>0, <2>1, LeastNumber
  <2>3. m \in 1 .. n /\ ~Laid(m) /\ m - 1 \in 0 .. n
    BY <2>2, <1>10
  <2>4. m - 1 \notin T
    <3> HIDE DEF T
    <3> QED
      BY <2>2, <2>3
  <2> QED
    BY <2>3, <2>4, <1>11
<1> QED
  <2>1. PICK j : j = g[1 .. n]
    OBVIOUS
  <2>2. Exchange!Joined(F) = j
    BY <1>8, <2>1
  <2> HIDE DEF Unfolds
  <2>3. /\ j \in Seq(X) /\ Len(j) = Total(L, 1 .. n)
        /\ \A d \in 1 .. n : \A y \in 1 .. L[d] : j[Total(L, 1 .. d - 1) + y] = F[d][y]
    BY <1>12, <2>1
  <2> QED
    BY <2>2, <2>3

\* The members and the root among them.
LEMMA RootIsAMember == N \in Nat /\ Members = 1 .. N /\ 1 \in Members /\ Members \subseteq Nat
BY SyncAssumption DEF Members, N

----------------------------------------------------------------------------
(* The order of the tasks and the packing of a plan. *)

\* The keys of both policies put the tasks in one line.
LEMMA TasksAreOrdered ==
  /\ \A t \in Task : ~Before(t, t)
  /\ \A t, u, v \in Task : Before(t, u) /\ Before(u, v) => Before(t, v)
  /\ \A t, u \in Task : t # u => Before(t, u) \/ Before(u, t)
<1>1. \A t \in Task : t.src \in Int /\ t.dst \in Int /\ t.bucket \in Int
  BY RootIsAMember DEF Task
<1>2. \A t, u \in Task : t.src = u.src /\ t.dst = u.dst /\ t.bucket = u.bucket => t = u
  BY DEF Task
<1>3. \A t \in Task : ~Before(t, t)
  BY <1>1 DEF Before
<1>4. \A t, u, v \in Task : Before(t, u) /\ Before(u, v) => Before(t, v)
  BY <1>1 DEF Before
<1>5. \A t, u \in Task : t # u => Before(t, u) \/ Before(u, t)
  BY <1>1, <1>2 DEF Before
<1> QED
  BY <1>3, <1>4, <1>5

\* Every task is in the order once, and nothing else is.
LEMMA OrderedHasAll ==
  ASSUME NEW T, T \subseteq Task, IsFiniteSet(T)
  PROVE  /\ Cardinality(T) \in Nat /\ Ordered(T) \in [1 .. Cardinality(T) -> T]
         /\ \A t \in T : \E k \in 1 .. Cardinality(T) : Ordered(T)[k] = t
         /\ \A k, m \in 1 .. Cardinality(T) : Ordered(T)[k] = Ordered(T)[m] => k = m
<1> DEFINE Earlier(t) == {u \in T : Before(u, t)}
           n == Cardinality(T)
<1>1. n \in Nat
  BY FS_CardinalityType
<1>2. \A t \in T : IsFiniteSet(Earlier(t)) /\ Cardinality(Earlier(t)) \in Nat
  BY FS_Subset, FS_CardinalityType
<1>3. ASSUME NEW t \in T PROVE Cardinality(Earlier(t)) \in 0 .. n - 1
  <2>1. Earlier(t) \in SUBSET (T \ {t})
    BY TasksAreOrdered
  <2>2. IsFiniteSet(T \ {t}) /\ Cardinality(T \ {t}) = n - 1
    BY FS_RemoveElement
  <2>3. Cardinality(Earlier(t)) <= n - 1
    <3> HIDE DEF Earlier
    <3> QED
      BY <2>1, <2>2, FS_Subset
  <2> QED
    BY <2>3, <1>1, <1>2
<1>4. ASSUME NEW t \in T, NEW u \in T, Before(u, t)
      PROVE  Cardinality(Earlier(u)) # Cardinality(Earlier(t))
  <2>1. Earlier(u) \in SUBSET Earlier(t) /\ u \in Earlier(t) /\ u \notin Earlier(u)
    BY <1>4, TasksAreOrdered
  <2> HIDE DEF Earlier
  <2> QED
    BY <2>1, <1>2, FS_Subset
<1>5. \A t, u \in T : Cardinality(Earlier(u)) = Cardinality(Earlier(t)) => t = u
  BY <1>4, TasksAreOrdered
<1>6. PICK f : f = [t \in T |-> Cardinality(Earlier(t))]
  OBVIOUS
<1>7. f \in Injection(T, 0 .. n - 1)
  <2>1. f \in [T -> 0 .. n - 1]
    BY <1>3, <1>6
  <2>2. \A t, u \in T : f[t] = f[u] => t = u
    BY <1>5, <1>6
  <2> QED
    BY <2>1, <2>2 DEF Injection, IsInjective
<1>8. f \in Surjection(T, 0 .. n - 1)
  <2>1. IsFiniteSet(0 .. n - 1) /\ Cardinality(0 .. n - 1) = n
    <3>1. 0 \in Int /\ n - 1 \in Int
      BY <1>1
    <3>2. /\ IsFiniteSet(0 .. n - 1)
          /\ Cardinality(0 .. n - 1) = IF 0 > n - 1 THEN 0 ELSE (n - 1) - 0 + 1
      BY <3>1, FS_Interval
    <3> QED
      BY <3>2, <1>1
  <2> QED
    BY <2>1, <1>7, FS_Injection
<1>9. ASSUME NEW k \in 1 .. n
      PROVE  \E t \in T : Cardinality(Earlier(t)) = k - 1
  <2>1. k - 1 \in 0 .. n - 1
    BY <1>1
  <2> QED
    BY <2>1, <1>6, <1>8 DEF Surjection
<1>10. \A k \in 1 .. n : Ordered(T)[k] \in T /\ Cardinality(Earlier(Ordered(T)[k])) = k - 1
  <2> SUFFICES ASSUME NEW k \in 1 .. n
               PROVE  Ordered(T)[k] \in T /\ Cardinality(Earlier(Ordered(T)[k])) = k - 1
    OBVIOUS
  <2>1. Ordered(T)[k] = CHOOSE t \in T : Cardinality(Earlier(t)) = k - 1
    BY DEF Ordered
  <2> HIDE DEF Earlier
  <2> QED
    BY <2>1, <1>9
<1>11. Ordered(T) \in [1 .. n -> T]
  <2>1. PICK f2 : f2 = Ordered(T)
    OBVIOUS
  <2> DEFINE nth(k) == CHOOSE t \in T : Cardinality({u \in T : Before(u, t)}) = k - 1
  <2>3. f2 = [k \in 1 .. n |-> nth(k)]
    BY <2>1 DEF Ordered
  <2>2. f2 = [k \in 1 .. n |-> f2[k]]
    <3> HIDE DEF nth
    <3> QED
      BY <2>3
  <2> QED
    BY <2>1, <2>2, <1>10
<1>12. ASSUME NEW t \in T PROVE \E k \in 1 .. n : Ordered(T)[k] = t
  <2>1. Cardinality(Earlier(t)) + 1 \in 1 .. n /\ (Cardinality(Earlier(t)) + 1) - 1 = Cardinality(Earlier(t))
    BY <1>1, <1>3
  <2>2. Cardinality(Earlier(Ordered(T)[Cardinality(Earlier(t)) + 1])) = Cardinality(Earlier(t))
    BY <2>1, <1>10
  <2>3. Ordered(T)[Cardinality(Earlier(t)) + 1] = t
    BY <2>1, <2>2, <1>5, <1>10
  <2> QED
    BY <2>1, <2>3
<1>13. ASSUME NEW k \in 1 .. n, NEW m \in 1 .. n, Ordered(T)[k] = Ordered(T)[m] PROVE k = m
  <2>1. k - 1 = m - 1
    <3> HIDE DEF Earlier
    <3> QED
      BY <1>10, <1>13
  <2> QED
    BY <2>1
<1> QED
  BY <1>1, <1>11, <1>12, <1>13

\* No end has two tasks in a wave, and no task is in two waves.
Exact(waves) ==
  /\ \A w \in DOMAIN waves : \A t, u \in waves[w] : t # u => t.src # u.src /\ t.dst # u.dst
  /\ \A v, w \in DOMAIN waves : \A t \in waves[v] : t \in waves[w] => v = w

\* v has the tasks of waves, and t in a wave where its ends have no other.
AddsFreely(v, waves, t) ==
  \E w \in DOMAIN v :
    /\ t \in v[w] /\ \A y \in v[w] : y # t => y.src # t.src /\ y.dst # t.dst
    /\ \A x \in DOMAIN v : \A y \in v[x] : (y = t /\ x = w) \/ (x \in DOMAIN waves /\ y \in waves[x])

LEMMA ExactStays ==
  ASSUME NEW waves, Exact(waves), NEW t, \A w \in DOMAIN waves : t \notin waves[w],
         NEW v, AddsFreely(v, waves, t)
  PROVE  Exact(v)
<1>1. PICK w \in DOMAIN v :
        /\ t \in v[w] /\ \A y \in v[w] : y # t => y.src # t.src /\ y.dst # t.dst
        /\ \A x \in DOMAIN v : \A y \in v[x] : (y = t /\ x = w) \/ (x \in DOMAIN waves /\ y \in waves[x])
  BY DEF AddsFreely
<1>2. ASSUME NEW x \in DOMAIN v, NEW y \in v[x], NEW z \in v[x], y # z
      PROVE  y.src # z.src /\ y.dst # z.dst
  <2>1. CASE y = t \/ z = t
    BY <2>1, <1>1, <1>2
  <2>2. CASE y # t /\ z # t
    <3>1. x \in DOMAIN waves /\ y \in waves[x] /\ z \in waves[x]
      BY <2>2, <1>1
    <3> QED
      BY <3>1, <1>2 DEF Exact
  <2> QED
    BY <2>1, <2>2
<1>3. ASSUME NEW x \in DOMAIN v, NEW z \in DOMAIN v, NEW y \in v[x], y \in v[z] PROVE x = z
  <2>1. CASE y = t
    <3>1. x = w /\ z = w
      BY <2>1, <1>1, <1>3
    <3> QED
      BY <3>1
  <2>2. CASE y # t
    <3>1. x \in DOMAIN waves /\ y \in waves[x] /\ z \in DOMAIN waves /\ y \in waves[z]
      BY <2>2, <1>1, <1>3
    <3> QED
      BY <3>1 DEF Exact
  <2> QED
    BY <2>1, <2>2
<1> QED
  BY <1>2, <1>3 DEF Exact

\* Placing a task adds it to one wave, where its ends are free, and takes none away.
LEMMA PlaceAdds ==
  ASSUME NEW waves \in Seq(SUBSET Task), NEW t \in Task
  PROVE  /\ Place[<<waves, t>>] \in Seq(SUBSET Task)
         /\ \E w \in DOMAIN Place[<<waves, t>>] : t \in Place[<<waves, t>>][w]
         /\ \A w \in DOMAIN waves : /\ w \in DOMAIN Place[<<waves, t>>]
                                    /\ waves[w] \subseteq Place[<<waves, t>>][w]
         /\ AddsFreely(Place[<<waves, t>>], waves, t)
<1> DEFINE I == {v \in 1 .. Len(waves) : \A u \in waves[v] : u.src # t.src /\ u.dst # t.dst}
<1>1. PICK w : w = IF I # {} THEN Min(I) ELSE 0
  OBVIOUS
<1>2. Place[<<waves, t>>] = IF w = 0 THEN Append(waves, {t}) ELSE [waves EXCEPT ![w] = @ \cup {t}]
  BY <1>1 DEF Place, SelectInSeq
<1>3. w = 0 \/ (w \in DOMAIN waves /\ \A u \in waves[w] : u.src # t.src /\ u.dst # t.dst)
  <2>1. CASE I = {}
    BY <2>1, <1>1
  <2>2. CASE I # {}
    <3>1. I \subseteq Nat /\ I \subseteq DOMAIN waves
      OBVIOUS
    <3>2. \E v \in I : \A m \in I : v <= m
      <4> HIDE DEF I
      <4> QED
        BY <2>2, <3>1, LeastNumber
    <3>3. w \in I
      BY <2>2, <3>2, <1>1 DEF Min
    <3> QED
      BY <3>1, <3>3
  <2> QED
    BY <2>1, <2>2
<1>4. CASE w = 0
  <2>1. Place[<<waves, t>>] = Append(waves, {t}) /\ {t} \in SUBSET Task
    BY <1>2, <1>4
  <2>2. PICK v : v = Append(waves, {t})
    OBVIOUS
  <2>3. /\ v \in Seq(SUBSET Task) /\ Len(v) = Len(waves) + 1
        /\ \A x \in 1 .. Len(waves) : v[x] = waves[x]
        /\ v[Len(waves) + 1] = {t}
    BY <2>1, <2>2
  <2>4. DOMAIN v = 1 .. Len(waves) + 1 /\ DOMAIN waves = 1 .. Len(waves) /\ Len(waves) \in Nat
    BY <2>3
  <2>5. Len(waves) + 1 \in DOMAIN v /\ t \in v[Len(waves) + 1]
    BY <2>3, <2>4
  <2>6. \A x \in DOMAIN waves : x \in DOMAIN v /\ waves[x] \subseteq v[x]
    BY <2>3, <2>4
  <2>7. Place[<<waves, t>>] = v
    BY <2>1, <2>2
  <2>8. AddsFreely(v, waves, t)
    <3>1. \A x \in DOMAIN v : x \in DOMAIN waves \/ x = Len(waves) + 1
      BY <2>4
    <3> QED
      BY <3>1, <2>3, <2>4, <2>5 DEF AddsFreely
  <2> QED
    BY <2>3, <2>5, <2>6, <2>7, <2>8
<1>5. CASE w \in DOMAIN waves /\ \A u \in waves[w] : u.src # t.src /\ u.dst # t.dst
  <2>1. w # 0
    BY <1>5
  <2>2. PICK v : v = [waves EXCEPT ![w] = @ \cup {t}]
    OBVIOUS
  <2>3. Place[<<waves, t>>] = v
    BY <2>1, <2>2, <1>2
  <2>4. waves[w] \cup {t} \in SUBSET Task
    BY <1>5
  <2>5. v \in Seq(SUBSET Task)
    <3>1. waves \in [1 .. Len(waves) -> SUBSET Task] /\ Len(waves) \in Nat
      OBVIOUS
    <3>2. v \in [1 .. Len(waves) -> SUBSET Task]
      BY <2>2, <2>4, <3>1
    <3> QED
      BY <3>1, <3>2
  <2>6. DOMAIN v = DOMAIN waves /\ v[w] = waves[w] \cup {t} /\ \A x \in DOMAIN waves : x # w => v[x] = waves[x]
    BY <2>2, <1>5
  <2>7. AddsFreely(v, waves, t)
    <3>1. \A y \in v[w] : y = t \/ y \in waves[w]
      BY <2>6
    <3>2. ASSUME NEW x \in DOMAIN v, NEW y \in v[x]
          PROVE  (y = t /\ x = w) \/ (x \in DOMAIN waves /\ y \in waves[x])
      BY <3>1, <2>6
    <3>3. t \in v[w] /\ w \in DOMAIN v
      BY <2>6, <1>5
    <3> QED
      BY <3>1, <3>2, <3>3, <1>5 DEF AddsFreely
  <2> QED
    BY <2>3, <2>5, <2>6, <2>7, <1>5
<1> QED
  BY <1>3, <1>4, <1>5

\* A packed plan has every task in one wave, and nothing but tasks.
LEMMA PackedHasAll ==
  ASSUME NEW T, T \subseteq Task, IsFiniteSet(T)
  PROVE  /\ Pack(T) \in Seq(SUBSET Task)
         /\ \A t \in T : \E w \in DOMAIN Pack(T) : t \in Pack(T)[w]
         /\ Exact(Pack(T)) /\ \A w \in DOMAIN Pack(T) : Pack(T)[w] \subseteq T
<1>1. PICK n, F : n = Cardinality(T) /\ F = Ordered(T)
  OBVIOUS
<1>2. /\ n \in Nat /\ F \in [1 .. n -> T] /\ \A t \in T : \E k \in 1 .. n : F[k] = t
      /\ \A k, m \in 1 .. n : F[k] = F[m] => k = m
  BY <1>1, OrderedHasAll
<1>3. PICK V : V = Seq(SUBSET Task)
  OBVIOUS
<1>4. PICK pick : pick = [z \in SUBSET (1 .. n) |-> Top(z)]
  OBVIOUS
<1>5. \A z \in SUBSET (1 .. n) : z # {} => pick[z] \in z /\ pick[z] = Top(z)
  BY <1>2, <1>4, TopIsIn
<1>6. PICK step : step = [p \in (1 .. n) \X V |-> Place[<<p[2], F[p[1]]>>]]
  OBVIOUS
<1>7. step \in [(1 .. n) \X V -> V]
  <2>1. ASSUME NEW x \in 1 .. n, NEW v \in V PROVE Place[<<v, F[x]>>] \in V
    <3>1. F[x] \in Task /\ v \in Seq(SUBSET Task)
      BY <1>2, <1>3
    <3> QED
      BY <3>1, <1>3, PlaceAdds
  <2> QED
    BY <2>1, <1>6
<1>8. PICK h \in [SUBSET (1 .. n) -> V] : Fold(h, 1 .. n, <<>>, step, pick)
  <2>1. <<>> \in V /\ IsFiniteSet(1 .. n)
    BY <1>2, <1>3, FS_Interval
  <2> QED
    BY <2>1, <1>5, <1>7, FoldExists
<1> DEFINE Packs(g) == g = [z \in SUBSET (1 .. n) |->
                              IF z = {} THEN <<>> ELSE Place[<<g[z \ {Top(z)}], F[Top(z)]>>]]
<1>9. Packs(h)
  <2>1. ASSUME NEW z \in SUBSET (1 .. n), z # {} PROVE h[z] = Place[<<h[z \ {Top(z)}], F[Top(z)]>>]
    <3>1. h[z] = step[<<Top(z), h[z \ {Top(z)}]>>]
      BY <1>5, <1>8, <2>1 DEF Fold
    <3>2. <<Top(z), h[z \ {Top(z)}]>> \in (1 .. n) \X V
      BY <1>5, <2>1
    <3> QED
      BY <3>1, <3>2, <1>6
  <2>2. h[{}] = <<>>
    BY <1>8 DEF Fold
  <2> QED
    BY <2>1, <2>2
<1>10. PICK g : Packs(g) /\ Pack(T) = g[1 .. n]
  <2> DEFINE top(z) == CHOOSE x \in z : \A y \in z : x >= y
             it == CHOOSE it : it = [z \in SUBSET DOMAIN F |->
                                       IF z = {} THEN <<>> ELSE Place[<<it[z \ {top(z)}], F[top(z)]>>]]
  <2>4. DOMAIN F = 1 .. n
    BY <1>2
  <2>1. \E f : f = [z \in SUBSET DOMAIN F |-> IF z = {} THEN <<>> ELSE Place[<<f[z \ {top(z)}], F[top(z)]>>]]
    <3>1. h = [z \in SUBSET DOMAIN F |-> IF z = {} THEN <<>> ELSE Place[<<h[z \ {top(z)}], F[top(z)]>>]]
      BY <2>4, <1>9 DEF Top
    <3> QED
      BY <3>1
  <2>2. it = [z \in SUBSET DOMAIN F |-> IF z = {} THEN <<>> ELSE Place[<<it[z \ {top(z)}], F[top(z)]>>]]
    BY <2>1
  <2>3. Pack(T) = it[DOMAIN F]
    BY <1>1 DEF Pack, FoldLeft, MapThenFoldSet, Max
  <2>5. Packs(it)
    BY <2>2, <2>4 DEF Top
  <2> QED
    BY <2>3, <2>4, <2>5
<1> DEFINE Placed(m) == /\ g[1 .. m] \in V
                        /\ \A k \in 1 .. m : \E w \in DOMAIN g[1 .. m] : F[k] \in g[1 .. m][w]
                        /\ \A w \in DOMAIN g[1 .. m] : \A t \in g[1 .. m][w] : \E k \in 1 .. m : t = F[k]
                        /\ Exact(g[1 .. m])
<1>11. Placed(0)
  <2>1. 1 .. 0 = {} /\ {} \in SUBSET (1 .. n)
    OBVIOUS
  <2>2. g[1 .. 0] = <<>>
    BY <2>1, <1>10
  <2>3. Exact(<<>>)
    BY DEF Exact
  <2> QED
    BY <2>1, <2>2, <2>3, <1>3
<1>12. ASSUME NEW m \in 1 .. n, Placed(m - 1) PROVE Placed(m)
  <2>0. m \in Nat \ {0} /\ 1 .. m \in SUBSET (1 .. n)
    BY <1>2
  <2>1. Top(1 .. m) = m /\ (1 .. m) \ {m} = 1 .. m - 1 /\ 1 .. m # {} /\ 1 .. m \in SUBSET (1 .. n)
    BY <2>0, TopOfFirst
  <2>2. g[1 .. m] = Place[<<g[1 .. m - 1], F[m]>>]
    <3>1. g[1 .. m] = Place[<<g[(1 .. m) \ {Top(1 .. m)}], F[Top(1 .. m)]>>]
      BY <2>1, <1>10
    <3> QED
      BY <3>1, <2>1
  <2>3. PICK v, u : v = g[1 .. m - 1] /\ u = Place[<<v, F[m]>>]
    OBVIOUS
  <2>4. v \in Seq(SUBSET Task) /\ F[m] \in Task /\ g[1 .. m] = u
    BY <2>2, <2>3, <1>2, <1>3, <1>12
  <2>5. /\ u \in Seq(SUBSET Task) /\ \E w \in DOMAIN u : F[m] \in u[w]
        /\ \A w \in DOMAIN v : w \in DOMAIN u /\ v[w] \subseteq u[w]
        /\ AddsFreely(u, v, F[m])
    <3>1. PICK t : t = F[m]
      OBVIOUS
    <3>2. v \in Seq(SUBSET Task) /\ t \in Task /\ u = Place[<<v, t>>]
      BY <3>1, <2>3, <2>4
    <3> HIDE DEF Placed, Packs
    <3>3. /\ u \in Seq(SUBSET Task) /\ \E w \in DOMAIN u : t \in u[w]
          /\ \A w \in DOMAIN v : w \in DOMAIN u /\ v[w] \subseteq u[w]
          /\ AddsFreely(u, v, t)
      BY <3>2, PlaceAdds
    <3> QED
      BY <3>1, <3>3
  <2>6. \A k \in 1 .. m - 1 : \E w \in DOMAIN v : F[k] \in v[w]
    BY <2>3, <1>12
  <2>7. \A k \in 1 .. m : k = m \/ k \in 1 .. m - 1
    BY <1>2
  <2>8. /\ \A w \in DOMAIN v : \A t \in v[w] : \E k \in 1 .. m - 1 : t = F[k]
        /\ Exact(v)
    BY <2>3, <1>12
  <2>9. \A w \in DOMAIN v : F[m] \notin v[w]
    <3>1. \A k \in 1 .. m - 1 : F[k] # F[m]
      BY <1>2
    <3> QED
      BY <3>1, <2>8
  <2>10. Exact(u)
    BY <2>5, <2>8, <2>9, ExactStays
  <2>11. \A w \in DOMAIN u : \A t \in u[w] : \E k \in 1 .. m : t = F[k]
    <3>1. m \in 1 .. m /\ \A k \in 1 .. m - 1 : k \in 1 .. m
      BY <1>2
    <3>2. ASSUME NEW w \in DOMAIN u, NEW t \in u[w] PROVE t = F[m] \/ (w \in DOMAIN v /\ t \in v[w])
      BY <2>5 DEF AddsFreely
    <3> QED
      BY <3>1, <3>2, <2>8
  <2>12. \A k \in 1 .. m : \E w \in DOMAIN u : F[k] \in u[w]
    BY <2>5, <2>6, <2>7
  <2>13. u \in V /\ g[1 .. m] = u
    BY <2>4, <2>5, <1>3
  <2> HIDE DEF Packs
  <2> QED
    BY <2>10, <2>11, <2>12, <2>13
<1>13. Placed(n)
  <2> HIDE DEF Placed
  <2> DEFINE B == {m \in 0 .. n : ~Placed(m)}
  <2> SUFFICES ASSUME B # {} PROVE FALSE
    BY <1>2
  <2>1. B \subseteq Nat
    OBVIOUS
  <2>2. PICK m \in B : \A l \in B : m <= l
    <3> HIDE DEF B
    <3> QED
      BY <2>1, LeastNumber
  <2>3. m \in 1 .. n /\ ~Placed(m) /\ m - 1 \in 0 .. n
    BY <2>2, <1>2, <1>11
  <2>4. m - 1 \notin B
    <3> HIDE DEF B
    <3> QED
      BY <2>2, <2>3
  <2> QED
    BY <2>3, <2>4, <1>12
<1> QED
  <2>1. PICK j : j = g[1 .. n]
    OBVIOUS
  <2>2. Pack(T) = j
    BY <1>10, <2>1
  <2> HIDE DEF Packs
  <2>3. /\ j \in Seq(SUBSET Task) /\ \A k \in 1 .. n : \E w \in DOMAIN j : F[k] \in j[w]
        /\ \A w \in DOMAIN j : \A t \in j[w] : \E k \in 1 .. n : t = F[k]
        /\ Exact(j)
    BY <1>3, <1>13, <2>1
  <2> QED
    BY <2>2, <2>3, <1>2

----------------------------------------------------------------------------
(* The buckets of an edge and the tasks of a phase. *)

\* A row of an edge is in one bucket of the catalogue, and the rows of a bucket are
\* rows of the edge.
LEMMA RowsAreInBuckets ==
  ASSUME NEW rows \in Nat, NEW b \in Nat
  PROVE  /\ \A o \in 0 .. Buckets(rows, b) - 1 :
              /\ RowsOf(rows, b, o) \in Nat \ {0} /\ o * StepOf(rows, b) \in Nat
              /\ \A x \in 1 .. RowsOf(rows, b, o) :
                   /\ o * StepOf(rows, b) + x \in 1 .. rows
                   /\ ((o * StepOf(rows, b) + x) - 1) \div StepOf(rows, b) = o
         /\ \A y \in 1 .. rows :
              /\ (y - 1) \div StepOf(rows, b) \in 0 .. Buckets(rows, b) - 1
              /\ y - ((y - 1) \div StepOf(rows, b)) * StepOf(rows, b)
                   \in 1 .. RowsOf(rows, b, (y - 1) \div StepOf(rows, b))
<1>1. CASE rows = 0
  BY <1>1 DEF Buckets
<1>2. CASE rows # 0
  <2>1. PICK s : s = StepOf(rows, b)
    OBVIOUS
  <2>2. s \in Nat \ {0}
    BY <1>2, <2>1 DEF StepOf
  <2>3. PICK q : q = (rows + s - 1) \div s
    OBVIOUS
  <2>4. Buckets(rows, b) = q
    BY <1>2, <2>1, <2>3 DEF Buckets
  <2>5. q \in Nat /\ s * q <= rows + s - 1 /\ rows <= s * q
    BY <2>2, <2>3
  <2>6. ASSUME NEW o \in 0 .. q - 1
        PROVE  /\ RowsOf(rows, b, o) \in Nat \ {0} /\ o * s \in Nat
               /\ \A x \in 1 .. RowsOf(rows, b, o) : o * s + x \in 1 .. rows /\ ((o * s + x) - 1) \div s = o
    <3>1. PICK c : c = o * s
      OBVIOUS
    <3>2. c \in Nat /\ s * (o + 1) = c + s /\ s * (o + 1) <= s * q
      BY <3>1, <2>2, <2>5
    <3>3. rows - c \in Nat \ {0}
      BY <3>2, <2>2, <2>5
    <3>4. PICK r : r = RowsOf(rows, b, o)
      OBVIOUS
    <3>5. r \in Nat \ {0} /\ r <= rows - c /\ r <= s
      BY <3>1, <3>3, <3>4, <2>1, <2>2 DEF RowsOf
    <3>6. ASSUME NEW x \in 1 .. r PROVE c + x \in 1 .. rows /\ ((c + x) - 1) \div s = o
      <4>1. c + x \in 1 .. rows
        BY <3>2, <3>5
      <4>2. (c + x) - 1 = s * o + (x - 1) /\ x - 1 \in 0 .. s - 1
        BY <3>1, <3>2, <3>5, <2>2
      <4> QED
        BY <4>1, <4>2, <2>2
    <3> QED
      BY <3>1, <3>2, <3>4, <3>5, <3>6
  <2>7. ASSUME NEW y \in 1 .. rows
        PROVE  /\ (y - 1) \div s \in 0 .. q - 1
               /\ y - ((y - 1) \div s) * s \in 1 .. RowsOf(rows, b, (y - 1) \div s)
    <3>1. PICK o : o = (y - 1) \div s
      OBVIOUS
    <3>2. o \in Nat /\ s * o <= y - 1 /\ y - 1 < s * o + s
      BY <3>1, <2>2
    <3>3. PICK c : c = o * s
      OBVIOUS
    <3>4. c = s * o /\ c \in Nat
      BY <3>2, <3>3, <2>2
    <3>5. s * o < s * q
      BY <3>2, <2>2, <2>5
    <3>6. o < q
      BY <3>2, <3>5, <2>2, <2>5
    <3>7. y - c \in 1 .. RowsOf(rows, b, o)
      <4>1. RowsOf(rows, b, o) = IF rows - c < s THEN rows - c ELSE s
        BY <3>3, <2>1 DEF RowsOf
      <4>2. y - c <= s /\ y - c <= rows - c /\ y - c >= 1
        BY <3>2, <3>4, <2>2
      <4> QED
        BY <4>1, <4>2, <3>4, <2>2
    <3> QED
      BY <3>1, <3>2, <3>3, <3>6, <3>7, <2>5
  <2> QED
    BY <2>1, <2>4, <2>6, <2>7
<1> QED
  BY <1>1, <1>2

\* The image of a finite set
LEMMA FiniteImage ==
  ASSUME NEW S, IsFiniteSet(S), NEW f
  PROVE  IsFiniteSet({f[x] : x \in S})
<1>1. PICK g : g = [x \in S |-> f[x]]
  OBVIOUS
<1>2. g \in Surjection(S, {f[x] : x \in S})
  BY <1>1 DEF Surjection
<1> QED
  BY <1>2, FS_Surjection

\* The tasks of finitely many edges
LEMMA TasksAreFinite ==
  ASSUME NEW edges, IsFiniteSet(edges), NEW b \in Nat,
         \A e \in edges : e.src \in Members /\ e.dst \in Members /\ e.rows \in Nat
  PROVE  Tasks(edges, b) \subseteq Task /\ IsFiniteSet(Tasks(edges, b))
<1> DEFINE cut(e) == {[src |-> e.src, dst |-> e.dst, bucket |-> o] : o \in 0 .. Buckets(e.rows, b) - 1}
<1>1. ASSUME NEW e \in edges PROVE IsFiniteSet(cut(e)) /\ cut(e) \subseteq Task
  <2>0. Buckets(e.rows, b) \in Nat
    <3>1. e.rows \in Nat
      OBVIOUS
    <3>2. CASE e.rows = 0
      BY <3>2 DEF Buckets
    <3>3. CASE e.rows # 0
      <4>1. PICK s : s = StepOf(e.rows, b)
        OBVIOUS
      <4>2. s \in Nat \ {0}
        BY <3>1, <3>3, <4>1 DEF StepOf
      <4>3. (e.rows + s - 1) \div s \in Nat
        BY <3>1, <4>2
      <4> QED
        BY <3>3, <4>1, <4>3 DEF Buckets
    <3> QED
      BY <3>2, <3>3
  <2>1. PICK n : n = Buckets(e.rows, b) - 1
    OBVIOUS
  <2>2. IsFiniteSet(0 .. n)
    BY <2>0, <2>1, FS_Interval
  <2>3. PICK f : f = [o \in 0 .. n |-> [src |-> e.src, dst |-> e.dst, bucket |-> o]]
    OBVIOUS
  <2>4. cut(e) = {f[o] : o \in 0 .. n}
    BY <2>1, <2>3
  <2>5. IsFiniteSet({f[o] : o \in 0 .. n})
    BY <2>2, FiniteImage
  <2>6. cut(e) \subseteq Task
    BY DEF Task
  <2> QED
    BY <2>4, <2>5, <2>6
<1>2. PICK f : f = [e \in edges |-> cut(e)]
  OBVIOUS
<1>3. Tasks(edges, b) = UNION {f[e] : e \in edges}
  BY <1>2 DEF Tasks
<1> HIDE DEF cut
<1>4. IsFiniteSet({f[e] : e \in edges}) /\ \A z \in {f[e] : e \in edges} : IsFiniteSet(z) /\ z \subseteq Task
  <2>1. IsFiniteSet({f[e] : e \in edges})
    BY FiniteImage
  <2> QED
    BY <2>1, <1>1, <1>2
<1>5. IsFiniteSet(UNION {f[e] : e \in edges})
  BY <1>4, FS_UNION
<1> QED
  BY <1>3, <1>4, <1>5

----------------------------------------------------------------------------
(* Payloads and phases. *)

\* The phases in their order: the dispatch of layer l has two payloads, its return one.
PhaseNumber(k) == 2 * ((k - 1) \div 3) + (IF k % 3 = 0 THEN 1 ELSE 0)

\* Later payloads are of later phases, and only the first of three is followed by
\* one of its own phase.
LEMMA PhasesAreOrdered ==
  /\ \A k, l \in Nat \ {0} : k <= l => PhaseNumber(k) <= PhaseNumber(l)
  /\ \A k \in Nat \ {0} : k % 3 = 1 => PhaseNumber(k + 1) = PhaseNumber(k)
<1>1. ASSUME NEW k \in Nat \ {0}, NEW l \in Nat \ {0}, k <= l PROVE PhaseNumber(k) <= PhaseNumber(l)
  BY <1>1 DEF PhaseNumber
<1>2. ASSUME NEW k \in Nat \ {0}, k % 3 = 1 PROVE PhaseNumber(k + 1) = PhaseNumber(k)
  BY <1>2 DEF PhaseNumber
<1> QED
  BY <1>1, <1>2

\* A phase is known by its number.
LEMMA PhaseOfNumber ==
  ASSUME NEW k \in Nat \ {0}, NEW l \in Nat \ {0}, PhaseNumber(k) = PhaseNumber(l)
  PROVE  /\ Exchange!PhaseOf(k) = Exchange!PhaseOf(l)
         /\ (k - 1) \div 3 = (l - 1) \div 3
<1>1. (k % 3 = 0 <=> l % 3 = 0) /\ (k - 1) \div 3 = (l - 1) \div 3
  BY DEF PhaseNumber
<1> QED
  BY <1>1 DEF Exchange!PhaseOf

----------------------------------------------------------------------------
(* The history: each collective with its payload, its wave and its plan. *)

\* The first collective of payload k, when its phase has no plan yet
Opening(k) ==
  [op |-> IF Exchange!PhaseOf(k) = "P0" THEN "matrix" ELSE "summary", k |-> k, w |-> 0, plan |-> NoPlan]

\* What follows wave w of payload k under the plan p
AfterWave(k, w, p) ==
  IF w + 1 \in DOMAIN p.waves THEN [op |-> "wave", k |-> k, w |-> w + 1, plan |-> p]
  ELSE IF k % 3 # 1 THEN Opening(k + 1)
  ELSE IF 1 \in DOMAIN p.waves THEN [op |-> "wave", k |-> k + 1, w |-> 1, plan |-> p]
  ELSE Opening(k + 2)

Agreement(op, k) == [op |-> op, k |-> k, w |-> 0, plan |-> NoPlan]

\* What follows h; p is the plan that h broadcasts, if it does.
Followed(h, p) ==
  CASE h.op = "matrix"  -> Agreement("summary", h.k)
    [] h.op = "summary" -> Agreement("length", h.k)
    [] h.op = "length"  -> Agreement("payload", h.k)
    [] h.op = "payload" -> AfterWave(h.k, 0, p)
    [] h.op = "wave"    -> AfterWave(h.k, h.w, h.plan)

\* The collective that follows the first n
Ahead(H, n) == IF n = 0 THEN Opening(1) ELSE Followed(H[n], calls[1][n].data)

\* The task of an edge in a wave, and that x is the number of its rows
EdgeTasks(h, s, d) ==
  {t \in h.plan.waves[h.w] :
     /\ t.src = s /\ t.dst = d
     /\ t.bucket \in 0 .. Buckets(Exchange!Rows(h.k, s, d), h.plan.bucket_rows) - 1}
Carries(h, s, d, x) ==
  \/ EdgeTasks(h, s, d) = {} /\ x = 0
  \/ \E t : /\ EdgeTasks(h, s, d) = {t}
           /\ x = RowsOf(Exchange!Rows(h.k, s, d), h.plan.bucket_rows, t.bucket)

\* The rows that the task of an edge moves in a wave, each by its name
Moves(h, s, d, rows) ==
  \A t \in EdgeTasks(h, s, d) : \A x \in 1 .. Len(rows) :
    rows[x] = <<h.k, s, d, t.bucket * StepOf(Exchange!Rows(h.k, s, d), h.plan.bucket_rows) + x>>

\* The ranks of the group are 0 .. N-1: the tensor of a summary has a place for each.
WholeGroup == \A i \in Members : Group[i] < N

\* What a member sends to others in payload k, and a plan that has it all in waves
EdgesFrom(i, k) ==
  {[src |-> i, dst |-> d, rows |-> Exchange!Rows(k, i, d)] :
     d \in {e \in Members \ {i} : Exchange!Rows(k, i, e) > 0}}
Complete(p, k) ==
  /\ p.waves \in Seq(SUBSET Task)
  /\ \A s, d \in Members : s # d =>
       \A o \in 0 .. Buckets(Exchange!Rows(k, s, d), p.bucket_rows) - 1 :
         \E w \in DOMAIN p.waves : [src |-> s, dst |-> d, bucket |-> o] \in p.waves[w]

\* What the call of member i brings to the collective h: its splits and its rows in a
\* wave, all its edges in a summary, and a plan of all edges when the root broadcasts.
Fits(h, i, data) ==
  /\ h.op = "wave" => \A m \in Members : /\ Carries(h, m, i, data.recv[m])
                                         /\ Carries(h, i, m, Len(data.send[m]))
                                         /\ Moves(h, i, m, data.send[m])
  /\ h.op = "summary" /\ WholeGroup => data = EdgesFrom(i, h.k)
  /\ h.op = "payload" /\ WholeGroup /\ i = 1 => Complete(data, h.k)

\* Of what each has called, H is the history, and no member is past the broadcast
\* of a plan that the root has not broadcast.
History(H) ==
  /\ H = [n \in Nat |-> H[n]]
  /\ \A j \in Members : \A n \in 0 .. Len(calls[j]) - 1 : H[n + 1] = Ahead(H, n)
  /\ \A j \in Members : \A n \in 1 .. Len(calls[j]) :
       /\ calls[j][n].op = H[n].op
       /\ Fits(H[n], j, calls[j][n].data)
       /\ H[n].op = "payload" /\ (n < Len(calls[j]) \/ at[j] # "payload") => n <= Len(calls[1])

\* The plan of a member is what concerns it of the plan p, which has all edges.
Holds(i, p) ==
  /\ plan[i] = Materialised(i, p) /\ p.bucket_rows \in Nat
  /\ WholeGroup => Complete(p, Payload(i))
  /\ \A w \in DOMAIN p.waves : \A t, u \in plan[i].waves[w] :
       t # u => t.src # u.src /\ t.dst # u.dst

\* Where a member is in the history: at the last it has called, or before the next.
Position(H, i) ==
  LET n == Len(calls[i]) IN
  /\ at[i] \in {"matrix", "summary", "length", "payload", "wave"} =>
       n > 0 /\ H[n].op = at[i] /\ H[n].k = Payload(i)
  /\ at[i] = "length" /\ WholeGroup /\ i = 1 => Complete(plan[i], Payload(i))
  /\ at[i] = "wave" => H[n].w = wave[i] /\ Holds(i, H[n].plan)
  /\ at[i] \in {"hook", "done"} => Ahead(H, n) = Opening(Payload(i))
  /\ at[i] = "transport" => \E p : Holds(i, p) /\ Ahead(H, n) = AfterWave(Payload(i), 0, p)
  /\ at[i] = "executing" =>
       wave[i] > 0 /\ \E p : Holds(i, p) /\ Ahead(H, n) = AfterWave(Payload(i), wave[i] - 1, p)

\* Nobody has called a collective of a payload it has not come to.
Reached(H, i) == \A n \in 1 .. Len(calls[i]) : H[n].k \in 1 .. Payload(i)

\* Who has passed the summary of a phase has waited for all to come to that phase.
Moving == {"length", "payload", "transport", "executing", "wave"}
PhasesGathered ==
  \A i, j \in Members : at[j] \in Moving => PhaseNumber(Payload(j)) <= PhaseNumber(Payload(i))

Places == {"hook", "done", "raised", "matrix", "summary"} \cup Moving

\* Rows and buckets are counted, and the payloads are those of the layers.
Counted ==
  /\ demand \in [1 .. Layers -> Matrices] /\ setup.bucket_rows \in Nat
  /\ \A i \in Members : at[i] # "done" => Payload(i) <= Exchange!Payloads
  /\ \A i \in Members : plan[i].bucket_rows \in Nat
  /\ \A n \in 1 .. Len(calls[1]) :
       calls[1][n].op = "payload" => calls[1][n].data.bucket_rows \in Nat

Shape ==
  /\ at \in [Members -> Places] /\ wave \in [Members -> Nat]
  /\ plan = [i \in Members |-> plan[i]]
  /\ DOMAIN calls = Members /\ \A i \in Members : IsSequence(calls[i])
  /\ DOMAIN delivered = Members /\ \A i \in Members : IsSequence(delivered[i])

SyncInv ==
  /\ Shape
  /\ Counted
  /\ PhasesGathered
  /\ \E H : /\ History(H)
            /\ \A i \in Members : Position(H, i) /\ Reached(H, i)

\* The number of calls and the payload of a member.
LEMMA Lengths ==
  ASSUME Shape, NEW i \in Members
  PROVE  /\ Len(calls[i]) \in Nat
         /\ Len(delivered[i]) \in Nat /\ Payload(i) \in Nat \ {0}
<1>1. IsSequence(calls[i]) /\ IsSequence(delivered[i])
  BY DEF Shape
<1>2. Len(calls[i]) \in Nat
  BY <1>1, AppendOne
<1>3. Len(delivered[i]) \in Nat
  BY <1>1, AppendOne
<1> QED
  BY <1>2, <1>3 DEF Payload

\* A group starts with an empty history at the first hook.
LEMMA SyncStarts == Init => SyncInv
<1> SUFFICES ASSUME Init PROVE SyncInv
  OBVIOUS
<1>0. IsSequence(<<>>) /\ Len(<<>>) = 0
  BY DEF IsSequence
<1>1. Shape
  BY <1>0 DEF Shape, Init, Places
<1>2. PhasesGathered
  BY DEF PhasesGathered, Init, Moving
<1>3. PICK H : H = [n \in Nat |-> 0]
  OBVIOUS
<1>4. \A j \in Members : Len(calls[j]) = 0 /\ Payload(j) = 1 /\ at[j] = "hook"
  BY <1>0 DEF Init, Payload
<1>5. History(H)
  <2>1. H = [n \in Nat |-> H[n]]
    BY <1>3
  <2> QED
    BY <2>1, <1>4 DEF History
<1>6. ASSUME NEW i \in Members PROVE Position(H, i) /\ Reached(H, i)
  BY <1>4 DEF Position, Reached, Ahead
<1>7. Counted
  <2>1. demand \in [1 .. Layers -> Matrices] /\ setup.bucket_rows \in Nat
    BY SyncAssumption DEF Init
  <2>2. 1 <= Exchange!Payloads
    BY SyncAssumption DEF Exchange!Payloads
  <2>3. Len(calls[1]) = 0
    BY <1>4, RootIsAMember
  <2>4. \A i \in Members : plan[i].bucket_rows \in Nat
    BY DEF Init, NoPlan
  <2> QED
    BY <2>1, <2>2, <2>3, <2>4, <1>4 DEF Counted
<1> QED
  BY <1>1, <1>2, <1>5, <1>6, <1>7 DEF SyncInv

----------------------------------------------------------------------------
(* What a step of a member keeps. *)

Ops == {"matrix", "summary", "length", "payload", "wave"}

\* The demand of a layer never changes, so what is said of rows stays said.
LEMMA RowsStay ==
  ASSUME UNCHANGED demand
  PROVE  \A k, s, d : Exchange!Rows(k, s, d)' = Exchange!Rows(k, s, d)
BY DEF Exchange!Rows

LEMMA CompleteStays ==
  ASSUME NEW p, NEW k, NEW l, \A s, d : Exchange!Rows(l, s, d)' = Exchange!Rows(k, s, d), Complete(p, k)
  PROVE  Complete(p, l)'
BY DEF Complete

LEMMA FitsStays ==
  ASSUME UNCHANGED demand, NEW h, NEW i, NEW data, Fits(h, i, data)
  PROVE  Fits(h, i, data)'
<1>1. \A s, d : EdgeTasks(h, s, d)' = EdgeTasks(h, s, d)
  BY RowsStay DEF EdgeTasks
<1>2. \A s, d, x : Carries(h, s, d, x) => Carries(h, s, d, x)'
  BY <1>1, RowsStay DEF Carries
<1>3. \A s, d, x : Moves(h, s, d, x) => Moves(h, s, d, x)'
  BY <1>1, RowsStay DEF Moves
<1>4. EdgesFrom(i, h.k)' = EdgesFrom(i, h.k)
  BY RowsStay DEF EdgesFrom
<1>5. Complete(data, h.k) => Complete(data, h.k)'
  BY RowsStay, CompleteStays
<1>6. WholeGroup' = WholeGroup
  BY DEF WholeGroup
<1> QED
  BY <1>2, <1>3, <1>4, <1>5, <1>6 DEF Fits

LEMMA MaterialisedStays ==
  ASSUME NEW i, NEW p, \A s, d : Rows(i, s, d)' = Rows(i, s, d)
  PROVE  Materialised(i, p)' = Materialised(i, p)
BY DEF Materialised

LEMMA HoldsStays ==
  ASSUME NEW i, NEW p, Holds(i, p), plan'[i] = plan[i], \A s, d : Rows(i, s, d)' = Rows(i, s, d)
  PROVE  Holds(i, p)'
<1>1. Complete(p, Payload(i)) => Complete(p, Payload(i))'
  BY DEF Complete, Rows
<1>2. WholeGroup' = WholeGroup
  BY DEF WholeGroup
<1> QED
  BY <1>1, <1>2, MaterialisedStays DEF Holds

\* The same of the plan that the root is about to broadcast
LEMMA RootPlanStays ==
  ASSUME NEW i, plan'[i] = plan[i], \A s, d : Rows(i, s, d)' = Rows(i, s, d)
  PROVE  Complete(plan[i], Payload(i)) => Complete(plan[i], Payload(i))'
BY DEF Complete, Rows

\* The others are where they were; a member that comes among the moving ones has
\* seen all come to its phase.
LEMMA GatheredStays ==
  ASSUME Shape, PhasesGathered, NEW i \in Members, NEW place, at' = [at EXCEPT ![i] = place],
         \A j \in Members \ {i} : delivered'[j] = delivered[j],
         Payload(i)' \in Nat \ {0}, PhaseNumber(Payload(i)) <= PhaseNumber(Payload(i)'),
         place \in Moving =>
           /\ Payload(i)' = Payload(i) \/ PhaseNumber(Payload(i)') = PhaseNumber(Payload(i))
           /\ \/ at[i] \in Moving
              \/ \A j \in Members : PhaseNumber(Payload(i)) <= PhaseNumber(Payload(j))
  PROVE  PhasesGathered'
<1> SUFFICES ASSUME NEW a \in Members, NEW b \in Members, at'[b] \in Moving
             PROVE  PhaseNumber(Payload(b)') <= PhaseNumber(Payload(a)')
  BY DEF PhasesGathered, Moving
<1>1. \A j \in Members \ {i} : Payload(j)' = Payload(j) /\ at'[j] = at[j]
  BY DEF Payload, Shape
<1>2. at'[i] = place
  BY DEF Shape
<1>3. \A j \in Members : Payload(j) \in Nat \ {0}
  BY Lengths
<1>4. \A k \in Nat \ {0} : PhaseNumber(k) \in Nat
  BY DEF PhaseNumber
<1>5. PhaseNumber(Payload(b)') = PhaseNumber(Payload(b))
  BY <1>1, <1>2
<1>6. PhaseNumber(Payload(b)) <= PhaseNumber(Payload(a))
  <2>1. CASE b = i
    BY <2>1, <1>2 DEF PhasesGathered
  <2>2. CASE b # i
    BY <2>2, <1>1 DEF PhasesGathered
  <2> QED
    BY <2>1, <2>2
<1>7. PhaseNumber(Payload(a)) <= PhaseNumber(Payload(a)')
  <2>1. CASE a = i
    BY <2>1
  <2>2. CASE a # i
    BY <2>2, <1>1, <1>3, <1>4
  <2> QED
    BY <2>1, <2>2
<1>8. /\ PhaseNumber(Payload(a)) \in Nat /\ PhaseNumber(Payload(b)) \in Nat
      /\ PhaseNumber(Payload(a)') \in Nat
  <2>1. Payload(a)' \in Nat \ {0}
    BY <1>1, <1>3
  <2> QED
    BY <2>1, <1>3, <1>4
<1> QED
  BY <1>5, <1>6, <1>7, <1>8

\* What follows a collective is determined by it, and by its plan if it broadcasts one.
LEMMA FollowedAlone == ASSUME NEW h, h.op # "payload", NEW p, NEW q PROVE Followed(h, p) = Followed(h, q)
BY DEF Followed

LEMMA AheadStays ==
  ASSUME NEW H, NEW G, NEW m, m # 0, G[m] = H[m],
         H[m].op # "payload" \/ calls'[1][m] = calls[1][m]
  PROVE  Ahead(G, m)' = Ahead(H, m)
<1>1. PICK h : h = H[m] /\ h = G[m]
  OBVIOUS
<1>2. Ahead(G, m)' = Followed(h, calls'[1][m].data) /\ Ahead(H, m) = Followed(h, calls[1][m].data)
  BY <1>1 DEF Ahead
<1>3. CASE h.op # "payload"
  BY <1>2, <1>3, FollowedAlone
<1>4. CASE calls'[1][m] = calls[1][m]
  BY <1>2, <1>4
<1> QED
  BY <1>1, <1>3, <1>4

\* A member calls the collective that is ahead of it.
LEMMA CallKeeps ==
  ASSUME NEW H, Shape, PhasesGathered, History(H),
         \A j \in Members : Position(H, j) /\ Reached(H, j),
         NEW i \in Members, at[i] # "payload",
         NEW op \in Ops, NEW data, Post(i, op, data), at' = [at EXCEPT ![i] = op],
         Ahead(H, Len(calls[i])).op = op, Ahead(H, Len(calls[i])).k = Payload(i),
         Fits(Ahead(H, Len(calls[i])), i, data),
         op = "wave" => /\ Ahead(H, Len(calls[i])).w = wave[i]
                        /\ Holds(i, Ahead(H, Len(calls[i])).plan)
                        /\ plan' = plan,
         op = "length" /\ WholeGroup /\ i = 1 => Complete(plan'[i], Payload(i)),
         op \in Moving => \/ at[i] \in Moving
                         \/ \A j \in Members : PhaseNumber(Payload(i)) <= PhaseNumber(Payload(j)),
         plan' = [plan EXCEPT ![i] = plan'[i]],
         UNCHANGED <<demand, setup, wave, delivered>>, Counted'
  PROVE  SyncInv'
<1>0a. PICK n : n = Len(calls[i])
  OBVIOUS
<1>0b. PICK e : e = Ahead(H, n)
  OBVIOUS
<1>1. n \in Nat /\ \A j \in Members : Len(calls[j]) \in Nat
  BY Lengths, <1>0a
<1>2. /\ Len(calls'[i]) = n + 1 /\ \A m \in 1 .. n : calls'[i][m] = calls[i][m]
      /\ calls'[i][n + 1].op = op /\ calls'[i][n + 1].data = data
  <2>1. calls'[i] = Append(calls[i], [op |-> op, data |-> data])
    BY DEF Post, Shape
  <2>2. PICK call : call = [op |-> op, data |-> data]
    OBVIOUS
  <2>3. IsSequence(calls[i]) /\ calls'[i] = Append(calls[i], call)
    BY <2>1, <2>2 DEF Shape
  <2>4. call.op = op /\ call.data = data
    BY <2>2
  <2> QED
    BY <2>3, <2>4, <1>0a, <1>1, AppendOne
<1>3. \A j \in Members \ {i} : calls'[j] = calls[j] /\ at'[j] = at[j] /\ plan'[j] = plan[j]
  BY DEF Post, Shape
<1>4. \A j \in Members : /\ Len(calls[j]) <= Len(calls'[j]) /\ Len(calls'[j]) \in Nat
                         /\ \A m \in 1 .. Len(calls[j]) : calls'[j][m] = calls[j][m]
  <2> SUFFICES ASSUME NEW j \in Members
               PROVE  /\ Len(calls[j]) <= Len(calls'[j]) /\ Len(calls'[j]) \in Nat
                      /\ \A m \in 1 .. Len(calls[j]) : calls'[j][m] = calls[j][m]
    OBVIOUS
  <2>1. CASE j = i
    BY <2>1, <1>0a, <1>1, <1>2
  <2>2. CASE j # i
    BY <2>2, <1>1, <1>3
  <2> QED
    BY <2>1, <2>2
<1>5. at'[i] = op
  BY DEF Shape
<1>6. PICK G : G = [m \in Nat |-> IF m = n + 1 THEN e ELSE H[m]]
  OBVIOUS
<1>7. G = [m \in Nat |-> G[m]] /\ G[n + 1] = e /\ \A m \in Nat : m # n + 1 => G[m] = H[m]
  BY <1>6, <1>1
\* Who has made that call already has called the same.
<1>8. \A j \in Members : \A m \in 1 .. Len(calls[j]) : G[m] = H[m]
  <2> SUFFICES ASSUME NEW j \in Members, n + 1 \in 1 .. Len(calls[j]) PROVE H[n + 1] = e
    BY <1>7, <1>1
  <2> QED
    BY <1>1, <1>0b DEF History
\* What follows a broadcast is asked for only when the root has made it.
<1>9. ASSUME NEW j \in Members, NEW m \in 0 .. Len(calls[j]),
             m < Len(calls[j]) \/ at[j] # "payload"
      PROVE  Ahead(G, m)' = Ahead(H, m)
  <2>1. CASE m = 0
    BY <2>1 DEF Ahead
  <2>2. CASE m # 0
    <3>1. m \in 1 .. Len(calls[j]) /\ G[m] = H[m]
      BY <2>2, <1>8, <1>1
    <3>2. CASE H[m].op = "payload"
      <4>1. m \in 1 .. Len(calls[1])
        <5>1. m <= Len(calls[1])
          BY <3>1, <3>2, <1>9 DEF History
        <5> QED
          BY <5>1, <3>1, <1>1, RootIsAMember
      <4>2. calls'[1][m] = calls[1][m]
        BY <4>1, <1>4, RootIsAMember
      <4> QED
        BY <4>2, <3>1, <2>2, AheadStays
    <3>3. CASE H[m].op # "payload"
      BY <3>1, <3>3, <2>2, AheadStays
    <3> QED
      BY <3>2, <3>3
  <2> QED
    BY <2>1, <2>2
<1>10. History(G)'
  <2>1. ASSUME NEW j \in Members, NEW m \in 0 .. Len(calls'[j]) - 1
        PROVE  G[m + 1] = Ahead(G, m)'
    <3>1. CASE m \in 0 .. Len(calls[j]) - 1
      <4>1. H[m + 1] = Ahead(H, m)
        BY <3>1 DEF History
      <4>2. m + 1 \in 1 .. Len(calls[j]) /\ m \in 0 .. Len(calls[j]) /\ m < Len(calls[j])
        BY <3>1, <1>1
      <4> QED
        BY <4>1, <4>2, <1>8, <1>9
    <3>2. CASE m \notin 0 .. Len(calls[j]) - 1
      <4>1. j = i /\ m = n
        BY <3>2, <1>0a, <1>1, <1>2, <1>3
      <4>2. Ahead(G, n)' = e
        BY <1>9, <1>1, <1>0a, <1>0b
      <4> QED
        BY <4>1, <4>2, <1>7
    <3> QED
      BY <3>1, <3>2
  <2>2. ASSUME NEW j \in Members, NEW m \in 1 .. Len(calls'[j])
        PROVE  /\ calls'[j][m].op = G[m].op
               /\ Fits(G[m], j, calls[j][m].data)'
               /\ G[m].op = "payload" /\ (m < Len(calls'[j]) \/ at'[j] # "payload") => m <= Len(calls'[1])
    <3>1. CASE m \in 1 .. Len(calls[j])
      <4>1. /\ calls[j][m].op = H[m].op /\ G[m] = H[m] /\ calls'[j][m] = calls[j][m]
            /\ Fits(H[m], j, calls[j][m].data)
            /\ H[m].op = "payload" /\ (m < Len(calls[j]) \/ at[j] # "payload") => m <= Len(calls[1])
        BY <3>1, <1>4, <1>8 DEF History
      <4>2. m < Len(calls'[j]) \/ at'[j] # "payload" => m < Len(calls[j]) \/ at[j] # "payload"
        <5>1. CASE j = i
          BY <5>1
        <5>2. CASE j # i
          BY <5>2, <1>3
        <5> QED
          BY <5>1, <5>2
      <4>3. Len(calls[1]) <= Len(calls'[1]) /\ Len(calls'[1]) \in Nat /\ Len(calls[1]) \in Nat
        BY <1>4, <1>1, RootIsAMember
      <4>4. PICK c : c = calls[j][m].data
        OBVIOUS
      <4>5. Fits(H[m], j, c)'
        BY <4>1, <4>4, FitsStays
      <4> QED
        BY <4>1, <4>2, <4>3, <4>4, <4>5
    <3>2. CASE m \notin 1 .. Len(calls[j])
      <4>1. j = i /\ m = n + 1
        BY <3>2, <1>0a, <1>1, <1>2, <1>3
      <4>2. G[m].op = op /\ Fits(G[m], j, data)'
        BY <4>1, <1>7, <1>0a, <1>0b, FitsStays
      <4> QED
        BY <4>1, <4>2, <1>1, <1>2, <1>5
    <3> QED
      BY <3>1, <3>2
  <2> QED
    BY <1>7, <2>1, <2>2 DEF History
<1>11. ASSUME NEW j \in Members PROVE Reached(G, j)'
  <2>1. Payload(j)' = Payload(j)
    BY DEF Payload
  <2>2. ASSUME NEW m \in 1 .. Len(calls'[j]) PROVE G[m].k \in 1 .. Payload(j)
    <3>1. CASE m \in 1 .. Len(calls[j])
      BY <3>1, <1>8 DEF Reached
    <3>2. CASE m \notin 1 .. Len(calls[j])
      <4>1. j = i /\ m = n + 1
        BY <3>2, <1>0a, <1>1, <1>2, <1>3
      <4>2. G[m].k = Payload(i) /\ Payload(i) \in Nat \ {0}
        BY <4>1, <1>7, Lengths, <1>0a, <1>0b
      <4> QED
        BY <4>1, <4>2
    <3> QED
      BY <3>1, <3>2
  <2> QED
    BY <2>1, <2>2 DEF Reached
<1>12. ASSUME NEW j \in Members \ {i} PROVE Position(G, j)'
  <2>1. /\ Payload(j)' = Payload(j) /\ calls'[j] = calls[j]
        /\ at'[j] = at[j] /\ wave'[j] = wave[j]
    BY <1>3 DEF Payload
  <2>7. /\ \A p : Holds(j, p) => Holds(j, p)'
        /\ Complete(plan[j], Payload(j)) => Complete(plan[j], Payload(j))'
    <3>1. \A a, b : Rows(j, a, b)' = Rows(j, a, b)
      BY <2>1, RowsStay DEF Rows
    <3> QED
      BY <3>1, <1>3, HoldsStays, RootPlanStays
  <2>8. WholeGroup' = WholeGroup
    BY DEF WholeGroup
  <2>2. PICK m : m = Len(calls[j])
    OBVIOUS
  <2>5. m \in 0 .. Len(calls[j])
    BY <1>1, <2>2
  <2>6. at[j] # "payload" => Ahead(G, m)' = Ahead(H, m)
    BY <1>9, <2>5
  <2>3. m > 0 => G[m] = H[m]
    BY <1>1, <1>8, <2>2
  <2>4. Position(H, j)
    OBVIOUS
  <2> QED
    BY <2>1, <2>2, <2>3, <2>4, <2>6, <2>7, <2>8 DEF Position
<1>13. Position(G, i)'
  <2>1. PICK m : m = Len(calls'[i])
    OBVIOUS
  <2>3. m > 0 /\ G[m] = e
    BY <2>1, <1>1, <1>2, <1>7
  <2>4. at'[i] = op /\ Payload(i)' = Payload(i)
    BY DEF Shape, Payload
  <2>6. op = "wave" => Holds(i, e.plan)'
    <3>1. \A a, b : Rows(i, a, b)' = Rows(i, a, b)
      BY <2>4, RowsStay DEF Rows
    <3> QED
      BY <3>1, <1>0a, <1>0b, HoldsStays
  <2>7. op = "length" /\ WholeGroup /\ i = 1 => Complete(plan[i], Payload(i))'
    <3>1. \A a, b : Exchange!Rows(Payload(i), a, b)' = Exchange!Rows(Payload(i), a, b)
      BY <2>4, RowsStay
    <3>2. PICK p, k : p = plan'[i] /\ k = Payload(i)
      OBVIOUS
    <3>3. Complete(p, k) => Complete(p, k)'
      BY <3>2, RowsStay, CompleteStays
    <3> QED
      BY <3>2, <3>3, <2>4
  <2>5. op \notin {"hook", "done", "transport", "executing"}
    BY DEF Ops
  <2> QED
    BY <2>1, <2>3, <2>4, <2>5, <2>6, <2>7, <1>0a, <1>0b DEF Position, WholeGroup
<1>14. Shape'
  <2>1. calls' = [calls EXCEPT ![i] = Append(@, [op |-> op, data |-> data])]
    BY DEF Post
  <2>2. IsSequence(calls'[i])
    BY <2>1, AppendOne DEF Shape
  <2>3. at' \in [Members -> Places]
    BY DEF Shape, Ops, Places, Moving
  <2>4. DOMAIN calls' = Members /\ \A j \in Members : IsSequence(calls'[j])
    BY <2>1, <2>2 DEF Shape
  <2>5. plan' = [j \in Members |-> plan'[j]]
    BY DEF Shape
  <2> QED
    BY <2>3, <2>4, <2>5 DEF Shape
<1>15. PhasesGathered'
  <2>1. Payload(i)' = Payload(i) /\ Payload(i) \in Nat \ {0}
    BY Lengths DEF Payload
  <2>2. PhaseNumber(Payload(i)) <= PhaseNumber(Payload(i)')
    BY <2>1 DEF PhaseNumber
  <2> QED
    BY <2>1, <2>2, GatheredStays
<1> QED
  BY <1>10, <1>11, <1>12, <1>13, <1>14, <1>15 DEF SyncInv

\* A member goes on without a call.
LEMMA RestKeeps ==
  ASSUME NEW H, Shape, PhasesGathered, History(H),
         \A j \in Members : Position(H, j) /\ Reached(H, j),
         NEW i \in Members, NEW place \in Places, place # "payload",
         at' = [at EXCEPT ![i] = place],
         at[i] = "payload" => Len(calls[i]) <= Len(calls[1]),
         UNCHANGED calls,
         plan' = [plan EXCEPT ![i] = plan'[i]],
         wave' = [wave EXCEPT ![i] = wave'[i]], wave'[i] \in Nat,
         UNCHANGED <<demand, setup>>, Counted',
         \/ delivered' = delivered
         \/ delivered' = [delivered EXCEPT ![i] = Append(@, output[i])],
         Position(H, i)',
         place \in Moving =>
           /\ at[i] \in Moving
           /\ Payload(i)' = Payload(i) \/ PhaseNumber(Payload(i)') = PhaseNumber(Payload(i))
  PROVE  SyncInv'
<1>1. \A j \in Members : Len(calls[j]) \in Nat /\ Payload(j) \in Nat \ {0}
  BY Lengths
<1>2. /\ Payload(i)' \in Nat \ {0} /\ Payload(i) <= Payload(i)'
      /\ DOMAIN delivered' = Members /\ \A j \in Members : IsSequence(delivered'[j])
      /\ \A j \in Members \ {i} : delivered'[j] = delivered[j]
  <2>1. CASE delivered' = delivered
    BY <2>1, <1>1 DEF Payload, Shape
  <2>2. CASE delivered' = [delivered EXCEPT ![i] = Append(@, output[i])]
    <3>1. delivered'[i] = Append(delivered[i], output[i]) /\ IsSequence(delivered[i])
      BY <2>2 DEF Shape
    <3>2. IsSequence(delivered'[i]) /\ Len(delivered'[i]) = Len(delivered[i]) + 1
      BY <3>1, AppendOne
    <3>3. Payload(i)' = Payload(i) + 1
      BY <3>2, Lengths DEF Payload
    <3> QED
      BY <2>2, <3>2, <3>3, <1>1 DEF Shape
  <2> QED
    BY <2>1, <2>2
<1>3. \A j \in Members \ {i} : /\ at'[j] = at[j] /\ plan'[j] = plan[j] /\ wave'[j] = wave[j]
                              /\ Payload(j)' = Payload(j)
  BY <1>2 DEF Shape, Payload
<1>4. at'[i] = place
  BY DEF Shape
<1>5. Shape'
  <2>1. at' \in [Members -> Places] /\ wave' \in [Members -> Nat] /\ plan' = [j \in Members |-> plan'[j]]
    BY DEF Shape
  <2> QED
    BY <2>1, <1>2 DEF Shape
<1>6. PhasesGathered'
  <2>1. PhaseNumber(Payload(i)) <= PhaseNumber(Payload(i)')
    BY <1>1, <1>2, PhasesAreOrdered
  <2> QED
    BY <2>1, <1>2, GatheredStays
<1>7. \A m : Ahead(H, m)' = Ahead(H, m)
  BY DEF Ahead
<1>8. History(H)'
  <2>1. H = [m \in Nat |-> H[m]]
    BY DEF History
  <2>2. \A j \in Members : \A m \in 0 .. Len(calls[j]) - 1 : H[m + 1] = Ahead(H, m)'
    BY <1>7 DEF History
  <2>3. ASSUME NEW j \in Members, NEW m \in 1 .. Len(calls[j])
        PROVE  /\ calls[j][m].op = H[m].op
               /\ Fits(H[m], j, calls[j][m].data)'
               /\ H[m].op = "payload" /\ (m < Len(calls[j]) \/ at'[j] # "payload") => m <= Len(calls[1])
    <3>4. PICK c : c = calls[j][m].data
      OBVIOUS
    <3>5. Fits(H[m], j, c)'
      BY <3>4, FitsStays DEF History
    <3>1. /\ calls[j][m].op = H[m].op
          /\ H[m].op = "payload" /\ (m < Len(calls[j]) \/ at[j] # "payload") => m <= Len(calls[1])
      BY DEF History
    <3>2. CASE j = i /\ at[i] = "payload"
      <4>1. Len(calls[1]) \in Nat /\ Len(calls[i]) <= Len(calls[1])
        BY <3>2, <1>1, RootIsAMember
      <4> QED
        BY <4>1, <3>1, <3>2, <3>4, <3>5, <1>1
    <3>3. CASE ~(j = i /\ at[i] = "payload")
      BY <3>1, <3>3, <3>4, <3>5, <1>3
    <3> QED
      BY <3>2, <3>3
  <2> QED
    BY <2>1, <2>2, <2>3 DEF History
<1>9. ASSUME NEW j \in Members PROVE Reached(H, j)'
  <2>1. Payload(j) <= Payload(j)' /\ Payload(j)' \in Nat
    BY <1>1, <1>2, <1>3
  <2>2. ASSUME NEW m \in 1 .. Len(calls[j]) PROVE H[m].k \in 1 .. Payload(j)'
    <3>1. H[m].k \in 1 .. Payload(j)
      BY DEF Reached
    <3> QED
      BY <3>1, <2>1, <1>1
  <2> QED
    BY <2>2 DEF Reached
<1>10. ASSUME NEW j \in Members PROVE Position(H, j)'
  <2>1. CASE j = i
    BY <2>1
  <2>2. CASE j # i
    <3>1. PICK m : m = Len(calls[j])
      OBVIOUS
    <3>2. Position(H, j) /\ Ahead(H, m)' = Ahead(H, m)
      BY <1>7
    <3>3. /\ \A p : Holds(j, p) => Holds(j, p)'
          /\ Complete(plan[j], Payload(j)) => Complete(plan[j], Payload(j))'
      <4>1. \A a, b : Rows(j, a, b)' = Rows(j, a, b)
        BY <2>2, <1>3, RowsStay DEF Rows
      <4> QED
        BY <4>1, <2>2, <1>3, HoldsStays, RootPlanStays
    <3>4. WholeGroup' = WholeGroup
      BY DEF WholeGroup
    <3> QED
      BY <2>2, <3>1, <3>2, <3>3, <3>4, <1>3 DEF Position
  <2> QED
    BY <2>1, <2>2
<1> QED
  BY <1>5, <1>6, <1>8, <1>9, <1>10 DEF SyncInv

----------------------------------------------------------------------------
(* The rows of a wave. *)

\* A bucket of the catalogue has a number of rows.
LEMMA BucketHasRows ==
  ASSUME NEW rows \in Nat, NEW b \in Nat, NEW o \in 0 .. Buckets(rows, b) - 1
  PROVE  RowsOf(rows, b, o) \in Nat
<1>1. PICK s : s = StepOf(rows, b)
  OBVIOUS
<1>2. rows > 0 /\ s \in Nat \ {0}
  BY <1>1 DEF Buckets, StepOf
<1>3. PICK q : q = (rows + s - 1) \div s
  OBVIOUS
<1>4. q \in Nat /\ o \in Nat /\ o + 1 <= q
  BY <1>1, <1>2, <1>3 DEF Buckets
<1>5. s * q <= rows + s - 1
  BY <1>2, <1>3
<1>6. s * (o + 1) <= s * q
  BY <1>2, <1>4
<1>7. o * s \in Nat /\ s * (o + 1) = o * s + s
  BY <1>2, <1>4
<1>8. rows - o * s \in Nat
  BY <1>2, <1>4, <1>5, <1>6, <1>7
<1> QED
  BY <1>1, <1>2, <1>8 DEF RowsOf

\* What is expected for no task and for one
LEMMA ExpectedOfOne ==
  ASSUME NEW i
  PROVE  /\ Expected(i, {}) = 0
         /\ \A t : TaskRows(i, plan[i], t) \in Nat => Expected(i, {t}) = TaskRows(i, plan[i], t)
<1> DEFINE any(z) == CHOOSE x \in z : TRUE
           rows(t) == TaskRows(i, plan[i], t)
           Counts(f, S) == f = [z \in SUBSET S |-> IF z = {} THEN 0 ELSE rows(any(z)) + f[z \ {any(z)}]]
<1>1. ASSUME NEW S, NEW g, Counts(g, S)
      PROVE  \E f : Counts(f, S) /\ Expected(i, S) = f[S]
  <2> DEFINE it == CHOOSE it : it = [z \in SUBSET S |-> IF z = {} THEN 0 ELSE rows(any(z)) + it[z \ {any(z)}]]
  <2>1. it = [z \in SUBSET S |-> IF z = {} THEN 0 ELSE rows(any(z)) + it[z \ {any(z)}]]
    BY <1>1
  <2>2. Expected(i, S) = it[S]
    BY DEF Expected, SumOf, MapThenSumSet, MapThenFoldSet
  <2> QED
    BY <2>1, <2>2
<1>2. Expected(i, {}) = 0
  <2>1. PICK g : g = [z \in SUBSET {} |-> 0]
    OBVIOUS
  <2>2. \A z \in SUBSET {} : z = {}
    OBVIOUS
  <2>3. g = [z \in SUBSET {} |-> IF z = {} THEN 0 ELSE rows(any(z)) + g[z \ {any(z)}]]
    BY <2>1, <2>2
  <2>4. PICK f : Counts(f, {}) /\ Expected(i, {}) = f[{}]
    <3>1. Counts(g, {})
      BY <2>3
    <3> HIDE DEF Counts
    <3> QED
      BY <1>1, <3>1
  <2> QED
    BY <2>4
<1>3. ASSUME NEW t, rows(t) \in Nat PROVE Expected(i, {t}) = rows(t)
  <2>1. PICK g : g = [z \in SUBSET {t} |-> IF z = {} THEN 0 ELSE rows(t)]
    OBVIOUS
  <2>2. \A z \in SUBSET {t} : z # {} => z = {t} /\ any(z) = t /\ z \ {t} = {}
    OBVIOUS
  <2>3. g[{}] = 0 /\ rows(t) + 0 = rows(t)
    BY <2>1, <1>3
  <2>4. g = [z \in SUBSET {t} |-> IF z = {} THEN 0 ELSE rows(any(z)) + g[z \ {any(z)}]]
    BY <2>1, <2>2, <2>3
  <2>5. PICK f : Counts(f, {t}) /\ Expected(i, {t}) = f[{t}]
    <3>1. Counts(g, {t})
      BY <2>4
    <3> HIDE DEF Counts
    <3> QED
      BY <1>1, <3>1
  <2>6. f[{}] = 0
    BY <2>5
  <2>7. {t} # {} /\ {t} \in SUBSET {t} /\ any({t}) = t /\ {t} \ {t} = {}
    BY <2>2
  <2>8. f[{t}] = rows(t) + f[{}]
    BY <2>5, <2>7
  <2> QED
    BY <2>3, <2>5, <2>6, <2>8
<1> QED
  BY <1>2, <1>3

\* What is packed for no task and for one
LEMMA PackedOfOne ==
  ASSUME NEW i
  PROVE  /\ Len(Packed(i, {})) = 0
         /\ \A t : TaskRows(i, plan[i], t) \in Nat =>
              Packed(i, {t}) = Slice(i, t) /\ Len(Packed(i, {t})) = TaskRows(i, plan[i], t)
<1> DEFINE top(z) == CHOOSE x \in z : \A y \in z : x >= y
<1>1. ASSUME NEW s, NEW g,
             g = [z \in SUBSET DOMAIN s |-> IF z = {} THEN <<>> ELSE g[z \ {top(z)}] \o s[top(z)]]
      PROVE  \E f : /\ f = [z \in SUBSET DOMAIN s |-> IF z = {} THEN <<>> ELSE f[z \ {top(z)}] \o s[top(z)]]
                   /\ Exchange!Joined(s) = f[DOMAIN s]
  <2> DEFINE it == CHOOSE it : it = [z \in SUBSET DOMAIN s |-> IF z = {} THEN <<>> ELSE it[z \ {top(z)}] \o s[top(z)]]
  <2>1. it = [z \in SUBSET DOMAIN s |-> IF z = {} THEN <<>> ELSE it[z \ {top(z)}] \o s[top(z)]]
    BY <1>1
  <2>2. Exchange!Joined(s) = it[DOMAIN s]
    BY DEF Exchange!Joined, Exchange!FoldLeft, Exchange!MapThenFoldSet, Exchange!Max
  <2> QED
    BY <2>1, <2>2
<1>6. top({1}) = 1
  OBVIOUS
<1> HIDE DEF top
<1>2. Len(Exchange!Joined(SetToSeq({}))) = 0
  <2>1. PICK s : s = SetToSeq({})
    OBVIOUS
  <2>2. DOMAIN s = {}
    <3>1. Cardinality({}) = 0
      BY FS_EmptySet
    <3>2. [m \in 1 .. 0 |-> 0] \in [1 .. 0 -> {}] /\ IsInjective([m \in 1 .. 0 |-> 0])
      BY DEF IsInjective
    <3>3. s \in [1 .. 0 -> {}]
      BY <2>1, <3>1, <3>2 DEF SetToSeq
    <3> QED
      BY <3>3
  <2>3. PICK g : g = [z \in SUBSET {} |-> <<>>]
    OBVIOUS
  <2>4. g = [z \in SUBSET DOMAIN s |-> IF z = {} THEN <<>> ELSE g[z \ {top(z)}] \o s[top(z)]]
    <3>1. \A z \in SUBSET {} : z = {}
      OBVIOUS
    <3> QED
      BY <2>2, <2>3, <3>1
  <2>5. PICK f : /\ f = [z \in SUBSET DOMAIN s |-> IF z = {} THEN <<>> ELSE f[z \ {top(z)}] \o s[top(z)]]
                 /\ Exchange!Joined(s) = f[DOMAIN s]
    BY <1>1, <2>4
  <2>6. f[{}] = <<>>
    BY <2>2, <2>5
  <2>7. Exchange!Joined(s) = <<>>
    BY <2>2, <2>5, <2>6
  <2> QED
    BY <2>1, <2>7
<1>3. ASSUME NEW x, IsSequence(x) PROVE Exchange!Joined(SetToSeq({x})) = x
  <2>1. PICK s : s = SetToSeq({x})
    OBVIOUS
  <2>2. DOMAIN s = {1} /\ s[1] = x
    <3>1. Cardinality({x}) = 1
      BY FS_Singleton
    <3>2. [m \in 1 .. 1 |-> x] \in [1 .. 1 -> {x}] /\ IsInjective([m \in 1 .. 1 |-> x])
      BY DEF IsInjective
    <3>3. s \in [1 .. 1 -> {x}]
      BY <2>1, <3>1, <3>2 DEF SetToSeq
    <3> QED
      BY <3>3
  <2>3. PICK g : g = [z \in SUBSET {1} |-> IF z = {} THEN <<>> ELSE x]
    OBVIOUS
  <2>4. /\ \A z \in SUBSET {1} : z = {} \/ z = {1}
        /\ {1} \ {1} = {} /\ {1} # {} /\ {1} \in SUBSET {1}
    OBVIOUS
  <2>6. <<>> \o x = x
    BY <1>3 DEF IsSequence
  <2>7. g = [z \in SUBSET DOMAIN s |-> IF z = {} THEN <<>> ELSE g[z \ {top(z)}] \o s[top(z)]]
    <3>1. g[{}] = <<>>
      BY <2>3
    <3>2. \A z \in SUBSET {1} : g[z] = IF z = {} THEN <<>> ELSE g[z \ {top(z)}] \o s[top(z)]
      <4>1. g[{1}] = x /\ x = g[{1} \ {top({1})}] \o s[top({1})]
        BY <2>2, <2>3, <2>4, <2>6, <3>1, <1>6
      <4>2. ASSUME NEW z, z = {1}
            PROVE  g[z] = IF z = {} THEN <<>> ELSE g[z \ {top(z)}] \o s[top(z)]
        BY <4>1, <4>2, <2>4
      <4> QED
        BY <4>2, <3>1, <2>4
    <3> QED
      BY <2>2, <2>3, <3>2
  <2>8. PICK f : /\ f = [z \in SUBSET DOMAIN s |-> IF z = {} THEN <<>> ELSE f[z \ {top(z)}] \o s[top(z)]]
                 /\ Exchange!Joined(s) = f[DOMAIN s]
    BY <1>1, <2>7
  <2>9. f[{}] = <<>>
    BY <2>8
  <2>10. f[{1}] = f[{}] \o s[1]
    <3>2. {1} \in SUBSET DOMAIN s
      BY <2>2
    <3>3. \A z \in SUBSET DOMAIN s : z # {} => f[z] = f[z \ {top(z)}] \o s[top(z)]
      BY <2>8
    <3>1. f[{1}] = f[{1} \ {top({1})}] \o s[top({1})]
      BY <3>2, <3>3, <2>4
    <3> QED
      BY <3>1, <2>4, <1>6
  <2> QED
    BY <2>1, <2>2, <2>6, <2>8, <2>9, <2>10
<1>4. Packed(i, {}) = Exchange!Joined(SetToSeq({}))
  <2>1. {Slice(i, t) : t \in {}} = {}
    OBVIOUS
  <2> QED
    BY <2>1 DEF Packed
<1>5. ASSUME NEW t, TaskRows(i, plan[i], t) \in Nat
      PROVE  Packed(i, {t}) = Slice(i, t) /\ Len(Packed(i, {t})) = TaskRows(i, plan[i], t)
  <2>1. Packed(i, {t}) = Exchange!Joined(SetToSeq({Slice(i, t)}))
    <3>1. {Slice(i, u) : u \in {t}} = {Slice(i, t)}
      OBVIOUS
    <3> QED
      BY <3>1 DEF Packed
  <2>2. PICK n, F : n = TaskRows(i, plan[i], t) /\ F = [x \in 1 .. n |-> Slice(i, t)[x]]
    OBVIOUS
  <2>3. Slice(i, t) = F
    BY <2>2 DEF Slice
  <2>4. IsSequence(F) /\ Len(F) = n
    <3> DEFINE S == {F[x] : x \in 1 .. n}
    <3>1. F \in [1 .. n -> S]
      BY <2>2
    <3>2. F \in Seq(S) /\ Len(F) = n
      BY <3>1, <2>2, <1>5
    <3> QED
      BY <3>2 DEF IsSequence
  <2> QED
    BY <2>1, <2>2, <2>3, <2>4, <1>3
<1> QED
  BY <1>2, <1>4, <1>5

\* A payload of the layers has rows to count between any two members.
LEMMA RowsAreCounted ==
  ASSUME Counted, NEW k \in 1 .. Exchange!Payloads, NEW s \in Members, NEW d \in Members
  PROVE  Exchange!Rows(k, s, d) \in Nat
<1>1. 1 + (k - 1) \div 3 \in 1 .. Layers
  BY SyncAssumption DEF Exchange!Payloads
<1>2. demand[1 + (k - 1) \div 3] \in [Members -> [Members -> Nat]]
  BY <1>1, SyncAssumption DEF Counted
<1> QED
  BY <1>2 DEF Exchange!Rows

\* How many rows of a payload go from a member to each, and come to it from each
Going(k, i) == [d \in Members |-> Exchange!Rows(k, i, d)]
Coming(k, i) == [s \in Members |-> Exchange!Rows(k, s, i)]

LEMMA SplitsAreCounted ==
  ASSUME Counted, NEW k \in 1 .. Exchange!Payloads, NEW i \in Members
  PROVE  /\ Going(k, i) \in [1 .. N -> Nat] /\ Coming(k, i) \in [1 .. N -> Nat]
         /\ \A m \in Members : /\ Going(k, i)[m] = Exchange!Rows(k, i, m)
                               /\ Coming(k, i)[m] = Exchange!Rows(k, m, i)
BY RowsAreCounted, RootIsAMember DEF Going, Coming

\* The rows of a payload from each member to each, and the segments they make
LEMMA SegmentsOfRows ==
  ASSUME Counted, NEW k \in 1 .. Exchange!Payloads, NEW s \in Members, NEW d \in Members
  PROVE  /\ Exchange!Segment(k, s, d) \in Seq(Nat \X Members \X Members \X Nat)
         /\ Len(Exchange!Segment(k, s, d)) = Exchange!Rows(k, s, d)
         /\ \A y \in 1 .. Exchange!Rows(k, s, d) : Exchange!Segment(k, s, d)[y] = <<k, s, d, y>>
<1>1. PICK r : r = Exchange!Rows(k, s, d)
  OBVIOUS
<1>2. r \in Nat
  BY <1>1, RowsAreCounted
<1>3. PICK f : f = [y \in 1 .. r |-> <<k, s, d, y>>]
  OBVIOUS
<1>4. f \in [1 .. r -> Nat \X Members \X Members \X Nat]
  BY <1>2, <1>3
<1>5. f \in Seq(Nat \X Members \X Members \X Nat) /\ Len(f) = r
  BY <1>2, <1>4
<1>6. Exchange!Segment(k, s, d) = f
  BY <1>1, <1>3 DEF Exchange!Segment
<1> QED
  BY <1>1, <1>3, <1>5, <1>6

\* A native tensor has the rows of its segments at their places.
LEMMA NativeTensors ==
  ASSUME Counted, NEW k \in 1 .. Exchange!Payloads, NEW i \in Members
  PROVE  /\ IsSequence(Exchange!Sent(i, k)) /\ Len(Exchange!Sent(i, k)) = Total(Going(k, i), 1 .. N)
         /\ \A d \in Members : \A y \in 1 .. Exchange!Rows(k, i, d) :
              Exchange!Sent(i, k)[Total(Going(k, i), 1 .. d - 1) + y] = <<k, i, d, y>>
         /\ IsSequence(Exchange!Received(i, k)) /\ Len(Exchange!Received(i, k)) = Total(Coming(k, i), 1 .. N)
         /\ \A s \in Members : \A y \in 1 .. Exchange!Rows(k, s, i) :
              Exchange!Received(i, k)[Total(Coming(k, i), 1 .. s - 1) + y] = <<k, s, i, y>>
<1>1. N \in Nat /\ Members = 1 .. N
  BY RootIsAMember
<1>2. PICK F : F = [d \in 1 .. N |-> Exchange!Segment(k, i, d)]
  OBVIOUS
<1>3. PICK G : G = [s \in 1 .. N |-> Exchange!Segment(k, s, i)]
  OBVIOUS
<1>4. Segments(F, Going(k, i), N) /\ Segments(G, Coming(k, i), N)
  <2>1. /\ F \in [1 .. N -> Seq(Nat \X Members \X Members \X Nat)]
        /\ G \in [1 .. N -> Seq(Nat \X Members \X Members \X Nat)]
    BY <1>1, <1>2, <1>3, SegmentsOfRows
  <2>2. \A m \in 1 .. N : Len(F[m]) = Exchange!Rows(k, i, m) /\ Len(G[m]) = Exchange!Rows(k, m, i)
    BY <1>1, <1>2, <1>3, SegmentsOfRows
  <2> QED
    BY <2>1, <2>2, <1>1, SplitsAreCounted DEF Segments
<1>5. Exchange!Sent(i, k) = Exchange!Joined(F) /\ Exchange!Received(i, k) = Exchange!Joined(G)
  BY <1>2, <1>3 DEF Exchange!Sent, Exchange!Received
<1>6. LaidOut(Exchange!Sent(i, k), F, Going(k, i), N) /\ LaidOut(Exchange!Received(i, k), G, Coming(k, i), N)
  BY <1>4, <1>5, JoinedSegments
<1>9. \A m \in Members : /\ Going(k, i)[m] = Exchange!Rows(k, i, m)
                         /\ Coming(k, i)[m] = Exchange!Rows(k, m, i)
  BY SplitsAreCounted
<1>7. ASSUME NEW d \in Members, NEW y \in 1 .. Exchange!Rows(k, i, d)
      PROVE  Exchange!Sent(i, k)[Total(Going(k, i), 1 .. d - 1) + y] = <<k, i, d, y>>
  <2>1. Exchange!Sent(i, k)[Total(Going(k, i), 1 .. d - 1) + y] = F[d][y]
    BY <1>1, <1>6, <1>9 DEF LaidOut
  <2>2. F[d][y] = <<k, i, d, y>>
    BY <1>1, <1>2, SegmentsOfRows
  <2> QED
    BY <2>1, <2>2
<1>8. ASSUME NEW s \in Members, NEW y \in 1 .. Exchange!Rows(k, s, i)
      PROVE  Exchange!Received(i, k)[Total(Coming(k, i), 1 .. s - 1) + y] = <<k, s, i, y>>
  <2>1. Exchange!Received(i, k)[Total(Coming(k, i), 1 .. s - 1) + y] = G[s][y]
    BY <1>1, <1>6, <1>9 DEF LaidOut
  <2>2. G[s][y] = <<k, s, i, y>>
    BY <1>1, <1>3, SegmentsOfRows
  <2> QED
    BY <2>1, <2>2
<1> QED
  BY <1>6, <1>7, <1>8 DEF LaidOut

\* The offsets of the segments in the tensors of a member
LEMMA OffsetsOfRows ==
  ASSUME Counted, NEW i \in Members, Payload(i) \in 1 .. Exchange!Payloads, NEW S \in SUBSET Members
  PROVE  /\ SumOf(LAMBDA d : Rows(i, i, d), S) = Total(Going(Payload(i), i), S)
         /\ SumOf(LAMBDA s : Rows(i, s, i), S) = Total(Coming(Payload(i), i), S)
<1> DEFINE any(z) == CHOOSE x \in z : TRUE
<1>1. IsFiniteSet(S)
  <2>1. IsFiniteSet(1 .. N)
    BY RootIsAMember, FS_Interval
  <2> QED
    BY <2>1, RootIsAMember, FS_Subset
<1>5. PICK out : out = Going(Payload(i), i)
  OBVIOUS
<1>6. PICK in : in = Coming(Payload(i), i)
  OBVIOUS
<1>8. /\ Going(Payload(i), i) \in [1 .. N -> Nat] /\ Coming(Payload(i), i) \in [1 .. N -> Nat]
      /\ \A m \in Members : /\ Going(Payload(i), i)[m] = Exchange!Rows(Payload(i), i, m)
                            /\ Coming(Payload(i), i)[m] = Exchange!Rows(Payload(i), m, i)
  BY SplitsAreCounted
<1>7. \A x \in S : /\ out[x] = Rows(i, i, x) /\ out[x] \in Nat
                   /\ in[x] = Rows(i, x, i) /\ in[x] \in Nat
  BY <1>5, <1>6, <1>8, RootIsAMember DEF Rows
<1>2. \A z \in SUBSET S : z # {} =>
        /\ any(z) = Taken(z) /\ out[Taken(z)] = Rows(i, i, any(z)) /\ in[Taken(z)] = Rows(i, any(z), i)
  BY <1>7 DEF Taken
<1> HIDE DEF any
<1>3. SumOf(LAMBDA d : Rows(i, i, d), S) = Total(out, S)
  <2> DEFINE it == CHOOSE it : it = [z \in SUBSET S |-> IF z = {} THEN 0 ELSE Rows(i, i, any(z)) + it[z \ {any(z)}]]
  <2>1. PICK g : Sums(g, out, S)
    BY <1>1, <1>7, TotalIsTheSum
  <2>2. g = [z \in SUBSET S |-> IF z = {} THEN 0 ELSE Rows(i, i, any(z)) + g[z \ {any(z)}]]
    BY <2>1, <1>2 DEF Sums
  <2>3. it = [z \in SUBSET S |-> IF z = {} THEN 0 ELSE Rows(i, i, any(z)) + it[z \ {any(z)}]]
    BY <2>2
  <2>4. SumOf(LAMBDA d : Rows(i, i, d), S) = it[S]
    BY DEF SumOf, MapThenSumSet, MapThenFoldSet, any
  <2> HIDE DEF it
  <2>5. Sums(it, out, S)
    BY <2>3, <1>2 DEF Sums
  <2> QED
    BY <2>4, <2>5, <1>1, <1>7, TotalIsTheSum
<1>4. SumOf(LAMBDA s : Rows(i, s, i), S) = Total(in, S)
  <2> DEFINE it == CHOOSE it : it = [z \in SUBSET S |-> IF z = {} THEN 0 ELSE Rows(i, any(z), i) + it[z \ {any(z)}]]
  <2>1. PICK g : Sums(g, in, S)
    BY <1>1, <1>7, TotalIsTheSum
  <2>2. g = [z \in SUBSET S |-> IF z = {} THEN 0 ELSE Rows(i, any(z), i) + g[z \ {any(z)}]]
    BY <2>1, <1>2 DEF Sums
  <2>3. it = [z \in SUBSET S |-> IF z = {} THEN 0 ELSE Rows(i, any(z), i) + it[z \ {any(z)}]]
    BY <2>2
  <2>4. SumOf(LAMBDA s : Rows(i, s, i), S) = it[S]
    BY DEF SumOf, MapThenSumSet, MapThenFoldSet, any
  <2> HIDE DEF it
  <2>5. Sums(it, in, S)
    BY <2>3, <1>2 DEF Sums
  <2> QED
    BY <2>4, <2>5, <1>1, <1>7, TotalIsTheSum
<1> QED
  BY <1>3, <1>4, <1>5, <1>6

\* A member that holds its part of p makes the call of the wave as its splits say:
\* of an edge it is an end of, it has kept what the other end keeps.
LEMMA WaveFits ==
  ASSUME Shape, Counted, NEW i \in Members, NEW p, Holds(i, p),
         Payload(i) \in 1 .. Exchange!Payloads,
         NEW w \in DOMAIN p.waves,
         NEW s \in Members, NEW d \in Members, i \in {s, d},
         NEW h, h = [op |-> "wave", k |-> Payload(i), w |-> w, plan |-> p],
         NEW T, T = {t \in plan[i].waves[w] : t.src = s /\ t.dst = d}
  PROVE  /\ Carries(h, s, d, Expected(i, T)) /\ Carries(h, s, d, Len(Packed(i, T)))
         /\ s = i => Moves(h, s, d, Packed(i, T))
<1> DEFINE rows == Exchange!Rows(Payload(i), s, d)
<1>1. rows \in Nat
  BY RowsAreCounted
<1>2. plan[i].bucket_rows = p.bucket_rows /\ p.bucket_rows \in Nat
  BY DEF Holds, Materialised
<1>3. plan[i].waves[w] =
        {t \in p.waves[w] : /\ i \in {t.src, t.dst}
                           /\ t.bucket \in 0 .. Buckets(Rows(i, t.src, t.dst), p.bucket_rows) - 1}
  BY DEF Holds, Materialised
<1>4. T = EdgeTasks(h, s, d)
  <2>1. EdgeTasks(h, s, d) = {t \in p.waves[w] : /\ t.src = s /\ t.dst = d
                                                /\ t.bucket \in 0 .. Buckets(rows, p.bucket_rows) - 1}
    BY DEF EdgeTasks
  <2>2. \A t : t.src = s /\ t.dst = d => Rows(i, t.src, t.dst) = rows /\ i \in {t.src, t.dst}
    BY DEF Rows
  <2> QED
    BY <2>1, <2>2, <1>3
<1>5. T = {} \/ \E t : T = {t}
  <2>1. \A t, u \in plan[i].waves[w] : t # u => t.src # u.src
    BY DEF Holds
  <2>2. \A t, u \in T : t = u
    BY <2>1
  <2> QED
    BY <2>2
<1>6. ASSUME NEW t, T = {t}
      PROVE  /\ TaskRows(i, plan[i], t) = RowsOf(rows, p.bucket_rows, t.bucket)
             /\ TaskRows(i, plan[i], t) \in Nat
  <2>1. t \in T
    BY <1>6
  <2>2. t.src = s /\ t.dst = d /\ t.bucket \in 0 .. Buckets(rows, p.bucket_rows) - 1
    BY <2>1, <1>4 DEF EdgeTasks
  <2>3. TaskRows(i, plan[i], t) = RowsOf(rows, p.bucket_rows, t.bucket)
    BY <2>2, <1>2 DEF TaskRows, Rows
  <2> QED
    BY <2>2, <2>3, <1>1, <1>2, BucketHasRows
<1>7. CASE T = {}
  <2>1. Expected(i, T) = 0 /\ Len(Packed(i, T)) = 0
    BY <1>7, ExpectedOfOne, PackedOfOne
  <2> QED
    BY <2>1, <1>4, <1>7 DEF Carries, Moves
<1>8. CASE \E t : T = {t}
  <2>1. PICK t : T = {t}
    BY <1>8
  <2>2. PICK n : n = RowsOf(rows, p.bucket_rows, t.bucket)
    OBVIOUS
  <2>3. Expected(i, T) = n /\ Len(Packed(i, T)) = n
    BY <2>1, <2>2, <1>6, ExpectedOfOne, PackedOfOne
  <2>4. EdgeTasks(h, s, d) = {t} /\ n = RowsOf(Exchange!Rows(h.k, s, d), h.plan.bucket_rows, t.bucket)
    BY <2>1, <2>2, <1>4
  <2>5. ASSUME s = i, NEW x \in 1 .. n
        PROVE  Packed(i, T)[x] = <<h.k, s, d, t.bucket * StepOf(rows, p.bucket_rows) + x>>
    <3>1. t.src = i /\ t.dst = d /\ t.bucket \in 0 .. Buckets(rows, p.bucket_rows) - 1
      BY <2>4, <2>5 DEF EdgeTasks
    <3>2. PICK y : y = t.bucket * StepOf(rows, p.bucket_rows) + x
      OBVIOUS
    <3>3. y \in 1 .. rows /\ t.bucket * StepOf(rows, p.bucket_rows) \in Nat /\ n \in Nat
      BY <3>1, <3>2, <2>2, <1>1, <1>2, RowsAreInBuckets
    <3>4. PICK off : off = Total(Going(Payload(i), i), 1 .. d - 1)
      OBVIOUS
    <3>5. off \in Nat
      <4>1. d - 1 \in 0 .. N /\ Going(Payload(i), i) \in [1 .. N -> Nat] /\ N \in Nat
        <5>1. Going(Payload(i), i) \in [1 .. N -> Nat]
          BY SplitsAreCounted
        <5> QED
          BY <5>1, RootIsAMember
      <4> QED
        BY <4>1, <3>4, Beginnings
    <3>6. Exchange!Sent(i, Payload(i))[off + y] = <<Payload(i), i, d, y>>
      BY <3>3, <3>4, <2>5, NativeTensors
    <3>7. SumOf(LAMBDA e : Rows(i, i, e), 1 .. d - 1) = off
      <4>1. 1 .. d - 1 \in SUBSET Members
        BY RootIsAMember
      <4> QED
        BY <4>1, <3>4, OffsetsOfRows
    <3>8. Consumed(i, plan[i], t) = t.bucket * StepOf(rows, p.bucket_rows)
      BY <3>1, <2>5, <1>2 DEF Consumed, Rows
    <3>9. SendOffset(i, plan[i], t) + x = off + y
      <4>1. SendOffset(i, plan[i], t) = off + Consumed(i, plan[i], t)
        BY <3>1, <3>7 DEF SendOffset
      <4> QED
        BY <4>1, <3>2, <3>3, <3>5, <3>8
    <3>10. TaskRows(i, plan[i], t) = n /\ Packed(i, T) = Slice(i, t)
      BY <2>1, <2>2, <3>3, <1>6, PackedOfOne
    <3>11. Packed(i, T)[x] = Exchange!Sent(i, Payload(i))[SendOffset(i, plan[i], t) + x]
      BY <3>10 DEF Slice
    <3> QED
      BY <3>2, <3>6, <3>9, <3>11, <2>5
  <2>6. s = i => Moves(h, s, d, Packed(i, T))
    BY <2>3, <2>4, <2>5 DEF Moves
  <2> QED
    BY <2>3, <2>4, <2>6 DEF Carries
<1> QED
  BY <1>5, <1>7, <1>8

----------------------------------------------------------------------------
(* The steps. *)

\* A member in a collective has called it last, and what it waits for has been called.
LEMMA CallReturns ==
  ASSUME NEW H, Shape, History(H), NEW i \in Members, Position(H, i),
         at[i] \in Ops, MayReturn(i)
  PROVE  /\ Len(calls[i]) > 0 /\ H[Len(calls[i])].op = at[i] /\ H[Len(calls[i])].k = Payload(i)
         /\ at[i] \in {"matrix", "summary"} =>
              \A j \in Members : Len(calls[i]) <= Len(calls[j])
         /\ at[i] \in {"length", "payload"} => Len(calls[i]) <= Len(calls[1])
<1>1. PICK n : n = Len(calls[i])
  OBVIOUS
<1>2. n \in Nat \ {0} /\ H[n].op = at[i] /\ H[n].k = Payload(i)
  BY <1>1, Lengths DEF Position, Ops
<1>3. n \in 1 .. Len(calls[i])
  BY <1>1, <1>2
<1>4. calls[i][n].op = at[i]
  BY <1>2, <1>3 DEF History
<1>5. Last(calls[i]).op = at[i]
  BY <1>1, <1>4 DEF Last
<1>6. at[i] \in {"matrix", "summary"} => \A j \in Members : Joins(j, i)
  BY <1>5 DEF MayReturn
<1>7. at[i] \in {"length", "payload"} => Joins(1, i)
  BY <1>5 DEF MayReturn
<1> QED
  BY <1>1, <1>2, <1>6, <1>7 DEF Joins

\* Between the collectives of the agreement a member has one thing to call.
LEMMA AgreementGoesOn ==
  ASSUME NEW H, NEW n \in Nat \ {0}
  PROVE  /\ H[n].op = "matrix" => Ahead(H, n) = Agreement("summary", H[n].k)
         /\ H[n].op = "summary" => Ahead(H, n) = Agreement("length", H[n].k)
         /\ H[n].op = "length" => Ahead(H, n) = Agreement("payload", H[n].k)
         /\ H[n].op = "payload" => Ahead(H, n) = AfterWave(H[n].k, 0, calls[1][n].data)
         /\ H[n].op = "wave" => Ahead(H, n) = AfterWave(H[n].k, H[n].w, H[n].plan)
BY DEF Ahead, Followed

\* A member keeps the waves of a plan, the empty ones too.
LEMMA MaterialisedWaves == \A i, p : DOMAIN Materialised(i, p).waves = DOMAIN p.waves
BY DEF Materialised

\* What is counted stays counted.
LEMMA CountedStays ==
  ASSUME NEW H, Shape, Counted, History(H), NEW i \in Members, Position(H, i), Member(i)
  PROVE  Counted'
<1>1. \A j \in Members : Len(calls[j]) \in Nat /\ Payload(j) \in Nat \ {0}
  BY Lengths
\* The calls of the root: what it broadcasts is the plan it holds.
<1>2. \A n \in 1 .. Len(calls'[1]) :
        calls'[1][n].op = "payload" => calls'[1][n].data.bucket_rows \in Nat
  <2>1. CASE calls'[1] = calls[1]
    BY <2>1 DEF Counted
  <2>2. ASSUME NEW op, NEW data, calls'[1] = Append(calls[1], [op |-> op, data |-> data]),
               op = "payload" => data = plan[1]
        PROVE  \A n \in 1 .. Len(calls'[1]) :
                 calls'[1][n].op = "payload" => calls'[1][n].data.bucket_rows \in Nat
    <3>1. PICK call : call = [op |-> op, data |-> data]
      OBVIOUS
    <3>2. /\ Len(calls'[1]) = Len(calls[1]) + 1 /\ calls'[1][Len(calls[1]) + 1] = call
          /\ \A m \in 1 .. Len(calls[1]) : calls'[1][m] = calls[1][m]
      <4>1. IsSequence(calls[1]) /\ calls'[1] = Append(calls[1], call)
        BY <2>2, <3>1, RootIsAMember DEF Shape
      <4> QED
        BY <4>1, AppendOne
    <3>3. call.op = op /\ call.data = data
      BY <3>1
    <3>4. plan[1].bucket_rows \in Nat /\ Len(calls[1]) \in Nat
      BY <1>1, RootIsAMember DEF Counted
    <3> SUFFICES ASSUME NEW n \in 1 .. Len(calls'[1]), calls'[1][n].op = "payload"
                 PROVE  calls'[1][n].data.bucket_rows \in Nat
      OBVIOUS
    <3>5. CASE n \in 1 .. Len(calls[1])
      BY <3>2, <3>5 DEF Counted
    <3>6. CASE n \notin 1 .. Len(calls[1])
      <4>1. n = Len(calls[1]) + 1
        BY <3>2, <3>4, <3>6
      <4>2. op = "payload"
        BY <4>1, <3>2, <3>3
      <4> QED
        BY <4>1, <4>2, <2>2, <3>2, <3>3, <3>4
    <3> QED
      BY <3>5, <3>6
  <2>3. CASE i # 1
    <3>1. calls' = calls \/ \E op, data : Post(i, op, data)
      BY DEF Member, BeforeTokenDispatch, BeforeTokenCombine, MatrixGathered, Summarise, BuildPlan,
             AwaitPlan, LengthKnown, Materialise, StartPayload, EnterWave, LeaveWave, FinishPayload, Raise
    <3>2. calls'[1] = calls[1]
      BY <2>3, <3>1, RootIsAMember DEF Post, Shape
    <3> QED
      BY <3>2, <2>1
  <2>4. CASE i = 1
    <3> DEFINE Broadcasts == \A n \in 1 .. Len(calls'[1]) :
                 calls'[1][n].op = "payload" => calls'[1][n].data.bucket_rows \in Nat
    <3>1. ASSUME NEW op, NEW data, Post(1, op, data), op = "payload" => data = plan[1]
          PROVE  Broadcasts
      <4>1. calls'[1] = Append(calls[1], [op |-> op, data |-> data])
        BY <3>1, RootIsAMember DEF Post, Shape
      <4> QED
        BY <4>1, <3>1, <2>2
    <3>2. calls' = calls => Broadcasts
      BY <2>1
    <3> HIDE DEF Broadcasts
    <3> SUFFICES Broadcasts
      BY DEF Broadcasts
    <3>3. CASE BeforeTokenDispatch(i) \/ BeforeTokenCombine(i) \/ MatrixGathered(i)
      BY <2>4, <3>1, <3>3 DEF BeforeTokenDispatch, BeforeTokenCombine, MatrixGathered, Summarise
    <3>4. CASE BuildPlan(i) \/ AwaitPlan(i) \/ LengthKnown(i)
      BY <2>4, <3>1, <3>2, <3>4 DEF BuildPlan, AwaitPlan, LengthKnown, Raise
    <3>5. CASE EnterWave(i)
      <4>1. \E data : Post(1, "wave", data)
        BY <2>4, <3>5 DEF EnterWave
      <4> QED
        BY <4>1, <3>1
    <3>6. CASE Materialise(i) \/ StartPayload(i) \/ LeaveWave(i) \/ FinishPayload(i)
      BY <3>2, <3>6 DEF Materialise, StartPayload, LeaveWave, FinishPayload, Raise
    <3> QED
      BY <3>3, <3>4, <3>5, <3>6 DEF Member
  <2> QED
    BY <2>3, <2>4
\* The plans: of the buckets of the configuration, or of those of the broadcast.
<1>3. \A j \in Members : plan'[j].bucket_rows \in Nat
  <2>1. CASE \E p : p.bucket_rows \in Nat /\ plan' = [plan EXCEPT ![i] = p]
    <3>1. PICK p : p.bucket_rows \in Nat /\ plan' = [plan EXCEPT ![i] = p]
      BY <2>1
    <3>2. \A j \in Members : plan'[j] = IF j = i THEN p ELSE plan[j]
      BY <3>1 DEF Shape
    <3> QED
      BY <3>1, <3>2 DEF Counted
  <2>2. CASE plan' = plan
    BY <2>2 DEF Counted
  <2>3. CASE Materialise(i)
    <3>1. PICK n : n = Len(calls[i])
      OBVIOUS
    <3>2. n > 0 /\ H[n].op = "payload" /\ n <= Len(calls[1])
      BY <2>3, <3>1, CallReturns DEF Materialise, Ops
    <3>3. n \in 1 .. Len(calls[1])
      BY <3>1, <3>2, <1>1, RootIsAMember
    <3>4. calls[1][n].op = "payload"
      BY <3>2, <3>3, RootIsAMember DEF History
    <3>5. PICK p : p = Materialised(i, calls[1][n].data)
      OBVIOUS
    <3>6. p.bucket_rows \in Nat
      BY <3>3, <3>4, <3>5 DEF Counted, Materialised
    <3>7. plan' = plan \/ plan' = [plan EXCEPT ![i] = p]
      BY <2>3, <3>1, <3>5 DEF Materialise, Raise
    <3> QED
      BY <3>6, <3>7, <2>1, <2>2
  <2>4. CASE BuildPlan(i)
    <3>1. PICK p : p = PlanOf(i)
      OBVIOUS
    <3>2. p.bucket_rows \in Nat
      BY <3>1 DEF PlanOf, Counted
    <3>3. plan' = plan \/ plan' = [plan EXCEPT ![i] = p]
      BY <2>4, <3>1 DEF BuildPlan, Raise
    <3> QED
      BY <3>2, <3>3, <2>1, <2>2
  <2>5. CASE FinishPayload(i)
    <3>1. NoPlan.bucket_rows \in Nat
      BY DEF NoPlan
    <3>2. plan' = [plan EXCEPT ![i] = NoPlan] \/ plan' = plan
      BY <2>5 DEF FinishPayload, Shape
    <3> QED
      BY <3>1, <3>2, <2>1, <2>2
  <2>6. CASE ~(Materialise(i) \/ BuildPlan(i) \/ FinishPayload(i))
    <3>1. plan' = plan
      BY <2>6 DEF Member, BeforeTokenDispatch, BeforeTokenCombine, MatrixGathered, Summarise,
                  AwaitPlan, LengthKnown, StartPayload, EnterWave, LeaveWave
    <3> QED
      BY <3>1, <2>2
  <2> QED
    BY <2>3, <2>4, <2>5, <2>6
<1>4. UNCHANGED <<demand, setup>>
  BY DEF Member, BeforeTokenDispatch, BeforeTokenCombine, MatrixGathered, Summarise, BuildPlan,
         AwaitPlan, LengthKnown, Materialise, StartPayload, EnterWave, LeaveWave, FinishPayload, Raise
\* The last payload ends the layers.
<1>5. \A j \in Members : at'[j] # "done" => Payload(j)' <= Exchange!Payloads
  <2>1. CASE FinishPayload(i)
    <3>1. /\ delivered' = [delivered EXCEPT ![i] = Append(@, output[i])]
          /\ at' = [at EXCEPT ![i] = IF Payload(i) % 3 = 1 THEN "transport"
                                     ELSE IF Payload(i) = Exchange!Payloads THEN "done" ELSE "hook"]
          /\ at[i] = "executing"
      BY <2>1 DEF FinishPayload
    <3>2. Payload(i)' = Payload(i) + 1
      <4>1. delivered'[i] = Append(delivered[i], output[i]) /\ IsSequence(delivered[i])
        BY <3>1 DEF Shape
      <4>2. Len(delivered'[i]) = Len(delivered[i]) + 1
        BY <4>1, AppendOne
      <4> QED
        BY <4>2, Lengths DEF Payload
    <3>3. \A j \in Members \ {i} : at'[j] = at[j] /\ Payload(j)' = Payload(j)
      BY <3>1 DEF Shape, Payload
    <3>4. Exchange!Payloads \in Nat /\ Exchange!Payloads % 3 = 0
      BY SyncAssumption DEF Exchange!Payloads
    <3>5. Payload(i) <= Exchange!Payloads /\ Payload(i) \in Nat
      BY <3>1, <1>1 DEF Counted
    <3>6. at'[i] # "done" => Payload(i) # Exchange!Payloads
      <4>1. at'[i] = IF Payload(i) % 3 = 1 THEN "transport"
                     ELSE IF Payload(i) = Exchange!Payloads THEN "done" ELSE "hook"
        BY <3>1 DEF Shape
      <4> QED
        BY <4>1, <3>4
    <3>7. at'[i] # "done" => Payload(i)' <= Exchange!Payloads
      BY <3>2, <3>4, <3>5, <3>6
    <3> QED
      BY <3>3, <3>7 DEF Counted
  <2>2. CASE ~FinishPayload(i)
    <3>1. /\ UNCHANGED delivered /\ at[i] # "done"
          /\ \E place : at' = [at EXCEPT ![i] = place]
      BY <2>2 DEF Member, BeforeTokenDispatch, BeforeTokenCombine, MatrixGathered, Summarise,
                  BuildPlan, AwaitPlan, LengthKnown, Materialise, StartPayload, EnterWave, LeaveWave, Raise
    <3>2. \A j \in Members : Payload(j)' = Payload(j)
      BY <3>1 DEF Payload
    <3>3. \A j \in Members \ {i} : at'[j] = at[j]
      BY <3>1 DEF Shape
    <3> QED
      BY <3>1, <3>2, <3>3 DEF Counted
  <2> QED
    BY <2>1, <2>2
<1> QED
  BY <1>2, <1>3, <1>4, <1>5 DEF Counted

\* In a group of the ranks 0 .. N-1 the first place is that of rank 0, the planner.
LEMMA RootIsThePlanner == WholeGroup => IsPlanner(1)
<1> SUFFICES ASSUME WholeGroup PROVE IsPlanner(1)
  OBVIOUS
<1>1. /\ N \in Nat /\ N > 1 /\ Members = 1 .. N /\ \A m \in 1 .. N : Group[m] \in Nat /\ Group[m] < N
      /\ \A a, b \in 1 .. N : a < b => Group[a] < Group[b]
  BY SyncAssumption DEF WholeGroup, Members, N
<1>2. \A m \in 1 .. N : Group[m] >= Group[1] + (m - 1)
  <2> DEFINE Low == {m \in 1 .. N : ~(Group[m] >= Group[1] + (m - 1))}
  <2> SUFFICES Low = {}
    OBVIOUS
  <2>1. SUFFICES ASSUME Low # {} PROVE FALSE
    OBVIOUS
  <2>2. PICK m \in Low : \A x \in Low : m <= x
    <3>1. Low \subseteq Nat
      BY <1>1
    <3> QED
      BY <2>1, <3>1, LeastNumber
  <2>3. m \in 1 .. N /\ ~(Group[m] >= Group[1] + (m - 1))
    OBVIOUS
  <2>4. m # 1
    BY <2>3, <1>1
  <2>5. m - 1 \in 1 .. N /\ m - 1 < m
    BY <2>3, <2>4, <1>1
  <2>6. m - 1 \notin Low
    BY <2>2, <2>3, <2>5, <1>1
  <2>7. Group[m - 1] >= Group[1] + ((m - 1) - 1) /\ Group[m - 1] < Group[m]
    BY <2>3, <2>5, <2>6, <1>1
  <2> QED
    BY <2>3, <2>5, <2>7, <1>1
<1>3. N \in 1 .. N /\ 1 \in 1 .. N
  BY <1>1
<1>4. Group[N] >= Group[1] + (N - 1) /\ Group[N] < N /\ Group[1] \in Nat /\ Group[N] \in Nat
  BY <1>1, <1>2, <1>3
<1> QED
  BY <1>1, <1>4 DEF IsPlanner

\* Then the tensor of a summary has all its edges.
LEMMA SummaryIsWhole == ASSUME WholeGroup, NEW i \in Members PROVE Encoded(i) = EdgesFrom(i, Payload(i))
<1>1. Summary(i) = EdgesFrom(i, Payload(i))
  BY DEF Summary, EdgesFrom, Rows
<1>2. \A e \in Summary(i) : e.dst \in Members
  BY DEF Summary
<1> QED
  BY <1>1, <1>2 DEF Encoded, WholeGroup

\* The tasks that the root packs are the buckets of the edges of the phase.
LEMMA TasksOfAPhase ==
  ASSUME Counted, NEW k \in 1 .. Exchange!Payloads, NEW b \in Nat,
         NEW edges, edges = UNION {EdgesFrom(j, k) : j \in Members}
  PROVE  /\ Tasks(edges, b) \subseteq Task /\ IsFiniteSet(Tasks(edges, b))
         /\ \A t \in Tasks(edges, b) :
              t.bucket \in 0 .. Buckets(Exchange!Rows(k, t.src, t.dst), b) - 1
<1>1. \A e \in edges : e.src \in Members /\ e.dst \in Members /\ e.rows \in Nat
  <2> SUFFICES ASSUME NEW j \in Members, NEW e \in EdgesFrom(j, k)
               PROVE  e.src \in Members /\ e.dst \in Members /\ e.rows \in Nat
    OBVIOUS
  <2>1. PICK d \in Members : e = [src |-> j, dst |-> d, rows |-> Exchange!Rows(k, j, d)]
    BY DEF EdgesFrom
  <2>2. Exchange!Rows(k, j, d) \in Nat
    BY RowsAreCounted
  <2> QED
    BY <2>1, <2>2
<1>2. IsFiniteSet(edges)
  <2>1. IsFiniteSet(Members)
    BY RootIsAMember, FS_Interval
  <2>2. ASSUME NEW j \in Members PROVE IsFiniteSet(EdgesFrom(j, k))
    <3>1. PICK f : f = [d \in Members |-> [src |-> j, dst |-> d, rows |-> Exchange!Rows(k, j, d)]]
      OBVIOUS
    <3>2. PICK D : D = {e \in Members \ {j} : Exchange!Rows(k, j, e) > 0}
      OBVIOUS
    <3>3. IsFiniteSet(D)
      <4>1. D \in SUBSET Members
        BY <3>2
      <4> QED
        BY <4>1, <2>1, FS_Subset
    <3>4. IsFiniteSet({f[d] : d \in D})
      BY <3>3, FiniteImage
    <3>5. EdgesFrom(j, k) = {f[d] : d \in D}
      BY <3>1, <3>2 DEF EdgesFrom
    <3> QED
      BY <3>4, <3>5
  <2>3. PICK g : g = [j \in Members |-> EdgesFrom(j, k)]
    OBVIOUS
  <2>4. IsFiniteSet({g[j] : j \in Members}) /\ \A z \in {g[j] : j \in Members} : IsFiniteSet(z)
    <3>1. IsFiniteSet({g[j] : j \in Members})
      BY <2>1, FiniteImage
    <3> QED
      BY <3>1, <2>2, <2>3
  <2>5. IsFiniteSet(UNION {g[j] : j \in Members})
    BY <2>4, FS_UNION
  <2> QED
    BY <2>3, <2>5
<1>3. Tasks(edges, b) \subseteq Task /\ IsFiniteSet(Tasks(edges, b))
  BY <1>1, <1>2, TasksAreFinite
<1>4. ASSUME NEW t \in Tasks(edges, b)
      PROVE  t.bucket \in 0 .. Buckets(Exchange!Rows(k, t.src, t.dst), b) - 1
  <2>1. PICK e \in edges : \E o \in 0 .. Buckets(e.rows, b) - 1 :
                              t = [src |-> e.src, dst |-> e.dst, bucket |-> o]
    BY DEF Tasks
  <2>2. PICK j \in Members : e \in EdgesFrom(j, k)
    OBVIOUS
  <2>3. e.rows = Exchange!Rows(k, e.src, e.dst)
    BY <2>2 DEF EdgesFrom
  <2>4. PICK o \in 0 .. Buckets(e.rows, b) - 1 : t = [src |-> e.src, dst |-> e.dst, bucket |-> o]
    BY <2>1
  <2>5. t.src = e.src /\ t.dst = e.dst /\ t.bucket = o
    BY <2>4
  <2> QED
    BY <2>3, <2>5
<1> QED
  BY <1>3, <1>4

\* The plan of the root has every bucket of every edge in a wave.
LEMMA PlanIsComplete ==
  ASSUME Counted, NEW k \in 1 .. Exchange!Payloads, NEW b \in Nat,
         NEW edges, edges = UNION {EdgesFrom(j, k) : j \in Members}
  PROVE  Complete([bucket_rows |-> b, waves |-> Pack(Tasks(edges, b))], k)
<1>3. Tasks(edges, b) \subseteq Task /\ IsFiniteSet(Tasks(edges, b))
  BY TasksOfAPhase
<1>4. PICK waves : waves = Pack(Tasks(edges, b))
  OBVIOUS
<1>5. waves \in Seq(SUBSET Task) /\ \A t \in Tasks(edges, b) : \E w \in DOMAIN waves : t \in waves[w]
  BY <1>3, <1>4, PackedHasAll
<1>6. ASSUME NEW s \in Members, NEW d \in Members, s # d,
             NEW o \in 0 .. Buckets(Exchange!Rows(k, s, d), b) - 1
      PROVE  [src |-> s, dst |-> d, bucket |-> o] \in Tasks(edges, b)
  <2>1. PICK e : e = [src |-> s, dst |-> d, rows |-> Exchange!Rows(k, s, d)]
    OBVIOUS
  <2>2. Exchange!Rows(k, s, d) \in Nat /\ Exchange!Rows(k, s, d) # 0
    <3>1. Exchange!Rows(k, s, d) \in Nat
      BY RowsAreCounted
    <3>2. o \in Nat /\ o <= Buckets(Exchange!Rows(k, s, d), b) - 1
      OBVIOUS
    <3> QED
      BY <3>1, <3>2 DEF Buckets
  <2>3. e \in EdgesFrom(s, k)
    BY <2>1, <2>2, <1>6 DEF EdgesFrom
  <2>4. e \in edges
    BY <2>3
  <2>5. e.src = s /\ e.dst = d /\ e.rows = Exchange!Rows(k, s, d)
    BY <2>1
  <2>6. [src |-> e.src, dst |-> e.dst, bucket |-> o]
          \in {[src |-> e.src, dst |-> e.dst, bucket |-> x] : x \in 0 .. Buckets(e.rows, b) - 1}
    BY <2>5
  <2> QED
    BY <2>4, <2>5, <2>6 DEF Tasks
<1>7. PICK p : p = [bucket_rows |-> b, waves |-> waves]
  OBVIOUS
<1>8. p.bucket_rows = b /\ p.waves = waves
  BY <1>7
<1>9. Complete(p, k)
  BY <1>5, <1>6, <1>8 DEF Complete
<1> QED
  BY <1>4, <1>7, <1>9

\* It has each of them once, and in a wave an end has one task at most.
LEMMA PlanIsExact ==
  ASSUME Counted, NEW k \in 1 .. Exchange!Payloads, NEW b \in Nat,
         NEW edges, edges = UNION {EdgesFrom(j, k) : j \in Members},
         NEW waves, waves = Pack(Tasks(edges, b))
  PROVE  /\ waves \in Seq(SUBSET Task) /\ Exact(waves)
         /\ \A w \in DOMAIN waves : IsFiniteSet(waves[w]) /\ \A t \in waves[w] :
              t.bucket \in 0 .. Buckets(Exchange!Rows(k, t.src, t.dst), b) - 1
<1>1. PICK T : T = Tasks(edges, b)
  OBVIOUS
<1>2. /\ T \subseteq Task /\ IsFiniteSet(T)
      /\ \A t \in T : t.bucket \in 0 .. Buckets(Exchange!Rows(k, t.src, t.dst), b) - 1
  BY <1>1, TasksOfAPhase
<1>3. /\ waves \in Seq(SUBSET Task) /\ Exact(waves)
      /\ \A w \in DOMAIN waves : waves[w] \subseteq T
  BY <1>1, <1>2, PackedHasAll
<1>4. \A w \in DOMAIN waves : IsFiniteSet(waves[w])
  BY <1>2, <1>3, FS_Subset
<1> QED
  BY <1>2, <1>3, <1>4

\* The planner has collected all the edges of the phase.
LEMMA CollectedIsWhole ==
  ASSUME NEW H, Shape, History(H), NEW i \in Members, Position(H, i),
         at[i] = "summary", MayReturn(i), WholeGroup
  PROVE  Collected(i) = UNION {EdgesFrom(j, Payload(i)) : j \in Members}
<1>1. PICK n : n = Len(calls[i])
  OBVIOUS
<1>2. n > 0 /\ H[n].op = "summary" /\ H[n].k = Payload(i) /\ \A j \in Members : n <= Len(calls[j])
  BY <1>1, CallReturns DEF Ops
<1>3. ASSUME NEW j \in Members
      PROVE  (IF j = i THEN Summary(i) ELSE calls[j][Len(calls[i])].data) = EdgesFrom(j, Payload(i))
  <2>1. Summary(i) = EdgesFrom(i, Payload(i))
    BY DEF Summary, EdgesFrom, Rows
  <2>2. n \in 1 .. Len(calls[j])
    BY <1>1, <1>2, Lengths
  <2>3. Fits(H[n], j, calls[j][n].data)
    BY <2>2 DEF History
  <2>4. calls[j][n].data = EdgesFrom(j, Payload(i))
    BY <2>3, <1>2 DEF Fits
  <2> QED
    BY <2>1, <2>4, <1>1
<1> QED
  BY <1>3 DEF Collected

\* The steps that call a collective.
LEMMA CallsKeepSyncInv ==
  ASSUME NEW H, Shape, Counted, PhasesGathered, History(H),
         \A j \in Members : Position(H, j) /\ Reached(H, j),
         NEW i \in Members, Counted',
         \/ BeforeTokenDispatch(i) \/ BeforeTokenCombine(i) \/ MatrixGathered(i)
         \/ BuildPlan(i) \/ AwaitPlan(i) \/ LengthKnown(i) \/ EnterWave(i)
  PROVE  SyncInv'
<1>1. PICK n : n = Len(calls[i])
  OBVIOUS
<1>2. PICK e : e = Ahead(H, n)
  OBVIOUS
<1>3. n \in Nat /\ Payload(i) \in Nat \ {0} /\ Position(H, i)
  BY <1>1, Lengths
\* The summary of a phase has come from all.
<1>4. ASSUME at[i] = "summary", MayReturn(i)
      PROVE  \A j \in Members : PhaseNumber(Payload(i)) <= PhaseNumber(Payload(j))
  <2> SUFFICES ASSUME NEW j \in Members PROVE PhaseNumber(Payload(i)) <= PhaseNumber(Payload(j))
    OBVIOUS
  <2>1. n > 0 /\ H[n].k = Payload(i) /\ n <= Len(calls[j])
    BY <1>1, <1>3, <1>4, CallReturns DEF Ops
  <2>2. n \in 1 .. Len(calls[j])
    BY <2>1, <1>3, Lengths
  <2>3. Payload(i) <= Payload(j)
    BY <2>1, <2>2, <1>3, Lengths DEF Reached
  <2> QED
    BY <2>3, Lengths, PhasesAreOrdered
\* A call keeps the invariant when it is what is ahead.
<1>5. ASSUME NEW op \in Ops, NEW data, Post(i, op, data), at[i] # "payload",
             at' = [at EXCEPT ![i] = op], e.op = op, e.k = Payload(i), Fits(e, i, data),
             op = "wave" => e.w = wave[i] /\ Holds(i, e.plan) /\ plan' = plan,
             op = "length" /\ WholeGroup /\ i = 1 => Complete(plan'[i], Payload(i)),
             op \in Moving => at[i] \in Moving \/ (at[i] = "summary" /\ MayReturn(i)),
             plan' = plan \/ plan' = [plan EXCEPT ![i] = PlanOf(i)],
             UNCHANGED <<demand, setup, wave, delivered>>
      PROVE  SyncInv'
  <2>1. plan' = [plan EXCEPT ![i] = plan'[i]]
    BY <1>5 DEF Shape
  <2>2. op \in Moving => \/ at[i] \in Moving
                        \/ \A j \in Members : PhaseNumber(Payload(i)) <= PhaseNumber(Payload(j))
    BY <1>4, <1>5
  <2> QED
    BY <2>1, <2>2, <1>1, <1>2, <1>5, CallKeeps
<1>6. ASSUME BeforeTokenDispatch(i) PROVE SyncInv'
  <2>1. e = Opening(Payload(i)) /\ Exchange!PhaseOf(Payload(i)) = "P0"
    BY <1>1, <1>2, <1>3, <1>6 DEF BeforeTokenDispatch, Position
  <2>2. e.op = "matrix" /\ e.k = Payload(i)
    BY <2>1 DEF Opening
  <2>3. Fits(e, i, {})
    BY <2>2 DEF Fits
  <2> QED
    BY <2>2, <2>3, <1>5, <1>6 DEF BeforeTokenDispatch, Ops, Moving
<1>7. ASSUME BeforeTokenCombine(i) PROVE SyncInv'
  <2>1. e = Opening(Payload(i)) /\ Exchange!PhaseOf(Payload(i)) = "P1"
    BY <1>1, <1>2, <1>3, <1>7 DEF BeforeTokenCombine, Position
  <2>2. e.op = "summary" /\ e.k = Payload(i)
    BY <2>1 DEF Opening
  <2>3. Fits(e, i, Encoded(i))
    BY <2>2, SummaryIsWhole DEF Fits
  <2> QED
    BY <2>2, <2>3, <1>5, <1>7 DEF BeforeTokenCombine, Summarise, Ops, Moving
<1>8. ASSUME MatrixGathered(i) PROVE SyncInv'
  <2>1. n > 0 /\ H[n].op = "matrix" /\ H[n].k = Payload(i)
    BY <1>1, <1>3, <1>8 DEF MatrixGathered, Position
  <2>2. e.op = "summary" /\ e.k = Payload(i)
    BY <2>1, <1>2, <1>3, AgreementGoesOn DEF Agreement
  <2>3. Fits(e, i, Encoded(i))
    BY <2>2, SummaryIsWhole DEF Fits
  <2> QED
    BY <2>2, <2>3, <1>5, <1>8 DEF MatrixGathered, Summarise, Ops, Moving
<1>9. ASSUME AwaitPlan(i) PROVE SyncInv'
  <2>1. n > 0 /\ H[n].op = "summary" /\ H[n].k = Payload(i)
    BY <1>1, <1>3, <1>9 DEF AwaitPlan, Position
  <2>2. e.op = "length" /\ e.k = Payload(i)
    BY <2>1, <1>2, <1>3, AgreementGoesOn DEF Agreement
  <2>3. Fits(e, i, 0)
    BY <2>2 DEF Fits
  <2>4. ~(WholeGroup /\ i = 1)
    BY <1>9, RootIsThePlanner DEF AwaitPlan
  <2> QED
    BY <2>2, <2>3, <2>4, <1>5, <1>9 DEF AwaitPlan, Ops
<1>10. ASSUME LengthKnown(i) PROVE SyncInv'
  <2>1. n > 0 /\ H[n].op = "length" /\ H[n].k = Payload(i)
    BY <1>1, <1>3, <1>10 DEF LengthKnown, Position
  <2>2. e.op = "payload" /\ e.k = Payload(i)
    BY <2>1, <1>2, <1>3, AgreementGoesOn DEF Agreement
  <2>3. Fits(e, i, plan[i])
    BY <2>2, <1>3, <1>10 DEF LengthKnown, Position, Fits
  <2> QED
    BY <2>2, <2>3, <1>5, <1>10 DEF LengthKnown, Ops, Moving
<1>11. ASSUME EnterWave(i) PROVE SyncInv'
  <2>1. PICK p : /\ wave[i] \in Nat /\ wave[i] > 0
                 /\ Holds(i, p) /\ e = AfterWave(Payload(i), wave[i] - 1, p)
    BY <1>1, <1>2, <1>3, <1>11 DEF EnterWave, Position, Shape
  <2>2. wave[i] - 1 + 1 = wave[i] /\ wave[i] \in DOMAIN p.waves
    BY <2>1, <1>11, MaterialisedWaves DEF EnterWave, Holds
  <2>3. e = [op |-> "wave", k |-> Payload(i), w |-> wave[i], plan |-> p]
    BY <2>1, <2>2 DEF AfterWave
  <2>4. PICK data : /\ Post(i, "wave", data)
                    /\ \A m \in Members :
                         LET Edge(s, d) == {t \in plan[i].waves[wave[i]] : t.src = s /\ t.dst = d}
                         IN data.send[m] = Packed(i, Edge(i, m)) /\ data.recv[m] = Expected(i, Edge(m, i))
    <3> DEFINE Edge(s, d) == {t \in plan[i].waves[wave[i]] : t.src = s /\ t.dst = d}
    <3>1. PICK data : data = [send |-> [d \in Members |-> Packed(i, Edge(i, d))],
                              recv |-> [s \in Members |-> Expected(i, Edge(s, i))]]
      OBVIOUS
    <3>2. Post(i, "wave", data)
      BY <3>1, <1>11 DEF EnterWave
    <3> QED
      BY <3>1, <3>2
  <2>5. Payload(i) \in 1 .. Exchange!Payloads
    <3>1. Payload(i) <= Exchange!Payloads
      BY <1>11 DEF EnterWave, Counted
    <3> QED
      BY <3>1, <1>3, SyncAssumption DEF Exchange!Payloads
  <2>6. Fits(e, i, data)
    <3> SUFFICES ASSUME NEW m \in Members
                 PROVE  /\ Carries(e, m, i, data.recv[m]) /\ Carries(e, i, m, Len(data.send[m]))
                        /\ Moves(e, i, m, data.send[m])
      BY <2>3 DEF Fits
    <3>1. Carries(e, m, i, data.recv[m])
      <4>1. PICK T : T = {t \in plan[i].waves[wave[i]] : t.src = m /\ t.dst = i}
        OBVIOUS
      <4>2. Carries(e, m, i, Expected(i, T))
        BY <4>1, <2>1, <2>2, <2>3, <2>5, WaveFits
      <4> QED
        BY <4>1, <4>2, <2>4
    <3>2. Carries(e, i, m, Len(data.send[m])) /\ Moves(e, i, m, data.send[m])
      <4>1. PICK T : T = {t \in plan[i].waves[wave[i]] : t.src = i /\ t.dst = m}
        OBVIOUS
      <4>2. Carries(e, i, m, Len(Packed(i, T))) /\ Moves(e, i, m, Packed(i, T))
        BY <4>1, <2>1, <2>2, <2>3, <2>5, WaveFits
      <4> QED
        BY <4>1, <4>2, <2>4
    <3> QED
      BY <3>1, <3>2
  <2> QED
    BY <2>1, <2>3, <2>4, <2>6, <1>5, <1>11 DEF EnterWave, Ops, Moving
<1>12. ASSUME BuildPlan(i) PROVE SyncInv'
  <2>1. n > 0 /\ H[n].op = "summary" /\ H[n].k = Payload(i)
    BY <1>1, <1>3, <1>12 DEF BuildPlan, Position
  <2>2. e.op = "length" /\ e.k = Payload(i)
    BY <2>1, <1>2, <1>3, AgreementGoesOn DEF Agreement
  <2>3. CASE i = 1 /\ Validates(i, PlanOf(i))
    <3>1. Fits(e, i, Numel(PlanOf(i)))
      BY <2>2 DEF Fits
    <3>2. Payload(i) \in 1 .. Exchange!Payloads
      <4>1. Payload(i) <= Exchange!Payloads
        BY <1>12 DEF BuildPlan, Counted
      <4> QED
        BY <4>1, <1>3, SyncAssumption DEF Exchange!Payloads
    <3>3. WholeGroup => Collected(i) = UNION {EdgesFrom(j, Payload(i)) : j \in Members}
      BY <1>3, <1>12, CollectedIsWhole DEF BuildPlan
    <3>4. WholeGroup => Complete(PlanOf(i), Payload(i))
      <4>1. setup.bucket_rows \in Nat
        BY DEF Counted
      <4> QED
        BY <4>1, <3>2, <3>3, PlanIsComplete DEF PlanOf
    <3>5. /\ plan' = [plan EXCEPT ![i] = PlanOf(i)] /\ Post(i, "length", Numel(PlanOf(i)))
          /\ at' = [at EXCEPT ![i] = "length"] /\ UNCHANGED <<demand, setup, wave, delivered>>
          /\ at[i] = "summary" /\ MayReturn(i)
      BY <2>3, <1>12 DEF BuildPlan
    <3>6. plan'[i] = PlanOf(i)
      BY <3>5 DEF Shape
    <3> QED
      BY <2>2, <3>1, <3>4, <3>5, <3>6, <1>5 DEF Ops
  <2>4. CASE ~(i = 1 /\ Validates(i, PlanOf(i)))
    <3>1. Raise(i) /\ at[i] = "summary"
      BY <2>4, <1>12 DEF BuildPlan
    <3>2. at' = [at EXCEPT ![i] = "raised"] /\ UNCHANGED <<demand, setup, calls, plan, wave, delivered>>
      BY <3>1 DEF Raise
    <3>3. Position(H, i)'
      BY <3>2 DEF Position, Shape
    <3>4. plan' = [plan EXCEPT ![i] = plan'[i]] /\ wave' = [wave EXCEPT ![i] = wave'[i]] /\ wave'[i] \in Nat
      BY <3>2 DEF Shape
    <3> QED
      BY <3>1, <3>2, <3>3, <3>4, RestKeeps DEF Places, Moving
  <2> QED
    BY <2>3, <2>4
<1> QED
  BY <1>6, <1>7, <1>8, <1>9, <1>10, <1>11, <1>12

\* The steps between the collectives.
LEMMA RestsKeepSyncInv ==
  ASSUME NEW H, Shape, Counted, PhasesGathered, History(H),
         \A j \in Members : Position(H, j) /\ Reached(H, j),
         NEW i \in Members, Counted',
         Materialise(i) \/ StartPayload(i) \/ LeaveWave(i) \/ FinishPayload(i)
  PROVE  SyncInv'
<1>1. PICK n : n = Len(calls[i])
  OBVIOUS
<1>2. n \in Nat /\ Payload(i) \in Nat \ {0} /\ Position(H, i)
  BY <1>1, Lengths
<1>3. UNCHANGED calls => n = Len(calls'[i]) /\ Ahead(H, n)' = Ahead(H, n)
  BY <1>1 DEF Ahead
<1>4. delivered' = delivered => Payload(i)' = Payload(i)
  BY DEF Payload
<1>9. (\A a, b : Rows(i, a, b)' = Rows(i, a, b)) /\ plan'[i] = plan[i] =>
        \A p : Holds(i, p) => Holds(i, p)'
  BY HoldsStays
<1>10. UNCHANGED <<demand, delivered>> => \A a, b : Rows(i, a, b)' = Rows(i, a, b)
  BY <1>4, RowsStay DEF Rows
<1>5. ASSUME Materialise(i) PROVE SyncInv'
  <2>1. n > 0 /\ H[n].op = "payload" /\ H[n].k = Payload(i) /\ n <= Len(calls[1])
    BY <1>1, <1>2, <1>5, CallReturns DEF Materialise, Ops
  <2>2. PICK p : p = calls[1][n].data
    OBVIOUS
  <2>3. Ahead(H, n) = AfterWave(Payload(i), 0, p)
    BY <2>1, <2>2, <1>2, AgreementGoesOn
  <2>7. p.bucket_rows \in Nat /\ (WholeGroup => Complete(p, Payload(i)))
    <3>1. n \in 1 .. Len(calls[1])
      BY <2>1, <1>2, RootIsAMember, Lengths
    <3>2. calls[1][n].op = "payload" /\ Fits(H[n], 1, calls[1][n].data)
      BY <3>1, <2>1, RootIsAMember DEF History
    <3>3. WholeGroup => Complete(p, Payload(i))
      BY <3>2, <2>1, <2>2 DEF Fits
    <3> QED
      BY <3>1, <3>2, <3>3, <2>2 DEF Counted
  <2>4. \/ /\ plan' = [plan EXCEPT ![i] = Materialised(i, p)] /\ at' = [at EXCEPT ![i] = "transport"]
           /\ Validates(i, Materialised(i, p))
           /\ UNCHANGED <<demand, setup, calls, wave, delivered>>
        \/ Raise(i)
    BY <2>2, <1>1, <1>5 DEF Materialise
  <2>5. CASE /\ plan' = [plan EXCEPT ![i] = Materialised(i, p)] /\ at' = [at EXCEPT ![i] = "transport"]
             /\ Validates(i, Materialised(i, p))
             /\ UNCHANGED <<demand, setup, calls, wave, delivered>>
    <3>1. Holds(i, p)'
      <4>1. plan'[i] = Materialised(i, p)
        BY <2>5 DEF Shape
      <4>2. Materialised(i, p)' = Materialised(i, p)
        BY <2>5, <1>10, MaterialisedStays
      <4>3. \A w \in DOMAIN p.waves : \A t, u \in plan'[i].waves[w] :
              t # u => t.src # u.src /\ t.dst # u.dst
        BY <4>1, <2>5, MaterialisedWaves DEF Validates
      <4>4. WholeGroup' => Complete(p, Payload(i))'
        <5>1. WholeGroup' = WholeGroup
          BY DEF WholeGroup
        <5>2. \A a, b : Exchange!Rows(Payload(i), a, b)' = Exchange!Rows(Payload(i), a, b)
          BY <2>5, <1>10 DEF Rows
        <5>3. Complete(p, Payload(i)) => Complete(p, Payload(i))'
          BY <5>2 DEF Complete
        <5> QED
          BY <5>1, <5>3, <2>7
      <4> QED
        BY <4>1, <4>2, <4>3, <4>4, <2>7 DEF Holds
    <3>2. at'[i] = "transport"
      BY <2>5 DEF Shape
    <3>3. Position(H, i)'
      BY <3>1, <3>2, <2>3, <2>5, <1>3, <1>4 DEF Position
    <3>4. /\ plan' = [plan EXCEPT ![i] = plan'[i]] /\ wave' = [wave EXCEPT ![i] = wave'[i]]
          /\ wave'[i] \in Nat
      BY <2>5 DEF Shape
    <3>5. at[i] = "payload"
      BY <1>5 DEF Materialise
    <3> QED
      BY <3>3, <3>4, <3>5, <2>1, <2>5, <1>1, <1>4, RestKeeps DEF Places, Moving
  <2>6. CASE Raise(i)
    <3>1. at' = [at EXCEPT ![i] = "raised"] /\ UNCHANGED <<demand, setup, calls, plan, wave, delivered>>
      BY <2>6 DEF Raise
    <3>2. Position(H, i)'
      BY <3>1 DEF Position, Shape
    <3>3. /\ plan' = [plan EXCEPT ![i] = plan'[i]] /\ wave' = [wave EXCEPT ![i] = wave'[i]]
          /\ wave'[i] \in Nat
      BY <3>1 DEF Shape
    <3> QED
      BY <3>1, <3>2, <3>3, <2>1, <1>1, RestKeeps DEF Places, Moving
  <2> QED
    BY <2>4, <2>5, <2>6
<1>6. ASSUME StartPayload(i) PROVE SyncInv'
  <2>1. /\ at[i] = "transport" /\ at' = [at EXCEPT ![i] = "executing"] /\ wave' = [wave EXCEPT ![i] = 1]
        /\ UNCHANGED <<demand, setup, calls, plan, delivered>>
    BY <1>6 DEF StartPayload
  <2>2. at'[i] = "executing" /\ wave'[i] = 1
    BY <2>1 DEF Shape
  <2>3. PICK p : Holds(i, p) /\ Ahead(H, n) = AfterWave(Payload(i), 0, p)
    BY <2>1, <1>1, <1>2 DEF Position
  <2>4. wave'[i] - 1 = 0 /\ wave'[i] > 0 /\ Holds(i, p)'
    BY <2>1, <2>2, <2>3, <1>9, <1>10
  <2>5. Position(H, i)'
    BY <2>1, <2>2, <2>3, <2>4, <1>3, <1>4 DEF Position
  <2>6. plan' = [plan EXCEPT ![i] = plan'[i]] /\ wave' = [wave EXCEPT ![i] = wave'[i]] /\ wave'[i] \in Nat
    BY <2>1, <2>2 DEF Shape
  <2> QED
    BY <2>1, <2>5, <2>6, <1>4, RestKeeps DEF Places, Moving
<1>7. ASSUME LeaveWave(i) PROVE SyncInv'
  <2>1. /\ at[i] = "wave" /\ at' = [at EXCEPT ![i] = "executing"]
        /\ wave' = [wave EXCEPT ![i] = @ + 1] /\ UNCHANGED <<demand, setup, calls, plan, delivered>>
    BY <1>7 DEF LeaveWave
  <2>2. wave[i] \in Nat /\ wave'[i] = wave[i] + 1 /\ at'[i] = "executing"
    BY <2>1 DEF Shape
  <2>3. /\ n > 0 /\ H[n].op = "wave" /\ H[n].k = Payload(i)
        /\ H[n].w = wave[i] /\ Holds(i, H[n].plan)
    BY <2>1, <1>1, <1>2 DEF Position
  <2>4. PICK p : p = H[n].plan
    OBVIOUS
  <2>5. Ahead(H, n) = AfterWave(Payload(i), wave[i], p)
    BY <2>3, <2>4, <1>2, AgreementGoesOn
  <2>6. wave'[i] - 1 = wave[i] /\ wave'[i] > 0 /\ Holds(i, p)'
    BY <2>1, <2>2, <2>3, <2>4, <1>9, <1>10
  <2>7. Position(H, i)'
    BY <2>1, <2>2, <2>5, <2>6, <1>3, <1>4 DEF Position
  <2>8. plan' = [plan EXCEPT ![i] = plan'[i]] /\ wave' = [wave EXCEPT ![i] = wave'[i]] /\ wave'[i] \in Nat
    BY <2>1, <2>2 DEF Shape
  <2> QED
    BY <2>1, <2>7, <2>8, <1>4, RestKeeps DEF Places, Moving
<1>8. ASSUME FinishPayload(i) PROVE SyncInv'
  <2>1. PICK place : place = IF Payload(i) % 3 = 1 THEN "transport"
                             ELSE IF Payload(i) = Exchange!Payloads THEN "done" ELSE "hook"
    OBVIOUS
  <2>2. /\ at[i] = "executing" /\ wave[i] \notin DOMAIN plan[i].waves /\ at' = [at EXCEPT ![i] = place]
        /\ plan' = [plan EXCEPT ![i] = IF Payload(i) % 3 # 1 THEN NoPlan ELSE @]
        /\ delivered' = [delivered EXCEPT ![i] = Append(@, output[i])]
        /\ wave' = [wave EXCEPT ![i] = 0] /\ UNCHANGED <<demand, setup, calls>>
    BY <2>1, <1>8 DEF FinishPayload
  <2>3. at'[i] = place /\ wave'[i] = 0
    BY <2>2 DEF Shape
  <2>4. Payload(i)' = Payload(i) + 1
    <3>1. delivered'[i] = Append(delivered[i], output[i]) /\ IsSequence(delivered[i])
      BY <2>2 DEF Shape
    <3>2. Len(delivered'[i]) = Len(delivered[i]) + 1
      BY <3>1, AppendOne
    <3> QED
      BY <3>2, Lengths DEF Payload
  <2>5. PICK p : wave[i] \in Nat /\ Holds(i, p) /\ Ahead(H, n) = AfterWave(Payload(i), wave[i] - 1, p)
    BY <2>2, <1>1, <1>2 DEF Position, Shape
  <2>6. wave[i] - 1 + 1 = wave[i] /\ wave[i] \notin DOMAIN p.waves
    BY <2>2, <2>5, MaterialisedWaves DEF Holds
  <2>9. Payload(i) % 3 = 1 => PhaseNumber(Payload(i)') = PhaseNumber(Payload(i))
    BY <2>4, <1>2, PhasesAreOrdered
  <2>7. Position(H, i)'
    <3>1. CASE Payload(i) % 3 = 1
      <4>1. place = "transport" /\ plan'[i] = plan[i]
        BY <3>1, <2>1, <2>2 DEF Shape
      <4>2. Ahead(H, n) = IF 1 \in DOMAIN p.waves
                          THEN [op |-> "wave", k |-> Payload(i) + 1, w |-> 1, plan |-> p]
                          ELSE Opening(Payload(i) + 2)
        BY <3>1, <2>5, <2>6 DEF AfterWave
      <4>3. /\ (Payload(i) + 1) % 3 # 1 /\ Payload(i) + 1 + 1 = Payload(i) + 2 /\ 0 + 1 = 1
        BY <3>1, <1>2
      <4>4. Ahead(H, n) = AfterWave(Payload(i) + 1, 0, p)
        BY <4>2, <4>3 DEF AfterWave
      <4>5. \A a, b : Rows(i, a, b)' = Rows(i, a, b)
        <5>1. PICK k : k = Payload(i)
          OBVIOUS
        <5>2. PhaseNumber(k + 1) = PhaseNumber(k) /\ k \in Nat \ {0} /\ k + 1 \in Nat \ {0}
          BY <5>1, <3>1, <2>4, <2>9, <1>2
        <5>3. \A a, b : Exchange!Rows(k + 1, a, b) = Exchange!Rows(k, a, b)
          BY <5>2, PhaseOfNumber DEF Exchange!Rows
        <5>4. \A a, b : Exchange!Rows(k + 1, a, b)' = Exchange!Rows(k + 1, a, b)
          BY <2>2, RowsStay
        <5> QED
          BY <5>1, <5>3, <5>4, <2>4 DEF Rows
      <4>6. Holds(i, p)'
        BY <4>1, <4>5, <2>5, <1>9
      <4> QED
        BY <4>1, <4>4, <4>6, <2>2, <2>3, <2>4, <1>3 DEF Position
    <3>2. CASE Payload(i) % 3 # 1
      <4>1. place \in {"done", "hook"}
        BY <3>2, <2>1
      <4>2. Ahead(H, n) = Opening(Payload(i) + 1)
        BY <3>2, <2>5, <2>6 DEF AfterWave
      <4> QED
        BY <4>1, <4>2, <2>2, <2>3, <2>4, <1>3 DEF Position
    <3> QED
      BY <3>1, <3>2
  <2>8. plan' = [plan EXCEPT ![i] = plan'[i]] /\ wave' = [wave EXCEPT ![i] = wave'[i]] /\ wave'[i] \in Nat
    BY <2>2, <2>3 DEF Shape
  <2>10. /\ place \in Places /\ place # "payload"
         /\ place \in Moving => PhaseNumber(Payload(i)') = PhaseNumber(Payload(i))
    BY <2>1, <2>9 DEF Places, Moving
  <2> QED
    BY <2>2, <2>7, <2>8, <2>10, RestKeeps DEF Places, Moving
<1> QED
  BY <1>5, <1>6, <1>7, <1>8

----------------------------------------------------------------------------
(* The theorems. *)

\* Whatever the demand, the plans and the order of the steps, the members are at
\* places of one history of collectives.
THEOREM SyncInvariant == SyncSpec => []SyncInv
<1>1. SyncInv /\ [Next]_vars => SyncInv'
  <2> SUFFICES ASSUME SyncInv, [Next]_vars PROVE SyncInv'
    OBVIOUS
  <2>1. PICK H : History(H) /\ \A j \in Members : Position(H, j) /\ Reached(H, j)
    BY DEF SyncInv
  <2>2. Shape /\ Counted /\ PhasesGathered
    BY DEF SyncInv
  <2>3. CASE Next
    <3>1. PICK i \in Members : Member(i)
      BY <2>3 DEF Next
    <3>2. Counted'
      BY <3>1, <2>1, <2>2, CountedStays
    <3> QED
      BY <3>1, <3>2, <2>1, <2>2, CallsKeepSyncInv, RestsKeepSyncInv DEF Member
  <2>4. CASE UNCHANGED vars
    <3>1. UNCHANGED <<demand, setup, calls, at, plan, wave, delivered>>
      BY <2>4 DEF vars
    <3>2. \A n : Ahead(H, n)' = Ahead(H, n)
      BY <3>1 DEF Ahead
    <3>3. \A j : Payload(j)' = Payload(j)
      BY <3>1 DEF Payload
    <3>7. \A j, p : Holds(j, p) => Holds(j, p)'
      <4>1. \A j, s, d : Rows(j, s, d)' = Rows(j, s, d)
        BY <3>1, <3>3, RowsStay DEF Rows
      <4> QED
        BY <4>1, <3>1, HoldsStays
    <3>8. \A j, n, m : Fits(H[n], j, calls[j][m].data) => Fits(H[n], j, calls[j][m].data)'
      <4> SUFFICES ASSUME NEW j, NEW n, NEW m, Fits(H[n], j, calls[j][m].data)
                   PROVE  Fits(H[n], j, calls[j][m].data)'
        OBVIOUS
      <4>1. PICK c : c = calls[j][m].data
        OBVIOUS
      <4>2. Fits(H[n], j, c)'
        BY <4>1, <3>1, FitsStays
      <4> QED
        BY <4>1, <4>2, <3>1
    <3>4. Shape' /\ Counted' /\ PhasesGathered'
      BY <3>1, <3>3, <2>2 DEF Shape, Counted, PhasesGathered
    <3>5. History(H)'
      BY <3>1, <3>2, <3>8, <2>1 DEF History
    <3>6. ASSUME NEW j \in Members PROVE Position(H, j)' /\ Reached(H, j)'
      <4>1. PICK n : n = Len(calls[j])
        OBVIOUS
      <4>2. /\ WholeGroup' = WholeGroup
            /\ Complete(plan[j], Payload(j)) => Complete(plan[j], Payload(j))'
        <5>1. \A s, d : Rows(j, s, d)' = Rows(j, s, d)
          BY <3>1, <3>3, RowsStay DEF Rows
        <5> QED
          BY <5>1, <3>1, RootPlanStays DEF WholeGroup
      <4> QED
        BY <4>1, <4>2, <3>1, <3>2, <3>3, <3>7, <2>1 DEF Position, Reached
    <3> QED
      BY <3>4, <3>5, <3>6 DEF SyncInv
  <2> QED
    BY <2>3, <2>4
<1> QED
  BY <1>1, SyncStarts, PTL DEF SyncSpec

\* The n-th collective of a member meets a collective of the same kind, however far it
\* has run ahead; and in a wave it waits for as many rows of each other as that one sends.
THEOREM CollectivesMeet == SyncSpec => []CollectivesAgree
<1>1. SyncInv => CollectivesAgree
  <2> SUFFICES ASSUME SyncInv, NEW i \in Members, NEW j \in Members,
                      NEW n \in DOMAIN calls[i] \cap DOMAIN calls[j]
               PROVE  /\ calls[i][n].op = calls[j][n].op
                      /\ calls[i][n].op = "wave" =>
                           calls[i][n].data.recv[j] = Len(calls[j][n].data.send[i])
    BY DEF CollectivesAgree
  <2>1. PICK H : History(H)
    BY DEF SyncInv
  <2>2. IsSequence(calls[i]) /\ IsSequence(calls[j])
    BY DEF SyncInv, Shape
  <2>3. n \in 1 .. Len(calls[i]) /\ n \in 1 .. Len(calls[j])
    BY <2>2 DEF IsSequence
  <2>4. calls[i][n].op = H[n].op /\ calls[j][n].op = H[n].op
    BY <2>1, <2>3 DEF History
  <2>5. ASSUME calls[i][n].op = "wave"
        PROVE  calls[i][n].data.recv[j] = Len(calls[j][n].data.send[i])
    <3>1. Fits(H[n], i, calls[i][n].data) /\ Fits(H[n], j, calls[j][n].data)
      BY <2>1, <2>3, <2>4, <2>5 DEF History
    <3>2. /\ Carries(H[n], j, i, calls[i][n].data.recv[j])
          /\ Carries(H[n], j, i, Len(calls[j][n].data.send[i]))
      BY <3>1, <2>4, <2>5 DEF Fits
    <3>3. ASSUME NEW h, NEW x, NEW y, Carries(h, j, i, x), Carries(h, j, i, y) PROVE x = y
      BY <3>3 DEF Carries
    <3> QED
      BY <3>2, <3>3
  <2> QED
    BY <2>4, <2>5
<1> QED
  BY <1>1, SyncInvariant, PTL

\* Two members that move rows at a time move rows of one phase of one layer.
THEOREM PhasesAreSeparate == SyncSpec => []PhasesDoNotOverlap
<1>1. SyncInv => PhasesDoNotOverlap
  <2> SUFFICES ASSUME SyncInv, NEW i \in Members, NEW j \in Members, at[i] = "wave", at[j] = "wave"
               PROVE  /\ Exchange!PhaseOf(Payload(i)) = Exchange!PhaseOf(Payload(j))
                      /\ (Payload(i) - 1) \div 3 = (Payload(j) - 1) \div 3
    BY DEF PhasesDoNotOverlap
  <2>1. Payload(i) \in Nat \ {0} /\ Payload(j) \in Nat \ {0}
    BY Lengths DEF SyncInv
  <2>2. /\ PhaseNumber(Payload(i)) <= PhaseNumber(Payload(j))
        /\ PhaseNumber(Payload(j)) <= PhaseNumber(Payload(i))
    BY DEF SyncInv, PhasesGathered, Moving
  <2>3. PhaseNumber(Payload(i)) \in Nat /\ PhaseNumber(Payload(j)) \in Nat
    <3>1. \A k \in Nat \ {0} : PhaseNumber(k) \in Nat
      BY DEF PhaseNumber
    <3> QED
      BY <2>1, <3>1
  <2>4. PhaseNumber(Payload(i)) = PhaseNumber(Payload(j))
    BY <2>2, <2>3
  <2> QED
    BY <2>1, <2>4, PhaseOfNumber
<1> QED
  BY <1>1, SyncInvariant, PTL
----------------------------------------------------------------------------
(* The tensors of a whole group are those of the native exchange. *)

\* The row y that s sends to i in the payload of i: whether it has come, and its place
Arrived(i, s, y) ==
  \/ s = i
  \/ \E v \in DOMAIN plan[i].waves : v < wave[i] /\ \E t \in plan[i].waves[v] :
       /\ t.src = s /\ t.dst = i
       /\ t.bucket = (y - 1) \div StepOf(Rows(i, s, i), plan[i].bucket_rows)
PlaceOf(i, s, y) == Total(Coming(Payload(i), i), 1 .. s - 1) + y

\* What has come to a member that executes is at its place, and its sender has come to
\* the payload.
Receives(i) ==
  at[i] \in {"executing", "wave"} =>
    /\ output[i] = [q \in 1 .. Total(Coming(Payload(i), i), 1 .. N) |-> output[i][q]]
    /\ at[i] = "wave" => wave[i] \in DOMAIN plan[i].waves
    /\ \A s \in Members : \A y \in 1 .. Rows(i, s, i) :
         Arrived(i, s, y) => /\ output[i][PlaceOf(i, s, y)] = <<Payload(i), s, i, y>>
                             /\ Payload(i) <= Payload(s)
OutputInv == output = [i \in Members |-> output[i]] /\ \A i \in Members : Receives(i)

\* A member that is not done is at a payload of the layers.
LEMMA PayloadIsOfALayer ==
  ASSUME Shape, Counted, NEW i \in Members, at[i] # "done"
  PROVE  Payload(i) \in 1 .. Exchange!Payloads
<1>1. Payload(i) <= Exchange!Payloads
  BY DEF Counted
<1>2. Payload(i) \in Nat \ {0}
  BY Lengths
<1>3. Exchange!Payloads \in Nat
  BY SyncAssumption DEF Exchange!Payloads
<1> QED
  BY <1>1, <1>2, <1>3

\* Every place of the output is that of one row.
LEMMA RowsHavePlaces ==
  ASSUME Counted, NEW i \in Members, Payload(i) \in 1 .. Exchange!Payloads
  PROVE  /\ \A s \in Members : Rows(i, s, i) \in Nat /\ Total(Coming(Payload(i), i), 1 .. s - 1) \in Nat
         /\ \A s \in Members : \A y \in 1 .. Rows(i, s, i) :
              PlaceOf(i, s, y) \in 1 .. Total(Coming(Payload(i), i), 1 .. N)
         /\ \A q \in 1 .. Total(Coming(Payload(i), i), 1 .. N) : \E s \in Members :
              \E y \in 1 .. Rows(i, s, i) : q = PlaceOf(i, s, y)
         /\ \A s, r \in Members : \A y \in 1 .. Rows(i, s, i) : \A z \in 1 .. Rows(i, r, i) :
              PlaceOf(i, s, y) = PlaceOf(i, r, z) => s = r /\ y = z
<1>1. PICK L : L = Coming(Payload(i), i)
  OBVIOUS
<1>2. Coming(Payload(i), i) \in [1 .. N -> Nat]
  BY SplitsAreCounted
<1>3. \A m \in Members : Coming(Payload(i), i)[m] = Exchange!Rows(Payload(i), m, i)
  BY SplitsAreCounted
<1>4. L \in [1 .. N -> Nat] /\ N \in Nat /\ Members = 1 .. N
  BY <1>1, <1>2, RootIsAMember
<1>5. \A m \in Members : L[m] = Rows(i, m, i)
  BY <1>1, <1>3 DEF Rows
<1>6. \A s, y : PlaceOf(i, s, y) = Total(L, 1 .. s - 1) + y
  BY <1>1 DEF PlaceOf
<1>7. /\ \A d \in 1 .. N : \A y \in 1 .. L[d] : Total(L, 1 .. d - 1) + y \in 1 .. Total(L, 1 .. N)
      /\ \A q \in 1 .. Total(L, 1 .. N) : \E d \in 1 .. N : \E y \in 1 .. L[d] :
           q = Total(L, 1 .. d - 1) + y
      /\ \A d, e \in 1 .. N : \A y \in 1 .. L[d] : \A z \in 1 .. L[e] :
           Total(L, 1 .. d - 1) + y = Total(L, 1 .. e - 1) + z => d = e /\ y = z
  BY <1>4, PlacesOfSegments
<1>8. \A m \in 0 .. N : Total(L, 1 .. m) \in Nat
  BY <1>4, Beginnings
<1>9. \A s \in Members : Rows(i, s, i) \in Nat /\ Total(L, 1 .. s - 1) \in Nat
  <2> SUFFICES ASSUME NEW s \in Members PROVE Rows(i, s, i) \in Nat /\ Total(L, 1 .. s - 1) \in Nat
    OBVIOUS
  <2>1. s - 1 \in 0 .. N
    BY <1>4
  <2> QED
    BY <2>1, <1>4, <1>5, <1>8
<1>10. \A s \in Members : \A y \in 1 .. Rows(i, s, i) : PlaceOf(i, s, y) \in 1 .. Total(L, 1 .. N)
  BY <1>4, <1>5, <1>6, <1>7
<1>11. \A q \in 1 .. Total(L, 1 .. N) : \E s \in Members : \E y \in 1 .. Rows(i, s, i) :
         q = PlaceOf(i, s, y)
  BY <1>4, <1>5, <1>6, <1>7
<1>12. \A s, r \in Members : \A y \in 1 .. Rows(i, s, i) : \A z \in 1 .. Rows(i, r, i) :
         PlaceOf(i, s, y) = PlaceOf(i, r, z) => s = r /\ y = z
  BY <1>4, <1>5, <1>6, <1>7
<1> QED
  BY <1>1, <1>9, <1>10, <1>11, <1>12

\* A member whose output and plan are left alone has what it had.
LEMMA ReceivesStays ==
  ASSUME NEW j \in Members, Receives(j), UNCHANGED demand,
         plan'[j] = plan[j], wave'[j] = wave[j], output'[j] = output[j], Payload(j)' = Payload(j),
         at'[j] \in {"executing", "wave"} => at[j] \in {"executing", "wave"},
         at'[j] = "wave" => at[j] = "wave" \/ wave[j] \in DOMAIN plan[j].waves,
         \A s \in Members : Payload(s) \in Nat /\ Payload(s)' \in Nat /\ Payload(s) <= Payload(s)'
  PROVE  Receives(j)'
<1>1. \A s : Rows(j, s, j)' = Rows(j, s, j)
  BY RowsStay DEF Rows
<1>2. Coming(Payload(j), j)' = Coming(Payload(j), j)
  BY RowsStay DEF Coming
<1>3. \A s, y : Arrived(j, s, y)' = Arrived(j, s, y)
  BY <1>1 DEF Arrived
<1>4. \A s, y : PlaceOf(j, s, y)' = PlaceOf(j, s, y)
  BY <1>2 DEF PlaceOf
<1>5. CASE at[j] \in {"executing", "wave"}
  <2>1. output'[j] = [q \in 1 .. Total(Coming(Payload(j), j)', 1 .. N) |-> output'[j][q]]
    BY <1>2, <1>5 DEF Receives
  <2>2. at'[j] = "wave" => wave'[j] \in DOMAIN plan'[j].waves
    BY <1>5 DEF Receives
  <2>3. ASSUME NEW s \in Members, NEW y \in 1 .. Rows(j, s, j)', Arrived(j, s, y)'
        PROVE  output'[j][PlaceOf(j, s, y)'] = <<Payload(j)', s, j, y>> /\ Payload(j)' <= Payload(s)'
    <3>1. output[j][PlaceOf(j, s, y)] = <<Payload(j), s, j, y>> /\ Payload(j) <= Payload(s)
      BY <2>3, <1>1, <1>3, <1>5 DEF Receives
    <3> QED
      BY <3>1, <1>4
  <2> QED
    BY <2>1, <2>2, <2>3 DEF Receives
<1>6. CASE at[j] \notin {"executing", "wave"}
  BY <1>6 DEF Receives
<1> QED
  BY <1>5, <1>6

\* A row's bucket of its edge is where it is looked for, and its bucket has it.
LEMMA PlaceOfATask ==
  ASSUME Counted, NEW i \in Members, Payload(i) \in 1 .. Exchange!Payloads, NEW b \in Nat,
         NEW s \in Members, NEW o \in 0 .. Buckets(Rows(i, s, i), b) - 1,
         NEW off, off = Total(Coming(Payload(i), i), 1 .. s - 1) + o * StepOf(Rows(i, s, i), b)
  PROVE  /\ off \in Nat /\ RowsOf(Rows(i, s, i), b, o) \in Nat \ {0}
         /\ \A x \in 1 .. RowsOf(Rows(i, s, i), b, o) :
              /\ o * StepOf(Rows(i, s, i), b) + x \in 1 .. Rows(i, s, i)
              /\ PlaceOf(i, s, o * StepOf(Rows(i, s, i), b) + x) = off + x
         /\ \A y \in 1 .. Rows(i, s, i) : (y - 1) \div StepOf(Rows(i, s, i), b) = o =>
              PlaceOf(i, s, y) > off /\ PlaceOf(i, s, y) <= off + RowsOf(Rows(i, s, i), b, o)
<1>1. PICK R : R = Rows(i, s, i)
  OBVIOUS
<1>2. PICK base : base = Total(Coming(Payload(i), i), 1 .. s - 1)
  OBVIOUS
<1>3. R \in Nat /\ base \in Nat
  BY <1>1, <1>2, RowsHavePlaces
<1>4. PICK c : c = o * StepOf(R, b)
  OBVIOUS
<1>5. PICK r : r = RowsOf(R, b, o)
  OBVIOUS
<1>6. o \in 0 .. Buckets(R, b) - 1
  BY <1>1
<1>7. c \in Nat /\ r \in Nat \ {0} /\ \A x \in 1 .. r : c + x \in 1 .. R
  BY <1>3, <1>4, <1>5, <1>6, RowsAreInBuckets
<1>8. \A y \in 1 .. R : y - ((y - 1) \div StepOf(R, b)) * StepOf(R, b)
                          \in 1 .. RowsOf(R, b, (y - 1) \div StepOf(R, b))
  BY <1>3, RowsAreInBuckets
<1>9. \A y : PlaceOf(i, s, y) = base + y
  BY <1>2 DEF PlaceOf
<1>10. off = base + c
  BY <1>1, <1>2, <1>4
<1>11. ASSUME NEW x \in 1 .. r PROVE PlaceOf(i, s, c + x) = off + x
  <2>1. x \in Nat
    BY <1>7
  <2> QED
    BY <2>1, <1>3, <1>7, <1>9, <1>10
<1>12. ASSUME NEW y \in 1 .. R, (y - 1) \div StepOf(R, b) = o
       PROVE  PlaceOf(i, s, y) > off /\ PlaceOf(i, s, y) <= off + r
  <2>1. y - c \in 1 .. r /\ y \in Nat
    BY <1>3, <1>4, <1>5, <1>8, <1>12
  <2> QED
    BY <2>1, <1>3, <1>7, <1>9, <1>10
<1> QED
  BY <1>1, <1>3, <1>4, <1>5, <1>7, <1>10, <1>11, <1>12

\* A new output has the rows that stay on the member.
LEMMA StartReceives ==
  ASSUME Shape, Counted, OutputInv, NEW i \in Members, StartPayload(i), \A v \in DOMAIN plan[i].waves : v \in Nat \ {0}
  PROVE  Receives(i)' /\ output' = [j \in Members |-> output'[j]] /\ \A j \in Members \ {i} : output'[j] = output[j]
<1>1. PICK k : k = Payload(i)
  OBVIOUS
<1>2. k \in 1 .. Exchange!Payloads /\ at[i] = "transport"
  BY <1>1, PayloadIsOfALayer DEF StartPayload
<1>3. PICK M : M = Total(Coming(k, i), 1 .. N)
  OBVIOUS
<1>4. PICK base : base = Total(Coming(k, i), 1 .. i - 1)
  OBVIOUS
<1>5. PICK own : own = SubSeq(Exchange!Sent(i, k), SumOf(LAMBDA d : Rows(i, i, d), 1 .. i - 1) + 1,
                              SumOf(LAMBDA d : Rows(i, i, d), 1 .. i))
  OBVIOUS
<1>6. PICK new : new = Written([x \in 1 .. M |-> Unwritten], base, own)
  OBVIOUS
<1>7. i - 1 \in 0 .. N /\ i \in 1 .. N /\ 1 .. i - 1 \in SUBSET Members /\ 1 .. i \in SUBSET Members
      /\ Members = 1 .. N /\ N \in Nat
  BY RootIsAMember
<1>8. /\ SumOf(LAMBDA s : Rows(i, s, i), Members) = M
      /\ SumOf(LAMBDA s : Rows(i, s, i), 1 .. i - 1) = base
      /\ SumOf(LAMBDA d : Rows(i, i, d), 1 .. i - 1) = Total(Going(k, i), 1 .. i - 1)
      /\ SumOf(LAMBDA d : Rows(i, i, d), 1 .. i) = Total(Going(k, i), 1 .. i)
  <2>1. Members \in SUBSET Members
    OBVIOUS
  <2>2. SumOf(LAMBDA s : Rows(i, s, i), Members) = Total(Coming(k, i), Members)
    BY <2>1, <1>1, <1>2, OffsetsOfRows
  <2>3. SumOf(LAMBDA s : Rows(i, s, i), 1 .. i - 1) = base
    BY <1>1, <1>2, <1>4, <1>7, OffsetsOfRows
  <2>4. SumOf(LAMBDA d : Rows(i, i, d), 1 .. i - 1) = Total(Going(k, i), 1 .. i - 1)
    BY <1>1, <1>2, <1>7, OffsetsOfRows
  <2>5. SumOf(LAMBDA d : Rows(i, i, d), 1 .. i) = Total(Going(k, i), 1 .. i)
    BY <1>1, <1>2, <1>7, OffsetsOfRows
  <2> QED
    BY <2>2, <2>3, <2>4, <2>5, <1>3, <1>7
<1>9. /\ output' = [output EXCEPT ![i] = new] /\ wave' = [wave EXCEPT ![i] = 1]
      /\ at' = [at EXCEPT ![i] = "executing"] /\ UNCHANGED <<demand, plan, delivered>>
  BY <1>1, <1>5, <1>6, <1>8 DEF StartPayload
<1>10. output'[i] = new /\ wave'[i] = 1 /\ at'[i] = "executing"
  BY <1>9 DEF OutputInv, Shape
<1>11. PICK a : a = Total(Going(k, i), 1 .. i - 1)
  OBVIOUS
<1>12. PICK R : R = Exchange!Rows(k, i, i)
  OBVIOUS
<1>13. a \in Nat /\ R \in Nat /\ Total(Going(k, i), 1 .. i) = a + R /\ base \in Nat
       /\ a + R <= Total(Going(k, i), 1 .. N)
  <2>1. Going(k, i) \in [1 .. N -> Nat] /\ Coming(k, i) \in [1 .. N -> Nat]
    BY <1>2, SplitsAreCounted
  <2>2. Going(k, i)[i] = R
    BY <1>2, <1>12, SplitsAreCounted
  <2>3. PICK G : G = Going(k, i)
    OBVIOUS
  <2>4. PICK C : C = Coming(k, i)
    OBVIOUS
  <2>5. /\ \A m \in 0 .. N : Total(G, 1 .. m) \in Nat
        /\ \A m \in 1 .. N : Total(G, 1 .. m) = Total(G, 1 .. m - 1) + G[m]
        /\ \A p, q \in 0 .. N : p <= q => Total(G, 1 .. p) <= Total(G, 1 .. q)
    BY <2>1, <2>3, <1>7, Beginnings
  <2>6. \A m \in 0 .. N : Total(C, 1 .. m) \in Nat
    BY <2>1, <2>4, <1>7, Beginnings
  <2>7. i \in 0 .. N /\ N \in 0 .. N /\ i <= N
    BY <1>7
  <2>8. R \in Nat
    BY <1>2, <1>12, RowsAreCounted
  <2> QED
    BY <2>2, <2>3, <2>4, <2>5, <2>6, <2>7, <2>8, <1>4, <1>7, <1>11
<1>14. Len(own) = R /\ \A y \in 1 .. R : own[y] = <<k, i, i, y>>
  <2>1. PICK sent : sent = Exchange!Sent(i, k)
    OBVIOUS
  <2>2. /\ IsSequence(sent) /\ Len(sent) = Total(Going(k, i), 1 .. N)
        /\ \A y \in 1 .. R : sent[a + y] = <<k, i, i, y>>
    BY <2>1, <1>2, <1>11, <1>12, NativeTensors
  <2>3. own = SubSeq(sent, a + 1, a + R)
    BY <2>1, <1>5, <1>8, <1>11, <1>13
  <2>4. PICK S : sent \in Seq(S)
    BY <2>2 DEF IsSequence
  <2>5. a + R <= Len(sent)
    BY <2>2, <1>13
  <2>6. own = [y \in 1 .. R |-> sent[a + y]]
    BY <2>3, <2>4, <2>5, <1>13
  <2>7. Len(own) = R
    <3>1. own \in [1 .. R -> {sent[a + y] : y \in 1 .. R}]
      BY <2>6
    <3> QED
      BY <3>1, <1>13
  <2> QED
    BY <2>2, <2>6, <2>7
<1>15. new = [q \in 1 .. M |-> new[q]]
  BY <1>6 DEF Written
<1>16. \A y \in 1 .. R : base + y \in 1 .. M => new[base + y] = <<k, i, i, y>>
  <2> SUFFICES ASSUME NEW y \in 1 .. R, base + y \in 1 .. M PROVE new[base + y] = <<k, i, i, y>>
    OBVIOUS
  <2>1. new[base + y] = IF base + y > base /\ base + y <= base + Len(own) THEN own[(base + y) - base] ELSE Unwritten
    BY <1>6 DEF Written
  <2>2. base + y > base /\ base + y <= base + Len(own) /\ (base + y) - base = y
    BY <1>13, <1>14
  <2> QED
    BY <2>1, <2>2, <1>14
<1>17. Payload(i)' = k /\ \A s : Rows(i, s, i)' = Rows(i, s, i)
  <2>1. Payload(i)' = k
    BY <1>1, <1>9 DEF Payload
  <2> QED
    BY <2>1, <1>1, <1>9, RowsStay DEF Rows
<1>18. Coming(Payload(i), i)' = Coming(k, i)
  BY <1>1, <1>9, <1>17, RowsStay DEF Coming
<1>19. ASSUME NEW s \in Members, NEW y \in 1 .. Rows(i, s, i)', Arrived(i, s, y)'
       PROVE  output'[i][PlaceOf(i, s, y)'] = <<Payload(i)', s, i, y>> /\ Payload(i)' <= Payload(s)'
  <2>1. s = i
    <3>1. \A v \in DOMAIN plan'[i].waves : ~(v < wave'[i])
      BY <1>9, <1>10
    <3> QED
      BY <3>1, <1>19 DEF Arrived
  <2>2. y \in 1 .. Rows(i, i, i) /\ Rows(i, i, i) = R
    BY <2>1, <1>1, <1>12, <1>17 DEF Rows
  <2>3. PlaceOf(i, i, y) \in 1 .. M /\ PlaceOf(i, i, y) = base + y
    BY <2>2, <1>1, <1>2, <1>3, <1>4, RowsHavePlaces DEF PlaceOf
  <2>4. PlaceOf(i, i, y)' = base + y
    BY <1>4, <1>18 DEF PlaceOf
  <2>5. new[base + y] = <<k, i, i, y>>
    BY <2>2, <2>3, <1>16
  <2> QED
    BY <2>1, <2>4, <2>5, <1>2, <1>10, <1>17
<1>20. Receives(i)'
  <2>1. output'[i] = [q \in 1 .. Total(Coming(Payload(i), i)', 1 .. N) |-> output'[i][q]]
    BY <1>3, <1>10, <1>15, <1>18
  <2> QED
    BY <2>1, <1>10, <1>19 DEF Receives
<1> QED
  BY <1>9, <1>20 DEF OutputInv

\* The rows of a wave come to their places.
LEMMA LeaveReceives ==
  ASSUME NEW H, Shape, Counted, WholeGroup, OutputInv, History(H),
         \A j \in Members : Position(H, j) /\ Reached(H, j),
         NEW i \in Members, LeaveWave(i)
  PROVE  Receives(i)' /\ output' = [j \in Members |-> output'[j]] /\ \A j \in Members \ {i} : output'[j] = output[j]
<1>1. PICK n : n = Len(calls[i])
  OBVIOUS
<1>2. PICK k : k = Payload(i)
  OBVIOUS
<1>3. PICK p : p = H[n].plan
  OBVIOUS
<1>4. PICK w : w = wave[i]
  OBVIOUS
<1>5. k \in 1 .. Exchange!Payloads /\ at[i] = "wave" /\ MayReturn(i)
  BY <1>2, PayloadIsOfALayer DEF LeaveWave
<1>6. /\ n > 0 /\ n \in Nat /\ H[n].op = "wave" /\ H[n].k = k /\ H[n].w = w /\ Holds(i, p)
      /\ w \in DOMAIN plan[i].waves
  BY <1>1, <1>2, <1>3, <1>4, <1>5, Lengths DEF Position, OutputInv, Receives
<1>7. PICK b : b = p.bucket_rows
  OBVIOUS
<1>8. /\ plan[i].bucket_rows = b /\ b \in Nat /\ w \in DOMAIN p.waves /\ p.waves \in Seq(SUBSET Task)
      /\ plan[i].waves[w] = {t \in p.waves[w] : /\ i \in {t.src, t.dst}
                                               /\ t.bucket \in 0 .. Buckets(Rows(i, t.src, t.dst), b) - 1}
  BY <1>6, <1>7, MaterialisedWaves DEF Holds, Materialised, Complete
<1>9. PICK tasks : tasks = {t \in plan[i].waves[w] : t.dst = i}
  OBVIOUS
<1>10. \A t, u \in tasks : t = u
  BY <1>6, <1>8, <1>9 DEF Holds
<1>11. /\ at' = [at EXCEPT ![i] = "executing"] /\ wave' = [wave EXCEPT ![i] = @ + 1]
       /\ UNCHANGED <<demand, plan, delivered>>
  BY DEF LeaveWave
<1>12. at'[i] = "executing" /\ wave'[i] = w + 1 /\ w \in Nat
  BY <1>4, <1>11 DEF Shape
<1>13. (\A j : Payload(j)' = Payload(j)) /\ \A s : Rows(i, s, i)' = Rows(i, s, i)
  <2>1. \A j : Payload(j)' = Payload(j)
    BY <1>11 DEF Payload
  <2> QED
    BY <2>1, <1>11, RowsStay DEF Rows
<1>14. /\ Coming(Payload(i), i)' = Coming(k, i) /\ \A s, y : PlaceOf(i, s, y)' = PlaceOf(i, s, y)
  <2>1. Coming(Payload(i), i)' = Coming(Payload(i), i)
    BY <1>11, <1>13, RowsStay DEF Coming
  <2> QED
    BY <2>1, <1>2 DEF PlaceOf
<1>15. PICK M : M = Total(Coming(k, i), 1 .. N)
  OBVIOUS
<1>16. /\ output[i] = [q \in 1 .. M |-> output[i][q]]
       /\ \A s \in Members : \A y \in 1 .. Rows(i, s, i) :
            Arrived(i, s, y) => /\ output[i][PlaceOf(i, s, y)] = <<k, s, i, y>> /\ k <= Payload(s)
  BY <1>2, <1>5, <1>15 DEF OutputInv, Receives
\* What arrives in this step is of a task of the wave.
<1>17. ASSUME NEW s \in Members, NEW y \in 1 .. Rows(i, s, i), Arrived(i, s, y)'
       PROVE  Arrived(i, s, y) \/ \E t \in tasks : t.src = s /\ t.bucket = (y - 1) \div StepOf(Rows(i, s, i), b)
  <2>1. CASE s = i
    BY <2>1 DEF Arrived
  <2>2. CASE s # i
    <3>1. PICK v \in DOMAIN plan[i].waves : v < w + 1 /\ \E t \in plan[i].waves[v] :
            t.src = s /\ t.dst = i /\ t.bucket = (y - 1) \div StepOf(Rows(i, s, i), b)
      BY <2>2, <1>8, <1>11, <1>12, <1>13, <1>17 DEF Arrived
    <3>2. v \in Nat
      BY <1>6, <1>8, MaterialisedWaves DEF Holds
    <3>3. v < w \/ v = w
      BY <3>1, <3>2, <1>12
    <3>4. CASE v < w
      BY <3>1, <3>4, <1>4, <1>8 DEF Arrived
    <3>5. CASE v = w
      BY <3>1, <3>5, <1>9
    <3> QED
      BY <3>3, <3>4, <3>5
  <2> QED
    BY <2>1, <2>2
<1>18. CASE tasks = {}
  <2>1. output' = [output EXCEPT ![i] = @]
    BY <1>4, <1>9, <1>18 DEF LeaveWave
  <2>2. output' = output
    BY <2>1 DEF OutputInv
  <2>3. ASSUME NEW s \in Members, NEW y \in 1 .. Rows(i, s, i)', Arrived(i, s, y)'
        PROVE  output'[i][PlaceOf(i, s, y)'] = <<Payload(i)', s, i, y>> /\ Payload(i)' <= Payload(s)'
    <3>1. y \in 1 .. Rows(i, s, i)
      BY <1>13
    <3>2. Arrived(i, s, y)
      BY <3>1, <2>3, <1>17, <1>18
    <3>3. output[i][PlaceOf(i, s, y)] = <<k, s, i, y>> /\ k <= Payload(s)
      BY <3>1, <3>2, <1>16
    <3> QED
      BY <3>3, <2>2, <1>2, <1>13, <1>14
  <2>4. Receives(i)'
    BY <2>2, <2>3, <1>12, <1>14, <1>15, <1>16 DEF Receives
  <2> QED
    BY <2>2, <2>4 DEF OutputInv
<1>19. CASE tasks # {}
  <2>1. PICK t : t = CHOOSE u \in tasks : TRUE
    OBVIOUS
  <2>2. t \in tasks /\ \A u \in tasks : u = t
    BY <2>1, <1>10, <1>19
  <2>3. PICK s : s = t.src
    OBVIOUS
  <2>4. PICK o : o = t.bucket
    OBVIOUS
  <2>5. t \in p.waves[w] /\ t.dst = i /\ s \in Members /\ o \in 0 .. Buckets(Rows(i, s, i), b) - 1
    BY <2>2, <2>3, <2>4, <1>8, <1>9 DEF Task
  <2>6. PICK R : R = Rows(i, s, i)
    OBVIOUS
  <2>7. PICK c : c = o * StepOf(R, b)
    OBVIOUS
  <2>8. PICK off : off = Total(Coming(k, i), 1 .. s - 1) + c
    OBVIOUS
  <2>9. PICK r : r = RowsOf(R, b, o)
    OBVIOUS
  <2>10. /\ off \in Nat /\ r \in Nat \ {0}
         /\ \A x \in 1 .. r : c + x \in 1 .. R /\ PlaceOf(i, s, c + x) = off + x
         /\ \A y \in 1 .. R : (y - 1) \div StepOf(R, b) = o =>
              PlaceOf(i, s, y) > off /\ PlaceOf(i, s, y) <= off + r
    BY <2>5, <2>6, <2>7, <2>8, <2>9, <1>2, <1>5, <1>8, PlaceOfATask
  <2>11. EdgeTasks(H[n], s, i) = {t}
    <3>1. EdgeTasks(H[n], s, i) = {u \in p.waves[w] : /\ u.src = s /\ u.dst = i
                                                      /\ u.bucket \in 0 .. Buckets(R, b) - 1}
      BY <2>6, <1>2, <1>3, <1>6, <1>7 DEF EdgeTasks, Rows
    <3>2. \A u \in EdgeTasks(H[n], s, i) : u \in tasks
      BY <3>1, <2>6, <1>8, <1>9
    <3>3. t \in EdgeTasks(H[n], s, i)
      BY <3>1, <2>3, <2>4, <2>5, <2>6
    <3> QED
      BY <3>2, <3>3, <2>2
  <2>12. PICK rows : rows = calls[s][n].data.send[i]
    OBVIOUS
  <2>13. n \in 1 .. Len(calls[s])
    <3>1. n \in 1 .. Len(calls[i])
      BY <1>1, <1>6
    <3>2. calls[i][n].op = "wave" /\ Fits(H[n], i, calls[i][n].data)
      BY <3>1, <1>6 DEF History
    <3>3. Carries(H[n], s, i, calls[i][n].data.recv[s])
      BY <3>2, <2>5, <1>6 DEF Fits
    <3>4. calls[i][n].data.recv[s] = r
      <4>1. Exchange!Rows(H[n].k, s, i) = R /\ H[n].plan.bucket_rows = b
        BY <2>6, <1>2, <1>3, <1>6, <1>7 DEF Rows
      <4> QED
        BY <4>1, <3>3, <2>4, <2>9, <2>11 DEF Carries
    <3>5. calls[i][n].data.recv[s] > 0
      BY <3>4, <2>10
    <3>6. Last(calls[i]) = calls[i][n]
      BY <1>1 DEF Last
    <3>7. Joins(s, i)
      BY <3>2, <3>5, <3>6, <2>5, <1>5 DEF MayReturn
    <3>8. n <= Len(calls[s])
      BY <3>7, <1>1 DEF Joins
    <3>9. Len(calls[s]) \in Nat
      BY <2>5, Lengths
    <3> QED
      BY <3>8, <3>9, <1>6
  <2>14. Len(rows) = r /\ \A x \in 1 .. r : rows[x] = <<k, s, i, c + x>>
    <3>1. Fits(H[n], s, calls[s][n].data)
      BY <2>5, <2>13 DEF History
    <3>2. Carries(H[n], s, i, Len(rows)) /\ Moves(H[n], s, i, rows)
      BY <3>1, <2>12, <1>6 DEF Fits
    <3>3. Exchange!Rows(H[n].k, s, i) = R /\ H[n].plan.bucket_rows = b
      BY <2>6, <1>2, <1>3, <1>6, <1>7 DEF Rows
    <3>4. Len(rows) = r
      BY <3>2, <3>3, <2>4, <2>9, <2>11 DEF Carries
    <3>5. \A x \in 1 .. r : rows[x] = <<k, s, i, c + x>>
      BY <3>2, <3>3, <3>4, <2>4, <2>7, <2>11, <1>6 DEF Moves
    <3> QED
      BY <3>4, <3>5
  <2>15. k <= Payload(s)
    <3>1. H[n].k \in 1 .. Payload(s)
      BY <2>5, <2>13 DEF Reached
    <3> QED
      BY <3>1, <1>6, <2>5, Lengths
  <2>16. PICK new : new = Written(output[i], off, rows)
    OBVIOUS
  <2>17. output' = [output EXCEPT ![i] = new]
    <3>1. RecvOffset(i, plan[i], t) = off
      <4>1. 1 .. s - 1 \in SUBSET Members
        BY <2>5, RootIsAMember
      <4>2. SumOf(LAMBDA x : Rows(i, x, i), 1 .. s - 1) = Total(Coming(k, i), 1 .. s - 1)
        BY <4>1, <1>2, <1>5, OffsetsOfRows
      <4>3. Consumed(i, plan[i], t) = c
        BY <2>3, <2>4, <2>5, <2>6, <2>7, <1>8 DEF Consumed
      <4> QED
        BY <4>2, <4>3, <2>3, <2>8 DEF RecvOffset
    <3> QED
      BY <3>1, <2>1, <2>3, <2>12, <2>16, <1>1, <1>4, <1>9, <1>19 DEF LeaveWave
  <2>18. output'[i] = new /\ output' = [j \in Members |-> output'[j]] /\ \A j \in Members \ {i} : output'[j] = output[j]
    BY <2>17 DEF OutputInv
  <2>19. DOMAIN output[i] = 1 .. M
    BY <1>16
  <2>20. /\ new = [q \in 1 .. M |-> new[q]]
         /\ \A q \in 1 .. M : new[q] = IF q > off /\ q <= off + Len(rows) THEN rows[q - off] ELSE output[i][q]
    BY <2>16, <2>19 DEF Written
  <2>21. ASSUME NEW a \in Members, NEW y \in 1 .. Rows(i, a, i), Arrived(i, a, y)'
         PROVE  new[PlaceOf(i, a, y)] = <<k, a, i, y>> /\ k <= Payload(a)
    <3>1. PICK q : q = PlaceOf(i, a, y)
      OBVIOUS
    <3>2. q \in 1 .. M /\ q \in Int
      <4>1. q \in 1 .. M
        BY <3>1, <1>2, <1>5, <1>15, RowsHavePlaces
      <4> QED
        BY <4>1
    <3>3. CASE q > off /\ q <= off + r
      <4>1. PICK x : x = q - off
        OBVIOUS
      <4>2. x \in 1 .. r /\ q = off + x
        BY <4>1, <3>2, <3>3, <2>10
      <4>3. PlaceOf(i, a, y) = PlaceOf(i, s, c + x) /\ c + x \in 1 .. R
        BY <4>2, <3>1, <2>10
      <4>4. a = s /\ y = c + x
        BY <4>3, <2>5, <2>6, <1>2, <1>5, RowsHavePlaces
      <4>5. new[q] = rows[x]
        BY <4>1, <3>2, <3>3, <2>14, <2>20
      <4> QED
        BY <4>2, <4>4, <4>5, <3>1, <2>14, <2>15
    <3>4. CASE ~(q > off /\ q <= off + r)
      <4>1. new[q] = output[i][q]
        BY <3>2, <3>4, <2>14, <2>20
      <4>2. Arrived(i, a, y)
        <5>1. ASSUME a = s, o = (y - 1) \div StepOf(R, b) PROVE FALSE
          BY <5>1, <3>1, <3>4, <2>6, <2>10
        <5> QED
          BY <5>1, <2>2, <2>3, <2>4, <2>6, <2>21, <1>17
      <4> QED
        BY <4>1, <4>2, <3>1, <1>16
    <3> QED
      BY <3>3, <3>4
  <2>22. ASSUME NEW a \in Members, NEW y \in 1 .. Rows(i, a, i)', Arrived(i, a, y)'
         PROVE  output'[i][PlaceOf(i, a, y)'] = <<Payload(i)', a, i, y>> /\ Payload(i)' <= Payload(a)'
    BY <2>18, <2>21, <2>22, <1>2, <1>13, <1>14
  <2>23. Receives(i)'
    BY <2>18, <2>20, <2>22, <1>12, <1>14, <1>15 DEF Receives
  <2> QED
    BY <2>18, <2>23
<1> QED
  BY <1>18, <1>19

\* A member that has been through all waves has the tensor of the native exchange.
LEMMA FinishDelivers ==
  ASSUME NEW H, Shape, Counted, WholeGroup, OutputInv, \A j \in Members : Position(H, j),
         NEW i \in Members, FinishPayload(i)
  PROVE  Exchange!Deliver(i)
<1>1. PICK k : k = Payload(i)
  OBVIOUS
<1>2. k \in 1 .. Exchange!Payloads /\ at[i] = "executing" /\ wave[i] \notin DOMAIN plan[i].waves
  BY <1>1, PayloadIsOfALayer DEF FinishPayload
<1>3. PICK p : Holds(i, p)
  BY <1>2 DEF Position
<1>4. /\ wave[i] > 0 /\ wave[i] \in Nat /\ p.waves \in Seq(SUBSET Task) /\ Complete(p, k)
      /\ plan[i] = Materialised(i, p) /\ p.bucket_rows \in Nat /\ plan[i].bucket_rows = p.bucket_rows
      /\ DOMAIN plan[i].waves = DOMAIN p.waves
  BY <1>1, <1>2, <1>3, MaterialisedWaves DEF Position, Shape, Holds, Complete, Materialised
<1>5. \A v \in DOMAIN p.waves : v < wave[i]
  <2>1. DOMAIN p.waves = 1 .. Len(p.waves) /\ Len(p.waves) \in Nat
    BY <1>4
  <2> QED
    BY <2>1, <1>2, <1>4
<1>6. ASSUME NEW s \in Members, NEW y \in 1 .. Rows(i, s, i) PROVE Arrived(i, s, y)
  <2>1. CASE s = i
    BY <2>1 DEF Arrived
  <2>2. CASE s # i
    <3>1. PICK R : R = Rows(i, s, i)
      OBVIOUS
    <3>2. PICK b : b = p.bucket_rows
      OBVIOUS
    <3>3. PICK o : o = (y - 1) \div StepOf(R, b)
      OBVIOUS
    <3>4. R \in Nat /\ R = Exchange!Rows(k, s, i)
      BY <3>1, <1>1, <1>2, RowsAreCounted DEF Rows
    <3>5. o \in 0 .. Buckets(R, b) - 1
      BY <3>1, <3>2, <3>3, <3>4, <1>4, RowsAreInBuckets
    <3>6. PICK v \in DOMAIN p.waves : [src |-> s, dst |-> i, bucket |-> o] \in p.waves[v]
      BY <3>2, <3>4, <3>5, <2>2, <1>4 DEF Complete
    <3>7. PICK t : t = [src |-> s, dst |-> i, bucket |-> o]
      OBVIOUS
    <3>8. t.src = s /\ t.dst = i /\ t.bucket = o /\ t \in p.waves[v]
      BY <3>6, <3>7
    <3>9. t \in plan[i].waves[v]
      BY <3>1, <3>2, <3>5, <3>8, <1>4 DEF Materialised
    <3> QED
      BY <3>1, <3>2, <3>3, <3>8, <3>9, <1>4, <1>5 DEF Arrived
  <2> QED
    BY <2>1, <2>2
<1>7. PICK M : M = Total(Coming(k, i), 1 .. N)
  OBVIOUS
<1>8. /\ output[i] = [q \in 1 .. M |-> output[i][q]]
      /\ \A s \in Members : \A y \in 1 .. Rows(i, s, i) :
           output[i][PlaceOf(i, s, y)] = <<k, s, i, y>> /\ k <= Payload(s)
  BY <1>1, <1>2, <1>6, <1>7 DEF OutputInv, Receives
<1>9. output[i] = Exchange!Received(i, k)
  <2>1. PICK native : native = Exchange!Received(i, k)
    OBVIOUS
  <2>2. IsSequence(native) /\ Len(native) = M
    BY <2>1, <1>2, <1>7, NativeTensors
  <2>3. native = [q \in 1 .. M |-> native[q]]
    BY <2>2 DEF IsSequence
  <2>4. \A s \in Members : \A y \in 1 .. Exchange!Rows(k, s, i) :
          native[Total(Coming(k, i), 1 .. s - 1) + y] = <<k, s, i, y>>
    BY <2>1, <1>2, NativeTensors
  <2>5. \A s \in Members : \A y \in 1 .. Rows(i, s, i) : native[PlaceOf(i, s, y)] = <<k, s, i, y>>
    BY <2>4, <1>1 DEF PlaceOf, Rows
  <2>6. ASSUME NEW q \in 1 .. M PROVE output[i][q] = native[q]
    <3>1. \E s \in Members : \E y \in 1 .. Rows(i, s, i) : q = PlaceOf(i, s, y)
      BY <1>1, <1>2, <1>7, RowsHavePlaces
    <3>2. PICK s \in Members : \E y \in 1 .. Rows(i, s, i) : q = PlaceOf(i, s, y)
      BY <3>1
    <3>3. PICK y \in 1 .. Rows(i, s, i) : q = PlaceOf(i, s, y)
      BY <3>2
    <3> QED
      BY <3>3, <2>5, <1>8
  <2> QED
    BY <2>1, <2>3, <2>6, <1>8
<1>10. \A s \in 1 .. N : Exchange!Rows(k, s, i) > 0 => Len(delivered[s]) >= k - 1
  <2> SUFFICES ASSUME NEW s \in Members, Exchange!Rows(k, s, i) > 0 PROVE Len(delivered[s]) >= k - 1
    BY RootIsAMember
  <2>1. Rows(i, s, i) > 0 /\ Rows(i, s, i) \in Nat
    BY <1>1, <1>2, RowsAreCounted DEF Rows
  <2>2. 1 \in 1 .. Rows(i, s, i)
    BY <2>1
  <2>3. k <= Payload(s)
    BY <2>2, <1>8
  <2>4. Len(delivered[s]) \in Nat
    BY Lengths
  <2> QED
    BY <2>3, <2>4, <1>2 DEF Payload
<1>11. k = Len(delivered[i]) + 1 /\ k <= Exchange!Payloads
  BY <1>1, <1>2 DEF Payload
<1>12. delivered' = [delivered EXCEPT ![i] = Append(@, Exchange!Received(i, k))] /\ UNCHANGED demand
  BY <1>9 DEF FinishPayload
<1> QED
  BY <1>10, <1>11, <1>12 DEF Exchange!Deliver

\* The steps keep what has come to a member.
LEMMA StepsKeepOutput ==
  ASSUME SyncInv, SyncInv', WholeGroup, OutputInv, NEW i \in Members, Member(i)
  PROVE  OutputInv' /\ (Exchange!Deliver(i) \/ UNCHANGED <<demand, delivered>>)
<1>1. PICK H : History(H) /\ \A j \in Members : Position(H, j) /\ Reached(H, j)
  BY DEF SyncInv
<1>2. Shape /\ Counted /\ Shape'
  BY DEF SyncInv
<1>3. UNCHANGED demand
  BY DEF Member, BeforeTokenDispatch, BeforeTokenCombine, MatrixGathered, Summarise, BuildPlan,
         AwaitPlan, LengthKnown, Materialise, StartPayload, EnterWave, LeaveWave, FinishPayload, Raise
<1>4. CASE FinishPayload(i)
  <2>1. /\ delivered' = [delivered EXCEPT ![i] = Append(@, output[i])]
        /\ output' = [output EXCEPT ![i] = <<>>] /\ wave' = [wave EXCEPT ![i] = 0]
        /\ plan' = [plan EXCEPT ![i] = IF Payload(i) % 3 # 1 THEN NoPlan ELSE @]
    BY <1>4 DEF FinishPayload
  <2>2. at'[i] \notin {"executing", "wave"} /\ \A j \in Members \ {i} : at'[j] = at[j]
    BY <1>2, <1>4 DEF FinishPayload, Shape
  <2>3. /\ \A j \in Members \ {i} : /\ delivered'[j] = delivered[j] /\ output'[j] = output[j]
                                    /\ wave'[j] = wave[j] /\ plan'[j] = plan[j]
        /\ output' = [j \in Members |-> output'[j]]
    BY <2>1, <1>2 DEF Shape, OutputInv
  <2>4. Len(delivered'[i]) = Len(delivered[i]) + 1
    <3>1. delivered'[i] = Append(delivered[i], output[i]) /\ IsSequence(delivered[i])
      BY <2>1, <1>2 DEF Shape
    <3> QED
      BY <3>1, AppendOne
  <2>5. \A j \in Members : Payload(j) \in Nat /\ Payload(j)' \in Nat /\ Payload(j) <= Payload(j)'
    <3> SUFFICES ASSUME NEW j \in Members
                 PROVE  Payload(j) \in Nat /\ Payload(j)' \in Nat /\ Payload(j) <= Payload(j)'
      OBVIOUS
    <3>1. Len(delivered[j]) \in Nat
      BY <1>2, Lengths
    <3>2. Len(delivered'[j]) = Len(delivered[j]) \/ Len(delivered'[j]) = Len(delivered[j]) + 1
      BY <2>3, <2>4
    <3> QED
      BY <3>1, <3>2 DEF Payload
  <2>6. ASSUME NEW j \in Members \ {i} PROVE Receives(j)'
    <3>1. Payload(j)' = Payload(j)
      BY <2>3 DEF Payload
    <3> QED
      BY <3>1, <2>2, <2>3, <2>5, <1>3, ReceivesStays DEF OutputInv
  <2>7. Receives(i)'
    BY <2>2 DEF Receives
  <2>8. Exchange!Deliver(i)
    BY <1>1, <1>2, <1>4, FinishDelivers
  <2> QED
    BY <2>3, <2>6, <2>7, <2>8 DEF OutputInv
<1>5. CASE ~FinishPayload(i)
  <2>1. /\ UNCHANGED delivered
        /\ (\E place : at' = [at EXCEPT ![i] = place])
        /\ (plan' = plan \/ \E p : plan' = [plan EXCEPT ![i] = p])
        /\ (wave' = wave \/ \E w : wave' = [wave EXCEPT ![i] = w])
    BY <1>5 DEF Member, BeforeTokenDispatch, BeforeTokenCombine, MatrixGathered, Summarise, BuildPlan,
           AwaitPlan, LengthKnown, Materialise, StartPayload, EnterWave, LeaveWave, Raise
  <2>2. \A j : Payload(j)' = Payload(j)
    BY <2>1 DEF Payload
  <2>3. \A j \in Members : Payload(j) \in Nat
    BY <1>2, Lengths
  <2>4. \A j \in Members \ {i} : at'[j] = at[j] /\ plan'[j] = plan[j] /\ wave'[j] = wave[j]
    BY <2>1, <1>2 DEF Shape
  <2>5. ASSUME NEW j \in Members \ {i}, output'[j] = output[j] PROVE Receives(j)'
    BY <2>2, <2>3, <2>4, <2>5, <1>3, ReceivesStays DEF OutputInv
  <2>6. CASE StartPayload(i)
    <3>1. \A v \in DOMAIN plan[i].waves : v \in Nat \ {0}
      <4>1. PICK p : Holds(i, p)
        BY <2>6, <1>1 DEF StartPayload, Position
      <4>2. p.waves \in Seq(SUBSET Task) /\ DOMAIN plan[i].waves = DOMAIN p.waves
        BY <4>1, MaterialisedWaves DEF Holds, Complete
      <4> QED
        BY <4>2
    <3> QED
      BY <3>1, <2>1, <2>5, <2>6, <1>2, <1>3, StartReceives DEF OutputInv
  <2>7. CASE LeaveWave(i)
    BY <2>1, <2>5, <2>7, <1>1, <1>2, <1>3, LeaveReceives DEF OutputInv
  <2>8. CASE ~(StartPayload(i) \/ LeaveWave(i))
    <3>1. UNCHANGED output
      BY <2>8, <1>5 DEF Member, BeforeTokenDispatch, BeforeTokenCombine, MatrixGathered, Summarise,
             BuildPlan, AwaitPlan, LengthKnown, Materialise, EnterWave, Raise
    <3>2. Receives(i)'
      <4>1. CASE EnterWave(i)
        <5>1. /\ at' = [at EXCEPT ![i] = "wave"] /\ UNCHANGED <<plan, wave>>
              /\ at[i] = "executing" /\ wave[i] \in DOMAIN plan[i].waves
          BY <4>1 DEF EnterWave
        <5> QED
          BY <5>1, <3>1, <2>2, <2>3, <1>3, ReceivesStays DEF OutputInv
      <4>2. CASE ~EnterWave(i)
        <5>1. at'[i] \notin {"executing", "wave"}
          <6>1. \E place \in {"matrix", "summary", "length", "payload", "transport", "raised"} :
                  at' = [at EXCEPT ![i] = place]
            BY <4>2, <2>8, <1>5 DEF Member, BeforeTokenDispatch, BeforeTokenCombine, MatrixGathered,
                   Summarise, BuildPlan, AwaitPlan, LengthKnown, Materialise, Raise
          <6> QED
            BY <6>1, <1>2 DEF Shape
        <5> QED
          BY <5>1 DEF Receives
      <4> QED
        BY <4>1, <4>2
    <3> QED
      BY <3>1, <3>2, <2>1, <2>5, <1>3 DEF OutputInv
  <2> QED
    BY <2>6, <2>7, <2>8
<1> QED
  BY <1>4, <1>5

\* In a group of the ranks 0 .. N-1, what the members give to the model is what the native
\* all-to-all gives: the synchronous mode implements the native exchange.
THEOREM NativeTensorsAreKept == ASSUME WholeGroup PROVE SyncSpec => ExchangesNatively
<1>1. Init => OutputInv /\ Exchange!Init
  <2> SUFFICES ASSUME Init PROVE OutputInv /\ Exchange!Init
    OBVIOUS
  <2>1. OutputInv
    BY DEF Init, OutputInv, Receives
  <2>2. Exchange!Init
    BY DEF Init, Exchange!Init, Members
  <2> QED
    BY <2>1, <2>2
<1>2. SyncInv /\ SyncInv' /\ OutputInv /\ [Next]_vars =>
        OutputInv' /\ [Exchange!Next]_<<demand, delivered>>
  <2> SUFFICES ASSUME SyncInv, SyncInv', OutputInv, [Next]_vars
               PROVE  OutputInv' /\ [Exchange!Next]_<<demand, delivered>>
    OBVIOUS
  <2>1. CASE Next
    <3>1. PICK i \in Members : Member(i)
      BY <2>1 DEF Next
    <3>2. OutputInv' /\ (Exchange!Deliver(i) \/ UNCHANGED <<demand, delivered>>)
      BY <3>1, StepsKeepOutput
    <3> QED
      BY <3>2 DEF Exchange!Next, Members
  <2>2. CASE UNCHANGED vars
    <3>1. UNCHANGED <<demand, at, plan, wave, output, delivered>>
      BY <2>2 DEF vars
    <3>2. \A j \in Members : Payload(j) \in Nat /\ Payload(j)' = Payload(j)
      BY <3>1, Lengths DEF Payload, SyncInv
    <3>3. ASSUME NEW j \in Members PROVE Receives(j)'
      BY <3>1, <3>2, ReceivesStays DEF OutputInv
    <3> QED
      BY <3>1, <3>3 DEF OutputInv
  <2> QED
    BY <2>1, <2>2
<1> QED
  BY <1>1, <1>2, SyncInvariant, PTL DEF SyncSpec, ExchangesNatively, Exchange!Spec

----------------------------------------------------------------------------
(* Where the ranks are 0 .. N-1, no member raises and one can always go on. *)

\* Every bucket of an edge is at one place of Q, and L is how many rows it has.
BucketsAt(Q, nr, L, rows, b) ==
  /\ \A x \in Q : nr[x] \in 0 .. Buckets(rows, b) - 1 /\ L[x] = RowsOf(rows, b, nr[x])
  /\ \A o \in 0 .. Buckets(rows, b) - 1 : \E x \in Q : nr[x] = o
  /\ \A x, y \in Q : nr[x] = nr[y] => x = y

\* Together they have the rows of the edge.
LEMMA BucketsAddUp ==
  ASSUME NEW rows \in Nat, NEW b \in Nat, NEW Q, NEW nr, NEW L, BucketsAt(Q, nr, L, rows, b)
  PROVE  IsFiniteSet(Q) /\ Total(L, Q) = rows
<1>0. /\ \A x \in Q : nr[x] \in 0 .. Buckets(rows, b) - 1 /\ L[x] = RowsOf(rows, b, nr[x])
      /\ \A o \in 0 .. Buckets(rows, b) - 1 : \E x \in Q : nr[x] = o
      /\ \A x, y \in Q : nr[x] = nr[y] => x = y
  BY DEF BucketsAt
<1>1. PICK s, q : s = StepOf(rows, b) /\ q = Buckets(rows, b)
  OBVIOUS
<1>2. /\ q \in Nat /\ s \in Nat /\ (rows = 0 => q = 0)
      /\ rows # 0 => s # 0 /\ q # 0 /\ s * q - s < rows /\ rows <= s * q
  <2>1. CASE rows = 0
    BY <2>1, <1>1 DEF Buckets, StepOf
  <2>2. CASE rows # 0
    <3>1. s \in Nat \ {0}
      BY <2>2, <1>1 DEF StepOf
    <3>2. q = (rows + s - 1) \div s
      BY <2>2, <1>1 DEF Buckets
    <3>3. q \in Nat /\ s * q <= rows + s - 1 /\ rows <= s * q
      BY <3>1, <3>2
    <3>4. s * q \in Nat /\ (q = 0 => s * q = 0)
      BY <3>1, <3>3
    <3> QED
      BY <2>2, <3>1, <3>3, <3>4
  <2> QED
    BY <2>1, <2>2
<1>3. \A x \in Q : L[x] \in Nat
  BY <1>0, BucketHasRows
<1> DEFINE Part(m) == {x \in Q : nr[x] < m}
           Upto(m) == IsFiniteSet(Part(m)) /\ Total(L, Part(m)) = IF m = q THEN rows ELSE s * m
<1>4. Upto(0)
  <2>1. Part(0) = {}
    BY <1>0, <1>1, <1>2
  <2>2. IsFiniteSet({}) /\ Total(L, {}) = 0
    BY FS_EmptySet, TotalWithout
  <2>3. s * 0 = 0 /\ (q = 0 => rows = 0)
    BY <1>2
  <2> QED
    BY <2>1, <2>2, <2>3
<1>5. ASSUME NEW m \in 1 .. q, Upto(m - 1) PROVE Upto(m)
  <2>1. PICK x \in Q : nr[x] = m - 1
    <3>1. m - 1 \in 0 .. Buckets(rows, b) - 1
      BY <1>1, <1>2
    <3> QED
      BY <3>1, <1>0
  <2>2. Part(m) = Part(m - 1) \cup {x} /\ Part(m) \ {x} = Part(m - 1) /\ x \in Part(m)
    <3>1. \A y \in Q : nr[y] \in Nat /\ (nr[y] = m - 1 => y = x)
      BY <2>1, <1>0, <1>1, <1>2
    <3>2. \A y \in Q : nr[y] < m <=> nr[y] < m - 1 \/ y = x
      BY <3>1, <2>1
    <3>3. ~ (nr[x] < m - 1) /\ nr[x] < m
      BY <2>1
    <3> QED
      BY <3>2, <3>3
  <2>3. IsFiniteSet(Part(m))
    <3> HIDE DEF Part
    <3> QED
      BY <2>2, <1>5, FS_AddElement
  <2>4. Total(L, Part(m)) = L[x] + Total(L, Part(m - 1))
    <3>1. \A y \in Part(m) : L[y] \in Nat
      BY <1>3
    <3> HIDE DEF Part
    <3> QED
      BY <2>2, <2>3, <3>1, TotalWithout
  <2>5. PICK c : c = s * (m - 1)
    OBVIOUS
  <2>6. Total(L, Part(m - 1)) = c
    BY <2>5, <1>5, <1>2
  <2>7. rows # 0 /\ c \in Nat /\ s * m = c + s /\ (m - 1) * s = c
    BY <2>5, <1>2
  <2>8. L[x] = IF rows - c < s THEN rows - c ELSE s
    <3>1. L[x] = RowsOf(rows, b, m - 1)
      BY <2>1, <1>0
    <3> QED
      BY <3>1, <2>7, <1>1 DEF RowsOf
  <2>9. m # q => s * m <= s * q - s
    <3>1. m # q => m <= q - 1
      BY <1>2
    <3>2. s * (q - 1) = s * q - s
      BY <1>2
    <3>3. m <= q - 1 => s * m <= s * (q - 1)
      BY <1>2, <2>7
    <3> QED
      BY <3>1, <3>2, <3>3
  <2>10. s * q \in Nat /\ s * m \in Nat
    BY <1>2
  <2>11. c + L[x] = IF m = q THEN rows ELSE s * m
    <3>1. CASE m = q
      BY <3>1, <2>7, <2>8, <1>2
    <3>2. CASE m # q
      BY <3>2, <2>7, <2>8, <2>9, <2>10, <1>2
    <3> QED
      BY <3>1, <3>2
  <2>12. L[x] \in Nat
    BY <1>3
  <2>13. Total(L, Part(m)) = IF m = q THEN rows ELSE s * m
    BY <2>4, <2>6, <2>7, <2>11, <2>12
  <2> QED
    BY <2>3, <2>13
<1>6. Upto(q)
  <2> HIDE DEF Upto
  <2> DEFINE B == {m \in 0 .. q : ~Upto(m)}
  <2> SUFFICES ASSUME B # {} PROVE FALSE
    BY <1>2
  <2>1. B \subseteq Nat
    OBVIOUS
  <2>2. PICK m \in B : \A l \in B : m <= l
    <3> HIDE DEF B
    <3> QED
      BY <2>1, LeastNumber
  <2>3. m \in 1 .. q /\ ~Upto(m) /\ m - 1 \in 0 .. q
    BY <2>2, <1>2, <1>4
  <2>4. m - 1 \notin B
    <3> HIDE DEF B
    <3> QED
      BY <2>2, <2>3
  <2> QED
    BY <2>3, <2>4, <1>5
<1>7. Part(q) = Q
  BY <1>0, <1>1, <1>2
<1> QED
  BY <1>6, <1>7

\* The rows of the tasks at some places of a plan
LEMMA RowsOfPlaces ==
  ASSUME NEW i, NEW p, NEW Q, IsFiniteSet(Q), NEW L, L = [x \in Q |-> TaskRows(i, p, x[2])],
         \A x \in Q : L[x] \in Nat
  PROVE  SumOf(LAMBDA x : TaskRows(i, p, x[2]), Q) = Total(L, Q)
<1> DEFINE any(z) == CHOOSE x \in z : TRUE
           it == CHOOSE it : it = [z \in SUBSET Q |-> IF z = {} THEN 0
                                                      ELSE TaskRows(i, p, any(z)[2]) + it[z \ {any(z)}]]
<1>1. \A z \in SUBSET Q : z # {} => any(z) = Taken(z) /\ L[Taken(z)] = TaskRows(i, p, any(z)[2])
  BY DEF Taken
<1> HIDE DEF any
<1>2. PICK g : Sums(g, L, Q)
  BY TotalIsTheSum
<1>3. g = [z \in SUBSET Q |-> IF z = {} THEN 0 ELSE TaskRows(i, p, any(z)[2]) + g[z \ {any(z)}]]
  BY <1>1, <1>2 DEF Sums
<1>4. it = [z \in SUBSET Q |-> IF z = {} THEN 0 ELSE TaskRows(i, p, any(z)[2]) + it[z \ {any(z)}]]
  BY <1>3
<1>5. SumOf(LAMBDA x : TaskRows(i, p, x[2]), Q) = it[Q]
  BY DEF SumOf, MapThenSumSet, MapThenFoldSet, any
<1> HIDE DEF it
<1>6. Sums(it, L, Q)
  BY <1>1, <1>4 DEF Sums
<1> QED
  BY <1>5, <1>6, TotalIsTheSum

\* A plan with every bucket that a member sends once is one that member accepts.
LEMMA PlanValidates ==
  ASSUME Counted, NEW i \in Members, Payload(i) \in 1 .. Exchange!Payloads,
         NEW p, p.bucket_rows \in Nat, Exact(p.waves),
         \A w \in DOMAIN p.waves : p.waves[w] \subseteq Task,
         \A w \in DOMAIN p.waves : \A t \in p.waves[w] : t.src = i =>
           t.bucket \in 0 .. Buckets(Rows(i, i, t.dst), p.bucket_rows) - 1,
         \A d \in Members \ {i} : \A o \in 0 .. Buckets(Rows(i, i, d), p.bucket_rows) - 1 :
           \E w \in DOMAIN p.waves : [src |-> i, dst |-> d, bucket |-> o] \in p.waves[w]
  PROVE  Validates(i, p)
<1>1. ASSUME NEW d \in Members \ {i},
             NEW Q, Q = UNION {{<<w, t>> : t \in {u \in p.waves[w] : u.src = i /\ u.dst = d}} :
                                 w \in DOMAIN p.waves}
      PROVE  SumOf(LAMBDA x : TaskRows(i, p, x[2]), Q) = Rows(i, i, d)
  <2>1. PICK rows, b : rows = Rows(i, i, d) /\ b = p.bucket_rows
    OBVIOUS
  <2>2. rows \in Nat /\ b \in Nat
    BY <2>1, RowsAreCounted DEF Rows
  <2>3. PICK nr, L : nr = [x \in Q |-> x[2].bucket] /\ L = [x \in Q |-> TaskRows(i, p, x[2])]
    OBVIOUS
  <2>4. ASSUME NEW x \in Q
        PROVE  /\ x = <<x[1], x[2]>> /\ x[1] \in DOMAIN p.waves /\ x[2] \in p.waves[x[1]]
               /\ x[2].src = i /\ x[2].dst = d /\ x[2] \in Task
    BY <1>1
  <2>5. \A x \in Q : nr[x] \in 0 .. Buckets(rows, b) - 1 /\ L[x] = RowsOf(rows, b, nr[x])
    <3> SUFFICES ASSUME NEW x \in Q
                 PROVE  nr[x] \in 0 .. Buckets(rows, b) - 1 /\ L[x] = RowsOf(rows, b, nr[x])
      OBVIOUS
    <3>1. nr[x] \in 0 .. Buckets(rows, b) - 1
      BY <2>1, <2>3, <2>4
    <3>2. L[x] = RowsOf(rows, b, nr[x])
      BY <2>1, <2>3, <2>4 DEF TaskRows
    <3> QED
      BY <3>1, <3>2
  <2>6. \A o \in 0 .. Buckets(rows, b) - 1 : \E x \in Q : nr[x] = o
    <3> SUFFICES ASSUME NEW o \in 0 .. Buckets(rows, b) - 1 PROVE \E x \in Q : nr[x] = o
      OBVIOUS
    <3>1. PICK t : t = [src |-> i, dst |-> d, bucket |-> o]
      OBVIOUS
    <3>2. PICK w \in DOMAIN p.waves : t \in p.waves[w]
      BY <3>1, <2>1
    <3>3. t.src = i /\ t.dst = d /\ t.bucket = o
      BY <3>1
    <3>4. <<w, t>> \in Q
      BY <3>2, <3>3, <1>1
    <3>5. nr[<<w, t>>] = o
      BY <3>3, <3>4, <2>3
    <3> QED
      BY <3>4, <3>5
  <2>7. \A x, y \in Q : nr[x] = nr[y] => x = y
    <3> SUFFICES ASSUME NEW x \in Q, NEW y \in Q, nr[x] = nr[y] PROVE x = y
      OBVIOUS
    <3>1. x[2].bucket = y[2].bucket
      BY <2>3
    <3>2. x[2] = y[2]
      BY <3>1, <2>4 DEF Task
    <3>3. x[1] = y[1]
      BY <3>2, <2>4 DEF Exact
    <3> QED
      BY <3>2, <3>3, <2>4
  <2>8. IsFiniteSet(Q) /\ Total(L, Q) = rows
    <3>1. BucketsAt(Q, nr, L, rows, b)
      BY <2>5, <2>6, <2>7 DEF BucketsAt
    <3> QED
      BY <3>1, <2>2, BucketsAddUp
  <2>9. \A x \in Q : L[x] \in Nat
    BY <2>2, <2>5, BucketHasRows
  <2>10. L = [x \in Q |-> TaskRows(i, p, x[2])]
    BY <2>3
  <2>11. SumOf(LAMBDA x : TaskRows(i, p, x[2]), Q) = Total(L, Q)
    BY <2>8, <2>9, <2>10, RowsOfPlaces
  <2> QED
    BY <2>1, <2>8, <2>11
<1>2. \A w \in DOMAIN p.waves : \A t, u \in p.waves[w] : t # u => t.src # u.src /\ t.dst # u.dst
  BY DEF Exact
<1> QED
  BY <1>1, <1>2 DEF Validates

\* What the root builds is such a plan, and so is what a member keeps of it.
LEMMA RootPlanValidates ==
  ASSUME Counted, NEW i \in Members, Payload(i) \in 1 .. Exchange!Payloads,
         NEW p, Complete(p, Payload(i)), p.bucket_rows \in Nat, Exact(p.waves)
  PROVE  /\ (\A w \in DOMAIN p.waves : \A t \in p.waves[w] :
                t.bucket \in 0 .. Buckets(Exchange!Rows(Payload(i), t.src, t.dst), p.bucket_rows) - 1)
              => Validates(i, p)
         /\ Validates(i, Materialised(i, p))
<1>1. /\ \A w \in DOMAIN p.waves : p.waves[w] \subseteq Task
      /\ \A d \in Members \ {i} : \A o \in 0 .. Buckets(Rows(i, i, d), p.bucket_rows) - 1 :
           \E w \in DOMAIN p.waves : [src |-> i, dst |-> d, bucket |-> o] \in p.waves[w]
  <2>1. p.waves \in Seq(SUBSET Task)
    BY DEF Complete
  <2> QED
    BY <2>1 DEF Complete, Rows
<1>2. ASSUME \A w \in DOMAIN p.waves : \A t \in p.waves[w] :
               t.bucket \in 0 .. Buckets(Exchange!Rows(Payload(i), t.src, t.dst), p.bucket_rows) - 1
      PROVE  Validates(i, p)
  <2>1. \A w \in DOMAIN p.waves : \A t \in p.waves[w] : t.src = i =>
          t.bucket \in 0 .. Buckets(Rows(i, i, t.dst), p.bucket_rows) - 1
    BY <1>2 DEF Rows
  <2> QED
    BY <2>1, <1>1, PlanValidates
<1>3. Validates(i, Materialised(i, p))
  <2>1. PICK m : m = Materialised(i, p)
    OBVIOUS
  <2>2. /\ m.bucket_rows = p.bucket_rows /\ DOMAIN m.waves = DOMAIN p.waves
        /\ \A w \in DOMAIN p.waves : m.waves[w] =
             {t \in p.waves[w] : /\ i \in {t.src, t.dst}
                                /\ t.bucket \in 0 .. Buckets(Rows(i, t.src, t.dst), p.bucket_rows) - 1}
    BY <2>1 DEF Materialised
  <2>3. Exact(m.waves)
    BY <2>2 DEF Exact
  <2>4. \A w \in DOMAIN m.waves : m.waves[w] \subseteq Task
    BY <2>2, <1>1
  <2>5. \A w \in DOMAIN m.waves : \A t \in m.waves[w] : t.src = i =>
          t.bucket \in 0 .. Buckets(Rows(i, i, t.dst), m.bucket_rows) - 1
    BY <2>2
  <2>6. ASSUME NEW d \in Members \ {i}, NEW o \in 0 .. Buckets(Rows(i, i, d), m.bucket_rows) - 1
        PROVE  \E w \in DOMAIN m.waves : [src |-> i, dst |-> d, bucket |-> o] \in m.waves[w]
    <3>1. PICK t : t = [src |-> i, dst |-> d, bucket |-> o]
      OBVIOUS
    <3>2. PICK w \in DOMAIN p.waves : t \in p.waves[w]
      BY <3>1, <2>2, <1>1
    <3>3. t.src = i /\ t.dst = d /\ t.bucket = o
      BY <3>1
    <3>4. t \in m.waves[w]
      BY <3>2, <3>3, <2>2
    <3> QED
      BY <3>1, <3>2, <3>4, <2>2
  <2>7. m.bucket_rows \in Nat
    BY <2>2
  <2> QED
    BY <2>1, <2>3, <2>4, <2>5, <2>6, <2>7, PlanValidates
<1> QED
  BY <1>2, <1>3

\* The encoded plan has elements, its header if nothing else.
LEMMA PlanHasElements ==
  ASSUME NEW p, p.waves \in Seq(SUBSET Task), \A w \in DOMAIN p.waves : IsFiniteSet(p.waves[w])
  PROVE  Numel(p) > 0
<1> DEFINE any(z) == CHOOSE x \in z : TRUE
           size(w) == 2 + 4 * Cardinality(p.waves[w])
           it == CHOOSE it : it = [z \in SUBSET DOMAIN p.waves |-> IF z = {} THEN 0 ELSE size(any(z)) + it[z \ {any(z)}]]
<1>1. PICK D, L : D = DOMAIN p.waves /\ L = [w \in D |-> size(w)]
  OBVIOUS
<1>2. IsFiniteSet(D) /\ \A w \in D : L[w] \in Nat
  <2>1. \A w \in D : Cardinality(p.waves[w]) \in Nat
    BY <1>1, FS_CardinalityType
  <2>2. D = 1 .. Len(p.waves) /\ Len(p.waves) \in Nat
    BY <1>1
  <2>3. IsFiniteSet(D)
    BY <2>2, FS_Interval
  <2> QED
    BY <1>1, <2>1, <2>3
<1>3. \A z \in SUBSET D : z # {} => any(z) = Taken(z) /\ L[Taken(z)] = size(any(z))
  BY <1>1 DEF Taken
<1>4. Numel(p) = 16 + it[D]
  BY <1>1 DEF Numel, SumOf, MapThenSumSet, MapThenFoldSet
<1> HIDE DEF any, size
<1>5. PICK g : Sums(g, L, D)
  BY <1>2, TotalIsTheSum
<1>6. g = [z \in SUBSET D |-> IF z = {} THEN 0 ELSE size(any(z)) + g[z \ {any(z)}]]
  BY <1>3, <1>5 DEF Sums
<1>7. it = [z \in SUBSET D |-> IF z = {} THEN 0 ELSE size(any(z)) + it[z \ {any(z)}]]
  BY <1>1, <1>6
<1> HIDE DEF it
<1>8. Sums(it, L, D)
  BY <1>3, <1>7 DEF Sums
<1>9. it[D] = Total(L, D) /\ Total(L, D) \in Nat
  BY <1>8, <1>2, TotalIsTheSum, TotalWithout
<1> QED
  BY <1>4, <1>9

\* What the root has broadcast, and what it is about to
RootCalls ==
  \A n \in 1 .. Len(calls[1]) :
    /\ calls[1][n].op \in Ops
    /\ calls[1][n].op = "length" => calls[1][n].data > 0
    /\ calls[1][n].op = "payload" => Exact(calls[1][n].data.waves)
RootPlan == at[1] = "length" => Exact(plan[1].waves)

\* Nobody has raised, and who is done has had all the payloads.
AllGoOn == \A i \in Members : at[i] # "raised" /\ (at[i] = "done" => Payload(i) > Exchange!Payloads)

PlansInv == RootCalls /\ RootPlan /\ AllGoOn

\* A plan is broadcast only after its length.
LEMMA LengthComesFirst ==
  ASSUME NEW H, Shape, History(H), RootCalls, NEW n \in 1 .. Len(calls[1]), H[n].op = "payload"
  PROVE  n - 1 \in 1 .. Len(calls[1]) /\ calls[1][n - 1].op = "length"
<1>1. Len(calls[1]) \in Nat /\ 1 \in Members
  BY RootIsAMember, Lengths
<1>2. \A k : Opening(k).op \in {"matrix", "summary"}
  BY DEF Opening
<1>3. \A k, w, p : AfterWave(k, w, p).op \in {"matrix", "summary", "wave"}
  BY <1>2 DEF AfterWave
<1>4. PICK m : m = n - 1
  OBVIOUS
<1>5. m \in 0 .. Len(calls[1]) - 1 /\ m + 1 = n
  BY <1>1, <1>4
<1>6. Ahead(H, m).op = "payload"
  <2>1. H[m + 1] = Ahead(H, m)
    BY <1>1, <1>5 DEF History
  <2> QED
    BY <2>1, <1>5
<1>7. m # 0
  BY <1>2, <1>6 DEF Ahead
<1>8. m \in 1 .. Len(calls[1])
  BY <1>1, <1>5, <1>7
<1>9. calls[1][m].op = H[m].op /\ calls[1][m].op \in Ops
  BY <1>1, <1>8 DEF History, RootCalls
<1>10. H[m].op = "length"
  <2>1. m \in Nat \ {0}
    BY <1>1, <1>8
  <2>2. CASE H[m].op \in {"matrix", "summary"}
    <3>1. Ahead(H, m).op \in {"summary", "length"}
      BY <2>1, <2>2, AgreementGoesOn DEF Agreement
    <3> QED
      BY <3>1, <1>6
  <2>3. CASE H[m].op \in {"payload", "wave"}
    <3>1. \E k, w, p : Ahead(H, m) = AfterWave(k, w, p)
      BY <2>1, <2>3, AgreementGoesOn
    <3>2. Ahead(H, m).op \in {"matrix", "summary", "wave"}
      BY <3>1, <1>3
    <3> QED
      BY <3>2, <1>6
  <2> QED
    BY <2>2, <2>3, <1>9 DEF Ops
<1> QED
  BY <1>4, <1>8, <1>9, <1>10

\* The root builds a plan that it accepts, of some length.
LEMMA RootBuilds ==
  ASSUME NEW H, Shape, Counted, History(H), NEW i \in Members, Position(H, i),
         at[i] = "summary", MayReturn(i), WholeGroup
  PROVE  /\ Validates(i, PlanOf(i)) /\ Exact(PlanOf(i).waves)
         /\ Numel(PlanOf(i)) > 0
<1>1. Payload(i) \in 1 .. Exchange!Payloads
  BY PayloadIsOfALayer
<1>2. PICK edges : edges = UNION {EdgesFrom(j, Payload(i)) : j \in Members}
  OBVIOUS
<1>3. PICK b : b = setup.bucket_rows
  OBVIOUS
<1>4. b \in Nat
  BY <1>3 DEF Counted
<1>5. PICK p : p = [bucket_rows |-> b, waves |-> Pack(Tasks(edges, b))]
  OBVIOUS
<1>6. PlanOf(i) = p
  BY <1>2, <1>3, <1>5, CollectedIsWhole DEF PlanOf
<1>7. p.bucket_rows = b /\ p.waves = Pack(Tasks(edges, b))
  BY <1>5
<1>8. Complete(p, Payload(i))
  BY <1>1, <1>2, <1>4, <1>5, PlanIsComplete
<1>9. /\ p.waves \in Seq(SUBSET Task) /\ Exact(p.waves)
      /\ \A w \in DOMAIN p.waves : IsFiniteSet(p.waves[w]) /\ \A t \in p.waves[w] :
           t.bucket \in 0 .. Buckets(Exchange!Rows(Payload(i), t.src, t.dst), b) - 1
  BY <1>1, <1>2, <1>4, <1>7, PlanIsExact
<1>10. Validates(i, p)
  BY <1>1, <1>4, <1>7, <1>8, <1>9, RootPlanValidates
<1>11. Numel(p) > 0
  BY <1>9, PlanHasElements
<1> QED
  BY <1>6, <1>9, <1>10, <1>11

\* What the root has broadcast is accepted by the member that receives it.
LEMMA MemberAccepts ==
  ASSUME NEW H, Shape, Counted, History(H), RootCalls, NEW i \in Members, Position(H, i),
         at[i] = "payload", MayReturn(i), WholeGroup, NEW n, n = Len(calls[i])
  PROVE  calls[1][n - 1].data > 0 /\ Validates(i, Materialised(i, calls[1][n].data))
<1>1. n > 0 /\ H[n].op = "payload" /\ H[n].k = Payload(i) /\ n <= Len(calls[1])
  BY CallReturns DEF Ops
<1>2. n \in 1 .. Len(calls[1])
  BY <1>1, RootIsAMember, Lengths
<1>3. calls[1][n - 1].data > 0
  BY <1>1, <1>2, LengthComesFirst DEF RootCalls
<1>4. PICK p : p = calls[1][n].data
  OBVIOUS
<1>5. calls[1][n].op = "payload" /\ Fits(H[n], 1, p)
  BY <1>1, <1>2, <1>4, RootIsAMember DEF History
<1>6. Complete(p, Payload(i)) /\ p.bucket_rows \in Nat /\ Exact(p.waves)
  <2>1. Complete(p, Payload(i))
    BY <1>1, <1>5 DEF Fits
  <2> QED
    BY <2>1, <1>2, <1>4, <1>5 DEF Counted, RootCalls
<1>7. Validates(i, Materialised(i, p))
  BY <1>6, PayloadIsOfALayer, RootPlanValidates
<1> QED
  BY <1>3, <1>4, <1>7

LEMMA StepsKeepPlans ==
  ASSUME SyncInv, WholeGroup, PlansInv, NEW i \in Members, Member(i)
  PROVE  PlansInv'
<1>1. PICK H : History(H) /\ Position(H, i)
  BY DEF SyncInv
<1>2. Shape /\ Counted /\ RootCalls /\ RootPlan /\ AllGoOn
  BY DEF SyncInv, PlansInv
\* Of the calls of the root, two are of interest.
<1>3. ASSUME NEW op \in Ops, NEW data, Post(i, op, data), i = 1 /\ op = "length" => data > 0,
             i = 1 /\ op = "payload" => Exact(data.waves)
      PROVE  RootCalls'
  <2>1. CASE i # 1
    <3>1. calls'[1] = calls[1]
      BY <2>1, <1>2, <1>3, RootIsAMember DEF Post, Shape
    <3> QED
      BY <3>1, <1>2 DEF RootCalls, Exact
  <2>2. CASE i = 1
    <3>1. PICK call : call = [op |-> op, data |-> data]
      OBVIOUS
    <3>2. IsSequence(calls[1]) /\ calls'[1] = Append(calls[1], call) /\ call.op = op /\ call.data = data
      BY <2>2, <3>1, <1>2, <1>3, RootIsAMember DEF Post, Shape
    <3>3. /\ Len(calls[1]) \in Nat /\ Len(calls'[1]) = Len(calls[1]) + 1
          /\ calls'[1][Len(calls[1]) + 1] = call
          /\ \A m \in 1 .. Len(calls[1]) : calls'[1][m] = calls[1][m]
      BY <3>2, AppendOne
    <3>4. ASSUME NEW n \in 1 .. Len(calls'[1])
          PROVE  /\ calls'[1][n].op \in Ops
                 /\ calls'[1][n].op = "length" => calls'[1][n].data > 0
                 /\ calls'[1][n].op = "payload" => Exact(calls'[1][n].data.waves)
      <4>1. CASE n \in 1 .. Len(calls[1])
        BY <4>1, <3>3, <1>2 DEF RootCalls
      <4>2. CASE n \notin 1 .. Len(calls[1])
        <5>1. calls'[1][n].op = op /\ calls'[1][n].data = data
          BY <4>2, <3>2, <3>3
        <5> QED
          BY <5>1, <2>2, <1>3
      <4> QED
        BY <4>1, <4>2
    <3> QED
      BY <3>4 DEF RootCalls, Ops, Exact
  <2> QED
    BY <2>1, <2>2
<1>4. ASSUME UNCHANGED calls PROVE RootCalls'
  BY <1>2, <1>4 DEF RootCalls, Exact
\* A place that is neither the end nor a failure
<1>5. ASSUME NEW place, place \notin {"raised", "done"}, at' = [at EXCEPT ![i] = place], UNCHANGED delivered
      PROVE  AllGoOn'
  BY <1>2, <1>5 DEF AllGoOn, Payload, Shape
<1>6. ASSUME NEW place, at' = [at EXCEPT ![i] = place], i = 1 => place # "length",
             i = 1 \/ plan'[1] = plan[1]
      PROVE  RootPlan'
  BY <1>2, <1>6, RootIsAMember DEF RootPlan, Exact, Shape
<1>7. IsPlanner(i) <=> i = 1
  BY RootIsThePlanner, SyncAssumption DEF IsPlanner, Members
<1>8. CASE BuildPlan(i)
  <2>1. at[i] = "summary" /\ MayReturn(i) /\ i = 1
    BY <1>7, <1>8 DEF BuildPlan
  <2>2. PICK p : p = PlanOf(i)
    OBVIOUS
  <2>3. Validates(i, p) /\ Exact(p.waves) /\ Numel(p) > 0
    BY <2>1, <2>2, <1>1, <1>2, RootBuilds
  <2>4. /\ plan' = [plan EXCEPT ![i] = p] /\ Post(i, "length", Numel(p))
        /\ at' = [at EXCEPT ![i] = "length"] /\ UNCHANGED delivered
    BY <2>1, <2>2, <2>3, <1>8 DEF BuildPlan
  <2>5. RootPlan'
    <3>1. plan'[1] = p
      BY <2>1, <2>4, <1>2, RootIsAMember DEF Shape
    <3> QED
      BY <3>1, <2>3 DEF RootPlan, Exact
  <2>6. RootCalls'
    BY <2>3, <2>4, <1>3 DEF Ops
  <2> QED
    BY <2>4, <2>5, <2>6, <1>5 DEF PlansInv
<1>9. CASE Materialise(i)
  <2>1. PICK n : n = Len(calls[i])
    OBVIOUS
  <2>2. calls[1][n - 1].data > 0 /\ Validates(i, Materialised(i, calls[1][n].data))
    BY <2>1, <1>1, <1>2, <1>9, MemberAccepts DEF Materialise
  <2>3. /\ plan' = [plan EXCEPT ![i] = Materialised(i, calls[1][n].data)]
        /\ at' = [at EXCEPT ![i] = "transport"] /\ UNCHANGED <<calls, delivered>>
    BY <2>1, <2>2, <1>9 DEF Materialise
  <2>4. i = 1 \/ plan'[1] = plan[1]
    BY <2>3, <1>2, RootIsAMember DEF Shape
  <2> QED
    BY <2>3, <2>4, <1>4, <1>5, <1>6 DEF PlansInv
<1>10. CASE FinishPayload(i)
  <2>1. PICK place : place = IF Payload(i) % 3 = 1 THEN "transport"
                             ELSE IF Payload(i) = Exchange!Payloads THEN "done" ELSE "hook"
    OBVIOUS
  <2>2. /\ at' = [at EXCEPT ![i] = place]
        /\ plan' = [plan EXCEPT ![i] = IF Payload(i) % 3 # 1 THEN NoPlan ELSE @]
        /\ delivered' = [delivered EXCEPT ![i] = Append(@, output[i])] /\ UNCHANGED calls
    BY <2>1, <1>10 DEF FinishPayload
  <2>3. i = 1 \/ plan'[1] = plan[1]
    BY <2>2, <1>2, RootIsAMember DEF Shape
  <2>4. Payload(i)' = Payload(i) + 1
    <3>1. delivered'[i] = Append(delivered[i], output[i]) /\ IsSequence(delivered[i])
      BY <2>2, <1>2 DEF Shape
    <3>2. Len(delivered'[i]) = Len(delivered[i]) + 1
      BY <3>1, AppendOne
    <3> QED
      BY <3>2, <1>2, Lengths DEF Payload
  <2>5. AllGoOn'
    <3>1. \A j \in Members \ {i} : at'[j] = at[j] /\ Payload(j)' = Payload(j)
      BY <2>2, <1>2 DEF Shape, Payload
    <3>2. at'[i] = place
      BY <2>2, <1>2 DEF Shape
    <3>3. place = "done" => Payload(i) = Exchange!Payloads
      BY <2>1
    <3>4. Exchange!Payloads \in Nat /\ Exchange!Payloads + 1 > Exchange!Payloads
      BY SyncAssumption DEF Exchange!Payloads
    <3>5. place # "raised"
      BY <2>1
    <3>6. at'[i] # "raised" /\ (at'[i] = "done" => Payload(i)' > Exchange!Payloads)
      BY <3>2, <3>3, <3>4, <3>5, <2>4
    <3> QED
      BY <3>1, <3>6, <1>2 DEF AllGoOn
  <2>6. place # "length"
    BY <2>1
  <2> QED
    BY <2>2, <2>3, <2>5, <2>6, <1>4, <1>6 DEF PlansInv
<1>11. CASE BeforeTokenDispatch(i) \/ BeforeTokenCombine(i) \/ MatrixGathered(i)
  <2>1. PICK op \in {"matrix", "summary"} :
          (\E data : Post(i, op, data)) /\ at' = [at EXCEPT ![i] = op] /\ UNCHANGED <<plan, delivered>>
    BY <1>11 DEF BeforeTokenDispatch, BeforeTokenCombine, MatrixGathered, Summarise
  <2> QED
    BY <2>1, <1>3, <1>5, <1>6 DEF Ops, PlansInv
<1>12. CASE AwaitPlan(i)
  <2>1. /\ i # 1 /\ Post(i, "length", 0) /\ at' = [at EXCEPT ![i] = "length"]
        /\ UNCHANGED <<plan, delivered>>
    BY <1>7, <1>12 DEF AwaitPlan
  <2> QED
    BY <2>1, <1>3, <1>5, <1>6 DEF Ops, PlansInv
<1>13. CASE LengthKnown(i)
  <2>1. /\ at[i] = "length" /\ Post(i, "payload", plan[i]) /\ at' = [at EXCEPT ![i] = "payload"]
        /\ UNCHANGED <<plan, delivered>>
    BY <1>13 DEF LengthKnown
  <2>2. i = 1 => Exact(plan[i].waves)
    BY <2>1, <1>2 DEF RootPlan
  <2> QED
    BY <2>1, <2>2, <1>3, <1>5, <1>6 DEF Ops, PlansInv
<1>14. CASE EnterWave(i)
  <2>1. /\ \E data : Post(i, "wave", data)
        /\ at' = [at EXCEPT ![i] = "wave"] /\ UNCHANGED <<plan, delivered>>
    BY <1>14 DEF EnterWave
  <2> QED
    BY <2>1, <1>3, <1>5, <1>6 DEF Ops, PlansInv
<1>15. CASE StartPayload(i) \/ LeaveWave(i)
  <2>1. at' = [at EXCEPT ![i] = "executing"] /\ UNCHANGED <<calls, plan, delivered>>
    <3>1. CASE StartPayload(i)
      BY <3>1 DEF StartPayload
    <3>2. CASE LeaveWave(i)
      BY <3>2 DEF LeaveWave
    <3> QED
      BY <3>1, <3>2, <1>15
  <2>2. AllGoOn'
    BY <2>1, <1>5
  <2>3. RootPlan'
    BY <2>1, <1>6
  <2> QED
    BY <2>1, <2>2, <2>3, <1>4 DEF PlansInv
<1> QED
  BY <1>8, <1>9, <1>10, <1>11, <1>12, <1>13, <1>14, <1>15 DEF Member

\* No member raises, and while one is not done, some member that is not done can go on: if
\* it is in a collective, every other has made that call.
NobodyIsStuck ==
  /\ \A i \in Members : at[i] # "raised"
  /\ (\E i \in Members : at[i] # "done") => \E i \in Members : at[i] # "done" /\ Met(i)

\* In a group of the ranks 0 .. N-1 the root broadcasts a plan in every phase, every member
\* accepts its part of it, and the group never comes to a stop before all are done.
THEOREM GroupIsNeverStuck == ASSUME WholeGroup PROVE SyncSpec => [](RootPlansThePhase /\ NobodyIsStuck)
<1>1. Init => PlansInv
  <2> SUFFICES ASSUME Init PROVE PlansInv
    OBVIOUS
  <2>1. Len(calls[1]) = 0 /\ at[1] = "hook" /\ \A i \in Members : at[i] = "hook"
    BY RootIsAMember DEF Init
  <2> QED
    BY <2>1 DEF PlansInv, RootCalls, RootPlan, AllGoOn
<1>2. SyncInv /\ PlansInv /\ [Next]_vars => PlansInv'
  <2> SUFFICES ASSUME SyncInv, PlansInv, [Next]_vars PROVE PlansInv'
    OBVIOUS
  <2>1. CASE Next
    BY <2>1, StepsKeepPlans DEF Next
  <2>2. CASE UNCHANGED vars
    <3>1. UNCHANGED <<calls, at, plan, delivered>>
      BY <2>2 DEF vars
    <3> QED
      BY <3>1 DEF PlansInv, RootCalls, RootPlan, AllGoOn, Exact, Payload
  <2> QED
    BY <2>1, <2>2
<1>3. SyncInv /\ PlansInv => RootPlansThePhase
  <2> SUFFICES ASSUME SyncInv, PlansInv, NEW n \in DOMAIN calls[1], calls[1][n].op = "length"
               PROVE  calls[1][n].data > 0
    BY DEF RootPlansThePhase
  <2>1. IsSequence(calls[1])
    BY RootIsAMember DEF SyncInv, Shape
  <2>2. n \in 1 .. Len(calls[1])
    BY <2>1 DEF IsSequence
  <2> QED
    BY <2>2 DEF PlansInv, RootCalls
<1>4. SyncInv /\ PlansInv => NobodyIsStuck
  <2> SUFFICES ASSUME SyncInv, PlansInv, NEW a \in Members, at[a] # "done"
               PROVE  \E i \in Members : at[i] # "done" /\ Met(i)
    BY DEF NobodyIsStuck, PlansInv, AllGoOn
  <2>1. PICK H : History(H) /\ \A j \in Members : Position(H, j) /\ Reached(H, j)
    BY DEF SyncInv
  <2>2. Shape /\ Counted
    BY DEF SyncInv
  \* Of those that are not done, one has called least.
  <2>3. PICK i \in Members : at[i] # "done" /\ \A j \in Members : at[j] # "done" => Len(calls[i]) <= Len(calls[j])
    <3> DEFINE T == {Len(calls[j]) : j \in {m \in Members : at[m] # "done"}}
    <3>1. T \subseteq Nat /\ T # {}
      BY <2>2, Lengths
    <3>2. PICK l \in T : \A m \in T : l <= m
      <4> HIDE DEF T
      <4> QED
        BY <3>1, LeastNumber
    <3> QED
      BY <3>2
  <2>4. ASSUME at[i] \in Ops, NEW j \in Members PROVE Joins(j, i)
    <3>1. PICK n : n = Len(calls[i])
      OBVIOUS
    <3>2. n \in Nat \ {0} /\ Len(calls[j]) \in Nat
      BY <3>1, <2>1, <2>2, <2>4, Lengths DEF Position, Ops
    <3>3. n <= Len(calls[j])
      <4>1. CASE at[j] # "done"
        BY <4>1, <3>1, <2>3
      <4>2. CASE at[j] = "done"
        <5> SUFFICES ASSUME ~ (n <= Len(calls[j])) PROVE FALSE
          OBVIOUS
        <5>1. PICK m : m = Len(calls[j])
          OBVIOUS
        <5>2. m \in 0 .. n - 1 /\ m + 1 \in 1 .. n
          BY <5>1, <3>2
        <5>3. H[m + 1] = Opening(Payload(j))
          <6>1. H[m + 1] = Ahead(H, m)
            BY <5>2, <3>1, <2>1 DEF History
          <6>2. Position(H, j)
            BY <2>1
          <6> QED
            BY <6>1, <6>2, <5>1, <4>2 DEF Position
        <5>4. H[m + 1].k \in 1 .. Payload(i)
          BY <5>2, <3>1, <2>1 DEF Reached
        <5>5. Payload(j) > Exchange!Payloads /\ Payload(i) \in 1 .. Exchange!Payloads /\ Payload(j) \in Nat
          BY <4>2, <2>2, <2>3, Lengths, PayloadIsOfALayer DEF PlansInv, AllGoOn
        <5>6. H[m + 1].k = Payload(j)
          BY <5>3 DEF Opening
        <5>7. Exchange!Payloads \in Nat
          BY SyncAssumption DEF Exchange!Payloads
        <5> QED
          BY <5>4, <5>5, <5>6, <5>7
      <4> QED
        BY <4>1, <4>2
    <3>4. n \in 1 .. Len(calls[i]) /\ n \in 1 .. Len(calls[j])
      BY <3>1, <3>2, <3>3
    <3>5. calls[i][n].op = H[n].op /\ calls[j][n].op = H[n].op
      BY <3>4, <2>1 DEF History
    <3> QED
      BY <3>1, <3>3, <3>5 DEF Joins
  <2>5. Met(i)
    BY <2>4 DEF Met, Ops
  <2> QED
    BY <2>3, <2>5
<1> QED
  BY <1>1, <1>2, <1>3, <1>4, SyncInvariant, PTL DEF SyncSpec
=============================================================================
