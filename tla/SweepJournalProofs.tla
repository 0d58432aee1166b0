-------------------------- MODULE SweepJournalProofs --------------------------
(***************************************************************************)
(* What a sweep that may die at any step, and within the writing of a row, *)
(* can rely on, for any fixtures, treatments, repeats and number of        *)
(* starts.                                                                 *)
(*                                                                         *)
(* A row may be lost, or be read in part, and later in less; but a row     *)
(* that is read is one that was written, and was true when it was: of the  *)
(* journal no more is needed.  A process knows more than the journal it    *)
(* writes, as long as it lives, and never less; a crash leaves the journal *)
(* and the results, which the next start builds on.                        *)
(***************************************************************************)
EXTENDS SweepJournal, FiniteSetTheorems, TLAPS

Working == pc \in {"repeat", "runs", "oracle"}

Statuses == {"PASS", "FAILED", "INCOMPLETE", "INVALID", "PARTIAL"}

\* With the Oracle as the only treatment there is nothing to compare it with.
Comparable == ToSet(Treatments) # {Oracle}

SweepType ==
    /\ file \in Seq(Rows) /\ row \in Rows \cup {NoRow} /\ tail \in Tails
    /\ options \in Options
    /\ pc \in {"off", "fixture", "repeat", "runs", "oracle"}
    /\ committed \in [Keys -> Statuses \cup {"NONE"}]
    /\ position \in Nat \ {0} /\ repeat \in Nat \ {0}
    /\ fixtureFailed \in BOOLEAN /\ fixtureInvalid \in BOOLEAN
    /\ unresolved \in BOOLEAN /\ invalid \in BOOLEAN
    /\ queue \subseteq ToSet(Treatments)

\* What a row says is so: a run that has passed has its result, and so has every run
\* of a fixture that is complete.
IsTrue(r) ==
    /\ r.type = "RUNTIME" => r.key.kind = "run" /\ r.status = "PASS"
    /\ r.key.kind = "run" /\ r.status = "PASS" => r.key \in results
    /\ \A f \in ToSet(Fixtures) :
         r.key = CompleteKey(f) /\ r.status = "PASS" => RunsOf(f) \subseteq results

\* The rows are true, and a run that has passed has no row after that.
JournalInv ==
    /\ \A i \in DOMAIN file : IsTrue(file[i])
    /\ \A i, j \in DOMAIN file :
         i < j /\ file[i].key = file[j].key /\ file[i].key.kind = "run" => file[i].status # "PASS"
    /\ tail = "read" => file # <<>>

\* A process remembers the runs that have passed in the journal, and what it remembers
\* as passed or complete has its results.
MemoryFollowsJournal ==
    pc # "off" =>
        /\ \A i \in DOMAIN file :
             file[i].key.kind = "run" /\ file[i].status = "PASS" => committed[file[i].key] = "PASS"
        /\ \A k \in Keys : k.kind = "run" /\ committed[k] = "PASS" => k \in results
        /\ \A f \in ToSet(Fixtures) : committed[CompleteKey(f)] = "PASS" => RunsOf(f) \subseteq results

\* The fixture the process works on, and the results of it that the process holds
FixtureInv ==
    Working =>
        /\ position \in DOMAIN Fixtures
        /\ fixtureFailed => unresolved
        /\ fixtureInvalid => invalid
        /\ \A k \in RunsOf(Fixture) : Measured(k) /\ IsWhole(k) => k \in fixtureRows

Passed(n, t) == committed[RunKey(Fixture, n, t)] = "PASS"

\* A repeat that is over has passed, or the fixture counts as failed.
RepeatIsOver(n) == fixtureFailed \/ \A t \in ToSet(Treatments) : Passed(n, t)

\* A run of the repeat under way has passed, waits, is active, or has just ended.
RunsInv ==
    /\ pc # "runs" => active = {} /\ queue = {}
    /\ pc = "repeat" => \A n \in Repeats : n < repeat => RepeatIsOver(n)
    /\ pc = "oracle" => \A n \in Repeats : RepeatIsOver(n)
    /\ pc = "runs" =>
        /\ repeat \in Repeats
        /\ \A n \in Repeats : n < repeat => RepeatIsOver(n)
        /\ \A t \in ToSet(Treatments) :
            LET key == RunKey(Fixture, repeat, t) IN
            \/ fixtureFailed \/ Passed(repeat, t)
            \/ t \in queue \/ key \in active \/ (row # NoRow /\ row.key = key)
        /\ \A t \in queue : ~Passed(repeat, t) /\ RunKey(Fixture, repeat, t) \notin active
        /\ \A k \in active : \E t \in ToSet(Treatments) :
             k = RunKey(Fixture, repeat, t) /\ ~Passed(repeat, t)

\* The rows of a repeat can all be read.
RepeatIsWhole(n) == \A t \in ToSet(Treatments) : IsWhole(RunKey(Fixture, n, t))

\* The Oracle has been compared in the repeats before this one.
OracleInv ==
    pc = "oracle" =>
        /\ repeat > Warmups
        /\ Comparable =>
            \A n \in Repeats : n > Warmups /\ n < repeat /\ RepeatIsWhole(n) =>
                fixtureInvalid \/ committed[OracleKey(Fixture, n)] = "PASS"

\* The row under way is true and belongs where the process is.
RowFits ==
    row # NoRow =>
        /\ IsTrue(row)
        /\ \/ /\ row.type = "TRACE_FAILURE" /\ row.key.kind = "failure" /\ pc = "fixture"
           \/ /\ row.type \in {"RUNTIME", "FAILURE"} /\ pc = "runs"
              /\ row.type = "RUNTIME" <=> row.status = "PASS"
              /\ \E t \in ToSet(Treatments) :
                   /\ row.key = RunKey(Fixture, repeat, t)
                   /\ t \notin queue /\ row.key \notin active /\ ~Passed(repeat, t)
              /\ row.type = "RUNTIME" /\ Measured(row.key) => row.key \in fixtureRows
           \/ /\ row.type = "ORACLE_VALIDATION" /\ pc = "oracle" /\ repeat \in Repeats
              /\ row.key = OracleKey(Fixture, repeat)
              /\ Comparable /\ RepeatIsWhole(repeat) /\ row.status # "PASS" => fixtureInvalid
           \/ /\ row.type = "TRACE_COMPLETE" /\ pc = "oracle" /\ repeat \notin Repeats
              /\ row.key = CompleteKey(Fixture)
              /\ row.status = "PASS" => ~fixtureFailed /\ ~fixtureInvalid
              /\ row.status # "PASS" => fixtureFailed \/ fixtureInvalid

\* What the process has passed by has its results, unless the manifest will say otherwise.
ProgressInv ==
    /\ pc = "off" => position = 1
    /\ pc # "off" /\ ~unresolved /\ ~invalid =>
        \A i \in DOMAIN Fixtures : i < position => RunsOf(Fixtures[i]) \subseteq results

\* What the process holds
MemoryInv ==
    /\ MemoryFollowsJournal
    /\ FixtureInv
    /\ RunsInv
    /\ OracleInv
    /\ RowFits
    /\ ProgressInv

SweepInv ==
    /\ SweepType
    /\ JournalInv
    /\ MemoryInv
    /\ ManifestIsTrue

-----------------------------------------------------------------------------
\* The last row of a key

\* A set of numbers up to n that is not empty has a greatest one.
LEMMA GreatestIsThere ==
  ASSUME NEW n \in Nat, NEW S \in SUBSET (1 .. n), S # {}
  PROVE  \E x \in S : \A y \in S : x >= y
<1> DEFINE below(x) == {y \in S : y < x}
           range    == 0 .. Cardinality(S) - 1
           number   == [x \in S |-> Cardinality(below(x))]
<1>0. \A x \in S : x \in Int
  OBVIOUS
<1>1. IsFiniteSet(S) /\ Cardinality(S) \in Nat
  <2>1. IsFiniteSet(1 .. n)
    BY FS_Interval
  <2>2. QED  BY <2>1, FS_Subset, FS_CardinalityType
<1>2. ASSUME NEW x \in S
      PROVE  /\ IsFiniteSet(below(x)) /\ Cardinality(below(x)) \in Nat
             /\ Cardinality(below(x)) < Cardinality(S)
  <2>1. x \notin below(x) /\ below(x) \in SUBSET S
    OBVIOUS
  <2>2. below(x) # S
    BY <2>1
  <2> HIDE DEF below
  <2>3. /\ IsFiniteSet(below(x)) /\ Cardinality(below(x)) <= Cardinality(S)
        /\ Cardinality(S) # Cardinality(below(x))
    BY <1>1, <2>1, <2>2, FS_Subset
  <2>4. Cardinality(below(x)) \in Nat
    BY <2>3, FS_CardinalityType
  <2>5. QED  BY <1>1, <2>3, <2>4
<1>3. ASSUME NEW x \in S, NEW y \in S, x < y
      PROVE  Cardinality(below(x)) # Cardinality(below(y))
  <2>1. below(x) \in SUBSET below(y) /\ x \in below(y) /\ x \notin below(x)
    <3>1. x \in Int /\ y \in Int /\ \A z \in S : z < x => z < y
      BY <1>0, <1>3
    <3>2. ~(x < x)
      BY <3>1
    <3>3. QED  BY <1>3, <3>1, <3>2
  <2>2. below(x) # below(y)
    BY <2>1
  <2>3. IsFiniteSet(below(y))
    BY <1>2
  <2> HIDE DEF below
  <2>4. QED  BY <2>1, <2>2, <2>3, FS_Subset
<1>4. number \in Injection(S, range)
  <2> HIDE DEF below
  <2>1. \A x \in S : number[x] \in range
    BY <1>1, <1>2
  <2>2. \A x, y \in S : x # y => x < y \/ y < x
    OBVIOUS
  <2>3. \A x, y \in S : number[x] = number[y] => x = y
    BY <1>3, <2>2
  <2>4. number \in [S -> range] /\ DOMAIN number = S
    BY <2>1
  <2> HIDE DEF number, range
  <2>5. QED  BY <2>3, <2>4 DEF Injection, IsInjective
<1>5. IsFiniteSet(range) /\ Cardinality(range) = Cardinality(S)
  <2>1. PICK c \in Nat : c = Cardinality(S)
    BY <1>1
  <2>2. IsFiniteSet(0 .. c - 1) /\ Cardinality(0 .. c - 1) = c
    BY FS_Interval
  <2>3. QED  BY <2>1, <2>2
<1>6. number \in Surjection(S, range)
  <2> HIDE DEF number, range
  <2>1. QED  BY <1>4, <1>5, FS_Injection
<1>7. Cardinality(S) - 1 \in range
  BY <1>1, FS_EmptySet
<1>8. PICK x \in S : Cardinality(below(x)) = Cardinality(S) - 1
  <2> HIDE DEF below, range
  <2>1. QED  BY <1>6, <1>7 DEF Surjection
<1>9. below(x) = S \ {x}
  <2>1. below(x) \in SUBSET (S \ {x})
    OBVIOUS
  <2>2. IsFiniteSet(S \ {x}) /\ Cardinality(S \ {x}) = Cardinality(S) - 1
    BY <1>1, FS_RemoveElement
  <2> HIDE DEF below
  <2>3. QED  BY <1>8, <2>1, <2>2, FS_Subset
<1>10. QED  BY <1>9

\* committed_status_by_run_key reads the status of the last row of a key.
LEMMA StatusIsOfLastRow ==
  ASSUME file \in Seq(Rows), NEW k
  PROVE  /\ StatusOf(k) \in Statuses \cup {"NONE"}
         /\ StatusOf(k) = "PASS" <=> LastRowSays(k, "PASS")
<1> DEFINE I == {i \in 1 .. Len(file) : file[i].key = k}
<1>1. Len(file) \in Nat /\ DOMAIN file = 1 .. Len(file)
  OBVIOUS
<1>2. CASE I = {}
  <2>1. ~ \E i \in DOMAIN file : file[i].key = k
    BY <1>1, <1>2
  <2>2. QED  BY <2>1 DEF StatusOf, LastRowSays
<1>3. CASE I # {}
  <2>1. \E i \in DOMAIN file : file[i].key = k
    BY <1>1, <1>3
  <2>2. SelectLastInSeq(file, LAMBDA r : r.key = k) = Max(I)
    BY <1>3 DEF SelectLastInSeq
  <2>3. StatusOf(k) = file[Max(I)].status
    BY <2>1, <2>2 DEF StatusOf
  <2>4. \E x \in I : \A y \in I : x >= y
    BY <1>1, <1>3, GreatestIsThere
  <2>5. Max(I) \in I /\ \A y \in I : Max(I) >= y
    <3> HIDE DEF I
    <3>1. QED  BY <2>4 DEF Max
  <2> DEFINE m == Max(I)
  <2> HIDE DEF m
  <2>6. /\ m \in 1 .. Len(file) /\ file[m].key = k
        /\ \A y \in 1 .. Len(file) : file[y].key = k => m >= y
    BY <2>5 DEF m
  <2>7. StatusOf(k) = file[m].status /\ file[m] \in Rows
    BY <2>3, <2>6 DEF m
  <2>8. LastRowSays(k, "PASS") <=> file[m].status = "PASS"
    BY <1>1, <2>6 DEF LastRowSays
  <2>9. QED  BY <2>7, <2>8 DEF Rows, Statuses
<1>4. QED  BY <1>2, <1>3

\* The keys of the journal tell what they are of.
LEMMA KeysAreDistinct ==
  \A f, g, m, n, t, u :
    /\ RunKey(f, n, t).kind = "run" /\ OracleKey(f, n).kind = "oracle"
    /\ CompleteKey(f).kind = "complete" /\ FailureKey(f).kind = "failure"
    /\ RunKey(f, n, t).repeat = n
    /\ RunKey(f, n, t) = RunKey(g, m, u) => f = g /\ n = m /\ t = u
    /\ OracleKey(f, n) = OracleKey(g, m) => f = g /\ n = m
    /\ CompleteKey(f) = CompleteKey(g) => f = g
BY DEF RunKey, OracleKey, CompleteKey, FailureKey, Key

\* The keys of a fixture's rows are keys of the journal.
LEMMA KeysAreThere ==
  ASSUME NEW f \in ToSet(Fixtures), NEW n \in Repeats, NEW t \in ToSet(Treatments)
  PROVE  /\ RunKey(f, n, t) \in Keys /\ OracleKey(f, n) \in Keys
         /\ CompleteKey(f) \in Keys /\ FailureKey(f) \in Keys
BY DEF Keys, RunsOf

-----------------------------------------------------------------------------
\* The steps that write no row

\* A step that writes no row leaves the journal true, whatever results are added.
LEMMA JournalIsKept ==
  ASSUME file' = file, tail' = tail \/ tail' = "whole", results \subseteq results'
  PROVE  /\ \A k : IsWhole(k)' <=> IsWhole(k)
         /\ JournalInv => JournalInv'
         /\ manifest' = manifest /\ ManifestIsTrue => ManifestIsTrue'
<1>1. \A k : IsWhole(k)' <=> IsWhole(k)
  BY DEF IsWhole
<1>2. ASSUME NEW r, IsTrue(r) PROVE IsTrue(r)'
  BY <1>2 DEF IsTrue
<1>3. JournalInv => JournalInv'
  BY <1>2 DEF JournalInv
<1>4. manifest' = manifest /\ ManifestIsTrue => ManifestIsTrue'
  BY DEF ManifestIsTrue
<1>5. QED  BY <1>1, <1>3, <1>4

\* A process that ends holds nothing.
LEMMA OffHoldsNothing ==
  ASSUME Off, options \in Options, options' = options, file' \in Seq(Rows), tail' \in Tails
  PROVE  SweepType' /\ MemoryInv'
<1>1. SweepType'
  <2>1. committed' \in [Keys -> Statuses \cup {"NONE"}]
    BY DEF Off
  <2>2. UNCHANGED options /\ row' \in Rows \cup {NoRow} /\ pc' = "off"
    BY DEF Off
  <2>3. position' \in Nat \ {0} /\ repeat' \in Nat \ {0} /\ queue' \subseteq ToSet(Treatments)
    BY DEF Off
  <2>4. /\ fixtureFailed' \in BOOLEAN /\ fixtureInvalid' \in BOOLEAN
        /\ unresolved' \in BOOLEAN /\ invalid' \in BOOLEAN
    BY DEF Off
  <2>5. QED  BY <2>1, <2>2, <2>3, <2>4 DEF SweepType
<1>2. MemoryInv'
  BY DEF Off, MemoryInv, MemoryFollowsJournal, FixtureInv, Working, RunsInv, OracleInv, RowFits,
         ProgressInv
<1>3. QED  BY <1>1, <1>2

\* A process that starts reads the journal.
LEMMA StartKeeps ==
  ASSUME SweepType, JournalInv, MemoryInv, Start
  PROVE  SweepType' /\ MemoryInv'
<1> USE DEF SweepType, MemoryInv
<1>1. /\ pc = "off" /\ pc' = "fixture" /\ committed' = [k \in Keys |-> StatusOf(k)]
      /\ UNCHANGED <<disk, options, position, repeat, queue, active, fixtureRows, tally, row>>
      /\ UNCHANGED <<file, tail, results, fixtureFailed, fixtureInvalid, unresolved, invalid>>
  BY DEF Start, disk, tally
<1>2. SweepType'
  BY <1>1, StatusIsOfLastRow
<1>3. MemoryFollowsJournal'
  <2>1. ASSUME NEW i \in DOMAIN file, file[i].key.kind = "run", file[i].status = "PASS"
        PROVE  committed'[file[i].key] = "PASS"
    <3>1. file[i].key \in Keys
      <4>1. file[i] \in Rows
        BY <2>1
      <4>2. QED  BY <4>1 DEF Rows
    <3>2. LastRowSays(file[i].key, "PASS")
      BY <2>1 DEF JournalInv, LastRowSays
    <3>3. QED  BY <1>1, <3>1, <3>2, StatusIsOfLastRow
  <2>2. \A k \in Keys : committed'[k] = "PASS" =>
          \E i \in DOMAIN file : file[i].key = k /\ file[i].status = "PASS" /\ IsTrue(file[i])
    BY <1>1, StatusIsOfLastRow DEF LastRowSays, JournalInv
  <2>3. \A f \in ToSet(Fixtures) : CompleteKey(f) \in Keys
    BY DEF Keys
  <2>4. \A k \in Keys : k.kind = "run" /\ committed'[k] = "PASS" => k \in results
    BY <2>2 DEF IsTrue
  <2>5. \A f \in ToSet(Fixtures) : committed'[CompleteKey(f)] = "PASS" => RunsOf(f) \subseteq results
    BY <2>2, <2>3 DEF IsTrue
  <2>6. QED  BY <1>1, <2>1, <2>4, <2>5 DEF MemoryFollowsJournal
<1>4. FixtureInv' /\ RunsInv' /\ OracleInv' /\ RowFits'
  BY <1>1 DEF FixtureInv, Working, RunsInv, OracleInv, RowFits
<1>5. ProgressInv'
  <2>1. \A i \in DOMAIN Fixtures : ~(i < 1)
    BY SweepAssumption
  <2>2. QED  BY <1>1, <2>1 DEF ProgressInv
<1>6. QED  BY <1>2, <1>3, <1>4, <1>5

\* A place in the list of fixtures is a place of a fixture.
LEMMA FixturesAreThere ==
  ASSUME NEW i \in DOMAIN Fixtures
  PROVE  Fixtures[i] \in ToSet(Fixtures) /\ i \in Nat \ {0} /\ i <= Len(Fixtures)
BY SweepAssumption DEF ToSet

\* A fixture is refused, passed by, or begun with the rows the journal has of it.
LEMMA NextFixtureKeeps ==
  ASSUME SweepType, JournalInv, MemoryInv, NextFixture
  PROVE  SweepType' /\ MemoryInv'
<1> USE DEF SweepType, MemoryInv
<1>1. /\ pc = "fixture" /\ row = NoRow /\ position \in DOMAIN Fixtures
      /\ UNCHANGED <<file, tail, results, options, committed, queue, active, unresolved, invalid>>
  BY SweepAssumption DEF NextFixture, At, disk
<1>2. Fixture \in ToSet(Fixtures) /\ CompleteKey(Fixture) \in Keys /\ FailureKey(Fixture) \in Keys
  BY <1>1, FixturesAreThere DEF Fixture, Keys
<1>3. \A k : IsWhole(k)' <=> IsWhole(k)
  BY <1>1, JournalIsKept
\* A fixture that cannot be loaded
<1>4. CASE /\ row' = Row("TRACE_FAILURE", FailureKey(Fixture), "FAILED")
           /\ UNCHANGED <<pc, position, repeat, fixtureRows, fixtureFailed, fixtureInvalid>>
  <2>1. /\ row' \in Rows /\ row'.type = "TRACE_FAILURE" /\ row'.key.kind = "failure"
        /\ row'.status = "FAILED"
    BY <1>2, <1>4, KeysAreDistinct DEF Row, Rows
  <2>2. SweepType'
    BY <1>1, <1>4, <2>1
  <2>3. MemoryFollowsJournal' /\ FixtureInv' /\ RunsInv' /\ OracleInv' /\ RowFits'
    BY <1>1, <1>3, <1>4, <2>1
    DEF MemoryFollowsJournal, FixtureInv, Working, RunsInv, OracleInv, RowFits, IsTrue
  <2>4. ProgressInv'
    BY <1>1, <1>3, <1>4 DEF ProgressInv
  <2>5. QED  BY <2>2, <2>3, <2>4
\* One that is complete
<1>5. CASE /\ committed[CompleteKey(Fixture)] = "PASS" /\ position' = position + 1
           /\ UNCHANGED <<pc, repeat, fixtureRows, fixtureFailed, fixtureInvalid, row>>
  <2>1. SweepType'
    BY <1>1, <1>5
  <2>2. MemoryFollowsJournal' /\ FixtureInv' /\ RunsInv' /\ OracleInv' /\ RowFits'
    BY <1>1, <1>3, <1>5 DEF MemoryFollowsJournal, FixtureInv, Working, RunsInv, OracleInv, RowFits
  <2>3. RunsOf(Fixture) \subseteq results
    BY <1>1, <1>2, <1>5 DEF MemoryFollowsJournal
  <2>4. ProgressInv'
    <3>1. \A i \in DOMAIN Fixtures : i < position + 1 => i < position \/ i = position
      BY FixturesAreThere
    <3>2. QED  BY <1>1, <1>3, <1>5, <2>3, <3>1 DEF ProgressInv, Fixture
  <2>5. QED  BY <2>1, <2>2, <2>4
\* One there is work to do for
<1>6. CASE /\ committed[CompleteKey(Fixture)] # "PASS" /\ pc' = "repeat" /\ repeat' = 1
           /\ fixtureRows' = CommittedRows(Fixture)
           /\ fixtureFailed' = FALSE /\ fixtureInvalid' = FALSE
           /\ UNCHANGED <<position, row>>
  <2>1. SweepType'
    <3>1. fixtureFailed' \in BOOLEAN /\ fixtureInvalid' \in BOOLEAN
      BY <1>6
    <3>2. QED  BY <1>1, <1>6, <3>1
  <2>2. MemoryFollowsJournal' /\ OracleInv' /\ RowFits' /\ ProgressInv'
    BY <1>1, <1>3, <1>6 DEF MemoryFollowsJournal, OracleInv, RowFits, ProgressInv
  <2>3. RunsInv'
    <3>1. \A n \in Repeats : ~(n < 1)
      BY SweepAssumption DEF Repeats
    <3>2. QED  BY <1>1, <1>6, <3>1 DEF RunsInv
  <2>4. FixtureInv'
    <3>1. ASSUME NEW k \in RunsOf(Fixture), IsWhole(k) PROVE k \in CommittedRows(Fixture)
      <4>1. k.kind = "run"
        BY <3>1, KeysAreDistinct DEF RunsOf
      <4>2. \E i \in DOMAIN file : file[i].key = k /\ file[i].status = "PASS"
        BY <3>1 DEF IsWhole, ToSet, Row
      <4>3. QED  BY <3>1, <4>1, <4>2 DEF JournalInv, IsTrue, CommittedRows
    <3>2. QED  BY <1>1, <1>3, <1>6, <3>1 DEF FixtureInv, Fixture, Measured
  <2>5. QED  BY <2>1, <2>2, <2>3, <2>4
<1>7. QED  BY <1>4, <1>5, <1>6 DEF NextFixture

\* A repeat begins with the runs that have not passed.
LEMMA NextRepeatKeeps ==
  ASSUME SweepType, MemoryInv, NextRepeat
  PROVE  SweepType' /\ MemoryInv'
<1> USE DEF SweepType, MemoryInv
<1> DEFINE previous(t) == committed[RunKey(Fixture, repeat, t)]
           kept(t)     == previous(t) = "FAILED" /\ ~options.rerun
           anyKept     == \E t \in ToSet(Treatments) : kept(t)
<1>1. /\ pc = "repeat" /\ pc' = "runs" /\ row = NoRow /\ repeat \in Repeats
      /\ UNCHANGED <<file, tail, results, options, committed, position, repeat, active, fixtureRows,
                     fixtureInvalid, invalid, row>>
      /\ queue' = {t \in ToSet(Treatments) : previous(t) # "PASS" /\ ~kept(t)}
      /\ fixtureFailed' = (fixtureFailed \/ anyKept)
      /\ unresolved' = (unresolved \/ anyKept)
  BY DEF NextRepeat, At, disk
<1>2. \A k : IsWhole(k)' <=> IsWhole(k)
  BY <1>1, JournalIsKept
<1>3. SweepType'
  <2>1. fixtureFailed' \in BOOLEAN /\ unresolved' \in BOOLEAN
    BY <1>1
  <2>2. queue' \subseteq ToSet(Treatments)
    BY <1>1
  <2>3. QED  BY <1>1, <2>1, <2>2
<1>4. (fixtureFailed => fixtureFailed') /\ (unresolved => unresolved')
  BY <1>1
<1>5. MemoryFollowsJournal' /\ OracleInv' /\ RowFits'
  BY <1>1, <1>2 DEF MemoryFollowsJournal, OracleInv, RowFits
<1>6. ProgressInv'
  BY <1>1, <1>2, <1>4 DEF ProgressInv
<1>7. FixtureInv'
  <2>1. fixtureFailed' => unresolved'
    BY <1>1 DEF FixtureInv, Working
  <2>2. QED  BY <1>1, <1>2, <2>1 DEF FixtureInv, Working, Fixture, Measured
<1>8. RunsInv'
  <2>1. \A n \in Repeats : n < repeat => RepeatIsOver(n)'
    BY <1>1, <1>4 DEF RunsInv, RepeatIsOver, Passed, Fixture
  <2>2. \A t \in ToSet(Treatments) : fixtureFailed' \/ Passed(repeat, t) \/ t \in queue'
    BY <1>1 DEF Passed
  <2>3. \A t \in queue' : ~Passed(repeat, t) /\ active = {}
    BY <1>1 DEF Passed, RunsInv
  <2>4. \A t : Passed(repeat, t)' <=> Passed(repeat, t)
    BY <1>1 DEF Passed, Fixture
  <2> HIDE DEF previous, kept, anyKept
  <2>5. QED  BY <1>1, <2>1, <2>2, <2>3, <2>4 DEF RunsInv
<1>9. QED  BY <1>3, <1>5, <1>6, <1>7, <1>8

\* A repeat ends when nothing waits and nothing is active: every run passed, or one failed.
LEMMA EndRepeatKeeps ==
  ASSUME SweepType, MemoryInv, EndRepeat
  PROVE  SweepType' /\ MemoryInv'
<1> USE DEF SweepType, MemoryInv
<1>1. /\ pc = "runs" /\ pc' = "repeat" /\ row = NoRow /\ repeat' = repeat + 1
      /\ queue = {} /\ active = {}
      /\ UNCHANGED <<file, tail, results, options, committed, position, queue, active, fixtureRows,
                     fixtureFailed, fixtureInvalid, unresolved, invalid, row>>
  BY DEF EndRepeat, At, disk, tally
<1>2. \A k : IsWhole(k)' <=> IsWhole(k)
  BY <1>1, JournalIsKept
<1>3. SweepType' /\ MemoryFollowsJournal' /\ OracleInv' /\ RowFits' /\ ProgressInv'
  BY <1>1, <1>2 DEF MemoryFollowsJournal, OracleInv, RowFits, ProgressInv
<1>4. FixtureInv'
  BY <1>1, <1>2 DEF FixtureInv, Working, Fixture, Measured
<1>5. RunsInv'
  <2>1. \A n \in Repeats : n < repeat + 1 => RepeatIsOver(n)
    <3>1. RepeatIsOver(repeat) /\ \A n \in Repeats : n < repeat => RepeatIsOver(n)
      BY <1>1 DEF RunsInv, RepeatIsOver
    <3>2. \A n \in Repeats : n < repeat + 1 => n < repeat \/ n = repeat
      BY SweepAssumption DEF Repeats
    <3>3. QED  BY <3>1, <3>2
  <2>2. \A n : RepeatIsOver(n)' <=> RepeatIsOver(n)
    BY <1>1 DEF RepeatIsOver, Passed, Fixture
  <2>3. QED  BY <1>1, <2>1, <2>2 DEF RunsInv
<1>6. QED  BY <1>3, <1>4, <1>5

\* The comparison begins when every repeat is over.
LEMMA BeginOracleKeeps ==
  ASSUME SweepType, MemoryInv, BeginOracle
  PROVE  SweepType' /\ MemoryInv'
<1> USE DEF SweepType, MemoryInv
<1>1. /\ pc = "repeat" /\ pc' = "oracle" /\ row = NoRow /\ repeat \notin Repeats
      /\ repeat' = Warmups + 1 /\ Warmups \in Nat /\ Measures \in Nat
      /\ UNCHANGED <<file, tail, results, options, committed, position, queue, active, fixtureRows,
                     fixtureFailed, fixtureInvalid, unresolved, invalid, row>>
  BY SweepAssumption DEF BeginOracle, At, disk, tally
<1>2. \A k : IsWhole(k)' <=> IsWhole(k)
  BY <1>1, JournalIsKept
<1>3. SweepType' /\ MemoryFollowsJournal' /\ RowFits' /\ ProgressInv'
  BY <1>1, <1>2 DEF MemoryFollowsJournal, RowFits, ProgressInv
<1>4. FixtureInv'
  BY <1>1, <1>2 DEF FixtureInv, Working, Fixture, Measured
<1>5. OracleInv'
  BY <1>1 DEF OracleInv, Repeats
<1>6. RunsInv'
  <2>1. \A n \in Repeats : n < repeat
    BY <1>1 DEF Repeats
  <2>2. \A n : RepeatIsOver(n)' <=> RepeatIsOver(n)
    BY <1>1 DEF RepeatIsOver, Passed, Fixture
  <2>3. QED  BY <1>1, <2>1, <2>2 DEF RunsInv
<1>7. QED  BY <1>3, <1>4, <1>5, <1>6

\* A run that waits becomes active, or its failure is the row under way.
LEMMA LaunchKeeps ==
  ASSUME SweepType, MemoryInv, Launch
  PROVE  SweepType' /\ MemoryInv'
<1> USE DEF SweepType, MemoryInv
<1>1. /\ pc = "runs" /\ row = NoRow
      /\ UNCHANGED <<file, tail, results, options, pc, committed, position, repeat, fixtureRows,
                     fixtureFailed, fixtureInvalid, unresolved, invalid>>
  BY DEF Launch, At, disk, tally
<1>2. PICK t \in queue :
        /\ queue' = queue \ {t}
        /\ LET key == RunKey(Fixture, repeat, t) IN
             \/ active' = active \cup {key} /\ UNCHANGED row
             \/ row' = Row("FAILURE", key, "FAILED") /\ UNCHANGED active
  BY DEF Launch
<1>3. \A k : IsWhole(k)' <=> IsWhole(k)
  BY <1>1, JournalIsKept
<1>4. /\ position \in DOMAIN Fixtures /\ repeat \in Repeats /\ t \in ToSet(Treatments)
      /\ \A u \in queue : ~Passed(repeat, u) /\ RunKey(Fixture, repeat, u) \notin active
      /\ \A k \in active : \E u \in ToSet(Treatments) :
           k = RunKey(Fixture, repeat, u) /\ ~Passed(repeat, u)
  BY <1>1, <1>2 DEF FixtureInv, Working, RunsInv
<1>5. Fixture \in ToSet(Fixtures)
  BY <1>4, FixturesAreThere DEF Fixture
<1>6. RunKey(Fixture, repeat, t) \in Keys
  BY <1>4, <1>5, KeysAreThere
<1>7. MemoryFollowsJournal' /\ FixtureInv' /\ OracleInv' /\ ProgressInv'
  BY <1>1, <1>3
  DEF MemoryFollowsJournal, FixtureInv, Working, OracleInv, ProgressInv, Fixture, Measured, RepeatIsWhole
<1>8. /\ \A n, u : Passed(n, u)' <=> Passed(n, u)
      /\ \A n : RepeatIsOver(n)' <=> RepeatIsOver(n)
      /\ Fixture' = Fixture
  BY <1>1 DEF Passed, RepeatIsOver, Fixture
<1> DEFINE key(u) == RunKey(Fixture, repeat, u)
<1>9. \A u, v : key(u) = key(v) => u = v
  BY KeysAreDistinct
<1>10. \A u \in ToSet(Treatments) :
         fixtureFailed \/ Passed(repeat, u) \/ u \in queue \/ key(u) \in active
  BY <1>1 DEF RunsInv
<1> HIDE DEF key
<1>11. CASE active' = active \cup {key(t)} /\ UNCHANGED row
  <2>1. SweepType' /\ RowFits'
    BY <1>1, <1>2, <1>11 DEF RowFits
  <2>2. /\ \A u \in ToSet(Treatments) :
             fixtureFailed \/ Passed(repeat, u) \/ u \in queue' \/ key(u) \in active'
        /\ \A u \in queue' : ~Passed(repeat, u) /\ key(u) \notin active'
        /\ \A k \in active' : \E u \in ToSet(Treatments) : k = key(u) /\ ~Passed(repeat, u)
    <3>1. \A u \in queue' : ~Passed(repeat, u) /\ key(u) \notin active'
      BY <1>2, <1>4, <1>9, <1>11 DEF key
    <3>2. \A u \in ToSet(Treatments) :
            fixtureFailed \/ Passed(repeat, u) \/ u \in queue' \/ key(u) \in active'
      BY <1>2, <1>10, <1>11
    <3>3. \A k \in active' : \E u \in ToSet(Treatments) : k = key(u) /\ ~Passed(repeat, u)
      BY <1>2, <1>4, <1>11 DEF key
    <3>4. QED  BY <3>1, <3>2, <3>3
  <2>3. RunsInv'
    BY <1>1, <1>4, <1>8, <2>2 DEF RunsInv, key
  <2>4. QED  BY <1>7, <2>1, <2>3
<1>12. CASE row' = Row("FAILURE", key(t), "FAILED") /\ UNCHANGED active
  <2>1. /\ row' \in Rows /\ row'.type = "FAILURE" /\ row'.status = "FAILED"
        /\ row'.key = key(t) /\ row' # NoRow /\ IsTrue(row)'
    BY <1>6, <1>12, RowAssumption DEF Row, Rows, key, IsTrue
  <2>2. SweepType'
    BY <1>1, <1>2, <2>1
  <2>3. RowFits'
    BY <1>1, <1>2, <1>4, <1>8, <1>12, <2>1 DEF RowFits, key
  <2>4. /\ \A u \in ToSet(Treatments) :
             \/ fixtureFailed \/ Passed(repeat, u)
             \/ u \in queue' \/ key(u) \in active' \/ (row' # NoRow /\ row'.key = key(u))
        /\ \A u \in queue' : ~Passed(repeat, u) /\ key(u) \notin active'
        /\ \A k \in active' : \E u \in ToSet(Treatments) : k = key(u) /\ ~Passed(repeat, u)
    <3>1. \A u \in queue' : ~Passed(repeat, u) /\ key(u) \notin active'
      BY <1>2, <1>4, <1>12 DEF key
    <3>2. \A u \in ToSet(Treatments) :
            \/ fixtureFailed \/ Passed(repeat, u)
            \/ u \in queue' \/ key(u) \in active' \/ (row' # NoRow /\ row'.key = key(u))
      BY <1>2, <1>10, <1>12, <2>1
    <3>3. \A k \in active' : \E u \in ToSet(Treatments) : k = key(u) /\ ~Passed(repeat, u)
      BY <1>2, <1>4, <1>12 DEF key
    <3>4. QED  BY <3>1, <3>2, <3>3
  <2>5. RunsInv'
    BY <1>1, <1>4, <1>8, <2>4 DEF RunsInv, key
  <2>6. QED  BY <1>7, <2>2, <2>3, <2>5
<1>13. QED  BY <1>2, <1>11, <1>12 DEF key

\* A run that is active ends, and its row is under way.
LEMMA FinishKeeps ==
  ASSUME SweepType, MemoryInv, NEW done \in active, Finish(done)
  PROVE  SweepType' /\ MemoryInv'
<1> USE DEF SweepType, MemoryInv
<1>1. /\ pc = "runs" /\ row = NoRow /\ active' = active \ {done}
      /\ UNCHANGED <<file, tail, options, pc, committed, position, repeat, queue,
                     fixtureFailed, fixtureInvalid, unresolved, invalid>>
      /\ \/ /\ row' = Row("RUNTIME", done, "PASS") /\ results' = results \cup {done}
            /\ fixtureRows' = IF Measured(done) THEN fixtureRows \cup {done} ELSE fixtureRows
         \/ /\ row' = Row("FAILURE", done, "FAILED") /\ results' = results
            /\ fixtureRows' = fixtureRows
  BY DEF Finish, At, disk, tally
<1>2. \A k : IsWhole(k)' <=> IsWhole(k)
  BY <1>1, JournalIsKept
<1> DEFINE key(u) == RunKey(Fixture, repeat, u)
<1>3. /\ position \in DOMAIN Fixtures /\ repeat \in Repeats
      /\ \A u \in queue : ~Passed(repeat, u) /\ key(u) \notin active
      /\ \A k \in active : \E u \in ToSet(Treatments) : k = key(u) /\ ~Passed(repeat, u)
      /\ \A u \in ToSet(Treatments) :
           fixtureFailed \/ Passed(repeat, u) \/ u \in queue \/ key(u) \in active
  BY <1>1 DEF FixtureInv, Working, RunsInv
<1>4. PICK t \in ToSet(Treatments) : done = key(t) /\ ~Passed(repeat, t)
  BY <1>3
<1>5. key(t) \in Keys
  <2>1. Fixture \in ToSet(Fixtures)
    BY <1>3, FixturesAreThere DEF Fixture
  <2>2. QED  BY <1>3, <2>1, KeysAreThere
<1>6. /\ \A n, u : Passed(n, u)' <=> Passed(n, u)
      /\ \A n : RepeatIsOver(n)' <=> RepeatIsOver(n)
      /\ Fixture' = Fixture /\ fixtureRows \subseteq fixtureRows'
  BY <1>1 DEF Passed, RepeatIsOver, Fixture
<1> HIDE DEF key
<1>7. /\ row' \in Rows /\ row' # NoRow /\ row'.key = done /\ row'.type \in {"RUNTIME", "FAILURE"}
      /\ row'.type = "RUNTIME" <=> row'.status = "PASS"
      /\ row'.type = "RUNTIME" /\ Measured(done) => done \in fixtureRows'
      /\ results \subseteq results'
      /\ row'.status = "PASS" => done \in results'
  BY <1>1, <1>4, <1>5, RowAssumption DEF Row, Rows
<1>8. SweepType'
  BY <1>1, <1>7
<1>9. MemoryFollowsJournal' /\ FixtureInv' /\ OracleInv' /\ ProgressInv'
  <2>1. MemoryFollowsJournal'
    BY <1>1, <1>7 DEF MemoryFollowsJournal
  <2>2. FixtureInv'
    BY <1>1, <1>2, <1>6 DEF FixtureInv, Working, Measured
  <2>3. QED  BY <1>1, <1>7, <2>1, <2>2 DEF OracleInv, ProgressInv
<1>10. RowFits'
  <2>1. t \notin queue /\ done \notin active'
    BY <1>1, <1>3, <1>4
  <2>2. Measured(row.key)' <=> Measured(done)
    BY <1>7 DEF Measured
  <2>3. IsTrue(row)'
    <3>1. done.kind = "run" /\ \A f : done # CompleteKey(f)
      BY <1>4, KeysAreDistinct DEF key
    <3>2. QED  BY <1>7, <3>1 DEF IsTrue
  <2>4. QED  BY <1>1, <1>4, <1>6, <1>7, <2>1, <2>2, <2>3 DEF RowFits, key
<1>11. RunsInv'
  <2>1. /\ \A u \in ToSet(Treatments) :
             \/ fixtureFailed \/ Passed(repeat, u)
             \/ u \in queue \/ key(u) \in active' \/ (row' # NoRow /\ row'.key = key(u))
        /\ \A u \in queue : ~Passed(repeat, u) /\ key(u) \notin active'
        /\ \A k \in active' : \E u \in ToSet(Treatments) : k = key(u) /\ ~Passed(repeat, u)
    BY <1>1, <1>3, <1>7
  <2>2. /\ \A n \in Repeats : n < repeat => RepeatIsOver(n)
        /\ pc' = "runs" /\ repeat' = repeat /\ queue' = queue /\ repeat \in Repeats
    BY <1>1, <1>3 DEF RunsInv
  <2>3. QED  BY <1>1, <1>6, <2>1, <2>2 DEF RunsInv, key
<1>12. QED  BY <1>8, <1>9, <1>10, <1>11

\* A repeat is compared, or passed by because a row of it cannot be read.
LEMMA ValidateOracleKeeps ==
  ASSUME SweepType, MemoryInv, ValidateOracle
  PROVE  SweepType' /\ MemoryInv'
<1> USE DEF SweepType, MemoryInv
<1>1. /\ pc = "oracle" /\ row = NoRow /\ repeat \in Repeats /\ repeat > Warmups
      /\ UNCHANGED <<file, tail, results, options, pc, committed, position, queue, active,
                     fixtureRows, fixtureFailed, unresolved>>
  BY DEF ValidateOracle, At, disk, OracleInv
<1>2. \A k : IsWhole(k)' <=> IsWhole(k)
  BY <1>1, JournalIsKept
<1>3. position \in DOMAIN Fixtures /\ Fixture \in ToSet(Fixtures)
  BY <1>1, FixturesAreThere DEF FixtureInv, Working, Fixture
<1>4. /\ Fixture' = Fixture
      /\ \A n : RepeatIsOver(n)' <=> RepeatIsOver(n)
      /\ \A n : RepeatIsWhole(n)' <=> RepeatIsWhole(n)
  BY <1>1, <1>2 DEF Passed, RepeatIsOver, RepeatIsWhole, Fixture
<1>5. MemoryFollowsJournal' /\ RunsInv'
  BY <1>1, <1>2, <1>4 DEF MemoryFollowsJournal, RunsInv
\* Every run of a repeat that can be read is there to be compared.
<1>6. RepeatIsWhole(repeat) => \A t \in ToSet(Treatments) : RunKey(Fixture, repeat, t) \in fixtureRows
  <2>1. ASSUME RepeatIsWhole(repeat), NEW t \in ToSet(Treatments)
        PROVE  RunKey(Fixture, repeat, t) \in fixtureRows
    <3>1. /\ RunKey(Fixture, repeat, t) \in RunsOf(Fixture)
          /\ Measured(RunKey(Fixture, repeat, t))
      BY <1>1, KeysAreDistinct DEF RunsOf, Measured
    <3>2. QED  BY <1>1, <2>1, <3>1 DEF FixtureInv, Working, RepeatIsWhole
  <2>2. QED  BY <2>1
<1>7. CASE /\ row' = Row("ORACLE_VALIDATION", OracleKey(Fixture, repeat), Verdict(repeat))
           /\ fixtureInvalid' = (fixtureInvalid \/ Verdict(repeat) = "INVALID")
           /\ invalid' = (invalid \/ Verdict(repeat) = "INVALID")
           /\ UNCHANGED repeat
  <2>1. Verdict(repeat) \in {"PASS", "INVALID", "INCOMPLETE"}
    BY DEF Verdict
  <2>2. OracleKey(Fixture, repeat) \in Keys
    BY <1>1, <1>3 DEF Keys
  <2>3. /\ row' \in Rows /\ row' # NoRow /\ row'.type = "ORACLE_VALIDATION"
        /\ row'.key = OracleKey(Fixture, repeat) /\ row'.status = Verdict(repeat)
        /\ IsTrue(row)'
    BY <1>7, <2>1, <2>2, RowAssumption, KeysAreDistinct DEF Row, Rows, IsTrue
  <2>4. /\ fixtureInvalid' \in BOOLEAN /\ invalid' \in BOOLEAN
        /\ fixtureInvalid => fixtureInvalid'
        /\ invalid => invalid'
        /\ Verdict(repeat) = "INVALID" => fixtureInvalid'
    BY <1>7
  <2>5. fixtureInvalid' => invalid'
    BY <1>1, <1>7 DEF FixtureInv, Working
  <2>6. SweepType'
    BY <1>1, <1>7, <2>3, <2>4
  <2>7. FixtureInv'
    BY <1>1, <1>2, <1>4, <2>5 DEF FixtureInv, Working, Measured
  <2>8. OracleInv'
    BY <1>1, <1>4, <1>7, <2>4 DEF OracleInv
  <2>9. Comparable /\ RepeatIsWhole(repeat) /\ Verdict(repeat) # "PASS" => fixtureInvalid'
    <3>1. SUFFICES ASSUME Comparable, RepeatIsWhole(repeat) PROVE Verdict(repeat) # "INCOMPLETE"
      BY <2>1, <2>4
    <3>2. PICK t \in ToSet(Treatments) : t # Oracle
      BY <3>1, SweepAssumption DEF Comparable
    <3>3. RunKey(Fixture, repeat, t) \in fixtureRows
      BY <1>6, <3>1
    <3>4. QED  BY <3>2, <3>3 DEF Verdict
  <2>10. RowFits'
    BY <1>1, <1>4, <1>7, <2>3, <2>9 DEF RowFits
  <2>11. ProgressInv'
    BY <1>1, <1>2, <2>4 DEF ProgressInv
  <2>12. QED  BY <1>5, <2>6, <2>7, <2>8, <2>10, <2>11
<1>8. CASE /\ RunKey(Fixture, repeat, Oracle) \notin fixtureRows
           /\ repeat' = repeat + 1
           /\ UNCHANGED <<fixtureInvalid, invalid, row>>
  <2>1. ~RepeatIsWhole(repeat)
    BY <1>6, <1>8, SweepAssumption
  <2>2. SweepType' /\ FixtureInv' /\ RowFits' /\ ProgressInv'
    BY <1>1, <1>2, <1>4, <1>8 DEF FixtureInv, Working, RowFits, ProgressInv, Measured
  <2>3. OracleInv'
    <3>1. \A n \in Repeats : n < repeat + 1 => n < repeat \/ n = repeat
      BY <1>1, SweepAssumption DEF Repeats
    <3>2. QED  BY <1>1, <1>4, <1>8, <2>1, <3>1, SweepAssumption DEF OracleInv
  <2>4. QED  BY <1>5, <2>2, <2>3
<1>9. QED  BY <1>7, <1>8 DEF ValidateOracle

\* The row of the completion says how the fixture ended.
LEMMA CompleteFixtureKeeps ==
  ASSUME SweepType, MemoryInv, CompleteFixture
  PROVE  SweepType' /\ MemoryInv'
<1> USE DEF SweepType, MemoryInv
<1>1. /\ pc = "oracle" /\ row = NoRow /\ repeat \notin Repeats
      /\ row' = Row("TRACE_COMPLETE", CompleteKey(Fixture), TraceStatus)
      /\ UNCHANGED <<file, tail, results, options, pc, committed, position, repeat, queue, active,
                     fixtureRows, fixtureFailed, fixtureInvalid, unresolved, invalid>>
  BY DEF CompleteFixture, At, disk, tally
<1>2. \A k : IsWhole(k)' <=> IsWhole(k)
  BY <1>1, JournalIsKept
<1>3. position \in DOMAIN Fixtures /\ Fixture \in ToSet(Fixtures)
  BY <1>1, FixturesAreThere DEF FixtureInv, Working, Fixture
<1>4. /\ Fixture' = Fixture /\ \A n : RepeatIsOver(n)' <=> RepeatIsOver(n)
      /\ \A n : RepeatIsWhole(n)' <=> RepeatIsWhole(n)
  BY <1>1, <1>2 DEF Passed, RepeatIsOver, RepeatIsWhole, Fixture
<1>5. /\ row' \in Rows /\ row' # NoRow /\ row'.type = "TRACE_COMPLETE"
      /\ row'.key = CompleteKey(Fixture) /\ row'.status = TraceStatus
  BY <1>1, <1>3, RowAssumption DEF Row, Rows, TraceStatus, Keys
<1>6. /\ TraceStatus = "PASS" => ~fixtureFailed /\ ~fixtureInvalid
      /\ TraceStatus # "PASS" => fixtureFailed \/ fixtureInvalid
  BY DEF TraceStatus
<1>7. SweepType'
  BY <1>1, <1>5
\* The fixture is complete only when every run has its result.
<1>8. TraceStatus = "PASS" => RunsOf(Fixture) \subseteq results
  <2>1. ASSUME TraceStatus = "PASS", NEW n \in Repeats, NEW t \in ToSet(Treatments)
        PROVE  RunKey(Fixture, n, t) \in results
    <3>1. committed[RunKey(Fixture, n, t)] = "PASS"
      BY <1>1, <1>6, <2>1 DEF RunsInv, RepeatIsOver, Passed
    <3>2. QED  BY <1>1, <1>3, <3>1, KeysAreThere, KeysAreDistinct DEF MemoryFollowsJournal
  <2>2. QED  BY <2>1 DEF RunsOf
<1>9. RowFits'
  <2>1. \A f \in ToSet(Fixtures) : CompleteKey(Fixture) = CompleteKey(f) => Fixture = f
    BY KeysAreDistinct
  <2>2. \A f \in ToSet(Fixtures) :
          row'.key = CompleteKey(f) /\ row'.status = "PASS" => RunsOf(f) \subseteq results
    BY <1>5, <1>8, <2>1
  <2>3. IsTrue(row)'
    BY <1>1, <1>5, <2>2, KeysAreDistinct DEF IsTrue
  <2>4. QED  BY <1>1, <1>4, <1>5, <1>6, <2>3 DEF RowFits
<1>10. MemoryFollowsJournal' /\ FixtureInv' /\ RunsInv' /\ OracleInv' /\ ProgressInv'
  BY <1>1, <1>2, <1>4
  DEF MemoryFollowsJournal, FixtureInv, Working, RunsInv, OracleInv, ProgressInv, Measured
<1>11. QED  BY <1>7, <1>9, <1>10

\* A step that leaves the process alone: the file is written anew, or nothing changes.
LEMMA IdleKeeps ==
  ASSUME SweepType, MemoryInv, UNCHANGED <<file, results, options, memory>>, tail' \in Tails
  PROVE  SweepType' /\ MemoryInv'
<1>1. UNCHANGED <<file, results, options, pc, committed, position, repeat, queue, active, fixtureRows,
                 fixtureFailed, fixtureInvalid, unresolved, invalid, row>>
  BY DEF memory, tally
<1>2. \A k : IsWhole(k)' <=> IsWhole(k)
  BY <1>1 DEF IsWhole
<1>3. SweepType'
  BY <1>1 DEF SweepType
<1>4. MemoryFollowsJournal' /\ FixtureInv' /\ OracleInv' /\ ProgressInv'
  BY <1>1, <1>2
  DEF MemoryInv, MemoryFollowsJournal, FixtureInv, Working, OracleInv, ProgressInv, Fixture, Measured,
      RepeatIsWhole
<1>5. \A n, t : Passed(n, t)' <=> Passed(n, t)
  BY <1>1 DEF Passed, Fixture
<1>6. RunsInv'
  BY <1>1, <1>5 DEF MemoryInv, RunsInv, RepeatIsOver, Fixture
<1>7. RowFits'
  BY <1>1, <1>2, <1>5 DEF MemoryInv, RowFits, Fixture, IsTrue, RepeatIsWhole, Measured
<1>8. QED  BY <1>3, <1>4, <1>6, <1>7 DEF MemoryInv

-----------------------------------------------------------------------------
\* The steps that write the row, or a part of it

\* A row as it is read later: its key and status are as written, and it names its
\* result only if it is whole.
IsRead(r, written) ==
    /\ r.key = written.key /\ r.status = written.status
    /\ r.type = "RUNTIME" => r = written

\* The rows that can be read are those of before, each the same or in a part, and at the
\* end the row under way.
Grows ==
    /\ file' \in Seq(Rows)
    /\ \A i \in DOMAIN file' :
         \/ i \in DOMAIN file /\ IsRead(file'[i], file[i])
         \/ i = Len(file) + 1 /\ IsRead(file'[i], row)

\* A row in part is a row, and is read as one.
LEMMA BareIsRead ==
  ASSUME NEW r \in Rows
  PROVE  Bare(r) \in Rows /\ IsRead(Bare(r), r) /\ IsRead(r, r)
BY DEF Bare, Rows, IsRead

\* What is written behind the file makes it grow by one row at most, whatever its end.
LEMMA ExtendedGrows ==
  ASSUME SweepType, JournalInv, row # NoRow, NEW text \in PartsOf(row), file' \in Extended(text)
  PROVE  Grows
<1>1. file \in Seq(Rows) /\ row \in Rows /\ Len(file) \in Nat /\ DOMAIN file = 1 .. Len(file)
  BY DEF SweepType
<1>2. ASSUME file' = file PROVE Grows
  <2>1. \A i \in DOMAIN file : file[i] \in Rows
    BY <1>1
  <2>2. QED  BY <1>1, <1>2, <2>1, BareIsRead DEF Grows
<1>3. ASSUME NEW r \in {row, Bare(row)}, file' = Append(file, r) PROVE Grows
  <2>1. r \in Rows /\ IsRead(r, row)
    BY <1>1, <1>3, BareIsRead
  <2>2. /\ file' \in Seq(Rows) /\ DOMAIN file' = 1 .. Len(file) + 1 /\ file'[Len(file) + 1] = r
        /\ \A i \in 1 .. Len(file) : file'[i] = file[i] /\ file[i] \in Rows
    BY <1>1, <1>3, <2>1
  <2>3. \A i \in 1 .. Len(file) : IsRead(file'[i], file[i])
    BY <2>2, BareIsRead
  <2>4. \A i \in 1 .. Len(file) + 1 : i \in 1 .. Len(file) \/ i = Len(file) + 1
    BY <1>1
  <2>5. QED  BY <1>1, <2>1, <2>2, <2>3, <2>4 DEF Grows
<1>4. ASSUME tail = "read", file' \in {Append(Front(file), Bare(Last(file))), Front(file)} PROVE Grows
  <2> DEFINE n == Len(file)
  <2>1. file # <<>> /\ n \in Nat /\ n > 0
    BY <1>1, <1>4 DEF JournalInv
  <2>2. Front(file) = SubSeq(file, 1, n - 1) /\ Last(file) = file[n] /\ file[n] \in Rows
    BY <1>1, <2>1 DEF Front, Last
  <2>3. /\ Front(file) \in Seq(Rows) /\ Len(Front(file)) = n - 1
        /\ \A i \in 1 .. n - 1 : Front(file)[i] = file[i]
    BY <1>1, <2>1, <2>2
  <2>4. Bare(Last(file)) \in Rows /\ IsRead(Bare(Last(file)), file[n])
    BY <2>2, BareIsRead
  <2>5. \A i \in 1 .. n - 1 : i \in DOMAIN file /\ IsRead(Front(file)[i], file[i])
    <3>1. \A i \in 1 .. n - 1 : i \in DOMAIN file /\ file[i] \in Rows
      BY <1>1, <2>1
    <3>2. QED  BY <2>3, <3>1, BareIsRead
  <2> HIDE DEF n
  <2>6. CASE file' = Front(file)
    BY <1>1, <2>1, <2>3, <2>5, <2>6 DEF Grows
  <2>7. CASE file' = Append(Front(file), Bare(Last(file)))
    <3>1. /\ file' \in Seq(Rows) /\ DOMAIN file' = 1 .. n /\ file'[n] = Bare(Last(file))
          /\ \A i \in 1 .. n - 1 : file'[i] = Front(file)[i]
      BY <2>1, <2>3, <2>4, <2>7
    <3>2. \A i \in 1 .. n : i \in 1 .. n - 1 \/ i = n
      BY <2>1
    <3>3. n \in DOMAIN file
      BY <1>1, <2>1 DEF n
    <3>4. QED  BY <2>4, <2>5, <3>1, <3>2, <3>3 DEF Grows
  <2>8. QED  BY <1>4, <2>6, <2>7
<1>5. text = <<>> \/ \E r \in {row, Bare(row)} : text = <<r>>
  BY DEF PartsOf
<1>6. CASE tail = "whole"
  <2>1. file' = file \o text
    BY <1>6 DEF Extended
  <2>2. file \o <<>> = file /\ \A r : file \o <<r>> = Append(file, r)
    BY <1>1
  <2>3. QED  BY <1>2, <1>3, <1>5, <2>1, <2>2
<1>7. CASE tail = "first"
  <2>1. file' = file \o [i \in DOMAIN text |-> Bare(text[i])]
    BY <1>7 DEF Extended
  <2>2. CASE text = <<>>
    <3>1. [i \in DOMAIN text |-> Bare(text[i])] = <<>>
      BY <2>2
    <3>2. QED  BY <1>1, <1>2, <2>1, <3>1
  <2>3. ASSUME NEW r \in {row, Bare(row)}, text = <<r>> PROVE Grows
    <3>1. [i \in DOMAIN text |-> Bare(text[i])] = <<Bare(r)>>
      BY <2>3
    <3>2. Bare(r) = Bare(row)
      BY <2>3 DEF Bare
    <3>3. file' = Append(file, Bare(row))
      <4>1. file' = file \o <<Bare(row)>>
        BY <2>1, <3>1, <3>2
      <4>2. Bare(row) \in Rows
        BY <1>1, BareIsRead
      <4>3. QED  BY <1>1, <4>1, <4>2
    <3>4. QED  BY <1>3, <3>3
  <2>4. QED  BY <1>5, <2>2, <2>3
<1>8. CASE tail = "unread"
  BY <1>2, <1>8 DEF Extended
<1>9. CASE tail = "read"
  BY <1>2, <1>4, <1>9 DEF Extended
<1>10. tail \in Tails
  BY DEF SweepType
<1>11. QED  BY <1>6, <1>7, <1>8, <1>9, <1>10 DEF Tails

\* Where the last line breaks off behind a key there is a row.
LEMMA WritesGrow ==
  ASSUME SweepType, JournalInv, Write \/ Tear
  PROVE  /\ Grows /\ row # NoRow /\ tail' \in Tails /\ results' = results /\ manifest' = manifest
         /\ tail' = "read" => file' # <<>>
<1>1. row # NoRow /\ results' = results /\ manifest' = manifest
  BY DEF Write, Tear
<1>2. Grows
  <2>1. ASSUME UNCHANGED file PROVE Grows
    <3>1. file \in Seq(Rows) /\ \A i \in DOMAIN file : file[i] \in Rows
      BY DEF SweepType
    <3>2. QED  BY <2>1, <3>1, BareIsRead DEF Grows
  <2>2. <<row>> \in PartsOf(row)
    BY DEF PartsOf
  <2>3. Write => UNCHANGED file \/ file' \in Extended(<<row>>)
    BY DEF Write
  <2>4. Tear => \E text \in PartsOf(row) : file' \in Extended(text)
    BY DEF Tear
  <2>5. QED  BY <1>1, <2>1, <2>2, <2>3, <2>4, ExtendedGrows
<1>3. tail' \in Tails /\ (tail' = "read" => file' # <<>>)
  <2>1. tail \in Tails /\ (tail = "read" => file # <<>>) /\ file \in Seq(Rows) /\ Len(file) \in Nat
    BY DEF SweepType, JournalInv
  <2>2. file' \in Seq(Rows) /\ Len(file') \in Nat
    BY <1>2 DEF Grows
  <2>3. CASE Write
    BY <2>1, <2>3 DEF Write, StaysOpen, Tails
  <2>4. CASE Tear
    <3>1. /\ tail' \in Tails
          /\ tail' = "read" => \/ Len(file') > Len(file)
                               \/ tail = "read" /\ Len(file') = Len(file)
      BY <2>1, <2>2, <2>4 DEF Tear, Tails
    <3>2. Len(file') > 0 => file' # <<>>
      BY <2>2
    <3>3. file # <<>> => Len(file) > 0
      BY <2>1
    <3>4. QED  BY <2>1, <2>2, <3>1, <3>2, <3>3
  <2>5. QED  BY <2>3, <2>4
<1>4. QED  BY <1>1, <1>2, <1>3

\* A row that is read in part is true if it was when it was written.
LEMMA ReadIsTrue ==
  ASSUME NEW r, NEW written, IsRead(r, written), IsTrue(written)
  PROVE  IsTrue(r)
BY DEF IsRead, IsTrue

\* A run whose row names its result had one before, or its row is the one under way.
LEMMA WholeIsOld ==
  ASSUME Grows, NEW k, IsWhole(k)'
  PROVE  IsWhole(k) \/ row = Row("RUNTIME", k, "PASS")
<1>1. PICK i \in DOMAIN file' : file'[i] = Row("RUNTIME", k, "PASS")
  BY DEF IsWhole, ToSet
<1>2. file'[i].type = "RUNTIME"
  BY <1>1 DEF Row
<1>3. QED  BY <1>1, <1>2 DEF Grows, IsRead, IsWhole, ToSet

\* The row keeps the journal true, whatever of it is read and whatever becomes of the process.
LEMMA GrowthKeepsJournal ==
  ASSUME SweepType, JournalInv, MemoryInv, row # NoRow, Grows, results' = results,
         tail' = "read" => file' # <<>>
  PROVE  JournalInv'
<1>1. /\ \A i \in DOMAIN file : IsTrue(file[i])
      /\ IsTrue(row)
  BY DEF JournalInv, MemoryInv, RowFits
<1>2. \A i \in DOMAIN file' : IsTrue(file'[i])
  BY <1>1, ReadIsTrue DEF Grows
\* A run that is under way has not passed in the journal.
<1>3. ASSUME NEW i \in DOMAIN file, file[i].key = row.key, row.key.kind = "run"
      PROVE  file[i].status # "PASS"
  <2>1. row.key # CompleteKey(Fixture) /\ row.key # OracleKey(Fixture, repeat)
    BY <1>3, KeysAreDistinct
  <2>2. pc = "runs" /\ \E t \in ToSet(Treatments) : row.key = RunKey(Fixture, repeat, t) /\ ~Passed(repeat, t)
    BY <1>3, <2>1 DEF MemoryInv, RowFits
  <2>3. QED  BY <1>3, <2>2 DEF MemoryInv, MemoryFollowsJournal, Passed
<1>4. ASSUME NEW i \in DOMAIN file', NEW j \in DOMAIN file', i < j,
             file'[i].key = file'[j].key, file'[i].key.kind = "run"
      PROVE  file'[i].status # "PASS"
  <2>1. Len(file) \in Nat /\ DOMAIN file = 1 .. Len(file) /\ i \in Nat /\ j \in Nat
    <3>1. DOMAIN file' = 1 .. Len(file') /\ Len(file') \in Nat
      BY DEF Grows
    <3>2. QED  BY <3>1 DEF SweepType
  <2>2. \/ j \in DOMAIN file /\ IsRead(file'[j], file[j])
        \/ j = Len(file) + 1 /\ IsRead(file'[j], row)
    BY DEF Grows
  <2>3. i \in DOMAIN file /\ IsRead(file'[i], file[i])
    <3>1. i # Len(file) + 1
      BY <1>4, <2>1, <2>2
    <3>2. QED  BY <3>1 DEF Grows
  <2>4. CASE j \in DOMAIN file /\ IsRead(file'[j], file[j])
    BY <1>4, <2>3, <2>4 DEF JournalInv, IsRead
  <2>5. CASE j = Len(file) + 1 /\ IsRead(file'[j], row)
    <3>1. file[i].key = row.key /\ row.key.kind = "run" /\ file'[i].status = file[i].status
      BY <1>4, <2>3, <2>5 DEF IsRead
    <3>2. QED  BY <1>3, <2>3, <3>1
  <2>6. QED  BY <2>2, <2>4, <2>5
<1>5. QED  BY <1>2, <1>4 DEF JournalInv, IsTrue

\* The process that goes on remembers the row, and no row that is read is unknown to it.
LEMMA GrowthIsRemembered ==
  ASSUME SweepType, JournalInv, MemoryInv, row # NoRow, Grows, results' = results, pc' # "off",
         NEW status, committed' = [committed EXCEPT ![row.key] = status],
         row.status = "PASS" => status = "PASS",
         status = "PASS" => row.status = "PASS"
  PROVE  MemoryFollowsJournal'
<1>1. row \in Rows /\ row.key \in Keys /\ pc # "off" /\ IsTrue(row)
  BY DEF SweepType, Rows, MemoryInv, RowFits
<1>2. /\ committed'[row.key] = status
      /\ \A k \in Keys : k # row.key => committed'[k] = committed[k]
  BY <1>1 DEF SweepType
<1>3. ASSUME NEW i \in DOMAIN file', file'[i].key.kind = "run", file'[i].status = "PASS"
      PROVE  committed'[file'[i].key] = "PASS"
  <2>1. CASE i \in DOMAIN file /\ IsRead(file'[i], file[i])
    <3>1. file[i].key \in Keys /\ committed[file[i].key] = "PASS"
      <4>1. file[i] \in Rows
        BY <2>1 DEF SweepType
      <4>2. QED  BY <1>1, <1>3, <2>1, <4>1 DEF MemoryInv, MemoryFollowsJournal, IsRead, Rows
    <3>2. file[i].key # row.key
      <4>1. SUFFICES ASSUME file[i].key = row.key PROVE FALSE
        OBVIOUS
      <4>2. row.key.kind = "run"
        BY <1>3, <2>1, <4>1 DEF IsRead
      <4>3. row.key # CompleteKey(Fixture) /\ row.key # OracleKey(Fixture, repeat)
        BY <4>2, KeysAreDistinct
      <4>4. QED  BY <3>1, <4>1, <4>2, <4>3 DEF MemoryInv, RowFits, Passed
    <3>3. QED  BY <1>2, <2>1, <3>1, <3>2 DEF IsRead
  <2>2. CASE IsRead(file'[i], row)
    BY <1>2, <1>3, <2>2 DEF IsRead
  <2>3. QED  BY <2>1, <2>2 DEF Grows
<1>4. ASSUME NEW k \in Keys, k.kind = "run", committed'[k] = "PASS" PROVE k \in results
  <2>1. CASE k = row.key
    BY <1>1, <1>2, <1>4, <2>1 DEF IsTrue
  <2>2. CASE k # row.key
    BY <1>1, <1>2, <1>4, <2>2 DEF MemoryInv, MemoryFollowsJournal
  <2>3. QED  BY <2>1, <2>2
<1>5. ASSUME NEW f \in ToSet(Fixtures), committed'[CompleteKey(f)] = "PASS"
      PROVE  RunsOf(f) \subseteq results
  <2>1. CompleteKey(f) \in Keys
    BY DEF Keys
  <2>2. CASE CompleteKey(f) = row.key
    BY <1>1, <1>2, <1>5, <2>2 DEF IsTrue
  <2>3. CASE CompleteKey(f) # row.key
    BY <1>1, <1>2, <1>5, <2>1, <2>3 DEF MemoryInv, MemoryFollowsJournal
  <2>4. QED  BY <2>2, <2>3
<1>6. QED  BY <1>3, <1>4, <1>5 DEF MemoryFollowsJournal

\* The process whose row of a run is written goes on with the other runs.
LEMMA RunWrittenKeeps ==
  ASSUME SweepType, JournalInv, MemoryInv, Write,
         row.type = "RUNTIME" \/ (row.type = "FAILURE" /\ ~options.failFast)
  PROVE  SweepType' /\ MemoryInv'
<1> USE DEF SweepType, MemoryInv
<1> DEFINE status == IF row.type = "RUNTIME" THEN "PASS" ELSE "FAILED"
<1>1. /\ row # NoRow /\ results' = results /\ row' = NoRow
      /\ committed' = [committed EXCEPT ![row.key] = status]
      /\ UNCHANGED <<options, pc, position, repeat, queue, active, fixtureRows,
                     fixtureInvalid, invalid>>
  BY DEF Write, Returned, tally
<1>2. \/ row.type = "RUNTIME" /\ UNCHANGED <<fixtureFailed, unresolved>>
      \/ row.type = "FAILURE" /\ fixtureFailed' = TRUE /\ unresolved' = TRUE
  BY DEF Write, Returned, tally
<1>3. /\ pc = "runs" /\ row \in Rows /\ row.key \in Keys
      /\ row.type = "RUNTIME" <=> row.status = "PASS"
      /\ row.type = "RUNTIME" /\ Measured(row.key) => row.key \in fixtureRows
  BY <1>1 DEF RowFits, Rows
<1>4. PICK t \in ToSet(Treatments) :
        row.key = RunKey(Fixture, repeat, t) /\ t \notin queue /\ row.key \notin active
  BY <1>1 DEF RowFits
<1>5. row.key.kind = "run"
  BY <1>4, KeysAreDistinct
<1>6. status = "PASS" <=> row.status = "PASS"
  BY <1>3
<1>7. /\ status \in {"PASS", "FAILED"} /\ committed'[row.key] = status
      /\ \A k \in Keys : k # row.key => committed'[k] = committed[k]
  BY <1>1, <1>3
<1> HIDE DEF status
<1>8. Grows /\ tail' \in Tails /\ file' \in Seq(Rows)
  BY WritesGrow DEF Grows
<1>9. /\ fixtureFailed' \in BOOLEAN /\ unresolved' \in BOOLEAN
      /\ fixtureFailed => fixtureFailed'
      /\ unresolved => unresolved'
  BY <1>2
<1>10. SweepType'
  <2>1. committed' \in [Keys -> Statuses \cup {"NONE"}]
    BY <1>1, <1>7 DEF Statuses
  <2>2. QED  BY <1>1, <1>8, <1>9, <2>1
<1>11. MemoryFollowsJournal'
  BY <1>1, <1>3, <1>6, <1>8, GrowthIsRemembered
<1>12. /\ position \in DOMAIN Fixtures /\ Fixture \in ToSet(Fixtures)
       /\ repeat \in Repeats /\ Fixture' = Fixture
  <2>1. position \in DOMAIN Fixtures
    BY <1>3 DEF FixtureInv, Working
  <2>2. Fixture \in ToSet(Fixtures)
    BY <2>1, FixturesAreThere DEF Fixture
  <2>3. QED  BY <1>1, <1>3, <2>1, <2>2 DEF RunsInv, Fixture
<1>13. FixtureInv'
  <2>1. ASSUME NEW k \in RunsOf(Fixture), Measured(k), IsWhole(k)'
        PROVE  k \in fixtureRows
    <3>1. CASE row = Row("RUNTIME", k, "PASS")
      BY <1>3, <2>1, <3>1 DEF Row
    <3>2. CASE IsWhole(k)
      BY <1>3, <2>1, <3>2 DEF FixtureInv, Working
    <3>3. QED  BY <1>8, <2>1, <3>1, <3>2, WholeIsOld
  <2>2. /\ fixtureFailed' => unresolved'
        /\ fixtureInvalid' => invalid'
    BY <1>1, <1>2, <1>3 DEF FixtureInv, Working
  <2>3. \A k : Measured(k)' <=> Measured(k)
    BY DEF Measured
  <2>4. QED  BY <1>1, <1>12, <2>1, <2>2, <2>3 DEF FixtureInv
<1>14. \A n \in Repeats, u \in ToSet(Treatments) :
         /\ Passed(n, u) /\ (n # repeat \/ u # t) => Passed(n, u)'
         /\ Passed(n, u)' /\ (n # repeat \/ u # t) => Passed(n, u)
         /\ n = repeat /\ u = t => Passed(n, u)' <=> status = "PASS"
  <2>1. ASSUME NEW n \in Repeats, NEW u \in ToSet(Treatments)
        PROVE  /\ RunKey(Fixture, n, u) \in Keys
               /\ RunKey(Fixture, n, u) = row.key <=> n = repeat /\ u = t
    BY <1>4, <1>12, KeysAreThere, KeysAreDistinct
  <2>2. QED  BY <1>7, <1>12, <2>1 DEF Passed
<1>15. PICK now \in Repeats : now = repeat
  BY <1>12
<1>16. fixtureFailed' \/ Passed(now, t)'
  <2>1. fixtureFailed' \/ status = "PASS"
    BY <1>2, <1>3, <1>6
  <2>2. QED  BY <1>14, <1>15, <2>1
<1>17. \A n \in Repeats : n < repeat => RepeatIsOver(n)'
  <2>1. \A n \in Repeats : n < repeat => n # repeat
    BY SweepAssumption DEF Repeats
  <2>2. \A n \in Repeats : n < repeat => RepeatIsOver(n)
    BY <1>3 DEF RunsInv
  <2>3. \A n \in Repeats :
          RepeatIsOver(n) <=> (fixtureFailed \/ \A u \in ToSet(Treatments) : Passed(n, u))
    BY DEF RepeatIsOver
  <2>4. \A n \in Repeats :
          RepeatIsOver(n)' <=> (fixtureFailed' \/ \A u \in ToSet(Treatments) : Passed(n, u)')
    BY DEF RepeatIsOver
  <2>5. QED  BY <1>9, <1>14, <2>1, <2>2, <2>3, <2>4
<1> DEFINE key(u) == RunKey(Fixture, repeat, u)
<1>18. \A u \in ToSet(Treatments) :
         fixtureFailed' \/ Passed(now, u)' \/ u \in queue \/ key(u) \in active
  <2>1. \A u \in ToSet(Treatments) : key(u) = row.key => u = t
    BY <1>4, KeysAreDistinct
  <2>2. \A u \in ToSet(Treatments) :
          \/ fixtureFailed \/ Passed(now, u) \/ u \in queue \/ key(u) \in active \/ row.key = key(u)
    BY <1>3, <1>15 DEF RunsInv
  <2> HIDE DEF key
  <2>3. QED  BY <1>9, <1>14, <1>15, <1>16, <2>1, <2>2
<1>19. /\ \A u \in queue : ~Passed(now, u)' /\ key(u) \notin active
       /\ \A k \in active : \E u \in ToSet(Treatments) : k = key(u) /\ ~Passed(now, u)'
  <2>1. /\ \A u \in queue : ~Passed(now, u) /\ key(u) \notin active
        /\ \A k \in active : \E u \in ToSet(Treatments) : k = key(u) /\ ~Passed(now, u)
    BY <1>3, <1>15 DEF RunsInv
  <2>2. row.key = key(t)
    BY <1>4
  <2> HIDE DEF key
  <2>3. \A u \in queue : u \in ToSet(Treatments) /\ u # t
    BY <1>4
  <2>4. QED  BY <1>4, <1>14, <1>15, <2>1, <2>2, <2>3
<1>20. RunsInv'
  <2>1. \A u : RunKey(Fixture, repeat, u)' = key(u)
    BY <1>1, <1>12
  <2>2. pc' = "runs" /\ repeat' = now /\ queue' = queue /\ active' = active /\ row' = NoRow
    BY <1>1, <1>3, <1>15
  <2>3. \A u : Passed(repeat, u)' <=> Passed(now, u)'
    BY <2>2 DEF Passed
  <2> HIDE DEF key
  <2>4. QED  BY <1>15, <1>17, <1>18, <1>19, <2>1, <2>2, <2>3 DEF RunsInv
<1>21. OracleInv' /\ RowFits'
  BY <1>1, <1>3 DEF OracleInv, RowFits
<1>22. ProgressInv'
  BY <1>1, <1>3, <1>9 DEF ProgressInv
<1>23. QED  BY <1>10, <1>11, <1>13, <1>20, <1>21, <1>22

\* A fixture that could not be loaded is passed by.
LEMMA TraceFailureWrittenKeeps ==
  ASSUME SweepType, JournalInv, MemoryInv, Write, row.type = "TRACE_FAILURE"
  PROVE  SweepType' /\ MemoryInv'
<1> USE DEF SweepType, MemoryInv
<1>1. /\ row # NoRow /\ results' = results /\ row' = NoRow /\ unresolved' = TRUE
      /\ position' = IF options.failFast THEN Len(Fixtures) + 1 ELSE position + 1
      /\ UNCHANGED <<options, pc, committed, repeat, queue, active, fixtureRows,
                     fixtureFailed, fixtureInvalid, invalid>>
  BY DEF Write, Returned
<1>2. row \in Rows /\ row.key.kind = "failure" /\ pc = "fixture"
  BY <1>1 DEF RowFits
<1>3. Grows /\ tail' \in Tails /\ file' \in Seq(Rows)
  BY WritesGrow DEF Grows
<1>4. SweepType'
  <2>1. position' \in Nat \ {0}
    BY <1>1, SweepAssumption
  <2>2. unresolved' \in BOOLEAN
    BY <1>1
  <2>3. QED  BY <1>1, <1>3, <2>1, <2>2
<1>5. MemoryFollowsJournal'
  <2>1. ASSUME NEW i \in DOMAIN file', file'[i].key.kind = "run", file'[i].status = "PASS"
        PROVE  committed[file'[i].key] = "PASS"
    <3>1. i \in DOMAIN file /\ IsRead(file'[i], file[i])
      BY <1>2, <1>3, <2>1 DEF Grows, IsRead
    <3>2. QED  BY <1>2, <2>1, <3>1 DEF MemoryFollowsJournal, IsRead
  <2>2. QED  BY <1>1, <1>2, <2>1 DEF MemoryFollowsJournal
<1>6. FixtureInv' /\ RunsInv' /\ OracleInv' /\ RowFits' /\ ProgressInv'
  BY <1>1, <1>2 DEF FixtureInv, Working, RunsInv, OracleInv, RowFits, ProgressInv
<1>7. QED  BY <1>4, <1>5, <1>6

\* The next repeat is compared.
LEMMA OracleWrittenKeeps ==
  ASSUME SweepType, JournalInv, MemoryInv, Write, row.type = "ORACLE_VALIDATION"
  PROVE  SweepType' /\ MemoryInv'
<1> USE DEF SweepType, MemoryInv
<1>1. /\ row # NoRow /\ results' = results /\ row' = NoRow /\ repeat' = repeat + 1
      /\ committed' = [committed EXCEPT ![row.key] = row.status]
      /\ UNCHANGED <<options, pc, position, queue, active, fixtureRows,
                     fixtureFailed, fixtureInvalid, unresolved, invalid>>
  BY DEF Write, Returned, tally
<1>2. /\ row \in Rows /\ row.key \in Keys /\ pc = "oracle" /\ repeat \in Repeats
      /\ row.key = OracleKey(Fixture, repeat) /\ row.key.kind = "oracle"
      /\ Comparable /\ RepeatIsWhole(repeat) /\ row.status # "PASS" => fixtureInvalid
  BY <1>1, KeysAreDistinct DEF RowFits, Rows
<1>3. /\ Grows /\ tail' \in Tails /\ file' \in Seq(Rows)
      /\ \A k : IsWhole(k)' => IsWhole(k)
  <2>1. Grows /\ tail' \in Tails
    BY WritesGrow
  <2>2. \A k : row # Row("RUNTIME", k, "PASS")
    BY DEF Row
  <2>3. QED  BY <2>1, <2>2, WholeIsOld DEF Grows
<1>4. /\ row.status \in Statuses /\ committed'[row.key] = row.status
      /\ \A k \in Keys : k # row.key => committed'[k] = committed[k]
  BY <1>1, <1>2 DEF Rows, Statuses
<1>5. Fixture' = Fixture /\ Fixture \in ToSet(Fixtures) /\ position \in DOMAIN Fixtures
  BY <1>1, <1>2, FixturesAreThere DEF Fixture, FixtureInv, Working
<1>6. \A k \in Keys : k.kind # "oracle" => committed'[k] = committed[k]
  BY <1>2, <1>4
<1>7. SweepType'
  <2>1. committed' \in [Keys -> Statuses \cup {"NONE"}]
    BY <1>1, <1>4
  <2>2. QED  BY <1>1, <1>3, <2>1
<1>8. MemoryFollowsJournal'
  BY <1>1, <1>2, <1>3, GrowthIsRemembered
<1>9. FixtureInv'
  <2>1. \A k : Measured(k)' <=> Measured(k)
    BY DEF Measured
  <2>2. QED  BY <1>1, <1>2, <1>3, <1>5, <2>1 DEF FixtureInv, Working
<1>10. RunsInv'
  <2>1. \A n \in Repeats, u \in ToSet(Treatments) : Passed(n, u)' <=> Passed(n, u)
    <3>1. \A n \in Repeats, u \in ToSet(Treatments) :
            RunKey(Fixture, n, u) \in Keys /\ RunKey(Fixture, n, u).kind # "oracle"
      BY <1>5, KeysAreThere, KeysAreDistinct
    <3>2. QED  BY <1>5, <1>6, <3>1 DEF Passed
  <2>2. \A n \in Repeats : RepeatIsOver(n)' <=> RepeatIsOver(n)
    BY <1>1, <2>1 DEF RepeatIsOver
  <2>3. QED  BY <1>1, <1>2, <2>2 DEF RunsInv
<1>11. OracleInv'
  <2>1. repeat + 1 > Warmups /\ \A n \in Repeats : n < repeat + 1 => n < repeat \/ n = repeat
    BY <1>2, SweepAssumption DEF Repeats, OracleInv
  <2>2. ASSUME Comparable, NEW n \in Repeats, n > Warmups, n < repeat + 1, RepeatIsWhole(n)
        PROVE  fixtureInvalid \/ committed'[OracleKey(Fixture, n)] = "PASS"
    <3>1. CASE n = repeat
      BY <1>2, <1>4, <2>2, <3>1
    <3>2. CASE n # repeat
      <4>1. OracleKey(Fixture, n) # row.key /\ OracleKey(Fixture, n) \in Keys
        <5>1. OracleKey(Fixture, n) # OracleKey(Fixture, repeat)
          BY <3>2, KeysAreDistinct
        <5>2. OracleKey(Fixture, n) \in Keys
          BY <1>5 DEF Keys
        <5>3. QED  BY <1>2, <5>1, <5>2
      <4>2. n < repeat
        BY <2>1, <2>2, <3>2
      <4>3. fixtureInvalid \/ committed[OracleKey(Fixture, n)] = "PASS"
        BY <1>2, <2>2, <4>2 DEF OracleInv
      <4>4. QED  BY <1>4, <4>1, <4>3
    <3>3. QED  BY <3>1, <3>2
  <2>3. \A n : RepeatIsWhole(n)' => RepeatIsWhole(n)
    BY <1>3, <1>5 DEF RepeatIsWhole
  <2>4. QED  BY <1>1, <1>5, <2>1, <2>2, <2>3 DEF OracleInv
<1>12. RowFits'
  BY <1>1 DEF RowFits
<1>13. ProgressInv'
  BY <1>1, <1>2 DEF ProgressInv
<1>14. QED  BY <1>7, <1>8, <1>9, <1>10, <1>11, <1>12, <1>13

\* The next fixture is taken.
LEMMA CompleteWrittenKeeps ==
  ASSUME SweepType, JournalInv, MemoryInv, Write, row.type = "TRACE_COMPLETE"
  PROVE  SweepType' /\ MemoryInv'
<1> USE DEF SweepType, MemoryInv
<1>1. /\ row # NoRow /\ results' = results /\ row' = NoRow
      /\ position' = position + 1 /\ pc' = "fixture"
      /\ committed' = [committed EXCEPT ![row.key] = row.status]
      /\ UNCHANGED <<options, repeat, queue, active, fixtureRows,
                     fixtureFailed, fixtureInvalid, unresolved, invalid>>
  BY DEF Write, Returned, tally
<1>2. /\ row \in Rows /\ row.key \in Keys /\ pc = "oracle"
      /\ row.key = CompleteKey(Fixture) /\ IsTrue(row)
      /\ row.status # "PASS" => fixtureFailed \/ fixtureInvalid
  BY <1>1 DEF RowFits, Rows
<1>3. Grows /\ tail' \in Tails /\ file' \in Seq(Rows)
  BY WritesGrow DEF Grows
<1>4. /\ row.status \in Statuses /\ committed'[row.key] = row.status
      /\ \A k \in Keys : k # row.key => committed'[k] = committed[k]
  BY <1>1, <1>2 DEF Rows, Statuses
<1>5. SweepType'
  <2>1. committed' \in [Keys -> Statuses \cup {"NONE"}]
    BY <1>1, <1>4
  <2>2. QED  BY <1>1, <1>3, <2>1
<1>6. MemoryFollowsJournal'
  BY <1>1, <1>2, <1>3, GrowthIsRemembered
<1>7. FixtureInv' /\ RunsInv' /\ OracleInv' /\ RowFits'
  BY <1>1, <1>2 DEF FixtureInv, Working, RunsInv, OracleInv, RowFits
<1>8. ProgressInv'
  <2>1. ASSUME ~unresolved, ~invalid, NEW i \in DOMAIN Fixtures, i < position + 1
        PROVE  RunsOf(Fixtures[i]) \subseteq results
    <3>1. row.status = "PASS"
      BY <1>2, <2>1 DEF FixtureInv, Working
    <3>2. CASE i = position
      BY <1>2, <2>1, <3>1, <3>2, FixturesAreThere DEF Fixture, IsTrue
    <3>3. CASE i # position
      <4>1. i < position
        BY <2>1, <3>3, FixturesAreThere
      <4>2. QED  BY <1>2, <2>1, <4>1 DEF ProgressInv
    <3>4. QED  BY <3>2, <3>3
  <2>2. QED  BY <1>1, <2>1 DEF ProgressInv
<1>9. QED  BY <1>5, <1>6, <1>7, <1>8

\* Whichever row is written, the process holds what it should.
LEMMA WriteKeeps ==
  ASSUME SweepType, JournalInv, MemoryInv, Write
  PROVE  SweepType' /\ MemoryInv'
<1>1. \/ row.type \in {"RUNTIME", "TRACE_FAILURE", "ORACLE_VALIDATION", "TRACE_COMPLETE"}
      \/ row.type = "FAILURE" /\ ~options.failFast
      \/ row.type = "FAILURE" /\ options.failFast /\ Off
  BY DEF Write, Returned
<1>2. CASE row.type = "FAILURE" /\ options.failFast /\ Off
  <2>1. options \in Options /\ options' = options
    BY DEF Write, SweepType
  <2>2. file' \in Seq(Rows) /\ tail' \in Tails
    BY WritesGrow DEF Grows
  <2>3. QED  BY <1>2, <2>1, <2>2, OffHoldsNothing
<1>3. QED  BY <1>1, <1>2, RunWrittenKeeps, TraceFailureWrittenKeeps, OracleWrittenKeeps,
              CompleteWrittenKeeps

-----------------------------------------------------------------------------
\* The end of a process, and the theorems

\* The manifest is written when every fixture is passed by.
LEMMA WriteManifestKeeps ==
  ASSUME SweepInv, WriteManifest
  PROVE  SweepType' /\ MemoryInv' /\ ManifestIsTrue'
<1>1. /\ Off /\ UNCHANGED <<file, tail, results, options>> /\ pc = "fixture"
      /\ position > Len(Fixtures)
      /\ manifest' = IF unresolved THEN "PARTIAL" ELSE IF invalid THEN "INVALID" ELSE "PASS"
  BY DEF WriteManifest, At
<1>2. SweepType' /\ MemoryInv'
  <2>1. options \in Options /\ file' \in Seq(Rows) /\ tail' \in Tails
    BY <1>1 DEF SweepInv, SweepType
  <2>2. QED  BY <1>1, <2>1, OffHoldsNothing
<1>3. ASSUME manifest' = "PASS", NEW f \in ToSet(Fixtures)
      PROVE  RunsOf(f) \subseteq results
  <2>1. ~unresolved /\ ~invalid
    BY <1>1, <1>3
  <2>2. PICK i \in DOMAIN Fixtures : Fixtures[i] = f
    BY DEF ToSet
  <2>3. i < position
    BY <1>1, FixturesAreThere, SweepAssumption DEF SweepInv, SweepType
  <2>4. QED  BY <1>1, <2>1, <2>2, <2>3 DEF SweepInv, MemoryInv, ProgressInv
<1>4. QED  BY <1>1, <1>2, <1>3 DEF ManifestIsTrue

\* Before the first start there is nothing.
LEMMA SweepInitially ==
  Init => SweepInv
<1> SUFFICES ASSUME Init PROVE SweepInv
  OBVIOUS
<1>1. file = <<>> /\ tail = "whole" /\ manifest = "NONE" /\ pc = "off" /\ row = NoRow /\ position = 1
      /\ queue = {} /\ active = {} /\ repeat = 1 /\ options \in Options
  BY DEF Init
<1>2. JournalInv
  <2>1. DOMAIN file = {}
    BY <1>1
  <2>2. QED  BY <1>1, <2>1 DEF JournalInv
<1>3. SweepType
  <2>1. committed \in [Keys -> Statuses \cup {"NONE"}]
    BY DEF Init
  <2>2. /\ fixtureFailed \in BOOLEAN /\ fixtureInvalid \in BOOLEAN
        /\ unresolved \in BOOLEAN /\ invalid \in BOOLEAN
    BY DEF Init
  <2>3. QED  BY <1>1, <2>1, <2>2 DEF SweepType, Tails
<1>4. MemoryInv
  BY <1>1
  DEF MemoryInv, MemoryFollowsJournal, FixtureInv, Working, RunsInv, OracleInv, RowFits, ProgressInv
<1>5. ManifestIsTrue
  BY <1>1 DEF ManifestIsTrue
<1>6. QED  BY <1>2, <1>3, <1>4, <1>5 DEF SweepInv

\* Every step of a sweep keeps the invariant.
LEMMA SweepStepKeeps ==
  SweepInv /\ [Next]_vars => SweepInv'
<1> SUFFICES ASSUME SweepInv, [Next]_vars PROVE SweepInv'
  OBVIOUS
<1>1. SweepType /\ JournalInv /\ MemoryInv /\ ManifestIsTrue
  BY DEF SweepInv
<1>2. SUFFICES SweepType' /\ JournalInv' /\ MemoryInv' /\ ManifestIsTrue'
  BY DEF SweepInv
<1>3. UNCHANGED <<file, tail, results, manifest>> => JournalInv' /\ ManifestIsTrue'
  BY <1>1, JournalIsKept
<1>4. CASE Start
  BY <1>1, <1>3, <1>4, StartKeeps DEF Start, disk
<1>5. CASE NextFixture
  BY <1>1, <1>3, <1>5, NextFixtureKeeps DEF NextFixture, disk
<1>6. CASE NextRepeat
  BY <1>1, <1>3, <1>6, NextRepeatKeeps DEF NextRepeat, disk
<1>7. CASE Launch
  BY <1>1, <1>3, <1>7, LaunchKeeps DEF Launch, disk
<1>8. CASE EndRepeat
  BY <1>1, <1>3, <1>8, EndRepeatKeeps DEF EndRepeat, disk
<1>9. ASSUME NEW key \in active, Finish(key)
      PROVE  SweepType' /\ JournalInv' /\ MemoryInv' /\ ManifestIsTrue'
  <2>1. UNCHANGED <<file, tail, manifest>> /\ results \subseteq results'
    BY <1>9 DEF Finish
  <2>2. QED  BY <1>1, <1>9, <2>1, FinishKeeps, JournalIsKept
<1>10. CASE BeginOracle
  BY <1>1, <1>3, <1>10, BeginOracleKeeps DEF BeginOracle, disk
<1>11. CASE ValidateOracle
  BY <1>1, <1>3, <1>11, ValidateOracleKeeps DEF ValidateOracle, disk
<1>12. CASE CompleteFixture
  BY <1>1, <1>3, <1>12, CompleteFixtureKeeps DEF CompleteFixture, disk
<1>13. CASE WriteManifest
  <2>1. JournalInv'
    BY <1>1, <1>13, JournalIsKept DEF WriteManifest
  <2>2. QED  BY <1>13, <2>1, WriteManifestKeeps
<1>14. CASE Expand
  <2>1. UNCHANGED <<file, results, options, memory, manifest>> /\ tail' = "whole" /\ tail' \in Tails
    BY <1>14 DEF Expand, Tails
  <2>2. QED  BY <1>1, <2>1, IdleKeeps, JournalIsKept
<1>15. CASE Write
  <2>1. /\ Grows /\ row # NoRow /\ results' = results /\ manifest' = manifest
        /\ tail' = "read" => file' # <<>>
    BY <1>1, <1>15, WritesGrow
  <2>2. JournalInv' /\ ManifestIsTrue'
    BY <1>1, <2>1, GrowthKeepsJournal DEF ManifestIsTrue
  <2>3. QED  BY <1>1, <1>15, <2>2, WriteKeeps
<1>16. CASE Crash
  <2>1. Off /\ UNCHANGED <<file, tail, results, manifest, options>>
    BY <1>16 DEF Crash, disk
  <2>2. options \in Options /\ file' \in Seq(Rows) /\ tail' \in Tails
    BY <1>1, <2>1 DEF SweepType
  <2>3. QED  BY <1>3, <2>1, <2>2, OffHoldsNothing
<1>17. CASE Tear
  <2>1. /\ Grows /\ row # NoRow /\ results' = results /\ manifest' = manifest
        /\ tail' \in Tails /\ (tail' = "read" => file' # <<>>)
    BY <1>1, <1>17, WritesGrow
  <2>2. JournalInv' /\ ManifestIsTrue'
    BY <1>1, <2>1, GrowthKeepsJournal DEF ManifestIsTrue
  <2>3. Off /\ options' = options /\ options \in Options /\ file' \in Seq(Rows)
    BY <1>1, <1>17, <2>1 DEF Tear, SweepType, Grows
  <2>4. QED  BY <2>1, <2>2, <2>3, OffHoldsNothing
<1>18. CASE TearHeader
  <2>1. Off /\ UNCHANGED <<file, results, manifest, options>> /\ tail' = "unread"
    BY <1>18 DEF TearHeader
  <2>2. options \in Options /\ file' \in Seq(Rows) /\ tail' \in Tails
    BY <1>1, <2>1 DEF SweepType, Tails
  <2>3. JournalInv' /\ ManifestIsTrue'
    BY <1>1, <2>1 DEF JournalInv, IsTrue, ManifestIsTrue
  <2>4. QED  BY <2>1, <2>2, <2>3, OffHoldsNothing
<1>19. CASE UNCHANGED vars
  <2>1. UNCHANGED <<file, tail, results, manifest, options, memory>>
    BY <1>19 DEF vars, disk
  <2>2. tail' \in Tails
    BY <1>1, <2>1 DEF SweepType
  <2>3. QED  BY <1>1, <1>3, <2>1, <2>2, IdleKeeps
<1>20. QED
  BY <1>4, <1>5, <1>6, <1>7, <1>8, <1>9, <1>10, <1>11, <1>12, <1>13, <1>14, <1>15, <1>16, <1>17,
     <1>18, <1>19
  DEF Next, Step

\* The invariant of a sweep: through any crashes, between the steps or within the
\* writing of a row, what can be read of the journal is true of the results, and a
\* process that lives remembers all of it that has passed.
THEOREM SweepInvariant == SweepSpec => []SweepInv
<1>1. Init => SweepInv
  BY SweepInitially
<1>2. SweepInv /\ [Next]_vars => SweepInv'
  BY SweepStepKeeps
<1>3. QED  BY <1>1, <1>2, PTL DEF SweepSpec

\* A fixture the journal calls complete has the result of every run of every
\* treatment, so what later sweeps skip was done, whatever rows were torn or lost.
THEOREM CompletionsAreEarned == SweepSpec => []CompleteMeansDone
<1>1. SweepInv => CompleteMeansDone
  BY DEF SweepInv, JournalInv, IsTrue, CompleteMeansDone, LastRowSays
<1>2. QED  BY <1>1, SweepInvariant, PTL

\* A manifest that says PASS speaks of every run of every fixture: the one that is
\* written after a restart counts the failures of the starts before it.
THEOREM ManifestsAreTrue == SweepSpec => []ManifestIsTrue
<1>1. SweepInv => ManifestIsTrue
  BY DEF SweepInv
<1>2. QED  BY <1>1, SweepInvariant, PTL

\* Where there is a treatment to compare the Oracle with, a fixture is called complete
\* after the Oracle was compared in every measured repeat whose rows can be read,
\* whichever of them were read back from the journal after a crash.
THEOREM OracleIsValidated ==
  ASSUME Comparable
  PROVE  SweepSpec => []OracleSeesTheFixture
<1>1. SweepInv => OracleSeesTheFixture
  <2>1. SUFFICES ASSUME SweepInv, row # NoRow,
                        row = Row("TRACE_COMPLETE", CompleteKey(Fixture), "PASS"),
                        NEW n \in Repeats, n > Warmups, RepeatIsWhole(n)
                 PROVE  committed[OracleKey(Fixture, n)] = "PASS"
    BY DEF OracleSeesTheFixture, RepeatIsWhole
  <2>2. row.type = "TRACE_COMPLETE" /\ row.status = "PASS"
    BY <2>1 DEF Row
  <2>3. pc = "oracle" /\ repeat \notin Repeats /\ ~fixtureInvalid
    BY <2>1, <2>2 DEF SweepInv, MemoryInv, RowFits
  <2>4. repeat > Warmups /\ repeat \in Nat
    BY <2>1, <2>3 DEF SweepInv, SweepType, MemoryInv, OracleInv
  <2>5. n < repeat
    BY <2>3, <2>4, SweepAssumption DEF Repeats
  <2>6. QED  BY <2>1, <2>3, <2>5 DEF SweepInv, MemoryInv, OracleInv
<1>2. QED  BY <1>1, SweepInvariant, PTL

\* A run whose last row says PASS is never launched again.
THEOREM PassedRunsAreNotRepeated == SweepSpec => CommittedIsNotRepeated
<1>1. ASSUME SweepInv, [Next]_vars
      PROVE  [\A key \in active' \ active : ~LastRowSays(key, "PASS")]_vars
  <2>1. SUFFICES ASSUME NEW key \in active' \ active PROVE ~LastRowSays(key, "PASS")
    OBVIOUS
  <2>2. Launch
    <3>1. Off => active' = {}
      BY DEF Off
    <3>2. Start \/ NextFixture \/ NextRepeat \/ EndRepeat \/ BeginOracle \/ ValidateOracle
          \/ CompleteFixture => active' = active
      BY DEF Start, NextFixture, NextRepeat, EndRepeat, BeginOracle, ValidateOracle, CompleteFixture
    <3>3. Expand \/ UNCHANGED vars => active' = active
      BY DEF Expand, vars, memory
    <3>4. Write => active' = active \/ Off
      BY DEF Write, Returned
    <3>5. Crash \/ Tear \/ TearHeader \/ WriteManifest => Off
      BY DEF Crash, Tear, TearHeader, WriteManifest
    <3>6. \A k \in active : Finish(k) => active' \subseteq active
      BY DEF Finish
    <3>7. QED  BY <1>1, <2>1, <3>1, <3>2, <3>3, <3>4, <3>5, <3>6 DEF Next, Step
  <2>3. PICK t \in queue : key = RunKey(Fixture, repeat, t)
    BY <2>1, <2>2 DEF Launch
  <2>4. /\ pc = "runs" /\ t \in ToSet(Treatments) /\ committed[key] # "PASS"
        /\ repeat \in Repeats /\ position \in DOMAIN Fixtures
    BY <1>1, <2>2, <2>3
    DEF Launch, At, SweepInv, SweepType, MemoryInv, RunsInv, Passed, FixtureInv, Working
  <2>5. key.kind = "run"
    BY <2>3, KeysAreDistinct
  <2>6. \A i \in DOMAIN file : file[i].key = key => file[i].status # "PASS"
    BY <1>1, <2>4, <2>5 DEF SweepInv, MemoryInv, MemoryFollowsJournal
  <2>7. QED  BY <2>6 DEF LastRowSays
<1>2. QED  BY <1>1, SweepInvariant, PTL DEF SweepSpec, CommittedIsNotRepeated
=============================================================================
