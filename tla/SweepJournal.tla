----------------------------- MODULE SweepJournal -----------------------------
(***************************************************************************)
(* The repository sweep of the off-line simulator and the CSV journal it   *)
(* is resumed from (rs_sim/app/formal_sweep.py).                           *)
(*                                                                         *)
(* A sweep goes through the fixtures; each fixture runs every treatment in *)
(* every repeat, up to Workers at a time, and one journal row is appended  *)
(* for each run, for each Oracle validation and for the fixture.  The      *)
(* process may die between any two steps and within the writing of a row;  *)
(* started again it reads the journal, as far as it can be read, and goes  *)
(* on.  A row is its type, its key and its status, which come first in its *)
(* line in the order type, status, key; the path of a result comes later.  *)
(***************************************************************************)
EXTENDS Naturals, Sequences, FiniteSets, SequencesExt

CONSTANTS Fixtures,      \* the fixtures, in the order they are discovered
          Treatments,    \* the treatments, in order
          Oracle,        \* the treatment the others are compared with
          Warmups, Measures, Workers,
          Options,       \* the settings of the command, see options
          NoTreatment, NoRow

\* _expand_treatments refuses two treatments that mean the same.
ASSUME SweepAssumption ==
    /\ Fixtures \in Seq(ToSet(Fixtures)) /\ Treatments \in Seq(ToSet(Treatments))
    /\ IsInjective(Treatments) /\ Oracle \in ToSet(Treatments)
    /\ Warmups \in Nat /\ Measures \in Nat /\ Workers \in Nat \ {0}
    /\ Options \subseteq [rerun : BOOLEAN, failFast : BOOLEAN, oracleLoses : BOOLEAN,
                          bad : SUBSET ToSet(Fixtures), starts : Nat]

VARIABLES
    file, columns,              \* the rows that DictReader finds the key of, the header
    tail,                       \* where the last line breaks off, see Tails
    manifest,                   \* the status in the manifest
    results,                    \* the runs with a result file of their own
    options,                    \* rerun_failures, fail_fast, how the Oracle compares, what fails to load,
                                \* and how often the command is given at most
    starts,
    pc,                         \* the place of the loop, "off" when no process runs
    committed, position, repeat, queue, active, fixtureRows,
    fixtureFailed, fixtureInvalid, unresolved, invalid,
    row                         \* the argument of the append under way

disk == <<file, tail, columns, manifest, results>>
tally == <<fixtureFailed, fixtureInvalid, unresolved, invalid>>
memory == <<pc, committed, position, repeat, queue, active, fixtureRows, tally, row>>
vars == <<disk, options, starts, memory>>

\* The stable digests: of a run, of an Oracle validation, of a fixture's
\* completion and of its failure to load.
Key(kind, f, n, t) == [kind |-> kind, fixture |-> f, repeat |-> n, treatment |-> t]
RunKey(f, n, t) == Key("run", f, n, t)
OracleKey(f, n) == Key("oracle", f, n, NoTreatment)
CompleteKey(f) == Key("complete", f, 0, NoTreatment)
FailureKey(f) == Key("failure", f, 0, NoTreatment)

Repeats == 1..(Warmups + Measures)
Measured(key) == key.repeat > Warmups
RunsOf(f) == {RunKey(f, n, t) : n \in Repeats, t \in ToSet(Treatments)}
Keys == UNION {RunsOf(f) \cup {OracleKey(f, n) : n \in Repeats} \cup {CompleteKey(f), FailureKey(f)}
                 : f \in ToSet(Fixtures)}

Row(type, key, status) == [type |-> type, key |-> key, status |-> status]

\* TORN is a RUNTIME row that is read by its key and status only.
Rows == [type : {"RUNTIME", "TORN", "FAILURE", "TRACE_FAILURE", "ORACLE_VALIDATION", "TRACE_COMPLETE"},
         key : Keys, status : {"PASS", "FAILED", "INCOMPLETE", "INVALID", "PARTIAL"}]

ASSUME RowAssumption == NoRow \notin Rows

\* The end of the file: a whole line; a line, or the header, that breaks off within
\* the first column, before its key is whole, or after it, where it is the last of
\* the rows that are read.
Tails == {"whole", "first", "unread", "read"}

\* Faulty variants: each is a plausible mistake in the operator it is named
\* after, for the property written beside it; no specification uses them.

\* CommittedIsNotRepeated: the first row of a key counts, not the last one.
StatusOfFault(key) ==
    IF \E i \in DOMAIN file : file[i].key = key
      THEN file[SelectInSeq(file, LAMBDA r : r.key = key)].status
      ELSE "NONE"

\* OracleSeesTheFixture: a resumed fixture starts with no rows.
CommittedRowsFault(f) == {}

\* A row whose type is not legible, or whose path of the result is not; nothing else
\* but the path is ever read by type.
Bare(r) == IF r.type = "RUNTIME" THEN [r EXCEPT !.type = "TORN"] ELSE r

\* What can be read of a row when its writing breaks off: nothing while the key is
\* not whole, and then all but the path until that is whole.
PartsOf(r) == {<<>>, <<Bare(r)>>, <<r>>}

\* The rows that may be read once text has been written behind the file, which append
\* opens without a look at its end.  After a broken line the text continues it: its
\* first column joins the one that breaks off, or all of its columns are out of
\* place; and the key or the path the line broke off behind may no longer be legible.
Extended(text) ==
    CASE tail = "whole"  -> {file \o text}
      [] tail = "first"  -> {file \o [i \in DOMAIN text |-> Bare(text[i])]}
      [] tail = "unread" -> {file}
      [] tail = "read"   -> {file, Append(Front(file), Bare(Last(file))), Front(file)}

\* committed_status_by_run_key: the last row of the key counts.
StatusOf(key) ==
    IF \E i \in DOMAIN file : file[i].key = key
      THEN file[SelectLastInSeq(file, LAMBDA r : r.key = key)].status
      ELSE "NONE"

\* A row of the run can be read that names its result.
IsWhole(k) == Row("RUNTIME", k, "PASS") \in ToSet(file)

\* committed_runtime_results: the runs of a fixture whose result can be loaded.
\* The warm-up runs are among them.
CommittedRows(f) == {k \in RunsOf(f) \cap results : IsWhole(k)}

Fixture == Fixtures[position]

\* What a process has in memory before it starts.
Off == /\ pc' = "off" /\ row' = NoRow
       /\ committed' = [k \in Keys |-> "NONE"] /\ position' = 1 /\ repeat' = 1
       /\ queue' = {} /\ active' = {} /\ fixtureRows' = {}
       /\ fixtureFailed' = FALSE /\ fixtureInvalid' = FALSE /\ unresolved' = FALSE /\ invalid' = FALSE

Init ==
    /\ file = <<>> /\ tail = "whole" /\ columns = {} /\ manifest = "NONE" /\ results = {}
    /\ options \in Options
    /\ starts = 0
    /\ pc = "off" /\ row = NoRow
    /\ committed = [k \in Keys |-> "NONE"] /\ position = 1 /\ repeat = 1
    /\ queue = {} /\ active = {} /\ fixtureRows = {}
    /\ fixtureFailed = FALSE /\ fixtureInvalid = FALSE /\ unresolved = FALSE /\ invalid = FALSE

\* The command is given, for the first time or again.
Start ==
    /\ pc = "off" /\ starts < options.starts
    /\ starts' = starts + 1
    /\ pc' = "fixture"
    /\ committed' = [k \in Keys |-> StatusOf(k)]
    /\ UNCHANGED <<disk, options, position, repeat, queue, active, fixtureRows, tally, row>>

At(place) == pc = place /\ row = NoRow

NextFixture ==
    /\ At("fixture") /\ position <= Len(Fixtures)
    /\ \/ /\ Fixture \in options.bad
          /\ row' = Row("TRACE_FAILURE", FailureKey(Fixture), "FAILED")
          /\ UNCHANGED <<pc, position, repeat, fixtureRows, fixtureFailed, fixtureInvalid>>
       \/ /\ Fixture \notin options.bad /\ committed[CompleteKey(Fixture)] = "PASS"
          /\ position' = position + 1
          /\ UNCHANGED <<pc, repeat, fixtureRows, fixtureFailed, fixtureInvalid, row>>
       \/ /\ Fixture \notin options.bad /\ committed[CompleteKey(Fixture)] # "PASS"
          /\ pc' = "repeat" /\ repeat' = 1
          /\ fixtureRows' = CommittedRows(Fixture)
          /\ fixtureFailed' = FALSE /\ fixtureInvalid' = FALSE
          /\ UNCHANGED <<position, row>>
    /\ UNCHANGED <<disk, options, starts, committed, queue, active, unresolved, invalid>>

\* ManifestIsTrue: the failures that are kept are not counted for the manifest.
NextRepeatFault ==
    /\ At("repeat") /\ repeat \in Repeats
    /\ LET previous(t) == committed[RunKey(Fixture, repeat, t)]
           kept(t) == previous(t) = "FAILED" /\ ~options.rerun
           anyKept == \E t \in ToSet(Treatments) : kept(t)
       IN  /\ queue' = {t \in ToSet(Treatments) : previous(t) # "PASS" /\ ~kept(t)}
           /\ fixtureFailed' = (fixtureFailed \/ anyKept)
    /\ pc' = "runs"
    /\ UNCHANGED <<disk, options, starts, committed, position, repeat, active, fixtureRows,
                   fixtureInvalid, unresolved, invalid, row>>

\* The runs of a repeat that are left to do; with rerun_failures off an earlier
\* failure is kept, and counts.
NextRepeat ==
    /\ At("repeat") /\ repeat \in Repeats
    /\ LET previous(t) == committed[RunKey(Fixture, repeat, t)]
           kept(t) == previous(t) = "FAILED" /\ ~options.rerun
           anyKept == \E t \in ToSet(Treatments) : kept(t)
       IN  /\ queue' = {t \in ToSet(Treatments) : previous(t) # "PASS" /\ ~kept(t)}
           /\ fixtureFailed' = (fixtureFailed \/ anyKept)
           /\ unresolved' = (unresolved \/ anyKept)
    /\ pc' = "runs"
    /\ UNCHANGED <<disk, options, starts, committed, position, repeat, active, fixtureRows,
                   fixtureInvalid, invalid, row>>

\* The next of the queue, which is kept in the order of the treatments
IsNext(t) ==
    \E i \in DOMAIN Treatments :
        /\ t = Treatments[i] /\ t \in queue
        /\ \A j \in 1 .. i - 1 : Treatments[j] \notin queue

\* A run is launched in a process of its own, or fails to be.  The order of
\* launches and polls within one turn of the loop is left open.
Launch ==
    /\ At("runs") /\ Cardinality(active) < Workers
    /\ \E t \in queue :
         /\ IsNext(t)
         /\ queue' = queue \ {t}
         /\ LET key == RunKey(Fixture, repeat, t) IN
              \/ active' = active \cup {key} /\ UNCHANGED row
              \/ row' = Row("FAILURE", key, "FAILED") /\ UNCHANGED active
    /\ UNCHANGED <<disk, options, starts, pc, committed, position, repeat, fixtureRows, tally>>

\* A worker is polled and has finished; a result goes into a file of its own before
\* the row is appended.
Finish(key) ==
    /\ At("runs") /\ key \in active
    /\ active' = active \ {key}
    /\ \/ /\ row' = Row("RUNTIME", key, "PASS")
          /\ results' = results \cup {key}
          /\ fixtureRows' = IF Measured(key) THEN fixtureRows \cup {key} ELSE fixtureRows
       \/ /\ row' = Row("FAILURE", key, "FAILED")
          /\ UNCHANGED <<results, fixtureRows>>
    /\ UNCHANGED <<file, tail, columns, manifest, options, starts, pc, committed, position, repeat,
                   queue, tally>>

EndRepeat ==
    /\ At("runs") /\ queue = {} /\ active = {}
    /\ repeat' = repeat + 1
    /\ pc' = "repeat"
    /\ UNCHANGED <<disk, options, starts, committed, position, queue, active, fixtureRows, tally, row>>

\* _oracle_validation_records, for the phase-local kind: a measured repeat whose
\* Oracle run is there is compared with the other runs that are there.
BeginOracle ==
    /\ At("repeat") /\ repeat \notin Repeats
    /\ pc' = "oracle" /\ repeat' = Warmups + 1
    /\ UNCHANGED <<disk, options, starts, committed, position, queue, active, fixtureRows, tally, row>>

Verdict(n) ==
    IF \A t \in ToSet(Treatments) \ {Oracle} : RunKey(Fixture, n, t) \notin fixtureRows
      THEN "INCOMPLETE"
      ELSE IF options.oracleLoses THEN "INVALID" ELSE "PASS"

ValidateOracle ==
    /\ At("oracle") /\ repeat \in Repeats
    /\ \/ /\ RunKey(Fixture, repeat, Oracle) \in fixtureRows
          /\ row' = Row("ORACLE_VALIDATION", OracleKey(Fixture, repeat), Verdict(repeat))
          /\ fixtureInvalid' = (fixtureInvalid \/ Verdict(repeat) = "INVALID")
          /\ invalid' = (invalid \/ Verdict(repeat) = "INVALID")
          /\ UNCHANGED repeat
       \/ /\ RunKey(Fixture, repeat, Oracle) \notin fixtureRows
          /\ repeat' = repeat + 1
          /\ UNCHANGED <<fixtureInvalid, invalid, row>>
    /\ UNCHANGED <<disk, options, starts, pc, committed, position, queue, active, fixtureRows,
                   fixtureFailed, unresolved>>

\* CompleteMeansDone: the failures of the fixture are not looked at.
TraceStatusFault == IF fixtureInvalid THEN "INVALID" ELSE "PASS"

TraceStatus ==
    IF fixtureFailed THEN "PARTIAL" ELSE IF fixtureInvalid THEN "INVALID" ELSE "PASS"

CompleteFixture ==
    /\ At("oracle") /\ repeat \notin Repeats
    /\ row' = Row("TRACE_COMPLETE", CompleteKey(Fixture), TraceStatus)
    /\ UNCHANGED <<disk, options, starts, pc, committed, position, repeat, queue, active, fixtureRows, tally>>

WriteManifest ==
    /\ At("fixture") /\ position > Len(Fixtures)
    /\ manifest' = IF unresolved THEN "PARTIAL" ELSE IF invalid THEN "INVALID" ELSE "PASS"
    /\ Off
    /\ UNCHANGED <<file, tail, columns, results, options, starts>>

\* A row of a type that is not in the file yet brings columns of its own, and one of
\* another type may; a fixture that does not load has none that a failed run lacks.
HasColumns ==
    row.type \in columns \/ (row.type = "TRACE_FAILURE" /\ "FAILURE" \in columns)

\* _expand_schema: the file is written anew beside the old one, row by row as it is
\* read, and replaces it at once.  No line of the new one breaks off.
Expand ==
    /\ row # NoRow
    /\ columns' = columns \cup {row.type}
    /\ tail' = "whole"
    /\ UNCHANGED <<file, manifest, results, options, starts, memory>>

\* What the caller of append does when it returns.
Returned ==
    \/ /\ row.type = "RUNTIME"
       /\ committed' = [committed EXCEPT ![row.key] = "PASS"]
       /\ row' = NoRow
       /\ UNCHANGED <<pc, position, repeat, queue, active, fixtureRows, tally>>
    \/ /\ row.type = "FAILURE" /\ ~options.failFast
       /\ committed' = [committed EXCEPT ![row.key] = "FAILED"]
       /\ fixtureFailed' = TRUE /\ unresolved' = TRUE
       /\ row' = NoRow
       /\ UNCHANGED <<pc, position, repeat, queue, active, fixtureRows, fixtureInvalid, invalid>>
    \/ /\ row.type = "FAILURE" /\ options.failFast
       /\ Off
    \/ /\ row.type = "TRACE_FAILURE"
       /\ unresolved' = TRUE
       /\ position' = IF options.failFast THEN Len(Fixtures) + 1 ELSE position + 1
       /\ row' = NoRow
       /\ UNCHANGED <<pc, committed, repeat, queue, active, fixtureRows, fixtureFailed, fixtureInvalid, invalid>>
    \/ /\ row.type = "ORACLE_VALIDATION"
       /\ committed' = [committed EXCEPT ![row.key] = row.status]
       /\ repeat' = repeat + 1
       /\ row' = NoRow
       /\ UNCHANGED <<pc, position, queue, active, fixtureRows, tally>>
    \/ /\ row.type = "TRACE_COMPLETE"
       /\ committed' = [committed EXCEPT ![row.key] = row.status]
       /\ position' = position + 1
       /\ pc' = "fixture"
       /\ row' = NoRow
       /\ UNCHANGED <<repeat, queue, active, fixtureRows, tally>>

\* The line breaks off within quotes, and the row that comes behind has none: the rows
\* of completions have no quotes.
StaysOpen ==
    tail = "read" /\ row.type = "TRACE_COMPLETE" /\ Last(file).key.kind # "complete"

\* The end of append: the row is written, flushed and synced, and the caller
\* goes on, whether or not the row can be read.
Write ==
    /\ row # NoRow /\ HasColumns
    /\ \/ file' \in Extended(<<row>>) /\ tail' = "whole"
       \/ StaysOpen /\ UNCHANGED <<file, tail>>
    /\ Returned
    /\ UNCHANGED <<columns, manifest, results, options, starts>>

\* The process dies within the write: a part of the row is in the file.
Tear ==
    /\ row # NoRow /\ HasColumns
    /\ \E text \in PartsOf(row) : file' \in Extended(text)
    /\ tail' \in CASE Len(file') > Len(file)      -> {"read"}
                   [] tail \in {"whole", "first"} /\ Len(file') = Len(file) -> {"first", "unread"}
                   [] tail \in {"unread", "read"} /\ Len(file') = Len(file) -> {tail}
                   [] OTHER                       -> {"unread"}
    /\ Off
    /\ UNCHANGED <<columns, manifest, results, options, starts>>

\* It dies within the write of the first header, whose columns are there and whose end
\* is not.  (With fewer columns the header is written anew with the next row.)
TearHeader ==
    /\ row # NoRow /\ columns = {}
    /\ columns' = {row.type}
    /\ tail' = "unread"
    /\ Off
    /\ UNCHANGED <<file, manifest, results, options, starts>>

\* It dies between two writes; what its workers are at is lost.
Crash ==
    /\ pc # "off"
    /\ Off
    /\ UNCHANGED <<disk, options, starts>>

Step ==
    \/ NextFixture \/ NextRepeat \/ Launch \/ EndRepeat
    \/ \E key \in active : Finish(key)
    \/ BeginOracle \/ ValidateOracle \/ CompleteFixture \/ WriteManifest
    \/ Expand \/ Write

Next == Start \/ Step \/ Crash \/ Tear \/ TearHeader

\* The loop of a process that lives goes on; nobody has to start one, and a
\* crash need not happen.
SweepSpec == Init /\ [][Next]_vars /\ WF_vars(Step)

----------------------------------------------------------------------------
LastRowSays(key, status) ==
    \E i \in DOMAIN file :
        /\ file[i].key = key /\ file[i].status = status
        /\ \A j \in DOMAIN file : j > i => file[j].key # key

\* A run whose last row in the journal says PASS is not executed again.  (A
\* restarted sweep "skips already committed PASS rows".)
CommittedIsNotRepeated ==
    [][\A key \in active' \ active : ~LastRowSays(key, "PASS")]_vars

\* A fixture the journal calls complete has a result for every run, whatever rows were
\* torn or lost on the way: neither a failure nor a run that a crash cut short is ever
\* covered by the row that makes later sweeps skip the fixture.
CompleteMeansDone ==
    \A f \in ToSet(Fixtures) : LastRowSays(CompleteKey(f), "PASS") => RunsOf(f) \subseteq results

\* The row about to call a fixture complete comes after the Oracle was compared, and
\* was no worse, in every measured repeat whose rows can all be read in the journal,
\* whichever of its runs were done before a crash and whichever after it.
OracleSeesTheFixture ==
    row # NoRow /\ row = Row("TRACE_COMPLETE", CompleteKey(Fixture), "PASS") =>
        \A n \in Repeats :
            n > Warmups /\ (\A t \in ToSet(Treatments) : IsWhole(RunKey(Fixture, n, t)))
                => committed[OracleKey(Fixture, n)] = "PASS"

\* The manifest says PASS only when every run of every fixture has a result, those of
\* fixtures that were skipped and runs that failed in an earlier start included.
ManifestIsTrue ==
    manifest = "PASS" => \A f \in ToSet(Fixtures) : RunsOf(f) \subseteq results
=============================================================================
