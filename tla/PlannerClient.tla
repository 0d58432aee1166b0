--------------------------- MODULE PlannerClient ---------------------------
(***************************************************************************)
(* The planner service and the store under a caller that uses the public   *)
(* methods of the service in any order, as the contract tests do, and      *)
(* publishes drained results late, out of order or never.                  *)
(***************************************************************************)
EXTENDS TargetPlannerService

CONSTANTS MaxDrained,   \* bound: results the caller holds at a time
          MaxSubmits    \* bound: submissions the caller makes in a session

ASSUME ClientAssumption == MaxDrained \in Nat /\ MaxSubmits \in [Sessions -> Nat]

VARIABLES
  drained,   \* results the caller has drained and not yet published
  closing    \* close() stands between its flags, its clearing and its join

clientVars == <<storeVars, serviceVars, drained, closing>>

Closing == {"no", "flagged", "joining"}

ClientInit ==
  /\ StoreInit
  /\ ServiceInit
  /\ drained = {}
  /\ closing = "no"

\* The calls of one thread: none begins while close() is running.
Call(step) == closing = "no" /\ step /\ UNCHANGED closing

ClientSubmit ==
  /\ Call(\E k \in Key : session > 0 /\ version < MaxSubmits[session] /\ Submit(k))
  /\ UNCHANGED drained

ClientCancelGeneration ==
  /\ Call(\E s \in Streams, g \in Generations : CancelGeneration(s, g))
  /\ UNCHANGED <<storeVars, drained>>

ClientCancelBefore ==
  /\ Call(\E s \in Streams, g \in Generations : CancelBeforeGeneration(s, g))
  /\ UNCHANGED <<storeVars, drained>>

\* The store has its own clean-up, called on its own.
ClientCleanup ==
  /\ Call(\E s \in Streams, g \in Generations :
            CleanupEpoch(s, g) \/ CleanupBeforeGeneration(s, g))
  /\ UNCHANGED <<serviceVars, drained>>

Drained == drained \cup {ready[i] : i \in DOMAIN ready}

ClientDrain ==
  /\ Call(DrainReady)
  /\ Len(ready) <= MaxDrained
  /\ drained' = Drained
  /\ UNCHANGED storeVars

ClientPublish ==
  /\ Call(\E r \in drained :
            /\ PublishIfCurrent(r.key, r.token, r.digest)
            /\ drained' = drained \ {r})
  /\ UNCHANGED serviceVars

ClientStart ==
  /\ Call(Start)
  /\ UNCHANGED <<storeVars, drained>>

ClientClose ==
  /\ closing = "no" /\ session > 0 /\ ~closed
  /\ RaiseStop
  /\ closing' = "flagged"
  /\ UNCHANGED <<storeVars, drained>>

ClientCloseClears ==
  /\ closing = "flagged"
  /\ ClearAndPoison
  /\ closing' = "joining"
  /\ UNCHANGED <<storeVars, drained>>

\* The join ends with the thread, or times out and raises.
ClientCloseReturns ==
  /\ closing = "joining"
  /\ closing' = "no"
  /\ UNCHANGED <<storeVars, serviceVars, drained>>

ClientNext ==
  \/ ClientSubmit \/ ClientCancelGeneration \/ ClientCancelBefore \/ ClientCleanup
  \/ ClientDrain \/ ClientPublish
  \/ ClientStart \/ ClientClose \/ ClientCloseClears \/ ClientCloseReturns
  \/ WorkerStep /\ UNCHANGED <<drained, closing>>

\* The operating system runs the worker thread, a build ends, and close() goes
\* on from one statement to the next.
ClientFairness ==
  /\ WF_clientVars(WorkerStep /\ UNCHANGED <<drained, closing>>)
  /\ WF_clientVars(ClientCloseClears)

ClientSpec == ClientInit /\ [][ClientNext]_clientVars /\ ClientFairness

-----------------------------------------------------------------------------
\* Properties

ClientTypeOK ==
  /\ StoreTypeOK
  /\ ServiceTypeOK
  /\ drained \subseteq Result
  /\ closing \in Closing

\* submit made the one task before the other, or it is the same: sessions go up,
\* and versions within a session.
NotAfter(a, b) == a.session < b.session \/ (a.session = b.session /\ a.version <= b.version)

\* A publication that succeeds is of the newest task of its key: a result the
\* caller kept while the key was submitted again, in the same session or after a
\* restart of the service, is refused, in whatever order results are presented.
PublishedIsNewest ==
  [][\A r \in drained \ drained' :
       plans'[r.key] # plans[r.key] =>
         \A a \in TaskAtWorker(r.key) \cup TasksReady(r.key) \cup ({pending[r.key]} \ {NoItem})
                 \cup {q.token : q \in {q \in drained : q.key = r.key}} :
           NotAfter(a, r.token)]_clientVars

\* A slot does not stay in BUILDING: its task is built, fails, is cancelled or is
\* replaced by a task of which the same holds (Versions bounds how often).
BuildingEnds == \A k \in Key : slots[k] = "BUILDING" ~> slots[k] # "BUILDING"

\* A closed service loses its thread, even if the join had timed out.
CloseStopsWorker == closed ~> worker.at = "dead"

=============================================================================
