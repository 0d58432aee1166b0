---------------------------- MODULE SimulationKernel ----------------------------
(***************************************************************************)
(* The discrete-event kernel of the off-line simulator                     *)
(* (rs_sim/backend/core/simulation.py).                                    *)
(*                                                                         *)
(* Events wait in a heap ordered by time, round and phase.  A time stamp   *)
(* is processed in rounds of eight phases: the events of a phase are       *)
(* handled, then its callbacks run; a round that left events at the same   *)
(* time, or that made progress, is followed by another one, up to a limit. *)
(* The last component of the heap's key is a digest, so events that agree  *)
(* on the first three are handled in any order.                            *)
(*                                                                         *)
(* What a handler does is left open here: KernelNext lets it schedule any  *)
(* acceptable events.  FormalExchange has the handlers.                    *)
(***************************************************************************)
EXTENDS Naturals

CONSTANTS Submit,         \* the phase that has a callback
          MaxRounds       \* max_stabilization_rounds

ASSUME KernelAssumption == Submit \in 1..8 /\ MaxRounds \in Nat \ {0}

VARIABLES now,            \* the time stamp being processed, or the last one
          begun,          \* a time stamp has been processed
          round, phase,   \* phase 0: between two time stamps
          queue,          \* the heap
          moved,          \* some signal of this round made progress
          cycle           \* the kernel raised CAUSAL_CYCLE

kernelVars == <<now, begun, round, phase, queue, moved, cycle>>

Phases == 1..8

\* An event also has a label, the type and the subject of what happens.
IsEvent(e) == e.at \in Nat /\ e.round \in Nat /\ e.phase \in Phases

KernelTypeOK ==
    /\ now \in Nat /\ begun \in BOOLEAN
    /\ round \in Nat /\ phase \in 0..8
    /\ \A e \in queue : IsEvent(e)
    /\ moved \in BOOLEAN /\ cycle \in BOOLEAN

\* Faulty variants: each is a plausible mistake in the operator it is named
\* after, for the property written beside it; no specification uses them.

\* NoEventIsOverdue: an event of the current time always joins this round.
RoundOfFault(at, ph) == IF phase = 0 \/ at > now THEN 0 ELSE round

\* schedule: an event of the current time goes to this round if its phase is
\* still to come and to the next round otherwise; one in the past raises.
RoundOf(at, ph) ==
    IF phase = 0 \/ at > now THEN 0 ELSE IF ph > phase THEN round ELSE round + 1

Accepted(e) ==
    /\ IsEvent(e)
    /\ IF phase # 0 THEN e.at >= now ELSE begun => e.at > now
    /\ e.round = RoundOf(e.at, e.phase)

\* KernelSpec: the round is taken from the kernel, not from the event's place.
StampedFault(requests) ==
    {[at |-> r.at, round |-> round, phase |-> r.phase, label |-> r.label] : r \in requests}

Stamped(requests) ==
    {[at |-> r.at, round |-> RoundOf(r.at, r.phase), phase |-> r.phase, label |-> r.label] :
        r \in requests}

\* The order of the heap's keys, the digest left out.
Before(e, f) ==
    \/ e.at < f.at
    \/ e.at = f.at /\ e.round < f.round
    \/ e.at = f.at /\ e.round = f.round /\ e.phase < f.phase

\* _slot_available: the head of the heap belongs to the time stamp, round and phase.
IsHead(e) == \A f \in queue : ~Before(f, e)
SlotOf(ph) ==
    {e \in queue : IsHead(e) /\ e.at = now /\ e.round = round /\ e.phase = ph}

KernelInit(requests) ==
    /\ now = 0 /\ begun = FALSE /\ round = 0 /\ phase = 0
    /\ queue = {[at |-> r.at, round |-> 0, phase |-> r.phase, label |-> r.label] : r \in requests}
    /\ moved = FALSE /\ cycle = FALSE

\* run_next_timestamp takes the time of the head and enters round 0.
NextTimestamp ==
    /\ phase = 0 /\ ~cycle
    /\ \E e \in queue : IsHead(e) /\ now' = e.at
    /\ begun' = TRUE /\ round' = 0 /\ phase' = 1 /\ moved' = FALSE
    /\ UNCHANGED <<queue, cycle>>

\* One event is popped and handled: its handler schedules events and signals progress.
Handle(e, requests, progress) ==
    /\ phase # 0 /\ e \in SlotOf(phase)
    /\ queue' = (queue \ {e}) \cup Stamped(requests)
    /\ moved' = (moved \/ progress)
    /\ UNCHANGED <<now, begun, round, phase, cycle>>

\* A part of the phase's callback, once the phase has no event left.
Callback(requests, progress) ==
    /\ phase = Submit /\ SlotOf(phase) = {}
    /\ queue' = queue \cup Stamped(requests)
    /\ moved' = (moved \/ progress)
    /\ UNCHANGED <<now, begun, round, phase, cycle>>

\* The loop over the phases; phases with nothing to do are passed in one step.
Occupied(ph) == ph = Submit \/ SlotOf(ph) # {}
NextPhase ==
    /\ phase \in 1..7 /\ SlotOf(phase) = {}
    /\ \E ph \in (phase + 1)..8 :
          /\ Occupied(ph) \/ ph = 8
          /\ \A between \in (phase + 1)..(ph - 1) : ~Occupied(between)
          /\ phase' = ph
    /\ UNCHANGED <<now, begun, round, queue, moved, cycle>>

\* The end of a round: the fixed point is reached when nothing is pending at
\* this time and nothing moved.
SameTimePending == \E e \in queue : e.at = now
EndRound ==
    /\ phase = 8 /\ SlotOf(8) = {}
    /\ IF SameTimePending \/ moved
       THEN IF round + 1 >= MaxRounds
            THEN cycle' = TRUE /\ phase' = 0 /\ round' = 0
            ELSE cycle' = FALSE /\ phase' = 1 /\ round' = round + 1
       ELSE cycle' = FALSE /\ phase' = 0 /\ round' = 0
    /\ moved' = FALSE
    /\ UNCHANGED <<now, begun, queue>>

----------------------------------------------------------------------------
\* The kernel with handlers and callbacks left open.
HandleAny ==
    /\ phase # 0
    /\ \E e \in SlotOf(phase) :
          /\ queue \ {e} \subseteq queue' /\ e \notin queue'
          /\ \A f \in queue' \ queue : Accepted(f)
    /\ moved' \in {moved, TRUE}
    /\ UNCHANGED <<now, begun, round, phase, cycle>>

CallbackAny ==
    /\ phase = Submit /\ SlotOf(phase) = {}
    /\ queue \subseteq queue' /\ \A f \in queue' \ queue : Accepted(f)
    /\ moved' \in {moved, TRUE}
    /\ UNCHANGED <<now, begun, round, phase, cycle>>

KernelNext == NextTimestamp \/ HandleAny \/ CallbackAny \/ NextPhase \/ EndRound

KernelSpec ==
    /\ now = 0 /\ begun = FALSE /\ round = 0 /\ phase = 0
    /\ moved = FALSE /\ cycle = FALSE
    /\ \A e \in queue : IsEvent(e) /\ e.round = 0
    /\ [][KernelNext]_kernelVars

\* No event is left behind: while a time stamp is processed every waiting
\* event belongs to the slot being emptied or to a later one, and between two
\* time stamps every waiting event is in the future - or the kernel gave up.
\* (_slot_available looks at the head only, so an event with an earlier key
\* would block the heap for ever.)
NoEventIsOverdue ==
    \A e \in queue :
        IF phase # 0
        THEN ~Before(e, [at |-> now, round |-> round, phase |-> phase])
        ELSE begun /\ ~cycle => e.at > now

\* Time never goes back, and between two time stamps it goes forward; inside
\* one, rounds and phases are passed in order.
TimeGoesForward ==
    [][ \/ now' > now
        \/ /\ now' = now
           /\ \/ ~begun \/ phase' = 0 \/ round' > round
              \/ round' = round /\ phase' >= phase ]_kernelVars
=============================================================================
