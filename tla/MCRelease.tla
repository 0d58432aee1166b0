------------------------------ MODULE MCRelease ------------------------------
(* Small instances of the exchange under a published plan. *)
EXTENDS ReleaseExecution, TLC

P0(s, d) == [phase |-> "P0", src |-> s, dst |-> d]
P1(s, d) == [phase |-> "P1", src |-> s, dst |-> d]

\* An edge split over two waves, a wave with flows of both phases, and flows a
\* third rank takes no part in; every rank reaches its destinations in order.
Ordered == << <<P0(1, 2), P0(2, 3)>>, <<P0(2, 3), P0(3, 1)>>, <<P0(1, 3), P1(2, 1)>>,
              <<P1(1, 3), P1(3, 2)>>, <<P1(3, 2)>>, <<P1(3, 1)>> >>
\* Rank 1 reaches its second destination first.
Crossed == << <<P0(1, 3), P0(2, 1)>>, <<P0(1, 2)>>, <<P1(1, 2), P1(3, 1)>>, <<P1(2, 1)>> >>
\* The rows that stay on their rank are planned as well, as in the gate
\* experiment, and rank 3 has no rows.
Local == << <<P0(1, 2), P0(2, 1)>>, <<P0(1, 1), P0(2, 2)>>,
            <<P1(1, 2), P1(2, 1)>>, <<P1(1, 1), P1(2, 2)>> >>

MCPlans   == {Ordered, Crossed, Local}
MCCrossed == {Crossed}

\* The rows a plan is made for, and other rows than forecast: an edge that was
\* missed, and rows that stay on their rank, which the planner never plans
Fit(p) == [s \in Ranks |-> [d \in Ranks |->
  Cardinality({w \in DOMAIN p : P0(s, d) \in {p[w][i] : i \in DOMAIN p[w]}})]]

MCMatrices == {Fit(Ordered), Fit(Crossed), Fit(Local),
               [Fit(Ordered) EXCEPT ![3][2] = 1], [Fit(Crossed) EXCEPT ![1][1] = 1]}
=============================================================================
