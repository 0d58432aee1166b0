-------------------------------- MODULE MCSweep --------------------------------
(***************************************************************************)
(* Two fixtures, with the Oracle and one other treatment in a warm-up      *)
(* repeat and a measured one.                                              *)
(***************************************************************************)
EXTENDS SweepJournal

CONSTANTS f1, f2, oracle, fifo

MCFixtures == <<f1, f2>>
MCTreatments == <<oracle, fifo>>

\* A sweep that goes on after failures, with one of the fixtures unloadable to
\* keep it small, and sweeps that stop at the first failure.
MCOptions ==
    [rerun : BOOLEAN, failFast : {FALSE}, oracleLoses : {FALSE}, bad : {{f1}}, starts : {2}]
    \cup
    [rerun : BOOLEAN, failFast : {TRUE}, oracleLoses : {FALSE}, bad : {{}}, starts : {3}]
    \cup
    [rerun : BOOLEAN, failFast : {TRUE}, oracleLoses : {TRUE}, bad : {{f2}}, starts : {3}]
=============================================================================
