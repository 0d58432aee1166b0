------------------------------ MODULE MCExchange ------------------------------
(***************************************************************************)
(* Three ranks and four tasks: two chunks of one edge, a second edge of    *)
(* their source and one of another source to their destination.  Buffers   *)
(* hold two chunks at the shared destination, and there are two lanes.     *)
(***************************************************************************)
EXTENDS FormalExchange, TLC

CONSTANTS a1, a2, b, c

MCTasks == {a1, a2, b, c}
MCSrc == a1 :> 0 @@ a2 :> 0 @@ b :> 0 @@ c :> 2
MCDst == a1 :> 1 @@ a2 :> 1 @@ b :> 2 @@ c :> 1
MCBytes == a1 :> 2 @@ a2 :> 1 @@ b :> 1 @@ c :> 1
MCOrder == a1 :> 1 @@ a2 :> 2 @@ b :> 3 @@ c :> 4
MCCapacity == 0 :> 1 @@ 1 :> 2 @@ 2 :> 1
MCTx == 0 :> "tx0" @@ 1 :> "tx1" @@ 2 :> "tx2"
MCRx == 0 :> "rx0" @@ 1 :> "rx1" @@ 2 :> "rx2"
MCClass == [t \in MCTasks |-> "inter"]
MCLanes == {"l1", "l2"}
MCEligible == [t \in MCTasks |-> IF t = c THEN {"l1"} ELSE MCLanes]

\* Planning is immediate, slower than a transfer, or slower in its second line.
MCSettings ==
    [mode : {"EVENT", "GLOBAL"},
     ready : {0 :> 0 @@ 1 :> 0 @@ 2 :> late : late \in {0, 2}},
     serialization : {1}, latency : {0},
     post : {0, 1}, drain : {1}, control : {0}, binding : {0, 2}, launch : {0}, wire : {1}]
    \cup
    [mode : {"EVENT", "GLOBAL"},
     ready : {0 :> 0 @@ 1 :> 0 @@ 2 :> late : late \in {0, 3}},
     serialization : {0}, latency : {1},
     post : {0}, drain : {2}, control : {2}, binding : {0}, launch : {1}, wire : {0, 1}]
=============================================================================
