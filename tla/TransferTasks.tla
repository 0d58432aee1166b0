---------------------------- MODULE TransferTasks ----------------------------
(***************************************************************************)
(* The canonical transfer tasks of one phase of the off-line simulator     *)
(* (rs_sim/contracts/schema.py): chunks of the edges between ranks.        *)
(***************************************************************************)
CONSTANTS Ranks, Tasks,
          Src, Dst        \* src_rank and dst_rank of a task

ASSUME TaskAssumption == Src \in [Tasks -> Ranks] /\ Dst \in [Tasks -> Ranks]

Edge(t) == <<Src[t], Dst[t]>>
Edges == {Edge(t) : t \in Tasks}
=============================================================================
