------------------------------- MODULE MCSync --------------------------------
(* Small instances of the synchronous mode. *)
EXTENDS PhaseSync

\* An edge of two buckets, one of three, rows that stay, and a member that only
\* receives from one
Uneven == << <<1, 3, 1>>, <<0, 0, 2>>, <<1, 0, 1>> >>
\* Nothing leaves its member: a plan without waves
Local == << <<1, 0, 0>>, <<0, 2, 0>>, <<0, 0, 0>> >>
\* Two members send to one, which sends nothing: member 1 has no part in a wave
HotSpot == << <<0, 0, 3>>, <<0, 0, 1>>, <<0, 0, 0>> >>

MCMatrices == {Uneven, Local, HotSpot}
MCGroup == <<0, 1, 2>>
\* The second group of four ranks
MCSecond == <<2, 3>>
MCPair == {<< <<0, 1>>, <<1, 0>> >>}
=============================================================================
