--------------------------- MODULE NativeExchange ----------------------------
(***************************************************************************)
(* What Megatron's own all-to-all gives to each member of an expert group, *)
(* and what RouterSense must not change when it carries the same payloads: *)
(* the abstract specification of PhaseSync.                                *)
(*                                                                         *)
(* A layer exchanges three payloads: hidden_states and routing_probs of    *)
(* the dispatch (P0) and hidden_states of the return (P1).                 *)
(***************************************************************************)
EXTENDS Integers, Sequences, SequencesExt

CONSTANTS
  N,        \* the members of the group are 1 .. N
  Matrices, \* the rows a router may send, from each member to each member
  Layers    \* how many layers exchange their tokens

VARIABLES
  demand,   \* the rows of each layer's dispatch
  delivered \* the tensors given to the model by each member, in order

Payloads == 3 * Layers
PhaseOf(k) == IF k % 3 = 0 THEN "P1" ELSE "P0"

\* The rows of payload k: the return sends back what the dispatch brought.
Rows(k, s, d) ==
  LET m == demand[1 + (k - 1) \div 3] IN IF PhaseOf(k) = "P0" THEN m[s][d] ELSE m[d][s]

\* A row is named by its payload, its sender, its receiver and its place between
\* the two; a packed tensor holds its segments in the order of the members.
Segment(k, s, d) == [n \in 1 .. Rows(k, s, d) |-> <<k, s, d, n>>]
Joined(segments) == FoldLeft(LAMBDA s, t : s \o t, <<>>, segments)
Sent(i, k)     == Joined([d \in 1 .. N |-> Segment(k, i, d)])
Received(i, k) == Joined([s \in 1 .. N |-> Segment(k, s, i)])

Init ==
  /\ demand \in [1 .. Layers -> Matrices]
  /\ delivered = [i \in 1 .. N |-> <<>>]

\* A member has its tensor once everyone who has rows for it takes part.
Deliver(i) ==
  LET k == Len(delivered[i]) + 1 IN
  /\ k <= Payloads
  /\ \A s \in 1 .. N : Rows(k, s, i) > 0 => Len(delivered[s]) >= k - 1
  /\ delivered' = [delivered EXCEPT ![i] = Append(@, Received(i, k))]
  /\ UNCHANGED demand

Next == \E i \in 1 .. N : Deliver(i)

Spec == Init /\ [][Next]_<<demand, delivered>>
=============================================================================
