---------------------------- MODULE DescriptorChannel ----------------------------
(***************************************************************************)
(* The control channel of the off-line simulator                           *)
(* (rs_sim/transport/control/channel.py): one server that broadcasts the   *)
(* row descriptors of the sources in the order of their publication.       *)
(***************************************************************************)
EXTENDS Naturals, Sequences

VARIABLES published,      \* sources in the order of their publication
          waiting,        \* sources whose request is in the FIFO
          serverBusy,
          servicePending  \* _service_event_ids is not empty

channelVars == <<published, waiting, serverBusy, servicePending>>

ChannelInit ==
    published = <<>> /\ waiting = {} /\ serverBusy = FALSE /\ servicePending = FALSE

PublishRow(s) ==
    /\ \A i \in 1..Len(published) : published[i] # s
    /\ published' = Append(published, s)
    /\ UNCHANGED <<waiting, serverBusy, servicePending>>

\* _schedule_service: one service event at a time, and none while the server works.
NeedsService(busy, queue) == ~busy /\ queue # {} /\ ~servicePending

HandleArrival(s) ==
    /\ waiting' = waiting \cup {s}
    /\ servicePending' = (servicePending \/ NeedsService(serverBusy, waiting'))
    /\ UNCHANGED <<published, serverBusy>>

\* The FIFO is ordered by arrival time and publication sequence.
First(s) ==
    /\ s \in waiting
    /\ \E i \in 1..Len(published) :
          published[i] = s /\ \A j \in 1..(i - 1) : published[j] \notin waiting

HandleService(s) ==
    /\ servicePending' = FALSE
    /\ ~serverBusy /\ First(s)
    /\ waiting' = waiting \ {s} /\ serverBusy' = TRUE
    /\ UNCHANGED published

HandleServiceComplete ==
    /\ serverBusy /\ serverBusy' = FALSE
    /\ servicePending' = (servicePending \/ NeedsService(FALSE, waiting))
    /\ UNCHANGED <<published, waiting>>

===============================================================================
