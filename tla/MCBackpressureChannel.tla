----------------------- MODULE MCBackpressureChannel -----------------------
(***************************************************************************)
(* The channel and the client queues on small instances.  A behaviour      *)
(* explores one part: the channel with all producers ("all") or with one   *)
(* producer and no drop window ("solo"), or the queues of a client under   *)
(* one of the three policies.                                              *)
(***************************************************************************)
EXTENDS BackpressureChannel

CONSTANT p1   \* the producer of the part "solo"
VARIABLES part, queues, lock, q, snd, call, made, qsends, calls, panicked

Calm == INSTANCE BackpressureChannel WITH DropWindowOn <- FALSE

DropOldest == INSTANCE ClientQueue WITH
    Policy <- "DropOldest", Clients <- {"c"}, Senders <- {"s", "t"}, Callers <- {"m"},
    QueueSize <- 1, FwdCap <- 1, MaxConsecutiveDrops <- 2,
    MaxQueues <- 2, MaxSends <- 2, MaxCalls <- 2, sends <- qsends
DropNewest == INSTANCE ClientQueue WITH
    Policy <- "DropNewest", Clients <- {"c"}, Senders <- {"s", "t"}, Callers <- {"m"},
    QueueSize <- 1, FwdCap <- 1, MaxConsecutiveDrops <- 2,
    MaxQueues <- 2, MaxSends <- 2, MaxCalls <- 2, sends <- qsends
Disconnect == INSTANCE ClientQueue WITH
    Policy <- "Disconnect", Clients <- {"c"}, Senders <- {"s"}, Callers <- {"m"},
    QueueSize <- 1, FwdCap <- 1, MaxConsecutiveDrops <- 1,
    MaxQueues <- 2, MaxSends <- 3, MaxCalls <- 2, sends <- qsends

queueVars == <<queues, lock, q, snd, call, made, qsends, calls, panicked>>

MCInit ==
    /\ part \in {"all", "solo", "oldest", "newest", "disconnect"}
    /\ Init
    /\ CASE part = "newest" -> DropNewest!Init
         [] part = "disconnect" -> Disconnect!Init
         [] OTHER -> DropOldest!Init

MCNext ==
    /\ UNCHANGED part
    /\ \/ part = "all" /\ Next /\ UNCHANGED queueVars
       \/ /\ part = "solo" /\ Calm!Next /\ \A p \in Producers \ {p1} : pc'[p] = "idle"
          /\ UNCHANGED queueVars
       \/ part = "oldest" /\ DropOldest!Next /\ UNCHANGED vars
       \/ part = "newest" /\ DropNewest!Next /\ UNCHANGED vars
       \/ part = "disconnect" /\ Disconnect!Next /\ UNCHANGED vars

Ring == part \in {"all", "solo"}

\* The fairness of the channel, whose consumer keeps receiving
\* (WSClient.forwardEvents does while it lives).  No producer has to go on.
LiveSpec ==
    /\ MCInit /\ [][MCNext]_<<part, vars, queueVars>>
    /\ WF_vars(Ring /\ Loop) /\ WF_vars(Ring /\ Closer) /\ WF_vars(Ring /\ OnDisconnect)
    /\ WF_vars(Ring /\ Receive)

\* A single producer is disconnected only after MaxConsecutiveDrops of its
\* events were dropped (policy.go:75, recordDrop).
SoloDisconnect == part = "solo" => DisconnectAfterMaxDrops

\* Wakeups are not missed: the ring drains, Close returns, and a disconnect closes
\* the channel (forwardLoop, Close, onDisconnect).
ChannelProgress == Settles

=============================================================================
