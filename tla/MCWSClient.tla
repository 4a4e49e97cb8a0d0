----------------------------- MODULE MCWSClient -----------------------------
(***************************************************************************)
(* One connection on small instances: a client that resumes once from a    *)
(* log that is on disk, with an allocator that follows the appends as      *)
(* replay/service.go expects ("resume"); and a connection as app.go wires  *)
(* it, with slow disconnects, heartbeat timeouts, repeated subscriptions   *)
(* and a reconnect buffer of one, from a log of one event ("slow").        *)
(***************************************************************************)
EXTENDS WSClient

VARIABLE mode
Harsh == INSTANCE WSClient
            WITH FlushAll <- FALSE, AllocFollows <- FALSE, Slow <- TRUE,
                 Heartbeat <- TRUE, BufferCap <- 1, MaxEvents <- 2, MaxHandles <- 2

MCInit == Init /\ mode \in {"resume", "slow"} /\ (mode = "slow" => Len(log) = 1)
MCNext == /\ \/ mode = "resume" /\ Next
             \/ mode = "slow" /\ Harsh!Next
          /\ UNCHANGED mode
\* The steps that end a connection exclude each other: readPump returns, and
\* writePump after it.
Teardown == \/ (writing # "run" \/ ~ctx) /\ ReadEnds
            \/ ~reading /\ WPExit
MCSpec == /\ MCInit /\ [][MCNext]_<<vars, mode>>
          /\ WF_vars(WPReconnected) /\ WF_vars(Teardown)
          /\ WF_vars(IF mode = "slow" THEN Harsh!Replays ELSE Replays)

\* The channels and buffers of writePump keep their capacities (client.go).
ClientTypes == IF mode = "slow" THEN Harsh!TypeOK ELSE TypeOK


\* An ended connection keeps no subscription when the heartbeat manager has
\* not cancelled it first (unregister, cancelAll).
NoSubscriptionLeft == mode # "slow" => NothingLeaks

=============================================================================
