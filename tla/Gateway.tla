------------------------------- MODULE Gateway -------------------------------
(***************************************************************************)
(* The WebSocket gateway (internal/websocket): admission of connections,   *)
(* the client map with its count and peak, the lifecycle state machine,    *)
(* the heartbeat loop, eviction and graceful shutdown.  What a connection  *)
(* does while it lasts is the subject of WSClient; here it is idle or      *)
(* "busy" with a replay, which shutdown waits for.                         *)
(***************************************************************************)
EXTENDS Integers, Sequences, FiniteSets

CONSTANTS
    Conns,            \* connection attempts
    maxConnections,
    Replays,          \* a connection may be busy with a replay
    Evictions         \* EvictAll may be called

ASSUME GatewayAssumption ==
    /\ IsFiniteSet(Conns) /\ maxConnections \in Nat \ {0}
    /\ Replays \in BOOLEAN /\ Evictions \in BOOLEAN

VARIABLES
    lifecycle,
    conn,        \* position of each connection's handler
    clients,     \* the client map
    activeCount, peak,
    loaded,      \* connection -> peak and count read by register's loop
    busy,        \* connections with an active replay
    told,        \* connections whose context was cancelled
    tracked, overdue,   \* heartbeat entries; those without a pong in time
    loop, running,      \* heartbeat loop: connections to be timed out; it runs
    shut, waitFor       \* Shutdown: position, clients it waits for

adm == <<conn, clients, activeCount, peak, loaded>>
hb == <<tracked, overdue, loop, running>>
down == <<shut, waitFor>>
vars == <<lifecycle, adm, busy, told, hb, down>>

Init ==
    /\ lifecycle = "Healthy"
    /\ conn = [c \in Conns |-> "new"] /\ clients = {} /\ activeCount = 0
    /\ peak = 0 /\ loaded = [c \in Conns |-> <<0, 0>>]
    /\ busy = {} /\ told = {} /\ tracked = {} /\ overdue = {} /\ loop = {}
    /\ running = TRUE
    /\ shut = "no" /\ waitFor = {}

isValidTransition(from, to) ==
    \/ from = "Starting" /\ to \in {"Healthy", "Offline"}
    \/ from = "Healthy" /\ to \in {"Draining", "Offline"}
    \/ from = "Draining" /\ to = "Offline"

\* Transition: an invalid one returns an error that Shutdown ignores.
Transition(to) ==
    lifecycle' = IF isValidTransition(lifecycle, to) THEN to ELSE lifecycle

-----------------------------------------------------------------------------
(* Handler: the steps of one connection                                    *)

Goto(c, p) == conn' = [conn EXCEPT ![c] = p]

CheckState(c) ==
    /\ conn[c] = "new"
    /\ Goto(c, IF lifecycle \in {"Draining", "Offline"} THEN "gone" ELSE "open")
    /\ UNCHANGED <<lifecycle, clients, activeCount, peak, loaded, busy, told, hb,
                   down>>

\* At capacity, over the connection rate, or a failed upgrade: rejected.
CheckCapacity(c) ==
    /\ conn[c] = "open"
    /\ \/ activeCount < maxConnections /\ Goto(c, "admitted")
       \/ Goto(c, "gone")
    /\ UNCHANGED <<lifecycle, clients, activeCount, peak, loaded, busy, told, hb,
                   down>>

Register(c) ==
    /\ conn[c] = "admitted" /\ Goto(c, "mapped")
    /\ clients' = clients \union {c}
    /\ UNCHANGED <<lifecycle, activeCount, peak, loaded, busy, told, hb, down>>

CountUp(c) ==
    /\ conn[c] = "mapped" /\ Goto(c, "counted")
    /\ activeCount' = activeCount + 1
    /\ UNCHANGED <<lifecycle, clients, peak, loaded, busy, told, hb, down>>

PeakLoad(c) ==
    /\ conn[c] = "counted"
    /\ loaded' = [loaded EXCEPT ![c] = <<peak, activeCount>>]
    /\ Goto(c, IF activeCount <= peak THEN "start" ELSE "swap")
    /\ UNCHANGED <<lifecycle, clients, activeCount, peak, busy, told, hb, down>>

\* Mutation: the peak is stored, not swapped.
PeakSwap_Store(c) ==
    /\ conn[c] = "swap" /\ peak' = loaded[c][2] /\ Goto(c, "start")
    /\ UNCHANGED <<lifecycle, clients, activeCount, loaded, busy, told, hb, down>>

PeakSwap(c) ==
    /\ conn[c] = "swap"
    /\ IF peak = loaded[c][1]
       THEN peak' = loaded[c][2] /\ Goto(c, "start")
       ELSE peak' = peak /\ Goto(c, "counted")
    /\ UNCHANGED <<lifecycle, clients, activeCount, loaded, busy, told, hb, down>>

\* readPump registers with the heartbeat manager and reads.
ReadPump(c) ==
    /\ conn[c] = "start" /\ Goto(c, "live") /\ tracked' = tracked \union {c}
    /\ UNCHANGED <<lifecycle, clients, activeCount, peak, loaded, busy, told,
                   overdue, loop, running, down>>

\* The connection ends: the client leaves, or it was told to.
Leave(c) ==
    /\ conn[c] = "live" /\ Goto(c, "left")
    /\ tracked' = tracked \ {c} /\ overdue' = overdue \ {c} /\ busy' = busy \ {c}
    /\ UNCHANGED <<lifecycle, clients, activeCount, peak, loaded, told, loop,
                   running, down>>

Unregister(c) ==
    /\ conn[c] = "left" /\ Goto(c, "unmapped") /\ clients' = clients \ {c}
    /\ UNCHANGED <<lifecycle, activeCount, peak, loaded, busy, told, hb, down>>

CountDown(c) ==
    /\ conn[c] = "unmapped" /\ Goto(c, "gone")
    /\ activeCount' = activeCount - 1
    /\ UNCHANGED <<lifecycle, clients, peak, loaded, busy, told, hb, down>>

\* A replay is started or stopped by the client; one that runs to its end
\* stays the active one (ReplayHandler).
Replay(c) ==
    /\ Replays /\ conn[c] = "live"
    /\ busy' = IF c \in busy THEN busy \ {c} ELSE busy \union {c}
    /\ UNCHANGED <<lifecycle, adm, told, hb, down>>

-----------------------------------------------------------------------------
(* Heartbeat loop                                                          *)

\* A pinged client is silent for longer than pongTimeout.
Silent(c) ==
    /\ c \in tracked /\ overdue' = overdue \union {c}
    /\ UNCHANGED <<lifecycle, adm, busy, told, tracked, loop, running, down>>

RecordPong(c) ==
    /\ c \in overdue /\ c \notin told /\ overdue' = overdue \ {c}
    /\ UNCHANGED <<lifecycle, adm, busy, told, tracked, loop, running, down>>

\* checkTimeouts collects the overdue clients under the read lock ...
Scan ==
    /\ running /\ loop = {} /\ overdue # {} /\ loop' = overdue
    /\ UNCHANGED <<lifecycle, adm, busy, told, tracked, overdue, running, down>>

\* ... and calls onTimeout of each that is still registered: shutdown of the
\* client, which first waits for the end of a replay.
TimeOut(c) ==
    /\ c \in loop /\ loop' = loop \ {c}
    /\ c \in tracked => c \notin busy \/ c \in told
    /\ told' = IF c \in tracked THEN told \union {c} ELSE told
    /\ UNCHANGED <<lifecycle, adm, busy, tracked, overdue, running, down>>

-----------------------------------------------------------------------------
(* EvictAll and Shutdown                                                   *)

\* EvictAll cancels every client in the map without waiting.
EvictAll ==
    /\ Evictions /\ told' = told \union clients
    /\ UNCHANGED <<lifecycle, adm, busy, hb, down>>

ShutdownDrain ==
    /\ shut = "no" /\ Transition("Draining") /\ shut' = "delay"
    /\ UNCHANGED <<adm, busy, told, hb, waitFor>>

\* After the random delay the clients are collected and told to close; a
\* client with an active replay is told when the replay or the time ends.
ShutdownCollect ==
    /\ shut = "delay" /\ shut' = "wait" /\ waitFor' = clients
    /\ told' = told \union (clients \ busy)
    /\ UNCHANGED <<lifecycle, adm, busy, hb>>

ShutdownTell(c) ==
    /\ shut = "wait" /\ c \in waitFor \ told /\ c \notin busy
    /\ told' = told \union {c}
    /\ UNCHANGED <<lifecycle, adm, busy, hb, down>>

\* Every collected client is done: the heartbeat loop is stopped between two
\* scans and the gateway is offline.
ShutdownDone ==
    /\ shut = "wait" /\ \A c \in waitFor : conn[c] \in {"left", "unmapped", "gone"}
    /\ loop = {} /\ running' = FALSE /\ shut' = "done" /\ Transition("Offline")
    /\ UNCHANGED <<adm, busy, told, tracked, overdue, loop, waitFor>>

\* The context of Shutdown expires: clients are forced to close.
ShutdownExpires ==
    /\ shut \in {"delay", "wait"} /\ shut' = "expired" /\ Transition("Offline")
    /\ told' = told \union waitFor
    /\ UNCHANGED <<adm, busy, hb, waitFor>>

-----------------------------------------------------------------------------
Handler(c) ==
    \/ CheckState(c) \/ CheckCapacity(c) \/ Register(c) \/ CountUp(c)
    \/ PeakLoad(c) \/ PeakSwap(c) \/ ReadPump(c) \/ Unregister(c) \/ CountDown(c)

HeartbeatLoop == Scan \/ \E c \in Conns : TimeOut(c)

Shutdown ==
    \/ ShutdownDrain \/ ShutdownCollect \/ ShutdownDone \/ ShutdownExpires
    \/ \E c \in Conns : ShutdownTell(c)

\* Nothing is left to do.
Quiet == (\A c \in Conns : conn[c] = "gone") /\ UNCHANGED vars

Next ==
    \/ \E c \in Conns :
         Handler(c) \/ Leave(c) \/ Replay(c) \/ Silent(c) \/ RecordPong(c)
    \/ HeartbeatLoop \/ EvictAll \/ Shutdown \/ Quiet

Spec == Init /\ [][Next]_vars

\* Goroutines run on and a connection told to close is left; a client need
\* not leave by itself, and a replay need not end.
FairSpec ==
    /\ Spec /\ WF_vars(HeartbeatLoop)
    /\ \A c \in Conns : WF_vars(Handler(c)) /\ WF_vars(c \in told /\ Leave(c))
    /\ WF_vars(Shutdown /\ shut # "no")

-----------------------------------------------------------------------------
TypeOK ==
    /\ lifecycle \in {"Starting", "Healthy", "Draining", "Offline"}
    /\ clients \subseteq Conns /\ tracked \subseteq Conns /\ told \subseteq Conns
    /\ overdue \subseteq tracked /\ busy \subseteq Conns
    /\ loop \subseteq Conns /\ running \in BOOLEAN
    /\ activeCount \in 0..Cardinality(Conns) /\ peak \in 0..Cardinality(Conns)

Between(P) == Cardinality({c \in Conns : conn[c] \in P})

\* The atomic count is the size of the map, but for handlers between the map
\* and the counter.
CountExact ==
    activeCount = Cardinality(clients) - Between({"mapped"}) + Between({"unmapped"})

\* The peak is never below the number of connections that have finished
\* registering and not yet begun to leave.
PeakCovers == peak >= Between({"start", "live", "left"})

\* "maxConnections is the hard limit on concurrent WebSocket connections".
\* The code does not have this property: README, section 5.
CapacityHolds == Cardinality(clients) <= maxConnections

\* "Shutdown gracefully closes all active connections": a shutdown that was
\* not cut short leaves no connection open.
\* The code does not have this property: README, section 5.
ShutdownComplete ==
    shut = "done" => \A c \in Conns : conn[c] \notin {"start", "live"}

\* The same for the connections registered when they were collected.
CollectedClosed ==
    shut = "done" => \A c \in waitFor : conn[c] \in {"left", "unmapped", "gone"}

\* Only a client that is overdue when the callback runs is timed out.
\* The code does not have this property: README, section 5.
OnlyDeadTimedOut ==
    [][\A c \in Conns : TimeOut(c) /\ c \in told' \ told => c \in overdue]_vars

\* A dead client is disconnected, if it does not come back first, as long as
\* the heartbeat loop runs.
\* The code does not have this property: README, section 5.
DeadDisconnected ==
    \A c \in Conns :
        c \in overdue ~> (c \notin overdue \/ c \in told \/ ~running)

\* Count, peak and map of the gateway agree, and a complete Shutdown has closed
\* every client that it collected (register, unregister, Shutdown).
GatewayExact == TypeOK /\ CountExact /\ PeakCovers /\ CollectedClosed
=============================================================================
