----------------------------- MODULE MCGateway -----------------------------
(***************************************************************************)
(* The gateway and the cluster of gateways on small instances.  A          *)
(* behaviour explores one part: a gateway with connections that may be     *)
(* busy with a replay ("replays") or with evictions ("evictions"), two     *)
(* gateways that find each other while Redis is reachable ("cluster"), one *)
(* gateway with outages of Redis, failing polls, restarts and an engine    *)
(* whose context ends ("outages"), the hash ring ("ring"), a gateway with  *)
(* one connection under readiness requests ("probes"), or the heartbeat of *)
(* the pipeline ("beat").                                                  *)
(***************************************************************************)
EXTENDS HealthCheck

VARIABLES
    mode,
    proc, late, key, active, polls, sync, ids, found, ring,
    hash, keys, nodes, nodePresent

Evicting == INSTANCE Gateway WITH Replays <- FALSE, Evictions <- TRUE

Members == {"a", "b"}
Symbols == {1, 2}
Owners == [S \in SUBSET Members \ {{}} |->
              [p \in Symbols |-> IF p = 1 /\ "a" \in S THEN "a"
                                 ELSE IF "b" \in S THEN "b" ELSE "a"]]

Cluster == INSTANCE Discovery WITH
    Gateways <- Members, Partitions <- Symbols, Owner <- Owners, MaxFails <- 0,
    Outages <- FALSE, Restarts <- FALSE, StartupCtx <- FALSE

\* The condition of the theorem DiscoveryCorrect holds here.
ASSUME ClusterAssumption == Cluster!OwnerInRing

Outage == INSTANCE Discovery WITH
    Gateways <- {"a"}, Partitions <- Symbols, Owner <- Owners, MaxFails <- 1,
    Outages <- TRUE, Restarts <- TRUE, StartupCtx <- TRUE

Ring == INSTANCE HashRing WITH Nodes <- {"a", "b", "c"}, vnodes <- 2, Size <- 6

\* Nodes are interchangeable: their first virtual nodes are taken in this order.
InOrder == [a |-> 0, b |-> 2, c |-> 4]

clusterVars == <<proc, late, key, active, polls, sync, ids, found, ring>>
ringVars == <<hash, keys, nodes, nodePresent>>
allVars == <<mode, vars, clusterVars, ringVars, healthVars>>

MCInit ==
    /\ mode \in {"replays", "evictions", "cluster", "outages", "ring", "probes", "beat"}
    /\ HealthInit /\ Cluster!Init /\ Ring!Init
    /\ \A n, m \in {"a", "b", "c"} : InOrder[n] < InOrder[m] => hash[<<n, 1>>] < hash[<<m, 1>>]
    /\ mode # "ring" => hash = [v \in Ring!VNodes |-> InOrder[v[1]] + v[2] - 1]

\* Every gateway has left for good.
Gone == mode = "cluster" /\ \A g \in Members : proc[g] = "gone"

\* One connection stands for all of a gateway whose readiness is asked for.
One == CHOOSE c \in Conns : TRUE
Probing == INSTANCE HealthCheck WITH Replays <- FALSE, Evictions <- TRUE
Health ==
    \/ /\ mode = "probes" /\ (Probing!GatewayStep \/ Probing!ProbeStep)
       /\ \A c \in Conns \ {One} : conn'[c] = "new"
    \/ mode = "beat" /\ BeatStep

MCNext ==
    /\ UNCHANGED mode
    /\ \/ mode = "replays" /\ Next /\ UNCHANGED <<clusterVars, ringVars, healthVars>>
       \/ mode = "evictions" /\ Evicting!Next /\ UNCHANGED <<clusterVars, ringVars, healthVars>>
       \/ mode = "cluster" /\ Cluster!Next /\ UNCHANGED <<vars, ringVars, healthVars>>
       \/ mode = "outages" /\ Outage!Next /\ UNCHANGED <<vars, ringVars, healthVars>>
       \/ mode = "ring" /\ Ring!Next /\ UNCHANGED <<vars, clusterVars, healthVars>>
       \/ Health /\ UNCHANGED <<clusterVars, ringVars>>
       \/ Gone /\ UNCHANGED <<vars, clusterVars, ringVars, healthVars>>

\* The heartbeat loop runs; nothing else of a gateway has to go on for a dead
\* client to be noticed.
MCSpec ==
    /\ MCInit /\ [][MCNext]_allVars
    /\ WF_vars(mode = "evictions" /\ HeartbeatLoop)
    /\ \A g \in Members : /\ WF_clusterVars(mode = "cluster" /\ Cluster!Redis(g))
                          /\ WF_clusterVars(mode = "cluster" /\ Cluster!Sync(g))
    /\ \A p \in Probes :
         /\ WF_probeVars(mode = "probes" /\ Probing!Start(p))
         /\ WF_probeVars(mode = "probes" /\ Probing!Goroutines(p))
    /\ WF_beatVars(mode = "beat" /\ Tick) /\ WF_beatVars(mode = "beat" /\ handleLiveness)

\* Type invariant of the cluster: no engine polls after its process or Stop.
ClusterTypes == Cluster!TypeOK

\* While Redis is reachable a running gateway is in the set and has its key,
\* whatever the polls of others remove (Register, List).
RunningListed == mode = "cluster" => Cluster!RunningListed

\* With rings that agree with what runs, one gateway serves a symbol and the
\* others redirect to it (RedirectTarget).
OneServes == mode = "cluster" => Cluster!OneServes

\* A dead gateway leaves every ring for good (syncTopology, List).  The
\* gateways are symmetric, so one of them stands for all.
DeadEvicted ==
    (mode = "cluster" /\ proc["a"] = "gone") ~> [](\A o \in Cluster!up : "a" \notin ring[o])

\* A client without a pong in time is disconnected or comes back, as long as the
\* heartbeat loop runs and no timeout callback waits for a replay (checkTimeouts);
\* a running gateway gets into every ring (syncTopology); a client is told to go
\* while Redis stays away (RedisCheck); and a stuck pipeline is reported
\* (IsAlive).  The mode never changes; one connection and one gateway stand for all.
Noticed ==
    (\/ mode = "evictions" /\ One \in overdue
     \/ mode = "cluster" /\ proc["a"] = "up"
     \/ mode = "probes" /\ Cutoff(One)
     \/ mode = "beat" /\ stuck) ~>
    (\/ mode = "evictions" /\ (One \notin overdue \/ One \in told \/ ~running)
     \/ mode = "cluster" /\ (proc["a"] # "up" \/ \A o \in Cluster!up : "a" \in ring[o])
     \/ mode = "probes" /\ ~Cutoff(One)
     \/ mode = "beat" /\ live = "not_ok")

\* The ring's slice is sorted and agrees with its map and members
\* (AddNode, RemoveNode).
RingTypes == mode = "ring" => Ring!TypeOK

\* A key belongs to the nearest virtual node clockwise (Lookup).
NearestOwns == mode = "ring" => Ring!NearestOwns

\* Only the keys of a node that joins or leaves move (AddNode, RemoveNode).
MinimalMoves == Ring!MinimalMoves


=============================================================================
