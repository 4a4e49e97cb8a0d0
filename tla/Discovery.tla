------------------------------ MODULE Discovery ------------------------------
(***************************************************************************)
(* Discovery of gateways and the routing engine (internal/discovery,       *)
(* internal/routing/engine.go and partition.go, and the adapter and the    *)
(* components of internal/app/app.go that join them).  A gateway has a key *)
(* with a time to live in Redis and a member in the set of active ones;    *)
(* every gateway polls both and keeps the members of its hash ring.  Each  *)
(* Redis command is atomic, a pipeline is not.                             *)
(***************************************************************************)
EXTENDS Naturals, FiniteSets

CONSTANTS
    Gateways, Partitions,
    Owner,       \* members -> partition -> the ring's owner (see HashRing)
    MaxFails,    \* bound: polls that fail
    Outages,     \* keys may expire although the gateway runs
    Restarts,    \* crashed gateways may come back
    StartupCtx   \* the engine was started with a context that ends

VARIABLES
    proc,      \* gateway -> where its process is
    late,      \* gateways that stopped with a heartbeat on its way to Redis
    key,       \* gateways whose key exists
    active,    \* the set of active gateways
    polls,     \* polls that failed
    sync,      \* gateway -> where its syncTopology is
    ids,       \* gateway -> members read by List
    found,     \* gateway -> those whose key was there
    ring       \* gateway -> members of its ring and of nodeAddrs

redisVars == <<key, active>>
engineVars == <<sync, ids, found, ring>>
vars == <<proc, late, polls, redisVars, engineVars>>

Init ==
    /\ proc = [g \in Gateways |-> "down"] /\ late = {} /\ polls = 0
    /\ key = {} /\ active = {}
    /\ sync = [g \in Gateways |-> "off"] /\ ids = [g \in Gateways |-> {}]
    /\ found = [g \in Gateways |-> {}] /\ ring = [g \in Gateways |-> {}]

Becomes(g, p) == proc' = [proc EXCEPT ![g] = p]

\* syncTopology of gateway o is at p without a list.
SyncAt(o, p) ==
    /\ sync' = [sync EXCEPT ![o] = p] /\ ids' = [ids EXCEPT ![o] = {}]
    /\ found' = [found EXCEPT ![o] = {}]

\* The loop goes on unless the engine was stopped.
PollEnds(o) == SyncAt(o, IF proc[o] = "up" THEN "idle" ELSE "off")

Forgets(g) == ring' = [ring EXCEPT ![g] = {}]

-----------------------------------------------------------------------------
(* The registry                                                             *)


\* The pipeline of Register.
registerPipeline == <<"SET", "SADD">>

Executed(g, command) ==
    /\ key' = IF command = "SET" THEN key \union {g} ELSE key
    /\ active' = IF command = "SADD" THEN active \union {g} ELSE active

RegisterFirst(g) ==
    /\ proc[g] = "down" /\ Becomes(g, "half") /\ Executed(g, registerPipeline[1])
    /\ UNCHANGED <<late, polls, engineVars>>

\* The engine's loop starts after Register.
RegisterSecond(g) ==
    /\ proc[g] = "half" /\ Becomes(g, "up") /\ Executed(g, registerPipeline[2])
    /\ sync' = [sync EXCEPT ![g] = "idle"]
    /\ UNCHANGED <<late, polls, ids, found, ring>>

\* heartbeatLoop: a tick of a healthy gateway refreshes the key.
Heartbeat(g) ==
    /\ proc[g] = "up" /\ key' = key \union {g}
    /\ UNCHANGED <<polls, proc, late, active, engineVars>>

\* The gateway stops sending; its last heartbeat may be still on the way.
LastHeartbeat(g) == late' = IF proc[g] = "up" THEN late \union {g} ELSE late

\* A heartbeat reaches Redis after the loop has ended, or it is lost.
LateHeartbeat(g) ==
    /\ g \in late /\ late' = late \ {g}
    /\ key' = key \union {g} \/ UNCHANGED key
    /\ UNCHANGED <<polls, proc, active, engineVars>>

\* The key has not been refreshed for its time to live.
Expire(g) ==
    /\ g \in key /\ (Outages \/ proc[g] \notin {"half", "up"}) /\ key' = key \ {g}
    /\ UNCHANGED <<polls, proc, late, active, engineVars>>

\* Shutdown: Stop of the engine, which does not wait for a poll, then StopHeartbeat.
Drain(g) ==
    /\ proc[g] = "up" /\ Becomes(g, "draining") /\ LastHeartbeat(g)
    /\ sync' = [sync EXCEPT ![g] = IF @ = "idle" THEN "off" ELSE @]
    /\ UNCHANGED <<polls, redisVars, ids, found, ring>>

\* Deregister: DEL, then SREM; either may fail.
DeregisterDel(g) ==
    /\ proc[g] = "draining" /\ Becomes(g, "deleted")
    /\ key' = key \ {g} \/ UNCHANGED key
    /\ UNCHANGED <<polls, late, active, engineVars>>

DeregisterRem(g) ==
    /\ proc[g] = "deleted" /\ Becomes(g, "gone")
    /\ active' = active \ {g} \/ UNCHANGED active
    /\ SyncAt(g, "off") /\ Forgets(g) /\ UNCHANGED <<polls, late, key>>

Crash(g) ==
    /\ proc[g] \notin {"down", "gone"} /\ Becomes(g, "gone")
    /\ LastHeartbeat(g) /\ SyncAt(g, "off") /\ Forgets(g)
    /\ UNCHANGED <<polls, redisVars>>

Restart(g) ==
    /\ Restarts /\ proc[g] = "gone" /\ Becomes(g, "down")
    /\ UNCHANGED <<polls, late, redisVars, engineVars>>

\* The context given to Engine.Start ends, and the loop with it.
CtxEnds(o) ==
    /\ StartupCtx /\ sync[o] # "off" /\ SyncAt(o, "off")
    /\ UNCHANGED <<polls, proc, late, redisVars, ring>>

-----------------------------------------------------------------------------
(* syncTopology of gateway o, with List of the registry                     *)

ListMembers(o) ==
    /\ sync[o] = "idle" /\ sync' = [sync EXCEPT ![o] = "members"]
    /\ ids' = [ids EXCEPT ![o] = active]
    /\ UNCHANGED <<polls, proc, late, redisVars, found, ring>>

ListValues(o) ==
    /\ sync[o] = "members" /\ sync' = [sync EXCEPT ![o] = "values"]
    /\ found' = [found EXCEPT ![o] = ids[o] \intersect key]
    /\ UNCHANGED <<polls, proc, late, redisVars, ids, ring>>

\* A member without a key is removed from the set.
ListRemoves(o) ==
    /\ sync[o] = "values"
    /\ \E g \in ids[o] \ found[o] :
         /\ active' = active \ {g} /\ ids' = [ids EXCEPT ![o] = @ \ {g}]
    /\ UNCHANGED <<polls, proc, late, key, sync, found, ring>>


\* The listed gateways are added to the ring, the others evicted.
syncTopology(o) ==
    /\ sync[o] = "values" /\ ids[o] = found[o] /\ PollEnds(o)
    /\ ring' = [ring EXCEPT ![o] = found[o]]
    /\ UNCHANGED <<polls, proc, late, redisVars>>

\* An error of List leaves the ring as it is.
ListFails(o) ==
    /\ sync[o] \in {"members", "values"} /\ polls < MaxFails /\ polls' = polls + 1
    /\ PollEnds(o) /\ UNCHANGED <<proc, late, redisVars, ring>>

\* GatewayForPartition and RedirectTarget; "" to serve the symbol here.
RedirectTarget(o, p) ==
    IF ring[o] = {} \/ Owner[ring[o]][p] = o THEN "" ELSE Owner[ring[o]][p]

-----------------------------------------------------------------------------
Register(g) == RegisterFirst(g) \/ RegisterSecond(g)
Deregister(g) == DeregisterDel(g) \/ DeregisterRem(g)
Sync(o) == ListMembers(o) \/ ListValues(o) \/ ListRemoves(o) \/ syncTopology(o)

Next == \E g \in Gateways :
    \/ Register(g) \/ Heartbeat(g) \/ LateHeartbeat(g) \/ Expire(g)
    \/ Drain(g) \/ Deregister(g) \/ Crash(g) \/ Restart(g)
    \/ Sync(g) \/ ListFails(g) \/ CtxEnds(g)

Spec == Init /\ [][Next]_vars

\* What Redis does for gateway g comes to an end: commands are executed, and a key that
\* nobody refreshes expires.
Redis(g) ==
    \/ RegisterSecond(g) \/ LateHeartbeat(g) \/ Deregister(g)
    \/ proc[g] = "gone" /\ Expire(g)

\* The loops of running gateways go on.
FairSpec == Spec /\ \A g \in Gateways : WF_vars(Redis(g)) /\ WF_vars(Sync(g))

-----------------------------------------------------------------------------
up == {g \in Gateways : proc[g] = "up"}

\* Type invariant; the engine polls only while its process lives, and starts no poll
\* after Stop.
TypeOK ==
    /\ proc \in [Gateways -> {"down", "half", "up", "draining", "deleted", "gone"}]
    /\ late \subseteq Gateways /\ key \subseteq Gateways /\ active \subseteq Gateways
    /\ \A g \in Gateways :
         /\ sync[g] = "idle" => proc[g] = "up"
         /\ sync[g] \in {"members", "values"} => proc[g] \in {"up", "draining", "deleted"}
         /\ found[g] \subseteq Gateways /\ ring[g] \subseteq Gateways

\* A running gateway can be found: no poll of another gateway removes it from the set
\* while it registers or runs (Register, List).
RunningListed == \A g \in up : g \in key /\ g \in active

\* When the rings agree with what runs, every symbol is served by one gateway and all
\* others redirect to it (RedirectTarget, GatewayForPartition).
OneServes ==
    (up # {} /\ \A o \in up : ring[o] = up) =>
        \A p \in Partitions : \E g \in up :
            RedirectTarget(g, p) = "" /\ \A o \in up \ {g} : RedirectTarget(o, p) = g

\* A gateway that has crashed or left is evicted from every ring for good
\* (syncTopology, List).
DeadEvicted ==
    \A g \in Gateways : (proc[g] = "gone") ~> [](\A o \in up : g \notin ring[o])

\* A gateway that runs gets into every running gateway's ring (syncTopology).
JoinedRouted ==
    \A g \in Gateways : (proc[g] = "up") ~> (proc[g] # "up" \/ \A o \in up : g \in ring[o])

\* The ring gives a partition to one of its members (HashRing).
OwnerInRing ==
    \A S \in SUBSET Gateways : S # {} => \A p \in Partitions : Owner[S][p] \in S
=============================================================================
