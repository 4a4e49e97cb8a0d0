----------------------------- MODULE HealthCheck -----------------------------
(***************************************************************************)
(* The health checks (internal/healthcheck) beside the gateway they act    *)
(* on.  A readiness request runs the checks of the registry in goroutines  *)
(* of their own and waits for all of them; the Redis check evicts every    *)
(* client of the gateway when its ping fails.  A liveness request looks at *)
(* the heartbeat that the feed pipeline marks with every event.  Time goes *)
(* by in units in which a stale heartbeat is Threshold old.                *)
(***************************************************************************)
EXTENDS Gateway, FiniteSetTheorems, TLAPS

CONSTANTS
    Checks,        \* registered: "snapshot", and "redis", "postgres" if enabled
    Probes,        \* readiness requests that may run at the same time
    Threshold      \* the 10 seconds of handleLiveness

ASSUME HealthAssumption ==
    Checks \subseteq {"redis", "postgres", "snapshot"} /\ Threshold \in Nat \ {0}

VARIABLES
    depends,       \* the dependencies that answer: "redis", "postgres", "snapshot"
    probe,         \* request -> position, context ended, checks under way, results, clients before
    seen,          \* request -> what was up, and whether all was, during it
    age,           \* time since Heartbeat.Mark, up to Threshold
    stuck,         \* the pipeline's loop does not go on
    live           \* the latest answer of /liveness

probeVars == <<depends, probe, seen>>
beatVars == <<age, stuck, live>>
healthVars == <<probeVars, beatVars>>

\* A request at this position, with no result yet.
Probe(at, ended, todo, before) ==
    [at |-> at, ended |-> ended, failing |-> FALSE, todo |-> todo, failed |-> {},
     clients |-> before]

\* The snapshot service is not ready yet; Redis and Postgres have been reached.
HealthInit ==
    /\ Init /\ depends = Checks \ {"snapshot"}
    /\ probe = [p \in Probes |-> Probe("idle", FALSE, {}, {})] /\ seen = [p \in Probes |-> [up |-> {}, gap |-> FALSE]]
    /\ age = 0 /\ stuck = FALSE /\ live = "ok"

\* The dependencies become D.
Now(D) ==
    /\ depends' = D /\ UNCHANGED probe
    /\ seen' = [p \in Probes |->
                  IF probe[p].at # "run" THEN seen[p]
                  ELSE [up |-> seen[p].up \union D, gap |-> seen[p].gap \/ D # Checks]]

\* Redis or Postgres goes or comes back; the snapshot service gets ready once.
Dependency ==
    /\ \/ \E d \in Checks \ {"snapshot"} :
            Now(IF d \in depends THEN depends \ {d} ELSE depends \union {d})
       \/ "snapshot" \in Checks \ depends /\ Now(depends \union {"snapshot"})
    /\ UNCHANGED <<vars, beatVars>>

-----------------------------------------------------------------------------
(* Registry.Run for the readiness request p                                *)

Start(p) ==
    /\ probe[p].at # "run"
    /\ probe' = [probe EXCEPT ![p] = Probe("run", FALSE, Checks, clients)]
    /\ seen' = [seen EXCEPT ![p] = [up |-> depends, gap |-> depends # Checks]]
    /\ UNCHANGED <<depends, vars, beatVars>>

\* The prober goes away: the context of the request ends.
Abandon(p) ==
    /\ probe[p].at = "run" /\ ~probe[p].ended
    /\ probe' = [probe EXCEPT ![p].ended = TRUE]
    /\ UNCHANGED <<depends, seen, vars, beatVars>>

\* Mutation: a result overwrites the ones before it.
Recorded_Overwrite(r, c, ok) ==
    [r EXCEPT !.todo = @ \ {c}, !.failing = @ /\ c # "redis", !.failed = IF ok THEN {} ELSE {c}]

\* The result of check c is appended under the lock; its goroutine is done.
Recorded(r, c, ok) ==
    [r EXCEPT !.todo = @ \ {c}, !.failing = @ /\ c # "redis",
              !.failed = IF ok THEN @ ELSE @ \union {c}]
Record(p, c, ok) == probe' = [probe EXCEPT ![p] = Recorded(@, c, ok)]

\* A ping or query answers, unless the context has ended.  IsReady of the
\* snapshot service does not look at the context.
Passes(p, c) ==
    /\ c \in probe[p].todo /\ c \in depends /\ (c = "redis" => ~probe[p].failing)
    /\ c = "snapshot" \/ ~probe[p].ended
    /\ Record(p, c, TRUE)
    /\ UNCHANGED <<depends, seen, vars, beatVars>>

Unanswered(p, c) == c \notin depends \/ (c # "snapshot" /\ probe[p].ended)

Fails(p, c) ==
    /\ c \in probe[p].todo \ {"redis"} /\ Unanswered(p, c) /\ Record(p, c, FALSE)
    /\ UNCHANGED <<depends, seen, vars, beatVars>>

\* The ping of RedisCheck fails: onFailure is next ...
PingFails(p) ==
    /\ "redis" \in probe[p].todo /\ ~probe[p].failing /\ Unanswered(p, "redis")
    /\ probe' = [probe EXCEPT ![p].failing = TRUE]
    /\ UNCHANGED <<depends, seen, vars, beatVars>>

\* Mutation: the failure is recorded, and nobody is evicted.
OnFailure_Nothing(p) ==
    /\ probe[p].failing /\ Record(p, "redis", FALSE)
    /\ UNCHANGED <<depends, seen, vars, beatVars>>

\* ... which evicts the clients of the gateway as it finds them.
OnFailure(p) ==
    /\ probe[p].failing /\ EvictAll /\ Record(p, "redis", FALSE)
    /\ UNCHANGED <<depends, seen, beatVars>>

\* wg.Wait is over: 200 if no check failed, else 503.
Answer(p) ==
    /\ probe[p].at = "run" /\ probe[p].todo = {}
    /\ probe' = [probe EXCEPT ![p] =
                     Probe(IF probe[p].failed = {} THEN "ready" ELSE "not_ready",
                           probe[p].ended, {}, {})]
    /\ UNCHANGED <<depends, seen, vars, beatVars>>

Goroutines(p) ==
    \/ \E c \in Checks : Passes(p, c) \/ Fails(p, c)
    \/ PingFails(p) \/ OnFailure(p) \/ Answer(p)

-----------------------------------------------------------------------------
(* The heartbeat                                                           *)

\* The pipeline handles an event and marks the heartbeat.
Mark ==
    /\ ~stuck /\ age' = 0
    /\ UNCHANGED <<stuck, live, vars, probeVars>>

\* Time goes by without an event.
Tick ==
    /\ age < Threshold /\ age' = age + 1
    /\ UNCHANGED <<stuck, live, vars, probeVars>>

\* The loop blocks for good.
Stick ==
    /\ ~stuck /\ stuck' = TRUE
    /\ UNCHANGED <<age, live, vars, probeVars>>

\* Mutation: the staleness limit is off by one.
handleLiveness_Late ==
    /\ live' = IF age <= Threshold THEN "ok" ELSE "not_ok"
    /\ UNCHANGED <<age, stuck, vars, probeVars>>

handleLiveness ==
    /\ live' = IF age < Threshold THEN "ok" ELSE "not_ok"
    /\ UNCHANGED <<age, stuck, vars, probeVars>>

-----------------------------------------------------------------------------
\* The gateway goes its way; only a failed ping evicts.
GatewayStep ==
    /\ \/ \E c \in Conns : Handler(c) \/ Leave(c) \/ Silent(c) \/ RecordPong(c)
       \/ HeartbeatLoop \/ Shutdown
    /\ UNCHANGED healthVars

ProbeStep == Dependency \/ \E p \in Probes : Start(p) \/ Abandon(p) \/ Goroutines(p)
BeatStep == Mark \/ Tick \/ Stick \/ handleLiveness

HealthNext == GatewayStep \/ ProbeStep \/ BeatStep

-----------------------------------------------------------------------------
HealthTypes ==
    /\ depends \subseteq Checks /\ age \in 0..Threshold
    /\ \A p \in Probes : /\ probe[p].todo \union probe[p].failed \subseteq Checks
                         /\ probe[p].at \in {"idle", "run", "ready", "not_ready"}

\* "The overall result is healthy only if all checks pass": a request is answered
\* with 200 only if every dependency answered at some time during it, and with 503
\* only if one did not or the prober went away, however the goroutines of its
\* checks and of other requests interleave (Registry.Run).
AnswersTrue ==
    \A p \in Probes :
        /\ probe[p].at = "ready" => seen[p].up = Checks
        /\ probe[p].at = "not_ready" /\ ~probe[p].ended => seen[p].gap

\* "When Redis fails, evict all WebSocket clients": once a request has recorded the
\* failure, no client from before the request goes on (RedisCheck, EvictAll).
FailureEvicts ==
    \A p \in Probes : "redis" \in probe[p].failed =>
        probe[p].clients \intersect clients \subseteq told

\* Readiness is answered as the dependencies were, and a failed ping evicts every
\* client from before the request (Registry.Run, RedisCheck, EvictAll).
HealthSafe == HealthTypes /\ AnswersTrue /\ FailureEvicts

\* While Redis stays away, a client is told to go: no request hangs, and the
\* connections that come after an eviction meet the next one.
Cutoff(c) == conn[c] = "live" /\ "redis" \notin depends /\ c \notin told
ZombiesLeave == \A c \in Conns : Cutoff(c) ~> ~Cutoff(c)

\* A pipeline that is stuck is reported by /liveness (Heartbeat.IsAlive).
StuckReported == stuck ~> live = "not_ok"

HealthSafety == HealthInit /\ [][HealthNext]_<<vars, healthVars>>
HealthSpec ==
    /\ HealthSafety
    /\ \A p \in Probes : /\ WF_healthVars(Start(p))
                         /\ WF_<<vars, healthVars>>(Goroutines(p))
    /\ WF_healthVars(Tick) /\ WF_healthVars(handleLiveness)

-----------------------------------------------------------------------------
(* Proofs about the gateway, for any finite set of connections             *)

Positions == {"new", "open", "admitted", "mapped", "counted", "swap", "start",
              "live", "left", "unmapped", "gone"}
Mapped == {"mapped", "counted", "swap", "start", "live", "left"}
Counting == {"counted", "swap", "start", "live", "left", "unmapped"}
Joined == {"start", "live", "left"}
Ended == {"left", "unmapped", "gone"}
Counts == 0..Cardinality(Conns)

\* The part of TypeOK that is inductive by itself.
SetsOK ==
    /\ lifecycle \in {"Starting", "Healthy", "Draining", "Offline"}
    /\ tracked \subseteq Conns /\ told \subseteq Conns /\ overdue \subseteq tracked
    /\ busy \subseteq Conns /\ loop \subseteq Conns /\ running \in BOOLEAN
    /\ waitFor \subseteq Conns /\ clients \subseteq Conns

\* What makes the counts inductive: the counter is the number of handlers past their
\* increment, and a handler about to swap the peak has read a smaller one.
GatewayInv ==
    /\ conn \in [Conns -> Positions] /\ activeCount \in Int /\ peak \in Counts
    /\ clients = {c \in Conns : conn[c] \in Mapped} /\ SetsOK
    /\ activeCount = Between(Counting)
    /\ PeakCovers
    /\ loaded \in [Conns -> Counts \X Counts]
    /\ \A c \in Conns : conn[c] = "swap" => loaded[c][1] < loaded[c][2]
    /\ CollectedClosed

\* Time for the provers: a leaf that names no prover of its own is one for SMT.
USE SMTT(60)

\* A number of handlers is a natural number, and one handler's step changes it by
\* that handler's share.
LEMMA BetweenNatural == ASSUME NEW P PROVE Between(P) \in Nat /\ Between(P) \in Counts
<1> DEFINE A == {c \in Conns : conn[c] \in P}
<1>1. IsFiniteSet(A) /\ Cardinality(A) <= Cardinality(Conns)
  BY FS_Subset, GatewayAssumption
<1>2. Cardinality(A) \in Nat /\ Cardinality(Conns) \in Nat
  BY <1>1, FS_CardinalityType, GatewayAssumption
<1> QED
  BY <1>1, <1>2 DEF Between, Counts

LEMMA BetweenMoves ==
    ASSUME conn \in [Conns -> Positions], NEW c \in Conns, NEW to, NEW P,
           conn' = [conn EXCEPT ![c] = to]
    PROVE  /\ Between(P) \in Nat /\ Between(P)' \in Nat
           /\ (conn[c] \in P <=> to \in P) => Between(P)' = Between(P)
           /\ conn[c] \in P /\ to \notin P => Between(P)' = Between(P) - 1
           /\ conn[c] \notin P /\ to \in P => Between(P)' = Between(P) + 1
<1> DEFINE A == {d \in Conns : conn[d] \in P}
           B == {d \in Conns : conn'[d] \in P}
<1>1. Between(P) = Cardinality(A) /\ Between(P)' = Cardinality(B)
  BY DEF Between
<1>2. IsFiniteSet(A) /\ IsFiniteSet(B)
  BY FS_Subset, GatewayAssumption
<1>3. Cardinality(A) \in Nat /\ Cardinality(B) \in Nat
  BY <1>2, FS_CardinalityType
<1>4. CASE conn[c] \in P <=> to \in P
  <2>1. A = B
    BY <1>4
  <2> QED
    BY <1>1, <1>3, <1>4, <2>1
<1>5. CASE conn[c] \in P /\ to \notin P
  <2>1. B = A \ {c} /\ c \in A
    BY <1>5
  <2>2. Cardinality(A \ {c}) = Cardinality(A) - 1
    BY <1>2, <2>1, FS_RemoveElement
  <2> QED
    BY <1>1, <1>3, <1>5, <2>1, <2>2, ZenonT(60)
<1>6. CASE conn[c] \notin P /\ to \in P
  <2>1. B = A \cup {c} /\ c \notin A
    BY <1>6
  <2>2. Cardinality(A \cup {c}) = Cardinality(A) + 1
    BY <1>2, <2>1, FS_AddElement, ZenonT(60)
  <2> QED
    BY <1>1, <1>3, <1>6, <2>1, <2>2, ZenonT(60)
<1> QED
  BY <1>4, <1>5, <1>6

\* Two numbers of handlers at different positions add up.
LEMMA BetweenUnion ==
    ASSUME NEW P, NEW Q, P \cap Q = {} PROVE Between(P \cup Q) = Between(P) + Between(Q)
<1> DEFINE A == {c \in Conns : conn[c] \in P}
           B == {c \in Conns : conn[c] \in Q}
<1>1. IsFiniteSet(A) /\ IsFiniteSet(B)
  BY FS_Subset, GatewayAssumption
<1>2. A \cap B = {} /\ {c \in Conns : conn[c] \in P \cup Q} = A \cup B
  OBVIOUS
<1>3. Cardinality(A \cup B) = Cardinality(A) + Cardinality(B)
  <2>1. Cardinality(A \cup B) = Cardinality(A) + Cardinality(B) - Cardinality(A \cap B)
    BY <1>1, FS_Union
  <2>2. Cardinality(A \cap B) = 0
    BY <1>2, FS_EmptySet
  <2>3. Cardinality(A) \in Nat /\ Cardinality(B) \in Nat
    BY <1>1, FS_CardinalityType
  <2> QED
    BY <2>1, <2>2, <2>3
<1> QED
  BY <1>2, <1>3, ZenonT(60) DEF Between

\* The invariant in the initial state.
LEMMA GatewayInit == Init => GatewayInv
<1> SUFFICES ASSUME Init PROVE GatewayInv
  OBVIOUS
<1>1. {c \in Conns : conn[c] \in Counting} = {} /\ {c \in Conns : conn[c] \in Joined} = {}
  BY DEF Init, Counting, Joined
<1>2. Between(Counting) = 0 /\ Between(Joined) = 0
  BY <1>1, FS_EmptySet DEF Between
<1>3. clients = {c \in Conns : conn[c] \in Mapped} /\ conn \in [Conns -> Positions]
  BY DEF Init, Mapped, Positions
<1>4. PeakCovers
  BY <1>2 DEF PeakCovers, Joined, Init
<1>5. loaded \in [Conns -> Counts \X Counts] /\ peak \in Counts
  <2>1. 0 \in Counts
    BY FS_CardinalityType, GatewayAssumption DEF Counts
  <2> QED
    BY <2>1 DEF Init
<1>6. \A c \in Conns : conn[c] = "swap" => loaded[c][1] < loaded[c][2]
  BY DEF Init
<1>7. CollectedClosed
  BY DEF Init, CollectedClosed
<1>8. activeCount \in Int /\ activeCount = 0 /\ SetsOK
  BY DEF Init, SetsOK
<1> QED
  BY <1>2, <1>3, <1>4, <1>5, <1>6, <1>7, <1>8 DEF GatewayInv

\* The invariant says what the counts promise.
LEMMA CountsFollow == GatewayInv => GatewayExact
<1> SUFFICES ASSUME GatewayInv PROVE CountExact
  <2>1. Between(Counting) \in Counts
    BY BetweenNatural
  <2> QED
    BY <2>1 DEF GatewayInv, GatewayExact, TypeOK, SetsOK, Counts
<1> DEFINE R == {"counted", "swap", "start", "live", "left"}
<1>1. Mapped = {"mapped"} \cup R /\ Counting = R \cup {"unmapped"}
  BY DEF Mapped, Counting
<1>2. {"mapped"} \cap R = {} /\ R \cap {"unmapped"} = {}
  OBVIOUS
<1> HIDE DEF R
<1>3. Between({"mapped"} \cup R) = Between({"mapped"}) + Between(R)
  BY <1>2, BetweenUnion
<1>4. Between(R \cup {"unmapped"}) = Between(R) + Between({"unmapped"})
  BY <1>2, BetweenUnion
<1>5. Cardinality(clients) = Between(Mapped) /\ activeCount = Between(Counting)
  BY DEF GatewayInv, Between
<1>6. Between({"mapped"}) \in Nat /\ Between(R) \in Nat /\ Between({"unmapped"}) \in Nat
  BY BetweenNatural
<1> QED
  BY <1>1, <1>3, <1>4, <1>5, <1>6 DEF CountExact

\* A connection that has joined is counted.
LEMMA JoinedCounted == Between(Joined)' <= Between(Counting)'
<1> DEFINE A == {c \in Conns : conn'[c] \in Joined}
           B == {c \in Conns : conn'[c] \in Counting}
<1>1. A \subseteq B
  BY DEF Joined, Counting
<1>2. IsFiniteSet(B)
  BY FS_Subset, GatewayAssumption
<1> QED
  BY <1>1, <1>2, FS_Subset DEF Between

\* A step that moves connection c's handler and no other, with the map, the counter
\* and the peak following it.
Follows(c, to) ==
    /\ conn' = [conn EXCEPT ![c] = to] /\ (conn[c] \in Ended => to \in Ended)
    /\ waitFor' = waitFor /\ shut' = shut /\ SetsOK'
    /\ clients' = (IF to \in Mapped THEN clients \cup {c} ELSE clients \ {c})
    /\ activeCount' = activeCount + (IF to \in Counting THEN 1 ELSE 0)
                                  - (IF conn[c] \in Counting THEN 1 ELSE 0)
    /\ peak' \in Counts /\ peak' >= Between(Joined)'
    /\ loaded' \in [Conns -> Counts \X Counts]
    /\ to = "swap" => loaded'[c][1] < loaded'[c][2]
    /\ \A d \in Conns \ {c} : loaded'[d] = loaded[d]

\* Such a step keeps the invariant.
LEMMA HandlerMoves ==
    ASSUME GatewayInv, NEW c \in Conns, NEW to \in Positions, Follows(c, to)
    PROVE  GatewayInv'
<1>0. /\ conn \in [Conns -> Positions] /\ activeCount \in Int
      /\ clients = {d \in Conns : conn[d] \in Mapped} /\ waitFor \subseteq Conns
      /\ activeCount = Between(Counting)
      /\ \A d \in Conns : conn[d] = "swap" => loaded[d][1] < loaded[d][2]
      /\ shut = "done" => \A d \in waitFor : conn[d] \in Ended
  BY DEF GatewayInv, SetsOK, CollectedClosed, Ended
<1>1. conn' \in [Conns -> Positions] /\ activeCount' \in Int
  BY <1>0 DEF Follows
<1>2. clients' = {d \in Conns : conn'[d] \in Mapped}
  BY <1>0 DEF Follows
<1>3. activeCount' = Between(Counting)'
  <2>1. /\ Between(Counting) \in Nat
        /\ (conn[c] \in Counting <=> to \in Counting)
              => Between(Counting)' = Between(Counting)
        /\ conn[c] \in Counting /\ to \notin Counting
              => Between(Counting)' = Between(Counting) - 1
        /\ conn[c] \notin Counting /\ to \in Counting
              => Between(Counting)' = Between(Counting) + 1
    BY <1>0, BetweenMoves, ZenonT(60) DEF Follows
  <2>2. CASE conn[c] \in Counting /\ to \in Counting
    BY <1>0, <2>1, <2>2 DEF Follows
  <2>3. CASE conn[c] \in Counting /\ to \notin Counting
    BY <1>0, <2>1, <2>3 DEF Follows
  <2>4. CASE conn[c] \notin Counting /\ to \in Counting
    BY <1>0, <2>1, <2>4 DEF Follows
  <2>5. CASE conn[c] \notin Counting /\ to \notin Counting
    BY <1>0, <2>1, <2>5 DEF Follows
  <2> QED
    BY <2>2, <2>3, <2>4, <2>5
<1>4. \A d \in Conns : conn'[d] = "swap" => loaded'[d][1] < loaded'[d][2]
  BY <1>0 DEF Follows
<1>5. shut' = "done" => \A d \in waitFor' : conn'[d] \in Ended
  BY <1>0 DEF Follows
<1>6. PeakCovers' /\ CollectedClosed'
  BY <1>5 DEF Follows, PeakCovers, CollectedClosed, Joined, Ended
<1> QED
  BY <1>0, <1>1, <1>2, <1>3, <1>4, <1>6 DEF Follows, GatewayInv

\* The steps of one connection's handler, and its end.
LEMMA HandlerStep ==
    ASSUME GatewayInv, NEW c \in Conns, Handler(c) \/ Leave(c) PROVE GatewayInv'
<1>0. /\ conn \in [Conns -> Positions] /\ activeCount \in Counts /\ peak \in Counts
      /\ clients = {d \in Conns : conn[d] \in Mapped}
      /\ activeCount = Between(Counting) /\ peak >= Between(Joined)
      /\ loaded \in [Conns -> Counts \X Counts] /\ Counts \subseteq Int
      /\ conn[c] = "swap" => loaded[c][1] < loaded[c][2]
      /\ Between(Joined) \in Nat
  <2>1. Between(Joined) \in Nat /\ Between(Counting) \in Counts
    BY BetweenNatural
  <2>2. Counts \subseteq Int
    BY FS_CardinalityType, GatewayAssumption DEF Counts
  <2> QED
    BY <2>1, <2>2 DEF GatewayInv, PeakCovers, Joined
<1>1. waitFor' = waitFor /\ shut' = shut /\ SetsOK'
  <2>1. waitFor' = waitFor /\ shut' = shut
    BY ZenonT(60) DEF Handler, CheckState, CheckCapacity, Register, CountUp, PeakLoad, PeakSwap,
           ReadPump, Unregister, CountDown, Leave, down
  <2>2. /\ UNCHANGED <<lifecycle, told, loop, running>> /\ busy' \subseteq busy
        /\ \/ UNCHANGED <<tracked, overdue>>
           \/ tracked' = tracked \cup {c} /\ overdue' = overdue
           \/ tracked' = tracked \ {c} /\ overdue' = overdue \ {c}
        /\ clients' \subseteq clients \cup {c}
    BY ZenonT(60) DEF Handler, CheckState, CheckCapacity, Register, CountUp, PeakLoad, PeakSwap,
           ReadPump, Unregister, CountDown, Leave, hb
  <2> QED
    BY <2>1, <2>2 DEF GatewayInv, SetsOK
<1>2. CASE CheckState(c)
  <2>1. PICK to \in {"gone", "open"} : conn' = [conn EXCEPT ![c] = to]
    BY <1>2, ZenonT(60) DEF CheckState, Goto
  <2>2. conn[c] = "new" /\ UNCHANGED <<clients, activeCount, peak, loaded>>
    BY <1>2 DEF CheckState
  <2>3. Between(Joined)' = Between(Joined)
    <3>1. conn[c] \notin Joined /\ to \notin Joined
      BY <2>1, <2>2 DEF Joined
    <3> QED
      BY <1>0, <2>1, <3>1, BetweenMoves, ZenonT(60)
  <2>4. /\ to \in Positions /\ conn[c] \notin Ended /\ to # "swap"
        /\ to \notin Mapped /\ c \notin clients
        /\ to \notin Counting /\ conn[c] \notin Counting
    BY <1>0, <2>1, <2>2 DEF Positions, Mapped, Counting, Ended
  <2>5. Follows(c, to)
    BY <1>0, <1>1, <2>1, <2>2, <2>3, <2>4 DEF Follows
  <2> QED
    BY <2>4, <2>5, HandlerMoves
<1>3. CASE CheckCapacity(c)
  <2>1. PICK to \in {"gone", "admitted"} : conn' = [conn EXCEPT ![c] = to]
    BY <1>3 DEF CheckCapacity, Goto
  <2>2. conn[c] = "open" /\ UNCHANGED <<clients, activeCount, peak, loaded>>
    BY <1>3 DEF CheckCapacity
  <2>3. Between(Joined)' = Between(Joined)
    <3>1. conn[c] \notin Joined /\ to \notin Joined
      BY <2>1, <2>2 DEF Joined
    <3> QED
      BY <1>0, <2>1, <3>1, BetweenMoves, ZenonT(60)
  <2>4. /\ to \in Positions /\ conn[c] \notin Ended /\ to # "swap"
        /\ to \notin Mapped /\ c \notin clients
        /\ to \notin Counting /\ conn[c] \notin Counting
    BY <1>0, <2>1, <2>2 DEF Positions, Mapped, Counting, Ended
  <2>5. Follows(c, to)
    BY <1>0, <1>1, <2>1, <2>2, <2>3, <2>4 DEF Follows
  <2> QED
    BY <2>4, <2>5, HandlerMoves
<1>4. CASE Register(c)
  <2>1. /\ conn[c] = "admitted" /\ conn' = [conn EXCEPT ![c] = "mapped"]
        /\ clients' = clients \cup {c} /\ UNCHANGED <<activeCount, peak, loaded>>
    BY <1>4 DEF Register, Goto
  <2>2. Between(Joined)' = Between(Joined)
    <3>1. conn[c] \notin Joined /\ "mapped" \notin Joined
      BY <2>1 DEF Joined
    <3> QED
      BY <1>0, <2>1, <3>1, BetweenMoves, ZenonT(60)
  <2>3. /\ "mapped" \in Positions /\ conn[c] \notin Ended
        /\ "mapped" \in Mapped
        /\ "mapped" \notin Counting /\ conn[c] \notin Counting
    BY <1>0, <2>1 DEF Positions, Mapped, Counting, Ended
  <2>4. Follows(c, "mapped")
    BY <1>0, <1>1, <2>1, <2>2, <2>3 DEF Follows
  <2> QED
    BY <2>3, <2>4, HandlerMoves
<1>5. CASE CountUp(c)
  <2>1. /\ conn[c] = "mapped" /\ conn' = [conn EXCEPT ![c] = "counted"]
        /\ activeCount' = activeCount + 1 /\ UNCHANGED <<clients, peak, loaded>>
    BY <1>5 DEF CountUp, Goto
  <2>2. Between(Joined)' = Between(Joined)
    <3>1. conn[c] \notin Joined /\ "counted" \notin Joined
      BY <2>1 DEF Joined
    <3> QED
      BY <1>0, <2>1, <3>1, BetweenMoves, ZenonT(60)
  <2>3. /\ "counted" \in Positions /\ conn[c] \notin Ended
        /\ "counted" \in Mapped /\ c \in clients
        /\ "counted" \in Counting /\ conn[c] \notin Counting
    BY <1>0, <2>1 DEF Positions, Mapped, Counting, Ended
  <2>4. Follows(c, "counted")
    BY <1>0, <1>1, <2>1, <2>2, <2>3 DEF Follows
  <2> QED
    BY <2>3, <2>4, HandlerMoves
<1>6. CASE PeakLoad(c) /\ activeCount <= peak
  <2>1. /\ conn[c] = "counted" /\ conn' = [conn EXCEPT ![c] = "start"]
        /\ loaded' = [loaded EXCEPT ![c] = <<peak, activeCount>>]
        /\ UNCHANGED <<clients, activeCount, peak>>
    BY <1>6 DEF PeakLoad, Goto
  <2>2. "start" \in Positions /\ conn[c] \notin Ended /\ c \in clients
        /\ "start" \in Mapped /\ "start" \in Counting /\ conn[c] \in Counting
    BY <1>0, <2>1 DEF Positions, Mapped, Counting, Ended
  <2>3. /\ loaded' \in [Conns -> Counts \X Counts]
        /\ \A d \in Conns \ {c} : loaded'[d] = loaded[d]
    BY <1>0, <2>1
  <2>4. peak >= Between(Joined)'
    <3>1. Between(Joined)' <= Between(Counting)'
      BY JoinedCounted
    <3>2. Between(Counting)' = Between(Counting)
      BY <1>0, <2>1, <2>2, BetweenMoves, ZenonT(60)
    <3>3. Between(Joined)' \in Nat /\ Between(Counting) \in Nat
      BY <1>0, <2>1, BetweenMoves, ZenonT(60)
    <3> QED
      BY <1>0, <1>6, <3>1, <3>2, <3>3
  <2>5. Follows(c, "start")
    BY <1>0, <1>1, <2>1, <2>2, <2>3, <2>4 DEF Follows
  <2> QED
    BY <2>2, <2>5, HandlerMoves
<1>7. CASE PeakLoad(c) /\ ~(activeCount <= peak)
  <2>1. /\ conn[c] = "counted" /\ conn' = [conn EXCEPT ![c] = "swap"]
        /\ loaded' = [loaded EXCEPT ![c] = <<peak, activeCount>>]
        /\ UNCHANGED <<clients, activeCount, peak>>
    BY <1>7 DEF PeakLoad, Goto
  <2>2. Between(Joined)' = Between(Joined)
    <3>1. conn[c] \notin Joined /\ "swap" \notin Joined
      BY <2>1 DEF Joined
    <3> QED
      BY <1>0, <2>1, <3>1, BetweenMoves, ZenonT(60)
  <2>3. "swap" \in Positions /\ conn[c] \notin Ended /\ c \in clients
        /\ "swap" \in Mapped /\ "swap" \in Counting /\ conn[c] \in Counting
    BY <1>0, <2>1 DEF Positions, Mapped, Counting, Ended
  <2>4. /\ loaded' \in [Conns -> Counts \X Counts] /\ loaded'[c] = <<peak, activeCount>>
        /\ \A d \in Conns \ {c} : loaded'[d] = loaded[d]
    BY <1>0, <2>1
  <2>5. loaded'[c][1] < loaded'[c][2]
    BY <1>0, <1>7, <2>4
  <2>6. Follows(c, "swap")
    BY <1>0, <1>1, <2>1, <2>2, <2>3, <2>4, <2>5 DEF Follows
  <2> QED
    BY <2>3, <2>6, HandlerMoves
<1>8. CASE PeakSwap(c) /\ peak = loaded[c][1]
  <2>1. /\ conn[c] = "swap" /\ conn' = [conn EXCEPT ![c] = "start"]
        /\ peak' = loaded[c][2] /\ UNCHANGED <<clients, activeCount, loaded>>
    BY <1>8 DEF PeakSwap, Goto
  <2>2. Between(Joined)' = Between(Joined) + 1
    <3>1. conn[c] \notin Joined /\ "start" \in Joined
      BY <2>1 DEF Joined
    <3> QED
      BY <1>0, <2>1, <3>1, BetweenMoves, ZenonT(60)
  <2>3. "start" \in Positions /\ conn[c] \notin Ended /\ c \in clients
        /\ "start" \in Mapped /\ "start" \in Counting /\ conn[c] \in Counting
    BY <1>0, <2>1 DEF Positions, Mapped, Counting, Ended
  <2>4. peak' \in Counts /\ peak' > peak
    BY <1>0, <1>8, <2>1
  <2>5. peak' >= Between(Joined)'
    BY <1>0, <2>2, <2>4
  <2>6. Follows(c, "start")
    BY <1>0, <1>1, <2>1, <2>3, <2>4, <2>5 DEF Follows
  <2> QED
    BY <2>3, <2>6, HandlerMoves
<1>9. CASE PeakSwap(c) /\ peak # loaded[c][1]
  <2>1. /\ conn[c] = "swap" /\ conn' = [conn EXCEPT ![c] = "counted"]
        /\ UNCHANGED <<clients, activeCount, peak, loaded>>
    BY <1>9 DEF PeakSwap, Goto
  <2>2. Between(Joined)' = Between(Joined)
    <3>1. conn[c] \notin Joined /\ "counted" \notin Joined
      BY <2>1 DEF Joined
    <3> QED
      BY <1>0, <2>1, <3>1, BetweenMoves, ZenonT(60)
  <2>3. "counted" \in Positions /\ conn[c] \notin Ended /\ c \in clients
        /\ "counted" \in Mapped /\ "counted" \in Counting /\ conn[c] \in Counting
    BY <1>0, <2>1 DEF Positions, Mapped, Counting, Ended
  <2>4. Follows(c, "counted")
    BY <1>0, <1>1, <2>1, <2>2, <2>3 DEF Follows
  <2> QED
    BY <2>3, <2>4, HandlerMoves
<1>10. CASE ReadPump(c)
  <2>1. /\ conn[c] = "start" /\ conn' = [conn EXCEPT ![c] = "live"]
        /\ UNCHANGED <<clients, activeCount, peak, loaded>>
    BY <1>10 DEF ReadPump, Goto
  <2>2. Between(Joined)' = Between(Joined)
    <3>1. conn[c] \in Joined /\ "live" \in Joined
      BY <2>1 DEF Joined
    <3> QED
      BY <1>0, <2>1, <3>1, BetweenMoves, ZenonT(60)
  <2>3. /\ "live" \in Positions /\ conn[c] \notin Ended
        /\ "live" \in Mapped /\ c \in clients
        /\ "live" \in Counting /\ conn[c] \in Counting
    BY <1>0, <2>1 DEF Positions, Mapped, Counting, Ended
  <2>4. Follows(c, "live")
    BY <1>0, <1>1, <2>1, <2>2, <2>3 DEF Follows
  <2> QED
    BY <2>3, <2>4, HandlerMoves
<1>11. CASE Leave(c)
  <2>1. /\ conn[c] = "live" /\ conn' = [conn EXCEPT ![c] = "left"]
        /\ UNCHANGED <<clients, activeCount, peak, loaded>>
    BY <1>11 DEF Leave, Goto
  <2>2. Between(Joined)' = Between(Joined)
    <3>1. conn[c] \in Joined /\ "left" \in Joined
      BY <2>1 DEF Joined
    <3> QED
      BY <1>0, <2>1, <3>1, BetweenMoves, ZenonT(60)
  <2>3. /\ "left" \in Positions /\ conn[c] \notin Ended
        /\ "left" \in Mapped /\ c \in clients
        /\ "left" \in Counting /\ conn[c] \in Counting
    BY <1>0, <2>1 DEF Positions, Mapped, Counting, Ended
  <2>4. Follows(c, "left")
    BY <1>0, <1>1, <2>1, <2>2, <2>3 DEF Follows
  <2> QED
    BY <2>3, <2>4, HandlerMoves
<1>12. CASE Unregister(c)
  <2>1. /\ conn[c] = "left" /\ conn' = [conn EXCEPT ![c] = "unmapped"]
        /\ clients' = clients \ {c} /\ UNCHANGED <<activeCount, peak, loaded>>
    BY <1>12 DEF Unregister, Goto
  <2>2. Between(Joined)' = Between(Joined) - 1
    <3>1. conn[c] \in Joined /\ "unmapped" \notin Joined
      BY <2>1 DEF Joined
    <3> QED
      BY <1>0, <2>1, <3>1, BetweenMoves, ZenonT(60)
  <2>3. /\ "unmapped" \in Positions /\ "unmapped" \in Ended
        /\ "unmapped" \notin Mapped
        /\ "unmapped" \in Counting /\ conn[c] \in Counting
    BY <1>0, <2>1 DEF Positions, Mapped, Counting, Ended
  <2>4. Follows(c, "unmapped")
    BY <1>0, <1>1, <2>1, <2>2, <2>3 DEF Follows
  <2> QED
    BY <2>3, <2>4, HandlerMoves
<1>13. CASE CountDown(c)
  <2>1. /\ conn[c] = "unmapped" /\ conn' = [conn EXCEPT ![c] = "gone"]
        /\ activeCount' = activeCount - 1 /\ UNCHANGED <<clients, peak, loaded>>
    BY <1>13 DEF CountDown, Goto
  <2>2. Between(Joined)' = Between(Joined)
    <3>1. conn[c] \notin Joined /\ "gone" \notin Joined
      BY <2>1 DEF Joined
    <3> QED
      BY <1>0, <2>1, <3>1, BetweenMoves, ZenonT(60)
  <2>3. /\ "gone" \in Positions /\ "gone" \in Ended
        /\ "gone" \notin Mapped /\ c \notin clients
        /\ "gone" \notin Counting /\ conn[c] \in Counting
    BY <1>0, <2>1 DEF Positions, Mapped, Counting, Ended
  <2>4. Follows(c, "gone")
    BY <1>0, <1>1, <2>1, <2>2, <2>3 DEF Follows
  <2> QED
    BY <2>3, <2>4, HandlerMoves
<1> QED
  BY <1>2, <1>3, <1>4, <1>5, <1>6, <1>7, <1>8, <1>9, <1>10, <1>11, <1>12, <1>13
  DEF Handler

\* The other steps leave the handlers, the map and the counters alone.
LEMMA OtherStep ==
    ASSUME GatewayInv,
           \/ \E c \in Conns : Replay(c) \/ Silent(c) \/ RecordPong(c)
           \/ HeartbeatLoop \/ EvictAll \/ Shutdown \/ UNCHANGED vars
    PROVE  GatewayInv'
<1>1. UNCHANGED adm
  BY ZenonT(60) DEF Replay, Silent, RecordPong, HeartbeatLoop, Scan, TimeOut, EvictAll, Shutdown,
         ShutdownDrain, ShutdownCollect, ShutdownTell, ShutdownDone, ShutdownExpires, vars
<1>2. UNCHANGED <<conn, clients, activeCount, peak, loaded>>
  BY <1>1 DEF adm
<1>3. SetsOK'
  <2>1. /\ lifecycle' \in {lifecycle, "Draining", "Offline"} /\ running' \in {running, FALSE}
        /\ waitFor' \in {waitFor, clients} /\ tracked' = tracked /\ clients' = clients
    BY <1>2, ZenonT(60) DEF Replay, Silent, RecordPong, HeartbeatLoop, Scan, TimeOut, EvictAll,
           Shutdown, ShutdownDrain, ShutdownCollect, ShutdownTell, ShutdownDone,
           ShutdownExpires, Transition, vars, down, hb
  <2>2. told' \subseteq Conns /\ busy' \subseteq Conns
    BY ZenonT(60) DEF GatewayInv, SetsOK, Replay, Silent, RecordPong, HeartbeatLoop, Scan, TimeOut,
           EvictAll, Shutdown, ShutdownDrain, ShutdownCollect, ShutdownTell, ShutdownDone,
           ShutdownExpires, vars, down, hb
  <2>3. overdue' \subseteq tracked /\ loop' \subseteq Conns
    BY ZenonT(60) DEF GatewayInv, SetsOK, Replay, Silent, RecordPong, HeartbeatLoop, Scan, TimeOut,
           EvictAll, Shutdown, ShutdownDrain, ShutdownCollect, ShutdownTell, ShutdownDone,
           ShutdownExpires, vars, down, hb
  <2> QED
    BY <2>1, <2>2, <2>3, ZenonT(60) DEF GatewayInv, SetsOK
<1>4. CollectedClosed'
  <2>1. shut' = "done" =>
          \/ shut = "done" /\ waitFor' = waitFor
          \/ waitFor' = waitFor /\ \A c \in waitFor : conn[c] \in {"left", "unmapped", "gone"}
    BY ZenonT(60) DEF Replay, Silent, RecordPong, HeartbeatLoop, Scan, TimeOut, EvictAll, Shutdown,
           ShutdownDrain, ShutdownCollect, ShutdownTell, ShutdownDone, ShutdownExpires,
           vars, down
  <2> QED
    BY <1>2, <2>1 DEF GatewayInv, CollectedClosed
<1>5. \A P : Between(P)' = Between(P)
  BY <1>2 DEF Between
<1>6. PeakCovers'
  BY <1>2, <1>5 DEF GatewayInv, PeakCovers
<1> QED
  BY <1>2, <1>3, <1>4, <1>5, <1>6 DEF GatewayInv

\* Every step of the gateway keeps the invariant.
LEMMA GatewayInductive == Spec => []GatewayInv
<1>1. GatewayInv /\ [Next]_vars => GatewayInv'
  BY HandlerStep, OtherStep DEF Next, Quiet
<1> QED
  BY GatewayInit, <1>1, PTL DEF Spec

\* For any finite set of connections, under every interleaving of their handlers with
\* evictions, the heartbeat loop and Shutdown: the counter is exact but for handlers
\* between the map and the counter, the peak covers what has joined although it is
\* swapped without a lock, and a finished Shutdown has closed all it collected.
THEOREM GatewayCorrect == Spec => []GatewayExact
<1> QED
  BY GatewayInductive, CountsFollow, PTL

-----------------------------------------------------------------------------
(* Proofs about the health checks, for any set of requests                 *)

ProbeType == [at : {"idle", "run", "ready", "not_ready"}, ended : BOOLEAN,
              failing : BOOLEAN, todo : SUBSET Checks, failed : SUBSET Checks,
              clients : SUBSET Conns]
SeenType == [up : SUBSET Checks, gap : BOOLEAN]

\* What is true of a request with the record r that has seen s, when the
\* dependencies D answer: a check that has passed did so while its dependency was
\* up, and one that fails met a gap or the end of the context.
Truthful(r, s, D) ==
    /\ r.at # "run" => r.todo = {} /\ r.failed = {} /\ ~r.failing
    /\ r.at = "run" => /\ D \subseteq s.up /\ (D # Checks => s.gap)
                       /\ \A c \in Checks : c \in r.todo \/ c \in r.failed \/ c \in s.up
                       /\ r.failed # {} \/ r.failing => s.gap \/ r.ended
    /\ r.failing => "redis" \in r.todo
    /\ r.at = "ready" => s.up = Checks
    /\ r.at = "not_ready" => s.gap \/ r.ended

Unregistered == {"new", "open", "admitted"}

\* With the handlers at position, C in the map and T told to go: the clients from
\* before request r have registered, and are told once it has recorded the failure of
\* Redis.
Evicted(r, position, C, T) ==
    /\ \A c \in r.clients : position[c] \notin Unregistered
    /\ "redis" \in r.failed => \A c \in r.clients : c \in C => c \in T

HealthInv ==
    /\ depends \subseteq Checks /\ age \in 0..Threshold
    /\ probe \in [Probes -> ProbeType] /\ seen \in [Probes -> SeenType]
    /\ \A p \in Probes : /\ Truthful(probe[p], seen[p], depends)
                         /\ Evicted(probe[p], conn, clients, told)

\* The fields of a request.
LEMMA ProbeFields ==
    ASSUME NEW r \in ProbeType
    PROVE  /\ r.at \in {"idle", "run", "ready", "not_ready"}
           /\ r.ended \in BOOLEAN /\ r.failing \in BOOLEAN
           /\ r.todo \subseteq Checks /\ r.failed \subseteq Checks /\ r.clients \subseteq Conns
BY ZenonT(60) DEF ProbeType

\* Request r has just been made.
Made(r, a, e, t, b) ==
    /\ r \in ProbeType /\ r.at = a /\ r.ended = e /\ r.failing = FALSE
    /\ r.todo = t /\ r.failed = {} /\ r.clients = b

\* A new request has the fields it is made with.
LEMMA ProbeMade ==
    ASSUME NEW a \in {"idle", "run", "ready", "not_ready"}, NEW e \in BOOLEAN,
           NEW t \in SUBSET Checks, NEW b \in SUBSET Conns
    PROVE  Made(Probe(a, e, t, b), a, e, t, b)
BY ZenonT(60) DEF Probe, ProbeType, Made

\* A request starts.
LEMMA RequestStarts ==
    ASSUME NEW D \in SUBSET Checks, NEW C \in SUBSET Conns
    PROVE  LET r == Probe("run", FALSE, Checks, C)
               s == [up |-> D, gap |-> D # Checks]
           IN  r \in ProbeType /\ s \in SeenType /\ Truthful(r, s, D)
<1> DEFINE r == Probe("run", FALSE, Checks, C)
           s == [up |-> D, gap |-> D # Checks]
<1>1. r \in ProbeType /\ r.at = "run" /\ ~r.failing /\ r.failed = {} /\ r.todo = Checks
  <2>1. /\ "run" \in {"idle", "run", "ready", "not_ready"} /\ FALSE \in BOOLEAN
        /\ Checks \in SUBSET Checks
    BY ZenonT(60)
  <2>2. Made(r, "run", FALSE, Checks, C)
    BY <2>1, ProbeMade, ZenonT(60)
  <2> QED BY <2>2, ZenonT(60) DEF Made
<1>2. s \in SeenType /\ s.up = D /\ (D # Checks => s.gap)
  BY ZenonT(60) DEF SeenType
<1> HIDE DEF r, s
<1>3. Truthful(r, s, D)
  BY <1>1, <1>2, ZenonT(60) DEF Truthful
<1> QED BY <1>1, <1>2, <1>3, ZenonT(60) DEF r, s

\* The dependencies change while a request runs, and while it does not.
LEMMA RequestSees ==
    ASSUME NEW r \in ProbeType, NEW s \in SeenType, NEW D, NEW E \in SUBSET Checks,
           Truthful(r, s, D)
    PROVE  LET t == IF r.at # "run" THEN s
                    ELSE [up |-> s.up \union E, gap |-> s.gap \/ E # Checks]
           IN  t \in SeenType /\ Truthful(r, t, E)
<1>1. CASE r.at # "run"
  BY <1>1, ZenonT(60) DEF Truthful
<1>2. CASE r.at = "run"
  <2> DEFINE t == [up |-> s.up \union E, gap |-> s.gap \/ E # Checks]
  <2>1. s.up \in SUBSET Checks
    BY ZenonT(60) DEF SeenType
  <2>2. s.up \union E \in SUBSET Checks
    BY <2>1, ZenonT(60)
  <2>3. t \in SeenType /\ t.up = s.up \union E /\ (s.gap => t.gap) /\ (E # Checks => t.gap)
    BY <2>2, ZenonT(60) DEF SeenType
  <2> HIDE DEF t
  <2>4. Truthful(r, t, E)
    BY <1>2, <2>3, ZenonT(60) DEF Truthful
  <2> QED BY <1>2, <2>3, <2>4, ZenonT(60) DEF t
<1> QED BY <1>1, <1>2

\* What the steps of a request make of it.
Abandoned(r) == [r EXCEPT !.ended = TRUE]
Pinged(r) == [r EXCEPT !.failing = TRUE]
Answered(r) == Probe(IF r.failed = {} THEN "ready" ELSE "not_ready", r.ended, {}, {})

\* Check c of request r may be recorded: it passed while its dependency was up, or
\* failed with one down or the context ended.
Justified(r, s, D, c, ok) ==
    /\ ok => c \in D /\ (c = "redis" => ~r.failing)
    /\ ~ok => s.gap \/ r.ended

\* Request q is r with check c recorded.
RecordedFrom(q, r, s, D, c, ok) ==
    /\ q \in ProbeType /\ Truthful(q, s, D) /\ q.clients = r.clients
    /\ q.failed \subseteq r.failed \union {c} /\ (ok => q.failed = r.failed)

\* The context of a request ends, or its ping has failed.
LEMMA RequestMarks ==
    ASSUME NEW r \in ProbeType, NEW s \in SeenType, NEW D, Truthful(r, s, D), NEW q,
           \/ q = Abandoned(r)
           \/ q = Pinged(r) /\ "redis" \in r.todo /\ (s.gap \/ r.ended)
    PROVE  q \in ProbeType /\ Truthful(q, s, D) /\ q.clients = r.clients /\ q.failed = r.failed
<1>1. CASE q = Abandoned(r)
  <2>1. q \in ProbeType
    BY <1>1, ZenonT(60) DEF ProbeType, Abandoned
  <2>2. /\ q.at = r.at /\ q.ended = TRUE /\ q.failing = r.failing /\ q.todo = r.todo
        /\ q.failed = r.failed /\ q.clients = r.clients
    BY <1>1, ZenonT(60) DEF ProbeType, Abandoned
  <2> QED BY <2>1, <2>2, ZenonT(60) DEF Truthful
<1>2. CASE q = Pinged(r) /\ "redis" \in r.todo /\ (s.gap \/ r.ended)
  <2>1. q \in ProbeType
    BY <1>2, ZenonT(60) DEF ProbeType, Pinged
  <2>2. /\ q.at = r.at /\ q.failing = TRUE /\ q.ended = r.ended /\ q.todo = r.todo
        /\ q.failed = r.failed /\ q.clients = r.clients
    BY <1>2, ZenonT(60) DEF ProbeType, Pinged
  <2>3. r.at = "run"
    BY <1>2, ZenonT(60) DEF Truthful
  <2> QED BY <1>2, <2>1, <2>2, <2>3, ZenonT(60) DEF Truthful
<1> QED BY <1>1, <1>2, ZenonT(60)

\* A check of a request is recorded.
LEMMA RequestRecords ==
    ASSUME NEW r \in ProbeType, NEW s \in SeenType, NEW D \in SUBSET Checks, Truthful(r, s, D),
           NEW c \in r.todo, NEW ok \in BOOLEAN, Justified(r, s, D, c, ok)
    PROVE  RecordedFrom(Recorded(r, c, ok), r, s, D, c, ok)
<1>0. PICK q : q = Recorded(r, c, ok)
  BY ZenonT(60)
<1> DEFINE t == r.todo \ {c}
           f == r.failing /\ c # "redis"
           x == IF ok THEN r.failed ELSE r.failed \union {c}
<1>1. /\ r.at = "run" /\ D \subseteq s.up /\ c \in Checks /\ r.failed \subseteq Checks
      /\ r.todo \subseteq Checks
  <2>1. r.todo # {} /\ r.todo \subseteq Checks /\ r.failed \subseteq Checks
    BY ProbeFields, ZenonT(60)
  <2>2. r.at = "run"
    BY <2>1, ZenonT(60) DEF Truthful
  <2> QED BY <2>1, <2>2, ZenonT(60) DEF Truthful
<1>2. t \in SUBSET Checks /\ f \in BOOLEAN /\ x \in SUBSET Checks
  BY <1>1, ZenonT(60)
<1>3. q = [r EXCEPT !.todo = t, !.failing = f, !.failed = x]
  BY <1>0, ZenonT(60) DEF Recorded
<1> HIDE DEF t, f, x
<1>4. /\ q \in ProbeType /\ q.clients = r.clients /\ q.at = r.at /\ q.ended = r.ended
      /\ q.todo = t /\ q.failing = f /\ q.failed = x
  BY <1>2, <1>3, ZenonT(60) DEF ProbeType
<1>5. \A d \in Checks : d \in q.todo \/ d \in q.failed \/ d \in s.up
  <2> SUFFICES ASSUME NEW d \in Checks PROVE d \in t \/ d \in x \/ d \in s.up
    BY <1>4, ZenonT(60)
  <2>1. d \in r.todo \/ d \in r.failed \/ d \in s.up
    BY <1>1, ZenonT(60) DEF Truthful
  <2>2. d = c => d \in x \/ d \in s.up
    BY <1>1, ZenonT(60) DEF x, Justified
  <2>3. d \in r.failed => d \in x
    BY ZenonT(60) DEF x
  <2> QED BY <2>1, <2>2, <2>3, ZenonT(60) DEF t
<1>6. q.failed # {} \/ q.failing => s.gap \/ q.ended
  BY <1>1, <1>4, ZenonT(60) DEF Truthful, f, x, Justified
<1>7. q.failing => "redis" \in q.todo
  BY <1>4, ZenonT(60) DEF Truthful, t, f
<1>8. D # Checks => s.gap
  BY <1>1, ZenonT(60) DEF Truthful
<1>9. Truthful(q, s, D)
  BY <1>1, <1>4, <1>5, <1>6, <1>7, <1>8, ZenonT(60) DEF Truthful
<1>10. q.failed \subseteq r.failed \union {c} /\ (ok => q.failed = r.failed)
  BY <1>4, ZenonT(60) DEF x
<1> QED BY <1>0, <1>4, <1>9, <1>10, ZenonT(60) DEF RecordedFrom

\* A request is answered.
LEMMA RequestAnswers ==
    ASSUME NEW r \in ProbeType, NEW s \in SeenType, NEW D, Truthful(r, s, D),
           r.at = "run", r.todo = {}, NEW q, q = Answered(r)
    PROVE  q \in ProbeType /\ Truthful(q, s, D) /\ q.clients = {} /\ q.failed = {}
<1> DEFINE a == IF r.failed = {} THEN "ready" ELSE "not_ready"
<1>1. a \in {"idle", "run", "ready", "not_ready"} /\ a # "run" /\ r.ended \in BOOLEAN
  BY ProbeFields, ZenonT(60)
<1>2. (a = "ready" <=> r.failed = {}) /\ (a = "not_ready" <=> r.failed # {})
  BY ZenonT(60)
<1> HIDE DEF a
<1>3. /\ q \in ProbeType /\ q.at = a /\ q.ended = r.ended /\ ~q.failing
      /\ q.todo = {} /\ q.failed = {} /\ q.clients = {}
  <2>1. q = Probe(a, r.ended, {}, {})
    BY ZenonT(60) DEF a, Answered
  <2>2. {} \in SUBSET Checks /\ {} \in SUBSET Conns
    BY ZenonT(60)
  <2>3. Made(q, a, r.ended, {}, {})
    BY <1>1, <2>1, <2>2, ProbeMade, ZenonT(60)
  <2> QED BY <2>3, ZenonT(60) DEF Made
<1>4. r.failed = {} => s.up = Checks
  <2>1. s.up \subseteq Checks
    BY ZenonT(60) DEF SeenType
  <2> QED BY <2>1, ZenonT(60) DEF Truthful
<1>5. r.failed # {} => s.gap \/ r.ended
  BY ZenonT(60) DEF Truthful
<1> QED BY <1>1, <1>2, <1>3, <1>4, <1>5, ZenonT(60) DEF Truthful

\* A step of the gateway is one of a gateway without health checks.
LEMMA HealthStepIsGatewayStep ==
    [HealthNext]_<<vars, healthVars>> => [Next]_vars
<1> SUFFICES ASSUME [HealthNext]_<<vars, healthVars>> PROVE [Next]_vars
  OBVIOUS
<1>1. CASE GatewayStep
  BY <1>1, ZenonT(60) DEF GatewayStep, Next
<1>2. CASE UNCHANGED vars
  BY <1>2
<1>3. CASE ProbeStep
  <2>1. CASE Dependency
    BY <2>1, <1>2, ZenonT(60) DEF Dependency
  <2>2. ASSUME NEW p \in Probes, Start(p) \/ Abandon(p) \/ PingFails(p) \/ Answer(p)
        PROVE  [Next]_vars
    BY <2>2, <1>2, ZenonT(60) DEF Start, Abandon, PingFails, Answer
  <2>3. ASSUME NEW p \in Probes, NEW c \in Checks, Passes(p, c) \/ Fails(p, c)
        PROVE  [Next]_vars
    BY <2>3, <1>2, ZenonT(60) DEF Passes, Fails
  <2>4. ASSUME NEW p \in Probes, OnFailure(p) PROVE [Next]_vars
    BY <2>4, ZenonT(60) DEF OnFailure, Next
  <2> QED BY <1>3, <2>1, <2>2, <2>3, <2>4, ZenonT(60) DEF ProbeStep, Goroutines
<1>4. CASE BeatStep
  BY <1>4, <1>2, ZenonT(60) DEF BeatStep, Mark, Tick, Stick, handleLiveness
<1>5. CASE UNCHANGED <<vars, healthVars>>
  BY <1>5, <1>2
<1> QED BY <1>1, <1>3, <1>4, <1>5, ZenonT(60) DEF HealthNext

\* A client that has registered does not come back after it has left, and one told to
\* go stays told.
Onward ==
    /\ told \subseteq told'
    /\ \A c \in Conns : conn[c] \notin Unregistered =>
          conn'[c] \notin Unregistered /\ (c \in clients' => c \in clients)

\* Every step of the gateway goes onward.
LEMMA GatewayOnward == ASSUME GatewayInv, [Next]_vars PROVE Onward
<1>0. conn \in [Conns -> Positions] /\ clients = {d \in Conns : conn[d] \in Mapped}
  BY DEF GatewayInv
<1>1. ASSUME NEW c \in Conns, Handler(c) \/ Leave(c) PROVE Onward
  <2>1. told' = told
    BY <1>1, ZenonT(60) DEF Handler, CheckState, CheckCapacity, Register, CountUp, PeakLoad,
          PeakSwap, ReadPump, Unregister, CountDown, Leave
  <2>2. CASE CheckState(c) \/ CheckCapacity(c) \/ Register(c)
    <3>1. /\ conn[c] \in Unregistered /\ clients' \subseteq clients \union {c}
          /\ \A d \in Conns \ {c} : conn'[d] = conn[d]
      <4>1. conn[c] \in Unregistered
        BY <2>2, ZenonT(60) DEF CheckState, CheckCapacity, Register, Unregistered
      <4>2. \E to : conn' = [conn EXCEPT ![c] = to]
        BY <2>2, ZenonT(60) DEF CheckState, CheckCapacity, Register, Goto
      <4>3. clients' \subseteq clients \union {c}
        BY <2>2, ZenonT(60) DEF CheckState, CheckCapacity, Register
      <4> QED BY <4>1, <4>2, <4>3, <1>0
    <3> QED BY <2>1, <3>1, ZenonT(60) DEF Onward
  <2>3. CASE \/ CountUp(c) \/ PeakLoad(c) \/ PeakSwap(c) \/ ReadPump(c) \/ Leave(c)
             \/ Unregister(c) \/ CountDown(c)
    <3>1. \E to \in Positions \ Unregistered : conn' = [conn EXCEPT ![c] = to]
      BY <2>3, ZenonT(60) DEF CountUp, PeakLoad, PeakSwap, ReadPump, Leave, Unregister,
            CountDown, Goto, Positions, Unregistered
    <3>2. \A d \in Conns : conn[d] \notin Unregistered => conn'[d] \notin Unregistered
      BY <3>1, <1>0
    <3>3. clients' \subseteq clients
      BY <2>3, ZenonT(60) DEF CountUp, PeakLoad, PeakSwap, ReadPump, Leave, Unregister,
            CountDown
    <3> QED BY <2>1, <3>2, <3>3, ZenonT(60) DEF Onward
  <2> QED BY <1>1, <2>2, <2>3, ZenonT(60) DEF Handler
<1>2. ASSUME UNCHANGED <<conn, clients>>, told \subseteq told' PROVE Onward
  BY <1>2, ZenonT(60) DEF Onward
<1>3. ASSUME NEW c \in Conns, Replay(c) \/ Silent(c) \/ RecordPong(c) PROVE Onward
  <2>1. UNCHANGED <<conn, clients, told>>
    BY <1>3, ZenonT(60) DEF Replay, Silent, RecordPong, adm
  <2> QED BY <2>1, <1>2
<1>4. CASE HeartbeatLoop \/ EvictAll \/ Shutdown \/ Quiet \/ UNCHANGED vars
  <2>1. UNCHANGED <<conn, clients>>
    BY <1>4, ZenonT(60) DEF HeartbeatLoop, Scan, TimeOut, EvictAll, Shutdown, ShutdownDrain,
          ShutdownCollect, ShutdownTell, ShutdownDone, ShutdownExpires, Quiet, vars, adm
  <2>2. told \subseteq told'
    BY <1>4, ZenonT(60) DEF HeartbeatLoop, Scan, TimeOut, EvictAll, Shutdown, ShutdownDrain,
          ShutdownCollect, ShutdownTell, ShutdownDone, ShutdownExpires, Quiet, vars
  <2> QED BY <2>1, <2>2, <1>2
<1> QED BY <1>1, <1>3, <1>4, ZenonT(60) DEF Next

\* The clients of a request stay evicted.
LEMMA EvictedStays ==
    ASSUME Onward, NEW r \in ProbeType, Evicted(r, conn, clients, told)
    PROVE  Evicted(r, conn', clients', told')
<1>1. r.clients \subseteq Conns
  BY ProbeFields, ZenonT(60)
<1> QED BY <1>1, ZenonT(60) DEF Evicted, Onward

\* A step that changes request p to q, and nothing of the others.
LEMMA OneRequest ==
    ASSUME HealthInv, Onward, NEW p \in Probes, NEW q \in ProbeType, NEW s \in SeenType,
           UNCHANGED <<depends, age>>,
           probe' = [probe EXCEPT ![p] = q], seen' = [seen EXCEPT ![p] = s],
           Truthful(q, s, depends), Evicted(q, conn', clients', told')
    PROVE  HealthInv'
<1>1. /\ depends \subseteq Checks /\ age \in 0..Threshold
      /\ probe \in [Probes -> ProbeType] /\ seen \in [Probes -> SeenType]
  BY ZenonT(60) DEF HealthInv
<1>2. probe' \in [Probes -> ProbeType] /\ seen' \in [Probes -> SeenType]
  BY <1>1, ZenonT(60)
<1>3. ASSUME NEW d \in Probes
      PROVE  Truthful(probe'[d], seen'[d], depends) /\ Evicted(probe'[d], conn', clients', told')
  <2>1. CASE d = p
    <3>1. probe'[d] = q /\ seen'[d] = s
      BY <1>1, <2>1, ZenonT(60)
    <3> QED BY <3>1, ZenonT(60)
  <2>2. CASE d # p
    <3>1. probe'[d] = probe[d] /\ seen'[d] = seen[d] /\ probe[d] \in ProbeType
      BY <1>1, <2>2, ZenonT(60)
    <3>2. Truthful(probe[d], seen[d], depends) /\ Evicted(probe[d], conn, clients, told)
      BY ZenonT(60) DEF HealthInv
    <3>3. Evicted(probe[d], conn', clients', told')
      BY <3>1, <3>2, EvictedStays, ZenonT(60)
    <3> QED BY <3>1, <3>2, <3>3, ZenonT(60)
  <2> QED BY <2>1, <2>2
<1>4. depends' = depends /\ age' = age
  BY ZenonT(60)
<1> QED BY <1>1, <1>2, <1>3, <1>4, ZenonT(60) DEF HealthInv

\* The invariant in the initial state.
LEMMA HealthStarts == HealthInit => HealthInv
<1> SUFFICES ASSUME HealthInit PROVE HealthInv
  OBVIOUS
<1> DEFINE r == Probe("idle", FALSE, {}, {})
           s == [up |-> {}, gap |-> FALSE]
<1>1. Made(r, "idle", FALSE, {}, {})
  <2>1. /\ "idle" \in {"idle", "run", "ready", "not_ready"} /\ FALSE \in BOOLEAN
        /\ {} \in SUBSET Checks /\ {} \in SUBSET Conns
    BY ZenonT(60)
  <2> QED BY <2>1, ProbeMade, ZenonT(60)
<1>2. s \in SeenType
  BY ZenonT(60) DEF SeenType
<1>3. probe = [p \in Probes |-> r] /\ seen = [p \in Probes |-> s]
  BY ZenonT(60) DEF HealthInit
<1> HIDE DEF r, s
<1>4. r \in ProbeType /\ Truthful(r, s, depends) /\ Evicted(r, conn, clients, told)
  BY <1>1, ZenonT(60) DEF Made, Truthful, Evicted
<1>5. probe \in [Probes -> ProbeType] /\ seen \in [Probes -> SeenType]
      /\ \A p \in Probes : probe[p] = r /\ seen[p] = s
  BY <1>2, <1>3, <1>4, ZenonT(60)
<1>6. age \in 0..Threshold
  BY HealthAssumption DEF HealthInit
<1>7. depends \subseteq Checks
  BY ZenonT(60) DEF HealthInit
<1> QED BY <1>4, <1>5, <1>6, <1>7, ZenonT(60) DEF HealthInv

\* A check that is not answered has met a gap or the end of the context.
LEMMA GapSeen ==
    ASSUME NEW p, NEW c \in Checks, c \in probe[p].todo, Unanswered(p, c),
           Truthful(probe[p], seen[p], depends)
    PROVE  seen[p].gap \/ probe[p].ended
<1>1. probe[p].at = "run"
  BY ZenonT(60) DEF Truthful
<1>2. CASE c \notin depends
  BY <1>1, <1>2, ZenonT(60) DEF Truthful
<1>3. CASE c \in depends
  BY <1>3, ZenonT(60) DEF Unanswered
<1> QED BY <1>2, <1>3

\* A step of the readiness requests or of their dependencies.
LEMMA ProbeSteps == ASSUME HealthInv, GatewayInv, Onward, ProbeStep PROVE HealthInv'
<1>0. /\ depends \in SUBSET Checks /\ age \in 0..Threshold
      /\ probe \in [Probes -> ProbeType] /\ seen \in [Probes -> SeenType]
      /\ \A p \in Probes : /\ probe[p] \in ProbeType /\ seen[p] \in SeenType
                           /\ Truthful(probe[p], seen[p], depends)
                           /\ Evicted(probe[p], conn, clients, told)
  BY ZenonT(60) DEF HealthInv
<1>a. age' = age
  BY ZenonT(60) DEF ProbeStep, Dependency, Start, Abandon, Goroutines, Passes, Fails, PingFails,
        OnFailure, Answer, beatVars
<1>s. ASSUME NEW p \in Probes, seen' = seen PROVE seen' = [seen EXCEPT ![p] = seen[p]]
  BY <1>0, <1>s
<1>1. CASE Dependency
  <2>1. PICK E \in SUBSET Checks : Now(E)
    BY <1>0, <1>1, ZenonT(60) DEF Dependency
  <2> DEFINE t(p) == IF probe[p].at # "run" THEN seen[p]
                     ELSE [up |-> seen[p].up \union E, gap |-> seen[p].gap \/ E # Checks]
  <2>2. depends' = E /\ probe' = probe /\ seen' = [p \in Probes |-> t(p)]
    BY <2>1, ZenonT(60) DEF Now
  <2>3. ASSUME NEW p \in Probes PROVE t(p) \in SeenType /\ Truthful(probe[p], t(p), E)
    BY <1>0, RequestSees, ZenonT(60)
  <2> HIDE DEF t
  <2>4. seen' \in [Probes -> SeenType] /\ \A p \in Probes : seen'[p] = t(p)
    BY <2>2, <2>3, ZenonT(60)
  <2>5. \A p \in Probes : Evicted(probe[p], conn', clients', told')
    BY <1>0, EvictedStays, ZenonT(60)
  <2> QED BY <1>0, <1>a, <2>2, <2>3, <2>4, <2>5, ZenonT(60) DEF HealthInv
<1>2. ASSUME NEW p \in Probes, Start(p) PROVE HealthInv'
  <2> DEFINE q == Probe("run", FALSE, Checks, clients)
             s == [up |-> depends, gap |-> depends # Checks]
  <2>1. /\ probe' = [probe EXCEPT ![p] = q] /\ seen' = [seen EXCEPT ![p] = s]
        /\ UNCHANGED <<depends, vars>>
    BY <1>2, ZenonT(60) DEF Start
  <2>2. clients \in SUBSET Conns /\ \A c \in clients : conn[c] \in Mapped
    BY DEF GatewayInv
  <2>3. q \in ProbeType /\ s \in SeenType /\ Truthful(q, s, depends)
    BY <1>0, <2>2, RequestStarts, ZenonT(60)
  <2>4. q.clients = clients /\ q.failed = {}
    BY ZenonT(60) DEF Probe
  <2>5. UNCHANGED <<conn, clients, told>>
    BY <2>1, ZenonT(60) DEF vars, adm
  <2> HIDE DEF q, s
  <2>6. Evicted(q, conn', clients', told')
    BY <2>2, <2>4, <2>5, ZenonT(60) DEF Evicted, Mapped, Unregistered
  <2> QED BY <1>a, <2>1, <2>3, <2>6, OneRequest, ZenonT(60)
<1>3. ASSUME NEW p \in Probes, NEW q \in ProbeType, probe' = [probe EXCEPT ![p] = q],
             UNCHANGED <<depends, seen>>, Truthful(q, seen[p], depends),
             Evicted(q, conn', clients', told')
      PROVE  HealthInv'
  <2>1. seen' = [seen EXCEPT ![p] = seen[p]]
    BY <1>3, <1>s
  <2>2. seen[p] \in SeenType /\ depends' = depends
    BY <1>0, <1>3
  <2> QED BY <1>3, <1>a, <2>1, <2>2, OneRequest, ZenonT(60)
<1>4. ASSUME NEW p \in Probes, NEW q \in ProbeType, q.clients = probe[p].clients,
             q.failed = probe[p].failed
      PROVE  Evicted(q, conn', clients', told')
  <2>1. Evicted(q, conn, clients, told)
    BY <1>0, <1>4, ZenonT(60) DEF Evicted
  <2> QED BY <2>1, EvictedStays, ZenonT(60)
<1>5. ASSUME NEW p \in Probes, Abandon(p) PROVE HealthInv'
  <2>h. /\ probe[p] \in ProbeType /\ seen[p] \in SeenType /\ depends \in SUBSET Checks
        /\ Truthful(probe[p], seen[p], depends)
    BY <1>0, ZenonT(60)
  <2> DEFINE q == Abandoned(probe[p])
  <2>1. probe' = [probe EXCEPT ![p] = q] /\ UNCHANGED <<depends, seen>>
    BY <1>0, <1>5 DEF Abandon, Abandoned
  <2>2. /\ q \in ProbeType /\ Truthful(q, seen[p], depends)
        /\ q.clients = probe[p].clients /\ q.failed = probe[p].failed
    BY <2>h, RequestMarks, ZenonT(60)
  <2>3. Evicted(q, conn', clients', told')
    BY <1>4, <2>2, ZenonT(60)
  <2> QED BY <1>3, <2>1, <2>2, <2>3, ZenonT(60)
<1>6. ASSUME NEW p \in Probes, PingFails(p) PROVE HealthInv'
  <2>h. /\ probe[p] \in ProbeType /\ seen[p] \in SeenType /\ depends \in SUBSET Checks
        /\ Truthful(probe[p], seen[p], depends)
    BY <1>0, ZenonT(60)
  <2> DEFINE q == Pinged(probe[p])
  <2>1. probe' = [probe EXCEPT ![p] = q] /\ UNCHANGED <<depends, seen>>
    BY <1>0, <1>6 DEF PingFails, Pinged
  <2>2. "redis" \in probe[p].todo /\ Unanswered(p, "redis")
    BY <1>6, ZenonT(60) DEF PingFails
  <2>3. seen[p].gap \/ probe[p].ended
    <3>1. "redis" \in Checks
      BY <2>h, <2>2, ProbeFields, ZenonT(60)
    <3> QED BY <2>h, <2>2, <3>1, GapSeen, ZenonT(60)
  <2>4. /\ q \in ProbeType /\ Truthful(q, seen[p], depends)
        /\ q.clients = probe[p].clients /\ q.failed = probe[p].failed
    BY <2>h, <2>2, <2>3, RequestMarks, ZenonT(60)
  <2>5. Evicted(q, conn', clients', told')
    BY <1>4, <2>4, ZenonT(60)
  <2> QED BY <1>3, <2>1, <2>4, <2>5, ZenonT(60)
<1>7. ASSUME NEW p \in Probes, Answer(p) PROVE HealthInv'
  <2>h. /\ probe[p] \in ProbeType /\ seen[p] \in SeenType /\ depends \in SUBSET Checks
        /\ Truthful(probe[p], seen[p], depends)
    BY <1>0, ZenonT(60)
  <2> DEFINE q == Answered(probe[p])
  <2>1. /\ probe' = [probe EXCEPT ![p] = q] /\ UNCHANGED <<depends, seen>>
        /\ probe[p].at = "run" /\ probe[p].todo = {}
    BY <1>7, ZenonT(60) DEF Answer, Answered
  <2>2. q \in ProbeType /\ Truthful(q, seen[p], depends) /\ q.clients = {} /\ q.failed = {}
    BY <2>h, <2>1, RequestAnswers, ZenonT(60)
  <2>3. Evicted(q, conn', clients', told')
    BY <2>2, ZenonT(60) DEF Evicted
  <2> QED BY <1>3, <2>1, <2>2, <2>3, ZenonT(60)
<1>8. ASSUME NEW p \in Probes, NEW c \in Checks, NEW ok \in BOOLEAN, Record(p, c, ok),
             c \in probe[p].todo, UNCHANGED <<depends, seen>>,
             Justified(probe[p], seen[p], depends, c, ok),
             c = "redis" /\ ~ok => clients' \subseteq told'
      PROVE  HealthInv'
  <2>h. /\ probe[p] \in ProbeType /\ seen[p] \in SeenType /\ depends \in SUBSET Checks
        /\ Truthful(probe[p], seen[p], depends)
    BY <1>0, ZenonT(60)
  <2> DEFINE q == Recorded(probe[p], c, ok)
  <2>1. probe' = [probe EXCEPT ![p] = q]
    BY <1>8, ZenonT(60) DEF Record
  <2>2. RecordedFrom(q, probe[p], seen[p], depends, c, ok)
    <3>1. c \in probe[p].todo /\ ok \in BOOLEAN /\ Justified(probe[p], seen[p], depends, c, ok)
      BY <1>8, ZenonT(60)
    <3> QED BY <2>h, <3>1, RequestRecords, ZenonT(60)
  <2>3. Evicted(probe[p], conn', clients', told')
    BY <1>0, EvictedStays, ZenonT(60)
  <2>4. Evicted(q, conn', clients', told')
    BY <1>8, <2>2, <2>3, ZenonT(60) DEF Evicted, RecordedFrom
  <2> QED BY <1>3, <1>8, <2>1, <2>2, <2>4, ZenonT(60) DEF RecordedFrom
<1>9. ASSUME NEW p \in Probes, NEW c \in Checks, Passes(p, c) PROVE HealthInv'
  BY <1>8, <1>9, ZenonT(60) DEF Passes, Justified
<1>10. ASSUME NEW p \in Probes, NEW c \in Checks, Fails(p, c) PROVE HealthInv'
  <2>1. /\ c \in probe[p].todo /\ c # "redis" /\ Unanswered(p, c) /\ Record(p, c, FALSE)
        /\ UNCHANGED <<depends, seen>>
    BY <1>10, ZenonT(60) DEF Fails
  <2>2. seen[p].gap \/ probe[p].ended
    BY <1>0, <2>1, GapSeen, ZenonT(60)
  <2>3. Justified(probe[p], seen[p], depends, c, FALSE)
    BY <2>2, ZenonT(60) DEF Justified
  <2> QED BY <1>8, <2>1, <2>3, ZenonT(60)
<1>11. ASSUME NEW p \in Probes, OnFailure(p) PROVE HealthInv'
  <2>1. /\ probe[p].failing /\ Record(p, "redis", FALSE) /\ UNCHANGED <<depends, seen>>
        /\ told' = told \union clients /\ clients' = clients
    BY <1>11, ZenonT(60) DEF OnFailure, EvictAll, adm
  <2>2. "redis" \in probe[p].todo /\ probe[p].at = "run"
    BY <1>0, <2>1, ZenonT(60) DEF Truthful
  <2>3. "redis" \in Checks
    BY <1>0, <2>2, ProbeFields, ZenonT(60)
  <2>4. seen[p].gap \/ probe[p].ended
    BY <1>0, <2>1, <2>2, ZenonT(60) DEF Truthful
  <2>5. clients' \subseteq told'
    BY <2>1, ZenonT(60)
  <2>6. Justified(probe[p], seen[p], depends, "redis", FALSE)
    BY <2>4, ZenonT(60) DEF Justified
  <2> QED BY <1>8, <2>1, <2>2, <2>3, <2>5, <2>6, ZenonT(60)
<1> QED BY <1>1, <1>2, <1>5, <1>6, <1>7, <1>9, <1>10, <1>11, ZenonT(60) DEF ProbeStep, Goroutines

\* For any set of readiness requests beside any finite set of connections: a request is
\* answered as the dependencies were during it, and once a request has recorded the
\* failure of Redis no client from before it goes on (Registry.Run, RedisCheck).
THEOREM HealthCorrect == HealthSafety => []HealthSafe
<1>1. HealthSafety => []GatewayInv
  <2>1. HealthInit => Init
    BY DEF HealthInit
  <2> QED BY <2>1, HealthStepIsGatewayStep, GatewayInductive, PTL DEF HealthSafety, Spec
<1>2. HealthInv /\ GatewayInv /\ [HealthNext]_<<vars, healthVars>> => HealthInv'
  <2> SUFFICES ASSUME HealthInv, GatewayInv, [HealthNext]_<<vars, healthVars>>
               PROVE  HealthInv'
    OBVIOUS
  <2>1. Onward
    BY HealthStepIsGatewayStep, GatewayOnward, ZenonT(60)
  <2>2. ASSUME UNCHANGED probeVars, age' \in 0..Threshold PROVE HealthInv'
    <3>1. UNCHANGED <<depends, probe, seen>>
      BY <2>2, ZenonT(60) DEF probeVars
    <3>2. \A p \in Probes : Evicted(probe[p], conn', clients', told')
      BY <2>1, EvictedStays, ZenonT(60) DEF HealthInv
    <3> QED BY <2>2, <3>1, <3>2, ZenonT(60) DEF HealthInv
  <2>3. CASE ProbeStep
    BY <2>1, <2>3, ProbeSteps, ZenonT(60)
  <2>4. CASE GatewayStep \/ UNCHANGED <<vars, healthVars>>
    <3>1. UNCHANGED healthVars
      BY <2>4, ZenonT(60) DEF GatewayStep
    <3>2. UNCHANGED probeVars /\ age' = age
      BY <3>1, ZenonT(60) DEF healthVars, beatVars
    <3> QED BY <2>2, <3>2, ZenonT(60) DEF HealthInv
  <2>5. CASE BeatStep
    <3>1. UNCHANGED probeVars /\ (age' = 0 \/ age' = age \/ (age < Threshold /\ age' = age + 1))
      BY <2>5, ZenonT(60) DEF BeatStep, Mark, Tick, Stick, handleLiveness
    <3>2. age \in 0..Threshold /\ Threshold \in Nat
      BY HealthAssumption DEF HealthInv
    <3>3. age' \in 0..Threshold
      BY <3>1, <3>2
    <3> QED BY <2>2, <3>1, <3>3, ZenonT(60)
  <2> QED BY <2>3, <2>4, <2>5, ZenonT(60) DEF HealthNext
<1>3. HealthInv => HealthSafe
  <2> SUFFICES ASSUME HealthInv PROVE HealthSafe
    OBVIOUS
  <2>1. ASSUME NEW p \in Probes
        PROVE  /\ probe[p].todo \union probe[p].failed \subseteq Checks
               /\ probe[p].at \in {"idle", "run", "ready", "not_ready"}
    <3>1. probe[p] \in ProbeType
      BY ZenonT(60) DEF HealthInv
    <3> QED BY <3>1, ProbeFields, ZenonT(60)
  <2>2. HealthTypes
    BY <2>1, ZenonT(60) DEF HealthTypes, HealthInv
  <2>3. AnswersTrue
    BY ZenonT(60) DEF AnswersTrue, HealthInv, Truthful
  <2>4. FailureEvicts
    BY ZenonT(60) DEF FailureEvicts, HealthInv, Evicted
  <2> QED BY <2>2, <2>3, <2>4, ZenonT(60) DEF HealthSafe
<1> QED BY <1>1, <1>2, <1>3, HealthStarts, PTL DEF HealthSafety
=============================================================================
