------------------------------- MODULE AppRun -------------------------------
(***************************************************************************)
(* The life of the server process (internal/app): components registered by *)
(* wire according to the configuration, started in ascending order, then   *)
(* the HTTP server and the feed pipeline until a signal, then the          *)
(* components stopped in reverse.  sort.Slice is not stable, so components *)
(* of equal order start in either order.  Stop functions are taken to       *)
(* return.                                                                 *)
(***************************************************************************)
EXTENDS Integers, SequencesExt

CONSTANT Configurations    \* records: mode, wal (it could be opened), redis,
                           \* database, feed, discovery

VARIABLES
    cfg,        \* the configuration
    phase,      \* "startup", "run", "shutdown", "returned", "panicked"
    started,    \* a.started
    up,         \* components started and not stopped
    left,       \* components still to be stopped
    signalled,  \* the context of Run is cancelled
    expired,    \* the startup context has expired
    subscriber, \* redisSub runs
    server,     \* "off", "serving", "closed", "failed"
    pipeline,   \* "off", "running", "done"
    healthy,    \* gatewayHealthy
    err         \* Run returned an error

vars == <<cfg, phase, started, up, left, signalled, expired, subscriber, server,
          pipeline, healthy, err>>

gateway(c) == c.mode \in {"monolith", "gateway"}
feeding(c) == c.mode \in {"monolith", "publisher"} /\ c.feed

\* A registered component: its startup order, and the components whose objects
\* its own was constructed with.  Callbacks into later components, which wire
\* guards by nil tests, are not uses.
component(n, o, u) == [name |-> n, order |-> o, uses |-> u]
When(b, set) == IF b THEN set ELSE {}

-----------------------------------------------------------------------------
(* wire, section by section                                                *)

initTracing == {component("tracing", 5, {})}
wireMetrics == {component("metrics", 10, {})}
wireEventLog(c) == When(c.database, {component("event-log", 11, {})})
wireTopicManager(c) == When(gateway(c), {component("topic-manager", 20, {})})
wireWAL(c) == When(c.wal, {component("wal", 12, {})})
wireSnapshot(c) == When(gateway(c), {component("snapshot-service", 25, {"wal", "event-log"})})
wireGateway(c) ==
    When(gateway(c),
         {component("websocket-gateway", 30,
                    {"topic-manager", "distributed-router-background",
                     "snapshot-service", "event-log", "wal"})})
wireExchange(c) == When(feeding(c), {component("exchange-manager", 40, {})})
wireRedisPublisher(c) == When(feeding(c) /\ c.redis, {component("redis-publisher", 15, {})})
wirePipeline(c) ==
    When(feeding(c),
         {component("pipeline", 50,
                    {"exchange-manager", "event-log", "wal", "snapshot-service",
                     IF c.redis THEN "redis-publisher" ELSE "topic-manager"})})
wireSubscriber(c) ==
    When(gateway(c) /\ c.redis, {component("redis-subscriber", 25, {"topic-manager"})})
wireRouter(c) ==
    When(gateway(c) /\ c.redis,
         {component("distributed-router-background", 26, {"topic-manager"})})
wireDiscovery(c) ==
    When(gateway(c) /\ c.discovery /\ c.redis,
         {component("service-discovery", 28, {}),
          component("routing-engine", 29, {"service-discovery"})})
wireServer(c) ==
    {component("http-server", 60, {"websocket-gateway", "service-discovery", "event-log"})}

wire(c) ==
    initTracing \union wireMetrics \union wireEventLog(c) \union wireTopicManager(c)
    \union wireWAL(c) \union wireSnapshot(c) \union wireGateway(c)
    \union wireExchange(c) \union wireRedisPublisher(c) \union wirePipeline(c)
    \union wireSubscriber(c) \union wireRouter(c) \union wireDiscovery(c)
    \union wireServer(c)

Init ==
    /\ cfg \in Configurations
    /\ phase = "startup" /\ started = <<>> /\ up = {} /\ left = <<>>
    /\ signalled = FALSE /\ expired = FALSE /\ subscriber = FALSE
    /\ server = "off" /\ pipeline = "off" /\ healthy = FALSE /\ err = FALSE

\* Registered components that were not started.
remaining == wire(cfg) \ up
Started(c) == started' = Append(started, c) /\ up' = up \union {c}

\* What sortComponents may put next.
Nexts == {c \in remaining : \A d \in remaining : c.order <= d.order}

-----------------------------------------------------------------------------

\* startup: the next component's start returns nil.
StartComponent ==
    /\ phase = "startup" /\ \E c \in Nexts : Started(c)
    /\ UNCHANGED <<cfg, phase, left, signalled, expired, subscriber, server, pipeline,
                   healthy, err>>

\* ... or an error (migrations of the event log, discovery register): Run
\* returns it, and nothing is stopped.
StartFails ==
    /\ phase = "startup" /\ \E c \in Nexts : c.name \in {"event-log", "service-discovery"}
    /\ phase' = "returned" /\ err' = TRUE
    /\ UNCHANGED <<cfg, started, up, left, signalled, expired, subscriber, server,
                   pipeline, healthy>>

\* wire keeps the failed manager in an interface variable, whose nil tests then
\* succeed: recovery reads it and the pipeline's publisher appends to it.
NilLogPanics ==
    /\ ~cfg.wal /\ phase' = "panicked" /\ server' = "off" /\ pipeline' = "off"
    /\ \/ phase = "startup" /\ \E c \in Nexts : c.name = "snapshot-service"
       \/ phase = "run" /\ pipeline = "running"
    /\ subscriber' = FALSE
    /\ UNCHANGED <<cfg, started, up, left, signalled, expired, healthy, err>>

\* The rest of Run up to g.Wait: subscriber and heartbeat, then the goroutines.
StartRunning ==
    /\ phase = "startup" /\ remaining = {} /\ phase' = "run"
    /\ subscriber' = (gateway(cfg) /\ cfg.redis) /\ server' = "serving" /\ healthy' = TRUE
    /\ pipeline' = IF feeding(cfg) THEN "running" ELSE "off"
    /\ UNCHANGED <<cfg, started, up, left, signalled, expired, err>>

\* The startup context expires; the loops started with it end.
StartContextExpires ==
    /\ phase \notin {"returned", "panicked"} /\ ~expired /\ expired' = TRUE
    /\ UNCHANGED <<cfg, phase, started, up, left, signalled, subscriber, server,
                   pipeline, healthy, err>>

Signal ==
    /\ phase \notin {"returned", "panicked"} /\ ~signalled /\ signalled' = TRUE
    /\ UNCHANGED <<cfg, phase, started, up, left, expired, subscriber, server, pipeline,
                   healthy, err>>

\* Mutation: the group's context does not descend from that of the signal.
runCtxDone_Background == server = "failed"

runCtxDone == signalled \/ server = "failed"

\* Serve returns after Shutdown, or with an accept error.
ServerEnds ==
    /\ phase = "run" /\ server = "serving"
    /\ \/ runCtxDone /\ server' = "closed"
       \/ server' = "failed"
    /\ UNCHANGED <<cfg, phase, started, up, left, signalled, expired, subscriber,
                   pipeline, healthy, err>>

\* Pipeline.Run returns nil: its context is done, or every adapter has ended.
PipelineEnds ==
    /\ phase = "run" /\ pipeline = "running" /\ pipeline' = "done"
    /\ UNCHANGED <<cfg, phase, started, up, left, signalled, expired, subscriber,
                   server, healthy, err>>


\* g.Wait: an error is returned at once, otherwise shutdown begins.
WaitReturns ==
    /\ phase = "run" /\ server \in {"closed", "failed"} /\ pipeline # "running"
    /\ IF server = "failed"
       THEN phase' = "returned" /\ err' = TRUE /\ UNCHANGED <<healthy, left>>
       ELSE phase' = "shutdown" /\ healthy' = FALSE /\ left' = started /\ UNCHANGED err
    /\ UNCHANGED <<cfg, started, up, signalled, expired, subscriber, server, pipeline>>

\* shutdown: the latest component's stop; its error is logged.
StopComponent ==
    /\ phase = "shutdown" /\ left # <<>>
    /\ left' = Front(left) /\ up' = up \ {Last(left)}
    /\ subscriber' = (subscriber /\ Last(left).name # "redis-subscriber")
    /\ UNCHANGED <<cfg, phase, started, signalled, expired, server, pipeline, healthy,
                   err>>

RunReturns ==
    /\ phase = "shutdown" /\ left = <<>> /\ phase' = "returned"
    /\ UNCHANGED <<cfg, started, up, left, signalled, expired, subscriber, server,
                   pipeline, healthy, err>>

Run == StartComponent \/ StartRunning \/ WaitReturns \/ StopComponent \/ RunReturns

Next ==
    \/ Run \/ StartFails \/ NilLogPanics
    \/ StartContextExpires \/ Signal \/ ServerEnds \/ PipelineEnds

Spec == Init /\ [][Next]_vars

\* Goroutines are scheduled; the server and the pipeline see a done context.
FairSpec ==
    /\ Spec /\ WF_vars(Run)
    /\ WF_vars(runCtxDone /\ ServerEnds) /\ WF_vars(runCtxDone /\ PipelineEnds)

-----------------------------------------------------------------------------

\* Type invariant of the process.
TypeOK ==
    /\ phase \in {"startup", "run", "shutdown", "returned", "panicked"}
    /\ up \subseteq wire(cfg) /\ IsPrefix(left, started)
    /\ server \in {"off", "serving", "closed", "failed"}
    /\ pipeline \in {"off", "running", "done"}
    /\ \A b \in {signalled, expired, subscriber, healthy, err} : b \in BOOLEAN

\* A component that is up has all it was constructed with up, during startup and
\* shutdown and in every configuration ("dependency order", wire).
UsesUp == \A c \in up : \A d \in wire(cfg) : d.name \in c.uses => d \in up

\* Connections are served only while everything is started and the Redis
\* subscriber runs, so that a client's first subscription finds its handle.
ServesComplete ==
    server = "serving" =>
        up = wire(cfg) /\ (gateway(cfg) /\ cfg.redis => subscriber)

\* No component is stopped under a running pipeline.
PipelineSafe == pipeline = "running" => up = wire(cfg)

\* A Run that returned nil has stopped everything it started.
CleanExit == phase = "returned" /\ ~err => up = {} /\ ~subscriber /\ ~healthy

\* After a signal the process ends, from wherever it is.
SignalEnds == signalled ~> phase \in {"returned", "panicked"}

=============================================================================
