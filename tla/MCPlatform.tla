----------------------------- MODULE MCPlatform -----------------------------
(***************************************************************************)
(* The process-level machinery on small instances.  A behaviour explores   *)
(* one part: the worker pool with an uncancelled parent ("drain") or with  *)
(* a parent that is cancelled ("cancel"), the lifecycle manager booting    *)
(* three components, one of them a group ("lifecycle"), the server process *)
(* in any configuration ("app"), or what the process is fed and guarded by:*)
(* the feed with its adapters ("feed"), the simulator ("simulator") and the*)
(* rate limiter ("limits").                                                *)
(***************************************************************************)
EXTENDS WorkerPool, LifecycleManager

VARIABLES part,
    cfg, aphase, astarted, up, left, signalled, expired, subscriber, server, pipeline,
    healthy, err,
    configs, run, subs, gen, out, outClosed, fwd, merged, mergedClosed, pipe, seq,
    published, fcancelled,
    unlimited, symbols, prices, sstarted, gens, sout, sclosed, smade, got, droppedCount,
    raced, scalls, scancelled,
    cfgMax, entries, current, call, clock, granted, holds, requests

Cancelled == INSTANCE WorkerPool WITH ParentCancel <- TRUE, MaxCalls <- MaxCalls + 1

\* What the lifecycle manager boots: one component is a group.
MCBoot == <<{"store"}, {"gateway", "feed"}, {"server"}>>

App == INSTANCE AppRun WITH
    Configurations <- [mode : {"monolith", "gateway", "publisher"}, wal : BOOLEAN,
                       redis : BOOLEAN, database : BOOLEAN, feed : BOOLEAN,
                       discovery : BOOLEAN],
    phase <- aphase, started <- astarted

\* A spelling of a symbol.
Sym(name, lower, slash) == [name |-> name, lower |-> lower, slash |-> slash]

\* Two adapters whose symbols overlap, one after a disabled one, and none.
MCConfigs ==
    {<<[kind |-> "crypto", enabled |-> TRUE,
        symbols |-> <<Sym("b", FALSE, TRUE), Sym("a", FALSE, FALSE)>>],
       [kind |-> "simulator", enabled |-> TRUE,
        symbols |-> <<Sym("b", TRUE, FALSE), Sym("", FALSE, FALSE)>>]>>,
     <<[kind |-> "nasdaq", enabled |-> FALSE, symbols |-> <<Sym("a", FALSE, FALSE)>>],
       [kind |-> "nyse", enabled |-> TRUE, symbols |-> <<Sym("b", TRUE, FALSE)>>]>>,
     <<>>}

Quotes == INSTANCE Feed WITH
    ConfigSets <- MCConfigs, OutCap <- 1, MergedCap <- 1, MaxTicks <- 1, cancelled <- fcancelled

Sim == INSTANCE Simulator WITH
    Symbols <- {"a", "b"}, OutCap <- 1, MaxCalls <- 4, MaxQuotes <- 3,
    started <- sstarted, out <- sout, closed <- sclosed, made <- smade, calls <- scalls,
    cancelled <- scancelled

Limits == INSTANCE RateLimiter WITH
    Callers <- {"p", "q"}, Ops <- {"unsubscribe", "subscribe", "subscription", "both"},
    Rate <- [connect |-> 0, subscribe |-> 1, unsubscribe |-> 1],
    Burst <- [connect |-> 0, subscribe |-> 2, unsubscribe |-> 1],
    MaxSubs <- {0, 1}, ClientTTL <- 0, Sizes <- {1, 2},
    MaxRequests <- 3, MaxTime <- 1, MaxEntries <- 2

\* The conditions of the theorems LifecycleOrdered and LimiterCorrect hold here.
ASSUME PlatformAssumption == Registered /\ Limits!Configured

appVars == <<cfg, aphase, astarted, up, left, signalled, expired, subscriber, server,
             pipeline, healthy, err>>
feedVars == <<configs, run, subs, gen, out, outClosed, fwd, merged, mergedClosed, pipe, seq,
              published, fcancelled>>
simVars == <<unlimited, symbols, prices, sstarted, gens, sout, sclosed, smade, got, droppedCount,
             raced, scalls, scancelled>>
limitVars == <<cfgMax, entries, current, call, clock, granted, holds, requests>>
edgeVars == <<feedVars, simVars, limitVars>>
allVars == <<part, vars, lifeVars, appVars, edgeVars>>

MCInit ==
    /\ part \in {"drain", "cancel", "lifecycle", "app", "feed", "simulator", "limits"}
    /\ Init /\ LifeInit /\ App!Init /\ Quotes!Init /\ Sim!Init /\ Limits!Init
    /\ (part # "feed" => configs = <<>>) /\ (part # "simulator" => ~unlimited)
    /\ (part # "limits" => cfgMax = 0)
    /\ part # "app" => cfg = [mode |-> "monolith", wal |-> TRUE, redis |-> TRUE,
                              database |-> TRUE, feed |-> TRUE, discovery |-> TRUE]

\* Nothing is left to do: the boot failed or everything is stopped, Run returned,
\* or the bounds of the feed, the simulator and the limiter are reached.
Ended ==
    \/ /\ part = "lifecycle" /\ phase \in {"failed", "stopped"}
       /\ \A p \in Parts : life[p] \in {"off", "on"}
    \/ part = "app" /\ aphase \in {"returned", "panicked"}
    \/ part \in {"feed", "simulator", "limits"}

MCNext ==
    /\ UNCHANGED part
    /\ \/ part = "drain" /\ Next /\ UNCHANGED <<lifeVars, appVars, edgeVars>>
       \/ part = "cancel" /\ Cancelled!Next /\ UNCHANGED <<lifeVars, appVars, edgeVars>>
       \/ part = "lifecycle" /\ LifeNext /\ UNCHANGED <<vars, appVars, edgeVars>>
       \/ part = "app" /\ App!Next /\ UNCHANGED <<vars, lifeVars, edgeVars>>
       \/ part = "feed" /\ Quotes!Next /\ UNCHANGED <<vars, lifeVars, appVars, simVars, limitVars>>
       \/ part = "simulator" /\ Sim!Next /\ UNCHANGED <<vars, lifeVars, appVars, feedVars, limitVars>>
       \/ part = "limits" /\ Limits!Next /\ UNCHANGED <<vars, lifeVars, appVars, feedVars, simVars>>
       \/ Ended /\ UNCHANGED <<vars, lifeVars, appVars, edgeVars>>

\* The fairness of the parts: a pool goroutine that can step does, the manager's
\* timers expire, and the server and the pipeline see a done context.
MCSpec ==
    /\ MCInit /\ [][MCNext]_allVars
    /\ \A w \in Workers : WF_vars(part \in {"drain", "cancel"} /\ Worker(w))
    /\ \A p \in Producers : WF_vars(part \in {"drain", "cancel"}
                                    /\ (EnqueueCount(p) \/ EnqueueSend(p)))
    /\ WF_vars(part \in {"drain", "cancel"} /\ (ShutdownClose \/ ShutdownDone))
    /\ WF_lifeVars(part = "lifecycle" /\ Manager)
    /\ WF_appVars(part = "app" /\ App!Run)
    /\ WF_appVars(part = "app" /\ App!runCtxDone /\ App!ServerEnds)
    /\ WF_appVars(part = "app" /\ App!runCtxDone /\ App!PipelineEnds)

\* The process's type invariant: what is left to stop is a prefix of what was
\* started, so components stop in reverse (App.shutdown).
AppTypes == App!TypeOK

\* A component that is up has all it was constructed with up (App.wire).
UsesUp == App!UsesUp

\* Connections are served only while all is started (App.Run).
ServesComplete == App!ServesComplete

\* No component is stopped under a running pipeline (App.Run).
PipelineSafe == App!PipelineSafe

\* A Run that returned nil has stopped everything (App.Run, App.shutdown).
CleanExit == App!CleanExit

\* After a signal Run returns (App.Run).
SignalEnds == App!SignalEnds


\* The pool's workers exit and its queue stays closed, StartAll and StopAll return,
\* and a signal ends Run.
PlatformEnds == ClosedStaysClosed /\ WorkersExit /\ ManagerReturns /\ SignalEnds

\* Whatever adapters, forwarders and cancellation do, nothing is sent on the closed
\* merged channel, each adapter's quotes arrive complete and in order, and all
\* spellings of a symbol share one gap-free numbering; the simulator counts every
\* quote, and its list and its prices agree but where a tick raced an Unsubscribe
\* (Manager.Run, Normalize, Pipeline.Run, Simulator).
FeedsExact == Quotes!FeedExact /\ Sim!SimulatorExact

\* No bucket lets through more than its burst and rate allow, refunds included, and
\* the subscription counter equals the subscriptions held and stays within the cap
\* (Bucket, AllowAndSubscribe, ReleaseSubscription).
LimitsHold == Limits!LimitsHold
=============================================================================
