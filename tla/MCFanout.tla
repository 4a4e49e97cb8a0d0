------------------------------ MODULE MCFanout ------------------------------
(***************************************************************************)
(* The fan-out side on small instances.  The components share no state     *)
(* once the topic manager is its membership relation, so a behaviour       *)
(* explores one of them: the router with two callers ("pair"), with one    *)
(* ("solo") or with clients that leave by their handle ("handle"); the     *)
(* topic manager with a client that never leaves ("keeper") or with all of *)
(* them coming and going ("churn"); or the in-memory bus ("bus").          *)
(***************************************************************************)
EXTENDS DistributedRouter

CONSTANTS c1, t1, w1, w2, a, b, d
VARIABLES part, subs, sub, topics, cells, active, th, made,
          arrays, list, lock, snapshot, busSub, pub, published, panicked

topicVars == <<subs, sub, topics, cells, active, th, made>>
busVars == <<arrays, list, lock, snapshot, busSub, pub, published, panicked>>

Solo == INSTANCE DistributedRouter WITH MaxCalls <- 6
Handle == INSTANCE DistributedRouter
             WITH ViaHandle <- TRUE, Resubscribe <- TRUE, MaxCalls <- 4
Keeper == INSTANCE TopicManager
             WITH Threads <- {w1, w2}, IDs <- {a, b, d}, Leavers <- {b, d},
                  Topics <- {t1}, MaxCalls <- 3, calls <- made
Churn == INSTANCE TopicManager
             WITH Threads <- {w1, w2}, IDs <- {a, b}, Leavers <- {a, b},
                  MaxCalls <- 3, calls <- made

Bus == INSTANCE MemoryBus
          WITH MaxSubs <- 3, Pubs <- {"p"}, Buffer <- 1, MaxEvents <- 1, sub <- busSub

routing == part \in {"pair", "solo", "handle"}

MCInit == /\ part \in {"pair", "solo", "handle", "keeper", "churn", "bus"}
          /\ Init /\ Bus!Init
          /\ IF part = "keeper" THEN Keeper!Init ELSE Churn!Init

MCNext ==
    /\ UNCHANGED part
    /\ \/ part = "pair" /\ Next /\ UNCHANGED <<topicVars, busVars>>
       \/ /\ part = "solo" /\ Solo!Next /\ UNCHANGED <<topicVars, busVars>>
          /\ \A c \in Clients \ {c1} : pc'[c] = "idle"
       \/ part = "handle" /\ Handle!Next /\ UNCHANGED <<topicVars, busVars>>
       \/ part = "keeper" /\ Keeper!Next /\ UNCHANGED <<vars, busVars>>
       \/ part = "churn" /\ Churn!Next /\ UNCHANGED <<vars, busVars>>
       \/ part = "bus" /\ Bus!Next /\ UNCHANGED <<vars, topicVars>>

\* Each part under the fairness of its own specification.
MCSpec ==
    /\ MCInit /\ [][MCNext]_<<part, vars, topicVars, busVars>>
    /\ WF_vars(routing /\ Start)
    /\ \A c \in Clients : WF_vars(routing /\ ClientStep(c))
    /\ \A p \in Procs : WF_vars(routing /\ Fire(p))
    /\ \A t \in Topics : WF_vars(routing /\ Reconcile(t))
    /\ \A w \in {w1, w2} : WF_topicVars(part = "keeper" /\ Keeper!Step(w))
    /\ \A w \in {w1, w2} : WF_topicVars(part = "churn" /\ Churn!Step(w))

\* The router's counts are exact as long as clients leave through the router
\* and do not subscribe twice (symbolState.localCount).
CountExactBetweenCalls == part # "handle" => CountExact

\* With one caller the Redis handle follows the router (fireOnChange,
\* Subscriber.Subscribe, Unsubscribe and Start).
RedisFollowsOneCaller == part = "solo" => RedisFollows

\* A channel once joined serves clients that leave by their handle and come
\* back (handle.Cancel, Subscriber.Start).
ServedAfterCancel == part = "handle" => ServedAgain

\* Objects, cells and mutexes of the topic manager (memory.go).
TopicTypes == IF part = "keeper" THEN Keeper!TypeOK ELSE Churn!TypeOK

\* A publish on a topic that never empties reaches every subscriber it has
\* from beginning to end (MemoryManager.Publish against Subscribe).
PublishReachesKept == part = "keeper" => Keeper!PublishReachesAll

\* No copy-on-write list holds a subscriber twice (MemoryManager.Subscribe).
ListedOnce == Keeper!ListedOnce

\* Between calls the SubscribersActive gauge is the number of clients.
GaugeExact == IF part = "keeper" THEN Keeper!GaugeExact ELSE Churn!GaugeExact

\* The counts and the Redis channels follow the clients, each under the restriction of
\* its part (updateCount, fireOnChange, Subscriber.Start).
RouterFollows == CountExactBetweenCalls /\ RedisFollowsOneCaller /\ ServedAfterCancel

\* The copy-on-write lists are exact: a publish reaches whoever stays, nobody is
\* listed twice, and the gauge counts the clients (MemoryManager); so are the shared
\* slices of the in-memory bus, as far as nobody cancels meanwhile (MemoryBus), and
\* the router's counts and channels.
TopicsExact ==
    /\ TopicTypes /\ PublishReachesKept /\ ListedOnce /\ GaugeExact /\ Bus!Safe
    /\ RouterFollows

\* Every call of the router and of the topic manager returns (its CAS loops and
\* subscriber mutex).  Only one of the two has calls in a behaviour, so a client of
\* the one and a thread of the other share a formula; they stand for all clients and
\* threads, which are interchangeable.
AllCallsReturn ==
    (pc[c1] # "idle" \/ th[w1].pc # "idle") ~> (pc[c1] = "idle" /\ th[w1].pc = "idle")
=============================================================================
