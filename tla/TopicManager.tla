---------------------------- MODULE TopicManager ----------------------------
(***************************************************************************)
(* The in-memory topic manager (internal/topicmanager/memory.go): clients  *)
(* are registered in a locked map, each topic has an atomic pointer to an  *)
(* immutable list of subscribers, and Subscribe and Unsubscribe replace    *)
(* the list by compare-and-swap while Publish reads it without a lock.     *)
(* An action is one critical section or one atomic access.                 *)
(***************************************************************************)
EXTENDS Integers, Sequences, FiniteSets, Functions, TLAPS

CONSTANTS
    Threads,   \* goroutines that call the manager
    IDs,       \* subscriber identifiers
    Leavers,   \* identifiers that unsubscribe; the others already subscribed
    Topics,
    MaxCalls   \* bound: calls made

VARIABLES
    subs,      \* subShard.subs: identifier -> subscriber object
    sub,       \* the subscriber objects created so far
    topics,    \* shard.topics (sync.Map): topic -> cell
    cells,     \* the atomic pointers; a nil list is <<>>
    active,    \* the SubscribersActive gauge
    th,        \* per goroutine: position and local variables
    calls      \* calls made so far

vars == <<subs, sub, topics, cells, active, th, calls>>

NoID == CHOOSE i \in IDs : TRUE
NoTopic == CHOOSE t \in Topics : TRUE

Idle == [pc |-> "idle", id |-> NoID, ts |-> {}, t |-> NoTopic, o |-> 0, cell |-> 0,
         list |-> <<>>, fresh |-> FALSE, must |-> {}, seen |-> <<>>]

\* The objects registered and subscribed to t.
Members(t) == {subs[i] : i \in {j \in DOMAIN subs : t \in sub[subs[j]].topics}}

\* The orders in which the members of S may have come.
Orders(S) ==
    {f \in UNION {[1..n -> S] : n \in 0..Cardinality(S)} :
        IsInjective(f) /\ Range(f) = S}

\* The program after each identifier that never leaves has subscribed to
\* every topic (the empty manager when all of them may leave).
Init ==
    \E keepers \in Orders(IDs \ Leavers), order \in Orders(Topics) :
        /\ sub = [k \in DOMAIN keepers |->
                     [topics |-> Topics, closed |-> FALSE, mu |-> FALSE]]
        /\ subs = [i \in IDs \ Leavers |->
                      CHOOSE k \in DOMAIN keepers : keepers[k] = i]
        /\ topics = [t \in IF IDs \subseteq Leavers THEN {} ELSE Topics |->
                        CHOOSE n \in DOMAIN order : order[n] = t]
        /\ cells = IF IDs \subseteq Leavers THEN <<>>
                   ELSE [n \in DOMAIN order |-> [k \in DOMAIN keepers |-> k]]
        /\ active = Cardinality(IDs \ Leavers)
        /\ th = [w \in Threads |-> Idle]
        /\ calls = 0

With(f, k, v) == [x \in DOMAIN f \union {k} |-> IF x = k THEN v ELSE f[x]]
Without(f, k) == [x \in DOMAIN f \ {k} |-> f[x]]

-----------------------------------------------------------------------------
(* Subscribe                                                               *)

\* The read-locked lookup of the identifier.
SubscribeCall(w) ==
    /\ th[w].pc = "idle" /\ calls < MaxCalls
    /\ \E i \in IDs, ts \in SUBSET Topics \ {{}} :
         th' = [th EXCEPT ![w] =
            IF i \in DOMAIN subs
            THEN [Idle EXCEPT !.pc = "lock", !.id = i, !.ts = ts, !.o = subs[i]]
            ELSE [Idle EXCEPT !.pc = "insert", !.id = i, !.ts = ts]]
    /\ calls' = calls + 1
    /\ UNCHANGED <<subs, sub, topics, cells, active>>

\* The double-checked insertion of a new subscriber object.
SubscribeInsert(w) ==
    /\ th[w].pc = "insert"
    /\ IF th[w].id \in DOMAIN subs
       THEN /\ th' = [th EXCEPT ![w].pc = "lock", ![w].o = subs[th[w].id]]
            /\ UNCHANGED <<subs, sub>>
       ELSE /\ sub' = Append(sub, [topics |-> {}, closed |-> FALSE, mu |-> FALSE])
            /\ subs' = With(subs, th[w].id, Len(sub) + 1)
            /\ th' = [th EXCEPT ![w].pc = "lock", ![w].o = Len(sub) + 1,
                                ![w].fresh = TRUE]
    /\ UNCHANGED <<topics, cells, active, calls>>

SubscribeLock(w) ==
    /\ th[w].pc = "lock" /\ ~sub[th[w].o].mu
    /\ sub' = [sub EXCEPT ![th[w].o].mu = TRUE]
    /\ th' = [th EXCEPT ![w].pc = "next"]
    /\ UNCHANGED <<subs, topics, cells, active, calls>>

\* The next topic of the loop; one the subscriber already has is skipped.
SubscribeNext(w) ==
    /\ th[w].pc = "next"
    /\ \E t \in th[w].ts :
         th' = IF t \in sub[th[w].o].topics
               THEN [th EXCEPT ![w].ts = @ \ {t}]
               ELSE [th EXCEPT ![w].pc = "find", ![w].t = t]
    /\ UNCHANGED <<subs, sub, topics, cells, active, calls>>

SubscribeFind(w) ==
    /\ th[w].pc = "find"
    /\ th' = IF th[w].t \in DOMAIN topics
             THEN [th EXCEPT ![w].pc = "load", ![w].cell = topics[th[w].t]]
             ELSE [th EXCEPT ![w].pc = "store"]
    /\ UNCHANGED <<subs, sub, topics, cells, active, calls>>

\* LoadOrStore of a new cell; another goroutine may have stored one first.
SubscribeStore(w) ==
    /\ th[w].pc = "store"
    /\ IF th[w].t \in DOMAIN topics
       THEN /\ th' = [th EXCEPT ![w].pc = "find"]
            /\ UNCHANGED <<sub, topics, cells>>
       ELSE /\ cells' = Append(cells, <<th[w].o>>)
            /\ topics' = With(topics, th[w].t, Len(cells) + 1)
            /\ sub' = [sub EXCEPT ![th[w].o].topics = @ \union {th[w].t}]
            /\ th' = [th EXCEPT ![w].pc = "next", ![w].ts = @ \ {th[w].t}]
    /\ UNCHANGED <<subs, active, calls>>

SubscribeLoadList(w) ==
    /\ th[w].pc = "load"
    /\ th' = [th EXCEPT ![w].pc = "cas", ![w].list = cells[th[w].cell]]
    /\ UNCHANGED <<subs, sub, topics, cells, active, calls>>

\* Mutation: the new list is stored whatever the cell holds by now.
SubscribeCAS_Store(w) ==
    /\ th[w].pc = "cas"
    /\ cells' = [cells EXCEPT ![th[w].cell] = Append(th[w].list, th[w].o)]
    /\ sub' = [sub EXCEPT ![th[w].o].topics = @ \union {th[w].t}]
    /\ th' = [th EXCEPT ![w].pc = "next", ![w].ts = @ \ {th[w].t}]
    /\ UNCHANGED <<subs, topics, active, calls>>

SubscribeCAS(w) ==
    /\ th[w].pc = "cas"
    /\ IF cells[th[w].cell] = th[w].list
       THEN /\ cells' = [cells EXCEPT ![th[w].cell] = Append(@, th[w].o)]
            /\ sub' = [sub EXCEPT ![th[w].o].topics = @ \union {th[w].t}]
            /\ th' = [th EXCEPT ![w].pc = "next", ![w].ts = @ \ {th[w].t}]
       ELSE /\ th' = [th EXCEPT ![w].pc = "find"]
            /\ UNCHANGED <<cells, sub>>
    /\ UNCHANGED <<subs, topics, active, calls>>

SubscribeReturn(w) ==
    /\ th[w].pc = "next" /\ th[w].ts = {}
    /\ active' = IF th[w].fresh THEN active + 1 ELSE active
    /\ sub' = [sub EXCEPT ![th[w].o].mu = FALSE]
    /\ th' = [th EXCEPT ![w] = Idle]
    /\ UNCHANGED <<subs, topics, cells, calls>>

-----------------------------------------------------------------------------
(* Unsubscribe, from a client, Handle.Cancel or a queue's onDisconnect      *)

\* Taking the object out of the registry; a publish in progress no longer
\* owes it the event.
UnsubscribeCall(w) ==
    /\ th[w].pc = "idle" /\ calls < MaxCalls
    /\ \E i \in Leavers \intersect DOMAIN subs :
         /\ subs' = Without(subs, i)
         /\ th' = [v \in Threads |->
              IF v = w THEN [Idle EXCEPT !.pc = "ulock", !.o = subs[i]]
              ELSE [th[v] EXCEPT !.must = @ \ {subs[i]}]]
    /\ calls' = calls + 1
    /\ UNCHANGED <<sub, topics, cells, active>>

UnsubscribeLock(w) ==
    /\ th[w].pc = "ulock" /\ ~sub[th[w].o].mu
    /\ sub' = [sub EXCEPT ![th[w].o].mu = TRUE]
    /\ th' = [th EXCEPT ![w].pc = "unext", ![w].ts = sub[th[w].o].topics]
    /\ UNCHANGED <<subs, topics, cells, active, calls>>

UnsubscribeNext(w) ==
    /\ th[w].pc = "unext"
    /\ \E t \in th[w].ts : th' = [th EXCEPT ![w].pc = "ufind", ![w].t = t]
    /\ UNCHANGED <<subs, sub, topics, cells, active, calls>>

UnsubscribeFind(w) ==
    /\ th[w].pc = "ufind"
    /\ th' = IF th[w].t \in DOMAIN topics
             THEN [th EXCEPT ![w].pc = "uload", ![w].cell = topics[th[w].t]]
             ELSE [th EXCEPT ![w].pc = "unext", ![w].ts = @ \ {th[w].t}]
    /\ UNCHANGED <<subs, sub, topics, cells, active, calls>>

UnsubscribeLoadList(w) ==
    /\ th[w].pc = "uload"
    /\ th' = [th EXCEPT ![w].pc = "ucas", ![w].list = cells[th[w].cell]]
    /\ UNCHANGED <<subs, sub, topics, cells, active, calls>>

\* The list without o, in order (a set with one member): position i of the new
\* list comes from position f[i] of the old one.
Omitting(list, o) ==
    {[i \in DOMAIN f |-> list[f[i]]] :
        f \in {g \in UNION {[1..n -> DOMAIN list] : n \in 0..Len(list)} :
                 /\ \A i, j \in DOMAIN g : i < j => g[i] < g[j]
                 /\ Range(g) = {k \in DOMAIN list : list[k] # o}}}

\* An emptied cell is set to nil first and its key deleted afterwards.
UnsubscribeCAS(w) ==
    /\ th[w].pc = "ucas"
    /\ IF cells[th[w].cell] = th[w].list
       THEN \E rest \in Omitting(th[w].list, th[w].o) :
              /\ cells' = [cells EXCEPT ![th[w].cell] = rest]
              /\ th' = IF rest = <<>>
                       THEN [th EXCEPT ![w].pc = "udelete"]
                       ELSE [th EXCEPT ![w].pc = "unext",
                                       ![w].ts = @ \ {th[w].t}]
       ELSE /\ th' = [th EXCEPT ![w].pc = "ufind"]
            /\ UNCHANGED cells
    /\ UNCHANGED <<subs, sub, topics, active, calls>>

UnsubscribeDelete(w) ==
    /\ th[w].pc = "udelete"
    /\ topics' = Without(topics, th[w].t)
    /\ th' = [th EXCEPT ![w].pc = "unext", ![w].ts = @ \ {th[w].t}]
    /\ UNCHANGED <<subs, sub, cells, active, calls>>

\* Closing the done channel and the queue, the gauge, the deferred unlock.
UnsubscribeReturn(w) ==
    /\ th[w].pc = "unext" /\ th[w].ts = {}
    /\ sub' = [sub EXCEPT ![th[w].o].closed = TRUE, ![th[w].o].mu = FALSE]
    /\ active' = active - 1
    /\ th' = [th EXCEPT ![w] = Idle]
    /\ UNCHANGED <<subs, topics, cells, calls>>

-----------------------------------------------------------------------------
(* Publish                                                                 *)

\* The lookup of the topic.  "must" records who is subscribed as it starts.
PublishCall(w) ==
    /\ th[w].pc = "idle" /\ calls < MaxCalls
    /\ \E t \in Topics :
         th' = [th EXCEPT ![w] =
            IF t \in DOMAIN topics
            THEN [Idle EXCEPT !.pc = "pload", !.cell = topics[t],
                              !.must = Members(t)]
            ELSE [Idle EXCEPT !.pc = "pdone", !.must = Members(t)]]
    /\ calls' = calls + 1
    /\ UNCHANGED <<subs, sub, topics, cells, active>>

PublishLoadList(w) ==
    /\ th[w].pc = "pload"
    /\ th' = [th EXCEPT ![w].pc = "send", ![w].list = cells[th[w].cell]]
    /\ UNCHANGED <<subs, sub, topics, cells, active, calls>>

\* One subscriber of the list: skipped when closed, else handed the event.
PublishSend(w) ==
    /\ th[w].pc = "send"
    /\ IF th[w].list = <<>>
       THEN th' = [th EXCEPT ![w].pc = "pdone"]
       ELSE LET o == Head(th[w].list)
            IN  th' = [th EXCEPT ![w].list = Tail(@),
                                 ![w].seen = IF sub[o].closed THEN @
                                             ELSE Append(@, o)]
    /\ UNCHANGED <<subs, sub, topics, cells, active, calls>>

PublishReturn(w) ==
    /\ th[w].pc = "pdone"
    /\ th' = [th EXCEPT ![w] = Idle]
    /\ UNCHANGED <<subs, sub, topics, cells, active, calls>>

-----------------------------------------------------------------------------
Step(w) ==
    \/ SubscribeInsert(w) \/ SubscribeLock(w) \/ SubscribeNext(w)
    \/ SubscribeFind(w) \/ SubscribeStore(w) \/ SubscribeLoadList(w)
    \/ SubscribeCAS(w) \/ SubscribeReturn(w)
    \/ UnsubscribeLock(w) \/ UnsubscribeNext(w) \/ UnsubscribeFind(w)
    \/ UnsubscribeLoadList(w) \/ UnsubscribeCAS(w) \/ UnsubscribeDelete(w)
    \/ UnsubscribeReturn(w)
    \/ PublishLoadList(w) \/ PublishSend(w) \/ PublishReturn(w)

Next ==
    \E w \in Threads :
        SubscribeCall(w) \/ UnsubscribeCall(w) \/ PublishCall(w) \/ Step(w)

Spec == Init /\ [][Next]_vars

\* A goroutine inside a call is scheduled by the Go runtime.
FairSpec == Spec /\ \A w \in Threads : WF_vars(Step(w))

-----------------------------------------------------------------------------
\* What a goroutine may be doing: adding its subscriber to a topic, taking it
\* out of one, holding its mutex, unsubscribing.
Adding == {"find", "store", "load", "cas"}
Removing == {"ufind", "uload", "ucas", "udelete"}
Holding == Adding \union Removing \union {"next", "unext"}
Leaving == Removing \union {"ulock", "unext"}

\* The mutex of a subscriber is locked when, and only when, one goroutine holds it.
Mutex ==
    /\ \A o \in DOMAIN sub :
         sub[o].mu <=> \E w \in Threads : th[w].pc \in Holding /\ th[w].o = o
    /\ \A v, w \in Threads :
         th[v].pc \in Holding /\ th[w].pc \in Holding /\ th[v].o = th[w].o => v = w

\* Every object, cell and topic referred to exists; a mutex that is held has
\* exactly one holder.
TypeOK ==
    /\ DOMAIN subs \subseteq IDs /\ DOMAIN topics \subseteq Topics
    /\ \A i \in DOMAIN subs : subs[i] \in DOMAIN sub
    /\ \A t \in DOMAIN topics : topics[t] \in DOMAIN cells
    /\ \A c \in DOMAIN cells : \A k \in DOMAIN cells[c] :
         cells[c][k] \in DOMAIN sub
    /\ Mutex

\* Publish: an event reaches every client that was subscribed to its topic
\* when the publish began and did not unsubscribe meanwhile.
PublishReachesAll ==
    \A w \in Threads : th[w].pc = "pdone" =>
        th[w].must \subseteq {th[w].seen[k] : k \in DOMAIN th[w].seen}

\* The copy-on-write lists hold a subscriber at most once, so no client gets
\* an event twice, however Subscribe calls for the same identifier overlap.
ListedOnce == \A c \in DOMAIN cells : IsInjective(cells[c])

Quiet == \A w \in Threads : th[w].pc = "idle"

\* The SubscribersActive gauge counts the registered clients whenever no
\* call is in progress, in spite of lost insertion races.
GaugeExact == Quiet => active = Cardinality(DOMAIN subs)

\* Unsubscribe "removes the subscriber from all topics": with no call in
\* progress no list that Publish can find holds a closed subscriber.
\* The code does not have this property: README, section 5.
NoZombies ==
    Quiet => \A t \in DOMAIN topics : \A k \in DOMAIN cells[topics[t]] :
                 ~sub[cells[topics[t]][k]].closed

\* Every call returns: the compare-and-swap loops end and no mutex is left
\* locked.
CallsReturn == \A w \in Threads : th[w].pc # "idle" ~> th[w].pc = "idle"

-----------------------------------------------------------------------------
(* Proofs                                                                  *)

\* The local variables of a goroutine.
subList == Seq(Nat)
subscriber == [topics : SUBSET Topics, closed : BOOLEAN, mu : BOOLEAN]
PCs == Holding \union {"idle", "insert", "lock", "ulock", "pload", "send", "pdone"}

Locals ==
    [pc : PCs,
     id : IDs \union {NoID}, ts : SUBSET Topics, t : Topics \union {NoTopic},
     o : Nat, cell : Nat, list : subList, fresh : BOOLEAN, must : SUBSET Nat,
     seen : subList]

Shapes ==
    /\ th \in [Threads -> Locals]
    /\ sub \in Seq(subscriber)
    /\ cells \in Seq(subList)
    /\ subs \in [DOMAIN subs -> DOMAIN sub] /\ DOMAIN subs \subseteq IDs
    /\ topics \in [DOMAIN topics -> DOMAIN cells] /\ DOMAIN topics \subseteq Topics

\* What the local variables r of a goroutine refer to; own gives the topic each
\* cell was made for.
Fits(r, own) ==
    /\ r.pc = "insert" => r.id \in IDs
    /\ r.pc \in Holding \union {"lock", "ulock"} => r.o \in DOMAIN sub
    /\ r.pc \in Adding => r.t \in Topics /\ r.t \notin sub[r.o].topics
    /\ r.pc \in Removing => r.t \in Topics
    /\ r.pc \in {"load", "cas", "uload", "ucas"} =>
         r.cell \in DOMAIN cells /\ own[r.cell] = r.t
    /\ r.pc = "pload" => r.cell \in DOMAIN cells
    /\ r.fresh => r.pc \in Adding \union {"lock", "next"}

\* A list holds only subscribers that have its topic, each once.
Lists(own) ==
    /\ own \in [DOMAIN cells -> Topics]
    /\ \A t \in DOMAIN topics : own[topics[t]] = t
    /\ \A c \in DOMAIN cells :
         /\ IsInjective(cells[c])
         /\ \A k \in DOMAIN cells[c] : /\ cells[c][k] \in DOMAIN sub
                                       /\ own[c] \in sub[cells[c][k]].topics

Manager(own) ==
    Shapes /\ Lists(own) /\ Mutex /\ \A w \in Threads : Fits(th[w], own)

\* The goroutines between registering a subscriber and counting it, and between
\* taking one out and counting that.
Coming == {w \in Threads : th[w].fresh}
Going == {w \in Threads : th[w].pc \in Leaving}

\* The gauge differs from the number of clients by the goroutines on the way.
Counted ==
    /\ active \in Int
    /\ IsFiniteSet(DOMAIN subs) /\ IsFiniteSet(Coming) /\ IsFiniteSet(Going)
    /\ active + Cardinality(Coming) = Cardinality(DOMAIN subs) + Cardinality(Going)

\* The facts about finite sets that counting needs (lemma CountingHolds).
Counting ==
    /\ IsFiniteSet({}) /\ Cardinality({}) = 0
    /\ \A S : IsFiniteSet(S) => Cardinality(S) \in Nat
    /\ \A S, x : IsFiniteSet(S) /\ x \notin S =>
         IsFiniteSet(S \union {x}) /\ Cardinality(S \union {x}) = Cardinality(S) + 1
    /\ \A S, x : IsFiniteSet(S) /\ x \in S =>
         IsFiniteSet(S \ {x}) /\ Cardinality(S \ {x}) = Cardinality(S) - 1
    /\ \A S : \A n \in Nat : \A f \in [1..n -> S] :
         (\A x \in S : \E k \in 1..n : f[k] = x) => IsFiniteSet(S)

\* What a goroutine with the local variables r leaves alone while some subscriber
\* stays, and what its publish still owes.
Serves(r) ==
    /\ r.pc \in Leaving => \A i \in DOMAIN subs : subs[i] # r.o
    /\ r.pc \in {"load", "cas", "uload", "ucas"} => r.cell = topics[r.t]
    /\ r.pc \notin {"store", "udelete"}
    /\ r.pc = "pload" =>
         \E t \in Topics : /\ r.cell = topics[t]
                           /\ \A o \in r.must : \E i \in DOMAIN subs :
                                subs[i] = o /\ t \in sub[o].topics
    /\ r.pc = "send" =>
         \A o \in r.must : /\ \E i \in DOMAIN subs : subs[i] = o
                           /\ o \in Range(r.list) \union Range(r.seen)
    /\ r.pc = "pdone" => r.must \subseteq Range(r.seen)

\* While k stays no topic is ever deleted, and the list of each topic holds every
\* registered subscriber of it.
Kept(k) ==
    /\ DOMAIN topics = Topics /\ k \in DOMAIN subs /\ sub[subs[k]].topics = Topics
    /\ IsInjective(subs)
    /\ \A i \in DOMAIN subs : ~sub[subs[i]].closed
    /\ \A i \in DOMAIN subs : \A t \in sub[subs[i]].topics :
         subs[i] \in Range(cells[topics[t]])
    /\ \A w \in Threads : Serves(th[w])

\* Time for the provers: the leaves below need seconds, not the default.
USE SMTT(60)

\* A goroutine outside the manager.
LEMMA IdleIs ==
    /\ Idle \in Locals /\ Idle.pc = "idle" /\ Idle.o = 0 /\ Idle.ts = {}
    /\ ~Idle.fresh /\ Idle.must = {} /\ Idle.list = <<>> /\ Idle.seen = <<>>
  BY DEF Idle, Locals, PCs, subList

\* Only the local variables of goroutine w change among those of all goroutines.
Alters(w) ==
    th' \in [Threads -> Locals] /\ \A v \in Threads \ {w} : th'[v] = th[v]

\* A step that changes only the local variables of a goroutine, in its role.
LEMMA LocalStep ==
    ASSUME NEW own, Manager(own), NEW w \in Threads, Alters(w), Fits(th'[w], own),
           th'[w].pc \in Holding <=> th[w].pc \in Holding,
           th'[w].pc \in Holding => th'[w].o = th[w].o,
           UNCHANGED <<subs, sub, topics, cells>>
    PROVE  Manager(own)'
<1>2. Shapes'
  BY ZenonT(60) DEF Manager, Shapes, Alters
<1>3. Lists(own)'
  BY ZenonT(60) DEF Manager, Lists
<1>4. \A v \in Threads : th'[v].pc \in Holding <=> th[v].pc \in Holding
  BY ZenonT(60) DEF Alters
<1>5. \A v \in Threads : th'[v].pc \in Holding => th'[v].o = th[v].o
  BY ZenonT(60) DEF Alters
<1>6. Mutex'
  <2>1. ASSUME NEW o \in DOMAIN sub
        PROVE  sub[o].mu <=> \E v \in Threads : th'[v].pc \in Holding /\ th'[v].o = o
    BY <1>4, <1>5 DEF Manager, Mutex
  <2>2. ASSUME NEW u \in Threads, NEW v \in Threads, th'[u].pc \in Holding,
               th'[v].pc \in Holding, th'[u].o = th'[v].o
        PROVE  u = v
    BY <2>2, <1>4, <1>5 DEF Manager, Mutex
  <2> QED
    BY <2>1, <2>2, ZenonT(60) DEF Mutex
<1>7. ASSUME NEW v \in Threads PROVE Fits(th[v], own)'
  <2>1. Fits(th'[v], own)
    BY ZenonT(60) DEF Manager, Alters
  <2> QED
    BY <2>1, ZenonT(60) DEF Fits
<1> QED
  BY <1>2, <1>3, <1>6, <1>7, ZenonT(60) DEF Manager

\* Such a step leaves the gauge exact ...
LEMMA LocalCount ==
    ASSUME Counted, NEW w \in Threads, Alters(w), th'[w].fresh = th[w].fresh,
           th'[w].pc \in Leaving <=> th[w].pc \in Leaving,
           UNCHANGED <<subs, active>>
    PROVE  Counted'
<1>2. \A v \in Threads : /\ th'[v].fresh = th[v].fresh
                         /\ th'[v].pc \in Leaving <=> th[v].pc \in Leaving
  BY ZenonT(60) DEF Alters
<1>3. Coming' = Coming
  BY <1>2, ZenonT(60) DEF Coming
<1>4. Going' = Going
  BY <1>2, ZenonT(60) DEF Going
<1> QED
  BY <1>3, <1>4, ZenonT(60) DEF Counted

\* ... and serves whoever is served.
LEMMA LocalKept ==
    ASSUME NEW k, Kept(k), NEW w \in Threads, Alters(w), Serves(th'[w]),
           UNCHANGED <<subs, sub, topics, cells>>
    PROVE  Kept(k)'
<1>2. ASSUME NEW v \in Threads PROVE Serves(th[v])'
  <2>1. Serves(th'[v])
    BY ZenonT(60) DEF Kept, Alters
  <2> QED
    BY <2>1, ZenonT(60) DEF Serves
<1> QED
  BY <1>2, ZenonT(60) DEF Kept

\* Changing a field of a goroutine's local variables.
LEMMA Updates ==
    ASSUME NEW r \in Locals
    PROVE  /\ \A x \in PCs : [r EXCEPT !.pc = x] \in Locals
           /\ \A x \in IDs : [r EXCEPT !.id = x] \in Locals
           /\ \A x \in SUBSET Topics : [r EXCEPT !.ts = x] \in Locals
           /\ \A x \in Topics : [r EXCEPT !.t = x] \in Locals
           /\ \A x \in Nat : [r EXCEPT !.o = x] \in Locals
           /\ \A x \in Nat : [r EXCEPT !.cell = x] \in Locals
           /\ \A x \in subList : [r EXCEPT !.list = x] \in Locals
           /\ \A x \in BOOLEAN : [r EXCEPT !.fresh = x] \in Locals
           /\ \A x \in SUBSET Nat : [r EXCEPT !.must = x] \in Locals
           /\ \A x \in subList : [r EXCEPT !.seen = x] \in Locals
<1>1. \A x \in PCs : [r EXCEPT !.pc = x] \in Locals
  BY DEF Locals
<1>2. \A x \in IDs : [r EXCEPT !.id = x] \in Locals
  BY DEF Locals
<1>3. \A x \in SUBSET Topics : [r EXCEPT !.ts = x] \in Locals
  BY DEF Locals
<1>4. \A x \in Topics : [r EXCEPT !.t = x] \in Locals
  BY DEF Locals
<1>5. \A x \in Nat : [r EXCEPT !.o = x] \in Locals
  BY DEF Locals
<1>6. \A x \in Nat : [r EXCEPT !.cell = x] \in Locals
  BY DEF Locals
<1>7. \A x \in subList : [r EXCEPT !.list = x] \in Locals
  BY DEF Locals
<1>8. \A x \in BOOLEAN : [r EXCEPT !.fresh = x] \in Locals
  BY DEF Locals
<1>9. \A x \in SUBSET Nat : [r EXCEPT !.must = x] \in Locals
  BY DEF Locals
<1>10. \A x \in subList : [r EXCEPT !.seen = x] \in Locals
  BY DEF Locals
<1> QED
  BY <1>1, <1>2, <1>3, <1>4, <1>5, <1>6, <1>7, <1>8, <1>9, <1>10, ZenonT(60)

\* What such a record holds.
LEMMA Fields ==
    ASSUME NEW r \in Locals
    PROVE  /\ r.pc \in PCs /\ r.id \in IDs \union {NoID} /\ r.ts \in SUBSET Topics
           /\ r.t \in Topics \union {NoTopic} /\ r.o \in Nat /\ r.cell \in Nat
           /\ r.list \in subList /\ r.fresh \in BOOLEAN /\ r.must \in SUBSET Nat
           /\ r.seen \in subList
  BY DEF Locals

\* The steps a goroutine's program counter stands for.
LEMMA Roles ==
    /\ {"next", "find", "store", "load", "cas"} \subseteq Holding \ Leaving
    /\ {"unext", "ufind", "uload", "ucas", "udelete"} \subseteq Holding \intersect Leaving
    /\ "ulock" \in Leaving \ Holding
    /\ \A x \in {"idle", "insert", "lock", "pload", "send", "pdone"} :
         x \notin Holding \union Leaving
    /\ Holding \union {"idle", "insert", "lock", "ulock", "pload", "send", "pdone"} = PCs
  BY DEF Holding, Leaving, Adding, Removing, PCs

\* Each of the three parts of the invariant is kept.
Keeps(own) ==
    Manager(own)' /\ (Counted => Counted') /\ \A k : Kept(k) => Kept(k)'

\* A step that changes only the local variables of a goroutine keeps them.
LEMMA LocalKeeps ==
    ASSUME NEW own, Manager(own), NEW w \in Threads, Alters(w), Fits(th'[w], own),
           th'[w].pc \in Holding <=> th[w].pc \in Holding,
           th'[w].pc \in Holding => th'[w].o = th[w].o,
           th'[w].fresh = th[w].fresh,
           th'[w].pc \in Leaving <=> th[w].pc \in Leaving,
           \A k : Kept(k) => Serves(th'[w]),
           UNCHANGED <<subs, sub, topics, cells, active>>
    PROVE  Keeps(own)
<1>1. UNCHANGED <<subs, sub, topics, cells>> /\ UNCHANGED <<subs, active>>
  OBVIOUS
<1>2. Manager(own)'
  BY <1>1, LocalStep, ZenonT(60)
<1>3. Counted => Counted'
  BY <1>1, LocalCount, ZenonT(60)
<1>4. \A k : Kept(k) => Kept(k)'
  BY <1>1, LocalKept, ZenonT(60)
<1> QED
  BY <1>2, <1>3, <1>4, ZenonT(60) DEF Keeps

\* The members of a list that grows or is consumed.
LEMMA AppendRange ==
    ASSUME NEW l \in subList, NEW x \in Nat
    PROVE  Append(l, x) \in subList /\ Range(Append(l, x)) = Range(l) \union {x}
<1>1. /\ Append(l, x) \in subList
      /\ DOMAIN Append(l, x) = DOMAIN l \union {Len(l) + 1} /\ Append(l, x)[Len(l) + 1] = x
      /\ \A k \in DOMAIN l : Append(l, x)[k] = l[k]
  BY DEF subList
<1> QED
  BY <1>1, ZenonT(60) DEF Range

\* The same for the first member.
LEMMA HeadTail ==
    ASSUME NEW l \in subList, l # <<>>
    PROVE  Range(l) \subseteq Range(Tail(l)) \union {Head(l)}
<1>1. ASSUME NEW k \in DOMAIN l PROVE l[k] \in Range(Tail(l)) \union {Head(l)}
  <2>1. CASE k = 1
    BY <2>1
  <2>2. CASE k # 1
    <3>1. k - 1 \in DOMAIN Tail(l) /\ Tail(l)[k - 1] = l[k]
      BY <2>2 DEF subList
    <3> QED
      BY <3>1, ZenonT(60) DEF Range
  <2> QED
    BY <2>1, <2>2
<1> QED
  BY <1>1, ZenonT(60) DEF Range

\* Subscribe reads the list of the cell.
LEMMA SubscribeLoadListOK ==
    ASSUME NEW own, Manager(own), NEW w \in Threads, SubscribeLoadList(w)
    PROVE  Keeps(own)
<1>0. Fits(th[w], own) /\ th[w] \in Locals
  BY DEF Manager, Shapes
<1>1. th[w].pc = "load" /\ th[w].cell \in DOMAIN cells
  BY <1>0 DEF Fits, SubscribeLoadList, Holding, Adding, Removing, Locals
<1>2. cells[th[w].cell] \in subList
  BY <1>1 DEF Manager, Shapes
<1> DEFINE r == [th[w] EXCEPT !.pc = "cas", !.list = cells[th[w].cell]]
<1>3. th'[w] = r /\ \A v \in Threads \ {w} : th'[v] = th[v]
  BY <1>0, <1>1 DEF SubscribeLoadList, Manager, Shapes
<1>4. r \in Locals
  BY <1>0, <1>1, <1>2, IdleIs, Fields, Updates, Roles, ZenonT(60)
<1>5. Alters(w)
  BY <1>0, <1>1, <1>3, <1>4 DEF SubscribeLoadList, Manager, Shapes, Alters
<1>6. /\ r.pc = "cas" /\ r.o = th[w].o /\ r.t = th[w].t /\ r.cell = th[w].cell /\ r.fresh = th[w].fresh
  BY <1>0, IdleIs DEF Locals
<1> HIDE DEF r
<1>7. Fits(r, own)
  BY <1>0, <1>1, <1>2, <1>6 DEF Fits, Holding, Adding, Removing
<1>8. ASSUME NEW k, Kept(k) PROVE Serves(r)
  <2>1. Serves(th[w])
    BY <1>8 DEF Kept
  <2> QED
    BY <2>1, <1>0, <1>1, <1>6 DEF Serves, Leaving, Removing
<1> QED
  BY <1>0, <1>1, <1>3, <1>5, <1>6, <1>7, <1>8, LocalKeeps, Roles, ZenonT(60) DEF SubscribeLoadList

\* Unsubscribe reads the list of the cell.
LEMMA UnsubscribeLoadListOK ==
    ASSUME NEW own, Manager(own), NEW w \in Threads, UnsubscribeLoadList(w)
    PROVE  Keeps(own)
<1>0. Fits(th[w], own) /\ th[w] \in Locals
  BY DEF Manager, Shapes
<1>1. th[w].pc = "uload" /\ th[w].cell \in DOMAIN cells
  BY <1>0 DEF Fits, UnsubscribeLoadList, Holding, Adding, Removing, Locals
<1>2. cells[th[w].cell] \in subList
  BY <1>1 DEF Manager, Shapes
<1> DEFINE r == [th[w] EXCEPT !.pc = "ucas", !.list = cells[th[w].cell]]
<1>3. th'[w] = r /\ \A v \in Threads \ {w} : th'[v] = th[v]
  BY <1>0, <1>1 DEF UnsubscribeLoadList, Manager, Shapes
<1>4. r \in Locals
  BY <1>0, <1>1, <1>2, IdleIs, Fields, Updates, Roles, ZenonT(60)
<1>5. Alters(w)
  BY <1>0, <1>1, <1>3, <1>4 DEF UnsubscribeLoadList, Manager, Shapes, Alters
<1>6. /\ r.pc = "ucas" /\ r.o = th[w].o /\ r.t = th[w].t /\ r.cell = th[w].cell /\ r.fresh = th[w].fresh
  BY <1>0, IdleIs DEF Locals
<1> HIDE DEF r
<1>7. Fits(r, own)
  BY <1>0, <1>1, <1>2, <1>6 DEF Fits, Holding, Adding, Removing
<1>8. ASSUME NEW k, Kept(k) PROVE Serves(r)
  <2>1. Serves(th[w])
    BY <1>8 DEF Kept
  <2> QED
    BY <2>1, <1>0, <1>1, <1>6 DEF Serves, Leaving, Removing
<1> QED
  BY <1>0, <1>1, <1>3, <1>5, <1>6, <1>7, <1>8, LocalKeeps, Roles, ZenonT(60) DEF UnsubscribeLoadList

\* Subscribe looks the topic up.
LEMMA SubscribeFindOK ==
    ASSUME NEW own, Manager(own), NEW w \in Threads, SubscribeFind(w)
    PROVE  Keeps(own)
<1>0. Fits(th[w], own) /\ th[w] \in Locals
  BY DEF Manager, Shapes
<1>1. th[w].pc = "find" /\ th[w].t \in Topics
  BY <1>0 DEF Fits, SubscribeFind, Holding, Adding, Removing, Locals
<1>2. CASE th[w].t \in DOMAIN topics
  <2>2. topics[th[w].t] \in DOMAIN cells /\ own[topics[th[w].t]] = th[w].t /\ topics[th[w].t] \in Nat
    BY <1>1, <1>2 DEF Manager, Shapes, Lists
  <2> DEFINE r == [th[w] EXCEPT !.pc = "load", !.cell = topics[th[w].t]]
  <2>3. th'[w] = r /\ \A v \in Threads \ {w} : th'[v] = th[v]
    BY <1>0, <1>1, <1>2 DEF SubscribeFind, Manager, Shapes
  <2>4. r \in Locals
    BY <1>0, <1>1, <2>2, IdleIs, Fields, Updates, Roles, ZenonT(60)
  <2>5. Alters(w)
    BY <1>0, <1>1, <1>2, <2>3, <2>4 DEF SubscribeFind, Manager, Shapes, Alters
  <2>6. /\ r.pc = "load" /\ r.o = th[w].o /\ r.t = th[w].t /\ r.fresh = th[w].fresh /\ r.cell = topics[th[w].t]
    BY <1>0, IdleIs DEF Locals
  <2> HIDE DEF r
  <2>7. Fits(r, own)
    BY <1>0, <1>1, <1>2, <2>2, <2>6 DEF Fits, Holding, Adding, Removing
  <2>8. ASSUME NEW k, Kept(k) PROVE Serves(r)
    <3>1. Serves(th[w])
      BY <2>8 DEF Kept
    <3> QED
      BY <3>1, <1>0, <1>1, <1>2, <2>6 DEF Serves, Leaving, Removing
  <2> QED
    BY <1>0, <1>1, <2>3, <2>5, <2>6, <2>7, <2>8, LocalKeeps, Roles, ZenonT(60) DEF SubscribeFind
<1>3. CASE th[w].t \notin DOMAIN topics
  <2> DEFINE r == [th[w] EXCEPT !.pc = "store"]
  <2>3. th'[w] = r /\ \A v \in Threads \ {w} : th'[v] = th[v]
    BY <1>0, <1>1, <1>3 DEF SubscribeFind, Manager, Shapes
  <2>4. r \in Locals
    BY <1>0, <1>1, IdleIs, Fields, Updates, Roles, ZenonT(60)
  <2>5. Alters(w)
    BY <1>0, <1>1, <1>3, <2>3, <2>4 DEF SubscribeFind, Manager, Shapes, Alters
  <2>6. /\ r.pc = "store" /\ r.o = th[w].o /\ r.t = th[w].t /\ r.cell = th[w].cell /\ r.fresh = th[w].fresh
    BY <1>0, IdleIs DEF Locals
  <2> HIDE DEF r
  <2>7. Fits(r, own)
    BY <1>0, <1>1, <1>3, <2>6 DEF Fits, Holding, Adding, Removing
  <2>8. ASSUME NEW k, Kept(k) PROVE Serves(r)
    <3>1. Serves(th[w])
      BY <2>8 DEF Kept
    <3>2. FALSE
      BY <2>8, <1>3, <1>1 DEF Kept
    <3> QED
      BY <3>1, <3>2, <1>0, <1>1, <1>3, <2>6 DEF Serves, Leaving, Removing
  <2> QED
    BY <1>0, <1>1, <2>3, <2>5, <2>6, <2>7, <2>8, LocalKeeps, Roles, ZenonT(60) DEF SubscribeFind
<1> QED
  BY <1>2, <1>3

\* Unsubscribe looks the topic up.
LEMMA UnsubscribeFindOK ==
    ASSUME NEW own, Manager(own), NEW w \in Threads, UnsubscribeFind(w)
    PROVE  Keeps(own)
<1>0. Fits(th[w], own) /\ th[w] \in Locals
  BY DEF Manager, Shapes
<1>1. th[w].pc = "ufind" /\ th[w].t \in Topics
  BY <1>0 DEF Fits, UnsubscribeFind, Holding, Adding, Removing, Locals
<1>2. CASE th[w].t \in DOMAIN topics
  <2>2. topics[th[w].t] \in DOMAIN cells /\ own[topics[th[w].t]] = th[w].t /\ topics[th[w].t] \in Nat
    BY <1>1, <1>2 DEF Manager, Shapes, Lists
  <2> DEFINE r == [th[w] EXCEPT !.pc = "uload", !.cell = topics[th[w].t]]
  <2>3. th'[w] = r /\ \A v \in Threads \ {w} : th'[v] = th[v]
    BY <1>0, <1>1, <1>2 DEF UnsubscribeFind, Manager, Shapes
  <2>4. r \in Locals
    BY <1>0, <1>1, <2>2, IdleIs, Fields, Updates, Roles, ZenonT(60)
  <2>5. Alters(w)
    BY <1>0, <1>1, <1>2, <2>3, <2>4 DEF UnsubscribeFind, Manager, Shapes, Alters
  <2>6. /\ r.pc = "uload" /\ r.o = th[w].o /\ r.t = th[w].t /\ r.fresh = th[w].fresh /\ r.cell = topics[th[w].t]
    BY <1>0, IdleIs DEF Locals
  <2> HIDE DEF r
  <2>7. Fits(r, own)
    BY <1>0, <1>1, <1>2, <2>2, <2>6 DEF Fits, Holding, Adding, Removing
  <2>8. ASSUME NEW k, Kept(k) PROVE Serves(r)
    <3>1. Serves(th[w])
      BY <2>8 DEF Kept
    <3> QED
      BY <3>1, <1>0, <1>1, <1>2, <2>6 DEF Serves, Leaving, Removing
  <2> QED
    BY <1>0, <1>1, <2>3, <2>5, <2>6, <2>7, <2>8, LocalKeeps, Roles, ZenonT(60) DEF UnsubscribeFind
<1>3. CASE th[w].t \notin DOMAIN topics
  <2>2. th[w].ts \ {th[w].t} \in SUBSET Topics
    BY <1>0, Fields, <1>3
  <2> DEFINE r == [th[w] EXCEPT !.pc = "unext", !.ts = th[w].ts \ {th[w].t}]
  <2>3. th'[w] = r /\ \A v \in Threads \ {w} : th'[v] = th[v]
    BY <1>0, <1>1, <1>3 DEF UnsubscribeFind, Manager, Shapes
  <2>4. r \in Locals
    BY <1>0, <1>1, <2>2, IdleIs, Fields, Updates, Roles, ZenonT(60)
  <2>5. Alters(w)
    BY <1>0, <1>1, <1>3, <2>3, <2>4 DEF UnsubscribeFind, Manager, Shapes, Alters
  <2>6. /\ r.pc = "unext" /\ r.o = th[w].o /\ r.t = th[w].t /\ r.cell = th[w].cell /\ r.fresh = th[w].fresh
    BY <1>0, IdleIs DEF Locals
  <2> HIDE DEF r
  <2>7. Fits(r, own)
    BY <1>0, <1>1, <1>3, <2>2, <2>6 DEF Fits, Holding, Adding, Removing
  <2>8. ASSUME NEW k, Kept(k) PROVE Serves(r)
    <3>1. Serves(th[w])
      BY <2>8 DEF Kept
    <3> QED
      BY <3>1, <1>0, <1>1, <1>3, <2>6 DEF Serves, Leaving, Removing
  <2> QED
    BY <1>0, <1>1, <2>3, <2>5, <2>6, <2>7, <2>8, LocalKeeps, Roles, ZenonT(60) DEF UnsubscribeFind
<1> QED
  BY <1>2, <1>3

\* Subscribe looks the identifier up.
LEMMA SubscribeCallOK ==
    ASSUME NEW own, Manager(own), NEW w \in Threads, SubscribeCall(w)
    PROVE  Keeps(own)
<1>0. Fits(th[w], own) /\ th[w] \in Locals
  BY DEF Manager, Shapes
<1>1. th[w].pc = "idle" /\ th[w].fresh = FALSE
  BY <1>0 DEF Fits, SubscribeCall, Holding, Adding, Removing, Locals
<1>9. PICK i \in IDs, S \in SUBSET Topics :
        th' = [th EXCEPT ![w] =
          IF i \in DOMAIN subs
          THEN [Idle EXCEPT !.pc = "lock", !.id = i, !.ts = S, !.o = subs[i]]
          ELSE [Idle EXCEPT !.pc = "insert", !.id = i, !.ts = S]]
  BY <1>0, <1>1, ZenonT(60) DEF SubscribeCall
<1>2. CASE i \in DOMAIN subs
  <2>2. subs[i] \in DOMAIN sub /\ subs[i] \in Nat
    BY <1>1, <1>2 DEF Manager, Shapes
  <2> DEFINE r == [Idle EXCEPT !.pc = "lock", !.id = i, !.ts = S, !.o = subs[i]]
  <2>3. th'[w] = r /\ \A v \in Threads \ {w} : th'[v] = th[v]
    BY <1>0, <1>1, <1>9, <1>2 DEF Manager, Shapes
  <2>4. r \in Locals
    BY <1>0, <1>1, <1>9, <2>2, IdleIs, Fields, Updates, Roles, ZenonT(60)
  <2>5. Alters(w)
    BY <1>0, <1>1, <1>9, <1>2, <2>3, <2>4 DEF Manager, Shapes, Alters
  <2>6. r.pc = "lock" /\ r.o = subs[i] /\ r.fresh = FALSE
    BY <1>0, IdleIs DEF Locals
  <2> HIDE DEF r
  <2>7. Fits(r, own)
    BY <1>0, <1>1, <1>9, <1>2, <2>2, <2>6 DEF Fits, Holding, Adding, Removing
  <2>8. ASSUME NEW k, Kept(k) PROVE Serves(r)
    BY <2>6 DEF Serves, Leaving, Removing
  <2> QED
    BY <1>0, <1>1, <1>9, <2>3, <2>5, <2>6, <2>7, <2>8, LocalKeeps, Roles, ZenonT(60) DEF SubscribeCall
<1>3. CASE i \notin DOMAIN subs
  <2> DEFINE r == [Idle EXCEPT !.pc = "insert", !.id = i, !.ts = S]
  <2>3. th'[w] = r /\ \A v \in Threads \ {w} : th'[v] = th[v]
    BY <1>0, <1>1, <1>9, <1>3 DEF Manager, Shapes
  <2>4. r \in Locals
    BY <1>0, <1>1, <1>9, IdleIs, Fields, Updates, Roles, ZenonT(60)
  <2>5. Alters(w)
    BY <1>0, <1>1, <1>9, <1>3, <2>3, <2>4 DEF Manager, Shapes, Alters
  <2>6. r.pc = "insert" /\ r.id = i /\ r.fresh = FALSE
    BY <1>0, IdleIs DEF Locals
  <2> HIDE DEF r
  <2>7. Fits(r, own)
    BY <1>0, <1>1, <1>9, <1>3, <2>6 DEF Fits, Holding, Adding, Removing
  <2>8. ASSUME NEW k, Kept(k) PROVE Serves(r)
    BY <2>6 DEF Serves, Leaving, Removing
  <2> QED
    BY <1>0, <1>1, <1>9, <2>3, <2>5, <2>6, <2>7, <2>8, LocalKeeps, Roles, ZenonT(60) DEF SubscribeCall
<1> QED
  BY <1>2, <1>3

\* Subscribe takes the next topic.
LEMMA SubscribeNextOK ==
    ASSUME NEW own, Manager(own), NEW w \in Threads, SubscribeNext(w)
    PROVE  Keeps(own)
<1>0. Fits(th[w], own) /\ th[w] \in Locals
  BY DEF Manager, Shapes
<1>1. th[w].pc = "next" /\ th[w].o \in DOMAIN sub
  BY <1>0 DEF Fits, SubscribeNext, Holding, Adding, Removing, Locals
<1>9. PICK t \in th[w].ts :
        th' = IF t \in sub[th[w].o].topics
              THEN [th EXCEPT ![w].ts = @ \ {t}]
              ELSE [th EXCEPT ![w].pc = "find", ![w].t = t]
  BY <1>0, <1>1, ZenonT(60) DEF SubscribeNext
<1>2. CASE t \in sub[th[w].o].topics
  <2>2. th[w].ts \ {t} \in SUBSET Topics
    BY <1>0, Fields, <1>2
  <2> DEFINE r == [th[w] EXCEPT !.ts = th[w].ts \ {t}]
  <2>3. th'[w] = r /\ \A v \in Threads \ {w} : th'[v] = th[v]
    BY <1>0, <1>1, <1>9, <1>2 DEF Manager, Shapes
  <2>4. r \in Locals
    BY <1>0, <1>1, <1>9, <2>2, IdleIs, Fields, Updates, Roles, ZenonT(60)
  <2>5. Alters(w)
    BY <1>0, <1>1, <1>9, <1>2, <2>3, <2>4 DEF Manager, Shapes, Alters
  <2>6. r.pc = th[w].pc /\ r.o = th[w].o /\ r.fresh = th[w].fresh
    BY <1>0, IdleIs DEF Locals
  <2> HIDE DEF r
  <2>7. Fits(r, own)
    BY <1>0, <1>1, <1>9, <1>2, <2>2, <2>6 DEF Fits, Holding, Adding, Removing
  <2>8. ASSUME NEW k, Kept(k) PROVE Serves(r)
    <3>1. Serves(th[w])
      BY <2>8 DEF Kept
    <3> QED
      BY <3>1, <1>0, <1>1, <1>9, <1>2, <2>6 DEF Serves, Leaving, Removing
  <2> QED
    BY <1>0, <1>1, <1>9, <2>3, <2>5, <2>6, <2>7, <2>8, LocalKeeps, Roles, ZenonT(60) DEF SubscribeNext
<1>3. CASE t \notin sub[th[w].o].topics
  <2>2. t \in Topics
    BY <1>0, <1>9, Fields, <1>3
  <2> DEFINE r == [th[w] EXCEPT !.pc = "find", !.t = t]
  <2>3. th'[w] = r /\ \A v \in Threads \ {w} : th'[v] = th[v]
    BY <1>0, <1>1, <1>9, <1>3 DEF Manager, Shapes
  <2>4. r \in Locals
    BY <1>0, <1>1, <1>9, <2>2, IdleIs, Fields, Updates, Roles, ZenonT(60)
  <2>5. Alters(w)
    BY <1>0, <1>1, <1>9, <1>3, <2>3, <2>4 DEF Manager, Shapes, Alters
  <2>6. r.pc = "find" /\ r.o = th[w].o /\ r.t = t /\ r.fresh = th[w].fresh
    BY <1>0, IdleIs DEF Locals
  <2> HIDE DEF r
  <2>7. Fits(r, own)
    BY <1>0, <1>1, <1>9, <1>3, <2>2, <2>6 DEF Fits, Holding, Adding, Removing
  <2>8. ASSUME NEW k, Kept(k) PROVE Serves(r)
    <3>1. Serves(th[w])
      BY <2>8 DEF Kept
    <3> QED
      BY <3>1, <1>0, <1>1, <1>9, <1>3, <2>6 DEF Serves, Leaving, Removing
  <2> QED
    BY <1>0, <1>1, <1>9, <2>3, <2>5, <2>6, <2>7, <2>8, LocalKeeps, Roles, ZenonT(60) DEF SubscribeNext
<1> QED
  BY <1>2, <1>3

\* Unsubscribe takes the next topic.
LEMMA UnsubscribeNextOK ==
    ASSUME NEW own, Manager(own), NEW w \in Threads, UnsubscribeNext(w)
    PROVE  Keeps(own)
<1>0. Fits(th[w], own) /\ th[w] \in Locals
  BY DEF Manager, Shapes
<1>1. th[w].pc = "unext" /\ th[w].o \in DOMAIN sub
  BY <1>0 DEF Fits, UnsubscribeNext, Holding, Adding, Removing, Locals
<1>9. PICK t \in th[w].ts :
        th' = [th EXCEPT ![w].pc = "ufind", ![w].t = t]
  BY <1>0, <1>1, ZenonT(60) DEF UnsubscribeNext
<1>2. t \in Topics
  BY <1>0, <1>9, Fields
<1> DEFINE r == [th[w] EXCEPT !.pc = "ufind", !.t = t]
<1>3. th'[w] = r /\ \A v \in Threads \ {w} : th'[v] = th[v]
  BY <1>0, <1>1, <1>9 DEF Manager, Shapes
<1>4. r \in Locals
  BY <1>0, <1>1, <1>9, <1>2, IdleIs, Fields, Updates, Roles, ZenonT(60)
<1>5. Alters(w)
  BY <1>0, <1>1, <1>9, <1>3, <1>4 DEF Manager, Shapes, Alters
<1>6. r.pc = "ufind" /\ r.o = th[w].o /\ r.t = t /\ r.fresh = th[w].fresh
  BY <1>0, IdleIs DEF Locals
<1> HIDE DEF r
<1>7. Fits(r, own)
  BY <1>0, <1>1, <1>9, <1>2, <1>6 DEF Fits, Holding, Adding, Removing
<1>8. ASSUME NEW k, Kept(k) PROVE Serves(r)
  <2>1. Serves(th[w])
    BY <1>8 DEF Kept
  <2> QED
    BY <2>1, <1>0, <1>1, <1>9, <1>6 DEF Serves, Leaving, Removing
<1> QED
  BY <1>0, <1>1, <1>9, <1>3, <1>5, <1>6, <1>7, <1>8, LocalKeeps, Roles, ZenonT(60) DEF UnsubscribeNext

\* Publish looks the topic up.
LEMMA PublishCallOK ==
    ASSUME NEW own, Manager(own), NEW w \in Threads, PublishCall(w)
    PROVE  Keeps(own)
<1>0. Fits(th[w], own) /\ th[w] \in Locals
  BY DEF Manager, Shapes
<1>1. th[w].pc = "idle" /\ th[w].fresh = FALSE
  BY <1>0 DEF Fits, PublishCall, Holding, Adding, Removing, Locals
<1>9. PICK t \in Topics :
        th' = [th EXCEPT ![w] =
          IF t \in DOMAIN topics
          THEN [Idle EXCEPT !.pc = "pload", !.cell = topics[t], !.must = Members(t)]
          ELSE [Idle EXCEPT !.pc = "pdone", !.must = Members(t)]]
  BY <1>0, <1>1, ZenonT(60) DEF PublishCall
<1>10. Members(t) \in SUBSET Nat
  BY DEF Members, Manager, Shapes
<1>2. CASE t \in DOMAIN topics
  <2>2. topics[t] \in DOMAIN cells /\ topics[t] \in Nat
    BY <1>1, <1>2 DEF Manager, Shapes
  <2> DEFINE r == [Idle EXCEPT !.pc = "pload", !.cell = topics[t], !.must = Members(t)]
  <2>3. th'[w] = r /\ \A v \in Threads \ {w} : th'[v] = th[v]
    BY <1>0, <1>1, <1>9, <1>10, <1>2 DEF Manager, Shapes
  <2>4. r \in Locals
    BY <1>0, <1>1, <1>9, <1>10, <2>2, IdleIs, Fields, Updates, Roles, ZenonT(60)
  <2>5. Alters(w)
    BY <1>0, <1>1, <1>9, <1>10, <1>2, <2>3, <2>4 DEF Manager, Shapes, Alters
  <2>6. r.pc = "pload" /\ r.cell = topics[t] /\ r.must = Members(t) /\ r.fresh = FALSE
    BY <1>0, IdleIs DEF Locals
  <2> HIDE DEF r
  <2>7. Fits(r, own)
    BY <1>0, <1>1, <1>9, <1>10, <1>2, <2>2, <2>6 DEF Fits, Holding, Adding, Removing
  <2>8. ASSUME NEW k, Kept(k) PROVE Serves(r)
    <3>1. Serves(th[w])
      BY <2>8 DEF Kept
    <3>2. \A o \in r.must : \E i \in DOMAIN subs : subs[i] = o /\ t \in sub[o].topics
      BY <2>6, ZenonT(60) DEF Members
    <3> QED
      BY <3>1, <3>2, <1>0, <1>1, <1>9, <1>10, <1>2, <2>6 DEF Serves, Leaving, Removing
  <2> QED
    BY <1>0, <1>1, <1>9, <1>10, <2>3, <2>5, <2>6, <2>7, <2>8, LocalKeeps, Roles, ZenonT(60) DEF PublishCall
<1>3. CASE t \notin DOMAIN topics
  <2> DEFINE r == [Idle EXCEPT !.pc = "pdone", !.must = Members(t)]
  <2>3. th'[w] = r /\ \A v \in Threads \ {w} : th'[v] = th[v]
    BY <1>0, <1>1, <1>9, <1>10, <1>3 DEF Manager, Shapes
  <2>4. r \in Locals
    BY <1>0, <1>1, <1>9, <1>10, IdleIs, Fields, Updates, Roles, ZenonT(60)
  <2>5. Alters(w)
    BY <1>0, <1>1, <1>9, <1>10, <1>3, <2>3, <2>4 DEF Manager, Shapes, Alters
  <2>6. r.pc = "pdone" /\ r.fresh = FALSE
    BY <1>0, IdleIs DEF Locals
  <2> HIDE DEF r
  <2>7. Fits(r, own)
    BY <1>0, <1>1, <1>9, <1>10, <1>3, <2>6 DEF Fits, Holding, Adding, Removing
  <2>8. ASSUME NEW k, Kept(k) PROVE Serves(r)
    <3>1. Serves(th[w])
      BY <2>8 DEF Kept
    <3>2. FALSE
      BY <2>8, <1>3 DEF Kept
    <3> QED
      BY <3>1, <3>2, <1>0, <1>1, <1>9, <1>10, <1>3, <2>6 DEF Serves, Leaving, Removing
  <2> QED
    BY <1>0, <1>1, <1>9, <1>10, <2>3, <2>5, <2>6, <2>7, <2>8, LocalKeeps, Roles, ZenonT(60) DEF PublishCall
<1> QED
  BY <1>2, <1>3

\* Publish reads the list of the cell.
LEMMA PublishLoadListOK ==
    ASSUME NEW own, Manager(own), NEW w \in Threads, PublishLoadList(w)
    PROVE  Keeps(own)
<1>0. Fits(th[w], own) /\ th[w] \in Locals
  BY DEF Manager, Shapes
<1>1. th[w].pc = "pload" /\ th[w].cell \in DOMAIN cells
  BY <1>0 DEF Fits, PublishLoadList, Holding, Adding, Removing, Locals
<1>2. cells[th[w].cell] \in subList
  BY <1>1 DEF Manager, Shapes
<1> DEFINE r == [th[w] EXCEPT !.pc = "send", !.list = cells[th[w].cell]]
<1>3. th'[w] = r /\ \A v \in Threads \ {w} : th'[v] = th[v]
  BY <1>0, <1>1 DEF PublishLoadList, Manager, Shapes
<1>4. r \in Locals
  BY <1>0, <1>1, <1>2, IdleIs, Fields, Updates, Roles, ZenonT(60)
<1>5. Alters(w)
  BY <1>0, <1>1, <1>3, <1>4 DEF PublishLoadList, Manager, Shapes, Alters
<1>6. /\ r.pc = "send" /\ r.fresh = th[w].fresh /\ r.must = th[w].must /\ r.list = cells[th[w].cell]
  BY <1>0, IdleIs DEF Locals
<1> HIDE DEF r
<1>7. Fits(r, own)
  BY <1>0, <1>1, <1>2, <1>6 DEF Fits, Holding, Adding, Removing
<1>8. ASSUME NEW k, Kept(k) PROVE Serves(r)
  <2>1. Serves(th[w])
    BY <1>8 DEF Kept
  <2>2. PICK t \in Topics : /\ th[w].cell = topics[t]
                           /\ \A o \in th[w].must : \E i \in DOMAIN subs :
                                subs[i] = o /\ t \in sub[o].topics
    BY <2>1, <1>1 DEF Serves
  <2>3. \A o \in th[w].must : \E i \in DOMAIN subs : subs[i] = o
    BY <2>2, ZenonT(60)
  <2>4. \A i \in DOMAIN subs : t \in sub[subs[i]].topics =>
            subs[i] \in Range(cells[topics[t]])
    BY <1>8, ZenonT(60) DEF Kept
  <2>5. \A o \in th[w].must : o \in Range(cells[th[w].cell])
    BY <2>2, <2>4, ZenonT(60)
  <2> QED
    BY <2>1, <2>2, <2>3, <2>4, <2>5, <1>0, <1>1, <1>6 DEF Serves, Leaving, Removing
<1> QED
  BY <1>0, <1>1, <1>3, <1>5, <1>6, <1>7, <1>8, LocalKeeps, Roles, ZenonT(60) DEF PublishLoadList

\* Publish returns.
LEMMA PublishReturnOK ==
    ASSUME NEW own, Manager(own), NEW w \in Threads, PublishReturn(w)
    PROVE  Keeps(own)
<1>0. Fits(th[w], own) /\ th[w] \in Locals
  BY DEF Manager, Shapes
<1>1. th[w].pc = "pdone" /\ th[w].fresh = FALSE
  BY <1>0 DEF Fits, PublishReturn, Holding, Adding, Removing, Locals
<1> DEFINE r == Idle
<1>3. th'[w] = r /\ \A v \in Threads \ {w} : th'[v] = th[v]
  BY <1>0, <1>1 DEF PublishReturn, Manager, Shapes
<1>4. r \in Locals
  BY <1>0, <1>1, IdleIs, Fields, Updates, Roles, ZenonT(60)
<1>5. Alters(w)
  BY <1>0, <1>1, <1>3, <1>4 DEF PublishReturn, Manager, Shapes, Alters
<1>6. r.pc = "idle" /\ r.fresh = FALSE
  BY <1>0, IdleIs DEF Locals
<1> HIDE DEF r
<1>7. Fits(r, own)
  BY <1>0, <1>1, <1>6 DEF Fits, Holding, Adding, Removing
<1>8. ASSUME NEW k, Kept(k) PROVE Serves(r)
  BY <1>6 DEF Serves, Leaving, Removing
<1> QED
  BY <1>0, <1>1, <1>3, <1>5, <1>6, <1>7, <1>8, LocalKeeps, Roles, ZenonT(60) DEF PublishReturn

\* Publish hands the event to the next subscriber.
LEMMA PublishSendOK ==
    ASSUME NEW own, Manager(own), NEW w \in Threads, PublishSend(w)
    PROVE  Keeps(own)
<1>0. Fits(th[w], own) /\ th[w] \in Locals
  BY DEF Manager, Shapes
<1>1. th[w].pc = "send" /\ th[w].list \in subList /\ th[w].seen \in subList
  BY <1>0 DEF Fits, PublishSend, Holding, Adding, Removing, Locals
<1>2. CASE th[w].list = <<>>
  <2>1. th' = [th EXCEPT ![w].pc = "pdone"]
    BY <1>0, <1>1, <1>2, ZenonT(60) DEF PublishSend
  <2> DEFINE r == [th[w] EXCEPT !.pc = "pdone"]
  <2>3. th'[w] = r /\ \A v \in Threads \ {w} : th'[v] = th[v]
    BY <1>0, <1>1, <1>2, <2>1 DEF Manager, Shapes
  <2>4. r \in Locals
    BY <1>0, <1>1, IdleIs, Fields, Updates, Roles, ZenonT(60)
  <2>5. Alters(w)
    BY <1>0, <1>1, <1>2, <2>1, <2>3, <2>4 DEF Manager, Shapes, Alters
  <2>6. /\ r.pc = "pdone" /\ r.fresh = th[w].fresh /\ r.must = th[w].must /\ r.seen = th[w].seen
    BY <1>0, IdleIs DEF Locals
  <2> HIDE DEF r
  <2>7. Fits(r, own)
    BY <1>0, <1>1, <1>2, <2>1, <2>6 DEF Fits, Holding, Adding, Removing
  <2>8. ASSUME NEW k, Kept(k) PROVE Serves(r)
    <3>1. Serves(th[w])
      BY <2>8 DEF Kept
    <3>2. Range(th[w].list) = {}
      BY <1>2 DEF Range
    <3> QED
      BY <3>1, <3>2, <1>0, <1>1, <1>2, <2>1, <2>6 DEF Serves, Leaving, Removing
  <2> QED
    BY <1>0, <1>1, <2>3, <2>5, <2>6, <2>7, <2>8, LocalKeeps, Roles, ZenonT(60) DEF PublishSend
<1>3. CASE th[w].list # <<>>
  <2>1. th' = [th EXCEPT ![w].list = Tail(@),
                           ![w].seen = IF sub[Head(th[w].list)].closed THEN @
                                       ELSE Append(@, Head(th[w].list))]
    BY <1>0, <1>1, <1>3, ZenonT(60) DEF PublishSend
  <2>2. /\ Tail(th[w].list) \in subList
        /\ (IF sub[Head(th[w].list)].closed THEN th[w].seen
            ELSE Append(th[w].seen, Head(th[w].list))) \in subList
    BY <1>1, <1>3, <2>1 DEF subList
  <2> DEFINE r == [th[w] EXCEPT !.list = Tail(th[w].list),
                      !.seen = IF sub[Head(th[w].list)].closed THEN th[w].seen
                               ELSE Append(th[w].seen, Head(th[w].list))]
  <2>3. th'[w] = r /\ \A v \in Threads \ {w} : th'[v] = th[v]
    BY <1>0, <1>1, <1>3, <2>1 DEF Manager, Shapes
  <2>4. r \in Locals
    BY <1>0, <1>1, <2>2, IdleIs, Fields, Updates, Roles, ZenonT(60)
  <2>5. Alters(w)
    BY <1>0, <1>1, <1>3, <2>1, <2>3, <2>4 DEF Manager, Shapes, Alters
  <2>6. /\ r.pc = th[w].pc /\ r.fresh = th[w].fresh /\ r.must = th[w].must
        /\ r.list = Tail(th[w].list)
        /\ r.seen = IF sub[Head(th[w].list)].closed THEN th[w].seen
                     ELSE Append(th[w].seen, Head(th[w].list))
    BY <1>0, IdleIs DEF Locals
  <2> HIDE DEF r
  <2>7. Fits(r, own)
    BY <1>0, <1>1, <1>3, <2>1, <2>2, <2>6 DEF Fits, Holding, Adding, Removing
  <2>8. ASSUME NEW k, Kept(k) PROVE Serves(r)
    <3>1. Serves(th[w])
      BY <2>8 DEF Kept
    <3>2. Range(th[w].list) \subseteq Range(r.list) \union {Head(th[w].list)}
      BY <1>1, <1>3, <2>6, HeadTail, ZenonT(60)
    <3>3. Head(th[w].list) \in Nat
      BY <1>1, <1>3 DEF subList
    <3>4. Range(th[w].seen) \subseteq Range(r.seen)
      BY <1>1, <3>3, <2>6, AppendRange
    <3>5. sub[Head(th[w].list)].closed \/ Head(th[w].list) \in Range(r.seen)
      BY <1>1, <3>3, <2>6, AppendRange
    <3>6. \A o \in th[w].must : \E i \in DOMAIN subs : subs[i] = o
      BY <3>1, <1>1, ZenonT(60) DEF Serves
    <3>7. \A o \in th[w].must : ~sub[o].closed
      BY <2>8, <3>6, ZenonT(60) DEF Kept
    <3>8. \A o \in th[w].must : o \in Range(r.list) \union Range(r.seen)
      BY <3>1, <1>1, <3>2, <3>4, <3>5, <3>7, ZenonT(60) DEF Serves
    <3>9. r.pc = "send" /\ r.must = th[w].must
      BY <1>1, <2>6, ZenonT(60)
    <3> QED
      BY <3>6, <3>8, <3>9 DEF Serves, Leaving, Removing
  <2> QED
    BY <1>0, <1>1, <2>3, <2>5, <2>6, <2>7, <2>8, LocalKeeps, Roles, ZenonT(60) DEF PublishSend
<1> QED
  BY <1>2, <1>3

\* Another goroutine's references stay good while objects and cells are added and its
\* own subscriber gains no topic.
LEMMA OthersFit ==
    ASSUME NEW own, NEW own2, NEW v \in Threads, Fits(th[v], own), th'[v] = th[v],
           DOMAIN sub \subseteq DOMAIN sub', DOMAIN cells \subseteq DOMAIN cells',
           \A c \in DOMAIN cells : own2[c] = own[c],
           th[v].pc \in Adding => sub'[th[v].o].topics = sub[th[v].o].topics
    PROVE  Fits(th[v], own2)'
<1>1. th[v].pc \in Holding \union {"lock", "ulock"} => th[v].o \in DOMAIN sub'
  BY ZenonT(60) DEF Fits
<1>2. th[v].pc \in Adding => th[v].t \in Topics /\ th[v].t \notin sub'[th[v].o].topics
  BY ZenonT(60) DEF Fits
<1>3. th[v].pc \in {"load", "cas", "uload", "ucas"} =>
        th[v].cell \in DOMAIN cells' /\ own2[th[v].cell] = th[v].t
  BY ZenonT(60) DEF Fits
<1>4. th[v].pc = "pload" => th[v].cell \in DOMAIN cells'
  BY ZenonT(60) DEF Fits
<1> QED
  BY <1>1, <1>2, <1>3, <1>4, ZenonT(60) DEF Fits

\* The mutexes stay as they are while nobody locks or unlocks.
LEMMA MutexStable ==
    ASSUME Mutex, NEW w \in Threads, Alters(w),
           th'[w].pc \in Holding <=> th[w].pc \in Holding,
           th'[w].pc \in Holding => th'[w].o = th[w].o,
           DOMAIN sub' = DOMAIN sub, \A o \in DOMAIN sub : sub'[o].mu = sub[o].mu
    PROVE  Mutex'
<1>4. \A v \in Threads : th'[v].pc \in Holding <=> th[v].pc \in Holding
  BY ZenonT(60) DEF Alters
<1>5. \A v \in Threads : th'[v].pc \in Holding => th'[v].o = th[v].o
  BY ZenonT(60) DEF Alters
<1>1. ASSUME NEW o \in DOMAIN sub
      PROVE  sub'[o].mu <=> \E v \in Threads : th'[v].pc \in Holding /\ th'[v].o = o
  BY <1>4, <1>5 DEF Mutex
<1>2. ASSUME NEW u \in Threads, NEW v \in Threads, th'[u].pc \in Holding,
             th'[v].pc \in Holding, th'[u].o = th'[v].o
      PROVE  u = v
  BY <1>2, <1>4, <1>5 DEF Mutex
<1> QED
  BY <1>1, <1>2, ZenonT(60) DEF Mutex

\* Lists that are not touched stay good while subscribers gain topics.
LEMMA ListsStable ==
    ASSUME NEW own, Lists(own), UNCHANGED <<topics, cells>>,
           DOMAIN sub \subseteq DOMAIN sub',
           \A o \in DOMAIN sub : sub[o].topics \subseteq sub'[o].topics
    PROVE  Lists(own)'
  BY ZenonT(60) DEF Lists

\* What another goroutine owes while nobody comes or goes.
LEMMA OthersServe ==
    ASSUME Shapes, NEW v \in Threads, Serves(th[v]), th'[v] = th[v],
           UNCHANGED <<subs, topics>>,
           \A o \in DOMAIN sub : sub[o].topics \subseteq sub'[o].topics
    PROVE  Serves(th[v])'
<1>1. \A i \in DOMAIN subs : subs[i] \in DOMAIN sub
  BY DEF Shapes
<1>2. ASSUME NEW t \in Topics, NEW o, NEW i \in DOMAIN subs, subs[i] = o, t \in sub[o].topics
      PROVE  t \in sub'[o].topics
  BY <1>1, <1>2, ZenonT(60)
<1>3. th[v].pc = "pload" =>
        \E t \in Topics : /\ th[v].cell = topics[t]
                          /\ \A o \in th[v].must : \E i \in DOMAIN subs :
                               subs[i] = o /\ t \in sub'[o].topics
  BY <1>2, ZenonT(60) DEF Serves
<1> QED
  BY <1>3, ZenonT(60) DEF Serves

\* A step that neither registers a subscriber nor changes a list keeps what is kept.
LEMMA KeptStable ==
    ASSUME NEW k, Shapes, Kept(k), NEW w \in Threads, Alters(w), Serves(th[w])',
           UNCHANGED <<subs, topics, cells>>,
           \A o \in DOMAIN sub : sub'[o].topics = sub[o].topics,
           \A i \in DOMAIN subs : ~sub'[subs[i]].closed
    PROVE  Kept(k)'
<1>1. \A i \in DOMAIN subs : subs[i] \in DOMAIN sub
  BY DEF Shapes
<1>2. ASSUME NEW v \in Threads PROVE Serves(th[v])'
  <2>1. CASE v # w
    <3>1. Serves(th[v]) /\ th'[v] = th[v]
      BY <2>1, ZenonT(60) DEF Kept, Alters
    <3>2. \A o \in DOMAIN sub : sub[o].topics \subseteq sub'[o].topics
      OBVIOUS
    <3> QED
      BY <3>1, <3>2, OthersServe, ZenonT(60)
  <2> QED
    BY <2>1
<1>3. \A i \in DOMAIN subs : sub'[subs[i]].topics = sub[subs[i]].topics
  BY <1>1
<1> QED
  BY <1>2, <1>3, ZenonT(60) DEF Kept

\* Replacing one subscriber object.
LEMMA SetObject ==
    ASSUME Shapes, NEW o \in DOMAIN sub, NEW x \in subscriber,
           sub' = [sub EXCEPT ![o] = x]
    PROVE  /\ sub' \in Seq(subscriber) /\ DOMAIN sub' = DOMAIN sub /\ sub'[o] = x
           /\ \A p \in DOMAIN sub \ {o} : sub'[p] = sub[p]
  BY DEF Shapes

\* Changing a field of a subscriber object.
LEMMA ObjectUpdates ==
    ASSUME NEW x \in subscriber
    PROVE  /\ x.topics \in SUBSET Topics /\ x.closed \in BOOLEAN /\ x.mu \in BOOLEAN
           /\ \A m \in BOOLEAN : /\ [x EXCEPT !.mu = m] \in subscriber
                                 /\ [x EXCEPT !.mu = m].topics = x.topics
                                 /\ [x EXCEPT !.mu = m].closed = x.closed
                                 /\ [x EXCEPT !.mu = m].mu = m
           /\ \A m \in BOOLEAN : /\ [x EXCEPT !.closed = m] \in subscriber
                                 /\ [x EXCEPT !.closed = m].topics = x.topics
                                 /\ [x EXCEPT !.closed = m].closed = m
                                 /\ [x EXCEPT !.closed = m].mu = x.mu
           /\ \A t \in SUBSET Topics : /\ [x EXCEPT !.topics = t] \in subscriber
                                       /\ [x EXCEPT !.topics = t].topics = t
                                       /\ [x EXCEPT !.topics = t].closed = x.closed
                                       /\ [x EXCEPT !.topics = t].mu = x.mu
<1>1. x.topics \in SUBSET Topics /\ x.closed \in BOOLEAN /\ x.mu \in BOOLEAN
  BY DEF subscriber
<1>2. ASSUME NEW m \in BOOLEAN
      PROVE  /\ [x EXCEPT !.mu = m] \in subscriber
             /\ [x EXCEPT !.mu = m].topics = x.topics
             /\ [x EXCEPT !.mu = m].closed = x.closed
             /\ [x EXCEPT !.mu = m].mu = m
  BY DEF subscriber
<1>3. ASSUME NEW m \in BOOLEAN
      PROVE  /\ [x EXCEPT !.closed = m] \in subscriber
             /\ [x EXCEPT !.closed = m].topics = x.topics
             /\ [x EXCEPT !.closed = m].closed = m
             /\ [x EXCEPT !.closed = m].mu = x.mu
  BY DEF subscriber
<1>4. ASSUME NEW t \in SUBSET Topics
      PROVE  /\ [x EXCEPT !.topics = t] \in subscriber
             /\ [x EXCEPT !.topics = t].topics = t
             /\ [x EXCEPT !.topics = t].closed = x.closed
             /\ [x EXCEPT !.topics = t].mu = x.mu
  BY DEF subscriber
<1> QED
  BY <1>1, <1>2, <1>3, <1>4, ZenonT(60)

\* Locking the mutex of a subscriber.
LEMMA LockKeeps ==
    ASSUME NEW own, Manager(own), NEW w \in Threads, Alters(w),
           th[w].pc \in {"lock", "ulock"}, ~sub[th[w].o].mu,
           th'[w].pc = IF th[w].pc = "lock" THEN "next" ELSE "unext",
           th'[w].o = th[w].o, th'[w].fresh = th[w].fresh,
           sub' = [sub EXCEPT ![th[w].o] = [@ EXCEPT !.mu = TRUE]],
           UNCHANGED <<subs, topics, cells, active>>
    PROVE  Keeps(own)
<1> DEFINE o == th[w].o
<1>1. Fits(th[w], own) /\ o \in DOMAIN sub /\ sub[o] \in subscriber
  BY DEF Manager, Shapes, Fits
<1>2. /\ [sub[o] EXCEPT !.mu = TRUE] \in subscriber
      /\ [sub[o] EXCEPT !.mu = TRUE].topics = sub[o].topics
      /\ [sub[o] EXCEPT !.mu = TRUE].closed = sub[o].closed
      /\ [sub[o] EXCEPT !.mu = TRUE].mu = TRUE
  BY <1>1, ObjectUpdates, ZenonT(60)
<1>3. /\ sub' \in Seq(subscriber) /\ DOMAIN sub' = DOMAIN sub
      /\ sub'[o] = [sub[o] EXCEPT !.mu = TRUE]
      /\ \A p \in DOMAIN sub \ {o} : sub'[p] = sub[p]
  BY <1>1, <1>2, SetObject, ZenonT(60) DEF Manager
<1>4. /\ \A p \in DOMAIN sub : sub'[p].topics = sub[p].topics
      /\ \A p \in DOMAIN sub : sub'[p].closed = sub[p].closed
      /\ \A p \in DOMAIN sub : p # o => sub'[p].mu = sub[p].mu
      /\ sub'[o].mu = TRUE
  BY <1>2, <1>3, ZenonT(60)
<1>5. th[w].pc \notin Holding /\ th'[w].pc \in Holding
  BY Roles
<1>6. \A v \in Threads : th[v].pc \in Holding => th[v].o # o
  BY <1>1 DEF Manager, Mutex
<1> HIDE DEF o
<1>7. Mutex'
  <2>1. ASSUME NEW p \in DOMAIN sub
        PROVE  sub'[p].mu <=> \E v \in Threads : th'[v].pc \in Holding /\ th'[v].o = p
    <3>1. CASE p = o
      BY <3>1, <1>4, <1>5, ZenonT(60) DEF o
    <3>2. CASE p # o
      <4>1. sub'[p].mu = sub[p].mu
        BY <3>2, <1>4, ZenonT(60)
      <4>2. ASSUME NEW v \in Threads
            PROVE  th'[v].pc \in Holding /\ th'[v].o = p <=> th[v].pc \in Holding /\ th[v].o = p
        BY <3>2, <1>5, ZenonT(60) DEF Alters, o
      <4>4. sub'[p].mu <=> sub[p].mu
        BY <4>1, ZenonT(60)
      <4>3. sub[p].mu <=> \E v \in Threads : th[v].pc \in Holding /\ th[v].o = p
        BY DEF Manager, Mutex
      <4> QED
        BY <4>4, <4>2, <4>3, ZenonT(60)
    <3> QED
      BY <3>1, <3>2
  <2>2. ASSUME NEW u \in Threads, NEW v \in Threads, th'[u].pc \in Holding,
               th'[v].pc \in Holding, th'[u].o = th'[v].o
        PROVE  u = v
    <3>1. CASE u # w /\ v # w
      <4>1. th[u].pc \in Holding /\ th[v].pc \in Holding /\ th[u].o = th[v].o
        BY <3>1, <2>2, ZenonT(60) DEF Alters
      <4> QED
        BY <4>1 DEF Manager, Mutex
    <3>2. CASE u = w \/ v = w
      BY <3>2, <2>2, <1>6, ZenonT(60) DEF Alters, o
    <3> QED
      BY <3>1, <3>2
  <2> QED
    BY <1>3, <2>1, <2>2, ZenonT(60) DEF Mutex
<1>8. Shapes'
  BY <1>3, ZenonT(60) DEF Manager, Shapes, Alters
<1>9. Lists(own)'
  <2>1. /\ DOMAIN sub \subseteq DOMAIN sub' /\ UNCHANGED <<topics, cells>>
        /\ \A p \in DOMAIN sub : sub[p].topics \subseteq sub'[p].topics
    BY <1>3, <1>4, ZenonT(60)
  <2> QED
    BY <2>1, ListsStable, ZenonT(60) DEF Manager
<1>10. ASSUME NEW v \in Threads PROVE Fits(th[v], own)'
  <2>1. CASE v # w
    <3>1. Fits(th[v], own) /\ th'[v] = th[v]
      BY <2>1, ZenonT(60) DEF Manager, Alters
    <3>2. th[v].pc \in Adding => sub'[th[v].o].topics = sub[th[v].o].topics
      BY <3>1, <1>4, ZenonT(60) DEF Fits, Holding
    <3>3. /\ DOMAIN sub \subseteq DOMAIN sub' /\ DOMAIN cells \subseteq DOMAIN cells'
          /\ \A c \in DOMAIN cells : own[c] = own[c]
      BY <1>3, ZenonT(60)
    <3> QED
      BY <3>1, <3>2, <3>3, OthersFit, ZenonT(60)
  <2>2. CASE v = w
    <3>1. th'[v].pc \in {"next", "unext"} /\ th'[v].o \in DOMAIN sub'
      BY <2>2, <1>1, <1>3 DEF o
    <3>2. th'[v].fresh => th'[v].pc = "next"
      BY <2>2, <1>1 DEF Fits, Adding
    <3> QED
      BY <3>1, <3>2 DEF Fits, Holding, Adding, Removing
  <2> QED
    BY <2>1, <2>2
<1>11. Manager(own)'
  BY <1>7, <1>8, <1>9, <1>10, ZenonT(60) DEF Manager
<1>12. Counted => Counted'
  <2>1. UNCHANGED <<subs, active>> /\ (th'[w].pc \in Leaving <=> th[w].pc \in Leaving)
    BY DEF Leaving, Removing
  <2> QED
    BY <2>1, LocalCount, ZenonT(60)
<1>13. ASSUME NEW k, Kept(k) PROVE Kept(k)'
  <2>1. UNCHANGED <<subs, topics, cells>> /\ \A i \in DOMAIN subs : subs[i] \in DOMAIN sub
    BY DEF Manager, Shapes
  <2>2. \A i \in DOMAIN subs : ~sub'[subs[i]].closed
    BY <1>13, <1>4, <2>1, ZenonT(60) DEF Kept
  <2>3. Serves(th[w])
    BY <1>13, ZenonT(60) DEF Kept
  <2>4. Serves(th[w])'
    BY <2>3 DEF Serves, Leaving, Removing
  <2> QED
    BY <1>13, <1>4, <2>1, <2>2, <2>4, KeptStable, ZenonT(60) DEF Manager
<1> QED
  BY <1>11, <1>12, <1>13, ZenonT(60) DEF Keeps

\* Subscribe locks its subscriber.
LEMMA SubscribeLockOK ==
    ASSUME NEW own, Manager(own), NEW w \in Threads, SubscribeLock(w)
    PROVE  Keeps(own)
<1>0. Fits(th[w], own) /\ th[w] \in Locals
  BY DEF Manager, Shapes
<1>1. th[w].pc = "lock" /\ ~sub[th[w].o].mu /\ th[w].o \in DOMAIN sub
  BY <1>0 DEF SubscribeLock, Fits
<1>2. sub[th[w].o].topics \in SUBSET Topics
  <2>1. sub[th[w].o] \in subscriber
    BY <1>1 DEF Manager, Shapes
  <2> QED
    BY <2>1, ObjectUpdates, ZenonT(60)
<1> DEFINE r == [th[w] EXCEPT !.pc = "next"]
<1>3. th'[w] = r /\ \A v \in Threads \ {w} : th'[v] = th[v]
  BY <1>0 DEF SubscribeLock, Manager, Shapes
<1>4. r \in Locals
  BY <1>0, <1>2, Updates, Roles, ZenonT(60)
<1>5. Alters(w)
  BY <1>3, <1>4 DEF SubscribeLock, Manager, Shapes, Alters
<1>6. r.pc = "next" /\ r.o = th[w].o /\ r.fresh = th[w].fresh
  BY <1>0 DEF Locals
<1> HIDE DEF r
<1>7. sub' = [sub EXCEPT ![th[w].o] = [@ EXCEPT !.mu = TRUE]]
  BY <1>1 DEF SubscribeLock, Manager, Shapes
<1>8. /\ th[w].pc \in {"lock", "ulock"} /\ UNCHANGED <<subs, topics, cells, active>>
      /\ r.pc = IF th[w].pc = "lock" THEN "next" ELSE "unext"
  BY <1>1, <1>6 DEF SubscribeLock
<1> QED
  BY <1>1, <1>3, <1>5, <1>6, <1>7, <1>8, LockKeeps, ZenonT(60)

\* Unsubscribe locks its subscriber and goes through its topics.
LEMMA UnsubscribeLockOK ==
    ASSUME NEW own, Manager(own), NEW w \in Threads, UnsubscribeLock(w)
    PROVE  Keeps(own)
<1>0. Fits(th[w], own) /\ th[w] \in Locals
  BY DEF Manager, Shapes
<1>1. th[w].pc = "ulock" /\ ~sub[th[w].o].mu /\ th[w].o \in DOMAIN sub
  BY <1>0 DEF UnsubscribeLock, Fits
<1>2. sub[th[w].o].topics \in SUBSET Topics
  <2>1. sub[th[w].o] \in subscriber
    BY <1>1 DEF Manager, Shapes
  <2> QED
    BY <2>1, ObjectUpdates, ZenonT(60)
<1> DEFINE r == [th[w] EXCEPT !.pc = "unext", !.ts = sub[th[w].o].topics]
<1>3. th'[w] = r /\ \A v \in Threads \ {w} : th'[v] = th[v]
  BY <1>0 DEF UnsubscribeLock, Manager, Shapes
<1>4. r \in Locals
  BY <1>0, <1>2, Updates, Roles, ZenonT(60)
<1>5. Alters(w)
  BY <1>3, <1>4 DEF UnsubscribeLock, Manager, Shapes, Alters
<1>6. r.pc = "unext" /\ r.o = th[w].o /\ r.fresh = th[w].fresh
  BY <1>0 DEF Locals
<1> HIDE DEF r
<1>7. sub' = [sub EXCEPT ![th[w].o] = [@ EXCEPT !.mu = TRUE]]
  BY <1>1 DEF UnsubscribeLock, Manager, Shapes
<1>8. /\ th[w].pc \in {"lock", "ulock"} /\ UNCHANGED <<subs, topics, cells, active>>
      /\ r.pc = IF th[w].pc = "lock" THEN "next" ELSE "unext"
  BY <1>1, <1>6 DEF UnsubscribeLock
<1> QED
  BY <1>1, <1>3, <1>5, <1>6, <1>7, <1>8, LockKeeps, ZenonT(60)

\* Unlocking the mutex of a subscriber as a call returns.
LEMMA UnlockManager ==
    ASSUME NEW own, Manager(own), NEW w \in Threads, Alters(w), th'[w] = Idle,
           th[w].pc \in {"next", "unext"}, NEW x \in subscriber,
           x.mu = FALSE, x.topics = sub[th[w].o].topics,
           sub' = [sub EXCEPT ![th[w].o] = x], UNCHANGED <<subs, topics, cells>>
    PROVE  Manager(own)'
<1> DEFINE o == th[w].o
<1>1. Fits(th[w], own) /\ th[w].pc \in Holding /\ o \in DOMAIN sub
  BY Roles DEF Manager, Fits
<1>2. /\ sub' \in Seq(subscriber) /\ DOMAIN sub' = DOMAIN sub /\ sub'[o] = x
      /\ \A p \in DOMAIN sub \ {o} : sub'[p] = sub[p]
  BY <1>1, SetObject, ZenonT(60) DEF Manager
<1>3. \A p \in DOMAIN sub : sub'[p].topics = sub[p].topics
  BY <1>2, ZenonT(60)
<1>4. Idle.pc = "idle" /\ ~Idle.fresh /\ "idle" \notin Holding
  BY IdleIs, Roles, ZenonT(60)
<1>5. \A v \in Threads \ {w} : th[v].pc \in Holding => th[v].o # o
  BY <1>1 DEF Manager, Mutex
<1> HIDE DEF o
<1>6. Mutex'
  <2>1. ASSUME NEW p \in DOMAIN sub
        PROVE  sub'[p].mu <=> \E v \in Threads : th'[v].pc \in Holding /\ th'[v].o = p
    <3>1. CASE p = o
      <4>1. ~sub'[p].mu
        BY <3>1, <1>2
      <4>2. ~\E v \in Threads : th'[v].pc \in Holding /\ th'[v].o = p
        BY <3>1, <1>4, <1>5, ZenonT(60) DEF Alters
      <4> QED
        BY <4>1, <4>2
    <3>2. CASE p # o
      <4>1. sub'[p].mu = sub[p].mu
        BY <3>2, <1>2, ZenonT(60)
      <4>2. sub'[p].mu <=> sub[p].mu
        BY <4>1, ZenonT(60)
      <4>3. ASSUME NEW v \in Threads
            PROVE  th'[v].pc \in Holding /\ th'[v].o = p <=> th[v].pc \in Holding /\ th[v].o = p
        BY <3>2, <1>4, ZenonT(60) DEF Alters, o
      <4>4. sub[p].mu <=> \E v \in Threads : th[v].pc \in Holding /\ th[v].o = p
        BY DEF Manager, Mutex
      <4> QED
        BY <4>2, <4>3, <4>4, ZenonT(60)
    <3> QED
      BY <3>1, <3>2
  <2>2. ASSUME NEW u \in Threads, NEW v \in Threads, th'[u].pc \in Holding,
               th'[v].pc \in Holding, th'[u].o = th'[v].o
        PROVE  u = v
    <3>1. th[u].pc \in Holding /\ th[v].pc \in Holding /\ th[u].o = th[v].o
      BY <2>2, <1>4, ZenonT(60) DEF Alters
    <3> QED
      BY <3>1 DEF Manager, Mutex
  <2> QED
    BY <1>2, <2>1, <2>2, ZenonT(60) DEF Mutex
<1>7. Shapes'
  BY <1>2, ZenonT(60) DEF Manager, Shapes, Alters
<1>8. Lists(own)'
  <2>1. /\ DOMAIN sub \subseteq DOMAIN sub' /\ UNCHANGED <<topics, cells>>
        /\ \A p \in DOMAIN sub : sub[p].topics \subseteq sub'[p].topics
    BY <1>2, <1>3, ZenonT(60)
  <2> QED
    BY <2>1, ListsStable, ZenonT(60) DEF Manager
<1>9. ASSUME NEW v \in Threads PROVE Fits(th[v], own)'
  <2>1. CASE v # w
    <3>1. Fits(th[v], own) /\ th'[v] = th[v]
      BY <2>1, ZenonT(60) DEF Manager, Alters
    <3>2. th[v].pc \in Adding => sub'[th[v].o].topics = sub[th[v].o].topics
      BY <3>1, <1>3, ZenonT(60) DEF Fits, Holding
    <3>3. /\ DOMAIN sub \subseteq DOMAIN sub' /\ DOMAIN cells \subseteq DOMAIN cells'
          /\ \A c \in DOMAIN cells : own[c] = own[c]
      BY <1>2, ZenonT(60)
    <3> QED
      BY <3>1, <3>2, <3>3, OthersFit, ZenonT(60)
  <2>2. CASE v = w
    BY <2>2, <1>4 DEF Fits, Holding, Adding, Removing
  <2> QED
    BY <2>1, <2>2
<1> QED
  BY <1>6, <1>7, <1>8, <1>9, ZenonT(60) DEF Manager

\* A subscriber that nobody is registered with may be closed.
LEMMA UnlockKept ==
    ASSUME NEW own, Manager(own), NEW w \in Threads, Alters(w), th'[w] = Idle,
           th[w].o \in DOMAIN sub, NEW x \in subscriber, x.topics = sub[th[w].o].topics,
           x.closed = sub[th[w].o].closed \/ \A i \in DOMAIN subs : subs[i] # th[w].o,
           sub' = [sub EXCEPT ![th[w].o] = x], UNCHANGED <<subs, topics, cells>>,
           NEW k, Kept(k)
    PROVE  Kept(k)'
<1>1. /\ DOMAIN sub' = DOMAIN sub /\ sub'[th[w].o] = x
      /\ \A p \in DOMAIN sub \ {th[w].o} : sub'[p] = sub[p]
  BY SetObject, ZenonT(60) DEF Manager
<1>2. \A p \in DOMAIN sub : sub'[p].topics = sub[p].topics
  BY <1>1, ZenonT(60)
<1>3. \A i \in DOMAIN subs : subs[i] \in DOMAIN sub
  BY DEF Manager, Shapes
<1>4. ASSUME NEW i \in DOMAIN subs PROVE ~sub'[subs[i]].closed
  <2>1. ~sub[subs[i]].closed
    BY DEF Kept
  <2>2. CASE subs[i] = th[w].o
    BY <2>1, <2>2, <1>1, ZenonT(60)
  <2>3. CASE subs[i] # th[w].o
    BY <2>1, <2>3, <1>1, <1>3, ZenonT(60)
  <2> QED
    BY <2>2, <2>3
<1>5. Serves(th[w])'
  BY IdleIs DEF Serves, Leaving, Removing
<1> QED
  BY <1>2, <1>4, <1>5, KeptStable, ZenonT(60) DEF Manager

\* Subscribe returns and counts a subscriber it has registered.
LEMMA SubscribeReturnOK ==
    ASSUME Counting, NEW own, Manager(own), NEW w \in Threads, SubscribeReturn(w)
    PROVE  Keeps(own)
<1>0. Fits(th[w], own) /\ th[w] \in Locals
  BY DEF Manager, Shapes
<1>1. th[w].pc = "next" /\ th[w].o \in DOMAIN sub /\ sub[th[w].o] \in subscriber
  BY <1>0 DEF SubscribeReturn, Fits, Holding, Manager, Shapes
<1>2. th'[w] = Idle /\ Alters(w)
  BY IdleIs DEF SubscribeReturn, Manager, Shapes, Alters
<1> DEFINE x == [sub[th[w].o] EXCEPT !.mu = FALSE]
<1>3. x \in subscriber /\ x.mu = FALSE /\ x.topics = sub[th[w].o].topics /\ x.closed = sub[th[w].o].closed
  BY <1>1, ObjectUpdates, ZenonT(60)
<1>4. sub' = [sub EXCEPT ![th[w].o] = x] /\ UNCHANGED <<subs, topics, cells>>
  BY <1>1 DEF SubscribeReturn, Manager, Shapes
<1> HIDE DEF x
<1>5. Manager(own)'
  BY <1>1, <1>2, <1>3, <1>4, UnlockManager, ZenonT(60)
<1>6. ASSUME NEW k, Kept(k) PROVE Kept(k)'
  BY <1>1, <1>2, <1>3, <1>4, <1>6, UnlockKept, ZenonT(60)
<1>7. ASSUME Counted PROVE Counted'
  <2>1. Coming' = Coming \ {w}
    BY <1>2, IdleIs, ZenonT(60) DEF Coming, Alters
  <2>2. Going' = Going
    BY <1>1, <1>2, IdleIs, Roles, ZenonT(60) DEF Going, Alters
  <2>3. active' = IF w \in Coming THEN active + 1 ELSE active
    BY DEF SubscribeReturn, Coming
  <2>4. /\ IsFiniteSet(Coming') /\ Cardinality(Coming) \in Nat
        /\ Cardinality(Coming') = IF w \in Coming THEN Cardinality(Coming) - 1
                                   ELSE Cardinality(Coming)
    <3>1. CASE w \in Coming
      BY <3>1, <2>1, <1>7, ZenonT(60) DEF Counting, Counted
    <3>2. CASE w \notin Coming
      <4>1. Coming' = Coming
        BY <3>2, <2>1
      <4> QED
        BY <3>2, <4>1, <1>7 DEF Counting, Counted
    <3> QED
      BY <3>1, <3>2
  <2>5. Cardinality(DOMAIN subs) \in Nat /\ Cardinality(Going) \in Nat
    BY <1>7 DEF Counting, Counted
  <2> QED
    BY <1>4, <1>7, <2>2, <2>3, <2>4, <2>5 DEF Counted
<1> QED
  BY <1>5, <1>6, <1>7, ZenonT(60) DEF Keeps

\* Closing and unlocking a subscriber object.
LEMMA CloseObject ==
    ASSUME NEW f \in Seq(subscriber), NEW o \in DOMAIN f
    PROVE  [f EXCEPT ![o].closed = TRUE, ![o].mu = FALSE]
             = [f EXCEPT ![o] = [[f[o] EXCEPT !.closed = TRUE] EXCEPT !.mu = FALSE]]
<1>1. f = [i \in DOMAIN f |-> f[i]]
  OBVIOUS
<1> QED
  BY <1>1, ZenonT(60)

\* Unsubscribe closes the subscriber, counts it and returns.
LEMMA UnsubscribeReturnOK ==
    ASSUME Counting, NEW own, Manager(own), NEW w \in Threads, UnsubscribeReturn(w)
    PROVE  Keeps(own)
<1>0. Fits(th[w], own) /\ th[w] \in Locals
  BY DEF Manager, Shapes
<1>1. th[w].pc = "unext" /\ th[w].o \in DOMAIN sub /\ sub[th[w].o] \in subscriber /\ th[w].fresh = FALSE
  BY <1>0, Fields DEF UnsubscribeReturn, Fits, Holding, Adding, Manager, Shapes
<1>2. th'[w] = Idle /\ Alters(w)
  BY IdleIs DEF UnsubscribeReturn, Manager, Shapes, Alters
<1> DEFINE y == [sub[th[w].o] EXCEPT !.closed = TRUE]
<1> DEFINE x == [y EXCEPT !.mu = FALSE]
<1>8. y \in subscriber /\ y.topics = sub[th[w].o].topics
  BY <1>1, ObjectUpdates, ZenonT(60)
<1>3. x \in subscriber /\ x.mu = FALSE /\ x.topics = sub[th[w].o].topics
  BY <1>8, ObjectUpdates, ZenonT(60)
<1>4. sub' = [sub EXCEPT ![th[w].o] = x] /\ UNCHANGED <<subs, topics, cells>>
  <2>1. sub' = [sub EXCEPT ![th[w].o].closed = TRUE, ![th[w].o].mu = FALSE]
    BY DEF UnsubscribeReturn
  <2>2. sub \in Seq(subscriber)
    BY DEF Manager, Shapes
  <2> QED
    BY <1>1, <2>1, <2>2, CloseObject, ZenonT(60) DEF UnsubscribeReturn
<1> HIDE DEF x
<1>5. Manager(own)'
  BY <1>1, <1>2, <1>3, <1>4, UnlockManager, ZenonT(60)
<1>6. ASSUME NEW k, Kept(k) PROVE Kept(k)'
  <2>1. Serves(th[w])
    BY <1>6 DEF Kept
  <2>2. \A i \in DOMAIN subs : subs[i] # th[w].o
    BY <2>1, <1>1, Roles, ZenonT(60) DEF Serves
  <2> QED
    BY <1>1, <1>2, <1>3, <1>4, <1>6, <2>2, UnlockKept, ZenonT(60)
<1>7. ASSUME Counted PROVE Counted'
  <2>1. Going' = Going \ {w} /\ w \in Going
    BY <1>1, <1>2, IdleIs, Roles, ZenonT(60) DEF Going, Alters
  <2>2. Coming' = Coming
    BY <1>1, <1>2, IdleIs, ZenonT(60) DEF Coming, Alters
  <2>3. active' = active - 1
    BY DEF UnsubscribeReturn
  <2>4. /\ IsFiniteSet(Going') /\ Cardinality(Going) \in Nat
        /\ Cardinality(Going') = Cardinality(Going) - 1
    BY <2>1, <1>7, ZenonT(60) DEF Counting, Counted
  <2>5. Cardinality(DOMAIN subs) \in Nat /\ Cardinality(Coming) \in Nat
    BY <1>7 DEF Counting, Counted
  <2> QED
    BY <1>4, <1>7, <2>2, <2>3, <2>4, <2>5 DEF Counted
<1> QED
  BY <1>5, <1>6, <1>7, ZenonT(60) DEF Keeps

\* Subscribe registers a subscriber, unless one has been registered meanwhile.
LEMMA SubscribeInsertOK ==
    ASSUME Counting, NEW own, Manager(own), NEW w \in Threads, SubscribeInsert(w)
    PROVE  Keeps(own)
<1>0. Fits(th[w], own) /\ th[w] \in Locals
  BY DEF Manager, Shapes
<1>1. th[w].pc = "insert" /\ th[w].fresh = FALSE /\ th[w].id \in IDs
  BY <1>0 DEF Fits, SubscribeInsert, Holding, Adding, Removing, Locals
<1>2. CASE th[w].id \in DOMAIN subs
  <2>1. th' = [th EXCEPT ![w].pc = "lock", ![w].o = subs[th[w].id]]
    BY <1>0, <1>1, <1>2, ZenonT(60) DEF SubscribeInsert
  <2>2. subs[th[w].id] \in DOMAIN sub /\ subs[th[w].id] \in Nat
    BY <1>1, <1>2, <2>1 DEF Manager, Shapes
  <2> DEFINE r == [th[w] EXCEPT !.pc = "lock", !.o = subs[th[w].id]]
  <2>3. th'[w] = r /\ \A v \in Threads \ {w} : th'[v] = th[v]
    BY <1>0, <1>1, <1>2, <2>1 DEF Manager, Shapes
  <2>4. r \in Locals
    BY <1>0, <1>1, <2>2, IdleIs, Fields, Updates, Roles, ZenonT(60)
  <2>5. Alters(w)
    BY <1>0, <1>1, <1>2, <2>1, <2>3, <2>4 DEF Manager, Shapes, Alters
  <2>6. r.pc = "lock" /\ r.o = subs[th[w].id] /\ r.fresh = th[w].fresh
    BY <1>0, IdleIs DEF Locals
  <2> HIDE DEF r
  <2>7. Fits(r, own)
    BY <1>0, <1>1, <1>2, <2>1, <2>2, <2>6 DEF Fits, Holding, Adding, Removing
  <2>8. ASSUME NEW k, Kept(k) PROVE Serves(r)
    BY <2>6 DEF Serves, Leaving, Removing
  <2>9. UNCHANGED <<subs, sub, topics, cells, active>>
    BY <1>2, ZenonT(60) DEF SubscribeInsert
  <2> QED
    BY <1>0, <1>1, <2>3, <2>5, <2>6, <2>7, <2>8, <2>9, LocalKeeps, Roles, ZenonT(60)
<1>3. CASE th[w].id \notin DOMAIN subs
  <2> DEFINE n == Len(sub) + 1
             x == [topics |-> {}, closed |-> FALSE, mu |-> FALSE]
             r == [th[w] EXCEPT !.pc = "lock", !.o = n, !.fresh = TRUE]
             i == th[w].id
  <2>1. /\ sub' = Append(sub, x) /\ subs' = With(subs, i, n)
        /\ th' = [th EXCEPT ![w].pc = "lock", ![w].o = n, ![w].fresh = TRUE]
        /\ UNCHANGED <<topics, cells, active>>
    BY <1>3, ZenonT(60) DEF SubscribeInsert
  <2>2. sub \in Seq(subscriber) /\ x \in subscriber
    BY DEF Manager, Shapes, subscriber
  <2>3. /\ sub' \in Seq(subscriber) /\ DOMAIN sub' = DOMAIN sub \union {n} /\ n \notin DOMAIN sub
        /\ sub'[n] = x /\ \A p \in DOMAIN sub : sub'[p] = sub[p]
    BY <2>1, <2>2
  <2>4. x.topics = {} /\ ~x.closed /\ ~x.mu /\ n \in Nat
    BY <2>2
  <2>5. /\ DOMAIN subs' = DOMAIN subs \union {i} /\ subs'[i] = n
        /\ \A j \in DOMAIN subs : subs'[j] = subs[j] /\ subs[j] \in DOMAIN sub
        /\ subs' \in [DOMAIN subs' -> DOMAIN sub'] /\ DOMAIN subs' \subseteq IDs
    BY <1>1, <1>3, <2>1, <2>3 DEF With, Manager, Shapes
  <2>6. th'[w] = r /\ \A v \in Threads \ {w} : th'[v] = th[v]
    BY <1>0, <2>1 DEF Manager, Shapes
  <2>7. r \in Locals
    BY <1>0, <2>4, Updates, Roles, ZenonT(60)
  <2>8. Alters(w)
    BY <2>1, <2>6, <2>7 DEF Manager, Shapes, Alters
  <2>9. r.pc = "lock" /\ r.o = n /\ r.fresh = TRUE
    BY <1>0 DEF Locals
  <2> HIDE DEF n, x, r, i
  <2>10. \A v \in Threads : th[v].pc \in Holding \union {"lock", "ulock"} => th[v].o \in DOMAIN sub
    BY ZenonT(60) DEF Manager, Fits
  <2>11. \A v \in Threads : th'[v].pc \in Holding <=> v # w /\ th[v].pc \in Holding
    BY <1>1, <2>6, <2>9, Roles, ZenonT(60)
  <2>12. th[w].pc \notin Holding
    BY <1>1, Roles, ZenonT(60)
  <2>13. Mutex'
    <3>1. ASSUME NEW p \in DOMAIN sub'
          PROVE  sub'[p].mu <=> \E v \in Threads : th'[v].pc \in Holding /\ th'[v].o = p
      <4>1. CASE p = n
        <5>1. ~sub'[p].mu
          BY <4>1, <2>3, <2>4, ZenonT(60)
        <5>2. ~\E v \in Threads : th'[v].pc \in Holding /\ th'[v].o = p
          BY <4>1, <2>3, <2>6, <2>10, <2>11, ZenonT(60)
        <5> QED
          BY <5>1, <5>2
      <4>2. CASE p # n
        <5>1. p \in DOMAIN sub /\ sub'[p] = sub[p]
          BY <4>2, <2>3, ZenonT(60)
        <5>2. sub'[p].mu <=> sub[p].mu
          BY <5>1, ZenonT(60)
        <5>3. ASSUME NEW v \in Threads
              PROVE  th'[v].pc \in Holding /\ th'[v].o = p <=> th[v].pc \in Holding /\ th[v].o = p
          BY <2>6, <2>11, <2>12, ZenonT(60)
        <5>4. sub[p].mu <=> \E v \in Threads : th[v].pc \in Holding /\ th[v].o = p
          BY <5>1, ZenonT(60) DEF Manager, Mutex
        <5> QED
          BY <5>2, <5>3, <5>4, ZenonT(60)
      <4> QED
        BY <4>1, <4>2
    <3>2. ASSUME NEW u \in Threads, NEW v \in Threads, th'[u].pc \in Holding,
                 th'[v].pc \in Holding, th'[u].o = th'[v].o
          PROVE  u = v
      <4>1. th[u].pc \in Holding /\ th[v].pc \in Holding /\ th[u].o = th[v].o
        BY <3>2, <2>6, <2>11, ZenonT(60)
      <4> QED
        BY <4>1, ZenonT(60) DEF Manager, Mutex
    <3> QED
      BY <3>1, <3>2, ZenonT(60) DEF Mutex
  <2>14. Shapes'
    BY <2>1, <2>3, <2>5, <2>8, ZenonT(60) DEF Manager, Shapes, Alters
  <2>15. Lists(own)'
    <3>1. /\ DOMAIN sub \subseteq DOMAIN sub' /\ UNCHANGED <<topics, cells>>
          /\ \A p \in DOMAIN sub : sub[p].topics \subseteq sub'[p].topics
      BY <2>1, <2>3, ZenonT(60)
    <3> QED
      BY <3>1, ListsStable, ZenonT(60) DEF Manager
  <2>16. ASSUME NEW v \in Threads PROVE Fits(th[v], own)'
    <3>1. CASE v # w
      <4>1. Fits(th[v], own) /\ th'[v] = th[v]
        BY <3>1, <2>6, ZenonT(60) DEF Manager
      <4>2. th[v].pc \in Adding => sub'[th[v].o].topics = sub[th[v].o].topics
        BY <2>3, <2>10, ZenonT(60) DEF Holding
      <4>3. /\ DOMAIN sub \subseteq DOMAIN sub' /\ DOMAIN cells \subseteq DOMAIN cells'
            /\ \A c \in DOMAIN cells : own[c] = own[c]
        BY <2>1, <2>3, ZenonT(60)
      <4> QED
        BY <4>1, <4>2, <4>3, OthersFit, ZenonT(60)
    <3>2. CASE v = w
      <4>1. th'[v].pc = "lock" /\ th'[v].o \in DOMAIN sub'
        BY <3>2, <2>3, <2>6, <2>9, ZenonT(60)
      <4> QED
        BY <4>1 DEF Fits, Holding, Adding, Removing
    <3> QED
      BY <3>1, <3>2
  <2>17. Manager(own)'
    BY <2>13, <2>14, <2>15, <2>16, ZenonT(60) DEF Manager
  <2>18. ASSUME Counted PROVE Counted'
    <3>1. Coming' = Coming \union {w} /\ w \notin Coming
      BY <1>1, <2>6, <2>9, ZenonT(60) DEF Coming
    <3>2. Going' = Going
      BY <1>1, <2>6, <2>9, Roles, ZenonT(60) DEF Going
    <3>3. /\ IsFiniteSet(Coming') /\ Cardinality(Coming) \in Nat
          /\ Cardinality(Coming') = Cardinality(Coming) + 1
      BY <3>1, <2>18, ZenonT(60) DEF Counting, Counted
    <3>4. /\ IsFiniteSet(DOMAIN subs') /\ Cardinality(DOMAIN subs) \in Nat
          /\ Cardinality(DOMAIN subs') = Cardinality(DOMAIN subs) + 1
      <4>1. i \notin DOMAIN subs /\ DOMAIN subs' = DOMAIN subs \union {i}
        BY <1>3, <2>5 DEF i
      <4> QED
        BY <2>18, <4>1, ZenonT(60) DEF Counting, Counted
    <3>5. Cardinality(Going) \in Nat
      BY <2>18 DEF Counting, Counted
    <3> QED
      <4>1. active' = active
        BY <2>1
      <4> QED
        BY <2>18, <3>2, <3>3, <3>4, <3>5, <4>1 DEF Counted
  <2>19. ASSUME NEW k, Kept(k) PROVE Kept(k)'
    <3>1. /\ DOMAIN topics' = Topics /\ k \in DOMAIN subs' /\ subs'[k] = subs[k]
          /\ sub'[subs'[k]].topics = Topics
      BY <2>1, <2>3, <2>5, <2>19, ZenonT(60) DEF Kept
    <3>2. \A j \in DOMAIN subs' : j = i \/ j \in DOMAIN subs
      BY <2>5, ZenonT(60)
    <3>3. IsInjective(subs')
      <4>1. \A j, l \in DOMAIN subs : subs[j] = subs[l] => j = l
        BY <2>19, ZenonT(60) DEF Kept, IsInjective
      <4>2. ASSUME NEW j \in DOMAIN subs', NEW l \in DOMAIN subs', subs'[j] = subs'[l]
            PROVE  j = l
        BY <2>3, <2>5, <3>2, <4>1, <4>2, ZenonT(60)
      <4> QED
        BY <4>2, ZenonT(60) DEF IsInjective
    <3>4. ASSUME NEW j \in DOMAIN subs' PROVE ~sub'[subs'[j]].closed
      <4>1. CASE j = i
        BY <4>1, <2>3, <2>4, <2>5, ZenonT(60)
      <4>2. CASE j \in DOMAIN subs
        BY <4>2, <2>3, <2>5, <2>19, ZenonT(60) DEF Kept
      <4> QED
        BY <3>2, <4>1, <4>2, ZenonT(60)
    <3>5. ASSUME NEW j \in DOMAIN subs', NEW t \in sub'[subs'[j]].topics
          PROVE  subs'[j] \in Range(cells'[topics'[t]])
      <4>1. CASE j = i
        BY <4>1, <2>3, <2>4, <2>5, ZenonT(60)
      <4>2. CASE j \in DOMAIN subs
        <5>1. t \in sub[subs[j]].topics /\ subs'[j] = subs[j]
          BY <4>2, <2>3, <2>5, ZenonT(60)
        <5> QED
          BY <4>2, <5>1, <2>1, <2>19, ZenonT(60) DEF Kept
      <4> QED
        BY <3>2, <4>1, <4>2, ZenonT(60)
    <3>6. ASSUME NEW v \in Threads PROVE Serves(th[v])'
      <4>1. CASE v = w
        <5>1. th'[v].pc = "lock"
          BY <4>1, <2>6, <2>9, ZenonT(60)
        <5> QED
          BY <5>1 DEF Serves, Leaving, Removing
      <4>2. CASE v # w
        <5>1. Serves(th[v]) /\ th'[v] = th[v]
          BY <4>2, <2>6, <2>19, ZenonT(60) DEF Kept
        <5>6. ASSUME NEW o, NEW j \in DOMAIN subs, subs[j] = o
              PROVE  j \in DOMAIN subs' /\ subs'[j] = o /\ sub'[o] = sub[o]
          BY <5>6, <2>3, <2>5, ZenonT(60)
        <5>2. ASSUME th[v].pc \in Leaving, NEW j \in DOMAIN subs' PROVE subs'[j] # th[v].o
          <6>1. th[v].o \in DOMAIN sub
            BY <5>2, <2>10, ZenonT(60) DEF Leaving, Holding
          <6> QED
            BY <5>1, <5>2, <6>1, <2>3, <2>5, <3>2, ZenonT(60) DEF Serves
        <5>3. ASSUME th[v].pc = "pload"
              PROVE  \E t \in Topics : /\ th[v].cell = topics[t]
                                       /\ \A o \in th[v].must : \E j \in DOMAIN subs' :
                                            subs'[j] = o /\ t \in sub'[o].topics
          <6>1. PICK t \in Topics : /\ th[v].cell = topics[t]
                                    /\ \A o \in th[v].must : \E j \in DOMAIN subs :
                                         subs[j] = o /\ t \in sub[o].topics
            BY <5>1, <5>3, ZenonT(60) DEF Serves
          <6>2. ASSUME NEW o \in th[v].must
                PROVE  \E j \in DOMAIN subs' : subs'[j] = o /\ t \in sub'[o].topics
            <7>1. PICK j \in DOMAIN subs : subs[j] = o /\ t \in sub[o].topics
              BY <6>1, ZenonT(60)
            <7> QED
              BY <5>6, <7>1, ZenonT(60)
          <6> QED
            BY <6>1, <6>2, ZenonT(60)
        <5>4. ASSUME th[v].pc = "send", NEW o \in th[v].must
              PROVE  /\ \E j \in DOMAIN subs' : subs'[j] = o
                     /\ o \in Range(th[v].list) \union Range(th[v].seen)
          <6>1. /\ \E j \in DOMAIN subs : subs[j] = o
                /\ o \in Range(th[v].list) \union Range(th[v].seen)
            BY <5>1, <5>4, ZenonT(60) DEF Serves
          <6> QED
            BY <6>1, <5>6, ZenonT(60)
        <5>5. topics' = topics
          BY <2>1
        <5> QED
          BY <5>1, <5>2, <5>3, <5>4, <5>5, ZenonT(60) DEF Serves
      <4> QED
        BY <4>1, <4>2
    <3> QED
      BY <3>1, <3>3, <3>4, <3>5, <3>6, ZenonT(60) DEF Kept
  <2> QED
    BY <2>17, <2>18, <2>19, ZenonT(60) DEF Keeps
<1> QED
  BY <1>2, <1>3

\* A list without repetitions gains a new member.
LEMMA AppendInjective ==
    ASSUME NEW l \in subList, IsInjective(l), NEW x \in Nat, x \notin Range(l)
    PROVE  IsInjective(Append(l, x))
<1>1. /\ DOMAIN Append(l, x) = DOMAIN l \union {Len(l) + 1} /\ Append(l, x)[Len(l) + 1] = x
      /\ \A k \in DOMAIN l : Append(l, x)[k] = l[k]
  BY DEF subList
<1>2. \A i, j \in DOMAIN l : l[i] = l[j] => i = j
  BY ZenonT(60) DEF IsInjective
<1>3. \A i \in DOMAIN l : l[i] # x
  BY ZenonT(60) DEF Range
<1>4. ASSUME NEW i \in DOMAIN Append(l, x), NEW j \in DOMAIN Append(l, x),
             Append(l, x)[i] = Append(l, x)[j]
      PROVE  i = j
  BY <1>1, <1>2, <1>3, <1>4, ZenonT(60)
<1> QED
  BY <1>4, ZenonT(60) DEF IsInjective

\* A subscriber gains a topic.
LEMMA TopicUpdate ==
    ASSUME NEW x \in subscriber, NEW S \in SUBSET Topics
    PROVE  /\ [x EXCEPT !.topics = S] \in subscriber /\ [x EXCEPT !.topics = S].topics = S
           /\ [x EXCEPT !.topics = S].closed = x.closed /\ [x EXCEPT !.topics = S].mu = x.mu
  BY DEF subscriber

\* Subscribe replaces the list it has read by one that also holds its subscriber.
LEMMA SubscribeCASOK ==
    ASSUME NEW own, Manager(own), NEW w \in Threads, SubscribeCAS(w)
    PROVE  Keeps(own)
<1>0. Fits(th[w], own) /\ th[w] \in Locals
  BY DEF Manager, Shapes
<1>1. /\ th[w].pc = "cas" /\ th[w].o \in DOMAIN sub /\ th[w].t \in Topics
      /\ th[w].t \notin sub[th[w].o].topics
      /\ th[w].cell \in DOMAIN cells /\ own[th[w].cell] = th[w].t
  BY <1>0 DEF Fits, SubscribeCAS, Holding, Adding, Removing, Locals
<1>2. CASE cells[th[w].cell] # th[w].list
  <2>1. th' = [th EXCEPT ![w].pc = "find"]
    BY <1>0, <1>1, <1>2, ZenonT(60) DEF SubscribeCAS
  <2> DEFINE r == [th[w] EXCEPT !.pc = "find"]
  <2>3. th'[w] = r /\ \A v \in Threads \ {w} : th'[v] = th[v]
    BY <1>0, <1>1, <1>2, <2>1 DEF Manager, Shapes
  <2>4. r \in Locals
    BY <1>0, <1>1, IdleIs, Fields, Updates, Roles, ZenonT(60)
  <2>5. Alters(w)
    BY <1>0, <1>1, <1>2, <2>1, <2>3, <2>4 DEF Manager, Shapes, Alters
  <2>6. /\ r.pc = "find" /\ r.o = th[w].o /\ r.t = th[w].t /\ r.cell = th[w].cell /\ r.fresh = th[w].fresh
    BY <1>0, IdleIs DEF Locals
  <2> HIDE DEF r
  <2>7. Fits(r, own)
    BY <1>0, <1>1, <1>2, <2>1, <2>6 DEF Fits, Holding, Adding, Removing
  <2>8. ASSUME NEW k, Kept(k) PROVE Serves(r)
    <3>1. Serves(th[w])
      BY <2>8 DEF Kept
    <3> QED
      BY <3>1, <1>0, <1>1, <1>2, <2>1, <2>6 DEF Serves, Leaving, Removing
  <2>9. UNCHANGED <<subs, sub, topics, cells, active>>
    BY <1>2, ZenonT(60) DEF SubscribeCAS
  <2> QED
    BY <1>0, <1>1, <2>3, <2>5, <2>6, <2>7, <2>8, <2>9, LocalKeeps, Roles, ZenonT(60)
<1>3. CASE cells[th[w].cell] = th[w].list
  <2> DEFINE o == th[w].o
             c == th[w].cell
             t == th[w].t
             x == [sub[o] EXCEPT !.topics = sub[o].topics \union {t}]
             l == Append(cells[c], o)
             r == [th[w] EXCEPT !.pc = "next", !.ts = th[w].ts \ {t}]
  <2>1. /\ cells' = [cells EXCEPT ![c] = Append(@, o)]
        /\ sub' = [sub EXCEPT ![o].topics = @ \union {t}]
        /\ th' = [th EXCEPT ![w].pc = "next", ![w].ts = @ \ {t}]
        /\ subs' = subs /\ topics' = topics /\ active' = active
    BY <1>3 DEF SubscribeCAS
  <2>2. /\ sub[o] \in subscriber /\ cells[c] \in subList /\ o \in Nat
        /\ cells \in Seq(subList) /\ sub \in Seq(subscriber)
    BY <1>1 DEF Manager, Shapes
  <2>3. /\ x \in subscriber /\ x.topics = sub[o].topics \union {t}
        /\ x.closed = sub[o].closed /\ x.mu = sub[o].mu
    <3>1. sub[o].topics \union {t} \in SUBSET Topics
      BY <1>1, <2>2, ObjectUpdates, ZenonT(60)
    <3> QED
      BY <3>1, <2>2, TopicUpdate, ZenonT(60)
  <2>4. sub' = [sub EXCEPT ![o] = x]
    BY <1>1, <2>1, <2>2
  <2>5. l \in subList /\ Range(l) = Range(cells[c]) \union {o}
    BY <2>2, AppendRange, ZenonT(60)
  <2>6. /\ cells' \in Seq(subList) /\ DOMAIN cells' = DOMAIN cells /\ cells'[c] = l
        /\ \A d \in DOMAIN cells \ {c} : cells'[d] = cells[d]
    BY <1>1, <2>1, <2>2, <2>5
  <2>7. th[w].ts \ {t} \in SUBSET Topics
    BY <1>0, Fields, ZenonT(60)
  <2>8. th'[w] = r /\ \A v \in Threads \ {w} : th'[v] = th[v]
    BY <1>0, <2>1 DEF Manager, Shapes
  <2>9. r \in Locals
    BY <1>0, <2>7, Updates, Roles, ZenonT(60)
  <2>10. Alters(w)
    BY <2>1, <2>8, <2>9 DEF Manager, Shapes, Alters
  <2>11. r.pc = "next" /\ r.o = o /\ r.fresh = th[w].fresh
    BY <1>0 DEF Locals
  <2> HIDE DEF x, l, r
  <2>12. /\ sub' \in Seq(subscriber) /\ DOMAIN sub' = DOMAIN sub /\ sub'[o] = x
         /\ \A p \in DOMAIN sub \ {o} : sub'[p] = sub[p]
    BY <1>1, <2>3, <2>4, SetObject, ZenonT(60) DEF Manager
  <2>13. /\ \A p \in DOMAIN sub : sub[p].topics \subseteq sub'[p].topics
         /\ \A p \in DOMAIN sub : sub'[p].closed = sub[p].closed
         /\ \A p \in DOMAIN sub : sub'[p].mu = sub[p].mu
    BY <2>3, <2>12, ZenonT(60)
  <2>14. Shapes'
    BY <2>1, <2>6, <2>10, <2>12, ZenonT(60) DEF Manager, Shapes, Alters
  <2>15. Mutex'
    <3>1. th'[w].pc \in Holding /\ th[w].pc \in Holding /\ th'[w].o = th[w].o
      BY <1>1, <2>8, <2>11, Roles, ZenonT(60)
    <3> QED
      BY <3>1, <2>10, <2>12, <2>13, MutexStable, ZenonT(60) DEF Manager
  <2>16. IsInjective(l)
    <3>1. \A k \in DOMAIN cells[c] : t \in sub[cells[c][k]].topics
      BY <1>1, ZenonT(60) DEF Manager, Lists
    <3>2. o \notin Range(cells[c])
      BY <3>1, <1>1, ZenonT(60) DEF Range
    <3>3. IsInjective(cells[c])
      BY <1>1, ZenonT(60) DEF Manager, Lists
    <3> QED
      BY <2>2, <3>2, <3>3, AppendInjective, ZenonT(60) DEF l
  <2>17. ASSUME NEW d \in DOMAIN cells
         PROVE  /\ IsInjective(cells'[d])
                /\ \A k \in DOMAIN cells'[d] : /\ cells'[d][k] \in DOMAIN sub'
                                               /\ own[d] \in sub'[cells'[d][k]].topics
    <3>1. /\ IsInjective(cells[d])
          /\ \A k \in DOMAIN cells[d] : cells[d][k] \in DOMAIN sub /\ own[d] \in sub[cells[d][k]].topics
      BY ZenonT(60) DEF Manager, Lists
    <3>2. CASE d # c
      BY <3>1, <3>2, <2>6, <2>12, <2>13, ZenonT(60)
    <3>3. CASE d = c
      <4>1. ASSUME NEW k \in DOMAIN l PROVE l[k] \in DOMAIN sub /\ t \in sub'[l[k]].topics
        <5>1. l[k] \in Range(cells[c]) \/ l[k] = o
          BY <2>5, ZenonT(60) DEF Range
        <5>2. CASE l[k] = o
          BY <5>2, <1>1, <2>3, <2>12, ZenonT(60)
        <5>3. CASE l[k] \in Range(cells[c])
          <6>1. PICK j \in DOMAIN cells[c] : cells[c][j] = l[k]
            BY <5>3, ZenonT(60) DEF Range
          <6> QED
            BY <6>1, <3>1, <3>3, <1>1, <2>13, ZenonT(60)
        <5> QED
          BY <5>1, <5>2, <5>3
      <4> QED
        BY <4>1, <3>3, <1>1, <2>6, <2>12, <2>16, ZenonT(60)
    <3> QED
      BY <3>2, <3>3
  <2>18. Lists(own)'
    BY <2>1, <2>6, <2>17, ZenonT(60) DEF Manager, Lists
  <2>19. ASSUME NEW v \in Threads PROVE Fits(th[v], own)'
    <3>1. CASE v # w
      <4>1. Fits(th[v], own) /\ th'[v] = th[v]
        BY <3>1, <2>8, ZenonT(60) DEF Manager
      <4>2. th[v].pc \in Adding => sub'[th[v].o].topics = sub[th[v].o].topics
        <5>1. ASSUME th[v].pc \in Adding PROVE th[v].o \in DOMAIN sub \ {o}
          <6>1. th[v].pc \in Holding /\ th[w].pc \in Holding
            BY <5>1, <1>1, Roles, ZenonT(60) DEF Holding
          <6>2. th[v].o # o
            BY <6>1, <3>1, ZenonT(60) DEF Manager, Mutex
          <6> QED
            BY <6>1, <6>2, <4>1, ZenonT(60) DEF Fits
        <5> QED
          BY <5>1, <2>12, ZenonT(60)
      <4>3. /\ DOMAIN sub \subseteq DOMAIN sub' /\ DOMAIN cells \subseteq DOMAIN cells'
            /\ \A d \in DOMAIN cells : own[d] = own[d]
        BY <2>6, <2>12, ZenonT(60)
      <4> QED
        BY <4>1, <4>2, <4>3, OthersFit, ZenonT(60)
    <3>2. CASE v = w
      <4>1. th'[v].pc = "next" /\ th'[v].o \in DOMAIN sub'
        BY <3>2, <1>1, <2>8, <2>11, <2>12, ZenonT(60)
      <4> QED
        BY <4>1 DEF Fits, Holding, Adding, Removing
    <3> QED
      BY <3>1, <3>2
  <2>20. Manager(own)'
    BY <2>14, <2>15, <2>18, <2>19, ZenonT(60) DEF Manager
  <2>21. Counted => Counted'
    <3>1. /\ th'[w].fresh = th[w].fresh /\ (th'[w].pc \in Leaving <=> th[w].pc \in Leaving)
          /\ UNCHANGED <<subs, active>>
      BY <1>1, <2>1, <2>8, <2>11, Roles, ZenonT(60)
    <3> QED
      BY <3>1, <2>10, LocalCount, ZenonT(60)
  <2>22. ASSUME NEW k, Kept(k) PROVE Kept(k)'
    <3>1. \A i \in DOMAIN subs : subs[i] \in DOMAIN sub
      BY DEF Manager, Shapes
    <3>2. c = topics[t]
      <4>1. Serves(th[w])
        BY <2>22, ZenonT(60) DEF Kept
      <4> QED
        BY <4>1, <1>1 DEF Serves
    <3>3. \A d \in DOMAIN cells : Range(cells[d]) \subseteq Range(cells'[d])
      BY <2>5, <2>6, ZenonT(60)
    <3>4. ASSUME NEW i \in DOMAIN subs, NEW u \in sub'[subs[i]].topics
          PROVE  subs[i] \in Range(cells'[topics[u]])
      <4>1. CASE u \in sub[subs[i]].topics
        <5>1. subs[i] \in Range(cells[topics[u]])
          BY <4>1, <2>22, ZenonT(60) DEF Kept
        <5>2. topics[u] \in DOMAIN cells
          <6>1. sub[subs[i]] \in subscriber
            BY <3>1, <2>2
          <6>2. u \in Topics
            BY <6>1, <4>1, ObjectUpdates, ZenonT(60)
          <6> QED
            BY <6>2, <2>22 DEF Kept, Manager, Shapes
        <5> QED
          BY <5>1, <5>2, <3>3, ZenonT(60)
      <4>2. CASE u \notin sub[subs[i]].topics
        <5>1. subs[i] = o /\ u = t
          BY <4>2, <3>1, <3>4, <2>3, <2>12, ZenonT(60)
        <5> QED
          BY <5>1, <3>2, <2>5, <2>6, ZenonT(60)
      <4> QED
        BY <4>1, <4>2
    <3>5. sub'[subs[k]].topics = Topics
      BY <2>22, <3>1, <1>1, <2>3, <2>12, ZenonT(60) DEF Kept
    <3>6. \A i \in DOMAIN subs : ~sub'[subs[i]].closed
      BY <2>22, <2>13, <3>1, ZenonT(60) DEF Kept
    <3>7. ASSUME NEW v \in Threads PROVE Serves(th[v])'
      <4>1. CASE v = w
        <5>1. th'[v].pc = "next"
          BY <4>1, <2>8, <2>11, ZenonT(60)
        <5> QED
          BY <5>1 DEF Serves, Leaving, Removing
      <4>2. CASE v # w
        <5>1. Serves(th[v]) /\ th'[v] = th[v] /\ UNCHANGED <<subs, topics>>
          BY <4>2, <2>1, <2>8, <2>22, ZenonT(60) DEF Kept
        <5> QED
          BY <5>1, <2>13, OthersServe, ZenonT(60) DEF Manager
      <4> QED
        BY <4>1, <4>2
    <3> QED
      BY <2>1, <2>22, <3>4, <3>5, <3>6, <3>7, ZenonT(60) DEF Kept
  <2> QED
    BY <2>20, <2>21, <2>22, ZenonT(60) DEF Keeps
<1> QED
  BY <1>2, <1>3

\* Subscribe makes the cell of a topic that has none.
LEMMA SubscribeStoreOK ==
    ASSUME NEW own, Manager(own), NEW w \in Threads, SubscribeStore(w)
    PROVE  /\ \E own2 : Manager(own2)'
           /\ Counted => Counted'
           /\ \A k : Kept(k) => Kept(k)'
<1>0. Fits(th[w], own) /\ th[w] \in Locals
  BY DEF Manager, Shapes
<1>1. /\ th[w].pc = "store" /\ th[w].o \in DOMAIN sub /\ th[w].t \in Topics
      /\ th[w].t \notin sub[th[w].o].topics
  BY <1>0 DEF Fits, SubscribeStore, Holding, Adding, Removing, Locals
<1>4. ASSUME NEW k, Kept(k) PROVE Kept(k)'
  <2>1. Serves(th[w])
    BY <1>4, ZenonT(60) DEF Kept
  <2> QED
    BY <1>1, <2>1 DEF Serves
<1>2. CASE th[w].t \in DOMAIN topics
  <2>10. Keeps(own)
    <3>1. th' = [th EXCEPT ![w].pc = "find"]
      BY <1>0, <1>1, <1>2, ZenonT(60) DEF SubscribeStore
    <3> DEFINE r == [th[w] EXCEPT !.pc = "find"]
    <3>3. th'[w] = r /\ \A v \in Threads \ {w} : th'[v] = th[v]
      BY <1>0, <1>1, <1>2, <3>1 DEF Manager, Shapes
    <3>4. r \in Locals
      BY <1>0, <1>1, IdleIs, Fields, Updates, Roles, ZenonT(60)
    <3>5. Alters(w)
      BY <1>0, <1>1, <1>2, <3>1, <3>3, <3>4 DEF Manager, Shapes, Alters
    <3>6. /\ r.pc = "find" /\ r.o = th[w].o /\ r.t = th[w].t /\ r.cell = th[w].cell /\ r.fresh = th[w].fresh
      BY <1>0, IdleIs DEF Locals
    <3> HIDE DEF r
    <3>7. Fits(r, own)
      BY <1>0, <1>1, <1>2, <3>1, <3>6 DEF Fits, Holding, Adding, Removing
    <3>8. ASSUME NEW k, Kept(k) PROVE Serves(r)
      <4>1. Serves(th[w])
        BY <3>8 DEF Kept
      <4> QED
        BY <4>1, <1>0, <1>1, <1>2, <3>1, <3>6 DEF Serves, Leaving, Removing
    <3>9. UNCHANGED <<subs, sub, topics, cells, active>>
      BY <1>2, ZenonT(60) DEF SubscribeStore
    <3> QED
      BY <1>0, <1>1, <3>3, <3>5, <3>6, <3>7, <3>8, <3>9, LocalKeeps, Roles, ZenonT(60)
  <2> QED
    BY <2>10, <1>4, ZenonT(60) DEF Keeps
<1>3. CASE th[w].t \notin DOMAIN topics
  <2> DEFINE o == th[w].o
             t == th[w].t
             n == Len(cells) + 1
             x == [sub[o] EXCEPT !.topics = sub[o].topics \union {t}]
             r == [th[w] EXCEPT !.pc = "next", !.ts = th[w].ts \ {t}]
  <2>1. /\ cells' = Append(cells, <<o>>) /\ topics' = With(topics, t, n)
        /\ sub' = [sub EXCEPT ![o].topics = @ \union {t}]
        /\ th' = [th EXCEPT ![w].pc = "next", ![w].ts = @ \ {t}]
        /\ subs' = subs /\ active' = active
    BY <1>3 DEF SubscribeStore
  <2>2. /\ sub[o] \in subscriber /\ o \in Nat
        /\ cells \in Seq(subList) /\ sub \in Seq(subscriber)
    BY <1>1 DEF Manager, Shapes
  <2>3. /\ x \in subscriber /\ x.topics = sub[o].topics \union {t}
        /\ x.closed = sub[o].closed /\ x.mu = sub[o].mu
    <3>1. sub[o].topics \union {t} \in SUBSET Topics
      BY <1>1, <2>2, ObjectUpdates, ZenonT(60)
    <3> QED
      BY <3>1, <2>2, TopicUpdate, ZenonT(60)
  <2>4. sub' = [sub EXCEPT ![o] = x]
    BY <1>1, <2>1, <2>2
  <2>5. <<o>> \in subList /\ DOMAIN <<o>> = {1} /\ <<o>>[1] = o
    BY <2>2 DEF subList
  <2>6. /\ cells' \in Seq(subList) /\ DOMAIN cells' = DOMAIN cells \union {n} /\ cells'[n] = <<o>>
        /\ \A d \in DOMAIN cells : cells'[d] = cells[d]
        /\ n \notin DOMAIN cells
    BY <2>1, <2>2, <2>5
  <2>7. th[w].ts \ {t} \in SUBSET Topics
    BY <1>0, Fields, ZenonT(60)
  <2>8. th'[w] = r /\ \A v \in Threads \ {w} : th'[v] = th[v]
    BY <1>0, <2>1 DEF Manager, Shapes
  <2>9. r \in Locals
    BY <1>0, <2>7, Updates, Roles, ZenonT(60)
  <2>10. Alters(w)
    BY <2>1, <2>8, <2>9 DEF Manager, Shapes, Alters
  <2>11. r.pc = "next" /\ r.o = o /\ r.fresh = th[w].fresh
    BY <1>0 DEF Locals
  <2> HIDE DEF x, r, n
  <2>12. /\ sub' \in Seq(subscriber) /\ DOMAIN sub' = DOMAIN sub /\ sub'[o] = x
         /\ \A p \in DOMAIN sub \ {o} : sub'[p] = sub[p]
    BY <1>1, <2>3, <2>4, SetObject, ZenonT(60) DEF Manager
  <2>13. /\ \A p \in DOMAIN sub : sub[p].topics \subseteq sub'[p].topics
         /\ \A p \in DOMAIN sub : sub'[p].mu = sub[p].mu
    BY <2>3, <2>12, ZenonT(60)
  <2>14. /\ DOMAIN topics' = DOMAIN topics \union {t} /\ topics'[t] = n
         /\ \A u \in DOMAIN topics : topics'[u] = topics[u] /\ topics[u] \in DOMAIN cells
         /\ topics' \in [DOMAIN topics' -> DOMAIN cells'] /\ DOMAIN topics' \subseteq Topics
    BY <1>1, <1>3, <2>1, <2>6 DEF With, Manager, Shapes
  <2>15. PICK own2 : /\ own2 \in [DOMAIN cells' -> Topics] /\ own2[n] = t
                     /\ \A d \in DOMAIN cells : own2[d] = own[d]
    <3>1. own \in [DOMAIN cells -> Topics]
      BY ZenonT(60) DEF Manager, Lists
    <3>2. /\ With(own, n, t) \in [DOMAIN cells' -> Topics] /\ With(own, n, t)[n] = t
          /\ \A d \in DOMAIN cells : With(own, n, t)[d] = own[d]
      BY <3>1, <1>1, <2>6 DEF With
    <3> QED
      BY <3>2, ZenonT(60)
  <2>16. Shapes'
    BY <2>1, <2>6, <2>10, <2>12, <2>14, ZenonT(60) DEF Manager, Shapes, Alters
  <2>17. Mutex'
    <3>1. th'[w].pc \in Holding /\ th[w].pc \in Holding /\ th'[w].o = th[w].o
      BY <1>1, <2>8, <2>11, Roles, ZenonT(60)
    <3> QED
      BY <3>1, <2>10, <2>12, <2>13, MutexStable, ZenonT(60) DEF Manager
  <2>18. ASSUME NEW d \in DOMAIN cells'
         PROVE  /\ IsInjective(cells'[d])
                /\ \A k \in DOMAIN cells'[d] : /\ cells'[d][k] \in DOMAIN sub'
                                               /\ own2[d] \in sub'[cells'[d][k]].topics
    <3>1. CASE d = n
      <4>1. IsInjective(<<o>>)
        BY <2>5, ZenonT(60) DEF IsInjective
      <4>2. ASSUME NEW k \in DOMAIN <<o>> PROVE <<o>>[k] \in DOMAIN sub' /\ t \in sub'[<<o>>[k]].topics
        <5>1. <<o>>[k] = o
          BY <2>5, ZenonT(60)
        <5> QED
          BY <5>1, <1>1, <2>3, <2>12, ZenonT(60)
      <4> QED
        BY <3>1, <4>1, <4>2, <2>6, <2>15, ZenonT(60)
    <3>2. CASE d \in DOMAIN cells
      <4>1. /\ IsInjective(cells[d])
            /\ \A k \in DOMAIN cells[d] : cells[d][k] \in DOMAIN sub /\ own[d] \in sub[cells[d][k]].topics
        BY <3>2, ZenonT(60) DEF Manager, Lists
      <4> QED
        BY <4>1, <3>2, <2>6, <2>12, <2>13, <2>15, ZenonT(60)
    <3> QED
      BY <3>1, <3>2, <2>6, ZenonT(60)
  <2>19. \A u \in DOMAIN topics' : own2[topics'[u]] = u
    <3>1. \A u \in DOMAIN topics : own[topics[u]] = u
      BY ZenonT(60) DEF Manager, Lists
    <3>2. ASSUME NEW u \in DOMAIN topics' PROVE own2[topics'[u]] = u
      <4>1. CASE u = t
        BY <4>1, <2>14, <2>15, ZenonT(60)
      <4>2. CASE u \in DOMAIN topics
        <5>1. topics'[u] = topics[u] /\ topics[u] \in DOMAIN cells
          BY <4>2, <2>14, ZenonT(60)
        <5>2. own2[topics[u]] = own[topics[u]]
          BY <5>1, <2>15, ZenonT(60)
        <5> QED
          BY <5>1, <5>2, <4>2, <3>1, ZenonT(60)
      <4> QED
        BY <4>1, <4>2, <2>14, ZenonT(60)
    <3> QED
      BY <3>2, ZenonT(60)
  <2>20. Lists(own2)'
    BY <2>15, <2>18, <2>19, ZenonT(60) DEF Lists
  <2>21. ASSUME NEW v \in Threads PROVE Fits(th[v], own2)'
    <3>1. CASE v # w
      <4>1. Fits(th[v], own) /\ th'[v] = th[v]
        BY <3>1, <2>8, ZenonT(60) DEF Manager
      <4>2. th[v].pc \in Adding => sub'[th[v].o].topics = sub[th[v].o].topics
        <5>1. ASSUME th[v].pc \in Adding PROVE th[v].o \in DOMAIN sub \ {o}
          <6>1. th[v].pc \in Holding /\ th[w].pc \in Holding
            BY <5>1, <1>1, Roles, ZenonT(60) DEF Holding
          <6>2. th[v].o # o
            BY <6>1, <3>1, ZenonT(60) DEF Manager, Mutex
          <6> QED
            BY <6>1, <6>2, <4>1, ZenonT(60) DEF Fits
        <5> QED
          BY <5>1, <2>12, ZenonT(60)
      <4>3. DOMAIN sub \subseteq DOMAIN sub' /\ DOMAIN cells \subseteq DOMAIN cells'
        BY <2>6, <2>12, ZenonT(60)
      <4> QED
        BY <4>1, <4>2, <4>3, <2>15, OthersFit, ZenonT(60)
    <3>2. CASE v = w
      <4>1. th'[v].pc = "next" /\ th'[v].o \in DOMAIN sub'
        BY <3>2, <1>1, <2>8, <2>11, <2>12, ZenonT(60)
      <4> QED
        BY <4>1 DEF Fits, Holding, Adding, Removing
    <3> QED
      BY <3>1, <3>2
  <2>22. Manager(own2)'
    BY <2>16, <2>17, <2>20, <2>21, ZenonT(60) DEF Manager
  <2>23. Counted => Counted'
    <3>1. /\ th'[w].fresh = th[w].fresh /\ (th'[w].pc \in Leaving <=> th[w].pc \in Leaving)
          /\ UNCHANGED <<subs, active>>
      BY <1>1, <2>1, <2>8, <2>11, Roles, ZenonT(60)
    <3> QED
      BY <3>1, <2>10, LocalCount, ZenonT(60)
  <2> QED
    BY <2>22, <2>23, <1>4, ZenonT(60)
<1> QED
  BY <1>2, <1>3

\* What Unsubscribe makes of a list.
LEMMA Omitted ==
    ASSUME NEW l \in subList, NEW o, NEW rest \in Omitting(l, o)
    PROVE  /\ rest \in subList /\ Range(rest) = Range(l) \ {o}
           /\ IsInjective(l) => IsInjective(rest)
<1>1. PICK f \in UNION {[1..n -> DOMAIN l] : n \in 0..Len(l)} :
        /\ \A i, j \in DOMAIN f : i < j => f[i] < f[j]
        /\ Range(f) = {k \in DOMAIN l : l[k] # o}
        /\ rest = [i \in DOMAIN f |-> l[f[i]]]
  BY ZenonT(60) DEF Omitting
<1>2. PICK n \in 0..Len(l) : f \in [1..n -> DOMAIN l]
  BY <1>1, ZenonT(60)
<1>3. DOMAIN rest = 1..n /\ \A i \in 1..n : rest[i] = l[f[i]] /\ f[i] \in DOMAIN l
  BY <1>1, <1>2
<1>4. \A k \in DOMAIN l : l[k] \in Nat
  BY DEF subList
<1>5. n \in Nat
  BY DEF subList
<1>6. rest = [i \in 1..n |-> l[f[i]]]
  BY <1>1, <1>2
<1>7. rest \in subList
  BY <1>3, <1>4, <1>5, <1>6 DEF subList
<1>8. \A k \in DOMAIN l : l[k] # o <=> \E i \in 1..n : f[i] = k
  <2>1. DOMAIN f = 1..n
    BY <1>2
  <2>2. ASSUME NEW k \in DOMAIN l PROVE k \in Range(f) <=> \E i \in 1..n : f[i] = k
    BY <2>1, ZenonT(60) DEF Range
  <2> QED
    BY <2>2, <1>1, ZenonT(60)
<1>9. Range(rest) = Range(l) \ {o}
  <2>1. ASSUME NEW i \in 1..n PROVE rest[i] \in Range(l) /\ rest[i] # o
    <3>1. f[i] \in DOMAIN l /\ rest[i] = l[f[i]]
      BY <1>3
    <3> QED
      BY <3>1, <1>8, ZenonT(60) DEF Range
  <2>2. ASSUME NEW k \in DOMAIN l, l[k] # o PROVE \E i \in 1..n : rest[i] = l[k]
    <3>1. PICK i \in 1..n : f[i] = k
      BY <2>2, <1>8, ZenonT(60)
    <3>2. rest[i] = l[k]
      BY <3>1, <1>3
    <3> QED
      BY <3>2
  <2>3. ASSUME NEW y PROVE y \in Range(rest) <=> \E i \in 1..n : rest[i] = y
    BY <1>3, ZenonT(60) DEF Range
  <2>4. ASSUME NEW y PROVE y \in Range(l) <=> \E k \in DOMAIN l : l[k] = y
    BY ZenonT(60) DEF Range
  <2> QED
    BY <2>1, <2>2, <2>3, <2>4, ZenonT(60)
<1>10. ASSUME IsInjective(l) PROVE IsInjective(rest)
  <2>1. \A j, k \in DOMAIN l : l[j] = l[k] => j = k
    BY <1>10, ZenonT(60) DEF IsInjective
  <2>2. ASSUME NEW i \in 1..n, NEW j \in 1..n, rest[i] = rest[j] PROVE i = j
    <3>1. f[i] = f[j] /\ f[i] \in DOMAIN l
      <4>1. rest[i] = l[f[i]] /\ rest[j] = l[f[j]] /\ f[i] \in DOMAIN l /\ f[j] \in DOMAIN l
        BY <1>3
      <4> QED
        BY <4>1, <2>1, <2>2, ZenonT(60)
    <3>2. f[i] \in Nat /\ i \in Nat /\ j \in Nat /\ DOMAIN f = 1..n
      BY <3>1, <1>2, <1>5 DEF subList
    <3> QED
      BY <3>1, <3>2, <1>1
  <2> QED
    BY <2>2, <1>3, ZenonT(60) DEF IsInjective
<1> QED
  BY <1>7, <1>9, <1>10

\* Unsubscribe replaces the list it has read by one without its subscriber.
LEMMA UnsubscribeCASOK ==
    ASSUME NEW own, Manager(own), NEW w \in Threads, UnsubscribeCAS(w)
    PROVE  Keeps(own)
<1>0. Fits(th[w], own) /\ th[w] \in Locals
  BY DEF Manager, Shapes
<1>1. /\ th[w].pc = "ucas" /\ th[w].o \in DOMAIN sub /\ th[w].t \in Topics
      /\ th[w].cell \in DOMAIN cells /\ own[th[w].cell] = th[w].t
  BY <1>0 DEF Fits, UnsubscribeCAS, Holding, Adding, Removing, Locals
<1>2. CASE cells[th[w].cell] # th[w].list
  <2>1. th' = [th EXCEPT ![w].pc = "ufind"]
    BY <1>0, <1>1, <1>2, ZenonT(60) DEF UnsubscribeCAS
  <2> DEFINE r == [th[w] EXCEPT !.pc = "ufind"]
  <2>3. th'[w] = r /\ \A v \in Threads \ {w} : th'[v] = th[v]
    BY <1>0, <1>1, <1>2, <2>1 DEF Manager, Shapes
  <2>4. r \in Locals
    BY <1>0, <1>1, IdleIs, Fields, Updates, Roles, ZenonT(60)
  <2>5. Alters(w)
    BY <1>0, <1>1, <1>2, <2>1, <2>3, <2>4 DEF Manager, Shapes, Alters
  <2>6. /\ r.pc = "ufind" /\ r.o = th[w].o /\ r.t = th[w].t /\ r.cell = th[w].cell /\ r.fresh = th[w].fresh
    BY <1>0, IdleIs DEF Locals
  <2> HIDE DEF r
  <2>7. Fits(r, own)
    BY <1>0, <1>1, <1>2, <2>1, <2>6 DEF Fits, Holding, Adding, Removing
  <2>8. ASSUME NEW k, Kept(k) PROVE Serves(r)
    <3>1. Serves(th[w])
      BY <2>8 DEF Kept
    <3> QED
      BY <3>1, <1>0, <1>1, <1>2, <2>1, <2>6 DEF Serves, Leaving, Removing
  <2>9. UNCHANGED <<subs, sub, topics, cells, active>>
    BY <1>2, ZenonT(60) DEF UnsubscribeCAS
  <2> QED
    BY <1>0, <1>1, <2>3, <2>5, <2>6, <2>7, <2>8, <2>9, LocalKeeps, Roles, ZenonT(60)
<1>3. CASE cells[th[w].cell] = th[w].list
  <2> DEFINE o == th[w].o
             c == th[w].cell
             t == th[w].t
  <2>1. PICK rest \in Omitting(cells[c], o) :
          /\ cells' = [cells EXCEPT ![c] = rest]
          /\ th' = IF rest = <<>> THEN [th EXCEPT ![w].pc = "udelete"]
                   ELSE [th EXCEPT ![w].pc = "unext", ![w].ts = @ \ {t}]
    BY <1>3, ZenonT(60) DEF UnsubscribeCAS
  <2>2. subs' = subs /\ sub' = sub /\ topics' = topics /\ active' = active
    BY DEF UnsubscribeCAS
  <2>3. cells[c] \in subList /\ cells \in Seq(subList)
    BY <1>1 DEF Manager, Shapes
  <2>4. /\ rest \in subList /\ Range(rest) = Range(cells[c]) \ {o}
        /\ IsInjective(cells[c]) => IsInjective(rest)
    BY <2>1, <2>3, Omitted, ZenonT(60)
  <2>5. /\ cells' \in Seq(subList) /\ DOMAIN cells' = DOMAIN cells /\ cells'[c] = rest
        /\ \A d \in DOMAIN cells \ {c} : cells'[d] = cells[d]
    BY <1>1, <2>1, <2>3, <2>4
  <2>6. /\ Alters(w) /\ th'[w].o = o /\ th'[w].t = t /\ th'[w].fresh = th[w].fresh
        /\ th'[w].pc = IF rest = <<>> THEN "udelete" ELSE "unext"
    <3>1. CASE rest = <<>>
      <4> DEFINE r == [th[w] EXCEPT !.pc = "udelete"]
      <4>0. th' = [th EXCEPT ![w].pc = "udelete"]
        BY <3>1, <2>1
      <4>1. th'[w] = r /\ \A v \in Threads \ {w} : th'[v] = th[v]
        BY <1>0, <4>0 DEF Manager, Shapes
      <4>2. r \in Locals
        BY <1>0, Updates, Roles, ZenonT(60)
      <4>3. Alters(w)
        BY <4>0, <4>1, <4>2 DEF Manager, Shapes, Alters
      <4>4. r.pc = "udelete" /\ r.o = o /\ r.t = t /\ r.fresh = th[w].fresh
        BY <1>0 DEF Locals
      <4> QED
        BY <3>1, <4>1, <4>3, <4>4
    <3>2. CASE rest # <<>>
      <4> DEFINE r == [th[w] EXCEPT !.pc = "unext", !.ts = th[w].ts \ {t}]
      <4>0. th' = [th EXCEPT ![w].pc = "unext", ![w].ts = @ \ {t}]
        BY <3>2, <2>1
      <4>1. th'[w] = r /\ \A v \in Threads \ {w} : th'[v] = th[v]
        BY <1>0, <4>0 DEF Manager, Shapes
      <4>5. th[w].ts \ {t} \in SUBSET Topics
        BY <1>0, Fields, ZenonT(60)
      <4>2. r \in Locals
        BY <1>0, <4>5, Updates, Roles, ZenonT(60)
      <4>3. Alters(w)
        BY <4>0, <4>1, <4>2 DEF Manager, Shapes, Alters
      <4>4. r.pc = "unext" /\ r.o = o /\ r.t = t /\ r.fresh = th[w].fresh
        BY <1>0 DEF Locals
      <4> QED
        BY <3>2, <4>1, <4>3, <4>4
    <3> QED
      BY <3>1, <3>2
  <2>7. th'[w].pc \in {"udelete", "unext"}
    BY <2>6
  <2>8. Shapes'
    BY <2>2, <2>5, <2>6, ZenonT(60) DEF Manager, Shapes, Alters
  <2>9. Mutex'
    <3>1. th'[w].pc \in Holding /\ th[w].pc \in Holding /\ th'[w].o = th[w].o
      BY <1>1, <2>6, <2>7, Roles, ZenonT(60)
    <3>2. DOMAIN sub' = DOMAIN sub /\ \A p \in DOMAIN sub : sub'[p].mu = sub[p].mu
      BY <2>2
    <3> QED
      BY <3>1, <3>2, <2>6, MutexStable, ZenonT(60) DEF Manager
  <2>10. ASSUME NEW d \in DOMAIN cells
         PROVE  /\ IsInjective(cells'[d])
                /\ \A k \in DOMAIN cells'[d] : /\ cells'[d][k] \in DOMAIN sub
                                               /\ own[d] \in sub[cells'[d][k]].topics
    <3>1. /\ IsInjective(cells[d])
          /\ \A k \in DOMAIN cells[d] : cells[d][k] \in DOMAIN sub /\ own[d] \in sub[cells[d][k]].topics
      BY ZenonT(60) DEF Manager, Lists
    <3>2. CASE d # c
      BY <3>1, <3>2, <2>5, ZenonT(60)
    <3>3. CASE d = c
      <4>1. ASSUME NEW k \in DOMAIN rest
            PROVE  rest[k] \in DOMAIN sub /\ own[d] \in sub[rest[k]].topics
        <5>1. rest[k] \in Range(cells[d])
          BY <3>3, <2>4, ZenonT(60) DEF Range
        <5>2. PICK j \in DOMAIN cells[d] : cells[d][j] = rest[k]
          BY <5>1, ZenonT(60) DEF Range
        <5> QED
          BY <5>2, <3>1, ZenonT(60)
      <4> QED
        BY <4>1, <3>1, <3>3, <2>4, <2>5, ZenonT(60)
    <3> QED
      BY <3>2, <3>3
  <2>11. Lists(own)'
    BY <2>2, <2>5, <2>10, ZenonT(60) DEF Manager, Lists
  <2>12. ASSUME NEW v \in Threads PROVE Fits(th[v], own)'
    <3>1. CASE v # w
      <4>1. Fits(th[v], own) /\ th'[v] = th[v]
        BY <3>1, <2>6, ZenonT(60) DEF Manager, Alters
      <4>2. /\ DOMAIN sub \subseteq DOMAIN sub' /\ DOMAIN cells \subseteq DOMAIN cells'
            /\ \A d \in DOMAIN cells : own[d] = own[d]
            /\ th[v].pc \in Adding => sub'[th[v].o].topics = sub[th[v].o].topics
        BY <2>2, <2>5, ZenonT(60)
      <4> QED
        BY <4>1, <4>2, OthersFit, ZenonT(60)
    <3>2. CASE v = w
      <4>1. /\ th'[v].pc \in {"udelete", "unext"} /\ th'[v].o \in DOMAIN sub' /\ th'[v].t \in Topics
            /\ ~th'[v].fresh
        <5>1. ~th[w].fresh
          BY <1>0, <1>1 DEF Fits, Adding
        <5> QED
          BY <5>1, <3>2, <1>1, <2>2, <2>6, <2>7, ZenonT(60)
      <4> QED
        BY <4>1 DEF Fits, Holding, Adding, Removing
    <3> QED
      BY <3>1, <3>2
  <2>13. Manager(own)'
    BY <2>8, <2>9, <2>11, <2>12, ZenonT(60) DEF Manager
  <2>14. Counted => Counted'
    <3>1. /\ th'[w].fresh = th[w].fresh /\ (th'[w].pc \in Leaving <=> th[w].pc \in Leaving)
          /\ UNCHANGED <<subs, active>>
      BY <1>1, <2>2, <2>6, <2>7, Roles, ZenonT(60)
    <3> QED
      BY <3>1, <2>6, LocalCount, ZenonT(60)
  <2>15. ASSUME NEW k, Kept(k) PROVE Kept(k)'
    <3>1. Serves(th[w])
      BY <2>15, ZenonT(60) DEF Kept
    <3>2. c = topics[t] /\ \A i \in DOMAIN subs : subs[i] # o
      BY <3>1, <1>1 DEF Serves, Leaving, Removing
    <3>3. ASSUME NEW i \in DOMAIN subs, NEW u \in sub[subs[i]].topics
          PROVE  subs[i] \in Range(cells'[topics[u]])
      <4>1. subs[i] \in Range(cells[topics[u]]) /\ subs[i] # o
        BY <3>2, <2>15, ZenonT(60) DEF Kept
      <4>2. topics[u] \in DOMAIN cells
        <5>1. sub[subs[i]] \in subscriber
          BY DEF Manager, Shapes
        <5>2. u \in Topics
          BY <5>1, ObjectUpdates, ZenonT(60)
        <5> QED
          BY <5>2, <2>15 DEF Kept, Manager, Shapes
      <4> QED
        BY <4>1, <4>2, <2>4, <2>5, ZenonT(60)
    <3>4. rest # <<>>
      <4>1. k \in DOMAIN subs /\ t \in sub[subs[k]].topics
        BY <1>1, <2>15, ZenonT(60) DEF Kept
      <4>2. subs[k] \in Range(rest)
        BY <4>1, <3>2, <3>3, <2>5, ZenonT(60)
      <4> QED
        BY <4>2 DEF Range
    <3>5. ASSUME NEW v \in Threads PROVE Serves(th[v])'
      <4>1. CASE v = w
        <5>1. th'[v].pc = "unext" /\ th'[v].o = o
          BY <4>1, <3>4, <2>6
        <5>2. \A i \in DOMAIN subs' : subs'[i] # th'[v].o
          BY <5>1, <3>2, <2>2, ZenonT(60)
        <5> QED
          BY <5>1, <5>2 DEF Serves, Leaving, Removing
      <4>2. CASE v # w
        <5>1. Serves(th[v]) /\ th'[v] = th[v] /\ UNCHANGED <<subs, topics>>
          BY <4>2, <2>2, <2>6, <2>15, ZenonT(60) DEF Kept, Alters
        <5>2. \A p \in DOMAIN sub : sub[p].topics \subseteq sub'[p].topics
          BY <2>2, ZenonT(60)
        <5> QED
          BY <5>1, <5>2, OthersServe, ZenonT(60) DEF Manager
      <4> QED
        BY <4>1, <4>2
    <3> QED
      BY <2>2, <2>15, <3>3, <3>5, ZenonT(60) DEF Kept
  <2> QED
    BY <2>13, <2>14, <2>15, ZenonT(60) DEF Keeps
<1> QED
  BY <1>2, <1>3

\* Unsubscribe deletes the key of a topic whose list has become empty.
LEMMA UnsubscribeDeleteOK ==
    ASSUME NEW own, Manager(own), NEW w \in Threads, UnsubscribeDelete(w)
    PROVE  Keeps(own)
<1>0. Fits(th[w], own) /\ th[w] \in Locals
  BY DEF Manager, Shapes
<1>1. th[w].pc = "udelete" /\ th[w].o \in DOMAIN sub /\ ~th[w].fresh
  BY <1>0 DEF Fits, UnsubscribeDelete, Holding, Adding, Removing, Locals
<1>2. /\ topics' = Without(topics, th[w].t)
      /\ th' = [th EXCEPT ![w].pc = "unext", ![w].ts = @ \ {th[w].t}]
      /\ subs' = subs /\ sub' = sub /\ cells' = cells /\ active' = active
  BY DEF UnsubscribeDelete
<1> DEFINE r == [th[w] EXCEPT !.pc = "unext", !.ts = th[w].ts \ {th[w].t}]
<1>3. th'[w] = r /\ \A v \in Threads \ {w} : th'[v] = th[v]
  BY <1>0, <1>2 DEF Manager, Shapes
<1>4. th[w].ts \ {th[w].t} \in SUBSET Topics
  BY <1>0, Fields, ZenonT(60)
<1>5. r \in Locals
  BY <1>0, <1>4, Updates, Roles, ZenonT(60)
<1>6. Alters(w)
  BY <1>2, <1>3, <1>5 DEF Manager, Shapes, Alters
<1>7. r.pc = "unext" /\ r.o = th[w].o /\ r.fresh = th[w].fresh
  BY <1>0 DEF Locals
<1> HIDE DEF r
<1>8. /\ DOMAIN topics' \subseteq DOMAIN topics
      /\ \A u \in DOMAIN topics' : topics'[u] = topics[u]
      /\ topics' \in [DOMAIN topics' -> DOMAIN cells]
  BY <1>2 DEF Without, Manager, Shapes
<1>9. Shapes'
  BY <1>2, <1>6, <1>8, ZenonT(60) DEF Manager, Shapes, Alters
<1>10. Mutex'
  <2>1. th'[w].pc \in Holding /\ th[w].pc \in Holding /\ th'[w].o = th[w].o
    BY <1>1, <1>3, <1>7, Roles, ZenonT(60)
  <2>2. DOMAIN sub' = DOMAIN sub /\ \A p \in DOMAIN sub : sub'[p].mu = sub[p].mu
    BY <1>2
  <2> QED
    BY <2>1, <2>2, <1>6, MutexStable, ZenonT(60) DEF Manager
<1>11. Lists(own)'
  BY <1>2, <1>8, ZenonT(60) DEF Manager, Lists
<1>12. ASSUME NEW v \in Threads PROVE Fits(th[v], own)'
  <2>1. CASE v # w
    <3>1. Fits(th[v], own) /\ th'[v] = th[v]
      BY <2>1, <1>3, ZenonT(60) DEF Manager
    <3>2. /\ DOMAIN sub \subseteq DOMAIN sub' /\ DOMAIN cells \subseteq DOMAIN cells'
          /\ \A d \in DOMAIN cells : own[d] = own[d]
          /\ th[v].pc \in Adding => sub'[th[v].o].topics = sub[th[v].o].topics
      BY <1>2, ZenonT(60)
    <3> QED
      BY <3>1, <3>2, OthersFit, ZenonT(60)
  <2>2. CASE v = w
    <3>1. th'[v].pc = "unext" /\ th'[v].o \in DOMAIN sub' /\ ~th'[v].fresh
      BY <2>2, <1>1, <1>2, <1>3, <1>7, ZenonT(60)
    <3> QED
      BY <3>1 DEF Fits, Holding, Adding, Removing
  <2> QED
    BY <2>1, <2>2
<1>13. Manager(own)'
  BY <1>9, <1>10, <1>11, <1>12, ZenonT(60) DEF Manager
<1>14. Counted => Counted'
  <2>1. /\ th'[w].fresh = th[w].fresh /\ (th'[w].pc \in Leaving <=> th[w].pc \in Leaving)
        /\ UNCHANGED <<subs, active>>
    BY <1>1, <1>2, <1>3, <1>7, Roles, ZenonT(60)
  <2> QED
    BY <2>1, <1>6, LocalCount, ZenonT(60)
<1>15. ASSUME NEW k, Kept(k) PROVE Kept(k)'
  <2>1. Serves(th[w])
    BY <1>15, ZenonT(60) DEF Kept
  <2> QED
    BY <1>1, <2>1 DEF Serves
<1> QED
  BY <1>13, <1>14, <1>15, ZenonT(60) DEF Keeps

\* Unsubscribe takes a subscriber out of the registry.
LEMMA UnsubscribeCallOK ==
    ASSUME Counting, NEW own, Manager(own), NEW w \in Threads, UnsubscribeCall(w)
    PROVE  /\ Manager(own)' /\ (Counted => Counted')
           /\ \A k : k \notin Leavers /\ Kept(k) => Kept(k)'
<1>0. Fits(th[w], own) /\ th[w] \in Locals
  BY DEF Manager, Shapes
<1>1. th[w].pc = "idle" /\ th[w].fresh = FALSE
  BY <1>0 DEF Fits, UnsubscribeCall, Adding, Locals
<1>2. PICK i \in Leavers \intersect DOMAIN subs :
        /\ subs' = Without(subs, i)
        /\ th' = [v \in Threads |->
             IF v = w THEN [Idle EXCEPT !.pc = "ulock", !.o = subs[i]]
             ELSE [th[v] EXCEPT !.must = @ \ {subs[i]}]]
  BY ZenonT(60) DEF UnsubscribeCall
<1>3. sub' = sub /\ topics' = topics /\ cells' = cells /\ active' = active
  BY DEF UnsubscribeCall
<1> DEFINE p == subs[i]
           r == [Idle EXCEPT !.pc = "ulock", !.o = p]
<1>4. p \in DOMAIN sub /\ p \in Nat
  BY DEF Manager, Shapes
<1>5. r \in Locals
  BY <1>4, IdleIs, Updates, Roles, ZenonT(60)
<1>6. r.pc = "ulock" /\ r.o = p /\ r.fresh = FALSE
  BY IdleIs DEF Locals
<1>7. th'[w] = r
  BY <1>2
<1> HIDE DEF r
<1>8. ASSUME NEW v \in Threads \ {w}
      PROVE  /\ th'[v] \in Locals /\ th'[v].must = th[v].must \ {p}
             /\ th'[v].pc = th[v].pc /\ th'[v].id = th[v].id /\ th'[v].t = th[v].t
             /\ th'[v].o = th[v].o /\ th'[v].cell = th[v].cell /\ th'[v].list = th[v].list
             /\ th'[v].fresh = th[v].fresh /\ th'[v].seen = th[v].seen
  <2>1. th'[v] = [th[v] EXCEPT !.must = th[v].must \ {p}]
    BY <1>2
  <2>2. th[v] \in Locals
    BY DEF Manager, Shapes
  <2>3. th[v].must \ {p} \in SUBSET Nat
    BY <2>2, Fields, ZenonT(60)
  <2>4. th'[v] \in Locals
    BY <2>1, <2>2, <2>3, Updates, ZenonT(60)
  <2> QED
    BY <2>1, <2>2, <2>4 DEF Locals
<1>9. th' \in [Threads -> Locals]
  <2>1. \A v \in Threads : th'[v] \in Locals
    BY <1>5, <1>7, <1>8, ZenonT(60)
  <2>2. th' = [v \in Threads |-> th'[v]]
    BY <1>2
  <2> QED
    BY <2>1, <2>2
<1>10. /\ DOMAIN subs' = DOMAIN subs \ {i} /\ \A j \in DOMAIN subs' : subs'[j] = subs[j]
       /\ subs' \in [DOMAIN subs' -> DOMAIN sub] /\ DOMAIN subs' \subseteq IDs
  BY <1>2 DEF Without, Manager, Shapes
<1>11. Shapes'
  BY <1>3, <1>9, <1>10, ZenonT(60) DEF Manager, Shapes
<1>12. Lists(own)'
  BY <1>3, ZenonT(60) DEF Manager, Lists
<1>13. \A v \in Threads : th'[v].pc \in Holding <=> th[v].pc \in Holding
  BY <1>1, <1>6, <1>7, <1>8, Roles, ZenonT(60)
<1>14. \A v \in Threads : th'[v].pc \in Holding => th'[v].o = th[v].o
  BY <1>6, <1>7, <1>8, Roles, ZenonT(60)
<1>15. Mutex'
  <2>1. ASSUME NEW o \in DOMAIN sub
        PROVE  sub[o].mu <=> \E v \in Threads : th'[v].pc \in Holding /\ th'[v].o = o
    <3>1. sub[o].mu <=> \E v \in Threads : th[v].pc \in Holding /\ th[v].o = o
      BY ZenonT(60) DEF Manager, Mutex
    <3>2. ASSUME NEW v \in Threads
          PROVE  th'[v].pc \in Holding /\ th'[v].o = o <=> th[v].pc \in Holding /\ th[v].o = o
      BY <1>13, <1>14, ZenonT(60)
    <3> QED
      BY <3>1, <3>2, ZenonT(60)
  <2>2. ASSUME NEW u \in Threads, NEW v \in Threads, th'[u].pc \in Holding,
               th'[v].pc \in Holding, th'[u].o = th'[v].o
        PROVE  u = v
    <3>1. th[u].pc \in Holding /\ th[v].pc \in Holding /\ th[u].o = th[v].o
      BY <2>2, <1>13, <1>14, ZenonT(60)
    <3> QED
      BY <3>1, ZenonT(60) DEF Manager, Mutex
  <2> QED
    BY <1>3, <2>1, <2>2, ZenonT(60) DEF Mutex
<1>16. ASSUME NEW v \in Threads PROVE Fits(th[v], own)'
  <2>1. CASE v # w
    <3>1. Fits(th[v], own)
      BY ZenonT(60) DEF Manager
    <3> QED
      BY <2>1, <3>1, <1>3, <1>8, ZenonT(60) DEF Fits
  <2>2. CASE v = w
    <3>1. th'[v].pc = "ulock" /\ th'[v].o \in DOMAIN sub' /\ ~th'[v].fresh
      BY <2>2, <1>3, <1>4, <1>6, <1>7
    <3> QED
      BY <3>1 DEF Fits, Holding, Adding, Removing
  <2> QED
    BY <2>1, <2>2
<1>17. Manager(own)'
  BY <1>11, <1>12, <1>15, <1>16, ZenonT(60) DEF Manager
<1>18. ASSUME Counted PROVE Counted'
  <2>1. Going' = Going \union {w} /\ w \notin Going
    <3>1. \A v \in Threads : th'[v].pc \in Leaving <=> v = w \/ th[v].pc \in Leaving
      BY <1>6, <1>7, <1>8, Roles, ZenonT(60)
    <3>2. th[w].pc \notin Leaving
      BY <1>1, Roles, ZenonT(60)
    <3> QED
      BY <3>1, <3>2, ZenonT(60) DEF Going
  <2>2. Coming' = Coming
    BY <1>1, <1>6, <1>7, <1>8, ZenonT(60) DEF Coming
  <2>3. /\ IsFiniteSet(Going') /\ Cardinality(Going) \in Nat
        /\ Cardinality(Going') = Cardinality(Going) + 1
    BY <2>1, <1>18, ZenonT(60) DEF Counting, Counted
  <2>4. /\ IsFiniteSet(DOMAIN subs') /\ Cardinality(DOMAIN subs) \in Nat
        /\ Cardinality(DOMAIN subs') = Cardinality(DOMAIN subs) - 1
    <3>1. i \in DOMAIN subs /\ DOMAIN subs' = DOMAIN subs \ {i}
      BY <1>10
    <3> QED
      BY <3>1, <1>18, ZenonT(60) DEF Counting, Counted
  <2>5. Cardinality(Coming) \in Nat
    BY <1>18 DEF Counting, Counted
  <2> QED
    BY <1>3, <1>18, <2>2, <2>3, <2>4, <2>5 DEF Counted
<1>19. ASSUME NEW k, k \notin Leavers, Kept(k) PROVE Kept(k)'
  <2>1. \A j, l \in DOMAIN subs : subs[j] = subs[l] => j = l
    BY <1>19, ZenonT(60) DEF Kept, IsInjective
  <2>2. k \in DOMAIN subs' /\ subs'[k] = subs[k]
    BY <1>2, <1>10, <1>19, ZenonT(60) DEF Kept
  <2>3. IsInjective(subs')
    BY <2>1, <1>10, ZenonT(60) DEF IsInjective
  <2>4. \A j \in DOMAIN subs' : j \in DOMAIN subs /\ subs'[j] = subs[j] /\ subs'[j] # p
    BY <2>1, <1>2, <1>10, ZenonT(60)
  <2>5. ASSUME NEW o, o # p, NEW j \in DOMAIN subs, subs[j] = o
        PROVE  j \in DOMAIN subs' /\ subs'[j] = o
    BY <2>5, <1>10, ZenonT(60)
  <2>6. ASSUME NEW v \in Threads PROVE Serves(th[v])'
    <3>1. CASE v = w
      <4>1. th'[v].pc = "ulock" /\ th'[v].o = p
        BY <3>1, <1>6, <1>7
      <4>2. \A j \in DOMAIN subs' : subs'[j] # th'[v].o
        BY <4>1, <2>4, ZenonT(60)
      <4> QED
        BY <4>1, <4>2 DEF Serves
    <3>2. CASE v # w
      <4>1. Serves(th[v])
        BY <1>19, ZenonT(60) DEF Kept
      <4>2. /\ th'[v].must = th[v].must \ {p} /\ th'[v].pc = th[v].pc /\ th'[v].t = th[v].t
            /\ th'[v].o = th[v].o /\ th'[v].cell = th[v].cell /\ th'[v].list = th[v].list
            /\ th'[v].seen = th[v].seen
        BY <3>2, <1>8, ZenonT(60)
      <4>3. th[v].pc \in Leaving => \A j \in DOMAIN subs' : subs'[j] # th[v].o
        <5>1. ASSUME th[v].pc \in Leaving, NEW j \in DOMAIN subs' PROVE subs'[j] # th[v].o
          <6>1. subs[j] # th[v].o
            BY <5>1, <4>1, <2>4, ZenonT(60) DEF Serves
          <6> QED
            BY <6>1, <2>4, ZenonT(60)
        <5> QED
          BY <5>1, ZenonT(60)
      <4>4. ASSUME th[v].pc = "pload"
            PROVE  \E t \in Topics : /\ th[v].cell = topics[t]
                                     /\ \A o \in th'[v].must : \E j \in DOMAIN subs' :
                                          subs'[j] = o /\ t \in sub[o].topics
        <5>1. PICK t \in Topics : /\ th[v].cell = topics[t]
                                  /\ \A o \in th[v].must : \E j \in DOMAIN subs :
                                       subs[j] = o /\ t \in sub[o].topics
          BY <4>1, <4>4, ZenonT(60) DEF Serves
        <5>2. ASSUME NEW o \in th'[v].must
              PROVE  \E j \in DOMAIN subs' : subs'[j] = o /\ t \in sub[o].topics
          BY <5>1, <4>2, <2>5, ZenonT(60)
        <5> QED
          BY <5>1, <5>2, ZenonT(60)
      <4>5. ASSUME th[v].pc = "send", NEW o \in th'[v].must
            PROVE  /\ \E j \in DOMAIN subs' : subs'[j] = o
                   /\ o \in Range(th[v].list) \union Range(th[v].seen)
        <5>1. o \in th[v].must /\ o # p
          BY <4>2, <4>5, ZenonT(60)
        <5> QED
          BY <5>1, <4>1, <4>5, <2>5, ZenonT(60) DEF Serves
      <4>6. th[v].pc = "pdone" => th'[v].must \subseteq Range(th[v].seen)
        BY <4>1, <4>2, ZenonT(60) DEF Serves
      <4> QED
        BY <4>1, <4>2, <4>3, <4>4, <4>5, <4>6, <1>3, ZenonT(60) DEF Serves
    <3> QED
      BY <3>1, <3>2
  <2>7. \A j \in DOMAIN subs' : ~sub[subs'[j]].closed
    BY <2>4, <1>19, ZenonT(60) DEF Kept
  <2>8. \A j \in DOMAIN subs' : \A t \in sub[subs'[j]].topics :
          subs'[j] \in Range(cells[topics[t]])
    BY <2>4, <1>19, ZenonT(60) DEF Kept
  <2> QED
    BY <1>3, <1>19, <2>2, <2>3, <2>6, <2>7, <2>8, ZenonT(60) DEF Kept
<1> QED
  BY <1>17, <1>18, <1>19, ZenonT(60)

\* The order in which the members of a set came numbers them.
LEMMA OrderOf ==
    ASSUME Counting, NEW S, NEW f \in Orders(S)
    PROVE  /\ \E n \in Nat : f \in [1..n -> S]
           /\ \A k \in DOMAIN f : k \in Nat /\ f[k] \in S
           /\ \A j, k \in DOMAIN f : f[j] = f[k] => j = k
           /\ \A x \in S : /\ (CHOOSE k \in DOMAIN f : f[k] = x) \in DOMAIN f
                           /\ f[CHOOSE k \in DOMAIN f : f[k] = x] = x
           /\ IsFiniteSet(S)
<1>1. /\ f \in UNION {[1..n -> S] : n \in 0..Cardinality(S)}
      /\ IsInjective(f) /\ Range(f) = S
  BY ZenonT(60) DEF Orders
<1>2. PICK n \in 0..Cardinality(S) : f \in [1..n -> S]
  BY <1>1, ZenonT(60)
<1>3. n \in Nat
  OBVIOUS
<1>4. \A j, k \in DOMAIN f : f[j] = f[k] => j = k
  BY <1>1, ZenonT(60) DEF IsInjective
<1>5. ASSUME NEW x \in S
      PROVE  /\ (CHOOSE k \in DOMAIN f : f[k] = x) \in DOMAIN f
             /\ f[CHOOSE k \in DOMAIN f : f[k] = x] = x
  <2>1. \E k \in DOMAIN f : f[k] = x
    BY <1>1, ZenonT(60) DEF Range
  <2> QED
    BY <2>1, ZenonT(60)
<1>6. IsFiniteSet(S)
  <2>1. DOMAIN f = 1..n
    BY <1>2
  <2>2. \A x \in S : \E k \in 1..n : f[k] = x
    BY <2>1, <1>1, ZenonT(60) DEF Range
  <2> QED
    BY <1>2, <1>3, <2>2, ZenonT(60) DEF Counting
<1>7. \A k \in DOMAIN f : k \in Nat /\ f[k] \in S
  BY <1>2, <1>3
<1> QED
  BY <1>2, <1>3, <1>4, <1>5, <1>6, <1>7, ZenonT(60)

\* The manager as the program sets it up.
LEMMA Begins ==
    ASSUME Counting, Init
    PROVE  /\ \E own : Manager(own)
           /\ Counted
           /\ \A k \in IDs \ Leavers : Kept(k)
<1> DEFINE K == IDs \ Leavers
<1>1. PICK keepers \in Orders(K), order \in Orders(Topics) :
        /\ sub = [k \in DOMAIN keepers |->
                     [topics |-> Topics, closed |-> FALSE, mu |-> FALSE]]
        /\ subs = [i \in K |-> CHOOSE k \in DOMAIN keepers : keepers[k] = i]
        /\ topics = [t \in IF IDs \subseteq Leavers THEN {} ELSE Topics |->
                        CHOOSE n \in DOMAIN order : order[n] = t]
        /\ cells = IF IDs \subseteq Leavers THEN <<>>
                   ELSE [n \in DOMAIN order |-> [k \in DOMAIN keepers |-> k]]
        /\ active = Cardinality(K)
        /\ th = [w \in Threads |-> Idle]
  BY ZenonT(60) DEF Init
<1>2. /\ \A k \in DOMAIN keepers : k \in Nat /\ keepers[k] \in K
      /\ \A x \in K : /\ (CHOOSE k \in DOMAIN keepers : keepers[k] = x) \in DOMAIN keepers
                      /\ keepers[CHOOSE k \in DOMAIN keepers : keepers[k] = x] = x
      /\ IsFiniteSet(K)
  BY <1>1, OrderOf, ZenonT(60)
<1>3. PICK n \in Nat : keepers \in [1..n -> K]
  BY <1>1, OrderOf, ZenonT(60)
<1>4. PICK m \in Nat : order \in [1..m -> Topics]
  BY <1>1, OrderOf, ZenonT(60)
<1>5. \A x \in Topics : /\ (CHOOSE k \in DOMAIN order : order[k] = x) \in DOMAIN order
                       /\ order[CHOOSE k \in DOMAIN order : order[k] = x] = x
  BY <1>1, OrderOf, ZenonT(60)
<1>6. DOMAIN keepers = 1..n /\ DOMAIN order = 1..m
  BY <1>3, <1>4
<1>7. /\ DOMAIN subs = K /\ \A i \in K : subs[i] \in 1..n /\ keepers[subs[i]] = i
  <2>1. DOMAIN subs = K /\ \A i \in K : subs[i] = CHOOSE k \in DOMAIN keepers : keepers[k] = i
    BY <1>1
  <2> QED
    BY <2>1, <1>2, <1>6, ZenonT(60)
<1> DEFINE x == [topics |-> Topics, closed |-> FALSE, mu |-> FALSE]
<1>8. x \in subscriber /\ x.topics = Topics /\ x.closed = FALSE /\ x.mu = FALSE
  BY DEF subscriber
<1>9. sub = [k \in 1..n |-> x]
  BY <1>1, <1>6
<1>10. sub \in Seq(subscriber) /\ DOMAIN sub = 1..n /\ \A p \in 1..n : sub[p] = x
  BY <1>3, <1>8, <1>9
<1>11. th \in [Threads -> Locals] /\ \A w \in Threads : th[w] = Idle
  BY <1>1, IdleIs
<1>12. subs \in [DOMAIN subs -> DOMAIN sub] /\ DOMAIN subs \subseteq IDs
  <2>1. subs = [i \in DOMAIN subs |-> subs[i]]
    BY <1>1
  <2> QED
    BY <2>1, <1>7, <1>10
<1> DEFINE l == [k \in 1..n |-> k]
<1>13. l \in subList /\ DOMAIN l = 1..n /\ \A k \in 1..n : l[k] = k
  BY <1>3 DEF subList
<1>14. IsInjective(l) /\ Range(l) = 1..n
  BY <1>13, ZenonT(60) DEF IsInjective, Range
<1> HIDE DEF x, l
<1>15. Mutex
  <2>1. \A w \in Threads : th[w].pc \notin Holding
    BY <1>11, IdleIs, Roles, ZenonT(60)
  <2>2. \A p \in DOMAIN sub : ~sub[p].mu
    BY <1>8, <1>10, ZenonT(60)
  <2> QED
    BY <2>1, <2>2, ZenonT(60) DEF Mutex
<1>16. ASSUME NEW own, NEW w \in Threads PROVE Fits(th[w], own)
  BY <1>11, IdleIs DEF Fits, Holding, Adding, Removing
<1>17. Counted
  <2>1. Coming = {} /\ Going = {}
    BY <1>11, IdleIs, Roles, ZenonT(60) DEF Coming, Going
  <2>2. Cardinality({}) = 0 /\ IsFiniteSet({}) /\ Cardinality(K) \in Nat
    BY <1>2 DEF Counting
  <2> QED
    BY <1>1, <1>2, <1>7, <2>1, <2>2 DEF Counted
<1>18. CASE IDs \subseteq Leavers
  <2>1. topics = [t \in {} |-> CHOOSE k \in DOMAIN order : order[k] = t] /\ cells = <<>>
    BY <1>1, <1>18
  <2>2. /\ DOMAIN topics = {} /\ DOMAIN cells = {} /\ cells \in Seq(subList)
        /\ topics \in [DOMAIN topics -> DOMAIN cells]
    BY <2>1
  <2>3. PICK own : own \in [DOMAIN cells -> Topics]
    <3>1. <<>> \in [DOMAIN cells -> Topics]
      BY <2>2
    <3> QED
      BY <3>1, ZenonT(60)
  <2>4. Shapes
    BY <1>10, <1>11, <1>12, <2>2, ZenonT(60) DEF Shapes
  <2>5. Lists(own)
    BY <2>2, <2>3, ZenonT(60) DEF Lists
  <2>6. Manager(own)
    BY <1>15, <1>16, <2>4, <2>5, ZenonT(60) DEF Manager
  <2>7. K = {}
    BY <1>18
  <2> QED
    BY <1>17, <2>6, <2>7, ZenonT(60)
<1>19. CASE ~(IDs \subseteq Leavers)
  <2>1. /\ topics = [t \in Topics |-> CHOOSE k \in DOMAIN order : order[k] = t]
        /\ cells = [c \in 1..m |-> l]
    BY <1>1, <1>6, <1>19 DEF l
  <2>2. /\ DOMAIN topics = Topics /\ DOMAIN cells = 1..m /\ cells \in Seq(subList)
        /\ \A c \in 1..m : cells[c] = l
    BY <2>1, <1>4, <1>13
  <2>3. \A t \in Topics : topics[t] \in 1..m /\ order[topics[t]] = t
    <3>1. \A t \in Topics : topics[t] = CHOOSE k \in DOMAIN order : order[k] = t
      BY <2>1
    <3> QED
      BY <3>1, <1>5, <1>6, ZenonT(60)
  <2>4. topics \in [DOMAIN topics -> DOMAIN cells]
    <3>1. topics = [t \in DOMAIN topics |-> topics[t]]
      BY <2>1
    <3> QED
      BY <3>1, <2>2, <2>3
  <2>5. Shapes
    BY <1>10, <1>11, <1>12, <2>2, <2>4, ZenonT(60) DEF Shapes
  <2>6. order \in [DOMAIN cells -> Topics] /\ \A c \in 1..m : order[c] \in Topics
    BY <1>4, <2>2
  <2>7. ASSUME NEW c \in DOMAIN cells
        PROVE  /\ IsInjective(cells[c])
               /\ \A k \in DOMAIN cells[c] : cells[c][k] \in DOMAIN sub /\ order[c] \in sub[cells[c][k]].topics
    <3>1. cells[c] = l /\ order[c] \in Topics
      BY <2>2, <2>6, ZenonT(60)
    <3>2. \A k \in 1..n : l[k] \in DOMAIN sub /\ sub[l[k]].topics = Topics
      BY <1>8, <1>10, <1>13, ZenonT(60)
    <3> QED
      BY <3>1, <3>2, <1>13, <1>14, ZenonT(60)
  <2>8. Lists(order)
    BY <2>2, <2>3, <2>6, <2>7, ZenonT(60) DEF Lists
  <2>9. Manager(order)
    BY <1>15, <1>16, <2>5, <2>8, ZenonT(60) DEF Manager
  <2>10. ASSUME NEW k \in K PROVE Kept(k)
    <3>1. DOMAIN topics = Topics /\ k \in DOMAIN subs /\ sub[subs[k]].topics = Topics
      BY <1>7, <1>8, <1>10, <2>2, ZenonT(60)
    <3>2. IsInjective(subs)
      BY <1>7, ZenonT(60) DEF IsInjective
    <3>3. \A i \in DOMAIN subs : ~sub[subs[i]].closed
      <4>1. \A i \in DOMAIN subs : sub[subs[i]].closed = FALSE
        BY <1>7, <1>8, <1>10, ZenonT(60)
      <4> QED
        BY <4>1
    <3>4. \A i \in DOMAIN subs : \A t \in sub[subs[i]].topics : subs[i] \in Range(cells[topics[t]])
      BY <1>7, <1>8, <1>10, <1>14, <2>2, <2>3, ZenonT(60)
    <3>5. ASSUME NEW w \in Threads PROVE Serves(th[w])
      BY <1>11, IdleIs DEF Serves, Leaving, Removing
    <3> QED
      BY <3>1, <3>2, <3>3, <3>4, <3>5, ZenonT(60) DEF Kept
  <2> QED
    BY <1>17, <2>9, <2>10, ZenonT(60)
<1> QED
  BY <1>18, <1>19

\* A step that changes nothing.
LEMMA Idles ==
    ASSUME NEW own, Manager(own), UNCHANGED vars
    PROVE  Keeps(own)
<1>1. /\ subs' = subs /\ sub' = sub /\ topics' = topics /\ cells' = cells
      /\ active' = active /\ th' = th
  BY DEF vars
<1>2. Shapes'
  BY <1>1, ZenonT(60) DEF Manager, Shapes
<1>3. Lists(own)'
  BY <1>1, ZenonT(60) DEF Manager, Lists
<1>4. Mutex'
  BY <1>1 DEF Manager, Mutex
<1>5. \A w \in Threads : Fits(th[w], own)'
  BY <1>1, ZenonT(60) DEF Manager, Fits
<1>6. Manager(own)'
  BY <1>2, <1>3, <1>4, <1>5, ZenonT(60) DEF Manager
<1>7. Counted => Counted'
  BY <1>1, ZenonT(60) DEF Counted, Coming, Going
<1>8. ASSUME NEW k, Kept(k) PROVE Kept(k)'
  <2>1. ASSUME NEW w \in Threads PROVE Serves(th[w])'
    <3>1. Serves(th[w]) /\ th'[w] = th[w] /\ Shapes
      BY <1>1, <1>8, ZenonT(60) DEF Kept, Manager
    <3>2. \A o \in DOMAIN sub : sub[o].topics \subseteq sub'[o].topics
      BY <1>1, ZenonT(60)
    <3> QED
      BY <1>1, <3>1, <3>2, OthersServe, ZenonT(60)
  <2>2. \A i \in DOMAIN subs' : \A t \in sub'[subs'[i]].topics :
          subs'[i] \in Range(cells'[topics'[t]])
    BY <1>1, <1>8, ZenonT(60) DEF Kept
  <2>3. IsInjective(subs)'
    BY <1>1, <1>8, ZenonT(60) DEF Kept
  <2>4. /\ (DOMAIN topics = Topics /\ k \in DOMAIN subs /\ sub[subs[k]].topics = Topics)'
        /\ (\A i \in DOMAIN subs : ~sub[subs[i]].closed)'
    BY <1>1, <1>8, ZenonT(60) DEF Kept
  <2> QED
    BY <2>1, <2>2, <2>3, <2>4, ZenonT(60) DEF Kept
<1> QED
  BY <1>6, <1>7, <1>8, ZenonT(60) DEF Keeps

\* Every step keeps the three parts of the invariant, the last one for a subscriber
\* that never leaves.
LEMMA Steps ==
    ASSUME Counting, NEW own, Manager(own), [Next]_vars
    PROVE  /\ \E own2 : Manager(own2)'
           /\ Counted => Counted'
           /\ \A k : k \notin Leavers /\ Kept(k) => Kept(k)'
<1>1. CASE UNCHANGED vars
  BY <1>1, Idles, ZenonT(60) DEF Keeps
<1>2. ASSUME NEW w \in Threads, SubscribeStore(w)
      PROVE  /\ \E own2 : Manager(own2)'
             /\ Counted => Counted'
             /\ \A k : Kept(k) => Kept(k)'
  BY <1>2, SubscribeStoreOK, ZenonT(60)
<1>3. ASSUME NEW w \in Threads, UnsubscribeCall(w)
      PROVE  /\ Manager(own)' /\ (Counted => Counted')
             /\ \A k : k \notin Leavers /\ Kept(k) => Kept(k)'
  BY <1>3, UnsubscribeCallOK, ZenonT(60)
<1>4. ASSUME NEW w \in Threads,
             \/ SubscribeCall(w) \/ PublishCall(w)
             \/ SubscribeInsert(w) \/ SubscribeLock(w) \/ SubscribeNext(w)
             \/ SubscribeFind(w) \/ SubscribeLoadList(w)
             \/ SubscribeCAS(w) \/ SubscribeReturn(w)
      PROVE  Keeps(own)
  BY <1>4, SubscribeCallOK, PublishCallOK, SubscribeInsertOK, SubscribeLockOK,
     SubscribeNextOK, SubscribeFindOK, SubscribeLoadListOK, SubscribeCASOK,
     SubscribeReturnOK, ZenonT(60)
<1>5. ASSUME NEW w \in Threads,
             \/ UnsubscribeLock(w) \/ UnsubscribeNext(w) \/ UnsubscribeFind(w)
             \/ UnsubscribeLoadList(w) \/ UnsubscribeCAS(w) \/ UnsubscribeDelete(w)
             \/ UnsubscribeReturn(w)
             \/ PublishLoadList(w) \/ PublishSend(w) \/ PublishReturn(w)
      PROVE  Keeps(own)
  BY <1>5, UnsubscribeLockOK, UnsubscribeNextOK, UnsubscribeFindOK, UnsubscribeLoadListOK,
     UnsubscribeCASOK, UnsubscribeDeleteOK, UnsubscribeReturnOK, PublishLoadListOK,
     PublishSendOK, PublishReturnOK, ZenonT(60)
<1>6. CASE Next
  <2>1. PICK w \in Threads : SubscribeCall(w) \/ UnsubscribeCall(w) \/ PublishCall(w) \/ Step(w)
    BY <1>6, ZenonT(60) DEF Next
  <2>2. CASE SubscribeStore(w)
    BY <2>2, <1>2, ZenonT(60)
  <2>3. CASE UnsubscribeCall(w)
    BY <2>3, <1>3, ZenonT(60)
  <2>4. ~SubscribeStore(w) /\ ~UnsubscribeCall(w) => Keeps(own)
    BY <2>1, <1>4, <1>5, ZenonT(60) DEF Step
  <2>5. CASE Keeps(own)
    BY <2>5, ZenonT(60) DEF Keeps
  <2> QED
    BY <2>2, <2>3, <2>4, <2>5, ZenonT(60)
<1> QED
  BY <1>1, <1>6

\* Between calls the three-part invariant counts the clients.
LEMMA QuietGauge == Counting /\ (\E own : Manager(own)) /\ Counted => GaugeExact
<1> SUFFICES ASSUME Counting, NEW own, Manager(own), Counted, Quiet
             PROVE  active = Cardinality(DOMAIN subs)
  BY ZenonT(60) DEF GaugeExact
<1>1. ASSUME NEW w \in Threads PROVE ~th[w].fresh /\ th[w].pc \notin Leaving
  <2>1. th[w].pc = "idle" /\ Fits(th[w], own)
    BY ZenonT(60) DEF Quiet, Manager
  <2> QED
    BY <2>1 DEF Fits, Adding, Leaving, Removing
<1>2. Coming = {} /\ Going = {}
  BY <1>1, ZenonT(60) DEF Coming, Going
<1>3. Cardinality({}) = 0 /\ Cardinality(DOMAIN subs) \in Nat
  BY DEF Counting, Counted
<1> QED
  BY <1>2, <1>3 DEF Counted

\* A publish that has returned has served whoever it owed the event.
LEMMA Served == ASSUME NEW k, Kept(k) PROVE PublishReachesAll
  BY ZenonT(60) DEF Kept, Serves, PublishReachesAll, Range

-----------------------------------------------------------------------------
\* The theorems about finite sets come last: they would burden every step above.
\* They speak of the operators under their own instance, which are the same.
Finite(S) == IsFiniteSet(S)
Size(S) == Cardinality(S)

LEMMA SizeIs ==
    ASSUME NEW S
    PROVE  /\ Finite(S) <=> \E q \in Seq(S) : \A x \in S : \E k \in 1..Len(q) : q[k] = x
           /\ Size(S) = LET CS[T \in SUBSET S] ==
                              IF T = {} THEN 0 ELSE 1 + CS[T \ {CHOOSE x : x \in T}]
                        IN  CS[S]
  BY ZenonT(60) DEF Finite, IsFiniteSet, Size, Cardinality

LOCAL INSTANCE FiniteSetTheorems

LEMMA SameSize ==
    ASSUME NEW S PROVE (Finite(S) <=> IsFiniteSet(S)) /\ Size(S) = Cardinality(S)
  BY SizeIs, ZenonT(60) DEF IsFiniteSet, Cardinality

LEMMA CountingHolds == Counting
<1>1. Finite({}) /\ Size({}) = 0
  BY FS_EmptySet, SameSize, ZenonT(60)
<1>2. ASSUME NEW S, Finite(S) PROVE Size(S) \in Nat
  BY <1>2, FS_CardinalityType, SameSize, ZenonT(60)
<1>3. ASSUME NEW S, NEW x, Finite(S), x \notin S
      PROVE  Finite(S \union {x}) /\ Size(S \union {x}) = Size(S) + 1
  <2>1. IsFiniteSet(S \union {x}) /\ Cardinality(S \union {x}) = Cardinality(S) + 1
    BY <1>3, SameSize, FS_AddElement
  <2> QED
    BY <2>1, SameSize, ZenonT(60)
<1>4. ASSUME NEW S, NEW x, Finite(S), x \in S
      PROVE  Finite(S \ {x}) /\ Size(S \ {x}) = Size(S) - 1
  <2>1. IsFiniteSet(S \ {x}) /\ Cardinality(S \ {x}) = Cardinality(S) - 1
    BY <1>4, SameSize, FS_RemoveElement
  <2> QED
    BY <2>1, SameSize, ZenonT(60)
<1>5. ASSUME NEW S, NEW n \in Nat, NEW f \in [1..n -> S],
             \A x \in S : \E k \in 1..n : f[k] = x
      PROVE  Finite(S)
  <2>1. IsFiniteSet(1..n)
    BY FS_Interval
  <2>2. f \in Surjection(1..n, S)
    BY <1>5, ZenonT(60) DEF Surjection
  <2>3. IsFiniteSet(S)
    BY <2>1, <2>2, FS_Surjection
  <2> QED
    BY <2>3, SameSize, ZenonT(60)
<1> QED
  BY <1>1, <1>2, <1>3, <1>4, <1>5, ZenonT(60) DEF Counting, Finite, Size

\* For any goroutines, identifiers and topics: the references of the manager are good
\* and every locked mutex has one holder, no list ever holds a subscriber twice, and
\* between calls the gauge is the number of clients (MemoryManager.Subscribe,
\* Unsubscribe and Publish with their compare-and-swap loops).
THEOREM TopicManagerCorrect == Spec => [](TypeOK /\ ListedOnce /\ GaugeExact)
<1> DEFINE Inv == (\E own : Manager(own)) /\ Counted
<1>1. Init => Inv
  BY CountingHolds, Begins, ZenonT(60)
<1>2. Inv /\ [Next]_vars => Inv'
  <2> SUFFICES ASSUME NEW own, Manager(own), Counted, [Next]_vars PROVE Inv'
    BY ZenonT(60)
  <2>1. (\E own2 : Manager(own2)') /\ Counted'
    BY CountingHolds, Steps, ZenonT(60)
  <2> QED
    BY <2>1, ZenonT(60)
<1>3. Inv => TypeOK /\ ListedOnce /\ GaugeExact
  <2> SUFFICES ASSUME NEW own, Manager(own), Counted PROVE TypeOK /\ ListedOnce /\ GaugeExact
    BY ZenonT(60)
  <2>1. ListedOnce /\ \A c \in DOMAIN cells : \A k \in DOMAIN cells[c] : cells[c][k] \in DOMAIN sub
    BY ZenonT(60) DEF Manager, Lists, ListedOnce
  <2>2. TypeOK
    BY <2>1 DEF Manager, Shapes, TypeOK
  <2>3. GaugeExact
    BY CountingHolds, QuietGauge, ZenonT(60)
  <2> QED
    BY <2>1, <2>2, <2>3
<1> HIDE DEF Inv
<1> QED
  BY <1>1, <1>2, <1>3, PTL DEF Spec

\* For any goroutines, identifiers and topics of which one identifier stays
\* subscribed: an event reaches every client that was subscribed when its publish
\* began and did not leave meanwhile, whoever comes and goes (MemoryManager.Publish
\* against Subscribe and Unsubscribe).
THEOREM PublishServes ==
    ASSUME NEW k \in IDs \ Leavers PROVE Spec => []PublishReachesAll
<1> DEFINE Inv == (\E own : Manager(own)) /\ Kept(k)
<1>1. Init => Inv
  BY CountingHolds, Begins, ZenonT(60)
<1>2. Inv /\ [Next]_vars => Inv'
  <2> SUFFICES ASSUME NEW own, Manager(own), Kept(k), [Next]_vars PROVE Inv'
    BY ZenonT(60)
  <2>1. (\E own2 : Manager(own2)') /\ Kept(k)'
    BY CountingHolds, Steps, ZenonT(60)
  <2> QED
    BY <2>1, ZenonT(60)
<1>3. Inv => PublishReachesAll
  BY Served, ZenonT(60)
<1> HIDE DEF Inv
<1> QED
  BY <1>1, <1>2, <1>3, PTL DEF Spec
=============================================================================
