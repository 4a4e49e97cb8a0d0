------------------------- MODULE DistributedRouter -------------------------
(***************************************************************************)
(* The distributed router (internal/topicmanager/router.go) over the       *)
(* Redis subscriber (internal/distribution/redisbus/subscriber.go), as     *)
(* internal/app/app.go wires them: per-symbol counts of local clients      *)
(* decide when a Redis channel is joined or left, and the decision is      *)
(* carried out by a callback after the shard lock is released.  The local  *)
(* topic manager is its membership relation.  Each client calls the        *)
(* router from one goroutine.                                              *)
(***************************************************************************)
EXTENDS Integers, Sequences, FiniteSets, FiniteSetTheorems, TLAPS

CONSTANTS
    Clients, Topics,
    Reconciler,    \* the goroutine of StartReconciler
    ViaHandle,     \* clients leave by Handle.Cancel, not router.Unsubscribe
    Resubscribe,   \* a client may subscribe again before it leaves
    MaxCalls       \* bound: client calls

ASSUME RouterAssumption ==
    /\ IsFiniteSet(Clients) /\ IsFiniteSet(Topics) /\ Reconciler \notin Clients
    /\ ViaHandle \in BOOLEAN /\ Resubscribe \in BOOLEAN /\ MaxCalls \in Nat

VARIABLES
    local,       \* client -> topics it has in the local topic manager
    tracked,     \* DistributedRouter.subs
    localCount,  \* symbolState.localCount
    redisSub,    \* symbolState.redisSub
    activeRedisSubs,
    channels,    \* Subscriber.channels
    started,     \* Subscriber.pubsub is not nil
    pubsub,      \* channels the go-redis PubSub handle is subscribed to
    pc, todo,    \* per client: position in a call, topics still to count
    fire,        \* per goroutine: onChange callbacks still to make, each with the lock it needs next
    calls

vars == <<local, tracked, localCount, redisSub, activeRedisSubs, channels,
          started, pubsub, pc, todo, fire, calls>>
redisVars == <<channels, started, pubsub>>
countVars == <<localCount, redisSub, activeRedisSubs>>

Procs == Clients \union {Reconciler}

Init ==
    /\ local = [c \in Clients |-> {}] /\ tracked = [c \in Clients |-> {}]
    /\ localCount = [t \in Topics |-> 0] /\ redisSub = [t \in Topics |-> FALSE]
    /\ activeRedisSubs = 0
    /\ channels = {} /\ started = FALSE /\ pubsub = {}
    /\ pc = [p \in Procs |-> "idle"] /\ todo = [c \in Clients |-> {}]
    /\ fire = [p \in Procs |-> <<>>] /\ calls = 0

-----------------------------------------------------------------------------
\* Subscribe: the local topic manager first.
SubscribeLocal(c) ==
    /\ pc[c] = "idle" /\ calls < MaxCalls
    /\ Resubscribe \/ local[c] = {}
    /\ \E ts \in SUBSET Topics \ {{}} :
         /\ local' = [local EXCEPT ![c] = @ \union ts]
         /\ todo' = [todo EXCEPT ![c] = ts]
    /\ pc' = [pc EXCEPT ![c] = "track"] /\ calls' = calls + 1
    /\ UNCHANGED <<tracked, countVars, redisVars, fire>>

SubscribeTrack(c) ==
    /\ pc[c] = "track"
    /\ tracked' = [tracked EXCEPT ![c] = @ \union todo[c]]
    /\ pc' = [pc EXCEPT ![c] = "count"]
    /\ UNCHANGED <<local, countVars, redisVars, todo, fire, calls>>

\* One topic under its shard lock.
SubscribeCount(c) ==
    /\ pc[c] = "count"
    /\ \E t \in todo[c] :
         /\ localCount' = [localCount EXCEPT ![t] = @ + 1]
         /\ IF localCount[t] + 1 = 1 /\ ~redisSub[t]
            THEN /\ redisSub' = [redisSub EXCEPT ![t] = TRUE]
                 /\ activeRedisSubs' = activeRedisSubs + 1
                 /\ fire' = [fire EXCEPT ![c] = Append(@, <<t, "join", "channels">>)]
            ELSE UNCHANGED <<redisSub, activeRedisSubs, fire>>
         /\ todo' = [todo EXCEPT ![c] = @ \ {t}]
    /\ UNCHANGED <<local, tracked, redisVars, pc, calls>>

SubscribeReturn(c) ==
    /\ pc[c] = "count" /\ todo[c] = {} /\ fire[c] = <<>>
    /\ pc' = [pc EXCEPT ![c] = "idle"]
    /\ UNCHANGED <<local, tracked, countVars, redisVars, todo, fire, calls>>

-----------------------------------------------------------------------------
\* Unsubscribe: the tracked topics are taken out, counted down, and the
\* local topic manager is told last.
UnsubscribeTrack(c) ==
    /\ pc[c] = "idle" /\ calls < MaxCalls /\ ~ViaHandle /\ local[c] # {}
    /\ todo' = [todo EXCEPT ![c] = tracked[c]]
    /\ tracked' = [tracked EXCEPT ![c] = {}]
    /\ pc' = [pc EXCEPT ![c] = "uncount"] /\ calls' = calls + 1
    /\ UNCHANGED <<local, countVars, redisVars, fire>>

\* Mutation: a channel is given up while another client still needs it.
UnsubscribeCount_Eager(c) ==
    /\ pc[c] = "uncount"
    /\ \E t \in todo[c] :
         LET n == IF localCount[t] > 0 THEN localCount[t] - 1 ELSE 0
         IN  /\ localCount' = [localCount EXCEPT ![t] = n]
             /\ IF redisSub[t]
                THEN /\ redisSub' = [redisSub EXCEPT ![t] = FALSE]
                     /\ activeRedisSubs' = activeRedisSubs - 1
                     /\ fire' = [fire EXCEPT ![c] = Append(@, <<t, "leave", "channels">>)]
                ELSE UNCHANGED <<redisSub, activeRedisSubs, fire>>
             /\ todo' = [todo EXCEPT ![c] = @ \ {t}]
    /\ UNCHANGED <<local, tracked, redisVars, pc, calls>>

UnsubscribeCount(c) ==
    /\ pc[c] = "uncount"
    /\ \E t \in todo[c] :
         LET n == IF localCount[t] > 0 THEN localCount[t] - 1 ELSE 0
         IN  /\ localCount' = [localCount EXCEPT ![t] = n]
             /\ IF n = 0 /\ redisSub[t]
                THEN /\ redisSub' = [redisSub EXCEPT ![t] = FALSE]
                     /\ activeRedisSubs' = activeRedisSubs - 1
                     /\ fire' = [fire EXCEPT ![c] = Append(@, <<t, "leave", "channels">>)]
                ELSE UNCHANGED <<redisSub, activeRedisSubs, fire>>
             /\ todo' = [todo EXCEPT ![c] = @ \ {t}]
    /\ UNCHANGED <<local, tracked, redisVars, pc, calls>>

UnsubscribeLocal(c) ==
    /\ pc[c] = "uncount" /\ todo[c] = {} /\ fire[c] = <<>>
    /\ local' = [local EXCEPT ![c] = {}]
    /\ pc' = [pc EXCEPT ![c] = "idle"]
    /\ UNCHANGED <<tracked, countVars, redisVars, todo, fire, calls>>

\* Handle.Cancel calls the manager that made the handle, which is the local
\* topic manager and not the router.
Cancel(c) ==
    /\ pc[c] = "idle" /\ calls < MaxCalls /\ ViaHandle /\ local[c] # {}
    /\ local' = [local EXCEPT ![c] = {}] /\ calls' = calls + 1
    /\ UNCHANGED <<tracked, countVars, redisVars, pc, todo, fire>>

-----------------------------------------------------------------------------
\* Reconcile visits a symbol: retry a join or a leave the flag says is due.
Reconcile(t) ==
    /\ fire[Reconciler] = <<>>
    /\ LET join == localCount[t] > 0 /\ ~redisSub[t]
           leave == localCount[t] <= 0 /\ redisSub[t]
       IN  /\ redisSub' = [redisSub EXCEPT ![t] = (@ \/ join) /\ ~leave]
           /\ activeRedisSubs' = activeRedisSubs + (IF join THEN 1 ELSE 0)
                                                 - (IF leave THEN 1 ELSE 0)
           /\ fire' = [fire EXCEPT ![Reconciler] =
                          IF join THEN <<<<t, "join", "channels">>>>
                          ELSE IF leave THEN <<<<t, "leave", "channels">>>> ELSE <<>>]
    /\ UNCHANGED <<local, tracked, localCount, redisVars, pc, todo, calls>>

-----------------------------------------------------------------------------
(* fireOnChange runs Subscriber.Subscribe or Unsubscribe, each of which     *)
(* holds channelsMu for the set and then pubsubMu for the Redis command.    *)

Ready(p) == fire[p] # <<>> /\ (p = Reconciler \/ todo[p] = {})

\* The channels S after callback b.
After(S, b) == IF b[2] = "join" THEN S \union {b[1]} ELSE S \ {b[1]}

FireChannels(p) ==
    /\ Ready(p) /\ Head(fire[p])[3] = "channels"
    /\ channels' = After(channels, Head(fire[p]))
    /\ fire' = [fire EXCEPT ![p][1] = <<@[1], @[2], "pubsub">>]
    /\ UNCHANGED <<local, tracked, countVars, started, pubsub, pc, todo, calls>>

\* Mutation: the lock is kept when the handle does not exist yet.
FirePubSub_NoRelease(p) ==
    /\ Ready(p) /\ Head(fire[p])[3] = "pubsub" /\ started
    /\ pubsub' = After(pubsub, Head(fire[p]))
    /\ fire' = [fire EXCEPT ![p] = IF pubsub = {} THEN @ ELSE Tail(@)]
    /\ UNCHANGED <<local, tracked, countVars, channels, started, pc, todo, calls>>

FirePubSub(p) ==
    /\ Ready(p) /\ Head(fire[p])[3] = "pubsub"
    /\ pubsub' = IF started THEN After(pubsub, Head(fire[p])) ELSE pubsub
    /\ fire' = [fire EXCEPT ![p] = Tail(@)]
    /\ UNCHANGED <<local, tracked, countVars, channels, started, pc, todo, calls>>

\* Start creates the handle and joins the channels registered so far.
Start ==
    /\ ~started /\ started' = TRUE /\ pubsub' = channels
    /\ UNCHANGED <<local, tracked, countVars, channels, pc, todo, fire, calls>>

-----------------------------------------------------------------------------
ClientStep(c) ==
    SubscribeTrack(c) \/ SubscribeCount(c) \/ SubscribeReturn(c)
        \/ UnsubscribeCount(c) \/ UnsubscribeLocal(c)
Fire(p) == FireChannels(p) \/ FirePubSub(p)

Next ==
    \/ \E c \in Clients : SubscribeLocal(c) \/ UnsubscribeTrack(c)
                            \/ Cancel(c) \/ ClientStep(c)
    \/ \E t \in Topics : Reconcile(t)
    \/ \E p \in Procs : Fire(p)
    \/ Start

Spec == Init /\ [][Next]_vars

\* Goroutines inside a call run on, app.Run starts the subscriber, and the
\* reconciler's ticker keeps visiting every symbol.
FairSpec ==
    /\ Spec /\ WF_vars(Start)
    /\ \A c \in Clients : WF_vars(ClientStep(c))
    /\ \A p \in Procs : WF_vars(Fire(p))
    /\ \A t \in Topics : WF_vars(Reconcile(t))

-----------------------------------------------------------------------------
Callbacks == Topics \X {"join", "leave"} \X {"channels", "pubsub"}

TypeOK ==
    /\ local \in [Clients -> SUBSET Topics]
    /\ tracked \in [Clients -> SUBSET Topics]
    /\ localCount \in [Topics -> Nat] /\ redisSub \in [Topics -> BOOLEAN]
    /\ activeRedisSubs = Cardinality({t \in Topics : redisSub[t]})
    /\ channels \subseteq Topics /\ pubsub \subseteq Topics
    /\ started \in BOOLEAN /\ (started \/ pubsub = {})
    /\ todo \in [Clients -> SUBSET Topics] /\ fire \in [Procs -> Seq(Callbacks)]

Quiet == \A p \in Procs : pc[p] = "idle" /\ fire[p] = <<>>
Members(t) == {c \in Clients : t \in local[c]}

\* symbolState.localCount is the "number of local subscribers" of the symbol
\* whenever no call is in progress.
CountExact == Quiet => \A t \in Topics : localCount[t] = Cardinality(Members(t))

\* The flag and the count change under one lock and always agree, so a
\* symbol is marked as subscribed exactly while it has local subscribers.
FlagMatchesCount == \A t \in Topics : redisSub[t] <=> localCount[t] > 0

\* With at most one goroutine calling, the Redis side follows the router:
\* between calls the handle has joined exactly the channels that local
\* clients need.
RedisFollows ==
    Quiet /\ started => \A t \in Topics : t \in pubsub <=> Members(t) # {}

\* "When the last client unsubscribes, the Redis channel is unsubscribed."
\* The code does not have this property: README, section 5.
RedisReleased ==
    Quiet => \A t \in Topics : Members(t) = {} => t \notin pubsub

\* Clients that leave through their handle keep a joined channel joined: a
\* client that comes back, or a second one, is served by Redis again.
ServedAgain ==
    Quiet /\ started => \A t \in Topics : Members(t) # {} => t \in pubsub

\* "the Reconcile loop will fix any inconsistencies": in the end every
\* symbol with local subscribers has its Redis channel joined.
\* The code does not have this property: README, section 5.
ReconcileFixes ==
    []<>(\A t \in Topics : localCount[t] > 0 => t \in pubsub)

\* A call of Subscribe or Unsubscribe ends, callbacks included.
CallsReturn == \A c \in Clients : pc[c] # "idle" ~> pc[c] = "idle"

-----------------------------------------------------------------------------
(* Proofs, for any finite sets of clients and topics                       *)

\* The flag of a topic follows its count, and the gauge counts the flags
\* (updateCount, Reconcile).
FlagsExact ==
    FlagMatchesCount /\ activeRedisSubs = Cardinality({t \in Topics : redisSub[t]})

\* The router's books are in order in every configuration: the types with the gauge,
\* and the flags (updateCount, fireOnChange, Subscriber.Start).
RouterConsistent == TypeOK /\ FlagsExact

\* Time for the provers: a leaf that names no prover of its own is one for SMT.
USE SMTT(60)

\* One element of a finite set joins or leaves a subset of it.
LEMMA OneMoves ==
    ASSUME NEW S, IsFiniteSet(S), NEW A \in SUBSET S, NEW B \in SUBSET S, NEW s \in S,
           \A x \in S : x # s => (x \in A <=> x \in B)
    PROVE  /\ Cardinality(A) \in Nat /\ Cardinality(B) \in Nat
           /\ (s \in A <=> s \in B) => Cardinality(B) = Cardinality(A)
           /\ s \in A /\ s \notin B => Cardinality(B) = Cardinality(A) - 1
           /\ s \notin A /\ s \in B => Cardinality(B) = Cardinality(A) + 1
<1>1. IsFiniteSet(A) /\ IsFiniteSet(B)
  BY FS_Subset
<1>2. Cardinality(A) \in Nat /\ Cardinality(B) \in Nat
  BY <1>1, FS_CardinalityType
<1>3. CASE s \in A <=> s \in B
  <2>1. A = B
    BY <1>3
  <2> QED
    BY <1>2, <1>3, <2>1
<1>4. CASE s \in A /\ s \notin B
  <2>1. B = A \ {s}
    BY <1>4
  <2>2. Cardinality(A \ {s}) = Cardinality(A) - 1
    BY <1>1, <1>4, FS_RemoveElement
  <2> QED
    BY <1>2, <1>4, <2>1, <2>2
<1>5. CASE s \notin A /\ s \in B
  <2>1. B = A \cup {s}
    BY <1>5
  <2>2. Cardinality(A \cup {s}) = Cardinality(A) + 1
    BY <1>1, <1>5, FS_AddElement
  <2> QED
    BY <1>2, <1>5, <2>1, <2>2
<1> QED
  BY <1>3, <1>4, <1>5

\* Flags, counts and the gauge, with what their steps need.
FlagInv ==
    /\ localCount \in [Topics -> Nat] /\ redisSub \in [Topics -> BOOLEAN]
    /\ todo \in [Clients -> SUBSET Topics] /\ tracked \in [Clients -> SUBSET Topics]
    /\ FlagsExact

\* A step that counts topic t and keeps its flag in agreement.
LEMMA CountStep ==
    ASSUME FlagInv, NEW t \in Topics, NEW n \in Nat, NEW on \in BOOLEAN,
           on <=> n > 0,
           localCount' = [localCount EXCEPT ![t] = n],
           redisSub' = [redisSub EXCEPT ![t] = on],
           activeRedisSubs' = activeRedisSubs + (IF on THEN 1 ELSE 0)
                                              - (IF redisSub[t] THEN 1 ELSE 0)
    PROVE  /\ localCount' \in [Topics -> Nat] /\ redisSub' \in [Topics -> BOOLEAN]
           /\ FlagsExact'
<1> DEFINE A == {x \in Topics : redisSub[x]}
           B == {x \in Topics : redisSub'[x]}
<1>1. localCount \in [Topics -> Nat] /\ redisSub \in [Topics -> BOOLEAN]
  BY DEF FlagInv
<1>2. localCount' \in [Topics -> Nat] /\ redisSub' \in [Topics -> BOOLEAN]
  BY <1>1
<1>3. \A x \in Topics : x # t => (x \in A <=> x \in B)
  BY <1>1
<1>4. (t \in A <=> redisSub[t]) /\ (t \in B <=> on)
  BY <1>1
<1>5. /\ Cardinality(A) \in Nat /\ Cardinality(B) \in Nat
      /\ (t \in A <=> t \in B) => Cardinality(B) = Cardinality(A)
      /\ t \in A /\ t \notin B => Cardinality(B) = Cardinality(A) - 1
      /\ t \notin A /\ t \in B => Cardinality(B) = Cardinality(A) + 1
  <2>1. A \in SUBSET Topics /\ B \in SUBSET Topics
    OBVIOUS
  <2> HIDE DEF A, B
  <2> QED
    BY <1>3, <2>1, OneMoves, RouterAssumption
<1>6. activeRedisSubs = Cardinality(A)
  BY DEF FlagInv, FlagsExact
<1>7. activeRedisSubs' = Cardinality(B)
  <2> HIDE DEF A, B
  <2>1. CASE redisSub[t] /\ on
    BY <1>4, <1>5, <1>6, <2>1
  <2>2. CASE redisSub[t] /\ ~on
    BY <1>4, <1>5, <1>6, <2>2
  <2>3. CASE ~redisSub[t] /\ on
    BY <1>4, <1>5, <1>6, <2>3
  <2>4. CASE ~redisSub[t] /\ ~on
    BY <1>4, <1>5, <1>6, <2>4
  <2> QED
    BY <2>1, <2>2, <2>3, <2>4
<1>8. FlagMatchesCount'
  <2>1. ASSUME NEW x \in Topics, x # t PROVE redisSub'[x] <=> localCount'[x] > 0
    <3>1. redisSub'[x] = redisSub[x] /\ localCount'[x] = localCount[x]
      BY <1>1, <2>1
    <3> QED
      BY <3>1 DEF FlagInv, FlagsExact, FlagMatchesCount
  <2>2. redisSub'[t] <=> localCount'[t] > 0
    BY <1>1
  <2> QED
    BY <2>1, <2>2 DEF FlagMatchesCount
<1> QED
  BY <1>2, <1>7, <1>8 DEF FlagsExact

\* FlagInv in the initial state.
LEMMA FlagInit == Init => FlagInv
<1> SUFFICES ASSUME Init PROVE FlagInv
  OBVIOUS
<1>1. {t \in Topics : redisSub[t]} = {}
  BY DEF Init
<1>2. activeRedisSubs = Cardinality({t \in Topics : redisSub[t]})
  BY <1>1, FS_EmptySet, ZenonT(60) DEF Init
<1>3. FlagMatchesCount
  BY DEF Init, FlagMatchesCount
<1>4. /\ localCount \in [Topics -> Nat] /\ redisSub \in [Topics -> BOOLEAN]
      /\ todo \in [Clients -> SUBSET Topics] /\ tracked \in [Clients -> SUBSET Topics]
  BY DEF Init
<1> QED
  BY <1>2, <1>3, <1>4 DEF FlagInv, FlagsExact

\* What SubscribeCount and UnsubscribeCount do to the topic they count.
LEMMA SubscribeCounts ==
    ASSUME FlagInv, NEW c \in Clients, SubscribeCount(c)
    PROVE  \E t \in todo[c] :
             /\ localCount' = [localCount EXCEPT ![t] = localCount[t] + 1]
             /\ todo' = [todo EXCEPT ![c] = todo[c] \ {t}]
             /\ FlagInv'
<1>1. PICK t \in todo[c] :
        /\ localCount' = [localCount EXCEPT ![t] = localCount[t] + 1]
        /\ IF localCount[t] + 1 = 1 /\ ~redisSub[t]
           THEN /\ redisSub' = [redisSub EXCEPT ![t] = TRUE]
                /\ activeRedisSubs' = activeRedisSubs + 1
           ELSE redisSub' = redisSub /\ activeRedisSubs' = activeRedisSubs
        /\ todo' = [todo EXCEPT ![c] = todo[c] \ {t}]
  BY ZenonT(60) DEF SubscribeCount
<1>2. /\ t \in Topics /\ localCount[t] \in Nat /\ redisSub[t] \in BOOLEAN
      /\ redisSub \in [Topics -> BOOLEAN] /\ (redisSub[t] <=> localCount[t] > 0)
  BY DEF FlagInv, FlagsExact, FlagMatchesCount
<1>3. activeRedisSubs \in Nat
  BY FS_Subset, FS_CardinalityType, RouterAssumption DEF FlagInv, FlagsExact
<1>4. /\ redisSub' = [redisSub EXCEPT ![t] = TRUE]
      /\ activeRedisSubs' = activeRedisSubs + 1 - (IF redisSub[t] THEN 1 ELSE 0)
  <2>1. CASE redisSub[t]
    <3>1. localCount[t] + 1 # 1
      BY <1>2, <2>1
    <3>2. redisSub' = redisSub /\ activeRedisSubs' = activeRedisSubs
      BY <1>1, <3>1
    <3>3. redisSub = [redisSub EXCEPT ![t] = TRUE]
      BY <1>2, <2>1
    <3> QED
      BY <1>3, <2>1, <3>2, <3>3
  <2>2. CASE ~redisSub[t]
    <3>1. localCount[t] + 1 = 1
      BY <1>2, <2>2
    <3>2. redisSub' = [redisSub EXCEPT ![t] = TRUE] /\ activeRedisSubs' = activeRedisSubs + 1
      BY <1>1, <2>2, <3>1
    <3> QED
      BY <1>3, <2>2, <3>2
  <2> QED
    BY <2>1, <2>2
<1>5. /\ localCount' \in [Topics -> Nat] /\ redisSub' \in [Topics -> BOOLEAN]
      /\ FlagsExact'
  <2>1. localCount[t] + 1 \in Nat /\ (TRUE <=> localCount[t] + 1 > 0)
    BY <1>2
  <2>2. activeRedisSubs' = activeRedisSubs + (IF TRUE THEN 1 ELSE 0)
                                           - (IF redisSub[t] THEN 1 ELSE 0)
    BY <1>4
  <2> QED
    BY <1>1, <1>2, <1>4, <2>1, <2>2, CountStep, ZenonT(60)
<1>6. todo' \in [Clients -> SUBSET Topics] /\ tracked' \in [Clients -> SUBSET Topics]
  BY <1>1, ZenonT(60) DEF FlagInv, SubscribeCount
<1>7. FlagInv'
  BY <1>5, <1>6 DEF FlagInv
<1> QED
  BY <1>1, <1>7, ZenonT(60)

LEMMA UnsubscribeCounts ==
    ASSUME FlagInv, NEW c \in Clients, UnsubscribeCount(c)
    PROVE  \E t \in todo[c] :
             /\ localCount' = [localCount EXCEPT ![t] =
                                  IF localCount[t] > 0 THEN localCount[t] - 1 ELSE 0]
             /\ todo' = [todo EXCEPT ![c] = todo[c] \ {t}]
             /\ FlagInv'
<1> DEFINE n(t) == IF localCount[t] > 0 THEN localCount[t] - 1 ELSE 0
<1>1. PICK t \in todo[c] :
        /\ localCount' = [localCount EXCEPT ![t] = n(t)]
        /\ IF n(t) = 0 /\ redisSub[t]
           THEN /\ redisSub' = [redisSub EXCEPT ![t] = FALSE]
                /\ activeRedisSubs' = activeRedisSubs - 1
           ELSE redisSub' = redisSub /\ activeRedisSubs' = activeRedisSubs
        /\ todo' = [todo EXCEPT ![c] = todo[c] \ {t}]
  BY ZenonT(60) DEF UnsubscribeCount
<1>2. /\ t \in Topics /\ localCount[t] \in Nat /\ redisSub[t] \in BOOLEAN
      /\ redisSub \in [Topics -> BOOLEAN] /\ (redisSub[t] <=> localCount[t] > 0)
  BY DEF FlagInv, FlagsExact, FlagMatchesCount
<1>3. activeRedisSubs \in Nat
  BY FS_Subset, FS_CardinalityType, RouterAssumption DEF FlagInv, FlagsExact
<1>4. n(t) \in Nat /\ (n(t) > 0 => redisSub[t])
  BY <1>2
<1> HIDE DEF n
<1>5. PICK on \in BOOLEAN :
        /\ on <=> n(t) > 0
        /\ redisSub' = [redisSub EXCEPT ![t] = on]
        /\ activeRedisSubs' = activeRedisSubs + (IF on THEN 1 ELSE 0)
                                              - (IF redisSub[t] THEN 1 ELSE 0)
  <2>1. CASE n(t) > 0
    <3>1. redisSub' = redisSub /\ activeRedisSubs' = activeRedisSubs /\ redisSub[t]
      BY <1>1, <1>4, <2>1
    <3>2. redisSub' = [redisSub EXCEPT ![t] = TRUE]
      BY <1>2, <3>1
    <3>3. activeRedisSubs' = activeRedisSubs + (IF TRUE THEN 1 ELSE 0)
                                             - (IF redisSub[t] THEN 1 ELSE 0)
      BY <1>3, <3>1
    <3> QED
      BY <2>1, <3>2, <3>3, ZenonT(60)
  <2>2. CASE ~(n(t) > 0) /\ redisSub[t]
    <3>1. redisSub' = [redisSub EXCEPT ![t] = FALSE] /\ activeRedisSubs' = activeRedisSubs - 1
      BY <1>1, <1>4, <2>2
    <3>2. activeRedisSubs' = activeRedisSubs + (IF FALSE THEN 1 ELSE 0)
                                             - (IF redisSub[t] THEN 1 ELSE 0)
      BY <1>3, <2>2, <3>1
    <3> QED
      BY <2>2, <3>1, <3>2, ZenonT(60)
  <2>3. CASE ~(n(t) > 0) /\ ~redisSub[t]
    <3>1. redisSub' = redisSub /\ activeRedisSubs' = activeRedisSubs
      BY <1>1, <2>3
    <3>2. redisSub' = [redisSub EXCEPT ![t] = FALSE]
      BY <1>2, <2>3, <3>1
    <3>3. activeRedisSubs' = activeRedisSubs + (IF FALSE THEN 1 ELSE 0)
                                             - (IF redisSub[t] THEN 1 ELSE 0)
      BY <1>3, <2>3, <3>1
    <3> QED
      BY <2>3, <3>2, <3>3, ZenonT(60)
  <2> QED
    BY <2>1, <2>2, <2>3
<1>6. /\ localCount' \in [Topics -> Nat] /\ redisSub' \in [Topics -> BOOLEAN]
      /\ FlagsExact'
  BY <1>1, <1>2, <1>4, <1>5, CountStep, ZenonT(60)
<1>7. todo' \in [Clients -> SUBSET Topics] /\ tracked' \in [Clients -> SUBSET Topics]
  BY <1>1 DEF FlagInv, UnsubscribeCount
<1>8. FlagInv'
  BY <1>6, <1>7 DEF FlagInv
<1> QED
  BY <1>1, <1>8, ZenonT(60) DEF n

\* Reconcile finds nothing to repair: a flag never disagrees with its count.
LEMMA ReconcileIdle ==
    ASSUME FlagInv, NEW t \in Topics, Reconcile(t)
    PROVE  UNCHANGED <<local, tracked, countVars, pc, todo>>
<1>1. /\ localCount[t] \in Nat /\ (redisSub[t] <=> localCount[t] > 0)
      /\ redisSub[t] \in BOOLEAN /\ redisSub \in [Topics -> BOOLEAN]
  BY DEF FlagInv, FlagsExact, FlagMatchesCount
<1>2. ~(localCount[t] > 0 /\ ~redisSub[t]) /\ ~(localCount[t] <= 0 /\ redisSub[t])
  BY <1>1
<1>3. redisSub' = [redisSub EXCEPT ![t] = (redisSub[t] \/ FALSE) /\ ~FALSE]
  BY <1>2, ZenonT(60) DEF Reconcile
<1>4. redisSub' = redisSub
  BY <1>1, <1>3
<1>5. activeRedisSubs \in Nat
  BY FS_Subset, FS_CardinalityType, RouterAssumption DEF FlagInv, FlagsExact
<1>6. activeRedisSubs' = activeRedisSubs + 0 - 0
  BY <1>2 DEF Reconcile
<1> QED
  BY <1>4, <1>5, <1>6 DEF Reconcile, countVars

\* Every step keeps the flags exact.
LEMMA FlagStep == FlagInv /\ [Next]_vars => FlagInv'
<1> SUFFICES ASSUME FlagInv, [Next]_vars PROVE FlagInv'
  OBVIOUS
<1>1. ASSUME UNCHANGED countVars, todo' \in [Clients -> SUBSET Topics],
             tracked' \in [Clients -> SUBSET Topics]
      PROVE  FlagInv'
  BY <1>1 DEF FlagInv, FlagsExact, FlagMatchesCount, countVars
<1>2. ASSUME NEW c \in Clients, SubscribeLocal(c) PROVE FlagInv'
  BY <1>1, <1>2 DEF SubscribeLocal, FlagInv
<1>3. ASSUME NEW c \in Clients, SubscribeTrack(c) PROVE FlagInv'
  BY <1>1, <1>3 DEF SubscribeTrack, FlagInv
<1>4. ASSUME NEW c \in Clients, SubscribeReturn(c) \/ UnsubscribeLocal(c) \/ Cancel(c)
      PROVE  FlagInv'
  BY <1>1, <1>4 DEF SubscribeReturn, UnsubscribeLocal, Cancel, FlagInv
<1>5. ASSUME NEW c \in Clients, UnsubscribeTrack(c) PROVE FlagInv'
  BY <1>1, <1>5 DEF UnsubscribeTrack, FlagInv
<1>6. ASSUME NEW p \in Procs, Fire(p) PROVE FlagInv'
  BY <1>1, <1>6, ZenonT(60) DEF Fire, FireChannels, FirePubSub, FlagInv
<1>7. ASSUME Start \/ UNCHANGED vars PROVE FlagInv'
  BY <1>1, <1>7 DEF Start, vars, countVars, FlagInv
<1>8. ASSUME NEW t \in Topics, Reconcile(t) PROVE FlagInv'
  BY <1>1, <1>8, ReconcileIdle DEF FlagInv
<1>9. ASSUME NEW c \in Clients, SubscribeCount(c) PROVE FlagInv'
  BY <1>9, SubscribeCounts
<1>10. ASSUME NEW c \in Clients, UnsubscribeCount(c) PROVE FlagInv'
  BY <1>10, UnsubscribeCounts
<1> QED
  BY <1>2, <1>3, <1>4, <1>5, <1>6, <1>7, <1>8, <1>9, <1>10 DEF Next, ClientStep

\* For any clients and topics, however they come and go, a topic is marked as joined
\* exactly while its count is positive, and the gauge counts the marks.  So Reconcile
\* never finds anything to repair.
THEOREM RouterFlags == Spec => []FlagsExact
<1>1. FlagInv => FlagsExact
  BY DEF FlagInv
<1> QED
  BY FlagInit, FlagStep, <1>1, PTL DEF Spec

-----------------------------------------------------------------------------
\* The topics client c has in the counts: between the steps of a call, those that
\* Subscribe has counted already or Unsubscribe has not yet counted down.
Held(c) ==
    IF pc[c] = "uncount" THEN todo[c]
    ELSE IF pc[c] = "count" THEN tracked[c] \ todo[c] ELSE tracked[c]

Holders(t) == {c \in Clients : t \in Held(c)}

\* What a client's position says about its sets.
Shape(c) ==
    /\ pc[c] = "idle" => local[c] = tracked[c]
    /\ pc[c] = "track" => tracked[c] = {} /\ local[c] = todo[c]
    /\ pc[c] = "count" => local[c] = tracked[c] /\ todo[c] \subseteq tracked[c]
    /\ pc[c] = "uncount" => tracked[c] = {}

CountInv ==
    /\ FlagInv
    /\ local \in [Clients -> SUBSET Topics]
    /\ pc \in [Procs -> {"idle", "track", "count", "uncount"}]
    /\ \A c \in Clients : Shape(c)
    /\ \A t \in Topics : localCount[t] = Cardinality(Holders(t))

\* A step that leaves the counts and what every client holds keeps the counts exact.
LEMMA SameHolders ==
    ASSUME CountInv, localCount' = localCount, \A c \in Clients : Held(c)' = Held(c)
    PROVE  \A t \in Topics : localCount'[t] = Cardinality(Holders(t))'
<1>1. \A t \in Topics : Holders(t)' = Holders(t)
  BY DEF Holders
<1> QED
  BY <1>1 DEF CountInv

\* A client that gets hold of t, or lets go of it, changes the holders of t by one.
LEMMA OneHolds ==
    ASSUME CountInv, NEW c \in Clients, NEW t \in Topics,
           \A d \in Clients \ {c} : Held(d)' = Held(d),
           \A x \in Topics \ {t} : x \in Held(c)' <=> x \in Held(c)
    PROVE  /\ \A x \in Topics \ {t} : Holders(x)' = Holders(x)
           /\ t \in Held(c)' /\ t \notin Held(c)
                => Cardinality(Holders(t))' = localCount[t] + 1
           /\ t \notin Held(c)' /\ t \in Held(c)
                => localCount[t] > 0 /\ Cardinality(Holders(t))' = localCount[t] - 1
<1> DEFINE A == {d \in Clients : t \in Held(d)}
           B == {d \in Clients : t \in Held(d)'}
<1>1. \A x \in Topics \ {t} : Holders(x)' = Holders(x)
  BY DEF Holders
<1>2. Cardinality(A) = localCount[t] /\ Cardinality(Holders(t))' = Cardinality(B)
  BY DEF Holders, CountInv
<1>3. \A d \in Clients : d # c => (d \in A <=> d \in B)
  OBVIOUS
<1>4. (c \in A <=> t \in Held(c)) /\ (c \in B <=> t \in Held(c)')
  OBVIOUS
<1>5. A \in SUBSET Clients /\ B \in SUBSET Clients
  OBVIOUS
<1>6. c \in A => Cardinality(A) > 0
  <2>1. IsFiniteSet(A)
    BY <1>5, FS_Subset, RouterAssumption
  <2>2. Cardinality(A) = 0 <=> A = {}
    BY <2>1, FS_EmptySet
  <2>3. Cardinality(A) \in Nat
    BY <2>1, FS_CardinalityType
  <2> QED
    BY <2>2, <2>3
<1> HIDE DEF A, B
<1>7. /\ Cardinality(A) \in Nat /\ Cardinality(B) \in Nat
      /\ c \in A /\ c \notin B => Cardinality(B) = Cardinality(A) - 1
      /\ c \notin A /\ c \in B => Cardinality(B) = Cardinality(A) + 1
  BY <1>3, <1>5, OneMoves, RouterAssumption
<1> QED
  BY <1>1, <1>2, <1>4, <1>6, <1>7

\* CountInv in the initial state.
LEMMA CountInit == Init => CountInv
<1> SUFFICES ASSUME Init PROVE CountInv
  OBVIOUS
<1>1. \A c \in Clients : Held(c) = {} /\ Shape(c)
  BY DEF Init, Held, Shape, Procs
<1>2. \A t \in Topics : Holders(t) = {}
  BY <1>1 DEF Holders
<1>3. \A t \in Topics : localCount[t] = Cardinality(Holders(t))
  BY <1>2, FS_EmptySet, ZenonT(60) DEF Init
<1>4. /\ local \in [Clients -> SUBSET Topics]
      /\ pc \in [Procs -> {"idle", "track", "count", "uncount"}]
  BY DEF Init
<1> QED
  BY <1>1, <1>3, <1>4, FlagInit DEF CountInv

\* The steps of a client that leave the counts alone.
LEMMA CallStep ==
    ASSUME CountInv, ~Resubscribe, NEW c \in Clients,
           \/ SubscribeLocal(c) \/ SubscribeTrack(c) \/ SubscribeReturn(c)
           \/ UnsubscribeTrack(c) \/ UnsubscribeLocal(c)
    PROVE  /\ localCount' = localCount /\ local' \in [Clients -> SUBSET Topics]
           /\ pc' \in [Procs -> {"idle", "track", "count", "uncount"}]
           /\ \A d \in Clients : Shape(d)' /\ Held(d)' = Held(d)
<1>0. /\ local \in [Clients -> SUBSET Topics] /\ todo \in [Clients -> SUBSET Topics]
      /\ tracked \in [Clients -> SUBSET Topics] /\ c \in Procs /\ Clients \subseteq Procs
      /\ pc \in [Procs -> {"idle", "track", "count", "uncount"}]
      /\ \A d \in Clients : Shape(d)
  BY DEF CountInv, FlagInv, Procs
<1>1. CASE SubscribeLocal(c)
  <2>1. PICK ts \in SUBSET Topics \ {{}} :
          /\ local' = [local EXCEPT ![c] = local[c] \union ts]
          /\ todo' = [todo EXCEPT ![c] = ts]
    BY <1>1, ZenonT(60) DEF SubscribeLocal
  <2>2. /\ pc[c] = "idle" /\ local[c] = {} /\ pc' = [pc EXCEPT ![c] = "track"]
        /\ tracked' = tracked /\ localCount' = localCount
    BY <1>1 DEF SubscribeLocal, countVars
  <2>3. \A d \in Clients : Shape(d)' /\ Held(d)' = Held(d)
    BY <1>0, <2>1, <2>2, ZenonT(60) DEF Shape, Held
  <2> QED
    BY <1>0, <2>1, <2>2, <2>3
<1>2. CASE SubscribeTrack(c)
  <2>1. /\ pc[c] = "track" /\ tracked' = [tracked EXCEPT ![c] = tracked[c] \union todo[c]]
        /\ pc' = [pc EXCEPT ![c] = "count"]
        /\ local' = local /\ todo' = todo /\ localCount' = localCount
    BY <1>2 DEF SubscribeTrack, countVars
  <2>2. \A d \in Clients : Shape(d)' /\ Held(d)' = Held(d)
    BY <1>0, <2>1, ZenonT(60) DEF Shape, Held
  <2> QED
    BY <1>0, <2>1, <2>2
<1>3. CASE SubscribeReturn(c)
  <2>1. /\ pc[c] = "count" /\ todo[c] = {} /\ pc' = [pc EXCEPT ![c] = "idle"]
        /\ UNCHANGED <<local, tracked, todo, localCount>>
    BY <1>3 DEF SubscribeReturn, countVars
  <2>2. \A d \in Clients : Shape(d)' /\ Held(d)' = Held(d)
    BY <1>0, <2>1 DEF Shape, Held
  <2> QED
    BY <1>0, <2>1, <2>2
<1>4. CASE UnsubscribeTrack(c)
  <2>1. /\ pc[c] = "idle" /\ todo' = [todo EXCEPT ![c] = tracked[c]]
        /\ tracked' = [tracked EXCEPT ![c] = {}] /\ pc' = [pc EXCEPT ![c] = "uncount"]
        /\ UNCHANGED <<local, localCount>>
    BY <1>4 DEF UnsubscribeTrack, countVars
  <2>2. \A d \in Clients : Shape(d)' /\ Held(d)' = Held(d)
    BY <1>0, <2>1, ZenonT(60) DEF Shape, Held
  <2> QED
    BY <1>0, <2>1, <2>2
<1>5. CASE UnsubscribeLocal(c)
  <2>1. /\ pc[c] = "uncount" /\ todo[c] = {} /\ local' = [local EXCEPT ![c] = {}]
        /\ pc' = [pc EXCEPT ![c] = "idle"] /\ UNCHANGED <<tracked, todo, localCount>>
    BY <1>5 DEF UnsubscribeLocal, countVars
  <2>2. \A d \in Clients : Shape(d)' /\ Held(d)' = Held(d)
    BY <1>0, <2>1 DEF Shape, Held
  <2> QED
    BY <1>0, <2>1, <2>2
<1> QED
  BY <1>1, <1>2, <1>3, <1>4, <1>5

\* The steps that count.
LEMMA CountingStep ==
    ASSUME CountInv, NEW c \in Clients, SubscribeCount(c) \/ UnsubscribeCount(c)
    PROVE  CountInv'
<1>0. /\ local \in [Clients -> SUBSET Topics] /\ todo \in [Clients -> SUBSET Topics]
      /\ tracked \in [Clients -> SUBSET Topics] /\ localCount \in [Topics -> Nat]
      /\ \A d \in Clients : Shape(d) /\ FlagInv
  BY DEF CountInv, FlagInv
<1>1. UNCHANGED <<local, tracked, pc>>
  BY ZenonT(60) DEF SubscribeCount, UnsubscribeCount
<1>2. CASE SubscribeCount(c)
  <2>1. PICK t \in todo[c] :
          /\ localCount' = [localCount EXCEPT ![t] = localCount[t] + 1]
          /\ todo' = [todo EXCEPT ![c] = todo[c] \ {t}]
          /\ FlagInv'
    BY <1>0, <1>2, SubscribeCounts
  <2>2. pc[c] = "count" /\ t \in Topics /\ t \in tracked[c]
    BY <1>0, <1>2, <2>1, ZenonT(60) DEF SubscribeCount, Shape
  <2>3. /\ \A d \in Clients : Shape(d)' /\ (d # c => Held(d)' = Held(d))
        /\ Held(c)' = Held(c) \cup {t} /\ t \notin Held(c)
    BY <1>0, <1>1, <2>1, <2>2, ZenonT(60) DEF Shape, Held
  <2>4. /\ \A x \in Topics \ {t} : Holders(x)' = Holders(x)
        /\ Cardinality(Holders(t))' = localCount[t] + 1
    BY <2>2, <2>3, OneHolds
  <2>5. \A x \in Topics : localCount'[x] = Cardinality(Holders(x))'
    BY <1>0, <2>1, <2>2, <2>4 DEF CountInv
  <2> QED
    BY <1>1, <2>1, <2>3, <2>5 DEF CountInv
<1>3. CASE UnsubscribeCount(c)
  <2>1. PICK t \in todo[c] :
          /\ localCount' = [localCount EXCEPT ![t] =
                               IF localCount[t] > 0 THEN localCount[t] - 1 ELSE 0]
          /\ todo' = [todo EXCEPT ![c] = todo[c] \ {t}]
          /\ FlagInv'
    BY <1>0, <1>3, UnsubscribeCounts
  <2>2. pc[c] = "uncount" /\ t \in Topics
    BY <1>0, <1>3, <2>1, ZenonT(60) DEF UnsubscribeCount
  <2>3. /\ \A d \in Clients : Shape(d)' /\ (d # c => Held(d)' = Held(d))
        /\ Held(c)' = Held(c) \ {t} /\ t \in Held(c)
    BY <1>0, <1>1, <2>1, <2>2, ZenonT(60) DEF Shape, Held
  <2>4. /\ \A x \in Topics \ {t} : Holders(x)' = Holders(x)
        /\ localCount[t] > 0 /\ Cardinality(Holders(t))' = localCount[t] - 1
    BY <2>2, <2>3, OneHolds
  <2>5. \A x \in Topics : localCount'[x] = Cardinality(Holders(x))'
    BY <1>0, <2>1, <2>2, <2>4 DEF CountInv
  <2> QED
    BY <1>1, <2>1, <2>3, <2>5 DEF CountInv
<1> QED
  BY <1>2, <1>3

\* For any clients and topics: as long as clients leave through the router and
\* subscribe once before they leave, a topic's count between calls is the number of
\* local clients that have it, whatever the interleaving of their calls was.
THEOREM RouterCounts == ASSUME ~ViaHandle, ~Resubscribe PROVE Spec => []CountExact
<1>1. CountInv /\ [Next]_vars => CountInv'
  <2> SUFFICES ASSUME CountInv, [Next]_vars PROVE CountInv'
    OBVIOUS
  <2>1. FlagInv'
    BY FlagStep DEF CountInv
  <2>2. ASSUME NEW c \in Clients,
               \/ SubscribeLocal(c) \/ SubscribeTrack(c) \/ SubscribeReturn(c)
               \/ UnsubscribeTrack(c) \/ UnsubscribeLocal(c)
        PROVE  CountInv'
    <3>1. /\ localCount' = localCount /\ local' \in [Clients -> SUBSET Topics]
          /\ pc' \in [Procs -> {"idle", "track", "count", "uncount"}]
          /\ \A d \in Clients : Shape(d)' /\ Held(d)' = Held(d)
      BY <2>2, CallStep
    <3>2. \A t \in Topics : localCount'[t] = Cardinality(Holders(t))'
      BY <3>1, SameHolders
    <3> QED
      BY <2>1, <3>1, <3>2 DEF CountInv
  <2>3. ASSUME UNCHANGED <<local, tracked, localCount, pc, todo>> PROVE CountInv'
    <3>1. \A d \in Clients : Shape(d)' /\ Held(d)' = Held(d)
      BY <2>3 DEF CountInv, Shape, Held
    <3>2. \A t \in Topics : localCount'[t] = Cardinality(Holders(t))'
      BY <2>3, <3>1, SameHolders
    <3> QED
      BY <2>1, <2>3, <3>1, <3>2 DEF CountInv
  <2>4. ASSUME (\E p \in Procs : Fire(p)) \/ Start \/ UNCHANGED vars PROVE CountInv'
    BY <2>3, <2>4, ZenonT(60) DEF Fire, FireChannels, FirePubSub, Start, vars, countVars
  <2>5. ASSUME NEW t \in Topics, Reconcile(t) PROVE CountInv'
    BY <2>3, <2>5, ReconcileIdle DEF CountInv, countVars
  <2> QED
    BY <2>2, <2>4, <2>5, CountingStep DEF Next, ClientStep, Cancel
<1>2. CountInv => CountExact
  <2> SUFFICES ASSUME CountInv, Quiet, NEW t \in Topics
               PROVE  localCount[t] = Cardinality(Members(t))
    BY DEF CountExact
  <2>1. \A c \in Clients : Held(c) = local[c]
    BY DEF CountInv, Quiet, Held, Shape, Procs
  <2>2. Holders(t) = Members(t)
    BY <2>1 DEF Holders, Members
  <2> QED
    BY <2>2 DEF CountInv
<1> QED
  BY CountInit, <1>1, <1>2, PTL DEF Spec

-----------------------------------------------------------------------------
\* Queues of callbacks: what Append, Tail and the change of the first one do.
LEMMA QueueAppend ==
    ASSUME NEW q \in Seq(Callbacks), NEW b \in Callbacks
    PROVE  /\ Append(q, b) \in Seq(Callbacks) /\ Len(Append(q, b)) = Len(q) + 1
           /\ Append(q, b)[Len(q) + 1] = b
           /\ \A i \in 1..Len(q) : Append(q, b)[i] = q[i]
OBVIOUS

LEMMA QueueTail ==
    ASSUME NEW q \in Seq(Callbacks), q # <<>>
    PROVE  /\ Head(q) = q[1] /\ q[1] \in Callbacks /\ 1 \in 1..Len(q)
           /\ Tail(q) \in Seq(Callbacks) /\ Len(Tail(q)) = Len(q) - 1
           /\ \A i \in 1..Len(Tail(q)) : i + 1 \in 2..Len(q) /\ Tail(q)[i] = q[i + 1]
OBVIOUS

LEMMA QueueFirst ==
    ASSUME NEW q \in Seq(Callbacks), q # <<>>, NEW b \in Callbacks
    PROVE  /\ [q EXCEPT ![1] = b] \in Seq(Callbacks) /\ Len([q EXCEPT ![1] = b]) = Len(q)
           /\ [q EXCEPT ![1] = b][1] = b
           /\ \A i \in 2..Len(q) : [q EXCEPT ![1] = b][i] = q[i]
OBVIOUS

\* The parts of a callback.
LEMMA CallbackParts ==
    ASSUME NEW b \in Callbacks
    PROVE  /\ b[1] \in Topics /\ b[2] \in {"join", "leave"} /\ b[3] \in {"channels", "pubsub"}
           /\ <<b[1], b[2], "pubsub">> \in Callbacks
BY DEF Callbacks

\* Client c has counted topic t, and may owe the callback that op names.
Owes(c, t, op) ==
    \/ UNCHANGED <<redisSub, fire>>
    \/ /\ redisSub' = [redisSub EXCEPT ![t] = (op = "join")]
       /\ fire' = [fire EXCEPT ![c] = Append(fire[c], <<t, op, "channels">>)]

\* What a step that counts does to the callbacks.
LEMMA CountOwes ==
    ASSUME FlagInv, NEW c \in Clients, SubscribeCount(c) \/ UnsubscribeCount(c)
    PROVE  \E t \in todo[c], op \in {"join", "leave"} :
             /\ pc[c] = (IF op = "join" THEN "count" ELSE "uncount")
             /\ op = "join" => redisSub'[t]
             /\ todo' = [todo EXCEPT ![c] = todo[c] \ {t}]
             /\ Owes(c, t, op) /\ UNCHANGED <<local, tracked, redisVars, pc>>
<1>1. CASE SubscribeCount(c)
  <2>1. PICK t \in todo[c] :
          /\ IF localCount[t] + 1 = 1 /\ ~redisSub[t]
             THEN /\ redisSub' = [redisSub EXCEPT ![t] = TRUE]
                  /\ fire' = [fire EXCEPT ![c] = Append(fire[c], <<t, "join", "channels">>)]
             ELSE UNCHANGED <<redisSub, fire>>
          /\ todo' = [todo EXCEPT ![c] = todo[c] \ {t}]
    BY <1>1, ZenonT(60) DEF SubscribeCount
  <2>2. pc[c] = "count" /\ UNCHANGED <<local, tracked, redisVars, pc>>
    BY <1>1, ZenonT(60) DEF SubscribeCount
  <2>3. Owes(c, t, "join")
    <3>1. ("join" = "join") = TRUE
      OBVIOUS
    <3> QED BY <2>1, <3>1, ZenonT(60) DEF Owes
  <2>4. redisSub'[t]
    <3>1. /\ localCount[t] \in Nat /\ (redisSub[t] <=> localCount[t] > 0)
          /\ redisSub \in [Topics -> BOOLEAN] /\ t \in Topics
      BY DEF FlagInv, FlagsExact, FlagMatchesCount
    <3>2. CASE localCount[t] + 1 = 1 /\ ~redisSub[t]
      BY <2>1, <3>1, <3>2
    <3>3. CASE ~(localCount[t] + 1 = 1 /\ ~redisSub[t])
      <4>1. redisSub[t]
        BY <3>1, <3>3
      <4> QED BY <2>1, <3>3, <4>1, ZenonT(60)
    <3> QED BY <3>2, <3>3
  <2> QED BY <2>1, <2>2, <2>3, <2>4, ZenonT(60)
<1>2. CASE UnsubscribeCount(c)
  <2>1. PICK t \in todo[c] :
          /\ \/ UNCHANGED <<redisSub, fire>>
             \/ /\ redisSub' = [redisSub EXCEPT ![t] = FALSE]
                /\ fire' = [fire EXCEPT ![c] = Append(fire[c], <<t, "leave", "channels">>)]
          /\ todo' = [todo EXCEPT ![c] = todo[c] \ {t}]
    BY <1>2, ZenonT(60) DEF UnsubscribeCount
  <2>2. pc[c] = "uncount" /\ UNCHANGED <<local, tracked, redisVars, pc>>
    BY <1>2, ZenonT(60) DEF UnsubscribeCount
  <2>3. Owes(c, t, "leave")
    <3>1. ("leave" = "join") = FALSE
      OBVIOUS
    <3> QED BY <2>1, <3>1, ZenonT(60) DEF Owes
  <2>4. "leave" # "join"
    OBVIOUS
  <2> QED BY <2>1, <2>2, <2>3, <2>4, ZenonT(60)
<1> QED BY <1>1, <1>2

\* The Redis side, and that the reconciler never has a callback.
RedisInv ==
    /\ FlagInv /\ local \in [Clients -> SUBSET Topics]
    /\ channels \subseteq Topics /\ pubsub \subseteq Topics
    /\ started \in BOOLEAN /\ (started \/ pubsub = {})
    /\ fire \in [Procs -> Seq(Callbacks)] /\ fire[Reconciler] = <<>>

\* The queues of a step that counts.
LEMMA OwesTypes ==
    ASSUME RedisInv, NEW c \in Clients, NEW t \in Topics, NEW op \in {"join", "leave"},
           Owes(c, t, op)
    PROVE  fire' \in [Procs -> Seq(Callbacks)] /\ fire'[Reconciler] = <<>>
<1>0. /\ fire \in [Procs -> Seq(Callbacks)] /\ fire[Reconciler] = <<>> /\ c \in Procs
      /\ Reconciler # c /\ Reconciler \in Procs
  BY RouterAssumption DEF RedisInv, Procs
<1>1. <<t, op, "channels">> \in Callbacks
  BY DEF Callbacks
<1>2. Append(fire[c], <<t, op, "channels">>) \in Seq(Callbacks)
  BY <1>0, <1>1, QueueAppend, ZenonT(60)
<1> QED BY <1>0, <1>2, ZenonT(60) DEF Owes

\* A callback runs: the facts its two halves share.
LEMMA FireFacts ==
    ASSUME RedisInv, NEW p \in Procs, Fire(p)
    PROVE  /\ p \in Clients /\ fire[p] \in Seq(Callbacks) /\ fire[p] # <<>> /\ todo[p] = {}
           /\ Head(fire[p]) = fire[p][1] /\ fire[p][1] \in Callbacks
           /\ UNCHANGED <<local, tracked, countVars, started, pc, todo>>
           /\ \/ /\ fire[p][1][3] = "channels" /\ channels' = After(channels, fire[p][1])
                 /\ pubsub' = pubsub
                 /\ fire' = [fire EXCEPT ![p] =
                               [fire[p] EXCEPT ![1] = <<fire[p][1][1], fire[p][1][2], "pubsub">>]]
              \/ /\ fire[p][1][3] = "pubsub" /\ channels' = channels
                 /\ pubsub' = IF started THEN After(pubsub, fire[p][1]) ELSE pubsub
                 /\ fire' = [fire EXCEPT ![p] = Tail(fire[p])]
<1>0. fire \in [Procs -> Seq(Callbacks)] /\ fire[Reconciler] = <<>>
  BY DEF RedisInv
<1>1. fire[p] # <<>> /\ (p = Reconciler \/ todo[p] = {})
  BY ZenonT(60) DEF Fire, FireChannels, FirePubSub, Ready
<1>2. p \in Clients /\ todo[p] = {} /\ fire[p] \in Seq(Callbacks)
  BY <1>0, <1>1, ZenonT(60) DEF Procs
<1>3. Head(fire[p]) = fire[p][1] /\ fire[p][1] \in Callbacks
  BY <1>1, <1>2, QueueTail, ZenonT(60)
<1>4. UNCHANGED <<local, tracked, countVars, started, pc, todo>>
  BY ZenonT(60) DEF Fire, FireChannels, FirePubSub
<1>5. CASE FireChannels(p)
  <2>1. fire' = [fire EXCEPT ![p] =
                   [fire[p] EXCEPT ![1] = <<fire[p][1][1], fire[p][1][2], "pubsub">>]]
    BY <1>5, ZenonT(60) DEF FireChannels
  <2> QED BY <1>1, <1>2, <1>3, <1>4, <1>5, <2>1, ZenonT(60) DEF FireChannels
<1>6. CASE FirePubSub(p)
  BY <1>1, <1>2, <1>3, <1>4, <1>6, ZenonT(60) DEF FirePubSub
<1> QED BY <1>5, <1>6, ZenonT(60) DEF Fire

\* The reconciler changes nothing and owes no callback.
LEMMA ReconcileQuiet ==
    ASSUME RedisInv, NEW t \in Topics, Reconcile(t)
    PROVE  UNCHANGED <<local, tracked, countVars, pc, todo, fire, redisVars>>
<1>0. fire \in [Procs -> Seq(Callbacks)] /\ fire[Reconciler] = <<>>
  BY DEF RedisInv
<1>1. localCount[t] \in Nat /\ (redisSub[t] <=> localCount[t] > 0)
  BY DEF RedisInv, FlagInv, FlagsExact, FlagMatchesCount
<1>2. ~(localCount[t] > 0 /\ ~redisSub[t]) /\ ~(localCount[t] <= 0 /\ redisSub[t])
  BY <1>1
<1>3. fire' = [fire EXCEPT ![Reconciler] = <<>>]
  BY <1>2, ZenonT(60) DEF Reconcile
<1>4. fire' = fire
  BY <1>0, <1>3
<1>5. UNCHANGED <<local, tracked, countVars, pc, todo>>
  BY ReconcileIdle, ZenonT(60) DEF RedisInv
<1> QED BY <1>4, <1>5, ZenonT(60) DEF Reconcile

\* Every step keeps RedisInv.
LEMMA RedisStep == RedisInv /\ [Next]_vars => RedisInv'
<1> SUFFICES ASSUME RedisInv, [Next]_vars PROVE RedisInv'
  OBVIOUS
<1>0. /\ FlagInv' /\ local \in [Clients -> SUBSET Topics] /\ todo \in [Clients -> SUBSET Topics]
      /\ fire \in [Procs -> Seq(Callbacks)] /\ fire[Reconciler] = <<>>
      /\ channels \subseteq Topics /\ pubsub \subseteq Topics
      /\ started \in BOOLEAN /\ (started \/ pubsub = {})
  <2>1. FlagInv'
    BY FlagStep, ZenonT(60) DEF RedisInv
  <2> QED BY <2>1, ZenonT(60) DEF RedisInv, FlagInv
<1>1. ASSUME UNCHANGED <<channels, started, pubsub, fire>>, local' \in [Clients -> SUBSET Topics]
      PROVE  RedisInv'
  BY <1>0, <1>1, ZenonT(60) DEF RedisInv
<1>2. ASSUME NEW c \in Clients, SubscribeLocal(c) PROVE RedisInv'
  <2>1. PICK ts \in SUBSET Topics : local' = [local EXCEPT ![c] = local[c] \union ts]
    BY <1>2, ZenonT(60) DEF SubscribeLocal
  <2>2. local' \in [Clients -> SUBSET Topics]
    BY <1>0, <2>1
  <2> QED BY <1>1, <1>2, <2>2, ZenonT(60) DEF SubscribeLocal, redisVars
<1>3. ASSUME NEW c \in Clients, UnsubscribeLocal(c) \/ Cancel(c) PROVE RedisInv'
  <2>1. local' = [local EXCEPT ![c] = {}]
    BY <1>3, ZenonT(60) DEF UnsubscribeLocal, Cancel
  <2>2. local' \in [Clients -> SUBSET Topics]
    BY <1>0, <2>1
  <2> QED BY <1>1, <1>3, <2>2, ZenonT(60) DEF UnsubscribeLocal, Cancel, redisVars
<1>4. ASSUME NEW c \in Clients, SubscribeTrack(c) \/ SubscribeReturn(c) \/ UnsubscribeTrack(c)
      PROVE  RedisInv'
  BY <1>0, <1>1, <1>4, ZenonT(60) DEF SubscribeTrack, SubscribeReturn, UnsubscribeTrack, redisVars
<1>5. ASSUME NEW c \in Clients, SubscribeCount(c) \/ UnsubscribeCount(c) PROVE RedisInv'
  <2>1. PICK t \in todo[c], op \in {"join", "leave"} :
          Owes(c, t, op) /\ UNCHANGED <<local, redisVars>>
    BY <1>5, CountOwes, ZenonT(60) DEF RedisInv
  <2>2. t \in Topics
    BY <1>0
  <2>3. fire' \in [Procs -> Seq(Callbacks)] /\ fire'[Reconciler] = <<>>
    BY <2>1, <2>2, OwesTypes, ZenonT(60)
  <2> QED BY <1>0, <2>1, <2>3, ZenonT(60) DEF RedisInv, redisVars
<1>6. ASSUME NEW t \in Topics, Reconcile(t) PROVE RedisInv'
  BY <1>0, <1>1, <1>6, ReconcileQuiet, ZenonT(60) DEF redisVars
<1>7. ASSUME NEW p \in Procs, Fire(p) PROVE RedisInv'
  <2>1. /\ p \in Clients /\ fire[p] \in Seq(Callbacks) /\ fire[p] # <<>>
        /\ Head(fire[p]) = fire[p][1] /\ fire[p][1] \in Callbacks
        /\ UNCHANGED <<local, started>>
    BY <1>7, FireFacts, ZenonT(60)
  <2>2. /\ fire[p][1][1] \in Topics
        /\ <<fire[p][1][1], fire[p][1][2], "pubsub">> \in Callbacks
    BY <2>1, CallbackParts, ZenonT(60)
  <2>3. After(channels, fire[p][1]) \subseteq Topics /\ After(pubsub, fire[p][1]) \subseteq Topics
    BY <1>0, <2>1, <2>2, ZenonT(60) DEF After
  <2>4. PICK q \in Seq(Callbacks) : fire' = [fire EXCEPT ![p] = q]
    <3>1. /\ Tail(fire[p]) \in Seq(Callbacks)
          /\ [fire[p] EXCEPT ![1] = <<fire[p][1][1], fire[p][1][2], "pubsub">>] \in Seq(Callbacks)
      BY <2>1, <2>2, QueueTail, QueueFirst, ZenonT(60)
    <3> QED BY <1>7, <3>1, FireFacts, ZenonT(60)
  <2>5. p # Reconciler
    BY <2>1, RouterAssumption
  <2>6. fire' \in [Procs -> Seq(Callbacks)] /\ fire'[Reconciler] = <<>>
    BY <1>0, <2>4, <2>5
  <2>7. channels' \subseteq Topics /\ pubsub' \subseteq Topics /\ (started \/ pubsub' = {})
    <3>1. \/ channels' = After(channels, fire[p][1]) /\ pubsub' = pubsub
          \/ channels' = channels /\ pubsub' = IF started THEN After(pubsub, fire[p][1]) ELSE pubsub
      BY <1>7, FireFacts, ZenonT(60)
    <3> QED BY <1>0, <2>3, <3>1, ZenonT(60)
  <2> QED BY <1>0, <2>1, <2>6, <2>7, ZenonT(60) DEF RedisInv
<1>8. ASSUME Start PROVE RedisInv'
  BY <1>0, <1>8, ZenonT(60) DEF Start, RedisInv
<1>9. ASSUME UNCHANGED vars PROVE RedisInv'
  BY <1>0, <1>1, <1>9, ZenonT(60) DEF vars
<1> QED BY <1>2, <1>3, <1>4, <1>5, <1>6, <1>7, <1>8, <1>9, ZenonT(60) DEF Next, ClientStep

\* RedisInv in the initial state.
LEMMA RedisInit == Init => RedisInv
<1> SUFFICES ASSUME Init PROVE RedisInv
  OBVIOUS
<1>1. fire = [p \in Procs |-> <<>>] /\ Reconciler \in Procs
  BY DEF Init, Procs
<1>2. <<>> \in Seq(Callbacks)
  OBVIOUS
<1>3. fire \in [Procs -> Seq(Callbacks)] /\ fire[Reconciler] = <<>>
  BY <1>1, <1>2, ZenonT(60)
<1>4. local \in [Clients -> SUBSET Topics]
  BY DEF Init
<1> QED BY <1>3, <1>4, FlagInit, ZenonT(60) DEF Init, RedisInv

\* For any clients and topics in every configuration, with the reconciler and Start at
\* any time: the router's types, flags and gauge hold together (updateCount).
THEOREM RouterBooks == Spec => []RouterConsistent
<1>1. RedisInv => RouterConsistent
  BY ZenonT(60) DEF RedisInv, FlagInv, FlagsExact, RouterConsistent, TypeOK
<1> QED BY RedisInit, RedisStep, <1>1, PTL DEF Spec

-----------------------------------------------------------------------------
\* Topic t has a callback in queue q that needs this lock next, or any callback.
Waits(q, t, lock) == \E i \in 1..Len(q) : q[i][1] = t /\ q[i][3] = lock
Queued(q, t) == \E i \in 1..Len(q) : q[i][1] = t
Joins(q) == \A i \in 1..Len(q) : q[i][2] = "join"

Due(t, lock) == \E p \in Procs : Waits(fire[p], t, lock)

\* When clients leave by their handle, nothing is ever given up: a marked topic is a
\* channel or is about to be one, and a channel is joined or about to be.
ServedInv ==
    /\ RedisInv /\ pc \in [Procs -> {"idle", "track", "count", "uncount"}]
    /\ \A c \in Clients : pc[c] # "uncount" /\ Joins(fire[c])
    /\ \A t \in Topics : redisSub[t] => t \in channels \/ Due(t, "channels")
    /\ \A t \in channels : started => t \in pubsub \/ Due(t, "pubsub")
    /\ \A c \in Clients : \A t \in local[c] :
          redisSub[t] \/ (pc[c] \in {"track", "count"} /\ t \in todo[c])

\* The three changes of a queue of joins.
LEMMA JoinsAppend ==
    ASSUME NEW q \in Seq(Callbacks), NEW b \in Callbacks
    PROVE  /\ Joins(q) /\ b[2] = "join" => Joins(Append(q, b))
           /\ Waits(Append(q, b), b[1], b[3])
           /\ \A t, k : Waits(q, t, k) => Waits(Append(q, b), t, k)
<1>1. /\ Append(q, b) \in Seq(Callbacks) /\ Len(Append(q, b)) = Len(q) + 1
      /\ Append(q, b)[Len(q) + 1] = b /\ Len(q) \in Nat
      /\ \A i \in 1..Len(q) : Append(q, b)[i] = q[i]
  BY QueueAppend
<1> DEFINE r == Append(q, b)
<1> HIDE DEF r
<1> QED BY <1>1 DEF Joins, Waits, r

LEMMA JoinsTail ==
    ASSUME NEW q \in Seq(Callbacks), q # <<>>
    PROVE  /\ Joins(q) => q[1][2] = "join" /\ Joins(Tail(q))
           /\ \A t, k : Waits(q, t, k) => Waits(Tail(q), t, k) \/ (q[1][1] = t /\ q[1][3] = k)
<1>1. /\ 1 \in 1..Len(q) /\ Len(q) \in Nat /\ Len(Tail(q)) = Len(q) - 1
      /\ \A i \in 1..Len(Tail(q)) : i + 1 \in 2..Len(q) /\ Tail(q)[i] = q[i + 1]
  BY QueueTail
<1> DEFINE r == Tail(q)
<1> HIDE DEF r
<1>2. Joins(q) => q[1][2] = "join" /\ Joins(r)
  BY <1>1 DEF Joins, r
<1>3. ASSUME NEW t, NEW k, Waits(q, t, k) PROVE Waits(r, t, k) \/ (q[1][1] = t /\ q[1][3] = k)
  <2>1. PICK i \in 1..Len(q) : q[i][1] = t /\ q[i][3] = k
    BY <1>3 DEF Waits
  <2>2. CASE i = 1
    BY <2>1, <2>2
  <2>3. CASE i # 1
    <3>1. i - 1 \in 1..Len(r) /\ (i - 1) + 1 = i
      BY <1>1, <2>3 DEF r
    <3>2. r[i - 1] = q[i]
      BY <1>1, <3>1 DEF r
    <3> QED BY <2>1, <3>1, <3>2 DEF Waits
  <2> QED BY <2>2, <2>3
<1> QED BY <1>2, <1>3, ZenonT(60) DEF r

LEMMA JoinsFirst ==
    ASSUME NEW q \in Seq(Callbacks), q # <<>>, NEW b \in Callbacks
    PROVE  LET r == [q EXCEPT ![1] = b]
           IN  /\ Joins(q) /\ b[2] = "join" => Joins(r)
               /\ Waits(r, b[1], b[3])
               /\ \A t, k : Waits(q, t, k) => Waits(r, t, k) \/ (q[1][1] = t /\ q[1][3] = k)
<1> DEFINE r == [q EXCEPT ![1] = b]
<1>1. /\ Len(r) = Len(q) /\ r[1] = b /\ 1 \in 1..Len(q)
      /\ \A i \in 2..Len(q) : r[i] = q[i]
  BY QueueFirst, QueueTail
<1>2. \A i \in 1..Len(q) : i = 1 \/ i \in 2..Len(q)
  BY QueueTail
<1> HIDE DEF r
<1>3. Joins(q) /\ b[2] = "join" => Joins(r)
  BY <1>1, <1>2, ZenonT(60) DEF Joins
<1>4. Waits(r, b[1], b[3])
  BY <1>1, ZenonT(60) DEF Waits
<1>5. \A t, k : Waits(q, t, k) => Waits(r, t, k) \/ (q[1][1] = t /\ q[1][3] = k)
  BY <1>1, <1>2, ZenonT(60) DEF Waits
<1> QED BY <1>3, <1>4, <1>5, ZenonT(60) DEF r

\* A step of a callback when only joins are due.
LEMMA ServedFire ==
    ASSUME ServedInv, NEW p \in Procs, Fire(p), RedisInv'
    PROVE  ServedInv'
<1>q. PICK q, x : q = fire[p] /\ x = q[1][1]
  BY ZenonT(60)
<1> DEFINE cb == <<x, "join", "pubsub">>
<1>0. /\ RedisInv /\ pc \in [Procs -> {"idle", "track", "count", "uncount"}]
      /\ \A c \in Clients : pc[c] # "uncount" /\ Joins(fire[c])
      /\ \A t \in Topics : redisSub[t] => t \in channels \/ Due(t, "channels")
      /\ \A t \in channels : started => t \in pubsub \/ Due(t, "pubsub")
      /\ \A c \in Clients : \A t \in local[c] :
            redisSub[t] \/ (pc[c] \in {"track", "count"} /\ t \in todo[c])
  BY ZenonT(60) DEF ServedInv
<1>1. /\ p \in Clients /\ q \in Seq(Callbacks) /\ q # <<>> /\ q[1] \in Callbacks
      /\ UNCHANGED <<local, tracked, countVars, started, pc, todo>>
  BY <1>q, <1>0, FireFacts, ZenonT(60)
<1>2. q[1][2] = "join" /\ Joins(Tail(q)) /\ cb \in Callbacks /\ Joins([q EXCEPT ![1] = cb])
  <2>1. Joins(q) /\ q[1][2] = "join" /\ Joins(Tail(q))
    BY <1>q, <1>0, <1>1, JoinsTail, ZenonT(60)
  <2>2. cb \in Callbacks
    BY <1>q, <1>1, <2>1, CallbackParts, ZenonT(60)
  <2>3. cb[2] = "join"
    OBVIOUS
  <2> HIDE DEF cb
  <2> QED BY <1>1, <2>1, <2>2, <2>3, JoinsFirst, ZenonT(60)
<1>3. \/ /\ q[1][3] = "channels" /\ channels' = channels \union {x} /\ pubsub' = pubsub
         /\ fire' = [fire EXCEPT ![p] = [q EXCEPT ![1] = cb]]
      \/ /\ q[1][3] = "pubsub" /\ channels' = channels
         /\ pubsub' = IF started THEN pubsub \union {x} ELSE pubsub
         /\ fire' = [fire EXCEPT ![p] = Tail(q)]
  <2>1. \/ /\ q[1][3] = "channels" /\ channels' = After(channels, q[1]) /\ pubsub' = pubsub
           /\ fire' = [fire EXCEPT ![p] = [q EXCEPT ![1] = <<q[1][1], q[1][2], "pubsub">>]]
        \/ /\ q[1][3] = "pubsub" /\ channels' = channels
           /\ pubsub' = IF started THEN After(pubsub, q[1]) ELSE pubsub
           /\ fire' = [fire EXCEPT ![p] = Tail(q)]
    BY <1>q, <1>0, FireFacts, ZenonT(60)
  <2>2. \A S : After(S, q[1]) = S \union {x}
    BY <1>q, <1>2, ZenonT(60) DEF After
  <2> QED BY <1>q, <1>2, <2>1, <2>2, ZenonT(60)
<1>4. /\ \A t, k : Waits(q, t, k) => Waits(Tail(q), t, k) \/ (q[1][1] = t /\ q[1][3] = k)
      /\ \A t, k : Waits(q, t, k) => Waits([q EXCEPT ![1] = cb], t, k) \/ (q[1][1] = t /\ q[1][3] = k)
      /\ Waits([q EXCEPT ![1] = cb], cb[1], cb[3])
  <2> HIDE DEF cb
  <2> QED BY <1>1, <1>2, JoinsTail, JoinsFirst, ZenonT(60)
<1>5. fire \in [Procs -> Seq(Callbacks)]
  BY <1>0 DEF RedisInv
<1>6. cb[1] = x /\ cb[3] = "pubsub"
  OBVIOUS
<1> HIDE DEF cb
<1>7. ASSUME NEW t, NEW k, Due(t, k) PROVE Due(t, k)' \/ (x = t /\ q[1][3] = k)
  <2>1. PICK r : /\ fire' = [fire EXCEPT ![p] = r]
                 /\ Waits(fire[p], t, k) => Waits(r, t, k) \/ (q[1][1] = t /\ q[1][3] = k)
    BY <1>q, <1>3, <1>4, ZenonT(60)
  <2>2. PICK d \in Procs : Waits(fire[d], t, k)
    BY <1>7, ZenonT(60) DEF Due
  <2>3. fire'[p] = r /\ (d # p => fire'[d] = fire[d])
    BY <1>5, <2>1
  <2>4. Waits(fire'[d], t, k) \/ (q[1][1] = t /\ q[1][3] = k)
    BY <2>1, <2>2, <2>3, ZenonT(60)
  <2> QED BY <1>q, <2>4, ZenonT(60) DEF Due
<1>8. \A c \in Clients : Joins(fire'[c])
  <2>1. PICK r : fire' = [fire EXCEPT ![p] = r] /\ Joins(r)
    BY <1>2, <1>3, ZenonT(60)
  <2>2. ASSUME NEW c \in Clients PROVE fire'[c] = r \/ fire'[c] = fire[c]
    BY <1>5, <2>1 DEF Procs
  <2> QED BY <1>0, <2>1, <2>2, ZenonT(60)
<1>9. /\ \A t \in Topics : redisSub[t] => t \in channels' \/ Due(t, "channels")'
      /\ \A t \in channels' : started => t \in pubsub' \/ Due(t, "pubsub")'
  <2>1. CASE q[1][3] = "channels" /\ channels' = channels \union {x} /\ pubsub' = pubsub
             /\ fire' = [fire EXCEPT ![p] = [q EXCEPT ![1] = cb]]
    <3>1. Due(x, "pubsub")'
      <4>1. fire'[p] = [q EXCEPT ![1] = cb]
        BY <1>5, <2>1
      <4>2. Waits(fire'[p], x, "pubsub")
        BY <1>4, <1>6, <4>1, ZenonT(60)
      <4> QED BY <4>2, ZenonT(60) DEF Due
    <3>2. ASSUME NEW t \in Topics, redisSub[t] PROVE t \in channels' \/ Due(t, "channels")'
      BY <1>0, <1>7, <2>1, <3>2, ZenonT(60)
    <3>3. ASSUME NEW t \in channels', started PROVE t \in pubsub' \/ Due(t, "pubsub")'
      <4>1. "channels" # "pubsub"
        OBVIOUS
      <4> QED BY <1>0, <1>7, <2>1, <3>1, <3>3, <4>1, ZenonT(60)
    <3> QED BY <3>2, <3>3
  <2>2. CASE q[1][3] = "pubsub" /\ channels' = channels
             /\ pubsub' = IF started THEN pubsub \union {x} ELSE pubsub
    <3>1. "channels" # "pubsub"
      OBVIOUS
    <3>2. ASSUME NEW t \in Topics, redisSub[t] PROVE t \in channels' \/ Due(t, "channels")'
      BY <1>0, <1>7, <2>2, <3>1, <3>2, ZenonT(60)
    <3>3. ASSUME NEW t \in channels', started PROVE t \in pubsub' \/ Due(t, "pubsub")'
      BY <1>0, <1>7, <2>2, <3>3, ZenonT(60)
    <3> QED BY <3>2, <3>3
  <2> QED BY <1>3, <2>1, <2>2, ZenonT(60)
<1>10. UNCHANGED <<local, redisSub, started, pc, todo>>
  BY <1>1, ZenonT(60) DEF countVars
<1> QED BY <1>0, <1>8, <1>9, <1>10, ZenonT(60) DEF ServedInv

\* A step that counts when only joins are due.
LEMMA ServedCount ==
    ASSUME ServedInv, NEW c \in Clients, SubscribeCount(c) \/ UnsubscribeCount(c), RedisInv'
    PROVE  ServedInv'
<1>0. /\ RedisInv /\ pc \in [Procs -> {"idle", "track", "count", "uncount"}]
      /\ \A d \in Clients : pc[d] # "uncount" /\ Joins(fire[d])
      /\ \A t \in Topics : redisSub[t] => t \in channels \/ Due(t, "channels")
      /\ \A t \in channels : started => t \in pubsub \/ Due(t, "pubsub")
      /\ \A d \in Clients : \A t \in local[d] :
            redisSub[t] \/ (pc[d] \in {"track", "count"} /\ t \in todo[d])
  BY ZenonT(60) DEF ServedInv
<1>1. /\ FlagInv /\ fire \in [Procs -> Seq(Callbacks)] /\ redisSub \in [Topics -> BOOLEAN]
      /\ todo \in [Clients -> SUBSET Topics] /\ c \in Procs /\ local \in [Clients -> SUBSET Topics]
  BY <1>0, ZenonT(60) DEF RedisInv, FlagInv, Procs
<1>2. PICK t \in todo[c], op \in {"join", "leave"} :
        /\ pc[c] = (IF op = "join" THEN "count" ELSE "uncount")
        /\ op = "join" => redisSub'[t]
        /\ todo' = [todo EXCEPT ![c] = todo[c] \ {t}]
        /\ Owes(c, t, op) /\ UNCHANGED <<local, tracked, redisVars, pc>>
  BY <1>1, CountOwes, ZenonT(60)
<1>3. op = "join" /\ t \in Topics /\ redisSub'[t]
  BY <1>0, <1>1, <1>2, ZenonT(60)
<1>4. \A x \in Topics : redisSub[x] => redisSub'[x]
  <2>1. redisSub' = redisSub \/ redisSub' = [redisSub EXCEPT ![t] = (op = "join")]
    BY <1>2, ZenonT(60) DEF Owes
  <2> QED BY <1>1, <1>3, <2>1
<1>5. <<t, "join", "channels">> \in Callbacks
  BY <1>3 DEF Callbacks
<1>6. PICK b \in Callbacks : b = <<t, "join", "channels">>
  BY <1>5, ZenonT(60)
<1>7. b[1] = t /\ b[2] = "join" /\ b[3] = "channels"
  BY <1>6
<1>8. \/ redisSub' = redisSub /\ fire' = fire
      \/ /\ redisSub' = [redisSub EXCEPT ![t] = TRUE]
         /\ fire' = [fire EXCEPT ![c] = Append(fire[c], b)]
  <2>1. ("join" = "join") = TRUE
    OBVIOUS
  <2> QED BY <1>2, <1>3, <1>6, <2>1, ZenonT(60) DEF Owes
<1>9. /\ \A d \in Clients : Joins(fire'[d])
      /\ \A x, k : Due(x, k) => Due(x, k)'
      /\ \A x \in Topics : redisSub'[x] => redisSub[x] \/ Due(x, "channels")'
  <2>1. CASE redisSub' = redisSub /\ fire' = fire
    BY <1>0, <2>1, ZenonT(60) DEF Due
  <2>2. CASE /\ redisSub' = [redisSub EXCEPT ![t] = TRUE]
             /\ fire' = [fire EXCEPT ![c] = Append(fire[c], b)]
    <3>1. fire[c] \in Seq(Callbacks)
      BY <1>1
    <3>2. /\ Joins(Append(fire[c], b)) /\ Waits(Append(fire[c], b), t, "channels")
          /\ \A x, k : Waits(fire[c], x, k) => Waits(Append(fire[c], b), x, k)
      BY <1>0, <1>7, <3>1, JoinsAppend, ZenonT(60)
    <3>3. \A d \in Procs : fire'[d] = IF d = c THEN Append(fire[c], b) ELSE fire[d]
      BY <1>1, <2>2
    <3>4. \A d \in Clients : Joins(fire'[d])
      BY <1>0, <3>2, <3>3, ZenonT(60) DEF Procs
    <3>5. ASSUME NEW x, NEW k, Due(x, k) PROVE Due(x, k)'
      <4>1. PICK d \in Procs : Waits(fire[d], x, k)
        BY <3>5, ZenonT(60) DEF Due
      <4>2. Waits(fire'[d], x, k)
        BY <3>2, <3>3, <4>1, ZenonT(60)
      <4> QED BY <4>2, ZenonT(60) DEF Due
    <3>6. Due(t, "channels")'
      <4>1. Waits(fire'[c], t, "channels")
        BY <1>1, <3>2, <3>3, ZenonT(60)
      <4> QED BY <1>1, <4>1, ZenonT(60) DEF Due
    <3>7. \A x \in Topics : x # t => redisSub'[x] = redisSub[x]
      BY <1>1, <2>2
    <3> QED BY <3>4, <3>5, <3>6, <3>7, ZenonT(60)
  <2> QED BY <1>8, <2>1, <2>2, ZenonT(60)
<1>10. UNCHANGED <<local, channels, started, pubsub, pc>>
  BY <1>2, ZenonT(60) DEF redisVars
<1>11. ASSUME NEW d \in Clients, NEW x \in local[d]
       PROVE  redisSub'[x] \/ (pc[d] \in {"track", "count"} /\ x \in todo'[d])
  <2>1. x \in Topics
    BY <1>1
  <2>2. CASE redisSub[x]
    BY <1>4, <2>1, <2>2
  <2>3. CASE pc[d] \in {"track", "count"} /\ x \in todo[d]
    <3>1. x \in todo'[d] \/ x = t
      BY <1>1, <1>2, <2>3
    <3> QED BY <1>3, <2>3, <3>1
  <2> QED BY <1>0, <2>2, <2>3
<1>12. /\ \A x \in Topics : redisSub'[x] => x \in channels \/ Due(x, "channels")'
       /\ \A x \in channels : started => x \in pubsub \/ Due(x, "pubsub")'
  BY <1>0, <1>9, ZenonT(60)
<1> QED BY <1>0, <1>9, <1>10, <1>11, <1>12, ZenonT(60) DEF ServedInv

\* Clients that leave by their handle, for any clients and topics: whenever nothing is
\* under way, a topic that a local client has is served by Redis, however often clients
\* came and went before (handle.Cancel, Subscriber.Start).
THEOREM RouterServes == ASSUME ViaHandle PROVE Spec => []ServedAgain
<1>1. Init => ServedInv
  <2> SUFFICES ASSUME Init PROVE ServedInv
    OBVIOUS
  <2>1. \A c \in Clients : c \in Procs
    BY DEF Procs
  <2>2. \A c \in Clients : pc[c] = "idle" /\ fire[c] = <<>> /\ local[c] = {}
    BY <2>1, ZenonT(60) DEF Init
  <2>3. Joins(<<>>)
    BY DEF Joins
  <2>4. \A t \in Topics : ~redisSub[t]
    BY DEF Init
  <2>5. pc \in [Procs -> {"idle", "track", "count", "uncount"}] /\ channels = {}
    BY DEF Init
  <2>6. "idle" # "uncount"
    OBVIOUS
  <2> QED BY <2>2, <2>3, <2>4, <2>5, <2>6, RedisInit, ZenonT(60) DEF ServedInv
<1>2. ServedInv /\ [Next]_vars => ServedInv'
  <2> SUFFICES ASSUME ServedInv, [Next]_vars PROVE ServedInv'
    OBVIOUS
  <2>0. /\ RedisInv /\ RedisInv' /\ pc \in [Procs -> {"idle", "track", "count", "uncount"}]
        /\ \A c \in Clients : pc[c] # "uncount" /\ Joins(fire[c])
        /\ \A t \in Topics : redisSub[t] => t \in channels \/ Due(t, "channels")
        /\ \A t \in channels : started => t \in pubsub \/ Due(t, "pubsub")
        /\ \A c \in Clients : \A t \in local[c] :
              redisSub[t] \/ (pc[c] \in {"track", "count"} /\ t \in todo[c])
        /\ local \in [Clients -> SUBSET Topics] /\ todo \in [Clients -> SUBSET Topics]
        /\ \A c \in Clients : c \in Procs
    <3>1. RedisInv'
      BY RedisStep, ZenonT(60) DEF ServedInv
    <3> QED BY <3>1, ZenonT(60) DEF ServedInv, RedisInv, FlagInv, Procs
  <2>1. ASSUME UNCHANGED <<redisSub, channels, started, pubsub, fire>>,
               pc' \in [Procs -> {"idle", "track", "count", "uncount"}],
               \A c \in Clients : pc'[c] # "uncount",
               \A c \in Clients : \A t \in local'[c] :
                  redisSub[t] \/ (pc'[c] \in {"track", "count"} /\ t \in todo'[c])
        PROVE  ServedInv'
    <3>1. \A t, k : Due(t, k)' <=> Due(t, k)
      BY <2>1, ZenonT(60) DEF Due
    <3> QED BY <2>0, <2>1, <3>1, ZenonT(60) DEF ServedInv
  <2>2. ASSUME NEW c \in Clients, SubscribeLocal(c) PROVE ServedInv'
    <3>1. PICK ts \in SUBSET Topics : /\ local' = [local EXCEPT ![c] = local[c] \union ts]
                                      /\ todo' = [todo EXCEPT ![c] = ts]
      BY <2>2, ZenonT(60) DEF SubscribeLocal
    <3>2. /\ pc[c] = "idle" /\ pc' = [pc EXCEPT ![c] = "track"]
          /\ UNCHANGED <<redisSub, channels, started, pubsub, fire>>
      BY <2>2, ZenonT(60) DEF SubscribeLocal, countVars, redisVars
    <3>3. \A d \in Clients : /\ d # c => pc'[d] = pc[d] /\ todo'[d] = todo[d] /\ local'[d] = local[d]
                             /\ d = c => pc'[d] = "track" /\ todo'[d] = ts /\ local'[d] = local[c] \union ts
      BY <2>0, <3>1, <3>2, ZenonT(60)
    <3>4. pc' \in [Procs -> {"idle", "track", "count", "uncount"}]
      BY <2>0, <3>2
    <3>5. \A t \in local[c] : redisSub[t]
      BY <2>0, <3>2
    <3>6. ASSUME NEW d \in Clients, NEW t \in local'[d]
          PROVE  redisSub[t] \/ (pc'[d] \in {"track", "count"} /\ t \in todo'[d])
      BY <2>0, <3>3, <3>5, ZenonT(60)
    <3>7. \A d \in Clients : pc'[d] # "uncount"
      BY <2>0, <3>3
    <3> QED BY <2>1, <3>2, <3>4, <3>6, <3>7, ZenonT(60)
  <2>3. ASSUME NEW c \in Clients, SubscribeTrack(c) PROVE ServedInv'
    <3>1. /\ pc[c] = "track" /\ pc' = [pc EXCEPT ![c] = "count"] /\ UNCHANGED <<local, todo>>
          /\ UNCHANGED <<redisSub, channels, started, pubsub, fire>>
      BY <2>3, ZenonT(60) DEF SubscribeTrack, countVars, redisVars
    <3>2. pc' \in [Procs -> {"idle", "track", "count", "uncount"}]
      BY <2>0, <3>1
    <3>3. \A d \in Clients : pc'[d] # "uncount" /\ (d # c => pc'[d] = pc[d]) /\ pc'[c] = "count"
      BY <2>0, <3>1
    <3>4. ASSUME NEW d \in Clients, NEW t \in local'[d]
          PROVE  redisSub[t] \/ (pc'[d] \in {"track", "count"} /\ t \in todo'[d])
      BY <2>0, <3>1, <3>3, ZenonT(60)
    <3> QED BY <2>1, <3>1, <3>2, <3>3, <3>4, ZenonT(60)
  <2>4. ASSUME NEW c \in Clients, SubscribeReturn(c) PROVE ServedInv'
    <3>1. /\ todo[c] = {} /\ pc' = [pc EXCEPT ![c] = "idle"] /\ UNCHANGED <<local, todo>>
          /\ UNCHANGED <<redisSub, channels, started, pubsub, fire>>
      BY <2>4, ZenonT(60) DEF SubscribeReturn, countVars, redisVars
    <3>2. pc' \in [Procs -> {"idle", "track", "count", "uncount"}]
      BY <2>0, <3>1
    <3>3. \A d \in Clients : pc'[d] # "uncount" /\ (d # c => pc'[d] = pc[d])
      BY <2>0, <3>1
    <3>4. ASSUME NEW d \in Clients, NEW t \in local'[d]
          PROVE  redisSub[t] \/ (pc'[d] \in {"track", "count"} /\ t \in todo'[d])
      BY <2>0, <3>1, <3>3, ZenonT(60)
    <3> QED BY <2>1, <3>1, <3>2, <3>3, <3>4, ZenonT(60)
  <2>5. ASSUME NEW c \in Clients, Cancel(c) PROVE ServedInv'
    <3>1. /\ local' = [local EXCEPT ![c] = {}] /\ UNCHANGED <<pc, todo>>
          /\ UNCHANGED <<redisSub, channels, started, pubsub, fire>>
      BY <2>5, ZenonT(60) DEF Cancel, countVars, redisVars
    <3>2. \A d \in Clients : local'[d] \subseteq local[d]
      BY <2>0, <3>1
    <3> QED BY <2>0, <2>1, <3>1, <3>2, ZenonT(60)
  <2>6. ASSUME NEW c \in Clients, UnsubscribeTrack(c) \/ UnsubscribeLocal(c) PROVE FALSE
    BY <2>0, <2>6, ZenonT(60) DEF UnsubscribeTrack, UnsubscribeLocal
  <2>7. ASSUME NEW t \in Topics, Reconcile(t) PROVE ServedInv'
    <3>1. UNCHANGED <<local, pc, todo, redisSub, channels, started, pubsub, fire>>
      BY <2>0, <2>7, ReconcileQuiet, ZenonT(60) DEF countVars, redisVars
    <3> QED BY <2>0, <2>1, <3>1, ZenonT(60)
  <2>8. ASSUME Start PROVE ServedInv'
    <3>1. /\ started' = TRUE /\ pubsub' = channels
          /\ UNCHANGED <<local, pc, todo, redisSub, channels, fire>>
      BY <2>8, ZenonT(60) DEF Start, countVars
    <3>2. \A t, k : Due(t, k)' <=> Due(t, k)
      BY <3>1, ZenonT(60) DEF Due
    <3> QED BY <2>0, <3>1, <3>2, ZenonT(60) DEF ServedInv
  <2>9. ASSUME UNCHANGED vars PROVE ServedInv'
    <3>1. UNCHANGED <<local, pc, todo, redisSub, channels, started, pubsub, fire>>
      BY <2>9, ZenonT(60) DEF vars
    <3> QED BY <2>0, <2>1, <3>1, ZenonT(60)
  <2> QED BY <2>0, <2>2, <2>3, <2>4, <2>5, <2>6, <2>7, <2>8, <2>9, ServedFire, ServedCount,
             ZenonT(60) DEF Next, ClientStep
<1>3. ServedInv => ServedAgain
  <2> SUFFICES ASSUME ServedInv, Quiet, started, NEW t \in Topics, Members(t) # {}
               PROVE  t \in pubsub
    BY DEF ServedAgain
  <2>1. PICK c \in Clients : t \in local[c]
    BY DEF Members
  <2>2. pc[c] = "idle" /\ \A p \in Procs : fire[p] = <<>>
    BY ZenonT(60) DEF Quiet, Procs
  <2>3. ~Due(t, "channels") /\ ~Due(t, "pubsub")
    <3>1. ~Waits(<<>>, t, "channels") /\ ~Waits(<<>>, t, "pubsub")
      BY DEF Waits
    <3> QED BY <2>2, <3>1, ZenonT(60) DEF Due
  <2>4. redisSub[t]
    BY <2>1, <2>2 DEF ServedInv
  <2> QED BY <2>3, <2>4, ZenonT(60) DEF ServedInv
<1> QED BY <1>1, <1>2, <1>3, PTL DEF Spec

-----------------------------------------------------------------------------
\* With one caller, queue q of callbacks still to make, topics T still to count,
\* marks on, channels C and, if the handle exists, joined channels P: there is at most one
\* callback for a topic, it goes where the mark says, and a topic without one has
\* arrived there.
Follow(q, T, on, C, P, exists) ==
    /\ \A i, j \in 1..Len(q) : q[i][1] = q[j][1] => i = j
    /\ \A i \in 1..Len(q) : q[i][1] \notin T /\ ((q[i][2] = "join") <=> on[q[i][1]])
    /\ \A i \in 2..Len(q) : q[i][3] = "channels"
    /\ \A t \in Topics : ~Queued(q, t) =>
          (t \in C <=> on[t]) /\ (exists => (t \in P <=> on[t]))
    /\ q # <<>> => (q[1][3] = "pubsub" => (q[1][1] \in C <=> on[q[1][1]]))

SoloInv(c) ==
    /\ RedisInv /\ pc \in [Procs -> {"idle", "track", "count", "uncount"}]
    /\ pc[c] \in {"idle", "track"} => fire[c] = <<>>
    /\ Follow(fire[c], todo[c], redisSub, channels, pubsub, started)

\* The ways the arguments of Follow change.  No topics are counted ahead of an empty queue.
LEMMA FollowEmpty ==
    ASSUME NEW T, NEW U, NEW on, NEW C, NEW P, NEW x, Follow(<<>>, T, on, C, P, x)
    PROVE  Follow(<<>>, U, on, C, P, x)
BY DEF Follow, Queued

\* A topic is counted and owes nothing.
LEMMA FollowCount ==
    ASSUME NEW q, NEW T, NEW U \in SUBSET T, NEW on, NEW C, NEW P, NEW x,
           Follow(q, T, on, C, P, x)
    PROVE  Follow(q, U, on, C, P, x)
BY ZenonT(60) DEF Follow

\* The handle is made from the channels.
LEMMA FollowStart ==
    ASSUME NEW q, NEW T, NEW on, NEW C, NEW P, NEW x, Follow(q, T, on, C, P, x)
    PROVE  Follow(q, T, on, C, C, TRUE)
BY ZenonT(60) DEF Follow

\* A topic is counted and owes a callback.
LEMMA FollowAppend ==
    ASSUME NEW q \in Seq(Callbacks), NEW T \in SUBSET Topics, NEW on \in [Topics -> BOOLEAN],
           NEW C, NEW P, NEW x, Follow(q, T, on, C, P, x),
           NEW t \in T, NEW op \in {"join", "leave"}, NEW v \in BOOLEAN, v <=> op = "join"
    PROVE  Follow(Append(q, <<t, op, "channels">>), T \ {t}, [on EXCEPT ![t] = v], C, P, x)
<1>0. PICK b, m : b = <<t, op, "channels">> /\ m = [on EXCEPT ![t] = v]
  BY ZenonT(60)
<1>1. b \in Callbacks /\ b[1] = t /\ b[2] = op /\ b[3] = "channels"
  BY <1>0 DEF Callbacks
<1>2. PICK r : r = Append(q, b)
  BY ZenonT(60)
<1>3. /\ Len(r) = Len(q) + 1 /\ r[Len(q) + 1] = b /\ Len(q) \in Nat
      /\ \A i \in 1..Len(q) : r[i] = q[i]
  BY <1>1, <1>2, QueueAppend
<1>4. \A i \in 1..Len(r) : i \in 1..Len(q) \/ i = Len(q) + 1
  BY <1>3
<1>5. /\ \A i, j \in 1..Len(q) : q[i][1] = q[j][1] => i = j
      /\ \A i \in 1..Len(q) : q[i][1] \notin T /\ ((q[i][2] = "join") <=> on[q[i][1]])
      /\ \A i \in 2..Len(q) : q[i][3] = "channels"
      /\ \A y \in Topics : ~Queued(q, y) =>
            (y \in C <=> on[y]) /\ (x => (y \in P <=> on[y]))
      /\ q # <<>> => (q[1][3] = "pubsub" => (q[1][1] \in C <=> on[q[1][1]]))
  BY ZenonT(60) DEF Follow
<1>6. \A i \in 1..Len(q) : q[i][1] # t /\ q[i][1] \in Topics
  <2> SUFFICES ASSUME NEW i \in 1..Len(q) PROVE q[i][1] # t /\ q[i][1] \in Topics
    OBVIOUS
  <2>1. q[i] \in Callbacks
    OBVIOUS
  <2> QED BY <1>5, <2>1, CallbackParts, ZenonT(60)
<1>7. m[t] = v /\ \A y \in Topics : y # t => m[y] = on[y]
  BY <1>0
<1>8. \A i, j \in 1..Len(r) : r[i][1] = r[j][1] => i = j
  <2> SUFFICES ASSUME NEW i \in 1..Len(r), NEW j \in 1..Len(r), r[i][1] = r[j][1]
               PROVE  i = j
    OBVIOUS
  <2>1. CASE i \in 1..Len(q) /\ j \in 1..Len(q)
    <3>1. r[i] = q[i] /\ r[j] = q[j]
      BY <1>3, <2>1, ZenonT(60)
    <3> QED BY <1>5, <2>1, <3>1, ZenonT(60)
  <2>2. CASE i \in 1..Len(q) /\ j = Len(q) + 1
    <3>1. r[i][1] # t /\ r[j][1] = t
      BY <1>1, <1>3, <1>6, <2>2, ZenonT(60)
    <3> QED BY <3>1
  <2>3. CASE i = Len(q) + 1 /\ j \in 1..Len(q)
    <3>1. r[i][1] = t /\ r[j][1] # t
      BY <1>1, <1>3, <1>6, <2>3, ZenonT(60)
    <3> QED BY <3>1
  <2>4. i = Len(q) + 1 /\ j = Len(q) + 1 => i = j
    OBVIOUS
  <2> QED BY <1>4, <2>1, <2>2, <2>3, <2>4, ZenonT(60)
<1>9. \A i \in 1..Len(r) : r[i][1] \notin T \ {t} /\ ((r[i][2] = "join") <=> m[r[i][1]])
  <2> SUFFICES ASSUME NEW i \in 1..Len(r)
               PROVE  r[i][1] \notin T \ {t} /\ ((r[i][2] = "join") <=> m[r[i][1]])
    OBVIOUS
  <2>1. CASE i \in 1..Len(q)
    <3>1. r[i] = q[i]
      BY <1>3, <2>1, ZenonT(60)
    <3>2. q[i][1] \notin T /\ ((q[i][2] = "join") <=> on[q[i][1]]) /\ m[q[i][1]] = on[q[i][1]]
      BY <1>5, <1>6, <1>7, <2>1, ZenonT(60)
    <3> QED BY <3>1, <3>2, ZenonT(60)
  <2>2. CASE i = Len(q) + 1
    <3>1. r[i] = b
      BY <1>3, <2>2, ZenonT(60)
    <3> QED BY <1>1, <1>7, <3>1, ZenonT(60)
  <2> QED BY <1>4, <2>1, <2>2, ZenonT(60)
<1>10. \A i \in 2..Len(r) : r[i][3] = "channels"
  <2> SUFFICES ASSUME NEW i \in 2..Len(r) PROVE r[i][3] = "channels"
    OBVIOUS
  <2>1. (i \in 2..Len(q) /\ i \in 1..Len(q)) \/ i = Len(q) + 1
    BY <1>3
  <2>3. CASE i \in 2..Len(q) /\ i \in 1..Len(q)
    <3>1. r[i] = q[i] /\ q[i][3] = "channels"
      BY <1>3, <1>5, <2>3, ZenonT(60)
    <3> QED BY <3>1, ZenonT(60)
  <2>4. CASE i = Len(q) + 1
    BY <1>1, <1>3, <2>4, ZenonT(60)
  <2> QED BY <2>1, <2>3, <2>4
<1>11. ASSUME NEW y \in Topics, ~Queued(r, y)
       PROVE  (y \in C <=> m[y]) /\ (x => (y \in P <=> m[y]))
  <2>1. Len(q) + 1 \in 1..Len(r) /\ \A i \in 1..Len(q) : i \in 1..Len(r)
    BY <1>3
  <2>2. y # t /\ ~Queued(q, y)
    BY <1>1, <1>3, <1>11, <2>1, ZenonT(60) DEF Queued
  <2> QED BY <1>5, <1>7, <2>2, ZenonT(60)
<1>12. r[1][3] = "pubsub" => (r[1][1] \in C <=> m[r[1][1]])
  <2>1. CASE q = <<>>
    <3>1. r[1] = b
      BY <1>3, <2>1
    <3> QED BY <1>1, <3>1
  <2>2. CASE q # <<>>
    <3>1. 1 \in 1..Len(q)
      BY <2>2
    <3> QED BY <1>3, <1>5, <1>6, <1>7, <2>2, <3>1, ZenonT(60)
  <2> QED BY <2>1, <2>2
<1>13. Follow(r, T \ {t}, m, C, P, x)
  BY <1>8, <1>9, <1>10, <1>11, <1>12, ZenonT(60) DEF Follow
<1> QED BY <1>0, <1>2, <1>13, ZenonT(60)

\* The first callback has changed the set of channels.
LEMMA FollowFirst ==
    ASSUME NEW q \in Seq(Callbacks), q # <<>>, NEW T, NEW on, NEW C, NEW P, NEW x,
           Follow(q, T, on, C, P, x), q[1][3] = "channels"
    PROVE  Follow([q EXCEPT ![1] = <<q[1][1], q[1][2], "pubsub">>], T, on, After(C, q[1]), P, x)
<1>0. PICK b, r : b = <<q[1][1], q[1][2], "pubsub">> /\ r = [q EXCEPT ![1] = b]
  BY ZenonT(60)
<1>1. q[1] \in Callbacks /\ 1 \in 1..Len(q)
  BY QueueTail, ZenonT(60)
<1>2. /\ b \in Callbacks /\ b[1] = q[1][1] /\ b[2] = q[1][2] /\ b[3] = "pubsub"
      /\ q[1][2] \in {"join", "leave"}
  BY <1>0, <1>1, CallbackParts
<1>3. Len(r) = Len(q) /\ r[1] = b /\ \A i \in 2..Len(q) : r[i] = q[i]
  <2>1. Len([q EXCEPT ![1] = b]) = Len(q)
    BY <1>2, QueueFirst, ZenonT(60)
  <2>2. [q EXCEPT ![1] = b][1] = b
    BY <1>2, QueueFirst, ZenonT(60)
  <2>3. \A i \in 2..Len(q) : [q EXCEPT ![1] = b][i] = q[i]
    BY <1>2, QueueFirst, ZenonT(60)
  <2> QED BY <1>0, <2>1, <2>2, <2>3, ZenonT(60)
<1>4. \A i \in 1..Len(q) : i = 1 \/ i \in 2..Len(q)
  BY QueueTail
<1>5. \A i \in 1..Len(q) : r[i][1] = q[i][1] /\ r[i][2] = q[i][2]
  BY <1>2, <1>3, <1>4, ZenonT(60)
<1>6. /\ \A i, j \in 1..Len(q) : q[i][1] = q[j][1] => i = j
      /\ \A i \in 1..Len(q) : q[i][1] \notin T /\ ((q[i][2] = "join") <=> on[q[i][1]])
      /\ \A i \in 2..Len(q) : q[i][3] = "channels"
      /\ \A y \in Topics : ~Queued(q, y) =>
            (y \in C <=> on[y]) /\ (x => (y \in P <=> on[y]))
  BY ZenonT(60) DEF Follow
<1>7. PICK D : D = After(C, q[1])
  BY ZenonT(60)
<1>8. (q[1][1] \in D <=> on[q[1][1]]) /\ \A y : y # q[1][1] => (y \in D <=> y \in C)
  BY <1>1, <1>6, <1>7, ZenonT(60) DEF After
<1>9. \A i, j \in 1..Len(r) : r[i][1] = r[j][1] => i = j
  <2> SUFFICES ASSUME NEW i \in 1..Len(q), NEW j \in 1..Len(q), r[i][1] = r[j][1]
               PROVE  i = j
    BY <1>3
  <2>1. q[i][1] = q[j][1]
    BY <1>5, ZenonT(60)
  <2> QED BY <1>6, <2>1, ZenonT(60)
<1>10. \A i \in 1..Len(r) : r[i][1] \notin T /\ ((r[i][2] = "join") <=> on[r[i][1]])
  BY <1>3, <1>5, <1>6, ZenonT(60)
<1>11. \A i \in 2..Len(r) : r[i][3] = "channels"
  BY <1>3, <1>6, ZenonT(60)
<1>12. ASSUME NEW y \in Topics, ~Queued(r, y)
       PROVE  (y \in D <=> on[y]) /\ (x => (y \in P <=> on[y]))
  <2>1. ~Queued(q, y) /\ y # q[1][1]
    BY <1>1, <1>3, <1>5, <1>12, ZenonT(60) DEF Queued
  <2> QED BY <1>6, <1>8, <2>1, ZenonT(60)
<1>13. r[1][1] \in D <=> on[r[1][1]]
  BY <1>2, <1>3, <1>8, ZenonT(60)
<1>14. Follow(r, T, on, D, P, x)
  BY <1>9, <1>10, <1>11, <1>12, <1>13, ZenonT(60) DEF Follow
<1> QED BY <1>0, <1>7, <1>14, ZenonT(60)

\* The joined channels P after callback b, if the handle exists.
Told(P, b, exists) == IF exists THEN After(P, b) ELSE P

\* The first callback has told Redis.
LEMMA FollowTail ==
    ASSUME NEW q \in Seq(Callbacks), q # <<>>, NEW T, NEW on, NEW C, NEW P, NEW x \in BOOLEAN,
           Follow(q, T, on, C, P, x), q[1][3] = "pubsub"
    PROVE  Follow(Tail(q), T, on, C, Told(P, q[1], x), x)
<1>0. PICK r, D : r = Tail(q) /\ D = Told(P, q[1], x)
  BY ZenonT(60)
<1>1. /\ q[1] \in Callbacks /\ 1 \in 1..Len(q) /\ Len(q) \in Nat /\ Len(r) = Len(q) - 1
      /\ r \in Seq(Callbacks)
      /\ \A i \in 1..Len(r) : i + 1 \in 2..Len(q) /\ r[i] = q[i + 1]
  BY <1>0, QueueTail
<1>2. /\ \A i, j \in 1..Len(q) : q[i][1] = q[j][1] => i = j
      /\ \A i \in 1..Len(q) : q[i][1] \notin T /\ ((q[i][2] = "join") <=> on[q[i][1]])
      /\ \A i \in 2..Len(q) : q[i][3] = "channels"
      /\ \A y \in Topics : ~Queued(q, y) =>
            (y \in C <=> on[y]) /\ (x => (y \in P <=> on[y]))
      /\ q[1][1] \in C <=> on[q[1][1]]
  BY ZenonT(60) DEF Follow
<1>3. \A i \in 1..Len(r) : i + 1 \in 1..Len(q) /\ i + 1 # 1 /\ r[i] = q[i + 1]
  BY <1>1
<1>4. x => (q[1][1] \in D <=> on[q[1][1]]) /\ \A y : y # q[1][1] => (y \in D <=> y \in P)
  BY <1>0, <1>1, <1>2, ZenonT(60) DEF After, Told
<1>5. \A i, j \in 1..Len(r) : r[i][1] = r[j][1] => i = j
  <2> SUFFICES ASSUME NEW i \in 1..Len(r), NEW j \in 1..Len(r), r[i][1] = r[j][1]
               PROVE  i = j
    OBVIOUS
  <2>1. PICK k, l : k = i + 1 /\ l = j + 1
    BY ZenonT(60)
  <2>2. k \in 1..Len(q) /\ l \in 1..Len(q) /\ q[k][1] = q[l][1]
    BY <1>3, <2>1
  <2>3. k = l
    BY <1>2, <2>2, ZenonT(60)
  <2> QED BY <1>1, <2>1, <2>3
<1>6. \A i \in 1..Len(r) : r[i][1] \notin T /\ ((r[i][2] = "join") <=> on[r[i][1]])
  <2> SUFFICES ASSUME NEW i \in 1..Len(r)
               PROVE  r[i][1] \notin T /\ ((r[i][2] = "join") <=> on[r[i][1]])
    OBVIOUS
  <2>1. PICK k : k = i + 1
    BY ZenonT(60)
  <2>2. k \in 1..Len(q) /\ r[i] = q[k]
    BY <1>3, <2>1
  <2> QED BY <1>2, <2>2, ZenonT(60)
<1>7. \A i \in 1..Len(r) : r[i][3] = "channels"
  <2> SUFFICES ASSUME NEW i \in 1..Len(r) PROVE r[i][3] = "channels"
    OBVIOUS
  <2>1. PICK k : k = i + 1
    BY ZenonT(60)
  <2>2. k \in 2..Len(q) /\ r[i] = q[k]
    BY <1>1, <2>1
  <2> QED BY <1>2, <2>2, ZenonT(60)
<1>8. \A i \in 2..Len(r) : i \in 1..Len(r)
  BY <1>1
<1>9. ASSUME NEW y \in Topics, ~Queued(r, y)
      PROVE  (y \in C <=> on[y]) /\ (x => (y \in D <=> on[y]))
  <2>1. CASE y = q[1][1]
    BY <1>2, <1>4, <2>1, ZenonT(60)
  <2>2. CASE y # q[1][1]
    <3>1. ~Queued(q, y)
      <4> SUFFICES ASSUME NEW i \in 1..Len(q), q[i][1] = y PROVE FALSE
        BY ZenonT(60) DEF Queued
      <4>1. i # 1
        BY <2>2
      <4>2. i - 1 \in 1..Len(r) /\ (i - 1) + 1 = i
        BY <1>1, <4>1
      <4>3. r[i - 1] = q[i]
        BY <1>3, <4>2
      <4> QED BY <1>9, <4>2, <4>3, ZenonT(60) DEF Queued
    <3> QED BY <1>2, <1>4, <2>2, <3>1, ZenonT(60)
  <2> QED BY <2>1, <2>2
<1>10. r # <<>> => r[1][3] # "pubsub"
  <2>1. r # <<>> => 1 \in 1..Len(r)
    BY <1>1
  <2>2. "channels" # "pubsub"
    OBVIOUS
  <2> QED BY <1>7, <2>1, <2>2, ZenonT(60)
<1>11. Follow(r, T, on, C, D, x)
  BY <1>5, <1>6, <1>7, <1>8, <1>9, <1>10, ZenonT(60) DEF Follow
<1> QED BY <1>0, <1>11, ZenonT(60)

\* The one client counts a topic.
LEMMA SoloCount ==
    ASSUME NEW c \in Clients, SoloInv(c), RedisInv', SubscribeCount(c) \/ UnsubscribeCount(c)
    PROVE  SoloInv(c)'
<1>0. /\ RedisInv /\ pc \in [Procs -> {"idle", "track", "count", "uncount"}]
      /\ pc[c] \in {"idle", "track"} => fire[c] = <<>>
      /\ Follow(fire[c], todo[c], redisSub, channels, pubsub, started)
  BY ZenonT(60) DEF SoloInv
<1>1. /\ FlagInv /\ fire \in [Procs -> Seq(Callbacks)] /\ redisSub \in [Topics -> BOOLEAN]
      /\ todo \in [Clients -> SUBSET Topics] /\ c \in Procs
  BY <1>0, ZenonT(60) DEF RedisInv, FlagInv, Procs
<1>2. PICK t \in todo[c], op \in {"join", "leave"} :
        /\ pc[c] = (IF op = "join" THEN "count" ELSE "uncount")
        /\ op = "join" => redisSub'[t]
        /\ todo' = [todo EXCEPT ![c] = todo[c] \ {t}]
        /\ Owes(c, t, op) /\ UNCHANGED <<local, tracked, redisVars, pc>>
  BY <1>1, CountOwes, ZenonT(60)
<1>3. /\ UNCHANGED <<channels, pubsub, started, pc>> /\ todo'[c] = todo[c] \ {t}
      /\ fire[c] \in Seq(Callbacks) /\ todo[c] \in SUBSET Topics
  BY <1>1, <1>2, ZenonT(60) DEF redisVars
<1>4. ~(pc'[c] \in {"idle", "track"})
  BY <1>2, <1>3
<1>5. Follow(fire'[c], todo[c] \ {t}, redisSub', channels, pubsub, started)
  <2>1. CASE UNCHANGED <<redisSub, fire>>
    <3>1. todo[c] \ {t} \in SUBSET todo[c]
      OBVIOUS
    <3>2. Follow(fire[c], todo[c] \ {t}, redisSub, channels, pubsub, started)
      BY <1>0, <3>1, FollowCount, ZenonT(60)
    <3> QED BY <2>1, <3>2, ZenonT(60)
  <2>2. CASE /\ redisSub' = [redisSub EXCEPT ![t] = (op = "join")]
             /\ fire' = [fire EXCEPT ![c] = Append(fire[c], <<t, op, "channels">>)]
    <3>1. PICK v \in BOOLEAN : v = (op = "join")
      BY ZenonT(60)
    <3>2. v <=> op = "join"
      BY <3>1, ZenonT(60)
    <3>3. Follow(Append(fire[c], <<t, op, "channels">>), todo[c] \ {t},
                 [redisSub EXCEPT ![t] = v], channels, pubsub, started)
      BY <1>0, <1>1, <1>3, <3>2, FollowAppend, ZenonT(60)
    <3>4. fire'[c] = Append(fire[c], <<t, op, "channels">>)
      BY <1>1, <2>2, ZenonT(60)
    <3>5. redisSub' = [redisSub EXCEPT ![t] = v]
      BY <2>2, <3>1, ZenonT(60)
    <3> QED BY <3>3, <3>4, <3>5, ZenonT(60)
  <2> QED BY <1>2, <2>1, <2>2, ZenonT(60) DEF Owes
<1> QED BY <1>0, <1>3, <1>4, <1>5, ZenonT(60) DEF SoloInv

\* The one client makes a callback.
LEMMA SoloFire ==
    ASSUME NEW c \in Clients, SoloInv(c), RedisInv', Fire(c)
    PROVE  SoloInv(c)'
<1>0. /\ RedisInv /\ pc \in [Procs -> {"idle", "track", "count", "uncount"}]
      /\ pc[c] \in {"idle", "track"} => fire[c] = <<>>
      /\ Follow(fire[c], todo[c], redisSub, channels, pubsub, started)
      /\ c \in Procs /\ fire \in [Procs -> Seq(Callbacks)] /\ started \in BOOLEAN
  BY ZenonT(60) DEF SoloInv, RedisInv, Procs
<1>1. /\ fire[c] \in Seq(Callbacks) /\ fire[c] # <<>>
      /\ UNCHANGED <<redisSub, started, pc, todo>>
      /\ \/ /\ fire[c][1][3] = "channels" /\ channels' = After(channels, fire[c][1])
            /\ pubsub' = pubsub
            /\ fire' = [fire EXCEPT ![c] =
                          [fire[c] EXCEPT ![1] = <<fire[c][1][1], fire[c][1][2], "pubsub">>]]
         \/ /\ fire[c][1][3] = "pubsub" /\ channels' = channels
            /\ pubsub' = IF started THEN After(pubsub, fire[c][1]) ELSE pubsub
            /\ fire' = [fire EXCEPT ![c] = Tail(fire[c])]
  BY <1>0, FireFacts, ZenonT(60) DEF countVars
<1>2. Follow(fire'[c], todo[c], redisSub, channels', pubsub', started)
  <2>1. CASE /\ fire[c][1][3] = "channels" /\ channels' = After(channels, fire[c][1])
             /\ pubsub' = pubsub
             /\ fire' = [fire EXCEPT ![c] =
                           [fire[c] EXCEPT ![1] = <<fire[c][1][1], fire[c][1][2], "pubsub">>]]
    <3>1. Follow([fire[c] EXCEPT ![1] = <<fire[c][1][1], fire[c][1][2], "pubsub">>], todo[c],
                 redisSub, After(channels, fire[c][1]), pubsub, started)
      BY <1>0, <1>1, <2>1, FollowFirst, ZenonT(60)
    <3>2. fire'[c] = [fire[c] EXCEPT ![1] = <<fire[c][1][1], fire[c][1][2], "pubsub">>]
      BY <1>0, <2>1, ZenonT(60)
    <3> QED BY <2>1, <3>1, <3>2, ZenonT(60)
  <2>2. CASE /\ fire[c][1][3] = "pubsub" /\ channels' = channels
             /\ pubsub' = IF started THEN After(pubsub, fire[c][1]) ELSE pubsub
             /\ fire' = [fire EXCEPT ![c] = Tail(fire[c])]
    <3>1. Follow(Tail(fire[c]), todo[c], redisSub, channels,
                 Told(pubsub, fire[c][1], started), started)
      <4>1. /\ fire[c] \in Seq(Callbacks) /\ fire[c] # <<>> /\ started \in BOOLEAN
            /\ Follow(fire[c], todo[c], redisSub, channels, pubsub, started)
            /\ fire[c][1][3] = "pubsub"
        BY <1>0, <1>1, <2>2, ZenonT(60)
      <4> QED BY <4>1, FollowTail, ZenonT(60)
    <3>2. fire'[c] = Tail(fire[c])
      BY <1>0, <2>2, ZenonT(60)
    <3> QED BY <2>2, <3>1, <3>2, ZenonT(60) DEF Told
  <2> QED BY <1>1, <2>1, <2>2, ZenonT(60)
<1> QED BY <1>0, <1>1, <1>2, ZenonT(60) DEF SoloInv

\* One goroutine that calls Subscribe and Unsubscribe, any topics, and Start and the
\* reconciler at any time: between calls Redis serves exactly the topics that it has
\* (fireOnChange, Subscriber.Subscribe, Subscriber.Unsubscribe).
THEOREM SoloFollows ==
    ASSUME NEW c, Clients = {c}, ~ViaHandle, ~Resubscribe
    PROVE  Spec => []RedisFollows
<1>0. c \in Clients /\ c \in Procs /\ \A d \in Clients : d = c
  BY DEF Procs
<1>1. Init => SoloInv(c)
  <2> SUFFICES ASSUME Init PROVE SoloInv(c)
    OBVIOUS
  <2>1. fire[c] = <<>> /\ pc \in [Procs -> {"idle", "track", "count", "uncount"}]
    BY <1>0, ZenonT(60) DEF Init
  <2>2. \A t \in Topics : ~redisSub[t]
    BY DEF Init
  <2>3. channels = {} /\ pubsub = {}
    BY DEF Init
  <2>4. Follow(<<>>, todo[c], redisSub, channels, pubsub, started)
    BY <2>2, <2>3 DEF Follow
  <2> QED BY <2>1, <2>4, RedisInit, ZenonT(60) DEF SoloInv
<1>2. SoloInv(c) /\ [Next]_vars => SoloInv(c)'
  <2> SUFFICES ASSUME SoloInv(c), [Next]_vars PROVE SoloInv(c)'
    OBVIOUS
  <2>0. /\ RedisInv /\ RedisInv' /\ pc \in [Procs -> {"idle", "track", "count", "uncount"}]
        /\ pc[c] \in {"idle", "track"} => fire[c] = <<>>
        /\ Follow(fire[c], todo[c], redisSub, channels, pubsub, started)
    <3>1. RedisInv'
      BY RedisStep, ZenonT(60) DEF SoloInv
    <3> QED BY <3>1, ZenonT(60) DEF SoloInv
  <2>p. pc \in [Procs -> {"idle", "track", "count", "uncount"}]
    BY <2>0
  <2>1. ASSUME SubscribeLocal(c) \/ UnsubscribeTrack(c) PROVE SoloInv(c)'
    <3>1. /\ pc[c] = "idle" /\ (pc' = [pc EXCEPT ![c] = "track"] \/ pc' = [pc EXCEPT ![c] = "uncount"])
          /\ UNCHANGED <<redisSub, channels, started, pubsub, fire>>
      BY <2>1, ZenonT(60) DEF SubscribeLocal, UnsubscribeTrack, countVars, redisVars
    <3>2. fire[c] = <<>>
      BY <2>0, <3>1
    <3>3. Follow(<<>>, todo'[c], redisSub, channels, pubsub, started)
      <4>1. Follow(<<>>, todo[c], redisSub, channels, pubsub, started)
        BY <2>0, <3>2, ZenonT(60)
      <4> QED BY <4>1, FollowEmpty, ZenonT(60)
    <3>4. pc' \in [Procs -> {"idle", "track", "count", "uncount"}]
      <4>1. CASE pc' = [pc EXCEPT ![c] = "track"]
        BY <1>0, <2>p, <4>1, ZenonT(60)
      <4>2. CASE pc' = [pc EXCEPT ![c] = "uncount"]
        BY <1>0, <2>p, <4>2, ZenonT(60)
      <4> QED BY <3>1, <4>1, <4>2, ZenonT(60)
    <3> QED BY <2>0, <3>1, <3>2, <3>3, <3>4, ZenonT(60) DEF SoloInv
  <2>2. ASSUME SubscribeTrack(c) PROVE SoloInv(c)'
    <3>1. /\ pc' = [pc EXCEPT ![c] = "count"]
          /\ UNCHANGED <<redisSub, channels, started, pubsub, fire, todo>>
      BY <2>2, ZenonT(60) DEF SubscribeTrack, countVars, redisVars
    <3>2. /\ pc' \in [Procs -> {"idle", "track", "count", "uncount"}]
          /\ pc'[c] \notin {"idle", "track"}
      BY <1>0, <2>p, <3>1
    <3> QED BY <2>0, <3>1, <3>2, ZenonT(60) DEF SoloInv
  <2>3. ASSUME SubscribeReturn(c) \/ UnsubscribeLocal(c) PROVE SoloInv(c)'
    <3>1. /\ pc' = [pc EXCEPT ![c] = "idle"] /\ fire[c] = <<>>
          /\ UNCHANGED <<redisSub, channels, started, pubsub, fire, todo>>
      BY <2>3, ZenonT(60) DEF SubscribeReturn, UnsubscribeLocal, countVars, redisVars
    <3>2. pc' \in [Procs -> {"idle", "track", "count", "uncount"}]
      BY <1>0, <2>p, <3>1, ZenonT(60)
    <3> QED BY <2>0, <3>1, <3>2, ZenonT(60) DEF SoloInv
  <2>4. ASSUME NEW p \in Procs, Fire(p) PROVE SoloInv(c)'
    <3>1. p = c
      BY <1>0, <2>0, <2>4, FireFacts, ZenonT(60)
    <3> QED BY <1>0, <2>0, <2>4, <3>1, SoloFire, ZenonT(60)
  <2>5. ASSUME NEW t \in Topics, Reconcile(t) PROVE SoloInv(c)'
    <3>1. UNCHANGED <<pc, todo, redisSub, channels, started, pubsub, fire>>
      BY <2>0, <2>5, ReconcileQuiet, ZenonT(60) DEF countVars, redisVars
    <3> QED BY <2>0, <3>1, ZenonT(60) DEF SoloInv
  <2>6. ASSUME Start PROVE SoloInv(c)'
    <3>1. /\ started' = TRUE /\ pubsub' = channels
          /\ UNCHANGED <<pc, todo, redisSub, channels, fire>>
      BY <2>6, ZenonT(60) DEF Start, countVars
    <3>2. Follow(fire[c], todo[c], redisSub, channels, channels, TRUE)
      BY <2>0, FollowStart, ZenonT(60)
    <3> QED BY <2>0, <3>1, <3>2, ZenonT(60) DEF SoloInv
  <2>7. ASSUME UNCHANGED vars PROVE SoloInv(c)'
    <3>1. UNCHANGED <<pc, todo, redisSub, channels, started, pubsub, fire>>
      BY <2>7, ZenonT(60) DEF vars
    <3> QED BY <2>0, <3>1, ZenonT(60) DEF SoloInv
  <2>8. ASSUME SubscribeCount(c) \/ UnsubscribeCount(c) PROVE SoloInv(c)'
    BY <1>0, <2>0, <2>8, SoloCount, ZenonT(60)
  <2>9. ~Cancel(c)
    BY ZenonT(60) DEF Cancel
  <2> QED BY <1>0, <2>1, <2>2, <2>3, <2>4, <2>5, <2>6, <2>7, <2>8, <2>9,
             ZenonT(60) DEF Next, ClientStep
<1>3. SoloInv(c) /\ CountExact => RedisFollows
  <2> SUFFICES ASSUME SoloInv(c), CountExact, Quiet, started, NEW t \in Topics
               PROVE  t \in pubsub <=> Members(t) # {}
    BY DEF RedisFollows
  <2>1. fire[c] = <<>>
    BY <1>0, ZenonT(60) DEF Quiet
  <2>2. Follow(<<>>, todo[c], redisSub, channels, pubsub, started)
    BY <2>1, ZenonT(60) DEF SoloInv
  <2>3. t \in pubsub <=> redisSub[t]
    BY <2>2 DEF Follow, Queued
  <2>4. redisSub[t] <=> localCount[t] > 0
    BY DEF SoloInv, RedisInv, FlagInv, FlagsExact, FlagMatchesCount
  <2>5. localCount[t] = Cardinality(Members(t))
    BY DEF CountExact
  <2>6. IsFiniteSet(Members(t))
    <3>1. Members(t) \subseteq Clients
      BY DEF Members
    <3> QED BY <3>1, FS_Subset, RouterAssumption, ZenonT(60)
  <2>7. Cardinality(Members(t)) \in Nat /\ (Cardinality(Members(t)) = 0 <=> Members(t) = {})
    BY <2>6, FS_CardinalityType, FS_EmptySet, ZenonT(60)
  <2> QED BY <2>3, <2>4, <2>5, <2>7
<1>4. Spec => []CountExact
  BY RouterCounts
<1> QED BY <1>1, <1>2, <1>3, <1>4, PTL DEF Spec
=============================================================================
