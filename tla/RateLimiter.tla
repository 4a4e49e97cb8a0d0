---------------------------- MODULE RateLimiter ----------------------------
(***************************************************************************)
(* The per-client rate limiter (internal/ratelimit): token buckets for     *)
(* three kinds of request, the cap on active subscriptions kept by a       *)
(* compare-and-swap loop, the combined AllowAndSubscribe that gives its    *)
(* token back when the cap refuses, and the removal and eviction of the    *)
(* client's entry under concurrent calls.  One client: clients share       *)
(* nothing but a shard's lock.  A caller keeps the entry it looked up, also*)
(* after the entry left the map.                                           *)
(***************************************************************************)
EXTENDS Integers, Sequences, FiniteSets, FiniteSetTheorems, TLAPS

CONSTANTS
    Callers,
    Ops,                \* calls made: a kind, "subscription" or "both"
    Rate, Burst,        \* kind -> configured rate per time unit, burst; 0 if unset
    MaxSubs,            \* the values of MaxSubscriptions; 0 means no cap
    ClientTTL,
    Sizes,              \* the n of AllowSubscribeN
    MaxRequests, MaxTime, MaxEntries    \* bounds: calls, clock, entries made

None == 0
Kinds == {"connect", "subscribe", "unsubscribe"}

VARIABLES
    cfgMax,     \* Config.MaxSubscriptions
    entries,    \* every clientLimits ever made: [tokens, lastRefill, born, active, lastAccess]
    current,    \* the one in the map, or None
    call,       \* caller -> its call in progress
    clock,
    granted,    \* <<entry, kind>> counts: tokens consumed for requests that were allowed
    holds,      \* subscriptions granted and not yet given back
    requests

vars == <<cfgMax, entries, current, call, clock, granted, holds, requests>>

Idle == [op |-> "none", n |-> 0, at |-> "idle", entry |-> None, seen |-> 0]

Init ==
    /\ cfgMax \in MaxSubs
    /\ entries = <<>> /\ current = None /\ call = [c \in Callers |-> Idle] /\ clock = 0
    /\ granted = <<>> /\ holds = 0 /\ requests = 0

--------------------------------------------------------------------------
(* Bucket                                                                  *)

Default(k) == CASE k = "connect" -> [rate |-> 10, burst |-> 20]
                [] k = "subscribe" -> [rate |-> 50, burst |-> 100]
                [] k = "unsubscribe" -> [rate |-> 20, burst |-> 50]

\* The configured bucket of a kind, each value replaced if unset.
BucketOf(k) == [rate |-> IF Rate[k] <= 0 THEN Default(k).rate ELSE Rate[k],
                burst |-> IF Burst[k] <= 0 THEN Default(k).burst ELSE Burst[k]]

newClientLimits ==
    [tokens |-> [k \in Kinds |-> BucketOf(k).burst], lastRefill |-> [k \in Kinds |-> clock],
     born |-> clock, active |-> 0, lastAccess |-> clock]

\* What is left of n tokens in a bucket that holds no more than limit.
AtMost(n, limit) == IF n > limit THEN limit ELSE n

refill(e, k) ==
    LET elapsed == clock - e.lastRefill[k] IN
    [e EXCEPT !.tokens[k] = AtMost(@ + elapsed * BucketOf(k).rate, BucketOf(k).burst),
              !.lastRefill[k] = clock]

HasTokens(e, k, n) == refill(e, k).tokens[k] >= n

\* AllowN on bucket k, with the refill that comes first.
AllowN(e, k, n) ==
    LET r == refill(e, k) IN
    IF HasTokens(e, k, n) THEN [r EXCEPT !.tokens[k] = @ - n] ELSE r

RefundTo(e) ==
    [e EXCEPT !.tokens["subscribe"] = AtMost(@ + 1, BucketOf("subscribe").burst)]

--------------------------------------------------------------------------
(* Calls                                                                   *)

Bucket(op) == IF op = "both" THEN "subscribe" ELSE op

\* A call starts; AllowSubscription without a cap is granted at once.
Begin(c, op, n) ==
    /\ call[c].at = "idle" /\ requests < MaxRequests /\ requests' = requests + 1
    /\ n = 1 \/ op = "subscribe"
    /\ call' = IF op = "subscription" /\ cfgMax <= 0 THEN call
               ELSE [call EXCEPT ![c] = [Idle EXCEPT !.op = op, !.n = n, !.at = "lookup"]]
    /\ UNCHANGED <<cfgMax, entries, current, clock, granted, holds>>

\* getOrCreate: the second look under the write lock makes it one step.
getOrCreate(c) ==
    /\ call[c].at = "lookup"
    /\ current = None => Len(entries) < MaxEntries
    /\ IF current # None THEN UNCHANGED <<entries, current, granted>>
       ELSE /\ entries' = Append(entries, newClientLimits) /\ current' = Len(entries')
            /\ granted' = Append(granted, [k \in Kinds |-> 0])
    /\ call' = [call EXCEPT ![c].entry = current', ![c].at = "bucket"]
    /\ UNCHANGED <<cfgMax, clock, holds, requests>>

\* touch and AllowN on the bucket; AllowAndSubscribe goes on to the cap.
Allow(c) ==
    LET i == call[c].entry  k == Bucket(call[c].op)  n == call[c].n
        ok == HasTokens(entries[i], k, n)
        toCap == call[c].op = "both" /\ cfgMax > 0 /\ ok
    IN
    /\ call[c].at = "bucket" /\ call[c].op # "subscription"
    /\ entries' = [entries EXCEPT ![i] = [AllowN(@, k, n) EXCEPT !.lastAccess = clock]]
    /\ granted' = IF ok /\ ~toCap THEN [granted EXCEPT ![i][k] = @ + n] ELSE granted
    /\ call' = [call EXCEPT ![c] = IF toCap THEN [@ EXCEPT !.at = "load"] ELSE Idle]
    /\ UNCHANGED <<cfgMax, current, clock, holds, requests>>

\* AllowSubscription touches the entry and looks at the cap only.
AllowSubscription(c) ==
    /\ call[c].at = "bucket" /\ call[c].op = "subscription"
    /\ entries' = [entries EXCEPT ![call[c].entry].lastAccess = clock]
    /\ call' = [call EXCEPT ![c].at = "load"]
    /\ UNCHANGED <<cfgMax, current, clock, granted, holds, requests>>

\* activeSubs.Load; at the cap the call ends, AllowAndSubscribe by its Refund.
CapLoad(c) ==
    LET cur == entries[call[c].entry].active IN
    /\ call[c].at = "load"
    /\ call' = [call EXCEPT ![c] =
           IF cur < cfgMax THEN [@ EXCEPT !.at = "cas", !.seen = cur]
           ELSE IF call[c].op = "both" THEN [@ EXCEPT !.at = "refund"] ELSE Idle]
    /\ UNCHANGED <<cfgMax, entries, current, clock, granted, holds, requests>>

\* Mutation: the loaded value is stored back without the comparison.
CapCAS_Store(c) ==
    LET i == call[c].entry IN
    /\ call[c].at = "cas"
    /\ entries' = [entries EXCEPT ![i].active = call[c].seen + 1]
    /\ holds' = holds + 1
    /\ granted' = IF call[c].op = "both" THEN [granted EXCEPT ![i]["subscribe"] = @ + 1] ELSE granted
    /\ call' = [call EXCEPT ![c] = Idle]
    /\ UNCHANGED <<cfgMax, current, clock, requests>>

\* CompareAndSwap(cur, cur + 1), and around the loop if it fails.
CapCAS(c) ==
    LET i == call[c].entry IN
    /\ call[c].at = "cas"
    /\ IF entries[i].active = call[c].seen
       THEN /\ entries' = [entries EXCEPT ![i].active = @ + 1]
            /\ holds' = holds + 1
            /\ granted' = IF call[c].op = "both"
                          THEN [granted EXCEPT ![i]["subscribe"] = @ + 1] ELSE granted
            /\ call' = [call EXCEPT ![c] = Idle]
       ELSE /\ call' = [call EXCEPT ![c].at = "load"]
            /\ UNCHANGED <<entries, holds, granted>>
    /\ UNCHANGED <<cfgMax, current, clock, requests>>

Refund(c) ==
    /\ call[c].at = "refund"
    /\ entries' = [entries EXCEPT ![call[c].entry] = RefundTo(@)]
    /\ call' = [call EXCEPT ![c] = Idle]
    /\ UNCHANGED <<cfgMax, current, clock, granted, holds, requests>>

\* ReleaseSubscription by a caller that was granted one: look the entry up ...
Release(c) ==
    /\ call[c].at = "idle" /\ holds > 0 /\ holds' = holds - 1
    /\ call' = IF current = None THEN call
               ELSE [call EXCEPT ![c] = [Idle EXCEPT !.op = "release", !.at = "release", !.entry = current]]
    /\ UNCHANGED <<cfgMax, entries, current, clock, granted, requests>>

\* ... and lower its counter unless it is zero.
Lower(c) ==
    /\ call[c].at = "release"
    /\ entries' = [entries EXCEPT ![call[c].entry].active = IF @ <= 0 THEN @ ELSE @ - 1]
    /\ call' = [call EXCEPT ![c] = Idle]
    /\ UNCHANGED <<cfgMax, current, clock, granted, holds, requests>>

--------------------------------------------------------------------------
(* Removal and time                                                        *)

RemoveClient ==
    /\ current # None /\ current' = None
    /\ UNCHANGED <<cfgMax, entries, call, clock, granted, holds, requests>>

\* evictStale, until Stop ends the evictor.
evictStale ==
    /\ current # None /\ clock - entries[current].lastAccess > ClientTTL
    /\ current' = None
    /\ UNCHANGED <<cfgMax, entries, call, clock, granted, holds, requests>>

ClockStep ==
    /\ clock < MaxTime /\ clock' = clock + 1
    /\ UNCHANGED <<cfgMax, entries, current, call, granted, holds, requests>>

Next ==
    \/ \E c \in Callers :
         \/ \E op \in Ops, n \in Sizes : Begin(c, op, n)
         \/ getOrCreate(c) \/ Allow(c) \/ AllowSubscription(c)
         \/ CapLoad(c) \/ CapCAS(c) \/ Refund(c)
         \/ Release(c) \/ Lower(c)
    \/ RemoveClient \/ evictStale \/ ClockStep

Spec == Init /\ [][Next]_vars
--------------------------------------------------------------------------
Between(i) == {c \in Callers : call[c].entry = i /\ call[c].op = "both" /\ call[c].at \in {"load", "cas", "refund"}}

\* A bucket never lets more requests through than its burst and its rate since
\* it was made allow: what it granted, what AllowAndSubscribe has taken and may
\* still give back, and what is left add up to no more (AllowN, Refund).
RateHolds ==
    \A i \in 1..Len(entries), k \in Kinds :
        /\ entries[i].tokens[k] \in 0..BucketOf(k).burst
        /\ granted[i][k] + (IF k = "subscribe" THEN Cardinality(Between(i)) ELSE 0) + entries[i].tokens[k]
             <= BucketOf(k).burst + BucketOf(k).rate * (entries[i].lastRefill[k] - entries[i].born)

\* No entry counts more subscriptions than the cap, and as long as the client's
\* first entry was never removed its counter is exactly the subscriptions held,
\* whatever the callers' compare-and-swaps and releases race with
\* (AllowSubscription, ReleaseSubscription, AllowAndSubscribe).
CapHolds ==
    /\ cfgMax > 0 => \A i \in 1..Len(entries) : entries[i].active \in 0..cfgMax
    /\ current = 1 =>
         entries[1].active = holds + Cardinality({c \in Callers : call[c].at = "release"})

LimitsHold == RateHolds /\ CapHolds

--------------------------------------------------------------------------
(* Proofs, for any callers, rates, bursts and caps                         *)

Configured ==
    /\ IsFiniteSet(Callers) /\ Rate \in [Kinds -> Int] /\ Burst \in [Kinds -> Int]
    /\ MaxSubs \subseteq Int /\ Sizes \subseteq Nat
    /\ Ops \subseteq Kinds \union {"subscription", "both"}

Entry == [tokens : [Kinds -> Nat], lastRefill : [Kinds -> Nat], born : Nat, active : Nat,
          lastAccess : Nat]

\* Time for the provers: a leaf that names no prover of its own is one for SMT.
USE SMTT(60)

\* What a full bucket keeps.
LEMMA AtMostFacts ==
    ASSUME NEW a \in Nat, NEW b \in Nat
    PROVE  AtMost(a, b) \in Nat /\ AtMost(a, b) <= a /\ AtMost(a, b) <= b
  BY DEF AtMost

\* Whatever is configured, a bucket has a rate and a burst: unset ones are replaced.
LEMMA BucketFacts ==
    ASSUME Configured, NEW k \in Kinds
    PROVE  BucketOf(k).rate \in Nat /\ BucketOf(k).burst \in Nat
<1>1. k \in {"connect", "subscribe", "unsubscribe"}
  BY DEF Kinds
<1>2. Default(k).rate \in Nat /\ Default(k).burst \in Nat
  BY <1>1 DEF Default
<1>3. Rate[k] \in Int /\ Burst[k] \in Int
  BY DEF Configured
<1> QED
  BY <1>2, <1>3 DEF BucketOf

\* refill gives at most what the rate has produced, and fills up to the burst.
LEMMA RefillFacts ==
    ASSUME Configured, NEW e \in Entry, NEW k \in Kinds, clock \in Nat,
           e.lastRefill[k] <= clock
    PROVE  LET r == refill(e, k) IN
           /\ r \in Entry /\ r.born = e.born /\ r.active = e.active
           /\ \A j \in Kinds \ {k} : r.tokens[j] = e.tokens[j] /\ r.lastRefill[j] = e.lastRefill[j]
           /\ r.lastRefill[k] = clock /\ r.tokens[k] <= BucketOf(k).burst
           /\ r.tokens[k] <= e.tokens[k] + (clock - e.lastRefill[k]) * BucketOf(k).rate
<1> DEFINE more == (clock - e.lastRefill[k]) * BucketOf(k).rate
           m == AtMost(e.tokens[k] + more, BucketOf(k).burst)
           r == refill(e, k)
<1>1. /\ e.tokens \in [Kinds -> Nat] /\ e.lastRefill \in [Kinds -> Nat] /\ e.born \in Nat
      /\ e.active \in Nat /\ e.lastAccess \in Nat
  BY ZenonT(60) DEF Entry
<1>2. clock - e.lastRefill[k] \in Nat /\ e.tokens[k] \in Nat
  BY <1>1
<1>3. BucketOf(k).rate \in Nat /\ BucketOf(k).burst \in Nat
  BY BucketFacts
<1>4. more \in Nat
  BY <1>2, <1>3
<1>5. m \in Nat /\ m <= e.tokens[k] + more /\ m <= BucketOf(k).burst
  <2> DEFINE a == e.tokens[k] + more
             b == BucketOf(k).burst
  <2>1. a \in Nat /\ b \in Nat
    BY <1>2, <1>3, <1>4
  <2> HIDE DEF a, b
  <2>2. AtMost(a, b) \in Nat /\ AtMost(a, b) <= a /\ AtMost(a, b) <= b
    BY <2>1, AtMostFacts
  <2> QED
    BY <2>2, ZenonT(60) DEF a, b
<1>6. r = [e EXCEPT !.tokens[k] = m, !.lastRefill[k] = clock]
  BY DEF refill
<1> HIDE DEF m, more, r
<1>7. /\ r.tokens = [e.tokens EXCEPT ![k] = m] /\ r.lastRefill = [e.lastRefill EXCEPT ![k] = clock]
      /\ r.born = e.born /\ r.active = e.active /\ r.lastAccess = e.lastAccess
  BY <1>6, ZenonT(60) DEF Entry
<1>8. r \in Entry
  BY <1>1, <1>5, <1>6, ZenonT(60) DEF Entry
<1> QED
  BY <1>1, <1>5, <1>7, <1>8, ZenonT(60) DEF r, more

\* AllowN takes n tokens from what refill leaves, or nothing.
LEMMA AllowFacts ==
    ASSUME Configured, NEW e \in Entry, NEW k \in Kinds, NEW n \in Nat, clock \in Nat,
           e.lastRefill[k] <= clock
    PROVE  LET r == AllowN(e, k, n) IN
           /\ r \in Entry /\ r.born = e.born /\ r.active = e.active
           /\ \A j \in Kinds \ {k} : r.tokens[j] = e.tokens[j] /\ r.lastRefill[j] = e.lastRefill[j]
           /\ r.lastRefill[k] = clock /\ r.tokens[k] <= BucketOf(k).burst
           /\ r.tokens[k] + (IF HasTokens(e, k, n) THEN n ELSE 0)
                <= e.tokens[k] + (clock - e.lastRefill[k]) * BucketOf(k).rate
<1> DEFINE f == refill(e, k)
           r == AllowN(e, k, n)
           more == (clock - e.lastRefill[k]) * BucketOf(k).rate
<1>1. /\ f \in Entry /\ f.born = e.born /\ f.active = e.active
      /\ \A j \in Kinds \ {k} : f.tokens[j] = e.tokens[j] /\ f.lastRefill[j] = e.lastRefill[j]
      /\ f.lastRefill[k] = clock /\ f.tokens[k] <= BucketOf(k).burst
      /\ f.tokens[k] <= e.tokens[k] + more
  BY RefillFacts, ZenonT(60)
<1>2. /\ HasTokens(e, k, n) <=> f.tokens[k] >= n
      /\ r = IF HasTokens(e, k, n) THEN [f EXCEPT !.tokens[k] = @ - n] ELSE f
  BY DEF HasTokens, AllowN
<1>3. /\ f.tokens \in [Kinds -> Nat] /\ f.lastRefill \in [Kinds -> Nat] /\ f.tokens[k] \in Nat
  BY <1>1, ZenonT(60) DEF Entry
<1>4. BucketOf(k).burst \in Nat /\ more \in Int /\ e.tokens[k] \in Nat
  <2>1. e.lastRefill[k] \in Nat /\ e.tokens[k] \in Nat
    BY DEF Entry
  <2> QED
    BY <2>1, BucketFacts
<1> HIDE DEF f, r, more
<1>5. CASE HasTokens(e, k, n)
  <2>1. r = [f EXCEPT !.tokens[k] = f.tokens[k] - n] /\ f.tokens[k] - n \in Nat
    BY <1>2, <1>3, <1>5
  <2>2. /\ r.tokens = [f.tokens EXCEPT ![k] = f.tokens[k] - n] /\ r.lastRefill = f.lastRefill
        /\ r.born = f.born /\ r.active = f.active /\ r.lastAccess = f.lastAccess
    BY <1>1, <2>1 DEF Entry
  <2>3. r \in Entry
    BY <1>1, <1>3, <2>1, ZenonT(60) DEF Entry
  <2>4. r.tokens[k] = f.tokens[k] - n /\ \A j \in Kinds \ {k} : r.tokens[j] = f.tokens[j]
    BY <1>3, <2>2, ZenonT(60)
  <2>5. r.tokens[k] <= BucketOf(k).burst /\ r.tokens[k] + n <= e.tokens[k] + more
    BY <1>1, <1>3, <1>4, <2>4
  <2> QED
    BY <1>1, <1>5, <2>2, <2>3, <2>4, <2>5, ZenonT(60) DEF r, more
<1>6. CASE ~HasTokens(e, k, n)
  <2>1. r = f /\ f.tokens[k] + 0 = f.tokens[k]
    BY <1>2, <1>3, <1>6
  <2> QED
    BY <1>1, <1>6, <2>1, ZenonT(60) DEF r, more
<1> QED
  BY <1>5, <1>6, ZenonT(60)

\* A Refund gives back one token at most.
LEMMA RefundFacts ==
    ASSUME Configured, NEW e \in Entry
    PROVE  LET r == RefundTo(e)  k == "subscribe" IN
           /\ r \in Entry /\ r.born = e.born /\ r.active = e.active
           /\ r.lastRefill = e.lastRefill
           /\ \A j \in Kinds \ {k} : r.tokens[j] = e.tokens[j]
           /\ r.tokens[k] <= BucketOf(k).burst /\ r.tokens[k] <= e.tokens[k] + 1
<1> DEFINE k == "subscribe"
           m == AtMost(e.tokens[k] + 1, BucketOf(k).burst)
           r == RefundTo(e)
<1>1. k \in Kinds /\ e.tokens \in [Kinds -> Nat] /\ e.tokens[k] \in Nat
  BY DEF Entry, Kinds
<1>2. BucketOf(k).burst \in Nat
  BY <1>1, BucketFacts
<1>3. m \in Nat /\ m <= e.tokens[k] + 1 /\ m <= BucketOf(k).burst
  <2> DEFINE a == e.tokens[k] + 1
             b == BucketOf(k).burst
  <2>1. a \in Nat /\ b \in Nat
    BY <1>1, <1>2
  <2> HIDE DEF a, b
  <2>2. AtMost(a, b) \in Nat /\ AtMost(a, b) <= a /\ AtMost(a, b) <= b
    BY <2>1, AtMostFacts
  <2> QED
    BY <2>2 DEF a, b
<1>4. r = [e EXCEPT !.tokens[k] = m]
  BY DEF RefundTo
<1> HIDE DEF m, r, k
<1>5. /\ r.tokens = [e.tokens EXCEPT ![k] = m] /\ r.lastRefill = e.lastRefill
      /\ r.born = e.born /\ r.active = e.active
  BY <1>4 DEF Entry
<1>6. r \in Entry
  BY <1>1, <1>3, <1>4, ZenonT(60) DEF Entry
<1> QED
  BY <1>1, <1>3, <1>5, <1>6 DEF r, k

\* A call in progress.
Call == [op : Kinds \union {"none", "subscription", "both", "release"}, n : Nat,
         at : {"idle", "lookup", "bucket", "load", "cas", "refund", "release"},
         entry : Nat, seen : Nat]

\* The types of the variables.
Types ==
    /\ cfgMax \in Int /\ clock \in Nat /\ holds \in Nat
    /\ entries \in Seq(Entry) /\ granted \in Seq([Kinds -> Nat])
    /\ Len(granted) = Len(entries) /\ current \in 0..Len(entries)
    /\ call \in [Callers -> Call]

\* What the position of a call d says about it.
Placed(d) ==
    /\ d.at \notin {"idle", "lookup"} => d.entry \in 1..Len(entries)
    /\ d.at \notin {"idle", "release"} => d.op \in Kinds \union {"subscription", "both"}
    /\ d.op = "both" => d.n = 1
    /\ d.at \in {"load", "cas"} => d.op \in {"subscription", "both"}
    /\ d.at = "refund" => d.op = "both"
    /\ d.at = "cas" => d.seen < cfgMax

\* Call d holds a token of entry i that it may give back; it releases.
Holds(d, i) == d.entry = i /\ d.op = "both" /\ d.at \in {"load", "cas", "refund"}
Releases(d) == d.at = "release"
Hold(d, i) == IF Holds(d, i) THEN 1 ELSE 0
Rel(d) == IF Releases(d) THEN 1 ELSE 0

\* The bucket inequality for entry e that granted g, with b tokens held by calls.
Sound(e, g, b) ==
    \A k \in Kinds :
        /\ e.tokens[k] <= BucketOf(k).burst
        /\ g[k] + (IF k = "subscribe" THEN b ELSE 0) + e.tokens[k]
             <= BucketOf(k).burst + BucketOf(k).rate * (e.lastRefill[k] - e.born)
        /\ e.born <= e.lastRefill[k] /\ e.lastRefill[k] <= clock

\* The callers between the lookup of ReleaseSubscription and its decrement.
Releasing == {c \in Callers : Releases(call[c])}

\* The map holds the latest entry, so its first one is in the map only while
\* there is no other.
Capped ==
    /\ cfgMax > 0 => \A i \in 1..Len(entries) : entries[i].active <= cfgMax
    /\ current # None => current = Len(entries)
    /\ entries = <<>> => holds = 0
    /\ current = 1 => entries[1].active = holds + Cardinality(Releasing)

\* The inductive invariant.
LimiterInv ==
    /\ Types /\ Capped /\ \A c \in Callers : Placed(call[c])
    /\ \A i \in 1..Len(entries) : Sound(entries[i], granted[i], Cardinality(Between(i)))

\* The arithmetic of a refill.
LEMMA Refilled ==
    ASSUME NEW X \in Nat, NEW t \in Nat, NEW u \in Nat, NEW n \in Nat, NEW B \in Nat, NEW R \in Nat,
           NEW l \in Nat, NEW o \in Nat, NEW c \in Nat,
           X + t <= B + R * (l - o), u + n <= t + (c - l) * R
    PROVE  X + n + u <= B + R * (c - o)
<1>1. R * (l - o) + (c - l) * R = R * (c - o)
  OBVIOUS
<1>2. R * (l - o) \in Int /\ (c - l) * R \in Int /\ R * (c - o) \in Int
  OBVIOUS
<1> QED
  BY <1>1, <1>2

\* AllowN keeps the inequality, with the tokens it takes granted (m) or held (h).
LEMMA SoundAllow ==
    ASSUME Configured, clock \in Nat, NEW e \in Entry, NEW g \in [Kinds -> Nat], NEW b \in Nat,
           Sound(e, g, b), NEW k \in Kinds, NEW n \in Nat, NEW m \in Nat, NEW h \in Nat,
           m + h = (IF HasTokens(e, k, n) THEN n ELSE 0), h > 0 => k = "subscribe"
    PROVE  LET x == [AllowN(e, k, n) EXCEPT !.lastAccess = clock] IN
           x \in Entry /\ x.active = e.active /\ Sound(x, [g EXCEPT ![k] = @ + m], b + h)
<1> DEFINE r == AllowN(e, k, n)
           x == [r EXCEPT !.lastAccess = clock]
           z == [g EXCEPT ![k] = @ + m]
<1>1. /\ r \in Entry /\ r.born = e.born /\ r.active = e.active
      /\ \A j \in Kinds \ {k} : r.tokens[j] = e.tokens[j] /\ r.lastRefill[j] = e.lastRefill[j]
      /\ r.lastRefill[k] = clock /\ r.tokens[k] <= BucketOf(k).burst
      /\ r.tokens[k] + (m + h) <= e.tokens[k] + (clock - e.lastRefill[k]) * BucketOf(k).rate
  <2>1. e.lastRefill[k] <= clock
    BY ZenonT(60) DEF Sound
  <2> QED
    BY <2>1, AllowFacts, ZenonT(60)
<1> HIDE DEF r
<1>2. /\ x \in Entry /\ x.tokens = r.tokens /\ x.lastRefill = r.lastRefill /\ x.born = r.born
      /\ x.active = r.active
  BY <1>1, ZenonT(60) DEF Entry
<1>3. z \in [Kinds -> Nat] /\ z[k] = g[k] + m /\ \A j \in Kinds \ {k} : z[j] = g[j]
  OBVIOUS
<1> HIDE DEF x, z
<1>4. ASSUME NEW j \in Kinds, j # k
      PROVE  /\ x.tokens[j] <= BucketOf(j).burst
             /\ z[j] + (IF j = "subscribe" THEN b + h ELSE 0) + x.tokens[j]
                  <= BucketOf(j).burst + BucketOf(j).rate * (x.lastRefill[j] - x.born)
             /\ x.born <= x.lastRefill[j] /\ x.lastRefill[j] <= clock
  <2>1. /\ x.tokens[j] = e.tokens[j] /\ x.lastRefill[j] = e.lastRefill[j] /\ x.born = e.born
        /\ z[j] = g[j]
    BY <1>1, <1>2, <1>3, <1>4, ZenonT(60)
  <2>2. (IF j = "subscribe" THEN b + h ELSE 0) = IF j = "subscribe" THEN b ELSE 0
    BY <1>4
  <2>3. /\ e.tokens[j] <= BucketOf(j).burst
        /\ g[j] + (IF j = "subscribe" THEN b ELSE 0) + e.tokens[j]
             <= BucketOf(j).burst + BucketOf(j).rate * (e.lastRefill[j] - e.born)
        /\ e.born <= e.lastRefill[j] /\ e.lastRefill[j] <= clock
    BY ZenonT(60) DEF Sound
  <2> QED
    BY <2>1, <2>2, <2>3, ZenonT(60)
<1>5. /\ x.tokens[k] <= BucketOf(k).burst
      /\ z[k] + (IF k = "subscribe" THEN b + h ELSE 0) + x.tokens[k]
           <= BucketOf(k).burst + BucketOf(k).rate * (x.lastRefill[k] - x.born)
      /\ x.born <= x.lastRefill[k] /\ x.lastRefill[k] <= clock
  <2> DEFINE y == IF k = "subscribe" THEN b ELSE 0
             X == g[k] + y
  <2>1. /\ y \in Nat /\ X \in Nat /\ e.tokens[k] \in Nat /\ x.tokens[k] \in Nat
        /\ e.lastRefill[k] \in Nat /\ e.born \in Nat
    BY <1>2 DEF Entry
  <2>2. BucketOf(k).rate \in Nat /\ BucketOf(k).burst \in Nat
    BY BucketFacts, ZenonT(60)
  <2>3. /\ X + e.tokens[k] <= BucketOf(k).burst + BucketOf(k).rate * (e.lastRefill[k] - e.born)
        /\ e.born <= e.lastRefill[k] /\ e.lastRefill[k] <= clock
    BY ZenonT(60) DEF Sound
  <2>4. x.tokens[k] + (m + h) <= e.tokens[k] + (clock - e.lastRefill[k]) * BucketOf(k).rate
    BY <1>1, <1>2, ZenonT(60)
  <2>5. z[k] + (IF k = "subscribe" THEN b + h ELSE 0) = X + (m + h)
    BY <1>3, <2>1
  <2>6. x.lastRefill[k] = clock /\ x.born = e.born
    BY <1>1, <1>2, ZenonT(60)
  <2> HIDE DEF X, y
  <2>7. m + h \in Nat
    OBVIOUS
  <2>8. X + (m + h) + x.tokens[k] <= BucketOf(k).burst + BucketOf(k).rate * (clock - e.born)
    BY <2>1, <2>2, <2>3, <2>4, <2>7, Refilled, ZenonT(60)
  <2>9. x.born <= x.lastRefill[k] /\ x.lastRefill[k] <= clock
    BY <2>1, <2>3, <2>6
  <2> QED
    BY <1>1, <1>2, <2>5, <2>6, <2>8, <2>9, ZenonT(60)
<1>6. Sound(x, z, b + h)
  BY <1>4, <1>5, ZenonT(60) DEF Sound
<1> QED
  BY <1>1, <1>2, <1>6, ZenonT(60) DEF x, z, r

\* A token held by a call is given back, or granted.
LEMMA SoundEnd ==
    ASSUME Configured, clock \in Nat, NEW e \in Entry, NEW g \in [Kinds -> Nat],
           NEW b \in Nat, b > 0, Sound(e, g, b)
    PROVE  /\ Sound(RefundTo(e), g, b - 1)
           /\ Sound(e, [g EXCEPT !["subscribe"] = @ + 1], b - 1)
<1> DEFINE r == RefundTo(e)
           s == "subscribe"
           z == [g EXCEPT ![s] = @ + 1]
<1>0. s \in Kinds /\ b - 1 \in Nat
  BY DEF Kinds
<1>1. /\ r \in Entry /\ r.born = e.born /\ r.lastRefill = e.lastRefill
      /\ \A j \in Kinds \ {s} : r.tokens[j] = e.tokens[j]
      /\ r.tokens[s] <= BucketOf(s).burst /\ r.tokens[s] <= e.tokens[s] + 1
  BY RefundFacts, ZenonT(60)
<1>2. z[s] = g[s] + 1 /\ \A j \in Kinds \ {s} : z[j] = g[j]
  BY <1>0, ZenonT(60)
<1> HIDE DEF r, z
<1>3. \A j \in Kinds : /\ BucketOf(j).rate * (e.lastRefill[j] - e.born) \in Int
                       /\ BucketOf(j).burst \in Nat
                       /\ e.tokens[j] \in Nat /\ g[j] \in Nat /\ r.tokens[j] \in Nat
  BY <1>1, BucketFacts DEF Entry
<1>4. \A j \in Kinds \ {s} : j # "subscribe"
  BY ZenonT(60)
<1>5. Sound(r, g, b - 1)
  BY <1>0, <1>1, <1>3, <1>4 DEF Sound
<1>6. Sound(e, z, b - 1)
  BY <1>0, <1>2, <1>3, <1>4 DEF Sound
<1> QED
  BY <1>5, <1>6 DEF r, z

\* The inequality does not see what else the entry holds.
LEMMA SoundSame ==
    ASSUME NEW e \in Entry, NEW x \in Entry, NEW g \in [Kinds -> Nat], NEW b \in Int,
           Sound(e, g, b), x.tokens = e.tokens, x.lastRefill = e.lastRefill, x.born = e.born
    PROVE  Sound(x, g, b)
  BY ZenonT(60) DEF Sound

\* A step of caller c changes the counts of calls by its own share only.
LEMMA CallMoves ==
    ASSUME Configured, Types, NEW c \in Callers, NEW d, call' = [call EXCEPT ![c] = d]
    PROVE  /\ Cardinality(Releasing) \in Nat /\ Rel(d) \in Nat /\ Rel(call[c]) \in Nat
           /\ Cardinality(Releasing') = Cardinality(Releasing)
                + Rel(d) - Rel(call[c])
           /\ \A i \in Nat :
                /\ Cardinality(Between(i)) \in Nat /\ Hold(d, i) \in Nat /\ Hold(call[c], i) \in Nat
                /\ Holds(call[c], i) => Cardinality(Between(i)) > 0
                /\ Cardinality(Between(i)') = Cardinality(Between(i))
                     + Hold(d, i) - Hold(call[c], i)
<1>1. ASSUME NEW S \in SUBSET Callers, NEW T \in SUBSET Callers, T \ {c} = S \ {c}
      PROVE  /\ Cardinality(S) \in Nat /\ (c \in S => Cardinality(S) > 0)
             /\ Cardinality(T) = Cardinality(S) + (IF c \in T THEN 1 ELSE 0)
                                                - (IF c \in S THEN 1 ELSE 0)
  <2>1. IsFiniteSet(S) /\ IsFiniteSet(T)
    BY FS_Subset DEF Configured
  <2>2. Cardinality(S) \in Nat /\ Cardinality(T) \in Nat
    BY <2>1, FS_CardinalityType
  <2>3. Cardinality(S \ {c}) = Cardinality(T \ {c})
    BY <1>1
  <2>4. /\ Cardinality(S \ {c}) = IF c \in S THEN Cardinality(S) - 1 ELSE Cardinality(S)
        /\ Cardinality(T \ {c}) = IF c \in T THEN Cardinality(T) - 1 ELSE Cardinality(T)
    BY <2>1, FS_RemoveElement, ZenonT(60)
  <2>5. Cardinality(S) = 0 <=> S = {}
    BY <2>1, FS_EmptySet
  <2> QED
    BY <2>2, <2>3, <2>4, <2>5
<1>2. call'[c] = d /\ \A q \in Callers : q # c => call'[q] = call[q]
  BY DEF Types
<1>3. /\ Releasing \in SUBSET Callers /\ Releasing' \in SUBSET Callers
      /\ Releasing' \ {c} = Releasing \ {c}
      /\ c \in Releasing <=> Releases(call[c])
      /\ c \in Releasing' <=> Releases(d)
  BY <1>2, ZenonT(60) DEF Releasing, Releases
<1>4. ASSUME NEW i \in Nat
      PROVE  /\ Between(i) \in SUBSET Callers /\ Between(i)' \in SUBSET Callers
             /\ Between(i)' \ {c} = Between(i) \ {c}
             /\ c \in Between(i) <=> Holds(call[c], i)
             /\ c \in Between(i)' <=> Holds(d, i)
  BY <1>2, ZenonT(60) DEF Between, Holds
<1>5. /\ Cardinality(Releasing) \in Nat /\ Rel(d) \in Nat /\ Rel(call[c]) \in Nat
      /\ Cardinality(Releasing') = Cardinality(Releasing)
                + Rel(d) - Rel(call[c])
  BY <1>1, <1>3, ZenonT(60) DEF Rel
<1>6. ASSUME NEW i \in Nat
      PROVE  /\ Cardinality(Between(i)) \in Nat /\ Hold(d, i) \in Nat /\ Hold(call[c], i) \in Nat
             /\ Holds(call[c], i) => Cardinality(Between(i)) > 0
             /\ Cardinality(Between(i)') = Cardinality(Between(i))
                  + Hold(d, i) - Hold(call[c], i)
  BY <1>1, <1>4, ZenonT(60) DEF Hold
<1> QED
  BY <1>5, <1>6, ZenonT(60)

\* A step that changes only the call of c and, in Release, what is held.
LEMMA CallStep ==
    ASSUME Configured, LimiterInv, NEW c \in Callers, NEW d \in Call, Placed(d),
           call' = [call EXCEPT ![c] = d], UNCHANGED <<cfgMax, entries, current, clock, granted>>,
           \A i \in 1..Len(entries) : Hold(d, i) = Hold(call[c], i),
           holds' \in Nat, entries = <<>> => holds' = 0,
           current = 1 => holds' + Rel(d)
                            = holds + Rel(call[c])
    PROVE  LimiterInv'
<1>1. Types /\ Capped /\ \A q \in Callers : Placed(call[q])
  BY DEF LimiterInv
<1>2. Types'
  BY <1>1 DEF Types
<1>3. \A q \in Callers : Placed(call[q])'
  BY <1>1, ZenonT(60) DEF Types, Placed
<1>4. Capped'
  <2>1. /\ Cardinality(Releasing) \in Nat /\ Rel(d) \in Nat /\ Rel(call[c]) \in Nat
        /\ holds \in Nat
    BY <1>1, CallMoves, ZenonT(60) DEF Types
  <2>2. Cardinality(Releasing') = Cardinality(Releasing)
                + Rel(d) - Rel(call[c])
    BY <1>1, CallMoves, ZenonT(60)
  <2>3. current = 1 => holds' + Cardinality(Releasing') = holds + Cardinality(Releasing)
    BY <2>1, <2>2
  <2> QED
    BY <1>1, <2>3, ZenonT(60) DEF Capped
<1>5. \A i \in 1..Len(entries) : Sound(entries[i], granted[i], Cardinality(Between(i)))'
  <2> SUFFICES ASSUME NEW i \in 1..Len(entries)
               PROVE  Sound(entries[i], granted[i], Cardinality(Between(i)'))
    BY ZenonT(60) DEF Sound
  <2>1. i \in Nat
    BY <1>1 DEF Types
  <2>2. /\ Cardinality(Between(i)) \in Nat /\ Hold(d, i) \in Nat
        /\ Cardinality(Between(i)') = Cardinality(Between(i))
             + Hold(d, i) - Hold(call[c], i)
    BY <1>1, <2>1, CallMoves, ZenonT(60)
  <2>3. Cardinality(Between(i)') = Cardinality(Between(i))
    BY <2>2
  <2> QED
    BY <2>3, ZenonT(60) DEF LimiterInv
<1> QED
  BY <1>2, <1>3, <1>4, <1>5, ZenonT(60) DEF LimiterInv

\* Sequence s with x at position i.
Put(s, i, x) == [s EXCEPT ![i] = x]

\* The counter a becomes b as the units held (h to k) and the releases (R to S) change.
LEMMA Balance ==
    ASSUME NEW a \in Nat, NEW b \in Nat, NEW h \in Nat, NEW k \in Nat, NEW R \in Nat, NEW S,
           NEW u \in Nat, NEW v \in Nat, a = h + R, S = R + u - v, b + h + v = a + k + u
    PROVE  b = k + S
  OBVIOUS

\* While the first entry is in the map there is no other.
LEMMA OneEntry ==
    ASSUME Types, Capped, current = 1, NEW i \in 1..Len(entries) PROVE i = 1
<1>1. current # 0 => current = Len(entries)
  BY ZenonT(60) DEF Capped, None
<1>2. Len(entries) = 1
  BY <1>1
<1>3. i \in 1..1
  BY <1>2
<1> QED
  BY <1>3

\* The counter of the first entry moves with what is held and released.
Keeps(c, d, i, x) ==
    current = 1 => x.active + holds + Rel(call[c]) = entries[i].active + holds' + Rel(d)

\* A step of caller c on its entry i, which becomes x and has granted g.
LEMMA EntryStep ==
    ASSUME Configured, LimiterInv, NEW c \in Callers, NEW d \in Call, Placed(d),
           NEW i \in 1..Len(entries), NEW x \in Entry, NEW g \in [Kinds -> Nat],
           call' = [call EXCEPT ![c] = d], entries' = Put(entries, i, x),
           granted' = Put(granted, i, g), UNCHANGED <<cfgMax, current, clock>>,
           call[c].entry = i, d.entry = i \/ d.at = "idle", holds' \in Nat,
           Sound(x, g, Cardinality(Between(i)) + Hold(d, i)
                          - Hold(call[c], i)),
           cfgMax > 0 => x.active <= cfgMax,
           Keeps(c, d, i, x)
    PROVE  LimiterInv'
<1>1. Types /\ Capped /\ \A q \in Callers : Placed(call[q])
  BY ZenonT(60) DEF LimiterInv
<1>2. /\ entries' \in Seq(Entry) /\ Len(entries') = Len(entries)
      /\ entries'[i] = x /\ \A j \in 1..Len(entries) : j # i => entries'[j] = entries[j]
  BY <1>1 DEF Types, Put
<1>3. /\ granted' \in Seq([Kinds -> Nat]) /\ Len(granted') = Len(granted)
      /\ granted'[i] = g /\ \A j \in 1..Len(entries) : j # i => granted'[j] = granted[j]
  BY <1>1 DEF Types, Put
<1>4. Types'
  BY <1>1, <1>2, <1>3, ZenonT(60) DEF Types
<1>5. \A q \in Callers : Placed(call[q])'
  BY <1>1, <1>2, ZenonT(60) DEF Types, Placed
<1>6. Len(entries) \in Nat /\ i \in Nat /\ i > 0
  BY <1>1 DEF Types
<1>7. Capped'
  <2>0. entries[i] \in Entry /\ holds \in Nat
    BY <1>1 DEF Types
  <2>1. /\ Cardinality(Releasing) \in Nat /\ Rel(d) \in Nat /\ Rel(call[c]) \in Nat
        /\ entries[i].active \in Nat /\ x.active \in Nat
    BY <1>1, <2>0, CallMoves, ZenonT(60) DEF Entry
  <2>2. Cardinality(Releasing') = Cardinality(Releasing)
                + Rel(d) - Rel(call[c])
    BY <1>1, CallMoves, ZenonT(60)
  <2>3. current = 1 => i = 1
    BY <1>1, OneEntry, ZenonT(60)
  <2>4. current = 1 => x.active = holds' + Cardinality(Releasing')
    <3> SUFFICES ASSUME current = 1 PROVE x.active = holds' + Cardinality(Releasing')
      BY ZenonT(60)
    <3>1. entries[i].active = holds + Cardinality(Releasing)
      BY <1>1, <2>3, ZenonT(60) DEF Capped
    <3> QED
      <4>1. x.active + holds + Rel(call[c]) = entries[i].active + holds' + Rel(d)
        BY ZenonT(60) DEF Keeps
      <4> DEFINE a == entries[i].active
                 b == x.active
                 h == holds
                 k == holds'
                 R == Cardinality(Releasing)
                 S == Cardinality(Releasing')
                 u == Rel(d)
                 v == Rel(call[c])
      <4>2. /\ a \in Nat /\ b \in Nat /\ h \in Nat /\ k \in Nat /\ R \in Nat /\ u \in Nat
            /\ v \in Nat /\ a = h + R /\ S = R + u - v /\ b + h + v = a + k + u
        BY <2>0, <2>1, <2>2, <3>1, <4>1, ZenonT(60)
      <4> HIDE DEF a, b, h, k, R, S, u, v
      <4>3. b = k + S
        BY <4>2, Balance
      <4> QED
        BY <4>3, ZenonT(60) DEF b, k, S
  <2>5. entries' # <<>>
    BY <1>2, <1>6
  <2>6. cfgMax' > 0 => \A j \in 1..Len(entries') : entries'[j].active <= cfgMax'
    BY <1>1, <1>2, ZenonT(60) DEF Capped
  <2>7. current' = 1 => entries'[1].active = holds' + Cardinality(Releasing')
    BY <1>2, <2>3, <2>4, ZenonT(60)
  <2>8. current' # None => current' = Len(entries')
    BY <1>1, <1>2, ZenonT(60) DEF Capped
  <2> QED
    BY <2>5, <2>6, <2>7, <2>8, ZenonT(60) DEF Capped
<1>8. \A j \in 1..Len(entries') : Sound(entries[j], granted[j], Cardinality(Between(j)))'
  <2> SUFFICES ASSUME NEW j \in 1..Len(entries)
               PROVE  Sound(entries'[j], granted'[j], Cardinality(Between(j)'))
    BY <1>2, ZenonT(60) DEF Sound
  <2>1. j \in Nat
    BY <1>6
  <2>2. Cardinality(Between(j)') = Cardinality(Between(j))
           + Hold(d, j) - Hold(call[c], j)
    BY <1>1, <2>1, CallMoves, ZenonT(60)
  <2>3. CASE j = i
    BY <1>2, <1>3, <2>2, <2>3, ZenonT(60)
  <2>4. CASE j # i
    <3>1. Hold(d, j) = 0 /\ Hold(call[c], j) = 0 /\ Cardinality(Between(j)) \in Nat
      BY <1>1, <2>1, <2>4, CallMoves, ZenonT(60) DEF Hold, Holds
    <3>2. Cardinality(Between(j)') = Cardinality(Between(j))
      BY <2>2, <3>1
    <3> QED
      BY <1>2, <1>3, <2>4, <3>2, ZenonT(60) DEF LimiterInv
  <2> QED
    BY <2>3, <2>4, ZenonT(60)
<1> QED
  BY <1>4, <1>5, <1>7, <1>8, ZenonT(60) DEF LimiterInv

\* Facts about caller c that the next proofs share.
LEMMA CallFacts ==
    ASSUME Configured, LimiterInv, NEW c \in Callers
    PROVE  /\ Types /\ Capped /\ call[c] \in Call /\ Placed(call[c])
           /\ cfgMax \in Int /\ clock \in Nat /\ holds \in Nat
           /\ Idle \in Call /\ Placed(Idle) /\ Rel(Idle) = 0 /\ \A i \in Nat : Hold(Idle, i) = 0
           /\ \A i \in 1..Len(entries) :
                /\ i \in Nat /\ entries # <<>> /\ entries[i] \in Entry
                /\ granted[i] \in [Kinds -> Nat]
                /\ entries = Put(entries, i, entries[i]) /\ granted = Put(granted, i, granted[i])
                /\ Cardinality(Between(i)) \in Nat
                /\ Holds(call[c], i) => Cardinality(Between(i)) > 0
                /\ Sound(entries[i], granted[i], Cardinality(Between(i)))
                /\ cfgMax > 0 => entries[i].active <= cfgMax
<1>1. Types /\ Capped /\ Placed(call[c])
  BY DEF LimiterInv
<1>2. call[c] \in Call /\ cfgMax \in Int /\ clock \in Nat /\ holds \in Nat
  BY <1>1 DEF Types
<1>3. Idle \in Call /\ Placed(Idle) /\ Rel(Idle) = 0 /\ \A i \in Nat : Hold(Idle, i) = 0
  BY ZenonT(60) DEF Idle, Call, Placed, Rel, Releases, Hold, Holds, None
<1>4. ASSUME NEW i \in 1..Len(entries)
      PROVE  /\ i \in Nat /\ entries # <<>> /\ entries[i] \in Entry
             /\ granted[i] \in [Kinds -> Nat]
             /\ entries = Put(entries, i, entries[i]) /\ granted = Put(granted, i, granted[i])
  BY <1>1 DEF Types, Put
<1>5. ASSUME NEW i \in 1..Len(entries)
      PROVE  /\ Cardinality(Between(i)) \in Nat
             /\ Holds(call[c], i) => Cardinality(Between(i)) > 0
  <2>1. Between(i) \in SUBSET Callers /\ (Holds(call[c], i) => c \in Between(i))
    BY ZenonT(60) DEF Between, Holds
  <2>2. IsFiniteSet(Between(i))
    BY <2>1, FS_Subset, ZenonT(60) DEF Configured
  <2>3. Cardinality(Between(i)) \in Nat /\ (Cardinality(Between(i)) = 0 <=> Between(i) = {})
    BY <2>2, FS_CardinalityType, FS_EmptySet, ZenonT(60)
  <2> QED
    BY <2>1, <2>3
<1>6. ASSUME NEW i \in 1..Len(entries)
      PROVE  /\ Sound(entries[i], granted[i], Cardinality(Between(i)))
             /\ cfgMax > 0 => entries[i].active <= cfgMax
  BY <1>1, ZenonT(60) DEF LimiterInv, Capped
<1> QED
  BY <1>1, <1>2, <1>3, <1>4, <1>5, <1>6, ZenonT(60)

\* A call of Allow..., AllowSubscription or AllowAndSubscribe starts.
LEMMA BeginStep ==
    ASSUME Configured, LimiterInv, NEW c \in Callers, NEW op \in Ops, NEW n \in Sizes,
           Begin(c, op, n)
    PROVE  LimiterInv'
<1> DEFINE d == [Idle EXCEPT !.op = op, !.n = n, !.at = "lookup"]
<1>1. /\ call[c].at = "idle" /\ (n = 1 \/ op = "subscribe")
      /\ call' = call \/ call' = [call EXCEPT ![c] = d]
      /\ UNCHANGED <<cfgMax, entries, current, clock, granted, holds>>
  BY DEF Begin
<1>2. n \in Nat /\ op \in Kinds \union {"subscription", "both"}
  BY ZenonT(60) DEF Configured
<1>3. /\ d \in Call /\ d.op = op /\ d.n = n /\ d.at = "lookup"
  BY <1>2, ZenonT(60) DEF Idle, Call, None
<1> HIDE DEF d
<1>4. Placed(d)
  BY <1>1, <1>2, <1>3, ZenonT(60) DEF Placed
<1>5. Rel(d) = 0 /\ Rel(call[c]) = 0 /\ \A i \in Nat : Hold(d, i) = 0 /\ Hold(call[c], i) = 0
  BY <1>1, <1>3, ZenonT(60) DEF Rel, Releases, Hold, Holds
<1>6. CASE call' = [call EXCEPT ![c] = d]
  <2>1. /\ holds' \in Nat /\ (entries = <<>> => holds' = 0)
        /\ holds' + Rel(d) = holds + Rel(call[c])
    BY <1>1, <1>5, CallFacts, ZenonT(60) DEF Capped
  <2>2. \A i \in 1..Len(entries) : Hold(d, i) = Hold(call[c], i)
    BY <1>5, CallFacts, ZenonT(60)
  <2> QED
    BY <1>1, <1>3, <1>4, <1>6, <2>1, <2>2, CallStep, ZenonT(60)
<1>7. CASE call' = call
  <2>1. call' = [call EXCEPT ![c] = call[c]]
    BY <1>7, CallFacts, ZenonT(60) DEF Types
  <2>2. holds' \in Nat /\ (entries = <<>> => holds' = 0) /\ holds' = holds
    BY <1>1, CallFacts, ZenonT(60) DEF Capped
  <2> QED
    BY <1>1, <2>1, <2>2, CallFacts, CallStep, ZenonT(60)
<1> QED
  BY <1>1, <1>6, <1>7, ZenonT(60)

\* activeSubs.Load, and the compare-and-swap that finds another value.
LEMMA CapLoadStep ==
    ASSUME Configured, LimiterInv, NEW c \in Callers, CapLoad(c) PROVE LimiterInv'
<1> DEFINE e == call[c].entry
           cur == entries[e].active
<1>1. /\ call[c] \in Call /\ Placed(call[c]) /\ call[c].at = "load" /\ e \in 1..Len(entries)
      /\ call[c].op \in {"subscription", "both"} /\ (call[c].op = "both" => call[c].n = 1)
  BY CallFacts, ZenonT(60) DEF CapLoad, Placed
<1>2. cur \in Nat /\ e \in Nat /\ cfgMax \in Int
  BY <1>1, CallFacts, ZenonT(60) DEF Entry
<1>3. PICK d : /\ call' = [call EXCEPT ![c] = d]
               /\ \/ cur < cfgMax /\ d = [call[c] EXCEPT !.at = "cas", !.seen = cur]
                  \/ call[c].op = "both" /\ d = [call[c] EXCEPT !.at = "refund"]
                  \/ call[c].op # "both" /\ d = Idle
  BY <1>2, ZenonT(60) DEF CapLoad
<1>4. UNCHANGED <<cfgMax, entries, current, clock, granted, holds>>
  BY ZenonT(60) DEF CapLoad
<1>5. CASE d = Idle /\ call[c].op # "both"
  <2>1. d \in Call /\ Placed(d) /\ Rel(d) = Rel(call[c]) /\ \A i \in 1..Len(entries) : Hold(d, i) = Hold(call[c], i)
    <3>1. Rel(call[c]) = 0 /\ \A i \in Nat : Hold(call[c], i) = 0
      BY <1>1, <1>5, ZenonT(60) DEF Rel, Releases, Hold, Holds
    <3> QED
      BY <1>5, <3>1, CallFacts, ZenonT(60)
  <2> QED
    BY <1>3, <1>4, <2>1, CallFacts, CallStep, ZenonT(60) DEF Capped
<1>6. CASE cur < cfgMax /\ d = [call[c] EXCEPT !.at = "cas", !.seen = cur]
  <2>1. /\ d \in Call /\ d.at = "cas" /\ d.seen = cur /\ d.op = call[c].op /\ d.n = call[c].n
        /\ d.entry = e
    BY <1>1, <1>2, <1>6, ZenonT(60) DEF Call
  <2>2. Placed(d)
    BY <1>1, <1>6, <2>1, ZenonT(60) DEF Placed
  <2>3. Rel(d) = Rel(call[c]) /\ \A i \in 1..Len(entries) : Hold(d, i) = Hold(call[c], i)
    BY <1>1, <2>1, ZenonT(60) DEF Rel, Releases, Hold, Holds
  <2> QED
    BY <1>3, <1>4, <2>1, <2>2, <2>3, CallFacts, CallStep, ZenonT(60) DEF Capped
<1>7. CASE call[c].op = "both" /\ d = [call[c] EXCEPT !.at = "refund"]
  <2>1. /\ d \in Call /\ d.at = "refund" /\ d.op = call[c].op /\ d.n = call[c].n
        /\ d.entry = e
    BY <1>1, <1>2, <1>7, ZenonT(60) DEF Call
  <2>2. Placed(d)
    BY <1>1, <1>7, <2>1, ZenonT(60) DEF Placed
  <2>3. Rel(d) = Rel(call[c]) /\ \A i \in 1..Len(entries) : Hold(d, i) = Hold(call[c], i)
    BY <1>1, <2>1, ZenonT(60) DEF Rel, Releases, Hold, Holds
  <2> QED
    BY <1>3, <1>4, <2>1, <2>2, <2>3, CallFacts, CallStep, ZenonT(60) DEF Capped
<1> QED
  BY <1>3, <1>5, <1>6, <1>7, ZenonT(60)

\* The compare-and-swap succeeds or sends the call back to the load.
LEMMA CapCASStep ==
    ASSUME Configured, LimiterInv, NEW c \in Callers, CapCAS(c) PROVE LimiterInv'
<1> DEFINE i == call[c].entry
           e == entries[i]
           b == Cardinality(Between(i))
           s == "subscribe"
<1>1. /\ call[c] \in Call /\ Placed(call[c]) /\ call[c].at = "cas" /\ i \in 1..Len(entries)
      /\ call[c].op \in {"subscription", "both"} /\ (call[c].op = "both" => call[c].n = 1)
      /\ call[c].seen < cfgMax /\ UNCHANGED <<cfgMax, current, clock>>
  BY CallFacts, ZenonT(60) DEF CapCAS, Placed
<1>2. /\ i \in Nat /\ e \in Entry /\ e.active \in Nat /\ granted[i] \in [Kinds -> Nat]
      /\ cfgMax \in Int /\ holds \in Nat /\ b \in Nat /\ Sound(e, granted[i], b)
      /\ granted = Put(granted, i, granted[i]) /\ Hold(Idle, i) = 0 /\ clock \in Nat
      /\ (Holds(call[c], i) => b > 0)
  BY <1>1, CallFacts, ZenonT(60) DEF Entry
<1>0. e \in Entry /\ e.active \in Nat /\ granted[i] \in [Kinds -> Nat]
  BY <1>2, ZenonT(60)
<1>3. Rel(call[c]) = 0 /\ Hold(call[c], i) = (IF call[c].op = "both" THEN 1 ELSE 0)
  BY <1>1, ZenonT(60) DEF Rel, Releases, Hold, Holds
<1> HIDE DEF i, e, b
<1>4. CASE e.active = call[c].seen
  <2> DEFINE x == [e EXCEPT !.active = @ + 1]
             g == IF call[c].op = "both" THEN [granted[i] EXCEPT ![s] = @ + 1] ELSE granted[i]
  <2>1. /\ x \in Entry /\ x.active = e.active + 1 /\ x.tokens = e.tokens
        /\ x.lastRefill = e.lastRefill /\ x.born = e.born
    BY <1>0 DEF Entry
  <2>2. g \in [Kinds -> Nat]
    <3>1. \A f \in [Kinds -> Nat] : [f EXCEPT ![s] = @ + 1] \in [Kinds -> Nat]
      BY DEF Kinds
    <3> QED
      BY <1>0, <3>1, ZenonT(60)
  <2>3. /\ call' = [call EXCEPT ![c] = Idle] /\ entries' = Put(entries, i, x) /\ holds' = holds + 1
        /\ granted' = Put(granted, i, g)
    <3>1. /\ call' = [call EXCEPT ![c] = Idle] /\ entries' = Put(entries, i, x)
          /\ holds' = holds + 1
      BY <1>4, ZenonT(60) DEF CapCAS, Put, i, e
    <3>2. granted' = IF call[c].op = "both" THEN Put(granted, i, [granted[i] EXCEPT ![s] = @ + 1])
                                            ELSE Put(granted, i, granted[i])
      BY <1>2, <1>4, ZenonT(60) DEF CapCAS, Put, i, e
    <3> QED
      BY <3>1, <3>2, ZenonT(60)
  <2> HIDE DEF x
  <2>4. Sound(x, g, b + Hold(Idle, i) - Hold(call[c], i))
    <3>1. b \in Nat /\ Sound(e, granted[i], b) /\ Hold(Idle, i) = 0
      BY <1>2, ZenonT(60)
    <3>2. CASE call[c].op = "both"
      <4>1. b > 0 /\ b + Hold(Idle, i) - Hold(call[c], i) = b - 1
        <5>1. Hold(call[c], i) = 1
          BY <1>3, <3>2, ZenonT(60)
        <5>2. b > 0
          BY <1>1, <1>2, <3>2, ZenonT(60) DEF Holds, i
        <5> QED
          BY <3>1, <5>1, <5>2
      <4>2. Sound(e, g, b - 1)
        BY <1>2, <3>1, <3>2, <4>1, SoundEnd, ZenonT(60)
      <4> QED
        <5>1. b - 1 \in Int
          BY <3>1
        <5>2. Sound(x, g, b - 1)
          BY <1>2, <2>1, <2>2, <4>2, <5>1, SoundSame, ZenonT(60)
        <5> QED
          BY <4>1, <5>2, ZenonT(60)
    <3>3. CASE call[c].op # "both"
      <4>1. b + Hold(Idle, i) - Hold(call[c], i) = b
        <5>1. Hold(call[c], i) = 0
          BY <1>3, <3>3, ZenonT(60)
        <5> QED
          BY <3>1, <5>1
      <4>2. g = granted[i]
        BY <3>3, ZenonT(60)
      <4>3. b \in Int
        BY <3>1
      <4>4. Sound(x, g, b)
        BY <1>2, <2>1, <2>2, <3>1, <4>2, <4>3, SoundSame, ZenonT(60)
      <4> QED
        BY <4>1, <4>4, ZenonT(60)
    <3> QED
      BY <3>2, <3>3, ZenonT(60)
  <2> HIDE DEF g
  <2>5. cfgMax > 0 => x.active <= cfgMax
    <3>1. /\ x.active = e.active + 1 /\ e.active = call[c].seen /\ call[c].seen < cfgMax
          /\ e.active \in Nat /\ cfgMax \in Int
      BY <1>1, <1>2, <1>4, <2>1, ZenonT(60)
    <3> QED
      BY <3>1
  <2>6. holds' \in Nat /\ Keeps(c, Idle, i, x)
    <3>1. Rel(Idle) = 0
      BY CallFacts, ZenonT(60)
    <3>2. /\ x.active = e.active + 1 /\ e.active \in Nat /\ holds \in Nat /\ holds' = holds + 1
          /\ Rel(call[c]) = 0
      BY <1>2, <1>3, <2>1, <2>3, ZenonT(60)
    <3>3. holds' \in Nat /\ x.active + holds + Rel(call[c]) = e.active + holds' + Rel(Idle)
      BY <3>1, <3>2
    <3> QED
      BY <3>3, ZenonT(60) DEF Keeps, e
  <2>7. Idle \in Call /\ Placed(Idle) /\ Idle.at = "idle"
    BY CallFacts, ZenonT(60) DEF Idle
  <2> QED
    BY <1>1, <2>1, <2>2, <2>3, <2>4, <2>5, <2>6, <2>7, EntryStep, ZenonT(60) DEF i, b
<1>5. CASE e.active # call[c].seen
  <2> DEFINE d == [call[c] EXCEPT !.at = "load"]
  <2>1. call' = [call EXCEPT ![c] = d] /\ UNCHANGED <<entries, granted, holds>>
    BY <1>5, ZenonT(60) DEF CapCAS, i, e
  <2>2. /\ d \in Call /\ d.at = "load" /\ d.op = call[c].op /\ d.n = call[c].n /\ d.entry = i
    BY <1>1, ZenonT(60) DEF Call, i
  <2> HIDE DEF d
  <2>3. Placed(d)
    BY <1>1, <2>2, ZenonT(60) DEF Placed
  <2>4. Rel(d) = Rel(call[c]) /\ \A j \in 1..Len(entries) : Hold(d, j) = Hold(call[c], j)
    BY <1>1, <2>2, ZenonT(60) DEF Rel, Releases, Hold, Holds, i
  <2> QED
    BY <1>1, <2>1, <2>2, <2>3, <2>4, CallFacts, CallStep, ZenonT(60) DEF Capped
<1> QED
  BY <1>4, <1>5, ZenonT(60)

\* touch and AllowN.
LEMMA AllowStep ==
    ASSUME Configured, LimiterInv, NEW c \in Callers, Allow(c) PROVE LimiterInv'
<1> DEFINE i == call[c].entry
           e == entries[i]
           k == Bucket(call[c].op)
           n == call[c].n
           ok == HasTokens(e, k, n)
           toCap == call[c].op = "both" /\ cfgMax > 0 /\ ok
           x == [AllowN(e, k, n) EXCEPT !.lastAccess = clock]
           m == IF ok /\ ~toCap THEN n ELSE 0
           h == IF toCap THEN 1 ELSE 0
           g == [granted[i] EXCEPT ![k] = @ + m]
           d == IF toCap THEN [call[c] EXCEPT !.at = "load"] ELSE Idle
           b == Cardinality(Between(i))
<1>1. /\ call[c] \in Call /\ Placed(call[c]) /\ call[c].at = "bucket" /\ i \in 1..Len(entries)
      /\ call[c].op \in Kinds \union {"both"} /\ (call[c].op = "both" => n = 1) /\ n \in Nat
      /\ UNCHANGED <<cfgMax, current, clock, holds>>
  BY CallFacts, ZenonT(60) DEF Allow, Placed, Call
<1>2. /\ i \in Nat /\ e \in Entry /\ e.active \in Nat /\ granted[i] \in [Kinds -> Nat]
      /\ cfgMax \in Int /\ holds \in Nat /\ clock \in Nat /\ b \in Nat /\ Sound(e, granted[i], b)
      /\ granted = Put(granted, i, granted[i]) /\ (cfgMax > 0 => e.active <= cfgMax)
  BY <1>1, CallFacts, ZenonT(60) DEF Entry
<1> HIDE DEF e, b
<1>3. k \in Kinds /\ (call[c].op = "both" => k = "subscribe")
  BY <1>1, ZenonT(60) DEF Bucket, Kinds
<1>4. /\ m \in Nat /\ h \in Nat /\ (h > 0 => k = "subscribe")
      /\ m + h = (IF ok THEN n ELSE 0)
  <2>1. CASE toCap
    <3>1. ok /\ m = 0 /\ h = 1 /\ n = 1 /\ k = "subscribe"
      BY <1>1, <1>3, <2>1, ZenonT(60)
    <3> HIDE DEF ok, m, h, n, k
    <3> QED
      BY <3>1
  <2>2. CASE ~toCap
    <3>1. h = 0 /\ n \in Nat /\ m = (IF ok THEN n ELSE 0)
      BY <1>1, <2>2, ZenonT(60)
    <3> HIDE DEF ok, m, h, n, k
    <3> QED
      BY <3>1
  <2> QED
    BY <2>1, <2>2, ZenonT(60)
<1>5. x \in Entry /\ x.active = e.active /\ Sound(x, g, b + h)
  <2> HIDE DEF i, k, n, m, h
  <2> QED
    BY <1>1, <1>2, <1>3, <1>4, SoundAllow, ZenonT(60)
<1>6. g \in [Kinds -> Nat]
  <2>1. granted[i] \in [Kinds -> Nat] /\ k \in Kinds /\ m \in Nat
    BY <1>2, <1>3, <1>4, ZenonT(60)
  <2>2. \A f \in [Kinds -> Nat], j \in Kinds, v \in Nat : [f EXCEPT ![j] = @ + v] \in [Kinds -> Nat]
    OBVIOUS
  <2> HIDE DEF i, k, m
  <2> QED
    BY <2>1, <2>2, ZenonT(60)
<1>7. /\ call' = [call EXCEPT ![c] = d] /\ entries' = Put(entries, i, x)
      /\ granted' = Put(granted, i, g)
  <2>1. call' = [call EXCEPT ![c] = d] /\ entries' = Put(entries, i, x)
    BY ZenonT(60) DEF Allow, Put, e
  <2>2. CASE ok /\ ~toCap
    BY <2>1, <2>2, ZenonT(60) DEF Allow, Put, e
  <2>3. CASE ~(ok /\ ~toCap)
    <3>1. granted' = granted
      BY <2>3, ZenonT(60) DEF Allow, e
    <3>2. m = 0
      BY <2>3, ZenonT(60)
    <3>3. g = granted[i]
      <4>1. \A f \in [Kinds -> Nat], j \in Kinds : [f EXCEPT ![j] = @ + 0] = f
        OBVIOUS
      <4> HIDE DEF i, k, m
      <4> QED
        BY <1>2, <1>3, <3>2, <4>1, ZenonT(60)
    <3>4. granted' = Put(granted, i, g)
      BY <1>2, <3>1, <3>3, ZenonT(60)
    <3> QED
      BY <2>1, <3>4, ZenonT(60)
  <2> QED
    BY <2>1, <2>2, <2>3, ZenonT(60)
<1>8. /\ d \in Call /\ Placed(d) /\ (d.entry = i \/ d.at = "idle")
      /\ Rel(d) = 0 /\ Rel(call[c]) = 0 /\ Hold(d, i) = h /\ Hold(call[c], i) = 0
  <2>1. Rel(call[c]) = 0 /\ Hold(call[c], i) = 0
    BY <1>1, ZenonT(60) DEF Rel, Releases, Hold, Holds
  <2>2. CASE toCap
    <3>1. /\ d \in Call /\ d.at = "load" /\ d.op = call[c].op /\ d.n = n /\ d.entry = i
      BY <1>1, <2>2, ZenonT(60) DEF Call
    <3>2. Placed(d)
      BY <1>1, <2>2, <3>1, ZenonT(60) DEF Placed
    <3>3. Rel(d) = 0 /\ Hold(d, i) = h
      BY <2>2, <3>1 DEF Rel, Releases, Hold, Holds
    <3> QED
      BY <2>1, <3>1, <3>2, <3>3, ZenonT(60)
  <2>3. CASE ~toCap
    <3>1. d = Idle /\ h = 0 /\ Idle.at = "idle"
      BY <2>3, ZenonT(60) DEF Idle
    <3> QED
      BY <1>2, <2>1, <3>1, CallFacts, ZenonT(60)
  <2> QED
    BY <2>2, <2>3, ZenonT(60)
<1> HIDE DEF x, g, d, h, m, i, k, n
<1>9. Sound(x, g, b + Hold(d, i) - Hold(call[c], i))
  <2>1. b + Hold(d, i) - Hold(call[c], i) = b + h
    BY <1>2, <1>4, <1>8
  <2> QED
    BY <1>5, <2>1
<1>10. holds' \in Nat /\ Keeps(c, d, i, x) /\ (cfgMax > 0 => x.active <= cfgMax)
  <2>1. cfgMax > 0 => x.active <= cfgMax
    BY <1>2, <1>5, ZenonT(60)
  <2> QED
    BY <1>1, <1>2, <1>5, <1>8, <2>1, ZenonT(60) DEF Keeps, e
<1> QED
  BY <1>1, <1>5, <1>6, <1>7, <1>8, <1>9, <1>10, EntryStep, ZenonT(60) DEF i, e, b

\* AllowSubscription touches the entry, Refund gives a token back, and Lower ends a
\* ReleaseSubscription.
LEMMA TouchStep ==
    ASSUME Configured, LimiterInv, NEW c \in Callers,
           AllowSubscription(c) \/ Refund(c) \/ Lower(c)
    PROVE  LimiterInv'
<1> DEFINE i == call[c].entry
           e == entries[i]
           b == Cardinality(Between(i))
<1>1. /\ call[c] \in Call /\ Placed(call[c]) /\ i \in 1..Len(entries)
      /\ UNCHANGED <<cfgMax, current, clock, granted, holds>>
  BY CallFacts, ZenonT(60) DEF AllowSubscription, Refund, Lower, Placed
<1>2. /\ i \in Nat /\ e \in Entry /\ e.active \in Nat /\ granted[i] \in [Kinds -> Nat]
      /\ cfgMax \in Int /\ holds \in Nat /\ clock \in Nat /\ b \in Nat /\ Sound(e, granted[i], b)
      /\ granted' = Put(granted, i, granted[i]) /\ (cfgMax > 0 => e.active <= cfgMax)
  BY <1>1, CallFacts, ZenonT(60) DEF Entry
<1>0. /\ e \in Entry /\ e.active \in Nat /\ clock \in Nat /\ holds \in Nat /\ b \in Nat /\ b \in Int
  <2>1. \A v \in Nat : v \in Int
    OBVIOUS
  <2> QED
    BY <1>2, <2>1, ZenonT(60)
<1>3. /\ Idle \in Call /\ Placed(Idle) /\ Idle.at = "idle" /\ Rel(Idle) = 0 /\ Hold(Idle, i) = 0
  BY <1>2, CallFacts, ZenonT(60) DEF Idle
<1> HIDE DEF i, e, b
<1>4. CASE AllowSubscription(c)
  <2> DEFINE x == [e EXCEPT !.lastAccess = clock]
             d == [call[c] EXCEPT !.at = "load"]
  <2>1. /\ call[c].at = "bucket" /\ call[c].op = "subscription"
        /\ call' = [call EXCEPT ![c] = d] /\ entries' = Put(entries, i, x)
    BY <1>4, ZenonT(60) DEF AllowSubscription, Put, i, e
  <2>2. /\ x \in Entry /\ x.active = e.active /\ x.tokens = e.tokens /\ x.lastRefill = e.lastRefill
        /\ x.born = e.born
    BY <1>0 DEF Entry
  <2>3. /\ d \in Call /\ d.at = "load" /\ d.op = "subscription" /\ d.entry = i
    BY <1>1, <2>1, ZenonT(60) DEF Call, i
  <2> HIDE DEF x, d
  <2>4. /\ Placed(d) /\ Rel(d) = 0 /\ Rel(call[c]) = 0 /\ Hold(d, i) = 0 /\ Hold(call[c], i) = 0
    BY <1>1, <2>1, <2>3, ZenonT(60) DEF Placed, Rel, Releases, Hold, Holds
  <2>5. Sound(x, granted[i], b + Hold(d, i) - Hold(call[c], i))
    <3>1. b + Hold(d, i) - Hold(call[c], i) = b
      BY <1>0, <2>4
    <3>3. Sound(x, granted[i], b)
      BY <1>0, <1>2, <2>2, SoundSame, ZenonT(60)
    <3> QED
      BY <3>1, <3>3, ZenonT(60)
  <2>6. holds' \in Nat /\ Keeps(c, d, i, x) /\ (cfgMax > 0 => x.active <= cfgMax)
    BY <1>1, <1>2, <2>2, <2>4, ZenonT(60) DEF Keeps, e
  <2> QED
    BY <1>1, <1>2, <2>1, <2>2, <2>3, <2>4, <2>5, <2>6, EntryStep, ZenonT(60) DEF i, e, b
<1>5. CASE Refund(c)
  <2> DEFINE x == RefundTo(e)
  <2>1. /\ call[c].at = "refund" /\ call[c].op = "both"
        /\ call' = [call EXCEPT ![c] = Idle] /\ entries' = Put(entries, i, x)
    BY <1>1, <1>5, ZenonT(60) DEF Refund, Put, Placed, i, e
  <2>2. x \in Entry /\ x.active = e.active
    BY <1>0, RefundFacts, ZenonT(60)
  <2> HIDE DEF x
  <2>3. Rel(call[c]) = 0 /\ Hold(call[c], i) = 1 /\ b > 0
    <3>1. Holds(call[c], i) /\ ~Releases(call[c])
      BY <2>1, ZenonT(60) DEF Holds, Releases, i
    <3> QED
      BY <1>1, <3>1, CallFacts, ZenonT(60) DEF Hold, Rel, b
  <2>4. Sound(x, granted[i], b + Hold(Idle, i) - Hold(call[c], i))
    <3>1. b + Hold(Idle, i) - Hold(call[c], i) = b - 1
      BY <1>0, <1>3, <2>3
    <3>2. Sound(x, granted[i], b - 1)
      BY <1>2, <2>3, SoundEnd, ZenonT(60) DEF x
    <3> QED
      BY <3>1, <3>2
  <2>5. holds' \in Nat /\ Keeps(c, Idle, i, x) /\ (cfgMax > 0 => x.active <= cfgMax)
    BY <1>1, <1>2, <1>3, <2>2, <2>3, ZenonT(60) DEF Keeps, e
  <2> QED
    BY <1>1, <1>2, <1>3, <2>1, <2>2, <2>4, <2>5, EntryStep, ZenonT(60) DEF i, e, b
<1>6. CASE Lower(c)
  <2> DEFINE x == [e EXCEPT !.active = IF e.active <= 0 THEN e.active ELSE e.active - 1]
  <2>1. /\ call[c].at = "release"
        /\ call' = [call EXCEPT ![c] = Idle] /\ entries' = Put(entries, i, x)
    BY <1>6, ZenonT(60) DEF Lower, Put, i, e
  <2>2. /\ x \in Entry /\ x.tokens = e.tokens /\ x.lastRefill = e.lastRefill
        /\ x.born = e.born /\ x.active <= e.active /\ (e.active > 0 => x.active = e.active - 1)
    BY <1>0 DEF Entry
  <2> HIDE DEF x
  <2>3. Rel(call[c]) = 1 /\ Hold(call[c], i) = 0
    BY <2>1 DEF Rel, Releases, Hold, Holds
  <2>4. Sound(x, granted[i], b + Hold(Idle, i) - Hold(call[c], i))
    <3>1. b + Hold(Idle, i) - Hold(call[c], i) = b
      BY <1>0, <1>3, <2>3
    <3>3. Sound(x, granted[i], b)
      BY <1>0, <1>2, <2>2, SoundSame, ZenonT(60)
    <3> QED
      BY <3>1, <3>3, ZenonT(60)
  <2>5. current = 1 => e.active > 0
    <3> SUFFICES ASSUME current = 1 PROVE e.active > 0
      OBVIOUS
    <3>1. i = 1
      BY <1>1, OneEntry, CallFacts, ZenonT(60)
    <3>2. e.active = holds + Cardinality(Releasing)
      BY <3>1, CallFacts, ZenonT(60) DEF Capped, e
    <3>3. c \in Releasing /\ Releasing \in SUBSET Callers
      BY <2>1, ZenonT(60) DEF Releasing, Releases
    <3>4. Cardinality(Releasing) \in Nat /\ Cardinality(Releasing) # 0
      <4>1. IsFiniteSet(Releasing)
        BY <3>3, FS_Subset, ZenonT(60) DEF Configured
      <4> QED
        BY <3>3, <4>1, FS_CardinalityType, FS_EmptySet
    <3> QED
      BY <1>0, <3>2, <3>4
  <2>6. x.active \in Nat
    BY <2>2 DEF Entry
  <2>7. Keeps(c, Idle, i, x)
    <3> SUFFICES ASSUME current = 1
                 PROVE  x.active + holds + Rel(call[c]) = e.active + holds' + Rel(Idle)
      BY DEF Keeps, e
    <3>1. x.active = e.active - 1 /\ holds' = holds
      BY <1>1, <2>2, <2>5, ZenonT(60)
    <3> QED
      BY <1>0, <1>3, <2>3, <3>1
  <2>8. holds' \in Nat /\ (cfgMax > 0 => x.active <= cfgMax)
    <3>1. x.active <= e.active /\ x.active \in Nat /\ e.active \in Nat /\ cfgMax \in Int
      BY <1>2, <2>2, <2>6, ZenonT(60)
    <3>2. \A u, v \in Nat : \A w \in Int : u <= v /\ v <= w => u <= w
      OBVIOUS
    <3>3. holds' \in Nat /\ (cfgMax > 0 => e.active <= cfgMax)
      BY <1>1, <1>2, ZenonT(60)
    <3> QED
      BY <3>1, <3>2, <3>3, ZenonT(60)
  <2> QED
    BY <1>1, <1>2, <1>3, <2>1, <2>2, <2>4, <2>7, <2>8, EntryStep, ZenonT(60) DEF i, e, b
<1> QED
  BY <1>4, <1>5, <1>6

\* ReleaseSubscription looks the entry up.
LEMMA ReleaseStep ==
    ASSUME Configured, LimiterInv, NEW c \in Callers, Release(c) PROVE LimiterInv'
<1>1. /\ call[c].at = "idle" /\ holds > 0 /\ holds' = holds - 1 /\ holds \in Nat
      /\ UNCHANGED <<cfgMax, entries, current, clock, granted>>
      /\ Types /\ Capped /\ call[c] \in Call /\ Placed(call[c])
  BY CallFacts, ZenonT(60) DEF Release
<1>2. holds' \in Nat /\ (entries = <<>> => holds' = 0)
  BY <1>1 DEF Capped
<1>3. CASE current = None
  <2>1. call' = [call EXCEPT ![c] = call[c]] /\ current # 1
    BY <1>1, <1>3 DEF Release, Types, None
  <2> QED
    BY <1>1, <1>2, <2>1, CallStep, ZenonT(60)
<1>4. CASE current # None
  <2> DEFINE d == [Idle EXCEPT !.op = "release", !.at = "release", !.entry = current]
  <2>1. call' = [call EXCEPT ![c] = d]
    BY <1>4 DEF Release
  <2>2. current \in 1..Len(entries) /\ current \in Nat
    BY <1>1, <1>4 DEF Types, None
  <2>3. /\ d \in Call /\ d.at = "release" /\ d.op = "release" /\ d.entry = current
    BY <2>2, ZenonT(60) DEF Call, Idle, None
  <2> HIDE DEF d
  <2>4. Placed(d)
    BY <2>2, <2>3 DEF Placed
  <2>5. /\ Rel(d) = 1 /\ Rel(call[c]) = 0
        /\ \A i \in 1..Len(entries) : Hold(d, i) = Hold(call[c], i)
    BY <1>1, <2>3 DEF Rel, Releases, Hold, Holds
  <2>6. holds' + Rel(d) = holds + Rel(call[c])
    BY <1>1, <2>5
  <2> QED
    BY <1>1, <1>2, <2>1, <2>3, <2>4, <2>5, <2>6, CallStep, ZenonT(60)
<1> QED
  BY <1>3, <1>4, ZenonT(60)

\* getOrCreate finds the entry in the map, or makes one.
LEMMA LookupStep ==
    ASSUME Configured, LimiterInv, NEW c \in Callers, getOrCreate(c) PROVE LimiterInv'
<1> DEFINE d == [call[c] EXCEPT !.entry = current', !.at = "bucket"]
<1>1. /\ call[c].at = "lookup" /\ UNCHANGED <<cfgMax, clock, holds>>
      /\ Types /\ Capped /\ call[c] \in Call /\ Placed(call[c])
      /\ call[c].op \in Kinds \union {"subscription", "both"}
      /\ (call[c].op = "both" => call[c].n = 1)
  BY CallFacts, ZenonT(60) DEF getOrCreate, Placed
<1>2. call' = [call EXCEPT ![c] = d]
  BY ZenonT(60) DEF getOrCreate
<1>3. ASSUME current' \in Nat
      PROVE  /\ d \in Call /\ d.at = "bucket" /\ d.op = call[c].op /\ d.n = call[c].n
             /\ d.entry = current'
  BY <1>1, <1>3, ZenonT(60) DEF Call
<1> HIDE DEF d
<1>4. CASE current # None
  <2>1. UNCHANGED <<entries, current, granted>> /\ current \in 1..Len(entries) /\ current \in Nat
    BY <1>1, <1>4 DEF getOrCreate, Types, None
  <2>2. /\ d \in Call /\ d.at = "bucket" /\ d.op = call[c].op /\ d.n = call[c].n
        /\ d.entry = current
    BY <1>3, <2>1, ZenonT(60)
  <2>3. Placed(d)
    BY <1>1, <2>1, <2>2, ZenonT(60) DEF Placed
  <2>4. Rel(d) = Rel(call[c]) /\ \A i \in 1..Len(entries) : Hold(d, i) = Hold(call[c], i)
    BY <1>1, <2>2, ZenonT(60) DEF Rel, Releases, Hold, Holds
  <2> QED
    BY <1>1, <1>2, <2>1, <2>2, <2>3, <2>4, CallFacts, CallStep, ZenonT(60) DEF Capped
<1>5. CASE current = None
  <2> DEFINE x == newClientLimits
             z == [k \in Kinds |-> 0]
             N == Len(entries) + 1
  <2>1. /\ entries' = Append(entries, x) /\ granted' = Append(granted, z) /\ current' = Len(entries')
    BY <1>5, ZenonT(60) DEF getOrCreate
  <2>2. /\ x \in Entry /\ x.active = 0 /\ z \in [Kinds -> Nat] /\ Sound(x, z, 0)
    <3>1. \A k \in Kinds : BucketOf(k).burst \in Nat /\ BucketOf(k).rate \in Nat
      BY BucketFacts, ZenonT(60)
    <3>2. clock \in Nat /\ z \in [Kinds -> Nat] /\ \A k \in Kinds : z[k] = 0
      BY <1>1 DEF Types
    <3>3. [k \in Kinds |-> BucketOf(k).burst] \in [Kinds -> Nat] /\ [k \in Kinds |-> clock] \in [Kinds -> Nat]
      BY <3>1, <3>2
    <3>4. /\ x \in Entry /\ x.active = 0 /\ x.born = clock
          /\ \A k \in Kinds : x.tokens[k] = BucketOf(k).burst /\ x.lastRefill[k] = clock
      BY <3>2, <3>3, ZenonT(60) DEF newClientLimits, Entry
    <3>5. ASSUME NEW k \in Kinds
          PROVE  /\ x.tokens[k] <= BucketOf(k).burst
                 /\ z[k] + (IF k = "subscribe" THEN 0 ELSE 0) + x.tokens[k]
                      <= BucketOf(k).burst + BucketOf(k).rate * (x.lastRefill[k] - x.born)
                 /\ x.born <= x.lastRefill[k] /\ x.lastRefill[k] <= clock
      <4> HIDE DEF x, z
      <4>1. BucketOf(k).rate * (x.lastRefill[k] - x.born) = 0
        BY <3>1, <3>2, <3>4
      <4> QED
        BY <3>1, <3>2, <3>4, <4>1
    <3> QED
      BY <3>2, <3>4, <3>5, ZenonT(60) DEF Sound
  <2> HIDE DEF x, z
  <2>3. /\ entries' \in Seq(Entry) /\ Len(entries') = N /\ entries'[N] = x /\ entries' # <<>>
        /\ \A i \in 1..Len(entries) : entries'[i] = entries[i]
        /\ Len(entries) \in Nat
    <3>1. entries \in Seq(Entry)
      BY <1>1, ZenonT(60) DEF Types
    <3>2. Len(entries) \in Nat
      BY <3>1
    <3> QED
      BY <2>1, <2>2, <3>1, <3>2
  <2>4. /\ granted' \in Seq([Kinds -> Nat]) /\ Len(granted') = N /\ granted'[N] = z
        /\ \A i \in 1..Len(entries) : granted'[i] = granted[i]
    <3>1. granted \in Seq([Kinds -> Nat]) /\ Len(granted) = Len(entries)
      BY <1>1, ZenonT(60) DEF Types
    <3> QED
      BY <2>1, <2>2, <3>1
  <2>5. current' = N /\ N \in Nat /\ N > 0 /\ \A i \in 1..N : i \in Nat /\ (i = N \/ i \in 1..Len(entries))
    BY <2>1, <2>3
  <2>6. /\ d \in Call /\ d.at = "bucket" /\ d.op = call[c].op /\ d.n = call[c].n /\ d.entry = N
    BY <1>3, <2>5
  <2>7. Types'
    <3>1. call' \in [Callers -> Call]
      BY <1>1, <1>2, <2>6, ZenonT(60) DEF Types
    <3>2. current' \in 0..Len(entries')
      BY <2>3, <2>5
    <3>3. cfgMax' \in Int /\ clock' \in Nat /\ holds' \in Nat
      BY <1>1, ZenonT(60) DEF Types
    <3> QED
      BY <2>3, <2>4, <3>1, <3>2, <3>3, ZenonT(60) DEF Types
  <2>8. \A q \in Callers : Placed(call[q])'
    <3> SUFFICES ASSUME NEW q \in Callers PROVE Placed(call[q])'
      OBVIOUS
    <3>1. CASE q = c
      <4>1. call'[q] = d
        BY <1>1, <1>2, <3>1, ZenonT(60) DEF Types
      <4>2. N \in 1..Len(entries')
        BY <2>3, <2>5
      <4> QED
        BY <1>1, <2>6, <4>1, <4>2, ZenonT(60) DEF Placed
    <3>2. CASE q # c
      <4>1. call'[q] = call[q] /\ Placed(call[q])
        BY <1>1, <1>2, <3>2 DEF Types, LimiterInv
      <4>2. \A j \in 1..Len(entries) : j \in 1..Len(entries')
        BY <2>3
      <4> QED
        BY <1>1, <4>1, <4>2, ZenonT(60) DEF Placed
    <3> QED
      BY <3>1, <3>2
  <2>9. /\ Rel(d) = 0 /\ Rel(call[c]) = 0
        /\ \A i \in Nat : Hold(d, i) = 0 /\ Hold(call[c], i) = 0
    BY <1>1, <2>6, ZenonT(60) DEF Rel, Releases, Hold, Holds
  <2>10. Capped'
    <3>1. Cardinality(Releasing') = Cardinality(Releasing)
      <4>1. /\ Cardinality(Releasing) \in Nat
            /\ Cardinality(Releasing') = Cardinality(Releasing) + Rel(d) - Rel(call[c])
        BY <1>1, <1>2, CallMoves, ZenonT(60)
      <4> QED
        BY <2>9, <4>1
    <3>2. N = 1 => holds' = 0 /\ Cardinality(Releasing') = 0
      <4> SUFFICES ASSUME N = 1 PROVE holds' = 0 /\ Cardinality(Releasing') = 0
        OBVIOUS
      <4>1. Len(entries) = 0 /\ entries = <<>>
        BY <1>1, <2>3 DEF Types
      <4>2. holds' = 0
        BY <1>1, <4>1 DEF Capped
      <4>3. 1..Len(entries) = {}
        BY <4>1
      <4>4. Releasing = {}
        BY <4>3, ZenonT(60) DEF LimiterInv, Placed, Releasing, Releases
      <4> QED
        BY <3>1, <4>2, <4>4, FS_EmptySet
    <3>3. cfgMax' > 0 => \A i \in 1..Len(entries') : entries'[i].active <= cfgMax'
      <4> SUFFICES ASSUME cfgMax' > 0, NEW i \in 1..N PROVE entries'[i].active <= cfgMax'
        BY <2>3, ZenonT(60)
      <4>1. CASE i = N
        <5>1. entries'[i].active = 0 /\ cfgMax' \in Int
          BY <1>1, <2>2, <2>3, <4>1, ZenonT(60) DEF Types
        <5> QED
          BY <5>1
      <4>2. CASE i \in 1..Len(entries)
        BY <1>1, <2>3, <4>2, ZenonT(60) DEF Capped
      <4> QED
        BY <2>5, <4>1, <4>2, ZenonT(60)
    <3>4. current' = 1 => entries'[1].active = holds' + Cardinality(Releasing')
      BY <2>2, <2>3, <2>5, <3>2
    <3> QED
      BY <2>3, <2>5, <3>3, <3>4, ZenonT(60) DEF Capped
  <2>11. \A i \in 1..Len(entries') : Sound(entries[i], granted[i], Cardinality(Between(i)))'
    <3> SUFFICES ASSUME NEW i \in 1..N
                 PROVE  Sound(entries'[i], granted'[i], Cardinality(Between(i)'))
      BY <1>1, <2>3, ZenonT(60) DEF Sound
    <3>0. i \in Nat /\ (i = N \/ i \in 1..Len(entries))
      BY <2>5, ZenonT(60)
    <3>1. Cardinality(Between(i)') = Cardinality(Between(i)) /\ Cardinality(Between(i)) \in Nat
      <4>1. /\ Cardinality(Between(i)) \in Nat
            /\ Cardinality(Between(i)') = Cardinality(Between(i)) + Hold(d, i) - Hold(call[c], i)
        BY <1>1, <1>2, <3>0, CallMoves, ZenonT(60)
      <4> QED
        BY <2>9, <3>0, <4>1
    <3>2. CASE i \in 1..Len(entries)
      BY <2>3, <2>4, <3>1, <3>2, ZenonT(60) DEF LimiterInv
    <3>3. CASE i = N
      <4>1. N \notin 1..Len(entries)
        BY <2>3
      <4>2. Between(i) = {}
        BY <3>3, <4>1, ZenonT(60) DEF LimiterInv, Placed, Between
      <4>3. Cardinality(Between(i)) = 0
        BY <4>2, FS_EmptySet, ZenonT(60)
      <4> QED
        BY <2>2, <2>3, <2>4, <3>1, <3>3, <4>3, ZenonT(60)
    <3> QED
      BY <3>0, <3>2, <3>3
  <2> QED
    BY <2>7, <2>8, <2>10, <2>11 DEF LimiterInv
<1> QED
  BY <1>4, <1>5

\* The entry leaves the map, or time goes by.
LEMMA RemovalStep ==
    ASSUME Configured, LimiterInv, RemoveClient \/ evictStale \/ ClockStep PROVE LimiterInv'
<1>1. /\ UNCHANGED <<cfgMax, entries, call, granted, holds>>
      /\ \/ current' = None /\ clock' = clock
         \/ current' = current /\ clock' = clock + 1
  BY ZenonT(60) DEF RemoveClient, evictStale, ClockStep
<1>2. Types /\ Capped
  BY DEF LimiterInv
<1>3. clock \in Nat /\ clock' \in Nat /\ clock <= clock' /\ Len(entries) \in Nat
  BY <1>1, <1>2 DEF Types
<1>4. Types'
  BY <1>1, <1>2, <1>3 DEF Types, None
<1>5. Capped'
  BY <1>1, <1>2 DEF Capped, None, Releasing
<1>6. \A q \in Callers : Placed(call[q])'
  BY <1>1, ZenonT(60) DEF LimiterInv, Placed
<1>7. ASSUME NEW i \in 1..Len(entries)
      PROVE  Sound(entries[i], granted[i], Cardinality(Between(i)))'
  <2>1. Between(i)' = Between(i) /\ entries[i] \in Entry
    BY <1>1, <1>2 DEF Between, Types
  <2>2. Sound(entries[i], granted[i], Cardinality(Between(i)))
    BY DEF LimiterInv
  <2>3. \A k \in Kinds : entries[i].lastRefill[k] \in Nat
    BY <2>1, ZenonT(60) DEF Entry
  <2>4. \A k \in Kinds : entries[i].lastRefill[k] <= clock'
    BY <1>3, <2>2, <2>3 DEF Sound
  <2> QED
    BY <1>1, <2>1, <2>2, <2>4, ZenonT(60) DEF Sound
<1> QED
  BY <1>1, <1>4, <1>5, <1>6, <1>7 DEF LimiterInv

\* For any callers, rates, bursts and caps, however calls, refunds, releases, removals
\* and evictions interleave: no bucket lets more through than its burst and its rate
\* allow (AllowN, Refund), no entry exceeds the cap, and the counter of a client that was
\* never removed is what it holds (AllowSubscription, ReleaseSubscription).
THEOREM LimiterCorrect == ASSUME Configured PROVE Spec => []LimitsHold
<1>1. Init => LimiterInv
  <2> SUFFICES ASSUME Init PROVE LimiterInv
    OBVIOUS
  <2>1. /\ entries = <<>> /\ granted = <<>> /\ current = 0 /\ clock = 0 /\ holds = 0
        /\ cfgMax \in Int /\ call = [c \in Callers |-> Idle]
    BY DEF Init, None, Configured
  <2>2. Idle \in Call
    BY DEF Idle, Call, None
  <2>3. Types /\ Capped
    BY <2>1, <2>2 DEF Types, Capped, None
  <2>4. \A c \in Callers : Placed(call[c])
    BY <2>1 DEF Placed, Idle
  <2> QED
    BY <2>1, <2>3, <2>4 DEF LimiterInv
<1>2. LimiterInv /\ [Next]_vars => LimiterInv'
  <2> SUFFICES ASSUME LimiterInv, [Next]_vars PROVE LimiterInv'
    OBVIOUS
  <2>1. CASE UNCHANGED vars
    <3>1. UNCHANGED <<cfgMax, entries, current, call, clock, granted, holds>>
      BY <2>1 DEF vars
    <3>2. Types' /\ Capped'
      BY <3>1, ZenonT(60) DEF LimiterInv, Types, Capped, Releasing
    <3>3. \A c \in Callers : Placed(call[c])'
      BY <3>1, ZenonT(60) DEF LimiterInv, Placed
    <3>4. ASSUME NEW i \in 1..Len(entries)
          PROVE  Sound(entries[i], granted[i], Cardinality(Between(i)))'
      <4>1. Between(i)' = Between(i)
        BY <3>1 DEF Between
      <4> QED
        BY <3>1, <4>1, ZenonT(60) DEF LimiterInv, Sound
    <3> QED
      BY <3>1, <3>2, <3>3, <3>4, ZenonT(60) DEF LimiterInv
  <2> QED
    BY <2>1, BeginStep, LookupStep, AllowStep, TouchStep, CapLoadStep, CapCASStep,
       ReleaseStep, RemovalStep, ZenonT(60) DEF Next
<1>3. LimiterInv => LimitsHold
  <2> SUFFICES ASSUME LimiterInv PROVE RateHolds /\ CapHolds
    BY DEF LimitsHold
  <2>1. Types /\ Capped /\ \A i \in 1..Len(entries) : entries[i] \in Entry
    BY DEF LimiterInv, Types
  <2>2. RateHolds
    <3> SUFFICES ASSUME NEW i \in 1..Len(entries), NEW k \in Kinds
                 PROVE  /\ entries[i].tokens[k] \in 0..BucketOf(k).burst
                        /\ granted[i][k] + (IF k = "subscribe" THEN Cardinality(Between(i)) ELSE 0)
                             + entries[i].tokens[k]
                             <= BucketOf(k).burst
                                 + BucketOf(k).rate * (entries[i].lastRefill[k] - entries[i].born)
      BY ZenonT(60) DEF RateHolds
    <3>1. entries[i].tokens[k] \in Nat /\ BucketOf(k).burst \in Nat
      BY <2>1, BucketFacts DEF Entry
    <3>2. Sound(entries[i], granted[i], Cardinality(Between(i)))
      BY DEF LimiterInv
    <3> QED
      BY <3>1, <3>2 DEF Sound
  <2>3. CapHolds
    <3>1. \A i \in 1..Len(entries) : entries[i].active \in Nat
      BY <2>1 DEF Entry
    <3>2. cfgMax > 0 => \A i \in 1..Len(entries) : entries[i].active \in 0..cfgMax
      BY <2>1, <3>1 DEF Capped, Types
    <3>3. Releasing = {c \in Callers : call[c].at = "release"}
      BY DEF Releasing, Releases
    <3> QED
      BY <2>1, <3>2, <3>3 DEF Capped, CapHolds
  <2> QED
    BY <2>2, <2>3
<1> QED
  BY <1>1, <1>2, <1>3, PTL DEF Spec
=============================================================================
