---------------------------- MODULE Aggregation ----------------------------
(***************************************************************************)
(* The aggregation engine (internal/aggregation) for one symbol: callers   *)
(* of ProcessTick that load or store the symbol's aggregator and then add  *)
(* their tick under its lock, the sweeper that evicts an aggregator, resets*)
(* the daily VWAP and flushes finished candles into a bounded channel, and *)
(* the workers that publish from that channel.  Times are integers; a tick *)
(* carries the exchange's time, the sweeper uses its own clock.  One window*)
(* size stands for all: an aggregator treats its windows alike.            *)
(***************************************************************************)
EXTENDS Integers, Sequences, FiniteSets, SequencesExt, FiniteSetsExt, Functions, Folds

CONSTANTS
    Callers, Workers,
    Prices, Volumes,
    Delays,         \* how far a tick's timestamp is behind the clock
    WindowSize,
    Day,            \* 24 hours
    Buffer,         \* capacity of publishCh (10000 in the code)
    MaxTicks, MaxTime   \* bounds: ticks in all, clock

None == 0

VARIABLES
    aggs,       \* every symbolAggregator ever stored, in that order
    current,    \* the one the symbols map holds, or None
    tick,       \* caller -> the tick it is processing, or NoTick
    held,       \* caller -> the aggregator it loaded, or None
    clock, sweepAt,     \* the sweeper's pending ticker time, or -1
    publishCh, working, published, vwaps,
    dropped, evicted,   \* ticks in candles dropped at the channel, lost by eviction
    accepted,           \* ticks some AddTick accepted
    given

vars == <<aggs, current, tick, held, clock, sweepAt, publishCh, working, published, vwaps,
          dropped, evicted, accepted, given>>

NoTick == [ts |-> -1, price |-> 0, volume |-> 0]
NoCandle == [start |-> -1, open |-> 0, high |-> 0, low |-> 0, close |-> 0, volume |-> 0, count |-> 0]
NoVWAP == [pv |-> 0, volume |-> 0]

Init ==
    /\ aggs = <<>> /\ current = None /\ clock = 0 /\ sweepAt = -1
    /\ tick = [c \in Callers |-> NoTick] /\ held = [c \in Callers |-> None]
    /\ publishCh = <<>> /\ working = [w \in Workers |-> NoCandle] /\ published = <<>>
    /\ vwaps = {} /\ dropped = 0 /\ evicted = 0 /\ accepted = 0 /\ given = 0

newSymbolAggregator(now) ==
    [deleted |-> FALSE, states |-> {}, vwap |-> NoVWAP,
     lastUpdate |-> now, lastVWAPReset |-> now, lastVWAPPublish |-> now]

Ticks(candles) == FoldSet(LAMBDA c, n : c.count + n, 0, candles)
--------------------------------------------------------------------------
(* ProcessTick                                                             *)

Process(c, t) ==
    /\ tick[c] = NoTick /\ given < MaxTicks /\ t.ts >= 0
    /\ tick' = [tick EXCEPT ![c] = t] /\ given' = given + 1
    /\ UNCHANGED <<aggs, current, held, clock, sweepAt, publishCh, working, published, vwaps,
                   dropped, evicted, accepted>>

\* Load, or LoadOrStore with a fresh aggregator when there is none.
Load(c) ==
    /\ tick[c] # NoTick /\ held[c] = None
    /\ IF current # None
       THEN held' = [held EXCEPT ![c] = current] /\ UNCHANGED <<aggs, current>>
       ELSE /\ aggs' = Append(aggs, newSymbolAggregator(clock))
            /\ current' = Len(aggs') /\ held' = [held EXCEPT ![c] = current']
    /\ UNCHANGED <<tick, clock, sweepAt, publishCh, working, published, vwaps,
                   dropped, evicted, accepted, given>>

alignTime(ts) == (ts \div WindowSize) * WindowSize

\* OHLCAggregator.AddTick: the candles with the tick in its window's candle,
\* unless the window ended before currentTime.
AddToWindow(states, t, currentTime) ==
    LET start == alignTime(t.ts)
        fresh == [start |-> start, open |-> t.price, high |-> t.price, low |-> t.price,
                  close |-> t.price, volume |-> 0, count |-> 0]
        had == {s \in states : s.start = start}
        s == IF had = {} THEN fresh ELSE CHOOSE x \in had : TRUE
    IN IF currentTime > start + WindowSize THEN states
       ELSE (states \ had) \cup
            {[s EXCEPT !.high = Max({@, t.price}), !.low = Min({@, t.price}), !.close = t.price,
                       !.volume = @ + t.volume, !.count = @ + 1]}

\* VWAPAggregator.AddTick: exact sums, which the code's compensated sums approximate.
AddToVWAP(v, t) == [pv |-> v.pv + t.price * t.volume, volume |-> v.volume + t.volume]

\* symbolAggregator.AddTick on a live aggregator: lastUpdate becomes the tick's
\* own time before the windows compare the tick with it; a VWAP is published
\* one unit of tick time or more after the last.
Added(a, t) ==
    [a EXCEPT !.lastUpdate = t.ts, !.states = AddToWindow(@, t, t.ts),
              !.vwap = AddToVWAP(@, t),
              !.lastVWAPPublish = IF t.ts - @ >= 1 THEN t.ts ELSE @]

\* Mutation: a deleted aggregator takes the tick.
AddTick_Deleted(c) ==
    LET t == tick[c] a == aggs[held[c]] IN
    /\ held[c] # None
    /\ held' = [held EXCEPT ![c] = None]
    /\ tick' = [tick EXCEPT ![c] = NoTick] /\ accepted' = accepted + 1
    /\ aggs' = [aggs EXCEPT ![held[c]] = Added(a, t)]
    /\ UNCHANGED <<current, clock, sweepAt, publishCh, working, published, vwaps,
                   dropped, evicted, given>>

\* AddTick; refused by an aggregator the sweeper deleted, after which
\* ProcessTick loads again.
AddTick(c) ==
    LET t == tick[c] a == aggs[held[c]] IN
    /\ held[c] # None
    /\ held' = [held EXCEPT ![c] = None]
    /\ IF a.deleted
       THEN UNCHANGED <<aggs, tick, accepted, vwaps>>
       ELSE /\ aggs' = [aggs EXCEPT ![held[c]] = Added(a, t)]
            /\ vwaps' = IF t.ts - a.lastVWAPPublish >= 1
                        THEN vwaps \cup {AddToVWAP(a.vwap, t)} ELSE vwaps
            /\ tick' = [tick EXCEPT ![c] = NoTick] /\ accepted' = accepted + 1
    /\ UNCHANGED <<current, clock, sweepAt, publishCh, working, published,
                   dropped, evicted, given>>

--------------------------------------------------------------------------
(* The sweeper and the workers                                             *)

\* Time passes; the ticker keeps one unread time.
ClockStep ==
    /\ clock < MaxTime /\ clock' = clock + 1
    /\ sweepAt' = IF sweepAt = -1 THEN clock' ELSE sweepAt
    /\ UNCHANGED <<aggs, current, tick, held, publishCh, working, published, vwaps,
                   dropped, evicted, accepted, given>>

\* FlushStagnant: the candles whose window ended before the sweep.
Stagnant(states, now) == {s \in states : now > s.start + WindowSize}

\* sweepStagnant on the symbol's aggregator, under its lock: evict it, or reset
\* the VWAP on a new day and send the finished candles, in the map's random
\* order, to the channel as far as it has room.
sweepStagnant ==
    LET a == aggs[current]
        done == Stagnant(a.states, sweepAt)
        room == Buffer - Len(publishCh)
        newDay == a.lastVWAPReset \div Day # sweepAt \div Day
    IN
    /\ sweepAt >= 0 /\ sweepAt' = -1
    /\ IF current = None
       THEN UNCHANGED <<aggs, current, evicted, publishCh, dropped>>
       ELSE IF sweepAt - a.lastUpdate > Day
       THEN /\ aggs' = [aggs EXCEPT ![current].deleted = TRUE]
            /\ current' = None /\ evicted' = evicted + Ticks(a.states)
            /\ UNCHANGED <<publishCh, dropped>>
       ELSE /\ aggs' = [aggs EXCEPT ![current] =
                           [@ EXCEPT !.states = @ \ done,
                                     !.vwap = IF newDay THEN NoVWAP ELSE @,
                                     !.lastVWAPReset = IF newDay THEN sweepAt ELSE @]]
            /\ \E order \in SetToSeqs(done) :
                 LET sent == SubSeq(order, 1, Min({room, Len(order)})) IN
                 /\ publishCh' = publishCh \o sent
                 /\ dropped' = dropped + Ticks(done \ ToSet(sent))
            /\ UNCHANGED <<current, evicted>>
    /\ UNCHANGED <<tick, held, clock, working, published, vwaps, accepted, given>>

\* A worker receives a candle.  Cancelling the context only stops workers and
\* sweeper, as behaviours that end early do.
Take(w) ==
    /\ publishCh # <<>> /\ working[w] = NoCandle
    /\ working' = [working EXCEPT ![w] = Head(publishCh)] /\ publishCh' = Tail(publishCh)
    /\ UNCHANGED <<aggs, current, tick, held, clock, sweepAt, published, vwaps,
                   dropped, evicted, accepted, given>>

PublishOHLC(w) ==
    /\ working[w] # NoCandle
    /\ published' = Append(published, working[w])
    /\ working' = [working EXCEPT ![w] = NoCandle]
    /\ UNCHANGED <<aggs, current, tick, held, clock, sweepAt, publishCh, vwaps,
                   dropped, evicted, accepted, given>>

Next ==
    \/ \E c \in Callers :
         \/ \E p \in Prices, v \in Volumes, d \in Delays :
              Process(c, [ts |-> clock - d, price |-> p, volume |-> v])
         \/ Load(c) \/ AddTick(c)
    \/ \E w \in Workers : Take(w) \/ PublishOHLC(w)
    \/ ClockStep \/ sweepStagnant

Spec == Init /\ [][Next]_vars
--------------------------------------------------------------------------
\* The map's aggregator is the only one that is not deleted, however ProcessTick
\* and the sweeper's eviction interleave (the retry loop of ProcessTick).
OneAggregator ==
    \A i \in 1..Len(aggs) : aggs[i].deleted <=> i # current

\* Every tick an aggregator accepted is in exactly one place: an open candle of
\* the live aggregator, a candle on its way to or past the publisher, a candle
\* counted as dropped, or a candle lost with an evicted aggregator.
TicksConserved ==
    accepted = evicted + dropped
             + FoldSeq(LAMBDA s, n : s.count + n, 0, publishCh \o published)
             + FoldSet(LAMBDA w, n : working[w].count + n, 0, Workers)
             + (IF current = None THEN 0 ELSE Ticks(aggs[current].states))

\* Every candle that leaves the engine spans its open and close, its window is
\* aligned and over, and it counts at least one tick (AddTick, FlushStagnant).
CandlesSound ==
    \A i \in 1..Len(published) : LET s == published[i] IN
        /\ s.low <= s.open /\ s.open <= s.high /\ s.low <= s.close /\ s.close <= s.high
        /\ s.count >= 1 /\ s.start % WindowSize = 0 /\ s.start + WindowSize < clock

\* A published VWAP lies between the lowest and the highest price ever sent.
VWAPsBounded ==
    \A v \in vwaps : Min(Prices) * v.volume <= v.pv /\ v.pv <= Max(Prices) * v.volume
=============================================================================
