------------------------------ MODULE Recorder ------------------------------
(***************************************************************************)
(* The recorder (internal/recorder): callers hand events to a Go channel,  *)
(* one loop gathers them into batches, and every batch is written to the   *)
(* store by a goroutine of its own, at most SemCap at a time.  The slices  *)
(* of the batches are recycled through a pool.  Cancelling the context     *)
(* closes the channel, flushes what is left and ends the loop.             *)
(*                                                                         *)
(* An event is its number in the order of timestamp and sequence number.   *)
(* The store is the one of storage/memory.go (Memory), or the adapter of   *)
(* eventlog/store_adapter.go, whose writes may fail and fail once their    *)
(* context is cancelled; what its retries leave in the table is EventLog.  *)
(***************************************************************************)
EXTENDS Integers, Sequences, FiniteSets, FiniteSetsExt, SequencesExt

CONSTANTS
    Callers,       \* goroutines that call RecordEvent
    Memory,        \* the store is InMemoryStore
    maxSize,       \* events of a full batch
    SemCap,        \* capacity of sem (10 in the code)
    chunkSize,     \* events per page of a read
    MaxEvents      \* bound: events recorded

VARIABLES
    adding,        \* caller -> the event it is about to send, 0 if none
    offered,       \* events given to RecordEvent
    eventCh,       \* the channel, of capacity 2 * maxSize
    chClosed,
    cancelled,     \* the context of Start is done
    loop,          \* "select", "full" or "final" (dispatching), "ended"
    slices,        \* slice -> the events in it
    buffer,        \* the slice the loop fills
    pool,          \* slices that may be used again
    writers,       \* goroutines of dispatchProcess: slice, context, position
    store,         \* the events of successful writes
    refused,       \* events of batches whose write returned an error
    panicked,      \* a caller sent on the closed channel
    it             \* the iterator of one reader

recVars == <<adding, offered, eventCh, chClosed, cancelled, loop, slices, buffer,
             pool, writers, store, refused, panicked, it>>

\* More slices than are ever in use: the loop's and one for each writer.
Slices == 1..SemCap + 1
NoRead == [at |-> "idle", rest |-> <<>>, got |-> <<>>, owed |-> {}]

Init ==
    /\ adding = [c \in Callers |-> 0] /\ offered = {} /\ eventCh = <<>>
    /\ chClosed = FALSE /\ cancelled = FALSE /\ loop = "select"
    /\ slices = [s \in Slices |-> <<>>] /\ buffer = 1 /\ pool = {} /\ writers = {}
    /\ store = <<>> /\ refused = {} /\ panicked = FALSE /\ it = NoRead

-----------------------------------------------------------------------------
(* RecordEvent                                                             *)

\* A caller enters Batcher.Add with an event nobody has recorded yet.
RecordEvent(c) ==
    /\ ~panicked /\ adding[c] = 0
    /\ \E e \in 1..MaxEvents \ offered :
          adding' = [adding EXCEPT ![c] = e] /\ offered' = offered \union {e}
    /\ UNCHANGED <<eventCh, chClosed, cancelled, loop, slices, buffer, pool, writers,
                   store, refused, panicked, it>>

\* The send of Add: it blocks on a full channel and panics on a closed one.
Send(c) ==
    /\ ~panicked /\ adding[c] # 0
    /\ IF chClosed THEN panicked' = TRUE /\ UNCHANGED eventCh
       ELSE /\ Len(eventCh) < 2 * maxSize
            /\ eventCh' = Append(eventCh, adding[c]) /\ UNCHANGED panicked
    /\ adding' = [adding EXCEPT ![c] = 0]
    /\ UNCHANGED <<offered, chClosed, cancelled, loop, slices, buffer, pool, writers,
                   store, refused, it>>

Cancel ==
    /\ ~panicked /\ ~cancelled /\ cancelled' = TRUE
    /\ UNCHANGED <<adding, offered, eventCh, chClosed, loop, slices, buffer, pool,
                   writers, store, refused, panicked, it>>

-----------------------------------------------------------------------------
(* The loop of Batcher.Start                                               *)

LoopReceive ==
    /\ ~panicked /\ loop = "select" /\ eventCh # <<>>
    /\ slices' = [slices EXCEPT ![buffer] = Append(@, Head(eventCh))]
    /\ eventCh' = Tail(eventCh)
    /\ loop' = IF Len(slices'[buffer]) >= maxSize THEN "full" ELSE "select"
    /\ UNCHANGED <<adding, offered, chClosed, cancelled, buffer, pool, writers, store,
                   refused, panicked, it>>

\* The ticker: a started batch is dispatched although it is not full.
LoopTick ==
    /\ ~panicked /\ loop = "select" /\ slices[buffer] # <<>> /\ loop' = "full"
    /\ UNCHANGED <<adding, offered, eventCh, chClosed, cancelled, slices, buffer, pool,
                   writers, store, refused, panicked, it>>

\* Mutation: what is still in the channel is not read at the end.
LoopDone_NoDrain ==
    /\ ~panicked /\ loop = "select" /\ cancelled
    /\ chClosed' = TRUE
    /\ loop' = IF slices[buffer] = <<>> THEN "ended" ELSE "final"
    /\ UNCHANGED <<adding, offered, eventCh, cancelled, slices, buffer, pool, writers,
                   store, refused, panicked, it>>

\* ctx.Done(): close the channel, move what it holds to the batch.
LoopDone ==
    /\ ~panicked /\ loop = "select" /\ cancelled
    /\ chClosed' = TRUE /\ eventCh' = <<>>
    /\ slices' = [slices EXCEPT ![buffer] = @ \o eventCh]
    /\ loop' = IF slices'[buffer] = <<>> THEN "ended" ELSE "final"
    /\ UNCHANGED <<adding, offered, cancelled, buffer, pool, writers, store, refused,
                   panicked, it>>

\* The slices pool.Get may return: one of the pool, or a new one when it is empty.
Spare(p, ws) == IF p # {} THEN p ELSE {Min(Slices \ {w.slice : w \in ws})}

\* Mutation: the slice goes back to the pool before its batch is written.
Dispatch_Early ==
    /\ ~panicked /\ loop \in {"full", "final"} /\ Cardinality(writers) < SemCap
    /\ LET ws == writers \union {[slice |-> buffer, background |-> loop = "final",
                                  at |-> "write"]}
       IN  /\ writers' = ws
           /\ IF loop = "final"
              THEN loop' = "ended" /\ UNCHANGED <<buffer, pool, slices>>
              ELSE \E s \in Spare(pool \union {buffer}, ws) :
                     /\ buffer' = s /\ pool' = (pool \union {buffer}) \ {s}
                     /\ slices' = [slices EXCEPT ![s] = <<>>] /\ loop' = "select"
    /\ UNCHANGED <<adding, offered, eventCh, chClosed, cancelled, store, refused,
                   panicked, it>>

\* dispatchProcess: a place in sem, a goroutine for the batch, and an empty
\* slice for the next one.  The last batch has a context of its own.
Dispatch ==
    /\ ~panicked /\ loop \in {"full", "final"} /\ Cardinality(writers) < SemCap
    /\ LET ws == writers \union {[slice |-> buffer, background |-> loop = "final",
                                  at |-> "write"]}
       IN  /\ writers' = ws
           /\ IF loop = "final"
              THEN loop' = "ended" /\ UNCHANGED <<buffer, pool, slices>>
              ELSE \E s \in Spare(pool, ws) :
                     /\ buffer' = s /\ pool' = pool \ {s}
                     /\ slices' = [slices EXCEPT ![s] = <<>>] /\ loop' = "select"
    /\ UNCHANGED <<adding, offered, eventCh, chClosed, cancelled, store, refused,
                   panicked, it>>

-----------------------------------------------------------------------------
(* The goroutine of a batch                                                *)

\* WriteBatch of the memory store appends and sorts; the adapter keeps the
\* order of its batches (the queries sort).
Stored(batch) == IF Memory THEN SortSeq(store \o batch, <)
                           ELSE store \o batch

Written(w) == writers' = (writers \ {w}) \union {[w EXCEPT !.at = "recycle"]}

Write(w) ==
    /\ ~panicked /\ w.at = "write" /\ Written(w)
    /\ Memory \/ w.background \/ ~cancelled
    /\ store' = Stored(slices[w.slice])
    /\ UNCHANGED <<adding, offered, eventCh, chClosed, cancelled, loop, slices, buffer,
                   pool, refused, panicked, it>>

\* The write fails; dispatchProcess drops the error and the batch.
WriteFails(w) ==
    /\ ~panicked /\ w.at = "write" /\ Written(w)
    /\ ~Memory /\ refused' = refused \union ToSet(slices[w.slice])
    /\ UNCHANGED <<adding, offered, eventCh, chClosed, cancelled, loop, slices, buffer,
                   pool, store, panicked, it>>

\* The slice goes back to the pool, the place in sem is released.
Recycle(w) ==
    /\ ~panicked /\ w.at = "recycle" /\ writers' = writers \ {w}
    /\ pool' = pool \union {w.slice} /\ slices' = [slices EXCEPT ![w.slice] = <<>>]
    /\ UNCHANGED <<adding, offered, eventCh, chClosed, cancelled, loop, buffer, store,
                   refused, panicked, it>>

-----------------------------------------------------------------------------
(* A reader of the memory store                                            *)

\* ReadStream: the stored events between from and to, copied under the lock.
ReadStream ==
    /\ ~panicked /\ Memory /\ it.at = "idle"
    /\ \E from, to \in 1..MaxEvents :
          LET found == SelectSeq(store, LAMBDA e : from <= e /\ e <= to)
          IN  it' = [at |-> "open", rest |-> found, got |-> <<>>, owed |-> ToSet(found)]
    /\ UNCHANGED <<adding, offered, eventCh, chClosed, cancelled, loop, slices, buffer,
                   pool, writers, store, refused, panicked>>

\* memoryIterator.Next; an empty page is the end, and the reader closes.
IteratorNext ==
    /\ ~panicked /\ it.at = "open"
    /\ LET n == IF chunkSize < Len(it.rest) THEN chunkSize ELSE Len(it.rest)
       IN  it' = IF n = 0 THEN [it EXCEPT !.at = "closed"]
                 ELSE [it EXCEPT !.got = @ \o SubSeq(it.rest, 1, n),
                                 !.rest = SubSeq(@, n + 1, Len(@))]
    /\ UNCHANGED <<adding, offered, eventCh, chClosed, cancelled, loop, slices, buffer,
                   pool, writers, store, refused, panicked>>

-----------------------------------------------------------------------------
Loop == LoopReceive \/ LoopTick \/ LoopDone \/ Dispatch
Writer == \E w \in writers : Write(w) \/ WriteFails(w) \/ Recycle(w)

Next ==
    \/ \E c \in Callers : RecordEvent(c) \/ Send(c)
    \/ Cancel \/ Loop \/ Writer \/ ReadStream \/ IteratorNext

\* The goroutines run on; nobody has to record, to cancel or to read.  A select
\* that finds its context done again and again takes that case in the end.
Fairness == /\ WF_recVars(Loop) /\ WF_recVars(Writer) /\ SF_recVars(LoopDone)
            /\ WF_recVars(IteratorNext)

Spec == Init /\ [][Next]_recVars /\ Fairness

-----------------------------------------------------------------------------
\* Batcher.Wait may return: the loop and all writes have ended.
WaitOver == loop = "ended" /\ writers = {}

InBatches == UNION {ToSet(slices[s]) : s \in {buffer} \union {w.slice : w \in writers}}
Sending == {adding[c] : c \in Callers} \ {0}

TypeOK ==
    /\ loop \in {"select", "full", "final", "ended"}
    /\ Len(eventCh) <= 2 * maxSize /\ Cardinality(writers) <= SemCap

\* An accepted event is in the channel, in a batch, stored, or of a batch that was
\* refused, however batches overtake each other and slices are recycled; none is
\* stored twice (Batcher.Start, dispatchProcess).
EventsKept ==
    /\ panicked \/ offered \ Sending =
          ToSet(eventCh) \union InBatches \union ToSet(store) \union refused
    /\ IsInjective(store)

\* When Wait has returned every accepted event is stored or was refused, and the
\* memory store refuses none (Batcher.Wait, the drain of Start).
WaitMeansStored ==
    WaitOver /\ ~panicked => /\ offered \ Sending = ToSet(store) \union refused
                             /\ Memory => refused = {}

\* A caller is only in danger of a panic once the context is cancelled.
PanicNeedsCancel == panicked => cancelled

\* The memory store is in the order of timestamps although writers finish in any
\* order, and a read returns what was stored when it began, in that order
\* (WriteBatch, ReadStream, memoryIterator.Next).
StoreSorted ==
    /\ Memory => \A i, j \in DOMAIN store : i < j => store[i] < store[j]
    /\ it.at = "closed" => ToSet(it.got) = it.owed
    /\ \A i, j \in DOMAIN it.got : i < j => it.got[i] < it.got[j]

Safe == TypeOK /\ EventsKept /\ WaitMeansStored /\ PanicNeedsCancel /\ StoreSorted

\* Accepted events that are neither stored nor refused, or a cancelled recorder
\* that has not ended.
Pending ==
    /\ ~panicked
    /\ \/ cancelled /\ ~WaitOver
       \/ ~(offered \ Sending \subseteq ToSet(store) \union refused)

\* Accepted events get to the store or their write fails, without waiting for a
\* full batch, and a cancelled recorder ends, so that Wait returns (the ticker of
\* Start, dispatchProcess, Wait).
RecorderEnds == Pending ~> ~Pending
=============================================================================
