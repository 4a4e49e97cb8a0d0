------------------------------ MODULE EventLog ------------------------------
(***************************************************************************)
(* The persistent event log: the PersistingPublisher that buffers events   *)
(* and writes them in batches before it forwards them, the Postgres        *)
(* repository with its chunks, retries and daily partitions, and the       *)
(* storeIterator that reads the table in pages while writers add to it.    *)
(* A time is a day number, so that a time also names its partition.        *)
(***************************************************************************)
EXTENDS Integers, FiniteSets, Sequences, SequencesExt, FiniteSetsExt

CONSTANTS
    Publishers,   \* callers of PersistingPublisher.Publish
    Script,       \* Script[p]: the events p publishes, in order
    Times,        \* Times[e]: the time a quote or bar carries, 0 for another event
    SymbolOf,     \* SymbolOf[e]
    BatchSize,    \* WithBatchSize
    ChunkSize,    \* events per INSERT (5000 in the code)
    MaxRetries,   \* maxRetries
    Ahead,        \* partitions are made for today and Ahead days more
    PageMax,      \* largest page of QueryEvents (1000 in the code)
    Streams,      \* calls of ReadStream: <<symbol, from, to, chunkSize>>, 0 for an open end
    MaxDay, MaxFaults   \* bounds: days that pass, failures of the database

Loop == "flushLoop"
Closer == "Close"
Writers == Publishers \cup {Loop, Closer}
Events == UNION {Range(Script[p]) : p \in Publishers}

VARIABLES
    buffer, closed, dropped,  \* the fields of PersistingPublisher
    left,       \* left[p]: the events p has still to publish
    arrived,    \* arrived[e]: the day of bufferedEvent.arrivedAt
    w,          \* w[x]: where a writer stands, see Idle
    forwarded,  \* events given to the inner publisher, in order
    failed,     \* events whose loss was added to dropped
    table,      \* committed rows of market_events
    nextID,     \* the BIGSERIAL sequence
    parts, today, open,   \* partitions, current day, whether the pool is open
    faults,     \* failures so far
    iter        \* the storeIterator, see NoIter

pubVars == <<buffer, closed, dropped, left, arrived, w, forwarded, failed>>
dbVars == <<table, nextID, parts, today, open, faults>>
vars == <<buffer, closed, dropped, left, arrived, w, forwarded, failed,
          table, nextID, parts, today, open, faults, iter>>

Idle == [pc |-> "idle", batch |-> <<>>, at |-> 0, attempt |-> 0, rows |-> {}, seen |-> 0]
NoIter == [pc |-> "none", sym |-> "", from |-> 0, to |-> 0, limit |-> 0,
           cursor |-> <<0, 0>>, got |-> <<>>, base |-> {}]

Init ==
    /\ buffer = <<>> /\ closed = FALSE /\ dropped = 0
    /\ left = Script /\ arrived = [e \in Events |-> 0] /\ w = [x \in Writers |-> Idle]
    /\ forwarded = <<>> /\ failed = {}
    /\ table = {} /\ nextID = 1
    /\ parts = {} /\ today = 1 /\ open = TRUE /\ faults = 0
    /\ iter = NoIter

--------------------------------------------------------------------------
(* PersistingPublisher                                                     *)

\* Where a writer goes once its flush is over.
After(x) == CASE x = Loop -> "idle" [] x = Closer -> "wait" [] OTHER -> "forward"

\* flush: start writing a batch.
Flushing(batch) == [Idle EXCEPT !.pc = "insert", !.batch = batch]

\* Mutation: an event is buffered also after Close.
Publish_Unchecked(p) ==
    /\ w[p].pc = "idle" /\ left[p] # <<>>
    /\ LET buf == Append(buffer, Head(left[p])) IN
       IF Len(buf) >= BatchSize
       THEN w' = [w EXCEPT ![p] = Flushing(buf)] /\ buffer' = <<>>
       ELSE w' = [w EXCEPT ![p].pc = "forward"] /\ buffer' = buf
    /\ arrived' = [arrived EXCEPT ![Head(left[p])] = today]
    /\ UNCHANGED <<closed, dropped, left, forwarded, failed, dbVars, iter>>

\* The locked part of Publish: append, and take the buffer when it is full.
\* The first event of left[p] is the one being published until it is forwarded.
Publish(p) ==
    /\ w[p].pc = "idle" /\ left[p] # <<>>
    /\ LET buf == Append(buffer, Head(left[p])) IN
       IF closed
       THEN /\ w' = [w EXCEPT ![p] = [Idle EXCEPT !.pc = "load", !.batch = <<Head(left[p])>>]]
            /\ UNCHANGED buffer
       ELSE IF Len(buf) >= BatchSize
       THEN /\ w' = [w EXCEPT ![p] = Flushing(buf)]
            /\ buffer' = <<>>
       ELSE /\ w' = [w EXCEPT ![p].pc = "forward"]
            /\ buffer' = buf
    /\ arrived' = [arrived EXCEPT ![Head(left[p])] = today]
    /\ UNCHANGED <<closed, dropped, left, forwarded, failed, dbVars, iter>>

\* p.inner.Publish: the event goes on whatever became of its batch.
Forward(p) ==
    /\ w[p].pc = "forward"
    /\ forwarded' = Append(forwarded, Head(left[p]))
    /\ left' = [left EXCEPT ![p] = Tail(@)]
    /\ w' = [w EXCEPT ![p] = Idle]
    /\ UNCHANGED <<buffer, closed, dropped, arrived, failed, dbVars, iter>>

\* One tick of flushLoop.
FlushTick ==
    /\ w[Loop].pc = "idle"
    /\ IF closed
       THEN w' = [w EXCEPT ![Loop].pc = "gone"] /\ UNCHANGED buffer
       ELSE IF Len(buffer) >= BatchSize
       THEN w' = [w EXCEPT ![Loop] = Flushing(buffer)] /\ buffer' = <<>>
       ELSE UNCHANGED <<w, buffer>>
    /\ UNCHANGED <<closed, dropped, left, arrived, forwarded, failed, dbVars, iter>>

\* Close up to its own flush; then it waits for the loop.
Close ==
    /\ w[Closer].pc = "idle"
    /\ closed' = TRUE /\ buffer' = <<>>
    /\ w' = [w EXCEPT ![Closer] = IF buffer = <<>> THEN [Idle EXCEPT !.pc = "wait"]
                                                   ELSE Flushing(buffer)]
    /\ UNCHANGED <<dropped, left, arrived, forwarded, failed, dbVars, iter>>

CloseReturns ==
    /\ w[Closer].pc = "wait" /\ w[Loop].pc = "gone"
    /\ w' = [w EXCEPT ![Closer].pc = "done"]
    /\ UNCHANGED <<buffer, closed, dropped, left, arrived, forwarded, failed, dbVars, iter>>

\* p.dropped += n holds no lock: a load, then a store.
DroppedLoad(x) ==
    /\ w[x].pc = "load"
    /\ w' = [w EXCEPT ![x].pc = "store", ![x].seen = dropped]
    /\ UNCHANGED <<buffer, closed, dropped, left, arrived, forwarded, failed, dbVars, iter>>

DroppedStore(x) ==
    /\ w[x].pc = "store"
    /\ dropped' = w[x].seen + Len(w[x].batch)
    /\ failed' = failed \cup Range(w[x].batch)
    /\ w' = [w EXCEPT ![x] = [Idle EXCEPT !.pc = After(x)]]
    /\ UNCHANGED <<buffer, closed, left, arrived, forwarded, dbVars, iter>>

--------------------------------------------------------------------------
(* PostgresRepository: AppendBatch and the partitions                      *)

\* toStoredEvent: a quote and a bar keep their time, another event gets the
\* time of its arrival.
Stamp(e) == IF Times[e] = 0 THEN arrived[e] ELSE Times[e]

Chunk(x) == SubSeq(w[x].batch, w[x].at + 1, Min({w[x].at + ChunkSize, Len(w[x].batch)}))

\* insertBatch up to the INSERT: the rows get their identifiers from the
\* sequence, which a rollback does not give back.
Insert(x) ==
    /\ w[x].pc = "insert" /\ open
    /\ LET c == Chunk(x)
           new == {[id |-> nextID + i - 1, ev |-> c[i], ts |-> Stamp(c[i])] : i \in 1..Len(c)}
       IN /\ {r.ts : r \in new} \subseteq parts
          /\ w' = [w EXCEPT ![x].pc = "commit", ![x].rows = new]
          /\ nextID' = nextID + Len(c)
    /\ UNCHANGED <<buffer, closed, dropped, left, arrived, forwarded, failed,
                   table, parts, today, open, faults, iter>>

\* The writer's state after insertBatch failed: another attempt for a
\* transient error, or the whole batch counts as dropped.
Failing(x, retryable) ==
    IF retryable /\ w[x].attempt < MaxRetries
    THEN [w[x] EXCEPT !.pc = "insert", !.attempt = @ + 1, !.rows = {}]
    ELSE [w[x] EXCEPT !.pc = "load", !.rows = {}]

\* The chunk cannot be inserted: the pool is closed, or a row has no partition.
\* Neither error is one isRetryable knows.
InsertRejected(x) ==
    /\ w[x].pc = "insert"
    /\ ~open \/ ~({Stamp(e) : e \in Range(Chunk(x))} \subseteq parts)
    /\ w' = [w EXCEPT ![x] = Failing(x, FALSE)]
    /\ UNCHANGED <<buffer, closed, dropped, left, arrived, forwarded, failed, dbVars, iter>>

\* The database fails in BeginTx, in the INSERT or in Commit, and Commit may
\* fail after the rows are durable.
DBFails(x, retryable, durable) ==
    /\ w[x].pc \in {"insert", "commit"} /\ faults < MaxFaults
    /\ durable => w[x].pc = "commit"
    /\ table' = IF durable THEN table \cup w[x].rows ELSE table
    /\ w' = [w EXCEPT ![x] = Failing(x, retryable)]
    /\ faults' = faults + 1
    /\ UNCHANGED <<buffer, closed, dropped, left, arrived, forwarded, failed,
                   nextID, parts, today, open, iter>>

\* tx.Commit, and AppendBatch goes to its next chunk or returns.
Commit(x) ==
    /\ w[x].pc = "commit"
    /\ table' = table \cup w[x].rows
    /\ LET at == w[x].at + Cardinality(w[x].rows) IN
       w' = [w EXCEPT ![x] = IF at = Len(w[x].batch)
                             THEN [Idle EXCEPT !.pc = After(x)]
                             ELSE [Flushing(w[x].batch) EXCEPT !.at = at]]
    /\ UNCHANGED <<buffer, closed, dropped, left, arrived, forwarded, failed,
                   nextID, parts, today, open, faults, iter>>

\* One round of ensurePartitions, in which any of the CREATEs may fail.
ensurePartitions(made) ==
    /\ open /\ made # {} /\ made \subseteq today .. (today + Ahead)
    /\ parts' = parts \cup made
    /\ UNCHANGED <<pubVars, table, nextID, today, open, faults, iter>>

NextDay ==
    /\ today < MaxDay
    /\ today' = today + 1
    /\ UNCHANGED <<pubVars, table, nextID, parts, open, faults, iter>>

RepositoryClose ==
    /\ open /\ open' = FALSE
    /\ UNCHANGED <<pubVars, table, nextID, parts, today, faults, iter>>

--------------------------------------------------------------------------
(* Queries and the storeIterator                                           *)

Matching(rows, sym, from, to) ==
    {r \in rows : /\ sym = "" \/ SymbolOf[r.ev] = sym
                  /\ from = 0 \/ r.ts >= from
                  /\ to = 0 \/ r.ts <= to}

\* ORDER BY timestamp, event_id.
Before(a, b) == a[1] < b[1] \/ (a[1] = b[1] /\ a[2] < b[2])
Key(r) == <<r.ts, r.id>>
Chronological(rows) == SetToSortSeq(rows, LAMBDA a, b : Before(Key(a), Key(b)))
ByID(rows) == SetToSortSeq(rows, LAMBDA a, b : a.id < b.id)
Newest(rows) == SetToSortSeq(rows, LAMBDA a, b : a.id > b.id)
Limit(seq, n) == SubSeq(seq, 1, Min({n, Len(seq)}))

QueryBySymbol(sym, from, to) == ByID({r \in table : SymbolOf[r.ev] = sym /\ from <= r.ts /\ r.ts <= to})
QueryLatest(sym, n) == Reverse(Limit(Newest({r \in table : SymbolOf[r.ev] = sym}), n))

\* A page of QueryEvents: one row more than asked for tells whether there are
\* more, and is cut off again.
QueryEvents(sym, from, to, cursor, limit) ==
    LET n == IF limit > PageMax THEN PageMax ELSE limit
        from_cursor == {r \in Matching(table, sym, from, to) :
                            cursor = <<0, 0>> \/ Before(cursor, Key(r))}
        fetched == Limit(Chronological(from_cursor), n + 1)
        more == Len(fetched) > n
        events == IF more THEN Front(fetched) ELSE fetched
    IN [events |-> events, hasMore |-> more,
        cursor |-> IF more THEN Key(Last(events)) ELSE cursor]

\* ReadStream: nothing is queried yet.
ReadStream(s) ==
    /\ iter.pc = "none"
    /\ iter' = [NoIter EXCEPT !.pc = "open", !.sym = s[1], !.from = s[2], !.to = s[3],
                    !.limit = IF s[4] <= 0 THEN PageMax ELSE s[4],
                    !.base = Matching(table, s[1], s[2], s[3])]
    /\ UNCHANGED <<pubVars, dbVars>>

\* storeIterator.Next; an empty answer ends the stream for its reader.
IterNext ==
    /\ iter.pc = "open" /\ open
    /\ LET page == QueryEvents(iter.sym, iter.from, iter.to, iter.cursor, iter.limit)
       IN iter' = [iter EXCEPT !.pc = IF page.hasMore THEN "open" ELSE "end",
                               !.got = @ \o page.events, !.cursor = page.cursor]
    /\ UNCHANGED <<pubVars, dbVars>>

--------------------------------------------------------------------------
FlushStep(x) ==
    \/ Insert(x)
    \/ InsertRejected(x)
    \/ Commit(x)
    \/ DroppedLoad(x)
    \/ DroppedStore(x)

Next ==
    \/ \E p \in Publishers : Publish(p) \/ Forward(p)
    \/ FlushTick
    \/ Close
    \/ CloseReturns
    \/ \E x \in Writers : FlushStep(x)
    \/ \E x \in Writers, retryable, durable \in BOOLEAN : DBFails(x, retryable, durable)
    \/ \E made \in SUBSET (1..MaxDay + Ahead) : ensurePartitions(made)
    \/ NextDay
    \/ RepositoryClose
    \/ \E s \in Streams : ReadStream(s)
    \/ IterNext

Spec == Init /\ [][Next]_vars

--------------------------------------------------------------------------
Stored == {r.ev : r \in table}
InHand == Range(buffer) \cup UNION {Range(w[x].batch) : x \in Writers}
Published == Events \ UNION {Range(left[p]) : p \in Publishers}
Solo == Cardinality(Publishers) = 1 /\ ~closed

\* An event whose Publish has returned is in the table, waits in the buffer or
\* in a batch being written, or was counted as dropped; after Close it can wait
\* no more (Publish, flush, Close).
NoneForgotten ==
    /\ \A e \in Published : e \in Stored \cup InHand \cup failed
    /\ closed => buffer = <<>>

\* The flush ticker never finds a full batch, so a partial one stays until
\* Close (flushLoop, Publish).
TickerIdle == Len(buffer) < BatchSize

\* With one publisher and no Close, dropped is at least the number of events
\* that are missing from the table (flush, AppendBatch).
MissingCounted == Solo => Cardinality(failed \ Stored) <= dropped

\* With one publisher the identifiers follow the order of publication, over
\* retries and chunks (AppendBatch, insertBatch).
SoloOrder ==
    Cardinality(Publishers) = 1 =>
        LET s == Script[CHOOSE p \in Publishers : TRUE]
            pos(e) == CHOOSE i \in 1..Len(s) : s[i] = e
        IN \A a, b \in table : pos(a.ev) < pos(b.ev) => a.id < b.id

\* The pages of an iterator never repeat a row and come in order of time, and
\* at the end they hold every row that was committed before it was opened,
\* whatever was added meanwhile (QueryEvents, storeIterator.Next).
PagesComplete ==
    /\ \A i \in 1..Len(iter.got)-1 : Before(Key(iter.got[i]), Key(iter.got[i+1]))
    /\ Range(iter.got) \subseteq Matching(table, iter.sym, iter.from, iter.to)
    /\ iter.pc = "end" => iter.base \subseteq Range(iter.got)

\* QueryLatest answers with the end of what QueryBySymbol lists.
LatestIsSuffix ==
    \A sym \in Range(SymbolOf), n \in 1..PageMax :
        LET all == QueryBySymbol(sym, 0, MaxDay + Ahead)
        IN QueryLatest(sym, n) = SubSeq(all, Max({1, Len(all) - n + 1}), Len(all))

\* All of the above.
Safe ==
    /\ NoneForgotten /\ TickerIdle /\ MissingCounted /\ SoloOrder
    /\ PagesComplete /\ LatestIsSuffix
=============================================================================
