------------------------------- MODULE MCWAL -------------------------------
(***************************************************************************)
(* The logs on small instances.  A behaviour explores one part: the        *)
(* write-ahead log without ("log") or with retention ("retention"), the    *)
(* event log in the database with one publisher and readers ("solo") or    *)
(* with two publishers ("race"), or the recorder with the memory store     *)
(* ("memory") or with a store whose writes may fail ("adapter").           *)
(***************************************************************************)
EXTENDS WAL, TLC

VARIABLES part,
    buffer, pclosed, dropped, left, arrived, w, forwarded, failed,
    table, nextID, parts, today, open, faults, iter,
    adding, offered, eventCh, chClosed, cancelled, loop, slices, rbuffer,
    pool, writers, store, refused, panicked, it

Retained == INSTANCE WAL WITH RetentionOn <- TRUE, MaxSeq <- 4

Script == [p |-> <<"e1", "e2">>, q |-> <<"e3">>]
MCTimes == [e1 |-> 2, e2 |-> 1, e3 |-> 0]
MCSymbolOf == [e1 |-> "A", e2 |-> "A", e3 |-> "B"]

\* Without readers, on one day.
Race == INSTANCE EventLog WITH
    Publishers <- {"p", "q"}, Script <- Script, Times <- MCTimes, SymbolOf <- MCSymbolOf,
    BatchSize <- 2, ChunkSize <- 1, MaxRetries <- 1, Ahead <- 0, PageMax <- 2,
    Streams <- {}, MaxDay <- 1, MaxFaults <- 1, closed <- pclosed

\* All events page by page, or those of A from day 1 on in one page.
Solo == INSTANCE EventLog WITH
    Publishers <- {"p"}, Script <- [p |-> <<"e1", "e2", "e3">>],
    Times <- MCTimes, SymbolOf <- MCSymbolOf,
    BatchSize <- 2, ChunkSize <- 1, MaxRetries <- 1, Ahead <- 0, PageMax <- 2,
    Streams <- {<<"", 0, 0, 1>>, <<"A", 1, 1, 5>>}, MaxDay <- 2, MaxFaults <- 1,
    closed <- pclosed

\* Two callers, batches of one event, two writers at a time.
InMemory == INSTANCE Recorder WITH
    Callers <- {"c", "d"}, Memory <- TRUE, maxSize <- 1, SemCap <- 2, chunkSize <- 2,
    MaxEvents <- 3, buffer <- rbuffer

\* Batches of up to two events, one writer at a time.
Adapter == INSTANCE Recorder WITH
    Callers <- {"c", "d"}, Memory <- FALSE, maxSize <- 2, SemCap <- 1, chunkSize <- 1,
    MaxEvents <- 3, buffer <- rbuffer

recVars == <<adding, offered, eventCh, chClosed, cancelled, loop, slices, rbuffer,
             pool, writers, store, refused, panicked, it>>
logVars == <<vars, recVars>>
eventVars == <<buffer, pclosed, dropped, left, arrived, w, forwarded, failed,
               table, nextID, parts, today, open, faults, iter>>

MCInit ==
    /\ part \in {"log", "retention", "solo", "race", "memory", "adapter"}
    /\ Init /\ (IF part = "solo" THEN Solo!Init ELSE Race!Init)
    /\ (IF part = "adapter" THEN Adapter!Init ELSE InMemory!Init)

MCNext ==
    /\ UNCHANGED part
    /\ \/ part = "log" /\ Next /\ UNCHANGED <<eventVars, recVars>>
       \/ part = "retention" /\ Retained!Next /\ UNCHANGED <<eventVars, recVars>>
       \/ part = "solo" /\ Solo!Next /\ UNCHANGED logVars
       \/ part = "race" /\ Race!Next /\ UNCHANGED logVars
       \/ part = "memory" /\ InMemory!Next /\ UNCHANGED <<vars, eventVars>>
       \/ part = "adapter" /\ Adapter!Next /\ UNCHANGED <<vars, eventVars>>

MCSpec == /\ MCInit /\ [][MCNext]_<<part, vars, eventVars, recVars>>
          /\ \A r \in Readers : WF_vars(part \in {"log", "retention"} /\ ReaderStep(r))
          /\ WF_recVars(part = "memory" /\ InMemory!Loop)
          /\ WF_recVars(part = "memory" /\ InMemory!Writer)
          /\ SF_recVars(part = "memory" /\ InMemory!LoopDone)
          /\ WF_recVars(part = "adapter" /\ Adapter!Loop)
          /\ WF_recVars(part = "adapter" /\ Adapter!Writer)
          /\ SF_recVars(part = "adapter" /\ Adapter!LoopDone)

\* A reader that has come to the end returned every message that was on disk
\* from its start on, as long as no segment is removed under it
\* (NewReader, MultiSegmentReader.Next).
ReadsSnapshotKept == part # "retention" => ReadsSnapshot


\* No published event is forgotten: it is stored, still in a batch, or counted as
\* dropped; identifiers follow the order of one publisher over retries; and a
\* paged read is complete, ordered and without repetition although writers go on
\* (PersistingPublisher, AppendBatch, QueryEvents).
EventLogSafe ==
    /\ part = "solo" => Solo!Safe
    /\ part = "race" => Race!Safe

\* Every event the recorder accepted is in the channel, in a batch, stored once, or
\* of a batch whose write failed, although batches overtake each other and their
\* slices are recycled; Wait returns when none is on its way; and a read of the
\* memory store is complete and in order (Batcher, InMemoryStore, storeAdapter).
RecorderSafe ==
    /\ part = "memory" => InMemory!Safe
    /\ part = "adapter" => Adapter!Safe

\* Somebody waits for the log or for the recorder.
Waiting ==
    CASE part \in {"log", "retention"} ->
            \E r \in Readers : rd[r].pc \notin {"done", "failed", "idle"}
      [] part = "memory" -> InMemory!Pending
      [] part = "adapter" -> Adapter!Pending
      [] OTHER -> FALSE

\* A reader comes to the end of the log or to an error; events given to the
\* recorder get to the store or their write fails, and a cancelled recorder ends
\* (MultiSegmentReader.Next, Batcher.Start, Batcher.Wait).
LogsSettle == Waiting ~> ~Waiting
=============================================================================
