----------------------------- MODULE MCSnapshot -----------------------------
(***************************************************************************)
(* What is derived from the events, on small instances: the snapshot       *)
(* service with recovery from the database before the feed starts ("db",   *)
(* as app.go wires it, and "purge" with idle symbols) or beside it         *)
(* ("live"), or from the write-ahead log ("wal"), the order books          *)
(* ("book"), the candles ("candles"), and the manager that waits for the   *)
(* dependencies of a recovery ("manager").                                 *)
(***************************************************************************)
EXTENDS Snapshot

VARIABLES mode,
    book, going, published, applied, truth, total, cut, resets, increments, panicked,
    aggs, current, tick, held, clock, sweepAt, publishCh, working, candles, vwaps,
    droppedTicks, evicted, accepted, given,
    state, deps, recoveryCnt, stateFile, stateTmp, managerAt, cancelled, stale, late,
    recoveries, faults, calls

Purging == INSTANCE Snapshot
              WITH MaxCrashes <- 1, MaxCheckpoints <- 1, MaxPurged <- 1
LiveDB == INSTANCE Snapshot
             WITH Live <- TRUE, MaxCheckpoints <- 1
Log == INSTANCE Snapshot
          WITH Source <- "wal", BufferCap <- 3, MaxCheckpoints <- 0, MaxPurged <- 1

Book == INSTANCE OrderBook
           WITH Prices <- {1, 2, 3}, Sizes <- {0, 1}, MaxDepth <- 2,
                MaxSequence <- 2, MaxIncrements <- 2, MaxResets <- 1
Engine == INSTANCE Aggregation
             WITH Callers <- {"p", "q"}, Workers <- {"w"}, Prices <- {1, 2}, Volumes <- {1},
                  Delays <- {0, 2}, WindowSize <- 1, Day <- 2, Buffer <- 1,
                  MaxTicks <- 2, MaxTime <- 4, published <- candles, dropped <- droppedTicks

Manager == INSTANCE RecoveryManager
              WITH Names <- {"a", "b"}, MaxRecoveries <- 2, MaxFaults <- 1, MaxCalls <- 3,
                   file <- stateFile, tmp <- stateTmp, pc <- managerAt

bookVars == <<book, going, published, applied, truth, total, cut, resets, increments, panicked>>
engineVars == <<aggs, current, tick, held, clock, sweepAt, publishCh, working, candles, vwaps,
                droppedTicks, evicted, accepted, given>>
managerVars == <<state, deps, recoveryCnt, stateFile, stateTmp, managerAt, cancelled, stale, late,
                 recoveries, faults, calls>>

MCInit ==
    /\ mode \in {"db", "purge", "live", "wal", "book", "candles", "manager"}
    /\ Init /\ Book!Init /\ Engine!Init /\ Manager!Init
MCNext ==
    /\ UNCHANGED mode
    /\ \/ mode = "db" /\ Next /\ UNCHANGED <<bookVars, engineVars, managerVars>>
       \/ mode = "purge" /\ Purging!Next /\ UNCHANGED <<bookVars, engineVars, managerVars>>
       \/ mode = "live" /\ LiveDB!Next /\ UNCHANGED <<bookVars, engineVars, managerVars>>
       \/ mode = "wal" /\ Log!Next /\ UNCHANGED <<bookVars, engineVars, managerVars>>
       \/ mode = "book" /\ Book!Next /\ UNCHANGED <<vars, engineVars, managerVars>>
       \/ mode = "candles" /\ Engine!Next /\ UNCHANGED <<vars, bookVars, managerVars>>
       \/ mode = "manager" /\ Manager!Next /\ UNCHANGED <<vars, bookVars, engineVars>>
MCSpec == /\ MCInit /\ [][MCNext]_<<mode, vars, bookVars, engineVars, managerVars>>
          /\ WF_vars(mode \in {"db", "purge", "live"} /\ RecoveryStep)
          /\ WF_vars(mode = "wal" /\ Log!RecoveryStep)
          /\ WF_managerVars(mode = "manager" /\ Manager!RecoverStep)

\* The buffer keeps its capacity, and files and cursors refer to events that
\* exist (bufferEvent, Checkpoint).
SnapshotTypes == IF mode = "wal" THEN Log!TypeOK ELSE TypeOK

\* Without live traffic during recovery no logged event is missing after it
\* (Service.Recover, WALRecoverer.Recover, drainBuffer).
NothingMissing == mode # "live" => LatestWins

\* A checkpoint covers its cursor when the database is replayed
\* (Checkpoint, UpdateCursor).
CheckpointCoversCursor == mode \in {"db", "purge"} => CheckpointCovers

\* The newest completed checkpoint survives a crash at any step of the
\* rotation (Checkpoint, LoadCheckpoint).
NewestSurvives == mode \in {"db", "purge"} => CheckpointSurvives

\* Reads are served only once the buffer has been applied (Service.Recover).
ReadyAfterDrain == mode # "wal" => ReadyMeansRecovered


\* The manager is ready only after its dependencies, and its file is whole and
\* follows its state (WaitForDependencies, persistState).
ManagerSafe ==
    Manager!ReadyAfterDependencies /\ Manager!FileFollows /\ Manager!CountBounded


\* Recovery ends, with the service ready or with the process gone
\* (Service.Recover, Service.Start), and the manager's wait when its context is
\* done (RecoveryManager.Recover).  The mode never changes.
ServiceRecovers ==
    (IF mode = "manager" THEN managerAt = "wait" /\ cancelled
                         ELSE mode \in {"db", "purge", "live", "wal"} /\ rec = "begin")
    ~> (IF mode = "manager" THEN managerAt \in {"done", "idle"} ELSE ready \/ ~up)

\* A book is sorted, within its depth, and says what the updates since its reset
\* said; increments are applied without a gap and published once.  A tick that was
\* accepted is in one candle, open, published, dropped or evicted, whatever sweeps
\* and callers interleave, and only the aggregator in the map takes ticks
\* (applyLevel, ApplyIncrement, ProcessTick, sweepStagnant).
DerivedExact ==
    /\ Book!BookIsTruth /\ Book!IncrementsContiguous
    /\ Engine!OneAggregator /\ Engine!TicksConserved
    /\ Engine!CandlesSound /\ Engine!VWAPsBounded
=============================================================================
