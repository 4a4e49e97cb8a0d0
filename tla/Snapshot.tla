------------------------------ MODULE Snapshot ------------------------------
(***************************************************************************)
(* The snapshot service (internal/snapshot) with its start-up recovery:    *)
(* the checkpoint is loaded, the events after its cursor are replayed from *)
(* the database (Service.Recover) or from the write-ahead log              *)
(* (recovery.WALRecoverer), and live events are buffered meanwhile.  The   *)
(* checkpoint loop rotates two files.  The process may crash at any step.  *)
(*                                                                         *)
(* Events are numbered in publication order; evs[n] is the symbol of event *)
(* n.  log is the durable log, a sequence of event numbers; the cursor and *)
(* the replay position are positions in it.                                *)
(***************************************************************************)
EXTENDS Integers, Sequences, FiniteSets

CONSTANTS
    Symbols,
    Source,      \* "db" or "wal": where recovery replays from
    Live,        \* events are published while recovery runs
    BufferCap,   \* capacity of liveBuffer
    PageSize,    \* events per QueryEvents page ("db")
    MaxEvents, MaxCrashes, MaxCheckpoints, MaxPurged    \* bounds

ASSUME SnapshotAssumption ==
    /\ Source \in {"db", "wal"} /\ Live \in BOOLEAN
    /\ BufferCap \in Nat \ {0} /\ PageSize \in Nat \ {0}
    /\ MaxEvents \in Nat /\ MaxCrashes \in Nat /\ MaxCheckpoints \in Nat
    /\ MaxPurged \in Nat

VARIABLES
    snapshots,   \* symbol -> number of its latest event, 0 when absent
    lastCursor, ready, buffering, liveBuffer,
    evs, log,
    live,        \* the publishing goroutine: position in Update
    rec, at, page,   \* recovery: position, last event replayed, page fill
    failed,      \* recovery returned an error
    cur, prev,   \* checkpoint files: id, cursor and contents (id 0: none)
    ck, data,    \* the checkpoint goroutine: position, captured state
    stopping, up,
    saved,       \* id of the last completed checkpoint
    purged,      \* events whose snapshot was evicted
    crashes

svc == <<snapshots, lastCursor, ready, buffering, liveBuffer, purged>>
pub == <<evs, log, live>>
recovery == <<rec, at, page, failed>>
disk == <<cur, prev, saved>>
ckpt == <<ck, data>>
proc == <<stopping, up, crashes>>
vars == <<svc, pub, recovery, disk, ckpt, proc>>

Empty == [s \in Symbols |-> 0]
NoFile == [id |-> 0, cursor |-> 0, snap |-> Empty]

\* A process that has just started: recovery begins in Service.Start order.
Fresh ==
    /\ snapshots' = Empty /\ lastCursor' = 0 /\ ready' = FALSE
    /\ buffering' = FALSE /\ liveBuffer' = <<>>
    /\ live' = "idle" /\ rec' = "begin" /\ at' = 0 /\ page' = 0
    /\ failed' = FALSE /\ ck' = "idle" /\ data' = NoFile /\ stopping' = FALSE

Init ==
    /\ snapshots = Empty /\ lastCursor = 0 /\ ready = FALSE
    /\ buffering = FALSE /\ liveBuffer = <<>> /\ purged = {}
    /\ evs = <<>> /\ log = <<>> /\ live = "idle"
    /\ rec = "begin" /\ at = 0 /\ page = 0 /\ failed = FALSE
    /\ cur = NoFile /\ prev = NoFile /\ saved = 0
    /\ ck = "idle" /\ data = NoFile
    /\ stopping = FALSE /\ up = TRUE /\ crashes = 0

-----------------------------------------------------------------------------
(* Update, bufferEvent, applyEvent                                         *)

applyEvent(n) == snapshots' = [snapshots EXCEPT ![evs[n]] = n]

\* SnapshotPublisher.Publish of a new event: Update reads the buffering flag.
Publish(s) ==
    /\ up /\ ~stopping /\ live = "idle" /\ Len(evs) < MaxEvents
    /\ Live \/ rec = "done"
    /\ evs' = Append(evs, s)
    /\ live' = IF buffering THEN "buffer" ELSE "apply"
    /\ UNCHANGED <<svc, log, recovery, disk, ckpt, proc>>

LiveApply ==
    /\ up /\ live = "apply" /\ applyEvent(Len(evs)) /\ live' = "log"
    /\ UNCHANGED <<lastCursor, ready, buffering, liveBuffer, purged, evs, log,
                   recovery, disk, ckpt, proc>>

\* bufferEvent: send, or drop the oldest and then send, which may block.
LiveBuffer ==
    /\ up /\ live \in {"buffer", "send"}
    /\ IF Len(liveBuffer) < BufferCap
       THEN /\ liveBuffer' = Append(liveBuffer, Len(evs))
            /\ live' = "log"
       ELSE /\ live = "buffer"
            /\ liveBuffer' = Tail(liveBuffer)
            /\ live' = "send"
    /\ UNCHANGED <<snapshots, lastCursor, ready, buffering, purged, evs, log,
                   recovery, disk, ckpt, proc>>

\* The inner publisher writes the durable log after the snapshot update.
LiveLog ==
    /\ up /\ live = "log" /\ live' = "idle" /\ log' = Append(log, Len(evs))
    /\ UNCHANGED <<svc, evs, recovery, disk, ckpt, proc>>

\* Purge evicts a symbol that has been inactive for maxAge.
Purge(s) ==
    /\ up /\ ~stopping /\ snapshots[s] # 0 /\ Cardinality(purged) < MaxPurged
    /\ snapshots' = [snapshots EXCEPT ![s] = 0]
    /\ purged' = purged \union {n \in 1..snapshots[s] : evs[n] = s}
    /\ UNCHANGED <<lastCursor, ready, buffering, liveBuffer, pub, recovery,
                   disk, ckpt, proc>>

-----------------------------------------------------------------------------
(* Recovery                                                                *)

\* Service.Recover buffers first and then loads; WALRecoverer the other way.
StartBuffering ==
    /\ up /\ rec = (IF Source = "db" THEN "begin" ELSE "loaded")
    /\ buffering' = TRUE /\ rec' = IF Source = "db" THEN "load" ELSE "replay"
    /\ UNCHANGED <<snapshots, lastCursor, ready, liveBuffer, purged, pub, at,
                   page, failed, disk, ckpt, proc>>

\* LoadCheckpoint: the current file, or the previous one if there is none.
Loadable == IF cur.id # 0 THEN cur ELSE prev

LoadCheckpoint ==
    /\ up /\ rec = (IF Source = "db" THEN "load" ELSE "begin")
    /\ IF Loadable.id = 0 THEN UNCHANGED <<snapshots, lastCursor>>
       ELSE snapshots' = Loadable.snap /\ lastCursor' = Loadable.cursor
    /\ at' = lastCursor'
    /\ rec' = IF Source = "db" THEN "replay" ELSE "loaded"
    /\ UNCHANGED <<ready, buffering, liveBuffer, purged, pub, page, failed,
                   disk, ckpt, proc>>

\* Service.Recover: one event of a page goes straight into the map.
ReplayDB ==
    /\ up /\ Source = "db" /\ rec = "replay" /\ at < Len(log) /\ page < PageSize
    /\ applyEvent(log[at + 1]) /\ at' = at + 1 /\ page' = page + 1
    /\ UNCHANGED <<lastCursor, ready, buffering, liveBuffer, purged, pub, rec,
                   failed, disk, ckpt, proc>>


\* The end of a page: the cursor moves; an incomplete page is the last.
ReplayPage ==
    /\ up /\ Source = "db" /\ rec = "replay"
    /\ page = PageSize \/ at = Len(log)
    /\ lastCursor' = at /\ page' = 0
    /\ rec' = IF at = Len(log) THEN "stop" ELSE "replay"
    /\ UNCHANGED <<snapshots, ready, buffering, liveBuffer, purged, pub, at,
                   failed, disk, ckpt, proc>>

\* WALRecoverer.Recover calls Update, which buffers the event.
ReplayWAL ==
    /\ up /\ Source = "wal" /\ rec \in {"replay", "send"} /\ at < Len(log)
    /\ IF Len(liveBuffer) < BufferCap
       THEN /\ liveBuffer' = Append(liveBuffer, log[at + 1]) /\ at' = at + 1
            /\ rec' = "replay"
       ELSE /\ rec = "replay" /\ liveBuffer' = Tail(liveBuffer)
            /\ rec' = "send" /\ at' = at
    /\ UNCHANGED <<snapshots, lastCursor, ready, buffering, purged, pub, page,
                   failed, disk, ckpt, proc>>

\* The end of the log: UpdateCursor, then MarkReady.
ReplayedWAL ==
    /\ up /\ Source = "wal" /\ rec = "replay" /\ at = Len(log)
    /\ lastCursor' = at /\ rec' = "ready"
    /\ UNCHANGED <<snapshots, ready, buffering, liveBuffer, purged, pub, at,
                   page, failed, disk, ckpt, proc>>

MarkReady ==
    /\ up /\ rec = "ready" /\ ready' = TRUE /\ rec' = "stop"
    /\ UNCHANGED <<snapshots, lastCursor, buffering, liveBuffer, purged, pub,
                   at, page, failed, disk, ckpt, proc>>

\* A cancelled context, an unreachable database after the retries, or a
\* read error: the deferred StopBuffering still runs.
RecoverFails ==
    /\ up /\ rec = "replay" /\ rec' = "stop" /\ failed' = TRUE
    /\ UNCHANGED <<svc, pub, at, page, disk, ckpt, proc>>

StopBuffering ==
    /\ up /\ rec = "stop" /\ buffering' = FALSE /\ rec' = "drain"
    /\ UNCHANGED <<snapshots, lastCursor, ready, liveBuffer, purged, pub, at,
                   page, failed, disk, ckpt, proc>>

drainBuffer ==
    /\ up /\ rec = "drain" /\ liveBuffer # <<>>
    /\ applyEvent(Head(liveBuffer)) /\ liveBuffer' = Tail(liveBuffer)
    /\ UNCHANGED <<lastCursor, ready, buffering, purged, pub, recovery, disk,
                   ckpt, proc>>

\* Mutation: the service is never marked ready.
Recovered_NotReady ==
    /\ up /\ rec = "drain" /\ liveBuffer = <<>> /\ rec' = "done"
    /\ UNCHANGED <<svc, pub, at, page, failed, disk, ckpt, proc>>

\* The buffer is empty; the component's start function marks ready, after an
\* error too.
Recovered ==
    /\ up /\ rec = "drain" /\ liveBuffer = <<>> /\ rec' = "done"
    /\ ready' = TRUE
    /\ UNCHANGED <<snapshots, lastCursor, buffering, liveBuffer, purged, pub,
                   at, page, failed, disk, ckpt, proc>>

-----------------------------------------------------------------------------
(* Checkpoint and process exit                                             *)

\* The state is captured under the read lock.  A checkpoint starts on the
\* ticker, or in Stop as the last one.
CheckpointCapture ==
    /\ up /\ ck = "idle" /\ saved < MaxCheckpoints
    /\ data' = [id |-> saved + 1, cursor |-> lastCursor, snap |-> snapshots]
    /\ ck' = IF cur.id # 0 THEN "remove" ELSE "write"
    /\ UNCHANGED <<svc, pub, recovery, disk, proc>>


RemovePrev ==
    /\ up /\ ck = "remove" /\ prev' = NoFile /\ ck' = "rotate"
    /\ UNCHANGED <<svc, pub, recovery, cur, saved, data, proc>>

RotateCurrent ==
    /\ up /\ ck = "rotate" /\ prev' = cur /\ cur' = NoFile /\ ck' = "write"
    /\ UNCHANGED <<svc, pub, recovery, saved, data, proc>>

\* The temporary file is written and renamed to the current one.
RenameTemp ==
    /\ up /\ ck = "write" /\ cur' = data /\ saved' = data.id
    /\ ck' = "idle" /\ up' = ~stopping
    /\ UNCHANGED <<svc, pub, recovery, prev, data, stopping, crashes>>

\* Writing or renaming the temporary file fails: the checkpoint is given up.
CheckpointFails ==
    /\ up /\ ck = "write" /\ ck' = "idle" /\ up' = ~stopping
    /\ UNCHANGED <<svc, pub, recovery, disk, data, stopping, crashes>>

\* Stop: the loops have ended, the final checkpoint is written.
Stop ==
    /\ up /\ ~stopping /\ rec = "done" /\ live = "idle" /\ ck = "idle"
    /\ saved < MaxCheckpoints
    /\ stopping' = TRUE
    /\ data' = [id |-> saved + 1, cursor |-> lastCursor, snap |-> snapshots]
    /\ ck' = IF cur.id # 0 THEN "remove" ELSE "write"
    /\ UNCHANGED <<svc, pub, recovery, disk, up, crashes>>

\* The process dies at any step; an event not yet in the log is gone.
Crash ==
    /\ up /\ crashes < MaxCrashes
    /\ up' = FALSE /\ crashes' = crashes + 1
    /\ UNCHANGED <<svc, pub, recovery, disk, ckpt, stopping>>

Restart ==
    /\ ~up /\ up' = TRUE /\ Fresh
    /\ UNCHANGED <<evs, log, purged, disk, crashes>>

-----------------------------------------------------------------------------
RecoveryStep ==
    \/ StartBuffering \/ LoadCheckpoint \/ ReplayDB \/ ReplayPage
    \/ ReplayWAL \/ ReplayedWAL \/ MarkReady \/ RecoverFails
    \/ StopBuffering \/ drainBuffer \/ Recovered

Next ==
    \/ \E s \in Symbols : Publish(s) \/ Purge(s)
    \/ LiveApply \/ LiveBuffer \/ LiveLog
    \/ RecoveryStep
    \/ CheckpointCapture \/ RemovePrev \/ RotateCurrent \/ RenameTemp
    \/ CheckpointFails
    \/ Stop \/ Crash \/ Restart

Spec == Init /\ [][Next]_vars

\* The start-up goroutine runs on.
FairSpec == Spec /\ WF_vars(RecoveryStep) /\ WF_vars(Restart)

-----------------------------------------------------------------------------
Contents == [Symbols -> 0..MaxEvents]
File == [id : Nat, cursor : Nat, snap : Contents]

TypeOK ==
    /\ snapshots \in Contents /\ lastCursor \in 0..MaxEvents
    /\ ready \in BOOLEAN /\ buffering \in BOOLEAN
    /\ Len(liveBuffer) <= BufferCap /\ purged \subseteq 1..Len(evs)
    /\ Len(log) <= Len(evs) /\ at \in 0..Len(log) /\ page \in 0..PageSize
    /\ cur \in File /\ prev \in File /\ data \in File
    /\ cur.id <= saved /\ prev.id <= saved

\* The last event about s among the first i entries of the log.
Latest(s, i) ==
    LET ns == {log[k] : k \in {j \in 1..i : evs[log[j]] = s}}
    IN  IF ns = {} THEN 0 ELSE CHOOSE n \in ns : \A m \in ns : m <= n

\* Once recovery has succeeded and the publisher is between two events, the
\* snapshot of each symbol is no older than its latest logged event, unless
\* that was evicted ("ensuring zero event loss").
LatestWins ==
    up /\ rec = "done" /\ ~failed /\ live = "idle" =>
        \A s \in Symbols : Latest(s, Len(log)) \in 0..snapshots[s] \union purged

\* A checkpoint holds, for every symbol, at least the events up to its
\* cursor, unless they were evicted: a restart that replays from the cursor
\* loses nothing.
CheckpointCovers ==
    \A f \in {cur, prev} : f.id # 0 =>
        \A s \in Symbols : Latest(s, f.cursor) \in 0..f.snap[s] \union purged

\* "if the process crashes mid-write, the previous checkpoint is still valid
\* for recovery": at every moment a restart would load the newest
\* checkpoint ever completed.
CheckpointSurvives == Loadable.id = saved

\* "Until this is called" reads are refused "to prevent serving stale data":
\* the service is ready only once buffered events have been applied.
ReadyMeansRecovered == up /\ ready => ~buffering /\ rec = "done"

\* Recovery ends, with the service ready or with the process gone.
RecoveryEnds == rec = "begin" ~> (ready \/ ~up)
=============================================================================
