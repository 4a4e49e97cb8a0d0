-------------------------------- MODULE WAL --------------------------------
(***************************************************************************)
(* The segmented write-ahead log (internal/wal): the feed pipeline appends *)
(* through a user-space buffer, segments roll at a size limit, retention   *)
(* removes old ones, readers cross segment boundaries, and the process     *)
(* crashes, closes and reopens the directory.  A message is a symbol and   *)
(* its per-symbol sequence number; every message has size one.  A file is  *)
(* named by its base sequence.                                             *)
(***************************************************************************)
EXTENDS Integers, Sequences, Functions, TLAPS

CONSTANTS
    Symbols, Readers,
    MaxSeq,         \* bound: sequence numbers per symbol
    SegmentMax,     \* MaxSegmentBytes, in messages
    IndexEvery,     \* IndexIntervalBytes, in messages
    RetentionOn,    \* retention runs
    RetentionMax,   \* RetentionBytes, in messages
    MaxStops        \* bound: crashes and closes

ASSUME WALAssumption ==
    /\ MaxSeq \in Nat /\ SegmentMax \in Nat \ {0} /\ IndexEvery \in Nat \ {0}
    /\ RetentionOn \in BOOLEAN /\ RetentionMax \in Nat /\ MaxStops \in Nat

VARIABLES
    files,     \* base -> flushed log, torn tail, index entries, still linked
    segments,  \* SegmentManager.segments: base, unflushed buffer, size, ...
    active,    \* SegmentManager.active is the last segment (FALSE: nil)
    lastSeq,   \* SegmentManager.lastSeq
    alloc,     \* the replay service's sequence.Allocator
    process,   \* "up", "down" or "panicked"
    rd,        \* MultiSegmentReader of each reader
    sent,      \* per symbol: sequence numbers the pipeline has appended
    synced,    \* messages a completed Sync or Close covers
    removed,   \* messages retention removed
    stops

vars == <<files, segments, active, lastSeq, alloc, process, rd, sent, synced,
          removed, stops>>

NewFile == [log |-> <<>>, torn |-> FALSE, idx |-> <<>>, linked |-> TRUE]
NewHandle(base, size) ==
    [base |-> base, buf |-> <<>>, size |-> size, since |-> 0]
NoReader == [pc |-> "idle", i |-> 0, start |-> 0, base |-> 0, pos |-> 0,
             out |-> <<>>, owed |-> {}]

Msgs(log) == {log[k] : k \in DOMAIN log}
Linked(f) == {b \in DOMAIN f : f[b].linked}
Stored(f) == UNION {Msgs(f[b].log) : b \in Linked(f)}
OnDisk == Stored(files)
LastOf(seq) == seq[Len(seq)]
SizeOf(file) == Len(file.log) + (IF file.torn THEN 1 ELSE 0)

Init ==
    /\ files = [b \in {0} |-> NewFile] /\ segments = <<NewHandle(0, 0)>>
    /\ active = TRUE /\ lastSeq = 0 /\ alloc = 0 /\ process = "up"
    /\ rd = [r \in Readers |-> NoReader]
    /\ sent = [s \in Symbols |-> 0] /\ synced = {} /\ removed = {} /\ stops = 0

-----------------------------------------------------------------------------
(* Append, roll, flush                                                     *)

\* Messages ms reach a file, and possibly a part of the next one.
Written(file, ms, torn) == [file EXCEPT !.log = @ \o ms, !.torn = torn]
Drained(h, k) == [h EXCEPT !.buf = SubSeq(@, k + 1, Len(@))]

\* Everything in the handle's buffer is written out.
Flushed(f, h) ==
    [f EXCEPT ![h.base] = Written(@, h.buf, @.torn /\ h.buf = <<>>)]

\* OpenSegment: the file is created when it does not exist.
Opened(f, base) ==
    IF base \in Linked(f) THEN f
    ELSE [b \in DOMAIN f \union {base} |-> IF b = base THEN NewFile ELSE f[b]]

\* Mutation: the full segment is not synced before the next one is opened.
Rolled_NoSync(q) ==
    IF LastOf(segments).size >= SegmentMax
    THEN LET f == Opened(files, q)
         IN  <<f, Append(segments, NewHandle(q, SizeOf(f[q])))>>
    ELSE <<files, segments>>

\* The roll of Append: sync the full segment, open one named by the message.
Rolled(q) ==
    IF LastOf(segments).size >= SegmentMax
    THEN LET f == Opened(Flushed(files, LastOf(segments)), q)
             g == [segments EXCEPT ![Len(segments)] = Drained(@, Len(@.buf))]
         IN  <<f, Append(g, NewHandle(q, SizeOf(f[q])))>>
    ELSE <<files, segments>>

\* segment.Append writes to the buffer, and to the sparse index for the
\* first message of the file and every IndexEvery-th one after.
Noted(file, entry) == [file EXCEPT !.idx = Append(@, entry)]
Indexed(h) == h.since + 1 >= IndexEvery \/ h.size = 0
SegmentAppend(h, m) ==
    [h EXCEPT !.buf = Append(@, m), !.size = @ + 1,
              !.since = IF Indexed(h) THEN 0 ELSE @ + 1]

\* Publisher.Publish for the next event of a symbol; m.active.Size() on the
\* nil active segment panics.
Publish(s) ==
    /\ process = "up" /\ sent[s] < MaxSeq
    /\ IF ~active
       THEN /\ process' = "panicked"
            /\ UNCHANGED <<files, segments, lastSeq, sent>>
       ELSE LET q == sent[s] + 1
                f == Rolled(q)[1]
                g == Rolled(q)[2]
                h == LastOf(g)
            IN  /\ segments' = [g EXCEPT ![Len(g)] = SegmentAppend(h, <<s, q>>)]
                /\ files' = IF Indexed(h)
                            THEN [f EXCEPT ![h.base] =
                                     Noted(@, [seq |-> q, pos |-> h.size])]
                            ELSE f
                /\ lastSeq' = q
                /\ sent' = [sent EXCEPT ![s] = q]
                /\ process' = process
    /\ UNCHANGED <<active, alloc, rd, synced, removed, stops>>

\* bufio writes a full buffer to the file: whole messages, and possibly a
\* part of the next one.
Flush ==
    /\ process = "up" /\ active
    /\ \E k \in 0..Len(LastOf(segments).buf) :
         LET h == LastOf(segments)
         IN  /\ h.buf # <<>>
             /\ \E torn \in {FALSE, k < Len(h.buf)} :
                  files' = [files EXCEPT ![h.base] =
                               Written(@, SubSeq(h.buf, 1, k), torn)]
             /\ segments' = [segments EXCEPT ![Len(segments)] = Drained(@, k)]
    /\ UNCHANGED <<active, lastSeq, alloc, process, rd, sent, synced, removed,
                   stops>>

Sync ==
    /\ process = "up" /\ active
    /\ files' = Flushed(files, LastOf(segments))
    /\ segments' = [segments EXCEPT ![Len(segments)] = Drained(@, Len(@.buf))]
    /\ synced' = synced \union OnDisk \union Msgs(LastOf(segments).buf)
    /\ UNCHANGED <<active, lastSeq, alloc, process, rd, sent, removed, stops>>

-----------------------------------------------------------------------------
(* enforceRetention                                                        *)

TotalSize(hs) == FoldFunction(+, 0, [n \in DOMAIN hs |-> hs[n].size])
Unlinked(file, here) == [file EXCEPT !.linked = @ /\ ~here]

\* The oldest segments are removed while the total exceeds RetentionMax,
\* and any number of them because of their age, but never the last one.
EnforceRetention ==
    /\ process = "up" /\ RetentionOn /\ Len(segments) > 1
    /\ \E k \in 1..Len(segments) - 1 :
         LET kept == SubSeq(segments, k + 1, Len(segments))
             gone == {segments[n].base : n \in 1..k}
         IN  /\ k = Len(segments) - 1 \/ TotalSize(kept) <= RetentionMax
             /\ files' = [b \in DOMAIN files |-> Unlinked(files[b], b \in gone)]
             /\ removed' = removed \union UNION {Msgs(files[b].log) : b \in gone}
             /\ segments' = kept
    /\ UNCHANGED <<active, lastSeq, alloc, process, rd, sent, synced, stops>>

-----------------------------------------------------------------------------
(* Readers: SegmentManager.NewReader and MultiSegmentReader.Next            *)

\* IndexFile.Lookup: the binary search for the last entry <= target, or the
\* first entry; the position in the log it gives.
Lookup(es, target) ==
    LET search[lo \in 1..Len(es) + 1, hi \in 0..Len(es)] ==
          IF lo > hi THEN lo - 1
          ELSE LET mid == lo + (hi - lo) \div 2
               IN  IF es[mid].seq = target THEN mid
                   ELSE IF es[mid].seq < target THEN search[mid + 1, hi]
                   ELSE search[lo, mid - 1]
        k == search[1, Len(es)]
    IN  IF es = <<>> THEN 0 ELSE IF k = 0 THEN es[1].pos ELSE es[k].pos

\* Mutation: the first segment above the start instead of the last below it.
TargetIndex_First(start) ==
    {i \in DOMAIN segments : segments[i].base >= start}

\* The segments NewReader may start at.
TargetIndex(start) ==
    {i \in DOMAIN segments : segments[i].base <= start}

\* NewReader; "owed" is what is on disk at or after start at that moment.
NewReader(r) ==
    /\ process = "up" /\ rd[r].pc = "idle"
    /\ \E start \in 0..MaxSeq : \E i \in TargetIndex(start) :  \* else ErrSequenceTooOld
         /\ \A k \in TargetIndex(start) : k <= i
         /\ rd' = [rd EXCEPT ![r] = [NoReader EXCEPT !.pc = "segment",
                     !.i = i, !.start = start,
                     !.owed = {m \in OnDisk : m[2] >= start}]]
    /\ UNCHANGED <<files, segments, active, lastSeq, alloc, process, sent,
                   synced, removed, stops>>

\* Next with no current reader: the segment at segmentIdx, under the lock.
ReaderSegment(r) ==
    /\ rd[r].pc = "segment"
    /\ rd' = IF rd[r].i > Len(segments) THEN [rd EXCEPT ![r].pc = "done"]
             ELSE [rd EXCEPT ![r].pc = "open",
                             ![r].base = segments[rd[r].i].base]
    /\ UNCHANGED <<files, segments, active, lastSeq, alloc, process, sent,
                   synced, removed, stops>>

\* segment.ReadAt: opening fails when the file has been removed.
ReaderOpen(r) ==
    /\ rd[r].pc = "open"
    /\ LET f == files[rd[r].base]
       IN  rd' = IF ~f.linked THEN [rd EXCEPT ![r].pc = "failed"]
                 ELSE [rd EXCEPT ![r].pc = "read",
                                 ![r].pos = Lookup(f.idx, rd[r].start)]
    /\ UNCHANGED <<files, segments, active, lastSeq, alloc, process, sent,
                   synced, removed, stops>>

\* Mutation: a message before the start is not consumed.
ReaderNext_Stuck(r) ==
    /\ rd[r].pc = "read"
    /\ LET log == files[rd[r].base].log
           m == log[rd[r].pos + 1]
       IN  rd' = IF rd[r].pos >= Len(log) THEN [rd EXCEPT ![r].pc = "eof"]
                 ELSE IF m[2] < rd[r].start THEN rd
                 ELSE [rd EXCEPT ![r].pos = @ + 1, ![r].out = Append(@, m)]
    /\ UNCHANGED <<files, segments, active, lastSeq, alloc, process, sent,
                   synced, removed, stops>>

\* LogReader.Next; messages before the start are skipped.
ReaderNext(r) ==
    /\ rd[r].pc = "read"
    /\ LET log == files[rd[r].base].log
           m == log[rd[r].pos + 1]
       IN  rd' = IF rd[r].pos >= Len(log) THEN [rd EXCEPT ![r].pc = "eof"]
                 ELSE [rd EXCEPT ![r].pos = @ + 1,
                                 ![r].out = IF m[2] < rd[r].start THEN @
                                            ELSE Append(@, m)]
    /\ UNCHANGED <<files, segments, active, lastSeq, alloc, process, sent,
                   synced, removed, stops>>

\* The end of a file or a torn record: on to the next segment if there is
\* one by now, else the end of the log.
ReaderEOF(r) ==
    /\ rd[r].pc = "eof"
    /\ rd' = IF rd[r].i < Len(segments)
             THEN [rd EXCEPT ![r].pc = "segment", ![r].i = @ + 1,
                             ![r].start = 0]
             ELSE [rd EXCEPT ![r].pc = "done"]
    /\ UNCHANGED <<files, segments, active, lastSeq, alloc, process, sent,
                   synced, removed, stops>>

-----------------------------------------------------------------------------
(* Process exit and restart                                                *)

\* The process dies: buffers and readers are lost, files are not.
Crash ==
    /\ process = "panicked" \/ (process = "up" /\ stops < MaxStops)
    /\ process' = "down" /\ stops' = IF process = "up" THEN stops + 1 ELSE stops
    /\ segments' = <<>> /\ active' = FALSE
    /\ rd' = [r \in Readers |-> NoReader]
    /\ UNCHANGED <<files, lastSeq, alloc, sent, synced, removed>>

\* What is buffered for base b: two handles never have something for one file.
Pending(b) ==
    LET hs == {n \in DOMAIN segments : segments[n].base = b /\ segments[n].buf # <<>>}
    IN  IF hs = {} THEN <<>> ELSE segments[CHOOSE n \in hs : TRUE].buf

\* Close flushes and syncs every segment.
Close ==
    /\ process = "up" /\ stops < MaxStops
    /\ files' = [b \in DOMAIN files |->
                    Written(files[b], Pending(b), files[b].torn /\ Pending(b) = <<>>)]
    /\ synced' = synced \union OnDisk \union
                   UNION {Msgs(segments[n].buf) : n \in DOMAIN segments}
    /\ process' = "down" /\ stops' = stops + 1
    /\ segments' = <<>> /\ active' = FALSE
    /\ rd' = [r \in Readers |-> NoReader]
    /\ UNCHANGED <<lastSeq, alloc, sent, removed>>

\* NewSegmentManager and loadSegments: open the files in the order of their
\* names, take lastSeq from the last one.  The active segment is only set
\* when the directory is empty.  The allocator is set to lastSeq, and the
\* pipeline goes on from the sequencer, not from the log.
Restart ==
    /\ process = "down" /\ process' = "up"
    /\ \E c \in 0..MaxSeq + 1 : \E bases \in [1..c -> Linked(files)] :
       LET log == IF bases = <<>> THEN <<>> ELSE files[LastOf(bases)].log
       IN  /\ Range(bases) = Linked(files)
           /\ \A j, k \in DOMAIN bases : j < k => bases[j] < bases[k]
           /\ segments' = IF bases = <<>> THEN <<NewHandle(0, 0)>>
                          ELSE [n \in DOMAIN bases |->
                                  NewHandle(bases[n], SizeOf(files[bases[n]]))]
           /\ files' = IF bases = <<>> THEN Opened(files, 0) ELSE files
           /\ active' = (bases = <<>>)
           /\ lastSeq' = IF log = <<>> THEN 0 ELSE LastOf(log)[2]
           /\ alloc' = lastSeq'
    /\ UNCHANGED <<rd, sent, synced, removed, stops>>

Next ==
    \/ \E s \in Symbols : Publish(s)
    \/ Flush \/ Sync \/ EnforceRetention \/ Crash \/ Close \/ Restart
    \/ \E r \in Readers : NewReader(r) \/ ReaderSegment(r) \/ ReaderOpen(r)
                            \/ ReaderNext(r) \/ ReaderEOF(r)

Spec == Init /\ [][Next]_vars

ReaderStep(r) ==
    ReaderSegment(r) \/ ReaderOpen(r) \/ ReaderNext(r) \/ ReaderEOF(r)

\* A goroutine that reads the log keeps calling Next.
FairSpec == Spec /\ \A r \in Readers : WF_vars(ReaderStep(r))

-----------------------------------------------------------------------------
TypeOK ==
    /\ \A n \in DOMAIN segments :
         /\ segments[n].base \in DOMAIN files
         /\ files[segments[n].base].linked
         /\ segments[n].size - Len(segments[n].buf) \in
              Len(files[segments[n].base].log) .. SizeOf(files[segments[n].base])
    /\ process \in {"up", "down", "panicked"}
    /\ active => segments # <<>>
    /\ \A r \in Readers : rd[r].pc \in
         {"idle", "segment", "open", "read", "eof", "done", "failed"}

\* With one symbol: what has reached the disk is a prefix of what was
\* appended, in order, across rolls, crashes and removals; no later message
\* survives a crash that an earlier one does not.
DurablePrefix ==
    \A s \in Symbols : \E n \in 0..sent[s] :
        {m[2] : m \in OnDisk \union removed} = 1..n

\* "you must call Sync() for strict durability": a message a completed Sync
\* or Close covers is on disk, after any crash, unless retention removed it.
SyncedSurvives == synced \subseteq OnDisk \union removed

\* What is on disk is a prefix of what was appended, and a sync keeps it over
\* crashes (Append, roll, Sync).
LogDurable == TypeOK /\ DurablePrefix /\ SyncedSurvives

\* The numbers of the messages on disk, oldest file first, and of those in buffers.
Numbers(log) == [k \in DOMAIN log |-> log[k][2]]
Durable ==
    LET upTo[b \in -1..MaxSeq] ==
          IF b = -1 THEN <<>>
          ELSE IF b \in DOMAIN files /\ files[b].linked
          THEN upTo[b - 1] \o Numbers(files[b].log) ELSE upTo[b - 1]
    IN  upTo[MaxSeq]
Volatile ==
    LET upTo[n \in 0..Len(segments)] ==
          IF n = 0 THEN <<>> ELSE upTo[n - 1] \o Numbers(segments[n].buf)
    IN  upTo[Len(segments)]

\* With one symbol the segmented log is one log: whatever rolls, flushes, syncs and
\* removals happen, an append goes to its end, a crash takes messages from its end
\* that are in no file, and retention takes them from its beginning (SegmentManager).
Abstract == INSTANCE DurableLog WITH durable <- Durable, volatile <- Volatile
LogIsDurable == Abstract!Spec

\* A reader returns the messages of a symbol in the order of their sequence
\* numbers, from its start on, whatever rolls happen while it reads.
ReadsInOrder ==
    \A r \in Readers : \A j, k \in DOMAIN rd[r].out :
        j < k /\ rd[r].out[j][1] = rd[r].out[k][1] =>
            rd[r].out[j][2] < rd[r].out[k][2]

\* "NewReader returns an iterator starting from the given sequence": a reader
\* that has reached the end of the log has returned every message that was
\* on disk at or after its start when it was created, unless retention
\* removed it.
ReadsSnapshot ==
    \A r \in Readers : rd[r].pc = "done" =>
        rd[r].owed \ removed \subseteq Msgs(rd[r].out)

\* Messages are read "sequentially": with one symbol, the messages returned
\* follow each other without a gap.
\* The code does not have this property: README, section 5.
ReadsGapFree ==
    \A r \in Readers : \A k \in DOMAIN rd[r].out :
        k > 1 => rd[r].out[k][2] = rd[r].out[k - 1][2] + 1

\* An append finds an active segment: the reopened log can be written.
AppendNeverPanics == process # "panicked"

\* LastSequence "returns the highest sequence number written to the WAL".
\* The code does not have this property: README, section 5.
LastSeqHighest ==
    process = "up" => \A m \in OnDisk : m[2] <= lastSeq

\* The replay service serves up to "the latest known committed sequence at
\* the time of the request", which it takes from the allocator.
\* The code does not have this property: README, section 5.
AllocatorCurrent == process = "up" => alloc = lastSeq

\* A reader comes to the end of the log, or to an error.
ReaderEnds ==
    \A r \in Readers :
        rd[r].pc = "segment" ~> rd[r].pc \in {"done", "failed", "idle"}

-----------------------------------------------------------------------------
(***************************************************************************)
(* The log of one symbol keeps a prefix of what was appended, for any      *)
(* sizes, any retention and any crashes.                                   *)
(***************************************************************************)
Message(s) == {s} \X Nat
File(s) == [log : Seq(Message(s)), torn : BOOLEAN,
            idx : Seq([seq : Nat, pos : Nat]), linked : BOOLEAN]
Handle(s) == [base : Nat, buf : Seq(Message(s)), size : Nat, since : Nat]

FilesOK(s, f) == f \in [DOMAIN f -> File(s)]

\* The handles g are those of files f, oldest first; only the last one has
\* something buffered, and only while there is an active segment (a).
HandlesFit(f, g, a) ==
    /\ \A j \in 1..Len(g) : g[j].base \in Linked(f)
    /\ \A j, k \in 1..Len(g) : j < k => g[j].base < g[k].base
    /\ \A j \in 1..Len(g) : j < Len(g) \/ ~a => g[j].buf = <<>>
    /\ \A j \in 1..Len(g) : a => g[j].size = Len(f[g[j].base].log) + Len(g[j].buf)
    /\ \A j \in 1..Len(g) :
         ~a => g[j].size \in Len(f[g[j].base].log) .. SizeOf(f[g[j].base])
    /\ a => g # <<>>

\* The messages S are numbered from 1 to d.
UpTo(S, d) == {m[2] : m \in S} = 1..d

\* The buffer holds what follows number d, up to n.
Follows(s, buf, d, n) ==
    /\ Len(buf) = n - d
    /\ \A k \in 1..Len(buf) : buf[k] = <<s, d + k>>

\* Files f and the removed messages x hold the numbers up to d, the active
\* segment's buffer those from there to n, the number of messages sent; no file
\* has a base above top.
LogOK(s, f, g, a, top, n, d, x, y) ==
    /\ FilesOK(s, f) /\ DOMAIN f \subseteq 0..top
    /\ g \in Seq(Handle(s)) /\ a \in BOOLEAN
    /\ HandlesFit(f, g, a)
    /\ Linked(f) # {}
    /\ d \in 0..n /\ n \in Nat /\ top \in Nat
    /\ UpTo(Stored(f) \union x, d)
    /\ a => Follows(s, g[Len(g)].buf, d, n)
    /\ y \subseteq Stored(f) \union x

Lines(s) == \E d \in Nat : LogOK(s, files, segments, active, sent[s], sent[s], d, removed, synced)

ReadersOK ==
    /\ rd = [r \in Readers |-> rd[r]]
    /\ \A r \in Readers : "pc" \in DOMAIN rd[r] /\ rd[r].pc \in
         {"idle", "segment", "open", "read", "eof", "done", "failed"}

\* The inductive invariant, for the one symbol s.
LogInv(s) ==
    /\ Lines(s)
    /\ sent \in [Symbols -> Nat]
    /\ process \in {"up", "down", "panicked"}
    /\ ReadersOK

\* Time for the provers: sixty seconds at every leaf.
USE SMTT(60)

\* File w is the file with the messages ms at its end.
Longer(s, file, w, ms) ==
    /\ w \in File(s) /\ ms \in Seq(Message(s))
    /\ w.linked = file.linked /\ w.log = file.log \o ms

\* What a write leaves of a file (LogWriter.Append, LogWriter.Sync).
LEMMA WrittenFile ==
    ASSUME NEW s, NEW file \in File(s), NEW ms \in Seq(Message(s)), NEW t \in BOOLEAN
    PROVE  Longer(s, file, Written(file, ms, t), ms)
<1> DEFINE l == file.log \o ms
<1>1. l \in Seq(Message(s))
  BY DEF File
<1>2. Written(file, ms, t) = [file EXCEPT !.log = l, !.torn = t]
  BY DEF Written
<1> HIDE DEF l
<1>3. Written(file, ms, t) \in File(s) /\ Written(file, ms, t).log = l
      /\ Written(file, ms, t).linked = file.linked
  BY <1>1, <1>2, ZenonT(60) DEF File
<1> QED  BY <1>3, ZenonT(60) DEF l, Longer

\* A write of nothing changes nothing (LogWriter.Sync).
LEMMA WrittenNothing ==
    ASSUME NEW s, NEW file \in File(s)
    PROVE  Written(file, <<>>, file.torn) = file
<1>1. file.log \o <<>> = file.log
  BY DEF File
<1>2. Written(file, <<>>, file.torn) = [file EXCEPT !.log = file.log, !.torn = file.torn]
  BY <1>1 DEF Written
<1> QED  BY <1>2, ZenonT(60) DEF File

\* An entry in the index leaves the messages alone (IndexFile.Append).
LEMMA NotedFile ==
    ASSUME NEW s, NEW file \in File(s), NEW e \in [seq : Nat, pos : Nat]
    PROVE  /\ Noted(file, e) \in File(s)
           /\ Noted(file, e).log = file.log
           /\ Noted(file, e).linked = file.linked
<1> DEFINE i == Append(file.idx, e)
<1>1. i \in Seq([seq : Nat, pos : Nat])
  BY DEF File
<1>2. Noted(file, e) = [file EXCEPT !.idx = i]
  BY DEF Noted
<1> HIDE DEF i
<1> QED  BY <1>1, <1>2, ZenonT(60) DEF File

\* What a removal leaves of a file (segment.Remove).
LEMMA UnlinkedFile ==
    ASSUME NEW s, NEW file \in File(s), NEW here \in BOOLEAN
    PROVE  /\ Unlinked(file, here) \in File(s)
           /\ Unlinked(file, here).log = file.log
           /\ Unlinked(file, here).torn = file.torn
           /\ Unlinked(file, here).linked = (file.linked /\ ~here)
<1> DEFINE l == file.linked /\ ~here
<1>1. l \in BOOLEAN
  BY ZenonT(60) DEF File
<1>2. Unlinked(file, here) = [file EXCEPT !.linked = l]
  BY DEF Unlinked
<1> HIDE DEF l
<1>3. Unlinked(file, here) \in File(s) /\ Unlinked(file, here).log = file.log
      /\ Unlinked(file, here).torn = file.torn /\ Unlinked(file, here).linked = l
  BY <1>1, <1>2, ZenonT(60) DEF File
<1> QED  BY <1>3 DEF l

\* A file that OpenSegment creates, and the handles of a file (OpenSegment).
LEMMA NewOnes ==
    ASSUME NEW s, NEW b \in Nat, NEW z \in Nat
    PROVE  /\ NewFile \in File(s) /\ NewFile.log = <<>> /\ NewFile.linked
           /\ SizeOf(NewFile) = 0
           /\ NewHandle(b, z) \in Handle(s)
           /\ NewHandle(b, z).base = b /\ NewHandle(b, z).size = z
           /\ NewHandle(b, z).buf = <<>>
BY DEF File, Handle, NewFile, NewHandle, SizeOf

\* The fields of a file; its size counts its torn tail (segment.Size).
LEMMA FileParts ==
    ASSUME NEW s, NEW file \in File(s)
    PROVE  /\ file.log \in Seq(Message(s)) /\ Len(file.log) \in Nat
           /\ file.torn \in BOOLEAN /\ file.linked \in BOOLEAN
           /\ SizeOf(file) \in Nat /\ Len(file.log) <= SizeOf(file)
<1>1. file.log \in Seq(Message(s)) /\ file.torn \in BOOLEAN /\ file.linked \in BOOLEAN
  BY ZenonT(60) DEF File
<1>2. Len(file.log) \in Nat
  BY <1>1
<1>3. PICK z \in {0, 1} : SizeOf(file) = Len(file.log) + z
  BY ZenonT(60) DEF SizeOf
<1> QED  BY <1>1, <1>2, <1>3

\* The fields of a handle (segment).
LEMMA HandleParts ==
    ASSUME NEW s, NEW h \in Handle(s)
    PROVE  /\ h.base \in Nat /\ h.size \in Nat
           /\ h.buf \in Seq(Message(s)) /\ Len(h.buf) \in Nat
<1>1. h.base \in Nat /\ h.size \in Nat /\ h.buf \in Seq(Message(s))
  BY ZenonT(60) DEF Handle
<1> QED  BY <1>1

\* What is left in a buffer after its first k messages are written.
LEMMA DrainedHandle ==
    ASSUME NEW s, NEW h \in Handle(s), NEW k \in 0..Len(h.buf)
    PROVE  /\ Drained(h, k) \in Handle(s)
           /\ Drained(h, k).base = h.base /\ Drained(h, k).size = h.size
           /\ Len(Drained(h, k).buf) = Len(h.buf) - k
           /\ \A j \in 1..Len(h.buf) - k : Drained(h, k).buf[j] = h.buf[k + j]
<1> DEFINE b == SubSeq(h.buf, k + 1, Len(h.buf))
<1>1. h.buf \in Seq(Message(s)) /\ Len(h.buf) \in Nat
  BY DEF Handle
<1>2. /\ b \in Seq(Message(s)) /\ Len(b) = Len(h.buf) - k
      /\ \A j \in 1..Len(h.buf) - k : b[j] = h.buf[k + j]
  BY <1>1
<1>3. Drained(h, k) = [h EXCEPT !.buf = b]
  BY DEF Drained
<1> HIDE DEF b
<1> QED  BY <1>2, <1>3 DEF Handle

\* A message in the buffer (segment.Append).
LEMMA AppendedHandle ==
    ASSUME NEW s, NEW h \in Handle(s), NEW m \in Message(s)
    PROVE  /\ SegmentAppend(h, m) \in Handle(s)
           /\ SegmentAppend(h, m).base = h.base
           /\ SegmentAppend(h, m).size = h.size + 1
           /\ SegmentAppend(h, m).buf = Append(h.buf, m)
<1> DEFINE c == IF Indexed(h) THEN 0 ELSE h.since + 1
<1>1. SegmentAppend(h, m) = [h EXCEPT !.buf = Append(h.buf, m), !.size = h.size + 1, !.since = c]
  BY DEF SegmentAppend
<1>2. c \in Nat /\ h.size + 1 \in Nat
  BY DEF Handle
<1>3. Append(h.buf, m) \in Seq(Message(s))
  BY DEF Handle
<1> DEFINE b == Append(h.buf, m)
           z == h.size + 1
<1>4. SegmentAppend(h, m) = [h EXCEPT !.buf = b, !.size = z, !.since = c]
      /\ b \in Seq(Message(s)) /\ z \in Nat
  BY <1>1, <1>2, <1>3
<1> HIDE DEF b, c, z
<1>5. SegmentAppend(h, m) \in Handle(s) /\ SegmentAppend(h, m).base = h.base
      /\ SegmentAppend(h, m).size = z /\ SegmentAppend(h, m).buf = b
  BY <1>2, <1>4, ZenonT(60) DEF Handle
<1> QED  BY <1>5 DEF b, z

\* The length of two sequences one after the other.
LEMMA LenConcat ==
    ASSUME NEW S, NEW u \in Seq(S), NEW v \in Seq(S)
    PROVE  Len(u \o v) = Len(u) + Len(v)
OBVIOUS

\* The messages of two logs one after the other.
LEMMA MsgsConcat ==
    ASSUME NEW S, NEW u \in Seq(S), NEW v \in Seq(S)
    PROVE  Msgs(u \o v) = Msgs(u) \union Msgs(v)
<1>1. /\ DOMAIN u = 1..Len(u) /\ DOMAIN v = 1..Len(v) /\ DOMAIN (u \o v) = 1..Len(u) + Len(v)
      /\ Len(u) \in Nat /\ Len(v) \in Nat
  OBVIOUS
<1>2. ASSUME NEW k \in 1..Len(u) + Len(v)  PROVE (u \o v)[k] \in Msgs(u) \union Msgs(v)
  <2>1. CASE k <= Len(u)
    BY <1>1, <2>1 DEF Msgs
  <2>2. CASE k > Len(u)
    <3>1. (u \o v)[k] = v[k - Len(u)] /\ k - Len(u) \in 1..Len(v)
      BY <1>1, <2>2
    <3> QED  BY <1>1, <3>1 DEF Msgs
  <2> QED  BY <1>1, <2>1, <2>2
<1>3. ASSUME NEW k \in 1..Len(u)  PROVE u[k] \in Msgs(u \o v)
  <2>1. (u \o v)[k] = u[k] /\ k \in 1..Len(u) + Len(v)
    BY <1>1
  <2> QED  BY <1>1, <2>1 DEF Msgs
<1>4. ASSUME NEW k \in 1..Len(v)  PROVE v[k] \in Msgs(u \o v)
  <2>1. (u \o v)[k + Len(u)] = v[k] /\ k + Len(u) \in 1..Len(u) + Len(v)
    BY <1>1
  <2> QED  BY <1>1, <2>1 DEF Msgs
<1>5. Msgs(u \o v) \subseteq Msgs(u) \union Msgs(v)
  BY <1>1, <1>2 DEF Msgs
<1>6. Msgs(u) \subseteq Msgs(u \o v) /\ Msgs(v) \subseteq Msgs(u \o v)
  BY <1>1, <1>3, <1>4 DEF Msgs
<1> QED  BY <1>5, <1>6

\* A message is stored when a linked file has it.
LEMMA StoredElem ==
    ASSUME NEW f, NEW m
    PROVE  m \in Stored(f) <=> \E b \in Linked(f) : m \in Msgs(f[b].log)
BY ZenonT(60) DEF Stored

\* The files f with w in the place of base b.
Put(f, b, w) == [f EXCEPT ![b] = w]

\* Files F hold the messages ms besides those of files f.
StoredMore(f, F, ms) == Linked(F) = Linked(f) /\ Stored(F) = Stored(f) \union Msgs(ms)

\* A file that grows by ms makes the stored messages grow by those of ms.
LEMMA StoredGrows ==
    ASSUME NEW s, NEW f, FilesOK(s, f), NEW b \in Linked(f),
           NEW w, NEW ms, Longer(s, f[b], w, ms)
    PROVE  StoredMore(f, Put(f, b, w), ms)
<1> DEFINE F == Put(f, b, w)
<1>0. w \in File(s) /\ ms \in Seq(Message(s)) /\ w.linked = f[b].linked /\ w.log = f[b].log \o ms
  BY ZenonT(60) DEF Longer
<1>1. DOMAIN F = DOMAIN f /\ F[b] = w /\ b \in DOMAIN f /\ f[b].linked
      /\ \A c \in DOMAIN f : c # b => F[c] = f[c]
  BY DEF Linked, Put, FilesOK
<1> HIDE DEF F
<1>2. Linked(F) = Linked(f)
  BY <1>0, <1>1, ZenonT(60) DEF Linked
<1>3. Msgs(F[b].log) = Msgs(f[b].log) \union Msgs(ms)
  <2>1. f[b].log \in Seq(Message(s))
    <3>1. f[b] \in File(s)
      BY <1>1 DEF FilesOK
    <3> QED  BY <3>1, FileParts, ZenonT(60)
  <2>2. Msgs(f[b].log \o ms) = Msgs(f[b].log) \union Msgs(ms)
    BY <1>0, <2>1, MsgsConcat
  <2> QED  BY <2>2, <1>0, <1>1, ZenonT(60)
<1>4. \A c \in Linked(f) : c # b => F[c].log = f[c].log
  BY <1>1 DEF Linked
<1>5. Stored(F) \subseteq Stored(f) \union Msgs(ms)
  <2>1. SUFFICES ASSUME NEW c \in Linked(f), NEW m \in Msgs(F[c].log)
                 PROVE  m \in Stored(f) \union Msgs(ms)
    BY <1>2 DEF Stored
  <2>2. m \in Msgs(f[c].log) \/ m \in Msgs(ms)
    BY <1>3, <1>4
  <2> QED  BY <2>2 DEF Stored
<1>6. Stored(f) \subseteq Stored(F)
  <2>1. SUFFICES ASSUME NEW c \in Linked(f), NEW m \in Msgs(f[c].log)
                 PROVE  m \in Stored(F)
    BY ZenonT(60) DEF Stored
  <2>2. m \in Msgs(F[c].log)
    BY <1>3, <1>4, ZenonT(60)
  <2> QED  BY <1>2, <2>2 DEF Stored
<1>7. Msgs(ms) \subseteq Stored(F)
  BY <1>2, <1>3 DEF Stored
<1>8. Linked(F) = Linked(f) /\ Stored(F) = Stored(f) \union Msgs(ms)
  BY <1>2, <1>5, <1>6, <1>7, ZenonT(60)
<1> QED  BY <1>8, ZenonT(60) DEF F, StoredMore

\* The last handle and its file are replaced by others whose sizes agree: the handles
\* fit as before.
LEMMA FitPut ==
    ASSUME NEW s, NEW f, FilesOK(s, f), NEW g \in Seq(Handle(s)),
           HandlesFit(f, g, TRUE), NEW w \in File(s), NEW H \in Handle(s), w.linked,
           H.base = g[Len(g)].base, H.size = Len(w.log) + Len(H.buf)
    PROVE  /\ FilesOK(s, Put(f, H.base, w)) /\ Put(g, Len(g), H) \in Seq(Handle(s))
           /\ HandlesFit(Put(f, H.base, w), Put(g, Len(g), H), TRUE)
<1> DEFINE F == Put(f, H.base, w)
           G == Put(g, Len(g), H)
<1>1. PICK n : n = Len(g)
  OBVIOUS
<1>2. n \in Nat /\ n # 0 /\ n \in 1..n
  BY <1>1 DEF HandlesFit
<1>3. G \in Seq(Handle(s)) /\ Len(G) = n /\ G[n] = H
      /\ \A j \in 1..n : j # n => G[j] = g[j]
  BY <1>1, <1>2 DEF Put
<1>4. H.base \in DOMAIN f /\ f[H.base].linked
  BY <1>1, <1>2 DEF HandlesFit, Linked
<1>5. DOMAIN F = DOMAIN f /\ F[H.base] = w /\ FilesOK(s, F)
      /\ \A c \in DOMAIN f : c # H.base => F[c] = f[c]
  BY <1>4 DEF FilesOK, Put
<1> HIDE DEF F, G
<1>6. Linked(F) = Linked(f)
  BY <1>4, <1>5 DEF Linked
<1>7. \A j \in 1..n : G[j].base = g[j].base
  BY <1>1, <1>3
<1>8. \A j \in 1..n : j # n => g[j].base # H.base
  <2> SUFFICES ASSUME NEW j \in 1..n, j # n  PROVE g[j].base # H.base
    OBVIOUS
  <2>1. j < n /\ g[j] \in Handle(s) /\ g[n] \in Handle(s)
    BY <1>1, <1>2
  <2>2. g[j].base < g[n].base
    BY <1>1, <1>2, <2>1 DEF HandlesFit
  <2>3. g[j].base \in Nat /\ g[n].base \in Nat
    BY <2>1, HandleParts, ZenonT(60)
  <2> QED  BY <1>1, <2>2, <2>3
<1>9. \A j \in 1..n : j < n => G[j].buf = <<>>
  BY <1>1, <1>2, <1>3 DEF HandlesFit
<1>10. ASSUME NEW j \in 1..n  PROVE G[j].size = Len(F[G[j].base].log) + Len(G[j].buf)
  <2>1. g[j].size = Len(f[g[j].base].log) + Len(g[j].buf)
    BY <1>1, ZenonT(60) DEF HandlesFit
  <2>2. CASE j = n
    BY <1>3, <1>5, <2>2, ZenonT(60)
  <2>3. CASE j # n
    <3>1. g[j].base \in DOMAIN f
      BY <1>1 DEF HandlesFit, Linked
    <3>2. G[j] = g[j] /\ F[g[j].base] = f[g[j].base]
      BY <1>3, <1>5, <1>8, <2>3, <3>1
    <3> QED  BY <2>1, <3>2, ZenonT(60)
  <2> QED  BY <2>2, <2>3, ZenonT(60)
<1>11. HandlesFit(F, G, TRUE)
  <2>1. \A j \in 1..Len(G) : G[j].base \in Linked(F)
    BY <1>1, <1>3, <1>6, <1>7 DEF HandlesFit
  <2>2. \A j, l \in 1..Len(G) : j < l => G[j].base < G[l].base
    BY <1>1, <1>3, <1>7 DEF HandlesFit
  <2>3. G # <<>>
    BY <1>2, <1>3
  <2>4. /\ \A j \in 1..Len(G) : j < Len(G) => G[j].buf = <<>>
        /\ \A j \in 1..Len(G) : G[j].size = Len(F[G[j].base].log) + Len(G[j].buf)
    BY <1>3, <1>9, <1>10, ZenonT(60)
  <2> QED  BY <2>1, <2>2, <2>3, <2>4, ZenonT(60) DEF HandlesFit
<1> QED  BY <1>3, <1>5, <1>11, ZenonT(60) DEF F, G

\* Numbers up to d, and the next k of them.
LEMMA NumbersGrow ==
    ASSUME NEW s, NEW S, NEW buf, NEW d \in Nat, NEW n \in Nat, NEW k \in 0..n - d,
           buf \in Seq(Message(s)), Follows(s, buf, d, n), UpTo(S, d)
    PROVE  UpTo(S \union Msgs(SubSeq(buf, 1, k)), d + k)
<1>1. Len(buf) = n - d /\ Len(buf) \in Nat /\ \A j \in 1..k : buf[j] = <<s, d + j>>
  BY DEF Follows
<1>2. DOMAIN SubSeq(buf, 1, k) = 1..k /\ \A j \in 1..k : SubSeq(buf, 1, k)[j] = buf[j]
  BY <1>1
<1>3. \A m \in Msgs(SubSeq(buf, 1, k)) : m[2] \in d + 1..d + k
  <2> SUFFICES ASSUME NEW j \in 1..k  PROVE SubSeq(buf, 1, k)[j][2] \in d + 1..d + k
    BY <1>2, ZenonT(60) DEF Msgs
  <2>1. SubSeq(buf, 1, k)[j] = <<s, d + j>>
    BY <1>1, <1>2, ZenonT(60)
  <2>2. <<s, d + j>>[2] = d + j /\ d + j \in d + 1..d + k
    OBVIOUS
  <2> QED  BY <2>1, <2>2, ZenonT(60)
<1>4. \A i \in d + 1..d + k : \E m \in Msgs(SubSeq(buf, 1, k)) : m[2] = i
  <2> SUFFICES ASSUME NEW i \in d + 1..d + k
               PROVE  \E m \in Msgs(SubSeq(buf, 1, k)) : m[2] = i
    OBVIOUS
  <2>1. PICK j \in 1..k : d + j = i
    <3>1. i - d \in 1..k /\ d + (i - d) = i
      OBVIOUS
    <3> QED  BY <3>1, ZenonT(60)
  <2>2. SubSeq(buf, 1, k)[j] = <<s, d + j>>
    BY <1>1, <1>2, ZenonT(60)
  <2>3. <<s, d + j>>[2] = i
    BY <2>1
  <2>4. SubSeq(buf, 1, k)[j] \in Msgs(SubSeq(buf, 1, k))
    BY <1>2, ZenonT(60) DEF Msgs
  <2> QED  BY <2>2, <2>3, <2>4, ZenonT(60)
<1>5. {m[2] : m \in Msgs(SubSeq(buf, 1, k))} = d + 1..d + k
  BY <1>3, <1>4, ZenonT(60)
<1>6. (1..d) \union (d + 1..d + k) = 1..d + k
  OBVIOUS
<1>7. {m[2] : m \in S \union Msgs(SubSeq(buf, 1, k))}
        = {m[2] : m \in S} \union {m[2] : m \in Msgs(SubSeq(buf, 1, k))}
  BY ZenonT(60)
<1> QED  BY <1>5, <1>6, <1>7, ZenonT(60) DEF UpTo

\* Writing k of the buffered messages moves them from the buffer to the file
\* (LogWriter.Append, LogWriter.Sync).
LEMMA WriteOK ==
    ASSUME NEW s, NEW f, NEW g, NEW top, NEW n, NEW d, NEW x, NEW y,
           LogOK(s, f, g, TRUE, top, n, d, x, y),
           NEW k \in 0..Len(g[Len(g)].buf), NEW t \in BOOLEAN,
           NEW F, F = Put(f, g[Len(g)].base,
                          Written(f[g[Len(g)].base], SubSeq(g[Len(g)].buf, 1, k), t)),
           NEW G, G = Put(g, Len(g), Drained(g[Len(g)], k))
    PROVE  /\ LogOK(s, F, G, TRUE, top, n, d + k, x, y)
           /\ StoredMore(f, F, SubSeq(g[Len(g)].buf, 1, k))
<1> DEFINE h == g[Len(g)]
           b == h.base
           ms == SubSeq(h.buf, 1, k)
           w == Written(f[b], ms, t)
           H == Drained(h, k)
<1>1. /\ FilesOK(s, f) /\ DOMAIN f \subseteq 0..top /\ g \in Seq(Handle(s))
      /\ HandlesFit(f, g, TRUE) /\ Linked(f) # {} /\ d \in 0..n /\ n \in Nat /\ top \in Nat
      /\ UpTo(Stored(f) \union x, d) /\ Follows(s, h.buf, d, n)
      /\ y \subseteq Stored(f) \union x
  BY ZenonT(60) DEF LogOK
<1>2. Len(g) \in Nat /\ Len(g) # 0 /\ Len(g) \in 1..Len(g)
  BY <1>1 DEF HandlesFit
<1>3. h \in Handle(s) /\ h.buf \in Seq(Message(s)) /\ Len(h.buf) \in Nat
  <2>1. h \in Handle(s)
    BY <1>1, <1>2
  <2> QED  BY <2>1, HandleParts, ZenonT(60)
<1>4. b \in Linked(f) /\ b \in DOMAIN f /\ f[b] \in File(s) /\ f[b].linked
  BY <1>1, <1>2 DEF HandlesFit, Linked, FilesOK
<1>5. f[b].log \in Seq(Message(s)) /\ ms \in Seq(Message(s)) /\ Len(ms) = k
  <2>1. f[b].log \in Seq(Message(s))
    BY <1>4, FileParts, ZenonT(60)
  <2>2. ms \in Seq(Message(s)) /\ Len(ms) = k
    BY <1>3
  <2> QED  BY <2>1, <2>2, ZenonT(60)
<1> HIDE DEF ms, h, b
<1>6. w \in File(s) /\ w.log = f[b].log \o ms /\ w.linked
  <2>1. f[b] \in File(s) /\ ms \in Seq(Message(s)) /\ f[b].linked
    BY <1>4, <1>5, ZenonT(60)
  <2>2. w \in File(s) /\ w.log = f[b].log \o ms /\ w.linked = f[b].linked
    BY <2>1, WrittenFile, ZenonT(60) DEF Longer
  <2> QED  BY <2>1, <2>2, ZenonT(60)
<1> HIDE DEF w
<1>7. Len(w.log) = Len(f[b].log) + k
  <2>1. Len(f[b].log \o ms) = Len(f[b].log) + Len(ms)
    BY <1>5, LenConcat, ZenonT(60)
  <2> QED  BY <1>5, <1>6, <2>1, ZenonT(60)
<1>8. /\ H \in Handle(s) /\ H.base = b /\ H.size = h.size
      /\ Len(H.buf) = Len(h.buf) - k
      /\ \A j \in 1..Len(h.buf) - k : H.buf[j] = h.buf[k + j]
  <2>1. k \in 0..Len(h.buf)
    BY DEF h
  <2> QED  BY <1>3, <2>1, DrainedHandle, ZenonT(60) DEF b
<1> HIDE DEF H
<1>9. F = Put(f, b, w) /\ G = Put(g, Len(g), H)
  BY ZenonT(60) DEF w, H, ms, b, h
<1>10. FilesOK(s, F) /\ G \in Seq(Handle(s)) /\ HandlesFit(F, G, TRUE)
  <2>1. /\ FilesOK(s, Put(f, H.base, w)) /\ Put(g, Len(g), H) \in Seq(Handle(s))
        /\ HandlesFit(Put(f, H.base, w), Put(g, Len(g), H), TRUE)
    <3>1. PICK p, q : p = Len(h.buf) /\ q = Len(f[b].log)
      BY ZenonT(60)
    <3>2. p \in Nat /\ q \in Nat
      BY <1>3, <1>4, <3>1, FileParts, ZenonT(60)
    <3>3. h.size = q + p
      BY <1>1, <1>2, <3>1, ZenonT(60) DEF HandlesFit, b, h
    <3>4. q + p = (q + k) + (p - k)
      BY <3>2
    <3>5. H.base = g[Len(g)].base /\ H.size = Len(w.log) + Len(H.buf)
      BY <1>7, <1>8, <3>1, <3>3, <3>4, ZenonT(60) DEF b, h
    <3>6. w \in File(s) /\ H \in Handle(s) /\ w.linked
      BY <1>6, <1>8, ZenonT(60)
    <3> QED  BY <1>1, <3>5, <3>6, FitPut, ZenonT(60)
  <2> QED  BY <1>8, <1>9, <2>1, ZenonT(60)
<1>11. DOMAIN F = DOMAIN f /\ Len(G) = Len(g) /\ G[Len(G)] = H
  BY <1>1, <1>2, <1>9 DEF Put
<1>12. Linked(F) = Linked(f) /\ Stored(F) = Stored(f) \union Msgs(ms)
  <2>1. FilesOK(s, f) /\ b \in Linked(f) /\ Longer(s, f[b], w, ms)
    BY <1>1, <1>4, <1>5, <1>6, ZenonT(60) DEF Longer
  <2>2. StoredMore(f, Put(f, b, w), ms)
    BY <2>1, StoredGrows, ZenonT(60)
  <2> QED  BY <1>9, <2>2, ZenonT(60) DEF StoredMore
<1>13. UpTo(Stored(F) \union x, d + k)
  <2>1. k \in 0..n - d /\ d \in Nat
    BY <1>1, <1>3 DEF Follows, h
  <2>2. /\ d \in Nat /\ n \in Nat /\ k \in 0..n - d /\ h.buf \in Seq(Message(s))
        /\ Follows(s, h.buf, d, n) /\ UpTo(Stored(f) \union x, d)
    BY <1>1, <1>3, <2>1, ZenonT(60) DEF h
  <2>3. UpTo((Stored(f) \union x) \union Msgs(SubSeq(h.buf, 1, k)), d + k)
    BY <2>2, NumbersGrow, ZenonT(60)
  <2>4. (Stored(f) \union x) \union Msgs(ms) = Stored(F) \union x
    BY <1>12, ZenonT(60)
  <2> QED  BY <2>3, <2>4, ZenonT(60) DEF ms
<1>14. Follows(s, H.buf, d + k, n) /\ d + k \in 0..n
  <2>1. PICK l : l = Len(h.buf)
    BY ZenonT(60)
  <2>2. l = n - d /\ l \in Nat /\ k \in 0..l /\ \A j \in 1..l : h.buf[j] = <<s, d + j>>
    BY <1>1, <1>3, <2>1, ZenonT(60) DEF Follows, h
  <2>3. d + k \in 0..n /\ l - k = n - (d + k)
        /\ \A j \in 1..l - k : k + j \in 1..l /\ d + (k + j) = (d + k) + j
    BY <1>1, <2>2
  <2>4. \A j \in 1..l - k : H.buf[j] = <<s, (d + k) + j>>
    BY <1>8, <2>1, <2>2, <2>3, ZenonT(60)
  <2>5. Len(H.buf) = l - k
    BY <1>8, <2>1, ZenonT(60)
  <2> QED  BY <2>3, <2>4, <2>5, ZenonT(60) DEF Follows
<1>15. y \subseteq Stored(F) \union x
  BY <1>1, <1>12, ZenonT(60)
<1>16. LogOK(s, F, G, TRUE, top, n, d + k, x, y)
  BY <1>1, <1>10, <1>11, <1>12, <1>13, <1>14, <1>15, ZenonT(60) DEF LogOK
<1> QED  BY <1>12, <1>16, ZenonT(60) DEF StoredMore, ms, h

\* A log written to the end has an empty file put at its end (SegmentManager.Append,
\* OpenSegment).
LEMMA OpenOK ==
    ASSUME NEW s, NEW f, NEW g, NEW n, NEW x, NEW y, LogOK(s, f, g, TRUE, n, n, n, x, y),
           NEW F, F = Opened(f, n + 1),
           NEW G, G = Append(g, NewHandle(n + 1, SizeOf(F[n + 1])))
    PROVE  LogOK(s, F, G, TRUE, n + 1, n, n, x, y)
<1>1. /\ FilesOK(s, f) /\ DOMAIN f \subseteq 0..n /\ g \in Seq(Handle(s))
      /\ HandlesFit(f, g, TRUE) /\ Linked(f) # {} /\ n \in Nat
      /\ UpTo(Stored(f) \union x, n) /\ Follows(s, g[Len(g)].buf, n, n)
      /\ y \subseteq Stored(f) \union x
  BY ZenonT(60) DEF LogOK
<1>2. PICK q : q = n + 1
  BY ZenonT(60)
<1>3. q \in Nat /\ q \notin 0..n /\ 0..n \subseteq 0..q /\ q \in 0..q
  BY <1>1, <1>2
<1>4. q \notin DOMAIN f
  BY <1>1, <1>3, ZenonT(60)
<1>5. F = [b \in DOMAIN f \union {q} |-> IF b = q THEN NewFile ELSE f[b]]
  BY <1>2, <1>4, ZenonT(60) DEF Opened, Linked
<1>6. /\ DOMAIN F = DOMAIN f \union {q} /\ F[q] = NewFile
      /\ \A b \in DOMAIN f : F[b] = f[b] /\ b # q
  BY <1>4, <1>5, ZenonT(60)
<1>7. /\ NewFile \in File(s) /\ NewFile.log = <<>> /\ NewFile.linked /\ SizeOf(NewFile) = 0
      /\ NewHandle(q, 0) \in Handle(s) /\ NewHandle(q, 0).base = q
      /\ NewHandle(q, 0).size = 0 /\ NewHandle(q, 0).buf = <<>>
  <2>1. 0 \in Nat
    OBVIOUS
  <2> QED  BY <1>3, <2>1, NewOnes, ZenonT(60)
<1>8. FilesOK(s, F)
  <2>1. \A b \in DOMAIN F : F[b] \in File(s)
    BY <1>1, <1>6, <1>7 DEF FilesOK
  <2>2. F \in [DOMAIN F -> File(s)]
    BY <1>5, <2>1
  <2> QED  BY <2>2 DEF FilesOK
<1>9. Linked(F) = Linked(f) \union {q}
  BY <1>6, <1>7, ZenonT(60) DEF Linked
<1>10. Stored(F) = Stored(f)
  <2>1. \A b \in Linked(f) : Msgs(F[b].log) = Msgs(f[b].log)
    BY <1>6, ZenonT(60) DEF Linked
  <2>2. Msgs(F[q].log) = {}
    BY <1>6, <1>7 DEF Msgs
  <2>3. ASSUME NEW m  PROVE m \in Stored(F) <=> m \in Stored(f)
    <3>1. m \in Stored(F) <=> \E b \in Linked(F) : m \in Msgs(F[b].log)
      BY StoredElem, ZenonT(60)
    <3>2. m \in Stored(f) <=> \E b \in Linked(f) : m \in Msgs(f[b].log)
      BY StoredElem, ZenonT(60)
    <3> QED  BY <1>9, <2>1, <2>2, <3>1, <3>2, ZenonT(60)
  <2> QED  BY <2>3, ZenonT(60)
<1>11. PICK l : l = Len(g)
  BY ZenonT(60)
<1>12. l \in Nat /\ l # 0 /\ l \in 1..l
  BY <1>1, <1>11 DEF HandlesFit
<1>13. G = Append(g, NewHandle(q, 0))
  BY <1>2, <1>6, <1>7, ZenonT(60)
<1>14. G \in Seq(Handle(s)) /\ Len(G) = l + 1 /\ G[l + 1] = NewHandle(q, 0)
       /\ \A j \in 1..l : G[j] = g[j]
  BY <1>1, <1>7, <1>11, <1>13
<1>15. \A j \in 1..l + 1 : j \in 1..l \/ j = l + 1
  BY <1>12
<1>16. \A j \in 1..l : g[j].base \in Linked(f) /\ g[j].base \in DOMAIN f
  BY <1>1, <1>11, ZenonT(60) DEF HandlesFit, Linked
<1>17. \A j \in 1..l + 1 : G[j].base \in Linked(F)
  <2>1. \A j \in 1..l : G[j].base \in Linked(F)
    BY <1>9, <1>14, <1>16, ZenonT(60)
  <2>2. G[l + 1].base \in Linked(F)
    BY <1>7, <1>9, <1>14, ZenonT(60)
  <2> QED  BY <1>15, <2>1, <2>2, ZenonT(60)
<1>18. ASSUME NEW j \in 1..l + 1, NEW k \in 1..l + 1, j < k
       PROVE  G[j].base < G[k].base
  <2>1. j \in 1..l
    BY <1>12, <1>18
  <2>2. CASE k \in 1..l
    <3>1. g[j].base < g[k].base
      BY <1>1, <1>11, <1>18, <2>1, <2>2, ZenonT(60) DEF HandlesFit
    <3> QED  BY <1>14, <2>1, <2>2, <3>1, ZenonT(60)
  <2>3. CASE k = l + 1
    <3>1. g[j].base \in 0..n
      BY <1>1, <1>16, <2>1, ZenonT(60)
    <3>2. \A b \in 0..n : b < q
      BY <1>1, <1>2
    <3>3. G[j] = g[j] /\ G[k].base = q
      BY <1>7, <1>14, <2>1, <2>3, ZenonT(60)
    <3> QED  BY <3>1, <3>2, <3>3, ZenonT(60)
  <2> QED  BY <1>15, <2>2, <2>3, ZenonT(60)
<1>19. ASSUME NEW j \in 1..l  PROVE g[j].buf = <<>>
  <2>1. CASE j = l
    <3>1. g[l].buf \in Seq(Message(s)) /\ Len(g[l].buf) = n - n
      <4>1. g[l] \in Handle(s)
        BY <1>1, <1>11, <1>12
      <4> QED  BY <1>1, <1>11, <4>1, HandleParts, ZenonT(60) DEF Follows
    <3>2. n - n = 0
      BY <1>1
    <3>3. \A u \in Seq(Message(s)) : Len(u) = 0 => u = <<>>
      OBVIOUS
    <3> QED  BY <2>1, <3>1, <3>2, <3>3, ZenonT(60)
  <2>2. CASE j # l
    <3>1. j < l
      BY <1>12, <2>2
    <3> QED  BY <1>1, <1>11, <3>1, ZenonT(60) DEF HandlesFit
  <2> QED  BY <2>1, <2>2, ZenonT(60)
<1>20. \A j \in 1..l + 1 : G[j].buf = <<>>
  <2>1. \A j \in 1..l : G[j].buf = <<>>
    BY <1>14, <1>19, ZenonT(60)
  <2>2. G[l + 1].buf = <<>>
    BY <1>7, <1>14, ZenonT(60)
  <2> QED  BY <1>15, <2>1, <2>2, ZenonT(60)
<1>21. ASSUME NEW j \in 1..l + 1  PROVE G[j].size = Len(F[G[j].base].log) + Len(G[j].buf)
  <2>1. CASE j \in 1..l
    <3>1. g[j].size = Len(f[g[j].base].log) + Len(g[j].buf)
      BY <1>1, <1>11, <2>1, ZenonT(60) DEF HandlesFit
    <3>2. G[j] = g[j] /\ F[g[j].base] = f[g[j].base]
      BY <1>6, <1>14, <1>16, <2>1, ZenonT(60)
    <3> QED  BY <3>1, <3>2, ZenonT(60)
  <2>2. CASE j = l + 1
    <3>1. G[j].size = 0 /\ F[G[j].base].log = <<>> /\ G[j].buf = <<>>
      <4>1. G[j] = NewHandle(q, 0)
        BY <1>14, <2>2, ZenonT(60)
      <4>2. F[q].log = <<>>
        BY <1>6, <1>7, ZenonT(60)
      <4> QED  BY <1>7, <4>1, <4>2, ZenonT(60)
    <3>2. PICK e : e = <<>>
      BY ZenonT(60)
    <3>3. Len(e) + Len(e) = 0
      BY <3>2
    <3>4. G[j].size = 0 /\ F[G[j].base].log = e /\ G[j].buf = e
      BY <3>1, <3>2, ZenonT(60)
    <3> QED  BY <3>3, <3>4, ZenonT(60)
  <2> QED  BY <1>15, <2>1, <2>2, ZenonT(60)
<1>22. G # <<>>
  BY <1>12, <1>14
<1>23. HandlesFit(F, G, TRUE)
  BY <1>14, <1>17, <1>18, <1>20, <1>21, <1>22, ZenonT(60) DEF HandlesFit
<1>24. Follows(s, G[Len(G)].buf, n, n)
  <2>1. G[Len(G)].buf = <<>>
    BY <1>7, <1>14, ZenonT(60)
  <2>2. Len(<<>>) = n - n /\ 1..Len(<<>>) = {}
    BY <1>1
  <2> QED  BY <2>1, <2>2, ZenonT(60) DEF Follows
<1>25. DOMAIN F \subseteq 0..n + 1 /\ n + 1 \in Nat /\ n \in 0..n /\ Linked(F) # {}
  <2>1. DOMAIN F \subseteq 0..q
    BY <1>1, <1>3, <1>6, ZenonT(60)
  <2>2. n \in 0..n
    BY <1>1
  <2> QED  BY <1>2, <1>3, <1>9, <2>1, <2>2, ZenonT(60)
<1> QED  BY <1>1, <1>8, <1>10, <1>14, <1>23, <1>24, <1>25, ZenonT(60) DEF LogOK

\* The next message goes to the end of the buffer, with or without an entry in the
\* index (segment.Append).
LEMMA AppendOK ==
    ASSUME NEW s, NEW f, NEW g, NEW top, NEW n, NEW d, NEW x, NEW y,
           LogOK(s, f, g, TRUE, top, n, d, x, y), top \in 0..n + 1,
           NEW w, Longer(s, f[g[Len(g)].base], w, <<>>),
           NEW F, F = Put(f, g[Len(g)].base, w),
           NEW G, G = Put(g, Len(g), SegmentAppend(g[Len(g)], <<s, n + 1>>))
    PROVE  LogOK(s, F, G, TRUE, n + 1, n + 1, d, x, y)
<1> DEFINE h == g[Len(g)]
           b == h.base
           q == n + 1
           H == SegmentAppend(h, <<s, q>>)
<1>1. /\ FilesOK(s, f) /\ DOMAIN f \subseteq 0..top /\ g \in Seq(Handle(s))
      /\ HandlesFit(f, g, TRUE) /\ Linked(f) # {} /\ d \in 0..n /\ n \in Nat /\ top \in Nat
      /\ UpTo(Stored(f) \union x, d) /\ Follows(s, h.buf, d, n)
      /\ y \subseteq Stored(f) \union x
  BY ZenonT(60) DEF LogOK
<1>2. Len(g) \in Nat /\ Len(g) # 0 /\ Len(g) \in 1..Len(g)
  BY <1>1 DEF HandlesFit
<1>3. h \in Handle(s) /\ h.buf \in Seq(Message(s)) /\ Len(h.buf) \in Nat /\ h.size \in Nat
  <2>1. h \in Handle(s)
    BY <1>1, <1>2
  <2> QED  BY <2>1, HandleParts, ZenonT(60)
<1>4. b \in Linked(f) /\ b \in DOMAIN f /\ f[b] \in File(s) /\ f[b].linked
  <2>1. b \in Linked(f)
    BY <1>1, <1>2, ZenonT(60) DEF HandlesFit
  <2>2. b \in DOMAIN f /\ f[b].linked
    BY <2>1, ZenonT(60) DEF Linked
  <2> QED  BY <1>1, <2>1, <2>2, ZenonT(60) DEF FilesOK
<1>5. f[b].log \in Seq(Message(s)) /\ Len(f[b].log) \in Nat
  BY <1>4, FileParts, ZenonT(60)
<1>6. w \in File(s) /\ w.linked /\ w.log = f[b].log
  <2>1. w \in File(s) /\ w.linked = f[b].linked /\ w.log = f[b].log \o <<>>
    BY ZenonT(60) DEF Longer
  <2>2. f[b].log \o <<>> = f[b].log
    BY <1>5
  <2> QED  BY <1>4, <2>1, <2>2, ZenonT(60)
<1>7. <<s, q>> \in Message(s) /\ q \in Nat
  BY <1>1 DEF Message
<1> HIDE DEF q, h, b
<1>8. /\ H \in Handle(s) /\ H.base = b /\ H.size = h.size + 1
      /\ H.buf = Append(h.buf, <<s, q>>)
  BY <1>3, <1>7, AppendedHandle, ZenonT(60) DEF b
<1> HIDE DEF H
<1>9. F = Put(f, b, w) /\ G = Put(g, Len(g), H)
  BY ZenonT(60) DEF H, q, b, h
<1>10. /\ Len(H.buf) = Len(h.buf) + 1 /\ H.buf[Len(h.buf) + 1] = <<s, q>>
       /\ \A j \in 1..Len(h.buf) : H.buf[j] = h.buf[j]
  <2>1. PICK u, e : u = h.buf /\ e = <<s, q>>
    BY ZenonT(60)
  <2>2. u \in Seq(Message(s)) /\ e \in Message(s)
    BY <1>3, <1>7, <2>1, ZenonT(60)
  <2>3. /\ Len(Append(u, e)) = Len(u) + 1 /\ Append(u, e)[Len(u) + 1] = e
        /\ \A j \in 1..Len(u) : Append(u, e)[j] = u[j]
    BY <2>2
  <2> QED  BY <1>8, <2>1, <2>3, ZenonT(60)
<1>11. FilesOK(s, F) /\ G \in Seq(Handle(s)) /\ HandlesFit(F, G, TRUE)
  <2>1. PICK i, j : i = Len(h.buf) /\ j = Len(f[b].log)
    BY ZenonT(60)
  <2>2. h.size = j + i
    BY <1>1, <1>2, <2>1, ZenonT(60) DEF HandlesFit, b, h
  <2>3. (j + i) + 1 = j + (i + 1)
    <3>1. i \in Nat /\ j \in Nat
      BY <1>3, <1>5, <2>1, ZenonT(60)
    <3> QED  BY <3>1
  <2>4. H.size = Len(w.log) + Len(H.buf) /\ H.base = g[Len(g)].base
    BY <1>6, <1>8, <1>10, <2>1, <2>2, <2>3, ZenonT(60) DEF b, h
  <2>5. w \in File(s) /\ H \in Handle(s) /\ w.linked
    BY <1>6, <1>8, ZenonT(60)
  <2>6. /\ FilesOK(s, Put(f, H.base, w)) /\ Put(g, Len(g), H) \in Seq(Handle(s))
        /\ HandlesFit(Put(f, H.base, w), Put(g, Len(g), H), TRUE)
    BY <1>1, <2>4, <2>5, FitPut, ZenonT(60)
  <2> QED  BY <1>8, <1>9, <2>6, ZenonT(60)
<1>12. DOMAIN F = DOMAIN f /\ Len(G) = Len(g) /\ G[Len(G)] = H
  <2>1. DOMAIN F = DOMAIN f
    BY <1>9, ZenonT(60) DEF Put
  <2>2. Len(G) = Len(g) /\ G[Len(g)] = H
    BY <1>1, <1>2, <1>9 DEF Put
  <2> QED  BY <2>1, <2>2, ZenonT(60)
<1>13. Linked(F) = Linked(f) /\ Stored(F) = Stored(f)
  <2>1. StoredMore(f, Put(f, b, w), <<>>)
    <3>1. FilesOK(s, f) /\ b \in Linked(f) /\ Longer(s, f[b], w, <<>>)
      BY <1>1, <1>4, ZenonT(60) DEF b, h
    <3> QED  BY <3>1, StoredGrows, ZenonT(60)
  <2>2. Msgs(<<>>) = {}
    BY DEF Msgs
  <2> QED  BY <1>9, <2>1, <2>2, ZenonT(60) DEF StoredMore
<1>14. Follows(s, H.buf, d, q)
  <2>1. PICK l : l = Len(h.buf)
    BY ZenonT(60)
  <2>2. l = n - d /\ l \in Nat /\ \A j \in 1..l : h.buf[j] = <<s, d + j>>
    BY <1>1, <1>3, <2>1, ZenonT(60) DEF Follows, h
  <2>3. l + 1 = q - d /\ d + (l + 1) = q /\ \A j \in 1..l + 1 : j \in 1..l \/ j = l + 1
    BY <1>1, <2>2 DEF q
  <2>4. \A j \in 1..l : H.buf[j] = <<s, d + j>>
    BY <1>10, <2>1, <2>2, ZenonT(60)
  <2>5. H.buf[l + 1] = <<s, d + (l + 1)>>
    BY <1>10, <2>1, <2>3, ZenonT(60)
  <2>6. \A j \in 1..l + 1 : H.buf[j] = <<s, d + j>>
    BY <2>3, <2>4, <2>5, ZenonT(60)
  <2> QED  BY <1>10, <2>1, <2>3, <2>6, ZenonT(60) DEF Follows
<1>15. d \in 0..q /\ q \in Nat /\ DOMAIN F \subseteq 0..q
  <2>1. d \in 0..q /\ 0..top \subseteq 0..q
    BY <1>1 DEF q
  <2> QED  BY <1>1, <1>7, <1>12, <2>1, ZenonT(60)
<1>16. LogOK(s, F, G, TRUE, q, q, d, x, y)
  BY <1>1, <1>11, <1>12, <1>13, <1>14, <1>15, ZenonT(60) DEF LogOK
<1> QED  BY <1>16, ZenonT(60) DEF q

\* The process stops: the buffers and the handles are gone, the files are not.
LEMMA StopOK ==
    ASSUME NEW s, NEW f, NEW g, NEW a, NEW top, NEW n, NEW d, NEW x, NEW y,
           LogOK(s, f, g, a, top, n, d, x, y)
    PROVE  LogOK(s, f, <<>>, FALSE, top, n, d, x, y)
<1>1. <<>> \in Seq(Handle(s)) /\ 1..Len(<<>>) = {} /\ FALSE \in BOOLEAN
  OBVIOUS
<1>2. HandlesFit(f, <<>>, FALSE)
  BY <1>1, ZenonT(60) DEF HandlesFit
<1> QED  BY <1>1, <1>2, ZenonT(60) DEF LogOK

\* Names in the order in which loadSegments opens the files, and the handles it gets.
Sorted(bases, c, S) ==
    bases \in [1..c -> S] /\ \A j, k \in 1..c : j < k => bases[j] < bases[k]
Handles(f, bases, c) == [j \in 1..c |-> NewHandle(bases[j], SizeOf(f[bases[j]]))]

\* The files are opened again in the order of their names (loadSegments).
LEMMA ReopenOK ==
    ASSUME NEW s, NEW f, NEW g, NEW a, NEW top, NEW n, NEW d, NEW x, NEW y,
           LogOK(s, f, g, a, top, n, d, x, y),
           NEW c \in Nat, NEW bases, Sorted(bases, c, Linked(f))
    PROVE  LogOK(s, f, Handles(f, bases, c), FALSE, top, n, d, x, y)
<1> DEFINE G == Handles(f, bases, c)
<1>0. bases \in [1..c -> Linked(f)] /\ \A j, k \in 1..c : j < k => bases[j] < bases[k]
  BY ZenonT(60) DEF Sorted
<1> HIDE DEF G
<1>1. FilesOK(s, f) /\ DOMAIN f \subseteq 0..top /\ top \in Nat
  BY ZenonT(60) DEF LogOK
<1>2. ASSUME NEW j \in 1..c
      PROVE  /\ bases[j] \in Linked(f) /\ bases[j] \in Nat /\ f[bases[j]] \in File(s)
             /\ SizeOf(f[bases[j]]) \in Nat
             /\ SizeOf(f[bases[j]]) \in Len(f[bases[j]].log) .. SizeOf(f[bases[j]])
  <2>1. bases[j] \in Linked(f) /\ bases[j] \in DOMAIN f /\ f[bases[j]] \in File(s)
    BY <1>0, <1>1, ZenonT(60) DEF Linked, FilesOK
  <2>2. PICK l, z : l = Len(f[bases[j]].log) /\ z = SizeOf(f[bases[j]])
    BY ZenonT(60)
  <2>3. l \in Nat /\ z \in Nat /\ l <= z
    BY <2>1, <2>2, FileParts, ZenonT(60)
  <2>4. z \in l .. z
    BY <2>3
  <2>5. \A b \in 0..top : b \in Nat
    BY <1>1
  <2> QED  BY <1>1, <2>1, <2>2, <2>3, <2>4, <2>5, ZenonT(60)
<1>3. ASSUME NEW j \in 1..c
      PROVE  /\ G[j] \in Handle(s) /\ G[j].base = bases[j]
             /\ G[j].size = SizeOf(f[bases[j]]) /\ G[j].buf = <<>>
  <2>1. G[j] = NewHandle(bases[j], SizeOf(f[bases[j]]))
    BY ZenonT(60) DEF G, Handles
  <2>2. bases[j] \in Nat /\ SizeOf(f[bases[j]]) \in Nat
    BY <1>2, ZenonT(60)
  <2> HIDE DEF G
  <2>3. PICK b \in Nat, z \in Nat : b = bases[j] /\ z = SizeOf(f[bases[j]])
    BY <2>2, ZenonT(60)
  <2>4. /\ NewHandle(b, z) \in Handle(s) /\ NewHandle(b, z).base = b
        /\ NewHandle(b, z).size = z /\ NewHandle(b, z).buf = <<>>
    BY NewOnes, ZenonT(60)
  <2> QED  BY <2>1, <2>3, <2>4, ZenonT(60)
<1>4. G \in Seq(Handle(s)) /\ Len(G) = c
  <2>1. G \in [1..c -> Handle(s)]
    BY <1>3, ZenonT(60) DEF G, Handles
  <2> QED  BY <2>1
<1>5. /\ \A j \in 1..c : G[j].base \in Linked(f)
      /\ \A j \in 1..c : G[j].buf = <<>>
      /\ \A j \in 1..c : G[j].size \in Len(f[G[j].base].log) .. SizeOf(f[G[j].base])
  BY <1>2, <1>3, ZenonT(60)
<1>6. \A j, k \in 1..c : j < k => G[j].base < G[k].base
  BY <1>0, <1>3, ZenonT(60)
<1>7. HandlesFit(f, G, FALSE)
  BY <1>4, <1>5, <1>6, ZenonT(60) DEF HandlesFit
<1>8. FALSE \in BOOLEAN
  OBVIOUS
<1>9. LogOK(s, f, G, FALSE, top, n, d, x, y)
  BY <1>4, <1>7, <1>8, ZenonT(60) DEF LogOK
<1> QED  BY <1>9, ZenonT(60) DEF G

\* The bases of the first k handles; the files without those of the bases gone; what
\* was in them, added to x.
OldBases(g, k) == {g[j].base : j \in 1..k}
Without(f, gone) == [b \in DOMAIN f |-> Unlinked(f[b], b \in gone)]
AndOf(x, f, gone) == x \union UNION {Msgs(f[b].log) : b \in gone}

\* The oldest k segments are removed: what they held is counted as removed
\* (enforceRetention).
LEMMA RetainOK ==
    ASSUME NEW s, NEW f, NEW g, NEW a, NEW top, NEW n, NEW d, NEW x, NEW y,
           LogOK(s, f, g, a, top, n, d, x, y), NEW k \in 1..Len(g) - 1,
           NEW gone, gone = OldBases(g, k), NEW F, F = Without(f, gone),
           NEW G, G = SubSeq(g, k + 1, Len(g)), NEW X, X = AndOf(x, f, gone)
    PROVE  LogOK(s, F, G, a, top, n, d, X, y) /\ G # <<>>
<1>1. /\ FilesOK(s, f) /\ g \in Seq(Handle(s)) /\ a \in BOOLEAN
      /\ HandlesFit(f, g, a) /\ UpTo(Stored(f) \union x, d)
      /\ a => Follows(s, g[Len(g)].buf, d, n)
      /\ y \subseteq Stored(f) \union x
  BY ZenonT(60) DEF LogOK
<1>2. PICK l : l = Len(g)
  BY ZenonT(60)
<1>3. l \in Nat /\ k \in 1..l - 1
  BY <1>1, <1>2
<1>4. PICK c : c = l - k
  BY ZenonT(60)
<1>5. /\ c \in Nat /\ c # 0 /\ c \in 1..c /\ c + k = l
      /\ \A j \in 1..c : j + k \in 1..l /\ (j < c => j + k < l)
      /\ \A j \in 1..k : j \in 1..l
      /\ \A j \in 1..k, i \in 1..c : j < i + k
      /\ \A i, j \in 1..c : i < j => i + k < j + k
  BY <1>3, <1>4
<1>6. G \in Seq(Handle(s)) /\ Len(G) = c /\ \A j \in 1..c : G[j] = g[j + k]
  BY <1>1, <1>2, <1>3, <1>4
<1>7. \A j \in 1..l : g[j].base \in Linked(f)
  BY <1>1, <1>2, ZenonT(60) DEF HandlesFit
<1>8. gone \subseteq Linked(f)
  BY <1>5, <1>7, ZenonT(60) DEF OldBases
<1>9. ASSUME NEW b \in DOMAIN f
      PROVE  /\ F[b] \in File(s) /\ F[b].log = f[b].log /\ F[b].torn = f[b].torn
             /\ F[b].linked <=> f[b].linked /\ b \notin gone
  <2>1. F[b] = Unlinked(f[b], b \in gone)
    BY ZenonT(60) DEF Without
  <2>2. f[b] \in File(s)
    BY <1>1, ZenonT(60) DEF FilesOK
  <2>3. (b \in gone) \in BOOLEAN
    OBVIOUS
  <2>4. PICK here \in BOOLEAN : here = (b \in gone)
    BY <2>3, ZenonT(60)
  <2>5. /\ Unlinked(f[b], here) \in File(s) /\ Unlinked(f[b], here).log = f[b].log
        /\ Unlinked(f[b], here).torn = f[b].torn
        /\ Unlinked(f[b], here).linked = (f[b].linked /\ ~here)
    BY <2>2, UnlinkedFile, ZenonT(60)
  <2>6. F[b] = Unlinked(f[b], here)
    BY <2>1, <2>4, ZenonT(60)
  <2> QED  BY <2>4, <2>5, <2>6, ZenonT(60)
<1>10. DOMAIN F = DOMAIN f /\ FilesOK(s, F)
  <2>1. F \in [DOMAIN f -> File(s)] /\ DOMAIN F = DOMAIN f
    BY <1>9, ZenonT(60) DEF Without
  <2> QED  BY <2>1, ZenonT(60) DEF FilesOK
<1>11. Linked(F) = Linked(f) \ gone
  BY <1>9, <1>10, ZenonT(60) DEF Linked
<1>12. \A b \in Linked(f) : b \in DOMAIN f /\ F[b].log = f[b].log /\ SizeOf(F[b]) = SizeOf(f[b])
  BY <1>9, ZenonT(60) DEF Linked, SizeOf
<1>13. Stored(F) \union X = Stored(f) \union x
  <2>1. Stored(F) \subseteq Stored(f)
    <3> SUFFICES ASSUME NEW b \in Linked(F), NEW m \in Msgs(F[b].log)  PROVE m \in Stored(f)
      BY StoredElem, ZenonT(60)
    <3>1. b \in Linked(f) /\ m \in Msgs(f[b].log)
      BY <1>11, <1>12, ZenonT(60)
    <3> QED  BY <3>1, ZenonT(60) DEF Stored
  <2>2. X \subseteq Stored(f) \union x
    BY <1>8, ZenonT(60) DEF Stored, AndOf
  <2>3. x \subseteq X
    BY ZenonT(60) DEF AndOf
  <2>4. ASSUME NEW b \in Linked(f), NEW m \in Msgs(f[b].log)  PROVE m \in Stored(F) \union X
    <3>1. CASE b \in gone
      BY <3>1, ZenonT(60) DEF AndOf
    <3>2. CASE b \notin gone
      <4>1. b \in Linked(F) /\ m \in Msgs(F[b].log)
        BY <1>11, <1>12, <3>2, ZenonT(60)
      <4> QED  BY <4>1, ZenonT(60) DEF Stored
    <3> QED  BY <3>1, <3>2, ZenonT(60)
  <2>5. Stored(f) \subseteq Stored(F) \union X
    BY <2>4, StoredElem, ZenonT(60)
  <2> QED  BY <2>1, <2>2, <2>3, <2>5, ZenonT(60)
<1>14. ASSUME NEW j \in 1..c  PROVE G[j].base \in Linked(F) /\ G[j].base \in Linked(f)
  <2>1. j + k \in 1..l /\ G[j] = g[j + k]
    BY <1>5, <1>6, ZenonT(60)
  <2>2. G[j].base \in Linked(f)
    BY <1>7, <2>1, ZenonT(60)
  <2>3. ASSUME NEW i \in 1..k  PROVE g[i].base # g[j + k].base
    <3>1. i \in 1..l /\ i < j + k
      BY <1>5, ZenonT(60)
    <3>2. g[i].base < g[j + k].base
      BY <1>1, <1>2, <2>1, <3>1, ZenonT(60) DEF HandlesFit
    <3>3. g[i] \in Handle(s) /\ g[j + k] \in Handle(s)
      BY <1>1, <1>2, <2>1, <3>1
    <3>4. g[i].base \in Nat /\ g[j + k].base \in Nat
      BY <3>3, HandleParts, ZenonT(60)
    <3> QED  BY <3>2, <3>4
  <2>4. G[j].base \notin gone
    BY <2>1, <2>3, ZenonT(60) DEF OldBases
  <2> QED  BY <1>11, <2>2, <2>4, ZenonT(60)
<1>15. HandlesFit(F, G, a)
  <2>1. \A i, j \in 1..c : i < j => G[i].base < G[j].base
    <3> SUFFICES ASSUME NEW i \in 1..c, NEW j \in 1..c, i < j  PROVE G[i].base < G[j].base
      BY ZenonT(60)
    <3>1. i + k \in 1..l /\ j + k \in 1..l /\ i + k < j + k
      BY <1>5, ZenonT(60)
    <3>2. g[i + k].base < g[j + k].base
      BY <1>1, <1>2, <3>1, ZenonT(60) DEF HandlesFit
    <3> QED  BY <1>6, <3>2, ZenonT(60)
  <2>2. \A j \in 1..c : j < c \/ ~a => G[j].buf = <<>>
    BY <1>1, <1>2, <1>5, <1>6, ZenonT(60) DEF HandlesFit
  <2>3. \A j \in 1..c : a => G[j].size = Len(F[G[j].base].log) + Len(G[j].buf)
    <3> SUFFICES ASSUME NEW j \in 1..c, a
                 PROVE  G[j].size = Len(F[G[j].base].log) + Len(G[j].buf)
      BY ZenonT(60)
    <3>1. g[j + k].size = Len(f[g[j + k].base].log) + Len(g[j + k].buf)
      BY <1>1, <1>2, <1>5, ZenonT(60) DEF HandlesFit
    <3>2. G[j] = g[j + k] /\ F[G[j].base].log = f[G[j].base].log
      BY <1>6, <1>12, <1>14, ZenonT(60)
    <3> QED  BY <3>1, <3>2, ZenonT(60)
  <2>4. \A j \in 1..c : ~a => G[j].size \in Len(F[G[j].base].log) .. SizeOf(F[G[j].base])
    <3> SUFFICES ASSUME NEW j \in 1..c, ~a
                 PROVE  G[j].size \in Len(F[G[j].base].log) .. SizeOf(F[G[j].base])
      BY ZenonT(60)
    <3>1. g[j + k].size \in Len(f[g[j + k].base].log) .. SizeOf(f[g[j + k].base])
      BY <1>1, <1>2, <1>5, ZenonT(60) DEF HandlesFit
    <3>2. G[j] = g[j + k] /\ F[G[j].base].log = f[G[j].base].log
          /\ SizeOf(F[G[j].base]) = SizeOf(f[G[j].base])
      BY <1>6, <1>12, <1>14, ZenonT(60)
    <3> QED  BY <3>1, <3>2, ZenonT(60)
  <2>5. G # <<>>
    <3>1. Len(<<>>) = 0
      OBVIOUS
    <3> QED  BY <1>5, <1>6, <3>1, ZenonT(60)
  <2>6. \A j \in 1..c : G[j].base \in Linked(F)
    BY <1>14, ZenonT(60)
  <2> QED  BY <1>6, <2>1, <2>2, <2>3, <2>4, <2>5, <2>6, ZenonT(60) DEF HandlesFit
<1>16. Linked(F) # {} /\ G # <<>> /\ G[Len(G)] = g[Len(g)]
  <2>1. G[c].base \in Linked(F)
    BY <1>5, <1>14, ZenonT(60)
  <2>2. G # <<>>
    <3>1. Len(<<>>) = 0
      OBVIOUS
    <3> QED  BY <1>5, <1>6, <3>1, ZenonT(60)
  <2> QED  BY <1>2, <1>5, <1>6, <2>1, <2>2, ZenonT(60)
<1> QED  BY <1>1, <1>6, <1>10, <1>13, <1>15, <1>16, ZenonT(60) DEF LogOK

\* A log may count as synced what it holds (Sync, Close).
LEMMA SyncedOK ==
    ASSUME NEW s, NEW f, NEW g, NEW a, NEW top, NEW n, NEW d, NEW x, NEW y,
           LogOK(s, f, g, a, top, n, d, x, y), NEW Y, Y \subseteq Stored(f) \union x
    PROVE  LogOK(s, f, g, a, top, n, d, x, Y)
BY ZenonT(60) DEF LogOK

\* The handles with nothing left in the buffer of the last one.
AllDrained(g) == Put(g, Len(g), Drained(LastOf(g), Len(LastOf(g).buf)))

\* A buffer written out to its end (LogWriter.Sync).
LEMMA FlushedOK ==
    ASSUME NEW s, NEW f, NEW g, NEW top, NEW n, NEW d, NEW x, NEW y,
           LogOK(s, f, g, TRUE, top, n, d, x, y)
    PROVE  /\ LogOK(s, Flushed(f, LastOf(g)), AllDrained(g), TRUE, top, n, n, x, y)
           /\ StoredMore(f, Flushed(f, LastOf(g)), LastOf(g).buf)
<1> DEFINE h == g[Len(g)]
           F == Flushed(f, LastOf(g))
           G == AllDrained(g)
<1>1. /\ FilesOK(s, f) /\ g \in Seq(Handle(s)) /\ HandlesFit(f, g, TRUE)
      /\ d \in 0..n /\ n \in Nat /\ Follows(s, h.buf, d, n)
  BY ZenonT(60) DEF LogOK
<1>2. Len(g) \in Nat /\ Len(g) # 0 /\ Len(g) \in 1..Len(g)
  BY <1>1 DEF HandlesFit
<1>3. h \in Handle(s)
  BY <1>1, <1>2
<1>4. h.buf \in Seq(Message(s)) /\ Len(h.buf) \in Nat
  BY <1>3, HandleParts, ZenonT(60)
<1>5. h.base \in Linked(f)
  BY <1>1, <1>2, ZenonT(60) DEF HandlesFit
<1> HIDE DEF h
<1>6. PICK k : k = Len(h.buf)
  BY ZenonT(60)
<1>7. k \in 0..Len(h.buf) /\ SubSeq(h.buf, 1, k) = h.buf
  BY <1>4, <1>6
<1>8. d + k = n
  <2>1. k = n - d
    BY <1>1, <1>6, ZenonT(60) DEF Follows
  <2> QED  BY <1>1, <2>1
<1>9. PICK t \in BOOLEAN : t = (f[h.base].torn /\ h.buf = <<>>)
  <2>1. (f[h.base].torn /\ h.buf = <<>>) \in BOOLEAN
    OBVIOUS
  <2> QED  BY <2>1, ZenonT(60)
<1>10. F = Put(f, h.base, Written(f[h.base], SubSeq(h.buf, 1, k), t))
  BY <1>7, <1>9, ZenonT(60) DEF Flushed, LastOf, Put, h
<1>11. G = Put(g, Len(g), Drained(h, k))
  BY <1>6, ZenonT(60) DEF AllDrained, LastOf, h
<1> HIDE DEF F, G
<1>12. /\ LogOK(s, F, G, TRUE, top, n, d + k, x, y)
       /\ StoredMore(f, F, SubSeq(h.buf, 1, k))
  BY <1>7, <1>9, <1>10, <1>11, WriteOK, ZenonT(60) DEF h
<1> QED  BY <1>7, <1>8, <1>12, ZenonT(60) DEF F, G, h, LastOf

\* The first state.
LEMMA LogInit ==
    ASSUME NEW s, Symbols = {s}, Init
    PROVE  LogInv(s)
<1>1. /\ NewFile \in File(s) /\ NewFile.log = <<>> /\ NewFile.linked /\ SizeOf(NewFile) = 0
      /\ NewHandle(0, 0) \in Handle(s) /\ NewHandle(0, 0).base = 0
      /\ NewHandle(0, 0).size = 0 /\ NewHandle(0, 0).buf = <<>>
  <2>1. 0 \in Nat
    OBVIOUS
  <2> QED  BY <2>1, NewOnes, ZenonT(60)
<1>2. PICK N, H : N = NewFile /\ H = NewHandle(0, 0)
  BY ZenonT(60)
<1>3. files = [b \in {0} |-> N] /\ segments = <<H>> /\ active = TRUE
      /\ sent = [z \in Symbols |-> 0] /\ synced = {} /\ removed = {}
      /\ process = "up" /\ rd = [r \in Readers |-> NoReader]
  BY <1>2, ZenonT(60) DEF Init
<1>4. /\ N \in File(s) /\ N.log = <<>> /\ N.linked
      /\ H \in Handle(s) /\ H.base = 0 /\ H.size = 0 /\ H.buf = <<>>
  BY <1>1, <1>2, ZenonT(60)
<1>5. FilesOK(s, files) /\ DOMAIN files = {0} /\ files[0] = N /\ Linked(files) = {0}
  BY <1>3, <1>4, ZenonT(60) DEF FilesOK, Linked
<1>6. Stored(files) = {}
  <2>1. Msgs(<<>>) = {}
    BY DEF Msgs
  <2> QED  BY <1>4, <1>5, <2>1, ZenonT(60) DEF Stored
<1>7. segments \in Seq(Handle(s)) /\ Len(segments) = 1 /\ segments[1] = H
  BY <1>3, <1>4
<1>8. /\ \A j \in 1..1 : j = 1
      /\ \A j, k \in 1..1 : ~(j < k)
      /\ 1 \in 1..1
  OBVIOUS
<1>9. PICK e : e = <<>>
  BY ZenonT(60)
<1>10. 0 = Len(e) + Len(e) /\ Len(e) = 0 - 0 /\ 1..Len(e) = {} /\ segments # <<>>
  BY <1>7, <1>9
<1>11. files[0].log = e /\ H.buf = e
  BY <1>4, <1>5, <1>9, ZenonT(60)
<1>12. \A j \in 1..Len(segments) : segments[j] = H /\ ~(j < Len(segments))
  BY <1>7, <1>8, ZenonT(60)
<1>13. HandlesFit(files, segments, active)
  <2>1. \A j \in 1..Len(segments) : segments[j].base \in Linked(files)
    BY <1>4, <1>5, <1>12, ZenonT(60)
  <2>2. \A j \in 1..Len(segments) :
          segments[j].size = Len(files[segments[j].base].log) + Len(segments[j].buf)
    <3>1. H.size = Len(files[H.base].log) + Len(H.buf)
      BY <1>4, <1>10, <1>11, ZenonT(60)
    <3> QED  BY <1>12, <3>1, ZenonT(60)
  <2>3. \A j, k \in 1..Len(segments) : ~(j < k)
    BY <1>7, <1>8, ZenonT(60)
  <2> QED  BY <1>3, <1>10, <1>12, <2>1, <2>2, <2>3, ZenonT(60) DEF HandlesFit
<1>14. sent[s] = 0 /\ sent \in [Symbols -> Nat] /\ 0 \in 0..0 /\ 0 \in Nat
  BY <1>3
<1>15. UpTo(Stored(files) \union removed, 0)
  <2>1. 1..0 = {}
    OBVIOUS
  <2> QED  BY <1>3, <1>6, <2>1, ZenonT(60) DEF UpTo
<1>16. Follows(s, segments[Len(segments)].buf, 0, 0)
  <2>1. segments[Len(segments)].buf = e
    BY <1>7, <1>11, ZenonT(60)
  <2> QED  BY <1>10, <2>1, ZenonT(60) DEF Follows
<1>17. DOMAIN files \subseteq 0..0 /\ Linked(files) # {}
  BY <1>5, <1>14, ZenonT(60)
<1>18. LogOK(s, files, segments, active, 0, 0, 0, removed, synced)
  <2>1. active \in BOOLEAN
    BY <1>3
  <2>2. synced \subseteq Stored(files) \union removed
    BY <1>3, ZenonT(60)
  <2> QED  BY <1>5, <1>7, <1>13, <1>14, <1>15, <1>16, <1>17, <2>1, <2>2, ZenonT(60) DEF LogOK
<1>19. Lines(s)
  BY <1>14, <1>18, ZenonT(60) DEF Lines
<1>20. ReadersOK
  BY <1>3 DEF ReadersOK, NoReader
<1>21. process \in {"up", "down", "panicked"}
  BY <1>3
<1> QED  BY <1>14, <1>19, <1>20, <1>21, ZenonT(60) DEF LogInv

\* What the log's own steps leave alone.
LEMMA Framed ==
    ASSUME NEW s, LogInv(s), Lines(s)', sent' = sent, UNCHANGED rd,
           process' \in {"up", "down", "panicked"}
    PROVE  LogInv(s)'
BY ZenonT(60) DEF LogInv, ReadersOK

\* Sync writes the buffer out and counts it as synced.
LEMMA LogSync ==
    ASSUME NEW s, Symbols = {s}, LogInv(s), Sync
    PROVE  LogInv(s)'
<1>1. PICK d \in Nat : LogOK(s, files, segments, TRUE, sent[s], sent[s], d, removed, synced)
  BY ZenonT(60) DEF LogInv, Lines, Sync
<1>2. /\ LogOK(s, files', segments', TRUE, sent[s], sent[s], sent[s], removed, synced)
      /\ StoredMore(files, files', LastOf(segments).buf)
  <2>1. /\ files' = Flushed(files, LastOf(segments))
        /\ segments' = AllDrained(segments)
    BY ZenonT(60) DEF Sync, AllDrained, Put, LastOf
  <2>2. /\ LogOK(s, Flushed(files, LastOf(segments)), AllDrained(segments), TRUE,
                 sent[s], sent[s], sent[s], removed, synced)
        /\ StoredMore(files, Flushed(files, LastOf(segments)), LastOf(segments).buf)
    BY <1>1, FlushedOK, ZenonT(60)
  <2> QED  BY <2>1, <2>2, ZenonT(60)
<1>3. synced' \subseteq Stored(files') \union removed
  <2>1. synced \subseteq Stored(files') \union removed
    BY <1>2, ZenonT(60) DEF LogOK
  <2>2. synced' = (synced \union Stored(files)) \union Msgs(LastOf(segments).buf)
    BY ZenonT(60) DEF Sync, OnDisk
  <2> QED  BY <1>2, <2>1, <2>2, ZenonT(60) DEF StoredMore
<1>4. LogOK(s, files', segments', TRUE, sent[s], sent[s], sent[s], removed, synced')
  BY <1>2, <1>3, SyncedOK, ZenonT(60)
<1>5. active' = active /\ active /\ sent' = sent /\ removed' = removed /\ UNCHANGED rd
      /\ process' = process
  BY ZenonT(60) DEF Sync
<1>6. sent[s] \in Nat
  BY ZenonT(60) DEF LogInv
<1>7. active' = TRUE
  BY <1>1, <1>5, ZenonT(60) DEF LogInv, Lines, LogOK
<1>8. Lines(s)'
  BY <1>4, <1>5, <1>6, <1>7, ZenonT(60) DEF Lines
<1> QED  BY <1>5, <1>8, Framed, ZenonT(60) DEF LogInv

\* A full buffer is written out in part.
LEMMA LogFlush ==
    ASSUME NEW s, Symbols = {s}, LogInv(s), Flush
    PROVE  LogInv(s)'
<1> DEFINE h == segments[Len(segments)]
<1>1. PICK d \in Nat : LogOK(s, files, segments, TRUE, sent[s], sent[s], d, removed, synced)
  BY ZenonT(60) DEF LogInv, Lines, Flush
<1>2. PICK k, t :
        /\ k \in 0..Len(h.buf) /\ t \in {FALSE, k < Len(h.buf)}
        /\ files' = [files EXCEPT ![h.base] = Written(@, SubSeq(h.buf, 1, k), t)]
        /\ segments' = [segments EXCEPT ![Len(segments)] = Drained(@, k)]
  BY ZenonT(60) DEF Flush, LastOf
<1>3. t \in BOOLEAN
  <2>1. (k < Len(h.buf)) \in BOOLEAN /\ FALSE \in BOOLEAN
    OBVIOUS
  <2> QED  BY <1>2, <2>1, ZenonT(60)
<1>4. /\ files' = Put(files, h.base, Written(files[h.base], SubSeq(h.buf, 1, k), t))
      /\ segments' = Put(segments, Len(segments), Drained(h, k))
  BY <1>2, ZenonT(60) DEF Put
<1>5. LogOK(s, files', segments', TRUE, sent[s], sent[s], d + k, removed, synced)
  <2>1. k \in 0..Len(segments[Len(segments)].buf)
    BY <1>2, ZenonT(60)
  <2> QED  BY <1>1, <1>3, <1>4, <2>1, WriteOK, ZenonT(60)
<1>6. active' = active /\ active /\ sent' = sent /\ removed' = removed /\ synced' = synced
      /\ UNCHANGED rd /\ process' = process
  BY ZenonT(60) DEF Flush
<1>7. active' = TRUE
  BY <1>1, <1>6, ZenonT(60) DEF LogInv, Lines, LogOK
<1>8. d + k \in Nat
  <2>1. d + k \in 0..sent[s] /\ sent[s] \in Nat
    BY <1>5, ZenonT(60) DEF LogOK
  <2> QED  BY <2>1
<1>9. Lines(s)'
  BY <1>5, <1>6, <1>7, <1>8, ZenonT(60) DEF Lines
<1> QED  BY <1>6, <1>9, Framed, ZenonT(60) DEF LogInv

\* Retention removes the oldest segments.
LEMMA LogRetention ==
    ASSUME NEW s, Symbols = {s}, LogInv(s), EnforceRetention
    PROVE  LogInv(s)'
<1>1. PICK d \in Nat : LogOK(s, files, segments, active, sent[s], sent[s], d, removed, synced)
  BY ZenonT(60) DEF LogInv, Lines
<1>2. PICK k, gone :
        /\ k \in 1..Len(segments) - 1 /\ gone = OldBases(segments, k)
        /\ files' = Without(files, gone) /\ removed' = AndOf(removed, files, gone)
        /\ segments' = SubSeq(segments, k + 1, Len(segments))
  BY ZenonT(60) DEF EnforceRetention, OldBases, Without, AndOf
<1>3. LogOK(s, files', segments', active, sent[s], sent[s], d, removed', synced)
  BY <1>1, <1>2, RetainOK, ZenonT(60)
<1>4. active' = active /\ sent' = sent /\ synced' = synced /\ UNCHANGED rd
      /\ process' = process
  BY ZenonT(60) DEF EnforceRetention
<1>5. Lines(s)'
  BY <1>3, <1>4, ZenonT(60) DEF Lines
<1> QED  BY <1>4, <1>5, Framed, ZenonT(60) DEF LogInv

\* The readers of a process that starts.
LEMMA NoReaders ==
    ASSUME rd' = [r \in Readers |-> NoReader]
    PROVE  ReadersOK'
BY DEF ReadersOK, NoReader

\* A crash keeps the files.
LEMMA LogCrash ==
    ASSUME NEW s, Symbols = {s}, LogInv(s), Crash
    PROVE  LogInv(s)'
<1>1. PICK d \in Nat : LogOK(s, files, segments, active, sent[s], sent[s], d, removed, synced)
  BY ZenonT(60) DEF LogInv, Lines
<1>2. LogOK(s, files, <<>>, FALSE, sent[s], sent[s], d, removed, synced)
  BY <1>1, StopOK, ZenonT(60)
<1>3. /\ files' = files /\ segments' = <<>> /\ active' = FALSE /\ sent' = sent
      /\ removed' = removed /\ synced' = synced /\ process' = "down"
      /\ rd' = [r \in Readers |-> NoReader]
  BY ZenonT(60) DEF Crash
<1>4. Lines(s)'
  BY <1>2, <1>3, ZenonT(60) DEF Lines
<1>5. ReadersOK'
  BY <1>3, NoReaders, ZenonT(60)
<1>6. process' \in {"up", "down", "panicked"} /\ sent' \in [Symbols -> Nat]
  BY <1>3, ZenonT(60) DEF LogInv
<1> QED  BY <1>4, <1>5, <1>6, ZenonT(60) DEF LogInv

\* What Close finds in the buffers: nothing, or what the active segment holds.
LEMMA PendingIs ==
    ASSUME NEW s, NEW top, NEW n, NEW d, NEW x, NEW y,
           LogOK(s, files, segments, active, top, n, d, x, y), NEW b
    PROVE  Pending(b) = IF active /\ b = LastOf(segments).base THEN LastOf(segments).buf
                        ELSE <<>>
<1>1. segments \in Seq(Handle(s)) /\ HandlesFit(files, segments, active)
  BY ZenonT(60) DEF LogOK
<1>2. PICK l : l = Len(segments)
  BY ZenonT(60)
<1>3. l \in Nat /\ DOMAIN segments = 1..l
  BY <1>1, <1>2
<1>4. \A j \in 1..l : segments[j].buf # <<>> => active /\ j = l
  <2> SUFFICES ASSUME NEW j \in 1..l, segments[j].buf # <<>>  PROVE active /\ j = l
    BY ZenonT(60)
  <2>1. active /\ ~(j < l)
    BY <1>1, <1>2, ZenonT(60) DEF HandlesFit
  <2>2. j = l
    BY <1>3, <2>1
  <2> QED  BY <2>1, <2>2, ZenonT(60)
<1> DEFINE hs == {j \in DOMAIN segments : segments[j].base = b /\ segments[j].buf # <<>>}
<1>5. Pending(b) = IF hs = {} THEN <<>> ELSE segments[CHOOSE j \in hs : TRUE].buf
  BY ZenonT(60) DEF Pending
<1>6. LastOf(segments) = segments[l]
  BY <1>2, ZenonT(60) DEF LastOf
<1>7. CASE hs = {}
  <2>1. Pending(b) = <<>>
    BY <1>5, <1>7, ZenonT(60)
  <2>2. ASSUME active, b = segments[l].base  PROVE segments[l].buf = <<>>
    <3>1. l \in 1..l
      BY <1>1, <1>2, <1>3, <2>2 DEF HandlesFit
    <3> QED  BY <1>3, <1>7, <2>2, <3>1, ZenonT(60)
  <2> QED  BY <1>6, <2>1, <2>2, ZenonT(60)
<1>8. CASE hs # {}
  <2>1. \A j \in hs : active /\ j = l /\ b = segments[l].base
    BY <1>3, <1>4, ZenonT(60)
  <2>2. (CHOOSE j \in hs : TRUE) \in hs
    BY <1>8, ZenonT(60)
  <2>3. Pending(b) = segments[CHOOSE j \in hs : TRUE].buf
    BY <1>5, <1>8, ZenonT(60)
  <2>4. (CHOOSE j \in hs : TRUE) = l /\ active /\ b = segments[l].base
    BY <2>1, <2>2, ZenonT(60)
  <2> QED  BY <1>6, <2>3, <2>4, ZenonT(60)
<1> QED  BY <1>7, <1>8, ZenonT(60)

\* Close writes every buffer out and counts it as synced.
LEMMA LogClose ==
    ASSUME NEW s, Symbols = {s}, LogInv(s), Close
    PROVE  LogInv(s)'
<1> DEFINE n == sent[s]
           h == LastOf(segments)
<1>1. PICK d \in Nat : LogOK(s, files, segments, active, n, n, d, removed, synced)
  BY ZenonT(60) DEF LogInv, Lines
<1>2. /\ segments' = <<>> /\ active' = FALSE /\ sent' = sent /\ removed' = removed
      /\ process' = "down" /\ rd' = [r \in Readers |-> NoReader]
      /\ synced' = (synced \union Stored(files)) \union
                      UNION {Msgs(segments[j].buf) : j \in DOMAIN segments}
      /\ files' = [b \in DOMAIN files |->
                     Written(files[b], Pending(b), files[b].torn /\ Pending(b) = <<>>)]
  BY ZenonT(60) DEF Close, OnDisk
<1>3. /\ FilesOK(s, files) /\ segments \in Seq(Handle(s)) /\ HandlesFit(files, segments, active)
      /\ active \in BOOLEAN /\ n \in Nat /\ d \in Nat
  BY <1>1, ZenonT(60) DEF LogOK
<1> HIDE DEF n, h
<1>4. \A b : Pending(b) = IF active /\ b = h.base THEN h.buf ELSE <<>>
  BY <1>1, PendingIs, ZenonT(60) DEF h
<1>5. ASSUME NEW b \in DOMAIN files, Pending(b) = <<>>
      PROVE  Written(files[b], Pending(b), files[b].torn /\ Pending(b) = <<>>) = files[b]
  <2>1. files[b] \in File(s)
    BY <1>3, ZenonT(60) DEF FilesOK
  <2>2. files[b].torn \in BOOLEAN
    BY <2>1, FileParts, ZenonT(60)
  <2>3. (files[b].torn /\ Pending(b) = <<>>) = files[b].torn
    BY <1>5, <2>2
  <2>4. Written(files[b], <<>>, files[b].torn) = files[b]
    BY <2>1, WrittenNothing, ZenonT(60)
  <2> QED  BY <1>5, <2>3, <2>4, ZenonT(60)
<1>6. \A j \in DOMAIN segments : segments[j].buf = <<>> \/ (active /\ segments[j].buf = h.buf)
  <2> SUFFICES ASSUME NEW j \in DOMAIN segments, segments[j].buf # <<>>
               PROVE  active /\ segments[j].buf = h.buf
    BY ZenonT(60)
  <2>1. DOMAIN segments = 1..Len(segments) /\ Len(segments) \in Nat
    BY <1>3
  <2>2. active /\ ~(j < Len(segments))
    BY <1>3, <2>1, ZenonT(60) DEF HandlesFit
  <2>3. j = Len(segments)
    BY <2>1, <2>2
  <2> QED  BY <2>2, <2>3, ZenonT(60) DEF h, LastOf
<1>7. Msgs(<<>>) = {}
  BY DEF Msgs
<1>8. PICK e \in Nat : /\ LogOK(s, files', <<>>, FALSE, n, n, e, removed, synced)
                      /\ synced' \subseteq Stored(files') \union removed
  <2>1. CASE active
    <3>1. LogOK(s, files, segments, TRUE, n, n, d, removed, synced)
      <4>1. active = TRUE
        BY <1>3, <2>1, ZenonT(60)
      <4> QED  BY <1>1, <4>1, ZenonT(60)
    <3>2. /\ LogOK(s, Flushed(files, h), AllDrained(segments), TRUE, n, n, n, removed, synced)
          /\ StoredMore(files, Flushed(files, h), h.buf)
      BY <3>1, FlushedOK, ZenonT(60) DEF h
    <3>3. files' = Flushed(files, h)
      <4>1. Flushed(files, h) = [files EXCEPT ![h.base] =
               Written(files[h.base], h.buf, files[h.base].torn /\ h.buf = <<>>)]
        BY ZenonT(60) DEF Flushed
      <4>2. Pending(h.base) = h.buf /\ \A b : b # h.base => Pending(b) = <<>>
        BY <1>4, <2>1, ZenonT(60)
      <4>3. \A b \in DOMAIN files : files'[b] = Flushed(files, h)[b]
        <5> SUFFICES ASSUME NEW b \in DOMAIN files  PROVE files'[b] = Flushed(files, h)[b]
          BY ZenonT(60)
        <5>1. files'[b] = Written(files[b], Pending(b), files[b].torn /\ Pending(b) = <<>>)
          BY <1>2, ZenonT(60)
        <5>2. CASE b = h.base
          BY <4>1, <4>2, <5>1, <5>2, ZenonT(60)
        <5>3. CASE b # h.base
          <6>1. Flushed(files, h)[b] = files[b]
            BY <4>1, <5>3, ZenonT(60)
          <6> QED  BY <1>5, <4>2, <5>1, <5>3, <6>1, ZenonT(60)
        <5> QED  BY <5>2, <5>3, ZenonT(60)
      <4>4. files' = [b \in DOMAIN files |-> files'[b]]
            /\ Flushed(files, h) = [b \in DOMAIN files |-> Flushed(files, h)[b]]
        BY <1>2, <4>1, ZenonT(60)
      <4> QED  BY <4>3, <4>4, ZenonT(60)
    <3>4. LogOK(s, files', <<>>, FALSE, n, n, n, removed, synced)
      BY <3>2, <3>3, StopOK, ZenonT(60)
    <3>5. synced \subseteq Stored(files') \union removed
      BY <3>4, ZenonT(60) DEF LogOK
    <3>6. Stored(files') = Stored(files) \union Msgs(h.buf)
      BY <3>2, <3>3, ZenonT(60) DEF StoredMore
    <3>7. \A j \in DOMAIN segments : Msgs(segments[j].buf) \subseteq Stored(files')
      BY <1>6, <1>7, <3>6, ZenonT(60)
    <3>8. synced' \subseteq Stored(files') \union removed
      <4>1. Stored(files) \subseteq Stored(files')
        BY <3>6, ZenonT(60)
      <4>2. ASSUME NEW m, m \in synced'  PROVE m \in Stored(files') \union removed
        <5>1. m \in synced \/ m \in Stored(files)
              \/ \E j \in DOMAIN segments : m \in Msgs(segments[j].buf)
          BY <1>2, <4>2, ZenonT(60)
        <5> QED  BY <3>5, <3>7, <4>1, <5>1, ZenonT(60)
      <4> QED  BY <4>2, ZenonT(60)
    <3> QED  BY <1>3, <3>4, <3>8, ZenonT(60)
  <2>2. CASE ~active
    <3>1. \A b : Pending(b) = <<>>
      BY <1>4, <2>2, ZenonT(60)
    <3>2. \A b \in DOMAIN files : files'[b] = files[b]
      BY <1>2, <1>5, <3>1, ZenonT(60)
    <3>3. files' = files
      <4>1. files = [b \in DOMAIN files |-> files[b]]
        BY <1>3, ZenonT(60) DEF FilesOK
      <4>2. files' = [b \in DOMAIN files |-> files'[b]]
        BY <1>2, ZenonT(60)
      <4> QED  BY <3>2, <4>1, <4>2, ZenonT(60)
    <3>4. LogOK(s, files', <<>>, FALSE, n, n, d, removed, synced)
      BY <1>1, <3>3, StopOK, ZenonT(60)
    <3>5. synced \subseteq Stored(files') \union removed
      BY <3>4, ZenonT(60) DEF LogOK
    <3>6. \A j \in DOMAIN segments : Msgs(segments[j].buf) = {}
      BY <1>6, <1>7, <2>2, ZenonT(60)
    <3>7. synced' \subseteq Stored(files') \union removed
      BY <1>2, <3>3, <3>5, <3>6, ZenonT(60)
    <3> QED  BY <3>4, <3>7, ZenonT(60)
  <2> QED  BY <2>1, <2>2, ZenonT(60)
<1>9. LogOK(s, files', <<>>, FALSE, n, n, e, removed, synced')
  BY <1>8, SyncedOK, ZenonT(60)
<1>10. Lines(s)'
  BY <1>2, <1>9, ZenonT(60) DEF Lines, n
<1>11. ReadersOK'
  BY <1>2, NoReaders, ZenonT(60)
<1>12. process' \in {"up", "down", "panicked"} /\ sent' \in [Symbols -> Nat]
  BY <1>2, ZenonT(60) DEF LogInv
<1> QED  BY <1>10, <1>11, <1>12, ZenonT(60) DEF LogInv

\* The roll leaves a log to which the message q can be appended.
LEMMA RollOK ==
    ASSUME NEW s, NEW n, NEW d, NEW x, NEW y,
           LogOK(s, files, segments, TRUE, n, n, d, x, y)
    PROVE  \E top \in 0..n + 1, e \in Nat :
              LogOK(s, Rolled(n + 1)[1], Rolled(n + 1)[2], TRUE, top, n, e, x, y)
<1> DEFINE f == Flushed(files, LastOf(segments))
           g == AllDrained(segments)
           q == n + 1
           F == Opened(f, q)
           G == Append(g, NewHandle(q, SizeOf(F[q])))
<1>1. n \in Nat /\ d \in Nat /\ n \in 0..n + 1 /\ n + 1 \in 0..n + 1
  <2>1. n \in Nat /\ d \in 0..n
    BY ZenonT(60) DEF LogOK
  <2> QED  BY <2>1
<1>2. CASE LastOf(segments).size >= SegmentMax
  <2>1. Rolled(q) = <<F, G>>
    BY <1>2, ZenonT(60) DEF Rolled, AllDrained, Put, LastOf
  <2>2. LogOK(s, f, g, TRUE, n, n, n, x, y)
    BY FlushedOK, ZenonT(60)
  <2>3. LogOK(s, F, G, TRUE, q, n, n, x, y)
    BY <2>2, OpenOK, ZenonT(60)
  <2> HIDE DEF F, G
  <2>4. Rolled(q)[1] = F /\ Rolled(q)[2] = G
    BY <2>1
  <2> QED  BY <1>1, <2>3, <2>4, ZenonT(60)
<1>3. CASE ~(LastOf(segments).size >= SegmentMax)
  <2>1. Rolled(q) = <<files, segments>>
    BY <1>3, ZenonT(60) DEF Rolled
  <2>2. Rolled(q)[1] = files /\ Rolled(q)[2] = segments
    BY <2>1
  <2> QED  BY <1>1, <2>2, ZenonT(60)
<1> QED  BY <1>2, <1>3, ZenonT(60)

\* The next message is appended, or the append finds no active segment.
LEMMA LogPublish ==
    ASSUME NEW s, Symbols = {s}, LogInv(s), Publish(s)
    PROVE  LogInv(s)'
<1> DEFINE n == sent[s]
           q == n + 1
           f == Rolled(q)[1]
           g == Rolled(q)[2]
           h == LastOf(g)
<1>1. PICK d \in Nat : LogOK(s, files, segments, active, n, n, d, removed, synced)
  BY ZenonT(60) DEF LogInv, Lines
<1>2. active \in BOOLEAN /\ n \in Nat
  BY <1>1, ZenonT(60) DEF LogOK
<1>3. /\ active' = active /\ removed' = removed /\ synced' = synced /\ UNCHANGED rd
      /\ process = "up"
  BY ZenonT(60) DEF Publish
<1>4. CASE ~active
  <2>1. process' = "panicked" /\ UNCHANGED <<files, segments, sent>>
    BY <1>4, ZenonT(60) DEF Publish
  <2>2. Lines(s)'
    BY <1>3, <2>1, ZenonT(60) DEF Lines, LogInv
  <2>3. process' \in {"up", "down", "panicked"}
    BY <2>1
  <2> QED  BY <1>3, <2>1, <2>2, <2>3, Framed, ZenonT(60)
<1>5. CASE active
  <2>1. active = TRUE
    BY <1>2, <1>5, ZenonT(60)
  <2>2. /\ segments' = [g EXCEPT ![Len(g)] = SegmentAppend(h, <<s, q>>)]
        /\ files' = IF Indexed(h)
                    THEN [f EXCEPT ![h.base] = Noted(@, [seq |-> q, pos |-> h.size])]
                    ELSE f
        /\ sent' = [sent EXCEPT ![s] = q] /\ process' = process
    BY <1>5, ZenonT(60) DEF Publish
  <2>3. PICK top \in 0..n + 1, e \in Nat : LogOK(s, f, g, TRUE, top, n, e, removed, synced)
    BY <1>1, <2>1, RollOK, ZenonT(60)
  <2> HIDE DEF f, g, n
  <2>4. FilesOK(s, f) /\ g \in Seq(Handle(s)) /\ HandlesFit(f, g, TRUE)
    BY <2>3, ZenonT(60) DEF LogOK
  <2>5. Len(g) \in 1..Len(g)
    BY <2>4 DEF HandlesFit
  <2>6. h \in Handle(s) /\ h = g[Len(g)]
    <3>1. g[Len(g)] \in Handle(s)
      BY <2>4, <2>5
    <3> QED  BY <3>1, ZenonT(60) DEF LastOf
  <2>7. h.base \in DOMAIN f
    BY <2>4, <2>5, <2>6, ZenonT(60) DEF HandlesFit, Linked
  <2>8. f[h.base] \in File(s) /\ h.size \in Nat /\ q \in Nat
    <3>1. f[h.base] \in File(s)
      BY <2>4, <2>7, ZenonT(60) DEF FilesOK
    <3>2. h.size \in Nat
      BY <2>6, HandleParts, ZenonT(60)
    <3>3. q \in Nat
      BY <1>2
    <3> QED  BY <3>1, <3>2, <3>3, ZenonT(60)
  <2> HIDE DEF h, q
  <2>9. PICK w : Longer(s, f[h.base], w, <<>>) /\ files' = Put(f, h.base, w)
    <3>1. f[h.base].log \in Seq(Message(s)) /\ <<>> \in Seq(Message(s))
          /\ f[h.base].log \o <<>> = f[h.base].log
      <4>1. f[h.base].log \in Seq(Message(s))
        BY <2>8, FileParts, ZenonT(60)
      <4> QED  BY <4>1
    <3>2. CASE Indexed(h)
      <4>0. [seq |-> q, pos |-> h.size] \in [seq : Nat, pos : Nat]
        BY <2>8, ZenonT(60)
      <4>1. PICK i \in [seq : Nat, pos : Nat] : i = [seq |-> q, pos |-> h.size]
        BY <4>0, ZenonT(60)
      <4>2. files' = Put(f, h.base, Noted(f[h.base], i))
        BY <2>2, <3>2, <4>1, ZenonT(60) DEF Put
      <4>3. /\ Noted(f[h.base], i) \in File(s) /\ Noted(f[h.base], i).log = f[h.base].log
            /\ Noted(f[h.base], i).linked = f[h.base].linked
        BY <2>8, NotedFile, ZenonT(60)
      <4>4. Longer(s, f[h.base], Noted(f[h.base], i), <<>>)
        BY <3>1, <4>3, ZenonT(60) DEF Longer
      <4> QED  BY <4>2, <4>4, ZenonT(60)
    <3>3. CASE ~Indexed(h)
      <4>1. files' = f
        BY <2>2, <3>3, ZenonT(60)
      <4>2. f = Put(f, h.base, f[h.base])
        BY <2>4, <2>7, ZenonT(60) DEF Put, FilesOK
      <4>3. Longer(s, f[h.base], f[h.base], <<>>)
        BY <2>8, <3>1, ZenonT(60) DEF Longer
      <4> QED  BY <4>1, <4>2, <4>3, ZenonT(60)
    <3> QED  BY <3>2, <3>3, ZenonT(60)
  <2>10. segments' = Put(g, Len(g), SegmentAppend(h, <<s, q>>))
    BY <2>2, ZenonT(60) DEF Put
  <2>11. LogOK(s, files', segments', TRUE, q, q, e, removed, synced)
    BY <2>3, <2>6, <2>9, <2>10, AppendOK, ZenonT(60) DEF q
  <2>12. sent \in [Symbols -> Nat] /\ s \in Symbols
    BY ZenonT(60) DEF LogInv
  <2>13. sent'[s] = q /\ sent' \in [Symbols -> Nat]
    BY <2>2, <2>8, <2>12, ZenonT(60)
  <2>14. Lines(s)'
    BY <1>3, <2>1, <2>11, <2>13, ZenonT(60) DEF Lines
  <2>15. ReadersOK' /\ process' \in {"up", "down", "panicked"}
    <3>1. ReadersOK'
      BY <1>3, ZenonT(60) DEF LogInv, ReadersOK
    <3>2. process' \in {"up", "down", "panicked"}
      BY <2>2, ZenonT(60) DEF LogInv
    <3> QED  BY <3>1, <3>2, ZenonT(60)
  <2> QED  BY <2>13, <2>14, <2>15, ZenonT(60) DEF LogInv
<1> QED  BY <1>4, <1>5, ZenonT(60)

\* A step of a reader changes nothing of the log.
LEMMA LogReader ==
    ASSUME NEW s, LogInv(s), NEW r \in Readers,
           NewReader(r) \/ ReaderSegment(r) \/ ReaderOpen(r) \/ ReaderNext(r) \/ ReaderEOF(r)
    PROVE  LogInv(s)'
<1> DEFINE PCs == {"idle", "segment", "open", "read", "eof", "done", "failed"}
<1>1. UNCHANGED <<files, segments, active, process, sent, synced, removed>>
  BY ZenonT(60) DEF NewReader, ReaderSegment, ReaderOpen, ReaderNext, ReaderEOF
<1>2. /\ rd = [z \in Readers |-> rd[z]]
      /\ \A z \in Readers : "pc" \in DOMAIN rd[z] /\ rd[z].pc \in PCs
  BY ZenonT(60) DEF LogInv, ReadersOK
<1>3. /\ rd' = [z \in Readers |-> rd'[z]]
      /\ \A z \in Readers : z # r => rd'[z] = rd[z]
      /\ "pc" \in DOMAIN rd'[r] /\ rd'[r].pc \in PCs
  <2>0. "segment" \in PCs /\ "open" \in PCs /\ "read" \in PCs /\ "eof" \in PCs
        /\ "done" \in PCs /\ "failed" \in PCs
    OBVIOUS
  <2> HIDE DEF PCs
  <2>1. CASE NewReader(r)
    <3>1. PICK u, v, w : rd' = [rd EXCEPT ![r] = [NoReader EXCEPT !.pc = "segment",
                                   !.i = u, !.start = v, !.owed = w]]
      BY <2>1, ZenonT(60) DEF NewReader
    <3> QED  BY <1>2, <2>0, <3>1, ZenonT(60) DEF NoReader
  <2>2. CASE ReaderSegment(r)
    <3>1. PICK e : rd' = [rd EXCEPT ![r].pc = "done"]
                   \/ rd' = [rd EXCEPT ![r].pc = "open", ![r].base = e]
      BY <2>2, ZenonT(60) DEF ReaderSegment
    <3> QED  BY <1>2, <2>0, <3>1, ZenonT(60)
  <2>3. CASE ReaderOpen(r)
    <3>1. PICK e : rd' = [rd EXCEPT ![r].pc = "failed"]
                   \/ rd' = [rd EXCEPT ![r].pc = "read", ![r].pos = e]
      BY <2>3, ZenonT(60) DEF ReaderOpen
    <3> QED  BY <1>2, <2>0, <3>1, ZenonT(60)
  <2>4. CASE ReaderNext(r)
    <3>1. PICK m, c : rd' = [rd EXCEPT ![r].pc = "eof"]
                   \/ rd' = [rd EXCEPT ![r].pos = @ + 1,
                                       ![r].out = IF c THEN @ ELSE Append(@, m)]
      BY <2>4, ZenonT(60) DEF ReaderNext
    <3> QED  BY <1>2, <2>0, <3>1, ZenonT(60)
  <2>5. CASE ReaderEOF(r)
    <3>1. rd' = [rd EXCEPT ![r].pc = "segment", ![r].i = @ + 1, ![r].start = 0]
          \/ rd' = [rd EXCEPT ![r].pc = "done"]
      BY <2>5, ZenonT(60) DEF ReaderEOF
    <3> QED  BY <1>2, <2>0, <3>1, ZenonT(60)
  <2> QED  BY <2>1, <2>2, <2>3, <2>4, <2>5, ZenonT(60)
<1>4. ReadersOK'
  BY <1>2, <1>3, ZenonT(60) DEF ReadersOK
<1>5. Lines(s)'
  BY <1>1, ZenonT(60) DEF LogInv, Lines
<1> QED  BY <1>1, <1>4, <1>5, ZenonT(60) DEF LogInv

\* The files are loaded again, and no segment is active.
LEMMA LogRestart ==
    ASSUME NEW s, Symbols = {s}, LogInv(s), Restart
    PROVE  LogInv(s)'
<1>1. PICK d \in Nat : LogOK(s, files, segments, active, sent[s], sent[s], d, removed, synced)
  BY ZenonT(60) DEF LogInv, Lines
<1>2. Linked(files) # {}
  BY <1>1, ZenonT(60) DEF LogOK
<1>3. PICK c \in 0..MaxSeq + 1 : \E bases \in [1..c -> Linked(files)] :
        /\ Range(bases) = Linked(files)
        /\ \A j, k \in DOMAIN bases : j < k => bases[j] < bases[k]
        /\ segments' = IF bases = <<>> THEN <<NewHandle(0, 0)>>
                       ELSE [j \in DOMAIN bases |->
                               NewHandle(bases[j], SizeOf(files[bases[j]]))]
        /\ files' = IF bases = <<>> THEN Opened(files, 0) ELSE files
        /\ active' = (bases = <<>>)
  BY ZenonT(60) DEF Restart
<1>4. PICK bases \in [1..c -> Linked(files)] :
        /\ Range(bases) = Linked(files)
        /\ \A j, k \in DOMAIN bases : j < k => bases[j] < bases[k]
        /\ segments' = IF bases = <<>> THEN <<NewHandle(0, 0)>>
                       ELSE [j \in DOMAIN bases |->
                               NewHandle(bases[j], SizeOf(files[bases[j]]))]
        /\ files' = IF bases = <<>> THEN Opened(files, 0) ELSE files
        /\ active' = (bases = <<>>)
  BY <1>3, ZenonT(60)
<1>5. DOMAIN bases = 1..c /\ c \in Nat
  <2>1. c \in Nat
    BY WALAssumption
  <2> QED  BY <1>4, <2>1, ZenonT(60)
<1>6. bases # <<>>
  <2>1. DOMAIN <<>> = {}
    OBVIOUS
  <2> QED  BY <1>2, <1>4, <2>1, ZenonT(60) DEF Range
<1>7. /\ files' = files /\ active' = FALSE
      /\ segments' = [j \in 1..c |-> NewHandle(bases[j], SizeOf(files[bases[j]]))]
      /\ \A j, k \in 1..c : j < k => bases[j] < bases[k]
  <2>1. files' = files /\ active' = (bases = <<>>)
    BY <1>4, <1>6, ZenonT(60)
  <2>2. active' = FALSE
    <3>1. (bases = <<>>) = FALSE
      BY <1>6
    <3> QED  BY <2>1, <3>1, ZenonT(60)
  <2> QED  BY <1>4, <1>5, <1>6, <2>1, <2>2, ZenonT(60)
<1>8. LogOK(s, files, segments', FALSE, sent[s], sent[s], d, removed, synced)
  <2>1. Sorted(bases, c, Linked(files))
    BY <1>4, <1>7, ZenonT(60) DEF Sorted
  <2>2. LogOK(s, files, Handles(files, bases, c), FALSE, sent[s], sent[s], d, removed, synced)
    BY <1>1, <1>5, <2>1, ReopenOK, ZenonT(60)
  <2> QED  BY <1>7, <2>2, ZenonT(60) DEF Handles
<1>9. sent' = sent /\ removed' = removed /\ synced' = synced /\ UNCHANGED rd /\ process' = "up"
  BY ZenonT(60) DEF Restart
<1>10. Lines(s)'
  BY <1>7, <1>8, <1>9, ZenonT(60) DEF Lines
<1>11. process' \in {"up", "down", "panicked"}
  BY <1>9
<1> QED  BY <1>9, <1>10, <1>11, Framed, ZenonT(60)

\* The invariant says what a run checks.
LEMMA LogHolds ==
    ASSUME NEW s, Symbols = {s}, LogInv(s)
    PROVE  LogDurable
<1>1. PICK d \in Nat : LogOK(s, files, segments, active, sent[s], sent[s], d, removed, synced)
  BY ZenonT(60) DEF LogInv, Lines
<1>2. /\ FilesOK(s, files) /\ segments \in Seq(Handle(s)) /\ HandlesFit(files, segments, active)
      /\ active \in BOOLEAN /\ UpTo(Stored(files) \union removed, d)
      /\ synced \subseteq Stored(files) \union removed
  BY <1>1, ZenonT(60) DEF LogOK
<1>3. DOMAIN segments = 1..Len(segments)
  BY <1>2
<1>4. ASSUME NEW j \in 1..Len(segments)
      PROVE  /\ segments[j].base \in DOMAIN files /\ files[segments[j].base].linked
             /\ segments[j].size - Len(segments[j].buf) \in
                  Len(files[segments[j].base].log) .. SizeOf(files[segments[j].base])
  <2>1. segments[j].base \in DOMAIN files /\ files[segments[j].base].linked
    BY <1>2, ZenonT(60) DEF HandlesFit, Linked
  <2>2. files[segments[j].base] \in File(s)
    BY <1>2, <2>1, ZenonT(60) DEF FilesOK
  <2>3. segments[j] \in Handle(s)
    BY <1>2
  <2>4. PICK l, z, u, k : l = Len(files[segments[j].base].log) /\ z = SizeOf(files[segments[j].base])
                         /\ u = segments[j].size /\ k = Len(segments[j].buf)
    BY ZenonT(60)
  <2>5. l \in Nat /\ z \in Nat /\ l <= z /\ u \in Nat /\ k \in Nat
    BY <2>2, <2>3, <2>4, FileParts, HandleParts, ZenonT(60)
  <2>6. u - k \in l .. z
    <3>1. CASE active
      <4>1. u = l + k
        BY <1>2, <2>4, <3>1, ZenonT(60) DEF HandlesFit
      <4> QED  BY <2>5, <4>1
    <3>2. CASE ~active
      <4>1. u \in l .. z /\ segments[j].buf = <<>>
        BY <1>2, <2>4, <3>2, ZenonT(60) DEF HandlesFit
      <4>2. Len(<<>>) = 0
        OBVIOUS
      <4>3. k = 0
        BY <2>4, <4>1, <4>2, ZenonT(60)
      <4> QED  BY <2>5, <4>1, <4>3
    <3> QED  BY <3>1, <3>2, ZenonT(60)
  <2> QED  BY <2>1, <2>4, <2>6, ZenonT(60)
<1>5. TypeOK
  <2>1. process \in {"up", "down", "panicked"}
        /\ \A r \in Readers : rd[r].pc \in {"idle", "segment", "open", "read", "eof", "done", "failed"}
    BY ZenonT(60) DEF LogInv, ReadersOK
  <2>2. active => segments # <<>>
    BY <1>2, ZenonT(60) DEF HandlesFit
  <2> QED  BY <1>3, <1>4, <2>1, <2>2, ZenonT(60) DEF TypeOK
<1>6. DurablePrefix
  <2>1. d \in 0..sent[s]
    BY <1>1, ZenonT(60) DEF LogOK
  <2> QED  BY <1>2, <2>1, ZenonT(60) DEF DurablePrefix, UpTo, OnDisk
<1>7. SyncedSurvives
  BY <1>2, ZenonT(60) DEF SyncedSurvives, OnDisk
<1> QED  BY <1>5, <1>6, <1>7, ZenonT(60) DEF LogDurable

\* The log of one symbol is durable, for any segment size, index interval, retention
\* and number of crashes: what has reached the disk is a prefix of what was appended,
\* and no synced message is lost except to retention (SegmentManager).
THEOREM LogIsKept ==
    ASSUME NEW s, Symbols = {s}
    PROVE  Spec => []LogDurable
<1>1. Init => LogInv(s)
  BY LogInit, ZenonT(60)
<1>2. LogInv(s) /\ [Next]_vars => LogInv(s)'
  <2> SUFFICES ASSUME LogInv(s), [Next]_vars  PROVE LogInv(s)'
    BY ZenonT(60)
  <2>1. CASE \E z \in Symbols : Publish(z)
    BY <2>1, LogPublish, ZenonT(60)
  <2>2. CASE Flush
    BY <2>2, LogFlush, ZenonT(60)
  <2>3. CASE Sync
    BY <2>3, LogSync, ZenonT(60)
  <2>4. CASE EnforceRetention
    BY <2>4, LogRetention, ZenonT(60)
  <2>5. CASE Crash
    BY <2>5, LogCrash, ZenonT(60)
  <2>6. CASE Close
    BY <2>6, LogClose, ZenonT(60)
  <2>7. CASE Restart
    BY <2>7, LogRestart, ZenonT(60)
  <2>8. CASE \E r \in Readers : NewReader(r) \/ ReaderSegment(r) \/ ReaderOpen(r)
                                  \/ ReaderNext(r) \/ ReaderEOF(r)
    BY <2>8, LogReader, ZenonT(60)
  <2>9. CASE UNCHANGED vars
    BY <2>9, ZenonT(60) DEF LogInv, Lines, ReadersOK, vars
  <2> QED  BY <2>1, <2>2, <2>3, <2>4, <2>5, <2>6, <2>7, <2>8, <2>9, ZenonT(60) DEF Next
<1>3. LogInv(s) => LogDurable
  BY LogHolds, ZenonT(60)
<1> QED  BY <1>1, <1>2, <1>3, PTL DEF Spec
=============================================================================
