------------------------------- MODULE WSClient -------------------------------
(***************************************************************************)
(* One WebSocket connection of the gateway (internal/websocket/client.go): *)
(* readPump handles the client's messages, writePump is the only writer of *)
(* the socket, and a reconnect replays the write-ahead log in a goroutine  *)
(* of its own while live events are buffered.  The feed appends each event *)
(* to the log and then hands it to the topic manager, which delivers it to *)
(* the current subscription of the client.                                 *)
(*                                                                         *)
(* The connection begins after an earlier one: the client has seen the     *)
(* events of each symbol s up to some number and sends it in a reconnect.  *)
(***************************************************************************)
EXTENDS Integers, Sequences, FiniteSets

CONSTANTS
    Symbols,
    FlushAll,        \* an appended message is on disk at once
    AllocFollows,    \* the sequence allocator follows the appends
    Slow,            \* the topic manager may close a slow subscription
    Heartbeat,       \* the heartbeat manager may time the client out
    ControlCap,      \* capacity of the control channel
    BufferCap,       \* capacity of the reconnect buffer
    MaxEvents, MaxHandles, MaxReconnects    \* bounds

ASSUME WSClientAssumption ==
    /\ {FlushAll, AllocFollows, Slow, Heartbeat} \subseteq BOOLEAN
    /\ ControlCap \in Nat \ {0} /\ BufferCap \in Nat
    /\ MaxEvents \in Nat /\ MaxHandles \in Nat /\ MaxReconnects \in Nat

VARIABLES
    log, flushed, alloc, pending,   \* log, its length on disk, allocator, event
                                    \* appended and not yet published
    handle, handles,   \* current subscription; id -> channel, closed, done, active
    subUpdated,
    reading, cancelled, \* readPump runs; cancelAll has run (cancelOnce)
    ctx,                \* the connection's context is live
    isReconnecting, replays, reconnectCh,
    eventC, reconnectBuffer, writing,   \* writePump
    control, controlDropped,
    out,       \* symbol -> numbers written to the client since it began
    errors,    \* an error message was written
    reconnects, slowed

feed == <<log, flushed, alloc, pending>>
subs == <<handle, handles, subUpdated>>
life == <<reading, cancelled, ctx>>
rcv == <<isReconnecting, replays, reconnectCh, reconnects>>
ctl == <<control, controlDropped>>
sock == <<out, errors>>
pump == <<eventC, reconnectBuffer, writing>>
vars == <<feed, subs, life, rcv, ctl, sock, pump, slowed>>

NoEvent == <<>>
Count(s, l) == Cardinality({i \in DOMAIN l : l[i].sym = s})
LastOf(s) == out[s][Len(out[s])]
MaxSeq(l) == IF l = <<>> THEN 0
             ELSE CHOOSE n \in {l[i].seq : i \in DOMAIN l} :
                    \A i \in DOMAIN l : l[i].seq <= n

\* The log holds a few events, of which the client has seen some of each
\* symbol.
Init ==
    /\ \E n \in 0..2 : log \in {l \in [1..n -> [sym : Symbols, seq : 1..2]] :
         \A i \in 1..n : l[i].seq = Count(l[i].sym, SubSeq(l, 1, i))}
    /\ flushed = Len(log) /\ alloc = MaxSeq(log) /\ pending = NoEvent
    /\ out \in {o \in [Symbols -> {<<0>>, <<1>>, <<2>>}] :
         \A s \in Symbols : o[s][1] <= Count(s, log)}
    /\ handle = 0 /\ handles = <<>> /\ subUpdated = FALSE
    /\ reading = TRUE /\ cancelled = FALSE /\ ctx = TRUE
    /\ isReconnecting = FALSE /\ replays = <<>> /\ reconnectCh = <<>>
    /\ eventC = 0 /\ reconnectBuffer = <<>> /\ writing = "run"
    /\ control = 0 /\ controlDropped = FALSE
    /\ errors = FALSE /\ reconnects = 0 /\ slowed = FALSE

-----------------------------------------------------------------------------
(* The feed and the topic manager                                          *)

\* Publisher.Publish: the event is appended to the log ...
AppendLog(s) ==
    /\ pending = NoEvent /\ Len(log) < MaxEvents
    /\ LET e == [sym |-> s, seq |-> Count(s, log) + 1]
       IN  /\ log' = Append(log, e) /\ pending' = <<e>>
           /\ alloc' = IF AllocFollows THEN MaxSeq(log') ELSE alloc
    /\ flushed' = IF FlushAll THEN Len(log') ELSE flushed
    /\ UNCHANGED <<subs, life, rcv, ctl, sock, pump, slowed>>

\* ... and then delivered to the subscription, if there is one.
Deliver ==
    /\ pending # NoEvent /\ pending' = NoEvent
    /\ handles' = [h \in DOMAIN handles |->
         IF handles[h].active
         THEN [handles[h] EXCEPT !.ch = Append(@, pending[1])] ELSE handles[h]]
    /\ UNCHANGED <<log, flushed, alloc, handle, subUpdated, life, rcv, ctl, sock,
                   pump, slowed>>

FlushLog ==
    /\ flushed < Len(log) /\ flushed' \in (flushed + 1)..Len(log)
    /\ UNCHANGED <<log, alloc, pending, subs, life, rcv, ctl, sock, pump, slowed>>

Cancelled(h) == [handles EXCEPT ![h].active = FALSE, ![h].closed = TRUE]

\* The backpressure policy disconnects a slow subscriber.
SlowDisconnect ==
    /\ Slow /\ handle # 0 /\ handles[handle].active /\ ~slowed
    /\ handles' = Cancelled(handle) /\ slowed' = TRUE
    /\ UNCHANGED <<feed, handle, subUpdated, life, rcv, ctl, sock, pump>>

-----------------------------------------------------------------------------
(* readPump                                                                *)

\* sendControl: a full channel drops the message.
sendControl ==
    /\ control' = IF control < ControlCap THEN control + 1 ELSE control
    /\ controlDropped' = (controlDropped \/ control = ControlCap)

NewHandle == [ch |-> <<>>, closed |-> FALSE, active |-> TRUE]


\* tm.Subscribe after the previous handle, if any, is cancelled.
Resubscribe ==
    /\ Len(handles) < MaxHandles
    /\ handles' = Append(IF handle = 0 THEN handles ELSE Cancelled(handle),
                         NewHandle)
    /\ handle' = Len(handles) + 1 /\ subUpdated' = TRUE

Subscribe ==
    /\ reading /\ Resubscribe /\ sendControl
    /\ UNCHANGED <<feed, life, rcv, sock, pump, slowed>>

Unsubscribe ==
    /\ reading
    /\ handles' = IF handle = 0 THEN handles ELSE Cancelled(handle)
    /\ handle' = 0 /\ subUpdated' = TRUE /\ sendControl
    /\ UNCHANGED <<feed, life, rcv, sock, pump, slowed>>


\* A reconnect: live events are buffered from now on, the live subscription
\* is renewed, and the log is read in the background.
Reconnect ==
    /\ reading /\ reconnects < MaxReconnects /\ Resubscribe
    /\ isReconnecting' = TRUE
    /\ replays' = Append(replays, [resume |-> [s \in Symbols |-> LastOf(s)],
                                   msgs |-> <<>>, err |-> FALSE, pc |-> "read"])
    /\ reconnects' = reconnects + 1
    /\ UNCHANGED <<feed, life, reconnectCh, ctl, sock, pump, slowed>>

\* cancelAll cancels the current handle, once per connection.
CancelAll ==
    /\ cancelled' = TRUE
    /\ handles' = IF cancelled \/ handle = 0 THEN handles ELSE Cancelled(handle)

\* The connection breaks or its context is cancelled: readPump returns and
\* the gateway unregisters the client.
ReadEnds ==
    /\ reading /\ reading' = FALSE /\ CancelAll
    /\ UNCHANGED <<feed, handle, subUpdated, ctx, rcv, ctl, sock, pump, slowed>>

\* The heartbeat times out: cancelAll, then shutdown cancels the context.
HeartbeatTimeout ==
    /\ Heartbeat /\ reading /\ ctx /\ ctx' = FALSE /\ CancelAll
    /\ UNCHANGED <<feed, handle, subUpdated, reading, rcv, ctl, sock, pump, slowed>>

-----------------------------------------------------------------------------
(* The replay goroutine of a reconnect                                     *)

MinSeq(resume) == CHOOSE n \in {resume[s] : s \in Symbols} :
                    \A s \in Symbols : n <= resume[s]

\* replay.Service.Replay(from): from the first message on disk numbered at
\* least "from" up to the first one past the allocator's number.
Replayed(from) ==
    LET disk == SubSeq(log, 1, flushed)
        first == {i \in 1..flushed : disk[i].seq >= from}
        lo == CHOOSE i \in first : \A j \in first : i <= j
        past == {i \in 1..flushed : i >= lo /\ disk[i].seq > alloc}
        hi == IF past = {} THEN flushed
              ELSE (CHOOSE i \in past : \A j \in past : i <= j) - 1
    IN  IF first = {} THEN <<>> ELSE SubSeq(disk, lo, hi)

Replay(i) ==
    /\ replays[i].pc = "read"
    /\ LET from == MinSeq(replays[i].resume) + 1
           msgs == Replayed(from)
           err == from > alloc \/ msgs = <<>> \/ msgs[1].seq > from
       IN  replays' = [replays EXCEPT ![i].pc = "send", ![i].err = err,
                                      ![i].msgs = IF err THEN <<>> ELSE msgs]
    /\ UNCHANGED <<feed, subs, life, isReconnecting, reconnectCh, reconnects, ctl,
                   sock, pump, slowed>>

\* The blocking send on reconnectCh, capacity one.
ReplaySend(i) ==
    /\ replays[i].pc = "send" /\ reconnectCh = <<>>
    /\ reconnectCh' = <<replays[i]>>
    /\ replays' = [replays EXCEPT ![i].pc = "done"]
    /\ UNCHANGED <<feed, subs, life, isReconnecting, reconnects, ctl, sock, pump,
                   slowed>>

-----------------------------------------------------------------------------
(* writePump                                                               *)

WPSubUpdated ==
    /\ writing = "run" /\ subUpdated /\ subUpdated' = FALSE /\ eventC' = handle
    /\ UNCHANGED <<feed, handle, handles, life, rcv, ctl, sock, reconnectBuffer,
                   writing, slowed>>

\* Events written one after the other, an event below the expected number
\* of its symbol being skipped; w is what is written, exp what is expected.
Written(acc, e) ==
    IF e.seq >= acc.exp[e.sym]
    THEN [w |-> Append(acc.w, e), exp |-> [acc.exp EXCEPT ![e.sym] = e.seq + 1]]
    ELSE acc

\* The replayed messages, then the buffered live events without those
\* already replayed.
Merged(resume, msgs, buffered) ==
    LET all == msgs \o buffered
        f[i \in 0..Len(all)] ==
          IF i = 0 THEN [w |-> <<>>, exp |-> resume] ELSE Written(f[i - 1], all[i])
    IN  f[Len(all)].w

Write(es) ==
    out' = [s \in Symbols |->
              LET mine == SelectSeq(es, LAMBDA e : e.sym = s)
              IN  out[s] \o [i \in DOMAIN mine |-> mine[i].seq]]

\* Mutation: the flag is not lowered.
WPReconnected_FlagKept ==
    /\ writing = "run" /\ reconnectCh # <<>> /\ reconnectCh' = <<>>
    /\ LET res == reconnectCh[1]
       IN  /\ errors' = (errors \/ res.err)
           /\ IF res.err THEN Write(reconnectBuffer)
              ELSE Write(Merged(res.resume, res.msgs, reconnectBuffer))
    /\ reconnectBuffer' = <<>>
    /\ UNCHANGED <<feed, subs, life, isReconnecting, replays, reconnects, ctl,
                   eventC, writing, slowed>>

\* The result of a replay: the merged stream, or after an error message the
\* buffered events as they are; then live events flow again.
WPReconnected ==
    /\ writing = "run" /\ reconnectCh # <<>> /\ reconnectCh' = <<>>
    /\ LET res == reconnectCh[1]
       IN  /\ errors' = (errors \/ res.err)
           /\ IF res.err THEN Write(reconnectBuffer)
              ELSE Write(Merged(res.resume, res.msgs, reconnectBuffer))
    /\ reconnectBuffer' = <<>> /\ isReconnecting' = FALSE
    /\ UNCHANGED <<feed, subs, life, replays, reconnects, ctl, eventC, writing,
                   slowed>>

\* A live event: buffered while reconnecting, written otherwise.  A full
\* buffer ends the connection.
WPEvent ==
    /\ writing = "run" /\ eventC # 0 /\ handles[eventC].ch # <<>>
    /\ handles' = [handles EXCEPT ![eventC].ch = Tail(@)]
    /\ LET e == Head(handles[eventC].ch)
       IN  IF ~isReconnecting
           THEN Write(<<e>>)
                /\ UNCHANGED <<errors, reconnectBuffer, isReconnecting, writing>>
           ELSE IF Len(reconnectBuffer) < BufferCap
           THEN reconnectBuffer' = Append(reconnectBuffer, e)
                /\ UNCHANGED <<sock, isReconnecting, writing>>
           ELSE errors' = TRUE /\ isReconnecting' = FALSE
                /\ reconnectBuffer' = <<>> /\ writing' = "overflow"
                /\ UNCHANGED out
    /\ UNCHANGED <<feed, handle, subUpdated, life, replays, reconnectCh,
                   reconnects, ctl, eventC, slowed>>

\* The event channel is closed and empty: writePump returns.
WPClosed ==
    /\ writing = "run" /\ eventC # 0 /\ handles[eventC].closed
    /\ handles[eventC].ch = <<>> /\ writing' = "closed"
    /\ UNCHANGED <<feed, subs, life, rcv, ctl, sock, eventC, reconnectBuffer,
                   slowed>>

\* Done of the subscription is closed: the channel is no longer read.
WPDone ==
    /\ writing = "run" /\ eventC # 0 /\ handles[eventC].closed /\ eventC' = 0
    /\ UNCHANGED <<feed, subs, life, rcv, ctl, sock, reconnectBuffer, writing,
                   slowed>>

WPControl ==
    /\ writing = "run" /\ control > 0 /\ control' = control - 1
    /\ UNCHANGED <<feed, subs, life, rcv, controlDropped, sock, pump, slowed>>

\* A failed write, the done channel of readPump, or the context.
WPExit ==
    /\ writing = "run" /\ writing' = "exit"
    /\ UNCHANGED <<feed, subs, life, rcv, ctl, sock, eventC, reconnectBuffer,
                   slowed>>

-----------------------------------------------------------------------------
WritePump ==
    WPSubUpdated \/ WPReconnected \/ WPEvent \/ WPClosed \/ WPDone \/ WPControl
ReadPump == Subscribe \/ Unsubscribe \/ Reconnect \/ ReadEnds
Replays == \E i \in DOMAIN replays : Replay(i) \/ ReplaySend(i)

\* The connection has ended and no goroutine can go on.
Ended == ~reading /\ writing # "run" /\ UNCHANGED vars

Next ==
    \/ \E s \in Symbols : AppendLog(s)
    \/ Deliver \/ FlushLog \/ SlowDisconnect
    \/ ReadPump \/ HeartbeatTimeout \/ Replays \/ WritePump \/ WPExit \/ Ended

Spec == Init /\ [][Next]_vars

\* The goroutines are scheduled, and select takes a case that stays ready; a
\* connection whose writePump or context has ended makes readPump return.
FairSpec ==
    /\ Spec /\ WF_vars(WPReconnected) /\ WF_vars(Replays)
    /\ WF_vars((writing # "run" \/ ~ctx) /\ ReadEnds)
    /\ WF_vars(~reading /\ WPExit)

-----------------------------------------------------------------------------
TypeOK ==
    /\ flushed \in 0..Len(log) /\ Len(reconnectCh) <= 1
    /\ handle \in 0..Len(handles) /\ eventC \in 0..Len(handles)
    /\ control \in 0..ControlCap /\ Len(reconnectBuffer) <= BufferCap

\* The topic manager delivers to at most one subscription of the client, the
\* one readPump holds: after any sequence of subscribe, unsubscribe and
\* reconnect no earlier subscription is left behind.
OneSubscription ==
    \A h \in DOMAIN handles : handles[h].active => h = handle

\* The numbers written to the client for each symbol increase: across a
\* reconnect nothing is delivered twice or out of order.
\* The code does not have this property: README, section 5.
StreamInOrder ==
    \A s \in Symbols : \A i \in 2..Len(out[s]) : out[s][i - 1] < out[s][i]

\* "forces the client to reconnect and resync from the WAL to preserve
\* ordering": a stream that resumed without an error has no hole, from what
\* the client had seen on.
StreamComplete ==
    ~errors /\ reconnects = 1 /\ Len(handles) = 1 =>
        \A s \in Symbols : \A i \in 2..Len(out[s]) : out[s][i] <= out[s][i - 1] + 1

\* writePump takes a closed event channel for a slow consumer: it only ends
\* that way if the topic manager closed the subscription ("It is NEVER
\* closed" otherwise).
\* The code does not have this property: README, section 5.
ClosedOnlyIfSlow == writing = "closed" => slowed

\* "unregister removes a client and cancels all its subscriptions".
NothingLeaks == ~reading => \A h \in DOMAIN handles : ~handles[h].active

\* "control messages must not be dropped".
\* The code does not have this property: README, section 5.
ControlDelivered == ~controlDropped

\* Every reconnect is answered or the connection ends, and live events do not
\* stay buffered for good.
ReconnectEnds == isReconnecting ~> (~isReconnecting \/ writing # "run")
=============================================================================
