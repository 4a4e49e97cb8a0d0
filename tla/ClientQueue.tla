---------------------------- MODULE ClientQueue ----------------------------
(***************************************************************************)
(* The queues of clients: Queue and CachedQueue (clientqueue/queue.go, one  *)
(* text for two event types) around a CachedChannel of internal/           *)
(* backpressure, under its three policies, and the Manager that creates,   *)
(* replaces, removes and closes them.  BackpressureChannel shows that the  *)
(* ring is a bounded queue and delivers in order, so here the events of a  *)
(* queue are only counted.  Every client has a shard of its own.           *)
(***************************************************************************)
EXTENDS Naturals, FiniteSets, FiniteSetsExt

CONSTANTS
    Clients, Senders, Callers,
    Policy,       \* "DropOldest", "DropNewest" or "Disconnect"
    QueueSize,    \* BufferSize, and the capacity of forwardC under DropNewest
    FwdCap,       \* capacity of forwardC under the other policies
    MaxConsecutiveDrops,
    MaxQueues, MaxSends, MaxCalls   \* bounds: queues, Sends, calls of the Manager

VARIABLES
    queues,   \* Manager.shards: client -> its queue, 0 for none
    lock,     \* client -> the caller that holds the lock of its shard
    q,        \* queue -> its state, see NewQueue
    snd,      \* sender -> where its Send stands
    call,     \* caller -> where its Manager call stands
    made, sends, calls, panicked

vars == <<queues, lock, q, snd, call, made, sends, calls, panicked>>

Ids == 1..MaxQueues
None == "none"
RingPolicy == Policy # "DropNewest"
Capacity == IF RingPolicy THEN FwdCap ELSE QueueSize

\* newWithMetrics, NewCachedChannel.  ring, fwd and held count events; loop is
\* the forwardLoop; lost is the event it drops when it stops.
NewQueue(c) ==
    [client |-> c, closed |-> FALSE, chClosed |-> FALSE, stop |-> FALSE,
     close |-> "never", ring |-> 0, fwd |-> 0, fwdClosed |-> FALSE,
     loop |-> IF RingPolicy THEN "wait" ELSE "gone", held |-> 0,
     ringDropped |-> 0, totalDropped |-> 0, closeDropped |-> 0, lost |-> 0,
     consecutive |-> 0, disconnect |-> "armed",
     enqueued |-> 0, sent |-> 0, refused |-> 0, out |-> 0]
Quiet == [pc |-> "idle", i |-> 0, prev |-> 0]
NoCall == [pc |-> "idle", c |-> None, wait |-> {}, todo |-> {}]

Init ==
    /\ queues = [c \in Clients |-> 0] /\ lock = [c \in Clients |-> None]
    /\ q = [i \in Ids |-> NewQueue(None)]
    /\ snd = [s \in Senders |-> Quiet] /\ call = [m \in Callers |-> NoCall]
    /\ made = 0 /\ sends = 0 /\ calls = 0 /\ panicked = FALSE

--------------------------------------------------------------------------
(* Send                                                                    *)

\* A sender got hold of a client's queue, and Send passes the closed flag.
SendStart(s, c) ==
    /\ snd[s].pc = "idle" /\ sends < MaxSends
    /\ lock[c] = None /\ queues[c] # 0
    /\ snd' = [snd EXCEPT ![s] = [pc |-> "enter", i |-> queues[c], prev |-> 0]]
    /\ sends' = sends + 1
    /\ UNCHANGED <<queues, lock, q, call, made, calls, panicked>>

\* The step of sender s on its queue: the queue's new state and the sender's.
Does(s, queue, pc) ==
    /\ q' = [q EXCEPT ![snd[s].i] = queue]
    /\ snd' = [snd EXCEPT ![s] = IF pc = "idle" THEN Quiet ELSE [@ EXCEPT !.pc = pc]]
    /\ UNCHANGED <<queues, lock, call, made, sends, calls>>

SendEnter(s) ==
    LET k == q[snd[s].i] IN
    /\ snd[s].pc = "enter" /\ UNCHANGED panicked
    /\ IF k.closed THEN Does(s, k, "idle")
                   ELSE Does(s, [k EXCEPT !.enqueued = @ + 1], "channel")

\* CachedChannel.Send: its own closed flag, then the policy.
SendChannel(s) ==
    LET k == q[snd[s].i] IN
    /\ snd[s].pc = "channel" /\ UNCHANGED panicked
    /\ Does(s, k, IF k.chClosed THEN "refused" ELSE IF RingPolicy THEN "prev" ELSE "select")

ReadPrev(s) ==
    /\ snd[s].pc = "prev"
    /\ snd' = [snd EXCEPT ![s].pc = "push", ![s].prev = q[snd[s].i].ringDropped]
    /\ UNCHANGED <<queues, lock, q, call, made, sends, calls, panicked>>

\* CachedRing.Push, under the mutex of the ring.
Push(s) ==
    LET k == q[snd[s].i] IN
    /\ snd[s].pc = "push" /\ UNCHANGED panicked
    /\ Does(s, IF k.ring = QueueSize THEN [k EXCEPT !.ringDropped = @ + 1]
                                     ELSE [k EXCEPT !.ring = @ + 1], "account")

\* The rest of sendDropOldest and sendDisconnect.
Account(s) ==
    LET k == q[snd[s].i]
        new == k.ringDropped - snd[s].prev
    IN /\ snd[s].pc = "account" /\ UNCHANGED panicked
       /\ IF new = 0 THEN Does(s, [k EXCEPT !.consecutive = 0], "accepted")
          ELSE IF Policy = "DropOldest"
          THEN Does(s, [k EXCEPT !.totalDropped = @ + new], "accepted")
          ELSE Does(s, [k EXCEPT !.totalDropped = @ + new, !.consecutive = @ + 1], "check")

\* The comparison at the end of recordDrop; the rate over the drop window may
\* fire as well.  A DropNewest send was not accepted.
CheckDrops(s) ==
    LET k == q[snd[s].i] IN
    /\ snd[s].pc = "check" /\ UNCHANGED panicked
    /\ \E rate \in BOOLEAN :
         Does(s, IF k.disconnect = "armed" /\ (rate \/ k.consecutive >= MaxConsecutiveDrops)
                 THEN [k EXCEPT !.disconnect = "fired"] ELSE k,
              IF RingPolicy THEN "accepted" ELSE "refused")

\* The select of sendDropNewest.  A send on the closed forwardC panics, when
\* select takes that case and not the one of stopCh.
Select(s) ==
    LET k == q[snd[s].i] IN
    /\ snd[s].pc = "select"
    /\ \/ /\ k.fwdClosed /\ panicked' = TRUE /\ Does(s, k, "idle")
       \/ /\ ~k.fwdClosed /\ k.fwd < Capacity /\ UNCHANGED panicked
          /\ Does(s, [k EXCEPT !.fwd = @ + 1, !.consecutive = 0], "accepted")
       \/ /\ k.stop /\ UNCHANGED panicked /\ Does(s, k, "refused")
       \/ /\ ~k.fwdClosed /\ ~k.stop /\ k.fwd = Capacity /\ UNCHANGED panicked
          /\ Does(s, [k EXCEPT !.totalDropped = @ + 1, !.consecutive = @ + 1], "check")

\* The counters of Queue.Send.
SendReturn(s) ==
    LET k == q[snd[s].i] IN
    /\ snd[s].pc \in {"accepted", "refused"} /\ UNCHANGED panicked
    /\ Does(s, IF snd[s].pc = "accepted" THEN [k EXCEPT !.sent = @ + 1]
                                         ELSE [k EXCEPT !.refused = @ + 1], "idle")

--------------------------------------------------------------------------
(* forwardLoop, the consumer, Close                                        *)

Steps(i, queue) ==
    /\ q' = [q EXCEPT ![i] = queue]
    /\ UNCHANGED <<queues, lock, snd, call, made, sends, calls, panicked>>

\* WaitForData and Pop.
LoopPop(i) ==
    LET k == q[i] IN
    /\ k.loop = "wait" /\ k.client # None
    /\ IF k.ring > 0 THEN Steps(i, [k EXCEPT !.ring = @ - 1, !.held = 1, !.loop = "hold"])
                     ELSE k.stop /\ Steps(i, [k EXCEPT !.loop = "gone"])

LoopForward(i) ==
    LET k == q[i] IN
    /\ k.loop = "hold"
    /\ \/ k.fwd < Capacity /\ Steps(i, [k EXCEPT !.fwd = @ + 1, !.held = 0, !.loop = "wait"])
       \/ k.stop /\ Steps(i, [k EXCEPT !.lost = 1, !.held = 0, !.loop = "gone"])

Receive(i) == q[i].fwd > 0 /\ Steps(i, [q[i] EXCEPT !.fwd = @ - 1, !.out = @ + 1])

\* ResetDrops may be called at any time.
ResetDrops(i) == q[i].consecutive > 0 /\ Steps(i, [q[i] EXCEPT !.consecutive = 0])

\* Queue.Close runs once per queue, for whoever asked first; the others wait.
\* "asked" - closed.Store and close(closeCh), "channel" - CachedChannel.Close.
CloseFlag(i) ==
    q[i].close = "asked" /\ Steps(i, [q[i] EXCEPT !.closed = TRUE, !.close = "channel"])

CloseChannel(i) ==
    q[i].close = "channel" /\ Steps(i, [q[i] EXCEPT !.chClosed = TRUE, !.close = "stop"])

CloseStop(i) ==
    q[i].close = "stop" /\ Steps(i, [q[i] EXCEPT !.stop = TRUE, !.close = "join"])

CloseJoin(i) ==
    /\ q[i].close = "join" /\ q[i].loop = "gone"
    /\ Steps(i, [q[i] EXCEPT !.close = "drain"])

CloseDrain(i) ==
    LET k == q[i] IN
    /\ k.close = "drain"
    /\ Steps(i, IF k.ring = 0 THEN [k EXCEPT !.close = "end"]
                ELSE IF k.fwd < Capacity THEN [k EXCEPT !.ring = @ - 1, !.fwd = @ + 1]
                ELSE [k EXCEPT !.ring = @ - 1, !.closeDropped = @ + 1, !.totalDropped = @ + 1])

CloseEnd(i) ==
    q[i].close = "end" /\ Steps(i, [q[i] EXCEPT !.fwdClosed = TRUE, !.close = "over"])

--------------------------------------------------------------------------
(* Manager                                                                 *)

Ask(set) == [i \in Ids |-> IF i \in set /\ q[i].close = "never"
                           THEN [q[i] EXCEPT !.close = "asked"] ELSE q[i]]
Closed(set) == \A i \in set : q[i].close = "over"


\* Create: the old queue is closed under the lock of the shard.
Create(m, c) ==
    LET old == {queues[c]} \ {0} IN
    /\ call[m].pc = "idle" /\ lock[c] = None /\ made < MaxQueues /\ calls < MaxCalls
    /\ q' = Ask(old)
    /\ lock' = [lock EXCEPT ![c] = m]
    /\ call' = [call EXCEPT ![m] = [NoCall EXCEPT !.pc = "create", !.c = c, !.wait = old]]
    /\ made' = made + 1 /\ calls' = calls + 1
    /\ UNCHANGED <<queues, snd, sends, panicked>>

\* The new queue takes the place of the old one, and the lock is released.
\* Queues are numbered in the order they are installed.
CreateInstall(m) ==
    LET c == call[m].c
        i == Cardinality({j \in Ids : q[j].client # None}) + 1
    IN /\ call[m].pc = "create" /\ Closed(call[m].wait)
       /\ q' = [q EXCEPT ![i] = NewQueue(c)]
       /\ queues' = [queues EXCEPT ![c] = i]
       /\ lock' = [lock EXCEPT ![c] = None]
       /\ call' = [call EXCEPT ![m] = NoCall]
       /\ UNCHANGED <<snd, made, sends, calls, panicked>>

\* Remove: the queue leaves the map under the lock and is closed outside.
Removes(m, c) ==
    /\ lock[c] = None
    /\ q' = Ask({queues[c]} \ {0})
    /\ queues' = [queues EXCEPT ![c] = 0]
    /\ call' = [call EXCEPT ![m] = [NoCall EXCEPT !.pc = "close", !.c = c,
                                                   !.wait = {queues[c]} \ {0}]]
    /\ UNCHANGED <<lock, snd, made, sends, panicked>>

Remove(m, c) ==
    /\ call[m].pc = "idle" /\ calls < MaxCalls /\ calls' = calls + 1
    /\ Removes(m, c)

\* CloseAll empties one shard after the other, then closes all it collected.
CloseAll(m) ==
    /\ call[m].pc = "idle" /\ calls < MaxCalls /\ calls' = calls + 1
    /\ call' = [call EXCEPT ![m] = [NoCall EXCEPT !.pc = "collect", !.todo = Clients]]
    /\ UNCHANGED <<queues, lock, q, snd, made, sends, panicked>>

CloseAllCollect(m, c) ==
    /\ call[m].pc = "collect" /\ c \in call[m].todo /\ lock[c] = None
    /\ queues' = [queues EXCEPT ![c] = 0]
    /\ call' = [call EXCEPT ![m].todo = @ \ {c}, ![m].wait = @ \cup ({queues[c]} \ {0})]
    /\ UNCHANGED <<lock, q, snd, made, sends, calls, panicked>>

CloseAllClose(m) ==
    /\ call[m].pc = "collect" /\ call[m].todo = {}
    /\ q' = Ask(call[m].wait)
    /\ call' = [call EXCEPT ![m].pc = "close"]
    /\ UNCHANGED <<queues, lock, snd, made, sends, calls, panicked>>

\* Remove and CloseAll return when their queues are closed, CloseAll also when
\* its timeout is over.
CallReturns(m) ==
    /\ call[m].pc = "close"
    /\ call[m].c = None \/ Closed(call[m].wait)
    /\ call' = [call EXCEPT ![m] = NoCall]
    /\ UNCHANGED <<queues, lock, q, snd, made, sends, calls, panicked>>

\* The callback of a disconnect unsubscribes its client, in a goroutine.
OnDisconnect(i) ==
    LET c == q[i].client IN
    /\ q[i].disconnect = "fired" /\ lock[c] = None
    /\ q' = [Ask({queues[c]} \ {0}) EXCEPT ![i].disconnect = "ran"]
    /\ queues' = [queues EXCEPT ![c] = 0]
    /\ UNCHANGED <<lock, snd, call, made, sends, calls, panicked>>

--------------------------------------------------------------------------
Sender(s) ==
    \/ SendEnter(s) \/ SendChannel(s) \/ ReadPrev(s) \/ Push(s)
    \/ Account(s) \/ CheckDrops(s) \/ Select(s) \/ SendReturn(s)

QueueStep(i) ==
    \/ LoopPop(i) \/ LoopForward(i) \/ Receive(i) \/ ResetDrops(i)
    \/ CloseFlag(i) \/ CloseChannel(i) \/ CloseStop(i)
    \/ CloseJoin(i) \/ CloseDrain(i) \/ CloseEnd(i) \/ OnDisconnect(i)

Next ==
    \/ \E s \in Senders : Sender(s) \/ \E c \in Clients : SendStart(s, c)
    \/ \E i \in Ids : QueueStep(i)
    \/ \E m \in Callers :
         \/ \E c \in Clients : Create(m, c) \/ Remove(m, c) \/ CloseAllCollect(m, c)
         \/ CreateInstall(m) \/ CloseAll(m) \/ CloseAllClose(m) \/ CallReturns(m)

Spec == Init /\ [][Next]_vars

--------------------------------------------------------------------------
Born == {i \in Ids : q[i].client # None}
At(i, pcs) == Cardinality({s \in Senders : snd[s].i = i /\ snd[s].pc \in pcs})

\* Every Send that was counted as enqueued is counted once more when it ends
\* (Queue.Send).
SendsBalance ==
    panicked \/ \A i \in Born :
        q[i].enqueued = q[i].sent + q[i].refused
                        + At(i, {"channel", "prev", "push", "account", "check", "select",
                                 "accepted", "refused"})

\* An accepted event is received, waits, or was dropped by the ring, by the
\* drain or by the loop that stops; the loop drops at most one
\* (sendDropOldest, forwardLoop, CachedChannel.Close).
AcceptedKept ==
    \A i \in Born : LET k == q[i] IN
        /\ k.sent + At(i, {"account", "accepted"})
             + (IF RingPolicy THEN At(i, {"check"}) ELSE 0)
           = k.out + k.fwd + k.held + k.ring + k.ringDropped + k.closeDropped + k.lost
        /\ RingPolicy => k.totalDropped + At(i, {"account"}) >= k.ringDropped + k.closeDropped

\* A queue that is not in the map, and not in the hands of CloseAll, is closed
\* or being closed, so that a client never has two live queues
\* (Create, Remove, CloseAll).
OneLiveQueue ==
    \A i \in Born :
        \/ queues[q[i].client] = i
        \/ q[i].close # "never"
        \/ \E m \in Callers : call[m].pc = "collect" /\ i \in call[m].wait

\* Under the ring policies nobody sends on the closed forwardC, and a closed
\* queue has no loop left (CachedChannel.Send, CachedChannel.Close).
ClosedCleanly ==
    /\ RingPolicy => ~panicked
    /\ \A i \in Born : q[i].fwdClosed => q[i].loop = "gone" /\ q[i].closed

\* All of the above.
Safe == SendsBalance /\ AcceptedKept /\ OneLiveQueue /\ ClosedCleanly
=============================================================================
