------------------------ MODULE BackpressureChannel ------------------------
(***************************************************************************)
(* One subscriber's delivery buffer (internal/backpressure): the ring of   *)
(* ring.go, and the Channel of channel.go that wraps it under the          *)
(* DropOldest and Disconnect policies.  Producers run Send concurrently,   *)
(* the goroutine forwardLoop moves events from the ring to the consumer's  *)
(* Go channel forwardC, and Close stops the loop and drains the ring.      *)
(*                                                                         *)
(* An event is identified by the position at which Push wrote it, so the   *)
(* events in push order are 0, 1, 2, ...  Each action is one critical      *)
(* section or one atomic access of the code.                               *)
(***************************************************************************)
EXTENDS Integers, Sequences, FiniteSets

CONSTANTS
    Producers,           \* goroutines that call Send
    Cap,                 \* ring capacity (a power of two in the code)
    FwdCap,              \* capacity of forwardC: min(BufferSize, 64)
    Policy,              \* "DropOldest" or "Disconnect"
    MaxConsecutiveDrops, \* Disconnect policy threshold
    DropWindowOn,        \* DropWindow and DropThreshold are both positive
    MaxSends             \* bound: Send calls that pass the closed check

ASSUME ChannelAssumption ==
    /\ IsFiniteSet(Producers)
    /\ Cap \in Nat \ {0}
    /\ FwdCap \in Nat \ {0}
    /\ Policy \in {"DropOldest", "Disconnect"}
    /\ MaxConsecutiveDrops \in Nat \ {0}   \* Config.Validate
    /\ DropWindowOn \in BOOLEAN
    /\ MaxSends \in Nat

Nil == -1   \* an empty ring slot, or no event
Event == Nat \union {Nil}

VARIABLES
    buf, head, tail,     \* the ring
    ringDropped,         \* ring.totalDropped: overwritten or too old
    pc, prev,            \* per producer: position in Send, local prevDropped
    loop, held,          \* forwardLoop: position, the event it has popped
    forwardC, fwdClosed, \* the consumer's Go channel
    closer,              \* position of the Close call that won the CAS
    stopped,             \* stopCh is closed
    totalDropped,        \* Channel.totalDropped
    consecutive,         \* consecutiveDrops
    disconnect,          \* disconnectOnce: "armed", "fired", "ran"
    sends,               \* number of Send calls started
    received, delivered, \* last event the consumer received, how many it did
    closeDropped, lost   \* drops during the drain; event abandoned by the loop

ringVars == <<buf, head, tail, ringDropped>>
sendVars == <<pc, prev, sends>>
loopVars == <<loop, held>>
chanVars == <<forwardC, fwdClosed, received, delivered>>
closeVars == <<closer, stopped, closeDropped>>
dropVars == <<totalDropped, consecutive, disconnect>>
vars == <<ringVars, sendVars, loopVars, chanVars, closeVars, dropVars, lost>>

closed == closer # "open"   \* Channel.closed

Init ==
    /\ buf = [i \in 0..Cap-1 |-> Nil] /\ head = 0 /\ tail = 0
    /\ ringDropped = 0
    /\ pc = [p \in Producers |-> "idle"] /\ prev = [p \in Producers |-> 0]
    /\ loop = "wait" /\ held = Nil
    /\ forwardC = <<>> /\ fwdClosed = FALSE /\ received = Nil
    /\ delivered = 0
    /\ closer = "open" /\ stopped = FALSE /\ closeDropped = 0
    /\ totalDropped = 0 /\ consecutive = 0 /\ disconnect = "armed"
    /\ sends = 0 /\ lost = {}

-----------------------------------------------------------------------------
(* Ring.Push and Ring.Pop, each under the ring's mutex.                     *)

\* Mutation: the full test is off by one.
PushWrite_OffByOne ==
    /\ buf' = [buf EXCEPT ![head % Cap] = head]
    /\ head' = head + 1
    /\ IF head - tail > Cap
       THEN tail' = tail + 1 /\ ringDropped' = ringDropped + 1
       ELSE UNCHANGED <<tail, ringDropped>>

\* Mutation: an overwrite is not counted.
PushWrite_Uncounted ==
    /\ buf' = [buf EXCEPT ![head % Cap] = head]
    /\ head' = head + 1
    /\ tail' = IF head - tail >= Cap THEN tail + 1 ELSE tail
    /\ UNCHANGED ringDropped

\* The slot write; a full ring loses its oldest event.
PushWrite ==
    /\ buf' = [buf EXCEPT ![head % Cap] = head]
    /\ head' = head + 1
    /\ IF head - tail >= Cap
       THEN tail' = tail + 1 /\ ringDropped' = ringDropped + 1
       ELSE UNCHANGED <<tail, ringDropped>>

PopWrite ==
    /\ buf' = [buf EXCEPT ![tail % Cap] = Nil]
    /\ tail' = tail + 1
    /\ UNCHANGED <<head, ringDropped>>

Peek == buf[tail % Cap]

\* Mutation: nobody is woken.
Wake_Nobody == UNCHANGED loop

\* cond.Signal, cond.Broadcast: a parked forwardLoop rechecks its condition.
Wake == loop' = IF loop = "parked" THEN "wait" ELSE loop

-----------------------------------------------------------------------------
(* Send, as run by producer p.                                              *)

\* The closed check at the head of Send.
SendStart(p) ==
    /\ pc[p] = "idle" /\ ~closed
    /\ sends < MaxSends /\ sends' = sends + 1
    /\ pc' = [pc EXCEPT ![p] = "prev"]
    /\ UNCHANGED <<ringVars, prev, loopVars, chanVars, closeVars, dropVars, lost>>

\* prevDropped := c.ring.TotalDropped()
ReadPrev(p) ==
    /\ pc[p] = "prev"
    /\ prev' = [prev EXCEPT ![p] = ringDropped]
    /\ pc' = [pc EXCEPT ![p] = "push"]
    /\ UNCHANGED <<ringVars, sends, loopVars, chanVars, closeVars, dropVars, lost>>

Push(p) ==
    /\ pc[p] = "push"
    /\ PushWrite
    /\ Wake
    /\ pc' = [pc EXCEPT ![p] = "account"]
    /\ UNCHANGED <<prev, sends, held, chanVars, closeVars, dropVars, lost>>

\* maxAge: an event older than maxAge is counted as dropped and not written.
PushTooOld(p) ==
    /\ pc[p] = "push"
    /\ ringDropped' = ringDropped + 1
    /\ pc' = [pc EXCEPT ![p] = "account"]
    /\ UNCHANGED <<buf, head, tail, prev, sends, loopVars, chanVars, closeVars,
                   dropVars, lost>>

\* newDropped := c.ring.TotalDropped(), then the drop is recorded or the
\* consecutive counter reset (resetConsecutiveOnSuccess).
Account(p) ==
    /\ pc[p] = "account"
    /\ LET d == ringDropped - prev[p] IN
       IF d > 0
       THEN /\ totalDropped' = totalDropped + d
            /\ consecutive' = IF Policy = "Disconnect" THEN consecutive + 1
                                                       ELSE consecutive
            /\ pc' = [pc EXCEPT ![p] = IF Policy = "Disconnect" THEN "check"
                                                                ELSE "idle"]
       ELSE /\ consecutive' = 0
            /\ pc' = [pc EXCEPT ![p] = "idle"]
            /\ UNCHANGED totalDropped
    /\ UNCHANGED <<ringVars, prev, sends, loopVars, chanVars, closeVars,
                   disconnect, lost>>

\* recordDrop's threshold tests and triggerDisconnect's Once.  Whether the
\* ten-second window holds enough drops depends on the clock (DropWindow.tla).
CheckThreshold(p) ==
    /\ pc[p] = "check"
    /\ \E sustained \in {FALSE, DropWindowOn} :
          disconnect' = IF /\ consecutive >= MaxConsecutiveDrops \/ sustained
                           /\ disconnect = "armed"
                        THEN "fired" ELSE disconnect
    /\ pc' = [pc EXCEPT ![p] = "idle"]
    /\ UNCHANGED <<ringVars, prev, sends, loopVars, chanVars, closeVars,
                   totalDropped, consecutive, lost>>

ResetDrops ==
    /\ consecutive' = 0
    /\ UNCHANGED <<ringVars, sendVars, loopVars, chanVars, closeVars,
                   totalDropped, disconnect, lost>>

-----------------------------------------------------------------------------
(* forwardLoop and the consumer.                                            *)

\* WaitForData: with the ring empty, stop or park; otherwise go and pop.
LoopWait ==
    /\ loop = "wait"
    /\ loop' = IF tail < head THEN "pop" ELSE IF stopped THEN "exited" ELSE "parked"
    /\ UNCHANGED <<ringVars, sendVars, held, chanVars, closeVars, dropVars, lost>>

LoopPop ==
    /\ loop = "pop"
    /\ tail < head
    /\ held' = Peek
    /\ PopWrite
    /\ loop' = "send"
    /\ UNCHANGED <<sendVars, chanVars, closeVars, dropVars, lost>>

LoopForward ==
    /\ loop = "send" /\ Len(forwardC) < FwdCap
    /\ forwardC' = Append(forwardC, held)
    /\ held' = Nil /\ loop' = "wait"
    /\ UNCHANGED <<ringVars, sendVars, fwdClosed, received, delivered, closeVars, dropVars, lost>>

\* The stop case of the select: the popped event is abandoned.
LoopStop ==
    /\ loop = "send" /\ stopped
    /\ lost' = lost \union {held}
    /\ held' = Nil /\ loop' = "exited"
    /\ UNCHANGED <<ringVars, sendVars, chanVars, closeVars, dropVars>>

Receive ==
    /\ forwardC # <<>>
    /\ received' = Head(forwardC) /\ delivered' = delivered + 1
    /\ forwardC' = Tail(forwardC)
    /\ UNCHANGED <<ringVars, sendVars, loopVars, fwdClosed, closeVars, dropVars, lost>>

-----------------------------------------------------------------------------
(* Close.  Only the call that wins the CAS on closed goes past it.          *)

CloserGoes(from, to) == closer = from /\ closer' = to

\* The CAS, by a caller of Close or by the callback of triggerDisconnect.
CloseStart ==
    /\ CloserGoes("open", "stop")
    /\ UNCHANGED <<ringVars, sendVars, loopVars, chanVars, stopped, closeDropped,
                   dropVars, lost>>

OnDisconnect ==
    /\ disconnect = "fired" /\ disconnect' = "ran"
    /\ closer' = IF closed THEN closer ELSE "stop"
    /\ UNCHANGED <<ringVars, sendVars, loopVars, chanVars, stopped, closeDropped,
                   totalDropped, consecutive, lost>>

CloseStopCh ==
    /\ CloserGoes("stop", "broadcast")
    /\ stopped' = TRUE
    /\ UNCHANGED <<ringVars, sendVars, loopVars, chanVars, closeDropped, dropVars, lost>>

CloseBroadcast ==
    /\ CloserGoes("broadcast", "join")
    /\ Wake
    /\ UNCHANGED <<ringVars, sendVars, held, chanVars, stopped, closeDropped,
                   dropVars, lost>>

\* Mutation: the drain starts while forwardLoop may still hold an event.
CloseJoin_NoWait ==
    /\ CloserGoes("join", "drain")
    /\ UNCHANGED <<ringVars, sendVars, loopVars, chanVars, stopped, closeDropped,
                   dropVars, lost>>

\* wg.Wait()
CloseJoin ==
    /\ loop = "exited"
    /\ CloserGoes("join", "drain")
    /\ UNCHANGED <<ringVars, sendVars, loopVars, chanVars, stopped, closeDropped,
                   dropVars, lost>>

\* One round of the drain: forward without blocking, or count a drop.
CloseDrain ==
    /\ closer = "drain" /\ tail < head
    /\ PopWrite
    /\ IF Len(forwardC) < FwdCap
       THEN /\ forwardC' = Append(forwardC, Peek)
            /\ UNCHANGED <<totalDropped, closeDropped>>
       ELSE /\ totalDropped' = totalDropped + 1
            /\ closeDropped' = closeDropped + 1
            /\ UNCHANGED forwardC
    /\ UNCHANGED <<sendVars, loopVars, fwdClosed, received, delivered, closer, stopped,
                   consecutive, disconnect, lost>>

\* Pop finds the ring empty: leave the drain and close forwardC.
CloseDrained ==
    /\ CloserGoes("drain", "closeC") /\ tail >= head
    /\ UNCHANGED <<ringVars, sendVars, loopVars, chanVars, stopped, closeDropped,
                   dropVars, lost>>

CloseForwardC ==
    /\ CloserGoes("closeC", "done")
    /\ fwdClosed' = TRUE
    /\ UNCHANGED <<ringVars, sendVars, loopVars, forwardC, received, delivered, stopped,
                   closeDropped, dropVars, lost>>

-----------------------------------------------------------------------------
Producer(p) == \/ SendStart(p) \/ ReadPrev(p) \/ Push(p) \/ PushTooOld(p)
               \/ Account(p) \/ CheckThreshold(p)
Loop == LoopWait \/ LoopPop \/ LoopForward \/ LoopStop
Closer == \/ CloseStopCh \/ CloseBroadcast \/ CloseJoin \/ CloseDrain
          \/ CloseDrained \/ CloseForwardC

Next == \/ \E p \in Producers : Producer(p)
        \/ ResetDrops \/ Loop \/ Receive \/ Closer \/ CloseStart \/ OnDisconnect

\* The Go scheduler runs every runnable goroutine; a Send call that has
\* started runs to its end.  Nothing obliges a producer to call Send, the
\* consumer to receive, or anybody to call Close.
Fairness == /\ WF_vars(Loop) /\ WF_vars(Closer) /\ WF_vars(OnDisconnect)
            /\ \A p \in Producers : WF_vars(pc[p] # "idle" /\ Producer(p))

Spec == Init /\ [][Next]_vars
FairSpec == Spec /\ Fairness

-----------------------------------------------------------------------------
(* Properties.                                                              *)

TypeOK ==
    /\ buf \in [0..Cap-1 -> Event]
    /\ head \in Nat /\ tail \in Nat /\ ringDropped \in Nat
    /\ pc \in [Producers -> {"idle", "prev", "push", "account", "check"}]
    /\ prev \in [Producers -> Nat]
    /\ loop \in {"wait", "parked", "pop", "send", "exited"}
    /\ held \in Event
    /\ forwardC \in Seq(Event) /\ fwdClosed \in BOOLEAN
    /\ received \in Event /\ delivered \in Nat
    /\ closer \in {"open", "stop", "broadcast", "join", "drain", "closeC", "done"}
    /\ stopped \in BOOLEAN /\ closeDropped \in Nat
    /\ totalDropped \in Nat /\ consecutive \in Nat
    /\ disconnect \in {"armed", "fired", "ran"}
    /\ sends \in Nat /\ lost \subseteq Event

\* Slots b hold exactly the positions t..h-1, each in its slot.
Window(b, t, h) ==
    /\ t <= h /\ h - t <= Cap
    /\ \A i \in t..h-1 : b[i % Cap] = i
    /\ \A j \in 0..Cap-1 : b[j] # Nil => b[j] \in t..h-1 /\ b[j] % Cap = j

\* The unread events are exactly the newest head - tail <= Cap ones pushed,
\* each in its slot, and every other slot has been released: the reader can
\* neither see an overwritten event nor miss one that was not overwritten
\* (Push, Pop and the drain of Close, all interleaved).
RingWindow == Window(buf, tail, head)

\* The unread events, oldest first.
Unread == [i \in 1..head-tail |-> buf[(tail + i - 1) % Cap]]

\* The ring is a drop-oldest queue: every step of the channel is an enqueue, a
\* dequeue of the oldest unread event, or leaves the queue alone.
Queue == INSTANCE DropOldestQueue WITH pending <- Unread, next <- head
RingIsQueue == Queue!Spec

\* What is on its way to the consumer, oldest first.
InFlight == IF held = Nil THEN forwardC ELSE Append(forwardC, held)

\* s is increasing, all of it after r and before t.
Ordered(r, s, t) ==
    /\ r < t
    /\ \A i \in 1..Len(s) : r < s[i] /\ s[i] < t
    /\ \A i, j \in 1..Len(s) : i < j => s[i] < s[j]

\* The consumer receives events in push order and never twice: everything in
\* flight is newer than what was received and older than what is in the ring,
\* and in increasing order, also while Close drains beside the consumer.
DeliveryInOrder == Ordered(received, InFlight, tail)

Pushing == {p \in Producers : pc[p] \in {"prev", "push"}}

\* Every event whose Send reached Push is in exactly one place: dropped and
\* counted by the ring, received, in forwardC, held by forwardLoop, in the
\* ring, dropped by the drain, or abandoned by forwardLoop at the stop.
Conservation ==
    sends - Cardinality(Pushing) =
        ringDropped + delivered + Len(InFlight) + (head - tail)
        + closeDropped + Cardinality(lost)

\* Close abandons at most one popped event, and leaves in the ring at most
\* the one event of each producer that passed the closed check before it.
CloseLossBounded ==
    /\ Cardinality(lost) <= 1
    /\ closer \in {"closeC", "done"} =>
          (head - tail) + Cardinality(Pushing) <= Cardinality(Producers)

\* forwardC is closed only after forwardLoop, its other sender, has exited,
\* so no goroutine sends on a closed channel.
NoSendOnClosed == fwdClosed => loop = "exited" /\ closer = "done"

\* forwardLoop holds an event exactly while it is blocked in its select, and
\* Close drains only once it has exited.
LoopControl ==
    /\ (held # Nil) <=> (loop = "send")
    /\ closer \in {"drain", "closeC", "done"} => loop = "exited"
    /\ fwdClosed => closer = "done"

\* Whenever no Send is running, Channel.TotalDropped has counted every drop.
DropsNeverUndercounted ==
    (\A p \in Producers : pc[p] = "idle") =>
        totalDropped >= ringDropped + closeDropped

\* No event is lost without being counted: the ring holds the newest unread events
\* in their slots, every event is in one place, Close loses a bounded number,
\* nothing is sent on a closed channel, and between calls of Send no drop is
\* missing from the count (ring.Push, Send, forwardLoop, Close).
Accounting ==
    /\ TypeOK /\ RingWindow /\ Conservation /\ CloseLossBounded /\ NoSendOnClosed
    /\ DropsNeverUndercounted

\* channel.go:296: "TotalDropped returns the total number of events dropped."
\* The code does not have this property: README, section 5.
TotalDroppedExact ==
    (\A p \in Producers : pc[p] = "idle") =>
        totalDropped = ringDropped + closeDropped

\* policy.go:75: MaxConsecutiveDrops consecutive drops come before the
\* disconnect, so at least that many events have been dropped.
DisconnectAfterMaxDrops ==
    disconnect # "armed" => ringDropped >= MaxConsecutiveDrops

\* There is work for a goroutine: unread events, a Close under way, or a
\* disconnect that has fired and not run.
Pending ==
    \/ tail < head /\ ~closed
    \/ closed /\ closer # "done"
    \/ disconnect = "fired"

\* The channel settles: the ring empties as long as the consumer receives, Close
\* returns wherever forwardLoop is blocked, and a disconnect closes the channel.
\* Each disjunct of Pending lasts until it is served, so no wakeup is missed.
Settles == Pending ~> ~Pending
=============================================================================
