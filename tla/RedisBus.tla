------------------------------ MODULE RedisBus ------------------------------
(***************************************************************************)
(* Distribution over Redis pub/sub (internal/distribution/redisbus): the   *)
(* publisher's queue and its workers, which send events one by one or as a *)
(* pipeline, the channel of one symbol, and the listener of a gateway with *)
(* its staleness test.  Events are numbered in the order of Publish.       *)
(* Redis keeps nothing: an event it does not hand on is lost.  A failed    *)
(* command may have been executed all the same.                            *)
(***************************************************************************)
EXTENDS Integers, SequencesExt

CONSTANTS
    Workers,       \* the publisher's goroutines
    QueueSize,     \* capacity of the publish queue
    BatchSize,     \* most events of one pipeline (128)
    MaxEvents      \* bound: calls of Publish

VARIABLES
    offered,   \* calls of Publish
    pub,       \* Publish: "idle" or past the test of closed
    closed,    \* Publisher.closed
    shut,      \* the queue is closed
    closer,    \* Close: "none", "swapped", "waiting", "returned"
    queue,
    batch,     \* worker -> events taken from the queue
    at,        \* worker -> commands of the batch that were executed
    failed,    \* worker -> a command of the batch returned an error
    exited,    \* workers that ended
    dropped,   \* Publisher.dropped
    sent,      \* events Redis executed
    inbox,     \* the channel of the subscriber's handle
    handled,   \* events forwarded to the topic manager
    last,      \* lastMessageAt: "never", "fresh", "old"
    notified,  \* calls of onStale
    listener,  \* "listening", "ended"
    stop       \* Stop: "none", "cancelled", "returned"

publisherVars == <<offered, pub, closed, shut, closer, queue, batch, at, failed,
                   exited, dropped, sent>>
subscriberVars == <<handled, last, notified, listener, stop>>
vars == <<publisherVars, inbox, subscriberVars>>

Init ==
    /\ offered = 0 /\ pub = "idle" /\ closed = FALSE /\ shut = FALSE /\ closer = "none"
    /\ queue = <<>> /\ batch = [w \in Workers |-> <<>>] /\ at = [w \in Workers |-> 0]
    /\ failed = [w \in Workers |-> FALSE] /\ exited = {} /\ dropped = 0 /\ sent = {}
    /\ inbox = <<>> /\ handled = <<>> /\ last = "never" /\ notified = 0
    /\ listener = "listening" /\ stop = "none"

-----------------------------------------------------------------------------
(* Publisher                                                               *)

\* Publish: the test of closed, then serialization.
PublishTest ==
    /\ pub = "idle" /\ ~closed /\ offered < MaxEvents
    /\ pub' = "enqueue" /\ offered' = offered + 1
    /\ UNCHANGED <<closed, shut, closer, queue, batch, at, failed, exited, dropped, sent,
                   inbox, subscriberVars>>

\* The non-blocking send.
PublishEnqueue ==
    /\ pub = "enqueue" /\ pub' = "idle"
    /\ IF Len(queue) < QueueSize
       THEN queue' = Append(queue, offered) /\ UNCHANGED dropped
       ELSE dropped' = dropped + 1 /\ UNCHANGED queue
    /\ UNCHANGED <<offered, closed, shut, closer, batch, at, failed, exited, sent, inbox,
                   subscriberVars>>

executing(w) == at[w] > 0
batched(w) == batch[w] # <<>> /\ (queue = <<>> \/ Len(batch[w]) = BatchSize \/ executing(w))

\* worker: one more event for the batch.
WorkerTake(w) ==
    /\ w \notin exited /\ queue # <<>> /\ Len(batch[w]) < BatchSize /\ ~executing(w)
    /\ batch' = [batch EXCEPT ![w] = Append(@, Head(queue))] /\ queue' = Tail(queue)
    /\ UNCHANGED <<offered, pub, closed, shut, closer, at, failed, exited, dropped, sent,
                   inbox, subscriberVars>>

\* doPublish, doPublishBatch: the next command, which Redis executes or not and
\* which returns an error or not; only an executed command returns none.
WorkerCommand(w) ==
    /\ batched(w) /\ at[w] < Len(batch[w]) /\ at' = [at EXCEPT ![w] = @ + 1]
    /\ LET e == batch[w][at[w] + 1]
       IN \/ /\ sent' = sent \union {e} /\ inbox' = Append(inbox, e)
             /\ \E b \in BOOLEAN : failed' = [failed EXCEPT ![w] = @ \/ b]
          \/ failed' = [failed EXCEPT ![w] = TRUE] /\ UNCHANGED <<sent, inbox>>
    /\ UNCHANGED <<offered, pub, closed, shut, closer, queue, batch, exited, dropped,
                   subscriberVars>>

\* Mutation: a failed pipeline counts as one drop.
WorkerDone_One(w) ==
    /\ batch[w] # <<>> /\ at[w] = Len(batch[w])
    /\ dropped' = dropped + IF failed[w] THEN 1 ELSE 0
    /\ batch' = [batch EXCEPT ![w] = <<>>] /\ at' = [at EXCEPT ![w] = 0]
    /\ failed' = [failed EXCEPT ![w] = FALSE]
    /\ UNCHANGED <<offered, pub, closed, shut, closer, queue, exited, sent, inbox,
                   subscriberVars>>

\* The whole batch counts as dropped if any command failed.
WorkerDone(w) ==
    /\ batch[w] # <<>> /\ at[w] = Len(batch[w])
    /\ dropped' = dropped + IF failed[w] THEN Len(batch[w]) ELSE 0
    /\ batch' = [batch EXCEPT ![w] = <<>>] /\ at' = [at EXCEPT ![w] = 0]
    /\ failed' = [failed EXCEPT ![w] = FALSE]
    /\ UNCHANGED <<offered, pub, closed, shut, closer, queue, exited, sent, inbox,
                   subscriberVars>>

\* range over the closed and drained queue ends.
WorkerExit(w) ==
    /\ w \notin exited /\ shut /\ queue = <<>> /\ batch[w] = <<>>
    /\ exited' = exited \union {w}
    /\ UNCHANGED <<offered, pub, closed, shut, closer, queue, batch, at, failed, dropped,
                   sent, inbox, subscriberVars>>

\* Close, called when no Publish is in progress (the process stops the pipeline
\* before the publisher): swap, close the queue, wait.
CloseSwap ==
    /\ closer = "none" /\ pub = "idle" /\ closed' = TRUE /\ closer' = "swapped"
    /\ UNCHANGED <<offered, pub, shut, queue, batch, at, failed, exited, dropped, sent,
                   inbox, subscriberVars>>

CloseQueue ==
    /\ closer = "swapped" /\ shut' = TRUE /\ closer' = "waiting"
    /\ UNCHANGED <<offered, pub, closed, queue, batch, at, failed, exited, dropped, sent,
                   inbox, subscriberVars>>

CloseWait ==
    /\ closer = "waiting" /\ exited = Workers /\ closer' = "returned"
    /\ UNCHANGED <<offered, pub, closed, shut, queue, batch, at, failed, exited, dropped,
                   sent, inbox, subscriberVars>>

-----------------------------------------------------------------------------
(* Redis and the subscriber                                                *)

\* Redis or go-redis drops a message that was not read yet.
Lose ==
    /\ inbox # <<>> /\ inbox' = Tail(inbox)
    /\ UNCHANGED <<publisherVars, subscriberVars>>

\* listen: a message is stamped and handed to the topic manager.
ListenMessage ==
    /\ listener = "listening" /\ inbox # <<>>
    /\ handled' = Append(handled, Head(inbox)) /\ inbox' = Tail(inbox)
    /\ last' = "fresh"
    /\ UNCHANGED <<publisherVars, notified, listener, stop>>

\* More than staleThreshold passes without a message.
Age ==
    /\ last = "fresh" /\ last' = "old"
    /\ UNCHANGED <<publisherVars, inbox, handled, notified, listener, stop>>

IsStale == last = "old"

\* The ticker's test; staleOnce lets the callback run once.
checkStaleness ==
    /\ listener = "listening" /\ IsStale /\ notified = 0 /\ notified' = 1
    /\ UNCHANGED <<publisherVars, inbox, handled, last, listener, stop>>

ListenDone ==
    /\ listener = "listening" /\ stop = "cancelled" /\ listener' = "ended"
    /\ UNCHANGED <<publisherVars, inbox, handled, last, notified, stop>>

StopCancel ==
    /\ stop = "none" /\ stop' = "cancelled"
    /\ UNCHANGED <<publisherVars, inbox, handled, last, notified, listener>>

\* Mutation: Stop does not wait for the listener.
StopReturn_NoWait ==
    /\ stop = "cancelled" /\ listener = "listening" /\ stop' = "returned"
    /\ UNCHANGED <<publisherVars, inbox, handled, last, notified, listener>>

StopReturn ==
    /\ stop = "cancelled" /\ listener = "ended" /\ stop' = "returned"
    /\ UNCHANGED <<publisherVars, inbox, handled, last, notified, listener>>

-----------------------------------------------------------------------------
Worker(w) == WorkerTake(w) \/ WorkerCommand(w) \/ WorkerDone(w) \/ WorkerExit(w)
Close == CloseQueue \/ CloseWait

Next ==
    \/ PublishTest \/ PublishEnqueue \/ \E w \in Workers : Worker(w)
    \/ CloseSwap \/ Close
    \/ Lose \/ ListenMessage \/ Age \/ checkStaleness \/ ListenDone
    \/ StopCancel \/ StopReturn

Spec == Init /\ [][Next]_vars

\* Goroutines are scheduled and Redis calls return; the ticker fires.
FairSpec ==
    /\ Spec /\ WF_vars(PublishEnqueue) /\ WF_vars(Close)
    /\ \A w \in Workers : WF_vars(Worker(w))
    /\ WF_vars(checkStaleness) /\ WF_vars(ListenDone) /\ WF_vars(StopReturn)

-----------------------------------------------------------------------------
inFlight ==
    ToSet(queue) \union UNION {ToSet(batch[w]) : w \in Workers}
    \union (IF pub = "enqueue" THEN {offered} ELSE {})

\* Type invariant: the queue holds at most QueueSize events, so Publish never
\* waits for Redis (Publisher.Publish).
TypeOK ==
    /\ offered \in 0..MaxEvents /\ pub \in {"idle", "enqueue"}
    /\ closer \in {"none", "swapped", "waiting", "returned"}
    /\ Len(queue) <= QueueSize /\ exited \subseteq Workers /\ dropped \in Nat
    /\ \A w \in Workers : Len(batch[w]) <= BatchSize /\ at[w] <= Len(batch[w])
    /\ sent \subseteq 1..offered /\ ToSet(handled) \subseteq sent
    /\ last \in {"never", "fresh", "old"} /\ notified \in 0..1
    /\ listener \in {"listening", "ended"} /\ stop \in {"none", "cancelled", "returned"}

\* An event that was offered and reached neither Redis nor a worker is counted:
\* Dropped never reports fewer than were lost, with pipelines failing half-way
\* (doPublishBatch).
LostAreCounted == Cardinality((1..offered) \ (sent \union inFlight)) <= dropped

\* When Close has returned every accepted event was tried: nothing is left in the
\* queue or with a worker (Publisher.Close).
CloseDrains == closer = "returned" => inFlight = {}

\* A gateway forwards what it receives in the order of Publish.
InOrder == \A i, j \in DOMAIN handled : i < j => handled[i] < handled[j]

\* When Stop has returned nothing more is forwarded and no notice is sent
\* (Subscriber.Stop, listen).
QuietAfterStop == [][stop = "returned" => UNCHANGED <<handled, notified>>]_vars

\* Close and Stop return (Publisher.Close, Subscriber.Stop).
EndsReturn == (closer # "none" ~> closer = "returned") /\ (stop # "none" ~> stop = "returned")

\* When the stream falls silent after a first message the gateway is told
\* (checkStaleness).
StaleNotified == last = "old" ~> notified > 0 \/ last # "old" \/ stop # "none"
=============================================================================
