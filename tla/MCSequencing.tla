---------------------------- MODULE MCSequencing ----------------------------
(***************************************************************************)
(* Sequence numbers on small instances.  A behaviour explores one part:    *)
(* the block allocator of several processes ("blocks"), the same with      *)
(* resets ("reset", on variables of its own, since a reset begins a new    *)
(* sequence), or numbers on their way to the Validator: lost, repeated     *)
(* and reordered ("books"), with idle symbols ("idle"), or in order with   *)
(* the first number delivered ("loss"); and the bus the numbered events    *)
(* travel on: from one publishing worker to a gateway ("bus"), with two    *)
(* workers and no gateway ("workers"), and their envelopes ("wire").       *)
(***************************************************************************)
EXTENDS RedisSequencer

CONSTANT Symbols

VARIABLES part, rkey, rblock, rlast, rissued, rdup, rscanning,
          seqs, genIdle, assigned, restarted, flight,
          stats, valIdle, seen, base, missing, result,
          offered, pub, closed, shut, closer, queue, batch, at, failed, exited, dropped,
          sent, inbox, handled, heard, notified, listener, stop, envelope, data

resetVars == <<rkey, rblock, rlast, rissued, rdup, rscanning>>
orderVars == <<seqs, genIdle, assigned, restarted, flight,
               stats, valIdle, seen, base, missing, result>>
subscriberVars == <<handled, heard, notified, listener, stop>>
busVars == <<offered, pub, closed, shut, closer, queue, batch, at, failed, exited,
             dropped, sent, inbox, subscriberVars>>
wireVars == <<envelope, data>>

Resetting == INSTANCE RedisSequencer
    WITH blockSize <- 2, MaxKey <- 4, Resets <- TRUE,
         Instances <- {CHOOSE i \in Instances : TRUE, "other"},
         key <- rkey, block <- rblock, last <- rlast, issued <- rissued,
         dup <- rdup, scanning <- rscanning

OneSymbol == {CHOOSE s \in Symbols : TRUE}
Books == INSTANCE Ordering
    WITH Symbols <- OneSymbol, MaxSeq <- 4, MaxCopies <- 5,
         Idle <- FALSE, Reorder <- TRUE, FirstLost <- TRUE
IdleTTL == INSTANCE Ordering
    WITH MaxSeq <- 2, MaxCopies <- 3, Idle <- TRUE, Reorder <- TRUE, FirstLost <- TRUE
Loss == INSTANCE Ordering
    WITH Symbols <- OneSymbol, MaxSeq <- 5, MaxCopies <- 6,
         Idle <- FALSE, Reorder <- FALSE, FirstLost <- FALSE

Bus == INSTANCE RedisBus
          WITH Workers <- {1}, last <- heard, QueueSize <- 1, BatchSize <- 2,
               MaxEvents <- 3
Pair == INSTANCE RedisBus
          WITH Workers <- {1, 2}, last <- heard, QueueSize <- 1, BatchSize <- 2,
               MaxEvents <- 3

\* Every field empty, short, and the symbol too long for one digit of length.
Envelopes ==
    [symbol : {<<>>, <<1, 2>>, <<3, 3, 3, 3, 3>>}, type : {<<>>, <<1>>},
     seq : {0, 70}, timestamp : {9}, json : {<<>>, <<3, 0>>}, protobuf : {<<>>, <<2>>},
     flatBuffers : {<<>>, <<0>>},
     trace : {<<>>, << <<<<1>>, <<>>>> >>, << <<<<1>>, <<2>>>>, <<<<>>, <<3, 1>>>> >>}]
Wire == INSTANCE WireEnvelope WITH Radix <- 4

MCInit ==
    /\ Init /\ Resetting!Init
    /\ \/ /\ part \in {"blocks", "reset", "books", "bus", "workers", "wire"}
          /\ Books!Init
       \/ part = "idle" /\ IdleTTL!Init
       \/ part = "loss" /\ Loss!Init
    /\ IF part = "workers" THEN Pair!Init ELSE Bus!Init
    /\ IF part = "wire" THEN Wire!Init ELSE envelope = <<>> /\ data = <<>>

numbering ==
    \/ part = "blocks" /\ Next /\ UNCHANGED <<resetVars, orderVars>>
    \/ part = "reset" /\ Resetting!Next /\ UNCHANGED <<vars, orderVars>>
    \/ part = "books" /\ Books!Next /\ UNCHANGED <<vars, resetVars>>
    \/ part = "idle" /\ IdleTTL!Next /\ UNCHANGED <<vars, resetVars>>
    \/ part = "loss" /\ Loss!Next /\ UNCHANGED <<vars, resetVars>>

distribution ==
    \/ part = "bus" /\ Bus!Next /\ UNCHANGED wireVars
    \/ part = "workers" /\ Pair!Next /\ UNCHANGED <<subscriberVars, wireVars>>
    \/ part = "wire" /\ Wire!Next /\ UNCHANGED busVars

MCNext ==
    /\ UNCHANGED part
    /\ \/ numbering /\ UNCHANGED <<busVars, wireVars>>
       \/ distribution /\ UNCHANGED <<vars, resetVars, orderVars>>

\* The bus under the fairness of its own specification.
MCSpec ==
    /\ MCInit /\ [][MCNext]_<<part, vars, resetVars, orderVars, busVars, wireVars>>
    /\ WF_busVars(part = "bus" /\ Bus!PublishEnqueue)
    /\ WF_busVars(part = "bus" /\ Bus!Close) /\ WF_busVars(part = "bus" /\ Bus!Worker(1))
    /\ WF_busVars(part = "bus" /\ Bus!checkStaleness)
    /\ WF_busVars(part = "bus" /\ Bus!ListenDone)
    /\ WF_busVars(part = "bus" /\ Bus!StopReturn)
    /\ WF_busVars(part = "workers" /\ Pair!PublishEnqueue)
    /\ WF_busVars(part = "workers" /\ Pair!Close)
    /\ \A w \in {1, 2} : WF_busVars(part = "workers" /\ Pair!Worker(w))

\* No block is used beyond its end, resets included (RedisSequencer.Next).
ResetTypes == Resetting!TypeOK

\* Generator and validator keep their types in every part.
OrderingTypes ==
    CASE part = "idle" -> IdleTTL!TypeOK
      [] part = "loss" -> Loss!TypeOK
      [] OTHER -> Books!TypeOK

\* The validator's books balance, also over the eviction of idle symbols
\* (Validator.Validate, evictStale).
BooksBalance == IF part = "idle" THEN IdleTTL!Accounted ELSE
                part = "books" => Books!Accounted

\* LatestSeq is the greatest number seen, whatever arrives late or twice.
LatestIsGreatest == part = "books" => Books!LatestIsGreatest

\* Without reordering, and when the first number arrives, every lost number is
\* reported in a gap (Validator.Validate).
LossDetected == part = "loss" => Loss!LossDetected

\* Queue, batches and counters of the Redis publisher, and the listener's
\* state: onStale runs at most once (publisher.go, subscriber.go).
BusTypes == IF part = "workers" THEN Pair!TypeOK ELSE Bus!TypeOK

\* No event vanishes uncounted in the Redis publisher (doPublishBatch).
LostAreCounted == IF part = "workers" THEN Pair!LostAreCounted ELSE Bus!LostAreCounted

\* Publisher.Close drains the queue and the workers.
CloseDrains == IF part = "workers" THEN Pair!CloseDrains ELSE Bus!CloseDrains

\* With one worker a gateway forwards in the order of Publish (worker, listen).
InOrder == part = "bus" => Bus!InOrder

\* Nothing is forwarded after Subscriber.Stop has returned.
QuietAfterStop == Bus!QuietAfterStop

\* Publisher.Close and Subscriber.Stop return.
EndsReturn == Bus!EndsReturn

\* Silence after a first message is reported (checkStaleness).
StaleNotified == Bus!StaleNotified

\* An envelope is read back as it was written (MarshalBinary, UnmarshalBinary).
RoundTrip == part = "wire" => Wire!RoundTrip

\* An envelope cut short anywhere is refused (UnmarshalBinary).
CutRejected == part = "wire" => Wire!CutRejected

\* No number is issued twice, blocks of living processes are disjoint, and the
\* validator's books balance: what arrived is in order, late or a duplicate, gaps
\* count what is missing, and LatestSeq is the greatest number (RedisSequencer.Next, Validator.Validate).
NumbersExact ==
    /\ TypeOK /\ Unique /\ BlocksDisjoint /\ ResetTypes
    /\ OrderingTypes /\ BooksBalance /\ LatestIsGreatest /\ LossDetected

\* The bus counts what it loses, drains on Close and keeps the order, and an
\* envelope is read back as written or refused (doPublishBatch, UnmarshalBinary).
BusExact ==
    BusTypes /\ LostAreCounted /\ CloseDrains /\ InOrder /\ RoundTrip /\ CutRejected

\* Close and Stop of the bus return and leave it quiet, and a silent bus is
\* reported (Publisher.Close, Subscriber.Stop, checkStaleness).
BusEnds == QuietAfterStop /\ EndsReturn /\ StaleNotified
=============================================================================
