----------------------------- MODULE WorkerPool -----------------------------
(***************************************************************************)
(* The bounded worker pool (internal/workerpool): concurrent Enqueue       *)
(* calls, workers that publish, and Shutdown, which closes the queue and   *)
(* waits for the workers or for its timeout.                               *)
(***************************************************************************)
EXTENDS Integers, Sequences, FiniteSets, FiniteSetTheorems, TLAPS

CONSTANTS
    Producers, Workers,
    QueueCapacity,
    ParentCancel,   \* the context given to Start may be cancelled
    MaxCalls        \* bound: Enqueue calls

ASSUME PoolAssumption ==
    /\ IsFiniteSet(Producers) /\ IsFiniteSet(Workers)
    /\ QueueCapacity \in Nat \ {0} /\ ParentCancel \in BOOLEAN
    /\ MaxCalls \in Nat

VARIABLES
    queue, closed, stopped, cancelled,
    prod,      \* producer -> position in Enqueue
    work,      \* worker -> "idle", "busy" or "exited"
    shut,      \* Shutdown: "no", "stopping", "waiting", "clean", "timeout"
    stats,     \* enqueued, dropped, processed, panics, depth
    calls

vars == <<queue, closed, stopped, cancelled, prod, work, shut, stats, calls>>

Init ==
    /\ queue = <<>> /\ closed = FALSE /\ stopped = FALSE /\ cancelled = FALSE
    /\ prod = [p \in Producers |-> "idle"]
    /\ work = [w \in Workers |-> "idle"]
    /\ shut = "no" /\ calls = 0
    /\ stats = [enqueued |-> 0, dropped |-> 0, processed |-> 0, panics |-> 0,
                depth |-> 0]

-----------------------------------------------------------------------------
(* Enqueue: check, count, then send                                        *)

EnqueueCheck(p) ==
    /\ prod[p] = "idle" /\ calls < MaxCalls /\ calls' = calls + 1
    /\ IF stopped
       THEN stats' = [stats EXCEPT !.dropped = @ + 1] /\ UNCHANGED prod
       ELSE prod' = [prod EXCEPT ![p] = "checked"] /\ UNCHANGED stats
    /\ UNCHANGED <<queue, closed, stopped, cancelled, work, shut>>

EnqueueCount(p) ==
    /\ prod[p] = "checked" /\ prod' = [prod EXCEPT ![p] = "counted"]
    /\ stats' = [stats EXCEPT !.depth = @ + 1]
    /\ UNCHANGED <<queue, closed, stopped, cancelled, work, shut, calls>>

\* The non-blocking send.  On a closed channel it panics; the deferred
\* recover counts a drop and leaves the depth as it is.
EnqueueSend(p) ==
    /\ prod[p] = "counted" /\ prod' = [prod EXCEPT ![p] = "idle"]
    /\ IF closed
       THEN stats' = [stats EXCEPT !.dropped = @ + 1] /\ UNCHANGED queue
       ELSE IF Len(queue) < QueueCapacity
       THEN /\ queue' = Append(queue, p)
            /\ stats' = [stats EXCEPT !.enqueued = @ + 1]
       ELSE /\ stats' = [stats EXCEPT !.dropped = @ + 1, !.depth = @ - 1]
            /\ UNCHANGED queue
    /\ UNCHANGED <<closed, stopped, cancelled, work, shut, calls>>

-----------------------------------------------------------------------------
(* Workers                                                                 *)

Receive(w) ==
    /\ work[w] = "idle" /\ queue # <<>>
    /\ queue' = Tail(queue) /\ work' = [work EXCEPT ![w] = "busy"]
    /\ stats' = [stats EXCEPT !.depth = @ - 1]
    /\ UNCHANGED <<closed, stopped, cancelled, prod, shut, calls>>

\* Publish returns, or panics and is recovered; both count as processed.
Publish(w) ==
    /\ work[w] = "busy" /\ work' = [work EXCEPT ![w] = "idle"]
    /\ \E panic \in {0, 1} :
         stats' = [stats EXCEPT !.processed = @ + 1, !.panics = @ + panic]
    /\ UNCHANGED <<queue, closed, stopped, cancelled, prod, shut, calls>>

\* Mutation: a worker leaves a closed queue without draining it.
Exit_NoDrain(w) ==
    /\ work[w] = "idle" /\ (closed \/ cancelled)
    /\ work' = [work EXCEPT ![w] = "exited"]
    /\ UNCHANGED <<queue, closed, stopped, cancelled, prod, shut, stats, calls>>

\* The queue is closed and empty, or select takes the cancelled context.
Exit(w) ==
    /\ work[w] = "idle" /\ ((closed /\ queue = <<>>) \/ cancelled)
    /\ work' = [work EXCEPT ![w] = "exited"]
    /\ UNCHANGED <<queue, closed, stopped, cancelled, prod, shut, stats, calls>>

-----------------------------------------------------------------------------
(* Shutdown                                                                *)

ShutdownStop ==
    /\ shut = "no" /\ shut' = "stopping" /\ stopped' = TRUE
    /\ UNCHANGED <<queue, closed, cancelled, prod, work, stats, calls>>

ShutdownClose ==
    /\ shut = "stopping" /\ shut' = "waiting" /\ closed' = TRUE
    /\ UNCHANGED <<queue, stopped, cancelled, prod, work, stats, calls>>

\* wg.Wait has returned.
ShutdownDone ==
    /\ shut = "waiting" /\ \A w \in Workers : work[w] = "exited"
    /\ shut' = "clean"
    /\ UNCHANGED <<queue, closed, stopped, cancelled, prod, work, stats, calls>>

\* The timeout of Shutdown cancels the workers' context.
ShutdownTimeout ==
    /\ shut = "waiting" /\ shut' = "timeout" /\ cancelled' = TRUE
    /\ UNCHANGED <<queue, closed, stopped, prod, work, stats, calls>>

CancelParent ==
    /\ ParentCancel /\ ~cancelled /\ cancelled' = TRUE
    /\ UNCHANGED <<queue, closed, stopped, prod, work, shut, stats, calls>>

-----------------------------------------------------------------------------
Enqueue(p) == EnqueueCheck(p) \/ EnqueueCount(p) \/ EnqueueSend(p)
Worker(w) == Receive(w) \/ Publish(w) \/ Exit(w)
Shutdown == ShutdownStop \/ ShutdownClose \/ ShutdownDone \/ ShutdownTimeout

\* Every call has returned and every worker has exited.
Finished ==
    /\ shut \in {"clean", "timeout"} /\ calls = MaxCalls
    /\ \A p \in Producers : prod[p] = "idle"
    /\ \A w \in Workers : work[w] = "exited"
    /\ UNCHANGED vars

Next ==
    \/ \E p \in Producers : Enqueue(p)
    \/ \E w \in Workers : Worker(w)
    \/ Shutdown \/ CancelParent \/ Finished

Spec == Init /\ [][Next]_vars

\* Goroutines run on, the publisher returns, and Shutdown is not abandoned.
FairSpec ==
    /\ Spec
    /\ \A w \in Workers : WF_vars(Worker(w))
    /\ \A p \in Producers : WF_vars(EnqueueCount(p) \/ EnqueueSend(p))
    /\ WF_vars(ShutdownClose \/ ShutdownDone)

-----------------------------------------------------------------------------
Stats == [enqueued : Int, dropped : Int, processed : Int, panics : Int, depth : Int]

TypeOK ==
    /\ queue \in Seq(Producers) /\ Len(queue) <= QueueCapacity
    /\ prod \in [Producers -> {"idle", "checked", "counted"}]
    /\ work \in [Workers -> {"idle", "busy", "exited"}]
    /\ stats \in Stats
    /\ calls \in Nat /\ closed \in BOOLEAN /\ stopped \in BOOLEAN /\ cancelled \in BOOLEAN

InFlight == Cardinality({p \in Producers : prod[p] # "idle"})
Counted == Cardinality({p \in Producers : prod[p] = "counted"})
Busy == Cardinality({w \in Workers : work[w] = "busy"})

\* Every Enqueue call is counted exactly once, as enqueued or as dropped,
\* and every accepted event is in the queue, in a worker or processed; a
\* panic of the publisher loses no worker and no event.
EveryEventCounted ==
    /\ calls = stats.enqueued + stats.dropped + InFlight
    /\ stats.enqueued = Len(queue) + Busy + stats.processed

\* Once the queue is closed nothing is added to it: the send on a closed
\* channel is only attempted and recovered.
ClosedStaysClosed == [][closed => Len(queue') <= Len(queue)]_vars

\* A clean Shutdown returns after every accepted event was published
\* ("graceful shutdown with queue drain"), unless the workers were cancelled.
ShutdownDrains ==
    shut = "clean" /\ ~cancelled => queue = <<>> /\ stats.processed = stats.enqueued

\* "Current number of tasks waiting in the queue": the gauge equals the
\* length of the queue, but for the calls between counting and sending.
DepthExact == stats.depth = Len(queue) + Counted

\* The same until the queue is closed.
DepthWhileOpen == ~closed => DepthExact

\* Every call and event is counted once, the depth is exact until the queue is
\* closed, and a clean Shutdown has drained it (Enqueue, worker, Shutdown).
PoolAccounts == TypeOK /\ EveryEventCounted /\ DepthWhileOpen /\ ShutdownDrains

\* A shutdown ends and every worker goroutine exits.
WorkersExit == shut = "stopping" ~> \A w \in Workers : work[w] = "exited"

-----------------------------------------------------------------------------
(* Proofs, for any numbers of producers and workers and any capacity        *)

\* Time for the provers: a leaf that names no prover of its own is one for SMT.
USE SMTT(60)

\* One element of a finite set joins or leaves a subset of it.
LEMMA OneMoves ==
    ASSUME NEW S, IsFiniteSet(S), NEW A \in SUBSET S, NEW B \in SUBSET S, NEW s \in S,
           \A x \in S : x # s => (x \in A <=> x \in B)
    PROVE  /\ Cardinality(A) \in Nat /\ Cardinality(B) \in Nat
           /\ (s \in A <=> s \in B) => Cardinality(B) = Cardinality(A)
           /\ s \in A /\ s \notin B => Cardinality(B) = Cardinality(A) - 1
           /\ s \notin A /\ s \in B => Cardinality(B) = Cardinality(A) + 1
<1>1. IsFiniteSet(A) /\ IsFiniteSet(B)
  BY FS_Subset
<1>2. Cardinality(A) \in Nat /\ Cardinality(B) \in Nat
  BY <1>1, FS_CardinalityType
<1>3. CASE s \in A <=> s \in B
  <2>1. A = B
    BY <1>3
  <2> QED
    BY <1>2, <1>3, <2>1
<1>4. CASE s \in A /\ s \notin B
  <2>1. B = A \ {s}
    BY <1>4
  <2>2. Cardinality(A \ {s}) = Cardinality(A) - 1
    BY <1>1, <1>4, FS_RemoveElement
  <2> QED
    BY <1>2, <1>4, <2>1, <2>2
<1>5. CASE s \notin A /\ s \in B
  <2>1. B = A \cup {s}
    BY <1>5
  <2>2. Cardinality(A \cup {s}) = Cardinality(A) + 1
    BY <1>1, <1>5, FS_AddElement
  <2> QED
    BY <1>2, <1>5, <2>1, <2>2
<1> QED
  BY <1>3, <1>4, <1>5

\* The numbers of calls and workers that are counted below.
LEMMA CountsNatural == InFlight \in Nat /\ Counted \in Nat /\ Busy \in Nat
<1>1. /\ IsFiniteSet({p \in Producers : prod[p] # "idle"})
      /\ IsFiniteSet({p \in Producers : prod[p] = "counted"})
      /\ IsFiniteSet({w \in Workers : work[w] = "busy"})
  BY FS_Subset, PoolAssumption
<1> QED
  BY <1>1, FS_CardinalityType DEF InFlight, Counted, Busy

\* A step of producer p changes InFlight and Counted by its own share only.
LEMMA ProducerMoves ==
    ASSUME TypeOK, NEW p \in Producers, NEW pos \in {"idle", "checked", "counted"},
           prod' = [prod EXCEPT ![p] = pos]
    PROVE  /\ InFlight \in Nat /\ InFlight' \in Nat
           /\ prod[p] = "idle" /\ pos # "idle" => InFlight' = InFlight + 1
           /\ prod[p] # "idle" /\ pos # "idle" => InFlight' = InFlight
           /\ prod[p] # "idle" /\ pos = "idle" => InFlight' = InFlight - 1
           /\ Counted \in Nat /\ Counted' \in Nat
           /\ prod[p] # "counted" /\ pos = "counted" => Counted' = Counted + 1
           /\ prod[p] # "counted" /\ pos # "counted" => Counted' = Counted
           /\ prod[p] = "counted" /\ pos # "counted" => Counted' = Counted - 1
<1> DEFINE A == {x \in Producers : prod[x] # "idle"}
           B == {x \in Producers : prod'[x] # "idle"}
           C == {x \in Producers : prod[x] = "counted"}
           D == {x \in Producers : prod'[x] = "counted"}
<1>1. \A x \in Producers : x # p => (x \in A <=> x \in B) /\ (x \in C <=> x \in D)
  BY DEF TypeOK
<1>2. /\ (p \in A <=> prod[p] # "idle") /\ (p \in B <=> pos # "idle")
      /\ (p \in C <=> prod[p] = "counted") /\ (p \in D <=> pos = "counted")
  BY DEF TypeOK
<1>3. /\ InFlight = Cardinality(A) /\ InFlight' = Cardinality(B)
      /\ Counted = Cardinality(C) /\ Counted' = Cardinality(D)
  BY DEF InFlight, Counted
<1>4. /\ A \in SUBSET Producers /\ B \in SUBSET Producers
      /\ C \in SUBSET Producers /\ D \in SUBSET Producers
  OBVIOUS
<1> HIDE DEF A, B, C, D
<1>5. /\ Cardinality(A) \in Nat /\ Cardinality(B) \in Nat
      /\ (p \in A <=> p \in B) => Cardinality(B) = Cardinality(A)
      /\ p \in A /\ p \notin B => Cardinality(B) = Cardinality(A) - 1
      /\ p \notin A /\ p \in B => Cardinality(B) = Cardinality(A) + 1
  BY <1>1, <1>4, OneMoves, PoolAssumption
<1>6. /\ Cardinality(C) \in Nat /\ Cardinality(D) \in Nat
      /\ (p \in C <=> p \in D) => Cardinality(D) = Cardinality(C)
      /\ p \in C /\ p \notin D => Cardinality(D) = Cardinality(C) - 1
      /\ p \notin C /\ p \in D => Cardinality(D) = Cardinality(C) + 1
  BY <1>1, <1>4, OneMoves, PoolAssumption
<1> QED
  BY <1>2, <1>3, <1>5, <1>6

\* The same for a worker and Busy.
LEMMA WorkerMoves ==
    ASSUME TypeOK, NEW w \in Workers, NEW pos \in {"idle", "busy", "exited"},
           work' = [work EXCEPT ![w] = pos]
    PROVE  /\ Busy \in Nat /\ Busy' \in Nat
           /\ work[w] # "busy" /\ pos = "busy" => Busy' = Busy + 1
           /\ work[w] # "busy" /\ pos # "busy" => Busy' = Busy
           /\ work[w] = "busy" /\ pos # "busy" => Busy' = Busy - 1
<1> DEFINE A == {x \in Workers : work[x] = "busy"}
           B == {x \in Workers : work'[x] = "busy"}
<1>1. \A x \in Workers : x # w => (x \in A <=> x \in B)
  BY DEF TypeOK
<1>2. (w \in A <=> work[w] = "busy") /\ (w \in B <=> pos = "busy")
  BY DEF TypeOK
<1>3. /\ Cardinality(A) \in Nat /\ Cardinality(B) \in Nat
      /\ (w \in A <=> w \in B) => Cardinality(B) = Cardinality(A)
      /\ w \in A /\ w \notin B => Cardinality(B) = Cardinality(A) - 1
      /\ w \notin A /\ w \in B => Cardinality(B) = Cardinality(A) + 1
  <2> HIDE DEF A, B
  <2>1. A \in SUBSET Workers /\ B \in SUBSET Workers
    BY DEF A, B
  <2> QED
    BY <1>1, <2>1, OneMoves, PoolAssumption
<1>4. Busy = Cardinality(A) /\ Busy' = Cardinality(B)
  BY DEF Busy
<1> HIDE DEF A, B
<1> QED
  BY <1>2, <1>3, <1>4

\* What makes ShutdownDrains inductive: without a cancellation a worker exits only
\* from a closed and empty queue, and a closed queue does not grow.
ExitsDrained ==
    /\ (\E w \in Workers : work[w] = "exited") /\ ~cancelled => closed /\ queue = <<>>
    /\ shut = "clean" => \A w \in Workers : work[w] = "exited"

PoolInv == TypeOK /\ EveryEventCounted /\ DepthWhileOpen /\ ExitsDrained

\* The invariant in the initial state.
LEMMA PoolInit == Init => PoolInv
<1> SUFFICES ASSUME Init PROVE PoolInv
  OBVIOUS
<1>1. TypeOK
  <2>1. queue \in Seq(Producers) /\ Len(queue) = 0 /\ stats \in Stats
    BY DEF Init, Stats
  <2>2. Len(queue) <= QueueCapacity
    BY <2>1, PoolAssumption
  <2>3. closed \in BOOLEAN /\ stopped \in BOOLEAN /\ cancelled \in BOOLEAN
    BY ZenonT(60) DEF Init
  <2>4. /\ prod \in [Producers -> {"idle", "checked", "counted"}]
        /\ work \in [Workers -> {"idle", "busy", "exited"}] /\ calls \in Nat
    BY DEF Init
  <2> QED
    BY <2>1, <2>2, <2>3, <2>4 DEF TypeOK
<1>2. InFlight = 0 /\ Counted = 0 /\ Busy = 0
  <2>1. /\ {p \in Producers : prod[p] # "idle"} = {}
        /\ {p \in Producers : prod[p] = "counted"} = {}
        /\ {w \in Workers : work[w] = "busy"} = {}
    BY DEF Init
  <2> QED
    BY <2>1, FS_EmptySet DEF InFlight, Counted, Busy
<1>3. EveryEventCounted /\ DepthWhileOpen
  BY <1>2 DEF Init, EveryEventCounted, DepthWhileOpen, DepthExact
<1>4. ExitsDrained
  BY DEF Init, ExitsDrained
<1> QED
  BY <1>1, <1>3, <1>4 DEF PoolInv

\* The steps of Enqueue.
LEMMA EnqueueStep ==
    ASSUME PoolInv, NEW p \in Producers, Enqueue(p) PROVE PoolInv'
<1>0. TypeOK /\ EveryEventCounted /\ DepthWhileOpen /\ ExitsDrained
  BY DEF PoolInv
<1>1. /\ Busy' = Busy /\ Busy \in Nat /\ InFlight \in Nat /\ Counted \in Nat
      /\ Len(queue) \in Nat /\ calls \in Nat /\ stats.enqueued \in Int
      /\ stats.dropped \in Int /\ stats.processed \in Int /\ stats.depth \in Int
  <2>1. Busy' = Busy
    BY ZenonT(60) DEF Enqueue, EnqueueCheck, EnqueueCount, EnqueueSend, Busy
  <2> QED
    BY <1>0, <2>1, CountsNatural DEF TypeOK, Stats
<1>2. CASE EnqueueCheck(p) /\ stopped
  <2>1. prod' = prod /\ InFlight' = InFlight /\ Counted' = Counted
    BY <1>2 DEF EnqueueCheck, InFlight, Counted
  <2>2. /\ stats' \in Stats /\ stats'.dropped = stats.dropped + 1
        /\ stats'.enqueued = stats.enqueued /\ stats'.processed = stats.processed
        /\ stats'.depth = stats.depth
    <3>1. stats' = [stats EXCEPT !.dropped = stats.dropped + 1]
      BY <1>2 DEF EnqueueCheck
    <3> QED
      BY <1>0, <3>1 DEF TypeOK, Stats
  <2>3. TypeOK'
    BY <1>0, <1>2, <2>1, <2>2 DEF EnqueueCheck, TypeOK
  <2>4. EveryEventCounted'
    <3>1. calls' = calls + 1 /\ queue' = queue
      BY <1>2 DEF EnqueueCheck
    <3> QED
      BY <1>0, <1>1, <2>1, <2>2, <3>1 DEF EveryEventCounted
  <2>5. DepthWhileOpen'
    BY <1>0, <1>2, <2>1, <2>2 DEF EnqueueCheck, DepthWhileOpen, DepthExact
  <2> QED
    BY <1>0, <1>2, <2>3, <2>4, <2>5 DEF EnqueueCheck, ExitsDrained, PoolInv
<1>3. CASE EnqueueCheck(p) /\ ~stopped
  <2>1. /\ prod' = [prod EXCEPT ![p] = "checked"] /\ prod[p] = "idle"
        /\ calls' = calls + 1 /\ stats' = stats /\ queue' = queue /\ closed' = closed
    BY <1>3 DEF EnqueueCheck
  <2>2. InFlight' = InFlight + 1 /\ Counted' = Counted
    BY <1>0, <2>1, ProducerMoves, ZenonT(60)
  <2>3. TypeOK'
    BY <1>0, <1>3, <2>1 DEF EnqueueCheck, TypeOK
  <2>4. EveryEventCounted'
    <3>1. calls' = stats'.enqueued + stats'.dropped + InFlight'
      <4>1. /\ calls' = calls + 1 /\ stats'.enqueued = stats.enqueued
            /\ stats'.dropped = stats.dropped
            /\ calls = stats.enqueued + stats.dropped + InFlight
        BY <1>0, <2>1 DEF EveryEventCounted
      <4> QED
        BY <1>1, <2>2, <4>1
    <3>2. stats'.enqueued = Len(queue') + Busy' + stats'.processed
      BY <1>0, <1>1, <2>1 DEF EveryEventCounted
    <3> QED
      BY <3>1, <3>2 DEF EveryEventCounted
  <2>5. DepthWhileOpen'
    BY <1>0, <2>1, <2>2 DEF DepthWhileOpen, DepthExact
  <2> QED
    BY <1>0, <1>3, <2>3, <2>4, <2>5 DEF EnqueueCheck, ExitsDrained, PoolInv
<1>4. CASE EnqueueCount(p)
  <2>1. /\ prod' = [prod EXCEPT ![p] = "counted"] /\ prod[p] = "checked"
        /\ calls' = calls /\ queue' = queue /\ closed' = closed
        /\ stats' = [stats EXCEPT !.depth = stats.depth + 1]
    BY <1>4 DEF EnqueueCount
  <2>2. InFlight' = InFlight /\ Counted' = Counted + 1
    BY <1>0, <2>1, ProducerMoves, ZenonT(60)
  <2>3. /\ stats' \in Stats /\ stats'.dropped = stats.dropped
        /\ stats'.enqueued = stats.enqueued /\ stats'.processed = stats.processed
        /\ stats'.depth = stats.depth + 1
    <3>1. stats \in Stats /\ stats' = [stats EXCEPT !.depth = stats.depth + 1]
      BY <1>0, <2>1 DEF TypeOK
    <3> QED
      BY <3>1 DEF Stats
  <2>4. TypeOK'
    BY <1>0, <1>4, <2>1, <2>3 DEF EnqueueCount, TypeOK
  <2>5. EveryEventCounted'
    <3>1. calls' = calls /\ Len(queue') = Len(queue)
      BY <2>1
    <3> QED
      BY <1>0, <1>1, <2>2, <2>3, <3>1 DEF EveryEventCounted
  <2>6. DepthWhileOpen'
    <3>1. closed' = closed /\ Len(queue') = Len(queue)
      BY <2>1
    <3> QED
      BY <1>0, <1>1, <2>2, <2>3, <3>1 DEF DepthWhileOpen, DepthExact
  <2> QED
    BY <1>0, <1>4, <2>4, <2>5, <2>6 DEF EnqueueCount, ExitsDrained, PoolInv
<1>5. CASE EnqueueSend(p)
  <2>1. /\ prod' = [prod EXCEPT ![p] = "idle"] /\ prod[p] = "counted"
        /\ calls' = calls /\ closed' = closed
    BY <1>5 DEF EnqueueSend
  <2>2. InFlight' = InFlight - 1 /\ Counted' = Counted - 1
    BY <1>0, <2>1, ProducerMoves, ZenonT(60)
  <2>3. CASE closed
    <3>1. stats' = [stats EXCEPT !.dropped = stats.dropped + 1] /\ queue' = queue
      BY <1>5, <2>3 DEF EnqueueSend
    <3>2. /\ stats' \in Stats /\ stats'.dropped = stats.dropped + 1
          /\ stats'.enqueued = stats.enqueued /\ stats'.processed = stats.processed
      BY <1>0, <3>1 DEF TypeOK, Stats
    <3>3. queue' = queue
      BY <3>1
    <3>4. TypeOK'
      <4>1. UNCHANGED <<closed, stopped, cancelled, work, calls>>
        BY <1>5 DEF EnqueueSend
      <4> QED
        BY <1>0, <2>1, <3>2, <3>3, <4>1 DEF TypeOK
    <3>5. EveryEventCounted'
      <4>1. calls' = stats'.enqueued + stats'.dropped + InFlight'
        <5>1. calls' = calls /\ calls = stats.enqueued + stats.dropped + InFlight
          BY <1>0, <2>1 DEF EveryEventCounted
        <5> QED
          BY <1>1, <2>2, <3>2, <5>1
      <4>2. stats'.enqueued = Len(queue') + Busy' + stats'.processed
        BY <1>0, <1>1, <3>2, <3>3 DEF EveryEventCounted
      <4> QED
        BY <4>1, <4>2 DEF EveryEventCounted
    <3>6. DepthWhileOpen'
      BY <2>1, <2>3 DEF DepthWhileOpen
    <3>7. ExitsDrained'
      BY <1>0, <1>5, <3>3 DEF EnqueueSend, ExitsDrained
    <3> QED
      BY <3>4, <3>5, <3>6, <3>7 DEF PoolInv
  <2>4. CASE ~closed /\ Len(queue) < QueueCapacity
    <3>1. /\ stats' = [stats EXCEPT !.enqueued = stats.enqueued + 1]
          /\ queue' = Append(queue, p)
      BY <1>5, <2>4 DEF EnqueueSend
    <3>2. /\ stats' \in Stats /\ stats'.dropped = stats.dropped
          /\ stats'.enqueued = stats.enqueued + 1 /\ stats'.processed = stats.processed
          /\ stats'.depth = stats.depth
      BY <1>0, <3>1 DEF TypeOK, Stats
    <3>3. queue' \in Seq(Producers) /\ Len(queue') = Len(queue) + 1
      BY <1>0, <3>1 DEF TypeOK
    <3>4. TypeOK'
      <4>1. UNCHANGED <<closed, stopped, cancelled, work, calls>>
        BY <1>5 DEF EnqueueSend
      <4>2. Len(queue') <= QueueCapacity
        BY <1>1, <2>4, <3>3, PoolAssumption
      <4> QED
        BY <1>0, <2>1, <3>2, <3>3, <4>1, <4>2, ZenonT(60) DEF TypeOK
    <3>5. EveryEventCounted'
      <4>1. calls' = stats'.enqueued + stats'.dropped + InFlight'
        <5>1. calls' = calls /\ calls = stats.enqueued + stats.dropped + InFlight
          BY <1>0, <2>1 DEF EveryEventCounted
        <5> QED
          BY <1>1, <2>2, <3>2, <5>1
      <4>2. stats'.enqueued = Len(queue') + Busy' + stats'.processed
        BY <1>0, <1>1, <3>2, <3>3 DEF EveryEventCounted
      <4> QED
        BY <4>1, <4>2 DEF EveryEventCounted
    <3>6. DepthWhileOpen'
      <4>1. DepthExact
        BY <1>0, <2>4 DEF DepthWhileOpen
      <4>2. DepthExact'
        BY <1>1, <2>2, <3>2, <3>3, <4>1 DEF DepthExact
      <4> QED
        BY <4>2 DEF DepthWhileOpen
    <3>7. ExitsDrained'
      BY <1>0, <1>5, <2>4 DEF EnqueueSend, ExitsDrained
    <3> QED
      BY <3>4, <3>5, <3>6, <3>7 DEF PoolInv
  <2>5. CASE ~closed /\ ~(Len(queue) < QueueCapacity)
    <3>1. /\ stats' = [stats EXCEPT !.dropped = stats.dropped + 1,
                                    !.depth = stats.depth - 1]
          /\ queue' = queue
      BY <1>5, <2>5 DEF EnqueueSend
    <3>2. /\ stats' \in Stats /\ stats'.dropped = stats.dropped + 1
          /\ stats'.enqueued = stats.enqueued /\ stats'.processed = stats.processed
          /\ stats'.depth = stats.depth - 1
      <4> DEFINE s == [stats EXCEPT !.dropped = stats.dropped + 1]
      <4>1. stats' = [s EXCEPT !.depth = stats.depth - 1]
        BY <3>1
      <4>2. /\ s \in Stats /\ s.dropped = stats.dropped + 1
            /\ s.enqueued = stats.enqueued /\ s.processed = stats.processed
        BY <1>0 DEF TypeOK, Stats
      <4>3. stats.depth - 1 \in Int
        BY <1>1
      <4> HIDE DEF s
      <4> QED
        BY <4>1, <4>2, <4>3 DEF Stats
    <3>3. queue' = queue
      BY <3>1
    <3>4. TypeOK'
      <4>1. UNCHANGED <<closed, stopped, cancelled, work, calls>>
        BY <1>5 DEF EnqueueSend
      <4> QED
        BY <1>0, <2>1, <3>2, <3>3, <4>1 DEF TypeOK
    <3>5. EveryEventCounted'
      <4>1. calls' = stats'.enqueued + stats'.dropped + InFlight'
        <5>1. calls' = calls /\ calls = stats.enqueued + stats.dropped + InFlight
          BY <1>0, <2>1 DEF EveryEventCounted
        <5> QED
          BY <1>1, <2>2, <3>2, <5>1
      <4>2. stats'.enqueued = Len(queue') + Busy' + stats'.processed
        BY <1>0, <1>1, <3>2, <3>3 DEF EveryEventCounted
      <4> QED
        BY <4>1, <4>2 DEF EveryEventCounted
    <3>6. DepthWhileOpen'
      <4>1. DepthExact
        BY <1>0, <2>5 DEF DepthWhileOpen
      <4>2. DepthExact'
        BY <1>1, <2>2, <3>2, <3>3, <4>1 DEF DepthExact
      <4> QED
        BY <4>2 DEF DepthWhileOpen
    <3>7. ExitsDrained'
      BY <1>0, <1>5, <3>3 DEF EnqueueSend, ExitsDrained
    <3> QED
      BY <3>4, <3>5, <3>6, <3>7 DEF PoolInv
  <2> QED
    BY <2>3, <2>4, <2>5
<1> QED
  BY <1>2, <1>3, <1>4, <1>5 DEF Enqueue

\* The steps of a worker.
LEMMA WorkerStep ==
    ASSUME PoolInv, NEW w \in Workers, Worker(w) PROVE PoolInv'
<1>0. TypeOK /\ EveryEventCounted /\ DepthWhileOpen /\ ExitsDrained
  BY DEF PoolInv
<1>1. /\ InFlight' = InFlight /\ Counted' = Counted /\ calls' = calls
      /\ Busy \in Nat /\ InFlight \in Nat /\ Counted \in Nat
      /\ Len(queue) \in Nat /\ calls \in Nat /\ stats.enqueued \in Int
      /\ stats.dropped \in Int /\ stats.processed \in Int /\ stats.depth \in Int
  <2>1. InFlight' = InFlight /\ Counted' = Counted /\ calls' = calls
    BY ZenonT(60) DEF Worker, Receive, Publish, Exit, InFlight, Counted
  <2> QED
    BY <1>0, <2>1, CountsNatural DEF TypeOK, Stats
<1>2. CASE Receive(w)
  <2>1. /\ work' = [work EXCEPT ![w] = "busy"] /\ work[w] = "idle"
        /\ queue # <<>> /\ queue' = Tail(queue) /\ closed' = closed
        /\ stats' = [stats EXCEPT !.depth = stats.depth - 1]
    BY <1>2 DEF Receive
  <2>2. Busy' = Busy + 1
    BY <1>0, <2>1, WorkerMoves, ZenonT(60)
  <2>3. /\ stats' \in Stats /\ stats'.dropped = stats.dropped
        /\ stats'.enqueued = stats.enqueued /\ stats'.processed = stats.processed
        /\ stats'.depth = stats.depth - 1
    <3>1. stats \in Stats /\ stats' = [stats EXCEPT !.depth = stats.depth - 1]
      BY <1>0, <2>1 DEF TypeOK
    <3> QED
      BY <3>1 DEF Stats
  <2>4. queue' \in Seq(Producers) /\ Len(queue') = Len(queue) - 1
    BY <1>0, <2>1 DEF TypeOK
  <2>5. TypeOK'
    <3>1. UNCHANGED <<closed, stopped, cancelled, prod, calls>>
      BY <1>2 DEF Receive
    <3>2. Len(queue') <= QueueCapacity
      BY <1>0, <1>1, <2>4, PoolAssumption DEF TypeOK
    <3>3. work' \in [Workers -> {"idle", "busy", "exited"}]
      BY <1>0, <2>1 DEF TypeOK
    <3> QED
      BY <1>0, <2>3, <2>4, <3>1, <3>2, <3>3 DEF TypeOK
  <2>6. EveryEventCounted'
    <3>1. calls' = stats'.enqueued + stats'.dropped + InFlight'
      BY <1>0, <1>1, <2>3 DEF EveryEventCounted
    <3>2. stats'.enqueued = Len(queue') + Busy' + stats'.processed
      <4>1. stats.enqueued = Len(queue) + Busy + stats.processed
        BY <1>0 DEF EveryEventCounted
      <4> QED
        BY <1>1, <2>2, <2>3, <2>4, <4>1
    <3> QED
      BY <3>1, <3>2 DEF EveryEventCounted
  <2>7. DepthWhileOpen'
    <3>1. DepthExact => DepthExact'
      BY <1>1, <2>3, <2>4 DEF DepthExact
    <3> QED
      BY <1>0, <2>1, <3>1 DEF DepthWhileOpen
  <2>8. ExitsDrained'
    <3>1. \A x \in Workers : work'[x] = "exited" <=> work[x] = "exited"
      BY <1>0, <2>1 DEF TypeOK
    <3>2. cancelled' = cancelled /\ shut' = shut
      BY <1>2 DEF Receive
    <3> QED
      BY <1>0, <2>1, <3>1, <3>2 DEF ExitsDrained
  <2> QED
    BY <2>5, <2>6, <2>7, <2>8 DEF PoolInv
<1>3. CASE Publish(w)
  <2>1. PICK panic \in {0, 1} :
          stats' = [stats EXCEPT !.processed = stats.processed + 1,
                                 !.panics = stats.panics + panic]
    BY <1>3, ZenonT(60) DEF Publish
  <2>2. /\ work' = [work EXCEPT ![w] = "idle"] /\ work[w] = "busy"
        /\ queue' = queue /\ closed' = closed
    BY <1>3 DEF Publish
  <2>3. Busy' = Busy - 1
    BY <1>0, <2>2, WorkerMoves, ZenonT(60)
  <2>4. /\ stats' \in Stats /\ stats'.dropped = stats.dropped
        /\ stats'.enqueued = stats.enqueued /\ stats'.depth = stats.depth
        /\ stats'.processed = stats.processed + 1
    <3> DEFINE s == [stats EXCEPT !.processed = stats.processed + 1]
    <3>1. stats' = [s EXCEPT !.panics = stats.panics + panic]
      BY <2>1
    <3>2. /\ s \in Stats /\ s.processed = stats.processed + 1 /\ s.depth = stats.depth
          /\ s.enqueued = stats.enqueued /\ s.dropped = stats.dropped
      BY <1>0 DEF TypeOK, Stats
    <3>3. stats.panics + panic \in Int
      BY <1>0 DEF TypeOK, Stats
    <3> HIDE DEF s
    <3> QED
      BY <3>1, <3>2, <3>3 DEF Stats
  <2>5. TypeOK'
    <3>1. UNCHANGED <<closed, stopped, cancelled, prod, calls>>
      BY <1>3 DEF Publish
    <3>2. work' \in [Workers -> {"idle", "busy", "exited"}]
      BY <1>0, <2>2 DEF TypeOK
    <3> QED
      BY <1>0, <2>2, <2>4, <3>1, <3>2 DEF TypeOK
  <2>6. EveryEventCounted'
    <3>1. Len(queue') = Len(queue)
      BY <2>2
    <3> QED
      BY <1>0, <1>1, <2>3, <2>4, <3>1 DEF EveryEventCounted
  <2>7. DepthWhileOpen'
    BY <1>0, <1>1, <2>2, <2>4 DEF DepthWhileOpen, DepthExact
  <2>8. ExitsDrained'
    <3>1. \A x \in Workers : work'[x] = "exited" <=> (work[x] = "exited")
      BY <1>0, <2>2 DEF TypeOK
    <3>2. cancelled' = cancelled /\ shut' = shut
      BY <1>3 DEF Publish
    <3> QED
      BY <1>0, <2>2, <3>1, <3>2 DEF ExitsDrained
  <2> QED
    BY <2>5, <2>6, <2>7, <2>8 DEF PoolInv
<1>4. CASE Exit(w)
  <2>1. /\ work' = [work EXCEPT ![w] = "exited"] /\ work[w] = "idle"
        /\ (closed /\ queue = <<>>) \/ cancelled
        /\ UNCHANGED <<queue, closed, stopped, cancelled, prod, shut, stats, calls>>
    BY <1>4 DEF Exit
  <2>2. Busy' = Busy
    BY <1>0, <2>1, WorkerMoves, ZenonT(60)
  <2>3. TypeOK'
    BY <1>0, <2>1 DEF TypeOK
  <2>4. EveryEventCounted' /\ DepthWhileOpen'
    BY <1>0, <1>1, <2>1, <2>2 DEF EveryEventCounted, DepthWhileOpen, DepthExact
  <2>5. ExitsDrained'
    <3>1. \A x \in Workers : work[x] = "exited" => work'[x] = "exited"
      BY <1>0, <2>1 DEF TypeOK
    <3> QED
      BY <1>0, <2>1, <3>1 DEF ExitsDrained
  <2> QED
    BY <2>3, <2>4, <2>5 DEF PoolInv
<1> QED
  BY <1>2, <1>3, <1>4 DEF Worker

\* The steps of Shutdown, and the cancellation of the parent context.
LEMMA ShutdownStep ==
    ASSUME PoolInv, Shutdown \/ CancelParent \/ UNCHANGED vars PROVE PoolInv'
<1>0. TypeOK /\ EveryEventCounted /\ DepthWhileOpen /\ ExitsDrained
  BY DEF PoolInv
<1>1. UNCHANGED <<queue, prod, work, stats, calls>>
  BY DEF Shutdown, ShutdownStop, ShutdownClose, ShutdownDone, ShutdownTimeout,
         CancelParent, vars
<1>2. closed' = closed \/ closed' = TRUE
  BY DEF Shutdown, ShutdownStop, ShutdownClose, ShutdownDone, ShutdownTimeout,
         CancelParent, vars
<1>3. TypeOK'
  <2>1. stopped' \in BOOLEAN /\ closed' \in BOOLEAN /\ cancelled' \in BOOLEAN
    BY <1>0, ZenonT(60) DEF TypeOK, Shutdown, ShutdownStop, ShutdownClose, ShutdownDone,
                ShutdownTimeout, CancelParent, vars
  <2> QED
    BY <1>0, <1>1, <2>1 DEF TypeOK
<1>4. EveryEventCounted'
  BY <1>0, <1>1 DEF EveryEventCounted, InFlight, Busy
<1>5. DepthWhileOpen'
  <2>1. DepthExact => DepthExact'
    BY <1>1 DEF DepthExact, Counted
  <2> QED
    BY <1>0, <1>2, <2>1 DEF DepthWhileOpen
<1>6. ExitsDrained'
  <2>1. ~cancelled' => ~cancelled
    BY DEF Shutdown, ShutdownStop, ShutdownClose, ShutdownDone, ShutdownTimeout,
           CancelParent, vars
  <2>2. shut' = "clean" => shut = "clean" \/ \A w \in Workers : work[w] = "exited"
    BY DEF Shutdown, ShutdownStop, ShutdownClose, ShutdownDone, ShutdownTimeout,
           CancelParent, vars
  <2> QED
    BY <1>0, <1>1, <1>2, <2>1, <2>2 DEF ExitsDrained
<1> QED
  BY <1>3, <1>4, <1>5, <1>6 DEF PoolInv

\* With at least one worker, the invariant says what a clean Shutdown promises: all
\* workers have exited, so none is busy and the queue they left is empty.
LEMMA CleanIsDrained == ASSUME Workers # {}, PoolInv PROVE PoolAccounts
<1>1. ASSUME shut = "clean", ~cancelled
      PROVE  queue = <<>> /\ stats.processed = stats.enqueued
  <2>1. \A w \in Workers : work[w] = "exited"
    BY <1>1 DEF PoolInv, ExitsDrained
  <2>2. queue = <<>>
    BY <1>1, <2>1 DEF PoolInv, ExitsDrained
  <2>3. {w \in Workers : work[w] = "busy"} = {}
    BY <2>1
  <2>4. Busy = 0
    BY <2>3, FS_EmptySet DEF Busy
  <2>5. stats.processed \in Int
    BY DEF PoolInv, TypeOK, Stats
  <2>6. stats.enqueued = 0 + 0 + stats.processed
    BY <2>2, <2>4 DEF PoolInv, EveryEventCounted
  <2> QED
    BY <2>2, <2>5, <2>6
<1> QED
  BY <1>1 DEF PoolInv, PoolAccounts, ShutdownDrains

\* For any finite numbers of producers and workers (at least one worker) and any
\* capacity, the pool counts every call and event once, its depth gauge is exact
\* until the queue is closed, and a clean uncancelled Shutdown has drained it.
THEOREM PoolCorrect == ASSUME Workers # {} PROVE Spec => []PoolAccounts
<1>1. PoolInv /\ [Next]_vars => PoolInv'
  BY EnqueueStep, WorkerStep, ShutdownStep DEF Next, Finished
<1>2. PoolInv => PoolAccounts
  BY CleanIsDrained
<1> QED
  BY PoolInit, <1>1, <1>2, PTL DEF Spec
====
