--------------------------- MODULE PlatformProofs ---------------------------
(***************************************************************************)
(* Proofs about what the processes share and run on: the sequence numbers  *)
(* (RedisSequencer) and the discovery of gateways (Discovery) in Redis,    *)
(* and the order of boot and shutdown (LifecycleManager), for any          *)
(* processes, block sizes, gateways and components.                        *)
(***************************************************************************)
EXTENDS RedisSequencer, LifecycleManager, TLAPS

\* Time for the provers: a leaf that names no prover of its own is one for SMT.
USE SMTT(60)

\* The initial state has the types of TypeOK.
LEMMA InitTypes == Init => TypeOK
<1> SUFFICES ASSUME Init PROVE TypeOK
  OBVIOUS
<1>1. NoBlock \in [current : Nat, max : Nat] /\ NoBlock.current <= NoBlock.max
  BY DEF NoBlock
<1>2. /\ block \in [Instances -> [current : Nat, max : Nat]]
      /\ \A i \in Instances : block[i].current <= block[i].max
  BY <1>1 DEF Init
<1>3. key \in Nat /\ last \in [Instances -> Nat]
  BY DEF Init
<1>4. issued \subseteq Instances \X Nat /\ scanning \subseteq Instances
  BY DEF Init
<1>5. dup \in BOOLEAN
  BY ZenonT(60) DEF Init
<1> QED
  BY <1>2, <1>3, <1>4, <1>5 DEF TypeOK

\* The types of RedisSequencer hold in every reachable state, resets included.
THEOREM TypeCorrect == Spec => []TypeOK
<1>1. Init => TypeOK
  BY InitTypes
<1>2. TypeOK /\ [Next]_vars => TypeOK'
  <2> SUFFICES ASSUME TypeOK, [Next]_vars PROVE TypeOK'
    OBVIOUS
  <2>1. ASSUME NEW i \in Instances, NextLocal(i) PROVE TypeOK'
    <3>1. block[i].current + 1 \in Nat /\ block[i].current + 1 <= block[i].max
      BY <2>1 DEF TypeOK, NextLocal
    <3>2. block' = [block EXCEPT ![i].current = block[i].current + 1]
      BY <2>1 DEF NextLocal, TypeOK
    <3>3. /\ block' \in [Instances -> [current : Nat, max : Nat]]
          /\ \A j \in Instances : block'[j].current <= block'[j].max
      BY <3>1, <3>2 DEF TypeOK
    <3>4. issued' \subseteq Instances \X Nat /\ last' \in [Instances -> Nat]
      BY <2>1, <3>1 DEF NextLocal, Issue, TypeOK
    <3>5. dup' \in BOOLEAN
      BY <2>1, ZenonT(60) DEF NextLocal, Issue, TypeOK
    <3> QED
      BY <2>1, <3>3, <3>4, <3>5 DEF NextLocal, Issue, TypeOK
  <2>2. ASSUME NEW i \in Instances, NextFetch(i) PROVE TypeOK'
    <3>1. key + 1 \in Nat /\ key + blockSize \in Nat /\ key + 1 <= key + blockSize
      BY SequencerAssumption DEF TypeOK
    <3>2. /\ block' \in [Instances -> [current : Nat, max : Nat]]
          /\ \A j \in Instances : block'[j].current <= block'[j].max
      BY <2>2, <3>1 DEF NextFetch, TypeOK
    <3>3. issued' \subseteq Instances \X Nat /\ last' \in [Instances -> Nat]
      BY <2>2, <3>1 DEF NextFetch, Issue, TypeOK
    <3>4. dup' \in BOOLEAN
      BY <2>2, ZenonT(60) DEF NextFetch, Issue, TypeOK
    <3> QED
      BY <2>2, <3>1, <3>2, <3>3, <3>4 DEF NextFetch, Issue, TypeOK
  <2>3. ASSUME NEW i \in Instances, NextFails(i) PROVE TypeOK'
    BY <2>3 DEF NextFails, TypeOK
  <2>4. ASSUME NEW i \in Instances, Restart(i) PROVE TypeOK'
    BY <2>4 DEF Restart, TypeOK, NoBlock
  <2>5. ASSUME NEW i \in Instances, ResetBlocks(i) PROVE TypeOK'
    BY <2>5 DEF ResetBlocks, TypeOK, NoBlock
  <2>6. ASSUME NEW i \in Instances, ResetScan(i) PROVE TypeOK'
    BY <2>6 DEF ResetScan, Deleted, TypeOK
  <2>7. ASSUME NEW i \in Instances, ResetSymbols(i) PROVE TypeOK'
    BY <2>7 DEF ResetSymbols, Deleted, TypeOK, NoBlock
  <2>8. ASSUME NEW i \in Instances, SetTTL(i) PROVE TypeOK'
    BY <2>8 DEF SetTTL, Deleted, TypeOK
  <2>9. CASE UNCHANGED vars
    BY <2>9 DEF vars, TypeOK
  <2> QED
    BY <2>1, <2>2, <2>3, <2>4, <2>5, <2>6, <2>7, <2>8, <2>9 DEF Next
<1> QED
  BY <1>1, <1>2, PTL DEF Spec

-----------------------------------------------------------------------------

\* The steps that are taken only in a system with resets.
Resetting(i) == ResetBlocks(i) \/ ResetScan(i) \/ ResetSymbols(i) \/ SetTTL(i)

\* The inductive invariant of a system without resets.
IInv == TypeOK /\ Unique /\ BlocksDisjoint /\ scanning = {}

\* Taking the next number of a local block keeps the numbers apart.
LEMMA LocalStep ==
    ASSUME IInv, NEW i \in Instances, NextLocal(i)
    PROVE  Unique' /\ BlocksDisjoint' /\ scanning' = {}
<1> DEFINE n == block[i].current + 1
<1>1. n \in Nat /\ n \in Rest(i) /\ n <= key
  BY DEF IInv, TypeOK, NextLocal, BlocksDisjoint, Rest
<1>2. key' = key /\ block' = [block EXCEPT ![i].current = n]
  BY DEF NextLocal, IInv, TypeOK
<1>3. issued' = issued \union {<<i, n>>}
  BY DEF NextLocal, Issue
<1>4. Unique'
  <2>1. \A p \in issued : p[2] # n
    BY <1>1 DEF IInv, BlocksDisjoint
  <2> QED
    BY <2>1, ZenonT(60) DEF NextLocal, Issue, Unique, IInv
<1>5. /\ Rest(i)' = Rest(i) \ {n}
      /\ \A j \in Instances : j # i => Rest(j)' = Rest(j)
  BY <1>1, <1>2 DEF Rest, IInv, TypeOK
<1>6. \A j \in Instances : block'[j].max <= key'
  BY <1>2 DEF IInv, BlocksDisjoint, TypeOK
<1>7. ASSUME NEW p \in issued', NEW j \in Instances
      PROVE  p[2] <= key' /\ p[2] \notin Rest(j)'
  <2>1. CASE p \in issued
    BY <2>1, <1>2, <1>5 DEF IInv, BlocksDisjoint
  <2>2. CASE p = <<i, n>>
    BY <2>2, <1>1, <1>2, <1>5 DEF IInv, BlocksDisjoint
  <2> QED
    BY <2>1, <2>2, <1>3
<1>8. \A j, k \in Instances : j # k => Rest(j)' \intersect Rest(k)' = {}
  BY <1>5 DEF IInv, BlocksDisjoint
<1>9. \A p \in issued' : p[2] <= key'
  BY <1>7
<1>10. BlocksDisjoint'
  BY <1>6, <1>7, <1>8, <1>9 DEF BlocksDisjoint
<1> QED
  BY <1>4, <1>10 DEF NextLocal, Issue, IInv

\* A block taken from Redis lies above every number known to anybody.
LEMMA FetchStep ==
    ASSUME IInv, NEW i \in Instances, NextFetch(i)
    PROVE  Unique' /\ BlocksDisjoint' /\ scanning' = {}
<1>1. key \in Nat /\ key + blockSize \in Nat /\ key + 1 <= key + blockSize
  BY SequencerAssumption DEF IInv, TypeOK
<1>2. /\ key' = key + blockSize
      /\ block' = [block EXCEPT ![i] = [current |-> key + 1, max |-> key + blockSize]]
      /\ issued' = issued \union {<<i, key + 1>>}
  BY DEF NextFetch, Issue
<1>3. \A p \in issued : p[2] \in Nat /\ p[2] <= key
  BY DEF IInv, BlocksDisjoint, TypeOK
<1>4. Unique'
  <2>1. \A p \in issued : p[2] # key + 1
    BY <1>1, <1>3
  <2> QED
    BY <2>1, ZenonT(60) DEF NextFetch, Issue, Unique, IInv
<1>5. /\ Rest(i)' = (key + 2)..(key + blockSize)
      /\ \A j \in Instances : j # i => Rest(j)' = Rest(j)
  <2>1. block'[i].current + 1 = key + 2 /\ block'[i].max = key + blockSize
    BY <1>1, <1>2 DEF IInv, TypeOK
  <2>2. \A j \in Instances : j # i => block'[j] = block[j]
    BY <1>2 DEF IInv, TypeOK
  <2> QED
    BY <2>1, <2>2 DEF Rest
<1>6. \A j \in Instances : block[j].max \in Nat /\ block[j].max <= key
  BY DEF IInv, BlocksDisjoint, TypeOK
<1>7. \A j \in Instances : \A n \in Rest(j) : n \in Int /\ n <= key
  BY <1>1, <1>6 DEF Rest, IInv, TypeOK
<1>8. \A n \in Rest(i)' : n \in Int /\ n > key + 1
  BY <1>1, <1>5, SequencerAssumption
<1>9. \A j \in Instances : block'[j].max <= key'
  BY <1>1, <1>2, <1>6, SequencerAssumption DEF IInv, TypeOK
<1>10. \A p \in issued' : p[2] <= key'
  <2> SUFFICES ASSUME NEW p \in issued' PROVE p[2] <= key'
    OBVIOUS
  <2>1. CASE p \in issued
    BY <2>1, <1>1, <1>2, <1>3, SequencerAssumption
  <2>2. CASE p = <<i, key + 1>>
    BY <2>2, <1>1, <1>2
  <2> QED
    BY <2>1, <2>2, <1>2
<1>11. ASSUME NEW p \in issued', NEW j \in Instances PROVE p[2] \notin Rest(j)'
  <2>1. CASE j # i /\ p \in issued
    BY <2>1, <1>5 DEF IInv, BlocksDisjoint
  <2>2. CASE j # i /\ p = <<i, key + 1>>
    <3>1. p[2] = key + 1 /\ Rest(j)' = Rest(j)
      BY <2>2, <1>5
    <3> QED
      BY <3>1, <1>1, <1>7
  <2>3. CASE j = i /\ p \in issued
    BY <2>3, <1>1, <1>3, <1>8
  <2>4. CASE j = i /\ p = <<i, key + 1>>
    <3>1. p[2] = key + 1
      BY <2>4
    <3> QED
      BY <3>1, <2>4, <1>1, <1>8
  <2> QED
    BY <2>1, <2>2, <2>3, <2>4, <1>2
<1>12. ASSUME NEW j \in Instances, NEW k \in Instances, j # k
       PROVE  Rest(j)' \intersect Rest(k)' = {}
  <2>1. CASE j # i /\ k # i
    BY <2>1, <1>12, <1>5 DEF IInv, BlocksDisjoint
  <2>2. CASE j = i
    BY <2>2, <1>12, <1>1, <1>5, <1>7, <1>8
  <2>3. CASE k = i
    BY <2>3, <1>12, <1>1, <1>5, <1>7, <1>8
  <2> QED
    BY <2>1, <2>2, <2>3
<1>13. BlocksDisjoint'
  BY <1>9, <1>10, <1>11, <1>12 DEF BlocksDisjoint
<1> QED
  BY <1>4, <1>13 DEF NextFetch, Issue, IInv

\* A restart only empties a block.
LEMMA RestartStep ==
    ASSUME IInv, NEW i \in Instances, Restart(i)
    PROVE  Unique' /\ BlocksDisjoint' /\ scanning' = {}
<1>1. /\ key' = key /\ issued' = issued /\ dup' = dup /\ scanning' = scanning
      /\ block' = [block EXCEPT ![i] = NoBlock]
  BY DEF Restart
<1>2. Rest(i)' = {} /\ \A j \in Instances : j # i => Rest(j)' = Rest(j)
  BY <1>1 DEF Rest, NoBlock, IInv, TypeOK
<1>3. \A j \in Instances : block'[j].max <= key'
  BY <1>1 DEF NoBlock, IInv, TypeOK, BlocksDisjoint
<1>4. /\ \A p \in issued' : p[2] <= key' /\ (\A j \in Instances : p[2] \notin Rest(j)')
      /\ \A j, k \in Instances : j # k => Rest(j)' \intersect Rest(k)' = {}
  BY <1>1, <1>2 DEF IInv, BlocksDisjoint
<1> QED
  BY <1>1, <1>3, <1>4 DEF IInv, BlocksDisjoint, Unique

\* Without resets IInv holds in every reachable state.
THEOREM Invariance ==
    ASSUME Resets = FALSE PROVE Spec => []IInv
<1>1. Init => IInv
  <2> SUFFICES ASSUME Init PROVE IInv
    OBVIOUS
  <2>1. ASSUME NEW i \in Instances PROVE block[i].max <= key /\ Rest(i) = {}
    <3>1. key = 0 /\ block[i].current = 0 /\ block[i].max = 0
      BY DEF Init, NoBlock
    <3> QED
      BY <3>1 DEF Rest
  <2>2. issued = {} /\ ~dup /\ scanning = {}
    BY DEF Init
  <2> QED
    BY <2>1, <2>2, InitTypes DEF IInv, Unique, BlocksDisjoint
<1>2. IInv /\ TypeOK' /\ [Next]_vars => IInv'
  <2> SUFFICES ASSUME IInv, TypeOK', [Next]_vars
               PROVE  Unique' /\ BlocksDisjoint' /\ scanning' = {}
    BY DEF IInv
  <2>1. ASSUME NEW i \in Instances, NextLocal(i)
        PROVE  Unique' /\ BlocksDisjoint' /\ scanning' = {}
    BY <2>1, LocalStep
  <2>2. ASSUME NEW i \in Instances, NextFetch(i)
        PROVE  Unique' /\ BlocksDisjoint' /\ scanning' = {}
    BY <2>2, FetchStep
  <2>3. ASSUME NEW i \in Instances, NextFails(i)
        PROVE  Unique' /\ BlocksDisjoint' /\ scanning' = {}
    BY <2>3 DEF NextFails, IInv, Unique, BlocksDisjoint, Rest
  <2>4. ASSUME NEW i \in Instances, Restart(i)
        PROVE  Unique' /\ BlocksDisjoint' /\ scanning' = {}
    BY <2>4, RestartStep
  <2>5. ASSUME NEW i \in Instances, Resetting(i) PROVE FALSE
    BY <2>5 DEF Resetting, ResetBlocks, ResetScan, ResetSymbols, SetTTL, IInv
  <2>6. CASE UNCHANGED vars
    BY <2>6 DEF vars, IInv, Unique, BlocksDisjoint, Rest
  <2> QED
    BY <2>1, <2>2, <2>3, <2>4, <2>5, <2>6 DEF Next, Resetting
<1>3. Spec => []TypeOK
  BY TypeCorrect
<1> QED
  BY <1>1, <1>2, <1>3, PTL DEF Spec

\* Without resets no number is handed out twice, for any number of processes,
\* any block size and any crashes.
THEOREM SequencerUnique ==
    ASSUME Resets = FALSE PROVE Spec => []Unique
<1>1. IInv => Unique
  BY DEF IInv
<1> QED
  BY <1>1, Invariance, PTL
-----------------------------------------------------------------------------

\* What orders the numbers of one process: while it has numbers left in its
\* block, the ones it returned before lie below them.
OwnBelow ==
    \A p \in issued : block[p[1]].current < block[p[1]].max
                        => p[2] <= block[p[1]].current

\* OwnBelow is preserved by every step of a system without resets.
LEMMA OwnBelowStep ==
    ASSUME Resets = FALSE, IInv, OwnBelow, [Next]_vars
    PROVE  OwnBelow'
<1> SUFFICES ASSUME NEW p \in issued', block'[p[1]].current < block'[p[1]].max
             PROVE  p[2] <= block'[p[1]].current
  BY DEF OwnBelow
<1>0. p \in issued => p[1] \in Instances /\ p[2] \in Nat
  BY DEF IInv, TypeOK
<1>1. ASSUME NEW i \in Instances, NextLocal(i) PROVE p[2] <= block'[p[1]].current
  <2>1. /\ block' = [block EXCEPT ![i].current = block[i].current + 1]
        /\ issued' = issued \union {<<i, block[i].current + 1>>}
    BY <1>1 DEF NextLocal, Issue, IInv, TypeOK
  <2>2. block'[i].current = block[i].current + 1
    BY <2>1 DEF IInv, TypeOK
  <2>3. CASE p \in issued /\ p[1] = i
    <3>1. p[2] <= block[i].current
      BY <1>1, <2>3 DEF OwnBelow, NextLocal
    <3>2. block[i].current \in Nat /\ p[2] \in Nat
      BY <1>0, <2>3 DEF IInv, TypeOK
    <3> QED
      BY <2>2, <2>3, <3>1, <3>2
  <2>4. CASE p \in issued /\ p[1] # i
    <3>1. block'[p[1]] = block[p[1]]
      BY <2>1, <2>4, <1>0 DEF IInv, TypeOK
    <3> QED
      BY <2>4, <3>1 DEF OwnBelow
  <2>5. CASE p = <<i, block[i].current + 1>>
    BY <2>2, <2>5 DEF IInv, TypeOK
  <2> QED
    BY <2>1, <2>3, <2>4, <2>5
<1>2. ASSUME NEW i \in Instances, NextFetch(i) PROVE p[2] <= block'[p[1]].current
  <2>1. /\ block' = [block EXCEPT ![i] = [current |-> key + 1, max |-> key + blockSize]]
        /\ issued' = issued \union {<<i, key + 1>>}
    BY <1>2 DEF NextFetch, Issue
  <2>2. block'[i].current = key + 1 /\ key \in Nat
    BY <2>1 DEF IInv, TypeOK
  <2>3. CASE p \in issued /\ p[1] = i
    <3>1. p[2] <= key
      BY <2>3 DEF IInv, BlocksDisjoint
    <3> QED
      BY <1>0, <2>2, <2>3, <3>1
  <2>4. CASE p \in issued /\ p[1] # i
    <3>1. block'[p[1]] = block[p[1]]
      BY <2>1, <2>4, <1>0 DEF IInv, TypeOK
    <3> QED
      BY <2>4, <3>1 DEF OwnBelow
  <2>5. CASE p = <<i, key + 1>>
    BY <2>2, <2>5
  <2> QED
    BY <2>1, <2>3, <2>4, <2>5
<1>3. ASSUME NEW i \in Instances, NextFails(i) PROVE p[2] <= block'[p[1]].current
  BY <1>3 DEF NextFails, OwnBelow
<1>4. ASSUME NEW i \in Instances, Restart(i) PROVE p[2] <= block'[p[1]].current
  <2>1. p \in issued /\ block' = [block EXCEPT ![i] = NoBlock]
    BY <1>4 DEF Restart
  <2>2. CASE p[1] = i
    BY <2>1, <2>2, <1>0 DEF NoBlock, IInv, TypeOK
  <2>3. CASE p[1] # i
    <3>1. block'[p[1]] = block[p[1]]
      BY <2>1, <2>3, <1>0 DEF IInv, TypeOK
    <3> QED
      BY <2>1, <3>1 DEF OwnBelow
  <2> QED
    BY <2>2, <2>3
<1>5. ASSUME NEW i \in Instances, Resetting(i) PROVE FALSE
  BY <1>5 DEF Resetting, ResetBlocks, ResetScan, ResetSymbols, SetTTL, IInv
<1>6. CASE UNCHANGED vars
  BY <1>6 DEF vars, OwnBelow
<1> QED
  BY <1>1, <1>2, <1>3, <1>4, <1>5, <1>6 DEF Next, Resetting

\* Without resets the numbers one process returns grow, whatever blocks it lost
\* in restarts.
THEOREM SequencerMonotonic ==
    ASSUME Resets = FALSE PROVE Spec => InstanceMonotonic
<1> DEFINE Step == \A p \in issued' \ issued : \A q \in issued :
                      q[1] = p[1] => q[2] < p[2]
<1>1. Init => OwnBelow
  BY DEF Init, OwnBelow
<1>2. IInv /\ OwnBelow /\ [Next]_vars => OwnBelow'
  BY OwnBelowStep, ZenonT(60)
<1>3. IInv /\ OwnBelow /\ [Next]_vars => [Step]_vars
  <2> SUFFICES ASSUME IInv, OwnBelow, Next, NEW p \in issued' \ issued,
                      NEW q \in issued, q[1] = p[1]
               PROVE  q[2] < p[2]
    OBVIOUS
  <2>0. q[2] \in Nat /\ q[2] <= key /\ key \in Nat
    BY DEF IInv, TypeOK, BlocksDisjoint
  <2>1. ASSUME NEW i \in Instances, NextLocal(i) PROVE q[2] < p[2]
    <3>1. p = <<i, block[i].current + 1>>
      BY <2>1 DEF NextLocal, Issue
    <3>2. q[2] <= block[i].current /\ block[i].current \in Nat
      BY <2>1, <3>1 DEF NextLocal, OwnBelow, IInv, TypeOK
    <3> QED
      BY <2>0, <3>1, <3>2
  <2>2. ASSUME NEW i \in Instances, NextFetch(i) PROVE q[2] < p[2]
    <3>1. p = <<i, key + 1>>
      BY <2>2 DEF NextFetch, Issue
    <3> QED
      BY <2>0, <3>1
  <2>3. ASSUME NEW i \in Instances,
               NextFails(i) \/ Restart(i) \/ Resetting(i)
        PROVE  q[2] < p[2]
    BY <2>3 DEF NextFails, Restart, Resetting, ResetBlocks, ResetScan, ResetSymbols,
                SetTTL, IInv
  <2> QED
    BY <2>1, <2>2, <2>3 DEF Next, Resetting
<1> QED
  BY <1>1, <1>2, <1>3, Invariance, PTL DEF Spec, InstanceMonotonic

-----------------------------------------------------------------------------

\* Every step of a system without resets hands out one fresh number or none.
LEMMA SourceStep ==
    ASSUME Resets = FALSE, IInv, OwnBelow, [Next]_vars
    PROVE  [Source!Next]_issued
<1>0. \A q \in issued : q[2] \in Nat /\ q[2] <= key
  BY DEF IInv, TypeOK, BlocksDisjoint
<1>1. ASSUME NEW i \in Instances, NextLocal(i) PROVE Source!Next
  <2> DEFINE p == <<i, block[i].current + 1>>
  <2>1. issued' = issued \union {p}
    BY <1>1 DEF NextLocal, Issue
  <2>2. block[i].current + 1 \in Rest(i) /\ block[i].current \in Nat
    BY <1>1 DEF NextLocal, Rest, IInv, TypeOK
  <2>3. ASSUME NEW q \in issued PROVE q[2] # p[2] /\ (q[1] = p[1] => q[2] < p[2])
    <3>1. q[2] \notin Rest(i)
      BY DEF IInv, BlocksDisjoint
    <3>2. q[1] = i => q[2] <= block[i].current
      BY <1>1 DEF NextLocal, OwnBelow
    <3> QED
      BY <1>0, <2>2, <3>1, <3>2
  <2> QED
    BY <2>1, <2>3, ZenonT(60) DEF Source!Next, Source!Fresh
<1>2. ASSUME NEW i \in Instances, NextFetch(i) PROVE Source!Next
  <2> DEFINE p == <<i, key + 1>>
  <2>1. issued' = issued \union {p}
    BY <1>2 DEF NextFetch, Issue
  <2>2. key \in Nat
    BY DEF IInv, TypeOK
  <2>3. \A q \in issued : q[2] # p[2] /\ (q[1] = p[1] => q[2] < p[2])
    BY <1>0, <2>2
  <2> QED
    BY <2>1, <2>3, ZenonT(60) DEF Source!Next, Source!Fresh
<1>3. ASSUME NEW i \in Instances, NextFails(i) \/ Restart(i) PROVE UNCHANGED issued
  BY <1>3 DEF NextFails, Restart
<1>4. ASSUME NEW i \in Instances, Resetting(i) PROVE FALSE
  BY <1>4 DEF Resetting, ResetBlocks, ResetScan, ResetSymbols, SetTTL, IInv
<1>5. CASE UNCHANGED vars
  BY <1>5 DEF vars
<1> QED
  BY <1>1, <1>2, <1>3, <1>4, <1>5 DEF Next, Resetting

\* Without resets the block allocator implements NumberSource: its callers cannot
\* tell it from a source that hands out one fresh number at a time.
THEOREM SequencerImplementsSource ==
    ASSUME Resets = FALSE PROVE Spec => SequencerIsSource
<1>1. Init => OwnBelow /\ Source!Init
  BY DEF Init, OwnBelow, Source!Init
<1>2. IInv /\ OwnBelow /\ [Next]_vars => OwnBelow'
  BY OwnBelowStep, ZenonT(60)
<1>3. IInv /\ OwnBelow /\ [Next]_vars => [Source!Next]_issued
  BY SourceStep, ZenonT(60)
<1> QED
  BY <1>1, <1>2, <1>3, Invariance, PTL DEF Spec, SequencerIsSource, Source!Spec

-----------------------------------------------------------------------------
(* LifecycleManager: boot, rollback and shutdown keep the order.             *)

Off(i) == \A p \in Boot[i] : life[p] = "off"
On(i) == \A p \in Boot[i] : life[p] = "on"

\* A component that was stopped, or is being stopped: what is not off is unclean
\* unless its Stop still runs in time.
Stopped(i) == \A p \in Boot[i] :
    life[p] # "starting" /\ (life[p] # "off" => p \in unclean)
BeingStopped(i) == \A p \in Boot[i] :
    life[p] # "starting" /\ (life[p] = "on" => p \in unclean)

\* started lists the first components in their order, and each phase says how far
\* every component has come.
Progress ==
    /\ Len(started) <= Len(Boot) /\ \A i \in 1..Len(started) : started[i] = i
    /\ phase = "new" => pos = 1 /\ ~waiting /\ started = <<>> /\ \A i \in DOMAIN Boot : Off(i)
    /\ phase = "starting" =>
         /\ pos = Len(started) + 1 /\ (waiting => pos <= Len(Boot))
         /\ \A i \in DOMAIN Boot :
              /\ i < pos => On(i)
              /\ i > pos \/ (i = pos /\ ~waiting) => Off(i)
              /\ \A p \in Boot[i] : life[p] # "stopping"
    /\ phase = "running" =>
         Len(started) = Len(Boot) /\ ~waiting /\ \A i \in DOMAIN Boot : On(i)
    /\ Stopping =>
         /\ pos <= Len(started) /\ (waiting => pos > 0)
         /\ phase = "stopping" => Len(started) = Len(Boot)
         /\ \A i \in DOMAIN Boot :
              /\ i < pos \/ (i = pos /\ ~waiting) => On(i)
              /\ i = pos /\ waiting => BeingStopped(i)
              /\ i > pos /\ i <= Len(started) => Stopped(i)
              /\ i > Len(started) + 1 => Off(i)

LifeInv == LifeTypes /\ Progress /\ OnlyFailedLeft

\* Facts about the sequence that the steps use.
LEMMA BootFacts ==
    ASSUME Registered
    PROVE  /\ Len(Boot) \in Nat /\ DOMAIN Boot = 1..Len(Boot)
           /\ \A i \in DOMAIN Boot : Boot[i] \subseteq Parts
           /\ \A p \in Parts : \E i \in DOMAIN Boot : p \in Boot[i]
           /\ \A i, j \in DOMAIN Boot, p \in Parts :
                p \in Boot[i] /\ p \in Boot[j] => i = j
  BY DEF Registered, Parts

\* The invariant in the initial state.
LEMMA LifeStarts == ASSUME Registered, LifeInit PROVE LifeInv
<1>1. Len(Boot) \in Nat /\ \A i \in DOMAIN Boot : Boot[i] \subseteq Parts
  BY BootFacts
<1>2. LifeTypes
  <2>1. life \in [Parts -> {"off", "starting", "on", "stopping"}]
    BY DEF LifeInit
  <2>2. started \in Seq(DOMAIN Boot) /\ pos \in 0..(Len(Boot) + 1)
    BY <1>1 DEF LifeInit
  <2>3. waiting \in BOOLEAN /\ unclean \subseteq Parts
    BY ZenonT(60) DEF LifeInit
  <2> QED
    BY <2>1, <2>2, <2>3 DEF LifeInit, LifeTypes
<1>3. Progress
  <2>1. \A i \in DOMAIN Boot : Off(i)
    BY <1>1 DEF LifeInit, Off
  <2>2. Len(started) = 0
    BY DEF LifeInit
  <2> QED
    BY <1>1, <2>1, <2>2 DEF LifeInit, Progress, Stopping
<1>4. OnlyFailedLeft
  BY DEF LifeInit, OnlyFailedLeft
<1> QED
  BY <1>2, <1>3, <1>4 DEF LifeInv

\* The invariant implies the order.
LEMMA LifeOrder == ASSUME Registered, LifeInv PROVE BootOrder
<1>1. DependenciesUp
  <2>1. Len(Boot) \in Nat /\ DOMAIN Boot = 1..Len(Boot) /\ pos \in Int
        /\ Len(started) \in Nat
    BY BootFacts DEF LifeInv, LifeTypes
  <2>2. ASSUME phase = "starting", NEW i \in 1..(pos - 1), NEW p \in Boot[i]
        PROVE  life[p] = "on"
    <3>1. i \in DOMAIN Boot /\ i < pos
      BY <2>1, <2>2 DEF LifeInv, Progress
    <3> QED
      BY <2>2, <3>1 DEF LifeInv, Progress, On
  <2>3. ASSUME Stopping, NEW i \in 1..(pos - 1), NEW p \in Boot[started[i]]
        PROVE  life[p] = "on"
    <3>1. i \in DOMAIN Boot /\ i < pos /\ started[i] = i
      BY <2>1, <2>3 DEF LifeInv, Progress
    <3> QED
      BY <2>3, <3>1 DEF LifeInv, Progress, On
  <2> QED
    BY <2>2, <2>3 DEF DependenciesUp
<1> QED
  BY <1>1 DEF LifeInv, BootOrder

\* Facts that every step uses.
LEMMA LifeFacts ==
    ASSUME Registered, LifeInv
    PROVE  /\ Len(Boot) \in Nat /\ DOMAIN Boot = 1..Len(Boot)
           /\ \A i \in DOMAIN Boot : Boot[i] \subseteq Parts
           /\ pos \in Int /\ pos >= 0 /\ pos <= Len(Boot) + 1 /\ Len(started) \in Nat
           /\ life \in [Parts -> {"off", "starting", "on", "stopping"}]
           /\ started \in Seq(DOMAIN Boot) /\ unclean \subseteq Parts
           /\ waiting \in BOOLEAN /\ Len(started) <= Len(Boot)
           /\ \A i \in 1..Len(started) : started[i] = i
  BY BootFacts DEF LifeInv, LifeTypes, Progress

\* The steps of StartAll and StopAll.
LEMMA StartAllStep == ASSUME Registered, LifeInv, StartAll PROVE LifeInv'
<1>0. Len(Boot) \in Nat /\ DOMAIN Boot = 1..Len(Boot) /\ pos \in Int
  BY LifeFacts
<1>1. /\ phase = "new" /\ phase' = "starting"
      /\ UNCHANGED <<pos, waiting, life, started, unclean>>
  BY DEF StartAll
<1>2. LifeTypes' /\ OnlyFailedLeft'
  BY <1>1 DEF LifeInv, LifeTypes, OnlyFailedLeft
<1>3. Progress'
  <2>1. pos = 1 /\ ~waiting /\ started = <<>> /\ \A i \in DOMAIN Boot : Off(i)
    BY <1>1 DEF LifeInv, Progress
  <2>2. \A i \in DOMAIN Boot : Off(i)' /\ ~(i < pos)
    BY <1>0, <1>1, <2>1 DEF Off
  <2>3. \A i \in DOMAIN Boot : \A p \in Boot[i] : life'[p] # "stopping"
    BY <2>2 DEF Off
  <2>4. Len(started) = 0
    BY <2>1
  <2> QED
    BY <1>0, <1>1, <2>1, <2>2, <2>3, <2>4 DEF Progress, Stopping
<1> QED
  BY <1>2, <1>3 DEF LifeInv

LEMMA StopAllStep == ASSUME Registered, LifeInv, StopAll PROVE LifeInv'
<1>0. Len(Boot) \in Nat /\ DOMAIN Boot = 1..Len(Boot) /\ Len(started) \in Nat
  BY LifeFacts
<1>1. /\ phase = "running" /\ phase' = "stopping" /\ pos' = Len(started)
      /\ UNCHANGED <<waiting, life, started, unclean>>
  BY DEF StopAll
<1>2. Len(started) = Len(Boot) /\ ~waiting /\ \A i \in DOMAIN Boot : On(i)
  BY <1>1 DEF LifeInv, Progress
<1>3. LifeTypes' /\ OnlyFailedLeft'
  BY <1>0, <1>1, <1>2 DEF LifeInv, LifeTypes, OnlyFailedLeft
<1>4. Progress'
  <2>1. \A i \in DOMAIN Boot : On(i)'
    BY <1>1, <1>2 DEF On
  <2>2. /\ Len(started') <= Len(Boot) /\ \A i \in 1..Len(started') : started'[i] = i
    BY <1>1 DEF LifeInv, Progress
  <2>3. \A i \in DOMAIN Boot : ~(i > Len(started)) /\ ~(i > pos')
    BY <1>0, <1>1, <1>2
  <2> QED
    BY <1>0, <1>1, <1>2, <2>1, <2>2, <2>3 DEF Progress, Stopping
<1> QED
  BY <1>3, <1>4 DEF LifeInv

\* StartNext: the next component, or the end of the list.
LEMMA StartNextStep == ASSUME Registered, LifeInv, StartNext PROVE LifeInv'
<1>0. /\ Len(Boot) \in Nat /\ DOMAIN Boot = 1..Len(Boot) /\ Len(started) \in Nat
      /\ pos \in Int /\ life \in [Parts -> {"off", "starting", "on", "stopping"}]
      /\ \A i \in DOMAIN Boot : Boot[i] \subseteq Parts
      /\ Len(started) <= Len(Boot)
  BY LifeFacts
<1>1. phase = "starting" /\ ~waiting /\ UNCHANGED <<pos, started, unclean>>
  BY DEF StartNext
<1>2. /\ pos = Len(started) + 1
      /\ \A i \in DOMAIN Boot :
           /\ i < pos => On(i)
           /\ i >= pos => Off(i)
           /\ \A p \in Boot[i] : life[p] # "stopping"
  <2>1. /\ pos = Len(started) + 1
        /\ \A i \in DOMAIN Boot :
             /\ i < pos => On(i)
             /\ i > pos \/ (i = pos /\ ~waiting) => Off(i)
             /\ \A p \in Boot[i] : life[p] # "stopping"
    BY <1>1 DEF LifeInv, Progress
  <2>2. \A i \in DOMAIN Boot : i >= pos => i > pos \/ i = pos
    BY <1>0
  <2> QED
    BY <1>1, <2>1, <2>2
<1>3. CASE pos <= Len(Boot)
  <2>1. waiting' = TRUE /\ life' = Moved(Boot[pos], "starting") /\ phase' = phase
    BY <1>3 DEF StartNext
  <2>2. pos \in DOMAIN Boot
    BY <1>0, <1>2, <1>3
  <2>3. \A i \in DOMAIN Boot : i # pos => \A p \in Boot[i] : life'[p] = life[p]
    BY <1>0, <2>1, <2>2 DEF Moved, Registered
  <2>4. \A p \in Boot[pos] : life'[p] = "starting"
    BY <1>0, <2>1, <2>2 DEF Moved
  <2>5. life' \in [Parts -> {"off", "starting", "on", "stopping"}]
    BY <1>0, <2>1 DEF Moved
  <2>6. LifeTypes' /\ OnlyFailedLeft'
    BY <1>1, <2>1, <2>5 DEF LifeInv, LifeTypes, OnlyFailedLeft
  <2>7. \A i \in DOMAIN Boot :
           /\ i < pos => On(i)'
           /\ i > pos => Off(i)'
           /\ \A p \in Boot[i] : life'[p] # "stopping"
    <3> SUFFICES ASSUME NEW i \in DOMAIN Boot
                 PROVE  /\ i < pos => On(i)'
                        /\ i > pos => Off(i)'
                        /\ \A p \in Boot[i] : life'[p] # "stopping"
      OBVIOUS
    <3>1. CASE i = pos
      BY <1>0, <2>4, <3>1
    <3>2. CASE i # pos
      BY <1>0, <1>2, <2>3, <3>2 DEF On, Off
    <3> QED
      BY <3>1, <3>2
  <2>8. Len(started') <= Len(Boot) /\ \A i \in 1..Len(started') : started'[i] = i
    BY <1>1 DEF LifeInv, Progress
  <2>9. Progress'
    BY <1>1, <1>2, <1>3, <2>1, <2>7, <2>8 DEF Progress, Stopping
  <2> QED
    BY <2>6, <2>9 DEF LifeInv
<1>4. CASE ~(pos <= Len(Boot))
  <2>1. phase' = "running" /\ waiting' = waiting /\ life' = life
    BY <1>4 DEF StartNext
  <2>2. Len(started) = Len(Boot) /\ \A i \in DOMAIN Boot : i < pos
    BY <1>0, <1>2, <1>4
  <2>3. \A i \in DOMAIN Boot : On(i)'
    BY <1>2, <2>1, <2>2 DEF On
  <2>4. Len(started') <= Len(Boot) /\ \A i \in 1..Len(started') : started'[i] = i
    BY <1>1 DEF LifeInv, Progress
  <2>5. Progress'
    BY <1>1, <2>1, <2>2, <2>3, <2>4 DEF Progress, Stopping
  <2>6. LifeTypes' /\ OnlyFailedLeft'
    BY <1>1, <2>1 DEF LifeInv, LifeTypes, OnlyFailedLeft
  <2> QED
    BY <2>5, <2>6 DEF LifeInv
<1> QED
  BY <1>3, <1>4

\* Rollback, after an error or the timeout of Start.
LEMMA RollbackStep ==
    ASSUME Registered, LifeInv, phase = "starting", waiting, Rollback(started),
           UNCHANGED <<life, unclean>>
    PROVE  LifeInv'
<1>0. /\ Len(Boot) \in Nat /\ DOMAIN Boot = 1..Len(Boot) /\ Len(started) \in Nat
      /\ pos \in Int /\ Len(started) <= Len(Boot)
  BY LifeFacts
<1>1. /\ phase' = "rollback" /\ waiting' = FALSE /\ pos' = Len(started)
      /\ started' = started
  BY DEF Rollback
<1>2. /\ pos = Len(started) + 1
      /\ \A i \in DOMAIN Boot : (i < pos => On(i)) /\ (i > pos => Off(i))
  BY DEF LifeInv, Progress
<1>3. LifeTypes' /\ OnlyFailedLeft'
  <2>1. pos' \in 0..(Len(Boot) + 1)
    BY <1>0, <1>1
  <2> QED
    BY <1>1, <2>1, ZenonT(60) DEF LifeInv, LifeTypes, OnlyFailedLeft
<1>4. \A i \in DOMAIN Boot :
        /\ i <= pos' => On(i)'
        /\ i > Len(started) + 1 => Off(i)'
        /\ ~(i > pos' /\ i <= Len(started))
  BY <1>0, <1>1, <1>2 DEF On, Off
<1>5. Len(started') <= Len(Boot) /\ \A i \in 1..Len(started') : started'[i] = i
  BY <1>1 DEF LifeInv, Progress
<1>6. \A i \in DOMAIN Boot : i < pos' \/ i = pos' => i <= pos'
  BY <1>0, <1>1
<1>7. /\ pos' <= Len(started')
      /\ \A i \in DOMAIN Boot :
           /\ i < pos' \/ (i = pos' /\ ~waiting') => On(i)'
           /\ ~(i = pos' /\ waiting')
           /\ ~(i > pos' /\ i <= Len(started'))
           /\ i > Len(started') + 1 => Off(i)'
  BY <1>0, <1>1, <1>4, <1>6
<1>8. Progress'
  BY <1>1, <1>5, <1>7 DEF Progress, Stopping
<1> QED
  BY <1>3, <1>8 DEF LifeInv

\* A component has started.
LEMMA StartReturnsStep == ASSUME Registered, LifeInv, StartReturns PROVE LifeInv'
<1>0. /\ Len(Boot) \in Nat /\ DOMAIN Boot = 1..Len(Boot) /\ Len(started) \in Nat
      /\ pos \in Int /\ started \in Seq(DOMAIN Boot)
      /\ \A i \in 1..Len(started) : started[i] = i
  BY LifeFacts
<1>1. phase = "starting" /\ waiting /\ UNCHANGED <<life, unclean>>
  BY DEF StartReturns
<1>2. CASE \A p \in Boot[pos] : life[p] = "on"
  <2>1. /\ started' = Append(started, pos) /\ pos' = pos + 1
        /\ waiting' = FALSE /\ phase' = phase
    BY <1>2 DEF StartReturns
  <2>2. /\ pos = Len(started) + 1 /\ pos <= Len(Boot) /\ pos \in DOMAIN Boot
        /\ \A i \in DOMAIN Boot :
             /\ i < pos => On(i)
             /\ i > pos => Off(i)
             /\ \A p \in Boot[i] : life[p] # "stopping"
    BY <1>0, <1>1 DEF LifeInv, Progress
  <2>3. /\ started' \in Seq(DOMAIN Boot) /\ Len(started') = pos
        /\ \A i \in 1..Len(started') : started'[i] = i
    <3>1. started' \in Seq(DOMAIN Boot) /\ Len(started') = Len(started) + 1
      BY <1>0, <2>1, <2>2
    <3>2. ASSUME NEW i \in 1..Len(started') PROVE started'[i] = i
      <4>1. CASE i = Len(started) + 1
        BY <1>0, <2>1, <2>2, <4>1
      <4>2. CASE i # Len(started) + 1
        <5>1. i \in 1..Len(started)
          BY <1>0, <3>1, <4>2
        <5>2. started'[i] = started[i]
          BY <1>0, <2>1, <5>1
        <5> QED
          BY <1>0, <5>1, <5>2
      <4> QED
        BY <4>1, <4>2
    <3> QED
      BY <1>0, <2>2, <3>1, <3>2
  <2>4. LifeTypes' /\ OnlyFailedLeft'
    <3>1. pos' \in 0..(Len(Boot) + 1)
      BY <1>0, <2>1, <2>2
    <3> QED
      BY <1>1, <2>1, <2>3, <3>1, ZenonT(60) DEF LifeInv, LifeTypes, OnlyFailedLeft
  <2>5. \A i \in DOMAIN Boot :
          /\ i < pos' => On(i)'
          /\ i > pos' \/ i = pos' => Off(i)'
          /\ \A p \in Boot[i] : life'[p] # "stopping"
    <3>1. \A i \in DOMAIN Boot :
            /\ i < pos' => i < pos \/ i = pos
            /\ i > pos' \/ i = pos' => i > pos
      BY <1>0, <2>1
    <3>2. On(pos)
      BY <1>2 DEF On
    <3> QED
      BY <1>1, <2>2, <3>1, <3>2 DEF On, Off
  <2>6. pos' = Len(started') + 1 /\ Len(started') <= Len(Boot)
    BY <2>1, <2>2, <2>3
  <2>7. Progress'
    BY <1>1, <2>1, <2>3, <2>5, <2>6 DEF Progress, Stopping
  <2> QED
    BY <2>4, <2>7 DEF LifeInv
<1>3. CASE ~(\A p \in Boot[pos] : life[p] = "on")
  <2>1. Rollback(started)
    BY <1>3 DEF StartReturns
  <2> QED
    BY <1>1, <2>1, RollbackStep
<1> QED
  BY <1>2, <1>3

\* What holds while components are stopped.
LEMMA StoppingFacts ==
    ASSUME Registered, LifeInv, Stopping
    PROVE  /\ pos <= Len(started) /\ (waiting => pos > 0)
           /\ phase = "stopping" => Len(started) = Len(Boot)
           /\ \A i \in DOMAIN Boot :
                /\ i < pos \/ (i = pos /\ ~waiting) => On(i)
                /\ i = pos /\ waiting => BeingStopped(i)
                /\ i > pos /\ i <= Len(started) => Stopped(i)
                /\ i > Len(started) + 1 => Off(i)
  BY DEF LifeInv, Progress

\* The next component to be stopped.
LEMMA StopNextStep == ASSUME Registered, LifeInv, StopNext PROVE LifeInv'
<1>0. /\ Len(Boot) \in Nat /\ DOMAIN Boot = 1..Len(Boot) /\ Len(started) \in Nat
      /\ pos \in Int /\ life \in [Parts -> {"off", "starting", "on", "stopping"}]
      /\ \A i \in DOMAIN Boot : Boot[i] \subseteq Parts
      /\ Len(started) <= Len(Boot) /\ \A i \in 1..Len(started) : started[i] = i
  BY LifeFacts
<1>1. /\ Stopping /\ ~waiting /\ pos > 0 /\ waiting' = TRUE
      /\ life' = Moved(Boot[started[pos]], "stopping")
      /\ UNCHANGED <<phase, pos, started, unclean>>
  BY DEF StopNext
<1>2. /\ pos <= Len(started)
      /\ phase = "stopping" => Len(started) = Len(Boot)
      /\ \A i \in DOMAIN Boot :
           /\ i < pos => On(i)
           /\ i > pos /\ i <= Len(started) => Stopped(i)
           /\ i > Len(started) + 1 => Off(i)
  BY <1>1, StoppingFacts
<1>3. pos \in DOMAIN Boot /\ started[pos] = pos
  BY <1>0, <1>1, <1>2
<1>4. \A i \in DOMAIN Boot : i # pos => \A p \in Boot[i] : life'[p] = life[p]
  BY <1>0, <1>1, <1>3 DEF Moved, Registered
<1>5. \A p \in Boot[pos] : life'[p] = "stopping"
  BY <1>0, <1>1, <1>3 DEF Moved
<1>6. life' \in [Parts -> {"off", "starting", "on", "stopping"}]
  BY <1>0, <1>1 DEF Moved
<1>7. LifeTypes' /\ OnlyFailedLeft'
  BY <1>1, <1>6 DEF LifeInv, LifeTypes, OnlyFailedLeft, Stopping
<1>8. \A i \in DOMAIN Boot :
        /\ i < pos => On(i)'
        /\ i = pos => BeingStopped(i)'
        /\ i > pos /\ i <= Len(started) => Stopped(i)'
        /\ i > Len(started) + 1 => Off(i)'
  <2> SUFFICES ASSUME NEW i \in DOMAIN Boot
               PROVE  /\ i < pos => On(i)'
                      /\ i = pos => BeingStopped(i)'
                      /\ i > pos /\ i <= Len(started) => Stopped(i)'
                      /\ i > Len(started) + 1 => Off(i)'
    OBVIOUS
  <2>1. CASE i = pos
    BY <1>0, <1>2, <1>5, <2>1 DEF BeingStopped
  <2>2. CASE i # pos
    BY <1>1, <1>2, <1>4, <2>2, ZenonT(60) DEF On, Off, Stopped
  <2> QED
    BY <2>1, <2>2
<1>9. Progress'
  BY <1>0, <1>1, <1>2, <1>8 DEF Progress, Stopping
<1> QED
  BY <1>7, <1>9 DEF LifeInv

\* A component has been stopped, or its Stop is abandoned.
LEMMA StopEndsStep ==
    ASSUME Registered, LifeInv, StopReturns \/ StopTimesOut PROVE LifeInv'
<1>0. /\ Len(Boot) \in Nat /\ DOMAIN Boot = 1..Len(Boot) /\ Len(started) \in Nat
      /\ pos \in Int /\ pos <= Len(Boot) + 1 /\ unclean \subseteq Parts
      /\ \A i \in DOMAIN Boot : Boot[i] \subseteq Parts
      /\ Len(started) <= Len(Boot) /\ \A i \in 1..Len(started) : started[i] = i
  BY LifeFacts
<1>1. /\ Stopping /\ waiting /\ waiting' = FALSE /\ pos' = pos - 1
      /\ UNCHANGED <<phase, life, started>>
  BY DEF StopReturns, StopTimesOut
<1>2. /\ pos <= Len(started) /\ pos > 0
      /\ phase = "stopping" => Len(started) = Len(Boot)
      /\ \A i \in DOMAIN Boot :
           /\ i < pos => On(i)
           /\ i = pos => BeingStopped(i)
           /\ i > pos /\ i <= Len(started) => Stopped(i)
           /\ i > Len(started) + 1 => Off(i)
  BY <1>1, StoppingFacts
<1>3. pos \in DOMAIN Boot /\ started[pos] = pos
  BY <1>0, <1>2
<1>4. /\ unclean \subseteq unclean' /\ unclean' \subseteq Parts
      /\ \A p \in Boot[pos] : life[p] = "stopping" => p \in unclean'
  BY <1>0, <1>3 DEF StopReturns, StopTimesOut
<1>5. \A p \in Boot[pos] :
        life'[p] # "starting" /\ (life'[p] # "off" => p \in unclean')
  <2>1. \A p \in Boot[pos] : life[p] \in {"off", "starting", "on", "stopping"}
    BY <1>0, <1>3, LifeFacts
  <2> QED
    BY <1>1, <1>2, <1>3, <1>4, <2>1 DEF BeingStopped
<1>6. \A i \in DOMAIN Boot :
        /\ i < pos => On(i)'
        /\ (i > pos \/ i = pos) /\ i <= Len(started) => Stopped(i)'
        /\ i > Len(started) + 1 => Off(i)'
  BY <1>1, <1>2, <1>4, <1>5 DEF On, Off, Stopped
<1>7. LifeTypes' /\ OnlyFailedLeft'
  <2>1. pos' \in 0..(Len(Boot) + 1)
    BY <1>0, <1>1, <1>2
  <2> QED
    BY <1>1, <1>4, <2>1, ZenonT(60) DEF LifeInv, LifeTypes, OnlyFailedLeft, Stopping
<1>8. \A i \in DOMAIN Boot :
        /\ i < pos' \/ i = pos' => i < pos
        /\ i > pos' => i > pos \/ i = pos
  BY <1>0, <1>1
<1>9. pos' <= Len(started)
  BY <1>0, <1>1, <1>2
<1>10. \A i \in DOMAIN Boot :
         /\ i < pos' \/ (i = pos' /\ ~waiting') => On(i)'
         /\ ~(i = pos' /\ waiting')
         /\ i > pos' /\ i <= Len(started') => Stopped(i)'
         /\ i > Len(started') + 1 => Off(i)'
  BY <1>1, <1>6, <1>8, ZenonT(60)
<1>11. Progress'
  BY <1>0, <1>1, <1>2, <1>9, <1>10 DEF Progress, Stopping
<1> QED
  BY <1>7, <1>11 DEF LifeInv

\* The loop of rollbackUnlocked ends.
LEMMA RollbackEndsStep == ASSUME Registered, LifeInv, RollbackEnds PROVE LifeInv'
<1>0. /\ Len(Boot) \in Nat /\ DOMAIN Boot = 1..Len(Boot) /\ Len(started) \in Nat
      /\ Len(started) <= Len(Boot)
      /\ \A p \in Parts : \E i \in DOMAIN Boot : p \in Boot[i]
  BY LifeFacts, BootFacts
<1>1. /\ Stopping /\ ~waiting /\ pos = 0 /\ started' = <<>>
      /\ phase' = (IF phase = "rollback" THEN "failed" ELSE "stopped")
      /\ UNCHANGED <<pos, waiting, life, unclean>>
  BY DEF RollbackEnds
<1>2. /\ phase = "stopping" => Len(started) = Len(Boot)
      /\ \A i \in DOMAIN Boot :
           /\ i > pos /\ i <= Len(started) => Stopped(i)
           /\ i > Len(started) + 1 => Off(i)
  BY <1>1, StoppingFacts
<1>3. phase \in {"rollback", "stopping"} /\ phase' \in {"failed", "stopped"}
  BY <1>1 DEF Stopping
<1>4. \A i \in DOMAIN Boot : i # Len(started) + 1 => Stopped(i) \/ Off(i)
  BY <1>0, <1>1, <1>2
<1>5. OnlyFailedLeft'
  <2>1. CASE Len(started) = Len(Boot)
    <3>1. \A p \in Parts : life[p] # "off" => p \in unclean
      <4> SUFFICES ASSUME NEW p \in Parts, life[p] # "off" PROVE p \in unclean
        OBVIOUS
      <4>1. PICK i \in DOMAIN Boot : p \in Boot[i]
        BY <1>0
      <4>2. i # Len(started) + 1
        BY <1>0, <2>1
      <4> QED
        BY <1>4, <4>1, <4>2 DEF Stopped, Off
    <3> QED
      BY <1>0, <1>1, <3>1 DEF OnlyFailedLeft
  <2>2. CASE Len(started) # Len(Boot)
    <3>1. phase' = "failed" /\ Len(started) + 1 \in 0..Len(Boot) /\ Len(started) + 1 > 0
      BY <1>0, <1>1, <1>2, <1>3, <2>2
    <3>2. \A p \in Parts : life[p] # "off" => p \in unclean \/ p \in Boot[Len(started) + 1]
      <4> SUFFICES ASSUME NEW p \in Parts, life[p] # "off", p \notin Boot[Len(started) + 1]
                   PROVE  p \in unclean
        OBVIOUS
      <4>1. PICK i \in DOMAIN Boot : p \in Boot[i]
        BY <1>0
      <4> QED
        BY <1>4, <4>1 DEF Stopped, Off
    <3> QED
      BY <1>1, <3>1, <3>2 DEF OnlyFailedLeft
  <2> QED
    BY <2>1, <2>2
<1>6. LifeTypes'
  <2>1. started' \in Seq(DOMAIN Boot)
    BY <1>1
  <2>2. phase' \in {"new", "starting", "running", "rollback", "failed", "stopping", "stopped"}
    BY <1>3
  <2> QED
    BY <1>1, <2>1, <2>2, ZenonT(60) DEF LifeInv, LifeTypes
<1>7. Progress'
  <2>1. Len(started') = 0
    BY <1>1
  <2> QED
    BY <1>0, <1>1, <1>3, <2>1 DEF Progress, Stopping
<1> QED
  BY <1>5, <1>6, <1>7 DEF LifeInv

\* A part's Start or Stop returns, in time or late.
LEMMA PartStep ==
    ASSUME Registered, LifeInv, NEW q \in Parts, PartStarts(q) \/ PartStops(q)
    PROVE  LifeInv'
<1>0. /\ Len(Boot) \in Nat /\ DOMAIN Boot = 1..Len(Boot) /\ Len(started) \in Nat
      /\ pos \in Int /\ life \in [Parts -> {"off", "starting", "on", "stopping"}]
      /\ \A i \in DOMAIN Boot : Boot[i] \subseteq Parts
      /\ unclean \subseteq Parts
  BY LifeFacts
<1>1. PICK k \in DOMAIN Boot : q \in Boot[k]
  BY BootFacts
<1>2. \A i \in DOMAIN Boot : i # k => q \notin Boot[i]
  BY <1>1, BootFacts
<1>3. /\ UNCHANGED <<phase, pos, waiting, started>>
      /\ \A p \in Parts : p # q => life'[p] = life[p]
      /\ life' \in [Parts -> {"off", "starting", "on", "stopping"}]
      /\ life'[q] \in {"on", "off"} /\ unclean \subseteq unclean'
      /\ unclean' \subseteq Parts
      /\ \/ life[q] = "starting"
         \/ life[q] = "stopping" /\ (life'[q] = "on" => q \in unclean')
  BY <1>0 DEF PartStarts, PartStops
<1>4. \A i \in DOMAIN Boot : i # k =>
        /\ On(i) => On(i)'
        /\ Off(i) => Off(i)'
        /\ Stopped(i) => Stopped(i)'
        /\ BeingStopped(i) => BeingStopped(i)'
        /\ (\A p \in Boot[i] : life[p] # "stopping") => \A p \in Boot[i] : life'[p] # "stopping"
  BY <1>0, <1>2, <1>3, ZenonT(60) DEF On, Off, Stopped, BeingStopped
<1>5. ~On(k) /\ ~Off(k)
  BY <1>1, <1>3, ZenonT(60) DEF On, Off
<1>6. /\ Stopped(k) => Stopped(k)'
      /\ BeingStopped(k) => BeingStopped(k)'
      /\ (\A p \in Boot[k] : life[p] # "stopping") => \A p \in Boot[k] : life'[p] # "stopping"
  BY <1>0, <1>1, <1>3, ZenonT(60) DEF Stopped, BeingStopped
<1>7. \A i \in DOMAIN Boot :
        /\ On(i) => On(i)'
        /\ Off(i) => Off(i)'
        /\ Stopped(i) => Stopped(i)'
        /\ BeingStopped(i) => BeingStopped(i)'
        /\ (\A p \in Boot[i] : life[p] # "stopping") => \A p \in Boot[i] : life'[p] # "stopping"
  BY <1>4, <1>5, <1>6
<1>8. LifeTypes'
  BY <1>3 DEF LifeInv, LifeTypes
<1>9. Progress'
  BY <1>3, <1>7, ZenonT(60) DEF LifeInv, Progress, Stopping
<1>10. OnlyFailedLeft'
  <2> SUFFICES ASSUME phase \in {"failed", "stopped"}
               PROVE  \E i \in 0..Len(Boot) :
                         /\ phase = "stopped" => i = 0
                         /\ \A p \in Parts : life'[p] # "off" =>
                              p \in unclean' \/ (i > 0 /\ p \in Boot[i])
    BY <1>3 DEF OnlyFailedLeft
  <2>1. PICK i \in 0..Len(Boot) :
          /\ phase = "stopped" => i = 0
          /\ \A p \in Parts : life[p] # "off" => p \in unclean \/ (i > 0 /\ p \in Boot[i])
    BY DEF LifeInv, OnlyFailedLeft
  <2>2. \A p \in Parts : life'[p] # "off" => p \in unclean' \/ (i > 0 /\ p \in Boot[i])
    BY <1>3, <2>1
  <2> QED
    BY <2>1, <2>2
<1> QED
  BY <1>8, <1>9, <1>10 DEF LifeInv

\* For any sequence of components that share no part, whatever fails or hangs:
\* a component starts after and stops before all registered earlier, and only
\* parts whose own Start or Stop failed or hung are left running.
THEOREM LifecycleOrdered == ASSUME Registered PROVE LifeSpec => []BootOrder
<1>1. LifeInv /\ [LifeNext]_lifeVars => LifeInv'
  <2> SUFFICES ASSUME LifeInv, [LifeNext]_lifeVars PROVE LifeInv'
    OBVIOUS
  <2>1. CASE StartTimesOut
    BY <2>1, RollbackStep DEF StartTimesOut
  <2>2. CASE Manager
    BY <2>1, <2>2, StartNextStep, StartReturnsStep, StopNextStep, StopEndsStep,
       RollbackEndsStep, ZenonT(60) DEF Manager
  <2>3. CASE UNCHANGED lifeVars
    BY <2>3 DEF lifeVars, LifeInv, LifeTypes, Progress, OnlyFailedLeft, Stopping, On, Off,
                Stopped, BeingStopped
  <2> QED
    BY <2>2, <2>3, StartAllStep, StopAllStep, PartStep DEF LifeNext
<1>2. LifeInv => BootOrder
  BY LifeOrder
<1>3. LifeInit => LifeInv
  BY LifeStarts
<1> QED
  BY <1>1, <1>2, <1>3, PTL DEF LifeSpec

-----------------------------------------------------------------------------
(* Discovery: no poll loses a running gateway, and one gateway serves.       *)

CONSTANTS Gateways, Partitions, Owner, MaxFails, Outages, Restarts, StartupCtx

VARIABLES proc, late, keys, active, polls, sync, ids, found, ring

D == INSTANCE Discovery WITH key <- keys

\* The variables are functions and sets of gateways.
Typed ==
    /\ proc \in [Gateways -> {"down", "half", "up", "draining", "deleted", "gone"}]
    /\ sync \in [Gateways -> {"off", "idle", "members", "values"}]
    /\ ids \in [Gateways -> SUBSET Gateways] /\ found \in [Gateways -> SUBSET Gateways]
    /\ keys \subseteq Gateways /\ active \subseteq Gateways

\* What makes RunningListed inductive: the key comes before the member, so that no
\* poll knows a gateway without its key, and a poll that saw the key spares it.
PollsSpare ==
    \A g \in Gateways :
        /\ proc[g] \in {"half", "up"} => g \in keys
        /\ proc[g] = "up" => g \in active
        /\ proc[g] \in {"down", "half"} => g \notin active /\ \A o \in Gateways : g \notin ids[o]
        /\ proc[g] = "up" => \A o \in Gateways :
              sync[o] = "values" /\ g \in ids[o] => g \in found[o]

DiscoveryInv == Typed /\ PollsSpare

\* A poll that ends has no list any more.
LEMMA SyncAtFacts ==
    ASSUME DiscoveryInv, NEW o \in Gateways, NEW p \in {"off", "idle"}, D!SyncAt(o, p)
    PROVE  /\ sync' \in [Gateways -> {"off", "idle", "members", "values"}]
           /\ ids' \in [Gateways -> SUBSET Gateways] /\ found' \in [Gateways -> SUBSET Gateways]
           /\ \A q \in Gateways : /\ ids'[q] \subseteq ids[q]
                                  /\ sync'[q] = "values" => /\ sync[q] = "values"
                                                            /\ ids'[q] = ids[q]
                                                            /\ found'[q] = found[q]
  BY DEF DiscoveryInv, Typed, D!SyncAt

\* The steps of the process of gateway g.
LEMMA ProcessStep ==
    ASSUME DiscoveryInv, ~Outages, ~Restarts, NEW g \in Gateways,
           \/ D!Register(g) \/ D!Heartbeat(g) \/ D!LateHeartbeat(g) \/ D!Expire(g)
           \/ D!Drain(g) \/ D!Deregister(g) \/ D!Crash(g) \/ D!Restart(g)
    PROVE  DiscoveryInv'
<1>0. Typed /\ PollsSpare
  BY DEF DiscoveryInv
<1>1. CASE D!RegisterFirst(g)
  <2>1. /\ proc[g] = "down" /\ proc' = [proc EXCEPT ![g] = "half"] /\ keys' = keys \union {g}
        /\ UNCHANGED <<active, sync, ids, found>>
    BY <1>1 DEF D!RegisterFirst, D!Becomes, D!Executed, D!registerPipeline, D!engineVars
  <2>2. Typed'
    BY <1>0, <2>1 DEF Typed
  <2>3. PollsSpare'
    BY <1>0, <2>1 DEF Typed, PollsSpare
  <2> QED
    BY <2>2, <2>3 DEF DiscoveryInv
<1>2. CASE D!RegisterSecond(g)
  <2>1. /\ proc[g] = "half" /\ proc' = [proc EXCEPT ![g] = "up"]
        /\ active' = active \union {g} /\ sync' = [sync EXCEPT ![g] = "idle"]
        /\ UNCHANGED <<keys, ids, found>>
    BY <1>2 DEF D!RegisterSecond, D!Becomes, D!Executed, D!registerPipeline
  <2>2. Typed'
    BY <1>0, <2>1 DEF Typed
  <2>3. PollsSpare'
    BY <1>0, <2>1, ZenonT(60) DEF Typed, PollsSpare
  <2> QED
    BY <2>2, <2>3 DEF DiscoveryInv
<1>3. CASE D!Heartbeat(g) \/ D!LateHeartbeat(g)
  <2>1. /\ keys' = keys \union {g} \/ keys' = keys
        /\ UNCHANGED <<proc, active, sync, ids, found>>
    BY <1>3, ZenonT(60) DEF D!Heartbeat, D!LateHeartbeat, D!engineVars
  <2> QED
    BY <1>0, <2>1 DEF DiscoveryInv, Typed, PollsSpare
<1>4. CASE D!Expire(g)
  <2>1. /\ proc[g] \notin {"half", "up"} /\ keys' = keys \ {g}
        /\ UNCHANGED <<proc, active, sync, ids, found>>
    BY <1>4, ZenonT(60) DEF D!Expire, D!engineVars
  <2> QED
    BY <1>0, <2>1 DEF DiscoveryInv, Typed, PollsSpare
<1>5. CASE D!Drain(g)
  <2>1. /\ proc' = [proc EXCEPT ![g] = "draining"]
        /\ sync' = [sync EXCEPT ![g] = IF sync[g] = "idle" THEN "off" ELSE sync[g]]
        /\ UNCHANGED <<keys, active, ids, found>>
    BY <1>5 DEF D!Drain, D!Becomes, D!redisVars
  <2>2. Typed' /\ \A o \in Gateways : sync'[o] = "values" => sync[o] = "values"
    BY <1>0, <2>1, ZenonT(60) DEF Typed
  <2>3. PollsSpare'
    BY <1>0, <2>1, <2>2 DEF Typed, PollsSpare
  <2> QED
    BY <2>2, <2>3, ZenonT(60) DEF DiscoveryInv
<1>6. CASE D!DeregisterDel(g)
  <2>1. /\ proc' = [proc EXCEPT ![g] = "deleted"] /\ (keys' = keys \ {g} \/ keys' = keys)
        /\ UNCHANGED <<active, sync, ids, found>>
    BY <1>6 DEF D!DeregisterDel, D!Becomes, D!engineVars
  <2>2. Typed'
    BY <1>0, <2>1, ZenonT(60) DEF Typed
  <2>3. PollsSpare'
    BY <1>0, <2>1 DEF Typed, PollsSpare
  <2> QED
    BY <2>2, <2>3 DEF DiscoveryInv
<1>7. CASE D!DeregisterRem(g) \/ D!Crash(g)
  <2>1. /\ proc' = [proc EXCEPT ![g] = "gone"] /\ D!SyncAt(g, "off") /\ keys' = keys
        /\ active' = active \ {g} \/ active' = active
    BY <1>7, ZenonT(60) DEF D!DeregisterRem, D!Crash, D!Becomes, D!redisVars
  <2>2. Typed'
    BY <1>0, <2>1, SyncAtFacts, ZenonT(60) DEF Typed
  <2>3. PollsSpare'
    BY <1>0, <2>1, SyncAtFacts DEF Typed, PollsSpare
  <2> QED
    BY <2>2, <2>3, ZenonT(60) DEF DiscoveryInv
<1> QED
  BY <1>1, <1>2, <1>3, <1>4, <1>5, <1>6, <1>7 DEF D!Register, D!Deregister, D!Restart

\* The steps of the engine of gateway o.
LEMMA PollStep ==
    ASSUME DiscoveryInv, NEW o \in Gateways, D!Sync(o) \/ D!ListFails(o) \/ D!CtxEnds(o)
    PROVE  DiscoveryInv'
<1>0. Typed /\ PollsSpare
  BY DEF DiscoveryInv
<1>1. CASE D!ListMembers(o)
  <2>1. /\ sync' = [sync EXCEPT ![o] = "members"] /\ ids' = [ids EXCEPT ![o] = active]
        /\ UNCHANGED <<proc, keys, active, found>>
    BY <1>1 DEF D!ListMembers, D!redisVars
  <2>2. Typed'
    BY <1>0, <2>1, ZenonT(60) DEF Typed
  <2>3. PollsSpare'
    BY <1>0, <2>1 DEF Typed, PollsSpare
  <2> QED
    BY <2>2, <2>3 DEF DiscoveryInv
<1>2. CASE D!ListValues(o)
  <2>1. /\ sync' = [sync EXCEPT ![o] = "values"]
        /\ found' = [found EXCEPT ![o] = ids[o] \intersect keys]
        /\ UNCHANGED <<proc, keys, active, ids>>
    BY <1>2 DEF D!ListValues, D!redisVars
  <2>2. Typed'
    BY <1>0, <2>1, ZenonT(60) DEF Typed
  <2>3. PollsSpare'
    BY <1>0, <2>1 DEF Typed, PollsSpare
  <2> QED
    BY <2>2, <2>3, ZenonT(60) DEF DiscoveryInv
<1>3. CASE D!ListRemoves(o)
  <2>1. PICK g \in ids[o] \ found[o] : active' = active \ {g} /\ ids' = [ids EXCEPT ![o] = @ \ {g}]
    BY <1>3, ZenonT(60) DEF D!ListRemoves
  <2>2. sync[o] = "values" /\ UNCHANGED <<proc, keys, sync, found>>
    BY <1>3, ZenonT(60) DEF D!ListRemoves
  <2>3. g \in Gateways /\ proc[g] # "up"
    BY <1>0, <2>1, <2>2, ZenonT(60) DEF Typed, PollsSpare
  <2>4. Typed'
    BY <1>0, <2>1, <2>2, ZenonT(60) DEF Typed
  <2>5. PollsSpare'
    BY <1>0, <2>1, <2>2, <2>3 DEF Typed, PollsSpare
  <2> QED
    BY <2>4, <2>5 DEF DiscoveryInv
<1>4. CASE D!syncTopology(o) \/ D!ListFails(o) \/ D!CtxEnds(o)
  <2>1. UNCHANGED <<proc, keys, active>>
    BY <1>4, ZenonT(60) DEF D!syncTopology, D!ListFails, D!CtxEnds, D!redisVars
  <2>2. D!SyncAt(o, "off") \/ D!SyncAt(o, "idle")
    BY <1>4, ZenonT(60) DEF D!syncTopology, D!ListFails, D!CtxEnds, D!PollEnds
  <2>3. Typed'
    BY <1>0, <2>1, <2>2, SyncAtFacts, ZenonT(60) DEF Typed
  <2>4. PollsSpare'
    BY <1>0, <2>1, <2>2, SyncAtFacts DEF Typed, PollsSpare
  <2> QED
    BY <2>3, <2>4, ZenonT(60) DEF DiscoveryInv
<1> QED
  BY <1>1, <1>2, <1>3, <1>4 DEF D!Sync

\* For any gateways, as long as no key expires under a running gateway and none comes
\* back under its old name: a running gateway stays listed although polls of the
\* others remove members at any moment (Register, List), and when the rings agree one
\* gateway serves a symbol (RedirectTarget).
THEOREM DiscoveryCorrect ==
    ASSUME ~Outages, ~Restarts, D!OwnerInRing
    PROVE  D!Spec => [](D!RunningListed /\ D!OneServes)
<1>1. D!Init => DiscoveryInv
  BY DEF D!Init, DiscoveryInv, Typed, PollsSpare
<1>2. DiscoveryInv /\ [D!Next]_D!vars => DiscoveryInv'
  <2>1. ASSUME DiscoveryInv, UNCHANGED D!vars PROVE DiscoveryInv'
    BY <2>1 DEF D!vars, D!redisVars, D!engineVars, DiscoveryInv, Typed, PollsSpare
  <2> QED
    BY <2>1, ProcessStep, PollStep, ZenonT(60) DEF D!Next
<1>3. DiscoveryInv => D!RunningListed
  BY DEF DiscoveryInv, PollsSpare, D!RunningListed, D!up
<1>4. D!OneServes
  <2> SUFFICES ASSUME D!up # {}, \A o \in D!up : ring[o] = D!up, NEW p \in Partitions
               PROVE  \E g \in D!up : /\ D!RedirectTarget(g, p) = ""
                                    /\ \A o \in D!up \ {g} : D!RedirectTarget(o, p) = g
    BY ZenonT(60) DEF D!OneServes
  <2>1. D!up \in SUBSET Gateways
    BY DEF D!up
  <2>2. Owner[D!up][p] \in D!up
    BY <2>1 DEF D!OwnerInRing
  <2> QED
    BY <2>2, ZenonT(60) DEF D!RedirectTarget
<1> QED
  BY <1>1, <1>2, <1>3, <1>4, PTL DEF D!Spec

=============================================================================
