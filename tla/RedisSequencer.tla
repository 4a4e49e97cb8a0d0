---------------------------- MODULE RedisSequencer ----------------------------
(***************************************************************************)
(* The distributed sequence generator (internal/sequencer): every process  *)
(* takes blocks of numbers from a Redis counter with INCRBY and hands them *)
(* out locally.  Symbols are independent, so one symbol is modelled.  A    *)
(* process may crash and lose its block, and Redis may fail.               *)
(***************************************************************************)
EXTENDS Integers

CONSTANTS
    Instances,
    blockSize,
    MaxKey,      \* bound: the counter is not raised beyond this
    Resets       \* Reset, ResetSymbols and SetTTL may be called

ASSUME SequencerAssumption ==
    blockSize \in Nat \ {0} /\ MaxKey \in Nat /\ Resets \in BOOLEAN

VARIABLES
    key,       \* the Redis counter, 0 = no key
    block,     \* instance -> current and max of its block
    last,      \* instance -> result of its latest Next
    issued,    \* pairs <<instance, number>> handed out since the last reset
    dup,       \* some number was handed out twice
    scanning   \* instances between the two halves of resetAll

vars == <<key, block, last, issued, dup, scanning>>

NoBlock == [current |-> 0, max |-> 0]

Init ==
    /\ key = 0 /\ block = [i \in Instances |-> NoBlock]
    /\ last = [i \in Instances |-> 0] /\ issued = {} /\ dup = FALSE /\ scanning = {}

\* n is returned to instance i's caller.
Issue(i, n) ==
    /\ last' = [last EXCEPT ![i] = n]
    /\ issued' = issued \union {<<i, n>>}
    /\ dup' = (dup \/ \E p \in issued : p[2] = n)
    /\ UNCHANGED scanning

\* Mutation: the block is handed out from its end.
NextLocal_Down(i) ==
    /\ block[i].current < block[i].max
    /\ block' = [block EXCEPT ![i].max = @ - 1]
    /\ Issue(i, block[i].max) /\ UNCHANGED key

\* Mutation: the number is read before it is incremented.
NextLocal_Post(i) ==
    /\ block[i].current < block[i].max
    /\ block' = [block EXCEPT ![i].current = @ + 1]
    /\ Issue(i, block[i].current) /\ UNCHANGED key

\* Next from the local block.
NextLocal(i) ==
    /\ block[i].current < block[i].max
    /\ block' = [block EXCEPT ![i].current = @ + 1]
    /\ Issue(i, block[i].current + 1) /\ UNCHANGED key

\* Next with an exhausted block: INCRBY, then the first number of the new one.
NextFetch(i) ==
    /\ block[i].current >= block[i].max /\ key + blockSize <= MaxKey
    /\ key' = key + blockSize
    /\ block' = [block EXCEPT ![i] = [current |-> key + 1, max |-> key + blockSize]]
    /\ Issue(i, key + 1)

\* Redis fails: Next returns 0.
NextFails(i) ==
    /\ block[i].current >= block[i].max /\ last' = [last EXCEPT ![i] = 0]
    /\ UNCHANGED <<key, block, issued, dup, scanning>>

Restart(i) ==
    /\ block' = [block EXCEPT ![i] = NoBlock] /\ last' = [last EXCEPT ![i] = 0]
    /\ UNCHANGED <<key, issued, dup, scanning>>

\* resetAll: the local blocks under the lock, ...
ResetBlocks(i) ==
    /\ Resets /\ i \notin scanning /\ scanning' = scanning \union {i}
    /\ block' = [block EXCEPT ![i] = NoBlock]
    /\ UNCHANGED <<key, last, issued, dup>>

\* The key is deleted and a new sequence begins, unless Redis fails.
Deleted == (key' = 0 /\ issued' = {}) \/ UNCHANGED <<key, issued>>

\* ... then the keys, without it.
ResetScan(i) ==
    /\ i \in scanning /\ scanning' = scanning \ {i} /\ Deleted
    /\ UNCHANGED <<block, last, dup>>

\* ResetSymbols: block and key in one critical section.
ResetSymbols(i) ==
    /\ Resets /\ block' = [block EXCEPT ![i] = NoBlock] /\ Deleted
    /\ UNCHANGED <<last, dup, scanning>>

\* The key expires some time after SetTTL; the blocks stay.
SetTTL(i) ==
    /\ Resets /\ Deleted /\ UNCHANGED <<block, last, dup, scanning>>

Next ==
    \E i \in Instances :
        \/ NextLocal(i) \/ NextFetch(i) \/ NextFails(i) \/ Restart(i)
        \/ ResetBlocks(i) \/ ResetScan(i) \/ ResetSymbols(i) \/ SetTTL(i)

Spec == Init /\ [][Next]_vars

-----------------------------------------------------------------------------

\* Type invariant; a block is never used beyond its maximum.
TypeOK ==
    /\ key \in Nat
    /\ block \in [Instances -> [current : Nat, max : Nat]]
    /\ \A i \in Instances : block[i].current <= block[i].max
    /\ last \in [Instances -> Nat] /\ issued \subseteq Instances \X Nat
    /\ dup \in BOOLEAN /\ scanning \subseteq Instances

\* No two calls of Next return the same number, whichever processes make them
\* and whatever blocks were lost in crashes.
Unique == ~dup

\* The numbers one process returns grow, over its restarts too.
InstanceMonotonic ==
    [][\A p \in issued' \ issued : \A q \in issued :
          q[1] = p[1] => q[2] < p[2]]_vars

\* Without resets the processes together are a source of numbers as callers know
\* it: whatever blocks, failures and restarts do, each call of Next hands out one
\* number that nobody had, above those its process had (RedisSequencer.Next).
Source == INSTANCE NumberSource
SequencerIsSource == Source!Spec

\* The numbers of the symbol grow in the order in which they are assigned.
\* The code does not have this property: README, section 5.
Monotonic ==
    [][\A p \in issued' \ issued : \A q \in issued : q[2] < p[2]]_vars

\* What makes Unique inductive: a number that is still in the rest of a block
\* was issued to nobody and is in no other block, and none is above the counter.
Rest(i) == (block[i].current + 1)..block[i].max
BlocksDisjoint ==
    /\ \A i \in Instances : block[i].max <= key
    /\ \A p \in issued : p[2] <= key /\ (\A i \in Instances : p[2] \notin Rest(i))
    /\ \A i, j \in Instances : i # j => Rest(i) \intersect Rest(j) = {}
=============================================================================
