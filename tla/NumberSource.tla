---------------------------- MODULE NumberSource ----------------------------
(***************************************************************************)
(* What the processes of a cluster may expect of the sequence numbers of a *)
(* symbol, without blocks, a counter in Redis, failures or restarts: no    *)
(* number is handed out twice, and the numbers of one process grow.        *)
(* Nothing is said about the order between processes.  Implemented by      *)
(* RedisSequencer.                                                         *)
(***************************************************************************)
EXTENDS Integers

VARIABLE issued    \* pairs <<process, number>> handed out

Init == issued = {}

\* The pair p is new: nobody has its number, and its process only smaller ones.
Fresh(p) == \A q \in issued : q[2] # p[2] /\ (q[1] = p[1] => q[2] < p[2])

Next == \E p \in issued' : issued' = issued \union {p} /\ Fresh(p)

Spec == Init /\ [][Next]_issued
=============================================================================
