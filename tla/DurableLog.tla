----------------------------- MODULE DurableLog -----------------------------
(***************************************************************************)
(* What a write-ahead log promises, without segments, buffers, files or    *)
(* readers: messages are numbered as they are appended; some of them, the  *)
(* oldest ones, are durable; a crash loses the others and nothing else;    *)
(* and the oldest durable ones may be given up.  Implemented by WAL.       *)
(***************************************************************************)
EXTENDS Naturals, Sequences

VARIABLES durable,    \* the messages that survive a crash, oldest first
          volatile    \* the messages appended after them

Init == durable = <<>> /\ volatile = <<>>

\* The k oldest volatile messages become durable, and then new is appended.
Moved(k, new) ==
    /\ durable' = durable \o SubSeq(volatile, 1, k)
    /\ volatile' = SubSeq(volatile, k + 1, Len(volatile)) \o new

Harden == \E k \in 1..Len(volatile) : Moved(k, <<>>)

\* A message with a number above all others is appended.
Write ==
    /\ volatile' # <<>>
    /\ LET m == volatile'[Len(volatile')]
       IN  /\ \A k \in DOMAIN durable : durable[k] < m
           /\ \A k \in DOMAIN volatile : volatile[k] < m
           /\ \E k \in 0..Len(volatile) : Moved(k, <<m>>)

\* The process dies.
Lose == volatile' = <<>> /\ UNCHANGED durable

\* The oldest messages are no longer kept.
Trim ==
    /\ \E k \in 1..Len(durable) : durable' = SubSeq(durable, k + 1, Len(durable))
    /\ UNCHANGED volatile

Next == Write \/ Harden \/ Lose \/ Trim
Spec == Init /\ [][Next]_<<durable, volatile>>
=============================================================================
