-------------------------- MODULE DropOldestQueue --------------------------
(***************************************************************************)
(* What a drop-oldest buffer promises, without slots, indices or locks: a  *)
(* bounded FIFO of the most recent items.  Items are numbered in the order *)
(* in which they are enqueued.  Implemented by BackpressureChannel.        *)
(***************************************************************************)
EXTENDS Naturals, Sequences

CONSTANT Cap            \* number of items the queue holds

VARIABLES pending,      \* the items held, oldest first
          next          \* number of the next item

Init == pending = <<>> /\ next = 0

\* A full queue makes room by giving up its oldest item.
Enqueue ==
    /\ pending' = Append(IF Len(pending) = Cap THEN Tail(pending) ELSE pending, next)
    /\ next' = next + 1

Dequeue ==
    /\ pending # <<>>
    /\ pending' = Tail(pending)
    /\ UNCHANGED next

Next == Enqueue \/ Dequeue
Spec == Init /\ [][Next]_<<pending, next>>
=============================================================================
