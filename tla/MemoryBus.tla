----------------------------- MODULE MemoryBus -----------------------------
(***************************************************************************)
(* The in-memory bus (pubsub/memory.go) for one symbol; the lists of       *)
(* several symbols differ only in being filtered under one lock.  Publish  *)
(* walks a slice it copied under the read lock while Cancel filters the    *)
(* same backing array in place, so arrays and slices are modelled as Go    *)
(* has them: a slice is an array, a length and the array's capacity.       *)
(***************************************************************************)
EXTENDS Naturals, Sequences, FiniteSets, SequencesExt

CONSTANTS
    MaxSubs,        \* bound: calls of Subscribe
    Pubs,           \* goroutines that publish
    Buffer,         \* channelBuffer
    MaxEvents       \* bound: events published

VARIABLES
    arrays,     \* backing arrays, each a sequence of subscribers as long as its capacity
    list,       \* subscribers[sym]: [arr, len], arr = 0 for no key
    lock,       \* the subscriber whose Cancel holds mu
    snapshot,   \* snapshot[sym], 0 for none
    sub,        \* the subscribers, numbered as they subscribe: see NewSub
    pub,        \* publisher -> its state, see Idle
    published, panicked

vars == <<arrays, list, lock, snapshot, sub, pub, published, panicked>>

Nobody == 0
Subs == DOMAIN sub
NoList == [arr |-> 0, len |-> 0]
NewSub == [pc |-> "snapshot", queued |-> 0, flag |-> FALSE, chClosed |-> FALSE,
           offered |-> {}, i |-> 0, j |-> 0]
Idle == [pc |-> "idle", ev |-> 0, slice |-> NoList, i |-> 0, e |-> Nobody,
         due |-> {}, reached |-> <<>>, moved |-> FALSE]

Init ==
    /\ arrays = <<>> /\ list = NoList /\ lock = Nobody /\ snapshot = 0
    /\ sub = <<>> /\ pub = [p \in Pubs |-> Idle]
    /\ published = 0 /\ panicked = FALSE

\* A non-blocking send to s: its new state.  A full channel drops the event.
Offer(s, ev) ==
    [sub[s] EXCEPT !.queued = IF @ < Buffer THEN @ + 1 ELSE @, !.offered = @ \cup {ev}]

--------------------------------------------------------------------------
(* Subscribe and Cancel                                                    *)

\* append: in place when there is room, else into a new array of twice the size.
Grown(arr, s) ==
    IF arr = <<>> THEN <<s>>
    ELSE [i \in 1..2 * Len(arr) |-> IF i <= Len(arr) THEN arr[i]
                                    ELSE IF i = Len(arr) + 1 THEN s ELSE Nobody]

SubscribeAppend ==
    LET s == Len(sub) + 1
        old == IF list.arr = 0 THEN <<>> ELSE arrays[list.arr]
        n == list.len + 1
    IN
    /\ s <= MaxSubs /\ lock = Nobody
    /\ IF list.arr # 0 /\ n <= Len(old)
       THEN /\ arrays' = [arrays EXCEPT ![list.arr][n] = s]
            /\ list' = [list EXCEPT !.len = n]
       ELSE /\ arrays' = Append(arrays, Grown(old, s))
            /\ list' = [arr |-> Len(arrays'), len |-> n]
    /\ sub' = Append(sub, NewSub)
    /\ UNCHANGED <<lock, snapshot, pub, published, panicked>>

\* The last event is sent under snapshotMu, and Subscribe returns.
SubscribeSnapshot(s) ==
    /\ sub[s].pc = "snapshot"
    /\ sub' = [sub EXCEPT ![s] = [(IF snapshot = 0 THEN @ ELSE Offer(s, snapshot))
                                  EXCEPT !.pc = "on"]]
    /\ UNCHANGED <<arrays, list, lock, snapshot, pub, published, panicked>>

\* Cancel: unsubscribe takes the lock and starts its in-place filter.
Cancel(s) ==
    /\ sub[s].pc = "on" /\ lock = Nobody
    /\ lock' = s
    /\ sub' = [sub EXCEPT ![s].pc = "filter", ![s].i = 1, ![s].j = 0]
    /\ UNCHANGED <<arrays, list, snapshot, pub, published, panicked>>

\* One entry of the filter: keep it, at its new place, or mark it closed.
CancelFilter(s) ==
    LET e == arrays[list.arr][sub[s].i] IN
    /\ sub[s].pc = "filter" /\ sub[s].i <= list.len
    /\ IF e # s
       THEN /\ arrays' = [arrays EXCEPT ![list.arr][sub[s].j + 1] = e]
            /\ sub' = [sub EXCEPT ![s].i = @ + 1, ![s].j = @ + 1]
       ELSE sub' = [sub EXCEPT ![s].i = @ + 1, ![s].flag = TRUE] /\ UNCHANGED arrays
    /\ pub' = [p \in Pubs |-> IF pub[p].slice.arr = list.arr
                              THEN [pub[p] EXCEPT !.moved = TRUE] ELSE pub[p]]
    /\ UNCHANGED <<list, lock, snapshot, published, panicked>>

\* The filtered slice, or no key, is stored and the lock released.
CancelStore(s) ==
    /\ sub[s].pc = "filter" /\ sub[s].i > list.len
    /\ list' = IF sub[s].j = 0 THEN NoList ELSE [list EXCEPT !.len = sub[s].j]
    /\ lock' = Nobody /\ sub' = [sub EXCEPT ![s].pc = "close", ![s].i = 0, ![s].j = 0]
    /\ UNCHANGED <<arrays, snapshot, pub, published, panicked>>

\* close(sendCh).  What its reader still drains concerns nobody else.
CancelClose(s) ==
    /\ sub[s].pc = "close"
    /\ sub' = [sub EXCEPT ![s] = [NewSub EXCEPT !.pc = "off", !.flag = TRUE, !.chClosed = TRUE]]
    /\ UNCHANGED <<arrays, list, lock, snapshot, pub, published, panicked>>

Receive(s) ==
    /\ sub[s].queued > 0 /\ sub' = [sub EXCEPT ![s].queued = @ - 1]
    /\ UNCHANGED <<arrays, list, lock, snapshot, pub, published, panicked>>

--------------------------------------------------------------------------
(* Publish                                                                 *)

\* The snapshot is updated first, under its own lock.
PublishSnapshot(p) ==
    /\ pub[p].pc = "idle" /\ published < MaxEvents
    /\ published' = published + 1 /\ snapshot' = published'
    /\ pub' = [pub EXCEPT ![p] = [Idle EXCEPT !.pc = "read", !.ev = published']]
    /\ UNCHANGED <<arrays, list, lock, sub, panicked>>

\* The slice is copied under the read lock; its array is not.
PublishRead(p) ==
    /\ pub[p].pc = "read" /\ lock = Nobody
    /\ pub' = [pub EXCEPT ![p].pc = "next", ![p].slice = list, ![p].i = 1,
                          ![p].due = {s \in Subs : sub[s].pc \in {"snapshot", "on"}}]
    /\ UNCHANGED <<arrays, list, lock, snapshot, sub, published, panicked>>

\* The next entry and its closed flag; at the end Publish returns.
PublishNext(p) ==
    LET k == pub[p]  e == arrays[k.slice.arr][k.i] IN
    /\ k.pc = "next"
    /\ pub' = [pub EXCEPT ![p] =
           IF k.i > k.slice.len THEN [@ EXCEPT !.pc = "end"]
           ELSE IF sub[e].flag THEN [@ EXCEPT !.i = @ + 1]
           ELSE [@ EXCEPT !.i = @ + 1, !.pc = "send", !.e = e]]
    /\ UNCHANGED <<arrays, list, lock, snapshot, sub, published, panicked>>

\* The send, which panics on a channel closed since.
PublishSend(p) ==
    LET e == pub[p].e IN
    /\ pub[p].pc = "send"
    /\ IF sub[e].chClosed
       THEN panicked' = TRUE /\ pub' = [pub EXCEPT ![p] = Idle] /\ UNCHANGED sub
       ELSE /\ sub' = [sub EXCEPT ![e] = Offer(e, pub[p].ev)]
            /\ pub' = [pub EXCEPT ![p].pc = "next", ![p].reached = Append(@, e)]
            /\ UNCHANGED panicked
    /\ UNCHANGED <<arrays, list, lock, snapshot, published>>

PublishReturn(p) ==
    /\ pub[p].pc = "end" /\ pub' = [pub EXCEPT ![p] = Idle]
    /\ UNCHANGED <<arrays, list, lock, snapshot, sub, published, panicked>>

\* A panic in Publish ends the process.
Next ==
  /\ ~panicked
  /\ \/ SubscribeAppend
     \/ \E s \in Subs : \/ SubscribeSnapshot(s)
                        \/ Cancel(s) \/ CancelFilter(s) \/ CancelStore(s) \/ CancelClose(s)
                        \/ Receive(s)
     \/ \E p \in Pubs : \/ PublishSnapshot(p) \/ PublishRead(p) \/ PublishNext(p)
                        \/ PublishSend(p) \/ PublishReturn(p)

Spec == Init /\ [][Next]_vars
--------------------------------------------------------------------------
Listed == [i \in 1..list.len |-> arrays[list.arr][i]]

\* With the lock free, the list holds every subscriber that has not cancelled,
\* once, and no other, although arrays are shared and reused
\* (Subscribe, unsubscribe).
ListExact ==
    lock = Nobody =>
        /\ IsInjective(Listed)
        /\ ToSet(Listed) = {s \in Subs : sub[s].pc \in {"snapshot", "on"}}

\* A publish that ends offered its event exactly once to every subscriber it
\* found and that stayed, unless a Cancel filtered the same array meanwhile
\* (Publish).
ReachesAll ==
    \A p \in Pubs : (pub[p].pc = "end" /\ ~pub[p].moved) =>
        /\ IsInjective(pub[p].reached)
        /\ \A s \in pub[p].due : sub[s].pc \in {"snapshot", "on"} => s \in ToSet(pub[p].reached)

\* A subscriber whose Subscribe has returned was offered the newest event, live
\* or as its snapshot, once nobody is publishing: there is no window between the
\* snapshot and the list, as long as nobody cancels (Subscribe, Publish).
LatestOffered ==
    (\A p \in Pubs : pub[p].pc = "idle") /\ snapshot # 0 /\ ~panicked
    /\ (\A s \in Subs : sub[s].pc \in {"snapshot", "on"})
        => \A s \in Subs : sub[s].pc = "on" => snapshot \in sub[s].offered

\* All of the above.
Safe == ListExact /\ ReachesAll /\ LatestOffered

\* "Safe for concurrent use": nobody sends on a closed channel, and a publish
\* reaches a subscriber that stays also while another one cancels.
\* The code does not have this property: README, section 5.
ConcurrentUse ==
    /\ ~panicked
    /\ \A p \in Pubs : pub[p].pc = "end" =>
           \A s \in pub[p].due : sub[s].pc \in {"snapshot", "on"} => s \in ToSet(pub[p].reached)
=============================================================================
