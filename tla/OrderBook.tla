----------------------------- MODULE OrderBook -----------------------------
(***************************************************************************)
(* The level-2 order books (internal/orderbook): Apply with its binary     *)
(* search over sorted levels and its depth limit, and the Manager that     *)
(* resets a book from a snapshot, applies increments under the lock of the *)
(* book and publishes each one from a goroutine of its own.  Prices and    *)
(* sizes are integers, so that two prices are equal or differ by more than *)
(* epsilon.                                                                *)
(***************************************************************************)
EXTENDS Integers, Sequences, FiniteSets, SequencesExt, FiniteSetsExt, Bags

CONSTANTS
    Prices, Sizes,
    MaxDepth,       \* levels per side (200 in the code)
    MaxSequence, MaxIncrements, MaxResets   \* bounds: numbers, increments, snapshots

Sides == {"bid", "ask"}
Actions == {"insert", "update", "delete"}
Update == [action : Actions, side : Sides, price : Prices, size : Sizes]

VARIABLES
    book,       \* NoBook, or sequence and the levels of both sides
    going,      \* increments whose publishing goroutine still runs (a bag)
    published,  \* sequence numbers published, in order
    applied,    \* sequence numbers applied since the last reset
    truth,      \* side -> price -> size, as all updates since the reset say
    total,      \* increments applied in all
    cut,        \* a level was pushed out of the full book since the reset
    resets, increments, panicked

vars == <<book, going, published, applied, truth, total, cut, resets, increments, panicked>>

NoLevels == [s \in Sides |-> <<>>]
Flat == [s \in Sides |-> [p \in {} |-> 0]]

Init ==
    /\ book = [sequence |-> 0, levels |-> NoLevels] /\ resets = 0
    /\ going = EmptyBag /\ published = <<>> /\ applied = <<>>
    /\ truth = Flat /\ total = 0 /\ cut = FALSE /\ increments = 0 /\ panicked = FALSE

--------------------------------------------------------------------------
(* applyLevel                                                              *)

Better(side, p, r) == IF side = "bid" THEN p > r ELSE p < r

\* sort.Search: the first level that is not better than the price.
FindLevel(side, levels, price) ==
    Min({i \in 1..Len(levels) : ~Better(side, levels[i].price, price)} \cup {Len(levels) + 1})

Level(u) == [price |-> u.price, size |-> u.size]

\* An update to size zero deletes.
Deletes(u) == u.action = "delete" \/ (u.action = "update" /\ u.size <= 0)

\* A worse price than all of a full side: the code writes past the last level.
OutOfRange(levels, u) ==
    /\ ~Deletes(u) /\ Len(levels) >= MaxDepth
    /\ FindLevel(u.side, levels, u.price) > Len(levels)

\* The levels after one update that is not OutOfRange.
applyLevel(levels, u) ==
    LET idx == FindLevel(u.side, levels, u.price)
        exists == idx <= Len(levels) /\ levels[idx].price = u.price
    IN IF Deletes(u)
       THEN IF exists THEN RemoveAt(levels, idx) ELSE levels
       ELSE IF exists THEN [levels EXCEPT ![idx] = Level(u)]
       ELSE IF Len(levels) < MaxDepth THEN InsertAt(levels, idx, Level(u))
       ELSE Front(InsertAt(levels, idx, Level(u)))

--------------------------------------------------------------------------
(* Manager                                                                 *)

\* InitBook: the book becomes a copy of the snapshot, here with one and the
\* same size on all its levels.
InitBook(seq, bids, asks) ==
    LET size == Max(Sizes)
        prices(s) == IF s = "bid" THEN bids ELSE asks
        sorted(s) == SetToSortSeq(prices(s), LAMBDA p, r : Better(s, p, r))
    IN /\ ~panicked /\ resets < MaxResets /\ resets' = resets + 1
       /\ book' = [sequence |-> seq,
                   levels |-> [s \in Sides |-> [i \in 1..Cardinality(prices(s)) |->
                                   [price |-> sorted(s)[i], size |-> size]]]]
       /\ truth' = [s \in Sides |-> [p \in prices(s) |-> size]]
       /\ applied' = <<>> /\ cut' = FALSE
       /\ UNCHANGED <<going, published, total, increments, panicked>>

\* Apply's check of the sequence number; a book at zero takes any number.
InSequence(seq) == book.sequence = 0 \/ seq = book.sequence + 1

Told(u) ==
    [truth EXCEPT ![u.side] =
        [p \in (IF Deletes(u) THEN DOMAIN @ \ {u.price} ELSE DOMAIN @ \cup {u.price}) |->
            IF p = u.price THEN u.size ELSE @[p]]]

\* ApplyIncrement, with one level update in the increment: apply under the
\* lock, then start the goroutine that publishes.
ApplyIncrement(seq, u) ==
    LET old == book.levels[u.side]
        levels == applyLevel(old, u)
        told == Told(u)
    IN
    /\ ~panicked /\ resets > 0 /\ increments < MaxIncrements
    /\ increments' = increments + 1
    /\ InSequence(seq)
    /\ IF OutOfRange(old, u)
       THEN panicked' = TRUE /\ UNCHANGED <<book, going, applied, truth, total, cut>>
       ELSE /\ book' = [sequence |-> seq, levels |-> [book.levels EXCEPT ![u.side] = levels]]
            /\ going' = going (+) SetToBag({seq})
            /\ applied' = Append(applied, seq) /\ total' = total + 1
            /\ truth' = told
            /\ cut' = (cut \/ Cardinality(DOMAIN told[u.side]) > Len(levels))
            /\ UNCHANGED panicked
    /\ UNCHANGED <<published, resets>>

\* An increment for an unknown book, an old one or one after a gap is refused.
ApplyRefused(seq) ==
    /\ ~panicked /\ increments < MaxIncrements
    /\ resets = 0 \/ ~InSequence(seq)
    /\ increments' = increments + 1
    /\ UNCHANGED <<book, going, published, applied, truth, total, cut, resets, panicked>>

\* PublishIncrement ends, in whatever order the goroutines run.
PublishIncrement(seq) ==
    /\ ~panicked /\ BagIn(seq, going)
    /\ going' = going (-) SetToBag({seq})
    /\ published' = Append(published, seq)
    /\ UNCHANGED <<book, applied, truth, total, cut, resets, increments, panicked>>

Next ==
    \/ \E seq \in 0..MaxSequence, bids, asks \in SUBSET Prices :
         Cardinality(bids) <= MaxDepth /\ Cardinality(asks) <= MaxDepth /\ InitBook(seq, bids, asks)
    \/ \E seq \in 1..MaxSequence, u \in Update : ApplyIncrement(seq, u)
    \/ \E seq \in 1..MaxSequence : ApplyRefused(seq) \/ PublishIncrement(seq)

Spec == Init /\ [][Next]_vars
--------------------------------------------------------------------------
\* Both sides stay sorted without a price twice and within the depth limit, a
\* level has the size that was last sent for its price, and as long as nothing
\* was pushed out of a full side no level is missing (applyLevel).
BookIsTruth ==
    \A s \in Sides : LET l == book.levels[s] IN
        /\ Len(l) <= MaxDepth
        /\ \A i \in 1..Len(l)-1 : Better(s, l[i].price, l[i+1].price)
        /\ \A i \in 1..Len(l) : l[i].price \in DOMAIN truth[s] /\ truth[s][l[i].price] = l[i].size
        /\ ~cut => Len(l) = Cardinality(DOMAIN truth[s])

\* The increments applied since a reset have consecutive numbers that end at the
\* book's, and every one of them is published once, though in any order
\* (Apply, ApplyIncrement).
IncrementsContiguous ==
    /\ \A i \in 1..Len(applied)-1 : applied[i+1] = applied[i] + 1
    /\ applied # <<>> => Last(applied) = book.sequence
    /\ Len(published) + BagCardinality(going) = total
=============================================================================
