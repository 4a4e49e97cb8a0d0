------------------------------ MODULE Ordering ------------------------------
(***************************************************************************)
(* Sequence numbers from the publisher to a consumer (internal/sequencer,  *)
(* internal/feed): the pipeline numbers every quote with the in-memory     *)
(* Sequencer, messages travel and may be lost, repeated or reordered, and  *)
(* a Validator judges each one that arrives.  Both sides forget symbols    *)
(* that were idle for their TTL, in a sweep that a call triggers.  Reset   *)
(* is called by tests only and left out.                                   *)
(***************************************************************************)
EXTENDS Integers, FiniteSets, FiniteSetsExt

CONSTANTS
    Symbols,
    MaxSeq,       \* bound: messages per symbol
    MaxCopies,    \* bound: deliveries in all
    Idle,         \* symbols may be idle for their TTL
    Reorder,      \* messages may arrive in another order
    FirstLost     \* the first message of a symbol may be lost

VARIABLES
    seqs,        \* generator: symbol -> last number, 0 = no entry
    genIdle,     \* symbols whose entry has expired
    assigned,    \* pairs <<symbol, number>> assigned
    restarted,   \* a number was assigned twice
    flight,      \* messages that may be delivered
    stats,       \* validator: symbol -> stats, absent = fresh
    valIdle,     \* symbols whose stats have expired
    seen,        \* messages delivered since the validator's entry was made
    base,        \* first number of that entry
    missing,     \* sum of the Missing fields reported for that entry
    result       \* result and message of the latest Validate

gen == <<seqs, genIdle, assigned, restarted>>
val == <<stats, valIdle, seen, base, missing, result>>
vars == <<gen, flight, val>>

Fresh == [total |-> 0, gaps |-> 0, outOfOrder |-> 0, duplicates |-> 0, latest |-> 0]
None == [kind |-> "none", symbol |-> CHOOSE s \in Symbols : TRUE, seq |-> 0,
         again |-> FALSE]

Init ==
    /\ seqs = [s \in Symbols |-> 0] /\ genIdle = {} /\ assigned = {}
    /\ restarted = FALSE /\ flight = {}
    /\ stats = [s \in Symbols |-> Fresh] /\ valIdle = {}
    /\ seen = [s \in Symbols |-> {}] /\ base = [s \in Symbols |-> 0]
    /\ missing = [s \in Symbols |-> 0] /\ result = None

-----------------------------------------------------------------------------
(* Publisher                                                               *)

\* The sweep at the end of Next: not due, or it removes every expired entry.
maybeEvict(m, idle) ==
    \/ seqs' = m /\ genIdle' = idle
    \/ /\ idle # {} /\ genIdle' = {}
       /\ seqs' = [s \in Symbols |-> IF s \in idle THEN 0 ELSE m[s]]

\* Pipeline.Run: one quote of s is numbered and published.
NextSeq(s) ==
    LET n == seqs[s] + 1 IN
    /\ Cardinality({p \in assigned : p[1] = s}) < MaxSeq /\ n <= MaxSeq
    /\ maybeEvict([seqs EXCEPT ![s] = n], genIdle \ {s})
    /\ assigned' = assigned \union {<<s, n>>}
    /\ restarted' = (restarted \/ <<s, n>> \in assigned)
    /\ flight' = flight \union {<<s, n>>}
    /\ UNCHANGED val

\* No quote of s for the TTL.
GeneratorIdle(s) ==
    /\ Idle /\ seqs[s] > 0 /\ genIdle' = genIdle \union {s}
    /\ UNCHANGED <<seqs, assigned, restarted, flight, val>>

-----------------------------------------------------------------------------
(* Consumer                                                                *)

\* Mutation: a repeated message is not counted as one.
Judge_NoDup(st, n) ==
    CASE st.latest = 0          -> <<"ok", [st EXCEPT !.latest = n], 0>>
      [] n = st.latest          -> <<"duplicate", st, 0>>
      [] n < st.latest          -> <<"outOfOrder", [st EXCEPT !.outOfOrder = @ + 1], 0>>
      [] n = st.latest + 1      -> <<"ok", [st EXCEPT !.latest = n], 0>>
      [] OTHER -> <<"ok", [st EXCEPT !.latest = n, !.gaps = @ + 1], n - st.latest - 1>>

\* The judgement of one number: result, new stats, and GapInfo.Missing.
Judge(st, n) ==
    CASE st.latest = 0          -> <<"ok", [st EXCEPT !.latest = n], 0>>
      [] n = st.latest          -> <<"duplicate", [st EXCEPT !.duplicates = @ + 1], 0>>
      [] n < st.latest          -> <<"outOfOrder", [st EXCEPT !.outOfOrder = @ + 1], 0>>
      [] n = st.latest + 1      -> <<"ok", [st EXCEPT !.latest = n], 0>>
      [] OTHER -> <<"ok", [st EXCEPT !.latest = n, !.gaps = @ + 1], n - st.latest - 1>>

\* Validate, after the sweep of the expired entries in ev.
ValidateAfter(ev, s, n) ==
    LET old  == IF s \in ev THEN Fresh ELSE stats[s]
        j    == Judge([old EXCEPT !.total = @ + 1], n)
        kept == [t \in Symbols |-> IF t \in ev THEN Fresh ELSE stats[t]]
        Clear(f, v) == [t \in Symbols |-> IF t \in ev THEN v ELSE f[t]]
    IN /\ stats' = [kept EXCEPT ![s] = j[2]]
       /\ valIdle' = (valIdle \ ev) \ {s}
       /\ seen' = [Clear(seen, {}) EXCEPT ![s] = @ \union {n}]
       /\ base' = [Clear(base, 0) EXCEPT ![s] = IF old.latest = 0 THEN n ELSE @]
       /\ missing' = [Clear(missing, 0) EXCEPT ![s] = @ + j[3]]
       /\ result' = [kind |-> j[1], symbol |-> s, seq |-> n,
                     again |-> s \notin ev /\ n \in seen[s]]

\* A message arrives (and may arrive again): the sweep is due, or not.
Validate(s, n) ==
    /\ <<s, n>> \in flight
    /\ SumFunction([t \in Symbols |-> stats[t].total]) < MaxCopies
    /\ Reorder \/ \A p \in flight : p[1] = s => n <= p[2]
    /\ \E ev \in {{}, valIdle} : ValidateAfter(ev, s, n)
    /\ UNCHANGED <<gen, flight>>

ValidatorIdle(s) ==
    /\ Idle /\ stats[s].latest > 0 /\ valIdle' = valIdle \union {s}
    /\ UNCHANGED <<gen, flight, stats, seen, base, missing, result>>

\* The message is gone: lost, or delivered as often as it will be.
Gone(s, n) ==
    /\ <<s, n>> \in flight /\ flight' = flight \ {<<s, n>>}
    /\ FirstLost \/ n > 1 \/ n \in seen[s]
    /\ UNCHANGED <<gen, val>>

Next ==
    \E s \in Symbols :
        \/ NextSeq(s) \/ GeneratorIdle(s) \/ ValidatorIdle(s)
        \/ \E n \in 1..MaxSeq : Validate(s, n) \/ Gone(s, n)

Spec == Init /\ [][Next]_vars

-----------------------------------------------------------------------------

\* Type invariant of generator and validator.
TypeOK ==
    /\ seqs \in [Symbols -> 0..MaxSeq] /\ genIdle \subseteq Symbols
    /\ flight \subseteq assigned /\ restarted \in BOOLEAN
    /\ \A s \in Symbols :
         /\ \A f \in DOMAIN Fresh : stats[s][f] \in Nat
         /\ seen[s] \subseteq 1..MaxSeq
         /\ base[s] \in 0..MaxSeq /\ missing[s] \in Nat

\* The books of the validator balance under loss, repetition and reordering:
\* the messages it accepted and those it reported missing fill the numbers from
\* the first to the latest without overlap.
Accounted ==
    \A s \in Symbols : LET st == stats[s] IN
        st.latest > 0 =>
            st.total - st.duplicates - st.outOfOrder + missing[s]
                = st.latest - base[s] + 1

\* LatestSeq is the greatest number seen.
LatestIsGreatest ==
    \A s \in Symbols : stats[s].latest > 0 => stats[s].latest = Max(seen[s])

\* Every number below the latest one that never arrived was reported missing.
LossDetected ==
    \A s \in Symbols : stats[s].latest > 0 =>
        Cardinality(1..stats[s].latest \ seen[s]) <= missing[s]

\* A number is assigned at most once to a symbol.
\* The code does not have this property: README, section 5.
NumbersIncrease == ~restarted

\* A message that was seen before is reported as a duplicate.
\* The code does not have this property: README, section 5.
DuplicateReported == result.again => result.kind = "duplicate"
=============================================================================
