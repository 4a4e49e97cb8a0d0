------------------------------- MODULE Feed -------------------------------
(***************************************************************************)
(* The feed side: the exchange Manager that starts its adapters and merges *)
(* their channels (internal/exchange), the adapters (internal/adapters),   *)
(* the normalisation each forwarder applies (internal/normalization) and   *)
(* the Pipeline that numbers and publishes quotes (internal/feed).  A      *)
(* symbol is a name with its letter case and its separator, which is what  *)
(* normalisation changes.  The two channels of the simulator's adapter are *)
(* one here, which drops where the first one does.                         *)
(***************************************************************************)
EXTENDS Integers, Sequences, FiniteSets, SequencesExt, FiniteSetsExt

CONSTANTS
    ConfigSets,     \* sequences of [kind, enabled, symbols]
    OutCap,         \* capacity of an adapter's channel (100 in the code)
    MergedCap,      \* capacity of the merged channel (10000)
    MaxTicks        \* bound: ticks per adapter

VARIABLES
    configs,
    run,        \* Manager.Run: the adapter it is at, and the step
    subs,       \* adapter -> symbols subscribed
    gen,        \* adapter -> its goroutine: [at, batch, ticks, sent]
    out,        \* adapter -> its channel
    outClosed,  \* adapters whose channel is closed
    fwd,        \* adapter -> its forwarder: [at, quote]
    merged, mergedClosed,
    pipe,       \* Pipeline.Run: "loop" or "done"
    seq,        \* canonical symbol -> last number
    published, cancelled

vars == <<configs, run, subs, gen, out, outClosed, fwd, merged, mergedClosed, pipe, seq,
          published, cancelled>>

\* NewManager: one adapter for each enabled configuration, in their order.
Enabled(cs) == SelectSeq([i \in 1..Len(cs) |-> i], LAMBDA i : cs[i].enabled)
Adapters == 1..Len(Enabled(configs))
Kind(a) == configs[Enabled(configs)[a]].kind

NoQuote == [from |-> 0, n |-> 0, sym |-> [name |-> "", lower |-> FALSE, slash |-> FALSE], price |-> 0]

Init ==
    /\ configs \in ConfigSets
    /\ run = [at |-> "connect", i |-> 1]
    /\ subs = [a \in Adapters |-> <<>>]
    /\ gen = [a \in Adapters |-> [at |-> "off", batch |-> <<>>, ticks |-> 0, sent |-> 0]]
    /\ out = [a \in Adapters |-> <<>>] /\ outClosed = {}
    /\ fwd = [a \in Adapters |-> [at |-> "off", quote |-> NoQuote]]
    /\ merged = <<>> /\ mergedClosed = FALSE /\ pipe = "loop"
    /\ seq = [s \in {} |-> 0] /\ published = <<>> /\ cancelled = FALSE

Cancel ==
    /\ ~cancelled /\ cancelled' = TRUE
    /\ UNCHANGED <<configs, run, subs, gen, out, outClosed, fwd, merged, mergedClosed, pipe, seq, published>>

--------------------------------------------------------------------------
(* Manager.Run                                                             *)

\* Connect fails only by a cancelled context, and never for the simulator.
Connect ==
    /\ run.at = "connect" /\ run.i \in Adapters
    /\ \/ run' = [run EXCEPT !.at = "subscribe"]
       \/ cancelled /\ Kind(run.i) # "simulator" /\ run' = [run EXCEPT !.i = @ + 1]
    /\ UNCHANGED <<configs, subs, gen, out, outClosed, fwd, merged, mergedClosed, pipe, seq,
                   published, cancelled>>

\* Subscribe to the symbols of configs[i], where i counts the adapters.
Subscribe ==
    LET a == run.i  syms == configs[a].symbols IN
    /\ run.at = "subscribe" /\ run' = [run EXCEPT !.at = "run"]
    /\ subs' = [subs EXCEPT ![a] = IF Kind(a) = "simulator"
                                   THEN @ \o SelectSeq(syms, LAMBDA s : s \notin ToSet(subs[a]))
                                   ELSE @ \o syms]
    /\ UNCHANGED <<configs, gen, out, outClosed, fwd, merged, mergedClosed, pipe, seq, published, cancelled>>

\* adapter.Run starts its goroutine; the forwarder is counted and started.
Run ==
    LET a == run.i IN
    /\ run.at = "run" /\ run' = [at |-> "connect", i |-> a + 1]
    /\ gen' = [gen EXCEPT ![a].at = "tick"] /\ fwd' = [fwd EXCEPT ![a].at = "receive"]
    /\ UNCHANGED <<configs, subs, out, outClosed, merged, mergedClosed, pipe, seq, published, cancelled>>

\* Mutation: the channel is closed as soon as all adapters were started.
CloseMerged_NoWait ==
    /\ run.at = "connect" /\ run.i \notin Adapters /\ ~mergedClosed
    /\ mergedClosed' = TRUE
    /\ UNCHANGED <<configs, run, subs, gen, out, outClosed, fwd, merged, pipe, seq, published, cancelled>>

\* The last goroutine of Run: wait for the forwarders, then close; without
\* adapters Run closes the channel itself.
CloseMerged ==
    /\ run.at = "connect" /\ run.i \notin Adapters /\ ~mergedClosed
    /\ \A a \in Adapters : fwd[a].at \in {"off", "done"}
    /\ mergedClosed' = TRUE
    /\ UNCHANGED <<configs, run, subs, gen, out, outClosed, fwd, merged, pipe, seq, published, cancelled>>

--------------------------------------------------------------------------
(* Adapters                                                                *)

\* A tick: a quote for every subscribed symbol is due.
Tick(a) ==
    /\ gen[a].at = "tick" /\ gen[a].ticks < MaxTicks
    /\ gen' = [gen EXCEPT ![a].at = "emit", ![a].batch = subs[a], ![a].ticks = @ + 1]
    /\ UNCHANGED <<configs, run, subs, out, outClosed, fwd, merged, mergedClosed, pipe, seq,
                   published, cancelled>>

\* The next quote of the batch; the simulator drops it at a full channel, the
\* others wait.  A simulated price of zero is a symbol that was unsubscribed
\* after the tick began.
Emit(a) ==
    \E price \in (IF Kind(a) = "simulator" THEN {0, 1} ELSE {1}) :
    LET q == [from |-> a, n |-> gen[a].sent + 1, sym |-> Head(gen[a].batch), price |-> price] IN
    /\ gen[a].at = "emit" /\ gen[a].batch # <<>>
    /\ \/ /\ Len(out[a]) < OutCap /\ out' = [out EXCEPT ![a] = Append(@, q)]
          /\ gen' = [gen EXCEPT ![a].batch = Tail(@), ![a].sent = @ + 1]
       \/ /\ Len(out[a]) = OutCap /\ Kind(a) = "simulator" /\ ~cancelled
          /\ gen' = [gen EXCEPT ![a].batch = Tail(@)] /\ UNCHANGED out
    /\ UNCHANGED <<configs, run, subs, outClosed, fwd, merged, mergedClosed, pipe, seq, published, cancelled>>

BatchDone(a) ==
    /\ gen[a].at = "emit" /\ gen[a].batch = <<>> /\ gen' = [gen EXCEPT ![a].at = "tick"]
    /\ UNCHANGED <<configs, run, subs, out, outClosed, fwd, merged, mergedClosed, pipe, seq,
                   published, cancelled>>

\* The adapter's goroutine sees the cancelled context and closes its channel.
AdapterEnds(a) ==
    /\ cancelled /\ gen[a].at \in {"tick", "emit"}
    /\ gen' = [gen EXCEPT ![a].at = "done"] /\ outClosed' = outClosed \cup {a}
    /\ UNCHANGED <<configs, run, subs, out, fwd, merged, mergedClosed, pipe, seq, published, cancelled>>

--------------------------------------------------------------------------
(* Forwarders                                                              *)

\* Upper case, and a dash for every slash.
Canonical(s) == [s EXCEPT !.lower = FALSE, !.slash = FALSE]

\* The rules that can fail for what the mappers produce: type, volume and
\* timestamp are always set.
Validate(q) == q.sym.name # "" /\ q.price > 0

Forward(a) ==
    LET raw == Head(out[a])  q == [raw EXCEPT !.sym = Canonical(@)] IN
    /\ fwd[a].at = "receive" /\ out[a] # <<>>
    /\ out' = [out EXCEPT ![a] = Tail(@)]
    /\ fwd' = IF Validate(q) THEN [fwd EXCEPT ![a] = [at |-> "send", quote |-> q]] ELSE fwd
    /\ UNCHANGED <<configs, run, subs, gen, outClosed, merged, mergedClosed, pipe, seq, published, cancelled>>

Send(a) ==
    /\ fwd[a].at = "send" /\ Len(merged) < MergedCap
    /\ merged' = Append(merged, fwd[a].quote)
    /\ fwd' = [fwd EXCEPT ![a] = [at |-> "receive", quote |-> NoQuote]]
    /\ UNCHANGED <<configs, run, subs, gen, out, outClosed, mergedClosed, pipe, seq, published, cancelled>>

\* The forwarder returns: its channel is drained and closed, or the context is
\* cancelled, also with a quote in hand.
ForwarderEnds(a) ==
    /\ \/ fwd[a].at = "receive" /\ out[a] = <<>> /\ a \in outClosed
       \/ fwd[a].at \in {"receive", "send"} /\ cancelled
    /\ fwd' = [fwd EXCEPT ![a].at = "done"]
    /\ UNCHANGED <<configs, run, subs, gen, out, outClosed, merged, mergedClosed, pipe, seq,
                   published, cancelled>>

--------------------------------------------------------------------------
(* Pipeline.Run                                                            *)

\* seq.Next, then publish.
Publish ==
    LET q == Head(merged)
        last == IF q.sym \in DOMAIN seq THEN seq[q.sym] ELSE 0
    IN
    /\ pipe = "loop" /\ run.i \notin Adapters /\ merged # <<>>
    /\ merged' = Tail(merged)
    /\ seq' = [s \in DOMAIN seq \cup {q.sym} |-> IF s = q.sym THEN last + 1 ELSE seq[s]]
    /\ published' = Append(published, [q |-> q, seq |-> last + 1])
    /\ UNCHANGED <<configs, run, subs, gen, out, outClosed, fwd, mergedClosed, pipe, cancelled>>

\* The channel is drained and closed, or the context is cancelled.
PipelineEnds ==
    /\ pipe = "loop" /\ run.i \notin Adapters
    /\ cancelled \/ (mergedClosed /\ merged = <<>>)
    /\ pipe' = "done"
    /\ UNCHANGED <<configs, run, subs, gen, out, outClosed, fwd, merged, mergedClosed, seq,
                   published, cancelled>>

Next ==
    \/ Cancel \/ Connect \/ Subscribe \/ Run \/ CloseMerged \/ Publish \/ PipelineEnds
    \/ \E a \in Adapters : Tick(a) \/ Emit(a) \/ BatchDone(a) \/ AdapterEnds(a)
                           \/ Forward(a) \/ Send(a) \/ ForwarderEnds(a)

Spec == Init /\ [][Next]_vars
--------------------------------------------------------------------------
\* No forwarder is left to send once the merged channel is closed
\* (Run's wait group).
NoSendAfterClose == mergedClosed => \A a \in Adapters : fwd[a].at # "send"

From(a, qs) == SelectSeq(qs, LAMBDA q : q.from = a)
Downstream(a) ==
    From(a, [i \in 1..Len(published) |-> published[i].q] \o merged)
    \o (IF fwd[a].at = "send" THEN <<fwd[a].quote>> ELSE <<>>)

\* Before cancellation, what an adapter put on its channel arrives in its order
\* and is complete but for the quotes the validator refuses, whatever other
\* adapters do.
FeedComplete ==
    \A a \in Adapters :
        LET d == Downstream(a)  ns == {d[i].n : i \in 1..Len(d)} IN
        /\ \A i \in 1..Len(d) - 1 : d[i].n < d[i+1].n
        /\ \A i \in 1..Len(out[a]) : ns = {} \/ Max(ns) < out[a][i].n
        /\ (~cancelled /\ Kind(a) # "simulator" /\ \A i \in 1..Len(subs[a]) : subs[a][i].name # "")
             => Len(d) + Len(out[a]) = gen[a].sent

\* All spellings of a symbol share one gap-free numbering in the order of
\* publication, and a spelling that is not canonical is never published.
NumbersGapFree ==
    \A i \in 1..Len(published) :
        /\ published[i].q.sym = Canonical(published[i].q.sym)
        /\ published[i].seq = Cardinality({j \in 1..i : published[j].q.sym = published[i].q.sym})

\* With all configurations enabled an adapter gets the symbols configured for it.
SymbolsAsConfigured ==
    (\A i \in 1..Len(configs) : configs[i].enabled) =>
        \A a \in Adapters : subs[a] # <<>> => ToSet(subs[a]) = ToSet(configs[a].symbols)

FeedExact == NoSendAfterClose /\ FeedComplete /\ NumbersGapFree /\ SymbolsAsConfigured
=============================================================================
