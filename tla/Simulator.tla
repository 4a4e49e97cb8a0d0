----------------------------- MODULE Simulator -----------------------------
(***************************************************************************)
(* The market data simulator (pkg/marketdata/simulator): Subscribe and     *)
(* Unsubscribe under its lock while the generator runs, either one         *)
(* goroutine that ticks through a copy of the symbol list, or in unlimited *)
(* mode one hot loop per symbol, with a bounded channel that drops.  A     *)
(* price is positive or zero, the value of a missing map entry; burst      *)
(* timing is left out.                                                     *)
(***************************************************************************)
EXTENDS Integers, Sequences, FiniteSets, SequencesExt

CONSTANTS
    Symbols,
    OutCap,             \* 4096, or 65536 when unlimited
    MaxCalls, MaxQuotes \* bounds: calls of Subscribe and Unsubscribe, quotes made

VARIABLES
    unlimited,  \* Config.Unlimited
    symbols,    \* the subscribed symbols, in order
    prices,     \* symbol -> price
    started,
    gens,       \* goroutine -> what it has yet to emit; "tick" is the fixed-rate one
    out, closed,
    made, got, droppedCount,    \* quotes made, received, dropped
    raced,      \* symbols a tick touched after their Unsubscribe
    calls, cancelled

vars == <<unlimited, symbols, prices, started, gens, out, closed, made, got, droppedCount,
          raced, calls, cancelled>>

Empty == [s \in {} |-> 0]

Init ==
    /\ unlimited \in BOOLEAN
    /\ symbols = <<>> /\ prices = Empty /\ started = FALSE /\ gens = Empty
    /\ out = <<>> /\ closed = FALSE /\ made = 0 /\ got = 0 /\ droppedCount = 0
    /\ raced = {} /\ calls = 0 /\ cancelled = FALSE

\* A symbol with a price is taken to be subscribed already.
Subscribe(s) ==
    /\ calls < MaxCalls /\ calls' = calls + 1
    /\ IF s \in DOMAIN prices THEN UNCHANGED <<symbols, prices>>
       ELSE /\ prices' = [x \in DOMAIN prices \cup {s} |-> IF x = s THEN 1 ELSE prices[x]]
            /\ symbols' = Append(symbols, s)
    /\ UNCHANGED <<unlimited, started, gens, out, closed, made, got, droppedCount, raced, cancelled>>

Unsubscribe(s) ==
    /\ calls < MaxCalls /\ calls' = calls + 1
    /\ prices' = [x \in DOMAIN prices \ {s} |-> prices[x]]
    /\ symbols' = SelectSeq(symbols, LAMBDA x : x # s)
    /\ UNCHANGED <<unlimited, started, gens, out, closed, made, got, droppedCount, raced, cancelled>>

\* Run, once: the goroutine of the fixed rate, or one for each symbol there is.
Run ==
    /\ ~started /\ started' = TRUE
    /\ gens' = IF unlimited THEN [s \in ToSet(symbols) |-> <<s>>] ELSE [g \in {"tick"} |-> <<>>]
    /\ UNCHANGED <<unlimited, symbols, prices, out, closed, made, got, droppedCount, raced, calls, cancelled>>

\* The ticker: copy the symbol list under the read lock.
Tick ==
    /\ ~unlimited /\ "tick" \in DOMAIN gens /\ gens["tick"] = <<>> /\ symbols # <<>>
    /\ made < MaxQuotes
    /\ gens' = [gens EXCEPT !["tick"] = symbols]
    /\ UNCHANGED <<unlimited, symbols, prices, started, out, closed, made, got, droppedCount,
                   raced, calls, cancelled>>

\* The select: a quote goes into the channel, or is dropped when it is full and
\* the context not done.
Offer(s, price) ==
    /\ made < MaxQuotes /\ made' = made + 1
    /\ \/ /\ Len(out) < OutCap /\ out' = Append(out, [sym |-> s, price |-> price])
          /\ UNCHANGED droppedCount
       \/ /\ Len(out) = OutCap /\ ~cancelled /\ droppedCount' = droppedCount + 1
          /\ UNCHANGED out

\* nextPrice writes the entry also when Unsubscribe deleted it meanwhile; zero
\* stays zero, a positive price stays positive.  The goroutine may return at
\* the send.
EmitTick ==
    LET s == Head(gens["tick"])
        price == IF s \in DOMAIN prices THEN prices[s] ELSE 0
    IN
    /\ ~unlimited /\ "tick" \in DOMAIN gens /\ gens["tick"] # <<>>
    /\ prices' = [x \in DOMAIN prices \cup {s} |-> IF x = s THEN price ELSE prices[x]]
    /\ raced' = IF s \in DOMAIN prices THEN raced ELSE raced \cup {s}
    /\ \/ gens' = [gens EXCEPT !["tick"] = Tail(@)] /\ Offer(s, price)
       \/ cancelled /\ gens' = Empty /\ UNCHANGED <<out, made, droppedCount>>
    /\ UNCHANGED <<unlimited, symbols, started, closed, got, calls, cancelled>>

\* A hot loop has a price of its own.
EmitUnlimited(s) ==
    /\ unlimited /\ s \in DOMAIN gens /\ Offer(s, 1)
    /\ UNCHANGED <<unlimited, symbols, prices, started, gens, closed, got, raced, calls, cancelled>>

Cancel ==
    /\ ~cancelled /\ cancelled' = TRUE
    /\ UNCHANGED <<unlimited, symbols, prices, started, gens, out, closed, made, got, droppedCount,
                   raced, calls>>

\* A goroutine returns, also in the middle of a batch.
GenEnds(g) ==
    /\ cancelled /\ g \in DOMAIN gens
    /\ gens' = [x \in DOMAIN gens \ {g} |-> gens[x]]
    /\ UNCHANGED <<unlimited, symbols, prices, started, out, closed, made, got, droppedCount,
                   raced, calls, cancelled>>

\* The only goroutine, or the coordinator after the last one, closes the channel.
Close ==
    /\ started /\ gens = Empty /\ ~closed /\ closed' = TRUE
    /\ UNCHANGED <<unlimited, symbols, prices, started, gens, out, made, got, droppedCount,
                   raced, calls, cancelled>>

Receive ==
    /\ out # <<>> /\ out' = Tail(out) /\ got' = got + 1
    /\ UNCHANGED <<unlimited, symbols, prices, started, gens, closed, made, droppedCount,
                   raced, calls, cancelled>>

Next ==
    \/ \E s \in Symbols : Subscribe(s) \/ Unsubscribe(s) \/ EmitUnlimited(s)
    \/ Run \/ Tick \/ EmitTick \/ Cancel \/ Close \/ Receive
    \/ \E g \in Symbols \cup {"tick"} : GenEnds(g)

Spec == Init /\ [][Next]_vars
--------------------------------------------------------------------------
\* A symbol has a price exactly when it is in the list, once, so that Subscribe
\* can put it back, but for symbols a tick touched after their Unsubscribe; only
\* those are ever quoted at zero (Subscribe, Unsubscribe, nextPrice).
SymbolsAgree ==
    /\ IsInjective(symbols) /\ ToSet(symbols) \subseteq DOMAIN prices
    /\ DOMAIN prices \ ToSet(symbols) \subseteq raced
    /\ \A i \in 1..Len(out) : out[i].price = 0 => out[i].sym \in raced

\* Every quote made is in the channel, received or counted as dropped, and a
\* closed channel has no goroutine left that could send (droppedCount, Run).
QuotesCounted ==
    /\ made = Len(out) + got + droppedCount
    /\ closed => gens = Empty

SimulatorExact == SymbolsAgree /\ QuotesCounted
=============================================================================
