----------------------------- MODULE Reconnector -----------------------------
(***************************************************************************)
(* The reconnecting WebSocket client (internal/websocket/reconnect.go):    *)
(* the loop that dials, restores the subscriptions and reads, one caller   *)
(* of Subscribe and Unsubscribe, and Stop.  Connections are numbered.  The *)
(* server replaces the subscription of a connection by each subscribe and  *)
(* clears it on an unsubscribe (internal/websocket/client.go).  Two writes *)
(* on one connection at a time may panic in the WebSocket library.         *)
(***************************************************************************)
EXTENDS Integers, FiniteSets

CONSTANTS
    Symbols,
    Unsubscribes,   \* the caller also unsubscribes
    StopEarly,      \* Stop may be called before Start has returned
    EventCap,       \* capacity of the events channel (256)
    MaxConns,       \* bound: dials that succeed
    MaxCalls        \* bound: calls of Subscribe and Unsubscribe

VARIABLES
    run,        \* where the loop is
    first,      \* firstAttempt
    ready,      \* what Start was told: "none", "ok", "error"
    conn,       \* ReconnectClient.conn, 0 for nil
    cur,        \* the connection of the current iteration
    dialled,    \* connections so far
    open,       \* connections not closed by the client
    gone,       \* connections the server has dropped
    served,     \* connection -> symbols the server delivers on it
    unsent,     \* connections on which a write has failed
    subs,       \* ReconnectClient.subscriptions
    snap,       \* the symbols resubscribeAll has read
    events,     \* messages in the events channel
    stop,       \* Stop: "none", "signalled", "waiting", "returned"
    user,       \* the call in progress: "idle", "registered", "writing"
    call,       \* its action, symbols and connection
    calls,
    panicked

loopVars == <<run, first, ready, cur, dialled, snap>>
userVars == <<user, call, calls>>
vars == <<loopVars, conn, open, gone, served, unsent, subs, events, stop, userVars,
          panicked>>

Conns == 1..MaxConns
NoCall == [action |-> "none", symbols |-> {}, conn |-> 0]

Init ==
    /\ run = "check" /\ first = TRUE /\ ready = "none" /\ conn = 0 /\ cur = 0
    /\ dialled = 0 /\ open = {} /\ gone = {} /\ served = [c \in Conns |-> {}]
    /\ unsent = {} /\ subs \in SUBSET Symbols /\ snap = {} /\ events = 0
    /\ stop = "none" /\ user = "idle" /\ call = NoCall /\ calls = 0 /\ panicked = FALSE

-----------------------------------------------------------------------------
(* The loop                                                                 *)

stopped == stop # "none"
alive(c) == c \in open \ gone

\* closeConn.
closeConn == open' = open \ {conn} /\ conn' = 0

\* The end of run: events is closed and done after it.
RunStops ==
    /\ run \in {"check", "wait"} /\ stopped /\ run' = "ended" /\ closeConn
    /\ UNCHANGED <<first, ready, cur, dialled, snap, gone, served, unsent, subs, events,
                   stop, userVars, panicked>>

RunGoesOn ==
    /\ \/ run = "check" /\ ~stopped /\ run' = IF first THEN "dial" ELSE "wait"
       \/ run = "wait" /\ run' = "dial"
    /\ UNCHANGED <<first, ready, cur, dialled, snap, conn, open, gone, served, unsent,
                   subs, events, stop, userVars, panicked>>


\* A failed attempt; Start is told of the first.
failed == ready' = (IF first THEN "error" ELSE ready) /\ first' = FALSE /\ run' = "check"

DialFails ==
    /\ run = "dial" /\ failed
    /\ UNCHANGED <<cur, dialled, snap, conn, open, gone, served, unsent, subs, events,
                   stop, userVars, panicked>>

DialSucceeds ==
    /\ run = "dial" /\ dialled < MaxConns /\ run' = "store"
    /\ dialled' = dialled + 1 /\ cur' = dialled' /\ open' = open \union {dialled'}
    /\ UNCHANGED <<first, ready, snap, conn, gone, served, unsent, subs, events, stop,
                   userVars, panicked>>

\* Mutation: a connection that comes after Stop is not closed.
Store_Leaks ==
    /\ run = "store" /\ UNCHANGED open
    /\ IF stopped
       THEN failed /\ UNCHANGED conn
       ELSE conn' = cur /\ run' = "resubscribe" /\ UNCHANGED <<first, ready>>
    /\ UNCHANGED <<cur, dialled, snap, gone, served, unsent, subs, events, stop,
                   userVars, panicked>>

\* connect under connMu: the connection is kept unless Stop was called.
Store ==
    /\ run = "store"
    /\ IF stopped
       THEN open' = open \ {cur} /\ failed /\ UNCHANGED conn
       ELSE conn' = cur /\ run' = "resubscribe" /\ UNCHANGED <<first, ready, open>>
    /\ UNCHANGED <<cur, dialled, snap, gone, served, unsent, subs, events, stop,
                   userVars, panicked>>

\* Start is told of the first connection.
connected == ready' = (IF first THEN "ok" ELSE ready) /\ first' = FALSE /\ run' = "read"

\* resubscribeAll: the registry is read under subMu, which a call holds.
Resubscribe ==
    /\ run = "resubscribe" /\ user = "idle" /\ snap' = subs
    /\ IF subs = {} THEN connected ELSE run' = "writing" /\ UNCHANGED <<first, ready>>
    /\ UNCHANGED <<cur, dialled, conn, open, gone, served, unsent, subs, events, stop,
                   userVars, panicked>>

\* A message on connection c reaches a server that is there, or the write fails.
Written(c, symbols) ==
    \/ /\ alive(c) /\ served' = [served EXCEPT ![c] = symbols] /\ UNCHANGED unsent
    \/ unsent' = unsent \union {c} /\ UNCHANGED served

ResubscribeSent ==
    /\ run = "writing" /\ Written(cur, snap) /\ connected
    /\ UNCHANGED <<cur, dialled, snap, conn, open, gone, subs, events, stop, userVars,
                   panicked>>

ReadMessage ==
    /\ run = "read" /\ alive(cur) /\ run' = "deliver"
    /\ UNCHANGED <<first, ready, cur, dialled, snap, conn, open, gone, served, unsent,
                   subs, events, stop, userVars, panicked>>

\* The deferred function of readPump.
readPumpEnds ==
    /\ run' = "check"
    /\ IF conn = cur THEN closeConn ELSE UNCHANGED <<conn, open>>

ReadError ==
    /\ run = "read" /\ ~alive(cur) /\ readPumpEnds
    /\ UNCHANGED <<first, ready, cur, dialled, snap, gone, served, unsent, subs, events,
                   stop, userVars, panicked>>

\* The select of readPump.
Deliver ==
    /\ run = "deliver"
    /\ \/ /\ events < EventCap /\ events' = events + 1 /\ run' = "read"
          /\ UNCHANGED <<conn, open>>
       \/ stopped /\ readPumpEnds /\ UNCHANGED events
    /\ UNCHANGED <<first, ready, cur, dialled, snap, gone, served, unsent, subs, stop,
                   userVars, panicked>>

Receive ==
    /\ events > 0 /\ events' = events - 1
    /\ UNCHANGED <<loopVars, conn, open, gone, served, unsent, subs, stop, userVars,
                   panicked>>

\* The server or the network ends a connection.
Drop ==
    /\ \E c \in open \ gone : gone' = gone \union {c}
    /\ UNCHANGED <<loopVars, conn, open, served, unsent, subs, events, stop, userVars,
                   panicked>>

-----------------------------------------------------------------------------
(* Calls                                                                    *)

\* Subscribe and Unsubscribe under subMu: the registry, ...
CallRegisters ==
    /\ user = "idle" /\ calls < MaxCalls /\ calls' = calls + 1 /\ user' = "registered"
    /\ \E s \in Symbols :
         \/ /\ subs' = subs \union {s}
            /\ call' = [action |-> "subscribe", symbols |-> {s}, conn |-> 0]
         \/ /\ Unsubscribes /\ subs' = subs \ {s}
            /\ call' = [action |-> "unsubscribe", symbols |-> {}, conn |-> 0]
    /\ UNCHANGED <<loopVars, conn, open, gone, served, unsent, events, stop, panicked>>

\* ... the connection, ...
CallFindsConn ==
    /\ user = "registered"
    /\ IF conn = 0 THEN user' = "idle" /\ call' = NoCall
       ELSE user' = "writing" /\ call' = [call EXCEPT !.conn = conn]
    /\ UNCHANGED <<loopVars, conn, open, gone, served, unsent, subs, events, stop, calls,
                   panicked>>

\* ... and the message.
CallSent ==
    /\ user = "writing" /\ Written(call.conn, call.symbols)
    /\ user' = "idle" /\ call' = NoCall
    /\ UNCHANGED <<loopVars, conn, open, gone, subs, events, stop, calls, panicked>>

WritesCollide ==
    /\ user = "writing" /\ run = "writing" /\ call.conn = cur /\ panicked' = TRUE
    /\ UNCHANGED <<loopVars, conn, open, gone, served, unsent, subs, events, stop,
                   userVars>>

StopSignal ==
    /\ stop = "none" /\ (StopEarly \/ ready # "none") /\ stop' = "signalled"
    /\ UNCHANGED <<loopVars, conn, open, gone, served, unsent, subs, events, userVars,
                   panicked>>

StopCloses ==
    /\ stop = "signalled" /\ stop' = "waiting" /\ closeConn
    /\ UNCHANGED <<loopVars, gone, served, unsent, subs, events, userVars, panicked>>

StopReturns ==
    /\ stop = "waiting" /\ run = "ended" /\ stop' = "returned"
    /\ UNCHANGED <<loopVars, conn, open, gone, served, unsent, subs, events, userVars,
                   panicked>>

-----------------------------------------------------------------------------
Loop ==
    RunStops \/ RunGoesOn \/ DialFails \/ DialSucceeds \/ Store \/ Resubscribe
    \/ ResubscribeSent \/ ReadError \/ Deliver
Caller == CallFindsConn \/ CallSent
Stop == StopCloses \/ StopReturns

Next ==
    /\ ~panicked
    /\ \/ Loop \/ ReadMessage \/ Receive \/ Drop
       \/ CallRegisters \/ Caller \/ WritesCollide \/ StopSignal \/ Stop

Spec == Init /\ [][Next]_vars

\* Goroutines run, a dial returns within its timeout, a write within its deadline.
FairSpec ==
    /\ Spec /\ WF_vars(~panicked /\ Loop) /\ WF_vars(~panicked /\ Caller)
    /\ WF_vars(~panicked /\ Stop)

-----------------------------------------------------------------------------
\* Type invariant.
TypeOK ==
    /\ run \in {"check", "wait", "dial", "store", "resubscribe", "writing", "read",
                "deliver", "ended"}
    /\ ready \in {"none", "ok", "error"} /\ (first <=> ready = "none")
    /\ conn \in {0} \union open /\ open \subseteq 1..dialled /\ gone \subseteq 1..dialled
    /\ unsent \subseteq 1..dialled /\ events \in 0..EventCap
    /\ stop \in {"none", "signalled", "waiting", "returned"}
    /\ user \in {"idle", "registered", "writing"}

\* The client never holds two open connections, however drops and dials
\* interleave (readPump, connect).
OneConnection == Cardinality(open) <= 1

\* Stop leaves no connection open, also when it comes while a dial is under way
\* (Stop, connect).
StoppedClosed == stop = "returned" => open = {} /\ conn = 0

\* While it reads, and no call is under way, the server delivers what the client has
\* registered, unless a write failed (Subscribe, resubscribeAll).
Restored ==
    run = "read" /\ user = "idle" /\ alive(cur) /\ conn = cur /\ cur \notin unsent
        => served[cur] = subs

\* Start returns (Start, run).
StartEnds == <>(ready # "none" \/ panicked)

\* Stop returns, with a full events channel that nobody reads as well (Stop, readPump).
StopEnds == stop # "none" ~> stop = "returned" \/ panicked
=============================================================================
