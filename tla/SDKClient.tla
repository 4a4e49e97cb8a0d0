------------------------------ MODULE SDKClient ------------------------------
(***************************************************************************)
(* The public Go client (pkg/client): the read loop, the reconnect         *)
(* goroutine it hands over to, Subscribe, Reconnect and Close.  A message  *)
(* is a token; the resume numbers only choose between a "reconnect" and a  *)
(* "subscribe" command, and the server replaces the connection's           *)
(* subscription on both (internal/websocket/client.go).                    *)
(***************************************************************************)
EXTENDS Integers, FiniteSets

CONSTANTS
    Symbols,
    MsgCap,                \* capacity of msgCh
    MaxReconnectAttempts,  \* 0 = unlimited
    MaxDrops,              \* bound: connections the network drops
    MaxManual,             \* bound: calls of Reconnect
    MaxRecons,             \* bound: reconnect goroutines
    MaxDials               \* bound: connections dialled

ASSUME SDKAssumption ==
    /\ MsgCap \in Nat \ {0} /\ MaxReconnectAttempts \in Nat
    /\ MaxDrops \in Nat /\ MaxManual \in Nat
    /\ MaxRecons \in Nat /\ MaxDials \in Nat \ {0}

VARIABLES
    conn,          \* c.conn, 0 = nil
    live,          \* connections that are up
    dialled,       \* connections ever made
    served,        \* connection -> subscription the server holds for it
    subscriptions, \* recorded by the client
    subCall,       \* symbols a Subscribe call has still to send
    queued,        \* messages in msgCh
    reconnecting, closing, autoReconnect, canceller, cancelled,
    done,          \* shutdown ran: msgCh and doneCh are closed
    reader,        \* read loop goroutines: position and the connection read
    recon,         \* reconnect goroutines: position, attempts, connection, subs
    closer,        \* position of Close
    drops, manual

net == <<live, dialled, served, drops>>
app == <<subscriptions, subCall>>
flags == <<reconnecting, closing, autoReconnect, canceller, cancelled>>
vars == <<conn, net, app, queued, flags, done, reader, recon, closer, manual>>

Recons == 1..MaxRecons
Readers == 1..(MaxRecons + 1)     \* reader k + 1 is started by recon k

\* Connect has dialled connection 1 and started the first read loop.
Init ==
    /\ conn = 1 /\ live = {1} /\ dialled = 1
    /\ served = [c \in 1..MaxDials |-> {}]
    /\ subscriptions = {} /\ subCall = {} /\ queued = 0
    /\ reconnecting = FALSE /\ closing = FALSE /\ autoReconnect = TRUE
    /\ canceller = 0 /\ cancelled = {} /\ done = FALSE
    /\ reader = [r \in Readers |-> [pc |-> IF r = 1 THEN "top" ELSE "idle",
                                    conn |-> 0, closing |-> FALSE]]
    /\ recon = [k \in Recons |-> [pc |-> "idle", attempts |-> 0, conn |-> 0,
                                  subs |-> {}]]
    /\ closer = "no" /\ drops = 0 /\ manual = 0

\* shutdownOnce: both channels are closed.
shutdown == done' = TRUE

ReaderGoto(r, p) == reader' = [reader EXCEPT ![r].pc = p]
ReconGoto(k, p) == recon' = [recon EXCEPT ![k].pc = p]

-----------------------------------------------------------------------------
(* Subscribe                                                               *)

\* The symbols are recorded in any case; without a connection that is all.
SubscribeRecord(s) ==
    /\ subCall = {} /\ closer = "no"
    /\ subscriptions' = subscriptions \union {s}
    /\ subCall' = IF conn = 0 THEN {} ELSE {s}
    /\ UNCHANGED <<conn, net, queued, flags, done, reader, recon, closer, manual>>

writeSubscribe ==
    /\ subCall # {} /\ subCall' = {}
    /\ served' = IF conn \in live THEN [served EXCEPT ![conn] = subCall] ELSE served
    /\ UNCHANGED <<conn, live, dialled, drops, subscriptions, queued, flags, done,
                   reader, recon, closer, manual>>

-----------------------------------------------------------------------------
(* reconnect                                                               *)

\* The prologue of reconnect: no effect while another one is in progress.
reconnect ==
    IF reconnecting
    THEN UNCHANGED <<conn, recon, flags>>
    ELSE \E k \in Recons :
           /\ recon[k].pc = "idle" /\ \A j \in 1..(k - 1) : recon[j].pc # "idle"
           /\ ReconGoto(k, "loop") /\ conn' = 0
           /\ reconnecting' = TRUE /\ canceller' = k
           /\ UNCHANGED <<closing, autoReconnect, cancelled>>

Reconnect ==
    /\ manual < MaxManual /\ manual' = manual + 1 /\ reconnect
    /\ UNCHANGED <<net, app, queued, done, reader, closer>>

\* The top of the loop: cancelled, out of attempts, or one more attempt.
RecLoop(k) ==
    /\ recon[k].pc = "loop"
    /\ IF k \in cancelled
          \/ (MaxReconnectAttempts > 0 /\ recon[k].attempts >= MaxReconnectAttempts)
       THEN shutdown /\ ReconGoto(k, "defer")
       ELSE /\ recon' = [recon EXCEPT ![k].pc = "sleep",
                   ![k].attempts = IF MaxReconnectAttempts > 0 THEN @ + 1 ELSE 0]
            /\ UNCHANGED done
    /\ UNCHANGED <<conn, net, app, queued, flags, reader, closer, manual>>

\* The backoff: cancelled, or the timer fires.
RecSleep(k) ==
    /\ recon[k].pc = "sleep"
    /\ \/ k \in cancelled /\ shutdown /\ ReconGoto(k, "defer")
       \/ ReconGoto(k, "dial") /\ UNCHANGED done
    /\ UNCHANGED <<conn, net, app, queued, flags, reader, closer, manual>>

RecDialFails(k) ==
    /\ recon[k].pc = "dial" /\ ReconGoto(k, "loop")
    /\ UNCHANGED <<conn, net, app, queued, flags, done, reader, closer, manual>>

\* A successful dial, then the locked section: connection and snapshot.
RecDialled(k) ==
    /\ recon[k].pc = "dial" /\ dialled < MaxDials
    /\ dialled' = dialled + 1 /\ live' = live \union {dialled'} /\ conn' = dialled'
    /\ recon' = [recon EXCEPT ![k].pc = "write", ![k].conn = dialled',
                              ![k].subs = subscriptions]
    /\ UNCHANGED <<served, drops, app, queued, flags, done, reader, closer, manual>>

\* The subscriptions are sent again; a failed write closes c.conn and retries.
RecWrite(k) ==
    /\ recon[k].pc = "write"
    /\ LET c == recon[k].conn  ok == recon[k].subs = {} \/ c \in live IN
       /\ served' = IF recon[k].subs # {} /\ c \in live
                    THEN [served EXCEPT ![c] = recon[k].subs] ELSE served
       /\ ReconGoto(k, IF ok THEN "spawn" ELSE IF conn = 0 THEN "panic" ELSE "loop")
       /\ live' = IF ok THEN live ELSE live \ {conn}
       /\ conn' = IF ok THEN conn ELSE 0
    /\ UNCHANGED <<dialled, drops, app, queued, flags, done, reader, closer, manual>>

RecSpawn(k) ==
    /\ recon[k].pc = "spawn" /\ ReconGoto(k, "defer") /\ ReaderGoto(k + 1, "top")
    /\ UNCHANGED <<conn, net, app, queued, flags, done, closer, manual>>

\* The deferred function, after the read loop was started.
RecDefer(k) ==
    /\ recon[k].pc = "defer" /\ ReconGoto(k, "ended") /\ reconnecting' = FALSE
    /\ UNCHANGED <<conn, net, app, queued, closing, autoReconnect, canceller,
                   cancelled, done, reader, closer, manual>>

-----------------------------------------------------------------------------
(* readLoop                                                                *)

\* Reading from a nil connection panics.
ReadTop(r) ==
    /\ reader[r].pc = "top"
    /\ IF closing THEN shutdown /\ ReaderGoto(r, "ended")
       ELSE /\ reader' = [reader EXCEPT ![r].pc = IF conn = 0 THEN "panic" ELSE "read",
                                        ![r].conn = conn]
            /\ UNCHANGED done
    /\ UNCHANGED <<conn, net, app, queued, flags, recon, closer, manual>>

ReadEvent(r) ==
    /\ reader[r].pc = "read" /\ reader[r].conn \in live
    /\ served[reader[r].conn] # {} /\ ReaderGoto(r, "send")
    /\ UNCHANGED <<conn, net, app, queued, flags, done, recon, closer, manual>>

\* The select on msgCh and closeCh; a send on the closed msgCh panics.
ReadSend(r) ==
    /\ reader[r].pc = "send"
    /\ \/ /\ ~done /\ queued < MsgCap /\ queued' = queued + 1
          /\ ReaderGoto(r, "top") /\ UNCHANGED done
       \/ done /\ ReaderGoto(r, "panic") /\ UNCHANGED <<queued, done>>
       \/ closing /\ shutdown /\ ReaderGoto(r, "ended") /\ UNCHANGED queued
    /\ UNCHANGED <<conn, net, app, flags, recon, closer, manual>>

ReadFails(r) ==
    /\ reader[r].pc = "read" /\ reader[r].conn \notin live
    /\ reader' = [reader EXCEPT ![r].pc = "failed", ![r].closing = closing]
    /\ UNCHANGED <<conn, net, app, queued, flags, done, recon, closer, manual>>

\* The test of opts.Reconnect and of the value of closing read before.
ReadDecide(r) ==
    /\ reader[r].pc = "failed"
    /\ IF autoReconnect /\ ~reader[r].closing
       THEN ReaderGoto(r, "call") /\ UNCHANGED done
       ELSE shutdown /\ ReaderGoto(r, "ended")
    /\ UNCHANGED <<conn, net, app, queued, flags, recon, closer, manual>>


ReadReconnect(r) ==
    /\ reader[r].pc = "call" /\ reconnect /\ ReaderGoto(r, "ended")
    /\ UNCHANGED <<net, app, queued, done, closer, manual>>

-----------------------------------------------------------------------------
(* Close                                                                   *)

CloseFlags ==
    /\ closer = "no" /\ closer' = "conn"
    /\ reconnecting' = FALSE /\ autoReconnect' = FALSE /\ closing' = TRUE
    /\ cancelled' = cancelled \union ({canceller} \ {0})
    /\ UNCHANGED <<conn, net, app, queued, canceller, done, reader, recon, manual>>

\* c.conn is read again without the lock.
CloseConn ==
    /\ closer = "conn" /\ closer' = "wait" /\ live' = live \ {conn}
    /\ UNCHANGED <<conn, dialled, served, drops, app, queued, flags, done, reader,
                   recon, manual>>

CloseReturn ==
    /\ closer = "wait" /\ done /\ closer' = "returned"
    /\ UNCHANGED <<conn, net, app, queued, flags, done, reader, recon, manual>>

-----------------------------------------------------------------------------
(* Environment                                                             *)

Receive ==
    /\ queued > 0 /\ queued' = queued - 1
    /\ UNCHANGED <<conn, net, app, flags, done, reader, recon, closer, manual>>

Drop ==
    /\ drops < MaxDrops /\ drops' = drops + 1
    /\ \E c \in live : live' = live \ {c}
    /\ UNCHANGED <<conn, dialled, served, app, queued, flags, done, reader, recon,
                   closer, manual>>

readLoop(r) ==
    \/ ReadTop(r) \/ ReadSend(r) \/ ReadFails(r) \/ ReadDecide(r) \/ ReadReconnect(r)

reconnectLoop(k) ==
    \/ RecLoop(k) \/ RecSleep(k) \/ RecDialFails(k) \/ RecDialled(k)
    \/ RecWrite(k) \/ RecSpawn(k) \/ RecDefer(k)

Close == CloseConn \/ CloseReturn

Next ==
    \/ \E s \in Symbols : SubscribeRecord(s)
    \/ writeSubscribe \/ Reconnect \/ CloseFlags \/ Close \/ Receive \/ Drop
    \/ \E k \in Recons : reconnectLoop(k)
    \/ \E r \in Readers : readLoop(r) \/ ReadEvent(r)

Spec == Init /\ [][Next]_vars

\* Runnable goroutines are scheduled; the server, the network and the
\* application owe nothing.
FairSpec ==
    /\ Spec /\ WF_vars(Close)
    /\ \A k \in Recons : WF_vars(reconnectLoop(k))
    /\ \A r \in Readers : WF_vars(readLoop(r))

-----------------------------------------------------------------------------

\* Type invariant of the client; msgCh never holds more than its capacity.
TypeOK ==
    /\ conn \in 0..dialled /\ live \subseteq 1..dialled /\ dialled \in 1..MaxDials
    /\ served \in [1..MaxDials -> SUBSET Symbols]
    /\ subscriptions \subseteq Symbols /\ subCall \subseteq Symbols
    /\ queued \in 0..MsgCap /\ canceller \in 0..MaxRecons
    /\ \A v \in {reconnecting, closing, autoReconnect, done} : v \in BOOLEAN
    /\ cancelled \subseteq Recons
    /\ \A r \in Readers : reader[r].pc \in
          {"idle", "top", "read", "send", "failed", "call", "ended", "panic"}
    /\ \A k \in Recons : recon[k].pc \in {"idle", "loop", "sleep", "dial", "write",
                                          "spawn", "defer", "ended", "panic"}
    /\ closer \in {"no", "conn", "wait", "returned"}

ActiveReaders == {r \in Readers : reader[r].pc \notin {"idle", "ended", "panic"}}
ActiveRecons ==
    {k \in Recons : recon[k].pc \notin {"idle", "defer", "ended", "panic"}}

\* readLoop and reconnect hand the connection over: whatever drops, dials and
\* a Close do, at most one goroutine owns it at any time.
OneOwner == Cardinality(ActiveReaders) + Cardinality(ActiveRecons) <= 1

\* No goroutine of the client reads from a nil connection, closes one, or sends
\* on the closed msgCh.
NeverPanics ==
    /\ \A r \in Readers : reader[r].pc # "panic"
    /\ \A k \in Recons : recon[k].pc # "panic"

\* Once a connection is up, no command is on its way and no reconnect is at
\* work, the server serves what the client has recorded, also when Subscribe
\* was called while the client was disconnected or reconnecting.
SubscriptionsServed ==
    conn \in live /\ subCall = {} /\ ActiveRecons = {} => served[conn] = subscriptions

\* A client that has not been closed and still has its reconnect option has a
\* goroutine that reads or reconnects.
\* The code does not have this property: README, section 5.
ReconnectsOnDisconnect ==
    autoReconnect /\ ~done => ActiveReaders # {} \/ ActiveRecons # {}

\* Close returns: some goroutine closes doneCh.
CloseReturns == closer = "wait" ~> closer = "returned"
=============================================================================
