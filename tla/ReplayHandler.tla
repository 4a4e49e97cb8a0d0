---------------------------- MODULE ReplayHandler ----------------------------
(***************************************************************************)
(* Replays of one WebSocket client (internal/websocket/replay_handler.go   *)
(* and the replay fields of Client): starting, replacing and stopping a    *)
(* session, the goroutine that waits for its end, and the client shutdown  *)
(* that waits for the active replay.  A session is running or ended        *)
(* (ReplaySession has its inside); the live subscription is in WSClient.   *)
(***************************************************************************)
EXTENDS Integers

CONSTANT MaxSessions     \* bound: sessions one client starts

VARIABLES
    pump,        \* readPump: "idle", or the next step of StartReplay / StopReplay
    old,         \* session and cancel function taken by stopReplay, 0 = none
    started,     \* sessions created so far
    active,      \* activeReplaySession with replayCh and replayCancel, 0 = nil
    session,     \* session -> "none", "running", "ended"
    stopped,     \* sessions whose Stop was called
    replayDone,  \* sessions whose replayCtx is done
    watcher,     \* session -> position of its waiting goroutine
    closedCh,    \* sessions whose channel is closed
    notified,    \* sessions whose replay_completed was sent
    connDone,    \* the connection's context is done
    shut         \* Client.shutdown: "no", "poll", "closing"

vars == <<pump, old, started, active, session, stopped, replayDone, watcher,
          closedCh, notified, connDone, shut>>

Sessions == 1..MaxSessions

Init ==
    /\ pump = "idle" /\ old = 0 /\ started = 0 /\ active = 0
    /\ session = [g \in Sessions |-> "none"] /\ stopped = {} /\ replayDone = {}
    /\ watcher = [g \in Sessions |-> "off"] /\ closedCh = {} /\ notified = {}
    /\ connDone = FALSE /\ shut = "no"

\* stopReplay, locked section: the fields are cleared.
stopReplay(next) ==
    /\ pump = "idle" /\ ~connDone /\ old' = active /\ active' = 0 /\ pump' = next
    /\ UNCHANGED <<started, session, stopped, replayDone, watcher, closedCh, notified,
                   connDone, shut>>

StartReplay == started < MaxSessions /\ stopReplay("replace")
StopReplay == stopReplay("stop")

\* Mutation: the old session's context is cancelled, the session is not stopped.
StopOld_NoStop ==
    /\ pump \in {"replace", "stop"} /\ old' = 0
    /\ replayDone' = replayDone \union ({old} \ {0})
    /\ pump' = IF pump = "replace" THEN "create" ELSE "idle"
    /\ UNCHANGED <<started, active, session, stopped, watcher, closedCh, notified,
                   connDone, shut>>

\* stopReplay, after the lock: the old session is stopped and cancelled.
StopOld ==
    /\ pump \in {"replace", "stop"} /\ old' = 0
    /\ stopped' = stopped \union ({old} \ {0})
    /\ replayDone' = replayDone \union ({old} \ {0})
    /\ pump' = IF pump = "replace" THEN "create" ELSE "idle"
    /\ UNCHANGED <<started, active, session, watcher, closedCh, notified, connDone, shut>>

ReplayTimeRange ==
    /\ pump = "create" /\ pump' = "set" /\ started' = started + 1
    /\ session' = [session EXCEPT ![started'] = "running"]
    /\ UNCHANGED <<old, active, stopped, replayDone, watcher, closedCh, notified,
                   connDone, shut>>

\* The new session becomes the active one and its goroutine starts.
setReplay ==
    /\ pump = "set" /\ pump' = "idle" /\ active' = started
    /\ watcher' = [watcher EXCEPT ![started] = "wait"]
    /\ replayDone' = IF connDone THEN replayDone \union {started} ELSE replayDone
    /\ UNCHANGED <<old, started, session, stopped, closedCh, notified, connDone, shut>>

\* The session reaches the end of its range, or was stopped or cancelled.
SessionEnds(g) ==
    /\ session[g] = "running" /\ session' = [session EXCEPT ![g] = "ended"]
    /\ UNCHANGED <<pump, old, started, active, stopped, replayDone, watcher, closedCh,
                   notified, connDone, shut>>

\* <-replayCtx.Done()
WatcherWakes(g) ==
    /\ watcher[g] = "wait" /\ g \in replayDone
    /\ watcher' = [watcher EXCEPT ![g] = "join"]
    /\ UNCHANGED <<pump, old, started, active, session, stopped, replayDone, closedCh,
                   notified, connDone, shut>>

\* session.Wait(), then clearReplayIfActive and the notification.
clearReplayIfActive(g) ==
    /\ watcher[g] = "join" /\ session[g] = "ended"
    /\ watcher' = [watcher EXCEPT ![g] = "over"]
    /\ IF active = g
       THEN active' = 0 /\ closedCh' = closedCh \union {g}
            /\ notified' = notified \union {g}
       ELSE UNCHANGED <<active, closedCh, notified>>
    /\ UNCHANGED <<pump, old, started, session, stopped, replayDone, connDone, shut>>

\* Client.shutdown polls until no replay is active.
ShutdownPoll ==
    /\ \/ shut = "no" /\ shut' = "poll" /\ connDone' = connDone
       \/ shut = "poll" /\ active = 0 /\ shut' = "closing" /\ connDone' = TRUE
    /\ replayDone' = IF connDone' THEN {g \in Sessions : watcher[g] # "off"}
                                  ELSE replayDone
    /\ UNCHANGED <<pump, old, started, active, session, stopped, watcher, closedCh,
                   notified>>

\* The caller's context ends the wait.  The heartbeat callback's has no deadline.
ShutdownExpires ==
    /\ shut = "poll" /\ shut' = "closing" /\ connDone' = TRUE
    /\ replayDone' = {g \in Sessions : watcher[g] # "off"}
    /\ UNCHANGED <<pump, old, started, active, session, stopped, watcher, closedCh,
                   notified>>

\* The connection ends; every context derived from its own is done.
ConnectionEnds ==
    /\ ~connDone /\ connDone' = TRUE
    /\ replayDone' = {g \in Sessions : watcher[g] # "off"}
    /\ UNCHANGED <<pump, old, started, active, session, stopped, watcher, closedCh,
                   notified, shut>>

PumpStep == StopOld \/ ReplayTimeRange \/ setReplay

Next ==
    \/ StartReplay \/ StopReplay \/ PumpStep \/ ShutdownPoll
    \/ ShutdownExpires \/ ConnectionEnds
    \/ \E g \in Sessions :
          SessionEnds(g) \/ WatcherWakes(g) \/ clearReplayIfActive(g)

Spec == Init /\ [][Next]_vars

\* Goroutines are scheduled and a stopped or cancelled session ends; one that is
\* left alone may be paused for ever.
FairSpec ==
    /\ Spec /\ WF_vars(PumpStep)
    /\ \A g \in Sessions :
         /\ WF_vars(WatcherWakes(g)) /\ WF_vars(clearReplayIfActive(g))
         /\ WF_vars((g \in stopped \/ connDone) /\ SessionEnds(g))

\* In addition shutdown keeps polling and every replay runs to its end.
FairCompletion ==
    FairSpec /\ WF_vars(shut = "poll" /\ ShutdownPoll)
             /\ \A g \in Sessions : WF_vars(SessionEnds(g))

-----------------------------------------------------------------------------

\* Type invariant of the client's replay fields.
TypeOK ==
    /\ pump \in {"idle", "replace", "stop", "create", "set"}
    /\ old \in 0..MaxSessions /\ active \in 0..started /\ started \in 0..MaxSessions
    /\ session \in [Sessions -> {"none", "running", "ended"}]
    /\ \A g \in Sessions : session[g] = "none" <=> g > started
    /\ watcher \in [Sessions -> {"off", "wait", "join", "over"}]
    /\ \A s \in {stopped, replayDone, closedCh, notified} : s \subseteq 1..started
    /\ connDone \in BOOLEAN /\ shut \in {"no", "poll", "closing"}

\* A replay channel is closed only after its session has ended, so that its
\* publisher never sends on a closed channel, also when replays are replaced
\* while they run.
ClosedAfterEnd == \A g \in closedCh : session[g] = "ended"

\* A session that is no longer the active one comes to its end.
ReplacedEnds ==
    \A g \in Sessions : (watcher[g] # "off" /\ active # g) ~> session[g] = "ended"

\* A client whose active replay has ended is told, unless it replaced or
\* stopped the replay.
\* The code does not have this property: README, section 5.
CompletionNotified ==
    \A g \in Sessions :
        (session[g] = "ended" /\ active = g) ~> (g \in notified \/ active # g)

\* Shutdown waits for the active replay to finish, and then goes on.
\* The code does not have this property: README, section 5.
ShutdownGoesOn == shut = "poll" ~> shut = "closing"
=============================================================================
