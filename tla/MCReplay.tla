------------------------------ MODULE MCReplay ------------------------------
(***************************************************************************)
(* Historical replay on small instances.  ReplayHandler abstracts a        *)
(* session to running or ended, so a behaviour explores one level: a       *)
(* session under pause, resume and stop ("pause") or also under seeks and  *)
(* store errors ("seek"), or the sessions of a client ("handler").         *)
(***************************************************************************)
EXTENDS ReplaySession

VARIABLES level, pump, old, started, active, session, stopped, replayDone,
          watcher, closedCh, notified, connDone, shut

handlerVars == <<pump, old, started, active, session, stopped, replayDone,
                 watcher, closedCh, notified, connDone, shut>>

Seeking == INSTANCE ReplaySession
              WITH Events <- 4, MaxControls <- 3, Controls <-
                   {"pause", "resume", "seek", "stop", "cancel", "error"}
Handler == INSTANCE ReplayHandler WITH MaxSessions <- 3

MCInit == /\ level \in {"pause", "seek", "handler"}
          /\ Init /\ Handler!Init
MCNext == /\ UNCHANGED level
          /\ \/ level = "pause" /\ Next /\ UNCHANGED handlerVars
             \/ level = "seek" /\ Seeking!Next /\ UNCHANGED handlerVars
             \/ level = "handler" /\ Handler!Next /\ UNCHANGED vars

goes == level # "handler" /\ run # "panic"

\* Each level under the fairness of its own specification.
MCSpec ==
    /\ MCInit /\ [][MCNext]_<<level, vars, handlerVars>>
    /\ WF_vars(level = "pause" /\ goes /\ runLoop)
    /\ WF_vars(level = "seek" /\ goes /\ Seeking!runLoop)
    /\ WF_vars(level = "pause" /\ goes /\ prefetchLoop)
    /\ WF_vars(level = "seek" /\ goes /\ Seeking!prefetchLoop)
    /\ WF_vars(goes /\ StopCancel)
    /\ WF_handlerVars(level = "handler" /\ Handler!PumpStep)
    /\ \A g \in 1..3 :
         /\ WF_handlerVars(level = "handler" /\ Handler!WatcherWakes(g))
         /\ WF_handlerVars(level = "handler" /\ Handler!clearReplayIfActive(g))
         /\ WF_handlerVars(level = "handler" /\ (g \in stopped \/ connDone)
                             /\ Handler!SessionEnds(g))

\* Without seeks and store errors a completed session has published its whole
\* range, whatever pauses, resumes and stops came (Session.run).
CompletedMeansAllRead == level = "pause" => CompletedMeansAll

\* The replay fields of a client (replay_handler.go).
HandlerTypes == Handler!TypeOK

\* The channel of a replay outlives its session (clearReplayIfActive).
ClosedAfterEnd == Handler!ClosedAfterEnd

\* A replaced or stopped session comes to its end (stopReplay).
ReplacedEnds == Handler!ReplacedEnds

\* A paused session is quiet, a completed one has published its range, and a
\* channel is closed after its session (Session.run, clearReplayIfActive).
ReplaySafe ==
    TypeOK /\ PausedQuiet /\ CompletedMeansAllRead /\ HandlerTypes /\ ClosedAfterEnd

\* A stopped, cancelled or replaced session ends (Session.Stop, stopReplay).
SessionsEnd == StopEnds /\ ReplacedEnds
=============================================================================
