---------------------------- MODULE ReplaySession ----------------------------
(***************************************************************************)
(* A historical replay session (internal/replay/engine with the virtual    *)
(* clock of internal/replay/scheduler): the run loop, the prefetch         *)
(* goroutine, and the control calls Pause, Resume, Seek and Stop, which    *)
(* come from other goroutines at any time.  Stored events are 1..Events;   *)
(* mustTransition panics on a transition the state machine forbids, and a  *)
(* panic ends the process.                                                 *)
(***************************************************************************)
EXTENDS Integers, Sequences

CONSTANTS
    Events,        \* number of stored events in the requested range
    chunkSize,
    Controls,      \* subset of {"pause", "resume", "seek", "stop", "cancel", "error"}
    MaxControls    \* bound: control calls

ASSUME ReplayAssumption ==
    /\ Events \in Nat /\ chunkSize \in Nat \ {0} /\ MaxControls \in Nat
    /\ Controls \subseteq {"pause", "resume", "seek", "stop", "cancel", "error"}

VARIABLES
    state, run, ret,      \* session state; position and result of the run loop
    from, seekTarget,     \* currentStart; requested start, 0 = nil
    ctxDone, innerDone,   \* session context and the newest inner context
    stopping,             \* Stop has changed the state and not yet cancelled
    paused, woken,        \* the clock; resumed since waitIfPaused looked
    batch,                \* events of the current batch still to be published
    fetch, item, cursor,  \* prefetch goroutine: position, result held, iterator
    prefetch,             \* prefetchCh, capacity 1
    emitted, late,        \* published since the last (re)start; since Pause
    controls

ctl == <<seekTarget, stopping, paused, controls>>
fet == <<fetch, item, cursor, prefetch>>
pub == <<emitted, late>>
vars == <<state, run, ret, from, ctxDone, innerDone, woken, batch, ctl, fet, pub>>

\* Results of the iterator other than a batch.
Eof == <<0>>
Err == <<-1>>

IsValidTransition(f, t) ==
    \/ f = "Created" /\ t \in {"Initializing", "Destroyed"}
    \/ f = "Initializing" /\ t \in {"Running", "Destroyed"}
    \/ f = "Running" /\ t \in {"Paused", "Seeking", "Completed", "Destroyed"}
    \/ f = "Paused" /\ t \in {"Running", "Seeking", "Destroyed"}
    \/ f = "Seeking" /\ t \in {"Running", "Destroyed"}
    \/ f = "Completed" /\ t = "Destroyed"

Init ==
    /\ state = "Created" /\ run = "start" /\ ret = "none" /\ from = 1
    /\ seekTarget = 0 /\ ctxDone = FALSE /\ innerDone = FALSE /\ stopping = FALSE
    /\ paused = FALSE /\ woken = FALSE /\ batch = <<>>
    /\ fetch = "off" /\ item = Eof /\ cursor = 1 /\ prefetch = <<>>
    /\ emitted = {} /\ late = 0 /\ controls = 0

\* mustTransition, after which the run loop is at next.
mustTransition(to, next) ==
    IF IsValidTransition(state, to)
    THEN state' = to /\ run' = next
    ELSE state' = state /\ run' = "panic"

-----------------------------------------------------------------------------
(* Control calls                                                           *)

\* transitionState: a call the state machine forbids returns an error.
Control(c, to) ==
    /\ c \in Controls /\ controls < MaxControls /\ controls' = controls + 1
    /\ IsValidTransition(state, to) /\ state' = to

Pause ==
    /\ Control("pause", "Paused") /\ paused' = TRUE /\ late' = 0
    /\ UNCHANGED <<run, ret, from, ctxDone, innerDone, woken, batch, seekTarget,
                   stopping, fet, emitted>>

Resume ==
    /\ Control("resume", "Running") /\ paused' = FALSE /\ woken' = (woken \/ paused)
    /\ UNCHANGED <<run, ret, from, ctxDone, innerDone, batch, seekTarget, stopping,
                   fet, pub>>

\* innerCancel may still belong to the previous iteration, or be nil.
Seek(target) ==
    /\ Control("seek", "Seeking") /\ seekTarget' = target
    /\ innerDone' = TRUE
    /\ UNCHANGED <<run, ret, from, ctxDone, woken, batch, stopping, paused, fet, pub>>

Stop ==
    /\ Control("stop", "Destroyed") /\ stopping' = TRUE
    /\ UNCHANGED <<run, ret, from, ctxDone, innerDone, woken, batch, seekTarget,
                   paused, fet, pub>>

\* The call of s.cancel, after the lock is released.
StopCancel ==
    /\ stopping /\ ctxDone' = TRUE /\ innerDone' = TRUE /\ stopping' = FALSE
    /\ UNCHANGED <<state, run, ret, from, woken, batch, seekTarget, paused, controls,
                   fet, pub>>

\* The caller's context ends.
CallerCancel ==
    /\ "cancel" \in Controls /\ ~ctxDone /\ ctxDone' = TRUE /\ innerDone' = TRUE
    /\ UNCHANGED <<state, run, ret, from, woken, batch, ctl, fet, pub>>

-----------------------------------------------------------------------------
(* The run loop                                                            *)

RunStart ==
    /\ run = "start" /\ mustTransition("Initializing", "top")
    /\ UNCHANGED <<ret, from, ctxDone, innerDone, woken, batch, ctl, fet, pub>>

\* A requested seek moves the start and brings a new clock.
RunTop ==
    /\ run = "top" /\ mustTransition("Running", "inner")
    /\ from' = IF seekTarget # 0 THEN seekTarget ELSE from
    /\ seekTarget' = 0 /\ paused' = (paused /\ seekTarget = 0)
    /\ UNCHANGED <<ret, ctxDone, innerDone, woken, batch, stopping, controls, fet, pub>>

\* A new inner context, and streamEvents opens the iterator.
RunInner ==
    /\ run = "inner" /\ run' = "select" /\ innerDone' = ctxDone
    /\ fetch' = "next" /\ cursor' = from /\ prefetch' = <<>> /\ emitted' = {}
    /\ UNCHANGED <<state, ret, from, ctxDone, woken, batch, ctl, item, late>>

\* The select of streamEvents.  A closed prefetchCh yields a nil batch.
StreamSelect ==
    /\ run = "select"
    /\ \/ /\ prefetch # <<>> /\ prefetch' = <<>>
          /\ IF Head(prefetch) \in {Eof, Err}
             THEN /\ run' = "wait" /\ batch' = <<>>
                  /\ ret' = IF Head(prefetch) = Err THEN "error" ELSE "nil"
             ELSE run' = "check" /\ batch' = Head(prefetch) /\ ret' = ret
       \/ /\ prefetch = <<>> /\ fetch = "over" /\ run' = "wait" /\ ret' = "nil"
          /\ UNCHANGED <<prefetch, batch>>
       \/ /\ innerDone /\ run' = "wait" /\ ret' = "canceled"
          /\ UNCHANGED <<prefetch, batch>>
    /\ UNCHANGED <<state, from, ctxDone, innerDone, woken, ctl, fetch, item, cursor, pub>>

\* The deferred wait for the prefetch goroutine, then the test for a seek.
StreamReturn ==
    /\ run = "wait" /\ fetch = "over"
    /\ run' = IF ret = "canceled" /\ ~ctxDone THEN "top" ELSE "final"
    /\ UNCHANGED <<state, ret, from, ctxDone, innerDone, woken, batch, ctl, fet, pub>>

RunFinal ==
    /\ run = "final"
    /\ IF state = "Destroyed" THEN state' = state /\ run' = "done"
       ELSE mustTransition(IF ctxDone THEN "Destroyed" ELSE "Completed", "done")
    /\ UNCHANGED <<ret, from, ctxDone, innerDone, woken, batch, ctl, fet, pub>>

-----------------------------------------------------------------------------
(* The prefetch goroutine                                                  *)

\* One page of at most chunkSize events; a query may fail.
FetchNext ==
    /\ fetch = "next" /\ fetch' = "put"
    /\ LET last == IF cursor + chunkSize - 1 < Events THEN cursor + chunkSize - 1
                                                    ELSE Events
       IN \/ /\ item' = IF cursor > Events THEN Eof
                        ELSE [i \in 1..(last - cursor + 1) |-> cursor + i - 1]
             /\ cursor' = last + 1
          \/ /\ "error" \in Controls \/ innerDone
             /\ item' = Err /\ cursor' = cursor
    /\ UNCHANGED <<state, run, ret, from, ctxDone, innerDone, woken, batch, ctl,
                   prefetch, pub>>

FetchPut ==
    /\ fetch = "put"
    /\ \/ /\ prefetch = <<>> /\ prefetch' = <<item>>
          /\ fetch' = IF item \in {Eof, Err} THEN "over" ELSE "next"
       \/ innerDone /\ fetch' = "over" /\ prefetch' = prefetch
    /\ UNCHANGED <<state, run, ret, from, ctxDone, innerDone, woken, batch, ctl, item,
                   cursor, pub>>

-----------------------------------------------------------------------------
(* Clock.Schedule                                                          *)

\* Before every event: cancelled, paused, or on to the delay.
ScheduleCheck ==
    /\ run = "check" /\ woken' = FALSE
    /\ run' = IF innerDone \/ batch = <<>> THEN "select"
              ELSE IF paused THEN "blocked" ELSE "delay"
    /\ UNCHANGED <<state, ret, from, ctxDone, innerDone, batch, ctl, fet, pub>>

waitIfPaused ==
    /\ run = "blocked"
    /\ \/ woken /\ run' = "delay"
       \/ innerDone /\ run' = "select"
    /\ UNCHANGED <<state, ret, from, ctxDone, innerDone, woken, batch, ctl, fet, pub>>

\* The delay is cut short by a cancelled context.
DelayCancelled ==
    /\ run = "delay" /\ innerDone /\ run' = "select"
    /\ UNCHANGED <<state, ret, from, ctxDone, innerDone, woken, batch, ctl, fet, pub>>

Publish(next) ==
    /\ run = "delay" /\ run' = next
    /\ emitted' = emitted \union {Head(batch)} /\ batch' = Tail(batch)
    /\ late' = IF state = "Paused" THEN late + 1 ELSE 0
    /\ UNCHANGED <<state, ret, from, ctxDone, innerDone, woken, ctl, fet>>

\* Mutation: the pause is looked at once per batch.
PublishEvent_Batch == Publish(IF Len(batch) > 1 THEN "delay" ELSE "check")

PublishEvent == Publish("check")

runLoop ==
    \/ RunStart \/ RunTop \/ RunInner \/ StreamSelect \/ StreamReturn \/ RunFinal
    \/ ScheduleCheck \/ waitIfPaused \/ DelayCancelled \/ PublishEvent

prefetchLoop == FetchNext \/ FetchPut

Next ==
    /\ run # "panic"
    /\ \/ runLoop \/ prefetchLoop \/ Pause \/ Resume \/ Stop \/ StopCancel
       \/ CallerCancel
       \/ \E t \in 1..Events : Seek(t)

Spec == Init /\ [][Next]_vars

\* Runnable goroutines are scheduled, and Stop calls cancel after unlocking.
FairSpec ==
    /\ Spec /\ WF_vars(run # "panic" /\ runLoop)
    /\ WF_vars(run # "panic" /\ prefetchLoop)
    /\ WF_vars(run # "panic" /\ StopCancel)

-----------------------------------------------------------------------------

\* Type invariant of the session; the prefetch channel holds one batch.
TypeOK ==
    /\ state \in {"Created", "Initializing", "Running", "Paused", "Seeking",
                  "Completed", "Destroyed"}
    /\ run \in {"start", "top", "inner", "select", "wait", "final", "check",
                "blocked", "delay", "done", "panic"}
    /\ ret \in {"none", "nil", "error", "canceled"}
    /\ from \in 1..(Events + 1) /\ seekTarget \in 0..Events
    /\ fetch \in {"off", "next", "put", "over"} /\ Len(prefetch) <= 1
    /\ \A v \in {ctxDone, innerDone, stopping, paused, woken} : v \in BOOLEAN
    /\ emitted \subseteq 1..Events

\* The transitions of the run loop are always allowed by the state machine,
\* whatever control calls are made.
NeverPanics == run # "panic"

\* After Pause has returned at most the one event whose pause check lay before
\* it is published, whatever resumes, seeks and clock replacements preceded it.
PausedQuiet == state = "Paused" => late <= 1

\* A session that reports Completed has published every event from its last
\* start to the end of the range.
CompletedMeansAll == state = "Completed" => emitted = from..Events

\* A stopped session ends, also when it was paused, seeking or waiting for the
\* store.
StopEnds == stopping ~> run \in {"done", "panic"}
=============================================================================
