-------------------------- MODULE RecoveryManager --------------------------
(***************************************************************************)
(* The restart orchestrator (recovery/recovery.go): Recover walks through  *)
(* its states, waits for the dependencies that other goroutines register   *)
(* and report, and SetState writes every state to a file by way of a       *)
(* temporary one, with I/O errors and crashes at any point.  A state path  *)
(* is configured.                                                          *)
(***************************************************************************)
EXTENDS Naturals, FiniteSets

CONSTANTS
    Names,              \* names of dependencies
    MaxRecoveries,      \* bound: calls of Recover over all processes
    MaxFaults,          \* bound: I/O errors and crashes
    MaxCalls            \* bound: calls of RegisterDependency and DependencyReady

VARIABLES
    state, deps, recoveryCnt,   \* the fields of RecoveryManager
    file, tmp,          \* the recovery file and its temporary, Absent or Torn
    pc,                 \* where Recover stands
    cancelled,          \* the context of Recover is done
    stale,              \* the last SetState did not reach the file
    late,               \* dependencies registered since the wait was over
    recoveries, faults, calls

vars == <<state, deps, recoveryCnt, file, tmp, pc, cancelled, stale, late,
          recoveries, faults, calls>>

Absent == [state |-> "absent", cnt |-> 0]
Torn == [state |-> "torn", cnt |-> 0]
NoDeps == [d \in {} |-> FALSE]

Init ==
    /\ state = "init" /\ deps = NoDeps /\ recoveryCnt = 0
    /\ file = Absent /\ tmp = Absent /\ pc = "idle" /\ cancelled = FALSE
    /\ stale = FALSE /\ late = {} /\ recoveries = 0 /\ faults = 0 /\ calls = 0

\* Where Recover goes on after SetState.
After(s) ==
    CASE s = "loading" -> "load" [] s = "connecting" -> "wait" [] s = "recovering" -> "fn"
      [] s = "building" -> "built" [] OTHER -> "done"

\* SetState up to persistState.
SetState(s) == state' = s /\ pc' = "write"

\* persistState: the temporary file is written; a failed write may leave a part.
WriteTmp ==
    /\ pc = "write"
    /\ \/ /\ tmp' = [state |-> state, cnt |-> recoveryCnt] /\ pc' = "rename"
          /\ UNCHANGED <<stale, faults>>
       \/ /\ faults < MaxFaults /\ faults' = faults + 1
          /\ tmp' \in {tmp, Torn} /\ pc' = After(state) /\ stale' = TRUE
    /\ UNCHANGED <<state, deps, recoveryCnt, file, cancelled, late, recoveries, calls>>

Rename ==
    /\ pc = "rename" /\ tmp' = Absent /\ pc' = After(state)
    /\ \/ file' = tmp /\ stale' = FALSE /\ UNCHANGED faults
       \/ /\ faults < MaxFaults /\ faults' = faults + 1
          /\ stale' = TRUE /\ UNCHANGED file
    /\ UNCHANGED <<state, deps, recoveryCnt, cancelled, late, recoveries, calls>>

--------------------------------------------------------------------------
(* Recover                                                                 *)

Recover ==
    /\ pc \in {"idle", "done"} /\ recoveries < MaxRecoveries
    /\ SetState("loading")
    /\ recoveries' = recoveries + 1 /\ late' = {} /\ cancelled' = FALSE
    /\ UNCHANGED <<deps, recoveryCnt, file, tmp, stale, faults, calls>>

\* loadState and recoveryCnt++; without a file, or when it cannot be read, the
\* count in memory goes on.
LoadState ==
    /\ pc = "load"
    /\ \/ /\ file # Absent /\ recoveryCnt' = file.cnt + 1 /\ UNCHANGED faults
       \/ /\ file = Absent /\ recoveryCnt' = recoveryCnt + 1 /\ UNCHANGED faults
       \/ /\ file # Absent /\ faults < MaxFaults /\ faults' = faults + 1
          /\ recoveryCnt' = recoveryCnt + 1
    /\ SetState("connecting")
    /\ UNCHANGED <<deps, file, tmp, cancelled, stale, late, recoveries, calls>>

\* WaitForDependencies: all are ready, or the context is done.
WaitForDependencies ==
    /\ pc = "wait"
    /\ \/ (\A d \in DOMAIN deps : deps[d]) /\ pc' = "checked" /\ UNCHANGED state
       \/ cancelled /\ SetState("failed")
    /\ UNCHANGED <<deps, recoveryCnt, file, tmp, cancelled, stale, late, recoveries, faults, calls>>

Waited ==
    /\ pc = "checked" /\ SetState("recovering")
    /\ UNCHANGED <<deps, recoveryCnt, file, tmp, cancelled, stale, late, recoveries, faults, calls>>

\* recoverFn returns.
RecoverFn ==
    /\ pc = "fn" /\ (SetState("building") \/ SetState("failed"))
    /\ UNCHANGED <<deps, recoveryCnt, file, tmp, cancelled, stale, late, recoveries, faults, calls>>

Built ==
    /\ pc = "built" /\ SetState("ready")
    /\ UNCHANGED <<deps, recoveryCnt, file, tmp, cancelled, stale, late, recoveries, faults, calls>>

--------------------------------------------------------------------------
(* Other goroutines                                                        *)

Mark(d, ready) ==
    /\ calls < MaxCalls /\ calls' = calls + 1
    /\ deps' = [x \in DOMAIN deps \cup {d} |-> IF x = d THEN ready ELSE deps[x]]
    /\ UNCHANGED <<state, recoveryCnt, file, tmp, pc, cancelled, stale, recoveries, faults>>

RegisterDependency(d) ==
    /\ Mark(d, FALSE)
    /\ late' = IF pc = "checked" \/ state \in {"recovering", "building", "ready"}
               THEN late \cup {d} ELSE late

DependencyReady(d) == Mark(d, TRUE) /\ UNCHANGED late

Cancel ==
    /\ ~cancelled /\ cancelled' = TRUE
    /\ UNCHANGED <<state, deps, recoveryCnt, file, tmp, pc, stale, late, recoveries, faults, calls>>

\* The process ends and another one starts with what is on the disk.
Crash ==
    /\ faults < MaxFaults /\ faults' = faults + 1
    /\ state' = "init" /\ deps' = NoDeps /\ recoveryCnt' = 0 /\ pc' = "idle"
    /\ cancelled' = FALSE /\ late' = {} /\ stale' = TRUE
    /\ tmp' \in (IF pc = "write" THEN {tmp, Torn} ELSE {tmp})
    /\ UNCHANGED <<file, recoveries, calls>>

RecoverStep == WriteTmp \/ Rename \/ LoadState \/ WaitForDependencies \/ Waited
               \/ RecoverFn \/ Built

Next ==
    \/ RecoverStep \/ Recover \/ Cancel \/ Crash
    \/ \E d \in Names : RegisterDependency(d) \/ DependencyReady(d)

Spec == Init /\ [][Next]_vars

\* Recover's goroutine is scheduled, and the recovery function returns.
FairSpec == Spec /\ WF_vars(RecoverStep)
--------------------------------------------------------------------------
\* The manager leaves the wait, and reports ready, only when every dependency
\* that was registered before the end of the wait is ready
\* (WaitForDependencies, SetState).
ReadyAfterDependencies ==
    state \in {"recovering", "building", "ready"} =>
        \A d \in DOMAIN deps : deps[d] \/ d \in late

\* The file is never torn, and between two states it holds the current one,
\* unless an I/O error or a crash came in between (persistState).
FileFollows ==
    /\ file # Torn
    /\ (pc \notin {"write", "rename", "idle"} /\ ~stale) => file.state = state

\* The count never exceeds the number of recoveries begun, in memory and in
\* the file (LoadState, persistState).
CountBounded == recoveryCnt <= recoveries /\ file.cnt <= recoveries

\* Recover returns once its context is done, unless the process ends before.
RecoverReturns == (pc = "wait" /\ cancelled) ~> pc \in {"done", "idle"}

\* The recovery count in the file survives a restart: without I/O errors the
\* count is the number of recoveries.
\* The code does not have this property: README, section 5.
CountSurvives == (pc = "done" /\ ~stale) => recoveryCnt = recoveries
=============================================================================
