-------------------------- MODULE LifecycleManager --------------------------
(***************************************************************************)
(* The component lifecycle manager (internal/platform/lifecycle).  A       *)
(* component is a set of parts: one part, or those of a ComponentGroup,    *)
(* which start and stop concurrently.  Every Start and Stop runs in its    *)
(* own goroutine, which the manager abandons when the timeout expires and  *)
(* which may still finish later.  StartAll is called once, then StopAll.   *)
(***************************************************************************)
EXTENDS Integers, Sequences

CONSTANT Boot      \* the registered components: a sequence of sets of parts

Parts == UNION {Boot[i] : i \in DOMAIN Boot}

VARIABLES
    phase,      \* "new", "starting", "running", "rollback", "failed", "stopping", "stopped"
    pos,        \* StartAll: component being started; rollback: index in started
    waiting,    \* the manager waits for the goroutine of that component
    life,       \* part -> "off", "starting", "on", "stopping"
    started,    \* m.started, as positions in Boot
    unclean     \* parts whose Stop failed or was abandoned

lifeVars == <<phase, pos, waiting, life, started, unclean>>

LifeInit ==
    /\ phase = "new" /\ pos = 1 /\ waiting = FALSE
    /\ life = [p \in Parts |-> "off"] /\ started = <<>> /\ unclean = {}

Moved(ps, state) == [p \in Parts |-> IF p \in ps THEN state ELSE life[p]]

-----------------------------------------------------------------------------
(* StartAll                                                                *)

StartAll ==
    /\ phase = "new" /\ phase' = "starting"
    /\ UNCHANGED <<pos, waiting, life, started, unclean>>

\* The goroutine of the next component, or the hooks after the last one.
StartNext ==
    /\ phase = "starting" /\ ~waiting
    /\ IF pos <= Len(Boot)
       THEN waiting' = TRUE /\ life' = Moved(Boot[pos], "starting") /\ UNCHANGED phase
       ELSE phase' = "running" /\ UNCHANGED <<waiting, life>>
    /\ UNCHANGED <<pos, started, unclean>>

\* A part's Start returns, in time or after it was abandoned.
PartStarts(p) ==
    /\ life[p] = "starting"
    /\ \E r \in {"on", "off"} : life' = [life EXCEPT ![p] = r]
    /\ UNCHANGED <<phase, pos, waiting, started, unclean>>

Rollback(list) ==
    /\ phase' = "rollback" /\ waiting' = FALSE /\ pos' = Len(list) /\ started' = list

\* Start has returned (a group waits for all its parts): the first error rolls
\* back what is in started, which the failed component is not.
StartReturns ==
    /\ phase = "starting" /\ waiting /\ \A p \in Boot[pos] : life[p] # "starting"
    /\ IF \A p \in Boot[pos] : life[p] = "on"
       THEN /\ started' = Append(started, pos) /\ pos' = pos + 1
            /\ waiting' = FALSE /\ UNCHANGED phase
       ELSE Rollback(started)
    /\ UNCHANGED <<life, unclean>>

\* The timeout, also when Start returns at the same moment.
StartTimesOut ==
    /\ phase = "starting" /\ waiting /\ Rollback(started)
    /\ UNCHANGED <<life, unclean>>

-----------------------------------------------------------------------------
(* StopAll and rollbackUnlocked                                            *)

StopAll ==
    /\ phase = "running" /\ phase' = "stopping" /\ pos' = Len(started)
    /\ UNCHANGED <<waiting, life, started, unclean>>

Stopping == phase \in {"rollback", "stopping"}

\* The goroutine that stops the latest component not yet stopped.
StopNext ==
    /\ Stopping /\ ~waiting /\ pos > 0 /\ waiting' = TRUE
    /\ life' = Moved(Boot[started[pos]], "stopping")
    /\ UNCHANGED <<phase, pos, started, unclean>>

PartStops(p) ==
    /\ life[p] = "stopping"
    /\ \/ life' = [life EXCEPT ![p] = "off"] /\ UNCHANGED unclean
       \/ life' = [life EXCEPT ![p] = "on"] /\ unclean' = unclean \union {p}
    /\ UNCHANGED <<phase, pos, waiting, started>>

\* Errors are collected and the loop goes on.
StopReturns ==
    /\ Stopping /\ waiting /\ \A p \in Boot[started[pos]] : life[p] # "stopping"
    /\ waiting' = FALSE /\ pos' = pos - 1
    /\ UNCHANGED <<phase, life, started, unclean>>

\* Mutation: the rollback ends at the first component that does not stop.
StopTimesOut_Abort ==
    /\ Stopping /\ waiting /\ waiting' = FALSE /\ pos' = 0
    /\ unclean' = unclean \union {p \in Boot[started[pos]] : life[p] = "stopping"}
    /\ UNCHANGED <<phase, life, started>>

StopTimesOut ==
    /\ Stopping /\ waiting /\ waiting' = FALSE /\ pos' = pos - 1
    /\ unclean' = unclean \union {p \in Boot[started[pos]] : life[p] = "stopping"}
    /\ UNCHANGED <<phase, life, started>>

RollbackEnds ==
    /\ Stopping /\ ~waiting /\ pos = 0 /\ started' = <<>>
    /\ phase' = IF phase = "rollback" THEN "failed" ELSE "stopped"
    /\ UNCHANGED <<pos, waiting, life, unclean>>

-----------------------------------------------------------------------------
Manager ==
    \/ StartNext \/ StartReturns \/ StartTimesOut
    \/ StopNext \/ StopReturns \/ StopTimesOut \/ RollbackEnds

LifeNext ==
    \/ StartAll \/ StopAll \/ Manager
    \/ \E p \in Parts : PartStarts(p) \/ PartStops(p)

LifeSpec == LifeInit /\ [][LifeNext]_lifeVars

\* The manager's goroutine runs on and timers expire; parts may hang for ever.
LifeFairSpec == LifeSpec /\ WF_lifeVars(Manager)

-----------------------------------------------------------------------------

\* Type invariant of the manager.
LifeTypes ==
    /\ phase \in {"new", "starting", "running", "rollback", "failed", "stopping",
                  "stopped"}
    /\ pos \in 0..(Len(Boot) + 1) /\ waiting \in BOOLEAN
    /\ life \in [Parts -> {"off", "starting", "on", "stopping"}]
    /\ started \in Seq(DOMAIN Boot) /\ unclean \subseteq Parts
    /\ phase \in {"failed", "stopped"} => started = <<>>

\* While a component starts, every earlier one is up; while one is stopped, every
\* earlier one is still up: "strictly in reverse (LIFO)" also when parts fail or
\* hang (StartAll, rollbackUnlocked).
DependenciesUp ==
    /\ phase = "starting" =>
         \A i \in 1..(pos - 1) : \A p \in Boot[i] : life[p] = "on"
    /\ Stopping =>
         \A i \in 1..(pos - 1) : \A p \in Boot[started[i]] : life[p] = "on"

\* After a failed boot or a shutdown a part is left running only if its own Stop
\* failed or hung, or if it belongs to the component whose Start failed or hung;
\* that one is not rolled back.
OnlyFailedLeft ==
    phase \in {"failed", "stopped"} =>
        \E i \in 0..Len(Boot) :
            /\ phase = "stopped" => i = 0
            /\ \A p \in Parts : life[p] # "off" =>
                 p \in unclean \/ (i > 0 /\ p \in Boot[i])

\* StartAll and StopAll return although parts hang.
ManagerReturns ==
    /\ phase = "starting" ~> phase \in {"running", "failed"}
    /\ phase = "stopping" ~> phase = "stopped"

\* Components boot and roll back in order and only failed parts are left
\* (StartAll, rollbackUnlocked, ComponentGroup.Start).
BootOrder == LifeTypes /\ DependenciesUp /\ OnlyFailedLeft

\* Boot is a sequence, and a part belongs to one component.
Registered ==
    /\ Boot \in Seq(SUBSET Parts)
    /\ \A i, j \in DOMAIN Boot : i # j => Boot[i] \cap Boot[j] = {}
=============================================================================
