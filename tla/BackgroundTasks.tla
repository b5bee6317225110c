----------------------------- MODULE BackgroundTasks -----------------------------
(***************************************************************************)
(* One background task of one site across the replacements of the site's   *)
(* runtime: the catalog publishes snapshots, the manager goroutine applies *)
(* them, and each instance of the task runs in a goroutine of its own that *)
(* waits for the instance it replaces.                                     *)
(***************************************************************************)
EXTENDS Naturals, FiniteSets

CONSTANT MaxRuntimes  \* bound: runtimes of the site the catalog ever builds

ASSUME BackgroundAssumption == MaxRuntimes \in Nat

Runtimes == 1..MaxRuntimes
NoRuntime == 0

VARIABLES
    current,    \* the runtime in the published snapshot, NoRuntime without one
    built,      \* runtimes built so far
    update,     \* "none", or a snapshot stored and not yet applied
    active,     \* the manager's entry for the task: the runtime it belongs to
    cancelled,  \* instances whose context is cancelled
    task,       \* task[r]: the goroutine of the instance of runtime r
    waitsFor,   \* waitsFor[r]: the instance r waits for, NoRuntime for none
    manager     \* "running", "stopping" (context cancelled) or "returned"

taskVars == <<current, built, update, active, cancelled, task, waitsFor, manager>>

TasksInit ==
    /\ current = NoRuntime /\ built = 0
    /\ update = "none"
    /\ active = NoRuntime
    /\ cancelled = {}
    /\ task = [r \in Runtimes |-> "absent"]
    /\ waitsFor = [r \in Runtimes |-> NoRuntime]
    /\ manager = "running"

Alive == {r \in Runtimes : task[r] \in {"waiting", "running", "pausing"}}

-----------------------------------------------------------------------------
(* The site catalog, holding mutationMu from the store to the end of the   *)
(* publications.                                                           *)

\* publishRuntimeSnapshot stores the snapshot first.  The site's runtime is
\* new, removed, or carried over because another site changed.
StoreSnapshot ==
    /\ update = "none"
    /\ \/ built < MaxRuntimes /\ built' = built + 1 /\ current' = built + 1
       \/ UNCHANGED built /\ current' \in {current, NoRuntime}
    /\ update' = "stored"
    /\ UNCHANGED <<active, cancelled, task, waitsFor, manager>>

\* publish does not wait for a manager that is stopping.
AbandonUpdate ==
    /\ update = "stored" /\ manager # "running"
    /\ update' = "none"
    /\ UNCHANGED <<current, built, active, cancelled, task, waitsFor, manager>>

-----------------------------------------------------------------------------
(* The manager: apply and run.                                             *)

\* Mutant: the replaced instance is left running.
ApplyKeepsStale ==
    /\ update = "stored" /\ manager # "returned"
    /\ update' = "none"
    /\ active' = current
    /\ IF active \in {current, NoRuntime} \/ current = NoRuntime
       THEN UNCHANGED cancelled
       ELSE cancelled' = cancelled \cup (IF manager = "stopping" THEN {current} ELSE {})
    /\ IF current \in {active, NoRuntime}
       THEN UNCHANGED <<task, waitsFor>>
       ELSE task' = [task EXCEPT ![current] = "waiting"] /\ waitsFor' = [waitsFor EXCEPT ![current] = active]
    /\ UNCHANGED <<current, built, manager>>

\* An instance of another runtime is cancelled and forgotten; the instance of
\* the current runtime is started unless it is there, and waits for the one
\* that this update cancelled.  The select may still take an update after the
\* context is cancelled.
Apply ==
    /\ update = "stored" /\ manager # "returned"
    /\ update' = "none"
    /\ active' = current
    /\ cancelled' = cancelled \cup (IF active = current THEN {} ELSE {active} \ {NoRuntime})
                              \cup (IF manager = "stopping" THEN {current} \ {NoRuntime} ELSE {})
    /\ IF current \in {active, NoRuntime}
       THEN UNCHANGED <<task, waitsFor>>
       ELSE task' = [task EXCEPT ![current] = "waiting"] /\ waitsFor' = [waitsFor EXCEPT ![current] = active]
    /\ UNCHANGED <<current, built, manager>>

\* The worker context is cancelled, and with it the context of every instance.
Shutdown ==
    /\ manager = "running"
    /\ manager' = "stopping"
    /\ cancelled' = cancelled \cup Alive
    /\ UNCHANGED <<current, built, update, active, task, waitsFor>>

\* workers.Wait
Return ==
    /\ manager = "stopping"
    /\ Alive = {}
    /\ manager' = "returned"
    /\ UNCHANGED <<current, built, update, active, cancelled, task, waitsFor>>

-----------------------------------------------------------------------------
(* The goroutine of an instance.                                           *)

Becomes(r, state) ==
    /\ task' = [task EXCEPT ![r] = state]
    /\ UNCHANGED <<current, built, update, active, cancelled, waitsFor, manager>>

Ended(r) == r # NoRuntime => task[r] = "ended"

\* The instance it replaces has closed its done channel.
Start(r) ==
    /\ task[r] = "waiting"
    /\ Ended(waitsFor[r]) /\ r \notin cancelled
    /\ Becomes(r, "running")

\* Mutant: it returns without closing its done channel.
GiveUpSilently(r) ==
    /\ task[r] = "waiting" /\ r \in cancelled
    /\ Becomes(r, "absent")

\* Replaced itself before it could start: its done channel is closed although
\* the instance it waits for may still run.
GiveUp(r) ==
    /\ task[r] = "waiting" /\ r \in cancelled
    /\ Becomes(r, "ended")

\* task.run returns, with or without an error; it is started again after
\* five seconds unless the instance is cancelled.
RunReturns(r) ==
    /\ task[r] = "running"
    /\ Becomes(r, IF r \in cancelled THEN "ended" ELSE "pausing")

\* Mutant: a task that returned is not started again.
PauseEndsForGood(r) ==
    /\ task[r] = "pausing"
    /\ Becomes(r, "ended")

PauseEnds(r) ==
    /\ task[r] = "pausing"
    /\ Becomes(r, IF r \in cancelled THEN "ended" ELSE "running")

Goroutine(r) == Start(r) \/ GiveUp(r) \/ RunReturns(r) \/ PauseEnds(r)

TasksNext ==
    \/ StoreSnapshot \/ AbandonUpdate
    \/ Apply \/ Shutdown \/ Return
    \/ \E r \in Runtimes : Goroutine(r)

TasksSpec == TasksInit /\ [][TasksNext]_taskVars

\* The manager runs; goroutines are scheduled; a task returns once its
\* context is cancelled, which is its contract.
TasksFairness ==
    /\ WF_taskVars(Apply \/ AbandonUpdate) /\ WF_taskVars(Return)
    /\ \A r \in Runtimes :
          /\ WF_taskVars(Start(r) \/ GiveUp(r) \/ PauseEnds(r))
          /\ WF_taskVars(RunReturns(r) /\ r \in cancelled)

TasksFairSpec == TasksSpec /\ TasksFairness

-----------------------------------------------------------------------------
(* Properties.                                                             *)

\* Every variable has its type, and the manager's entry has a goroutine.
TasksTypeOK ==
    /\ current \in 0..MaxRuntimes /\ built \in 0..MaxRuntimes
    /\ active \in 0..MaxRuntimes
    /\ update \in {"none", "stored"}
    /\ cancelled \subseteq Runtimes
    /\ task \in [Runtimes -> {"absent", "waiting", "running", "pausing", "ended"}]
    /\ waitsFor \in [Runtimes -> 0..MaxRuntimes]
    /\ manager \in {"running", "stopping", "returned"}
    /\ active # NoRuntime => task[active] # "absent"

\* Whatever the order of replacements, removals and goroutine steps, at most
\* one instance of the task is not cancelled, the one the manager knows: no
\* instance is forgotten while it goes on (apply deletes only what it cancels).
\* When the manager has returned none is left at all: App.Close closes the
\* connectors only after that.
NoInstanceForgotten ==
    /\ Alive \ cancelled \subseteq {active}
    /\ manager = "returned" => Alive = {}

\* The task of a published runtime comes to run, unless the runtime is
\* replaced again or the application stops.
CurrentTaskRuns ==
    \A r \in Runtimes :
        (current = r) ~> (task[r] = "running" \/ current # r \/ manager # "running")

\* An instance whose context is cancelled goes away, also when it waits for
\* another one; so the application can stop.
CancelledEnds == \A r \in Runtimes : r \in cancelled ~> task[r] = "ended"
================================================================================
