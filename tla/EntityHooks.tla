------------------------------ MODULE EntityHooks ------------------------------
(***************************************************************************)
(* After-hooks of one site: a mutation records its event with one call per *)
(* handler, the consumers of several processes carry the calls out under   *)
(* leases, and a runtime transition of a process drains the registry of    *)
(* the runtime it replaces.                                                *)
(*                                                                         *)
(* A version is a configuration of the site (its profile, the handlers the *)
(* profile registers); one without handlers stands for a removed site.     *)
(* The outbox and the event bus (modules Outbox, EventConsumer) deliver a  *)
(* recorded event to any process, any number of times.                     *)
(***************************************************************************)
EXTENDS Naturals, FiniteSets

CONSTANTS
    Processes,
    Events,       \* the events that mutations may record
    Handlers,
    MaxVersion,   \* bound on the versions of the site
    Handles,      \* Handles[v]: the after-handlers that version v registers
    Profile,      \* Profile[v]: the profile of version v
    Crashable,    \* processes that may stop and start again
    None, Lost

Versions == 1..MaxVersion
Calls == Events \X Handlers

ASSUME HooksAssumption ==
    /\ MaxVersion \in Nat \ {0}
    /\ Handles \in [Versions -> SUBSET Handlers]
    /\ Crashable \subseteq Processes
    /\ None # Lost /\ {None, Lost} \cap (Processes \cup Handlers \cup Versions) = {}
    /\ None \notin [version : Versions, pinned : BOOLEAN]
    /\ None \notin [to : Versions, update : BOOLEAN, checked : BOOLEAN]

VARIABLES
    row,        \* the stored version of the site
    runtime,    \* runtime[p]: the published version, None in a stopped process
    drained,    \* drained[p]: versions whose registry is draining
    transit,    \* transit[p]: the runtime transition in progress
    mutation,   \* mutation[p]: a mutation of an entity of the site
    worker,     \* worker[p]: the consumer of process p
    calls,      \* calls[c]: "none", "pending", "done" or "cleaned"
    lease,      \* lease[c]: who claimed the call; Lost for an attempt that is over
    lapsed,     \* calls whose lease has run out
    recorder,   \* recorder[e]: None, the process that recorded e, Lost once it stopped
    acked       \* events whose handling returned without an error

siteVars == <<row, runtime, drained, transit>>
callVars == <<calls, lease, lapsed>>
vars == <<siteVars, mutation, worker, callVars, recorder, acked>>

Idle == [phase |-> "idle", event |-> None, todo |-> {}, call |-> None, failed |-> FALSE]

Init ==
    /\ row = 1
    /\ runtime = [p \in Processes |-> 1]
    /\ drained = [p \in Processes |-> {}]
    /\ transit = [p \in Processes |-> None]
    /\ mutation = [p \in Processes |-> None]
    /\ worker = [p \in Processes |-> Idle]
    /\ calls = [c \in Calls |-> "none"]
    /\ lease = [c \in Calls |-> None]
    /\ lapsed = {}
    /\ recorder = [e \in Events |-> None]
    /\ acked = {}

Up(p) == runtime[p] # None
Pending == {c \in Calls : calls[c] = "pending"}
PendingHandlers == {c[2] : c \in Pending}

-----------------------------------------------------------------------------
(* The registry of a published runtime: Acquire pins it, Drain asks that   *)
(* nothing pins it.                                                        *)

Engaged(p) == worker[p].phase \in {"acquired", "running", "ran", "erred"}

\* Mutant: mutations in progress are not waited for.
DeliveringOnly(p) == Engaged(p)

Active(p) ==
    \/ mutation[p] # None /\ mutation[p].pinned
    \/ Engaged(p)

CanAcquire(p, v) == v \notin drained[p]

-----------------------------------------------------------------------------
(* A mutation looks up the runtime, pins its registry through the commit,  *)
(* and records a call for each after-handler of that registry.             *)

SetMutation(p, m) == mutation' = [mutation EXCEPT ![p] = m]

FindRuntime(p) ==
    /\ Up(p) /\ mutation[p] = None
    /\ \E e \in Events : recorder[e] = None
    /\ SetMutation(p, [version |-> runtime[p], pinned |-> FALSE])
    /\ UNCHANGED <<siteVars, worker, callVars, recorder, acked>>

Pin(p) ==
    /\ mutation[p] # None /\ ~mutation[p].pinned
    /\ CanAcquire(p, mutation[p].version)
    /\ SetMutation(p, [mutation[p] EXCEPT !.pinned = TRUE])
    /\ UNCHANGED <<siteVars, worker, callVars, recorder, acked>>

\* ErrBusy, the veto of a before-handler, a rollback.
RefuseMutation(p) ==
    /\ mutation[p] # None
    /\ SetMutation(p, None)
    /\ UNCHANGED <<siteVars, worker, callVars, recorder, acked>>

\* The transaction of Append, and the release of the registry after it.
CommitMutation(p) ==
    /\ mutation[p] # None /\ mutation[p].pinned
    /\ \E e \in Events :
          /\ recorder[e] = None
          /\ recorder' = [recorder EXCEPT ![e] = p]
          /\ calls' = [c \in Calls |-> IF c[1] = e /\ c[2] \in Handles[mutation[p].version]
                                       THEN "pending" ELSE calls[c]]
    /\ SetMutation(p, None)
    /\ UNCHANGED <<siteVars, worker, lease, lapsed, acked>>

-----------------------------------------------------------------------------
(* A runtime transition: the preparer drains the current registry, looks   *)
(* at the pending calls, and the catalog commits and publishes, or aborts. *)

SetTransit(p, t) == transit' = [transit EXCEPT ![p] = t]

\* to is the next version of an update of the site, or the stored version
\* that a synchronisation has read.
Drain(p) ==
    /\ Up(p) /\ transit[p] = None /\ ~Active(p)
    /\ \E to \in Versions, update \in BOOLEAN :
          /\ to = (IF update THEN runtime[p] + 1 ELSE row) /\ to # runtime[p]
          /\ SetTransit(p, [to |-> to, update |-> update, checked |-> FALSE])
    /\ drained' = [drained EXCEPT ![p] = @ \cup {runtime[p]}]
    /\ UNCHANGED <<row, runtime, mutation, worker, callVars, recorder, acked>>

\* Pending work survives a rebuild of the same profile with all its handlers.
Survives(p, to) ==
    PendingHandlers # {} => Profile[to] = Profile[runtime[p]] /\ PendingHandlers \subseteq Handles[to]

CheckPending(p) ==
    /\ transit[p] # None /\ ~transit[p].checked
    /\ Survives(p, transit[p].to)
    /\ SetTransit(p, [transit[p] EXCEPT !.checked = TRUE])
    /\ UNCHANGED <<row, runtime, drained, mutation, worker, callVars, recorder, acked>>

\* Mutant: a transition that fails leaves the registry drained.
AbortDrained(p) ==
    /\ transit[p] # None
    /\ SetTransit(p, None)
    /\ UNCHANGED <<row, runtime, drained, mutation, worker, callVars, recorder, acked>>

\* ErrRuntimeTransitionBlocked, a failed read, a commit that fails or finds the
\* row changed.
AbortTransition(p) ==
    /\ transit[p] # None
    /\ SetTransit(p, None)
    /\ drained' = [drained EXCEPT ![p] = @ \ {runtime[p]}]
    /\ UNCHANGED <<row, runtime, mutation, worker, callVars, recorder, acked>>

\* The replaced registry stays drained.
Publish(p) ==
    /\ transit[p] # None /\ transit[p].checked
    /\ transit[p].update => row = runtime[p]
    /\ row' = IF transit[p].update THEN transit[p].to ELSE row
    /\ runtime' = [runtime EXCEPT ![p] = transit[p].to]
    /\ SetTransit(p, None)
    /\ UNCHANGED <<drained, mutation, worker, callVars, recorder, acked>>

-----------------------------------------------------------------------------
(* Runner.Handle and Runner.execute.                                       *)

SetWorker(p, w) == worker' = [worker EXCEPT ![p] = w]
Claimed(p) == <<worker[p].event, worker[p].call>>

Receive(p, e) ==
    /\ Up(p) /\ worker[p].phase = "idle" /\ recorder[e] # None
    /\ SetWorker(p, [Idle EXCEPT !.phase = "next", !.event = e,
                                 !.todo = {h \in Handlers : calls[<<e, h>>] = "pending"}])
    /\ UNCHANGED <<siteVars, mutation, callVars, recorder, acked>>

\* One call less to do; the others go on after an error.
NextCall(w, ok) ==
    [w EXCEPT !.phase = "next", !.todo = @ \ {w.call}, !.call = None, !.failed = @ \/ ~ok]

\* The handler is unavailable in this process, or the registry is draining.
RefuseCall(p, h) ==
    /\ worker[p].phase = "next" /\ h \in worker[p].todo
    /\ h \notin Handles[runtime[p]] \/ ~CanAcquire(p, runtime[p])
    /\ SetWorker(p, NextCall([worker[p] EXCEPT !.call = h], FALSE))
    /\ UNCHANGED <<siteVars, mutation, callVars, recorder, acked>>

AcquireFor(p, h) ==
    /\ worker[p].phase = "next" /\ h \in worker[p].todo
    /\ h \in Handles[runtime[p]] /\ CanAcquire(p, runtime[p])
    /\ SetWorker(p, [worker[p] EXCEPT !.phase = "acquired", !.call = h])
    /\ UNCHANGED <<siteVars, mutation, callVars, recorder, acked>>

\* Mutant: a lease that runs is taken over.
ClaimableAnyway(c) == c \in Pending

Claimable(c) == c \in Pending /\ (lease[c] = None \/ c \in lapsed)

TakeLease(c, owner) ==
    /\ lease' = [lease EXCEPT ![c] = owner]
    /\ lapsed' = lapsed \ {c}
    /\ UNCHANGED calls

Claim(p) ==
    /\ worker[p].phase = "acquired" /\ Claimable(Claimed(p))
    /\ TakeLease(Claimed(p), p)
    /\ SetWorker(p, [worker[p] EXCEPT !.phase = "running"])
    /\ UNCHANGED <<siteVars, mutation, recorder, acked>>

\* Mutant: a call that somebody else works on counts as handled.
NotMine(p) ==
    /\ worker[p].phase = "acquired" /\ ~Claimable(Claimed(p))
    /\ SetWorker(p, NextCall(worker[p], TRUE))
    /\ UNCHANGED <<siteVars, mutation, callVars, recorder, acked>>

ClaimBusy(p) ==
    /\ worker[p].phase = "acquired" /\ ~Claimable(Claimed(p))
    /\ SetWorker(p, NextCall(worker[p], FALSE))
    /\ UNCHANGED <<siteVars, mutation, callVars, recorder, acked>>

\* The statement fails, or is carried out and its answer is lost.
ClaimFails(p) ==
    /\ worker[p].phase = "acquired"
    /\ \/ Claimable(Claimed(p)) /\ TakeLease(Claimed(p), Lost)
       \/ UNCHANGED callVars
    /\ SetWorker(p, NextCall(worker[p], FALSE))
    /\ UNCHANGED <<siteVars, mutation, recorder, acked>>

\* The handler returns, fails, panics, or is ended by its context.
HandlerReturns(p) ==
    /\ worker[p].phase = "running"
    /\ \E outcome \in {"ran", "erred"} : SetWorker(p, [worker[p] EXCEPT !.phase = outcome])
    /\ UNCHANGED <<siteVars, mutation, callVars, recorder, acked>>

Mine(p) == lease[Claimed(p)] = p /\ Claimed(p) \in Pending

\* The attempt is over: its owner token will not be used again.
LetGo(p) == lease' = [lease EXCEPT ![Claimed(p)] = IF @ = p THEN Lost ELSE @]

Complete(p) ==
    /\ worker[p].phase = "ran"
    /\ Mine(p) /\ Claimed(p) \notin lapsed
    /\ calls' = [calls EXCEPT ![Claimed(p)] = "done"]
    /\ lease' = [lease EXCEPT ![Claimed(p)] = None]
    /\ \E ok \in BOOLEAN : SetWorker(p, NextCall(worker[p], ok))  \* or the answer is lost
    /\ UNCHANGED <<siteVars, mutation, lapsed, recorder, acked>>

Fail(p) ==
    /\ worker[p].phase = "erred" /\ Mine(p)
    /\ lease' = [lease EXCEPT ![Claimed(p)] = None]
    /\ lapsed' = lapsed \ {Claimed(p)}
    /\ SetWorker(p, NextCall(worker[p], FALSE))
    /\ UNCHANGED <<siteVars, mutation, calls, recorder, acked>>

\* The lease was lost, or the statement failed.
ResultLost(p) ==
    /\ worker[p].phase \in {"ran", "erred"}
    /\ LetGo(p)
    /\ SetWorker(p, NextCall(worker[p], FALSE))
    /\ UNCHANGED <<siteVars, mutation, calls, lapsed, recorder, acked>>

\* The bus sees the joined error: it commits the record, or delivers it again.
Finish(p) ==
    /\ worker[p].phase = "next" /\ worker[p].todo = {}
    /\ acked' = IF worker[p].failed THEN acked ELSE acked \cup {worker[p].event}
    /\ SetWorker(p, Idle)
    /\ UNCHANGED <<siteVars, mutation, callVars, recorder>>

Running(p, c) == worker[p].phase = "running" /\ Claimed(p) = c

\* A handler has one minute, a lease two.
LeaseLapses(c) ==
    /\ lease[c] # None /\ c \notin lapsed
    /\ \A p \in Processes : lease[c] = p => ~Running(p, c)
    /\ lapsed' = lapsed \cup {c}
    /\ UNCHANGED <<siteVars, mutation, worker, calls, lease, recorder, acked>>

\* Completed calls of an event without pending ones, seven days later.
Cleanup(c) ==
    /\ calls[c] = "done" /\ \A h \in Handlers : <<c[1], h>> \notin Pending
    /\ calls' = [calls EXCEPT ![c] = "cleaned"]
    /\ UNCHANGED <<siteVars, mutation, worker, lease, lapsed, recorder, acked>>

-----------------------------------------------------------------------------

Stop(p) ==
    /\ p \in Crashable /\ Up(p)
    /\ runtime' = [runtime EXCEPT ![p] = None]
    /\ drained' = [drained EXCEPT ![p] = {}]
    /\ SetTransit(p, None)
    /\ SetMutation(p, None)
    /\ SetWorker(p, Idle)
    /\ lease' = [c \in Calls |-> IF lease[c] = p THEN Lost ELSE lease[c]]
    /\ recorder' = [e \in Events |-> IF recorder[e] = p THEN Lost ELSE recorder[e]]
    /\ UNCHANGED <<row, calls, lapsed, acked>>

\* ValidatePending: the start fails when a pending call has no handler.
Boot(p) ==
    /\ ~Up(p) /\ PendingHandlers \subseteq Handles[row]
    /\ runtime' = [runtime EXCEPT ![p] = row]
    /\ UNCHANGED <<row, drained, transit, mutation, worker, callVars, recorder, acked>>

Mutate(p) == FindRuntime(p) \/ Pin(p) \/ RefuseMutation(p) \/ CommitMutation(p)
Transition(p) == Drain(p) \/ CheckPending(p) \/ AbortTransition(p) \/ Publish(p)
Execute(p) ==
    \/ \E h \in Handlers : RefuseCall(p, h) \/ AcquireFor(p, h)
    \/ Claim(p) \/ ClaimBusy(p) \/ ClaimFails(p) \/ HandlerReturns(p)
    \/ Complete(p) \/ Fail(p) \/ ResultLost(p)

Next ==
    \/ \E p \in Processes : Mutate(p) \/ Transition(p) \/ Execute(p) \/ Finish(p) \/ Stop(p) \/ Boot(p)
    \/ \E p \in Processes, e \in Events : Receive(p, e)
    \/ \E c \in Calls : LeaseLapses(c) \/ Cleanup(c)

Spec == Init /\ [][Next]_vars

-----------------------------------------------------------------------------
(* Properties.                                                             *)

\* The types; calls exist only for recorded events; a stopped process does
\* nothing; a process out of a transition has its registry open.
TypeOK ==
    /\ row \in Versions
    /\ \A p \in Processes :
          /\ runtime[p] \in Versions \cup {None} /\ drained[p] \subseteq Versions
          /\ transit[p] # None => transit[p].to \in Versions
          /\ mutation[p] # None => mutation[p].version \in Versions
          /\ ~Up(p) => worker[p] = Idle /\ mutation[p] = None /\ transit[p] = None
          /\ Up(p) => (runtime[p] \in drained[p] <=> transit[p] # None)
          /\ Engaged(p) <=> worker[p].call # None
    /\ calls \in [Calls -> {"none", "pending", "done", "cleaned"}]
    /\ \A c \in Calls : calls[c] # "none" => recorder[c[1]] # None
    /\ lease \in [Calls -> Processes \cup {None, Lost}]
    /\ lapsed \subseteq Calls /\ acked \subseteq Events
    /\ recorder \in [Events -> Processes \cup {None, Lost}]

\* A handler runs for a call in one process at a time, and never for a call
\* that is completed, however often the event is delivered and wherever
\* leases, claims and results cross.
OneHandlerAtATime ==
    \A c \in Calls : \A p, q \in Processes :
        Running(p, c) => c \in Pending /\ (Running(q, c) => p = q)

\* An event is acknowledged only when none of its calls is left: one that was
\* busy, refused or lost its result in the last delivery brings it back.
AckedIsDone == \A c \in Pending : c[1] \notin acked

\* The process that recorded a call keeps a handler for it as long as it
\* runs: no transition slips between the commit of a mutation and the
\* preparer's look at the pending calls.
RecorderKeepsHandler ==
    \A c \in Pending : recorder[c[1]] \in Processes => c[2] \in Handles[runtime[recorder[c[1]]]]
================================================================================
