---------------------------------- MODULE AppProofs ----------------------------------
(***************************************************************************)
(* What follows the runtimes of a site in package app.  The safety of the  *)
(* after-hooks, for any number of processes, events, handlers and versions *)
(* of the site; and that of its background tasks, for any number of        *)
(* runtimes that replace each other.                                       *)
(***************************************************************************)
EXTENDS EntityHooks, BackgroundTasks, TLAPS

-----------------------------------------------------------------------------
(* The inductive invariant.                                                *)

Mutations == [version : Versions, pinned : BOOLEAN]
Transits == [to : Versions, update : BOOLEAN, checked : BOOLEAN]
Workers ==
    [phase : {"idle", "next", "acquired", "running", "ran", "erred"},
     event : Events \cup {None}, todo : SUBSET Handlers, call : Handlers \cup {None},
     failed : BOOLEAN]

\* The full types; a worker that is not idle has an event.
Typed ==
    /\ TypeOK
    /\ runtime \in [Processes -> Versions \cup {None}]
    /\ drained \in [Processes -> SUBSET Versions]
    /\ mutation \in [Processes -> Mutations \cup {None}]
    /\ transit \in [Processes -> Transits \cup {None}]
    /\ worker \in [Processes -> Workers]
    /\ \A p \in Processes : worker[p].phase # "idle" => worker[p].event \in Events

\* Versions only grow: a process publishes none it has drained before.
VersionInv ==
    \A p \in Processes :
        /\ ~Up(p) => drained[p] = {}
        /\ Up(p) => runtime[p] <= row /\ \A v \in drained[p] : v <= runtime[p]
        /\ transit[p] # None =>
              /\ runtime[p] < transit[p].to
              /\ transit[p].update => transit[p].to = runtime[p] + 1
              /\ ~transit[p].update => transit[p].to <= row

\* A handler runs under a lease of its process that has not run out.
LeaseInv ==
    \A p \in Processes : worker[p].phase = "running" =>
        lease[Claimed(p)] = p /\ Claimed(p) \in Pending \ lapsed

\* A delivery without an error so far has every pending call still to do; no
\* call is added to an event that was delivered.
DeliveryInv ==
    /\ \A e \in acked : recorder[e] # None
    /\ \A p \in Processes : worker[p].phase # "idle" =>
          /\ recorder[worker[p].event] # None
          /\ ~worker[p].failed =>
                \A h \in Handlers : <<worker[p].event, h>> \in Pending => h \in worker[p].todo

\* What a mutation has pinned is the published registry, and no transition is
\* in progress; one that looked up a replaced registry finds it drained.
PinInv ==
    \A p \in Processes : mutation[p] # None =>
        /\ mutation[p].version \in drained[p] \cup {runtime[p]}
        /\ mutation[p].pinned => mutation[p].version = runtime[p] /\ transit[p] = None

\* A transition that has looked at the pending calls keeps a handler for each
\* one its process recorded.
CheckedInv ==
    /\ \A e \in Events : recorder[e] \in Processes => Up(recorder[e])
    /\ \A p \in Processes : transit[p] # None /\ transit[p].checked =>
          \A c \in Pending : recorder[c[1]] = p => c[2] \in Handles[transit[p].to]

-----------------------------------------------------------------------------
(* What the steps of a worker make of its state.                           *)

LEMMA IdleWorker ==
    Idle \in Workers /\ Idle.phase = "idle" /\ Idle.call = None
BY HooksAssumption DEF Idle, Workers

\* NextCall drops the call in hand and remembers an error.
LEMMA AfterCall ==
    ASSUME NEW w \in Workers, NEW ok \in BOOLEAN
    PROVE  /\ NextCall(w, ok) \in Workers
           /\ NextCall(w, ok).phase = "next" /\ NextCall(w, ok).call = None
           /\ NextCall(w, ok).event = w.event
           /\ NextCall(w, ok).todo = w.todo \ {w.call}
           /\ ~NextCall(w, ok).failed => ~w.failed /\ ok
BY DEF NextCall, Workers

\* A call that is refused is over without having begun.
LEMMA Refused ==
    ASSUME NEW w \in Workers, NEW h \in Handlers
    PROVE  LET v == NextCall([w EXCEPT !.call = h], FALSE) IN
           /\ v \in Workers /\ v.phase = "next" /\ v.call = None
           /\ v.event = w.event /\ v.failed
<1>1. [w EXCEPT !.call = h] \in Workers /\ [w EXCEPT !.call = h].event = w.event
  BY DEF Workers
<1>2. NextCall([w EXCEPT !.call = h], FALSE).failed
  BY DEF NextCall, Workers
<1>3. QED
  BY <1>1, <1>2, AfterCall

-----------------------------------------------------------------------------
(* Worker steps.                                                           *)

\* The worker of p goes from one well-formed state to another.
Moves(p) ==
    /\ worker' \in [Processes -> Workers]
    /\ \A q \in Processes \ {p} : worker'[q] = worker[q]
    /\ worker'[p].phase # "idle" => worker'[p].event \in Events
    /\ worker'[p].phase \in {"acquired", "running", "ran", "erred"} <=> worker'[p].call # None
    /\ UNCHANGED <<siteVars, mutation, recorder>>

\* Only the call in hand changes, and only when p holds it or may claim it.
CallStep(p) ==
    /\ calls' \in [Calls -> {"none", "pending", "done", "cleaned"}]
    /\ lease' \in [Calls -> Processes \cup {None, Lost}]
    /\ lapsed' \subseteq Calls
    /\ \A c \in Calls :
          /\ calls'[c] # calls[c] => calls[c] = "pending" /\ calls'[c] = "done"
          /\ (calls'[c] # calls[c] \/ lease'[c] # lease[c]) => lease[c] = p \/ Claimable(c)
    /\ lapsed' \subseteq lapsed

\* The delivery goes on: a call that is not to do any more has failed or is done.
GoesOn(p) ==
    /\ worker[p].phase # "idle" /\ worker'[p].phase # "idle"
    /\ worker'[p].event = worker[p].event
    /\ ~worker'[p].failed =>
          /\ ~worker[p].failed
          /\ \A h \in worker[p].todo \ worker'[p].todo :
                 calls'[<<worker[p].event, h>>] # "pending"
    /\ worker'[p].phase = "running" =>
          /\ lease'[<<worker'[p].event, worker'[p].call>>] = p
          /\ calls'[<<worker'[p].event, worker'[p].call>>] = "pending"
          /\ <<worker'[p].event, worker'[p].call>> \notin lapsed'
    /\ UNCHANGED acked

LEMMA SetWorkerIs ==
    ASSUME Typed, NEW p \in Processes, NEW w \in Workers, SetWorker(p, w)
    PROVE  /\ worker' \in [Processes -> Workers] /\ worker'[p] = w
           /\ \A q \in Processes \ {p} : worker'[q] = worker[q]
BY DEF Typed, SetWorker

LEMMA ClaimedCall ==
    ASSUME Typed, NEW p \in Processes, Engaged(p)
    PROVE  /\ worker[p].event \in Events /\ worker[p].call \in Handlers
           /\ Claimed(p) \in Calls /\ Claimed(p) = <<worker[p].event, worker[p].call>>
BY DEF Typed, TypeOK, Engaged, Claimed, Calls, Workers

\* A step that ends the call in hand, with or without an error.
LEMMA CallEnds ==
    ASSUME Typed, NEW p \in Processes, Engaged(p), NEW ok \in BOOLEAN,
           SetWorker(p, NextCall(worker[p], ok)),
           ok => calls'[Claimed(p)] # "pending",
           UNCHANGED <<siteVars, mutation, recorder, acked>>
    PROVE  Moves(p) /\ GoesOn(p)
<1>0. worker[p] \in Workers /\ worker[p].phase # "idle"
  BY DEF Typed, Engaged
<1>1. /\ worker' \in [Processes -> Workers] /\ worker'[p] = NextCall(worker[p], ok)
      /\ \A q \in Processes \ {p} : worker'[q] = worker[q]
  BY <1>0, AfterCall, SetWorkerIs
<1>2. /\ worker'[p].phase = "next" /\ worker'[p].call = None
      /\ worker'[p].event = worker[p].event
      /\ worker'[p].todo = worker[p].todo \ {worker[p].call}
      /\ ~worker'[p].failed => ~worker[p].failed /\ ok
  BY <1>0, <1>1, AfterCall
<1>3. Moves(p)
  BY <1>1, <1>2, ClaimedCall DEF Moves
<1>4. \A h \in worker[p].todo \ worker'[p].todo : h = worker[p].call
  BY <1>2
<1>5. GoesOn(p)
  BY <1>0, <1>2, <1>4, ClaimedCall DEF GoesOn
<1>6. QED
  BY <1>3, <1>5

LEMMA ExecuteShape ==
    ASSUME Typed, NEW p \in Processes, Execute(p)
    PROVE  Moves(p) /\ CallStep(p) /\ GoesOn(p)
<1> USE HooksAssumption
<1>0. worker[p] \in Workers /\ TypeOK
  BY DEF Typed
<1>a. ASSUME UNCHANGED callVars PROVE CallStep(p)
  BY <1>0, <1>a DEF CallStep, callVars, TypeOK
<1>1. ASSUME NEW h \in Handlers, RefuseCall(p, h) PROVE Moves(p) /\ CallStep(p) /\ GoesOn(p)
  <2> DEFINE w == NextCall([worker[p] EXCEPT !.call = h], FALSE)
  <2>1. w \in Workers /\ w.phase = "next" /\ w.call = None
        /\ w.event = worker[p].event /\ w.failed
    BY <1>0, Refused
  <2>2. SetWorker(p, w) /\ worker[p].phase = "next" /\ UNCHANGED callVars
        /\ UNCHANGED <<siteVars, mutation, recorder, acked>>
    BY <1>1 DEF RefuseCall
  <2> HIDE DEF w
  <2>3. /\ worker' \in [Processes -> Workers] /\ worker'[p] = w
        /\ \A q \in Processes \ {p} : worker'[q] = worker[q]
    BY <2>1, <2>2, SetWorkerIs
  <2>4. QED
    BY <1>a, <2>1, <2>2, <2>3 DEF Moves, GoesOn, Typed
<1>2. ASSUME NEW h \in Handlers, AcquireFor(p, h) PROVE Moves(p) /\ CallStep(p) /\ GoesOn(p)
  <2> DEFINE w == [worker[p] EXCEPT !.phase = "acquired", !.call = h]
  <2>1. w \in Workers /\ w.phase = "acquired" /\ w.call = h
        /\ w.event = worker[p].event /\ w.todo = worker[p].todo /\ (w.failed <=> worker[p].failed)
    BY <1>0 DEF Workers
  <2>2. SetWorker(p, w) /\ worker[p].phase = "next" /\ UNCHANGED callVars
        /\ UNCHANGED <<siteVars, mutation, recorder, acked>>
    BY <1>2 DEF AcquireFor
  <2> HIDE DEF w
  <2>3. /\ worker' \in [Processes -> Workers] /\ worker'[p] = w
        /\ \A q \in Processes \ {p} : worker'[q] = worker[q]
    BY <2>1, <2>2, SetWorkerIs
  <2>4. h # None
    OBVIOUS
  <2>5. Moves(p)
    BY <2>1, <2>2, <2>3, <2>4 DEF Moves, Typed
  <2>6. worker[p].todo \ worker'[p].todo = {}
    BY <2>1, <2>3
  <2>7. ~worker'[p].failed => ~worker[p].failed
    BY <2>1, <2>3
  <2>8. GoesOn(p)
    BY <2>1, <2>2, <2>3, <2>6, <2>7 DEF GoesOn
  <2>9. QED
    BY <1>a, <2>2, <2>5, <2>8
<1>3. CASE Claim(p)
  <2> DEFINE w == [worker[p] EXCEPT !.phase = "running"]
  <2>0. Engaged(p)
    BY <1>3 DEF Claim, Engaged
  <2>1. w \in Workers /\ w.phase = "running" /\ w.call = worker[p].call
        /\ w.event = worker[p].event /\ w.todo = worker[p].todo /\ (w.failed <=> worker[p].failed)
    BY <1>0 DEF Workers
  <2>2. SetWorker(p, w) /\ Claimable(Claimed(p)) /\ TakeLease(Claimed(p), p)
        /\ UNCHANGED <<siteVars, mutation, recorder, acked>>
    BY <1>3 DEF Claim
  <2> HIDE DEF w
  <2>3. /\ worker' \in [Processes -> Workers] /\ worker'[p] = w
        /\ \A q \in Processes \ {p} : worker'[q] = worker[q]
    BY <2>1, <2>2, SetWorkerIs
  <2>4. CallStep(p) /\ lease'[Claimed(p)] = p /\ Claimed(p) \notin lapsed'
        /\ calls'[Claimed(p)] = "pending"
    BY <1>0, <2>0, <2>2, ClaimedCall DEF CallStep, TakeLease, Claimable, Pending, TypeOK
  <2>5. QED
    BY <2>0, <2>1, <2>2, <2>3, <2>4, ClaimedCall DEF Moves, GoesOn, Engaged
<1>4. CASE ClaimBusy(p)
  <2>1. Engaged(p) /\ SetWorker(p, NextCall(worker[p], FALSE)) /\ UNCHANGED callVars
        /\ UNCHANGED <<siteVars, mutation, recorder, acked>>
    BY <1>4 DEF ClaimBusy, Engaged
  <2>2. QED
    BY <1>a, <2>1, CallEnds
<1>5. CASE ClaimFails(p)
  <2>1. Engaged(p) /\ SetWorker(p, NextCall(worker[p], FALSE))
        /\ UNCHANGED <<siteVars, mutation, recorder, acked>>
    BY <1>5 DEF ClaimFails, Engaged
  <2>2. CallStep(p)
    <3>1. CASE UNCHANGED callVars
      BY <1>a, <3>1
    <3>2. CASE Claimable(Claimed(p)) /\ TakeLease(Claimed(p), Lost)
      BY <1>0, <2>1, <3>2, ClaimedCall DEF CallStep, TakeLease, TypeOK
    <3>3. QED
      BY <1>5, <3>1, <3>2 DEF ClaimFails
  <2>3. QED
    BY <2>1, <2>2, CallEnds
<1>6. CASE HandlerReturns(p)
  <2>1. PICK outcome \in {"ran", "erred"} :
          SetWorker(p, [worker[p] EXCEPT !.phase = outcome])
    BY <1>6 DEF HandlerReturns
  <2> DEFINE w == [worker[p] EXCEPT !.phase = outcome]
  <2>2. w \in Workers /\ w.phase = outcome /\ w.call = worker[p].call
        /\ w.event = worker[p].event /\ w.todo = worker[p].todo /\ (w.failed <=> worker[p].failed)
    BY <1>0 DEF Workers
  <2>3. Engaged(p) /\ UNCHANGED callVars /\ UNCHANGED <<siteVars, mutation, recorder, acked>>
    BY <1>6 DEF HandlerReturns, Engaged
  <2>4. SetWorker(p, w)
    BY <2>1
  <2> HIDE DEF w
  <2>5. /\ worker' \in [Processes -> Workers] /\ worker'[p] = w
        /\ \A q \in Processes \ {p} : worker'[q] = worker[q]
    BY <2>2, <2>4, SetWorkerIs
  <2>6. Moves(p)
    BY <2>2, <2>3, <2>5, ClaimedCall DEF Moves, Engaged
  <2>7. worker[p].todo \ worker'[p].todo = {}
    BY <2>2, <2>5
  <2>8. ~worker'[p].failed => ~worker[p].failed
    BY <2>2, <2>5
  <2>9. GoesOn(p)
    BY <2>2, <2>3, <2>5, <2>7, <2>8 DEF GoesOn, Engaged
  <2>10. QED
    BY <1>a, <2>3, <2>6, <2>9
<1>7. CASE Complete(p)
  <2>1. PICK ok \in BOOLEAN : SetWorker(p, NextCall(worker[p], ok))
    BY <1>7 DEF Complete
  <2>2. Engaged(p) /\ UNCHANGED <<siteVars, mutation, recorder, acked>>
    BY <1>7 DEF Complete, Engaged
  <2>3. CallStep(p) /\ calls'[Claimed(p)] # "pending"
    BY <1>0, <1>7, <2>2, ClaimedCall DEF Complete, Mine, Pending, CallStep, TypeOK
  <2>4. QED
    BY <2>1, <2>2, <2>3, CallEnds
<1>8. CASE Fail(p)
  <2>1. Engaged(p) /\ SetWorker(p, NextCall(worker[p], FALSE))
        /\ UNCHANGED <<siteVars, mutation, recorder, acked>>
    BY <1>8 DEF Fail, Engaged
  <2>2. CallStep(p)
    BY <1>0, <1>8, <2>1, ClaimedCall DEF Fail, Mine, CallStep, TypeOK
  <2>3. QED
    BY <2>1, <2>2, CallEnds
<1>9. CASE ResultLost(p)
  <2>1. Engaged(p) /\ SetWorker(p, NextCall(worker[p], FALSE))
        /\ UNCHANGED <<siteVars, mutation, recorder, acked>>
    BY <1>9 DEF ResultLost, Engaged
  <2>2. CallStep(p)
    BY <1>0, <1>9, <2>1, ClaimedCall DEF ResultLost, LetGo, CallStep, TypeOK
  <2>3. QED
    BY <2>1, <2>2, CallEnds
<1>10. QED
  BY <1>1, <1>2, <1>3, <1>4, <1>5, <1>6, <1>7, <1>8, <1>9 DEF Execute

\* A delivery begins with what is pending, and ends when nothing is left to do.
LEMMA DeliveryShape ==
    ASSUME Typed, NEW p \in Processes, NEW e \in Events,
           Receive(p, e) \/ Finish(p)
    PROVE  Moves(p) /\ CallStep(p)
<1>0. TypeOK
  BY DEF Typed
<1>1. UNCHANGED <<siteVars, mutation, recorder>> /\ UNCHANGED callVars
  BY DEF Receive, Finish
<1>2. CallStep(p)
  BY <1>0, <1>1 DEF CallStep, callVars, TypeOK
<1>3. CASE Finish(p)
  <2>1. SetWorker(p, Idle)
    BY <1>3 DEF Finish
  <2>2. QED
    BY <1>1, <1>2, <2>1, SetWorkerIs, IdleWorker DEF Moves
<1>4. CASE Receive(p, e)
  <2> DEFINE todo == {h \in Handlers : calls[<<e, h>>] = "pending"}
             w == [Idle EXCEPT !.phase = "next", !.event = e, !.todo = todo]
  <2>1. w \in Workers /\ w.phase = "next" /\ w.call = None /\ w.event = e
    BY DEF Idle, Workers
  <2>2. SetWorker(p, w)
    BY <1>4 DEF Receive
  <2> HIDE DEF w
  <2>3. QED
    BY <1>1, <1>2, <2>1, <2>2, SetWorkerIs DEF Moves
<1>5. QED
  BY <1>3, <1>4

-----------------------------------------------------------------------------
(* Types and versions.                                                     *)

LEMMA InitTyped == Init => Typed /\ VersionInv
<1> SUFFICES ASSUME Init PROVE Typed /\ VersionInv
  OBVIOUS
<1> USE HooksAssumption, IdleWorker DEF Init, Versions, Up, Engaged
<1>1. Typed
  BY DEF Typed, TypeOK
<1>2. VersionInv
  BY DEF VersionInv
<1>3. QED
  BY <1>1, <1>2

LEMMA WorkerTyped ==
    ASSUME Typed, VersionInv, NEW p \in Processes, Up(p), Moves(p), CallStep(p),
           acked' \subseteq Events
    PROVE  Typed' /\ VersionInv'
<1> USE DEF Typed, TypeOK, VersionInv, Moves, CallStep, siteVars, Up, Engaged
<1>1. TypeOK'
  <2>1. \A c \in Calls : calls'[c] # "none" => recorder'[c[1]] # None
    OBVIOUS
  <2>2. \A q \in Processes : Engaged(q)' <=> worker'[q].call # None
    OBVIOUS
  <2>3. QED
    BY <2>1, <2>2
<1>2. QED
  BY <1>1

\* A step of a mutation or a transition leaves the workers alone.
LEMMA MutationTyped ==
    ASSUME Typed, VersionInv, NEW p \in Processes, Up(p),
           NEW m \in Mutations \cup {None}, SetMutation(p, m),
           UNCHANGED <<siteVars, worker, lease, lapsed, acked>>,
           calls' \in [Calls -> {"none", "pending", "done", "cleaned"}],
           recorder' \in [Events -> Processes \cup {None, Lost}],
           \A c \in Calls : calls'[c] # "none" => recorder'[c[1]] # None
    PROVE  Typed' /\ VersionInv'
<1> USE DEF Typed, TypeOK, VersionInv, siteVars, Up, Engaged, SetMutation
<1>1. mutation' \in [Processes -> Mutations \cup {None}]
  OBVIOUS
<1>2. \A q \in Processes : mutation'[q] # None => mutation'[q].version \in Versions
  BY <1>1 DEF Mutations
<1>3. QED
  BY <1>1, <1>2

LEMMA MutateTyped ==
    ASSUME Typed, VersionInv, NEW p \in Processes, Mutate(p)
    PROVE  Typed' /\ VersionInv'
<1>0. TypeOK /\ mutation \in [Processes -> Mutations \cup {None}]
      /\ runtime \in [Processes -> Versions \cup {None}]
  BY DEF Typed
<1>1. CASE FindRuntime(p)
  <2>1. [version |-> runtime[p], pinned |-> FALSE] \in Mutations /\ Up(p)
    BY <1>0, <1>1 DEF FindRuntime, Mutations, Up
  <2>2. QED
    BY <1>0, <1>1, <2>1, MutationTyped DEF FindRuntime, TypeOK, callVars
<1>2. CASE Pin(p)
  <2>1. mutation[p] \in Mutations /\ Up(p)
    BY <1>0, <1>2 DEF Pin, TypeOK
  <2>2. [mutation[p] EXCEPT !.pinned = TRUE] \in Mutations
    BY <2>1 DEF Mutations
  <2>3. QED
    BY <1>0, <1>2, <2>1, <2>2, MutationTyped DEF Pin, TypeOK, callVars
<1>3. CASE RefuseMutation(p)
  BY <1>0, <1>3, MutationTyped DEF RefuseMutation, TypeOK, callVars
<1>4. CASE CommitMutation(p)
  <2>1. /\ calls' \in [Calls -> {"none", "pending", "done", "cleaned"}]
        /\ recorder' \in [Events -> Processes \cup {None, Lost}]
        /\ \A c \in Calls : calls'[c] # "none" => recorder'[c[1]] # None
    BY <1>0, <1>4, HooksAssumption DEF CommitMutation, TypeOK, Calls
  <2>2. QED
    BY <1>0, <1>4, <2>1, MutationTyped DEF CommitMutation, TypeOK
<1>5. QED
  BY <1>1, <1>2, <1>3, <1>4 DEF Mutate

\* A transition that begins, goes on or ends keeps the versions in order.
LEMMA TransitTyped ==
    ASSUME Typed, VersionInv, NEW p \in Processes, Up(p),
           NEW t \in Transits \cup {None}, SetTransit(p, t),
           UNCHANGED <<mutation, worker, callVars, recorder, acked>>,
           row' \in Versions, row <= row',
           runtime' \in [Processes -> Versions \cup {None}],
           drained' \in [Processes -> SUBSET Versions],
           \A q \in Processes \ {p} : runtime'[q] = runtime[q] /\ drained'[q] = drained[q],
           runtime'[p] # None, runtime'[p] <= row',
           \A v \in drained'[p] : v <= runtime'[p],
           runtime'[p] \in drained'[p] <=> t # None,
           t # None => /\ runtime'[p] < t.to
                       /\ t.update => t.to = runtime'[p] + 1
                       /\ ~t.update => t.to <= row'
    PROVE  Typed' /\ VersionInv'
<1> USE DEF Typed, TypeOK, Up, Engaged, SetTransit, callVars
<1>1. transit' \in [Processes -> Transits \cup {None}] /\ transit'[p] = t
      /\ \A q \in Processes \ {p} : transit'[q] = transit[q]
  OBVIOUS
<1>2. \A q \in Processes : transit'[q] # None => transit'[q].to \in Versions
  BY <1>1 DEF Transits
<1>3. TypeOK'
  BY <1>1, <1>2
<1>4. Typed'
  BY <1>1, <1>3
<1>5. ASSUME NEW q \in Processes \ {p}, transit[q] # None, ~transit[q].update
      PROVE  transit[q].to <= row'
  <2>1. transit[q].to \in Nat /\ transit[q].to <= row /\ row \in Nat /\ row' \in Nat
    BY <1>5 DEF VersionInv, Versions
  <2>2. QED
    BY <2>1
<1>6. ASSUME NEW q \in Processes \ {p}, runtime[q] # None
      PROVE  runtime[q] <= row'
  <2>1. runtime[q] \in Nat /\ runtime[q] <= row /\ row \in Nat /\ row' \in Nat
    BY <1>6 DEF VersionInv, Versions
  <2>2. QED
    BY <2>1
<1>7. VersionInv'
  BY <1>1, <1>5, <1>6 DEF VersionInv
<1>8. QED
  BY <1>4, <1>7

LEMMA TransitionTyped ==
    ASSUME Typed, VersionInv, NEW p \in Processes, Transition(p)
    PROVE  Typed' /\ VersionInv'
<1>0. TypeOK /\ transit \in [Processes -> Transits \cup {None}] /\ row \in Nat
      /\ runtime \in [Processes -> Versions \cup {None}] /\ drained \in [Processes -> SUBSET Versions]
      /\ Versions \subseteq Nat /\ row \in Versions
  BY DEF Typed, TypeOK, Versions
<1>1. CASE Drain(p)
  <2>1. PICK to \in Versions, updates \in BOOLEAN :
          /\ to = (IF updates THEN runtime[p] + 1 ELSE row) /\ to # runtime[p]
          /\ SetTransit(p, [to |-> to, update |-> updates, checked |-> FALSE])
    BY <1>1 DEF Drain
  <2> DEFINE t == [to |-> to, update |-> updates, checked |-> FALSE]
  <2>2. t \in Transits /\ t # None /\ t.to = to /\ (t.update <=> updates)
    <3>1. t \in Transits /\ t.to = to
      BY DEF Transits
    <3>2. t.update <=> updates
      OBVIOUS
    <3>3. QED
      BY <3>1, <3>2, HooksAssumption DEF Transits
  <2>3. Up(p) /\ runtime[p] \in Nat /\ runtime[p] <= row /\ runtime[p] \in Versions
    BY <1>0, <1>1 DEF Drain, Up, VersionInv
  <2>4. SetTransit(p, t)
    BY <2>1
  <2> HIDE DEF t
  <2>5. /\ drained' \in [Processes -> SUBSET Versions]
        /\ drained'[p] = drained[p] \cup {runtime[p]}
        /\ \A q \in Processes \ {p} : drained'[q] = drained[q]
    BY <1>0, <1>1, <2>3 DEF Drain
  <2>6. \A v \in drained'[p] : v <= runtime[p]
    BY <2>3, <2>5 DEF VersionInv
  <2>7. /\ runtime[p] < to
        /\ updates => to = runtime[p] + 1
        /\ ~updates => to <= row
    BY <1>0, <2>1, <2>3
  <2>8. UNCHANGED <<row, runtime, mutation, worker, callVars, recorder, acked>>
    BY <1>1 DEF Drain
  <2>9. QED
    BY <1>0, <2>2, <2>3, <2>4, <2>5, <2>6, <2>7, <2>8, TransitTyped DEF Up
<1>2. CASE CheckPending(p)
  <2> DEFINE t == [transit[p] EXCEPT !.checked = TRUE]
  <2>1. transit[p] # None /\ transit[p] \in Transits /\ Up(p)
    BY <1>0, <1>2 DEF CheckPending, TypeOK
  <2>2. t \in Transits /\ t # None /\ t.to = transit[p].to /\ (t.update <=> transit[p].update)
    BY <2>1, HooksAssumption DEF Transits
  <2>3. /\ SetTransit(p, t)
        /\ UNCHANGED <<row, runtime, drained, mutation, worker, callVars, recorder, acked>>
    BY <1>2 DEF CheckPending
  <2> HIDE DEF t
  <2>4. /\ runtime[p] # None /\ runtime[p] <= row /\ runtime[p] \in drained[p]
        /\ \A v \in drained[p] : v <= runtime[p]
        /\ runtime[p] < t.to
        /\ t.update => t.to = runtime[p] + 1
        /\ ~t.update => t.to <= row
    BY <1>0, <2>1, <2>2 DEF VersionInv, TypeOK, Up
  <2>5. QED
    BY <1>0, <2>1, <2>2, <2>3, <2>4, TransitTyped
<1>3. CASE AbortTransition(p)
  <2>1. Up(p) /\ runtime[p] \in Versions
    BY <1>0, <1>3 DEF AbortTransition, TypeOK, Up
  <2>2. /\ drained' \in [Processes -> SUBSET Versions]
        /\ drained'[p] = drained[p] \ {runtime[p]}
        /\ \A q \in Processes \ {p} : drained'[q] = drained[q]
    BY <1>0, <1>3 DEF AbortTransition
  <2>3. SetTransit(p, None) /\ UNCHANGED <<row, runtime, mutation, worker, callVars, recorder, acked>>
    BY <1>3 DEF AbortTransition
  <2>4. QED
    BY <1>0, <2>1, <2>2, <2>3, TransitTyped DEF VersionInv, Up
<1>4. CASE Publish(p)
  <2>1. transit[p] # None /\ transit[p] \in Transits /\ Up(p) /\ transit[p].to \in Versions
    BY <1>0, <1>4 DEF Publish, TypeOK
  <2>2. /\ runtime[p] \in Nat /\ runtime[p] < transit[p].to /\ transit[p].to \in Nat
        /\ \A v \in drained[p] : v <= runtime[p] /\ v \in Nat
    BY <1>0, <2>1 DEF VersionInv, Up
  <2>3. /\ row' \in Versions /\ row <= row' /\ transit[p].to <= row'
    <3>1. CASE transit[p].update
      BY <1>0, <1>4, <2>1, <2>2, <3>1 DEF Publish
    <3>2. CASE ~transit[p].update
      BY <1>0, <1>4, <2>1, <3>2 DEF Publish, VersionInv
    <3>3. QED
      BY <3>1, <3>2
  <2>4. /\ runtime' \in [Processes -> Versions \cup {None}] /\ runtime'[p] = transit[p].to
        /\ \A q \in Processes \ {p} : runtime'[q] = runtime[q]
    BY <1>0, <1>4, <2>1 DEF Publish
  <2>5. SetTransit(p, None) /\ UNCHANGED <<drained, mutation, worker, callVars, recorder, acked>>
    BY <1>4 DEF Publish
  <2>6. transit[p].to \notin drained[p] /\ transit[p].to # None
        /\ \A v \in drained[p] : v <= transit[p].to
    BY <2>1, <2>2, HooksAssumption
  <2>7. QED
    BY <1>0, <2>1, <2>3, <2>4, <2>5, <2>6, TransitTyped
<1>5. QED
  BY <1>1, <1>2, <1>3, <1>4 DEF Transition

LEMMA OtherTyped ==
    ASSUME Typed, VersionInv,
           \/ \E p \in Processes : Stop(p) \/ Boot(p)
           \/ \E c \in Calls : LeaseLapses(c) \/ Cleanup(c)
    PROVE  Typed' /\ VersionInv'
<1> USE HooksAssumption, IdleWorker
    DEF Typed, TypeOK, siteVars, callVars, Up, Engaged
<1>1. ASSUME NEW p \in Processes, Stop(p) PROVE Typed' /\ VersionInv'
  <2> USE <1>1 DEF Stop, SetTransit, SetMutation, SetWorker
  <2>1. /\ lease' \in [Calls -> Processes \cup {None, Lost}]
        /\ recorder' \in [Events -> Processes \cup {None, Lost}]
        /\ \A e \in Events : recorder[e] # None => recorder'[e] # None
    OBVIOUS
  <2>2. \A c \in Calls : calls'[c] # "none" => recorder'[c[1]] # None
    BY <2>1 DEF Calls
  <2>3. /\ runtime' \in [Processes -> Versions \cup {None}]
        /\ drained' \in [Processes -> SUBSET Versions]
        /\ mutation' \in [Processes -> Mutations \cup {None}]
        /\ transit' \in [Processes -> Transits \cup {None}]
        /\ worker' \in [Processes -> Workers]
    OBVIOUS
  <2>4. /\ runtime'[p] = None /\ drained'[p] = {} /\ mutation'[p] = None
        /\ transit'[p] = None /\ worker'[p] = Idle
    OBVIOUS
  <2>5. \A q \in Processes \ {p} :
           /\ runtime'[q] = runtime[q] /\ drained'[q] = drained[q]
           /\ mutation'[q] = mutation[q] /\ transit'[q] = transit[q]
           /\ worker'[q] = worker[q]
    OBVIOUS
  <2>6. UNCHANGED <<row, calls, lapsed, acked>>
    OBVIOUS
  <2> HIDE <1>1 DEF Stop, SetTransit, SetMutation, SetWorker
  <2>7. TypeOK'
    BY <2>1, <2>2, <2>3, <2>4, <2>5, <2>6
  <2>8. VersionInv'
    BY <2>3, <2>4, <2>5, <2>6 DEF VersionInv
  <2>9. QED
    BY <2>3, <2>4, <2>5, <2>7, <2>8
<1>2. ASSUME NEW p \in Processes, Boot(p) PROVE Typed' /\ VersionInv'
  <2> USE <1>2 DEF Boot
  <2>1. runtime'[p] = row /\ drained[p] = {} /\ transit[p] = None
    BY DEF VersionInv
  <2>2. TypeOK'
    BY <2>1
  <2>3. VersionInv'
    <3>1. row \in Nat /\ row <= row
      BY DEF Versions
    <3>2. QED
      BY <2>1, <3>1 DEF VersionInv
  <2>4. Typed'
    BY <2>2
  <2>5. QED
    BY <2>3, <2>4
<1>3. ASSUME NEW c \in Calls, LeaseLapses(c) \/ Cleanup(c) PROVE Typed' /\ VersionInv'
  BY <1>3 DEF LeaseLapses, Cleanup, VersionInv
<1>4. QED
  BY <1>1, <1>2, <1>3

LEMMA AlwaysTyped == Spec => [](Typed /\ VersionInv)
<1>1. Typed /\ VersionInv /\ [Next]_vars => (Typed /\ VersionInv)'
  <2> SUFFICES ASSUME Typed, VersionInv, [Next]_vars PROVE Typed' /\ VersionInv'
    OBVIOUS
  <2>1. ASSUME NEW p \in Processes, Execute(p) PROVE Typed' /\ VersionInv'
    <3>1. Up(p)
      <4>1. worker[p].phase # "idle"
        BY <2>1, ExecuteShape DEF GoesOn
      <4>2. QED
        BY <4>1, IdleWorker DEF Typed, TypeOK
    <3>2. acked' \subseteq Events
      BY <2>1, ExecuteShape DEF GoesOn, Typed, TypeOK
    <3>3. QED
      BY <2>1, <3>1, <3>2, ExecuteShape, WorkerTyped
  <2>2. ASSUME NEW p \in Processes, NEW e \in Events, Receive(p, e)
        PROVE  Typed' /\ VersionInv'
    BY <2>2, DeliveryShape, WorkerTyped DEF Receive, Typed, TypeOK
  <2>3. ASSUME NEW p \in Processes, Finish(p) PROVE Typed' /\ VersionInv'
    <3>1. worker[p].event \in Events /\ Up(p)
      BY <2>3, IdleWorker DEF Finish, Typed, TypeOK
    <3>2. acked' \subseteq Events
      BY <2>3, <3>1 DEF Finish, Typed, TypeOK
    <3>3. QED
      BY <2>3, <3>1, <3>2, DeliveryShape, WorkerTyped
  <2>4. CASE UNCHANGED vars
    BY <2>4 DEF vars, siteVars, callVars, Typed, TypeOK, VersionInv, Up, Engaged
  <2>5. QED
    BY <2>1, <2>2, <2>3, <2>4, MutateTyped, TransitionTyped, OtherTyped DEF Next
<1>2. QED
  BY <1>1, InitTyped, PTL DEF Spec

\* Every reachable state is well typed: calls exist only for recorded events, a
\* stopped process does nothing, and the registry of a process is draining
\* exactly while it is in a transition.
THEOREM TypeCorrect == Spec => []TypeOK
BY AlwaysTyped, PTL DEF Typed

-----------------------------------------------------------------------------
(* Leases and deliveries.                                                  *)

WorkInv == LeaseInv /\ DeliveryInv /\ AckedIsDone

LEMMA ExecuteKeepsWork ==
    ASSUME Typed, WorkInv, NEW p \in Processes, Execute(p)
    PROVE  WorkInv'
<1>1. Moves(p) /\ CallStep(p) /\ GoesOn(p) /\ TypeOK
  BY ExecuteShape DEF Typed
<1>2. \A c \in Calls : calls'[c] = "pending" => calls[c] = "pending"
  BY <1>1 DEF CallStep
<1>3. ASSUME NEW q \in Processes \ {p}, worker'[q].phase = "running"
      PROVE  lease'[Claimed(q)'] = q /\ Claimed(q)' \in (Pending \ lapsed)'
  <2>1. worker'[q] = worker[q] /\ Claimed(q)' = Claimed(q)
    BY <1>1 DEF Moves, Claimed
  <2>2. lease[Claimed(q)] = q /\ Claimed(q) \in Calls /\ calls[Claimed(q)] = "pending"
        /\ Claimed(q) \notin lapsed
    BY <1>3, <2>1 DEF WorkInv, LeaseInv, Pending
  <2>3. lease[Claimed(q)] # p /\ ~Claimable(Claimed(q))
    BY <2>2, HooksAssumption DEF Claimable
  <2>4. QED
    BY <1>1, <2>1, <2>2, <2>3 DEF CallStep, Pending
<1>4. worker'[p].phase = "running" =>
        lease'[Claimed(p)'] = p /\ Claimed(p)' \in (Pending \ lapsed)'
  <2>1. worker'[p].phase = "running" => Claimed(p)' \in Calls
    BY <1>1 DEF Moves, Claimed, Calls, Workers
  <2>2. QED
    BY <1>1, <2>1 DEF GoesOn, Claimed, Pending
<1>5. LeaseInv'
  BY <1>3, <1>4 DEF LeaseInv
<1>6. UNCHANGED <<recorder, acked>>
  BY <1>1 DEF Moves, GoesOn
<1>7. AckedIsDone'
  BY <1>2, <1>6 DEF WorkInv, AckedIsDone, Pending
<1>8. ASSUME NEW q \in Processes, worker'[q].phase # "idle"
      PROVE  /\ recorder'[worker'[q].event] # None
             /\ ~worker'[q].failed => \A h \in Handlers :
                  <<worker'[q].event, h>> \in Pending' => h \in worker'[q].todo
  <2>1. CASE q # p
    BY <1>1, <1>2, <1>6, <1>8, <2>1 DEF Moves, WorkInv, DeliveryInv, Pending
  <2>2. CASE q = p
    <3>1. worker[p].phase # "idle" /\ worker'[p].event = worker[p].event
      BY <1>1 DEF GoesOn
    <3>2. recorder'[worker'[p].event] # None
      BY <1>6, <3>1 DEF WorkInv, DeliveryInv
    <3>3. ASSUME ~worker'[p].failed, NEW h \in Handlers, <<worker[p].event, h>> \in Pending'
          PROVE  h \in worker'[p].todo
      <4>1. ~worker[p].failed /\ calls'[<<worker[p].event, h>>] = "pending"
            /\ <<worker[p].event, h>> \in Calls
        BY <1>1, <3>3 DEF GoesOn, Pending
      <4>2. h \in worker[p].todo
        BY <1>2, <3>1, <4>1 DEF WorkInv, DeliveryInv, Pending
      <4>3. QED
        BY <1>1, <3>3, <4>1, <4>2 DEF GoesOn
    <3>4. QED
      BY <2>2, <3>1, <3>2, <3>3
  <2>3. QED
    BY <2>1, <2>2
<1>9. DeliveryInv'
  BY <1>6, <1>8 DEF WorkInv, DeliveryInv
<1>10. QED
  BY <1>5, <1>7, <1>9 DEF WorkInv

LEMMA DeliveryKeepsWork ==
    ASSUME Typed, WorkInv, NEW p \in Processes, NEW e \in Events, Receive(p, e) \/ Finish(p)
    PROVE  WorkInv'
<1>1. Moves(p) /\ UNCHANGED <<callVars, recorder>> /\ TypeOK
  BY DeliveryShape DEF Typed, Receive, Finish
<1>2. \A q \in Processes \ {p} : worker'[q] = worker[q] /\ Claimed(q)' = Claimed(q)
  BY <1>1 DEF Moves, Claimed
<1>3. UNCHANGED Pending
  BY <1>1 DEF Pending, callVars
<1>4. CASE Receive(p, e)
  <2> DEFINE todo == {h \in Handlers : calls[<<e, h>>] = "pending"}
             w == [Idle EXCEPT !.phase = "next", !.event = e, !.todo = todo]
  <2>1. w \in Workers /\ w.phase = "next" /\ w.event = e /\ w.todo = todo
    BY DEF Idle, Workers
  <2>2. SetWorker(p, w)
    BY <1>4 DEF Receive
  <2>3. worker'[p] = w
    BY <2>1, <2>2, SetWorkerIs
  <2>4. worker'[p].phase = "next" /\ worker'[p].event = e /\ worker'[p].todo = todo
    BY <2>1, <2>3
  <2>5. UNCHANGED acked /\ recorder[e] # None
    BY <1>4 DEF Receive
  <2>6. LeaseInv'
    BY <1>1, <1>2, <1>3, <2>4 DEF WorkInv, LeaseInv, callVars
  <2>7. \A h \in Handlers : <<e, h>> \in Pending => h \in todo
    BY DEF Pending
  <2>8. DeliveryInv'
    BY <1>1, <1>2, <1>3, <2>4, <2>5, <2>7 DEF WorkInv, DeliveryInv
  <2>9. QED
    BY <1>3, <2>5, <2>6, <2>8 DEF WorkInv, AckedIsDone
<1>5. CASE Finish(p)
  <2>1. worker'[p].phase = "idle"
    BY <1>5, SetWorkerIs, IdleWorker DEF Finish
  <2>2. LeaseInv'
    BY <1>1, <1>2, <1>3, <2>1 DEF WorkInv, LeaseInv, callVars
  <2>3. worker[p].phase = "next" /\ worker[p].todo = {} /\ worker[p].event \in Events
    BY <1>5 DEF Finish, Typed
  <2>4. /\ recorder[worker[p].event] # None
        /\ ~worker[p].failed => \A h \in Handlers : <<worker[p].event, h>> \notin Pending
    BY <2>3 DEF WorkInv, DeliveryInv
  <2>5. acked' = acked \/ (acked' = acked \cup {worker[p].event} /\ ~worker[p].failed)
    BY <1>5 DEF Finish
  <2>6. DeliveryInv'
    BY <1>1, <1>2, <1>3, <2>1, <2>4, <2>5 DEF WorkInv, DeliveryInv
  <2>7. AckedIsDone'
    <3>1. ASSUME NEW c \in Pending PROVE c[1] \notin acked'
      <4>1. c = <<c[1], c[2]>> /\ c[2] \in Handlers /\ c[1] \notin acked
        BY DEF Pending, Calls, WorkInv, AckedIsDone
      <4>2. QED
        BY <2>4, <2>5, <4>1
    <3>2. QED
      BY <1>3, <3>1 DEF AckedIsDone
  <2>8. QED
    BY <2>2, <2>6, <2>7 DEF WorkInv
<1>6. QED
  BY <1>4, <1>5

\* Other steps make no call pending that a delivery could have seen, and leave
\* the leases of running handlers alone.
LEMMA OtherKeepsWork ==
    ASSUME Typed, WorkInv,
           \/ \E p \in Processes : Mutate(p) \/ Transition(p) \/ Stop(p) \/ Boot(p)
           \/ \E c \in Calls : LeaseLapses(c) \/ Cleanup(c)
    PROVE  WorkInv'
<1>0. TypeOK /\ \A p \in Processes : worker[p].phase # "idle" => worker[p].event \in Events
  BY DEF Typed
<1>a. ASSUME UNCHANGED <<worker, callVars, recorder, acked>> PROVE WorkInv'
  BY <1>a DEF WorkInv, LeaseInv, DeliveryInv, AckedIsDone, Claimed, Pending, callVars
<1>1. ASSUME NEW p \in Processes, Mutate(p) PROVE WorkInv'
  <2>1. CASE CommitMutation(p)
    <3>1. PICK e \in Events :
            /\ recorder[e] = None
            /\ recorder' = [recorder EXCEPT ![e] = p]
            /\ calls' = [c \in Calls |-> IF c[1] = e /\ c[2] \in Handles[mutation[p].version]
                                         THEN "pending" ELSE calls[c]]
      BY <2>1 DEF CommitMutation
    <3>2. UNCHANGED <<worker, lease, lapsed, acked>>
      BY <2>1 DEF CommitMutation, siteVars
    <3>3. \A x \in Events : recorder[x] # None => recorder'[x] # None
      BY <1>0, <3>1, HooksAssumption DEF TypeOK
    <3>4. Pending \subseteq Pending' /\ \A c \in Pending' \ Pending : c[1] = e
      BY <3>1 DEF Pending
    <3>5. LeaseInv'
      <4>1. ASSUME NEW q \in Processes, worker[q].phase = "running"
            PROVE  lease[Claimed(q)] = q /\ Claimed(q) \in Pending' \ lapsed
        BY <3>4, <4>1 DEF WorkInv, LeaseInv
      <4>2. QED
        BY <3>2, <4>1 DEF LeaseInv, Claimed
    <3>6. ASSUME NEW q \in Processes, worker[q].phase # "idle"
          PROVE  /\ recorder'[worker[q].event] # None
                 /\ ~worker[q].failed => \A h \in Handlers :
                      <<worker[q].event, h>> \in Pending' => h \in worker[q].todo
      <4>1. worker[q].event \in Events /\ recorder[worker[q].event] # None
        BY <1>0, <3>6 DEF WorkInv, DeliveryInv
      <4>2. worker[q].event # e
        BY <3>1, <4>1
      <4>3. \A h \in Handlers :
              <<worker[q].event, h>> \in Pending' => <<worker[q].event, h>> \in Pending
        BY <3>4, <4>2
      <4>4. QED
        BY <3>3, <3>6, <4>1, <4>3 DEF WorkInv, DeliveryInv
    <3>7. DeliveryInv'
      BY <1>0, <3>2, <3>3, <3>6 DEF WorkInv, DeliveryInv, TypeOK
    <3>8. AckedIsDone'
      BY <3>1, <3>2, <3>4 DEF WorkInv, DeliveryInv, AckedIsDone
    <3>9. QED
      BY <3>5, <3>7, <3>8 DEF WorkInv
  <2>2. CASE FindRuntime(p) \/ Pin(p) \/ RefuseMutation(p)
    BY <1>a, <2>2 DEF FindRuntime, Pin, RefuseMutation
  <2>3. QED
    BY <1>1, <2>1, <2>2 DEF Mutate
<1>2. ASSUME NEW p \in Processes, Transition(p) PROVE WorkInv'
  BY <1>a, <1>2 DEF Transition, Drain, CheckPending, AbortTransition, Publish
<1>3. ASSUME NEW p \in Processes, Stop(p) PROVE WorkInv'
  <2>1. worker'[p] = Idle /\ \A q \in Processes \ {p} : worker'[q] = worker[q]
    BY <1>3 DEF Stop, SetWorker, Typed
  <2>2. worker'[p].phase = "idle"
    BY <2>1, IdleWorker
  <2>3. UNCHANGED <<calls, lapsed, acked>> /\ UNCHANGED Pending
    BY <1>3 DEF Stop, Pending
  <2>4. \A x \in Events : recorder[x] # None => recorder'[x] # None
    BY <1>0, <1>3, HooksAssumption DEF Stop, TypeOK
  <2>5. \A c \in Calls : lease[c] # p => lease'[c] = lease[c]
    BY <1>0, <1>3 DEF Stop, TypeOK
  <2>6. LeaseInv'
    <3>1. ASSUME NEW q \in Processes \ {p}, worker[q].phase = "running"
          PROVE  lease'[Claimed(q)] = q /\ Claimed(q) \in Pending \ lapsed
      BY <2>5, <3>1 DEF WorkInv, LeaseInv, Pending
    <3>2. QED
      BY <2>1, <2>2, <2>3, <3>1 DEF LeaseInv, Claimed
  <2>7. DeliveryInv'
    BY <1>0, <2>1, <2>2, <2>3, <2>4 DEF WorkInv, DeliveryInv, TypeOK
  <2>8. QED
    BY <2>3, <2>6, <2>7 DEF WorkInv, AckedIsDone
<1>4. ASSUME NEW p \in Processes, Boot(p) PROVE WorkInv'
  BY <1>a, <1>4 DEF Boot
<1>5. ASSUME NEW c \in Calls, LeaseLapses(c) PROVE WorkInv'
  <2>1. UNCHANGED <<worker, calls, lease, recorder, acked>> /\ lapsed' = lapsed \cup {c}
        /\ \A p \in Processes : lease[c] = p => ~Running(p, c)
    BY <1>5 DEF LeaseLapses
  <2>2. \A p \in Processes : worker[p].phase = "running" => Claimed(p) # c
    BY <2>1 DEF WorkInv, LeaseInv, Running
  <2>3. LeaseInv'
    BY <2>1, <2>2 DEF WorkInv, LeaseInv, Claimed, Pending
  <2>4. QED
    BY <2>1, <2>3 DEF WorkInv, DeliveryInv, AckedIsDone, Pending
<1>6. ASSUME NEW c \in Calls, Cleanup(c) PROVE WorkInv'
  <2>1. UNCHANGED <<worker, lease, lapsed, recorder, acked>>
    BY <1>6 DEF Cleanup
  <2>2. UNCHANGED Pending
    BY <1>0, <1>6 DEF Cleanup, Pending, TypeOK
  <2>3. QED
    BY <2>1, <2>2 DEF WorkInv, LeaseInv, DeliveryInv, AckedIsDone, Claimed
<1>7. QED
  BY <1>1, <1>2, <1>3, <1>4, <1>5, <1>6

LEMMA AlwaysWork == Spec => []WorkInv
<1>1. Init => WorkInv
  BY IdleWorker DEF Init, WorkInv, LeaseInv, DeliveryInv, AckedIsDone
<1>2. Typed /\ WorkInv /\ [Next]_vars => WorkInv'
  <2> SUFFICES ASSUME Typed, WorkInv, [Next]_vars PROVE WorkInv'
    OBVIOUS
  <2>1. ASSUME NEW p \in Processes, Finish(p) PROVE WorkInv'
    <3>1. worker[p].event \in Events
      BY <2>1 DEF Finish, Typed
    <3>2. QED
      BY <2>1, <3>1, DeliveryKeepsWork
  <2>2. CASE UNCHANGED vars
    BY <2>2 DEF vars, callVars, WorkInv, LeaseInv, DeliveryInv, AckedIsDone, Claimed, Pending
  <2>3. QED
    BY <2>1, <2>2, ExecuteKeepsWork, DeliveryKeepsWork, OtherKeepsWork DEF Next
<1>3. QED
  BY <1>1, <1>2, AlwaysTyped, PTL DEF Spec

\* A handler runs for a call in one process at a time, and never for a call that
\* is completed: its lease belongs to that process and does not run out under it.
THEOREM OneHandler == Spec => []OneHandlerAtATime
<1>1. WorkInv => OneHandlerAtATime
  BY DEF WorkInv, LeaseInv, OneHandlerAtATime, Running
<1>2. QED
  BY <1>1, AlwaysWork, PTL

\* An event is acknowledged only when none of its calls is left.
THEOREM AcknowledgedIsDone == Spec => []AckedIsDone
<1>1. WorkInv => AckedIsDone
  BY DEF WorkInv
<1>2. QED
  BY <1>1, AlwaysWork, PTL

-----------------------------------------------------------------------------
(* Registries.                                                             *)

RegistryInv == PinInv /\ CheckedInv /\ RecorderKeepsHandler

\* A worker only takes calls away.
LEMMA FewerCalls ==
    ASSUME RegistryInv, UNCHANGED <<siteVars, mutation, recorder>>, Pending' \subseteq Pending
    PROVE  RegistryInv'
BY DEF RegistryInv, PinInv, CheckedInv, RecorderKeepsHandler, siteVars, Up

LEMMA MutateKeepsRegistry ==
    ASSUME Typed, VersionInv, RegistryInv, NEW p \in Processes, Mutate(p)
    PROVE  RegistryInv'
<1>0. TypeOK /\ mutation \in [Processes -> Mutations \cup {None}]
      /\ runtime \in [Processes -> Versions \cup {None}]
  BY DEF Typed
<1> USE DEF SetMutation
<1>a. ASSUME UNCHANGED <<siteVars, callVars, recorder>>,
             mutation'[p] # None =>
               /\ mutation'[p].version \in drained[p] \cup {runtime[p]}
               /\ mutation'[p].pinned => mutation'[p].version = runtime[p] /\ transit[p] = None,
             \A q \in Processes \ {p} : mutation'[q] = mutation[q]
      PROVE  RegistryInv'
  BY <1>a DEF RegistryInv, PinInv, CheckedInv, RecorderKeepsHandler, siteVars, callVars, Up, Pending
<1>1. CASE FindRuntime(p)
  <2> DEFINE m == [version |-> runtime[p], pinned |-> FALSE]
  <2>1. m.version = runtime[p] /\ ~m.pinned
    OBVIOUS
  <2>2. SetMutation(p, m) /\ UNCHANGED <<siteVars, callVars, recorder>>
    BY <1>1 DEF FindRuntime
  <2> HIDE DEF m
  <2>3. QED
    BY <1>0, <1>a, <2>1, <2>2
<1>2. CASE Pin(p)
  <2> DEFINE m == [mutation[p] EXCEPT !.pinned = TRUE]
  <2>1. mutation[p] \in Mutations
    BY <1>0, <1>2 DEF Pin
  <2>2. m.version = mutation[p].version
    BY <2>1 DEF Mutations
  <2>3. SetMutation(p, m) /\ UNCHANGED <<siteVars, callVars, recorder>>
        /\ mutation[p] # None /\ mutation[p].version \notin drained[p]
    BY <1>2 DEF Pin, CanAcquire
  <2> HIDE DEF m
  <2>4. m.version = runtime[p] /\ runtime[p] \notin drained[p] /\ Up(p)
    BY <1>0, <2>2, <2>3 DEF RegistryInv, PinInv, TypeOK
  <2>5. transit[p] = None
    BY <1>0, <2>4 DEF TypeOK
  <2>6. QED
    BY <1>0, <1>a, <2>3, <2>4, <2>5
<1>3. CASE RefuseMutation(p)
  BY <1>0, <1>3, <1>a DEF RefuseMutation
<1>4. CASE CommitMutation(p)
  <2>1. PICK e \in Events :
          /\ recorder[e] = None
          /\ recorder' = [recorder EXCEPT ![e] = p]
          /\ calls' = [c \in Calls |-> IF c[1] = e /\ c[2] \in Handles[mutation[p].version]
                                       THEN "pending" ELSE calls[c]]
    BY <1>4 DEF CommitMutation
  <2>2. /\ mutation'[p] = None /\ \A q \in Processes \ {p} : mutation'[q] = mutation[q]
        /\ UNCHANGED siteVars
    BY <1>0, <1>4 DEF CommitMutation
  <2>3. Up(p) /\ mutation[p].version = runtime[p] /\ transit[p] = None
    BY <1>0, <1>4 DEF CommitMutation, RegistryInv, PinInv, TypeOK
  <2>4. recorder'[e] = p /\ \A x \in Events \ {e} : recorder'[x] = recorder[x]
    BY <1>0, <2>1 DEF TypeOK
  <2>5. \A c \in Pending' : (c \in Pending /\ c[1] # e) \/ (c[1] = e /\ c[2] \in Handles[runtime[p]])
    <3>1. \A c \in Calls : c[1] = e => calls[c] = "none"
      BY <1>0, <2>1 DEF TypeOK
    <3>2. QED
      BY <2>1, <2>3, <3>1 DEF Pending
  <2>6. PinInv'
    BY <2>2 DEF RegistryInv, PinInv, siteVars
  <2>7. CheckedInv'
    <3>1. \A x \in Events : recorder'[x] \in Processes => Up(recorder'[x])
      BY <2>3, <2>4 DEF RegistryInv, CheckedInv
    <3>2. ASSUME NEW q \in Processes, transit[q] # None, transit[q].checked,
                 NEW c \in Pending', recorder'[c[1]] = q
          PROVE  c[2] \in Handles[transit[q].to]
      <4>1. q # p
        BY <2>3, <3>2
      <4>2. c[1] \in Events /\ c[1] # e /\ c \in Pending
        BY <2>4, <2>5, <3>2, <4>1 DEF Pending, Calls
      <4>3. QED
        BY <2>4, <3>2, <4>2 DEF RegistryInv, CheckedInv
    <3>3. QED
      BY <2>2, <3>1, <3>2 DEF CheckedInv, siteVars, Up
  <2>8. RecorderKeepsHandler'
    <3>1. ASSUME NEW c \in Pending', recorder'[c[1]] \in Processes
          PROVE  c[2] \in Handles[runtime[recorder'[c[1]]]]
      <4>1. CASE c[1] = e
        BY <2>4, <2>5, <4>1
      <4>2. CASE c[1] # e
        <5>1. c \in Pending /\ c[1] \in Events
          BY <2>5, <4>2 DEF Pending, Calls
        <5>2. QED
          BY <2>4, <3>1, <4>2, <5>1 DEF RegistryInv, RecorderKeepsHandler
      <4>3. QED
        BY <4>1, <4>2
    <3>2. QED
      BY <2>2, <3>1 DEF RecorderKeepsHandler, siteVars
  <2>9. QED
    BY <2>6, <2>7, <2>8 DEF RegistryInv
<1>5. QED
  BY <1>1, <1>2, <1>3, <1>4 DEF Mutate

LEMMA TransitionKeepsRegistry ==
    ASSUME Typed, VersionInv, RegistryInv, NEW p \in Processes, Transition(p)
    PROVE  RegistryInv'
<1>0. TypeOK /\ transit \in [Processes -> Transits \cup {None}]
      /\ runtime \in [Processes -> Versions \cup {None}] /\ drained \in [Processes -> SUBSET Versions]
      /\ mutation \in [Processes -> Mutations \cup {None}]
  BY DEF Typed
<1>1. UNCHANGED <<mutation, recorder>> /\ UNCHANGED Pending
  BY DEF Transition, Drain, CheckPending, AbortTransition, Publish, Pending, callVars
<1> USE DEF SetTransit
<1>2. CASE Drain(p)
  <2>1. PICK to \in Versions, updates \in BOOLEAN :
          SetTransit(p, [to |-> to, update |-> updates, checked |-> FALSE])
    BY <1>2 DEF Drain
  <2> DEFINE t == [to |-> to, update |-> updates, checked |-> FALSE]
  <2>2. ~t.checked
    OBVIOUS
  <2>3. transit'[p] = t /\ \A q \in Processes \ {p} : transit'[q] = transit[q]
    BY <1>0, <2>1
  <2> HIDE DEF t
  <2>4. /\ UNCHANGED runtime /\ drained'[p] = drained[p] \cup {runtime[p]}
        /\ \A q \in Processes \ {p} : drained'[q] = drained[q]
        /\ ~(mutation[p] # None /\ mutation[p].pinned)
    BY <1>0, <1>2 DEF Drain, Active
  <2>5. PinInv'
    BY <1>1, <2>3, <2>4 DEF RegistryInv, PinInv
  <2>6. CheckedInv'
    BY <1>1, <2>2, <2>3, <2>4 DEF RegistryInv, CheckedInv, Up
  <2>7. RecorderKeepsHandler'
    BY <1>1, <2>4 DEF RegistryInv, RecorderKeepsHandler
  <2>8. QED
    BY <2>5, <2>6, <2>7 DEF RegistryInv
<1>3. CASE CheckPending(p)
  <2> DEFINE t == [transit[p] EXCEPT !.checked = TRUE]
  <2>1. transit[p] # None /\ transit[p] \in Transits /\ Survives(p, transit[p].to)
    BY <1>0, <1>3 DEF CheckPending
  <2>2. t.to = transit[p].to
    BY <2>1 DEF Transits
  <2>3. transit'[p] = t /\ \A q \in Processes \ {p} : transit'[q] = transit[q]
    BY <1>0, <1>3 DEF CheckPending
  <2> HIDE DEF t
  <2>4. UNCHANGED <<runtime, drained>>
    BY <1>3 DEF CheckPending
  <2>5. \A c \in Pending : c[2] \in Handles[transit[p].to]
    BY <2>1 DEF Survives, PendingHandlers
  <2>6. PinInv'
    BY <1>1, <2>1, <2>3, <2>4 DEF RegistryInv, PinInv
  <2>7. CheckedInv'
    BY <1>1, <2>2, <2>3, <2>4, <2>5 DEF RegistryInv, CheckedInv, Up
  <2>8. RecorderKeepsHandler'
    BY <1>1, <2>4 DEF RegistryInv, RecorderKeepsHandler
  <2>9. QED
    BY <2>6, <2>7, <2>8 DEF RegistryInv
<1>4. CASE AbortTransition(p)
  <2>1. /\ transit'[p] = None /\ \A q \in Processes \ {p} : transit'[q] = transit[q]
        /\ UNCHANGED runtime /\ drained'[p] = drained[p] \ {runtime[p]}
        /\ \A q \in Processes \ {p} : drained'[q] = drained[q]
    BY <1>0, <1>4 DEF AbortTransition
  <2>2. PinInv'
    BY <1>1, <2>1 DEF RegistryInv, PinInv
  <2>3. CheckedInv'
    BY <1>1, <2>1 DEF RegistryInv, CheckedInv, Up
  <2>4. RecorderKeepsHandler'
    BY <1>1, <2>1 DEF RegistryInv, RecorderKeepsHandler
  <2>5. QED
    BY <2>2, <2>3, <2>4 DEF RegistryInv
<1>5. CASE Publish(p)
  <2>1. /\ transit[p] # None /\ transit[p].checked
        /\ transit'[p] = None /\ \A q \in Processes \ {p} : transit'[q] = transit[q]
        /\ runtime'[p] = transit[p].to /\ \A q \in Processes \ {p} : runtime'[q] = runtime[q]
        /\ UNCHANGED drained
    BY <1>0, <1>5 DEF Publish
  <2>2. runtime[p] \in drained[p] /\ transit[p].to # None
    BY <1>0, <2>1, HooksAssumption DEF TypeOK
  <2>3. PinInv'
    BY <1>1, <2>1, <2>2 DEF RegistryInv, PinInv
  <2>4. CheckedInv'
    BY <1>1, <2>1, <2>2 DEF RegistryInv, CheckedInv, Up
  <2>5. RecorderKeepsHandler'
    BY <1>1, <2>1 DEF RegistryInv, CheckedInv, RecorderKeepsHandler
  <2>6. QED
    BY <2>3, <2>4, <2>5 DEF RegistryInv
<1>6. QED
  BY <1>2, <1>3, <1>4, <1>5 DEF Transition

LEMMA RestartKeepsRegistry ==
    ASSUME Typed, VersionInv, RegistryInv, NEW p \in Processes, Stop(p) \/ Boot(p)
    PROVE  RegistryInv'
<1>0. TypeOK /\ transit \in [Processes -> Transits \cup {None}]
      /\ runtime \in [Processes -> Versions \cup {None}] /\ drained \in [Processes -> SUBSET Versions]
      /\ mutation \in [Processes -> Mutations \cup {None}]
  BY DEF Typed
<1>1. CASE Stop(p)
  <2>1. /\ mutation'[p] = None /\ transit'[p] = None /\ UNCHANGED calls
        /\ \A q \in Processes \ {p} :
             /\ mutation'[q] = mutation[q] /\ transit'[q] = transit[q]
             /\ runtime'[q] = runtime[q] /\ drained'[q] = drained[q]
    BY <1>0, <1>1 DEF Stop, SetMutation, SetTransit
  <2>2. \A e \in Events : recorder'[e] \in Processes => recorder'[e] = recorder[e] /\ recorder[e] # p
    BY <1>0, <1>1, HooksAssumption DEF Stop, TypeOK
  <2>3. \A c \in Pending : c[1] \in Events
    BY DEF Pending, Calls
  <2>4. PinInv'
    BY <2>1 DEF RegistryInv, PinInv
  <2>5. CheckedInv'
    BY <2>1, <2>2, <2>3 DEF RegistryInv, CheckedInv, Up, Pending
  <2>6. RecorderKeepsHandler'
    BY <2>1, <2>2, <2>3 DEF RegistryInv, RecorderKeepsHandler, Pending
  <2>7. QED
    BY <2>4, <2>5, <2>6 DEF RegistryInv
<1>2. CASE Boot(p)
  <2>1. ~Up(p) /\ mutation[p] = None /\ transit[p] = None
        /\ UNCHANGED <<mutation, transit, drained, recorder, calls>>
    BY <1>0, <1>2 DEF Boot, TypeOK, callVars
  <2>2. runtime'[p] # None /\ \A q \in Processes \ {p} : runtime'[q] = runtime[q]
    BY <1>0, <1>2, HooksAssumption DEF Boot, TypeOK
  <2>3. \A e \in Events : recorder[e] # p \/ recorder[e] \notin Processes
    BY <2>1 DEF RegistryInv, CheckedInv
  <2>4. \A c \in Pending : c[1] \in Events
    BY DEF Pending, Calls
  <2>5. PinInv'
    BY <2>1, <2>2 DEF RegistryInv, PinInv
  <2>6. CheckedInv'
    BY <2>1, <2>2 DEF RegistryInv, CheckedInv, Up, Pending
  <2>7. RecorderKeepsHandler'
    BY <2>1, <2>2, <2>3, <2>4 DEF RegistryInv, RecorderKeepsHandler, Pending
  <2>8. QED
    BY <2>5, <2>6, <2>7 DEF RegistryInv
<1>3. QED
  BY <1>1, <1>2

LEMMA AlwaysRegistry == Spec => []RegistryInv
<1>1. Init => RegistryInv
  <2> SUFFICES ASSUME Init PROVE RegistryInv
    OBVIOUS
  <2>1. \A e \in Events : recorder[e] = None
    BY DEF Init
  <2>2. \A p \in Processes : mutation[p] = None /\ transit[p] = None
    BY DEF Init
  <2>3. Pending = {}
    BY DEF Init, Pending
  <2>4. QED
    BY <2>1, <2>2, <2>3, HooksAssumption DEF RegistryInv, PinInv, CheckedInv, RecorderKeepsHandler
<1>2. Typed /\ VersionInv /\ RegistryInv /\ [Next]_vars => RegistryInv'
  <2> SUFFICES ASSUME Typed, VersionInv, RegistryInv, [Next]_vars PROVE RegistryInv'
    OBVIOUS
  <2>1. ASSUME NEW p \in Processes, Execute(p) PROVE RegistryInv'
    <3>1. UNCHANGED <<siteVars, mutation, recorder>>
      BY <2>1, ExecuteShape DEF Moves
    <3>2. \A c \in Calls : calls'[c] # calls[c] => calls'[c] = "done"
      BY <2>1, ExecuteShape DEF CallStep
    <3>3. Pending' \subseteq Pending
      BY <3>2 DEF Pending
    <3>4. QED
      BY <3>1, <3>3, FewerCalls
  <2>2. ASSUME NEW p \in Processes,
               Finish(p) \/ \E e \in Events : Receive(p, e)
        PROVE  RegistryInv'
    BY <2>2, FewerCalls DEF Finish, Receive, callVars, Pending
  <2>3. ASSUME NEW c \in Calls, LeaseLapses(c) \/ Cleanup(c) PROVE RegistryInv'
    <3>1. UNCHANGED <<siteVars, mutation, recorder>> /\ Pending' \subseteq Pending
      BY <2>3 DEF LeaseLapses, Cleanup, Pending, Typed, TypeOK
    <3>2. QED
      BY <3>1, FewerCalls
  <2>4. CASE UNCHANGED vars
    BY <2>4, FewerCalls DEF vars, callVars, Pending
  <2>5. QED
    BY <2>1, <2>2, <2>3, <2>4, MutateKeepsRegistry, TransitionKeepsRegistry,
       RestartKeepsRegistry DEF Next
<1>3. QED
  BY <1>1, <1>2, AlwaysTyped, PTL DEF Spec

\* The process that recorded a call keeps a handler for it as long as it runs:
\* no transition slips between a commit and the look at the pending calls.
THEOREM RecorderHasHandler == Spec => []RecorderKeepsHandler
<1>1. RegistryInv => RecorderKeepsHandler
  BY DEF RegistryInv
<1>2. QED
  BY <1>1, AlwaysRegistry, PTL

-----------------------------------------------------------------------------
(* Background tasks: no instance is forgotten, and instances never wait    *)
(* for each other in a circle.                                             *)

USE BackgroundAssumption DEF BackgroundAssumption, Runtimes, NoRuntime

TasksInv == TasksTypeOK /\ NoInstanceForgotten

LEMMA TasksInitHolds == TasksInit => TasksInv
BY DEF TasksInit, TasksInv, TasksTypeOK, NoInstanceForgotten, Alive

\* The snapshot is stored, or given up, without a word to the manager.
LEMMA CatalogStep ==
    ASSUME TasksInv, StoreSnapshot \/ AbandonUpdate
    PROVE  TasksInv'
<1> USE DEF TasksInv, TasksTypeOK, NoInstanceForgotten, Alive
<1>1. CASE StoreSnapshot
  BY <1>1 DEF StoreSnapshot
<1>2. CASE AbandonUpdate
  BY <1>2 DEF AbandonUpdate
<1>3. QED
  BY <1>1, <1>2

\* The manager cancels what it replaces before it forgets it, and after the
\* shutdown it starts nothing that is not cancelled from the beginning.
LEMMA ManagerStep ==
    ASSUME TasksInv, Apply \/ Shutdown \/ Return
    PROVE  TasksInv'
<1> USE DEF TasksInv, TasksTypeOK, NoInstanceForgotten, Alive
<1>1. CASE Apply
  <2>1. TasksTypeOK'
    <3>1. cancelled' \subseteq Runtimes
      BY <1>1 DEF Apply
    <3>2. CASE current \in {active, NoRuntime}
      BY <1>1, <3>1, <3>2 DEF Apply
    <3>3. CASE current \notin {active, NoRuntime}
      BY <1>1, <3>1, <3>3 DEF Apply
    <3>4. QED
      BY <3>2, <3>3
  <2>2. Alive' \subseteq Alive \cup ({current} \ {NoRuntime})
    BY <1>1 DEF Apply
  <2>3. active # current => active \in cancelled' \/ active = NoRuntime
    BY <1>1 DEF Apply
  <2>4. cancelled \subseteq cancelled' /\ active' = current /\ manager' = manager
    BY <1>1 DEF Apply
  <2>5. QED
    BY <1>1, <2>1, <2>2, <2>3, <2>4 DEF Apply
<1>2. CASE Shutdown
  BY <1>2 DEF Shutdown
<1>3. CASE Return
  BY <1>3 DEF Return
<1>4. QED
  BY <1>1, <1>2, <1>3

\* A goroutine that has ended stays ended, so its steps add no instance.
LEMMA GoroutineStep ==
    ASSUME TasksInv, NEW r \in Runtimes, Goroutine(r)
    PROVE  TasksInv'
<1>1. r \in Alive
  BY DEF Goroutine, Start, GiveUp, RunReturns, PauseEnds, Alive
<1>2. PICK state \in {"running", "pausing", "ended"} : Becomes(r, state)
  BY DEF Goroutine, Start, GiveUp, RunReturns, PauseEnds
<1>3. TasksTypeOK'
  BY <1>2 DEF TasksInv, TasksTypeOK, Becomes
<1>4. Alive' \subseteq Alive
  BY <1>1, <1>2 DEF TasksInv, TasksTypeOK, Alive, Becomes
<1>5. NoInstanceForgotten'
  BY <1>2, <1>4 DEF TasksInv, NoInstanceForgotten, Becomes
<1>6. QED
  BY <1>3, <1>5 DEF TasksInv

LEMMA TasksInvariant == TasksSpec => []TasksInv
<1>1. TasksInv /\ [TasksNext]_taskVars => TasksInv'
  <2> SUFFICES ASSUME TasksInv, [TasksNext]_taskVars PROVE TasksInv'
    OBVIOUS
  <2>1. CASE UNCHANGED taskVars
    BY <2>1 DEF taskVars, TasksInv, TasksTypeOK, NoInstanceForgotten, Alive
  <2>2. QED
    BY <2>1, CatalogStep, ManagerStep, GoroutineStep DEF TasksNext
<1>2. QED
  BY <1>1, TasksInitHolds, PTL DEF TasksSpec

\* Every reachable state is well typed, and the task that the manager's entry
\* stands for has a goroutine.
THEOREM TasksTypeCorrect == TasksSpec => []TasksTypeOK
BY TasksInvariant, PTL DEF TasksInv

\* At most one instance of the task is not cancelled, the one the manager knows,
\* for any number and order of replacements; none is left when it has returned.
THEOREM NoneForgotten == TasksSpec => []NoInstanceForgotten
BY TasksInvariant, PTL DEF TasksInv

-----------------------------------------------------------------------------
(* Why instances cannot wait for each other for ever.                      *)

\* The published runtime is the last one built, and the manager knows no later one.
Newest == current \in {NoRuntime, built} /\ active <= built

\* An instance waits only for the instance of an older runtime, which has been
\* cancelled by the same update (apply collects the done channels of what it
\* cancels).
WaitsForOlder ==
    \A r \in Runtimes :
        waitsFor[r] # NoRuntime => waitsFor[r] < r /\ waitsFor[r] \in cancelled

\* No circle of waiting instances, and nobody waits for one that may go on:
\* with tasks that return once they are cancelled, every instance ends.
THEOREM NoCircularWait == TasksSpec => []WaitsForOlder
<1> DEFINE WInv == Newest /\ WaitsForOlder
<1>1. TasksInit => WInv
  BY DEF TasksInit, Newest, WaitsForOlder
<1>2. TasksTypeOK /\ WInv /\ [TasksNext]_taskVars => WInv'
  <2> SUFFICES ASSUME TasksTypeOK, WInv, [TasksNext]_taskVars PROVE WInv'
    OBVIOUS
  <2> USE DEF TasksTypeOK, Newest, WaitsForOlder
  <2>1. CASE StoreSnapshot
    BY <2>1 DEF StoreSnapshot
  <2>2. CASE AbandonUpdate
    BY <2>2 DEF AbandonUpdate
  <2>3. CASE Apply
    <3>1. Newest'
      BY <2>3 DEF Apply
    <3>2. cancelled \subseteq cancelled'
      BY <2>3 DEF Apply
    <3>3. CASE current \in {active, NoRuntime}
      BY <2>3, <3>1, <3>2, <3>3 DEF Apply
    <3>4. CASE current \notin {active, NoRuntime}
      <4>1. active < current /\ (active # NoRuntime => active \in cancelled')
        BY <2>3, <3>4 DEF Apply
      <4>2. QED
        BY <2>3, <3>1, <3>2, <3>4, <4>1 DEF Apply
    <3>5. QED
      BY <3>3, <3>4
  <2>4. CASE Shutdown
    BY <2>4 DEF Shutdown
  <2>5. CASE Return
    BY <2>5 DEF Return
  <2>6. ASSUME NEW r \in Runtimes, Goroutine(r) PROVE WInv'
    BY <2>6 DEF Goroutine, Start, GiveUp, RunReturns, PauseEnds, Becomes
  <2>7. CASE UNCHANGED taskVars
    BY <2>7 DEF taskVars
  <2>8. QED
    BY <2>1, <2>2, <2>3, <2>4, <2>5, <2>6, <2>7 DEF TasksNext
<1>3. QED
  BY <1>1, <1>2, TasksTypeCorrect, PTL DEF TasksSpec
================================================================================
