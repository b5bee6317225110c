-------------------------- MODULE FormsExecutionProofs --------------------------
(***************************************************************************)
(* The safety of the executions and uploads of a submission, for any       *)
(* number of executions, runtimes and attempts.                            *)
(***************************************************************************)
EXTENDS FormsExecution, TLAPS

-----------------------------------------------------------------------------
(* The three kinds of steps.                                               *)

Request ==
    \/ \E r \in Runtimes : SpoolUploads(r)
    \/ CreateResult \/ CreateFails \/ DeleteCheck \/ DeleteResult
    \/ \E r \in Runtimes, e \in Executions : ChangeResultStatus(r, e)

Environment ==
    \/ \E r \in Runtimes : Drain(r) \/ Crash(r)
    \/ SweepScan \/ SweepDelete
    \/ \E e \in Executions : LeaseExpires(e) \/ DuplicateJob(e)

LEMMA NextCases == Next => Request \/ (\E r \in Runtimes : Handle(r)) \/ Environment
BY DEF Next, Request, Environment

-----------------------------------------------------------------------------
(* Types.                                                                  *)

\* A worker is idle exactly when it has no execution in hand, and a spooled
\* submission has a runtime that serves it.
HandInv == \A r \in Runtimes : step[r] = "idle" <=> hand[r] = NoExecution

SubmitterInv == submit = "spooled" => submitter \in Serving

Typed == TypeOK /\ HandInv /\ SubmitterInv

LEMMA ResultRange == \A r \in Runtimes : ResultOf(r) \in {"succeeded", "retryable", "failed"}
BY DEF ResultOf

LEMMA InitTyped == Init => Typed
<1> SUFFICES ASSUME Init PROVE Typed
  OBVIOUS
<1>1. accepted \in BOOLEAN /\ doomed \in BOOLEAN
  BY Zenon DEF Init
<1>2. QED
  BY <1>1, FormsAssumption DEF Init, Typed, TypeOK, HandInv, SubmitterInv, ActiveStatus

LEMMA RequestTyped ==
    ASSUME Typed, Request
    PROVE  Typed'
<1> USE FormsAssumption
    DEF Typed, TypeOK, HandInv, SubmitterInv, ActiveStatus, submitVars, spoolVars,
        executionVars, workerVars
<1>1. ASSUME NEW r \in Runtimes, SpoolUploads(r) PROVE Typed'
  BY <1>1 DEF SpoolUploads
<1>2. CASE CreateResult
  BY <1>2 DEF CreateResult, InsertExecutions, TryDelete
<1>3. CASE CreateFails
  BY <1>3 DEF CreateFails, InsertExecutions, TryDelete
<1>4. CASE DeleteCheck
  BY <1>4 DEF DeleteCheck
<1>5. CASE DeleteResult
  BY <1>5 DEF DeleteResult, TryDelete
<1>6. ASSUME NEW r \in Runtimes, NEW e \in Executions, ChangeResultStatus(r, e) PROVE Typed'
  BY <1>6 DEF ChangeResultStatus, InsertExecutions
<1>7. QED
  BY <1>1, <1>2, <1>3, <1>4, <1>5, <1>6 DEF Request

LEMMA HandleTyped ==
    ASSUME Typed, NEW r \in Runtimes, Handle(r)
    PROVE  Typed'
<1> USE FormsAssumption
    DEF Typed, TypeOK, HandInv, SubmitterInv, ActiveStatus, submitVars, spoolVars, executionVars
<1>1. ASSUME NEW e \in Executions, TakeJob(r, e) PROVE Typed'
  BY <1>1 DEF TakeJob
<1>2. CASE Claim(r)
  BY <1>2 DEF Claim
<1>3. CASE ClaimExhausted(r)
  BY <1>3 DEF ClaimExhausted, Return
<1>4. CASE ClaimRefused(r)
  BY <1>4 DEF ClaimRefused, Return
<1>5. CASE Execute(r)
  BY <1>5 DEF Execute
<1>6. CASE Finish(r)
  BY <1>6, ResultRange DEF Finish, Settle
<1>7. CASE FinishFails(r)
  BY <1>7, ResultRange DEF FinishFails, Settle
<1>8. CASE Cleanup(r)
  BY <1>8 DEF Cleanup, Return, TryDelete
<1>9. QED
  BY <1>1, <1>2, <1>3, <1>4, <1>5, <1>6, <1>7, <1>8 DEF Handle

LEMMA EnvironmentTyped ==
    ASSUME Typed, Environment
    PROVE  Typed'
<1> USE FormsAssumption
    DEF Typed, TypeOK, HandInv, SubmitterInv, ActiveStatus, submitVars, spoolVars,
        executionVars, workerVars
<1>1. ASSUME NEW r \in Runtimes, Drain(r) PROVE Typed'
  <2>1. PICK g \in {"open", "draining", "inactive", "prepared", "retired"} :
          GateTo(r, g) /\ uploads' \in {uploads, "deleted"}
    BY <1>1 DEF Drain, BeginDrain, CheckActive, Purge, Transition, GateTo
  <2>2. QED
    BY <2>1 DEF GateTo
<1>2. ASSUME NEW r \in Runtimes, Crash(r) PROVE Typed'
  BY <1>2 DEF Crash
<1>3. CASE SweepScan \/ SweepDelete
  BY <1>3 DEF SweepScan, SweepDelete
<1>4. ASSUME NEW e \in Executions, LeaseExpires(e) \/ DuplicateJob(e) PROVE Typed'
  BY <1>4 DEF LeaseExpires, DuplicateJob
<1>5. QED
  BY <1>1, <1>2, <1>3, <1>4 DEF Environment

LEMMA AlwaysTyped == Spec => []Typed
<1>1. Typed /\ [Next]_vars => Typed'
  <2> SUFFICES ASSUME Typed, [Next]_vars PROVE Typed'
    OBVIOUS
  <2>1. CASE UNCHANGED vars
    BY <2>1 DEF vars, submitVars, spoolVars, executionVars, workerVars, Typed, TypeOK,
                HandInv, SubmitterInv
  <2>2. QED
    BY <2>1, NextCases, RequestTyped, HandleTyped, EnvironmentTyped
<1>2. QED
  BY <1>1, InitTyped, PTL DEF Spec

\* Every reachable state is well typed: in particular attempt_count never
\* exceeds the limit, whichever worker claims the execution again.
THEOREM TypeCorrect == Spec => []TypeOK
BY AlwaysTyped, PTL DEF Typed

-----------------------------------------------------------------------------
(* Jobs and the spool.                                                     *)

\* What is not settled has its job record; an execution that is being cleaned
\* up after was settled and never becomes active again.
JobsInv ==
    /\ Active \subseteq jobs
    /\ \A r \in Runtimes : step[r] = "cleanup" =>
           status[hand[r]] \notin ActiveStatus \cup {"none"}

\* There are no executions before the call is answered.  Uploads a sweep has
\* found unreferenced are those of an answered call; no execution of the
\* submission can appear any more.
SpoolInv ==
    /\ submit # "answered" => result = "none" /\ \A e \in Executions : status[e] = "none"
    /\ accepted => submit = "answered"
    /\ submit = "none" => uploads # "stored"
    /\ doomed => submit = "answered" /\ Active \cap Submitted = {}

IInv == Typed /\ JobsInv /\ SpoolInv

LEMMA InitInv == Init => IInv
<1> SUFFICES ASSUME Init PROVE IInv
  OBVIOUS
<1>1. accepted = FALSE /\ doomed = FALSE
  BY Zenon DEF Init
<1>2. QED
  BY <1>1, InitTyped DEF Init, IInv, JobsInv, SpoolInv, Active, ActiveStatus

LEMMA RequestKeepsInv ==
    ASSUME IInv, Typed', Request
    PROVE  IInv'
<1> USE FormsAssumption
    DEF IInv, Typed, TypeOK, HandInv, JobsInv, SpoolInv, Active, ActiveStatus, submitVars,
        spoolVars, executionVars, workerVars
<1>1. ASSUME NEW r \in Runtimes, SpoolUploads(r) PROVE IInv'
  BY <1>1 DEF SpoolUploads
<1>2. CASE CreateResult
  <2>1. submit = "spooled" /\ submit' = "answered" /\ ~doomed /\ UNCHANGED doomed
    BY <1>2 DEF CreateResult
  <2>2. JobsInv'
    BY <1>2 DEF CreateResult, InsertExecutions
  <2>3. QED
    BY <2>1, <2>2
<1>3. CASE CreateFails
  <2>1. submit = "spooled" /\ submit' = "answered" /\ ~doomed /\ UNCHANGED doomed
    BY <1>3 DEF CreateFails
  <2>2. JobsInv'
    BY <1>3 DEF CreateFails, InsertExecutions
  <2>3. QED
    BY <2>1, <2>2
<1>4. CASE DeleteCheck
  BY <1>4 DEF DeleteCheck
<1>5. CASE DeleteResult
  BY <1>5 DEF DeleteResult, TryDelete
<1>6. ASSUME NEW r \in Runtimes, NEW e \in Executions, ChangeResultStatus(r, e) PROVE IInv'
  BY <1>6 DEF ChangeResultStatus, InsertExecutions
<1>7. QED
  BY <1>1, <1>2, <1>3, <1>4, <1>5, <1>6 DEF Request

LEMMA HandleKeepsInv ==
    ASSUME IInv, Typed', NEW r \in Runtimes, Handle(r)
    PROVE  IInv'
<1> USE FormsAssumption
    DEF IInv, Typed, TypeOK, HandInv, JobsInv, SpoolInv, Active, ActiveStatus, submitVars,
        spoolVars, executionVars
<1>1. ASSUME NEW e \in Executions, TakeJob(r, e) PROVE IInv'
  BY <1>1 DEF TakeJob
<1>2. CASE Claim(r)
  BY <1>2 DEF Claim, Claimable, Waiting
<1>3. CASE ClaimExhausted(r)
  BY <1>3 DEF ClaimExhausted, Claimable, Waiting, Return
<1>4. CASE ClaimRefused(r)
  BY <1>4 DEF ClaimRefused, Claimable, Waiting, Return
<1>5. CASE Execute(r)
  BY <1>5 DEF Execute
<1>6. CASE Finish(r)
  BY <1>6, ResultRange DEF Finish, Settle
<1>7. CASE FinishFails(r)
  BY <1>7, ResultRange DEF FinishFails, Settle
<1>8. CASE Cleanup(r)
  BY <1>8 DEF Cleanup, Return, TryDelete
<1>9. QED
  BY <1>1, <1>2, <1>3, <1>4, <1>5, <1>6, <1>7, <1>8 DEF Handle

LEMMA EnvironmentKeepsInv ==
    ASSUME IInv, Typed', Environment
    PROVE  IInv'
<1> USE FormsAssumption
    DEF IInv, Typed, TypeOK, HandInv, JobsInv, SpoolInv, Active, ActiveStatus, submitVars,
        spoolVars, executionVars, workerVars
<1>1. ASSUME NEW r \in Runtimes, Drain(r) PROVE IInv'
  BY <1>1 DEF Drain, BeginDrain, CheckActive, Purge, Transition, GateTo
<1>2. ASSUME NEW r \in Runtimes, Crash(r) PROVE IInv'
  BY <1>2 DEF Crash
<1>3. CASE SweepScan
  BY <1>3 DEF SweepScan, Unreferenced
<1>4. CASE SweepDelete
  BY <1>4 DEF SweepDelete
<1>5. ASSUME NEW e \in Executions, LeaseExpires(e) \/ DuplicateJob(e) PROVE IInv'
  BY <1>5 DEF LeaseExpires, DuplicateJob
<1>6. QED
  BY <1>1, <1>2, <1>3, <1>4, <1>5 DEF Environment

LEMMA Invariant == Spec => []IInv
<1>1. IInv /\ Typed' /\ [Next]_vars => IInv'
  <2> SUFFICES ASSUME IInv, Typed', [Next]_vars PROVE IInv'
    OBVIOUS
  <2>1. CASE UNCHANGED vars
    BY <2>1 DEF vars, submitVars, spoolVars, executionVars, workerVars, IInv, JobsInv,
                SpoolInv, Active
  <2>2. QED
    BY <2>1, NextCases, RequestKeepsInv, HandleKeepsInv, EnvironmentKeepsInv
<1>2. QED
  BY <1>1, InitInv, AlwaysTyped, PTL DEF Spec

\* Whatever worker, crash, eviction or duplicate comes between, an execution
\* that is not settled has a job record that will be delivered again.
THEOREM JobsAreKept == Spec => [](Active \subseteq jobs)
<1>1. IInv => Active \subseteq jobs
  BY DEF IInv, JobsInv
<1>2. QED
  BY <1>1, Invariant, PTL

-----------------------------------------------------------------------------
(* The drain.                                                              *)

\* Requests of the site come through the runtime that is drained.  A request
\* on a runtime that has been replaced passes the drain of its successor.
SoleServer == \A r \in Serving, q \in Leaving : r = q

\* From the moment a drain has found no active execution the site has none.
DrainInv ==
    \A r \in Runtimes :
        /\ gate[r] # "open" => r \in Leaving
        /\ gate[r] \in {"inactive", "prepared", "retired"} => Active = {}

LEMMA DrainInvariant == ASSUME SoleServer PROVE Spec => []DrainInv
<1>1. Init => DrainInv
  BY DEF Init, DrainInv
<1>2. IInv /\ DrainInv /\ [Next]_vars => DrainInv'
  <2> SUFFICES ASSUME IInv, DrainInv, [Next]_vars PROVE DrainInv'
    OBVIOUS
  <2> USE FormsAssumption
      DEF IInv, Typed, TypeOK, HandInv, SubmitterInv, DrainInv, Active, ActiveStatus,
          submitVars, spoolVars, executionVars, workerVars
  <2>1. CASE Request
    <3>1. ASSUME NEW r \in Runtimes, SpoolUploads(r) PROVE DrainInv'
      BY <3>1 DEF SpoolUploads
    <3>2. CASE CreateResult
      BY <3>2 DEF CreateResult, InsertExecutions, SoleServer
    <3>3. CASE CreateFails
      BY <3>3 DEF CreateFails, InsertExecutions, SoleServer
    <3>4. CASE DeleteCheck
      BY <3>4 DEF DeleteCheck
    <3>5. CASE DeleteResult
      BY <3>5 DEF DeleteResult
    <3>6. ASSUME NEW r \in Runtimes, NEW e \in Executions, ChangeResultStatus(r, e)
          PROVE  DrainInv'
      BY <3>6 DEF ChangeResultStatus, InsertExecutions, SoleServer
    <3>7. QED
      BY <2>1, <3>1, <3>2, <3>3, <3>4, <3>5, <3>6 DEF Request
  <2>2. ASSUME NEW r \in Runtimes, Handle(r) PROVE DrainInv'
    <3>1. Active' \subseteq Active /\ UNCHANGED gate
      <4>1. ASSUME NEW e \in Executions, TakeJob(r, e) PROVE <3>1
        BY <4>1 DEF TakeJob
      <4>2. CASE Claim(r)
        BY <4>2 DEF Claim, Claimable, Waiting
      <4>3. CASE ClaimExhausted(r)
        BY <4>3 DEF ClaimExhausted
      <4>4. CASE ClaimRefused(r) \/ Execute(r) \/ Cleanup(r)
        BY <4>4 DEF ClaimRefused, Execute, Cleanup
      <4>5. CASE Finish(r)
        BY <4>5, ResultRange DEF Finish, Settle
      <4>6. CASE FinishFails(r)
        BY <4>6, ResultRange DEF FinishFails, Settle
      <4>7. QED
        BY <2>2, <4>1, <4>2, <4>3, <4>4, <4>5, <4>6 DEF Handle
    <3>2. QED
      BY <3>1
  <2>3. CASE Environment
    <3>1. ASSUME NEW r \in Runtimes, Drain(r) PROVE DrainInv'
      BY <3>1 DEF Drain, BeginDrain, CheckActive, Purge, Transition, GateTo
    <3>2. ASSUME NEW r \in Runtimes, Crash(r) PROVE DrainInv'
      BY <3>2 DEF Crash
    <3>3. CASE SweepScan \/ SweepDelete
      BY <3>3 DEF SweepScan, SweepDelete
    <3>4. ASSUME NEW e \in Executions, LeaseExpires(e) \/ DuplicateJob(e) PROVE DrainInv'
      BY <3>4 DEF LeaseExpires, DuplicateJob
    <3>5. QED
      BY <2>3, <3>1, <3>2, <3>3, <3>4 DEF Environment
  <2>4. CASE UNCHANGED vars
    BY <2>4 DEF vars
  <2>5. QED
    BY <2>1, <2>2, <2>3, <2>4, NextCases
<1>3. QED
  BY <1>1, <1>2, Invariant, PTL DEF Spec

\* When the site's requests come through the runtime that leaves, an execution
\* that is not settled is never stranded: its job record is still there, and no
\* retired runtime has left it behind.
THEOREM NoneStranded == ASSUME SoleServer PROVE Spec => []NothingStranded
<1>1. IInv /\ DrainInv => NothingStranded
  BY DEF IInv, JobsInv, DrainInv, NothingStranded
<1>2. QED
  BY <1>1, Invariant, DrainInvariant, PTL

\* Under the same condition no cleanup, sweep, deletion or purge removes the
\* uploads of an accepted submission that an execution still needs.
THEOREM UploadsSafe == ASSUME SoleServer PROVE Spec => UploadsKept
<1> DEFINE Kept == accepted /\ uploads = "stored" /\ uploads' # "stored"
                     => Active' \cap Submitted = {}
<1>1. IInv /\ DrainInv /\ [Next]_vars => [Kept]_vars
  <2> SUFFICES ASSUME IInv, DrainInv, Next, accepted, uploads = "stored", uploads' # "stored"
               PROVE  Active' \cap Submitted = {}
    BY DEF vars
  <2> USE DEF IInv, SpoolInv
  <2>1. CASE Request
    <3>1. DeleteResult
      BY <2>1 DEF Request, SpoolUploads, CreateResult, CreateFails, DeleteCheck,
                  ChangeResultStatus, spoolVars
    <3>2. QED
      BY <3>1 DEF DeleteResult, Active, ActiveStatus
  <2>2. ASSUME NEW r \in Runtimes, Handle(r) PROVE Active' \cap Submitted = {}
    <3>1. Cleanup(r)
      BY <2>2 DEF Handle, TakeJob, Claim, ClaimExhausted, ClaimRefused, Execute, Finish,
                  FinishFails, spoolVars
    <3>2. QED
      BY <3>1 DEF Cleanup, Active, executionVars
  <2>3. CASE Environment
    <3>1. (\E r \in Runtimes : Purge(r)) \/ SweepDelete
      BY <2>3 DEF Environment, Drain, BeginDrain, CheckActive, Transition, Crash, SweepScan,
                  LeaseExpires, DuplicateJob, spoolVars
    <3>2. ASSUME NEW r \in Runtimes, Purge(r) PROVE Active' \cap Submitted = {}
      BY <3>2 DEF Purge, GateTo, DrainInv, Active, executionVars
    <3>3. CASE SweepDelete
      BY <3>3 DEF SweepDelete, Active, executionVars
    <3>4. QED
      BY <3>1, <3>2, <3>3
  <2>4. QED
    BY <2>1, <2>2, <2>3, NextCases
<1>2. QED
  BY <1>1, Invariant, DrainInvariant, PTL DEF Spec, UploadsKept
================================================================================
