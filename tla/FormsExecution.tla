----------------------------- MODULE FormsExecution -----------------------------
(***************************************************************************)
(* The asynchronous half of the forms module, for one submission: its      *)
(* uploads are spooled, the result is stored together with one execution   *)
(* and one job per matching action, workers claim and run the executions,  *)
(* and the uploads are removed when nothing needs them any more.  A later  *)
(* status change may add executions; the result may be deleted; a profile  *)
(* change or site deletion drains the runtime first.                       *)
(***************************************************************************)
EXTENDS Naturals, FiniteSets

CONSTANTS
    Executions,   \* executions the result can get
    Submitted,    \* those triggered by the submission; the rest by a status change
    Runtimes,     \* instances of the module for the site, one worker each
    Serving,      \* the runtimes whose process gets requests; the rest only work
    Crashable,    \* the runtimes whose process may stop
    Leaving,      \* the runtimes a profile change or deletion is asked of
    MaxAttempts,  \* Config.ActionMaxAttempts
    NoExecution,  \* nothing in hand
    NoRuntime     \* nobody has submitted yet

ASSUME FormsAssumption ==
    /\ Submitted \subseteq Executions
    /\ Serving \subseteq Runtimes
    /\ Crashable \subseteq Runtimes
    /\ Leaving \subseteq Runtimes
    /\ MaxAttempts \in Nat \ {0}
    /\ NoExecution \notin Executions
    /\ NoRuntime \notin Runtimes

VARIABLES
    submit,     \* the Submit call: "none", "spooled" or "answered"
    submitter,  \* the runtime that serves it
    accepted,   \* Submit returned the stored result
    result,     \* the row of forms.results
    uploads,    \* "stored" while the upload bytes are on the spool disk
    doomed,     \* a sweep has found the uploads unreferenced
    status,     \* status[e]: action_executions.status, "none" without a row
    attempts,   \* attempts[e]: attempt_count
    expired,    \* running executions not touched for ten minutes
    jobs,       \* executions with a job record the group has not committed
    gate,       \* gate[r]: the drain of r
    hand,       \* hand[r]: execution of the job record r handles
    step,       \* step[r]: where Worker.Handle of r is
    try,        \* try[r]: AttemptCount of the execution as r claimed it
    outcome     \* outcome[r]: what the action returned

submitVars == <<submit, submitter, accepted>>
spoolVars == <<uploads, doomed>>
executionVars == <<status, attempts, expired>>
workerVars == <<hand, step, try, outcome>>
vars == <<submitVars, result, spoolVars, executionVars, jobs, gate, workerVars>>

ActiveStatus == {"pending", "running", "retryable"}
Active == {e \in Executions : status[e] \in ActiveStatus}
Waiting(e) == status[e] \in {"pending", "retryable"}

Init ==
    /\ submit = "none" /\ submitter = NoRuntime /\ accepted = FALSE
    /\ result = "none"
    /\ uploads = "none" /\ doomed = FALSE
    /\ status = [e \in Executions |-> "none"]
    /\ attempts = [e \in Executions |-> 0]
    /\ expired = {} /\ jobs = {}
    /\ gate = [r \in Runtimes |-> "open"]
    /\ hand = [r \in Runtimes |-> NoExecution]
    /\ step = [r \in Runtimes |-> "idle"]
    /\ try = [r \in Runtimes |-> 0]
    /\ outcome = [r \in Runtimes |-> "none"]

\* A delete on the spool disk that may fail; the error is logged at most.
TryDelete == uploads' \in {uploads, "deleted"}

-----------------------------------------------------------------------------
(* Service.Submit, ChangeResultStatus and DeleteResult.                    *)

\* spoolSubmissionUploads: before the lifecycle gate is taken.
SpoolUploads(r) ==
    /\ r \in Serving /\ submit = "none"
    /\ submit' = "spooled" /\ submitter' = r
    /\ uploads' = "stored"
    /\ UNCHANGED <<accepted, result, doomed, executionVars, jobs, gate, workerVars>>

\* insertExecutionAndOutbox for every execution of S, in the transaction of
\* the change that triggers them.
InsertExecutions(S) ==
    /\ status' = [e \in Executions |-> IF e \in S THEN "pending" ELSE status[e]]
    /\ jobs' = jobs \cup S
    /\ UNCHANGED <<attempts, expired>>

\* CreateResult under withActive; without an action to run the uploads are
\* removed at once.
CreateResult ==
    /\ submit = "spooled" /\ gate[submitter] = "open"
    /\ result' = "stored"
    /\ InsertExecutions(Submitted)
    /\ submit' = "answered" /\ accepted' = TRUE
    /\ IF Submitted = {} THEN TryDelete ELSE UNCHANGED uploads
    /\ UNCHANGED <<submitter, doomed, gate, workerVars>>

\* The gate is closed, or the database returned an error, possibly after the
\* commit: the uploads are cleaned up and the caller gets the error.
CreateFails ==
    /\ submit = "spooled"
    /\ \/ UNCHANGED <<result, executionVars, jobs>>
       \/ gate[submitter] = "open" /\ result' = "stored" /\ InsertExecutions(Submitted)
    /\ TryDelete
    /\ submit' = "answered"
    /\ UNCHANGED <<submitter, accepted, doomed, gate, workerVars>>

\* A status change under withActive adds its executions.
ChangeResultStatus(r, e) ==
    /\ r \in Serving /\ gate[r] = "open"
    /\ result \in {"stored", "deleting"}
    /\ e \in Executions \ Submitted /\ status[e] = "none"
    /\ InsertExecutions({e})
    /\ UNCHANGED <<submitVars, result, spoolVars, gate, workerVars>>

\* DeleteResult looks for active executions in one statement ...
DeleteCheck ==
    /\ result = "stored" /\ Active = {}
    /\ result' = "deleting"
    /\ UNCHANGED <<submitVars, spoolVars, executionVars, jobs, gate, workerVars>>

\* ... and deletes the row with its executions in a later one.  No lock keeps
\* a status change from adding an execution in between.
DeleteResult ==
    /\ result = "deleting"
    /\ \/ /\ result' = "deleted"
          /\ status' = [e \in Executions |-> "deleted"]
          /\ TryDelete
       \/ result' = "stored" /\ UNCHANGED <<status, uploads>>   \* rolled back
    /\ UNCHANGED <<submitVars, doomed, attempts, expired, jobs, gate, workerVars>>

-----------------------------------------------------------------------------
(* Worker.Handle.                                                          *)

TakeJob(r, e) ==
    /\ step[r] = "idle"
    /\ e \in jobs
    /\ hand' = [hand EXCEPT ![r] = e]
    /\ step' = [step EXCEPT ![r] = "claim"]
    /\ UNCHANGED <<submitVars, result, spoolVars, executionVars, jobs, gate, try, outcome>>

\* Handle returns nil; the offset is committed, or that fails.
Return(r) ==
    /\ hand' = [hand EXCEPT ![r] = NoExecution]
    /\ step' = [step EXCEPT ![r] = "idle"]
    /\ try' = [try EXCEPT ![r] = 0]
    /\ outcome' = [outcome EXCEPT ![r] = "none"]
    /\ jobs' \in {jobs, jobs \ {hand[r]}}

\* Mutant: a running execution is left to its first worker.
ClaimableOnce(e) == Waiting(e)

Claimable(e) == Waiting(e) \/ (status[e] = "running" /\ e \in expired)

\* Mutant: attempt_count is not compared with the limit.
ClaimUnbounded(r) ==
    LET e == hand[r] IN
    /\ step[r] = "claim" /\ gate[r] = "open"
    /\ Claimable(e)
    /\ status' = [status EXCEPT ![e] = "running"]
    /\ attempts' = [attempts EXCEPT ![e] = @ + 1]
    /\ expired' = expired \ {e}
    /\ try' = [try EXCEPT ![r] = attempts[e] + 1]
    /\ step' = [step EXCEPT ![r] = "run"]
    /\ UNCHANGED <<submitVars, result, spoolVars, jobs, gate, hand, outcome>>

Claim(r) ==
    LET e == hand[r] IN
    /\ step[r] = "claim" /\ gate[r] = "open"
    /\ Claimable(e) /\ attempts[e] < MaxAttempts
    /\ status' = [status EXCEPT ![e] = "running"]
    /\ attempts' = [attempts EXCEPT ![e] = @ + 1]
    /\ expired' = expired \ {e}
    /\ try' = [try EXCEPT ![r] = attempts[e] + 1]
    /\ step' = [step EXCEPT ![r] = "run"]
    /\ UNCHANGED <<submitVars, result, spoolVars, jobs, gate, hand, outcome>>

ClaimExhausted(r) ==
    LET e == hand[r] IN
    /\ step[r] = "claim" /\ gate[r] = "open"
    /\ Claimable(e) /\ attempts[e] >= MaxAttempts
    /\ status' = [status EXCEPT ![e] = "failed"]
    /\ expired' = expired \ {e}
    /\ Return(r)
    /\ UNCHANGED <<submitVars, result, spoolVars, attempts, gate>>

\* Mutant: an execution that another worker runs counts as done.
ClaimRefusedBusy(r) ==
    /\ step[r] = "claim" /\ gate[r] = "open"
    /\ ~Claimable(hand[r])
    /\ Return(r)
    /\ UNCHANGED <<submitVars, result, spoolVars, executionVars, gate>>

\* The execution is settled or deleted.  One that is running elsewhere is
\* ErrExecutionBusy: Handle fails and is called again, which changes nothing.
ClaimRefused(r) ==
    /\ step[r] = "claim" /\ gate[r] = "open"
    /\ ~Claimable(hand[r]) /\ status[hand[r]] # "running"
    /\ Return(r)
    /\ UNCHANGED <<submitVars, result, spoolVars, executionVars, gate>>

\* actionType.Execute, outside any transaction.
Execute(r) ==
    /\ step[r] = "run"
    /\ \E o \in {"ok", "retry", "reject"} : outcome' = [outcome EXCEPT ![r] = o]
    /\ step' = [step EXCEPT ![r] = "finish"]
    /\ UNCHANGED <<submitVars, result, spoolVars, executionVars, jobs, gate, hand, try>>

ResultOf(r) ==
    CASE outcome[r] = "ok" -> "succeeded"
      [] outcome[r] = "retry" /\ try[r] < MaxAttempts -> "retryable"
      [] OTHER -> "failed"

\* The UPDATE of FinishExecution compares the status only, not the attempt.
Settle(r) ==
    /\ status[hand[r]] = "running"
    /\ status' = [status EXCEPT ![hand[r]] = ResultOf(r)]
    /\ expired' = expired \ {hand[r]}
    /\ UNCHANGED attempts

\* A retryable failure is returned, so that Handle is called again.
Finish(r) ==
    /\ step[r] = "finish"
    /\ Settle(r)
    /\ step' = [step EXCEPT ![r] = IF ResultOf(r) = "retryable" THEN "claim" ELSE "cleanup"]
    /\ UNCHANGED <<submitVars, result, spoolVars, jobs, gate, hand, try, outcome>>

\* ErrConflict because the execution is not running any more, or a database
\* error, possibly after the commit.
FinishFails(r) ==
    /\ step[r] = "finish"
    /\ Settle(r) \/ UNCHANGED executionVars
    /\ step' = [step EXCEPT ![r] = "claim"]
    /\ UNCHANGED <<submitVars, result, spoolVars, jobs, gate, hand, try, outcome>>

\* Mutant: the first execution that is done takes the uploads with it.
CleanupAlways(r) ==
    /\ step[r] = "cleanup"
    /\ IF uploads = "stored" THEN TryDelete ELSE UNCHANGED uploads
    /\ Return(r)
    /\ UNCHANGED <<submitVars, result, doomed, executionVars, gate>>

\* cleanupResultUploads: unless an execution of the submission is active.
Cleanup(r) ==
    /\ step[r] = "cleanup"
    /\ IF Active \cap Submitted = {} /\ uploads = "stored" THEN TryDelete ELSE UNCHANGED uploads
    /\ Return(r)
    /\ UNCHANGED <<submitVars, result, doomed, executionVars, gate>>

-----------------------------------------------------------------------------
(* PrepareRuntimeTransition and what the site catalog makes of it.         *)

GateTo(r, g) ==
    /\ gate' = [gate EXCEPT ![r] = g]
    /\ UNCHANGED <<submitVars, result, doomed, executionVars, jobs, workerVars>>

BeginDrain(r) ==
    /\ r \in Leaving /\ gate[r] = "open"
    /\ GateTo(r, "draining")
    /\ UNCHANGED uploads

CheckActive(r) ==
    /\ gate[r] = "draining"
    /\ GateTo(r, IF Active = {} THEN "inactive" ELSE "open")
    /\ UNCHANGED uploads

\* The spool prefix is purged and the rows are marked; an error aborts.
Purge(r) ==
    /\ gate[r] = "inactive"
    /\ \/ uploads' = (IF uploads = "stored" THEN "deleted" ELSE uploads) /\ GateTo(r, "prepared")
       \/ uploads' \in {uploads, IF uploads = "stored" THEN "deleted" ELSE uploads} /\ GateTo(r, "open")

\* The site mutation succeeds and the runtime is replaced, or it is aborted.
Transition(r) ==
    /\ gate[r] = "prepared"
    /\ GateTo(r, "retired") \/ GateTo(r, "open")
    /\ UNCHANGED uploads

-----------------------------------------------------------------------------
(* Background sweep, time and failures.                                    *)

\* A key past the TTL without an active execution of the submission; the TTL
\* is far longer than a Submit call.
Unreferenced == uploads = "stored" /\ submit # "spooled" /\ Active \cap Submitted = {}

SweepScan ==
    /\ Unreferenced /\ ~doomed
    /\ doomed' = TRUE
    /\ UNCHANGED <<submitVars, result, uploads, executionVars, jobs, gate, workerVars>>

SweepDelete ==
    /\ doomed
    /\ uploads' = "deleted"
    /\ doomed' = FALSE
    /\ UNCHANGED <<submitVars, result, executionVars, jobs, gate, workerVars>>

LeaseExpires(e) ==
    /\ status[e] = "running"
    /\ expired' = expired \cup {e}
    /\ UNCHANGED <<submitVars, result, spoolVars, status, attempts, jobs, gate, workerVars>>

DuplicateJob(e) ==
    /\ status[e] # "none"
    /\ jobs' = jobs \cup {e}
    /\ UNCHANGED <<submitVars, result, spoolVars, executionVars, gate, workerVars>>

\* The process of r stops and starts again.
Crash(r) ==
    /\ r \in Crashable
    /\ hand' = [hand EXCEPT ![r] = NoExecution]
    /\ step' = [step EXCEPT ![r] = "idle"]
    /\ try' = [try EXCEPT ![r] = 0]
    /\ outcome' = [outcome EXCEPT ![r] = "none"]
    /\ submit' = IF submitter = r /\ submit = "spooled" THEN "answered" ELSE submit
    /\ gate' = [gate EXCEPT ![r] = IF @ = "retired" THEN @ ELSE "open"]
    /\ UNCHANGED <<submitter, accepted, result, spoolVars, executionVars, jobs>>

Handle(r) ==
    \/ \E e \in Executions : TakeJob(r, e)
    \/ Claim(r) \/ ClaimExhausted(r) \/ ClaimRefused(r)
    \/ Execute(r) \/ Finish(r) \/ FinishFails(r) \/ Cleanup(r)

Drain(r) == BeginDrain(r) \/ CheckActive(r) \/ Purge(r) \/ Transition(r)

Next ==
    \/ \E r \in Runtimes :
          \/ SpoolUploads(r) \/ Handle(r) \/ Drain(r) \/ Crash(r)
          \/ \E e \in Executions : ChangeResultStatus(r, e)
    \/ CreateResult \/ CreateFails \/ DeleteCheck \/ DeleteResult
    \/ SweepScan \/ SweepDelete
    \/ \E e \in Executions : LeaseExpires(e) \/ DuplicateJob(e)

Spec == Init /\ [][Next]_vars

(***************************************************************************)
(* Fairness.  As for mail: workers run, records are delivered also outside *)
(* drains, drains end, time passes, and among infinitely many claims,      *)
(* FinishExecution calls and offset commits some succeed.                  *)
(***************************************************************************)
Fairness ==
    /\ \A r \in Runtimes :
          /\ SF_vars(Claim(r)) /\ SF_vars(ClaimExhausted(r)) /\ SF_vars(Finish(r))
          /\ SF_vars(ClaimRefused(r) /\ hand[r] \notin jobs')
          /\ WF_vars(Execute(r)) /\ WF_vars(Cleanup(r))
          /\ WF_vars(FinishFails(r) /\ status[hand[r]] # "running")
          /\ WF_vars(CheckActive(r) \/ Purge(r) \/ Transition(r))
    /\ \A e \in Executions :
          /\ SF_vars(\E r \in Runtimes : TakeJob(r, e) /\ gate[r] = "open")
          /\ WF_vars(LeaseExpires(e))

FairSpec == Spec /\ Fairness

-----------------------------------------------------------------------------
(* Properties.                                                             *)

\* Every variable has its type; attempt_count never exceeds the limit.
TypeOK ==
    /\ submit \in {"none", "spooled", "answered"}
    /\ submitter \in Runtimes \cup {NoRuntime}
    /\ accepted \in BOOLEAN /\ doomed \in BOOLEAN
    /\ result \in {"none", "stored", "deleting", "deleted"}
    /\ uploads \in {"none", "stored", "deleted"}
    /\ status \in [Executions -> ActiveStatus \cup {"none", "succeeded", "failed", "deleted"}]
    /\ attempts \in [Executions -> 0..MaxAttempts]
    /\ expired \subseteq Executions /\ jobs \subseteq Executions
    /\ gate \in [Runtimes -> {"open", "draining", "inactive", "prepared", "retired"}]
    /\ hand \in [Runtimes -> Executions \cup {NoExecution}]
    /\ step \in [Runtimes -> {"idle", "claim", "run", "finish", "cleanup"}]
    /\ try \in [Runtimes -> 0..MaxAttempts]
    /\ outcome \in [Runtimes -> {"none", "ok", "retry", "reject"}]

\* An execution that is not settled is never stranded: it has a job record that
\* will be delivered again, whatever crash, eviction, duplicate or failed
\* statement comes between (the outbox row in CreateResult, the error Handle
\* returns for a retryable, failed or busy execution), and the runtime that
\* would run it is not retired, whatever raced with the drain.
NothingStranded ==
    /\ Active \subseteq jobs
    /\ (\E r \in Runtimes : gate[r] = "retired") => Active = {}

\* The uploads of a result that Submit has returned are removed only when every
\* execution of the submission is settled, whoever removes them: the cleanup of
\* whichever execution ends first, the sweep, a deletion or the purge of a drain.
UploadsKept ==
    [][(accepted /\ uploads = "stored" /\ uploads' # "stored")
          => Active' \cap Submitted = {}]_vars

\* Every execution is settled (or deleted with its result), with processes
\* stopping and calls failing on the way: its lease runs out, its job comes
\* again and its attempts are limited.
ActiveIsSettled == \A e \in Executions : e \in Active ~> e \notin Active

\* While the worker of the last claim works within its ten minutes, nobody
\* else claims the execution.
ClaimExclusive ==
    [][\A r \in Runtimes :
          (step[r] \in {"run", "finish"} /\ try[r] = attempts[hand[r]] /\ hand[r] \notin expired)
             => attempts'[hand[r]] = attempts[hand[r]]]_vars
================================================================================
