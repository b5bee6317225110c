------------------------------ MODULE MailDelivery ------------------------------
(***************************************************************************)
(* The mail module of one site: queueing a message with its job and its    *)
(* spooled attachment, the worker that claims, sends and settles it, the   *)
(* spool sweeper, the retention sweep and the drain before a profile       *)
(* change or site deletion.                                                *)
(*                                                                         *)
(* A runtime is one instance of the module: every process has its own, and *)
(* a process builds a new one when the site's settings change while calls  *)
(* on the old one finish.  Runtimes share the database, the spool disk and *)
(* the job records of the event bus; each has its own lifecycle gate.      *)
(* Every message carries one transient attachment.                         *)
(***************************************************************************)
EXTENDS Naturals, FiniteSets

CONSTANTS
    Messages,     \* messages the application ever queues
    Runtimes,     \* instances of the mail module for the site
    Serving,      \* the runtimes whose process gets requests; the rest only work
    Crashable,    \* the runtimes whose process may die
    Leaving,      \* the runtimes a profile change or deletion is asked of
    MaxAttempts,  \* Config.SendMaxAttempts
    NoMessage     \* nothing in hand

ASSUME MailAssumption ==
    /\ Serving \subseteq Runtimes
    /\ Crashable \subseteq Runtimes
    /\ Leaving \subseteq Runtimes
    /\ MaxAttempts \in Nat \ {0}
    /\ NoMessage \notin Messages

VARIABLES
    status,     \* status[m]: mail.messages.status, "none" without a row
    attempts,   \* attempts[m]: delivery_attempts rows of m
    open,       \* open[m]: numbers of the attempts with status 'sending'
    expired,    \* sending messages not touched for ten minutes
    jobs,       \* messages with a job record the group has not committed
    remote,     \* messages the transport has taken over
    spool,      \* messages whose attachment is on the spool disk
    doomed,     \* spool keys a sweep has found unreferenced
    queueing,   \* queueing[r]: message whose queue call holds the gate
    confirmed,  \* messages whose queue call returned success
    gate,       \* gate[r]: the drain of r
    hand,       \* hand[r]: message of the job record r handles
    step,       \* step[r]: where Worker.Handle of r is
    try,        \* try[r]: number of the attempt r claimed
    outcome     \* outcome[r]: what Send returned

tableVars == <<status, attempts, open, expired>>
workerVars == <<hand, step, try, outcome>>
gateVars == <<queueing, confirmed, gate>>
spoolVars == <<spool, doomed>>
vars == <<tableVars, jobs, remote, spoolVars, gateVars, workerVars>>

Status == {"none", "queued", "sending", "retryable", "accepted", "failed", "deleted"}
ActiveStatus == {"queued", "sending", "retryable"}
Active == {m \in Messages : status[m] \in ActiveStatus}
Settled == {m \in Messages : status[m] \in {"accepted", "failed", "deleted"}}

Init ==
    /\ status = [m \in Messages |-> "none"]
    /\ attempts = [m \in Messages |-> 0]
    /\ open = [m \in Messages |-> {}]
    /\ expired = {} /\ jobs = {} /\ remote = {}
    /\ spool = {} /\ doomed = {}
    /\ queueing = [r \in Runtimes |-> NoMessage]
    /\ confirmed = {}
    /\ gate = [r \in Runtimes |-> "open"]
    /\ hand = [r \in Runtimes |-> NoMessage]
    /\ step = [r \in Runtimes |-> "idle"]
    /\ try = [r \in Runtimes |-> 0]
    /\ outcome = [r \in Runtimes |-> "none"]

-----------------------------------------------------------------------------
(* Service.queueActive, under the read lock of withActive.                 *)

\* The attachment is written, under a new key, before the transaction begins.
Put(r, m) ==
    /\ r \in Serving
    /\ gate[r] = "open"
    /\ queueing[r] = NoMessage
    /\ status[m] = "none" /\ m \notin spool \cup doomed
    /\ \A q \in Runtimes : queueing[q] # m
    /\ queueing' = [queueing EXCEPT ![r] = m]
    /\ spool' = spool \cup {m}
    /\ UNCHANGED <<tableVars, jobs, remote, doomed, confirmed, gate, workerVars>>

\* Mutant: the job is dispatched outside the transaction and may be lost.
QueuedNoJob(m) ==
    /\ status' = [status EXCEPT ![m] = "queued"]
    /\ jobs' \in {jobs, jobs \cup {m}}
    /\ UNCHANGED <<attempts, open, expired>>

\* CreateMessageAndJob commits the message and its job in one transaction.
Queued(m) ==
    /\ status' = [status EXCEPT ![m] = "queued"]
    /\ jobs' = jobs \cup {m}
    /\ UNCHANGED <<attempts, open, expired>>

QueueDone(r) ==
    /\ queueing[r] # NoMessage
    /\ Queued(queueing[r])
    /\ confirmed' = confirmed \cup {queueing[r]}
    /\ queueing' = [queueing EXCEPT ![r] = NoMessage]
    /\ UNCHANGED <<remote, spoolVars, gate, workerVars>>

\* The caller gets an error and the deferred cleanup deletes the attachment,
\* also when the commit took effect and only its answer was lost.  The delete
\* itself may fail.
QueueFails(r) ==
    /\ queueing[r] # NoMessage
    /\ Queued(queueing[r]) \/ UNCHANGED <<tableVars, jobs>>
    /\ spool' \in {spool, spool \ {queueing[r]}}
    /\ queueing' = [queueing EXCEPT ![r] = NoMessage]
    /\ UNCHANGED <<remote, doomed, confirmed, gate, workerVars>>

-----------------------------------------------------------------------------
(* Worker.Handle.                                                          *)

\* The job runner of the process of r takes the record of m.  After an
\* eviction two members of the group may work on the same record.
TakeJob(r, m) ==
    /\ step[r] = "idle"
    /\ m \in jobs
    /\ hand' = [hand EXCEPT ![r] = m]
    /\ step' = [step EXCEPT ![r] = "claim"]
    /\ UNCHANGED <<tableVars, jobs, remote, spoolVars, gateVars, try, outcome>>

\* Handle returns nil and the record's offset is committed, or that fails and
\* the record comes again.
Return(r) ==
    /\ hand' = [hand EXCEPT ![r] = NoMessage]
    /\ step' = [step EXCEPT ![r] = "idle"]
    /\ try' = [try EXCEPT ![r] = 0]
    /\ outcome' = [outcome EXCEPT ![r] = "none"]
    /\ jobs' \in {jobs, jobs \ {hand[r]}}

Claimable(m) ==
    \/ status[m] \in {"queued", "retryable"}
    \/ status[m] = "sending" /\ m \in expired

\* Mutant: the attempts are not counted.
ClaimUncounted(r) ==
    LET m == hand[r] IN
    /\ step[r] = "claim" /\ gate[r] = "open"
    /\ Claimable(m)
    /\ status' = [status EXCEPT ![m] = "sending"]
    /\ attempts' = [attempts EXCEPT ![m] = @ + 1]
    /\ open' = [open EXCEPT ![m] = {attempts[m] + 1}]
    /\ expired' = expired \ {m}
    /\ try' = [try EXCEPT ![r] = attempts[m] + 1]
    /\ step' = [step EXCEPT ![r] = "send"]
    /\ UNCHANGED <<jobs, remote, spoolVars, gateVars, hand, outcome>>

\* ClaimMessage closes an attempt that was left open and opens the next one.
Claim(r) ==
    LET m == hand[r] IN
    /\ step[r] = "claim" /\ gate[r] = "open"
    /\ Claimable(m) /\ attempts[m] < MaxAttempts
    /\ status' = [status EXCEPT ![m] = "sending"]
    /\ attempts' = [attempts EXCEPT ![m] = @ + 1]
    /\ open' = [open EXCEPT ![m] = {attempts[m] + 1}]
    /\ expired' = expired \ {m}
    /\ try' = [try EXCEPT ![r] = attempts[m] + 1]
    /\ step' = [step EXCEPT ![r] = "send"]
    /\ UNCHANGED <<jobs, remote, spoolVars, gateVars, hand, outcome>>

\* No attempt is left: the message fails and the job is done.
ClaimExhausted(r) ==
    LET m == hand[r] IN
    /\ step[r] = "claim" /\ gate[r] = "open"
    /\ Claimable(m) /\ attempts[m] >= MaxAttempts
    /\ status' = [status EXCEPT ![m] = "failed"]
    /\ open' = [open EXCEPT ![m] = {}]
    /\ expired' = expired \ {m}
    /\ Return(r)
    /\ UNCHANGED <<attempts, remote, spoolVars, gateVars>>

\* A settled or deleted message, but also one that is being sent: claimed is
\* false without an error, and Handle returns nil.
ClaimRefused(r) ==
    /\ step[r] = "claim" /\ gate[r] = "open"
    /\ ~Claimable(hand[r])
    /\ Return(r)
    /\ UNCHANGED <<tableVars, remote, spoolVars, gateVars>>

\* transport.Send, outside any transaction.  A retryable failure may come
\* after the transport took the message.  Without its attachment the message
\* is not sent and fails for good.
Send(r) ==
    /\ step[r] = "send"
    /\ IF hand[r] \in spool
       THEN \E o \in {"ok", "retry", "reject"} :
               /\ outcome' = [outcome EXCEPT ![r] = o]
               /\ \/ o # "reject" /\ remote' = remote \cup {hand[r]}
                  \/ o # "ok" /\ UNCHANGED remote
       ELSE outcome' = [outcome EXCEPT ![r] = "reject"] /\ UNCHANGED remote
    /\ step' = [step EXCEPT ![r] = "finish"]
    /\ UNCHANGED <<tableVars, jobs, spoolVars, gateVars, hand, try>>

\* Mutant: only the message's status is compared.
StillClaimedByAnyone(r) == status[hand[r]] = "sending"

\* The WHERE clauses of FinishAttempt.
StillClaimed(r) == try[r] \in open[hand[r]] /\ status[hand[r]] = "sending"

Result(r) ==
    CASE outcome[r] = "ok" -> "accepted"
      [] outcome[r] = "retry" /\ try[r] < MaxAttempts -> "retryable"
      [] OTHER -> "failed"

\* The UPDATEs of FinishAttempt.
Settle(r) ==
    /\ StillClaimed(r)
    /\ status' = [status EXCEPT ![hand[r]] = Result(r)]
    /\ open' = [open EXCEPT ![hand[r]] = @ \ {try[r]}]
    /\ expired' = expired \ {hand[r]}
    /\ UNCHANGED attempts

\* Mutant: the attachment is deleted after every attempt.
FinishDropsBytes(r) ==
    /\ step[r] = "finish"
    /\ Settle(r)
    /\ IF Result(r) = "retryable"
       THEN /\ step' = [step EXCEPT ![r] = "claim"]
            /\ UNCHANGED <<jobs, hand, try, outcome>>
       ELSE Return(r)
    /\ spool' = spool \ {hand[r]}
    /\ UNCHANGED <<remote, doomed, gateVars>>

\* A retryable failure is returned, so that Handle is called again; after a
\* final result the attachment is deleted, which may fail.
Finish(r) ==
    /\ step[r] = "finish"
    /\ Settle(r)
    /\ IF Result(r) = "retryable"
       THEN /\ step' = [step EXCEPT ![r] = "claim"]
            /\ UNCHANGED <<jobs, spool, hand, try, outcome>>
       ELSE /\ spool' \in {spool, spool \ {hand[r]}}
            /\ Return(r)
    /\ UNCHANGED <<remote, doomed, gateVars>>

\* FinishAttempt returns an error: the attempt is no longer open, or the
\* database failed, possibly after the commit.  Handle is called again.
FinishFails(r) ==
    /\ step[r] = "finish"
    /\ Settle(r) \/ UNCHANGED tableVars
    /\ step' = [step EXCEPT ![r] = "claim"]
    /\ UNCHANGED <<jobs, remote, spoolVars, gateVars, hand, try, outcome>>

-----------------------------------------------------------------------------
(* PrepareRuntimeTransition and what the site catalog makes of it.         *)

GateTo(r, g) ==
    /\ gate' = [gate EXCEPT ![r] = g]
    /\ UNCHANGED <<tableVars, jobs, remote, queueing, confirmed, workerVars>>

\* Mutant: a flag is set without waiting for the calls in progress.
BeginDrainNoWait(r) ==
    /\ r \in Leaving
    /\ gate[r] = "open"
    /\ GateTo(r, "draining")
    /\ UNCHANGED spoolVars

\* beginDrain waits for the queue calls that hold the read lock.
BeginDrain(r) ==
    /\ r \in Leaving
    /\ gate[r] = "open" /\ queueing[r] = NoMessage
    /\ GateTo(r, "draining")
    /\ UNCHANGED spoolVars

\* HasActiveMessages: a message that is not settled blocks the transition.
CheckActive(r) ==
    /\ gate[r] = "draining"
    /\ GateTo(r, IF Active = {} THEN "inactive" ELSE "open")
    /\ UNCHANGED spoolVars

\* The spool prefix is purged; an error in the middle aborts.
Purge(r) ==
    /\ gate[r] = "inactive"
    /\ \/ spool' = {} /\ GateTo(r, "prepared")
       \/ spool' \in SUBSET spool /\ GateTo(r, "open")
    /\ UNCHANGED doomed

\* The site mutation succeeds and the runtime is replaced, or it fails (or
\* another participant does) and the drain is aborted.
Transition(r) ==
    /\ gate[r] = "prepared"
    /\ GateTo(r, "retired") \/ GateTo(r, "open")
    /\ UNCHANGED spoolVars

-----------------------------------------------------------------------------
(* Background tasks, users, time and failures.                             *)

\* Keys past the TTL without an active message.  The TTL is far longer than
\* a queue call, so the key of a call in progress is never old enough.
Unreferenced ==
    {m \in spool \ Active : \A r \in Runtimes : queueing[r] # m}

\* Mutant: only the keys of settled messages are collected.
SweepScanSettled ==
    /\ (Unreferenced \cap Settled) \ doomed # {}
    /\ doomed' = doomed \cup (Unreferenced \cap Settled)
    /\ UNCHANGED <<tableVars, jobs, remote, spool, gateVars, workerVars>>

SweepScan ==
    /\ Unreferenced \ doomed # {}
    /\ doomed' = doomed \cup Unreferenced
    /\ UNCHANGED <<tableVars, jobs, remote, spool, gateVars, workerVars>>

SweepDelete(m) ==
    /\ m \in doomed
    /\ doomed' = doomed \ {m}
    /\ spool' = spool \ {m}
    /\ UNCHANGED <<tableVars, jobs, remote, gateVars, workerVars>>

\* DeleteMessage by a user, or Cleanup by the retention task.
Delete(m) ==
    /\ status[m] \in {"accepted", "failed"}
    /\ status' = [status EXCEPT ![m] = "deleted"]
    /\ UNCHANGED <<attempts, open, expired, jobs, remote, spoolVars, gateVars, workerVars>>

\* Ten minutes without an update.
LeaseExpires(m) ==
    /\ status[m] = "sending"
    /\ expired' = expired \cup {m}
    /\ UNCHANGED <<status, attempts, open, jobs, remote, spoolVars, gateVars, workerVars>>

\* The outbox publishes the job once more.
DuplicateJob(m) ==
    /\ status[m] # "none"
    /\ jobs' = jobs \cup {m}
    /\ UNCHANGED <<tableVars, remote, spoolVars, gateVars, workerVars>>

\* The process of r stops, gracefully or not, and starts again: what it had
\* in hand is gone, its job record stays uncommitted.
Crash(r) ==
    /\ r \in Crashable
    /\ hand' = [hand EXCEPT ![r] = NoMessage]
    /\ step' = [step EXCEPT ![r] = "idle"]
    /\ try' = [try EXCEPT ![r] = 0]
    /\ outcome' = [outcome EXCEPT ![r] = "none"]
    /\ queueing' = [queueing EXCEPT ![r] = NoMessage]
    /\ gate' = [gate EXCEPT ![r] = IF @ = "retired" THEN @ ELSE "open"]
    /\ UNCHANGED <<tableVars, jobs, remote, spoolVars, confirmed>>

Handle(r) ==
    \/ \E m \in Messages : TakeJob(r, m)
    \/ Claim(r) \/ ClaimExhausted(r) \/ ClaimRefused(r)
    \/ Send(r) \/ Finish(r) \/ FinishFails(r)

Drain(r) == BeginDrain(r) \/ CheckActive(r) \/ Purge(r) \/ Transition(r)

Next ==
    \/ \E r \in Runtimes :
          \/ \E m \in Messages : Put(r, m)
          \/ QueueDone(r) \/ QueueFails(r)
          \/ Handle(r) \/ Drain(r) \/ Crash(r)
    \/ \E m \in Messages :
          SweepDelete(m) \/ Delete(m) \/ LeaseExpires(m) \/ DuplicateJob(m)
    \/ SweepScan

Spec == Init /\ [][Next]_vars

(***************************************************************************)
(* Fairness.  Runtimes run their handler; records are delivered, not only  *)
(* during drains; a drain ends; the sweeper runs and time passes.  Among   *)
(* infinitely many claims, FinishAttempt calls and offset commits some     *)
(* succeed.                                                                *)
(***************************************************************************)
Fairness ==
    /\ \A r \in Runtimes :
          /\ SF_vars(Claim(r)) /\ SF_vars(ClaimExhausted(r)) /\ WF_vars(Send(r))
          /\ WF_vars(FinishFails(r) /\ ~StillClaimed(r))
          /\ SF_vars(Finish(r))
          /\ SF_vars(ClaimRefused(r) /\ hand[r] \notin jobs')
          /\ WF_vars(QueueDone(r) \/ QueueFails(r))
          /\ WF_vars(CheckActive(r) \/ Purge(r) \/ Transition(r))
    /\ \A m \in Messages :
          /\ SF_vars(\E r \in Runtimes : TakeJob(r, m) /\ gate[r] = "open")
          /\ WF_vars(SweepDelete(m)) /\ WF_vars(LeaseExpires(m))
    /\ WF_vars(SweepScan)

FairSpec == Spec /\ Fairness

-----------------------------------------------------------------------------
(* Properties.                                                             *)

\* Every variable has its type; no message has more than MaxAttempts attempts.
TypeOK ==
    /\ status \in [Messages -> Status]
    /\ attempts \in [Messages -> 0..MaxAttempts]
    /\ open \in [Messages -> SUBSET (1..MaxAttempts)]
    /\ expired \subseteq Messages /\ jobs \subseteq Messages /\ remote \subseteq Messages
    /\ spool \subseteq Messages /\ doomed \subseteq Messages /\ confirmed \subseteq Messages
    /\ queueing \in [Runtimes -> Messages \cup {NoMessage}]
    /\ gate \in [Runtimes -> {"open", "draining", "inactive", "prepared", "retired"}]
    /\ hand \in [Runtimes -> Messages \cup {NoMessage}]
    /\ step \in [Runtimes -> {"idle", "claim", "send", "finish"}]
    /\ try \in [Runtimes -> 0..MaxAttempts]
    /\ outcome \in [Runtimes -> {"none", "ok", "retry", "reject"}]

\* A message has one attempt at a time, however late a worker answers: the two
\* tables agree on it (a message that is being sent has exactly one open
\* attempt, its last one, any other has none), and no two workers make the same
\* attempt (ClaimMessage, FinishAttempt).
Working(r) == step[r] \in {"send", "finish"}

OneAttemptAtATime ==
    /\ \A m \in Messages : open[m] = IF status[m] = "sending" THEN {attempts[m]} ELSE {}
    /\ \A r, q \in Runtimes :
           (r # q /\ Working(r) /\ Working(q) /\ hand[r] = hand[q]) => try[r] # try[q]

\* Once a queue call has returned success, the attachment is there until the
\* message is settled: neither a failed attempt, nor the sweeper, nor the
\* drain of the runtime removes it.
AttachmentKept == \A m \in confirmed \cap Active : m \in spool

\* A runtime that was retired left no message behind that would never be
\* sent: the drain waits for the queue calls before it looks for messages.
RetiredLeavesNothing ==
    (\E r \in Runtimes : gate[r] = "retired") => Active = {}

\* Attachments do not pile up: one that no active message refers to is
\* removed in the end, whichever of the deletes on the way failed.
OrphansSwept == \A m \in Messages : m \in Unreferenced ~> m \notin Unreferenced

\* A message that waits for its first attempt gets it, and so does one that
\* waits for the next while its job record is still to come: the record is
\* written with the message, and a failed attempt does not commit it
\* (CreateMessageAndJob, the error Handle returns on a retryable failure).
Waiting(m) == status[m] \in {"queued", "retryable"}

WaitingIsTried ==
    \A m \in Messages : (status[m] = "queued" \/ (Waiting(m) /\ m \in jobs)) ~> ~Waiting(m)

\* A queued message is settled in the end, because its job is delivered at
\* least once and retried until then.
QueuedIsSettled ==
    \A m \in Messages : status[m] = "queued" ~> m \in Settled
================================================================================
