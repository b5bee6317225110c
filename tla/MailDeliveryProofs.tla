---------------------------- MODULE MailDeliveryProofs ----------------------------
(***************************************************************************)
(* The safety of mail delivery for any number of messages, runtimes and    *)
(* attempts.                                                               *)
(***************************************************************************)
EXTENDS MailDelivery, TLAPS

-----------------------------------------------------------------------------
(* The three kinds of steps.                                               *)

QueueCall(r) == (\E m \in Messages : Put(r, m)) \/ QueueDone(r) \/ QueueFails(r)

Environment ==
    \/ \E r \in Runtimes : Drain(r) \/ Crash(r)
    \/ \E m \in Messages : SweepDelete(m) \/ Delete(m) \/ LeaseExpires(m) \/ DuplicateJob(m)
    \/ SweepScan

LEMMA NextCases == Next => (\E r \in Runtimes : QueueCall(r) \/ Handle(r)) \/ Environment
BY DEF Next, QueueCall, Environment

-----------------------------------------------------------------------------
(* Types.                                                                  *)

\* A worker is idle exactly when it has no message in hand.
HandInv == \A r \in Runtimes : step[r] = "idle" <=> hand[r] = NoMessage

Typed == TypeOK /\ HandInv

\* FinishAttempt settles a message or makes it wait for the next attempt.
LEMMA ResultRange == \A r \in Runtimes : Result(r) \in {"accepted", "retryable", "failed"}
BY DEF Result

LEMMA InitTyped == Init => Typed
BY MailAssumption DEF Init, Typed, TypeOK, HandInv, Status

LEMMA QueueTyped ==
    ASSUME Typed, NEW r \in Runtimes, QueueCall(r)
    PROVE  Typed'
<1> USE MailAssumption DEF Typed, TypeOK, HandInv, Status, workerVars, spoolVars, tableVars
<1>1. ASSUME NEW m \in Messages, Put(r, m) PROVE Typed'
  BY <1>1 DEF Put
<1>2. CASE QueueDone(r)
  BY <1>2 DEF QueueDone, Queued
<1>3. CASE QueueFails(r)
  BY <1>3 DEF QueueFails, Queued
<1>4. QED
  BY <1>1, <1>2, <1>3 DEF QueueCall

LEMMA HandleTyped ==
    ASSUME Typed, NEW r \in Runtimes, Handle(r)
    PROVE  Typed'
<1> USE MailAssumption
    DEF Typed, TypeOK, HandInv, Status, tableVars, spoolVars, gateVars
<1>1. ASSUME NEW m \in Messages, TakeJob(r, m) PROVE Typed'
  BY <1>1 DEF TakeJob
<1>2. CASE Claim(r)
  BY <1>2 DEF Claim
<1>3. CASE ClaimExhausted(r)
  BY <1>3 DEF ClaimExhausted, Return
<1>4. CASE ClaimRefused(r)
  BY <1>4 DEF ClaimRefused, Return
<1>5. CASE Send(r)
  BY <1>5 DEF Send
<1>6. CASE Finish(r)
  BY <1>6, ResultRange DEF Finish, Settle, Return
<1>7. CASE FinishFails(r)
  BY <1>7, ResultRange DEF FinishFails, Settle
<1>8. QED
  BY <1>1, <1>2, <1>3, <1>4, <1>5, <1>6, <1>7 DEF Handle

LEMMA EnvironmentTyped ==
    ASSUME Typed, Environment
    PROVE  Typed'
<1> USE MailAssumption
    DEF Typed, TypeOK, HandInv, Status, tableVars, spoolVars, gateVars, workerVars
<1>1. ASSUME NEW r \in Runtimes, Drain(r) PROVE Typed'
  <2>1. PICK g \in {"open", "draining", "inactive", "prepared", "retired"} :
          GateTo(r, g) /\ spool' \subseteq spool /\ UNCHANGED doomed
    BY <1>1 DEF Drain, BeginDrain, CheckActive, Purge, Transition, GateTo
  <2>2. QED
    BY <2>1 DEF GateTo
<1>2. ASSUME NEW r \in Runtimes, Crash(r) PROVE Typed'
  BY <1>2 DEF Crash
<1>3. ASSUME NEW m \in Messages, SweepDelete(m) \/ Delete(m) PROVE Typed'
  BY <1>3 DEF SweepDelete, Delete
<1>4. ASSUME NEW m \in Messages, LeaseExpires(m) \/ DuplicateJob(m) PROVE Typed'
  BY <1>4 DEF LeaseExpires, DuplicateJob
<1>5. CASE SweepScan
  BY <1>5 DEF SweepScan, Unreferenced
<1>6. QED
  BY <1>1, <1>2, <1>3, <1>4, <1>5 DEF Environment

LEMMA AlwaysTyped == Spec => []Typed
<1>1. Typed /\ [Next]_vars => Typed'
  <2> SUFFICES ASSUME Typed, [Next]_vars PROVE Typed'
    OBVIOUS
  <2>1. CASE UNCHANGED vars
    BY <2>1 DEF vars, tableVars, spoolVars, gateVars, workerVars, Typed, TypeOK, HandInv
  <2>2. QED
    BY <2>1, NextCases, QueueTyped, HandleTyped, EnvironmentTyped
<1>2. QED
  BY <1>1, InitTyped, PTL DEF Spec

\* Every reachable state is well typed: in particular no message ever has more
\* than MaxAttempts attempts, whoever claims it.
THEOREM TypeCorrect == Spec => []TypeOK
BY AlwaysTyped, PTL DEF Typed

-----------------------------------------------------------------------------
(* One attempt at a time.                                                  *)

\* A message that is being queued has no row yet, and one call queues it.
QueueingInv ==
    /\ \A r \in Runtimes : queueing[r] # NoMessage =>
           r \in Serving /\ status[queueing[r]] = "none" /\ queueing[r] \notin confirmed
    /\ \A r, q \in Runtimes : queueing[r] # NoMessage /\ queueing[r] = queueing[q] => r = q
    /\ \A m \in confirmed : status[m] # "none"

OpenIsLast == \A m \in Messages : open[m] = IF status[m] = "sending" THEN {attempts[m]} ELSE {}

\* The attempt a worker has in hand was opened: its number is at most that of
\* the last one, and nobody else has it.
AttemptsInv ==
    \A r \in Runtimes : Working(r) =>
        /\ try[r] <= attempts[hand[r]]
        /\ \A q \in Runtimes : (q # r /\ Working(q) /\ hand[q] = hand[r]) => try[q] # try[r]

IInv == Typed /\ QueueingInv /\ OpenIsLast /\ AttemptsInv

LEMMA QueueKeepsInv ==
    ASSUME IInv, Typed', NEW r \in Runtimes, QueueCall(r)
    PROVE  IInv'
<1> USE MailAssumption
    DEF IInv, Typed, TypeOK, QueueingInv, OpenIsLast, AttemptsInv, Working,
        workerVars, spoolVars, tableVars
<1>1. ASSUME NEW m \in Messages, Put(r, m) PROVE IInv'
  BY <1>1 DEF Put
<1>2. CASE QueueDone(r)
  BY <1>2 DEF QueueDone, Queued
<1>3. CASE QueueFails(r)
  BY <1>3 DEF QueueFails, Queued
<1>4. QED
  BY <1>1, <1>2, <1>3 DEF QueueCall

\* A step that moves one message keeps the two tables in line.
LEMMA OpenElsewhere ==
    ASSUME OpenIsLast, NEW n \in Messages,
           \A m \in Messages \ {n} :
               open'[m] = open[m] /\ status'[m] = status[m] /\ attempts'[m] = attempts[m],
           open'[n] = IF status'[n] = "sending" THEN {attempts'[n]} ELSE {}
    PROVE  OpenIsLast'
BY DEF OpenIsLast

\* Only the one open attempt can be settled, and none is open afterwards.
LEMMA SettleCloses ==
    ASSUME Typed, OpenIsLast, NEW r \in Runtimes, hand[r] \in Messages, Settle(r)
    PROVE  OpenIsLast'
<1> USE DEF Typed, TypeOK
<1>1. open[hand[r]] = {try[r]}
  BY DEF OpenIsLast, Settle, StillClaimed
<1>2. open'[hand[r]] = {} /\ status'[hand[r]] = Result(r)
  BY <1>1 DEF Settle
<1>3. \A m \in Messages \ {hand[r]} :
        open'[m] = open[m] /\ status'[m] = status[m] /\ attempts'[m] = attempts[m]
  BY DEF Settle
<1>4. QED
  BY <1>2, <1>3, ResultRange, OpenElsewhere

LEMMA HandleKeepsInv ==
    ASSUME IInv, Typed', NEW r \in Runtimes, Handle(r)
    PROVE  IInv'
<1> USE MailAssumption
    DEF IInv, Typed, TypeOK, HandInv, QueueingInv, OpenIsLast, AttemptsInv, Working,
        tableVars, spoolVars, gateVars
<1>1. ASSUME NEW m \in Messages, TakeJob(r, m) PROVE IInv'
  BY <1>1 DEF TakeJob
<1>2. CASE Claim(r)
  <2>1. hand[r] \in Messages /\ status[hand[r]] # "none"
    BY <1>2 DEF Claim, Claimable
  <2>2. QueueingInv'
    BY <1>2, <2>1 DEF Claim
  <2>3. OpenIsLast'
    <3>1. open'[hand[r]] = {attempts'[hand[r]]} /\ status'[hand[r]] = "sending"
      BY <1>2, <2>1 DEF Claim
    <3>2. \A m \in Messages \ {hand[r]} :
            open'[m] = open[m] /\ status'[m] = status[m] /\ attempts'[m] = attempts[m]
      BY <1>2 DEF Claim
    <3>3. QED
      BY <2>1, <3>1, <3>2, OpenElsewhere
  <2>4. AttemptsInv'
    BY <1>2, <2>1 DEF Claim
  <2>5. QED
    BY <2>2, <2>3, <2>4
<1>3. CASE ClaimExhausted(r)
  <2>1. hand[r] \in Messages /\ status[hand[r]] # "none"
    BY <1>3 DEF ClaimExhausted, Claimable
  <2>2. QueueingInv'
    BY <1>3, <2>1 DEF ClaimExhausted, Return
  <2>3. OpenIsLast'
    <3>1. open'[hand[r]] = {} /\ status'[hand[r]] = "failed"
      BY <1>3, <2>1 DEF ClaimExhausted
    <3>2. \A m \in Messages \ {hand[r]} :
            open'[m] = open[m] /\ status'[m] = status[m] /\ attempts'[m] = attempts[m]
      BY <1>3 DEF ClaimExhausted
    <3>3. QED
      BY <2>1, <3>1, <3>2, OpenElsewhere
  <2>4. AttemptsInv'
    BY <1>3, <2>1 DEF ClaimExhausted, Return
  <2>5. QED
    BY <2>2, <2>3, <2>4
<1>4. CASE ClaimRefused(r)
  BY <1>4 DEF ClaimRefused, Return
<1>5. CASE Send(r)
  BY <1>5 DEF Send
<1>6. CASE Finish(r)
  <2>1. hand[r] \in Messages /\ status[hand[r]] = "sending" /\ try[r] \in open[hand[r]]
    BY <1>6 DEF Finish, Settle, StillClaimed
  <2>2. QueueingInv'
    BY <1>6, <2>1, ResultRange DEF Finish, Settle, Return
  <2>3. OpenIsLast'
    BY <1>6, <2>1, SettleCloses DEF Finish
  <2>4. AttemptsInv'
    BY <1>6 DEF Finish, Settle, Return
  <2>5. QED
    BY <2>2, <2>3, <2>4
<1>7. CASE FinishFails(r)
  <2>1. AttemptsInv'
    BY <1>7 DEF FinishFails, Settle
  <2>2. CASE Settle(r)
    <3>1. hand[r] \in Messages /\ status[hand[r]] = "sending" /\ try[r] \in open[hand[r]]
      BY <1>7, <2>2 DEF FinishFails, Settle, StillClaimed
    <3>2. QueueingInv'
      BY <1>7, <2>2, <3>1, ResultRange DEF FinishFails, Settle
    <3>3. OpenIsLast'
      BY <2>2, <3>1, SettleCloses
    <3>4. QED
      BY <2>1, <3>2, <3>3
  <2>3. CASE UNCHANGED tableVars
    BY <1>7, <2>1, <2>3 DEF FinishFails
  <2>4. QED
    BY <1>7, <2>2, <2>3 DEF FinishFails
<1>8. QED
  BY <1>1, <1>2, <1>3, <1>4, <1>5, <1>6, <1>7 DEF Handle

LEMMA EnvironmentKeepsInv ==
    ASSUME IInv, Typed', Environment
    PROVE  IInv'
<1> USE MailAssumption
    DEF IInv, Typed, TypeOK, HandInv, QueueingInv, OpenIsLast, AttemptsInv, Working,
        tableVars, spoolVars, gateVars, workerVars
<1>1. ASSUME NEW r \in Runtimes, Drain(r) PROVE IInv'
  BY <1>1 DEF Drain, BeginDrain, CheckActive, Purge, Transition, GateTo
<1>2. ASSUME NEW r \in Runtimes, Crash(r) PROVE IInv'
  BY <1>2 DEF Crash
<1>3. ASSUME NEW m \in Messages, SweepDelete(m) \/ Delete(m) PROVE IInv'
  BY <1>3 DEF SweepDelete, Delete
<1>4. ASSUME NEW m \in Messages, LeaseExpires(m) \/ DuplicateJob(m) PROVE IInv'
  BY <1>4 DEF LeaseExpires, DuplicateJob
<1>5. CASE SweepScan
  BY <1>5 DEF SweepScan
<1>6. QED
  BY <1>1, <1>2, <1>3, <1>4, <1>5 DEF Environment

LEMMA Invariant == Spec => []IInv
<1>1. Init => IInv
  BY InitTyped DEF Init, IInv, QueueingInv, OpenIsLast, AttemptsInv, Working
<1>2. IInv /\ Typed' /\ [Next]_vars => IInv'
  <2> SUFFICES ASSUME IInv, Typed', [Next]_vars PROVE IInv'
    OBVIOUS
  <2>1. CASE UNCHANGED vars
    BY <2>1 DEF vars, tableVars, spoolVars, gateVars, workerVars, IInv, QueueingInv, OpenIsLast,
                AttemptsInv, Working
  <2>2. QED
    BY <2>1, NextCases, QueueKeepsInv, HandleKeepsInv, EnvironmentKeepsInv
<1>3. QED
  BY <1>1, <1>2, AlwaysTyped, PTL DEF Spec

\* A message has one attempt at a time, however late a worker answers.
THEOREM OneAttempt == Spec => []OneAttemptAtATime
<1>1. IInv => OneAttemptAtATime
  BY DEF IInv, OpenIsLast, AttemptsInv, OneAttemptAtATime
<1>2. QED
  BY <1>1, Invariant, PTL

-----------------------------------------------------------------------------

\* Requests of the site come through the runtime that is drained.  A queue call
\* on a runtime that has been replaced passes the drain of its successor.
SoleServer == \A r \in Serving, q \in Leaving : r = q

\* From the moment a drain has found no active message the site has none: the
\* runtime that queues messages is closed.
DrainInv ==
    /\ \A r \in Runtimes : gate[r] # "open" =>
           r \in Leaving /\ \A q \in Runtimes : queueing[q] = NoMessage
    /\ \A r \in Runtimes : gate[r] \in {"inactive", "prepared", "retired"} => Active = {}

\* What a sweep has found unreferenced stays so, because keys are never reused;
\* what is being queued or waits to be sent has its attachment.
SpoolInv ==
    /\ \A m \in doomed : m \notin Active /\ \A r \in Runtimes : queueing[r] # m
    /\ \A r \in Runtimes : queueing[r] # NoMessage => queueing[r] \in spool
    /\ AttachmentKept

DInv == DrainInv /\ SpoolInv

LEMMA QueueKeepsDInv ==
    ASSUME SoleServer, IInv, DInv, NEW r \in Runtimes, QueueCall(r)
    PROVE  DInv'
<1> USE MailAssumption
    DEF IInv, Typed, TypeOK, QueueingInv, DInv, DrainInv, SpoolInv, AttachmentKept,
        Active, ActiveStatus, workerVars, spoolVars, tableVars
<1>1. ASSUME NEW m \in Messages, Put(r, m) PROVE DInv'
  <2>1. DrainInv'
    BY <1>1 DEF Put, SoleServer
  <2>2. SpoolInv'
    BY <1>1 DEF Put
  <2>3. QED
    BY <2>1, <2>2
<1>2. CASE QueueDone(r)
  <2>1. DrainInv'
    BY <1>2 DEF QueueDone, Queued
  <2>2. SpoolInv'
    BY <1>2 DEF QueueDone, Queued
  <2>3. QED
    BY <2>1, <2>2
<1>3. CASE QueueFails(r)
  <2>1. DrainInv'
    BY <1>3 DEF QueueFails, Queued
  <2>2. SpoolInv'
    BY <1>3 DEF QueueFails, Queued
  <2>3. QED
    BY <2>1, <2>2
<1>4. QED
  BY <1>1, <1>2, <1>3 DEF QueueCall

\* A worker makes no message active, and lets go of an attachment only when
\* its message is settled.
WorkerFrame(r) ==
    /\ UNCHANGED <<queueing, gate, doomed, confirmed>>
    /\ Active' \subseteq Active
    /\ \/ spool' = spool
       \/ /\ spool' = spool \ {hand[r]} /\ hand[r] \in Messages
          /\ hand[r] \notin Active' /\ status[hand[r]] # "none"

LEMMA HandleKeepsDInv ==
    ASSUME IInv, DInv, NEW r \in Runtimes, Handle(r)
    PROVE  DInv'
<1> USE DEF IInv, Typed, TypeOK, HandInv, QueueingInv
<1>1. WorkerFrame(r)
  <2> USE DEF WorkerFrame, Active, ActiveStatus, tableVars, spoolVars, gateVars
  <2>1. ASSUME NEW m \in Messages, TakeJob(r, m) PROVE WorkerFrame(r)
    BY <2>1 DEF TakeJob
  <2>2. CASE Claim(r)
    BY <2>2 DEF Claim, Claimable
  <2>3. CASE ClaimExhausted(r)
    BY <2>3 DEF ClaimExhausted, Claimable, Return
  <2>4. CASE ClaimRefused(r) \/ Send(r)
    BY <2>4 DEF ClaimRefused, Send, Return
  <2>5. CASE Finish(r)
    BY <2>5, ResultRange DEF Finish, Settle, StillClaimed, Return
  <2>6. CASE FinishFails(r)
    BY <2>6, ResultRange DEF FinishFails, Settle, StillClaimed
  <2>7. QED
    BY <2>1, <2>2, <2>3, <2>4, <2>5, <2>6 DEF Handle
<1>2. DrainInv'
  BY <1>1 DEF WorkerFrame, DInv, DrainInv
<1>3. SpoolInv'
  BY <1>1 DEF WorkerFrame, DInv, SpoolInv, AttachmentKept
<1>4. QED
  BY <1>2, <1>3 DEF DInv

LEMMA EnvironmentKeepsDInv ==
    ASSUME SoleServer, IInv, DInv, Environment
    PROVE  DInv'
<1> USE MailAssumption
    DEF IInv, Typed, TypeOK, QueueingInv, DInv, DrainInv, SpoolInv, AttachmentKept,
        Active, ActiveStatus, workerVars, spoolVars, tableVars, gateVars
<1>1. ASSUME NEW r \in Runtimes, Drain(r) PROVE DInv'
  <2>1. CASE BeginDrain(r)
    BY <1>1, <2>1 DEF BeginDrain, GateTo, SoleServer
  <2>2. CASE CheckActive(r)
    BY <1>1, <2>2 DEF CheckActive, GateTo
  <2>3. CASE Purge(r)
    BY <1>1, <2>3 DEF Purge, GateTo
  <2>4. CASE Transition(r)
    BY <1>1, <2>4 DEF Transition, GateTo
  <2>5. QED
    BY <1>1, <2>1, <2>2, <2>3, <2>4 DEF Drain
<1>2. ASSUME NEW r \in Runtimes, Crash(r) PROVE DInv'
  BY <1>2 DEF Crash
<1>3. ASSUME NEW m \in Messages, SweepDelete(m) PROVE DInv'
  BY <1>3 DEF SweepDelete
<1>4. ASSUME NEW m \in Messages, Delete(m) PROVE DInv'
  BY <1>4 DEF Delete
<1>5. ASSUME NEW m \in Messages, LeaseExpires(m) \/ DuplicateJob(m) PROVE DInv'
  BY <1>5 DEF LeaseExpires, DuplicateJob
<1>6. CASE SweepScan
  BY <1>6 DEF SweepScan, Unreferenced
<1>7. QED
  BY <1>1, <1>2, <1>3, <1>4, <1>5, <1>6 DEF Environment

LEMMA DrainInvariant == ASSUME SoleServer PROVE Spec => []DInv
<1>1. Init => DInv
  BY DEF Init, DInv, DrainInv, SpoolInv, AttachmentKept, Active, ActiveStatus
<1>2. IInv /\ DInv /\ [Next]_vars => DInv'
  <2> SUFFICES ASSUME IInv, DInv, [Next]_vars PROVE DInv'
    OBVIOUS
  <2>1. CASE UNCHANGED vars
    BY <2>1 DEF vars, tableVars, spoolVars, gateVars, workerVars, DInv, DrainInv, SpoolInv,
                AttachmentKept, Active
  <2>2. QED
    BY <2>1, NextCases, QueueKeepsDInv, HandleKeepsDInv, EnvironmentKeepsDInv
<1>3. QED
  BY <1>1, <1>2, Invariant, PTL DEF Spec

\* When the site's requests come through the runtime that leaves, a runtime
\* that was retired left no message behind that would never be sent.
THEOREM NothingLeftBehind == ASSUME SoleServer PROVE Spec => []RetiredLeavesNothing
<1>1. DInv => RetiredLeavesNothing
  BY DEF DInv, DrainInv, RetiredLeavesNothing
<1>2. QED
  BY <1>1, DrainInvariant, PTL

\* Under the same condition the attachment of a message whose queue call
\* returned success is there until the message is settled, whatever sweeps,
\* failed attempts and drains happen meanwhile.
THEOREM AttachmentSafe == ASSUME SoleServer PROVE Spec => []AttachmentKept
<1>1. DInv => AttachmentKept
  BY DEF DInv, SpoolInv
<1>2. QED
  BY <1>1, DrainInvariant, PTL
===================================================================================
