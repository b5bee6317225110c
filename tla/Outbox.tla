-------------------------------- MODULE Outbox --------------------------------
(***************************************************************************)
(* The transactional outbox of the core module and the publishers that    *)
(* drain it into the event bus.                                            *)
(*                                                                         *)
(* A row of core.outbox_messages is written by the same transaction as the *)
(* business change.  Any number of publisher processes claim batches of    *)
(* rows under a time-limited lease, publish each record outside any        *)
(* transaction and then acknowledge it.  The clock is abstract: a lease    *)
(* may run out, and a delayed row may become available, at any moment.     *)
(***************************************************************************)
EXTENDS Naturals, FiniteSets

CONSTANTS
    Messages,    \* outbox rows the application ever writes
    Publishers,  \* publisher incarnations; each has its own random owner id
    Crashable,   \* the publishers whose process may stop
    BatchSize,   \* PublisherConfig.BatchSize
    NoOwner      \* SQL NULL in lease_owner

ASSUME OutboxAssumption ==
    /\ Crashable \subseteq Publishers
    /\ NoOwner \notin Publishers
    /\ BatchSize \in Nat \ {0}

VARIABLES
    status,    \* status[m]: where the row of m is in its life
    owner,     \* owner[m]: lease_owner
    lease,     \* lease[m]: lease_until, compared with the source's clock
    due,       \* the rows with available_at <= now
    running,   \* publishers whose Run loop has not returned
    batch,     \* batch[p]: records of the last claim p has not yet processed
    sent,      \* sent[p]: published, the success not yet recorded by p
    failed,    \* failed[p]: Publish returned an error, not yet recorded by p
    bus        \* messages the event bus holds

vars == <<status, owner, lease, due, running, batch, sent, failed, bus>>

rowVars == <<status, owner, lease, due>>

Status == {"none", "uncommitted", "pending", "published", "deleted"}

-----------------------------------------------------------------------------
(* The business transaction.                                               *)

Init ==
    /\ status = [m \in Messages |-> "none"]
    /\ owner = [m \in Messages |-> NoOwner]
    /\ lease = [m \in Messages |-> "null"]
    /\ due = Messages
    /\ running = Publishers
    /\ batch = [p \in Publishers |-> {}]
    /\ sent = [p \in Publishers |-> {}]
    /\ failed = [p \in Publishers |-> {}]
    /\ bus = {}

\* INSERT INTO core.outbox_messages inside the transaction of the change.
Insert(m) ==
    /\ status[m] = "none"
    /\ status' = [status EXCEPT ![m] = "uncommitted"]
    /\ UNCHANGED <<owner, lease, due, running, batch, sent, failed, bus>>

Commit(m) ==
    /\ status[m] = "uncommitted"
    /\ status' = [status EXCEPT ![m] = "pending"]
    /\ UNCHANGED <<owner, lease, due, running, batch, sent, failed, bus>>

Rollback(m) ==
    /\ status[m] = "uncommitted"
    /\ status' = [status EXCEPT ![m] = "none"]
    /\ UNCHANGED <<owner, lease, due, running, batch, sent, failed, bus>>

-----------------------------------------------------------------------------
(* outboxSource: the statements a publisher runs against the table.        *)

\* Mutant: rows of an open transaction can be claimed as well.
ClaimableUncommitted ==
    {m \in Messages : /\ status[m] \in {"uncommitted", "pending"}
                      /\ m \in due /\ lease[m] \in {"null", "expired"}}

\* Mutant: a lease that ran out is not taken over.
ClaimableNeverLeased ==
    {m \in Messages : status[m] = "pending" /\ m \in due /\ lease[m] = "null"}

Claimable ==
    {m \in Messages : status[m] = "pending" /\ m \in due /\ lease[m] \in {"null", "expired"}}

\* The UPDATE of Claim.  SKIP LOCKED may leave out rows another statement
\* has locked, so any part of the candidates up to the limit can be taken.
Claimed(p, S) ==
    /\ S \in SUBSET Claimable
    /\ S # {}
    /\ Cardinality(S) <= BatchSize
    /\ owner' = [m \in Messages |-> IF m \in S THEN p ELSE owner[m]]
    /\ lease' = [m \in Messages |-> IF m \in S THEN "live" ELSE lease[m]]
    /\ UNCHANGED <<status, due>>

\* Mutant: the marks do not compare lease_owner.
HoldsAnyOwner(p, m) == status[m] = "pending" /\ owner[m] # NoOwner

\* WHERE message_id=$1 AND lease_owner=$2 AND published_at IS NULL
Holds(p, m) == status[m] = "pending" /\ owner[m] = p

\* Mutant: the acknowledgement frees the row and forgets published_at.
MarkPublishedUnset(p, m) ==
    IF Holds(p, m)
    THEN /\ owner' = [owner EXCEPT ![m] = NoOwner]
         /\ lease' = [lease EXCEPT ![m] = "null"]
         /\ UNCHANGED <<status, due>>
    ELSE UNCHANGED rowVars

MarkPublished(p, m) ==
    IF Holds(p, m)
    THEN /\ status' = [status EXCEPT ![m] = "published"]
         /\ owner' = [owner EXCEPT ![m] = NoOwner]
         /\ lease' = [lease EXCEPT ![m] = "null"]
         /\ UNCHANGED due
    ELSE UNCHANGED rowVars  \* ErrLeaseLost

\* Mutant: the failed attempt leaves lease_until behind.
MarkFailedKeepsLease(p, m) ==
    IF Holds(p, m)
    THEN /\ due' = due \ {m}
         /\ owner' = [owner EXCEPT ![m] = NoOwner]
         /\ UNCHANGED <<status, lease>>
    ELSE UNCHANGED rowVars

MarkFailed(p, m) ==
    IF Holds(p, m)
    THEN /\ due' = due \ {m}
         /\ owner' = [owner EXCEPT ![m] = NoOwner]
         /\ lease' = [lease EXCEPT ![m] = "null"]
         /\ UNCHANGED status
    ELSE UNCHANGED rowVars  \* ErrLeaseLost

-----------------------------------------------------------------------------
(* Publisher.process: claim, then publish and acknowledge record by record *)

Idle(p) == p \in running /\ batch[p] = {} /\ sent[p] = {} /\ failed[p] = {}

Claim(p) ==
    /\ Idle(p)
    /\ \E S \in SUBSET Messages :
          /\ Claimed(p, S)
          /\ batch' = [batch EXCEPT ![p] = S]
    /\ UNCHANGED <<running, sent, failed, bus>>

\* The claim committed but its answer did not arrive: rows are leased to a
\* publisher that does not know it.
ClaimLost(p) ==
    /\ Idle(p)
    /\ \E S \in SUBSET Messages : Claimed(p, S)
    /\ UNCHANGED <<running, batch, sent, failed, bus>>

\* The next record of the loop, in whatever order the database returned them.
Process(p, m) ==
    /\ p \in running
    /\ sent[p] = {} /\ failed[p] = {}
    /\ m \in batch[p]
    /\ batch' = [batch EXCEPT ![p] = @ \ {m}]
    /\ UNCHANGED <<rowVars, running>>

Publish(p, m) ==
    /\ Process(p, m)
    /\ bus' = bus \cup {m}
    /\ sent' = [sent EXCEPT ![p] = {m}]
    /\ UNCHANGED failed

\* bus.Publish returned an error; the broker may have stored it all the same.
PublishFails(p, m) ==
    /\ Process(p, m)
    /\ bus' \in {bus, bus \cup {m}}
    /\ failed' = [failed EXCEPT ![p] = {m}]
    /\ UNCHANGED sent

Recorded(p) ==
    /\ sent' = [sent EXCEPT ![p] = {}]
    /\ failed' = [failed EXCEPT ![p] = {}]
    /\ UNCHANGED <<running, batch, bus>>

\* Mutant: the result of Publish is not looked at.
RecordIgnoresError(p, m) ==
    /\ p \in running
    /\ m \in sent[p] \cup failed[p]
    /\ MarkPublished(p, m)
    /\ Recorded(p)

\* The mark reaches the database; ErrLeaseLost is only logged.
Record(p, m) ==
    /\ p \in running
    /\ \/ m \in sent[p] /\ MarkPublished(p, m)
       \/ m \in failed[p] /\ MarkFailed(p, m)
    /\ Recorded(p)

\* The statement fails before it takes effect: logged, the row stays leased.
RecordFails(p, m) ==
    /\ p \in running
    /\ m \in sent[p] \cup failed[p]
    /\ Recorded(p)
    /\ UNCHANGED rowVars

\* CleanupPublished removes a bounded number of published rows.
Cleanup(p) ==
    /\ Idle(p)
    /\ \E S \in SUBSET {m \in Messages : status[m] = "published"} :
          /\ S # {}
          /\ Cardinality(S) <= BatchSize
          /\ status' = [m \in Messages |-> IF m \in S THEN "deleted" ELSE status[m]]
    /\ UNCHANGED <<owner, lease, due, running, batch, sent, failed, bus>>

\* The context is cancelled or the process dies, at any point of the loop.
Stop(p) ==
    /\ p \in running \cap Crashable
    /\ running' = running \ {p}
    /\ batch' = [batch EXCEPT ![p] = {}]
    /\ sent' = [sent EXCEPT ![p] = {}]
    /\ failed' = [failed EXCEPT ![p] = {}]
    /\ UNCHANGED <<rowVars, bus>>

-----------------------------------------------------------------------------
(* The source's clock.                                                     *)

LeaseExpires(m) ==
    /\ lease[m] = "live"
    /\ lease' = [lease EXCEPT ![m] = "expired"]
    /\ UNCHANGED <<status, owner, due, running, batch, sent, failed, bus>>

BecomesDue(m) ==
    /\ m \notin due
    /\ due' = due \cup {m}
    /\ UNCHANGED <<status, owner, lease, running, batch, sent, failed, bus>>

Next ==
    \/ \E m \in Messages :
          \/ Insert(m) \/ Commit(m) \/ Rollback(m)
          \/ LeaseExpires(m) \/ BecomesDue(m)
    \/ \E p \in Publishers :
          \/ Claim(p) \/ ClaimLost(p) \/ Cleanup(p) \/ Stop(p)
          \/ \E m \in Messages :
                \/ Publish(p, m) \/ PublishFails(p, m)
                \/ Record(p, m) \/ RecordFails(p, m)

Spec == Init /\ [][Next]_vars

(***************************************************************************)
(* Fairness.  Time passes, so leases run out and delays end.  Publishers   *)
(* that are not stopped poll forever, and at least one is never stopped.   *)
(* Claim orders by available_at, so no row is passed over forever.  The    *)
(* broker and the database are not down forever: of infinitely many calls  *)
(* about a message some succeed.                                           *)
(***************************************************************************)
Fairness ==
    \A m \in Messages :
        /\ WF_vars(LeaseExpires(m))
        /\ WF_vars(BecomesDue(m))
        /\ SF_vars(\E p \in Publishers : Claim(p) /\ m \in batch'[p])
        /\ SF_vars(\E p \in Publishers : Publish(p, m))
        /\ SF_vars(\E p \in Publishers : Record(p, m))

FairSpec == Spec /\ Fairness

-----------------------------------------------------------------------------
(* Properties.                                                             *)

\* Every variable has its type, and the CHECK constraint of the table holds:
\* lease_owner and lease_until are null together.
TypeOK ==
    /\ status \in [Messages -> Status]
    /\ owner \in [Messages -> Publishers \cup {NoOwner}]
    /\ lease \in [Messages -> {"null", "live", "expired"}]
    /\ due \subseteq Messages
    /\ running \subseteq Publishers
    /\ batch \in [Publishers -> SUBSET Messages]
    /\ sent \in [Publishers -> SUBSET Messages]
    /\ failed \in [Publishers -> SUBSET Messages]
    /\ bus \subseteq Messages
    /\ \A m \in Messages : owner[m] = NoOwner <=> lease[m] = "null"

\* A row is marked published, and later removed by the retention sweep, only
\* when the broker has its message: no crash, lost lease or failed statement
\* between Publish and MarkPublished loses a message (process, MarkPublished).
PublishedIsOnBus ==
    \A m \in Messages : status[m] \in {"published", "deleted"} => m \in bus

\* The broker never sees a message whose transaction is open or rolled back
\* (Claim reads committed rows only; the row is part of the transaction).
NothingUncommittedOnBus ==
    \A m \in bus : status[m] \in {"pending", "published", "deleted"}

LeaseFenceStep(p, m) ==
    (owner[m] = p /\ lease[m] = "live") =>
        \/ m \in sent[p] \cup failed[p] /\ m \notin sent'[p] \cup failed'[p]
        \/ /\ UNCHANGED <<status[m], owner[m]>>
           /\ lease'[m] \in {"live", "expired"}
           /\ m \in due => m \in due'

\* While publisher p has a live lease on m, the row can change only because
\* the lease runs out or p itself records the outcome of its own Publish: a
\* publisher whose lease was taken over can neither acknowledge, delay nor
\* free the row of the new holder (the lease_owner guard of the two marks).
LeaseFenced == [][\A p \in Publishers, m \in Messages : LeaseFenceStep(p, m)]_vars

\* If leases eventually stop running out before their batch is worked off,
\* every committed row is acknowledged, whatever failed before: no row is
\* left leased, delayed or forgotten by a publisher that stopped.
SettledOnceLeasesHold ==
    (\A m \in Messages : <>[](lease[m] # "expired")) =>
        \A m \in Messages :
            status[m] = "pending" ~> status[m] \in {"published", "deleted"}

Committed == {m \in Messages : status[m] \notin {"none", "uncommitted"}}

Promise == INSTANCE AtLeastOnce WITH accepted <- Committed, delivered <- bus

\* The outbox delivers what was committed, only that, and in the end all of
\* it, with publishers stopping and calls failing along the way.
ImplementsAtLeastOnce == Promise!ALOSpec

PromiseSafety == Promise!ALOSafety
================================================================================
