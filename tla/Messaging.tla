------------------------------- MODULE Messaging -------------------------------
(***************************************************************************)
(* The whole way of a message: from the business transaction through the   *)
(* outbox and the event bus to a handler of the consumer group.  Outbox    *)
(* and EventConsumer run side by side; the bus of the one is the partition *)
(* of the other.                                                           *)
(***************************************************************************)
EXTENDS EventConsumer

CONSTANTS Publishers, CrashablePublishers, BatchSize, NoOwner

ASSUME ChainAssumption ==
    /\ CrashablePublishers \subseteq Publishers
    /\ NoOwner \notin Publishers
    /\ BatchSize \in Nat \ {0}

VARIABLES status, owner, lease, due, running, batch, sent, failed   \* Outbox

outboxVars == <<status, owner, lease, due, running, batch, sent, failed>>
chainVars == <<outboxVars, vars>>

bus == Logged

OB == INSTANCE Outbox WITH Crashable <- CrashablePublishers

ChainInit == Init /\ OB!Init

\* ProduceSync stores one more copy of the message.  The bound on the
\* partition leaves room for the first copy of every message.
Store(m) ==
    /\ \/ m \notin bus
       \/ Len(log) + Cardinality(Messages \ bus) < MaxLog
    /\ Produce(m)

Publish(p, m) == Store(m) /\ OB!Publish(p, m)

PublishFails(p, m) == (Store(m) \/ UNCHANGED vars) /\ OB!PublishFails(p, m)

TableStep(m) ==
    /\ UNCHANGED vars
    /\ \/ OB!Insert(m) \/ OB!Commit(m) \/ OB!Rollback(m)
       \/ OB!LeaseExpires(m) \/ OB!BecomesDue(m)

PublisherStep(p) ==
    /\ UNCHANGED vars
    /\ \/ OB!Claim(p) \/ OB!ClaimLost(p) \/ OB!Cleanup(p) \/ OB!Stop(p)
       \/ \E m \in Messages : OB!Record(p, m) \/ OB!RecordFails(p, m)

GroupStep(c) == UNCHANGED outboxVars /\ (ConsumerStep(c) \/ BrokerStep(c))

ChainNext ==
    \/ \E p \in Publishers, m \in Messages : Publish(p, m) \/ PublishFails(p, m)
    \/ \E m \in Messages : TableStep(m)
    \/ \E p \in Publishers : PublisherStep(p)
    \/ \E c \in Consumers : GroupStep(c)

ChainSpec == ChainInit /\ [][ChainNext]_chainVars

(***************************************************************************)
(* Fairness.  Publishers as in Outbox.  A process that is not stopped runs *)
(* its loop; the broker assigns a free partition, drops dead members and   *)
(* tells evicted ones.  Among infinitely many handler calls, fetches and   *)
(* commits some succeed: a handler that fails forever on one record blocks *)
(* the partition, by design of HandleWithRetry.                            *)
(***************************************************************************)
Table(A) == UNCHANGED vars /\ A
Group(A) == UNCHANGED outboxVars /\ A

ChainFairness ==
    /\ \A m \in Messages :
          /\ WF_chainVars(Table(OB!LeaseExpires(m)))
          /\ WF_chainVars(Table(OB!BecomesDue(m)))
          /\ SF_chainVars(\E p \in Publishers : Table(OB!Claim(p)) /\ m \in batch'[p])
          /\ SF_chainVars(\E p \in Publishers : Publish(p, m))
          /\ SF_chainVars(\E p \in Publishers : Table(OB!Record(p, m)))
    /\ SF_chainVars(\E c \in Consumers : Group(Assign(c)))
    /\ SF_chainVars(\E c \in Consumers : Group(Fetch(c)) /\ assigned = c)
    /\ SF_chainVars(\E c \in Consumers : Group(Handle(c)) /\ assigned = c)
    /\ SF_chainVars(\E c \in Consumers : Group(Commit(c)))
    /\ \A c \in Consumers :
          /\ WF_chainVars(Group(Open(c)))
          /\ WF_chainVars(Group(Handle(c)))
          /\ WF_chainVars(assigned # c /\ Group(CommitFails(c)))
          /\ WF_chainVars(phase[c] = "stopped" /\ Group(Evict(c)))
          /\ WF_chainVars(Group(Revoked(c)))

ChainFairSpec == ChainSpec /\ ChainFairness

-----------------------------------------------------------------------------

Handled == {log[i] : i \in handled}

Promise == INSTANCE AtLeastOnce WITH accepted <- OB!Committed, delivered <- Handled

\* A committed message is handled, in the end and at least once; a message
\* whose transaction did not commit is never handled.  Publishers and
\* consumers stop, crash and repeat their work along the way.
ChainIsAtLeastOnce == Promise!ALOSpec
================================================================================
