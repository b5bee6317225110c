----------------------------- MODULE MessagingProofs -----------------------------
(***************************************************************************)
(* The consumer group and the whole message chain, for any number of       *)
(* messages, publishers and processes and any length of the partition.     *)
(***************************************************************************)
EXTENDS Messaging, TLAPS

-----------------------------------------------------------------------------
(* The consumer group.                                                     *)

\* A process has a record in hand only while it believes the partition is its
\* own; it may be wrong about that.
Sessions ==
    \A c \in Consumers :
        /\ c \in member => phase[c] \in {"polling", "handling", "committing"}
        /\ phase[c] \in {"handling", "committing"} => c \in member /\ position[c] > 0

\* The last record a process is through with.
Through(c) == IF phase[c] = "handling" THEN position[c] - 1 ELSE position[c]

\* Whoever has a session, evicted or not, has left nothing unhandled behind it.
SessionsSkipNothing == \A c \in member : 1..Through(c) \subseteq handled

\* The member that may commit is at the committed offset, or works on the next
\* record.
InStep ==
    assigned \in member =>
        position[assigned] = IF phase[assigned] = "polling" THEN committed ELSE committed + 1

CommittedIsHandled == 1..committed \subseteq handled

IInv ==
    /\ TypeOK
    /\ Sessions
    /\ SessionsSkipNothing
    /\ InStep
    /\ CommittedIsHandled
    /\ FirstHandledInOrder

LEMMA InitHolds == Init => IInv
BY ConsumerAssumption
   DEF Init, IInv, TypeOK, Phase, Sessions, SessionsSkipNothing, InStep, CommittedIsHandled,
       FirstHandledInOrder

LEMMA ProduceStep ==
    ASSUME IInv, NEW m \in Messages, Produce(m)
    PROVE  IInv'
<1> USE DEF IInv, TypeOK
<1>1. log' \in Seq(Messages) /\ Len(log') = Len(log) + 1
  BY DEF Produce
<1>2. TypeOK'
  BY <1>1 DEF Produce
<1>3. QED
  BY <1>2 DEF Produce, Sessions, SessionsSkipNothing, Through, InStep, CommittedIsHandled,
              FirstHandledInOrder

\* The broker moves the partition at moments of its own choice.
LEMMA BrokerKeepsInv ==
    ASSUME IInv, NEW c \in Consumers, BrokerStep(c)
    PROVE  IInv'
<1> USE ConsumerAssumption
    DEF IInv, TypeOK, Phase, Sessions, SessionsSkipNothing, Through, InStep, CommittedIsHandled,
        FirstHandledInOrder
<1>1. CASE Assign(c)
  BY <1>1 DEF Assign
<1>2. CASE Evict(c)
  BY <1>2 DEF Evict
<1>3. CASE Revoked(c)
  BY <1>3 DEF Revoked
<1>4. QED
  BY <1>1, <1>2, <1>3 DEF BrokerStep

LEMMA ConsumerKeepsInv ==
    ASSUME IInv, NEW c \in Consumers, ConsumerStep(c)
    PROVE  IInv'
<1> USE ConsumerAssumption
    DEF IInv, TypeOK, Phase, Sessions, SessionsSkipNothing, Through, InStep, CommittedIsHandled,
        FirstHandledInOrder
<1>1. CASE Open(c)
  BY <1>1 DEF Open
<1>2. CASE Fetch(c)
  <2>1. TypeOK'
    BY <1>2 DEF Fetch
  <2>2. Sessions' /\ InStep'
    BY <1>2 DEF Fetch
  <2>3. \A d \in member' : Through(d)' = Through(d)
    BY <1>2 DEF Fetch
  <2>4. SessionsSkipNothing'
    BY <1>2, <2>3 DEF Fetch
  <2>5. QED
    BY <1>2, <2>1, <2>2, <2>4 DEF Fetch
<1>3. CASE FetchFails(c)
  BY <1>3 DEF FetchFails, Leave
<1>4. CASE Handle(c)
  <2>1. position[c] \in 1..Len(log) /\ 1..(position[c] - 1) \subseteq handled
    BY <1>4 DEF Handle
  <2>2. 1..position[c] \subseteq handled' /\ handled \subseteq handled'
    BY <1>4, <2>1 DEF Handle
  <2>3. TypeOK' /\ Sessions' /\ InStep' /\ CommittedIsHandled'
    BY <1>4, <2>1 DEF Handle
  <2>4. SessionsSkipNothing'
    <3>1. \A d \in member' : d # c => Through(d)' = Through(d)
      BY <1>4 DEF Handle
    <3>2. Through(c)' = position[c]
      BY <1>4 DEF Handle
    <3>3. QED
      BY <1>4, <2>2, <3>1, <3>2 DEF Handle
  <2>5. FirstHandledInOrder'
    BY <1>4, <2>2 DEF Handle
  <2>6. QED
    BY <2>3, <2>4, <2>5
<1>5. CASE Commit(c)
  BY <1>5 DEF Commit
<1>6. CASE CommitFails(c)
  BY <1>6 DEF CommitFails, Leave
<1>7. CASE Stop(c)
  BY <1>7 DEF Stop, Leave
<1>8. CASE Crash(c)
  BY <1>8 DEF Crash
<1>9. QED
  BY <1>1, <1>2, <1>3, <1>4, <1>5, <1>6, <1>7, <1>8 DEF ConsumerStep

LEMMA Invariant == Spec => []IInv
<1>1. IInv /\ [Next]_vars => IInv'
  <2> SUFFICES ASSUME IInv, [Next]_vars PROVE IInv'
    OBVIOUS
  <2>1. CASE UNCHANGED vars
    BY <2>1 DEF vars, IInv, TypeOK, Sessions, SessionsSkipNothing, Through, InStep,
                CommittedIsHandled, FirstHandledInOrder
  <2>2. QED
    BY <2>1, ProduceStep, BrokerKeepsInv, ConsumerKeepsInv DEF Next
<1>2. QED
  BY <1>1, InitHolds, PTL DEF Spec

\* Every reachable state of the group is well typed.
THEOREM TypeCorrect == Spec => []TypeOK
BY Invariant, PTL DEF IInv

\* No handover, crash or rewind skips a record, and the member the partition is
\* assigned to is at most one record ahead of the committed offset.
THEOREM HandoversAreExact == Spec => []HandoverIsExact
<1>1. IInv => HandoverIsExact
  BY DEF IInv, TypeOK, Phase, InStep, CommittedIsHandled, HandoverIsExact
<1>2. QED
  BY <1>1, Invariant, PTL

\* A record is handled for the first time only after all earlier ones.
THEOREM OrderIsKept == Spec => []FirstHandledInOrder
BY Invariant, PTL DEF IInv

\* The committed offset never goes back and never jumps: whoever commits holds
\* the partition and commits the record after the last committed one, however
\* late its commit arrives.
THEOREM OffsetsAdvanceByOne == Spec => [][committed' \in {committed, committed + 1}]_vars
<1>1. ASSUME IInv, Next PROVE committed' \in {committed, committed + 1}
  <2> USE DEF IInv, TypeOK, Phase, Sessions, InStep
  <2>1. ASSUME NEW m \in Messages, Produce(m) PROVE UNCHANGED committed
    BY <2>1 DEF Produce
  <2>2. ASSUME NEW c \in Consumers, BrokerStep(c) PROVE UNCHANGED committed
    BY <2>2 DEF BrokerStep, Assign, Evict, Revoked
  <2>3. ASSUME NEW c \in Consumers, Commit(c) \/ CommitFails(c)
        PROVE committed' \in {committed, committed + 1}
    <3>1. phase[c] = "committing" /\ c \in member
      BY <1>1, <2>3 DEF Commit, CommitFails
    <3>2. assigned = c => position[c] = committed + 1
      BY <1>1, <3>1
    <3>3. QED
      BY <2>3, <3>2 DEF Commit, CommitFails
  <2>4. ASSUME NEW c \in Consumers,
               Open(c) \/ Fetch(c) \/ FetchFails(c) \/ Handle(c) \/ Stop(c) \/ Crash(c)
        PROVE UNCHANGED committed
    BY <2>4 DEF Open, Fetch, FetchFails, Handle, Stop, Crash
  <2>5. QED
    BY <1>1, <2>1, <2>2, <2>3, <2>4 DEF Next, ConsumerStep
<1>2. IInv /\ [Next]_vars => [committed' \in {committed, committed + 1}]_vars
  BY <1>1
<1>3. QED
  BY <1>2, Invariant, PTL DEF Spec

-----------------------------------------------------------------------------
(* The chain: the group and the outbox take their steps side by side, so   *)
(* what is proved of each of them holds of the chain.                      *)

OP == INSTANCE OutboxProofs WITH Crashable <- CrashablePublishers

LEMMA OutboxAssumed == OP!OutboxAssumption
BY ChainAssumption DEF OP!OutboxAssumption

\* The two instances of the outbox count alike.
LEMMA SameCardinality == \A S : OP!Cardinality(S) = OB!Cardinality(S)
BY DEF OP!Cardinality, OB!Cardinality

\* Every step of the chain is a step of the group or leaves it alone.
THEOREM ChainImplementsConsumer == ChainSpec => Spec
<1>1. ChainInit => Init
  BY DEF ChainInit
<1>2. [ChainNext]_chainVars => [Next]_vars
  <2> SUFFICES ASSUME [ChainNext]_chainVars PROVE [Next]_vars
    OBVIOUS
  <2>1. ASSUME NEW m \in Messages, Store(m) PROVE Next
    BY <2>1 DEF Store, Next
  <2>2. ASSUME NEW c \in Consumers, GroupStep(c) PROVE Next
    BY <2>2 DEF GroupStep, Next
  <2>3. CASE UNCHANGED chainVars
    BY <2>3 DEF chainVars, vars
  <2>4. QED
    BY <2>1, <2>2, <2>3 DEF ChainNext, Publish, PublishFails, TableStep, PublisherStep
<1>3. QED
  BY <1>1, <1>2, PTL DEF ChainSpec, Spec

\* Every step of the chain is a step of the outbox or leaves it alone: the
\* group does not touch the table, and adds nothing to the partition.
THEOREM ChainImplementsOutbox == ChainSpec => OP!Spec
<1>1. ChainInit => OP!Init
  BY DEF ChainInit, Init, bus, Logged, ToSet, OB!Init, OP!Init
<1>2. [ChainNext]_chainVars => [OP!Next]_(OP!vars)
  <2> SUFFICES ASSUME [ChainNext]_chainVars PROVE [OP!Next]_(OP!vars)
    OBVIOUS
  <2>1. ASSUME NEW p \in Publishers, NEW m \in Messages, Publish(p, m) \/ PublishFails(p, m)
        PROVE  OP!Next
    <3>1. OP!Publish(p, m) \/ OP!PublishFails(p, m)
      BY <2>1 DEF Publish, PublishFails, OB!Publish, OB!PublishFails, OP!Publish, OP!PublishFails,
                  OB!Process, OP!Process, OB!rowVars, OP!rowVars
    <3>2. QED
      BY <3>1 DEF OP!Next
  <2>2. ASSUME NEW m \in Messages, TableStep(m) PROVE OP!Next
    BY <2>2 DEF TableStep, OP!Next, OB!Insert, OP!Insert, OB!Commit, OP!Commit, OB!Rollback,
                OP!Rollback, OB!LeaseExpires, OP!LeaseExpires, OB!BecomesDue, OP!BecomesDue
  <2>3. ASSUME NEW p \in Publishers, PublisherStep(p) PROVE OP!Next
    <3>1. CASE OB!Claim(p) \/ OB!ClaimLost(p)
      BY <3>1, SameCardinality DEF OP!Next, OB!Claim, OP!Claim, OB!ClaimLost, OP!ClaimLost, OB!Idle, OP!Idle,
                  OB!Claimed, OP!Claimed, OB!Claimable, OP!Claimable
    <3>2. CASE OB!Cleanup(p)
      BY <3>2, SameCardinality DEF OP!Next, OB!Cleanup, OP!Cleanup, OB!Idle, OP!Idle
    <3>3. CASE OB!Stop(p)
      BY <3>3 DEF OP!Next, OB!Stop, OP!Stop, OB!rowVars, OP!rowVars
    <3>4. ASSUME NEW m \in Messages, OB!Record(p, m) PROVE OP!Next
      <4>1. OB!Recorded(p) <=> OP!Recorded(p)
        BY DEF OB!Recorded, OP!Recorded
      <4>2. OB!MarkPublished(p, m) <=> OP!MarkPublished(p, m)
        BY DEF OB!MarkPublished, OP!MarkPublished, OB!Holds, OP!Holds, OB!rowVars, OP!rowVars
      <4>3. OB!MarkFailed(p, m) <=> OP!MarkFailed(p, m)
        BY DEF OB!MarkFailed, OP!MarkFailed, OB!Holds, OP!Holds, OB!rowVars, OP!rowVars
      <4>4. OP!Record(p, m)
        BY <3>4, <4>1, <4>2, <4>3 DEF OB!Record, OP!Record
      <4>5. QED
        BY <4>4 DEF OP!Next
    <3>5. ASSUME NEW m \in Messages, OB!RecordFails(p, m) PROVE OP!Next
      <4>1. OP!RecordFails(p, m)
        BY <3>5 DEF OB!RecordFails, OP!RecordFails, OB!Recorded, OP!Recorded,
                    OB!rowVars, OP!rowVars
      <4>2. QED
        BY <4>1 DEF OP!Next
    <3>6. QED
      BY <2>3, <3>1, <3>2, <3>3, <3>4, <3>5 DEF PublisherStep
  <2>4. ASSUME NEW c \in Consumers, GroupStep(c) PROVE UNCHANGED OP!vars
    <3>1. UNCHANGED log
      BY <2>4 DEF GroupStep, ConsumerStep, BrokerStep, Open, Fetch, FetchFails, Handle, Commit,
                  CommitFails, Stop, Crash, Assign, Evict, Revoked
    <3>2. QED
      BY <2>4, <3>1 DEF GroupStep, outboxVars, OP!vars, bus, Logged
  <2>5. CASE UNCHANGED chainVars
    BY <2>5 DEF chainVars, vars, outboxVars, OP!vars, bus, Logged
  <2>6. QED
    BY <2>1, <2>2, <2>3, <2>4, <2>5 DEF ChainNext
<1>3. QED
  BY <1>1, <1>2, PTL DEF ChainSpec, OP!Spec

\* What is proved of the group holds of the chain.
LEMMA GroupInvariant == ChainSpec => []IInv
BY ChainImplementsConsumer, Invariant, PTL

\* Nothing is on the partition whose transaction did not commit.
LEMMA PartitionIsCommitted == ChainSpec => []OP!NothingUncommittedOnBus
BY ChainImplementsOutbox, OP!NothingPremature, OutboxAssumed, PTL

\* The table of the chain is as well typed as that of the outbox.
LEMMA TableTyped == ChainSpec => []OP!TypeOK
BY ChainImplementsOutbox, OP!TypeCorrect, OutboxAssumed, PTL

\* The chain implements the hand-over it promises: every step accepts a message,
\* handles an accepted one, or changes neither; whatever is handled, by
\* whichever process and however often, was written by a committed
\* transaction.
THEOREM ChainImplements == ChainSpec => Promise!ALOSafety
<1>1. ChainInit => Promise!ALOInit
  BY DEF ChainInit, Init, Promise!ALOInit, Handled, OB!Init, OB!Committed
<1>2. IInv /\ OP!TypeOK /\ OP!NothingUncommittedOnBus /\ [ChainNext]_chainVars
        => [Promise!ALONext]_(Promise!aloVars)
  <2> SUFFICES ASSUME IInv, OP!TypeOK, OP!NothingUncommittedOnBus, [ChainNext]_chainVars
               PROVE  [Promise!ALONext]_(Promise!aloVars)
    OBVIOUS
  <2> USE DEF Promise!aloVars
  <2>1. ASSUME NEW m \in Messages, Produce(m) \/ UNCHANGED vars PROVE UNCHANGED Handled
    <3>1. \A i \in handled : log'[i] = log[i]
      BY <2>1 DEF IInv, TypeOK, Produce, vars
    <3>2. handled' = handled
      BY <2>1 DEF Produce, vars
    <3>3. QED
      BY <3>1, <3>2 DEF Handled
  <2>2. ASSUME NEW m \in Messages, TableStep(m)
        PROVE  Promise!ALONext \/ UNCHANGED Promise!aloVars
    <3>1. UNCHANGED Handled
      BY <2>1, <2>2 DEF TableStep
    <3>2. CASE OB!Commit(m)
      <4>1. OB!Committed' = OB!Committed \cup {m}
        BY <3>2 DEF OB!Commit, OB!Committed, OP!TypeOK
      <4>2. QED
        BY <3>1, <4>1 DEF Promise!ALONext, Promise!Accept
    <3>3. CASE OB!Insert(m) \/ OB!Rollback(m)
      BY <3>1, <3>3 DEF OB!Insert, OB!Rollback, OB!Committed, OP!TypeOK
    <3>4. CASE OB!LeaseExpires(m) \/ OB!BecomesDue(m)
      BY <3>1, <3>4 DEF OB!LeaseExpires, OB!BecomesDue, OB!Committed
    <3>5. QED
      BY <2>2, <3>2, <3>3, <3>4 DEF TableStep
  <2>3. ASSUME NEW p \in Publishers, PublisherStep(p) PROVE UNCHANGED Promise!aloVars
    <3>1. UNCHANGED Handled
      BY <2>3 DEF PublisherStep, vars, Handled
    <3>2. CASE OB!Claim(p) \/ OB!ClaimLost(p) \/ OB!Cleanup(p) \/ OB!Stop(p)
      BY <3>1, <3>2 DEF OB!Claim, OB!ClaimLost, OB!Claimed, OB!Cleanup, OB!Stop, OB!rowVars,
                        OB!Committed
    <3>3. ASSUME NEW m \in Messages, OB!Record(p, m) \/ OB!RecordFails(p, m)
          PROVE  UNCHANGED OB!Committed
      BY <3>3 DEF OB!Record, OB!RecordFails, OB!MarkPublished, OB!MarkFailed, OB!Holds,
                  OB!rowVars, OB!Committed, OP!TypeOK
    <3>4. QED
      BY <2>3, <3>1, <3>2, <3>3 DEF PublisherStep
  <2>4. ASSUME NEW p \in Publishers, NEW m \in Messages, Publish(p, m) \/ PublishFails(p, m)
        PROVE UNCHANGED Promise!aloVars
    <3>1. UNCHANGED Handled
      BY <2>1, <2>4 DEF Publish, PublishFails, Store
    <3>2. QED
      BY <2>4, <3>1 DEF Publish, PublishFails, OB!Publish, OB!PublishFails, OB!Process,
                        OB!rowVars, OB!Committed
  <2>5. ASSUME NEW c \in Consumers, GroupStep(c)
        PROVE  Promise!ALONext \/ UNCHANGED Promise!aloVars
    <3>1. UNCHANGED OB!Committed
      BY <2>5 DEF GroupStep, outboxVars, OB!Committed
    <3>2. CASE Handle(c)
      <4> DEFINE m == log[position[c]]
      <4>1. position[c] \in 1..Len(log) /\ UNCHANGED log
        BY <3>2 DEF Handle, IInv, Sessions, TypeOK
      <4>2. m \in bus /\ m \in Messages
        BY <4>1 DEF bus, Logged, ToSet, IInv, TypeOK
      <4>3. m \in OB!Committed
        BY <4>2 DEF OP!NothingUncommittedOnBus, OB!Committed
      <4>4. Handled' = Handled \cup {m}
        BY <3>2, <4>1 DEF Handle, Handled
      <4>5. QED
        BY <3>1, <4>2, <4>3, <4>4 DEF Promise!ALONext, Promise!Deliver
    <3>3. CASE UNCHANGED <<log, handled>>
      BY <3>1, <3>3 DEF Handled
    <3>4. QED
      BY <2>5, <3>2, <3>3 DEF GroupStep, ConsumerStep, BrokerStep, Open, Fetch, FetchFails, Commit,
                              CommitFails, Stop, Crash, Assign, Evict, Revoked
  <2>6. CASE UNCHANGED chainVars
    BY <2>6 DEF chainVars, vars, outboxVars, Handled, OB!Committed
  <2>7. QED
    BY <2>2, <2>3, <2>4, <2>5, <2>6 DEF ChainNext, Promise!ALONext
<1>3. QED
  BY <1>1, <1>2, GroupInvariant, TableTyped, PartitionIsCommitted, PTL DEF ChainSpec, Promise!ALOSafety
================================================================================
