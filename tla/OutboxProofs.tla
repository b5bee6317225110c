----------------------------- MODULE OutboxProofs -----------------------------
(***************************************************************************)
(* The safety of the outbox for any number of messages and publishers.    *)
(***************************************************************************)
EXTENDS Outbox, TLAPS

\* A claim hands out committed rows only, and they stay committed while the
\* publisher works on them, whoever else acts on the row meanwhile.
InHandCommitted ==
    \A p \in Publishers : batch[p] \cup sent[p] \cup failed[p] \subseteq Committed

\* A success is remembered only after the broker has the message.
SentIsOnBus == \A p \in Publishers : sent[p] \subseteq bus

\* Only a row that waits to be published can be leased.
LeasedIsPending == \A m \in Messages : owner[m] # NoOwner => status[m] = "pending"

IInv ==
    /\ TypeOK
    /\ LeasedIsPending
    /\ PublishedIsOnBus
    /\ NothingUncommittedOnBus
    /\ InHandCommitted
    /\ SentIsOnBus

-----------------------------------------------------------------------------

\* Every reachable state of the outbox is well typed, and a row has a lease
\* owner exactly when it has a lease (the CHECK of migration 000017).
THEOREM TypeCorrect == Spec => []TypeOK
<1> USE OutboxAssumption DEF rowVars, Status
<1>1. Init => TypeOK
  BY DEF Init, TypeOK
<1>2. TypeOK /\ [Next]_vars => TypeOK'
  <2> SUFFICES ASSUME TypeOK, [Next]_vars PROVE TypeOK'
    OBVIOUS
  <2>1. ASSUME NEW m \in Messages, Insert(m) \/ Commit(m) \/ Rollback(m) PROVE TypeOK'
    BY <2>1 DEF Insert, Commit, Rollback, TypeOK
  <2>2. ASSUME NEW m \in Messages, LeaseExpires(m) \/ BecomesDue(m) PROVE TypeOK'
    <3>1. CASE LeaseExpires(m)
      BY <3>1 DEF LeaseExpires, TypeOK
    <3>2. CASE BecomesDue(m)
      BY <3>2 DEF BecomesDue, TypeOK
    <3>3. QED
      BY <2>2, <3>1, <3>2
  <2>3. ASSUME NEW p \in Publishers, Claim(p) PROVE TypeOK'
    <3>1. PICK S \in SUBSET Messages : Claimed(p, S) /\ batch' = [batch EXCEPT ![p] = S]
      BY <2>3 DEF Claim
    <3>2. QED
      BY <2>3, <3>1 DEF Claim, Claimed, TypeOK
  <2>4. ASSUME NEW p \in Publishers, ClaimLost(p) PROVE TypeOK'
    <3>1. PICK S \in SUBSET Messages : Claimed(p, S)
      BY <2>4 DEF ClaimLost
    <3>2. QED
      BY <2>4, <3>1 DEF ClaimLost, Claimed, TypeOK
  <2>5. ASSUME NEW p \in Publishers, NEW m \in Messages, Record(p, m) PROVE TypeOK'
    BY <2>5 DEF Record, Recorded, MarkPublished, MarkFailed, TypeOK
  <2>6. ASSUME NEW p \in Publishers, NEW m \in Messages, RecordFails(p, m) PROVE TypeOK'
    BY <2>6 DEF RecordFails, Recorded, TypeOK
  <2>7. ASSUME NEW p \in Publishers, Cleanup(p) PROVE TypeOK'
    BY <2>7 DEF Cleanup, TypeOK
  <2>8. ASSUME NEW p \in Publishers, Stop(p) PROVE TypeOK'
    BY <2>8 DEF Stop, TypeOK
  <2>9. ASSUME NEW p \in Publishers, NEW m \in Messages, Publish(p, m) \/ PublishFails(p, m)
        PROVE TypeOK'
    BY <2>9 DEF Publish, PublishFails, Process, TypeOK
  <2>10. CASE UNCHANGED vars
    BY <2>10 DEF vars, TypeOK
  <2>11. QED
    BY <2>1, <2>2, <2>3, <2>4, <2>5, <2>6, <2>7, <2>8, <2>9, <2>10 DEF Next
<1>3. QED
  BY <1>1, <1>2, PTL DEF Spec

\* Committing is final: no step of the table, a publisher or the clock takes a
\* committed row back to an open or rolled back transaction.
LEMMA CommittedGrows ==
    ASSUME TypeOK, [Next]_vars
    PROVE  Committed \subseteq Committed'
<1> USE OutboxAssumption DEF rowVars, Status, TypeOK, Committed
<1>1. ASSUME NEW m \in Messages, Insert(m) \/ Commit(m) \/ Rollback(m)
      PROVE Committed \subseteq Committed'
  BY <1>1 DEF Insert, Commit, Rollback
<1>2. ASSUME NEW m \in Messages, LeaseExpires(m) \/ BecomesDue(m)
      PROVE Committed \subseteq Committed'
  BY <1>2 DEF LeaseExpires, BecomesDue
<1>3. ASSUME NEW p \in Publishers, Claim(p) \/ ClaimLost(p) \/ Cleanup(p) \/ Stop(p)
      PROVE Committed \subseteq Committed'
  BY <1>3 DEF Claim, ClaimLost, Claimed, Cleanup, Stop
<1>4. ASSUME NEW p \in Publishers, NEW m \in Messages,
             Publish(p, m) \/ PublishFails(p, m) \/ Record(p, m) \/ RecordFails(p, m)
      PROVE Committed \subseteq Committed'
  BY <1>4 DEF Publish, PublishFails, Process, Record, RecordFails, Recorded,
              MarkPublished, MarkFailed
<1>5. CASE UNCHANGED vars
  BY <1>5 DEF vars
<1>6. QED
  BY <1>1, <1>2, <1>3, <1>4, <1>5 DEF Next

\* The inductive step: the two bus invariants together with what a publisher
\* holds between reading a row and recording its outcome.
LEMMA InvariantStep ==
    ASSUME IInv, TypeOK', [Next]_vars
    PROVE  IInv'
<1> USE OutboxAssumption DEF rowVars, Status
<1>0. TypeOK /\ LeasedIsPending /\ PublishedIsOnBus /\ NothingUncommittedOnBus /\ InHandCommitted /\ SentIsOnBus
  BY DEF IInv
<1> DEFINE Rest == /\ LeasedIsPending /\ PublishedIsOnBus /\ NothingUncommittedOnBus
                   /\ InHandCommitted /\ SentIsOnBus
<1> USE DEF LeasedIsPending, PublishedIsOnBus, NothingUncommittedOnBus, InHandCommitted, SentIsOnBus, Committed
<1>1. ASSUME NEW m \in Messages, Insert(m) \/ Commit(m) \/ Rollback(m) PROVE Rest'
  BY <1>0, <1>1 DEF Insert, Commit, Rollback, TypeOK
<1>2. ASSUME NEW m \in Messages, LeaseExpires(m) \/ BecomesDue(m) PROVE Rest'
  BY <1>0, <1>2 DEF LeaseExpires, BecomesDue, TypeOK
<1>3. ASSUME NEW p \in Publishers, Claim(p) PROVE Rest'
  <2>1. PICK S \in SUBSET Messages : Claimed(p, S) /\ batch' = [batch EXCEPT ![p] = S]
    BY <1>3 DEF Claim
  <2>2. \A m \in S : status[m] = "pending" /\ m \in Committed'
    BY <2>1 DEF Claimed, Claimable
  <2>3. QED
    BY <1>0, <1>3, <2>1, <2>2 DEF Claim, Claimed, TypeOK
<1>4. ASSUME NEW p \in Publishers, ClaimLost(p) PROVE Rest'
  <2>1. PICK S \in SUBSET Messages : Claimed(p, S)
    BY <1>4 DEF ClaimLost
  <2>2. \A m \in S : status[m] = "pending"
    BY <2>1 DEF Claimed, Claimable
  <2>3. QED
    BY <1>0, <1>4, <2>1, <2>2 DEF ClaimLost, Claimed, TypeOK
<1>5. ASSUME NEW p \in Publishers, NEW m \in Messages, Record(p, m) PROVE Rest'
  <2>1. CASE m \in sent[p] /\ MarkPublished(p, m)
    <3>1. m \in bus
      BY <1>0, <2>1
    <3>2. QED
      BY <1>0, <1>5, <2>1, <3>1 DEF Record, Recorded, MarkPublished, Holds, TypeOK
  <2>2. CASE m \in failed[p] /\ MarkFailed(p, m)
    BY <1>0, <1>5, <2>2 DEF Record, Recorded, MarkFailed, TypeOK
  <2>3. QED
    BY <1>5, <2>1, <2>2 DEF Record
<1>6. ASSUME NEW p \in Publishers, NEW m \in Messages, RecordFails(p, m) PROVE Rest'
  BY <1>0, <1>6 DEF RecordFails, Recorded, TypeOK
<1>7. ASSUME NEW p \in Publishers, Cleanup(p) PROVE Rest'
  BY <1>0, <1>7 DEF Cleanup, TypeOK
<1>8. ASSUME NEW p \in Publishers, Stop(p) PROVE Rest'
  BY <1>0, <1>8 DEF Stop, TypeOK
<1>9. ASSUME NEW p \in Publishers, NEW m \in Messages, Publish(p, m) \/ PublishFails(p, m)
      PROVE Rest'
  <2>1. m \in Committed
    BY <1>0, <1>9 DEF Publish, PublishFails, Process
  <2>2. status[m] \in {"pending", "published", "deleted"}
    BY <1>0, <2>1 DEF TypeOK
  <2>3. QED
    BY <1>0, <1>9, <2>1, <2>2 DEF Publish, PublishFails, Process, TypeOK
<1>10. ASSUME UNCHANGED vars PROVE Rest'
  BY <1>0, <1>10 DEF vars
<1> HIDE DEF Rest, LeasedIsPending, PublishedIsOnBus, NothingUncommittedOnBus, InHandCommitted,
            SentIsOnBus
<1>11. Rest'
  BY <1>1, <1>2, <1>3, <1>4, <1>5, <1>6, <1>7, <1>8, <1>9, <1>10 DEF Next
<1>12. QED
  BY <1>11 DEF IInv, Rest

LEMMA Invariant == Spec => []IInv
<1>1. Init => IInv
  <2>1. Init => TypeOK
    BY OutboxAssumption DEF Init, TypeOK, Status
  <2>2. Init => LeasedIsPending /\ PublishedIsOnBus /\ NothingUncommittedOnBus /\ SentIsOnBus
    BY DEF Init, LeasedIsPending, PublishedIsOnBus, NothingUncommittedOnBus, SentIsOnBus
  <2>3. Init => InHandCommitted
    BY DEF Init, InHandCommitted
  <2>4. QED
    BY <2>1, <2>2, <2>3 DEF IInv
<1>2. IInv /\ TypeOK' /\ [Next]_vars => IInv'
  BY InvariantStep
<1>3. QED
  BY <1>1, <1>2, TypeCorrect, PTL DEF Spec

\* No message is lost between Publish and MarkPublished: a row that is marked,
\* or already swept away, is on the bus.
THEOREM NothingLost == Spec => []PublishedIsOnBus
BY Invariant, PTL DEF IInv

\* No message of an open or rolled back transaction reaches the bus.
THEOREM NothingPremature == Spec => []NothingUncommittedOnBus
BY Invariant, PTL DEF IInv

\* A live lease ends only by running out or by its holder's own record, so a
\* publisher that was overtaken never touches the row of the new holder.
THEOREM LeaseIsFenced == Spec => LeaseFenced
<1> USE OutboxAssumption DEF rowVars, LeaseFenceStep, TypeOK, LeasedIsPending
<1>1. ASSUME TypeOK, LeasedIsPending, Next, NEW q \in Publishers, NEW n \in Messages
      PROVE  LeaseFenceStep(q, n)
  <2>1. ASSUME NEW m \in Messages, Insert(m) \/ Commit(m) \/ Rollback(m)
        PROVE LeaseFenceStep(q, n)
    BY <1>1, <2>1 DEF Insert, Commit, Rollback
  <2>2. ASSUME NEW m \in Messages, LeaseExpires(m) PROVE LeaseFenceStep(q, n)
    BY <1>1, <2>2 DEF LeaseExpires
  <2>3. ASSUME NEW m \in Messages, BecomesDue(m) PROVE LeaseFenceStep(q, n)
    BY <1>1, <2>3 DEF BecomesDue
  <2>4. ASSUME NEW p \in Publishers, Claim(p) \/ ClaimLost(p) PROVE LeaseFenceStep(q, n)
    <3>1. PICK S \in SUBSET Messages : Claimed(p, S)
      BY <2>4 DEF Claim, ClaimLost
    <3>2. lease[n] = "live" => n \notin S
      BY <3>1 DEF Claimed, Claimable
    <3>3. QED
      BY <1>1, <3>1, <3>2 DEF Claimed
  <2>5. ASSUME NEW p \in Publishers, NEW m \in Messages, Record(p, m) PROVE LeaseFenceStep(q, n)
    BY <1>1, <2>5 DEF Record, Recorded, MarkPublished, MarkFailed, Holds
  <2>6. ASSUME NEW p \in Publishers, NEW m \in Messages,
               RecordFails(p, m) \/ Publish(p, m) \/ PublishFails(p, m)
        PROVE LeaseFenceStep(q, n)
    BY <1>1, <2>6 DEF RecordFails, Publish, PublishFails, Process
  <2>7. ASSUME NEW p \in Publishers, Cleanup(p) PROVE LeaseFenceStep(q, n)
    <3>1. PICK S \in SUBSET {m \in Messages : status[m] = "published"} :
            status' = [m \in Messages |-> IF m \in S THEN "deleted" ELSE status[m]]
      BY <2>7 DEF Cleanup
    <3>2. QED
      BY <1>1, <2>7, <3>1 DEF Cleanup
  <2>8. ASSUME NEW p \in Publishers, Stop(p) PROVE LeaseFenceStep(q, n)
    BY <1>1, <2>8 DEF Stop
  <2>9. QED
    BY <1>1, <2>1, <2>2, <2>3, <2>4, <2>5, <2>6, <2>7, <2>8 DEF Next
<1> HIDE DEF LeaseFenceStep, TypeOK, LeasedIsPending
<1>2. IInv /\ [Next]_vars => [\A p \in Publishers, m \in Messages : LeaseFenceStep(p, m)]_vars
  BY <1>1 DEF IInv
<1>3. QED
  BY <1>2, Invariant, PTL DEF Spec, LeaseFenced

\* The outbox implements the hand-over it promises: every step accepts a
\* message, delivers an accepted one, or changes neither.
THEOREM Implements == Spec => PromiseSafety
<1>1. Init => Promise!ALOInit
  BY DEF Init, Promise!ALOInit, Committed
<1>2. IInv /\ TypeOK' /\ [Next]_vars => [Promise!ALONext]_(Promise!aloVars)
  <2> SUFFICES ASSUME IInv, TypeOK', [Next]_vars
               PROVE  [Promise!ALONext]_(Promise!aloVars)
    OBVIOUS
  <2> USE OutboxAssumption DEF rowVars, Promise!aloVars
  <2>0. TypeOK
    BY DEF IInv
  <2>1. ASSUME NEW m \in Messages, Insert(m) \/ Rollback(m) PROVE UNCHANGED <<Committed, bus>>
    BY <2>0, <2>1 DEF Insert, Rollback, Committed, TypeOK
  <2>2. ASSUME NEW m \in Messages, Commit(m) PROVE Promise!Accept(m)
    BY <2>0, <2>2 DEF Commit, Committed, TypeOK, Promise!Accept
  <2>3. ASSUME NEW m \in Messages, LeaseExpires(m) \/ BecomesDue(m)
        PROVE UNCHANGED <<Committed, bus>>
    BY <2>3 DEF LeaseExpires, BecomesDue, Committed
  <2>4. ASSUME NEW p \in Publishers, Claim(p) \/ ClaimLost(p) \/ Cleanup(p) \/ Stop(p)
        PROVE UNCHANGED <<Committed, bus>>
    BY <2>0, <2>4 DEF Claim, ClaimLost, Claimed, Cleanup, Stop, Committed, TypeOK
  <2>5. ASSUME NEW p \in Publishers, NEW m \in Messages, Record(p, m) \/ RecordFails(p, m)
        PROVE UNCHANGED <<Committed, bus>>
    BY <2>0, <2>5 DEF Record, RecordFails, Recorded, MarkPublished, MarkFailed, Holds,
                      Committed, TypeOK
  <2>6. ASSUME NEW p \in Publishers, NEW m \in Messages, Publish(p, m) \/ PublishFails(p, m)
        PROVE Promise!Deliver(m) \/ UNCHANGED <<Committed, bus>>
    <3>1. m \in Committed
      BY <2>6 DEF IInv, InHandCommitted, Publish, PublishFails, Process
    <3>2. UNCHANGED Committed
      BY <2>6 DEF Publish, PublishFails, Process, Committed
    <3>3. QED
      BY <2>6, <3>1, <3>2 DEF Publish, PublishFails, Promise!Deliver
  <2>7. CASE UNCHANGED vars
    BY <2>7 DEF vars, Committed
  <2>8. QED
    BY <2>1, <2>2, <2>3, <2>4, <2>5, <2>6, <2>7 DEF Next, Promise!ALONext
<1>3. QED
  BY <1>1, <1>2, TypeCorrect, Invariant, PTL DEF Spec, PromiseSafety, Promise!ALOSafety
================================================================================
