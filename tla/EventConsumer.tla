----------------------------- MODULE EventConsumer -----------------------------
(***************************************************************************)
(* A consumer group reading one partition of a topic: the Consume loop of  *)
(* the Kafka connector in every process of the group, and the part of the  *)
(* broker it relies on (assignment, fetching, fenced offset commits).      *)
(*                                                                         *)
(* A process fetches one record, calls the handler until it succeeds,      *)
(* commits the record's offset and only then lets the group rebalance.     *)
(* Any error ends the session; the next one resumes at the committed       *)
(* offset.  The broker may take the partition away from a process that is  *)
(* still working, which the process learns only when it next commits or    *)
(* polls.                                                                  *)
(***************************************************************************)
EXTENDS Naturals, Sequences, SequencesExt

CONSTANTS
    Messages,     \* what producers append
    Consumers,    \* processes of the group
    Crashable,    \* the processes whose context may be cancelled
    NoConsumer,   \* the partition is assigned to nobody
    MaxLog        \* bound on the length of the partition

ASSUME ConsumerAssumption ==
    /\ Crashable \subseteq Consumers
    /\ NoConsumer \notin Consumers
    /\ MaxLog \in Nat

VARIABLES
    log,        \* the partition
    committed,  \* offset of the last committed record, 0 for none
    assigned,   \* the member the broker has assigned the partition to
    phase,      \* phase[c]: where the Consume loop of c is
    position,   \* position[c]: offset of the last record c fetched
    member,     \* processes that believe the partition is theirs
    handled     \* offsets some handler call has returned nil for

vars == <<log, committed, assigned, phase, position, member, handled>>

Phase == {"closed", "polling", "handling", "committing", "stopped"}

Init ==
    /\ log = <<>>
    /\ committed = 0
    /\ assigned = NoConsumer
    /\ phase = [c \in Consumers |-> "closed"]
    /\ position = [c \in Consumers |-> 0]
    /\ member = {}
    /\ handled = {}

\* What is stored on the partition.
Logged == ToSet(log)

-----------------------------------------------------------------------------
(* The broker.                                                             *)

\* A producer's record is stored.
Produce(m) ==
    /\ Len(log) < MaxLog
    /\ log' = Append(log, m)
    /\ UNCHANGED <<committed, assigned, phase, position, member, handled>>

\* Mutant: a group without a committed offset starts at the end of the log.
AssignAtEnd(c) ==
    /\ assigned = NoConsumer
    /\ phase[c] = "polling"
    /\ assigned' = c
    /\ position' = [position EXCEPT ![c] = IF committed = 0 THEN Len(log) ELSE committed]
    /\ member' = member \cup {c}
    /\ UNCHANGED <<log, committed, phase, handled>>

\* Mutant: the committed offset is taken for the next one to read.
AssignOneTooFar(c) ==
    /\ assigned = NoConsumer
    /\ phase[c] = "polling"
    /\ assigned' = c
    /\ position' = [position EXCEPT ![c] = committed + 1]
    /\ member' = member \cup {c}
    /\ UNCHANGED <<log, committed, phase, handled>>

\* A rebalance gives the partition to a member that waits in a poll; it
\* starts from the committed offset (from the start if there is none).
Assign(c) ==
    /\ assigned = NoConsumer
    /\ phase[c] = "polling"
    /\ assigned' = c
    /\ position' = [position EXCEPT ![c] = committed]
    /\ member' = member \cup {c}
    /\ UNCHANGED <<log, committed, phase, handled>>

\* The member missed its heartbeats or held up a rebalance for too long.
Evict(c) ==
    /\ assigned = c
    /\ assigned' = NoConsumer
    /\ UNCHANGED <<log, committed, phase, position, member, handled>>

\* An evicted member finds out while it polls: BlockRebalanceOnPoll keeps the
\* revocation out of the time between a fetch and its Release.
Revoked(c) ==
    /\ phase[c] = "polling"
    /\ c \in member /\ assigned # c
    /\ member' = member \ {c}
    /\ UNCHANGED <<log, committed, assigned, phase, position, handled>>

-----------------------------------------------------------------------------
(* Connector.Consume and consumeKafkaSession.                              *)

\* openConsumer: a new client joins the group.
Open(c) ==
    /\ phase[c] = "closed"
    /\ phase' = [phase EXCEPT ![c] = "polling"]
    /\ UNCHANGED <<log, committed, assigned, position, member, handled>>

\* consumer.Release and consumer.Close: the client leaves the group and
\* forgets the record in hand.
Leave(c, next) ==
    /\ phase' = [phase EXCEPT ![c] = next]
    /\ member' = member \ {c}
    /\ assigned' = IF assigned = c THEN NoConsumer ELSE assigned

\* consumer.Next returns the record after the last one fetched.  A member
\* that was evicted without noticing still fetches.
Fetch(c) ==
    /\ phase[c] = "polling"
    /\ c \in member
    /\ position[c] < Len(log)
    /\ position' = [position EXCEPT ![c] = @ + 1]
    /\ phase' = [phase EXCEPT ![c] = "handling"]
    /\ UNCHANGED <<log, committed, assigned, member, handled>>

\* consumer.Next returns an error: the session is closed and reopened.
FetchFails(c) ==
    /\ phase[c] = "polling"
    /\ Leave(c, "closed")
    /\ UNCHANGED <<log, committed, position, handled>>

\* Mutant: the loop gives up on a record whose handler keeps failing.
HandleOnce(c) ==
    /\ phase[c] = "handling"
    /\ handled' \in {handled, handled \cup {position[c]}}
    /\ phase' = [phase EXCEPT ![c] = "committing"]
    /\ UNCHANGED <<log, committed, assigned, position, member>>

\* HandleWithRetry: the handler returned nil.  A failed call changes nothing:
\* it is repeated after the retry delay until the context ends.
Handle(c) ==
    /\ phase[c] = "handling"
    /\ handled' = handled \cup {position[c]}
    /\ phase' = [phase EXCEPT ![c] = "committing"]
    /\ UNCHANGED <<log, committed, assigned, position, member>>

\* CommitRecords succeeds: only for the member the partition is assigned to.
Commit(c) ==
    /\ phase[c] = "committing"
    /\ assigned = c
    /\ committed' = position[c]
    /\ phase' = [phase EXCEPT ![c] = "polling"]
    /\ UNCHANGED <<log, assigned, position, member, handled>>

\* Mutant: a failed commit is only logged and the session goes on.
CommitErrorIgnored(c) ==
    /\ phase[c] = "committing"
    /\ committed' \in {committed} \cup (IF assigned = c THEN {position[c]} ELSE {})
    /\ phase' = [phase EXCEPT ![c] = "polling"]
    /\ UNCHANGED <<log, assigned, position, member, handled>>

\* CommitRecords returns an error; if the partition is still the member's
\* the broker may have stored the offset all the same.
CommitFails(c) ==
    /\ phase[c] = "committing"
    /\ committed' \in {committed} \cup (IF assigned = c THEN {position[c]} ELSE {})
    /\ Leave(c, "closed")
    /\ UNCHANGED <<log, position, handled>>

\* The context is cancelled (Connector.Close or the caller): the loop returns
\* wherever it is, with a handled record left uncommitted if need be.
Stop(c) ==
    /\ c \in Crashable
    /\ phase[c] # "stopped"
    /\ Leave(c, "stopped")
    /\ UNCHANGED <<log, committed, position, handled>>

\* The process dies: the broker does not know yet.
Crash(c) ==
    /\ c \in Crashable
    /\ phase[c] # "stopped"
    /\ phase' = [phase EXCEPT ![c] = "stopped"]
    /\ member' = member \ {c}
    /\ UNCHANGED <<log, committed, assigned, position, handled>>

ConsumerStep(c) ==
    \/ Open(c) \/ Fetch(c) \/ FetchFails(c) \/ Handle(c) \/ Commit(c)
    \/ CommitFails(c) \/ Stop(c) \/ Crash(c)

BrokerStep(c) == Assign(c) \/ Evict(c) \/ Revoked(c)

Next ==
    \/ \E m \in Messages : Produce(m)
    \/ \E c \in Consumers : ConsumerStep(c) \/ BrokerStep(c)

Spec == Init /\ [][Next]_vars

-----------------------------------------------------------------------------
(* Properties.                                                             *)

\* Every variable has its type; offsets never point past the end of the log.
TypeOK ==
    /\ log \in Seq(Messages)
    /\ committed \in 0..Len(log)
    /\ assigned \in Consumers \cup {NoConsumer}
    /\ phase \in [Consumers -> Phase]
    /\ position \in [Consumers -> 0..Len(log)]
    /\ member \subseteq Consumers
    /\ handled \subseteq 1..Len(log)

\* A handover, a crash or a rewind at any moment skips no record and repeats at
\* most one: everything up to the committed offset was handled successfully by
\* some process (Commit comes after HandleWithRetry), and the member the
\* partition is assigned to is at most one record ahead of that offset (a
\* session does not go on after a commit that may have failed).
HandoverIsExact ==
    /\ 1..committed \subseteq handled
    /\ assigned \in member => position[assigned] <= committed + 1

\* A record is handled for the first time only after every earlier one of the
\* partition: the order of a partition survives redelivery and handovers.
FirstHandledInOrder == \A i \in handled : 1..i \subseteq handled
================================================================================
