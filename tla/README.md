# Verification of the CMS kernel

TLA+ models of the parts of `go-cms-kernel` in which several processes, goroutines, transactions or messages act on the
same state; TLC configurations that check them on small instances; and proofs, checked by TLAPS, of the properties that
matter most. Paths below are relative to the repository (`PROJECT.json` names the lines each definition stands for).

1. [Inventory](#1-inventory)
2. [Modules](#2-modules)
3. [Runs](#3-runs)
4. [Fairness](#4-fairness)
5. [Proofs](#5-proofs)
6. [Findings and known limits](#6-findings-and-known-limits)
7. [Plan](#7-plan)

## 1. Inventory

The kernel runs as any number of identical processes over one PostgreSQL database, an event bus (Kafka), caches, and
storage disks. In every process `App.Boot` compiles profiles, loads the sites, builds one *runtime* per site (the
instances of the modules for that site) and starts the workers: outbox publishers, job runners, background tasks,
the synchronisation of sites. A mutation of a site builds the next runtime, asks the modules whether the old one
may go, commits, and publishes a new snapshot.

### Parts that are modelled

| Part | State | Operations | Interacts with | Hard behaviour | Correct when |
|---|---|---|---|---|---|
| **Transactional outbox** (`outbox/outbox.go`, `modules/core/adapters/postgres/outbox.go`) | rows of `core.outbox_messages`: pending, lease owner and end, `available_at`, published; per publisher the batch in hand | insert in a business transaction, `Claim` under SKIP LOCKED, publish, `MarkPublished`, `MarkFailed`, `CleanupPublished` | business transactions of mail, forms and core write rows; the bus takes the records | the process dies between the broker's acknowledgement and the mark; a lease runs out while its owner works; the answer of a commit is lost | nothing committed is lost, nothing uncommitted is published, only the owner of a lease settles its row |
| **Event bus consumer** (`connectors/kafkaeventbus`, `eventbusutil`) | committed offset and assignment at the broker; session, position and phase in every process | `Consume`: open, fetch one record, `HandleWithRetry`, commit, release; reopen after an error | the broker assigns, evicts and fences; handlers are job runners and hook runners | eviction in the middle of a handler, failed commits, redelivery | no record is skipped or overtaken, offsets never go back, a handover repeats at most one record |
| **Jobs and message path** (`job/job.go`, `app/boot.go`) | none beside the two above | `Runner.Handle`, `dispatchRuntimeJob` | outbox → bus → consumer → module | the whole chain with stops at every point | what a transaction committed is handled, and nothing else |
| **Mail delivery** (`modules/mail`) | messages and attempts in the database, transient attachments on the spool disk, the lifecycle gate of a runtime | queue (manual or by code), worker claim / send / finish, delete, retention, spool sweep, drain | job records, the site catalog (transition of a runtime), background tasks (sweep, retention) | lost result of an attempt, a late worker, a sweep that races with a queue call, a drain that races with both | a message has one attempt at a time, attachments live as long as they are needed and no longer, a retired runtime leaves nothing unsent |
| **Forms action executions** (`modules/forms`) | result, upload bytes and rows, executions, the gate | `Submit`, `ChangeResultStatus`, `DeleteResult`, worker claim / run / finish, upload cleanup and sweep, drain | as for mail | several executions share uploads; a busy execution must keep its job | every execution is settled, uploads are kept until the last execution that needs them |
| **Background tasks of site runtimes** (`app/background.go`, `background/`) | desired tasks, running instances with their cancel functions and done channels | publish, apply, run, shutdown | preparer of the site catalog; `App.Close` | a runtime is replaced before its task has been scheduled; shutdown during a publication | at most one instance of a task that is not cancelled, none forgotten, nothing outlives the manager |
| **Site catalog** (`modules/core/site`, `app/site_sync.go`) | `core.sites` with `runtime_version`; in every process a snapshot by id and by domain, under `mutationMu` | `Create` (with rollback), `Update`, `PrepareFileOccurrence`, `Delete`, `Synchronize`, `Reload`, `CheckCurrent` | preparers (background tasks, hooks, cache targets), drains of mail and forms, every request | several processes edit from snapshots of different ages; lost answers of commits | requests are served only from current runtimes, no update is lost, snapshots converge |
| **Repository coherence** (`modules/core/repository_coherence.go`, `repository_cache.go`, `resource_cache_split.go`) and **cache layer** (`cache/`, filesystem and Redis connectors) | cached entries under tag tokens; per process 64 striped locks by tag and the load locks of a store | cached reads (`ByID`, `ByPath`, lists, routes, library items), every mutation of sites, resources, library items and files, `Prepare`, `LockLoad`, `InvalidateTag`, fan-out by the coordinator | all readers of sites and resources; file deletion; targets of the site catalog | a load that crosses a commit and its invalidation, in one process or two; a tree that moves between sites while it is read; an invalidation that fails | nothing stale is stored for longer than the writer needs to announce it, and a process sees its own writes |
| **Entity hooks** (`entityhooks/`, `app/entity_hooks.go`) | durable calls with a two-minute lease, a registry per runtime with its users in progress | mutation with `Begin` / `Append`, `Handle` with claim, complete and fail, `Drain`, the check of pending calls, `ValidatePending`, `Cleanup` | outbox and bus carry the events, the site catalog asks for the drain | redelivery beside a live handler, lost claims and results, a drain that races with mutations and deliveries, restarts | a handler runs once at a time and never after completion, an event is acknowledged only when its calls are done, no transition strands a call |
| **File deletion and media occurrences** (`modules/core/file_deletion.go` with adapters, `site/file_deletion.go`) | references of owners, the media and its row, pending deletions, bytes on disks; `mutationMu`, cache locks and the media lock | `Delete` (preflight, locks, transaction, publication, cleanup), `RetryPending`, what updates do to references | site catalog, cache locks, resources | locks of three kinds in one order, an ambiguous commit, a process that dies between commit and physical deletion | every request ends, a published runtime was stored, what is deleted goes everywhere |

### Parts that are not modelled

| Part | State and operations | Hard behaviour, if any | Status |
|---|---|---|---|
| **Resources, routes and library items** (`modules/core/resource`) | the tree, routes, mirrors, revisions, widgets with versions | two advisory locks; prospective namespaces that overlap | what mutations do to the tree is in `CacheCoherence`; the route namespace is next on the plan |
| **Application lifecycle** (`app/boot.go`, `app/close.go`) | boot order, workers, shutdown | workers stop before the connectors close | the start of workers is in `Messaging`, their stop in `BackgroundTasks`; the boot itself is planned |
| **Files and media** | the file tree under one advisory lock | single transactions | only with file deletion |
| **Users, groups and access; authentication** | accounts, sessions, permissions; tokens | single statements; cryptography and wire formats | not planned, except the session version |
| **Forms schema; mail templates and rendering** | definitions, templates, the in-memory rate limiter | sequential CRUD | not planned |
| **Profiles and module composition** | compiled profiles | sequential and deterministic at boot and mutation | not planned |
| **HTTP transport, management API, administration** | none of their own | the version check of a request is in `SiteCatalog` | not planned |
| **Fields, templates, widgets; images; search and SEO; resource views** | pure functions, rendering, queries, counters | none that a model checker reaches | not planned |
| **Storage and logging connectors; migrations, seeds, console, configuration** | external services; run by an operator | none | not planned |

`PROJECT.json` lists the sources of every part and, under `hazards`, the places where the code is hard to test, each
with the property that covers it or the reason why none does.

## 2. Modules

```
AtLeastOnce          what a hand-over promises (abstract)
  ^ implemented by
Outbox    Messaging = EventConsumer + an INSTANCE of Outbox on one partition
MailDelivery         FormsExecution         BackgroundTasks        SiteCatalog
CacheCoherence       EntityHooks            FileDeletion
<module>Proofs       theorems about a module (those about EventConsumer are in MessagingProofs,
                     those about BackgroundTasks and EntityHooks in AppProofs)
MC<module>           constants of the instances TLC checks
```

**`AtLeastOnce`** – two sets. What is accepted is delivered, nothing else is, neither is taken back; repeating a
delivery is a stuttering step. `Outbox` implements it with the committed rows as accepted and the bus as delivered,
`Messaging` with the committed rows and the handled messages.

**`Outbox`** – `status`, `owner`, `lease`, `due` are the columns of a row, read by `Claimable` as the WHERE clause of
the claim does. `Insert`, `Commit`, `Rollback` are any business transaction that writes a row; `Claim` is the claiming
statement with SKIP LOCKED, `ClaimLost` the claim whose answer does not arrive. `Publish` / `PublishFails` are the call to
the bus, which may fail after the broker took the record; `Record` / `RecordFails` are `MarkPublished` or `MarkFailed`
under the `lease_owner` guard (`Holds`). Clocks are abstract: a lease may run out (`LeaseExpires`) and a delay may
end (`BecomesDue`) at any moment, which covers every length of lease, delay and call.

**`EventConsumer`** – one partition. `phase` follows `Consume` / `consumeKafkaSession` (closed, polling, handling,
committing, stopped), `position` is what the session has fetched, `member` who believes the partition is its own.
The broker is modelled from what the connector relies on: `Assign` starts at the committed offset, `Evict` takes the
partition away from a process that notices only at its next call (`Revoked`, a fenced commit). `Crash` ends a
process without any of the calls a stopping one makes.

**`Messaging`** extends the consumer and instantiates the outbox; the partition is the bus of the outbox, and a
publication that fails may have stored the record. Each step of the composition is a step of one of them.

**`MailDelivery`** – one site with several *runtimes*: one in every process, or the old and the new one in a process.
Rows (`status`, `attempts`, `open`, `expired`) and the spool are shared, the gate is of the runtime. `Put`, `QueueDone`
and `QueueFails` are `queueActive` around `CreateMessageAndJob`; `TakeJob` to `FinishFails` are `Worker.Handle`,
with `Send` outside every transaction; `BeginDrain`, `CheckActive`, `Purge`, `Transition` are
`PrepareRuntimeTransition` and what the catalog does with it; `SweepScan` and `SweepDelete` are the two halves of
`AttachmentSpool.Cleanup`. Every message has one transient attachment.

**`FormsExecution`** – one submission with its executions. `Submitted` executions come with the result, the others
with a later status change. `SpoolUploads` happens before the gate is entered, `CreateResult` inside it. `DeleteCheck`
and `DeleteResult` are two statements of one transaction that read committed data.

**`BackgroundTasks`** – one task of one site over the runtimes 1, 2, ...; `StoreSnapshot` is the catalog's
publication, which blocks until the manager has applied it or is stopping; `Apply` the manager's loop; `Start`,
`GiveUp`, `RunReturns`, `PauseEnds` the goroutine of an instance. Tasks of other sites and names have keys of
their own and do not meet. The specification is `TasksSpec` (with `TasksInit`, `TasksNext` and so on), so that `AppProofs` can
extend this module together with `EntityHooks`.

**`SiteCatalog`** – the table and, per process, `byID` and `byDomain`. `Lock` is `mutationMu`: a mutation holds it from
`BeginX` (checks on the snapshot, next runtime built, preparations made) over `Store` (the SQL) to `Publish`; `Reload`
from `List` to `PublishListed`. `StoreFails` covers both the failed statement and the commit whose answer is lost.
`RollbackCreated` is `rollbackCreatedSite`, which may fail. `ReadVersions` and `Compare` are the two halves of
`Synchronize`; between them anything may happen. A process boots by a `Reload`. A site that is not `sound` is accepted by
the schema, and no runtime can be built from it.

**`CacheCoherence`** – any number of readers and writers in several processes, and one cache key at a time, since entries
of different keys do not meet. `existing` are the sites with a row, `rows` and `parent` the tree and its sites; the recursive query of the code that walks up
from a resource is `Ancestors`, stated without recursion as what every set closed under `parent` contains. A mutation is a record: its kind, the
resource, where it was found and where it goes; kinds with the same locks, tags and effect are one. `Locked`,
`Invalidated` and `Touched` are the tables a reader of `repository_coherence.go` would draw: the tags locked, the tags
invalidated, and the resources whose stored data the statement really changes: every update stamps all descendants of its
resource, a new order gives siblings their positions, and the deletion of a site (`siteDelete`; a created site counts as an updated
one) takes its resources along by the foreign keys.
`Begin` / `Lock` and `BeginLocked` are the two ways to start (with or without a read before the locks), `Commit` and
`Invalidate` the two steps under `withRepositoryCacheWrite`; `Prepare`, `Load`, `LoadForeign` and `Store` those of a read. Tokens
are abstracted by what they decide: a capture is `dead` from the first invalidation of one of its tags.
Three history fields serve the properties only: `behind` (the rows have changed since the load), `owner`, and `missed`, why no
invalidation will reach the capture: `failed` (an invalidation of one of its tags went wrong), `descendant` and `position` (an update of
an ancestor or sibling, which announces the resource of the call alone), `transferred` (the mutation knew the resource in the site it
has left). `Excuse` gives the last three, and only to values that the tags of the mutation do not reach.

**`EntityHooks`** – one site. `FindRuntime`, `Pin`, `CommitMutation` are a mutation around `Append`; `Receive` to `Finish`
one delivery in `Runner.Handle`; `Drain`, `CheckPending`, `Publish`, `AbortTransition` the preparer and what the catalog
does with it, for an update of the site or a synchronisation with what another process stored; `Boot` the check at
start. A version of the site stands for a profile with its after-handlers. `lease` names the process of the attempt, `Lost` for an
attempt that is over, whose owner token nobody holds any more.

**`FileDeletion`** – one media with its bytes, a site and a resource that may refer to it. `locks` is the list of process
locks a request has still to take, in the order `LockOrder` gives; the transaction is `BeginTransaction` to `Commit` or
`CommitLost`, and `CheckCommitted` / `CheckFails` are the look at the durable operation after an ambiguous commit. `Clean`,
`RetryCleans`, `RetryFails` are the physical deletion. `BeginUpdate` to `PublishUpdate` are `Catalog.Update`, which takes
the same locks, and `UpdateResource` is any update of the resource.

## 3. Runs

| Run | Instance | Shows |
|---|---|---|
| `outbox` | 2 messages, 2 publishers, one may stop anywhere, batches of 2 | `PublishedIsOnBus`, `LeaseFenced`, `SettledOnceLeasesHold`, and that `Outbox` implements `AtLeastOnce` with its liveness |
| `messaging` | 1 message stored up to 3 times, 1 publisher, 2 processes, one may stop or crash | `HandoverIsExact`, `FirstHandledInOrder`, and the refinement over the whole chain (`ChainIsAtLeastOnce`) |
| `mail_delivery` | 1 message, 2 runtimes, 2 attempts; the first runtime serves requests, may crash and be drained | `OneAttemptAtATime`, `AttachmentKept`, `RetiredLeavesNothing`, `OrphansSwept`, `WaitingIsTried` |
| `mail_stuck` | 1 message, 1 runtime, no crash | a message that is sent for ever: finding 1 |
| `forms` | an execution of the submission and one of a status change, 2 attempts, 1 runtime that serves, may crash and be drained | `NothingStranded`, `UploadsKept`, `ActiveIsSettled` |
| `forms_fence` | 1 execution, 2 runtimes, 3 attempts | a claim within the lease: finding 2 |
| `background` | 4 runtimes of a site | `NoInstanceForgotten`, `CurrentTaskRuns`, `CancelledEnds` |
| `catalog` | 2 processes, one may restart at any moment, 1 site, 2 domains, versions up to 3 | `AdmittedIsCurrent`, `MapsAgree`, `UpdatesBuildOnCurrent`, `NeverGoesBack`, `Converges` |
| `cache` | a reader and a writer in one process, a writer in another, 2 sites, 2 resources, a library item, 2 mutations of any kind, any key | `StaleIsAnnounced`, `OwnWritesAreSeen` |
| `cache_stamps` | the same, any key, 1 mutation | a descendant (or sibling) that an update changes and does not announce: finding 3 |
| `hooks` | 2 processes, one may stop, an event with 2 handlers, 3 versions of the site | `OneHandlerAtATime`, `AckedIsDone`, `RecorderKeepsHandler` |
| `files` | 2 processes, one may stop, a request to delete in it, site updates in both, versions up to 3 | `RuntimeIsStored`, `DeletionsEnd`, `DeletionTakesEffect` |

Every module but `Messaging` has a type invariant, checked by its first run (the consumer's by `messaging`).

**Why the bounds are enough to be interesting.** Two publishers, consumers or workers are what it takes to take a
lease or a partition over from somebody who comes back; a third adds nobody with a new role, since all of them
only meet in the row or the offset. A row, a message or an execution is settled on its own, except where they
share something: two rows meet in one batch, two executions share uploads, copies of a record share the order of the
partition – these runs have two or more. Two attempts give a first, a repeated and a refused
claim; `forms_fence` needs a third to be claimed beside the second. In `forms` one runtime does the work, so an attempt is taken over after
a crash; two workers side by side meet in `forms_fence`, and `NothingStranded` and `UploadsKept` are proved for any number of them. Four runtimes allow a replacement of an instance that
still waits for one that still waits. Version 3 of a site is the first that can be reached from two older snapshots.
Sites of the catalog meet only in their domains; that they keep apart is proved for any number of them (section 5), so one
site is enough for what is live. The first mutation of `cache` can move the tree away under a load or a second mutation that
has already begun; at first the item is in a library at the root of one site and the other site is empty (`MCInit`), and mutations reach
the rest, deeper trees and trees in both sites included. Three resources give a sibling, a child and an item of a library. The versions of
`hooks` are a rebuild that drops a handler and a change of the profile. The three versions of `files` are
two changes of the site, one before and one after the deletion or the deletion itself.

**Symmetry** is used in the cache runs alone (sites; resources of the tree). It checks invariants only, and the specification
tells the members apart nowhere.

**Deadlock** is checked where the system never stops (`messaging`, `catalog`, `hooks`, `files`): there, a state in which
nobody can move would be a real one. It is switched off where all work may
really be done or the instance be used up: in `outbox` all rows are published and removed, in mail and forms
everything is settled, deleted or retired, in `background` the manager has returned, and in the cache runs the mutations are
used up and the entry is stored.

## 4. Fairness

Weak fairness is assumed of steps a goroutine takes when it is scheduled (open a session, hand a record to the
handler, apply an update, return from a call), of timers, and of tasks that return once their context is
cancelled, which is the contract of `background.Task`. Strong fairness is assumed where the step needs somebody
else who may be away now and then but not for ever: the database and the broker answer some of infinitely many
calls, the partition is not taken away each time before the commit, a handler does not fail for ever (one that
does blocks its partition, which is what `HandleWithRetry` means to do), a record is also delivered at times at which
no drain is under way, and a preparation refuses a reload only as long as what it waits for is not done. The
claim orders by `available_at`, so no row is passed over for ever. At least one publisher and one process of the group
is never stopped; no fairness is assumed of crashes, evictions, users, retention or failures. In `FileDeletion`
requests and updates that have begun go on, Go's mutexes are handed over in turn (strong fairness of taking one, while
others take it now and then), `RetryPending` comes back every five seconds in every process, and a disk that fails is not
broken for ever. A process that has stopped need not start again; another one does the work. `RetryPending` synchronises the
sites before it looks for pending deletions and returns when that fails (`file_deletion.go:185`), so the fairness of `RetryCleans`
and of the synchronisation also assumes that a process that keeps running can, some day, build every stored site: **one site that
cannot be built stalls the cleanup of the files of all sites**, and `DeletionTakesEffect` says nothing of that case.

`WaitingIsTried` is stated for the first attempt, and for a later one only while the job record is still to come: with two
workers, one may acknowledge the job because the other is sending, and that one may then die. This is finding 1 again.
Nothing live is claimed of `EntityHooks`: the gates of a registry belong to a process, so a process can hold the
partition of an event whose handler its newer runtime no longer has, while the process that has the handler
is refused its transition.

`SettledOnceLeasesHold` and `Converges` have premises. A row is marked as published only if its publisher is, in the
end, faster than its lease. A catalog converges only if every stored site can be built: one row without a runtime
makes every reload of every process fail, see below.

## 5. Proofs

Every theorem holds for all values of the constants that satisfy the assumptions at the end of this section. The
proofs have the same shape throughout: an inductive invariant (`IInv` or its named parts), one lemma for each kind of
step, the invariant by PTL, and the theorems as what it implies.

| Module | Theorems (property of a run) | Beyond the runs |
|---|---|---|
| `OutboxProofs` | `TypeCorrect`, `NothingLost` (`PublishedIsOnBus`), `LeaseIsFenced` (`LeaseFenced`) | `NothingPremature`, `Implements` |
| `MessagingProofs` | `TypeCorrect`, `HandoversAreExact` (`HandoverIsExact`), `OrderIsKept` (`FirstHandledInOrder`) | `OffsetsAdvanceByOne`, `ChainImplementsConsumer`, `ChainImplementsOutbox`, `ChainImplements` |
| `MailDeliveryProofs` | `TypeCorrect`, `OneAttempt` (`OneAttemptAtATime`), `NothingLeftBehind` (`RetiredLeavesNothing`), `AttachmentSafe` (`AttachmentKept`) | |
| `FormsExecutionProofs` | `TypeCorrect`, `NoneStranded` (`NothingStranded`), `UploadsSafe` (`UploadsKept`) | `JobsAreKept` |
| `SiteCatalogProofs` | `TypeCorrect`, `AdmittedRuntimesAreCurrent` (`AdmittedIsCurrent`), `NoProcessGoesBack` (`NeverGoesBack`), `NoLostUpdate` (`UpdatesBuildOnCurrent`), `SnapshotsAreConsistent` (`MapsAgree`) | |
| `CacheCoherenceProofs` | `TypeCorrect`, `NothingStaleIsLeft` (`StaleIsAnnounced`), `ProcessSeesItsWrites` (`OwnWritesAreSeen`) | |
| `AppProofs` (hooks) | `TypeCorrect`, `OneHandler` (`OneHandlerAtATime`), `AcknowledgedIsDone` (`AckedIsDone`), `RecorderHasHandler` (`RecorderKeepsHandler`) | |
| `AppProofs` (background tasks) | `TasksTypeCorrect` (`TasksTypeOK`), `NoneForgotten` (`NoInstanceForgotten`) | `NoCircularWait` |
| `FileDeletionProofs` | `TypeCorrect`, `ServedIsStored` (`RuntimeIsStored`) | `DeletionIsFinal`, `NoCircularWait` |

**`OutboxProofs`** – for any sets of messages and publishers and any batch size. `PublishedIsOnBus` is not inductive: a
publisher could mark a row without having published it, if it were in its list of successes by mistake. `IInv`
therefore adds what a publisher knows (`SentIsOnBus`), what it can have in hand (`InHandCommitted`) and which rows can be
leased (`LeasedIsPending`). From `IInv` follow `NothingLost` (`PublishedIsOnBus`), `NothingPremature`, `LeaseIsFenced`
(`LeaseFenced`) and `Implements`, the refinement of the safety half of `AtLeastOnce`; `TypeCorrect` is the type invariant.
`CommittedGrows` is the lemma they share: no step takes a row out of the committed ones.

**`MessagingProofs`** – for any sets of messages, publishers and processes and any length of the partition. The properties
of the group speak of the broker's offset and of the first handling of a record; neither says anything about a session
that was evicted and does not know it yet. The invariant therefore relates every *session* to what was handled:
`SessionsSkipNothing` (who has a session, entitled or not, has nothing unhandled behind its position), `InStep` (the
session that may commit is at the committed offset or works on the next record) and `CommittedIsHandled`. A fenced commit
changes nothing, so a stale position does no harm. `OffsetsAdvanceByOne` is an action property from the same invariant.
The composition is then taken apart: every step of the chain is a step of the group or leaves it alone
(`ChainImplementsConsumer`), and is a step of the outbox whose bus is the set of logged messages
(`ChainImplementsOutbox`), so both sets of theorems hold in the chain. `ChainImplements` is the safety half of
`ChainIsAtLeastOnce`: a step that handles a message handles one that a committed transaction has written, because
whatever is in the log is on the bus and the outbox puts nothing uncommitted there.

**`MailDeliveryProofs`** – for any numbers of messages, runtimes and attempts. `OpenIsLast` ties the open attempts of a
message to its status and its count; `AttemptsInv` says what a worker between two transactions has in hand: an attempt
not newer than the row's last one, and one that no other worker has, which is why the comparison of
`attempts` in `FinishAttempt` is enough. `QueueingInv` (one call queues a message, which has no row before) separates
requests from workers. For the drain, `DrainInv` says that a closed gate has nobody queueing behind it and that, from the
moment the drain found nothing active, nothing is. `SpoolInv` strengthens `AttachmentKept` by what a sweep has listed:
a key found unreferenced is of a message that is neither queued nor active, and keys are not used again.

**`FormsExecutionProofs`** – for any sets of executions, those of the submission among them, and any number of runtimes and
attempts. `JobsInv`: what is not settled has its job, and an execution in whose name a worker cleans up is settled for good.
`SpoolInv`: before the answer there are no executions, and uploads that a sweep lists have no execution left that
needs them. `JobsAreKept` needs nothing else. `UploadsSafe` is an action property: each step that removes the bytes is shown to
be one after which no execution of the submission is active.

`NothingLeftBehind`, `AttachmentSafe`, `NoneStranded` and `UploadsSafe` have the hypothesis **`SoleServer`**: requests of the site come through the
runtime that is drained (`\A r \in Serving, q \in Leaving : r = q`). It is not a simplification of the proof. A gate
belongs to a runtime object, and a call on a runtime that has been replaced passes the drain of its successor (section 6);
without the hypothesis the properties are false. The runs satisfy it (`Serving = Leaving = {r1}`), and
`OneAttempt`, `JobsAreKept` and the types do not need it.

**`SiteCatalogProofs`** – for any sets of processes, domains and profiles and any bounds. That a version admits only the
row itself is no invariant of snapshots alone, since a reload publishes a list and a mutation publishes what it has
stored. `Inv` says of every runtime that is held anywhere (snapshot, list, stored item) that it is `Behind` the table: it
is the row, it is older, or the row is gone – and ids are never issued again. `BehindStays` proves this stable under
every change of the table (`TableStep`), so each action needs an argument only for what it copies. From it follow
`AdmittedRuntimesAreCurrent` and, with `CandidateInv` (the lock keeps the snapshot an update was prepared on),
`NoLostUpdate`. `NoProcessGoesBack` needs the other direction: what a process is about to publish `Follows` what it has
published (`Ahead`), which holds because the list is read under the lock.

`SnapshotsAreConsistent` is `MapsAgree`. A snapshot is built by a reload, which checks what it has listed, or copied from
the one before and changed in one site, so three facts have to be carried through every step: the table has distinct
domains (`Distinct`, from the unique index), what a reload has read is one of the tables there have been (`OneSnapshot`),
and the site that a mutation has in hand still fits the snapshot it was prepared on (`Fits`), since the lock keeps
the snapshot while the mutation runs. `TableStaysDistinct`, `PublishKeepsMaps`, `ReloadBuildsMaps` and `MutationFits` are
the four arguments, `OwnMaps` and `OthersMaps` put them together for the process that moves and for the rest.

**`CacheCoherenceProofs`** – for any numbers of processes, requests, sites and resources, any tree and any number of
mutations. The proof has two halves. The first is about the tree. Since `Ancestors` is the least closed set, what one would
prove by induction over the depth follows by giving a closed set: a branch lives in one site (`AncestorsSite`), a resource
without children is above nobody (`LeafBelowNobody`), and hanging a resource below another that is not below it makes no
circle (`Reparented`), so every accepted mutation leaves a forest (`ForestKept`). From this come the two facts the cache
rests on: rows change only where `Touched` says (`OnlyTouched`), and what is touched is in the site of the mutation or
comes from or goes there (`TouchedSite`). `OvertakenIsAnnounced` concludes, kind of key by kind of key, that the dependencies of
a value meet the tags of every mutation that changes it, the three causes of `Excuse` aside (failures are the fourth, and belong to
the race); for the deletion of a site, whose tags name no resource, `SiteIsAnnounced` finds the tag of the site among the
dependencies, and `SiteDeleted` and `Placed` that the cascade leaves a forest of resources in existing sites. The second half is the
race. A stored value whose capture is alive is not behind the rows, or a writer between its commit and the end of its
invalidations has one of its tags in hand (`Awaits`); a value that has just been loaded is current (`LoadedSound`), a
commit may overtake it but then announces it (`CoherentCommit`), and the writer that ends either drops it or did not owe it
anything (`CoherentDropped`). The captures in the hands of readers are included, which is what makes a store after an
invalidation harmless. `OwnWritesAreSeen` adds the exclusion of the locks of one process (in `Control`), and that the lock of a
site is among the locks of every mutation of its resources, both sites for a transfer (`LockedTyped`).

**`AppProofs`**, hooks – for any sets of processes, events and handlers and any configuration of the versions.
`LeaseInv`: a handler that runs does so under an unexpired lease of its process on a pending call; a claim takes only what is
free or lapsed, so two processes cannot both be in that position. `DeliveryInv`: a delivery without an error so far
still has every pending call of its event to do, and no call is added to an event once it is recorded; hence what
is acknowledged is done. `RecorderHasHandler` is the longest argument, since it relates four things that move apart:
`VersionInv` (a process publishes no version it has drained), `PinInv` (a pinned registry is the published one and no
transition is in progress; a registry that was looked up and replaced is drained), `CheckedInv` (a transition that has looked
at the pending calls keeps a handler for each of them), and from these the step in which the new version is published.

**`AppProofs`**, background tasks – for any number of replacements. `NoInstanceForgotten` together with the types is
inductive. `NoCircularWait` adds that an instance waits only for the instance of an older runtime which the same update
has cancelled (with `Newest`: the manager knows no runtime later than the last one built); this is the safety half of
`CancelledEnds`.

**`FileDeletionProofs`** – for any number of processes and of requests in them. `RuntimeIsStored` is disturbed by the two
steps that publish something not read from the table. For a request, `ReplacesInv` (who holds `mutationMu` is going to
replace a runtime that shows the file) and `GoneInv` (a request publishes only after the operation is recorded, and then the
row refers to the media no more) give `ReplacedIsOlder`: the runtime shows the file and the row does not, so the row is newer
by at least one version, and the published version cannot overtake it. For a site update `UpdateInv` says that what was stored
under `mutationMu` is the next version, unless the row has moved on. `RowMoves` is the lemma both rest on: the row shows or stops
showing the file only with a new version, which for a deletion needs `FoundInv` (a transaction removes one occurrence at most).
The remaining steps are treated alike by `Local`: they concern one process and replace no runtime a request is about to replace.
`NoCircularWait` is the safety half of `DeletionsEnd`: whoever waits for a lock holds none that comes after it in the order
mutationMu, cache locks, row of the media. Its invariant `OrderInv` ties the list of locks that a request has still to take to
the locks it has.

**Assumptions** are the named ASSUMEs on constants (`OutboxAssumption`, `ConsumerAssumption`, `ChainAssumption`,
`MailAssumption`, `FormsAssumption`, `BackgroundAssumption`, `SiteAssumption`, `CacheAssumption`, `RecordAssumption`,
`HooksAssumption`, `DeletionAssumption`), which TLC evaluates in the runs. They fix the types of the constants, keep the
markers (`None`, `NoOwner`, `Lost`, `Update`) outside the sets they are told apart from, records included, and say no more
about the size of anything than that it is a positive number.

**Model-checked only** is everything that is live (`ImplementsAtLeastOnce` and `ChainIsAtLeastOnce` beyond their safety,
`SettledOnceLeasesHold`, `OrphansSwept`, `WaitingIsTried`, `ActiveIsSettled`, `CurrentTaskRuns`, `CancelledEnds`, `Converges`, `DeletionsEnd`,
`DeletionTakesEffect`): liveness under fairness and ENABLED are outside the prover's reach. The invariants and action
properties of the runs are all proved.

## 6. Findings and known limits

Three statements of the repository do not hold; a run shows each.

1. `mail_stuck`: a message whose result could not be recorded stays `sending`. The redelivered job finds a
   live lease, `ClaimMessage` answers *not claimed* without an error, `Handle` returns nil, and the job is committed
   (`modules/mail/worker.go:83`). Nothing claims the message again, and it blocks every transition of the site. The forms
   worker answers `ErrExecutionBusy` in this place.
2. `forms_fence`: `FinishExecution` compares `status = 'running'` and not the attempt, so the late result of an attempt that
   was taken over makes the execution of its successor claimable within the lease. Mail compares the attempt.
3. `cache_stamps`: every `Repository.Update` rewrites `path`, `updated_at` and `updated_by` of all descendants, the path changed
   or not (`repository_update.go:171`, `:298-332`), and `reorderSiblings` and `finishRelated` give siblings new positions. The
   cached snapshots carry these fields (`resource.go:77-80`). `Update` invalidates the tags of the site's lists and of the resource
   itself, and the tree only where `routeChanged` holds, which looks at neither (`repository_coherence.go:520`, `:892`); a cached
   descendant or sibling stays as it was until its TTL. The cache skill (`SKILL.md:138`) asks that *every write path preserves
   coherence*, the runtime-integrity skill (`SKILL.md:93`) that a *cached read becomes fresh after real service/admin mutation*.
   `StaleIsAnnounced` and `OwnWritesAreSeen` except these values, as `descendant` and `position`, and no others.

The following limits showed up as well, and the properties are stated so that they hold in spite of them. Three of them fall
short of the words of the repository too, without a run of their own, and are marked.

- The drain of mail closes the gate of a runtime object, not of the site. A queue call on a runtime that has been replaced
  passes the drain of its successor, and the purge may take its attachment; in `mail_delivery` queue calls come through
  the one runtime that is drained.
- `Service.Submit` of forms spools uploads (`submission.go:88`) before it enters the gate (`:105`). A drain that
  purges in between and is then aborted leaves an accepted result without bytes; `UploadsKept` begins when `Submit` has returned.
- A queue call whose commit takes effect while its answer is lost deletes the attachment of a committed message; the
  message fails, the caller has an error.
- (*Short of the words.*) `publishRuntimeSnapshot` stores the snapshot before the preparers cancel the tasks of the old runtime
  (`runtime_catalog.go:172-173`), so both are visible for a moment, while `background/background.go:10-12` says that stale
  tasks are cancelled *before* the runtime is replaced. `StoreSnapshot` and `Apply` are in the order of the code, and no property
  of `BackgroundTasks` relies on the other one.
- An instance of a background task that is replaced while it still waits closes its done channel at once. Its
  successor waits for it, and not for the instance before it, which may still run.
- A job of a site that the process has not synchronised yet is acknowledged as obsolete (`app/boot.go:328`).
- `DeleteResult` checks for active executions in one statement and deletes in another; a status change in between adds an
  execution that is deleted without having run.
- A site that was inserted and cannot be built, and whose rollback fails, blocks every later reload and boot.
- (*Short of the words.*) Deletions, widget changes and moves of library items read the resource, then take the locks and go on with its id. If
  the tree was transferred to another site in between, they lock and invalidate the tags of the old one (`transferred`), and the lists of the new site stay as they were: a write
  path that does not preserve coherence in the sense of the lines quoted for finding 3.
- (*Short of the words.*) An invalidation that fails is dropped, by decision of the code (`repository_coherence.go:53`): the value
  lives until its TTL, although the cache skill (`SKILL.md:251`) calls coherence around writes *a correctness concern, not optional cleanup*. The same holds for a mutation whose answer is lost after the commit, and for a process that dies between commit and
  invalidation (`failed`).
- The deletion of a site locks the list of sites and the site, not the site's resources. Reads of its resources go on in the same
  process and may find, until the invalidation, what the cascade has already removed; `OwnWritesAreSeen` names the case.
- The registry of hooks is drained in one process; other processes may record calls for a handler that the new
  version no longer has. Such a call keeps every process with that version from starting and every later transition of
  the site from passing, until a process with the old version has carried it out. `RecorderKeepsHandler` is about the
  recording process.

## 7. Plan

| Step | Module | Questions |
|---|---|---|
| 1 | `RouteNamespace` | Concurrent moves, mirrors and library items keep routes unique under the two advisory locks; no deadlock between them. |
| 2 | `AppLifecycle` | Workers end before the connectors they use are closed, also when the boot fails half way. |

Properties that are proved for every value of the constants no longer need a large instance; the runs of one module are
merged for that reason, and what is left to them is the live part and the findings.
