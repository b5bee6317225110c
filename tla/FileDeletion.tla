------------------------------ MODULE FileDeletion ------------------------------
(***************************************************************************)
(* The deletion of a media file together with the one reference to it: the *)
(* locks a request takes, its transaction, the publication of the site     *)
(* runtime that no longer shows the file, and the removal of the bytes     *)
(* from the disk, which a durable operation row carries over failures.     *)
(*                                                                         *)
(* One media is followed.  It may be referenced by the settings of a site  *)
(* and by a resource.  Updates of the site and of the resource come        *)
(* between; what they are in detail is in SiteCatalog and CacheCoherence.  *)
(***************************************************************************)
EXTENDS Naturals, Sequences

CONSTANTS
    Processes,
    Deleters,    \* requests to delete the media
    Home,        \* Home[d]: the process of request d
    Crashable,   \* processes that may stop and start again
    MaxVersion,  \* bound on the version of the site
    Update,      \* a site update, as the owner of a lock
    None

ASSUME DeletionAssumption ==
    /\ Home \in [Deleters -> Processes]
    /\ Crashable \subseteq Processes
    /\ MaxVersion \in Nat \ {0}
    /\ None # Update /\ {None, Update} \cap Deleters = {}
    /\ None \notin {"pending", "completed"}
    /\ None \notin [version : 1..MaxVersion, shows : BOOLEAN]
    /\ None \notin [phase : {"prepared", "locked", "stored"}, shows : BOOLEAN]

Owners == {"site", "resource"}

VARIABLES
    media,      \* the media and its file exist in the database
    refs,       \* the owners with an occurrence of the media
    version,    \* runtime_version of the site
    operation,  \* the row of core.media_file_deletions: None, "pending", "completed"
    bytes,      \* the file is on its disk
    runtime,    \* runtime[p]: the published site runtime, None in a stopped process
    mutationMu, \* mutationMu[p], cacheLock[p]: who holds them
    cacheLock,
    mediaLock,  \* the request whose transaction has locked the media
    at,         \* at[d]: where request d is
    locks,      \* locks[d]: the locks it has still to take
    found,      \* found[d]: the occurrences it has read
    update,     \* update[p]: a site update
    retry       \* retry[p]: RetryPending has synchronised and goes on to clean

tables == <<media, refs, version, operation>>
owned == <<mutationMu, cacheLock, mediaLock>>
request == <<at, locks, found>>
vars == <<tables, bytes, runtime, owned, request, update, retry>>

Runtime(v, shows) == [version |-> v, shows |-> shows]
Stored == Runtime(version, "site" \in refs)
Up(p) == runtime[p] # None

Init ==
    /\ media = TRUE
    /\ refs \in SUBSET Owners  \* older data may have two
    /\ version = 1 /\ operation = None /\ bytes = TRUE
    /\ runtime = [p \in Processes |-> Stored]
    /\ mutationMu = [p \in Processes |-> None]
    /\ cacheLock = [p \in Processes |-> None]
    /\ mediaLock = None
    /\ at = [d \in Deleters |-> "idle"]
    /\ locks = [d \in Deleters |-> <<>>]
    /\ found = [d \in Deleters |-> {}]
    /\ update = [p \in Processes |-> None]
    /\ retry = [p \in Processes |-> FALSE]

Move(d, phase) == at' = [at EXCEPT ![d] = phase]

-----------------------------------------------------------------------------
(* MediaFileDeletions.Delete: locks.                                       *)

\* Mutant: the runtime is prepared under the cache locks.
CacheFirst(seen) == IF seen = {"site"} THEN <<"cache", "mutation">> ELSE <<"cache">>

\* mutationMu comes before the cache locks, as in every catalog mutation.
LockOrder(seen) == IF seen = {"site"} THEN <<"mutation", "cache">> ELSE <<"cache">>

\* FileOccurrences, before any lock.
Preflight(d) ==
    /\ at[d] = "idle" /\ Up(Home[d]) /\ media
    /\ found' = [found EXCEPT ![d] = refs]
    /\ locks' = [locks EXCEPT ![d] = LockOrder(refs)]
    /\ Move(d, "locking")
    /\ UNCHANGED <<tables, bytes, runtime, owned, update, retry>>

Awaits(d, lock) == at[d] = "locking" /\ locks[d] # <<>> /\ Head(locks[d]) = lock

\* PrepareFileOccurrence keeps the lock until Publish or Abort.
TakeMutationMu(d) ==
    /\ Awaits(d, "mutation") /\ mutationMu[Home[d]] = None
    /\ runtime[Home[d]].shows
    /\ mutationMu' = [mutationMu EXCEPT ![Home[d]] = d]
    /\ locks' = [locks EXCEPT ![d] = Tail(@)]
    /\ UNCHANGED <<tables, bytes, runtime, cacheLock, mediaLock, at, found, update, retry>>

TakeCacheLock(d) ==
    /\ Awaits(d, "cache") /\ cacheLock[Home[d]] = None
    /\ cacheLock' = [cacheLock EXCEPT ![Home[d]] = d]
    /\ locks' = [locks EXCEPT ![d] = Tail(@)]
    /\ UNCHANGED <<tables, bytes, runtime, mutationMu, mediaLock, at, found, update, retry>>

HasMutationMu(d) == mutationMu[Home[d]] = d

\* Mutant: Abort leaves the lock behind.
KeepLock(held, d) == held

Release(held, d) == [held EXCEPT ![Home[d]] = IF @ = d THEN None ELSE @]

\* The request ends; what it prepared is aborted.
End(d) ==
    /\ mutationMu' = Release(mutationMu, d)
    /\ cacheLock' = Release(cacheLock, d)
    /\ mediaLock' = IF mediaLock = d THEN None ELSE mediaLock
    /\ Move(d, "idle")
    /\ locks' = [locks EXCEPT ![d] = <<>>]
    /\ found' = [found EXCEPT ![d] = {}]

\* The runtime without the occurrence cannot be built or prepared.
PreparationFails(d) ==
    /\ Awaits(d, "mutation") /\ mutationMu[Home[d]] = None
    /\ End(d)
    /\ UNCHANGED <<tables, bytes, runtime, update, retry>>

\* ErrFileInUse, ErrFileDeleteConflict, a veto, a statement that fails.
Refuse(d) ==
    /\ at[d] = "transaction" \/ (at[d] = "locking" /\ locks[d] = <<>>)
    /\ End(d)
    /\ UNCHANGED <<tables, bytes, runtime, update, retry>>

-----------------------------------------------------------------------------
(* DeleteMediaFile.                                                        *)

\* The occurrences under the media lock must be the ones of the preflight: a
\* site that appears is not prepared, a resource that appears is not locked.
Acceptable(d) ==
    /\ \A o, q \in refs : o = q
    /\ HasMutationMu(d) <=> refs = {"site"}
    /\ refs \subseteq found[d]

BeginTransaction(d) ==
    /\ at[d] = "locking" /\ locks[d] = <<>> /\ mediaLock = None
    /\ media /\ Acceptable(d)
    /\ mediaLock' = d
    /\ found' = [found EXCEPT ![d] = refs]
    /\ Move(d, "transaction")
    /\ UNCHANGED <<tables, bytes, runtime, mutationMu, cacheLock, locks, update, retry>>

\* Apply compares the version of the site, or looks for the occurrence in the
\* locked resource, and the restricted foreign keys refuse any other.
Commits(d) ==
    /\ refs = found[d]
    /\ found[d] = {"site"} => version = runtime[Home[d]].version /\ version < MaxVersion
    /\ media' = FALSE
    /\ refs' = {}
    /\ version' = IF found[d] = {"site"} THEN version + 1 ELSE version
    /\ operation' = "pending"

\* The answer arrives, or it is lost with the outcome open.
Commit(d) ==
    /\ at[d] = "transaction"
    /\ Commits(d)
    /\ \E phase \in {"committed", "uncertain"} : Move(d, phase)
    /\ mediaLock' = None
    /\ UNCHANGED <<bytes, runtime, mutationMu, cacheLock, locks, found, update, retry>>

CommitLost(d) ==
    /\ at[d] = "transaction"
    /\ Move(d, "uncertain")
    /\ mediaLock' = None
    /\ UNCHANGED <<tables, bytes, runtime, mutationMu, cacheLock, locks, found, update, retry>>

\* Mutant: an open outcome is taken for a commit.
AssumeCommitted(d) ==
    /\ at[d] = "uncertain"
    /\ Move(d, "committed")
    /\ UNCHANGED <<tables, bytes, runtime, owned, locks, found, update, retry>>

\* The durable operation is looked up.
CheckCommitted(d) ==
    /\ at[d] = "uncertain" /\ operation # None
    /\ Move(d, "committed")
    /\ UNCHANGED <<tables, bytes, runtime, owned, locks, found, update, retry>>

\* It is not there, or cannot be looked up: aborted.
CheckFails(d) ==
    /\ at[d] = "uncertain"
    /\ End(d)
    /\ UNCHANGED <<tables, bytes, runtime, update, retry>>

Publish(d) ==
    LET p == Home[d] IN
    /\ at[d] = "committed"
    /\ runtime' = IF HasMutationMu(d)
                  THEN [runtime EXCEPT ![p] = Runtime(@.version + 1, FALSE)] ELSE runtime
    /\ mutationMu' = Release(mutationMu, d)
    /\ Move(d, "published")
    /\ UNCHANGED <<tables, bytes, cacheLock, mediaLock, locks, found, update, retry>>

\* The tags are invalidated and the cache locks given back.
Unlock(d) ==
    /\ at[d] = "published"
    /\ cacheLock' = Release(cacheLock, d)
    /\ Move(d, "cleaning")
    /\ UNCHANGED <<tables, bytes, runtime, mutationMu, mediaLock, locks, found, update, retry>>

-----------------------------------------------------------------------------
(* CleanFileDeletion, by the request and by the retry loop.                *)

\* Mutant: the operation is closed whatever became of the files.
CleanupForgets ==
    /\ operation = "pending"
    /\ bytes' \in {bytes, FALSE} /\ operation' = "completed"
    /\ UNCHANGED <<media, refs, version>>

Cleans ==
    /\ operation = "pending"
    /\ bytes' = FALSE /\ operation' = "completed"
    /\ UNCHANGED <<media, refs, version>>

\* A disk or the update of the row fails: some files may be gone, the row
\* stays pending.
CleanupFails ==
    /\ operation = "pending"
    /\ bytes' \in {bytes, FALSE}
    /\ UNCHANGED tables

Clean(d) ==
    /\ at[d] = "cleaning"
    /\ Cleans \/ CleanupFails \/ (operation = "completed" /\ UNCHANGED <<tables, bytes>>)
    /\ End(d)
    /\ UNCHANGED <<runtime, update, retry>>

\* The catalog is read again under mutationMu, then the operations are listed.
Synchronize(p) ==
    /\ Up(p) /\ mutationMu[p] = None /\ ~retry[p]
    /\ runtime' = [runtime EXCEPT ![p] = Stored]
    /\ retry' = [retry EXCEPT ![p] = TRUE]
    /\ UNCHANGED <<tables, bytes, owned, request, update>>

EndRetry(p) ==
    /\ retry[p]
    /\ retry' = [retry EXCEPT ![p] = FALSE]
    /\ UNCHANGED <<runtime, owned, request, update>>

RetryCleans(p) == Cleans /\ EndRetry(p)
RetryFails(p) == (CleanupFails \/ UNCHANGED <<tables, bytes>>) /\ EndRetry(p)

-----------------------------------------------------------------------------
(* What other requests do to the references.                               *)

\* Catalog.Update: mutationMu, then the cache locks in the repository.
BeginUpdate(p, shows) ==
    /\ Up(p) /\ mutationMu[p] = None
    /\ mutationMu' = [mutationMu EXCEPT ![p] = Update]
    /\ update' = [update EXCEPT ![p] = [phase |-> "prepared", shows |-> shows]]
    /\ UNCHANGED <<tables, bytes, runtime, cacheLock, mediaLock, request, retry>>

LockUpdate(p) ==
    /\ update[p] # None /\ update[p].phase = "prepared" /\ cacheLock[p] = None
    /\ cacheLock' = [cacheLock EXCEPT ![p] = Update]
    /\ update' = [update EXCEPT ![p].phase = "locked"]
    /\ UNCHANGED <<tables, bytes, runtime, mutationMu, mediaLock, request, retry>>

\* A media belongs to one owner, and a new occurrence waits for the
\* transaction that has locked the media.
MayRefer(o) == o \in refs \/ (media /\ refs = {} /\ mediaLock = None)

StoreUpdate(p) ==
    /\ update[p] # None /\ update[p].phase = "locked"
    /\ version = runtime[p].version /\ version < MaxVersion
    /\ update[p].shows => MayRefer("site")
    /\ version' = version + 1
    /\ refs' = IF update[p].shows THEN refs \cup {"site"} ELSE refs \ {"site"}
    /\ cacheLock' = [cacheLock EXCEPT ![p] = None]
    /\ update' = [update EXCEPT ![p].phase = "stored"]
    /\ UNCHANGED <<media, operation, bytes, runtime, mutationMu, mediaLock, request, retry>>

EndUpdate(p) ==
    /\ mutationMu' = [mutationMu EXCEPT ![p] = None]
    /\ update' = [update EXCEPT ![p] = None]
    /\ UNCHANGED <<tables, bytes, mediaLock, request, retry>>

PublishUpdate(p) ==
    /\ update[p] # None /\ update[p].phase = "stored"
    /\ runtime' = [runtime EXCEPT ![p] = Runtime(@.version + 1, update[p].shows)]
    /\ EndUpdate(p)
    /\ UNCHANGED cacheLock

\* A conflict of versions, a media that is gone, a failed statement.
FailUpdate(p) ==
    /\ update[p] # None /\ update[p].phase = "locked"
    /\ cacheLock' = [cacheLock EXCEPT ![p] = None]
    /\ EndUpdate(p)
    /\ UNCHANGED runtime

UpdateResource ==
    /\ \/ refs' = refs \ {"resource"}
       \/ MayRefer("resource") /\ refs' = refs \cup {"resource"}
    /\ UNCHANGED <<media, version, operation, bytes, runtime, owned, request, update, retry>>

-----------------------------------------------------------------------------

Stop(p) ==
    LET mine == {d \in Deleters : Home[d] = p} IN
    /\ p \in Crashable /\ Up(p)
    /\ runtime' = [runtime EXCEPT ![p] = None]
    /\ mutationMu' = [mutationMu EXCEPT ![p] = None]
    /\ cacheLock' = [cacheLock EXCEPT ![p] = None]
    /\ mediaLock' = IF mediaLock \in mine THEN None ELSE mediaLock
    /\ at' = [d \in Deleters |-> IF d \in mine THEN "idle" ELSE at[d]]
    /\ locks' = [d \in Deleters |-> IF d \in mine THEN <<>> ELSE locks[d]]
    /\ found' = [d \in Deleters |-> IF d \in mine THEN {} ELSE found[d]]
    /\ update' = [update EXCEPT ![p] = None]
    /\ retry' = [retry EXCEPT ![p] = FALSE]
    /\ UNCHANGED <<tables, bytes>>

Start(p) ==
    /\ ~Up(p)
    /\ runtime' = [runtime EXCEPT ![p] = Stored]
    /\ UNCHANGED <<tables, bytes, owned, request, update, retry>>

Continue(d) ==
    \/ TakeMutationMu(d) \/ PreparationFails(d) \/ TakeCacheLock(d) \/ Refuse(d)
    \/ BeginTransaction(d) \/ Commit(d) \/ CommitLost(d)
    \/ CheckCommitted(d) \/ CheckFails(d) \/ Publish(d) \/ Unlock(d) \/ Clean(d)

ContinueUpdate(p) == LockUpdate(p) \/ StoreUpdate(p) \/ PublishUpdate(p) \/ FailUpdate(p)

Next ==
    \/ \E d \in Deleters : Preflight(d) \/ Continue(d)
    \/ \E p \in Processes :
          \/ \E shows \in BOOLEAN : BeginUpdate(p, shows)
          \/ ContinueUpdate(p)
          \/ Synchronize(p) \/ RetryCleans(p) \/ RetryFails(p) \/ Stop(p) \/ Start(p)
    \/ UpdateResource

Spec == Init /\ [][Next]_vars

\* Requests go on, locks are handed over in turn, the loop of RetryPending
\* ticks, and the disk works now and then.
Fairness ==
    /\ \A d \in Deleters :
          /\ WF_vars(Continue(d))
          /\ SF_vars(TakeMutationMu(d) \/ PreparationFails(d) \/ TakeCacheLock(d))
    /\ \A p \in Processes :
          /\ WF_vars(ContinueUpdate(p))
          /\ SF_vars(Synchronize(p)) /\ WF_vars(RetryCleans(p) \/ RetryFails(p))
    /\ SF_vars(\E p \in Processes : RetryCleans(p))

FairSpec == Spec /\ Fairness

-----------------------------------------------------------------------------
(* Properties.                                                             *)

\* The types; a request that is over, or whose process stopped, holds nothing.
TypeOK ==
    /\ media \in BOOLEAN /\ bytes \in BOOLEAN /\ refs \subseteq Owners
    /\ version \in 1..MaxVersion
    /\ operation \in {None, "pending", "completed"}
    /\ at \in [Deleters -> {"idle", "locking", "transaction", "committed", "uncertain",
                            "published", "cleaning"}]
    /\ \A d \in Deleters :
          /\ at[d] = "idle" => /\ locks[d] = <<>> /\ found[d] = {}
                              /\ d \notin {mutationMu[Home[d]], cacheLock[Home[d]], mediaLock}
          /\ mediaLock = d <=> at[d] = "transaction"
    /\ \A p \in Processes :
          /\ mutationMu[p] \in {None, Update} \cup {d \in Deleters : Home[d] = p}
          /\ cacheLock[p] \in {None, Update} \cup {d \in Deleters : Home[d] = p}
          /\ update[p] # None <=> mutationMu[p] = Update
          /\ Up(p) => runtime[p].version \in 1..MaxVersion

\* What a process serves is what some version of the row held, and the row
\* itself when the version is the row's: whether an answer of the commit is
\* lost, a check fails or another process is first, nothing is published that
\* was rolled back.
RuntimeIsStored ==
    \A p \in Processes :
        Up(p) => runtime[p].version <= version /\ (runtime[p].version = version => runtime[p] = Stored)

\* A request to delete always ends: site updates, other deletions and the
\* retry loop never wait for it in a circle.
DeletionsEnd == \A d \in Deleters : at[d] # "idle" ~> at[d] = "idle"

\* Once the media is gone from the database its bytes go as well, and no
\* process goes on showing it, whatever failed or stopped in between.
DeletionTakesEffect ==
    ~media ~> (~bytes /\ \A p \in Processes : Up(p) => ~runtime[p].shows)
================================================================================
