------------------------------- MODULE SiteCatalog -------------------------------
(***************************************************************************)
(* The site catalogs of several processes over the table core.sites.       *)
(* Every process keeps a snapshot of site runtimes, by id and by domain.   *)
(* Create, Update, Delete and Reload hold the catalog's mutationMu from    *)
(* their first look at the snapshot to its replacement; nothing but the    *)
(* row's runtime_version and the unique domain holds processes apart.      *)
(***************************************************************************)
EXTENDS Naturals, FiniteSets

CONSTANTS
    Processes,
    Restarting,  \* the processes that may die, at any moment
    Domains,
    Profiles,    \* stands for everything a site is configured with
    MaxSites,    \* bound: ids the sequence of core.sites ever issues
    MaxVersion,  \* bound: runtime_version of a site
    None       \* no row, no runtime, no list

Sites == 1..MaxSites
Versions == 1..MaxVersion

\* A row of core.sites, and the runtime built from it.  A site that is not
\* sound has settings the schema accepts and no runtime can be built from.
Site == [id : Sites, version : Versions, domain : Domains, profile : Profiles, sound : BOOLEAN]

ASSUME SiteAssumption ==
    /\ Restarting \subseteq Processes
    /\ MaxSites \in Nat /\ MaxVersion \in Nat \ {0} /\ None \notin Site

VARIABLES
    rows,      \* core.sites
    issued,    \* ids issued so far
    byID,      \* byID[p], byDomain[p]: the published snapshot of process p
    byDomain,
    mutation,  \* mutation[p]: "free", "create", "update" or "delete", with "d" once
               \*   the SQL is committed
    item,      \* item[p]: the site the mutation stores or removes
    listed,    \* listed[p]: the rows Reload has read, None outside of it
    sync,      \* sync[p]: "down", "idle", "compare", "reload" (Synchronize, boot)
    seen       \* seen[p]: the versions Synchronize has read

vars == <<rows, issued, byID, byDomain, mutation, item, listed, sync, seen>>

EmptyTable == [s \in Sites |-> None]
NoDomains == [d \in Domains |-> None]
NoVersions == [s \in Sites |-> 0]

Init ==
    /\ rows = EmptyTable /\ issued = 0
    /\ byID = [p \in Processes |-> EmptyTable]
    /\ byDomain = [p \in Processes |-> NoDomains]
    /\ mutation = [p \in Processes |-> "free"]
    /\ item = [p \in Processes |-> None]
    /\ listed = [p \in Processes |-> None]
    /\ sync = [p \in Processes |-> "down"]
    /\ seen = [p \in Processes |-> NoVersions]

VersionsOf(sites) == [s \in Sites |-> IF sites[s] = None THEN 0 ELSE sites[s].version]

\* uq_sites_normalized_domain
DomainFree(d, s) == \A t \in Sites \ {s} : rows[t] # None => rows[t].domain # d

-----------------------------------------------------------------------------
(* Mutations of the administration: check the snapshot and prepare.        *)

\* mutationMu
LockFree(p) == mutation[p] = "free" /\ listed[p] = None

Lock(p, kind, x) ==
    /\ LockFree(p) /\ sync[p] # "down"
    /\ mutation' = [mutation EXCEPT ![p] = kind]
    /\ item' = [item EXCEPT ![p] = x]
    /\ UNCHANGED <<rows, issued, byID, byDomain, listed, sync, seen>>

\* Mutant: the lock is released before the candidate is dropped.
UnlockKeepsItem(p) ==
    /\ mutation' = [mutation EXCEPT ![p] = "free"]
    /\ UNCHANGED <<item, byID, byDomain, listed, sync, seen>>

Unlock(p) ==
    /\ mutation' = [mutation EXCEPT ![p] = "free"]
    /\ item' = [item EXCEPT ![p] = None]
    /\ UNCHANGED <<byID, byDomain, listed, sync, seen>>

\* The id is provisional until the row is inserted.
BeginCreate(p) ==
    \E d \in Domains, prof \in Profiles, sound \in BOOLEAN :
        /\ issued < MaxSites
        /\ byDomain[p][d] = None
        /\ Lock(p, "create", [id |-> 1, version |-> 1, domain |-> d, profile |-> prof, sound |-> sound])

\* The next runtime is built before anything is stored.  Clearing a file
\* occurrence in the settings (PrepareFileOccurrence) is an update that leaves
\* domain and profile alone.
BeginUpdate(p) ==
    \E s \in Sites, d \in Domains, prof \in Profiles :
        /\ byID[p][s] # None
        /\ byDomain[p][d] # None => byDomain[p][d].id = s
        /\ Lock(p, "update", [byID[p][s] EXCEPT !.domain = d, !.profile = prof])

BeginDelete(p) ==
    \E s \in Sites : byID[p][s] # None /\ Lock(p, "delete", byID[p][s])

-----------------------------------------------------------------------------
(* The SQL of the mutations.                                               *)

Insert(p) ==
    /\ mutation[p] = "create" /\ issued < MaxSites
    /\ DomainFree(item[p].domain, issued + 1)
    /\ issued' = issued + 1
    /\ rows' = [rows EXCEPT ![issued + 1] = [item[p] EXCEPT !.id = issued + 1]]

\* Mutant: the update does not compare the version.
ReplaceAnyVersion(p) ==
    LET x == item[p] IN
    /\ mutation[p] = "update"
    /\ rows[x.id] # None /\ rows[x.id].version < MaxVersion
    /\ DomainFree(x.domain, x.id)
    /\ rows' = [rows EXCEPT ![x.id] = [x EXCEPT !.version = rows[x.id].version + 1]]
    /\ UNCHANGED issued

\* Mutant: the update leaves runtime_version alone.
ReplaceSameVersion(p) ==
    LET x == item[p] IN
    /\ mutation[p] = "update"
    /\ rows[x.id] # None /\ rows[x.id].version = x.version
    /\ DomainFree(x.domain, x.id)
    /\ rows' = [rows EXCEPT ![x.id] = x]
    /\ UNCHANGED issued

Replace(p) ==
    LET x == item[p] IN
    /\ mutation[p] = "update" /\ x.version < MaxVersion
    /\ rows[x.id] # None /\ rows[x.id].version = x.version
    /\ DomainFree(x.domain, x.id)
    /\ rows' = [rows EXCEPT ![x.id] = [x EXCEPT !.version = x.version + 1]]
    /\ UNCHANGED issued

\* The delete looks at the id only.
Remove(p) ==
    /\ mutation[p] = "delete"
    /\ rows[item[p].id] # None
    /\ rows' = [rows EXCEPT ![item[p].id] = None]
    /\ UNCHANGED issued

Stored(p) ==
    IF mutation[p] = "create" THEN rows'[issued + 1]
    ELSE IF mutation[p] = "update" THEN rows'[item[p].id]
    ELSE item[p]

\* The transaction commits and the process learns it.
Store(p) ==
    /\ Insert(p) \/ Replace(p) \/ Remove(p)
    /\ item' = [item EXCEPT ![p] = Stored(p)]
    /\ mutation' = [mutation EXCEPT ![p] = CASE mutation[p] = "create" -> "created"
                                             [] mutation[p] = "update" -> "updated"
                                             [] mutation[p] = "delete" -> "deleted"]
    /\ UNCHANGED <<byID, byDomain, listed, sync, seen>>

\* The statement fails, or its transaction commits and the answer is lost: the
\* preparations are aborted and the snapshot stays.
StoreFails(p) ==
    /\ mutation[p] \in {"create", "update", "delete"}
    /\ \/ Insert(p) \/ Replace(p) \/ Remove(p)
       \/ UNCHANGED <<rows, issued>>
    /\ Unlock(p)

-----------------------------------------------------------------------------
(* Publication.                                                            *)

\* Mutant: the new snapshot keeps the domain a site has left.
PublishKeepsDomain(p) ==
    LET x == item[p] IN
    /\ \/ mutation[p] = "created" /\ x.sound
       \/ mutation[p] \in {"updated", "deleted"}
    /\ byID' = [byID EXCEPT ![p][x.id] = IF mutation[p] = "deleted" THEN None ELSE x]
    /\ byDomain' = [byDomain EXCEPT ![p][x.domain] = IF mutation[p] = "deleted" THEN None ELSE x]
    /\ mutation' = [mutation EXCEPT ![p] = "free"]
    /\ item' = [item EXCEPT ![p] = None]
    /\ UNCHANGED <<rows, issued, listed, sync, seen>>

\* The snapshot of the mutation: the one it started from with this site
\* replaced, added or removed.  What other processes did to other sites is
\* not in it.
Publish(p) ==
    LET x == item[p]
        before == byID[p][x.id]
    IN
    /\ \/ mutation[p] = "created" /\ x.sound
       \/ mutation[p] \in {"updated", "deleted"}
    /\ byID' = [byID EXCEPT ![p][x.id] = IF mutation[p] = "deleted" THEN None ELSE x]
    /\ byDomain' = [byDomain EXCEPT ![p] =
           [d \in Domains |->
               IF mutation[p] # "deleted" /\ d = x.domain THEN x
               ELSE IF before # None /\ before.domain = d THEN None
               ELSE byDomain[p][d]]]
    /\ mutation' = [mutation EXCEPT ![p] = "free"]
    /\ item' = [item EXCEPT ![p] = None]
    /\ UNCHANGED <<rows, issued, listed, sync, seen>>

\* The runtime of the inserted site cannot be built, or a preparer refuses it:
\* the row is deleted again, if that succeeds.
RollbackCreated(p) ==
    /\ mutation[p] = "created"
    /\ rows' \in {rows, [rows EXCEPT ![item[p].id] = None]}
    /\ Unlock(p)
    /\ UNCHANGED issued

-----------------------------------------------------------------------------
(* Synchronize, every second, and Reload.                                  *)

ReadVersions(p) ==
    /\ sync[p] = "idle"
    /\ sync' = [sync EXCEPT ![p] = "compare"]
    /\ seen' = [seen EXCEPT ![p] = VersionsOf(rows)]
    /\ UNCHANGED <<rows, issued, byID, byDomain, mutation, item, listed>>

\* Mutant: only the number of sites is compared.
CompareCounts(p) ==
    /\ sync[p] = "compare"
    /\ sync' = [sync EXCEPT ![p] =
           IF Cardinality({s \in Sites : seen[p][s] = 0}) = Cardinality({s \in Sites : byID[p][s] = None})
           THEN "idle" ELSE "reload"]
    /\ seen' = [seen EXCEPT ![p] = NoVersions]
    /\ UNCHANGED <<rows, issued, byID, byDomain, mutation, item, listed>>

Compare(p) ==
    /\ sync[p] = "compare"
    /\ sync' = [sync EXCEPT ![p] = IF seen[p] = VersionsOf(byID[p]) THEN "idle" ELSE "reload"]
    /\ seen' = [seen EXCEPT ![p] = NoVersions]
    /\ UNCHANGED <<rows, issued, byID, byDomain, mutation, item, listed>>

\* Mutant: the rows are read before the lock is taken.
ListUnlocked(p) ==
    /\ sync[p] \in {"down", "reload"} /\ listed[p] = None
    /\ listed' = [listed EXCEPT ![p] = rows]
    /\ UNCHANGED <<rows, issued, byID, byDomain, mutation, item, sync, seen>>

\* Reload takes the lock and lists.
List(p) ==
    /\ sync[p] \in {"down", "reload"} /\ LockFree(p)
    /\ listed' = [listed EXCEPT ![p] = rows]
    /\ UNCHANGED <<rows, issued, byID, byDomain, mutation, item, sync, seen>>

Sound(sites) == \A s \in Sites : sites[s] # None => sites[s].sound

ByDomain(sites) ==
    [d \in Domains |->
        IF \E s \in Sites : sites[s] # None /\ sites[s].domain = d
        THEN sites[CHOOSE s \in Sites : sites[s] # None /\ sites[s].domain = d]
        ELSE None]

\* One runtime that cannot be built fails the whole reload.
PublishListed(p) ==
    /\ listed[p] # None
    /\ Sound(listed[p])
    /\ byID' = [byID EXCEPT ![p] = listed[p]]
    /\ byDomain' = [byDomain EXCEPT ![p] = ByDomain(listed[p])]
    /\ listed' = [listed EXCEPT ![p] = None]
    /\ sync' = [sync EXCEPT ![p] = "idle"]
    /\ UNCHANGED <<rows, issued, mutation, item, seen>>

\* A runtime is not built, the list fails, or a preparation refuses the plan
\* (a module or hook of a site that goes away still has work).  A process
\* that boots gives up and is started again.
ReloadFails(p) ==
    /\ listed[p] # None
    /\ listed' = [listed EXCEPT ![p] = None]
    /\ sync' = [sync EXCEPT ![p] = IF sync[p] = "down" THEN "down" ELSE "idle"]
    /\ UNCHANGED <<rows, issued, byID, byDomain, mutation, item, seen>>

Crash(p) ==
    /\ p \in Restarting /\ sync[p] # "down"
    /\ byID' = [byID EXCEPT ![p] = EmptyTable]
    /\ byDomain' = [byDomain EXCEPT ![p] = NoDomains]
    /\ mutation' = [mutation EXCEPT ![p] = "free"]
    /\ item' = [item EXCEPT ![p] = None]
    /\ listed' = [listed EXCEPT ![p] = None]
    /\ sync' = [sync EXCEPT ![p] = "down"]
    /\ seen' = [seen EXCEPT ![p] = NoVersions]
    /\ UNCHANGED <<rows, issued>>

-----------------------------------------------------------------------------

Mutate(p) ==
    \/ BeginCreate(p) \/ BeginUpdate(p) \/ BeginDelete(p)
    \/ Store(p) \/ StoreFails(p) \/ Publish(p) \/ RollbackCreated(p)

Synchronize(p) ==
    ReadVersions(p) \/ Compare(p) \/ List(p) \/ PublishListed(p) \/ ReloadFails(p)

Next ==
    \E p \in Processes : Mutate(p) \/ Synchronize(p) \/ Crash(p)

Spec == Init /\ [][Next]_vars

\* The calls of a mutation return and a process that is down is started again.
\* The ticker comes back.  A reload whose rows can all be built succeeds in
\* the end: what a preparation waits for is finished or removed.
FairSpec ==
    /\ Spec
    /\ \A p \in Processes :
        /\ WF_vars(ReadVersions(p)) /\ WF_vars(Compare(p))
        /\ SF_vars(List(p)) /\ SF_vars(PublishListed(p))
        /\ WF_vars(ReloadFails(p))
        /\ WF_vars(StoreFails(p)) /\ WF_vars(Publish(p)) /\ WF_vars(RollbackCreated(p))

-----------------------------------------------------------------------------
(* Properties.                                                             *)

\* The type invariant, and a mutation holds the lock exactly as long as it has a site in hand.
TypeOK ==
    /\ rows \in [Sites -> Site \cup {None}] /\ issued \in 0..MaxSites
    /\ byID \in [Processes -> [Sites -> Site \cup {None}]]
    /\ byDomain \in [Processes -> [Domains -> Site \cup {None}]]
    /\ mutation \in [Processes -> {"free", "create", "update", "delete",
                                   "created", "updated", "deleted"}]
    /\ item \in [Processes -> Site \cup {None}]
    /\ listed \in [Processes -> [Sites -> Site \cup {None}] \cup {None}]
    /\ sync \in [Processes -> {"down", "idle", "compare", "reload"}]
    /\ seen \in [Processes -> [Sites -> 0..MaxVersion]]
    /\ \A p \in Processes : item[p] = None <=> mutation[p] = "free"

\* A request is let through by a comparison of the version alone (CheckCurrent),
\* although the snapshot may be of any age: what it is served is the row as
\* it is stored at that moment, in every field.
CheckCurrent(x) == rows[x.id] # None /\ rows[x.id].version = x.version

AdmittedIsCurrent ==
    \A p \in Processes, s \in Sites :
        (byID[p][s] # None /\ CheckCurrent(byID[p][s])) => byID[p][s] = rows[s]

\* The two maps of a snapshot hold the same runtimes, so a domain leads to one
\* site and a site to one domain, although domains wander between sites and
\* the snapshot mixes rows of different ages.
MapsAgree ==
    \A p \in Processes :
        /\ \A s \in Sites : byID[p][s] # None => byDomain[p][byID[p][s].domain] = byID[p][s]
        /\ \A d \in Domains : byDomain[p][d] # None =>
               byDomain[p][d].domain = d /\ byID[p][byDomain[p][d].id] = byDomain[p][d]

\* No update is lost: the row an update replaces is the one its process had in
\* its snapshot when it built the next runtime from it.
UpdatesBuildOnCurrent ==
    [][\A s \in Sites :
          (rows[s] # None /\ rows'[s] # None /\ rows'[s] # rows[s]) =>
             \E p \in Processes : mutation[p] = "update" /\ byID[p][s] = rows[s]]_vars

\* A process never goes back to an older runtime of a site, nor loses a site
\* that is still stored, whichever of its reloads and mutations finishes last.
NeverGoesBack ==
    [][\A p \in Processes, s \in Sites : (byID[p][s] # None /\ sync'[p] # "down") =>
          IF byID'[p][s] = None THEN rows[s] = None
          ELSE byID'[p][s].version >= byID[p][s].version]_vars

\* Every process that stays up ends with the table's contents, once every row
\* can be built; a lost answer of a commit or of a rollback is repaired too.
Fresh(p) == byID[p] = rows

Converges ==
    \A p \in Processes \ Restarting : (<>[]Sound(rows)) => <>[]Fresh(p)
================================================================================
