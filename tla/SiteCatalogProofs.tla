--------------------------- MODULE SiteCatalogProofs ---------------------------
(***************************************************************************)
(* What is proved about SiteCatalog for any sets of processes, domains and *)
(* profiles and any bounds: its type invariant, that the version check     *)
(* admits only current runtimes, that no update is lost, and that no       *)
(* process goes back to an older runtime or loses a stored site; and that  *)
(* the two maps of every snapshot hold the same runtimes.                  *)
(***************************************************************************)
EXTENDS SiteCatalog, TLAPS

\* A runtime held anywhere is the row, or older than it, or the row is gone
\* for good.
Behind(x) ==
    /\ x.id <= issued
    /\ rows[x.id] # None => /\ x.version <= rows[x.id].version
                            /\ x.version = rows[x.id].version => x = rows[x.id]

RowsInv == \A s \in Sites : rows[s] # None => rows[s].id = s /\ s <= issued
SnapshotInv ==
    \A p \in Processes, s \in Sites : byID[p][s] # None => byID[p][s].id = s /\ Behind(byID[p][s])
ListInv ==
    \A p \in Processes : listed[p] # None =>
        \A s \in Sites : listed[p][s] # None => listed[p][s].id = s /\ Behind(listed[p][s])
StoredInv == \A p \in Processes : mutation[p] \in {"created", "updated"} => Behind(item[p])
LockInv == \A p \in Processes : mutation[p] # "free" => listed[p] = None
CandidateInv ==
    \A p \in Processes : mutation[p] = "update" =>
        /\ byID[p][item[p].id] # None
        /\ item[p].version = byID[p][item[p].id].version

Inv == TypeOK /\ RowsInv /\ SnapshotInv /\ ListInv /\ StoredInv /\ LockInv /\ CandidateInv

-----------------------------------------------------------------------------
(* What a step does to the table.                                          *)

Inserted(x) ==
    /\ x \in Site /\ x.id = issued + 1
    /\ issued' = issued + 1 /\ rows' = [rows EXCEPT ![x.id] = x]
Replaced(x) ==
    /\ x \in Site /\ rows[x.id] # None /\ x.version = rows[x.id].version + 1
    /\ issued' = issued /\ rows' = [rows EXCEPT ![x.id] = x]
Removed(s) == issued' = issued /\ rows' = [rows EXCEPT ![s] = None]

TableStep ==
    \/ UNCHANGED <<rows, issued>>
    \/ \E x \in Site : Inserted(x) \/ Replaced(x)
    \/ \E s \in Sites : Removed(s)

\* The insert of Create puts the site under a new id.
LEMMA InsertInserts ==
    ASSUME TypeOK, NEW p \in Processes, Insert(p)
    PROVE  Inserted([item[p] EXCEPT !.id = issued + 1])
<1>1. item[p] \in Site  BY DEF TypeOK, Insert
<1>2. issued + 1 \in Sites  BY SiteAssumption DEF TypeOK, Insert, Sites
<1> QED  BY <1>1, <1>2 DEF Insert, Inserted, Site

\* The update replaces a row by its next version.
LEMMA ReplaceReplaces ==
    ASSUME TypeOK, NEW p \in Processes, Replace(p)
    PROVE  Replaced([item[p] EXCEPT !.version = item[p].version + 1])
<1>1. item[p] \in Site  BY DEF TypeOK, Replace
<1>2. item[p].version + 1 \in Versions  BY <1>1, SiteAssumption DEF Replace, Site, Versions
<1> QED  BY <1>1, <1>2 DEF Replace, Replaced, Site

\* Every step changes the table in one of these ways.
LEMMA NextIsTableStep == TypeOK /\ [Next]_vars => TableStep
<1> SUFFICES ASSUME TypeOK, [Next]_vars PROVE TableStep
    OBVIOUS
<1>1. ASSUME NEW p \in Processes, Insert(p) PROVE TableStep
  <2>1. Inserted([item[p] EXCEPT !.id = issued + 1])  BY <1>1, InsertInserts
  <2> QED  BY <2>1 DEF TableStep, Inserted
<1>2. ASSUME NEW p \in Processes, Replace(p) PROVE TableStep
  <2>1. Replaced([item[p] EXCEPT !.version = item[p].version + 1])  BY <1>2, ReplaceReplaces
  <2> QED  BY <2>1 DEF TableStep, Replaced
<1>3. ASSUME NEW p \in Processes, Remove(p) PROVE TableStep
  <2>1. item[p].id \in Sites  BY <1>3 DEF TypeOK, Remove, Site
  <2> QED  BY <1>3, <2>1 DEF TableStep, Remove, Removed
<1>4. ASSUME NEW p \in Processes, RollbackCreated(p) PROVE TableStep
  <2>1. item[p].id \in Sites  BY <1>4 DEF TypeOK, RollbackCreated, Site
  <2> QED  BY <1>4, <2>1 DEF TableStep, RollbackCreated, Removed
<1>5. CASE UNCHANGED vars  BY <1>5 DEF vars, TableStep
<1>6. CASE Next
  <2>1. PICK p \in Processes :
            Mutate(p) \/ Synchronize(p) \/ Crash(p)
    BY <1>6 DEF Next
  <2>2. CASE Mutate(p)
    BY <2>2, <1>1, <1>2, <1>3, <1>4
    DEF Mutate, BeginCreate, BeginUpdate, BeginDelete, Lock, Store, StoreFails, Publish, TableStep
  <2>3. CASE Synchronize(p)
    BY <2>3 DEF Synchronize, ReadVersions, Compare, List, PublishListed, ReloadFails, TableStep
  <2>4. CASE Crash(p)  BY <2>4 DEF Crash, TableStep
  <2> QED  BY <2>1, <2>2, <2>3, <2>4
<1> QED  BY <1>5, <1>6

\* No change of the table brings a held runtime in front of its row: versions
\* only grow, and an id is never given out twice.
LEMMA BehindStays ==
    ASSUME TypeOK, RowsInv, TableStep, NEW x \in Site, Behind(x)
    PROVE  Behind(x)'
<1>0. rows \in [Sites -> Site \cup {None}] /\ issued \in Nat /\ x.id \in Sites /\ x.id \in Nat /\ x.version \in Nat
      /\ \A s \in Sites : rows[s] # None => rows[s].version \in Nat
  BY SiteAssumption DEF TypeOK, Site, Sites, Versions
<1>1. CASE UNCHANGED <<rows, issued>>  BY <1>1 DEF Behind
<1>2. ASSUME NEW y \in Site, Inserted(y) PROVE Behind(x)'
  <2>1. x.id # y.id /\ y.id \in Sites  BY <1>0, <1>2 DEF Behind, Inserted, Site
  <2>2. rows'[x.id] = rows[x.id]  BY <1>0, <1>2, <2>1 DEF Inserted
  <2> QED  BY <1>0, <1>2, <2>2 DEF Inserted, Behind
<1>3. ASSUME NEW y \in Site, Replaced(y) PROVE Behind(x)'
  <2>1. y.id \in Sites  BY DEF Site
  <2>2. CASE x.id = y.id
    <3>1. rows'[x.id] = y /\ issued' = issued  BY <1>0, <1>3, <2>1, <2>2 DEF Replaced
    <3>2. x.version < y.version /\ y.version \in Nat  BY <1>0, <1>3, <2>1, <2>2 DEF Replaced, Behind
    <3> QED  BY <3>1, <3>2, <1>0, <2>2 DEF Behind
  <2>3. CASE x.id # y.id
    <3>1. rows'[x.id] = rows[x.id] /\ issued' = issued  BY <1>0, <1>3, <2>1, <2>3 DEF Replaced
    <3> QED  BY <3>1 DEF Behind
  <2> QED  BY <2>2, <2>3
<1>4. ASSUME NEW s \in Sites, Removed(s) PROVE Behind(x)'
  <2>1. rows'[x.id] = None \/ rows'[x.id] = rows[x.id]  BY <1>0, <1>4 DEF Removed
  <2> QED  BY <1>4, <2>1 DEF Removed, Behind
<1> QED  BY <1>1, <1>2, <1>3, <1>4 DEF TableStep

\* A row stands under its own id, and only under an id that was issued.
LEMMA RowsStep == TypeOK /\ RowsInv /\ TableStep => RowsInv'
<1> SUFFICES ASSUME TypeOK, RowsInv, TableStep, NEW s \in Sites, rows'[s] # None
             PROVE  rows'[s].id = s /\ s <= issued'
    BY DEF RowsInv
<1>0. rows \in [Sites -> Site \cup {None}] /\ issued \in Nat /\ Sites \subseteq Nat
  BY SiteAssumption DEF TypeOK, Sites
<1>1. CASE UNCHANGED <<rows, issued>>  BY <1>1 DEF RowsInv
<1>2. ASSUME NEW y \in Site, Inserted(y) \/ Replaced(y) PROVE rows'[s].id = s /\ s <= issued'
  BY <1>0, <1>2 DEF RowsInv, Inserted, Replaced, Site
<1>3. ASSUME NEW t \in Sites, Removed(t) PROVE rows'[s].id = s /\ s <= issued'
  BY <1>0, <1>3 DEF RowsInv, Removed
<1> QED  BY <1>1, <1>2, <1>3 DEF TableStep

\* The row itself is not in front of the row.
LEMMA RowIsBehind ==
    ASSUME TypeOK, RowsInv, NEW s \in Sites, rows[s] # None
    PROVE  Behind(rows[s])
<1>1. rows[s].id = s /\ s <= issued  BY DEF RowsInv
<1>2. rows[s].version \in Nat  BY SiteAssumption DEF TypeOK, Site, Versions
<1> QED  BY <1>1, <1>2 DEF Behind

-----------------------------------------------------------------------------

LEMMA InitInv == Init => Inv
<1> SUFFICES ASSUME Init PROVE Inv
    OBVIOUS
<1>1. TypeOK  BY SiteAssumption DEF Init, TypeOK, EmptyTable, NoDomains, NoVersions
<1>2. RowsInv /\ SnapshotInv  BY DEF Init, RowsInv, SnapshotInv, EmptyTable
<1>3. ListInv /\ StoredInv /\ LockInv /\ CandidateInv  BY DEF Init, ListInv, StoredInv, LockInv, CandidateInv
<1> QED  BY <1>1, <1>2, <1>3 DEF Inv

\* The table keeps its type.
LEMMA TableTyped ==
    ASSUME TypeOK, TableStep
    PROVE  rows' \in [Sites -> Site \cup {None}] /\ issued' \in 0..MaxSites
<1>1. ASSUME NEW y \in Site, Inserted(y) PROVE issued' \in 0..MaxSites
  BY <1>1, SiteAssumption DEF TypeOK, Inserted, Site, Sites
<1> QED  BY <1>1 DEF TypeOK, TableStep, Inserted, Replaced, Removed

\* What the process keeps after the commit is the row as it was stored.
LEMMA StoredSite ==
    ASSUME TypeOK, NEW p \in Processes, Store(p)
    PROVE  /\ Stored(p) \in Site /\ mutation[p] \in {"create", "update", "delete"}
           /\ IF mutation[p] = "delete" THEN rows[Stored(p).id] # None /\ rows'[Stored(p).id] = None
              ELSE Stored(p) = rows'[Stored(p).id]
<1>1. CASE Insert(p)
  <2> DEFINE x == [item[p] EXCEPT !.id = issued + 1]
  <2>1. Inserted(x)  BY <1>1, InsertInserts
  <2>2. x \in Site /\ x.id = issued + 1 /\ x.id \in Sites  BY <2>1 DEF Inserted, Site
  <2>3. rows' = [rows EXCEPT ![x.id] = x]  BY <2>1 DEF Inserted
  <2> HIDE DEF x
  <2>4. rows'[x.id] = x  BY <2>2, <2>3 DEF TypeOK
  <2>5. Stored(p) = x  BY <1>1, <2>2, <2>4 DEF Insert, Stored
  <2> QED  BY <1>1, <2>2, <2>4, <2>5 DEF Insert
<1>2. CASE Replace(p)
  <2> DEFINE x == [item[p] EXCEPT !.version = item[p].version + 1]
  <2>1. Replaced(x)  BY <1>2, ReplaceReplaces
  <2>2. x.id = item[p].id  BY <1>2 DEF Replace, TypeOK, Site
  <2>3. x \in Site /\ x.id \in Sites /\ rows' = [rows EXCEPT ![x.id] = x]  BY <2>1 DEF Replaced, Site
  <2> HIDE DEF x
  <2>4. rows'[x.id] = x  BY <2>3 DEF TypeOK
  <2>5. Stored(p) = x  BY <1>2, <2>2, <2>4 DEF Replace, Stored
  <2> QED  BY <1>2, <2>3, <2>4, <2>5 DEF Replace
<1>3. CASE Remove(p)
  <2>1. item[p] \in Site /\ item[p].id \in Sites /\ Stored(p) = item[p]
    BY <1>3 DEF Remove, Stored, TypeOK, Site
  <2> QED  BY <1>3, <2>1 DEF Remove, TypeOK
<1> QED  BY <1>1, <1>2, <1>3 DEF Store

LEMMA TypeStep == TypeOK /\ [Next]_vars => TypeOK'
<1> SUFFICES ASSUME TypeOK, [Next]_vars PROVE TypeOK'
    OBVIOUS
<1>0. rows' \in [Sites -> Site \cup {None}] /\ issued' \in 0..MaxSites
  BY NextIsTableStep, TableTyped
<1>1. CASE UNCHANGED vars  BY <1>1 DEF vars, TypeOK
<1>2. ASSUME NEW p \in Processes, NEW x \in Site, NEW kind \in {"create", "update", "delete"}, Lock(p, kind, x)
      PROVE  TypeOK'
  BY <1>0, <1>2, SiteAssumption DEF Lock, TypeOK
<1>3. ASSUME NEW p \in Processes, BeginCreate(p) PROVE TypeOK'
  <2>1. PICK d \in Domains, prof \in Profiles, sound \in BOOLEAN :
            Lock(p, "create", [id |-> 1, version |-> 1, domain |-> d, profile |-> prof, sound |-> sound])
    BY <1>3 DEF BeginCreate
  <2> DEFINE x == [id |-> 1, version |-> 1, domain |-> d, profile |-> prof, sound |-> sound]
  <2>2. 1 \in Sites /\ 1 \in Versions  BY <1>3, SiteAssumption DEF BeginCreate, TypeOK, Sites, Versions
  <2>3. x \in Site  BY <2>2 DEF Site
  <2> QED  BY <1>2, <2>1, <2>3
<1>4. ASSUME NEW p \in Processes, BeginUpdate(p) PROVE TypeOK'
  <2>1. PICK s \in Sites, d \in Domains, prof \in Profiles :
            byID[p][s] # None /\ Lock(p, "update", [byID[p][s] EXCEPT !.domain = d, !.profile = prof])
    BY <1>4 DEF BeginUpdate
  <2>2. byID[p][s] \in Site  BY <2>1 DEF TypeOK
  <2>3. [byID[p][s] EXCEPT !.domain = d, !.profile = prof] \in Site  BY <2>2 DEF Site
  <2> QED  BY <1>2, <2>1, <2>3
<1>5. ASSUME NEW p \in Processes, BeginDelete(p) PROVE TypeOK'
  <2>1. PICK s \in Sites : byID[p][s] # None /\ Lock(p, "delete", byID[p][s])
    BY <1>5 DEF BeginDelete
  <2>2. byID[p][s] \in Site  BY <2>1 DEF TypeOK
  <2> QED  BY <1>2, <2>1, <2>2
<1>6. ASSUME NEW p \in Processes, Store(p) PROVE TypeOK'
  <2>1. Stored(p) \in Site /\ mutation[p] \in {"create", "update", "delete"}
    BY <1>6, StoredSite
  <2>2. mutation'[p] \in {"created", "updated", "deleted"}
        /\ mutation' = [mutation EXCEPT ![p] = mutation'[p]]
    BY <1>6, <2>1 DEF Store, TypeOK
  <2>3. item' = [item EXCEPT ![p] = Stored(p)] /\ UNCHANGED <<byID, byDomain, listed, sync, seen>>
    BY <1>6 DEF Store
  <2>4. item' \in [Processes -> Site \cup {None}]  BY <2>1, <2>3 DEF TypeOK
  <2>5. \A q \in Processes : item'[q] = None <=> mutation'[q] = "free"
    <3> TAKE q \in Processes
    <3>1. CASE q = p  BY <2>1, <2>2, <2>3, <3>1, SiteAssumption DEF TypeOK
    <3>2. CASE q # p  BY <2>2, <2>3, <3>2 DEF TypeOK
    <3> QED  BY <3>1, <3>2
  <2>6. mutation' \in [Processes -> {"free", "create", "update", "delete", "created", "updated", "deleted"}]
    <3>1. mutation'[p] \in {"free", "create", "update", "delete", "created", "updated", "deleted"}  BY <2>2
    <3> QED  BY <2>2, <3>1, <2>1 DEF TypeOK
  <2> QED  BY <1>0, <2>3, <2>4, <2>5, <2>6 DEF TypeOK
<1>7. ASSUME NEW p \in Processes, Unlock(p) PROVE TypeOK'
  BY <1>0, <1>7, SiteAssumption DEF Unlock, TypeOK
<1>8. ASSUME NEW p \in Processes, StoreFails(p) \/ RollbackCreated(p) PROVE TypeOK'
  BY <1>7, <1>8 DEF StoreFails, RollbackCreated
<1>9. ASSUME NEW p \in Processes, Publish(p) PROVE TypeOK'
  <2>1. item[p] \in Site  BY <1>9 DEF Publish, TypeOK
  <2>2. item[p].id \in Sites  BY <2>1 DEF Site
  <2>3. byID' \in [Processes -> [Sites -> Site \cup {None}]]
    BY <1>9, <2>1, <2>2 DEF Publish, TypeOK
  <2>4. byDomain' \in [Processes -> [Domains -> Site \cup {None}]]
    BY <1>9, <2>1 DEF Publish, TypeOK
  <2>5. mutation' = [mutation EXCEPT ![p] = "free"] /\ item' = [item EXCEPT ![p] = None]
        /\ UNCHANGED <<listed, sync, seen>>
    BY <1>9 DEF Publish
  <2> QED  BY <1>0, <2>3, <2>4, <2>5, SiteAssumption DEF TypeOK
<1>10. ASSUME NEW p \in Processes, Mutate(p) PROVE TypeOK'
  BY <1>3, <1>4, <1>5, <1>6, <1>8, <1>9, <1>10 DEF Mutate
<1>11. ASSUME NEW p \in Processes, ReadVersions(p) PROVE TypeOK'
  <2>1. VersionsOf(rows) \in [Sites -> 0..MaxVersion]
    BY SiteAssumption DEF VersionsOf, TypeOK, Site, Versions
  <2> QED  BY <1>0, <1>11, <2>1 DEF ReadVersions, TypeOK
<1>12. ASSUME NEW p \in Processes, Compare(p) PROVE TypeOK'
  <2>1. NoVersions \in [Sites -> 0..MaxVersion]  BY SiteAssumption DEF NoVersions
  <2> QED  BY <1>0, <1>12, <2>1 DEF Compare, TypeOK
<1>13. ASSUME NEW p \in Processes, List(p) PROVE TypeOK'
  BY <1>0, <1>13 DEF List, TypeOK
<1>14. ASSUME NEW p \in Processes, PublishListed(p) PROVE TypeOK'
  <2>1. listed[p] \in [Sites -> Site \cup {None}]  BY <1>14 DEF PublishListed, TypeOK
  <2>2. ByDomain(listed[p]) \in [Domains -> Site \cup {None}]  BY <2>1 DEF ByDomain
  <2> QED  BY <1>0, <1>14, <2>1, <2>2 DEF PublishListed, TypeOK
<1>15. ASSUME NEW p \in Processes, ReloadFails(p) PROVE TypeOK'
  BY <1>0, <1>15 DEF ReloadFails, TypeOK
<1>16. ASSUME NEW p \in Processes, Synchronize(p) PROVE TypeOK'
  BY <1>11, <1>12, <1>13, <1>14, <1>15, <1>16 DEF Synchronize
<1>17. ASSUME NEW p \in Processes, Crash(p) PROVE TypeOK'
  <2>1. EmptyTable \in [Sites -> Site \cup {None}] /\ NoDomains \in [Domains -> Site \cup {None}]
        /\ NoVersions \in [Sites -> 0..MaxVersion]
    BY SiteAssumption DEF EmptyTable, NoDomains, NoVersions
  <2> QED  BY <1>0, <1>17, <2>1, SiteAssumption DEF Crash, TypeOK
<1> HIDE DEF Mutate, Synchronize, Crash
<1> QED  BY <1>1, <1>10, <1>16, <1>17 DEF Next

\* The type invariant holds in every reachable state, for any sets of
\* processes, domains and profiles and any bounds.
THEOREM TypeCorrect == Spec => []TypeOK
<1>1. Init => TypeOK  BY InitInv DEF Inv
<1>2. TypeOK /\ [Next]_vars => TypeOK'  BY TypeStep
<1> QED  BY <1>1, <1>2, PTL DEF Spec

-----------------------------------------------------------------------------
(* The invariant is inductive: each holder of a runtime keeps or takes one *)
(* that is behind.                                                         *)

\* A step of one process leaves the memory of the others alone.
Untouched(q) ==
    /\ byID'[q] = byID[q] /\ mutation'[q] = mutation[q]
    /\ item'[q] = item[q] /\ listed'[q] = listed[q]

Memory(p) == Mutate(p) \/ Synchronize(p) \/ Crash(p)

LEMMA OthersUntouched ==
    ASSUME TypeOK, NEW p \in Processes, NEW q \in Processes, p # q, Memory(p)
    PROVE  Untouched(q)
<1>1. CASE Mutate(p)
  BY <1>1 DEF Mutate, BeginCreate, BeginUpdate, BeginDelete, Lock, Store, StoreFails, Unlock,
              Publish, RollbackCreated, Untouched, TypeOK
<1>2. CASE Synchronize(p)
  BY <1>2 DEF Synchronize, ReadVersions, Compare, List, PublishListed, ReloadFails, Untouched, TypeOK
<1>3. CASE Crash(p)  BY <1>3 DEF Crash, Untouched, TypeOK
<1> QED  BY <1>1, <1>2, <1>3 DEF Memory

\* What a step does to the memory of its own process.
Begins(p) ==
    /\ mutation[p] = "free" /\ listed[p] = None /\ mutation'[p] \in {"create", "update", "delete"}
    /\ mutation'[p] = "update" => /\ byID[p][item'[p].id] # None
                                  /\ item'[p].version = byID[p][item'[p].id].version
    /\ byID'[p] = byID[p] /\ listed'[p] = listed[p]
Stores(p) ==
    /\ mutation[p] # "free" /\ mutation'[p] \in {"created", "updated", "deleted"}
    /\ byID'[p] = byID[p] /\ listed'[p] = listed[p]
    /\ item'[p] \in Site
    /\ IF mutation'[p] = "deleted" THEN rows[item'[p].id] # None /\ rows'[item'[p].id] = None
       ELSE item'[p] = rows'[item'[p].id]
Frees(p) ==
    /\ mutation[p] # "free" /\ mutation'[p] = "free" /\ listed'[p] = listed[p]
    /\ \A s \in Sites : byID'[p][s] # byID[p][s] =>
           /\ item[p].id = s
           /\ \/ mutation[p] = "deleted" /\ byID'[p][s] = None
              \/ mutation[p] \in {"created", "updated"} /\ byID'[p][s] = item[p]
Lists(p) ==
    /\ mutation'[p] = mutation[p] /\ item'[p] = item[p] /\ mutation[p] = "free"
    /\ byID'[p] = byID[p] /\ listed'[p] = rows /\ UNCHANGED <<rows, issued>>
Loads(p) ==
    /\ mutation'[p] = mutation[p] /\ item'[p] = item[p] /\ listed[p] # None
    /\ listed'[p] = None /\ byID'[p] \in {listed[p], byID[p]}
Dies(p) == mutation'[p] = "free" /\ listed'[p] = None /\ byID'[p] = EmptyTable /\ sync'[p] = "down"

LEMMA OwnMemory ==
    ASSUME TypeOK, SnapshotInv, NEW p \in Processes, Memory(p)
    PROVE  \/ Begins(p) \/ Stores(p) \/ Frees(p) \/ Lists(p) \/ Loads(p) \/ Dies(p)
           \/ Untouched(p)
<1>1. CASE BeginCreate(p)
  BY <1>1 DEF BeginCreate, Lock, LockFree, Begins, TypeOK
<1>2. CASE BeginUpdate(p)
  <2>1. PICK s \in Sites, d \in Domains, prof \in Profiles :
            byID[p][s] # None /\ Lock(p, "update", [byID[p][s] EXCEPT !.domain = d, !.profile = prof])
    BY <1>2 DEF BeginUpdate
  <2> DEFINE x == [byID[p][s] EXCEPT !.domain = d, !.profile = prof]
  <2>2. byID[p][s] \in Site /\ byID[p][s].id = s  BY <2>1 DEF TypeOK, SnapshotInv
  <2>3. x.id = s /\ x.version = byID[p][s].version  BY <2>2 DEF Site
  <2> HIDE DEF x
  <2>4. item'[p] = x /\ mutation'[p] = "update" /\ LockFree(p) /\ byID' = byID /\ listed' = listed
    BY <2>1 DEF Lock, TypeOK, x
  <2> QED  BY <2>1, <2>3, <2>4 DEF LockFree, Begins
<1>3. CASE BeginDelete(p)
  BY <1>3 DEF BeginDelete, Lock, LockFree, Begins, TypeOK
<1>4. CASE Store(p)
  <2>1. /\ Stored(p) \in Site /\ mutation[p] \in {"create", "update", "delete"}
        /\ IF mutation[p] = "delete" THEN rows[Stored(p).id] # None /\ rows'[Stored(p).id] = None
           ELSE Stored(p) = rows'[Stored(p).id]
    BY <1>4, StoredSite
  <2>2. item'[p] = Stored(p)  BY <1>4 DEF Store, TypeOK
  <2>3. byID' = byID /\ listed' = listed  BY <1>4 DEF Store
  <2>4. mutation'[p] \in {"created", "updated", "deleted"} /\ (mutation'[p] = "deleted" <=> mutation[p] = "delete")
    BY <1>4, <2>1 DEF Store, TypeOK
  <2> QED  BY <2>1, <2>2, <2>3, <2>4 DEF Stores
<1>5. CASE StoreFails(p) \/ RollbackCreated(p)
  BY <1>5 DEF StoreFails, RollbackCreated, Unlock, Frees, TypeOK
<1>6. CASE Publish(p)
  <2>1. item[p] \in Site /\ item[p].id \in Sites  BY <1>6 DEF Publish, TypeOK, Site
  <2>2. byID'[p] = [byID[p] EXCEPT ![item[p].id] = IF mutation[p] = "deleted" THEN None ELSE item[p]]
    BY <1>6 DEF Publish, TypeOK
  <2>3. mutation[p] \in {"created", "updated", "deleted"} /\ mutation'[p] = "free" /\ listed' = listed
    BY <1>6 DEF Publish, TypeOK
  <2>4. byID[p] \in [Sites -> Site \cup {None}]  BY DEF TypeOK
  <2> QED  BY <2>1, <2>2, <2>3, <2>4 DEF Frees
<1>7. CASE List(p)
  BY <1>7 DEF List, LockFree, Lists, TypeOK
<1>8. CASE PublishListed(p) \/ ReloadFails(p)
  BY <1>8 DEF PublishListed, ReloadFails, Loads, TypeOK
<1>9. CASE ReadVersions(p) \/ Compare(p)
  BY <1>9 DEF ReadVersions, Compare, Untouched
<1>10. CASE Crash(p)  BY <1>10 DEF Crash, Dies, TypeOK
<1> QED  BY <1>1, <1>2, <1>3, <1>4, <1>5, <1>6, <1>7, <1>8, <1>9, <1>10 DEF Memory, Mutate, Synchronize

\* Either the table and one process's memory change as above, or nothing does.
LEMMA StepCases ==
    ASSUME TypeOK, [Next]_vars
    PROVE  \/ \E p \in Processes : Memory(p)
           \/ UNCHANGED <<rows, issued, byID, mutation, item, listed>>
<1>1. CASE UNCHANGED vars  BY <1>1 DEF vars
<1> QED  BY <1>1 DEF Next, Memory

LEMMA InvStep == Inv /\ [Next]_vars => Inv'
<1> SUFFICES ASSUME Inv, [Next]_vars PROVE Inv'
    OBVIOUS
<1> USE DEF Inv
<1>1. TypeOK' /\ TableStep /\ RowsInv'  BY TypeStep, NextIsTableStep, RowsStep
<1>2. ASSUME NEW x \in Site, Behind(x) PROVE Behind(x)'  BY <1>1, <1>2, BehindStays
<1>3. CASE UNCHANGED <<rows, issued, byID, mutation, item, listed>>
  BY <1>1, <1>3 DEF SnapshotInv, ListInv, StoredInv, LockInv, CandidateInv, Behind
<1>4. ASSUME NEW p \in Processes, Memory(p) PROVE Inv'
  <2> DEFINE Good(q) ==
        /\ \A s \in Sites : byID[q][s] # None => byID[q][s].id = s /\ Behind(byID[q][s])
        /\ listed[q] # None =>
             \A s \in Sites : listed[q][s] # None => listed[q][s].id = s /\ Behind(listed[q][s])
        /\ mutation[q] \in {"created", "updated"} => Behind(item[q])
        /\ mutation[q] # "free" => listed[q] = None
        /\ mutation[q] = "update" => /\ byID[q][item[q].id] # None
                                     /\ item[q].version = byID[q][item[q].id].version
  <2>1. \A q \in Processes : Good(q)
    BY DEF SnapshotInv, ListInv, StoredInv, LockInv, CandidateInv
  <2>2. \A q \in Processes :
          /\ \A s \in Sites : byID[q][s] # None => byID[q][s] \in Site
          /\ listed[q] # None => \A s \in Sites : listed[q][s] # None => listed[q][s] \in Site
          /\ mutation[q] # "free" => item[q] \in Site
    BY DEF TypeOK
  <2>3. ASSUME NEW q \in Processes, Untouched(q) PROVE Good(q)'
    BY <2>1, <2>2, <2>3, <1>2 DEF Untouched
  <2>4. ASSUME Begins(p) PROVE Good(p)'
    BY <2>1, <2>2, <2>4, <1>2 DEF Begins
  <2>5. ASSUME Stores(p) PROVE Good(p)'
    <3>1. mutation'[p] # "deleted" => Behind(item[p])'
      <4>1. item'[p].id \in Sites  BY <2>5 DEF Stores, Site
      <4>2. ASSUME mutation'[p] # "deleted" PROVE rows'[item'[p].id] # None
        BY <2>5, <4>2, SiteAssumption DEF Stores
      <4>3. ASSUME NEW s \in Sites, rows'[s] # None PROVE Behind(rows[s])'
        <5>1. rows'[s].id = s /\ s <= issued'  BY <1>1, <4>3 DEF RowsInv
        <5>2. rows'[s].version \in Nat  BY <1>1, <4>3, SiteAssumption DEF TypeOK, Site, Versions
        <5> QED  BY <5>1, <5>2 DEF Behind
      <4> QED  BY <2>5, <4>1, <4>2, <4>3 DEF Stores
    <3> QED  BY <2>1, <2>2, <2>5, <1>2, <3>1 DEF Stores
  <2>6. ASSUME Frees(p) PROVE Good(p)'
    BY <2>1, <2>2, <2>6, <1>2 DEF Frees
  <2>7. ASSUME Lists(p) PROVE Good(p)'
    <3>1. ASSUME NEW s \in Sites, rows[s] # None PROVE rows[s].id = s /\ rows[s] \in Site /\ Behind(rows[s])
      BY <3>1, RowIsBehind DEF TypeOK, RowsInv
    <3> QED  BY <2>1, <2>2, <2>7, <1>2, <3>1 DEF Lists
  <2>8. ASSUME Loads(p) PROVE Good(p)'
    BY <2>1, <2>2, <2>8, <1>2 DEF Loads
  <2>9. ASSUME Dies(p) PROVE Good(p)'
    BY <2>9 DEF Dies, EmptyTable
  <2>10. \A q \in Processes : Good(q)'
    BY <1>4, <2>3, <2>4, <2>5, <2>6, <2>7, <2>8, <2>9, OwnMemory, OthersUntouched
  <2> QED  BY <1>1, <2>10 DEF SnapshotInv, ListInv, StoredInv, LockInv, CandidateInv
<1> QED  BY <1>3, <1>4, StepCases

LEMMA Invariance == Spec => []Inv
<1>1. Init => Inv  BY InitInv
<1>2. Inv /\ [Next]_vars => Inv'  BY InvStep
<1> QED  BY <1>1, <1>2, PTL DEF Spec

\* Whatever the version check lets through is the stored row, for any number
\* of processes and however old their snapshots are.
THEOREM AdmittedRuntimesAreCurrent == Spec => []AdmittedIsCurrent
<1>1. Inv => AdmittedIsCurrent
  <2> SUFFICES ASSUME Inv, NEW p \in Processes, NEW s \in Sites, byID[p][s] # None, CheckCurrent(byID[p][s])
               PROVE  byID[p][s] = rows[s]
      BY DEF AdmittedIsCurrent
  <2>1. byID[p][s].id = s /\ Behind(byID[p][s])  BY DEF Inv, SnapshotInv
  <2> QED  BY <2>1 DEF Behind, CheckCurrent
<1> QED  BY <1>1, Invariance, PTL

\* No update is lost: the row that changes is the one the updating process had
\* in its snapshot, because the versions agree and the version identifies it.
THEOREM NoLostUpdate == Spec => UpdatesBuildOnCurrent
<1> DEFINE Builds ==
        \A s \in Sites : (rows[s] # None /\ rows'[s] # None /\ rows'[s] # rows[s]) =>
            \E p \in Processes : mutation[p] = "update" /\ byID[p][s] = rows[s]
<1>1. ASSUME Inv, NEW p \in Processes, Replace(p)
      PROVE  /\ mutation[p] = "update" /\ byID[p][item[p].id] = rows[item[p].id]
             /\ \A s \in Sites \ {item[p].id} : rows'[s] = rows[s]
  <2>1. item[p] \in Site /\ item[p].id \in Sites  BY <1>1 DEF Inv, TypeOK, Replace, Site
  <2>2. byID[p][item[p].id] # None /\ item[p].version = byID[p][item[p].id].version
    BY <1>1 DEF Inv, CandidateInv, Replace
  <2>3. byID[p][item[p].id].id = item[p].id /\ Behind(byID[p][item[p].id])
    BY <1>1, <2>1, <2>2 DEF Inv, SnapshotInv
  <2> QED  BY <1>1, <2>1, <2>2, <2>3 DEF Replace, Behind, Inv, TypeOK
<1>2. ASSUME Inv, NEW p \in Processes, Insert(p)
      PROVE  \A s \in Sites : rows[s] # None => rows'[s] = rows[s]
  <2>1. rows[issued + 1] = None \/ issued + 1 \notin Sites
    BY <1>2, SiteAssumption DEF Inv, RowsInv, TypeOK, Sites
  <2> QED  BY <1>2, <2>1 DEF Insert, Inv, TypeOK
<1>3. ASSUME Inv, NEW p \in Processes, Remove(p) \/ RollbackCreated(p)
      PROVE  \A s \in Sites : rows'[s] # None => rows'[s] = rows[s]
  BY <1>3 DEF Remove, RollbackCreated, Inv, TypeOK
<1>4. ASSUME Inv, NEW p \in Processes, StoreFails(p) \/ Store(p) PROVE Builds
  <2>1. Insert(p) \/ Replace(p) \/ Remove(p) \/ rows' = rows  BY <1>4 DEF Store, StoreFails
  <2>2. CASE Replace(p)
    <3> SUFFICES ASSUME NEW s \in Sites, rows'[s] # rows[s]
                 PROVE  mutation[p] = "update" /\ byID[p][s] = rows[s]
      OBVIOUS
    <3>1. s = item[p].id  BY <1>1, <1>4, <2>2
    <3> QED  BY <1>1, <1>4, <2>2, <3>1
  <2>3. CASE Insert(p)  BY <1>2, <1>4, <2>3
  <2>4. CASE Remove(p)  BY <1>3, <1>4, <2>4
  <2> QED  BY <2>1, <2>2, <2>3, <2>4
<1>5. Inv /\ [Next]_vars => Builds
  <2> SUFFICES ASSUME Inv, [Next]_vars PROVE Builds
    OBVIOUS
  <2>1. CASE rows' = rows  BY <2>1
  <2>2. ASSUME NEW p \in Processes, Mutate(p) PROVE Builds
    <3>1. CASE Store(p) \/ StoreFails(p)  BY <1>4, <3>1
    <3>2. CASE RollbackCreated(p)  BY <1>3, <3>2
    <3>3. CASE BeginCreate(p) \/ BeginUpdate(p) \/ BeginDelete(p) \/ Publish(p)
      <4>1. rows' = rows  BY <3>3 DEF BeginCreate, BeginUpdate, BeginDelete, Lock, Publish
      <4> QED  BY <2>1, <4>1
    <3> QED  BY <2>2, <3>1, <3>2, <3>3 DEF Mutate
  <2>3. ASSUME NEW p \in Processes, Synchronize(p) \/ Crash(p) PROVE rows' = rows
    BY <2>3 DEF Synchronize, ReadVersions, Compare, List, PublishListed, ReloadFails, Crash
  <2>4. CASE UNCHANGED vars  BY <2>1, <2>4 DEF vars
  <2> HIDE DEF Builds
  <2> QED  BY <2>1, <2>2, <2>3, <2>4 DEF Next
<1>6. Inv /\ [Next]_vars => [Builds]_vars  BY <1>5
<1> QED  BY <1>6, Invariance, PTL DEF Spec, UpdatesBuildOnCurrent

-----------------------------------------------------------------------------
(* No process goes back: what it is about to publish is at least as new as  *)
(* what it holds.                                                           *)

Gone(s) == s <= issued /\ rows[s] = None

LEMMA GoneStays ==
    ASSUME TypeOK, TableStep, NEW s \in Sites, Gone(s)
    PROVE  Gone(s)'
<1>0. rows \in [Sites -> Site \cup {None}] /\ issued \in Nat /\ s \in Nat
  BY SiteAssumption DEF TypeOK, Sites
<1>1. ASSUME NEW x \in Site, Inserted(x) \/ Replaced(x) PROVE Gone(s)'
  <2>1. s # x.id  BY <1>0, <1>1 DEF Gone, Inserted, Replaced
  <2>2. rows'[s] = rows[s]  BY <1>0, <1>1, <2>1 DEF Inserted, Replaced
  <2> QED  BY <1>0, <1>1, <2>2 DEF Gone, Inserted, Replaced
<1>2. ASSUME NEW t \in Sites, Removed(t) PROVE Gone(s)'
  BY <1>0, <1>2 DEF Gone, Removed
<1> QED  BY <1>1, <1>2 DEF Gone, TableStep

\* old may be followed by new in a snapshot.
Follows(s, new, old) == old # None => IF new = None THEN Gone(s) ELSE new.version >= old.version

Ahead(p) ==
    /\ listed[p] # None => \A s \in Sites : Follows(s, listed[p][s], byID[p][s])
    /\ mutation[p] \in {"created", "updated"} =>
           Follows(item[p].id, item[p], byID[p][item[p].id])
    /\ mutation[p] = "deleted" => Gone(item[p].id)

OrderInv == \A p \in Processes : Ahead(p)

LEMMA AheadStep ==
    ASSUME Inv, Inv', OrderInv, [Next]_vars, NEW p \in Processes
    PROVE  Ahead(p)'
<1>1. TypeOK /\ TableStep  BY NextIsTableStep DEF Inv
<1>2. ASSUME NEW s \in Sites, Gone(s) PROVE Gone(s)'  BY <1>1, <1>2, GoneStays
<1>3. Ahead(p)  BY DEF OrderInv
<1>4. mutation[p] # "free" => item[p] \in Site /\ item[p].id \in Sites /\ item[p] # None /\ listed[p] = None
  BY SiteAssumption DEF Inv, TypeOK, LockInv, Site
<1>5. \A s \in Sites : byID[p][s] # None => byID[p][s].id = s /\ Behind(byID[p][s]) /\ byID[p][s].version \in Nat
  BY SiteAssumption DEF Inv, TypeOK, SnapshotInv, Site, Versions
<1>6. CASE byID'[p] = byID[p] /\ mutation'[p] = mutation[p] /\ item'[p] = item[p] /\ listed'[p] = listed[p]
  BY <1>2, <1>3, <1>4, <1>6 DEF Ahead, Follows
<1>7. CASE Begins(p)  BY <1>7 DEF Begins, Ahead
<1>8. CASE Stores(p)
  <2>1. listed'[p] = None /\ byID'[p] = byID[p] /\ item'[p].id \in Sites /\ item'[p] # None
    BY <1>4, <1>8, SiteAssumption DEF Stores, Site
  <2>2. CASE mutation'[p] = "deleted"
    <3>1. rows[item'[p].id] # None /\ rows'[item'[p].id] = None  BY <1>8, <2>2 DEF Stores
    <3>2. item'[p].id <= issued  BY <2>1, <3>1 DEF Inv, RowsInv
    <3>3. issued <= issued'
      BY <1>1, SiteAssumption DEF TypeOK, TableStep, Inserted, Replaced, Removed
    <3>4. item'[p].id \in Nat /\ issued \in Nat /\ issued' \in Nat
      BY <2>1, SiteAssumption DEF Inv, TypeOK, Sites
    <3>5. item'[p].id <= issued'  BY <3>2, <3>3, <3>4
    <3> QED  BY <2>1, <2>2, <3>1, <3>5 DEF Ahead, Gone
  <2>3. CASE mutation'[p] \in {"created", "updated"}
    <3> DEFINE t == item'[p].id
    <3>1. rows'[t] = item'[p]  BY <1>8, <2>3 DEF Stores
    <3>2. ASSUME NEW s \in Sites, byID'[p][s] # None, rows'[s] # None
          PROVE  byID'[p][s].version <= rows'[s].version
      <4>1. byID'[p][s].id = s /\ Behind(byID[p][s])'  BY <3>2 DEF Inv, SnapshotInv
      <4> QED  BY <3>2, <4>1 DEF Behind
    <3>3. byID'[p][t] # None => byID'[p][t].version <= item'[p].version
      BY <2>1, <3>1, <3>2
    <3>4. byID'[p][t] # None => byID'[p][t].version \in Nat  BY <1>5, <2>1
    <3>5. item'[p].version \in Nat  BY <1>8, SiteAssumption DEF Stores, Site, Versions
    <3> QED  BY <2>1, <2>3, <3>3, <3>4, <3>5 DEF Ahead, Follows
  <2> QED  BY <1>8, <2>2, <2>3 DEF Stores
<1>9. CASE Frees(p)  BY <1>4, <1>9 DEF Frees, Ahead
<1>10. CASE Lists(p)
  <2>1. ASSUME NEW s \in Sites, byID[p][s] # None PROVE Follows(s, rows[s], byID[p][s])
    <3>1. rows[s] # None => rows[s].version \in Nat  BY SiteAssumption DEF Inv, TypeOK, Site, Versions
    <3> QED  BY <1>5, <2>1, <3>1 DEF Follows, Behind, Gone
  <2> QED  BY <1>10, <2>1 DEF Lists, Ahead, Follows, Gone
<1>11. CASE Loads(p) \/ Dies(p)  BY <1>4, <1>11 DEF Loads, Dies, Ahead
<1>12. ASSUME NEW q \in Processes, Memory(q) PROVE Ahead(p)'
  <2>1. CASE q = p
    BY <1>1, <1>6, <1>7, <1>8, <1>9, <1>10, <1>11, <1>12, <2>1, OwnMemory DEF Inv, Untouched
  <2>2. CASE q # p  BY <1>1, <1>6, <1>12, <2>2, OthersUntouched DEF Untouched
  <2> QED  BY <2>1, <2>2
<1> QED  BY <1>1, <1>6, <1>12, StepCases

\* A process never publishes an older runtime of a site over a newer one, nor
\* drops a site that is still stored.
THEOREM NoProcessGoesBack == Spec => NeverGoesBack
<1> DEFINE Forward ==
        \A p \in Processes, s \in Sites : (byID[p][s] # None /\ sync'[p] # "down") =>
            IF byID'[p][s] = None THEN rows[s] = None ELSE byID'[p][s].version >= byID[p][s].version
<1>1. Init => OrderInv  BY DEF Init, OrderInv, Ahead
<1>2. Inv /\ Inv' /\ OrderInv /\ [Next]_vars => OrderInv'
  BY AheadStep DEF OrderInv
<1>3. Inv /\ OrderInv /\ [Next]_vars => Forward
  <2> SUFFICES ASSUME Inv, OrderInv, [Next]_vars, NEW p \in Processes, NEW s \in Sites,
                      byID[p][s] # None, sync'[p] # "down"
               PROVE  IF byID'[p][s] = None THEN rows[s] = None ELSE byID'[p][s].version >= byID[p][s].version
      OBVIOUS
  <2>1. Ahead(p)  BY DEF OrderInv
  <2>2. byID[p][s].version \in Nat  BY SiteAssumption DEF Inv, TypeOK, Site, Versions
  <2>3. CASE byID'[p] = byID[p]  BY <2>2, <2>3
  <2>4. CASE Frees(p)
    <3>1. CASE byID'[p][s] = byID[p][s]  BY <2>2, <3>1
    <3>2. CASE byID'[p][s] # byID[p][s]  BY <2>1, <2>4, <3>2 DEF Frees, Ahead, Follows, Gone
    <3> QED  BY <3>1, <3>2
  <2>5. CASE Loads(p)  BY <2>1, <2>2, <2>5 DEF Loads, Ahead, Follows, Gone
  <2>6. ASSUME NEW q \in Processes, Memory(q)
        PROVE  byID'[p] = byID[p] \/ Frees(p) \/ Loads(p)
    <3>1. CASE q = p
      BY <2>6, <3>1, OwnMemory DEF Inv, Begins, Stores, Lists, Dies, Untouched
    <3>2. CASE q # p  BY <2>6, <3>2, OthersUntouched DEF Inv, Untouched
    <3> QED  BY <3>1, <3>2
  <2> QED  BY <2>3, <2>4, <2>5, <2>6, StepCases DEF Inv
<1>4. Inv /\ OrderInv /\ [Next]_vars => [Forward]_vars  BY <1>3
<1> QED  BY <1>1, <1>2, <1>4, Invariance, PTL DEF Spec, NeverGoesBack
-----------------------------------------------------------------------------
(* The two maps of a snapshot: what is published over them has a domain of  *)
(* its own, in the table, in a list and in the hand of a mutation.          *)

Distinct(sites) ==
    \A s, t \in Sites :
        (sites[s] # None /\ sites[t] # None /\ sites[s].domain = sites[t].domain) => s = t

OneSnapshot(p) ==
    /\ \A s \in Sites : byID[p][s] # None => byDomain[p][byID[p][s].domain] = byID[p][s]
    /\ \A d \in Domains : byDomain[p][d] # None =>
           byDomain[p][d].domain = d /\ byID[p][byDomain[p][d].id] = byDomain[p][d]

\* The site of a mutation fits into the snapshot it is published over.
Fits(p) ==
    /\ mutation[p] \in {"create", "created"} => byDomain[p][item[p].domain] = None
    /\ mutation[p] = "created" => byID[p][item[p].id] = None
    /\ mutation[p] \in {"update", "updated"} =>
           /\ byID[p][item[p].id] # None
           /\ byDomain[p][item[p].domain] # None => byDomain[p][item[p].domain].id = item[p].id
    /\ mutation[p] \in {"delete", "deleted"} => item[p] = byID[p][item[p].id]

MapsOf(p) == OneSnapshot(p) /\ Fits(p) /\ (listed[p] # None => Distinct(listed[p]))

MapsInv == Distinct(rows) /\ \A p \in Processes : MapsOf(p)

\* The unique index keeps the domains of the table apart.
LEMMA TableStaysDistinct ==
    ASSUME Inv, Distinct(rows), [Next]_vars
    PROVE  Distinct(rows)'
<1>0. rows \in [Sites -> Site \cup {None}]  BY DEF Inv, TypeOK
<1>1. ASSUME NEW x \in Site, DomainFree(x.domain, x.id), rows' = [rows EXCEPT ![x.id] = x]
      PROVE  Distinct(rows)'
  <2>1. x.id \in Sites /\ rows'[x.id] = x /\ \A t \in Sites \ {x.id} : rows'[t] = rows[t]
    BY <1>0, <1>1 DEF Site
  <2>2. \A t \in Sites \ {x.id} : rows'[t] # None => rows'[t].domain # x.domain
    BY <1>1, <2>1 DEF DomainFree
  <2> QED  BY <2>1, <2>2 DEF Distinct
<1>2. ASSUME NEW s \in Sites, rows' = [rows EXCEPT ![s] = None] PROVE Distinct(rows)'
  BY <1>0, <1>2 DEF Distinct
<1>3. ASSUME NEW p \in Processes, Insert(p) PROVE Distinct(rows)'
  <2> DEFINE x == [item[p] EXCEPT !.id = issued + 1]
  <2>1. Inserted(x)  BY <1>3, InsertInserts DEF Inv
  <2>2. item[p] \in Site  BY <1>3 DEF Inv, TypeOK, Insert
  <2>3. x \in Site /\ x.domain = item[p].domain /\ x.id = issued + 1 /\ rows' = [rows EXCEPT ![x.id] = x]
    BY <2>1, <2>2 DEF Inserted, Site
  <2> HIDE DEF x
  <2> QED  BY <1>1, <1>3, <2>3 DEF Insert
<1>4. ASSUME NEW p \in Processes, Replace(p) PROVE Distinct(rows)'
  <2> DEFINE x == [item[p] EXCEPT !.version = item[p].version + 1]
  <2>1. Replaced(x)  BY <1>4, ReplaceReplaces DEF Inv
  <2>2. item[p] \in Site  BY <1>4 DEF Inv, TypeOK, Replace
  <2>3. x \in Site /\ x.domain = item[p].domain /\ x.id = item[p].id /\ rows' = [rows EXCEPT ![x.id] = x]
    BY <2>1, <2>2 DEF Replaced, Site
  <2> HIDE DEF x
  <2> QED  BY <1>1, <1>4, <2>3 DEF Replace
<1>5. ASSUME NEW p \in Processes, Remove(p) \/ RollbackCreated(p) PROVE Distinct(rows)'
  <2>1. item[p].id \in Sites  BY <1>5 DEF Inv, TypeOK, Remove, RollbackCreated, Site
  <2>2. rows' = rows \/ rows' = [rows EXCEPT ![item[p].id] = None]
    BY <1>5 DEF Remove, RollbackCreated
  <2>3. rows' = rows => Distinct(rows)'  BY DEF Distinct
  <2> QED  BY <1>2, <2>1, <2>2, <2>3
<1>6. CASE rows' = rows  BY <1>6 DEF Distinct
<1>7. ASSUME NEW p \in Processes, Mutate(p) PROVE Distinct(rows)'
  BY <1>3, <1>4, <1>5, <1>6, <1>7
  DEF Mutate, BeginCreate, BeginUpdate, BeginDelete, Lock, Store, StoreFails, Publish
<1>8. ASSUME NEW p \in Processes, Synchronize(p) \/ Crash(p) PROVE rows' = rows
  BY <1>8 DEF Synchronize, ReadVersions, Compare, List, PublishListed, ReloadFails, Crash
<1>9. CASE UNCHANGED vars  BY <1>6, <1>9 DEF vars
<1> QED  BY <1>6, <1>7, <1>8, <1>9 DEF Next

\* A mutation replaces, adds or removes one site in both maps.
LEMMA PublishKeepsMaps ==
    ASSUME Inv, NEW p \in Processes, MapsOf(p), Publish(p)
    PROVE  OneSnapshot(p)'
<1> DEFINE x == item[p]
           before == byID[p][x.id]
<1>1. x \in Site /\ x.id \in Sites /\ x.domain \in Domains /\ x # None
  BY SiteAssumption DEF Inv, TypeOK, Publish, Site
<1>2. \A s \in Sites : byID[p][s] # None =>
          byID[p][s].id = s /\ byID[p][s] \in Site /\ byID[p][s].domain \in Domains
  BY DEF Inv, TypeOK, SnapshotInv, Site
<1>3. \A d \in Domains : byDomain[p][d] # None =>
          byDomain[p][d].id \in Sites /\ byDomain[p][d].domain = d /\ byID[p][byDomain[p][d].id] = byDomain[p][d]
  BY DEF MapsOf, OneSnapshot, Inv, TypeOK, Site
<1>4. \A s \in Sites : byID[p][s] # None => byDomain[p][byID[p][s].domain] = byID[p][s]
  BY DEF MapsOf, OneSnapshot
<1>5. /\ \A s \in Sites \ {x.id} : byID'[p][s] = byID[p][s]
      /\ byID'[p][x.id] = IF mutation[p] = "deleted" THEN None ELSE x
  BY <1>1 DEF Publish, Inv, TypeOK
<1>6. \A d \in Domains : byDomain'[p][d] =
          IF mutation[p] # "deleted" /\ d = x.domain THEN x
          ELSE IF before # None /\ before.domain = d THEN None
          ELSE byDomain[p][d]
  BY DEF Publish, Inv, TypeOK
<1>7. mutation[p] # "deleted" => byDomain[p][x.domain] = None \/ byDomain[p][x.domain].id = x.id
  BY DEF Publish, MapsOf, Fits
<1> HIDE DEF x, before
<1>8. ASSUME NEW s \in Sites, byID'[p][s] # None
      PROVE  byDomain'[p][byID'[p][s].domain] = byID'[p][s]
  <2>1. CASE s = x.id
    <3>1. byID'[p][s] = x /\ mutation[p] # "deleted"  BY <1>5, <1>8, <2>1
    <3> QED  BY <1>1, <1>6, <3>1
  <2>2. CASE s # x.id
    <3>1. byID'[p][s] = byID[p][s] /\ byID[p][s] # None /\ byID[p][s].id = s /\ byID[p][s].domain \in Domains
      BY <1>2, <1>5, <1>8, <2>2
    <3>2. byDomain[p][byID[p][s].domain] = byID[p][s]  BY <1>4, <3>1
    <3>3. mutation[p] # "deleted" => byID[p][s].domain # x.domain
      BY <1>7, <2>2, <3>1, <3>2
    <3>4. before # None => before.domain # byID[p][s].domain
      <4>1. before # None => before.id = x.id /\ byDomain[p][before.domain] = before
        BY <1>1, <1>2, <1>4 DEF before
      <4> QED  BY <2>2, <3>1, <3>2, <4>1
    <3> QED  BY <1>6, <3>1, <3>2, <3>3, <3>4
  <2> QED  BY <2>1, <2>2
<1>9. ASSUME NEW d \in Domains, byDomain'[p][d] # None
      PROVE  byDomain'[p][d].domain = d /\ byID'[p][byDomain'[p][d].id] = byDomain'[p][d]
  <2>1. CASE mutation[p] # "deleted" /\ d = x.domain
    <3>1. byDomain'[p][d] = x  BY <1>6, <2>1
    <3> QED  BY <1>1, <1>5, <2>1, <3>1
  <2>2. CASE ~(mutation[p] # "deleted" /\ d = x.domain)
    <3>1. byDomain'[p][d] = byDomain[p][d] /\ ~(before # None /\ before.domain = d)
      BY <1>6, <1>9, <2>2
    <3>2. byDomain[p][d].id \in Sites /\ byDomain[p][d].domain = d
          /\ byID[p][byDomain[p][d].id] = byDomain[p][d] /\ byDomain[p][d] # None
      BY <1>3, <1>9, <3>1
    <3>3. byDomain[p][d].id # x.id  BY <3>1, <3>2 DEF before
    <3> QED  BY <1>5, <3>1, <3>2, <3>3
  <2> QED  BY <2>1, <2>2
<1> QED  BY <1>8, <1>9 DEF OneSnapshot

\* A reload builds both maps from rows whose domains are distinct.
LEMMA ReloadBuildsMaps ==
    ASSUME Inv, NEW p \in Processes, MapsOf(p), PublishListed(p)
    PROVE  OneSnapshot(p)'
<1> DEFINE L == listed[p]
<1>1. byID'[p] = L /\ byDomain'[p] = ByDomain(L)  BY DEF PublishListed, Inv, TypeOK
<1>2. Distinct(L)  BY DEF MapsOf, PublishListed
<1>3. \A s \in Sites : L[s] # None => L[s].id = s /\ L[s].domain \in Domains
  BY DEF Inv, ListInv, TypeOK, PublishListed, Site
<1> HIDE DEF L
<1>4. ASSUME NEW d \in Domains, NEW s \in Sites, L[s] # None, L[s].domain = d
      PROVE  ByDomain(L)[d] = L[s]
  <2> DEFINE Holds(t) == L[t] # None /\ L[t].domain = d
  <2>1. \A t \in Sites : Holds(t) => t = s  BY <1>2, <1>4 DEF Distinct
  <2>2. (CHOOSE t \in Sites : Holds(t)) = s  BY <1>4, <2>1
  <2> QED  BY <1>4, <2>2 DEF ByDomain
<1>5. ASSUME NEW d \in Domains, ByDomain(L)[d] # None
      PROVE  \E s \in Sites : L[s] # None /\ L[s].domain = d
  BY <1>5 DEF ByDomain
<1> QED  BY <1>1, <1>3, <1>4, <1>5 DEF OneSnapshot

\* What an update or a create takes in hand is checked against the snapshot,
\* and the snapshot waits for it.
LEMMA MutationFits ==
    ASSUME Inv, Inv', NEW p \in Processes, MapsOf(p), Mutate(p)
    PROVE  Fits(p)'
<1>0. mutation'[p] = "free" => Fits(p)'  BY DEF Fits
<1>1. CASE BeginCreate(p)
  <2>1. PICK d \in Domains, prof \in Profiles, sound \in BOOLEAN :
            /\ byDomain[p][d] = None
            /\ Lock(p, "create", [id |-> 1, version |-> 1, domain |-> d, profile |-> prof, sound |-> sound])
    BY <1>1 DEF BeginCreate
  <2>2. item'[p].domain = d /\ mutation'[p] = "create" /\ byDomain' = byDomain
    BY <2>1 DEF Lock, Inv, TypeOK
  <2> QED  BY <2>1, <2>2 DEF Fits
<1>2. CASE BeginUpdate(p)
  <2>1. PICK s \in Sites, d \in Domains, prof \in Profiles :
            /\ byID[p][s] # None
            /\ byDomain[p][d] # None => byDomain[p][d].id = s
            /\ Lock(p, "update", [byID[p][s] EXCEPT !.domain = d, !.profile = prof])
    BY <1>2 DEF BeginUpdate
  <2> DEFINE x == [byID[p][s] EXCEPT !.domain = d, !.profile = prof]
  <2>2. byID[p][s] \in Site /\ byID[p][s].id = s  BY <2>1 DEF Inv, TypeOK, SnapshotInv
  <2>3. x.id = s /\ x.domain = d  BY <2>2 DEF Site
  <2> HIDE DEF x
  <2>4. item'[p] = x /\ mutation'[p] = "update" /\ byDomain' = byDomain /\ byID' = byID
    BY <2>1 DEF Lock, Inv, TypeOK, x
  <2> QED  BY <2>1, <2>3, <2>4 DEF Fits
<1>3. CASE BeginDelete(p)
  <2>1. PICK s \in Sites : byID[p][s] # None /\ Lock(p, "delete", byID[p][s])
    BY <1>3 DEF BeginDelete
  <2>2. byID[p][s].id = s  BY <2>1 DEF Inv, SnapshotInv
  <2>3. item'[p] = byID[p][s] /\ mutation'[p] = "delete" /\ byID' = byID
    BY <2>1 DEF Lock, Inv, TypeOK
  <2> QED  BY <2>2, <2>3 DEF Fits
<1>4. CASE Store(p)
  <2>1. item'[p] = Stored(p) /\ byID' = byID /\ byDomain' = byDomain
    BY <1>4 DEF Store, Inv, TypeOK
  <2>2. item[p] \in Site
    <3>1. mutation[p] # "free"  BY <1>4 DEF Store, Insert, Replace, Remove
    <3> QED  BY <3>1 DEF Inv, TypeOK
  <2>3. CASE Insert(p)
    <3> DEFINE x == [item[p] EXCEPT !.id = issued + 1]
    <3>1. x.id = issued + 1 /\ x.domain = item[p].domain  BY <2>2 DEF Site
    <3>2. rows' = [rows EXCEPT ![issued + 1] = x] /\ mutation[p] = "create"  BY <2>3 DEF Insert
    <3>3. issued + 1 \in Sites  BY <2>3, SiteAssumption DEF Insert, Inv, TypeOK, Sites
    <3> HIDE DEF x
    <3>4. Stored(p) = x  BY <3>2, <3>3 DEF Stored, Inv, TypeOK
    <3>5. mutation'[p] = "created"  BY <1>4, <3>2 DEF Store, Inv, TypeOK
    <3>6. byID[p][issued + 1] = None
      <4>1. ~(issued + 1 <= issued)  BY SiteAssumption DEF Inv, TypeOK
      <4> QED  BY <3>3, <4>1 DEF Inv, SnapshotInv, Behind
    <3>7. byDomain[p][item[p].domain] = None  BY <3>2 DEF MapsOf, Fits
    <3> QED  BY <2>1, <3>1, <3>4, <3>5, <3>6, <3>7 DEF Fits
  <2>4. CASE Replace(p)
    <3> DEFINE x == [item[p] EXCEPT !.version = item[p].version + 1]
    <3>1. x.id = item[p].id /\ x.domain = item[p].domain /\ item[p].id \in Sites  BY <2>2 DEF Site
    <3>2. rows' = [rows EXCEPT ![item[p].id] = x] /\ mutation[p] = "update"  BY <2>4 DEF Replace
    <3> HIDE DEF x
    <3>3. Stored(p) = x  BY <3>1, <3>2 DEF Stored, Inv, TypeOK
    <3>4. mutation'[p] = "updated"  BY <1>4, <3>2 DEF Store, Inv, TypeOK
    <3>5. byID[p][item[p].id] # None
          /\ (byDomain[p][item[p].domain] # None => byDomain[p][item[p].domain].id = item[p].id)
      BY <3>2 DEF MapsOf, Fits
    <3> QED  BY <2>1, <3>1, <3>3, <3>4, <3>5 DEF Fits
  <2>5. CASE Remove(p)
    <3>1. mutation[p] = "delete" /\ Stored(p) = item[p]  BY <2>5 DEF Remove, Stored
    <3>2. mutation'[p] = "deleted"  BY <1>4, <3>1 DEF Store, Inv, TypeOK
    <3> QED  BY <2>1, <3>1, <3>2 DEF MapsOf, Fits
  <2> QED  BY <1>4, <2>3, <2>4, <2>5 DEF Store
<1>5. CASE StoreFails(p) \/ Publish(p) \/ RollbackCreated(p)
  <2>1. mutation'[p] = "free"  BY <1>5 DEF StoreFails, Publish, RollbackCreated, Unlock, Inv, TypeOK
  <2> QED  BY <1>0, <2>1
<1> QED  BY <1>1, <1>2, <1>3, <1>4, <1>5 DEF Mutate

LEMMA OwnMaps ==
    ASSUME Inv, Inv', Distinct(rows), NEW p \in Processes, MapsOf(p), Memory(p)
    PROVE  MapsOf(p)'
<1>1. ASSUME byID'[p] = byID[p], byDomain'[p] = byDomain[p] PROVE OneSnapshot(p)'
  BY <1>1 DEF MapsOf, OneSnapshot
<1>2. ASSUME listed'[p] \in {listed[p], None} PROVE listed'[p] # None => Distinct(listed[p])'
  BY <1>2 DEF MapsOf, Distinct
<1>3. CASE Mutate(p)
  <2>1. OneSnapshot(p)'
    <3>1. CASE Publish(p)  BY <3>1, PublishKeepsMaps
    <3>2. CASE ~Publish(p)
      <4>1. byID' = byID /\ byDomain' = byDomain
        BY <1>3, <3>2 DEF Mutate, BeginCreate, BeginUpdate, BeginDelete, Lock, Store, StoreFails,
                          RollbackCreated, Unlock
      <4> QED  BY <1>1, <4>1
    <3> QED  BY <3>1, <3>2
  <2>2. listed' = listed
    BY <1>3 DEF Mutate, BeginCreate, BeginUpdate, BeginDelete, Lock, Store, StoreFails,
                RollbackCreated, Unlock, Publish
  <2> QED  BY <1>2, <1>3, <2>1, <2>2, MutationFits DEF MapsOf
<1>4. CASE Synchronize(p)
  <2>1. mutation' = mutation /\ item' = item
    BY <1>4 DEF Synchronize, ReadVersions, Compare, List, PublishListed, ReloadFails
  <2>2. CASE PublishListed(p)
    <3>1. mutation[p] = "free" /\ listed'[p] = None
      BY <2>2 DEF PublishListed, Inv, LockInv, TypeOK
    <3> QED  BY <2>1, <2>2, <3>1, ReloadBuildsMaps DEF MapsOf, Fits
  <2>3. CASE ~PublishListed(p)
    <3>1. byID' = byID /\ byDomain' = byDomain
      BY <1>4, <2>3 DEF Synchronize, ReadVersions, Compare, List, ReloadFails
    <3>2. Fits(p)'  BY <2>1, <3>1 DEF MapsOf, Fits
    <3>3. listed'[p] # None => Distinct(listed[p])'
      <4>1. listed'[p] \in {listed[p], None} \/ listed'[p] = rows
        BY <1>4, <2>3 DEF Synchronize, ReadVersions, Compare, List, ReloadFails, Inv, TypeOK
      <4>2. listed'[p] = rows => Distinct(listed[p])'  BY DEF Distinct
      <4> QED  BY <1>2, <4>1, <4>2
    <3> QED  BY <1>1, <3>1, <3>2, <3>3 DEF MapsOf
  <2> QED  BY <2>2, <2>3
<1>5. CASE Crash(p)
  <2>1. byID'[p] = EmptyTable /\ byDomain'[p] = NoDomains /\ mutation'[p] = "free" /\ listed'[p] = None
    BY <1>5 DEF Crash, Inv, TypeOK
  <2> QED  BY <2>1 DEF MapsOf, OneSnapshot, Fits, EmptyTable, NoDomains
<1> QED  BY <1>3, <1>4, <1>5 DEF Memory

LEMMA OthersMaps ==
    ASSUME Inv, NEW p \in Processes, NEW q \in Processes, p # q, Memory(p), MapsOf(q)
    PROVE  MapsOf(q)'
<1>1. Untouched(q)  BY OthersUntouched DEF Inv
<1>2. byDomain'[q] = byDomain[q]
  BY DEF Memory, Mutate, BeginCreate, BeginUpdate, BeginDelete, Lock, Store, StoreFails, Unlock,
         Publish, RollbackCreated, Synchronize, ReadVersions, Compare, List, PublishListed,
         ReloadFails, Crash, Inv, TypeOK
<1> QED  BY <1>1, <1>2 DEF Untouched, MapsOf, OneSnapshot, Fits, Distinct

\* In every process a domain leads to one site and a site to its domain, for
\* any number of sites and processes.
THEOREM SnapshotsAreConsistent == Spec => []MapsAgree
<1>1. Init => MapsInv
  BY SiteAssumption DEF Init, MapsInv, MapsOf, OneSnapshot, Fits, Distinct, EmptyTable, NoDomains
<1>2. Inv /\ Inv' /\ MapsInv /\ [Next]_vars => MapsInv'
  <2> SUFFICES ASSUME Inv, Inv', MapsInv, [Next]_vars PROVE MapsInv'
    OBVIOUS
  <2>1. Distinct(rows)'  BY TableStaysDistinct DEF MapsInv
  <2>2. ASSUME NEW q \in Processes PROVE MapsOf(q)'
    <3>1. CASE UNCHANGED vars
      BY <3>1 DEF vars, MapsInv, MapsOf, OneSnapshot, Fits, Distinct
    <3>2. ASSUME NEW p \in Processes, Memory(p) PROVE MapsOf(q)'
      BY <3>2, OwnMaps, OthersMaps DEF MapsInv
    <3> QED  BY <3>1, <3>2 DEF Next, Memory
  <2> QED  BY <2>1, <2>2 DEF MapsInv
<1>3. MapsInv => MapsAgree  BY DEF MapsInv, MapsOf, OneSnapshot, MapsAgree
<1> QED  BY <1>1, <1>2, <1>3, Invariance, PTL DEF Spec
================================================================================
