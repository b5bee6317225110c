----------------------------- MODULE CacheCoherence -----------------------------
(***************************************************************************)
(* The repository cache of the core module: read-through entries under     *)
(* dependency tags, and mutations that write to the database and then      *)
(* invalidate tags.  Processes share the database and the cache store;     *)
(* the striped locks around reads and around write-and-invalidate belong   *)
(* to a process, and so does the load lock of the store.                   *)
(*                                                                         *)
(* One cache key is followed at a time: keys do not influence each other.  *)
(* A token of the store is drawn anew by every invalidation and never      *)
(* comes back, so a captured set of tokens is dead from the first          *)
(* invalidation of one of its tags, and an entry written under dead tokens *)
(* is a miss.  Rows are reduced to the site and the parent of a resource.  *)
(***************************************************************************)
EXTENDS Naturals

CONSTANTS
    Processes,
    Readers, Writers,  \* requests that read the key, and that change rows
    Home,              \* Home[q]: the process of request q
    Sites,
    Resources,         \* ids of resources of the tree and of library items
    Items,             \* those that are library items, children of a library
    MaxWrites,         \* bound on the number of mutations
    None

ASSUME CacheAssumption ==
    /\ Home \in [Readers \cup Writers -> Processes]
    /\ Readers \cap Writers = {}
    /\ Items \subseteq Resources
    /\ MaxWrites \in Nat
    /\ None \notin Sites \cup Resources

VARIABLES
    existing,   \* the sites that have a row
    rows,       \* rows[r]: site of the resource, None without a row
    parent,     \* parent[r]: its parent or library
    key,        \* the cache key that is followed
    entry,      \* what the store returns for it
    at,         \* at[q]: where request q is
    reading,    \* reading[q]: tags whose locks q holds shared
    writing,    \* writing[q]: tags whose locks q holds exclusively
    fill,       \* fill[q]: the prepared write of a reader
    change,     \* change[q]: the mutation of a writer
    announced,  \* announced[q]: tags it has to invalidate after its commit
    writes      \* mutations begun

tableVars == <<existing, rows, parent>>
readVars == <<reading, fill>>
writeVars == <<writing, change, announced, writes>>
vars == <<tableVars, key, entry, at, readVars, writeVars>>

Requests == Readers \cup Writers

-----------------------------------------------------------------------------
(* Tags and the tree.                                                      *)

SitesTag == <<"sites">>
SiteTag(s) == <<"site", s>>
SiteResources(s) == <<"resources", s>>
SiteRoutes(s) == <<"routes", s>>
SiteTree(s) == <<"tree", s>>
ResourceTag(r) == <<"resource", r>>

Tags ==
    {SitesTag} \cup {ResourceTag(r) : r \in Resources \cup {None}}
        \cup UNION {{SiteTag(s), SiteResources(s), SiteRoutes(s), SiteTree(s)} : s \in Sites \cup {None}}

\* What is done to sites: a creation or update, and a deletion.
SiteOperations == {"site", "siteDelete"}

\* An update is "move" where routeChanged holds of it (a restored revision
\* always is), "reorder" where siblings get other positions, else "update".
Operations ==
    SiteOperations \cup {"create", "update", "media", "retire", "delete", "reorder", "widgets",
                        "move", "moveItem", "transfer"}

\* What a capture of a key's dependencies remembers, see Capture.
CaptureType ==
    [owner : Sites \cup {None}, tags : SUBSET Tags, dead : BOOLEAN, behind : BOOLEAN,
     missed : SUBSET {"failed", "descendant", "position", "transferred"}]

\* The arguments of a mutation, see Mutations.
MutationType ==
    [op : Operations, id : Resources \cup {None}, site : Sites \cup {None},
     to : Resources \cup Sites \cup {None}, lib : Resources \cup {None}]

ASSUME RecordAssumption == None \notin CaptureType \cup MutationType

Closed(S) == \A c \in S : parent[c] # None => parent[c] \in S

\* The resource, its parent, and so on up: what every closed set with it contains.
Ancestors(r) ==
    LET above == {S \in SUBSET Resources : r \in S /\ Closed(S)}
    IN  {a \in Resources : \A S \in above : a \in S}

ResourcesOf(s) == {r \in Resources : rows[r] = s}

Subtree(r) == {c \in Resources : rows[c] # None /\ r \in Ancestors(c)}

SiteOf(r) == IF r = None THEN None ELSE rows[r]

ChildrenOf(s, p) == {c \in Resources \ Items : rows[c] = s /\ parent[c] = p}
Siblings(r) == ChildrenOf(rows[r], parent[r]) \ {r}

-----------------------------------------------------------------------------
(* Mutations: what they lock, write and invalidate.                        *)

\* resourceTags and libraryItemTags of the resource as the mutation saw it.
EntityTags(m) ==
    {SiteResources(m.site), ResourceTag(m.id)}
        \cup (IF m.id \in Items THEN {ResourceTag(m.lib)} ELSE {})

Locked(m) ==
    CASE m.op = "create" -> EntityTags(m) \ {ResourceTag(m.id)}
      [] m.op = "transfer" -> EntityTags(m) \cup {SiteResources(m.to)}
      [] m.op = "moveItem" -> EntityTags(m) \cup {ResourceTag(m.to)}
      [] m.op = "media" -> {SiteResources(m.site), SiteTree(m.site)}
      [] m.op \in SiteOperations -> {SitesTag, SiteTag(m.site)}
      [] OTHER -> EntityTags(m)

\* treeMutationTags and the tags collected by each method.
Invalidated(m) ==
    CASE m.op = "transfer" ->
             Locked(m) \cup {SiteRoutes(m.site), SiteRoutes(m.to), SiteTree(m.site), SiteTree(m.to)}
                       \cup {ResourceTag(c) : c \in Subtree(m.id)}
      [] m.op \in {"move", "delete", "retire"} /\ m.id \notin Items ->
             EntityTags(m) \cup {SiteRoutes(m.site), SiteTree(m.site)}
      [] m.op = "create" \/ (m.id \in Items /\ m.op \in {"moveItem", "delete", "retire", "widgets"}) ->
             EntityTags(m) \cup Locked(m) \cup {SiteRoutes(m.site)}
      [] OTHER -> Locked(m)

\* The resources whose stored data (fields, path, position, version or the
\* stamp of the last update) the statement changes: every update sets path,
\* updated_at and updated_by of all descendants in the tree, the same path or
\* not (updateResourceDescendantPaths); reorderSiblings and finishRelated reach
\* siblings, the cascades the subtree or the whole site.
Touched(m) ==
    CASE m.op = "site" -> {}
      [] m.op = "siteDelete" -> ResourcesOf(m.site)
      [] m.op = "update" -> {m.id} \cup (Subtree(m.id) \ Items)
      [] m.op = "reorder" -> {m.id} \cup (Subtree(m.id) \ Items) \cup Siblings(m.id)
      [] m.op = "move" -> Subtree(m.id) \cup Siblings(m.id) \cup ChildrenOf(m.site, m.to)
      [] m.op \in {"transfer", "delete"} /\ m.id \notin Items -> Subtree(m.id) \cup Siblings(m.id)
      [] m.op = "retire" -> Subtree(m.id)
      [] OTHER -> {m.id}

\* The methods that read the resource themselves, before they take the locks,
\* and go on with the id alone: Delete, SoftDelete, Restore, mutateWidgets,
\* mutateLibraryItem, MoveLibraryItem.
ReadFirst(m) == m.op \in {"delete", "retire", "widgets", "moveItem"}

\* What the statement requires of the rows.  Update, transfer, a restored
\* revision and the file cascade compare a version or a token.
Valid(m) ==
    CASE m.op \in SiteOperations -> m.site \in existing
      [] m.op = "create" -> /\ rows[m.id] = None /\ m.site \in existing
                            /\ m.to = None \/ SiteOf(m.to) = m.site
      [] m.op = "transfer" -> rows[m.id] = m.site /\ m.to \in existing
      [] m.op = "move" -> /\ rows[m.id] = m.site /\ m.to \notin Subtree(m.id)
                          /\ m.to = None \/ SiteOf(m.to) = m.site
      [] m.op = "moveItem" -> rows[m.id] # None /\ rows[m.to] = rows[m.id]
      [] OTHER -> rows[m.id] # None /\ (rows[m.id] = m.site \/ ReadFirst(m))

\* Mutant: a transfer leaves the subtree behind.
ApplyToRootOnly(m) ==
    /\ rows' = [rows EXCEPT ![m.id] = IF m.op = "delete" THEN None ELSE IF m.op = "transfer" THEN m.to ELSE @]
    /\ UNCHANGED <<existing, parent>>

\* The rows after the statement.
Apply(m) ==
    LET tree == IF m.op = "siteDelete" THEN ResourcesOf(m.site) ELSE Subtree(m.id) IN
    /\ existing' = IF m.op = "siteDelete" THEN existing \ {m.site} ELSE existing
    /\ rows' = CASE m.op = "create" -> [rows EXCEPT ![m.id] = m.site]
                 [] m.op \in {"delete", "siteDelete"} -> [r \in Resources |-> IF r \in tree THEN None ELSE rows[r]]
                 [] m.op = "transfer" -> [r \in Resources |-> IF r \in tree THEN m.to ELSE rows[r]]
                 [] OTHER -> rows
    /\ parent' = CASE m.op \in {"create", "move", "moveItem"} -> [parent EXCEPT ![m.id] = m.to]
                   [] m.op \in {"delete", "siteDelete"} -> [r \in Resources |-> IF r \in tree THEN None ELSE parent[r]]
                   [] m.op = "transfer" -> [parent EXCEPT ![m.id] = None]
                   [] OTHER -> parent

\* Only these give or take a path: routeChanged, libraryRoutePattern.
ChangesRoutes(m) == m.op \in {"create", "move", "moveItem", "delete", "retire", "transfer", "siteDelete"}

\* The value of the key is no longer what the database would return.
ChangesKey(m) ==
    LET inSite == \E c \in Touched(m) : key.site \in {rows[c], rows'[c]} IN
    CASE key.kind = "sites" -> m.op \in SiteOperations
      [] key.kind = "resource" -> key.id \in Touched(m)
      [] key.kind = "list" -> inSite
      [] key.kind = "route" -> inSite /\ ChangesRoutes(m)

-----------------------------------------------------------------------------
(* The cache key and what a capture of its dependencies remembers.         *)

Key(kind, s, r) == [kind |-> kind, site |-> s, id |-> r]

\* A resource may be read through the runtime of any site.
Keys ==
    {Key("sites", None, None)}
        \cup {Key(kind, s, None) : kind \in {"list", "route"}, s \in Sites}
        \cup {Key("resource", s, r) : s \in Sites, r \in Resources}

\* The dependencies of a value that belongs to site s.
Dependencies(s) ==
    CASE key.kind = "sites" -> {SitesTag}
      [] key.kind = "list" -> {SiteTag(s), SiteResources(s)}
      [] key.kind = "route" -> {SiteTag(s), SiteRoutes(s)}
      [] key.kind = "resource" -> {SiteTag(s), SiteTree(s), ResourceTag(key.id)}

\* ByID and LibraryItemByID lock the resource, every other read its site.
ReadLocks ==
    CASE key.kind = "sites" -> {{SitesTag}}
      [] key.kind = "resource" -> {{ResourceTag(key.id)}, {SiteResources(key.site)}}
      [] OTHER -> {{SiteResources(key.site)}}

\* behind: the rows have changed since the load.  missed (a history variable):
\* why no invalidation of the change will reach the capture.
Capture(s) ==
    [owner |-> s, tags |-> Dependencies(s), dead |-> FALSE, behind |-> FALSE, missed |-> {}]

\* The resource has left the site in which the mutation found it.
Misplaced(m) == m.op \notin SiteOperations \cup {"create", "transfer"} /\ rows[m.id] # m.site

\* What the code does not announce, see the README on its findings: the stamp an
\* update puts on the descendants, the positions it gives to siblings, and what
\* a mutation does to a resource that has left the site in which it was read.
Excuse(m) ==
    (IF m.op \in {"update", "reorder"} /\ key.id \in Touched(m) \ {m.id}
     THEN {IF key.id \in Subtree(m.id) THEN "descendant" ELSE "position"} ELSE {})
        \cup (IF Misplaced(m) THEN {"transferred"} ELSE {})

Overtaken(c, m) ==
    IF c = None \/ ~ChangesKey(m) THEN c
    ELSE [c EXCEPT !.behind = TRUE,
                   !.missed = IF c.tags \cap Invalidated(m) = {} THEN @ \cup Excuse(m) ELSE @]

\* done are the tags that were invalidated, failed those that were not.
Drop(c, done, failed) ==
    IF c = None THEN None
    ELSE IF c.tags \cap done # {} THEN [c EXCEPT !.dead = TRUE]
    ELSE IF c.behind /\ c.tags \cap failed # {} THEN [c EXCEPT !.missed = @ \cup {"failed"}]
    ELSE c

Live(c) == IF c = None \/ c.dead THEN None ELSE c

-----------------------------------------------------------------------------

\* Children live in the site of their parent, items in a library.
Forest ==
    \A r \in Resources :
        /\ parent[r] # None => /\ parent[r] \notin Items
                               /\ rows[parent[r]] = rows[r] /\ rows[r] # None
                               /\ r \notin Ancestors(parent[r])
        /\ (r \in Items /\ rows[r] # None) => parent[r] # None

Init ==
    /\ existing = Sites
    /\ rows \in [Resources -> Sites \cup {None}]
    /\ parent \in [Resources -> Resources \cup {None}]
    /\ Forest
    /\ key \in Keys
    /\ entry = None
    /\ at = [q \in Requests |-> "idle"]
    /\ reading = [q \in Readers |-> {}]
    /\ fill = [q \in Readers |-> None]
    /\ writing = [q \in Writers |-> {}]
    /\ change = [q \in Writers |-> None]
    /\ announced = [q \in Writers |-> {}]
    /\ writes = 0

Neighbours(q, set) == {o \in set \ {q} : Home[o] = Home[q]}
Move(q, phase) == at' = [at EXCEPT ![q] = phase]

-----------------------------------------------------------------------------
(* A reader: withRepositoryCacheRead around readResource, readLibraryItem, *)
(* lookupRoute or RememberJSON.                                            *)

StartRead(q) ==
    /\ at[q] = "idle"
    /\ \E locks \in ReadLocks :
          /\ \A w \in Neighbours(q, Writers) : writing[w] \cap locks = {}
          /\ reading' = [reading EXCEPT ![q] = locks]
    /\ Move(q, "reading")
    /\ UNCHANGED <<tableVars, key, entry, fill, writeVars>>

EndRead(q) ==
    /\ Move(q, "idle")
    /\ reading' = [reading EXCEPT ![q] = {}]
    /\ fill' = [fill EXCEPT ![q] = None]
    /\ UNCHANGED <<tableVars, key, writeVars>>

Hit(q) ==
    /\ at[q] = "reading" /\ entry # None
    /\ EndRead(q)
    /\ UNCHANGED entry

\* A miss under the load lock: the tokens are captured before the load.
Prepare(q) ==
    /\ at[q] = "reading" /\ entry = None
    /\ \A o \in Neighbours(q, Readers) : fill[o] = None
    /\ fill' = [fill EXCEPT ![q] = Capture(key.site)]
    /\ Move(q, "prepared")
    /\ UNCHANGED <<tableVars, key, entry, reading, writeVars>>

\* The resource belongs to another site than the runtime: its owner's tags are
\* captured and it is loaded once more.
LoadForeign(q) ==
    /\ at[q] = "prepared" /\ key.kind = "resource"
    /\ rows[key.id] \notin {None, fill[q].owner} /\ fill[q].owner = key.site
    /\ fill' = [fill EXCEPT ![q] = Capture(rows[key.id])]
    /\ UNCHANGED <<tableVars, key, entry, at, reading, writeVars>>

Load(q) ==
    /\ at[q] = "prepared"
    /\ key.kind = "resource" => rows[key.id] = fill[q].owner
    /\ Move(q, "loaded")
    /\ UNCHANGED <<tableVars, key, entry, readVars, writeVars>>

\* The resource is gone, or changed its site again: nothing is stored.
LoadUnstorable(q) ==
    /\ at[q] = "prepared" /\ key.kind = "resource"
    /\ \/ rows[key.id] = None
       \/ rows[key.id] # fill[q].owner /\ fill[q].owner # key.site
    /\ EndRead(q)
    /\ UNCHANGED entry

\* Mutant: the value is stored under the tokens of the moment.
StoreUnprepared(q) ==
    /\ at[q] = "loaded"
    /\ entry' = [fill[q] EXCEPT !.dead = FALSE]
    /\ EndRead(q)

\* The prepared write replaces whatever the store has.
Store(q) ==
    /\ at[q] = "loaded"
    /\ entry' = Live(fill[q])
    /\ EndRead(q)

\* The context ends, the cache cannot prepare or write, the process stops.
AbandonRead(q) ==
    /\ at[q] # "idle"
    /\ EndRead(q)
    /\ UNCHANGED entry

\* TTL, eviction, or a flush.
Expire ==
    /\ entry # None
    /\ entry' = None
    /\ UNCHANGED <<tableVars, key, at, readVars, writeVars>>

-----------------------------------------------------------------------------
(* A writer: withRepositoryCacheWrite around the statement and the         *)
(* invalidation.                                                           *)

\* to is the new parent or library, or the site of a transfer.
Mutations ==
    LET M(op, r, to) == [op |-> op, id |-> r, site |-> rows[r], to |-> to, lib |-> parent[r]]
        present == {r \in Resources : rows[r] # None}
        branches == present \ Items
    IN  {[op |-> op, id |-> None, site |-> s, to |-> None, lib |-> None] :
                op \in SiteOperations, s \in existing}
            \cup {M(op, r, None) : op \in {"update", "media", "retire", "delete"}, r \in present}
            \cup {M("reorder", r, None) : r \in {c \in branches : Siblings(c) # {}}}
            \cup {M("widgets", r, None) : r \in branches}
            \cup {m \in {M("move", r, to) : r \in branches, to \in branches \cup {None}} : m.to # m.id}
            \cup {M("moveItem", r, to) : r \in present \cap Items, to \in branches}
            \cup {m \in {M("transfer", r, to) : r \in branches, to \in existing} : m.to # m.site}
            \cup {[op |-> "create", id |-> r, site |-> s, to |-> None, lib |-> None] :
                      r \in Resources \ (present \cup Items), s \in existing}
            \cup {[op |-> "create", id |-> r, site |-> rows[to], to |-> to, lib |-> to] :
                      r \in Resources \ present, to \in branches}

Begin(q) ==
    /\ at[q] = "idle" /\ writes < MaxWrites
    /\ \E m \in Mutations : ReadFirst(m) /\ change' = [change EXCEPT ![q] = m]
    /\ writes' = writes + 1
    /\ Move(q, "begun")
    /\ UNCHANGED <<tableVars, key, entry, readVars, writing, announced>>

\* Mutant: writers of the process exclude each other alone.
AcquireAmongWriters(q, locks) ==
    /\ \A w \in Neighbours(q, Writers) : writing[w] \cap locks = {}
    /\ writing' = [writing EXCEPT ![q] = locks]
    /\ Move(q, "locked")
    /\ UNCHANGED <<tableVars, key, entry, readVars, announced>>

Acquire(q, locks) ==
    /\ \A w \in Neighbours(q, Writers) : writing[w] \cap locks = {}
    /\ \A r \in Neighbours(q, Readers) : reading[r] \cap locks = {}
    /\ writing' = [writing EXCEPT ![q] = locks]
    /\ Move(q, "locked")
    /\ UNCHANGED <<tableVars, key, entry, readVars, announced>>

Lock(q) ==
    /\ at[q] = "begun"
    /\ Acquire(q, Locked(change[q]))
    /\ UNCHANGED <<change, writes>>

\* The others are handed what their caller read, and the statement is refused
\* when it is out of date: reading it earlier adds nothing.
BeginLocked(q) ==
    /\ at[q] = "idle" /\ writes < MaxWrites
    /\ \E m \in Mutations :
          /\ ~ReadFirst(m)
          /\ Acquire(q, Locked(m))
          /\ change' = [change EXCEPT ![q] = m]
    /\ writes' = writes + 1

EndWrite(q) ==
    /\ Move(q, "idle")
    /\ writing' = [writing EXCEPT ![q] = {}]
    /\ change' = [change EXCEPT ![q] = None]
    /\ announced' = [announced EXCEPT ![q] = {}]
    /\ UNCHANGED <<tableVars, key, reading, writes>>

Commit(q) ==
    LET m == change[q] IN
    /\ at[q] = "locked" /\ Valid(m)
    /\ Apply(m)
    /\ entry' = Overtaken(entry, m)
    /\ fill' = [r \in Readers |-> IF at[r] = "loaded" THEN Overtaken(fill[r], m) ELSE fill[r]]
    /\ announced' = [announced EXCEPT ![q] = Invalidated(m)]
    /\ Move(q, "committed")
    /\ UNCHANGED <<key, reading, writing, change, writes>>

DropAll(done, failed) ==
    /\ entry' = Live(Drop(entry, done, failed))
    /\ fill' = [r \in Readers |-> Drop(fill[r], done, failed)]

Captures == ({entry} \cup {fill[r] : r \in Readers}) \ {None}

\* The coordinator goes on after a tag that failed; errors are dropped.  Every
\* tag fails when the answer of the commit is lost or the process stops before:
\* what was committed is then never invalidated.
Invalidate(q) ==
    /\ at[q] = "committed"
    /\ \E failed \in SUBSET (announced[q] \cap UNION {c.tags : c \in Captures}) :
          DropAll(announced[q] \ failed, failed)
    /\ EndWrite(q)

\* The statement is refused or fails, or the process stops before it.
AbandonWrite(q) ==
    /\ at[q] \in {"begun", "locked"}
    /\ EndWrite(q)
    /\ UNCHANGED <<entry, fill>>

Read(q) ==
    \/ StartRead(q) \/ Hit(q) \/ Prepare(q) \/ LoadForeign(q) \/ Load(q)
    \/ LoadUnstorable(q) \/ Store(q) \/ AbandonRead(q)

Write(q) == Begin(q) \/ Lock(q) \/ BeginLocked(q) \/ Commit(q) \/ Invalidate(q) \/ AbandonWrite(q)

Next ==
    \/ \E q \in Readers : Read(q)
    \/ \E q \in Writers : Write(q)
    \/ Expire

Spec == Init /\ [][Next]_vars

-----------------------------------------------------------------------------
(* Properties.                                                             *)

\* The types, the shape of the tree under every mutation, that resources are of
\* sites that exist, and that a request gives back its locks and its prepared
\* write when it ends.
TypeOK ==
    /\ existing \subseteq Sites
    /\ rows \in [Resources -> existing \cup {None}]
    /\ parent \in [Resources -> Resources \cup {None}]
    /\ Forest
    /\ key \in Keys
    /\ entry \in CaptureType \cup {None}
    /\ entry # None => ~entry.dead
    /\ at \in [Requests -> {"idle", "reading", "prepared", "loaded", "begun", "locked", "committed"}]
    /\ reading \in [Readers -> ReadLocks \cup {{}}]
    /\ fill \in [Readers -> CaptureType \cup {None}]
    /\ writing \in [Writers -> SUBSET Tags]
    /\ change \in [Writers -> MutationType \cup {None}]
    /\ announced \in [Writers -> SUBSET Tags]
    /\ \A q \in Readers : /\ fill[q] # None <=> at[q] \in {"prepared", "loaded"}
                          /\ reading[q] = {} <=> at[q] = "idle"
    /\ \A q \in Writers : /\ change[q] = None <=> at[q] = "idle"
                          /\ writing[q] # {} <=> at[q] \in {"locked", "committed"}
                          /\ announced[q] # {} <=> at[q] = "committed"
    /\ writes \in 0..MaxWrites

Stored == ({entry} \cup {fill[q] : q \in {r \in Readers : at[r] = "loaded"}}) \ {None}

\* A request has committed a change and is about to invalidate a dependency of c.
AwaitedBy(c, q) == announced[q] \cap c.tags # {}

\* A value that is stored, or will be by a load in progress, is only ever older
\* than the rows while the writer that overtook it is on its way to
\* invalidate it, in this process or another: whatever loads, commits and
\* invalidations cross, none leaves a stale entry behind to live until its
\* TTL.  Four causes are excepted, each for the values it reaches alone: a
\* failed invalidation of one of their tags ("failed"); the stamp that an
\* update of an ancestor puts on a resource ("descendant"); the position that
\* an update of a sibling gives it ("position"); a deletion, widget change or
\* move of an item that was transferred after it was read ("transferred").
StaleIsAnnounced ==
    \A c \in Stored :
        (c.behind /\ ~c.dead /\ c.missed = {}) => \E q \in Writers : AwaitedBy(c, q)

\* The same without the exceptions but failures: every write path announces
\* what it changes, and a cached read is fresh after any mutation that went
\* well.  The code does not keep this: Update announces the resource it was
\* called for, and writes to its descendants and siblings too.
EveryWriteIsAnnounced ==
    \A c \in Stored :
        (c.behind /\ ~c.dead /\ "failed" \notin c.missed) => \E q \in Writers : AwaitedBy(c, q)

\* Within a process the locks hide even that moment for what is read under
\* the lock of its site (or of the list of sites): a request that finds an
\* old value there finds it because of a writer in another process, of a
\* writer of another site, or of the deletion of the site, which does not take
\* the lock of the site's resources.  The four causes above are excepted here
\* too.
OwnWritesAreSeen ==
    \A q \in Readers :
        (/\ at[q] = "reading" /\ reading[q] \cap {SitesTag, SiteResources(key.site)} # {}
         /\ entry # None /\ entry.behind /\ entry.missed = {} /\ entry.owner = key.site)
            => \E w \in Writers :
                  /\ AwaitedBy(entry, w)
                  /\ \/ Home[w] # Home[q]
                     \/ change[w].op # "transfer" /\ change[w].site # key.site
                     \/ change[w].op = "siteDelete" /\ key.kind # "sites"
================================================================================
