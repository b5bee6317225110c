---------------------------- MODULE FileDeletionProofs ----------------------------
(***************************************************************************)
(* The safety of file deletion for any number of processes and requests.   *)
(***************************************************************************)
EXTENDS FileDeletion, TLAPS

-----------------------------------------------------------------------------
(* The inductive invariant.                                                *)

Views == [version : 1..MaxVersion, shows : BOOLEAN]
Updates == [phase : {"prepared", "locked", "stored"}, shows : BOOLEAN]

\* The full types.
Typed ==
    /\ TypeOK
    /\ runtime \in [Processes -> Views \cup {None}]
    /\ mutationMu \in [Processes -> {None, Update} \cup Deleters]
    /\ cacheLock \in [Processes -> {None, Update} \cup Deleters]
    /\ locks \in [Deleters -> Seq({"mutation", "cache"})]
    /\ found \in [Deleters -> SUBSET Owners]
    /\ update \in [Processes -> Updates \cup {None}]
    /\ retry \in [Processes -> BOOLEAN]

\* What a process serves is not newer than the row, and agrees with the row of
\* its version.
ServedAt(p) ==
    Up(p) =>
        /\ runtime[p].version <= version
        /\ runtime[p].version = version => (runtime[p].shows <=> "site" \in refs)

ServedInv == \A p \in Processes : ServedAt(p)

\* Once the operation is recorded the media is gone for good, and a request
\* publishes only after that.
GoneInv ==
    /\ operation # None => ~media /\ refs = {}
    /\ \A d \in Deleters : at[d] = "committed" => operation # None

\* A request goes on only in a running process, and one that holds mutationMu
\* replaces a runtime that shows the file.
ReplacesInv ==
    \A d \in Deleters :
        /\ at[d] # "idle" => Up(Home[d])
        /\ HasMutationMu(d) =>
              /\ at[d] \in {"locking", "transaction", "uncertain", "committed"}
              /\ runtime[Home[d]].shows

\* A transaction removes one occurrence at most.
FoundInv ==
    \A d \in Deleters : at[d] = "transaction" => \A o, q \in found[d] : o = q

\* A stored update is what its process publishes next, unless the row has
\* moved on since.
UpdatedAt(p) ==
    update[p] # None =>
        /\ Up(p)
        /\ update[p].phase = "stored" =>
              /\ runtime[p].version + 1 <= version
              /\ runtime[p].version + 1 = version => (update[p].shows <=> "site" \in refs)

UpdateInv == \A p \in Processes : UpdatedAt(p)

IInv == Typed /\ ServedInv /\ GoneInv /\ ReplacesInv /\ FoundInv /\ UpdateInv

-----------------------------------------------------------------------------
(* Types.                                                                  *)

LEMMA Basics ==
    /\ \A d \in Deleters : Home[d] \in Processes /\ d # None /\ d # Update
    /\ None # Update /\ None # "pending" /\ None # "completed"
    /\ MaxVersion \in Nat \ {0}
BY DeletionAssumption

LEMMA NotRecords == None \notin Views /\ None \notin Updates
BY DeletionAssumption DEF Views, Updates

LEMMA LockOrders ==
    \A seen \in SUBSET Owners :
        LockOrder(seen) \in Seq({"mutation", "cache"}) /\ LockOrder(seen) # <<>>
<1>1. <<"mutation", "cache">> \in Seq({"mutation", "cache"}) /\ <<"mutation", "cache">> # <<>>
  OBVIOUS
<1>2. <<"cache">> \in Seq({"mutation", "cache"}) /\ <<"cache">> # <<>>
  OBVIOUS
<1>3. QED
  BY <1>1, <1>2 DEF LockOrder

LEMMA EndTyped ==
    ASSUME Typed, NEW d \in Deleters, End(d),
           UNCHANGED <<runtime, update>>, retry' \in [Processes -> BOOLEAN],
           UNCHANGED <<media, refs, version>>, bytes' \in BOOLEAN,
           operation' \in {None, "pending", "completed"}
    PROVE  Typed'
<1> USE Basics DEF Typed, TypeOK, End, Release, Move, Up
<1>1. TypeOK'
  <2>1. at'[d] = "idle" /\ locks'[d] = <<>> /\ found'[d] = {}
        /\ d \notin {mutationMu'[Home[d]], cacheLock'[Home[d]], mediaLock'}
    <3>1. Home[d] \in Processes /\ d # None
      OBVIOUS
    <3>2. at'[d] = "idle" /\ locks'[d] = <<>> /\ found'[d] = {} /\ mediaLock' # d
      BY <3>1
    <3>3. mutationMu'[Home[d]] # d /\ cacheLock'[Home[d]] # d
      BY <3>1
    <3>4. QED
      BY <3>2, <3>3
  <2>2. ASSUME NEW e \in Deleters \ {d}
        PROVE  /\ at'[e] = at[e] /\ locks'[e] = locks[e] /\ found'[e] = found[e]
               /\ mutationMu'[Home[e]] = e => mutationMu[Home[e]] = e
               /\ cacheLock'[Home[e]] = e => cacheLock[Home[e]] = e
               /\ mediaLock' = e <=> mediaLock = e
    OBVIOUS
  <2>3. ASSUME NEW p \in Processes
        PROVE  /\ mutationMu'[p] \in {None, Update} \cup {e \in Deleters : Home[e] = p}
               /\ cacheLock'[p] \in {None, Update} \cup {e \in Deleters : Home[e] = p}
               /\ mutationMu'[p] = Update <=> mutationMu[p] = Update
    <3>1. CASE p = Home[d]
      BY <3>1
    <3>2. CASE p # Home[d]
      BY <3>2
    <3>3. QED
      BY <3>1, <3>2
  <2>4. at' \in [Deleters -> {"idle", "locking", "transaction", "committed", "uncertain",
                              "published", "cleaning"}]
    OBVIOUS
  <2>5. QED
    BY <2>1, <2>2, <2>3, <2>4
<1>2. /\ mutationMu' \in [Processes -> {None, Update} \cup Deleters]
      /\ cacheLock' \in [Processes -> {None, Update} \cup Deleters]
  OBVIOUS
<1>3. /\ locks' \in [Deleters -> Seq({"mutation", "cache"})]
      /\ found' \in [Deleters -> SUBSET Owners]
  OBVIOUS
<1>4. QED
  BY <1>1, <1>2, <1>3

\* When a request may publish, the row is newer than the runtime it replaces:
\* that one shows the file, and the row does not refer to it any more.
LEMMA ReplacedIsOlder ==
    ASSUME Typed, ServedInv, GoneInv, ReplacesInv,
           NEW d \in Deleters, at[d] = "committed", HasMutationMu(d)
    PROVE  /\ Up(Home[d]) /\ "site" \notin refs
           /\ runtime[Home[d]].version + 1 <= version
           /\ runtime[Home[d]].version + 1 \in 1..MaxVersion
<1>1. Home[d] \in Processes /\ refs = {} /\ version \in 1..MaxVersion
  BY Basics DEF GoneInv, Typed, TypeOK
<1>2. Up(Home[d]) /\ runtime[Home[d]].shows /\ runtime[Home[d]].version \in 1..MaxVersion
  BY <1>1 DEF ReplacesInv, Typed, TypeOK
<1>3. runtime[Home[d]].version <= version /\ runtime[Home[d]].version # version
  BY <1>1, <1>2 DEF ServedInv, ServedAt
<1>4. QED
  BY <1>1, <1>2, <1>3, Basics

LEMMA RequestTyped ==
    ASSUME Typed, ServedInv, GoneInv, ReplacesInv, NEW d \in Deleters, Preflight(d) \/ Continue(d)
    PROVE  Typed'
<1> USE Basics DEF Typed, TypeOK, Move, Up, Awaits, tables, owned
<1>1. CASE Preflight(d)
  BY <1>1, LockOrders DEF Preflight
<1>2. CASE TakeMutationMu(d)
  BY <1>2 DEF TakeMutationMu
<1>3. CASE TakeCacheLock(d)
  BY <1>3 DEF TakeCacheLock
<1>4. CASE PreparationFails(d)
  BY <1>4, EndTyped DEF PreparationFails
<1>5. CASE Refuse(d)
  BY <1>5, EndTyped DEF Refuse
<1>6. CASE BeginTransaction(d)
  BY <1>6 DEF BeginTransaction
<1>7. CASE Commit(d)
  <2>1. PICK phase \in {"committed", "uncertain"} : Move(d, phase)
    BY <1>7 DEF Commit
  <2>2. version' \in 1..MaxVersion
    BY <1>7 DEF Commit, Commits
  <2>3. /\ media' = FALSE /\ refs' = {} /\ operation' = "pending" /\ mediaLock' = None
        /\ mediaLock = d
        /\ UNCHANGED <<bytes, runtime, mutationMu, cacheLock, locks, found, update, retry>>
    BY <1>7 DEF Commit, Commits
  <2>4. /\ at' \in [Deleters -> {"idle", "locking", "transaction", "committed", "uncertain",
                                "published", "cleaning"}]
        /\ at'[d] = phase /\ \A e \in Deleters \ {d} : at'[e] = at[e] /\ at[e] # "transaction"
    BY <2>1, <2>3
  <2>5. ASSUME NEW e \in Deleters
        PROVE  /\ at'[e] = "idle" => /\ locks'[e] = <<>> /\ found'[e] = {}
                                     /\ e \notin {mutationMu'[Home[e]], cacheLock'[Home[e]], mediaLock'}
               /\ mediaLock' = e <=> at'[e] = "transaction"
    BY <2>3, <2>4
  <2>6. TypeOK'
    BY <2>2, <2>3, <2>4, <2>5
  <2>7. QED
    BY <2>3, <2>6
<1>8. CASE CommitLost(d)
  BY <1>8 DEF CommitLost
<1>9. CASE CheckCommitted(d)
  BY <1>9 DEF CheckCommitted
<1>10. CASE CheckFails(d)
  BY <1>10, EndTyped DEF CheckFails
<1>11. CASE Publish(d)
  <2>1. /\ runtime' \in [Processes -> Views \cup {None}]
        /\ \A p \in Processes : runtime'[p] # None => runtime'[p].version \in 1..MaxVersion
    <3>1. CASE HasMutationMu(d)
      <4>1. Up(Home[d]) /\ runtime[Home[d]].version + 1 \in 1..MaxVersion
        BY <1>11, <3>1, ReplacedIsOlder DEF Publish
      <4>2. Runtime(runtime[Home[d]].version + 1, FALSE) \in Views
            /\ Runtime(runtime[Home[d]].version + 1, FALSE).version \in 1..MaxVersion
        BY <4>1 DEF Runtime, Views
      <4>3. runtime' = [runtime EXCEPT ![Home[d]] = Runtime(runtime[Home[d]].version + 1, FALSE)]
        BY <1>11, <3>1 DEF Publish
      <4>4. Home[d] \in Processes
        OBVIOUS
      <4>5. runtime' \in [Processes -> Views \cup {None}]
        BY <4>2, <4>3
      <4>6. ASSUME NEW p \in Processes, runtime'[p] # None
            PROVE  runtime'[p].version \in 1..MaxVersion
        <5>1. CASE p = Home[d]
          BY <4>2, <4>3, <5>1
        <5>2. CASE p # Home[d]
          BY <4>3, <4>6, <5>2
        <5>3. QED
          BY <5>1, <5>2
      <4>7. QED
        BY <4>5, <4>6
    <3>2. CASE ~HasMutationMu(d)
      BY <1>11, <3>2 DEF Publish
    <3>3. QED
      BY <3>1, <3>2
  <2>2. Move(d, "published") /\ mutationMu' = Release(mutationMu, d) /\ at[d] = "committed"
        /\ UNCHANGED <<tables, bytes, cacheLock, mediaLock, locks, found, update, retry>>
    BY <1>11 DEF Publish
  <2>3. \A p \in Processes :
          /\ mutationMu'[p] \in {None, Update} \cup {e \in Deleters : Home[e] = p}
          /\ mutationMu'[p] = Update <=> mutationMu[p] = Update
          /\ \A e \in Deleters : mutationMu'[p] = e => mutationMu[p] = e
    <3>1. ASSUME NEW p \in Processes, p # Home[d] PROVE mutationMu'[p] = mutationMu[p]
      BY <2>2, <3>1 DEF Release
    <3>2. mutationMu'[Home[d]] = IF mutationMu[Home[d]] = d THEN None ELSE mutationMu[Home[d]]
      BY <2>2 DEF Release
    <3>3. QED
      BY <3>1, <3>2
  <2>4. TypeOK'
    BY <2>1, <2>2, <2>3
  <2>5. QED
    BY <2>1, <2>2, <2>4 DEF Release
<1>12. CASE Unlock(d)
  BY <1>12 DEF Unlock, Release
<1>13. CASE Clean(d)
  BY <1>13, EndTyped DEF Clean, Cleans, CleanupFails
<1>14. QED
  BY <1>1, <1>2, <1>3, <1>4, <1>5, <1>6, <1>7, <1>8, <1>9, <1>10, <1>11, <1>12, <1>13
     DEF Continue

\* An update moves between its phases, or ends.
LEMMA UpdatePhases ==
    ASSUME NEW u \in Updates, NEW phase \in {"locked", "stored"}
    PROVE  LET v == [u EXCEPT !.phase = phase] IN
           v \in Updates /\ v # None /\ v.phase = phase /\ (v.shows <=> u.shows)
<1>1. [u EXCEPT !.phase = phase] \in Updates /\ [u EXCEPT !.phase = phase].phase = phase
  BY DEF Updates
<1>2. [u EXCEPT !.phase = phase].shows <=> u.shows
  BY DEF Updates
<1>3. QED
  BY <1>1, <1>2, NotRecords

LEMMA StoredView == Typed => Stored \in Views /\ Stored.version = version
                             /\ (Stored.shows <=> "site" \in refs)
<1> SUFFICES ASSUME Typed PROVE Stored \in Views /\ Stored.version = version
                                /\ (Stored.shows <=> "site" \in refs)
  OBVIOUS
<1>1. version \in 1..MaxVersion
  BY DEF Typed, TypeOK
<1>2. Stored \in Views /\ Stored.version = version
  BY <1>1 DEF Stored, Runtime, Views
<1>3. Stored.shows <=> "site" \in refs
  BY DEF Stored, Runtime
<1>4. QED
  BY <1>2, <1>3

LEMMA ResourceRefs == refs \subseteq Owners /\ UpdateResource => refs' \subseteq Owners
BY DEF UpdateResource, Owners

LEMMA UpdateTyped ==
    ASSUME Typed, UpdateInv, NEW p \in Processes,
           (\E shows \in BOOLEAN : BeginUpdate(p, shows)) \/ ContinueUpdate(p)
    PROVE  Typed'
<1> USE Basics DEF Typed, TypeOK, Up, tables, request
<1>1. ASSUME NEW shows \in BOOLEAN, BeginUpdate(p, shows) PROVE Typed'
  <2>1. [phase |-> "prepared", shows |-> shows] \in Updates \ {None}
    BY NotRecords DEF Updates
  <2>2. QED
    BY <1>1, <2>1 DEF BeginUpdate
<1>2. CASE LockUpdate(p)
  <2>1. update[p] \in Updates /\ update' = [update EXCEPT ![p] = [update[p] EXCEPT !.phase = "locked"]]
    BY <1>2 DEF LockUpdate
  <2>2. [update[p] EXCEPT !.phase = "locked"] \in Updates \ {None}
    BY <2>1, UpdatePhases
  <2>3. QED
    BY <1>2, <2>1, <2>2 DEF LockUpdate
<1>3. CASE StoreUpdate(p)
  <2>1. update[p] \in Updates /\ update' = [update EXCEPT ![p] = [update[p] EXCEPT !.phase = "stored"]]
    BY <1>3 DEF StoreUpdate
  <2>2. [update[p] EXCEPT !.phase = "stored"] \in Updates \ {None}
    BY <2>1, UpdatePhases
  <2>3. version' \in 1..MaxVersion /\ refs' \subseteq Owners
    BY <1>3 DEF StoreUpdate, Owners
  <2>4. QED
    BY <1>3, <2>1, <2>2, <2>3 DEF StoreUpdate
<1>4. CASE PublishUpdate(p)
  <2>1. update[p] # None /\ update[p].phase = "stored" /\ update[p] \in Updates
    BY <1>4 DEF PublishUpdate
  <2>2. runtime[p].version + 1 \in 1..MaxVersion
    <3>1. runtime[p].version \in 1..MaxVersion /\ runtime[p].version + 1 <= version
      BY <2>1 DEF UpdateInv, UpdatedAt
    <3>2. QED
      BY <3>1
  <2>3. Runtime(runtime[p].version + 1, update[p].shows) \in Views
    BY <2>1, <2>2 DEF Runtime, Views, Updates
  <2>4. runtime' \in [Processes -> Views \cup {None}]
    BY <1>4, <2>3 DEF PublishUpdate
  <2>5. \A q \in Processes : runtime'[q] # None => runtime'[q].version \in 1..MaxVersion
    BY <2>4 DEF Views
  <2>6. QED
    BY <1>4, <2>4, <2>5 DEF PublishUpdate, EndUpdate
<1>5. CASE FailUpdate(p)
  BY <1>5 DEF FailUpdate, EndUpdate
<1>6. QED
  BY <1>1, <1>2, <1>3, <1>4, <1>5 DEF ContinueUpdate

LEMMA OtherTyped ==
    ASSUME Typed,
           \/ \E p \in Processes :
                 Synchronize(p) \/ RetryCleans(p) \/ RetryFails(p) \/ Stop(p) \/ Start(p)
           \/ UpdateResource
    PROVE  Typed'
<1> USE Basics DEF Typed, TypeOK, Up, tables, request, owned
<1>1. ASSUME NEW p \in Processes, Synchronize(p) \/ Start(p) PROVE Typed'
  <2>1. runtime' = [runtime EXCEPT ![p] = Stored]
    BY <1>1 DEF Synchronize, Start
  <2>2. runtime' \in [Processes -> Views \cup {None}]
    BY <2>1, StoredView
  <2>3. \A q \in Processes : runtime'[q] # None => runtime'[q].version \in 1..MaxVersion
    BY <2>2 DEF Views
  <2>4. retry' \in [Processes -> BOOLEAN]
    BY <1>1 DEF Synchronize, Start
  <2>5. UNCHANGED <<tables, bytes, owned, request, update>>
    BY <1>1 DEF Synchronize, Start
  <2>6. QED
    BY <2>2, <2>3, <2>4, <2>5
<1>2. ASSUME NEW p \in Processes, RetryCleans(p) \/ RetryFails(p) PROVE Typed'
  <2>1. /\ UNCHANGED <<media, refs, version>> /\ operation' \in {None, "pending", "completed"}
        /\ bytes' \in {bytes, FALSE}
    BY <1>2 DEF RetryCleans, RetryFails, Cleans, CleanupFails
  <2>2. retry' \in [Processes -> BOOLEAN] /\ UNCHANGED <<runtime, owned, request, update>>
    <3>1. EndRetry(p)
      BY <1>2 DEF RetryCleans, RetryFails
    <3>2. retry' \in [Processes -> BOOLEAN]
      BY <3>1 DEF EndRetry
    <3>3. QED
      BY <3>1, <3>2 DEF EndRetry
  <2>3. bytes' \in BOOLEAN
    BY <2>1
  <2>4. QED
    BY <2>1, <2>2, <2>3
<1>3. ASSUME NEW p \in Processes, Stop(p) PROVE Typed'
  <2> DEFINE mine == {d \in Deleters : Home[d] = p}
  <2>1. /\ runtime' \in [Processes -> Views \cup {None}]
        /\ mutationMu' \in [Processes -> {None, Update} \cup Deleters]
        /\ cacheLock' \in [Processes -> {None, Update} \cup Deleters]
        /\ update' \in [Processes -> Updates \cup {None}]
        /\ retry' \in [Processes -> BOOLEAN]
    BY <1>3 DEF Stop
  <2>2. /\ at' \in [Deleters -> {"idle", "locking", "transaction", "committed", "uncertain",
                                "published", "cleaning"}]
        /\ locks' \in [Deleters -> Seq({"mutation", "cache"})]
        /\ found' \in [Deleters -> SUBSET Owners]
    BY <1>3 DEF Stop
  <2>3. ASSUME NEW d \in Deleters
        PROVE  /\ at'[d] = "idle" => /\ locks'[d] = <<>> /\ found'[d] = {}
                                     /\ d \notin {mutationMu'[Home[d]], cacheLock'[Home[d]], mediaLock'}
               /\ mediaLock' = d <=> at'[d] = "transaction"
    <3>1. CASE Home[d] = p
      BY <1>3, <3>1 DEF Stop
    <3>2. CASE Home[d] # p
      BY <1>3, <3>2 DEF Stop
    <3>3. QED
      BY <3>1, <3>2
  <2>4. ASSUME NEW q \in Processes
        PROVE  /\ mutationMu'[q] \in {None, Update} \cup {d \in Deleters : Home[d] = q}
               /\ cacheLock'[q] \in {None, Update} \cup {d \in Deleters : Home[d] = q}
               /\ update'[q] # None <=> mutationMu'[q] = Update
               /\ runtime'[q] # None => runtime'[q].version \in 1..MaxVersion
    <3>1. CASE q = p
      BY <1>3, <3>1 DEF Stop
    <3>2. CASE q # p
      BY <1>3, <3>2 DEF Stop
    <3>3. QED
      BY <3>1, <3>2
  <2>5. UNCHANGED <<tables, bytes>>
    BY <1>3 DEF Stop
  <2>6. QED
    BY <2>1, <2>2, <2>3, <2>4, <2>5
<1>4. CASE UpdateResource
  <2>1. refs' \subseteq Owners
    BY <1>4, ResourceRefs
  <2>2. QED
    BY <1>4, <2>1 DEF UpdateResource
<1>5. QED
  BY <1>1, <1>2, <1>3, <1>4

LEMMA InitTyped == Init => Typed
<1> SUFFICES ASSUME Init PROVE Typed
  OBVIOUS
<1> USE Basics DEF Init
<1>1. media \in BOOLEAN /\ bytes \in BOOLEAN
  BY Zenon
<1>2. refs \subseteq Owners /\ version \in 1..MaxVersion /\ operation \in {None, "pending", "completed"}
  OBVIOUS
<1>3. Stored \in Views /\ Stored.version = 1
  BY DEF Stored, Runtime, Views
<1>4. TypeOK
  BY <1>1, <1>2, <1>3 DEF TypeOK, Up
<1>5. QED
  BY <1>3, <1>4 DEF Typed

-----------------------------------------------------------------------------
(* What a step does to the row, and a request to its locks.                *)

\* The occurrence of the site comes and goes only with a new version.
RowMoves ==
    /\ version <= version'
    /\ version' = version => ("site" \in refs' <=> "site" \in refs)

LEMMA RowKept == Typed /\ UNCHANGED <<refs, version>> => RowMoves
BY DEF RowMoves, Typed, TypeOK

LEMMA CommitMovesRow ==
    ASSUME Typed, FoundInv, NEW d \in Deleters, Commit(d)
    PROVE  RowMoves
<1>1. refs = found[d] /\ refs' = {} /\ version \in 1..MaxVersion /\ at[d] = "transaction"
  BY DEF Commit, Commits, Typed, TypeOK
<1>2. version' = IF found[d] = {"site"} THEN version + 1 ELSE version
  BY DEF Commit, Commits
<1>3. "site" \in found[d] => found[d] = {"site"}
  BY <1>1 DEF FoundInv
<1>4. QED
  BY <1>1, <1>2, <1>3, Basics DEF RowMoves

LEMMA RequestMovesRow ==
    ASSUME Typed, FoundInv, NEW d \in Deleters, Preflight(d) \/ Continue(d)
    PROVE  RowMoves
<1>1. CASE Commit(d)
  BY <1>1, CommitMovesRow
<1>2. CASE ~Commit(d)
  <2>1. UNCHANGED <<refs, version>>
    BY <1>2 DEF Preflight, Continue, TakeMutationMu, PreparationFails, TakeCacheLock, Refuse,
                BeginTransaction, CommitLost, CheckCommitted, CheckFails, Publish, Unlock, Clean,
                Cleans, CleanupFails, tables
  <2>2. QED
    BY <2>1, RowKept
<1>3. QED
  BY <1>1, <1>2

\* A request keeps mutationMu only while it may still publish; it publishes a
\* runtime only when it holds it, and gives it back.
Requests(d) ==
    /\ UNCHANGED update
    /\ \A e \in Deleters \ {d} :
          at'[e] = at[e] /\ found'[e] = found[e] /\ (HasMutationMu(e)' <=> HasMutationMu(e))
    /\ HasMutationMu(d)' =>
          /\ at'[d] \in {"locking", "transaction", "uncertain", "committed"}
          /\ UNCHANGED runtime
          /\ HasMutationMu(d) \/ runtime[Home[d]].shows
    /\ at'[d] # "idle" => Up(Home[d])
    /\ \/ UNCHANGED runtime
       \/ /\ HasMutationMu(d) /\ at[d] = "committed"
          /\ runtime' = [runtime EXCEPT ![Home[d]] = Runtime(@.version + 1, FALSE)]
    /\ operation # None => operation' # None /\ UNCHANGED media /\ UNCHANGED refs
    /\ operation' # None => operation # None \/ (~media' /\ refs' = {})
    /\ at'[d] = "committed" => operation' # None
    /\ at'[d] = "transaction" => \A o, q \in found'[d] : o = q

LEMMA ReleaseFrees ==
    ASSUME Typed, NEW d \in Deleters, mutationMu' = Release(mutationMu, d)
    PROVE  /\ ~HasMutationMu(d)'
           /\ \A e \in Deleters \ {d} : HasMutationMu(e)' <=> HasMutationMu(e)
<1>1. mutationMu'[Home[d]] = IF mutationMu[Home[d]] = d THEN None ELSE mutationMu[Home[d]]
  BY Basics DEF Typed, Release
<1>2. \A p \in Processes : p # Home[d] => mutationMu'[p] = mutationMu[p]
  BY Basics DEF Typed, Release
<1>3. QED
  BY <1>1, <1>2, Basics DEF HasMutationMu

LEMMA EndRequests ==
    ASSUME Typed, NEW d \in Deleters, End(d), UNCHANGED <<media, refs, runtime, update>>,
           operation # None => operation' # None,
           operation' # None => operation # None
    PROVE  Requests(d)
<1>1. /\ at'[d] = "idle"
      /\ \A e \in Deleters \ {d} : at'[e] = at[e] /\ found'[e] = found[e]
  BY DEF End, Move, Typed, TypeOK
<1>2. QED
  BY <1>1, ReleaseFrees DEF End, Requests

LEMMA RequestShape ==
    ASSUME Typed, GoneInv, ReplacesInv, NEW d \in Deleters, Preflight(d) \/ Continue(d)
    PROVE  Requests(d)
<1>0. /\ d # None /\ Home[d] \in Processes
      /\ at \in [Deleters -> {"idle", "locking", "transaction", "committed", "uncertain",
                              "published", "cleaning"}]
      /\ found \in [Deleters -> SUBSET Owners]
      /\ mutationMu \in [Processes -> {None, Update} \cup Deleters]
  BY Basics DEF Typed, TypeOK
<1>a. /\ at[d] # "idle" => Up(Home[d])
      /\ HasMutationMu(d) => at[d] \in {"locking", "transaction", "uncertain", "committed"}
  BY DEF ReplacesInv
<1>b. operation # None => ~media /\ refs = {}
  BY DEF GoneInv
<1>c. \A e \in Deleters : e # None /\ Home[e] \in Processes
  BY Basics
<1> USE DEF Requests, HasMutationMu, Move, owned, tables, Awaits
<1>1. CASE Preflight(d)
  <2>1. ~HasMutationMu(d)
    BY <1>1, <1>a DEF Preflight
  <2>2. QED
    BY <1>0, <1>1, <2>1 DEF Preflight
<1>2. CASE TakeMutationMu(d)
  <2>1. /\ mutationMu[Home[d]] = None /\ mutationMu' = [mutationMu EXCEPT ![Home[d]] = d]
        /\ runtime[Home[d]].shows /\ at[d] = "locking"
        /\ UNCHANGED <<tables, runtime, at, found, update>>
    BY <1>2 DEF TakeMutationMu
  <2>2. \A e \in Deleters \ {d} : mutationMu'[Home[e]] = e <=> mutationMu[Home[e]] = e
    BY <1>0, <1>c, <2>1
  <2>3. QED
    BY <1>0, <1>a, <2>1, <2>2
<1>3. CASE TakeCacheLock(d)
  BY <1>0, <1>3, <1>a DEF TakeCacheLock
<1>4. CASE PreparationFails(d) \/ Refuse(d) \/ CheckFails(d)
  BY <1>4, EndRequests DEF PreparationFails, Refuse, CheckFails
<1>5. CASE BeginTransaction(d)
  BY <1>0, <1>5, <1>a DEF BeginTransaction, Acceptable
<1>6. CASE Commit(d)
  <2>1. PICK phase \in {"committed", "uncertain"} : Move(d, phase)
    BY <1>6 DEF Commit
  <2>2. /\ at' = [at EXCEPT ![d] = phase]
        /\ UNCHANGED <<runtime, mutationMu, found, update>>
        /\ media' = FALSE /\ refs' = {} /\ operation' = "pending"
    BY <1>6, <2>1 DEF Commit, Commits
  <2>3. operation # None => UNCHANGED media /\ UNCHANGED refs
    <3>1. ASSUME operation # None PROVE media = FALSE /\ refs = {}
      BY <1>b, <3>1 DEF Typed, TypeOK
    <3>2. QED
      BY <2>2, <3>1
  <2>4. at[d] = "transaction"
    BY <1>6 DEF Commit
  <2>5. at'[d] = phase /\ \A e \in Deleters \ {d} : at'[e] = at[e]
    BY <1>0, <2>2
  <2>6. \A e \in Deleters : HasMutationMu(e)' <=> HasMutationMu(e)
    BY <2>2
  <2>7. operation' # None /\ ~media' /\ refs' = {}
    BY <2>2, Basics
  <2>8. Up(Home[d])
    BY <1>a, <2>4
  <2>9. QED
    BY <2>2, <2>3, <2>5, <2>6, <2>7, <2>8
<1>7. CASE CommitLost(d)
  BY <1>0, <1>7, <1>a DEF CommitLost
<1>8. CASE CheckCommitted(d)
  BY <1>0, <1>8, <1>a DEF CheckCommitted
<1>9. CASE Publish(d)
  <2>1. /\ mutationMu' = Release(mutationMu, d) /\ at' = [at EXCEPT ![d] = "published"]
        /\ UNCHANGED <<tables, found, update>>
    BY <1>9 DEF Publish
  <2>2. \/ UNCHANGED runtime
        \/ /\ HasMutationMu(d) /\ at[d] = "committed"
           /\ runtime' = [runtime EXCEPT ![Home[d]] = Runtime(@.version + 1, FALSE)]
    BY <1>9 DEF Publish
  <2>3. at'[d] = "published" /\ \A e \in Deleters \ {d} : at'[e] = at[e]
    BY <1>0, <2>1
  <2>4. /\ ~HasMutationMu(d)'
        /\ \A e \in Deleters \ {d} : HasMutationMu(e)' <=> HasMutationMu(e)
    BY <2>1, ReleaseFrees
  <2>5. Up(Home[d])
    BY <1>9, <1>a DEF Publish
  <2>6. QED
    BY <2>1, <2>2, <2>3, <2>4, <2>5
<1>10. CASE Unlock(d)
  <2>1. ~HasMutationMu(d)
    BY <1>10, <1>a DEF Unlock
  <2>2. /\ at' = [at EXCEPT ![d] = "cleaning"]
        /\ UNCHANGED <<tables, runtime, mutationMu, found, update>>
    BY <1>10 DEF Unlock
  <2>3. at'[d] = "cleaning" /\ \A e \in Deleters \ {d} : at'[e] = at[e]
    BY <1>0, <2>2
  <2>4. Up(Home[d])
    BY <1>10, <1>a DEF Unlock
  <2>5. QED
    BY <2>1, <2>2, <2>3, <2>4
<1>11. CASE Clean(d)
  BY <1>11, EndRequests, Basics DEF Clean, Cleans, CleanupFails
<1>12. QED
  BY <1>1, <1>2, <1>3, <1>4, <1>5, <1>6, <1>7, <1>8, <1>9, <1>10, <1>11 DEF Continue

\* Any other step concerns one process: what it does to the requests of that
\* process, and that it never replaces a runtime a request is about to replace.
Local(p) ==
    /\ \A q \in Processes \ {p} :
          runtime'[q] = runtime[q] /\ update'[q] = update[q] /\ mutationMu'[q] = mutationMu[q]
    /\ \A d \in Deleters :
          \/ at'[d] = at[d] /\ found'[d] = found[d]
          \/ Home[d] = p /\ at'[d] = "idle"
    /\ \A d \in Deleters : (Home[d] = p /\ at'[d] # "idle") => Up(p)'
    /\ \A d \in Deleters : (Home[d] = p /\ mutationMu'[p] = d) =>
          mutationMu[p] = d /\ at'[d] = at[d] /\ runtime'[p] = runtime[p]
    /\ operation' # None <=> operation # None
    /\ UNCHANGED media
    /\ operation # None => UNCHANGED refs

LEMMA StoreMovesRow ==
    ASSUME Typed, NEW p \in Processes, StoreUpdate(p)
    PROVE  RowMoves
BY Basics DEF StoreUpdate, RowMoves, Typed, TypeOK

LEMMA UpdateMovesRow ==
    ASSUME Typed, NEW p \in Processes,
           (\E shows \in BOOLEAN : BeginUpdate(p, shows)) \/ ContinueUpdate(p)
    PROVE  RowMoves
<1>1. CASE StoreUpdate(p)
  BY <1>1, StoreMovesRow
<1>2. CASE ~StoreUpdate(p)
  <2>1. UNCHANGED <<refs, version>>
    BY <1>2 DEF BeginUpdate, ContinueUpdate, LockUpdate, PublishUpdate, FailUpdate, EndUpdate, tables
  <2>2. QED
    BY <2>1, RowKept
<1>3. QED
  BY <1>1, <1>2

LEMMA OtherMovesRow ==
    ASSUME Typed,
           \/ \E p \in Processes :
                 Synchronize(p) \/ RetryCleans(p) \/ RetryFails(p) \/ Stop(p) \/ Start(p)
           \/ UpdateResource
    PROVE  RowMoves
<1>1. CASE UpdateResource
  <2>1. version' = version /\ ("site" \in refs' <=> "site" \in refs)
    BY <1>1 DEF UpdateResource
  <2>2. QED
    BY <2>1 DEF RowMoves, Typed, TypeOK
<1>2. CASE \E p \in Processes :
             Synchronize(p) \/ RetryCleans(p) \/ RetryFails(p) \/ Stop(p) \/ Start(p)
  <2>1. UNCHANGED <<refs, version>>
    BY <1>2 DEF Synchronize, RetryCleans, RetryFails, Cleans, CleanupFails, Stop, Start, tables
  <2>2. QED
    BY <2>1, RowKept
<1>3. QED
  BY <1>1, <1>2

-----------------------------------------------------------------------------
(* The invariant of one process.                                           *)

LEMMA ServedKept ==
    ASSUME Typed, Typed', RowMoves, NEW p \in Processes, ServedAt(p), runtime'[p] = runtime[p]
    PROVE  ServedAt(p)'
<1>1. version \in Nat /\ version' \in Nat
  BY Basics DEF Typed, TypeOK
<1>2. Up(p) => runtime[p].version \in Nat
  BY Basics DEF Typed, TypeOK
<1>3. QED
  BY <1>1, <1>2 DEF RowMoves, ServedAt, Up

LEMMA UpdatedKept ==
    ASSUME Typed, Typed', RowMoves, NEW p \in Processes, UpdatedAt(p),
           runtime'[p] = runtime[p], update'[p] = update[p]
    PROVE  UpdatedAt(p)'
<1>1. version \in Nat /\ version' \in Nat
  BY Basics DEF Typed, TypeOK
<1>2. Up(p) => runtime[p].version \in Nat
  BY Basics DEF Typed, TypeOK
<1>3. QED
  BY <1>1, <1>2 DEF RowMoves, UpdatedAt, Up

\* What is read under mutationMu is the row.
LEMMA StoredIsServed ==
    ASSUME Typed, NEW p \in Processes, UNCHANGED <<refs, version>>, runtime'[p] = Stored
    PROVE  ServedAt(p)' /\ Up(p)'
<1>1. Stored \in Views /\ Stored.version = version /\ (Stored.shows <=> "site" \in refs)
  BY StoredView
<1>2. version \in Nat
  BY Basics DEF Typed, TypeOK
<1>3. QED
  BY <1>1, <1>2, NotRecords DEF ServedAt, Up

-----------------------------------------------------------------------------
(* The steps of a site update.                                             *)

\* It holds mutationMu of its process, so no request does.
LEMMA UpdateHoldsLock ==
    ASSUME Typed, UpdateInv, NEW p \in Processes, update[p] # None
    PROVE  /\ Up(p) /\ mutationMu[p] = Update /\ update[p] \in Updates
           /\ \A d \in Deleters : mutationMu[p] # d
BY Basics DEF Typed, TypeOK, UpdateInv, UpdatedAt

LEMMA BeginUpdateLocal ==
    ASSUME Typed, Typed', IInv, NEW p \in Processes, NEW shows \in BOOLEAN, BeginUpdate(p, shows)
    PROVE  Local(p) /\ ServedAt(p)' /\ UpdatedAt(p)'
<1>1. /\ Up(p) /\ mutationMu' = [mutationMu EXCEPT ![p] = Update]
      /\ update' = [update EXCEPT ![p] = [phase |-> "prepared", shows |-> shows]]
      /\ UNCHANGED <<tables, runtime, at, found>>
  BY DEF BeginUpdate, request
<1>2. /\ mutationMu'[p] = Update /\ update'[p] = [phase |-> "prepared", shows |-> shows]
      /\ \A q \in Processes \ {p} : mutationMu'[q] = mutationMu[q] /\ update'[q] = update[q]
  BY <1>1 DEF Typed
<1>3. ServedAt(p)'
  BY <1>1, ServedKept, RowKept DEF IInv, ServedInv, tables
<1>4. UpdatedAt(p)'
  BY <1>1, <1>2 DEF UpdatedAt, Up
<1>5. Local(p)
  BY <1>1, <1>2, Basics DEF Local, tables, Up, IInv, ReplacesInv
<1>6. QED
  BY <1>3, <1>4, <1>5

LEMMA LockUpdateLocal ==
    ASSUME Typed, Typed', IInv, NEW p \in Processes, LockUpdate(p)
    PROVE  Local(p) /\ ServedAt(p)' /\ UpdatedAt(p)'
<1>1. /\ update[p] # None
      /\ update' = [update EXCEPT ![p] = [update[p] EXCEPT !.phase = "locked"]]
      /\ UNCHANGED <<tables, runtime, mutationMu, at, found>>
  BY DEF LockUpdate, request
<1>2. Up(p) /\ update[p] \in Updates /\ \A d \in Deleters : mutationMu[p] # d
  BY <1>1, UpdateHoldsLock DEF IInv
<1>3. /\ update'[p].phase = "locked"
      /\ \A q \in Processes \ {p} : update'[q] = update[q]
  BY <1>1, <1>2, UpdatePhases DEF Typed
<1>4. ServedAt(p)'
  BY <1>1, ServedKept, RowKept DEF IInv, ServedInv, tables
<1>5. UpdatedAt(p)'
  BY <1>1, <1>2, <1>3 DEF UpdatedAt, Up
<1>6. Local(p)
  BY <1>1, <1>2, <1>3 DEF Local, tables, Up
<1>7. QED
  BY <1>4, <1>5, <1>6

LEMMA StoreUpdateLocal ==
    ASSUME Typed, Typed', IInv, NEW p \in Processes, StoreUpdate(p)
    PROVE  Local(p) /\ ServedAt(p)' /\ UpdatedAt(p)'
<1>1. /\ update[p] # None /\ version = runtime[p].version /\ version' = version + 1
      /\ update' = [update EXCEPT ![p] = [update[p] EXCEPT !.phase = "stored"]]
      /\ update[p].shows => MayRefer("site")
      /\ refs' = IF update[p].shows THEN refs \cup {"site"} ELSE refs \ {"site"}
      /\ UNCHANGED <<media, operation, runtime, mutationMu, at, found>>
  BY DEF StoreUpdate, request
<1>2. Up(p) /\ update[p] \in Updates /\ \A d \in Deleters : mutationMu[p] # d
  BY <1>1, UpdateHoldsLock DEF IInv
<1>3. /\ update'[p].phase = "stored" /\ (update'[p].shows <=> update[p].shows)
      /\ \A q \in Processes \ {p} : update'[q] = update[q]
  BY <1>1, <1>2, UpdatePhases DEF Typed
<1>4. ServedAt(p)'
  BY <1>1, ServedKept, StoreMovesRow DEF IInv, ServedInv
<1>5. "site" \in refs' <=> update[p].shows
  BY <1>1
<1>6. UpdatedAt(p)'
  <2>1. runtime'[p].version + 1 = version' /\ version' \in Nat
    BY <1>1, Basics DEF Typed, TypeOK
  <2>2. QED
    BY <1>1, <1>2, <1>3, <1>5, <2>1 DEF UpdatedAt, Up
<1>7. operation # None => UNCHANGED refs
  <2>1. ASSUME operation # None PROVE ~media /\ refs = {}
    BY <2>1 DEF IInv, GoneInv
  <2>2. QED
    BY <1>1, <2>1 DEF MayRefer
<1>8. Local(p)
  BY <1>1, <1>2, <1>3, <1>7 DEF Local, Up
<1>9. QED
  BY <1>4, <1>6, <1>8

LEMMA PublishUpdateLocal ==
    ASSUME Typed, Typed', IInv, NEW p \in Processes, PublishUpdate(p)
    PROVE  Local(p) /\ ServedAt(p)' /\ UpdatedAt(p)'
<1>1. /\ update[p] # None /\ update[p].phase = "stored"
      /\ runtime' = [runtime EXCEPT ![p] = Runtime(runtime[p].version + 1, update[p].shows)]
      /\ mutationMu' = [mutationMu EXCEPT ![p] = None]
      /\ update' = [update EXCEPT ![p] = None]
      /\ UNCHANGED <<tables, at, found>>
  BY DEF PublishUpdate, EndUpdate, request
<1>2. /\ mutationMu'[p] = None /\ update'[p] = None
      /\ runtime'[p] = Runtime(runtime[p].version + 1, update[p].shows)
      /\ \A q \in Processes \ {p} :
            mutationMu'[q] = mutationMu[q] /\ update'[q] = update[q] /\ runtime'[q] = runtime[q]
  BY <1>1 DEF Typed
<1>3. /\ runtime[p].version + 1 <= version
      /\ runtime[p].version + 1 = version => (update[p].shows <=> "site" \in refs)
  BY <1>1 DEF IInv, UpdateInv, UpdatedAt
<1>4. /\ runtime'[p].version = runtime[p].version + 1
      /\ runtime'[p].shows <=> update[p].shows
  BY <1>2 DEF Runtime
<1>5. ServedAt(p)'
  BY <1>1, <1>3, <1>4 DEF ServedAt, tables
<1>6. UpdatedAt(p)'
  BY <1>2 DEF UpdatedAt
<1>7. Up(p)'
  <2>1. Up(p) /\ update[p] \in Updates
    BY <1>1, UpdateHoldsLock DEF IInv
  <2>2. runtime[p].version + 1 \in 1..MaxVersion
    BY <1>3, <2>1, Basics DEF Typed, TypeOK
  <2>3. runtime'[p] \in Views
    BY <1>2, <2>1, <2>2 DEF Runtime, Views, Updates
  <2>4. QED
    BY <2>3, NotRecords DEF Up
<1>8. Local(p)
  BY <1>1, <1>2, <1>7, Basics DEF Local, tables
<1>9. QED
  BY <1>5, <1>6, <1>8

LEMMA FailUpdateLocal ==
    ASSUME Typed, Typed', IInv, NEW p \in Processes, FailUpdate(p)
    PROVE  Local(p) /\ ServedAt(p)' /\ UpdatedAt(p)'
<1>1. /\ update[p] # None
      /\ mutationMu' = [mutationMu EXCEPT ![p] = None]
      /\ update' = [update EXCEPT ![p] = None]
      /\ UNCHANGED <<tables, runtime, at, found>>
  BY DEF FailUpdate, EndUpdate, request
<1>2. /\ mutationMu'[p] = None /\ update'[p] = None
      /\ \A q \in Processes \ {p} : mutationMu'[q] = mutationMu[q] /\ update'[q] = update[q]
  BY <1>1 DEF Typed
<1>3. Up(p)
  BY <1>1, UpdateHoldsLock DEF IInv
<1>4. ServedAt(p)'
  BY <1>1, ServedKept, RowKept DEF IInv, ServedInv, tables
<1>5. UpdatedAt(p)'
  BY <1>2 DEF UpdatedAt
<1>6. Local(p)
  BY <1>1, <1>2, <1>3, Basics DEF Local, tables, Up
<1>7. QED
  BY <1>4, <1>5, <1>6

-----------------------------------------------------------------------------
(* Synchronisation, retries, stops and starts.                             *)

LEMMA SynchronizeLocal ==
    ASSUME Typed, Typed', IInv, NEW p \in Processes, Synchronize(p) \/ Start(p)
    PROVE  Local(p) /\ ServedAt(p)' /\ UpdatedAt(p)'
<1>1. /\ runtime' = [runtime EXCEPT ![p] = Stored]
      /\ UNCHANGED <<tables, mutationMu, at, found, update>>
  BY DEF Synchronize, Start, request, owned
<1>2. runtime'[p] = Stored /\ \A q \in Processes \ {p} : runtime'[q] = runtime[q]
  BY <1>1 DEF Typed
<1>3. ServedAt(p)' /\ Up(p)'
  BY <1>1, <1>2, StoredIsServed DEF tables
<1>4. \A d \in Deleters : Home[d] = p => mutationMu[p] # d
  <2>1. CASE Synchronize(p)
    BY <2>1, Basics DEF Synchronize
  <2>2. CASE Start(p)
    BY <2>2 DEF Start, IInv, ReplacesInv, HasMutationMu
  <2>3. QED
    BY <2>1, <2>2
<1>5. update[p] = None
  <2>1. CASE Synchronize(p)
    BY <2>1, Basics DEF Synchronize, Typed, TypeOK
  <2>2. CASE Start(p)
    BY <2>2 DEF Start, IInv, UpdateInv, UpdatedAt
  <2>3. QED
    BY <2>1, <2>2
<1>6. UpdatedAt(p)'
  BY <1>1, <1>5 DEF UpdatedAt
<1>7. Local(p)
  BY <1>1, <1>2, <1>3, <1>4 DEF Local, tables
<1>8. QED
  BY <1>3, <1>6, <1>7

LEMMA RetryLocal ==
    ASSUME Typed, Typed', IInv, NEW p \in Processes, RetryCleans(p) \/ RetryFails(p)
    PROVE  Local(p) /\ ServedAt(p)' /\ UpdatedAt(p)'
<1>1. /\ UNCHANGED <<media, refs, version, runtime, mutationMu, at, found, update>>
      /\ operation' # None <=> operation # None
  BY Basics DEF RetryCleans, RetryFails, Cleans, CleanupFails, EndRetry, tables, owned, request
<1>2. ServedAt(p)' /\ UpdatedAt(p)'
  BY <1>1, ServedKept, UpdatedKept, RowKept DEF IInv, ServedInv, UpdateInv
<1>3. Local(p)
  BY <1>1 DEF Local, Up, IInv, ReplacesInv
<1>4. QED
  BY <1>2, <1>3

LEMMA StopLocal ==
    ASSUME Typed, Typed', IInv, NEW p \in Processes, Stop(p)
    PROVE  Local(p) /\ ServedAt(p)' /\ UpdatedAt(p)'
<1>1. /\ runtime' = [runtime EXCEPT ![p] = None]
      /\ mutationMu' = [mutationMu EXCEPT ![p] = None]
      /\ update' = [update EXCEPT ![p] = None]
      /\ UNCHANGED tables
  BY DEF Stop
<1>2. /\ runtime'[p] = None /\ mutationMu'[p] = None /\ update'[p] = None
      /\ \A q \in Processes \ {p} :
            mutationMu'[q] = mutationMu[q] /\ update'[q] = update[q] /\ runtime'[q] = runtime[q]
  BY <1>1 DEF Typed
<1>3. \A d \in Deleters : IF Home[d] = p THEN at'[d] = "idle"
                          ELSE at'[d] = at[d] /\ found'[d] = found[d]
  BY DEF Stop
<1>4. ServedAt(p)' /\ UpdatedAt(p)'
  BY <1>2 DEF ServedAt, UpdatedAt, Up
<1>5. Local(p)
  BY <1>1, <1>2, <1>3, Basics DEF Local, tables
<1>6. QED
  BY <1>4, <1>5

-----------------------------------------------------------------------------
(* The invariant is kept.                                                  *)

\* A step that concerns one process, whose own part is kept.
LEMMA LocalKeeps ==
    ASSUME IInv, Typed', RowMoves, NEW p \in Processes,
           Local(p), ServedAt(p)', UpdatedAt(p)'
    PROVE  IInv'
<1> USE DEF IInv
<1>1. ServedInv'
  <2>1. ASSUME NEW q \in Processes, q # p PROVE ServedAt(q)'
    BY <2>1, ServedKept DEF Local, ServedInv
  <2>2. QED
    BY <2>1 DEF ServedInv
<1>2. UpdateInv'
  <2>1. ASSUME NEW q \in Processes, q # p PROVE UpdatedAt(q)'
    BY <2>1, UpdatedKept DEF Local, UpdateInv
  <2>2. QED
    BY <2>1 DEF UpdateInv
<1>3. GoneInv'
  BY DEF GoneInv, Local
<1>4. ReplacesInv'
  <2>1. ASSUME NEW d \in Deleters, Home[d] = p
        PROVE  /\ at'[d] # "idle" => Up(Home[d])'
               /\ HasMutationMu(d)' =>
                     /\ at'[d] \in {"locking", "transaction", "uncertain", "committed"}
                     /\ runtime'[Home[d]].shows
    BY <2>1 DEF Local, ReplacesInv, HasMutationMu
  <2>2. ASSUME NEW d \in Deleters, Home[d] # p
        PROVE  /\ at'[d] # "idle" => Up(Home[d])'
               /\ HasMutationMu(d)' =>
                     /\ at'[d] \in {"locking", "transaction", "uncertain", "committed"}
                     /\ runtime'[Home[d]].shows
    <3>1. /\ at'[d] = at[d] /\ runtime'[Home[d]] = runtime[Home[d]]
          /\ mutationMu'[Home[d]] = mutationMu[Home[d]]
      BY <2>2, Basics DEF Local
    <3>2. QED
      BY <3>1 DEF ReplacesInv, HasMutationMu, Up
  <2>3. QED
    BY <2>1, <2>2 DEF ReplacesInv
<1>5. FoundInv'
  BY DEF FoundInv, Local
<1>6. QED
  BY <1>1, <1>2, <1>3, <1>4, <1>5

\* A step of a request.
LEMMA RequestKeeps ==
    ASSUME IInv, NEW d \in Deleters, Preflight(d) \/ Continue(d)
    PROVE  IInv'
<1>1. Typed'
  BY RequestTyped DEF IInv
<1>2. RowMoves
  BY RequestMovesRow DEF IInv
<1>3. Requests(d)
  BY RequestShape DEF IInv
<1>4. Typed /\ Home[d] \in Processes /\ (\A q \in Processes \ {Home[d]} : runtime'[q] = runtime[q])
  BY <1>3, Basics DEF IInv, Requests, Typed
<1>5. CASE UNCHANGED runtime
  <2>1. ServedInv' /\ UpdateInv'
    BY <1>1, <1>2, <1>3, <1>5, ServedKept, UpdatedKept DEF IInv, ServedInv, UpdateInv, Requests
  <2>2. GoneInv'
    BY <1>3 DEF GoneInv, Requests, IInv
  <2>3. ReplacesInv'
    BY <1>3, <1>5 DEF ReplacesInv, Requests, IInv, Up
  <2>4. FoundInv'
    BY <1>3 DEF FoundInv, Requests, IInv
  <2>5. QED
    BY <1>1, <2>1, <2>2, <2>3, <2>4 DEF IInv
<1>6. CASE ~UNCHANGED runtime
  <2>1. /\ HasMutationMu(d) /\ at[d] = "committed"
        /\ runtime'[Home[d]] = Runtime(runtime[Home[d]].version + 1, FALSE)
    BY <1>3, <1>4, <1>6 DEF Requests, Typed
  <2>2. /\ Up(Home[d]) /\ "site" \notin refs
        /\ runtime[Home[d]].version + 1 <= version
        /\ runtime[Home[d]].version + 1 \in 1..MaxVersion
    BY <2>1, ReplacedIsOlder DEF IInv
  <2>3. /\ runtime'[Home[d]].version = runtime[Home[d]].version + 1
        /\ ~runtime'[Home[d]].shows
        /\ runtime'[Home[d]] \in Views
    BY <2>1, <2>2 DEF Runtime, Views
  <2>4. "site" \notin refs'
    BY <1>3, <2>1, <2>2 DEF Requests, GoneInv, IInv
  <2>5. ServedAt(Home[d])'
    <3>1. version \in Nat /\ version' \in Nat /\ version <= version'
      BY <1>1, <1>2, <1>4, Basics DEF Typed, TypeOK, RowMoves
    <3>2. runtime'[Home[d]].version <= version'
      BY <2>2, <2>3, <3>1
    <3>3. QED
      BY <2>3, <2>4, <3>2 DEF ServedAt
  <2>6. ServedInv'
    <3>1. ASSUME NEW q \in Processes, q # Home[d] PROVE ServedAt(q)'
      BY <1>1, <1>2, <1>4, <3>1, ServedKept DEF IInv, ServedInv
    <3>2. QED
      BY <2>5, <3>1 DEF ServedInv
  <2>7. UpdateInv'
    <3>1. update[Home[d]] = None
      BY <1>4, <2>1, Basics DEF Typed, TypeOK, HasMutationMu
    <3>2. UpdatedAt(Home[d])'
      BY <1>3, <3>1 DEF Requests, UpdatedAt
    <3>3. ASSUME NEW q \in Processes, q # Home[d] PROVE UpdatedAt(q)'
      BY <1>1, <1>2, <1>3, <1>4, <3>3, UpdatedKept DEF IInv, UpdateInv, Requests
    <3>4. QED
      BY <3>2, <3>3 DEF UpdateInv
  <2>8. GoneInv'
    BY <1>3 DEF GoneInv, Requests, IInv
  <2>9. FoundInv'
    BY <1>3 DEF FoundInv, Requests, IInv
  <2>10. ReplacesInv'
    <3>1. \A p \in Processes : Up(p) => Up(p)'
      BY <1>4, <2>3, NotRecords DEF Up
    <3>2. \A e \in Deleters : at'[e] # "idle" => Up(Home[e])'
      BY <1>3, <3>1, Basics DEF Requests, ReplacesInv, IInv
    <3>3. ASSUME NEW e \in Deleters, HasMutationMu(e)'
          PROVE  /\ at'[e] \in {"locking", "transaction", "uncertain", "committed"}
                 /\ runtime'[Home[e]].shows
      <4>1. e # d /\ HasMutationMu(e) /\ at'[e] = at[e]
        BY <1>3, <1>6, <3>3 DEF Requests
      <4>2. Home[e] # Home[d]
        BY <2>1, <4>1 DEF HasMutationMu
      <4>3. runtime'[Home[e]] = runtime[Home[e]]
        BY <1>4, <4>2, Basics
      <4>4. QED
        BY <4>1, <4>3 DEF ReplacesInv, IInv
    <3>4. QED
      BY <3>2, <3>3 DEF ReplacesInv
  <2>11. QED
    BY <1>1, <2>6, <2>7, <2>8, <2>9, <2>10 DEF IInv
<1>7. QED
  BY <1>5, <1>6

\* A step of a site update.
LEMMA UpdateKeeps ==
    ASSUME IInv, NEW p \in Processes,
           (\E shows \in BOOLEAN : BeginUpdate(p, shows)) \/ ContinueUpdate(p)
    PROVE  IInv'
<1>1. Typed /\ Typed' /\ RowMoves
  BY UpdateTyped, UpdateMovesRow DEF IInv
<1>2. Local(p) /\ ServedAt(p)' /\ UpdatedAt(p)'
  BY <1>1, BeginUpdateLocal, LockUpdateLocal, StoreUpdateLocal, PublishUpdateLocal, FailUpdateLocal
     DEF ContinueUpdate
<1>3. QED
  BY <1>1, <1>2, LocalKeeps

\* A step of the retry loop, a stop or a start.
LEMMA ProcessKeeps ==
    ASSUME IInv, NEW p \in Processes,
           Synchronize(p) \/ RetryCleans(p) \/ RetryFails(p) \/ Stop(p) \/ Start(p)
    PROVE  IInv'
<1>1. Typed /\ Typed' /\ RowMoves
  BY OtherTyped, OtherMovesRow DEF IInv
<1>2. Local(p) /\ ServedAt(p)' /\ UpdatedAt(p)'
  BY <1>1, SynchronizeLocal, RetryLocal, StopLocal
<1>3. QED
  BY <1>1, <1>2, LocalKeeps

\* A step of a resource.
LEMMA ResourceKeeps ==
    ASSUME IInv, UpdateResource
    PROVE  IInv'
<1>1. Typed /\ Typed' /\ RowMoves
  BY OtherTyped, OtherMovesRow DEF IInv
<1>2. UNCHANGED <<media, operation, runtime, mutationMu, at, found, update>>
  BY DEF UpdateResource, owned, request
<1>3. ServedInv' /\ UpdateInv'
  BY <1>1, <1>2, ServedKept, UpdatedKept DEF IInv, ServedInv, UpdateInv
<1>4. operation # None => refs' = {}
  BY DEF UpdateResource, MayRefer, IInv, GoneInv
<1>5. GoneInv' /\ ReplacesInv' /\ FoundInv'
  BY <1>2, <1>4 DEF IInv, GoneInv, ReplacesInv, FoundInv, Up, HasMutationMu
<1>6. QED
  BY <1>1, <1>3, <1>5 DEF IInv

\* A step that changes nothing.
LEMMA StutterKeeps ==
    ASSUME IInv, UNCHANGED vars
    PROVE  IInv'
BY DEF IInv, Typed, TypeOK, ServedInv, ServedAt, GoneInv, ReplacesInv, FoundInv, UpdateInv, UpdatedAt,
       Up, HasMutationMu, vars, tables, owned, request

LEMMA InitServed == Init => ServedInv
<1> SUFFICES ASSUME Init, NEW p \in Processes PROVE ServedAt(p)
  BY DEF ServedInv
<1>1. runtime[p] = Stored /\ version = 1
  BY DEF Init
<1>2. Stored.version = version /\ (Stored.shows <=> "site" \in refs)
  BY DEF Stored, Runtime
<1>3. QED
  BY <1>1, <1>2 DEF ServedAt

LEMMA Invariant == Spec => []IInv
<1>1. Init => IInv
  <2> SUFFICES ASSUME Init PROVE IInv
    OBVIOUS
  <2>1. Typed /\ ServedInv
    BY InitTyped, InitServed
  <2>2. GoneInv /\ FoundInv
    BY DEF Init, GoneInv, FoundInv
  <2>3. ReplacesInv /\ UpdateInv
    BY Basics DEF Init, ReplacesInv, UpdateInv, UpdatedAt, HasMutationMu
  <2>4. QED
    BY <2>1, <2>2, <2>3 DEF IInv
<1>2. IInv /\ [Next]_vars => IInv'
  BY RequestKeeps, UpdateKeeps, ProcessKeeps, ResourceKeeps, StutterKeeps DEF Next
<1>3. QED
  BY <1>1, <1>2, PTL DEF Spec

-----------------------------------------------------------------------------
(* The theorems.                                                           *)

\* The types, and that a request which is over, or whose process stopped,
\* holds neither mutationMu nor a cache lock nor the media row.
THEOREM TypeCorrect == Spec => []TypeOK
BY Invariant, PTL DEF IInv, Typed

\* Whatever becomes of the commit of a deletion, of the check that follows a
\* lost answer, and of the updates of other processes, no process publishes a
\* version of the site that was rolled back, or one that differs from the row.
THEOREM ServedIsStored == Spec => []RuntimeIsStored
<1>1. IInv => RuntimeIsStored
  <2> SUFFICES ASSUME IInv, NEW p \in Processes, Up(p)
               PROVE  /\ runtime[p].version <= version
                      /\ runtime[p].version = version => runtime[p] = Stored
    BY DEF RuntimeIsStored
  <2>1. /\ runtime[p].version <= version
        /\ runtime[p].version = version => (runtime[p].shows <=> "site" \in refs)
    BY DEF IInv, ServedInv, ServedAt
  <2>2. Stored \in Views /\ Stored.version = version /\ (Stored.shows <=> "site" \in refs)
    BY StoredView DEF IInv
  <2>3. runtime[p] \in Views
    BY DEF IInv, Typed, Up
  <2>4. ASSUME NEW v \in Views, NEW w \in Views, v.version = w.version, v.shows <=> w.shows
        PROVE  v = w
    BY <2>4 DEF Views
  <2>5. QED
    BY <2>1, <2>2, <2>3, <2>4
<1>2. QED
  BY <1>1, Invariant, PTL

\* Once the operation is recorded the file is gone from the database for good:
\* no later update of a site or a resource refers to it again.
THEOREM DeletionIsFinal == Spec => [](operation # None => ~media /\ refs = {})
<1>1. IInv => (operation # None => ~media /\ refs = {})
  BY DEF IInv, GoneInv
<1>2. QED
  BY <1>1, Invariant, PTL
-----------------------------------------------------------------------------
(* Why requests cannot wait for each other for ever.                       *)

\* The locks that a request has still to take, and that it has none of them.
OrderAt(d) ==
    /\ locks[d] \in {<<>>, <<"cache">>, <<"mutation", "cache">>}
    /\ at[d] # "locking" => locks[d] = <<>>
    /\ locks[d] = <<"mutation", "cache">> => mutationMu[Home[d]] # d
    /\ locks[d] # <<>> => cacheLock[Home[d]] # d

\* A site update holds the cache locks only while it has them for its statement.
UpdateOrderAt(p) == cacheLock[p] = Update => update[p] # None /\ update[p].phase = "locked"

OrderInv ==
    /\ \A d \in Deleters : OrderAt(d)
    /\ \A p \in Processes : UpdateOrderAt(p)

\* Whoever waits for a lock holds only locks that come before it: mutationMu,
\* the cache locks of the process, the row of the media.
WaitsInOrder ==
    /\ \A d \in Deleters :
          /\ Awaits(d, "mutation") => d \notin {mutationMu[Home[d]], cacheLock[Home[d]], mediaLock}
          /\ Awaits(d, "cache") => d \notin {cacheLock[Home[d]], mediaLock}
          /\ mediaLock = d => locks[d] = <<>>
    /\ \A p \in Processes :
          (update[p] # None /\ update[p].phase = "prepared") => cacheLock[p] # Update

LEMMA LockLists ==
    /\ \A seen : LockOrder(seen) \in {<<"cache">>, <<"mutation", "cache">>}
    /\ Tail(<<"cache">>) = <<>> /\ Tail(<<"mutation", "cache">>) = <<"cache">>
    /\ Head(<<"cache">>) = "cache" /\ Head(<<"mutation", "cache">>) = "mutation"
    /\ <<"cache">> # <<>> /\ <<"mutation", "cache">> # <<>> /\ <<"cache">> # <<"mutation", "cache">>
BY DEF LockOrder

\* What a request does to the others: at most it gives back what it has.
OthersKeep(d) ==
    /\ \A e \in Deleters \ {d} :
          /\ at'[e] = at[e] /\ locks'[e] = locks[e]
          /\ mutationMu'[Home[e]] = e => mutationMu[Home[e]] = e
          /\ cacheLock'[Home[e]] = e => cacheLock[Home[e]] = e
    /\ UNCHANGED update
    /\ \A p \in Processes : cacheLock'[p] = Update => cacheLock[p] = Update

LEMMA EndOrder ==
    ASSUME Typed, NEW d \in Deleters, End(d), UNCHANGED update
    PROVE  OrderAt(d)' /\ OthersKeep(d)
<1>0. Home[d] \in Processes /\ d # None /\ d # Update /\ \A e \in Deleters : e # None /\ Home[e] \in Processes
  BY Basics
<1>1. at'[d] = "idle" /\ locks'[d] = <<>> /\ \A e \in Deleters \ {d} : at'[e] = at[e] /\ locks'[e] = locks[e]
  BY DEF End, Move, Typed, TypeOK
<1>2. /\ \A p \in Processes : mutationMu'[p] \in {mutationMu[p], None}
      /\ \A p \in Processes : cacheLock'[p] \in {cacheLock[p], None}
  BY <1>0 DEF End, Release, Typed
<1>3. None # Update
  BY Basics
<1>4. OrderAt(d)'
  BY <1>1, LockLists DEF OrderAt
<1>5. QED
  BY <1>0, <1>1, <1>2, <1>3, <1>4 DEF OthersKeep

LEMMA RequestOrder ==
    ASSUME Typed, NEW d \in Deleters, OrderAt(d), Preflight(d) \/ Continue(d)
    PROVE  OrderAt(d)' /\ OthersKeep(d)
<1>0. /\ Home[d] \in Processes /\ d # None /\ d # Update /\ None # Update
      /\ \A e \in Deleters : e # None /\ e # Update /\ Home[e] \in Processes
  BY Basics
<1>t. /\ at \in [Deleters -> {"idle", "locking", "transaction", "committed", "uncertain",
                              "published", "cleaning"}]
      /\ locks \in [Deleters -> Seq({"mutation", "cache"})]
      /\ mutationMu \in [Processes -> {None, Update} \cup Deleters]
      /\ cacheLock \in [Processes -> {None, Update} \cup Deleters]
      /\ at[d] = "idle" => d \notin {mutationMu[Home[d]], cacheLock[Home[d]]}
  BY DEF Typed, TypeOK
<1>1. CASE Preflight(d)
  <2>1. /\ at'[d] = "locking" /\ locks'[d] = LockOrder(refs)
        /\ \A e \in Deleters \ {d} : at'[e] = at[e] /\ locks'[e] = locks[e]
        /\ UNCHANGED <<mutationMu, cacheLock, update>> /\ at[d] = "idle"
    BY <1>1, <1>t DEF Preflight, Move, owned
  <2>2. OrderAt(d)'
    BY <1>t, <2>1, LockLists DEF OrderAt
  <2>3. QED
    BY <2>1, <2>2 DEF OthersKeep
<1>2. CASE TakeMutationMu(d)
  <2>1. /\ at' = at /\ UNCHANGED <<cacheLock, update>>
        /\ at[d] = "locking" /\ locks[d] # <<>> /\ Head(locks[d]) = "mutation"
        /\ locks'[d] = Tail(locks[d]) /\ \A e \in Deleters \ {d} : locks'[e] = locks[e]
        /\ mutationMu'[Home[d]] = d /\ \A p \in Processes \ {Home[d]} : mutationMu'[p] = mutationMu[p]
    BY <1>0, <1>t, <1>2 DEF TakeMutationMu, Awaits
  <2>2. locks[d] = <<"mutation", "cache">> /\ locks'[d] = <<"cache">>
    BY <2>1, LockLists DEF OrderAt
  <2>3. OrderAt(d)'
    BY <2>1, <2>2, LockLists DEF OrderAt
  <2>4. QED
    BY <1>0, <2>1, <2>3 DEF OthersKeep
<1>3. CASE TakeCacheLock(d)
  <2>1. /\ at' = at /\ UNCHANGED <<mutationMu, update>>
        /\ at[d] = "locking" /\ locks[d] # <<>> /\ Head(locks[d]) = "cache"
        /\ locks'[d] = Tail(locks[d]) /\ \A e \in Deleters \ {d} : locks'[e] = locks[e]
        /\ cacheLock'[Home[d]] = d /\ \A p \in Processes \ {Home[d]} : cacheLock'[p] = cacheLock[p]
    BY <1>0, <1>t, <1>3 DEF TakeCacheLock, Awaits
  <2>2. locks[d] = <<"cache">> /\ locks'[d] = <<>>
    BY <2>1, LockLists DEF OrderAt
  <2>3. OrderAt(d)'
    BY <2>1, <2>2, LockLists DEF OrderAt
  <2>4. QED
    BY <1>0, <2>1, <2>3 DEF OthersKeep
<1>4. CASE PreparationFails(d) \/ Refuse(d) \/ CheckFails(d) \/ Clean(d)
  BY <1>4, EndOrder DEF PreparationFails, Refuse, CheckFails, Clean
<1>5. CASE BeginTransaction(d) \/ Commit(d) \/ CommitLost(d) \/ CheckCommitted(d)
  <2>1. locks[d] = <<>>
    BY <1>5 DEF BeginTransaction, Commit, CommitLost, CheckCommitted, OrderAt
  <2>2. PICK phase : at' = [at EXCEPT ![d] = phase]
    BY <1>5 DEF BeginTransaction, Commit, CommitLost, CheckCommitted, Move
  <2>3. UNCHANGED <<mutationMu, cacheLock, locks, update>>
    BY <1>5 DEF BeginTransaction, Commit, CommitLost, CheckCommitted, owned
  <2>4. OrderAt(d)'
    BY <2>1, <2>3, LockLists DEF OrderAt
  <2>5. QED
    BY <1>t, <2>2, <2>3, <2>4 DEF OthersKeep
<1>6. CASE Publish(d) \/ Unlock(d)
  <2>1. locks[d] = <<>>
    BY <1>6 DEF Publish, Unlock, OrderAt
  <2>2. PICK phase : at' = [at EXCEPT ![d] = phase]
    BY <1>6 DEF Publish, Unlock, Move
  <2>3. UNCHANGED <<locks, update>>
    BY <1>6 DEF Publish, Unlock
  <2>4. /\ \A p \in Processes : mutationMu'[p] \in {mutationMu[p], None}
        /\ \A p \in Processes : cacheLock'[p] \in {cacheLock[p], None}
    BY <1>0, <1>t, <1>6 DEF Publish, Unlock, Release
  <2>5. OrderAt(d)'
    BY <2>1, <2>3, LockLists DEF OrderAt
  <2>6. QED
    BY <1>0, <1>t, <2>2, <2>3, <2>4, <2>5 DEF OthersKeep
<1>7. QED
  BY <1>1, <1>2, <1>3, <1>4, <1>5, <1>6 DEF Continue

\* Updates and whole processes take no lock in the name of a request.
RequestsKeep ==
    \A d \in Deleters :
        /\ ((at'[d] = at[d] /\ locks'[d] = locks[d]) \/ (at'[d] = "idle" /\ locks'[d] = <<>>))
        /\ mutationMu'[Home[d]] = d => mutationMu[Home[d]] = d
        /\ cacheLock'[Home[d]] = d => cacheLock[Home[d]] = d

LEMMA UpdateOrder ==
    ASSUME Typed, NEW p \in Processes, UpdateOrderAt(p), ContinueUpdate(p) \/ \E shows \in BOOLEAN : BeginUpdate(p, shows)
    PROVE  RequestsKeep /\ \A q \in Processes : UpdateOrderAt(q) => UpdateOrderAt(q)'
<1>0. /\ None # Update /\ \A d \in Deleters : d # None /\ d # Update /\ Home[d] \in Processes
      /\ None \notin Updates
  BY Basics, NotRecords
<1>t. /\ mutationMu \in [Processes -> {None, Update} \cup Deleters]
      /\ cacheLock \in [Processes -> {None, Update} \cup Deleters]
      /\ update \in [Processes -> Updates \cup {None}]
      /\ update[p] # None <=> mutationMu[p] = Update
  BY DEF Typed, TypeOK
<1>1. CASE \E shows \in BOOLEAN : BeginUpdate(p, shows)
  <2>1. /\ UNCHANGED <<at, locks, cacheLock>> /\ update[p] = None
        /\ mutationMu' = [mutationMu EXCEPT ![p] = Update]
        /\ \A q \in Processes \ {p} : update'[q] = update[q]
    BY <1>0, <1>t, <1>1 DEF BeginUpdate, request
  <2>2. RequestsKeep
    BY <1>0, <1>t, <2>1 DEF RequestsKeep
  <2>3. cacheLock[p] # Update
    BY <1>t, <2>1 DEF UpdateOrderAt
  <2>4. QED
    BY <2>1, <2>2, <2>3 DEF UpdateOrderAt
<1>2. CASE LockUpdate(p)
  <2>1. /\ UNCHANGED <<at, locks, mutationMu>> /\ update[p] \in Updates
        /\ cacheLock' = [cacheLock EXCEPT ![p] = Update] /\ update' = [update EXCEPT ![p].phase = "locked"]
    BY <1>t, <1>2 DEF LockUpdate, request
  <2>2. update'[p] # None /\ update'[p].phase = "locked" /\ \A q \in Processes \ {p} : update'[q] = update[q]
    BY <1>0, <1>t, <2>1 DEF Updates
  <2>3. RequestsKeep
    BY <1>0, <1>t, <2>1 DEF RequestsKeep
  <2>4. \A q \in Processes \ {p} : cacheLock'[q] = cacheLock[q]
    BY <1>t, <2>1
  <2>5. QED
    BY <2>2, <2>3, <2>4 DEF UpdateOrderAt
<1>3. CASE StoreUpdate(p) \/ FailUpdate(p)
  <2>1. /\ UNCHANGED <<at, locks>> /\ cacheLock' = [cacheLock EXCEPT ![p] = None]
        /\ \A q \in Processes \ {p} : update'[q] = update[q]
        /\ \A q \in Processes : mutationMu'[q] \in {mutationMu[q], None}
    BY <1>t, <1>3 DEF StoreUpdate, FailUpdate, EndUpdate, request
  <2>2. /\ cacheLock'[p] # Update
        /\ \A q \in Processes \ {p} : cacheLock'[q] = cacheLock[q]
        /\ \A d \in Deleters : cacheLock'[Home[d]] = d => cacheLock[Home[d]] = d
    BY <1>0, <1>t, <2>1
  <2>3. \A d \in Deleters : mutationMu'[Home[d]] = d => mutationMu[Home[d]] = d
    BY <1>0, <2>1
  <2>4. RequestsKeep
    BY <2>1, <2>2, <2>3 DEF RequestsKeep
  <2>5. QED
    BY <2>1, <2>2, <2>4 DEF UpdateOrderAt
<1>4. CASE PublishUpdate(p)
  <2>1. /\ UNCHANGED <<at, locks, cacheLock>> /\ update[p].phase = "stored"
        /\ \A q \in Processes \ {p} : update'[q] = update[q]
        /\ \A q \in Processes : mutationMu'[q] \in {mutationMu[q], None}
    BY <1>t, <1>4 DEF PublishUpdate, EndUpdate, request
  <2>2. \A d \in Deleters : mutationMu'[Home[d]] = d => mutationMu[Home[d]] = d
    BY <1>0, <2>1
  <2>3. RequestsKeep
    BY <2>1, <2>2 DEF RequestsKeep
  <2>4. cacheLock[p] # Update
    BY <2>1 DEF UpdateOrderAt
  <2>5. QED
    BY <2>1, <2>3, <2>4 DEF UpdateOrderAt
<1>5. QED
  BY <1>1, <1>2, <1>3, <1>4 DEF ContinueUpdate

LEMMA StopOrder ==
    ASSUME Typed, NEW p \in Processes, Stop(p)
    PROVE  RequestsKeep /\ \A q \in Processes : UpdateOrderAt(q) => UpdateOrderAt(q)'
<1>0. None # Update /\ \A d \in Deleters : d # None /\ d # Update /\ Home[d] \in Processes
  BY Basics
<1>1. /\ \A q \in Processes : mutationMu'[q] \in {mutationMu[q], None}
      /\ \A q \in Processes : cacheLock'[q] \in {cacheLock[q], None}
      /\ cacheLock'[p] = None /\ \A q \in Processes \ {p} : update'[q] = update[q]
  BY DEF Stop, Typed
<1>2. \A d \in Deleters : ((at'[d] = at[d] /\ locks'[d] = locks[d]) \/ (at'[d] = "idle" /\ locks'[d] = <<>>))
  BY DEF Stop
<1>3. /\ \A d \in Deleters : mutationMu'[Home[d]] = d => mutationMu[Home[d]] = d
      /\ \A d \in Deleters : cacheLock'[Home[d]] = d => cacheLock[Home[d]] = d
  BY <1>0, <1>1
<1>4. RequestsKeep
  BY <1>2, <1>3 DEF RequestsKeep
<1>5. cacheLock'[p] # Update /\ \A q \in Processes : cacheLock'[q] = Update => cacheLock[q] = Update
  BY <1>0, <1>1
<1>6. QED
  BY <1>1, <1>4, <1>5 DEF UpdateOrderAt

\* No circle of waiting requests and updates can arise: each lock is waited for
\* by those alone that hold earlier ones, whatever aborts, lost answers and
\* stopped processes come between.
THEOREM NoCircularWait == Spec => []WaitsInOrder
<1>1. Init => OrderInv
  BY Basics, LockLists DEF Init, OrderInv, OrderAt, UpdateOrderAt
<1>2. ASSUME Typed, OrderInv, [Next]_vars PROVE OrderInv'
  <2>1. ASSUME NEW d \in Deleters, Preflight(d) \/ Continue(d) PROVE OrderInv'
    <3>1. OrderAt(d)' /\ OthersKeep(d)
      BY <1>2, <2>1, RequestOrder DEF OrderInv
    <3>2. \A e \in Deleters \ {d} : OrderAt(e)'
      BY <1>2, <3>1 DEF OrderInv, OrderAt, OthersKeep
    <3>3. \A p \in Processes : UpdateOrderAt(p)'
      BY <1>2, <3>1 DEF OrderInv, UpdateOrderAt, OthersKeep
    <3>4. QED
      BY <3>1, <3>2, <3>3 DEF OrderInv
  <2>2. ASSUME RequestsKeep, \A q \in Processes : UpdateOrderAt(q) => UpdateOrderAt(q)'
        PROVE  OrderInv'
    BY <1>2, <2>2, LockLists DEF OrderInv, OrderAt, RequestsKeep
  <2>3. ASSUME NEW p \in Processes, ContinueUpdate(p) \/ \E shows \in BOOLEAN : BeginUpdate(p, shows)
        PROVE  OrderInv'
    BY <1>2, <2>2, <2>3, UpdateOrder DEF OrderInv
  <2>4. ASSUME NEW p \in Processes, Stop(p) PROVE OrderInv'
    BY <1>2, <2>2, <2>4, StopOrder
  <2>5. CASE UNCHANGED <<at, locks, mutationMu, cacheLock, update>>
    BY <1>2, <2>5 DEF OrderInv, OrderAt, UpdateOrderAt
  <2>6. ASSUME NEW p \in Processes, Synchronize(p) \/ RetryCleans(p) \/ RetryFails(p) \/ Start(p)
        PROVE  UNCHANGED <<at, locks, mutationMu, cacheLock, update>>
    BY <2>6 DEF Synchronize, RetryCleans, RetryFails, EndRetry, Start, owned, request
  <2>7. QED
    BY <1>2, <2>1, <2>3, <2>4, <2>5, <2>6 DEF Next, UpdateResource, vars, owned, request
<1>3. ASSUME Typed, OrderInv PROVE WaitsInOrder
  <2>1. \A d \in Deleters : mediaLock = d <=> at[d] = "transaction"
    BY <1>3 DEF Typed, TypeOK
  <2>2. QED
    BY <1>3, <2>1, LockLists DEF OrderInv, OrderAt, UpdateOrderAt, WaitsInOrder, Awaits
<1>4. Typed /\ OrderInv /\ [Next]_vars => OrderInv'
  BY <1>2
<1>5. Typed /\ OrderInv => WaitsInOrder
  BY <1>3
<1>6. IInv => Typed
  BY DEF IInv
<1>7. QED
  BY <1>1, <1>4, <1>5, <1>6, Invariant, PTL DEF Spec

================================================================================
