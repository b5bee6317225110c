-------------------------- MODULE CacheCoherenceProofs --------------------------
(***************************************************************************)
(* The coherence of the repository cache for any number of processes,      *)
(* requests, sites and resources, any tree and any mutations.              *)
(***************************************************************************)
EXTENDS CacheCoherence, TLAPS

-----------------------------------------------------------------------------
(* The tree.                                                               *)

TreeTyped ==
    /\ rows \in [Resources -> Sites \cup {None}]
    /\ parent \in [Resources -> Resources \cup {None}]

LEMMA NoneIsNoMember == None \notin Sites /\ None \notin Resources /\ Items \subseteq Resources
BY CacheAssumption

LEMMA AncestorsOwn == \A r \in Resources : r \in Ancestors(r) /\ Ancestors(r) \subseteq Resources
BY DEF Ancestors

LEMMA AncestorsLeast ==
    ASSUME NEW S \in SUBSET Resources, Closed(S), NEW r \in S
    PROVE  Ancestors(r) \subseteq S
BY DEF Ancestors

LEMMA AncestorsClosed ==
    ASSUME TreeTyped, NEW r \in Resources
    PROVE  Closed(Ancestors(r))
<1> SUFFICES ASSUME NEW c \in Ancestors(r), parent[c] # None
             PROVE  parent[c] \in Ancestors(r)
  BY DEF Closed
<1>1. c \in Resources /\ parent[c] \in Resources
  BY DEF Ancestors, TreeTyped
<1>2. ASSUME NEW S \in SUBSET Resources, r \in S, Closed(S) PROVE parent[c] \in S
  <2>1. c \in S
    BY <1>2, AncestorsLeast
  <2>2. QED
    BY <1>2, <2>1 DEF Closed
<1>3. QED
  BY <1>1, <1>2 DEF Ancestors

LEMMA AncestorsTransitive ==
    ASSUME TreeTyped, NEW r \in Resources, NEW b \in Ancestors(r)
    PROVE  Ancestors(b) \subseteq Ancestors(r)
BY AncestorsClosed, AncestorsOwn, AncestorsLeast

\* An ancestor other than the resource itself is an ancestor of its parent.
LEMMA AncestorStep ==
    ASSUME TreeTyped, NEW r \in Resources, NEW a \in Ancestors(r), a # r
    PROVE  parent[r] # None /\ a \in Ancestors(parent[r])
<1> DEFINE S == {r} \cup (IF parent[r] = None THEN {} ELSE Ancestors(parent[r]))
<1>1. parent[r] # None => parent[r] \in Resources
  BY DEF TreeTyped
<1>2. S \in SUBSET Resources
  BY <1>1, AncestorsOwn
<1>3. Closed(S)
  <2>1. CASE parent[r] = None
    BY <2>1 DEF Closed
  <2>2. CASE parent[r] # None
    <3>1. Closed(Ancestors(parent[r])) /\ parent[r] \in Ancestors(parent[r])
      BY <1>1, <2>2, AncestorsClosed, AncestorsOwn
    <3>2. QED
      BY <2>2, <3>1 DEF Closed
  <2>3. QED
    BY <2>1, <2>2
<1>4. a \in S
  BY <1>2, <1>3, AncestorsLeast
<1>5. QED
  BY <1>4

\* A whole branch lives in one site.
LEMMA AncestorsSite ==
    ASSUME TreeTyped, Forest, NEW r \in Resources, NEW a \in Ancestors(r)
    PROVE  a \in Resources /\ rows[a] = rows[r]
<1> DEFINE S == {c \in Resources : rows[c] = rows[r]}
<1>1. Closed(S)
  BY DEF Closed, Forest, TreeTyped
<1>2. r \in S /\ S \in SUBSET Resources
  OBVIOUS
<1>3. QED
  BY <1>1, <1>2, AncestorsLeast

LEMMA SubtreeSite ==
    ASSUME TreeTyped, Forest, NEW r \in Resources
    PROVE  /\ Subtree(r) \subseteq Resources
           /\ \A c \in Subtree(r) : rows[c] = rows[r] /\ rows[c] # None
BY AncestorsSite DEF Subtree

\* Without children a resource is an ancestor of nobody else.
LEMMA LeafBelowNobody ==
    ASSUME TreeTyped, NEW x \in Resources, \A c \in Resources : parent[c] # x,
           NEW r \in Resources, r # x
    PROVE  x \notin Ancestors(r)
<1> DEFINE S == Resources \ {x}
<1>1. Closed(S)
  BY DEF Closed, TreeTyped
<1>2. QED
  BY <1>1, AncestorsLeast

LEMMA ItemSubtree ==
    ASSUME TreeTyped, Forest, NEW x \in Items
    PROVE  Subtree(x) \subseteq {x}
<1>1. x \in Resources /\ \A c \in Resources : parent[c] # x
  BY NoneIsNoMember DEF Forest
<1>2. QED
  BY <1>1, LeafBelowNobody DEF Subtree

-----------------------------------------------------------------------------
(* The tree under the mutations.                                           *)

\* What is known of a mutation, whenever it was begun.
Sound(m) ==
    /\ m.site \in Sites
    /\ m.op \notin SiteOperations => m.id \in Resources
    /\ m.op \in {"move", "transfer", "reorder"} => m.id \notin Items
    /\ m.op \in {"create", "move", "moveItem"} => m.to \in (Resources \ Items) \cup {None}
    /\ (m.op = "moveItem" \/ (m.op = "create" /\ m.id \in Items)) => m.to # None
    /\ m.op = "moveItem" => m.id \in Items
    /\ m.op = "transfer" => m.to \in Sites

\* Outside a closed set one is no ancestor of its members.
LEMMA Outside ==
    ASSUME NEW r, NEW S \in SUBSET Resources, parent'[r] \in S, Closed(S)', r \notin S
    PROVE  r \notin Ancestors(parent[r])'
BY DEF Ancestors

\* Hanging a resource below another that is not below it makes no circle.
LEMMA Reparented ==
    ASSUME TreeTyped, Forest, NEW x \in Resources, NEW to \in Resources \cup {None},
           parent' = [parent EXCEPT ![x] = to],
           to # None => x \notin Ancestors(to)
    PROVE  \A r \in Resources : parent'[r] # None => r \notin Ancestors(parent[r])'
<1> SUFFICES ASSUME NEW r \in Resources, parent'[r] # None
             PROVE  r \notin Ancestors(parent[r])'
  OBVIOUS
<1>1. /\ parent'[x] = to /\ \A c \in Resources \ {x} : parent'[c] = parent[c]
  BY DEF TreeTyped
<1>2. ASSUME NEW S \in SUBSET Resources, Closed(S), (x \in S /\ to # None) => to \in S
      PROVE  Closed(S)'
  BY <1>1, <1>2 DEF Closed
<1>3. CASE r = x
  <2>1. PICK A \in SUBSET Resources : A = Ancestors(to)
    BY <1>1, <1>3, AncestorsOwn
  <2>2. Closed(A) /\ to \in A /\ x \notin A /\ to # None
    BY <1>1, <1>3, <2>1, AncestorsClosed, AncestorsOwn
  <2>3. Closed(A)'
    BY <1>2, <2>2
  <2>4. QED
    BY <1>1, <1>3, <2>2, <2>3, Outside
<1>4. CASE r # x
  <2>1. parent'[r] = parent[r] /\ parent[r] \in Resources
    BY <1>1, <1>4 DEF TreeTyped
  <2>2. PICK A \in SUBSET Resources : A = Ancestors(parent[r])
    BY <2>1, AncestorsOwn
  <2>3. Closed(A) /\ parent[r] \in A /\ r \notin A
    BY <1>1, <1>4, <2>1, <2>2, AncestorsClosed, AncestorsOwn DEF Forest
  <2>4. CASE x \notin A \/ to = None
    <3>1. Closed(A)'
      BY <1>2, <2>3, <2>4
    <3>2. QED
      BY <2>1, <2>3, <3>1, Outside
  <2>5. CASE x \in A /\ to # None
    <3>1. PICK B \in SUBSET Resources : B = Ancestors(to)
      BY <2>5, AncestorsOwn
    <3>2. to \in Resources /\ Closed(B) /\ to \in B /\ x \notin B
      BY <2>5, <3>1, AncestorsClosed, AncestorsOwn
    <3>3. PICK C \in SUBSET Resources : C = A \cup B
      OBVIOUS
    <3>4. Closed(C) /\ to \in C
      BY <2>3, <3>2, <3>3 DEF Closed
    <3>5. Closed(C)'
      BY <1>2, <3>4
    <3>6. r \notin B
      <4>1. A \subseteq Ancestors(r)
        <5>1. parent[r] \in Ancestors(r)
          BY <1>1, <1>4, AncestorsClosed, AncestorsOwn DEF Closed
        <5>2. QED
          BY <2>2, <5>1, AncestorsTransitive
      <4>2. r \in B => x \in B
        BY <2>5, <3>1, <3>2, <4>1, AncestorsTransitive
      <4>3. QED
        BY <3>2, <4>2
    <3>7. QED
      BY <2>1, <2>3, <3>3, <3>5, <3>6, Outside
  <2>6. QED
    BY <2>4, <2>5
<1>5. QED
  BY <1>3, <1>4

\* A resource that is made, or gets another parent in its own site.
LEMMA Hung ==
    ASSUME TreeTyped, Forest, NEW x \in Resources, NEW s \in Sites,
           NEW to \in (Resources \ Items) \cup {None},
           rows' = [rows EXCEPT ![x] = s], parent' = [parent EXCEPT ![x] = to],
           to # None => rows[to] = s /\ x \notin Ancestors(to),
           x \in Items => to # None,
           rows[x] = s \/ \A c \in Resources : parent[c] # x
    PROVE  TreeTyped' /\ Forest'
<1>1. TreeTyped'
  BY DEF TreeTyped
<1>2. \A r \in Resources : parent'[r] # None => r \notin Ancestors(parent[r])'
  BY Reparented
<1>3. /\ rows'[x] = s /\ parent'[x] = to /\ s # None
      /\ \A c \in Resources \ {x} : rows'[c] = rows[c] /\ parent'[c] = parent[c]
  BY NoneIsNoMember DEF TreeTyped
<1>4. to # None => to # x
  BY AncestorsOwn
<1>5. ASSUME NEW r \in Resources
      PROVE  /\ parent'[r] # None => /\ parent'[r] \notin Items
                                     /\ rows'[parent'[r]] = rows'[r] /\ rows'[r] # None
             /\ (r \in Items /\ rows'[r] # None) => parent'[r] # None
  <2>1. CASE r = x
    BY <1>3, <1>4, <2>1
  <2>2. CASE r # x
    <3>1. /\ parent[r] # None => /\ parent[r] \in Resources \ Items
                                 /\ rows[parent[r]] = rows[r] /\ rows[r] # None
          /\ (r \in Items /\ rows[r] # None) => parent[r] # None
      BY DEF Forest, TreeTyped
    <3>2. QED
      BY <1>3, <2>2, <3>1
  <2>3. QED
    BY <2>1, <2>2
<1>6. QED
  BY <1>1, <1>2, <1>5 DEF Forest

\* What hangs below a branch is of the branch.
LEMMA SubtreeDown ==
    ASSUME TreeTyped, Forest, NEW x \in Resources, NEW r \in Resources, parent[r] \in Subtree(x)
    PROVE  r \in Subtree(x)
<1>1. parent[r] \in Resources /\ parent[r] # None /\ x \in Ancestors(parent[r])
  BY NoneIsNoMember DEF Subtree
<1>2. parent[r] \in Ancestors(r) /\ rows[r] # None
  BY <1>1, AncestorsClosed, AncestorsOwn DEF Closed, Forest
<1>3. QED
  BY <1>1, <1>2, AncestorsTransitive DEF Subtree

LEMMA SubtreeUp ==
    ASSUME TreeTyped, Forest, NEW x \in Resources, NEW r \in Subtree(x), r # x
    PROVE  parent[r] \in Subtree(x)
<1>1. r \in Resources /\ rows[r] # None /\ x \in Ancestors(r)
  BY DEF Subtree
<1>2. parent[r] # None /\ x \in Ancestors(parent[r])
  BY <1>1, AncestorStep
<1>3. parent[r] \in Resources /\ rows[parent[r]] # None
  BY <1>1, <1>2 DEF TreeTyped, Forest
<1>4. QED
  BY <1>2, <1>3 DEF Subtree

LEMMA BranchDeleted ==
    ASSUME TreeTyped, Forest, NEW x \in Resources,
           rows' = [r \in Resources |-> IF r \in Subtree(x) THEN None ELSE rows[r]],
           parent' = [r \in Resources |-> IF r \in Subtree(x) THEN None ELSE parent[r]]
    PROVE  TreeTyped' /\ Forest'
<1>1. TreeTyped'
  BY DEF TreeTyped
<1>2. ASSUME NEW r \in Resources, parent'[r] # None
      PROVE  r \notin Subtree(x) /\ parent'[r] = parent[r] /\ parent[r] \in Resources \ Subtree(x)
  BY <1>2, SubtreeDown DEF TreeTyped
<1>3. ASSUME NEW r \in Resources, parent'[r] # None
      PROVE  r \notin Ancestors(parent[r])'
  <2>1. PICK A \in SUBSET Resources : A = Ancestors(parent[r])
    BY <1>2, <1>3, AncestorsOwn
  <2>2. Closed(A) /\ parent'[r] \in A /\ r \notin A
    BY <1>2, <1>3, <2>1, AncestorsClosed, AncestorsOwn DEF Forest
  <2>3. Closed(A)'
    BY <2>2 DEF Closed
  <2>4. QED
    BY <2>2, <2>3, Outside
<1>4. ASSUME NEW r \in Resources
      PROVE  /\ parent'[r] # None => /\ parent'[r] \notin Items
                                     /\ rows'[parent'[r]] = rows'[r] /\ rows'[r] # None
             /\ (r \in Items /\ rows'[r] # None) => parent'[r] # None
  BY <1>2 DEF Forest
<1>5. QED
  BY <1>1, <1>3, <1>4 DEF Forest

LEMMA BranchTransferred ==
    ASSUME TreeTyped, Forest, NEW x \in Resources \ Items, NEW s \in Sites,
           rows' = [r \in Resources |-> IF r \in Subtree(x) THEN s ELSE rows[r]],
           parent' = [parent EXCEPT ![x] = None]
    PROVE  TreeTyped' /\ Forest'
<1>1. TreeTyped'
  BY DEF TreeTyped
<1>2. \A r \in Resources : parent'[r] # None => r \notin Ancestors(parent[r])'
  BY Reparented
<1>3. ASSUME NEW r \in Resources, parent'[r] # None
      PROVE  /\ r # x /\ parent'[r] = parent[r] /\ parent[r] \in Resources
             /\ r \in Subtree(x) <=> parent[r] \in Subtree(x)
  <2>1. r # x /\ parent'[r] = parent[r] /\ parent[r] \in Resources
    BY <1>3 DEF TreeTyped
  <2>2. QED
    BY <2>1, SubtreeUp, SubtreeDown
<1>4. s # None /\ parent'[x] = None /\ \A r \in Resources \ {x} : parent'[r] = parent[r]
  BY NoneIsNoMember DEF TreeTyped
<1>5. ASSUME NEW r \in Resources
      PROVE  /\ parent'[r] # None => /\ parent'[r] \notin Items
                                     /\ rows'[parent'[r]] = rows'[r] /\ rows'[r] # None
             /\ (r \in Items /\ rows'[r] # None) => parent'[r] # None
  <2>1. parent'[r] # None => /\ parent'[r] \notin Items
                             /\ rows'[parent'[r]] = rows'[r] /\ rows'[r] # None
    BY <1>3, <1>4 DEF Forest
  <2>2. r \in Items /\ rows'[r] # None => parent'[r] # None
    BY <1>4, SubtreeSite DEF Forest
  <2>3. QED
    BY <2>1, <2>2
<1>6. QED
  BY <1>1, <1>2, <1>5 DEF Forest

\* With a site go whole branches.
LEMMA SiteDeleted ==
    ASSUME TreeTyped, Forest, NEW s \in Sites,
           rows' = [r \in Resources |-> IF r \in ResourcesOf(s) THEN None ELSE rows[r]],
           parent' = [r \in Resources |-> IF r \in ResourcesOf(s) THEN None ELSE parent[r]]
    PROVE  TreeTyped' /\ Forest'
<1>1. TreeTyped'
  BY DEF TreeTyped
<1>2. ASSUME NEW r \in Resources, parent'[r] # None
      PROVE  r \notin ResourcesOf(s) /\ parent'[r] = parent[r] /\ parent[r] \in Resources \ ResourcesOf(s)
  BY <1>2 DEF TreeTyped, Forest, ResourcesOf
<1>3. ASSUME NEW r \in Resources, parent'[r] # None
      PROVE  r \notin Ancestors(parent[r])'
  <2>1. PICK A \in SUBSET Resources : A = Ancestors(parent[r])
    BY <1>2, <1>3, AncestorsOwn
  <2>2. Closed(A) /\ parent'[r] \in A /\ r \notin A
    BY <1>2, <1>3, <2>1, AncestorsClosed, AncestorsOwn DEF Forest
  <2>3. Closed(A)'
    BY <2>2 DEF Closed
  <2>4. QED
    BY <2>2, <2>3, Outside
<1>4. ASSUME NEW r \in Resources
      PROVE  /\ parent'[r] # None => /\ parent'[r] \notin Items
                                     /\ rows'[parent'[r]] = rows'[r] /\ rows'[r] # None
             /\ (r \in Items /\ rows'[r] # None) => parent'[r] # None
  BY <1>2 DEF Forest
<1>5. QED
  BY <1>1, <1>3, <1>4 DEF Forest

\* Nothing hangs below an item, or below a resource that is not there.
LEMMA Childless ==
    ASSUME TreeTyped, Forest, NEW x \in Resources, x \in Items \/ rows[x] = None
    PROVE  \A c \in Resources : parent[c] # x
BY NoneIsNoMember DEF Forest

\* Every statement that is accepted leaves a forest in which children live in
\* the site of their parent.
LEMMA ForestKept ==
    ASSUME TreeTyped, Forest, NEW m, Sound(m), m.op \in Operations, Valid(m), Apply(m)
    PROVE  TreeTyped' /\ Forest'
<1>0. m.site # None
  BY NoneIsNoMember DEF Sound
<1>1. CASE m.op = "create"
  <2>1. /\ rows' = [rows EXCEPT ![m.id] = m.site] /\ parent' = [parent EXCEPT ![m.id] = m.to]
        /\ m.id \in Resources /\ m.site \in Sites /\ m.to \in (Resources \ Items) \cup {None}
        /\ m.id \in Items => m.to # None
    BY <1>1 DEF Apply, Sound, SiteOperations
  <2>2. rows[m.id] = None /\ (m.to # None => rows[m.to] = m.site)
    BY <1>1 DEF Valid, SiteOf
  <2>3. \A c \in Resources : parent[c] # m.id
    BY <2>1, <2>2, Childless
  <2>4. m.to # None => m.id \notin Ancestors(m.to)
    BY <1>0, <2>1, <2>2, <2>3, LeafBelowNobody
  <2>5. QED
    BY <2>1, <2>2, <2>3, <2>4, Hung
<1>2. CASE m.op = "move"
  <2>1. /\ rows' = rows /\ parent' = [parent EXCEPT ![m.id] = m.to]
        /\ m.id \in Resources \ Items /\ m.site \in Sites /\ m.to \in (Resources \ Items) \cup {None}
    BY <1>2 DEF Apply, Sound, SiteOperations
  <2>2. /\ rows[m.id] = m.site /\ m.to \notin Subtree(m.id)
        /\ m.to # None => rows[m.to] = m.site
    BY <1>2 DEF Valid, SiteOf
  <2>3. m.to # None => m.id \notin Ancestors(m.to)
    BY <1>0, <2>1, <2>2 DEF Subtree
  <2>4. rows' = [rows EXCEPT ![m.id] = m.site]
    BY <2>1, <2>2 DEF TreeTyped
  <2>5. QED
    BY <2>1, <2>2, <2>3, <2>4, Hung
<1>3. CASE m.op = "moveItem"
  <2>1. /\ rows' = rows /\ parent' = [parent EXCEPT ![m.id] = m.to]
        /\ m.id \in Items /\ m.id \in Resources /\ m.to \in Resources \ Items
    BY <1>3 DEF Apply, Sound, SiteOperations
  <2>2. rows[m.id] # None /\ rows[m.to] = rows[m.id]
    BY <1>3 DEF Valid
  <2>3. m.id \notin Ancestors(m.to)
    BY <2>1, Childless, LeafBelowNobody
  <2>4. rows' = [rows EXCEPT ![m.id] = rows[m.id]] /\ rows[m.id] \in Sites
    BY <2>1, <2>2 DEF TreeTyped
  <2>5. PICK s \in Sites : s = rows[m.id] /\ s = rows[m.to] /\ rows' = [rows EXCEPT ![m.id] = s]
    BY <2>2, <2>4
  <2>6. PICK x \in Resources, to \in (Resources \ Items) \cup {None} : x = m.id /\ to = m.to
    BY <2>1
  <2>7. /\ parent' = [parent EXCEPT ![x] = to] /\ rows' = [rows EXCEPT ![x] = s]
        /\ rows[to] = s /\ x \notin Ancestors(to) /\ to # None /\ rows[x] = s
    BY <2>1, <2>3, <2>5, <2>6, NoneIsNoMember
  <2>8. QED
    BY <2>7, Hung
<1>4. CASE m.op = "delete"
  BY <1>4, BranchDeleted DEF Apply, Sound, SiteOperations
<1>5. CASE m.op = "transfer"
  BY <1>5, BranchTransferred DEF Apply, Sound, SiteOperations
<1>6. CASE m.op = "siteDelete"
  BY <1>6, SiteDeleted DEF Apply, Sound
<1>7. CASE m.op \notin {"create", "move", "moveItem", "delete", "transfer", "siteDelete"}
  <2>1. UNCHANGED <<rows, parent>>
    BY <1>7 DEF Apply
  <2>2. QED
    BY <2>1 DEF TreeTyped, Forest, Ancestors, Closed
<1>8. QED
  BY <1>1, <1>2, <1>3, <1>4, <1>5, <1>6, <1>7

\* Resources are of sites that exist.
Placed ==
    /\ existing \subseteq Sites
    /\ \A r \in Resources : rows[r] \in existing \cup {None}

LEMMA PlacedKept ==
    ASSUME TreeTyped, Placed, NEW m, m.op \in Operations, Valid(m), Apply(m)
    PROVE  Placed'
<1>1. CASE m.op = "siteDelete"
  <2>1. /\ existing' = existing \ {m.site}
        /\ rows' = [r \in Resources |-> IF r \in ResourcesOf(m.site) THEN None ELSE rows[r]]
    BY <1>1 DEF Apply
  <2>2. QED
    BY <2>1 DEF Placed, ResourcesOf
<1>2. CASE m.op # "siteDelete"
  <2>1. existing' = existing
    BY <1>2 DEF Apply
  <2>2. CASE m.op = "create"
    BY <2>1, <2>2 DEF Apply, Valid, Placed, TreeTyped
  <2>3. CASE m.op = "transfer"
    BY <2>1, <2>3 DEF Apply, Valid, Placed
  <2>4. CASE m.op = "delete"
    BY <2>1, <2>4 DEF Apply, Placed
  <2>5. CASE m.op \notin {"create", "transfer", "delete"}
    BY <1>2, <2>1, <2>5 DEF Apply, Placed
  <2>6. QED
    BY <2>2, <2>3, <2>4, <2>5
<1>3. QED
  BY <1>1, <1>2

-----------------------------------------------------------------------------
(* Mutations announce what they change.                                    *)

\* A row changes only where the statement is said to reach.
LEMMA OnlyTouched ==
    ASSUME TreeTyped, Forest, NEW m, Sound(m), m.op \in Operations, Apply(m),
           NEW r \in Resources, r \notin Touched(m)
    PROVE  rows'[r] = rows[r]
<1>1. CASE m.op = "create"
  BY <1>1 DEF Apply, Touched, TreeTyped
<1>2. CASE m.op = "delete" /\ m.id \notin Items
  BY <1>2 DEF Apply, Touched
<1>3. CASE m.op = "delete" /\ m.id \in Items
  <2>1. Subtree(m.id) \subseteq {m.id} /\ Touched(m) = {m.id}
    BY <1>3, ItemSubtree DEF Touched
  <2>2. QED
    BY <1>3, <2>1 DEF Apply
<1>4. CASE m.op = "transfer"
  BY <1>4 DEF Apply, Touched, Sound
<1>5. CASE m.op = "siteDelete"
  BY <1>5 DEF Apply, Touched
<1>6. CASE m.op \notin {"create", "delete", "transfer", "siteDelete"}
  BY <1>6 DEF Apply
<1>7. QED
  BY <1>1, <1>2, <1>3, <1>4, <1>5, <1>6

\* What a mutation that found its resource in place touches is in its site, or
\* comes or goes there.
LEMMA TouchedSite ==
    ASSUME TreeTyped, Forest, NEW m, Sound(m), m.op \in Operations \ SiteOperations, Valid(m), ~Misplaced(m),
           Apply(m), NEW c \in Touched(m)
    PROVE  /\ c \in Resources
           /\ rows[c] \in {m.site, None}
           /\ rows'[c] \in {m.site, None} \/ (m.op = "transfer" /\ rows'[c] = m.to)
<1>1. m.id \in Resources
  BY DEF Sound
<1>2. rows[m.id] = IF m.op = "create" THEN None ELSE m.site
  <2>1. CASE m.op = "create"
    BY <2>1 DEF Valid
  <2>2. CASE m.op = "transfer"
    BY <2>2 DEF Valid, ReadFirst
  <2>3. CASE m.op \notin {"create", "transfer"}
    BY <2>3 DEF Misplaced
  <2>4. QED
    BY <2>1, <2>2, <2>3
<1>3. c \in Resources /\ rows[c] = rows[m.id]
  <2>1. \A d \in Subtree(m.id) : d \in Resources /\ rows[d] = rows[m.id]
    BY <1>1, SubtreeSite
  <2>2. \A d \in Siblings(m.id) : d \in Resources /\ rows[d] = rows[m.id]
    BY DEF Siblings, ChildrenOf
  <2>3. \A d \in ChildrenOf(m.site, m.to) : d \in Resources /\ rows[d] = m.site
    BY DEF ChildrenOf
  <2>4. CASE m.op = "move"
    BY <1>2, <2>1, <2>2, <2>3, <2>4 DEF Touched
  <2>5. CASE m.op # "move"
    BY <1>1, <2>1, <2>2, <2>5 DEF Touched, ResourcesOf, SiteOperations
  <2>6. QED
    BY <2>4, <2>5
<1>4. rows'[c] \in {rows[c], m.site, None} \/ (m.op = "transfer" /\ rows'[c] = m.to)
  BY <1>3 DEF Apply, TreeTyped
<1>5. QED
  BY <1>2, <1>3, <1>4

\* The tags every mutation of a resource announces.
LEMMA AnnouncesSite ==
    ASSUME NEW m, m.op \in Operations \ SiteOperations
    PROVE  /\ SiteResources(m.site) \in Invalidated(m)
           /\ m.op = "transfer" => SiteResources(m.to) \in Invalidated(m)
           /\ m.op = "media" => SiteTree(m.site) \in Invalidated(m)
           /\ m.op # "media" => ResourceTag(m.id) \in Invalidated(m)
BY DEF Invalidated, Locked, EntityTags, Operations, SiteOperations

LEMMA AnnouncesRoutes ==
    ASSUME NEW m, Sound(m), m.op \notin SiteOperations, ChangesRoutes(m)
    PROVE  /\ SiteRoutes(m.site) \in Invalidated(m)
           /\ m.op = "transfer" => SiteRoutes(m.to) \in Invalidated(m)
BY DEF Invalidated, ChangesRoutes, Sound, SiteOperations

\* A mutation that reaches other resources announces the tree of their site,
\* unless it is an update that changes no route.
LEMMA AnnouncesTree ==
    ASSUME TreeTyped, Forest, NEW m, Sound(m), m.op \in Operations \ (SiteOperations \cup {"update", "reorder"}),
           NEW c \in Touched(m), c # m.id
    PROVE  SiteTree(m.site) \in Invalidated(m)
<1>1. CASE m.op = "transfer"
  BY <1>1 DEF Invalidated
<1>2. CASE m.op \in {"move", "delete", "retire"} /\ m.id \notin Items
  BY <1>2 DEF Invalidated
<1>3. CASE m.op \in {"delete", "retire"} /\ m.id \in Items
  <2>1. Subtree(m.id) \subseteq {m.id}
    BY <1>3, ItemSubtree
  <2>2. QED
    BY <1>3, <2>1 DEF Touched
<1>4. CASE m.op \notin {"transfer", "move", "delete", "retire"}
  BY <1>4 DEF Touched, SiteOperations
<1>5. QED
  BY <1>1, <1>2, <1>3, <1>4 DEF Sound

\* A capture is of the dependencies of its owner.
CaptureSound(c) ==
    /\ c.tags = Dependencies(c.owner)
    /\ IF key.kind = "resource" THEN c.owner \in Sites ELSE c.owner = key.site

\* A loaded value that is not behind is of the site in which the resource is.
LoadedSound(c) == (key.kind = "resource" /\ ~c.behind) => rows[key.id] = c.owner

LEMMA KeyKinds ==
    ASSUME key \in Keys
    PROVE  /\ key.kind \in {"sites", "list", "route", "resource"}
           /\ key.kind \in {"list", "route", "resource"} => key.site \in Sites
           /\ key.kind = "resource" => key.id \in Resources
BY DEF Keys, Key

LEMMA KindOfOperation ==
    ASSUME NEW m, ChangesKey(m), key \in Keys
    PROVE  IF key.kind = "sites" THEN m.op \in SiteOperations ELSE m.op # "site"
<1>1. CASE key.kind = "sites"
  BY <1>1 DEF ChangesKey
<1>2. CASE key.kind \in {"list", "route", "resource"}
  <2>1. Touched(m) # {}
    BY <1>2 DEF ChangesKey
  <2>2. QED
    BY <1>2, <2>1 DEF Touched
<1>3. QED
  BY <1>1, <1>2, KeyKinds

\* The deletion of a site announces all that depends on the site.
LEMMA SiteIsAnnounced ==
    ASSUME TreeTyped, key \in Keys, NEW m, Sound(m), m.op \in SiteOperations, Apply(m), ChangesKey(m),
           NEW c, CaptureSound(c), LoadedSound(c), ~c.behind
    PROVE  c.tags \cap Invalidated(m) # {}
<1>1. SitesTag \in Invalidated(m) /\ SiteTag(m.site) \in Invalidated(m)
  BY DEF Invalidated, Locked, SiteOperations
<1>2. CASE key.kind = "sites"
  BY <1>1, <1>2 DEF CaptureSound, Dependencies
<1>3. CASE key.kind \in {"list", "route", "resource"}
  <2>1. m.op = "siteDelete"
    BY <1>3, KindOfOperation DEF SiteOperations
  <2>2. \A d \in Touched(m) : d \in Resources /\ rows[d] = m.site /\ rows'[d] = None
    BY <2>1 DEF Touched, ResourcesOf, Apply
  <2>3. CASE key.kind \in {"list", "route"}
    <3>1. c.owner = key.site /\ key.site # None
      BY <2>3, KeyKinds, NoneIsNoMember DEF CaptureSound
    <3>2. PICK d \in Touched(m) : key.site \in {rows[d], rows'[d]}
      BY <2>3 DEF ChangesKey
    <3>3. SiteTag(m.site) \in c.tags
      BY <2>2, <2>3, <3>1, <3>2 DEF CaptureSound, Dependencies
    <3>4. QED
      BY <1>1, <3>3
  <2>4. CASE key.kind = "resource"
    <3>1. key.id \in Touched(m) /\ rows[key.id] = c.owner /\ SiteTag(c.owner) \in c.tags
      BY <2>4 DEF ChangesKey, CaptureSound, LoadedSound, Dependencies
    <3>2. QED
      BY <1>1, <2>2, <3>1
  <2>5. QED
    BY <1>3, <2>3, <2>4
<1>4. QED
  BY <1>2, <1>3, KeyKinds

\* Whatever a mutation overtakes without a known excuse it will invalidate.
LEMMA OvertakenIsAnnounced ==
    ASSUME TreeTyped, Forest, key \in Keys, NEW m, Sound(m), m.op \in Operations, Valid(m), Apply(m),
           ChangesKey(m), Excuse(m) = {},
           NEW c, CaptureSound(c), LoadedSound(c), ~c.behind
    PROVE  c.tags \cap Invalidated(m) # {}
<1>0. /\ ~Misplaced(m)
      /\ m.op \in {"update", "reorder"} => key.id \notin Touched(m) \ {m.id}
  BY DEF Excuse
<1>1. CASE m.op \in SiteOperations
  BY <1>1, SiteIsAnnounced
<1>2. CASE m.op \notin SiteOperations
  <2>0. m.op \in Operations \ SiteOperations /\ m.site \in Sites /\ key.kind # "sites"
    BY <1>2, KindOfOperation DEF Sound
  <2>1. CASE key.kind \in {"list", "route"}
    <3>1. c.owner = key.site /\ key.site \in Sites /\ key.site # None
      BY <2>1, KeyKinds, NoneIsNoMember DEF CaptureSound
    <3>2. PICK d \in Touched(m) : key.site \in {rows[d], rows'[d]}
      BY <2>1 DEF ChangesKey
    <3>3. key.site = m.site \/ (m.op = "transfer" /\ key.site = m.to)
      BY <1>0, <2>0, <3>1, <3>2, TouchedSite
    <3>4. CASE key.kind = "list"
      <4>1. SiteResources(key.site) \in Invalidated(m)
        BY <2>0, <3>3, AnnouncesSite
      <4>2. SiteResources(key.site) \in c.tags
        BY <3>1, <3>4 DEF CaptureSound, Dependencies
      <4>3. QED
        BY <4>1, <4>2
    <3>5. CASE key.kind = "route"
      <4>1. SiteRoutes(key.site) \in Invalidated(m)
        BY <1>2, <3>3, <3>5, AnnouncesRoutes DEF ChangesKey
      <4>2. SiteRoutes(key.site) \in c.tags
        BY <3>1, <3>5 DEF CaptureSound, Dependencies
      <4>3. QED
        BY <4>1, <4>2
    <3>6. QED
      BY <2>1, <3>4, <3>5
  <2>2. CASE key.kind = "resource"
    <3>1. /\ key.id \in Touched(m) /\ rows[key.id] = c.owner /\ c.owner \in Sites /\ c.owner # None
          /\ SiteTree(c.owner) \in c.tags /\ ResourceTag(key.id) \in c.tags
      BY <2>2, NoneIsNoMember DEF ChangesKey, CaptureSound, LoadedSound, Dependencies
    <3>2. c.owner = m.site
      BY <1>0, <2>0, <3>1, TouchedSite
    <3>3. CASE key.id # m.id \/ m.op = "media"
      <4>1. SiteTree(m.site) \in Invalidated(m)
        BY <1>0, <2>0, <3>1, <3>3, AnnouncesTree, AnnouncesSite
      <4>2. QED
        BY <3>1, <3>2, <4>1
    <3>4. CASE key.id = m.id /\ m.op # "media"
      BY <2>0, <3>1, <3>4, AnnouncesSite
    <3>5. QED
      BY <3>3, <3>4
  <2>3. QED
    BY <2>0, <2>1, <2>2, KeyKinds
<1>3. QED
  BY <1>1, <1>2

\* A transfer concerns values of the two sites it goes between.
LEMMA TransferOwner ==
    ASSUME TreeTyped, Forest, key \in Keys, NEW m, Sound(m), m.op = "transfer", Valid(m), Apply(m),
           ChangesKey(m), NEW c, CaptureSound(c), LoadedSound(c), ~c.behind
    PROVE  c.owner \in {m.site, m.to}
<1>1. m.op \in Operations \ SiteOperations /\ ~Misplaced(m)
  BY DEF Operations, SiteOperations, Misplaced
<1>2. key.kind # "sites"
  BY KindOfOperation DEF SiteOperations
<1>3. CASE key.kind \in {"list", "route"}
  <2>1. c.owner = key.site /\ key.site # None
    BY <1>3, KeyKinds, NoneIsNoMember DEF CaptureSound
  <2>2. PICK d \in Touched(m) : key.site \in {rows[d], rows'[d]}
    BY <1>3 DEF ChangesKey
  <2>3. QED
    BY <1>1, <2>1, <2>2, TouchedSite
<1>4. CASE key.kind = "resource"
  <2>1. key.id \in Touched(m) /\ rows[key.id] = c.owner /\ c.owner # None
    BY <1>4, NoneIsNoMember DEF ChangesKey, CaptureSound, LoadedSound
  <2>2. QED
    BY <1>1, <2>1, TouchedSite
<1>5. QED
  BY <1>2, <1>3, <1>4, KeyKinds

-----------------------------------------------------------------------------
(* The inductive invariant.                                                *)

Tree == TreeTyped /\ Forest /\ Placed /\ key \in Keys

Phase == {"idle", "reading", "prepared", "loaded", "begun", "locked", "committed"}

\* Where the requests are, and the locks they hold there.  The locks of a
\* process keep its readers and its writers apart.
Control ==
    /\ at \in [Requests -> Phase]
    /\ reading \in [Readers -> ReadLocks \cup {{}}]
    /\ writing \in [Writers -> SUBSET Tags]
    /\ change \in [Writers -> MutationType \cup {None}]
    /\ announced \in [Writers -> SUBSET Tags]
    /\ writes \in 0..MaxWrites
    /\ \A q \in Readers : reading[q] = {} <=> at[q] = "idle"
    /\ \A q \in Writers :
          /\ change[q] = None <=> at[q] = "idle"
          /\ at[q] # "idle" => Sound(change[q])
          /\ writing[q] = IF at[q] \in {"locked", "committed"} THEN Locked(change[q]) ELSE {}
          /\ announced[q] # {} <=> at[q] = "committed"
    /\ \A r \in Readers, w \in Writers : Home[r] = Home[w] => reading[r] \cap writing[w] = {}

\* The captures in the store and in the hands of readers.
Captured ==
    /\ entry \in CaptureType \cup {None}
    /\ entry # None => ~entry.dead /\ CaptureSound(entry)
    /\ fill \in [Readers -> CaptureType \cup {None}]
    /\ \A q \in Readers :
          /\ fill[q] # None <=> at[q] \in {"prepared", "loaded"}
          /\ fill[q] # None => CaptureSound(fill[q])
          /\ at[q] = "prepared" => ~fill[q].behind /\ fill[q].missed = {}

\* The writer that q is will invalidate c.
Awaits(c, q) ==
    /\ AwaitedBy(c, q)
    /\ IF key.kind = "sites" THEN change[q].op \in SiteOperations ELSE change[q].op # "site"
    /\ change[q].op = "transfer" => c.owner \in {change[q].site, change[q].to}

StaleSound(c) == (c.behind /\ ~c.dead /\ c.missed = {}) => \E q \in Writers : Awaits(c, q)

\* Whatever is stored, or loaded and about to be, is current or awaited.
Coherent ==
    /\ entry # None => LoadedSound(entry) /\ StaleSound(entry)
    /\ \A q \in Readers : at[q] = "loaded" => LoadedSound(fill[q]) /\ StaleSound(fill[q])

IInv == Tree /\ Control /\ Captured /\ Coherent

-----------------------------------------------------------------------------
(* The tags of mutations and of the key.                                   *)

LEMMA TagsTyped ==
    /\ SitesTag \in Tags
    /\ \A r \in Resources \cup {None} : ResourceTag(r) \in Tags
    /\ \A s \in Sites \cup {None} : {SiteTag(s), SiteResources(s), SiteRoutes(s), SiteTree(s)} \subseteq Tags
BY DEF Tags

LEMMA EntityTagsTyped ==
    ASSUME NEW m \in MutationType
    PROVE  EntityTags(m) \in SUBSET Tags
BY TagsTyped DEF EntityTags, MutationType

LEMMA LockedTyped ==
    ASSUME NEW m \in MutationType, Sound(m)
    PROVE  /\ Locked(m) \in SUBSET Tags
           /\ IF m.op \in SiteOperations THEN SitesTag \in Locked(m) ELSE SiteResources(m.site) \in Locked(m)
           /\ m.op = "transfer" => SiteResources(m.to) \in Locked(m)
<1> m.id \in Resources \cup {None} /\ m.site \in Sites
  BY DEF MutationType, Sound
<1> SiteResources(m.site) \in EntityTags(m) /\ SiteResources(m.site) # ResourceTag(m.id)
  BY DEF EntityTags, SiteResources, ResourceTag
<1>1. CASE m.op = "create"
  BY <1>1, EntityTagsTyped DEF Locked, SiteOperations
<1>2. CASE m.op = "transfer"
  BY <1>2, EntityTagsTyped, TagsTyped DEF Locked, Sound, SiteOperations
<1>3. CASE m.op = "moveItem"
  BY <1>3, EntityTagsTyped, TagsTyped DEF Locked, Sound
<1>4. CASE m.op = "media"
  BY <1>4, TagsTyped DEF Locked
<1>5. CASE m.op \in SiteOperations
  BY <1>5, TagsTyped DEF Locked, SiteOperations
<1>6. CASE m.op \notin {"create", "transfer", "moveItem", "media"} \cup SiteOperations
  BY <1>6, EntityTagsTyped DEF Locked
<1>7. QED
  BY <1>1, <1>2, <1>3, <1>4, <1>5, <1>6 DEF SiteOperations

LEMMA InvalidatedTyped ==
    ASSUME NEW m \in MutationType, Sound(m)
    PROVE  Invalidated(m) \in SUBSET Tags /\ Invalidated(m) # {}
<1>1. m.site \in Sites
  BY DEF Sound
<1>2. CASE m.op = "transfer"
  <2>1. m.to \in Sites
    BY <1>2 DEF Sound
  <2>2. {ResourceTag(c) : c \in Subtree(m.id)} \subseteq Tags
    BY TagsTyped DEF Subtree
  <2>3. QED
    BY <1>1, <1>2, <2>1, <2>2, LockedTyped, TagsTyped DEF Invalidated
<1>3. CASE m.op # "transfer"
  <2>1. Invalidated(m) \subseteq EntityTags(m) \cup Locked(m) \cup {SiteRoutes(m.site), SiteTree(m.site)}
    BY <1>3 DEF Invalidated
  <2>2. Invalidated(m) \in SUBSET Tags
    BY <1>1, <2>1, EntityTagsTyped, LockedTyped, TagsTyped
  <2>3. CASE m.op \in SiteOperations
    <3>1. Invalidated(m) = Locked(m)
      BY <2>3 DEF Invalidated, SiteOperations
    <3>2. QED
      BY <2>2, <2>3, <3>1, LockedTyped
  <2>4. CASE m.op \notin SiteOperations
    <3>1. m.op \in Operations \ SiteOperations
      BY <2>4 DEF MutationType
    <3>2. SiteResources(m.site) \in Invalidated(m)
      BY <3>1, AnnouncesSite
    <3>3. QED
      BY <2>2, <3>2
  <2>5. QED
    BY <2>2, <2>3, <2>4
<1>4. QED
  BY <1>2, <1>3

LEMMA DependenciesTyped ==
    ASSUME key \in Keys, NEW s \in Sites \cup {None}
    PROVE  Dependencies(s) \in SUBSET Tags
BY KeyKinds, TagsTyped DEF Dependencies

LEMMA CaptureTyped ==
    ASSUME key \in Keys, NEW s \in Sites \cup {None}
    PROVE  /\ Capture(s) \in CaptureType
           /\ Capture(s).owner = s /\ Capture(s).tags = Dependencies(s)
           /\ ~Capture(s).behind /\ ~Capture(s).dead /\ Capture(s).missed = {}
BY DependenciesTyped DEF Capture, CaptureType

LEMMA NoneIsNoRecord == None \notin CaptureType /\ None \notin MutationType
BY RecordAssumption

LEMMA MutationsTyped ==
    ASSUME TreeTyped, existing \subseteq Sites, NEW m \in Mutations
    PROVE  m \in MutationType /\ Sound(m)
<1> DEFINE M(op, r, to) == [op |-> op, id |-> r, site |-> rows[r], to |-> to, lib |-> parent[r]]
           present == {r \in Resources : rows[r] # None}
           branches == present \ Items
<1>0. /\ present \subseteq Resources /\ \A r \in present : rows[r] \in Sites
      /\ \A r \in Resources : parent[r] \in Resources \cup {None}
  BY DEF TreeTyped
<1>1. \/ \E op \in SiteOperations, s \in Sites : m = [op |-> op, id |-> None, site |-> s, to |-> None, lib |-> None]
      \/ \E op \in {"update", "media", "retire", "delete"}, r \in present : m = M(op, r, None)
      \/ \E op \in {"reorder", "widgets"}, r \in branches : m = M(op, r, None)
      \/ \E r \in branches, to \in branches \cup {None} : m = M("move", r, to)
      \/ \E r \in present \cap Items, to \in branches : m = M("moveItem", r, to)
      \/ \E r \in branches, to \in Sites : m = M("transfer", r, to)
      \/ \E r \in Resources \ (present \cup Items), s \in Sites :
            m = [op |-> "create", id |-> r, site |-> s, to |-> None, lib |-> None]
      \/ \E r \in Resources \ present, to \in branches :
            m = [op |-> "create", id |-> r, site |-> rows[to], to |-> to, lib |-> to]
  BY DEF Mutations
<1> HIDE DEF present
<1>2. CASE \E op \in SiteOperations, s \in Sites : m = [op |-> op, id |-> None, site |-> s, to |-> None, lib |-> None]
  BY <1>2 DEF MutationType, Sound, Operations, SiteOperations
<1>3. CASE \E op \in {"update", "media", "retire", "delete"}, r \in present : m = M(op, r, None)
  BY <1>0, <1>3 DEF MutationType, Sound, Operations, SiteOperations
<1>4. CASE \E op \in {"reorder", "widgets"}, r \in branches : m = M(op, r, None)
  BY <1>0, <1>4 DEF MutationType, Sound, Operations, SiteOperations
<1>5. CASE \E r \in branches, to \in branches \cup {None} : m = M("move", r, to)
  BY <1>0, <1>5 DEF MutationType, Sound, Operations, SiteOperations
<1>6. CASE \E r \in present \cap Items, to \in branches : m = M("moveItem", r, to)
  BY <1>0, <1>6, NoneIsNoMember DEF MutationType, Sound, Operations, SiteOperations
<1>7. CASE \E r \in branches, to \in Sites : m = M("transfer", r, to)
  BY <1>0, <1>7 DEF MutationType, Sound, Operations, SiteOperations
<1>8. CASE \E r \in Resources \ (present \cup Items), s \in Sites :
              m = [op |-> "create", id |-> r, site |-> s, to |-> None, lib |-> None]
  BY <1>8 DEF MutationType, Sound, Operations, SiteOperations
<1>9. CASE \E r \in Resources \ present, to \in branches :
              m = [op |-> "create", id |-> r, site |-> rows[to], to |-> to, lib |-> to]
  BY <1>0, <1>9, NoneIsNoMember DEF MutationType, Sound, Operations, SiteOperations
<1>10. QED
  BY <1>1, <1>2, <1>3, <1>4, <1>5, <1>6, <1>7, <1>8, <1>9

-----------------------------------------------------------------------------
(* The steps, one part of the invariant at a time.                         *)

LEMMA InitHolds == Init => IInv
<1> SUFFICES ASSUME Init PROVE IInv
  OBVIOUS
<1>1. Tree
  BY DEF Init, Tree, TreeTyped, Placed
<1>2. Control
  BY CacheAssumption DEF Init, Control, Requests, Phase
<1>3. Captured
  BY DEF Init, Captured, Requests
<1>4. Coherent
  BY DEF Init, Coherent, Requests
<1>5. QED
  BY <1>1, <1>2, <1>3, <1>4 DEF IInv

\* The key that is followed stays the same.
LEMMA SameKey ==
    ASSUME Next
    PROVE  key' = key
BY DEF Next, Read, Write, StartRead, Hit, Prepare, LoadForeign, Load, LoadUnstorable, Store, AbandonRead,
       EndRead, Begin, Lock, BeginLocked, Commit, Invalidate, AbandonWrite, EndWrite, Acquire, Expire

LEMMA TreeStep ==
    ASSUME IInv, Next
    PROVE  Tree'
<1>1. key' = key
  BY SameKey
<1>2. CASE \E q \in Writers : Commit(q)
  <2>1. PICK q \in Writers : Commit(q)
    BY <1>2
  <2>2. Sound(change[q]) /\ change[q] \in MutationType
    BY <2>1 DEF Commit, IInv, Control
  <2>3. TreeTyped' /\ Forest' /\ Placed'
    BY <2>1, <2>2, ForestKept, PlacedKept DEF Commit, IInv, Tree, MutationType
  <2>4. QED
    BY <1>1, <2>3 DEF Tree, IInv, Keys, Key
<1>3. CASE UNCHANGED tableVars
  BY <1>1, <1>3 DEF IInv, Tree, TreeTyped, Placed, Forest, Ancestors, Closed, tableVars, Keys, Key
<1>4. QED
  BY <1>2, <1>3 DEF Next, Read, Write, StartRead, Hit, Prepare, LoadForeign, Load, LoadUnstorable, Store, AbandonRead,
         EndRead, Begin, Lock, BeginLocked, Invalidate, AbandonWrite, EndWrite, Acquire, Expire, tableVars

LEMMA ReadLocksHold ==
    ASSUME NEW locks \in ReadLocks
    PROVE  locks # {}
BY DEF ReadLocks

\* What a reader does to the locks and phases of the requests.
LEMMA ControlRead ==
    ASSUME Control, NEW q \in Readers, Read(q), key' = key
    PROVE  Control'
<1>0. /\ q \notin Writers /\ q \in Requests /\ Readers \subseteq Requests /\ Writers \subseteq Requests
      /\ ReadLocks' = ReadLocks
  BY CacheAssumption DEF Requests, ReadLocks
<1>1. UNCHANGED writeVars
  BY DEF Read, StartRead, Hit, Prepare, LoadForeign, Load, LoadUnstorable, Store, AbandonRead, EndRead, writeVars
<1>2. PICK phase \in Phase, locks \in ReadLocks \cup {{}} :
        /\ at' = [at EXCEPT ![q] = phase] /\ reading' = [reading EXCEPT ![q] = locks]
        /\ locks = {} <=> phase = "idle"
        /\ locks \subseteq reading[q] \/ \A w \in Neighbours(q, Writers) : writing[w] \cap locks = {}
  <2>1. CASE StartRead(q)
    BY <2>1, ReadLocksHold DEF StartRead, Move, Phase
  <2>2. CASE EndRead(q)
    BY <2>2 DEF EndRead, Move, Phase
  <2>3. CASE Prepare(q) \/ Load(q)
    <3>1. PICK phase \in Phase : at' = [at EXCEPT ![q] = phase] /\ phase # "idle"
      BY <2>3 DEF Prepare, Load, Move, Phase
    <3>2. reading' = [reading EXCEPT ![q] = reading[q]] /\ reading[q] # {} /\ reading[q] \in ReadLocks \cup {{}}
      BY <2>3 DEF Prepare, Load, Control, readVars
    <3>3. QED
      BY <3>1, <3>2
  <2>4. CASE LoadForeign(q)
    <3>1. at' = [at EXCEPT ![q] = at[q]] /\ at[q] \in Phase /\ at[q] # "idle"
      BY <1>0, <2>4 DEF LoadForeign, Control
    <3>2. reading' = [reading EXCEPT ![q] = reading[q]] /\ reading[q] # {} /\ reading[q] \in ReadLocks \cup {{}}
      BY <2>4 DEF LoadForeign, Control
    <3>3. QED
      BY <3>1, <3>2
  <2>5. QED
    BY <2>1, <2>2, <2>3, <2>4 DEF Read, Hit, LoadUnstorable, Store, AbandonRead
<1>3. /\ at' \in [Requests -> Phase] /\ reading' \in [Readers -> ReadLocks \cup {{}}]
      /\ at'[q] = phase /\ reading'[q] = locks
      /\ \A r \in Requests \ {q} : at'[r] = at[r]
      /\ \A r \in Readers \ {q} : reading'[r] = reading[r]
  BY <1>0, <1>2 DEF Control
<1>4. \A r \in Readers : reading'[r] = {} <=> at'[r] = "idle"
  BY <1>0, <1>2, <1>3 DEF Control
<1>5. ASSUME NEW r \in Readers, NEW w \in Writers, Home[r] = Home[w]
      PROVE  reading'[r] \cap writing[w] = {}
  <2>1. CASE r # q
    BY <1>3, <1>5, <2>1 DEF Control
  <2>2. CASE r = q
    <3>1. w \in Neighbours(q, Writers) /\ reading[q] \cap writing[w] = {}
      BY <1>0, <1>5, <2>2 DEF Neighbours, Control
    <3>2. QED
      BY <1>2, <1>3, <2>2, <3>1
  <2>3. QED
    BY <2>1, <2>2
<1>6. /\ writing' \in [Writers -> SUBSET Tags] /\ change' \in [Writers -> MutationType \cup {None}]
      /\ announced' \in [Writers -> SUBSET Tags] /\ writes' \in 0..MaxWrites
      /\ \A w \in Writers :
            /\ change'[w] = None <=> at'[w] = "idle"
            /\ at'[w] # "idle" => Sound(change[w])'
            /\ writing'[w] = IF at'[w] \in {"locked", "committed"} THEN Locked(change[w])' ELSE {}
            /\ announced'[w] # {} <=> at'[w] = "committed"
  BY <1>0, <1>1, <1>3 DEF Control, writeVars, Sound, Locked, EntityTags
<1>7. QED
  BY <1>0, <1>1, <1>3, <1>4, <1>5, <1>6 DEF Control, writeVars

\* What a writer does to them.
LEMMA ControlUpdate ==
    ASSUME Control, key' = key, reading' = reading, NEW q \in Writers,
           NEW phase \in Phase, NEW locks \in SUBSET Tags, NEW m \in MutationType \cup {None}, NEW tags \in SUBSET Tags,
           at' = [at EXCEPT ![q] = phase], writing' = [writing EXCEPT ![q] = locks],
           change' = [change EXCEPT ![q] = m], announced' = [announced EXCEPT ![q] = tags],
           writes' \in 0..MaxWrites,
           m = None <=> phase = "idle",
           phase # "idle" => Sound(m),
           locks = IF phase \in {"locked", "committed"} THEN Locked(m) ELSE {},
           tags # {} <=> phase = "committed",
           locks \subseteq writing[q] \/ \A r \in Neighbours(q, Readers) : reading[r] \cap locks = {}
    PROVE  Control'
<1>0. /\ q \notin Readers /\ q \in Requests /\ Readers \subseteq Requests /\ Writers \subseteq Requests
      /\ ReadLocks' = ReadLocks
  BY CacheAssumption DEF Requests, ReadLocks
<1>1. /\ at' \in [Requests -> Phase] /\ reading' \in [Readers -> ReadLocks \cup {{}}]
      /\ writing' \in [Writers -> SUBSET Tags] /\ change' \in [Writers -> MutationType \cup {None}]
      /\ announced' \in [Writers -> SUBSET Tags]
      /\ at'[q] = phase /\ writing'[q] = locks /\ change'[q] = m /\ announced'[q] = tags
      /\ \A r \in Requests \ {q} : at'[r] = at[r]
      /\ \A w \in Writers \ {q} : writing'[w] = writing[w] /\ change'[w] = change[w] /\ announced'[w] = announced[w]
  BY <1>0 DEF Control
<1>2. \A r \in Readers : reading'[r] = {} <=> at'[r] = "idle"
  BY <1>0, <1>1 DEF Control
<1>3. ASSUME NEW w \in Writers
      PROVE  /\ change'[w] = None <=> at'[w] = "idle"
             /\ at'[w] # "idle" => Sound(change'[w])
             /\ writing'[w] = IF at'[w] \in {"locked", "committed"} THEN Locked(change'[w]) ELSE {}
             /\ announced'[w] # {} <=> at'[w] = "committed"
  <2>1. CASE w = q
    BY <1>1, <2>1
  <2>2. CASE w # q
    BY <1>0, <1>1, <2>2 DEF Control
  <2>3. QED
    BY <2>1, <2>2
<1>4. ASSUME NEW r \in Readers, NEW w \in Writers, Home[r] = Home[w]
      PROVE  reading'[r] \cap writing'[w] = {}
  <2>1. CASE w # q
    BY <1>1, <1>4, <2>1 DEF Control
  <2>2. CASE w = q
    <3>1. r \in Neighbours(q, Readers) /\ reading[r] \cap writing[q] = {}
      BY <1>0, <1>4, <2>2 DEF Neighbours, Control
    <3>2. QED
      BY <1>1, <2>2, <3>1
  <2>3. QED
    BY <2>1, <2>2
<1>5. \A w \in Writers : at'[w] # "idle" => Sound(change[w])'
  BY <1>3 DEF Sound
<1>6. \A w \in Writers : writing'[w] = IF at'[w] \in {"locked", "committed"} THEN Locked(change[w])' ELSE {}
  BY <1>3 DEF Locked, EntityTags
<1>7. QED
  BY <1>0, <1>1, <1>2, <1>3, <1>4, <1>5, <1>6 DEF Control

LEMMA ControlWrite ==
    ASSUME IInv, NEW q \in Writers, Write(q), key' = key
    PROVE  Control'
<1>0. /\ q \in Requests /\ reading' = reading /\ Control /\ TreeTyped /\ existing \subseteq Sites
      /\ MaxWrites \in Nat /\ writes \in 0..MaxWrites
  BY CacheAssumption DEF IInv, Control, Tree, Placed, Requests, Write, Begin, Lock, BeginLocked, Commit, Invalidate,
     AbandonWrite, EndWrite, Acquire, readVars
<1>1. /\ at[q] \in Phase
      /\ writing[q] \in SUBSET Tags
      /\ writing = [writing EXCEPT ![q] = writing[q]] /\ change = [change EXCEPT ![q] = change[q]]
      /\ announced = [announced EXCEPT ![q] = announced[q]]
      /\ change[q] \in MutationType \cup {None} /\ announced[q] \in SUBSET Tags
      /\ change[q] = None <=> at[q] = "idle"
      /\ at[q] # "idle" => change[q] \in MutationType /\ Sound(change[q])
      /\ writing[q] = IF at[q] \in {"locked", "committed"} THEN Locked(change[q]) ELSE {}
      /\ announced[q] # {} <=> at[q] = "committed"
  BY <1>0 DEF Control
<1>2. CASE Begin(q)
  <2>1. PICK m \in Mutations : change' = [change EXCEPT ![q] = m]
    BY <1>2 DEF Begin
  <2>2. m \in MutationType /\ Sound(m) /\ m # None
    BY <1>0, MutationsTyped, NoneIsNoRecord
  <2>3. /\ at' = [at EXCEPT ![q] = "begun"] /\ writing' = [writing EXCEPT ![q] = {}]
        /\ announced' = [announced EXCEPT ![q] = {}] /\ writes' \in 0..MaxWrites
    BY <1>0, <1>1, <1>2 DEF Begin, Move
  <2>4. QED
    BY <1>0, <2>1, <2>2, <2>3, ControlUpdate DEF Phase
<1>3. CASE Lock(q)
  <2>1. PICK m \in MutationType : m = change[q] /\ Sound(m) /\ m # None
    BY <1>1, <1>3, NoneIsNoRecord DEF Lock
  <2>2. /\ at' = [at EXCEPT ![q] = "locked"] /\ writing' = [writing EXCEPT ![q] = Locked(m)]
        /\ change' = [change EXCEPT ![q] = m] /\ announced' = [announced EXCEPT ![q] = {}]
        /\ writes' \in 0..MaxWrites /\ Locked(m) \in SUBSET Tags
        /\ \A r \in Neighbours(q, Readers) : reading[r] \cap Locked(m) = {}
    BY <1>0, <1>1, <1>3, <2>1, LockedTyped DEF Lock, Acquire, Move
  <2>3. QED
    BY <1>0, <2>1, <2>2, ControlUpdate DEF Phase
<1>4. CASE BeginLocked(q)
  <2>1. PICK m \in Mutations : Acquire(q, Locked(m)) /\ change' = [change EXCEPT ![q] = m]
    BY <1>4 DEF BeginLocked
  <2>2. m \in MutationType /\ Sound(m) /\ m # None
    BY <1>0, MutationsTyped, NoneIsNoRecord
  <2>3. /\ at' = [at EXCEPT ![q] = "locked"] /\ writing' = [writing EXCEPT ![q] = Locked(m)]
        /\ announced' = [announced EXCEPT ![q] = {}]
        /\ writes' \in 0..MaxWrites /\ Locked(m) \in SUBSET Tags
        /\ \A r \in Neighbours(q, Readers) : reading[r] \cap Locked(m) = {}
    <3>1. at[q] = "idle" /\ announced[q] = {} /\ writes' \in 0..MaxWrites
      BY <1>0, <1>1, <1>4 DEF BeginLocked
    <3>2. Locked(m) \in SUBSET Tags
      BY <2>2, LockedTyped
    <3>3. QED
      BY <1>1, <2>1, <3>1, <3>2 DEF Acquire, Move
  <2>4. QED
    BY <1>0, <2>1, <2>2, <2>3, ControlUpdate DEF Phase
<1>5. CASE Commit(q)
  <2>1. PICK m \in MutationType : m = change[q] /\ Sound(m) /\ m # None
    BY <1>1, <1>5, NoneIsNoRecord DEF Commit
  <2>2. /\ at' = [at EXCEPT ![q] = "committed"] /\ writing' = [writing EXCEPT ![q] = Locked(m)]
        /\ change' = [change EXCEPT ![q] = m] /\ announced' = [announced EXCEPT ![q] = Invalidated(m)]
        /\ writes' \in 0..MaxWrites /\ Locked(m) \in SUBSET Tags /\ Locked(m) \subseteq writing[q]
        /\ Invalidated(m) \in SUBSET Tags /\ Invalidated(m) # {}
    BY <1>0, <1>1, <1>5, <2>1, LockedTyped, InvalidatedTyped DEF Commit, Move
  <2>3. QED
    BY <1>0, <2>1, <2>2, ControlUpdate DEF Phase
<1>6. CASE EndWrite(q)
  <2>1. /\ at' = [at EXCEPT ![q] = "idle"] /\ writing' = [writing EXCEPT ![q] = {}]
        /\ change' = [change EXCEPT ![q] = None] /\ announced' = [announced EXCEPT ![q] = {}]
        /\ writes' \in 0..MaxWrites
    BY <1>0, <1>6 DEF EndWrite, Move
  <2>2. QED
    BY <1>0, <2>1, ControlUpdate DEF Phase
<1>7. QED
  BY <1>2, <1>3, <1>4, <1>5, <1>6 DEF Write, Invalidate, AbandonWrite

\* What a reader does to the captures.
LEMMA CapturedUpdate ==
    ASSUME Captured, Control, key' = key, NEW q \in Readers,
           NEW phase \in Phase, NEW f \in CaptureType \cup {None}, NEW e \in CaptureType \cup {None},
           at' = [at EXCEPT ![q] = phase], fill' = [fill EXCEPT ![q] = f], entry' = e,
           f # None <=> phase \in {"prepared", "loaded"},
           f # None => CaptureSound(f),
           phase = "prepared" => ~f.behind /\ f.missed = {},
           e # None => ~e.dead /\ CaptureSound(e)
    PROVE  Captured'
<1>0. q \in Requests /\ Readers \subseteq Requests
  BY DEF Requests
<1>1. /\ fill' \in [Readers -> CaptureType \cup {None}]
      /\ at'[q] = phase /\ fill'[q] = f
      /\ \A r \in Readers \ {q} : at'[r] = at[r] /\ fill'[r] = fill[r]
  BY <1>0 DEF Control, Captured
<1>2. ASSUME NEW r \in Readers
      PROVE  /\ fill'[r] # None <=> at'[r] \in {"prepared", "loaded"}
             /\ fill'[r] # None => CaptureSound(fill'[r])
             /\ at'[r] = "prepared" => ~fill'[r].behind /\ fill'[r].missed = {}
  <2>1. CASE r = q
    BY <1>1, <2>1
  <2>2. CASE r # q
    BY <1>1, <2>2 DEF Captured
  <2>3. QED
    BY <2>1, <2>2
<1>3. \A r \in Readers : fill'[r] # None => CaptureSound(fill[r])'
  BY <1>2 DEF CaptureSound, Dependencies
<1>4. entry' # None => ~entry'.dead /\ CaptureSound(entry)'
  BY DEF CaptureSound, Dependencies
<1>5. QED
  BY <1>1, <1>2, <1>3, <1>4 DEF Captured

LEMMA CapturedRead ==
    ASSUME IInv, NEW q \in Readers, Read(q), key' = key
    PROVE  Captured'
<1>0. /\ q \in Requests /\ Control /\ Captured /\ key \in Keys /\ TreeTyped
      /\ at[q] \in Phase /\ entry \in CaptureType \cup {None} /\ (entry # None => ~entry.dead /\ CaptureSound(entry))
      /\ fill[q] \in CaptureType \cup {None}
      /\ fill[q] # None <=> at[q] \in {"prepared", "loaded"}
      /\ fill[q] # None => CaptureSound(fill[q])
      /\ at[q] = "prepared" => ~fill[q].behind /\ fill[q].missed = {}
      /\ fill = [fill EXCEPT ![q] = fill[q]] /\ at = [at EXCEPT ![q] = at[q]]
  BY DEF IInv, Control, Captured, Tree, Requests
<1>1. CASE StartRead(q)
  <2>1. /\ at' = [at EXCEPT ![q] = "reading"] /\ entry' = entry
        /\ fill' = [fill EXCEPT ![q] = None]
    BY <1>0, <1>1 DEF StartRead, Move
  <2>2. QED
    BY <1>0, <2>1, CapturedUpdate DEF Phase
<1>2. CASE EndRead(q) /\ entry' = entry
  <2>1. at' = [at EXCEPT ![q] = "idle"] /\ fill' = [fill EXCEPT ![q] = None]
    BY <1>2 DEF EndRead, Move
  <2>2. QED
    BY <1>0, <1>2, <2>1, CapturedUpdate DEF Phase
<1>3. CASE Prepare(q)
  <2>1. PICK f \in CaptureType : f = Capture(key.site)
    BY <1>0, CaptureTyped DEF Keys, Key
  <2>2. CaptureSound(f) /\ f # None /\ ~f.behind /\ f.missed = {}
    BY <1>0, <2>1, CaptureTyped, KeyKinds, NoneIsNoRecord DEF CaptureSound, Keys, Key
  <2>3. at' = [at EXCEPT ![q] = "prepared"] /\ entry' = entry /\ fill' = [fill EXCEPT ![q] = f]
    BY <1>3, <2>1 DEF Prepare, Move
  <2>4. QED
    BY <1>0, <2>2, <2>3, CapturedUpdate DEF Phase
<1>4. CASE LoadForeign(q)
  <2>1. key.kind = "resource" /\ rows[key.id] \in Sites
    BY <1>0, <1>4, KeyKinds DEF LoadForeign, TreeTyped
  <2>2. PICK f \in CaptureType : f = Capture(rows[key.id])
    BY <1>0, <2>1, CaptureTyped
  <2>3. CaptureSound(f) /\ f # None /\ ~f.behind /\ f.missed = {}
    BY <1>0, <2>1, <2>2, CaptureTyped, NoneIsNoRecord DEF CaptureSound
  <2>4. at' = [at EXCEPT ![q] = "prepared"] /\ entry' = entry /\ fill' = [fill EXCEPT ![q] = f]
    BY <1>0, <1>4, <2>2 DEF LoadForeign
  <2>5. QED
    BY <1>0, <2>3, <2>4, CapturedUpdate DEF Phase
<1>5. CASE Load(q)
  <2>1. at' = [at EXCEPT ![q] = "loaded"] /\ entry' = entry /\ fill' = [fill EXCEPT ![q] = fill[q]] /\ fill[q] # None
    BY <1>0, <1>5 DEF Load, Move, readVars
  <2>2. QED
    BY <1>0, <2>1, CapturedUpdate DEF Phase
<1>6. CASE Store(q)
  <2>1. PICK e \in CaptureType \cup {None} : e = Live(fill[q]) /\ (e # None => ~e.dead /\ CaptureSound(e))
    BY <1>0 DEF Live
  <2>2. at' = [at EXCEPT ![q] = "idle"] /\ fill' = [fill EXCEPT ![q] = None] /\ entry' = e
    BY <1>6, <2>1 DEF Store, EndRead, Move
  <2>3. QED
    BY <1>0, <2>1, <2>2, CapturedUpdate DEF Phase
<1>7. QED
  BY <1>1, <1>2, <1>3, <1>4, <1>5, <1>6 DEF Read, Hit, LoadUnstorable, AbandonRead

\* What becomes of a capture that a mutation overtakes, or an invalidation drops.
LEMMA OvertakenTyped ==
    ASSUME NEW c \in CaptureType \cup {None}, NEW m
    PROVE  /\ Overtaken(c, m) \in CaptureType \cup {None}
           /\ Overtaken(c, m) = None <=> c = None
           /\ c # None => /\ Overtaken(c, m).owner = c.owner /\ Overtaken(c, m).tags = c.tags
                          /\ Overtaken(c, m).dead = c.dead
<1>1. Excuse(m) \in SUBSET {"failed", "descendant", "position", "transferred"}
  BY DEF Excuse
<1>2. CASE c = None \/ ~ChangesKey(m)
  BY <1>2 DEF Overtaken
<1>3. CASE c # None /\ ChangesKey(m)
  <2>1. PICK missed \in SUBSET {"failed", "descendant", "position", "transferred"} :
          missed = IF c.tags \cap Invalidated(m) = {} THEN c.missed \cup Excuse(m) ELSE c.missed
    BY <1>1, <1>3 DEF CaptureType
  <2>2. Overtaken(c, m) = [c EXCEPT !.behind = TRUE, !.missed = missed]
    BY <1>3, <2>1 DEF Overtaken
  <2>3. QED
    BY <1>3, <2>1, <2>2, NoneIsNoRecord DEF CaptureType
<1>4. QED
  BY <1>2, <1>3

LEMMA DropTyped ==
    ASSUME NEW c \in CaptureType \cup {None}, NEW done, NEW failed
    PROVE  /\ Drop(c, done, failed) \in CaptureType \cup {None}
           /\ Drop(c, done, failed) = None <=> c = None
           /\ c # None => Drop(c, done, failed).owner = c.owner /\ Drop(c, done, failed).tags = c.tags
BY NoneIsNoRecord DEF Drop, CaptureType

\* What a writer does to the captures.
LEMMA CapturedMapped ==
    ASSUME Captured, key' = key, \A r \in Readers : at'[r] = at[r],
           fill' \in [Readers -> CaptureType \cup {None}],
           \A r \in Readers :
              /\ fill'[r] = None <=> fill[r] = None
              /\ fill[r] # None => fill'[r].owner = fill[r].owner /\ fill'[r].tags = fill[r].tags
              /\ at[r] = "prepared" => fill'[r].behind = fill[r].behind /\ fill'[r].missed = fill[r].missed,
           entry' \in CaptureType \cup {None},
           entry' # None => ~entry'.dead /\ entry # None /\ entry'.owner = entry.owner /\ entry'.tags = entry.tags
    PROVE  Captured'
<1>1. \A r \in Readers : fill'[r] # None => CaptureSound(fill[r])'
  BY DEF Captured, CaptureSound, Dependencies
<1>2. entry' # None => CaptureSound(entry)'
  BY DEF Captured, CaptureSound, Dependencies
<1>3. ASSUME NEW r \in Readers
      PROVE  /\ fill'[r] # None <=> at'[r] \in {"prepared", "loaded"}
             /\ at'[r] = "prepared" => ~fill'[r].behind /\ fill'[r].missed = {}
  BY DEF Captured
<1>4. QED
  BY <1>1, <1>2, <1>3 DEF Captured

LEMMA CapturedDropped ==
    ASSUME Captured, key' = key, \A r \in Readers : at'[r] = at[r],
           NEW done, NEW failed, DropAll(done, failed)
    PROVE  Captured'
<1>1. entry \in CaptureType \cup {None} /\ \A r \in Readers : fill[r] \in CaptureType \cup {None}
  BY DEF Captured
<1>2. fill' \in [Readers -> CaptureType \cup {None}] /\ \A r \in Readers : fill'[r] = Drop(fill[r], done, failed)
  BY <1>1, DropTyped DEF DropAll
<1>3. ASSUME NEW r \in Readers
      PROVE  /\ fill'[r] = None <=> fill[r] = None
             /\ fill[r] # None => fill'[r].owner = fill[r].owner /\ fill'[r].tags = fill[r].tags
  BY <1>1, <1>2, DropTyped
<1>4. ASSUME NEW r \in Readers, at[r] = "prepared"
      PROVE  fill'[r].behind = fill[r].behind /\ fill'[r].missed = fill[r].missed
  <2>1. fill[r] \in CaptureType /\ ~fill[r].behind
    BY <1>1, <1>4 DEF Captured
  <2>2. QED
    BY <1>2, <2>1, NoneIsNoRecord DEF Drop, CaptureType
<1>5. PICK d \in CaptureType \cup {None} : d = Drop(entry, done, failed) /\ entry' = Live(d)
  BY <1>1, DropTyped DEF DropAll
<1>6. /\ entry' \in CaptureType \cup {None}
      /\ entry' # None => ~entry'.dead /\ entry # None /\ entry'.owner = entry.owner /\ entry'.tags = entry.tags
  BY <1>1, <1>5, DropTyped DEF Live
<1>7. QED
  BY <1>2, <1>3, <1>4, <1>6, CapturedMapped

LEMMA CapturedWrite ==
    ASSUME IInv, NEW q \in Writers, Write(q), key' = key
    PROVE  Captured'
<1>1. /\ Captured /\ \A r \in Readers : at'[r] = at[r]
  <2>1. q \notin Readers /\ \E phase : at' = [at EXCEPT ![q] = phase]
    BY CacheAssumption DEF Write, Begin, Lock, BeginLocked, Commit, Invalidate, AbandonWrite, EndWrite, Acquire, Move
  <2>2. QED
    BY <2>1 DEF IInv, Control, Requests
<1>2. CASE Begin(q) \/ Lock(q) \/ BeginLocked(q) \/ AbandonWrite(q)
  <2>1. entry' = entry /\ fill' = fill
    <3>1. CASE AbandonWrite(q)
      BY <3>1 DEF AbandonWrite
    <3>2. QED
      BY <1>2, <3>1 DEF Begin, Lock, BeginLocked, Acquire, readVars
  <2>2. QED
    BY <1>1, <2>1, CapturedMapped DEF Captured
<1>3. CASE Commit(q)
  <2>1. PICK m : m = change[q]
    OBVIOUS
  <2>2. /\ entry' = Overtaken(entry, m)
        /\ fill' = [r \in Readers |-> IF at[r] = "loaded" THEN Overtaken(fill[r], m) ELSE fill[r]]
    BY <1>3, <2>1 DEF Commit
  <2>3. entry \in CaptureType \cup {None} /\ \A r \in Readers : fill[r] \in CaptureType \cup {None}
    BY <1>1 DEF Captured
  <2>4. fill' \in [Readers -> CaptureType \cup {None}]
    BY <2>2, <2>3, OvertakenTyped
  <2>5. ASSUME NEW r \in Readers
        PROVE  /\ fill'[r] = None <=> fill[r] = None
               /\ fill[r] # None => fill'[r].owner = fill[r].owner /\ fill'[r].tags = fill[r].tags
               /\ at[r] = "prepared" => fill'[r].behind = fill[r].behind /\ fill'[r].missed = fill[r].missed
    BY <2>2, <2>3, OvertakenTyped
  <2>6. /\ entry' \in CaptureType \cup {None}
        /\ entry' # None => ~entry'.dead /\ entry # None /\ entry'.owner = entry.owner /\ entry'.tags = entry.tags
    BY <1>1, <2>2, <2>3, OvertakenTyped DEF Captured
  <2>7. QED
    BY <1>1, <2>4, <2>5, <2>6, CapturedMapped
<1>4. CASE Invalidate(q)
  BY <1>1, <1>4, CapturedDropped DEF Invalidate
<1>5. QED
  BY <1>2, <1>3, <1>4 DEF Write

\* A reader stores what it loaded, and loads what is current.
LEMMA CoherentRead ==
    ASSUME IInv, NEW q \in Readers, Read(q), key' = key
    PROVE  Coherent'
<1>0. /\ q \in Requests /\ Readers \subseteq Requests /\ Control /\ Captured /\ Coherent
  BY DEF IInv, Requests
<1>1. UNCHANGED <<rows, change, announced>>
  BY DEF Read, StartRead, Hit, Prepare, LoadForeign, Load, LoadUnstorable, Store, AbandonRead, EndRead, writeVars,
         tableVars
<1>2. entry' # None => LoadedSound(entry') /\ StaleSound(entry')
  <2>1. CASE entry' = entry
    BY <1>0, <2>1 DEF Coherent
  <2>2. CASE Store(q)
    <3>1. entry' # None => entry' = fill[q] /\ at[q] = "loaded"
      BY <2>2 DEF Store, Live
    <3>2. QED
      BY <1>0, <3>1 DEF Coherent
  <2>3. QED
    BY <2>1, <2>2 DEF Read, StartRead, Hit, Prepare, LoadForeign, Load, LoadUnstorable, AbandonRead
<1>3. ASSUME NEW r \in Readers, at'[r] = "loaded"
      PROVE  LoadedSound(fill'[r]) /\ StaleSound(fill'[r])
  <2>1. CASE Load(q) /\ r = q
    <3>1. fill'[r] = fill[q] /\ ~fill[q].behind
      BY <1>0, <2>1 DEF Load, readVars, Captured
    <3>2. key.kind = "resource" => rows[key.id] = fill[q].owner
      BY <2>1 DEF Load
    <3>3. QED
      BY <3>1, <3>2 DEF LoadedSound, StaleSound
  <2>2. CASE ~(Load(q) /\ r = q)
    <3>1. at[r] = "loaded" /\ fill'[r] = fill[r]
      <4>1. CASE r # q
        BY <1>0, <1>3, <4>1 DEF Read, StartRead, Hit, Prepare, LoadForeign, Load, LoadUnstorable, Store, AbandonRead,
           EndRead, Move, Control, Captured, readVars
      <4>2. CASE r = q
        BY <1>0, <1>3, <2>2, <4>2 DEF Read, StartRead, Hit, Prepare, LoadForeign, LoadUnstorable, Store, AbandonRead,
           EndRead, Move, Control
      <4>3. QED
        BY <4>1, <4>2
    <3>2. QED
      BY <1>0, <3>1 DEF Coherent
  <2>3. QED
    BY <2>1, <2>2
<1>4. entry' # None => LoadedSound(entry)' /\ StaleSound(entry)'
  BY <1>1, <1>2 DEF LoadedSound, StaleSound, Awaits, AwaitedBy
<1>5. \A r \in Readers : at'[r] = "loaded" => LoadedSound(fill[r])' /\ StaleSound(fill[r])'
  BY <1>1, <1>3 DEF LoadedSound, StaleSound, Awaits, AwaitedBy
<1>6. QED
  BY <1>4, <1>5 DEF Coherent

\* The awaiting writer goes on awaiting while others move.
LEMMA StillAwaited ==
    ASSUME key' = key, NEW q \in Writers,
           \A w \in Writers \ {q} : announced'[w] = announced[w] /\ change'[w] = change[w],
           announced[q] = {}
    PROVE  \A c : \A w \in Writers : Awaits(c, w) => w # q /\ w \in Writers /\ Awaits(c, w)'
BY DEF Awaits, AwaitedBy

\* What is overtaken by a commit is awaited by its writer.
LEMMA CoherentCommit ==
    ASSUME IInv, NEW q \in Writers, Commit(q), key' = key,
           NEW c \in CaptureType, CaptureSound(c), LoadedSound(c), StaleSound(c),
           NEW d, d = Overtaken(c, change[q])
    PROVE  LoadedSound(d)' /\ StaleSound(d)'
<1>0. /\ TreeTyped /\ Forest /\ key \in Keys /\ Control
      /\ change[q] \in MutationType /\ Sound(change[q]) /\ change[q].op \in Operations
      /\ announced[q] = {}
      /\ Valid(change[q]) /\ Apply(change[q])
      /\ change' = change
      /\ announced'[q] = Invalidated(change[q])
      /\ \A w \in Writers \ {q} : announced'[w] = announced[w] /\ change'[w] = change[w]
  BY DEF IInv, Tree, Control, Commit, MutationType
<1>1. PICK m \in MutationType : m = change[q]
  BY <1>0
<1>2. d = Overtaken(c, m) /\ c # None
  BY <1>1, NoneIsNoRecord
<1>3. CASE ~ChangesKey(m)
  <2>1. d = c
    BY <1>2, <1>3 DEF Overtaken
  <2>2. LoadedSound(d)'
    <3>1. key.kind = "resource" => key.id \in Resources /\ key.id \notin Touched(m)
      BY <1>0, <1>3, KeyKinds DEF ChangesKey
    <3>2. key.kind = "resource" => rows'[key.id] = rows[key.id]
      BY <1>0, <1>1, <3>1, OnlyTouched
    <3>3. QED
      BY <2>1, <3>2 DEF LoadedSound
  <2>3. StaleSound(d)'
    BY <1>0, <2>1, StillAwaited DEF StaleSound
  <2>4. QED
    BY <2>2, <2>3
<1>4. CASE ChangesKey(m)
  <2>1. /\ d.behind /\ d.owner = c.owner /\ d.tags = c.tags /\ d.dead = c.dead
        /\ d.missed = IF c.tags \cap Invalidated(m) = {} THEN c.missed \cup Excuse(m) ELSE c.missed
    BY <1>2, <1>4 DEF Overtaken, CaptureType
  <2>2. LoadedSound(d)'
    BY <2>1 DEF LoadedSound
  <2>3. ASSUME ~d.dead, d.missed = {}
        PROVE  \E w \in Writers : Awaits(d, w)'
    <3>1. CASE c.behind
      <4>1. PICK w \in Writers : Awaits(c, w)
        BY <2>1, <2>3, <3>1 DEF StaleSound
      <4>2. Awaits(c, w)'
        BY <1>0, <4>1, StillAwaited
      <4>3. QED
        BY <2>1, <4>2 DEF Awaits, AwaitedBy
    <3>2. CASE ~c.behind
      <4>1. c.tags \cap Invalidated(m) # {}
        BY <1>0, <1>1, <1>4, <2>1, <2>3, <3>2, OvertakenIsAnnounced
      <4>2. IF key.kind = "sites" THEN m.op \in SiteOperations ELSE m.op # "site"
        BY <1>0, <1>4, KindOfOperation
      <4>3. m.op = "transfer" => c.owner \in {m.site, m.to}
        BY <1>0, <1>1, <1>4, <3>2, TransferOwner
      <4>4. announced'[q] \cap d.tags # {}
        BY <1>0, <1>1, <2>1, <4>1
      <4>5. change'[q] = m /\ key' = key /\ d.owner = c.owner
        BY <1>0, <1>1, <2>1
      <4>6. Awaits(d, q)'
        BY <4>2, <4>3, <4>4, <4>5 DEF Awaits, AwaitedBy
      <4>7. QED
        BY <4>6
    <3>3. QED
      BY <3>1, <3>2
  <2>4. StaleSound(d)'
    BY <2>3 DEF StaleSound
  <2>5. QED
    BY <2>2, <2>4
<1>5. QED
  BY <1>3, <1>4

\* What survives the end of a writer was not for it to invalidate.
LEMMA CoherentDropped ==
    ASSUME IInv, NEW q \in Writers, EndWrite(q), rows' = rows,
           NEW c \in CaptureType, LoadedSound(c), StaleSound(c),
           NEW done, NEW failed, announced[q] \subseteq done \cup failed,
           NEW d, d = Drop(c, done, failed)
    PROVE  LoadedSound(d)' /\ StaleSound(d)'
<1>0. /\ key' = key
      /\ \A w \in Writers \ {q} : announced'[w] = announced[w] /\ change'[w] = change[w]
  BY DEF EndWrite, IInv, Control
<1>1. c # None
  BY NoneIsNoRecord
<1>2. /\ d.owner = c.owner /\ d.tags = c.tags /\ d.behind = c.behind
      /\ (~d.dead /\ d.missed = {}) =>
            /\ ~c.dead /\ c.missed = {} /\ c.tags \cap done = {}
            /\ c.behind => c.tags \cap failed = {}
  BY <1>1 DEF Drop, CaptureType
<1>3. LoadedSound(d)'
  BY <1>0, <1>2 DEF LoadedSound
<1>4. ASSUME d.behind, ~d.dead, d.missed = {}
      PROVE  \E w \in Writers : Awaits(d, w)'
  <2>1. PICK w \in Writers : Awaits(c, w)
    BY <1>2, <1>4 DEF StaleSound
  <2>2. w # q
    BY <1>2, <1>4, <2>1 DEF Awaits, AwaitedBy
  <2>3. QED
    BY <1>0, <1>2, <2>1, <2>2 DEF Awaits, AwaitedBy
<1>5. StaleSound(d)'
  BY <1>4 DEF StaleSound
<1>6. QED
  BY <1>3, <1>5

LEMMA CoherentEnd ==
    ASSUME IInv, NEW q \in Writers, EndWrite(q), rows' = rows,
           NEW done, NEW failed, announced[q] \subseteq done \cup failed, DropAll(done, failed)
    PROVE  Coherent'
<1>0. /\ entry \in CaptureType \cup {None} /\ \A r \in Readers : fill[r] \in CaptureType \cup {None}
      /\ \A r \in Readers : fill'[r] = Drop(fill[r], done, failed) /\ at'[r] = at[r]
  <2>1. q \notin Readers
    BY CacheAssumption
  <2>2. QED
    BY <2>1 DEF IInv, Captured, Control, DropAll, EndWrite, Move, Requests
<1>1. ASSUME entry' # None
      PROVE  LoadedSound(entry)' /\ StaleSound(entry)'
  <2>1. PICK c \in CaptureType, d \in CaptureType \cup {None} : c = entry /\ d = entry' /\ d = Drop(c, done, failed)
    BY <1>0, <1>1, DropTyped DEF DropAll, Live
  <2>2. LoadedSound(c) /\ StaleSound(c)
    BY <2>1, NoneIsNoRecord DEF IInv, Coherent
  <2>3. LoadedSound(d)' /\ StaleSound(d)'
    BY <2>1, <2>2, CoherentDropped
  <2>4. QED
    BY <2>1, <2>3 DEF LoadedSound, StaleSound, Awaits, AwaitedBy
<1>2. ASSUME NEW r \in Readers, at'[r] = "loaded"
      PROVE  LoadedSound(fill[r])' /\ StaleSound(fill[r])'
  <2>1. PICK c \in CaptureType, d \in CaptureType \cup {None} : c = fill[r] /\ d = fill'[r] /\ d = Drop(c, done, failed)
    BY <1>0, <1>2, DropTyped DEF IInv, Captured
  <2>2. LoadedSound(c) /\ StaleSound(c)
    BY <1>0, <1>2, <2>1 DEF IInv, Coherent
  <2>3. LoadedSound(d)' /\ StaleSound(d)'
    BY <2>1, <2>2, CoherentDropped
  <2>4. QED
    BY <2>1, <2>3 DEF LoadedSound, StaleSound, Awaits, AwaitedBy
<1>3. QED
  BY <1>1, <1>2 DEF Coherent

LEMMA CoherentWrite ==
    ASSUME IInv, NEW q \in Writers, Write(q), key' = key
    PROVE  Coherent'
<1>0. q \notin Readers /\ q \in Requests
  BY CacheAssumption DEF Requests
<1>1. CASE Begin(q) \/ Lock(q) \/ BeginLocked(q)
  <2>1. /\ entry' = entry /\ fill' = fill /\ rows' = rows /\ announced' = announced
        /\ \A w \in Writers \ {q} : change'[w] = change[w]
    BY <1>1 DEF Begin, Lock, BeginLocked, Acquire, readVars, tableVars, IInv, Control
  <2>2. announced[q] = {} /\ \A r \in Readers : at'[r] = at[r]
    <3>1. at[q] # "committed" /\ \E phase : at' = [at EXCEPT ![q] = phase]
      BY <1>1 DEF Begin, Lock, BeginLocked, Acquire, Move
    <3>2. QED
      BY <1>0, <3>1 DEF IInv, Control, Requests
  <2>3. \A c : LoadedSound(c) /\ StaleSound(c) => LoadedSound(c)' /\ StaleSound(c)'
    BY <2>1, <2>2, StillAwaited DEF LoadedSound, StaleSound
  <2>4. entry' # None => LoadedSound(entry)' /\ StaleSound(entry)'
    <3>1. PICK c : c = entry
      OBVIOUS
    <3>2. c # None => LoadedSound(c)' /\ StaleSound(c)'
      BY <2>3, <3>1 DEF IInv, Coherent
    <3>3. QED
      BY <2>1, <3>1, <3>2 DEF LoadedSound, StaleSound, Awaits, AwaitedBy
  <2>5. ASSUME NEW r \in Readers, at'[r] = "loaded" PROVE LoadedSound(fill[r])' /\ StaleSound(fill[r])'
    <3>1. PICK c : c = fill[r]
      OBVIOUS
    <3>2. LoadedSound(c)' /\ StaleSound(c)'
      BY <2>2, <2>3, <2>5, <3>1 DEF IInv, Coherent
    <3>3. QED
      BY <2>1, <3>1, <3>2 DEF LoadedSound, StaleSound, Awaits, AwaitedBy
  <2>6. QED
    BY <2>4, <2>5 DEF Coherent
<1>2. CASE Commit(q)
  <2>1. /\ entry' = Overtaken(entry, change[q])
        /\ \A r \in Readers : at[r] = "loaded" => fill'[r] = Overtaken(fill[r], change[q])
        /\ \A r \in Readers : at'[r] = at[r]
    BY <1>0, <1>2 DEF Commit, Move, IInv, Control
  <2>2. ASSUME entry' # None PROVE LoadedSound(entry)' /\ StaleSound(entry)'
    <3>1. PICK c \in CaptureType, d \in CaptureType \cup {None} : c = entry /\ d = entry' /\ d = Overtaken(c, change[q])
      BY <2>1, <2>2, OvertakenTyped DEF IInv, Captured
    <3>2. CaptureSound(c) /\ LoadedSound(c) /\ StaleSound(c)
      BY <3>1, NoneIsNoRecord DEF IInv, Coherent, Captured
    <3>3. LoadedSound(d)' /\ StaleSound(d)'
      BY <1>2, <3>1, <3>2, CoherentCommit
    <3>4. QED
      BY <3>1, <3>3 DEF LoadedSound, StaleSound, Awaits, AwaitedBy
  <2>3. ASSUME NEW r \in Readers, at'[r] = "loaded" PROVE LoadedSound(fill[r])' /\ StaleSound(fill[r])'
    <3>1. PICK c \in CaptureType, d \in CaptureType \cup {None} : c = fill[r] /\ d = fill'[r] /\ d = Overtaken(c, change[q])
      BY <2>1, <2>3, OvertakenTyped DEF IInv, Captured
    <3>2. CaptureSound(c) /\ LoadedSound(c) /\ StaleSound(c)
      BY <2>1, <2>3, <3>1, NoneIsNoRecord DEF IInv, Coherent, Captured
    <3>3. LoadedSound(d)' /\ StaleSound(d)'
      BY <1>2, <3>1, <3>2, CoherentCommit
    <3>4. QED
      BY <3>1, <3>3 DEF LoadedSound, StaleSound, Awaits, AwaitedBy
  <2>4. QED
    BY <2>2, <2>3 DEF Coherent
<1>3. CASE Invalidate(q)
  <2>1. PICK failed \in SUBSET announced[q] : DropAll(announced[q] \ failed, failed)
    BY <1>3 DEF Invalidate
  <2>2. EndWrite(q) /\ rows' = rows
    BY <1>3 DEF Invalidate, EndWrite, tableVars
  <2>3. QED
    BY <2>1, <2>2, CoherentEnd
<1>4. CASE AbandonWrite(q)
  <2>1. announced[q] = {}
    <3>1. announced[q] # {} <=> at[q] = "committed"
      BY DEF IInv, Control
    <3>2. at[q] # "committed"
      BY <1>4 DEF AbandonWrite
    <3>3. QED
      BY <3>1, <3>2
  <2>2. DropAll({}, announced[q])
    <3>1. Live(Drop(entry, {}, {})) = entry
      BY DEF IInv, Captured, Live, Drop
    <3>2. fill = [r \in Readers |-> Drop(fill[r], {}, {})]
      BY DEF IInv, Captured, Drop
    <3>3. QED
      BY <1>4, <2>1, <3>1, <3>2 DEF AbandonWrite, DropAll
  <2>3. QED
    BY <1>4, <2>2, CoherentEnd DEF AbandonWrite, EndWrite, tableVars
<1>5. QED
  BY <1>1, <1>2, <1>3, <1>4 DEF Write

LEMMA ExpireKeeps ==
    ASSUME IInv, Expire
    PROVE  Control' /\ Captured' /\ Coherent'
<1>1. /\ entry' = None
      /\ UNCHANGED <<rows, key, at, reading, fill, writing, change, announced, writes>>
  BY DEF Expire, tableVars, readVars, writeVars
<1>2. Control'
  BY <1>1 DEF IInv, Control, ReadLocks, Sound, Locked, EntityTags
<1>3. Captured'
  BY <1>1 DEF IInv, Captured, CaptureSound, Dependencies
<1>4. Coherent'
  BY <1>1 DEF IInv, Coherent, LoadedSound, StaleSound, Awaits, AwaitedBy
<1>5. QED
  BY <1>2, <1>3, <1>4

LEMMA StutterKeeps ==
    ASSUME IInv, UNCHANGED vars
    PROVE  IInv'
<1>1. UNCHANGED <<existing, rows, parent, key, entry, at, reading, fill, writing, change, announced, writes>>
  BY DEF vars, tableVars, readVars, writeVars
<1>2. Tree'
  BY <1>1 DEF IInv, Tree, TreeTyped, Placed, Forest, Ancestors, Closed, Keys, Key
<1>3. Control'
  BY <1>1 DEF IInv, Control, ReadLocks, Sound, Locked, EntityTags
<1>4. Captured'
  BY <1>1 DEF IInv, Captured, CaptureSound, Dependencies
<1>5. Coherent'
  BY <1>1 DEF IInv, Coherent, LoadedSound, StaleSound, Awaits, AwaitedBy
<1>6. QED
  BY <1>2, <1>3, <1>4, <1>5 DEF IInv

LEMMA Invariant == Spec => []IInv
<1>1. ASSUME IInv, Next PROVE IInv'
  <2>1. Tree' /\ key' = key
    BY <1>1, TreeStep, SameKey
  <2>2. CASE \E q \in Readers : Read(q)
    <3>1. PICK q \in Readers : Read(q)
      BY <2>2
    <3>2. Control'
      BY <1>1, <2>1, <3>1, ControlRead DEF IInv
    <3>3. Captured' /\ Coherent'
      BY <1>1, <2>1, <3>1, CapturedRead, CoherentRead
    <3>4. QED
      BY <2>1, <3>2, <3>3 DEF IInv
  <2>3. CASE \E q \in Writers : Write(q)
    <3>1. PICK q \in Writers : Write(q)
      BY <2>3
    <3>2. Control' /\ Captured' /\ Coherent'
      BY <1>1, <2>1, <3>1, ControlWrite, CapturedWrite, CoherentWrite
    <3>3. QED
      BY <2>1, <3>2 DEF IInv
  <2>4. CASE Expire
    BY <1>1, <2>1, <2>4, ExpireKeeps DEF IInv
  <2>5. QED
    BY <1>1, <2>2, <2>3, <2>4 DEF Next
<1>2. IInv /\ [Next]_vars => IInv'
  BY <1>1, StutterKeeps
<1>3. QED
  BY InitHolds, <1>2, PTL DEF Spec

-----------------------------------------------------------------------------
(* The theorems.                                                           *)

\* The state is well-typed in every run: the tree stays a forest whose
\* branches live in one site that exists, and every request gives back its
\* locks and its prepared write.
THEOREM TypeCorrect == Spec => []TypeOK
<1>1. ASSUME IInv PROVE TypeOK
  <2>1. \A q \in Writers : writing[q] # {} <=> at[q] \in {"locked", "committed"}
    <3>1. ASSUME NEW q \in Writers, at[q] \in {"locked", "committed"} PROVE writing[q] # {}
      <4>1. writing[q] = Locked(change[q]) /\ Sound(change[q]) /\ change[q] \in MutationType
        BY <1>1, <3>1 DEF IInv, Control
      <4>2. Locked(change[q]) # {}
        BY <4>1, LockedTyped
      <4>3. QED
        BY <4>1, <4>2
    <3>2. QED
      BY <1>1, <3>1 DEF IInv, Control
  <2>2. QED
    BY <1>1, <2>1 DEF IInv, Tree, TreeTyped, Placed, Control, Captured, TypeOK, Phase
<1>2. QED
  BY <1>1, Invariant, PTL

\* No stale value is stored, or about to be, that no writer will invalidate,
\* unless one of the four excepted causes reached it: a failed invalidation of
\* its tags, an update of its ancestor or of its sibling that changes no route,
\* a mutation of a resource that was transferred after it was read.
THEOREM NothingStaleIsLeft == Spec => []StaleIsAnnounced
<1>1. ASSUME IInv PROVE StaleIsAnnounced
  <2>1. SUFFICES ASSUME NEW c \in Stored, c.behind, ~c.dead, c.missed = {}
                 PROVE  \E q \in Writers : AwaitedBy(c, q)
    BY DEF StaleIsAnnounced
  <2>2. StaleSound(c)
    BY <1>1 DEF Stored, IInv, Coherent
  <2>3. QED
    BY <2>1, <2>2 DEF StaleSound, Awaits
<1>2. QED
  BY <1>1, Invariant, PTL

\* A request that reads under the lock of its site meets an old value only
\* because of a writer of another process or of another site, because the site
\* is being deleted, or for one of the same four causes.
THEOREM ProcessSeesItsWrites == Spec => []OwnWritesAreSeen
<1>1. ASSUME IInv PROVE OwnWritesAreSeen
  <2>1. SUFFICES ASSUME NEW q \in Readers, at[q] = "reading",
                        reading[q] \cap {SitesTag, SiteResources(key.site)} # {},
                        entry # None, entry.behind, entry.missed = {}, entry.owner = key.site
                 PROVE  \E w \in Writers : /\ AwaitedBy(entry, w)
                                           /\ \/ Home[w] # Home[q]
                                              \/ change[w].op # "transfer" /\ change[w].site # key.site
                                              \/ change[w].op = "siteDelete" /\ key.kind # "sites"
    BY DEF OwnWritesAreSeen
  <2>2. PICK w \in Writers : Awaits(entry, w)
    BY <1>1, <2>1 DEF IInv, Captured, Coherent, StaleSound
  <2>3. /\ at[w] = "committed" /\ Sound(change[w]) /\ change[w] \in MutationType
        /\ writing[w] = Locked(change[w])
    BY <1>1, <2>2 DEF IInv, Control, Awaits, AwaitedBy
  <2>4. CASE Home[w] # Home[q]
    BY <2>2, <2>4 DEF Awaits
  <2>5. CASE Home[w] = Home[q]
    <3>1. reading[q] \cap Locked(change[w]) = {} /\ reading[q] \in ReadLocks
      BY <1>1, <2>1, <2>3, <2>5 DEF IInv, Control
    <3>2. IF key.kind = "sites" THEN SitesTag \in reading[q] ELSE SiteResources(key.site) \in reading[q]
      BY <2>1, <3>1 DEF ReadLocks, SitesTag, SiteResources, ResourceTag
    <3>3. key.kind # "sites" /\ change[w].op # "site"
      BY <2>2, <2>3, <3>1, <3>2, LockedTyped DEF Awaits
    <3>4. CASE change[w].op = "siteDelete"
      BY <2>2, <3>3, <3>4 DEF Awaits
    <3>5. CASE change[w].op # "siteDelete"
      <4>1. change[w].site # key.site /\ (change[w].op = "transfer" => change[w].to # key.site)
        BY <2>3, <3>1, <3>2, <3>3, <3>5, LockedTyped DEF SiteOperations
      <4>2. change[w].op # "transfer"
        BY <2>1, <2>2, <4>1 DEF Awaits
      <4>3. QED
        BY <2>2, <4>1, <4>2 DEF Awaits
    <3>6. QED
      BY <3>4, <3>5
  <2>6. QED
    BY <2>4, <2>5
<1>2. QED
  BY <1>1, Invariant, PTL
================================================================================
