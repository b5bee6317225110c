---------------------------- MODULE MCCacheCoherence ----------------------------
(* CacheCoherence with a reader and a writer in one process, a writer in      *)
(* another, two sites, two resources of the tree and a library item.          *)
EXTENDS CacheCoherence, TLC

CONSTANTS p1, p2, r1, w1, w2, a, b, x, y, z

MCProcesses == {p1, p2}
MCReaders == {r1}
MCWriters == {w1, w2}
MCHome == (r1 :> p1) @@ (w1 :> p1) @@ (w2 :> p2)
MCSites == {a, b}
MCResources == {x, y, z}
MCItems == {z}

\* The sites and the resources of the tree are interchangeable.
MCSymmetry == {f @@ g : f \in Permutations({a, b}), g \in Permutations({x, y})}

\* At first the item is in a library at the root of one site, beside or below
\* it the other branch, if that exists, and the other site is empty.  Mutations
\* move the library, fill the other site, and delete and create the rest.
MCInit ==
    /\ Init
    /\ \A i \in Items, r \in Resources :
          /\ rows[i] # None /\ parent[parent[i]] = None
          /\ rows[r] \in {None, rows[i]}

MCSpec == MCInit /\ [][Next]_vars
================================================================================
