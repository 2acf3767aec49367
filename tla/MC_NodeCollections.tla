------------------------- MODULE MC_NodeCollections -------------------------
(* Instances of NodeCollections for TLC: a database n1 and a schema n2,    *)
(* each with a child collection, and a server-level object n3 with a      *)
(* child collection but no Database ancestor.  Every node has its         *)
(* property collection.                                                   *)
EXTENDS NodeCollections, TLC

CONSTANTS n1, n2, n3, k1, k2, k3, p1, p2, p3

MC_Owner == [c \in Colls |-> CASE c \in {k1, p1} -> n1
                                [] c \in {k2, p2} -> n2
                                [] OTHER          -> n3]

(* At most MC_Changes catalog changes in all, so that several collections *)
(* fit in a run; one change is enough for a load to race a reset.         *)
MC_Changes == 1
MC_CatalogBound == Cardinality({c \in Colls : cat[c] > 0}) <= MC_Changes

(* Threads are interchangeable. *)
MC_ThreadSymmetry == Permutations(Threads)
=============================================================================
