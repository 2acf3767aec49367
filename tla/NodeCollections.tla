-------------------------- MODULE NodeCollections --------------------------
(***************************************************************************)
(* The lazily loaded caches of the SMO object model (smo/common/           *)
(* node_object.py), used by handler threads that run concurrently.        *)
(*                                                                         *)
(* Every NodeObject owns child collections (NodeCollection, registered by  *)
(* _register_child_collection, whose generator is get_nodes_for_parent)    *)
(* and property collections (NodeLazyPropertyCollection, whose generator   *)
(* is _property_generator).  Both cache the generator's result in          *)
(* _items_impl: an accessor checks for None, runs the generator (a query)  *)
(* and stores its result.  reset() empties the cache; NodeObject.refresh   *)
(* resets every collection of the node, one after the other.              *)
(*                                                                         *)
(* A collection's content is abstracted to the version of the catalog     *)
(* rows its query returns; the database advances that version.            *)
(***************************************************************************)
EXTENDS Integers, FiniteSets

CONSTANTS
    Threads,         \* handler threads using the object model
    Nodes,           \* node objects
    ChildColls,      \* their child collections (NodeCollection)
    PropColls,       \* their property collections (NodeLazyPropertyCollection)
    Owner,           \* Owner[c]: the node that registered collection c
    NoDbNodes,       \* nodes with no Database ancestor
    MaxVersion       \* bound on catalog changes per collection

Colls == ChildColls \cup PropColls

(* Every node registers its _full_properties collection in __init__.      *)
ASSUME NodeAssumption ==
    /\ ChildColls \cap PropColls = {}
    /\ Nodes # {}
    /\ Owner \in [Colls -> Nodes]
    /\ \A n \in Nodes : \E c \in PropColls : Owner[c] = n
    /\ NoDbNodes \subseteq Nodes
    /\ MaxVersion \in Nat

(* _items_impl is None: not loaded since creation or the last reset.      *)
None == -1
Version == 0..MaxVersion

(* What an accessor of the collection ended with.                          *)
Outcomes == {"none", "ok", "db_error", "attribute_error"}

VARIABLES
    cat,        \* cat[c]: version of the rows c's query returns now
    impl,       \* impl[c]: the collection's _items_impl
    resetVer,   \* resetVer[c]: cat[c] when c was last reset (history)
    resetRaced, \* resetRaced[c]: c's last reset ran while a thread held
                \* rows its query had returned and not yet stored (history)
    pc,         \* pc[t]: where thread t is
    cur,        \* cur[t]: the collection thread t is loading
    res,        \* res[t]: the value its generator returned
    todo,       \* todo[t]: collections its refresh has still to reset
    outcome     \* outcome[t]: how t's last access ended

vars == <<cat, impl, resetVer, resetRaced, pc, cur, res, todo, outcome>>

TypeOK ==
    /\ cat \in [Colls -> Version]
    /\ impl \in [Colls -> {None} \cup Version]
    /\ resetVer \in [Colls -> Version]
    /\ resetRaced \in [Colls -> BOOLEAN]
    /\ pc \in [Threads -> {"idle", "load", "assign", "refresh"}]
    /\ cur \in [Threads -> Colls]
    /\ res \in [Threads -> Version]
    /\ todo \in [Threads -> SUBSET Colls]
    /\ outcome \in [Threads -> Outcomes]

Init ==
    /\ cat = [c \in Colls |-> 0]
    /\ impl = [c \in Colls |-> None]
    /\ resetVer = [c \in Colls |-> 0]
    /\ resetRaced = [c \in Colls |-> FALSE]
    /\ pc = [t \in Threads |-> "idle"]
    /\ cur = [t \in Threads |-> CHOOSE c \in Colls : TRUE]
    /\ res = [t \in Threads |-> 0]
    /\ todo = [t \in Threads |-> {}]
    /\ outcome = [t \in Threads |-> "none"]

-----------------------------------------------------------------------------
(* An accessor (__getitem__, __iter__, __len__, get, items, keys) reads   *)
(* the _items property: if the cache holds a value it is returned,        *)
(* otherwise the thread goes on to run the generator.                      *)
Access(t, c) ==
    /\ pc[t] = "idle"
    /\ IF impl[c] # None
         THEN outcome' = [outcome EXCEPT ![t] = "ok"] /\ UNCHANGED <<pc, cur>>
         ELSE /\ pc' = [pc EXCEPT ![t] = "load"]
              /\ cur' = [cur EXCEPT ![t] = c]
              /\ UNCHANGED outcome
    /\ UNCHANGED <<cat, impl, resetVer, resetRaced, res, todo>>

(* The generator raises: the exception leaves the cache as it is.         *)
Raise(t, e) ==
    /\ pc' = [pc EXCEPT ![t] = "idle"]
    /\ outcome' = [outcome EXCEPT ![t] = e]
    /\ UNCHANGED res

(* get_database_node: the object itself when it is a Database without a  *)
(* parent, its parent's database node otherwise, and None at a root that   *)
(* is not a Database.                                                      *)
HasDatabaseNode(n) == n \notin NoDbNodes

(* The generator's query returns the current rows.                        *)
Loaded(t, c) ==
    /\ pc' = [pc EXCEPT ![t] = "assign"]
    /\ res' = [res EXCEPT ![t] = cat[c]]
    /\ UNCHANGED outcome

(* get_nodes_for_parent(server, parent), the generator of a child         *)
(* collection: database_node.connection raises on None (lines 45-46),     *)
(* then every row is turned into an object with _from_node_query (the    *)
(* subclass's constructor, abstracted to the rows' version).               *)
GetNodesForParent(t, c) ==
    /\ c \in ChildColls
    /\ \/ ~HasDatabaseNode(Owner[c]) /\ Raise(t, "attribute_error")
       \/ HasDatabaseNode(Owner[c]) /\ Loaded(t, c)

(* _property_generator, the generator of the _full_properties collection: *)
(* the first row of properties.sql on the server connection.               *)
PropertyGenerator(t, c) ==
    /\ c \in PropColls
    /\ Loaded(t, c)

(* The generator runs; its query may fail, and the exception propagates    *)
(* out of the accessor with the cache left as it was.                     *)
Generate(t) ==
    /\ pc[t] = "load"
    /\ \/ Raise(t, "db_error")
       \/ GetNodesForParent(t, cur[t])
       \/ PropertyGenerator(t, cur[t])
    /\ UNCHANGED <<cat, impl, resetVer, resetRaced, cur, todo>>

(* The generator's result is stored in _items_impl and returned.          *)
Assign(t) ==
    /\ pc[t] = "assign"
    /\ impl' = [impl EXCEPT ![cur[t]] = res[t]]
    /\ pc' = [pc EXCEPT ![t] = "idle"]
    /\ outcome' = [outcome EXCEPT ![t] = "ok"]
    /\ UNCHANGED <<cat, resetVer, resetRaced, cur, res, todo>>

-----------------------------------------------------------------------------
(* A thread's query for c has returned rows it has not yet stored.       *)
RowsInFlight(c) == \E t \in Threads : pc[t] = "assign" /\ cur[t] = c

(* Variant: reset() assigns to another attribute than _items_impl.        *)
ResetNoClear(c) ==
    /\ impl' = impl
    /\ resetVer' = [resetVer EXCEPT ![c] = cat[c]]
    /\ resetRaced' = [resetRaced EXCEPT ![c] = RowsInFlight(c)]

(* reset(): _items_impl = None, so that the next access reloads.          *)
Reset(c) ==
    /\ impl' = [impl EXCEPT ![c] = None]
    /\ resetVer' = [resetVer EXCEPT ![c] = cat[c]]
    /\ resetRaced' = [resetRaced EXCEPT ![c] = RowsInFlight(c)]

(* NodeObject.refresh calls _refresh_child_collections.                   *)
StartRefresh(t, n) ==
    /\ pc[t] = "idle"
    /\ pc' = [pc EXCEPT ![t] = "refresh"]
    /\ todo' = [todo EXCEPT ![t] = {c \in Colls : Owner[c] = n}]
    /\ UNCHANGED <<cat, impl, resetVer, resetRaced, cur, res, outcome>>

(* One iteration of its loops: first every child collection (in the        *)
(* dictionary's order), then every property collection, is reset.          *)
RefreshStep(t) ==
    /\ pc[t] = "refresh"
    /\ todo[t] # {}
    /\ \E c \in todo[t] :
         /\ c \in PropColls => todo[t] \cap ChildColls = {}
         /\ Reset(c)
         /\ todo' = [todo EXCEPT ![t] = @ \ {c}]
         /\ pc' = [pc EXCEPT ![t] = IF todo'[t] = {} THEN "idle" ELSE "refresh"]
    /\ UNCHANGED <<cat, cur, res, outcome>>

(* NodeCollection.refresh(): reset() of a single child collection.        *)
RefreshCollection(t, c) ==
    /\ pc[t] = "idle"
    /\ c \in ChildColls
    /\ Reset(c)
    /\ UNCHANGED <<cat, pc, cur, res, todo, outcome>>

(* Another session changes the catalog: the query of c now returns new rows. *)
Ddl(c) ==
    /\ cat[c] < MaxVersion
    /\ cat' = [cat EXCEPT ![c] = @ + 1]
    /\ UNCHANGED <<impl, resetVer, resetRaced, pc, cur, res, todo, outcome>>

Next ==
    \/ \E t \in Threads :
         \/ \E c \in Colls : Access(t, c)
         \/ Generate(t)
         \/ Assign(t)
         \/ \E n \in Nodes : StartRefresh(t, n)
         \/ RefreshStep(t)
         \/ \E c \in Colls : RefreshCollection(t, c)
    \/ \E c \in Colls : Ddl(c)

Spec == Init /\ [][Next]_vars

-----------------------------------------------------------------------------
(* Properties.                                                             *)

(* reset()'s comment (line 345): after a reset the next access reloads.    *)
(* So whatever the cache holds was loaded no earlier than the last reset:  *)
(* its version is at least the catalog's version at that reset.  A        *)
(* refresh of the node, even one racing a concurrent load, must not leave  *)
(* rows cached that predate it.                                            *)
ResetForcesReload ==
    \A c \in Colls : impl[c] # None => impl[c] >= resetVer[c]

(* What the lock-free cache does guarantee: rows older than a collection's *)
(* last reset stay cached only when that reset ran while another thread   *)
(* held rows its query had already returned (between lines 304 and 305,  *)
(* or 250 and 251).  A reset, alone or within a refresh, that meets no    *)
(* such load makes the next access reload.                                 *)
StaleOnlyAfterRacedReset ==
    \A c \in Colls : impl[c] # None /\ impl[c] < resetVer[c] => resetRaced[c]
=============================================================================
