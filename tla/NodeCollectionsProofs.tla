----------------------- MODULE NodeCollectionsProofs -----------------------
(***************************************************************************)
(* Proofs about NodeCollections: the caches are well typed whatever the   *)
(* threads do, and rows older than a reset stay cached only when the      *)
(* reset raced a load whose query had returned (StaleOnlyAfterRacedReset), *)
(* for any number of threads.  That such a race happens: run nodes_race.  *)
(***************************************************************************)
EXTENDS NodeCollections, TLAPS

USE NodeAssumption

(* The bookkeeping behind StaleOnlyAfterRacedReset: rows a thread holds  *)
(* and has not stored yet are no older than their collection's last reset, *)
(* unless that reset raced them; a reset records a version the catalog has *)
(* reached.                                                                *)
InFlightFresh ==
    \A t \in Threads : pc[t] = "assign" =>
        res[t] >= resetVer[cur[t]] \/ resetRaced[cur[t]]

ResetBehindCatalog ==
    \A c \in Colls : resetVer[c] <= cat[c]

FreshInv == TypeOK /\ StaleOnlyAfterRacedReset /\ InFlightFresh /\ ResetBehindCatalog

-----------------------------------------------------------------------------
(* There is a node, so there is a collection: its _full_properties.       *)
LEMMA CollsNonEmpty == Colls # {}
  BY DEF Colls

LEMMA InitTypeOK == Init => TypeOK
  BY CollsNonEmpty DEF Init, TypeOK, None, Version, Outcomes

(* Every step keeps the type: the catalog never passes MaxVersion, and a *)
(* generator returns a version the catalog has.                           *)
LEMMA TypeOKStep == TypeOK /\ [Next]_vars => TypeOK'
  <1> SUFFICES ASSUME TypeOK, [Next]_vars PROVE TypeOK'
    OBVIOUS
  <1> USE DEF TypeOK, None, Version, Outcomes
  <1>1. ASSUME NEW t \in Threads, NEW c \in Colls, Access(t, c) PROVE TypeOK'
    BY <1>1 DEF Access
  <1>2. ASSUME NEW t \in Threads, Generate(t) PROVE TypeOK'
    <2>1. cur[t] \in Colls
      OBVIOUS
    <2>2. CASE Raise(t, "db_error")
      BY <1>2, <2>2 DEF Generate, Raise
    <2>3. CASE GetNodesForParent(t, cur[t])
      BY <1>2, <2>1, <2>3 DEF Generate, GetNodesForParent, Raise, Loaded
    <2>4. CASE PropertyGenerator(t, cur[t])
      BY <1>2, <2>1, <2>4 DEF Generate, PropertyGenerator, Loaded
    <2>5. QED
      BY <1>2, <2>2, <2>3, <2>4 DEF Generate
  <1>3. ASSUME NEW t \in Threads, Assign(t) PROVE TypeOK'
    BY <1>3 DEF Assign
  <1>4. ASSUME NEW t \in Threads, NEW n \in Nodes, StartRefresh(t, n) PROVE TypeOK'
    BY <1>4 DEF StartRefresh
  <1>5. ASSUME NEW t \in Threads, RefreshStep(t) PROVE TypeOK'
    BY <1>5 DEF RefreshStep, Reset, RowsInFlight
  <1>6. ASSUME NEW t \in Threads, NEW c \in Colls, RefreshCollection(t, c) PROVE TypeOK'
    BY <1>6 DEF RefreshCollection, Reset, RowsInFlight
  <1>7. ASSUME NEW c \in Colls, Ddl(c) PROVE TypeOK'
    BY <1>7 DEF Ddl
  <1>8. CASE UNCHANGED vars
    BY <1>8 DEF vars
  <1>9. QED
    BY <1>1, <1>2, <1>3, <1>4, <1>5, <1>6, <1>7, <1>8 DEF Next

(* Type correctness of the caches, for any number of threads, nodes and   *)
(* collections.                                                            *)
THEOREM CachesTyped == Spec => []TypeOK
  BY InitTypeOK, TypeOKStep, PTL DEF Spec


LEMMA InitFresh == Init => FreshInv
  BY InitTypeOK DEF Init, FreshInv, StaleOnlyAfterRacedReset, InFlightFresh,
     ResetBehindCatalog, None

(* A reset of c clears its cache and records the catalog's version, and   *)
(* whether rows of c were held by a thread: every held row is then fresh  *)
(* or raced, whatever the other threads do.                                *)
LEMMA ResetFresh ==
  ASSUME FreshInv, TypeOK', NEW c \in Colls, Reset(c),
         UNCHANGED <<cat, cur, res>>,
         \A t \in Threads : pc'[t] = "assign" => pc[t] = "assign"
  PROVE  FreshInv'
  <1> USE DEF FreshInv, TypeOK, None, Version
  <1>1. StaleOnlyAfterRacedReset'
    BY DEF Reset, StaleOnlyAfterRacedReset
  <1>2. ResetBehindCatalog'
    BY DEF Reset, ResetBehindCatalog
  <1>3. InFlightFresh'
    <2> SUFFICES ASSUME NEW t \in Threads, pc'[t] = "assign"
                 PROVE  res'[t] >= resetVer'[cur'[t]] \/ resetRaced'[cur'[t]]
      BY DEF InFlightFresh
    <2>1. pc[t] = "assign"
      OBVIOUS
    <2>2. CASE cur[t] = c
      <3>1. RowsInFlight(c)
        BY <2>1, <2>2 DEF RowsInFlight
      <3>2. QED
        BY <2>2, <3>1 DEF Reset
    <2>3. CASE cur[t] # c
      BY <2>1, <2>3 DEF Reset, InFlightFresh
    <2>4. QED
      BY <2>2, <2>3
  <1>4. QED
    BY <1>1, <1>2, <1>3

(* Every step keeps FreshInv: a query reads the catalog, which is never   *)
(* behind the last reset; a store writes rows that are fresh or raced; a   *)
(* reset is ResetFresh; a catalog change only moves the catalog ahead.    *)
LEMMA FreshStep == FreshInv /\ [Next]_vars => FreshInv'
  <1> SUFFICES ASSUME FreshInv, [Next]_vars PROVE FreshInv'
    OBVIOUS
  <1>0. TypeOK'
    BY TypeOKStep DEF FreshInv
  <1> USE DEF FreshInv, TypeOK, None, Version
  <1>1. ASSUME NEW t \in Threads, NEW c \in Colls, Access(t, c) PROVE FreshInv'
    BY <1>0, <1>1 DEF Access, StaleOnlyAfterRacedReset, InFlightFresh, ResetBehindCatalog
  <1>2. ASSUME NEW t \in Threads, Generate(t) PROVE FreshInv'
    <2>1. UNCHANGED <<cat, impl, resetVer, resetRaced, cur>> /\ pc[t] = "load"
      BY <1>2 DEF Generate
    <2>2. StaleOnlyAfterRacedReset' /\ ResetBehindCatalog'
      BY <2>1 DEF StaleOnlyAfterRacedReset, ResetBehindCatalog
    <2>3. CASE pc'[t] # "assign"
      <3>1. \A u \in Threads : pc'[u] = "assign" => u # t /\ pc[u] = "assign" /\ res'[u] = res[u]
        BY <1>2, <2>3 DEF Generate, GetNodesForParent, PropertyGenerator, Raise, Loaded
      <3>2. InFlightFresh'
        BY <2>1, <3>1 DEF InFlightFresh
      <3>3. QED
        BY <2>2, <3>2, <1>0
    <2>4. CASE pc'[t] = "assign"
      <3>1. res'[t] = cat[cur[t]]
        BY <1>2, <2>4 DEF Generate, GetNodesForParent, PropertyGenerator, Raise, Loaded
      <3>2. \A u \in Threads \ {t} : pc'[u] = pc[u] /\ res'[u] = res[u]
        BY <1>2 DEF Generate, GetNodesForParent, PropertyGenerator, Raise, Loaded
      <3>3. InFlightFresh'
        BY <2>1, <3>1, <3>2 DEF InFlightFresh, ResetBehindCatalog
      <3>4. QED
        BY <2>2, <3>3, <1>0
    <2>5. QED
      BY <2>3, <2>4
  <1>3. ASSUME NEW t \in Threads, Assign(t) PROVE FreshInv'
    BY <1>0, <1>3 DEF Assign, StaleOnlyAfterRacedReset, InFlightFresh, ResetBehindCatalog
  <1>4. ASSUME NEW t \in Threads, NEW n \in Nodes, StartRefresh(t, n) PROVE FreshInv'
    BY <1>0, <1>4 DEF StartRefresh, StaleOnlyAfterRacedReset, InFlightFresh, ResetBehindCatalog
  <1>5. ASSUME NEW t \in Threads, RefreshStep(t) PROVE FreshInv'
    <2>1. PICK c \in todo[t] : Reset(c) /\ todo' = [todo EXCEPT ![t] = @ \ {c}]
             /\ pc' = [pc EXCEPT ![t] = IF todo'[t] = {} THEN "idle" ELSE "refresh"]
      BY <1>5 DEF RefreshStep
    <2>2. c \in Colls /\ UNCHANGED <<cat, cur, res>>
      BY <1>5 DEF RefreshStep
    <2>3. \A u \in Threads : pc'[u] = "assign" => pc[u] = "assign"
      BY <2>1
    <2>4. QED
      BY <1>0, <2>1, <2>2, <2>3, ResetFresh
  <1>6. ASSUME NEW t \in Threads, NEW c \in Colls, RefreshCollection(t, c) PROVE FreshInv'
    BY <1>0, <1>6, ResetFresh DEF RefreshCollection
  <1>7. ASSUME NEW c \in Colls, Ddl(c) PROVE FreshInv'
    BY <1>0, <1>7 DEF Ddl, StaleOnlyAfterRacedReset, InFlightFresh, ResetBehindCatalog
  <1>8. CASE UNCHANGED vars
    BY <1>0, <1>8 DEF vars, StaleOnlyAfterRacedReset, InFlightFresh, ResetBehindCatalog
  <1>9. QED
    BY <1>1, <1>2, <1>3, <1>4, <1>5, <1>6, <1>7, <1>8 DEF Next

(* For any number of handler threads, nodes, collections and catalog      *)
(* changes: rows older than a collection's last reset stay cached only    *)
(* when that reset ran while a thread held rows its query had returned     *)
(* and not yet stored (NodeCollection._items, lines 303-305).             *)
THEOREM ResetRacesOnlyInFlight == Spec => []StaleOnlyAfterRacedReset
  <1>1. FreshInv => StaleOnlyAfterRacedReset
    BY DEF FreshInv
  <1>2. QED
    BY InitFresh, FreshStep, <1>1, PTL DEF Spec
=============================================================================
