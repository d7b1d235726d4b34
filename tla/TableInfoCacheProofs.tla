------------------------ MODULE TableInfoCacheProofs ------------------------
(***************************************************************************)
(* Proofs about the table cache, for every set of threads and stores and   *)
(* every number of tables.                                                 *)
(*                                                                         *)
(* StaleOnlyWhenOvertaken is not inductive: a thread that holds a dropped  *)
(* table makes the cache stale when it inserts it.  HeldInv says the same  *)
(* of such a thread as of a stale entry: the invalidate is still to come,  *)
(* or it has seen the thread, or the DROP TABLE came back as an error.     *)
(***************************************************************************)
EXTENDS TableInfoCache, TLAPS

\* A thread about to insert a table that is not the store's was overtaken by a
\* DROP_STORE, whose invalidate is still to come or has recorded it, or whose query
\* was reported as an error.
HeldInv ==
    \A t \in Threads :
        /\ pc[t] = "insert" => tableInfo[t] # nullptr
        /\ HoldsDropped(t, storeName[t]) =>
               Invalidating(storeName[t]) \/ storeName[t] \in overtaken \cup misreported

\* A thread inside an operation has a lookup left.
LookupsInv ==
    \A t \in Threads : pc[t] \in {"get", "fetch", "insert", "found"} => lookups[t] # 0

Typed == TypeOK /\ LookupsInv

IInv == Typed /\ StaleOnlyWhenOvertaken /\ HeldInv

USE DEF nullptr, historyVars

\* The type invariant of the cache and of the threads that use it is preserved.
LEMMA TypeStep == Typed /\ [Next]_vars => Typed'
<1> SUFFICES ASSUME Typed, [Next]_vars PROVE Typed'
    OBVIOUS
<1> USE TablesAssumption DEF Typed, TypeOK, LookupsInv, Tables, PC
<1>1. CASE UNCHANGED vars
    BY <1>1 DEF vars
<1>2. ASSUME NEW t \in Threads, Step(t) PROVE Typed'
    <2>1. ASSUME NEW s \in Stores, NEW n \in 1 .. 2, StartOperation(t, s, n) PROVE Typed'
        BY <2>1 DEF StartOperation, GoTo
    <2>2. CASE Get(t)
        BY <2>2 DEF Get, GoTo
    <2>3. CASE Fetch(t)
        BY <2>3 DEF Fetch, GoTo
    <2>4. CASE Insert(t)
        BY <2>4 DEF Insert, GoTo
    <2>5. CASE UseTable(t)
        BY <2>5 DEF UseTable, GoTo
    <2>6. ASSUME NEW s \in Stores, CreateTable(t, s) PROVE Typed'
        BY <2>6 DEF CreateTable
    <2>7. ASSUME NEW s \in Stores, DropTable(t, s) PROVE Typed'
        BY <2>7 DEF DropTable, GoTo
    <2>8. CASE Invalidate(t)
        BY <2>8 DEF Invalidate, GoTo
    <2> QED
        BY <1>2, <2>1, <2>2, <2>3, <2>4, <2>5, <2>6, <2>7, <2>8 DEF Step
<1> QED
    BY <1>1, <1>2 DEF Next

\* Every step keeps stale entries, and threads that would make one, accounted for.
LEMMA StaleStep == IInv /\ [Next]_vars => (StaleOnlyWhenOvertaken /\ HeldInv)'
<1> SUFFICES ASSUME IInv, [Next]_vars PROVE (StaleOnlyWhenOvertaken /\ HeldInv)'
    OBVIOUS
<1> USE TablesAssumption
    DEF IInv, Typed, TypeOK, StaleOnlyWhenOvertaken, HeldInv, HoldsDropped, Invalidating,
        Tables
<1>1. CASE UNCHANGED vars
    BY <1>1 DEF vars
<1>2. ASSUME NEW t \in Threads, Step(t) PROVE (StaleOnlyWhenOvertaken /\ HeldInv)'
    <2>1. ASSUME NEW s \in Stores, NEW n \in 1 .. 2, StartOperation(t, s, n)
          PROVE (StaleOnlyWhenOvertaken /\ HeldInv)'
        BY <2>1 DEF StartOperation, GoTo
    <2>2. CASE Get(t)
        BY <2>2 DEF Get, GoTo
    <2>3. CASE Fetch(t)
        BY <2>3 DEF Fetch, GoTo
    <2>4. CASE Insert(t)
        BY <2>4 DEF Insert, GoTo
    <2>5. CASE UseTable(t)
        BY <2>5 DEF UseTable, GoTo
    <2>6. ASSUME NEW s \in Stores, CreateTable(t, s)
          PROVE (StaleOnlyWhenOvertaken /\ HeldInv)'
        BY <2>6 DEF CreateTable
    <2>7. ASSUME NEW s \in Stores, DropTable(t, s)
          PROVE (StaleOnlyWhenOvertaken /\ HeldInv)'
        BY <2>7 DEF DropTable, GoTo
    <2>8. CASE Invalidate(t)
        BY <2>8 DEF Invalidate, GoTo
    <2> QED
        BY <1>2, <2>1, <2>2, <2>3, <2>4, <2>5, <2>6, <2>7, <2>8 DEF Step
<1> QED
    BY <1>1, <1>2 DEF Next

\* With any number of threads and stores, the cache describes a dropped table only
\* while its DROP_STORE is under way, after a set that the DROP_STORE overtook, or after
\* a DROP TABLE whose effect was reported as an error.
THEOREM CacheIsCoherent == Spec => []StaleOnlyWhenOvertaken
<1>1. Init => IInv
    BY TablesAssumption DEF Init, IInv, Typed, TypeOK, LookupsInv, Tables, PC,
       StaleOnlyWhenOvertaken,
        HeldInv, HoldsDropped
<1>2. IInv /\ [Next]_vars => IInv'
    BY TypeStep, StaleStep DEF IInv
<1>3. IInv => StaleOnlyWhenOvertaken
    BY DEF IInv
<1> QED
    BY <1>1, <1>2, <1>3, PTL DEF Spec
=============================================================================
