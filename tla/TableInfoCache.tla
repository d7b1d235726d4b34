--------------------------- MODULE TableInfoCache ---------------------------
(***************************************************************************)
(* The cache of table descriptions all executor threads share              *)
(* (volodbserver/Cache/TableInfoCache.cpp), together with the operations   *)
(* of NDBMessageExecutor.cpp that fill and invalidate it.                  *)
(*                                                                         *)
(* get and invalidate are atomic: they run under the lock _access.  set is *)
(* not: it asks the dictionary before it takes the lock.  A DROP_STORE is  *)
(* two steps as well, the DROP TABLE and then the invalidate.              *)
(*                                                                         *)
(* External, known from its use here only: the dictionary of NDB, changed  *)
(* through MySQL.  getTable answers with the table there is at that        *)
(* moment.  A table is a number that no later table gets again.            *)
(***************************************************************************)
EXTENDS Integers

CONSTANTS
    Threads,    \* the executor threads
    Stores,     \* the names of stores
    MaxTables   \* bound: how many tables are ever created

nullptr == 0

ASSUME TablesAssumption == MaxTables \in Nat

VARIABLES
    dictionary,   \* the table that has a name, or nullptr
    created,      \* how many tables were created
    _entries,     \* the cache
    pc,           \* where a thread is
    storeName,    \* the store its operation is on
    lookups,      \* how many lookups its operation has left
    tableInfo,    \* the table its lookup has found
    overtaken,    \* history: stores whose fetched table was dropped before its insertion
    misreported   \* history: stores whose DROP TABLE took effect and came back as an error

historyVars == <<overtaken, misreported>>
vars == <<dictionary, created, _entries, pc, storeName, lookups, tableInfo, historyVars>>

Tables == 0 .. MaxTables
PC == {"idle", "get", "fetch", "insert", "found", "invalidate"}

TypeOK ==
    /\ dictionary \in [Stores -> Tables]
    /\ created \in Tables
    /\ _entries \in [Stores -> Tables]
    /\ pc \in [Threads -> PC]
    /\ storeName \in [Threads -> Stores]
    /\ lookups \in [Threads -> 0 .. 2]
    /\ tableInfo \in [Threads -> Tables]
    /\ overtaken \subseteq Stores
    /\ misreported \subseteq Stores

Init ==
    /\ dictionary = [s \in Stores |-> nullptr]
    /\ created = 0
    /\ _entries = [s \in Stores |-> nullptr]
    /\ pc = [t \in Threads |-> "idle"]
    /\ storeName \in [Threads -> Stores]
    /\ lookups = [t \in Threads |-> 0]
    /\ tableInfo = [t \in Threads |-> nullptr]
    /\ overtaken = {}
    /\ misreported = {}

GoTo(t, place) == pc' = [pc EXCEPT ![t] = place]

-----------------------------------------------------------------------------
\* A SET, GET or DELETE.  The one that starts the transaction of its request looks
\* the store up in _startTransaction, a GET once more for itself.
StartOperation(t, s, n) ==
    /\ pc[t] = "idle"
    /\ GoTo(t, "get")
    /\ storeName' = [storeName EXCEPT ![t] = s]
    /\ lookups' = [lookups EXCEPT ![t] = n]
    /\ UNCHANGED <<dictionary, created, _entries, tableInfo, historyVars>>

\* TableInfoCache::get, under the shared lock.
Get(t) ==
    /\ pc[t] = "get"
    /\ tableInfo' = [tableInfo EXCEPT ![t] = _entries[storeName[t]]]
    /\ GoTo(t, IF _entries[storeName[t]] # nullptr THEN "found" ELSE "fetch")
    /\ UNCHANGED <<dictionary, created, _entries, storeName, lookups, historyVars>>

\* TableInfoCache::set before the lock: _getInternal.  Without a table the
\* operation fails.
Fetch(t) ==
    /\ pc[t] = "fetch"
    /\ tableInfo' = [tableInfo EXCEPT ![t] = dictionary[storeName[t]]]
    /\ GoTo(t, IF dictionary[storeName[t]] # nullptr THEN "insert" ELSE "idle")
    /\ UNCHANGED <<dictionary, created, _entries, storeName, lookups, historyVars>>

\* TableInfoCache::set under the unique lock.
Insert(t) ==
    /\ pc[t] = "insert"
    /\ _entries' = [_entries EXCEPT ![storeName[t]] = tableInfo[t]]
    /\ GoTo(t, "found")
    /\ UNCHANGED <<dictionary, created, storeName, lookups, tableInfo, historyVars>>

\* The table is used: to start the transaction, or to choose how a GET reads.  A
\* GET comes back for its second lookup unless the transaction did not start.
UseTable(t) ==
    /\ pc[t] = "found"
    /\ lookups' = [lookups EXCEPT ![t] = @ - 1]
    /\ \/ GoTo(t, "idle")
       \/ lookups[t] = 2 /\ GoTo(t, "get")
    /\ UNCHANGED <<dictionary, created, _entries, storeName, tableInfo, historyVars>>

-----------------------------------------------------------------------------
\* CREATE_STORE: the query fails for a name that is taken, and the cache is not
\* touched either way.
CreateTable(t, s) ==
    /\ pc[t] = "idle"
    /\ created < MaxTables
    /\ dictionary[s] = nullptr
    /\ created' = created + 1
    /\ dictionary' = [dictionary EXCEPT ![s] = created + 1]
    /\ UNCHANGED <<_entries, pc, storeName, lookups, tableInfo, historyVars>>

\* Mutant: the entry is left to be replaced by the next set.
DropTable_KeepsEntry(t, s) ==
    /\ pc[t] = "idle"
    /\ dictionary[s] # nullptr
    /\ dictionary' = [dictionary EXCEPT ![s] = nullptr]
    /\ storeName' = [storeName EXCEPT ![t] = s]
    /\ UNCHANGED <<created, _entries, pc, lookups, tableInfo, historyVars>>

\* DROP_STORE, its query.  When it is answered with an error the cache is not
\* invalidated: without a table, or when the connection fails after the drop.
DropTable(t, s) ==
    /\ pc[t] = "idle"
    /\ dictionary[s] # nullptr
    /\ dictionary' = [dictionary EXCEPT ![s] = nullptr]
    /\ storeName' = [storeName EXCEPT ![t] = s]
    /\ \/ GoTo(t, "invalidate") /\ UNCHANGED misreported
       \/ misreported' = misreported \cup {s} /\ UNCHANGED pc
    /\ UNCHANGED <<created, _entries, lookups, tableInfo, overtaken>>

\* Thread u holds a table that is no longer the store's, and is about to insert it.
HoldsDropped(u, s) ==
    pc[u] = "insert" /\ storeName[u] = s /\ tableInfo[u] # dictionary[s]

\* TableInfoCache::invalidate, under the unique lock.
Invalidate(t) ==
    /\ pc[t] = "invalidate"
    /\ _entries' = [_entries EXCEPT ![storeName[t]] = nullptr]
    /\ overtaken' = IF \E u \in Threads : HoldsDropped(u, storeName[t])
                      THEN overtaken \cup {storeName[t]}
                      ELSE overtaken \ {storeName[t]}
    /\ misreported' = misreported \ {storeName[t]}
    /\ GoTo(t, "idle")
    /\ UNCHANGED <<dictionary, created, storeName, lookups, tableInfo>>

Step(t) ==
    \/ \E s \in Stores, n \in 1 .. 2 : StartOperation(t, s, n)
    \/ Get(t) \/ Fetch(t) \/ Insert(t) \/ UseTable(t)
    \/ \E s \in Stores : CreateTable(t, s) \/ DropTable(t, s)
    \/ Invalidate(t)

Next == \E t \in Threads : Step(t)

Spec == Init /\ [][Next]_vars

-----------------------------------------------------------------------------
Invalidating(s) == \E t \in Threads : pc[t] = "invalidate" /\ storeName[t] = s

\* The cache describes a table that is gone only between a DROP TABLE and its
\* invalidate, when that invalidate ran between the fetch and the insertion of
\* a set, or after a DROP TABLE that took effect and was reported as an error:
\* DROP_STORE empties the cache on every other path, and the next DROP_STORE of the
\* name that no set straddles repairs it.
StaleOnlyWhenOvertaken ==
    \A s \in Stores :
        _entries[s] \notin {nullptr, dictionary[s]} =>
            Invalidating(s) \/ s \in overtaken \cup misreported
=============================================================================
