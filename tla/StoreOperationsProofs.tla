------------------------ MODULE StoreOperationsProofs ------------------------
(***************************************************************************)
(* Theorems about the operations on a store, for every set of columns,     *)
(* of values and of store declarations.                                    *)
(***************************************************************************)
EXTENDS StoreOperations, FiniteSetTheorems, TLAPS

\* A store has a primary key, and its distribution key is part of it: AccessPath
\* tells the forms of a GET apart by counting columns, and these are the facts about
\* the table that make the count mean what it should.
KeyInv ==
    /\ table.primaryKey \subseteq Columns
    /\ table.pruneIndex \subseteq table.primaryKey
    /\ Exists => table.primaryKey # {}

\* The rows have a value in every column, and no two of them have the same key, so that
\* the one row a read by key adds is all there is to read.
RowsInv ==
    /\ rows \subseteq [Columns -> Values]
    /\ \A r, s \in rows : (\A c \in table.primaryKey : r[c] = s[c]) => r = s

OperationsInv == KeyInv /\ RowsInv /\ GetReturnsMatchingRows

-----------------------------------------------------------------------------
\* No column given: nothing is asked of a row.
LEMMA MatchingAll == Matching(<< >>) = rows
  BY DEF Matching, Matches

\* A GET by the whole primary key is a read by key, one by columns of the
\* distribution key a read by key or an index scan, one without key columns a scan.
LEMMA DocumentedPaths ==
    ASSUME KeyInv, Exists, NEW keys \in ColumnValues(Columns), NEW values,
           DocumentedGet(keys, values)
    PROVE  IF keys = << >> THEN AccessPath(keys) = "tableScan"
           ELSE values = << >> /\ AccessPath(keys) # "tableScan"
<1> DEFINE size == Cardinality(DOMAIN keys)
           n == Cardinality(table.primaryKey)
<1>1. IsFiniteSet(table.primaryKey)
      BY OperationsAssumption, FS_Subset DEF KeyInv
<1>2. n \in Nat /\ n # 0
      BY <1>1, FS_CardinalityType, FS_EmptySet DEF KeyInv
<1>3. CASE keys = << >>
  <2>1. size = 0
        BY <1>3, FS_EmptySet
  <2> QED
        BY <1>2, <1>3, <2>1 DEF AccessPath
<1>4. CASE keys # << >>
  <2>1. values = << >> /\ DOMAIN keys \subseteq table.primaryKey
        BY <1>4 DEF DocumentedGet, KeyInv
  <2>2. IsFiniteSet(DOMAIN keys) /\ size \in Nat /\ size <= n
        BY <1>1, <2>1, FS_Subset, FS_CardinalityType
  <2>3. CASE DOMAIN keys # {}
    <3>1. size # 0
          BY <2>2, <2>3, FS_EmptySet
    <3> QED
          BY <1>2, <1>4, <2>1, <2>2, <3>1 DEF AccessPath
  <2>4. CASE DOMAIN keys = {}
        BY <1>4, <2>4 DEF ColumnValues
  <2> QED
        BY <2>3, <2>4
<1> QED
      BY <1>3, <1>4
-----------------------------------------------------------------------------
\* An answer that is no GET's says nothing of rows.
LEMMA PlainAnswer ==
    "rows" \notin DOMAIN Ok /\ "rows" \notin DOMAIN Error
  BY DEF Ok, Error

\* CREATE_STORE makes a table whose keys are as they should be.
LEMMA CreateKeys ==
    ASSUME NEW d \in Declarations, CreateStore(d)
    PROVE  KeyInv'
  BY DEF CreateStore, TableOf, MySqlAccepts, PrimaryKey, DistributionKey, KeyInv, Exists

\* Every operation keeps the facts about the keys.
LEMMA KeyStep ==
    ASSUME KeyInv, [Next]_vars
    PROVE  KeyInv'
<1>1. ASSUME NEW d \in Declarations, CreateStore(d)
      PROVE  KeyInv'
      BY <1>1, CreateKeys
<1>2. CASE DropStore
      BY <1>2 DEF DropStore, NoTable, KeyInv, Exists
<1>3. CASE UNCHANGED table
      BY <1>3 DEF KeyInv, Exists
<1> QED
      BY <1>1, <1>2, <1>3 DEF Next, vars, Delete, Set, Get, OperationFails

\* A SET replaces the row with its key or adds one; a DELETE takes one away.
LEMMA RowsStep ==
    ASSUME KeyInv, RowsInv, [Next]_vars
    PROVE  RowsInv'
<1>1. ASSUME NEW d \in Declarations, CreateStore(d)
      PROVE  RowsInv'
      BY <1>1 DEF CreateStore, RowsInv
<1>2. CASE DropStore
      BY <1>2 DEF DropStore, RowsInv
<1>3. ASSUME NEW keys, Delete(keys)
      PROVE  RowsInv'
      BY <1>3 DEF Delete, RowsInv
<1>4. ASSUME NEW keys, NEW values, Set(keys, values)
      PROVE  RowsInv'
  <2>1. PICK row \in [Columns -> Values] :
            Matches(row, keys) /\ rows' = (rows \ Matching(keys)) \cup {row}
        BY <1>4 DEF Set
  <2>2. DOMAIN keys = table.primaryKey /\ UNCHANGED table
        BY <1>4 DEF Set, KeyComplete
  <2>3. ASSUME NEW r \in rows \ Matching(keys),
               \A c \in table.primaryKey : r[c] = row[c]
        PROVE  FALSE
        BY <2>1, <2>2, <2>3 DEF Matching, Matches
  <2>4. \A r, s \in rows' : (\A c \in table.primaryKey : r[c] = s[c]) => r = s
        BY <2>1, <2>3 DEF RowsInv
  <2> QED
        BY <2>1, <2>2, <2>4 DEF RowsInv
<1>5. CASE UNCHANGED <<table, rows>>
      BY <1>5 DEF RowsInv
<1> QED
      BY <1>1, <1>2, <1>3, <1>4, <1>5 DEF Next, vars, Get, OperationFails

\* A read by key that can be bound names the primary key, all of it and nothing else:
\* its columns are columns of the key, and as many.
LEMMA KeyReadNamesKey ==
    ASSUME KeyInv, Exists, NEW keys \in ColumnValues(Columns), Bindable(keys),
           AccessPath(keys) = "primaryKeyRead"
    PROVE  DOMAIN keys = table.primaryKey
<1>1. DOMAIN keys \subseteq table.primaryKey
      BY DEF Bindable, EqualPrimaryKey
<1>2. IsFiniteSet(table.primaryKey)
      BY OperationsAssumption, FS_Subset DEF KeyInv
<1>3. Cardinality(DOMAIN keys) = Cardinality(table.primaryKey)
      BY DEF AccessPath
<1> QED
      BY <1>1, <1>2, <1>3, FS_Subset

\* What a documented GET reads is what it describes.
LEMMA RowsReadDescribed ==
    ASSUME KeyInv, Exists, NEW keys \in ColumnValues(Columns), NEW values,
           DocumentedGet(keys, values)
    PROVE  RowsRead(keys, values) = Matching(keys) \cap Matching(values)
<1>1. \A given : Matching(given) \subseteq rows
      BY DEF Matching
<1>2. CASE keys = << >>
  <2>1. AccessPath(keys) = "tableScan"
        BY <1>2, DocumentedPaths
  <2> QED
        BY <1>1, <1>2, <2>1, MatchingAll DEF RowsRead
<1>3. CASE keys # << >>
  <2>1. AccessPath(keys) # "tableScan" /\ values = << >>
        BY <1>3, DocumentedPaths
  <2> QED
        BY <1>1, <2>1, MatchingAll DEF RowsRead
<1> QED
      BY <1>2, <1>3

\* A GET that has one of the documented forms returns the rows it describes, up to the
\* error that cuts a scan short or the row that is not there.
LEMMA GetStep ==
    ASSUME KeyInv, RowsInv, NEW keys \in ColumnValues(Columns), NEW values,
           Get(keys, values)
    PROVE  GetReturnsMatchingRows'
<1> DEFINE described == Matching(keys) \cap Matching(values)
<1>1. UNCHANGED <<table, rows>> /\ Exists /\ Bindable(keys)
      BY DEF Get
<1>2. \A given : Matching(given)' = Matching(given)
      BY <1>1 DEF Matching
<1>3. answer'.keys = keys /\ answer'.values = values
      BY DEF Get, GetByScan, GetByKey
<1>4. Described(answer)' = described
      BY <1>2, <1>3 DEF Described
<1>5. DocumentedGet(keys, values)' <=> DocumentedGet(keys, values)
      BY <1>1 DEF DocumentedGet
<1>6. SUFFICES ASSUME DocumentedGet(keys, values)
               PROVE  \/ answer'.rows = described
                      \/ ~answer'.complete /\ answer'.rows \subseteq described
                      \/ /\ ~answer'.complete /\ described = {}
                         /\ DOMAIN keys = table.primaryKey
      BY <1>1, <1>3, <1>4, <1>5 DEF GetReturnsMatchingRows
<1>7. RowsRead(keys, values) = described
      BY <1>1, <1>6, RowsReadDescribed
<1>8. CASE GetByScan(keys, values)
  <2>1. PICK found \in SUBSET described, ended \in BOOLEAN :
            /\ ended => found = described
            /\ answer'.rows = found /\ answer'.complete = ended
        BY <1>7, <1>8 DEF GetByScan
  <2> QED
        BY <2>1
<1>9. CASE GetByKey(keys, values)
  <2>1. PICK row \in [Columns -> Values] :
            /\ Matching(keys) # {} => row \in Matching(keys)
            /\ answer'.rows = {row} /\ answer'.complete = (Matching(keys) # {})
        BY <1>9 DEF GetByKey
  <2>2. DOMAIN keys = table.primaryKey
        BY <1>1, <1>9, KeyReadNamesKey DEF GetByKey
  <2>3. described = Matching(keys)
        BY <1>7, <1>9 DEF RowsRead, GetByKey
  <2>4. ASSUME NEW r \in Matching(keys), NEW s \in Matching(keys)
        PROVE  r = s
        BY <2>2 DEF RowsInv, Matching, Matches
  <2>5. CASE Matching(keys) # {}
    <3>1. Matching(keys) = {row}
          BY <2>1, <2>4, <2>5
    <3> QED
          BY <2>1, <2>3, <3>1
  <2>6. CASE Matching(keys) = {}
        BY <2>1, <2>2, <2>3, <2>6
  <2> QED
        BY <2>5, <2>6
<1> QED
      BY <1>8, <1>9 DEF Get

\* Every operation leaves an answer that says the truth about the store.
LEMMA AnswerStep ==
    ASSUME KeyInv, RowsInv, GetReturnsMatchingRows, [Next]_vars
    PROVE  GetReturnsMatchingRows'
<1>1. ASSUME answer' = Ok \/ answer' = Error
      PROVE  GetReturnsMatchingRows'
      BY <1>1, PlainAnswer DEF GetReturnsMatchingRows
<1>2. ASSUME NEW keys \in ColumnValues(Columns), NEW values, Get(keys, values)
      PROVE  GetReturnsMatchingRows'
      BY <1>2, GetStep
<1>3. CASE UNCHANGED vars
      BY <1>3 DEF vars, GetReturnsMatchingRows, DocumentedGet, Described, Matching
<1> QED
      BY <1>1, <1>2, <1>3
      DEF Next, CreateStore, DropStore, Delete, Set, OperationFails, Reported

\* In every behaviour the keys of the table, its rows and the last answer agree.
LEMMA OperationsInvariant == Spec => []OperationsInv
<1>1. Init => OperationsInv
      BY PlainAnswer DEF Init, OperationsInv, KeyInv, RowsInv, NoTable, Exists,
                         GetReturnsMatchingRows
<1>2. OperationsInv /\ [Next]_vars => OperationsInv'
      BY KeyStep, RowsStep, AnswerStep DEF OperationsInv
<1> QED
      BY <1>1, <1>2, PTL DEF Spec

\* A GET of a documented form returns exactly the rows that have the values it names,
\* whichever of the three reads its number of key columns selects; when NDB cuts a scan
\* short it returns some of these rows, and only the read of a key that is not there can
\* return another row.
THEOREM GetCorrect == Spec => []GetReturnsMatchingRows
<1>1. OperationsInv => GetReturnsMatchingRows
      BY DEF OperationsInv
<1> QED
      BY <1>1, OperationsInvariant, PTL
=============================================================================
