--------------------------- MODULE StoreOperations ---------------------------
(***************************************************************************)
(* What the operations on one store mean: how NDBMessageExecutor.cpp turns *)
(* CREATE_STORE into a table, SET and DELETE into writes and GET into a    *)
(* read by key, a scan of the prune index or a scan of the table.          *)
(*                                                                         *)
(* An operation is one step here, the transaction of a request of its own; *)
(* requests of several operations and batches are NDBMessageExecutor's.    *)
(* Clients name columns of the store, each once; all the rest is free: a   *)
(* column may be given as a key that is none, keys may be missing.         *)
(*                                                                         *)
(* External, known from its use here only: MySQL and NDB, which may fail   *)
(* any operation, or a scan after part of its rows, and the column         *)
(* definitions and bounds they accept.                                     *)
(***************************************************************************)
EXTENDS Integers, FiniteSets

CONSTANTS
    Columns,        \* the columns of the store
    Values,         \* the values of a column
    Declarations,   \* the CREATE_STORE operations clients send
    MaxRows         \* bound: how many rows the store holds

Flag == {"absent", "false", "true"}    \* an optional bool of a protocol buffer
noLength == -1                         \* a column definition without a length

\* VARCHAR stands for VARBINARY too, INT32 for all types without a length.
ColumnInfo == [type : {"INT32", "CHAR", "VARCHAR"}, has_length : BOOLEAN, length : Int,
               primary_key : Flag, distribution_key : Flag]

ASSUME OperationsAssumption ==
    /\ IsFiniteSet(Columns)
    /\ Declarations \subseteq [Columns -> ColumnInfo]
    /\ MaxRows \in Nat

VARIABLES
    declared,   \* history: the CREATE_STORE that made the store
    table,      \* the table, or NoTable
    rows,       \* its rows
    answer      \* the last operation's answer; for a GET with what it answers and,
                \* as history, whether all there was has been read

vars == <<declared, table, rows, answer>>

NoTable == [primaryKey |-> {}, pruneIndex |-> {}, length |-> [c \in Columns |-> noLength]]
NoDeclaration == [c \in Columns |->
    [type |-> "INT32", has_length |-> FALSE, length |-> 0, primary_key |-> "absent",
     distribution_key |-> "absent"]]

\* Some columns with a value each: the primary_key or the value field of an operation.
ColumnValues(columns) == UNION {[given -> Values] : given \in SUBSET columns}

Ok == [status |-> "ok"]
Error == [status |-> "error"]

Init ==
    /\ declared = NoDeclaration
    /\ table = NoTable
    /\ rows = {}
    /\ answer = Ok

Exists == table # NoTable

\* External: what has taken effect may come back as an error all the same.
Reported == answer' \in {Ok, Error}

\* Any operation may fail with nothing changed; where the actions below are not enabled
\* it must.
OperationFails ==
    /\ answer' = Error
    /\ UNCHANGED <<declared, table, rows>>

-----------------------------------------------------------------------------
(* CREATE_STORE and DROP_STORE.                                            *)

\* The flags that are there make a column a key, whatever their value.
PrimaryKey(d) == {c \in Columns : d[c].primary_key # "absent"}
DistributionKey(d) == {c \in Columns : d[c].distribution_key # "absent"}

\* The length in the column's definition: short VARCHARs are made longer, whatever
\* the number.
SqlLength(info) ==
    CASE ~info.has_length \/ info.type = "INT32" -> noLength
      [] info.type = "VARCHAR" -> IF info.length < 255 THEN 256 ELSE info.length
      [] OTHER -> info.length

\* The CREATE TABLE statement.
TableOf(d) ==
    [primaryKey |-> PrimaryKey(d),
     pruneIndex |-> DistributionKey(d),
     length     |-> [c \in Columns |-> SqlLength(d[c])]]

\* External: a VARCHAR needs a length, no length is negative, and the columns
\* PARTITION BY KEY names are columns of the primary key.
MySqlAccepts(d) ==
    /\ \A c \in Columns :
          /\ d[c].type = "VARCHAR" => d[c].has_length
          /\ d[c].type = "CHAR" /\ d[c].has_length => d[c].length >= 0
    /\ DistributionKey(d) \subseteq PrimaryKey(d)

\* Without a primary key, or else a distribution key, there is no query.
CreateStore(d) ==
    /\ PrimaryKey(d) # {} /\ DistributionKey(d) # {}
    /\ ~Exists /\ MySqlAccepts(d)
    /\ declared' = d
    /\ table' = TableOf(d)
    /\ rows' = {}
    /\ Reported

DropStore ==
    /\ Exists
    /\ declared' = NoDeclaration
    /\ table' = NoTable
    /\ rows' = {}
    /\ Reported

-----------------------------------------------------------------------------
(* SET and DELETE.                                                         *)

Matches(row, given) == \A c \in DOMAIN given : row[c] = given[c]
Matching(given) == {row \in rows : Matches(row, given)}

\* setEqualPrimaryKey, and external: equal refuses a column that is no key.
EqualPrimaryKey(keys) == DOMAIN keys \subseteq table.primaryKey

\* External: NDB executes a write only when all the key is there.
KeyComplete(keys) == DOMAIN keys = table.primaryKey

\* writeTuple with the values given: an update keeps the other columns, an insert
\* needs them all, for they are NOT NULL; setValue refuses key columns.
Set(keys, values) ==
    /\ Exists /\ EqualPrimaryKey(keys) /\ KeyComplete(keys)
    /\ DOMAIN values \cap table.primaryKey = {}
    /\ \E row \in [Columns -> Values] :
          /\ Matches(row, keys) /\ Matches(row, values)
          /\ \/ DOMAIN keys \cup DOMAIN values = Columns
             \/ \E old \in Matching(keys) :
                   \A c \in Columns \ DOMAIN values : row[c] = old[c]
          /\ rows' = (rows \ Matching(keys)) \cup {row}
    /\ Cardinality(rows') <= MaxRows
    /\ Reported
    /\ UNCHANGED <<declared, table>>

\* deleteTuple; external: NDB reports a row that is not there as an error.
Delete(keys) ==
    /\ Exists /\ EqualPrimaryKey(keys) /\ KeyComplete(keys)
    /\ Matching(keys) # {}
    /\ rows' = rows \ Matching(keys)
    /\ Reported
    /\ UNCHANGED <<declared, table>>

-----------------------------------------------------------------------------
(* GET.                                                                    *)

\* Mutant: a GET without a key is not told from one with part of it.
AccessPath_NoZeroCheck(keys) ==
    LET size == Cardinality(DOMAIN keys) n == Cardinality(table.primaryKey)
    IN  CASE size = n -> "primaryKeyRead"
          [] size < n -> "pruneIndexScan"
          [] OTHER -> "tableScan"

\* How the rows are read, by the number of key columns the client gave.
AccessPath(keys) ==
    LET size == Cardinality(DOMAIN keys) n == Cardinality(table.primaryKey)
    IN  CASE size = n -> "primaryKeyRead"
          [] size # 0 /\ size < n -> "pruneIndexScan"
          [] OTHER -> "tableScan"

\* The operation is built: each bound is set on a column of the key or index.
Bindable(keys) ==
    CASE AccessPath(keys) = "primaryKeyRead" -> EqualPrimaryKey(keys)
      [] AccessPath(keys) = "pruneIndexScan" -> DOMAIN keys \subseteq table.pruneIndex
      [] OTHER -> TRUE

\* What it reads: setEqualValue filters a table scan only, and by the values only.
RowsRead(keys, values) ==
    IF AccessPath(keys) = "tableScan" THEN Matching(values) ELSE Matching(keys)

\* A scan: the callback asks nextResult for rows until it answers no more.  An error
\* in between, or at the start, ends the loop as the end of the scan does.
GetByScan(keys, values) ==
    /\ AccessPath(keys) # "primaryKeyRead"
    /\ \E found \in SUBSET RowsRead(keys, values), ended \in BOOLEAN :
          /\ ended => found = RowsRead(keys, values)
          /\ answer' = [status |-> "ok", keys |-> keys, values |-> values,
                        rows |-> found, complete |-> ended]

\* A read by key: the callback adds the one row its buffers hold, whether NDB has filled
\* them or not.  External: a row that is not there may be an error of the transaction
\* (OperationFails), or one of the read alone, which the callback does not look at.
GetByKey(keys, values) ==
    /\ AccessPath(keys) = "primaryKeyRead"
    /\ \E row \in [Columns -> Values] :
          /\ Matching(keys) # {} => row \in Matching(keys)
          /\ answer' = [status |-> "ok", keys |-> keys, values |-> values,
                        rows |-> {row}, complete |-> Matching(keys) # {}]

Get(keys, values) ==
    /\ Exists /\ Bindable(keys)
    /\ GetByScan(keys, values) \/ GetByKey(keys, values)
    /\ UNCHANGED <<declared, table, rows>>

-----------------------------------------------------------------------------
Next ==
    \/ \E d \in Declarations : CreateStore(d)
    \/ DropStore
    \/ \E keys \in ColumnValues(Columns) :
          \/ Delete(keys)
          \/ \E values \in ColumnValues(Columns \ DOMAIN keys) :
                Set(keys, values) \/ Get(keys, values)
    \/ OperationFails

Spec == Init /\ [][Next]_vars

-----------------------------------------------------------------------------
\* A GET of one of the forms the README has: all of the primary key, columns of
\* the distribution key, or columns outside the key, or nothing at all.
DocumentedGet(keys, values) ==
    \/ DOMAIN keys = table.primaryKey /\ values = << >>
    \/ DOMAIN keys \subseteq table.pruneIndex /\ values = << >>
    \/ keys = << >>

\* The rows that have the values a GET names.
Described(get) == Matching(get.keys) \cap Matching(get.values)

\* Whichever way a GET is executed, it returns the rows that have the values it
\* names: the choice by the number of key columns never drops a condition of a GET
\* that has one of the documented forms.  A scan that was cut short returns some of
\* them, and no other row.  Only the read by key of a row that is not there, if NDB does
\* not report it, returns a row that nobody asked for.
GetReturnsMatchingRows ==
    ("rows" \in DOMAIN answer /\ DocumentedGet(answer.keys, answer.values)) =>
        \/ answer.rows = Described(answer)
        \/ ~answer.complete /\ answer.rows \subseteq Described(answer)
        \/ /\ ~answer.complete /\ Described(answer) = {}
           /\ DOMAIN answer.keys = table.primaryKey

\* External: the bytes of the length in front of a VARCHAR, and the NDB type it gets.
LengthBytesOf(length) == IF length > 255 THEN 2 ELSE 1

\* Column.proto: the types are "mapped to values of NDB type enum", VARCHAR to 23
\* and VARBINARY to 24, the NDB types with two length bytes; ColumnsValueBuilder
\* sends two.
VarCharsAreLong ==
    Exists => \A c \in Columns :
        declared[c].type = "VARCHAR" => LengthBytesOf(table.length[c]) = 2
=============================================================================
