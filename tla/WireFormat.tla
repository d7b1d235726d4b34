----------------------------- MODULE WireFormat -----------------------------
(***************************************************************************)
(* A message on its way between two programs: one side builds it with the  *)
(* accessors of its class or with ColumnsValueBuilder and serializes it,   *)
(* the other parses the bytes and reads column values with                 *)
(* ColumnsValueDecoder.  Composes ProtoBuf and ColumnsValue.               *)
(*                                                                         *)
(* The writer may be of a later version of the schema than the reader,     *)
(* which shows as an enum value (Later) that the reader does not know.     *)
(***************************************************************************)
EXTENDS ProtoBuf, ColumnsValue

CONSTANTS
    Values,       \* the values a client adds, as sequences of bytes
    CharSize,     \* the width of the CHAR columns
    MaxElements   \* bound: the elements in the repeated fields of a message

ASSUME BoundAssumption ==
    /\ \A v \in Values : Range(v) \subseteq Byte
    /\ CharSize \in Nat /\ MaxElements \in Nat

VARIABLES
    class,      \* the class of the message
    mine,       \* the message of the writer
    value,      \* the value ColumnsValueBuilder put into it, or NoValue
    theirs,     \* the object of the reader, whatever it held before
    accepted    \* what the last ParseFromString returned

vars == <<class, mine, value, theirs, accepted>>

-----------------------------------------------------------------------------
Later == 99

RECURSIVE Sample(_)

\* A message of a class with every field set, once.
Sample(type) ==
    CASE type \in MessageType ->
           [f \in DOMAIN Empty(type) |->
               IF f = "unknown" THEN <<>>
               ELSE << Sample((CHOOSE d \in Accessors[type] : d.field = f).type) >>]
      [] type \in DOMAIN Enums -> 7
      [] type = "bool" -> TRUE
      [] type = "int32" -> 0
      [] type = "bytes" -> <<>>
      [] type = "string" -> "s"

\* The values a field is given.
Inputs(type) ==
    CASE type \in MessageType -> {Empty(type), Sample(type)}
      [] type \in DOMAIN Enums -> {1, 7, Later}
      [] OTHER -> {Sample(type)}

\* Nothing has been built; Base is no byte.
NoValue == <<Base>>

Elements(message) ==
    SumFunction([f \in {d.field : d \in {e \in Accessors[class] : e.repeated}} |->
                    Len(message[f])])

Init ==
    /\ class \in MessageType
    /\ mine = Empty(class)
    /\ value = NoValue
    /\ theirs = Empty(class)
    /\ accepted = FALSE

-----------------------------------------------------------------------------
\* The program writes a field of its message; what ColumnsValueBuilder has built is
\* only passed on.
WriteField(d, v) ==
    /\ value = NoValue
    /\ mine' = IF d.repeated THEN AddField(mine, d.field, v)
               ELSE SetField(mine, d.field, v)
    /\ Elements(mine') <= MaxElements
    /\ UNCHANGED <<class, value, theirs, accepted>>

EraseField(d) ==
    /\ value = NoValue
    /\ mine' = ClearField(mine, d.field)
    /\ UNCHANGED <<class, value, theirs, accepted>>

\* _addColumnInternal: a new ColumnValue with all its fields set.
AddColumnInternal(type, bytes) ==
    /\ class = "ColumnValue" /\ mine = Empty(class)
    /\ mine' = [name |-> <<"s">>, type |-> <<type>>, primary_key |-> <<FALSE>>,
                distribution_key |-> <<FALSE>>, value |-> <<bytes>>, unknown |-> <<>>]
    /\ UNCHANGED <<class, theirs, accepted>>

\* addVarCharColumn (23) and addVarBinaryColumn (24).
AddVarCharColumn(v) ==
    /\ value' = v
    /\ \E junk \in Beyond(v) : AddColumnInternal(23, PrependLength(v) \o junk)

\* addCharColumn (14): the value ends at its first zero, and must fit.
AddCharColumn(v, size) ==
    /\ 0 \notin Range(v) /\ Len(v) <= size
    /\ value' = v
    /\ AddColumnInternal(14, PadChar(v, size))

\* SerializeToString there and ParseFromString here, which clears the object first.
ParseFromString ==
    /\ theirs' = MergePartialFromCodedStream(class, Empty(class),
                    SerializeWithCachedSizes(class, mine))
    /\ accepted' = IsInitialized(class, theirs')
    /\ UNCHANGED <<class, mine, value>>

RECURSIVE KnownHere(_, _)

\* The enum values in a message are all of this version.
KnownHere(type, message) ==
    \A d \in Accessors[type] : \A i \in DOMAIN message[d.field] :
        /\ d.type \in DOMAIN Enums => message[d.field][i] \in Enums[d.type]
        /\ d.type \in MessageType => KnownHere(d.type, message[d.field][i])

\* Inside one program: a message is copied (into an operation, out of a frame) or
\* merged into another of its class.
CopyMessage ==
    /\ KnownHere(class, mine)
    /\ theirs' = CopyFrom(class, mine)
    /\ UNCHANGED <<class, mine, value, accepted>>

MergeMessage ==
    /\ KnownHere(class, mine)
    /\ theirs' = MergeFrom(class, theirs, mine)
    /\ Elements(theirs') <= MaxElements
    /\ Len(theirs'["unknown"]) <= MaxElements
    /\ UNCHANGED <<class, mine, value, accepted>>

Next ==
    \/ \E d \in Accessors[class] :
          EraseField(d) \/ \E v \in Inputs(d.type) : WriteField(d, v)
    \/ \E v \in Values : AddVarCharColumn(v)
    \/ \E v \in Values : AddCharColumn(v, CharSize)
    \/ ParseFromString \/ CopyMessage \/ MergeMessage

Spec == Init /\ [][Next]_vars

-----------------------------------------------------------------------------
\* What a program of the same version sends arrives as it was, nested messages and
\* repeated fields in order, whatever the receiving object held before.
ParseRestores ==
    [][ParseFromString /\ KnownHere(class, mine) => theirs' = mine]_vars

\* Bytes behind bytes mean what MergeFrom does: parsing a message into an object that
\* is in use merges the two.
MergeAgreesWithParse ==
    [][MergeMessage => theirs' = MergePartialFromCodedStream(class, theirs,
                                    SerializeWithCachedSizes(class, mine))]_vars

\* The fields the .proto files declare required.
RequiredFields == [
    Column |-> {"name"}, ColumnInfo |-> {"name", "type"}, ColumnValue |-> {"name", "value"},
    StoreInfo |-> {"store_name"}, Operation |-> {},
    DefinitionOpertion |-> {"store_info"}, CreateDatabaseOperation |-> {"database_name"},
    DropDatabaseOperation |-> {"database_name"}, CreateStoreOperation |-> {"store_info"},
    DropStoreOperation |-> {"store_info"}, ManipulationOperation |-> {},
    SetOperation |-> {},
    DeleteOperation |-> {}, GetOperation |-> {}, Row |-> {}, OperationResult |-> {"type"},
    Result |-> {"transaction_identifier"}, FrameItem |-> {"type", "data"}, Frame |-> {}]

RECURSIVE Complete(_, _)

\* Every required field, in the nested messages too, has a value this version knows.
Complete(type, message) ==
    \A d \in Accessors[type] :
        /\ d.field \in RequiredFields[type] =>
              /\ message[d.field] # <<>>
              /\ d.type \in DOMAIN Enums => message[d.field][1] \in Enums[d.type]
        /\ d.type \in MessageType =>
              \A i \in DOMAIN message[d.field] : Complete(d.type, message[d.field][i])

\* ParseFromString, by which FrameDecoder decides whether to pass over an item,
\* accepts a message exactly when it is complete: an unknown value in an optional
\* field is survived, one in a required field is as if the field were missing.
AcceptedIffComplete ==
    [][ParseFromString => accepted' = Complete(class, mine)]_vars

\* A value whose length fits in the two length bytes is read back unchanged but for
\* one zero byte after it, whatever its length, and a CHAR with blanks after it.
PayloadIntact ==
    [][ParseFromString /\ value # NoValue /\ Len(value) < Base * Base =>
        LET bytes == theirs'["value"][1]
        IN  IF theirs'["type"] = <<14>>
              THEN GetChar(bytes) = PadChar(value, Len(bytes))
              ELSE GetVarChar(bytes) = Append(value, 0)]_vars
=============================================================================
