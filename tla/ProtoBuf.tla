------------------------------ MODULE ProtoBuf ------------------------------
(***************************************************************************)
(* The message classes in volodb-common/ProtoBuf: what SerializeToString   *)
(* writes, what ParseFromString and MergeFrom make of it, and when         *)
(* IsInitialized accepts a message.  The generated files are kept in the   *)
(* repository and hold every field several times over: in the accessors by *)
(* its has-bit, in the switch of the parser by its tag, in the writer by   *)
(* its number, in MergeFrom and in the mask of IsInitialized.  Each class  *)
(* has three tables here, read off the accessors in the header, off the    *)
(* parser, and off the rest of its code; generic operators interpret them. *)
(*                                                                         *)
(* A message maps the names of its fields to the sequence of their values, *)
(* empty when the has-bit is off, and "unknown" to its unknown fields.     *)
(* Bytes are a sequence of tokens, a tag with a value; a nested message is *)
(* a nested sequence.  Enum values are their numbers.  Every call parses   *)
(* a whole message (ZeroMQ hands over no part of one), so the reads inside *)
(* DO_ succeed and no END_GROUP tag occurs.                                *)
(***************************************************************************)
EXTENDS Integers, SequencesExt

\* A case of the switch in MergePartialFromCodedStream: the value replaces the
\* field (ReadString, ReadPrimitive), is merged into it (mutable_f) or added (add_f).
ReadSet(field, type) == [field |-> field, type |-> type, into |-> "set"]
ReadMerge(field, type) == [field |-> field, type |-> type, into |-> "merge"]
ReadAdd(field, type) == [field |-> field, type |-> type, into |-> "add"]

\* A field in SerializeWithCachedSizes, ByteSize and MergeFrom.
One(number, field, type) ==
    [number |-> number, field |-> field, type |-> type, repeated |-> FALSE]
Many(number, field, type) ==
    [number |-> number, field |-> field, type |-> type, repeated |-> TRUE]

\* A field with has_f, set_f or mutable_f, and clear_f, with its bit in _has_bits_, and
\* one with add_f.
Has(bit, field, type) ==
    [field |-> field, type |-> type, repeated |-> FALSE, bit |-> bit]
Adds(field, type) == [field |-> field, type |-> type, repeated |-> TRUE]

-----------------------------------------------------------------------------
\* Column.pb.h, Column.pb.cc
ColumnAccessors ==
    {Has(0, "name", "string"), Has(1, "type", "Column_Type"),
     Has(2, "primary_key", "bool"), Has(3, "distribution_key", "bool")}
ColumnCases ==
    10 :> ReadSet("name", "string") @@ 16 :> ReadSet("type", "Column_Type")
    @@ 24 :> ReadSet("primary_key", "bool") @@ 32 :> ReadSet("distribution_key", "bool")
ColumnFields == [mask |-> {0}, fields |->
    << One(1, "name", "string"), One(2, "type", "Column_Type"),
       One(3, "primary_key", "bool"), One(4, "distribution_key", "bool") >>]

ColumnInfoAccessors ==
    {Has(0, "name", "string"), Has(1, "type", "Column_Type"),
     Has(2, "primary_key", "bool"), Has(3, "distribution_key", "bool"),
     Has(4, "length", "int32")}

\* Mutant: the parser was generated before length moved from 5 to 6.
ColumnInfoCases_OldLength ==
    10 :> ReadSet("name", "string") @@ 16 :> ReadSet("type", "Column_Type")
    @@ 24 :> ReadSet("primary_key", "bool") @@ 32 :> ReadSet("distribution_key", "bool")
    @@ 40 :> ReadSet("length", "int32")

ColumnInfoCases ==
    10 :> ReadSet("name", "string") @@ 16 :> ReadSet("type", "Column_Type")
    @@ 24 :> ReadSet("primary_key", "bool") @@ 32 :> ReadSet("distribution_key", "bool")
    @@ 48 :> ReadSet("length", "int32")

\* Mutant: the mask of IsInitialized misses the bit of type.
ColumnInfoFields_OptionalType == [mask |-> {0}, fields |->
    << One(1, "name", "string"), One(2, "type", "Column_Type"),
       One(3, "primary_key", "bool"), One(4, "distribution_key", "bool"),
       One(6, "length", "int32") >>]

ColumnInfoFields == [mask |-> {0, 1}, fields |->
    << One(1, "name", "string"), One(2, "type", "Column_Type"),
       One(3, "primary_key", "bool"), One(4, "distribution_key", "bool"),
       One(6, "length", "int32") >>]

ColumnValueAccessors ==
    {Has(0, "name", "string"), Has(1, "type", "Column_Type"),
     Has(2, "primary_key", "bool"), Has(3, "distribution_key", "bool"),
     Has(4, "value", "bytes")}
ColumnValueCases ==
    10 :> ReadSet("name", "string") @@ 16 :> ReadSet("type", "Column_Type")
    @@ 24 :> ReadSet("primary_key", "bool") @@ 32 :> ReadSet("distribution_key", "bool")
    @@ 42 :> ReadSet("value", "bytes")
ColumnValueFields == [mask |-> {0, 4}, fields |->
    << One(1, "name", "string"), One(2, "type", "Column_Type"),
       One(3, "primary_key", "bool"), One(4, "distribution_key", "bool"),
       One(5, "value", "bytes") >>]

\* Operation.pb.h, Operation.pb.cc
StoreInfoAccessors == {Has(0, "store_name", "string")}
StoreInfoCases == 18 :> ReadSet("store_name", "string")
StoreInfoFields == [mask |-> {0}, fields |->
    << One(2, "store_name", "string") >>]

OperationAccessors == {Adds("store_info", "StoreInfo")}
OperationCases == 10 :> ReadAdd("store_info", "StoreInfo")
OperationFields == [mask |-> {}, fields |->
    << Many(1, "store_info", "StoreInfo") >>]

\* DefinitionOperation.pb.h, DefinitionOperation.pb.cc
DefinitionOpertionAccessors == {Has(0, "store_info", "StoreInfo")}
DefinitionOpertionCases == 10 :> ReadMerge("store_info", "StoreInfo")
DefinitionOpertionFields == [mask |-> {0}, fields |->
    << One(1, "store_info", "StoreInfo") >>]

CreateDatabaseOperationAccessors == {Has(0, "database_name", "string")}
CreateDatabaseOperationCases == 10 :> ReadSet("database_name", "string")
CreateDatabaseOperationFields == [mask |-> {0}, fields |->
    << One(1, "database_name", "string") >>]

DropDatabaseOperationAccessors == {Has(0, "database_name", "string")}
DropDatabaseOperationCases == 10 :> ReadSet("database_name", "string")
DropDatabaseOperationFields == [mask |-> {0}, fields |->
    << One(1, "database_name", "string") >>]

CreateStoreOperationAccessors ==
    {Has(0, "store_info", "StoreInfo"), Adds("column", "ColumnInfo")}
CreateStoreOperationCases ==
    10 :> ReadMerge("store_info", "StoreInfo") @@ 18 :> ReadAdd("column", "ColumnInfo")
CreateStoreOperationFields == [mask |-> {0}, fields |->
    << One(1, "store_info", "StoreInfo"), Many(2, "column", "ColumnInfo") >>]

DropStoreOperationAccessors == {Has(0, "store_info", "StoreInfo")}
DropStoreOperationCases == 10 :> ReadMerge("store_info", "StoreInfo")
DropStoreOperationFields == [mask |-> {0}, fields |->
    << One(1, "store_info", "StoreInfo") >>]

\* ManipulationOperations.pb.h, ManipulationOperations.pb.cc
ManipulationOperationAccessors ==
    {Adds("store_info", "StoreInfo"), Adds("primary_key", "ColumnValue")}
ManipulationOperationCases ==
    10 :> ReadAdd("store_info", "StoreInfo")
    @@ 18 :> ReadAdd("primary_key", "ColumnValue")
ManipulationOperationFields == [mask |-> {}, fields |->
    << Many(1, "store_info", "StoreInfo"), Many(2, "primary_key", "ColumnValue") >>]

SetOperationAccessors ==
    {Adds("store_info", "StoreInfo"), Adds("primary_key", "ColumnValue"),
     Adds("value", "ColumnValue")}
SetOperationCases ==
    10 :> ReadAdd("store_info", "StoreInfo")
    @@ 18 :> ReadAdd("primary_key", "ColumnValue")
    @@ 26 :> ReadAdd("value", "ColumnValue")
SetOperationFields == [mask |-> {}, fields |->
    << Many(1, "store_info", "StoreInfo"), Many(2, "primary_key", "ColumnValue"),
       Many(3, "value", "ColumnValue") >>]

DeleteOperationAccessors ==
    {Adds("store_info", "StoreInfo"), Adds("primary_key", "ColumnValue")}
DeleteOperationCases ==
    10 :> ReadAdd("store_info", "StoreInfo")
    @@ 18 :> ReadAdd("primary_key", "ColumnValue")
DeleteOperationFields == [mask |-> {}, fields |->
    << Many(1, "store_info", "StoreInfo"), Many(2, "primary_key", "ColumnValue") >>]

GetOperationAccessors ==
    {Adds("store_info", "StoreInfo"), Adds("primary_key", "ColumnValue"),
     Adds("value", "ColumnValue")}
GetOperationCases ==
    10 :> ReadAdd("store_info", "StoreInfo")
    @@ 18 :> ReadAdd("primary_key", "ColumnValue")
    @@ 26 :> ReadAdd("value", "ColumnValue")
GetOperationFields == [mask |-> {}, fields |->
    << Many(1, "store_info", "StoreInfo"), Many(2, "primary_key", "ColumnValue"),
       Many(3, "value", "ColumnValue") >>]

\* Result.pb.h, Result.pb.cc
RowAccessors == {Adds("column", "ColumnValue")}
RowCases == 10 :> ReadAdd("column", "ColumnValue")
RowFields == [mask |-> {}, fields |->
    << Many(1, "column", "ColumnValue") >>]

OperationResultAccessors == {Adds("row", "Row"), Has(1, "type", "FrameItem_Type")}
OperationResultCases ==
    10 :> ReadAdd("row", "Row") @@ 16 :> ReadSet("type", "FrameItem_Type")
OperationResultFields == [mask |-> {1}, fields |->
    << Many(1, "row", "Row"), One(2, "type", "FrameItem_Type") >>]

ResultAccessors ==
    {Has(0, "transaction_identifier", "string"), Adds("result", "OperationResult"),
     Has(2, "error_code", "int32"), Has(3, "error_description", "string")}
ResultCases ==
    10 :> ReadSet("transaction_identifier", "string")
    @@ 18 :> ReadAdd("result", "OperationResult")
    @@ 24 :> ReadSet("error_code", "int32")
    @@ 34 :> ReadSet("error_description", "string")
ResultFields == [mask |-> {0}, fields |->
    << One(1, "transaction_identifier", "string"), Many(2, "result", "OperationResult"),
       One(3, "error_code", "int32"), One(4, "error_description", "string") >>]

\* Frame.pb.h, Frame.pb.cc
FrameItemAccessors ==
    {Has(0, "type", "FrameItem_Type"), Has(1, "data", "bytes"),
     Has(2, "identifier", "string")}
FrameItemCases ==
    8 :> ReadSet("type", "FrameItem_Type") @@ 18 :> ReadSet("data", "bytes")
    @@ 26 :> ReadSet("identifier", "string")
FrameItemFields == [mask |-> {0, 1}, fields |->
    << One(1, "type", "FrameItem_Type"), One(2, "data", "bytes"),
       One(3, "identifier", "string") >>]

FrameAccessors == {Has(0, "identifier", "string"), Adds("item", "FrameItem")}
FrameCases ==
    10 :> ReadSet("identifier", "string") @@ 18 :> ReadAdd("item", "FrameItem")
FrameFields == [mask |-> {}, fields |->
    << One(1, "identifier", "string"), Many(2, "item", "FrameItem") >>]

-----------------------------------------------------------------------------
Accessors == [
    Column |-> ColumnAccessors, ColumnInfo |-> ColumnInfoAccessors,
    ColumnValue |-> ColumnValueAccessors,
    StoreInfo |-> StoreInfoAccessors, Operation |-> OperationAccessors,
    DefinitionOpertion |-> DefinitionOpertionAccessors,
    CreateDatabaseOperation |-> CreateDatabaseOperationAccessors,
    DropDatabaseOperation |-> DropDatabaseOperationAccessors,
    CreateStoreOperation |-> CreateStoreOperationAccessors,
    DropStoreOperation |-> DropStoreOperationAccessors,
    ManipulationOperation |-> ManipulationOperationAccessors,
    SetOperation |-> SetOperationAccessors,
    DeleteOperation |-> DeleteOperationAccessors, GetOperation |-> GetOperationAccessors,
    Row |-> RowAccessors, OperationResult |-> OperationResultAccessors,
    Result |-> ResultAccessors,
    FrameItem |-> FrameItemAccessors, Frame |-> FrameAccessors]

Cases == [
    Column |-> ColumnCases, ColumnInfo |-> ColumnInfoCases,
    ColumnValue |-> ColumnValueCases,
    StoreInfo |-> StoreInfoCases, Operation |-> OperationCases,
    DefinitionOpertion |-> DefinitionOpertionCases,
    CreateDatabaseOperation |-> CreateDatabaseOperationCases,
    DropDatabaseOperation |-> DropDatabaseOperationCases,
    CreateStoreOperation |-> CreateStoreOperationCases,
    DropStoreOperation |-> DropStoreOperationCases,
    ManipulationOperation |-> ManipulationOperationCases,
    SetOperation |-> SetOperationCases,
    DeleteOperation |-> DeleteOperationCases, GetOperation |-> GetOperationCases,
    Row |-> RowCases, OperationResult |-> OperationResultCases, Result |-> ResultCases,
    FrameItem |-> FrameItemCases, Frame |-> FrameCases]

Fields == [
    Column |-> ColumnFields, ColumnInfo |-> ColumnInfoFields,
    ColumnValue |-> ColumnValueFields,
    StoreInfo |-> StoreInfoFields, Operation |-> OperationFields,
    DefinitionOpertion |-> DefinitionOpertionFields,
    CreateDatabaseOperation |-> CreateDatabaseOperationFields,
    DropDatabaseOperation |-> DropDatabaseOperationFields,
    CreateStoreOperation |-> CreateStoreOperationFields,
    DropStoreOperation |-> DropStoreOperationFields,
    ManipulationOperation |-> ManipulationOperationFields,
    SetOperation |-> SetOperationFields,
    DeleteOperation |-> DeleteOperationFields, GetOperation |-> GetOperationFields,
    Row |-> RowFields, OperationResult |-> OperationResultFields, Result |-> ResultFields,
    FrameItem |-> FrameItemFields, Frame |-> FrameFields]

MessageType == DOMAIN Accessors

\* Column_Type_IsValid and FrameItem_Type_IsValid.
ColumnTypes == {1, 7, 8, 9, 10, 11, 12, 14, 23, 24}
FrameItemTypes == 1 .. 9
Enums == [Column_Type |-> ColumnTypes, FrameItem_Type |-> FrameItemTypes]

FieldNames(class) == {a.field : a \in Accessors[class]}

-----------------------------------------------------------------------------
\* Clear, and what the constructors leave.
Empty(class) == [f \in FieldNames(class) \cup {"unknown"} |-> <<>>]

\* set_f and mutable_f, which turn the has-bit on; add_f; clear_f.
SetField(message, field, v) == [message EXCEPT ![field] = <<v>>]
AddField(message, field, v) == [message EXCEPT ![field] = Append(@, v)]
ClearField(message, field) == [message EXCEPT ![field] = <<>>]

\* External: a varint (wire type 0) for numbers, a length and bytes (2) for the rest.
WireType(type) == IF type \in {"bool", "int32"} \cup DOMAIN Enums THEN 0 ELSE 2
MakeTag(number, type) == 8 * number + WireType(type)

RECURSIVE SerializeWithCachedSizes(_, _)

\* The value of a field as the Write functions put it on the wire.
WireValue(type, v) ==
    IF type \in MessageType THEN SerializeWithCachedSizes(type, v)
    ELSE IF type = "bool" THEN (IF v THEN 1 ELSE 0)
    ELSE v

\* Every value that is set, in the order of the class, then the unknown fields.
SerializeWithCachedSizes(class, message) ==
    LET tokens(d) == [i \in DOMAIN message[d.field] |->
                        [tag |-> MakeTag(d.number, d.type),
                         value |-> WireValue(d.type, message[d.field][i])]]
        fields == Fields[class].fields
    IN  FlattenSeq([n \in DOMAIN fields |-> tokens(fields[n])])
            \o message["unknown"]

RECURSIVE MergePartialFromCodedStream(_, _, _)

\* The target of ReadMessage: the value the field has, or a new message.
Target(class, values) == IF values = <<>> THEN Empty(class) ELSE values[1]

\* One round of the loop.  A tag without a case, so also a known number with another
\* wire type, and an enum value that is not valid go to the unknown fields.
ReadToken(class, message, token) ==
    LET known == token.tag \in DOMAIN Cases[class]
        c == Cases[class][token.tag]
        valid == c.type \in DOMAIN Enums => token.value \in Enums[c.type]
    IN  IF ~known \/ ~valid
          THEN [message EXCEPT !["unknown"] = Append(@, token)]
          ELSE CASE c.into = "add" ->
                      AddField(message, c.field,
                          MergePartialFromCodedStream(c.type, Empty(c.type), token.value))
                 [] c.into = "merge" ->
                      SetField(message, c.field,
                          MergePartialFromCodedStream(c.type,
                              Target(c.type, message[c.field]), token.value))
                 [] c.into = "set" ->
                      SetField(message, c.field,
                          IF c.type = "bool" THEN token.value # 0 ELSE token.value)

MergePartialFromCodedStream(class, message, tokens) ==
    FoldLeft(LAMBDA m, token : ReadToken(class, m, token), message, tokens)

\* _has_bits_
HasBits(class, message) ==
    {a.bit : a \in {a \in Accessors[class] : ~a.repeated /\ message[a.field] # <<>>}}

RECURSIVE IsInitialized(_, _)

\* The mask of required fields, and the nested messages.
IsInitialized(class, message) ==
    /\ Fields[class].mask \subseteq HasBits(class, message)
    /\ \A d \in Range(Fields[class].fields) :
          d.type \in MessageType =>
              \A i \in DOMAIN message[d.field] : IsInitialized(d.type, message[d.field][i])

\* Mutant: repeated fields are assigned like the others.
MergeFrom_Assign(class, message, from) ==
    [f \in DOMAIN message |-> IF from[f] = <<>> THEN message[f] ELSE from[f]]

RECURSIVE MergeFrom(_, _, _)

\* Repeated fields are appended, nested messages merged, other fields overwritten.
MergeFrom(class, message, from) ==
    LET merged(d) ==
          IF d.repeated THEN message[d.field] \o from[d.field]
          ELSE IF from[d.field] = <<>> THEN message[d.field]
          ELSE IF d.type \notin MessageType THEN from[d.field]
          ELSE << MergeFrom(d.type, Target(d.type, message[d.field]), from[d.field][1]) >>
    IN  [f \in DOMAIN message |->
            IF f = "unknown" THEN message[f] \o from[f]
            ELSE merged(CHOOSE d \in Range(Fields[class].fields) : d.field = f)]

\* CopyFrom and the copy constructor.
CopyFrom(class, from) == MergeFrom(class, Empty(class), from)
=============================================================================
