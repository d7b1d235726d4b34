-------------------------- MODULE MCStoreOperations --------------------------
(* The Orders store of the README, declared in different ways.             *)
EXTENDS StoreOperations

MCColumns == {"order_id", "user_id", "price"}

Info(type, length, primary, distribution) ==
    [type |-> type, has_length |-> length # noLength, length |-> length,
     primary_key |-> primary, distribution_key |-> distribution]

Orders(order, user, price) ==
    [c \in MCColumns |-> CASE c = "order_id" -> order
                           [] c = "user_id" -> user
                           [] c = "price" -> price]

Key == Info("INT32", noLength, "true", "absent")
PartitionKey == Info("INT32", noLength, "true", "true")
Plain == Info("INT32", noLength, "absent", "absent")
Refused == Info("INT32", noLength, "false", "absent")
VarChar(length) == Info("VARCHAR", length, "absent", "absent")

\* One, two and three key columns (flags that say no make two of the three), one and
\* two distribution columns; a store without a primary key and one without a
\* distribution key, which are not created.
MCDeclarations ==
    {Orders(Key, PartitionKey, Plain), Orders(PartitionKey, PartitionKey, Plain),
     Orders(Plain, PartitionKey, Plain), Orders(Plain, Plain, Plain),
     Orders(Key, Key, Plain), Orders(Refused, PartitionKey, Refused)}

\* VARCHARs without a length, of length zero and of lengths around the limit.
VarCharDeclarations ==
    {Orders(Key, PartitionKey, VarChar(n)) : n \in {noLength, 0, 254, 255, 256, 300}}
=============================================================================
