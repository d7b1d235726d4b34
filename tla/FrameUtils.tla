----------------------------- MODULE FrameUtils -----------------------------
(***************************************************************************)
(* The kinds of operation a request can carry, and the test that splits    *)
(* them (volodb-common/Frame/FrameUtils.cpp).  A message is abstracted to  *)
(* the FrameItem_Type that FrameUtils::getFrameType reads off its class.   *)
(***************************************************************************)
EXTENDS Naturals, Sequences

\* Every class that getFrameType names; for any other one it answers NONE.
FrameItemType ==
    {"CREATE_DATABASE", "DROP_DATABASE", "CREATE_STORE", "DROP_STORE",
     "SET", "DELETE", "GET", "SERVER_RESPONSE"}

\* isDefinitionFrame: run through MySQL, outside every NDB transaction.
DefinitionType ==
    {"CREATE_DATABASE", "DROP_DATABASE", "CREATE_STORE", "DROP_STORE"}

\* What the executor can turn into an NdbOperation of a transaction.
ManipulationType == {"SET", "DELETE", "GET"}

\* The operations whose effect outlives them.
WriteType == {"SET", "DELETE"} \cup DefinitionType

\* FrameMessagesTuple: the identifier its replies carry, the transport identity of
\* the client, and the operations.
FrameMessagesTuple == [id : STRING, identity : STRING, ops : Seq(FrameItemType)]

\* The places in ops, the operations of one request, of operations of a kind.
IndexesOf(ops, types) == {i \in DOMAIN ops : ops[i] \in types}
=============================================================================
