---------------------------- MODULE FrameDecoder ----------------------------
(***************************************************************************)
(* The wire format of requests: how the client library frames operations   *)
(* (Executor::execute, FrameBuilder) and what FrameDecoder makes of them.  *)
(*                                                                         *)
(* A Frame is atomic when it has an identifier of its own; then its items  *)
(* are one request.  Otherwise every item carries an identifier and is a   *)
(* request by itself.  The bytes of an item are abstracted to its type and *)
(* to whether ParseFromString accepts them (all required fields are set);  *)
(* so are those of a frame, which this client library always makes such    *)
(* that ParseFromArray does, and a later one may not.                      *)
(***************************************************************************)
EXTENDS FrameUtils, SequencesExt

\* An operation as the application hands it over.
Operation == [type : FrameItemType, parses : BOOLEAN]

\* FrameBuilder::FrameBuilder: a frame has an identifier when it is atomic.
NewFrame(isAtomic, uuid) ==
    [parses |-> TRUE, atomic |-> isAtomic,
     identifier |-> IF isAtomic THEN uuid ELSE "", items |-> <<>>]

\* FrameBuilder::addFrame: the items of a frame without an identifier get their own.
AddFrame(frame, operation, uuid) ==
    [frame EXCEPT !.items = Append(@,
        [type |-> operation.type, parses |-> operation.parses,
         identifier |-> IF frame.atomic THEN "" ELSE uuid])]

\* Executor::execute(operations, uuids, runAtomic): the first uuid names the frame, or
\* each its item.
Framed(operations, uuids, runAtomic) ==
    FoldLeft(LAMBDA frame, i : AddFrame(frame, operations[i],
                                        IF runAtomic THEN "" ELSE uuids[i]),
             NewFrame(runAtomic, uuids[1]),
             [i \in DOMAIN operations |-> i])

\* decode knows these classes; no branch creates a database operation.
DecodedType == {"CREATE_STORE", "DROP_STORE", "SERVER_RESPONSE", "SET", "DELETE", "GET"}

\* parseResult at the end of the branches: the other items are passed over.
ParseResult(item) == item.type \in DecodedType /\ item.parses

TypesOf(items) == [i \in DOMAIN items |-> items[i].type]

\* FrameDecoder::decode(message, identifier).  A frame that does not parse yields no
\* request; an item that is passed over leaves an empty one when the frame is not atomic.
Decode(frame, identity) ==
    CASE ~frame.parses -> << >>
      [] frame.parses /\ frame.atomic ->
           << [id |-> frame.identifier, identity |-> identity,
               ops |-> TypesOf(SelectSeq(frame.items, ParseResult))] >>
      [] frame.parses /\ ~frame.atomic ->
           [i \in DOMAIN frame.items |->
              LET item == frame.items[i]
              IN  [id |-> IF ParseResult(item) THEN item.identifier ELSE "",
                   identity |-> identity,
                   ops |-> IF ParseResult(item) THEN <<item.type>> ELSE <<>>]]

\* Mutant: every frame of a drain is given the identity of the first.
DecodeAll_FirstIdentity(messages) ==
    FlattenSeq([i \in DOMAIN messages |->
                   Decode(messages[i].frame, messages[1].identity)])

\* FrameDecoder::decode(messages, true): identity and frame alternate.
DecodeAll(messages) ==
    FlattenSeq([i \in DOMAIN messages |->
                   Decode(messages[i].frame, messages[i].identity)])
=============================================================================
