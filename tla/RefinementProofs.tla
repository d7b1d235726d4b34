-------------------------- MODULE RefinementProofs --------------------------
(***************************************************************************)
(* An executor thread implements TransactionService: every step of         *)
(* NDBMessageExecutor is a step of the service, or leaves it alone.        *)
(***************************************************************************)
EXTENDS NDBMessageExecutorProofs

Said(l, t, i) ==
    \E n \in DOMAIN sent : sent[n].list = l /\ sent[n].tuple = t /\ sent[n].op = i

Refused(l, t) ==
    \E n \in DOMAIN sent :
        sent[n].list = l /\ sent[n].tuple = t /\ sent[n].op = 0 /\ sent[n].status = "error"

KnownType == DefinitionType \cup ManipulationType

\* Every definition operation of the request is answered.
Defined(l, t) == \A i \in IndexesOf(OpsOf(l, t), DefinitionType) : Said(l, t, i)

\* An open transaction has operations, and no operation of an unknown type came
\* before it or with it.
KnownInv ==
    /\ transaction = "open" => transactionOperations # {}
    /\ pc = "operations" =>
          \A i \in DOMAIN CurrentOps : i < opNo => CurrentOps[i] \in KnownType
    /\ pc = "prepare" /\ transaction = "open" =>
          \A i \in DOMAIN CurrentOps : CurrentOps[i] \in KnownType
    /\ \A s \in prepared :
          /\ s.list \in 1 .. Len(messages) /\ s.tuple \in 1 .. Len(messages[s.list])
          /\ s.operations # {}
          /\ \A i \in DOMAIN OpsOf(s.list, s.tuple) :
                OpsOf(s.list, s.tuple)[i] \in KnownType

\* The definition operations of a request the thread has left are answered, unless the
\* request was refused.
DefinedInv ==
    /\ \A l \in 1 .. Len(messages) : \A t \in 1 .. Len(messages[l]) :
          Past([list |-> l, tuple |-> t]) => Refused(l, t) \/ Defined(l, t)
    /\ pc = "operations" =>
          \A i \in IndexesOf(CurrentOps, DefinitionType) :
             i < opNo => Said(listNo, tupleNo, i)
    /\ pc = "prepare" => Refused(listNo, tupleNo) \/ Defined(listNo, tupleNo)

\* The last wait begins at the end of the batch.
DrainInv ==
    pc = "drain" =>
        /\ listNo = Len(messages)
        /\ listNo > 0 => tupleNo = Len(messages[listNo])
-----------------------------------------------------------------------------
\* The service as the refinement mapping shows it while a batch is executed.
LEMMA ServiceView ==
    ASSUME pc # "idle"
    PROVE  /\ Service!Slots(threadNo) = Slots
           /\ \A slot : Service!OpsOf(threadNo, slot) = OpsOf(slot[1], slot[2])
           /\ \A slot, i : Service!Answered(threadNo, slot, i) = Said(slot[1], slot[2], i)
           /\ \A slot : Service!Refused(threadNo, slot) = Refused(slot[1], slot[2])
<1>1. Service!Slots(threadNo) = Slots
      BY DEF Service!Slots, Slots
<1>2. \A slot : Service!OpsOf(threadNo, slot) = OpsOf(slot[1], slot[2])
      BY DEF Service!OpsOf, OpsOf
<1>3. Service!Replies(threadNo) = {sent[n] : n \in DOMAIN sent}
      BY DEF Service!Replies
<1>4. \A slot, i : Service!Answered(threadNo, slot, i) = Said(slot[1], slot[2], i)
      BY <1>3 DEF Service!Answered, Said
<1>5. \A slot : Service!Refused(threadNo, slot) = Refused(slot[1], slot[2])
      BY <1>3 DEF Service!Refused, Refused
<1> QED
      BY <1>1, <1>2, <1>4, <1>5

\* A step that only moves the thread leaves the service alone.
LEMMA Stutter ==
    ASSUME pc # "idle", pc' # "idle", UNCHANGED <<messages, sent, effects>>
    PROVE  UNCHANGED Service!serviceVars
BY DEF Service!serviceVars

\* A new batch is accepted.
LEMMA ServiceAccepts ==
    ASSUME pc = "idle", pc' # "idle", sent' = <<>>, effects' = {}
    PROVE  Service!ServiceNext
<1>1. Service!Accept(threadNo, [e \in {threadNo} |-> messages'][threadNo])
      BY DEF Service!Accept
<1> QED
      BY <1>1 DEF Service!ServiceNext

\* A reply and an effect, in the variables of the service.
LEMMA ServiceReply ==
    ASSUME pc # "idle", pc' # "idle", UNCHANGED messages,
           NEW l, NEW t, NEW i, NEW status, NEW results,
           ReplyWithResult(l, t, i, status, results)
    PROVE  /\ Service!ReplyWith(threadNo, Service!Reply(<<l, t>>, i, status, results))
           /\ UNCHANGED [e \in {threadNo} |-> pc # "idle"]
           /\ UNCHANGED [e \in {threadNo} |-> IF pc = "idle" THEN <<>> ELSE messages]
BY DEF ReplyWithResult, Service!ReplyWith, Service!Reply

LEMMA ServiceEffects ==
    ASSUME pc # "idle", pc' # "idle", NEW more, effects' = effects \cup more
    PROVE  [e \in {threadNo} |-> IF pc = "idle" THEN {} ELSE effects]' =
              [[e \in {threadNo} |-> IF pc = "idle" THEN {} ELSE effects] EXCEPT
                  ![threadNo] = @ \cup more]
OBVIOUS

LEMMA ServiceSameEffects ==
    ASSUME pc # "idle", pc' # "idle", UNCHANGED effects
    PROVE  UNCHANGED [e \in {threadNo} |-> IF pc = "idle" THEN {} ELSE effects]
OBVIOUS

\* A definition operation of a request of the batch that was not answered is.
LEMMA ServiceDefines ==
    ASSUME pc # "idle", pc' # "idle", UNCHANGED messages,
           NEW l, NEW t, <<l, t>> \in Slots,
           NEW i \in IndexesOf(OpsOf(l, t), DefinitionType), ~Said(l, t, i),
           \/ /\ ReplyWithResult(l, t, i, "ok", {})
              /\ effects' = effects \cup {<<l, t, i>>}
           \/ ReplyWithResult(l, t, i, "error", {}) /\ UNCHANGED effects
    PROVE  Service!ServiceNext
<1>1. Service!Define(threadNo, <<l, t>>, i)
  <2>1. ~Service!Answered(threadNo, <<l, t>>, i)
        BY ServiceView
  <2>2. CASE ReplyWithResult(l, t, i, "ok", {}) /\ effects' = effects \cup {<<l, t, i>>}
        BY <2>1, <2>2, ServiceReply, ServiceEffects DEF Service!Define
  <2>3. CASE ReplyWithResult(l, t, i, "error", {}) /\ UNCHANGED effects
        BY <2>1, <2>3, ServiceReply, ServiceSameEffects DEF Service!Define
  <2> QED
        BY <2>2, <2>3
<1>2. <<l, t>> \in Service!Slots(threadNo)
      BY ServiceView
<1>3. i \in IndexesOf(Service!OpsOf(threadNo, <<l, t>>), DefinitionType)
      BY ServiceView
<1>4. Service!Serve(threadNo)
      BY <1>1, <1>2, <1>3 DEF Service!Serve, Service!IndexesOf, Service!DefinitionType,
         IndexesOf, DefinitionType
<1> QED
      BY <1>4 DEF Service!ServiceNext

\* The operations of a transaction, as the service and as the thread see them.
LEMMA TransactionView ==
    ASSUME pc # "idle", NEW l, NEW t
    PROVE  /\ Service!Transactional(threadNo, <<l, t>>) # {} <=> Asks(l, t)
           /\ (\A i \in DOMAIN OpsOf(l, t) : OpsOf(l, t)[i] \in KnownType) =>
                 /\ Service!Transactional(threadNo, <<l, t>>) = Gathered(l, t)
                 /\ Service!Writes(threadNo, <<l, t>>) = Writes(<<l, t>>)
<1>1. Service!OpsOf(threadNo, <<l, t>>) = OpsOf(l, t)
      BY ServiceView
<1>2. Service!Transactional(threadNo, <<l, t>>) =
         {i \in DOMAIN OpsOf(l, t) : OpsOf(l, t)[i] \notin DefinitionType}
      BY <1>1 DEF Service!Transactional, Service!IndexesOf, Service!DefinitionType,
                  IndexesOf, DefinitionType
<1>3. ASSUME \A i \in DOMAIN OpsOf(l, t) : OpsOf(l, t)[i] \in KnownType
      PROVE  /\ Service!Transactional(threadNo, <<l, t>>) = Gathered(l, t)
             /\ Service!Writes(threadNo, <<l, t>>) = Writes(<<l, t>>)
  <2>1. Service!Transactional(threadNo, <<l, t>>) = Gathered(l, t)
        BY <1>2, <1>3 DEF Gathered, IndexesOf, KnownType, DefinitionType, ManipulationType
  <2>2. Gathered(l, t) \cap IndexesOf(OpsOf(l, t), WriteType) =
           IndexesOf(OpsOf(l, t), ManipulationType \cap WriteType)
        BY DEF Gathered, IndexesOf
  <2> QED
        BY <1>1, <2>1, <2>2 DEF Service!Writes, Writes, Service!IndexesOf, IndexesOf,
           Service!WriteType, WriteType, Service!DefinitionType, DefinitionType
<1> QED
      BY <1>2, <1>3 DEF Asks

\* A request that asks for a transaction and has no verdict is refused.
LEMMA ServiceRefuses ==
    ASSUME pc # "idle", pc' # "idle", UNCHANGED <<messages, effects>>,
           NEW l, NEW t, <<l, t>> \in Slots, Asks(l, t), ~Said(l, t, 0),
           ReplyWithResult(l, t, 0, "error", {})
    PROVE  Service!ServiceNext
<1>1. Service!Refuse(threadNo, <<l, t>>)
  <2>1. ~Service!Answered(threadNo, <<l, t>>, 0)
        BY ServiceView
  <2> QED
        BY <2>1, ServiceReply, ServiceSameEffects DEF Service!Refuse
<1>2. /\ <<l, t>> \in Service!Slots(threadNo)
      /\ Service!Transactional(threadNo, <<l, t>>) # {}
      BY ServiceView, TransactionView
<1>3. Service!Serve(threadNo)
      BY <1>1, <1>2 DEF Service!Serve
<1> QED
      BY <1>3 DEF Service!ServiceNext

\* A transaction of operations of known types takes effect, or is confirmed.
LEMMA ServiceCommits ==
    ASSUME pc # "idle", pc' # "idle", UNCHANGED <<messages, sent>>,
           NEW l, NEW t, <<l, t>> \in Slots, Asks(l, t), ~Said(l, t, 0),
           \A i \in DOMAIN OpsOf(l, t) : OpsOf(l, t)[i] \in KnownType,
           effects' = effects \cup Writes(<<l, t>>)
    PROVE  Service!ServiceNext
<1>1. ~Service!Answered(threadNo, <<l, t>>, 0)
      BY ServiceView
<1>2. /\ Service!Transactional(threadNo, <<l, t>>) \subseteq
            Service!IndexesOf(Service!OpsOf(threadNo, <<l, t>>), Service!ManipulationType)
      BY ServiceView, TransactionView DEF Gathered, IndexesOf, Service!IndexesOf,
         ManipulationType, Service!ManipulationType
<1>3. /\ UNCHANGED [e \in {threadNo} |-> pc # "idle"]
      /\ UNCHANGED [e \in {threadNo} |-> IF pc = "idle" THEN <<>> ELSE messages]
      /\ UNCHANGED [e \in {threadNo} |-> IF pc = "idle" THEN <<>> ELSE sent]
      OBVIOUS
<1>4. Service!Writes(threadNo, <<l, t>>) = Writes(<<l, t>>)
      BY TransactionView
<1>5. [e \in {threadNo} |-> IF pc = "idle" THEN {} ELSE effects]' =
         [[e \in {threadNo} |-> IF pc = "idle" THEN {} ELSE effects] EXCEPT
             ![threadNo] = @ \cup Service!Writes(threadNo, <<l, t>>)]
      BY <1>4, ServiceEffects
<1>6. [e \in {threadNo} |-> pc # "idle"][threadNo]
      OBVIOUS
<1>7. Service!Commit(threadNo, <<l, t>>)
      BY <1>1, <1>2, <1>3, <1>5, <1>6 DEF Service!Commit
<1>8. /\ <<l, t>> \in Service!Slots(threadNo)
      /\ Service!Transactional(threadNo, <<l, t>>) # {}
      BY ServiceView, TransactionView
<1>9. Service!Serve(threadNo)
      BY <1>7, <1>8 DEF Service!Serve
<1> QED
      BY <1>9 DEF Service!ServiceNext

LEMMA ServiceConfirms ==
    ASSUME pc # "idle", pc' # "idle", UNCHANGED <<messages, effects>>,
           NEW l, NEW t, <<l, t>> \in Slots, Asks(l, t), ~Said(l, t, 0),
           \A i \in DOMAIN OpsOf(l, t) : OpsOf(l, t)[i] \in KnownType,
           Writes(<<l, t>>) \subseteq effects,
           ReplyWithResult(l, t, 0, "ok", Gathered(l, t))
    PROVE  Service!ServiceNext
<1>1. ~Service!Answered(threadNo, <<l, t>>, 0)
      BY ServiceView
<1>2. /\ Service!Transactional(threadNo, <<l, t>>) \subseteq
            Service!IndexesOf(Service!OpsOf(threadNo, <<l, t>>), Service!ManipulationType)
      BY ServiceView, TransactionView DEF Gathered, IndexesOf, Service!IndexesOf,
         ManipulationType, Service!ManipulationType
<1>3. Service!Writes(threadNo, <<l, t>>) \subseteq
         [e \in {threadNo} |-> IF pc = "idle" THEN {} ELSE effects][threadNo]
      BY TransactionView
<1>4. Service!Transactional(threadNo, <<l, t>>) = Gathered(l, t)
      BY TransactionView
<1>5. Service!Confirm(threadNo, <<l, t>>)
      BY <1>1, <1>2, <1>3, <1>4, ServiceReply, ServiceSameEffects DEF Service!Confirm
<1>6. /\ <<l, t>> \in Service!Slots(threadNo)
      /\ Service!Transactional(threadNo, <<l, t>>) # {}
      BY ServiceView, TransactionView
<1>7. Service!Serve(threadNo)
      BY <1>5, <1>6 DEF Service!Serve
<1> QED
      BY <1>7 DEF Service!ServiceNext

\* The batch is done when every request is settled.
LEMMA ServiceFinishes ==
    ASSUME pc # "idle", pc' = "idle",
           \A l \in DOMAIN messages : \A t \in DOMAIN messages[l] :
              /\ Asks(l, t) => Said(l, t, 0)
              /\ Refused(l, t) \/ Defined(l, t)
    PROVE  Service!ServiceNext
<1>1. ASSUME NEW slot \in Slots
      PROVE  Service!Settled(threadNo, slot)
  <2>1. PICK l \in DOMAIN messages : \E t \in DOMAIN messages[l] : slot = <<l, t>>
        BY DEF Slots
  <2>2. PICK t \in DOMAIN messages[l] : slot = <<l, t>>
        BY <2>1
  <2>3. Service!Transactional(threadNo, slot) # {} => Service!Answered(threadNo, slot, 0)
        BY <2>2, ServiceView, TransactionView
  <2>4. \/ Service!Refused(threadNo, slot)
        \/ \A i \in IndexesOf(OpsOf(l, t), DefinitionType) :
              Service!Answered(threadNo, slot, i)
        BY <2>2, ServiceView DEF Defined
  <2> QED
        BY <2>2, <2>3, <2>4, ServiceView DEF Service!Settled, Service!IndexesOf, IndexesOf,
           Service!DefinitionType, DefinitionType
<1>2. Service!Finish(threadNo)
      BY <1>1, ServiceView DEF Service!Finish
<1> QED
      BY <1>2 DEF Service!ServiceNext
-----------------------------------------------------------------------------
\* A reply, once sent, stays.
LEMMA RepliesStay ==
    ASSUME sent \in Seq(Reply), UNCHANGED messages,
           \/ UNCHANGED sent
           \/ \E l, t, i, status, results : ReplyWithResult(l, t, i, status, results)
    PROVE  /\ \A l, t, i : Said(l, t, i) => Said(l, t, i)'
           /\ \A l, t : Refused(l, t) => Refused(l, t)'
           /\ \A l, t : OpsOf(l, t)' = OpsOf(l, t)
           /\ \A l, t : Defined(l, t) => Defined(l, t)'
<1>1. \A l, t : OpsOf(l, t)' = OpsOf(l, t)
      BY DEF OpsOf
<1>2. \A n \in DOMAIN sent : n \in DOMAIN sent' /\ sent'[n] = sent[n]
  <2>1. CASE UNCHANGED sent
        BY <2>1
  <2>2. ASSUME NEW l, NEW t, NEW i, NEW status, NEW results,
               ReplyWithResult(l, t, i, status, results)
        PROVE  \A n \in DOMAIN sent : n \in DOMAIN sent' /\ sent'[n] = sent[n]
        BY <2>2, ReplyAppended
  <2> QED
        BY <2>1, <2>2
<1>3. /\ \A l, t, i : Said(l, t, i) => Said(l, t, i)'
      /\ \A l, t : Refused(l, t) => Refused(l, t)'
      BY <1>2 DEF Said, Refused
<1>4. \A l, t : Defined(l, t) => Defined(l, t)'
      BY <1>1, <1>3 DEF Defined
<1> QED
      BY <1>1, <1>3, <1>4

\* The place of the thread while it is in a request.
LEMMA InRequest ==
    ASSUME IInv, PlaceInv, pc \in {"operations", "prepare"}
    PROVE  /\ listNo \in 1 .. Len(messages) /\ tupleNo \in 1 .. Len(messages[listNo])
           /\ CurrentOps = OpsOf(listNo, tupleNo)
           /\ DOMAIN CurrentOps = 1 .. Len(CurrentOps) /\ Len(CurrentOps) \in Nat
<1>1. listNo \in 1 .. Len(messages)
      BY DEF PlaceInv, IInv, TypeOK
<1>2. messages[listNo] \in Seq(FrameMessagesTuple)
      BY <1>1 DEF IInv, TypeOK
<1>3. tupleNo \in 1 .. Len(messages[listNo])
      BY <1>2 DEF PlaceInv, IInv, TypeOK
<1> QED
      BY <1>1, <1>3, OpsOfRequest DEF IInv, CurrentOps

LEMMA KnownStep ==
    IInv /\ PlaceInv /\ KnownInv /\ [Next]_vars => KnownInv'
<1> SUFFICES ASSUME IInv, PlaceInv, KnownInv, [Next]_vars
             PROVE  KnownInv'
    OBVIOUS
<1> USE DEF loopVars, transactionVars, ndbVars, outputVars
<1>o. ASSUME UNCHANGED messages
      PROVE  \A l, t : OpsOf(l, t)' = OpsOf(l, t)
      BY <1>o DEF OpsOf
<1>c. ASSUME UNCHANGED <<messages, listNo, tupleNo>>
      PROVE  CurrentOps' = CurrentOps
      BY <1>c DEF CurrentOps, OpsOf
<1>e. ASSUME pc' \notin {"operations", "prepare"}, UNCHANGED messages,
             transaction' = "open" => transaction = "open",
             UNCHANGED transactionOperations \/ transaction' # "open",
             prepared' \subseteq prepared
      PROVE  KnownInv'
      BY <1>e, <1>o DEF KnownInv
<1>1. ASSUME NEW batch \in Batches, Execute(batch)
      PROVE  KnownInv'
      BY <1>1 DEF Execute, KnownInv, IInv, ControlInv
<1>2. CASE NextTaskList
      BY <1>2, <1>e DEF NextTaskList
<1>3. CASE NextRequest
  <2>1. listNo \in 1 .. Len(messages)
        BY <1>3 DEF NextRequest, PlaceInv, IInv, TypeOK
  <2>2. messages[listNo] \in Seq(FrameMessagesTuple)
        BY <2>1 DEF IInv, TypeOK
  <2>3. tupleNo + 1 \in 1 .. Len(messages[listNo])
        BY <1>3, <2>2 DEF NextRequest, IInv, TypeOK
  <2>4. DOMAIN OpsOf(listNo, tupleNo + 1) = 1 .. Len(OpsOf(listNo, tupleNo + 1))
        BY <2>1, <2>3, OpsOfRequest DEF IInv
  <2>5. \A i \in DOMAIN CurrentOps' : ~(i < opNo')
        BY <1>3, <2>4 DEF NextRequest, CurrentOps, OpsOf
  <2> QED
        BY <1>3, <1>o, <2>5 DEF NextRequest, KnownInv
<1>4. CASE EndOfTaskList
      BY <1>4, <1>e DEF EndOfTaskList
<1>5. CASE ExecuteDefinition
  <2>1. CurrentOps' = CurrentOps
        BY <1>5, <1>c DEF ExecuteDefinition
  <2>2. ASSUME NEW i \in DOMAIN CurrentOps, i < opNo + 1
        PROVE  CurrentOps[i] \in KnownType
        BY <1>5, <2>2, InRequest
           DEF ExecuteDefinition, KnownInv, KnownType, CurrentType, IInv, TypeOK
  <2> QED
        BY <1>5, <1>o, <2>1, <2>2 DEF ExecuteDefinition, KnownInv
<1>6. CASE AddOperation
  <2>1. CurrentOps' = CurrentOps
        BY <1>6, <1>c DEF AddOperation
  <2>2. ASSUME NEW i \in DOMAIN CurrentOps, i < opNo + 1
        PROVE  CurrentOps[i] \in KnownType
        BY <1>6, <2>2, InRequest
           DEF AddOperation, KnownInv, KnownType, CurrentType, IInv, TypeOK
  <2> QED
        BY <1>6, <1>o, <2>1, <2>2 DEF AddOperation, KnownInv
<1>7. CASE OperationFails
      BY <1>7, <1>o DEF OperationFails, KnownInv
<1>8. CASE EndOfRequest
  <2>1. CurrentOps' = CurrentOps
        BY <1>8, <1>c DEF EndOfRequest
  <2>2. \A i \in DOMAIN CurrentOps : CurrentOps[i] \in KnownType
        BY <1>8, InRequest DEF EndOfRequest, KnownInv, IInv, TypeOK
  <2> QED
        BY <1>8, <1>o, <2>1, <2>2 DEF EndOfRequest, KnownInv
<1>9. CASE PrepareTransaction
  <2> DEFINE new == [list |-> listNo, tuple |-> tupleNo,
                     operations |-> transactionOperations]
  <2>1. transaction = "open" /\ pc = "prepare"
        BY <1>9 DEF PrepareTransaction, IInv, TypeOK
  <2>2. /\ listNo \in 1 .. Len(messages) /\ tupleNo \in 1 .. Len(messages[listNo])
        /\ transactionOperations # {}
        /\ \A i \in DOMAIN OpsOf(listNo, tupleNo) : OpsOf(listNo, tupleNo)[i] \in KnownType
        BY <2>1, InRequest DEF KnownInv
  <2>3. ASSUME NEW s \in prepared'
        PROVE  /\ s.list \in 1 .. Len(messages) /\ s.tuple \in 1 .. Len(messages[s.list])
               /\ s.operations # {}
               /\ \A i \in DOMAIN OpsOf(s.list, s.tuple) :
                     OpsOf(s.list, s.tuple)[i] \in KnownType
    <3>1. CASE s \in prepared
          BY <3>1 DEF KnownInv
    <3>2. CASE s = new
          BY <2>2, <3>2
    <3> QED
          BY <1>9, <2>3, <3>1, <3>2 DEF PrepareTransaction
  <2>4. /\ pc' \in {"flush", "tuples"} /\ transaction' = "nullptr" /\ messages' = messages
        BY <1>9 DEF PrepareTransaction
  <2> QED
        BY <1>o, <2>3, <2>4 DEF KnownInv
<1>10. CASE NothingToPrepare
      BY <1>10, <1>e DEF NothingToPrepare
<1>11. ASSUME NEW d \in decided, NdbExecuteCallback(d)
       PROVE  KnownInv'
      BY <1>11, <1>e DEF NdbExecuteCallback, Waiting
<1>12. CASE FlushDone
      BY <1>12, <1>e DEF FlushDone
<1>13. CASE StartDrain
      BY <1>13, <1>e DEF StartDrain
<1>14. CASE Return
      BY <1>14, <1>e DEF Return
<1>15. ASSUME NEW s \in prepared, NdbDecides(s)
       PROVE  KnownInv'
      BY <1>15, <1>e DEF NdbDecides, Waiting
<1>16. CASE UNCHANGED vars
      BY <1>16, <1>o, <1>c DEF vars, KnownInv
<1> QED
      BY <1>1, <1>2, <1>3, <1>4, <1>5, <1>6, <1>7, <1>8, <1>9, <1>10, <1>11,
         <1>12, <1>13, <1>14, <1>15, <1>16 DEF Next, ThreadStep

\* A step outside the requests, which sends nothing that is not a verdict.
LEMMA DefinedElsewhere ==
    ASSUME sent \in Seq(Reply), DefinedInv, UNCHANGED messages,
           \/ UNCHANGED sent
           \/ \E l, t, i, status, results : ReplyWithResult(l, t, i, status, results),
           \A l \in 1 .. Len(messages) : \A t \in 1 .. Len(messages[l]) :
              Past([list |-> l, tuple |-> t])' => Past([list |-> l, tuple |-> t]),
           pc' \notin {"operations", "prepare"}
    PROVE  DefinedInv'
<1>1. \A l, t : Refused(l, t) \/ Defined(l, t) => Refused(l, t)' \/ Defined(l, t)'
      BY RepliesStay
<1> QED
      BY <1>1 DEF DefinedInv

LEMMA DefinedStep ==
    IInv /\ PlaceInv /\ DefinedInv /\ [Next]_vars => DefinedInv'
<1> SUFFICES ASSUME IInv, PlaceInv, DefinedInv, [Next]_vars
             PROVE  DefinedInv'
    OBVIOUS
<1> USE DEF loopVars, transactionVars, ndbVars, outputVars
<1>t. /\ listNo \in Nat /\ tupleNo \in Nat /\ opNo \in Nat /\ sent \in Seq(Reply)
      /\ pc \in PC
      BY DEF IInv, TypeOK
<1>l. \A l \in 1 .. Len(messages) : Len(messages[l]) \in Nat
  <2>1. \A l \in 1 .. Len(messages) : messages[l] \in Seq(FrameMessagesTuple)
        BY DEF IInv, TypeOK
  <2> QED
        BY <2>1
<1>k. ASSUME UNCHANGED <<listNo, tupleNo>>,
             pc \in {"operations", "prepare"} <=> pc' \in {"operations", "prepare"}
      PROVE  \A l, t : Past([list |-> l, tuple |-> t])' <=> Past([list |-> l, tuple |-> t])
      BY <1>k DEF Past
<1>r. ASSUME UNCHANGED messages,
             \/ UNCHANGED sent
             \/ \E l, t, i, status, results : ReplyWithResult(l, t, i, status, results)
      PROVE  /\ \A l, t : Refused(l, t) \/ Defined(l, t) => Refused(l, t)' \/ Defined(l, t)'
             /\ \A l, t, i : Said(l, t, i) => Said(l, t, i)'
             /\ \A l, t : OpsOf(l, t)' = OpsOf(l, t)
      BY <1>r, <1>t, RepliesStay
<1>1. ASSUME NEW batch \in Batches, Execute(batch)
      PROVE  DefinedInv'
      BY <1>1, BatchesAssumption DEF Execute, DefinedInv, Past
<1>2. CASE NextTaskList
  <2>1. ASSUME NEW l \in 1 .. Len(messages), NEW t \in 1 .. Len(messages[l]),
               Past([list |-> l, tuple |-> t])'
        PROVE  Past([list |-> l, tuple |-> t])
        BY <1>2, <1>t, <1>l, <2>1 DEF NextTaskList, Past, PlaceInv
  <2> QED
        BY <1>2, <1>t, <2>1, DefinedElsewhere DEF NextTaskList
<1>3. CASE NextRequest
  <2>1. ASSUME NEW l \in 1 .. Len(messages), NEW t \in 1 .. Len(messages[l]),
               Past([list |-> l, tuple |-> t])'
        PROVE  Past([list |-> l, tuple |-> t])
        BY <1>3, <1>t, <1>l, <2>1 DEF NextRequest, Past
  <2>2. \A i \in DOMAIN CurrentOps' : ~(i < opNo')
    <3>1. listNo \in 1 .. Len(messages) /\ tupleNo + 1 \in 1 .. Len(messages[listNo])
          BY <1>3, <1>t, <1>l DEF NextRequest, PlaceInv
    <3>2. DOMAIN OpsOf(listNo, tupleNo + 1) = 1 .. Len(OpsOf(listNo, tupleNo + 1))
          BY <3>1, OpsOfRequest DEF IInv
    <3> QED
          BY <1>3, <3>2 DEF NextRequest, CurrentOps, OpsOf
  <2>3. /\ \A l, t : Refused(l, t) \/ Defined(l, t) => Refused(l, t)' \/ Defined(l, t)'
        /\ messages' = messages /\ pc' = "operations"
        BY <1>3, <1>r DEF NextRequest
  <2> QED
        BY <2>1, <2>2, <2>3 DEF DefinedInv, IndexesOf
<1>4. CASE EndOfTaskList
      BY <1>4, <1>t, <1>k, DefinedElsewhere DEF EndOfTaskList
<1>5. CASE ExecuteDefinition
  <2>1. PICK status, results : ReplyWithResult(listNo, tupleNo, opNo, status, results)
        BY <1>5 DEF ExecuteDefinition
  <2>2. /\ \A l, t : Refused(l, t) \/ Defined(l, t) => Refused(l, t)' \/ Defined(l, t)'
        /\ \A l, t, i : Said(l, t, i) => Said(l, t, i)'
        /\ CurrentOps' = CurrentOps
        BY <1>5, <1>r, <2>1 DEF ExecuteDefinition, CurrentOps
  <2>3. ASSUME NEW i, i = opNo
        PROVE  Said(listNo, tupleNo, i)'
    <3>1. /\ Len(sent) + 1 \in DOMAIN sent' /\ sent'[Len(sent) + 1].list = listNo
          /\ sent'[Len(sent) + 1].tuple = tupleNo /\ sent'[Len(sent) + 1].op = opNo
          BY <1>t, <2>1, ReplyAppended
    <3> QED
          BY <1>5, <2>3, <3>1 DEF ExecuteDefinition, Said
  <2>4. ASSUME NEW i \in IndexesOf(CurrentOps, DefinitionType), i < opNo + 1
        PROVE  Said(listNo, tupleNo, i)'
    <3>1. i = opNo \/ i < opNo
          BY <1>5, <1>t, <2>4, InRequest DEF ExecuteDefinition, IndexesOf
    <3>2. i < opNo => Said(listNo, tupleNo, i)'
          BY <1>5, <2>2 DEF ExecuteDefinition, DefinedInv
    <3> QED
          BY <2>3, <3>1, <3>2
  <2>5. \A l, t : Past([list |-> l, tuple |-> t])' <=> Past([list |-> l, tuple |-> t])
        BY <1>5, <1>k DEF ExecuteDefinition
  <2>6. /\ pc' = "operations" /\ opNo' = opNo + 1
        /\ UNCHANGED <<messages, listNo, tupleNo>>
        BY <1>5 DEF ExecuteDefinition
  <2> QED
        BY <2>2, <2>4, <2>5, <2>6 DEF DefinedInv
<1>6. CASE AddOperation
  <2>1. /\ \A l, t : Refused(l, t) \/ Defined(l, t) => Refused(l, t)' \/ Defined(l, t)'
        /\ \A l, t, i : Said(l, t, i) => Said(l, t, i)'
        /\ CurrentOps' = CurrentOps
        BY <1>6, <1>r DEF AddOperation, CurrentOps
  <2>2. ASSUME NEW i \in IndexesOf(CurrentOps, DefinitionType), i < opNo + 1
        PROVE  Said(listNo, tupleNo, i)'
    <3>1. i # opNo
          BY <1>6 DEF AddOperation, IndexesOf, CurrentType, DefinitionType, ManipulationType
    <3>2. i < opNo
          BY <1>6, <1>t, <2>2, <3>1, InRequest DEF AddOperation, IndexesOf
    <3> QED
          BY <1>6, <2>1, <3>2 DEF AddOperation, DefinedInv
  <2>3. \A l, t : Past([list |-> l, tuple |-> t])' <=> Past([list |-> l, tuple |-> t])
        BY <1>6, <1>k DEF AddOperation
  <2>4. /\ pc' = "operations" /\ opNo' = opNo + 1
        /\ UNCHANGED <<messages, listNo, tupleNo>>
        BY <1>6 DEF AddOperation
  <2> QED
        BY <2>1, <2>2, <2>3, <2>4 DEF DefinedInv
<1>7. CASE OperationFails
  <2>1. ReplyWithResult(listNo, tupleNo, 0, "error", {})
        BY <1>7 DEF OperationFails
  <2>2. \A l, t : Refused(l, t) \/ Defined(l, t) => Refused(l, t)' \/ Defined(l, t)'
        BY <1>7, <1>r, <2>1 DEF OperationFails
  <2>3. Refused(listNo, tupleNo)'
    <3>1. /\ Len(sent) + 1 \in DOMAIN sent' /\ sent'[Len(sent) + 1].list = listNo
          /\ sent'[Len(sent) + 1].tuple = tupleNo /\ sent'[Len(sent) + 1].op = 0
          BY <1>t, <2>1, ReplyAppended
    <3>2. sent'[Len(sent) + 1].status = "error"
          BY <1>t, <2>1 DEF ReplyWithResult
    <3> QED
          BY <1>7, <3>1, <3>2 DEF OperationFails, Refused
  <2>4. \A l, t : Past([list |-> l, tuple |-> t])' <=> Past([list |-> l, tuple |-> t])
        BY <1>7, <1>k DEF OperationFails
  <2>5. pc' = "prepare" /\ UNCHANGED <<messages, listNo, tupleNo>>
        BY <1>7 DEF OperationFails
  <2> QED
        BY <2>2, <2>3, <2>4, <2>5 DEF DefinedInv
<1>8. CASE EndOfRequest
  <2>1. Defined(listNo, tupleNo)
    <3>1. \A i \in IndexesOf(CurrentOps, DefinitionType) : i < opNo
          BY <1>8, <1>t, InRequest DEF EndOfRequest, IndexesOf
    <3> QED
          BY <1>8, <3>1 DEF EndOfRequest, DefinedInv, Defined, CurrentOps
  <2>2. \A l, t : Refused(l, t) \/ Defined(l, t) => Refused(l, t)' \/ Defined(l, t)'
        BY <1>8, <1>r DEF EndOfRequest
  <2>3. \A l, t : Past([list |-> l, tuple |-> t])' <=> Past([list |-> l, tuple |-> t])
        BY <1>8, <1>k DEF EndOfRequest
  <2>4. pc' = "prepare" /\ UNCHANGED <<messages, listNo, tupleNo>>
        BY <1>8 DEF EndOfRequest
  <2> QED
        BY <2>1, <2>2, <2>3, <2>4 DEF DefinedInv
<1>9. ASSUME PrepareTransaction \/ NothingToPrepare
      PROVE  DefinedInv'
  <2>1. /\ pc = "prepare" /\ pc' \in {"flush", "tuples"}
        /\ UNCHANGED <<messages, listNo, tupleNo, sent>>
        BY <1>9 DEF PrepareTransaction, NothingToPrepare
  <2>2. \A l, t : Refused(l, t) \/ Defined(l, t) => Refused(l, t)' \/ Defined(l, t)'
        BY <1>r, <2>1
  <2>3. ASSUME NEW l \in 1 .. Len(messages), NEW t \in 1 .. Len(messages[l]),
               Past([list |-> l, tuple |-> t])'
        PROVE  Past([list |-> l, tuple |-> t]) \/ (l = listNo /\ t = tupleNo)
        BY <2>1, <2>3 DEF Past
  <2>4. ASSUME NEW l \in 1 .. Len(messages), NEW t \in 1 .. Len(messages[l]),
               Past([list |-> l, tuple |-> t])'
        PROVE  Refused(l, t) \/ Defined(l, t)
        BY <2>1, <2>3, <2>4 DEF DefinedInv
  <2> QED
        BY <2>1, <2>2, <2>4 DEF DefinedInv
<1>11. ASSUME NEW d \in decided, NdbExecuteCallback(d)
       PROVE  DefinedInv'
  <2>1. \E status, results :
           ReplyWithResult(d.state.list, d.state.tuple, 0, status, results)
        BY <1>11 DEF NdbExecuteCallback
  <2> QED
        BY <1>11, <1>t, <1>k, <2>1, DefinedElsewhere DEF NdbExecuteCallback, Waiting
<1>12. CASE FlushDone
      BY <1>12, <1>t, <1>k, DefinedElsewhere DEF FlushDone
<1>13. CASE StartDrain
      BY <1>13, <1>t, <1>k, DefinedElsewhere DEF StartDrain
<1>14. CASE Return
      BY <1>14, <1>t, <1>k, DefinedElsewhere DEF Return
<1>15. ASSUME NEW s \in prepared, NdbDecides(s)
       PROVE  DefinedInv'
      BY <1>15, <1>t, <1>k, DefinedElsewhere DEF NdbDecides, Waiting
<1>16. CASE UNCHANGED vars
      BY <1>16 DEF vars, DefinedInv, Past, Refused, Defined, Said, CurrentOps, OpsOf
<1> QED
      BY <1>1, <1>2, <1>3, <1>4, <1>5, <1>6, <1>7, <1>8, <1>9, <1>11,
         <1>12, <1>13, <1>14, <1>15, <1>16 DEF Next, ThreadStep

LEMMA DrainStep ==
    IInv /\ PlaceInv /\ DrainInv /\ [Next]_vars => DrainInv'
<1> SUFFICES ASSUME IInv, PlaceInv, DrainInv, [Next]_vars, pc' = "drain"
             PROVE  DrainInv'
    BY DEF DrainInv
<1> USE DEF loopVars, transactionVars, ndbVars, outputVars
<1>1. CASE StartDrain
      BY <1>1 DEF StartDrain, DrainInv, PlaceInv
<1>2. ASSUME pc = "drain", UNCHANGED <<messages, listNo, tupleNo>>
      PROVE  DrainInv'
      BY <1>2 DEF DrainInv
<1>3. ASSUME NEW d \in decided, NdbExecuteCallback(d)
      PROVE  DrainInv'
      BY <1>2, <1>3 DEF NdbExecuteCallback
<1>4. ASSUME NEW s \in prepared, NdbDecides(s)
      PROVE  DrainInv'
      BY <1>2, <1>4 DEF NdbDecides
<1>5. CASE UNCHANGED vars
      BY <1>2, <1>5 DEF vars
<1> QED
      BY <1>1, <1>3, <1>4, <1>5
         DEF Next, ThreadStep, Execute, NextTaskList, NextRequest, EndOfTaskList,
             ExecuteDefinition, AddOperation, OperationFails, EndOfRequest,
             PrepareTransaction, NothingToPrepare, FlushDone, Return
-----------------------------------------------------------------------------
\* All that is known of the thread between two steps.
FullInv ==
    /\ IInv /\ PlaceInv /\ EffectInv /\ SettledInv /\ RepliedInv /\ AtMostOneReply
    /\ KnownInv /\ DefinedInv /\ DrainInv

LEMMA FullInvariance == Spec => []FullInv
<1>1. Init => /\ PlaceInv /\ SettledInv /\ RepliedInv /\ AtMostOneReply
              /\ KnownInv /\ DefinedInv /\ DrainInv
      BY DEF Init, PlaceInv, SettledInv, RepliedInv, AtMostOneReply, KnownInv, DefinedInv,
             DrainInv
<1>2. IInv /\ RepliedInv /\ AtMostOneReply /\ [Next]_vars => RepliedInv' /\ AtMostOneReply'
      BY RepliedStep
<1>3. /\ IInv /\ PlaceInv /\ EffectInv /\ SettledInv /\ RepliedInv /\ AtMostOneReply
      /\ KnownInv /\ DefinedInv /\ DrainInv
      => FullInv
      BY DEF FullInv
<1> QED
      BY <1>1, <1>2, <1>3, EffectInvariance, SettledStep, KnownStep, DefinedStep, DrainStep,
         PTL DEF Spec

\* When the thread leaves a batch, all of it is behind the thread.
LEMMA BatchBehind ==
    ASSUME FullInv, pc \in {"lists", "drain"}, listNo = Len(messages),
           NEW l \in DOMAIN messages, NEW t \in DOMAIN messages[l]
    PROVE  /\ l \in 1 .. Len(messages) /\ t \in 1 .. Len(messages[l])
           /\ Past([list |-> l, tuple |-> t])
<1>1. l \in 1 .. Len(messages) /\ messages[l] \in Seq(FrameMessagesTuple)
      BY DEF FullInv, IInv, TypeOK
<1>2. t \in 1 .. Len(messages[l])
      BY <1>1
<1>3. listNo \in Nat /\ listNo > 0 /\ tupleNo = Len(messages[listNo])
      BY <1>1 DEF FullInv, IInv, TypeOK, PlaceInv, DrainInv
<1> QED
      BY <1>1, <1>2, <1>3 DEF Past

\* A prepared transaction is of a request of the batch, all of whose operations are of
\* known types, and which has had no verdict.
LEMMA PreparedRequest ==
    ASSUME FullInv, NEW s \in prepared
    PROVE  /\ <<s.list, s.tuple>> \in Slots
           /\ Asks(s.list, s.tuple) /\ ~Said(s.list, s.tuple, 0)
           /\ \A i \in DOMAIN OpsOf(s.list, s.tuple) :
                 OpsOf(s.list, s.tuple)[i] \in KnownType
           /\ s.operations = Gathered(s.list, s.tuple)
<1>1. /\ s.list \in 1 .. Len(messages) /\ s.tuple \in 1 .. Len(messages[s.list])
      /\ s.operations # {}
      /\ \A i \in DOMAIN OpsOf(s.list, s.tuple) : OpsOf(s.list, s.tuple)[i] \in KnownType
      BY DEF FullInv, KnownInv
<1>2. s.operations = Gathered(s.list, s.tuple)
      BY DEF FullInv, EffectInv, GatheredInv
<1>3. s.list \in DOMAIN messages /\ s.tuple \in DOMAIN messages[s.list]
      BY <1>1 DEF FullInv, IInv, TypeOK
<1>4. <<s.list, s.tuple>> \in Slots
      BY <1>3 DEF Slots
<1>5. ~Said(s.list, s.tuple, 0)
      BY DEF FullInv, RepliedInv, Said
<1>6. Asks(s.list, s.tuple)
      BY <1>1, <1>2 DEF Asks, Gathered, IndexesOf, ManipulationType, DefinitionType
<1> QED
      BY <1>1, <1>2, <1>4, <1>5, <1>6

\* Every step of the thread, and of NDB, is a step of the service or leaves it alone.
LEMMA ServiceStep ==
    FullInv /\ [Next]_vars => [Service!ServiceNext]_(Service!serviceVars)
<1> SUFFICES ASSUME FullInv, [Next]_vars
             PROVE  Service!ServiceNext \/ UNCHANGED Service!serviceVars
    OBVIOUS
<1> USE DEF loopVars, transactionVars, ndbVars, outputVars
<1>r. ASSUME pc = "operations"
      PROVE  /\ <<listNo, tupleNo>> \in Slots
             /\ \A i : i = 0 \/ i = opNo => ~Said(listNo, tupleNo, i)
             /\ CurrentOps = OpsOf(listNo, tupleNo)
             /\ opNo <= Len(CurrentOps) => opNo \in DOMAIN CurrentOps
  <2>1. /\ listNo \in 1 .. Len(messages) /\ tupleNo \in 1 .. Len(messages[listNo])
        /\ CurrentOps = OpsOf(listNo, tupleNo)
        /\ DOMAIN CurrentOps = 1 .. Len(CurrentOps) /\ Len(CurrentOps) \in Nat
        BY <1>r, InRequest DEF FullInv
  <2>2. listNo \in DOMAIN messages /\ tupleNo \in DOMAIN messages[listNo]
        BY <2>1 DEF FullInv, IInv, TypeOK
  <2>3. listNo \in Nat /\ tupleNo \in Nat /\ opNo \in Nat /\ opNo > 0
        BY <1>r DEF FullInv, IInv, TypeOK, ControlInv
  <2>4. \A i : i = 0 \/ i = opNo => ~Said(listNo, tupleNo, i)
        BY <1>r, <2>3 DEF FullInv, RepliedInv, Due, Past, Said
  <2> QED
        BY <2>1, <2>2, <2>3, <2>4 DEF Slots
<1>1. ASSUME NEW batch \in Batches, Execute(batch)
      PROVE  Service!ServiceNext
      BY <1>1, ServiceAccepts DEF Execute
<1>2. CASE NextTaskList
      BY <1>2, Stutter DEF NextTaskList
<1>3. CASE NextRequest
      BY <1>3, Stutter DEF NextRequest
<1>4. CASE EndOfTaskList
      BY <1>4, Stutter DEF EndOfTaskList
<1>5. CASE ExecuteDefinition
  <2>1. opNo \in IndexesOf(OpsOf(listNo, tupleNo), DefinitionType)
        BY <1>5, <1>r DEF ExecuteDefinition, IndexesOf, CurrentType
  <2> QED
        BY <1>5, <1>r, <2>1, ServiceDefines DEF ExecuteDefinition
<1>6. CASE AddOperation
      BY <1>6, Stutter DEF AddOperation
<1>7. CASE OperationFails
  <2>1. Asks(listNo, tupleNo)
        BY <1>7, <1>r DEF OperationFails, Asks, CurrentType
  <2> QED
        BY <1>7, <1>r, <2>1, ServiceRefuses DEF OperationFails
<1>8. CASE EndOfRequest
      BY <1>8, Stutter DEF EndOfRequest
<1>9. CASE PrepareTransaction
      BY <1>9, Stutter DEF PrepareTransaction
<1>10. CASE NothingToPrepare
      BY <1>10, Stutter DEF NothingToPrepare
<1>11. ASSUME NEW d \in decided, NdbExecuteCallback(d)
       PROVE  Service!ServiceNext
  <2>1. d.state \in prepared
        BY DEF FullInv, IInv, PreparedInv
  <2>2. /\ pc # "idle" /\ pc' # "idle" /\ UNCHANGED <<messages, effects>>
        BY <1>11 DEF NdbExecuteCallback, Waiting
  <2>3. CASE d.result = "-1"
        BY <1>11, <2>1, <2>2, <2>3, PreparedRequest, ServiceRefuses DEF NdbExecuteCallback
  <2>4. CASE d.result # "-1"
    <3>1. Writes(<<d.state.list, d.state.tuple>>) \subseteq effects
          BY <2>4 DEF FullInv, IInv, TypeOK, EffectInv, CommittedInv
    <3>2. ReplyWithResult(d.state.list, d.state.tuple, 0, "ok",
                          Gathered(d.state.list, d.state.tuple))
          BY <1>11, <2>1, <2>4, PreparedRequest DEF NdbExecuteCallback
    <3> QED
          BY <2>1, <2>2, <3>1, <3>2, PreparedRequest, ServiceConfirms
  <2> QED
        BY <2>3, <2>4
<1>12. CASE FlushDone
      BY <1>12, Stutter DEF FlushDone
<1>13. CASE StartDrain
      BY <1>13, Stutter DEF StartDrain
<1>14. CASE Return
  <2>1. prepared = {} /\ pc \in {"lists", "drain"} /\ listNo = Len(messages)
    <3>1. ~(completedTransactions < totalTransactions)
          BY <1>14 DEF Return, FullInv, IInv, TypeOK
    <3> QED
          BY <1>14, <3>1, NothingLeft DEF Return, FullInv, DrainInv
  <2>2. ASSUME NEW l \in DOMAIN messages, NEW t \in DOMAIN messages[l]
        PROVE  /\ Asks(l, t) => Said(l, t, 0)
               /\ Refused(l, t) \/ Defined(l, t)
    <3>1. /\ l \in 1 .. Len(messages) /\ t \in 1 .. Len(messages[l])
          /\ Past([list |-> l, tuple |-> t])
          BY <2>1, BatchBehind
    <3>2. Asks(l, t) => Verdict(l, t) \/ Pending(l, t)
          BY <3>1 DEF FullInv, SettledInv
    <3>3. Refused(l, t) \/ Defined(l, t)
          BY <3>1 DEF FullInv, DefinedInv
    <3> QED
          BY <2>1, <3>2, <3>3 DEF Verdict, Pending, Said
  <2> QED
        BY <1>14, <2>1, <2>2, ServiceFinishes DEF Return
<1>15. ASSUME NEW s \in prepared, NdbDecides(s)
       PROVE  Service!ServiceNext \/ UNCHANGED Service!serviceVars
  <2>1. pc # "idle" /\ pc' # "idle" /\ UNCHANGED <<messages, sent>>
        BY <1>15 DEF NdbDecides, Waiting
  <2>2. \/ effects' = effects \cup Writes(<<s.list, s.tuple>>)
        \/ UNCHANGED effects
        BY <1>15, PreparedRequest, WritesOfTransaction DEF NdbDecides
  <2>3. CASE effects' = effects \cup Writes(<<s.list, s.tuple>>)
        BY <2>1, <2>3, PreparedRequest, ServiceCommits
  <2>4. CASE UNCHANGED effects
        BY <2>1, <2>4, Stutter
  <2> QED
        BY <2>2, <2>3, <2>4
<1>16. CASE UNCHANGED vars
      BY <1>16 DEF vars, Service!serviceVars
<1> QED
      BY <1>1, <1>2, <1>3, <1>4, <1>5, <1>6, <1>7, <1>8, <1>9, <1>10, <1>11,
         <1>12, <1>13, <1>14, <1>15, <1>16 DEF Next, ThreadStep

\* An executor thread keeps every promise of the abstract service, for every set of
\* batches: what it does to the database and what it answers are steps of the service,
\* and it returns from a batch only when each of its requests is answered.
THEOREM ThreadImplementsService == Spec => ImplementsService
<1>1. Init => Service!ServiceInit
      BY DEF Init, Service!ServiceInit
<1> QED
      BY <1>1, FullInvariance, ServiceStep, PTL
         DEF Spec, ImplementsService, Service!ServiceSpec
=============================================================================
