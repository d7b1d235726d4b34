---------------------- MODULE NDBMessageExecutorProofs ----------------------
(***************************************************************************)
(* Theorems about an executor thread, for every set of batches and every   *)
(* pair of limits that satisfies LimitAssumption.                          *)
(***************************************************************************)
EXTENDS NDBMessageExecutor, FiniteSetTheorems, TLAPS

\* The request of s comes before the one the thread is looking at, or is that one
\* and the thread is done with its operations.
Past(s) ==
    \/ s.list < listNo
    \/ s.list = listNo /\ s.tuple < tupleNo
    \/ s.list = listNo /\ s.tuple = tupleNo /\ pc \notin {"operations", "prepare"}

\* What the thread owns, and what it has open, at each place in the code.
ControlInv ==
    /\ pc = "idle" => prepared = {}
    /\ pc # "idle" => taskLists = 1 .. listNo
    /\ pc \in {"tuples", "operations", "prepare", "flush"} => listNo > 0
    /\ pc = "operations" => opNo > 0
    /\ transaction = "open" => pc \in {"operations", "prepare"}

\* A prepared transaction is one of an owned task list and of a request the thread
\* has left; no request has two, and NDB decides each once.
PreparedInv ==
    /\ \A s \in prepared : 0 < s.list /\ s.list <= listNo /\ Past(s)
    /\ \A s, u \in prepared : s.list = u.list /\ s.tuple = u.tuple => s = u
    /\ \A d \in decided : d.state \in prepared
    /\ \A c, d \in decided : c.state = d.state => c = d

\* The counters of execute and waitForTransactionsToComplete count what is prepared
\* and not called back.
CountInv ==
    /\ IsFiniteSet(prepared)
    /\ Cardinality(prepared) = totalTransactions - completedTransactions
    /\ ~Waiting => completedTransactions = 0
    /\ totalTransactions <= BatchLimit
    /\ pc # "flush" => totalTransactions < BatchLimit

IInv == TypeOK /\ ControlInv /\ PreparedInv /\ CountInv

\* A reply is about a request the thread has come to; about the one it is in, only
\* operations before the current one are answered, and no verdict is out.
Due(r) ==
    \/ Past(r)
    \/ /\ r.list = listNo /\ r.tuple = tupleNo
       /\ pc = "operations" => 0 < r.op /\ r.op < opNo
       /\ pc = "prepare" /\ transaction = "open" => 0 < r.op

\* What is answered, and that a request with a transaction still to be called back
\* has had no verdict.
RepliedInv ==
    /\ \A n \in DOMAIN sent : Due(sent[n])
    /\ \A n \in DOMAIN sent : \A s \in prepared :
          ~(sent[n].list = s.list /\ sent[n].tuple = s.tuple /\ sent[n].op = 0)
-----------------------------------------------------------------------------
\* A reply about a request is a well formed reply.
LEMMA ReplyType ==
    ASSUME sent \in Seq(Reply),
           NEW l \in Nat, NEW t \in Nat, NEW i \in Nat,
           NEW status \in {"ok", "error"}, NEW results \in SUBSET Nat,
           ReplyWithResult(l, t, i, status, results)
    PROVE  sent' \in Seq(Reply)
<1>1. [list |-> l, tuple |-> t, op |-> i, status |-> status, results |-> results] \in Reply
      BY DEF Reply
<1> QED
      BY <1>1 DEF ReplyWithResult

\* Every step keeps the type invariant.
LEMMA TypeStep ==
    TypeOK /\ [Next]_vars => TypeOK'
<1> SUFFICES ASSUME TypeOK, [Next]_vars
             PROVE  TypeOK'
    OBVIOUS
<1> USE DEF TypeOK, PC, NdbTransactionState, loopVars, transactionVars, ndbVars,
            outputVars
<1>1. ASSUME NEW batch \in Batches, Execute(batch)
      PROVE  TypeOK'
      BY <1>1, BatchesAssumption DEF Execute
<1>2. CASE NextTaskList
      BY <1>2 DEF NextTaskList
<1>3. CASE NextRequest
      BY <1>3 DEF NextRequest
<1>4. CASE EndOfTaskList
      BY <1>4 DEF EndOfTaskList
<1>5. CASE ExecuteDefinition
  <2>1. sent' \in Seq(Reply)
        BY <1>5, ReplyType DEF ExecuteDefinition
  <2>2. effects' \subseteq Nat \X Nat \X Nat
        BY <1>5 DEF ExecuteDefinition
  <2> QED
        BY <1>5, <2>1, <2>2 DEF ExecuteDefinition
<1>6. CASE AddOperation
      BY <1>6 DEF AddOperation
<1>7. CASE OperationFails
      BY <1>7, ReplyType DEF OperationFails
<1>8. CASE EndOfRequest
      BY <1>8 DEF EndOfRequest
<1>9. CASE PrepareTransaction
  <2>1. [list |-> listNo, tuple |-> tupleNo, operations |-> transactionOperations]
            \in NdbTransactionState
        OBVIOUS
  <2>2. prepared' \subseteq NdbTransactionState
        BY <1>9, <2>1 DEF PrepareTransaction
  <2> QED
        BY <1>9, <2>2 DEF PrepareTransaction
<1>10. CASE NothingToPrepare
      BY <1>10 DEF NothingToPrepare
<1>11. ASSUME NEW d \in decided, NdbExecuteCallback(d)
       PROVE  TypeOK'
  <2>1. d.state \in NdbTransactionState
        OBVIOUS
  <2>2. sent' \in Seq(Reply)
        BY <1>11, <2>1, ReplyType DEF NdbExecuteCallback
  <2> QED
        BY <1>11, <2>2 DEF NdbExecuteCallback
<1>12. CASE FlushDone
      BY <1>12 DEF FlushDone
<1>13. CASE StartDrain
      BY <1>13 DEF StartDrain
<1>14. CASE Return
      BY <1>14 DEF Return
<1>15. ASSUME NEW s \in prepared, NdbDecides(s)
       PROVE  TypeOK'
      BY <1>15 DEF NdbDecides
<1>16. CASE UNCHANGED vars
      BY <1>16 DEF vars
<1> QED
      BY <1>1, <1>2, <1>3, <1>4, <1>5, <1>6, <1>7, <1>8, <1>9, <1>10, <1>11,
         <1>12, <1>13, <1>14, <1>15, <1>16 DEF Next, ThreadStep

\* The state of an executor thread keeps its types, in every behaviour.
THEOREM TypeCorrect == Spec => []TypeOK
<1>1. Init => TypeOK
      BY DEF Init, TypeOK, PC
<1> QED
      BY <1>1, TypeStep, PTL DEF Spec
-----------------------------------------------------------------------------
\* Removing one transaction from the prepared ones, or adding a new one, changes
\* their number by one.
LEMMA OneMore ==
    ASSUME NEW S, IsFiniteSet(S), NEW x, x \notin S
    PROVE  IsFiniteSet(S \cup {x}) /\ Cardinality(S \cup {x}) = Cardinality(S) + 1
BY FS_AddElement

LEMMA OneLess ==
    ASSUME NEW S, IsFiniteSet(S), NEW x \in S
    PROVE  IsFiniteSet(S \ {x}) /\ Cardinality(S \ {x}) = Cardinality(S) - 1
BY FS_RemoveElement

\* Nothing is prepared when as many transactions are completed as were started.
LEMMA NothingLeft ==
    ASSUME IInv, ~(completedTransactions < totalTransactions)
    PROVE  prepared = {} /\ decided = {} /\ completedTransactions = totalTransactions
<1>1. Cardinality(prepared) \in Nat /\ IsFiniteSet(prepared)
      BY FS_CardinalityType DEF IInv, CountInv
<1>2. Cardinality(prepared) = 0
      BY <1>1 DEF IInv, CountInv, TypeOK
<1>3. prepared = {}
      BY <1>1, <1>2, FS_EmptySet
<1> QED
      BY <1>2, <1>3 DEF IInv, CountInv, PreparedInv, TypeOK

\* The inductive step: each action of the thread, and of NDB, keeps the invariant.
LEMMA InvStep ==
    IInv /\ [Next]_vars => IInv'
<1> SUFFICES ASSUME IInv, [Next]_vars
             PROVE  IInv'
    OBVIOUS
<1> USE DEF IInv
<1>0. TypeOK'
      BY TypeStep
<1> USE DEF loopVars, transactionVars, ndbVars, outputVars
<1>1. ASSUME NEW batch \in Batches, Execute(batch)
      PROVE  IInv'
  <2>1. prepared = {} /\ decided = {}
        BY <1>1 DEF Execute, ControlInv, PreparedInv
  <2>2. ControlInv' /\ PreparedInv'
        BY <1>1, <2>1 DEF Execute, ControlInv, PreparedInv
  <2>3. CountInv'
        BY <1>1, <2>1, FS_EmptySet, LimitAssumption DEF Execute, CountInv, Waiting
  <2> QED
        BY <1>0, <2>2, <2>3
<1>2. CASE NextTaskList
  <2>1. ControlInv'
        BY <1>2 DEF NextTaskList, ControlInv, TypeOK
  <2>2. PreparedInv'
        BY <1>2 DEF NextTaskList, PreparedInv, Past, TypeOK, NdbTransactionState
  <2>3. CountInv'
        BY <1>2 DEF NextTaskList, CountInv, Waiting
  <2> QED
        BY <1>0, <2>1, <2>2, <2>3
<1>3. CASE NextRequest
  <2>1. ControlInv'
        BY <1>3 DEF NextRequest, ControlInv, TypeOK
  <2>2. PreparedInv'
    <3>1. ASSUME NEW s \in prepared
          PROVE  0 < s.list /\ s.list <= listNo /\ Past(s)'
      <4>1. s.list \in Nat /\ s.tuple \in Nat
            BY DEF TypeOK, NdbTransactionState
      <4>2. 0 < s.list /\ s.list <= listNo /\ Past(s)
            BY DEF PreparedInv
      <4> QED
            BY <1>3, <4>1, <4>2 DEF NextRequest, Past, TypeOK
    <3> QED
          BY <1>3, <3>1 DEF NextRequest, PreparedInv
  <2>3. CountInv'
        BY <1>3 DEF NextRequest, CountInv, Waiting
  <2> QED
        BY <1>0, <2>1, <2>2, <2>3
<1>4. CASE EndOfTaskList
      BY <1>0, <1>4 DEF EndOfTaskList, ControlInv, PreparedInv, Past, CountInv, Waiting
<1>5. CASE ExecuteDefinition
      BY <1>0, <1>5 DEF ExecuteDefinition, ControlInv, PreparedInv, Past, CountInv,
                        Waiting, TypeOK
<1>6. CASE AddOperation
      BY <1>0, <1>6 DEF AddOperation, ControlInv, PreparedInv, Past, CountInv,
                        Waiting, TypeOK
<1>7. CASE OperationFails
      BY <1>0, <1>7 DEF OperationFails, ControlInv, PreparedInv, Past, CountInv, Waiting
<1>8. CASE EndOfRequest
      BY <1>0, <1>8 DEF EndOfRequest, ControlInv, PreparedInv, Past, CountInv, Waiting
<1>9. CASE PrepareTransaction
  <2> DEFINE new == [list |-> listNo, tuple |-> tupleNo,
                     operations |-> transactionOperations]
  <2>1. \A s \in prepared : ~(s.list = listNo /\ s.tuple = tupleNo)
    <3>1. pc = "prepare" /\ listNo \in Nat /\ tupleNo \in Nat
          BY <1>9 DEF PrepareTransaction, TypeOK
    <3>2. \A s \in prepared : Past(s)
          BY DEF PreparedInv
    <3> QED
          BY <3>1, <3>2 DEF Past
  <2>2. new \notin prepared
        BY <2>1
  <2>3. ControlInv'
        BY <1>9 DEF PrepareTransaction, ControlInv
  <2>4. PreparedInv'
    <3>1. prepared' = prepared \cup {new} /\ decided' = decided
          BY <1>9 DEF PrepareTransaction
    <3>2. new.list = listNo /\ new.tuple = tupleNo
          OBVIOUS
    <3>3. ASSUME NEW s \in prepared'
          PROVE  0 < s.list /\ s.list <= listNo /\ Past(s)'
      <4>1. CASE s \in prepared
            BY <1>9, <4>1 DEF PrepareTransaction, PreparedInv, Past
      <4>2. CASE s = new
            BY <1>9, <4>2, <3>2 DEF PrepareTransaction, Past, ControlInv, TypeOK
      <4> QED
            BY <3>1, <4>1, <4>2
    <3>4. ASSUME NEW s \in prepared', NEW u \in prepared',
                 s.list = u.list, s.tuple = u.tuple
          PROVE  s = u
          BY <2>1, <3>1, <3>2, <3>4 DEF PreparedInv
    <3>5. listNo' = listNo
          BY <1>9 DEF PrepareTransaction
    <3> HIDE DEF new
    <3> QED
          BY <3>1, <3>3, <3>4, <3>5 DEF PreparedInv
  <2>5. CountInv'
        BY <1>9, <2>2, OneMore, LimitAssumption
           DEF PrepareTransaction, CountInv, Waiting, TypeOK
  <2> QED
        BY <1>0, <2>3, <2>4, <2>5
<1>10. CASE NothingToPrepare
      BY <1>0, <1>10 DEF NothingToPrepare, ControlInv, PreparedInv, Past, CountInv, Waiting
<1>11. ASSUME NEW d \in decided, NdbExecuteCallback(d)
       PROVE  IInv'
  <2>1. d.state \in prepared
        BY DEF PreparedInv
  <2>2. ControlInv'
        BY <1>11 DEF NdbExecuteCallback, ControlInv, Waiting
  <2>3. PreparedInv'
        BY <1>11 DEF NdbExecuteCallback, PreparedInv, Past
  <2>4. CountInv'
    <3>1. /\ IsFiniteSet(prepared')
          /\ Cardinality(prepared') = Cardinality(prepared) - 1
          BY <1>11, <2>1, OneLess DEF NdbExecuteCallback, CountInv
    <3> QED
          BY <1>11, <3>1 DEF NdbExecuteCallback, CountInv, Waiting, TypeOK
  <2> QED
        BY <1>0, <2>2, <2>3, <2>4
<1>12. CASE FlushDone
  <2>1. prepared = {} /\ decided = {}
        BY <1>12, NothingLeft DEF FlushDone
  <2> QED
        BY <1>0, <1>12, <2>1, FS_EmptySet, LimitAssumption
           DEF FlushDone, ControlInv, PreparedInv, CountInv, Waiting
<1>13. CASE StartDrain
      BY <1>0, <1>13 DEF StartDrain, ControlInv, PreparedInv, Past, CountInv, Waiting
<1>14. CASE Return
  <2>1. prepared = {} /\ decided = {}
        BY <1>14, NothingLeft DEF Return, CountInv, Waiting, TypeOK
  <2> QED
        BY <1>0, <1>14, <2>1, FS_EmptySet, LimitAssumption
           DEF Return, ControlInv, PreparedInv, CountInv, Waiting
<1>15. ASSUME NEW s \in prepared, NdbDecides(s)
       PROVE  IInv'
  <2>1. ControlInv' /\ CountInv'
        BY <1>15 DEF NdbDecides, ControlInv, CountInv, Waiting
  <2>2. PreparedInv'
        BY <1>15 DEF NdbDecides, PreparedInv, Past
  <2> QED
        BY <1>0, <2>1, <2>2
<1>16. CASE UNCHANGED vars
      BY <1>0, <1>16 DEF vars, ControlInv, PreparedInv, Past, CountInv, Waiting
<1> QED
      BY <1>1, <1>2, <1>3, <1>4, <1>5, <1>6, <1>7, <1>8, <1>9, <1>10, <1>11,
         <1>12, <1>13, <1>14, <1>15, <1>16 DEF Next, ThreadStep

LEMMA Invariance == Spec => []IInv
<1>1. Init => IInv
  <2>1. Init => TypeOK
        BY DEF Init, TypeOK, PC
  <2> QED
        BY <2>1, FS_EmptySet, LimitAssumption
           DEF Init, IInv, ControlInv, PreparedInv, CountInv, Waiting
<1> QED
      BY <1>1, InvStep, PTL DEF Spec

\* No callback is ever given a pointer into a task list that has been freed.
THEOREM CallbacksAreSafe == Spec => []CallbackStateValid
<1>1. IInv => CallbackStateValid
      BY DEF IInv, ControlInv, PreparedInv, CallbackStateValid, TypeOK, NdbTransactionState
<1> QED
      BY <1>1, Invariance, PTL

\* The transactions open at once never exceed what Ndb::init made room for.
THEOREM PoolNeverExhausted == Spec => []TransactionPoolBound
<1>1. IInv => TransactionPoolBound
  <2> SUFFICES ASSUME IInv PROVE TransactionPoolBound
      OBVIOUS
  <2>1. Cardinality(prepared) <= totalTransactions
        BY DEF IInv, CountInv, TypeOK
  <2>2. Cardinality(prepared) \in Nat
        BY FS_CardinalityType DEF IInv, CountInv
  <2> QED
        BY <2>1, <2>2, LimitAssumption
           DEF IInv, ControlInv, CountInv, TypeOK, TransactionPoolBound
<1> QED
      BY <1>1, Invariance, PTL
-----------------------------------------------------------------------------
\* What replyWithResult does to the sequence of replies.
LEMMA ReplyAppended ==
    ASSUME sent \in Seq(Reply), NEW l, NEW t, NEW i, NEW status, NEW results,
           ReplyWithResult(l, t, i, status, results)
    PROVE  /\ DOMAIN sent' = DOMAIN sent \cup {Len(sent) + 1}
           /\ Len(sent) + 1 \notin DOMAIN sent
           /\ \A n \in DOMAIN sent : sent'[n] = sent[n]
           /\ sent'[Len(sent) + 1].list = l
           /\ sent'[Len(sent) + 1].tuple = t
           /\ sent'[Len(sent) + 1].op = i
BY DEF ReplyWithResult

\* A reply with a key no earlier reply has is no second reply.
LEMMA FreshReply ==
    ASSUME sent \in Seq(Reply), AtMostOneReply,
           NEW l, NEW t, NEW i, NEW status, NEW results,
           ReplyWithResult(l, t, i, status, results),
           \A n \in DOMAIN sent : ~(sent[n].list = l /\ sent[n].tuple = t /\ sent[n].op = i)
    PROVE  AtMostOneReply'
BY ReplyAppended DEF AtMostOneReply

\* Every step keeps the replies apart.
LEMMA RepliedStep ==
    IInv /\ RepliedInv /\ AtMostOneReply /\ [Next]_vars => RepliedInv' /\ AtMostOneReply'
<1> SUFFICES ASSUME IInv, RepliedInv, AtMostOneReply, [Next]_vars
             PROVE  RepliedInv' /\ AtMostOneReply'
    OBVIOUS
<1> USE DEF loopVars, transactionVars, ndbVars, outputVars
<1>t. /\ sent \in Seq(Reply) /\ listNo \in Nat /\ tupleNo \in Nat /\ opNo \in Nat
      /\ \A n \in DOMAIN sent :
            sent[n].list \in Nat /\ sent[n].tuple \in Nat /\ sent[n].op \in Nat
      /\ \A s \in prepared : s.list \in Nat /\ s.tuple \in Nat
  <2>1. sent \in Seq(Reply) /\ listNo \in Nat /\ tupleNo \in Nat /\ opNo \in Nat
        BY DEF IInv, TypeOK
  <2>2. ASSUME NEW n \in DOMAIN sent
        PROVE  sent[n].list \in Nat /\ sent[n].tuple \in Nat /\ sent[n].op \in Nat
    <3>1. sent[n] \in Reply
          BY <2>1
    <3> QED
          BY <3>1 DEF Reply
  <2>3. ASSUME NEW s \in prepared
        PROVE  s.list \in Nat /\ s.tuple \in Nat
        BY DEF IInv, TypeOK, NdbTransactionState
  <2> QED
        BY <2>1, <2>2, <2>3
<1>s. ASSUME UNCHANGED sent
      PROVE  AtMostOneReply'
      BY <1>s DEF AtMostOneReply
<1>1. ASSUME NEW batch \in Batches, Execute(batch)
      PROVE  RepliedInv' /\ AtMostOneReply'
      BY <1>1 DEF Execute, RepliedInv, AtMostOneReply
<1>2. CASE NextTaskList
  <2>1. \A n \in DOMAIN sent : Due(sent[n])'
        BY <1>2, <1>t DEF NextTaskList, RepliedInv, Due, Past
  <2> QED
        BY <1>2, <1>s, <2>1 DEF NextTaskList, RepliedInv
<1>3. CASE NextRequest
  <2>1. \A n \in DOMAIN sent : Due(sent[n])'
        BY <1>3, <1>t DEF NextRequest, RepliedInv, Due, Past
  <2> QED
        BY <1>3, <1>s, <2>1 DEF NextRequest, RepliedInv
<1>4. CASE EndOfTaskList
      BY <1>4, <1>s DEF EndOfTaskList, RepliedInv, Due, Past
<1>5. CASE ExecuteDefinition
  <2>1. PICK status, results : ReplyWithResult(listNo, tupleNo, opNo, status, results)
        BY <1>5 DEF ExecuteDefinition
  <2>2. \A n \in DOMAIN sent :
           ~(sent[n].list = listNo /\ sent[n].tuple = tupleNo /\ sent[n].op = opNo)
        BY <1>5, <1>t DEF ExecuteDefinition, RepliedInv, Due, Past
  <2>3. AtMostOneReply'
        BY <1>t, <2>1, <2>2, FreshReply
  <2>4. opNo > 0
        BY <1>5 DEF ExecuteDefinition, IInv, ControlInv
  <2>5. ASSUME NEW n \in DOMAIN sent'
        PROVE  Due(sent[n])'
        BY <1>5, <1>t, <2>1, <2>4, <2>5, ReplyAppended
           DEF ExecuteDefinition, RepliedInv, Due, Past
  <2>6. ASSUME NEW n \in DOMAIN sent', NEW s \in prepared'
        PROVE  ~(sent[n].list = s.list /\ sent[n].tuple = s.tuple /\ sent[n].op = 0)'
        BY <1>5, <1>t, <2>1, <2>4, <2>6, ReplyAppended DEF ExecuteDefinition, RepliedInv
  <2> QED
        BY <2>3, <2>5, <2>6 DEF RepliedInv
<1>6. CASE AddOperation
  <2>1. \A n \in DOMAIN sent : Due(sent[n])'
        BY <1>6, <1>t DEF AddOperation, RepliedInv, Due, Past
  <2> QED
        BY <1>6, <1>s, <2>1 DEF AddOperation, RepliedInv
<1>7. CASE OperationFails
  <2>1. ReplyWithResult(listNo, tupleNo, 0, "error", {})
        BY <1>7 DEF OperationFails
  <2>2. \A n \in DOMAIN sent :
           ~(sent[n].list = listNo /\ sent[n].tuple = tupleNo /\ sent[n].op = 0)
        BY <1>7, <1>t DEF OperationFails, RepliedInv, Due, Past
  <2>3. AtMostOneReply'
        BY <1>t, <2>1, <2>2, FreshReply
  <2>4. \A s \in prepared : ~(s.list = listNo /\ s.tuple = tupleNo)
        BY <1>7, <1>t DEF OperationFails, IInv, PreparedInv, Past
  <2>5. ASSUME NEW n \in DOMAIN sent'
        PROVE  Due(sent[n])'
        BY <1>7, <1>t, <2>1, <2>5, ReplyAppended DEF OperationFails, RepliedInv, Due, Past
  <2>6. ASSUME NEW n \in DOMAIN sent', NEW s \in prepared'
        PROVE  ~(sent[n].list = s.list /\ sent[n].tuple = s.tuple /\ sent[n].op = 0)'
        BY <1>7, <1>t, <2>1, <2>4, <2>6, ReplyAppended DEF OperationFails, RepliedInv
  <2> QED
        BY <2>3, <2>5, <2>6 DEF RepliedInv
<1>8. CASE EndOfRequest
  <2>1. \A n \in DOMAIN sent : Due(sent[n])'
        BY <1>8, <1>t DEF EndOfRequest, RepliedInv, Due, Past
  <2> QED
        BY <1>8, <1>s, <2>1 DEF EndOfRequest, RepliedInv
<1>9. CASE PrepareTransaction
  <2>1. transaction = "open"
        BY <1>9 DEF PrepareTransaction, IInv, TypeOK
  <2>2. \A n \in DOMAIN sent :
           ~(sent[n].list = listNo /\ sent[n].tuple = tupleNo /\ sent[n].op = 0)
        BY <1>9, <1>t, <2>1 DEF PrepareTransaction, RepliedInv, Due, Past
  <2>3. \A n \in DOMAIN sent : Due(sent[n])'
        BY <1>9, <1>t DEF PrepareTransaction, RepliedInv, Due, Past
  <2> QED
        BY <1>9, <1>s, <2>2, <2>3 DEF PrepareTransaction, RepliedInv
<1>10. CASE NothingToPrepare
      BY <1>10, <1>s DEF NothingToPrepare, RepliedInv, Due, Past
<1>11. ASSUME NEW d \in decided, NdbExecuteCallback(d)
       PROVE  RepliedInv' /\ AtMostOneReply'
  <2>1. d.state \in prepared
        BY DEF IInv, PreparedInv
  <2>2. PICK status, results :
           ReplyWithResult(d.state.list, d.state.tuple, 0, status, results)
        BY <1>11 DEF NdbExecuteCallback
  <2>3. AtMostOneReply'
        BY <1>t, <2>1, <2>2, FreshReply DEF RepliedInv
  <2>4. prepared' = prepared \ {d.state} /\ sent \in Seq(Reply)
        BY <1>11, <1>t DEF NdbExecuteCallback
  <2>5. ASSUME NEW n \in DOMAIN sent'
        PROVE  Due(sent[n])'
        BY <1>11, <1>t, <2>1, <2>2, <2>5, ReplyAppended
           DEF NdbExecuteCallback, RepliedInv, Due, Past, IInv, PreparedInv, Waiting
  <2>6. ASSUME NEW n \in DOMAIN sent', NEW s \in prepared'
        PROVE  ~(sent[n].list = s.list /\ sent[n].tuple = s.tuple /\ sent[n].op = 0)'
        BY <1>t, <2>1, <2>2, <2>4, <2>6, ReplyAppended DEF RepliedInv, IInv, PreparedInv
  <2> QED
        BY <2>3, <2>5, <2>6 DEF RepliedInv
<1>12. CASE FlushDone
      BY <1>12, <1>s DEF FlushDone, RepliedInv, Due, Past
<1>13. CASE StartDrain
      BY <1>13, <1>s DEF StartDrain, RepliedInv, Due, Past
<1>14. CASE Return
      BY <1>14, <1>s DEF Return, RepliedInv, Due, Past
<1>15. ASSUME NEW s \in prepared, NdbDecides(s)
       PROVE  RepliedInv' /\ AtMostOneReply'
      BY <1>15, <1>s DEF NdbDecides, RepliedInv, Due, Past
<1>16. CASE UNCHANGED vars
      BY <1>16, <1>s DEF vars, RepliedInv, Due, Past
<1> QED
      BY <1>1, <1>2, <1>3, <1>4, <1>5, <1>6, <1>7, <1>8, <1>9, <1>10, <1>11,
         <1>12, <1>13, <1>14, <1>15, <1>16 DEF Next, ThreadStep

\* No request gets two verdicts, and no definition operation two answers, whatever
\* fails and in whatever order the callbacks come.
THEOREM NoSecondReply == Spec => []AtMostOneReply
<1>1. Init => RepliedInv /\ AtMostOneReply
      BY DEF Init, RepliedInv, AtMostOneReply
<1>2. IInv /\ RepliedInv /\ AtMostOneReply /\ [Next]_vars => RepliedInv' /\ AtMostOneReply'
      BY RepliedStep
<1> QED
      BY <1>1, <1>2, Invariance, PTL DEF Spec

-----------------------------------------------------------------------------
(* What the transactions of the thread do and what its replies say of them. *)

\* What belongs to the transaction of a request.
Gathered(l, t) == IndexesOf(OpsOf(l, t), ManipulationType)

\* The transaction being built holds the operations before the current one, and the
\* one to be prepared all of its request; so does every prepared one.
GatheredInv ==
    /\ pc = "operations" =>
          transactionOperations = {i \in Gathered(listNo, tupleNo) : i < opNo}
    /\ pc = "prepare" /\ transaction = "open" =>
          transactionOperations = Gathered(listNo, tupleNo)
    /\ \A s \in prepared : s.operations = Gathered(s.list, s.tuple)

\* What NDB reports as committed has taken effect.
CommittedInv ==
    \A d \in decided :
        d.result = "0" => Writes(<<d.state.list, d.state.tuple>>) \subseteq effects

\* The positions of the loops are places in the batch, and a task list is left at its end.
PlaceInv ==
    /\ pc # "idle" => listNo <= Len(messages)
    /\ pc \in {"tuples", "operations", "prepare", "flush"} =>
          listNo > 0 /\ tupleNo <= Len(messages[listNo])
    /\ pc \in {"operations", "prepare"} => tupleNo > 0
    /\ pc = "lists" /\ listNo > 0 => tupleNo = Len(messages[listNo])

EffectInv == GatheredInv /\ CommittedInv /\ AllOrNothing /\ SuccessIsDurable
-----------------------------------------------------------------------------
\* The effects of a definition operation are never those of a transaction.
LEMMA DefinitionsApart ==
    ASSUME CurrentType \in DefinitionType, NEW slot
    PROVE  <<listNo, tupleNo, opNo>> \notin Writes(slot)
BY DEF Writes, IndexesOf, CurrentType, CurrentOps, OpsOf, DefinitionType,
       ManipulationType, WriteType

\* A transaction writes what its request asks for, and nothing of another request.
LEMMA WritesOfTransaction ==
    ASSUME NEW s, s.operations = Gathered(s.list, s.tuple)
    PROVE  {<<s.list, s.tuple, i>> : i \in
               {i \in s.operations : OpsOf(s.list, s.tuple)[i] \in WriteType}}
           = Writes(<<s.list, s.tuple>>)
BY DEF Writes, Gathered, IndexesOf

LEMMA WritesApart ==
    ASSUME NEW l, NEW t, NEW k, NEW u, <<l, t>> # <<k, u>>
    PROVE  Writes(<<l, t>>) \cap Writes(<<k, u>>) = {}
BY DEF Writes

\* Writes depends on the batch only.
LEMMA SameWrites ==
    ASSUME UNCHANGED messages
    PROVE  /\ \A slot : Writes(slot)' = Writes(slot)
           /\ \A l, t : Gathered(l, t)' = Gathered(l, t)
           /\ \A l, t : OpsOf(l, t)' = OpsOf(l, t)
           /\ Slots' = Slots
BY DEF Writes, Gathered, OpsOf, Slots

\* The elements up to n are those before n, and n.
LEMMA OneFurther ==
    ASSUME NEW S, \A i \in S : i \in Nat, NEW n \in S
    PROVE  {i \in S : i < n} \cup {n} = {i \in S : i < n + 1}
<1>1. \A i \in S : i < n + 1 <=> i < n \/ i = n
      OBVIOUS
<1> QED
      BY <1>1, Zenon

LEMMA SlotPair ==
    ASSUME NEW slot \in Slots
    PROVE  \E l, t : slot = <<l, t>>
BY DEF Slots
-----------------------------------------------------------------------------
LEMMA PlaceStep ==
    IInv /\ PlaceInv /\ [Next]_vars => PlaceInv'
<1> SUFFICES ASSUME IInv, PlaceInv, [Next]_vars
             PROVE  PlaceInv'
    OBVIOUS
<1> USE DEF PlaceInv, loopVars, transactionVars, ndbVars, outputVars
<1>t. /\ listNo \in Nat /\ tupleNo \in Nat /\ messages \in Seq(Seq(FrameMessagesTuple))
      /\ pc \in PC
      BY DEF IInv, TypeOK
<1>l. \A l \in 1 .. Len(messages) : Len(messages[l]) \in Nat
  <2>1. \A l \in 1 .. Len(messages) : messages[l] \in Seq(FrameMessagesTuple)
        BY <1>t
  <2> QED
        BY <2>1
<1>1. ASSUME NEW batch \in Batches, Execute(batch)
      PROVE  PlaceInv'
      BY <1>1, BatchesAssumption DEF Execute
<1>2. CASE NextTaskList
      BY <1>2, <1>t, <1>l DEF NextTaskList
<1>3. CASE NextRequest
      BY <1>3, <1>t, <1>l DEF NextRequest
<1>4. CASE EndOfTaskList
      BY <1>4, <1>t DEF EndOfTaskList
<1>5. CASE ExecuteDefinition
      BY <1>5 DEF ExecuteDefinition
<1>6. CASE AddOperation
      BY <1>6 DEF AddOperation
<1>7. CASE OperationFails
      BY <1>7 DEF OperationFails
<1>8. CASE EndOfRequest
      BY <1>8 DEF EndOfRequest
<1>9. CASE PrepareTransaction
      BY <1>9 DEF PrepareTransaction
<1>10. CASE NothingToPrepare
      BY <1>10 DEF NothingToPrepare
<1>11. ASSUME NEW d \in decided, NdbExecuteCallback(d)
       PROVE  PlaceInv'
      BY <1>11 DEF NdbExecuteCallback
<1>12. CASE FlushDone
      BY <1>12 DEF FlushDone
<1>13. CASE StartDrain
      BY <1>13 DEF StartDrain
<1>14. CASE Return
      BY <1>14 DEF Return
<1>15. ASSUME NEW s \in prepared, NdbDecides(s)
       PROVE  PlaceInv'
      BY <1>15 DEF NdbDecides
<1>16. CASE UNCHANGED vars
      BY <1>16 DEF vars
<1> QED
      BY <1>1, <1>2, <1>3, <1>4, <1>5, <1>6, <1>7, <1>8, <1>9, <1>10, <1>11,
         <1>12, <1>13, <1>14, <1>15, <1>16 DEF Next, ThreadStep

\* The operations of a request of the batch are numbered from one.
LEMMA OpsOfRequest ==
    ASSUME TypeOK, NEW l \in 1 .. Len(messages), NEW t \in 1 .. Len(messages[l])
    PROVE  /\ OpsOf(l, t) \in Seq(FrameItemType)
           /\ DOMAIN OpsOf(l, t) = 1 .. Len(OpsOf(l, t))
           /\ Len(OpsOf(l, t)) \in Nat
<1>1. messages[l] \in Seq(FrameMessagesTuple)
      BY DEF TypeOK
<1>2. messages[l][t] \in FrameMessagesTuple
      BY <1>1
<1>3. OpsOf(l, t) \in Seq(FrameItemType)
      BY <1>2 DEF FrameMessagesTuple, OpsOf
<1> QED
      BY <1>3

\* A step that sends no reply, and has no effect, keeps what was said.
LEMMA NothingSaid ==
    ASSUME CommittedInv, AllOrNothing, SuccessIsDurable, decided' \subseteq decided,
           UNCHANGED <<messages, sent, effects>>
    PROVE  CommittedInv' /\ AllOrNothing' /\ SuccessIsDurable'
<1>1. /\ \A slot : Writes(slot)' = Writes(slot)
      /\ \A l, t : OpsOf(l, t)' = OpsOf(l, t)
      /\ Slots' = Slots
      BY SameWrites
<1>2. CommittedInv'
      BY <1>1 DEF CommittedInv
<1>3. AllOrNothing'
      BY <1>1 DEF AllOrNothing
<1>4. SuccessIsDurable'
      BY <1>1 DEF SuccessIsDurable
<1> QED
      BY <1>2, <1>3, <1>4

\* Every step of the thread, and of NDB, keeps the outcome of transactions and what
\* is said of it together.
LEMMA EffectStep ==
    IInv /\ PlaceInv /\ EffectInv /\ [Next]_vars => EffectInv'
<1> SUFFICES ASSUME IInv, PlaceInv, EffectInv, [Next]_vars
             PROVE  EffectInv'
    OBVIOUS
<1> USE DEF loopVars, transactionVars, ndbVars, outputVars
<1>e. GatheredInv /\ CommittedInv /\ AllOrNothing /\ SuccessIsDurable
      BY DEF EffectInv
<1>g. ASSUME UNCHANGED messages
      PROVE  \A l, t : Gathered(l, t)' = Gathered(l, t)
      BY <1>g, SameWrites
<1>p. ASSUME pc = "operations"
      PROVE  /\ DOMAIN OpsOf(listNo, tupleNo) = 1 .. Len(OpsOf(listNo, tupleNo))
             /\ Len(OpsOf(listNo, tupleNo)) \in Nat
             /\ \A i \in Gathered(listNo, tupleNo) : i \in Nat
  <2>1. listNo \in 1 .. Len(messages)
        BY <1>p DEF PlaceInv, IInv, TypeOK
  <2>2. messages[listNo] \in Seq(FrameMessagesTuple)
        BY <2>1 DEF IInv, TypeOK
  <2>3. tupleNo \in 1 .. Len(messages[listNo])
        BY <1>p, <2>2 DEF PlaceInv, IInv, TypeOK
  <2> QED
        BY <2>1, <2>3, OpsOfRequest DEF IInv, Gathered, IndexesOf
<1>r. ASSUME NEW l, NEW t, ReplyWithResult(l, t, 0, "error", {})
      PROVE  \A n \in DOMAIN sent' :
                (n \in DOMAIN sent /\ sent'[n] = sent[n]) \/ sent'[n].status = "error"
      BY <1>r DEF ReplyWithResult, IInv, TypeOK
<1>1. ASSUME NEW batch \in Batches, Execute(batch)
      PROVE  EffectInv'
  <2>1. prepared' = {} /\ decided' = {} /\ pc' = "lists" /\ sent' = <<>> /\ effects' = {}
        BY <1>1 DEF Execute, IInv, ControlInv, PreparedInv
  <2> QED
        BY <2>1 DEF EffectInv, GatheredInv, CommittedInv, AllOrNothing, SuccessIsDurable
<1>2. CASE NextTaskList
      BY <1>2, <1>e, <1>g, NothingSaid DEF NextTaskList, EffectInv, GatheredInv
<1>3. CASE NextRequest
  <2>1. /\ listNo \in 1 .. Len(messages)
        /\ tupleNo + 1 \in 1 .. Len(messages[listNo])
    <3>1. listNo \in 1 .. Len(messages)
          BY <1>3 DEF NextRequest, PlaceInv, IInv, TypeOK
    <3>2. messages[listNo] \in Seq(FrameMessagesTuple)
          BY <3>1 DEF IInv, TypeOK
    <3> QED
          BY <1>3, <3>1, <3>2 DEF NextRequest, IInv, TypeOK
  <2>2. ~\E i \in Gathered(listNo, tupleNo + 1) : i < 1
    <3>1. TypeOK
          BY DEF IInv
    <3>2. DOMAIN OpsOf(listNo, tupleNo + 1) = 1 .. Len(OpsOf(listNo, tupleNo + 1))
          BY <2>1, <3>1, OpsOfRequest
    <3> QED
          BY <3>2 DEF Gathered, IndexesOf
  <2>3. GatheredInv'
        BY <1>3, <1>e, <1>g, <2>2 DEF NextRequest, GatheredInv
  <2> QED
        BY <1>3, <1>e, <2>3, NothingSaid DEF NextRequest, EffectInv
<1>4. CASE EndOfTaskList
      BY <1>4, <1>e, <1>g, NothingSaid DEF EndOfTaskList, EffectInv, GatheredInv
<1>5. CASE ExecuteDefinition
  <2>1. opNo \notin Gathered(listNo, tupleNo)
        BY <1>5 DEF ExecuteDefinition, Gathered, IndexesOf, CurrentType, CurrentOps,
                    DefinitionType, ManipulationType
  <2>2. \A i \in Gathered(listNo, tupleNo) : i \in Nat
        BY <1>p, <1>5 DEF ExecuteDefinition
  <2>3. GatheredInv'
        BY <1>5, <1>e, <1>g, <2>1, <2>2 DEF ExecuteDefinition, GatheredInv, IInv, TypeOK
  <2>4. /\ \A slot : Writes(slot)' = Writes(slot)
        /\ \A l, t : OpsOf(l, t)' = OpsOf(l, t)
        /\ Slots' = Slots
        BY <1>5, SameWrites DEF ExecuteDefinition
  <2>5. /\ effects \subseteq effects'
        /\ effects' \subseteq effects \cup {<<listNo, tupleNo, opNo>>}
        BY <1>5 DEF ExecuteDefinition
  <2>6. CommittedInv'
        BY <1>5, <1>e, <2>4, <2>5 DEF ExecuteDefinition, CommittedInv
  <2>7. AllOrNothing'
        BY <1>5, <1>e, <2>4, <2>5, DefinitionsApart DEF ExecuteDefinition, AllOrNothing
  <2>8. SuccessIsDurable'
    <3>1. PICK status, results : ReplyWithResult(listNo, tupleNo, opNo, status, results)
          BY <1>5 DEF ExecuteDefinition
    <3>2. opNo # 0
          BY <1>5 DEF ExecuteDefinition, IInv, ControlInv
    <3>3. sent \in Seq(Reply)
          BY DEF IInv, TypeOK
    <3>4. ASSUME NEW n \in DOMAIN sent', sent'[n].op = 0
          PROVE  n \in DOMAIN sent /\ sent'[n] = sent[n]
          BY <3>1, <3>2, <3>3, <3>4, ReplyAppended
    <3> QED
          BY <1>e, <2>4, <2>5, <3>4 DEF SuccessIsDurable
  <2> QED
        BY <2>3, <2>6, <2>7, <2>8 DEF EffectInv
<1>6. CASE AddOperation
  <2>1. opNo \in Gathered(listNo, tupleNo)
        BY <1>p, <1>6 DEF AddOperation, Gathered, IndexesOf, CurrentType, CurrentOps,
                          IInv, ControlInv, TypeOK
  <2>2. \A i \in Gathered(listNo, tupleNo) : i \in Nat
        BY <1>p, <1>6 DEF AddOperation
  <2>3. {i \in Gathered(listNo, tupleNo) : i < opNo} \cup {opNo}
            = {i \in Gathered(listNo, tupleNo) : i < opNo + 1}
        BY <2>1, <2>2, OneFurther
  <2>4. transactionOperations' = {i \in Gathered(listNo, tupleNo) : i < opNo + 1}
        BY <1>6, <1>e, <2>3 DEF AddOperation, GatheredInv
  <2>5. GatheredInv'
        BY <1>6, <1>e, <1>g, <2>4 DEF AddOperation, GatheredInv
  <2> QED
        BY <1>6, <1>e, <2>5, NothingSaid DEF AddOperation, EffectInv
<1>7. CASE OperationFails
  <2>1. /\ \A slot : Writes(slot)' = Writes(slot)
        /\ \A l, t : OpsOf(l, t)' = OpsOf(l, t)
        /\ Slots' = Slots
        BY <1>7, SameWrites DEF OperationFails
  <2>2. GatheredInv'
        BY <1>7, <1>e, <1>g DEF OperationFails, GatheredInv
  <2>3. CommittedInv' /\ AllOrNothing'
        BY <1>7, <1>e, <2>1 DEF OperationFails, CommittedInv, AllOrNothing
  <2>4. SuccessIsDurable'
        BY <1>7, <1>e, <1>r, <2>1 DEF OperationFails, SuccessIsDurable
  <2> QED
        BY <2>2, <2>3, <2>4 DEF EffectInv
<1>8. CASE EndOfRequest
  <2>1. \A i \in Gathered(listNo, tupleNo) : i < opNo
        BY <1>p, <1>8 DEF EndOfRequest, CurrentOps, Gathered, IndexesOf, IInv, TypeOK
  <2>2. GatheredInv'
        BY <1>8, <1>e, <1>g, <2>1 DEF EndOfRequest, GatheredInv
  <2> QED
        BY <1>8, <1>e, <2>2, NothingSaid DEF EndOfRequest, EffectInv
<1>9. CASE PrepareTransaction
  <2>1. transactionOperations = Gathered(listNo, tupleNo)
        BY <1>9, <1>e DEF PrepareTransaction, GatheredInv, IInv, TypeOK
  <2>2. GatheredInv'
        BY <1>9, <1>e, <1>g, <2>1 DEF PrepareTransaction, GatheredInv
  <2> QED
        BY <1>9, <1>e, <2>2, NothingSaid DEF PrepareTransaction, EffectInv
<1>10. CASE NothingToPrepare
      BY <1>10, <1>e, <1>g, NothingSaid DEF NothingToPrepare, EffectInv, GatheredInv
<1>11. ASSUME NEW d \in decided, NdbExecuteCallback(d)
       PROVE  EffectInv'
  <2>1. d.state \in prepared
        BY DEF IInv, PreparedInv
  <2>2. d.state.operations = Gathered(d.state.list, d.state.tuple)
        BY <1>e, <2>1 DEF GatheredInv
  <2>3. /\ \A slot : Writes(slot)' = Writes(slot)
        /\ \A l, t : OpsOf(l, t)' = OpsOf(l, t)
        /\ Slots' = Slots
        BY <1>11, SameWrites DEF NdbExecuteCallback
  <2>4. GatheredInv'
        BY <1>11, <1>e, <1>g DEF NdbExecuteCallback, GatheredInv, Waiting
  <2>5. CommittedInv' /\ AllOrNothing'
        BY <1>11, <1>e, <2>3 DEF NdbExecuteCallback, CommittedInv, AllOrNothing
  <2>6. SuccessIsDurable'
    <3>1. CASE d.result = "-1"
          BY <1>11, <1>e, <1>r, <2>3, <3>1 DEF NdbExecuteCallback, SuccessIsDurable
    <3>2. CASE d.result # "-1"
      <4>1. d.result = "0"
            BY <3>2 DEF IInv, TypeOK
      <4>2. Writes(<<d.state.list, d.state.tuple>>) \subseteq effects
            BY <1>e, <4>1 DEF CommittedInv
      <4>3. sent' = Append(sent, [list |-> d.state.list, tuple |-> d.state.tuple, op |-> 0,
                                 status |-> "ok", results |-> d.state.operations])
            BY <1>11, <3>2 DEF NdbExecuteCallback, ReplyWithResult
      <4>4. effects' = effects
            BY <1>11 DEF NdbExecuteCallback
      <4>5. ASSUME NEW n \in DOMAIN sent'
            PROVE  \/ n \in DOMAIN sent /\ sent'[n] = sent[n]
                   \/ /\ sent'[n].list = d.state.list /\ sent'[n].tuple = d.state.tuple
                      /\ sent'[n].results = Gathered(d.state.list, d.state.tuple)
            BY <2>2, <4>3, <4>5 DEF IInv, TypeOK
      <4> QED
            BY <1>e, <2>3, <4>2, <4>4, <4>5 DEF SuccessIsDurable, Gathered
    <3> QED
          BY <3>1, <3>2
  <2> QED
        BY <2>4, <2>5, <2>6 DEF EffectInv
<1>12. CASE FlushDone
      BY <1>12, <1>e, <1>g, NothingSaid DEF FlushDone, EffectInv, GatheredInv
<1>13. CASE StartDrain
      BY <1>13, <1>e, <1>g, NothingSaid DEF StartDrain, EffectInv, GatheredInv
<1>14. CASE Return
      BY <1>14, <1>e, <1>g, NothingSaid DEF Return, EffectInv, GatheredInv
<1>15. ASSUME NEW s \in prepared, NdbDecides(s)
       PROVE  EffectInv'
  <2> DEFINE mine == Writes(<<s.list, s.tuple>>)
  <2>1. /\ \A slot : Writes(slot)' = Writes(slot)
        /\ \A l, t : OpsOf(l, t)' = OpsOf(l, t)
        /\ Slots' = Slots
        BY <1>15, SameWrites DEF NdbDecides
  <2>2. GatheredInv'
        BY <1>15, <1>e, <1>g DEF NdbDecides, GatheredInv, Waiting
  <2>3. s.operations = Gathered(s.list, s.tuple)
        BY <1>e DEF GatheredInv
  <2>4. {<<s.list, s.tuple, i>> : i \in
            {i \in s.operations : OpsOf(s.list, s.tuple)[i] \in WriteType}} = mine
        BY <2>3, WritesOfTransaction
  <2>5. \/ effects' = effects \cup mine
        \/ effects' = effects
        BY <1>15, <2>4 DEF NdbDecides
  <2>6. ASSUME NEW d \in decided'
        PROVE  \/ d \in decided
               \/ d.state = s /\ (d.result = "0" => effects' = effects \cup mine)
        BY <1>15, <2>4, <2>6 DEF NdbDecides
  <2>7. CommittedInv'
    <3> HIDE DEF mine
    <3>1. ASSUME NEW d \in decided', d.result = "0"
          PROVE  Writes(<<d.state.list, d.state.tuple>>) \subseteq effects'
      <4>1. CASE d \in decided
            BY <1>e, <2>5, <3>1, <4>1 DEF CommittedInv
      <4>2. CASE d.state = s /\ effects' = effects \cup mine
            BY <4>2 DEF mine
      <4> QED
            BY <2>6, <3>1, <4>1, <4>2
    <3> QED
          BY <2>1, <3>1 DEF CommittedInv
  <2>8. AllOrNothing'
    <3> SUFFICES ASSUME NEW slot \in Slots
                 PROVE  Writes(slot) \subseteq effects' \/ Writes(slot) \cap effects' = {}
        BY <2>1 DEF AllOrNothing
    <3>1. Writes(slot) \subseteq effects \/ Writes(slot) \cap effects = {}
          BY <1>e DEF AllOrNothing
    <3>2. slot = <<s.list, s.tuple>> \/ Writes(slot) \cap mine = {}
          BY SlotPair, WritesApart
    <3> QED
          BY <2>5, <3>1, <3>2
  <2>9. SuccessIsDurable'
        BY <1>15, <1>e, <2>1, <2>5 DEF NdbDecides, SuccessIsDurable
  <2> QED
        BY <2>2, <2>7, <2>8, <2>9 DEF EffectInv
<1>16. CASE UNCHANGED vars
      BY <1>16, <1>e, <1>g, NothingSaid DEF vars, EffectInv, GatheredInv
<1> QED
      BY <1>1, <1>2, <1>3, <1>4, <1>5, <1>6, <1>7, <1>8, <1>9, <1>10, <1>11,
         <1>12, <1>13, <1>14, <1>15, <1>16 DEF Next, ThreadStep

LEMMA EffectInvariance == Spec => [](IInv /\ PlaceInv /\ EffectInv)
<1>1. Init => PlaceInv /\ EffectInv
      BY DEF Init, PlaceInv, EffectInv, GatheredInv, CommittedInv, AllOrNothing,
             SuccessIsDurable
<1> QED
      BY <1>1, Invariance, PlaceStep, EffectStep, PTL DEF Spec

\* The SET and DELETE operations of a request take effect together or not at all,
\* whichever of its operations could not be added and whatever NDB decides.
THEOREM TransactionsAreAtomic == Spec => []AllOrNothing
<1>1. EffectInv => AllOrNothing
      BY DEF EffectInv
<1> QED
      BY <1>1, EffectInvariance, PTL

\* A success is only reported for a request all of whose writes have taken effect, and
\* reports on each of its SET, DELETE and GET operations.
THEOREM SuccessCanBeTrusted == Spec => []SuccessIsDurable
<1>1. EffectInv => SuccessIsDurable
      BY DEF EffectInv
<1> QED
      BY <1>1, EffectInvariance, PTL
-----------------------------------------------------------------------------
\* A request that asks for more than definition operations.
Asks(l, t) == \E i \in DOMAIN OpsOf(l, t) : OpsOf(l, t)[i] \notin DefinitionType

Verdict(l, t) ==
    \E n \in DOMAIN sent : sent[n].list = l /\ sent[n].tuple = t /\ sent[n].op = 0

Pending(l, t) == \E s \in prepared : s.list = l /\ s.tuple = t

\* A request the thread has left has had its verdict or has a prepared transaction.
\* The one it is in has a transaction from its first SET, DELETE or GET on, and loses
\* it with the verdict.
SettledInv ==
    /\ \A l \in 1 .. Len(messages) : \A t \in 1 .. Len(messages[l]) :
          Past([list |-> l, tuple |-> t]) /\ Asks(l, t) => Verdict(l, t) \/ Pending(l, t)
    /\ pc = "operations" =>
          \A i \in DOMAIN CurrentOps :
             i < opNo /\ CurrentOps[i] \notin DefinitionType => transaction = "open"
    /\ pc = "prepare" /\ transaction = "nullptr" /\ Asks(listNo, tupleNo) =>
          Verdict(listNo, tupleNo)

\* A step that sends no reply leaves the verdicts alone, and one that sends a reply
\* keeps those there are.
LEMMA VerdictsStay ==
    ASSUME sent \in Seq(Reply), UNCHANGED messages,
           \/ UNCHANGED sent
           \/ \E l, t, i, status, results : ReplyWithResult(l, t, i, status, results)
    PROVE  /\ \A l, t : Asks(l, t)' = Asks(l, t)
           /\ \A l, t : Verdict(l, t) => Verdict(l, t)'
<1>1. \A l, t : Asks(l, t)' = Asks(l, t)
      BY DEF Asks, OpsOf
<1>2. CASE UNCHANGED sent
      BY <1>1, <1>2 DEF Verdict
<1>3. ASSUME NEW l, NEW t, NEW i, NEW status, NEW results,
             ReplyWithResult(l, t, i, status, results)
      PROVE  \A k, u : Verdict(k, u) => Verdict(k, u)'
      BY <1>3, ReplyAppended DEF Verdict
<1> QED
      BY <1>1, <1>2, <1>3

LEMMA NewVerdict ==
    ASSUME sent \in Seq(Reply), NEW l, NEW t, NEW status, NEW results,
           ReplyWithResult(l, t, 0, status, results)
    PROVE  Verdict(l, t)'
BY ReplyAppended DEF Verdict

\* A step that leaves the loops, the transaction and the replies as they are, within
\* the places where no request is open.
LEMMA Elsewhere ==
    ASSUME SettledInv, UNCHANGED <<messages, listNo, tupleNo, sent, prepared>>,
           pc \notin {"operations", "prepare"}, pc' \notin {"operations", "prepare"}
    PROVE  SettledInv'
<1>1. \A l, t : /\ Asks(l, t)' = Asks(l, t)
                /\ Verdict(l, t)' = Verdict(l, t)
                /\ Pending(l, t)' = Pending(l, t)
                /\ Past([list |-> l, tuple |-> t])' = Past([list |-> l, tuple |-> t])
      BY DEF Asks, OpsOf, Verdict, Pending, Past
<1> QED
      BY <1>1 DEF SettledInv

LEMMA SettledStep ==
    IInv /\ PlaceInv /\ SettledInv /\ [Next]_vars => SettledInv'
<1> SUFFICES ASSUME IInv, PlaceInv, SettledInv, [Next]_vars
             PROVE  SettledInv'
    OBVIOUS
<1> USE DEF loopVars, transactionVars, ndbVars, outputVars
<1>t. /\ listNo \in Nat /\ tupleNo \in Nat /\ opNo \in Nat /\ sent \in Seq(Reply)
      /\ pc \in PC /\ transaction \in {"nullptr", "open"}
      BY DEF IInv, TypeOK
<1>l. \A l \in 1 .. Len(messages) : Len(messages[l]) \in Nat
  <2>1. \A l \in 1 .. Len(messages) : messages[l] \in Seq(FrameMessagesTuple)
        BY DEF IInv, TypeOK
  <2> QED
        BY <2>1
<1>p. ASSUME pc \in {"operations", "prepare"}
      PROVE  /\ listNo \in 1 .. Len(messages) /\ tupleNo \in 1 .. Len(messages[listNo])
             /\ DOMAIN CurrentOps = 1 .. Len(CurrentOps) /\ Len(CurrentOps) \in Nat
  <2>1. listNo \in 1 .. Len(messages) /\ tupleNo \in 1 .. Len(messages[listNo])
        BY <1>p, <1>t, <1>l DEF PlaceInv, IInv, TypeOK
  <2> QED
        BY <2>1, OpsOfRequest DEF IInv, CurrentOps
<1>o. ASSUME NEW l \in 1 .. Len(messages), NEW t \in 1 .. Len(messages[l]),
             Past([list |-> l, tuple |-> t]), Asks(l, t)
      PROVE  Verdict(l, t) \/ Pending(l, t)
      BY <1>o DEF SettledInv
<1>1. ASSUME NEW batch \in Batches, Execute(batch)
      PROVE  SettledInv'
      BY <1>1, BatchesAssumption DEF Execute, SettledInv, Past
<1>2. CASE NextTaskList
  <2>1. /\ \A l, t : Asks(l, t)' = Asks(l, t)
        /\ \A l, t : Verdict(l, t) => Verdict(l, t)'
        BY <1>2, <1>t, VerdictsStay DEF NextTaskList
  <2>2. \A l, t : Pending(l, t)' = Pending(l, t)
        BY <1>2 DEF NextTaskList, Pending
  <2>3. ASSUME NEW l \in 1 .. Len(messages), NEW t \in 1 .. Len(messages[l]),
               Past([list |-> l, tuple |-> t])'
        PROVE  Past([list |-> l, tuple |-> t])
        BY <1>2, <1>t, <1>l, <2>3 DEF NextTaskList, Past, PlaceInv
  <2> QED
        BY <1>2, <1>o, <2>1, <2>2, <2>3 DEF NextTaskList, SettledInv
<1>3. CASE NextRequest
  <2>1. /\ \A l, t : Asks(l, t)' = Asks(l, t)
        /\ \A l, t : Verdict(l, t) => Verdict(l, t)'
        BY <1>3, <1>t, VerdictsStay DEF NextRequest
  <2>2. \A l, t : Pending(l, t)' = Pending(l, t)
        BY <1>3 DEF NextRequest, Pending
  <2>3. ASSUME NEW l \in 1 .. Len(messages), NEW t \in 1 .. Len(messages[l]),
               Past([list |-> l, tuple |-> t])'
        PROVE  Past([list |-> l, tuple |-> t])
        BY <1>3, <1>t, <1>l, <2>3 DEF NextRequest, Past
  <2>4. \A i \in DOMAIN CurrentOps' : ~(i < opNo')
    <3>1. listNo \in 1 .. Len(messages) /\ tupleNo + 1 \in 1 .. Len(messages[listNo])
          BY <1>3, <1>t, <1>l DEF NextRequest, PlaceInv, IInv, TypeOK
    <3>2. DOMAIN OpsOf(listNo, tupleNo + 1) = 1 .. Len(OpsOf(listNo, tupleNo + 1))
          BY <3>1, OpsOfRequest DEF IInv
    <3> QED
          BY <1>3, <3>2 DEF NextRequest, CurrentOps, OpsOf
  <2> QED
        BY <1>3, <1>o, <2>1, <2>2, <2>3, <2>4 DEF NextRequest, SettledInv
<1>4. CASE EndOfTaskList
      BY <1>4, Elsewhere DEF EndOfTaskList
<1>5. CASE ExecuteDefinition
  <2>1. \E status, results : ReplyWithResult(listNo, tupleNo, opNo, status, results)
        BY <1>5 DEF ExecuteDefinition
  <2>2. /\ \A l, t : Asks(l, t)' = Asks(l, t)
        /\ \A l, t : Verdict(l, t) => Verdict(l, t)'
        BY <1>5, <1>t, <2>1, VerdictsStay DEF ExecuteDefinition
  <2>3. \A l, t : /\ Pending(l, t)' = Pending(l, t)
                  /\ Past([list |-> l, tuple |-> t])' = Past([list |-> l, tuple |-> t])
        BY <1>5 DEF ExecuteDefinition, Pending, Past
  <2>4. ASSUME NEW i \in DOMAIN CurrentOps, i < opNo + 1,
               CurrentOps[i] \notin DefinitionType
        PROVE  transaction = "open"
        BY <1>5, <1>t, <1>p, <2>4 DEF ExecuteDefinition, SettledInv, CurrentType
  <2>5. CurrentOps' = CurrentOps
        BY <1>5 DEF ExecuteDefinition, CurrentOps, OpsOf
  <2> QED
        BY <1>5, <1>o, <2>2, <2>3, <2>4, <2>5 DEF ExecuteDefinition, SettledInv
<1>6. CASE AddOperation
  <2>1. /\ \A l, t : Asks(l, t)' = Asks(l, t)
        /\ \A l, t : Verdict(l, t) => Verdict(l, t)'
        BY <1>6, <1>t, VerdictsStay DEF AddOperation
  <2>2. \A l, t : /\ Pending(l, t)' = Pending(l, t)
                  /\ Past([list |-> l, tuple |-> t])' = Past([list |-> l, tuple |-> t])
        BY <1>6 DEF AddOperation, Pending, Past
  <2> QED
        BY <1>6, <1>o, <2>1, <2>2 DEF AddOperation, SettledInv
<1>7. CASE OperationFails
  <2>1. /\ \A l, t : Asks(l, t)' = Asks(l, t)
        /\ \A l, t : Verdict(l, t) => Verdict(l, t)'
        BY <1>7, <1>t, VerdictsStay DEF OperationFails
  <2>2. \A l, t : /\ Pending(l, t)' = Pending(l, t)
                  /\ Past([list |-> l, tuple |-> t])' = Past([list |-> l, tuple |-> t])
        BY <1>7 DEF OperationFails, Pending, Past
  <2>3. Verdict(listNo, tupleNo)'
        BY <1>7, <1>t, NewVerdict DEF OperationFails
  <2> QED
        BY <1>7, <1>o, <2>1, <2>2, <2>3 DEF OperationFails, SettledInv
<1>8. CASE EndOfRequest
  <2>1. /\ \A l, t : Asks(l, t)' = Asks(l, t)
        /\ \A l, t : Verdict(l, t) => Verdict(l, t)'
        BY <1>8, <1>t, VerdictsStay DEF EndOfRequest
  <2>2. \A l, t : /\ Pending(l, t)' = Pending(l, t)
                  /\ Past([list |-> l, tuple |-> t])' = Past([list |-> l, tuple |-> t])
        BY <1>8 DEF EndOfRequest, Pending, Past
  <2>3. Asks(listNo, tupleNo) => transaction = "open"
        BY <1>8, <1>t, <1>p DEF EndOfRequest, SettledInv, Asks, CurrentOps
  <2> QED
        BY <1>8, <1>o, <2>1, <2>2, <2>3 DEF EndOfRequest, SettledInv
<1>9. CASE PrepareTransaction
  <2>1. /\ \A l, t : Asks(l, t)' = Asks(l, t)
        /\ \A l, t : Verdict(l, t) => Verdict(l, t)'
        BY <1>9, <1>t, VerdictsStay DEF PrepareTransaction
  <2>2. \A l, t : Pending(l, t) => Pending(l, t)'
        BY <1>9 DEF PrepareTransaction, Pending
  <2>3. ASSUME NEW l, NEW t, l = listNo, t = tupleNo
        PROVE  Pending(l, t)'
    <3> DEFINE new == [list |-> listNo, tuple |-> tupleNo,
                       operations |-> transactionOperations]
    <3>1. new \in prepared' /\ new.list = listNo /\ new.tuple = tupleNo
          BY <1>9 DEF PrepareTransaction
    <3> QED
          BY <2>3, <3>1 DEF Pending
  <2>4. ASSUME NEW l \in 1 .. Len(messages), NEW t \in 1 .. Len(messages[l]),
               Past([list |-> l, tuple |-> t])'
        PROVE  Past([list |-> l, tuple |-> t]) \/ (l = listNo /\ t = tupleNo)
        BY <1>9, <2>4 DEF PrepareTransaction, Past
  <2>5. pc' \in {"flush", "tuples"} /\ messages' = messages
        BY <1>9 DEF PrepareTransaction
  <2> QED
        BY <1>o, <2>1, <2>2, <2>3, <2>4, <2>5 DEF SettledInv
<1>10. CASE NothingToPrepare
  <2>1. /\ \A l, t : Asks(l, t)' = Asks(l, t)
        /\ \A l, t : Verdict(l, t) => Verdict(l, t)'
        BY <1>10, <1>t, VerdictsStay DEF NothingToPrepare
  <2>2. \A l, t : Pending(l, t)' = Pending(l, t)
        BY <1>10 DEF NothingToPrepare, Pending
  <2>3. Asks(listNo, tupleNo) => Verdict(listNo, tupleNo)
        BY <1>10 DEF NothingToPrepare, SettledInv
  <2>4. ASSUME NEW l \in 1 .. Len(messages), NEW t \in 1 .. Len(messages[l]),
               Past([list |-> l, tuple |-> t])'
        PROVE  Past([list |-> l, tuple |-> t]) \/ (l = listNo /\ t = tupleNo)
        BY <1>10, <2>4 DEF NothingToPrepare, Past
  <2>5. pc' = "tuples" /\ messages' = messages
        BY <1>10 DEF NothingToPrepare
  <2> QED
        BY <1>o, <2>1, <2>2, <2>3, <2>4, <2>5 DEF SettledInv
<1>11. ASSUME NEW d \in decided, NdbExecuteCallback(d)
       PROVE  SettledInv'
  <2>1. \E status, results :
           ReplyWithResult(d.state.list, d.state.tuple, 0, status, results)
        BY <1>11 DEF NdbExecuteCallback
  <2>2. /\ \A l, t : Asks(l, t)' = Asks(l, t)
        /\ \A l, t : Verdict(l, t) => Verdict(l, t)'
        BY <1>11, <1>t, <2>1, VerdictsStay DEF NdbExecuteCallback
  <2>3. Verdict(d.state.list, d.state.tuple)'
        BY <1>t, <2>1, NewVerdict
  <2>4. \A l, t : Pending(l, t) =>
           Pending(l, t)' \/ (l = d.state.list /\ t = d.state.tuple)
        BY <1>11 DEF NdbExecuteCallback, Pending
  <2>5. \A l, t : Past([list |-> l, tuple |-> t])' = Past([list |-> l, tuple |-> t])
        BY <1>11 DEF NdbExecuteCallback, Past
  <2>6. pc' \in {"flush", "drain"} /\ messages' = messages
        BY <1>11 DEF NdbExecuteCallback, Waiting
  <2> QED
        BY <1>o, <2>2, <2>3, <2>4, <2>5, <2>6 DEF SettledInv
<1>12. CASE FlushDone
      BY <1>12, Elsewhere DEF FlushDone
<1>13. CASE StartDrain
      BY <1>13, Elsewhere DEF StartDrain
<1>14. CASE Return
      BY <1>14, Elsewhere DEF Return
<1>15. ASSUME NEW s \in prepared, NdbDecides(s)
       PROVE  SettledInv'
      BY <1>15, Elsewhere DEF NdbDecides, Waiting
<1>16. CASE UNCHANGED vars
      BY <1>16 DEF vars, SettledInv, Past, Asks, Verdict, Pending, CurrentOps, OpsOf
<1> QED
      BY <1>1, <1>2, <1>3, <1>4, <1>5, <1>6, <1>7, <1>8, <1>9, <1>10, <1>11,
         <1>12, <1>13, <1>14, <1>15, <1>16 DEF Next, ThreadStep

\* A definition operation never runs ahead of as many as BatchLimit earlier requests.
THEOREM DefinitionsOvertakeFew == Spec => []OvertakesLessThanABatch
<1>1. Init => PlaceInv /\ SettledInv
      BY DEF Init, PlaceInv, SettledInv
<1>2. IInv /\ SettledInv => OvertakesLessThanABatch
  <2> SUFFICES ASSUME IInv, SettledInv, pc = "operations"
               PROVE  Cardinality(Overtaken) < BatchLimit
      BY DEF OvertakesLessThanABatch
  <2> DEFINE slotOf == [s \in prepared |-> <<s.list, s.tuple>>]
             image == {<<s.list, s.tuple>> : s \in prepared}
  <2>1. Overtaken \subseteq image
    <3> SUFFICES ASSUME NEW slot \in Overtaken
                 PROVE  slot \in image
        OBVIOUS
    <3>1. PICK l \in DOMAIN messages : \E t \in DOMAIN messages[l] : slot = <<l, t>>
          BY DEF Overtaken, Slots
    <3>2. PICK t \in DOMAIN messages[l] : slot = <<l, t>>
          BY <3>1
    <3>3. l \in 1 .. Len(messages) /\ messages[l] \in Seq(FrameMessagesTuple)
          BY DEF IInv, TypeOK
    <3>4. t \in 1 .. Len(messages[l])
          BY <3>3
    <3>5. Past([list |-> l, tuple |-> t]) /\ Asks(l, t) /\ ~Verdict(l, t)
          BY <3>2 DEF Overtaken, Past, Asks, Verdict
    <3>6. Pending(l, t)
          BY <3>3, <3>4, <3>5 DEF SettledInv
    <3> QED
          BY <3>2, <3>6 DEF Pending
  <2>2. slotOf \in Surjection(prepared, image)
        BY DEF Surjection
  <2>3. IsFiniteSet(prepared)
        BY DEF IInv, CountInv
  <2>4. IsFiniteSet(image) /\ Cardinality(image) <= Cardinality(prepared)
        BY <2>2, <2>3, FS_Surjection
  <2>5. IsFiniteSet(Overtaken) /\ Cardinality(Overtaken) <= Cardinality(image)
        BY <2>1, <2>4, FS_Subset
  <2>6. Cardinality(prepared) < BatchLimit
        BY DEF IInv, TypeOK, CountInv, Waiting
  <2>7. /\ Cardinality(Overtaken) \in Nat /\ Cardinality(image) \in Nat
        /\ Cardinality(prepared) \in Nat
        BY <2>3, <2>4, <2>5, FS_CardinalityType
  <2> QED
        BY <2>4, <2>5, <2>6, <2>7, LimitAssumption
<1> QED
      BY <1>1, <1>2, Invariance, PlaceStep, SettledStep, PTL DEF Spec
=============================================================================
