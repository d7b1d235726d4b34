------------------------- MODULE NDBMessageExecutor -------------------------
(***************************************************************************)
(* One executor thread inside NDBMessageExecutor::execute(StoreMsgs&)      *)
(* (volodbserver/Store/NDBMessageExecutor.cpp).                            *)
(*                                                                         *)
(* The thread takes a batch of task lists off its socket.  A task list is  *)
(* a sequence of requests and a request (FrameMessagesTuple) a sequence of *)
(* operations.  Definition operations run at once and are answered one by  *)
(* one; the SET, DELETE and GET operations of a request are gathered into  *)
(* one NdbTransaction, which is only prepared.  Nothing is sent to the     *)
(* data nodes before BatchLimit transactions are prepared or the batch is  *)
(* used up; the thread then polls until every prepared transaction has     *)
(* been called back.  The callback reads the request through raw pointers  *)
(* into the task lists, which the function owns until it returns.          *)
(*                                                                         *)
(* External, known from its use here only: the NDB API and MySQL.  NDB     *)
(* decides every transaction once, and may report an error for one that    *)
(* did commit (the answer of a failed node is lost).                       *)
(***************************************************************************)
EXTENDS FrameUtils, FiniteSets

CONSTANTS
    threadNo,         \* the number of this executor thread
    Batches,          \* the batches the thread can receive
    BatchLimit,       \* the literal 1024 of execute(StoreMsgs&)
    MaxTransactions   \* _MAX_TRANSACTIONS, what Ndb::init reserves room for

ASSUME BatchesAssumption ==
    Batches \subseteq Seq(Seq(FrameMessagesTuple))

ASSUME LimitAssumption ==
    /\ BatchLimit \in Nat \ {0}
    /\ MaxTransactions \in Nat
    /\ BatchLimit <= MaxTransactions

VARIABLES
    pc,                     \* where the thread is
    messages,               \* the batch being executed
    listNo, tupleNo, opNo,  \* the positions of the three nested loops
    taskLists,              \* taskListPointerSmartVector: the lists still owned
    transaction,            \* the NdbTransaction of the request, if there is one
    transactionOperations,  \* the operations added to it, by their place
    prepared,               \* the NdbTransactionStates not yet called back
    decided,                \* those NDB has decided, with the result it reports
    totalTransactions,
    completedTransactions,
    sent,                   \* the replies of this batch, in the order sent
    effects                 \* history: the operations that took effect

loopVars == <<messages, listNo, tupleNo, opNo, taskLists>>
transactionVars == <<transaction, transactionOperations>>
ndbVars == <<prepared, decided, totalTransactions, completedTransactions>>
outputVars == <<sent, effects>>
vars == <<pc, loopVars, transactionVars, ndbVars, outputVars>>

PC == {"idle", "lists", "tuples", "operations", "prepare", "flush", "drain"}

\* The bookkeeping a callback is given; list and tuple stand for the raw
\* pointers transactionID and originalIdentifier into that request.
NdbTransactionState == [list : Nat, tuple : Nat, operations : SUBSET Nat]

\* op is the operation a definition reply is about, and 0 for the one verdict
\* on the transaction; a success lists the operations it has results for.
Reply == [list : Nat, tuple : Nat, op : Nat,
          status : {"ok", "error"}, results : SUBSET Nat]

-----------------------------------------------------------------------------
OpsOf(l, t) == messages[l][t].ops
CurrentOps == OpsOf(listNo, tupleNo)
CurrentType == CurrentOps[opNo]

\* replyWithResult: the reply goes to the socket at once.
ReplyWithResult(l, t, i, status, results) ==
    sent' = Append(sent, [list |-> l, tuple |-> t, op |-> i,
                          status |-> status, results |-> results])

Init ==
    /\ pc = "idle"
    /\ messages = <<>>
    /\ listNo = 0 /\ tupleNo = 0 /\ opNo = 0
    /\ taskLists = {}
    /\ transaction = "nullptr"
    /\ transactionOperations = {}
    /\ prepared = {} /\ decided = {}
    /\ totalTransactions = 0 /\ completedTransactions = 0
    /\ sent = <<>> /\ effects = {}

-----------------------------------------------------------------------------
\* execute(StoreMsgs&) is entered with what receiveQueuedMessages returned.
Execute(batch) ==
    /\ pc = "idle"
    /\ pc' = "lists"
    /\ messages' = batch
    /\ listNo' = 0 /\ tupleNo' = 0 /\ opNo' = 0
    /\ taskLists' = {}
    /\ totalTransactions' = 0
    /\ sent' = <<>> /\ effects' = {}
    /\ UNCHANGED <<transactionVars, prepared, decided, completedTransactions>>

\* The outer loop: the next task list is owned before its requests are read.
NextTaskList ==
    /\ pc = "lists" /\ listNo < Len(messages)
    /\ pc' = "tuples"
    /\ listNo' = listNo + 1
    /\ tupleNo' = 0
    /\ taskLists' = taskLists \cup {listNo + 1}
    /\ UNCHANGED <<messages, opNo, transactionVars, ndbVars, outputVars>>

\* execute(FrameMessagesTuple&) is entered: no transaction, no operations.
NextRequest ==
    /\ pc = "tuples" /\ tupleNo < Len(messages[listNo])
    /\ pc' = "operations"
    /\ tupleNo' = tupleNo + 1
    /\ opNo' = 1
    /\ transaction' = "nullptr"
    /\ transactionOperations' = {}
    /\ UNCHANGED <<messages, listNo, taskLists, ndbVars, outputVars>>

EndOfTaskList ==
    /\ pc = "tuples" /\ tupleNo = Len(messages[listNo])
    /\ pc' = "lists"
    /\ UNCHANGED <<loopVars, transactionVars, ndbVars, outputVars>>

\* A definition operation runs now, whatever is prepared, and is answered.
ExecuteDefinition ==
    /\ pc = "operations" /\ opNo <= Len(CurrentOps)
    /\ CurrentType \in DefinitionType
    /\ \/ /\ ReplyWithResult(listNo, tupleNo, opNo, "ok", {})
          /\ effects' = effects \cup {<<listNo, tupleNo, opNo>>}
       \/ /\ ReplyWithResult(listNo, tupleNo, opNo, "error", {})
          /\ UNCHANGED effects
    /\ opNo' = opNo + 1
    /\ UNCHANGED <<pc, messages, listNo, tupleNo, taskLists, transactionVars, ndbVars>>

\* A SET, DELETE or GET: the first one starts the transaction, each adds to it.
AddOperation ==
    /\ pc = "operations" /\ opNo <= Len(CurrentOps)
    /\ CurrentType \in ManipulationType
    /\ transaction' = "open"
    /\ transactionOperations' = transactionOperations \cup {opNo}
    /\ opNo' = opNo + 1
    /\ UNCHANGED <<pc, messages, listNo, tupleNo, taskLists, ndbVars, outputVars>>

\* Mutant: the transaction is closed, but the pointer to it is kept.
OperationFails_DanglingTransaction ==
    /\ pc = "operations" /\ opNo <= Len(CurrentOps)
    /\ CurrentType \notin DefinitionType
    /\ ReplyWithResult(listNo, tupleNo, 0, "error", {})
    /\ transaction' = IF transaction = "open" THEN "closed" ELSE transaction
    /\ pc' = "prepare"
    /\ UNCHANGED <<loopVars, transactionOperations, ndbVars, effects>>

\* Mutant: the error is reported and the transaction left open.
OperationFails_NotClosed ==
    /\ pc = "operations" /\ opNo <= Len(CurrentOps)
    /\ CurrentType \notin DefinitionType
    /\ ReplyWithResult(listNo, tupleNo, 0, "error", {})
    /\ pc' = "prepare"
    /\ UNCHANGED <<loopVars, transactionVars, ndbVars, effects>>

\* Mutant: the loop goes on with the next operation instead of the break.
OperationFails_NoBreak ==
    /\ pc = "operations" /\ opNo <= Len(CurrentOps)
    /\ CurrentType \notin DefinitionType
    /\ ReplyWithResult(listNo, tupleNo, 0, "error", {})
    /\ opNo' = opNo + 1
    /\ UNCHANGED <<pc, messages, listNo, tupleNo, taskLists, transactionVars, ndbVars,
                   effects>>

\* Mutant: the failure is only logged.
OperationFails_Silent ==
    /\ pc = "operations" /\ opNo <= Len(CurrentOps)
    /\ CurrentType \notin DefinitionType
    /\ transaction' = "nullptr"
    /\ pc' = "prepare"
    /\ UNCHANGED <<loopVars, transactionOperations, ndbVars, sent, effects>>

\* The transaction did not start, or the operation could not be added (a type
\* the executor does not know never can): one error reply, the transaction is
\* closed and forgotten, and the loop is left by its break.
OperationFails ==
    /\ pc = "operations" /\ opNo <= Len(CurrentOps)
    /\ CurrentType \notin DefinitionType
    /\ ReplyWithResult(listNo, tupleNo, 0, "error", {})
    /\ transaction' = "nullptr"
    /\ pc' = "prepare"
    /\ UNCHANGED <<loopVars, transactionOperations, ndbVars, effects>>

EndOfRequest ==
    /\ pc = "operations" /\ opNo > Len(CurrentOps)
    /\ pc' = "prepare"
    /\ UNCHANGED <<loopVars, transactionVars, ndbVars, outputVars>>

\* Mutant: the count is compared before it is increased.
PrepareTransaction_LateFlush ==
    /\ pc = "prepare" /\ transaction # "nullptr"
    /\ prepared' = prepared \cup
           {[list |-> listNo, tuple |-> tupleNo, operations |-> transactionOperations]}
    /\ totalTransactions' = totalTransactions + 1
    /\ pc' = IF totalTransactions = BatchLimit THEN "flush" ELSE "tuples"
    /\ transaction' = "nullptr"
    /\ transactionOperations' = {}
    /\ UNCHANGED <<loopVars, decided, completedTransactions, outputVars>>

\* executeAsynchPrepare, and the count of the caller: the wait begins when the
\* count is BatchLimit.
PrepareTransaction ==
    /\ pc = "prepare" /\ transaction # "nullptr"
    /\ prepared' = prepared \cup
           {[list |-> listNo, tuple |-> tupleNo, operations |-> transactionOperations]}
    /\ totalTransactions' = totalTransactions + 1
    /\ pc' = IF totalTransactions + 1 = BatchLimit THEN "flush" ELSE "tuples"
    /\ transaction' = "nullptr"      \* the local variable goes out of scope
    /\ transactionOperations' = {}
    /\ UNCHANGED <<loopVars, decided, completedTransactions, outputVars>>

NothingToPrepare ==
    /\ pc = "prepare" /\ transaction = "nullptr"
    /\ pc' = "tuples"
    /\ transactionOperations' = {}
    /\ UNCHANGED <<loopVars, transaction, ndbVars, outputVars>>

-----------------------------------------------------------------------------
Waiting == pc \in {"flush", "drain"}

\* External: once sendPollNdb has sent it, NDB commits the transaction, all of
\* it, or none.  The result reported for a commit may still be an error.
NdbDecides(s) ==
    /\ Waiting
    /\ s \in prepared /\ \A d \in decided : d.state # s
    /\ \/ /\ effects' = effects \cup
                 {<<s.list, s.tuple, i>> : i \in
                     {i \in s.operations : OpsOf(s.list, s.tuple)[i] \in WriteType}}
          /\ \E result \in {"0", "-1"} :
                decided' = decided \cup {[state |-> s, result |-> result]}
       \/ /\ decided' = decided \cup {[state |-> s, result |-> "-1"]}
          /\ UNCHANGED effects
    /\ UNCHANGED <<pc, loopVars, transactionVars, prepared, totalTransactions,
                   completedTransactions, sent>>

\* Mutant: the result passed to the callback is not looked at.
NdbExecuteCallback_IgnoresResult(d) ==
    /\ Waiting /\ completedTransactions < totalTransactions
    /\ d \in decided
    /\ ReplyWithResult(d.state.list, d.state.tuple, 0, "ok", d.state.operations)
    /\ decided' = decided \ {d}
    /\ prepared' = prepared \ {d.state}
    /\ completedTransactions' = completedTransactions + 1
    /\ UNCHANGED <<pc, loopVars, transactionVars, totalTransactions, effects>>

\* ndbExecuteCallback, run inside sendPollNdb or pollNdb by the waiting thread:
\* close the transaction, reply, free the state, in any order of transactions.
NdbExecuteCallback(d) ==
    /\ Waiting /\ completedTransactions < totalTransactions
    /\ d \in decided
    /\ IF d.result = "-1"
         THEN ReplyWithResult(d.state.list, d.state.tuple, 0, "error", {})
         ELSE ReplyWithResult(d.state.list, d.state.tuple, 0, "ok", d.state.operations)
    /\ decided' = decided \ {d}
    /\ prepared' = prepared \ {d.state}
    /\ completedTransactions' = completedTransactions + 1
    /\ UNCHANGED <<pc, loopVars, transactionVars, totalTransactions, effects>>

\* Mutant: the count is not restarted after a flush.
FlushDone_KeepsCount ==
    /\ pc = "flush" /\ ~(completedTransactions < totalTransactions)
    /\ pc' = "tuples"
    /\ completedTransactions' = 0
    /\ UNCHANGED <<loopVars, transactionVars, prepared, decided, totalTransactions,
                   outputVars>>

\* waitForTransactionsToComplete returns into the loop; the count restarts.
FlushDone ==
    /\ pc = "flush" /\ ~(completedTransactions < totalTransactions)
    /\ pc' = "tuples"
    /\ totalTransactions' = 0 /\ completedTransactions' = 0
    /\ UNCHANGED <<loopVars, transactionVars, prepared, decided, outputVars>>

\* The batch is used up: wait for what is still prepared.
StartDrain ==
    /\ pc = "lists" /\ listNo = Len(messages) /\ totalTransactions > 0
    /\ pc' = "drain"
    /\ UNCHANGED <<loopVars, transactionVars, ndbVars, outputVars>>

\* Mutant: the function may return without the last wait.
Return_WithoutWait ==
    /\ pc = "lists" /\ listNo = Len(messages)
    /\ pc' = "idle"
    /\ taskLists' = {}
    /\ totalTransactions' = 0 /\ completedTransactions' = 0
    /\ UNCHANGED <<messages, listNo, tupleNo, opNo, transactionVars, prepared,
                   decided, outputVars>>

\* execute(StoreMsgs&) returns: the task lists are freed, and so is every
\* request in them.
Return ==
    /\ \/ pc = "lists" /\ listNo = Len(messages) /\ totalTransactions = 0
       \/ pc = "drain" /\ ~(completedTransactions < totalTransactions)
    /\ pc' = "idle"
    /\ taskLists' = {}
    /\ totalTransactions' = 0 /\ completedTransactions' = 0
    /\ UNCHANGED <<messages, listNo, tupleNo, opNo, transactionVars, prepared,
                   decided, outputVars>>

-----------------------------------------------------------------------------
ThreadStep ==
    \/ NextTaskList \/ NextRequest \/ EndOfTaskList
    \/ ExecuteDefinition \/ AddOperation \/ OperationFails \/ EndOfRequest
    \/ PrepareTransaction \/ NothingToPrepare
    \/ \E d \in decided : NdbExecuteCallback(d)
    \/ FlushDone \/ StartDrain \/ Return

Next ==
    \/ \E batch \in Batches : Execute(batch)
    \/ ThreadStep
    \/ \E s \in prepared : NdbDecides(s)

Spec == Init /\ [][Next]_vars

\* The thread keeps running, and NDB decides what it was sent (its own
\* transaction timeouts see to it).
FairSpec ==
    /\ Spec
    /\ WF_vars(ThreadStep)
    /\ WF_vars(\E s \in prepared : NdbDecides(s))
-----------------------------------------------------------------------------
Slots == UNION {{l} \X DOMAIN messages[l] : l \in DOMAIN messages}

\* What the transaction of a request would write.
Writes(slot) ==
    {<<slot[1], slot[2], i>> :
        i \in IndexesOf(OpsOf(slot[1], slot[2]), ManipulationType \cap WriteType)}

\* Type correctness of the state of an executor thread.
TypeOK ==
    /\ pc \in PC
    /\ messages \in Seq(Seq(FrameMessagesTuple))
    /\ listNo \in Nat /\ tupleNo \in Nat /\ opNo \in Nat
    /\ taskLists \subseteq Nat
    /\ transaction \in {"nullptr", "open"}
    /\ transactionOperations \subseteq Nat
    /\ prepared \subseteq NdbTransactionState
    /\ decided \subseteq [state : NdbTransactionState, result : {"0", "-1"}]
    /\ totalTransactions \in Nat /\ completedTransactions \in Nat
    /\ sent \in Seq(Reply)
    /\ effects \subseteq Nat \X Nat \X Nat

\* The comment of execute(StoreMsgs&) on the vector of task lists: the objects in
\* it are passed to the callback, so a transaction that can still be called back
\* points into a task list that is still owned.
CallbackStateValid == \A s \in prepared : s.list \in taskLists

\* The transactions open at once, the one being built and the prepared ones that
\* are not closed yet, fit in what Store::_initNDB reserved with Ndb::init.
TransactionPoolBound ==
    Cardinality(prepared) + (IF transaction = "open" THEN 1 ELSE 0) <= MaxTransactions

\* The earlier requests of the batch that still wait for the verdict on their transaction.
Overtaken ==
    {slot \in Slots :
        /\ slot[1] < listNo \/ (slot[1] = listNo /\ slot[2] < tupleNo)
        /\ \E i \in DOMAIN OpsOf(slot[1], slot[2]) :
              OpsOf(slot[1], slot[2])[i] \notin DefinitionType
        /\ \A n \in DOMAIN sent :
              ~(sent[n].list = slot[1] /\ sent[n].tuple = slot[2] /\ sent[n].op = 0)}

\* Transactions are only prepared while the batch is read, so a CREATE_STORE or DROP_STORE
\* runs before SET and DELETE operations that came earlier.  There are never BatchLimit
\* of these: what lies behind a flush, or in an earlier batch, has been decided.
OvertakesLessThanABatch == pc = "operations" => Cardinality(Overtaken) < BatchLimit

\* A definition operation is answered at most once, and a request gets at most
\* one verdict: the error reply of the break and the reply of the callback
\* exclude each other.
AtMostOneReply ==
    \A m, n \in DOMAIN sent :
        /\ sent[m].list = sent[n].list
        /\ sent[m].tuple = sent[n].tuple
        /\ sent[m].op = sent[n].op
        => m = n

\* The SET and DELETE operations of a request take effect together or not at all,
\* also when a later operation of the request could not be added.
AllOrNothing ==
    \A slot \in Slots : Writes(slot) \subseteq effects \/ Writes(slot) \cap effects = {}

\* A success reply is sent after everything it covers took effect, and it has a
\* result for every SET, DELETE and GET of the request.
SuccessIsDurable ==
    \A n \in DOMAIN sent :
        sent[n].status = "ok" /\ sent[n].op = 0 =>
            LET slot == <<sent[n].list, sent[n].tuple>>
            IN  /\ Writes(slot) \subseteq effects
                /\ sent[n].results = IndexesOf(OpsOf(slot[1], slot[2]), ManipulationType)

\* The thread gets through every batch: it never waits for a callback that will
\* not come, nor for more callbacks than it prepared transactions.
ExecuteReturns == (pc # "idle") ~> (pc = "idle")

\* The comment of the atomic example of the repository's README ("run all
\* operations in a single transaction"), taken for every operation that writes:
\* when a batch is done, each of its requests took effect as a whole or not at all.
SingleTransaction ==
    pc = "idle" =>
        \A slot \in Slots :
            LET ops == OpsOf(slot[1], slot[2])
                written == {i \in DOMAIN ops : <<slot[1], slot[2], i>> \in effects}
            IN  written \in {{}, IndexesOf(ops, WriteType)}

\* The thread keeps every promise of the abstract service: in particular it
\* returns only when each request of the batch is answered.
Service == INSTANCE TransactionService WITH
    Executors <- {threadNo},
    busy <- [e \in {threadNo} |-> pc # "idle"],
    batch <- [e \in {threadNo} |-> IF pc = "idle" THEN <<>> ELSE messages],
    sent <- [e \in {threadNo} |-> IF pc = "idle" THEN <<>> ELSE sent],
    effects <- [e \in {threadNo} |-> IF pc = "idle" THEN {} ELSE effects]
ImplementsService == Service!ServiceSpec
=============================================================================
