------------------------------- MODULE Store --------------------------------
(***************************************************************************)
(* The running server: Store (volodbserver/Store/Store.cpp), the worker    *)
(* threads of ServerTransport and NDBMessageProcessor, composed with the   *)
(* executor threads, here as TransactionService describes them.            *)
(*                                                                         *)
(* A frame reaches one definer thread (worker_thread_handler).  The thread *)
(* decodes all it has received, deals the requests out to the executors at *)
(* random, and pushes one task list per executor through a socket pipe of  *)
(* its own, which blocks when it is full.  An executor takes up to         *)
(* ReadLimit task lists, executes them, and pushes each reply to the sink  *)
(* of the definer with number e % NoDefinerThread, from where that thread  *)
(* returns it to the client.  So definers wait for executors through the   *)
(* pipes, and only the unlimited sinks keep executors from waiting for     *)
(* definers.                                                               *)
(*                                                                         *)
(* External: ZeroMQ.  The proxy hands a frame to any definer; a pipe has   *)
(* room for PipeCapacity messages (the default high water marks of both    *)
(* ends); a reply reaches the client named by its identity frame.          *)
(***************************************************************************)
EXTENDS TransactionService, FrameDecoder, Bags

CONSTANTS
    NoDefinerThread, NoExecutorThreads,
    PipeCapacity,    \* room in the pipe from a definer to an executor
    ReadLimit,       \* _MAX_TRANSACTIONS, as the limit of receiveQueuedMessages
    Traffic          \* the frames the clients send, each with their identity

Definers == 0 .. NoDefinerThread - 1

ASSUME StoreAssumption ==
    /\ NoDefinerThread \in Nat \ {0} /\ NoExecutorThreads \in Nat \ {0}
    /\ Executors = 0 .. NoExecutorThreads - 1
    /\ PipeCapacity \in Nat \ {0} /\ ReadLimit \in Nat \ {0}

\* The identifiers the client library put on a frame.
IdsOf(frame) ==
    IF frame.atomic THEN {frame.identifier}
    ELSE {frame.items[i].identifier : i \in DOMAIN frame.items}

\* What Executor::execute frames: operations, named by uuids of the application.  A
\* frame of another version may not parse.
ASSUME TrafficAssumption ==
    \A message \in Traffic :
        /\ message.frame.parses \in BOOLEAN /\ message.frame.atomic \in BOOLEAN
        /\ message.frame.items \in Seq([type : FrameItemType, parses : BOOLEAN,
                                        identifier : STRING])

\* A uuid is universally unique: no client gives two requests the same one.
ASSUME UuidAssumption ==
    /\ \A m, k \in Traffic :
          m.identity = k.identity /\ IdsOf(m.frame) \cap IdsOf(k.frame) # {} => m = k
    /\ \A m \in Traffic :
          ~m.frame.atomic => IsInjective([i \in DOMAIN m.frame.items |->
                                             m.frame.items[i].identifier])

VARIABLES
    unsent,      \* what the clients have not sent yet
    inbox,       \* inbox[d]: the worker socket of definer d
    definer,     \* definer[d]: where its loop is
    outbox,      \* outbox[d]: the task lists it has still to send, in order
    pipe,        \* pipe[d][e]: the task lists on their way to executor e
    sink,        \* sink[d]: the replies waiting for definer d
    delivered    \* the bag of replies returned to the clients

definerVars == <<inbox, definer, outbox>>
storeVars == <<unsent, definerVars, pipe, sink, delivered, serviceVars>>

-----------------------------------------------------------------------------
StoreInit ==
    /\ ServiceInit
    /\ unsent = Traffic
    /\ inbox = [d \in Definers |-> <<>>]
    /\ definer = [d \in Definers |-> "receive"]
    /\ outbox = [d \in Definers |-> <<>>]
    /\ pipe = [d \in Definers |-> [e \in Executors |-> <<>>]]
    /\ sink = [d \in Definers |-> <<>>]
    /\ delivered = EmptyBag

\* External: a client sends, and the proxy picks a definer.
ClientSends(message, d) ==
    /\ message \in unsent
    /\ unsent' = unsent \ {message}
    /\ inbox' = [inbox EXCEPT ![d] = Append(@, message)]
    /\ UNCHANGED <<definer, outbox, pipe, sink, delivered, serviceVars>>

-----------------------------------------------------------------------------
\* Mutant: all requests land in every bucket.
Bucket_Shared(requests, assigned, e) == requests

\* processForExecutor: request i goes to the bucket of executor assigned[i].
Bucket(requests, assigned, e) ==
    LET mine == CHOOSE s \in SetToSeqs({i \in DOMAIN requests : assigned[i] = e}) :
                    \A a, b \in DOMAIN s : a < b => s[a] < s[b]
    IN  [n \in DOMAIN mine |-> requests[mine[n]]]

\* The task lists in the order of an iteration over the unordered task map.
TaskLists(requests, assigned, order) ==
    [n \in DOMAIN order |->
        [executor |-> order[n], tasks |-> Bucket(requests, assigned, order[n])]]

\* The loop of worker_thread_handler takes every frame received, and didReceive-
\* Message decodes and deals them out (_processMessages).
ReceiveRequests(d) ==
    /\ definer[d] = "receive"
    /\ inbox[d] # <<>>
    /\ LET requests == DecodeAll(inbox[d])
       IN  \E assigned \in [DOMAIN requests -> Executors] :
             \E order \in SetToSeqs(Range(assigned)) :
                outbox' = [outbox EXCEPT ![d] = TaskLists(requests, assigned, order)]
    /\ inbox' = [inbox EXCEPT ![d] = <<>>]
    /\ definer' = [definer EXCEPT ![d] = "dispatch"]
    /\ UNCHANGED <<unsent, pipe, sink, delivered, serviceVars>>

\* sendTaskToExecutor: the send blocks while the pipe is full.
SendTaskToExecutor(d) ==
    /\ definer[d] = "dispatch"
    /\ outbox[d] # <<>>
    /\ LET task == Head(outbox[d])
       IN  /\ Len(pipe[d][task.executor]) < PipeCapacity
           /\ pipe' = [pipe EXCEPT ![d][task.executor] = Append(@, task.tasks)]
    /\ outbox' = [outbox EXCEPT ![d] = Tail(@)]
    /\ UNCHANGED <<unsent, inbox, definer, sink, delivered, serviceVars>>

\* Nothing was received, or everything has been sent: on to the sink.
TurnToSink(d) ==
    /\ \/ definer[d] = "receive" /\ inbox[d] = <<>>
       \/ definer[d] = "dispatch" /\ outbox[d] = <<>>
    /\ definer' = [definer EXCEPT ![d] = "forward"]
    /\ UNCHANGED <<unsent, inbox, outbox, pipe, sink, delivered, serviceVars>>

\* The replies in the sink go back through the worker socket, all of them.
ForwardReplies(d) ==
    /\ definer[d] = "forward"
    /\ delivered' = delivered (+) ToBag(sink[d])
    /\ sink' = [sink EXCEPT ![d] = <<>>]
    /\ definer' = [definer EXCEPT ![d] = "receive"]
    /\ UNCHANGED <<unsent, inbox, outbox, pipe, serviceVars>>

-----------------------------------------------------------------------------
\* How many task lists receiveQueuedMessages takes from each pipe: as many as
\* there are, up to ReadLimit together, in a fair order over the pipes.
Shares(e) ==
    LET queued == [d \in Definers |-> Len(pipe[d][e])]
    IN  {share \in [Definers -> 0 .. ReadLimit] :
            /\ \A d \in Definers : share[d] <= queued[d]
            /\ SumFunction(share) = Min({ReadLimit, SumFunction(queued)})}

\* The loop of _executorWorkerThreadFunc: execute what was received, if anything.
ReceiveTasks(e) ==
    \E share \in Shares(e) :
        LET taken == FlattenSeq([n \in 1 .. NoDefinerThread |->
                                    SubSeq(pipe[n - 1][e], 1, share[n - 1])])
        IN  /\ taken # <<>>
            /\ Accept(e, taken)
            /\ pipe' = [d \in Definers |-> [pipe[d] EXCEPT
                          ![e] = SubSeq(@, share[d] + 1, Len(@))]]
            /\ UNCHANGED <<unsent, definerVars, sink, delivered>>

SinkOf(e) == e % NoDefinerThread

\* Mutant: the sink socket keeps its default high water mark.
SinkRoom_Bounded(d) == Len(sink[d]) < PipeCapacity

\* setUnlimitedQueueLength on the sink socket: a send to it never blocks.
SinkRoom(d) == TRUE

\* The two frames of replyWithResult: the identity of the client, and the result
\* with the identifier of the request.
Addressed(request, reply) ==
    [to |-> request.identity, id |-> request.id, op |-> reply.op,
     status |-> reply.status, results |-> Cardinality(reply.results)]

\* The thread executes its batch; the replies it sends go to its sink.
ExecuteMessages(e) ==
    /\ Serve(e)
    /\ sent' # sent => SinkRoom(SinkOf(e))
    /\ sink' = [sink EXCEPT ![SinkOf(e)] =
          IF sent' = sent THEN @
          ELSE LET reply == Last(sent'[e])
               IN  Append(@, Addressed(batch[e][reply.list][reply.tuple], reply))]
    /\ UNCHANGED <<unsent, definerVars, pipe, delivered>>

ExecuteReturns(e) ==
    /\ Finish(e)
    /\ UNCHANGED <<unsent, definerVars, pipe, sink, delivered>>

-----------------------------------------------------------------------------
DefinerStep(d) ==
    ReceiveRequests(d) \/ SendTaskToExecutor(d) \/ TurnToSink(d) \/ ForwardReplies(d)

ExecutorStep(e) == ReceiveTasks(e) \/ ExecuteMessages(e) \/ ExecuteReturns(e)

StoreNext ==
    \/ \E message \in unsent, d \in Definers : ClientSends(message, d)
    \/ \E d \in Definers : DefinerStep(d)
    \/ \E e \in Executors : ExecutorStep(e)

\* Every thread of the server keeps running; the clients need not send anything.
StoreSpec ==
    /\ StoreInit /\ [][StoreNext]_storeVars
    /\ \A d \in Definers : WF_storeVars(DefinerStep(d))
    /\ \A e \in Executors : WF_storeVars(ExecutorStep(e))

-----------------------------------------------------------------------------
AnsweredTo(message, id) ==
    \E r \in BagToSet(delivered) : r.to = message.identity /\ r.id = id

\* A reply only ever reaches the client that sent the request it names: frames of
\* several clients share definers, task lists, batches and sinks on the way.
RepliesReachTheRequester ==
    \A r \in BagToSet(delivered) :
        \E message \in Traffic \ unsent :
            message.identity = r.to /\ r.id \in IdsOf(message.frame)

\* The same operation is never answered twice, nor in two ways: a request is in one
\* task list of one executor, and its reply in one sink.
DeliveredOnce ==
    \A r \in BagToSet(delivered) :
        /\ delivered[r] = 1
        /\ \A s \in BagToSet(delivered) :
              s.to = r.to /\ s.id = r.id /\ s.op = r.op => s = r

\* Every request that carries an operation after decoding is answered in the end:
\* the definers waiting for room in the pipes and the executors they wait for never
\* block each other for good.
RequestsAnswered ==
    \A message \in Traffic :
        \A n \in DOMAIN Decode(message.frame, message.identity) :
            LET request == Decode(message.frame, message.identity)[n]
            IN  request.ops # <<>> =>
                   (message \notin unsent) ~> AnsweredTo(message, request.id)

\* The README: "Callback will be called when the transaction either completes
\* successfully or fails", whatever the client library agreed to frame.
EveryTransactionAnswered ==
    \A message \in Traffic : \A id \in IdsOf(message.frame) :
        (message \notin unsent) ~> AnsweredTo(message, id)

\* The README: a transaction adds all its values or none, so a transaction that is
\* reported as successful has a result for every operation the client framed.
SuccessCoversTheFrame ==
    \A r \in BagToSet(delivered) : \A message \in Traffic \ unsent :
        /\ message.frame.atomic /\ message.frame.identifier = r.id
        /\ message.identity = r.to
        /\ r.op = 0 /\ r.status = "ok"
        => r.results = Len(message.frame.items)
=============================================================================
