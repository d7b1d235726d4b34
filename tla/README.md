# A TLA+ specification of VoloDB

VoloDB is a key-value front end to MySQL Cluster (NDB).  A client library frames
operations (CREATE_STORE, DROP_STORE, SET, GET, DELETE) with protocol buffers and
sends them over ZeroMQ; the server decodes them, deals them out to executor
threads, and each thread batches them into asynchronous NDB transactions.

This directory specifies the server and the client library in TLA+, checks small
instances with TLC and proves the safety properties with TLAPS for all instances.

    tlc -config NDBMessageExecutor.cfg MCNDBMessageExecutor    # a run, see "Runs"
    tlapm RefinementProofs.tla                                  # proofs, see "Theorems"

## The system

| Component | State | Operations | Module |
|---|---|---|---|
| Batch executor, `NDBMessageExecutor::execute`, `waitForTransactionsToComplete`, `ndbExecuteCallback` | the owned task lists, the transaction being built, the prepared transactions with their callback states, two counters | read a batch, run definitions, build and prepare transactions, flush, call back, return | `NDBMessageExecutor`, its promise in `TransactionService` |
| Operations on NDB and MySQL | the table of a store and its rows | CREATE_STORE, DROP_STORE, SET, DELETE, GET | `StoreOperations` |
| Table cache, `TableInfoCache` | the entries | `get`, `set`, `invalidate` | `TableInfoCache` |
| `Store`, message flow | socket pipes from definers to executors, sinks back | `_processMessages`, `sendTaskToExecutor`, `_executorWorkerThreadFunc` | `Store` |
| `NDBMessageProcessor` | none | `processForExecutor`, `addToExecutorList` | `Store` (`Bucket`, `TaskLists`) |
| `Store`, start and stop | initialisation count, condition variables, stop flags, threads, sockets, connections | `run`, `waitTillNotRunning`, `stop`, `~Store` | `StoreLifecycle` |
| `ServerTransport` | worker sockets and sinks, the proxy, the stop flag | `worker_thread_handler`; `start`, `close` | `Store`; `StoreLifecycle` |
| Frames, `FrameUtils`, `FrameBuilder`, `FrameDecoder` | none | frame, decode | `FrameUtils`, `FrameDecoder` |
| Message classes, `volodb-common/ProtoBuf` | has-bits, fields, unknown fields | accessors, serialize, parse, merge, `IsInitialized` | `ProtoBuf`, composed in `WireFormat` |
| Column values, `ColumnsValueBuilder`, `ColumnsValueDecoder` | none | encode, decode | `ColumnsValue` (CHAR, VARCHAR, VARBINARY), composed in `WireFormat` |
| Client library, `Executor`, `ClientTransport` | worker threads, their sockets and `isSocketValid`, `_stopFlag` | `execute`, worker loop, callbacks, `close`, the destructor | `ClientTransport`, framing in `FrameDecoder` |
| Statistics, load tests, configuration, logging, ZeroMQ binding | | | not modelled |

How they interact.  The application hands a frame to the client transport, one of
whose workers forwards it to the server.  The transport proxy of the server hands it
to one of the definer threads (`worker_thread_handler`).  The definer drains its
socket, decodes all frames into requests (`FrameMessagesTuple`), puts every request
into the bucket of a random executor and pushes one task list per executor through an
inproc socket.  An executor takes up to 1024 task lists at once and runs them as one
batch.  Replies are pushed, with the identity of the client in front, to the sink of
the definer `e % NoDefinerThread`, which forwards them to the client, whose worker
calls the application back.  All executors share the table cache; each has an `Ndb`
and a MySQL connection of its own.

What is hard about it:

* a callback reads its request through raw pointers, long after the function that
  prepared it has returned; it must run before the task lists are freed;
* two counters, a literal 1024 and the size of the pool of `Ndb::init` have to
  agree, or the thread waits for ever, returns early or exhausts the pool;
* an operation that fails in the middle of an atomic request leaves a half-built
  transaction that must be closed and answered exactly once;
* transactions are only prepared while definition operations run, so these overtake
  earlier requests;
* definers block on full pipes to executors that send replies to those definers;
* the cache asks the dictionary outside its lock while other threads drop tables;
* the start: a condition variable, and clients that connect before the database is;
* the stop: threads are joined one kind after the other while the others still use
  the sockets, and two flags are lowered again that every thread must have seen;
* an exception ends the thread it is thrown in and nobody is told: the others wait for
  its count, its replies or its socket;
* a client worker decides from `errno`, after a callback, whether its loop goes on;
* every field of a message is in five places of generated code that must agree, and
  an item the parser refuses is silently passed over.

`PROJECT.json` lists these and the smaller ones, with line and property, under
`hazards`.

## Modules

**`FrameUtils`** The frame item types, which of them are definitions and which
write, and the request record.

**`NDBMessageExecutor`** One executor thread inside `execute(StoreMsgs&)`.  `pc` is
the place in the three nested loops (`lists`, `tuples`, `operations`), between the
end of a request and its preparation (`prepare`), or in one of the two waits
(`flush`, `drain`).  Each branch of the code is an action: `ExecuteDefinition`,
`AddOperation`, `OperationFails` (with the error reply, the close and the `break`),
`PrepareTransaction` (with the count and the test against the limit),
`NdbExecuteCallback`, `FlushDone`, `Return`.  `prepared` holds what
`executeAsynchPrepare` was given; the raw pointers of a callback state are the
position of the request in the batch.  `effects` is a history variable: the
operations that changed the database.  `NdbDecides` is the environment: NDB decides
a transaction as a whole once it was sent, and may report an error for one that did
commit.

**`TransactionService`** The abstract specification of executor threads: a
definition operation is answered at most once; the rest of a request takes effect
at once or never and gets at most one verdict, a success only afterwards; a batch
is done when every request is settled.  `NDBMessageExecutor` implements it for one
thread (`ImplementsService`, an `INSTANCE` with `busy`, `batch`, `sent` and
`effects` forgotten between batches), and `Store` is composed with it, so that
message flow is checked without the detail of batches.

**`FrameDecoder`** Framing by the client (`NewFrame`, `AddFrame`) and decoding by
the server as operators: an atomic frame becomes one request, any other frame one per
item; items that do not parse or whose type the decoder has no branch for are passed
over, and a frame that does not parse yields no request at all.

**`Store`** The running server: clients, definers, pipes, executors
(`TransactionService`), sinks.  A drain of a socket is one step: it only empties
the thread's own socket, and what arrives meanwhile might as well have arrived
later.  Random assignment of requests is a choice of any function to executors,
iteration over the unordered task map a choice of any order.  The frames
are such as `Executor::execute` builds (`TrafficAssumption`); their identifiers are
uuids, so no client gives two requests the same one (`UuidAssumption`).

**`StoreLifecycle`** `Store::run`, `stop` and `~Store` with the threads they start
and end: the main thread, the executors, the thread of the transport proxy, the
definers, and the thread that calls `stop`.  A mutex makes the test of a condition
and the sleep one step, and the change and the notification another; wakeups may be
spurious.  Requests arrive from the moment the transport is up until its definers
have ended.  Undefined behaviour (a socket used after it is closed, or closed under the
proxy that polls it, a vector read while another thread fills it) is a choice between
the death of the process, a thread that hangs and, for the proxy, an orderly exception.
Exceptions are actions of their own: out of `run` (`RunThrows`, main returns 1), in an
executor (`ExecutorThrows`: before its count it is never counted, in its loop it just
ends), in a definer (`DefinerThrows`), and in the thread of the transport before the
proxy, where no `try` is (`BindFails`: the process dies).

**`TableInfoCache`** The shared cache under any number of threads.  `get` and
`invalidate` are atomic (they hold the lock), `set` is two steps (`Fetch`,
`Insert`), DROP_STORE is two steps (`DropTable`, `Invalidate`).  `overtaken` is a
history variable: stores for which an `invalidate` ran while another thread was
between the two steps of a `set` with the dropped table in hand.  `misreported` is
another: stores whose DROP TABLE took effect and was answered with an error, in which
case the code skips the `invalidate`.

**`StoreOperations`** One store and its rows: what CREATE_STORE makes of column
flags and lengths, and how a GET is read, by the number of key columns it names:
all of them (a read by key), some (a scan of the prune index), none or too many
(a scan of the table, filtered by the values).  The callback's loop over a scan takes an
error of `nextResult` for the end (`GetByScan`), and adds the one row of a read by key
without a test (`GetByKey`); `complete` in an answer is history, whether all there was
has been read.

**`ProtoBuf`** The nineteen generated message classes.  A class is three tables, read
off three places of its code: the accessors (field, type, has-bit; from the header),
the cases of the switch in `MergePartialFromCodedStream` (by tag), and the fields and
the mask of `SerializeWithCachedSizes`, `MergeFrom` and `IsInitialized`.  Generic
operators with the names of the methods interpret them.  A message maps fields to
sequences of values; bytes are sequences of tokens, a tag with a value, so varints
and lengths are abstracted and the tags, the order and the nesting are not.

**`ColumnsValue`** The bytes of CHAR, VARCHAR and VARBINARY values: the blank padding
and the two length bytes.  A byte has `Base` values and the length wraps at
`Base * Base`.

**`WireFormat`** Composes the two: a writer, possibly of a later version of the
schema, builds a message with the accessors or with `ColumnsValueBuilder`; a reader
parses it into an object, copies or merges.

**`ClientTransport`** The worker threads of the client library.  An iteration of the
loop is the test at its top, the drain of the DEALER socket with one callback per
message, and the drain of the sink; a callback returns with any `errno`, or throws, and
so do the sockets (`SocketThrows`).
The destructor raises the flag, joins, lowers it and waits for the sockets.

**`MC...`** hold the batches, traffic, declarations and values for the runs.
**`...Proofs`** hold theorems and their proofs.

## Runs

| Run | Result | Question |
|---|---|---|
| `executor` | holds | Over five batches that mix all kinds of requests: is every callback state valid, the pool never exceeded, no reply sent twice, every transaction all or nothing, every success backed by its effect; does a definition operation overtake less than a batch of earlier requests; does the thread implement the service and always return? |
| `executor_single_transaction` | violated | Does an atomic request with a definition operation take effect as a whole? |
| `store_pipeline` | holds | Two definers, two executors, two clients: does every reply reach the client that asked, once? |
| `store_progress` | holds | Under traffic that fills the pipe: is every request that carries an operation answered? |
| `store_unanswered` | violated | Is every transaction the client library frames answered? |
| `store_partial` | violated | Does a success of an atomic frame cover all items of the frame? |
| `lifecycle` | holds | Is NDB only connected when all executors are up, does the start wait for ever only for an executor that failed, and does `stop` return unless it sticks at one of four named places? |
| `table_cache` | holds | Is the cache stale only around a DROP_STORE, when one overtakes a `set`, or after one that was reported as an error? |
| `store_operations` | holds | Does a GET of each documented form return exactly the rows that match, and when its scan is cut short no other row? |
| `store_varchar_length` | violated | Do all VARCHAR columns have the two length bytes clients write? |
| `wire_format` | holds | For every class of message: is it parsed back as it was, does parsing into a used object merge, are exactly the incomplete messages refused, do column values survive? |
| `client_transport` | holds | Does no worker leave early, the destructor return, every frame get its callback, and an exception cost no frame but those of the worker it ends? |

Every property of a run that holds comes with a mutant, an operator ending in the
name of a plausible mistake (`OperationFails_NoBreak`, `FlushDone_KeepsCount`,
`ColumnInfoCases_OldLength`, ...) next to the definition it replaces; with it TLC
finds the property violated.

### Bounds

* `BatchLimit` 2 for the 1024 of the code, equal to `MaxTransactions` as there
  (`_MAX_TRANSACTIONS` is 1024, too).  The batches have up to five transactions, so
  that the limit is reached within a task list, across two lists, exactly at the
  end of the batch, and twice; they contain failing, empty, mixed and multi-operation
  requests.  The theorems drop the bound.
* `PipeCapacity` and `ReadLimit` 1: the smallest values make a full pipe and a
  partial read the normal case.  Two definers and two executors give replies of one
  executor a sink that is not the sink of the definer that received the request.
  `BusyTraffic` has three frames for one definer and one executor: one task list
  executing, one in the pipe, one blocking the definer.
* Three executors and two definers in the life of the server: an executor can count
  itself before, during and after the wait, and one definer can hang or crash while
  the other ends.
* Three threads, two stores and two tables for the cache: a `set` of one thread, a
  DROP_STORE of a second and a CREATE_STORE of a third on the same name.
* Three columns, two values, two rows for the operations; stores with one, two and
  three key columns and one and two distribution columns.  `MaxRows` bounds the SETs.
* All nineteen classes on the wire, every field set, cleared and set again, nested
  messages empty and full (full ones are full to the bottom), `MaxElements` 2 elements
  in repeated fields, so that the order shows; enum values of the first and a middle
  number and of a later version.  `Base` 2 and values up to length 4: each length byte
  zero and non-zero, the largest length that fits (3), and the first that wraps (4).
* Two workers and three frames for the client: a worker has two frames, or a frame
  and a reply, while the other has one.

### Fairness

Safety needs none. `FairSpec` of the executor assumes that its thread keeps running and
that NDB decides each transaction it was sent; NDB bounds it by its transaction
timeouts. `StoreSpec` assumes that each definer and each executor thread keeps running,
and nothing of clients. `StoreLifecycle` assumes the same of the main thread, the thread
of the transport, the executors, the definers and a thread that has entered `stop`;
requests, calls of `stop` and spurious wakeups are owed by nobody, and neither are
failures (`Failure`). `ClientTransport` assumes that the workers run, that callbacks
end, that the server answers and that a destructor which has been entered goes on;
nobody owes a frame, a close or an error of a socket. All are weak fairness: a thread's
next step, once possible, stays possible until it is taken.

`CHECK_DEADLOCK FALSE` is used where the system really stops: when the server has
crashed, exited or been destroyed (`lifecycle`), and when the client's executor is
gone (`client_transport`).

## Findings

* Definition operations of an atomic request run outside its transaction and stay
  when it fails (`executor_single_transaction`).
* The client can frame CREATE_DATABASE and DROP_DATABASE, the decoder drops them,
  and the request that is left without operations is never answered
  (`store_unanswered`).
* An atomic frame with an item that does not parse commits the other items and
  reports success (`store_partial`).
* A VARCHAR or VARBINARY declared with length 255, and only that length, gets one
  length byte in NDB (`store_varchar_length`).

Seen on the way, without a document that says otherwise: a `primary_key` flag that is
present and false makes a column a key; a GET with more key columns than the store has
ignores them all, and one with the full key ignores its values; a stale cache entry of a
store that no longer exists cannot be repaired before the store is created and dropped
again; a request that arrives before the databases are connected crashes the server; a
request that arrives while `stop` works can hang a definer and with it `stop`; `~Store`
dereferences `_ndbDefiners`, which nothing sets; a callback that throws ends the worker
it runs on, and what the worker held is lost; an executor that cannot make its sockets
is never counted, and the start waits for it for ever; an executor or a definer that an
exception has ended leaves its peers blocked in the sockets to it; `stop` closes the
sockets of the proxy under the thread that polls them; a scan that fails after part of
its rows is answered as a success with that part (the callback takes every answer of
`nextResult` but 0 for the end); a read by key of a row that is not there is answered
with a row, if NDB reports it for the read and not for the transaction; `getVarChar`
returns one zero byte too many; an optional enum field that is not set reads as the
first value of the enum, BOOL for a column type.

## Theorems

Proved by TLAPS for all values of the constants.

**Executor** (`NDBMessageExecutorProofs`), from `BatchesAssumption` (batches are
sequences of sequences of requests) and `LimitAssumption` (`0 < BatchLimit <=
MaxTransactions`):

* `TypeCorrect`: `TypeOK` is invariant.
* `CallbacksAreSafe`: `CallbackStateValid` is invariant.
* `PoolNeverExhausted`: `TransactionPoolBound` is invariant.
* `NoSecondReply`: `AtMostOneReply` is invariant.

The inductive invariant is `IInv == TypeOK /\ ControlInv /\ PreparedInv /\ CountInv`
(lemma `Invariance`).  `CallbackStateValid` alone does not survive `Return`, which
frees all lists: one has to know that nothing is prepared then, and that follows
from the counters only if they are exact.  So `CountInv` says that the number of
prepared transactions is `totalTransactions - completedTransactions`, that the limit
is reached in `flush` only, and that outside the waits nothing is counted as
completed.  For the cardinalities to move by one with each step, `PreparedInv` says
that no request has two prepared transactions and that a prepared request is behind
the position of the loops (`Past`), so that a new one is really new.  `ControlInv`
ties the owned lists and the open transaction to `pc`.  For the replies,
`RepliedInv` adds that every reply is about something behind the loops (`Due`) and
that no prepared request has had its verdict; the next reply then differs from all
earlier ones.

About the transactions, in the same module and from the same assumptions:

* `TransactionsAreAtomic`: `AllOrNothing` is invariant.
* `SuccessCanBeTrusted`: `SuccessIsDurable` is invariant.
* `DefinitionsOvertakeFew`: `OvertakesLessThanABatch` is invariant.

A commit takes effect as a whole because what is prepared is the whole of its request:
`GatheredInv` says of the transaction being built that it holds the operations before
the current one, and of a prepared one that it holds all of its request.
`CommittedInv` says that what NDB reports as committed has taken effect, `PlaceInv`
that the positions of the loops are places in the batch.  For the overtaking,
`SettledInv` says that a request behind the loops has had its verdict or has a
prepared transaction; different requests have different ones, so there are at most as
many unsettled requests as prepared transactions, and these are fewer than the limit
outside a flush.

**Refinement** (`RefinementProofs`), from the same assumptions:

* `ThreadImplementsService`: `Spec => ImplementsService`, every behaviour of an
  executor thread is one of `TransactionService`.

One lemma for each action of the service says when a step of the thread is that
action under the mapping (`ServiceAccepts`, `ServiceDefines`, `ServiceRefuses`,
`ServiceCommits`, `ServiceConfirms`, `ServiceFinishes`, `Stutter`).  Their conditions
are met by `FullInv`, which adds to all of the above: `KnownInv`, a prepared
transaction is not empty and its request has no operation of an unknown type (it
would have been refused); `DefinedInv`, the definition operations of a request behind
the loops are answered, unless it was refused; and `DrainInv`, the last wait is at the
end of the batch.  So at `Return` every request is behind the loops, nothing is
prepared, and each is settled.

**Table cache** (`TableInfoCacheProofs`), from `TablesAssumption` (the bound is a
natural number; threads and stores are any sets):

* `CacheIsCoherent`: `StaleOnlyWhenOvertaken` is invariant.

The property says exactly when an entry may be stale: around a DROP_STORE, after one that
overtook a `set`, or after one whose query took effect and was reported as an error.
The invariant is strengthened by `HeldInv`, which says of a thread about to insert
a dropped table what the property says of a stale entry, because `Insert` turns the
one into the other.

**Start of the server** (`StoreLifecycleProofs`), from `ExecutorsAssumption` (there
are finitely many executors, and at least one):

* `ExecutorsComeFirst`: `ExecutorsBeforeDatabase` is invariant.

The count has to be exact: `IInv` says that it is the cardinality of the set of
executors that have started, a subset of all; so when the wait ends it is all of them.
An executor that failed is not among them, and no later failure takes one out.

**Client transport** (`ClientTransportProofs`), from `WorkersAssumption` (there is a
worker):

* `WorkersKeepServing`: `WorkersServe` is invariant.

`LoopInv` is what makes the code right despite `errno`: whatever the first drain
makes of `isSocketValid`, the second one sets it again before the loop tests it.

**Message flow** (`StoreProofs`), from `StoreAssumption` (there is a definer, an
executor, room for one message in a pipe, and a limit of at least one to a read),
`TrafficAssumption` and `UuidAssumption`; the executors are those of
`TransactionService`, which the thread implements:

* `RepliesToRequesters`: `RepliesReachTheRequester` is invariant.
* `OneReplyEach`: `DeliveredOnce` is invariant.
* `StoreInvariant`: so is `StoreInv`, from which both follow.

The argument follows a request through the server.  `Places` is the set of all places
where one can be: at its client, in an inbox, in a task list that is waiting, in a
pipe, or in a batch.  `OnePlace` says that no request with operations is at two of
them, and `RepliedFromBatch` that a request with a reply on its way or delivered is
nowhere but in the batch where that reply is on record; so the next reply, which is
only sent when none is on record, differs from all earlier ones (`OneReply`,
`DeliveredOnce`).  `GenuineRequests` and `GenuineReplies` say that what has left the
clients bears the identity and an identifier of a frame that was sent.

A step that moves requests is described by a function from the places after it to the
places before it (`Moves`): what is at a place after the step was at one place before
it, and what was at one place is at no two.  `OnePlaceMoves`, `GenuineMoves` and
`RepliedMoves` show once that such a step keeps the invariant; `ClientSendsMoves`,
`ReceiveRequestsMoves`, `SendMoves`, `ReceiveTasksMoves` and `OtherStepsMove` give the
function for every action.  They rest on what the operators on sequences do:
`FlattenSeqGathers` (decoding a drain, and joining the pipes into a batch, neither
invents nor copies) and `BucketGathers` (dealing out gives a request to one executor,
once).  FlattenSeq is a recursive function; the induction over it is an argument by the
least index that fails (`LeastNumber`).  That one queue of replies never holds the same
reply twice is what makes the count in the bag of `ForwardReplies` come out as one
(`BagAfter`).

**Operations** (`StoreOperationsProofs`), from `OperationsAssumption` (finitely many
columns; declarations give every column its flags):

* `GetCorrect`: `GetReturnsMatchingRows` is invariant.

The access path is chosen by counting the key columns of a GET, so the proof needs
what makes the count meaningful: `KeyInv`, the prune index is part of the primary key
and the key of a store that exists is not empty (MySQL refuses anything else), and, for
the read by key, which returns one row, `RowsInv`, no two rows with the same primary key
(NDB's own doing, so no theorem here).  `DocumentedPaths` then gives the path of each
documented form, and `RowsReadDescribed` that the rows on it are the rows described; a
scan cut short returns a subset of them.

**Column values** (`ColumnsValueProofs`), from `ByteAssumption` (a byte has at least two
values):

* `VarCharRoundTrip`: a VARCHAR or VARBINARY whose length is below `Base * Base` is read
  back as it was written with a zero after it, whatever the builder finds beyond its
  buffer.  With `Base` 256 these are the lengths up to 65535.

**Model-checked only.** Liveness (`ExecuteReturns`, `RequestsAnswered`, `ServerComesUp`,
`StopReturns`, `DestructorReturns`, `FramesAnswered`, `OthersKeepAnswering`) is out of
reach of the prover. The wire format is defined with recursive operators, which follow
the nesting of messages; these too are out of its reach, so `ParseRestores`,
`MergeAgreesWithParse`, `AcceptedIffComplete`, and of `PayloadIntact` all but the
operators of `ColumnsValue`, stay with TLC. Every other property of a run that holds is
a theorem.

## Assumptions about what is not in the repository

NDB: transactions are atomic; each gets one callback; a reported error does not mean
that nothing happened; `getTable` answers with the table of that moment (NDB's own
dictionary cache is not modelled); keys, bounds and values are refused for columns they
do not fit; `nextResult` may answer with an error at any row of a scan; a read by key of
a row that is not there may fail alone, without failing its transaction. MySQL: a
statement may take effect and be answered with an error (the connection is lost); a
CREATE TABLE needs a free name, a length for VARCHAR, and partition columns inside the
primary key. ZeroMQ: messages are neither lost nor duplicated inside the process, a pipe
is bounded unless set unlimited, a reply goes to the peer its identity frame names;
`recv` answers false on an empty socket and throws otherwise; a context waits for its
sockets, and a closed socket drops what it holds. Protocol buffers library: the
primitives of the coded streams. Applications: the uuid they name a request by is used
for no other.

## Not modelled

* The definer layer that is compiled out (assignment by data node) and the request
  throttle that nothing calls.
* CREATE_DATABASE and DROP_DATABASE in the executor (nothing decodes to them), and the
  distribution hint of a transaction (it only chooses the coordinator).
* Fixed width column values: copies of the bytes of a native value.
* A second concurrent call of `Store::stop`, and a `close` from within a callback:
  nothing in the repository does either.
* The client without workers (`receive`, `receiveAll`): `Executor` offers no call that
  reaches them.
* Descriptors and reflection in the generated code; `Filter.pb.*` has no classes.
* A crash of the server between a commit and its reply.  The code keeps nothing across
  a restart and sends nothing again, so there is nothing to check it against.
* A reply that cannot be serialized, which is not sent (`replyWithResult`): the code
  sets every required field of the results it makes, so serialization cannot fail.
* An operation without a `store_info` (`store_info(0)` on an empty repeated field, which
  ends the process): a client that names no store, which the library's classes make
  possible and no document shows.
* Statistics (printed only), load tests, configuration and logging, and the ZeroMQ
  binding, which is third-party.

## Plan

Done: `FrameUtils`, `NDBMessageExecutor`, `TransactionService`, `FrameDecoder`,
`Store`, `StoreLifecycle`, `TableInfoCache`, `StoreOperations`, `ProtoBuf`,
`ColumnsValue`, `WireFormat`, `ClientTransport`, and the proofs above: every invariant
of a run is a theorem.  Left, in this order:

1. Safety parts of the liveness properties as invariants of their own: at a `stop` that
   no request disturbs no thread is left behind (`StoreLifecycle`), and a request in the
   server always has a thread that can take it further (`Store`).
2. `StaleOnlyWhenOvertaken` composed with `StoreOperations`: what a GET through a stale
   entry returns.
