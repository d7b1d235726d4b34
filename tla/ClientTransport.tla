-------------------------- MODULE ClientTransport ---------------------------
(***************************************************************************)
(* The client library at run time: Executor (volodb-client/Executor) and   *)
(* the worker threads of ClientTransport (volodb-client/Transport).        *)
(*                                                                         *)
(* The application hands frames to a PUSH socket that deals them out to    *)
(* the workers.  A worker in turn drains its DEALER socket, calling the    *)
(* application back with what came, and its sink, forwarding what is there *)
(* to the server.  The destructor of Executor closes the transport, which  *)
(* raises _stopFlag and joins the workers, and then destroys the context,  *)
(* which waits until every socket is closed.                               *)
(*                                                                         *)
(* recv returns false only when the socket is empty (EAGAIN) and throws    *)
(* otherwise (zmq.hpp).  receiveQueuedMessages looks at errno once more    *)
(* after the callback, which is the application's code and may leave any   *)
(* value there; a send that succeeds leaves it alone.                      *)
(*                                                                         *)
(* External: ZeroMQ and the server.  A PUSH socket picks a connected peer  *)
(* and blocks without one; a reply comes back to the socket that sent the  *)
(* request; what a closed socket still held is lost (linger is off).       *)
(***************************************************************************)
EXTENDS Naturals, Sequences, SequencesExt

CONSTANTS
    Workers,    \* the worker threads, at least one
    Frames      \* the frames the application sends

ASSUME WorkersAssumption == Workers # {}

VARIABLES
    app,          \* running, joining (in close), closed, gone (destroyed)
    stopFlag,     \* _stopFlag
    unsent,       \* the frames the application has not sent yet
    worker,       \* worker[w]: where worker_thread_func is
    valid,        \* valid[w]: isSocketValid
    sink,         \* sink[w]: frames pushed to w
    requests,     \* requests[w]: forwarded and not yet answered
    replies,      \* replies[w]: what waits in the DEALER socket
    received,     \* received[w]: what w passes to the callback
    delivered,    \* the replies the application has been called back with
    threw         \* the workers an exception has ended

queueVars == <<sink, requests, replies>>
vars == <<app, stopFlag, unsent, worker, valid, queueVars, received, delivered, threw>>

WorkerState == {"starting", "check", "client", "callback", "sink", "ended"}

TypeOK ==
    /\ app \in {"running", "joining", "closed", "gone"}
    /\ stopFlag \in BOOLEAN
    /\ unsent \subseteq Frames
    /\ worker \in [Workers -> WorkerState]
    /\ valid \in [Workers -> BOOLEAN]
    /\ sink \in [Workers -> Seq(Frames)]
    /\ requests \in [Workers -> SUBSET Frames]
    /\ replies \in [Workers -> Seq(Frames)]
    /\ received \in [Workers -> Seq(Frames)]
    /\ delivered \subseteq Frames
    /\ threw \subseteq Workers

-----------------------------------------------------------------------------
\* Executor::Executor: connect has bound the PUSH socket and created the threads.
Init ==
    /\ app = "running"
    /\ stopFlag = FALSE
    /\ unsent = Frames
    /\ worker = [w \in Workers |-> "starting"]
    /\ valid = [w \in Workers |-> TRUE]
    /\ sink = [w \in Workers |-> <<>>]
    /\ requests = [w \in Workers |-> {}]
    /\ replies = [w \in Workers |-> <<>>]
    /\ received = [w \in Workers |-> <<>>]
    /\ delivered = {}
    /\ threw = {}

\* The sockets of a worker exist from its start to its end.
Connected(w) == worker[w] \notin {"starting", "ended"}

\* Executor::execute: the PUSH socket picks a worker that has connected.
Send(f, w) ==
    /\ app = "running"
    /\ f \in unsent /\ Connected(w)
    /\ unsent' = unsent \ {f}
    /\ sink' = [sink EXCEPT ![w] = Append(@, f)]
    /\ UNCHANGED <<app, stopFlag, worker, valid, requests, replies, received,
                   delivered, threw>>

-----------------------------------------------------------------------------
\* worker_thread_func up to its loop.
StartWorker(w) ==
    /\ worker[w] = "starting"
    /\ worker' = [worker EXCEPT ![w] = "check"]
    /\ UNCHANGED <<app, stopFlag, unsent, valid, queueVars, received, delivered, threw>>

\* Leaving worker_thread_func closes the sockets and loses what they hold.
CloseSockets(w) ==
    /\ worker' = [worker EXCEPT ![w] = "ended"]
    /\ sink' = [sink EXCEPT ![w] = <<>>]
    /\ requests' = [requests EXCEPT ![w] = {}]
    /\ replies' = [replies EXCEPT ![w] = <<>>]

\* The catch of worker_thread_func, for an exception from one of the sockets: they
\* cannot be made or connected, or a recv or a send is interrupted.
SocketThrows(w) ==
    /\ worker[w] \in {"starting", "client", "sink"}
    /\ threw' = threw \cup {w}
    /\ CloseSockets(w)
    /\ UNCHANGED <<app, stopFlag, unsent, valid, received, delivered>>

\* The conditions at the top of the loop.
CheckStop(w) ==
    /\ worker[w] = "check"
    /\ IF stopFlag \/ ~valid[w]
         THEN CloseSockets(w)
         ELSE /\ worker' = [worker EXCEPT ![w] = "client"]
              /\ UNCHANGED queueVars
    /\ UNCHANGED <<app, stopFlag, unsent, valid, received, delivered, threw>>

\* Mutant: the message object of the loop is not replaced, the last one wins.
Drained_Last(queue) == IF queue = <<>> THEN <<>> ELSE <<Last(queue)>>

\* The messages recv yields until the socket is empty.
Drained(queue) == queue

\* Mutant: the loop goes on only if both sockets were found valid.
IsSocketValid_Both(client, forward) == client /\ forward

\* The second assignment to isSocketValid replaces the first.
IsSocketValid(client, forward) == forward

\* receiveQueuedMessages(&clientSocket, nullptr).  The last recv leaves errno at EAGAIN;
\* what was received goes to the callback before errno is looked at.
ReceiveReplies(w) ==
    /\ worker[w] = "client"
    /\ received' = [received EXCEPT ![w] = Drained(replies[w])]
    /\ replies' = [replies EXCEPT ![w] = <<>>]
    /\ worker' = [worker EXCEPT ![w] = IF replies[w] = <<>> THEN "sink" ELSE "callback"]
    /\ valid' = [valid EXCEPT ![w] = TRUE]
    /\ UNCHANGED <<app, stopFlag, unsent, sink, requests, delivered, threw>>

\* Executor::didReceiveMessage, and the application in didReceiveResponse, which
\* leaves errno at some value.
CallbackReturns(w, errno) ==
    /\ worker[w] = "callback"
    /\ delivered' = delivered \cup Range(received[w])
    /\ received' = [received EXCEPT ![w] = <<>>]
    /\ valid' = [valid EXCEPT ![w] = (errno = "EAGAIN")]
    /\ worker' = [worker EXCEPT ![w] = "sink"]
    /\ UNCHANGED <<app, stopFlag, unsent, queueVars, threw>>

\* Mutant: the handler of the exception raises the flag to be rid of the thread.
CallbackThrows_RaisesFlag(w) ==
    /\ worker[w] = "callback"
    /\ delivered' = delivered \cup Range(received[w])
    /\ received' = [received EXCEPT ![w] = <<>>]
    /\ threw' = threw \cup {w}
    /\ CloseSockets(w)
    /\ stopFlag' = TRUE
    /\ UNCHANGED <<app, unsent, valid>>

\* An exception out of the callback ends in the catch of worker_thread_func, too.
CallbackThrows(w) ==
    /\ worker[w] = "callback"
    /\ delivered' = delivered \cup Range(received[w])
    /\ received' = [received EXCEPT ![w] = <<>>]
    /\ threw' = threw \cup {w}
    /\ CloseSockets(w)
    /\ UNCHANGED <<app, stopFlag, unsent, valid>>

\* receiveQueuedMessages(&sinkSocket, &clientSocket): errno is EAGAIN again.
ForwardFrames(w) ==
    /\ worker[w] = "sink"
    /\ requests' = [requests EXCEPT ![w] = @ \cup Range(Drained(sink[w]))]
    /\ sink' = [sink EXCEPT ![w] = <<>>]
    /\ valid' = [valid EXCEPT ![w] = IsSocketValid(@, TRUE)]
    /\ worker' = [worker EXCEPT ![w] = "check"]
    /\ UNCHANGED <<app, stopFlag, unsent, replies, received, delivered, threw>>

\* External: the server answers, in any order.
ServerAnswers(w, f) ==
    /\ f \in requests[w]
    /\ requests' = [requests EXCEPT ![w] = @ \ {f}]
    /\ replies' = [replies EXCEPT ![w] = Append(@, f)]
    /\ UNCHANGED <<app, stopFlag, unsent, worker, valid, sink, received, delivered,
                   threw>>

-----------------------------------------------------------------------------
\* Mutant: the flag is lowered before the workers are joined.
Close_LowerFlag ==
    /\ app = "running"
    /\ app' = "joining"
    /\ stopFlag' = FALSE
    /\ UNCHANGED <<unsent, worker, valid, queueVars, received, delivered, threw>>

\* Executor::~Executor, and ClientTransport::close up to the join.
Close ==
    /\ app = "running"
    /\ app' = "joining"
    /\ stopFlag' = TRUE
    /\ UNCHANGED <<unsent, worker, valid, queueVars, received, delivered, threw>>

\* The rest of cleanUp, when every thread has ended; the PUSH socket is closed.
Joined ==
    /\ app = "joining"
    /\ \A w \in Workers : worker[w] = "ended"
    /\ app' = "closed"
    /\ stopFlag' = FALSE
    /\ UNCHANGED <<unsent, worker, valid, queueVars, received, delivered, threw>>

\* The members of Executor: the context waits until the sockets are closed, then the
\* transport, whose destructor finds nothing left to close.
Destroy ==
    /\ app = "closed"
    /\ \A w \in Workers : ~Connected(w)
    /\ app' = "gone"
    /\ UNCHANGED <<stopFlag, unsent, worker, valid, queueVars, received, delivered,
                   threw>>

-----------------------------------------------------------------------------
WorkerStep(w) ==
    \/ StartWorker(w) \/ CheckStop(w) \/ ReceiveReplies(w) \/ ForwardFrames(w)
    \/ CallbackThrows(w) \/ \E errno \in {"EAGAIN", "other"} : CallbackReturns(w, errno)

Next ==
    \/ \E w \in Workers :
          \/ WorkerStep(w) \/ SocketThrows(w)
          \/ \E f \in Frames : Send(f, w) \/ ServerAnswers(w, f)
    \/ Close \/ Joined \/ Destroy

\* Every thread runs, the callbacks of the application end, the server answers, and
\* a destructor that has been entered goes on; nobody owes a frame, a close or
\* an error of a socket.
Spec ==
    /\ Init /\ [][Next]_vars
    /\ \A w \in Workers : WF_vars(WorkerStep(w))
    /\ \A w \in Workers, f \in Frames : WF_vars(ServerAnswers(w, f))
    /\ WF_vars(Joined) /\ WF_vars(Destroy)

-----------------------------------------------------------------------------
\* A worker leaves its loop only when the application closes the transport or an
\* exception ends it: what a callback leaves in errno, which receiveQueuedMessages
\* takes for the state of the socket, never ends one.
WorkersServe ==
    \A w \in Workers : worker[w] = "ended" => app # "running" \/ w \in threw

\* The destructor returns: every worker sees the flag before it is lowered again, and
\* the context finds all sockets closed.
DestructorReturns == (app = "joining") ~> (app = "gone")

\* The README: the ids passed to execute "are received back in executor's callback".
\* So they are, unless the application closes or an exception has ended a worker.
FramesAnswered ==
    \A f \in Frames :
        (f \notin unsent) ~> (f \in delivered \/ app # "running" \/ threw # {})

\* The frames of a worker: pushed to it, at the server, or on the way back.
Held(w) == Range(sink[w]) \cup requests[w] \cup Range(replies[w]) \cup Range(received[w])

\* An exception costs no frame but those of the worker it ends: the others are answered
\* all the same, and go on taking frames.
OthersKeepAnswering ==
    \A w \in Workers, f \in Frames :
        (f \in Held(w)) ~> (f \in delivered \/ app # "running" \/ w \in threw)
=============================================================================
