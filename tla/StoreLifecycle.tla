--------------------------- MODULE StoreLifecycle ---------------------------
(***************************************************************************)
(* How the server comes up and goes down: Store::run, stop, ~Store         *)
(* (volodbserver/Store/Store.cpp) and ServerTransport::start, close        *)
(* (volodbserver/Transport/ServerTransport.cpp).                           *)
(*                                                                         *)
(* The main thread starts the transport, creates the executor threads, and *)
(* sleeps on a condition variable until each of them has counted itself;   *)
(* then it connects to NDB, gives NDBMessageExecutor the connections, and  *)
(* waits in waitTillNotRunning.  From the start of the transport on,       *)
(* clients can connect and the definers (the workers of the transport)     *)
(* pass their requests on; an executor serves its socket from the moment   *)
(* it has counted itself.  An exception ends the thread it is thrown in,   *)
(* without a word to the others: an executor that cannot make its sockets  *)
(* never counts itself.  Outside a try, as in the thread of the transport  *)
(* before the proxy, it ends the process.                                  *)
(*                                                                         *)
(* stop joins the executors, closes the sockets the definers send with,    *)
(* and only then stops the definers.  A definer that sends to an executor  *)
(* that has ended waits for ever; one that uses a closed socket does what  *)
(* undefined behaviour does, here: the process dies, or the thread hangs.  *)
(* The program calls stop from nowhere (its signal handler aborts), so the *)
(* caller is some other thread, and there is one.                          *)
(*                                                                         *)
(* Holding a mutex makes testing a condition and going to sleep one step,  *)
(* and changing it and notifying another.                                  *)
(***************************************************************************)
EXTENDS Naturals, FiniteSets

CONSTANTS
    Executors,
    Definers

ASSUME ExecutorsAssumption == IsFiniteSet(Executors) /\ Executors # {}

VARIABLES
    main,           \* where the main thread is
    stopper,        \* where the thread that calls stop is
    isRunning,      \* _isRunning
    transport,      \* the thread of ServerTransport::start, which runs the proxy
    executor,       \* executor[e]: the state of an executor thread
    definer,        \* definer[d]: the state of a worker of the transport
    stopFlag,       \* _stopFlag of Store
    transportStop,  \* _stopFlag of ServerTransport
    initCount,      \* _currentExecutorInitCount
    initialized,    \* NDBMessageExecutor::initialize has been called
    tasks,          \* the executors with a request in their socket
    cleared,        \* _taskSenderSockets.clear() has been called
    crashed         \* the process has died

flagVars == <<stopFlag, transportStop>>
startVars == <<initCount, initialized>>
vars == <<main, stopper, isRunning, transport, executor, definer, flagVars, startVars,
          tasks, cleared, crashed>>

NoExecutorThreads == Cardinality(Executors)

TypeOK ==
    /\ main \in {"start", "spawn", "check", "asleep", "initDB", "running", "waiting",
                 "destroying", "exited"}
    /\ stopper \in {"none", "executors", "clear", "flag", "definers", "proxy", "context",
                    "join", "done", "hung"}
    /\ isRunning \in BOOLEAN
    /\ transport \in {"absent", "starting", "proxy", "failing", "hung", "ended"}
    /\ executor \in [Executors -> {"absent", "connecting", "failed", "counting", "check",
                                   "receiving", "blocked", "ended"}]
    /\ definer \in [Definers -> {"absent", "connecting", "check", "receiving", "blocked",
                                 "ended"}]
    /\ stopFlag \in BOOLEAN /\ transportStop \in BOOLEAN
    /\ initCount \in Nat
    /\ initialized \in BOOLEAN
    /\ tasks \subseteq Executors
    /\ cleared \in BOOLEAN /\ crashed \in BOOLEAN

Init ==
    /\ main = "start" /\ stopper = "none" /\ isRunning = FALSE
    /\ transport = "absent"
    /\ executor = [e \in Executors |-> "absent"]
    /\ definer = [d \in Definers |-> "absent"]
    /\ stopFlag = FALSE /\ transportStop = FALSE
    /\ initCount = 0 /\ initialized = FALSE
    /\ tasks = {}
    /\ cleared = FALSE /\ crashed = FALSE

-----------------------------------------------------------------------------
\* Store::run: the task sockets are made, then ServerTransport::start makes its thread.
StartTransport ==
    /\ main = "start"
    /\ main' = "spawn"
    /\ transport' = "starting"
    /\ UNCHANGED <<stopper, isRunning, executor, definer, flagVars, startVars, tasks,
                   cleared, crashed>>

SpawnExecutor(e) ==
    /\ main = "spawn" /\ executor[e] = "absent"
    /\ executor' = [executor EXCEPT ![e] = "connecting"]
    /\ UNCHANGED <<main, stopper, isRunning, transport, definer, flagVars, startVars,
                   tasks, cleared, crashed>>

\* A step of the main thread that changes nothing but its position.
MainGoes(from, to) ==
    /\ main = from
    /\ main' = to
    /\ UNCHANGED <<stopper, isRunning, transport, executor, definer, flagVars, startVars,
                   tasks, cleared, crashed>>

AllSpawned ==
    /\ \A e \in Executors : executor[e] # "absent"
    /\ MainGoes("spawn", "check")

\* An exception out of run, for want of a socket or a thread: main returns 1.
RunThrows == MainGoes("start", "exited") \/ MainGoes("spawn", "exited")

\* waitForExecutorsToInitialize: the test of the while loop.
CheckInitCount ==
    MainGoes("check", IF initCount < NoExecutorThreads THEN "asleep" ELSE "initDB")

\* Mutant: the wait is guarded by an if instead of a while.
SpuriousWakeup_NoLoop == MainGoes("asleep", "initDB") \/ MainGoes("waiting", "running")

\* A condition variable may also wake a thread for no reason.
SpuriousWakeup == MainGoes("asleep", "check") \/ MainGoes("waiting", "running")

\* _initDB, with NDBMessageExecutor::initialize at its end, and _isRunning.
InitDB ==
    /\ main = "initDB"
    /\ main' = "running"
    /\ initialized' = TRUE
    /\ isRunning' = TRUE
    /\ UNCHANGED <<stopper, transport, executor, definer, flagVars, initCount, tasks,
                   cleared, crashed>>

\* A cluster connection or an Ndb object that does not become ready: exit(EXIT_FAILURE).
InitDBFails == MainGoes("initDB", "exited")

\* waitTillNotRunning.
CheckIsRunning == MainGoes("running", IF isRunning THEN "waiting" ELSE "destroying")

\* Store::~Store: stop has nothing left to do; _clearNDb then reads _ndbDefiners, a null
\* pointer since the line of _initDB that sets it is commented out.
DestroyStore ==
    /\ main = "destroying"
    /\ crashed' = TRUE
    /\ UNCHANGED <<main, stopper, isRunning, transport, executor, definer, flagVars,
                   startVars, tasks, cleared>>

-----------------------------------------------------------------------------
\* A step of an executor thread that changes nothing but its position.
ExecutorGoes(e, from, to) ==
    /\ executor[e] = from
    /\ executor' = [executor EXCEPT ![e] = to]
    /\ UNCHANGED <<main, stopper, isRunning, transport, definer, flagVars, startVars,
                   cleared>>

\* initMySQL (which goes on when it fails) and the two sockets.
InitExecutor(e) ==
    /\ ExecutorGoes(e, "connecting", "counting")
    /\ UNCHANGED <<tasks, crashed>>

\* The catch at the end of _executorWorkerThreadFunc: an exception from the sockets ends
\* the thread before it is counted, one from its loop with what is in its socket.
ExecutorThrows(e) ==
    /\ \/ ExecutorGoes(e, "connecting", "failed") /\ UNCHANGED tasks
       \/ ExecutorGoes(e, "receiving", "ended") /\ tasks' = tasks \ {e}
    /\ UNCHANGED crashed

\* Mutant: the count goes up without a notification.
NotifyAll_Missing(asleep, awake) == main' = main

\* notify_all wakes the main thread if it sleeps, and is forgotten if not.
NotifyAll(asleep, awake) == main' = IF main = asleep THEN awake ELSE main

AddExecutorInitializationCount(e) ==
    /\ executor[e] = "counting"
    /\ executor' = [executor EXCEPT ![e] = "check"]
    /\ initCount' = initCount + 1
    /\ NotifyAll("asleep", "check")
    /\ UNCHANGED <<stopper, isRunning, transport, definer, flagVars, initialized, tasks,
                   cleared, crashed>>

\* The loop of _executorWorkerThreadFunc: out on the flag, losing what is in the socket.
CheckStopFlag(e) ==
    /\ ExecutorGoes(e, "check", IF stopFlag THEN "ended" ELSE "receiving")
    /\ tasks' = IF stopFlag THEN tasks \ {e} ELSE tasks
    /\ UNCHANGED crashed

\* Every operation goes through the static _ndb or _mysql of NDBMessageExecutor, null
\* before initialize.  The definer that forwards its replies is a fixed one of them; the
\* executor waits for ever when that one has ended.
ExecuteMessages(e) ==
    /\ \/ ExecutorGoes(e, "receiving", "check")
       \/ /\ e \in tasks /\ \E d \in Definers : definer[d] = "ended"
          /\ ExecutorGoes(e, "receiving", "blocked")
    /\ tasks' = tasks \ {e}
    /\ crashed' = (e \in tasks /\ ~initialized)

-----------------------------------------------------------------------------
\* The thread of ServerTransport::start: bind, create the workers, enter the proxy.
StartDefiners ==
    /\ transport = "starting"
    /\ transport' = "proxy"
    /\ definer' = [d \in Definers |-> "connecting"]
    /\ UNCHANGED <<main, stopper, isRunning, executor, flagVars, startVars, tasks,
                   cleared, crashed>>

\* A socket that cannot be made or bound (the port is in use): no try is around it, and
\* std::terminate ends the process.
BindFails ==
    /\ transport = "starting"
    /\ crashed' = TRUE
    /\ UNCHANGED <<main, stopper, isRunning, transport, executor, definer, flagVars,
                   startVars, tasks, cleared>>

\* zmq::proxy throws because its sockets are closed; the thread ends.
ProxyThrows ==
    /\ transport = "failing"
    /\ transport' = "ended"
    /\ UNCHANGED <<main, stopper, isRunning, executor, definer, flagVars, startVars,
                   tasks, cleared, crashed>>

\* A step of a definer that changes nothing but its position.
DefinerGoes(d, from, to) ==
    /\ definer[d] = from
    /\ definer' = [definer EXCEPT ![d] = to]
    /\ UNCHANGED <<main, stopper, isRunning, transport, executor, flagVars, startVars,
                   tasks, cleared, crashed>>

\* worker_thread_handler up to its loop: the two sockets.
InitDefiner(d) == DefinerGoes(d, "connecting", "check")

\* The catch at its end: an exception from its sockets.
DefinerThrows(d) ==
    DefinerGoes(d, "connecting", "ended") \/ DefinerGoes(d, "receiving", "ended")

\* The loop of worker_thread_handler.
CheckTransportStop(d) ==
    DefinerGoes(d, "check", IF transportStop THEN "ended" ELSE "receiving")

NoRequests(d) == DefinerGoes(d, "receiving", "check")

\* didReceiveMessage with a request for e: the pipe to e holds it also before e has
\* bound its end, but not after e has closed it.  An executor that failed may have had
\* its end bound or not.
RequestArrives(d, e) ==
    /\ definer[d] = "receiving"
    /\ \/ /\ ~cleared /\ executor[e] # "ended"
          /\ definer' = [definer EXCEPT ![d] = "check"]
          /\ tasks' = tasks \cup {e}
          /\ UNCHANGED crashed
       \/ /\ cleared \/ executor[e] \in {"ended", "failed"}
          /\ definer' = [definer EXCEPT ![d] = "blocked"]
          /\ crashed' \in {FALSE, cleared}
          /\ UNCHANGED tasks
    /\ UNCHANGED <<main, stopper, isRunning, transport, executor, flagVars, startVars,
                   cleared>>

-----------------------------------------------------------------------------
\* A step of the thread in stop that changes nothing else.
StopperGoes(from, to) ==
    /\ stopper = from
    /\ stopper' = to
    /\ UNCHANGED <<transport, executor, definer, startVars, tasks>>

\* Store::stop and _cleanUp up to the joins.
Stop ==
    /\ isRunning
    /\ StopperGoes("none", "executors")
    /\ stopFlag' = TRUE
    /\ UNCHANGED <<main, isRunning, transportStop, cleared, crashed>>

ExecutorsJoined ==
    /\ \A e \in Executors : executor[e] = "ended"
    /\ StopperGoes("executors", "clear")
    /\ stopFlag' = FALSE
    /\ UNCHANGED <<main, isRunning, transportStop, cleared, crashed>>

\* Mutant: the sockets are left to the destructor of Store.
ClearTaskSockets_Skipped ==
    /\ StopperGoes("clear", "flag")
    /\ UNCHANGED <<main, isRunning, flagVars, cleared, crashed>>

\* A definer that hangs in one of the sockets may take the process with it.
ClearTaskSockets ==
    /\ StopperGoes("clear", "flag")
    /\ cleared' = TRUE
    /\ crashed' \in {FALSE, \E d \in Definers : definer[d] = "blocked"}
    /\ UNCHANGED <<main, isRunning, flagVars>>

\* ServerTransport::cleanUp up to the joins.
RaiseTransportStop ==
    /\ StopperGoes("flag", "definers")
    /\ transportStop' = TRUE
    /\ UNCHANGED <<main, isRunning, stopFlag, cleared, crashed>>

\* cleanUp has joined the threads in _workerThreads.
DefinersJoined ==
    /\ \A d \in Definers : definer[d] = "ended"
    /\ StopperGoes("definers", "proxy")
    /\ transportStop' = FALSE
    /\ UNCHANGED <<main, isRunning, stopFlag, cleared, crashed>>

\* cleanUp reads that vector and the context while the thread of start, which nobody
\* waits for, still has to use them.
JoinOvertakesStart ==
    /\ transport = "starting"
    /\ StopperGoes("definers", "hung")
    /\ crashed' \in BOOLEAN
    /\ UNCHANGED <<main, isRunning, flagVars, cleared>>

\* The sockets of the proxy are closed by another thread than the one that uses them:
\* the proxy throws, hangs, or takes the process with it.
CloseProxySockets ==
    /\ stopper = "proxy"
    /\ stopper' = "context"
    /\ \/ transport' \in {"failing", "hung"} /\ UNCHANGED crashed
       \/ transport' = transport /\ crashed' = TRUE
    /\ UNCHANGED <<main, isRunning, executor, definer, flagVars, startVars, tasks, cleared>>

\* The context goes when all sockets made from it are closed.
DestroyContext ==
    /\ cleared
    /\ \A e \in Executors : executor[e] = "ended"
    /\ \A d \in Definers : definer[d] = "ended"
    /\ StopperGoes("context", "join")
    /\ UNCHANGED <<main, isRunning, flagVars, cleared, crashed>>

\* The thread of the proxy is joined; stop tells waitTillNotRunning.
StopDone ==
    /\ transport = "ended"
    /\ StopperGoes("join", "done")
    /\ isRunning' = FALSE
    /\ NotifyAll("waiting", "running")
    /\ UNCHANGED <<flagVars, cleared, crashed>>

-----------------------------------------------------------------------------
MainStep ==
    \/ StartTransport \/ (\E e \in Executors : SpawnExecutor(e)) \/ AllSpawned
    \/ CheckInitCount \/ InitDB \/ CheckIsRunning \/ DestroyStore

ExecutorStep(e) ==
    \/ InitExecutor(e) \/ AddExecutorInitializationCount(e)
    \/ CheckStopFlag(e) \/ ExecuteMessages(e)

DefinerStep(d) ==
    \/ InitDefiner(d) \/ CheckTransportStop(d) \/ NoRequests(d)
    \/ \E e \in Executors : RequestArrives(d, e)

TransportStep == StartDefiners \/ ProxyThrows

\* Failures: nobody owes them.
Failure ==
    \/ RunThrows \/ InitDBFails \/ BindFails
    \/ \E e \in Executors : ExecutorThrows(e)
    \/ \E d \in Definers : DefinerThrows(d)

StopStep ==
    \/ ExecutorsJoined \/ ClearTaskSockets \/ RaiseTransportStop \/ DefinersJoined
    \/ JoinOvertakesStart \/ CloseProxySockets \/ DestroyContext \/ StopDone

\* A process that has died or called exit takes no step.
Alive == ~crashed /\ main # "exited"

Next ==
    /\ Alive
    /\ \/ MainStep \/ SpuriousWakeup \/ Failure \/ TransportStep \/ Stop \/ StopStep
       \/ \E e \in Executors : ExecutorStep(e)
       \/ \E d \in Definers : DefinerStep(d)

\* The threads run; nobody owes a request, a call of stop, a failure or a spurious wakeup.
Spec ==
    /\ Init /\ [][Next]_vars
    /\ WF_vars(Alive /\ MainStep)
    /\ WF_vars(Alive /\ TransportStep)
    /\ WF_vars(Alive /\ StopStep)
    /\ \A e \in Executors : WF_vars(Alive /\ ExecutorStep(e))
    /\ \A d \in Definers : WF_vars(Alive /\ DefinerStep(d))

-----------------------------------------------------------------------------
Started(e) == executor[e] \notin {"absent", "connecting", "failed", "counting"}

\* NDB is only connected once every executor thread has its sockets: the loop
\* around the wait sees through spurious and early wakeups, and an executor that failed
\* is never taken for one that started.
ExecutorsBeforeDatabase ==
    main \in {"initDB", "running", "waiting", "destroying"} =>
        \A e \in Executors : Started(e)

\* The server comes up, gives up or dies, and waits for ever only for an executor that
\* failed and cannot count itself: no notification is lost between the test of the
\* count and the wait.
ServerComesUp ==
    <>(\/ crashed \/ main \in {"running", "exited"}
       \/ \E e \in Executors : executor[e] = "failed")

\* Where stop may stick: at an executor that waits for a definer an exception has
\* ended, at a definer that waits for an executor, at a proxy that hangs in a socket
\* closed under it, or at a start it has overtaken.  Everywhere else it goes on: the
\* flags are lowered only after every thread has seen them, and no socket is left that
\* the context would wait for; in the end waitTillNotRunning is told.
StopReturns ==
    (stopper = "executors") ~>
        \/ crashed
        \/ stopper = "done" /\ main = "destroying"
        \/ stopper = "executors" /\ \E e \in Executors : executor[e] = "blocked"
        \/ stopper = "definers" /\ \E d \in Definers : definer[d] = "blocked"
        \/ stopper = "join" /\ transport = "hung"
        \/ stopper = "hung"
=============================================================================
