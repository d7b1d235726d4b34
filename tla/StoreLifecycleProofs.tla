------------------------ MODULE StoreLifecycleProofs ------------------------
(***************************************************************************)
(* Theorems about the start and the stop of the server, for every number   *)
(* of executors and definers.                                              *)
(***************************************************************************)
EXTENDS StoreLifecycle, FiniteSetTheorems, TLAPS

StartedSet == {e \in Executors : Started(e)}

\* _currentExecutorInitCount counts the executors that have started, and the main thread
\* is past its wait only when these are all.
IInv ==
    /\ executor \in [Executors -> {"absent", "connecting", "failed", "counting", "check",
                                   "receiving", "blocked", "ended"}]
    /\ initCount = Cardinality(StartedSet)
    /\ ExecutorsBeforeDatabase

\* As many started executors as there are executors are all of them.
LEMMA AllCounted ==
    ASSUME IInv, ~(initCount < NoExecutorThreads)
    PROVE  StartedSet = Executors
<1>1. StartedSet \subseteq Executors
      BY DEF StartedSet
<1>2. /\ IsFiniteSet(StartedSet)
      /\ Cardinality(StartedSet) <= Cardinality(Executors)
      /\ Cardinality(StartedSet) = Cardinality(Executors) => StartedSet = Executors
      BY <1>1, ExecutorsAssumption, FS_Subset
<1>3. Cardinality(StartedSet) \in Nat /\ Cardinality(Executors) \in Nat
      BY <1>2, ExecutorsAssumption, FS_CardinalityType
<1> QED
      BY <1>2, <1>3 DEF IInv, NoExecutorThreads

\* A step that leaves the executors and their count alone keeps the invariant, if it
\* does not take the main thread past its wait.
LEMMA OtherThreads ==
    ASSUME IInv, UNCHANGED <<executor, initCount>>,
           \/ main' = main
           \/ main' \notin {"initDB", "running", "waiting", "destroying"}
           \/ main \in {"initDB", "running", "waiting", "destroying"}
    PROVE  IInv'
<1>1. \A e \in Executors : Started(e)' <=> Started(e)
      BY DEF Started
<1>2. StartedSet' = StartedSet
      BY <1>1 DEF StartedSet
<1> QED
      BY <1>1, <1>2 DEF IInv, ExecutorsBeforeDatabase

\* So does a step of one executor that neither starts it nor takes its start back.
LEMMA SameStarted ==
    ASSUME IInv, NEW e \in Executors, NEW from, NEW to, ExecutorGoes(e, from, to),
           \/ from = "connecting" /\ to \in {"failed", "counting"}
           \/ /\ from \in {"check", "receiving"}
              /\ to \in {"check", "receiving", "blocked", "ended"}
    PROVE  IInv'
<1>1. \A x \in Executors : Started(x)' <=> Started(x)
      BY DEF IInv, Started, ExecutorGoes
<1>2. StartedSet' = StartedSet
      BY <1>1 DEF StartedSet
<1>3. executor' \in [Executors -> {"absent", "connecting", "failed", "counting", "check",
                                    "receiving", "blocked", "ended"}]
      BY DEF IInv, ExecutorGoes
<1> QED
      BY <1>1, <1>2, <1>3 DEF IInv, ExecutorsBeforeDatabase, ExecutorGoes, startVars

\* The inductive step: each action of the threads keeps the invariant.
LEMMA InvStep ==
    IInv /\ [Next]_vars => IInv'
<1> SUFFICES ASSUME IInv, [Next]_vars
             PROVE  IInv'
    OBVIOUS
<1> USE DEF startVars
<1>1. CASE StartTransport
      BY <1>1, OtherThreads DEF StartTransport
<1>2. ASSUME NEW e \in Executors, SpawnExecutor(e)
      PROVE  IInv'
  <2>1. \A x \in Executors : Started(x)' <=> Started(x)
        BY <1>2 DEF SpawnExecutor, IInv, Started
  <2>2. StartedSet' = StartedSet
        BY <2>1 DEF StartedSet
  <2> QED
        BY <1>2, <2>1, <2>2 DEF SpawnExecutor, IInv, ExecutorsBeforeDatabase
<1>3. CASE AllSpawned
      BY <1>3, OtherThreads DEF AllSpawned, MainGoes
<1>4. CASE CheckInitCount
  <2>1. CASE initCount < NoExecutorThreads
        BY <1>4, <2>1, OtherThreads DEF CheckInitCount, MainGoes
  <2>2. CASE ~(initCount < NoExecutorThreads)
    <3>1. \A e \in Executors : Started(e)
          BY <2>2, AllCounted DEF StartedSet
    <3>2. UNCHANGED <<executor, initCount>>
          BY <1>4 DEF CheckInitCount, MainGoes
    <3>3. \A e \in Executors : Started(e)' <=> Started(e)
          BY <3>2 DEF Started
    <3>4. StartedSet' = StartedSet
          BY <3>3 DEF StartedSet
    <3> QED
          BY <3>1, <3>2, <3>3, <3>4 DEF IInv, ExecutorsBeforeDatabase
  <2> QED
        BY <2>1, <2>2
<1>5. CASE SpuriousWakeup
      BY <1>5, OtherThreads DEF SpuriousWakeup, MainGoes
<1>6. CASE InitDB
      BY <1>6, OtherThreads DEF InitDB
<1>7. CASE RunThrows \/ InitDBFails \/ CheckIsRunning
      BY <1>7, OtherThreads DEF RunThrows, InitDBFails, CheckIsRunning, MainGoes
<1>8. CASE DestroyStore
      BY <1>8, OtherThreads DEF DestroyStore
<1>9. ASSUME NEW e \in Executors,
             \/ InitExecutor(e) \/ ExecutorThrows(e)
             \/ CheckStopFlag(e) \/ ExecuteMessages(e)
      PROVE  IInv'
  <2>1. CASE InitExecutor(e) \/ ExecutorThrows(e)
        BY <2>1, SameStarted DEF InitExecutor, ExecutorThrows
  <2>2. CASE CheckStopFlag(e) \/ ExecuteMessages(e)
        BY <2>2, SameStarted DEF CheckStopFlag, ExecuteMessages
  <2> QED
        BY <1>9, <2>1, <2>2
<1>10. ASSUME NEW e \in Executors, AddExecutorInitializationCount(e)
       PROVE  IInv'
  <2>1. \A x \in Executors : Started(x)' <=> Started(x) \/ x = e
        BY <1>10 DEF AddExecutorInitializationCount, IInv, Started
  <2>2. StartedSet' = StartedSet \cup {e} /\ e \notin StartedSet
        BY <1>10, <2>1 DEF AddExecutorInitializationCount, StartedSet, Started
  <2>3. IsFiniteSet(StartedSet)
        BY ExecutorsAssumption, FS_Subset DEF StartedSet
  <2>4. Cardinality(StartedSet') = Cardinality(StartedSet) + 1
        BY <2>2, <2>3, FS_AddElement
  <2>5. main' = main \/ main' = "check"
        BY <1>10 DEF AddExecutorInitializationCount, NotifyAll
  <2> QED
        BY <1>10, <2>1, <2>4, <2>5
           DEF AddExecutorInitializationCount, IInv, ExecutorsBeforeDatabase
<1>11. CASE TransportStep \/ BindFails
      BY <1>11, OtherThreads DEF TransportStep, StartDefiners, ProxyThrows, BindFails
<1>12. ASSUME NEW d \in Definers, DefinerStep(d) \/ DefinerThrows(d)
       PROVE  IInv'
      BY <1>12, OtherThreads
         DEF DefinerStep, InitDefiner, DefinerThrows, CheckTransportStop, NoRequests,
             DefinerGoes, RequestArrives
<1>13. CASE Stop \/ ExecutorsJoined \/ ClearTaskSockets \/ RaiseTransportStop
      BY <1>13, OtherThreads
         DEF Stop, ExecutorsJoined, ClearTaskSockets, RaiseTransportStop, StopperGoes
<1>14. CASE DefinersJoined \/ JoinOvertakesStart \/ CloseProxySockets \/ DestroyContext
      BY <1>14, OtherThreads
         DEF DefinersJoined, JoinOvertakesStart, CloseProxySockets, DestroyContext,
             StopperGoes
<1>15. CASE StopDone
      BY <1>15, OtherThreads DEF StopDone, NotifyAll, StopperGoes
<1>16. CASE UNCHANGED vars
      BY <1>16, OtherThreads DEF vars
<1> QED
      BY <1>1, <1>2, <1>3, <1>4, <1>5, <1>6, <1>7, <1>8, <1>9, <1>10, <1>11, <1>12,
         <1>13, <1>14, <1>15, <1>16
         DEF Next, MainStep, ExecutorStep, StopStep, Failure

\* No database connection before every executor has its sockets, however the wakeups
\* of the condition variable fall and whichever of the threads fail.
THEOREM ExecutorsComeFirst == Spec => []ExecutorsBeforeDatabase
<1>1. Init => IInv
  <2> SUFFICES ASSUME Init PROVE IInv
      OBVIOUS
  <2>1. StartedSet = {}
        BY DEF Init, StartedSet, Started
  <2> QED
        BY <2>1, FS_EmptySet DEF Init, IInv, ExecutorsBeforeDatabase
<1>2. IInv => ExecutorsBeforeDatabase
      BY DEF IInv
<1> QED
      BY <1>1, <1>2, InvStep, PTL DEF Spec
=============================================================================
