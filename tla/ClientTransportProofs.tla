----------------------- MODULE ClientTransportProofs ------------------------
(***************************************************************************)
(* Theorems about the client transport, for every number of workers and    *)
(* every set of frames.                                                    *)
(***************************************************************************)
EXTENDS ClientTransport, TLAPS

\* The flag is up only while the transport is being closed, and a worker comes to the
\* top of its loop only with isSocketValid set, whatever errno was in between.
LoopInv ==
    /\ stopFlag => app # "running"
    /\ \A w \in Workers : worker[w] \in {"starting", "check"} => valid[w]

IInv == TypeOK /\ LoopInv /\ WorkersServe

\* What recv drains from a queue of frames, and the set of it, are frames.
LEMMA DrainedType ==
    ASSUME NEW q \in Seq(Frames)
    PROVE  Drained(q) \in Seq(Frames) /\ Range(q) \subseteq Frames
BY DEF Drained, Range

\* Every step keeps the type invariant.
LEMMA TypeStep ==
    TypeOK /\ [Next]_vars => TypeOK'
<1> SUFFICES ASSUME TypeOK, [Next]_vars
             PROVE  TypeOK'
    OBVIOUS
<1> USE DEF TypeOK, WorkerState, queueVars
<1>1. ASSUME NEW w \in Workers, StartWorker(w)
      PROVE  TypeOK'
      BY <1>1 DEF StartWorker
<1>2. ASSUME NEW w \in Workers, CheckStop(w)
      PROVE  TypeOK'
  <2>1. CASE CloseSockets(w)
        BY <1>2, <2>1 DEF CheckStop, CloseSockets
  <2>2. CASE worker' = [worker EXCEPT ![w] = "client"] /\ UNCHANGED queueVars
        BY <1>2, <2>2 DEF CheckStop
  <2> QED
        BY <1>2, <2>1, <2>2 DEF CheckStop
<1>3. ASSUME NEW w \in Workers, ReceiveReplies(w)
      PROVE  TypeOK'
      BY <1>3, DrainedType DEF ReceiveReplies
<1>4. ASSUME NEW w \in Workers, NEW errno \in {"EAGAIN", "other"}, CallbackReturns(w, errno)
      PROVE  TypeOK'
  <2>1. Range(received[w]) \subseteq Frames
        BY DrainedType
  <2> QED
        BY <1>4, <2>1 DEF CallbackReturns
<1>5. ASSUME NEW w \in Workers, CallbackThrows(w)
      PROVE  TypeOK'
  <2>1. Range(received[w]) \subseteq Frames
        BY DrainedType
  <2> QED
        BY <1>5, <2>1 DEF CallbackThrows, CloseSockets
<1>13. ASSUME NEW w \in Workers, SocketThrows(w)
      PROVE  TypeOK'
      BY <1>13 DEF SocketThrows, CloseSockets
<1>6. ASSUME NEW w \in Workers, ForwardFrames(w)
      PROVE  TypeOK'
  <2>1. Range(Drained(sink[w])) \subseteq Frames
        BY DrainedType
  <2> QED
        BY <1>6, <2>1 DEF ForwardFrames, IsSocketValid
<1>7. ASSUME NEW w \in Workers, NEW f \in Frames, Send(f, w)
      PROVE  TypeOK'
      BY <1>7 DEF Send
<1>8. ASSUME NEW w \in Workers, NEW f \in Frames, ServerAnswers(w, f)
      PROVE  TypeOK'
      BY <1>8 DEF ServerAnswers
<1>9. CASE Close
      BY <1>9 DEF Close
<1>10. CASE Joined
      BY <1>10 DEF Joined
<1>11. CASE Destroy
      BY <1>11 DEF Destroy
<1>12. CASE UNCHANGED vars
      BY <1>12 DEF vars
<1> QED
      BY <1>1, <1>2, <1>3, <1>4, <1>5, <1>6, <1>7, <1>8, <1>9, <1>10, <1>11, <1>12,
         <1>13
         DEF Next, WorkerStep

\* The inductive step: each action of the application, a worker and the server keeps
\* the invariant.
LEMMA InvStep ==
    IInv /\ [Next]_vars => IInv'
<1> SUFFICES ASSUME IInv, [Next]_vars
             PROVE  IInv'
    OBVIOUS
<1>0. TypeOK'
      BY TypeStep DEF IInv
<1> USE <1>0 DEF IInv, LoopInv, WorkersServe, queueVars
<1>1. ASSUME NEW w \in Workers, StartWorker(w)
      PROVE  IInv'
      BY <1>1 DEF StartWorker, TypeOK
<1>2. ASSUME NEW w \in Workers, CheckStop(w)
      PROVE  IInv'
      BY <1>2 DEF CheckStop, CloseSockets, TypeOK
<1>3. ASSUME NEW w \in Workers, ReceiveReplies(w)
      PROVE  IInv'
      BY <1>3 DEF ReceiveReplies, TypeOK
<1>4. ASSUME NEW w \in Workers, NEW errno \in {"EAGAIN", "other"}, CallbackReturns(w, errno)
      PROVE  IInv'
      BY <1>4 DEF CallbackReturns, TypeOK
<1>5. ASSUME NEW w \in Workers, CallbackThrows(w)
      PROVE  IInv'
      BY <1>5 DEF CallbackThrows, CloseSockets, TypeOK
<1>13. ASSUME NEW w \in Workers, SocketThrows(w)
      PROVE  IInv'
      BY <1>13 DEF SocketThrows, CloseSockets, TypeOK
<1>6. ASSUME NEW w \in Workers, ForwardFrames(w)
      PROVE  IInv'
      BY <1>6 DEF ForwardFrames, IsSocketValid, TypeOK
<1>7. ASSUME NEW w \in Workers, NEW f \in Frames, Send(f, w)
      PROVE  IInv'
      BY <1>7 DEF Send
<1>8. ASSUME NEW w \in Workers, NEW f \in Frames, ServerAnswers(w, f)
      PROVE  IInv'
      BY <1>8 DEF ServerAnswers
<1>9. CASE Close
      BY <1>9 DEF Close
<1>10. CASE Joined
      BY <1>10 DEF Joined
<1>11. CASE Destroy
      BY <1>11 DEF Destroy
<1>12. CASE UNCHANGED vars
      BY <1>12 DEF vars
<1> QED
      BY <1>1, <1>2, <1>3, <1>4, <1>5, <1>6, <1>7, <1>8, <1>9, <1>10, <1>11, <1>12,
         <1>13
         DEF Next, WorkerStep

LEMMA Invariance == Spec => []IInv
<1>1. Init => IInv
  <2> SUFFICES ASSUME Init PROVE IInv
      OBVIOUS
  <2>1. TypeOK
    <3>1. valid \in [Workers -> BOOLEAN]
          BY DEF Init
    <3>2. requests \in [Workers -> SUBSET Frames]
          BY DEF Init
    <3>3. [w \in Workers |-> <<>>] \in [Workers -> Seq(Frames)]
          OBVIOUS
    <3> QED
          BY <3>1, <3>2, <3>3 DEF Init, TypeOK, WorkerState
  <2>2. \A w \in Workers : valid[w] /\ worker[w] # "ended"
        BY DEF Init
  <2>3. stopFlag = FALSE /\ app = "running"
        BY DEF Init
  <2> QED
        BY <2>1, <2>2, <2>3 DEF IInv, LoopInv, WorkersServe
<1> QED
      BY <1>1, InvStep, PTL DEF Spec

\* No value a callback leaves in errno makes a worker leave its loop.
THEOREM WorkersKeepServing == Spec => []WorkersServe
<1>1. IInv => WorkersServe
      BY DEF IInv
<1> QED
      BY <1>1, Invariance, PTL
=============================================================================
