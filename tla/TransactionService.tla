------------------------- MODULE TransactionService -------------------------
(***************************************************************************)
(* What the executor threads promise the clients, with nothing of how      *)
(* NDBMessageExecutor keeps the promise.  Each thread is given batches of  *)
(* lists of requests.  A definition operation is answered at most once;    *)
(* the other operations of a request take effect together or not at all,   *)
(* and get at most one verdict, a success only after they took effect; a   *)
(* thread is done with a batch only when every request in it has been      *)
(* answered.                                                               *)
(***************************************************************************)
EXTENDS FrameUtils

CONSTANT Executors   \* the executor threads

VARIABLES
    busy,     \* busy[e]: a batch is being executed
    batch,    \* batch[e]: the current batch
    sent,     \* sent[e]: the replies to it, in the order sent
    effects   \* effects[e]: the operations of it that took effect

serviceVars == <<busy, batch, sent, effects>>

Slots(e) == UNION {{l} \X DOMAIN batch[e][l] : l \in DOMAIN batch[e]}
OpsOf(e, slot) == batch[e][slot[1]][slot[2]].ops

Replies(e) == {sent[e][n] : n \in DOMAIN sent[e]}
Answered(e, slot, i) ==
    \E r \in Replies(e) : r.list = slot[1] /\ r.tuple = slot[2] /\ r.op = i
Refused(e, slot) ==
    \E r \in Replies(e) :
        r.list = slot[1] /\ r.tuple = slot[2] /\ r.op = 0 /\ r.status = "error"

\* The operations of a request that belong to its transaction.
Transactional(e, slot) ==
    DOMAIN OpsOf(e, slot) \ IndexesOf(OpsOf(e, slot), DefinitionType)
Writes(e, slot) ==
    {<<slot[1], slot[2], i>> :
        i \in Transactional(e, slot) \cap IndexesOf(OpsOf(e, slot), WriteType)}

Reply(slot, i, status, results) ==
    [list |-> slot[1], tuple |-> slot[2], op |-> i, status |-> status, results |-> results]
ReplyWith(e, reply) == sent' = [sent EXCEPT ![e] = Append(@, reply)]

ServiceInit ==
    /\ busy = [e \in Executors |-> FALSE]
    /\ batch = [e \in Executors |-> <<>>]
    /\ sent = [e \in Executors |-> <<>>]
    /\ effects = [e \in Executors |-> {}]

Accept(e, b) ==
    /\ ~busy[e]
    /\ busy' = [busy EXCEPT ![e] = TRUE]
    /\ batch' = [batch EXCEPT ![e] = b]
    /\ UNCHANGED <<sent, effects>>

\* A definition operation is run and answered in one step.
Define(e, slot, i) ==
    /\ busy[e] /\ ~Answered(e, slot, i)
    /\ \/ /\ ReplyWith(e, Reply(slot, i, "ok", {}))
          /\ effects' = [effects EXCEPT ![e] = @ \cup {<<slot[1], slot[2], i>>}]
       \/ ReplyWith(e, Reply(slot, i, "error", {})) /\ UNCHANGED effects
    /\ UNCHANGED <<busy, batch>>

\* All that the transaction of a request writes, at once, before its verdict.
Commit(e, slot) ==
    /\ busy[e] /\ ~Answered(e, slot, 0)
    /\ Transactional(e, slot) \subseteq IndexesOf(OpsOf(e, slot), ManipulationType)
    /\ effects' = [effects EXCEPT ![e] = @ \cup Writes(e, slot)]
    /\ UNCHANGED <<busy, batch, sent>>

Confirm(e, slot) ==
    /\ busy[e] /\ ~Answered(e, slot, 0) /\ Writes(e, slot) \subseteq effects[e]
    /\ Transactional(e, slot) \subseteq IndexesOf(OpsOf(e, slot), ManipulationType)
    /\ ReplyWith(e, Reply(slot, 0, "ok", Transactional(e, slot)))
    /\ UNCHANGED <<busy, batch, effects>>

Refuse(e, slot) ==
    /\ busy[e] /\ ~Answered(e, slot, 0)
    /\ ReplyWith(e, Reply(slot, 0, "error", {}))
    /\ UNCHANGED <<busy, batch, effects>>

\* A refused request owes no reply for its definition operations.
Settled(e, slot) ==
    /\ Transactional(e, slot) # {} => Answered(e, slot, 0)
    /\ \/ Refused(e, slot)
       \/ \A i \in IndexesOf(OpsOf(e, slot), DefinitionType) : Answered(e, slot, i)

\* One reply, or one commit, on behalf of a request of the batch.
Serve(e) ==
    \E slot \in Slots(e) :
        \/ \E i \in IndexesOf(OpsOf(e, slot), DefinitionType) : Define(e, slot, i)
        \/ Transactional(e, slot) # {}
           /\ (Commit(e, slot) \/ Confirm(e, slot) \/ Refuse(e, slot))

\* The batch, and with it the memory of what was done for it, is dropped.
Finish(e) ==
    /\ busy[e] /\ \A slot \in Slots(e) : Settled(e, slot)
    /\ busy' = [busy EXCEPT ![e] = FALSE]
    /\ batch' = [batch EXCEPT ![e] = <<>>]
    /\ sent' = [sent EXCEPT ![e] = <<>>]
    /\ effects' = [effects EXCEPT ![e] = {}]

\* A thread takes whatever batch it is given.
ServiceNext ==
    \E e \in Executors : Accept(e, batch'[e]) \/ Serve(e) \/ Finish(e)

ServiceSpec == ServiceInit /\ [][ServiceNext]_serviceVars
=============================================================================
