------------------------ MODULE MCNDBMessageExecutor ------------------------
(***************************************************************************)
(* Batches for the model checking of one executor thread.                  *)
(***************************************************************************)
EXTENDS NDBMessageExecutor

Of(ops) == [id |-> "id", identity |-> "client", ops |-> ops]

Single == Of(<<"SET">>)
Several == Of(<<"SET", "GET", "DELETE">>)
Mixed == Of(<<"SET", "CREATE_STORE", "DELETE">>)
Late == Of(<<"DROP_STORE", "GET", "SERVER_RESPONSE", "CREATE_STORE">>)
Empty == Of(<<>>)

\* Every kind of request, more transactions than BatchLimit both within one task
\* list and across two, an empty request, and a last list that ends in a flush.
MCBatches == {
    << <<Single, Several, Single>> >>,
    << <<Several>>, <<Mixed, Single>> >>,
    << <<Single, Late>>, <<Mixed>> >>,
    << <<Empty, Single>>, <<Several>>, <<Late>> >>,
    << <<Single, Single>>, <<Single, Single>>, <<Several>> >> }

\* One atomic request that creates a store and puts a first pair into it.
CreateAndFill == {<< <<Of(<<"CREATE_STORE", "SET">>)>> >>}
=============================================================================
