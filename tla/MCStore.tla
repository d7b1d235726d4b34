------------------------------ MODULE MCStore -------------------------------
(***************************************************************************)
(* Traffic for the model checking of the server.                           *)
(***************************************************************************)
EXTENDS Store

Op(type) == [type |-> type, parses |-> TRUE]
From(client, frame) == [identity |-> client, frame |-> frame]

MCExecutors == 0 .. 1
OneExecutor == 0 .. 0

\* A frame of a later version, with an item type this server does not know.
Later(frame) == [frame EXCEPT !.parses = FALSE]

\* A frame of two requests from one client, an atomic one from another, and one that
\* does not parse.
MCTraffic == {
    From("A", Framed(<<Op("GET"), Op("CREATE_STORE")>>, <<"a1", "a2">>, FALSE)),
    From("B", Framed(<<Op("SET"), Op("DELETE")>>, <<"b1">>, TRUE)),
    From("C", Later(Framed(<<Op("SET")>>, <<"c1">>, TRUE))) }

\* Enough frames for a definer to find a pipe full while the executor behind it
\* still has replies to send.
BusyTraffic == {
    From("A", Framed(<<Op("GET"), Op("GET")>>, <<"a1", "a2">>, FALSE)),
    From("B", Framed(<<Op("GET")>>, <<"b1">>, FALSE)),
    From("C", Framed(<<Op("DROP_STORE")>>, <<"c1">>, FALSE)) }

\* A frame that only creates a database, which getFrameType lets the client frame.
DatabaseTraffic == {
    From("A", Framed(<<Op("CREATE_DATABASE")>>, <<"a1">>, TRUE)),
    From("B", Framed(<<Op("SET")>>, <<"b1">>, FALSE)) }

\* An atomic frame in which one of two SET operations lacks a required field.
IncompleteTraffic == {
    From("A", Framed(<<Op("SET"), [type |-> "SET", parses |-> FALSE]>>, <<"a1">>, TRUE)) }
=============================================================================
