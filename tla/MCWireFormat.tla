---------------------------- MODULE MCWireFormat ----------------------------
(***************************************************************************)
(* Values for the model checking of the wire format: one of every length   *)
(* up to the first that does not fit in two bytes of Base 2, with zeros.   *)
(***************************************************************************)
EXTENDS WireFormat

MCValues == { <<>>, <<1>>, <<0, 1>>, <<1, 1, 0>>, <<1, 0, 0, 1>> }
=============================================================================
