--------------------------- MODULE MCClientSession ---------------------------
(***************************************************************************)
(* Values for ClientSession's constants.  A status document takes a little *)
(* less than half of BUFFER_SIZE, the other messages a few bytes.          *)
(***************************************************************************)
EXTENDS ClientSession

MCMsgLen == [k \in Kind |-> IF k \in {"status", "updated"} THEN 3 ELSE 1]
=============================================================================
