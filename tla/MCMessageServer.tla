--------------------------- MODULE MCMessageServer --------------------------
(***************************************************************************)
(* Two transports, one of them without handlers, two messages for one      *)
(* slot, and two goroutines each that start and stop the server.           *)
(***************************************************************************)
EXTENDS MessageServer

CONSTANTS l1, l2, m1, m2

MCVia == [m \in Inbound |-> l1]
=============================================================================
