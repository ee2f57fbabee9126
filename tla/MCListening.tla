---------------------------- MODULE MCListening -----------------------------
(***************************************************************************)
(* Three messages, the second of them malformed and the third a request,   *)
(* one slot, and a consumer that is lost at most twice.  The server is     *)
(* that of MCMessageServer.                                                *)
(***************************************************************************)
EXTENDS Listening, MCMessageServer
=============================================================================
