------------------------------ MODULE MCClients -----------------------------
(***************************************************************************)
(* Two calls over at most two links, two requests or a request and a       *)
(* publish, on each transport: enough for a request of the second link to  *)
(* meet what is left of the first.  The in-process transport, with a queue *)
(* of one place, also takes a direct dispatch beside the publish.          *)
(***************************************************************************)
EXTENDS Clients

CONSTANTS c1, c2

BothRequest == [c \in Callers |-> "request"]
MCKinds == {BothRequest, [BothRequest EXCEPT ![c2] = "publish"],
            [c \in Callers |-> IF c = c1 THEN "direct" ELSE "publish"]}
=============================================================================
