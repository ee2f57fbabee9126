----------------------------- MODULE Listening ------------------------------
(***************************************************************************)
(* The receiving side of a process: the message server, and below it the   *)
(* Listen of a networked transport that its supervisors call.  Each takes  *)
(* the other as the other's properties describe it, and as modelled they   *)
(* share no state: a behaviour is that of a server or that of a transport, *)
(* whichever moves first.                                                  *)
(***************************************************************************)
EXTENDS Consumers, MessageServer

listeningVars == <<vars, serverVars>>

NoServer == ServerInit

\* The server is observed beside one transport, whose Listen has not begun.
NoListen == transport = "tcp" /\ Init

ListeningInit == Init /\ ServerInit

ListeningNext ==
    \/ NoServer /\ Next /\ UNCHANGED serverVars
    \/ NoListen /\ ServerNext /\ UNCHANGED vars

(***************************************************************************)
(* The fairness of both.  A transport's applies while no server runs; the  *)
(* server's asks for nothing before its first step.                        *)
(***************************************************************************)
ListeningSpec ==
    /\ ListeningInit
    /\ [][ListeningNext]_listeningVars
    /\ WF_vars(NoServer /\ Progress)
    /\ WF_vars(NoServer /\ BrokerDelivers)
    /\ SF_vars(NoServer /\ LoopStops)
    /\ ServerFairness /\ PoliteHandlers
=============================================================================
