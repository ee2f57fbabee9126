------------------------------ MODULE Routing -------------------------------
(***************************************************************************)
(* What lies between a published message and its reply: the matcher, the   *)
(* subscriptions that a broker is asked for, the router, and the dispatch  *)
(* of a message to the chain of its route.  As modelled they share no      *)
(* state, so a behaviour is one call of Match, one service with one        *)
(* message, one router, or one server that registers and dispatches.       *)
(***************************************************************************)
EXTENDS PatternMatch, Subscriptions, Dispatching, Router

allVars == <<vars, subsVars, dispatchVars, routerVars>>

NoMatch ==
    /\ pattern = <<>> /\ subject = <<>> /\ pi = 0 /\ si = 0 /\ starPi = -1 /\ starSi = -1
    /\ pc = "done" /\ matched = TRUE /\ steps = 0

NoService ==
    /\ broker = "redis" /\ prefix = <<>> /\ patterns = <<>> /\ phase = "refused"
    /\ plan = {} /\ message = [channel |-> <<>>, subject |-> <<>>, by |-> <<>>]
    /\ copies = {} /\ handled = 0 /\ echoed = 0

RoutingInit ==
    /\ DispatchInit /\ RouterInit
    /\ \/ Init /\ NoService
       \/ NoMatch /\ SubsInit
       \/ NoMatch /\ NoService

\* The server runs in the behaviours without a match and without a service,
\* its router or its dispatch, whichever moves first.
Serving == NoMatch /\ NoService

RoutingNext ==
    \/ Next /\ UNCHANGED <<subsVars, dispatchVars, routerVars>>
    \/ SubsNext /\ UNCHANGED <<vars, dispatchVars, routerVars>>
    \/ Serving /\ RouterInit /\ DispatchNext /\ UNCHANGED <<vars, subsVars, routerVars>>
    \/ Serving /\ DispatchInit /\ RouterNext /\ UNCHANGED <<vars, subsVars, dispatchVars>>

RoutingSpec == RoutingInit /\ [][RoutingNext]_allVars
=============================================================================
