------------------------------ MODULE Lifecycle -----------------------------
(***************************************************************************)
(* The life of an App (app.go, listen.go): Start and its hooks, the serve  *)
(* goroutine, a termination signal, Shutdown called by another goroutine,  *)
(* the drain of the requests in flight, and the shutdown hooks.            *)
(*                                                                         *)
(* "main" is the goroutine in Listen, ListenTLS, Serve or RunWorker, which *)
(* differ in what they serve; "other" is one that calls Start or Shutdown. *)
(* http.Server.Shutdown closes the listener, so that serve returns at      *)
(* once, and then waits for the requests until its context is done.        *)
(***************************************************************************)
EXTENDS Integers, Sequences

CONSTANTS
    Modes,        \* subset of {"graceful", "plain", "worker"}
    StartHooks,   \* the number of OnStart hooks
    StopHooks     \* the number of OnShutdown hooks

ASSUME LifecycleAssumption == StartHooks \in Nat /\ StopHooks \in Nat

VARIABLES
    mode,       \* what main runs: Listen, Listen without graceful shutdown, RunWorker
    pc,         \* pc[p], p = "main" or "other"
    started,    \* App.started
    server,     \* App.server: "none", "up" or "closed"
    serveErr,   \* the serveErr channel: "none", "died" or "closed"
    signal,     \* a termination signal arrived
    expired,    \* expired[p]: the shutdown context of p is done
    hook,       \* hook[p]: the hooks p has still to run
    starts,     \* history: starts[i], how often start hook i was called
    stops,      \* history: the shutdown hooks p has run, in order
    died,       \* history: main left its select because serve returned
    early       \* history: Shutdown found no server yet

lifeVars == <<mode, pc, started, server, serveErr, signal, expired, hook, starts, stops,
              died, early>>

Procs == {"main", "other"}

LifeInit ==
    /\ mode \in Modes
    /\ pc = [p \in Procs |-> "idle"]
    /\ started = FALSE
    /\ server = "none" /\ serveErr = "none" /\ signal = FALSE
    /\ expired = [p \in Procs |-> FALSE]
    /\ hook = [p \in Procs |-> 0]
    /\ starts = [i \in 1..StartHooks |-> 0]
    /\ stops = [p \in Procs |-> <<>>]
    /\ died = FALSE /\ early = FALSE

Go(p, to) == pc' = [pc EXCEPT ![p] = to]
AfterStart(p) == IF p = "main" THEN "listen" ELSE "idle"

\* Start: the flag under hookMu decides who runs the hooks.
Start(p) ==
    /\ pc[p] = "idle" /\ (p = "other" => ~started)
    /\ \/ started /\ Go(p, AfterStart(p)) /\ UNCHANGED <<started, hook>>
       \/ /\ ~started /\ started' = TRUE
          /\ Go(p, "start") /\ hook' = [hook EXCEPT ![p] = 1]
    /\ UNCHANGED <<mode, server, serveErr, signal, expired, starts, stops, died, early>>

StartHook(p) ==
    /\ pc[p] = "start"
    /\ \/ /\ hook[p] <= StartHooks
          /\ starts' = [starts EXCEPT ![hook[p]] = @ + 1]
          /\ \/ hook' = [hook EXCEPT ![p] = @ + 1] /\ UNCHANGED pc
             \/ Go(p, "failed") /\ UNCHANGED hook
       \/ /\ hook[p] > StartHooks /\ Go(p, AfterStart(p))
          /\ UNCHANGED <<hook, starts>>
    /\ UNCHANGED <<mode, started, server, serveErr, signal, expired, stops, died, early>>

\* a.server is set and the serve goroutine runs; a worker serves nothing.
Serve ==
    /\ pc["main"] = "listen"
    /\ Go("main", "select")
    /\ server' = IF mode = "worker" THEN "none" ELSE "up"
    /\ UNCHANGED <<mode, started, serveErr, signal, expired, hook, starts, stops, died, early>>

ServeDies ==
    /\ server = "up" /\ serveErr = "none"
    /\ serveErr' = "died"
    /\ UNCHANGED <<mode, pc, started, server, signal, expired, hook, starts, stops, died, early>>

\* Before signal.Notify it kills the process, and after the select nobody
\* reads it; RunWorker is notified from before Start.
Signal ==
    /\ ~signal /\ mode # "plain"
    /\ pc["main"] \in {"select"} \cup (IF mode = "worker" THEN {"start", "listen"} ELSE {})
    /\ signal' = TRUE
    /\ UNCHANGED <<mode, pc, started, server, serveErr, expired, hook, starts, stops, died, early>>

CloseServer ==
    /\ server' = IF server = "none" THEN server ELSE "closed"
    /\ serveErr' = IF server = "none" \/ serveErr # "none" THEN serveErr ELSE "closed"

\* The select of serveWithGracefulShutdown; a worker waits for its context.
MainSelect ==
    /\ pc["main"] = "select"
    /\ \/ /\ serveErr # "none"
          /\ IF mode = "plain" THEN Go("main", "returned") /\ UNCHANGED <<hook, died>>
             ELSE Go("main", "hooks") /\ hook' = [hook EXCEPT !["main"] = StopHooks] /\ died' = TRUE
          /\ UNCHANGED <<server, serveErr>>
       \/ /\ signal
          /\ Go("main", "drain") /\ CloseServer
          /\ UNCHANGED <<hook, died>>
    /\ UNCHANGED <<mode, started, signal, expired, starts, stops, early>>

\* Shutdown of the other goroutine.
Shutdown ==
    /\ pc["other"] = "idle"
    /\ Go("other", "drain") /\ CloseServer
    /\ early' = (server = "none" /\ mode # "worker")
    /\ UNCHANGED <<mode, started, signal, expired, hook, starts, stops, died>>

DrainUnawaited(p, inflight) ==
    /\ pc[p] = "drain"
    /\ Go(p, "hooks") /\ hook' = [hook EXCEPT ![p] = StopHooks]
    /\ UNCHANGED <<mode, started, server, serveErr, signal, expired, starts, stops, died, early>>

DrainPatient(p, inflight) ==
    /\ pc[p] = "drain"
    /\ inflight = {} \/ server = "none"
    /\ Go(p, "hooks") /\ hook' = [hook EXCEPT ![p] = StopHooks]
    /\ UNCHANGED <<mode, started, server, serveErr, signal, expired, starts, stops, died, early>>

\* server.Shutdown returns: nothing in flight, or its context done.
Drain(p, inflight) ==
    /\ pc[p] = "drain"
    /\ inflight = {} \/ server = "none" \/ expired[p]
    /\ Go(p, "hooks") /\ hook' = [hook EXCEPT ![p] = StopHooks]
    /\ UNCHANGED <<mode, started, server, serveErr, signal, expired, starts, stops, died, early>>

Expire(p) ==
    /\ pc[p] = "drain" /\ ~expired[p]
    /\ expired' = [expired EXCEPT ![p] = TRUE]
    /\ UNCHANGED <<mode, pc, started, server, serveErr, signal, hook, starts, stops, died, early>>

StopHookOrGiveUp(p) ==
    /\ pc[p] = "hooks"
    /\ \/ /\ hook[p] > 0
          /\ stops' = [stops EXCEPT ![p] = Append(@, hook[p])]
          /\ \/ hook' = [hook EXCEPT ![p] = @ - 1] /\ UNCHANGED pc
             \/ Go(p, "returned") /\ UNCHANGED hook
       \/ hook[p] = 0 /\ Go(p, "returned") /\ UNCHANGED <<hook, stops>>
    /\ UNCHANGED <<mode, started, server, serveErr, signal, expired, starts, died, early>>

\* runShutdownHooks: last registered first; an error does not stop it.
StopHook(p) ==
    /\ pc[p] = "hooks"
    /\ \/ /\ hook[p] > 0
          /\ stops' = [stops EXCEPT ![p] = Append(@, hook[p])]
          /\ hook' = [hook EXCEPT ![p] = @ - 1] /\ UNCHANGED pc
       \/ hook[p] = 0 /\ Go(p, "returned") /\ UNCHANGED <<hook, stops>>
    /\ UNCHANGED <<mode, started, server, serveErr, signal, expired, starts, died, early>>

-----------------------------------------------------------------------------
(* A start hook is called at most once, however many goroutines call Start *)
(* ("a second call is a no-op", app.go:205), and whoever runs the      *)
(* shutdown hooks runs them all, last registered first, whether or not one *)
(* fails, "so no connection is left dangling" (app.go:239-240).            *)
HooksComplete ==
    /\ \A i \in 1..StartHooks : starts[i] <= 1
    /\ \A p \in Procs : pc[p] = "returned" =>
         stops[p] = (IF p = "main" /\ mode = "plain" THEN <<>>
                     ELSE [i \in 1..StopHooks |-> StopHooks + 1 - i])
=============================================================================
