----------------------------- MODULE Application ----------------------------
(***************************************************************************)
(* An application from its modules to its last shutdown hook: the modules  *)
(* are loaded (ModuleLoader), Listen or RunWorker takes over (Lifecycle),  *)
(* and requests run through the handler chain of their route: the base     *)
(* middleware of NewApp (app.go, middleware.go), what App.Use added, here  *)
(* the rate limiter (common/ratelimit), the guards and the handler.        *)
(*                                                                         *)
(* Gin is external: a chain is fixed when its route is registered, each    *)
(* handler runs inside the one before it, an aborted chain goes no         *)
(* further, and a panic unwinds through the handlers it is inside of.      *)
(***************************************************************************)
EXTENDS ModuleLoader, Lifecycle

CONSTANTS
    Configs,    \* the Config flags: a subset of [logger, recovery : BOOLEAN]
    Requests    \* the requests

\* The guards are named in a map of their own: no guard is one of the others.
Middleware == {"id", "logger", "recovery", "headers", "body", "rate"}
ASSUME ApplicationAssumption == Known \cap (Middleware \cup {"handler", "notfound"}) = {}

VARIABLES
    cfg,        \* the Config flags: [logger, recovery]
    chain,      \* chain[r]: the handlers of r, <<>> before it arrives
    of,         \* of[r]: its route, or "none"
    at,         \* at[r]: the handler that runs
    state,      \* state[r]: "none", "run" or "done"
    passed,     \* passed[r]: the guards and limits that let r through
    answer,     \* answer[r]: "none", "ok", "aborted", "500" or "cut"
    handled,    \* the requests whose handler ran
    logged      \* the requests with an access-log line

reqVars == <<chain, of, at, state, passed, answer, handled, logged>>
vars == <<loaderVars, lifeVars, cfg, reqVars>>

\* installBaseMiddleware: the order is load bearing.
Base(c) ==
    <<"id">> \o (IF c.logger THEN <<"logger">> ELSE <<>>)
             \o (IF c.recovery THEN <<"recovery">> ELSE <<>>) \o <<"headers", "body">>

Init ==
    /\ LoaderInit /\ LifeInit
    /\ cfg \in Configs
    /\ globals = Base(cfg)
    /\ chain = [r \in Requests |-> <<>>]
    /\ of = [r \in Requests |-> "none"]
    /\ at = [r \in Requests |-> 0]
    /\ state = [r \in Requests |-> "none"]
    /\ passed = [r \in Requests |-> {}]
    /\ answer = [r \in Requests |-> "none"]
    /\ handled = {} /\ logged = {}

InFlight == {r \in Requests : state[r] = "run"}

-----------------------------------------------------------------------------
(***************************************************************************)
(* A request.                                                              *)
(***************************************************************************)
\* The request id, logger, recovery and header handlers only call Next:
\* the request is at the first that may stop it.
Arrive(r) ==
    /\ server = "up" /\ state[r] = "none"
    /\ \/ \E route \in routes :
            chain' = [chain EXCEPT ![r] = route.chain] /\ of' = [of EXCEPT ![r] = route.of]
       \/ chain' = [chain EXCEPT ![r] = globals \o <<"notfound">>] /\ UNCHANGED of
    /\ state' = [state EXCEPT ![r] = "run"]
    /\ at' = [at EXCEPT ![r] = Len(Base(cfg))]
    /\ UNCHANGED <<loaderVars, lifeVars, cfg, passed, answer, handled, logged>>

Here(r) == chain[r][at[r]]
Inside(r, middleware) == \E i \in 1..(at[r] - 1) : chain[r][i] = middleware
\* A panic is recovered before it reaches the logger.
RecoveredFirst(r) ==
    \E i, j \in 1..(at[r] - 1) : i < j /\ chain[r][i] = "logger" /\ chain[r][j] = "recovery"

\* The handlers return in reverse order; the logger writes after Next.
Unwind(r, how) ==
    /\ state' = [state EXCEPT ![r] = "done"]
    /\ answer' = [answer EXCEPT ![r] = IF how # "panic" THEN how
                                       ELSE IF Inside(r, "recovery") THEN "500" ELSE "cut"]
    /\ logged' = IF Inside(r, "logger") /\ (how = "panic" => RecoveredFirst(r))
                 THEN logged \cup {r} ELSE logged
    /\ UNCHANGED <<chain, of, at, passed>>

Proceed(r, by) ==
    /\ at' = [at EXCEPT ![r] = @ + 1]
    /\ passed' = [passed EXCEPT ![r] = @ \cup by]
    /\ UNCHANGED <<chain, of, state, answer, logged>>

BodyLimit(r) ==
    /\ state[r] = "run" /\ Here(r) = "body"
    /\ Proceed(r, {}) \/ Unwind(r, "aborted")
    /\ UNCHANGED <<loaderVars, lifeVars, cfg, handled>>

\* The store, external, admits or refuses, or fails; Skip lets a request by.
RateLimit(r) ==
    /\ state[r] = "run" /\ Here(r) = "rate"
    /\ Proceed(r, {"rate"}) \/ Unwind(r, "aborted")
    /\ UNCHANGED <<loaderVars, lifeVars, cfg, handled>>

Guard(r) ==
    /\ state[r] = "run" /\ Here(r) \in Known
    /\ Proceed(r, {Here(r)}) \/ Unwind(r, "aborted") \/ Unwind(r, "panic")
    /\ UNCHANGED <<loaderVars, lifeVars, cfg, handled>>

\* The controller's handler, or the JSON fallback of an unknown route.
Handle(r) ==
    /\ state[r] = "run" /\ Here(r) \in {"handler", "notfound"}
    /\ Unwind(r, "ok") \/ (Here(r) = "handler" /\ Unwind(r, "panic"))
    /\ handled' = IF Here(r) = "handler" THEN handled \cup {r} ELSE handled
    /\ UNCHANGED <<loaderVars, lifeVars, cfg>>

RequestStep(r) == BodyLimit(r) \/ RateLimit(r) \/ Guard(r) \/ Handle(r)

-----------------------------------------------------------------------------
\* ratelimit.Setup and OnController: before or after the modules are loaded.
UseRateLimit == (\A l \in Loaders : ~Busy(l)) /\ Use("rate")
Idle == pc = [p \in Procs |-> "idle"]
Ready == Booted /\ "rate" \in {globals[i] : i \in DOMAIN globals}

Bootstrap ==
    /\ Idle
    /\ \/ \E l \in Loaders : LoaderStep(l)
       \/ \E o \in Observers : OnController(o)
       \/ UseRateLimit
    /\ UNCHANGED <<lifeVars, cfg, reqVars>>

MainStep ==
    Ready /\ (Start("main") \/ StartHook("main") \/ Serve \/ MainSelect
                 \/ Drain("main", InFlight) \/ StopHook("main"))
OtherStep ==
    Ready /\ (Start("other") \/ StartHook("other") \/ Shutdown
                 \/ Drain("other", InFlight) \/ StopHook("other"))

Life ==
    /\ MainStep \/ OtherStep \/ ServeDies \/ (Ready /\ Signal) \/ \E p \in Procs : Expire(p)
    /\ UNCHANGED <<loaderVars, cfg, reqVars>>

Next ==
    \/ Bootstrap \/ Life
    \/ \E r \in Requests : Arrive(r) \/ RequestStep(r)

Spec == Init /\ [][Next]_vars

(***************************************************************************)
(* The loader and main run and ShutdownTimeout passes.  Requests, the      *)
(* other goroutine and its context owe nothing.                            *)
(***************************************************************************)
FairSpec ==
    /\ Spec
    /\ \A l \in Loaders : WF_vars(Idle /\ LoaderStep(l) /\ UNCHANGED <<lifeVars, cfg, reqVars>>)
    /\ WF_vars(MainStep /\ UNCHANGED <<loaderVars, cfg, reqVars>>)
    /\ WF_vars(Expire("main") /\ UNCHANGED <<loaderVars, cfg, reqVars>>)

-----------------------------------------------------------------------------
(* A handler runs only for a request that every guard of its route let     *)
(* through, and none when a guard aborted or panicked: no tag leaves an    *)
(* endpoint open (guard.go:62-65).  With the access log and recovery on,   *)
(* every request leaves a line, and a panic is answered: "a crashing       *)
(* request would produce no access-log line at all" were the logger inside *)
(* (app.go:83-92).                                                         *)
HandlerBehindGuards ==
    /\ \A r \in handled : \A i \in DOMAIN Mod(of[r]).guards :
         Mod(of[r]).guards[i] \in passed[r]
    /\ \A r \in Requests : (state[r] = "done" /\ cfg.logger /\ cfg.recovery) =>
         r \in logged /\ answer[r] # "cut"

(* Shutdown drains the requests and then runs the hooks (listen.go:140-141)*)
(* that close what the requests use, unless its time is up.  Two           *)
(* exceptions: Listen, whose serve call returns as soon as the Shutdown of *)
(* another goroutine closes the listener, runs the hooks at once; and a    *)
(* Shutdown that comes before Listen set the server has nothing to drain.  *)
HooksAfterDrain ==
    [][\A p \in Procs : stops'[p] # stops[p] =>
          InFlight = {} \/ expired[p] \/ (p = "main" /\ died) \/ early]_vars

(* A termination signal ends Listen and RunWorker, whatever the requests   *)
(* do, and the loader never hangs on an import graph.                      *)
SignalEndsMain ==
    /\ (signal /\ pc["main"] = "select") ~> pc["main"] = "returned"
    /\ \A l \in Loaders : Busy(l) ~> ~Busy(l)
=============================================================================
