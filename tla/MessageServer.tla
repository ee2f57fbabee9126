---------------------------- MODULE MessageServer ---------------------------
(***************************************************************************)
(* The microservice server of common/microservice/server.go: Start, Stop,  *)
(* the goroutine that supervises each transport, and the dispatcher with   *)
(* its concurrency slots and handler deadline.                             *)
(*                                                                         *)
(* Start and Stop only hold mu while they read and set the flags, so the   *)
(* launching of the listener goroutines by the one and the waiting of the  *)
(* other interleave.  A transport is what server.go relies on: Listen      *)
(* blocks, hands messages to the dispatcher, returns when its context is   *)
(* done, when the transport is closed, or with an error, and only once the *)
(* handlers it started have returned.                                      *)
(***************************************************************************)
EXTENDS Integers, FiniteSets

CONSTANTS
    Listeners,    \* the configured transports
    Subscribed,   \* those with at least one handler
    Starters,     \* the goroutines that call Start
    Stoppers,     \* the goroutines that call Stop
    Inbound,      \* the inbound messages
    Via,          \* Via[m]: the transport that message m arrives on
    Slots,        \* Server.concurrent
    MaxFailures   \* bound: how often the Listen of a transport fails

ASSUME ServerAssumption ==
    /\ IsFiniteSet(Listeners)
    /\ Subscribed \subseteq Listeners
    /\ Via \in [Inbound -> Subscribed]
    /\ Slots \in Nat \ {0}
    /\ MaxFailures \in Nat

VARIABLES
    running, stopped,  \* Server.running and Server.closed
    runDone,           \* runCtx is done
    wg,                \* the counter of Server.wg
    starter,           \* starter[s]: "idle", "spawn" or "done"
    todo,              \* todo[s]: the transports that s has yet to launch
    listener,          \* listener[l]: "off", "up", "backoff" or "gone"
    failures,          \* failures[l]: how often Listen failed
    shut,              \* the transports whose Close was called
    msg,               \* msg[m]: "new", "slot", "running", "done" or "refused"
    stopper,           \* stopper[t]: "idle", "cancel", "wait", "close" or "done"
    drained,           \* drained[t]: the channel that Stop waits on is closed
    how,               \* how[t]: "none", "noop", "drained" or "timeout"
    raced              \* history: stops that began while a Start was launching

serverVars == <<running, stopped, runDone, wg, starter, todo, listener, failures,
                shut, msg, stopper, drained, how, raced>>

startVars == <<starter, todo>>
stopVars == <<stopper, drained, how, raced>>
transportVars == <<listener, failures, shut>>

InState(l, state) == {m \in Inbound : Via[m] = l /\ msg[m] = state}
InWork(l) == InState(l, "slot") \cup InState(l, "running")

ServerInit ==
    /\ running = FALSE /\ stopped = FALSE /\ runDone = FALSE
    /\ wg = 0
    /\ starter = [s \in Starters |-> "idle"]
    /\ todo = [s \in Starters |-> {}]
    /\ listener = [l \in Listeners |-> "off"]
    /\ failures = [l \in Listeners |-> 0]
    /\ shut = {}
    /\ msg = [m \in Inbound |-> "new"]
    /\ stopper = [t \in Stoppers |-> "idle"]
    /\ drained = [t \in Stoppers |-> FALSE]
    /\ how = [t \in Stoppers |-> "none"]
    /\ raced = {}

-----------------------------------------------------------------------------
(***************************************************************************)
(* Start: the flags under mu, then one goroutine per transport.            *)
(***************************************************************************)
MayStart == ~stopped /\ ~running

StartServer(s) ==
    /\ starter[s] = "idle"
    /\ \/ /\ ~MayStart   \* ErrClosed, or nil when already running
          /\ starter' = [starter EXCEPT ![s] = "done"]
          /\ UNCHANGED <<running, todo>>
       \/ /\ MayStart
          /\ running' = TRUE
          /\ starter' = [starter EXCEPT ![s] = "spawn"]
          /\ todo' = [todo EXCEPT ![s] = Listeners]
    /\ UNCHANGED <<stopped, runDone, wg, transportVars, msg, stopVars>>

\* A transport without handlers is not subscribed.
Launch(s, l) ==
    /\ starter[s] = "spawn" /\ l \in todo[s]
    /\ todo' = [todo EXCEPT ![s] = @ \ {l}]
    /\ \/ /\ l \in Subscribed
          /\ wg' = wg + 1
          /\ listener' = [listener EXCEPT ![l] = "up"]
       \/ l \notin Subscribed /\ UNCHANGED <<wg, listener>>
    /\ UNCHANGED <<running, stopped, runDone, starter, failures, shut, msg, stopVars>>

StartReturns(s) ==
    /\ starter[s] = "spawn" /\ todo[s] = {}
    /\ starter' = [starter EXCEPT ![s] = "done"]
    /\ UNCHANGED <<running, stopped, runDone, wg, todo, transportVars, msg, stopVars>>

-----------------------------------------------------------------------------
(***************************************************************************)
(* runListener: the supervisor of one transport.                           *)
(***************************************************************************)
Exit(l) ==
    /\ listener' = [listener EXCEPT ![l] = "gone"]
    /\ wg' = wg - 1

Quiet(l) == InWork(l) = {}

\* Listen returned and the context is done, or the transport was closed: no
\* transport of the repository returns nil otherwise (server.go:379).
ListenEnds(l) ==
    /\ listener[l] = "up" /\ Quiet(l)
    /\ runDone \/ l \in shut
    /\ Exit(l)
    /\ UNCHANGED <<running, stopped, runDone, startVars, failures, shut, msg, stopVars>>

\* Listen failed for another reason: wait, then call it again.
ListenFails(l) ==
    /\ listener[l] = "up" /\ Quiet(l)
    /\ ~runDone /\ l \notin shut
    /\ failures[l] < MaxFailures
    /\ failures' = [failures EXCEPT ![l] = @ + 1]
    /\ listener' = [listener EXCEPT ![l] = "backoff"]
    /\ UNCHANGED <<running, stopped, runDone, wg, startVars, shut, msg, stopVars>>

RetryGivesUp(l) ==
    /\ listener[l] = "backoff"
    /\ Exit(l)
    /\ UNCHANGED <<running, stopped, runDone, startVars, failures, shut, msg, stopVars>>

Retry(l) ==
    /\ listener[l] = "backoff"
    /\ listener' = [listener EXCEPT ![l] = "up"]
    /\ UNCHANGED <<running, stopped, runDone, wg, startVars, failures, shut, msg, stopVars>>

StopRetrying(l) ==
    /\ listener[l] = "backoff" /\ runDone
    /\ Exit(l)
    /\ UNCHANGED <<running, stopped, runDone, startVars, failures, shut, msg, stopVars>>

-----------------------------------------------------------------------------
(***************************************************************************)
(* The dispatcher: a slot or a done context, then the handler.             *)
(***************************************************************************)
Arrives(m) ==
    /\ msg[m] = "new" /\ listener[Via[m]] = "up"
    /\ msg' = [msg EXCEPT ![m] = "slot"]
    /\ UNCHANGED <<running, stopped, runDone, wg, startVars, transportVars, stopVars>>

SlotLeaked(l) == Cardinality(InState(l, "running") \cup InState(l, "done")) < Slots
HasSlot(l) == Cardinality(InState(l, "running")) < Slots

\* The select may take the slot although the context is done.
HandlerStarts(m) ==
    /\ msg[m] = "slot" /\ HasSlot(Via[m])
    /\ msg' = [msg EXCEPT ![m] = "running"]
    /\ UNCHANGED <<running, stopped, runDone, wg, startVars, transportVars, stopVars>>

Refuse(m) ==
    /\ msg[m] = "slot" /\ runDone
    /\ msg' = [msg EXCEPT ![m] = "refused"]
    /\ UNCHANGED <<running, stopped, runDone, wg, startVars, transportVars, stopVars>>

\* ServeHTTP returned, dispatchRoute returns and the slot is given back.
\* Until then the handler keeps the slot: the deadline of handlerCtx only
\* tells it to return.
HandlerReturns(m) ==
    /\ msg[m] = "running"
    /\ msg' = [msg EXCEPT ![m] = "done"]
    /\ UNCHANGED <<running, stopped, runDone, wg, startVars, transportVars, stopVars>>

-----------------------------------------------------------------------------
(***************************************************************************)
(* Stop.                                                                   *)
(***************************************************************************)
Launching == \E s \in Starters : starter[s] = "spawn"

Stop(t) ==
    /\ stopper[t] = "idle"
    /\ \/ /\ stopped
          /\ stopper' = [stopper EXCEPT ![t] = "done"]
          /\ how' = [how EXCEPT ![t] = "noop"]
          /\ UNCHANGED <<stopped, raced>>
       \/ /\ ~stopped
          /\ stopped' = TRUE
          /\ stopper' = [stopper EXCEPT ![t] = "cancel"]
          /\ raced' = IF Launching THEN raced \cup {t} ELSE raced
          /\ UNCHANGED how
    /\ UNCHANGED <<running, runDone, wg, startVars, transportVars, msg, drained>>

\* s.cancel is nil when Start never ran.
CancelRun(t) ==
    /\ stopper[t] = "cancel"
    /\ runDone' = running
    /\ stopper' = [stopper EXCEPT ![t] = "wait"]
    /\ UNCHANGED <<running, stopped, wg, startVars, transportVars, msg, drained, how, raced>>

WaitSkipped(t) ==
    /\ stopper[t] = "wait" /\ ~drained[t]
    /\ drained' = [drained EXCEPT ![t] = TRUE]
    /\ UNCHANGED <<running, stopped, runDone, wg, startVars, transportVars, msg,
                   stopper, how, raced>>

\* The goroutine of Stop returns from wg.Wait.
WaitDone(t) ==
    /\ stopper[t] = "wait" /\ ~drained[t]
    /\ wg = 0
    /\ drained' = [drained EXCEPT ![t] = TRUE]
    /\ UNCHANGED <<running, stopped, runDone, wg, startVars, transportVars, msg,
                   stopper, how, raced>>

StopWaited(t, outcome) ==
    /\ stopper[t] = "wait"
    /\ stopper' = [stopper EXCEPT ![t] = "close"]
    /\ how' = [how EXCEPT ![t] = outcome]
    /\ UNCHANGED <<running, stopped, runDone, wg, startVars, transportVars, msg, drained, raced>>

Drained(t) == drained[t] /\ StopWaited(t, "drained")
StopTimesOut(t) == StopWaited(t, "timeout")

CloseTransport(t, l) ==
    /\ stopper[t] = "close" /\ l \notin shut
    /\ shut' = shut \cup {l}
    /\ UNCHANGED <<running, stopped, runDone, wg, startVars, listener, failures, msg, stopVars>>

\* A client that shares the transport closes it (client.go, SetupClient).
CloseElsewhere(l) ==
    /\ l \notin shut
    /\ shut' = shut \cup {l}
    /\ UNCHANGED <<running, stopped, runDone, wg, startVars, listener, failures, msg, stopVars>>

StopReturns(t) ==
    /\ stopper[t] = "close" /\ shut = Listeners
    /\ stopper' = [stopper EXCEPT ![t] = "done"]
    /\ UNCHANGED <<running, stopped, runDone, wg, startVars, transportVars, msg,
                   drained, how, raced>>

-----------------------------------------------------------------------------
StartStep(s) == StartServer(s) \/ StartReturns(s) \/ \E l \in Listeners : Launch(s, l)
SuperviseStep(l) == ListenEnds(l) \/ Retry(l) \/ StopRetrying(l)
DispatchStep(m) == HandlerStarts(m) \/ Refuse(m)
StopStep(t) ==
    \/ CancelRun(t) \/ WaitDone(t) \/ Drained(t) \/ StopReturns(t)
    \/ \E l \in Listeners : CloseTransport(t, l)

ServerNext ==
    \/ \E s \in Starters : StartStep(s)
    \/ \E l \in Listeners : SuperviseStep(l) \/ ListenFails(l) \/ CloseElsewhere(l)
    \/ \E m \in Inbound : Arrives(m) \/ DispatchStep(m) \/ HandlerReturns(m)
    \/ \E t \in Stoppers : Stop(t) \/ StopTimesOut(t) \/ StopStep(t)

ServerSpec == ServerInit /\ [][ServerNext]_serverVars

(***************************************************************************)
(* The server's own goroutines and timers run.  Nothing is assumed of the  *)
(* handlers, which are the application's, nor that a Listen ever fails, a  *)
(* message comes, or Start and Stop are called at all.                     *)
(***************************************************************************)
ServerFairness ==
    /\ \A s \in Starters : WF_serverVars(StartReturns(s) \/ \E l \in Listeners : Launch(s, l))
    /\ \A l \in Listeners : WF_serverVars(SuperviseStep(l))
    /\ \A m \in Inbound : WF_serverVars(DispatchStep(m))
    /\ \A t \in Stoppers : WF_serverVars(StopStep(t))

\* Every handler returns in the end.
PoliteHandlers == \A m \in Inbound : WF_serverVars(HandlerReturns(m))

-----------------------------------------------------------------------------
(* Every variable holds a value of its Go type; the wait group's counter   *)
(* never goes negative, which would panic.                                 *)
ServerTypeOK ==
    /\ running \in BOOLEAN /\ stopped \in BOOLEAN /\ runDone \in BOOLEAN
    /\ wg \in Nat
    /\ starter \in [Starters -> {"idle", "spawn", "done"}]
    /\ todo \in [Starters -> SUBSET Listeners]
    /\ listener \in [Listeners -> {"off", "up", "backoff", "gone"}]
    /\ failures \in [Listeners -> 0..MaxFailures]
    /\ shut \in SUBSET Listeners
    /\ msg \in [Inbound -> {"new", "slot", "running", "done", "refused"}]
    /\ stopper \in [Stoppers -> {"idle", "cancel", "wait", "close", "done"}]
    /\ drained \in [Stoppers -> BOOLEAN]
    /\ how \in [Stoppers -> {"none", "noop", "drained", "timeout"}]
    /\ raced \in SUBSET Stoppers

(* The wait group counts the supervisors: each transport has at most one,  *)
(* however many goroutines call Start, and none is forgotten or counted    *)
(* twice across its retries.                                               *)
WaitGroupCountsSupervisors ==
    wg = Cardinality({l \in Listeners : listener[l] \in {"up", "backoff"}})

Still == \A l \in Listeners : listener[l] \notin {"up", "backoff"} /\ InWork(l) = {}

(* A Stop that reports success without a timeout leaves no supervisor and  *)
(* no handler behind, now and later, if no Start was still launching them; *)
(* and a listener that is launched after any Stop is cancelled from its    *)
(* birth.                                                                  *)
StopDrains ==
    \A t \in Stoppers :
        /\ (stopper[t] = "done" /\ how[t] = "drained" /\ t \notin raced) => Still
        /\ stopper[t] \in {"wait", "close", "done"} /\ how[t] # "noop" =>
             \A l \in Listeners : listener[l] \in {"up", "backoff"} => runDone

(* What server.go:466-467 says of every Stop: it "waits for in-flight      *)
(* handlers to finish within ctx".  A Stop that overlaps Start finds the   *)
(* wait group empty and returns before the listeners are launched.         *)
StopAlwaysDrains ==
    \A t \in Stoppers :
        (stopper[t] = "done" /\ how[t] = "drained") =>
            \A m \in Inbound : msg[m] # "running"

(* "A broker restart must not silently take the consumer offline"          *)
(* (server.go:364-365): a failed transport is listened to again, unless    *)
(* the server was cancelled; then every supervisor reacts, in Listen or in *)
(* its backoff, and Stop returns without a deadline once the handlers do.  *)
ListensUntilStopped ==
    /\ \A l \in Listeners : listener[l] = "backoff" ~> (listener[l] = "up" \/ runDone)
    /\ \A t \in Stoppers : stopper[t] = "wait" ~> stopper[t] = "done"

(* No message waits for a slot forever: it is handled or refused.          *)
WaitingMessageIsDecided ==
    \A m \in Inbound : msg[m] = "slot" ~> msg[m] # "slot"
=============================================================================
