------------------------ MODULE MessageServerProofs -------------------------
(***************************************************************************)
(* Proofs about module MessageServer, for any transports, starters,        *)
(* stoppers, messages and bounds.  ServerInv is the inductive invariant:   *)
(* it adds to the checked properties that one starter launches, that a     *)
(* busy message keeps its supervisor in Listen, and what a stopper knows   *)
(* once it has closed the server, cancelled the run and waited.            *)
(***************************************************************************)
EXTENDS MessageServer, FiniteSetTheorems, TLAPS

Supervised(l) == listener[l] \in {"up", "backoff"}
Supervisors == {l \in Listeners : Supervised(l)}

\* One goroutine launches, only after it set running, each transport once.
LaunchInv ==
    /\ \A s, u \in Starters : starter[s] = "spawn" /\ starter[u] = "spawn" => s = u
    /\ \A s \in Starters : starter[s] = "spawn" => running
    /\ \A s \in Starters : \A l \in todo[s] : starter[s] = "spawn" /\ listener[l] = "off"
    /\ \A l \in Listeners : listener[l] # "off" => running

\* Listen does not return before the handlers it started.
BusyInv == \A m \in Inbound : msg[m] \in {"slot", "running"} => listener[Via[m]] = "up"

\* The Stop that closed the server, as opposed to one that found it closed.
Closing(t) == stopper[t] # "idle" /\ how[t] # "noop"

\* One Stop closes the server; it has cancelled the run before it waits, and
\* finds nobody launching unless it is in raced.
StopInv ==
    /\ \A t \in Stoppers : stopper[t] # "idle" => stopped
    /\ \A t, u \in Stoppers : Closing(t) /\ Closing(u) => t = u
    /\ \A t \in Stoppers : stopper[t] \in {"idle", "cancel", "wait"} => how[t] = "none"
    /\ \A t \in Stoppers : Closing(t) /\ stopper[t] # "cancel" /\ running => runDone
    /\ \A t \in Stoppers : Closing(t) /\ t \notin raced => ~Launching

\* What wg.Wait has found empty stays empty.
DrainInv ==
    \A t \in Stoppers :
        /\ how[t] = "drained" => drained[t]
        /\ drained[t] => Closing(t)
        /\ drained[t] /\ t \notin raced => Supervisors = {}

ServerInv ==
    /\ ServerTypeOK
    /\ WaitGroupCountsSupervisors
    /\ LaunchInv
    /\ BusyInv
    /\ StopInv
    /\ DrainInv

-----------------------------------------------------------------------------
(* The invariant holds of a server that was never started. *)
LEMMA InitInv == ServerInit => ServerInv
<1> SUFFICES ASSUME ServerInit PROVE ServerInv
  OBVIOUS
<1> USE ServerAssumption
<1>1. Supervisors = {}
  BY DEF ServerInit, Supervisors, Supervised
<1>2. WaitGroupCountsSupervisors
  BY <1>1, FS_EmptySet DEF ServerInit, WaitGroupCountsSupervisors, Supervisors, Supervised
<1>3. drained \in [Stoppers -> BOOLEAN]
  BY Zenon DEF ServerInit
<1>4. ServerTypeOK
  <2>1. running \in BOOLEAN /\ stopped \in BOOLEAN /\ runDone \in BOOLEAN
    BY DEF ServerInit
  <2>2. wg \in Nat /\ failures \in [Listeners -> 0..MaxFailures]
    BY DEF ServerInit
  <2> QED
    BY <1>3, <2>1, <2>2, Zenon DEF ServerInit, ServerTypeOK
<1>5. LaunchInv /\ BusyInv
  BY DEF ServerInit, LaunchInv, BusyInv
<1>6. StopInv /\ DrainInv
  BY <1>1 DEF ServerInit, StopInv, DrainInv, Closing, Launching
<1> QED
  BY <1>2, <1>4, <1>5, <1>6 DEF ServerInv

(* The wait group counts the supervisors, of which there are finitely many. *)
LEMMA CountOf ==
    ASSUME ServerTypeOK
    PROVE  /\ IsFiniteSet(Supervisors)
           /\ Cardinality(Supervisors) \in Nat
           /\ WaitGroupCountsSupervisors <=> wg = Cardinality(Supervisors)
<1>1. Supervisors \in SUBSET Listeners
  BY DEF Supervisors
<1>2. IsFiniteSet(Supervisors) /\ Cardinality(Supervisors) \in Nat
  BY <1>1, ServerAssumption, FS_Subset, FS_CardinalityType
<1> QED
  BY <1>2 DEF WaitGroupCountsSupervisors, Supervisors, Supervised

-----------------------------------------------------------------------------
(* Start sets the flags, and nobody else is launching then. *)
LEMMA StartKeeps ==
    ASSUME ServerInv, NEW s \in Starters, StartServer(s)
    PROVE  ServerInv'
<1> USE ServerAssumption DEF ServerInv
<1>1. ServerTypeOK' /\ WaitGroupCountsSupervisors'
  BY DEF StartServer, MayStart, ServerTypeOK, WaitGroupCountsSupervisors, transportVars, stopVars
<1>2. LaunchInv' /\ BusyInv'
  BY DEF StartServer, MayStart, ServerTypeOK, LaunchInv, BusyInv, transportVars, stopVars
<1>3. StopInv' /\ DrainInv'
  BY DEF StartServer, MayStart, ServerTypeOK, StopInv, DrainInv, Closing, Launching, Supervisors,
         Supervised, transportVars, stopVars
<1> QED
  BY <1>1, <1>2, <1>3

(* A transport is launched from "off", so that the count grows by one; a   *)
(* drained Stop that is not in raced rules the step out.                   *)
LEMMA LaunchKeeps ==
    ASSUME ServerInv, NEW s \in Starters, NEW l \in Listeners, Launch(s, l)
    PROVE  ServerInv'
<1> USE ServerAssumption DEF ServerInv
<1>1. listener[l] = "off" /\ l \notin Supervisors
  BY DEF Launch, LaunchInv, Supervisors, Supervised
<1>2. CASE l \in Subscribed
  <2>1. wg' = wg + 1 /\ listener' = [listener EXCEPT ![l] = "up"]
    BY <1>2 DEF Launch
  <2>2. ServerTypeOK'
    BY <2>1 DEF Launch, ServerTypeOK, stopVars
  <2>3. Supervisors' = Supervisors \cup {l}
    BY <2>1 DEF ServerTypeOK, Supervisors, Supervised
  <2>4. Cardinality(Supervisors') = Cardinality(Supervisors) + 1
    BY <2>3, <1>1, CountOf, FS_AddElement
  <2>5. (wg = Cardinality(Supervisors))'
    BY <2>1, <2>4, CountOf
  <2>6. WaitGroupCountsSupervisors'
    BY <2>5 DEF WaitGroupCountsSupervisors, Supervisors, Supervised
  <2>7. LaunchInv' /\ BusyInv'
    BY <2>1, <1>1 DEF Launch, ServerTypeOK, LaunchInv, BusyInv
  <2>8. StopInv'
    BY DEF Launch, StopInv, Closing, Launching, stopVars
  <2>9. DrainInv'
    BY DEF Launch, StopInv, DrainInv, Closing, Launching, stopVars
  <2> QED
    BY <2>2, <2>6, <2>7, <2>8, <2>9
<1>3. CASE l \notin Subscribed
  <2>1. UNCHANGED <<wg, listener>>
    BY <1>3 DEF Launch
  <2>2. ServerTypeOK' /\ WaitGroupCountsSupervisors'
    BY <2>1 DEF Launch, ServerTypeOK, WaitGroupCountsSupervisors, stopVars
  <2>3. LaunchInv' /\ BusyInv'
    BY <2>1 DEF Launch, ServerTypeOK, LaunchInv, BusyInv
  <2>4. StopInv' /\ DrainInv'
    BY <2>1 DEF Launch, StopInv, DrainInv, Closing, Launching, Supervisors, Supervised, stopVars
  <2> QED
    BY <2>2, <2>3, <2>4
<1> QED
  BY <1>2, <1>3

(* The end of Start. *)
LEMMA StartReturnsKeeps ==
    ASSUME ServerInv, NEW s \in Starters, StartReturns(s)
    PROVE  ServerInv'
<1> USE ServerAssumption DEF ServerInv
<1>1. ServerTypeOK' /\ WaitGroupCountsSupervisors'
  BY DEF StartReturns, ServerTypeOK, WaitGroupCountsSupervisors, transportVars, stopVars
<1>2. LaunchInv' /\ BusyInv'
  BY DEF StartReturns, ServerTypeOK, LaunchInv, BusyInv, transportVars
<1>3. StopInv' /\ DrainInv'
  BY DEF StartReturns, ServerTypeOK, StopInv, DrainInv, Closing, Launching, Supervisors,
         Supervised, transportVars, stopVars
<1> QED
  BY <1>1, <1>2, <1>3

-----------------------------------------------------------------------------
(* A supervisor that ends leaves the count, and has no handler running. *)
LEMMA ExitKeeps ==
    ASSUME ServerInv, NEW l \in Listeners, Supervised(l), Quiet(l), Exit(l),
           UNCHANGED <<running, stopped, runDone, startVars, failures, shut, msg, stopVars>>
    PROVE  ServerInv'
<1> USE ServerAssumption DEF ServerInv
<1>1. Supervisors' = Supervisors \ {l} /\ l \in Supervisors
  BY DEF Exit, ServerTypeOK, Supervisors, Supervised
<1>2. Cardinality(Supervisors') = Cardinality(Supervisors) - 1 /\ IsFiniteSet(Supervisors')
  BY <1>1, CountOf, FS_RemoveElement
<1>3. (wg = Cardinality(Supervisors))' /\ wg' \in Nat
  BY <1>2, CountOf, FS_CardinalityType DEF Exit
<1>4. ServerTypeOK'
  BY <1>3 DEF Exit, ServerTypeOK, startVars, stopVars
<1>5. WaitGroupCountsSupervisors'
  BY <1>3 DEF WaitGroupCountsSupervisors, Supervisors, Supervised
<1>6. LaunchInv'
  BY DEF Exit, ServerTypeOK, LaunchInv, Supervised, startVars
<1>7. BusyInv'
  BY DEF Exit, ServerTypeOK, BusyInv, Quiet, InWork, InState
<1>8. StopInv' /\ DrainInv'
  BY <1>1 DEF ServerTypeOK, StopInv, DrainInv, Closing, Launching, startVars, stopVars
<1> QED
  BY <1>4, <1>5, <1>6, <1>7, <1>8

(* Each way in which runListener ends. *)
LEMMA ListenEndsKeeps ==
    ASSUME ServerInv, NEW l \in Listeners, ListenEnds(l) \/ StopRetrying(l)
    PROVE  ServerInv'
<1>1. Supervised(l) /\ Exit(l)
  BY DEF ListenEnds, StopRetrying, Supervised
<1>2. UNCHANGED <<running, stopped, runDone, startVars, failures, shut, msg, stopVars>>
  BY DEF ListenEnds, StopRetrying
<1>3. Quiet(l)
  <2>1. listener[l] = "backoff" => \A m \in Inbound : Via[m] = l => msg[m] \notin {"slot", "running"}
    BY DEF ServerInv, BusyInv
  <2> QED
    BY <2>1 DEF ListenEnds, StopRetrying, Quiet, InWork, InState
<1> QED
  BY <1>1, <1>2, <1>3, ExitKeeps

(* A failed Listen and its repetition keep the supervisor. *)
LEMMA RetryKeeps ==
    ASSUME ServerInv, NEW l \in Listeners, ListenFails(l) \/ Retry(l)
    PROVE  ServerInv'
<1> USE ServerAssumption DEF ServerInv
<1>1. /\ Supervised(l) /\ Supervised(l)'
      /\ listener' \in [Listeners -> {"off", "up", "backoff", "gone"}]
      /\ \A k \in Listeners \ {l} : listener'[k] = listener[k]
      /\ UNCHANGED <<running, stopped, runDone, wg, startVars, shut, msg, stopVars>>
  BY DEF ListenFails, Retry, ServerTypeOK, Supervised
<1>2. failures' \in [Listeners -> 0..MaxFailures]
  BY DEF ListenFails, Retry, ServerTypeOK
<1>3. Supervisors' = Supervisors
  BY <1>1 DEF Supervisors, Supervised
<1>4. ServerTypeOK'
  BY <1>1, <1>2 DEF ServerTypeOK, startVars, stopVars
<1>5. WaitGroupCountsSupervisors'
  BY <1>1, <1>3 DEF WaitGroupCountsSupervisors, Supervisors, Supervised
<1>6. LaunchInv'
  BY <1>1 DEF ServerTypeOK, LaunchInv, Supervised, startVars
<1>7. BusyInv'
  BY <1>1 DEF ListenFails, Retry, ServerTypeOK, BusyInv, Quiet, InWork, InState
<1>8. StopInv' /\ DrainInv'
  BY <1>1, <1>3 DEF StopInv, DrainInv, Closing, Launching, startVars, stopVars
<1> QED
  BY <1>4, <1>5, <1>6, <1>7, <1>8

-----------------------------------------------------------------------------
(* The dispatcher only moves a message along. *)
LEMMA DispatchKeeps ==
    ASSUME ServerInv, NEW m \in Inbound,
           Arrives(m) \/ HandlerStarts(m) \/ Refuse(m) \/ HandlerReturns(m)
    PROVE  ServerInv'
<1> USE ServerAssumption DEF ServerInv
<1>1. UNCHANGED <<running, stopped, runDone, wg, startVars, transportVars, stopVars>>
  BY DEF Arrives, HandlerStarts, Refuse, HandlerReturns
<1>2. msg' \in [Inbound -> {"new", "slot", "running", "done", "refused"}]
  BY DEF Arrives, HandlerStarts, Refuse, HandlerReturns, ServerTypeOK
<1>3. ServerTypeOK' /\ WaitGroupCountsSupervisors'
  BY <1>1, <1>2 DEF ServerTypeOK, WaitGroupCountsSupervisors, startVars, transportVars, stopVars
<1>4. LaunchInv'
  BY <1>1 DEF LaunchInv, startVars, transportVars
<1>5. BusyInv'
  BY <1>1 DEF Arrives, HandlerStarts, Refuse, HandlerReturns, ServerTypeOK, BusyInv, transportVars
<1>6. StopInv' /\ DrainInv'
  BY <1>1 DEF StopInv, DrainInv, Closing, Launching, Supervisors, Supervised,
              startVars, transportVars, stopVars
<1> QED
  BY <1>3, <1>4, <1>5, <1>6

-----------------------------------------------------------------------------
(* The first Stop closes the server, a later one returns at once. *)
LEMMA StopKeeps ==
    ASSUME ServerInv, NEW t \in Stoppers, Stop(t)
    PROVE  ServerInv'
<1> USE ServerAssumption DEF ServerInv
<1>1. ServerTypeOK' /\ WaitGroupCountsSupervisors'
  BY DEF Stop, ServerTypeOK, WaitGroupCountsSupervisors, startVars, transportVars
<1>2. LaunchInv' /\ BusyInv'
  BY DEF Stop, LaunchInv, BusyInv, startVars, transportVars
<1>3. StopInv'
  BY DEF Stop, ServerTypeOK, StopInv, Closing, Launching, startVars
<1>4. DrainInv'
  BY DEF Stop, ServerTypeOK, StopInv, DrainInv, Closing, Supervisors, Supervised, transportVars
<1> QED
  BY <1>1, <1>2, <1>3, <1>4

(* The run is cancelled; there is none to cancel when Start never ran. *)
LEMMA CancelRunKeeps ==
    ASSUME ServerInv, NEW t \in Stoppers, CancelRun(t)
    PROVE  ServerInv'
<1> USE ServerAssumption DEF ServerInv
<1>1. ServerTypeOK' /\ WaitGroupCountsSupervisors'
  BY DEF CancelRun, ServerTypeOK, WaitGroupCountsSupervisors, startVars, transportVars
<1>2. LaunchInv' /\ BusyInv'
  BY DEF CancelRun, LaunchInv, BusyInv, startVars, transportVars
<1>3. StopInv' /\ DrainInv'
  BY DEF CancelRun, ServerTypeOK, StopInv, DrainInv, Closing, Launching, Supervisors, Supervised,
         startVars, transportVars
<1> QED
  BY <1>1, <1>2, <1>3

(* wg.Wait returns: the count is 0, so there is no supervisor. *)
LEMMA WaitDoneKeeps ==
    ASSUME ServerInv, NEW t \in Stoppers, WaitDone(t)
    PROVE  ServerInv'
<1> USE ServerAssumption DEF ServerInv
<1>1. Supervisors = {}
  BY CountOf, FS_EmptySet DEF WaitDone
<1>2. drained' \in [Stoppers -> BOOLEAN]
  BY DEF WaitDone, ServerTypeOK
<1>3. ServerTypeOK' /\ WaitGroupCountsSupervisors'
  BY <1>2 DEF WaitDone, ServerTypeOK, WaitGroupCountsSupervisors, startVars, transportVars
<1>4. LaunchInv' /\ BusyInv'
  BY DEF WaitDone, LaunchInv, BusyInv, startVars, transportVars
<1>5. StopInv'
  BY DEF WaitDone, StopInv, Closing, Launching, startVars
<1>6. DrainInv'
  BY <1>1 DEF WaitDone, ServerTypeOK, StopInv, DrainInv, Closing, Supervisors, Supervised,
              transportVars
<1> QED
  BY <1>3, <1>4, <1>5, <1>6

(* The wait of Stop is over, one way or the other. *)
LEMMA StopWaitedKeeps ==
    ASSUME ServerInv, NEW t \in Stoppers, Drained(t) \/ StopTimesOut(t)
    PROVE  ServerInv'
<1> USE ServerAssumption DEF ServerInv
<1>1. PICK outcome \in {"drained", "timeout"} :
         StopWaited(t, outcome) /\ (outcome = "drained" => drained[t])
  BY DEF Drained, StopTimesOut
<1>2. ServerTypeOK' /\ WaitGroupCountsSupervisors'
  BY <1>1 DEF StopWaited, ServerTypeOK, WaitGroupCountsSupervisors, startVars, transportVars
<1>3. LaunchInv' /\ BusyInv'
  BY <1>1 DEF StopWaited, LaunchInv, BusyInv, startVars, transportVars
<1>4. StopInv' /\ DrainInv'
  BY <1>1 DEF StopWaited, ServerTypeOK, StopInv, DrainInv, Closing, Launching, Supervisors,
              Supervised, startVars, transportVars
<1> QED
  BY <1>2, <1>3, <1>4

(* A transport is closed, by Stop or by a client. *)
LEMMA CloseKeeps ==
    ASSUME ServerInv, NEW l \in Listeners,
           CloseElsewhere(l) \/ \E t \in Stoppers : CloseTransport(t, l)
    PROVE  ServerInv'
<1> USE ServerAssumption DEF ServerInv
<1>1. /\ UNCHANGED <<running, stopped, runDone, wg, startVars, listener, failures, msg,
                     stopVars>>
      /\ shut' \in SUBSET Listeners
  BY DEF CloseTransport, CloseElsewhere, ServerTypeOK
<1>2. ServerTypeOK' /\ WaitGroupCountsSupervisors'
  BY <1>1 DEF ServerTypeOK, WaitGroupCountsSupervisors, startVars, stopVars
<1>3. LaunchInv' /\ BusyInv'
  BY <1>1 DEF LaunchInv, BusyInv, startVars
<1>4. StopInv' /\ DrainInv'
  BY <1>1 DEF StopInv, DrainInv, Closing, Launching, Supervisors, Supervised,
              startVars, stopVars
<1> QED
  BY <1>2, <1>3, <1>4

(* The end of Stop. *)
LEMMA StopReturnsKeeps ==
    ASSUME ServerInv, NEW t \in Stoppers, StopReturns(t)
    PROVE  ServerInv'
<1> USE ServerAssumption DEF ServerInv
<1>2. ServerTypeOK' /\ WaitGroupCountsSupervisors'
  BY DEF StopReturns, ServerTypeOK, WaitGroupCountsSupervisors, startVars, transportVars
<1>3. LaunchInv' /\ BusyInv'
  BY DEF StopReturns, LaunchInv, BusyInv, startVars, transportVars
<1>4. StopInv' /\ DrainInv'
  BY DEF StopReturns, ServerTypeOK, StopInv, DrainInv, Closing, Launching, Supervisors, Supervised,
         startVars, transportVars
<1> QED
  BY <1>2, <1>3, <1>4

-----------------------------------------------------------------------------
(* Every step of the server keeps the invariant. *)
LEMMA NextInv == ServerInv /\ [ServerNext]_serverVars => ServerInv'
<1> SUFFICES ASSUME ServerInv, [ServerNext]_serverVars PROVE ServerInv'
  OBVIOUS
<1>1. ASSUME NEW s \in Starters, StartStep(s) PROVE ServerInv'
  BY <1>1, StartKeeps, LaunchKeeps, StartReturnsKeeps DEF StartStep
<1>2. ASSUME NEW l \in Listeners, SuperviseStep(l) \/ ListenFails(l) PROVE ServerInv'
  BY <1>2, ListenEndsKeeps, RetryKeeps DEF SuperviseStep
<1>3. ASSUME NEW m \in Inbound, Arrives(m) \/ DispatchStep(m) \/ HandlerReturns(m)
      PROVE  ServerInv'
  BY <1>3, DispatchKeeps DEF DispatchStep
<1>4. ASSUME NEW t \in Stoppers, Stop(t) \/ StopTimesOut(t) \/ StopStep(t) PROVE ServerInv'
  BY <1>4, StopKeeps, CancelRunKeeps, WaitDoneKeeps, StopWaitedKeeps, CloseKeeps,
     StopReturnsKeeps DEF StopStep
<1>5. ASSUME NEW l \in Listeners, CloseElsewhere(l) PROVE ServerInv'
  BY <1>5, CloseKeeps
<1>6. CASE UNCHANGED serverVars
  BY <1>6 DEF serverVars, ServerInv, ServerTypeOK, WaitGroupCountsSupervisors, LaunchInv, BusyInv,
              StopInv, DrainInv, Closing, Launching, Supervisors, Supervised
<1> QED
  BY <1>1, <1>2, <1>3, <1>4, <1>5, <1>6 DEF ServerNext

(* The invariant holds in every reachable state of the server. *)
THEOREM ServerInvariant == ServerSpec => []ServerInv
  BY InitInv, NextInv, PTL DEF ServerSpec

(* Every variable keeps its type, whatever Start, Stop, the supervisors and *)
(* the handlers do to each other; in particular Server.wg never goes        *)
(* negative, which would panic.                                             *)
THEOREM TypeCorrect == ServerSpec => []ServerTypeOK
  BY ServerInvariant, PTL DEF ServerInv

(* Server.wg counts the runListener goroutines, one per transport, across  *)
(* every race of Start calls and every retry.                              *)
THEOREM WaitGroupCounts == ServerSpec => []WaitGroupCountsSupervisors
  BY ServerInvariant, PTL DEF ServerInv

(* A Stop that returned without its deadline and met no launching Start    *)
(* left no supervisor and no handler, and none appears later; a listener   *)
(* launched after any Stop runs on a cancelled context.                    *)
THEOREM StopDrainsAlways == ServerSpec => []StopDrains
<1>1. ServerInv => StopDrains
  <2> SUFFICES ASSUME ServerInv, NEW t \in Stoppers
               PROVE  /\ (stopper[t] = "done" /\ how[t] = "drained" /\ t \notin raced) => Still
                      /\ stopper[t] \in {"wait", "close", "done"} /\ how[t] # "noop" =>
                           \A l \in Listeners : listener[l] \in {"up", "backoff"} => runDone
    BY DEF StopDrains
  <2>1. ASSUME how[t] = "drained", t \notin raced PROVE Still
    <3>1. \A l \in Listeners : listener[l] \notin {"up", "backoff"}
      BY <2>1 DEF ServerInv, DrainInv, Supervisors, Supervised
    <3>2. \A l \in Listeners : InWork(l) = {}
      BY <3>1, ServerAssumption DEF ServerInv, BusyInv, InWork, InState
    <3> QED
      BY <3>1, <3>2 DEF Still
  <2>2. ASSUME stopper[t] \in {"wait", "close", "done"}, how[t] # "noop",
               NEW l \in Listeners, listener[l] \in {"up", "backoff"}
        PROVE  runDone
    BY <2>2 DEF ServerInv, LaunchInv, StopInv, Closing
  <2> QED
    BY <2>1, <2>2
<1> QED
  BY <1>1, ServerInvariant, PTL
=============================================================================
