------------------------- MODULE ApplicationProofs --------------------------
(***************************************************************************)
(* Proofs about module Application, for any modules, number of loaders,    *)
(* hooks and requests.                                                     *)
(*                                                                         *)
(* Three inductive invariants, one part each.  LifeInv and ServeInv: one   *)
(* goroutine runs the start hooks, whoever is at the shutdown hooks has    *)
(* run the last ones so far, and the server it drained stays closed.       *)
(* LoaderInv: a module is in one frame or in the memo, and a frame waits   *)
(* for the one above it.  RequestInv: a request at place i of its chain    *)
(* has the guards before i behind it.                                      *)
(***************************************************************************)
EXTENDS Application, SequenceTheorems, TLAPS

LifeStages == {"idle", "start", "failed", "listen", "select", "drain", "hooks", "returned"}

LifeShape ==
    /\ pc \in [Procs -> LifeStages] /\ hook \in [Procs -> Int]
    /\ starts \in [1..StartHooks -> Nat]
    /\ stops = [p \in Procs |-> stops[p]] /\ expired \in [Procs -> BOOLEAN]
    /\ server \in {"none", "up", "closed"}
    /\ started \in BOOLEAN

\* One goroutine calls the start hooks, in their order.
StartInv ==
    /\ ~started => \A i \in 1..StartHooks : starts[i] = 0
    /\ ~started => \A p \in Procs : pc[p] # "start"
    /\ \A p, q \in Procs : pc[p] = "start" /\ pc[q] = "start" => p = q
    /\ \A p \in Procs : pc[p] = "start" => hook[p] > 0 /\ \A i \in 1..StartHooks : i >= hook[p] => starts[i] = 0
    /\ \A i \in 1..StartHooks : starts[i] <= 1

\* The last n shutdown hooks, last first.
LastHooks(n) == [i \in 1..n |-> StopHooks + 1 - i]

StopInv ==
    /\ signal => mode # "plain"
    /\ \A p \in Procs : pc[p] \in {"drain", "hooks"} => ~(p = "main" /\ mode = "plain")
    /\ \A p \in Procs : pc[p] = "hooks" =>
         hook[p] \in 0..StopHooks /\ stops[p] = LastHooks(StopHooks - hook[p])
    /\ \A p \in Procs : pc[p] \notin {"hooks", "returned"} => stops[p] = <<>>
    /\ \A p \in Procs : pc[p] = "returned" =>
         stops[p] = (IF p = "main" /\ mode = "plain" THEN <<>> ELSE LastHooks(StopHooks))

LifeInv == LifeShape /\ StartInv /\ StopInv

-----------------------------------------------------------------------------
LEMMA NoHooks == LastHooks(0) = <<>>
  BY DEF LastHooks

LEMMA OneMoreHook ==
    ASSUME NEW n \in Nat PROVE Append(LastHooks(n), StopHooks - n) = LastHooks(n + 1)
<1>1. LastHooks(n) \in Seq(Int) /\ Len(LastHooks(n)) = n /\ LastHooks(n + 1) \in Seq(Int)
      /\ Len(LastHooks(n + 1)) = n + 1 /\ StopHooks - n \in Int
  BY LifecycleAssumption DEF LastHooks
<1>2. \A i \in 1..n : LastHooks(n)[i] = StopHooks + 1 - i
  BY DEF LastHooks
<1>3. \A i \in 1..(n + 1) : LastHooks(n + 1)[i] = StopHooks + 1 - i
  BY DEF LastHooks
<1>4. \A i \in 1..(n + 1) : Append(LastHooks(n), StopHooks - n)[i] = LastHooks(n + 1)[i]
  BY <1>1, <1>2, <1>3, LifecycleAssumption
<1> HIDE DEF LastHooks
<1> QED
  BY <1>1, <1>4, SeqEqual

LEMMA LifeInvInit == ASSUME LifeInit PROVE LifeInv
<1>1. LifeShape
  <2>1. /\ pc \in [Procs -> LifeStages] /\ hook \in [Procs -> Int]
        /\ starts \in [1..StartHooks -> Nat] /\ stops = [p \in Procs |-> stops[p]]
    BY DEF LifeInit, LifeStages
  <2>2. expired \in [Procs -> BOOLEAN]
    BY Zenon DEF LifeInit
  <2>3. server \in {"none", "up", "closed"} /\ started \in BOOLEAN
    BY DEF LifeInit
  <2> QED
    BY <2>1, <2>2, <2>3 DEF LifeShape
<1>2. StartInv
  BY DEF LifeInit, StartInv
<1>3. StopInv
  BY DEF LifeInit, StopInv
<1> QED
  BY <1>1, <1>2, <1>3 DEF LifeInv

LEMMA StartStep ==
    ASSUME LifeInv, NEW p \in Procs, Start(p) \/ StartHook(p) PROVE LifeInv'
<1> USE DEF Go
<1>0. /\ pc \in [Procs -> LifeStages] /\ hook \in [Procs -> Int]
      /\ starts \in [1..StartHooks -> Nat] /\ started \in BOOLEAN
      /\ AfterStart(p) \in {"idle", "listen"}
  BY DEF LifeInv, LifeShape, AfterStart
<1>1. /\ UNCHANGED <<mode, server, signal, expired, stops>>
      /\ pc[p] \in {"idle", "start"} /\ pc' = [pc EXCEPT ![p] = pc'[p]]
      /\ pc'[p] \in {"idle", "listen", "start", "failed"}
  BY <1>0 DEF Start, StartHook
<1>2. StopInv'
  <2>1. \A q \in Procs \ {p} : pc'[q] = pc[q] /\ hook'[q] = hook[q]
    BY <1>0, <1>1 DEF Start, StartHook
  <2>2. pc'[p] \notin {"drain", "hooks", "returned"} /\ stops[p] = <<>>
    BY <1>0, <1>1 DEF LifeInv, StopInv
  <2> QED
    BY <1>1, <2>1, <2>2 DEF LifeInv, StopInv
<1>3. CASE UNCHANGED <<started, hook, starts>> /\ pc'[p] # "start"
  <2>1. LifeShape'
    BY <1>0, <1>1, <1>3 DEF LifeInv, LifeShape, LifeStages
  <2>2. \A q \in Procs : pc'[q] = "start" => pc[q] = "start"
    BY <1>0, <1>1, <1>3
  <2>3. StartInv'
    BY <1>3, <2>2 DEF LifeInv, StartInv
  <2> QED
    BY <1>2, <2>1, <2>3 DEF LifeInv
<1>4. CASE Start(p) /\ ~started
  <2>1. started' = TRUE /\ pc'[p] = "start" /\ hook' = [hook EXCEPT ![p] = 1] /\ starts' = starts
    BY <1>0, <1>4 DEF Start
  <2>2. StartInv'
    BY <1>0, <1>1, <1>4, <2>1 DEF LifeInv, StartInv
  <2>3. LifeShape'
    <3>1. pc'[p] \in LifeStages
      BY <2>1 DEF LifeStages
    <3>2. pc' \in [Procs -> LifeStages] /\ hook' \in [Procs -> Int]
      BY <1>0, <1>1, <2>1, <3>1
    <3> QED
      BY <1>1, <2>1, <3>2 DEF LifeInv, LifeShape
  <2> QED
    BY <1>2, <2>2, <2>3 DEF LifeInv
<1>5. CASE StartHook(p) /\ hook[p] <= StartHooks
  <2>1. /\ pc[p] = "start" /\ hook[p] \in 1..StartHooks /\ starts[hook[p]] = 0 /\ started = TRUE
    BY <1>0, <1>5 DEF StartHook, LifeInv, StartInv
  <2>a. ~(hook[p] > StartHooks)
    BY <1>0, <1>5, LifecycleAssumption
  <2>2. /\ starts' = [starts EXCEPT ![hook[p]] = @ + 1] /\ started' = started
        /\ \/ hook' = [hook EXCEPT ![p] = @ + 1] /\ pc' = pc
           \/ hook' = hook /\ pc' = [pc EXCEPT ![p] = "failed"]
    <3> HIDE DEF Go
    <3>1. /\ starts' = [starts EXCEPT ![hook[p]] = @ + 1] /\ started' = started
          /\ (hook' = [hook EXCEPT ![p] = @ + 1] /\ pc' = pc) \/ (hook' = hook /\ Go(p, "failed"))
      BY <1>5, <2>a, Zenon DEF StartHook
    <3> QED
      BY <3>1 DEF Go
  <2>3. StartInv'
    BY <1>0, <1>1, <2>1, <2>2 DEF LifeInv, StartInv
  <2> QED
    BY <1>0, <1>1, <1>2, <2>1, <2>2, <2>3 DEF LifeInv, LifeShape, LifeStages
<1> QED
  BY <1>0, <1>3, <1>4, <1>5 DEF Start, StartHook

LEMMA StopStep ==
    ASSUME LifeInv, NEW p \in Procs, StopHook(p) PROVE LifeInv'
<1> USE DEF LifeInv, LifeShape, LifeStages, Go
<1>0. /\ UNCHANGED <<mode, started, server, signal, expired, starts>>
      /\ pc[p] = "hooks" /\ pc'[p] \in {"hooks", "returned"} /\ hook'[p] \in Int
      /\ \A q \in Procs \ {p} : pc'[q] = pc[q] /\ hook'[q] = hook[q]
  BY DEF StopHook
<1>a. LifeShape'
  <2>1. pc' \in [Procs -> LifeStages] /\ hook' \in [Procs -> Int]
    BY DEF StopHook
  <2>2. stops' = [q \in Procs |-> stops'[q]]
    BY DEF StopHook
  <2> QED
    BY <1>0, <2>1, <2>2
<1>1. StartInv' /\ LifeShape'
  BY <1>0, <1>a DEF StartInv
<1>2. CASE hook[p] > 0
  <2>1. /\ stops'[p] = Append(stops[p], hook[p]) /\ hook'[p] = hook[p] - 1 /\ pc' = pc
        /\ \A q \in Procs \ {p} : stops'[q] = stops[q] /\ hook'[q] = hook[q]
        /\ UNCHANGED <<signal, mode>>
    BY <1>2 DEF StopHook
  <2>2. hook[p] \in 0..StopHooks /\ stops[p] = LastHooks(StopHooks - hook[p]) /\ pc[p] = "hooks"
    BY DEF StopHook, StopInv
  <2>3. StopHooks - hook[p] \in Nat /\ hook[p] = StopHooks - (StopHooks - hook[p])
        /\ StopHooks - hook[p] + 1 = StopHooks - hook'[p] /\ hook'[p] \in 0..StopHooks
    BY <1>2, <2>1, <2>2, LifecycleAssumption
  <2>4. stops'[p] = LastHooks(StopHooks - hook'[p])
    BY <2>1, <2>2, <2>3, OneMoreHook
  <2>5. StopInv'
    BY <2>1, <2>2, <2>3, <2>4 DEF StopInv
  <2> QED
    BY <1>1, <2>5
<1>3. CASE hook[p] = 0
  BY <1>1, <1>3, LifecycleAssumption DEF StopHook, StopInv
<1> QED
  BY <1>2, <1>3 DEF StopHook

LEMMA OtherLifeStep ==
    ASSUME LifeInv,
           \/ Serve \/ MainSelect \/ Shutdown \/ ServeDies \/ Signal
           \/ \E p \in Procs : Drain(p, InFlight) \/ Expire(p)
    PROVE  LifeInv'
<1> USE DEF LifeInv, LifeShape, LifeStages, Go, Procs
<1>1. LifeShape'
  <2>1. pc' \in [Procs -> LifeStages] /\ hook' \in [Procs -> Int]
    BY LifecycleAssumption
       DEF Serve, MainSelect, Shutdown, ServeDies, Signal, Drain, Expire, CloseServer
  <2>2. UNCHANGED <<started, starts, stops>>
    BY DEF Serve, MainSelect, Shutdown, ServeDies, Signal, Drain, Expire
  <2>3. server' \in {"none", "up", "closed"}
    BY DEF Serve, MainSelect, Shutdown, ServeDies, Signal, Drain, Expire, CloseServer
  <2>4. expired' \in [Procs -> BOOLEAN]
    BY DEF Serve, MainSelect, Shutdown, ServeDies, Signal, Drain, Expire
  <2> QED
    BY <2>1, <2>2, <2>3, <2>4
<1>2. StartInv'
  <2>1. UNCHANGED <<started, starts>> /\ \A q \in Procs : pc'[q] = "start" => pc[q] = "start" /\ hook'[q] = hook[q]
    BY DEF Serve, MainSelect, Shutdown, ServeDies, Signal, Drain, Expire, CloseServer
  <2> QED
    BY <2>1 DEF StartInv
<1>3. StopInv'
  <2>1. StopHooks \in 0..StopHooks /\ StopHooks - StopHooks = 0
    BY LifecycleAssumption
  <2>2. CASE Serve \/ Shutdown \/ ServeDies \/ Signal
    BY <2>2 DEF Serve, Shutdown, ServeDies, Signal, CloseServer, StopInv
  <2>3. CASE MainSelect
    BY <2>1, <2>3, NoHooks DEF MainSelect, CloseServer, StopInv
  <2>4. CASE \E p \in Procs : Drain(p, InFlight)
    BY <2>1, <2>4, NoHooks DEF Drain, StopInv
  <2>5. CASE \E p \in Procs : Expire(p)
    BY <2>5 DEF Expire, StopInv
  <2> QED
    BY <2>2, <2>3, <2>4, <2>5
<1> QED
  BY <1>1, <1>2, <1>3

-----------------------------------------------------------------------------
(***************************************************************************)
(* What closes what: Serve is the one step that makes the server accept,   *)
(* and it comes before main can be at a shutdown, so that a server that a  *)
(* shutdown closed stays closed, and the requests in flight only dwindle.  *)
(***************************************************************************)
Excused(p) == IF p = "main" THEN died ELSE early
Quiet == server = "closed" \/ mode = "worker"

ServeInv ==
    /\ state = [r \in Requests |-> state[r]]
    /\ pc["main"] \in {"idle", "start", "listen", "failed"} => server = "none"
    /\ mode = "worker" => server = "none"
    /\ pc["main"] \in {"select", "drain", "hooks"} => server # "none" \/ mode = "worker"
    /\ server = "none" => InFlight = {}
    /\ \A p \in Procs : pc[p] \in {"drain", "hooks"} => Excused(p) \/ Quiet
    /\ \A p \in Procs : pc[p] = "hooks" => Excused(p) \/ InFlight = {} \/ expired[p]
\* A step of the lifecycle leaves the modules and the requests alone.
LEMMA LifeCases ==
    ASSUME Life
    PROVE  /\ UNCHANGED <<loaderVars, cfg, reqVars>>
           /\ \/ \E p \in Procs : Start(p) \/ StartHook(p) \/ StopHook(p)
              \/ Serve \/ MainSelect \/ Shutdown \/ ServeDies \/ Signal
              \/ \E p \in Procs : Drain(p, InFlight) \/ Expire(p)
  BY DEF Life, MainStep, OtherStep, Procs

LEMMA LifeInvStep ==
    ASSUME LifeInv, [Next]_vars PROVE LifeInv'
<1>1. CASE Life
  BY <1>1, LifeCases, StartStep, StopStep, OtherLifeStep
<1>2. CASE UNCHANGED lifeVars
  BY <1>2 DEF lifeVars, LifeInv, LifeShape, StartInv, StopInv
<1>3. Life \/ UNCHANGED lifeVars
  BY DEF Next, Bootstrap, Arrive, RequestStep, BodyLimit, RateLimit, Guard, Handle, vars
<1> QED
  BY <1>1, <1>2, <1>3

LEMMA RequestsOnly ==
    ASSUME ServeInv, NEW r \in Requests, Arrive(r) \/ RequestStep(r)
    PROVE  /\ UNCHANGED <<loaderVars, lifeVars, cfg>>
           /\ state' = [q \in Requests |-> state'[q]]
           /\ server = "up" \/ InFlight' \subseteq InFlight
<1>1. UNCHANGED <<loaderVars, lifeVars, cfg>>
  BY DEF Arrive, RequestStep, BodyLimit, RateLimit, Guard, Handle
<1>2. CASE Arrive(r)
  <2>1. server = "up" /\ state' = [state EXCEPT ![r] = "run"]
    BY <1>2 DEF Arrive
  <2>2. state = [q \in Requests |-> state[q]]
    BY DEF ServeInv
  <2>3. state' = [q \in Requests |-> state'[q]]
    BY <2>1, <2>2
  <2> QED
    BY <1>1, <2>1, <2>3
<1>3. CASE RequestStep(r)
  <2>1. state' = state \/ state' = [state EXCEPT ![r] = "done"]
    BY <1>3 DEF RequestStep, BodyLimit, RateLimit, Guard, Handle, Proceed, Unwind
  <2> QED
    BY <1>1, <2>1 DEF ServeInv, InFlight
<1> QED
  BY <1>1, <1>2, <1>3

LEMMA ServeInvInit == ASSUME Init PROVE ServeInv
<1>1. /\ server = "none" /\ \A p \in Procs : pc[p] = "idle"
      /\ state = [r \in Requests |-> "none"]
  BY DEF Init, LifeInit
<1>2. InFlight = {}
  BY <1>1 DEF InFlight
<1> QED
  BY <1>1, <1>2 DEF ServeInv, Excused, Quiet, Procs

LEMMA ServeInvStep ==
    ASSUME LifeInv, ServeInv, [Next]_vars PROVE ServeInv'
<1>1. CASE Life
  <2> USE DEF Go
  <2>0. /\ UNCHANGED state /\ InFlight' = InFlight
        /\ \/ \E p \in Procs : Start(p) \/ StartHook(p) \/ StopHook(p)
           \/ Serve \/ MainSelect \/ Shutdown \/ ServeDies \/ Signal
           \/ \E p \in Procs : Drain(p, InFlight) \/ Expire(p)
    BY <1>1, LifeCases DEF reqVars, InFlight
  <2>a. /\ pc \in [Procs -> LifeStages] /\ server \in {"none", "up", "closed"}
        /\ expired \in [Procs -> BOOLEAN] /\ (signal => mode # "plain")
    BY DEF LifeInv, LifeShape, StopInv
  <2> USE <2>0, <2>a DEF ServeInv, Procs, Excused, Quiet
  <2>1. CASE \E p \in Procs : Start(p) \/ StartHook(p)
    BY <2>1 DEF Start, StartHook, AfterStart
  <2>2. CASE \E p \in Procs : StopHook(p)
    BY <2>2 DEF StopHook
  <2>3. CASE Serve
    BY <2>3 DEF Serve
  <2>4. CASE MainSelect
    BY <2>4 DEF MainSelect, CloseServer
  <2>5. CASE Shutdown
    BY <2>5 DEF Shutdown, CloseServer
  <2>6. CASE ServeDies \/ Signal
    BY <2>6 DEF ServeDies, Signal
  <2>7. CASE \E p \in Procs : Drain(p, InFlight)
    BY <2>7 DEF Drain
  <2>8. CASE \E p \in Procs : Expire(p)
    BY <2>8 DEF Expire
  <2> QED
    BY <2>1, <2>2, <2>3, <2>4, <2>5, <2>6, <2>7, <2>8
<1>2. CASE \E r \in Requests : Arrive(r) \/ RequestStep(r)
  <2>1. /\ UNCHANGED <<mode, pc, server, expired, died, early>>
        /\ state' = [q \in Requests |-> state'[q]]
        /\ server = "up" \/ InFlight' \subseteq InFlight
    BY <1>2, RequestsOnly DEF lifeVars
  <2> QED
    BY <2>1 DEF ServeInv, Excused, Quiet
<1>3. CASE UNCHANGED <<lifeVars, reqVars>>
  BY <1>3 DEF lifeVars, reqVars, ServeInv, Excused, Quiet, InFlight
<1> QED
  BY <1>1, <1>2, <1>3 DEF Next, Bootstrap, vars

(* The lifecycle keeps its invariant: the parts the two theorems below     *)
(* need, about the hooks (LifeInv) and about what is drained (ServeInv).   *)
THEOREM LifeInvariant == Spec => [](LifeInv /\ ServeInv)
<1>1. Init => LifeInv /\ ServeInv
  BY LifeInvInit, ServeInvInit DEF Init
<1>2. LifeInv /\ ServeInv /\ [Next]_vars => (LifeInv /\ ServeInv)'
  BY LifeInvStep, ServeInvStep
<1> QED
  BY <1>1, <1>2, PTL DEF Spec

(* For any number of hooks and however Start, Listen, Shutdown and a       *)
(* signal interleave, a start hook is called at most once (app.go, Start), *)
(* and whoever returns from the shutdown has run all the shutdown hooks,   *)
(* last registered first (runShutdownHooks).                               *)
THEOREM HooksAreComplete == Spec => []HooksComplete
<1>1. LifeInv => HooksComplete
  BY DEF LifeInv, StartInv, StopInv, HooksComplete, LastHooks
<1> QED
  BY <1>1, LifeInvariant, PTL

(* For any number of requests, no shutdown hook runs while one is in       *)
(* flight, unless the shutdown context is done, Listen's serve call        *)
(* returned by itself, or Shutdown came before there was a server          *)
(* (listen.go, serveWithGracefulShutdown and Shutdown).                    *)
THEOREM HooksComeLast == Spec => HooksAfterDrain
<1>1. LifeInv /\ ServeInv /\ [Next]_vars =>
        [\A p \in Procs : stops'[p] # stops[p] =>
           InFlight = {} \/ expired[p] \/ (p = "main" /\ died) \/ early]_vars
  <2> SUFFICES ASSUME LifeInv, ServeInv, [Next]_vars, NEW p \in Procs, stops'[p] # stops[p]
               PROVE  InFlight = {} \/ expired[p] \/ (p = "main" /\ died) \/ early
    BY DEF vars
  <2>1. Life
    BY RequestsOnly DEF Next, Bootstrap, vars, lifeVars
  <2>0. stops = [q \in Procs |-> stops[q]]
    BY DEF LifeInv, LifeShape
  <2>2. pc[p] = "hooks"
    BY <2>0, <2>1, LifeCases DEF Start, StartHook, StopHook, Serve, MainSelect, Shutdown, ServeDies,
         Signal, Drain, Expire
  <2> QED
    BY <2>2 DEF ServeInv, Excused
<1> QED
  BY <1>1, LifeInvariant, PTL DEF Spec, HooksAfterDrain

-----------------------------------------------------------------------------
(***************************************************************************)
(* The loader.  A module is in at most one frame of one loader, and the    *)
(* memo has none that is in a frame: so that an entry of the memo is never *)
(* replaced, and what a container took from it stays what it may hold.  A  *)
(* frame waits for the module at the head of its imports, the frame above  *)
(* it: so that any order of the modules that puts imports first orders the *)
(* stack of each loader.                                                   *)
(***************************************************************************)
Modules == DOMAIN graph.modules
Imports(m) == {Mod(m).imports[i] : i \in DOMAIN Mod(m).imports}
Kinds == graph.singletons \cup
    UNION {UNION {Mod(m).provides[i].types : i \in DOMAIN Mod(m).provides} : m \in Modules}
Pairs == Kinds \X (Modules \cup {Root})
Frames == [mod : Modules, todo : Seq(Modules), have : SUBSET Pairs, at : Nat \ {0}]

LoaderShape ==
    /\ graph \in Graphs
    /\ stack \in [Loaders -> Seq(Frames)]
    /\ exports \subseteq Modules \X SUBSET Pairs
    /\ panicked \in [Loaders -> {"no", "cycle", "wiring"}]

\* The frames of a loader, each waiting for the module above it.
WaitInv ==
    \A l \in Loaders : \A i \in 1..Len(stack[l]) :
       /\ stack[l][i].todo \in Seq(Imports(stack[l][i].mod))
       /\ i > 1 => stack[l][i].todo # <<>> /\ Head(stack[l][i].todo) = stack[l][i - 1].mod

\* Where a module is: in one frame, in the memo, or in neither.
PlaceInv ==
    /\ \A l, k \in Loaders : \A i \in 1..Len(stack[l]) : \A j \in 1..Len(stack[k]) :
         stack[l][i].mod = stack[k][j].mod => l = k /\ i = j
    /\ \A m \in loading : \E l \in Loaders : \E i \in 1..Len(stack[l]) : stack[l][i].mod = m
    /\ \A l \in Loaders : \A i \in 1..Len(stack[l]) :
         stack[l][i].mod \in loading /\ stack[l][i].mod \notin Loaded
    /\ \A e, f \in exports : e[1] = f[1] => e = f

\* Any order with the imports first orders the stacks.
OrderInv ==
    \A rank \in LoadOrders(graph.modules) : \A l \in Loaders : \A i, j \in 1..Len(stack[l]) :
       i < j => rank[stack[l][i].mod] < rank[stack[l][j].mod]

CycleInv == \A l \in Loaders : panicked[l] = "cycle" => graph.cyclic \/ overlapped

\* A route has its module's path, and the observers know the controllers.
RouteInv ==
    /\ \A r \in routes : r.path = Mod(r.of).route
    /\ \A r, s \in routes : r.path = s.path => r = s
    /\ \A m \in controllers : \E r \in routes : r.of = m
    /\ told \in [Observers -> [Modules -> Nat]] /\ observers \subseteq Observers
    /\ \A o \in Observers : \A m \in Modules :
         told[o][m] = IF o \in observers /\ m \in controllers THEN 1 ELSE 0

\* One construction of a module that is in a frame or in the memo.
BuiltInv ==
    /\ built \in [Modules -> Int]
    /\ \A m \in Modules : built[m] = IF m \in Loaded \cup loading THEN 1 ELSE 0

LoaderInv ==
    /\ LoaderShape /\ WaitInv /\ PlaceInv /\ OrderInv
    /\ CycleInv /\ RouteInv /\ BuiltInv

LEMMA PushSeq ==
    ASSUME NEW S, NEW s \in Seq(S), NEW e \in S
    PROVE  /\ <<e>> \o s \in Seq(S) /\ Len(<<e>> \o s) = Len(s) + 1 /\ (<<e>> \o s)[1] = e
           /\ \A i \in 2..(Len(s) + 1) : (<<e>> \o s)[i] = s[i - 1]
<1>1. <<e>> \in Seq(S) /\ Len(<<e>>) = 1 /\ <<e>>[1] = e
  OBVIOUS
<1>2. /\ <<e>> \o s \in Seq(S) /\ Len(<<e>> \o s) = Len(<<e>>) + Len(s)
      /\ \A i \in 1..(Len(<<e>>) + Len(s)) :
           (<<e>> \o s)[i] = IF i <= Len(<<e>>) THEN <<e>>[i] ELSE s[i - Len(<<e>>)]
  BY <1>1, ConcatProperties
<1> QED
  BY <1>1, <1>2

LEMMA TailSeq ==
    ASSUME NEW S, NEW s \in Seq(S), s # <<>>
    PROVE  /\ Head(s) \in S /\ Head(s) = s[1] /\ Len(s) \in Nat \ {0}
           /\ Tail(s) \in Seq(S) /\ Len(Tail(s)) = Len(s) - 1
           /\ \A i \in 1..(Len(s) - 1) : Tail(s)[i] = s[i + 1]
  BY HeadTailProperties, EmptySeq

\* The top frame replaced by another.
LEMMA NewTop ==
    ASSUME NEW S, NEW s \in Seq(S), s # <<>>, NEW e \in S
    PROVE  /\ <<e>> \o Tail(s) \in Seq(S) /\ Len(<<e>> \o Tail(s)) = Len(s)
           /\ (<<e>> \o Tail(s))[1] = e
           /\ \A i \in 2..Len(s) : (<<e>> \o Tail(s))[i] = s[i]
<1>1. /\ Tail(s) \in Seq(S) /\ Len(Tail(s)) = Len(s) - 1 /\ Len(s) \in Nat \ {0}
      /\ \A i \in 1..(Len(s) - 1) : Tail(s)[i] = s[i + 1]
  BY TailSeq
<1>2. /\ <<e>> \o Tail(s) \in Seq(S) /\ Len(<<e>> \o Tail(s)) = Len(Tail(s)) + 1
      /\ (<<e>> \o Tail(s))[1] = e
      /\ \A i \in 2..(Len(Tail(s)) + 1) : (<<e>> \o Tail(s))[i] = Tail(s)[i - 1]
  BY <1>1, PushSeq
<1> QED
  BY <1>1, <1>2

\* What the assumption says of this application.
LEMMA GraphFacts ==
    ASSUME LoaderShape
    PROVE  /\ graph.tops \subseteq Modules
           /\ \A m \in Modules : /\ Mod(m).imports \in Seq(Modules)
                                 /\ Mod(m).imports \in Seq(Imports(m))
                                 /\ Imports(m) \subseteq Modules
                                 /\ IsSequence(Mod(m).provides) /\ IsSequence(Mod(m).guards)
           /\ \A rank \in LoadOrders(graph.modules) : \A m \in Modules :
                rank[m] \in Int /\ \A k \in Imports(m) : rank[k] < rank[m]
           /\ graph.cyclic \/ \E rank : rank \in LoadOrders(graph.modules)
<1> USE DEF Modules, Mod
<1>1. /\ graph.tops \subseteq Modules /\ (graph.cyclic <=> LoadOrders(graph.modules) = {})
      /\ \A m \in Modules : /\ Mod(m).imports \in Seq(Modules)
                            /\ IsSequence(Mod(m).provides) /\ IsSequence(Mod(m).guards)
  BY LoaderAssumption DEF LoaderShape
<1>2. \A m \in Modules : Mod(m).imports \in Seq(Imports(m)) /\ Imports(m) \subseteq Modules
  <2> SUFFICES ASSUME NEW m \in Modules
               PROVE  Mod(m).imports \in Seq(Imports(m)) /\ Imports(m) \subseteq Modules
    OBVIOUS
  <2>1. Mod(m).imports \in [1..Len(Mod(m).imports) -> Modules] /\ Len(Mod(m).imports) \in Nat
    BY <1>1
  <2>2. Mod(m).imports \in [1..Len(Mod(m).imports) -> Imports(m)]
    BY <2>1 DEF Imports
  <2> QED
    BY <2>1, <2>2, SeqDef DEF Imports
<1>3. \A rank \in LoadOrders(graph.modules) : \A m \in Modules :
        rank[m] \in Int /\ \A k \in Imports(m) : rank[k] < rank[m]
  BY DEF LoadOrders, Imports
<1> QED
  BY <1>1, <1>2, <1>3

\* Frames leave the stack of l, or only their imports and containers change.
DistinctFrames ==
    \A l, k \in Loaders : \A i \in 1..Len(stack[l]) : \A j \in 1..Len(stack[k]) :
       stack[l][i].mod = stack[k][j].mod => l = k /\ i = j

LEMMA FramesDropped ==
    ASSUME LoaderInv, UNCHANGED graph, NEW l \in Loaders, NEW d \in {0, 1},
           stack' \in [Loaders -> Seq(Frames)], \A k \in Loaders \ {l} : stack'[k] = stack[k],
           \A i \in 1..Len(stack'[l]) :
              /\ i + d \in 1..Len(stack[l]) /\ stack'[l][i].mod = stack[l][i + d].mod
              /\ stack'[l][i].todo \in Seq(Imports(stack'[l][i].mod))
              /\ i > 1 => stack'[l][i].todo = stack[l][i + d].todo
    PROVE  WaitInv' /\ OrderInv' /\ DistinctFrames'
<1>0. /\ \A k \in Loaders : Len(stack[k]) \in Nat /\ Len(stack'[k]) \in Nat
      /\ \A m : Imports(m)' = Imports(m)
  BY DEF LoaderInv, LoaderShape, Imports, Mod
<1>1. WaitInv'
  <2> SUFFICES ASSUME NEW k \in Loaders, NEW i \in 1..Len(stack'[k])
               PROVE  /\ stack'[k][i].todo \in Seq(Imports(stack'[k][i].mod))
                      /\ i > 1 => /\ stack'[k][i].todo # <<>>
                                  /\ Head(stack'[k][i].todo) = stack'[k][i - 1].mod
    BY <1>0 DEF WaitInv
  <2>1. CASE k # l
    BY <2>1, <1>0 DEF LoaderInv, WaitInv
  <2>2. CASE k = l /\ i > 1
    <3>1. /\ i - 1 \in 1..Len(stack'[l]) /\ i + d \in 1..Len(stack[l]) /\ i + d > 1
          /\ (i - 1) + d = (i + d) - 1
      BY <2>2, <1>0
    <3>2. stack'[l][i - 1].mod = stack[l][(i + d) - 1].mod
      BY <3>1
    <3>3. /\ stack[l][i + d].todo # <<>>
          /\ Head(stack[l][i + d].todo) = stack[l][(i + d) - 1].mod
      BY <3>1 DEF LoaderInv, WaitInv
    <3>4. /\ stack'[l][i].todo \in Seq(Imports(stack'[l][i].mod))
          /\ stack'[l][i].todo = stack[l][i + d].todo
      BY <2>2
    <3> QED
      BY <2>2, <3>2, <3>3, <3>4
  <2>3. CASE k = l /\ ~(i > 1)
    BY <2>3
  <2> QED
    BY <2>1, <2>2, <2>3
<1>2. OrderInv'
  <2> SUFFICES ASSUME NEW rank \in LoadOrders(graph.modules), NEW k \in Loaders,
                      NEW i \in 1..Len(stack'[k]), NEW j \in 1..Len(stack'[k]), i < j
               PROVE  rank[stack'[k][i].mod] < rank[stack'[k][j].mod]
    BY DEF OrderInv
  <2>1. CASE k # l
    BY <2>1 DEF LoaderInv, OrderInv
  <2>2. CASE k = l
    <3>1. i + d \in 1..Len(stack[l]) /\ j + d \in 1..Len(stack[l]) /\ i + d < j + d
      BY <2>2, <1>0
    <3> QED
      BY <2>2, <3>1 DEF LoaderInv, OrderInv
  <2> QED
    BY <2>1, <2>2
<1>3. DistinctFrames'
  <2> SUFFICES ASSUME NEW k \in Loaders, NEW h \in Loaders, NEW i \in 1..Len(stack'[k]),
                      NEW j \in 1..Len(stack'[h]), stack'[k][i].mod = stack'[h][j].mod
               PROVE  k = h /\ i = j
    BY DEF DistinctFrames
  <2>1. PICK x \in 1..Len(stack[k]) : stack'[k][i].mod = stack[k][x].mod /\ x = IF k = l THEN i + d ELSE i
    BY <1>0
  <2>2. PICK y \in 1..Len(stack[h]) : stack'[h][j].mod = stack[h][y].mod /\ y = IF h = l THEN j + d ELSE j
    BY <1>0
  <2>a. stack[k][x].mod = stack[h][y].mod
    BY <2>1, <2>2
  <2>b. DistinctFrames
    BY DEF LoaderInv, PlaceInv, DistinctFrames
  <2>3. k = h /\ x = y
    BY <2>a, <2>b DEF DistinctFrames
  <2>4. i \in Int /\ j \in Int /\ d \in Int
    OBVIOUS
  <2>5. CASE k = l
    <3>1. x = i + d /\ y = j + d
      BY <2>1, <2>2, <2>3, <2>5
    <3> QED
      BY <3>1, <2>3, <2>4
  <2>6. CASE k # l
    BY <2>1, <2>2, <2>3, <2>6
  <2> QED
    BY <2>5, <2>6
<1> QED
  BY <1>1, <1>2, <1>3

StackInv == LoaderShape /\ WaitInv /\ PlaceInv /\ OrderInv

LEMMA GraphKept ==
    ASSUME UNCHANGED graph
    PROVE  /\ Modules' = Modules /\ Pairs' = Pairs /\ Frames' = Frames
           /\ \A m : Imports(m)' = Imports(m) /\ Mod(m)' = Mod(m)
  BY DEF Modules, Pairs, Kinds, Frames, Imports, Mod

LEMMA MemoFacts ==
    ASSUME LoaderShape, NEW m \in Loaded
    PROVE  <<m, ExportsOf(m)>> \in exports /\ ExportsOf(m) \subseteq Pairs
<1>1. \E e \in exports : e[1] = m
  BY DEF Loaded
<1> DEFINE e == CHOOSE e \in exports : e[1] = m
<1>2. e \in exports /\ e[1] = m
  BY <1>1
<1>3. e \in Modules \X SUBSET Pairs /\ ExportsOf(m) = e[2]
  BY <1>2 DEF LoaderShape, ExportsOf
<1> HIDE DEF e
<1>4. e = <<e[1], e[2]>> /\ e[2] \subseteq Pairs
  BY <1>3
<1> QED
  BY <1>2, <1>3, <1>4

LEMMA TopFacts ==
    ASSUME LoaderInv, NEW l \in Loaders, Busy(l)
    PROVE  /\ stack[l] \in Seq(Frames) /\ Len(stack[l]) \in Nat \ {0}
           /\ Top(l) = stack[l][1] /\ Top(l) \in Frames
           /\ Top(l).todo \in Seq(Imports(Top(l).mod))
<1>1. stack[l] \in Seq(Frames) /\ stack[l] # <<>>
  BY DEF LoaderInv, LoaderShape, Busy
<1>2. Top(l) = stack[l][1] /\ Top(l) \in Frames /\ Len(stack[l]) \in Nat \ {0}
  BY <1>1, TailSeq DEF Top
<1>3. 1 \in 1..Len(stack[l])
  BY <1>2
<1>4. stack[l][1].todo \in Seq(Imports(stack[l][1].mod))
  BY <1>3 DEF LoaderInv, WaitInv
<1> QED
  BY <1>1, <1>2, <1>4

LEMMA PanicStep ==
    ASSUME LoaderInv, UNCHANGED graph, NEW l \in Loaders, NEW why \in {"cycle", "wiring"},
           Panic(l, why)
    PROVE  StackInv'
<1>1. /\ stack' \in [Loaders -> Seq(Frames)] /\ \A k \in Loaders \ {l} : stack'[k] = stack[k]
      /\ stack'[l] = <<>> /\ Len(stack'[l]) = 0
  BY DEF LoaderInv, LoaderShape, Panic
<1>2. WaitInv' /\ OrderInv' /\ DistinctFrames'
  BY <1>1, FramesDropped
<1>3. LoaderShape'
  BY <1>1, GraphKept DEF LoaderInv, LoaderShape, Panic
<1>4. PlaceInv'
  <2>1. exports' = exports /\ Loaded' = Loaded /\ loading' = loading \ FrameMods(l)
    BY DEF Panic, Loaded
  <2>2. ASSUME NEW m \in loading'
        PROVE  \E k \in Loaders : \E i \in 1..Len(stack'[k]) : stack'[k][i].mod = m
    <3>1. PICK k \in Loaders : \E i \in 1..Len(stack[k]) : stack[k][i].mod = m
      BY <2>1, <2>2 DEF LoaderInv, PlaceInv
    <3>2. k # l
      <4>1. stack[l] \in Seq(Frames)
        BY DEF LoaderInv, LoaderShape
      <4>2. DOMAIN stack[l] = 1..Len(stack[l])
        BY <4>1
      <4> QED
        BY <2>1, <2>2, <3>1, <4>2 DEF FrameMods
    <3> QED
      BY <1>1, <3>1, <3>2
  <2>3. ASSUME NEW k \in Loaders, NEW i \in 1..Len(stack'[k])
        PROVE  stack'[k][i].mod \in loading' /\ stack'[k][i].mod \notin Loaded
    <3>1. k # l
      BY <1>1, <2>3
    <3>2. stack'[k] = stack[k] /\ stack[k][i].mod \in loading /\ stack[k][i].mod \notin Loaded
      BY <1>1, <3>1, <2>3 DEF LoaderInv, PlaceInv
    <3>3. stack[k][i].mod \notin FrameMods(l)
      <4>1. stack[l] \in Seq(Frames)
        BY DEF LoaderInv, LoaderShape
      <4>2. DOMAIN stack[l] = 1..Len(stack[l])
        BY <4>1
      <4> QED
        BY <3>1, <3>2, <4>2 DEF FrameMods, LoaderInv, PlaceInv
    <3> QED
      BY <2>1, <3>2, <3>3
  <2>4. \A e, f \in exports' : e[1] = f[1] => e = f
    BY <2>1 DEF LoaderInv, PlaceInv
  <2> QED
    BY <1>2, <2>1, <2>2, <2>3, <2>4 DEF PlaceInv, DistinctFrames
<1> QED
  BY <1>2, <1>3, <1>4 DEF StackInv

LEMMA EnterStep ==
    ASSUME LoaderInv, UNCHANGED graph, NEW l \in Loaders, NEW m \in Modules, EnterNew(l, m),
           Busy(l) => Top(l).todo # <<>> /\ Head(Top(l).todo) = m
    PROVE  StackInv'
<1>0. /\ stack \in [Loaders -> Seq(Frames)] /\ m \notin Loaded /\ m \notin loading
      /\ loading' = loading \cup {m} /\ UNCHANGED <<exports, panicked>> /\ Loaded' = Loaded
  BY DEF LoaderInv, LoaderShape, EnterNew, Loaded
<1>1. /\ Frame(m) \in Frames /\ Frame(m).mod = m
      /\ Frame(m).todo = Mod(m).imports /\ Mod(m).imports \in Seq(Imports(m))
  <2>1. Mod(m).imports \in Seq(Modules) /\ Mod(m).imports \in Seq(Imports(m))
    BY GraphFacts DEF LoaderInv
  <2>2. Snapshot \subseteq Pairs
    BY DEF Snapshot, Pairs, Kinds
  <2> QED
    BY <2>1, <2>2 DEF Frame, Frames
<1>2. /\ stack'[l] \in Seq(Frames) /\ Len(stack'[l]) = Len(stack[l]) + 1
      /\ stack'[l][1] = Frame(m)
      /\ \A i \in 2..(Len(stack[l]) + 1) : stack'[l][i] = stack[l][i - 1]
  <2>1. stack[l] \in Seq(Frames) /\ stack'[l] = <<Frame(m)>> \o stack[l]
    BY <1>0 DEF EnterNew
  <2> QED
    BY <1>1, <2>1, PushSeq
<1>3. /\ stack' \in [Loaders -> Seq(Frames)] /\ \A k \in Loaders \ {l} : stack'[k] = stack[k]
      /\ \A k \in Loaders : Len(stack[k]) \in Nat
  BY <1>0, <1>2 DEF EnterNew
<1> DEFINE Old(k, i) == IF k = l THEN i - 1 ELSE i
<1>9. ASSUME NEW k \in Loaders, NEW i \in 1..Len(stack'[k]), k = l => i > 1
      PROVE  Old(k, i) \in 1..Len(stack[k]) /\ stack'[k][i] = stack[k][Old(k, i)]
  <2>1. CASE k = l
    BY <1>2, <1>3, <1>9, <2>1
  <2>2. CASE k # l
    BY <1>3, <2>2
  <2> QED
    BY <2>1, <2>2
<1>4. LoaderShape'
  BY <1>0, <1>3, GraphKept DEF LoaderInv, LoaderShape
<1>5. Len(stack[l]) > 0 => stack[l][1].todo # <<>> /\ Head(stack[l][1].todo) = m
  <2>1. ASSUME Len(stack[l]) > 0 PROVE stack[l] # <<>> /\ Top(l) = stack[l][1]
    BY <1>0, <2>1, TailSeq DEF Top
  <2> QED
    BY <2>1 DEF Busy
<1>6. WaitInv'
  <2> SUFFICES ASSUME NEW k \in Loaders, NEW i \in 1..Len(stack'[k])
               PROVE  /\ stack'[k][i].todo \in Seq(Imports(stack'[k][i].mod))
                      /\ i > 1 => /\ stack'[k][i].todo # <<>>
                                  /\ Head(stack'[k][i].todo) = stack'[k][i - 1].mod
    BY GraphKept DEF WaitInv
  <2>1. CASE k # l
    BY <1>3, <2>1 DEF LoaderInv, WaitInv
  <2>2. CASE k = l /\ i = 1
    BY <1>1, <1>2, <2>2
  <2>3. CASE k = l /\ i = 2
    <3>1. /\ 1 \in 1..Len(stack[l]) /\ Len(stack[l]) > 0 /\ i - 1 = 1
          /\ stack'[l][i] = stack[l][1] /\ stack'[l][i - 1].mod = m
      BY <1>1, <1>2, <1>3, <2>3
    <3>2. stack[l][1].todo \in Seq(Imports(stack[l][1].mod))
      BY <3>1 DEF LoaderInv, WaitInv
    <3> QED
      BY <1>5, <2>3, <3>1, <3>2
  <2>4. CASE k = l /\ i > 2
    <3>1. /\ i - 1 \in 1..Len(stack[l]) /\ i - 1 > 1 /\ i \in 2..(Len(stack[l]) + 1)
          /\ i - 1 \in 2..(Len(stack[l]) + 1)
      BY <1>2, <1>3, <2>4
    <3>2. stack'[l][i] = stack[l][i - 1] /\ stack'[l][i - 1] = stack[l][(i - 1) - 1]
      BY <1>2, <3>1
    <3> QED
      BY <2>4, <3>1, <3>2 DEF LoaderInv, WaitInv
  <2> QED
    BY <1>3, <2>1, <2>2, <2>3, <2>4
<1>7. PlaceInv'
  <2>1. ASSUME NEW k \in Loaders, NEW i \in 1..Len(stack[k]) PROVE stack[k][i].mod # m
    BY <1>0 DEF LoaderInv, PlaceInv
  <2>2. DistinctFrames'
    <3> SUFFICES ASSUME NEW k \in Loaders, NEW h \in Loaders, NEW i \in 1..Len(stack'[k]),
                        NEW j \in 1..Len(stack'[h]), stack'[k][i].mod = stack'[h][j].mod
                 PROVE  k = h /\ i = j
      BY DEF DistinctFrames
    <3>0. DistinctFrames
      BY DEF LoaderInv, PlaceInv, DistinctFrames
    <3>a. i \in Int /\ j \in Int /\ i >= 1 /\ j >= 1
      BY <1>2, <1>3
    <3>1. CASE k = l /\ ~(i > 1)
      <4>1. i = 1 /\ stack'[k][i].mod = m
        BY <1>1, <1>2, <3>a, <3>1
      <4>2. ~(h = l => j > 1)
        <5> SUFFICES ASSUME h = l => j > 1 PROVE FALSE
          OBVIOUS
        <5>1. Old(h, j) \in 1..Len(stack[h]) /\ stack'[h][j] = stack[h][Old(h, j)]
          BY <1>9
        <5> QED
          BY <2>1, <4>1, <5>1
      <4> QED
        BY <3>a, <3>1, <4>1, <4>2
    <3>2. CASE h = l /\ ~(j > 1)
      <4>1. j = 1 /\ stack'[h][j].mod = m
        BY <1>1, <1>2, <3>a, <3>2
      <4>2. ~(k = l => i > 1)
        <5> SUFFICES ASSUME k = l => i > 1 PROVE FALSE
          OBVIOUS
        <5>1. Old(k, i) \in 1..Len(stack[k]) /\ stack'[k][i] = stack[k][Old(k, i)]
          BY <1>9
        <5> QED
          BY <2>1, <4>1, <5>1
      <4> QED
        BY <3>a, <3>2, <4>1, <4>2
    <3>3. CASE (k = l => i > 1) /\ (h = l => j > 1)
      <4>1. Old(k, i) \in 1..Len(stack[k]) /\ stack'[k][i] = stack[k][Old(k, i)]
        BY <1>9, <3>3
      <4>2. Old(h, j) \in 1..Len(stack[h]) /\ stack'[h][j] = stack[h][Old(h, j)]
        BY <1>9, <3>3
      <4>3. k = h /\ Old(k, i) = Old(h, j)
        <5> HIDE DEF Old
        <5> QED
          BY <3>0, <4>1, <4>2 DEF DistinctFrames
      <4> QED
        BY <3>a, <4>3
    <3> QED
      BY <3>1, <3>2, <3>3
  <2>3. ASSUME NEW x \in loading'
        PROVE  \E k \in Loaders : \E i \in 1..Len(stack'[k]) : stack'[k][i].mod = x
    <3>1. CASE x = m
      BY <1>1, <1>2, <1>3, <3>1
    <3>2. CASE x # m
      <4>0. PICK k \in Loaders : \E i \in 1..Len(stack[k]) : stack[k][i].mod = x
        BY <1>0, <2>3, <3>2 DEF LoaderInv, PlaceInv
      <4>1. PICK i \in 1..Len(stack[k]) : stack[k][i].mod = x
        BY <4>0
      <4>2. CASE k # l
        BY <1>3, <4>1, <4>2
      <4>3. CASE k = l
        <5>1. i + 1 \in 2..(Len(stack[l]) + 1) /\ i + 1 \in 1..Len(stack'[l]) /\ (i + 1) - 1 = i
          BY <1>2, <1>3, <4>3
        <5>2. stack'[l][i + 1] = stack[l][i]
          BY <1>2, <5>1
        <5> QED
          BY <4>1, <4>3, <5>1, <5>2
      <4> QED
        BY <4>2, <4>3
    <3> QED
      BY <3>1, <3>2
  <2>4. ASSUME NEW k \in Loaders, NEW i \in 1..Len(stack'[k])
        PROVE  stack'[k][i].mod \in loading' /\ stack'[k][i].mod \notin Loaded
    <3>1. CASE k = l /\ i = 1
      BY <1>0, <1>1, <1>2, <3>1
    <3>2. CASE k = l => i > 1
      <4>1. Old(k, i) \in 1..Len(stack[k]) /\ stack'[k][i] = stack[k][Old(k, i)]
        BY <1>9, <3>2
      <4> HIDE DEF Old
      <4> QED
        BY <1>0, <4>1 DEF LoaderInv, PlaceInv
    <3> QED
      BY <1>2, <1>3, <3>1, <3>2
  <2> QED
    BY <1>0, <2>2, <2>3, <2>4 DEF LoaderInv, PlaceInv, DistinctFrames
<1>8. OrderInv'
  <2> SUFFICES ASSUME NEW rank \in LoadOrders(graph.modules), NEW k \in Loaders,
                      NEW i \in 1..Len(stack'[k]), NEW j \in 1..Len(stack'[k]), i < j
               PROVE  rank[stack'[k][i].mod] < rank[stack'[k][j].mod]
    BY DEF OrderInv
  <2>1. CASE k # l
    BY <1>3, <2>1 DEF LoaderInv, OrderInv
  <2>2. CASE k = l /\ i > 1
    <3>1. /\ i - 1 \in 1..Len(stack[l]) /\ j - 1 \in 1..Len(stack[l]) /\ i - 1 < j - 1
          /\ stack'[l][i] = stack[l][i - 1] /\ stack'[l][j] = stack[l][j - 1]
      BY <1>2, <1>3, <2>2
    <3> QED
      BY <2>2, <3>1 DEF LoaderInv, OrderInv
  <2>3. CASE k = l /\ i = 1
    <3>1. /\ j - 1 \in 1..Len(stack[l]) /\ stack'[l][j] = stack[l][j - 1] /\ Len(stack[l]) > 0
          /\ stack'[l][i].mod = m
      BY <1>1, <1>2, <1>3, <2>3
    <3>2. /\ stack[l][1] \in Frames /\ stack[l][j - 1] \in Frames
          /\ stack[l][1].todo \in Seq(Imports(stack[l][1].mod)) /\ 1 \in 1..Len(stack[l])
      BY <1>0, <1>3, <3>1 DEF LoaderInv, WaitInv
    <3>3. m \in Imports(stack[l][1].mod)
      BY <1>5, <3>1, <3>2, TailSeq
    <3>4. /\ rank[m] < rank[stack[l][1].mod] /\ rank[m] \in Int /\ rank[stack[l][1].mod] \in Int
          /\ rank[stack[l][j - 1].mod] \in Int
      BY <3>2, <3>3, GraphFacts DEF LoaderInv, Frames
    <3>5. j - 1 = 1 \/ rank[stack[l][1].mod] < rank[stack[l][j - 1].mod]
      BY <3>1, <3>2 DEF LoaderInv, OrderInv
    <3> QED
      BY <2>3, <3>1, <3>4, <3>5
  <2> QED
    BY <1>3, <2>1, <2>2, <2>3
<1> QED
  BY <1>4, <1>6, <1>7, <1>8 DEF StackInv

\* A step that only changes the imports left and the container of the top.
LEMMA TopStep ==
    ASSUME LoaderInv, UNCHANGED <<graph, exports, loading, panicked>>, NEW l \in Loaders, Busy(l),
           NEW f \in Frames, f.mod = Top(l).mod, f.todo \in Seq(Imports(f.mod)),
           stack' = [stack EXCEPT ![l] = <<f>> \o Rest(l)]
    PROVE  StackInv'
<1>0. stack \in [Loaders -> Seq(Frames)] /\ stack[l] # <<>>
  BY DEF LoaderInv, LoaderShape, Busy
<1>1. stack'[l] = <<f>> \o Tail(stack[l])
  BY <1>0 DEF Rest
<1>2. /\ stack'[l] \in Seq(Frames) /\ Len(stack'[l]) = Len(stack[l]) /\ stack'[l][1] = f
      /\ \A i \in 2..Len(stack[l]) : stack'[l][i] = stack[l][i]
      /\ Len(stack[l]) \in Nat \ {0} /\ f.mod = stack[l][1].mod
  <2>1. stack[l] \in Seq(Frames) /\ Len(stack[l]) \in Nat \ {0} /\ Top(l) = stack[l][1]
    BY TopFacts
  <2>2. /\ <<f>> \o Tail(stack[l]) \in Seq(Frames) /\ Len(<<f>> \o Tail(stack[l])) = Len(stack[l])
        /\ (<<f>> \o Tail(stack[l]))[1] = f
        /\ \A i \in 2..Len(stack[l]) : (<<f>> \o Tail(stack[l]))[i] = stack[l][i]
    BY <1>0, <2>1, NewTop
  <2> QED
    BY <1>1, <2>1, <2>2
<1>3. stack' \in [Loaders -> Seq(Frames)] /\ \A k \in Loaders \ {l} : stack'[k] = stack[k]
  BY <1>0, <1>2
<1>4. ASSUME NEW i \in 1..Len(stack'[l])
      PROVE  /\ i + 0 \in 1..Len(stack[l]) /\ stack'[l][i].mod = stack[l][i + 0].mod
             /\ stack'[l][i].todo \in Seq(Imports(stack'[l][i].mod))
             /\ i > 1 => stack'[l][i].todo = stack[l][i + 0].todo
  <2>1. i \in 1..Len(stack[l]) /\ i + 0 = i
    BY <1>2
  <2>2. CASE i = 1
    BY <1>2, <2>1, <2>2
  <2>3. CASE i # 1
    <3>1. stack'[l][i] = stack[l][i]
      BY <1>2, <2>1, <2>3
    <3> QED
      BY <2>1, <3>1 DEF LoaderInv, WaitInv
  <2> QED
    BY <2>2, <2>3
<1>5. WaitInv' /\ OrderInv' /\ DistinctFrames'
  BY <1>3, <1>4, FramesDropped
<1>6. \A k \in Loaders : /\ Len(stack'[k]) = Len(stack[k])
                         /\ \A i \in 1..Len(stack[k]) : stack'[k][i].mod = stack[k][i].mod
  <2>1. \A i \in 1..Len(stack[l]) : stack'[l][i].mod = stack[l][i].mod
    BY <1>2, <1>4
  <2> QED
    BY <1>2, <1>3, <2>1
<1>7. PlaceInv'
  <2>1. Loaded' = Loaded
    BY DEF Loaded
  <2>2. ASSUME NEW m \in loading
        PROVE  \E k \in Loaders : \E i \in 1..Len(stack'[k]) : stack'[k][i].mod = m
    <3>1. PICK k \in Loaders : \E i \in 1..Len(stack[k]) : stack[k][i].mod = m
      BY DEF LoaderInv, PlaceInv
    <3>2. PICK i \in 1..Len(stack[k]) : stack[k][i].mod = m
      BY <3>1
    <3>3. i \in 1..Len(stack'[k]) /\ stack'[k][i].mod = m
      BY <1>6, <3>2
    <3> QED
      BY <3>3
  <2>3. \A k \in Loaders : \A i \in 1..Len(stack'[k]) :
          stack'[k][i].mod \in loading /\ stack'[k][i].mod \notin Loaded
    <3>1. \A k \in Loaders : \A i \in 1..Len(stack[k]) :
            stack[k][i].mod \in loading /\ stack[k][i].mod \notin Loaded
      BY DEF LoaderInv, PlaceInv
    <3> QED
      BY <1>6, <3>1
  <2>4. loading' = loading /\ \A e, f1 \in exports' : e[1] = f1[1] => e = f1
    <3>1. \A e, f1 \in exports : e[1] = f1[1] => e = f1
      BY DEF LoaderInv, PlaceInv
    <3> QED
      BY <3>1
  <2>5. /\ \A m \in loading' : \E k \in Loaders : \E i \in 1..Len(stack'[k]) : stack'[k][i].mod = m
        /\ \A k \in Loaders : \A i \in 1..Len(stack'[k]) :
             stack'[k][i].mod \in loading' /\ stack'[k][i].mod \notin Loaded'
    BY <2>1, <2>2, <2>3, <2>4
  <2>6. DistinctFrames' => \A h, k \in Loaders : \A i \in 1..Len(stack'[h]) : \A j \in 1..Len(stack'[k]) :
                             stack'[h][i].mod = stack'[k][j].mod => h = k /\ i = j
    BY Zenon DEF DistinctFrames
  <2> QED
    BY <1>5, <2>4, <2>5, <2>6 DEF PlaceInv
<1>8. LoaderShape'
  BY <1>3, GraphKept DEF LoaderInv, LoaderShape
<1> QED
  BY <1>5, <1>7, <1>8 DEF StackInv

\* What an importer has when the module above it is done.
LEMMA MergedFrame ==
    ASSUME NEW f \in Frames, f.todo # <<>>, f.todo \in Seq(Imports(f.mod)), NEW pairs, pairs \subseteq Pairs
    PROVE  LET g == [f EXCEPT !.todo = Tail(@), !.have = Put(@, pairs)]
           IN  g \in Frames /\ g.mod = f.mod /\ g.todo \in Seq(Imports(g.mod))
               /\ g.have = Put(f.have, pairs)
<1>1. Tail(f.todo) \in Seq(Modules) /\ Tail(f.todo) \in Seq(Imports(f.mod))
  BY TailSeq DEF Frames
<1>2. Put(f.have, pairs) \subseteq Pairs
  BY DEF Put, Frames
<1> QED
  BY <1>1, <1>2 DEF Frames

LEMMA RecallStep ==
    ASSUME LoaderInv, UNCHANGED graph, NEW l \in Loaders, Busy(l), Top(l).todo # <<>>,
           NEW m, Recall(l, m)
    PROVE  StackInv'
<1> DEFINE f == [Top(l) EXCEPT !.todo = Tail(@), !.have = Put(@, ExportsOf(m))]
<1>1. Top(l) \in Frames /\ Top(l).todo \in Seq(Imports(Top(l).mod)) /\ ExportsOf(m) \subseteq Pairs
  BY TopFacts, MemoFacts DEF Recall, LoaderInv
<1>2. f \in Frames /\ f.mod = Top(l).mod /\ f.todo \in Seq(Imports(f.mod))
  BY <1>1, MergedFrame
<1>3. stack' = [stack EXCEPT ![l] = <<f>> \o Rest(l)] /\ UNCHANGED <<exports, loading, panicked>>
  BY DEF Recall, Merge, Busy, Top, Rest
<1> HIDE DEF f
<1> QED
  BY <1>2, <1>3, TopStep

LEMMA LeaveStep ==
    ASSUME LoaderInv, UNCHANGED <<graph, panicked>>, NEW l \in Loaders, Busy(l),
           NEW out, out \subseteq Pairs,
           exports' = {e \in exports : e[1] # Top(l).mod} \cup {<<Top(l).mod, out>>},
           loading' = loading \ {Top(l).mod},
           stack' = [stack EXCEPT ![l] = Merge(Rest(l), out)]
    PROVE  StackInv'
<1> DEFINE m == Top(l).mod
           s == stack[l]
           t == Tail(stack[l])
<1>0. /\ stack \in [Loaders -> Seq(Frames)] /\ s \in Seq(Frames) /\ s # <<>>
      /\ Len(s) \in Nat \ {0} /\ Top(l) = s[1] /\ m = s[1].mod /\ m \in Modules
      /\ 1 \in 1..Len(s)
  <2>1. stack \in [Loaders -> Seq(Frames)] /\ s # <<>>
    BY DEF LoaderInv, LoaderShape, Busy
  <2>2. s \in Seq(Frames) /\ Len(s) \in Nat \ {0} /\ Top(l) = s[1] /\ Top(l) \in Frames
    BY TopFacts
  <2>3. m = s[1].mod /\ m \in Modules
    BY <2>2 DEF Frames
  <2> HIDE DEF s, m
  <2> QED
    BY <2>1, <2>2, <2>3
<1>1. /\ t \in Seq(Frames) /\ Len(t) = Len(s) - 1
      /\ \A i \in 1..(Len(s) - 1) : t[i] = s[i + 1]
      /\ stack'[l] = Merge(t, out)
  <2>1. stack'[l] = Merge(t, out)
    BY <1>0 DEF Rest
  <2> HIDE DEF s
  <2>2. t = Tail(s)
    BY DEF s
  <2> HIDE DEF t
  <2> QED
    BY <1>0, <2>1, <2>2, TailSeq
<1> HIDE DEF m, s, t
<1>2. /\ stack'[l] \in Seq(Frames) /\ Len(stack'[l]) = Len(s) - 1
      /\ \A i \in 1..(Len(s) - 1) :
           /\ stack'[l][i].mod = s[i + 1].mod
           /\ stack'[l][i].todo \in Seq(Imports(stack'[l][i].mod))
           /\ i > 1 => stack'[l][i].todo = s[i + 1].todo
  <2>1. CASE t = <<>>
    <3>0. Merge(<<>>, out) = <<>>
      BY Zenon DEF Merge
    <3>1. stack'[l] = <<>> /\ Len(t) = 0
      BY <1>1, <2>1, <3>0
    <3>2. Len(s) - 1 = 0 /\ Len(stack'[l]) = 0 /\ stack'[l] \in Seq(Frames)
      BY <1>0, <1>1, <3>1
    <3>b. Len(s) - 1 = 0
      BY <3>2
    <3>3. \A i \in 1..(Len(s) - 1) : FALSE
      <4> SUFFICES ASSUME NEW i \in 1..0 PROVE FALSE
        BY <3>b, Zenon
      <4> QED
        OBVIOUS
    <3> QED
      BY <3>2, <3>3
  <2>2. CASE t # <<>>
    <3> DEFINE g == [Head(t) EXCEPT !.todo = Tail(@), !.have = Put(@, out)]
    <3>1. /\ Head(t) = t[1] /\ Len(t) \in Nat \ {0} /\ 1 \in 1..(Len(s) - 1) /\ t[1] = s[1 + 1]
          /\ 2 \in 1..Len(s) /\ t[1] \in Frames /\ 1 + 1 = 2
      <4>1. Head(t) = t[1] /\ Len(t) \in Nat \ {0} /\ t[1] \in Frames
        BY <1>1, <2>2, TailSeq
      <4>2. 1 \in 1..(Len(s) - 1) /\ 2 \in 1..Len(s)
        BY <1>0, <1>1, <4>1
      <4> QED
        BY <1>1, <4>1, <4>2
    <3>2. s[2].todo # <<>> /\ s[2].todo \in Seq(Imports(s[2].mod))
      BY <3>1 DEF LoaderInv, WaitInv, s
    <3>3. g \in Frames /\ g.mod = s[2].mod /\ g.todo \in Seq(Imports(g.mod))
      BY <3>1, <3>2, MergedFrame
    <3>4. stack'[l] = <<g>> \o Tail(t)
      BY <1>1, <2>2 DEF Merge
    <3> HIDE DEF g
    <3>5. /\ stack'[l] \in Seq(Frames) /\ Len(stack'[l]) = Len(t) /\ stack'[l][1] = g
          /\ \A i \in 2..Len(t) : stack'[l][i] = t[i]
      <4>1. /\ <<g>> \o Tail(t) \in Seq(Frames) /\ Len(<<g>> \o Tail(t)) = Len(t)
            /\ (<<g>> \o Tail(t))[1] = g
            /\ \A i \in 2..Len(t) : (<<g>> \o Tail(t))[i] = t[i]
        BY <1>1, <2>2, <3>3, NewTop
      <4> QED
        BY <3>4, <4>1
    <3>6. ASSUME NEW i \in 1..(Len(s) - 1)
          PROVE  /\ stack'[l][i].mod = s[i + 1].mod
                 /\ stack'[l][i].todo \in Seq(Imports(stack'[l][i].mod))
                 /\ i > 1 => stack'[l][i].todo = s[i + 1].todo
      <4>1. CASE i = 1
        BY <3>1, <3>3, <3>5, <4>1
      <4>2. CASE i # 1
        <5>1. i \in 2..Len(t) /\ i + 1 \in 1..Len(s)
          BY <1>0, <1>1, <4>2
        <5>2. stack'[l][i] = s[i + 1]
          BY <1>1, <3>5, <5>1
        <5> QED
          BY <5>1, <5>2 DEF LoaderInv, WaitInv, s
      <4> QED
        BY <4>1, <4>2
    <3> QED
      BY <1>1, <3>5, <3>6
  <2> QED
    BY <2>1, <2>2
<1>3. stack' \in [Loaders -> Seq(Frames)] /\ \A k \in Loaders \ {l} : stack'[k] = stack[k]
  BY <1>0, <1>2
<1>4. \A i \in 1..Len(stack'[l]) : i + 1 \in 1..Len(s)
  BY <1>0, <1>2
<1>5. WaitInv' /\ OrderInv' /\ DistinctFrames'
  <2>1. \A i \in 1..Len(stack'[l]) :
           /\ i + 1 \in 1..Len(stack[l]) /\ stack'[l][i].mod = stack[l][i + 1].mod
           /\ stack'[l][i].todo \in Seq(Imports(stack'[l][i].mod))
           /\ i > 1 => stack'[l][i].todo = stack[l][i + 1].todo
    BY <1>2, <1>4 DEF s
  <2> QED
    BY <1>3, <2>1, FramesDropped
<1>6. m \notin Loaded /\ exports' = exports \cup {<<m, out>>} /\ Loaded' = Loaded \cup {m}
  <2>1. m \notin Loaded
    BY <1>0 DEF LoaderInv, PlaceInv, s
  <2>2. exports' = exports \cup {<<m, out>>}
    <3>1. exports' = {e \in exports : e[1] # m} \cup {<<m, out>>}
      BY DEF m
    <3>2. \A e \in exports : e[1] # m
      BY <2>1 DEF Loaded
    <3> QED
      BY <3>1, <3>2
  <2> QED
    <3>1. Loaded' = {e[1] : e \in exports \cup {<<m, out>>}}
      BY <2>2 DEF Loaded
    <3>2. Loaded' = Loaded \cup {m}
      <4>1. <<m, out>>[1] = m
        OBVIOUS
      <4>2. \A x : x \in Loaded' <=> x \in Loaded \/ x = m
        BY <3>1, <4>1, Zenon DEF Loaded
      <4> QED
        BY <4>2
    <3> QED
      BY <2>1, <2>2, <3>2
<1>7. LoaderShape'
  <2>1. exports' \subseteq Modules \X SUBSET Pairs
    BY <1>0, <1>6 DEF LoaderInv, LoaderShape
  <2> QED
    BY <1>3, <2>1, GraphKept DEF LoaderInv, LoaderShape
<1>8. PlaceInv'
  <2>0. DistinctFrames
    BY DEF LoaderInv, PlaceInv, DistinctFrames
  <2>1. ASSUME NEW x \in loading'
        PROVE  \E k \in Loaders : \E i \in 1..Len(stack'[k]) : stack'[k][i].mod = x
    <3>1. x \in loading /\ x # m
      BY <2>1 DEF m
    <3>2. PICK k \in Loaders : \E i \in 1..Len(stack[k]) : stack[k][i].mod = x
      BY <3>1 DEF LoaderInv, PlaceInv
    <3>3. PICK i \in 1..Len(stack[k]) : stack[k][i].mod = x
      BY <3>2
    <3>4. CASE k # l
      BY <1>3, <3>3, <3>4
    <3>5. CASE k = l
      <4>1. i - 1 \in 1..(Len(s) - 1) /\ (i - 1) + 1 = i
        BY <1>0, <3>1, <3>3, <3>5 DEF s
      <4>2. stack'[l][i - 1].mod = x
        BY <1>2, <3>3, <3>5, <4>1 DEF s
      <4> QED
        BY <1>2, <4>1, <4>2
    <3> QED
      BY <3>4, <3>5
  <2>2. ASSUME NEW k \in Loaders, NEW i \in 1..Len(stack'[k])
        PROVE  stack'[k][i].mod \in loading' /\ stack'[k][i].mod \notin Loaded'
    <3>1. ASSUME NEW j \in 1..Len(stack[k]), stack'[k][i].mod = stack[k][j].mod, k = l => j # 1
          PROVE  stack'[k][i].mod \in loading' /\ stack'[k][i].mod \notin Loaded'
      <4>1. stack[k][j].mod # m
        BY <1>0, <2>0, <3>1 DEF DistinctFrames, s
      <4>2. stack[k][j].mod \in loading /\ stack[k][j].mod \notin Loaded
        BY DEF LoaderInv, PlaceInv
      <4> QED
        BY <1>6, <3>1, <4>1, <4>2 DEF m
    <3>2. CASE k # l
      BY <1>3, <3>1, <3>2
    <3>3. CASE k = l
      <4>1. i + 1 \in 1..Len(stack[k]) /\ i + 1 # 1 /\ i \in 1..(Len(s) - 1)
        BY <1>0, <1>2, <1>4, <3>3 DEF s
      <4>2. stack'[k][i].mod = stack[k][i + 1].mod
        BY <1>2, <3>3, <4>1 DEF s
      <4> QED
        BY <3>1, <4>1, <4>2
    <3> QED
      BY <3>2, <3>3
  <2>3. \A e, f \in exports' : e[1] = f[1] => e = f
    BY <1>6 DEF LoaderInv, PlaceInv, Loaded
  <2> QED
    BY <1>5, <2>1, <2>2, <2>3 DEF PlaceInv, DistinctFrames
<1> QED
  BY <1>5, <1>7, <1>8 DEF StackInv

\* The frame of a module one of whose providers was built.
Provided(l) ==
    [Top(l) EXCEPT !.at = @ + 1,
       !.have = Put(@, {<<t, Top(l).mod>> : t \in Mod(Top(l).mod).provides[Top(l).at].types})]

LEMMA ProvidedFrame ==
    ASSUME LoaderInv, NEW l \in Loaders, Busy(l), Top(l).at <= Len(Mod(Top(l).mod).provides)
    PROVE  /\ Provided(l) \in Frames
           /\ Provided(l).mod = Top(l).mod /\ Provided(l).todo = Top(l).todo
           /\ \A p \in Provided(l).have : p \in Top(l).have \/ p[2] = Top(l).mod
<1> DEFINE new == {<<t, Top(l).mod>> : t \in Mod(Top(l).mod).provides[Top(l).at].types}
           h == Put(Top(l).have, new)
<1>2. /\ Top(l) \in Frames /\ Top(l).mod \in Modules /\ Top(l).at \in Nat \ {0}
      /\ Top(l).have \subseteq Pairs
  BY TopFacts DEF Frames
<1>3. new \subseteq Pairs /\ \A p \in new : p[2] = Top(l).mod
  <2>1. IsSequence(Mod(Top(l).mod).provides)
    BY <1>2, GraphFacts DEF LoaderInv
  <2>2. Top(l).at \in DOMAIN Mod(Top(l).mod).provides
    BY <1>2, <2>1 DEF IsSequence
  <2>3. Mod(Top(l).mod).provides[Top(l).at].types \subseteq Kinds
    BY <1>2, <2>2 DEF Kinds
  <2> QED
    BY <1>2, <2>3 DEF Pairs
<1> HIDE DEF new
<1>4. h \subseteq Pairs /\ \A p \in h : p \in Top(l).have \/ p \in new
  BY <1>2, <1>3 DEF Put
<1>5. Provided(l) = [Top(l) EXCEPT !.at = @ + 1, !.have = h]
  BY DEF Provided, new
<1>6. Top(l).at + 1 \in Nat \ {0}
  BY <1>2
<1> HIDE DEF h
<1>7. Provided(l) \in Frames /\ Provided(l).mod = Top(l).mod /\ Provided(l).todo = Top(l).todo
      /\ Provided(l).have = h
  BY <1>2, <1>4, <1>5, <1>6 DEF Frames
<1> QED
  BY <1>3, <1>4, <1>7

\* A loader's step, by what it does to the frames of the loader.
LEMMA LoaderStackStep ==
    ASSUME LoaderInv, NEW l \in Loaders, LoaderStep(l)
    PROVE  StackInv' /\ UNCHANGED graph
<1>0. UNCHANGED graph
  BY DEF LoaderStep, LoadModule, Import, Provide, Control, Leave
<1>1. CASE \E why \in {"cycle", "wiring"} : Panic(l, why)
  BY <1>0, <1>1, PanicStep
<1>2. CASE LoadModule(l)
  <2>1. PICK m \in graph.tops : EnterNew(l, m) \/ Circular(l, m)
    BY <1>2 DEF LoadModule
  <2>2. m \in Modules /\ ~Busy(l)
    BY <1>2, GraphFacts DEF LoaderInv, LoadModule
  <2>3. CASE EnterNew(l, m)
    BY <1>0, <2>2, <2>3, EnterStep
  <2> QED
    BY <1>1, <2>1, <2>3 DEF Circular
<1>3. CASE Import(l)
  <2> DEFINE m == Head(Top(l).todo)
  <2>1. /\ Busy(l) /\ Top(l).todo # <<>>
        /\ EnterNew(l, m) \/ Recall(l, m) \/ Circular(l, m)
    BY <1>3 DEF Import
  <2>2. Top(l).todo \in Seq(Modules)
    BY <2>1, TopFacts DEF Frames
  <2>3. m \in Modules
    BY <2>1, <2>2, TailSeq
  <2> HIDE DEF m
  <2>4. CASE EnterNew(l, m)
    BY <1>0, <2>1, <2>3, <2>4, EnterStep DEF m
  <2>5. CASE Recall(l, m)
    BY <1>0, <2>1, <2>5, RecallStep
  <2> QED
    BY <1>1, <2>1, <2>4, <2>5 DEF Circular
<1>4. CASE Provide(l)
  <2>1. /\ Busy(l) /\ Top(l).at <= Len(Mod(Top(l).mod).provides)
        /\ \/ Become(l, Provided(l)) /\ UNCHANGED <<exports, loading, panicked>>
           \/ Panic(l, "wiring")
    BY <1>4 DEF Provide, Provided
  <2>2. /\ Provided(l) \in Frames /\ Provided(l).mod = Top(l).mod
        /\ Provided(l).todo \in Seq(Imports(Provided(l).mod))
    BY <2>1, TopFacts, ProvidedFrame
  <2>3. CASE Become(l, Provided(l)) /\ UNCHANGED <<exports, loading, panicked>>
    BY <1>0, <2>1, <2>2, <2>3, TopStep DEF Become
  <2> QED
    BY <1>1, <2>1, <2>3
<1>5. CASE Control(l)
  <2> DEFINE f == [Top(l) EXCEPT !.at = @ + 1]
  <2>1. /\ Busy(l)
        /\ \/ Become(l, f) /\ UNCHANGED <<exports, loading, panicked>>
           \/ Panic(l, "wiring")
    BY <1>5, Zenon DEF Control, AtControllers
  <2>2. /\ Top(l) \in Frames /\ Top(l).todo \in Seq(Imports(Top(l).mod))
    BY <2>1, TopFacts
  <2>3. f \in Frames /\ f.mod = Top(l).mod /\ f.todo = Top(l).todo
    <3>1. Top(l).at \in Nat \ {0}
      BY <2>2 DEF Frames
    <3>2. Top(l).at + 1 \in Nat \ {0}
      BY <3>1
    <3> QED
      BY <2>2, <3>2 DEF Frames
  <2>4. CASE Become(l, f) /\ UNCHANGED <<exports, loading, panicked>>
    <3> HIDE DEF f
    <3> QED
      BY <1>0, <2>1, <2>2, <2>3, <2>4, TopStep DEF Become
  <2> QED
    BY <1>1, <2>1, <2>4
<1>6. CASE Leave(l)
  <2> DEFINE out == {p \in Top(l).have : p[1] \in Mod(Top(l).mod).exports}
  <2>1. /\ Busy(l)
        /\ \/ /\ exports' = {e \in exports : e[1] # Top(l).mod} \cup {<<Top(l).mod, out>>}
              /\ loading' = loading \ {Top(l).mod}
              /\ stack' = [stack EXCEPT ![l] = Merge(Rest(l), out)]
              /\ UNCHANGED panicked
           \/ Panic(l, "wiring")
    BY <1>6 DEF Leave
  <2>2. out \subseteq Pairs
    BY <2>1, TopFacts DEF Frames
  <2> HIDE DEF out
  <2> QED
    BY <1>0, <1>1, <2>1, <2>2, LeaveStep
<1> QED
  BY <1>2, <1>3, <1>4, <1>5, <1>6 DEF LoaderStep

\* A lone loader that meets a module in loading meets it below itself.
LEMMA CircularStep ==
    ASSUME LoaderInv, NEW l \in Loaders, NEW m, Circular(l, m),
           Busy(l) => Top(l).todo # <<>> /\ Head(Top(l).todo) = m
    PROVE  graph.cyclic \/ overlapped'
<1> SUFFICES ASSUME ~graph.cyclic, ~overlapped' PROVE FALSE
  OBVIOUS
<1>1. \A k \in Loaders \ {l} : stack[k] = <<>>
  BY DEF Circular, Busy
<1>2. PICK k \in Loaders : \E i \in 1..Len(stack[k]) : stack[k][i].mod = m
  BY DEF Circular, LoaderInv, PlaceInv
<1>3. PICK i \in 1..Len(stack[k]) : stack[k][i].mod = m
  BY <1>2
<1>4. k = l /\ Busy(l)
  <2>1. stack[k] # <<>>
    BY <1>3
  <2> QED
    BY <1>1, <2>1 DEF Busy
<1>5. PICK rank : rank \in LoadOrders(graph.modules)
  BY GraphFacts DEF LoaderInv
<1>6. /\ Top(l) = stack[l][1] /\ stack[l][1].mod \in Modules /\ m \in Imports(stack[l][1].mod)
      /\ 1 \in 1..Len(stack[l])
  <2>1. /\ Len(stack[l]) \in Nat \ {0} /\ Top(l) = stack[l][1] /\ Top(l) \in Frames
        /\ Top(l).todo \in Seq(Imports(Top(l).mod))
    BY <1>4, TopFacts
  <2>2. m \in Imports(Top(l).mod)
    BY <1>4, <2>1, TailSeq
  <2> QED
    BY <2>1, <2>2 DEF Frames
<1>7. rank[m] < rank[stack[l][1].mod] /\ rank[m] \in Int /\ rank[stack[l][1].mod] \in Int
  BY <1>5, <1>6, GraphFacts DEF LoaderInv
<1>8. i = 1 \/ rank[stack[l][1].mod] < rank[stack[l][i].mod]
  BY <1>3, <1>4, <1>5, <1>6 DEF LoaderInv, OrderInv
<1> QED
  BY <1>3, <1>4, <1>7, <1>8

LEMMA CycleInvStep ==
    ASSUME LoaderInv, NEW l \in Loaders, LoaderStep(l)
    PROVE  CycleInv'
<1>0. /\ UNCHANGED graph /\ panicked \in [Loaders -> {"no", "cycle", "wiring"}]
      /\ overlapped => overlapped'
  <2>1. UNCHANGED graph /\ panicked \in [Loaders -> {"no", "cycle", "wiring"}]
    BY DEF LoaderInv, LoaderShape, LoaderStep, LoadModule, Import, Provide, Control, Leave
  <2>2. \/ UNCHANGED overlapped
        \/ overlapped' = (overlapped \/ \E k \in Loaders \ {l} : Busy(k))
    BY DEF LoaderStep, LoadModule, Import, Provide, Control, Leave, EnterNew, Recall, Circular
  <2>3. overlapped => overlapped'
    BY <2>2, Zenon
  <2> QED
    BY <2>1, <2>3
<1>1. CASE UNCHANGED panicked \/ Panic(l, "wiring")
  BY <1>0, <1>1 DEF Panic, LoaderInv, CycleInv
<1>2. CASE \E m : Circular(l, m) /\ (Busy(l) => Top(l).todo # <<>> /\ Head(Top(l).todo) = m)
  <2>1. graph.cyclic \/ overlapped'
    BY <1>2, CircularStep
  <2> QED
    BY <1>0, <2>1 DEF CycleInv
<1>3. CASE LoadModule(l)
  BY <1>1, <1>2, <1>3 DEF LoadModule, EnterNew
<1>4. CASE Import(l)
  BY <1>1, <1>2, <1>4 DEF Import, EnterNew, Recall
<1>5. CASE Provide(l) \/ Control(l) \/ Leave(l)
  BY <1>1, <1>5 DEF Provide, Control, Leave
<1> QED
  BY <1>3, <1>4, <1>5 DEF LoaderStep

LEMMA RouteInvStep ==
    ASSUME LoaderInv, NEW l \in Loaders, LoaderStep(l)
    PROVE  RouteInv'
<1>0. UNCHANGED <<graph, observers, globals>> /\ Modules' = Modules /\ \A m : Mod(m)' = Mod(m)
  BY DEF LoaderStep, LoadModule, Import, Provide, Control, Leave, Modules, Mod
<1>1. CASE UNCHANGED <<routes, controllers, told>>
  BY <1>0, <1>1 DEF LoaderInv, RouteInv
<1>2. CASE Control(l) /\ ~UNCHANGED <<routes, controllers, told>>
  <2> DEFINE m == Top(l).mod
  <2>1. /\ \A r \in routes : r.path # Mod(m).route
        /\ routes' = routes \cup {RouteOf(m)} /\ controllers' = controllers \cup {m}
        /\ told' = [o \in Observers |-> IF o \in observers THEN [told[o] EXCEPT ![m] = @ + 1]
                                                           ELSE told[o]]
    BY <1>2, Zenon DEF Control
  <2>2. RouteOf(m).of = m /\ RouteOf(m).path = Mod(m).route
    BY DEF RouteOf
  <2> HIDE DEF m
  <2>3. m \notin controllers
    BY <2>1 DEF LoaderInv, RouteInv
  <2>4. told' \in [Observers -> [Modules -> Nat]]
    <3>1. told \in [Observers -> [Modules -> Nat]]
      BY DEF LoaderInv, RouteInv
    <3>2. ASSUME NEW f \in [Modules -> Nat] PROVE [f EXCEPT ![m] = @ + 1] \in [Modules -> Nat]
      <4>1. CASE m \in Modules
        BY <4>1
      <4>2. CASE m \notin Modules
        BY <4>2
      <4> QED
        BY <4>1, <4>2
    <3> QED
      BY <2>1, <3>1, <3>2
  <2>5. ASSUME NEW o \in Observers, NEW x \in Modules
        PROVE  told'[o][x] = IF o \in observers /\ x \in controllers' THEN 1 ELSE 0
    <3>1. told[o] \in [Modules -> Nat]
          /\ told[o][x] = IF o \in observers /\ x \in controllers THEN 1 ELSE 0
      BY DEF LoaderInv, RouteInv
    <3>2. CASE o \in observers /\ x = m
      BY <2>1, <2>3, <3>1, <3>2
    <3>3. CASE o \notin observers \/ x # m
      BY <2>1, <3>1, <3>3
    <3> QED
      BY <3>2, <3>3
  <2>6. /\ \A r \in routes' : r.path = Mod(r.of).route
        /\ \A r, s \in routes' : r.path = s.path => r = s
        /\ \A x \in controllers' : \E r \in routes' : r.of = x
    BY <2>1, <2>2 DEF LoaderInv, RouteInv
  <2> QED
    BY <1>0, <2>4, <2>5, <2>6 DEF LoaderInv, RouteInv
<1> QED
  BY <1>1, <1>2 DEF LoaderStep, LoadModule, Import, Provide, Leave

\* A mark is made when a construction begins, and lasts into the memo.
LEMMA BuiltInvStep ==
    ASSUME LoaderInv, NEW l \in Loaders, LoaderStep(l)
    PROVE  BuiltInv'
<1>0. UNCHANGED graph /\ Modules' = Modules
  BY DEF LoaderStep, LoadModule, Import, Provide, Control, Leave, Modules
<1>1. /\ built \in [Modules -> Int]
      /\ \A m \in Modules : built[m] = IF m \in Loaded \cup loading THEN 1 ELSE 0
  BY DEF LoaderInv, BuiltInv
<1>2. CASE UNCHANGED <<exports, loading, built>>
  BY <1>0, <1>1, <1>2 DEF BuiltInv, Loaded
<1>3. CASE \E why : Panic(l, why)
  <2>1. /\ built' = [m \in Modules |-> IF m \in FrameMods(l) THEN built[m] - 1 ELSE built[m]]
        /\ loading' = loading \ FrameMods(l) /\ Loaded' = Loaded
    <3>1. DOMAIN built = Modules
      BY <1>1
    <3> QED
      BY <1>3, <3>1 DEF Panic, Loaded
  <2>2. \A m \in FrameMods(l) : m \in loading /\ m \notin Loaded
    <3>1. stack[l] \in Seq(Frames)
      BY DEF LoaderInv, LoaderShape
    <3>2. DOMAIN stack[l] = 1..Len(stack[l])
      BY <3>1
    <3> QED
      BY <3>2 DEF LoaderInv, PlaceInv, FrameMods
  <2>3. built' \in [Modules -> Int]
    BY <1>1, <2>1
  <2>4. ASSUME NEW m \in Modules
        PROVE  built'[m] = IF m \in Loaded' \cup loading' THEN 1 ELSE 0
    BY <1>1, <2>1, <2>2
  <2> QED
    BY <1>0, <2>3, <2>4 DEF BuiltInv
<1>4. CASE \E m \in Modules : EnterNew(l, m)
  <2>1. PICK m \in Modules : EnterNew(l, m)
    BY <1>4
  <2>2. /\ m \notin Loaded /\ m \notin loading /\ loading' = loading \cup {m}
        /\ built' = [built EXCEPT ![m] = @ + 1] /\ Loaded' = Loaded
    BY <2>1 DEF EnterNew, Loaded
  <2>3. built' \in [Modules -> Int]
    BY <1>1, <2>2
  <2>4. ASSUME NEW x \in Modules
        PROVE  built'[x] = IF x \in Loaded' \cup loading' THEN 1 ELSE 0
    BY <1>1, <2>2
  <2> QED
    BY <1>0, <2>3, <2>4 DEF BuiltInv
<1>5. CASE LoadModule(l)
  <2>1. PICK m \in graph.tops : EnterNew(l, m) \/ Circular(l, m)
    BY <1>5 DEF LoadModule
  <2>2. m \in Modules
    BY GraphFacts DEF LoaderInv
  <2> QED
    BY <1>3, <1>4, <2>1, <2>2 DEF Circular
<1>6. CASE Import(l)
  <2> DEFINE m == Head(Top(l).todo)
  <2>1. /\ Busy(l) /\ Top(l).todo # <<>>
        /\ EnterNew(l, m) \/ Recall(l, m) \/ Circular(l, m)
    BY <1>6 DEF Import
  <2>2. Top(l).todo \in Seq(Modules)
    BY <2>1, TopFacts DEF Frames
  <2>3. m \in Modules
    BY <2>1, <2>2, TailSeq
  <2> HIDE DEF m
  <2> QED
    BY <1>2, <1>3, <1>4, <2>1, <2>3 DEF Circular, Recall
<1>7. CASE Provide(l) \/ Control(l)
  BY <1>2, <1>3, <1>7, Zenon DEF Provide, Control
<1>8. CASE Leave(l)
  <2> DEFINE m == Top(l).mod
  <2>1. CASE /\ \E out : exports' = {e \in exports : e[1] # m} \cup {<<m, out>>}
             /\ loading' = loading \ {m} /\ UNCHANGED built
    <3>1. m \in loading
      <4>1. Len(stack[l]) \in Nat \ {0} /\ m = stack[l][1].mod
        BY <1>8, TopFacts DEF Leave
      <4>2. 1 \in 1..Len(stack[l])
        BY <4>1
      <4> QED
        BY <4>1, <4>2 DEF LoaderInv, PlaceInv
    <3> HIDE DEF m
    <3>2. PICK out : exports' = {e \in exports : e[1] # m} \cup {<<m, out>>}
      BY <2>1
    <3>3. \A x : x \in Loaded' <=> x \in Loaded \/ x = m
      <4>1. <<m, out>>[1] = m
        OBVIOUS
      <4>2. Loaded' = {e[1] : e \in {e \in exports : e[1] # m} \cup {<<m, out>>}}
        BY <3>2 DEF Loaded
      <4> QED
        BY <4>1, <4>2, Zenon DEF Loaded
    <3>4. \A x : x \in Loaded' \cup loading' <=> x \in Loaded \cup loading
      BY <2>1, <3>1, <3>3
    <3> QED
      BY <1>0, <1>1, <2>1, <3>4 DEF BuiltInv
  <2> QED
    BY <1>3, <1>8, <2>1 DEF Leave
<1> QED
  BY <1>5, <1>6, <1>7, <1>8 DEF LoaderStep

LEMMA OnControllerStep ==
    ASSUME LoaderInv, NEW o \in Observers, OnController(o) PROVE LoaderInv'
<1>0. /\ UNCHANGED <<graph, stack, exports, loading, panicked, routes, controllers, overlapped,
                   built>>
      /\ observers' = observers \cup {o} /\ o \notin observers
      /\ told' = [told EXCEPT ![o] =
                    [m \in DOMAIN @ |-> @[m] + (IF m \in controllers THEN 1 ELSE 0)]]
  BY DEF OnController
<1>1. (LoaderShape /\ WaitInv /\ PlaceInv /\ OrderInv /\ CycleInv /\ BuiltInv)'
  BY <1>0, GraphKept
     DEF LoaderInv, LoaderShape, WaitInv, PlaceInv, OrderInv, CycleInv, BuiltInv, Loaded
<1>2. told \in [Observers -> [Modules -> Nat]]
  BY DEF LoaderInv, RouteInv
<1>3. told'[o] = [m \in Modules |-> told[o][m] + (IF m \in controllers THEN 1 ELSE 0)]
      /\ \A q \in Observers \ {o} : told'[q] = told[q]
  BY <1>0, <1>2
<1>4. told' \in [Observers -> [Modules -> Nat]]
  <2>1. told'[o] \in [Modules -> Nat]
    BY <1>2, <1>3
  <2> QED
    BY <1>0, <1>2, <2>1
<1>5. ASSUME NEW q \in Observers, NEW x \in Modules
      PROVE  told'[q][x] = IF q \in observers' /\ x \in controllers THEN 1 ELSE 0
  <2>1. told[q][x] = IF q \in observers /\ x \in controllers THEN 1 ELSE 0
    BY DEF LoaderInv, RouteInv
  <2>2. CASE q = o
    BY <1>0, <1>3, <2>1, <2>2
  <2>3. CASE q # o
    BY <1>0, <1>3, <2>1, <2>3
  <2> QED
    BY <2>2, <2>3
<1>6. RouteInv'
  BY <1>0, <1>4, <1>5, GraphKept DEF LoaderInv, RouteInv
<1> QED
  BY <1>1, <1>6 DEF LoaderInv

LEMMA LoaderInvStep ==
    ASSUME LoaderInv, [Next]_vars PROVE LoaderInv'
<1>1. ASSUME NEW l \in Loaders, LoaderStep(l) PROVE LoaderInv'
  BY <1>1, LoaderStackStep, CycleInvStep, RouteInvStep, BuiltInvStep DEF StackInv, LoaderInv
<1>2. CASE UNCHANGED <<graph, stack, exports, loading, panicked, routes, controllers, observers,
                       told, overlapped, built>>
  BY <1>2, GraphKept
     DEF LoaderInv, LoaderShape, WaitInv, PlaceInv, OrderInv, CycleInv, RouteInv, BuiltInv, Loaded
<1>3. CASE Bootstrap
  BY <1>1, <1>2, <1>3, OnControllerStep DEF Bootstrap, UseRateLimit, Use
<1>4. CASE ~Bootstrap
  <2>1. UNCHANGED loaderVars
    BY <1>4 DEF Next, Life, Arrive, RequestStep, BodyLimit, RateLimit, Guard, Handle, vars
  <2> QED
    BY <1>2, <2>1 DEF loaderVars
<1> QED
  BY <1>3, <1>4

LEMMA LoaderInvInit == ASSUME Init PROVE LoaderInv
<1>1. /\ graph \in Graphs /\ stack = [l \in Loaders |-> <<>>] /\ exports = {} /\ loading = {}
      /\ panicked = [l \in Loaders |-> "no"] /\ routes = {} /\ controllers = {} /\ observers = {}
      /\ told = [o \in Observers |-> [m \in Modules |-> 0]] /\ built = [m \in Modules |-> 0]
  BY DEF Init, LoaderInit, Modules
<1>2. stack \in [Loaders -> Seq(Frames)] /\ \A l \in Loaders : Len(stack[l]) = 0
  BY <1>1
<1>3. LoaderShape
  BY <1>1, <1>2 DEF LoaderShape
<1>4. WaitInv /\ OrderInv /\ CycleInv
  BY <1>1, <1>2 DEF WaitInv, OrderInv, CycleInv
<1>5. PlaceInv
  BY <1>1, <1>2 DEF PlaceInv
<1>6. RouteInv
  BY <1>1 DEF RouteInv
<1>7. BuiltInv
  BY <1>1 DEF BuiltInv, Loaded
<1> QED
  BY <1>3, <1>4, <1>5, <1>6, <1>7 DEF LoaderInv

(* Any number of goroutines that load any modules keep the loader's        *)
(* invariant.                                                              *)
THEOREM LoaderInvariant == Spec => []LoaderInv
<1>1. LoaderInv /\ [Next]_vars => LoaderInv'
  BY LoaderInvStep
<1> QED
  BY <1>1, LoaderInvInit, PTL DEF Spec

(* For any import graph and any number of loaders: no module is built a    *)
(* second time beside or after a construction that was not given up        *)
(* (loadModule's memo and its marks), and a cycle is reported only when no *)
(* order of the modules puts imports first, or when another goroutine was  *)
(* loading at the same time.                                               *)
THEOREM ModulesOnce == Spec => []EachModuleOnce
<1>1. LoaderInv => EachModuleOnce
  <2> SUFFICES ASSUME LoaderInv PROVE EachModuleOnce
    OBVIOUS
  <2>1. \A m \in DOMAIN built : built[m] <= 1
    BY DEF LoaderInv, BuiltInv
  <2> QED
    BY <2>1 DEF LoaderInv, CycleInv, EachModuleOnce
<1> QED
  BY <1>1, LoaderInvariant, PTL

(* For any observers, however OnController and the registration of         *)
(* controllers interleave, an observer is told once of each controller,    *)
(* whichever came first (OnController, notifyControllerObservers).         *)
THEOREM ControllersHeardOnce == Spec => []EveryControllerHeardOnce
<1>1. LoaderInv => EveryControllerHeardOnce
  BY DEF LoaderInv, RouteInv, EveryControllerHeardOnce
<1> QED
  BY <1>1, LoaderInvariant, PTL

-----------------------------------------------------------------------------
(***************************************************************************)
(* What a container holds.  The entries of the memo are never replaced, so *)
(* that what a module may hold only grows.                                 *)
(***************************************************************************)
Elems(s) == {s[i] : i \in DOMAIN s}
Holds(f) == \A p \in f.have : MayHold(f.mod, p)

LEMMA ElemsPush ==
    ASSUME NEW S, NEW s \in Seq(S), NEW e \in S PROVE Elems(<<e>> \o s) \subseteq {e} \cup Elems(s)
<1> DEFINE t == <<e>> \o s
<1>1. /\ t \in Seq(S) /\ Len(t) = Len(s) + 1 /\ t[1] = e
      /\ \A i \in 2..(Len(s) + 1) : t[i] = s[i - 1]
  BY PushSeq
<1> HIDE DEF t
<1>2. ASSUME NEW i \in DOMAIN t PROVE t[i] \in {e} \cup Elems(s)
  <2>1. i \in 1..(Len(s) + 1) /\ Len(s) \in Nat
    BY <1>1, <1>2
  <2>2. CASE i = 1
    BY <1>1, <2>2
  <2>3. CASE i # 1
    <3>1. i \in 2..(Len(s) + 1) /\ i - 1 \in 1..Len(s) /\ DOMAIN s = 1..Len(s)
      BY <2>1, <2>3
    <3> QED
      BY <1>1, <3>1 DEF Elems
  <2> QED
    BY <2>2, <2>3
<1> QED
  BY <1>2 DEF Elems, t

LEMMA ElemsTail ==
    ASSUME NEW S, NEW s \in Seq(S), s # <<>> PROVE Elems(Tail(s)) \subseteq Elems(s)
<1> DEFINE t == Tail(s)
<1>1. /\ t \in Seq(S) /\ Len(t) = Len(s) - 1 /\ Len(s) \in Nat \ {0}
      /\ \A i \in 1..(Len(s) - 1) : t[i] = s[i + 1]
  BY TailSeq
<1> HIDE DEF t
<1>2. ASSUME NEW i \in DOMAIN t PROVE t[i] \in Elems(s)
  <2>1. i \in 1..(Len(s) - 1) /\ i + 1 \in DOMAIN s
    BY <1>1, <1>2
  <2> QED
    BY <1>1, <2>1 DEF Elems
<1> QED
  BY <1>2 DEF Elems, t

LEMMA MemoEntry ==
    ASSUME NEW E, NEW A, NEW B, E \subseteq A \X B, NEW m, m \in {e[1] : e \in E}
    PROVE  <<m, (CHOOSE e \in E : e[1] = m)[2]>> \in E
<1> DEFINE c == CHOOSE e \in E : e[1] = m
<1>1. \E e \in E : e[1] = m
  OBVIOUS
<1>2. c \in E /\ c[1] = m
  BY <1>1
<1> HIDE DEF c
<1>3. c \in A \X B
  BY <1>2
<1>4. c = <<c[1], c[2]>>
  BY <1>3
<1>5. <<m, c[2]>> \in E
  BY <1>2, <1>4
<1> QED
  BY <1>5 DEF c

LEMMA MayHoldKept ==
    ASSUME LoaderInv, LoaderInv', UNCHANGED graph, exports \subseteq exports',
           NEW m, NEW p, MayHold(m, p)
    PROVE  MayHold(m, p)'
<1>1. ASSUME NEW k \in Loaded PROVE k \in Loaded' /\ ExportsOf(k)' = ExportsOf(k)
  <2>1. k \in Loaded'
    BY <1>1 DEF Loaded
  <2>2. <<k, ExportsOf(k)>> \in exports
    BY <1>1, MemoFacts DEF LoaderInv
  <2>3. <<k, ExportsOf(k)'>> \in exports'
    <3>1. exports' \subseteq Modules' \X SUBSET Pairs'
      BY DEF LoaderInv, LoaderShape
    <3> QED
      BY <2>1, <3>1, MemoEntry DEF Loaded, ExportsOf
  <2>4. \A e, f \in exports' : e[1] = f[1] => e = f
    BY DEF LoaderInv, PlaceInv
  <2>5. <<k, ExportsOf(k)>> = <<k, ExportsOf(k)'>>
    BY <2>2, <2>3, <2>4
  <2> QED
    BY <2>1, <2>5
<1>2. Mod(m)' = Mod(m)
  BY DEF Mod
<1> QED
  BY <1>1, <1>2 DEF MayHold

LEMMA HeldByFrames ==
    PrivateStaysPrivate <=> /\ \A l \in Loaders : \A f \in Elems(stack[l]) : Holds(f)
                            /\ \A e \in exports : \A p \in e[2] : MayHold(e[1], p)
  BY DEF PrivateStaysPrivate, Elems, Holds

LEMMA PrivateStep ==
    ASSUME LoaderInv, LoaderInv', PrivateStaysPrivate, NEW l \in Loaders, LoaderStep(l)
    PROVE  PrivateStaysPrivate'
<1>0. UNCHANGED graph
  BY DEF LoaderStep, LoadModule, Import, Provide, Control, Leave
<1>1. /\ \A k \in Loaders : \A f \in Elems(stack[k]) : Holds(f)
      /\ \A e \in exports : \A p \in e[2] : MayHold(e[1], p)
      /\ stack \in [Loaders -> Seq(Frames)]
  BY HeldByFrames DEF LoaderInv, LoaderShape
<1>2. ASSUME exports \subseteq exports',
             \A k \in Loaders \ {l} : stack'[k] = stack[k],
             \A f \in Elems(stack'[l]) : f \in Elems(stack[l]) \/ Holds(f)',
             \A e \in exports' : e \in exports \/ \A p \in e[2] : MayHold(e[1], p)'
      PROVE  PrivateStaysPrivate'
  <2>1. \A m, p : MayHold(m, p) => MayHold(m, p)'
    BY <1>0, <1>2, MayHoldKept
  <2>2. ASSUME NEW k \in Loaders, NEW f \in Elems(stack'[k]) PROVE Holds(f)'
    <3>1. f \in Elems(stack[k]) \/ Holds(f)'
      BY <1>2, <2>2
    <3>2. CASE f \in Elems(stack[k])
      BY <1>1, <2>1, <3>2 DEF Holds
    <3> QED
      BY <3>1, <3>2
  <2>3. \A e \in exports' : \A p \in e[2] : MayHold(e[1], p)'
    BY <1>1, <1>2, <2>1
  <2> QED
    BY <2>2, <2>3 DEF PrivateStaysPrivate, Elems, Holds
<1> DEFINE t == Rest(l)
<1>3. Busy(l) => /\ Top(l) \in Elems(stack[l]) /\ Holds(Top(l)) /\ Top(l) \in Frames
                 /\ t \in Seq(Frames) /\ Elems(t) \subseteq Elems(stack[l])
                 /\ Top(l).todo \in Seq(Imports(Top(l).mod))
  <2> SUFFICES ASSUME Busy(l) PROVE <1>3!2
    OBVIOUS
  <2>1. /\ stack[l] \in Seq(Frames) /\ stack[l] # <<>> /\ Len(stack[l]) \in Nat \ {0}
        /\ Top(l) = stack[l][1] /\ Top(l) \in Frames
        /\ Top(l).todo \in Seq(Imports(Top(l).mod))
    BY TopFacts DEF Busy
  <2>2. Top(l) \in Elems(stack[l])
    BY <2>1 DEF Elems
  <2>3. t \in Seq(Frames) /\ Elems(t) \subseteq Elems(stack[l])
    BY <2>1, TailSeq, ElemsTail DEF Rest
  <2> QED
    BY <1>1, <2>1, <2>2, <2>3
<1> HIDE DEF t
<1>4. CASE \E why : Panic(l, why)
  <2>1. exports' = exports /\ stack'[l] = <<>> /\ \A k \in Loaders \ {l} : stack'[k] = stack[k]
    BY <1>1, <1>4 DEF Panic
  <2>2. Elems(stack'[l]) = {}
    BY <2>1 DEF Elems
  <2> QED
    BY <1>2, <2>1, <2>2
<1>5. ASSUME NEW m \in Modules, EnterNew(l, m) PROVE PrivateStaysPrivate'
  <2>1. /\ exports' = exports /\ stack'[l] = <<Frame(m)>> \o stack[l]
        /\ \A k \in Loaders \ {l} : stack'[k] = stack[k]
    BY <1>1, <1>5 DEF EnterNew
  <2>2. Frame(m) \in Frames
    BY GraphFacts DEF LoaderInv, Frame, Frames, Snapshot, Pairs, Kinds
  <2>3. ASSUME NEW f, f = Frame(m) PROVE Holds(f)'
    <3>1. \A p \in f.have : p[2] = Root
      BY <2>3 DEF Frame, Snapshot
    <3> QED
      BY <3>1 DEF Holds, MayHold
  <2>4. Elems(stack'[l]) \subseteq {Frame(m)} \cup Elems(stack[l])
    BY <1>1, <2>1, <2>2, ElemsPush
  <2> QED
    BY <1>2, <2>1, <2>3, <2>4
<1>6. ASSUME Busy(l), NEW f \in Frames, stack' = [stack EXCEPT ![l] = <<f>> \o Rest(l)],
             UNCHANGED exports, Holds(f)
      PROVE  PrivateStaysPrivate'
  <2>1. stack'[l] = <<f>> \o t /\ \A k \in Loaders \ {l} : stack'[k] = stack[k]
    BY <1>1, <1>6 DEF t
  <2>2. Elems(stack'[l]) \subseteq {f} \cup Elems(stack[l])
    BY <1>3, <1>6, <2>1, ElemsPush
  <2>3. Holds(f)'
    BY <1>0, <1>6, MayHoldKept DEF Holds
  <2> QED
    BY <1>2, <1>6, <2>1, <2>2, <2>3
<1>7. CASE LoadModule(l)
  BY <1>4, <1>5, <1>7, GraphFacts DEF LoaderInv, LoadModule, Circular
<1>8. CASE Import(l)
  <2> DEFINE m == Head(Top(l).todo)
             f == [Top(l) EXCEPT !.todo = Tail(@), !.have = Put(@, ExportsOf(m))]
  <2>1. /\ Busy(l) /\ Top(l).todo # <<>>
        /\ EnterNew(l, m) \/ Recall(l, m) \/ Circular(l, m)
    BY <1>8 DEF Import
  <2>2. m \in Imports(Top(l).mod) /\ Top(l).mod \in Modules
    BY <1>3, <2>1, TailSeq DEF Frames
  <2>3. m \in Modules
    BY <2>2, GraphFacts DEF LoaderInv
  <2>4. CASE Recall(l, m)
    <3>1. m \in Loaded /\ ExportsOf(m) \subseteq Pairs
      BY <2>4, MemoFacts DEF LoaderInv, Recall
    <3>2. f \in Frames /\ f.mod = Top(l).mod /\ f.have = Put(Top(l).have, ExportsOf(m))
      BY <1>3, <2>1, <3>1, MergedFrame
    <3>3. stack' = [stack EXCEPT ![l] = <<f>> \o Rest(l)] /\ UNCHANGED exports
      BY <2>1, <2>4 DEF Recall, Merge, Busy, Top, Rest
    <3> HIDE DEF f
    <3>4. ASSUME NEW p \in f.have PROVE MayHold(f.mod, p)
      <4>1. p \in Top(l).have \/ p \in ExportsOf(m)
        BY <3>2, <3>4 DEF Put
      <4>2. CASE p \in Top(l).have
        BY <1>3, <2>1, <3>2, <4>2 DEF Holds
      <4>3. CASE p \in ExportsOf(m)
        BY <2>2, <3>1, <3>2, <4>3 DEF MayHold, Imports
      <4> QED
        BY <4>1, <4>2, <4>3
    <3> QED
      BY <1>6, <2>1, <3>2, <3>3, <3>4 DEF Holds
  <2> HIDE DEF m
  <2> QED
    BY <1>4, <1>5, <2>1, <2>3, <2>4 DEF Circular
<1>9. CASE Provide(l)
  <2>1. /\ Busy(l) /\ Top(l).at <= Len(Mod(Top(l).mod).provides)
        /\ (Become(l, Provided(l)) /\ UNCHANGED exports) \/ Panic(l, "wiring")
    BY <1>9 DEF Provide, Provided
  <2>2. CASE Become(l, Provided(l)) /\ UNCHANGED exports
    <3>1. /\ Provided(l) \in Frames /\ Provided(l).mod = Top(l).mod
          /\ \A p \in Provided(l).have : p \in Top(l).have \/ p[2] = Top(l).mod
      BY <2>1, ProvidedFrame
    <3>2. Holds(Provided(l))
      BY <1>3, <2>1, <3>1 DEF Holds, MayHold
    <3> QED
      BY <1>6, <2>1, <2>2, <3>1, <3>2 DEF Become
  <2> QED
    BY <1>4, <2>1, <2>2
<1>10. CASE Control(l)
  <2> DEFINE f == [Top(l) EXCEPT !.at = @ + 1]
  <2>1. /\ Busy(l)
        /\ (Become(l, f) /\ UNCHANGED exports) \/ Panic(l, "wiring")
    BY <1>10, Zenon DEF Control, AtControllers
  <2>2. CASE Become(l, f) /\ UNCHANGED exports
    <3>1. stack' = [stack EXCEPT ![l] = <<f>> \o Rest(l)]
      BY <2>2 DEF Become
    <3>2. f \in Frames /\ f.mod = Top(l).mod /\ f.have = Top(l).have
      <4>1. Top(l).at + 1 \in Nat \ {0}
        BY <1>3, <2>1 DEF Frames
      <4> QED
        BY <1>3, <2>1, <4>1 DEF Frames
    <3> HIDE DEF f
    <3>3. Holds(f)
      BY <1>3, <2>1, <3>2 DEF Holds
    <3> QED
      BY <1>6, <2>1, <2>2, <3>1, <3>2, <3>3
  <2> QED
    BY <1>4, <2>1, <2>2
<1>11. CASE Leave(l)
  <2>m. PICK m : m = Top(l).mod
    OBVIOUS
  <2>o. PICK out : out = {p \in Top(l).have : p[1] \in Mod(m).exports}
    OBVIOUS
  <2>1. /\ Busy(l)
        /\ \/ /\ exports' = {e \in exports : e[1] # m} \cup {<<m, out>>}
              /\ stack' = [stack EXCEPT ![l] = Merge(t, out)]
           \/ Panic(l, "wiring")
    BY <1>11, <2>m, <2>o DEF Leave, t
  <2>2. out \subseteq Top(l).have /\ out \subseteq Pairs
    BY <1>3, <2>1, <2>o DEF Frames
  <2>3. CASE /\ exports' = {e \in exports : e[1] # m} \cup {<<m, out>>}
             /\ stack' = [stack EXCEPT ![l] = Merge(t, out)]
    <3>0. /\ stack[l] \in Seq(Frames) /\ stack[l] # <<>> /\ Len(stack[l]) \in Nat \ {0}
          /\ m = stack[l][1].mod /\ 1 \in 1..Len(stack[l])
      BY <2>1, <2>m, TopFacts DEF Busy
    <3>1. m \notin Loaded
      BY <3>0 DEF LoaderInv, PlaceInv
    <3>2. exports \subseteq exports' /\ <<m, out>> \in exports'
      BY <2>3, <3>1 DEF Loaded
    <3>3. \A x, p : MayHold(x, p) => MayHold(x, p)'
      BY <1>0, <3>2, MayHoldKept
    <3>4. m \in Loaded' /\ ExportsOf(m)' = out
      <4>1. m \in Loaded'
        <5>1. <<m, out>>[1] = m
          OBVIOUS
        <5> QED
          BY <3>2, <5>1 DEF Loaded
      <4>2. exports' \subseteq Modules' \X SUBSET Pairs'
        BY DEF LoaderInv, LoaderShape
      <4>3. <<m, ExportsOf(m)'>> \in exports'
        BY <4>1, <4>2, MemoEntry DEF Loaded, ExportsOf
      <4>4. \A e, f \in exports' : e[1] = f[1] => e = f
        BY DEF LoaderInv, PlaceInv
      <4>5. <<m, ExportsOf(m)'>> = <<m, out>>
        BY <3>2, <4>3, <4>4
      <4> QED
        BY <4>1, <4>5
    <3>5. \A e \in exports' : e \in exports \/ \A p \in e[2] : MayHold(e[1], p)'
      <4>1. \A p \in out : MayHold(m, p)'
        BY <1>3, <2>1, <2>2, <2>m, <3>3 DEF Holds
      <4> QED
        BY <2>3, <4>1
    <3>6. \A f \in Elems(stack'[l]) : f \in Elems(stack[l]) \/ Holds(f)'
      <4>0. stack'[l] = Merge(t, out)
        BY <1>1, <2>3
      <4>1. CASE t = <<>>
        <5>1. Merge(<<>>, out) = <<>>
          BY Zenon DEF Merge
        <5> QED
          BY <4>0, <4>1, <5>1 DEF Elems
      <4>2. CASE t # <<>>
        <5>f. PICK f : f = Head(t)
          OBVIOUS
        <5>g. PICK g : g = [f EXCEPT !.todo = Tail(@), !.have = Put(@, out)]
          OBVIOUS
        <5>1. /\ f = stack[l][2] /\ f \in Elems(stack[l]) /\ f \in Frames
              /\ 2 \in 1..Len(stack[l])
          <6>1. /\ t = Tail(stack[l]) /\ t \in Seq(Frames) /\ Len(t) = Len(stack[l]) - 1
                /\ \A i \in 1..(Len(stack[l]) - 1) : t[i] = stack[l][i + 1]
            BY <3>0, TailSeq DEF t, Rest
          <6>2. f = t[1] /\ f \in Frames /\ Len(t) \in Nat \ {0}
            BY <4>2, <5>f, <6>1, TailSeq
          <6>b. Len(t) >= 1
            BY <6>2
          <6>c. Len(t) = Len(stack[l]) - 1 /\ Len(stack[l]) \in Nat
            BY <3>0, <6>1
          <6>a. Len(stack[l]) - 1 >= 1 /\ Len(stack[l]) \in Nat
            BY <6>b, <6>c
          <6>3. 1 \in 1..(Len(stack[l]) - 1) /\ 2 \in 1..Len(stack[l]) /\ 1 + 1 = 2
            BY <6>a
          <6>4. f = stack[l][2]
            BY <6>1, <6>2, <6>3
          <6> QED
            BY <3>0, <6>2, <6>3, <6>4 DEF Elems
        <5>2. f.todo # <<>> /\ f.todo \in Seq(Imports(f.mod)) /\ Head(f.todo) = m
          <6>1. 2 > 1 /\ 2 - 1 = 1
            OBVIOUS
          <6> QED
            BY <3>0, <5>1, <6>1 DEF LoaderInv, WaitInv
        <5>3. m \in Imports(f.mod)
          BY <5>2, TailSeq
        <5>4. g \in Frames /\ g.mod = f.mod /\ g.have = Put(f.have, out)
          BY <2>2, <5>1, <5>2, <5>g, MergedFrame
        <5>5. stack'[l] = <<g>> \o Tail(t)
          BY <4>0, <4>2, <5>f, <5>g DEF Merge
        <5>6. Holds(g)'
          <6>1. ASSUME NEW p \in g.have PROVE MayHold(g.mod, p)'
            <7>1. p \in f.have \/ p \in out
              BY <5>4, <6>1 DEF Put
            <7>2. CASE p \in f.have
              BY <1>1, <3>3, <5>1, <5>4, <7>2 DEF Holds
            <7>3. CASE p \in out
              <8>1. Mod(f.mod)' = Mod(f.mod)
                BY <1>0 DEF Mod
              <8> QED
                BY <3>4, <5>3, <5>4, <7>3, <8>1 DEF MayHold, Imports
            <7> QED
              BY <7>1, <7>2, <7>3
          <6> QED
            BY <6>1 DEF Holds
        <5>7. Elems(stack'[l]) \subseteq {g} \cup Elems(stack[l])
          <6>1. t \in Seq(Frames) /\ Tail(t) \in Seq(Frames) /\ Elems(Tail(t)) \subseteq Elems(t)
                /\ Elems(t) \subseteq Elems(stack[l])
            BY <1>3, <2>1, <4>2, TailSeq, ElemsTail
          <6>2. Elems(<<g>> \o Tail(t)) \subseteq {g} \cup Elems(Tail(t))
            BY <5>4, <6>1, ElemsPush
          <6> QED
            BY <5>5, <6>1, <6>2
        <5> QED
          BY <5>6, <5>7
      <4> QED
        BY <4>1, <4>2
    <3> QED
      BY <1>1, <1>2, <2>3, <3>2, <3>5, <3>6
  <2> QED
    BY <1>4, <2>1, <2>3
<1> QED
  BY <1>7, <1>8, <1>9, <1>10, <1>11 DEF LoaderStep

(* For any import graph and any number of loaders, a container holds       *)
(* singletons, its module's own providers and what the imports export, and *)
(* never another module's private provider (container.go, LoadModule).     *)
THEOREM ModulesArePrivate == Spec => []PrivateStaysPrivate
<1>1. Init => PrivateStaysPrivate
  BY DEF Init, LoaderInit, PrivateStaysPrivate
<1>2. ASSUME LoaderInv, LoaderInv', PrivateStaysPrivate, [Next]_vars PROVE PrivateStaysPrivate'
  <2>1. CASE UNCHANGED <<graph, stack, exports>>
    <3>1. \A m, p : MayHold(m, p)' <=> MayHold(m, p)
      BY <2>1 DEF MayHold, Mod, Loaded, ExportsOf
    <3> QED
      BY <1>2, <2>1, <3>1 DEF PrivateStaysPrivate
  <2>2. CASE Bootstrap
    BY <1>2, <2>1, <2>2, PrivateStep DEF Bootstrap, OnController, UseRateLimit, Use
  <2>3. CASE ~Bootstrap
    BY <1>2, <2>1, <2>3
       DEF Next, Life, Arrive, RequestStep, BodyLimit, RateLimit, Guard, Handle, vars, loaderVars
  <2> QED
    BY <2>2, <2>3
<1> QED
  BY <1>1, <1>2, LoaderInvariant, PTL DEF Spec

-----------------------------------------------------------------------------
(***************************************************************************)
(* The requests.  A chain is the engine's middleware, the guards of its    *)
(* route and the handler, so that a request at the handler has every guard *)
(* behind it, and the logger and recovery around it.                       *)
(***************************************************************************)
Engines == {Base(cfg), Append(Base(cfg), "rate")}
GuardTags == {<<>>} \cup {Mod(m).guards : m \in Modules}

RouteChains ==
    /\ globals \in Engines
    /\ \A r \in routes : GuardsKnown(r.of) /\ r.of \in Modules
         /\ \E g \in Engines : r.chain = g \o Mod(r.of).guards \o <<"handler">>

\* Where r is in its chain: engine g, guards, and its last handler.
Placed(r, g, guards, last) ==
    /\ chain[r] = g \o guards \o <<last>> /\ last \in {"handler", "notfound"}
    /\ last = "handler" => of[r] \in Modules /\ guards = Mod(of[r]).guards
    /\ IsSequence(guards) /\ \A i \in 1..Len(guards) : guards[i] \in Known
    /\ at[r] \in Len(Base(cfg))..Len(chain[r])
    /\ \A i \in 1..Len(guards) : Len(g) + i < at[r] => guards[i] \in passed[r]

RequestInv ==
    /\ chain = [r \in Requests |-> chain[r]] /\ of = [r \in Requests |-> of[r]]
    /\ at = [r \in Requests |-> at[r]] /\ passed = [r \in Requests |-> passed[r]]
    /\ answer = [r \in Requests |-> answer[r]] /\ state = [r \in Requests |-> state[r]]
    /\ \A r \in Requests : state[r] = "run" =>
         \E g \in Engines, guards \in GuardTags, last \in {"handler", "notfound"} :
            Placed(r, g, guards, last)
    /\ \A r \in handled : r \in Requests /\ state[r] = "done"
    /\ HandlerBehindGuards

LEMMA ConcatFacts ==
    ASSUME NEW S, NEW s \in Seq(S), NEW t \in Seq(S)
    PROVE  /\ s \o t \in Seq(S) /\ Len(s \o t) = Len(s) + Len(t)
           /\ \A i \in 1..Len(s) : (s \o t)[i] = s[i]
           /\ \A i \in 1..Len(t) : (s \o t)[Len(s) + i] = t[i]
<1>1. /\ s \o t \in Seq(S) /\ Len(s \o t) = Len(s) + Len(t)
      /\ \A i \in 1..(Len(s) + Len(t)) :
           (s \o t)[i] = IF i <= Len(s) THEN s[i] ELSE t[i - Len(s)]
  BY ConcatProperties
<1>2. ASSUME NEW i \in 1..Len(t) PROVE (s \o t)[Len(s) + i] = t[i]
  <2>1. Len(s) + i \in 1..(Len(s) + Len(t)) /\ ~(Len(s) + i <= Len(s)) /\ Len(s) + i - Len(s) = i
    OBVIOUS
  <2> QED
    BY <1>1, <2>1
<1> QED
  BY <1>1, <1>2

LEMMA BaseFacts ==
    ASSUME NEW c
    PROVE  /\ Base(c) \in Seq(Middleware) /\ Len(Base(c)) \in Nat \ {0}
           /\ c.logger /\ c.recovery =>
                Len(Base(c)) = 5 /\ Base(c)[2] = "logger" /\ Base(c)[3] = "recovery"
<1>1. CASE c.logger /\ c.recovery
  <2> DEFINE u == <<"id">> \o <<"logger">>
             v == u \o <<"recovery">>
             w == v \o <<"headers", "body">>
  <2>0. /\ <<"id">> \in Seq(Middleware) /\ <<"logger">> \in Seq(Middleware)
        /\ <<"recovery">> \in Seq(Middleware) /\ <<"headers", "body">> \in Seq(Middleware)
    BY DEF Middleware
  <2>1. Base(c) = w
    BY <1>1, Zenon DEF Base
  <2>2. u \in Seq(Middleware) /\ Len(u) = 2 /\ u[2] = "logger"
    BY <2>0
  <2> HIDE DEF u
  <2>3. v \in Seq(Middleware) /\ Len(v) = 3 /\ v[2] = "logger" /\ v[3] = "recovery"
    BY <2>0, <2>2, ConcatFacts
  <2> HIDE DEF v
  <2>4. w \in Seq(Middleware) /\ Len(w) = 5 /\ w[2] = "logger" /\ w[3] = "recovery"
    BY <2>0, <2>3, ConcatFacts
  <2> HIDE DEF w
  <2> QED
    BY <2>1, <2>4
<1>2. CASE ~(c.logger /\ c.recovery)
  <2> DEFINE A == IF c.logger THEN <<"logger">> ELSE <<>>
             B == IF c.recovery THEN <<"recovery">> ELSE <<>>
  <2>1. A \in Seq(Middleware) /\ B \in Seq(Middleware)
    <3>1. <<"logger">> \in Seq(Middleware) /\ <<"recovery">> \in Seq(Middleware)
          /\ <<>> \in Seq(Middleware)
      BY DEF Middleware
    <3>2. (A = <<"logger">> \/ A = <<>>) /\ (B = <<"recovery">> \/ B = <<>>)
      BY Zenon
    <3> QED
      BY <3>1, <3>2, Zenon
  <2>2. <<"id">> \in Seq(Middleware) /\ <<"headers", "body">> \in Seq(Middleware)
    BY DEF Middleware
  <2> HIDE DEF A, B
  <2>3. <<"id">> \o A \o B \in Seq(Middleware)
    BY <2>1, <2>2
  <2> DEFINE x == <<"id">> \o A \o B
             y == x \o <<"headers", "body">>
  <2>4. Base(c) = y
    BY Zenon DEF Base, A, B
  <2> HIDE DEF x
  <2>5. x \in Seq(Middleware)
    BY <2>3 DEF x
  <2>6. y \in Seq(Middleware) /\ Len(y) = Len(x) + 2
    BY <2>2, <2>5, ConcatFacts
  <2> HIDE DEF y
  <2>7. Len(y) \in Nat \ {0}
    BY <2>5, <2>6
  <2> QED
    BY <1>2, <2>4, <2>6, <2>7
<1> QED
  BY <1>1, <1>2

LEMMA EngineFacts ==
    ASSUME NEW g \in Engines
    PROVE  /\ g \in Seq(Middleware) /\ Len(g) \in Nat /\ Len(Base(cfg)) \in Nat \ {0}
           /\ Len(Base(cfg)) <= Len(g)
           /\ cfg.logger /\ cfg.recovery =>
                Len(Base(cfg)) = 5 /\ g[2] = "logger" /\ g[3] = "recovery"
<1>1. /\ Base(cfg) \in Seq(Middleware) /\ Len(Base(cfg)) \in Nat \ {0}
      /\ cfg.logger /\ cfg.recovery =>
           Len(Base(cfg)) = 5 /\ Base(cfg)[2] = "logger" /\ Base(cfg)[3] = "recovery"
  BY BaseFacts
<1>2. "rate" \in Middleware
  BY DEF Middleware
<1>3. CASE g = Base(cfg)
  BY <1>1, <1>3
<1>4. CASE g = Append(Base(cfg), "rate")
  <2>1. /\ g \in Seq(Middleware) /\ Len(g) = Len(Base(cfg)) + 1
        /\ \A i \in 1..Len(Base(cfg)) : g[i] = Base(cfg)[i]
    BY <1>1, <1>2, <1>4
  <2>2. ASSUME cfg.logger /\ cfg.recovery
        PROVE  Len(Base(cfg)) = 5 /\ g[2] = "logger" /\ g[3] = "recovery"
    <3>1. Len(Base(cfg)) = 5
      BY <1>1, <2>2
    <3>2. 2 \in 1..Len(Base(cfg)) /\ 3 \in 1..Len(Base(cfg))
      BY <3>1
    <3> QED
      BY <1>1, <2>1, <2>2, <3>1, <3>2
  <2> QED
    BY <1>1, <2>1, <2>2
<1> QED
  BY <1>3, <1>4 DEF Engines

\* What stands where in a chain.
LEMMA ChainFacts ==
    ASSUME NEW S, NEW g \in Seq(S), NEW guards \in Seq(S), NEW last \in S
    PROVE  LET c == g \o guards \o <<last>>
           IN  /\ Len(c) = Len(g) + Len(guards) + 1 /\ c[Len(g) + Len(guards) + 1] = last
               /\ \A i \in 1..Len(g) : c[i] = g[i]
               /\ \A i \in 1..Len(guards) : c[Len(g) + i] = guards[i]
<1> DEFINE b == g \o guards
           c == b \o <<last>>
<1>1. /\ b \in Seq(S) /\ Len(b) = Len(g) + Len(guards)
      /\ \A i \in 1..(Len(g) + Len(guards)) :
           b[i] = IF i <= Len(g) THEN g[i] ELSE guards[i - Len(g)]
  BY ConcatProperties
<1>2. <<last>> \in Seq(S) /\ Len(<<last>>) = 1 /\ <<last>>[1] = last
  OBVIOUS
<1> HIDE DEF b
<1>3. /\ Len(c) = Len(b) + Len(<<last>>)
      /\ \A i \in 1..(Len(b) + Len(<<last>>)) :
           c[i] = IF i <= Len(b) THEN b[i] ELSE <<last>>[i - Len(b)]
  <2> DEFINE t == <<last>>
  <2>1. b \in Seq(S) /\ t \in Seq(S)
    BY <1>1, <1>2
  <2> HIDE DEF t
  <2>2. /\ Len(b \o t) = Len(b) + Len(t)
        /\ \A i \in 1..(Len(b) + Len(t)) : (b \o t)[i] = IF i <= Len(b) THEN b[i] ELSE t[i - Len(b)]
    BY <2>1, ConcatProperties
  <2> QED
    BY <2>2 DEF t
<1> HIDE DEF c
<1>4. Len(g) \in Nat /\ Len(guards) \in Nat
  OBVIOUS
<1>5. Len(c) = Len(g) + Len(guards) + 1 /\ c[Len(g) + Len(guards) + 1] = last
  BY <1>1, <1>2, <1>3, <1>4
<1>6. \A i \in 1..Len(g) : c[i] = g[i]
  BY <1>1, <1>2, <1>3, <1>4
<1>7. \A i \in 1..Len(guards) : c[Len(g) + i] = guards[i]
  <2> SUFFICES ASSUME NEW i \in 1..Len(guards) PROVE c[Len(g) + i] = guards[i]
    OBVIOUS
  <2>1. /\ Len(g) + i \in 1..(Len(g) + Len(guards)) /\ ~(Len(g) + i <= Len(g))
        /\ (Len(g) + i) - Len(g) = i
    BY <1>4
  <2>2. b[Len(g) + i] = guards[i]
    BY <1>1, <2>1
  <2>3. Len(g) + i \in 1..(Len(b) + Len(<<last>>)) /\ Len(g) + i <= Len(b)
    BY <1>1, <1>2, <1>4, <2>1
  <2> QED
    BY <1>3, <2>2, <2>3
<1> QED
  BY <1>5, <1>6, <1>7 DEF c, b

LEMMA PlacedLength ==
    ASSUME NEW r, NEW g \in Engines, NEW guards, NEW last, Placed(r, g, guards, last)
    PROVE  Len(chain[r]) = Len(g) + Len(guards) + 1
<1> DEFINE S == Middleware \cup {guards[i] : i \in DOMAIN guards} \cup {last}
<1>1. guards \in Seq({guards[i] : i \in DOMAIN guards}) /\ g \in Seq(Middleware)
  BY EngineFacts DEF Placed, IsSequence
<1>2. g \in Seq(S) /\ guards \in Seq(S) /\ last \in S
  BY <1>1
<1> HIDE DEF S
<1> QED
  BY <1>2, ChainFacts DEF Placed

\* The handler at which a placed request is.
LEMMA PlacedFacts ==
    ASSUME NEW r, NEW g \in Engines, NEW guards, NEW last, Placed(r, g, guards, last)
    PROVE  /\ Len(g) \in Nat /\ Len(guards) \in Nat /\ Len(Base(cfg)) \in Nat \ {0}
           /\ Len(Base(cfg)) <= Len(g)
           /\ at[r] \in Len(Base(cfg))..(Len(g) + Len(guards) + 1)
           /\ at[r] \in 1..Len(g) => Here(r) \in Middleware
           /\ \A i \in 1..Len(guards) : at[r] = Len(g) + i => Here(r) = guards[i] /\ guards[i] \in Known
           /\ at[r] = Len(g) + Len(guards) + 1 => Here(r) = last
           /\ cfg.logger /\ cfg.recovery =>
                at[r] >= 5 /\ chain[r][2] = "logger" /\ chain[r][3] = "recovery"
<1> DEFINE S == Middleware \cup {guards[i] : i \in DOMAIN guards} \cup {last}
<1>1. /\ g \in Seq(Middleware) /\ Len(g) \in Nat /\ Len(Base(cfg)) \in Nat \ {0}
      /\ Len(Base(cfg)) <= Len(g)
      /\ cfg.logger /\ cfg.recovery =>
           Len(Base(cfg)) = 5 /\ g[2] = "logger" /\ g[3] = "recovery"
  BY EngineFacts
<1>2. guards \in Seq({guards[i] : i \in DOMAIN guards}) /\ Len(guards) \in Nat
  BY DEF Placed, IsSequence
<1>3. g \in Seq(S) /\ guards \in Seq(S) /\ last \in S
  BY <1>1, <1>2
<1> HIDE DEF S
<1>4. /\ Len(chain[r]) = Len(g) + Len(guards) + 1
      /\ chain[r][Len(g) + Len(guards) + 1] = last
      /\ \A i \in 1..Len(g) : chain[r][i] = g[i]
      /\ \A i \in 1..Len(guards) : chain[r][Len(g) + i] = guards[i]
  <2>1. chain[r] = g \o guards \o <<last>>
    BY DEF Placed
  <2> QED
    BY <1>3, <2>1, ChainFacts
<1>5. /\ at[r] \in Len(Base(cfg))..(Len(g) + Len(guards) + 1)
      /\ \A i \in 1..Len(guards) : guards[i] \in Known
  BY <1>4 DEF Placed
<1>6. at[r] \in 1..Len(g) => Here(r) \in Middleware
  <2>1. \A i \in 1..Len(g) : g[i] \in Middleware
    BY <1>1
  <2> QED
    BY <2>1, <1>4 DEF Here
<1>7. \A i \in 1..Len(guards) : at[r] = Len(g) + i => Here(r) = guards[i] /\ guards[i] \in Known
  BY <1>4, <1>5 DEF Here
<1>8. at[r] = Len(g) + Len(guards) + 1 => Here(r) = last
  BY <1>4 DEF Here
<1>9. ASSUME cfg.logger /\ cfg.recovery
      PROVE  at[r] >= 5 /\ chain[r][2] = "logger" /\ chain[r][3] = "recovery"
  <2>0. Len(Base(cfg)) = 5
    BY <1>1, <1>9
  <2>1. at[r] >= 5 /\ 2 \in 1..Len(g) /\ 3 \in 1..Len(g)
    BY <1>1, <1>2, <1>5, <2>0
  <2> QED
    BY <1>1, <1>4, <1>9, <2>1
<1> QED
  BY <1>1, <1>2, <1>5, <1>6, <1>7, <1>8, <1>9

LEMMA RouteChainsStep ==
    ASSUME LoaderInv, RouteChains, [Next]_vars PROVE RouteChains'
<1>1. UNCHANGED cfg /\ UNCHANGED graph
  BY DEF Next, Bootstrap, Life, Arrive, RequestStep, BodyLimit, RateLimit, Guard, Handle, vars,
         loaderVars, LoaderStep, LoadModule, Import, Provide, Control, Leave, OnController,
         UseRateLimit, Use
<1>2. /\ Engines' = Engines /\ Modules' = Modules
      /\ \A m : GuardsKnown(m)' = GuardsKnown(m) /\ Mod(m)' = Mod(m)
  BY <1>1 DEF Engines, Modules, GuardsKnown, Mod, Base
<1>3. CASE UNCHANGED <<globals, routes>>
  BY <1>2, <1>3 DEF RouteChains
<1>4. CASE UseRateLimit
  <2>1. /\ "rate" \notin {globals[i] : i \in DOMAIN globals}
        /\ globals' = Append(globals, "rate") /\ UNCHANGED routes
    BY <1>4 DEF UseRateLimit, Use
  <2>2. globals # Append(Base(cfg), "rate")
    <3>1. Base(cfg) \in Seq(Middleware)
      BY BaseFacts
    <3>2. LET a == Append(Base(cfg), "rate") IN a[Len(Base(cfg)) + 1] = "rate" /\ Len(Base(cfg)) + 1 \in DOMAIN a
      BY <3>1
    <3> QED
      BY <2>1, <3>2
  <2>3. globals' \in Engines
    BY <2>1, <2>2 DEF RouteChains, Engines
  <2> QED
    BY <1>2, <2>1, <2>3 DEF RouteChains
<1>5. ASSUME NEW l \in Loaders, Control(l), ~UNCHANGED <<globals, routes>> PROVE RouteChains'
  <2>1. PICK m : m = Top(l).mod
    OBVIOUS
  <2>2. Busy(l) /\ UNCHANGED globals /\ GuardsKnown(m) /\ routes' = routes \cup {RouteOf(m)}
    BY <1>5, <2>1, Zenon DEF Control, AtControllers
  <2>3. m \in Modules
    BY <2>1, <2>2, TopFacts DEF Frames
  <2>4. RouteOf(m).of = m /\ RouteOf(m).chain = globals \o Mod(m).guards \o <<"handler">>
    BY DEF RouteOf
  <2> QED
    BY <1>2, <2>2, <2>3, <2>4 DEF RouteChains
<1>6. CASE Bootstrap
  BY <1>3, <1>4, <1>5, <1>6
     DEF Bootstrap, LoaderStep, LoadModule, Import, Provide, Leave, OnController
<1>7. CASE ~Bootstrap
  BY <1>3, <1>7
     DEF Next, Life, Arrive, RequestStep, BodyLimit, RateLimit, Guard, Handle, vars, loaderVars
<1> QED
  BY <1>6, <1>7

\* A request that a step does not touch stays where it is.
LEMMA OtherPlaced ==
    ASSUME RequestInv, UNCHANGED <<graph, cfg>>, NEW q \in Requests,
           chain'[q] = chain[q], of'[q] = of[q], at'[q] = at[q], passed'[q] = passed[q],
           state'[q] = "run", state[q] = "run"
    PROVE  \E g \in Engines', guards \in GuardTags', last \in {"handler", "notfound"} :
              Placed(q, g, guards, last)'
<1>1. /\ Engines' = Engines /\ GuardTags' = GuardTags /\ Base(cfg)' = Base(cfg)
      /\ Modules' = Modules /\ \A m : Mod(m)' = Mod(m)
  BY DEF Engines, GuardTags, Modules, Mod, Base
<1>2. PICK g \in Engines, guards \in GuardTags, last \in {"handler", "notfound"} :
         Placed(q, g, guards, last)
  BY DEF RequestInv
<1>3. Placed(q, g, guards, last)'
  BY <1>1, <1>2 DEF Placed
<1> QED
  BY <1>1, <1>2, <1>3

LEMMA ArriveStep ==
    ASSUME LoaderInv, RouteChains, RequestInv, NEW r \in Requests, Arrive(r) PROVE RequestInv'
<1>0. /\ UNCHANGED <<graph, cfg, passed, answer, handled, logged>> /\ state[r] = "none"
      /\ at' = [at EXCEPT ![r] = Len(Base(cfg))] /\ state' = [state EXCEPT ![r] = "run"]
      /\ \/ \E route \in routes : /\ chain' = [chain EXCEPT ![r] = route.chain]
                                  /\ of' = [of EXCEPT ![r] = route.of]
         \/ chain' = [chain EXCEPT ![r] = globals \o <<"notfound">>] /\ of' = of
  BY DEF Arrive, loaderVars
<1>1. /\ chain = [q \in Requests |-> chain[q]] /\ of = [q \in Requests |-> of[q]]
      /\ at = [q \in Requests |-> at[q]] /\ passed = [q \in Requests |-> passed[q]]
      /\ answer = [q \in Requests |-> answer[q]] /\ state = [q \in Requests |-> state[q]]
  BY DEF RequestInv
<1>2. /\ Engines' = Engines /\ GuardTags' = GuardTags /\ Base(cfg)' = Base(cfg)
      /\ Modules' = Modules /\ \A m : Mod(m)' = Mod(m)
  BY <1>0 DEF Engines, GuardTags, Modules, Mod, Base
<1>3. /\ chain' = [q \in Requests |-> chain'[q]] /\ of' = [q \in Requests |-> of'[q]]
      /\ at' = [q \in Requests |-> at'[q]] /\ state' = [q \in Requests |-> state'[q]]
      /\ at'[r] = Len(Base(cfg)) /\ state'[r] = "run"
      /\ \A q \in Requests \ {r} : /\ chain'[q] = chain[q] /\ of'[q] = of[q]
                                   /\ at'[q] = at[q] /\ state'[q] = state[q]
  <2>1. /\ at' = [q \in Requests |-> at'[q]] /\ state' = [q \in Requests |-> state'[q]]
        /\ at'[r] = Len(Base(cfg)) /\ state'[r] = "run"
        /\ \A q \in Requests \ {r} : at'[q] = at[q] /\ state'[q] = state[q]
    BY <1>0, <1>1
  <2>2. /\ chain' = [q \in Requests |-> chain'[q]] /\ of' = [q \in Requests |-> of'[q]]
        /\ \A q \in Requests \ {r} : chain'[q] = chain[q] /\ of'[q] = of[q]
    BY <1>0, <1>1
  <2> QED
    BY <2>1, <2>2
<1> DEFINE Fits(g, guards, last) ==
        /\ chain'[r] = g \o guards \o <<last>>
        /\ last = "handler" => of'[r] \in Modules /\ guards = Mod(of'[r]).guards
        /\ IsSequence(guards) /\ \A i \in 1..Len(guards) : guards[i] \in Known
<1>4. PICK g \in Engines, guards \in GuardTags, last \in {"handler", "notfound"} :
        Fits(g, guards, last)
  <2>1. ASSUME NEW route \in routes, chain' = [chain EXCEPT ![r] = route.chain],
               of' = [of EXCEPT ![r] = route.of]
        PROVE  \E g \in Engines, guards \in GuardTags, last \in {"handler", "notfound"} :
                  Fits(g, guards, last)
    <3>1. PICK g \in Engines : route.chain = g \o Mod(route.of).guards \o <<"handler">>
      BY DEF RouteChains
    <3>2. GuardsKnown(route.of) /\ route.of \in Modules
      BY DEF RouteChains
    <3>3. IsSequence(Mod(route.of).guards)
      BY <3>2, GraphFacts DEF LoaderInv
    <3>4. \A i \in 1..Len(Mod(route.of).guards) : Mod(route.of).guards[i] \in Known
      BY <3>2, <3>3 DEF GuardsKnown, IsSequence
    <3>5. chain'[r] = route.chain /\ of'[r] = route.of
      BY <1>1, <2>1
    <3>6. Mod(route.of).guards \in GuardTags
      BY <3>2 DEF GuardTags
    <3> QED
      BY <3>1, <3>2, <3>3, <3>4, <3>5, <3>6
  <2>2. ASSUME chain' = [chain EXCEPT ![r] = globals \o <<"notfound">>] PROVE \E g \in Engines, guards \in GuardTags, last \in {"handler", "notfound"} :
                  Fits(g, guards, last)
    <3>1. globals \in Engines /\ globals \in Seq(Middleware)
      BY EngineFacts DEF RouteChains
    <3>2. globals \o <<>> = globals
      BY <3>1, ConcatEmptySeq
    <3>3. chain'[r] = globals \o <<>> \o <<"notfound">>
      BY <1>1, <2>2, <3>2
    <3>4. <<>> \in GuardTags /\ IsSequence(<<>>) /\ \A i \in 1..Len(<<>>) : <<>>[i] \in Known
      BY DEF GuardTags, IsSequence
    <3> QED
      BY <3>1, <3>3, <3>4
  <2> QED
    BY <1>0, <2>1, <2>2
<1>5. Placed(r, g, guards, last)'
  <2>1. g \in Seq(Middleware) /\ Len(g) \in Nat /\ Len(Base(cfg)) \in Nat /\ Len(Base(cfg)) <= Len(g)
    BY EngineFacts
  <2> DEFINE S == Middleware \cup {guards[i] : i \in DOMAIN guards} \cup {last}
  <2>2. guards \in Seq({guards[i] : i \in DOMAIN guards}) /\ Len(guards) \in Nat
    BY <1>4 DEF IsSequence
  <2>3. g \in Seq(S) /\ guards \in Seq(S) /\ last \in S
    BY <2>1, <2>2
  <2> HIDE DEF S
  <2>4. Len(chain'[r]) = Len(g) + Len(guards) + 1
    BY <1>4, <2>3, ChainFacts
  <2>5. at'[r] \in Len(Base(cfg))..Len(chain'[r])
    BY <1>3, <2>1, <2>2, <2>4
  <2>6. \A i \in 1..Len(guards) : ~(Len(g) + i < at'[r])
    BY <1>3, <2>1, <2>2
  <2> QED
    BY <1>2, <1>4, <2>5, <2>6 DEF Placed
<1>6. ASSUME NEW q \in Requests, state'[q] = "run"
      PROVE  \E h \in Engines', hs \in GuardTags', lh \in {"handler", "notfound"} :
                Placed(q, h, hs, lh)'
  <2>1. CASE q = r
    BY <1>2, <1>5, <2>1
  <2>2. CASE q # r
    BY <1>0, <1>3, <1>6, <2>2, OtherPlaced
  <2> QED
    BY <2>1, <2>2
<1>7. \A q \in handled' : q \in Requests /\ state'[q] = "done" /\ q # r
  BY <1>0, <1>3 DEF RequestInv
<1>8. HandlerBehindGuards'
  <2>1. ASSUME NEW q \in handled', NEW i \in DOMAIN Mod(of'[q]).guards
        PROVE  Mod(of'[q]).guards[i] \in passed'[q]
    BY <1>0, <1>3, <1>7, <2>1 DEF RequestInv, HandlerBehindGuards
  <2>2. ASSUME NEW q \in Requests, state'[q] = "done" /\ cfg'.logger /\ cfg'.recovery
        PROVE  q \in logged' /\ answer'[q] # "cut"
    BY <1>0, <1>3, <2>2 DEF RequestInv, HandlerBehindGuards
  <2> QED
    BY <1>2, <2>1, <2>2 DEF HandlerBehindGuards
<1> QED
  BY <1>0, <1>1, <1>3, <1>6, <1>7, <1>8 DEF RequestInv

\* A request at its handler has the guards behind it.
LEMMA AtTheHandler ==
    ASSUME NEW r, NEW g \in Engines, NEW guards, NEW last, Placed(r, g, guards, last),
           Here(r) \in {"handler", "notfound"}
    PROVE  at[r] = Len(g) + Len(guards) + 1 /\ Here(r) = last
<1>1. /\ Len(g) \in Nat /\ Len(guards) \in Nat /\ Len(Base(cfg)) \in Nat \ {0}
      /\ Len(Base(cfg)) <= Len(g) /\ at[r] \in Len(Base(cfg))..(Len(g) + Len(guards) + 1)
      /\ at[r] \in 1..Len(g) => Here(r) \in Middleware
      /\ \A i \in 1..Len(guards) : at[r] = Len(g) + i => Here(r) = guards[i] /\ guards[i] \in Known
      /\ at[r] = Len(g) + Len(guards) + 1 => Here(r) = last
  BY PlacedFacts
<1>2. Here(r) \notin Middleware /\ Here(r) \notin Known
  BY ApplicationAssumption DEF Middleware
<1>3. at[r] \notin 1..Len(g)
  BY <1>1, <1>2
<1>a. /\ at[r] \in Int /\ at[r] >= 1 /\ at[r] <= Len(g) + Len(guards) + 1
      /\ Len(g) \in Nat /\ Len(guards) \in Nat
  <2>1. Len(g) \in Nat /\ Len(guards) \in Nat
    BY <1>1
  <2>2. Len(Base(cfg)) \in Nat /\ Len(Base(cfg)) >= 1
    BY <1>1
  <2>3. at[r] \in Len(Base(cfg))..(Len(g) + Len(guards) + 1)
    BY <1>1
  <2> QED
    BY <2>1, <2>2, <2>3
<1>4. ASSUME at[r] > Len(g), at[r] <= Len(g) + Len(guards) PROVE FALSE
  <2>1. at[r] - Len(g) \in 1..Len(guards) /\ at[r] = Len(g) + (at[r] - Len(g))
    BY <1>a, <1>4
  <2> QED
    BY <1>1, <1>2, <2>1
<1>5. at[r] = Len(g) + Len(guards) + 1
  BY <1>a, <1>3, <1>4
<1> QED
  BY <1>1, <1>5

LEMMA ProceedStep ==
    ASSUME RequestInv, NEW r \in Requests, NEW by, Proceed(r, by), state[r] = "run",
           UNCHANGED <<graph, cfg, handled>>, Here(r) \notin {"handler", "notfound"},
           Here(r) \in Known => Here(r) \in by
    PROVE  RequestInv'
<1>1. /\ chain = [q \in Requests |-> chain[q]] /\ of = [q \in Requests |-> of[q]]
      /\ at = [q \in Requests |-> at[q]] /\ passed = [q \in Requests |-> passed[q]]
      /\ answer = [q \in Requests |-> answer[q]] /\ state = [q \in Requests |-> state[q]]
  BY DEF RequestInv
<1>2. /\ UNCHANGED <<chain, of, state, answer, logged>>
      /\ at'[r] = at[r] + 1 /\ passed'[r] = passed[r] \cup by
      /\ at' = [q \in Requests |-> at'[q]] /\ passed' = [q \in Requests |-> passed'[q]]
      /\ \A q \in Requests \ {r} : at'[q] = at[q] /\ passed'[q] = passed[q]
  BY <1>1 DEF Proceed
<1>3. PICK g \in Engines, guards \in GuardTags, last \in {"handler", "notfound"} :
         Placed(r, g, guards, last)
  BY DEF RequestInv
<1>4. /\ Engines' = Engines /\ GuardTags' = GuardTags /\ Base(cfg)' = Base(cfg)
      /\ Modules' = Modules /\ \A m : Mod(m)' = Mod(m)
  BY DEF Engines, GuardTags, Modules, Mod, Base
<1>5. Placed(r, g, guards, last)'
  <2>1. /\ Len(g) \in Nat /\ Len(guards) \in Nat /\ Len(Base(cfg)) \in Nat \ {0}
        /\ at[r] \in Len(Base(cfg))..(Len(g) + Len(guards) + 1)
        /\ \A i \in 1..Len(guards) : at[r] = Len(g) + i => Here(r) = guards[i] /\ guards[i] \in Known
        /\ at[r] = Len(g) + Len(guards) + 1 => Here(r) = last
    BY <1>3, PlacedFacts
  <2>2. at[r] # Len(g) + Len(guards) + 1
    BY <2>1
  <2>3. Len(chain[r]) = Len(g) + Len(guards) + 1
    BY <1>3, PlacedLength
  <2>4. at'[r] \in Len(Base(cfg))..Len(chain[r])
    BY <1>2, <2>1, <2>2, <2>3
  <2>5. ASSUME NEW i \in 1..Len(guards), Len(g) + i < at'[r] PROVE guards[i] \in passed'[r]
    <3>1. CASE Len(g) + i < at[r]
      BY <1>2, <1>3, <3>1 DEF Placed
    <3>2. CASE at[r] = Len(g) + i
      BY <1>2, <2>1, <3>2
    <3> QED
      BY <1>2, <2>1, <2>5, <3>1, <3>2
  <2> QED
    BY <1>2, <1>3, <1>4, <2>4, <2>5 DEF Placed
<1>6. ASSUME NEW q \in Requests, state'[q] = "run"
      PROVE  \E h \in Engines', hs \in GuardTags', lh \in {"handler", "notfound"} :
                Placed(q, h, hs, lh)'
  <2>1. CASE q = r
    BY <1>4, <1>5, <2>1
  <2>2. CASE q # r
    BY <1>2, <1>6, <2>2, OtherPlaced
  <2> QED
    BY <2>1, <2>2
<1>7. \A q \in handled' : q \in Requests /\ state'[q] = "done" /\ q # r
  BY <1>2 DEF RequestInv
<1>8. HandlerBehindGuards'
  <2>1. ASSUME NEW q \in handled', NEW i \in DOMAIN Mod(of'[q]).guards
        PROVE  Mod(of'[q]).guards[i] \in passed'[q]
    BY <1>2, <1>7, <2>1 DEF RequestInv, HandlerBehindGuards
  <2>2. ASSUME NEW q \in Requests, state'[q] = "done" /\ cfg'.logger /\ cfg'.recovery
        PROVE  q \in logged' /\ answer'[q] # "cut"
    BY <1>2, <2>2 DEF RequestInv, HandlerBehindGuards
  <2> QED
    BY <1>4, <2>1, <2>2 DEF HandlerBehindGuards
<1> QED
  BY <1>1, <1>2, <1>6, <1>7, <1>8 DEF RequestInv

LEMMA UnwindStep ==
    ASSUME RequestInv, NEW r \in Requests, NEW how \in {"ok", "aborted", "panic"}, Unwind(r, how),
           state[r] = "run", UNCHANGED <<graph, cfg>>,
           handled' = handled \/ (handled' = handled \cup {r} /\ Here(r) = "handler")
    PROVE  RequestInv'
<1>1. /\ chain = [q \in Requests |-> chain[q]] /\ of = [q \in Requests |-> of[q]]
      /\ at = [q \in Requests |-> at[q]] /\ passed = [q \in Requests |-> passed[q]]
      /\ answer = [q \in Requests |-> answer[q]] /\ state = [q \in Requests |-> state[q]]
  BY DEF RequestInv
<1>2. /\ UNCHANGED <<chain, of, at, passed>> /\ state'[r] = "done"
      /\ answer'[r] = IF how # "panic" THEN how
                      ELSE IF Inside(r, "recovery") THEN "500" ELSE "cut"
      /\ answer' = [q \in Requests |-> answer'[q]] /\ state' = [q \in Requests |-> state'[q]]
      /\ \A q \in Requests \ {r} : answer'[q] = answer[q] /\ state'[q] = state[q]
  BY <1>1 DEF Unwind
<1>3. PICK g \in Engines, guards \in GuardTags, last \in {"handler", "notfound"} :
         Placed(r, g, guards, last)
  BY DEF RequestInv
<1>4. \A m : Mod(m)' = Mod(m)
  BY DEF Mod
<1>5. ASSUME NEW q \in Requests, state'[q] = "run"
      PROVE  \E h \in Engines', hs \in GuardTags', lh \in {"handler", "notfound"} :
                Placed(q, h, hs, lh)'
  BY <1>2, <1>5, OtherPlaced
<1>6. \A q \in handled' : q \in Requests /\ state'[q] = "done"
  BY <1>2 DEF RequestInv
<1>7. ASSUME NEW q \in handled', NEW i \in DOMAIN Mod(of[q]).guards
      PROVE  Mod(of[q]).guards[i] \in passed[q]
  <2>1. CASE q \in handled
    BY <1>7, <2>1 DEF RequestInv, HandlerBehindGuards
  <2>2. CASE q = r /\ Here(r) = "handler"
    <3>1. at[r] = Len(g) + Len(guards) + 1 /\ last = "handler"
      BY <1>3, <2>2, AtTheHandler
    <3>2. guards = Mod(of[r]).guards /\ IsSequence(guards)
      BY <1>3, <3>1 DEF Placed
    <3>3. i \in 1..Len(guards) /\ Len(guards) \in Nat
      BY <1>7, <2>2, <3>2 DEF IsSequence
    <3>4. Len(g) \in Nat
      BY EngineFacts
    <3>5. Len(g) + i < at[r]
      BY <3>1, <3>3, <3>4
    <3> QED
      BY <1>3, <2>2, <3>2, <3>3, <3>5 DEF Placed
  <2> QED
    BY <2>1, <2>2
<1>8. ASSUME NEW q \in Requests, state'[q] = "done" /\ cfg.logger /\ cfg.recovery
      PROVE  q \in logged' /\ answer'[q] # "cut"
  <2>1. CASE q # r
    BY <1>2, <1>8, <2>1 DEF RequestInv, HandlerBehindGuards, Unwind
  <2>2. CASE q = r
    <3>1. at[r] \in Int /\ at[r] >= 5 /\ chain[r][2] = "logger" /\ chain[r][3] = "recovery"
      BY <1>3, <1>8, PlacedFacts
    <3>2. 2 \in 1..(at[r] - 1) /\ 3 \in 1..(at[r] - 1) /\ 2 < 3
      BY <3>1
    <3>3. Inside(r, "logger") /\ Inside(r, "recovery") /\ RecoveredFirst(r)
      BY <3>1, <3>2 DEF Inside, RecoveredFirst
    <3> QED
      BY <1>2, <2>2, <3>3 DEF Unwind
  <2> QED
    BY <2>1, <2>2
<1>9. HandlerBehindGuards'
  BY <1>2, <1>4, <1>7, <1>8 DEF HandlerBehindGuards
<1> QED
  BY <1>1, <1>2, <1>5, <1>6, <1>9 DEF RequestInv

LEMMA RequestInvStep ==
    ASSUME LoaderInv, RouteChains, RequestInv, [Next]_vars PROVE RequestInv'
<1>1. ASSUME NEW r \in Requests, Arrive(r) PROVE RequestInv'
  BY <1>1, ArriveStep
<1>2. ASSUME NEW r \in Requests, RequestStep(r) PROVE RequestInv'
  <2>1. UNCHANGED <<graph, cfg>> /\ state[r] = "run"
    BY <1>2 DEF RequestStep, BodyLimit, RateLimit, Guard, Handle, loaderVars
  <2>2. {"body", "rate", "handler", "notfound"} \cap Known = {}
    BY ApplicationAssumption DEF Middleware
  <2>3. CASE BodyLimit(r)
    BY <2>1, <2>2, <2>3, ProceedStep, UnwindStep DEF BodyLimit
  <2>4. CASE RateLimit(r)
    BY <2>1, <2>2, <2>4, ProceedStep, UnwindStep DEF RateLimit
  <2>5. CASE Guard(r)
    BY <2>1, <2>2, <2>5, ProceedStep, UnwindStep DEF Guard
  <2>6. CASE Handle(r)
    BY <2>1, <2>6, UnwindStep DEF Handle
  <2> QED
    BY <1>2, <2>3, <2>4, <2>5, <2>6 DEF RequestStep
<1>3. CASE UNCHANGED <<reqVars, cfg>>
  <2>1. UNCHANGED graph
    BY <1>3 DEF Next, Bootstrap, Life, Arrive, RequestStep, BodyLimit, RateLimit, Guard, Handle, vars,
         loaderVars, LoaderStep, LoadModule, Import, Provide, Control, Leave, OnController,
         UseRateLimit, Use
  <2>2. \A m : Mod(m)' = Mod(m)
    BY <2>1 DEF Mod
  <2>3. \A q \in Requests : state'[q] = "run" =>
          \E g \in Engines', guards \in GuardTags', last \in {"handler", "notfound"} :
             Placed(q, g, guards, last)'
    BY <1>3, <2>1, OtherPlaced DEF reqVars
  <2>4. HandlerBehindGuards'
    BY <1>3, <2>2 DEF reqVars, RequestInv, HandlerBehindGuards
  <2> QED
    BY <1>3, <2>3, <2>4 DEF reqVars, RequestInv
<1> QED
  BY <1>1, <1>2, <1>3 DEF Next, Bootstrap, Life, vars

LEMMA RequestInvInit == ASSUME Init PROVE RouteChains /\ RequestInv
<1>1. /\ globals = Base(cfg) /\ routes = {} /\ handled = {}
      /\ state = [r \in Requests |-> "none"]
      /\ chain = [r \in Requests |-> <<>>] /\ of = [r \in Requests |-> "none"]
      /\ at = [r \in Requests |-> 0] /\ passed = [r \in Requests |-> {}]
      /\ answer = [r \in Requests |-> "none"]
  BY DEF Init, LoaderInit
<1>2. RouteChains
  BY <1>1 DEF RouteChains, Engines
<1>3. HandlerBehindGuards
  BY <1>1 DEF HandlerBehindGuards
<1>4. RequestInv
  BY <1>1, <1>3 DEF RequestInv
<1> QED
  BY <1>2, <1>4

(* For any guards, routes and requests: a handler runs only for a request  *)
(* that every guard of its route let through (resolveGuards), and with the *)
(* access log and recovery on, every finished request has its line and no  *)
(* panic cuts a connection (installBaseMiddleware).                        *)
THEOREM HandlersBehindGuards == Spec => []HandlerBehindGuards
<1>1. Init => RouteChains /\ RequestInv
  BY RequestInvInit
<1>2. LoaderInv /\ RouteChains /\ RequestInv /\ [Next]_vars => RouteChains' /\ RequestInv'
  BY RouteChainsStep, RequestInvStep
<1>3. RequestInv => HandlerBehindGuards
  BY DEF RequestInv
<1> QED
  BY <1>1, <1>2, <1>3, LoaderInvariant, PTL DEF Spec
=============================================================================
