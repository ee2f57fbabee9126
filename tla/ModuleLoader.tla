----------------------------- MODULE ModuleLoader ---------------------------
(***************************************************************************)
(* Bootstrap: LoadModule (module-loader.go) walks the import graph, builds *)
(* the providers of each module in a container of its own (container.go)   *)
(* and registers its controllers and their guarded routes (routes.go,      *)
(* guard.go), while observers of controllers (app.go) come and go.         *)
(*                                                                         *)
(* Types and modules are model values; a container is a set of pairs       *)
(* <<type, maker>>, with one maker per type.  A panic unwinds the whole    *)
(* LoadModule, running the deferred deletes of loadingModules.  Several    *)
(* goroutines may load: app.mu is taken around each access of the maps,    *)
(* not around the walk.                                                    *)
(***************************************************************************)
EXTENDS Integers, Sequences, FiniteSets

CONSTANTS
    Loaders,     \* the goroutines that call LoadModule
    Observers,   \* the callers of OnController
    Graphs,      \* the applications: see MCApplication
    Known,       \* the guards registered with AddGuard
    Root         \* the maker of the singletons

IsSequence(s) == s \in Seq({s[i] : i \in DOMAIN s})

\* An order of the modules in which the imports of a module come before it.
LoadOrders(modules) ==
    {rank \in [DOMAIN modules -> 0..Cardinality(DOMAIN modules)] :
       \A m \in DOMAIN modules : \A i \in DOMAIN modules[m].imports :
          rank[modules[m].imports[i]] < rank[m]}

ASSUME LoaderAssumption ==
    \A g \in Graphs :
       /\ IsFiniteSet(DOMAIN g.modules) /\ g.tops \subseteq DOMAIN g.modules
       /\ \A m \in DOMAIN g.modules :
            /\ g.modules[m].imports \in Seq(DOMAIN g.modules)
            /\ IsSequence(g.modules[m].provides) /\ IsSequence(g.modules[m].guards)
       /\ g.cyclic <=> LoadOrders(g.modules) = {}

VARIABLES
    graph,       \* the modules of this application
    stack,       \* stack[l]: the modules l is in, the innermost first
    exports,     \* moduleExports: <<module, pairs>> of the loaded modules
    loading,     \* loadingModules
    panicked,    \* the loaders that panicked: "cycle" or "wiring"
    globals,     \* the middleware of the engine
    routes,      \* the routes: [path, of, guards, chain]
    controllers, \* App.controllers, as the modules they belong to
    observers,   \* App.onController
    told,        \* told[o][m]: how often o was given the controller of m
    overlapped,  \* history: two loaders were at work at once
    built        \* history: built[m], the constructions of m not given up

loaderVars == <<graph, stack, exports, loading, panicked, globals, routes,
                controllers, observers, told, overlapped, built>>

Mod(m) == graph.modules[m]
Types(cont) == {p[1] : p \in cont}
\* Indexing replaces an earlier provider of the type.
Put(cont, new) == {p \in cont : p[1] \notin Types(new)} \cup new
Loaded == {e[1] : e \in exports}
ExportsOf(m) == (CHOOSE e \in exports : e[1] = m)[2]

\* The one provider of an interface, when exactly one implements it.
Candidates(t, cont) ==
    IF t \in DOMAIN graph.impls THEN {p \in cont : p[1] \in graph.impls[t]} ELSE {}
Resolves(t, cont) == t \in Types(cont) \/ Cardinality(Candidates(t, cont)) = 1

LoaderInit ==
    /\ graph \in Graphs
    /\ stack = [l \in Loaders |-> <<>>]
    /\ exports = {} /\ loading = {}
    /\ panicked = [l \in Loaders |-> "no"]
    /\ routes = {}
    /\ controllers = {} /\ observers = {}
    /\ told = [o \in Observers |-> [m \in DOMAIN graph.modules |-> 0]]
    /\ overlapped = FALSE
    /\ built = [m \in DOMAIN graph.modules |-> 0]

Snapshot == {<<t, Root>> : t \in graph.singletons}
Frame(m) == [mod |-> m, todo |-> Mod(m).imports, have |-> Snapshot, at |-> 1]
Top(l) == Head(stack[l])
Rest(l) == Tail(stack[l])
Become(l, frame) == stack' = [stack EXCEPT ![l] = <<frame>> \o Rest(l)]
Busy(l) == stack[l] # <<>>
FrameMods(l) == {stack[l][i].mod : i \in DOMAIN stack[l]}

Panic(l, why) ==
    /\ panicked' = [panicked EXCEPT ![l] = why]
    /\ stack' = [stack EXCEPT ![l] = <<>>]
    /\ loading' = loading \ FrameMods(l)
    /\ built' = [m \in DOMAIN built |-> IF m \in FrameMods(l) THEN built[m] - 1 ELSE built[m]]
    /\ UNCHANGED exports

\* Back in the importing module, whose container takes the exports.
Merge(rest, pairs) ==
    IF rest = <<>> THEN <<>>
    ELSE <<[Head(rest) EXCEPT !.todo = Tail(@), !.have = Put(@, pairs)]>> \o Tail(rest)

-----------------------------------------------------------------------------
EnterSharing(l, m) ==
    /\ m \notin Loaded /\ m \notin loading
    /\ loading' = loading \cup {m}
    /\ stack' = [stack EXCEPT ![l] =
                   <<[Frame(m) EXCEPT !.have = IF Busy(l) THEN Top(l).have ELSE @]>> \o @]
    /\ overlapped' = (overlapped \/ \E k \in Loaders \ {l} : Busy(k))
    /\ built' = [built EXCEPT ![m] = @ + 1]
    /\ UNCHANGED <<exports, panicked>>

EnterAgain(l, m) ==
    /\ m \notin loading
    /\ loading' = loading \cup {m}
    /\ stack' = [stack EXCEPT ![l] = <<Frame(m)>> \o @]
    /\ overlapped' = (overlapped \/ \E k \in Loaders \ {l} : Busy(k))
    /\ built' = [built EXCEPT ![m] = @ + 1]
    /\ UNCHANGED <<exports, panicked>>

EnterNew(l, m) ==
    /\ m \notin Loaded /\ m \notin loading
    /\ loading' = loading \cup {m}
    /\ stack' = [stack EXCEPT ![l] = <<Frame(m)>> \o @]
    /\ overlapped' = (overlapped \/ \E k \in Loaders \ {l} : Busy(k))
    /\ built' = [built EXCEPT ![m] = @ + 1]
    /\ UNCHANGED <<exports, panicked>>

\* Already loaded: the memo answers.
Recall(l, m) ==
    /\ m \in Loaded
    /\ stack' = [stack EXCEPT ![l] = Merge(@, ExportsOf(m))]
    /\ UNCHANGED <<exports, loading, panicked, overlapped, built>>

Circular(l, m) ==
    /\ m \notin Loaded /\ m \in loading
    /\ Panic(l, "cycle")
    /\ overlapped' = (overlapped \/ \E k \in Loaders \ {l} : Busy(k))

LoadModule(l) ==
    /\ ~Busy(l) /\ panicked[l] = "no"
    /\ \E m \in graph.tops : EnterNew(l, m) \/ Circular(l, m)
    /\ UNCHANGED <<graph, globals, routes, controllers, observers, told>>

Import(l) ==
    /\ Busy(l) /\ Top(l).todo # <<>>
    /\ LET m == Head(Top(l).todo) IN EnterNew(l, m) \/ Recall(l, m) \/ Circular(l, m)
    /\ UNCHANGED <<graph, globals, routes, controllers, observers, told>>

\* registerProvider: the constructor's parameters, then its result.
Provide(l) ==
    /\ Busy(l) /\ Top(l).todo = <<>> /\ Top(l).at <= Len(Mod(Top(l).mod).provides)
    /\ LET p == Mod(Top(l).mod).provides[Top(l).at] IN
         \/ /\ \A t \in p.needs : Resolves(t, Top(l).have)
            /\ Become(l, [Top(l) EXCEPT !.at = @ + 1,
                            !.have = Put(@, {<<t, Top(l).mod>> : t \in p.types})])
            /\ UNCHANGED <<exports, loading, panicked, built>>
         \/ (\E t \in p.needs : ~Resolves(t, Top(l).have)) /\ Panic(l, "wiring")
    /\ UNCHANGED <<graph, globals, routes, controllers, observers, told, overlapped>>

RouteOfUnguarded(m) == [path |-> Mod(m).route, of |-> m, guards |-> Mod(m).guards,
                        chain |-> globals \o <<"handler">>]

\* resolveGuards: every name of the tag, in its order, or a panic.
RouteOf(m) == [path |-> Mod(m).route, of |-> m, guards |-> Mod(m).guards,
               chain |-> globals \o Mod(m).guards \o <<"handler">>]
GuardsKnown(m) == \A i \in DOMAIN Mod(m).guards : Mod(m).guards[i] \in Known
\* What the controller is built from, in the container of its module.
Injected(m, cont) == \A t \in Mod(m).needs : Resolves(t, cont)

AtControllers(l) ==
    /\ Busy(l) /\ Top(l).todo = <<>>
    /\ Top(l).at = Len(Mod(Top(l).mod).provides) + 1

\* A controller is built; RegisterControllers: the routes, then the record
\* and the observers.
Control(l) ==
    /\ AtControllers(l)
    /\ LET m == Top(l).mod IN
         \/ /\ Mod(m).controller = "none"
            /\ Become(l, [Top(l) EXCEPT !.at = @ + 1])
            /\ UNCHANGED <<exports, loading, panicked, built, routes, controllers, told>>
         \/ /\ Mod(m).controller = "route"
            /\ Injected(m, Top(l).have) /\ GuardsKnown(m)
            /\ \A r \in routes : r.path # Mod(m).route
            /\ routes' = routes \cup {RouteOf(m)}
            /\ controllers' = controllers \cup {m}
            /\ told' = [o \in Observers |-> IF o \in observers THEN [told[o] EXCEPT ![m] = @ + 1]
                                                               ELSE told[o]]
            /\ Become(l, [Top(l) EXCEPT !.at = @ + 1])
            /\ UNCHANGED <<exports, loading, panicked, built>>
         \/ /\ Mod(m).controller = "route"
            /\ \/ ~Injected(m, Top(l).have) \/ ~GuardsKnown(m)
               \/ \E r \in routes : r.path = Mod(m).route
            /\ Panic(l, "wiring")
            /\ UNCHANGED <<routes, controllers, told>>
    /\ UNCHANGED <<graph, globals, observers, overlapped>>

\* The exports, the memo, and the deferred delete.
Leave(l) ==
    /\ Busy(l) /\ Top(l).at = Len(Mod(Top(l).mod).provides) + 2
    /\ LET m == Top(l).mod
           out == {p \in Top(l).have : p[1] \in Mod(m).exports} IN
         \/ /\ Mod(m).exports \subseteq Types(Top(l).have)
            /\ exports' = {e \in exports : e[1] # m} \cup {<<m, out>>}
            /\ loading' = loading \ {m}
            /\ stack' = [stack EXCEPT ![l] = Merge(Rest(l), out)]
            /\ UNCHANGED <<panicked, built>>
         \/ ~(Mod(m).exports \subseteq Types(Top(l).have)) /\ Panic(l, "wiring")
    /\ UNCHANGED <<graph, globals, routes, controllers, observers, told, overlapped>>

-----------------------------------------------------------------------------
OnControllerLater(o) ==
    /\ o \notin observers
    /\ observers' = observers \cup {o}
    /\ UNCHANGED <<graph, stack, exports, loading, panicked, globals, routes, controllers, told,
                   overlapped, built>>

\* OnController: one critical section, then the controllers so far.
OnController(o) ==
    /\ o \notin observers
    /\ observers' = observers \cup {o}
    /\ told' = [told EXCEPT ![o] = [m \in DOMAIN @ |-> @[m] + (IF m \in controllers THEN 1 ELSE 0)]]
    /\ UNCHANGED <<graph, stack, exports, loading, panicked, globals, routes, controllers,
                   overlapped, built>>

\* App.Use: only the routes registered from now on have it in their chain.
Use(middleware) ==
    /\ middleware \notin {globals[i] : i \in DOMAIN globals}
    /\ globals' = Append(globals, middleware)
    /\ UNCHANGED <<graph, stack, exports, loading, panicked, routes, controllers, observers, told,
                   overlapped, built>>

LoaderStep(l) == LoadModule(l) \/ Import(l) \/ Provide(l) \/ Control(l) \/ Leave(l)
\* The modules are loaded, and every setup call was made.
Booted ==
    /\ graph.tops \subseteq Loaded /\ \A l \in Loaders : ~Busy(l) /\ panicked[l] = "no"
    /\ observers = Observers

-----------------------------------------------------------------------------
\* What module m may be given: its own providers, and what its imports export.
MayHold(m, p) ==
    \/ p[2] \in {Root, m}
    \/ \E i \in DOMAIN Mod(m).imports :
          Mod(m).imports[i] \in Loaded /\ p \in ExportsOf(Mod(m).imports[i])

(* "a module's local providers never leak into the root container or into  *)
(* sibling modules" (container.go:213-214): a container holds singletons,  *)
(* the module's own providers and what the imported modules export.        *)
PrivateStaysPrivate ==
    /\ \A l \in Loaders : \A i \in DOMAIN stack[l] :
         \A p \in stack[l][i].have : MayHold(stack[l][i].mod, p)
    /\ \A e \in exports : \A p \in e[2] : MayHold(e[1], p)

(* A module that several others import is built once (module-loader.go:36): *)
(* however the loaders interleave, no second construction of it starts     *)
(* beside the first or after it, unless a panic gave the first one up.     *)
(* And a circular import is reported only of a graph that has one, or to   *)
(* two goroutines that load at once: the lock is not held "for the whole   *)
(* traversal" (module-loader.go:16-18), and the second of them takes the   *)
(* mark of the first for a cycle.                                          *)
EachModuleOnce ==
    /\ \A m \in DOMAIN built : built[m] <= 1
    /\ \A l \in Loaders : panicked[l] = "cycle" => graph.cyclic \/ overlapped

(* OnController: an observer "receives every controller the app registers, *)
(* including those registered before this call" (app.go:147-148), each     *)
(* exactly once, whichever came first.                                     *)
EveryControllerHeardOnce ==
    \A o \in observers : \A m \in DOMAIN told[o] :
       told[o][m] = IF m \in controllers THEN 1 ELSE 0
=============================================================================
