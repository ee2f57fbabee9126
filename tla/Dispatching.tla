---------------------------- MODULE Dispatching -----------------------------
(***************************************************************************)
(* From a resolved message to its reply (common/microservice/dispatch.go), *)
(* while registerController (server.go) is still adding handlers: every    *)
(* tagged field of a controller becomes a route in the router and a chain  *)
(* of guards and handler on a private gin engine, at a path made from a    *)
(* counter.  A message is served into a buffer of a shared pool, from      *)
(* which its reply is built.                                               *)
(*                                                                         *)
(* gin is external: a POST to a path runs the chain mounted there, a path  *)
(* without one answers 404, and RecoveryMiddleware turns a panic of the    *)
(* chain into an answer.  route.path and route.url are written without     *)
(* synchronisation; the reads see some prefix of the writes.               *)
(***************************************************************************)
EXTENDS Integers, Sequences, FiniteSets, Functions

CONSTANTS
    Fields,      \* the tagged fields, in the order in which they are registered
    Guarded,     \* those with a guard tag
    Inbound,     \* the messages
    Addressed,   \* Addressed[m]: the field whose pattern message m matches
    Buffers,     \* the buffers that the pool may allocate
    None         \* no buffer, no text, no answer

ASSUME DispatchingAssumption ==
    /\ Fields \in Seq(Range(Fields)) /\ IsInjective(Fields)
    /\ Guarded \subseteq Range(Fields) /\ Addressed \in [Inbound -> Range(Fields)]
    /\ None \notin Range(Fields) \cup Buffers
    /\ Cardinality(Inbound) <= Cardinality(Buffers)

VARIABLES
    at,         \* the position in Fields that registerController has reached
    stage,      \* where in it: "field", "added", "path", "url" or "failed"
    routes,     \* the fields in the router
    path,       \* path[f]: the number in route.path, or 0 before mount
    url,        \* the fields whose route.url is set
    engine,     \* engine[n]: the field whose chain is mounted at path n, or None
    tokens,     \* routeCounter
    step,       \* step[m]: "away", "resolve", "mounted", "serve", "build" or "over"
    due,        \* history: the messages that came after their registration
    idle,       \* the buffers in the pool
    held,       \* held[m]: the buffer that the dispatch of m holds, or None
    text,       \* text[b]: what the buffer holds, or None
    answer,     \* answer[m]: the reply, or None
    died        \* the messages on which the process crashed

dispatchVars == <<at, stage, routes, path, url, engine, tokens, step, due, idle, held,
                  text, answer, died>>
mountVars == <<at, stage, routes, path, url, engine, tokens>>
bufferVars == <<idle, held, text>>

Field == Fields[at]
Alive == died = {}

DispatchInit ==
    /\ at = 1 /\ stage = "field" /\ routes = {} /\ url = {} /\ tokens = 0
    /\ path = [f \in Range(Fields) |-> 0]
    /\ engine = [n \in 1..Len(Fields) |-> None]
    /\ step = [m \in Inbound |-> "away"] /\ due = {}
    /\ idle = {} /\ held = [m \in Inbound |-> None] /\ text = [b \in Buffers |-> None]
    /\ answer = [m \in Inbound |-> None] /\ died = {}

-----------------------------------------------------------------------------
(***************************************************************************)
(* registerController: the checks and Router.Add, then mount.              *)
(***************************************************************************)
Registering(s) == Alive /\ at <= Len(Fields) /\ stage = s

\* A tag, a handler, a guard or the pattern is refused: the registration
\* stops, and the fields before it stay.
RegisterFails ==
    /\ Registering("field")
    /\ stage' = "failed"
    /\ UNCHANGED <<at, routes, path, url, engine, tokens, step, due, bufferVars, answer, died>>

AddRoute ==
    /\ Registering("field")
    /\ routes' = routes \cup {Field} /\ stage' = "added"
    /\ UNCHANGED <<at, path, url, engine, tokens, step, due, bufferVars, answer, died>>

\* The mounting was moved behind the loop over the fields.
MountLastPath ==
    /\ Registering("added")
    /\ \/ /\ at < Len(Fields) /\ at' = at + 1 /\ stage' = "field"
          /\ UNCHANGED <<tokens, path>>
       \/ /\ at = Len(Fields) /\ stage' = "path" /\ UNCHANGED at
          /\ tokens' = tokens + 1 /\ path' = [path EXCEPT ![Field] = tokens + 1]
    /\ UNCHANGED <<routes, url, engine, step, due, bufferVars, answer, died>>

MountPath ==
    /\ Registering("added")
    /\ tokens' = tokens + 1 /\ path' = [path EXCEPT ![Field] = tokens + 1]
    /\ stage' = "path"
    /\ UNCHANGED <<at, routes, url, engine, step, due, bufferVars, answer, died>>

MountURL ==
    /\ Registering("path")
    /\ url' = url \cup {Field} /\ stage' = "url"
    /\ UNCHANGED <<at, routes, path, engine, tokens, step, due, bufferVars, answer, died>>

MountChain ==
    /\ Registering("url")
    /\ engine' = [engine EXCEPT ![path[Field]] = Field]
    /\ stage' = "field" /\ at' = at + 1
    /\ UNCHANGED <<routes, path, url, tokens, step, due, bufferVars, answer, died>>

\* The fields whose iteration of the loop is complete.
Registered == {Fields[i] : i \in 1..(at - 1)}

-----------------------------------------------------------------------------
(***************************************************************************)
(* A message, from the slot it was given to its reply.                     *)
(***************************************************************************)
Step(m, to) == step' = [step EXCEPT ![m] = to]
Answers(m, a) == answer' = [answer EXCEPT ![m] = a]

Comes(m) ==
    /\ Alive /\ step[m] = "away"
    /\ due' = IF Addressed[m] \in Registered THEN due \cup {m} ELSE due
    /\ Step(m, "resolve")
    /\ UNCHANGED <<mountVars, bufferVars, answer, died>>

\* Resolve, and dispatchRoute's look at route.path: PATTERN_NOT_FOUND.
Resolve(m) ==
    /\ Alive /\ step[m] = "resolve"
    /\ LET f == Addressed[m] IN
         \/ f \in routes /\ path[f] # 0 /\ Step(m, "mounted") /\ UNCHANGED answer
         \/ ~(f \in routes /\ path[f] # 0) /\ Step(m, "over") /\ Answers(m, [kind |-> "notfound", to |-> m])
    /\ UNCHANGED <<mountVars, due, bufferVars, died>>

\* *route.url is read and a buffer is taken from the pool, or allocated.  A
\* nil url is dereferenced outside the recovery middleware.
TakeBuffer(m) ==
    /\ Alive /\ step[m] = "mounted"
    /\ \/ /\ Addressed[m] \in url
          /\ \E b \in IF idle # {} THEN idle ELSE Buffers \ Range(held) :
               /\ idle' = idle \ {b} /\ held' = [held EXCEPT ![m] = b]
               /\ text' = [text EXCEPT ![b] = None]
          /\ Step(m, "serve") /\ UNCHANGED died
       \/ Addressed[m] \notin url /\ died' = died \cup {m} /\ UNCHANGED <<step, bufferVars>>
    /\ UNCHANGED <<mountVars, due, answer>>

\* What the engine writes: gin's own 404, a guard's refusal, the handler's
\* response, or the recovery's answer to a panic.
Writes(m) ==
    LET f == engine[path[Addressed[m]]] IN
    IF f = None THEN {[kind |-> "notfound", to |-> m]}
    ELSE {[kind |-> k, to |-> m, by |-> f] :
             k \in {"handler", "panic"} \cup (IF f \in Guarded THEN {"refused"} ELSE {})}

ServeAndPut(m) ==
    /\ Alive /\ step[m] = "serve"
    /\ \E w \in Writes(m) : text' = [text EXCEPT ![held[m]] = w]
    /\ idle' = idle \cup {held[m]}
    /\ Step(m, "build")
    /\ UNCHANGED <<mountVars, due, held, answer, died>>

Serve(m) ==
    /\ Alive /\ step[m] = "serve"
    /\ \E w \in Writes(m) : text' = [text EXCEPT ![held[m]] = w]
    /\ Step(m, "build")
    /\ UNCHANGED <<mountVars, due, idle, held, answer, died>>

\* The body is copied out of the buffer, which goes back to the pool.
BuildReply(m) ==
    /\ Alive /\ step[m] = "build"
    /\ Answers(m, text[held[m]])
    /\ idle' = idle \cup {held[m]} /\ held' = [held EXCEPT ![m] = None]
    /\ Step(m, "over")
    /\ UNCHANGED <<mountVars, due, text, died>>

RegisterStep == RegisterFails \/ AddRoute \/ MountPath \/ MountURL \/ MountChain

DispatchNext ==
    \/ RegisterStep
    \/ \E m \in Inbound : Comes(m) \/ Resolve(m) \/ TakeBuffer(m) \/ Serve(m) \/ BuildReply(m)

-----------------------------------------------------------------------------
(* "Copy the body out of the pooled buffer: the buffer goes back to the    *)
(* pool when Dispatch returns, and the reply outlives that"                *)
(* (dispatch.go:196-197), and a path comes from a counter, so that routes  *)
(* do not collide (dispatch.go:101-103): however many messages share the   *)
(* pool and whatever is being mounted, a reply holds what the chain of the *)
(* message's own route wrote for this message.                             *)
AnswerIsOwn ==
    \A m \in Inbound : answer[m] # None =>
        /\ answer[m].to = m
        /\ answer[m].kind # "notfound" => answer[m].by = Addressed[m]

(* registerController adds a route before it mounts its chain              *)
(* (server.go:251-258), so that a message in between is answered with 404  *)
(* or crashes the process on a nil URL.  Only such a message: one that     *)
(* comes when its field is registered reaches its guard and handler, also  *)
(* while other fields are being registered or one of them is refused.      *)
RegisteredIsReached ==
    \A m \in due : m \notin died /\ (answer[m] # None => answer[m].kind # "notfound")
=============================================================================
