----------------------------- MODULE ClientCalls ----------------------------
(***************************************************************************)
(* What the client halves of the transports share.  A caller makes one     *)
(* call, Publish or Request, so it also names the envelope and the         *)
(* correlation id.  A call goes through stages: it obtains the link (an    *)
(* AMQP session, a TCP or NATS connection, a Redis inbox, a Kafka reply    *)
(* reader, a gRPC client connection), registers in the pending map, sends, *)
(* and for a request waits in a select for the reply, its context or       *)
(* Close.  Links are numbered as they are created; 0 is nil.               *)
(*                                                                         *)
(* The network and the peer are external: a link breaks at any moment, the *)
(* peer handles a message and answers it at any later time or never, and a *)
(* link that is gone takes the replies on it along.                        *)
(***************************************************************************)
EXTENDS Integers, Sequences, FiniteSets

CONSTANTS
    Callers,   \* goroutines that call the transport, one call each
    Kinds,     \* the kinds of call they may make: k[c] for each caller
    MaxLinks,  \* bound: how many links are created
    Nobody     \* no caller: a free mutex, an empty slot

ASSUME ClientCallsAssumption ==
    /\ Kinds \subseteq [Callers -> {"publish", "request", "direct"}]
    /\ MaxLinks \in Nat \ {0}
    /\ Nobody \notin Callers

VARIABLES
    transport, \* which transport the process uses
    kind,      \* kind[c]: "publish", "request" or "direct" (memory's Dispatch)
    pc,        \* pc[c]: the stage of c's call
    on,        \* on[c]: the link c got
    expired,   \* the calls whose context is done
    reply,     \* reply[c]: what c's reply channel of capacity 1 holds
    result,    \* result[c]: "none" or the outcome
    pending,   \* the keys of the map of pending requests
    lock,      \* the caller that holds the mutex of the link, or Nobody
    once,      \* a sync.Once: "fresh", "running", "ready", "failed" or "tripped"
    link,      \* the current link of the transport
    created,   \* the number of links created
    open,      \* the links whose connection is open
    dead,      \* the links whose done channel is closed
    closed,    \* the transport's closed channel is closed
    closer,    \* Close: "idle", "begun", "detached" or "done"
    wire,      \* external: wire[c]: "none", "sent", "answered" or "gone"
    ran,       \* external: the messages a handler ran on
    leaked     \* history: links that Close does not take down

callVars == <<pc, on, expired, reply, result>>
linkVars == <<link, created, open, dead>>
closeVars == <<closed, closer>>
netVars == <<wire, ran>>
mutexVars == <<lock, once>>
clientVars == <<callVars, pending, mutexVars, linkVars, closeVars, netVars, leaked>>

Links == 1..MaxLinks

ClientInit ==
    /\ kind \in Kinds
    /\ pc = [c \in Callers |-> "idle"]
    /\ on = [c \in Callers |-> 0]
    /\ expired = {}
    /\ reply = [c \in Callers |-> "none"]
    /\ result = [c \in Callers |-> "none"]
    /\ pending = {}
    /\ lock = Nobody /\ once = "fresh"
    /\ link = 0 /\ created = 0 /\ open = {} /\ dead = {}
    /\ closed = FALSE /\ closer = "idle"
    /\ wire = [c \in Callers |-> "none"] /\ ran = {}
    /\ leaked = {}

Requests(c) == kind[c] = "request"
Goto(c, to) == pc' = [pc EXCEPT ![c] = to] /\ UNCHANGED <<on, expired, reply, result>>
GotOn(c, s, to) ==
    /\ pc' = [pc EXCEPT ![c] = to]
    /\ on' = [on EXCEPT ![c] = s]
    /\ UNCHANGED <<expired, reply, result>>

ReturnUnreleased(c, outcome) ==
    /\ pc' = [pc EXCEPT ![c] = "done"]
    /\ result' = [result EXCEPT ![c] = outcome]
    /\ on' = [on EXCEPT ![c] = 0]
    /\ expired' = expired \ {c}
    /\ reply' = [reply EXCEPT ![c] = "none"]
    /\ UNCHANGED pending

\* The call returns: the deferred release drops the pending entry, and what
\* the call held is forgotten.
Return(c, outcome) ==
    /\ pc' = [pc EXCEPT ![c] = "done"]
    /\ result' = [result EXCEPT ![c] = outcome]
    /\ pending' = pending \ {c}
    /\ on' = [on EXCEPT ![c] = 0]
    /\ expired' = expired \ {c}
    /\ reply' = [reply EXCEPT ![c] = "none"]

\* The check of closed at the head of Publish and Request.
Begin(c, to) ==
    /\ pc[c] = "idle"
    /\ \/ closed /\ Return(c, "closed")
       \/ ~closed /\ Goto(c, to) /\ UNCHANGED pending
    /\ UNCHANGED <<mutexVars, linkVars, closeVars, netVars, leaked>>

RegisterNobody(c, to) ==
    /\ pc[c] = "register" /\ Goto(c, to)
    /\ UNCHANGED <<pending, mutexVars, linkVars, closeVars, netVars, leaked>>

\* The entry is made before the message is sent.
Register(c, to) ==
    /\ pc[c] = "register" /\ Goto(c, to)
    /\ pending' = pending \cup {c}
    /\ UNCHANGED <<mutexVars, linkVars, closeVars, netVars, leaked>>

\* The message is on its way; a publish is done with it, a request waits.
Sent(c) ==
    /\ IF Requests(c) THEN Goto(c, "await") /\ UNCHANGED pending ELSE Return(c, "accepted")
    /\ wire' = [wire EXCEPT ![c] = "sent"]
    /\ UNCHANGED ran

AwaitAnything(c, outcomes) ==
    /\ pc[c] = "await"
    /\ reply[c] # "none" \/ closed \/ c \in expired
    /\ Return(c, "reply")
    /\ UNCHANGED <<mutexVars, linkVars, closeVars, netVars, leaked>>

\* The select of a waiting request: any ready case may be taken.  The
\* transport's own cases are given by their outcomes.
Await(c, outcomes) ==
    /\ pc[c] = "await"
    /\ \/ reply[c] # "none" /\ Return(c, reply[c])
       \/ \E outcome \in outcomes : Return(c, outcome)
       \/ closed /\ Return(c, "closed")
       \/ c \in expired /\ Return(c, "timeout")
    /\ UNCHANGED <<mutexVars, linkVars, closeVars, netVars, leaked>>

\* The goroutine that reads replies finds the entry and fills its channel.
Deliver(c, entries) ==
    /\ wire[c] = "answered" /\ on[c] \in open
    /\ wire' = [wire EXCEPT ![c] = "gone"]
    /\ reply' = IF c \in entries THEN [reply EXCEPT ![c] = "reply"] ELSE reply
    /\ UNCHANGED <<pc, on, expired, result, mutexVars, linkVars, closeVars, ran, leaked>>

\* A link was established and becomes the current one.
NewLink ==
    /\ created < MaxLinks
    /\ created' = created + 1 /\ link' = created + 1
    /\ open' = open \cup {created + 1}
    /\ UNCHANGED dead

CloseBegins ==
    /\ closer = "idle"
    /\ closed' = TRUE /\ closer' = "begun"
    /\ UNCHANGED <<callVars, pending, mutexVars, linkVars, netVars, leaked>>

-----------------------------------------------------------------------------
(***************************************************************************)
(* The environment.  A deadline is modelled where the code watches it.     *)
(***************************************************************************)
Expire(c) ==
    /\ pc[c] \in {"dialing", "send", "confirm", "await", "wait", "run"}
    /\ c \notin expired
    /\ expired' = expired \cup {c}
    /\ UNCHANGED <<pc, on, reply, result, pending, mutexVars, linkVars, closeVars, netVars,
                   leaked>>

\* A handler runs, and its reply is sent to a requester that is still there.
PeerHandles(c) ==
    /\ wire[c] = "sent"
    /\ wire' = [wire EXCEPT ![c] = IF on[c] \in open /\ (Requests(c) \/ transport = "grpc")
                                   THEN "answered" ELSE "gone"]
    /\ ran' = ran \cup {c}
    /\ UNCHANGED <<callVars, pending, mutexVars, linkVars, closeVars, leaked>>

LinkBreaks(s) ==
    /\ s \in open
    /\ open' = open \ {s}
    /\ UNCHANGED <<callVars, pending, mutexVars, link, created, dead, closeVars, netVars, leaked>>
=============================================================================
