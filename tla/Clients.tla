------------------------------- MODULE Clients ------------------------------
(***************************************************************************)
(* The client halves of the seven transports behind the one Publisher      *)
(* interface of common/microservice/transport.go.  The process uses one of *)
(* them, chosen initially; what the interface promises is stated once, for *)
(* all of them.                                                            *)
(***************************************************************************)
EXTENDS MemoryTransport, RabbitClient, KafkaClient, PubSubClient, StreamClient

CONSTANT Transports   \* the transports of this model

ASSUME ClientsAssumption ==
    Transports \subseteq {"memory", "rabbit", "kafka", "redis", "nats", "tcp", "grpc"}

vars == <<transport, kind, clientVars, memoryVars, rabbitVars, connClosed>>

Init ==
    /\ transport \in Transports
    /\ ClientInit /\ MemoryInit /\ RabbitInit
    /\ (\E c \in Callers : kind[c] = "direct") => transport = "memory"
    /\ connClosed = FALSE

\* A step of one transport leaves the variables of the others alone.
Of(t) ==
    /\ transport = t
    /\ UNCHANGED <<transport, kind>>
    /\ t # "memory" => UNCHANGED memoryVars
    /\ t # "rabbit" => UNCHANGED rabbitVars
    /\ t # "nats" => UNCHANGED connClosed

CallerStep(c) ==
    \/ Of("memory") /\ MemoryCallerStep(c)
    \/ Of("rabbit") /\ RabbitCallerStep(c)
    \/ Of("kafka") /\ KafkaCallerStep(c)
    \/ Of("redis") /\ RedisCallerStep(c)
    \/ Of("nats") /\ NatsCallerStep(c)
    \/ Of("tcp") /\ TcpCallerStep(c)
    \/ Of("grpc") /\ GrpcCallerStep(c)

\* The rest of a Close that has begun.
CloserStep ==
    \/ Of("memory") /\ MemoryClose
    \/ Of("rabbit") /\ RabbitClose
    \/ Of("kafka") /\ KafkaClose
    \/ Of("redis") /\ RedisClose
    \/ Of("nats") /\ NatsClose
    \/ Of("tcp") /\ TcpClose
    \/ Of("grpc") /\ GrpcClose

\* The goroutines that outlive a call.
Watch == Of("rabbit") /\ \E s \in Links : WatchDead(s) \/ WatchFailPending(s)
Serve == Of("memory") /\ ListenerStep

\* The network, the peer and the callers' own decisions.
World ==
    \/ Of("memory") /\ MemoryNext
    \/ Of("rabbit") /\ RabbitNext
    \/ Of("kafka") /\ KafkaNext
    \/ Of("redis") /\ RedisNext
    \/ Of("nats") /\ NatsNext
    \/ Of("tcp") /\ TcpNext
    \/ Of("grpc") /\ GrpcNext

Untouched == UNCHANGED <<transport, kind, memoryVars, rabbitVars, connClosed>>
ExpireStep(c) == Expire(c) /\ Untouched

Next ==
    \/ World \/ CloserStep \/ Watch \/ Serve
    \/ CloseBegins /\ Untouched
    \/ transport \in {"rabbit", "tcp"} /\ Untouched /\ \E s \in Links : LinkBreaks(s)
    \/ \E c \in Callers : CallerStep(c) \/ ExpireStep(c) \/ (PeerHandles(c) /\ Untouched)

Spec == Init /\ [][Next]_vars

(***************************************************************************)
(* The goroutines of the callers and of Close run, and attempts to reach   *)
(* the broker end one way or the other.  A Request always carries a        *)
(* deadline; the other contexts may never be done.  Nobody has to call,    *)
(* close or cancel, no message has to be handled, confirmed or answered,   *)
(* no handler of a direct dispatch has to return, and no broken link has   *)
(* to be noticed.                                                          *)
(***************************************************************************)
FairSpec ==
    /\ Spec
    /\ \A c \in Callers : WF_vars(CallerStep(c)) /\ WF_vars(Requests(c) /\ ExpireStep(c))
    /\ WF_vars(CloserStep)

-----------------------------------------------------------------------------
(* Every variable holds a value of its type. *)
TypeOK ==
    /\ pc \in [Callers -> {"idle", "link", "dialing", "register", "send", "confirm", "await",
                           "wait", "run", "done"}]
    /\ on \in [Callers -> 0..created] /\ link \in 0..created /\ created \in 0..MaxLinks
    /\ expired \in SUBSET Callers /\ pending \in SUBSET Callers /\ ran \in SUBSET Callers
    /\ reply \in [Callers -> {"none", "reply", "refused"}]
    /\ result \in [Callers -> {"none", "accepted", "reply", "refused", "timeout", "closed",
                               "failed"}]
    /\ lock \in Callers \cup {Nobody}
    /\ once \in {"fresh", "running", "ready", "failed", "tripped"}
    /\ open \in SUBSET Links /\ dead \in SUBSET Links /\ leaked \in SUBSET (0..MaxLinks)
    /\ closed \in BOOLEAN /\ closer \in {"idle", "begun", "detached", "done"}
    /\ wire \in [Callers -> {"none", "sent", "answered", "gone"}]
    /\ queue \in Seq(Callers) /\ Len(queue) <= Buffer

(* A hundred callers that meet a dead connection produce one reconnect     *)
(* (rabbitmq/session.go:45-46), and Close leaves nothing open behind, also *)
(* when a caller was obtaining the link while it ran, and no later call    *)
(* opens another.  Two exceptions: a Kafka reply reader whose Once was     *)
(* running when Close looked for it is never closed, and a NATS connection *)
(* that replaced another is drained without being waited for.              *)
NoStrayConnection ==
    /\ open \subseteq {link} \cup leaked
    /\ closer = "done" => open \subseteq leaked

Correlates == transport \in {"rabbit", "kafka", "redis", "tcp"}
Waiting(c) == Requests(c) /\ pc[c] \in {"link", "dialing", "send", "confirm", "await"}

(* "The entry disappears on every path: reply, timeout, cancellation,      *)
(* connection loss, close" (rabbitmq/publish.go:129-131): an entry belongs *)
(* to a call that still waits.                                             *)
NoEntryOutlivesItsCall == \A c \in pending : Waiting(c)

(* A request that is out on a live link can be answered: its entry is      *)
(* registered, or the reply is in its channel.  The exception is the       *)
(* RabbitMQ watcher of an earlier session: when it runs late, failPending  *)
(* also drops the entries of the next session, whose requests then wait    *)
(* out their timeout.                                                      *)
LiveRequestIsRegistered ==
    Correlates =>
        \A c \in Callers \ wiped :
            (Requests(c) /\ pc[c] \in {"confirm", "await"} /\ on[c] \in open \ dead /\ ~closed) =>
                c \in pending \/ reply[c] # "none"

\* The messages the in-process transport took.
Taken == {c \in Callers : c \in InQueue \/ c = current \/ c \in ran}

(* An error from Publish of the in-process transport is final: the message *)
(* is in no queue and never reaches a handler, so sending it again cannot  *)
(* duplicate it.                                                           *)
FailedPublishLeavesNothing ==
    transport = "memory" =>
        \A c \in Callers :
            (kind[c] = "publish" /\ result[c] \in {"timeout", "closed"}) => c \notin Taken

RR == INSTANCE RequestReply WITH
        Calls <- Callers,
        state <- [c \in Callers |-> IF pc[c] = "idle" THEN "idle"
                                    ELSE IF pc[c] = "done" THEN result[c] ELSE "open"],
        ran <- [c \in Callers |-> c \in ran]

(* Every transport keeps the promise of the Publisher interface: one       *)
(* outcome for each call, and a reply only when a handler ran on it.       *)
ImplementsRequestReply == RR!Spec

\* A direct dispatch whose handler has not returned.
InHandler(c) == pc[c] = "run" /\ c \notin ran

(* Every Request returns, whatever the broker and the peer do: an          *)
(* unbounded one "would pin a goroutine and a correlation entry forever"   *)
(* (transport.go:88-89).  And Close releases every call, also a Publish    *)
(* whose own context is never done, or whose broker never confirms; but    *)
(* for the direct dispatch that runs a handler, which is the handler's.    *)
CallsReturn ==
    \A c \in Callers :
        (pc[c] # "idle" /\ (Requests(c) \/ closed)) ~> (pc[c] = "done" \/ InHandler(c))
=============================================================================
