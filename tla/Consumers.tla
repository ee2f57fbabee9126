------------------------------ MODULE Consumers -----------------------------
(***************************************************************************)
(* The consuming halves of the six networked transports behind the one     *)
(* Transport.Listen of common/microservice/transport.go.  The process      *)
(* listens on one of them, chosen initially; what the dispatcher may rely  *)
(* on is stated once, for all of them.                                     *)
(***************************************************************************)
EXTENDS KafkaConsumer, RabbitConsumer, PubSubConsumer, StreamServer

CONSTANT Transports   \* the transports of this model

ASSUME ConsumersAssumption ==
    Transports \subseteq {"kafka", "rabbit", "nats", "redis", "tcp", "grpc"}

vars == <<transport, consumingVars, kafkaVars, rabbitVars>>

Init ==
    /\ transport \in Transports
    /\ ConsumingInit /\ KafkaInit /\ RabbitInit
    /\ requeue => transport = "rabbit"

\* A step of one transport leaves the variables of the others alone.
Of(t) ==
    /\ transport = t
    /\ UNCHANGED transport
    /\ t # "kafka" => UNCHANGED kafkaVars
    /\ t # "rabbit" => UNCHANGED rabbitVars

Listen ==
    \/ Of("kafka") /\ KafkaListen
    \/ Of("rabbit") /\ RabbitListen
    \/ Of("nats") /\ NatsListen
    \/ Of("redis") /\ RedisListen
    \/ Of("tcp") /\ TcpListen
    \/ Of("grpc") /\ GrpcListen

Loop ==
    \/ Of("kafka") /\ KafkaLoop
    \/ Of("rabbit") /\ RabbitLoop
    \/ Of("nats") /\ NatsLoop
    \/ Of("redis") /\ RedisLoop
    \/ Of("tcp") /\ TcpLoop
    \/ Of("grpc") /\ GrpcLoop

Handle(m) ==
    \/ Of("kafka") /\ KafkaHandle(m)
    \/ Of("rabbit") /\ RabbitHandle(m)
    \/ Of("nats") /\ NatsHandle(m)
    \/ Of("redis") /\ RedisHandle(m)
    \/ Of("tcp") /\ TcpHandle(m)
    \/ Of("grpc") /\ GrpcHandle(m)

\* The loop sees that it has to end, and Listen waits and returns.
LoopStops ==
    \/ Of("kafka") /\ cancelled /\ FetchFails
    \/ Of("rabbit") /\ LoopEnds
    \/ Of("redis") /\ RedisLoopEnds
    \/ Of("tcp") /\ TcpReadEnds
    \/ Of("grpc") /\ GrpcStops

ListenReturns ==
    \/ Of("kafka") /\ KafkaListenReturns
    \/ Of("rabbit") /\ RabbitListenReturns
    \/ Of("nats") /\ NatsListenReturns
    \/ Of("redis") /\ RedisListenReturns
    \/ Of("tcp") /\ TcpListenReturns
    \/ Of("grpc") /\ GrpcListenReturns

\* The broker, the peer, the crash of the process and the server's decisions.
World ==
    \/ Of("kafka") /\ KafkaNext
    \/ Of("rabbit") /\ RabbitNext
    \/ Of("nats") /\ NatsNext
    \/ Of("redis") /\ RedisNext
    \/ Of("tcp") /\ TcpNext
    \/ Of("grpc") /\ GrpcNext

Next ==
    \/ World \/ Listen \/ Loop \/ LoopStops \/ ListenReturns
    \/ \E m \in Messages : Handle(m)

Spec == Init /\ [][Next]_vars

(***************************************************************************)
(* The goroutines of the process run, handlers return, and the broker      *)
(* delivers on an open channel.  Go's select chooses at random among the   *)
(* cases that are ready, so a loop that is told to stop again and again    *)
(* does stop: strong fairness of LoopStops.  The supervisor calls Listen   *)
(* again (server.go).  Nobody has to send, cancel or close, and nothing    *)
(* has to be lost.                                                         *)
(***************************************************************************)
Progress == Listen \/ Loop \/ ListenReturns \/ \E m \in Messages : Handle(m)
BrokerDelivers == Of("rabbit") /\ \E m \in Messages : Deliver(m)

-----------------------------------------------------------------------------
\* What the transport will not give to a handler again.
Settled ==
    CASE transport = "kafka" -> Passed
      [] transport = "rabbit" -> Gone
      [] OTHER -> {m \in 1..sent : stage[m] = "none"} \ (InBuffer \cup {taken})

\* Turned away for good: with Options.Requeue the broker keeps the message.
TurnedAway == IF transport = "rabbit" /\ requeue THEN {} ELSE refused

(* A message is settled only when a handler ran on it, its bytes were no   *)
(* envelope, or a shutdown turned it away: a crash, a lost channel, a      *)
(* failed commit or a cancelled wait for a slot does not make it vanish,   *)
(* and on Kafka no later offset passes a message that waits, which rests   *)
(* on Concurrency 1 (kafkamq.go:80-81).                                    *)
(* The transports that keep nothing add what a closing connection drops.   *)
GoneIsAccountedFor ==
    Settled \subseteq Handled \cup Malformed \cup TurnedAway \cup dropped

(* The reply precedes the settlement: a request that ran and will not run  *)
(* again had its reply sent, or its sending was attempted.                 *)
AnsweredBeforeSettled ==
    Settled \cap Handled \cap Requests \subseteq replied \cup TurnedAway \cup dropped

(* A handler runs twice on a message only when the consumer or its channel *)
(* was lost in between; without a broker to redeliver, never.              *)
RerunsOnlyAfterLoss == \A m \in Messages : runs[m] <= 1 + losses

(* When Listen has returned no handler is left running, so that the server *)
(* may release what handlers use; unless its wait was bounded and given    *)
(* up.  NATS is the exception: its Listen does not wait, and its callbacks *)
(* go on during the drain.                                                 *)
NoHandlerOutlivesListen ==
    (loop \in {"off", "returned"} /\ transport # "nats" /\ ~forced) => Active = {}

(* Every message that was given to a consumer is taken up in the end, past *)
(* malformed ones, losses and restarts.                                    *)
EveryMessageIsTaken ==
    \A m \in Messages :
        (m <= sent \/ transport = "rabbit") ~> m \in Handled \cup Malformed \cup refused \cup dropped

(* A cancelled Listen ends, whatever was in flight.                        *)
CancelEndsListen == cancelled ~> loop \in {"off", "returned"}
=============================================================================
