---------------------------- MODULE RabbitConsumer --------------------------
(***************************************************************************)
(* The consuming half of the RabbitMQ transport                            *)
(* (common/microservice/transport/rabbitmq/listen.go): one service queue,  *)
(* one consumer that takes deliveries, runs them through the dispatcher    *)
(* and settles them, the loss of its channel, the crash of its process and *)
(* the shutdown that cancels Listen.                                       *)
(*                                                                         *)
(* The broker is external: it pushes at most Prefetch unsettled messages,  *)
(* and the ones left unsettled on a channel that closes go back to the     *)
(* queue.  Deliveries are settled by hand (Options.AutoAck is off).        *)
(***************************************************************************)
EXTENDS Consuming

CONSTANT Prefetch   \* Options.Prefetch

ASSUME PrefetchAssumption == Prefetch \in Nat \ {0}

VARIABLES
    requeue,     \* Options.Requeue of this deployment
    ready,       \* the broker: the messages waiting in the queue
    unsettled,   \* the broker: those delivered on the open channel
    channel,     \* the consumer channel is open
    deliveries   \* the deliveries channel

brokerVars == <<ready, unsettled, channel>>
rabbitVars == <<requeue, brokerVars, deliveries>>

Gone == Messages \ (ready \cup unsettled)

RabbitInit ==
    /\ requeue \in BOOLEAN
    /\ ready = Messages /\ unsettled = {} /\ channel = FALSE
    /\ deliveries = {}

Deliver(m) ==
    /\ channel /\ m \in ready
    /\ Cardinality(unsettled) < Prefetch
    /\ ready' = ready \ {m} /\ unsettled' = unsettled \cup {m}
    /\ deliveries' = deliveries \cup {m}
    /\ UNCHANGED <<consumingVars, requeue, channel>>

\* The channel is gone, and with it the claim on what it delivered.
LoseChannel ==
    /\ channel' = FALSE
    /\ ready' = ready \cup unsettled /\ unsettled' = {}
    /\ losses' = losses + 1

\* The client library may or may not drain what it has buffered.
ChannelDies ==
    /\ channel /\ losses < MaxLosses
    /\ LoseChannel
    /\ deliveries' \in {deliveries, {}}
    /\ UNCHANGED <<sent, loopVars, stage, history, requeue>>

\* Called by the supervisor, or by the process that replaces this one.
RabbitListen ==
    /\ loop = "off" /\ loop' = "up"
    /\ channel' = TRUE /\ cancelled' = FALSE /\ deliveries' = {}
    /\ UNCHANGED <<sent, closed, buffer, taken, stage, losses, history, requeue, ready, unsettled>>

Take(m) ==
    /\ loop = "up" /\ taken = 0
    /\ m \in deliveries
    /\ taken' = m /\ deliveries' = deliveries \ {m}
    /\ UNCHANGED <<sent, loop, cancelled, closed, buffer, stage, losses, history, requeue,
                   brokerVars>>

\* Malformed bytes are rejected without requeue.
RabbitSpawn == loop = "up" /\ Spawn("drop") /\ UNCHANGED rabbitVars

DropTaken ==
    /\ loop = "up" /\ taken # 0 /\ cancelled
    /\ unsettled' = unsettled \ {taken}
    /\ taken' = 0 /\ loop' = "draining"
    /\ UNCHANGED <<sent, cancelled, closed, buffer, stage, losses, history, requeue, ready,
                   channel, deliveries>>

\* The slot's select took ctx.Done: nack with requeue, Listen returns.
NackTaken ==
    /\ loop = "up" /\ taken # 0 /\ cancelled
    /\ ready' = ready \cup (unsettled \cap {taken})
    /\ unsettled' = unsettled \ {taken}
    /\ taken' = 0 /\ loop' = "draining"
    /\ UNCHANGED <<sent, cancelled, closed, buffer, stage, losses, history, requeue, channel,
                   deliveries>>

LoopEndsWithChannel ==
    /\ loop = "up" /\ taken = 0 /\ ~channel
    /\ loop' = "draining"
    /\ UNCHANGED <<sent, cancelled, closed, buffer, taken, stage, losses, history, rabbitVars>>

\* Cancelled or closed, or told that the channel or connection is closed.
LoopEnds ==
    /\ loop = "up" /\ taken = 0
    /\ cancelled \/ ~channel
    /\ loop' = "draining"
    /\ UNCHANGED <<sent, cancelled, closed, buffer, taken, stage, losses, history, rabbitVars>>

\* The deferred wg.Wait, then ch.Close.
RabbitListenReturns ==
    /\ loop = "draining" /\ Active = {}
    /\ loop' = "off" /\ deliveries' = {}
    /\ \/ channel /\ LoseChannel
       \/ ~channel /\ UNCHANGED <<brokerVars, losses>>
    /\ UNCHANGED <<sent, cancelled, closed, buffer, taken, stage, history, requeue>>

-----------------------------------------------------------------------------
SettleEarly(m) ==
    /\ stage[m] \in {"reply", "ack", "requeue", "drop"}
    /\ Advance(m, "none")
    /\ unsettled' = unsettled \ {m}
    /\ UNCHANGED <<sent, loopVars, losses, history, requeue, ready, channel, deliveries>>

\* On a channel that is gone there is nothing to settle.
Settle(m) ==
    /\ stage[m] \in {"ack", "requeue", "drop"}
    /\ Advance(m, "none")
    /\ \/ /\ m \in unsettled
          /\ unsettled' = unsettled \ {m}
          /\ ready' = IF stage[m] = "requeue" THEN ready \cup {m} ELSE ready
       \/ m \notin unsettled /\ UNCHANGED <<ready, unsettled>>
    /\ UNCHANGED <<sent, loopVars, losses, history, requeue, channel, deliveries>>

RabbitCancel == losses < MaxLosses /\ Cancel /\ UNCHANGED rabbitVars

RabbitCrash ==
    /\ loop # "off" /\ channel /\ losses < MaxLosses
    /\ LoseChannel
    /\ loop' = "off" /\ cancelled' = FALSE
    /\ deliveries' = {} /\ taken' = 0
    /\ stage' = [m \in Messages |-> "none"]
    /\ UNCHANGED <<sent, closed, buffer, history, requeue>>

RabbitHandle(m) ==
    \/ /\ HandlerRuns(m) \/ DispatchRefused(m, IF requeue THEN "requeue" ELSE "drop") \/ Reply(m)
       /\ UNCHANGED rabbitVars
    \/ Settle(m)

RabbitLoop == RabbitSpawn \/ NackTaken \/ LoopEnds \/ \E m \in Messages : Take(m)

RabbitNext == ChannelDies \/ RabbitCancel \/ RabbitCrash \/ \E m \in Messages : Deliver(m)
=============================================================================
