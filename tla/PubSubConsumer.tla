--------------------------- MODULE PubSubConsumer ---------------------------
(***************************************************************************)
(* The consuming halves of the NATS and Redis transports                   *)
(* (common/microservice/transport/natsmq and redismq, listen.go): a broker *)
(* that publishes to whoever is subscribed and never delivers again, so    *)
(* what a consumer drops is gone.                                          *)
(***************************************************************************)
EXTENDS Consuming

(***************************************************************************)
(* NATS: the library calls back for one message after another, also while  *)
(* a subscription drains after Listen has returned.  Close waits for the   *)
(* handlers, a bounded time, and then drains the connection; a callback    *)
(* that still finds a slot after that wait starts a handler nobody waits   *)
(* for.                                                                    *)
(***************************************************************************)
NatsListen == ListenOnce

NatsCallback == loop \in {"up", "returned"} /\ TakeHead({})

\* The goroutine takes a slot before it decodes.
NatsSpawn == Spawn("drop")

\* The callback's select took ctx.Done or closed: the message is gone.
NatsDropsMessage ==
    /\ taken # 0 /\ Stopping
    /\ dropped' = dropped \cup {taken} /\ taken' = 0
    /\ UNCHANGED <<sent, loop, cancelled, closed, buffer, stage, losses, runs, refused, replied,
                   forced>>

\* Listen returns at once, its subscriptions drain behind it.
NatsListenReturns ==
    /\ loop = "up" /\ Stopping
    /\ loop' = "returned"
    /\ UNCHANGED <<sent, cancelled, closed, buffer, taken, stage, losses, history>>

NatsClose ==
    /\ ~closed /\ closed' = TRUE
    /\ UNCHANGED <<sent, loop, cancelled, buffer, taken, stage, losses, history>>

\* handleMessage dispatches, replies to msg.Reply and logs what fails.
NatsHandle(m) == HandleStep(m)

NatsLoop == NatsCallback \/ NatsSpawn \/ NatsDropsMessage
NatsNext == Arrive \/ Cancel \/ NatsClose

-----------------------------------------------------------------------------
(***************************************************************************)
(* Redis: one loop over the subscription, whose deferred calls wait for    *)
(* the handlers and then close the subscription.                           *)
(***************************************************************************)
RedisListen == ListenOnce

\* A message that does not decode is skipped.
RedisTake == loop = "up" /\ TakeHead(Malformed)
RedisSpawn == loop = "up" /\ Spawn("drop")

\* A select took ctx.Done or closed: what was taken or buffered is gone.
RedisLoopEnds ==
    /\ loop = "up" /\ Stopping
    /\ loop' = "draining"
    /\ dropped' = dropped \cup InBuffer \cup ({taken} \ {0})
    /\ buffer' = <<>> /\ taken' = 0
    /\ UNCHANGED <<sent, cancelled, closed, stage, losses, runs, refused, replied, forced>>

RedisReturnsAtOnce ==
    /\ loop = "draining" /\ loop' = "returned"
    /\ UNCHANGED <<sent, cancelled, closed, buffer, taken, stage, losses, history>>

\* handlers.Wait, without a bound.
RedisListenReturns ==
    /\ loop = "draining" /\ Active = {}
    /\ loop' = "returned"
    /\ UNCHANGED <<sent, cancelled, closed, buffer, taken, stage, losses, history>>

RedisClose ==
    /\ ~closed /\ closed' = TRUE
    /\ UNCHANGED <<sent, loop, cancelled, buffer, taken, stage, losses, history>>

\* handleMessage dispatches, publishes the reply on env.ReplyTo and logs what fails.
RedisHandle(m) == HandleStep(m)

RedisLoop == RedisTake \/ RedisSpawn
RedisNext == Arrive \/ Cancel \/ RedisClose
=============================================================================
