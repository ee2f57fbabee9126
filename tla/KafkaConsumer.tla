---------------------------- MODULE KafkaConsumer ---------------------------
(***************************************************************************)
(* The consuming half of the Kafka transport                               *)
(* (common/microservice/transport/kafkamq/listen.go) on one partition:     *)
(* fetch, dispatch, reply, commit, with the broker's committed offset, the *)
(* crash of the process at any step, and the shutdown that cancels the     *)
(* context of Listen.  Offsets count from 1; `committed` is the next       *)
(* offset the group is given when it starts.                               *)
(***************************************************************************)
EXTENDS Consuming

VARIABLES
    committed,   \* the broker: the group's next offset
    position     \* the reader: the next offset it fetches

kafkaVars == <<committed, position>>

KafkaInit == committed = 1 /\ position = 1

Produce ==
    /\ sent < MaxMessages
    /\ sent' = sent + 1
    /\ UNCHANGED <<loopVars, stage, losses, history, kafkaVars>>

\* The group hands the partition to a new reader at the committed offset.
KafkaListen ==
    /\ loop = "off" /\ loop' = "up"
    /\ cancelled' = FALSE
    /\ position' = committed /\ taken' = 0
    /\ UNCHANGED <<sent, closed, buffer, stage, losses, history, committed>>

FetchUncommitted ==
    /\ loop = "up" /\ taken = 0
    /\ committed <= sent
    /\ taken' = committed /\ position' = committed + 1
    /\ UNCHANGED <<sent, loop, cancelled, closed, buffer, stage, losses, history, committed>>

\* A context that is done may still lose the race against a message.
FetchMessage ==
    /\ loop = "up" /\ taken = 0
    /\ position <= sent
    /\ taken' = position /\ position' = position + 1
    /\ UNCHANGED <<sent, loop, cancelled, closed, buffer, stage, losses, history, committed>>

\* Shutdown, or a fatal reader error the supervisor will retry.
FetchFails ==
    /\ loop = "up" /\ taken = 0
    /\ cancelled \/ losses < MaxLosses
    /\ loop' = "draining"
    /\ UNCHANGED <<sent, cancelled, closed, buffer, taken, stage, losses, history, kafkaVars>>

KafkaSpawn == loop = "up" /\ Spawn("ack") /\ UNCHANGED kafkaVars

\* The slot's select took ctx.Done: not committed, Listen returns.
AbandonFetched ==
    /\ loop = "up" /\ taken # 0 /\ cancelled
    /\ taken' = 0 /\ loop' = "draining"
    /\ UNCHANGED <<sent, cancelled, closed, buffer, stage, losses, history, kafkaVars>>

\* The deferred wg.Wait and reader.Close.
KafkaListenReturns ==
    /\ loop = "draining" /\ Active = {}
    /\ losses < MaxLosses
    /\ loop' = "off" /\ losses' = losses + 1
    /\ UNCHANGED <<sent, cancelled, closed, buffer, taken, stage, history, kafkaVars>>

\* CommitMessages, synchronous and without the cancellation, may fail.
Commit(m) ==
    /\ stage[m] = "ack"
    /\ committed' \in {m + 1, committed}
    /\ Advance(m, "none")
    /\ UNCHANGED <<sent, loopVars, losses, history, position>>

KafkaCancel == losses < MaxLosses /\ Cancel /\ UNCHANGED kafkaVars

KafkaCrash ==
    /\ loop # "off" /\ losses < MaxLosses
    /\ loop' = "off" /\ losses' = losses + 1
    /\ taken' = 0
    /\ stage' = [m \in Messages |-> "none"]
    /\ UNCHANGED <<sent, cancelled, closed, buffer, history, kafkaVars>>

\* A message that is turned away is committed without a reply.
KafkaHandle(m) ==
    \/ (HandlerRuns(m) \/ DispatchRefused(m, "ack") \/ Reply(m)) /\ UNCHANGED kafkaVars
    \/ Commit(m)

KafkaLoop == FetchMessage \/ KafkaSpawn \/ AbandonFetched

KafkaNext == Produce \/ FetchFails \/ KafkaCancel \/ KafkaCrash

\* The offsets the group has passed.
Passed == {m \in Messages : m < committed}

(* "Consuming is at-least-once: FetchMessage, dispatch, then               *)
(* CommitMessages" (kafkamq.go:33), and listen.go:89-90: an offset that    *)
(* the group has passed was handled, or was no envelope.  A shutdown       *)
(* between the fetch and the dispatch commits a message that no handler    *)
(* saw.                                                                    *)
AtLeastOnce == transport = "kafka" => Passed \subseteq Handled \cup Malformed
=============================================================================
