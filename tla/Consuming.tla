------------------------------ MODULE Consuming -----------------------------
(***************************************************************************)
(* What the consuming halves of the transports share: a loop that takes    *)
(* messages one by one, waits for one of Concurrency slots and spawns a    *)
(* goroutine that decodes the message, dispatches it, replies to a request *)
(* and settles it.  The dispatcher is the one of server.go: an error means *)
(* that its context was done, a failed handler is an ordinary reply.       *)
(*                                                                         *)
(* Messages are numbered in the order they are sent; 0 is no message.      *)
(***************************************************************************)
EXTENDS Integers, Sequences, FiniteSets

CONSTANTS
    MaxMessages,   \* bound: how many messages are sent
    Malformed,     \* those whose bytes are no envelope
    Requests,      \* those with a reply address
    Concurrency,   \* Options.Concurrency
    MaxLosses      \* bound: how often a consumer or its channel is lost

Messages == 1..MaxMessages

ASSUME ConsumingAssumption ==
    /\ MaxMessages \in Nat
    /\ Malformed \subseteq Messages
    /\ Requests \subseteq Messages \ Malformed
    /\ Concurrency \in Nat \ {0}
    /\ MaxLosses \in Nat

VARIABLES
    transport,   \* which transport the process listens on
    sent,        \* how many messages the transport was given
    loop,        \* Listen: "off", "up", "draining" or, for good, "returned"
    cancelled,   \* the context of Listen is done
    closed,      \* the transport is closed
    buffer,      \* what arrived and was not taken, oldest first
    taken,       \* the message that waits for a slot, or 0
    stage,       \* stage[m]: "none", "slot", "dispatch", "reply", "ack", "requeue"
                 \*           or "drop"
    losses,      \* how often the consumer or its channel was lost
    runs,        \* history: runs[m], how often a handler ran on m
    refused,     \* history: what the dispatcher turned away
    replied,     \* history: requests whose reply was sent or failed to be
    dropped,     \* history: what a shutdown or a broken connection discarded
    forced       \* history: a bounded wait for the handlers was given up

loopVars == <<loop, cancelled, closed, buffer, taken>>
history == <<runs, refused, replied, dropped, forced>>
consumingVars == <<sent, loopVars, stage, losses, history>>

Active == {m \in Messages : stage[m] \notin {"none", "slot"}}
Handled == {m \in Messages : runs[m] > 0}
SlotFree == Cardinality(Active) < Concurrency
InBuffer == {buffer[i] : i \in DOMAIN buffer}

ConsumingInit ==
    /\ sent = 0
    /\ loop = "off" /\ cancelled = FALSE /\ closed = FALSE
    /\ buffer = <<>> /\ taken = 0
    /\ stage = [m \in Messages |-> "none"]
    /\ losses = 0
    /\ runs = [m \in Messages |-> 0]
    /\ refused = {} /\ replied = {} /\ dropped = {} /\ forced = FALSE

Advance(m, to) == stage' = [stage EXCEPT ![m] = to]

\* The handler ran; its failure is a reply with a status.
HandlerRuns(m) ==
    /\ stage[m] = "dispatch"
    /\ runs' = [runs EXCEPT ![m] = @ + 1]
    /\ Advance(m, IF m \in Requests THEN "reply" ELSE "ack")
    /\ UNCHANGED <<sent, loopVars, losses, refused, replied, dropped, forced>>

\* The dispatcher returned the error of its done context.
DispatchRefused(m, to) ==
    /\ stage[m] = "dispatch" /\ cancelled
    /\ refused' = refused \cup {m}
    /\ Advance(m, to)
    /\ UNCHANGED <<sent, loopVars, losses, runs, replied, dropped, forced>>

\* The reply is attempted before the message is settled; its failure is logged.
Reply(m) ==
    /\ stage[m] = "reply"
    /\ replied' = replied \cup {m}
    /\ Advance(m, "ack")
    /\ UNCHANGED <<sent, loopVars, losses, runs, refused, dropped, forced>>

SpawnWellFormed(malformed) ==
    /\ taken # 0 /\ SlotFree /\ taken \notin Malformed
    /\ Advance(taken, "dispatch")
    /\ taken' = 0
    /\ UNCHANGED <<sent, loop, cancelled, closed, buffer, losses, history>>

\* The select for a slot took the slot; what becomes of bytes that are no
\* envelope depends on the transport.
Spawn(malformed) ==
    /\ taken # 0 /\ SlotFree
    /\ Advance(taken, IF taken \in Malformed THEN malformed ELSE "dispatch")
    /\ taken' = 0
    /\ UNCHANGED <<sent, loop, cancelled, closed, buffer, losses, history>>

\* The server cancels the context of Listen.
Cancel ==
    /\ loop # "off" /\ ~cancelled
    /\ cancelled' = TRUE
    /\ UNCHANGED <<sent, loop, closed, buffer, taken, stage, losses, history>>

-----------------------------------------------------------------------------
(***************************************************************************)
(* The transports that keep nothing (NATS, Redis, TCP, gRPC): a message is *)
(* given to a loop that runs, and one that leaves the loop unhandled is    *)
(* lost.  Their Listen is not called again after a shutdown.               *)
(***************************************************************************)
Stopping == cancelled \/ closed

ListenOnce ==
    /\ loop = "off" /\ loop' = IF closed THEN "returned" ELSE "up"
    /\ UNCHANGED <<sent, cancelled, closed, buffer, taken, stage, losses, history>>

Arrive ==
    /\ loop = "up" /\ sent < MaxMessages
    /\ sent' = sent + 1
    /\ buffer' = Append(buffer, sent + 1)
    /\ UNCHANGED <<loop, cancelled, closed, taken, stage, losses, history>>

\* A decode failure is skipped before a slot is asked for.
TakeHead(skip) ==
    /\ taken = 0 /\ buffer # <<>>
    /\ taken' = IF Head(buffer) \in skip THEN 0 ELSE Head(buffer)
    /\ buffer' = Tail(buffer)
    /\ UNCHANGED <<sent, loop, cancelled, closed, stage, losses, history>>

\* A request that was turned away is answered with an error envelope.
Refused(m) == DispatchRefused(m, IF m \in Requests THEN "reply" ELSE "ack")

\* The goroutine of a handler ends, and its slot is free.
HandlerDone(m) ==
    /\ stage[m] \in {"ack", "drop"}
    /\ Advance(m, "none")
    /\ UNCHANGED <<sent, loopVars, losses, history>>

HandleStep(m) == HandlerRuns(m) \/ Refused(m) \/ Reply(m) \/ HandlerDone(m)
=============================================================================
