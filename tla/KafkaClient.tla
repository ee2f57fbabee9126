---------------------------- MODULE KafkaClient -----------------------------
(***************************************************************************)
(* The client half of the Kafka transport                                  *)
(* (common/microservice/transport/kafkamq/publish.go and Close): the first *)
(* request creates the reply reader under a sync.Once, which keeps the     *)
(* error of a failed attempt for ever, and which Close does not take part  *)
(* in.  The reader reconnects by itself.                                   *)
(***************************************************************************)
EXTENDS ClientCalls

KafkaCall(c) == Begin(c, IF Requests(c) THEN "link" ELSE "send")

\* ensureReplyConsumer: the first caller runs the function, others wait.
KafkaEnsureReplyConsumer(c) ==
    /\ pc[c] = "link"
    /\ \/ once = "fresh" /\ once' = "running" /\ lock' = c /\ Goto(c, "dialing") /\ UNCHANGED pending
       \/ once = "ready" /\ GotOn(c, 1, "register") /\ UNCHANGED <<mutexVars, pending>>
       \/ once = "failed" /\ Return(c, "failed") /\ UNCHANGED mutexVars
    /\ UNCHANGED <<linkVars, closeVars, netVars, leaked>>

\* The topics are created with the reply context, and the reader is stored
\* whether or not Close has looked for it.
KafkaStartReader(c) ==
    /\ pc[c] = "dialing" /\ lock = c
    /\ lock' = Nobody
    /\ \/ /\ once' = "ready" /\ NewLink
          /\ GotOn(c, created + 1, "register") /\ UNCHANGED pending
          /\ leaked' = IF closer \in {"idle", "begun"} THEN leaked ELSE leaked \cup {created + 1}
       \/ once' = "failed" /\ Return(c, "failed") /\ UNCHANGED <<linkVars, leaked>>
    /\ UNCHANGED <<closeVars, netVars>>

KafkaRegister(c) == Register(c, "send")

KafkaWrite(c) ==
    /\ pc[c] = "send"
    /\ Sent(c)
    /\ UNCHANGED <<mutexVars, linkVars, closeVars, leaked>>

\* The write fails or is given up; the broker may have the message all the same.
KafkaWriteFails(c) ==
    /\ pc[c] = "send"
    /\ \/ Return(c, IF closed THEN "closed" ELSE "failed")
       \/ c \in expired /\ Return(c, IF closed THEN "closed" ELSE "timeout")
    /\ \/ wire' = [wire EXCEPT ![c] = "sent"]
       \/ UNCHANGED wire
    /\ UNCHANGED <<mutexVars, linkVars, closeVars, ran, leaked>>

KafkaAwait(c) == Await(c, {})

\* deliverReply removes the entry, so that a second reply finds nobody.
KafkaDeliverReply(c) == ~closed /\ Deliver(c, pending) /\ pending' = pending \ {c}

KafkaCloseReader ==
    /\ closer = "begun" /\ closer' = "detached"
    /\ link' = 0 /\ open' = open \ {link}
    /\ UNCHANGED <<callVars, pending, mutexVars, created, dead, closed, netVars, leaked>>

\* The writer is closed, and the map replaced by an empty one.
KafkaCloseEnds ==
    /\ closer = "detached" /\ closer' = "done"
    /\ pending' = {}
    /\ UNCHANGED <<callVars, mutexVars, linkVars, closed, netVars, leaked>>

KafkaCallerStep(c) ==
    \/ KafkaEnsureReplyConsumer(c) \/ KafkaStartReader(c) \/ KafkaRegister(c)
    \/ KafkaWrite(c) \/ KafkaWriteFails(c) \/ KafkaAwait(c)

KafkaClose == KafkaCloseReader \/ KafkaCloseEnds

KafkaNext ==
    \/ \E c \in Callers : KafkaCall(c) \/ KafkaDeliverReply(c)
=============================================================================
