---------------------------- MODULE PubSubClient ----------------------------
(***************************************************************************)
(* The client halves of the Redis and NATS transports                      *)
(* (common/microservice/transport: redismq/client.go, natsmq/client.go,    *)
(* conn and their Close).                                                  *)
(*                                                                         *)
(* A Redis request makes sure, under replyMu, that the shared reply inbox  *)
(* is subscribed and confirmed before it publishes.  go-redis reconnects   *)
(* by itself, so a broken subscription only loses the replies of the       *)
(* meantime.                                                               *)
(*                                                                         *)
(* The NATS connection is one the transport owns, and the library          *)
(* correlates replies itself.  A connection that closes signals            *)
(* connClosed, once for the transport, so a Close after a replaced         *)
(* connection does not wait for its drain.                                 *)
(***************************************************************************)
EXTENDS ClientCalls

VARIABLE connClosed  \* Transport.connClosed is closed

RedisCall(c) == Begin(c, IF Requests(c) THEN "link" ELSE "send")

\* ensureReplies: its mutex is not the caller's deadline's business.
RedisEnsureReplies(c) ==
    /\ pc[c] = "link" /\ lock = Nobody
    /\ \/ link # 0 /\ GotOn(c, link, "register") /\ UNCHANGED <<lock, pending>>
       \/ link = 0 /\ closed /\ Return(c, "closed") /\ UNCHANGED lock
       \/ link = 0 /\ ~closed /\ lock' = c /\ Goto(c, "dialing") /\ UNCHANGED pending
    /\ UNCHANGED <<once, linkVars, closeVars, netVars, leaked>>

\* Subscribe and the wait for the confirmation; a failure is the caller's,
\* the next request tries again.
RedisSubscribe(c) ==
    /\ pc[c] = "dialing" /\ lock = c
    /\ lock' = Nobody
    /\ \/ NewLink /\ GotOn(c, created + 1, "register") /\ UNCHANGED pending
       \/ /\ Return(c, "failed") \/ (c \in expired /\ Return(c, "timeout"))
          /\ UNCHANGED linkVars
    /\ UNCHANGED <<once, closeVars, netVars, leaked>>

RedisRegister(c) == Register(c, "send")

\* PUBLISH succeeds also when nobody is subscribed.
RedisPublish(c) ==
    /\ pc[c] = "send"
    /\ Sent(c)
    /\ UNCHANGED <<mutexVars, linkVars, closeVars, leaked>>

RedisPublishFails(c) ==
    /\ pc[c] = "send"
    /\ Return(c, "failed") \/ (c \in expired /\ Return(c, "timeout"))
    /\ UNCHANGED <<mutexVars, linkVars, closeVars, netVars, leaked>>

RedisAwait(c) == Await(c, {})
RedisDeliver(c) == Deliver(c, pending) /\ UNCHANGED pending

RedisClose ==
    /\ closer = "begun" /\ lock = Nobody
    /\ closer' = "done"
    /\ link' = 0 /\ open' = open \ {link}
    /\ UNCHANGED <<callVars, pending, mutexVars, created, dead, closed, netVars, leaked>>

RedisCallerStep(c) ==
    \/ RedisEnsureReplies(c) \/ RedisSubscribe(c) \/ RedisRegister(c)
    \/ RedisPublish(c) \/ RedisPublishFails(c) \/ RedisAwait(c)

RedisNext ==
    \/ \E c \in Callers : RedisCall(c) \/ RedisDeliver(c)

-----------------------------------------------------------------------------
NatsCall(c) == Begin(c, "link")

\* conn: closed is looked at under connMu, and connMu is held while dialing.
NatsConn(c) ==
    /\ pc[c] = "link" /\ lock = Nobody
    /\ \/ closed /\ Return(c, "closed") /\ UNCHANGED lock
       \/ ~closed /\ link \in open /\ GotOn(c, link, "send") /\ UNCHANGED <<lock, pending>>
       \/ ~closed /\ link \notin open /\ lock' = c /\ Goto(c, "dialing") /\ UNCHANGED pending
    /\ UNCHANGED <<once, linkVars, closeVars, netVars, leaked, connClosed>>

NatsConnect(c) ==
    /\ pc[c] = "dialing" /\ lock = c
    /\ lock' = Nobody
    /\ \/ NewLink /\ GotOn(c, created + 1, "send") /\ UNCHANGED pending
       \/ Return(c, "failed") /\ UNCHANGED linkVars
    /\ UNCHANGED <<once, closeVars, netVars, leaked, connClosed>>

\* Publish buffers the message; a closed connection is reported as closed.
NatsPublish(c) ==
    /\ pc[c] = "send"
    /\ \/ on[c] \in open /\ Sent(c)
       \/ on[c] \notin open /\ Return(c, "closed") /\ UNCHANGED netVars
    /\ UNCHANGED <<mutexVars, linkVars, closeVars, leaked, connClosed>>

NatsAwait(c) ==
    /\ Await(c, IF on[c] \in open THEN {} ELSE {"closed"})
    /\ UNCHANGED connClosed

\* The server knows of no subscription for the subject.
NatsNoResponders(c) ==
    /\ pc[c] = "await" /\ c \notin ran
    /\ Return(c, IF closed THEN "closed" ELSE "failed")
    /\ wire' = [wire EXCEPT ![c] = "gone"]
    /\ UNCHANGED <<mutexVars, linkVars, closeVars, ran, leaked, connClosed>>

\* The reply subject of the library: only a waiting request has one.
NatsDeliver(c) ==
    /\ Deliver(c, {d \in Callers : pc[d] = "await"})
    /\ UNCHANGED <<pending, connClosed>>

\* ClosedHandler: the server ended the connection for good.
NatsConnectionCloses(s) == LinkBreaks(s) /\ connClosed' = TRUE

NatsSnapshotConn ==
    /\ closer = "begun" /\ lock = Nobody
    /\ closer' = "detached"
    /\ leaked' = IF connClosed THEN leaked \cup {link} ELSE leaked
    /\ UNCHANGED <<callVars, pending, mutexVars, linkVars, closed, netVars, connClosed>>

\* Drain, or the hard close after its timeout.
NatsDrain ==
    /\ closer = "detached" /\ link \in open
    /\ open' = open \ {link} /\ connClosed' = TRUE
    /\ UNCHANGED <<callVars, pending, mutexVars, link, created, dead, closeVars, netVars, leaked>>

NatsCloseEnds ==
    /\ closer = "detached" /\ closer' = "done"
    /\ link \notin open \/ connClosed
    /\ UNCHANGED <<callVars, pending, mutexVars, linkVars, closed, netVars, leaked, connClosed>>

NatsCallerStep(c) == NatsConn(c) \/ NatsConnect(c) \/ NatsPublish(c) \/ NatsAwait(c)

NatsClose == NatsSnapshotConn \/ NatsDrain \/ NatsCloseEnds

NatsNext ==
    \/ \E c \in Callers : (NatsCall(c) /\ UNCHANGED connClosed) \/ NatsNoResponders(c) \/ NatsDeliver(c)
    \/ \E s \in Links : NatsConnectionCloses(s)
=============================================================================
