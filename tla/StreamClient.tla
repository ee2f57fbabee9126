---------------------------- MODULE StreamClient ----------------------------
(***************************************************************************)
(* The client halves of the TCP and gRPC transports                        *)
(* (common/microservice/transport: tcpmq/client.go, grpcmq/client.go and   *)
(* their Close).                                                           *)
(*                                                                         *)
(* TCP: callers share one connection that a reader demultiplexes, and      *)
(* redial it under dialMu when its done channel is closed.  Waiting for    *)
(* dialMu watches neither the context nor Close.                           *)
(*                                                                         *)
(* gRPC: a client connection made once without blocking, which Close makes *)
(* impossible by tripping the Once, and unary calls whose context Close    *)
(* cancels.  A Publish is such a call too, with no deadline but its        *)
(* caller's.                                                               *)
(***************************************************************************)
EXTENDS ClientCalls

TcpCall(c) == Begin(c, IF Requests(c) THEN "register" ELSE "link")
TcpRegister(c) == Register(c, "link")

TcpAlive == link # 0 /\ link \notin dead

TcpDialUnchecked(c) ==
    /\ pc[c] = "link" /\ lock = Nobody
    /\ \/ TcpAlive /\ GotOn(c, link, "send") /\ UNCHANGED <<link, lock, pending>>
       \/ /\ ~TcpAlive
          /\ link' = 0 /\ lock' = c
          /\ Goto(c, "dialing") /\ UNCHANGED pending
    /\ UNCHANGED <<once, created, open, dead, closeVars, netVars, leaked>>

\* dial: a live connection is shared, a dead one dropped; the loop of
\* attempts starts by looking at closed.
TcpDial(c) ==
    /\ pc[c] = "link" /\ lock = Nobody
    /\ \/ TcpAlive /\ GotOn(c, link, "send") /\ UNCHANGED <<link, lock, pending>>
       \/ /\ ~TcpAlive
          /\ link' = 0
          /\ \/ closed /\ Return(c, "closed") /\ UNCHANGED lock
             \/ ~closed /\ lock' = c /\ Goto(c, "dialing") /\ UNCHANGED pending
    /\ UNCHANGED <<once, created, open, dead, closeVars, netVars, leaked>>

\* An attempt succeeds, or the loop ends: attempts used up, closed, expired.
TcpDialing(c) ==
    /\ pc[c] = "dialing" /\ lock = c
    /\ lock' = Nobody
    /\ \/ NewLink /\ GotOn(c, created + 1, "send") /\ UNCHANGED pending
       \/ /\ \/ Return(c, "failed")
             \/ closed /\ Return(c, "closed")
             \/ c \in expired /\ Return(c, "timeout")
          /\ UNCHANGED linkVars
    /\ UNCHANGED <<once, closeVars, netVars, leaked>>

\* send: a write to a connection that broke unnoticed may still succeed.
TcpSend(c) ==
    /\ pc[c] = "send"
    /\ \/ on[c] \in open /\ Sent(c)
       \/ /\ on[c] \notin open \cup dead
          /\ IF Requests(c) THEN Goto(c, "await") /\ UNCHANGED pending ELSE Return(c, "accepted")
          /\ UNCHANGED netVars
    /\ UNCHANGED <<mutexVars, linkVars, closeVars, leaked>>

\* A failed write, of an oversized frame too, retires the shared connection.
TcpSendFails(c) ==
    /\ pc[c] = "send"
    /\ Return(c, "failed")
    /\ dead' = dead \cup {on[c]} /\ open' = open \ {on[c]}
    /\ UNCHANGED <<mutexVars, link, created, closeVars, netVars, leaked>>

TcpAwait(c) == Await(c, IF on[c] \in dead THEN {"failed"} ELSE {})

TcpDeliver(c) == Deliver(c, pending) /\ UNCHANGED pending

\* The reader meets the end of the stream and closes done.
TcpReaderEnds(s) ==
    /\ s \in 1..created /\ s \notin open \cup dead
    /\ dead' = dead \cup {s}
    /\ UNCHANGED <<callVars, pending, mutexVars, link, created, open, closeVars, netVars, leaked>>

\* Close takes the connection under dialMu, and waits a bounded time.
TcpCloseLink ==
    /\ closer = "begun" /\ lock = Nobody
    /\ closer' = "detached"
    /\ link' = 0 /\ open' = open \ {link}
    /\ dead' = IF link = 0 THEN dead ELSE dead \cup {link}
    /\ UNCHANGED <<callVars, pending, mutexVars, created, closed, netVars, leaked>>

TcpCloseEnds ==
    /\ closer = "detached" /\ closer' = "done"
    /\ UNCHANGED <<callVars, pending, mutexVars, linkVars, closed, netVars, leaked>>

TcpCallerStep(c) ==
    TcpRegister(c) \/ TcpDial(c) \/ TcpDialing(c) \/ TcpSend(c) \/ TcpSendFails(c) \/ TcpAwait(c)

TcpClose == TcpCloseLink \/ TcpCloseEnds

TcpNext ==
    \/ \E c \in Callers : TcpCall(c) \/ TcpDeliver(c)
    \/ \E s \in Links : TcpReaderEnds(s)

-----------------------------------------------------------------------------
GrpcCall(c) == Begin(c, "link")

\* client: the connection is created once, or never.
GrpcClientConn(c) ==
    /\ pc[c] = "link"
    /\ \/ /\ once = "fresh" /\ once' = "ready" /\ NewLink
          /\ GotOn(c, created + 1, "send") /\ UNCHANGED pending
       \/ once = "ready" /\ GotOn(c, link, "send") /\ UNCHANGED <<once, linkVars, pending>>
       \/ once = "tripped" /\ Return(c, "closed") /\ UNCHANGED <<once, linkVars>>
    /\ UNCHANGED <<lock, closeVars, netVars, leaked>>

\* Invoke: the call is on its way, unless Close was first.
GrpcInvoke(c) ==
    /\ pc[c] = "send"
    /\ \/ ~closed /\ Goto(c, "await") /\ wire' = [wire EXCEPT ![c] = "sent"] /\ UNCHANGED <<pending, ran>>
       \/ closed /\ Return(c, "closed") /\ UNCHANGED netVars
    /\ UNCHANGED <<mutexVars, linkVars, closeVars, leaked>>

\* The answer, Close, or the status of a passed deadline, which is not
\* context.DeadlineExceeded.
GrpcAwait(c) ==
    /\ pc[c] = "await"
    /\ \/ reply[c] # "none" /\ Return(c, IF Requests(c) THEN "reply" ELSE "accepted")
       \/ closed /\ Return(c, "closed")
       \/ c \in expired /\ Return(c, "failed")
    /\ UNCHANGED <<mutexVars, linkVars, closeVars, netVars, leaked>>

\* The server is unreachable, or refuses the message.
GrpcInvokeFails(c) ==
    /\ pc[c] = "await" /\ ~closed
    /\ Return(c, "failed")
    /\ UNCHANGED <<mutexVars, linkVars, closeVars, netVars, leaked>>

GrpcDeliver(c) == Deliver(c, {d \in Callers : pc[d] = "await"}) /\ UNCHANGED pending

GrpcClose ==
    /\ closer = "begun" /\ closer' = "done"
    /\ once' = IF once = "fresh" THEN "tripped" ELSE once
    /\ open' = open \ {link}
    /\ UNCHANGED <<callVars, pending, lock, link, created, dead, closed, netVars, leaked>>

GrpcCallerStep(c) == GrpcClientConn(c) \/ GrpcInvoke(c) \/ GrpcAwait(c)

GrpcNext ==
    \/ \E c \in Callers : GrpcCall(c) \/ GrpcInvokeFails(c) \/ GrpcDeliver(c)
=============================================================================
