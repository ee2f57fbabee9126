---------------------------- MODULE StreamServer ----------------------------
(***************************************************************************)
(* The serving halves of the TCP and gRPC transports                       *)
(* (common/microservice/transport: tcpmq/server.go, grpcmq/server.go and   *)
(* service.go).                                                            *)
(*                                                                         *)
(* TCP, one connection at a time: serveConn reads frames, asks for a slot  *)
(* of the transport, waits for its handlers and closes the connection;     *)
(* Listen waits for it, a bounded time, then closes the connections, then  *)
(* waits again.  Close closes them at once, under the handlers that still  *)
(* run.                                                                    *)
(*                                                                         *)
(* gRPC: unary calls that compete for the slots, and a stream whose        *)
(* messages are handled one after the other.  The context of a message is  *)
(* that of its call, which the peer or Stop ends, not that of Listen.  A   *)
(* shutdown drains the calls for a bounded time and then stops the server; *)
(* Close stops it at once.                                                 *)
(***************************************************************************)
EXTENDS Consuming

CONSTANT Streamed   \* the messages sent on the stream

ASSUME StreamedAssumption == Streamed \subseteq Messages

TcpListen == ListenOnce

TcpReadFrame == loop = "up" /\ TakeHead(Malformed)
TcpSpawn == loop = "up" /\ Spawn("drop")

\* Told to stop: what is not read is lost with the connection.
TcpReadEnds ==
    /\ loop = "up" /\ Stopping
    /\ loop' = "draining"
    /\ dropped' = dropped \cup InBuffer \cup ({taken} \ {0})
    /\ buffer' = <<>> /\ taken' = 0
    /\ UNCHANGED <<sent, cancelled, closed, stage, losses, runs, refused, replied, forced>>

\* The stream ends: the peer hangs up, is silent for too long or announces
\* an oversized frame.  Its handlers go on, and a later message comes on the
\* next connection.
TcpConnectionEnds ==
    /\ loop = "up" /\ taken = 0 /\ buffer # <<>>
    /\ dropped' = dropped \cup InBuffer /\ buffer' = <<>>
    /\ UNCHANGED <<sent, loop, cancelled, closed, taken, stage, losses, runs, refused, replied, forced>>

\* handlers.Wait and conn.Close in serveConn, srvWG in Listen.
TcpListenReturns ==
    /\ loop = "draining" /\ Active = {} /\ Stopping
    /\ loop' = "returned"
    /\ UNCHANGED <<sent, cancelled, closed, buffer, taken, stage, losses, history>>

\* ShutdownTimeout passed twice.
TcpWaitGivenUp ==
    /\ loop = "draining" /\ Active # {} /\ Stopping
    /\ loop' = "returned" /\ forced' = TRUE
    /\ UNCHANGED <<sent, cancelled, closed, buffer, taken, stage, losses, runs, refused, replied,
                   dropped>>

TcpClose ==
    /\ ~closed /\ closed' = TRUE
    /\ dropped' = dropped \cup InBuffer /\ buffer' = <<>>
    /\ UNCHANGED <<sent, loop, cancelled, taken, stage, losses, runs, refused, replied, forced>>

\* handleMessage dispatches, writes the reply on the connection and logs what fails.
TcpHandle(m) == HandleStep(m)

TcpLoop == TcpReadFrame \/ TcpSpawn
TcpNext == Arrive \/ Cancel \/ TcpConnectionEnds \/ TcpWaitGivenUp \/ TcpClose

-----------------------------------------------------------------------------

GrpcListen == ListenOnce

\* A unary call has a goroutine of its own, which waits for a slot.
GrpcUnaryArrives ==
    /\ loop = "up" /\ sent < MaxMessages /\ sent + 1 \notin Streamed
    /\ sent' = sent + 1
    /\ Advance(sent + 1, "slot")
    /\ UNCHANGED <<loopVars, losses, history>>

GrpcStreamArrives == sent + 1 \in Streamed /\ Arrive

\* The stream receives the next message once the last one is answered.
GrpcRecv == loop \in {"up", "draining"} /\ Streamed \cap Active = {} /\ TakeHead({})

\* acquire, then decode: bytes that are no envelope are answered as such.
GrpcAcquire(m) ==
    /\ stage[m] = "slot" /\ SlotFree
    /\ IF m \in Malformed THEN Advance(m, "drop") ELSE Advance(m, "dispatch")
    /\ UNCHANGED <<sent, loopVars, losses, history>>

GrpcAcquireStreamed == Spawn("drop")

\* The context of the call is done: ResourceExhausted, or the dispatcher's
\* error; on a stream the same ends it.
GrpcCallEnds(m) ==
    /\ stage[m] \in {"slot", "dispatch"}
    /\ refused' = refused \cup {m}
    /\ Advance(m, IF stage[m] = "slot" THEN "none" ELSE "ack")
    /\ UNCHANGED <<sent, loopVars, losses, runs, replied, dropped, forced>>

GrpcStreamEnds ==
    /\ loop \in {"up", "draining", "returned"}
    /\ taken # 0 \/ buffer # <<>>
    /\ dropped' = dropped \cup InBuffer \cup ({taken} \ {0})
    /\ buffer' = <<>> /\ taken' = 0
    /\ UNCHANGED <<sent, loop, cancelled, closed, stage, losses, runs, refused, replied, forced>>

\* GracefulStop: no new calls, the ones there are waited for.
GrpcStops ==
    /\ loop = "up" /\ cancelled
    /\ loop' = "draining"
    /\ UNCHANGED <<sent, cancelled, closed, buffer, taken, stage, losses, history>>

GrpcListenReturns ==
    /\ loop = "draining"
    /\ \A m \in Messages : stage[m] = "none"
    /\ taken = 0 /\ buffer = <<>>
    /\ loop' = "returned"
    /\ UNCHANGED <<sent, cancelled, closed, buffer, taken, stage, losses, history>>

\* Stop, after GracefulStopTimeout or by Close: the handlers are not awaited.
GrpcForcedDown ==
    /\ loop = "draining" \/ (loop = "up" /\ closed)
    /\ loop' = "returned" /\ forced' = TRUE
    /\ dropped' = dropped \cup InBuffer \cup ({taken} \ {0})
    /\ buffer' = <<>> /\ taken' = 0
    /\ UNCHANGED <<sent, cancelled, closed, stage, losses, runs, refused, replied>>

GrpcClose ==
    /\ ~closed /\ closed' = TRUE
    /\ UNCHANGED <<sent, loop, cancelled, buffer, taken, stage, losses, history>>

GrpcHandle(m) == HandlerRuns(m) \/ Reply(m) \/ HandlerDone(m) \/ GrpcAcquire(m)
GrpcLoop == GrpcRecv \/ GrpcAcquireStreamed

GrpcNext ==
    \/ GrpcUnaryArrives \/ GrpcStreamArrives \/ GrpcStreamEnds \/ GrpcForcedDown
    \/ Cancel \/ GrpcClose
    \/ \E m \in Messages : GrpcCallEnds(m)
=============================================================================
