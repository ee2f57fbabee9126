---------------------------- MODULE ClientsProofs ---------------------------
(***************************************************************************)
(* Proofs about module Clients, for any callers, links and queue depth.    *)
(*                                                                         *)
(* CallInv and MemoryInv say what a call, its message and its reply may    *)
(* be: a reply comes from a handler that ran, and nothing is out for a     *)
(* call that has not begun.  With them every step of a client has one of   *)
(* five forms (CallCases), which are steps of RequestReply.  LinkInv is    *)
(* about the links, EntryInv and LiveInv about the pending map, and        *)
(* TakenInv about the in-process queue.                                    *)
(***************************************************************************)
EXTENDS Clients, SequenceTheorems, TLAPS

Stages == {"idle", "link", "dialing", "register", "send", "confirm", "await", "wait", "run", "done"}
Outcomes == {"accepted", "reply", "refused", "timeout", "closed", "failed"}

CallInv ==
    /\ transport \in {"memory", "rabbit", "kafka", "redis", "nats", "tcp", "grpc"}
    /\ kind \in [Callers -> {"publish", "request", "direct"}]
    /\ pc \in [Callers -> Stages] /\ result \in [Callers -> Outcomes \cup {"none"}]
    /\ reply \in [Callers -> {"none", "reply", "refused"}]
    /\ wire \in [Callers -> {"none", "sent", "answered", "gone"}]
    /\ ran \subseteq Callers
    /\ \A c \in Callers :
         /\ reply[c] = "reply" \/ wire[c] = "answered" => c \in ran
         /\ wire[c] # "none" => pc[c] # "idle"
         /\ reply[c] = "refused" => transport = "memory"

\* What the listener of the in-process transport has, a caller gave it.
MemoryInv ==
    /\ queue \in Seq(Callers) /\ current \in Callers \cup {Nobody}
    /\ \A i \in 1..Len(queue) : pc[queue[i]] # "idle"
    /\ current # Nobody => pc[current] # "idle"
    /\ dispatched = "ran" => current \in ran

-----------------------------------------------------------------------------
(***************************************************************************)
(* The forms of a step, in what a caller and the other side can see.       *)
(***************************************************************************)
Quiet == UNCHANGED <<pc, result, reply, ran, wire>>

Advances(c) ==
    /\ pc[c] # "done"
    /\ \E to \in Stages \ {"idle", "done"} : pc' = [pc EXCEPT ![c] = to]
    /\ UNCHANGED <<result, reply, ran>>
    /\ wire' \in {wire, [wire EXCEPT ![c] = "sent"]}

Ends(c) ==
    \E o \in Outcomes :
       /\ pc[c] # "done" /\ (pc[c] = "idle" => o = "closed") /\ (o = "reply" => c \in ran)
       /\ pc' = [pc EXCEPT ![c] = "done"] /\ result' = [result EXCEPT ![c] = o]
       /\ reply' \in {reply, [reply EXCEPT ![c] = "none"]}
       /\ UNCHANGED ran
       /\ wire' \in {wire, [wire EXCEPT ![c] = "sent"], [wire EXCEPT ![c] = "gone"]}

Runs(c) ==
    /\ pc[c] # "idle"
    /\ UNCHANGED <<pc, result, reply>>
    /\ ran' = ran \cup {c}
    /\ wire' \in {wire, [wire EXCEPT ![c] = "answered"], [wire EXCEPT ![c] = "gone"]}

Answers(c) ==
    /\ UNCHANGED <<pc, result, ran>>
    /\ \/ UNCHANGED reply
       \/ c \in ran /\ reply' = [reply EXCEPT ![c] = "reply"]
       \/ transport = "memory" /\ reply' = [reply EXCEPT ![c] = "refused"]
    /\ \/ UNCHANGED wire
       \/ wire[c] # "none" /\ wire' = [wire EXCEPT ![c] = "gone"]

Form(c) == Advances(c) \/ Ends(c) \/ Runs(c) \/ Answers(c)
Forms == Quiet \/ \E c \in Callers : Form(c)

LEMMA GotoForm ==
    ASSUME NEW c \in Callers, NEW to \in Stages \ {"idle", "done"}, pc[c] # "done", Goto(c, to), UNCHANGED ran,
           wire' \in {wire, [wire EXCEPT ![c] = "sent"]}
    PROVE  Form(c)
  BY DEF Goto, Form, Advances

LEMMA GotOnForm ==
    ASSUME NEW c \in Callers, NEW s, NEW to \in Stages \ {"idle", "done"}, pc[c] # "done", GotOn(c, s, to),
           UNCHANGED netVars
    PROVE  Form(c)
  BY DEF GotOn, Form, Advances, netVars

LEMMA ReturnForm ==
    ASSUME NEW c \in Callers, NEW o \in Outcomes, pc[c] # "done", pc[c] = "idle" => o = "closed",
           o = "reply" => c \in ran, Return(c, o), UNCHANGED ran,
           wire' \in {wire, [wire EXCEPT ![c] = "sent"], [wire EXCEPT ![c] = "gone"]}
    PROVE  Form(c)
  BY DEF Return, Form, Ends

LEMMA BeginForm ==
    ASSUME NEW c \in Callers, NEW to \in Stages \ {"idle", "done"}, Begin(c, to)
    PROVE  Form(c)
<1>1. pc[c] = "idle" /\ UNCHANGED netVars /\ (Return(c, "closed") \/ Goto(c, to))
  BY DEF Begin
<1>2. CASE Return(c, "closed")
  BY <1>1, <1>2, ReturnForm DEF netVars, Outcomes
<1>3. CASE Goto(c, to)
  BY <1>1, <1>3, GotoForm DEF netVars
<1> QED
  BY <1>1, <1>2, <1>3

LEMMA SentForm ==
    ASSUME NEW c \in Callers, pc[c] = "send", Sent(c)
    PROVE  Form(c)
<1>1. CASE Requests(c)
  BY <1>1, GotoForm DEF Sent, Stages
<1>2. CASE ~Requests(c)
  BY <1>2, ReturnForm DEF Sent, Outcomes
<1> QED
  BY <1>1, <1>2

LEMMA AwaitForm ==
    ASSUME CallInv, NEW c \in Callers, NEW outcomes \in SUBSET {"failed", "closed"}, Await(c, outcomes)
    PROVE  Form(c)
<1>1. pc[c] = "await" /\ UNCHANGED netVars
  BY DEF Await
<1>2. PICK o : Return(c, o) /\ ((o = reply[c] /\ o # "none") \/ o \in outcomes \/ o = "closed" \/ o = "timeout")
  BY DEF Await
<1>3. o \in Outcomes /\ (o = "reply" => c \in ran)
  BY <1>2 DEF CallInv, Outcomes
<1> QED
  BY <1>1, <1>2, <1>3, ReturnForm DEF netVars

LEMMA DeliverForm ==
    ASSUME CallInv, NEW c \in Callers, NEW entries, Deliver(c, entries)
    PROVE  Form(c)
<1>1. c \in ran
  BY DEF Deliver, CallInv
<1>2. UNCHANGED <<pc, result, ran>> /\ wire[c] # "none" /\ wire' = [wire EXCEPT ![c] = "gone"]
  BY DEF Deliver
<1>3. reply' = reply \/ reply' = [reply EXCEPT ![c] = "reply"]
  BY DEF Deliver
<1> QED
  BY <1>1, <1>2, <1>3 DEF Form, Answers

LEMMA QuietForm ==
    ASSUME UNCHANGED <<callVars, netVars>> PROVE Forms
  BY DEF callVars, netVars, Forms, Quiet

LEMMA RabbitForm ==
    ASSUME CallInv, NEW c \in Callers, RabbitCallerStep(c) \/ RabbitCall(c) \/ Confirmed(c) \/ Nacked(c) \/ RabbitDeliverReply(c)
    PROVE  Form(c)
<1>1. CASE SessionClosed(c)
  BY <1>1, ReturnForm DEF SessionClosed, netVars, Outcomes
<1>2. CASE ReuseSession(c)
  BY <1>2, GotOnForm DEF ReuseSession, AfterSession, Stages
<1>3. CASE NewSession(c)
  BY <1>3, GotOnForm DEF NewSession, AfterSession, Stages
<1>4. CASE DialFails(c)
  BY <1>4 DEF DialFails, netVars, Form, Ends, Outcomes
<1>5. CASE RabbitRegister(c)
  BY <1>5, GotoForm DEF RabbitRegister, Register, netVars, Stages
<1>6. CASE RabbitSend(c)
  BY <1>6, GotoForm DEF RabbitSend, Stages
<1>7. CASE RabbitSendFails(c)
  BY <1>7, ReturnForm DEF RabbitSendFails, netVars, Outcomes
<1>8. CASE Confirmed(c)
  BY <1>8, ReturnForm, GotoForm DEF Confirmed, netVars, Outcomes, Stages
<1>9. CASE NotConfirmed(c)
  BY <1>9, ReturnForm DEF NotConfirmed, netVars, Outcomes
<1>10. CASE RabbitAwait(c)
  BY <1>10, AwaitForm DEF RabbitAwait
<1>11. CASE RabbitCall(c)
  BY <1>11, BeginForm DEF RabbitCall, Stages
<1>12. CASE Nacked(c)
  BY <1>12, ReturnForm DEF Nacked, netVars, Outcomes
<1>13. CASE RabbitDeliverReply(c)
  BY <1>13, DeliverForm DEF RabbitDeliverReply
<1> QED
  BY <1>1, <1>2, <1>3, <1>4, <1>5, <1>6, <1>7, <1>8, <1>9, <1>10, <1>11, <1>12, <1>13 DEF RabbitCallerStep

LEMMA KafkaForm ==
    ASSUME CallInv, NEW c \in Callers, KafkaCallerStep(c) \/ KafkaCall(c) \/ KafkaDeliverReply(c)
    PROVE  Form(c)
<1>1. CASE KafkaEnsureReplyConsumer(c)
  BY <1>1, ReturnForm, GotoForm, GotOnForm DEF KafkaEnsureReplyConsumer, netVars, Outcomes, Stages
<1>2. CASE KafkaStartReader(c)
  BY <1>2, ReturnForm, GotOnForm DEF KafkaStartReader, netVars, Outcomes, Stages
<1>3. CASE KafkaRegister(c)
  BY <1>3, GotoForm DEF KafkaRegister, Register, netVars, Stages
<1>4. CASE KafkaWrite(c)
  BY <1>4, SentForm DEF KafkaWrite
<1>5. CASE KafkaWriteFails(c)
  BY <1>5, ReturnForm DEF KafkaWriteFails, Outcomes
<1>6. CASE KafkaAwait(c)
  BY <1>6, AwaitForm DEF KafkaAwait
<1>7. CASE KafkaCall(c)
  BY <1>7, BeginForm DEF KafkaCall, Stages
<1>8. CASE KafkaDeliverReply(c)
  BY <1>8, DeliverForm DEF KafkaDeliverReply
<1> QED
  BY <1>1, <1>2, <1>3, <1>4, <1>5, <1>6, <1>7, <1>8 DEF KafkaCallerStep

LEMMA RedisForm ==
    ASSUME CallInv, NEW c \in Callers, RedisCallerStep(c) \/ RedisCall(c) \/ RedisDeliver(c)
    PROVE  Form(c)
<1>1. CASE RedisEnsureReplies(c)
  BY <1>1, ReturnForm, GotoForm, GotOnForm DEF RedisEnsureReplies, netVars, Outcomes, Stages
<1>2. CASE RedisSubscribe(c)
  BY <1>2, ReturnForm, GotOnForm DEF RedisSubscribe, netVars, Outcomes, Stages
<1>3. CASE RedisRegister(c)
  BY <1>3, GotoForm DEF RedisRegister, Register, netVars, Stages
<1>4. CASE RedisPublish(c)
  BY <1>4, SentForm DEF RedisPublish
<1>5. CASE RedisPublishFails(c)
  BY <1>5, ReturnForm DEF RedisPublishFails, netVars, Outcomes
<1>6. CASE RedisAwait(c)
  BY <1>6, AwaitForm DEF RedisAwait
<1>7. CASE RedisCall(c)
  BY <1>7, BeginForm DEF RedisCall, Stages
<1>8. CASE RedisDeliver(c)
  BY <1>8, DeliverForm DEF RedisDeliver
<1> QED
  BY <1>1, <1>2, <1>3, <1>4, <1>5, <1>6, <1>7, <1>8 DEF RedisCallerStep

LEMMA NatsForm ==
    ASSUME CallInv, NEW c \in Callers, NatsCallerStep(c) \/ NatsCall(c) \/ NatsNoResponders(c) \/ NatsDeliver(c)
    PROVE  Form(c)
<1>1. CASE NatsConn(c)
  BY <1>1, ReturnForm, GotoForm, GotOnForm DEF NatsConn, netVars, Outcomes, Stages
<1>2. CASE NatsConnect(c)
  BY <1>2, ReturnForm, GotOnForm DEF NatsConnect, netVars, Outcomes, Stages
<1>3. CASE NatsPublish(c)
  BY <1>3, SentForm, ReturnForm DEF NatsPublish, netVars, Outcomes
<1>4. CASE NatsAwait(c)
  BY <1>4, AwaitForm DEF NatsAwait
<1>5. CASE NatsCall(c)
  BY <1>5, BeginForm DEF NatsCall, Stages
<1>6. CASE NatsNoResponders(c)
  BY <1>6, ReturnForm DEF NatsNoResponders, Outcomes
<1>7. CASE NatsDeliver(c)
  BY <1>7, DeliverForm DEF NatsDeliver
<1> QED
  BY <1>1, <1>2, <1>3, <1>4, <1>5, <1>6, <1>7 DEF NatsCallerStep

LEMMA TcpForm ==
    ASSUME CallInv, NEW c \in Callers, TcpCallerStep(c) \/ TcpCall(c) \/ TcpDeliver(c)
    PROVE  Form(c)
<1>1. CASE TcpRegister(c)
  BY <1>1, GotoForm DEF TcpRegister, Register, netVars, Stages
<1>2. CASE TcpDial(c)
  BY <1>2, ReturnForm, GotoForm, GotOnForm DEF TcpDial, netVars, Outcomes, Stages
<1>3. CASE TcpDialing(c)
  BY <1>3, ReturnForm, GotOnForm DEF TcpDialing, netVars, Outcomes, Stages
<1>4. CASE TcpSend(c)
  BY <1>4, SentForm, ReturnForm, GotoForm DEF TcpSend, netVars, Outcomes, Stages
<1>5. CASE TcpSendFails(c)
  BY <1>5, ReturnForm DEF TcpSendFails, netVars, Outcomes
<1>6. CASE TcpAwait(c)
  BY <1>6, AwaitForm DEF TcpAwait
<1>7. CASE TcpCall(c)
  BY <1>7, BeginForm DEF TcpCall, Stages
<1>8. CASE TcpDeliver(c)
  BY <1>8, DeliverForm DEF TcpDeliver
<1> QED
  BY <1>1, <1>2, <1>3, <1>4, <1>5, <1>6, <1>7, <1>8 DEF TcpCallerStep

LEMMA GrpcForm ==
    ASSUME CallInv, transport = "grpc", NEW c \in Callers,
           GrpcCallerStep(c) \/ GrpcCall(c) \/ GrpcInvokeFails(c) \/ GrpcDeliver(c)
    PROVE  Form(c)
<1>1. CASE GrpcClientConn(c)
  BY <1>1, ReturnForm, GotOnForm DEF GrpcClientConn, netVars, Outcomes, Stages
<1>2. CASE GrpcInvoke(c)
  BY <1>2, ReturnForm, GotoForm DEF GrpcInvoke, netVars, Outcomes, Stages
<1>3. CASE GrpcAwait(c)
  <2>1. reply[c] # "none" => c \in ran
    BY DEF CallInv
  <2> QED
    BY <1>3, <2>1, ReturnForm DEF GrpcAwait, netVars, Outcomes
<1>4. CASE GrpcCall(c)
  BY <1>4, BeginForm DEF GrpcCall, Stages
<1>5. CASE GrpcInvokeFails(c)
  BY <1>5, ReturnForm DEF GrpcInvokeFails, netVars, Outcomes
<1>6. CASE GrpcDeliver(c)
  BY <1>6, DeliverForm DEF GrpcDeliver
<1> QED
  BY <1>1, <1>2, <1>3, <1>4, <1>5, <1>6 DEF GrpcCallerStep

LEMMA MemoryForm ==
    ASSUME CallInv, NEW c \in Callers, MemoryCallerStep(c) \/ MemoryCall(c) \/ CallDirect(c) \/ DirectRuns(c)
    PROVE  Form(c)
<1>1. CASE Enqueue(c)
  BY <1>1, GotoForm, ReturnForm DEF Enqueue, netVars, Outcomes, Stages
<1>2. CASE MemoryAwait(c)
  BY <1>2, AwaitForm DEF MemoryAwait
<1>3. CASE GiveUp(c)
  BY <1>3, ReturnForm DEF GiveUp, netVars, Outcomes
<1>4. CASE WaitReady(c)
  BY <1>4, GotoForm DEF WaitReady, unused, Stages
<1>5. CASE DirectRuns(c)
  BY <1>5 DEF DirectRuns, Form, Runs, callVars, unused
<1>6. CASE DirectReturns(c)
  BY <1>6, ReturnForm DEF DirectReturns, netVars, Outcomes
<1>7. CASE MemoryCall(c)
  BY <1>7, BeginForm DEF MemoryCall, Stages
<1>8. CASE CallDirect(c)
  BY <1>8, GotoForm DEF CallDirect, unused, Stages
<1> QED
  BY <1>1, <1>2, <1>3, <1>4, <1>5, <1>6, <1>7, <1>8 DEF MemoryCallerStep

LEMMA ListenerForm ==
    ASSUME CallInv, MemoryInv, transport = "memory", ListenerStep
    PROVE  Forms
<1>1. CASE Listen \/ ListenReturns \/ Take \/ DispatchRefused
  BY <1>1, QuietForm DEF Listen, ListenReturns, Take, DispatchRefused, clientVars
<1>2. CASE HandlerRuns
  <2>1. current \in Callers /\ pc[current] # "idle"
    BY <1>2 DEF HandlerRuns, MemoryInv
  <2>2. Runs(current)
    BY <1>2, <2>1 DEF HandlerRuns, Runs, callVars, unused
  <2> QED
    BY <2>1, <2>2 DEF Forms, Form
<1>3. CASE HandleReturns
  <2>1. current \in Callers /\ (dispatched = "ran" => current \in ran)
    BY <1>3 DEF HandleReturns, MemoryInv
  <2>2. Answers(current)
    BY <1>3, <2>1 DEF HandleReturns, SendReply, Answers, unused
  <2> QED
    BY <2>1, <2>2 DEF Forms, Form
<1> QED
  BY <1>1, <1>2, <1>3 DEF ListenerStep

LEMMA PeerForm ==
    ASSUME CallInv, NEW c \in Callers, PeerHandles(c)
    PROVE  Form(c)
<1>1. pc[c] # "idle"
  BY DEF PeerHandles, CallInv
<1> QED
  BY <1>1 DEF PeerHandles, Form, Runs, callVars

\* Close and the watchers touch no call, message or reply.
LEMMA CloserForm ==
    ASSUME CloserStep \/ Watch \/ CloseBegins PROVE Forms
<1>1. CASE MemoryClose
  BY <1>1 DEF MemoryClose, callVars, unused, Forms, Quiet
<1>2. CASE RabbitClose \/ KafkaClose \/ RedisClose
  BY <1>2, QuietForm DEF RabbitClose, CloseSession, RabbitCloseEnds, KafkaClose, KafkaCloseReader, KafkaCloseEnds,
                         RedisClose
<1>3. CASE NatsClose \/ TcpClose \/ GrpcClose
  BY <1>3, QuietForm DEF NatsClose, NatsSnapshotConn, NatsDrain, NatsCloseEnds, TcpClose, TcpCloseLink, TcpCloseEnds,
                         GrpcClose
<1>4. CASE Watch
  BY <1>4, QuietForm DEF Watch, WatchDead, WatchFailPending
<1>5. CASE CloseBegins
  BY <1>5, QuietForm DEF CloseBegins
<1> QED
  BY <1>1, <1>2, <1>3, <1>4, <1>5 DEF CloserStep

LEMMA WorldForm ==
    ASSUME CallInv, World PROVE Forms
<1>1. CASE Of("memory") /\ MemoryNext
  BY <1>1, MemoryForm, QuietForm DEF MemoryNext, Cancel, clientVars, Forms
<1>2. CASE Of("rabbit") /\ RabbitNext
  BY <1>2, RabbitForm DEF RabbitNext, Forms
<1>3. CASE Of("kafka") /\ KafkaNext
  BY <1>3, KafkaForm DEF KafkaNext, Forms
<1>4. CASE Of("redis") /\ RedisNext
  BY <1>4, RedisForm DEF RedisNext, Forms
<1>5. CASE Of("nats") /\ NatsNext
  BY <1>5, NatsForm, QuietForm DEF NatsNext, NatsConnectionCloses, LinkBreaks, Forms
<1>6. CASE Of("tcp") /\ TcpNext
  BY <1>6, TcpForm, QuietForm DEF TcpNext, TcpReaderEnds, Forms
<1>7. CASE Of("grpc") /\ GrpcNext
  BY <1>7, GrpcForm DEF Of, GrpcNext, Forms
<1> QED
  BY <1>1, <1>2, <1>3, <1>4, <1>5, <1>6, <1>7 DEF World

LEMMA CallerForm ==
    ASSUME CallInv, NEW c \in Callers, CallerStep(c) PROVE Form(c)
  BY MemoryForm, RabbitForm, KafkaForm, RedisForm, NatsForm, TcpForm, GrpcForm DEF CallerStep, Of

(***************************************************************************)
(* Every step of a client has one of the forms, whatever the transport.    *)
(***************************************************************************)
LEMMA CallCases ==
    ASSUME CallInv, MemoryInv, Next
    PROVE  Forms /\ UNCHANGED <<transport, kind>>
<1>1. UNCHANGED <<transport, kind>>
  BY DEF Next, World, CloserStep, Watch, Serve, Of, Untouched, CallerStep, ExpireStep
<1>2. CASE World
  BY <1>1, <1>2, WorldForm
<1>3. CASE CloserStep \/ Watch \/ CloseBegins
  BY <1>1, <1>3, CloserForm
<1>4. CASE Serve
  BY <1>1, <1>4, ListenerForm DEF Serve, Of
<1>5. ASSUME NEW s \in Links, LinkBreaks(s) PROVE Forms
  BY <1>5, QuietForm DEF LinkBreaks
<1>6. ASSUME NEW c \in Callers, CallerStep(c) \/ ExpireStep(c) \/ PeerHandles(c) PROVE Forms
  <2>1. CASE ExpireStep(c)
    BY <2>1 DEF ExpireStep, Expire, netVars, Forms, Quiet
  <2> QED
    BY <1>6, <2>1, CallerForm, PeerForm DEF Forms
<1> QED
  BY <1>1, <1>2, <1>3, <1>4, <1>5, <1>6 DEF Next

-----------------------------------------------------------------------------
(***************************************************************************)
(* The invariants of calls and of the in-process queue.                    *)
(***************************************************************************)
LEMMA CallInvInit == ASSUME Init PROVE CallInv /\ MemoryInv
  BY ClientCallsAssumption, ClientsAssumption
  DEF Init, ClientInit, MemoryInit, CallInv, MemoryInv, Stages

\* A call that has begun stays begun, and a handler that ran stays run.
LEMMA FormsKeep ==
    ASSUME CallInv, Forms
    PROVE  /\ \A c \in Callers : pc[c] # "idle" => pc'[c] # "idle"
           /\ ran \subseteq ran'
  BY DEF CallInv, Forms, Form, Quiet, Advances, Ends, Runs, Answers, Stages

LEMMA CallInvStep ==
    ASSUME CallInv, Forms, UNCHANGED <<transport, kind>> PROVE CallInv'
<1>1. CASE Quiet
  BY <1>1 DEF Quiet, CallInv
<1>2. ASSUME NEW c \in Callers, Advances(c) PROVE CallInv'
  BY <1>2 DEF Advances, CallInv, Stages
<1>3. ASSUME NEW c \in Callers, Ends(c) PROVE CallInv'
  BY <1>3 DEF Ends, CallInv, Stages
<1>4. ASSUME NEW c \in Callers, Runs(c) PROVE CallInv'
  BY <1>4 DEF Runs, CallInv, Stages
<1>5. ASSUME NEW c \in Callers, Answers(c) PROVE CallInv'
  BY <1>5 DEF Answers, CallInv, Stages
<1> QED
  BY <1>1, <1>2, <1>3, <1>4, <1>5 DEF Forms, Form

LEMMA MemoryCases ==
    ASSUME Next
    PROVE  \/ UNCHANGED <<queue, current, dispatched>>
           \/ Take \/ HandlerRuns \/ DispatchRefused \/ HandleReturns
           \/ \E c \in Callers : Enqueue(c)
<1>1. CASE UNCHANGED memoryVars
  BY <1>1 DEF memoryVars
<1>2. CASE Of("memory") /\ MemoryNext
  BY <1>2 DEF MemoryNext, MemoryCall, CallDirect, DirectRuns, Cancel, memoryVars
<1>3. CASE Serve
  BY <1>3 DEF Serve, ListenerStep, Listen, ListenReturns
<1>4. ASSUME NEW c \in Callers, Of("memory"), MemoryCallerStep(c)
      PROVE  UNCHANGED memoryVars \/ Enqueue(c)
  BY <1>4 DEF MemoryCallerStep, MemoryAwait, GiveUp, WaitReady, DirectRuns, DirectReturns
<1>5. CASE Of("memory") /\ MemoryClose
  BY <1>5 DEF MemoryClose, memoryVars
<1> QED
  BY <1>1, <1>2, <1>3, <1>4, <1>5 DEF Next, World, CloserStep, Watch, CallerStep, ExpireStep, Untouched, Of

LEMMA MemoryInvStep ==
    ASSUME CallInv, MemoryInv, Forms, Next PROVE MemoryInv'
<1>1. /\ \A c \in Callers : pc[c] # "idle" => pc'[c] # "idle"
      /\ ran \subseteq ran'
  BY FormsKeep
<1>2. \A i \in 1..Len(queue) : queue[i] \in Callers
  BY ElementOfSeq DEF MemoryInv
<1>3. CASE UNCHANGED <<queue, current, dispatched>>
  BY <1>1, <1>2, <1>3 DEF MemoryInv
<1>4. CASE Take
  <2>1. queue # <<>> /\ current' = Head(queue) /\ queue' = Tail(queue) /\ dispatched' = dispatched
        /\ current = Nobody
    BY <1>4 DEF Take
  <2>2. Len(queue) \in Nat /\ Len(queue) >= 1 /\ queue' \in Seq(Callers) /\ Len(queue') = Len(queue) - 1
        /\ \A i \in 1..Len(queue') : queue'[i] = queue[i + 1]
    BY <2>1, HeadTailProperties DEF MemoryInv
  <2>3. current' = queue[1]
    BY <2>1, <2>2 DEF MemoryInv
  <2>4. dispatched # "ran"
    BY <2>1, ClientCallsAssumption DEF MemoryInv, CallInv
  <2> QED
    BY <1>1, <1>2, <2>1, <2>2, <2>3, <2>4 DEF MemoryInv
<1>5. CASE HandlerRuns
  BY <1>1, <1>2, <1>5 DEF MemoryInv, HandlerRuns
<1>6. CASE DispatchRefused
  BY <1>1, <1>2, <1>6 DEF MemoryInv, DispatchRefused
<1>7. CASE HandleReturns
  BY <1>1, <1>2, <1>7 DEF MemoryInv, HandleReturns
<1>8. ASSUME NEW c \in Callers, Enqueue(c) PROVE MemoryInv'
  <2>1. queue' = Append(queue, c) /\ UNCHANGED <<current, dispatched>> /\ pc[c] = "send"
    BY <1>8 DEF Enqueue
  <2>2. queue' \in Seq(Callers) /\ Len(queue') = Len(queue) + 1 /\ Len(queue) \in Nat
        /\ \A i \in 1..Len(queue) : queue'[i] = queue[i]
        /\ queue'[Len(queue) + 1] = c
    BY <2>1, AppendProperties DEF MemoryInv
  <2> QED
    BY <1>1, <1>2, <2>1, <2>2 DEF MemoryInv
<1> QED
  BY <1>3, <1>4, <1>5, <1>6, <1>7, <1>8, MemoryCases

LEMMA CallsInvariant == Spec => [](CallInv /\ MemoryInv)
<1>1. Init => CallInv /\ MemoryInv
  BY CallInvInit
<1>2. CallInv /\ MemoryInv /\ [Next]_vars => (CallInv /\ MemoryInv)'
  <2>1. ASSUME CallInv, MemoryInv, Next PROVE (CallInv /\ MemoryInv)'
    BY <2>1, CallCases, CallInvStep, MemoryInvStep
  <2>2. ASSUME CallInv, MemoryInv, UNCHANGED vars PROVE (CallInv /\ MemoryInv)'
    BY <2>2 DEF vars, clientVars, callVars, netVars, memoryVars, CallInv, MemoryInv
  <2> QED
    BY <2>1, <2>2
<1> QED
  BY <1>1, <1>2, PTL DEF Spec

-----------------------------------------------------------------------------
(***************************************************************************)
(* The refinement.                                                         *)
(***************************************************************************)
\* What the Publisher interface shows of call c.
Visible(c) == IF pc[c] = "idle" THEN "idle" ELSE IF pc[c] = "done" THEN result[c] ELSE "open"

\* Only the call that acts can change what is visible.
LEMMA OthersKeep ==
    ASSUME CallInv, NEW c \in Callers, Form(c)
    PROVE  \A d \in Callers \ {c} : Visible(d)' = Visible(d)
  BY DEF CallInv, Form, Advances, Ends, Runs, Answers, Visible

LEMMA FormImplements ==
    ASSUME CallInv, NEW c \in Callers, Form(c)
    PROVE  [RR!Next]_(RR!vars)
<1> DEFINE state == [d \in Callers |-> Visible(d)]
           done == [d \in Callers |-> d \in ran]
<1>1. state' = [state EXCEPT ![c] = Visible(c)'] /\ state[c] = Visible(c)
  BY OthersKeep
<1>2. CASE Advances(c)
  <2>1. done' = done
    BY <1>2 DEF Advances
  <2>2. Visible(c)' = "open" /\ Visible(c) \in {"idle", "open"}
    BY <1>2 DEF Advances, Visible, CallInv, Stages
  <2>3. CASE Visible(c) = "idle"
    <3>1. RR!Begin(c)
      BY <1>1, <2>1, <2>2, <2>3 DEF RR!Begin, Visible
    <3> QED
      BY <3>1 DEF RR!Next
  <2>4. CASE Visible(c) = "open"
    <3>1. state' = state
      BY <1>1, <2>2, <2>4
    <3> QED
      BY <2>1, <3>1 DEF RR!vars, Visible
  <2> QED
    BY <2>2, <2>3, <2>4
<1>3. CASE Ends(c)
  <2>1. PICK o \in Outcomes :
          /\ pc[c] # "done" /\ (pc[c] = "idle" => o = "closed") /\ (o = "reply" => c \in ran)
          /\ pc' = [pc EXCEPT ![c] = "done"] /\ result' = [result EXCEPT ![c] = o]
          /\ UNCHANGED ran
    BY <1>3 DEF Ends
  <2>2. done' = done /\ Visible(c)' = o /\ Visible(c) \in {"idle", "open"}
    BY <2>1 DEF Visible, CallInv
  <2>3. CASE Visible(c) = "idle"
    <3>1. RR!Refuse(c)
      BY <1>1, <2>1, <2>2, <2>3 DEF RR!Refuse, Visible
    <3> QED
      BY <3>1 DEF RR!Next
  <2>4. CASE Visible(c) = "open"
    <3>1. RR!End(c, o)
      BY <1>1, <2>1, <2>2, <2>4 DEF RR!End, Visible
    <3> QED
      BY <3>1 DEF RR!Next, RR!Outcomes, Outcomes
  <2> QED
    BY <2>2, <2>3, <2>4
<1>4. CASE Runs(c)
  <2>1. state' = state /\ state[c] # "idle"
    BY <1>1, <1>4 DEF Runs, Visible, CallInv, Outcomes
  <2>2. done' = [done EXCEPT ![c] = TRUE]
    <3>1. \A d \in Callers : (d \in ran') = (IF d = c THEN TRUE ELSE d \in ran)
      <4>1. ran' = ran \cup {c}
        BY <1>4 DEF Runs
      <4>2. \A d \in Callers : d \in ran' <=> (d = c \/ d \in ran)
        BY <4>1
      <4>3. (c \in ran') = TRUE
        BY <4>2, Zenon
      <4>4. \A d \in Callers \ {c} : (d \in ran') = (d \in ran)
        BY <4>1
      <4> QED
        BY <4>3, <4>4, Zenon
    <3>2. done' = [d \in Callers |-> IF d = c THEN TRUE ELSE done[d]]
      BY <3>1, Zenon
    <3> QED
      BY <3>2, Zenon
  <2>3. RR!Run(c)
    BY <2>1, <2>2 DEF RR!Run, Visible
  <2> QED
    BY <2>3 DEF RR!Next
<1>5. CASE Answers(c)
  BY <1>1, <1>5 DEF Answers, Visible, RR!vars
<1> QED
  BY <1>2, <1>3, <1>4, <1>5 DEF Form

(***************************************************************************)
(* Every transport implements RequestReply, the promise of the Publisher   *)
(* interface (transport.go:65-80): whatever the callers, the links, Close  *)
(* and the peer do, a call has one outcome, which is never revised, and it *)
(* is a reply only when a handler ran on its message.                      *)
(***************************************************************************)
THEOREM ClientsImplement == Spec => ImplementsRequestReply
<1>1. Init => RR!Init
  <2>1. ASSUME Init PROVE [c \in Callers |-> c \in ran] = [c \in Callers |-> FALSE]
    <3>1. \A c \in Callers : (c \in ran) = FALSE
      <4>1. ran = {}
        BY <2>1 DEF Init, ClientInit
      <4> QED
        BY <4>1
    <3> QED
      BY <3>1, Zenon
  <2>2. ASSUME Init PROVE [c \in Callers |-> Visible(c)] = [c \in Callers |-> "idle"]
    BY <2>2 DEF Init, ClientInit, Visible
  <2> QED
    BY <2>1, <2>2, Zenon DEF RR!Init, Visible
<1>2. ASSUME CallInv, MemoryInv, [Next]_vars PROVE [RR!Next]_(RR!vars)
  <2>1. CASE Next
    <3>1. CASE Quiet
      BY <3>1 DEF Quiet, RR!vars
    <3> QED
      BY <1>2, <2>1, <3>1, CallCases, FormImplements DEF Forms
  <2>2. CASE UNCHANGED vars
    BY <2>2 DEF vars, clientVars, callVars, netVars, RR!vars
  <2> QED
    BY <1>2, <2>1, <2>2
<1> QED
  BY <1>1, <1>2, CallsInvariant, PTL DEF Spec, ImplementsRequestReply, RR!Spec

-----------------------------------------------------------------------------
(***************************************************************************)
(* The links.  LinkTypes bounds them by the number created, and each       *)
(* transport has an invariant of its own on who may still create one.      *)
(***************************************************************************)
LinkTypes ==
    /\ created \in Nat /\ link \in 0..created
    /\ on \in [Callers -> 0..created]
    /\ open \subseteq 1..created /\ dead \subseteq 0..created /\ watching \subseteq 1..created
    /\ lock \in Callers \cup {Nobody}
    /\ closer # "idle" => closed

MemoryLinks == open = {}

\* A session that is dropped is down, and there is none once Close took it.
RabbitLinks ==
    /\ dead \cap open = {} /\ open \subseteq {link}
    /\ closer \in {"detached", "done"} => open = {}

\* The one reader exists when the Once is done; Close takes it or it leaks.
KafkaLinks ==
    /\ open \subseteq {link} \cup leaked
    /\ lock # Nobody => once = "running"
    /\ IF once = "ready" THEN created # 0 ELSE open = {}
    /\ closer \in {"detached", "done"} => open \subseteq leaked

\* Who holds replyMu found no inbox, and Close waits for replyMu.
RedisLinks ==
    /\ open \subseteq {link}
    /\ lock # Nobody => link = 0 /\ closer # "done"
    /\ closer = "done" => open = {}

\* Who holds connMu found no live connection, and Close looks under connMu.
NatsLinks ==
    /\ open \subseteq {link}
    /\ lock # Nobody => link \notin open /\ closer \in {"idle", "begun"}
    /\ (closer = "detached" /\ connClosed) => open \subseteq leaked
    /\ closer = "done" => open \subseteq leaked

\* Who holds dialMu has dropped the connection, which was down.
TcpLinks ==
    /\ dead \cap open = {} /\ open \subseteq {link}
    /\ lock # Nobody => link = 0 /\ closer \in {"idle", "begun"}
    /\ closer \in {"detached", "done"} => open = {}

\* The Once is used up by the connection or by Close.
GrpcLinks ==
    /\ open \subseteq {link}
    /\ once = "fresh" => open = {}
    /\ closer = "done" => once # "fresh" /\ open = {}

LinkInv ==
    /\ LinkTypes
    /\ transport = "memory" => MemoryLinks
    /\ transport = "rabbit" => RabbitLinks
    /\ transport = "kafka" => KafkaLinks
    /\ transport = "redis" => RedisLinks
    /\ transport = "nats" => NatsLinks
    /\ transport = "tcp" => TcpLinks
    /\ transport = "grpc" => GrpcLinks

\* A caller that neither locks nor links.
Stays(c) ==
    /\ UNCHANGED <<mutexVars, linkVars, closeVars, leaked>>
    /\ on' \in {on, [on EXCEPT ![c] = 0]}

LEMMA StaysTypes ==
    ASSUME LinkTypes, NEW c \in Callers, Stays(c), UNCHANGED watching PROVE LinkTypes'
  BY DEF LinkTypes, Stays, mutexVars, linkVars, closeVars

LEMMA AwaitStays ==
    ASSUME NEW c, NEW outcomes, Await(c, outcomes) PROVE Stays(c)
  BY DEF Await, Return, Stays

LEMMA BeginStays ==
    ASSUME NEW c, NEW to, Begin(c, to) PROVE Stays(c)
  BY DEF Begin, Return, Goto, Stays

LEMMA RegisterStays ==
    ASSUME NEW c, NEW to, Register(c, to) PROVE Stays(c)
  BY DEF Register, Goto, Stays

LEMMA DeliverStays ==
    ASSUME NEW c, NEW entries, Deliver(c, entries) PROVE Stays(c)
  BY DEF Deliver, Stays

LEMMA RabbitLinkStep ==
    ASSUME LinkTypes, RabbitLinks, NEW c \in Callers,
           RabbitCallerStep(c) \/ RabbitCall(c) \/ Confirmed(c) \/ Nacked(c) \/ RabbitDeliverReply(c)
    PROVE  (LinkTypes /\ RabbitLinks)'
<1>1. CASE Stays(c) /\ UNCHANGED watching
  BY <1>1, StaysTypes DEF RabbitLinks, Stays, linkVars, closeVars
<1>2. CASE SessionClosed(c) \/ Nacked(c) \/ RabbitSend(c) \/ Confirmed(c) \/ NotConfirmed(c)
  BY <1>1, <1>2 DEF SessionClosed, Nacked, RabbitSend, Confirmed, NotConfirmed, Return, Goto, Stays, rabbitVars
<1>3. CASE RabbitRegister(c) \/ RabbitAwait(c) \/ RabbitCall(c) \/ RabbitDeliverReply(c)
  BY <1>1, <1>3, RegisterStays, AwaitStays, BeginStays, DeliverStays
  DEF RabbitRegister, RabbitAwait, RabbitCall, RabbitDeliverReply, rabbitVars
<1>4. CASE ReuseSession(c)
  BY <1>4 DEF ReuseSession, GotOn, LinkTypes, RabbitLinks, mutexVars, linkVars, closeVars, rabbitVars
<1>5. CASE NewSession(c)
  BY <1>5 DEF NewSession, NewLink, Usable, IsDead, GotOn, LinkTypes, RabbitLinks, mutexVars, closeVars
<1>6. CASE DialFails(c)
  BY <1>6 DEF DialFails, Usable, IsDead, LinkTypes, RabbitLinks, mutexVars, closeVars
<1>7. CASE RabbitSendFails(c)
  BY <1>7 DEF RabbitSendFails, Return, LinkTypes, RabbitLinks, mutexVars, closeVars, rabbitVars
<1> QED
  BY <1>2, <1>3, <1>4, <1>5, <1>6, <1>7 DEF RabbitCallerStep

LEMMA RabbitCloseStep ==
    ASSUME LinkTypes, RabbitLinks, RabbitClose \/ Watch
    PROVE  (LinkTypes /\ RabbitLinks)'
<1>1. CASE CloseSession
  BY <1>1 DEF CloseSession, LinkTypes, RabbitLinks, callVars, mutexVars, rabbitVars
<1>2. CASE RabbitCloseEnds
  BY <1>2 DEF RabbitCloseEnds, LinkTypes, RabbitLinks, callVars, mutexVars, linkVars, rabbitVars
<1>3. ASSUME NEW s \in Links, WatchDead(s) PROVE (LinkTypes /\ RabbitLinks)'
  BY <1>3 DEF WatchDead, LinkTypes, RabbitLinks, callVars, mutexVars, closeVars, rabbitVars
<1>4. ASSUME NEW s \in Links, WatchFailPending(s) PROVE (LinkTypes /\ RabbitLinks)'
  BY <1>4 DEF WatchFailPending, LinkTypes, RabbitLinks, callVars, mutexVars, linkVars, closeVars
<1> QED
  BY <1>1, <1>2, <1>3, <1>4 DEF RabbitClose, Watch

LEMMA KafkaLinkStep ==
    ASSUME LinkTypes, KafkaLinks, UNCHANGED watching,
           KafkaClose \/ \E c \in Callers : KafkaCallerStep(c) \/ KafkaCall(c) \/ KafkaDeliverReply(c)
    PROVE  (LinkTypes /\ KafkaLinks)'
<1>1. ASSUME NEW c \in Callers, Stays(c) PROVE (LinkTypes /\ KafkaLinks)'
  BY <1>1, StaysTypes DEF KafkaLinks, Stays, linkVars, closeVars, mutexVars
<1>2. ASSUME NEW c \in Callers,
             KafkaCall(c) \/ KafkaDeliverReply(c) \/ KafkaRegister(c) \/ KafkaAwait(c) PROVE Stays(c)
  BY <1>2, BeginStays, DeliverStays, RegisterStays, AwaitStays
  DEF KafkaCall, KafkaDeliverReply, KafkaRegister, KafkaAwait
<1>3. ASSUME NEW c \in Callers, KafkaWrite(c) \/ KafkaWriteFails(c) PROVE Stays(c)
  BY <1>3 DEF KafkaWrite, KafkaWriteFails, Sent, Goto, Return, Stays
<1>4. ASSUME NEW c \in Callers, KafkaEnsureReplyConsumer(c) PROVE (LinkTypes /\ KafkaLinks)'
  <2>1. CASE UNCHANGED mutexVars /\ Return(c, "failed")
    BY <1>1, <1>4, <2>1 DEF KafkaEnsureReplyConsumer, Return, Stays
  <2>2. CASE once = "fresh" /\ once' = "running" /\ lock' = c /\ Goto(c, "dialing")
    BY <1>4, <2>2, ClientCallsAssumption
    DEF KafkaEnsureReplyConsumer, Goto, LinkTypes, KafkaLinks, linkVars, closeVars
  <2>3. CASE once = "ready" /\ GotOn(c, 1, "register") /\ UNCHANGED mutexVars
    BY <1>4, <2>3 DEF KafkaEnsureReplyConsumer, GotOn, LinkTypes, KafkaLinks, linkVars, closeVars, mutexVars
  <2> QED
    BY <1>4, <2>1, <2>2, <2>3 DEF KafkaEnsureReplyConsumer
<1>5. ASSUME NEW c \in Callers, KafkaStartReader(c) PROVE (LinkTypes /\ KafkaLinks)'
  <2>1. open = {} /\ lock = c /\ lock' = Nobody
    BY <1>5, ClientCallsAssumption DEF KafkaStartReader, KafkaLinks
  <2>2. CASE once' = "failed" /\ UNCHANGED <<linkVars, leaked>> /\ Return(c, "failed")
    BY <1>5, <2>1, <2>2 DEF KafkaStartReader, Return, LinkTypes, KafkaLinks, linkVars, closeVars
  <2>3. CASE once' = "ready" /\ NewLink /\ GotOn(c, created + 1, "register")
    BY <1>5, <2>1, <2>3 DEF KafkaStartReader, NewLink, GotOn, LinkTypes, KafkaLinks, closeVars
  <2> QED
    BY <1>5, <2>2, <2>3 DEF KafkaStartReader
<1>6. CASE KafkaCloseReader
  BY <1>6 DEF KafkaCloseReader, LinkTypes, KafkaLinks, callVars, mutexVars
<1>7. CASE KafkaCloseEnds
  BY <1>7 DEF KafkaCloseEnds, LinkTypes, KafkaLinks, callVars, mutexVars, linkVars
<1> QED
  BY <1>1, <1>2, <1>3, <1>4, <1>5, <1>6, <1>7 DEF KafkaClose, KafkaCallerStep

LEMMA RedisLinkStep ==
    ASSUME LinkTypes, RedisLinks, UNCHANGED watching,
           RedisClose \/ \E c \in Callers : RedisCallerStep(c) \/ RedisCall(c) \/ RedisDeliver(c)
    PROVE  (LinkTypes /\ RedisLinks)'
<1>1. ASSUME NEW c \in Callers, Stays(c) PROVE (LinkTypes /\ RedisLinks)'
  BY <1>1, StaysTypes DEF RedisLinks, Stays, linkVars, closeVars, mutexVars
<1>2. ASSUME NEW c \in Callers,
             RedisCall(c) \/ RedisDeliver(c) \/ RedisRegister(c) \/ RedisAwait(c) PROVE Stays(c)
  BY <1>2, BeginStays, DeliverStays, RegisterStays, AwaitStays DEF RedisCall, RedisDeliver, RedisRegister, RedisAwait
<1>3. ASSUME NEW c \in Callers, RedisPublish(c) \/ RedisPublishFails(c) PROVE Stays(c)
  BY <1>3 DEF RedisPublish, RedisPublishFails, Sent, Goto, Return, Stays
<1>4. ASSUME NEW c \in Callers, RedisEnsureReplies(c) PROVE (LinkTypes /\ RedisLinks)'
  <2>1. CASE UNCHANGED lock /\ Return(c, "closed")
    BY <1>1, <1>4, <2>1 DEF RedisEnsureReplies, Return, Stays, mutexVars
  <2>2. CASE link = 0 /\ ~closed /\ lock' = c /\ Goto(c, "dialing")
    BY <1>4, <2>2 DEF RedisEnsureReplies, Goto, LinkTypes, RedisLinks, linkVars, closeVars
  <2>3. CASE GotOn(c, link, "register") /\ UNCHANGED lock
    BY <1>4, <2>3 DEF RedisEnsureReplies, GotOn, LinkTypes, RedisLinks, linkVars, closeVars
  <2> QED
    BY <1>4, <2>1, <2>2, <2>3 DEF RedisEnsureReplies
<1>5. ASSUME NEW c \in Callers, RedisSubscribe(c) PROVE (LinkTypes /\ RedisLinks)'
  <2>1. open = {} /\ closer # "done" /\ lock' = Nobody
    BY <1>5, ClientCallsAssumption DEF RedisSubscribe, RedisLinks, LinkTypes
  <2>2. CASE UNCHANGED linkVars /\ (Return(c, "failed") \/ Return(c, "timeout"))
    BY <1>5, <2>1, <2>2 DEF RedisSubscribe, Return, LinkTypes, RedisLinks, linkVars, closeVars
  <2>3. CASE NewLink /\ GotOn(c, created + 1, "register")
    BY <1>5, <2>1, <2>3 DEF RedisSubscribe, NewLink, GotOn, LinkTypes, RedisLinks, closeVars
  <2> QED
    BY <1>5, <2>2, <2>3 DEF RedisSubscribe
<1>6. CASE RedisClose
  BY <1>6 DEF RedisClose, LinkTypes, RedisLinks, callVars, mutexVars
<1> QED
  BY <1>1, <1>2, <1>3, <1>4, <1>5, <1>6 DEF RedisCallerStep

LEMMA NatsLinkStep ==
    ASSUME LinkTypes, NatsLinks, UNCHANGED watching,
           \/ NatsClose \/ \E s \in Links : NatsConnectionCloses(s)
           \/ \E c \in Callers : \/ NatsCallerStep(c) \/ (NatsCall(c) /\ UNCHANGED connClosed)
                                 \/ NatsNoResponders(c) \/ NatsDeliver(c)
    PROVE  (LinkTypes /\ NatsLinks)'
<1>1. ASSUME NEW c \in Callers, Stays(c), UNCHANGED connClosed PROVE (LinkTypes /\ NatsLinks)'
  BY <1>1, StaysTypes DEF NatsLinks, Stays, linkVars, closeVars, mutexVars
<1>2. ASSUME NEW c \in Callers, NatsCall(c) \/ NatsDeliver(c) \/ NatsAwait(c) PROVE Stays(c)
  BY <1>2, BeginStays, DeliverStays, AwaitStays DEF NatsCall, NatsDeliver, NatsAwait
<1>3. ASSUME NEW c \in Callers, NatsPublish(c) \/ NatsNoResponders(c) PROVE Stays(c)
  BY <1>3 DEF NatsPublish, NatsNoResponders, Sent, Goto, Return, Stays
<1>4. ASSUME NEW c \in Callers, NatsConn(c) PROVE (LinkTypes /\ NatsLinks)'
  <2>1. CASE UNCHANGED lock /\ Return(c, "closed")
    BY <1>1, <1>4, <2>1 DEF NatsConn, Return, Stays, mutexVars
  <2>2. CASE link \notin open /\ ~closed /\ lock' = c /\ Goto(c, "dialing")
    BY <1>4, <2>2 DEF NatsConn, Goto, LinkTypes, NatsLinks, linkVars, closeVars
  <2>3. CASE GotOn(c, link, "send") /\ UNCHANGED lock
    BY <1>4, <2>3 DEF NatsConn, GotOn, LinkTypes, NatsLinks, linkVars, closeVars
  <2> QED
    BY <1>4, <2>1, <2>2, <2>3 DEF NatsConn
<1>5. ASSUME NEW c \in Callers, NatsConnect(c) PROVE (LinkTypes /\ NatsLinks)'
  <2>1. open = {} /\ closer \in {"idle", "begun"} /\ lock' = Nobody
    BY <1>5, ClientCallsAssumption DEF NatsConnect, NatsLinks
  <2>2. CASE UNCHANGED linkVars /\ Return(c, "failed")
    BY <1>5, <2>1, <2>2 DEF NatsConnect, Return, LinkTypes, NatsLinks, linkVars, closeVars
  <2>3. CASE NewLink /\ GotOn(c, created + 1, "send")
    BY <1>5, <2>1, <2>3 DEF NatsConnect, NewLink, GotOn, LinkTypes, NatsLinks, closeVars
  <2> QED
    BY <1>5, <2>2, <2>3 DEF NatsConnect
<1>6. CASE NatsSnapshotConn
  BY <1>6 DEF NatsSnapshotConn, LinkTypes, NatsLinks, callVars, mutexVars, linkVars
<1>7. CASE NatsDrain
  BY <1>7 DEF NatsDrain, LinkTypes, NatsLinks, callVars, mutexVars, closeVars
<1>8. CASE NatsCloseEnds
  BY <1>8 DEF NatsCloseEnds, LinkTypes, NatsLinks, callVars, mutexVars, linkVars
<1>9. ASSUME NEW s \in Links, NatsConnectionCloses(s) PROVE (LinkTypes /\ NatsLinks)'
  BY <1>9 DEF NatsConnectionCloses, LinkBreaks, LinkTypes, NatsLinks, callVars, mutexVars, closeVars
<1> USE DEF NatsClose, NatsCallerStep
<1>10. CASE \E c \in Callers : NatsCallerStep(c) \/ (NatsCall(c) /\ UNCHANGED connClosed)
                               \/ NatsNoResponders(c) \/ NatsDeliver(c)
  <2>1. PICK c \in Callers : NatsCallerStep(c) \/ (NatsCall(c) /\ UNCHANGED connClosed)
                             \/ NatsNoResponders(c) \/ NatsDeliver(c)
    BY <1>10
  <2>2. UNCHANGED connClosed
    BY <2>1 DEF NatsConn, NatsConnect, NatsPublish, NatsAwait, NatsNoResponders, NatsDeliver
  <2> QED
    BY <1>1, <1>2, <1>3, <1>4, <1>5, <2>1, <2>2
<1> QED
  BY <1>6, <1>7, <1>8, <1>9, <1>10

LEMMA TcpLinkStep ==
    ASSUME LinkTypes, TcpLinks, UNCHANGED watching,
           \/ TcpClose \/ \E s \in Links : TcpReaderEnds(s)
           \/ \E c \in Callers : TcpCallerStep(c) \/ TcpCall(c) \/ TcpDeliver(c)
    PROVE  (LinkTypes /\ TcpLinks)'
<1>1. ASSUME NEW c \in Callers, Stays(c) PROVE (LinkTypes /\ TcpLinks)'
  BY <1>1, StaysTypes DEF TcpLinks, Stays, linkVars, closeVars, mutexVars
<1>2. ASSUME NEW c \in Callers, TcpCall(c) \/ TcpDeliver(c) \/ TcpRegister(c) \/ TcpAwait(c) PROVE Stays(c)
  BY <1>2, BeginStays, DeliverStays, RegisterStays, AwaitStays DEF TcpCall, TcpDeliver, TcpRegister, TcpAwait
<1>3. ASSUME NEW c \in Callers, TcpSend(c) PROVE Stays(c)
  BY <1>3 DEF TcpSend, Sent, Goto, Return, Stays
<1>4. ASSUME NEW c \in Callers, TcpDial(c) PROVE (LinkTypes /\ TcpLinks)'
  <2>1. CASE TcpAlive
    BY <1>4, <2>1 DEF TcpDial, GotOn, LinkTypes, TcpLinks, closeVars
  <2>2. CASE ~TcpAlive /\ closed
    BY <1>4, <2>2 DEF TcpDial, TcpAlive, Return, LinkTypes, TcpLinks, closeVars
  <2>3. CASE ~TcpAlive /\ ~closed
    BY <1>4, <2>3 DEF TcpDial, TcpAlive, Goto, LinkTypes, TcpLinks, closeVars
  <2> QED
    BY <2>1, <2>2, <2>3
<1>5. ASSUME NEW c \in Callers, TcpDialing(c) PROVE (LinkTypes /\ TcpLinks)'
  <2>1. open = {} /\ closer \in {"idle", "begun"} /\ lock' = Nobody
    BY <1>5, ClientCallsAssumption DEF TcpDialing, TcpLinks, LinkTypes
  <2>2. CASE UNCHANGED linkVars /\ \E o \in {"failed", "closed", "timeout"} : Return(c, o)
    BY <1>5, <2>1, <2>2 DEF TcpDialing, Return, LinkTypes, TcpLinks, linkVars, closeVars
  <2>3. CASE NewLink /\ GotOn(c, created + 1, "send")
    BY <1>5, <2>1, <2>3 DEF TcpDialing, NewLink, GotOn, LinkTypes, TcpLinks, closeVars
  <2> QED
    BY <1>5, <2>2, <2>3 DEF TcpDialing
<1>6. ASSUME NEW c \in Callers, TcpSendFails(c) PROVE (LinkTypes /\ TcpLinks)'
  <2>1. on[c] \in 0..created
    BY DEF LinkTypes
  <2>2. LinkTypes'
    <3>1. UNCHANGED <<created, link, lock, closed, closer>>
      BY <1>6 DEF TcpSendFails, mutexVars, closeVars
    <3>2. dead' \subseteq 0..created
      BY <1>6, <2>1 DEF TcpSendFails, LinkTypes
    <3>3. open' \subseteq 1..created
      BY <1>6 DEF TcpSendFails, LinkTypes
    <3>4. on' \in [Callers -> 0..created]
      BY <1>6 DEF TcpSendFails, Return, LinkTypes
    <3> QED
      BY <3>1, <3>2, <3>3, <3>4 DEF LinkTypes
  <2>3. TcpLinks'
    BY <1>6 DEF TcpSendFails, TcpLinks, mutexVars, closeVars
  <2> QED
    BY <2>2, <2>3
<1>7. CASE TcpCloseLink
  BY <1>7 DEF TcpCloseLink, LinkTypes, TcpLinks, callVars, mutexVars
<1>8. CASE TcpCloseEnds
  BY <1>8 DEF TcpCloseEnds, LinkTypes, TcpLinks, callVars, mutexVars, linkVars
<1>9. ASSUME NEW s \in Links, TcpReaderEnds(s) PROVE (LinkTypes /\ TcpLinks)'
  BY <1>9 DEF TcpReaderEnds, LinkTypes, TcpLinks, callVars, mutexVars, closeVars
<1> QED
  BY <1>1, <1>2, <1>3, <1>4, <1>5, <1>6, <1>7, <1>8, <1>9 DEF TcpClose, TcpCallerStep

LEMMA GrpcLinkStep ==
    ASSUME LinkTypes, GrpcLinks, UNCHANGED watching,
           GrpcClose \/ \E c \in Callers : GrpcCallerStep(c) \/ GrpcCall(c) \/ GrpcInvokeFails(c) \/ GrpcDeliver(c)
    PROVE  (LinkTypes /\ GrpcLinks)'
<1>1. ASSUME NEW c \in Callers, Stays(c) PROVE (LinkTypes /\ GrpcLinks)'
  BY <1>1, StaysTypes DEF GrpcLinks, Stays, linkVars, closeVars, mutexVars
<1>2. ASSUME NEW c \in Callers, GrpcCall(c) \/ GrpcDeliver(c) PROVE Stays(c)
  BY <1>2, BeginStays, DeliverStays DEF GrpcCall, GrpcDeliver
<1>3. ASSUME NEW c \in Callers, GrpcInvoke(c) \/ GrpcAwait(c) \/ GrpcInvokeFails(c) PROVE Stays(c)
  BY <1>3 DEF GrpcInvoke, GrpcAwait, GrpcInvokeFails, Goto, Return, Stays
<1>4. ASSUME NEW c \in Callers, GrpcClientConn(c) PROVE (LinkTypes /\ GrpcLinks)'
  <2>1. CASE once = "fresh" /\ once' = "ready" /\ NewLink /\ GotOn(c, created + 1, "send")
    BY <1>4, <2>1 DEF GrpcClientConn, NewLink, GotOn, LinkTypes, GrpcLinks, closeVars
  <2>2. CASE GotOn(c, link, "send") /\ UNCHANGED <<once, linkVars>>
    BY <1>4, <2>2 DEF GrpcClientConn, GotOn, LinkTypes, GrpcLinks, linkVars, closeVars
  <2>3. CASE Return(c, "closed") /\ UNCHANGED <<once, linkVars>>
    BY <1>1, <1>4, <2>3 DEF GrpcClientConn, Return, Stays, mutexVars
  <2> QED
    BY <1>4, <2>1, <2>2, <2>3 DEF GrpcClientConn
<1>5. CASE GrpcClose
  BY <1>5 DEF GrpcClose, LinkTypes, GrpcLinks, callVars
<1> QED
  BY <1>1, <1>2, <1>3, <1>4, <1>5 DEF GrpcCallerStep

\* The in-process transport has no links.
LEMMA MemoryLinkStep ==
    ASSUME LinkTypes, MemoryLinks, UNCHANGED watching,
           MemoryClose \/ MemoryNext \/ ListenerStep \/ \E c \in Callers : MemoryCallerStep(c)
    PROVE  (LinkTypes /\ MemoryLinks)'
<1>1. ASSUME NEW c \in Callers, Stays(c) PROVE (LinkTypes /\ MemoryLinks)'
  BY <1>1, StaysTypes DEF MemoryLinks, Stays, linkVars
<1>2. ASSUME NEW c \in Callers, MemoryCallerStep(c) \/ MemoryCall(c) \/ CallDirect(c) \/ DirectRuns(c) PROVE Stays(c)
  <2>1. CASE MemoryAwait(c) \/ MemoryCall(c)
    BY <2>1, AwaitStays, BeginStays DEF MemoryAwait, MemoryCall
  <2>2. CASE Enqueue(c) \/ GiveUp(c) \/ WaitReady(c) \/ DirectRuns(c) \/ DirectReturns(c) \/ CallDirect(c)
    BY <2>2 DEF Enqueue, GiveUp, WaitReady, DirectRuns, DirectReturns, CallDirect, Goto, Return, Stays, unused,
                callVars
  <2> QED
    BY <1>2, <2>1, <2>2 DEF MemoryCallerStep
<1>3. CASE Cancel \/ ListenerStep
  <2>1. UNCHANGED <<on, lock, linkVars, closeVars>>
    BY <1>3 DEF Cancel, ListenerStep, Listen, ListenReturns, Take, HandlerRuns, DispatchRefused, HandleReturns,
                clientVars, callVars, mutexVars, unused
  <2> QED
    BY <2>1 DEF LinkTypes, MemoryLinks, linkVars, closeVars
<1>4. CASE MemoryClose
  BY <1>4 DEF MemoryClose, callVars, unused, mutexVars, linkVars, LinkTypes, MemoryLinks
<1> QED
  BY <1>1, <1>2, <1>3, <1>4 DEF MemoryNext

\* The steps that belong to no transport in particular.
LEMMA SharedLinkStep ==
    ASSUME LinkInv, Untouched,
           \/ CloseBegins \/ \E c \in Callers : Expire(c) \/ PeerHandles(c)
           \/ transport \in {"rabbit", "tcp"} /\ \E s \in Links : LinkBreaks(s)
    PROVE  LinkInv'
<1> USE DEF LinkInv, LinkTypes, Untouched, rabbitVars
<1>1. CASE CloseBegins
  BY <1>1 DEF CloseBegins, callVars, mutexVars, linkVars, MemoryLinks, RabbitLinks, KafkaLinks, RedisLinks,
              NatsLinks, TcpLinks, GrpcLinks
<1>2. ASSUME NEW c \in Callers, Expire(c) \/ PeerHandles(c) PROVE LinkInv'
  <2>1. UNCHANGED <<on, mutexVars, linkVars, closeVars, leaked>>
    BY <1>2 DEF Expire, PeerHandles, callVars
  <2> QED
    BY <2>1 DEF mutexVars, linkVars, closeVars, MemoryLinks, RabbitLinks, KafkaLinks, RedisLinks,
                NatsLinks, TcpLinks, GrpcLinks
<1>3. ASSUME transport \in {"rabbit", "tcp"}, NEW s \in Links, LinkBreaks(s) PROVE LinkInv'
  BY <1>3 DEF LinkBreaks, callVars, mutexVars, closeVars, RabbitLinks, TcpLinks
<1> QED
  BY <1>1, <1>2, <1>3

LEMMA LinkInvStep ==
    ASSUME LinkInv, Next PROVE LinkInv'
<1>1. CASE \/ CloseBegins /\ Untouched
           \/ \E c \in Callers : ExpireStep(c) \/ (PeerHandles(c) /\ Untouched)
           \/ transport \in {"rabbit", "tcp"} /\ Untouched /\ \E s \in Links : LinkBreaks(s)
  BY <1>1, SharedLinkStep DEF ExpireStep
<1>2. CASE \/ Of("memory") /\ (MemoryNext \/ MemoryClose)
           \/ Serve
           \/ \E c \in Callers : Of("memory") /\ MemoryCallerStep(c)
  BY <1>2, MemoryLinkStep DEF LinkInv, Of, Serve, rabbitVars
<1>3. CASE \/ Of("rabbit") /\ (RabbitNext \/ RabbitClose)
           \/ Watch
           \/ \E c \in Callers : Of("rabbit") /\ RabbitCallerStep(c)
  BY <1>3, RabbitLinkStep, RabbitCloseStep DEF LinkInv, Of, RabbitNext, Watch
<1>4. CASE \/ Of("kafka") /\ (KafkaNext \/ KafkaClose)
           \/ \E c \in Callers : Of("kafka") /\ KafkaCallerStep(c)
  BY <1>4, KafkaLinkStep DEF LinkInv, Of, KafkaNext, rabbitVars
<1>5. CASE \/ Of("redis") /\ (RedisNext \/ RedisClose)
           \/ \E c \in Callers : Of("redis") /\ RedisCallerStep(c)
  BY <1>5, RedisLinkStep DEF LinkInv, Of, RedisNext, rabbitVars
<1>6. CASE \/ Of("nats") /\ (NatsNext \/ NatsClose)
           \/ \E c \in Callers : Of("nats") /\ NatsCallerStep(c)
  BY <1>6, NatsLinkStep DEF LinkInv, Of, NatsNext, rabbitVars
<1>7. CASE \/ Of("tcp") /\ (TcpNext \/ TcpClose)
           \/ \E c \in Callers : Of("tcp") /\ TcpCallerStep(c)
  BY <1>7, TcpLinkStep DEF LinkInv, Of, TcpNext, rabbitVars
<1>8. CASE \/ Of("grpc") /\ (GrpcNext \/ GrpcClose)
           \/ \E c \in Callers : Of("grpc") /\ GrpcCallerStep(c)
  BY <1>8, GrpcLinkStep DEF LinkInv, Of, GrpcNext, rabbitVars
<1> QED
  BY <1>1, <1>2, <1>3, <1>4, <1>5, <1>6, <1>7, <1>8 DEF Next, World, CloserStep, CallerStep

LEMMA LinkInvariant == Spec => []LinkInv
<1>1. Init => LinkInv
  BY DEF Init, ClientInit, RabbitInit, LinkInv, LinkTypes, MemoryLinks, RabbitLinks, KafkaLinks, RedisLinks,
         NatsLinks, TcpLinks, GrpcLinks
<1>2. LinkInv /\ [Next]_vars => LinkInv'
  <2>1. ASSUME LinkInv, UNCHANGED vars PROVE LinkInv'
    BY <2>1 DEF vars, clientVars, callVars, mutexVars, linkVars, closeVars, rabbitVars, LinkInv, LinkTypes,
                MemoryLinks, RabbitLinks, KafkaLinks, RedisLinks, NatsLinks, TcpLinks, GrpcLinks
  <2> QED
    BY <2>1, LinkInvStep
<1> QED
  BY <1>1, <1>2, PTL DEF Spec

(***************************************************************************)
(* A reconnect never leaves the previous link open beside the new one, and *)
(* once Close has returned nothing is open and no caller that was          *)
(* obtaining a link opens one, for any number of callers and reconnects;   *)
(* the links that leak are those a Kafka or NATS Close does not wait for   *)
(* (rabbitmq/session.go:45-46, and Close of each transport).               *)
(***************************************************************************)
THEOREM NoStray == Spec => []NoStrayConnection
<1>1. CallInv /\ LinkInv => NoStrayConnection
  BY DEF CallInv, LinkInv, MemoryLinks, RabbitLinks, KafkaLinks, RedisLinks, NatsLinks, TcpLinks, GrpcLinks,
         NoStrayConnection
<1> QED
  BY <1>1, CallsInvariant, LinkInvariant, PTL

-----------------------------------------------------------------------------
(***************************************************************************)
(* The pending map.  EntryInv says who may be in it, LiveInv who must be.  *)
(***************************************************************************)
EntryStages == IF transport = "tcp" THEN {"link", "dialing", "send", "await"} ELSE {"send", "confirm", "await"}

\* The stages only a request goes through.
Legal(c, to) ==
    /\ to = "register" => Requests(c)
    /\ transport \in {"kafka", "redis"} /\ to \in {"link", "dialing"} => Requests(c)

EntryInv ==
    /\ \A c \in pending : c \in Callers /\ Correlates /\ Requests(c) /\ pc[c] \in EntryStages
    /\ \A c \in Callers : Legal(c, pc[c])

Exposed(c) ==
    /\ Correlates /\ Requests(c) /\ pc[c] \in {"send", "confirm", "await"}
    /\ on[c] \in open \ dead /\ ~closed /\ c \notin wiped
Answerable(c) == c \in pending \/ reply[c] # "none"

LiveInv ==
    /\ \A c \in Callers : Exposed(c) => Answerable(c)
    /\ transport = "tcp" => \A c \in Callers : Requests(c) /\ pc[c] \in EntryStages => c \in pending

RegInv == CallInv /\ LinkTypes /\ EntryInv /\ LiveInv

\* A step of c alone: other entries, replies and links stay what they are.
Moves(c, to) ==
    /\ UNCHANGED <<transport, kind, wiped>>
    /\ pc' = [pc EXCEPT ![c] = to]
    /\ \A d \in Callers \ {c} : on'[d] = on[d] /\ reply'[d] = reply[d]
    /\ pending' \ {c} = pending \ {c}
    /\ open' \cap (0..created) \subseteq open /\ dead \subseteq dead' /\ (closed => closed')

LEMMA RegMoves ==
    ASSUME RegInv, NEW c \in Callers, NEW to, Moves(c, to), Legal(c, to),
           c \in pending' => Correlates /\ Requests(c) /\ to \in EntryStages,
           Exposed(c)' => Answerable(c)',
           transport = "tcp" /\ Requests(c) /\ to \in EntryStages => c \in pending'
    PROVE  (EntryInv /\ LiveInv)'
<1>1. pc'[c] = to /\ \A d \in Callers \ {c} : pc'[d] = pc[d]
  BY DEF RegInv, CallInv, Moves
<1>2. \A d \in Callers \ {c} : d \in pending' <=> d \in pending
  BY DEF Moves
<1>3. pending' \subseteq pending \cup {c}
  BY DEF Moves
<1>4. UNCHANGED <<transport, kind>>
  BY DEF Moves
<1>5. EntryInv'
  BY <1>1, <1>2, <1>3, <1>4 DEF RegInv, EntryInv, EntryStages, Legal, Correlates, Requests
<1>6. ASSUME NEW d \in Callers, Exposed(d)' PROVE Answerable(d)'
  <2>1. CASE d = c
    BY <1>6, <2>1
  <2>2. CASE d # c
    <3>1. on'[d] = on[d] /\ reply'[d] = reply[d] /\ on[d] \in 0..created /\ wiped' = wiped
      BY <2>2 DEF Moves, RegInv, LinkTypes
    <3>2. on[d] \in open \ dead /\ ~closed
      BY <1>6, <3>1 DEF Exposed, Moves
    <3>3. Exposed(d)
      BY <1>1, <1>4, <1>6, <2>2, <3>1, <3>2 DEF Exposed, Correlates, Requests
    <3> QED
      BY <1>2, <2>2, <3>1, <3>3 DEF RegInv, LiveInv, Answerable
  <2> QED
    BY <2>1, <2>2
<1>7. transport' = "tcp" => \A d \in Callers : Requests(d)' /\ pc'[d] \in EntryStages' => d \in pending'
  BY <1>1, <1>2, <1>4 DEF RegInv, LiveInv, EntryStages, Requests
<1> QED
  BY <1>5, <1>6, <1>7 DEF LiveInv

\* A call that returns is gone from the map.
LEMMA RegReturn ==
    ASSUME RegInv, UNCHANGED <<transport, kind, wiped>>, NEW c \in Callers, NEW o, Return(c, o),
           open' \cap (0..created) \subseteq open, dead \subseteq dead', closed => closed'
    PROVE  (EntryInv /\ LiveInv)'
<1>1. Moves(c, "done")
  BY DEF RegInv, CallInv, LinkTypes, Return, Moves
<1>2. c \notin pending' /\ pc'[c] = "done"
  BY DEF Return, RegInv, CallInv
<1> QED
  BY <1>1, <1>2, RegMoves DEF Legal, Exposed, EntryStages

\* A call that is not in the map, and goes to a stage where it need not be.
LEMMA RegOutside ==
    ASSUME RegInv, UNCHANGED <<transport, kind, wiped, reply, pending>>, NEW c \in Callers, NEW to, Legal(c, to),
           pc[c] \notin EntryStages \/ ~Correlates,
           pc' = [pc EXCEPT ![c] = to],
           \A d \in Callers \ {c} : on'[d] = on[d],
           ~Correlates \/ ~Requests(c) \/ to \notin {"send", "confirm", "await"} \cup EntryStages,
           open' \cap (0..created) \subseteq open, dead \subseteq dead', closed => closed'
    PROVE  (EntryInv /\ LiveInv)'
<1>1. Moves(c, to)
  BY DEF Moves
<1>2. c \notin pending'
  BY DEF RegInv, EntryInv
<1>3. ~Exposed(c)'
  BY DEF Exposed, Correlates, Requests, RegInv, CallInv
<1> QED
  BY <1>1, <1>2, <1>3, RegMoves DEF Correlates

\* A call that stays in the map, or whose reply is there.
LEMMA RegInside ==
    ASSUME RegInv, UNCHANGED <<transport, kind, wiped, reply, pending>>, NEW c \in Callers,
           NEW to \in EntryStages, Requests(c) => pc[c] \in EntryStages,
           pc' = [pc EXCEPT ![c] = to],
           \A d \in Callers \ {c} : on'[d] = on[d],
           Exposed(c)' => Exposed(c) \/ transport = "tcp",
           open' \cap (0..created) \subseteq open, dead \subseteq dead', closed => closed'
    PROVE  (EntryInv /\ LiveInv)'
<1>1. Moves(c, to)
  BY DEF Moves
<1>2. c \in pending' => Correlates /\ Requests(c)
  BY DEF RegInv, EntryInv
<1>3. transport = "tcp" /\ Requests(c) => c \in pending'
  BY DEF RegInv, LiveInv
<1>4. Exposed(c)' => Requests(c)
  BY DEF Exposed, Requests
<1>5. Exposed(c)' => Answerable(c)'
  BY <1>3, <1>4 DEF RegInv, LiveInv, Answerable
<1> QED
  BY <1>1, <1>2, <1>3, <1>5, RegMoves DEF Legal, EntryStages

LEMMA RegRegister ==
    ASSUME RegInv, UNCHANGED <<transport, kind, wiped>>, NEW c \in Callers, NEW to \in EntryStages, Register(c, to),
           Correlates
    PROVE  (EntryInv /\ LiveInv)'
<1>1. Moves(c, to) /\ c \in pending'
  BY DEF Moves, Register, Goto, linkVars, closeVars
<1>2. Requests(c)
  BY DEF Register, RegInv, EntryInv, Legal
<1>3. Legal(c, to)
  BY <1>2 DEF Legal
<1> QED
  BY <1>1, <1>2, <1>3, RegMoves DEF Answerable

LEMMA RegBegin ==
    ASSUME RegInv, UNCHANGED <<transport, kind, wiped>>, NEW c \in Callers, NEW to, Legal(c, to), Begin(c, to),
           ~Correlates \/ ~Requests(c) \/ to \notin {"send", "confirm", "await"} \cup EntryStages
    PROVE  (EntryInv /\ LiveInv)'
<1>1. pc[c] = "idle" /\ UNCHANGED <<open, dead, closed>>
  BY DEF Begin, linkVars, closeVars
<1>2. open' \cap (0..created) \subseteq open /\ dead \subseteq dead'
  BY <1>1
<1>3. CASE Return(c, "closed")
  BY <1>1, <1>2, <1>3, RegReturn
<1>4. CASE Goto(c, to) /\ UNCHANGED pending
  BY <1>1, <1>2, <1>4, RegOutside DEF Goto, EntryStages
<1> QED
  BY <1>3, <1>4 DEF Begin

LEMMA RegAwait ==
    ASSUME RegInv, UNCHANGED <<transport, kind, wiped>>, NEW c \in Callers, NEW outcomes, Await(c, outcomes)
    PROVE  (EntryInv /\ LiveInv)'
<1>1. open' \cap (0..created) \subseteq open /\ dead \subseteq dead' /\ (closed => closed')
  BY DEF Await, linkVars, closeVars
<1>2. PICK o : Return(c, o)
  BY DEF Await
<1> QED
  BY <1>1, <1>2, RegReturn

\* A reply that is taken from the map is in its channel.
LEMMA RegDeliver ==
    ASSUME RegInv, UNCHANGED <<transport, kind, wiped>>, NEW c \in Callers, NEW entries, Deliver(c, entries),
           \/ UNCHANGED pending
           \/ transport # "tcp" /\ entries = pending /\ pending' = pending \ {c}
    PROVE  (EntryInv /\ LiveInv)'
<1>1. Moves(c, pc[c])
  BY DEF Moves, Deliver, RegInv, CallInv, linkVars, closeVars
<1>2. UNCHANGED <<pc, on, open, dead, closed>>
  BY DEF Deliver, linkVars, closeVars
<1>3. Exposed(c)' => Exposed(c)
  BY <1>2 DEF Exposed, Correlates, Requests
<1>4. Answerable(c) => Answerable(c)'
  BY DEF Deliver, Answerable, RegInv, CallInv
<1> QED
  BY <1>1, <1>3, <1>4, RegMoves DEF RegInv, EntryInv, LiveInv

\* Links break and are retired, and nothing else happens.
LEMMA RegLinks ==
    ASSUME RegInv, UNCHANGED <<transport, kind, wiped, pc, on, reply, pending>>,
           open' \subseteq open, dead \subseteq dead', closed => closed'
    PROVE  (EntryInv /\ LiveInv)'
<1>1. EntryInv'
  BY DEF RegInv, EntryInv, EntryStages, Legal, Correlates, Requests
<1>2. ASSUME NEW c \in Callers, Exposed(c)' PROVE Exposed(c)
  BY <1>2 DEF Exposed, Correlates, Requests
<1> QED
  BY <1>1, <1>2 DEF RegInv, LiveInv, Answerable, Requests, EntryStages

\* Once closed, nobody has to be in the map.
LEMMA RegClosed ==
    ASSUME RegInv, UNCHANGED <<transport, kind, pc>>, closed', pending' = {}, transport # "tcp"
    PROVE  (EntryInv /\ LiveInv)'
  BY DEF RegInv, EntryInv, LiveInv, Exposed, Legal, Correlates, Requests

\* Who loses its entry to the watcher of a session that is down was on that
\* session, has its reply, or is recorded in wiped.
LEMMA RegFailPending ==
    ASSUME RegInv, UNCHANGED <<transport, kind>>, transport # "tcp", NEW s, FailPending(s), s \notin open \ dead,
           \A d \in Callers : Legal(d, pc'[d]),
           \A d \in Callers : Exposed(d)' => pc'[d] = pc[d] /\ on'[d] = on[d] /\ reply'[d] = reply[d],
           open' \cap (0..created) \subseteq open, dead \subseteq dead', closed => closed'
    PROVE  (EntryInv /\ LiveInv)'
<1>1. EntryInv'
  BY DEF EntryInv, FailPending, Legal, Requests
<1>2. ASSUME NEW d \in Callers, Exposed(d)' PROVE Answerable(d)'
  <2>1. pc'[d] = pc[d] /\ on'[d] = on[d] /\ reply'[d] = reply[d] /\ on[d] \in 0..created
    BY <1>2 DEF RegInv, LinkTypes
  <2>2. on[d] \in open \ dead /\ ~closed
    BY <1>2, <2>1 DEF Exposed
  <2>3. on[d] \notin {0, s}
    BY <2>2 DEF RegInv, LinkTypes
  <2>4. d \notin wiped \cup pending
    BY <1>2, <2>3, <2>1 DEF Exposed, FailPending, RegInv, CallInv
  <2>5. Exposed(d)
    BY <1>2, <2>1, <2>2, <2>4 DEF Exposed, Correlates, Requests
  <2> QED
    BY <2>1, <2>4, <2>5 DEF RegInv, LiveInv, Answerable
<1> QED
  BY <1>1, <1>2 DEF LiveInv

LEMMA RabbitRegStep ==
    ASSUME RegInv, transport = "rabbit", UNCHANGED <<transport, kind>>, NEW c \in Callers,
           RabbitCallerStep(c) \/ RabbitCall(c) \/ Confirmed(c) \/ Nacked(c) \/ RabbitDeliverReply(c)
    PROVE  (EntryInv /\ LiveInv)'
<1>1. Correlates /\ EntryStages = {"send", "confirm", "await"} /\ \A to : Legal(c, to) <=> (to = "register" => Requests(c))
  BY DEF Correlates, EntryStages, Legal
<1>2. CASE SessionClosed(c) \/ Nacked(c) \/ NotConfirmed(c) \/ RabbitSendFails(c)
  <2>1. UNCHANGED <<wiped, open, dead, closed>> /\ \E o : Return(c, o)
    BY <1>2 DEF SessionClosed, Nacked, NotConfirmed, RabbitSendFails, rabbitVars, linkVars, closeVars
  <2> QED
    BY <2>1, RegReturn
<1>3. CASE ReuseSession(c)
  BY <1>1, <1>3, RegOutside DEF ReuseSession, GotOn, AfterSession, rabbitVars, linkVars, closeVars, RegInv, LinkTypes
<1>4. CASE NewSession(c) \/ DialFails(c)
  <2>1. PICK to : /\ pc' = [pc EXCEPT ![c] = to] /\ (to = "done" \/ to = AfterSession(c))
                  /\ DropSession /\ ~Usable /\ pc[c] = "link" /\ UNCHANGED <<reply, dead, closed>>
                  /\ open' \in {open, open \cup {created + 1}}
                  /\ \A d \in Callers \ {c} : on'[d] = on[d]
    BY <1>4 DEF NewSession, DialFails, NewLink, GotOn, closeVars, RegInv, LinkTypes
  <2>2. open' \cap (0..created) \subseteq open
    BY <2>1 DEF RegInv, LinkTypes
  <2>3. ~Requests(c) \/ to \notin {"send", "confirm", "await"}
    BY <2>1 DEF AfterSession
  <2>4. to = "register" => Requests(c)
    BY <2>1 DEF AfterSession
  <2>5. CASE link = 0
    BY <1>1, <2>1, <2>2, <2>3, <2>4, <2>5, RegOutside DEF DropSession
  <2>6. CASE link # 0
    <3>1. FailPending(link) /\ link \notin open \ dead
      BY <2>1, <2>6 DEF DropSession, Usable, IsDead
    <3>2. \A d \in Callers : Legal(d, pc'[d])
      BY <1>1, <2>1, <2>4 DEF RegInv, CallInv, EntryInv
    <3>3. ~Exposed(c)'
      BY <2>1, <2>3 DEF Exposed, Requests, RegInv, CallInv
    <3>4. \A d \in Callers : Exposed(d)' => pc'[d] = pc[d] /\ on'[d] = on[d] /\ reply'[d] = reply[d]
      BY <2>1, <3>3 DEF RegInv, CallInv
    <3> QED
      BY <2>1, <2>2, <3>1, <3>2, <3>4, RegFailPending
  <2> QED
    BY <2>5, <2>6
<1>5. CASE RabbitRegister(c)
  BY <1>1, <1>5, RegRegister DEF RabbitRegister, rabbitVars
<1>6. CASE RabbitSend(c)
  BY <1>1, <1>6, RegInside DEF RabbitSend, Goto, rabbitVars, linkVars, closeVars, Exposed, Correlates, Requests
<1>7. CASE Confirmed(c)
  <2>1. UNCHANGED <<wiped, open, dead, closed>> /\ pc[c] = "confirm"
    BY <1>7 DEF Confirmed, rabbitVars, linkVars, closeVars
  <2>2. CASE Return(c, "accepted")
    BY <2>1, <2>2, RegReturn
  <2>3. CASE Goto(c, "await") /\ UNCHANGED pending
    BY <1>1, <2>1, <2>3, RegInside DEF Goto, Exposed, Correlates, Requests
  <2> QED
    BY <1>7, <2>2, <2>3 DEF Confirmed
<1>8. CASE RabbitAwait(c)
  BY <1>8, RegAwait DEF RabbitAwait, rabbitVars
<1>9. CASE RabbitCall(c)
  BY <1>1, <1>9, RegBegin DEF RabbitCall, rabbitVars
<1>10. CASE RabbitDeliverReply(c)
  BY <1>10, RegDeliver DEF RabbitDeliverReply, rabbitVars
<1> QED
  BY <1>2, <1>3, <1>4, <1>5, <1>6, <1>7, <1>8, <1>9, <1>10 DEF RabbitCallerStep

LEMMA RabbitCloseReg ==
    ASSUME RegInv, transport = "rabbit", UNCHANGED <<transport, kind>>, RabbitClose \/ Watch
    PROVE  (EntryInv /\ LiveInv)'
<1>1. CASE CloseSession
  BY <1>1, RegLinks DEF CloseSession, callVars, rabbitVars
<1>2. CASE RabbitCloseEnds
  BY <1>2, RegClosed DEF RabbitCloseEnds, callVars, RegInv, LinkTypes
<1>3. ASSUME NEW s \in Links, WatchDead(s) PROVE (EntryInv /\ LiveInv)'
  BY <1>3, RegLinks DEF WatchDead, callVars, rabbitVars, closeVars
<1>4. ASSUME NEW s \in Links, WatchFailPending(s) PROVE (EntryInv /\ LiveInv)'
  BY <1>4, RegFailPending DEF WatchFailPending, callVars, linkVars, closeVars, RegInv, EntryInv
<1> QED
  BY <1>1, <1>2, <1>3, <1>4 DEF RabbitClose, Watch

LEMMA KafkaRegStep ==
    ASSUME RegInv, transport = "kafka", UNCHANGED <<transport, kind, wiped>>,
           KafkaClose \/ \E c \in Callers : KafkaCallerStep(c) \/ KafkaCall(c) \/ KafkaDeliverReply(c)
    PROVE  (EntryInv /\ LiveInv)'
<1>1. Correlates /\ EntryStages = {"send", "confirm", "await"} /\ transport # "tcp"
  BY DEF Correlates, EntryStages
<1>2. ASSUME NEW c \in Callers, KafkaEnsureReplyConsumer(c) \/ KafkaStartReader(c) PROVE (EntryInv /\ LiveInv)'
  <2>1. /\ pc[c] \in {"link", "dialing"} /\ UNCHANGED <<dead, closed>>
        /\ open' \in {open, open \cup {created + 1}}
    BY <1>2 DEF KafkaEnsureReplyConsumer, KafkaStartReader, NewLink, linkVars, closeVars
  <2>2. Requests(c) /\ open' \cap (0..created) \subseteq open
    BY <2>1 DEF RegInv, EntryInv, Legal, LinkTypes
  <2>3. CASE Return(c, "failed")
    BY <2>1, <2>2, <2>3, RegReturn
  <2>4. CASE /\ \E to \in {"dialing", "register"} : pc' = [pc EXCEPT ![c] = to]
             /\ \A d \in Callers \ {c} : on'[d] = on[d]
             /\ UNCHANGED <<reply, pending>>
    BY <1>1, <2>1, <2>2, <2>4, RegOutside DEF Legal
  <2> QED
    BY <1>2, <2>3, <2>4 DEF KafkaEnsureReplyConsumer, KafkaStartReader, Goto, GotOn, RegInv, LinkTypes
<1>3. ASSUME NEW c \in Callers, KafkaWrite(c) PROVE (EntryInv /\ LiveInv)'
  <2>1. UNCHANGED <<open, dead, closed>> /\ pc[c] = "send"
    BY <1>3 DEF KafkaWrite, linkVars, closeVars
  <2>2. CASE Return(c, "accepted")
    BY <2>1, <2>2, RegReturn
  <2>3. CASE Goto(c, "await") /\ UNCHANGED pending
    BY <1>1, <2>1, <2>3, RegInside DEF Goto, Exposed, Correlates, Requests
  <2> QED
    BY <1>3, <2>2, <2>3 DEF KafkaWrite, Sent
<1>4. ASSUME NEW c \in Callers, KafkaWriteFails(c) PROVE (EntryInv /\ LiveInv)'
  <2>1. UNCHANGED <<open, dead, closed>> /\ \E o : Return(c, o)
    BY <1>4 DEF KafkaWriteFails, linkVars, closeVars
  <2> QED
    BY <2>1, RegReturn
<1>5. ASSUME NEW c \in Callers, KafkaRegister(c) \/ KafkaAwait(c) \/ KafkaDeliverReply(c) PROVE (EntryInv /\ LiveInv)'
  BY <1>1, <1>5, RegRegister, RegAwait, RegDeliver DEF KafkaRegister, KafkaAwait, KafkaDeliverReply
<1>6. ASSUME NEW c \in Callers, KafkaCall(c) PROVE (EntryInv /\ LiveInv)'
  BY <1>1, <1>6, RegBegin DEF KafkaCall, Legal
<1>7. CASE KafkaCloseReader
  BY <1>7, RegLinks DEF KafkaCloseReader, callVars
<1>8. CASE KafkaCloseEnds
  BY <1>1, <1>8, RegClosed DEF KafkaCloseEnds, callVars, RegInv, LinkTypes
<1> QED
  BY <1>2, <1>3, <1>4, <1>5, <1>6, <1>7, <1>8 DEF KafkaClose, KafkaCallerStep

LEMMA RedisRegStep ==
    ASSUME RegInv, transport = "redis", UNCHANGED <<transport, kind, wiped>>,
           RedisClose \/ \E c \in Callers : RedisCallerStep(c) \/ RedisCall(c) \/ RedisDeliver(c)
    PROVE  (EntryInv /\ LiveInv)'
<1>1. Correlates /\ EntryStages = {"send", "confirm", "await"} /\ transport # "tcp"
  BY DEF Correlates, EntryStages
<1>2. ASSUME NEW c \in Callers, RedisEnsureReplies(c) \/ RedisSubscribe(c) PROVE (EntryInv /\ LiveInv)'
  <2>1. /\ pc[c] \in {"link", "dialing"} /\ UNCHANGED <<dead, closed>>
        /\ open' \in {open, open \cup {created + 1}}
    BY <1>2 DEF RedisEnsureReplies, RedisSubscribe, NewLink, linkVars, closeVars
  <2>2. Requests(c) /\ open' \cap (0..created) \subseteq open
    BY <2>1 DEF RegInv, EntryInv, Legal, LinkTypes
  <2>3. CASE \E o : Return(c, o)
    BY <2>1, <2>2, <2>3, RegReturn
  <2>4. CASE /\ \E to \in {"dialing", "register"} : pc' = [pc EXCEPT ![c] = to]
             /\ \A d \in Callers \ {c} : on'[d] = on[d]
             /\ UNCHANGED <<reply, pending>>
    BY <1>1, <2>1, <2>2, <2>4, RegOutside DEF Legal
  <2> QED
    BY <1>2, <2>3, <2>4 DEF RedisEnsureReplies, RedisSubscribe, Goto, GotOn, RegInv, LinkTypes
<1>3. ASSUME NEW c \in Callers, RedisPublish(c) PROVE (EntryInv /\ LiveInv)'
  <2>1. UNCHANGED <<open, dead, closed>> /\ pc[c] = "send"
    BY <1>3 DEF RedisPublish, linkVars, closeVars
  <2>2. CASE Return(c, "accepted")
    BY <2>1, <2>2, RegReturn
  <2>3. CASE Goto(c, "await") /\ UNCHANGED pending
    BY <1>1, <2>1, <2>3, RegInside DEF Goto, Exposed, Correlates, Requests
  <2> QED
    BY <1>3, <2>2, <2>3 DEF RedisPublish, Sent
<1>4. ASSUME NEW c \in Callers, RedisPublishFails(c) PROVE (EntryInv /\ LiveInv)'
  <2>1. UNCHANGED <<open, dead, closed>> /\ \E o : Return(c, o)
    BY <1>4 DEF RedisPublishFails, linkVars, closeVars
  <2> QED
    BY <2>1, RegReturn
<1>5. ASSUME NEW c \in Callers, RedisRegister(c) \/ RedisAwait(c) \/ RedisDeliver(c) PROVE (EntryInv /\ LiveInv)'
  BY <1>1, <1>5, RegRegister, RegAwait, RegDeliver DEF RedisRegister, RedisAwait, RedisDeliver
<1>6. ASSUME NEW c \in Callers, RedisCall(c) PROVE (EntryInv /\ LiveInv)'
  BY <1>1, <1>6, RegBegin DEF RedisCall, Legal
<1>7. CASE RedisClose
  BY <1>7, RegLinks DEF RedisClose, callVars
<1> QED
  BY <1>2, <1>3, <1>4, <1>5, <1>6, <1>7 DEF RedisCallerStep

LEMMA TcpRegStep ==
    ASSUME RegInv, transport = "tcp", UNCHANGED <<transport, kind, wiped>>,
           \/ TcpClose \/ \E s \in Links : TcpReaderEnds(s)
           \/ \E c \in Callers : TcpCallerStep(c) \/ TcpCall(c) \/ TcpDeliver(c)
    PROVE  (EntryInv /\ LiveInv)'
<1>1. Correlates /\ EntryStages = {"link", "dialing", "send", "await"}
      /\ \A c \in Callers : \A to : Legal(c, to) <=> (to = "register" => Requests(c))
  BY DEF Correlates, EntryStages, Legal
<1>2. ASSUME NEW c \in Callers, TcpDial(c) \/ TcpDialing(c) \/ TcpSend(c) PROVE (EntryInv /\ LiveInv)'
  <2>1. /\ pc[c] \in {"link", "dialing", "send"} /\ UNCHANGED <<dead, closed>>
        /\ open' \in {open, open \cup {created + 1}}
    BY <1>2 DEF TcpDial, TcpDialing, TcpSend, NewLink, linkVars, closeVars
  <2>2. open' \cap (0..created) \subseteq open
    BY <2>1 DEF RegInv, LinkTypes
  <2>3. CASE \E o : Return(c, o)
    BY <2>1, <2>2, <2>3, RegReturn
  <2>4. CASE /\ \E to \in EntryStages : pc' = [pc EXCEPT ![c] = to]
             /\ \A d \in Callers \ {c} : on'[d] = on[d]
             /\ UNCHANGED <<reply, pending>>
    BY <1>1, <2>1, <2>2, <2>4, RegInside
  <2> QED
    BY <1>1, <1>2, <2>3, <2>4 DEF TcpDial, TcpDialing, TcpSend, Sent, Goto, GotOn, RegInv, LinkTypes
<1>3. ASSUME NEW c \in Callers, TcpSendFails(c) PROVE (EntryInv /\ LiveInv)'
  BY <1>3, RegReturn DEF TcpSendFails, closeVars
<1>4. ASSUME NEW c \in Callers, TcpRegister(c) \/ TcpAwait(c) \/ TcpDeliver(c) PROVE (EntryInv /\ LiveInv)'
  BY <1>1, <1>4, RegRegister, RegAwait, RegDeliver DEF TcpRegister, TcpAwait, TcpDeliver
<1>5. ASSUME NEW c \in Callers, TcpCall(c) PROVE (EntryInv /\ LiveInv)'
  BY <1>1, <1>5, RegBegin DEF TcpCall
<1>6. CASE TcpCloseLink
  BY <1>6, RegLinks DEF TcpCloseLink, callVars
<1>7. CASE TcpCloseEnds
  BY <1>7, RegLinks DEF TcpCloseEnds, callVars, linkVars
<1>8. ASSUME NEW s \in Links, TcpReaderEnds(s) PROVE (EntryInv /\ LiveInv)'
  BY <1>8, RegLinks DEF TcpReaderEnds, callVars, closeVars
<1> QED
  BY <1>2, <1>3, <1>4, <1>5, <1>6, <1>7, <1>8 DEF TcpClose, TcpCallerStep

\* The in-process, NATS and gRPC transports keep no map.
LEMMA OtherRegStep ==
    ASSUME RegInv, transport \in {"memory", "nats", "grpc"}, UNCHANGED <<transport, kind>>,
           pending' \subseteq pending, \A c \in Callers : pc'[c] = "register" => pc[c] = "register"
    PROVE  (EntryInv /\ LiveInv)'
<1>1. ~Correlates /\ ~Correlates'
  BY DEF Correlates
<1>2. pending' = {}
  BY <1>1 DEF RegInv, EntryInv
<1> QED
  BY <1>1, <1>2 DEF RegInv, EntryInv, LiveInv, Legal, Exposed, Requests

LEMMA OtherRegForm ==
    ASSUME RegInv, transport \in {"memory", "nats", "grpc"}, UNCHANGED <<transport, kind>>,
           NEW c \in Callers, NEW to, to # "register", pc' = [pc EXCEPT ![c] = to], pending' \subseteq pending
    PROVE  (EntryInv /\ LiveInv)'
  BY OtherRegStep DEF RegInv, CallInv

LEMMA MemoryRegStep ==
    ASSUME RegInv, transport = "memory", UNCHANGED <<transport, kind>>,
           MemoryClose \/ MemoryNext \/ ListenerStep \/ \E c \in Callers : MemoryCallerStep(c)
    PROVE  (EntryInv /\ LiveInv)'
<1>1. ASSUME NEW c \in Callers, MemoryCallerStep(c) \/ MemoryCall(c) \/ CallDirect(c) \/ DirectRuns(c) PROVE (EntryInv /\ LiveInv)'
  <2>1. PICK to : to # "register" /\ pc' \in {pc, [pc EXCEPT ![c] = to]} /\ pending' \subseteq pending
    BY <1>1 DEF MemoryCallerStep, MemoryCall, CallDirect, Enqueue, MemoryAwait, Await, GiveUp, WaitReady, DirectRuns,
                DirectReturns, Begin, Return, Goto, unused, callVars
  <2> QED
    BY <2>1, OtherRegStep, OtherRegForm
<1>2. CASE MemoryClose \/ Cancel \/ ListenerStep
  <2>1. UNCHANGED <<pc, pending>>
    BY <1>2 DEF MemoryClose, Cancel, ListenerStep, Listen, ListenReturns, Take, HandlerRuns, DispatchRefused,
                HandleReturns, clientVars, callVars, unused
  <2> QED
    BY <2>1, OtherRegStep
<1> QED
  BY <1>1, <1>2 DEF MemoryNext

LEMMA NatsRegStep ==
    ASSUME RegInv, transport = "nats", UNCHANGED <<transport, kind>>,
           NatsClose \/ NatsNext \/ \E c \in Callers : NatsCallerStep(c)
    PROVE  (EntryInv /\ LiveInv)'
<1>1. ASSUME NEW c \in Callers, NatsCallerStep(c) \/ NatsCall(c) \/ NatsNoResponders(c) PROVE (EntryInv /\ LiveInv)'
  <2>1. PICK to : to # "register" /\ pc' = [pc EXCEPT ![c] = to] /\ pending' \subseteq pending
    BY <1>1 DEF NatsCallerStep, NatsCall, NatsNoResponders, NatsConn, NatsConnect, NatsPublish, Sent, NatsAwait, Await,
                Begin, Return, Goto, GotOn
  <2> QED
    BY <2>1, OtherRegForm
<1>2. ASSUME UNCHANGED <<pc, pending>> PROVE (EntryInv /\ LiveInv)'
  BY <1>2, OtherRegStep
<1>3. CASE NatsClose \/ (\E s \in Links : NatsConnectionCloses(s)) \/ \E c \in Callers : NatsDeliver(c)
  BY <1>2, <1>3 DEF NatsClose, NatsSnapshotConn, NatsDrain, NatsCloseEnds, NatsConnectionCloses, LinkBreaks,
                    NatsDeliver, Deliver, callVars
<1> QED
  BY <1>1, <1>3 DEF NatsNext

LEMMA GrpcRegStep ==
    ASSUME RegInv, transport = "grpc", UNCHANGED <<transport, kind>>,
           GrpcClose \/ GrpcNext \/ \E c \in Callers : GrpcCallerStep(c)
    PROVE  (EntryInv /\ LiveInv)'
<1>1. ASSUME NEW c \in Callers, GrpcCallerStep(c) \/ GrpcCall(c) \/ GrpcInvokeFails(c) PROVE (EntryInv /\ LiveInv)'
  <2>1. PICK to : to # "register" /\ pc' = [pc EXCEPT ![c] = to] /\ pending' \subseteq pending
    BY <1>1 DEF GrpcCallerStep, GrpcCall, GrpcInvokeFails, GrpcClientConn, GrpcInvoke, GrpcAwait, Begin, Return, Goto,
                GotOn
  <2> QED
    BY <2>1, OtherRegForm
<1>2. CASE GrpcClose \/ \E c \in Callers : GrpcDeliver(c)
  BY <1>2, OtherRegStep DEF GrpcClose, GrpcDeliver, Deliver, callVars
<1> QED
  BY <1>1, <1>2 DEF GrpcNext

LEMMA SharedRegStep ==
    ASSUME RegInv, Untouched,
           \/ CloseBegins \/ \E c \in Callers : Expire(c) \/ PeerHandles(c)
           \/ \E s \in Links : LinkBreaks(s)
    PROVE  (EntryInv /\ LiveInv)'
<1>1. UNCHANGED <<transport, kind, wiped, pc, on, reply, pending>> /\ dead' = dead /\ open' \subseteq open
      /\ (closed => closed')
  BY DEF Untouched, rabbitVars, CloseBegins, Expire, PeerHandles, LinkBreaks, callVars, linkVars, closeVars
<1> QED
  BY <1>1, RegLinks

LEMMA RegStep ==
    ASSUME RegInv, Next PROVE (EntryInv /\ LiveInv)'
<1>1. CASE \/ CloseBegins /\ Untouched
           \/ \E c \in Callers : ExpireStep(c) \/ (PeerHandles(c) /\ Untouched)
           \/ transport \in {"rabbit", "tcp"} /\ Untouched /\ \E s \in Links : LinkBreaks(s)
  BY <1>1, SharedRegStep DEF ExpireStep
<1>2. CASE \/ Of("memory") /\ (MemoryNext \/ MemoryClose)
           \/ Serve
           \/ \E c \in Callers : Of("memory") /\ MemoryCallerStep(c)
  BY <1>2, MemoryRegStep DEF Of, Serve
<1>3. CASE \/ Of("rabbit") /\ (RabbitNext \/ RabbitClose)
           \/ Watch
           \/ \E c \in Callers : Of("rabbit") /\ RabbitCallerStep(c)
  BY <1>3, RabbitRegStep, RabbitCloseReg DEF Of, RabbitNext, Watch
<1>4. CASE \/ Of("kafka") /\ (KafkaNext \/ KafkaClose)
           \/ \E c \in Callers : Of("kafka") /\ KafkaCallerStep(c)
  BY <1>4, KafkaRegStep DEF Of, KafkaNext, rabbitVars
<1>5. CASE \/ Of("redis") /\ (RedisNext \/ RedisClose)
           \/ \E c \in Callers : Of("redis") /\ RedisCallerStep(c)
  BY <1>5, RedisRegStep DEF Of, RedisNext, rabbitVars
<1>6. CASE \/ Of("nats") /\ (NatsNext \/ NatsClose)
           \/ \E c \in Callers : Of("nats") /\ NatsCallerStep(c)
  BY <1>6, NatsRegStep DEF Of
<1>7. CASE \/ Of("tcp") /\ (TcpNext \/ TcpClose)
           \/ \E c \in Callers : Of("tcp") /\ TcpCallerStep(c)
  BY <1>7, TcpRegStep DEF Of, TcpNext, rabbitVars
<1>8. CASE \/ Of("grpc") /\ (GrpcNext \/ GrpcClose)
           \/ \E c \in Callers : Of("grpc") /\ GrpcCallerStep(c)
  BY <1>8, GrpcRegStep DEF Of
<1> QED
  BY <1>1, <1>2, <1>3, <1>4, <1>5, <1>6, <1>7, <1>8 DEF Next, World, CloserStep, CallerStep

LEMMA RegInvariant == Spec => [](EntryInv /\ LiveInv)
<1>1. Init => EntryInv /\ LiveInv
  BY DEF Init, ClientInit, EntryInv, LiveInv, Legal, Exposed, EntryStages
<1>2. CallInv /\ LinkInv /\ EntryInv /\ LiveInv /\ [Next]_vars => (EntryInv /\ LiveInv)'
  <2>1. ASSUME RegInv, UNCHANGED vars PROVE (EntryInv /\ LiveInv)'
    BY <2>1, RegLinks DEF vars, clientVars, callVars, linkVars, closeVars, rabbitVars
  <2> QED
    BY <2>1, RegStep DEF RegInv, LinkInv
<1> QED
  BY <1>1, <1>2, CallsInvariant, LinkInvariant, PTL DEF Spec

(***************************************************************************)
(* An entry of the pending map belongs to a request that still waits:      *)
(* every way a call ends, of any transport, drops its entry                *)
(* (rabbitmq/publish.go:129-131).                                          *)
(***************************************************************************)
THEOREM EntriesAreDropped == Spec => []NoEntryOutlivesItsCall
<1>1. EntryInv => NoEntryOutlivesItsCall
  BY DEF EntryInv, EntryStages, NoEntryOutlivesItsCall, Waiting
<1> QED
  BY <1>1, RegInvariant, PTL

(***************************************************************************)
(* A request that is out on a live link is registered or has its reply,    *)
(* however often the link was replaced; only a late RabbitMQ watcher takes *)
(* the entry of a request of another session (rabbitmq/session.go:153).    *)
(***************************************************************************)
THEOREM LiveRequestsAreAnswerable == Spec => []LiveRequestIsRegistered
<1>1. LiveInv => LiveRequestIsRegistered
  BY DEF LiveInv, Exposed, Answerable, LiveRequestIsRegistered
<1> QED
  BY <1>1, RegInvariant, PTL

-----------------------------------------------------------------------------
(***************************************************************************)
(* The in-process queue.  A call that has not been accepted was not taken. *)
(***************************************************************************)
Unsent(c) ==
    \/ pc[c] \in {"idle", "send", "wait"}
    \/ kind[c] = "publish" /\ result[c] \in {"timeout", "closed"}

TakenInv ==
    transport = "memory" =>
        \A c \in Callers :
            /\ wire[c] = "none"
            /\ kind[c] = "publish" => pc[c] \in {"idle", "send", "done"}
            /\ pc[c] # "done" => result[c] = "none"
            /\ Unsent(c) => c \notin Taken

\* A step of c: what it does to c is legal, and it takes no other message.
LEMMA TakenMoves ==
    ASSUME CallInv, TakenInv, transport = "memory", UNCHANGED <<transport, kind, wire>>, NEW c \in Callers,
           \A d \in Callers \ {c} : pc'[d] = pc[d] /\ result'[d] = result[d],
           kind[c] = "publish" => pc'[c] \in {"idle", "send", "done"},
           pc'[c] # "done" => result'[c] = "none",
           Taken' \subseteq Taken \cup {c}, Unsent(c)' => c \notin Taken'
    PROVE  TakenInv'
<1>1. ASSUME NEW d \in Callers \ {c}, Unsent(d)' PROVE d \notin Taken'
  BY <1>1 DEF TakenInv, Unsent
<1> QED
  BY <1>1 DEF TakenInv

LEMMA TakenQuiet ==
    ASSUME CallInv, TakenInv, UNCHANGED <<transport, kind, wire, pc, result>>, Taken' \subseteq Taken
    PROVE  TakenInv'
  BY DEF TakenInv, Unsent

LEMMA TakenReturn ==
    ASSUME CallInv, TakenInv, transport = "memory", UNCHANGED <<transport, kind, wire, queue, current, ran>>,
           NEW c \in Callers, NEW o, Return(c, o), kind[c] = "publish" => Unsent(c)
    PROVE  TakenInv'
<1>1. Taken' = Taken
  BY DEF Taken, InQueue
<1>2. pc'[c] = "done" /\ result'[c] = o /\ \A d \in Callers \ {c} : pc'[d] = pc[d] /\ result'[d] = result[d]
  BY DEF Return, CallInv
<1>3. Unsent(c)' => c \notin Taken'
  BY <1>1, <1>2 DEF Unsent, TakenInv
<1> QED
  BY <1>1, <1>2, <1>3, TakenMoves

LEMMA TakenGoto ==
    ASSUME CallInv, TakenInv, transport = "memory", UNCHANGED <<transport, kind, wire, queue, current, ran>>,
           NEW c \in Callers, NEW to \in {"send", "wait", "run", "await"}, Goto(c, to), pc[c] # "done",
           kind[c] = "publish" => to = "send", to \in {"send", "wait"} => Unsent(c)
    PROVE  TakenInv'
<1>1. Taken' = Taken
  BY DEF Taken, InQueue
<1>2. pc'[c] = to /\ result' = result /\ \A d \in Callers \ {c} : pc'[d] = pc[d]
  BY DEF Goto, CallInv
<1>3. result[c] = "none"
  BY DEF TakenInv
<1>4. Unsent(c)' => c \notin Taken'
  BY <1>1, <1>2, <1>3 DEF Unsent, TakenInv
<1> QED
  BY <1>1, <1>2, <1>3, <1>4, TakenMoves

LEMMA TakenCaller ==
    ASSUME CallInv, MemoryInv, TakenInv, transport = "memory", UNCHANGED <<transport, kind>>, NEW c \in Callers,
           MemoryCallerStep(c) \/ MemoryCall(c) \/ CallDirect(c) \/ DirectRuns(c)
    PROVE  TakenInv'
<1>1. CASE Enqueue(c)
  <2>1. queue' = Append(queue, c) /\ pc[c] = "send" /\ UNCHANGED <<wire, ran, current>>
    BY <1>1 DEF Enqueue, netVars
  <2>2. InQueue' \subseteq InQueue \cup {c}
    <3>1. Len(queue) \in Nat /\ queue' \in Seq(Callers) /\ Len(queue') = Len(queue) + 1
          /\ \A i \in 1..Len(queue) : queue'[i] = queue[i]
      BY <2>1, AppendProperties DEF MemoryInv
    <3>2. queue'[Len(queue) + 1] = c
      BY <2>1, AppendProperties DEF MemoryInv
    <3>3. DOMAIN queue' = 1..(Len(queue) + 1) /\ DOMAIN queue = 1..Len(queue)
      BY <3>1, LenProperties DEF MemoryInv
    <3>4. ASSUME NEW i \in 1..(Len(queue) + 1) PROVE queue'[i] \in InQueue \cup {c}
      <4>1. CASE i = Len(queue) + 1
        BY <3>2, <4>1
      <4>2. CASE i # Len(queue) + 1
        BY <3>1, <3>3, <4>2 DEF InQueue
      <4> QED
        BY <4>1, <4>2
    <3> QED
      BY <3>3, <3>4 DEF InQueue
  <2>3. Taken' \subseteq Taken \cup {c}
    BY <2>1, <2>2 DEF Taken
  <2>4. /\ \A d \in Callers \ {c} : pc'[d] = pc[d] /\ result'[d] = result[d]
        /\ IF Requests(c) THEN pc'[c] = "await" /\ result'[c] = result[c]
                          ELSE pc'[c] = "done" /\ result'[c] = "accepted"
    BY <1>1 DEF Enqueue, Goto, Return, CallInv
  <2>5. result[c] = "none"
    BY <2>1 DEF TakenInv
  <2>6. ~Unsent(c)'
    BY <2>4, <2>5 DEF Unsent
  <2> QED
    BY <2>1, <2>3, <2>4, <2>5, <2>6, TakenMoves DEF Requests
<1>2. CASE MemoryAwait(c)
  <2>1. pc[c] = "await" /\ UNCHANGED <<wire, queue, current, ran>> /\ \E o : Return(c, o)
    BY <1>2 DEF MemoryAwait, Await, netVars, memoryVars
  <2>2. kind[c] # "publish"
    BY <2>1 DEF TakenInv
  <2> QED
    BY <2>1, <2>2, TakenReturn
<1>3. CASE GiveUp(c)
  <2>1. pc[c] \in {"send", "wait"} /\ UNCHANGED <<wire, queue, current, ran>> /\ \E o : Return(c, o)
    BY <1>3 DEF GiveUp, netVars, memoryVars
  <2> QED
    BY <2>1, TakenReturn DEF Unsent
<1>4. CASE WaitReady(c)
  <2>1. pc[c] = "wait" /\ Goto(c, "run") /\ UNCHANGED <<wire, queue, current, ran>>
    BY <1>4 DEF WaitReady, unused, memoryVars
  <2>2. kind[c] # "publish"
    BY <2>1 DEF TakenInv
  <2> QED
    BY <2>1, <2>2, TakenGoto
<1>5. CASE DirectRuns(c)
  <2>1. pc[c] = "run" /\ ran' = ran \cup {c} /\ UNCHANGED <<pc, result, wire, queue, current>>
    BY <1>5 DEF DirectRuns, unused, memoryVars, callVars
  <2>2. kind[c] # "publish" /\ result[c] = "none"
    BY <2>1 DEF TakenInv
  <2>3. Taken' \subseteq Taken \cup {c}
    BY <2>1 DEF Taken, InQueue
  <2>4. ~Unsent(c)'
    BY <2>1, <2>2 DEF Unsent
  <2> QED
    BY <2>1, <2>2, <2>3, <2>4, TakenMoves
<1>6. CASE DirectReturns(c)
  <2>1. pc[c] = "run" /\ UNCHANGED <<wire, queue, current, ran>> /\ \E o : Return(c, o)
    BY <1>6 DEF DirectReturns, netVars, memoryVars
  <2>2. kind[c] # "publish"
    BY <2>1 DEF TakenInv
  <2> QED
    BY <2>1, <2>2, TakenReturn
<1>7. CASE MemoryCall(c)
  <2>1. pc[c] = "idle" /\ UNCHANGED <<wire, queue, current, ran>> /\ (Return(c, "closed") \/ Goto(c, "send"))
    BY <1>7 DEF MemoryCall, Begin, netVars, memoryVars
  <2> QED
    BY <2>1, TakenReturn, TakenGoto DEF Unsent
<1>8. CASE CallDirect(c)
  <2>1. pc[c] = "idle" /\ kind[c] = "direct" /\ Goto(c, "wait") /\ UNCHANGED <<wire, queue, current, ran>>
    BY <1>8 DEF CallDirect, unused, memoryVars
  <2> QED
    BY <2>1, TakenGoto DEF Unsent
<1> QED
  BY <1>1, <1>2, <1>3, <1>4, <1>5, <1>6, <1>7, <1>8 DEF MemoryCallerStep

LEMMA TakenListener ==
    ASSUME CallInv, MemoryInv, TakenInv, UNCHANGED <<transport, kind>>, ListenerStep
    PROVE  TakenInv'
<1>1. UNCHANGED <<wire, pc, result>>
  BY DEF ListenerStep, Listen, ListenReturns, Take, HandlerRuns, DispatchRefused, HandleReturns, clientVars, callVars,
         netVars, unused
<1>2. CASE Take
  <2>1. queue # <<>> /\ current' = Head(queue) /\ queue' = Tail(queue) /\ ran' = ran
    BY <1>2 DEF Take, clientVars, netVars
  <2>2. Len(queue) \in Nat /\ Len(queue) >= 1 /\ queue' \in Seq(Callers) /\ Len(queue') = Len(queue) - 1
        /\ \A i \in 1..Len(queue') : queue'[i] = queue[i + 1]
    BY <2>1, HeadTailProperties DEF MemoryInv
  <2>3. DOMAIN queue' = 1..(Len(queue) - 1) /\ DOMAIN queue = 1..Len(queue) /\ current' = queue[1]
    BY <2>1, <2>2, LenProperties DEF MemoryInv
  <2>4. current' \in InQueue
    BY <2>2, <2>3 DEF InQueue
  <2>5. InQueue' \subseteq InQueue
    BY <2>2, <2>3 DEF InQueue
  <2> QED
    BY <1>1, <2>1, <2>4, <2>5, TakenQuiet DEF Taken
<1>3. CASE HandlerRuns
  <2>1. UNCHANGED <<queue, current>> /\ ran' = ran \cup {current}
    BY <1>3 DEF HandlerRuns
  <2> QED
    BY <1>1, <2>1, TakenQuiet DEF Taken, InQueue
<1>4. CASE HandleReturns
  <2>1. UNCHANGED <<queue, ran>> /\ current' = Nobody
    BY <1>4 DEF HandleReturns
  <2> QED
    BY <1>1, <2>1, TakenQuiet, ClientCallsAssumption DEF Taken, InQueue
<1>5. CASE Listen \/ ListenReturns \/ DispatchRefused
  <2>1. UNCHANGED <<queue, ran, current>>
    BY <1>5 DEF Listen, ListenReturns, DispatchRefused, clientVars, netVars
  <2> QED
    BY <1>1, <2>1, TakenQuiet DEF Taken, InQueue
<1> QED
  BY <1>2, <1>3, <1>4, <1>5 DEF ListenerStep

LEMMA TakenStep ==
    ASSUME CallInv, MemoryInv, TakenInv, Next PROVE TakenInv'
<1>1. UNCHANGED <<transport, kind>>
  BY CallCases
<1>2. CASE transport # "memory"
  BY <1>1, <1>2 DEF TakenInv
<1>3. CASE \/ Of("memory") /\ (Cancel \/ MemoryClose)
           \/ CloseBegins /\ Untouched
           \/ \E c \in Callers : ExpireStep(c) \/ (transport = "memory" /\ PeerHandles(c) /\ Untouched)
  <2>1. UNCHANGED <<wire, pc, result, queue, current, ran>>
    BY <1>3 DEF Cancel, MemoryClose, CloseBegins, ExpireStep, Expire, PeerHandles, Untouched, clientVars, callVars,
                netVars, memoryVars, unused, TakenInv
  <2> QED
    BY <1>1, <2>1, TakenQuiet DEF Taken, InQueue
<1>4. CASE transport = "memory" /\ Serve
  BY <1>1, <1>4, TakenListener DEF Serve
<1>5. CASE \E c \in Callers : transport = "memory" /\ (MemoryCallerStep(c) \/ MemoryCall(c) \/ CallDirect(c) \/ DirectRuns(c))
  BY <1>1, <1>5, TakenCaller
<1>6. CASE transport = "memory"
  <2>1. CASE World
    <3>1. Of("memory") /\ MemoryNext
      BY <1>6, <2>1 DEF World, Of
    <3> QED
      BY <1>3, <1>5, <1>6, <3>1 DEF MemoryNext
  <2>3. CASE CloserStep \/ Watch
    <3>1. Of("memory") /\ MemoryClose
      BY <1>6, <2>3 DEF CloserStep, Watch, Of
    <3> QED
      BY <1>3, <3>1
  <2>2. ASSUME NEW c \in Callers, CallerStep(c) PROVE TakenInv'
    BY <1>5, <1>6, <2>2 DEF CallerStep, Of
  <2> QED
    BY <1>3, <1>4, <1>6, <2>1, <2>2, <2>3 DEF Next
<1> QED
  BY <1>2, <1>6

(***************************************************************************)
(* An error from Publish of the in-process transport is final, for any     *)
(* queue depth and any number of callers: the message is in no queue and   *)
(* no handler sees it (Publish in memory.go:123).                          *)
(***************************************************************************)
THEOREM FailedPublishIsFinal == Spec => []FailedPublishLeavesNothing
<1>1. Init => TakenInv
  BY ClientCallsAssumption DEF Init, ClientInit, MemoryInit, TakenInv, Taken, InQueue
<1>2. CallInv /\ MemoryInv /\ TakenInv /\ [Next]_vars => TakenInv'
  <2>1. ASSUME CallInv, MemoryInv, TakenInv, UNCHANGED vars PROVE TakenInv'
    BY <2>1, TakenQuiet DEF vars, clientVars, callVars, netVars, memoryVars, Taken, InQueue
  <2> QED
    BY <2>1, TakenStep
<1>3. TakenInv => FailedPublishLeavesNothing
  BY DEF TakenInv, Unsent, FailedPublishLeavesNothing
<1> QED
  BY <1>1, <1>2, <1>3, CallsInvariant, PTL DEF Spec
=============================================================================
