----------------------------- MODULE RabbitClient ---------------------------
(***************************************************************************)
(* The client half of the RabbitMQ transport                               *)
(* (common/microservice/transport/rabbitmq: session.go, publish.go and     *)
(* Close): the link is a session, a channel with its reply queue and two   *)
(* goroutines, the reply consumer and the watcher that reacts when the     *)
(* channel dies.  A published message may be confirmed, rejected or        *)
(* neither; the reply queue goes with its channel.                         *)
(***************************************************************************)
EXTENDS ClientCalls

VARIABLES
    watching,  \* the sessions whose watcher has not finished
    wiped      \* history: entries dropped by the watcher of another session

rabbitVars == <<watching, wiped>>

IsDead(s) == s \in dead \/ s \notin open

RabbitInit == watching = {} /\ wiped = {}

\* failPending replaces the map; s is the session on whose behalf.
FailPending(s) ==
    /\ pending' = {}
    /\ wiped' = {c \in wiped \cup pending : on[c] \notin {0, s}}

RabbitCall(c) == Begin(c, "link") /\ UNCHANGED rabbitVars

(***************************************************************************)
(* session(): all of it under mu, the dial included.                       *)
(***************************************************************************)
AfterSession(c) == IF Requests(c) THEN "register" ELSE "send"

SessionClosed(c) ==
    /\ pc[c] = "link" /\ closed
    /\ Return(c, "closed")
    /\ UNCHANGED <<mutexVars, linkVars, closeVars, netVars, leaked, rabbitVars>>

Usable == link # 0 /\ ~IsDead(link)

ReuseSession(c) ==
    /\ pc[c] = "link" /\ ~closed /\ Usable
    /\ GotOn(c, link, AfterSession(c))
    /\ UNCHANGED <<pending, mutexVars, linkVars, closeVars, netVars, leaked, rabbitVars>>

\* A dead session is closed and dropped, and the pending map with it.
DropSession == IF link # 0 THEN FailPending(link) ELSE UNCHANGED <<pending, wiped>>

NewSession(c) ==
    /\ pc[c] = "link" /\ ~closed /\ ~Usable
    /\ NewLink
    /\ watching' = watching \cup {created + 1}
    /\ DropSession
    /\ GotOn(c, created + 1, AfterSession(c))
    /\ UNCHANGED <<mutexVars, closeVars, netVars, leaked>>

DialFails(c) ==
    /\ pc[c] = "link" /\ ~closed /\ ~Usable
    /\ link' = 0
    /\ DropSession
    /\ pc' = [pc EXCEPT ![c] = "done"] /\ result' = [result EXCEPT ![c] = "failed"]
    /\ UNCHANGED <<on, expired, reply, mutexVars, created, open, dead, closeVars, netVars,
                   leaked, watching>>

-----------------------------------------------------------------------------
RabbitRegister(c) == Register(c, "send") /\ UNCHANGED rabbitVars

\* The frame is written, and the broker's verdict is awaited.
RabbitSend(c) ==
    /\ pc[c] = "send" /\ on[c] \in open
    /\ Goto(c, "confirm")
    /\ wire' = [wire EXCEPT ![c] = "sent"]
    /\ UNCHANGED <<pending, mutexVars, linkVars, closeVars, ran, leaked, rabbitVars>>

\* A closed channel refuses the frame; discard drops the session.
RabbitSendFails(c) ==
    /\ pc[c] = "send" /\ on[c] \notin open
    /\ link' = IF link = on[c] THEN 0 ELSE link
    /\ Return(c, "failed")
    /\ UNCHANGED <<mutexVars, created, open, dead, closeVars, netVars, leaked, rabbitVars>>

\* The verdict is the broker's, which need not come to one.
Confirmed(c) ==
    /\ pc[c] = "confirm" /\ on[c] \in open
    /\ \/ ~Requests(c) /\ Return(c, "accepted")
       \/ Requests(c) /\ Goto(c, "await") /\ UNCHANGED pending
    /\ UNCHANGED <<mutexVars, linkVars, closeVars, netVars, leaked, rabbitVars>>

Nacked(c) ==
    /\ pc[c] = "confirm" /\ on[c] \in open
    /\ Return(c, "failed")
    /\ UNCHANGED <<mutexVars, linkVars, closeVars, netVars, leaked, rabbitVars>>

NotConfirmedOnceLost(c) ==
    /\ pc[c] = "confirm" /\ on[c] \notin open
    /\ Return(c, "failed")
    /\ UNCHANGED <<mutexVars, linkVars, closeVars, netVars, leaked, rabbitVars>>

\* The wait for the verdict ends with the channel or with the context.
NotConfirmed(c) ==
    /\ pc[c] = "confirm"
    /\ \/ on[c] \notin open /\ Return(c, "failed")
       \/ c \in expired /\ Return(c, "timeout")
    /\ UNCHANGED <<mutexVars, linkVars, closeVars, netVars, leaked, rabbitVars>>

RabbitAwait(c) ==
    /\ Await(c, IF on[c] \in dead THEN {"failed"} ELSE {})
    /\ UNCHANGED rabbitVars

-----------------------------------------------------------------------------
(***************************************************************************)
(* The goroutines of a session, and Close.                                 *)
(***************************************************************************)
\* deliverReply: the entry is removed, so a second reply finds nobody.
RabbitDeliverReply(c) ==
    /\ Deliver(c, pending)
    /\ pending' = pending \ {c}
    /\ UNCHANGED rabbitVars

WatchDead(s) ==
    /\ s \in watching /\ s \notin open /\ s \notin dead
    /\ dead' = dead \cup {s}
    /\ UNCHANGED <<callVars, pending, mutexVars, link, created, open, closeVars, netVars, leaked,
                   rabbitVars>>

WatchFailPending(s) ==
    /\ s \in watching /\ s \in dead
    /\ FailPending(s)
    /\ watching' = watching \ {s}
    /\ UNCHANGED <<callVars, mutexVars, linkVars, closeVars, netVars, leaked>>

CloseSession ==
    /\ closer = "begun" /\ closer' = "detached"
    /\ link' = 0 /\ open' = open \ {link}
    /\ UNCHANGED <<callVars, pending, mutexVars, created, dead, closed, netVars, leaked, rabbitVars>>

RabbitCloseEnds ==
    /\ closer = "detached" /\ closer' = "done"
    /\ pending' = {}
    /\ UNCHANGED <<callVars, mutexVars, linkVars, closed, netVars, leaked, rabbitVars>>

RabbitCallerStep(c) ==
    \/ SessionClosed(c) \/ ReuseSession(c) \/ NewSession(c) \/ DialFails(c)
    \/ RabbitRegister(c) \/ RabbitSend(c) \/ RabbitSendFails(c)
    \/ NotConfirmed(c) \/ RabbitAwait(c)

RabbitClose == CloseSession \/ RabbitCloseEnds

RabbitNext ==
    \E c \in Callers : RabbitCall(c) \/ Confirmed(c) \/ Nacked(c) \/ RabbitDeliverReply(c)
=============================================================================
