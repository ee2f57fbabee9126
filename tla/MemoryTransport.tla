--------------------------- MODULE MemoryTransport --------------------------
(***************************************************************************)
(* The in-process transport of common/microservice/memory.go: callers      *)
(* Publish, Request or Dispatch while one goroutine runs Listen, and the   *)
(* listener's context and the transport itself are cancelled and closed at *)
(* any moment.                                                             *)
(*                                                                         *)
(* A Go select takes any of its ready cases, so each case is an action of  *)
(* its own and the ready ones compete: a listener may take a message even  *)
(* though its context is done, and a publisher may be accepted by a        *)
(* transport that has been closed since its first check.                   *)
(***************************************************************************)
EXTENDS ClientCalls

CONSTANT Buffer   \* the depth of the queue

ASSUME MemoryAssumption == Buffer \in Nat \ {0}

VARIABLES
    queue,       \* the messages channel
    cancelled,   \* the context of Listen is done
    listener,    \* "off", "select" or "returned"
    current,     \* the message Listen is handling, or Nobody
    dispatched   \* of the current message: "no", "ran" or "refused"

memoryVars == <<queue, cancelled, listener, current, dispatched>>
\* What the in-process transport has no use for.
unused == <<on, pending, mutexVars, linkVars, wire, leaked>>

MemoryInit ==
    /\ queue = <<>> /\ cancelled = FALSE
    /\ listener = "off" /\ current = Nobody /\ dispatched = "no"

Ready == listener # "off"   \* ready is closed: Listen has installed the dispatcher

-----------------------------------------------------------------------------
(***************************************************************************)
(* Listen and handle.                                                      *)
(***************************************************************************)
Listen ==
    /\ listener = "off" /\ listener' = "select"
    /\ UNCHANGED <<clientVars, queue, cancelled, current, dispatched>>

ListenReturns ==
    /\ listener = "select" /\ current = Nobody
    /\ cancelled \/ closed
    /\ listener' = "returned"
    /\ UNCHANGED <<clientVars, queue, cancelled, current, dispatched>>

Take ==
    /\ listener = "select" /\ current = Nobody
    /\ queue # <<>>
    /\ current' = Head(queue) /\ queue' = Tail(queue)
    /\ UNCHANGED <<clientVars, cancelled, listener, dispatched>>

\* The dispatcher got a slot and answered: the handler ran, or the reply
\* says that no pattern matches or that a guard refused.
HandlerRuns ==
    /\ current # Nobody /\ dispatched = "no"
    /\ ran' = ran \cup {current}
    /\ dispatched' = "ran"
    /\ UNCHANGED <<callVars, unused, closeVars, queue, cancelled, listener, current>>

\* The dispatcher gave up on a done context: it returns nil and an error.
DispatchRefused ==
    /\ current # Nobody /\ dispatched = "no" /\ cancelled
    /\ dispatched' = "refused"
    /\ UNCHANGED <<clientVars, queue, cancelled, listener, current>>

\* The send of the reply never blocks: a full channel drops it.
SendReply(c, status) ==
    reply' = IF reply[c] = "none" THEN [reply EXCEPT ![c] = status] ELSE reply

HandleReturns ==
    /\ current # Nobody /\ dispatched # "no"
    /\ IF Requests(current)
       THEN SendReply(current, IF dispatched = "ran" THEN "reply" ELSE "refused")
       ELSE UNCHANGED reply
    /\ current' = Nobody /\ dispatched' = "no"
    /\ UNCHANGED <<pc, expired, result, unused, closeVars, ran, queue, cancelled, listener>>

-----------------------------------------------------------------------------
(***************************************************************************)
(* Publish and Request: the check of closed under mu, the send, and for a  *)
(* Request the wait for the reply.                                         *)
(***************************************************************************)
MemoryCall(c) == kind[c] # "direct" /\ Begin(c, "send") /\ UNCHANGED memoryVars

RoomInQueue == Len(queue) < Buffer

EnqueueAndRetry(c) ==
    /\ pc[c] = "send" /\ RoomInQueue
    /\ queue' = Append(queue, c)
    /\ \/ Goto(c, IF Requests(c) THEN "await" ELSE "send") /\ UNCHANGED pending
       \/ ~Requests(c) /\ Return(c, "accepted")
    /\ UNCHANGED <<mutexVars, linkVars, closeVars, netVars, leaked, cancelled, listener, current,
                   dispatched>>

Enqueue(c) ==
    /\ pc[c] = "send" /\ RoomInQueue
    /\ queue' = Append(queue, c)
    /\ IF Requests(c) THEN Goto(c, "await") /\ UNCHANGED pending ELSE Return(c, "accepted")
    /\ UNCHANGED <<mutexVars, linkVars, closeVars, netVars, leaked, cancelled, listener, current,
                   dispatched>>

MemoryAwait(c) == Await(c, {}) /\ UNCHANGED memoryVars

\* The other cases of the selects that send, and that wait to be ready.
GiveUp(c) ==
    /\ pc[c] \in {"send", "wait"}
    /\ \/ c \in expired /\ Return(c, "timeout")
       \/ closed /\ Return(c, "closed")
    /\ UNCHANGED <<mutexVars, linkVars, closeVars, netVars, leaked, memoryVars>>

-----------------------------------------------------------------------------
(***************************************************************************)
(* Dispatch: WaitReady, then the dispatcher in the caller's goroutine.     *)
(***************************************************************************)
CallDirect(c) ==
    /\ pc[c] = "idle" /\ kind[c] = "direct"
    /\ Goto(c, "wait")
    /\ UNCHANGED <<unused, closeVars, ran, memoryVars>>

WaitReady(c) ==
    /\ pc[c] = "wait" /\ Ready
    /\ Goto(c, "run")
    /\ UNCHANGED <<unused, closeVars, ran, memoryVars>>

\* The dispatcher answers, when the handler does.
DirectRuns(c) ==
    /\ pc[c] = "run" /\ c \notin ran
    /\ ran' = ran \cup {c}
    /\ UNCHANGED <<callVars, unused, closeVars, memoryVars>>

DirectReturns(c) ==
    /\ pc[c] = "run"
    /\ \/ c \in ran /\ Return(c, "reply")
       \/ c \notin ran /\ c \in expired /\ Return(c, "refused")
    /\ UNCHANGED <<mutexVars, linkVars, closeVars, netVars, leaked, memoryVars>>

-----------------------------------------------------------------------------
Cancel ==
    /\ ~cancelled /\ cancelled' = TRUE
    /\ UNCHANGED <<clientVars, queue, listener, current, dispatched>>

MemoryClose ==
    /\ closer = "begun" /\ closer' = "done"
    /\ UNCHANGED <<callVars, unused, closed, ran, memoryVars>>

MemoryCallerStep(c) ==
    \/ Enqueue(c) \/ MemoryAwait(c) \/ GiveUp(c)
    \/ WaitReady(c) \/ DirectReturns(c)

ListenerStep ==
    \/ Listen \/ ListenReturns \/ Take
    \/ HandlerRuns \/ DispatchRefused \/ HandleReturns

MemoryNext ==
    \/ \E c \in Callers : MemoryCall(c) \/ CallDirect(c) \/ DirectRuns(c)
    \/ Cancel

InQueue == {queue[i] : i \in DOMAIN queue}
=============================================================================
