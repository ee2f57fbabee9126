---------------------------- MODULE RequestReply ----------------------------
(***************************************************************************)
(* What a transport promises its callers, from the Publisher interface and *)
(* the errors of common/microservice/transport.go: a call ends once, its   *)
(* outcome is never revised, and a reply is only reported for a message    *)
(* that a handler ran on.  A handler may still run for a call that gave    *)
(* up: a timeout says nothing about the other side.                        *)
(***************************************************************************)
CONSTANT Calls

VARIABLES
    state,   \* state[c]: "idle", "open" or the outcome of call c
    ran      \* ran[c]: a handler ran for the message of c

vars == <<state, ran>>

Outcomes == {"accepted", "reply", "refused", "timeout", "closed", "failed"}

Init ==
    /\ state = [c \in Calls |-> "idle"]
    /\ ran = [c \in Calls |-> FALSE]

Begin(c) ==
    /\ state[c] = "idle"
    /\ state' = [state EXCEPT ![c] = "open"]
    /\ UNCHANGED ran

Run(c) ==
    /\ state[c] # "idle"
    /\ ran' = [ran EXCEPT ![c] = TRUE]
    /\ UNCHANGED state

\* "reply" needs a handler, "refused" is a reply without one.
End(c, outcome) ==
    /\ state[c] = "open"
    /\ outcome = "reply" => ran[c]
    /\ state' = [state EXCEPT ![c] = outcome]
    /\ UNCHANGED ran

\* A call on a closed transport is refused at once.
Refuse(c) ==
    /\ state[c] = "idle"
    /\ state' = [state EXCEPT ![c] = "closed"]
    /\ UNCHANGED ran

Next ==
    \E c \in Calls : \/ Begin(c) \/ Run(c) \/ Refuse(c)
                     \/ \E outcome \in Outcomes : End(c, outcome)

Spec == Init /\ [][Next]_vars
=============================================================================
