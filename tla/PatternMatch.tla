----------------------------- MODULE PatternMatch ---------------------------
(***************************************************************************)
(* Pattern.Match of common/microservice/pattern.go: the iterative matcher  *)
(* as a state machine, one action per case of its loop.  Indices count     *)
(* from 0 as in the code: character pi is pattern[pi + 1].                 *)
(***************************************************************************)
EXTENDS Pattern

CONSTANTS
    PatternSet,  \* the patterns matched
    SubjectSet   \* the subjects they are matched against

ASSUME MatchAssumption ==
    PatternSet \subseteq Seq(Chars) /\ SubjectSet \subseteq Seq(Chars)

VARIABLES
    pattern, subject,   \* the arguments
    pi, si,             \* the positions compared next
    starPi, starSi,     \* the last star and where its run ends, or -1
    pc,                 \* "loop", "tail" or "done"
    matched,            \* the result, once pc = "done"
    steps               \* history: iterations of the two loops so far

vars == <<pattern, subject, pi, si, starPi, starSi, pc, matched, steps>>

Init ==
    /\ pattern \in PatternSet
    /\ subject \in SubjectSet
    /\ pi = 0 /\ si = 0
    /\ starPi = -1 /\ starSi = -1
    /\ pc = "loop"
    /\ matched = FALSE
    /\ steps = 0

InLoop == pc = "loop" /\ si < Len(subject)
PatternLeft == pi < Len(pattern)
AtStar == PatternLeft /\ pattern[pi + 1] = "*"

\* The cases that consume one character of each.
SameHere ==
    PatternLeft /\ (pattern[pi + 1] = "?" \/
                    (~AtStar /\ pattern[pi + 1] = subject[si + 1]))

Consume ==
    /\ InLoop /\ SameHere
    /\ pi' = pi + 1 /\ si' = si + 1
    /\ steps' = steps + 1
    /\ UNCHANGED <<pattern, subject, starPi, starSi, pc, matched>>

RememberStar ==
    /\ InLoop /\ AtStar
    /\ starPi' = pi /\ starSi' = si
    /\ pi' = pi + 1
    /\ steps' = steps + 1
    /\ UNCHANGED <<pattern, subject, si, pc, matched>>

\* Goes on from where it failed instead of one past the star's run.
BacktrackForward ==
    /\ InLoop /\ ~AtStar /\ ~SameHere
    /\ starPi >= 0
    /\ starSi' = si + 1
    /\ pi' = starPi + 1 /\ si' = si + 1
    /\ steps' = steps + 1
    /\ UNCHANGED <<pattern, subject, starPi, pc, matched>>

Backtrack ==
    /\ InLoop /\ ~AtStar /\ ~SameHere
    /\ starPi >= 0
    /\ starSi' = starSi + 1
    /\ pi' = starPi + 1 /\ si' = starSi + 1
    /\ steps' = steps + 1
    /\ UNCHANGED <<pattern, subject, starPi, pc, matched>>

Mismatch ==
    /\ InLoop /\ ~AtStar /\ ~SameHere
    /\ starPi < 0
    /\ pc' = "done"
    /\ UNCHANGED <<pattern, subject, pi, si, starPi, starSi, matched, steps>>

LeaveLoop ==
    /\ pc = "loop" /\ si >= Len(subject)
    /\ pc' = "tail"
    /\ UNCHANGED <<pattern, subject, pi, si, starPi, starSi, matched, steps>>

SkipTrailingStar ==
    /\ pc = "tail" /\ AtStar
    /\ pi' = pi + 1
    /\ steps' = steps + 1
    /\ UNCHANGED <<pattern, subject, si, starPi, starSi, pc, matched>>

Answer ==
    /\ pc = "tail" /\ ~AtStar
    /\ matched' = (pi = Len(pattern))
    /\ pc' = "done"
    /\ UNCHANGED <<pattern, subject, pi, si, starPi, starSi, steps>>

Next == Consume \/ RememberStar \/ Backtrack \/ Mismatch
           \/ LeaveLoop \/ SkipTrailingStar \/ Answer

Spec == Init /\ [][Next]_vars

-----------------------------------------------------------------------------
(* The positions stay inside the two strings, so no index of the matcher   *)
(* is out of range.                                                        *)
TypeOK ==
    /\ pattern \in PatternSet /\ subject \in SubjectSet
    /\ pi \in 0..Len(pattern) /\ si \in 0..Len(subject)
    /\ starPi \in -1..(pi - 1) /\ starSi \in -1..si
    /\ (starPi = -1) <=> (starSi = -1)
    /\ pc \in {"loop", "tail", "done"}
    /\ matched \in BOOLEAN
    /\ steps \in Nat

(* The matcher's answer is the meaning of the pattern: backtracking to the *)
(* last star only never loses a match (pattern.go:57-95).  And it is given *)
(* within "O(len(pattern) x len(subject)) worst case with no catastrophic  *)
(* backtracking" (pattern.go:53-54): the two loops together take fewer     *)
(* iterations than the product of the lengths, each plus one.              *)
AnswerIsMeaning ==
    /\ pc = "done" => matched = Matches(pattern, subject)
    /\ steps < (Len(pattern) + 1) * (Len(subject) + 1)
=============================================================================
