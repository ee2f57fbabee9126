---------------------------- MODULE RoutingProofs ---------------------------
(***************************************************************************)
(* Proofs about module Routing: the matcher, for all patterns and          *)
(* subjects; the subscriptions, for any patterns, prefixes and subjects;   *)
(* and the dispatch of messages, for any number of fields, messages and    *)
(* buffers.                                                                *)
(*                                                                         *)
(* What a pattern, an escaped text and a glob mean is recursive.  Each is  *)
(* shown to obey its own equation (Recursion), and what is said of it is   *)
(* shown for the positions from one end on (UpTo), both from the least     *)
(* element of a set of naturals.  MatcherInv, SubsInv and DispatchInv are  *)
(* the inductive invariants of the three parts.                            *)
(***************************************************************************)
EXTENDS Routing, TLAPS, WellFoundedInduction

(***************************************************************************)
(* Induction and recursion over positions.                                 *)
(***************************************************************************)
(* A set of naturals that is not empty has a least element.  The library's *)
(* induction theorems take the property as an operator; this lemma and the *)
(* next take it as a set.                                                  *)
LEMMA LeastElement ==
    ASSUME NEW T, T \subseteq Nat, T # {}
    PROVE  \E l \in T : \A k \in T : l <= k
<1> DEFINE R == OpToRel(<, Nat)
<1>1. IsWellFoundedOn(R, Nat)
  BY NatLessThanWellFounded, Zenon
<1>2. R = {ss \in Nat \X Nat : ss[1] < ss[2]}
  BY DEF OpToRel
<1> HIDE DEF R
<1>3. PICK l \in T : \A k \in T : ~(<<k, l>> \in R)
  BY <1>1, WFMin
<1>4. ASSUME NEW k \in T PROVE l <= k
  <2>1. l \in Nat /\ k \in Nat
    OBVIOUS
  <2>2. ~(k < l)
    BY <1>2, <1>3, <2>1
  <2> QED BY <2>1, <2>2
<1> QED BY <1>4

(* Induction up to n: what holds at 0 and goes from k - 1 to k holds       *)
(* everywhere.                                                             *)
LEMMA UpTo ==
    ASSUME NEW n \in Nat, NEW S, 0 \in S, \A k \in 1..n : k - 1 \in S => k \in S
    PROVE  \A k \in 0..n : k \in S
<1> DEFINE T == (0..n) \ S
<1>1. SUFFICES ASSUME T # {} PROVE FALSE
  OBVIOUS
<1>2. PICK l \in T : \A k \in T : l <= k
  <2>1. T \subseteq Nat
    OBVIOUS
  <2> HIDE DEF T
  <2> QED BY <1>1, <2>1, LeastElement
<1>3. l \in 1..n /\ l - 1 \in 0..n /\ l - 1 < l
  OBVIOUS
<1>4. l - 1 \in S
  BY <1>2, <1>3
<1> QED BY <1>3, <1>4

\* A function whose value at i is given by the one at an earlier position.
Recursive(n, V, base, nxt, G) ==
    /\ n \in Nat /\ base \in V /\ G \in [1..n -> [V -> V]]
    /\ nxt \in [1..n -> 0..n] /\ \A i \in 1..n : nxt[i] < i
Solves(f, n, V, base, nxt, G) ==
    /\ f \in [0..n -> V] /\ f[0] = base
    /\ \A i \in 1..n : f[i] = G[i][f[nxt[i]]]

(* A function can be defined by giving its value at i from the one at an   *)
(* earlier position, as the matchers of Pattern and Subscriptions are.     *)
LEMMA Recursion ==
    ASSUME NEW n, NEW V, NEW base, NEW nxt, NEW G, Recursive(n, V, base, nxt, G)
    PROVE  \E f : Solves(f, n, V, base, nxt, G)
<1> USE DEF Recursive
<1> DEFINE Good(k, f) == /\ f \in [0..k -> V] /\ f[0] = base
                         /\ \A i \in 1..k : f[i] = G[i][f[nxt[i]]]
           S == {k \in 0..n : \E f : Good(k, f)}
<1>1. 0 \in S
  <2>1. Good(0, [x \in 0..0 |-> base])
    OBVIOUS
  <2> HIDE DEF Good
  <2> QED BY <2>1
<1>2. ASSUME NEW k \in 1..n, k - 1 \in S PROVE k \in S
  <2>1. PICK f : Good(k - 1, f)
    BY <1>2
  <2> DEFINE h == [x \in 0..k |-> IF x < k THEN f[x] ELSE G[k][f[nxt[k]]]]
  <2>2. f \in [0..(k - 1) -> V] /\ nxt[k] \in 0..(k - 1)
    BY <2>1
  <2>3. f[nxt[k]] \in V
    BY <2>2
  <2>4. G[k][f[nxt[k]]] \in V
    BY <2>3
  <2>5. h \in [0..k -> V] /\ h[0] = base
    BY <2>1, <2>2, <2>4
  <2>6. ASSUME NEW i \in 1..k PROVE h[i] = G[i][h[nxt[i]]]
    <3>1. nxt[i] \in 0..n /\ nxt[i] < i
      OBVIOUS
    <3>2. h[nxt[i]] = f[nxt[i]]
      BY <3>1
    <3>3. CASE i = k
      BY <3>2, <3>3
    <3>4. CASE i # k
      <4>1. i \in 1..(k - 1) /\ i \in 0..k /\ i < k
        BY <3>4
      <4>2. f[i] = G[i][f[nxt[i]]] /\ h[i] = f[i]
        BY <2>1, <4>1
      <4> QED BY <3>2, <4>2
    <3> QED BY <3>3, <3>4
  <2> HIDE DEF h
  <2>7. Good(k, h)
    BY <2>5, <2>6
  <2> HIDE DEF Good
  <2> QED BY <2>7
<1>3. n \in S
  <2>1. \A k \in 1..n : k - 1 \in S => k \in S
    BY <1>2
  <2>2. n \in 0..n
    OBVIOUS
  <2> HIDE DEF S
  <2> QED BY <1>1, <2>1, <2>2, UpTo
<1> QED BY <1>3 DEF Solves

-----------------------------------------------------------------------------
(***************************************************************************)
(* The matcher.                                                            *)
(***************************************************************************)
SuffixBody(p, s, m) ==
    [i \in 0..Len(p) |->
       IF i = Len(p) THEN {Len(s)}
       ELSE IF p[i + 1] = "*" THEN {j \in 0..Len(s) : \E k \in m[i + 1] : j <= k}
       ELSE {j \in 0..(Len(s) - 1) : p[i + 1] \in {"?", s[j + 1]} /\ j + 1 \in m[i + 1]}]

(* The meaning of a pattern obeys its own equation (pattern.go:8-17).      *)
LEMMA SuffixUnfolds ==
    ASSUME NEW p, NEW s, Len(p) \in Nat, Len(s) \in Nat
    PROVE  SuffixMatches(p, s) = SuffixBody(p, s, SuffixMatches(p, s))
<1> DEFINE B(m) == SuffixBody(p, s, m)
           n == Len(p)
           V == SUBSET (0..Len(s))
           Here(i, rest) ==
             IF p[i + 1] = "*" THEN {j \in 0..Len(s) : \E k \in rest : j <= k}
             ELSE {j \in 0..(Len(s) - 1) : p[i + 1] \in {"?", s[j + 1]} /\ j + 1 \in rest}
           G == [d \in 1..n |-> [rest \in V |-> Here(n - d, rest)]]
           back == [d \in 1..n |-> d - 1]
<1>1. SuffixMatches(p, s) = CHOOSE m : m = B(m)
  BY DEF SuffixMatches, SuffixBody
<1>2. \E m : m = B(m)
  <2>1. n \in Nat /\ Len(s) \in Nat
    OBVIOUS
  <2>2. {Len(s)} \in V
    BY <2>1
  <2>3. \A i, rest : Here(i, rest) \in V
    BY <2>1
  <2>4. G \in [1..n -> [V -> V]]
    <3> HIDE DEF Here, V
    <3> QED BY <2>3
  <2>5. back \in [1..n -> 0..n] /\ \A i \in 1..n : back[i] < i
    BY <2>1
  <2>6. PICK f : Solves(f, n, V, {Len(s)}, back, G)
    <3> HIDE DEF G, V, back, n
    <3>1. Recursive(n, V, {Len(s)}, back, G)
      BY <2>1, <2>2, <2>4, <2>5 DEF Recursive
    <3> QED BY <3>1, Recursion
  <2> DEFINE m == [i \in 0..n |-> f[n - i]]
  <2>7. ASSUME NEW i \in 0..n PROVE m[i] = B(m)[i]
    <3>1. CASE i = n
      BY <2>1, <2>6, <3>1 DEF SuffixBody, Solves
    <3>2. CASE i # n
      <4>1. n - i \in 1..n /\ n - i - 1 \in 0..n /\ i + 1 \in 0..n
        BY <2>1, <3>2
      <4>2. f[n - i - 1] \in V /\ m[i] = f[n - i] /\ m[i + 1] = f[n - i - 1]
        BY <2>1, <2>6, <4>1 DEF Solves
      <4>3. f[n - i] = G[n - i][f[n - i - 1]]
        BY <2>6, <4>1 DEF Solves
      <4>4. n - (n - i) = i
        BY <2>1
      <4>5. f[n - i] = Here(i, m[i + 1])
        <5> HIDE DEF Here, V, m
        <5> QED BY <4>1, <4>2, <4>3, <4>4
      <4>6. B(m)[i] = Here(i, m[i + 1])
        <5> HIDE DEF m
        <5> QED BY <3>2 DEF SuffixBody
      <4> QED BY <4>2, <4>5, <4>6
    <3> QED BY <3>1, <3>2
  <2>8. m = B(m)
    <3>1. B(m) = [i \in 0..n |-> B(m)[i]]
      BY DEF SuffixBody
    <3>2. m = [i \in 0..n |-> m[i]]
      OBVIOUS
    <3> HIDE DEF m, B
    <3> QED BY <2>7, <3>1, <3>2
  <2> HIDE DEF m, B
  <2> QED BY <2>8
<1> HIDE DEF B
<1>3. SuffixMatches(p, s) = B(SuffixMatches(p, s))
  BY <1>1, <1>2
<1> QED BY <1>3 DEF B

(* What that equation says of the positions after a star, after another    *)
(* character and at the end.                                               *)
LEMMA SuffixFacts ==
    ASSUME NEW p, NEW s, Len(p) \in Nat, Len(s) \in Nat
    PROVE  /\ SuffixMatches(p, s)[Len(p)] = {Len(s)}
           /\ \A i \in 0..(Len(p) - 1) : \A j :
                j \in SuffixMatches(p, s)[i] <=>
                  IF p[i + 1] = "*"
                  THEN j \in 0..Len(s) /\ \E k \in SuffixMatches(p, s)[i + 1] : j <= k
                  ELSE /\ j \in 0..(Len(s) - 1) /\ p[i + 1] \in {"?", s[j + 1]}
                       /\ j + 1 \in SuffixMatches(p, s)[i + 1]
           /\ \A i \in 0..Len(p) : SuffixMatches(p, s)[i] \subseteq 0..Len(s)
<1> DEFINE m == SuffixMatches(p, s)
<1>0. Len(p) \in Nat /\ Len(s) \in Nat
  OBVIOUS
<1>1. m = SuffixBody(p, s, m)
  BY SuffixUnfolds
<1> HIDE DEF m
<1>2. \A i \in 0..Len(p) : m[i] = SuffixBody(p, s, m)[i]
  BY <1>1
<1>3. m[Len(p)] = {Len(s)}
  <2>1. Len(p) \in 0..Len(p)
    BY <1>0
  <2>2. m[Len(p)] = SuffixBody(p, s, m)[Len(p)]
    BY <1>2, <2>1
  <2> QED BY <2>1, <2>2 DEF SuffixBody
<1>4. ASSUME NEW i \in 0..(Len(p) - 1), NEW j
      PROVE  j \in m[i] <=> IF p[i + 1] = "*"
                            THEN j \in 0..Len(s) /\ \E k \in m[i + 1] : j <= k
                            ELSE /\ j \in 0..(Len(s) - 1) /\ p[i + 1] \in {"?", s[j + 1]}
                                 /\ j + 1 \in m[i + 1]
  <2>1. i \in 0..Len(p) /\ i # Len(p)
    BY <1>0
  <2>2. m[i] = IF p[i + 1] = "*" THEN {x \in 0..Len(s) : \E k \in m[i + 1] : x <= k}
               ELSE {x \in 0..(Len(s) - 1) : p[i + 1] \in {"?", s[x + 1]} /\ x + 1 \in m[i + 1]}
    BY <1>2, <2>1 DEF SuffixBody
  <2>3. CASE p[i + 1] = "*"
    BY <2>2, <2>3
  <2>4. CASE p[i + 1] # "*"
    BY <2>2, <2>4
  <2> QED BY <2>3, <2>4
<1>5. ASSUME NEW i \in 0..Len(p) PROVE m[i] \subseteq 0..Len(s)
  <2>1. CASE i = Len(p)
    BY <1>0, <1>3, <2>1
  <2>2. CASE i # Len(p)
    <3>1. i \in 0..(Len(p) - 1)
      BY <1>0, <2>2
    <3>2. ASSUME NEW j \in m[i] PROVE j \in 0..Len(s)
      BY <1>0, <1>4, <3>1
    <3> QED BY <3>2
  <2> QED BY <2>1, <2>2
<1> QED BY <1>3, <1>4, <1>5 DEF m

\* The positions of the subject from which the pattern matches after i.
Rest(i) == SuffixMatches(pattern, subject)[i]
\* How far the matcher has gone past the last star.
Past == pi - starPi - 1

Positions ==
    /\ pattern \in Seq(Chars) /\ subject \in Seq(Chars)
    /\ pi \in 0..Len(pattern) /\ si \in 0..Len(subject)
    /\ starPi \in Int /\ -1 <= starPi /\ starPi < pi
    /\ starSi \in Int /\ -1 <= starSi /\ starSi <= si
    /\ (starPi = -1) <=> (starSi = -1)
    /\ pc \in {"loop", "tail", "done"}
    /\ matched \in BOOLEAN
    /\ steps \in Nat

StarInv ==
    pc = "loop" /\ starPi >= 0 =>
        /\ pattern[starPi + 1] = "*"
        /\ si = starSi + Past
        /\ \A k \in Rest(starPi + 1) : k + Past \in Rest(pi)

OpenInv ==
    pc = "loop" =>
        /\ ~matched
        /\ Matches(pattern, subject) <=>
             \/ si \in Rest(pi)
             \/ starPi >= 0 /\ \E k \in Rest(starPi + 1) : k > starSi

ClosedInv ==
    /\ pc = "tail" => /\ si = Len(subject)
                      /\ Matches(pattern, subject) <=> si \in Rest(pi)
    /\ pc = "done" => (matched <=> Matches(pattern, subject))

\* The pair of starSi and pi grows in the order of its components.
StepsInv == steps <= (IF starSi < 0 THEN 0 ELSE starSi * (Len(pattern) + 1)) + pi

MatcherInv == Positions /\ StarInv /\ OpenInv /\ ClosedInv /\ StepsInv

(* The same of the pattern and the subject that are being matched.         *)
LEMMA RestFacts ==
    ASSUME Positions
    PROVE  /\ Rest(Len(pattern)) = {Len(subject)}
           /\ \A i \in 0..Len(pattern) : Rest(i) \subseteq 0..Len(subject)
           /\ \A i \in 0..(Len(pattern) - 1) : pattern[i + 1] = "*" =>
                \A j \in 0..Len(subject) : j \in Rest(i) <=> \E k \in Rest(i + 1) : j <= k
           /\ \A i \in 0..(Len(pattern) - 1) : pattern[i + 1] # "*" =>
                \A j \in Nat : j \in Rest(i) <=>
                   /\ j < Len(subject) /\ pattern[i + 1] \in {"?", subject[j + 1]}
                   /\ j + 1 \in Rest(i + 1)
<1>1. pattern \in Seq(Chars) /\ subject \in Seq(Chars) /\ Len(pattern) \in Nat /\ Len(subject) \in Nat
  BY DEF Positions
<1> DEFINE m == SuffixMatches(pattern, subject)
<1>2. /\ m[Len(pattern)] = {Len(subject)}
      /\ \A i \in 0..Len(pattern) : m[i] \subseteq 0..Len(subject)
  BY <1>1, SuffixFacts
<1>3. \A i \in 0..(Len(pattern) - 1) : \A j :
        j \in m[i] <=>
          IF pattern[i + 1] = "*"
          THEN j \in 0..Len(subject) /\ \E k \in m[i + 1] : j <= k
          ELSE /\ j \in 0..(Len(subject) - 1) /\ pattern[i + 1] \in {"?", subject[j + 1]}
               /\ j + 1 \in m[i + 1]
  BY <1>1, SuffixFacts
<1> HIDE DEF m
<1>4. \A i : Rest(i) = m[i]
  BY DEF m, Rest
<1>5. ASSUME NEW i \in 0..(Len(pattern) - 1), pattern[i + 1] = "*", NEW j \in 0..Len(subject)
      PROVE  j \in Rest(i) <=> \E k \in Rest(i + 1) : j <= k
  BY <1>3, <1>4, <1>5
<1>6. ASSUME NEW i \in 0..(Len(pattern) - 1), pattern[i + 1] # "*", NEW j \in Nat
      PROVE  j \in Rest(i) <=> /\ j < Len(subject) /\ pattern[i + 1] \in {"?", subject[j + 1]}
                               /\ j + 1 \in Rest(i + 1)
  <2>1. j \in m[i] <=> /\ j \in 0..(Len(subject) - 1) /\ pattern[i + 1] \in {"?", subject[j + 1]}
                       /\ j + 1 \in m[i + 1]
    BY <1>3, <1>6
  <2>2. j \in 0..(Len(subject) - 1) <=> j < Len(subject)
    BY <1>1
  <2> QED BY <1>4, <2>1, <2>2
<1> QED BY <1>2, <1>4, <1>5, <1>6

(* The matcher starts in its invariant.                                    *)
LEMMA MatcherInit == ASSUME MatchAssumption, Init PROVE MatcherInv
<1>1. Positions
  <2>1. pattern \in Seq(Chars) /\ subject \in Seq(Chars)
    BY DEF MatchAssumption, Init
  <2>2. Len(pattern) \in Nat /\ Len(subject) \in Nat
    BY <2>1
  <2>3. pi \in 0..Len(pattern) /\ si \in 0..Len(subject) /\ steps \in Nat
    BY <2>2 DEF Init
  <2>4. /\ starPi \in Int /\ -1 <= starPi /\ starPi < pi
        /\ starSi \in Int /\ -1 <= starSi /\ starSi <= si
    BY DEF Init
  <2>5. matched \in BOOLEAN /\ pc \in {"loop", "tail", "done"} /\ ((starPi = -1) <=> (starSi = -1))
    BY DEF Init
  <2> QED BY <2>1, <2>3, <2>4, <2>5 DEF Positions
<1>2. OpenInv
  BY DEF Init, OpenInv, Matches, Rest
<1> QED BY <1>1, <1>2 DEF MatcherInv, StarInv, ClosedInv, StepsInv, Init

(* A character that fits is consumed (pattern.go:67-69 and 76-78).         *)
LEMMA ConsumeKeeps == ASSUME MatcherInv, Consume PROVE MatcherInv'
<1> USE DEF MatcherInv, Consume, InLoop
<1>1. Positions'
  BY DEF Positions, SameHere, PatternLeft
<1>2. pi \in 0..(Len(pattern) - 1) /\ pattern[pi + 1] # "*" /\ pattern[pi + 1] \in {"?", subject[si + 1]}
  BY DEF Positions, SameHere, PatternLeft, AtStar
<1>3. \A j \in Nat : j \in Rest(pi) <=> /\ j < Len(subject) /\ pattern[pi + 1] \in {"?", subject[j + 1]}
                                        /\ j + 1 \in Rest(pi + 1)
  BY <1>2, RestFacts
<1>4. StarInv'
  <2>1. Past' = Past + 1 /\ Past \in Int
    BY DEF Past, Positions
  <2>2. ASSUME starPi >= 0
        PROVE  /\ pattern[starPi + 1] = "*" /\ si' = starSi + Past'
               /\ \A k \in Rest(starPi + 1) : k + Past' \in Rest(pi + 1)
    <3>1. pattern[starPi + 1] = "*" /\ si' = starSi + Past'
      BY <2>1, <2>2 DEF StarInv, Positions
    <3>2. Rest(starPi + 1) \subseteq 0..Len(subject) /\ Past \in Nat
      <4>1. starPi + 1 \in 0..Len(pattern) /\ Past \in Nat
        BY <2>1, <2>2 DEF Positions, Past
      <4> QED BY <4>1, RestFacts
    <3>3. ASSUME NEW k \in Rest(starPi + 1) PROVE k + Past' \in Rest(pi + 1)
      <4>1. k + Past \in Nat /\ k + Past + 1 = k + Past'
        BY <2>1, <3>2
      <4>2. k + Past \in Rest(pi)
        BY <2>2 DEF StarInv
      <4> QED BY <1>3, <4>1, <4>2
    <3> QED BY <3>1, <3>3
  <2> HIDE DEF Past
  <2>3. pi' = pi + 1 /\ starPi' = starPi /\ starSi' = starSi /\ pattern' = pattern /\ subject' = subject
    OBVIOUS
  <2> QED BY <2>2, <2>3 DEF StarInv, Rest
<1>5. OpenInv'
  <2>1. si \in Rest(pi) <=> si + 1 \in Rest(pi + 1)
    BY <1>2, <1>3 DEF Positions
  <2> QED BY <2>1 DEF OpenInv, Rest
<1>6. StepsInv'
  <2> DEFINE w == IF starSi < 0 THEN 0 ELSE starSi * (Len(pattern) + 1)
  <2>1. w \in Int /\ w' = w
    BY DEF Positions
  <2> HIDE DEF w
  <2>2. steps <= w + pi /\ steps \in Nat /\ pi \in Nat
    BY DEF StepsInv, w, Positions
  <2>3. steps' <= w' + pi'
    BY <2>1, <2>2
  <2> QED BY <2>3 DEF StepsInv, w
<1> QED BY <1>1, <1>4, <1>5, <1>6 DEF ClosedInv

(* The last star is the only one worth remembering: whatever an earlier    *)
(* one could still reach, this one reaches too (pattern.go:71-74).         *)
LEMMA RememberStarKeeps == ASSUME MatcherInv, RememberStar PROVE MatcherInv'
<1> USE DEF MatcherInv, RememberStar, InLoop
<1>1. Positions'
  BY DEF Positions, AtStar, PatternLeft
<1>2. pi \in 0..(Len(pattern) - 1) /\ pattern[pi + 1] = "*" /\ pi + 1 \in 0..Len(pattern)
  BY DEF Positions, AtStar, PatternLeft
<1>3. \A j \in 0..Len(subject) : j \in Rest(pi) <=> \E k \in Rest(pi + 1) : j <= k
  BY <1>2, RestFacts
<1>4. Rest(pi + 1) \subseteq 0..Len(subject) /\ Rest(pi) \subseteq 0..Len(subject)
  BY <1>2, RestFacts DEF Positions
<1>5. Rest(pi)' = Rest(pi + 1) /\ Rest(starPi + 1)' = Rest(pi + 1)
  BY DEF Rest
<1>6. StarInv'
  <2>1. Past' = 0
    BY DEF Past, Positions
  <2>2. \A k \in Rest(pi + 1) : k + 0 = k
    BY <1>4
  <2> QED BY <1>2, <1>5, <2>1, <2>2 DEF StarInv, Positions
<1>7. OpenInv'
  <2>1. si \in Rest(pi) <=> \/ si \in Rest(pi + 1)
                           \/ \E k \in Rest(pi + 1) : k > si
    BY <1>3, <1>4 DEF Positions
  <2>2. ASSUME starPi >= 0, NEW k \in Rest(starPi + 1), k > starSi PROVE si \in Rest(pi)
    <3>1. Rest(starPi + 1) \subseteq 0..Len(subject) /\ Past \in Nat
      <4>1. starPi + 1 \in 0..Len(pattern) /\ Past \in Nat
        BY <2>2 DEF Positions, Past
      <4> QED BY <4>1, RestFacts
    <3>2. k + Past \in Rest(pi) /\ si = starSi + Past
      BY <2>2 DEF StarInv
    <3>3. k + Past \in 0..Len(subject) /\ si < k + Past
      BY <1>4, <2>2, <3>1, <3>2 DEF Positions
    <3>4. PICK l \in Rest(pi + 1) : k + Past <= l
      BY <1>3, <3>2, <3>3
    <3>5. si <= l
      BY <1>4, <3>3, <3>4 DEF Positions
    <3> QED BY <1>3, <3>5 DEF Positions
  <2>3. Matches(pattern, subject) <=> si \in Rest(pi)
    BY <2>2 DEF OpenInv
  <2>4. ~matched' /\ (Matches(pattern, subject)' <=> Matches(pattern, subject))
    BY DEF OpenInv, Matches
  <2>5. pi \in Nat
    BY DEF Positions
  <2> QED BY <1>5, <2>1, <2>3, <2>4, <2>5 DEF OpenInv
<1>8. StepsInv'
  <2>1. Len(pattern) + 1 \in Nat /\ si \in Nat /\ pi \in Nat /\ steps \in Nat /\ starSi <= si /\ starSi \in Int
    BY DEF Positions
  <2> DEFINE c == Len(pattern) + 1
  <2>2. starSi >= 0 => starSi * c <= si * c
    <3> HIDE DEF c
    <3>1. c \in Nat BY <2>1 DEF c
    <3> QED BY <2>1, <3>1
  <2>3. si * c \in Nat /\ 0 <= si * c
    BY <2>1
  <2>4. starSi >= 0 => starSi * c \in Nat
    BY <2>1
  <2>5. steps <= si * c + pi
    <3> HIDE DEF c
    <3>1. CASE starSi < 0
      BY <2>1, <2>3, <3>1 DEF StepsInv
    <3>2. CASE starSi >= 0
      <4>1. steps <= starSi * c + pi
        BY <2>1, <3>2 DEF StepsInv, c
      <4> QED BY <2>1, <2>2, <2>3, <2>4, <3>2, <4>1
    <3> QED BY <2>1, <3>1, <3>2
  <2>6. steps + 1 <= si * c + (pi + 1)
    <3> HIDE DEF c
    <3> QED BY <2>1, <2>3, <2>5
  <2>7. ~(starSi' < 0) /\ steps' <= starSi' * (Len(pattern') + 1) + pi'
    BY <2>1, <2>6
  <2> QED BY <2>7 DEF StepsInv
<1> QED BY <1>1, <1>6, <1>7, <1>8 DEF ClosedInv

(* Where neither a star nor a character fits, the rest of the pattern does *)
(* not match from here.                                                    *)
LEMMA NoHit ==
    ASSUME MatcherInv, InLoop, ~AtStar, ~SameHere PROVE si \notin Rest(pi)
<1> USE DEF MatcherInv, InLoop
<1>1. CASE pi = Len(pattern)
  BY <1>1, RestFacts DEF Positions
<1>2. CASE pi # Len(pattern)
  <2>1. pi \in 0..(Len(pattern) - 1) /\ si \in Nat
    BY <1>2 DEF Positions
  <2>2. pattern[pi + 1] # "*" /\ pattern[pi + 1] \notin {"?", subject[si + 1]}
    BY <2>1 DEF AtStar, SameHere, PatternLeft, Positions
  <2> QED BY <2>1, <2>2, RestFacts
<1> QED BY <1>1, <1>2

(* Letting the last star swallow one more character loses no match         *)
(* (pattern.go:80-83).                                                     *)
LEMMA BacktrackKeeps == ASSUME MatcherInv, Backtrack PROVE MatcherInv'
<1> USE DEF MatcherInv, Backtrack, InLoop
<1>1. starPi >= 0 /\ starSi >= 0 /\ pc = "loop"
  BY DEF Positions
<1>2. Positions'
  BY <1>1 DEF Positions
<1>3. starPi + 1 \in 0..Len(pattern)
  BY <1>1 DEF Positions
<1>4. Rest(starPi + 1) \subseteq 0..Len(subject)
  BY <1>3, RestFacts
<1>5. Rest(pi)' = Rest(starPi + 1) /\ Rest(starPi + 1)' = Rest(starPi + 1)
  BY DEF Rest
<1>6. StarInv'
  <2>1. Past' = 0
    BY DEF Past, Positions
  <2>2. \A k \in Rest(starPi + 1) : k + 0 = k
    BY <1>4
  <2>3. pattern[starPi + 1] = "*"
    BY <1>1 DEF StarInv
  <2> QED BY <1>5, <2>1, <2>2, <2>3 DEF StarInv, Positions
<1>7. OpenInv'
  <2>1. Matches(pattern, subject) <=> \E k \in Rest(starPi + 1) : k > starSi
    BY <1>1, NoHit DEF OpenInv
  <2>2. \A k \in Rest(starPi + 1) : k > starSi <=> (k = starSi + 1 \/ k > starSi + 1)
    BY <1>4 DEF Positions
  <2>3. Matches(pattern, subject) <=> \/ starSi + 1 \in Rest(starPi + 1)
                                      \/ \E k \in Rest(starPi + 1) : k > starSi + 1
    BY <2>1, <2>2
  <2>4. ~matched' /\ (Matches(pattern, subject)' <=> Matches(pattern, subject))
    BY DEF OpenInv, Matches
  <2> QED BY <1>1, <1>5, <2>3, <2>4 DEF OpenInv
<1>8. StepsInv'
  <2> DEFINE c == Len(pattern) + 1
  <2>1. c \in Nat /\ starSi \in Nat /\ pi \in Nat /\ pi < c /\ steps \in Nat /\ starPi \in Nat
    BY <1>1 DEF Positions
  <2>2. steps <= starSi * c + pi
    BY <1>1, <2>1 DEF StepsInv
  <2> HIDE DEF c
  <2>3. (starSi + 1) * c = starSi * c + c /\ starSi * c \in Nat
    BY <2>1
  <2>4. steps + 1 <= (starSi + 1) * c + (starPi + 1)
    BY <2>1, <2>2, <2>3
  <2>5. ~(starSi' < 0) /\ steps' <= starSi' * (Len(pattern') + 1) + pi'
    BY <2>1, <2>4 DEF c
  <2> QED BY <2>5 DEF StepsInv
<1> QED BY <1>2, <1>6, <1>7, <1>8 DEF ClosedInv

(* Giving up, leaving the loop and skipping the trailing stars             *)
(* (pattern.go:85-94).                                                     *)
LEMMA TailKeeps ==
    ASSUME MatcherInv, Mismatch \/ LeaveLoop \/ SkipTrailingStar \/ Answer PROVE MatcherInv'
<1> USE DEF MatcherInv
<1>1. CASE Mismatch
  <2> USE <1>1 DEF Mismatch
  <2>1. Positions' /\ StepsInv'
    BY DEF Positions, StepsInv
  <2>2. ~Matches(pattern, subject)
    <3>1. si \notin Rest(pi) /\ ~(starPi >= 0) /\ pc = "loop"
      <4>1. InLoop /\ ~AtStar /\ ~SameHere /\ starPi < 0
        BY DEF Mismatch
      <4> QED BY <4>1, NoHit DEF Positions, InLoop
    <3> QED BY <3>1 DEF OpenInv
  <2>3. (Matches(pattern, subject)' <=> Matches(pattern, subject)) /\ ~matched'
    BY DEF Matches, OpenInv, InLoop
  <2> QED BY <2>1, <2>2, <2>3 DEF StarInv, OpenInv, ClosedInv
<1>2. CASE LeaveLoop
  <2> USE <1>2 DEF LeaveLoop
  <2>1. Positions' /\ StepsInv' /\ si = Len(subject)
    BY DEF Positions, StepsInv
  <2>2. ASSUME starPi >= 0, NEW k \in Rest(starPi + 1), k > starSi PROVE FALSE
    <3>1. starPi + 1 \in 0..Len(pattern) /\ pi \in 0..Len(pattern) /\ Past \in Nat
      BY <2>2 DEF Positions, Past
    <3>2. k \in 0..Len(subject) /\ Rest(pi) \subseteq 0..Len(subject)
      BY <2>2, <3>1, RestFacts
    <3>3. k + Past \in Rest(pi) /\ si = starSi + Past
      BY <2>2 DEF StarInv
    <3> QED BY <2>1, <2>2, <3>1, <3>2, <3>3 DEF Positions
  <2>3. Matches(pattern, subject) <=> si \in Rest(pi)
    BY <2>2 DEF OpenInv
  <2>4. (Matches(pattern, subject)' <=> Matches(pattern, subject)) /\ Rest(pi)' = Rest(pi)
    BY DEF Matches, Rest
  <2> QED BY <2>1, <2>3, <2>4 DEF StarInv, OpenInv, ClosedInv
<1>3. CASE SkipTrailingStar
  <2> USE <1>3 DEF SkipTrailingStar
  <2>1. pi \in 0..(Len(pattern) - 1) /\ pattern[pi + 1] = "*" /\ pi + 1 \in 0..Len(pattern)
    BY DEF Positions, AtStar, PatternLeft
  <2>2. Positions'
    BY <2>1 DEF Positions
  <2>3. StepsInv'
    <3> DEFINE w == IF starSi < 0 THEN 0 ELSE starSi * (Len(pattern) + 1)
    <3>1. w \in Int /\ w' = w
      BY DEF Positions
    <3> HIDE DEF w
    <3>2. steps <= w + pi /\ steps \in Nat /\ pi \in Nat
      BY DEF StepsInv, w, Positions
    <3>3. steps' <= w' + pi'
      BY <3>1, <3>2
    <3> QED BY <3>3 DEF StepsInv, w
  <2>4. si = Len(subject) /\ si \in 0..Len(subject)
    BY DEF ClosedInv, Positions
  <2>5. si \in Rest(pi) <=> \E k \in Rest(pi + 1) : si <= k
    BY <2>1, <2>4, RestFacts
  <2>6. Rest(pi + 1) \subseteq 0..Len(subject)
    BY <2>1, RestFacts
  <2>7. si \in Rest(pi) <=> si \in Rest(pi + 1)
    <3>1. \A k \in Rest(pi + 1) : si <= k <=> k = si
      BY <2>4, <2>6 DEF Positions
    <3> QED BY <2>5, <3>1
  <2>8. (Matches(pattern, subject)' <=> Matches(pattern, subject)) /\ Rest(pi)' = Rest(pi + 1)
    BY DEF Matches, Rest
  <2> QED BY <2>2, <2>3, <2>4, <2>7, <2>8 DEF StarInv, OpenInv, ClosedInv
<1>4. CASE Answer
  <2> USE <1>4 DEF Answer
  <2>1. Positions' /\ StepsInv'
    BY DEF Positions, StepsInv
  <2>2. si = Len(subject) /\ si \in Nat /\ (Matches(pattern, subject) <=> si \in Rest(pi))
    BY DEF ClosedInv, Positions
  <2>3. si \in Rest(pi) <=> pi = Len(pattern)
    <3>1. CASE pi = Len(pattern)
      BY <2>2, <3>1, RestFacts
    <3>2. CASE pi # Len(pattern)
      <4>1. pi \in 0..(Len(pattern) - 1)
        BY <3>2 DEF Positions
      <4>2. pattern[pi + 1] # "*"
        BY <4>1 DEF AtStar, PatternLeft, Positions
      <4>3. ~(si < Len(subject))
        BY <2>2
      <4> QED BY <2>2, <3>2, <4>1, <4>2, <4>3, RestFacts
    <3> QED BY <3>1, <3>2
  <2>4. (Matches(pattern, subject)' <=> Matches(pattern, subject)) /\ (matched' <=> pi = Len(pattern))
    BY DEF Matches
  <2> QED BY <2>1, <2>2, <2>3, <2>4 DEF StarInv, OpenInv, ClosedInv
<1> QED BY <1>1, <1>2, <1>3, <1>4

(* Every step of the matcher keeps its invariant.                          *)
LEMMA MatcherStep == ASSUME MatcherInv, [Next]_vars PROVE MatcherInv'
<1>1. CASE Next
  BY <1>1, ConsumeKeeps, RememberStarKeeps, BacktrackKeeps, TailKeeps DEF Next
<1>2. CASE UNCHANGED vars
  BY <1>2 DEF vars, MatcherInv, Positions, StarInv, OpenInv, ClosedInv, StepsInv, Rest, Past, Matches
<1> QED BY <1>1, <1>2

(* The behaviours without a match are in the invariant too.                *)
LEMMA MatcherIdle == ASSUME NoMatch PROVE MatcherInv
<1>1. pattern \in Seq(Chars) /\ subject \in Seq(Chars) /\ Len(pattern) = 0 /\ Len(subject) = 0
  BY DEF NoMatch
<1>2. SuffixMatches(pattern, subject)[0] = {0}
  <2>1. SuffixMatches(pattern, subject)[Len(pattern)] = {Len(subject)}
    BY <1>1, SuffixFacts
  <2> QED BY <1>1, <2>1
<1> USE DEF NoMatch
<1>3. Positions
  <2>1. pi \in 0..Len(pattern) /\ si \in 0..Len(subject) /\ steps \in Nat
    BY <1>1
  <2>2. /\ starPi \in Int /\ -1 <= starPi /\ starPi < pi
        /\ starSi \in Int /\ -1 <= starSi /\ starSi <= si
    OBVIOUS
  <2>3. matched \in BOOLEAN /\ pc \in {"loop", "tail", "done"} /\ ((starPi = -1) <=> (starSi = -1))
    OBVIOUS
  <2> QED BY <1>1, <2>1, <2>2, <2>3 DEF Positions
<1>4. Matches(pattern, subject)
  BY <1>2 DEF Matches
<1> QED BY <1>3, <1>4 DEF MatcherInv, StarInv, OpenInv, ClosedInv, StepsInv

(* What the invariant says when the answer is given, and of the            *)
(* iterations.                                                             *)
LEMMA MatcherAnswers == ASSUME MatcherInv PROVE AnswerIsMeaning
<1> USE DEF MatcherInv
<1>1. ASSUME pc = "done" PROVE matched = Matches(pattern, subject)
  <2>1. matched \in BOOLEAN /\ (matched <=> Matches(pattern, subject))
    BY <1>1 DEF Positions, ClosedInv
  <2>2. Matches(pattern, subject) \in BOOLEAN
    BY DEF Matches
  <2> HIDE DEF MatcherInv
  <2> QED BY <2>1, <2>2
<1>2. steps < (Len(pattern) + 1) * (Len(subject) + 1)
  <2> DEFINE c == Len(pattern) + 1
  <2>1. /\ c \in Nat /\ Len(subject) \in Nat /\ starSi \in Int /\ starSi <= Len(subject)
        /\ pi \in Nat /\ pi < c /\ steps \in Nat
    BY DEF Positions
  <2>2. steps <= (IF starSi < 0 THEN 0 ELSE starSi * c) + pi
    BY DEF StepsInv
  <2> HIDE DEF c, MatcherInv
  <2>3. starSi >= 0 => starSi * c <= Len(subject) * c
    BY <2>1
  <2>4. Len(subject) * c \in Nat /\ (starSi >= 0 => starSi * c \in Nat)
    BY <2>1
  <2>5. steps < Len(subject) * c + c
    <3>1. CASE starSi < 0
      BY <2>1, <2>2, <2>4, <3>1
    <3>2. CASE starSi >= 0
      BY <2>1, <2>2, <2>3, <2>4, <3>2
    <3> QED BY <2>1, <3>1, <3>2
  <2>6. Len(subject) * c + c = c * (Len(subject) + 1)
    BY <2>1
  <2> QED BY <2>5, <2>6 DEF c
<1> QED BY <1>1, <1>2 DEF AnswerIsMeaning

(* The inductive invariant of Pattern.Match: what the two positions and    *)
(* the last star still allow is what the pattern means.                    *)
THEOREM MatcherInvariant == RoutingSpec => []MatcherInv
<1>1. RoutingInit => MatcherInv
  BY MatchAssumption, MatcherInit, MatcherIdle DEF RoutingInit
<1>2. ASSUME MatcherInv, [RoutingNext]_allVars
      PROVE  MatcherInv'
  <2>1. [Next]_vars
    BY <1>2 DEF RoutingNext, allVars
  <2> QED BY <1>2, <2>1, MatcherStep
<1> QED BY <1>1, <1>2, PTL DEF RoutingSpec

(* For all patterns and subjects, the answer of Pattern.Match is the       *)
(* meaning of the pattern, within the iterations that its comment promises *)
(* (pattern.go:51-95).                                                     *)
THEOREM MatcherIsRight == RoutingSpec => []AnswerIsMeaning
  BY MatcherInvariant, MatcherAnswers, PTL

(* No index of Pattern.Match is out of range, for all patterns and         *)
(* subjects (pattern.go:64-95).                                            *)
THEOREM MatcherStaysInside == Spec => []TypeOK
<1> DEFINE Inv == MatcherInv /\ pattern \in PatternSet /\ subject \in SubjectSet
<1>1. Init => Inv
  BY MatchAssumption, MatcherInit DEF Init
<1>2. Inv /\ [Next]_vars => Inv'
  <2> SUFFICES ASSUME Inv, [Next]_vars PROVE Inv'
    OBVIOUS
  <2>1. pattern' = pattern /\ subject' = subject
    BY DEF vars, Next, Consume, RememberStar, Backtrack, Mismatch, LeaveLoop, SkipTrailingStar, Answer
  <2> QED BY <2>1, MatcherStep
<1>3. Inv => TypeOK
  BY DEF MatcherInv, Positions, TypeOK
<1> QED BY <1>1, <1>2, <1>3, PTL DEF Spec

-----------------------------------------------------------------------------
(***************************************************************************)
(* The translation of patterns to literals and to Redis's globs.           *)
(***************************************************************************)
(* A pattern without a wildcard matches itself only, so that it can be a   *)
(* plain subscription (redismq/pattern.go, natsmq/subject.go,              *)
(* rabbitmq/routing.go).                                                   *)
LEMMA LiteralMatches ==
    ASSUME NEW p \in Seq(Chars), NEW s \in Seq(Chars), ~IsWildcard(p)
    PROVE  Matches(p, s) <=> p = s
<1> DEFINE n == Len(p)
           z == Len(s)
           m == SuffixMatches(p, s)
           Same(d, j) == z - j = d /\ \A x \in 1..d : p[n - d + x] = s[j + x]
           S == {d \in 0..n : \A j \in 0..z : j \in m[n - d] <=> Same(d, j)}
<1>1. n \in Nat /\ z \in Nat
  OBVIOUS
<1>2. /\ m[n] = {z}
      /\ \A i \in 0..(n - 1) : \A j :
           j \in m[i] <=>
             IF p[i + 1] = "*"
             THEN j \in 0..z /\ \E k \in m[i + 1] : j <= k
             ELSE j \in 0..(z - 1) /\ p[i + 1] \in {"?", s[j + 1]} /\ j + 1 \in m[i + 1]
  BY <1>1, SuffixFacts
<1>3. \A i \in 1..n : p[i] \notin {"*", "?"}
  BY DEF IsWildcard, Wildcards
<1> HIDE DEF n, z, m
<1>4. 0 \in S
  BY <1>1, <1>2
<1>5. ASSUME NEW d \in 1..n, d - 1 \in S PROVE d \in S
  <2>1. n - d \in 0..(n - 1) /\ n - d + 1 = n - (d - 1) /\ n - d + 1 \in 1..n
    BY <1>1
  <2>2. ASSUME NEW j \in 0..z PROVE j \in m[n - d] <=> Same(d, j)
    <3>1. j \in m[n - d] <=> j \in 0..(z - 1) /\ p[n - d + 1] = s[j + 1] /\ j + 1 \in m[n - (d - 1)]
      BY <1>2, <1>3, <2>1
    <3>2. CASE j = z
      BY <1>1, <3>1, <3>2
    <3>3. CASE j # z
      <4>1. j \in 0..(z - 1) /\ j + 1 \in 0..z
        BY <1>1, <3>3
      <4>2. j + 1 \in m[n - (d - 1)] <=> Same(d - 1, j + 1)
        BY <1>5, <4>1
      <4>3. p[n - d + 1] = s[j + 1] /\ Same(d - 1, j + 1) <=> Same(d, j)
        <5>1. ASSUME p[n - d + 1] = s[j + 1], Same(d - 1, j + 1) PROVE Same(d, j)
          <6>1. z - j = d
            BY <1>1, <5>1
          <6>2. ASSUME NEW x \in 1..d PROVE p[n - d + x] = s[j + x]
            <7>1. CASE x = 1
              BY <5>1, <7>1
            <7>2. CASE x # 1
              <8>1. x - 1 \in 1..(d - 1)
                BY <7>2
              <8>2. p[n - (d - 1) + (x - 1)] = s[j + 1 + (x - 1)]
                BY <5>1, <8>1
              <8>3. n - (d - 1) + (x - 1) = n - d + x /\ j + 1 + (x - 1) = j + x
                BY <1>1
              <8> QED BY <8>2, <8>3
            <7> QED BY <7>1, <7>2
          <6> QED BY <6>1, <6>2
        <5>2. ASSUME Same(d, j) PROVE p[n - d + 1] = s[j + 1] /\ Same(d - 1, j + 1)
          <6>1. 1 \in 1..d /\ z - (j + 1) = d - 1
            BY <1>1, <5>2
          <6>2. ASSUME NEW x \in 1..(d - 1) PROVE p[n - (d - 1) + x] = s[j + 1 + x]
            <7>1. x + 1 \in 1..d /\ n - (d - 1) + x = n - d + (x + 1) /\ j + 1 + x = j + (x + 1)
              BY <1>1
            <7> QED BY <5>2, <7>1
          <6> QED BY <5>2, <6>1, <6>2
        <5> QED BY <5>1, <5>2
      <4> QED BY <3>1, <4>1, <4>2, <4>3
    <3> QED BY <3>2, <3>3
  <2>3. d \in 0..n
    BY <1>1
  <2> HIDE DEF Same
  <2> QED BY <2>2, <2>3
<1>6. n \in S
  <2>1. \A k \in 1..n : k - 1 \in S => k \in S
    BY <1>5
  <2>2. n \in 0..n
    BY <1>1
  <2> HIDE DEF S
  <2> QED BY <1>1, <1>4, <2>1, <2>2, UpTo
<1>7. 0 \in m[0] <=> z = n /\ \A x \in 1..n : p[x] = s[x]
  <2>1. 0 \in 0..z /\ n - n = 0 /\ z - 0 = z
    BY <1>1
  <2>2. 0 \in m[n - n] <=> Same(n, 0)
    BY <1>6, <2>1
  <2>3. \A x \in 1..n : n - n + x = x /\ 0 + x = x
    BY <1>1
  <2> QED BY <2>1, <2>2, <2>3
<1>8. p = s <=> z = n /\ \A x \in 1..n : p[x] = s[x]
  BY DEF n, z
<1> QED BY <1>7, <1>8 DEF Matches, m

\* The characters that Escape has written after i of those it was given.
EscapeFn(s, meta) ==
    CHOOSE e : e = [i \in 0..Len(s) |->
                      IF i = 0 THEN <<>>
                      ELSE e[i - 1] \o (IF s[i] \in meta THEN <<"\\", s[i]>> ELSE <<s[i]>>)]

(* What appending two sequences gives.                                     *)
LEMMA Appending ==
    ASSUME NEW A, NEW u \in Seq(A), NEW v \in Seq(A)
    PROVE  /\ u \o v \in Seq(A) /\ Len(u \o v) = Len(u) + Len(v)
           /\ \A x \in 1..Len(u) : (u \o v)[x] = u[x]
           /\ \A x \in 1..Len(v) : (u \o v)[Len(u) + x] = v[x]
  OBVIOUS

\* What is written for the character i.
Code(s, meta, i) == IF s[i] \in meta THEN <<"\\", s[i]>> ELSE <<s[i]>>

WrittenAs(e, A, s, meta) ==
    /\ Escape(s, meta) = e[Len(s)]
    /\ e \in [0..Len(s) -> Seq(A)] /\ e[0] = <<>>
    /\ \A i \in 1..Len(s) : e[i] = e[i - 1] \o Code(s, meta, i)

(* Escaping obeys its own equation (redismq/pattern.go, toRedisPattern and *)
(* escapeGlob).                                                            *)
LEMMA EscapeUnfolds ==
    ASSUME NEW A, "\\" \in A, NEW s \in Seq(A), NEW meta
    PROVE  WrittenAs(EscapeFn(s, meta), A, s, meta)
<1> DEFINE n == Len(s)
           V == Seq(A)
           Chunk(i) == Code(s, meta, i)
           G == [i \in 1..n |-> [v \in V |-> v \o Chunk(i)]]
           back == [i \in 1..n |-> i - 1]
           B(e) == [i \in 0..n |-> IF i = 0 THEN <<>> ELSE e[i - 1] \o Chunk(i)]
           e0 == EscapeFn(s, meta)
<1>1. n \in Nat
  OBVIOUS
<1>2. \A i \in 1..n : Chunk(i) \in V
  BY DEF Code
<1>3. G \in [1..n -> [V -> V]]
  <2> HIDE DEF Chunk
  <2> QED BY <1>2
<1>4. back \in [1..n -> 0..n] /\ \A i \in 1..n : back[i] < i
  BY <1>1
<1>5. PICK f : Solves(f, n, V, <<>>, back, G)
  <2>1. <<>> \in V
    OBVIOUS
  <2> HIDE DEF G, V, back, n
  <2>2. Recursive(n, V, <<>>, back, G)
    BY <1>1, <1>3, <1>4, <2>1 DEF Recursive
  <2> QED BY <2>2, Recursion
<1>6. f \in [0..n -> V] /\ f[0] = <<>>
  BY <1>5 DEF Solves
<1>7. ASSUME NEW i \in 1..n PROVE f[i] = f[i - 1] \o Chunk(i)
  <2>1. f[i] = G[i][f[i - 1]] /\ f[i - 1] \in V
    <3>1. back[i] = i - 1 /\ i - 1 \in 0..n
      BY <1>1
    <3> HIDE DEF G, V, back, n
    <3> QED BY <1>5, <1>6, <3>1 DEF Solves
  <2> HIDE DEF Chunk, V
  <2> QED BY <2>1
<1>8. f = B(f)
  <2> HIDE DEF Chunk, V
  <2>1. \A i \in 0..n : f[i] = B(f)[i]
    BY <1>1, <1>6, <1>7
  <2>2. B(f) = [i \in 0..n |-> B(f)[i]] /\ f = [i \in 0..n |-> f[i]]
    BY <1>6
  <2> QED BY <2>1, <2>2
<1>9. e0 = B(e0)
  <2>1. e0 = CHOOSE e : e = B(e)
    BY DEF EscapeFn, Code
  <2> HIDE DEF B, e0
  <2> QED BY <1>8, <2>1
<1>10. Escape(s, meta) = e0[n]
  BY DEF Escape, EscapeFn
<1> HIDE DEF Chunk, e0
<1>11. e0[0] = <<>> /\ \A i \in 1..n : e0[i] = e0[i - 1] \o Chunk(i)
  <2>1. \A i \in 0..n : e0[i] = B(e0)[i]
    BY <1>9
  <2>2. B(e0)[0] = <<>> /\ 0 \in 0..n
    BY <1>1
  <2>3. ASSUME NEW i \in 1..n PROVE B(e0)[i] = e0[i - 1] \o Chunk(i) /\ i \in 0..n
    BY <1>1
  <2> HIDE DEF B
  <2> QED BY <2>1, <2>2, <2>3
<1>12. e0 \in [0..n -> V]
  <2> DEFINE S == {i \in 0..n : e0[i] \in V}
  <2>1. 0 \in S
    <3>1. <<>> \in V
      OBVIOUS
    <3> HIDE DEF V
    <3> QED BY <1>1, <1>11, <3>1
  <2>2. ASSUME NEW i \in 1..n, i - 1 \in S PROVE i \in S
    <3>1. e0[i - 1] \in V /\ Chunk(i) \in V /\ i \in 0..n
      BY <1>2, <2>2
    <3>2. e0[i - 1] \o Chunk(i) \in V
      BY <3>1
    <3>3. e0[i] = e0[i - 1] \o Chunk(i)
      BY <1>11
    <3> QED BY <3>1, <3>2, <3>3
  <2>3. \A i \in 0..n : i \in S
    <3>1. \A i \in 1..n : i - 1 \in S => i \in S
      BY <2>2
    <3> HIDE DEF S
    <3> QED BY <1>1, <2>1, <3>1, UpTo
  <2>4. DOMAIN e0 = 0..n /\ e0 = [i \in 0..n |-> e0[i]]
    BY <1>9
  <2> HIDE DEF V
  <2> QED BY <2>3, <2>4
<1> QED BY <1>10, <1>11, <1>12 DEF e0, Chunk, WrittenAs

\* g holds, from a + 1 to b, the character c, escaped when it is one of meta.
Element(g, a, b, c, meta) ==
    /\ a \in Nat /\ b \in Nat /\ b <= Len(g)
    /\ IF c \in meta THEN b = a + 2 /\ g[a + 1] = "\\" /\ g[a + 2] = c
                     ELSE b = a + 1 /\ g[a + 1] = c

(* What is written for a character is not empty and inside the text.      *)
LEMMA ElementPlaces ==
    ASSUME NEW g, NEW a, NEW b, NEW c, NEW meta, Element(g, a, b, c, meta)
    PROVE  a \in Nat /\ a < b /\ b \in Nat /\ b <= Len(g)
BY DEF Element

\* w[i] is the length of what Escape has written after i characters.
Coded(w, s, meta) ==
    LET g == Escape(s, meta)
    IN  /\ w \in [0..Len(s) -> Nat] /\ w[0] = 0 /\ w[Len(s)] = Len(g)
        /\ \A i \in 1..Len(s) : Element(g, w[i - 1], w[i], s[i], meta)

(* What is written for a character stands between two known places.        *)
LEMMA EscapeFacts ==
    ASSUME NEW A, "\\" \in A, NEW s \in Seq(A), NEW meta
    PROVE  Escape(s, meta) \in Seq(A) /\ \E w : Coded(w, s, meta)
<1> DEFINE n == Len(s)
           e == EscapeFn(s, meta)
           w == [i \in 0..n |-> Len(e[i])]
           Fine(k) == \A i \in 1..k : Element(e[k], w[i - 1], w[i], s[i], meta)
           S == {k \in 0..n : Fine(k)}
<1>1. WrittenAs(e, A, s, meta)
  BY EscapeUnfolds
<1>2. n \in Nat
  OBVIOUS
<1> HIDE DEF e
<1>3. /\ \A i \in 0..n : e[i] \in Seq(A) /\ w[i] = Len(e[i]) /\ w[i] \in Nat
      /\ w \in [0..n -> Nat] /\ w[0] = 0
  <2>1. \A i \in 0..n : e[i] \in Seq(A)
    BY <1>1 DEF WrittenAs
  <2>2. \A i \in 0..n : Len(e[i]) \in Nat
    BY <2>1
  <2>3. Len(e[0]) = 0 /\ 0 \in 0..n
    BY <1>1, <1>2 DEF WrittenAs
  <2> QED BY <2>1, <2>2, <2>3
<1> HIDE DEF w
<1>4. 0 \in S
  BY <1>2
<1>5. ASSUME NEW k \in 1..n, k - 1 \in S PROVE k \in S
  <2>1. k - 1 \in 0..n /\ k \in 0..n
    BY <1>2
  <2>2. e[k - 1] \in Seq(A) /\ e[k] \in Seq(A) /\ e[k] = e[k - 1] \o Code(s, meta, k)
    BY <1>1, <1>3, <2>1 DEF WrittenAs
  <2>3. w[k - 1] = Len(e[k - 1]) /\ w[k] = Len(e[k]) /\ w[k - 1] \in Nat /\ w[k] \in Nat
    BY <1>3, <2>1
  <2>4. Code(s, meta, k) \in Seq(A)
    BY DEF Code
  <2>5. /\ w[k] = w[k - 1] + Len(Code(s, meta, k)) /\ \A x \in 1..w[k - 1] : e[k][x] = e[k - 1][x]
        /\ \A x \in 1..Len(Code(s, meta, k)) : e[k][w[k - 1] + x] = Code(s, meta, k)[x]
    BY <2>2, <2>3, <2>4, Appending
  <2>6. Element(e[k], w[k - 1], w[k], s[k], meta)
    <3>1. CASE s[k] \in meta
      <4>1. Len(Code(s, meta, k)) = 2 /\ Code(s, meta, k)[1] = "\\" /\ Code(s, meta, k)[2] = s[k]
        BY <3>1 DEF Code
      <4> QED BY <2>3, <2>5, <3>1, <4>1 DEF Element
    <3>2. CASE s[k] \notin meta
      <4>1. Len(Code(s, meta, k)) = 1 /\ Code(s, meta, k)[1] = s[k]
        BY <3>2 DEF Code
      <4> QED BY <2>3, <2>5, <3>2, <4>1 DEF Element
    <3> QED BY <3>1, <3>2
  <2>7. w[k - 1] <= w[k]
    BY <2>3, <2>4, <2>5
  <2>8. ASSUME NEW i \in 1..k PROVE Element(e[k], w[i - 1], w[i], s[i], meta)
    <3>1. CASE i = k
      BY <2>6, <3>1
    <3>2. CASE i # k
      <4>1. i \in 1..(k - 1)
        BY <3>2
      <4>2. Element(e[k - 1], w[i - 1], w[i], s[i], meta)
        BY <1>5, <4>1
      <4>3. w[i - 1] \in Nat /\ w[i] \in Nat /\ w[i] <= w[k - 1] /\ w[i] <= Len(e[k])
        <5>1. w[i - 1] \in Nat /\ w[i] \in Nat /\ w[i] <= Len(e[k - 1])
          BY <4>2 DEF Element
        <5> QED BY <2>3, <2>7, <5>1
      <4>4. \A x \in 1..w[i] : e[k][x] = e[k - 1][x]
        <5>1. \A x \in 1..w[i] : x \in 1..w[k - 1]
          BY <2>3, <4>3
        <5> QED BY <2>5, <5>1
      <4>5. CASE s[i] \in meta
        <5>1. w[i] = w[i - 1] + 2 /\ e[k - 1][w[i - 1] + 1] = "\\" /\ e[k - 1][w[i - 1] + 2] = s[i]
          BY <4>2, <4>5 DEF Element
        <5>2. w[i - 1] + 1 \in 1..w[i] /\ w[i - 1] + 2 \in 1..w[i]
          BY <4>3, <5>1, SMTT(20)
        <5> QED BY <4>3, <4>4, <4>5, <5>1, <5>2 DEF Element
      <4>6. CASE s[i] \notin meta
        <5>1. w[i] = w[i - 1] + 1 /\ e[k - 1][w[i - 1] + 1] = s[i]
          BY <4>2, <4>6 DEF Element
        <5>2. w[i - 1] + 1 \in 1..w[i]
          BY <4>3, <5>1
        <5> QED BY <4>3, <4>4, <4>6, <5>1, <5>2 DEF Element
      <4> QED BY <4>5, <4>6
    <3> QED BY <3>1, <3>2
  <2> QED BY <2>1, <2>8
<1>6. n \in S
  <2>1. \A k \in 1..n : k - 1 \in S => k \in S
    BY <1>5
  <2>2. n \in 0..n
    BY <1>2
  <2> HIDE DEF S
  <2> QED BY <1>2, <1>4, <2>1, <2>2, UpTo
<1>7. e[n] \in Seq(A) /\ w[n] = Len(e[n]) /\ Escape(s, meta) = e[n]
  BY <1>1, <1>2, <1>3 DEF WrittenAs
<1>8. Coded(w, s, meta)
  BY <1>3, <1>6, <1>7 DEF Coded
<1> QED BY <1>7, <1>8

(* A class ends after it begins, at the latest with the glob.              *)
LEMMA ClassEnds ==
    ASSUME NEW g, Len(g) \in Nat, NEW i \in 1..Len(g)
    PROVE  ClassEnd(g, i) \in (i + 1)..(Len(g) + 1)
<1> DEFINE End(k) == /\ k <= Len(g) => g[k] = "]"
                     /\ \A x \in (i + 1)..(k - 1) : g[x] # "]"
           T == {k \in (i + 1)..(Len(g) + 1) : k <= Len(g) => g[k] = "]"}
<1>1. T \subseteq Nat /\ T # {}
  <2>1. Len(g) + 1 \in T
    OBVIOUS
  <2> QED BY <2>1
<1>2. PICK l \in T : \A k \in T : l <= k
  <2> HIDE DEF T
  <2> QED BY <1>1, LeastElement
<1>3. ASSUME NEW x \in (i + 1)..(l - 1) PROVE g[x] # "]"
  <2>1. x \in (i + 1)..(Len(g) + 1) /\ x < l
    OBVIOUS
  <2>2. x \notin T
    BY <1>2, <2>1
  <2> QED BY <2>1, <2>2
<1>4. l \in (i + 1)..(Len(g) + 1) /\ End(l)
  BY <1>3
<1> HIDE DEF End
<1>5. \E k \in (i + 1)..(Len(g) + 1) : End(k)
  BY <1>4
<1>6. ClassEnd(g, i) = CHOOSE k \in (i + 1)..(Len(g) + 1) : End(k)
  BY DEF ClassEnd, End
<1> QED BY <1>5, <1>6

(* The element after another stands after it.                              *)
LEMMA GlobGoesOn ==
    ASSUME NEW g, Len(g) \in Nat, NEW i \in 1..Len(g)
    PROVE  GlobAfter(g, i) \in (i + 1)..(Len(g) + 2)
<1>1. CASE g[i] = "["
  BY <1>1, ClassEnds DEF GlobAfter
<1>2. CASE g[i] # "[" /\ Escapes(g, i)
  BY <1>2 DEF GlobAfter, Escapes
<1>3. CASE g[i] # "[" /\ ~Escapes(g, i)
  BY <1>3 DEF GlobAfter
<1> QED BY <1>1, <1>2, <1>3

\* What the rest of a glob gives for the element at i.
GlobHere(g, s, i, rest) ==
    IF g[i] = "*" THEN {j \in 1..(Len(s) + 1) : \E k \in rest : j <= k}
    ELSE {j \in 1..Len(s) : GlobFits(g, i, s[j]) /\ j + 1 \in rest}

GlobBody(g, s, m) ==
    [i \in 1..(Len(g) + 2) |->
       IF i > Len(g) THEN {Len(s) + 1} ELSE GlobHere(g, s, i, m[GlobAfter(g, i)])]

(* Redis's glob matching obeys its own equation.                           *)
LEMMA GlobUnfolds ==
    ASSUME NEW g, NEW s, Len(g) \in Nat, Len(s) \in Nat
    PROVE  GlobSuffix(g, s) = GlobBody(g, s, GlobSuffix(g, s))
<1> DEFINE B(m) == GlobBody(g, s, m)
           n == Len(g)
           V == SUBSET (1..(Len(s) + 1))
           G == [d \in 1..n |-> [rest \in V |-> GlobHere(g, s, n + 1 - d, rest)]]
           back == [d \in 1..n |-> IF GlobAfter(g, n + 1 - d) > n THEN 0
                                   ELSE n + 1 - GlobAfter(g, n + 1 - d)]
<1>1. GlobSuffix(g, s) = CHOOSE m : m = B(m)
  BY DEF GlobSuffix, GlobBody, GlobHere
<1>2. \E m : m = B(m)
  <2>1. n \in Nat
    OBVIOUS
  <2>2. {Len(s) + 1} \in V
    OBVIOUS
  <2>3. \A i, rest : GlobHere(g, s, i, rest) \in V
    BY DEF GlobHere
  <2>4. G \in [1..n -> [V -> V]]
    <3> HIDE DEF V
    <3> QED BY <2>3
  <2>5. ASSUME NEW i \in 1..n PROVE back[i] \in 0..n /\ back[i] < i
    <3>1. n + 1 - i \in 1..n /\ n + 1 - (n + 1 - i) = i
      OBVIOUS
    <3>2. GlobAfter(g, n + 1 - i) \in (n + 1 - i + 1)..(n + 2)
      BY <3>1, GlobGoesOn
    <3> QED BY <3>1, <3>2
  <2>6. PICK f : Solves(f, n, V, {Len(s) + 1}, back, G)
    <3>1. back \in [1..n -> 0..n] /\ \A i \in 1..n : back[i] < i
      <4>1. back = [i \in 1..n |-> back[i]]
        OBVIOUS
      <4> HIDE DEF back
      <4> QED BY <2>5, <4>1
    <3> HIDE DEF G, V, back, n
    <3>2. Recursive(n, V, {Len(s) + 1}, back, G)
      BY <2>1, <2>2, <2>4, <3>1 DEF Recursive
    <3> QED BY <3>2, Recursion
  <2> DEFINE m == [i \in 1..(n + 2) |-> IF i > n THEN {Len(s) + 1} ELSE f[n + 1 - i]]
  <2>7. ASSUME NEW i \in 1..(n + 2) PROVE m[i] = B(m)[i]
    <3>1. CASE i > n
      BY <3>1 DEF GlobBody
    <3>2. CASE i <= n
      <4> DEFINE a == GlobAfter(g, i)
                 d == n + 1 - i
      <4>1. i \in 1..n /\ d \in 1..n /\ n + 1 - d = i
        BY <3>2
      <4>2. a \in (i + 1)..(n + 2)
        BY <4>1, GlobGoesOn
      <4>3. m[i] = f[d] /\ m[a] = IF a > n THEN {Len(s) + 1} ELSE f[n + 1 - a]
        <5> HIDE DEF a
        <5> QED BY <3>2, <4>2
      <4>4. back[d] = IF a > n THEN 0 ELSE n + 1 - a
        BY <4>1
      <4>5. m[a] = f[back[d]]
        <5>1. f[0] = {Len(s) + 1}
          BY <2>6 DEF Solves
        <5> HIDE DEF a, d, m, back
        <5> QED BY <4>3, <4>4, <5>1
      <4>6. f[d] = G[d][f[back[d]]] /\ f[back[d]] \in V
        <5>1. back[d] \in 0..n
          BY <2>5, <4>1
        <5> HIDE DEF G, V, back, n, d
        <5> QED BY <2>6, <4>1, <5>1 DEF Solves
      <4>7. f[d] = GlobHere(g, s, i, m[a])
        <5>1. G[d] = [rest \in V |-> GlobHere(g, s, i, rest)]
          BY <4>1
        <5> HIDE DEF G, V, back, d, a, m
        <5> QED BY <4>5, <4>6, <5>1
      <4>8. B(m)[i] = GlobHere(g, s, i, m[a])
        <5> HIDE DEF m
        <5> QED BY <3>2 DEF GlobBody
      <4> QED BY <4>3, <4>7, <4>8
    <3> QED BY <3>1, <3>2
  <2>8. m = B(m)
    <3>1. B(m) = [i \in 1..(n + 2) |-> B(m)[i]]
      BY DEF GlobBody
    <3>2. m = [i \in 1..(n + 2) |-> m[i]]
      OBVIOUS
    <3> HIDE DEF m, B
    <3> QED BY <2>7, <3>1, <3>2
  <2> HIDE DEF m, B
  <2> QED BY <2>8
<1> HIDE DEF B
<1>3. GlobSuffix(g, s) = B(GlobSuffix(g, s))
  BY <1>1, <1>2
<1> QED BY <1>3 DEF B

(* The same, place by place.                                               *)
LEMMA GlobFacts ==
    ASSUME NEW g, NEW s, Len(g) \in Nat, Len(s) \in Nat
    PROVE  /\ GlobSuffix(g, s)[Len(g) + 1] = {Len(s) + 1}
           /\ \A i \in 1..Len(g) :
                GlobSuffix(g, s)[i] = GlobHere(g, s, i, GlobSuffix(g, s)[GlobAfter(g, i)])
           /\ \A i \in 1..(Len(g) + 1) : GlobSuffix(g, s)[i] \subseteq 1..(Len(s) + 1)
<1> DEFINE m == GlobSuffix(g, s)
<1>1. m = GlobBody(g, s, m)
  BY GlobUnfolds
<1> HIDE DEF m
<1>2. \A i \in 1..(Len(g) + 2) :
        m[i] = IF i > Len(g) THEN {Len(s) + 1} ELSE GlobHere(g, s, i, m[GlobAfter(g, i)])
  BY <1>1 DEF GlobBody
<1>3. m[Len(g) + 1] = {Len(s) + 1}
  <2>1. Len(g) + 1 \in 1..(Len(g) + 2) /\ Len(g) + 1 > Len(g)
    OBVIOUS
  <2> QED BY <1>2, <2>1
<1>4. ASSUME NEW i \in 1..Len(g) PROVE m[i] = GlobHere(g, s, i, m[GlobAfter(g, i)])
  <2>1. i \in 1..(Len(g) + 2) /\ ~(i > Len(g))
    OBVIOUS
  <2> QED BY <1>2, <2>1
<1>5. ASSUME NEW i \in 1..(Len(g) + 1) PROVE m[i] \subseteq 1..(Len(s) + 1)
  <2>1. CASE i = Len(g) + 1
    BY <1>3, <2>1
  <2>2. CASE i # Len(g) + 1
    <3>1. i \in 1..Len(g)
      BY <2>2
    <3>2. \A rest : GlobHere(g, s, i, rest) \subseteq 1..(Len(s) + 1)
      BY DEF GlobHere
    <3> QED BY <1>4, <3>1, <3>2
  <2> QED BY <2>1, <2>2
<1> QED BY <1>3, <1>4, <1>5 DEF m

\* From where g matches s after a, given from where it does after b: when a
\* star, a question mark or the character c lies between them.
StarBetween(g, s, a, b) ==
    \A j : j \in GlobSuffix(g, s)[a + 1] <=>
        j \in 1..(Len(s) + 1) /\ \E k \in GlobSuffix(g, s)[b + 1] : j <= k
AnyBetween(g, s, a, b) ==
    \A j : j \in GlobSuffix(g, s)[a + 1] <=>
        j \in 1..Len(s) /\ j + 1 \in GlobSuffix(g, s)[b + 1]
CharBetween(g, s, a, b, c) ==
    \A j : j \in GlobSuffix(g, s)[a + 1] <=>
        j \in 1..Len(s) /\ c = s[j] /\ j + 1 \in GlobSuffix(g, s)[b + 1]

(* What Escape wrote for one character is one element of the glob: a star, *)
(* a question mark, or just that character.                                *)
LEMMA ElementFacts ==
    ASSUME NEW g, NEW s, Len(g) \in Nat, Len(s) \in Nat, NEW a, NEW b, NEW c, NEW meta,
           Element(g, a, b, c, meta), "[" \in meta, "\\" \in meta
    PROVE  /\ c = "*" /\ c \notin meta => StarBetween(g, s, a, b)
           /\ c = "?" /\ c \notin meta => AnyBetween(g, s, a, b)
           /\ c \in meta \/ c \notin {"*", "?"} => CharBetween(g, s, a, b, c)
<1> DEFINE m == GlobSuffix(g, s)
<1>1. a \in Nat /\ b \in Nat /\ b <= Len(g)
  BY DEF Element
<1>2. a + 1 \in 1..Len(g)
  BY <1>1 DEF Element
<1>3. m[a + 1] = GlobHere(g, s, a + 1, m[GlobAfter(g, a + 1)])
  BY <1>2, GlobFacts
<1> HIDE DEF m
<1>4. CASE c \in meta
  <2>1. b = a + 2 /\ g[a + 1] = "\\" /\ g[a + 2] = c /\ a + 1 < Len(g)
    BY <1>1, <1>4 DEF Element
  <2>2. GlobAfter(g, a + 1) = b + 1
    BY <1>1, <2>1 DEF GlobAfter, Escapes
  <2>3. a + 1 + 1 = a + 2
    BY <1>1
  <2>4. \A x : GlobFits(g, a + 1, x) <=> c = x
    BY <2>1, <2>3 DEF GlobFits, Escapes
  <2>5. m[a + 1] = {j \in 1..Len(s) : GlobFits(g, a + 1, s[j]) /\ j + 1 \in m[b + 1]}
    BY <1>3, <2>1, <2>2 DEF GlobHere
  <2>6. \A j : j \in m[a + 1] <=> j \in 1..Len(s) /\ c = s[j] /\ j + 1 \in m[b + 1]
    BY <2>4, <2>5
  <2> QED BY <1>4, <2>6 DEF m, CharBetween
<1>5. CASE c \notin meta
  <2>1. b = a + 1 /\ g[a + 1] = c /\ c # "[" /\ c # "\\"
    BY <1>5 DEF Element
  <2>2. GlobAfter(g, a + 1) = b + 1
    BY <2>1 DEF GlobAfter, Escapes
  <2>3. CASE c = "*"
    <3>1. m[a + 1] = {j \in 1..(Len(s) + 1) : \E k \in m[b + 1] : j <= k}
      BY <1>3, <2>1, <2>2, <2>3 DEF GlobHere
    <3>2. \A j : j \in m[a + 1] <=> j \in 1..(Len(s) + 1) /\ \E k \in m[b + 1] : j <= k
      BY <3>1
    <3> QED BY <1>5, <2>3, <3>2 DEF m, StarBetween
  <2>4. CASE c # "*"
    <3>1. m[a + 1] = {j \in 1..Len(s) : GlobFits(g, a + 1, s[j]) /\ j + 1 \in m[b + 1]}
      BY <1>3, <2>1, <2>2, <2>4 DEF GlobHere
    <3>2. CASE c = "?"
      <4>1. \A x : GlobFits(g, a + 1, x)
        <5>1. g[a + 1] = "?" /\ g[a + 1] # "[" /\ ~Escapes(g, a + 1)
          BY <2>1, <3>2 DEF Escapes
        <5> QED BY <5>1 DEF GlobFits
      <4>2. \A j : j \in m[a + 1] <=> j \in 1..Len(s) /\ j + 1 \in m[b + 1]
        BY <3>1, <4>1
      <4> QED BY <1>5, <3>2, <4>2 DEF m, AnyBetween
    <3>3. CASE c # "?"
      <4>1. \A x : GlobFits(g, a + 1, x) <=> c = x
        BY <2>1, <3>3 DEF GlobFits, Escapes
      <4>2. \A j : j \in m[a + 1] <=> j \in 1..Len(s) /\ c = s[j] /\ j + 1 \in m[b + 1]
        BY <3>1, <4>1
      <4> QED BY <1>5, <2>4, <3>3, <4>2 DEF m, CharBetween
    <3> QED BY <3>2, <3>3
  <2> QED BY <2>3, <2>4
<1> QED BY <1>4, <1>5

(* An element stands in a sequence that was appended to as it did alone.   *)
LEMMA ElementInside ==
    ASSUME NEW A, NEW u \in Seq(A), NEW v \in Seq(A), NEW a, NEW b, NEW c, NEW meta
    PROVE  /\ Element(u, a, b, c, meta) => Element(u \o v, a, b, c, meta)
           /\ Element(v, a, b, c, meta) => Element(u \o v, Len(u) + a, Len(u) + b, c, meta)
<1>1. /\ Len(u) \in Nat /\ Len(v) \in Nat /\ Len(u \o v) = Len(u) + Len(v)
      /\ \A x \in 1..Len(u) : (u \o v)[x] = u[x]
      /\ \A x \in 1..Len(v) : (u \o v)[Len(u) + x] = v[x]
  BY Appending
<1> DEFINE g == u \o v
<1> HIDE DEF g
<1>2. ASSUME Element(u, a, b, c, meta) PROVE Element(g, a, b, c, meta)
  <2>1. a \in Nat /\ b \in Nat /\ b <= Len(u) /\ b <= Len(g)
    BY <1>1, <1>2 DEF Element, g
  <2>2. CASE c \in meta
    <3>1. b = a + 2 /\ a + 1 \in 1..Len(u) /\ a + 2 \in 1..Len(u) /\ u[a + 1] = "\\" /\ u[a + 2] = c
      BY <1>1, <1>2, <2>1, <2>2 DEF Element
    <3> QED BY <1>1, <2>1, <2>2, <3>1 DEF Element, g
  <2>3. CASE c \notin meta
    <3>1. b = a + 1 /\ a + 1 \in 1..Len(u) /\ u[a + 1] = c
      BY <1>1, <1>2, <2>1, <2>3 DEF Element
    <3> QED BY <1>1, <2>1, <2>3, <3>1 DEF Element, g
  <2> QED BY <2>2, <2>3
<1>3. ASSUME Element(v, a, b, c, meta) PROVE Element(g, Len(u) + a, Len(u) + b, c, meta)
  <2>1. a \in Nat /\ b \in Nat /\ b <= Len(v)
    BY <1>3 DEF Element
  <2>2. Len(u) + a \in Nat /\ Len(u) + b \in Nat /\ Len(u) + b <= Len(g)
    BY <1>1, <2>1 DEF g
  <2>3. CASE c \in meta
    <3>1. b = a + 2 /\ a + 1 \in 1..Len(v) /\ a + 2 \in 1..Len(v) /\ v[a + 1] = "\\" /\ v[a + 2] = c
      BY <1>1, <1>3, <2>1, <2>3 DEF Element
    <3>2. g[Len(u) + (a + 1)] = "\\" /\ g[Len(u) + (a + 2)] = c
      BY <1>1, <3>1 DEF g
    <3>3. Len(u) + (a + 1) = Len(u) + a + 1 /\ Len(u) + (a + 2) = Len(u) + a + 2 /\ Len(u) + b = Len(u) + a + 2
      BY <1>1, <2>1, <3>1
    <3> QED BY <2>2, <2>3, <3>2, <3>3 DEF Element
  <2>4. CASE c \notin meta
    <3>1. b = a + 1 /\ a + 1 \in 1..Len(v) /\ v[a + 1] = c
      BY <1>1, <1>3, <2>1, <2>4 DEF Element
    <3>2. g[Len(u) + (a + 1)] = c
      BY <1>1, <3>1 DEF g
    <3>3. Len(u) + (a + 1) = Len(u) + a + 1 /\ Len(u) + b = Len(u) + a + 1
      BY <1>1, <2>1, <3>1
    <3> QED BY <2>2, <2>4, <3>2, <3>3 DEF Element
  <2> QED BY <2>3, <2>4
<1> QED BY <1>2, <1>3 DEF g

ClassMeta == {"[", "]", "\\"}
GlobMeta == {"*", "?", "[", "]", "\\"}

\* After a, g is p escaped, as w counts it; after l, c is s.
Ends(g, c, p, s, w, l, a) ==
    /\ l \in Nat /\ a \in Nat
    /\ Len(g) \in Nat /\ Len(c) \in Nat /\ Len(p) \in Nat /\ Len(s) \in Nat
    /\ Len(c) = l + Len(s) /\ \A x \in 1..Len(s) : s[x] = c[l + x]
    /\ w \in [0..Len(p) -> Nat] /\ w[0] = 0 /\ a + w[Len(p)] = Len(g)
    /\ \A i \in 1..Len(p) : Element(g, a + w[i - 1], a + w[i], p[i], ClassMeta)

(* The translated pattern at the end of a glob matches what the pattern    *)
(* means (redismq/pattern.go, toRedisPattern).                             *)
LEMMA GlobTail ==
    ASSUME NEW g, NEW c, NEW p, NEW s, NEW w, NEW l, NEW a, Ends(g, c, p, s, w, l, a)
    PROVE  l + 1 \in GlobSuffix(g, c)[a + 1] <=> Matches(p, s)
<1>0. /\ l \in Nat /\ a \in Nat
      /\ Len(g) \in Nat /\ Len(c) \in Nat /\ Len(p) \in Nat /\ Len(s) \in Nat
      /\ Len(c) = l + Len(s) /\ \A x \in 1..Len(s) : s[x] = c[l + x]
      /\ w \in [0..Len(p) -> Nat] /\ w[0] = 0 /\ a + w[Len(p)] = Len(g)
      /\ \A i \in 1..Len(p) : Element(g, a + w[i - 1], a + w[i], p[i], ClassMeta)
  BY DEF Ends
<1> USE <1>0
<1> DEFINE n == Len(p)
           z == Len(s)
           m == SuffixMatches(p, s)
           q == GlobSuffix(g, c)
           S == {d \in 0..n : \A j \in 0..z : l + j + 1 \in q[a + w[n - d] + 1] <=> j \in m[n - d]}
<1>1. n \in Nat /\ z \in Nat
  OBVIOUS
<1>2. /\ m[n] = {z}
      /\ \A i \in 0..(n - 1) : \A j :
           j \in m[i] <=>
             IF p[i + 1] = "*"
             THEN j \in 0..z /\ \E k \in m[i + 1] : j <= k
             ELSE j \in 0..(z - 1) /\ p[i + 1] \in {"?", s[j + 1]} /\ j + 1 \in m[i + 1]
      /\ \A i \in 0..n : m[i] \subseteq 0..z
  BY SuffixFacts
<1>3. /\ q[Len(g) + 1] = {Len(c) + 1}
      /\ \A i \in 1..(Len(g) + 1) : q[i] \subseteq 1..(Len(c) + 1)
  BY GlobFacts
<1>4. ASSUME NEW i \in 0..(n - 1)
      PROVE  /\ p[i + 1] = "*" => StarBetween(g, c, a + w[i], a + w[i + 1])
             /\ p[i + 1] = "?" => AnyBetween(g, c, a + w[i], a + w[i + 1])
             /\ p[i + 1] \notin {"*", "?"} => CharBetween(g, c, a + w[i], a + w[i + 1], p[i + 1])
  <2>1. i + 1 \in 1..n /\ i + 1 - 1 = i
    BY <1>1
  <2>2. Element(g, a + w[i], a + w[i + 1], p[i + 1], ClassMeta)
    BY <2>1
  <2>3. "[" \in ClassMeta /\ "\\" \in ClassMeta /\ "*" \notin ClassMeta /\ "?" \notin ClassMeta
    BY DEF ClassMeta
  <2> QED BY <2>2, <2>3, ElementFacts
<1>5. ASSUME NEW i \in 0..n PROVE a + w[i] + 1 \in 1..(Len(g) + 1)
  <2>1. CASE i = n
    BY <1>1, <2>1
  <2>2. CASE i # n
    <3>1. i + 1 \in 1..n /\ i + 1 - 1 = i
      BY <1>1, <2>2
    <3>2. Element(g, a + w[i], a + w[i + 1], p[i + 1], ClassMeta)
      BY <3>1
    <3>3. a + w[i] \in Nat /\ a + w[i] < a + w[i + 1] /\ a + w[i + 1] \in Nat /\ a + w[i + 1] <= Len(g)
      BY <3>2, ElementPlaces
    <3> HIDE <1>0
    <3>4. Len(g) \in Nat
      BY <1>0
    <3> QED BY <3>3, <3>4
  <2> QED BY <2>1, <2>2
<1> HIDE DEF n, z, m, q
<1>6. Len(c) = l + z /\ \A x \in 1..z : s[x] = c[l + x]
  BY DEF z
<1>7. 0 \in S
  <2>1. n - 0 = n /\ a + w[n] + 1 = Len(g) + 1
    BY <1>1 DEF n
  <2>2. ASSUME NEW j \in 0..z PROVE l + j + 1 = Len(c) + 1 <=> j = z
    <3>1. l + j + 1 = l + z + 1 <=> j = z
      BY <1>1
    <3> QED BY <1>6, <3>1
  <2>3. \A j : j \in q[a + w[n] + 1] <=> j = Len(c) + 1
    BY <1>3, <2>1
  <2>4. \A j \in 0..z : l + j + 1 \in q[a + w[n - 0] + 1] <=> j \in m[n - 0]
    BY <1>2, <2>1, <2>2, <2>3
  <2> QED BY <1>1, <2>4
<1>8. ASSUME NEW d \in 1..n, d - 1 \in S PROVE d \in S
  <2> DEFINE i == n - d
  <2>1. i \in 0..(n - 1) /\ i + 1 = n - (d - 1) /\ i + 1 \in 0..n
    BY <1>1
  <2>2. \A j \in 0..z : l + j + 1 \in q[a + w[i + 1] + 1] <=> j \in m[i + 1]
    BY <1>8, <2>1
  <2>3. q[a + w[i + 1] + 1] \subseteq 1..(Len(c) + 1) /\ m[i + 1] \subseteq 0..z
    BY <1>2, <1>3, <1>5, <2>1
  <2> HIDE DEF i
  <2>4. ASSUME NEW j \in 0..z PROVE l + j + 1 \in q[a + w[i] + 1] <=> j \in m[i]
    <3>0. l + j + 1 \in 1..(Len(c) + 1) /\ (l + j + 1 \in 1..Len(c) <=> j \in 0..(z - 1))
      BY <1>1, <1>6
    <3>1. CASE p[i + 1] = "*"
      <4>1. l + j + 1 \in q[a + w[i] + 1] <=> \E k \in q[a + w[i + 1] + 1] : l + j + 1 <= k
        BY <1>4, <2>1, <3>0, <3>1 DEF StarBetween, q
      <4>2. j \in m[i] <=> \E k \in m[i + 1] : j <= k
        BY <1>2, <2>1, <3>1
      <4>3. ASSUME NEW k \in q[a + w[i + 1] + 1], l + j + 1 <= k PROVE \E h \in m[i + 1] : j <= h
        <5>1. k - l - 1 \in 0..z /\ l + (k - l - 1) + 1 = k /\ j <= k - l - 1
          BY <1>1, <1>6, <2>3, <4>3, SMTT(20)
        <5>2. k - l - 1 \in m[i + 1]
          BY <2>2, <5>1
        <5> QED BY <5>1, <5>2
      <4>4. ASSUME NEW h \in m[i + 1], j <= h PROVE \E k \in q[a + w[i + 1] + 1] : l + j + 1 <= k
        <5>1. h \in 0..z /\ l + j + 1 <= l + h + 1
          BY <1>1, <2>3, <4>4
        <5>2. l + h + 1 \in q[a + w[i + 1] + 1]
          BY <2>2, <5>1
        <5> QED BY <5>1, <5>2
      <4> QED BY <4>1, <4>2, <4>3, <4>4
    <3>2. CASE p[i + 1] # "*"
      <4>1. j \in m[i] <=> j \in 0..(z - 1) /\ p[i + 1] \in {"?", s[j + 1]} /\ j + 1 \in m[i + 1]
        BY <1>2, <2>1, <3>2
      <4>2. ASSUME j \in 0..(z - 1)
            PROVE  /\ s[j + 1] = c[l + j + 1]
                   /\ l + j + 1 + 1 \in q[a + w[i + 1] + 1] <=> j + 1 \in m[i + 1]
        <5>1. j + 1 \in 1..z /\ j + 1 \in 0..z /\ l + (j + 1) = l + j + 1 /\ l + (j + 1) + 1 = l + j + 1 + 1
          BY <1>1, <4>2
        <5>2. l + (j + 1) + 1 \in q[a + w[i + 1] + 1] <=> j + 1 \in m[i + 1]
          BY <2>2, <5>1
        <5>3. s[j + 1] = c[l + (j + 1)]
          BY <1>6, <5>1
        <5> QED BY <5>1, <5>2, <5>3
      <4>3. CASE p[i + 1] = "?"
        <5>1. l + j + 1 \in q[a + w[i] + 1] <=> l + j + 1 \in 1..Len(c) /\ l + j + 1 + 1 \in q[a + w[i + 1] + 1]
          BY <1>4, <2>1, <3>2, <4>3 DEF AnyBetween, q
        <5> QED BY <3>0, <4>1, <4>2, <4>3, <5>1
      <4>4. CASE p[i + 1] # "?"
        <5>1. l + j + 1 \in q[a + w[i] + 1] <=>
                 l + j + 1 \in 1..Len(c) /\ p[i + 1] = c[l + j + 1] /\ l + j + 1 + 1 \in q[a + w[i + 1] + 1]
          BY <1>4, <2>1, <3>2, <4>4 DEF CharBetween, q
        <5> QED BY <3>0, <4>1, <4>2, <4>4, <5>1
      <4> QED BY <4>3, <4>4
    <3> QED BY <3>1, <3>2
  <2>5. d \in 0..n
    BY <1>1
  <2> QED BY <2>4, <2>5 DEF i
<1>9. n \in S
  <2>1. \A k \in 1..n : k - 1 \in S => k \in S
    BY <1>8
  <2>2. n \in 0..n
    BY <1>1
  <2> HIDE DEF S
  <2> QED BY <1>1, <1>7, <2>1, <2>2, UpTo
<1>10. l + 1 \in q[a + 1] <=> 0 \in m[0]
  <2>1. n - n = 0 /\ 0 \in 0..z /\ l + 0 + 1 = l + 1 /\ a + w[0] + 1 = a + 1
    BY <1>1
  <2>2. l + 0 + 1 \in q[a + w[n - n] + 1] <=> 0 \in m[n - n]
    BY <1>9, <2>1
  <2> QED BY <2>1, <2>2
<1> QED BY <1>10 DEF q, m, Matches

(* The escaped text that begins a glob matches itself only                 *)
(* (redismq/pattern.go, escapeGlob).                                       *)
LEMMA GlobHead ==
    ASSUME NEW g, NEW c, NEW p, NEW w, Len(g) \in Nat, Len(c) \in Nat, Len(p) \in Nat,
           w \in [0..Len(p) -> Nat], w[0] = 0,
           \A i \in 1..Len(p) : Element(g, w[i - 1], w[i], p[i], GlobMeta)
    PROVE  GlobMatches(g, c) <=>
              /\ Len(p) <= Len(c) /\ \A x \in 1..Len(p) : c[x] = p[x]
              /\ Len(p) + 1 \in GlobSuffix(g, c)[w[Len(p)] + 1]
<1> DEFINE n == Len(p)
           q == GlobSuffix(g, c)
           From(k) == k <= Len(c) /\ (\A x \in 1..k : c[x] = p[x]) /\ k + 1 \in q[w[k] + 1]
           S == {k \in 0..n : 1 \in q[1] <=> From(k)}
<1>1. n \in Nat
  OBVIOUS
<1>2. ASSUME NEW k \in 1..n
      PROVE  \A j : j \in q[w[k - 1] + 1] <=>
               j \in 1..Len(c) /\ p[k] = c[j] /\ j + 1 \in q[w[k] + 1]
  <2>1. Element(g, w[k - 1], w[k], p[k], GlobMeta)
    OBVIOUS
  <2>2. "[" \in GlobMeta /\ "\\" \in GlobMeta
    BY DEF GlobMeta
  <2>3. p[k] \in GlobMeta \/ p[k] \notin {"*", "?"}
    BY DEF GlobMeta
  <2>4. CharBetween(g, c, w[k - 1], w[k], p[k])
    BY <2>1, <2>2, <2>3, ElementFacts
  <2> QED BY <2>4 DEF CharBetween
<1> HIDE DEF q, n
<1>3. 0 \in S
  BY <1>1
<1>4. ASSUME NEW k \in 1..n, k - 1 \in S PROVE k \in S
  <2>1. k - 1 + 1 = k /\ k \in 0..n /\ k \in Nat
    BY <1>1
  <2>2. k \in q[w[k - 1] + 1] <=> k \in 1..Len(c) /\ p[k] = c[k] /\ k + 1 \in q[w[k] + 1]
    BY <1>2
  <2>3. From(k - 1) <=> From(k)
    <3>1. ASSUME From(k - 1) PROVE From(k)
      <4>1. k \in 1..Len(c) /\ p[k] = c[k] /\ k + 1 \in q[w[k] + 1]
        BY <2>1, <2>2, <3>1
      <4>2. \A x \in 1..k : x = k \/ x \in 1..(k - 1)
        OBVIOUS
      <4> QED BY <3>1, <4>1, <4>2
    <3>2. ASSUME From(k) PROVE From(k - 1)
      <4>1. k \in 1..Len(c) /\ p[k] = c[k] /\ k - 1 <= Len(c)
        BY <2>1, <3>2
      <4>2. k \in q[w[k - 1] + 1]
        BY <2>2, <3>2, <4>1
      <4>3. \A x \in 1..(k - 1) : c[x] = p[x]
        BY <3>2
      <4> QED BY <2>1, <4>1, <4>2, <4>3
    <3> QED BY <3>1, <3>2
  <2> QED BY <1>4, <2>1, <2>3
<1>5. n \in S
  <2>1. \A k \in 1..n : k - 1 \in S => k \in S
    BY <1>4
  <2>2. n \in 0..n
    BY <1>1
  <2> HIDE DEF S
  <2> QED BY <1>1, <1>3, <2>1, <2>2, UpTo
<1> QED BY <1>5 DEF q, n, GlobMatches

Glyphs == Chars \cup {":", ".", "\\"}

(* StartsWith, character by character.                                     *)
LEMMA Starting ==
    ASSUME NEW c \in Seq(Glyphs), NEW q \in Seq(Glyphs)
    PROVE  StartsWith(c, q) <=> Len(q) <= Len(c) /\ \A x \in 1..Len(q) : c[x] = q[x]
<1>1. Len(q) \in Nat /\ Len(c) \in Nat
  OBVIOUS
<1>2. CASE Len(q) <= Len(c)
  <2>1. /\ SubSeq(c, 1, Len(q)) \in Seq(Glyphs) /\ Len(SubSeq(c, 1, Len(q))) = Len(q)
        /\ \A x \in 1..Len(q) : SubSeq(c, 1, Len(q))[x] = c[x]
    BY <1>1, <1>2
  <2>2. SubSeq(c, 1, Len(q)) = q <=> \A x \in 1..Len(q) : c[x] = q[x]
    BY <2>1
  <2> QED BY <1>2, <2>2 DEF StartsWith
<1>3. CASE ~(Len(q) <= Len(c))
  BY <1>3 DEF StartsWith
<1> QED BY <1>2, <1>3

(* The glob of PSUBSCRIBE matches the channels under the prefix whose      *)
(* subject the pattern matches, and no others: the translation neither     *)
(* narrows nor widens the pattern.                                         *)
LEMMA GlobMeaning ==
    ASSUME NEW q \in Seq(Glyphs), NEW p \in Seq(Glyphs), NEW c \in Seq(Glyphs)
    PROVE  /\ GlobMatches(escapeGlob(q) \o toRedisPattern(p), c) <=>
                 StartsWith(c, q) /\ Matches(p, SubSeq(c, Len(q) + 1, Len(c)))
           /\ q # <<>> => escapeGlob(q) \o toRedisPattern(p) # <<>>
<1> DEFINE u == escapeGlob(q)
           v == toRedisPattern(p)
           g == u \o v
           s == SubSeq(c, Len(q) + 1, Len(c))
<1>1. u \in Seq(Glyphs) /\ \E w : Coded(w, q, GlobMeta)
  BY EscapeFacts DEF Glyphs, escapeGlob, GlobMeta
<1>2. v \in Seq(Glyphs) /\ \E w : Coded(w, p, ClassMeta)
  BY EscapeFacts DEF Glyphs, toRedisPattern, ClassMeta
<1>3. PICK h : Coded(h, q, GlobMeta)
  BY <1>1
<1>4. PICK t : Coded(t, p, ClassMeta)
  BY <1>2
<1>5. /\ h \in [0..Len(q) -> Nat] /\ h[0] = 0 /\ h[Len(q)] = Len(u)
      /\ \A i \in 1..Len(q) : Element(u, h[i - 1], h[i], q[i], GlobMeta)
  BY <1>3 DEF Coded, escapeGlob, GlobMeta
<1>6. /\ t \in [0..Len(p) -> Nat] /\ t[0] = 0 /\ t[Len(p)] = Len(v)
      /\ \A i \in 1..Len(p) : Element(v, t[i - 1], t[i], p[i], ClassMeta)
  BY <1>4 DEF Coded, toRedisPattern, ClassMeta
<1> HIDE DEF u, v
<1>7. g \in Seq(Glyphs) /\ Len(g) = Len(u) + Len(v) /\ Len(u) \in Nat /\ Len(v) \in Nat /\ Len(g) \in Nat
  BY <1>1, <1>2, Appending
<1>8. \A i \in 1..Len(q) : Element(g, h[i - 1], h[i], q[i], GlobMeta)
  BY <1>1, <1>2, <1>5, ElementInside
<1>9. \A i \in 1..Len(p) : Element(g, Len(u) + t[i - 1], Len(u) + t[i], p[i], ClassMeta)
  BY <1>1, <1>2, <1>6, ElementInside
<1> HIDE DEF g
<1>10. Len(q) \in Nat /\ Len(p) \in Nat /\ Len(c) \in Nat
  OBVIOUS
<1>11. GlobMatches(g, c) <=> /\ Len(q) <= Len(c) /\ \A x \in 1..Len(q) : c[x] = q[x]
                             /\ Len(q) + 1 \in GlobSuffix(g, c)[Len(u) + 1]
  <2>1. GlobMatches(g, c) <=> /\ Len(q) <= Len(c) /\ \A x \in 1..Len(q) : c[x] = q[x]
                              /\ Len(q) + 1 \in GlobSuffix(g, c)[h[Len(q)] + 1]
    BY <1>5, <1>7, <1>8, <1>10, GlobHead
  <2> QED BY <1>5, <2>1
<1>12. StartsWith(c, q) <=> Len(q) <= Len(c) /\ \A x \in 1..Len(q) : c[x] = q[x]
  BY Starting
<1>13. ASSUME Len(q) <= Len(c)
       PROVE  Len(q) + 1 \in GlobSuffix(g, c)[Len(u) + 1] <=> Matches(p, s)
  <2>1. Len(s) = Len(c) - Len(q) /\ Len(s) \in Nat /\ Len(c) = Len(q) + Len(s)
    BY <1>10, <1>13
  <2>2. \A x \in 1..Len(s) : s[x] = c[Len(q) + x]
    BY <1>10, <1>13, <2>1
  <2>3. Len(u) + t[Len(p)] = Len(g)
    BY <1>6, <1>7
  <2> HIDE DEF s
  <2>4. t \in [0..Len(p) -> Nat] /\ t[0] = 0
    BY <1>6
  <2>5. Ends(g, c, p, s, t, Len(q), Len(u))
    BY <1>7, <1>9, <1>10, <2>1, <2>2, <2>3, <2>4 DEF Ends
  <2> QED BY <2>5, GlobTail
<1>14. q # <<>> => g # <<>>
  <2>1. ASSUME q # <<>> PROVE Len(g) # 0
    <3>1. Len(q) \in 1..Len(q)
      BY <2>1
    <3>2. Element(g, h[Len(q) - 1], h[Len(q)], q[Len(q)], GlobMeta)
      BY <1>8, <3>1
    <3> QED BY <1>7, <3>2 DEF Element
  <2> QED BY <2>1
<1> QED BY <1>11, <1>12, <1>13, <1>14 DEF g, u, v

-----------------------------------------------------------------------------
(***************************************************************************)
(* One service, its subscriptions and one message.                         *)
(***************************************************************************)
(* A pattern is text that a glob may hold.                                 *)
LEMMA CharsAreGlyphs ==
    ASSUME NEW s \in Seq(Chars) PROVE s \in Seq(Glyphs)
<1>1. Len(s) \in Nat /\ s \in [1..Len(s) -> Chars]
  OBVIOUS
<1>2. s \in [1..Len(s) -> Glyphs]
  BY <1>1 DEF Glyphs
<1> QED BY <1>1, <1>2

\* What a service publishes, on either broker.
Joined(r, c, s) == Under(r, c) \o s

(* What a service publishes is its prefix, a separator and the subject,    *)
(* and gives both back (redismq/pattern.go:84, natsmq/subject.go:112).     *)
LEMMA JoinedFacts ==
    ASSUME NEW r \in Seq(Chars), NEW s \in Seq(Chars), NEW c \in {":", "."}
    PROVE  /\ Under(r, c) \in Seq(Glyphs) /\ Under(r, c) # <<>> /\ Len(Under(r, c)) = Len(r) + 1
           /\ Joined(r, c, s) \in Seq(Glyphs)
           /\ StartsWith(Joined(r, c, s), Under(r, c))
           /\ SubSeq(Joined(r, c, s), Len(r) + 2, Len(Joined(r, c, s))) = s
<1> DEFINE h == Under(r, c)
           j == Joined(r, c, s)
<1>1. r \in Seq(Glyphs) /\ s \in Seq(Glyphs) /\ <<c>> \in Seq(Glyphs)
  BY CharsAreGlyphs DEF Glyphs
<1>2. h \in Seq(Glyphs) /\ Len(h) = Len(r) + 1
  BY <1>1, Appending DEF Under
<1>3. j = h \o s
  BY DEF Joined
<1> HIDE DEF h, j
<1>4. /\ j \in Seq(Glyphs) /\ Len(j) = Len(h) + Len(s)
      /\ \A x \in 1..Len(h) : j[x] = h[x]
      /\ \A x \in 1..Len(s) : j[Len(h) + x] = s[x]
  <2>1. /\ h \o s \in Seq(Glyphs) /\ Len(h \o s) = Len(h) + Len(s)
        /\ \A x \in 1..Len(h) : (h \o s)[x] = h[x]
        /\ \A x \in 1..Len(s) : (h \o s)[Len(h) + x] = s[x]
    <3>1. h \o s \in Seq(Glyphs) /\ Len(h \o s) = Len(h) + Len(s)
      BY <1>1, <1>2
    <3>2. \A x \in 1..Len(h) : (h \o s)[x] = h[x]
      BY <1>1, <1>2
    <3>3. \A x \in 1..Len(s) : (h \o s)[Len(h) + x] = s[x]
      BY <1>1, <1>2
    <3> QED BY <3>1, <3>2, <3>3
  <2> QED BY <1>3, <2>1
<1>5. Len(h) \in Nat /\ Len(s) \in Nat /\ Len(r) \in Nat
  BY <1>1, <1>2
<1>6. StartsWith(j, h)
  <2>1. j \in Seq(Glyphs) /\ h \in Seq(Glyphs)
    BY <1>2, <1>4
  <2>2. Len(h) <= Len(j) /\ \A x \in 1..Len(h) : j[x] = h[x]
    BY <1>4, <1>5
  <2> QED BY <2>1, <2>2, Starting
<1>7. SubSeq(j, Len(r) + 2, Len(j)) = s
  <2> DEFINE t == SubSeq(j, Len(h) + 1, Len(j))
  <2>1. t \in Seq(Glyphs) /\ Len(t) = Len(s)
    BY <1>4, <1>5
  <2>2. ASSUME NEW x \in 1..Len(s) PROVE t[x] = s[x]
    <3>1. t[x] = j[Len(h) + 1 + x - 1]
      BY <1>4, <1>5, <2>1
    <3>2. Len(h) + 1 + x - 1 = Len(h) + x
      BY <1>5
    <3> QED BY <1>4, <3>1, <3>2
  <2> HIDE DEF t
  <2>3. t = s
    BY <1>1, <2>1, <2>2
  <2>4. Len(r) + 2 = Len(h) + 1
    BY <1>2, <1>5
  <2> QED BY <2>3, <2>4 DEF t
<1>8. h # <<>>
  BY <1>2, <1>5
<1> QED BY <1>2, <1>4, <1>6, <1>7, <1>8 DEF h, j

(* Where neither prefix begins the other, nothing is published under both. *)
LEMMA ForeignJoined ==
    ASSUME NEW r \in Seq(Chars), NEW o \in Seq(Chars), NEW s \in Seq(Chars), NEW c \in {":", "."},
           r # o, ~StartsWith(r, Under(o, c)), ~StartsWith(o, Under(r, c))
    PROVE  ~StartsWith(Joined(o, c, s), Under(r, c))
<1> DEFINE j == Joined(o, c, s)
           h == Under(r, c)
           k == Under(o, c)
<1>0. SUFFICES ASSUME StartsWith(j, h) PROVE FALSE
  OBVIOUS
<1>1. Len(r) \in Nat /\ Len(o) \in Nat /\ Len(h) = Len(r) + 1 /\ Len(k) = Len(o) + 1
  <2>1. Len(r) \in Nat /\ Len(o) \in Nat
    OBVIOUS
  <2>2. Len(h) = Len(r) + 1
    BY JoinedFacts
  <2>3. Len(k) = Len(o) + 1
    BY JoinedFacts
  <2> QED BY <2>1, <2>2, <2>3
<1>2. /\ j \in Seq(Glyphs) /\ h \in Seq(Glyphs) /\ k \in Seq(Glyphs)
      /\ StartsWith(j, k) /\ r \in Seq(Glyphs) /\ o \in Seq(Glyphs)
  BY JoinedFacts, CharsAreGlyphs
<1>3. /\ \A x \in 1..Len(r) : h[x] = r[x]
      /\ \A x \in 1..Len(o) : k[x] = o[x]
      /\ <<c>> \in Seq(Glyphs)
  <2>1. <<c>> \in Seq(Glyphs)
    BY DEF Glyphs
  <2> QED BY <1>2, <2>1, Appending DEF Under
<1> HIDE DEF j, h, k
<1>4. /\ Len(h) <= Len(j) /\ Len(k) <= Len(j)
      /\ \A x \in 1..Len(h) : j[x] = h[x]
      /\ \A x \in 1..Len(k) : j[x] = k[x]
  BY <1>0, <1>2, Starting
<1>5. CASE Len(r) = Len(o)
  <2>1. \A x \in 1..Len(r) : r[x] = o[x]
    BY <1>1, <1>3, <1>4, <1>5
  <2>2. r = o
    BY <1>5, <2>1
  <2> QED BY <2>2
<1>6. CASE Len(r) < Len(o)
  <2>1. Len(h) <= Len(o) /\ \A x \in 1..Len(h) : o[x] = h[x]
    <3>1. Len(h) <= Len(o)
      BY <1>1, <1>6
    <3>2. ASSUME NEW x \in 1..Len(h) PROVE o[x] = h[x]
      <4>1. x \in 1..Len(o) /\ x \in 1..Len(k)
        BY <1>1, <3>1
      <4> QED BY <1>3, <1>4, <4>1
    <3> QED BY <3>1, <3>2
  <2>2. StartsWith(o, h)
    BY <1>2, <2>1, Starting
  <2> QED BY <2>2 DEF h
<1>7. CASE Len(o) < Len(r)
  <2>1. Len(k) <= Len(r) /\ \A x \in 1..Len(k) : r[x] = k[x]
    <3>1. Len(k) <= Len(r)
      BY <1>1, <1>7
    <3>2. ASSUME NEW x \in 1..Len(k) PROVE r[x] = k[x]
      <4>1. x \in 1..Len(r) /\ x \in 1..Len(h)
        BY <1>1, <3>1
      <4> QED BY <1>3, <1>4, <4>1
    <3> QED BY <3>1, <3>2
  <2>2. StartsWith(r, k)
    BY <1>2, <2>1, Starting
  <2> QED BY <2>2 DEF k
<1> QED BY <1>1, <1>5, <1>6, <1>7

Count(b) == IF b THEN 1 ELSE 0
Due == /\ message.by = prefix
       /\ Covered(message.subject) \/ (broker # "redis" /\ Wild # {})
Waiting == \E d \in copies : Accepts(d)
Single == \A d, e \in copies : Accepts(d) /\ Accepts(e) => d = e
Apart == SeparateServices \/ message.by = prefix
PlanOf == CASE broker = "redis" -> newPlan
            [] broker = "nats" -> subjectPlan
            [] broker = "rabbit" -> planBindings

Listening == /\ broker \in {"redis", "nats", "rabbit"}
             /\ prefix \in Services /\ patterns \in PatternLists
Handling == phase \in {"up", "message", "reply"}

SubsInv ==
    /\ phase \in {"new", "refused", "up", "message", "reply"}
    /\ message = [channel |-> message.channel, subject |-> message.subject, by |-> message.by]
    /\ phase # "refused" => Listening
    /\ Handling => (\A i \in DOMAIN patterns : Valid(patterns[i])) /\ plan = PlanOf
    /\ phase \in {"new", "refused", "up"} => handled = 0 /\ copies = {}
    /\ phase # "reply" => echoed = 0
    /\ phase = "message" =>
          handled \in Nat /\ (Apart => Single /\ handled + Count(Waiting) = Count(Due))
    /\ phase = "reply" =>
          /\ broker = "redis" /\ (Apart => handled = 1 /\ Due)
          /\ Single /\ echoed \in Nat
          /\ echoed + Count(Waiting) = Count(Covered(ReplyNamespace \o ClientId))

(* What the constants say of a listening service.                          *)
LEMMA PatternFacts ==
    ASSUME SubscriptionsAssumption, Listening
    PROVE  /\ prefix \in Seq(Chars)
           /\ \A i \in DOMAIN patterns : patterns[i] \in Seq(Chars)
           /\ DOMAIN patterns \subseteq Nat
<1>1. prefix \in Seq(Chars) /\ patterns \in Seq(Seq(Chars))
  BY DEF SubscriptionsAssumption, Listening
<1> QED BY <1>1

(* The same of a Redis channel.                                            *)
LEMMA ChannelFacts ==
    ASSUME NEW r \in Seq(Chars), NEW s \in Seq(Chars)
    PROVE  /\ Under(r, ":") \in Seq(Glyphs) /\ Under(r, ":") # <<>>
           /\ Len(Under(r, ":")) = Len(r) + 1
           /\ ChannelOf(r, s) \in Seq(Glyphs)
           /\ StartsWith(ChannelOf(r, s), Under(r, ":"))
           /\ SubSeq(ChannelOf(r, s), Len(r) + 2, Len(ChannelOf(r, s))) = s
<1>1. ChannelOf(r, s) = Joined(r, ":", s)
  BY DEF ChannelOf, Joined
<1> DEFINE c == ":"
<1>2. c \in {":", "."}
  OBVIOUS
<1> HIDE DEF c
<1>3. /\ Under(r, c) \in Seq(Glyphs) /\ Under(r, c) # <<>> /\ Len(Under(r, c)) = Len(r) + 1
      /\ Joined(r, c, s) \in Seq(Glyphs)
      /\ StartsWith(Joined(r, c, s), Under(r, c))
      /\ SubSeq(Joined(r, c, s), Len(r) + 2, Len(Joined(r, c, s))) = s
  BY <1>2, JoinedFacts
<1> QED BY <1>1, <1>3, Zenon DEF c

(* Of the deliveries of one message that Redis makes to a service under    *)
(* its own prefix, accept takes exactly one when a pattern matches,        *)
(* however many globs do (redismq/pattern.go:158-206).                     *)
LEMMA RedisCopiesOwn ==
    ASSUME SubscriptionsAssumption, Listening, plan = newPlan, NEW s \in Seq(Chars)
    PROVE  LET c == ChannelOf(prefix, s)
           IN  /\ \A d, e \in RedisCopies(c) : accept(d, c) /\ accept(e, c) => d = e
               /\ (\E d \in RedisCopies(c) : accept(d, c)) <=> Covered(s)
<1> DEFINE c == ChannelOf(prefix, s)
           hits == {i \in Wild : Matches(patterns[i], s)}
<1>1. /\ prefix \in Seq(Chars) /\ DOMAIN patterns \subseteq Nat
      /\ \A i \in DOMAIN patterns : patterns[i] \in Seq(Chars)
  BY PatternFacts
<1>2. /\ c \in Seq(Glyphs) /\ Under(prefix, ":") \in Seq(Glyphs) /\ Under(prefix, ":") # <<>>
      /\ Len(Under(prefix, ":")) = Len(prefix) + 1
      /\ StartsWith(c, Under(prefix, ":")) /\ SubSeq(c, Len(prefix) + 2, Len(c)) = s
  BY <1>1, ChannelFacts
<1>3. Len(Under(prefix, ":")) + 1 = Len(prefix) + 2
  BY <1>1, <1>2
<1>4. ASSUME NEW i \in DOMAIN patterns
      PROVE  GlobOf(patterns[i]) # <<>> /\ (GlobMatches(GlobOf(patterns[i]), c) <=> Matches(patterns[i], s))
  <2>1. patterns[i] \in Seq(Glyphs)
    BY <1>1, CharsAreGlyphs
  <2>2. GlobOf(patterns[i]) = escapeGlob(Under(prefix, ":")) \o toRedisPattern(patterns[i])
    BY DEF GlobOf
  <2>3. /\ GlobMatches(GlobOf(patterns[i]), c) <=>
             /\ StartsWith(c, Under(prefix, ":"))
             /\ Matches(patterns[i], SubSeq(c, Len(Under(prefix, ":")) + 1, Len(c)))
        /\ GlobOf(patterns[i]) # <<>>
    BY <1>2, <2>1, <2>2, GlobMeaning
  <2> QED BY <1>2, <1>3, <2>3
<1>5. c \in plan.channels <=> \E i \in Literals : patterns[i] = s
  <2>1. c \in plan.channels <=> \E i \in Literals : ChannelOf(prefix, patterns[i]) = c
    BY DEF newPlan
  <2>2. ASSUME NEW i \in Literals, ChannelOf(prefix, patterns[i]) = c PROVE patterns[i] = s
    <3>1. patterns[i] \in Seq(Chars)
      BY <1>1 DEF Literals
    <3>2. SubSeq(ChannelOf(prefix, patterns[i]), Len(prefix) + 2, Len(ChannelOf(prefix, patterns[i]))) = patterns[i]
      BY <1>1, <3>1, ChannelFacts
    <3> QED BY <1>2, <2>2, <3>2
  <2> QED BY <2>1, <2>2
<1>6. \A d : d \in RedisCopies(c) <=>
           \/ d = <<>> /\ c \in plan.channels
           \/ \E i \in hits : d = GlobOf(patterns[i])
  <2>1. plan.globs = {GlobOf(patterns[i]) : i \in Wild}
    BY DEF newPlan
  <2>2. \A i \in Wild : GlobMatches(GlobOf(patterns[i]), c) <=> i \in hits
    BY <1>4 DEF Wild
  <2> QED BY <2>1, <2>2 DEF RedisCopies
<1>7. Covered(s) <=> (\E i \in Literals : patterns[i] = s) \/ hits # {}
  <2>1. \A i \in Literals : Matches(patterns[i], s) <=> patterns[i] = s
    BY <1>1, LiteralMatches DEF Literals
  <2>2. DOMAIN patterns = Literals \cup Wild
    BY DEF Literals, Wild
  <2> QED BY <2>1, <2>2 DEF Covered
<1>8. \A d : accept(d, c) <=>
           IF c \in plan.channels THEN d = <<>>
           ELSE \/ d = <<>>
                \/ hits = {}
                \/ \E i \in hits : (\A k \in hits : i <= k) /\ GlobOf(patterns[i]) = d
  BY <1>2 DEF accept
<1>9. hits \subseteq Nat /\ \A i \in hits : GlobOf(patterns[i]) # <<>>
  BY <1>1, <1>4 DEF Wild
<1> HIDE DEF c, hits
<1>10. CASE c \in plan.channels
  <2>1. \A d : accept(d, c) <=> d = <<>>
    BY <1>8, <1>10
  <2>2. <<>> \in RedisCopies(c)
    BY <1>6, <1>10
  <2>3. Covered(s)
    BY <1>5, <1>7, <1>10
  <2>4. \A d, e \in RedisCopies(c) : accept(d, c) /\ accept(e, c) => d = e
    BY <2>1
  <2>5. (\E d \in RedisCopies(c) : accept(d, c)) <=> Covered(s)
    BY <2>1, <2>2, <2>3
  <2> QED BY <2>4, <2>5 DEF c
<1>11. CASE c \notin plan.channels
  <2>1. \A d \in RedisCopies(c) : d # <<>> /\ hits # {}
    BY <1>6, <1>9, <1>11
  <2>2. \A d \in RedisCopies(c) :
          accept(d, c) <=> \E i \in hits : (\A k \in hits : i <= k) /\ GlobOf(patterns[i]) = d
    BY <1>8, <1>11, <2>1
  <2>3. \A i, j \in hits : (\A k \in hits : i <= k) /\ (\A k \in hits : j <= k) => i = j
    BY <1>9
  <2>4. \A d, e \in RedisCopies(c) : accept(d, c) /\ accept(e, c) => d = e
    BY <2>2, <2>3
  <2>5. hits # {} => \E d \in RedisCopies(c) : accept(d, c)
    <3>1. ASSUME hits # {} PROVE \E d \in RedisCopies(c) : accept(d, c)
      <4>1. PICK i \in hits : \A k \in hits : i <= k
        BY <1>9, <3>1, LeastElement
      <4>2. GlobOf(patterns[i]) \in RedisCopies(c)
        BY <1>6
      <4> QED BY <2>2, <4>1, <4>2
    <3> QED BY <3>1
  <2>6. (\E d \in RedisCopies(c) : accept(d, c)) <=> Covered(s)
    BY <1>5, <1>7, <1>11, <2>1, <2>5
  <2> QED BY <2>4, <2>6 DEF c
<1> QED BY <1>10, <1>11

(* Redis delivers nothing of what is published under another prefix.       *)
LEMMA RedisCopiesForeign ==
    ASSUME SubscriptionsAssumption, Listening, plan = newPlan, SeparateServices,
           NEW o \in Services, o # prefix, NEW s \in Seq(Chars)
    PROVE  RedisCopies(ChannelOf(o, s)) = {}
<1> DEFINE c == ChannelOf(o, s)
<1>1. /\ prefix \in Seq(Chars) /\ o \in Seq(Chars) /\ prefix \in Services
      /\ \A i \in DOMAIN patterns : patterns[i] \in Seq(Chars)
  BY PatternFacts DEF Listening, SubscriptionsAssumption
<1>2. ~StartsWith(c, Under(prefix, ":"))
  <2>1. ~StartsWith(prefix, Under(o, ":")) /\ ~StartsWith(o, Under(prefix, ":"))
    BY <1>1 DEF SeparateServices
  <2>2. c = Joined(o, ":", s)
    BY DEF ChannelOf, Joined
  <2> QED BY <1>1, <2>1, <2>2, ForeignJoined
<1>3. c \in Seq(Glyphs) /\ Under(prefix, ":") \in Seq(Glyphs)
  BY <1>1, ChannelFacts
<1>4. c \notin plan.channels
  <2>1. \A i \in Literals : ChannelOf(prefix, patterns[i]) # c
    <3>1. \A i \in Literals : StartsWith(ChannelOf(prefix, patterns[i]), Under(prefix, ":"))
      BY <1>1, ChannelFacts DEF Literals
    <3> HIDE DEF c
    <3> QED BY <1>2, <3>1
  <2> QED BY <2>1 DEF newPlan
<1>5. ASSUME NEW g \in plan.globs PROVE ~GlobMatches(g, c)
  <2>1. PICK i \in Wild : g = GlobOf(patterns[i])
    BY DEF newPlan
  <2>2. patterns[i] \in Seq(Glyphs)
    BY <1>1, CharsAreGlyphs DEF Wild
  <2>3. GlobOf(patterns[i]) = escapeGlob(Under(prefix, ":")) \o toRedisPattern(patterns[i])
    BY DEF GlobOf
  <2>4. GlobMatches(g, c) => StartsWith(c, Under(prefix, ":"))
    BY <1>3, <2>1, <2>2, <2>3, GlobMeaning
  <2> QED BY <1>2, <2>4
<1> QED BY <1>4, <1>5 DEF RedisCopies

(* Without a wildcard the plan is the literals, which match themselves     *)
(* only; with one it is the catch-all (natsmq/subject.go:57-68,            *)
(* rabbitmq/routing.go:67-117).                                            *)
LEMMA LiteralPlan ==
    ASSUME SubscriptionsAssumption, Listening, NEW all, plan = CatchAllOrLiterals(all),
           \A i \in DOMAIN patterns : ~InSeq(all, patterns[i])
    PROVE  /\ Wild # {} => plan = {<<all>>}
           /\ Wild = {} => /\ <<all>> \notin plan /\ plan \subseteq Seq(Chars)
                           /\ \A s \in Seq(Chars) : s \in plan <=> Covered(s)
<1>1. CASE Wild # {}
  BY <1>1 DEF CatchAllOrLiterals
<1>2. CASE Wild = {}
  <2>1. plan = {patterns[i] : i \in Literals} /\ Literals = DOMAIN patterns
    BY <1>2 DEF CatchAllOrLiterals, Wild, Literals
  <2>2. \A i \in DOMAIN patterns : patterns[i] \in Seq(Chars) /\ ~IsWildcard(patterns[i])
    BY <2>1, PatternFacts DEF Literals
  <2>3. <<all>> \notin plan
    <3>1. InSeq(all, <<all>>)
      BY DEF InSeq
    <3> QED BY <2>1, <3>1
  <2>4. ASSUME NEW s \in Seq(Chars) PROVE s \in plan <=> Covered(s)
    <3>1. \A i \in DOMAIN patterns : Matches(patterns[i], s) <=> patterns[i] = s
      BY <2>2, LiteralMatches
    <3> QED BY <2>1, <3>1 DEF Covered
  <2>5. plan \subseteq Seq(Chars)
    BY <2>1, <2>2
  <2> QED BY <1>2, <2>3, <2>4, <2>5
<1> QED BY <1>1, <1>2

(* NATS delivers one copy, to the subject of the literal or to the         *)
(* catch-all, and none of what is published under a prefix that does not   *)
(* nest with the service's (natsmq/subject.go:102-124).                    *)
LEMMA NatsDelivers ==
    ASSUME SubscriptionsAssumption, Listening, plan = subjectPlan,
           \A i \in DOMAIN patterns : validatePattern(patterns[i]),
           NEW o \in Services, SeparateServices \/ o = prefix, NEW s \in Seq(Chars)
    PROVE  LET own == NatsCopies(SubjectOf(o, s))
           IN  /\ \A d, e \in own : d = e
               /\ own # {} <=> o = prefix /\ (Covered(s) \/ Wild # {})
<1> DEFINE own == NatsCopies(SubjectOf(o, s))
<1>1. prefix \in Seq(Chars) /\ o \in Seq(Chars) /\ prefix \in Services
  BY PatternFacts DEF Listening, SubscriptionsAssumption
<1>2. /\ Wild # {} => plan = {<<">">>}
      /\ Wild = {} => /\ <<">">> \notin plan /\ plan \subseteq Seq(Chars)
                      /\ \A t \in Seq(Chars) : t \in plan <=> Covered(t)
  BY LiteralPlan DEF validatePattern, subjectPlan
<1>3. \A r, t : SubjectOf(r, t) = Joined(r, ".", t)
  BY DEF SubjectOf, Joined
<1>4. CASE o = prefix
  <2>1. StartsWith(SubjectOf(o, s), Under(prefix, "."))
    BY <1>1, <1>3, <1>4, JoinedFacts
  <2>2. \A k \in Seq(Chars) : SubjectOf(prefix, k) = SubjectOf(o, s) <=> k = s
    <3>1. ASSUME NEW k \in Seq(Chars), SubjectOf(prefix, k) = SubjectOf(o, s) PROVE k = s
      <4>1. SubSeq(Joined(prefix, ".", k), Len(prefix) + 2, Len(Joined(prefix, ".", k))) = k
        BY <1>1, JoinedFacts
      <4>2. SubSeq(Joined(prefix, ".", s), Len(prefix) + 2, Len(Joined(prefix, ".", s))) = s
        BY <1>1, JoinedFacts
      <4> QED BY <1>3, <1>4, <3>1, <4>1, <4>2
    <3> QED BY <1>4, <3>1
  <2>3. CASE Wild # {}
    <3>1. own = {<<">">>}
      BY <1>2, <2>1, <2>3 DEF NatsCopies
    <3> QED BY <1>4, <2>3, <3>1
  <2>4. CASE Wild = {}
    <3>1. \A k : k \in own <=> k = s /\ Covered(s)
      BY <1>2, <2>2, <2>4 DEF NatsCopies
    <3> HIDE DEF own
    <3>2. \A d, e \in own : d = e
      BY <3>1
    <3>3. CASE Covered(s)
      <4>1. s \in own
        BY <3>1, <3>3
      <4> QED BY <1>4, <2>4, <3>2, <3>3, <4>1 DEF own
    <3>4. CASE ~Covered(s)
      <4>1. own = {}
        BY <3>1, <3>4
      <4> QED BY <1>4, <2>4, <3>4, <4>1 DEF own
    <3> QED BY <3>3, <3>4
  <2> QED BY <2>3, <2>4
<1>5. CASE o # prefix
  <2>1. ~StartsWith(Joined(o, ".", s), Under(prefix, "."))
    <3>1. ~StartsWith(prefix, Under(o, ".")) /\ ~StartsWith(o, Under(prefix, "."))
      BY <1>1, <1>5 DEF SeparateServices
    <3> QED BY <1>1, <1>5, <3>1, ForeignJoined
  <2>2. \A k \in Seq(Chars) : Joined(prefix, ".", k) # Joined(o, ".", s)
    <3>1. \A k \in Seq(Chars) : StartsWith(Joined(prefix, ".", k), Under(prefix, "."))
      BY <1>1, JoinedFacts
    <3> QED BY <2>1, <3>1
  <2>3. \A k \in plan : k = <<">">> \/ k \in Seq(Chars)
    BY <1>2
  <2>4. own = {}
    BY <1>3, <2>1, <2>2, <2>3 DEF NatsCopies
  <2> QED BY <1>5, <2>4
<1> QED BY <1>4, <1>5

(* RabbitMQ puts a message in the queue at most once, when the exchange is *)
(* the service's own (rabbitmq/routing.go:38-47).                          *)
LEMMA RabbitDelivers ==
    ASSUME SubscriptionsAssumption, Listening, plan = planBindings,
           \A i \in DOMAIN patterns : validKey(patterns[i]), NEW o, NEW s \in Seq(Chars)
    PROVE  LET own == RabbitCopies(o, s)
           IN  /\ \A d, e \in own : d = e
               /\ own # {} <=> o = prefix /\ (Covered(s) \/ Wild # {})
<1>1. /\ Wild # {} => plan = {<<"#">>}
      /\ Wild = {} => <<"#">> \notin plan /\ (s \in plan <=> Covered(s))
  BY LiteralPlan DEF validKey, planBindings
<1>2. plan \cap {s, <<"#">>} # {} <=> Covered(s) \/ Wild # {}
  BY <1>1
<1> QED BY <1>2 DEF RabbitCopies

(* The subscriptions start in their invariant.                             *)
LEMMA SubsStart == ASSUME SubsInit \/ NoService PROVE SubsInv
<1>1. CASE SubsInit
  <2>1. message = [channel |-> message.channel, subject |-> message.subject, by |-> message.by]
    BY <1>1 DEF SubsInit
  <2> QED BY <1>1, <2>1 DEF SubsInit, SubsInv, Listening, Handling
<1>2. CASE NoService
  <2>1. message = [channel |-> message.channel, subject |-> message.subject, by |-> message.by]
    BY <1>2 DEF NoService
  <2> QED BY <1>2, <2>1 DEF NoService, SubsInv, Listening, Handling
<1> QED BY <1>1, <1>2

(* Listening: every pattern is validated, then the plan is made.           *)
LEMMA ListenKeeps == ASSUME SubsInv, Listen PROVE SubsInv'
<1> USE DEF SubsInv, Listen, Handling
<1>1. Listening /\ Listening' /\ phase = "new" /\ phase' \in {"refused", "up"}
  BY DEF Listening
<1>2. (\A i \in DOMAIN patterns : Valid(patterns[i]))' <=> \A i \in DOMAIN patterns : Valid(patterns[i])
  BY DEF Valid
<1>3. phase' = "up" => plan' = PlanOf'
  BY <1>1 DEF PlanOf, newPlan, subjectPlan, planBindings, CatchAllOrLiterals, Literals, Wild, GlobOf
<1> QED BY <1>1, <1>2, <1>3

(* The deliveries of a new message hold one that will be accepted when the *)
(* message is due, and none otherwise.                                     *)
LEMMA PublishKeeps ==
    ASSUME SubscriptionsAssumption, SubsInv, NEW service \in Services, NEW s \in Published,
           Publish(service, s)
    PROVE  SubsInv'
<1>1. /\ phase = "up" /\ phase' = "message" /\ Listening /\ plan = PlanOf
      /\ \A i \in DOMAIN patterns : Valid(patterns[i])
      /\ handled = 0 /\ echoed = 0 /\ handled' = 0 /\ echoed' = 0
      /\ s \in Seq(Chars)
  BY DEF SubsInv, Publish, Handling, SubscriptionsAssumption
<1>2. UNCHANGED <<broker, prefix, patterns, plan>>
  BY DEF Publish
<1>3. message' = [channel |-> IF broker = "redis" THEN ChannelOf(service, s) ELSE s,
                  subject |-> s, by |-> service]
  BY DEF Publish
<1>4. message'.subject = s /\ message'.by = service
      /\ (broker = "redis" => message'.channel = ChannelOf(service, s))
  BY <1>3
<1>5. message' = [channel |-> message'.channel, subject |-> message'.subject, by |-> message'.by]
  BY <1>3
<1>6. Listening' /\ Wild' = Wild /\ PlanOf' = PlanOf
      /\ (\A i \in DOMAIN patterns : Valid(patterns[i]))'
      /\ (Covered(s))' = Covered(s)
  <2>1. Listening' /\ Wild' = Wild /\ (Covered(s))' = Covered(s)
    BY <1>1, <1>2 DEF Listening, Wild, Literals, Covered
  <2>2. PlanOf' = PlanOf
    BY <1>2 DEF PlanOf, newPlan, subjectPlan, planBindings, CatchAllOrLiterals, Literals, Wild, GlobOf
  <2>3. (\A i \in DOMAIN patterns : Valid(patterns[i]))'
    BY <1>1, <1>2 DEF Valid
  <2> QED BY <2>1, <2>2, <2>3
<1>7. Due' <=> service = prefix /\ (Covered(s) \/ (broker # "redis" /\ Wild # {}))
  BY <1>2, <1>4, <1>6 DEF Due, Covered
<1>8. ASSUME SeparateServices \/ service = prefix PROVE Single' /\ Count(Waiting') = Count(Due')
  <2>1. CASE broker = "redis"
    <3>1. plan = newPlan /\ copies' = RedisCopies(ChannelOf(service, s))
      BY <1>1, <2>1 DEF PlanOf, Publish
    <3>2. \A d : Accepts(d)' <=> accept(d, ChannelOf(service, s))
      BY <1>2, <1>4, <2>1 DEF Accepts, accept, Wild, Literals, GlobOf
    <3>3. CASE service = prefix
      <4>1. /\ \A d, e \in copies' : Accepts(d)' /\ Accepts(e)' => d = e
            /\ (\E d \in copies' : Accepts(d)') <=> Covered(s)
        BY <1>1, <3>1, <3>2, <3>3, RedisCopiesOwn
      <4> QED BY <1>7, <2>1, <3>3, <4>1 DEF Single, Waiting, Count
    <3>4. CASE service # prefix
      <4>1. copies' = {}
        BY <1>1, <1>8, <3>1, <3>4, RedisCopiesForeign
      <4> QED BY <1>7, <3>4, <4>1 DEF Single, Waiting, Count
    <3> QED BY <3>3, <3>4
  <2>2. CASE broker # "redis"
    <3>1. /\ \A d, e \in copies' : d = e
          /\ copies' # {} <=> service = prefix /\ (Covered(s) \/ Wild # {})
      <4>1. CASE broker = "nats"
        <5>1. /\ plan = subjectPlan /\ \A i \in DOMAIN patterns : validatePattern(patterns[i])
              /\ copies' = NatsCopies(SubjectOf(service, s))
          BY <1>1, <4>1 DEF PlanOf, Valid, Publish
        <5> QED BY <1>1, <1>8, <5>1, NatsDelivers
      <4>2. CASE broker = "rabbit"
        <5>1. /\ plan = planBindings /\ \A i \in DOMAIN patterns : validKey(patterns[i])
              /\ copies' = RabbitCopies(service, s)
          BY <1>1, <4>2 DEF PlanOf, Valid, Publish
        <5> QED BY <1>1, <5>1, RabbitDelivers
      <4> QED BY <1>1, <2>2, <4>1, <4>2 DEF Listening
    <3>2. \A d : Accepts(d)'
      BY <1>2, <2>2 DEF Accepts
    <3>3. Single' /\ (Waiting' <=> Due')
      BY <1>7, <2>2, <3>1, <3>2 DEF Single, Waiting
    <3> QED BY <3>3 DEF Count
  <2> QED BY <2>1, <2>2
<1>9. Apart' => Single' /\ handled' + Count(Waiting') = Count(Due')
  <2>1. Apart' => SeparateServices \/ service = prefix
    BY <1>2, <1>4 DEF Apart
  <2>2. Count(Due') \in Nat
    BY DEF Count
  <2> QED BY <1>1, <1>8, <2>1, <2>2
<1>10. Count(Waiting)' = Count(Waiting') /\ Count(Due)' = Count(Due')
  BY DEF Count
<1> QED BY <1>1, <1>2, <1>5, <1>6, <1>9, <1>10 DEF SubsInv, Handling

(* Looking at a copy moves it from the waiting ones to the counter.        *)
LEMMA CopyCounts ==
    ASSUME NEW copy \in copies, copies' = copies \ {copy}, Single,
           \A d : Accepts(d)' <=> Accepts(d)
    PROVE  Single' /\ Count(Waiting') + Count(Accepts(copy)) = Count(Waiting)
<1>1. Single'
  BY DEF Single
<1>2. CASE Accepts(copy)
  <2>1. Waiting /\ ~Waiting'
    BY <1>2 DEF Waiting, Single
  <2> QED BY <1>1, <1>2, <2>1 DEF Count
<1>3. CASE ~Accepts(copy)
  <2>1. Waiting <=> Waiting'
    BY <1>3 DEF Waiting
  <2> QED BY <1>1, <1>3, <2>1 DEF Count
<1> QED BY <1>2, <1>3

(* What the steps leave alone that move none of these variables.           *)
LEMMA SubsFrame ==
    ASSUME UNCHANGED <<broker, prefix, patterns, plan, message>>
    PROVE  /\ Listening' = Listening /\ Due' = Due /\ Apart' = Apart /\ PlanOf' = PlanOf
           /\ (\A i \in DOMAIN patterns : Valid(patterns[i]))' <=> \A i \in DOMAIN patterns : Valid(patterns[i])
           /\ \A d : Accepts(d)' <=> Accepts(d)
           /\ (Covered(ReplyNamespace \o ClientId))' = Covered(ReplyNamespace \o ClientId)
<1>1. Listening' = Listening /\ Apart' = Apart
  BY DEF Listening, Apart
<1>2. Due' = Due
  BY DEF Due, Covered, Wild, Literals
<1>3. PlanOf' = PlanOf
  BY DEF PlanOf, newPlan, subjectPlan, planBindings, CatchAllOrLiterals, Literals, Wild, GlobOf
<1>4. (\A i \in DOMAIN patterns : Valid(patterns[i]))' <=> \A i \in DOMAIN patterns : Valid(patterns[i])
  BY DEF Valid
<1>5. \A d : Accepts(d)' <=> Accepts(d)
  BY DEF Accepts, accept, Wild, Literals, GlobOf
<1>6. (Covered(ReplyNamespace \o ClientId))' = Covered(ReplyNamespace \o ClientId)
  BY DEF Covered
<1> QED BY <1>1, <1>2, <1>3, <1>4, <1>5, <1>6

(* A delivery of the message is accepted or dropped.                       *)
LEMMA ReceiveKeeps ==
    ASSUME SubsInv, NEW copy \in copies, Receive(copy) PROVE SubsInv'
<1>1. /\ phase = "message" /\ phase' = "message" /\ copies' = copies \ {copy}
      /\ handled' = handled + Count(Accepts(copy)) /\ echoed' = echoed
      /\ UNCHANGED <<broker, prefix, patterns, plan, message>>
  BY DEF Receive, Count
<1>2. /\ Listening' = Listening /\ Due' = Due /\ Apart' = Apart /\ PlanOf' = PlanOf
      /\ (\A i \in DOMAIN patterns : Valid(patterns[i]))' <=> \A i \in DOMAIN patterns : Valid(patterns[i])
      /\ \A d : Accepts(d)' <=> Accepts(d)
  BY <1>1, SubsFrame
<1>3. handled \in Nat /\ (Apart => Single /\ handled + Count(Waiting) = Count(Due))
  BY <1>1 DEF SubsInv
<1>4. Single => Single' /\ Count(Waiting') + Count(Accepts(copy)) = Count(Waiting)
  BY <1>1, <1>2, CopyCounts
<1>5. Count(Waiting) \in Nat /\ Count(Waiting') \in Nat /\ Count(Accepts(copy)) \in Nat
  BY DEF Count
<1>6. handled' \in Nat /\ (Apart => Single' /\ handled' + Count(Waiting') = Count(Due))
  BY <1>1, <1>3, <1>4, <1>5
<1>7. Count(Waiting)' = Count(Waiting') /\ Count(Due)' = Count(Due)
  BY <1>2 DEF Count
<1> QED BY <1>1, <1>2, <1>6, <1>7 DEF SubsInv, Handling

(* The same of a delivery of the reply.                                    *)
LEMMA ReceiveReplyKeeps ==
    ASSUME SubsInv, NEW copy \in copies, ReceiveReply(copy) PROVE SubsInv'
<1> DEFINE echo == ReplyNamespace \o ClientId
<1>1. /\ phase = "reply" /\ phase' = "reply" /\ copies' = copies \ {copy}
      /\ echoed' = echoed + Count(Accepts(copy)) /\ handled' = handled
      /\ UNCHANGED <<broker, prefix, patterns, plan, message>>
  BY DEF ReceiveReply, Count
<1>2. /\ Listening' = Listening /\ Due' = Due /\ Apart' = Apart /\ PlanOf' = PlanOf
      /\ (\A i \in DOMAIN patterns : Valid(patterns[i]))' <=> \A i \in DOMAIN patterns : Valid(patterns[i])
      /\ \A d : Accepts(d)' <=> Accepts(d)
      /\ (Covered(echo))' = Covered(echo)
  BY <1>1, SubsFrame
<1>3. Single /\ echoed \in Nat /\ echoed + Count(Waiting) = Count(Covered(echo))
  BY <1>1 DEF SubsInv
<1>4. Single' /\ Count(Waiting') + Count(Accepts(copy)) = Count(Waiting)
  BY <1>1, <1>2, <1>3, CopyCounts
<1>5. Count(Waiting) \in Nat /\ Count(Waiting') \in Nat /\ Count(Accepts(copy)) \in Nat
  BY DEF Count
<1>6. echoed' \in Nat /\ echoed' + Count(Waiting') = Count(Covered(echo))
  BY <1>1, <1>3, <1>4, <1>5
<1>7. Count(Waiting)' = Count(Waiting') /\ Count(Covered(echo))' = Count(Covered(echo))
  BY <1>2 DEF Count
<1> QED BY <1>1, <1>2, <1>4, <1>6, <1>7 DEF SubsInv, Handling

(* The reply is published under the service's own prefix, so its copies    *)
(* are those of one more subject.                                          *)
LEMMA RedisRepliesKeeps ==
    ASSUME SubscriptionsAssumption, SubsInv, RedisReplies PROVE SubsInv'
<1> DEFINE echo == ReplyNamespace \o ClientId
<1>1. /\ broker = "redis" /\ phase = "message" /\ copies = {} /\ handled > 0 /\ phase' = "reply"
      /\ message' = [message EXCEPT !.channel = ReplyChannel] /\ copies' = RedisCopies(ReplyChannel)
      /\ UNCHANGED <<broker, prefix, patterns, plan, handled, echoed>>
  BY DEF RedisReplies
<1>2. /\ Listening /\ plan = newPlan /\ PlanOf = newPlan
      /\ \A i \in DOMAIN patterns : Valid(patterns[i])
      /\ handled \in Nat /\ echoed = 0 /\ (Apart => handled + Count(Waiting) = Count(Due))
      /\ message = [channel |-> message.channel, subject |-> message.subject, by |-> message.by]
  BY <1>1 DEF SubsInv, Handling, PlanOf
<1>3. message' = [channel |-> ReplyChannel, subject |-> message.subject, by |-> message.by]
  BY <1>1, <1>2
<1>4. /\ message'.channel = ReplyChannel /\ message'.subject = message.subject
      /\ message'.by = message.by
      /\ message' = [channel |-> message'.channel, subject |-> message'.subject, by |-> message'.by]
  BY <1>3
<1>5. Apart => handled = 1 /\ Due
  <2>1. ~Waiting
    BY <1>1 DEF Waiting
  <2> QED BY <1>1, <1>2, <2>1 DEF Count
<1>6. /\ Listening' /\ Due' = Due /\ Apart' = Apart /\ PlanOf' = PlanOf
      /\ (\A i \in DOMAIN patterns : Valid(patterns[i]))'
      /\ (Covered(echo))' = Covered(echo)
  <2>1. Listening' /\ Apart' = Apart
    BY <1>1, <1>2, <1>4 DEF Listening, Apart
  <2>2. Due' = Due
    BY <1>1, <1>4 DEF Due, Covered, Wild, Literals
  <2>3. PlanOf' = PlanOf
    BY <1>1 DEF PlanOf, newPlan, subjectPlan, planBindings, CatchAllOrLiterals, Literals, Wild, GlobOf
  <2>4. (\A i \in DOMAIN patterns : Valid(patterns[i]))'
    BY <1>1, <1>2 DEF Valid
  <2>5. (Covered(echo))' = Covered(echo)
    BY <1>1 DEF Covered
  <2> QED BY <2>1, <2>2, <2>3, <2>4, <2>5
<1>7. \A d : Accepts(d)' <=> accept(d, ReplyChannel)
  BY <1>1, <1>4 DEF Accepts, accept, Wild, Literals, GlobOf, ReplyChannel
<1>8. echo \in Seq(Chars)
  BY DEF SubscriptionsAssumption
<1>9. /\ \A d, e \in copies' : Accepts(d)' /\ Accepts(e)' => d = e
      /\ (\E d \in copies' : Accepts(d)') <=> Covered(echo)
  <2>1. ReplyChannel = ChannelOf(prefix, echo)
    BY DEF ReplyChannel
  <2> HIDE DEF echo
  <2> QED BY <1>1, <1>2, <1>7, <1>8, <2>1, RedisCopiesOwn
<1>10. Single' /\ echoed' \in Nat /\ echoed' + Count(Waiting)' = Count(Covered(echo))'
  <2>1. Single' /\ (Waiting' <=> Covered(echo))
    BY <1>9 DEF Single, Waiting
  <2>2. Count(Waiting)' = Count(Covered(echo))' /\ Count(Waiting)' \in Nat
    BY <1>6, <2>1 DEF Count
  <2> QED BY <1>1, <1>2, <2>1, <2>2
<1> QED BY <1>1, <1>2, <1>4, <1>5, <1>6, <1>10 DEF SubsInv, Handling

(* Every step keeps the invariant.                                         *)
LEMMA SubsStep ==
    ASSUME SubscriptionsAssumption, SubsInv, [SubsNext]_subsVars PROVE SubsInv'
<1>1. CASE UNCHANGED subsVars
  <2>1. /\ Listening' = Listening /\ Due' = Due /\ Apart' = Apart /\ PlanOf' = PlanOf
        /\ (\A i \in DOMAIN patterns : Valid(patterns[i]))' <=> \A i \in DOMAIN patterns : Valid(patterns[i])
        /\ \A d : Accepts(d)' <=> Accepts(d)
        /\ (Covered(ReplyNamespace \o ClientId))' = Covered(ReplyNamespace \o ClientId)
    BY <1>1, SubsFrame DEF subsVars
  <2>2. UNCHANGED <<broker, prefix, patterns, phase, plan, message, copies, handled, echoed>>
    BY <1>1 DEF subsVars
  <2>3. (Waiting' <=> Waiting) /\ (Single' <=> Single)
    BY <2>1, <2>2 DEF Waiting, Single
  <2>4. /\ Count(Waiting)' = Count(Waiting) /\ Count(Due)' = Count(Due)
        /\ Count(Covered(ReplyNamespace \o ClientId))' = Count(Covered(ReplyNamespace \o ClientId))
    BY <2>1, <2>3 DEF Count
  <2> QED BY <2>1, <2>2, <2>3, <2>4 DEF SubsInv, Handling
<1>2. CASE SubsNext
  BY <1>2, ListenKeeps, PublishKeeps, ReceiveKeeps, RedisRepliesKeeps, ReceiveReplyKeeps DEF SubsNext
<1> QED BY <1>1, <1>2

(* What the invariant says when all copies were looked at.                 *)
LEMMA SubsHandles == ASSUME SubsInv, SeparateServices PROVE HandledOnce
<1>1. SUFFICES ASSUME Delivered
      PROVE  /\ message.by # prefix => handled = 0
             /\ message.by = prefix /\ Covered(message.subject) => handled = 1
             /\ ~Covered(message.subject) => handled <= 1 /\ (broker = "redis" => handled = 0)
  BY DEF HandledOnce
<1>2. handled = Count(Due)
  <2>1. CASE phase = "reply"
    BY <2>1 DEF SubsInv, Apart, Count
  <2>2. CASE phase = "message" /\ copies = {}
    <3>1. ~Waiting
      BY <2>2 DEF Waiting
    <3> QED BY <2>2, <3>1 DEF SubsInv, Apart, Count
  <2> QED BY <1>1, <2>1, <2>2 DEF Delivered
<1> QED BY <1>2 DEF Count, Due

(* No pattern that names the reply namespace was let through, so the       *)
(* patterns that cover a reply are those that straddle it.                 *)
LEMMA SubsEcho == ASSUME SubsInv PROVE RepliesEchoOnceWhereStraddled
<1> DEFINE echo == ReplyNamespace \o ClientId
           Straddled == \E i \in DOMAIN patterns : /\ ~StartsWith(patterns[i], ReplyNamespace)
                                                    /\ Matches(patterns[i], echo)
<1> SUFFICES ASSUME phase = "reply", copies = {} PROVE echoed = IF Straddled THEN 1 ELSE 0
  BY DEF RepliesEchoOnceWhereStraddled
<1>1. \A i \in DOMAIN patterns : ~StartsWith(patterns[i], ReplyNamespace)
  BY DEF SubsInv, Handling, Valid, Reserved
<1>2. Straddled <=> Covered(echo)
  BY <1>1 DEF Covered
<1>3. /\ echoed \in Nat /\ echoed + Count(Waiting) = Count(Covered(echo))
      /\ ~Waiting
  BY DEF SubsInv, Waiting
<1>4. echoed = Count(Covered(echo))
  BY <1>3 DEF Count
<1> QED BY <1>2, <1>4 DEF Count

(* The inductive invariant of the subscriptions: the accepted deliveries   *)
(* and the one still waiting are together what is due.                     *)
THEOREM SubsInvariant == RoutingSpec => []SubsInv
<1> USE SubscriptionsAssumption
<1>1. RoutingInit => SubsInv
  BY SubsStart DEF RoutingInit
<1>2. SubsInv /\ [RoutingNext]_allVars => SubsInv'
  BY SubsStep DEF RoutingNext, allVars
<1> QED BY <1>1, <1>2, PTL DEF RoutingSpec

(* For any patterns, prefixes and subjects: a message is handled exactly   *)
(* once when a pattern of its service covers it                            *)
(* (redismq/pattern.go:158-167, natsmq/subject.go:63-68), and not at all   *)
(* by another service.  Prefixes must not nest, "a" and "a:b" on Redis,    *)
(* "a" and "a.b" on NATS: a:b:c is a channel of both.                      *)
THEOREM OnceToItsService == SeparateServices => (RoutingSpec => []HandledOnce)
<1> SUFFICES ASSUME SeparateServices PROVE RoutingSpec => []HandledOnce
  OBVIOUS
<1>1. SubsInv => HandledOnce
  BY SubsHandles
<1> QED BY <1>1, SubsInvariant, PTL

(* For any patterns: a reply is taken by the handlers of its service       *)
(* exactly once when one of their wildcards straddles the reply namespace, *)
(* and not at all otherwise, since patterns that name the namespace are    *)
(* refused (redismq/pattern.go:128-132, accept).                           *)
THEOREM RepliesEchoOnce == RoutingSpec => []RepliesEchoOnceWhereStraddled
<1>1. SubsInv => RepliesEchoOnceWhereStraddled
  BY SubsEcho
<1> QED BY <1>1, SubsInvariant, PTL

-----------------------------------------------------------------------------
(***************************************************************************)
(* The dispatch.  How far the registration has come determines what the    *)
(* router and the engine hold, a buffer of the pool has one holder, and    *)
(* what a buffer holds when its reply is built was written for its holder. *)
(***************************************************************************)
N == Len(Fields)

Shape ==
    /\ at \in 1..(N + 1)
    /\ stage \in {"field", "added", "path", "url", "failed"}
    /\ path \in [Range(Fields) -> 0..N]
    /\ routes \in SUBSET Range(Fields) /\ url \in SUBSET Range(Fields)
    /\ engine \in [1..N -> Range(Fields) \cup {None}]
    /\ step \in [Inbound -> {"away", "resolve", "mounted", "serve", "build", "over"}]
    /\ due \in SUBSET Inbound
    /\ idle \in SUBSET Buffers /\ held \in [Inbound -> Buffers \cup {None}]
    /\ text = [b \in Buffers |-> text[b]] /\ answer = [m \in Inbound |-> answer[m]]

\* The field at `at` has its path.
Mounting == stage \in {"path", "url"}

\* The counter, and with it a path, is the position of the field; the chain
\* is mounted there when the iteration is complete.
MountInv ==
    /\ tokens = IF Mounting THEN at ELSE at - 1
    /\ at = N + 1 => stage = "field"
    /\ \A i \in 1..N : path[Fields[i]] = IF i <= tokens THEN i ELSE 0
    /\ \A i \in 1..N : engine[i] = IF i < at THEN Fields[i] ELSE None
    /\ \A i \in 1..N : i < at => Fields[i] \in routes \cap url
    /\ stage \in {"added", "path", "url"} => Fields[at] \in routes
    /\ stage = "url" => Fields[at] \in url

PoolInv ==
    /\ \A m \in Inbound : step[m] \in {"serve", "build"} <=> held[m] # None
    /\ \A m \in Inbound : held[m] \notin idle
    /\ \A m, n \in Inbound : held[m] = held[n] /\ held[m] # None => m = n

\* a was written for m, by its own chain or by none.
OwnText(m, a) == a.to = m /\ (a.kind # "notfound" => a.by = Addressed[m])

TextInv ==
    \A m \in Inbound :
        /\ step[m] \in {"mounted", "serve", "build"} => path[Addressed[m]] # 0
        /\ step[m] = "build" => OwnText(m, text[held[m]])
        /\ answer[m] # None => OwnText(m, answer[m])

DueInv ==
    \A m \in due :
        /\ Addressed[m] \in Registered /\ m \notin died
        /\ step[m] = "build" => text[held[m]].kind # "notfound"
        /\ answer[m] # None => answer[m].kind # "notfound"

AnsweredInv == \A m \in Inbound : step[m] # "over" => answer[m] = None

DispatchInv == Shape /\ MountInv /\ PoolInv /\ TextInv /\ DueInv /\ AnsweredInv

-----------------------------------------------------------------------------
(* The fields are distinct, so a position names its field. *)
LEMMA FieldsFacts ==
    /\ N \in Nat /\ DOMAIN Fields = 1..N
    /\ \A i \in 1..N : Fields[i] \in Range(Fields)
    /\ \A f \in Range(Fields) : \E i \in 1..N : f = Fields[i]
    /\ \A i, j \in 1..N : Fields[i] = Fields[j] => i = j
  BY DispatchingAssumption DEF N, Range, IsInjective

(* What a registered field has. *)
LEMMA RegisteredFacts ==
    ASSUME Shape, MountInv, NEW f \in Registered
    PROVE  f \in Range(Fields) /\ f \in routes \cap url /\ path[f] \in 1..N /\ engine[path[f]] = f
<1>1. PICK i \in 1..(at - 1) : f = Fields[i]
  BY DEF Registered
<1>2. i \in 1..N /\ i < at /\ i <= tokens
  BY <1>1, FieldsFacts DEF Shape, MountInv, Mounting
<1> QED
  BY <1>1, <1>2, FieldsFacts DEF MountInv

(* What a step that leaves the mounts alone keeps. *)
LEMMA MountsKept ==
    ASSUME MountInv, UNCHANGED mountVars
    PROVE  MountInv' /\ Registered' = Registered /\ path' = path
<1>1. at' = at /\ stage' = stage /\ routes' = routes /\ path' = path /\ url' = url /\ engine' = engine /\ tokens' = tokens
  BY DEF mountVars
<1> QED
  BY <1>1 DEF MountInv, Mounting, Registered

LEMMA RegisterKeeps ==
    ASSUME DispatchInv, RegisterStep PROVE DispatchInv'
<1> USE FieldsFacts DEF DispatchInv
<1>1. /\ UNCHANGED <<step, due, bufferVars, answer, died>>
      /\ at \in 1..N /\ Field = Fields[at] /\ Field \in Range(Fields)
  BY DEF RegisterStep, RegisterFails, AddRoute, MountPath, MountURL, MountChain, Registering, Shape, Field, N
<1>2. PoolInv'
  BY <1>1 DEF PoolInv, bufferVars
<1>3. /\ Shape' /\ MountInv' /\ Registered \subseteq Registered'
      /\ \A f \in Range(Fields) : path[f] # 0 => path'[f] = path[f]
  <2>1. CASE RegisterFails
    BY <2>1, <1>1 DEF RegisterFails, Shape, MountInv, Mounting, Registering, Registered, bufferVars
  <2>2. CASE AddRoute
    BY <2>2, <1>1 DEF AddRoute, Shape, MountInv, Mounting, Registering, Registered, bufferVars
  <2>3. CASE MountPath
    <3>1. /\ tokens = at - 1 /\ tokens' = at /\ stage' = "path" /\ stage = "added"
          /\ UNCHANGED <<at, routes, url, engine>> /\ path' = [path EXCEPT ![Fields[at]] = at]
      <4>1. tokens = at - 1 /\ tokens' = at
        BY <2>3, <1>1 DEF MountPath, MountInv, Mounting, Registering
      <4> QED
        BY <4>1, <2>3, <1>1 DEF MountPath, Registering
    <3>2. Shape'
      BY <3>1, <1>1 DEF Shape, bufferVars
    <3>3. \A i \in 1..N : path'[Fields[i]] = IF i <= at THEN i ELSE 0
      BY <3>1, <1>1 DEF Shape, MountInv
    <3>4. \A f \in Range(Fields) : path[f] # 0 => path'[f] = path[f]
      BY <3>1, <1>1 DEF Shape, MountInv
    <3> QED
      BY <3>1, <3>2, <3>3, <3>4, <1>1 DEF MountInv, Mounting, Registered
  <2>4. CASE MountURL
    BY <2>4, <1>1 DEF MountURL, Shape, MountInv, Mounting, Registering, Registered, bufferVars
  <2>5. CASE MountChain
    <3>1. /\ tokens = at /\ at' = at + 1 /\ stage' = "field" /\ stage = "url"
          /\ UNCHANGED <<tokens, routes, url, path>> /\ path[Fields[at]] = at
          /\ engine' = [engine EXCEPT ![at] = Fields[at]]
      <4>1. tokens = at /\ path[Fields[at]] = at
        BY <2>5, <1>1 DEF MountChain, MountInv, Mounting, Registering
      <4> QED
        BY <4>1, <2>5, <1>1 DEF MountChain, Registering
    <3>2. Shape'
      BY <3>1, <1>1 DEF Shape, bufferVars
    <3>3. \A i \in 1..N : i < at' <=> i < at \/ i = at
      BY <3>1, <1>1
    <3>4. Registered \subseteq Registered'
      BY <3>1, <1>1 DEF Registered
    <3>5. \A i \in 1..N : engine'[i] = IF i < at' THEN Fields[i] ELSE None
      BY <3>1, <3>3, <1>1 DEF MountInv, Shape
    <3> QED
      BY <3>1, <3>2, <3>3, <3>4, <3>5, <1>1 DEF MountInv, Mounting
  <2> QED
    BY <2>1, <2>2, <2>3, <2>4, <2>5 DEF RegisterStep
<1>4. TextInv'
  BY <1>1, <1>3, DispatchingAssumption DEF TextInv, bufferVars, OwnText
<1>5. DueInv'
  BY <1>1, <1>3 DEF DueInv, bufferVars
<1>6. AnsweredInv'
  BY <1>1 DEF AnsweredInv
<1> QED
  BY <1>2, <1>3, <1>4, <1>5, <1>6

(* A message comes and its route is looked up. *)
LEMMA ResolveKeeps ==
    ASSUME DispatchInv, NEW m \in Inbound, Comes(m) \/ Resolve(m)
    PROVE  DispatchInv'
<1> USE DispatchingAssumption DEF DispatchInv
<1>1. CASE Comes(m)
  <2>1. /\ UNCHANGED <<mountVars, bufferVars, answer, died, Registered>>
        /\ step[m] = "away" /\ step' = [step EXCEPT ![m] = "resolve"] /\ died = {}
        /\ due' = IF Addressed[m] \in Registered THEN due \cup {m} ELSE due
    BY <1>1 DEF Comes, Step, Registered, mountVars, Alive
  <2>2. answer[m] = None
    BY <2>1 DEF Shape, AnsweredInv
  <2>3. Shape' /\ MountInv'
    <3>1. Shape'
      BY <2>1 DEF Shape, mountVars, bufferVars
    <3> QED
      BY <3>1, <2>1, MountsKept
  <2>4. PoolInv' /\ TextInv'
    <3>1. /\ \A n \in Inbound : step'[n] = step[n] \/ (n = m /\ step'[n] = "resolve")
          /\ step[m] = "away" /\ idle' = idle /\ held' = held /\ text' = text /\ answer' = answer /\ path' = path
      BY <2>1 DEF Shape, mountVars, bufferVars
    <3>2. PoolInv'
      BY <3>1 DEF PoolInv
    <3>3. TextInv'
      BY <3>1 DEF TextInv, OwnText
    <3> QED
      BY <3>2, <3>3
  <2>5. DueInv' /\ AnsweredInv'
    <3>1. /\ \A n \in Inbound : step'[n] = step[n] \/ (n = m /\ step'[n] = "resolve")
          /\ held' = held /\ text' = text /\ answer' = answer /\ died' = {} /\ due \subseteq Inbound
          /\ Registered' = Registered /\ step[m] = "away"
      BY <2>1 DEF Shape, bufferVars
    <3>2. AnsweredInv'
      BY <3>1, <2>2 DEF AnsweredInv
    <3>3. \A n \in due' : n \in due \/ (n = m /\ Addressed[m] \in Registered)
      BY <2>1
    <3>4. \A n \in due' : Addressed[n] \in Registered /\ n \notin died'
      BY <3>1, <3>3 DEF DueInv
    <3>5. \A n \in due' : n \in Inbound /\ (step'[n] = "build" => n \in due /\ step[n] = "build")
      BY <3>1, <3>3, <2>1 DEF Shape
    <3>6. \A n \in due' : answer'[n] # None => n \in due
      BY <3>1, <3>3, <2>2
    <3>7. DueInv'
      BY <3>1, <3>4, <3>5, <3>6 DEF DueInv
    <3> QED
      BY <3>2, <3>7
  <2> QED
    BY <2>3, <2>4, <2>5
<1>2. CASE Resolve(m)
  <2> DEFINE f == Addressed[m]
  <2>1. /\ UNCHANGED <<mountVars, due, bufferVars, died, Registered>>
        /\ step[m] = "resolve" /\ f \in Range(Fields)
        /\ \/ f \in routes /\ path[f] # 0 /\ step' = [step EXCEPT ![m] = "mounted"] /\ answer' = answer
           \/ /\ ~(f \in routes /\ path[f] # 0) /\ step' = [step EXCEPT ![m] = "over"]
              /\ answer' = [answer EXCEPT ![m] = [kind |-> "notfound", to |-> m]]
    BY <1>2 DEF Resolve, Step, Answers, Registered, mountVars
  <2>2. ~(f \in routes /\ path[f] # 0) => m \notin due
    <3> SUFFICES ASSUME m \in due PROVE f \in routes /\ path[f] # 0
      OBVIOUS
    <3>1. f \in Registered
      BY DEF DueInv
    <3>2. f \in routes /\ path[f] \in 1..N
      BY <3>1, RegisteredFacts
    <3> QED
      BY <3>2, FieldsFacts
  <2>3. /\ step' \in [Inbound -> {"away", "resolve", "mounted", "serve", "build", "over"}]
        /\ step'[m] \in {"mounted", "over"} /\ \A n \in Inbound \ {m} : step'[n] = step[n]
        /\ step'[m] = "mounted" => path[f] # 0 /\ answer'[m] = answer[m]
    <3>1. CASE step' = [step EXCEPT ![m] = "mounted"]
      BY <2>1, <3>1 DEF Shape
    <3>2. CASE step' = [step EXCEPT ![m] = "over"]
      BY <3>2 DEF Shape
    <3> QED
      BY <2>1, <3>1, <3>2
  <2>4. /\ answer' = [n \in Inbound |-> answer'[n]]
        /\ \A n \in Inbound \ {m} : answer'[n] = answer[n]
        /\ answer'[m] = answer[m] \/ (m \notin due /\ answer'[m] = [kind |-> "notfound", to |-> m])
    <3>1. CASE answer' = answer
      BY <3>1 DEF Shape
    <3>2. CASE /\ ~(f \in routes /\ path[f] # 0)
               /\ answer' = [answer EXCEPT ![m] = [kind |-> "notfound", to |-> m]]
      BY <2>2, <3>2 DEF Shape
    <3> QED
      BY <2>1, <3>1, <3>2
  <2>5. Shape' /\ MountInv'
    <3>1. Shape'
      BY <2>1, <2>3, <2>4 DEF Shape, mountVars, bufferVars
    <3> QED
      BY <3>1, <2>1, MountsKept
  <2>6. PoolInv'
    BY <2>1, <2>3 DEF PoolInv, bufferVars
  <2>7. TextInv'
    BY <2>1, <2>3, <2>4 DEF TextInv, OwnText, mountVars, bufferVars
  <2>8. DueInv'
    <3> SUFFICES ASSUME NEW n \in due
                 PROVE  /\ Addressed[n] \in Registered /\ n \notin died
                        /\ step'[n] = "build" => text[held[n]].kind # "notfound"
                        /\ answer'[n] # None => answer'[n].kind # "notfound"
      BY <2>1 DEF DueInv, bufferVars
    <3>1. n \in Inbound /\ answer'[n] = answer[n] /\ (step'[n] = "build" => step[n] = "build")
      BY <2>3, <2>4 DEF Shape
    <3> QED
      BY <3>1 DEF DueInv
  <2>9. AnsweredInv'
    BY <2>1, <2>3, <2>4 DEF AnsweredInv
  <2> QED
    BY <2>5, <2>6, <2>7, <2>8, <2>9
<1> QED
  BY <1>1, <1>2

(* A buffer that nobody holds is taken, from the pool or a new one. *)
LEMMA TakeBufferKeeps ==
    ASSUME DispatchInv, NEW m \in Inbound, TakeBuffer(m)
    PROVE  DispatchInv'
<1> USE DispatchingAssumption DEF DispatchInv
<1>1. UNCHANGED <<mountVars, due, answer, Registered>> /\ step[m] = "mounted"
  BY DEF TakeBuffer, Registered, mountVars
<1>2. CASE Addressed[m] \in url
  <2>1. PICK b \in IF idle # {} THEN idle ELSE Buffers \ Range(held) :
           /\ idle' = idle \ {b} /\ held' = [held EXCEPT ![m] = b]
           /\ text' = [text EXCEPT ![b] = None]
           /\ step' = [step EXCEPT ![m] = "serve"] /\ died' = died
    BY <1>2 DEF TakeBuffer, Step
  <2>2. b \in Buffers /\ b # None /\ \A n \in Inbound : held[n] # b
    BY DEF Shape, PoolInv, Range
  <2>3. /\ \A n \in Inbound \ {m} : step'[n] = step[n] /\ held'[n] = held[n]
        /\ step'[m] = "serve" /\ held'[m] = b
    BY <2>1 DEF Shape
  <2>4. \A n \in Inbound \ {m} : step[n] = "build" => text'[held[n]] = text[held[n]]
    BY <2>1, <2>2 DEF Shape, PoolInv
  <2>5. Shape'
    BY <2>1, <2>2, <1>1 DEF Shape, mountVars
  <2>6. PoolInv'
    BY <2>1, <2>2, <2>3 DEF PoolInv
  <2>7. TextInv'
    BY <2>3, <2>4, <1>1 DEF TextInv, OwnText, mountVars
  <2>8. DueInv'
    <3> SUFFICES ASSUME NEW n \in due
                 PROVE  /\ Addressed[n] \in Registered /\ n \notin died
                        /\ step'[n] = "build" => text'[held'[n]].kind # "notfound"
                        /\ answer[n] # None => answer[n].kind # "notfound"
      BY <2>1, <1>1 DEF DueInv
    <3>1. n \in Inbound /\ (step'[n] = "build" => step[n] = "build" /\ text'[held'[n]] = text[held[n]])
      BY <2>3, <2>4 DEF Shape
    <3> QED
      BY <3>1 DEF DueInv
  <2>9. MountInv' /\ AnsweredInv'
    BY <2>3, <1>1 DEF MountInv, Mounting, mountVars, AnsweredInv
  <2> QED
    BY <2>5, <2>6, <2>7, <2>8, <2>9
<1>3. CASE Addressed[m] \notin url
  <2>1. died' = died \cup {m} /\ UNCHANGED <<step, bufferVars>>
    BY <1>3 DEF TakeBuffer
  <2>2. m \notin due
    BY <1>3, RegisteredFacts DEF DueInv
  <2>3. DueInv'
    BY <2>1, <2>2, <1>1 DEF DueInv, bufferVars
  <2>4. Shape' /\ MountInv'
    BY <2>1, <1>1 DEF Shape, MountInv, Mounting, mountVars, bufferVars
  <2>5. PoolInv' /\ TextInv' /\ AnsweredInv'
    BY <2>1, <1>1 DEF PoolInv, TextInv, OwnText, AnsweredInv, mountVars, bufferVars
  <2> QED
    BY <2>3, <2>4, <2>5
<1> QED
  BY <1>2, <1>3

(* The chain at the path of the route is that of the route. *)
LEMMA WritesOwn ==
    ASSUME DispatchInv, NEW m \in Inbound, step[m] = "serve", NEW w \in Writes(m)
    PROVE  OwnText(m, w) /\ (m \in due => w.kind # "notfound")
<1> DEFINE f == Addressed[m]
           g == engine[path[f]]
<1>1. f \in Range(Fields) /\ path[f] # 0
  BY DispatchingAssumption DEF DispatchInv, TextInv
<1>2. PICK i \in 1..N : f = Fields[i]
  BY <1>1, FieldsFacts
<1>3. g = None \/ g = f
  BY <1>1, <1>2, FieldsFacts DEF DispatchInv, MountInv
<1>4. m \in due => g = f /\ f # None
  BY <1>1, RegisteredFacts, DispatchingAssumption DEF DispatchInv, DueInv
<1>5. CASE g = None
  BY <1>4, <1>5 DEF Writes, OwnText
<1>6. CASE g # None
  <2>1. PICK k \in {"handler", "panic", "refused"} : w = [kind |-> k, to |-> m, by |-> f]
    BY <1>3, <1>6 DEF Writes
  <2> QED
    BY <2>1 DEF OwnText
<1> QED
  BY <1>5, <1>6

LEMMA ServeKeeps ==
    ASSUME DispatchInv, NEW m \in Inbound, Serve(m)
    PROVE  DispatchInv'
<1> USE DispatchingAssumption DEF DispatchInv
<1>1. /\ UNCHANGED <<mountVars, due, idle, held, answer, died, Registered>>
      /\ step[m] = "serve" /\ step' = [step EXCEPT ![m] = "build"]
  BY DEF Serve, Step, Registered, mountVars
<1>2. PICK w \in Writes(m) : text' = [text EXCEPT ![held[m]] = w]
  BY DEF Serve
<1>3. OwnText(m, w) /\ (m \in due => w.kind # "notfound")
  BY <1>1, WritesOwn
<1>4. held[m] \in Buffers /\ \A n \in Inbound \ {m} : held[n] # held[m]
  BY <1>1 DEF Shape, PoolInv
<1>5. /\ \A n \in Inbound \ {m} : step'[n] = step[n] /\ (step[n] = "build" => text'[held[n]] = text[held[n]])
      /\ step'[m] = "build" /\ text'[held[m]] = w
  BY <1>1, <1>2, <1>4 DEF Shape, PoolInv
<1>6. Shape'
  BY <1>1, <1>2 DEF Shape, mountVars
<1>7. PoolInv'
  BY <1>1, <1>5 DEF PoolInv
<1>8. TextInv'
  BY <1>1, <1>3, <1>5 DEF TextInv, OwnText, mountVars
<1>9. DueInv'
  <2> SUFFICES ASSUME NEW n \in due
               PROVE  /\ (Addressed[n] \in Registered)' /\ n \notin died'
                      /\ step'[n] = "build" => text'[held[n]].kind # "notfound"
                      /\ answer'[n] # None => answer'[n].kind # "notfound"
    BY <1>1 DEF DueInv
  <2>1. Addressed[n] \in Registered' /\ n \notin died' /\ (answer'[n] # None => answer'[n].kind # "notfound")
    BY <1>1 DEF DueInv
  <2>2. CASE n = m
    BY <2>1, <2>2, <1>3, <1>5
  <2>3. CASE n # m
    BY <2>1, <2>3, <1>5 DEF DueInv, Shape
  <2> QED
    BY <2>2, <2>3
<1>10. MountInv' /\ AnsweredInv'
  <2>1. MountInv'
    BY <1>1, MountsKept
  <2> QED
    BY <2>1, <1>1, <1>5 DEF AnsweredInv
<1> QED
  BY <1>6, <1>7, <1>8, <1>9, <1>10

(* The reply is built before the buffer goes back. *)
LEMMA BuildReplyKeeps ==
    ASSUME DispatchInv, NEW m \in Inbound, BuildReply(m)
    PROVE  DispatchInv'
<1> USE DispatchingAssumption DEF DispatchInv
<1>1. /\ UNCHANGED <<mountVars, due, text, died, Registered>>
      /\ step[m] = "build" /\ step' = [step EXCEPT ![m] = "over"]
      /\ answer' = [answer EXCEPT ![m] = text[held[m]]]
      /\ idle' = idle \cup {held[m]} /\ held' = [held EXCEPT ![m] = None]
  BY DEF BuildReply, Step, Answers, Registered, mountVars
<1>2. held[m] \in Buffers /\ \A n \in Inbound \ {m} : held[n] # held[m]
  BY <1>1 DEF Shape, PoolInv
<1>3. /\ \A n \in Inbound \ {m} : step'[n] = step[n] /\ held'[n] = held[n] /\ answer'[n] = answer[n]
      /\ step'[m] = "over" /\ held'[m] = None /\ answer'[m] = text[held[m]]
  BY <1>1 DEF Shape
<1>4. Shape'
  BY <1>1, <1>2 DEF Shape, mountVars
<1>5. PoolInv'
  BY <1>1, <1>2, <1>3 DEF PoolInv, Shape
<1>6. TextInv'
  BY <1>1, <1>3 DEF TextInv, OwnText, mountVars
<1>7. DueInv'
  <2> SUFFICES ASSUME NEW n \in due
               PROVE  /\ (Addressed[n] \in Registered)' /\ n \notin died'
                      /\ step'[n] = "build" => text'[held'[n]].kind # "notfound"
                      /\ answer'[n] # None => answer'[n].kind # "notfound"
    BY <1>1 DEF DueInv
  <2>1. Addressed[n] \in Registered' /\ n \notin died'
    BY <1>1 DEF DueInv
  <2>2. CASE n = m
    BY <2>1, <2>2, <1>1, <1>3 DEF DueInv
  <2>3. CASE n # m
    BY <2>1, <2>3, <1>1, <1>3 DEF DueInv, Shape
  <2> QED
    BY <2>2, <2>3
<1>8. MountInv' /\ AnsweredInv'
  <2>1. MountInv'
    BY <1>1, MountsKept
  <2> QED
    BY <2>1, <1>1, <1>3 DEF AnsweredInv
<1> QED
  BY <1>4, <1>5, <1>6, <1>7, <1>8

-----------------------------------------------------------------------------
LEMMA DispatchInvInit ==
    ASSUME DispatchInit PROVE DispatchInv
<1> USE FieldsFacts, DispatchingAssumption DEF DispatchInit
<1>1. Shape
  BY DEF Shape, N
<1>2. MountInv
  BY DEF MountInv, Mounting, N
<1>3. PoolInv /\ TextInv /\ DueInv /\ AnsweredInv
  BY DEF PoolInv, TextInv, DueInv, AnsweredInv
<1> QED
  BY <1>1, <1>2, <1>3 DEF DispatchInv

(* The inductive invariant of the dispatcher. *)
THEOREM DispatchInvariant == RoutingSpec => []DispatchInv
<1>1. RoutingInit => DispatchInv
  BY DispatchInvInit DEF RoutingInit
<1>2. ASSUME DispatchInv, UNCHANGED dispatchVars PROVE DispatchInv'
  <2>1. UNCHANGED mountVars /\ step' = step /\ due' = due /\ idle' = idle /\ held' = held
        /\ text' = text /\ answer' = answer /\ died' = died
    BY <1>2 DEF dispatchVars, mountVars
  <2>2. MountInv' /\ Registered' = Registered /\ path' = path
    BY <1>2, <2>1, MountsKept DEF DispatchInv
  <2>3. Shape'
    BY <1>2, <2>1 DEF DispatchInv, Shape, mountVars
  <2>4. PoolInv' /\ AnsweredInv'
    BY <1>2, <2>1 DEF DispatchInv, PoolInv, AnsweredInv
  <2>5. TextInv' /\ DueInv'
    BY <1>2, <2>1, <2>2 DEF DispatchInv, TextInv, OwnText, DueInv
  <2> QED
    BY <2>2, <2>3, <2>4, <2>5 DEF DispatchInv
<1>3. ASSUME DispatchInv, DispatchNext PROVE DispatchInv'
  BY <1>3, RegisterKeeps, ResolveKeeps, TakeBufferKeeps, ServeKeeps, BuildReplyKeeps DEF DispatchNext
<1>4. DispatchInv /\ [RoutingNext]_allVars => DispatchInv'
  BY <1>2, <1>3 DEF RoutingNext, allVars
<1> QED
  BY <1>1, <1>4, PTL DEF RoutingSpec

(* However many messages share the pool, and whatever is being mounted, a  *)
(* reply holds what the chain of the message's own route wrote for it.     *)
THEOREM RepliesAreOwn == RoutingSpec => []AnswerIsOwn
<1>1. DispatchInv => AnswerIsOwn
  BY DEF DispatchInv, TextInv, OwnText, AnswerIsOwn
<1> QED
  BY <1>1, DispatchInvariant, PTL

(* A message that comes when its field is registered reaches its chain.    *)
THEOREM RegisteredIsServed == RoutingSpec => []RegisteredIsReached
<1>1. DispatchInv => RegisteredIsReached
  BY DEF DispatchInv, DueInv, RegisteredIsReached
<1> QED
  BY <1>1, DispatchInvariant, PTL
=============================================================================
