------------------------------- MODULE Pattern ------------------------------
(***************************************************************************)
(* Subject patterns, common/microservice/pattern.go: what a pattern means, *)
(* and rank and moreSpecificThan, which decide between two patterns that   *)
(* match one subject.  The matcher itself is module PatternMatch.          *)
(*                                                                         *)
(* A pattern or subject is a sequence of characters (bytes, in the code).  *)
(***************************************************************************)
EXTENDS Integers, Sequences, FiniteSets

CONSTANTS
    Letters,     \* the ordinary characters
    Order        \* Order[c]: the byte value of character c

Wildcards == {"*", "?"}
Chars == Letters \cup Wildcards

ASSUME PatternAssumption ==
    /\ Letters \cap Wildcards = {}
    /\ Order \in [Chars -> Nat]
    /\ \A c, d \in Chars : Order[c] = Order[d] => c = d

IsWildcard(p) == \E i \in DOMAIN p : p[i] \in Wildcards

-----------------------------------------------------------------------------
(***************************************************************************)
(* Specificity: exact patterns first, then more literal characters, then   *)
(* fewer wildcards, then the order of the texts.                           *)
(***************************************************************************)
StarsOf(p) == Cardinality({i \in DOMAIN p : p[i] \in Wildcards})

RankOf(p) == [wildcard |-> IsWildcard(p),
              literals |-> Len(p) - StarsOf(p),
              stars    |-> StarsOf(p),
              text     |-> p]

\* Go's < on strings.
TextLess(s, t) ==
    \E k \in 1..(Len(s) + 1) :
        /\ \A i \in 1..(k - 1) : i <= Len(t) /\ s[i] = t[i]
        /\ k <= Len(t)
        /\ k <= Len(s) => Order[s[k]] < Order[t[k]]

MoreSpecificThan(a, b) ==
    \/ b.wildcard /\ ~a.wildcard
    \/ /\ a.wildcard = b.wildcard
       /\ \/ a.literals > b.literals
          \/ a.literals = b.literals /\ a.stars < b.stars
          \/ /\ a.literals = b.literals /\ a.stars = b.stars
             /\ TextLess(a.text, b.text)

-----------------------------------------------------------------------------
(***************************************************************************)
(* What a pattern means: SuffixMatches(p, s)[i] is the set of the j such   *)
(* that what p has after i characters matches what s has after j.          *)
(***************************************************************************)
SuffixMatches(p, s) ==
    LET m[i \in 0..Len(p)] ==
          IF i = Len(p) THEN {Len(s)}
          ELSE LET rest == m[i + 1]
               IN  IF p[i + 1] = "*" THEN {j \in 0..Len(s) : \E k \in rest : j <= k}
                   ELSE {j \in 0..(Len(s) - 1) : /\ p[i + 1] \in {"?", s[j + 1]}
                                                /\ j + 1 \in rest}
    IN  m

Matches(p, s) == 0 \in SuffixMatches(p, s)[0]
=============================================================================
