------------------------------ MODULE MCRouter ------------------------------
(***************************************************************************)
(* Three subjects, one exact pattern and the wildcards a*, ?b and *, with  *)
(* matching and specificity as module Pattern defines them.  "ab" is       *)
(* matched by all four, "ac" by two and "b" by one, and the cache is       *)
(* smaller than the set of subjects.                                       *)
(***************************************************************************)
EXTENDS Router, Pattern, TLC

MCOrder == [c \in {"a", "b", "c", "*", "?"} |->
              CASE c = "*" -> 42 [] c = "?" -> 63
                [] c = "a" -> 97 [] c = "b" -> 98 [] c = "c" -> 99]
MCSubjects == {<<"a", "b">>, <<"a", "c">>, <<"b">>}
MCExact == {<<"a", "b">>}
MCWild == {<<"a", "*">>, <<"?", "b">>, <<"*">>}
MCMatch == [w \in MCWild |-> {s \in MCSubjects : Matches(w, s)}]
MCRank ==
    [w \in MCWild |->
        Cardinality({v \in MCWild : MoreSpecificThan(RankOf(v), RankOf(w))})]

Symmetry == Permutations(Resolvers)
=============================================================================
