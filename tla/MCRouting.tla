----------------------------- MODULE MCRouting ------------------------------
(***************************************************************************)
(* Every pattern and every subject up to a length, over two letters; a     *)
(* subject comes from the network and may hold a star of its own.  And     *)
(* services with up to three of a set of patterns that overlap, that hold  *)
(* characters special to one broker, and that lie inside or across the     *)
(* reply namespace.  And a controller of two handlers, one of them         *)
(* guarded, with two messages for the first and one for the second.  The   *)
(* router is that of MCRouter.                                             *)
(***************************************************************************)
EXTENDS Routing, MCRouter, SequencesExt

CONSTANTS
    MaxPattern, MaxSubject,   \* bounds on the lengths
    m1, m2, m3

MCLetters == {":", ".", ">", "#", "[", "]", "\\", "a", "b", "r"}
MCByteOrder == [c \in MCLetters \cup {"*", "?"} |->
              CASE c = "#" -> 35 [] c = "*" -> 42 [] c = "." -> 46 [] c = ":" -> 58
                [] c = ">" -> 62 [] c = "?" -> 63 [] c = "[" -> 91 [] c = "\\" -> 92
                [] c = "]" -> 93 [] c = "a" -> 97 [] c = "b" -> 98 [] c = "r" -> 114]
MCPatternSet == BoundedSeq({"a", "b", "*", "?"}, MaxPattern)
MCSubjectSet == BoundedSeq({"a", "b", "*"}, MaxSubject)

MCHandlers == {<<"a">>, <<"b">>, <<"a", "b">>, <<"a", "*">>, <<"*">>, <<"?">>, <<"*", "b">>,
               <<"[", "a", "]">>, <<"[", "a", "]", "*">>, <<"\\", "?">>, <<"r", "*">>, <<"r", ":", "*">>,
               <<"a", ".", "b">>}
InOrder(p, q) == MoreSpecificThan(RankOf(p), RankOf(q))
MCPatternLists == {SetToSortSeq(ps, InOrder) : ps \in kSubset(1, MCHandlers) \cup
                                                      kSubset(2, MCHandlers) \cup
                                                      kSubset(3, MCHandlers)}
MCServices == {<<"a">>, <<"*">>, <<"a", "b">>}
MCPublished == {<<"a", "*">>, <<"a">>, <<"b">>, <<"a", "b">>, <<"[", "a", "]">>, <<"\\", "b">>,
                <<"a", ".", "b">>, <<"r", ":", "a">>}
MCFields == <<"open", "guarded">>
MCAddressed == [m \in Inbound |-> IF m = m3 THEN "guarded" ELSE "open"]
MCReply == <<"r", ":">>
MCClientId == <<"b">>
=============================================================================
