---------------------------- MODULE MCDeployment ----------------------------
(***************************************************************************)
(* A pod of the old release, which knows two migrations, beside one of the *)
(* new release, which knows three and may carry a changed text of the      *)
(* first one, or one without a checksum.  Two processes with two seeds,    *)
(* one of which always runs.                                               *)
(***************************************************************************)
EXTENDS Deployment

CONSTANTS old, new

MCKnown == [p \in Pods |-> IF p = new THEN 1..3 ELSE 1..2]
Same == [p \in Pods |-> [v \in 1..3 |-> "a"]]
Edited == [Same EXCEPT ![new][1] = "b"]
Unsummed == [Same EXCEPT ![new][1] = NoSum]
MCChecksums == {Same, Edited, Unsummed}
=============================================================================
