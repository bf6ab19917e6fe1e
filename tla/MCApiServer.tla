---------------------------- MODULE MCApiServer ----------------------------
(***************************************************************************)
(* Two requests at a time on one subscription with two nodes.              *)
(***************************************************************************)
EXTENDS ApiServer, TLC

CONSTANTS r1, r2, s1, n1, n2

AllInOne == [n \in {n1, n2} |-> s1]
Symmetry == Permutations({r1, r2}) \cup Permutations({n1, n2})
=============================================================================
