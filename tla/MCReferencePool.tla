------------------------- MODULE MCReferencePool -------------------------
(* Three servers, one of them at a private address, in two lists; the one   *)
(* has an entry twice, so that the table has a gap, and the other has a new *)
(* server where the gap was refused.  Two tests, each of which answers in   *)
(* time, is cut off or fails, two operations on all nodes at once, two      *)
(* loops, two tunnel pools, three requests.                                 *)
EXTENDS ReferencePool

CONSTANTS v1, v2, v3, t1, t2, l1, l2

MCLists == {<<v1, v1, v2>>, <<v2, v3>>}
==========================================================================
