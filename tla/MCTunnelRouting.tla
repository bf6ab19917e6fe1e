--------------------------- MODULE MCTunnelRouting ---------------------------
(***************************************************************************)
(* Three nodes.  The index wraps at 4, which leaves 1 when divided by      *)
(* three, as 2^64 does.                                                    *)
(***************************************************************************)
EXTENDS TunnelRouting, TLC

CONSTANTS n1, n2, n3

Symmetry == Permutations({n1, n2, n3})
TestResults == {-1, 0, 1, 2}
=============================================================================
