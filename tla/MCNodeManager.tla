--------------------------- MODULE MCNodeManager ---------------------------
(* Two callers, three nodes of which one cannot be dialled, and three    *)
(* ports: the highest base port is so close to the highest port that     *)
(* allocation runs past the end.                                         *)
EXTENDS NodeManager

CONSTANTS c1, c2, n1, n2, n3
=============================================================================
