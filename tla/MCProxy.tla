------------------------------ MODULE MCProxy ------------------------------
(* One caller of the manager, one request for the tunnel and main, which    *)
(* is both; two nodes, a client of the tunnel and two ports, so that nodes  *)
(* and tunnel want the same.                                                *)
EXTENDS Proxy, TLC

CONSTANTS c1, a1, m, n1, n2, x1

Symmetry == Permutations({n1, n2})
=============================================================================
