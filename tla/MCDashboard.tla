---------------------------- MODULE MCDashboard ----------------------------
(* Two requests and a run over two nodes, one dashboard with a channel for  *)
(* one event; one test at a time.                                           *)
EXTENDS Dashboard, TLC

CONSTANTS r1, r2, t1, n1, n2, d1

Symmetry == Permutations({r1, r2}) \cup Permutations({n1, n2})
=============================================================================
