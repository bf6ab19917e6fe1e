---------------------------- MODULE MCTunnelPool ----------------------------
(***************************************************************************)
(* Two requests and main, two clients, and two ports of which other        *)
(* programs use one.                                                       *)
(***************************************************************************)
EXTENDS TunnelPool

CONSTANTS a1, a2, m, x1, x2, n1
=============================================================================
