------------------------------- MODULE MCStore -------------------------------
(***************************************************************************)
(* One subscription with one node, and three settings: the default, others *)
(* and those without a web port.                                           *)
(***************************************************************************)
EXTENDS Store, TLC

CONSTANTS s1, n1, Default, Custom

AllInOne == n1 :> s1
=============================================================================
