------------------------------ MODULE MCRelay ------------------------------
(* Two items up, two down: a read takes none, some or all of them. *)
EXTENDS Relay

MCLimit == [d \in {"up", "down"} |-> 2]
=============================================================================
