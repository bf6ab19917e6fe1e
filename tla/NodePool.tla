------------------------------ MODULE NodePool ------------------------------
(***************************************************************************)
(* What the inbound manager of pkg/proxy promises to its callers: a node   *)
(* that runs holds one port of its own from the moment it is started until *)
(* the moment it is stopped, and accepts connections on it until its stop  *)
(* begins.  NodeManager implements this specification (see                 *)
(* NodeManagerProofs).                                                     *)
(***************************************************************************)
CONSTANTS Nodes, Port

VARIABLES lease,    \* the port of every running node
          serving   \* the running nodes whose port still accepts

poolVars == <<lease, serving>>

Init == lease = << >> /\ serving = {}

Lease(n, p) ==
  /\ n \notin DOMAIN lease
  /\ \A m \in DOMAIN lease : lease[m] # p
  /\ lease' = [m \in DOMAIN lease \cup {n} |-> IF m = n THEN p ELSE lease[m]]
  /\ serving' = serving \cup {n}

\* The port stops accepting; it stays reserved while connections drain.
Retire(n) ==
  /\ n \in serving
  /\ serving' = serving \ {n}
  /\ UNCHANGED lease

Release(n) ==
  /\ n \in DOMAIN lease \ serving
  /\ lease' = [m \in DOMAIN lease \ {n} |-> lease[m]]
  /\ UNCHANGED serving

Next == \E n \in Nodes : Retire(n) \/ Release(n) \/ \E p \in Port : Lease(n, p)

Spec == Init /\ [][Next]_poolVars
=============================================================================
