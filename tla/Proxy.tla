------------------------------- MODULE Proxy -------------------------------
(***************************************************************************)
(* pkg/proxy in the process that main.go makes of it: the inbound manager  *)
(* (NodeManager) and the tunnel (TunnelPool).  They meet at the list of    *)
(* running nodes, which the manager hands to the tunnel under t.mu with    *)
(* m.mu held, at the ports of the one machine, and in main, which at exit  *)
(* stops the one and then the other.  A step here is a step of one of them *)
(* which the other sees as one of its environment, or none.                *)
(***************************************************************************)
EXTENDS Integers, FiniteSets

CONSTANTS Nodes, Undialable, MaxPort, BasePorts, Callers, MaxConns,  \* of NodeManager
          Clients,  \* of the tunnel port
          Admins,   \* goroutines that stop or update the tunnel
          Main,     \* main, which calls both
          NoOne, NoPort, Free, Tunnel, Other

ASSUME ProxyAssumption ==
  /\ Undialable \subseteq Nodes
  /\ MaxPort \in Nat
  /\ BasePorts \subseteq 1..MaxPort /\ BasePorts # {}
  /\ MaxConns \in Nat
  /\ Callers \cap Admins = {Main}
  /\ Clients \cap (Callers \cup Admins) = {}
  /\ NoOne \notin Callers \cup Admins \cup Clients \cup Nodes
  /\ NoPort \notin 1..MaxPort
  /\ {Free, Tunnel, Other} \cap Nodes = {}
  /\ Free # Tunnel /\ Free # Other /\ Tunnel # Other

VARIABLES socket,       \* OS: who listens on a port
          activeNodes,  \* the nodes of t.activeNodes
          basePort, usedPorts, runningNodes, mu, task, todo, pc, closing, conns,  \* NodeManager
          config, inbound, tmu, step, thenStart, client, exiting                  \* TunnelPool

managerOnly == <<basePort, usedPorts, runningNodes, mu, task, todo, pc, closing, conns>>
tunnelOnly == <<config, inbound, tmu, step, thenStart, client, exiting>>
proxyVars == <<socket, activeNodes, managerOnly, tunnelOnly>>

Ports == 1..MaxPort

\* Each takes the sockets of the other for those of some other program.
NodeSocket == [p \in Ports |-> IF socket[p] = Tunnel THEN Other ELSE socket[p]]
TunnelSocket == [p \in Ports |-> IF socket[p] \in {Free, Tunnel} THEN socket[p] ELSE Other]

M == INSTANCE NodeManager WITH socket <- NodeSocket
T == INSTANCE TunnelPool
       WITH socket <- TunnelSocket, mu <- tmu, stage <- client, Conns <- Clients, Shared <- Ports

\* main starts the tunnel before there is a manager.
ProxyInit ==
  /\ socket \in [Ports -> {Free, Tunnel, Other}]
  /\ M!Init
  /\ T!Init

-----------------------------------------------------------------------------
\* Of the sockets a step changes one, if any, from and to values in S.
Binds(S) ==
  \/ UNCHANGED socket
  \/ \E p \in Ports, v \in S : socket[p] \in S /\ socket' = [socket EXCEPT ![p] = v]

\* Mutant: the list is replaced without t.mu.
SyncTunnelUnlocked(c) == M!SyncTunnel(c)

\* syncTunnelLocked: UpdateActiveNodes takes t.mu, m.mu is held.
SyncTunnel(c) == M!SyncTunnel(c) /\ tmu = NoOne

ManagerStep ==
  /\ Binds(Nodes \cup {Free})
  /\ UNCHANGED tunnelOnly
  /\ \/ \E b \in BasePorts : M!SetBasePort(b)
     \/ \E c \in Callers \ {Main} : M!Call(c) \/ M!Return(c)
     \/ \E c \in Callers : SyncTunnel(c) \/ M!SweepDone(c) \/ \E n \in Nodes : M!NodeStep(c, n)
     \/ \E n \in Nodes : M!ConnOpen(n) \/ M!ConnEnd(n)

TunnelStep ==
  /\ Binds({Free, Tunnel})
  /\ UNCHANGED <<activeNodes, managerOnly>>
  /\ \/ \E a \in Admins : T!AdminStep(a) \/ \E cfg \in T!Config : T!UpdateConfig(a, cfg)
     \/ \E x \in Clients : T!Connect(x) \/ T!FirstByte(x) \/ T!HangUp(x) \/ T!GetDialer(x)

\* The signal: main stops all nodes ...
Signal ==
  /\ ~exiting
  /\ UNCHANGED <<socket, tunnelOnly>>
  /\ M!CallStopAll(Main)

\* Mutant: ... and does not wait for that.
MainGoesOnEarly ==
  /\ UNCHANGED socket
  /\ task[Main] # "none"
  /\ task' = [task EXCEPT ![Main] = "none"]
  /\ T!Shutdown
  /\ UNCHANGED <<basePort, usedPorts, runningNodes, mu, todo, pc, closing, conns>>

\* ... and then the tunnel.
MainGoesOn ==
  /\ UNCHANGED socket
  /\ M!Return(Main)
  /\ T!Shutdown

OtherProgram(p) ==
  /\ \/ socket[p] = Free /\ socket' = [socket EXCEPT ![p] = Other]
     \/ socket[p] = Other /\ socket' = [socket EXCEPT ![p] = Free]
  /\ UNCHANGED <<activeNodes, managerOnly, tunnelOnly>>

ProxyNext ==
  \/ ManagerStep \/ TunnelStep
  \/ Signal \/ MainGoesOn
  \/ \E p \in Ports : OtherProgram(p)

ProxySpec == ProxyInit /\ [][ProxyNext]_proxyVars

-----------------------------------------------------------------------------
ProxyTypeOK ==
  /\ M!TypeOK /\ T!TypeOK
  /\ socket \in [Ports -> Nodes \cup {Free, Tunnel, Other}]

\* Manager and tunnel take no step together that they do not take alone: what is
\* shown of each holds here.  The manager replaces the tunnel's list under t.mu
\* only, and main calls StopAll and Stop once, in that order, while requests are
\* served (manager.go:237-251, tunnel.go:43-47, main.go:117-119).
EachKeepsItsSpec == M!Spec /\ T!Spec

\* A node and the tunnel show the same port only while one of them is being
\* closed: its socket is free from the beginning of the close, its entry stays
\* until the clients have left (manager.go:124-126, tunnel.go:124-125).
PortsApart ==
  \A n \in DOMAIN runningNodes :
    inbound = runningNodes[n] =>
      \/ \E c \in Callers : closing[c] = n
      \/ \E a \in Admins : step[a] = "drain"

-----------------------------------------------------------------------------
(* Who waits for whom                                                      *)

Goroutines == Callers \cup Admins \cup Clients

\* Who has not begun its call waits with no lock, so no one waits for it.
WaitsFor(p, q) ==
  \/ p \in Callers /\ pc[p] = "unlocked" /\ todo[p] # {} /\ q = mu
  \/ p \in Callers /\ pc[p] = "sync" /\ q = tmu
  \/ p \in Admins /\ step[p] \in {"stop", "start"} /\ q = tmu
  \/ p \in Admins /\ step[p] = "drain" /\ q \in Clients /\ client[q] # "out"
  \/ p \in Clients /\ client[p] = "dial" /\ q = tmu

\* A stop of the tunnel, with t.mu held, waits for a handler that waits for t.mu
\* (tunnel.go:51, 117, 124).
Stuck == \E a \in Admins, x \in Clients : step[a] = "drain" /\ client[x] = "dial"

\* That is the one deadlock of the two locks: but for it, no goroutines wait for
\* each other in a circle, whatever starts, stops, updates and connections
\* interleave.  m.mu comes before t.mu, and who drains waits for clients only.
OnlyThatDeadlock ==
  \/ Stuck
  \/ \A S \in (SUBSET Goroutines) \ {{}} : \E p \in S : \A q \in S : ~WaitsFor(p, q)

\* Nothing ends it: t.mu stays as it is, and a caller of the manager who comes to
\* tell the tunnel waits for ever with m.mu held.
StuckForGood ==
  [][Stuck =>
       /\ Stuck' /\ UNCHANGED tmu
       /\ \A c \in Callers : pc[c] = "sync" => pc'[c] = "sync" /\ mu' = mu]_proxyVars

\* Of the two locks there is that one deadlock, and it takes whoever needs t.mu
\* with it (manager.go:250, tunnel.go:51, 117-127).
OneDeadlock == []OnlyThatDeadlock /\ StuckForGood
=============================================================================
