---------------------------- MODULE NodeManager ----------------------------
(***************************************************************************)
(* pkg/proxy/manager.go: the inbound manager.  It owns one listener per    *)
(* running node, hands out the local ports, and keeps the tunnel pool's    *)
(* list of active nodes in step with the nodes that run.                   *)
(*                                                                         *)
(* Every operation holds m.mu.  A start is one critical section; a stop    *)
(* keeps m.mu while InboundListener.Close waits for the connections of the *)
(* node to end; StartAll and StopBatch release m.mu between two nodes;     *)
(* StopAll keeps it throughout.  The tunnel has its own lock, so what the  *)
(* tunnel reads (activeNodes) is a separate step from the change of        *)
(* runningNodes that precedes it.                                          *)
(***************************************************************************)
EXTENDS Integers, FiniteSets

CONSTANTS Nodes,       \* node IDs
          Undialable,  \* nodes NewDialerFromNode refuses
          MaxPort,     \* highest TCP port (65535)
          BasePorts,   \* values of base_inbound_port
          Callers,     \* goroutines calling the manager
          MaxConns,    \* bound on the open connections of a node
          NoOne, Free, Other

ASSUME ManagerAssumption ==
  /\ Undialable \subseteq Nodes
  /\ MaxPort \in Nat
  /\ BasePorts \subseteq 1..MaxPort
  /\ BasePorts # {}
  /\ MaxConns \in Nat
  /\ NoOne \notin Callers
  /\ NoOne \notin Nodes
  /\ Free \notin Nodes
  /\ Other \notin Nodes
  /\ Free # Other

VARIABLES basePort,
          usedPorts,     \* port -> node ID
          runningNodes,  \* node ID -> its port (nodeRuntime.port)
          activeNodes,   \* the node IDs in the tunnel pool's list
          mu,            \* the caller that holds m.mu
          task, todo,    \* per caller: its call, the nodes of its list still to do
          pc,            \* per caller: where it is while it holds m.mu
          closing,       \* per caller: the node whose listener it closes
          socket,        \* OS: who listens on a port
          conns          \* per node: handlers its listener waits for

managerVars == <<basePort, usedPorts, runningNodes, activeNodes>>
callVars == <<mu, task, todo, pc, closing>>
vars == <<managerVars, callVars, socket, conns>>

TypeOK ==
  /\ basePort \in BasePorts
  /\ DOMAIN usedPorts \subseteq Nat
  /\ usedPorts \in [DOMAIN usedPorts -> Nodes]
  /\ DOMAIN runningNodes \subseteq Nodes
  /\ runningNodes \in [DOMAIN runningNodes -> 1..MaxPort]
  /\ activeNodes \subseteq Nodes
  /\ mu \in Callers \cup {NoOne}
  /\ task \in [Callers -> {"none", "start", "stop", "stopAll"}]
  /\ todo \in [Callers -> SUBSET Nodes]
  /\ pc \in [Callers -> {"unlocked", "close", "sweep", "sync"}]
  /\ closing \in [Callers -> Nodes \cup {NoOne}]
  /\ socket \in [1..MaxPort -> Nodes \cup {Free, Other}]
  /\ conns \in [Nodes -> 0..MaxConns]

Running == DOMAIN runningNodes

Init ==
  /\ basePort \in BasePorts
  /\ usedPorts = << >>
  /\ runningNodes = << >>
  /\ activeNodes = {}
  /\ mu = NoOne
  /\ task = [c \in Callers |-> "none"]
  /\ todo = [c \in Callers |-> {}]
  /\ pc = [c \in Callers |-> "unlocked"]
  /\ closing = [c \in Callers |-> NoOne]
  /\ socket \in [1..MaxPort -> {Free, Other}]
  /\ conns = [n \in Nodes |-> 0]

-----------------------------------------------------------------------------
(* Operators on the partial functions Go calls maps, and the ports.        *)

Put(f, k, v) == [x \in DOMAIN f \cup {k} |-> IF x = k THEN v ELSE f[x]]
Delete(f, k) == [x \in DOMAIN f \ {k} |-> f[x]]

\* The first port from base on that the manager has not handed out.
AllocatePort(used, base) ==
  CHOOSE p \in base..(base + Cardinality(DOMAIN used)) :
    /\ p \notin DOMAIN used
    /\ \A q \in base..(p - 1) : q \in DOMAIN used

\* Mutant: the range of the port numbers is not checked.
CanListenAnyNumber(p) == p \notin DOMAIN socket \/ socket[p] = Free

\* net.Listen succeeds: a port number, and no one listens on it.
CanListen(p) == p \in 1..MaxPort /\ socket[p] = Free

\* InboundListener.Close up to its wait: the port no longer accepts.
CloseListener(c, n) ==
  /\ socket' = [socket EXCEPT ![runningNodes[n]] = Free]
  /\ closing' = [closing EXCEPT ![c] = n]
  /\ mu' = c
  /\ pc' = [pc EXCEPT ![c] = "close"]

-----------------------------------------------------------------------------
(* Calls.  todo is a set: the code's list order is any order here.         *)

SetBasePort(b) ==
  /\ mu = NoOne
  /\ basePort' = b
  /\ UNCHANGED <<usedPorts, runningNodes, activeNodes, callVars, socket, conns>>

\* StartNode and StopNode are StartAll and StopBatch of one node.
CallBatch(c, op, S) ==
  /\ task[c] = "none"
  /\ task' = [task EXCEPT ![c] = op]
  /\ todo' = [todo EXCEPT ![c] = S]
  /\ UNCHANGED <<managerVars, mu, pc, closing, socket, conns>>

CallStopAll(c) ==
  /\ task[c] = "none"
  /\ mu = NoOne
  /\ mu' = c
  /\ task' = [task EXCEPT ![c] = "stopAll"]
  /\ pc' = [pc EXCEPT ![c] = "sweep"]
  /\ UNCHANGED <<managerVars, todo, closing, socket, conns>>

Return(c) ==
  /\ task[c] # "none"
  /\ pc[c] = "unlocked"
  /\ todo[c] = {}
  /\ task' = [task EXCEPT ![c] = "none"]
  /\ UNCHANGED <<managerVars, mu, todo, pc, closing, socket, conns>>

\* The next node of a batch, with m.mu free for the taking.
Take(c, op, n) ==
  /\ task[c] = op
  /\ pc[c] = "unlocked"
  /\ n \in todo[c]
  /\ mu = NoOne
  /\ todo' = [todo EXCEPT ![c] = @ \ {n}]
  /\ UNCHANGED <<basePort, activeNodes, task, conns>>

\* An early return of StartNode or StopNode that changes nothing.
NothingDone == UNCHANGED <<usedPorts, runningNodes, mu, pc, closing, socket>>

-----------------------------------------------------------------------------
(* StartNode.                                                              *)

\* Already running, or NewDialerFromNode refuses the node.
StartRefused(c, n) ==
  /\ Take(c, "start", n)
  /\ n \in Running \cup Undialable
  /\ NothingDone

\* The allocated port cannot be bound; its entry of usedPorts is taken back.
StartBindError(c, n) ==
  /\ Take(c, "start", n)
  /\ n \notin Running \cup Undialable
  /\ ~CanListen(AllocatePort(usedPorts, basePort))
  /\ NothingDone

\* Mutant: without the early return for a node that runs.
StartAgain(c, n) ==
  /\ Take(c, "start", n)
  /\ n \notin Undialable
  /\ LET p == AllocatePort(usedPorts, basePort)
     IN  /\ CanListen(p)
         /\ usedPorts' = Put(usedPorts, p, n)
         /\ runningNodes' = Put(runningNodes, n, p)
         /\ socket' = [socket EXCEPT ![p] = n]
  /\ mu' = c
  /\ pc' = [pc EXCEPT ![c] = "sync"]
  /\ UNCHANGED closing

Start(c, n) ==
  /\ Take(c, "start", n)
  /\ n \notin Running \cup Undialable
  /\ LET p == AllocatePort(usedPorts, basePort)
     IN  /\ CanListen(p)
         /\ usedPorts' = Put(usedPorts, p, n)
         /\ runningNodes' = Put(runningNodes, n, p)
         /\ socket' = [socket EXCEPT ![p] = n]
  /\ mu' = c
  /\ pc' = [pc EXCEPT ![c] = "sync"]
  /\ UNCHANGED closing

-----------------------------------------------------------------------------
(* StopNode and StopAll.                                                   *)

StopNotRunning(c, n) ==
  /\ Take(c, "stop", n)
  /\ n \notin Running
  /\ NothingDone

Stop(c, n) ==
  /\ Take(c, "stop", n)
  /\ n \in Running
  /\ CloseListener(c, n)
  /\ UNCHANGED <<usedPorts, runningNodes>>

SweepNode(c, n) ==
  /\ pc[c] = "sweep"
  /\ n \in Running
  /\ CloseListener(c, n)
  /\ UNCHANGED <<managerVars, task, todo, conns>>

SweepDone(c) ==
  /\ pc[c] = "sweep"
  /\ Running = {}
  /\ pc' = [pc EXCEPT ![c] = "sync"]
  /\ UNCHANGED <<managerVars, mu, task, todo, closing, socket, conns>>

\* Mutant: the tunnel is not told.
ForgetWithoutSync(c, n) ==
  /\ pc[c] = "close"
  /\ closing[c] = n
  /\ conns[n] = 0
  /\ usedPorts' = Delete(usedPorts, runningNodes[n])
  /\ runningNodes' = Delete(runningNodes, n)
  /\ closing' = [closing EXCEPT ![c] = NoOne]
  /\ pc' = [pc EXCEPT ![c] = IF task[c] = "stopAll" THEN "sweep" ELSE "unlocked"]
  /\ mu' = IF task[c] = "stopAll" THEN mu ELSE NoOne
  /\ UNCHANGED <<basePort, activeNodes, task, todo, socket, conns>>

\* Close returns once the handlers have ended, and the node is forgotten.
Forget(c, n) ==
  /\ pc[c] = "close"
  /\ closing[c] = n
  /\ conns[n] = 0
  /\ usedPorts' = Delete(usedPorts, runningNodes[n])
  /\ runningNodes' = Delete(runningNodes, n)
  /\ closing' = [closing EXCEPT ![c] = NoOne]
  /\ pc' = [pc EXCEPT ![c] = IF task[c] = "stopAll" THEN "sweep" ELSE "sync"]
  /\ UNCHANGED <<basePort, activeNodes, mu, task, todo, socket, conns>>

\* Mutant: m.mu is not unlocked.
SyncTunnelKeepsLock(c) ==
  /\ pc[c] = "sync"
  /\ activeNodes' = Running
  /\ pc' = [pc EXCEPT ![c] = "unlocked"]
  /\ UNCHANGED <<basePort, usedPorts, runningNodes, mu, task, todo, closing, socket, conns>>

\* syncTunnelLocked, then the deferred unlock.
SyncTunnel(c) ==
  /\ pc[c] = "sync"
  /\ activeNodes' = Running
  /\ mu' = NoOne
  /\ pc' = [pc EXCEPT ![c] = "unlocked"]
  /\ UNCHANGED <<basePort, usedPorts, runningNodes, task, todo, closing, socket, conns>>

-----------------------------------------------------------------------------
(* Clients of a node's port, and the other users of the machine's ports    *)
(* (the tunnel and the dashboard of this process are among them).          *)

ConnOpen(n) ==
  /\ \E p \in 1..MaxPort : socket[p] = n
  /\ conns[n] < MaxConns
  /\ conns' = [conns EXCEPT ![n] = @ + 1]
  /\ UNCHANGED <<managerVars, callVars, socket>>

ConnEnd(n) ==
  /\ conns[n] > 0
  /\ conns' = [conns EXCEPT ![n] = @ - 1]
  /\ UNCHANGED <<managerVars, callVars, socket>>

OtherBinds(p) ==
  /\ socket[p] = Free
  /\ socket' = [socket EXCEPT ![p] = Other]
  /\ UNCHANGED <<managerVars, callVars, conns>>

OtherReleases(p) ==
  /\ socket[p] = Other
  /\ socket' = [socket EXCEPT ![p] = Free]
  /\ UNCHANGED <<managerVars, callVars, conns>>

-----------------------------------------------------------------------------
NodeStep(c, n) ==
  \/ StartRefused(c, n) \/ StartBindError(c, n) \/ Start(c, n)
  \/ StopNotRunning(c, n) \/ Stop(c, n)
  \/ SweepNode(c, n) \/ Forget(c, n)

CallerStep(c) ==
  \/ \E n \in Nodes : NodeStep(c, n)
  \/ SweepDone(c) \/ SyncTunnel(c) \/ Return(c)

Call(c) ==
  \/ \E op \in {"start", "stop"}, S \in SUBSET Nodes : CallBatch(c, op, S)
  \/ CallStopAll(c)

Environment ==
  \/ \E n \in Nodes : ConnOpen(n) \/ ConnEnd(n)
  \/ \E p \in 1..MaxPort : OtherBinds(p) \/ OtherReleases(p)

Next ==
  \/ \E b \in BasePorts : SetBasePort(b)
  \/ \E c \in Callers : Call(c) \/ CallerStep(c)
  \/ Environment

Spec == Init /\ [][Next]_vars

\* The scheduler runs every caller; sync.RWMutex lets no waiter starve, so a
\* caller that finds m.mu free again and again gets it.
FairSpec == Spec /\ \A c \in Callers : SF_vars(CallerStep(c))

-----------------------------------------------------------------------------
(* Safety.                                                                 *)

\* usedPorts is the inverse of runningNodes: every running node's port is
\* reserved for it and no reservation outlives its node, whatever starts,
\* failed binds, stops and changes of the base port came before
\* (manager.go:87-105, 124-126, 178-184).  So no two nodes share a port.
PortTable ==
  /\ \A n \in Running : /\ runningNodes[n] \in DOMAIN usedPorts
                         /\ usedPorts[runningNodes[n]] = n
  /\ \A p \in DOMAIN usedPorts : /\ usedPorts[p] \in Running
                                 /\ runningNodes[usedPorts[p]] = p

\* The sockets of the process are those of its running nodes: a running node
\* listens on the port the API reports for it, unless its stop has begun, and
\* no listener is left behind by a stop or a failed start.
ListenersMatchTable ==
  /\ \A n \in Running : \/ socket[runningNodes[n]] = n
                        \/ \E c \in Callers : closing[c] = n
  /\ \A p \in 1..MaxPort : socket[p] \in Nodes =>
       /\ socket[p] \in Running
       /\ runningNodes[socket[p]] = p
       /\ \A c \in Callers : closing[c] # socket[p]

\* Whenever m.mu is free the tunnel pool holds exactly the running nodes: no
\* caller can find a node stopped that the tunnel still dials through, or the
\* reverse (syncTunnelLocked is called by every operation that changes them).
TunnelInSync == mu = NoOne => activeNodes = Running

\* What every caller of the manager relies on, whatever calls came before it
\* and in what order their steps fell: table, sockets and tunnel agree.
TablesAgree == PortTable /\ ListenersMatchTable /\ TunnelInSync

\* A running node keeps its port until it is stopped, through any change of
\* the base port and any repeated start (manager.go:68-71).
PortStable ==
  [][\A n \in Running : n \in DOMAIN runningNodes'
                         => runningNodes'[n] = runningNodes[n]]_vars

-----------------------------------------------------------------------------
(* Liveness.                                                               *)

\* Every call returns, provided every client of a listener that is being
\* closed hangs up some day: Close (inbound.go:92) waits for them with m.mu
\* held, and nothing in the code ends a connection.
ClientsLeave == \A n \in Nodes : []<>(conns[n] = 0)
CallsReturn == \A c \in Callers : (task[c] # "none") ~> (task[c] = "none")
CallsReturnOnceClientsLeave == ClientsLeave => CallsReturn

-----------------------------------------------------------------------------
(* The promise to the callers.                                             *)

Serving == {n \in Running : \A c \in Callers : closing[c] # n}

Pool == INSTANCE NodePool
          WITH Port <- 1..MaxPort, lease <- runningNodes, serving <- Serving

\* The manager hands out ports the way NodePool says: a port is leased with
\* its listener open, first retired, and free again only after that.
ManagerIsNodePool == Pool!Spec

=============================================================================
