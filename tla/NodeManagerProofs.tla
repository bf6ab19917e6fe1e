------------------------- MODULE NodeManagerProofs -------------------------
(***************************************************************************)
(* Proofs about NodeManager, for any sets of nodes, callers, base ports    *)
(* and any highest port.                                                   *)
(***************************************************************************)
EXTENDS NodeManager, FiniteSetTheorems, WellFoundedInduction, TLAPS

-----------------------------------------------------------------------------
(* AllocatePort.                                                           *)

\* A nonempty set of naturals has a least element.
LEMMA LeastNatural ==
  ASSUME NEW S \in SUBSET Nat, S # {}
  PROVE  \E m \in S : \A k \in S : m <= k
<1>. DEFINE T == {0..m : m \in S}
<1>1. IsWellFoundedOn(StrictSubsetOrdering(Nat), FiniteSubsetsOf(Nat))
  BY FS_StrictSubsetOrderingWellFounded
<1>2. T \subseteq FiniteSubsetsOf(Nat) /\ T # {}
  <2>1. ASSUME NEW m \in S PROVE 0..m \subseteq Nat /\ IsFiniteSet(0..m)
    BY FS_Interval
  <2>. QED
    BY <2>1 DEF FiniteSubsetsOf
<1>3. PICK x \in T : \A y \in T : ~ (<<y, x>> \in StrictSubsetOrdering(Nat))
  BY <1>1, <1>2, WFMin
<1>4. PICK m \in S : x = 0..m
  BY <1>3
<1>5. ASSUME NEW k \in S PROVE m <= k
  <2>1. SUFFICES ASSUME k < m PROVE FALSE
    OBVIOUS
  <2>2. 0..k \subseteq 0..m /\ 0..k # 0..m
    <3>1. m \in 0..m /\ m \notin 0..k
      BY <2>1
    <3>. QED
      BY <2>1, <3>1
  <2>3. <<0..k, 0..m>> \in StrictSubsetOrdering(Nat)
    BY <2>2 DEF StrictSubsetOrdering
  <2>. QED
    BY <2>3, <1>3, <1>4
<1>. QED
  BY <1>5

\* However the table of used ports looks, the manager finds the first port
\* from the base port on that the table does not hold (allocatePort).
LEMMA AllocatePortIsFree ==
  ASSUME NEW used, IsFiniteSet(DOMAIN used), NEW base \in Nat
  PROVE  LET p == AllocatePort(used, base)
         IN  /\ p \in base..(base + Cardinality(DOMAIN used))
             /\ p \notin DOMAIN used
             /\ \A q \in base..(p - 1) : q \in DOMAIN used
<1>. DEFINE k == Cardinality(DOMAIN used)
            R == base..(base + k)
            Fresh == R \ DOMAIN used
<1>1. k \in Nat
  BY FS_CardinalityType
<1>2. IsFiniteSet(R) /\ Cardinality(R) = k + 1
  BY <1>1, FS_Interval
<1>3. Fresh # {}
  <2>1. SUFFICES ASSUME Fresh = {} PROVE FALSE
    OBVIOUS
  <2>2. R \subseteq DOMAIN used
    BY <2>1
  <2>3. Cardinality(R) <= k
    BY <2>2, FS_Subset
  <2>. QED
    BY <1>1, <1>2, <2>3
<1>4. PICK p \in Fresh : \A q \in Fresh : p <= q
  <2>1. Fresh \in SUBSET Nat
    BY <1>1
  <2>. QED
    BY <2>1, <1>3, LeastNatural
<1>5. p \in R /\ p \notin DOMAIN used
  BY <1>4
<1>6. \A q \in base..(p - 1) : q \in DOMAIN used
  <2>1. SUFFICES ASSUME NEW q \in base..(p - 1), q \notin DOMAIN used
                 PROVE  FALSE
    OBVIOUS
  <2>2. q \in R
    BY <1>1, <1>5, <2>1
  <2>3. p <= q
    BY <1>4, <2>1, <2>2
  <2>. QED
    BY <1>1, <1>5, <2>1, <2>3
<1>. QED
  BY <1>5, <1>6 DEF AllocatePort

-----------------------------------------------------------------------------
(* The inductive invariant: PortTable and ListenersMatchTable need to know  *)
(* who holds m.mu, and that a node being closed is still in the table.      *)

\* A caller is inside a critical section exactly while it holds m.mu.
LockHeld == \A c \in Callers : pc[c] # "unlocked" <=> mu = c

\* A listener is being closed by the holder of m.mu only, and its node is
\* still in runningNodes.
CloseInProgress ==
  \A c \in Callers : IF pc[c] = "close" THEN closing[c] \in Running
                                       ELSE closing[c] = NoOne

IInv ==
  /\ TypeOK
  /\ IsFiniteSet(DOMAIN usedPorts)
  /\ LockHeld
  /\ CloseInProgress
  /\ PortTable
  /\ ListenersMatchTable
  /\ TunnelInSync

LEMMA InitIInv == Init => IInv
<1>. SUFFICES ASSUME Init PROVE IInv
  OBVIOUS
<1>. USE ManagerAssumption DEF Init
<1>1. DOMAIN usedPorts = {} /\ Running = {}
  BY DEF Running
<1>2. TypeOK
  BY <1>1 DEF TypeOK, Running
<1>3. IsFiniteSet(DOMAIN usedPorts)
  BY <1>1, FS_EmptySet
<1>4. LockHeld /\ CloseInProgress /\ PortTable /\ TunnelInSync
  BY <1>1 DEF LockHeld, CloseInProgress, PortTable, TunnelInSync
<1>5. ListenersMatchTable
  BY <1>1 DEF ListenersMatchTable
<1>. QED
  BY <1>2, <1>3, <1>4, <1>5 DEF IInv

\* An early return, a call and a return disturb nothing but task and todo.
LEMMA BatchStepIInv ==
  ASSUME IInv, TypeOK',
         UNCHANGED <<usedPorts, runningNodes, activeNodes, mu, pc, closing, socket>>
  PROVE  IInv'
BY DEF IInv, LockHeld, CloseInProgress, PortTable, ListenersMatchTable,
       TunnelInSync, Running

LEMMA StartIInv ==
  ASSUME IInv, NEW c \in Callers, NEW n \in Nodes, Start(c, n)
  PROVE  IInv'
<1>. DEFINE p == AllocatePort(usedPorts, basePort)
<1>. USE ManagerAssumption DEF IInv
<1>1. /\ mu = NoOne /\ n \notin Running
      /\ p \in 1..MaxPort /\ socket[p] = Free
      /\ usedPorts' = Put(usedPorts, p, n)
      /\ runningNodes' = Put(runningNodes, n, p)
      /\ socket' = [socket EXCEPT ![p] = n]
      /\ mu' = c /\ pc' = [pc EXCEPT ![c] = "sync"]
      /\ todo' = [todo EXCEPT ![c] = @ \ {n}]
      /\ UNCHANGED <<basePort, activeNodes, task, conns, closing>>
  BY DEF Start, Take, CanListen
<1>2. p \notin DOMAIN usedPorts
  <2>1. basePort \in Nat
    BY DEF TypeOK
  <2>. QED
    BY <2>1, AllocatePortIsFree
<1>. HIDE DEF p
<1>3. /\ DOMAIN usedPorts' = DOMAIN usedPorts \cup {p}
      /\ usedPorts'[p] = n
      /\ \A q \in DOMAIN usedPorts : usedPorts'[q] = usedPorts[q]
  BY <1>1, <1>2 DEF Put
<1>4. /\ Running' = Running \cup {n}
      /\ runningNodes'[n] = p
      /\ \A m \in Running : runningNodes'[m] = runningNodes[m]
  BY <1>1 DEF Put, Running
<1>5. TypeOK'
  <2>1. usedPorts' \in [DOMAIN usedPorts' -> Nodes] /\ DOMAIN usedPorts' \subseteq Nat
    BY <1>1, <1>3 DEF TypeOK, Put
  <2>2. runningNodes' \in [DOMAIN runningNodes' -> 1..MaxPort] /\ DOMAIN runningNodes' \subseteq Nodes
    BY <1>1, <1>4 DEF TypeOK, Put, Running
  <2>. QED
    BY <1>1, <2>1, <2>2 DEF TypeOK
<1>6. IsFiniteSet(DOMAIN usedPorts')
  BY <1>3, FS_AddElement
<1>7. LockHeld'
  BY <1>1 DEF LockHeld, TypeOK
<1>8. CloseInProgress'
  <2>1. pc[c] = "unlocked"
    BY <1>1 DEF LockHeld
  <2>. QED
    BY <1>1, <1>4, <2>1 DEF CloseInProgress, TypeOK
<1>9. PortTable'
  BY <1>1, <1>2, <1>3, <1>4 DEF PortTable
<1>10. ListenersMatchTable'
  <2>1. \A m \in Running : runningNodes[m] # p
    BY <1>2 DEF PortTable
  <2>2. \A d \in Callers : closing[d] # n
    BY <1>1 DEF CloseInProgress
  <2>3. \A m \in Running' : \/ socket'[runningNodes'[m]] = m
                            \/ \E d \in Callers : closing'[d] = m
    BY <1>1, <1>4, <2>1 DEF ListenersMatchTable, TypeOK, Running
  <2>4. ASSUME NEW q \in 1..MaxPort, socket'[q] \in Nodes
        PROVE  /\ socket'[q] \in Running'
               /\ runningNodes'[socket'[q]] = q
               /\ \A d \in Callers : closing'[d] # socket'[q]
    <3>1. CASE q = p
      BY <1>1, <1>4, <2>2, <3>1 DEF TypeOK
    <3>2. CASE q # p
      BY <1>1, <1>4, <2>4, <3>2 DEF ListenersMatchTable, TypeOK
    <3>. QED
      BY <3>1, <3>2
  <2>. QED
    BY <2>3, <2>4 DEF ListenersMatchTable
<1>11. TunnelInSync'
  BY <1>1 DEF TunnelInSync
<1>. QED
  BY <1>5, <1>6, <1>7, <1>8, <1>9, <1>10, <1>11

\* Close has taken the listener of a running node off its port.
LEMMA CloseListenerIInv ==
  ASSUME IInv, TypeOK', NEW c \in Callers, NEW n \in Running, CloseListener(c, n),
         mu \in {NoOne, c}, closing[c] = NoOne,
         UNCHANGED <<usedPorts, runningNodes, activeNodes>>
  PROVE  IInv'
<1>. USE ManagerAssumption DEF IInv
<1>1. /\ socket' = [socket EXCEPT ![runningNodes[n]] = Free]
      /\ closing' = [closing EXCEPT ![c] = n]
      /\ mu' = c
      /\ pc' = [pc EXCEPT ![c] = "close"]
      /\ Running' = Running
      /\ runningNodes[n] \in 1..MaxPort
  BY DEF CloseListener, Running, TypeOK
<1>2. LockHeld' /\ CloseInProgress'
  BY <1>1 DEF LockHeld, CloseInProgress, TypeOK
<1>3. PortTable' /\ TunnelInSync'
  BY <1>1 DEF PortTable, TunnelInSync
<1>4. ListenersMatchTable'
  <2>1. \A d \in Callers : closing'[d] = IF d = c THEN n ELSE closing[d]
    BY <1>1 DEF TypeOK
  <2>2. \A d \in Callers : closing[d] \in Nodes => closing'[d] = closing[d]
    BY <2>1
  <2>3. ASSUME NEW m \in Running
        PROVE  \/ socket'[runningNodes[m]] = m
               \/ \E d \in Callers : closing'[d] = m
    <3>1. CASE m = n
      BY <2>1, <3>1
    <3>2. CASE m # n
      <4>1. runningNodes[m] # runningNodes[n]
        BY <3>2 DEF PortTable
      <4>2. m \in Nodes /\ runningNodes[m] \in 1..MaxPort
        BY DEF TypeOK, Running
      <4>. QED
        BY <1>1, <2>2, <4>1, <4>2 DEF ListenersMatchTable, TypeOK
    <3>. QED
      BY <3>1, <3>2
  <2>4. ASSUME NEW q \in 1..MaxPort, socket'[q] \in Nodes
        PROVE  /\ socket'[q] \in Running
               /\ runningNodes[socket'[q]] = q
               /\ \A d \in Callers : closing'[d] # socket'[q]
    <3>1. q # runningNodes[n] /\ socket'[q] = socket[q]
      BY <1>1, <2>4 DEF TypeOK
    <3>. QED
      BY <2>1, <2>4, <3>1 DEF ListenersMatchTable
  <2>. QED
    BY <1>1, <2>3, <2>4 DEF ListenersMatchTable
<1>. QED
  BY <1>2, <1>3, <1>4

LEMMA StopIInv ==
  ASSUME IInv, NEW c \in Callers, NEW n \in Nodes, Stop(c, n)
  PROVE  IInv'
<1>1. TypeOK'
  BY ManagerAssumption DEF IInv, TypeOK, Stop, Take, CloseListener
<1>2. closing[c] = NoOne /\ mu = NoOne /\ n \in Running
  BY DEF IInv, Stop, Take, CloseInProgress
<1>. QED
  BY <1>1, <1>2, CloseListenerIInv DEF Stop, Take

LEMMA SweepNodeIInv ==
  ASSUME IInv, NEW c \in Callers, NEW n \in Nodes, SweepNode(c, n)
  PROVE  IInv'
<1>1. TypeOK'
  BY ManagerAssumption DEF IInv, TypeOK, SweepNode, managerVars, CloseListener
<1>2. closing[c] = NoOne /\ mu = c /\ n \in Running
  BY DEF IInv, SweepNode, CloseInProgress, LockHeld
<1>. QED
  BY <1>1, <1>2, CloseListenerIInv DEF SweepNode, managerVars

LEMMA ForgetIInv ==
  ASSUME IInv, NEW c \in Callers, NEW n \in Nodes, Forget(c, n)
  PROVE  IInv'
<1>. DEFINE p == runningNodes[n]
<1>. USE ManagerAssumption DEF IInv
<1>1. /\ pc[c] = "close" /\ closing[c] = n
      /\ usedPorts' = Delete(usedPorts, p)
      /\ runningNodes' = Delete(runningNodes, n)
      /\ closing' = [closing EXCEPT ![c] = NoOne]
      /\ pc' \in {[pc EXCEPT ![c] = "sweep"], [pc EXCEPT ![c] = "sync"]}
      /\ UNCHANGED <<basePort, activeNodes, mu, task, todo, socket, conns>>
  BY DEF Forget
<1>2. n \in Running /\ p \in DOMAIN usedPorts /\ usedPorts[p] = n
  BY <1>1 DEF CloseInProgress, PortTable
<1>3. /\ DOMAIN usedPorts' = DOMAIN usedPorts \ {p}
      /\ \A q \in DOMAIN usedPorts' : usedPorts'[q] = usedPorts[q]
  BY <1>1 DEF Delete
<1>4. /\ Running' = Running \ {n}
      /\ \A m \in Running' : runningNodes'[m] = runningNodes[m]
  BY <1>1 DEF Delete, Running
<1>5. mu = c
  BY <1>1 DEF LockHeld
<1>6. TypeOK'
  <2>1. usedPorts' \in [DOMAIN usedPorts' -> Nodes] /\ DOMAIN usedPorts' \subseteq Nat
    BY <1>1, <1>3 DEF TypeOK, Delete
  <2>2. runningNodes' \in [DOMAIN runningNodes' -> 1..MaxPort] /\ DOMAIN runningNodes' \subseteq Nodes
    BY <1>1, <1>4 DEF TypeOK, Delete, Running
  <2>3. pc' \in [Callers -> {"unlocked", "close", "sweep", "sync"}]
    BY <1>1 DEF TypeOK
  <2>. QED
    BY <1>1, <2>1, <2>2, <2>3 DEF TypeOK
<1>7. IsFiniteSet(DOMAIN usedPorts')
  BY <1>3, FS_RemoveElement
<1>8. LockHeld'
  BY <1>1, <1>5 DEF LockHeld, TypeOK
<1>9. CloseInProgress'
  <2>1. \A d \in Callers \ {c} : pc[d] = "unlocked" /\ closing[d] = NoOne
    BY <1>5 DEF LockHeld, CloseInProgress
  <2>. QED
    BY <1>1, <2>1 DEF CloseInProgress, TypeOK
<1>10. PortTable'
  BY <1>2, <1>3, <1>4 DEF PortTable
<1>11. ListenersMatchTable'
  <2>1. \A d \in Callers \ {c} : closing[d] = NoOne
    BY <1>5 DEF LockHeld, CloseInProgress
  <2>2. \A m \in Running' : m \in Nodes /\ m # n
    BY <1>4 DEF TypeOK, Running
  <2>3. \A m \in Running' : socket[runningNodes[m]] = m
    BY <1>1, <1>4, <2>1, <2>2 DEF ListenersMatchTable
  <2>4. ASSUME NEW q \in 1..MaxPort, socket[q] \in Nodes
        PROVE  /\ socket[q] \in Running'
               /\ runningNodes'[socket[q]] = q
               /\ \A d \in Callers : closing'[d] # socket[q]
    <3>1. socket[q] # n
      BY <1>1, <2>4 DEF ListenersMatchTable
    <3>. QED
      BY <1>1, <1>4, <2>1, <2>4, <3>1 DEF ListenersMatchTable, TypeOK
  <2>. QED
    BY <1>1, <1>4, <2>3, <2>4 DEF ListenersMatchTable
<1>12. TunnelInSync'
  BY <1>1, <1>5 DEF TunnelInSync
<1>. QED
  BY <1>6, <1>7, <1>8, <1>9, <1>10, <1>11, <1>12

LEMMA SyncTunnelIInv ==
  ASSUME IInv, NEW c \in Callers, SyncTunnel(c)
  PROVE  IInv'
<1>. USE ManagerAssumption DEF IInv, SyncTunnel
<1>1. mu = c /\ Running' = Running
  BY DEF LockHeld, Running
<1>2. TypeOK'
  BY DEF TypeOK, Running
<1>3. LockHeld' /\ CloseInProgress'
  BY <1>1 DEF LockHeld, CloseInProgress, TypeOK
<1>4. PortTable' /\ ListenersMatchTable' /\ TunnelInSync'
  BY <1>1 DEF PortTable, ListenersMatchTable, TunnelInSync
<1>. QED
  BY <1>2, <1>3, <1>4

\* The steps of a sweep that only move the sweeper.
LEMMA SweepIInv ==
  ASSUME IInv, NEW c \in Callers, CallStopAll(c) \/ SweepDone(c)
  PROVE  IInv'
<1>. USE ManagerAssumption DEF IInv
<1>1. /\ mu' = c /\ mu \in {NoOne, c} /\ pc[c] # "close"
      /\ pc' \in {[pc EXCEPT ![c] = "sweep"], [pc EXCEPT ![c] = "sync"]}
      /\ UNCHANGED <<basePort, usedPorts, runningNodes, activeNodes, todo, closing, socket, conns>>
      /\ task' \in {task, [task EXCEPT ![c] = "stopAll"]}
  BY DEF CallStopAll, SweepDone, managerVars, LockHeld
<1>2. TypeOK'
  <2>1. pc' \in [Callers -> {"unlocked", "close", "sweep", "sync"}]
    BY <1>1 DEF TypeOK
  <2>2. task' \in [Callers -> {"none", "start", "stop", "stopAll"}]
    BY <1>1 DEF TypeOK
  <2>. QED
    BY <1>1, <2>1, <2>2 DEF TypeOK
<1>3. Running' = Running
  BY <1>1 DEF Running
<1>4. LockHeld'
  BY <1>1 DEF LockHeld, TypeOK
<1>5. CloseInProgress'
  BY <1>1, <1>3 DEF CloseInProgress, TypeOK
<1>6. PortTable' /\ ListenersMatchTable' /\ TunnelInSync'
  BY <1>1, <1>3 DEF PortTable, ListenersMatchTable, TunnelInSync
<1>. QED
  BY <1>1, <1>2, <1>4, <1>5, <1>6

LEMMA EnvironmentIInv ==
  ASSUME IInv, Environment
  PROVE  IInv'
<1>. USE ManagerAssumption DEF IInv
<1>1. CASE \E n \in Nodes : ConnOpen(n) \/ ConnEnd(n)
  <2>1. UNCHANGED <<managerVars, callVars, socket>>
    BY <1>1 DEF ConnOpen, ConnEnd
  <2>2. conns' \in [Nodes -> 0..MaxConns]
    <3>1. PICK n \in Nodes : ConnOpen(n) \/ ConnEnd(n)
      BY <1>1
    <3>2. /\ conns \in [Nodes -> 0..MaxConns] /\ conns[n] \in 0..MaxConns
      BY DEF TypeOK
    <3>3. CASE ConnOpen(n)
      BY <3>2, <3>3 DEF ConnOpen
    <3>4. CASE ConnEnd(n)
      BY <3>2, <3>4 DEF ConnEnd
    <3>. QED
      BY <3>1, <3>3, <3>4
  <2>3. TypeOK'
    BY <2>1, <2>2 DEF TypeOK, managerVars, callVars
  <2>. QED
    BY <2>1, <2>3, BatchStepIInv DEF managerVars, callVars
<1>2. CASE \E p \in 1..MaxPort : OtherBinds(p) \/ OtherReleases(p)
  <2>1. PICK p \in 1..MaxPort : OtherBinds(p) \/ OtherReleases(p)
    BY <1>2
  <2>2. /\ UNCHANGED <<managerVars, callVars, conns>>
        /\ socket[p] \in {Free, Other} /\ socket'[p] \in {Free, Other}
        /\ \A q \in 1..MaxPort \ {p} : socket'[q] = socket[q]
        /\ Running' = Running
    BY <2>1 DEF OtherBinds, OtherReleases, TypeOK, Running, managerVars
  <2>3. TypeOK'
    BY <2>1, <2>2 DEF OtherBinds, OtherReleases, TypeOK, managerVars, callVars
  <2>4. LockHeld' /\ CloseInProgress' /\ PortTable' /\ TunnelInSync'
    BY <2>2 DEF LockHeld, CloseInProgress, PortTable, TunnelInSync, managerVars, callVars
  <2>5. ListenersMatchTable'
    <3>1. \A n \in Running : n \in Nodes /\ runningNodes[n] \in 1..MaxPort
      BY DEF TypeOK, Running
    <3>2. \A n \in Running : socket[runningNodes[n]] = n => runningNodes[n] # p
      BY <2>2, <3>1
    <3>3. \A n \in Running : \/ socket'[runningNodes[n]] = n
                            \/ \E c \in Callers : closing[c] = n
      BY <2>2, <3>1, <3>2 DEF ListenersMatchTable
    <3>4. \A q \in 1..MaxPort : socket'[q] \in Nodes => q # p
      BY <2>2
    <3>. QED
      BY <2>2, <3>3, <3>4 DEF ListenersMatchTable, managerVars, callVars
  <2>. QED
    BY <2>2, <2>3, <2>4, <2>5 DEF managerVars
<1>. QED
  BY <1>1, <1>2 DEF Environment

LEMMA NextIInv ==
  ASSUME IInv, [Next]_vars
  PROVE  IInv'
<1>. USE ManagerAssumption
<1>1. ASSUME NEW b \in BasePorts, SetBasePort(b) PROVE IInv'
  <2>1. TypeOK'
    BY <1>1 DEF IInv, TypeOK, SetBasePort, callVars
  <2>. QED
    BY <1>1, <2>1, BatchStepIInv DEF SetBasePort, callVars
<1>2. ASSUME NEW c \in Callers, Call(c) PROVE IInv'
  <2>1. ASSUME NEW op \in {"start", "stop"}, NEW S \in SUBSET Nodes, CallBatch(c, op, S)
        PROVE  IInv'
    <3>1. TypeOK'
      BY <2>1 DEF IInv, TypeOK, CallBatch, managerVars
    <3>. QED
      BY <2>1, <3>1, BatchStepIInv DEF CallBatch, managerVars
  <2>. QED
    BY <1>2, <2>1, SweepIInv DEF Call
<1>3. ASSUME NEW c \in Callers, Return(c) PROVE IInv'
  <2>1. TypeOK'
    BY <1>3 DEF IInv, TypeOK, Return, managerVars
  <2>. QED
    BY <1>3, <2>1, BatchStepIInv DEF Return, managerVars
<1>4. ASSUME NEW c \in Callers, NEW n \in Nodes, NodeStep(c, n) PROVE IInv'
  <2>1. CASE StartRefused(c, n) \/ StartBindError(c, n) \/ StopNotRunning(c, n)
    <3>1. /\ NothingDone
          /\ UNCHANGED <<basePort, activeNodes, task, conns>>
          /\ todo' = [todo EXCEPT ![c] = @ \ {n}]
      BY <2>1 DEF StartRefused, StartBindError, StopNotRunning, Take
    <3>2. TypeOK'
      BY <3>1 DEF IInv, TypeOK, NothingDone
    <3>. QED
      BY <3>1, <3>2, BatchStepIInv DEF NothingDone
  <2>. QED
    BY <1>4, <2>1, StartIInv, StopIInv, SweepNodeIInv, ForgetIInv DEF NodeStep
<1>5. CASE UNCHANGED vars
  BY <1>5, BatchStepIInv DEF IInv, TypeOK, vars, managerVars, callVars
<1>. QED
  BY <1>1, <1>2, <1>3, <1>4, <1>5, SweepIInv, SyncTunnelIInv, EnvironmentIInv
  DEF Next, CallerStep

-----------------------------------------------------------------------------
\* The inductive invariant holds throughout.
THEOREM Inductive == Spec => []IInv
<1>1. Init => IInv
  BY InitIInv
<1>2. IInv /\ [Next]_vars => IInv'
  BY NextIInv
<1>. QED
  BY <1>1, <1>2, PTL DEF Spec

\* Every variable of the manager keeps its type.
THEOREM TypeCorrect == Spec => []TypeOK
BY Inductive, PTL DEF IInv

\* usedPorts and runningNodes stay inverses of each other: a port is reserved
\* for one running node and a running node has one reserved port.
THEOREM PortTableCorrect == Spec => []PortTable
BY Inductive, PTL DEF IInv

\* No listener is left behind and no running node is without one, except the
\* one being closed.
THEOREM ListenersCorrect == Spec => []ListenersMatchTable
BY Inductive, PTL DEF IInv

\* The tunnel pool has the running nodes whenever m.mu is free.
THEOREM TunnelCorrect == Spec => []TunnelInSync
BY Inductive, PTL DEF IInv

\* The three together, which is what the runs check.
THEOREM TablesCorrect == Spec => []TablesAgree
<1>1. PortTable /\ ListenersMatchTable /\ TunnelInSync => TablesAgree
  BY DEF TablesAgree
<1>. QED
  BY <1>1, PortTableCorrect, ListenersCorrect, TunnelCorrect, PTL

\* No two running nodes share a port.
DistinctPorts ==
  \A m, n \in Running : runningNodes[m] = runningNodes[n] => m = n

\* The consequence of PortTable a user sees: "The manager assigns each node a
\* unique local port" (docs/USER_GUIDE.md:40).
THEOREM UniquePorts == Spec => []DistinctPorts
<1>1. PortTable => DistinctPorts
  BY DEF PortTable, DistinctPorts
<1>. QED
  BY <1>1, PortTableCorrect, PTL

-----------------------------------------------------------------------------
(* Steps.                                                                  *)

\* Which steps change the table, and how.
LEMMA TableSteps ==
  ASSUME IInv, [Next]_vars
  PROVE  \/ \E c \in Callers, n \in Nodes : Start(c, n) \/ Forget(c, n)
         \/ UNCHANGED runningNodes
BY DEF Next, Call, CallerStep, NodeStep, Environment, SetBasePort, CallBatch,
       CallStopAll, Return, StartRefused, StartBindError, StopNotRunning, Stop,
       SweepNode, SweepDone, SyncTunnel, ConnOpen, ConnEnd, OtherBinds,
       OtherReleases, NothingDone, managerVars, callVars, vars

\* A running node keeps its port for as long as it runs.
THEOREM PortStableCorrect == Spec => PortStable
<1>1. ASSUME IInv, [Next]_vars, NEW n \in Running, n \in DOMAIN runningNodes'
      PROVE  runningNodes'[n] = runningNodes[n]
  <2>1. ASSUME NEW c \in Callers, NEW m \in Nodes, Start(c, m)
        PROVE  runningNodes'[n] = runningNodes[n]
    BY <1>1, <2>1 DEF Start, Put, Running
  <2>2. ASSUME NEW c \in Callers, NEW m \in Nodes, Forget(c, m)
        PROVE  runningNodes'[n] = runningNodes[n]
    BY <1>1, <2>2 DEF Forget, Delete
  <2>. QED
    BY <1>1, <2>1, <2>2, TableSteps
<1>2. IInv /\ [Next]_vars
        => [\A n \in Running : n \in DOMAIN runningNodes'
                               => runningNodes'[n] = runningNodes[n]]_vars
  BY <1>1
<1>. QED
  BY <1>2, Inductive, PTL DEF Spec, PortStable

-----------------------------------------------------------------------------
(* The manager implements NodePool.                                        *)

LEMMA StartLeases ==
  ASSUME IInv, NEW c \in Callers, NEW n \in Nodes, Start(c, n)
  PROVE  Pool!Next
<1>. DEFINE p == AllocatePort(usedPorts, basePort)
<1>1. /\ n \notin Running /\ p \in 1..MaxPort
      /\ runningNodes' = Put(runningNodes, n, p)
      /\ closing' = closing
  BY DEF Start, Take, CanListen
<1>2. \A m \in Running : runningNodes[m] # p
  <2>1. basePort \in Nat
    BY ManagerAssumption DEF IInv, TypeOK
  <2>2. p \notin DOMAIN usedPorts
    BY <2>1, AllocatePortIsFree DEF IInv
  <2>. QED
    BY <2>2 DEF IInv, PortTable
<1>. HIDE DEF p
<1>3. Serving' = Serving \cup {n}
  <2>1. \A d \in Callers : closing[d] # n
    BY <1>1, ManagerAssumption DEF IInv, CloseInProgress
  <2>. QED
    BY <1>1, <2>1 DEF Serving, Put, Running
<1>4. Pool!Lease(n, p)
  BY <1>1, <1>2, <1>3 DEF Pool!Lease, Put, Running
<1>. QED
  BY <1>1, <1>4 DEF Pool!Next

LEMMA CloseRetires ==
  ASSUME IInv, NEW c \in Callers, NEW n \in Running, CloseListener(c, n),
         mu \in {NoOne, c}, closing[c] = NoOne, UNCHANGED runningNodes
  PROVE  Pool!Next
<1>1. n \in Nodes /\ n # NoOne
  BY ManagerAssumption DEF IInv, TypeOK, Running
<1>2. \A d \in Callers : closing[d] = NoOne
  BY ManagerAssumption DEF IInv, CloseInProgress, LockHeld
<1>3. \A d \in Callers : closing'[d] = IF d = c THEN n ELSE NoOne
  BY <1>2 DEF IInv, TypeOK, CloseListener
<1>4. n \in Serving /\ Serving' = Serving \ {n}
  <2>1. Running' = Running /\ NoOne \notin Running
    BY ManagerAssumption DEF Running, IInv, TypeOK
  <2>2. Serving = Running
    BY <1>2, <2>1 DEF Serving
  <2>3. Serving' = Running \ {n}
    BY <1>3, <2>1 DEF Serving
  <2>. QED
    BY <2>2, <2>3
<1>. QED
  BY <1>1, <1>4 DEF Pool!Next, Pool!Retire

LEMMA ForgetReleases ==
  ASSUME IInv, NEW c \in Callers, NEW n \in Nodes, Forget(c, n)
  PROVE  Pool!Next
<1>1. /\ closing[c] = n /\ pc[c] = "close" /\ n \in Running
      /\ runningNodes' = Delete(runningNodes, n)
      /\ closing' = [closing EXCEPT ![c] = NoOne]
  BY DEF Forget, IInv, CloseInProgress
<1>2. \A d \in Callers \ {c} : closing[d] = NoOne
  BY <1>1 DEF IInv, CloseInProgress, LockHeld
<1>3. \A d \in Callers : closing'[d] = NoOne
  BY <1>1, <1>2 DEF IInv, TypeOK
<1>4. Serving' = Serving /\ n \notin Serving
  BY <1>1, <1>2, <1>3, ManagerAssumption DEF Serving, Delete, Running, IInv, TypeOK
<1>. QED
  BY <1>1, <1>4 DEF Pool!Next, Pool!Release, Delete, Running

\* The manager hands out ports as NodePool promises, for every set of callers
\* and whatever else binds the machine's ports.
THEOREM ImplementsNodePool == Spec => ManagerIsNodePool
<1>1. Init => Pool!Init
  BY DEF Init, Pool!Init, Serving, Running
<1>2. IInv /\ [Next]_vars => [Pool!Next]_(Pool!poolVars)
  <2>. SUFFICES ASSUME IInv, [Next]_vars PROVE [Pool!Next]_(Pool!poolVars)
    OBVIOUS
  <2>1. ASSUME NEW c \in Callers, NEW n \in Nodes, Stop(c, n) \/ SweepNode(c, n)
        PROVE  Pool!Next
    <3>1. /\ n \in Running /\ CloseListener(c, n) /\ UNCHANGED runningNodes
          /\ mu \in {NoOne, c} /\ closing[c] = NoOne
      BY <2>1 DEF Stop, SweepNode, Take, managerVars, IInv, CloseInProgress, LockHeld
    <3>. QED
      BY <3>1, CloseRetires
  <2>2. \/ \E c \in Callers, n \in Nodes :
              Start(c, n) \/ Forget(c, n) \/ Stop(c, n) \/ SweepNode(c, n)
        \/ UNCHANGED <<runningNodes, closing>>
    BY DEF Next, Call, CallerStep, NodeStep, Environment, SetBasePort, CallBatch,
           CallStopAll, Return, StartRefused, StartBindError, StopNotRunning,
           SweepDone, SyncTunnel, ConnOpen, ConnEnd, OtherBinds, OtherReleases,
           NothingDone, managerVars, callVars, vars
  <2>3. UNCHANGED <<runningNodes, closing>> => UNCHANGED Pool!poolVars
    BY DEF Pool!poolVars, Serving, Running
  <2>. QED
    BY <2>1, <2>2, <2>3, StartLeases, ForgetReleases
<1>. QED
  BY <1>1, <1>2, Inductive, PTL DEF Spec, ManagerIsNodePool, Pool!Spec
=============================================================================
