-------------------------- MODULE TunnelPoolProofs --------------------------
(***************************************************************************)
(* Proofs about TunnelPool, for any sets of requests, clients, nodes and   *)
(* ports.                                                                  *)
(***************************************************************************)
EXTENDS TunnelPool, TLAPS

\* main has nothing to do before its signal, so its stop interrupts nothing.
MainWaits == ~exiting => step[Main] = "none"

IInv ==
  /\ TypeOK
  /\ MainWaits
  /\ OneDrainer
  /\ SocketIsInbound
  /\ RunningMatchesConfig

LEMMA InitIInv == Init => IInv
<1>. SUFFICES ASSUME Init PROVE IInv
  OBVIOUS
<1>. USE TunnelAssumption DEF Init
<1>1. TypeOK
  BY DEF TypeOK, Config
<1>2. MainWaits /\ OneDrainer
  BY DEF MainWaits, OneDrainer
<1>3. SocketIsInbound
  BY DEF SocketIsInbound, Config
<1>4. RunningMatchesConfig
  BY DEF RunningMatchesConfig
<1>. QED
  BY <1>1, <1>2, <1>3, <1>4 DEF IInv

\* An update leaves a listener that does not fit the new configuration either
\* to its own stop or to the stop that was due to it before.
LEMMA UpdateConfigIInv ==
  ASSUME IInv, NEW a \in Admins, NEW cfg \in Config, UpdateConfig(a, cfg)
  PROVE  IInv'
<1>. USE TunnelAssumption DEF IInv, UpdateConfig, Go, Idle, TypeOK
<1>1. TypeOK'
  OBVIOUS
<1>2. MainWaits' /\ OneDrainer'
  BY DEF MainWaits, OneDrainer
<1>3. SocketIsInbound'
  BY DEF SocketIsInbound
<1>4. RunningMatchesConfig'
  <2>. SUFFICES ASSUME inbound # NoPort, ~(cfg.enabled /\ cfg.port = inbound)
                PROVE  \E b \in Admins : step'[b] \in {"stop", "drain"}
    BY DEF RunningMatchesConfig
  <2>1. CASE config.port # cfg.port \/ ~cfg.enabled
    BY <2>1
  <2>2. CASE config.port = cfg.port /\ cfg.enabled
    <3>1. PICK b \in Admins : step[b] \in {"stop", "drain"}
      BY <2>2 DEF RunningMatchesConfig
    <3>2. b # a /\ step'[b] = step[b]
      BY <3>1
    <3>. QED
      BY <3>1, <3>2
  <2>. QED
    BY <2>1, <2>2
<1>. QED
  BY <1>1, <1>2, <1>3, <1>4

LEMMA ShutdownIInv ==
  ASSUME IInv, Shutdown
  PROVE  IInv'
<1>. USE TunnelAssumption DEF IInv, Shutdown, Go, TypeOK, MainWaits
<1>1. TypeOK' /\ MainWaits'
  OBVIOUS
<1>2. OneDrainer' /\ SocketIsInbound'
  BY DEF OneDrainer, SocketIsInbound
<1>3. RunningMatchesConfig'
  BY DEF RunningMatchesConfig
<1>. QED
  BY <1>1, <1>2, <1>3

LEMMA StopIInv ==
  ASSUME IInv, NEW a \in Admins, StopNothing(a) \/ Stop(a) \/ Stopped(a)
  PROVE  IInv'
<1>. USE TunnelAssumption DEF IInv, TypeOK, Go, AfterStop
<1>1. CASE StopNothing(a)
  BY <1>1 DEF StopNothing, MainWaits, OneDrainer, SocketIsInbound, RunningMatchesConfig
<1>2. CASE Stop(a)
  <2>. USE <1>2 DEF Stop
  <2>1. TypeOK' /\ MainWaits'
    BY DEF MainWaits
  <2>2. OneDrainer'
    BY DEF OneDrainer
  <2>3. SocketIsInbound'
    <3>1. step'[a] = "drain"
      OBVIOUS
    <3>2. \A p \in Ports : socket'[p] # Tunnel
      BY DEF SocketIsInbound
    <3>. QED
      BY <3>1, <3>2 DEF SocketIsInbound
  <2>4. RunningMatchesConfig'
    BY DEF RunningMatchesConfig
  <2>. QED
    BY <2>1, <2>2, <2>3, <2>4
<1>3. CASE Stopped(a)
  <2>. USE <1>3 DEF Stopped
  <2>1. TypeOK' /\ MainWaits'
    BY DEF MainWaits, Config
  <2>2. OneDrainer'
    BY DEF OneDrainer
  <2>3. SocketIsInbound'
    <3>1. \A p \in Ports : socket[p] # Tunnel
      BY DEF SocketIsInbound
    <3>. QED
      BY <3>1 DEF SocketIsInbound
  <2>4. RunningMatchesConfig'
    BY DEF RunningMatchesConfig
  <2>. QED
    BY <2>1, <2>2, <2>3, <2>4
<1>. QED
  BY <1>1, <1>2, <1>3

\* A start binds the port of the configuration it finds, with no listener and
\* no drain under way.
LEMMA StartIInv ==
  ASSUME IInv, NEW a \in Admins, Start(a)
  PROVE  IInv'
<1>. USE TunnelAssumption DEF IInv, TypeOK, Go, Start
<1>1. TypeOK' /\ MainWaits'
  BY DEF MainWaits, Config
<1>2. OneDrainer'
  BY DEF OneDrainer
<1>3. \A b \in Admins : step[b] # "drain" /\ step'[b] # "drain"
  BY DEF OneDrainer
<1>4. SocketIsInbound'
  <2>1. config.port \in Ports
    BY DEF Config
  <2>. QED
    BY <1>3, <2>1 DEF SocketIsInbound
<1>5. RunningMatchesConfig'
  <2>1. CASE inbound = NoPort
    BY <2>1 DEF RunningMatchesConfig, Config
  <2>2. CASE inbound # NoPort
    BY <2>2 DEF RunningMatchesConfig
  <2>. QED
    BY <2>1, <2>2
<1>. QED
  BY <1>1, <1>2, <1>4, <1>5

\* The manager and the clients touch neither socket nor configuration, other
\* programs only ports that are not the tunnel's.
LEMMA OthersIInv ==
  ASSUME IInv,
         \/ \E S \in SUBSET Nodes : UpdateActiveNodes(S)
         \/ \E c \in Conns : Connect(c) \/ FirstByte(c) \/ HangUp(c) \/ GetDialer(c)
         \/ \E p \in Shared : OtherProgram(p)
         \/ UNCHANGED vars
  PROVE  IInv'
<1>. USE TunnelAssumption DEF IInv, TypeOK, adminVars
<1>1. CASE (\E S \in SUBSET Nodes : UpdateActiveNodes(S)) \/ UNCHANGED vars
  BY <1>1 DEF UpdateActiveNodes, vars,
              MainWaits, OneDrainer, SocketIsInbound, RunningMatchesConfig
<1>2. CASE \E c \in Conns : Connect(c) \/ FirstByte(c) \/ HangUp(c) \/ GetDialer(c)
  BY <1>2 DEF Connect, FirstByte, HangUp, GetDialer, Move,
              MainWaits, OneDrainer, SocketIsInbound, RunningMatchesConfig
<1>3. CASE \E p \in Shared : OtherProgram(p)
  BY <1>3 DEF OtherProgram, MainWaits, OneDrainer, SocketIsInbound, RunningMatchesConfig
<1>. QED
  BY <1>1, <1>2, <1>3

LEMMA NextIInv ==
  ASSUME IInv, [Next]_vars
  PROVE  IInv'
BY UpdateConfigIInv, ShutdownIInv, StopIInv, StartIInv, OthersIInv DEF Next, AdminStep

-----------------------------------------------------------------------------
THEOREM Inductive == Spec => []IInv
BY InitIInv, NextIInv, PTL DEF Spec

\* The type invariant.
THEOREM TypeCorrect == Spec => []TypeOK
BY Inductive, PTL DEF IInv

\* Socket, listener and configuration fit together.
THEOREM FitsCorrect == Spec => []TunnelFitsConfig
<1>1. IInv => TunnelFitsConfig
  BY DEF IInv, TunnelFitsConfig
<1>. QED
  BY <1>1, Inductive, PTL

\* t.mu is kept from step to step by one Close at most.
THEOREM OneDrainerCorrect == Spec => []OneDrainer
BY Inductive, PTL DEF IInv

\* The tunnel listens on t.inbound's port and leaves no other socket open.
THEOREM SocketCorrect == Spec => []SocketIsInbound
BY Inductive, PTL DEF IInv

\* However many updates interleave, a listener outlives its configuration
\* only until the stop that is due to it.
THEOREM RunningCorrect == Spec => []RunningMatchesConfig
BY Inductive, PTL DEF IInv

\* Once no update and no stop is under way, the tunnel runs on the configured
\* port and is enabled, or does not run.
Settled ==
  (\A a \in Admins : Idle(a)) /\ inbound # NoPort => config.enabled /\ config.port = inbound

THEOREM SettledCorrect == Spec => []Settled
<1>1. RunningMatchesConfig => Settled
  BY DEF RunningMatchesConfig, Settled, Idle
<1>. QED
  BY <1>1, RunningCorrect, PTL

\* While a stop waits there is no socket to come in by, so whoever wants t.mu
\* wanted it before.
THEOREM StaysFreeCorrect == Spec => DrainStaysFree
<1>1. ASSUME IInv, [Next]_vars, NEW a \in Admins, FreeToEnd(a), step'[a] = "drain"
      PROVE  FreeToEnd(a)'
  <2>. USE <1>1 DEF FreeToEnd, IInv, TypeOK
  <2>. SUFFICES ASSUME NEW c \in Conns PROVE stage'[c] \notin {"peek", "dial"}
    OBVIOUS
  <2>1. \A p \in Ports : socket[p] # Tunnel
    BY DEF SocketIsInbound
  <2>2. CASE UNCHANGED stage
    BY <2>2
  <2>3. CASE \E x \in Conns : Connect(x) \/ FirstByte(x) \/ GetDialer(x) \/ HangUp(x)
    <3>1. ASSUME NEW x \in Conns, HangUp(x) PROVE stage'[c] \in {stage[c], "out"}
      BY <3>1 DEF HangUp, Move
    <3>2. ASSUME NEW x \in Conns, Connect(x) \/ FirstByte(x) \/ GetDialer(x) PROVE FALSE
      BY <2>1, <3>2 DEF Connect, FirstByte, GetDialer, Move
    <3>. QED
      BY <2>3, <3>1, <3>2
  <2>. QED
    BY <2>2, <2>3 DEF Next, AdminStep, StopNothing, Stop, Stopped, Start, UpdateConfig, Shutdown,
                      UpdateActiveNodes, OtherProgram, vars
<1>2. IInv /\ [Next]_vars => \A a \in Admins : FreeToEnd(a) => FreeToEnd(a)' \/ step'[a] # "drain"
  BY <1>1
<1>. QED
  BY <1>2, Inductive, PTL DEF Spec, DrainStaysFree
=============================================================================
