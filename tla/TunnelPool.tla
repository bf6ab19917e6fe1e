----------------------------- MODULE TunnelPool -----------------------------
(***************************************************************************)
(* pkg/proxy/tunnel.go: the life cycle of the tunnel's listener, under the *)
(* lock t.mu, with the connections that need t.mu to be given a dialer,    *)
(* the inbound manager, which replaces the list of nodes, and the requests *)
(* that change its configuration.  Who waits for t.mu with m.mu held is in *)
(* Proxy, how GetDialer chooses among the nodes in TunnelRouting.          *)
(***************************************************************************)
EXTENDS Integers, FiniteSets

CONSTANTS Nodes,    \* node IDs
          Conns,    \* clients of the tunnel port
          Admins,   \* goroutines that stop or update the tunnel
          Main,     \* the one of them that is main, which stops it at exit
          Ports,    \* ports the tunnel may be configured with
          Shared,   \* those of them other programs use too
          NoOne, NoPort, Free, Tunnel, Other

ASSUME TunnelAssumption ==
  /\ Shared \subseteq Ports
  /\ Main \in Admins
  /\ NoOne \notin Admins
  /\ NoPort \notin Ports
  /\ Free # Tunnel /\ Free # Other /\ Tunnel # Other

Config == [enabled : BOOLEAN, port : Ports]

VARIABLES config,      \* t.config
          inbound,     \* the port of t.inbound, NoPort for nil
          activeNodes, \* the nodes of t.activeNodes
          mu,          \* the holder of t.mu for writing
          step,        \* per admin: what it does next
          thenStart,   \* per admin: whether a start follows its stop
          stage,       \* per client
          socket,      \* OS: who listens on a port
          exiting      \* main has had its signal

adminVars == <<step, thenStart, exiting>>
vars == <<config, inbound, activeNodes, mu, adminVars, stage, socket>>

TypeOK ==
  /\ config \in Config
  /\ inbound \in Ports \cup {NoPort}
  /\ activeNodes \subseteq Nodes
  /\ mu \in Admins \cup {NoOne}
  /\ step \in [Admins -> {"none", "stop", "drain", "start"}]
  /\ thenStart \in [Admins -> BOOLEAN]
  /\ stage \in [Conns -> {"out", "peek", "dial", "relay"}]
  /\ socket \in [Ports -> {Free, Tunnel, Other}]
  /\ exiting \in BOOLEAN

\* main: the saved configuration, and a first Start, which may fail.
Init ==
  /\ config \in Config
  /\ \E taken \in SUBSET Shared :
       LET up == config.enabled /\ config.port \notin taken
       IN  /\ inbound = IF up THEN config.port ELSE NoPort
           /\ socket = [p \in Ports |-> IF p \in taken THEN Other
                                        ELSE IF up /\ p = config.port THEN Tunnel
                                        ELSE Free]
  /\ activeNodes = {}
  /\ mu = NoOne
  /\ step = [a \in Admins |-> "none"]
  /\ thenStart = [a \in Admins |-> FALSE]
  /\ stage = [c \in Conns |-> "out"]
  /\ exiting = FALSE

Idle(a) == step[a] = "none"
Go(a, next) == step' = [step EXCEPT ![a] = next]

-----------------------------------------------------------------------------
(* UpdateConfig, and the Stop of main's shutdown.                          *)

\* Mutant: a change of the port alone does not stop the tunnel.
UpdateConfigKeepsPort(a, cfg) ==
  /\ a # Main
  /\ Idle(a)
  /\ mu = NoOne
  /\ Go(a, IF inbound # NoPort /\ ~cfg.enabled THEN "stop"
           ELSE IF cfg.enabled /\ inbound = NoPort THEN "start" ELSE "none")
  /\ config' = cfg
  /\ UNCHANGED <<inbound, activeNodes, mu, thenStart, exiting, stage, socket>>

\* The part of UpdateConfig under t.mu: what it decides here it does later.
\* POST /api/tunnel calls it with any configuration.
UpdateConfig(a, cfg) ==
  /\ a # Main
  /\ Idle(a)
  /\ mu = NoOne
  /\ LET portChanged == config.port # cfg.port
         wasRunning == inbound # NoPort
         stopFirst == wasRunning /\ (portChanged \/ ~cfg.enabled)
         startThen == cfg.enabled /\ (portChanged \/ ~wasRunning)
     IN  /\ Go(a, IF stopFirst THEN "stop" ELSE IF startThen THEN "start" ELSE "none")
         /\ thenStart' = [thenStart EXCEPT ![a] = stopFirst /\ startThen]
  /\ config' = cfg
  /\ UNCHANGED <<inbound, activeNodes, mu, exiting, stage, socket>>

Shutdown ==
  /\ ~exiting
  /\ exiting' = TRUE
  /\ Go(Main, "stop")
  /\ UNCHANGED <<config, inbound, activeNodes, mu, thenStart, stage, socket>>

\* Stop returns; an update may have a start to do then.
AfterStop(a) ==
  /\ Go(a, IF thenStart[a] THEN "start" ELSE "none")
  /\ thenStart' = [thenStart EXCEPT ![a] = FALSE]

\* Stop takes t.mu and closes the listening socket, unless there is none.
StopNothing(a) ==
  /\ step[a] = "stop"
  /\ mu = NoOne
  /\ inbound = NoPort
  /\ AfterStop(a)
  /\ UNCHANGED <<config, inbound, activeNodes, mu, exiting, stage, socket>>

Stop(a) ==
  /\ step[a] = "stop"
  /\ mu = NoOne
  /\ inbound # NoPort
  /\ mu' = a
  /\ socket' = [socket EXCEPT ![inbound] = Free]
  /\ Go(a, "drain")
  /\ UNCHANGED <<config, inbound, activeNodes, thenStart, exiting, stage>>

\* Mutant: t.mu stays locked.
StoppedKeepsLock(a) ==
  /\ step[a] = "drain"
  /\ \A c \in Conns : stage[c] = "out"
  /\ inbound' = NoPort
  /\ config' = [config EXCEPT !.enabled = FALSE]
  /\ AfterStop(a)
  /\ UNCHANGED <<activeNodes, mu, exiting, stage, socket>>

\* Mutant: t.inbound is not set to nil.
StoppedKeepsInbound(a) ==
  /\ step[a] = "drain"
  /\ \A c \in Conns : stage[c] = "out"
  /\ config' = [config EXCEPT !.enabled = FALSE]
  /\ mu' = NoOne
  /\ AfterStop(a)
  /\ UNCHANGED <<inbound, activeNodes, exiting, stage, socket>>

\* Close returns when every handler is over, t.mu held all the while.
Stopped(a) ==
  /\ step[a] = "drain"
  /\ \A c \in Conns : stage[c] = "out"
  /\ inbound' = NoPort
  /\ config' = [config EXCEPT !.enabled = FALSE]
  /\ mu' = NoOne
  /\ AfterStop(a)
  /\ UNCHANGED <<activeNodes, exiting, stage, socket>>

\* Start: nothing to do, the configured port bound, or an error for the caller.
Start(a) ==
  /\ step[a] = "start"
  /\ mu = NoOne
  /\ \/ /\ inbound = NoPort
        /\ socket[config.port] = Free
        /\ inbound' = config.port
        /\ config' = [config EXCEPT !.enabled = TRUE]
        /\ socket' = [socket EXCEPT ![config.port] = Tunnel]
     \/ /\ inbound # NoPort \/ socket[config.port] # Free
        /\ UNCHANGED <<inbound, config, socket>>
  /\ Go(a, "none")
  /\ UNCHANGED <<activeNodes, mu, thenStart, exiting, stage>>

-----------------------------------------------------------------------------
(* The manager publishes the running nodes.                                *)

\* Mutant: the list is made with a length and then appended to, so it begins
\* with entries that are nil.
UpdateActiveNodesAfterNil(S) ==
  /\ mu = NoOne
  /\ activeNodes' = S \cup {NoOne}
  /\ UNCHANGED <<config, inbound, mu, adminVars, stage, socket>>

UpdateActiveNodes(S) ==
  /\ mu = NoOne
  /\ activeNodes' = S
  /\ UNCHANGED <<config, inbound, mu, adminVars, stage, socket>>

-----------------------------------------------------------------------------
(* Clients and their handlers.  A handler counts for Close from "peek" on. *)

Move(c, from, to) ==
  /\ stage[c] = from
  /\ stage' = [stage EXCEPT ![c] = to]
  /\ UNCHANGED <<config, inbound, activeNodes, mu, adminVars, socket>>

Connect(c) == (\E p \in Ports : socket[p] = Tunnel) /\ Move(c, "out", "peek")
FirstByte(c) == Move(c, "peek", "dial")
HangUp(c) == Move(c, "peek", "out") \/ Move(c, "relay", "out")

\* Mutant: the list is read without t.mu.
GetDialerUnlocked(c) ==
  IF activeNodes = {} THEN Move(c, "dial", "out") ELSE Move(c, "dial", "relay")

\* GetDialer takes t.mu for reading; with no active node the connection ends.
GetDialer(c) ==
  /\ mu = NoOne
  /\ IF activeNodes = {} THEN Move(c, "dial", "out") ELSE Move(c, "dial", "relay")

OtherProgram(p) ==
  /\ \/ socket[p] = Free /\ socket' = [socket EXCEPT ![p] = Other]
     \/ socket[p] = Other /\ socket' = [socket EXCEPT ![p] = Free]
  /\ UNCHANGED <<config, inbound, activeNodes, mu, adminVars, stage>>

-----------------------------------------------------------------------------
AdminStep(a) ==
  StopNothing(a) \/ Stop(a) \/ Stopped(a) \/ Start(a)

Next ==
  \/ \E a \in Admins : AdminStep(a) \/ \E cfg \in Config : UpdateConfig(a, cfg)
  \/ Shutdown
  \/ \E S \in SUBSET Nodes : UpdateActiveNodes(S)
  \/ \E c \in Conns : Connect(c) \/ FirstByte(c) \/ HangUp(c) \/ GetDialer(c)
  \/ \E p \in Shared : OtherProgram(p)

Spec == Init /\ [][Next]_vars

\* sync.RWMutex starves no one and the scheduler runs every goroutine; when a
\* client sends or hangs up is its own affair.
FairSpec ==
  /\ Spec
  /\ \A a \in Admins : SF_vars(AdminStep(a))
  /\ \A c \in Conns : SF_vars(GetDialer(c))

-----------------------------------------------------------------------------
(* Safety                                                                  *)

\* The tunnel's socket is that of t.inbound, and no other is left open by a
\* restart, a failed start or a stop (tunnel.go:104-110, 124-125).
SocketIsInbound ==
  \A p \in Ports :
    socket[p] = Tunnel <=> /\ inbound = p
                           /\ \A a \in Admins : step[a] # "drain"

\* UpdateConfig unlocks between storing the new configuration and acting on
\* it, so updates interleave.  Even so, a listener that does not fit the
\* configuration is about to be stopped by someone: once every caller has
\* returned, a running tunnel is an enabled one on the configured port.
RunningMatchesConfig ==
  inbound # NoPort =>
    \/ config.enabled /\ config.port = inbound
    \/ \E a \in Admins : step[a] \in {"stop", "drain"}

\* What is left once all callers have returned, however they interleaved.
TunnelFitsConfig == SocketIsInbound /\ RunningMatchesConfig

\* Only the one who waits in Close keeps t.mu, and only one can.
OneDrainer ==
  \A a \in Admins : (step[a] = "drain") <=> (mu = a)

\* A stop that finds no connection on its way to GetDialer when it takes t.mu
\* is kept from its end by none that comes later: the socket is closed first,
\* under the same t.mu (tunnel.go:117-125, inbound.go:89).
FreeToEnd(a) == step[a] = "drain" /\ \A c \in Conns : stage[c] \notin {"peek", "dial"}

DrainStaysFree ==
  [][\A a \in Admins : FreeToEnd(a) => FreeToEnd(a)' \/ step'[a] # "drain"]_vars

-----------------------------------------------------------------------------
(* Liveness                                                                *)

ClientsLeave == \A c \in Conns : []<>(stage[c] \notin {"peek", "relay"})

\* If clients hang up some day, a stop that finds no connection on its way to
\* GetDialer when it takes t.mu comes to its end.
StopReturnsIfNoneDials ==
  ClientsLeave =>
    \A a \in Admins :
      (step[a] = "drain" /\ \A c \in Conns : stage[c] \notin {"peek", "dial"})
        ~> (mu # a)

-----------------------------------------------------------------------------
(* What the documents say and the code does not do.                        *)

\* "POST /api/tunnel: Update tunnel settings (enable/disable, port, routing
\* strategy)" (docs/PROTOCOL_SPEC.md:63): the request is answered, given that
\* clients hang up some day and the program is not shut down.  A handler that
\* waits for t.mu in GetDialer while Stop holds it and waits for the handler
\* (tunnel.go:117, 124) blocks both, and with them the manager.
UpdateReturns ==
  ClientsLeave /\ []~exiting => \A a \in Admins \ {Main} : ~Idle(a) ~> Idle(a)
=============================================================================
