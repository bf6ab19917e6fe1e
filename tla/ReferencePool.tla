--------------------------- MODULE ReferencePool ---------------------------
(***************************************************************************)
(* docs/reference/v2raypool, the program this one was written after: the   *)
(* table of nodes (v2raypool.go), the V2Ray core that serves a local port  *)
(* per node (v2ray_api.go, from how it is called), the speed tests, which  *)
(* write to the table for as long as they last, and the tunnel, whose      *)
(* goroutines refresh the nodes it may pick (tunnel_pool.go).              *)
(*                                                                         *)
(* StartAll, StopAll, KillAllNodes, a test and a refresh are a step per    *)
(* call of V2Ray, write to the table and reading; another request is one.  *)
(* Most of them take no lock.  The local port of a node is localPortStart  *)
(* plus its Index, so the Index stands for it.                             *)
(* Left out: the nodes' files, the tests one node at a time, the other     *)
(* copies of status and deletion mark that speedMap holds (only listed),   *)
(* and which kind of system proxy the dashboard shows.                     *)
(***************************************************************************)
EXTENDS Integers, Sequences, Functions

CONSTANTS Ids,             \* servers of subscriptions: address and user
          Private,         \* those at a private address
          Lists,           \* subscriptions, sequences of servers
          TestMaxDuration, \* p.testMaxDuration
          Limits,          \* values of TunnelMaxDelay
          Tests,           \* goroutines of TestAll
          Loops,           \* goroutines of refreshNodesLoop
          Setter,          \* the request that changes TunnelMaxDelay
          MaxOps,          \* bound: StartAll, StopAll and KillAllNodes at once
          MaxTunnels,      \* bound: tunnel pools made
          MaxCalls,        \* bound: requests
          None

ASSUME ReferenceAssumption ==
  /\ Private \subseteq Ids /\ Lists \subseteq Seq(Ids)
  /\ TestMaxDuration \in Nat \ {0} /\ Limits \subseteq Nat \ {0}
  /\ MaxTunnels \in Nat \ {0} /\ MaxCalls \in Nat /\ MaxOps \in Nat
  /\ None \notin Ids /\ Setter \notin Tests \cup Loops

Ops == 1 .. MaxOps
Tunnels == 1 .. MaxTunnels
Refreshers == Tests \cup Loops \cup {Setter}

VARIABLES nodes,     \* p.nodes
          speedMap,  \* the last good reading of a server, for the test URL
          IsLock,
          ops,       \* per StartAll, StopAll or KillAllNodes: how far it is
          core,      \* V2Ray: tags with an inbound, tags with an outbound
          poolCmd,   \* whether the pool has started V2Ray
          active,    \* the server of p.activeNode
          activeCmd, \* whether the system proxy's process is up
          limit,     \* conf: TunnelMaxDelay
          tests,     \* per TestAll: its phase, and copies under test
          tunnel,    \* the number of globalTunnelPool, 0 for nil
          tunnels,   \* per tunnel pool
          loop,      \* per goroutine: the tunnel pool it refreshes
          refresh,   \* per goroutine: its RefreshNodes under way
          setting,   \* the request that changes TunnelMaxDelay
          calls

tableVars == <<nodes, speedMap>>
lockVars == <<IsLock, ops>>
v2rayVars == <<core, poolCmd, active, activeCmd>>
tunnelVars == <<tunnel, tunnels, loop>>
poolVars == <<tableVars, lockVars, v2rayVars, limit, tests, tunnelVars, refresh,
          setting, calls>>

Reading == [speed : 0 .. TestMaxDuration, ok : BOOLEAN]
Kept == {r \in Reading : r.speed < TestMaxDuration}
Node == [id : Ids, idx : Nat, up : BOOLEAN, del : BOOLEAN,
         speed : 0 .. TestMaxDuration, ok : BOOLEAN]

\* requestNode: in time, cut off by an EOF, or failed.
Readings == Kept \cup {[speed |-> TestMaxDuration, ok |-> FALSE]}

PoolTypeOK ==
  /\ nodes \in Seq(Node)
  /\ speedMap \in [Ids -> Kept \cup {None}]
  /\ \A o \in Ops : /\ ops[o].op \in {"none", "start", "stop", "kill"}
                    /\ ops[o].phase \in {"none", "called", "locked", "at", "set", "killing"}
                    /\ ops[o].left \subseteq DOMAIN nodes
                    /\ ops[o].phase = "set" => ops[o].pos \in DOMAIN nodes
                    /\ ops[o].view = None \/ ops[o].view \in Seq(Node)
  /\ IsLock \in BOOLEAN /\ poolCmd \in BOOLEAN /\ activeCmd \in BOOLEAN
  /\ core.in \subseteq Nat /\ core.out \subseteq Nat \X Ids
  /\ active \in Ids \cup {None}
  /\ limit \in Limits
  /\ \A t \in Tests : /\ tests[t].phase \in {"none", "called", "testing"}
                      /\ tests[t].jobs \subseteq Node
  /\ tunnel \in 0 .. MaxTunnels
  /\ \A i \in Tunnels :
       /\ tunnels[i].running \in BOOLEAN /\ tunnels[i].cancelled \in BOOLEAN
       /\ tunnels[i].refreshCh \in BOOLEAN
       /\ tunnels[i].nodeList \subseteq Ids \X Nat
  /\ loop \in [Loops -> [of : 0 .. MaxTunnels, first : BOOLEAN]]
  /\ \A o \in Refreshers :
       refresh[o] = None \/ /\ refresh[o].todo \in [DOMAIN refresh[o].todo -> Node]
                            /\ refresh[o].done \subseteq Node
  /\ setting \in Limits \cup {None}
  /\ calls \in 0 .. MaxCalls

-----------------------------------------------------------------------------
(* The table. *)

\* A port already given is refused, a server already listed skipped.
PortConflict(ns, n) == \E i \in DOMAIN ns : ns[i].idx = n.idx
Listed(ns, id) == \E i \in DOMAIN ns : ns[i].id = id
\* Without the check, and as it is.
AddNodeNoPortCheck(ns, n) == IF Listed(ns, n.id) THEN ns ELSE Append(ns, n)

AddNode(ns, n) ==
  IF PortConflict(ns, n) \/ Listed(ns, n.id) THEN ns ELSE Append(ns, n)

getNodeByV2rayNode(id, index) ==
  [id |-> id, idx |-> index, up |-> FALSE, del |-> FALSE,
   speed |-> TestMaxDuration, ok |-> FALSE]

addNodeList(ns, list) ==
  LET table[i \in 0 .. Len(list)] ==
        IF i = 0 THEN ns
        ELSE AddNode(table[i - 1], getNodeByV2rayNode(list[i], i - 1))
  IN  table[Len(list)]

\* The new servers of a list, from the first Index past the table's length;
\* a refused one leaves its Index to the next.
AddNewNodes(ns, list) ==
  LET add(a, id) ==
        LET n == getNodeByV2rayNode(id, a.newIndex)
        IN  IF Listed(ns, id) \/ PortConflict(a.nodes, n) THEN a
            ELSE [nodes |-> AddNode(a.nodes, n), newIndex |-> a.newIndex + 1]
      table[i \in 0 .. Len(list)] ==
        IF i = 0 THEN [nodes |-> ns, newIndex |-> Len(ns)]
        ELSE add(table[i - 1], list[i])
  IN  table[Len(list)].nodes

\* The node with n's ID becomes n, whatever it was.
UpdateNode(ns, n) == [i \in DOMAIN ns |-> IF ns[i].id = n.id THEN n ELSE ns[i]]

\* sort.Sort keeps no order among equals.
SortBySpeed(ns) ==
  {s \in {[i \in DOMAIN ns |-> ns[f[i]]] : f \in Bijection(DOMAIN ns, DOMAIN ns)} :
     \A i, j \in DOMAIN ns : i < j => s[i].speed <= s[j].speed}

GetLastSpeedNodeIsOk(id) == speedMap[id] # None /\ speedMap[id].ok

\* Also of a test that failed, and as it is.
AddSpeedNodeAlways(n) ==
  [speedMap EXCEPT ![n.id] = [speed |-> n.speed, ok |-> n.ok]]

AddSpeedNode(n) ==
  IF n.speed < TestMaxDuration
  THEN [speedMap EXCEPT ![n.id] = [speed |-> n.speed, ok |-> n.ok]]
  ELSE speedMap

\* A test of the copy n ends with a reading, and the copy goes to the table.
Tested(n, r) == IF n.id \in Private THEN n
                ELSE [n EXCEPT !.speed = r.speed, !.ok = r.ok]
testOneNode(n, r) ==
  LET t == Tested(n, r)
  IN  IF n.id \in Private THEN UNCHANGED tableVars
      ELSE nodes' = UpdateNode(nodes, t) /\ speedMap' = AddSpeedNode(t)

-----------------------------------------------------------------------------
(* V2Ray.  A call fails when V2Ray is not there, and may fail besides. *)

Faults == IF poolCmd THEN {"none", "first", "second"} ELSE {"first"}

\* The inbound, then the outbound; a port served already cannot be bound.
AddToPool(c, n, fault) ==
  IF fault = "first" \/ n.idx \in c.in THEN [core |-> c, ok |-> FALSE]
  ELSE LET in == [c EXCEPT !.in = @ \cup {n.idx}]
       IN  IF fault = "second" THEN [core |-> in, ok |-> FALSE]
           ELSE [core |-> [in EXCEPT !.out = {o \in @ : o[1] # n.idx}
                                              \cup {<<n.idx, n.id>>}],
                 ok |-> TRUE]

\* The outbound, then the inbound.
RemoveTag(c, tag, fault) ==
  IF fault = "first" THEN [core |-> c, ok |-> FALSE]
  ELSE LET noOut == [c EXCEPT !.out = {o \in @ : o[1] # tag}]
       IN  IF fault = "second" \/ tag \notin c.in
           THEN [core |-> noOut, ok |-> FALSE]
           ELSE [core |-> [noOut EXCEPT !.in = @ \ {tag}], ok |-> TRUE]

\* What ActiveNode may leave: the old process is killed first, the new one may
\* not start, and a node that does not run is added to V2Ray.
ActiveNode(ns, n, fault) ==
  LET failed == [nodes |-> ns, core |-> core, active |-> None,
                 activeCmd |-> activeCmd /\ active = None]
      up == AddToPool(core, n, fault)
  IN  {failed,
       IF n.up THEN [failed EXCEPT !.active = n.id, !.activeCmd = TRUE]
       ELSE IF ~up.ok THEN [failed EXCEPT !.core = up.core, !.activeCmd = TRUE]
       ELSE [nodes |-> UpdateNode(ns, [n EXCEPT !.up = TRUE]),
             core |-> up.core, active |-> n.id, activeCmd |-> TRUE]}

Becomes(s) == /\ nodes' = s.nodes /\ core' = s.core
              /\ active' = s.active /\ activeCmd' = s.activeCmd

-----------------------------------------------------------------------------
Idle == [phase |-> "none", jobs |-> {}]
NewTunnel == [running |-> FALSE, cancelled |-> FALSE, refreshCh |-> FALSE,
              nodeList |-> {}]
NoLoop == [of |-> 0, first |-> FALSE]

\* left: the positions to come.  pos: the one whose Status is to be written.
\* view: the array it goes over, if the table has got another since.
NoOp == [op |-> "none", phase |-> "none", left |-> {}, pos |-> 0, view |-> None]

NoTags == [in |-> {}, out |-> {}]

\* The pool at the end of proxyPoolInit, whose V2Ray may not have started;
\* AutoStart and TunnelEnabled are off: the requests do the same.
PoolInit ==
  /\ \E list \in Lists : nodes = addNodeList(<<>>, list)
  /\ speedMap = [id \in Ids |-> None]
  /\ IsLock = FALSE /\ ops = [o \in Ops |-> NoOp]
  /\ core = NoTags
  /\ poolCmd \in BOOLEAN
  /\ active = None /\ activeCmd = FALSE
  /\ limit \in Limits
  /\ tests = [t \in Tests |-> Idle]
  /\ tunnel = 0 /\ tunnels = [i \in Tunnels |-> NewTunnel]
  /\ loop = [l \in Loops |-> NoLoop]
  /\ refresh = [o \in Refreshers |-> None]
  /\ setting = None
  /\ calls = 0

Call == calls < MaxCalls /\ calls' = calls + 1

TunnelRuns == tunnel # 0 /\ tunnels[tunnel].running

-----------------------------------------------------------------------------
(* Requests. *)

\* The server looks at the lock, then the pool is called.
Ask(op) ==
  /\ Call /\ ~IsLock
  /\ \E o \in Ops : /\ ops[o] = NoOp /\ \A k \in 1 .. o - 1 : ops[k] # NoOp
                   /\ ops' = [ops EXCEPT ![o].op = op, ![o].phase = "called"]
  /\ UNCHANGED <<tableVars, IsLock, v2rayVars, limit, tests, tunnelVars, refresh,
                 setting>>

StartAll == Ask("start")
StopAll == Ask("stop")
KillAllNodes == Ask("kill")

\* Delete(index) stops the node in that position if it runs, under the tag of
\* the Index, and then marks the node with that Index.
Delete(index) ==
  LET n == nodes[index + 1]
      forget == active = n.id
      mark == [i \in DOMAIN nodes |->
                 IF nodes[i].idx = index
                 THEN [nodes[i] EXCEPT !.del = TRUE, !.up = FALSE] ELSE nodes[i]]
  IN  /\ Call
      /\ active' = IF forget THEN None ELSE active
      /\ activeCmd' = (activeCmd /\ ~forget)
      /\ UNCHANGED poolCmd
      /\ IF n.up
         THEN \E fault \in Faults :
                LET r == RemoveTag(core, index, fault)
                IN  core' = r.core /\ nodes' = IF r.ok THEN mark ELSE nodes
         ELSE nodes' = mark /\ UNCHANGED core
      /\ UNCHANGED <<speedMap, lockVars, limit, tests, tunnelVars, refresh,
                     setting>>

ActiveProxyNode(i) ==
  /\ Call /\ ~nodes[i].del
  /\ UNCHANGED poolCmd
  /\ \E fault \in Faults : \E s \in ActiveNode(nodes, nodes[i], fault) :
       Becomes(s)
  /\ UNCHANGED <<speedMap, lockVars, limit, tests, tunnelVars, refresh, setting>>

UnActiveNode ==
  /\ Call
  /\ active' = None /\ activeCmd' = FALSE
  /\ UNCHANGED <<tableVars, lockVars, core, poolCmd, limit, tests, tunnelVars,
                 refresh, setting>>

\* A table that grows may move to another array: who is going over it goes on
\* over the old one, that nobody writes to any more.
Grows(was) ==
  \/ UNCHANGED ops
  \/ /\ Len(nodes') > Len(was)
     /\ ops' = [o \in Ops |-> IF ops[o].left = {} \/ ops[o].view # None THEN ops[o]
                             ELSE [ops[o] EXCEPT !.view = was]]

\* The table is sorted even if the subscription cannot be had.  The dashboard
\* asks for it whether the pool is busy or not.
UpdateSubscribe ==
  /\ Call
  /\ \E s \in SortBySpeed(nodes), list \in Lists \cup {<<>>} :
       nodes' = AddNewNodes(s, list) /\ Grows(s)
  /\ UNCHANGED <<speedMap, IsLock, v2rayVars, limit, tests, tunnelVars, refresh,
                 setting>>

\* pool/init reads the saved subscription into the table there is.
InitProxyPool ==
  /\ Call
  /\ \E list \in Lists : nodes' = addNodeList(nodes, list)
  /\ Grows(nodes)
  /\ poolCmd' \in {poolCmd, TRUE}
  /\ UNCHANGED <<speedMap, IsLock, core, active, activeCmd, limit, tests,
                 tunnelVars, refresh, setting>>

\* The answer goes before the goroutine has locked the pool.
TestProxyPoolAll(t) ==
  /\ Call /\ ~IsLock
  /\ tests[t] = Idle /\ refresh[t] = None
  /\ \E i \in DOMAIN nodes : nodes[i].up /\ ~nodes[i].del
  /\ tests' = [tests EXCEPT ![t].phase = "called"]
  /\ UNCHANGED <<tableVars, lockVars, v2rayVars, limit, tunnelVars, refresh,
                 setting>>

\* A day goes by for a reading.
Expire(id) ==
  /\ Call
  /\ GetLastSpeedNodeIsOk(id)
  /\ speedMap' = [speedMap EXCEPT ![id].ok = FALSE]
  /\ nodes' = [i \in DOMAIN nodes |-> IF nodes[i].id = id
                                      THEN [nodes[i] EXCEPT !.ok = FALSE]
                                      ELSE nodes[i]]
  /\ UNCHANGED <<lockVars, v2rayVars, limit, tests, tunnelVars, refresh, setting>>

-----------------------------------------------------------------------------
(* StartAll, StopAll and KillAllNodes, each under the same lock. *)

\* The pool is busy.  StartAll starts V2Ray if it is not there, and waits a second.
Lock(o) ==
  /\ ops[o].phase = "called"
  /\ IsLock' = TRUE
  /\ IF ops[o].op = "start" THEN poolCmd' \in {poolCmd, TRUE} ELSE UNCHANGED poolCmd
  /\ ops' = [ops EXCEPT ![o].phase = "locked"]
  /\ UNCHANGED <<tableVars, core, active, activeCmd, limit, tests, tunnelVars,
                 refresh, setting, calls>>

\* What the loop reads in a position, the positions ahead of it, and those in
\* which it has something to do.
Seen(o, i) == (IF ops[o].view = None THEN nodes ELSE ops[o].view)[i]
Ahead(o) == IF ops[o].phase = "locked" THEN DOMAIN nodes ELSE ops[o].left
Positions(o) == {i \in Ahead(o) : Seen(o, i).up <=> ops[o].op # "start"}

Served(o, n, fault) ==
  IF ops[o].op = "start" THEN AddToPool(core, n, fault) ELSE RemoveTag(core, n.idx, fault)

\* StartAll that returns at the first failure.
CallNodeReturns(o) ==
  /\ ops[o].phase \in {"locked", "at"}
  /\ \E i \in Positions(o), fault \in Faults :
       LET r == Served(o, Seen(o, i), fault)
           rest == {j \in Ahead(o) : i < j}
       IN  /\ \A j \in Positions(o) : i <= j
           /\ core' = r.core
           /\ ops' = [ops EXCEPT ![o] =
                IF r.ok THEN [@ EXCEPT !.phase = "set", !.pos = i, !.left = rest]
                ELSE IF ops[o].op = "start" THEN NoOp
                ELSE [@ EXCEPT !.phase = "at", !.left = rest]]
  /\ UNCHANGED <<tableVars, IsLock, poolCmd, active, activeCmd, limit, tests, tunnelVars,
                 refresh, setting, calls>>

\* The next node: StartAll stops at the first failure, the others go on past it.
CallNode(o) ==
  /\ ops[o].phase \in {"locked", "at"}
  /\ \E i \in Positions(o), fault \in Faults :
       LET r == Served(o, Seen(o, i), fault)
           rest == {j \in Ahead(o) : i < j}
       IN  /\ \A j \in Positions(o) : i <= j
           /\ core' = r.core
           /\ ops' = [ops EXCEPT ![o] =
                IF r.ok THEN [@ EXCEPT !.phase = "set", !.pos = i, !.left = rest]
                ELSE [@ EXCEPT !.phase = "at",
                               !.left = IF ops[o].op = "start" THEN {} ELSE rest]]
  /\ UNCHANGED <<tableVars, IsLock, poolCmd, active, activeCmd, limit, tests, tunnelVars,
                 refresh, setting, calls>>

\* The Status of whatever is in the position by now.
SetStatus(o) ==
  /\ ops[o].phase = "set"
  /\ nodes' = [nodes EXCEPT ![ops[o].pos].up = (ops[o].op = "start")]
  /\ ops' = [ops EXCEPT ![o].phase = "at", ![o].pos = 0]
  /\ UNCHANGED <<speedMap, IsLock, v2rayVars, limit, tests, tunnelVars, refresh, setting,
                 calls>>

Unlock(o) ==
  /\ ops[o].phase \in {"locked", "at"} /\ Positions(o) = {}
  /\ IsLock' = FALSE
  /\ ops' = [ops EXCEPT ![o] =
       IF @.op = "kill" THEN [NoOp EXCEPT !.op = "kill", !.phase = "killing"] ELSE NoOp]
  /\ UNCHANGED <<tableVars, v2rayVars, limit, tests, tunnelVars, refresh, setting, calls>>

\* Every process is killed, once the pool is no longer busy.
Kill(o) ==
  /\ ops[o].phase = "killing"
  /\ core' = NoTags /\ poolCmd' = FALSE
  /\ active' = None /\ activeCmd' = FALSE
  /\ ops' = [ops EXCEPT ![o] = NoOp]
  /\ UNCHANGED <<tableVars, IsLock, limit, tests, tunnelVars, refresh, setting, calls>>

-----------------------------------------------------------------------------
(* TestAll. *)

\* TestAll that leaves without unlocking when nothing runs any more.
BeginTestsStaysLocked(t) ==
  LET running == {nodes[i] : i \in {j \in DOMAIN nodes : nodes[j].up}}
  IN  /\ tests[t].phase = "called"
      /\ IsLock' = TRUE
      /\ tests' = [tests EXCEPT ![t] =
           IF running = {} THEN Idle
           ELSE [phase |-> "testing",
                 jobs |-> {n \in running : ~GetLastSpeedNodeIsOk(n.id)}]]
      /\ UNCHANGED <<tableVars, ops, v2rayVars, limit, tunnelVars, refresh, setting,
                     calls>>

\* The running nodes without a reading of the last day are tested at once.
BeginTests(t) ==
  LET running == {nodes[i] : i \in {j \in DOMAIN nodes : nodes[j].up}}
  IN  /\ tests[t].phase = "called"
      /\ IF running = {}
         THEN IsLock' = FALSE /\ tests' = [tests EXCEPT ![t] = Idle]
         ELSE /\ IsLock' = TRUE
              /\ tests' = [tests EXCEPT ![t] =
                   [phase |-> "testing",
                    jobs |-> {n \in running : ~GetLastSpeedNodeIsOk(n.id)}]]
      /\ UNCHANGED <<tableVars, ops, v2rayVars, limit, tunnelVars, refresh, setting,
                     calls>>

EndTest(t, n) ==
  /\ \E r \in Readings : testOneNode(n, r)
  /\ tests' = [tests EXCEPT ![t].jobs = @ \ {n}]
  /\ UNCHANGED <<lockVars, v2rayVars, limit, tunnelVars, refresh, setting, calls>>

\* RefreshNodes of the tunnel pool i starts with the running nodes, at their
\* places in the table.
BeginRefresh(o, i, ns) ==
  LET running == {k \in DOMAIN ns : ns[k].up /\ ~ns[k].del}
  IN  refresh' = [refresh EXCEPT ![o] =
        [of |-> i, limit |-> limit', done |-> {}, todo |-> Restrict(ns, running)]]

\* The table is sorted, the first node with a reading becomes the system proxy
\* if there is none, and the tunnel's nodes are refreshed.
EndTests(t) ==
  /\ tests[t].phase = "testing" /\ tests[t].jobs = {}
  /\ UNCHANGED <<poolCmd, limit>>
  /\ \E sorted \in SortBySpeed(nodes) :
       LET ok == {i \in DOMAIN sorted : sorted[i].ok}
           stay == [nodes |-> sorted, core |-> core, active |-> active,
                    activeCmd |-> activeCmd]
       IN  IF activeCmd \/ ok = {} THEN Becomes(stay)
           ELSE LET n == sorted[CHOOSE i \in ok : \A j \in ok : i <= j]
                IN  \E fault \in Faults : \E s \in ActiveNode(sorted, n, fault) :
                      Becomes(s)
  /\ IsLock' = FALSE
  /\ tests' = [tests EXCEPT ![t] = Idle]
  /\ IF TunnelRuns THEN BeginRefresh(t, tunnel, nodes') ELSE UNCHANGED refresh
  /\ UNCHANGED <<speedMap, ops, tunnelVars, setting, calls>>

-----------------------------------------------------------------------------
(* The tunnel. *)

\* Start: a new context, the port, which may be taken, and the loop.
Start(i, was) ==
  \/ /\ tunnels' = [was EXCEPT ![i].running = TRUE, ![i].cancelled = FALSE]
     /\ \E l \in Loops : /\ loop[l] = NoLoop
                         /\ loop' = [loop EXCEPT ![l] = [of |-> i, first |-> TRUE]]
  \/ /\ tunnels' = [was EXCEPT ![i].cancelled = FALSE]
     /\ UNCHANGED loop

Stop(i) == [tunnels EXCEPT ![i].running = FALSE, ![i].cancelled = TRUE]

StartTunnelPool ==
  /\ Call /\ ~TunnelRuns /\ tunnel < MaxTunnels
  /\ tunnel' = tunnel + 1
  /\ Start(tunnel + 1, tunnels)
  /\ UNCHANGED <<tableVars, lockVars, v2rayVars, limit, tests, refresh, setting>>

StopTunnelPool ==
  /\ Call /\ TunnelRuns
  /\ tunnels' = Stop(tunnel)
  /\ UNCHANGED <<tableVars, lockVars, v2rayVars, limit, tests, tunnel, loop,
                 refresh, setting>>

\* VP_TUNNEL_PORT: the pool is stopped and started again.
ChangePort ==
  /\ Call /\ TunnelRuns
  /\ Start(tunnel, Stop(tunnel))
  /\ UNCHANGED <<tableVars, lockVars, v2rayVars, limit, tests, tunnel, refresh,
                 setting>>

Signalled == IF TunnelRuns THEN [tunnels EXCEPT ![tunnel].refreshCh = TRUE]
             ELSE tunnels

SetRefreshInterval ==
  /\ Call /\ tunnels' = Signalled
  /\ UNCHANGED <<tableVars, lockVars, v2rayVars, limit, tests, tunnel, loop,
                 refresh, setting>>

\* VP_TUNNEL_MAX_DELAY: the tunnel is told, then the configuration is set, and
\* the nodes are refreshed by the request too.
SetMaxDelay(n) ==
  /\ Call /\ setting = None /\ refresh[Setter] = None
  /\ setting' = n /\ tunnels' = Signalled
  /\ UNCHANGED <<tableVars, lockVars, v2rayVars, limit, tests, tunnel, loop,
                 refresh>>

SetConf ==
  /\ setting # None
  /\ limit' = setting /\ setting' = None
  /\ IF TunnelRuns THEN BeginRefresh(Setter, tunnel, nodes)
     ELSE UNCHANGED refresh
  /\ UNCHANGED <<tableVars, lockVars, v2rayVars, tests, tunnelVars, calls>>

\* The next node: its reading of the last day, or a test.
RefreshOne(o) ==
  /\ refresh[o] # None
  /\ \E r \in Readings, i \in DOMAIN refresh[o].todo :
       LET rest == DOMAIN refresh[o].todo \ {i}
           n == refresh[o].todo[i]
           known == GetLastSpeedNodeIsOk(n.id)
           now == IF known THEN [n EXCEPT !.speed = speedMap[n.id].speed,
                                          !.ok = speedMap[n.id].ok]
                  ELSE Tested(n, r)
       IN  /\ \A j \in rest : i < j
           /\ IF known THEN UNCHANGED tableVars ELSE testOneNode(n, r)
           /\ refresh' = [refresh EXCEPT ![o].todo = Restrict(@, rest),
                                         ![o].done = @ \cup {now}]
  /\ UNCHANGED <<lockVars, v2rayVars, limit, tests, tunnelVars, setting, calls>>

EndRefresh(o) ==
  /\ refresh[o] # None /\ DOMAIN refresh[o].todo = {}
  /\ tunnels' = [tunnels EXCEPT ![refresh[o].of].nodeList =
       {<<n.id, n.idx>> : n \in {m \in refresh[o].done : m.speed < refresh[o].limit}}]
  /\ refresh' = [refresh EXCEPT ![o] = None]
  /\ UNCHANGED <<tableVars, lockVars, v2rayVars, limit, tests, tunnel, loop,
                 setting, calls>>

Waits(l) == loop[l].of # 0 /\ ~loop[l].first /\ refresh[l] = None

LoopFirst(l) ==
  /\ loop[l].first
  /\ loop' = [loop EXCEPT ![l].first = FALSE]
  /\ UNCHANGED limit
  /\ BeginRefresh(l, loop[l].of, nodes)
  /\ UNCHANGED <<tableVars, lockVars, v2rayVars, tests, tunnel, tunnels, setting,
                 calls>>

LoopSignal(l) ==
  /\ Waits(l) /\ tunnels[loop[l].of].refreshCh
  /\ tunnels' = [tunnels EXCEPT ![loop[l].of].refreshCh = FALSE]
  /\ UNCHANGED limit
  /\ BeginRefresh(l, loop[l].of, nodes)
  /\ UNCHANGED <<tableVars, lockVars, v2rayVars, tests, tunnel, loop, setting,
                 calls>>

LoopTick(l) ==
  /\ Waits(l)
  /\ UNCHANGED limit
  /\ BeginRefresh(l, loop[l].of, nodes)
  /\ UNCHANGED <<tableVars, lockVars, v2rayVars, tests, tunnelVars, setting, calls>>

\* A loop that asks the context of the global pool, which may be another.
LoopEndOfGlobal(l) ==
  /\ Waits(l) /\ tunnels[tunnel].cancelled
  /\ loop' = [loop EXCEPT ![l] = NoLoop]
  /\ UNCHANGED <<tableVars, lockVars, v2rayVars, limit, tests, tunnel, tunnels,
                 refresh, setting, calls>>

\* <-tp.ctx.Done(), of the context the pool has now.
LoopEnd(l) ==
  /\ Waits(l) /\ tunnels[loop[l].of].cancelled
  /\ loop' = [loop EXCEPT ![l] = NoLoop]
  /\ UNCHANGED <<tableVars, lockVars, v2rayVars, limit, tests, tunnel, tunnels,
                 refresh, setting, calls>>

-----------------------------------------------------------------------------
Request ==
  \/ StartAll \/ StopAll \/ KillAllNodes \/ UnActiveNode
  \/ UpdateSubscribe \/ InitProxyPool
  \/ StartTunnelPool \/ StopTunnelPool \/ ChangePort \/ SetRefreshInterval
  \/ \E i \in DOMAIN nodes : Delete(i - 1) \/ ActiveProxyNode(i)
  \/ \E t \in Tests : TestProxyPoolAll(t)
  \/ \E id \in Ids : Expire(id)
  \/ \E n \in Limits : SetMaxDelay(n)

Testing(t) == BeginTests(t) \/ EndTests(t) \/ \E n \in tests[t].jobs : EndTest(t, n)
Operating(o) == Lock(o) \/ CallNode(o) \/ SetStatus(o) \/ Unlock(o) \/ Kill(o)
Refreshing(o) == RefreshOne(o) \/ EndRefresh(o)

PoolNext ==
  \/ Request
  \/ SetConf
  \/ \E t \in Tests : Testing(t)
  \/ \E o \in Ops : Operating(o)
  \/ \E o \in Refreshers : Refreshing(o)
  \/ \E l \in Loops : LoopFirst(l) \/ LoopSignal(l) \/ LoopTick(l) \/ LoopEnd(l)

PoolSpec == PoolInit /\ [][PoolNext]_poolVars

\* A test and a refresh end by their time limits, and select picks at random
\* among what is ready, so a loop that may always end does not tick for ever.
Fairness ==
  /\ \A t \in Tests : WF_poolVars(Testing(t))
  /\ \A o \in Refreshers : WF_poolVars(Refreshing(o))
  /\ \A l \in Loops : WF_poolVars(LoopFirst(l)) /\ SF_poolVars(LoopEnd(l))

FairSpec == PoolSpec /\ Fairness

-----------------------------------------------------------------------------
(* A local port leads to the server of the node that was given it, in V2Ray *)
(* and in the nodes the tunnel picks from: however lists repeat, change and *)
(* are read again, AddNode gives no Index twice (v2raypool.go:230), and no  *)
(* copy that comes back late carries another node's (v2raypool.go:279).     *)
PortLeadsToItsNode ==
  /\ \A i, j \in DOMAIN nodes : nodes[i].idx = nodes[j].idx => i = j
  /\ \A o \in core.out \cup {<<p[2], p[1]>> : p \in UNION {tunnels[i].nodeList : i \in Tunnels}} :
       \E i \in DOMAIN nodes : nodes[i].idx = o[1] /\ nodes[i].id = o[2]

\* The pool answers that it is busy only while a test, a StartAll, a StopAll or
\* the stopping in KillAllNodes is under way (grpc_server.go:111, 133, 155, 235):
\* every way out of each gives the one lock back (v2raypool.go:571-640, 665, 703,
\* 757), past nodes that fail and with no node left to test, whoever else took it
\* meanwhile.  Not the other way round: the first to end frees the pool for all.
LockedOnlyWhileBusy ==
  IsLock => \/ \E t \in Tests : tests[t].phase = "testing"
            \/ \E o \in Ops : ops[o].phase \in {"locked", "at", "set"}

\* Once the context of a tunnel pool stays cancelled its loops all end
\* (tunnel_pool.go:241), those too that a change of the port left behind:
\* they ask the context the pool has now, not the one they began with.
LoopsEnd ==
  \A i \in Tunnels : <>[](tunnels[i].cancelled) => <>[](\A l \in Loops : loop[l].of # i)
=============================================================================
