----------------------------- MODULE Dashboard -----------------------------
(***************************************************************************)
(* pkg/api/server.go as the dashboard and its users see it: the settings,  *)
(* the actions on one node, the tests in the background (pkg/tester), the  *)
(* proxies handed out, and the stream of events.                           *)
(*                                                                         *)
(* A task is a goroutine: a request, a run of tests (POST test-all and     *)
(* batch-test), or the test of one node in a run.  Each of its calls is    *)
(* one step.  Of the manager there are the running nodes, the base port    *)
(* and m.mu, which a stop holds until the clients of the listener have     *)
(* left (NodeManager); of the tunnel its configuration (TunnelPool); of    *)
(* the store the settings in memory and what it says of each node (Store). *)
(***************************************************************************)
EXTENDS Integers, Sequences, FiniteSets

CONSTANTS Requests,    \* goroutines serving a request
          Runs,        \* goroutines with a run of tests
          Nodes,       \* the stored nodes
          Dashboards,  \* clients of the event stream
          Nobody,      \* no task
          Values,      \* what a setting may be set to
          Latencies,   \* what a test gives: milliseconds, -1 for a failure
          Buffer,      \* capacity of a dashboard's channel
          Concurrency, \* tests of one run at a time
          MaxCalls     \* bound: requests and runs

ASSUME DashboardAssumption ==
  /\ Values \subseteq Nat \ {0} /\ Values # {}
  /\ Latencies \subseteq Nat \cup {-1} /\ Latencies # {}
  /\ Buffer \in Nat \ {0} /\ Concurrency \in Nat \ {0} /\ MaxCalls \in Nat
  /\ Requests \cap (Runs \cup Runs \X Nodes) = {} /\ Runs \cap (Runs \X Nodes) = {}
  /\ Nobody \notin Requests \cup Runs \cup Runs \X Nodes /\ "complete" \notin Nodes

VARIABLES saved,    \* store.data.Config
          live,     \* manager.basePort and tunnel.config
          up,       \* the nodes with a listener: manager.runningNodes
          holder,   \* the stop that holds m.mu while its clients leave
          stored,   \* running flag, port (or none) and latency in the store
          task,     \* per goroutine: what it does and holds
          here,     \* the connected dashboards: sseClients
          waiting,  \* how many events are in their channels
          calls,    \* calls so far
          skewed,   \* history: settings that overlapping requests may have spoilt
          wanted,   \* history: the test URL last asked for
          contended,\* history: nodes on which a start, a stop or a pick
                    \* overlapped with another task
          newest,   \* history: the last result of a test above 0 ms, or failure,
                    \* since the node was last refreshed
          refreshed,\* history: nodes refreshed and not started, stopped or tested since
          heard,    \* history: the events of each run put in each channel
          owed,     \* history: who listened from the beginning of a run and
                    \* never missed an event
          tested    \* history: the nodes of each run

settings == <<saved, live, skewed, wanted>>
nodeVars == <<up, holder, stored, contended, newest, refreshed>>
events == <<here, waiting, heard, owed, tested>>
vars == <<settings, nodeVars, events, task, calls>>

Workers == Runs \X Nodes
Tasks == Requests \cup Runs \cup Workers

NoTask == [kind |-> "none", step |-> "none"]
Is(p, kind) == task[p].kind = kind
At(p, step) == task[p].step = step

\* The program has been up for a while: some nodes were started, none tested.
Init ==
  /\ LET v == CHOOSE v \in Values : TRUE
     IN  /\ saved = [base |-> v, tunnel |-> v, url |-> v]
         /\ live = [base |-> v, tunnel |-> v]
         /\ wanted = v
  /\ skewed = {}
  /\ up \in SUBSET Nodes /\ holder = Nobody
  /\ stored = [n \in Nodes |-> [running |-> n \in up, port |-> n \in up, latency |-> 0]]
  /\ contended = {} /\ newest = [n \in Nodes |-> 0] /\ refreshed = {}
  /\ here = {} /\ waiting = [d \in Dashboards |-> 0]
  /\ heard = [d \in Dashboards |-> [t \in Runs |-> <<>>]]
  /\ owed = [t \in Runs |-> {}] /\ tested = [t \in Runs |-> {}]
  /\ task = [p \in Tasks |-> NoTask]
  /\ calls = 0

-----------------------------------------------------------------------------
(* Tasks *)

Arrives(p) ==
  /\ task[p] = NoTask
  /\ calls < MaxCalls
  /\ calls' = calls + 1

Goes(p, step) == task' = [task EXCEPT ![p].step = step]
Ends(p) == task' = [task EXCEPT ![p] = NoTask]

\* The nodes a task is about.
About(p) == IF task[p].kind \in {"start", "stop", "test", "pick"} THEN task[p].nodes ELSE {}

Steers(kind) == kind \in {"start", "stop", "pick"}

\* What a new task of a kind on S spoils, or is spoilt by.
Contends(kind, S) ==
  contended' = contended \cup
    UNION {About(q) \cap S : q \in {q \in Tasks : Steers(kind) \/ Steers(task[q].kind)}}

\* Calls of the manager wait for m.mu.
Unlocked == holder = Nobody

Broadcast(p) == task' = [task EXCEPT ![p].step = "send", ![p].to = here]

-----------------------------------------------------------------------------
(* POST /api/config, POST /api/tunnel.  0 is a field the request leaves out. *)

Setting(p) == task[p].kind \in {"config", "tunnel"}

Set(p, kind, ask) ==
  /\ Arrives(p)
  /\ LET alone == \A q \in Tasks : ~Setting(q)
     IN  task' = [q \in Tasks |->
                    IF q = p THEN [kind |-> kind, step |-> "read", ask |-> ask,
                                   form |-> saved, alone |-> alone, to |-> {}]
                    ELSE IF Setting(q) THEN [task[q] EXCEPT !.alone = FALSE]
                    ELSE task[q]]
  /\ UNCHANGED <<settings, nodeVars, events>>

SetConfig(p) ==
  \E base, url \in Values \cup {0} : Set(p, "config", [base |-> base, url |-> url])

SetTunnel(p) ==
  \E tunnel \in Values : Set(p, "tunnel", [tunnel |-> tunnel])

ReadConfig(p) ==
  /\ Is(p, "config") /\ At(p, "read")
  /\ task' = [task EXCEPT ![p].form = saved, ![p].step = "base"]
  /\ UNCHANGED <<settings, nodeVars, events, calls>>

ReadBase(p) ==
  /\ Is(p, "config") /\ At(p, "base") /\ Unlocked
  /\ task' = [task EXCEPT ![p].form.base = live.base, ![p].step = "set"]
  /\ UNCHANGED <<settings, nodeVars, events, calls>>

Given(asked, otherwise) == IF asked # 0 THEN asked ELSE otherwise

SetBase(p) ==
  /\ Is(p, "config") /\ At(p, "set")
  /\ task[p].ask.base # 0 => Unlocked
  /\ live' = [live EXCEPT !.base = Given(task[p].ask.base, @)]
  /\ task' = [task EXCEPT ![p].form.base = Given(task[p].ask.base, @),
                          ![p].form.url = Given(task[p].ask.url, @),
                          ![p].step = "save"]
  /\ UNCHANGED <<saved, skewed, wanted, nodeVars, events, calls>>

\* Mutant: a tunnel that could not be updated is saved like one that could.
UpdateTunnelSavesFailure(p) ==
  /\ Is(p, "tunnel") /\ At(p, "read")
  /\ \/ live' = [live EXCEPT !.tunnel = task[p].ask.tunnel]
     \/ UNCHANGED live
  /\ Goes(p, "form")
  /\ UNCHANGED <<saved, skewed, wanted, nodeVars, events, calls>>

\* What a request leaves out is filled in from the tunnel's configuration first.
\* The tunnel takes the configuration whether or not its listener starts; if
\* it does not, the request returns without saving.
UpdateTunnel(p) ==
  /\ Is(p, "tunnel") /\ At(p, "read")
  /\ live' = [live EXCEPT !.tunnel = task[p].ask.tunnel]
  /\ \/ Goes(p, "form") /\ UNCHANGED skewed
     \/ Ends(p) /\ skewed' = skewed \cup {"tunnel"}
  /\ UNCHANGED <<saved, wanted, nodeVars, events, calls>>

FormTunnel(p) ==
  /\ Is(p, "tunnel") /\ At(p, "form")
  /\ task' = [task EXCEPT ![p].form = [saved EXCEPT !.tunnel = task[p].ask.tunnel],
                          ![p].step = "save"]
  /\ UNCHANGED <<settings, nodeVars, events, calls>>

\* Alone, a request puts right what it writes from the live state.
Mends(p) ==
  IF Is(p, "tunnel") THEN {"tunnel"}
  ELSE IF task[p].ask.url # 0 THEN {"base", "url"} ELSE {"base"}

\* The whole of the settings is written.  An error of the file ends a request
\* for the configuration; the other does not look at it.
SaveConfig(p) ==
  /\ Setting(p) /\ At(p, "save")
  /\ saved' = task[p].form
  /\ skewed' = IF task[p].alone THEN skewed \ Mends(p) ELSE {"base", "tunnel", "url"}
  /\ wanted' = IF Is(p, "config") THEN Given(task[p].ask.url, wanted) ELSE wanted
  /\ Broadcast(p) \/ (Is(p, "config") /\ Ends(p))
  /\ UNCHANGED <<live, nodeVars, events, calls>>

-----------------------------------------------------------------------------
(* POST /api/nodes/:id/start, stop, test *)

\* copies: the latencies as the store had them.  running, port: what the
\* manager said.  owns: the manager holds this task's copy of the node.
NodeTask(kind, step, S) ==
  [kind |-> kind, step |-> step, nodes |-> S, copies |-> [n \in S |-> stored[n].latency],
   running |-> FALSE, port |-> FALSE, owns |-> FALSE, cut |-> FALSE,
   only |-> FALSE, auto |-> FALSE, left |-> {}, to |-> {}]

Act(p, kind, n) ==
  /\ Arrives(p)
  /\ task' = [task EXCEPT ![p] = NodeTask(kind, IF kind = "test" THEN "test" ELSE "act", {n})]
  /\ Contends(kind, {n})
  /\ UNCHANGED <<settings, up, holder, stored, newest, refreshed, events>>

NodeOf(p) == CHOOSE n \in task[p].nodes : TRUE

\* A listener for the node, an error, or the listener it has.  The manager
\* keeps the caller's copy of the node if it makes a listener.
StartNode(p) ==
  /\ task[p].kind \in {"start", "pick"} /\ At(p, "act") /\ Unlocked
  /\ \/ /\ up' = up \cup {NodeOf(p)}
        /\ task' = [task EXCEPT ![p].step = "update", ![p].running = TRUE, ![p].port = TRUE,
                                ![p].owns = NodeOf(p) \notin up]
     \/ /\ NodeOf(p) \notin up
        /\ IF Is(p, "pick") THEN Ends(p) ELSE Goes(p, "update")
        /\ UNCHANGED up
  /\ UNCHANGED <<settings, holder, stored, contended, newest, refreshed, events, calls>>

StopNothing(p) ==
  /\ Is(p, "stop") /\ At(p, "act") /\ Unlocked
  /\ NodeOf(p) \notin up
  /\ Goes(p, "update")
  /\ UNCHANGED <<settings, nodeVars, events, calls>>

\* The listener is closed and its clients are waited for, with m.mu held ...
StopNode(p) ==
  /\ Is(p, "stop") /\ At(p, "act") /\ Unlocked
  /\ NodeOf(p) \in up
  /\ holder' = p
  /\ Goes(p, "closing")
  /\ UNCHANGED <<settings, up, stored, contended, newest, refreshed, events, calls>>

\* Mutant: m.mu is not given back.
ForgetKeepsLock(p) ==
  /\ Is(p, "stop") /\ At(p, "closing")
  /\ up' = up \ {NodeOf(p)}
  /\ Goes(p, "update")
  /\ UNCHANGED <<settings, holder, stored, contended, newest, refreshed, events, calls>>

\* ... and then it is forgotten, in the copy of whoever started it as well: a
\* pick that answers from this copy, without the lock, may see each flag changed
\* or not.  A listening socket is taken to close without an error.
Forget(p) ==
  /\ Is(p, "stop") /\ At(p, "closing")
  /\ up' = up \ {NodeOf(p)}
  /\ holder' = Nobody
  /\ \E running, port \in BOOLEAN :
       task' = [q \in Tasks |->
         IF q = p THEN [task[p] EXCEPT !.step = "update"]
         ELSE IF ~Is(q, "pick") \/ NodeOf(p) \notin task[q].nodes THEN task[q]
         ELSE IF task[q].owns /\ At(q, "answer")
              THEN [task[q] EXCEPT !.cut = TRUE, !.running = running, !.port = port]
         ELSE [task[q] EXCEPT !.cut = TRUE]]
  /\ UNCHANGED <<settings, stored, contended, newest, refreshed, events, calls>>

\* tester.TestNode: a latency, or -1.
TestNode(p) ==
  /\ At(p, "test")
  /\ \E latency \in Latencies :
       task' = [task EXCEPT ![p].copies = [n \in task[p].nodes |-> latency],
                            ![p].step = "running"]
  /\ UNCHANGED <<settings, nodeVars, events, calls>>

ReadRunning(p) ==
  /\ At(p, "running") /\ Unlocked
  /\ task' = [task EXCEPT ![p].running = NodeOf(p) \in up, ![p].step = "port"]
  /\ UNCHANGED <<settings, nodeVars, events, calls>>

ReadPort(p) ==
  /\ At(p, "port") /\ Unlocked
  /\ task' = [task EXCEPT ![p].port = NodeOf(p) \in up,
                          ![p].step = IF Is(p, "pick") THEN "answer" ELSE "update"]
  /\ UNCHANGED <<settings, nodeVars, events, calls>>

\* Mutant: a result of 0 ms replaces the latency.
KeepsAny(latency, old) == latency

\* A latency of 0 is taken for none.
Keeps(latency, old) == IF latency # 0 THEN latency ELSE old

\* A start, a stop or a pick writes the latency it read at the beginning.  There
\* is no event of a start that failed.
UpdateNodeRuntime(p) ==
  /\ At(p, "update")
  /\ LET n == NodeOf(p)
         latency == task[p].copies[n]
     IN  /\ stored' = [stored EXCEPT ![n] =
                         [running |-> task[p].running, port |-> task[p].port,
                          latency |-> Keeps(latency, @.latency)]]
         /\ newest' = IF Is(p, "test") /\ latency # 0
                      THEN [newest EXCEPT ![n] = latency] ELSE newest
         /\ refreshed' = refreshed \ {n}
  /\ IF Is(p, "start") /\ ~task[p].running THEN Ends(p) ELSE Broadcast(p)
  /\ UNCHANGED <<settings, up, holder, contended, events, calls>>

-----------------------------------------------------------------------------
(* POST /api/subscriptions/:id/refresh *)

\* Mutant: the latency of a node with the ID of an old one is carried over.
RefreshKeepsLatency(p, S) ==
  /\ Arrives(p)
  /\ stored' = [n \in Nodes |-> IF n \in S
                               THEN [stored[n] EXCEPT !.running = FALSE, !.port = FALSE]
                               ELSE stored[n]]
  /\ newest' = [n \in Nodes |-> IF n \in S THEN 0 ELSE newest[n]]
  /\ refreshed' = refreshed \cup S
  /\ task' = [task EXCEPT ![p] = [kind |-> "refresh", step |-> "send", to |-> here]]
  /\ Contends("refresh", S)
  /\ UNCHANGED <<settings, up, holder, events>>

\* The nodes of a subscription are parsed anew and stored over the old ones,
\* without a word to the manager.  The list is taken to stay the same; what is
\* fetched and saved ahead of it ApiServer has.
Refresh(p, S) ==
  /\ Arrives(p)
  /\ stored' = [n \in Nodes |-> IF n \in S
                               THEN [running |-> FALSE, port |-> FALSE, latency |-> 0]
                               ELSE stored[n]]
  /\ newest' = [n \in Nodes |-> IF n \in S THEN 0 ELSE newest[n]]
  /\ refreshed' = refreshed \cup S
  /\ task' = [task EXCEPT ![p] = [kind |-> "refresh", step |-> "send", to |-> here]]
  /\ Contends("refresh", S)
  /\ UNCHANGED <<settings, up, holder, events>>

-----------------------------------------------------------------------------
(* GET /api/proxy/fastest, get and random                                  *)

\* The list is taken from the store, and each node of the protocol and country
\* asked for is looked up in the manager.
Pick(p, S, only, auto) ==
  /\ Arrives(p)
  /\ task' = [task EXCEPT ![p] = [NodeTask("pick", "filter", S) EXCEPT
                                   !.only = only, !.auto = auto, !.left = S]]
  /\ Contends("pick", S)
  /\ UNCHANGED <<settings, up, holder, stored, newest, refreshed, events>>

Filter(p) ==
  /\ At(p, "filter") /\ Unlocked
  /\ \E n \in task[p].left :
       task' = [task EXCEPT ![p].left = @ \ {n},
                            ![p].nodes = IF task[p].only /\ n \notin up THEN @ \ {n} ELSE @]
  /\ UNCHANGED <<settings, nodeVars, events, calls>>

\* With a positive latency, if there is one: the least for fastest, any for random.
Choices(p) ==
  LET positive == {n \in task[p].nodes : task[p].copies[n] > 0}
  IN  IF positive # {} THEN positive ELSE task[p].nodes

Choose(p) ==
  /\ At(p, "filter") /\ task[p].left = {}
  /\ \/ task[p].nodes = {} /\ Ends(p)
     \/ \E n \in Choices(p) :
          task' = [task EXCEPT ![p].nodes = {n},
                               ![p].step = IF task[p].auto THEN "check" ELSE "running"]
  /\ UNCHANGED <<settings, nodeVars, events, calls>>

Check(p) ==
  /\ At(p, "check") /\ Unlocked
  /\ Goes(p, IF NodeOf(p) \in up THEN "running" ELSE "act")
  /\ UNCHANGED <<settings, nodeVars, events, calls>>

\* Mutant: the port of a listener just started is not filled in.
AssignNoPort(p) ==
  /\ At(p, "assign")
  /\ task' = [task EXCEPT ![p].running = TRUE, ![p].port = FALSE, ![p].step = "answer"]
  /\ UNCHANGED <<settings, nodeVars, events, calls>>

\* What was started is filled into the copy, once the event is out.
Assign(p) ==
  /\ At(p, "assign")
  /\ task' = [task EXCEPT ![p].running = TRUE, ![p].port = TRUE, ![p].step = "answer"]
  /\ UNCHANGED <<settings, nodeVars, events, calls>>

Answer(p) ==
  /\ At(p, "answer")
  /\ Ends(p)
  /\ UNCHANGED <<settings, nodeVars, events, calls>>

-----------------------------------------------------------------------------
(* POST /api/nodes/test-all, batch-test: tester.TestAll *)

RunTests(t, S) ==
  /\ Arrives(t)
  /\ task' = [p \in Tasks |->
       IF p = t THEN [kind |-> "run", step |-> "wait", to |-> {}]
       ELSE IF p \in Workers /\ p[1] = t /\ p[2] \in S
            THEN NodeTask("test", "queue", {p[2]})
       ELSE task[p]]
  /\ Contends("test", S)
  /\ heard' = [d \in Dashboards |-> [heard[d] EXCEPT ![t] = <<>>]]
  /\ owed' = [owed EXCEPT ![t] = here]
  /\ tested' = [tested EXCEPT ![t] = S]
  /\ UNCHANGED <<settings, up, holder, stored, newest, refreshed, here, waiting>>

WorkersOf(t) == {p \in Workers : p[1] = t}

\* Mutant: a test does not give its place back.
PlaceFreeOnce(t) ==
  Cardinality({p \in WorkersOf(t) : p[2] \in tested[t] /\ ~At(p, "queue")}) < Concurrency

\* The semaphore has a place for each test that runs.
PlaceFree(t) ==
  Cardinality({p \in WorkersOf(t) : ~At(p, "queue") /\ ~At(p, "none")}) < Concurrency

Acquire(p) ==
  /\ At(p, "queue")
  /\ PlaceFree(p[1])
  /\ Goes(p, "test")
  /\ UNCHANGED <<settings, nodeVars, events, calls>>

\* Mutant: the tests are waited for before their results are reported.
WaitNoReport(t) ==
  /\ t \in Runs /\ At(t, "wait")
  /\ \A p \in WorkersOf(t) : task[p].step \in {"none", "send"}
  /\ Broadcast(t)
  /\ UNCHANGED <<settings, nodeVars, events, calls>>

Wait(t) ==
  /\ t \in Runs /\ At(t, "wait")
  /\ \A p \in WorkersOf(t) : task[p] = NoTask
  /\ Broadcast(t)
  /\ UNCHANGED <<settings, nodeVars, events, calls>>

-----------------------------------------------------------------------------
(* GET /api/events *)

\* Joining and leaving take the lock that each broadcast holds for reading.
NoBroadcast == \A p \in Tasks : ~At(p, "send")

Join(d) ==
  /\ d \notin here /\ NoBroadcast
  /\ here' = here \cup {d}
  /\ waiting' = [waiting EXCEPT ![d] = 0]
  /\ UNCHANGED <<settings, nodeVars, heard, owed, tested, task, calls>>

Leave(d) ==
  /\ d \in here /\ NoBroadcast
  /\ here' = here \ {d}
  /\ waiting' = [waiting EXCEPT ![d] = 0]
  /\ owed' = [t \in Runs |-> owed[t] \ {d}]
  /\ UNCHANGED <<settings, nodeVars, heard, tested, task, calls>>

\* The handler writes the next event to its client.
Flush(d) ==
  /\ waiting[d] > 0
  /\ waiting' = [waiting EXCEPT ![d] = @ - 1]
  /\ UNCHANGED <<settings, nodeVars, here, heard, owed, tested, task, calls>>

\* Of the events those of a run are told apart: a result, or its completion.
Hears(d, p) ==
  heard' = IF p \in Runs THEN [heard EXCEPT ![d][p] = Append(@, "complete")]
           ELSE IF p \in Workers THEN [heard EXCEPT ![d][p[1]] = Append(@, p[2])]
           ELSE heard

\* A full channel misses the event.
Send(p, d) ==
  /\ At(p, "send") /\ d \in task[p].to
  /\ task' = [task EXCEPT ![p].to = @ \ {d}]
  /\ IF waiting[d] < Buffer
     THEN /\ waiting' = [waiting EXCEPT ![d] = @ + 1]
          /\ Hears(d, p)
          /\ UNCHANGED owed
     ELSE /\ owed' = [t \in Runs |-> owed[t] \ {d}]
          /\ UNCHANGED <<waiting, heard>>
  /\ UNCHANGED <<settings, nodeVars, here, tested, calls>>

Sent(p) ==
  /\ At(p, "send") /\ task[p].to = {}
  /\ IF Is(p, "pick") THEN Goes(p, "assign") ELSE Ends(p)
  /\ UNCHANGED <<settings, nodeVars, events, calls>>

-----------------------------------------------------------------------------
Call(p) ==
  \/ SetConfig(p) \/ SetTunnel(p)
  \/ \E n \in Nodes : Act(p, "start", n) \/ Act(p, "stop", n) \/ Act(p, "test", n)
  \/ \E S \in (SUBSET Nodes) \ {{}} : Refresh(p, S)
  \/ \E S \in (SUBSET Nodes) \ {{}}, only, auto \in BOOLEAN : Pick(p, S, only, auto)

\* The steps of a test and of a run; a request for a test takes the same ones.
TestStep(p) ==
  \/ Acquire(p) \/ TestNode(p) \/ ReadRunning(p) \/ ReadPort(p) \/ UpdateNodeRuntime(p)
  \/ Wait(p)
  \/ Sent(p) \/ \E d \in Dashboards : Send(p, d)

Step(p) ==
  \/ ReadConfig(p) \/ ReadBase(p) \/ SetBase(p) \/ UpdateTunnel(p) \/ FormTunnel(p) \/ SaveConfig(p)
  \/ StartNode(p) \/ StopNothing(p) \/ StopNode(p)
  \/ Filter(p) \/ Choose(p) \/ Check(p) \/ Assign(p) \/ Answer(p)
  \/ TestStep(p)

Next ==
  \/ \E p \in Requests : Call(p)
  \/ \E t \in Runs, S \in SUBSET Nodes : RunTests(t, S)
  \/ \E p \in Tasks : Step(p) \/ Forget(p)
  \/ \E d \in Dashboards : Join(d) \/ Leave(d) \/ Flush(d)

Spec == Init /\ [][Next]_vars

-----------------------------------------------------------------------------
TypeOK ==
  /\ saved \in [base : Values, tunnel : Values, url : Values]
  /\ live \in [base : Values, tunnel : Values] /\ wanted \in Values
  /\ skewed \subseteq {"base", "tunnel", "url"}
  /\ up \subseteq Nodes /\ holder \in Requests \cup {Nobody}
  /\ stored \in [Nodes -> [running : BOOLEAN, port : BOOLEAN, latency : Latencies \cup {0}]]
  /\ contended \subseteq Nodes /\ newest \in [Nodes -> Latencies \cup {0}]
  /\ refreshed \subseteq Nodes
  /\ here \subseteq Dashboards
  /\ \A d \in Dashboards : waiting[d] \in 0..(IF d \in here THEN Buffer ELSE 0)
  /\ owed \in [Runs -> SUBSET here] /\ tested \in [Runs -> SUBSET Nodes]
  /\ \A p \in Tasks : task[p].kind \in {"none", "config", "tunnel", "start", "stop", "test", "pick",
                                       "refresh", "run"}
  /\ calls \in 0..MaxCalls
  /\ \A p \in Tasks : holder = p <=> Is(p, "stop") /\ At(p, "closing")

\* Between requests for the settings, what is saved is what is in force, and
\* the test URL is the one last asked for, unless two requests overlapped or the
\* tunnel did not start: both read all settings and write all of them
\* (server.go:164-199, 635-637), and a request alone mends what it writes.
SettingsAgree ==
  (\A p \in Tasks : ~Setting(p)) =>
    /\ "base" \in skewed \/ saved.base = live.base
    /\ "tunnel" \in skewed \/ saved.tunnel = live.tunnel
    /\ "url" \in skewed \/ saved.url = wanted

\* With no start, stop or pick of it under way, the store says of a node whether
\* it runs, has a port exactly then, and has the result of the last test that was
\* not 0 ms (store.go:255).  A refresh of its subscription forgets all three while
\* the node runs on, until it is started, stopped or tested next (store.go:186-197,
\* server.go:349).  Not so if a start, a stop or a pick once overlapped with
\* another request on the node, a refresh included: what it read before, it
\* writes.  Tests may overlap with each other and with a refresh: each reads the
\* flags itself (server.go:446, 552-570, 585, 798).
StoreFollows ==
  \A n \in Nodes :
    \/ n \in contended
    \/ \E p \in Tasks : n \in About(p) /\ Steers(task[p].kind)
    \/ stored[n] = [running |-> n \in up \ refreshed, port |-> n \in up \ refreshed,
                    latency |-> newest[n]]

\* A proxy handed out as running has a port, and with auto_start it runs, unless
\* the node was stopped since the request came (server.go:792-805).  One handed
\* out as not running may have a port: a start comes between the two looks.
PickedIsUsable ==
  \A p \in Requests :
    Is(p, "pick") /\ At(p, "answer") /\ ~task[p].cut =>
      /\ task[p].running => task[p].port
      /\ task[p].auto => task[p].running

\* A dashboard that listens from the beginning of a run and is never Buffer
\* events behind is sent each result once and then, last of all, the completion.
\* Whoever is told of the completion finds all results in the store
\* (server.go:75-80, 445-449, tester.go:138-163).
RunIsHeard ==
  \A t \in Runs, d \in Dashboards :
    /\ \A k \in DOMAIN heard[d][t] :
         heard[d][t][k] = "complete" =>
           /\ k = Len(heard[d][t])
           /\ \A p \in WorkersOf(t) : task[p] = NoTask
    /\ d \in owed[t] /\ task[t] = NoTask =>
         LET told == heard[d][t]
         IN  /\ Len(told) = Cardinality(tested[t]) + 1
             /\ {told[k] : k \in DOMAIN told} = tested[t] \cup {"complete"}

\* The guards of TestStep.
CanTestStep(p) ==
  \/ At(p, "queue") /\ PlaceFree(p[1])
  \/ At(p, "test") /\ Latencies # {}
  \/ task[p].step \in {"running", "port"} /\ Unlocked
  \/ At(p, "update")
  \/ p \in Runs /\ At(p, "wait") /\ \A q \in WorkersOf(p) : task[q] = NoTask
  \/ At(p, "send") /\ (task[p].to = {} \/ \E d \in Dashboards : d \in task[p].to)

\* A run of tests is never stuck, whatever else goes on, but for m.mu: while the
\* clients of a listener that is being stopped stay, every test waits to ask
\* the manager whether its node runs (server.go:446, manager.go:116-124).  Then
\* one of its goroutines can go on, and as each step leads on to the end
\* of a test and gives its place to another, the run completes (tester.go:132-163).
RunGoesOn ==
  \A t \in Runs : Is(t, "run") /\ Unlocked => \E p \in WorkersOf(t) \cup {t} : CanTestStep(p)

\* A run of tests goes on to its end, and who listens hears of all of it
\* (server.go:75-80, 446, tester.go:132-163).
RunCompletes == RunIsHeard /\ RunGoesOn
=============================================================================
