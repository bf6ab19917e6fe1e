-------------------------- MODULE DashboardProofs --------------------------
(***************************************************************************)
(* Proofs about Dashboard, for any number of requests, runs of tests,      *)
(* nodes and dashboards: the settings (IInv), what the store and the tasks *)
(* know of the nodes (NodeInv), and the events of a run (HeardInv).        *)
(***************************************************************************)
EXTENDS Dashboard, FiniteSetTheorems, SequenceTheorems, TLAPS

Whole(form) == form = [base |-> form.base, tunnel |-> form.tunnel, url |-> form.url]

\* What the tasks look like, as far as the settings go.
TasksOK ==
  /\ task = [p \in Tasks |-> task[p]]
  /\ \A p \in Tasks : {"kind", "step"} \subseteq DOMAIN task[p]
  /\ \A p \in Tasks : Setting(p) =>
       /\ p \in Requests
       /\ task[p] = [kind |-> task[p].kind, step |-> task[p].step, ask |-> task[p].ask,
                     form |-> task[p].form, alone |-> task[p].alone, to |-> task[p].to]
       /\ Whole(task[p].form)
       /\ Is(p, "config") => task[p].step \in {"read", "base", "set", "save", "send"}
       /\ Is(p, "tunnel") => task[p].step \in {"read", "form", "save", "send"}

SettingsWhole == Whole(saved) /\ live = [base |-> live.base, tunnel |-> live.tunnel]

\* A request that nobody else's overlapped is the only one.
AloneIsAlone ==
  \A p, q \in Tasks : Setting(p) /\ task[p].alone /\ Setting(q) => q = p

\* What such a request has put together so far.
FormFits(p) ==
  LET form == task[p].form
      ask == task[p].ask
  IN  /\ Is(p, "config") /\ At(p, "base") => form = saved
      /\ Is(p, "config") /\ At(p, "set") =>
           form.base = live.base /\ form.tunnel = saved.tunnel /\ form.url = saved.url
      /\ Is(p, "config") /\ At(p, "save") =>
           /\ form.base = live.base /\ form.tunnel = saved.tunnel
           /\ form.url = Given(ask.url, saved.url)
      /\ Is(p, "tunnel") /\ At(p, "form") => ask.tunnel = live.tunnel
      /\ Is(p, "tunnel") /\ At(p, "save") =>
           form.tunnel = live.tunnel /\ form.base = saved.base /\ form.url = saved.url

AloneFits == \A p \in Tasks : Setting(p) /\ task[p].alone => FormFits(p)

\* Saved and live settings agree, but for what a request has changed and not
\* saved yet.
BaseAgrees ==
  "base" \in skewed \/ saved.base = live.base \/ \E p \in Tasks : Is(p, "config") /\ At(p, "save")
TunnelAgrees ==
  "tunnel" \in skewed \/ saved.tunnel = live.tunnel
    \/ \E p \in Tasks : Is(p, "tunnel") /\ task[p].step \in {"form", "save"}
UrlAgrees == "url" \in skewed \/ saved.url = wanted

IInv == /\ TasksOK /\ SettingsWhole /\ AloneIsAlone /\ AloneFits
        /\ BaseAgrees /\ TunnelAgrees /\ UrlAgrees

LEMMA InitIInv == Init => IInv
<1>. SUFFICES ASSUME Init PROVE IInv
  OBVIOUS
<1>1. \A p \in Tasks : task[p] = NoTask /\ ~Setting(p)
  BY DEF Init, NoTask, Setting
<1>2. TasksOK
  BY <1>1 DEF Init, TasksOK, NoTask
<1>3. SettingsWhole /\ BaseAgrees /\ TunnelAgrees /\ UrlAgrees
  BY DEF Init, SettingsWhole, Whole, BaseAgrees, TunnelAgrees, UrlAgrees
<1>. QED
  BY <1>1, <1>2, <1>3 DEF IInv, AloneIsAlone, AloneFits

-----------------------------------------------------------------------------
(* Steps that have nothing to do with the settings *)

\* Requests for the settings stay as they are, but for the end of a broadcast.
Quiet ==
  /\ UNCHANGED settings
  /\ task' = [p \in Tasks |-> task'[p]]
  /\ \A p \in Tasks : {"kind", "step"} \subseteq DOMAIN task'[p]
  /\ \A p \in Tasks :
       \/ task'[p] = task[p]
       \/ (~Setting(p) \/ At(p, "send")) /\ ~Setting(p)'
       \/ Setting(p) /\ At(p, "send") /\ \E to : task'[p] = [task[p] EXCEPT !.to = to]

LEMMA QuietIInv ==
  ASSUME IInv, Quiet
  PROVE  IInv'
<1>. USE DEF Quiet, settings
<1>1. ASSUME NEW p \in Tasks, Setting(p)'
      PROVE  /\ Setting(p) /\ task'[p].kind = task[p].kind /\ task'[p].step = task[p].step
             /\ task'[p].ask = task[p].ask /\ task'[p].form = task[p].form
             /\ task'[p].alone = task[p].alone
             /\ task'[p] = [kind |-> task'[p].kind, step |-> task'[p].step,
                            ask |-> task'[p].ask, form |-> task'[p].form,
                            alone |-> task'[p].alone, to |-> task'[p].to]
  BY <1>1 DEF IInv, TasksOK, Setting
<1>2. ASSUME NEW p \in Tasks, Setting(p), ~At(p, "send")
      PROVE  task'[p] = task[p]
  BY <1>2
<1>3. TasksOK'
  BY <1>1 DEF IInv, TasksOK, Is, Whole
<1>4. SettingsWhole' /\ UrlAgrees'
  BY DEF IInv, SettingsWhole, Whole, UrlAgrees
<1>5. AloneIsAlone'
  BY <1>1 DEF IInv, AloneIsAlone
<1>6. AloneFits'
  BY <1>1 DEF IInv, AloneFits, FormFits, Is, At
<1>7. BaseAgrees' /\ TunnelAgrees'
  BY <1>2 DEF IInv, BaseAgrees, TunnelAgrees, Is, At, Setting
<1>. QED
  BY <1>3, <1>4, <1>5, <1>6, <1>7 DEF IInv

\* A step of one task that is about nodes.
LEMMA OneTaskQuiet ==
  ASSUME IInv, UNCHANGED settings, NEW p \in Tasks, NEW t,
         ~Setting(p), task' = [task EXCEPT ![p] = t],
         {"kind", "step"} \subseteq DOMAIN t, t.kind \notin {"config", "tunnel"}
  PROVE  IInv'
<1>1. Quiet
  BY DEF IInv, TasksOK, Quiet, Setting
<1>. QED
  BY <1>1, QuietIInv

\* One that goes on with its task.
LEMMA SameKindQuiet ==
  ASSUME IInv, UNCHANGED settings, NEW p \in Tasks, NEW t,
         ~Setting(p), task' = [task EXCEPT ![p] = t],
         DOMAIN t = DOMAIN task[p], t.kind = task[p].kind
  PROVE  IInv'
<1>1. {"kind", "step"} \subseteq DOMAIN t /\ t.kind \notin {"config", "tunnel"}
  BY DEF IInv, TasksOK, Setting
<1>. QED
  BY <1>1, OneTaskQuiet

LEMMA GoesQuiet ==
  ASSUME IInv, UNCHANGED settings, NEW p \in Tasks, ~Setting(p),
         \/ Ends(p)
         \/ \E step : Goes(p, step)
         \/ Broadcast(p)
  PROVE  IInv'
<1>1. CASE Ends(p)
  BY <1>1, OneTaskQuiet DEF Ends, NoTask
<1>2. ASSUME NEW step, Goes(p, step) PROVE IInv'
  <2>. DEFINE t == [task[p] EXCEPT !.step = step]
  <2>1. task' = [task EXCEPT ![p] = t]
    BY <1>2 DEF Goes
  <2>2. DOMAIN t = DOMAIN task[p] /\ t.kind = task[p].kind
    BY DEF IInv, TasksOK
  <2>. QED
    BY <2>1, <2>2, SameKindQuiet
<1>3. CASE Broadcast(p)
  <2>. DEFINE t == [task[p] EXCEPT !.step = "send", !.to = here]
  <2>1. task' = [task EXCEPT ![p] = t]
    BY <1>3 DEF Broadcast
  <2>2. DOMAIN t = DOMAIN task[p] /\ t.kind = task[p].kind
    BY DEF IInv, TasksOK
  <2>. QED
    BY <2>1, <2>2, SameKindQuiet
<1>. QED
  BY <1>1, <1>2, <1>3

\* The steps of requests and tests about nodes, by the step they are at.
NodeSteps == {"act", "update", "closing", "test", "running", "port", "filter",
              "check", "assign", "answer", "queue", "wait"}

LEMMA NotSetting ==
  ASSUME IInv, NEW p \in Tasks, task[p].step \in NodeSteps
  PROVE  ~Setting(p)
  BY DEF IInv, TasksOK, Setting, Is, NodeSteps

LEMMA ActQuiet ==
  ASSUME IInv, NEW p \in Tasks, NEW kind \in {"start", "stop", "test"}, NEW n, Act(p, kind, n)
  PROVE  IInv'
<1>. DEFINE t == NodeTask(kind, IF kind = "test" THEN "test" ELSE "act", {n})
<1>1. task' = [task EXCEPT ![p] = t] /\ ~Setting(p) /\ UNCHANGED settings
  BY DEF Act, Arrives, NoTask, Setting
<1>2. {"kind", "step"} \subseteq DOMAIN t /\ t.kind \notin {"config", "tunnel"}
  BY DEF NodeTask
<1>. QED
  BY <1>1, <1>2, OneTaskQuiet

LEMMA PickQuiet ==
  ASSUME IInv, NEW p \in Tasks, NEW S, NEW only, NEW auto, Pick(p, S, only, auto)
  PROVE  IInv'
<1>. DEFINE t == [NodeTask("pick", "filter", S) EXCEPT !.only = only, !.auto = auto, !.left = S]
<1>1. task' = [task EXCEPT ![p] = t] /\ ~Setting(p) /\ UNCHANGED settings
  BY DEF Pick, Arrives, NoTask, Setting
<1>2. {"kind", "step"} \subseteq DOMAIN t /\ t.kind \notin {"config", "tunnel"}
  BY DEF NodeTask
<1>. QED
  BY <1>1, <1>2, OneTaskQuiet

LEMMA RefreshQuiet ==
  ASSUME IInv, NEW p \in Tasks, NEW S, Refresh(p, S)
  PROVE  IInv'
<1>1. PICK t : t = [kind |-> "refresh", step |-> "send", to |-> here]
  OBVIOUS
<1>2. task' = [task EXCEPT ![p] = t] /\ ~Setting(p) /\ UNCHANGED settings
  BY <1>1 DEF Refresh, Arrives, NoTask, Setting
<1>3. {"kind", "step"} \subseteq DOMAIN t /\ t.kind \notin {"config", "tunnel"}
  BY <1>1
<1>. QED
  BY <1>2, <1>3, OneTaskQuiet

LEMMA StopQuiet ==
  ASSUME IInv, NEW p \in Tasks, StopNothing(p) \/ StopNode(p)
  PROVE  IInv'
<1>1. ~Setting(p) /\ UNCHANGED settings /\ \E step : Goes(p, step)
  BY NotSetting DEF StopNothing, StopNode, At, NodeSteps
<1>. QED
  BY <1>1, GoesQuiet

LEMMA StartQuiet ==
  ASSUME IInv, NEW p \in Tasks, StartNode(p)
  PROVE  IInv'
<1>1. ~Setting(p) /\ UNCHANGED settings
  BY NotSetting DEF StartNode, At, NodeSteps
<1>2. CASE Ends(p) \/ Goes(p, "update")
  BY <1>1, <1>2, GoesQuiet
<1>3. CASE task' = [task EXCEPT ![p].step = "update", ![p].running = TRUE, ![p].port = TRUE,
                                ![p].owns = NodeOf(p) \notin up]
  <2>. DEFINE t == [task[p] EXCEPT !.step = "update", !.running = TRUE, !.port = TRUE,
                                   !.owns = NodeOf(p) \notin up]
  <2>1. task' = [task EXCEPT ![p] = t]
    BY <1>3
  <2>2. DOMAIN t = DOMAIN task[p] /\ t.kind = task[p].kind
    BY DEF IInv, TasksOK
  <2>. QED
    BY <1>1, <2>1, <2>2, SameKindQuiet
<1>. QED
  BY <1>2, <1>3 DEF StartNode

\* A stop reaches into the tasks of picks as well.
LEMMA ForgetQuiet ==
  ASSUME IInv, NEW p \in Tasks, Forget(p)
  PROVE  IInv'
<1>1. ~Setting(p) /\ UNCHANGED settings
  BY NotSetting DEF Forget, At, NodeSteps
<1>2. PICK running, port \in BOOLEAN :
        task' = [q \in Tasks |->
          IF q = p THEN [task[p] EXCEPT !.step = "update"]
          ELSE IF ~Is(q, "pick") \/ NodeOf(p) \notin task[q].nodes THEN task[q]
          ELSE IF task[q].owns /\ At(q, "answer")
               THEN [task[q] EXCEPT !.cut = TRUE, !.running = running, !.port = port]
          ELSE [task[q] EXCEPT !.cut = TRUE]]
  BY DEF Forget
<1>3. ASSUME NEW q \in Tasks
      PROVE  \/ task'[q] = task[q]
             \/ /\ ~Setting(q) /\ task'[q].kind = task[q].kind
                /\ DOMAIN task'[q] = DOMAIN task[q]
  BY <1>1, <1>2 DEF IInv, TasksOK, Setting, Is
<1>4. Quiet
  BY <1>1, <1>2, <1>3 DEF Quiet, IInv, TasksOK, Setting
<1>. QED
  BY <1>4, QuietIInv

LEMMA TestQuiet ==
  ASSUME IInv, NEW p \in Tasks,
         Acquire(p) \/ TestNode(p) \/ ReadRunning(p) \/ ReadPort(p) \/ UpdateNodeRuntime(p) \/ Wait(p)
  PROVE  IInv'
<1>1. ~Setting(p) /\ UNCHANGED settings
  BY NotSetting
  DEF Acquire, TestNode, ReadRunning, ReadPort, UpdateNodeRuntime, Wait, At, NodeSteps
<1>2. CASE Acquire(p) \/ UpdateNodeRuntime(p) \/ Wait(p)
  <2>1. Ends(p) \/ (\E step : Goes(p, step)) \/ Broadcast(p)
    BY <1>2 DEF Acquire, UpdateNodeRuntime, Wait
  <2>. QED
    BY <1>1, <2>1, GoesQuiet
<1>3. CASE TestNode(p)
  <2>1. PICK latency \in Latencies :
          task' = [task EXCEPT ![p].copies = [n \in task[p].nodes |-> latency],
                               ![p].step = "running"]
    BY <1>3 DEF TestNode
  <2>. DEFINE t == [task[p] EXCEPT !.copies = [n \in task[p].nodes |-> latency], !.step = "running"]
  <2>2. task' = [task EXCEPT ![p] = t]
    BY <2>1
  <2>3. DOMAIN t = DOMAIN task[p] /\ t.kind = task[p].kind
    BY DEF IInv, TasksOK
  <2>. QED
    BY <1>1, <2>2, <2>3, SameKindQuiet
<1>4. CASE ReadRunning(p)
  <2>. DEFINE t == [task[p] EXCEPT !.running = NodeOf(p) \in up, !.step = "port"]
  <2>1. task' = [task EXCEPT ![p] = t]
    BY <1>4 DEF ReadRunning
  <2>2. DOMAIN t = DOMAIN task[p] /\ t.kind = task[p].kind
    BY DEF IInv, TasksOK
  <2>. QED
    BY <1>1, <2>1, <2>2, SameKindQuiet
<1>5. CASE ReadPort(p)
  <2>. DEFINE t == [task[p] EXCEPT !.port = NodeOf(p) \in up,
                                   !.step = IF Is(p, "pick") THEN "answer" ELSE "update"]
  <2>1. task' = [task EXCEPT ![p] = t]
    BY <1>5 DEF ReadPort
  <2>2. DOMAIN t = DOMAIN task[p] /\ t.kind = task[p].kind
    BY DEF IInv, TasksOK
  <2>. QED
    BY <1>1, <2>1, <2>2, SameKindQuiet
<1>. QED
  BY <1>2, <1>3, <1>4, <1>5

LEMMA ProxyQuiet ==
  ASSUME IInv, NEW p \in Tasks,
         Filter(p) \/ Choose(p) \/ Check(p) \/ Assign(p) \/ Answer(p)
  PROVE  IInv'
<1>1. ~Setting(p) /\ UNCHANGED settings
  BY NotSetting DEF Filter, Choose, Check, Assign, Answer, At, NodeSteps
<1>2. CASE Check(p) \/ Answer(p) \/ Ends(p)
  <2>1. Ends(p) \/ (\E step : Goes(p, step))
    BY <1>2 DEF Check, Answer
  <2>. QED
    BY <1>1, <2>1, GoesQuiet
<1>3. CASE Filter(p)
  <2>1. PICK n :
          task' = [task EXCEPT ![p].left = @ \ {n},
                               ![p].nodes = IF task[p].only /\ n \notin up THEN @ \ {n} ELSE @]
    BY <1>3 DEF Filter
  <2>. DEFINE t == [task[p] EXCEPT !.left = @ \ {n},
                                   !.nodes = IF task[p].only /\ n \notin up THEN @ \ {n} ELSE @]
  <2>2. task' = [task EXCEPT ![p] = t]
    BY <2>1
  <2>3. DOMAIN t = DOMAIN task[p] /\ t.kind = task[p].kind
    BY DEF IInv, TasksOK
  <2>. QED
    BY <1>1, <2>2, <2>3, SameKindQuiet
<1>4. ASSUME Choose(p), ~Ends(p) PROVE IInv'
  <2>1. PICK n :
          task' = [task EXCEPT ![p].nodes = {n},
                               ![p].step = IF task[p].auto THEN "check" ELSE "running"]
    BY <1>4 DEF Choose
  <2>. DEFINE t == [task[p] EXCEPT !.nodes = {n}, !.step = IF task[p].auto THEN "check" ELSE "running"]
  <2>2. task' = [task EXCEPT ![p] = t]
    BY <2>1
  <2>3. DOMAIN t = DOMAIN task[p] /\ t.kind = task[p].kind
    BY DEF IInv, TasksOK
  <2>. QED
    BY <1>1, <2>2, <2>3, SameKindQuiet
<1>5. CASE Assign(p)
  <2>. DEFINE t == [task[p] EXCEPT !.running = TRUE, !.port = TRUE, !.step = "answer"]
  <2>1. task' = [task EXCEPT ![p] = t]
    BY <1>5 DEF Assign
  <2>2. DOMAIN t = DOMAIN task[p] /\ t.kind = task[p].kind
    BY DEF IInv, TasksOK
  <2>. QED
    BY <1>1, <2>1, <2>2, SameKindQuiet
<1>. QED
  BY <1>2, <1>3, <1>4, <1>5

\* A run of tests starts its workers, none of which is a request.
LEMMA RunQuiet ==
  ASSUME IInv, NEW t \in Runs, NEW S, RunTests(t, S)
  PROVE  IInv'
<1>. DEFINE started(p) ==
       IF p = t THEN [kind |-> "run", step |-> "wait", to |-> {}]
       ELSE IF p \in Workers /\ p[1] = t /\ p[2] \in S
            THEN NodeTask("test", "queue", {p[2]})
       ELSE task[p]
<1>1. task' = [p \in Tasks |-> started(p)] /\ UNCHANGED settings
  BY DEF RunTests
<1>2. \A p \in Runs \cup Workers : ~Setting(p)
  BY DashboardAssumption DEF IInv, TasksOK, Tasks, Workers
<1>3. ASSUME NEW p \in Tasks
      PROVE  \/ task'[p] = task[p]
             \/ /\ ~Setting(p) /\ task'[p].kind \notin {"config", "tunnel"}
                /\ {"kind", "step"} \subseteq DOMAIN task'[p]
  <2>1. task'[p] = started(p)
    BY <1>1
  <2>2. CASE p = t
    BY <1>2, <2>1, <2>2
  <2>3. CASE p # t /\ p \in Workers /\ p[1] = t /\ p[2] \in S
    BY <1>2, <2>1, <2>3 DEF NodeTask
  <2>. QED
    BY <2>1, <2>2, <2>3
<1>4. Quiet
  <2>1. task' = [p \in Tasks |-> task'[p]]
    BY <1>1
  <2>2. \A p \in Tasks : {"kind", "step"} \subseteq DOMAIN task'[p]
    BY <1>3 DEF IInv, TasksOK
  <2>. QED
    BY <1>1, <1>3, <2>1, <2>2 DEF Quiet, Setting
<1>. QED
  BY <1>4, QuietIInv

LEMMA EventsQuiet ==
  ASSUME IInv, NEW d, Join(d) \/ Leave(d) \/ Flush(d)
  PROVE  IInv'
<1>1. Quiet
  BY DEF Join, Leave, Flush, Quiet, IInv, TasksOK
<1>. QED
  BY <1>1, QuietIInv

LEMMA SendQuiet ==
  ASSUME IInv, NEW p \in Tasks, Sent(p) \/ \E d \in Dashboards : Send(p, d)
  PROVE  IInv'
<1>1. CASE Sent(p)
  <2>1. CASE Setting(p)
    <3>1. Ends(p) /\ UNCHANGED settings /\ At(p, "send")
      BY <1>1, <2>1 DEF Sent, Is, Setting
    <3>2. Quiet
      BY <3>1 DEF Ends, NoTask, Quiet, IInv, TasksOK, Setting
    <3>. QED
      BY <3>2, QuietIInv
  <2>2. CASE ~Setting(p)
    BY <1>1, <2>2, GoesQuiet DEF Sent
  <2>. QED
    BY <2>1, <2>2
<1>2. ASSUME NEW d \in Dashboards, Send(p, d) PROVE IInv'
  <2>1. task' = [task EXCEPT ![p].to = @ \ {d}] /\ UNCHANGED settings /\ At(p, "send")
    BY <1>2 DEF Send
  <2>2. task'[p] = [task[p] EXCEPT !.to = task[p].to \ {d}]
    BY <2>1 DEF IInv, TasksOK
  <2>3. task'[p].kind = task[p].kind /\ DOMAIN task'[p] = DOMAIN task[p]
    BY <2>2 DEF IInv, TasksOK
  <2>4. \A q \in Tasks : q # p => task'[q] = task[q]
    BY <2>1 DEF IInv, TasksOK
  <2>5. task' = [q \in Tasks |-> task'[q]]
    BY <2>1 DEF IInv, TasksOK
  <2>6. Quiet
    BY <2>1, <2>2, <2>3, <2>4, <2>5 DEF Quiet, IInv, TasksOK, Setting
  <2>. QED
    BY <2>6, QuietIInv
<1>. QED
  BY <1>1, <1>2

-----------------------------------------------------------------------------
(* Requests for the settings *)

Stepped(p, step, form, to) ==
  [kind |-> task[p].kind, step |-> step, ask |-> task[p].ask,
   form |-> form, alone |-> task[p].alone, to |-> to]

LEMMA SettingShape ==
  ASSUME IInv, NEW p \in Tasks, Setting(p)
  PROVE  \E k, s, a, f, o, r :
           task[p] = [kind |-> k, step |-> s, ask |-> a, form |-> f, alone |-> o, to |-> r]
  BY DEF IInv, TasksOK

LEMMA SixFields ==
  ASSUME NEW t, t = [f \in {"kind", "step", "ask", "form", "alone", "to"} |-> t[f]]
  PROVE  t = [kind |-> t.kind, step |-> t.step, ask |-> t.ask,
              form |-> t.form, alone |-> t.alone, to |-> t.to]
  OBVIOUS

LEMMA ThreeFields ==
  ASSUME NEW t, t = [f \in {"base", "tunnel", "url"} |-> t[f]]
  PROVE  t = [base |-> t.base, tunnel |-> t.tunnel, url |-> t.url]
  OBVIOUS

\* While a request for the settings goes on, no other can count on being alone.
LEMMA SettingGoes ==
  ASSUME IInv, NEW p \in Tasks, Setting(p), NEW step, NEW form, NEW to, Whole(form),
         task' = [task EXCEPT ![p] = Stepped(p, step, form, to)],
         Is(p, "config") => step \in {"base", "set", "save", "send"},
         Is(p, "tunnel") => step \in {"form", "save", "send"},
         task[p].alone => FormFits(p)'
  PROVE  /\ TasksOK' /\ AloneIsAlone' /\ AloneFits'
         /\ task'[p] = Stepped(p, step, form, to)
         /\ \A q \in Tasks : q # p => task'[q] = task[q]
<1>1. /\ task'[p] = Stepped(p, step, form, to)
      /\ \A q \in Tasks : q # p => task'[q] = task[q]
      /\ task' = [q \in Tasks |-> task'[q]]
  BY DEF IInv, TasksOK
<1>2. ASSUME NEW q \in Tasks
      PROVE  (Setting(q)' <=> Setting(q)) /\ (Setting(q) => task'[q].alone = task[q].alone)
  BY <1>1 DEF Stepped, Setting
<1>3. TasksOK'
  <2>1. ASSUME NEW q \in Tasks, q # p PROVE task'[q] = task[q]
    BY <1>1, <2>1
  <2>2. p \in Requests
    BY DEF IInv, TasksOK
  <2>3. /\ task'[p].kind = task[p].kind /\ task'[p].step = step /\ task'[p].ask = task[p].ask
        /\ task'[p].form = form /\ task'[p].alone = task[p].alone /\ task'[p].to = to
        /\ {"kind", "step"} \subseteq DOMAIN task'[p]
    BY <1>1 DEF Stepped
  <2>4. task'[p] = [kind |-> task'[p].kind, step |-> task'[p].step, ask |-> task'[p].ask,
                    form |-> task'[p].form, alone |-> task'[p].alone, to |-> task'[p].to]
    BY <1>1, <2>3 DEF Stepped
  <2>. QED
    BY <1>1, <2>1, <2>2, <2>3, <2>4 DEF IInv, TasksOK, Setting, Is, Whole
<1>4. AloneIsAlone'
  BY <1>2 DEF IInv, AloneIsAlone
<1>5. AloneFits'
  BY <1>2 DEF IInv, AloneIsAlone, AloneFits
<1>. QED
  BY <1>1, <1>3, <1>4, <1>5

LEMMA SettingEnds ==
  ASSUME IInv, NEW p \in Tasks, Setting(p), Ends(p)
  PROVE  /\ TasksOK' /\ AloneIsAlone' /\ AloneFits'
         /\ task'[p] = NoTask
         /\ \A q \in Tasks : q # p => task'[q] = task[q]
<1>1. /\ task'[p] = NoTask
      /\ \A q \in Tasks : q # p => task'[q] = task[q]
      /\ task' = [q \in Tasks |-> task'[q]]
  BY DEF Ends, IInv, TasksOK
<1>2. ASSUME NEW q \in Tasks, Setting(q)' PROVE q # p /\ Setting(q) /\ task'[q] = task[q]
  BY <1>1, <1>2 DEF Setting, NoTask
<1>3. TasksOK'
  BY <1>1, <1>2 DEF IInv, TasksOK, NoTask, Is, Whole
<1>4. AloneIsAlone' /\ AloneFits'
  BY <1>2 DEF IInv, AloneIsAlone, AloneFits
<1>. QED
  BY <1>1, <1>3, <1>4

LEMMA SetKeeps ==
  ASSUME IInv, NEW p \in Requests, NEW kind \in {"config", "tunnel"}, NEW ask, Set(p, kind, ask)
  PROVE  IInv'
<1>. p \in Tasks
  BY DEF Tasks
<1>. DEFINE alone == \A q \in Tasks : ~Setting(q)
            new == [kind |-> kind, step |-> "read", ask |-> ask,
                    form |-> saved, alone |-> alone, to |-> {}]
<1>1. /\ task' = [q \in Tasks |-> IF q = p THEN new
                                   ELSE IF Setting(q) THEN [task[q] EXCEPT !.alone = FALSE]
                                   ELSE task[q]]
      /\ UNCHANGED settings /\ ~Setting(p)
  BY DEF Set, Arrives, Setting, NoTask
<1>2. task'[p] = new
  BY <1>1
<1>3. ASSUME NEW q \in Tasks, q # p
      PROVE  IF Setting(q) THEN task'[q] = [task[q] EXCEPT !.alone = FALSE]
             ELSE task'[q] = task[q]
  BY <1>1, <1>3
<1>4. ASSUME NEW q \in Tasks, q # p, Setting(q)
      PROVE  /\ task'[q].kind = task[q].kind /\ task'[q].step = task[q].step
             /\ task'[q].ask = task[q].ask /\ task'[q].form = task[q].form
             /\ task'[q].alone = FALSE
             /\ task'[q] = [kind |-> task'[q].kind, step |-> task'[q].step,
                            ask |-> task'[q].ask, form |-> task'[q].form,
                            alone |-> task'[q].alone, to |-> task'[q].to]
             /\ {"kind", "step"} \subseteq DOMAIN task'[q]
  <2>1. task'[q] = [task[q] EXCEPT !.alone = FALSE]
    BY <1>3, <1>4
  <2>2. task[q] = [kind |-> task[q].kind, step |-> task[q].step, ask |-> task[q].ask,
                   form |-> task[q].form, alone |-> task[q].alone, to |-> task[q].to]
    BY <1>4 DEF IInv, TasksOK
  <2>. QED
    BY <2>1, <2>2
<1>5. ASSUME NEW q \in Tasks, q # p
      PROVE  Setting(q)' <=> Setting(q)
  BY <1>3, <1>4, <1>5 DEF Setting
<1>6. TasksOK'
  <2>1. task' = [q \in Tasks |-> task'[q]]
    BY <1>1
  <2>2. \A q \in Tasks : {"kind", "step"} \subseteq DOMAIN task'[q]
    <3>1. ASSUME NEW q \in Tasks, q # p PROVE {"kind", "step"} \subseteq DOMAIN task'[q]
      <4>1. CASE Setting(q)
        BY <1>4, <3>1, <4>1
      <4>2. CASE ~Setting(q)
        BY <1>3, <3>1, <4>2 DEF IInv, TasksOK
      <4>. QED
        BY <4>1, <4>2
    <3>2. {"kind", "step"} \subseteq DOMAIN task'[p]
      BY <1>2
    <3>. QED
      BY <3>1, <3>2
  <2>3. Whole(saved)
    BY DEF IInv, SettingsWhole
  <2>. DEFINE Good(q) ==
         /\ q \in Requests
         /\ task'[q] = [kind |-> task'[q].kind, step |-> task'[q].step,
                        ask |-> task'[q].ask, form |-> task'[q].form,
                        alone |-> task'[q].alone, to |-> task'[q].to]
         /\ Whole(task'[q].form)
         /\ task'[q].kind = "config" => task'[q].step \in {"read", "base", "set", "save", "send"}
         /\ task'[q].kind = "tunnel" => task'[q].step \in {"read", "form", "save", "send"}
  <2>4. ASSUME NEW q \in Tasks, q # p, Setting(q)' PROVE Good(q)
    <3>1. Setting(q)
      BY <1>5, <2>4
    <3>2. /\ q \in Requests
          /\ Whole(task[q].form)
          /\ task[q].kind = "config" => task[q].step \in {"read", "base", "set", "save", "send"}
          /\ task[q].kind = "tunnel" => task[q].step \in {"read", "form", "save", "send"}
      BY <3>1 DEF IInv, TasksOK, Is
    <3>. QED
      BY <1>4, <2>4, <3>1, <3>2
  <2>5. Good(p)
    BY <1>2, <2>3
  <2>6. \A q \in Tasks : Setting(q)' => Good(q)
    BY <2>4, <2>5
  <2>. QED
    BY <2>1, <2>2, <2>6 DEF TasksOK, Is, Whole
<1>7. AloneIsAlone'
  <2>. SUFFICES ASSUME NEW q \in Tasks, NEW r \in Tasks,
                       Setting(q)', task'[q].alone, Setting(r)'
                PROVE  r = q
    BY DEF AloneIsAlone
  <2>1. q = p
    BY <1>4, <1>5
  <2>2. alone
    BY <1>2, <2>1
  <2>. QED
    BY <1>5, <2>1, <2>2
<1>8. AloneFits'
  <2>. SUFFICES ASSUME NEW q \in Tasks, Setting(q)', task'[q].alone
                PROVE  FormFits(q)'
    BY DEF AloneFits
  <2>1. q = p
    BY <1>4, <1>5
  <2>. QED
    BY <1>2, <2>1 DEF FormFits, At
<1>9. SettingsWhole' /\ UrlAgrees'
  BY <1>1 DEF settings, IInv, SettingsWhole, Whole, UrlAgrees
<1>10. ASSUME NEW q \in Tasks, Setting(q)
       PROVE  task'[q].kind = task[q].kind /\ task'[q].step = task[q].step
  BY <1>1, <1>4, <1>10
<1>11. BaseAgrees' /\ TunnelAgrees'
  BY <1>1, <1>10 DEF settings, IInv, BaseAgrees, TunnelAgrees, Is, At, Setting
<1>. QED
  BY <1>6, <1>7, <1>8, <1>9, <1>11 DEF IInv

LEMMA ReadConfigKeeps ==
  ASSUME IInv, NEW p \in Tasks, ReadConfig(p)
  PROVE  IInv'
<1>1. Is(p, "config") /\ At(p, "read") /\ Setting(p) /\ UNCHANGED settings
  BY DEF ReadConfig, Is, Setting
<1>2. task' = [task EXCEPT ![p] = Stepped(p, "base", saved, task[p].to)]
  <2>. DEFINE t == [task[p] EXCEPT !.form = saved, !.step = "base"]
  <2>1. task' = [task EXCEPT ![p] = t]
    BY DEF ReadConfig
  <2>2. PICK k, s, a, f, o, r :
          task[p] = [kind |-> k, step |-> s, ask |-> a, form |-> f, alone |-> o, to |-> r]
    BY <1>1, SettingShape
  <2>3. /\ t.kind = task[p].kind /\ t.step = "base" /\ t.ask = task[p].ask
        /\ t.form = saved /\ t.alone = task[p].alone /\ t.to = task[p].to
        /\ t = [field \in {"kind", "step", "ask", "form", "alone", "to"} |-> t[field]]
    BY <2>2
  <2>. HIDE DEF t
  <2>4. t = Stepped(p, "base", saved, task[p].to)
    BY <2>3, SixFields DEF Stepped
  <2>. QED
    BY <2>1, <2>4 DEF t
<1>3. task'[p] = Stepped(p, "base", saved, task[p].to)
  BY <1>2 DEF IInv, TasksOK
<1>4. FormFits(p)'
  BY <1>1, <1>3 DEF FormFits, Stepped, Is, At, settings
<1>5. Whole(saved) /\ ~Is(p, "tunnel")
  BY <1>1 DEF IInv, SettingsWhole, Is
<1>6. /\ TasksOK' /\ AloneIsAlone' /\ AloneFits'
      /\ \A q \in Tasks : q # p => task'[q] = task[q]
  BY <1>1, <1>2, <1>4, <1>5, SettingGoes
<1>7. SettingsWhole' /\ UrlAgrees'
  BY <1>1 DEF settings, IInv, SettingsWhole, Whole, UrlAgrees
<1>8. BaseAgrees' /\ TunnelAgrees'
  BY <1>1, <1>6 DEF settings, IInv, BaseAgrees, TunnelAgrees, Is, At
<1>. QED
  BY <1>6, <1>7, <1>8 DEF IInv

LEMMA ReadBaseKeeps ==
  ASSUME IInv, NEW p \in Tasks, ReadBase(p)
  PROVE  IInv'
<1>. DEFINE form == [task[p].form EXCEPT !.base = live.base]
<1>1. Is(p, "config") /\ At(p, "base") /\ Setting(p) /\ UNCHANGED settings
  BY DEF ReadBase, Is, Setting
<1>2. Whole(task[p].form) /\ ~Is(p, "tunnel")
  BY <1>1 DEF IInv, TasksOK, Is
<1>3. /\ form = [base |-> live.base, tunnel |-> task[p].form.tunnel, url |-> task[p].form.url]
      /\ Whole(form)
  BY <1>2 DEF Whole
<1>4. task' = [task EXCEPT ![p] = Stepped(p, "set", form, task[p].to)]
  <2>. DEFINE t == [task[p] EXCEPT !.form.base = live.base, !.step = "set"]
  <2>1. task' = [task EXCEPT ![p] = t]
    BY DEF ReadBase
  <2>2. PICK k, s, a, f, o, r :
          task[p] = [kind |-> k, step |-> s, ask |-> a, form |-> f, alone |-> o, to |-> r]
    BY <1>1, SettingShape
  <2>3. /\ t.kind = task[p].kind /\ t.step = "set" /\ t.ask = task[p].ask
        /\ t.form = form /\ t.alone = task[p].alone /\ t.to = task[p].to
        /\ t = [field \in {"kind", "step", "ask", "form", "alone", "to"} |-> t[field]]
    BY <2>2
  <2>. HIDE DEF t
  <2>4. t = Stepped(p, "set", form, task[p].to)
    BY <2>3, SixFields DEF Stepped
  <2>. QED
    BY <2>1, <2>4 DEF t
<1>5. task'[p] = Stepped(p, "set", form, task[p].to)
  BY <1>4 DEF IInv, TasksOK
<1>6. task[p].alone => FormFits(p)'
  <2>1. task[p].alone => task[p].form = saved
    BY <1>1 DEF IInv, AloneFits, FormFits
  <2>. QED
    BY <1>1, <1>3, <1>5, <2>1 DEF FormFits, Stepped, Is, At, settings
<1>7. /\ TasksOK' /\ AloneIsAlone' /\ AloneFits'
      /\ \A q \in Tasks : q # p => task'[q] = task[q]
  BY <1>1, <1>2, <1>3, <1>4, <1>6, SettingGoes
<1>8. SettingsWhole' /\ UrlAgrees'
  BY <1>1 DEF settings, IInv, SettingsWhole, Whole, UrlAgrees
<1>9. BaseAgrees' /\ TunnelAgrees'
  BY <1>1, <1>7 DEF settings, IInv, BaseAgrees, TunnelAgrees, Is, At
<1>. QED
  BY <1>7, <1>8, <1>9 DEF IInv

LEMMA SetBaseKeeps ==
  ASSUME IInv, NEW p \in Tasks, SetBase(p)
  PROVE  IInv'
<1>. DEFINE ask == task[p].ask
            form == [task[p].form EXCEPT !.base = Given(ask.base, @), !.url = Given(ask.url, @)]
<1>1. Is(p, "config") /\ At(p, "set") /\ Setting(p) /\ UNCHANGED <<saved, skewed, wanted>>
  BY DEF SetBase, Is, Setting
<1>2. Whole(task[p].form) /\ ~Is(p, "tunnel")
  BY <1>1 DEF IInv, TasksOK, Is
<1>3. /\ form = [base |-> Given(ask.base, task[p].form.base), tunnel |-> task[p].form.tunnel,
                 url |-> Given(ask.url, task[p].form.url)]
      /\ Whole(form)
  <2>1. PICK b, t, u : task[p].form = [base |-> b, tunnel |-> t, url |-> u]
    BY <1>2 DEF Whole
  <2>2. /\ form.base = Given(ask.base, task[p].form.base)
        /\ form.tunnel = task[p].form.tunnel
        /\ form.url = Given(ask.url, task[p].form.url)
        /\ form = [field \in {"base", "tunnel", "url"} |-> form[field]]
    BY <2>1
  <2>. HIDE DEF form
  <2>. QED
    BY <2>2, ThreeFields DEF Whole
<1>4. task' = [task EXCEPT ![p] = Stepped(p, "save", form, task[p].to)]
  <2>. DEFINE t == [task[p] EXCEPT !.form.base = Given(ask.base, @),
                                   !.form.url = Given(ask.url, @), !.step = "save"]
  <2>1. task' = [task EXCEPT ![p] = t]
    BY DEF SetBase
  <2>2. PICK k, s, a, f, o, r :
          task[p] = [kind |-> k, step |-> s, ask |-> a, form |-> f, alone |-> o, to |-> r]
    BY <1>1, SettingShape
  <2>3. /\ t.kind = task[p].kind /\ t.step = "save" /\ t.ask = task[p].ask
        /\ t.form = form /\ t.alone = task[p].alone /\ t.to = task[p].to
        /\ t = [field \in {"kind", "step", "ask", "form", "alone", "to"} |-> t[field]]
    BY <2>2
  <2>. HIDE DEF t
  <2>4. t = Stepped(p, "save", form, task[p].to)
    BY <2>3, SixFields DEF Stepped
  <2>. QED
    BY <2>1, <2>4 DEF t
<1>5. task'[p] = Stepped(p, "save", form, task[p].to)
  BY <1>4 DEF IInv, TasksOK
<1>6. live' = [base |-> Given(ask.base, live.base), tunnel |-> live.tunnel]
  BY DEF SetBase, IInv, SettingsWhole
<1>7. task[p].alone => FormFits(p)'
  <2>1. task[p].alone =>
          /\ task[p].form.base = live.base /\ task[p].form.tunnel = saved.tunnel
          /\ task[p].form.url = saved.url
    BY <1>1 DEF IInv, AloneFits, FormFits
  <2>2. /\ task'[p].kind = "config" /\ task'[p].step = "save" /\ task'[p].ask = ask
        /\ task'[p].form.base = Given(ask.base, task[p].form.base)
        /\ task'[p].form.tunnel = task[p].form.tunnel
        /\ task'[p].form.url = Given(ask.url, task[p].form.url)
    <3>. HIDE DEF form
    <3>. QED
      BY <1>1, <1>3, <1>5 DEF Stepped, Is
  <2>3. live'.base = Given(ask.base, live.base) /\ saved' = saved
    BY <1>1, <1>6
  <2>. HIDE DEF form
  <2>. QED
    BY <2>1, <2>2, <2>3 DEF FormFits, Is, At, Given
<1>8. /\ TasksOK' /\ AloneIsAlone' /\ AloneFits'
      /\ \A q \in Tasks : q # p => task'[q] = task[q]
  BY <1>1, <1>2, <1>3, <1>4, <1>7, SettingGoes
<1>9. SettingsWhole' /\ UrlAgrees'
  BY <1>1, <1>6 DEF IInv, SettingsWhole, Whole, UrlAgrees
<1>10. BaseAgrees'
  BY <1>1, <1>5 DEF BaseAgrees, Stepped, Is, At
<1>11. TunnelAgrees'
  BY <1>1, <1>2, <1>6, <1>8 DEF IInv, TunnelAgrees, Is, At
<1>. QED
  BY <1>8, <1>9, <1>10, <1>11 DEF IInv

LEMMA UpdateTunnelKeeps ==
  ASSUME IInv, NEW p \in Tasks, UpdateTunnel(p)
  PROVE  IInv'
<1>1. /\ Is(p, "tunnel") /\ At(p, "read") /\ Setting(p) /\ ~Is(p, "config")
      /\ UNCHANGED <<saved, wanted>>
  BY DEF UpdateTunnel, Is, Setting
<1>2. live' = [base |-> live.base, tunnel |-> task[p].ask.tunnel]
  BY DEF UpdateTunnel, IInv, SettingsWhole
<1>3. CASE Goes(p, "form") /\ UNCHANGED skewed
  <2>1. task' = [task EXCEPT ![p] = Stepped(p, "form", task[p].form, task[p].to)]
    <3>. DEFINE t == [task[p] EXCEPT !.step = "form"]
    <3>1. task' = [task EXCEPT ![p] = t]
      BY <1>3 DEF Goes
    <3>2. PICK k, s, a, f, o, r :
            task[p] = [kind |-> k, step |-> s, ask |-> a, form |-> f, alone |-> o, to |-> r]
      BY <1>1, SettingShape
    <3>3. /\ t.kind = task[p].kind /\ t.step = "form" /\ t.ask = task[p].ask
          /\ t.form = task[p].form /\ t.alone = task[p].alone /\ t.to = task[p].to
          /\ t = [field \in {"kind", "step", "ask", "form", "alone", "to"} |-> t[field]]
      BY <3>2
    <3>. HIDE DEF t
    <3>4. t = Stepped(p, "form", task[p].form, task[p].to)
      BY <3>3, SixFields DEF Stepped
    <3>. QED
      BY <3>1, <3>4 DEF t
  <2>2. task'[p] = Stepped(p, "form", task[p].form, task[p].to)
    BY <2>1 DEF IInv, TasksOK
  <2>3. FormFits(p)'
    BY <1>1, <1>2, <2>2 DEF FormFits, Stepped, Is, At
  <2>4. Whole(task[p].form)
    BY <1>1 DEF IInv, TasksOK
  <2>5. /\ TasksOK' /\ AloneIsAlone' /\ AloneFits'
        /\ \A q \in Tasks : q # p => task'[q] = task[q]
    BY <1>1, <2>1, <2>3, <2>4, SettingGoes
  <2>6. SettingsWhole' /\ UrlAgrees'
    BY <1>1, <1>2, <1>3 DEF IInv, SettingsWhole, Whole, UrlAgrees
  <2>7. TunnelAgrees'
    BY <1>1, <2>2 DEF TunnelAgrees, Stepped, Is
  <2>8. BaseAgrees'
    BY <1>1, <1>2, <1>3, <2>5 DEF IInv, BaseAgrees, Is, At
  <2>. QED
    BY <2>5, <2>6, <2>7, <2>8 DEF IInv
<1>4. CASE Ends(p) /\ skewed' = skewed \cup {"tunnel"}
  <2>1. /\ TasksOK' /\ AloneIsAlone' /\ AloneFits'
        /\ \A q \in Tasks : q # p => task'[q] = task[q]
    BY <1>1, <1>4, SettingEnds
  <2>2. SettingsWhole' /\ UrlAgrees' /\ TunnelAgrees'
    BY <1>1, <1>2, <1>4 DEF IInv, SettingsWhole, Whole, UrlAgrees, TunnelAgrees
  <2>3. BaseAgrees'
    BY <1>1, <1>2, <1>4, <2>1 DEF IInv, BaseAgrees, Is, At
  <2>. QED
    BY <2>1, <2>2, <2>3 DEF IInv
<1>. QED
  BY <1>3, <1>4 DEF UpdateTunnel

LEMMA FormTunnelKeeps ==
  ASSUME IInv, NEW p \in Tasks, FormTunnel(p)
  PROVE  IInv'
<1>. DEFINE form == [saved EXCEPT !.tunnel = task[p].ask.tunnel]
<1>1. /\ Is(p, "tunnel") /\ At(p, "form") /\ Setting(p) /\ ~Is(p, "config")
      /\ UNCHANGED settings
  BY DEF FormTunnel, Is, Setting
<1>2. /\ form = [base |-> saved.base, tunnel |-> task[p].ask.tunnel, url |-> saved.url]
      /\ Whole(form)
  BY DEF IInv, SettingsWhole, Whole
<1>3. task' = [task EXCEPT ![p] = Stepped(p, "save", form, task[p].to)]
  <2>. DEFINE t == [task[p] EXCEPT !.form = form, !.step = "save"]
  <2>1. task' = [task EXCEPT ![p] = t]
    BY DEF FormTunnel
  <2>2. PICK k, s, a, f, o, r :
          task[p] = [kind |-> k, step |-> s, ask |-> a, form |-> f, alone |-> o, to |-> r]
    BY <1>1, SettingShape
  <2>3. /\ t.kind = task[p].kind /\ t.step = "save" /\ t.ask = task[p].ask
        /\ t.form = form /\ t.alone = task[p].alone /\ t.to = task[p].to
        /\ t = [field \in {"kind", "step", "ask", "form", "alone", "to"} |-> t[field]]
    BY <2>2
  <2>. HIDE DEF t
  <2>4. t = Stepped(p, "save", form, task[p].to)
    BY <2>3, SixFields DEF Stepped
  <2>. QED
    BY <2>1, <2>4 DEF t
<1>4. task'[p] = Stepped(p, "save", form, task[p].to)
  BY <1>3 DEF IInv, TasksOK
<1>5. task[p].alone => FormFits(p)'
  <2>1. task[p].alone => task[p].ask.tunnel = live.tunnel
    BY <1>1 DEF IInv, AloneFits, FormFits
  <2>. QED
    BY <1>1, <1>2, <1>4, <2>1 DEF FormFits, Stepped, Is, At, settings
<1>6. /\ TasksOK' /\ AloneIsAlone' /\ AloneFits'
      /\ \A q \in Tasks : q # p => task'[q] = task[q]
  BY <1>1, <1>2, <1>3, <1>5, SettingGoes
<1>7. SettingsWhole' /\ UrlAgrees'
  BY <1>1 DEF settings, IInv, SettingsWhole, Whole, UrlAgrees
<1>8. TunnelAgrees'
  BY <1>1, <1>4 DEF TunnelAgrees, Stepped, Is
<1>9. BaseAgrees'
  BY <1>1, <1>6 DEF settings, IInv, BaseAgrees, Is, At
<1>. QED
  BY <1>6, <1>7, <1>8, <1>9 DEF IInv

\* The settings of a request that was alone agree with the live ones where they
\* did before and in what it mends; the others are not relied upon.
LEMMA SaveConfigKeeps ==
  ASSUME IInv, NEW p \in Tasks, SaveConfig(p)
  PROVE  IInv'
<1>1. /\ Setting(p) /\ At(p, "save") /\ saved' = task[p].form /\ UNCHANGED live
      /\ Is(p, "config") \/ Is(p, "tunnel")
  BY DEF SaveConfig, Setting, Is
<1>2. Whole(task[p].form)
  BY <1>1 DEF IInv, TasksOK
<1>3. TasksOK' /\ AloneIsAlone' /\ AloneFits'
  <2>1. CASE Broadcast(p)
    <3>1. task' = [task EXCEPT ![p] = Stepped(p, "send", task[p].form, here)]
      <4>. DEFINE t == [task[p] EXCEPT !.step = "send", !.to = here]
      <4>1. task' = [task EXCEPT ![p] = t]
        BY <2>1 DEF Broadcast
      <4>2. PICK k, s, a, f, o, r :
              task[p] = [kind |-> k, step |-> s, ask |-> a, form |-> f, alone |-> o, to |-> r]
        BY <1>1, SettingShape
      <4>3. /\ t.kind = task[p].kind /\ t.step = "send" /\ t.ask = task[p].ask
            /\ t.form = task[p].form /\ t.alone = task[p].alone /\ t.to = here
            /\ t = [field \in {"kind", "step", "ask", "form", "alone", "to"} |-> t[field]]
        BY <4>2
      <4>. HIDE DEF t
      <4>4. t = Stepped(p, "send", task[p].form, here)
        BY <4>3, SixFields DEF Stepped
      <4>. QED
        BY <4>1, <4>4 DEF t
    <3>2. task'[p] = Stepped(p, "send", task[p].form, here)
      BY <3>1 DEF IInv, TasksOK
    <3>3. FormFits(p)'
      BY <3>2 DEF FormFits, Stepped, At
    <3>. QED
      BY <1>1, <1>2, <3>1, <3>3, SettingGoes
  <2>2. CASE Ends(p)
    BY <1>1, <2>2, SettingEnds
  <2>. QED
    BY <2>1, <2>2 DEF SaveConfig
<1>4. SettingsWhole'
  BY <1>1, <1>2 DEF IInv, SettingsWhole, Whole
<1>5. BaseAgrees' /\ TunnelAgrees' /\ UrlAgrees'
  <2>1. CASE ~task[p].alone
    <3>1. skewed' = {"base", "tunnel", "url"}
      BY <2>1 DEF SaveConfig
    <3>. QED
      BY <3>1 DEF BaseAgrees, TunnelAgrees, UrlAgrees
  <2>2. CASE task[p].alone
    <3>1. skewed' = skewed \ Mends(p) /\ FormFits(p)
      BY <1>1, <2>2 DEF SaveConfig, IInv, AloneFits
    <3>2. \A q \in Tasks : q # p => ~Setting(q)
      BY <1>1, <2>2 DEF IInv, AloneIsAlone
    <3>3. CASE Is(p, "config")
      <4>1. /\ saved'.base = live.base /\ saved'.tunnel = saved.tunnel
            /\ saved'.url = Given(task[p].ask.url, saved.url)
            /\ wanted' = Given(task[p].ask.url, wanted)
        BY <1>1, <3>1, <3>3 DEF FormFits, SaveConfig
      <4>2. ~Is(p, "tunnel")
        BY <3>3 DEF Is
      <4>3. "tunnel" \in skewed \/ saved.tunnel = live.tunnel
        BY <3>2, <4>2 DEF IInv, TunnelAgrees, Is, Setting
      <4>4. CASE task[p].ask.url = 0
        <5>1. skewed' = skewed \ {"base"}
          BY <3>1, <4>2, <4>4 DEF Mends
        <5>. QED
          BY <1>1, <4>1, <4>3, <4>4, <5>1
          DEF IInv, BaseAgrees, TunnelAgrees, UrlAgrees, Given
      <4>5. CASE task[p].ask.url # 0
        <5>1. skewed' = skewed \ {"base", "url"}
          BY <3>1, <4>2, <4>5 DEF Mends
        <5>. QED
          BY <1>1, <4>1, <4>3, <4>5, <5>1
          DEF IInv, BaseAgrees, TunnelAgrees, UrlAgrees, Given
      <4>. QED
        BY <4>4, <4>5
    <3>4. CASE Is(p, "tunnel")
      <4>1. ~Is(p, "config")
        BY <3>4 DEF Is
      <4>2. /\ saved'.base = saved.base /\ saved'.tunnel = live.tunnel
            /\ saved'.url = saved.url /\ wanted' = wanted /\ skewed' = skewed \ {"tunnel"}
        BY <1>1, <3>1, <3>4, <4>1 DEF FormFits, SaveConfig, Mends
      <4>3. "base" \in skewed \/ saved.base = live.base
        BY <3>2, <4>1 DEF IInv, BaseAgrees, Is, Setting
      <4>. QED
        BY <1>1, <4>2, <4>3 DEF IInv, BaseAgrees, TunnelAgrees, UrlAgrees
    <3>. QED
      BY <1>1, <3>3, <3>4
  <2>. QED
    BY <2>1, <2>2
<1>. QED
  BY <1>3, <1>4, <1>5 DEF IInv

-----------------------------------------------------------------------------
LEMMA NextIInv ==
  ASSUME IInv, [Next]_vars
  PROVE  IInv'
<1>1. ASSUME NEW p \in Requests, Call(p) PROVE IInv'
  <2>1. p \in Tasks
    BY DEF Tasks
  <2>2. ASSUME SetConfig(p) \/ SetTunnel(p) PROVE IInv'
    <3>1. \E kind \in {"config", "tunnel"} : \E ask : Set(p, kind, ask)
      BY <2>2 DEF SetConfig, SetTunnel
    <3>. QED
      BY <3>1, SetKeeps
  <2>3. ASSUME NEW n \in Nodes, Act(p, "start", n) \/ Act(p, "stop", n) \/ Act(p, "test", n)
        PROVE  IInv'
    BY <2>1, <2>3, ActQuiet
  <2>4. ASSUME NEW S, NEW only, NEW auto, Pick(p, S, only, auto) PROVE IInv'
    BY <2>1, <2>4, PickQuiet
  <2>5. ASSUME NEW S, Refresh(p, S) PROVE IInv'
    BY <2>1, <2>5, RefreshQuiet
  <2>. QED
    BY <1>1, <2>2, <2>3, <2>4, <2>5 DEF Call
<1>2. ASSUME NEW t \in Runs, NEW S, RunTests(t, S) PROVE IInv'
  BY <1>2, RunQuiet
<1>3. ASSUME NEW p \in Tasks, Step(p) \/ Forget(p) PROVE IInv'
  <2>1. CASE \/ ReadConfig(p) \/ ReadBase(p) \/ SetBase(p)
             \/ UpdateTunnel(p) \/ FormTunnel(p) \/ SaveConfig(p)
    BY <2>1, ReadConfigKeeps, ReadBaseKeeps, SetBaseKeeps, UpdateTunnelKeeps,
       FormTunnelKeeps, SaveConfigKeeps
  <2>2. CASE StartNode(p) \/ StopNothing(p) \/ StopNode(p) \/ Forget(p)
    BY <2>2, StartQuiet, StopQuiet, ForgetQuiet
  <2>3. CASE Filter(p) \/ Choose(p) \/ Check(p) \/ Assign(p) \/ Answer(p)
    BY <2>3, ProxyQuiet
  <2>4. CASE TestStep(p)
    BY <2>4, TestQuiet, SendQuiet DEF TestStep
  <2>. QED
    BY <1>3, <2>1, <2>2, <2>3, <2>4 DEF Step
<1>4. ASSUME NEW d \in Dashboards, Join(d) \/ Leave(d) \/ Flush(d) PROVE IInv'
  BY <1>4, EventsQuiet
<1>5. CASE UNCHANGED vars
  <2>1. Quiet
    BY <1>5 DEF vars, Quiet, IInv, TasksOK
  <2>. QED
    BY <2>1, QuietIInv
<1>. QED
  BY <1>1, <1>2, <1>3, <1>4, <1>5 DEF Next

\* Between requests for the settings, the saved settings are the live ones
\* wherever no overlap and no tunnel that did not start has come between
\* (server.go:164-199, 635-637).
THEOREM SettingsCorrect == Spec => []SettingsAgree
<1>1. IInv => SettingsAgree
  BY DEF IInv, BaseAgrees, TunnelAgrees, UrlAgrees, SettingsAgree, Setting, Is
<1>. QED
  BY <1>1, InitIInv, NextIInv, PTL DEF Spec

-----------------------------------------------------------------------------
(* The types.  A task is described by its value.                            *)

NodeKinds == {"start", "stop", "test", "pick"}
NodeFields == {"kind", "step", "nodes", "copies", "running", "port", "owns", "cut",
               "only", "auto", "left", "to"}

StepsOf(kind) ==
  CASE kind = "config" -> {"read", "base", "set", "save", "send"}
    [] kind = "tunnel" -> {"read", "form", "save", "send"}
    [] kind = "start"  -> {"act", "update", "send"}
    [] kind = "stop"   -> {"act", "closing", "update", "send"}
    [] kind = "test"   -> {"queue", "test", "running", "port", "update", "send"}
    [] kind = "pick"   -> {"filter", "check", "act", "update", "send", "assign",
                           "running", "port", "answer"}
    [] kind = "run"    -> {"wait", "send"}
    [] kind = "refresh" -> {"send"}
    [] OTHER           -> {"none"}

Form == [base : Values, tunnel : Values, url : Values]

SettingTask(p, t) ==
  /\ t.kind \in {"config", "tunnel"} /\ p \in Requests
  /\ DOMAIN t = {"kind", "step", "ask", "form", "alone", "to"}
  /\ t.form \in Form
  /\ t.kind = "config" => t.ask.base \in Values \cup {0} /\ t.ask.url \in Values \cup {0}
  /\ t.kind = "tunnel" => t.ask.tunnel \in Values

NodeTaskOK(p, t) ==
  /\ t.kind \in NodeKinds /\ DOMAIN t = NodeFields
  /\ p \in Requests \/ (t.kind = "test" /\ p \in Workers /\ t.nodes = {p[2]})
  /\ t.nodes \subseteq Nodes
  /\ \A n \in t.nodes : t.copies[n] \in Latencies \cup {0}
  /\ t.running \in BOOLEAN /\ t.port \in BOOLEAN
  /\ t.step # "filter" => \E n \in Nodes : t.nodes = {n}

\* A run of tests, or a refresh.
PlainTask(p, t) ==
  /\ \/ t.kind = "run" /\ p \in Runs
     \/ t.kind = "refresh" /\ p \in Requests
  /\ DOMAIN t = {"kind", "step", "to"}

TaskOK(p, t) ==
  /\ t = NoTask \/ SettingTask(p, t) \/ NodeTaskOK(p, t) \/ PlainTask(p, t)
  /\ t.step \in StepsOf(t.kind)
  /\ t.step = "send" => t.to \subseteq here

AllTasksOK == DOMAIN task = Tasks /\ \A p \in Tasks : TaskOK(p, task[p])

SettingsTyped ==
  /\ saved \in Form /\ live \in [base : Values, tunnel : Values] /\ wanted \in Values
  /\ skewed \subseteq {"base", "tunnel", "url"}

NodesTyped ==
  /\ up \subseteq Nodes /\ holder \in Requests \cup {Nobody}
  /\ stored \in [Nodes -> [running : BOOLEAN, port : BOOLEAN, latency : Latencies \cup {0}]]
  /\ contended \subseteq Nodes /\ newest \in [Nodes -> Latencies \cup {0}]
  /\ refreshed \subseteq Nodes

EventsTyped ==
  /\ here \subseteq Dashboards /\ DOMAIN waiting = Dashboards
  /\ \A d \in Dashboards : waiting[d] \in 0..(IF d \in here THEN Buffer ELSE 0)
  /\ owed \in [Runs -> SUBSET here] /\ tested \in [Runs -> SUBSET Nodes]

TasksTyped ==
  /\ AllTasksOK
  /\ \A p \in Tasks : holder = p <=> Is(p, "stop") /\ At(p, "closing")

TypeInv == SettingsTyped /\ NodesTyped /\ EventsTyped /\ TasksTyped /\ calls \in 0..MaxCalls

LEMMA TaskKind ==
  ASSUME NEW p, NEW t, TaskOK(p, t)
  PROVE  /\ t.kind \in {"none", "config", "tunnel", "start", "stop", "test", "pick", "refresh", "run"}
         /\ t.kind \in NodeKinds => NodeTaskOK(p, t)
         /\ t.kind \in {"config", "tunnel"} => SettingTask(p, t)
         /\ t.kind \in {"run", "refresh"} => PlainTask(p, t)
         /\ t.kind = "none" => t = NoTask
  BY DEF TaskOK, NoTask, SettingTask, NodeTaskOK, PlainTask, NodeKinds

LEMMA StepKind ==
  ASSUME NEW p, NEW t, TaskOK(p, t)
  PROVE  /\ t.step \in {"act", "update"} => t.kind \in NodeKinds
         /\ t.step = "closing" => t.kind = "stop"
         /\ t.step \in {"queue", "test"} => t.kind = "test"
         /\ t.step \in {"running", "port"} => t.kind \in {"test", "pick"}
         /\ t.step \in {"filter", "check", "assign", "answer"} => t.kind = "pick"
         /\ t.step = "wait" => t.kind = "run"
         /\ t.step = "none" => t.kind = "none"
         /\ t.step \in {"base", "set"} => t.kind = "config"
         /\ t.step = "form" => t.kind = "tunnel"
<1>1. t.step \in StepsOf(t.kind)
  BY DEF TaskOK
<1>2. t.kind \in {"none", "config", "tunnel", "start", "stop", "test", "pick", "refresh", "run"}
  BY TaskKind
<1>. QED
  BY <1>1, <1>2 DEF StepsOf, NodeKinds

LEMMA TypesCorrect ==
  ASSUME TypeInv
  PROVE  TypeOK
<1>1. \A p \in Tasks : task[p].kind \in {"none", "config", "tunnel", "start", "stop", "test", "pick", "refresh", "run"}
  BY TaskKind DEF TypeInv, TasksTyped, AllTasksOK
<1>. QED
  BY <1>1 DEF TypeInv, TypeOK, SettingsTyped, NodesTyped, EventsTyped, TasksTyped, Form

LEMMA InitTyped == Init => TypeInv
<1>. SUFFICES ASSUME Init PROVE TypeInv
  OBVIOUS
<1>1. SettingsTyped
  <2>1. PICK v \in Values : saved = [base |-> v, tunnel |-> v, url |-> v]
                            /\ live = [base |-> v, tunnel |-> v] /\ wanted = v
    BY DashboardAssumption DEF Init
  <2>. QED
    BY <2>1 DEF Init, SettingsTyped, Form
<1>2. NodesTyped
  BY DEF Init, NodesTyped
<1>3. EventsTyped
  BY DashboardAssumption DEF Init, EventsTyped
<1>4. TasksTyped
  <2>1. \A p \in Tasks : task[p] = NoTask
    BY DEF Init
  <2>2. AllTasksOK
    BY <2>1 DEF Init, AllTasksOK, TaskOK, NoTask, StepsOf
  <2>3. Nobody \notin Tasks
    BY DashboardAssumption DEF Tasks, Workers
  <2>. QED
    BY <2>1, <2>2, <2>3 DEF Init, TasksTyped, Is, At, NoTask
<1>. QED
  BY <1>1, <1>2, <1>3, <1>4, DashboardAssumption DEF Init, TypeInv

\* A step of one task.
LEMMA OneTaskTyped ==
  ASSUME TypeInv, NEW p \in Tasks, NEW t, task' = [task EXCEPT ![p] = t],
         TaskOK(p, t), UNCHANGED here,
         holder' = p <=> t.kind = "stop" /\ t.step = "closing",
         holder' # holder => {holder, holder'} \subseteq {p, Nobody}
  PROVE  TasksTyped'
<1>1. DOMAIN task = Tasks /\ \A q \in Tasks : TaskOK(q, task[q])
  BY DEF TypeInv, TasksTyped, AllTasksOK
<1>2. task'[p] = t /\ DOMAIN task' = Tasks /\ \A q \in Tasks : q # p => task'[q] = task[q]
  BY <1>1
<1>3. \A q \in Tasks : TaskOK(q, task'[q])
  BY <1>1, <1>2
<1>4. AllTasksOK'
  <2>1. ASSUME NEW q \in Tasks PROVE TaskOK(q, task[q])'
    <3>1. TaskOK(q, task'[q])
      BY <1>3
    <3>. QED
      BY <3>1 DEF TaskOK, SettingTask, NodeTaskOK, PlainTask
  <2>. QED
    BY <1>2, <2>1 DEF AllTasksOK
<1>5. \A q \in Tasks : holder' = q <=> task'[q].kind = "stop" /\ task'[q].step = "closing"
  <2>1. \A q \in Tasks : holder = q <=> task[q].kind = "stop" /\ task[q].step = "closing"
    BY DEF TypeInv, TasksTyped, Is, At
  <2>2. Nobody \notin Tasks
    BY DashboardAssumption DEF Tasks, Workers
  <2>. QED
    BY <1>2, <2>1, <2>2
<1>. QED
  BY <1>4, <1>5 DEF TasksTyped, Is, At

\* One that leaves m.mu alone.
LEMMA CalmTyped ==
  ASSUME TypeInv, NEW p \in Tasks, NEW t, task' = [task EXCEPT ![p] = t],
         TaskOK(p, t), UNCHANGED <<here, holder>>,
         task[p].step # "closing", t.step # "closing"
  PROVE  TasksTyped'
<1>1. holder # p
  BY DEF TypeInv, TasksTyped, At
<1>. QED
  BY <1>1, OneTaskTyped

LEMMA NoTaskOK ==
  ASSUME NEW p
  PROVE  TaskOK(p, NoTask) /\ NoTask.step = "none" /\ NoTask.kind = "none"
  BY DEF TaskOK, NoTask, StepsOf

\* The steps that a task goes on with, of its own value alone.
LEMMA GoesOK ==
  ASSUME TypeInv, NEW p \in Tasks, NEW step, NEW t,
         t = [task[p] EXCEPT !.step = step], task[p] # NoTask,
         step \in StepsOf(task[p].kind), step # "send", 
         task[p].step = "filter" => step = "filter"
  PROVE  TaskOK(p, t) /\ t.step = step /\ t.kind = task[p].kind
<1>1. TaskOK(p, task[p])
  BY DEF TypeInv, TasksTyped, AllTasksOK
<1>2. CASE SettingTask(p, task[p])
  <2>1. t.kind = task[p].kind /\ t.step = step /\ DOMAIN t = DOMAIN task[p]
        /\ t.form = task[p].form /\ t.ask = task[p].ask
    BY <1>2 DEF SettingTask
  <2>. QED
    BY <1>2, <2>1 DEF TaskOK, SettingTask
<1>3. CASE NodeTaskOK(p, task[p])
  <2>1. t.kind = task[p].kind /\ t.step = step /\ DOMAIN t = DOMAIN task[p]
        /\ t.nodes = task[p].nodes /\ t.copies = task[p].copies
        /\ t.running = task[p].running /\ t.port = task[p].port
    BY <1>3 DEF NodeTaskOK, NodeFields
  <2>. QED
    BY <1>3, <2>1 DEF TaskOK, NodeTaskOK
<1>4. CASE PlainTask(p, task[p])
  <2>1. t.kind = task[p].kind /\ t.step = step /\ DOMAIN t = DOMAIN task[p]
    BY <1>4 DEF PlainTask
  <2>. QED
    BY <1>4, <2>1 DEF TaskOK, PlainTask
<1>. QED
  BY <1>1, <1>2, <1>3, <1>4 DEF TaskOK

LEMMA BroadcastOK ==
  ASSUME TypeInv, NEW p \in Tasks, NEW t,
         t = [task[p] EXCEPT !.step = "send", !.to = here], task[p] # NoTask,
         "send" \in StepsOf(task[p].kind), task[p].step # "filter"
  PROVE  TaskOK(p, t) /\ t.step = "send" /\ t.kind = task[p].kind
<1>1. TaskOK(p, task[p])
  BY DEF TypeInv, TasksTyped, AllTasksOK
<1>2. CASE SettingTask(p, task[p])
  <2>1. t.kind = task[p].kind /\ t.step = "send" /\ DOMAIN t = DOMAIN task[p]
        /\ t.form = task[p].form /\ t.ask = task[p].ask /\ t.to = here
    BY <1>2 DEF SettingTask
  <2>. QED
    BY <1>2, <2>1 DEF TaskOK, SettingTask
<1>3. CASE NodeTaskOK(p, task[p])
  <2>1. t.kind = task[p].kind /\ t.step = "send" /\ DOMAIN t = DOMAIN task[p]
        /\ t.nodes = task[p].nodes /\ t.copies = task[p].copies
        /\ t.running = task[p].running /\ t.port = task[p].port /\ t.to = here
    BY <1>3 DEF NodeTaskOK, NodeFields
  <2>. QED
    BY <1>3, <2>1 DEF TaskOK, NodeTaskOK
<1>4. CASE PlainTask(p, task[p])
  <2>1. t.kind = task[p].kind /\ t.step = "send" /\ DOMAIN t = DOMAIN task[p] /\ t.to = here
    BY <1>4 DEF PlainTask
  <2>. QED
    BY <1>4, <2>1 DEF TaskOK, PlainTask
<1>. QED
  BY <1>1, <1>2, <1>3, <1>4 DEF TaskOK

-----------------------------------------------------------------------------
(* What the tasks and the store know of a node                              *)

Subjects(t) == IF t.kind \in NodeKinds THEN t.nodes ELSE {}

\* While a node is not contended, whoever starts or stops it is alone with it ...
Exclusive(n) ==
  \A p, q \in Tasks :
    n \in Subjects(task[p]) /\ n \in Subjects(task[q]) /\ Steers(task[p].kind) => p = q

\* ... so that what a task knows of it stays true until it is in the store.
Knows(t, n) ==
  /\ Steers(t.kind) => t.copies[n] = newest[n]
  /\ t.kind \in {"start", "stop"} /\ t.step \in {"act", "closing"} => ~t.running /\ ~t.port
  /\ t.step = "update" => (t.running <=> n \in up) /\ (t.port <=> n \in up)
  /\ t.kind = "test" /\ t.step = "port" => (t.running <=> n \in up)

Known(n) == \A p \in Tasks : n \in Subjects(task[p]) => Knows(task[p], n)

StoreKnows(n) ==
  /\ stored[n].latency = newest[n]
  /\ \/ (stored[n].running <=> n \in up \ refreshed) /\ (stored[n].port <=> n \in up \ refreshed)
     \/ \E p \in Tasks :
          n \in Subjects(task[p]) /\ Steers(task[p].kind) /\ task[p].step = "update"

NodesOK == \A n \in Nodes \ contended : Exclusive(n) /\ Known(n) /\ StoreKnows(n)

\* What a pick has found of its node, if it has not been stopped since.
Found(t) ==
  t.kind = "pick" /\ ~t.cut =>
    \A n \in t.nodes :
      /\ t.step = "running" /\ t.auto => n \in up
      /\ t.step = "port" => (t.running => n \in up) /\ (t.auto => t.running)
      /\ t.step = "answer" => (t.running => t.port) /\ (t.auto => t.running)

PicksFind == \A p \in Tasks : Found(task[p])

NodeInv == TypeInv /\ NodesOK /\ PicksFind

LEMMA InitNodes == Init => NodeInv
<1>. SUFFICES ASSUME Init PROVE NodeInv
  OBVIOUS
<1>1. \A p \in Tasks : task[p].kind = "none" /\ Subjects(task[p]) = {}
  BY DEF Init, NoTask, Subjects, NodeKinds
<1>2. NodesOK
  BY <1>1 DEF NodesOK, Exclusive, Known, StoreKnows, Init
<1>3. PicksFind
  BY <1>1 DEF PicksFind, Found
<1>. QED
  BY <1>2, <1>3, InitTyped DEF NodeInv

\* What a task may become in a step that says nothing of the nodes.
Calm(q, t) ==
  /\ Subjects(t) \subseteq Subjects(task[q])
  /\ Subjects(t) # {} => t.kind = task[q].kind
  /\ Steers(task[q].kind) => task[q].step # "update"
  /\ \A n \in Subjects(t) \ contended : Knows(t, n)

LEMMA CalmSteps ==
  ASSUME NodeInv, UNCHANGED <<up, stored, newest, refreshed, contended>>,
         \A q \in Tasks : task'[q] = task[q] \/ (Calm(q, task'[q]) /\ Found(task'[q]))
  PROVE  NodesOK' /\ PicksFind'
<1>1. ASSUME NEW n \in Nodes \ contended PROVE (Exclusive(n) /\ Known(n) /\ StoreKnows(n))'
  <2>1. Exclusive(n) /\ Known(n) /\ StoreKnows(n)
    BY DEF NodeInv, NodesOK
  <2>2. \A q \in Tasks : n \in Subjects(task'[q]) =>
          /\ n \in Subjects(task[q]) /\ task'[q].kind = task[q].kind
          /\ Knows(task'[q], n)
    BY <2>1 DEF Calm, Known
  <2>3. \A q \in Tasks : Steers(task[q].kind) /\ task[q].step = "update" => task'[q] = task[q]
    BY DEF Calm
  <2>4. Exclusive(n)'
    BY <2>1, <2>2 DEF Exclusive, Subjects
  <2>5. Known(n)'
    BY <2>2 DEF Known, Knows, Subjects
  <2>6. StoreKnows(n)'
    BY <2>1, <2>3 DEF StoreKnows, Subjects
  <2>. QED
    BY <2>4, <2>5, <2>6
<1>2. NodesOK'
  BY <1>1 DEF NodesOK
<1>3. PicksFind'
  BY DEF NodeInv, PicksFind, Found
<1>. QED
  BY <1>2, <1>3

LEMMA OneTaskCalm ==
  ASSUME NodeInv, NEW p \in Tasks, NEW t, task' = [task EXCEPT ![p] = t],
         UNCHANGED <<up, stored, newest, refreshed, contended>>, Calm(p, t), Found(t)
  PROVE  NodesOK' /\ PicksFind'
<1>1. \A q \in Tasks : task'[q] = task[q] \/ (q = p /\ task'[q] = t)
  BY DEF NodeInv, TypeInv, TasksTyped, AllTasksOK
<1>. QED
  BY <1>1, CalmSteps

LEMMA AboutNothing ==
  ASSUME NEW q, NEW t, t.kind \notin NodeKinds, Steers(task[q].kind) => task[q].step # "update"
  PROVE  Calm(q, t) /\ Found(t)
  BY DEF Calm, Found, Subjects, NodeKinds

\* A calm step of one task.
LEMMA CalmStep ==
  ASSUME NodeInv, NEW p \in Tasks, NEW t, task' = [task EXCEPT ![p] = t],
         TaskOK(p, t), Calm(p, t), Found(t),
         task[p].step # "closing", t.step # "closing",
         UNCHANGED <<nodeVars, events, calls>>, SettingsTyped'
  PROVE  NodeInv'
<1>. USE DEF nodeVars, events
<1>1. TasksTyped'
  BY CalmTyped DEF NodeInv
<1>2. NodesOK' /\ PicksFind'
  BY OneTaskCalm
<1>3. NodesTyped' /\ EventsTyped' /\ calls' \in 0..MaxCalls
  BY DEF NodeInv, TypeInv, NodesTyped, EventsTyped
<1>. QED
  BY <1>1, <1>2, <1>3 DEF NodeInv, TypeInv

LEMMA SettingsStay ==
  ASSUME NodeInv, UNCHANGED settings
  PROVE  SettingsTyped'
  BY DEF NodeInv, TypeInv, SettingsTyped, settings

\* A task that is not in the middle of a start, a stop or a pick may end.
LEMMA EndsCalm ==
  ASSUME NodeInv, NEW p \in Tasks, Ends(p), task[p].step \notin {"closing", "update"},
         UNCHANGED <<nodeVars, events, calls>>, SettingsTyped'
  PROVE  NodeInv'
<1>1. NoTask.kind = "none" /\ NoTask.step = "none" /\ TaskOK(p, NoTask)
  BY NoTaskOK
<1>2. Calm(p, NoTask) /\ Found(NoTask)
  BY <1>1, AboutNothing DEF NodeKinds
<1>. QED
  BY <1>1, <1>2, CalmStep DEF Ends

\* The value of a task about nodes, field by field.
LEMMA NodeTaskFields ==
  ASSUME NodeInv, NEW p \in Tasks, task[p].kind \in NodeKinds
  PROVE  /\ NodeTaskOK(p, task[p]) /\ DOMAIN task[p] = NodeFields
         /\ Subjects(task[p]) = task[p].nodes
         /\ \A n \in Subjects(task[p]) \ contended : Knows(task[p], n)
         /\ Found(task[p])
<1>1. TaskOK(p, task[p])
  BY DEF NodeInv, TypeInv, TasksTyped, AllTasksOK
<1>2. NodeTaskOK(p, task[p])
  BY <1>1, TaskKind
<1>3. \A n \in Subjects(task[p]) \ contended : Knows(task[p], n)
  BY <1>2 DEF NodeInv, NodesOK, Known, Subjects, NodeTaskOK
<1>. QED
  BY <1>2, <1>3 DEF NodeTaskOK, Subjects, NodeInv, PicksFind

LEMMA OneNode ==
  ASSUME NodeInv, NEW p \in Tasks, task[p].kind \in NodeKinds, task[p].step # "filter"
  PROVE  NodeOf(p) \in Nodes /\ task[p].nodes = {NodeOf(p)}
<1>1. PICK n \in Nodes : task[p].nodes = {n}
  BY NodeTaskFields DEF NodeTaskOK
<1>. QED
  BY <1>1 DEF NodeOf

LEMMA StepOfTask ==
  ASSUME NodeInv, NEW p \in Tasks
  PROVE  TaskOK(p, task[p]) /\ task[p].step \in StepsOf(task[p].kind)
  BY DEF NodeInv, TypeInv, TasksTyped, AllTasksOK, TaskOK

-----------------------------------------------------------------------------
(* Requests for the settings *)

\* What such a request goes on to.
LEMMA SettingGoesOn ==
  ASSUME NodeInv, NEW p \in Tasks, task[p].kind \in {"config", "tunnel"}, NEW t,
         task' = [task EXCEPT ![p] = t], t.kind = task[p].kind,
         TaskOK(p, t), UNCHANGED <<nodeVars, events, calls>>, SettingsTyped'
  PROVE  NodeInv'
<1>1. task[p].step # "closing"
  BY StepKind, StepOfTask
<1>2. t.step # "closing"
  BY StepKind
<1>3. Calm(p, t) /\ Found(t)
  BY AboutNothing DEF NodeKinds, Steers
<1>. QED
  BY <1>1, <1>2, <1>3, CalmStep

LEMMA ReadConfigNodes ==
  ASSUME NodeInv, NEW p \in Tasks, ReadConfig(p)
  PROVE  NodeInv'
<1>1. PICK t : t = [task[p] EXCEPT !.form = saved, !.step = "base"]
  OBVIOUS
<1>2. task' = [task EXCEPT ![p] = t]
  BY <1>1 DEF ReadConfig
<1>3. task[p].kind = "config" /\ SettingTask(p, task[p])
  BY StepOfTask, TaskKind DEF ReadConfig, Is
<1>4. t.kind = "config" /\ t.step = "base" /\ t.form = saved /\ t.ask = task[p].ask
      /\ DOMAIN t = DOMAIN task[p]
  BY <1>1, <1>3 DEF SettingTask
<1>5. TaskOK(p, t)
  BY <1>3, <1>4 DEF TaskOK, SettingTask, StepsOf, NodeInv, TypeInv, SettingsTyped
<1>. QED
  BY <1>2, <1>3, <1>4, <1>5, SettingGoesOn, SettingsStay DEF ReadConfig

LEMMA ReadBaseNodes ==
  ASSUME NodeInv, NEW p \in Tasks, ReadBase(p)
  PROVE  NodeInv'
<1>1. PICK t : t = [task[p] EXCEPT !.form.base = live.base, !.step = "set"]
  OBVIOUS
<1>2. task' = [task EXCEPT ![p] = t]
  BY <1>1 DEF ReadBase
<1>3. task[p].kind = "config" /\ SettingTask(p, task[p])
  BY StepOfTask, TaskKind DEF ReadBase, Is
<1>4. t.kind = "config" /\ t.step = "set" /\ t.ask = task[p].ask
      /\ DOMAIN t = DOMAIN task[p] /\ t.form = [task[p].form EXCEPT !.base = live.base]
  BY <1>1, <1>3 DEF SettingTask
<1>5. t.form \in Form
  BY <1>3, <1>4 DEF SettingTask, Form, NodeInv, TypeInv, SettingsTyped
<1>6. TaskOK(p, t)
  BY <1>3, <1>4, <1>5 DEF TaskOK, SettingTask, StepsOf
<1>. QED
  BY <1>2, <1>3, <1>4, <1>6, SettingGoesOn, SettingsStay DEF ReadBase

LEMMA SetBaseNodes ==
  ASSUME NodeInv, NEW p \in Tasks, SetBase(p)
  PROVE  NodeInv'
<1>1. PICK t : t = [task[p] EXCEPT !.form.base = Given(task[p].ask.base, @),
                                   !.form.url = Given(task[p].ask.url, @),
                                   !.step = "save"]
  OBVIOUS
<1>2. task' = [task EXCEPT ![p] = t]
  BY <1>1 DEF SetBase
<1>3. task[p].kind = "config" /\ SettingTask(p, task[p])
  BY StepOfTask, TaskKind DEF SetBase, Is
<1>4. t.kind = "config" /\ t.step = "save" /\ t.ask = task[p].ask
      /\ DOMAIN t = DOMAIN task[p]
  BY <1>1, <1>3 DEF SettingTask
<1>5. t.form = [task[p].form EXCEPT !.base = Given(task[p].ask.base, @),
                                    !.url = Given(task[p].ask.url, @)]
  BY <1>1, <1>3 DEF SettingTask
<1>6. t.form \in Form
  BY <1>3, <1>5 DEF SettingTask, Form, Given
<1>7. TaskOK(p, t)
  BY <1>3, <1>4, <1>6 DEF TaskOK, SettingTask, StepsOf
<1>8. SettingsTyped'
  BY <1>3 DEF SetBase, SettingsTyped, NodeInv, TypeInv, Given, SettingTask
<1>. QED
  BY <1>2, <1>3, <1>4, <1>7, <1>8, SettingGoesOn DEF SetBase

\* A request for the settings that only goes to another step.
LEMMA SettingGoesNodes ==
  ASSUME NodeInv, NEW p \in Tasks, task[p].kind \in {"config", "tunnel"}, NEW step,
         Goes(p, step), step \in StepsOf(task[p].kind), step # "send",
         UNCHANGED <<nodeVars, events, calls>>, SettingsTyped'
  PROVE  NodeInv'
<1>1. PICK t : t = [task[p] EXCEPT !.step = step]
  OBVIOUS
<1>2. task' = [task EXCEPT ![p] = t]
  BY <1>1 DEF Goes
<1>3. task[p].step # "filter"
  BY StepKind, StepOfTask
<1>4. TaskOK(p, t) /\ t.kind = task[p].kind
  BY <1>1, <1>3, GoesOK DEF NodeInv, NoTask
<1>. QED
  BY <1>2, <1>4, SettingGoesOn

LEMMA UpdateTunnelNodes ==
  ASSUME NodeInv, NEW p \in Tasks, UpdateTunnel(p)
  PROVE  NodeInv'
<1>1. task[p].kind = "tunnel" /\ task[p].step = "read" /\ SettingTask(p, task[p])
  BY StepOfTask, TaskKind DEF UpdateTunnel, Is, At
<1>2. SettingsTyped'
  BY <1>1 DEF UpdateTunnel, SettingsTyped, NodeInv, TypeInv, SettingTask
<1>3. "form" \in StepsOf(task[p].kind)
  BY <1>1 DEF StepsOf
<1>4. CASE Goes(p, "form")
  BY <1>1, <1>2, <1>3, <1>4, SettingGoesNodes DEF UpdateTunnel
<1>5. CASE Ends(p)
  BY <1>1, <1>2, <1>5, EndsCalm DEF UpdateTunnel
<1>. QED
  BY <1>4, <1>5 DEF UpdateTunnel

LEMMA FormTunnelNodes ==
  ASSUME NodeInv, NEW p \in Tasks, FormTunnel(p)
  PROVE  NodeInv'
<1>1. PICK t : t = [task[p] EXCEPT !.form = [saved EXCEPT !.tunnel = task[p].ask.tunnel],
                                   !.step = "save"]
  OBVIOUS
<1>2. task' = [task EXCEPT ![p] = t]
  BY <1>1 DEF FormTunnel
<1>3. task[p].kind = "tunnel" /\ SettingTask(p, task[p])
  BY StepOfTask, TaskKind DEF FormTunnel, Is
<1>4. t.kind = "tunnel" /\ t.step = "save" /\ t.ask = task[p].ask
      /\ DOMAIN t = DOMAIN task[p] /\ t.form = [saved EXCEPT !.tunnel = task[p].ask.tunnel]
  BY <1>1, <1>3 DEF SettingTask
<1>5. t.form \in Form
  BY <1>3, <1>4 DEF SettingTask, Form, NodeInv, TypeInv, SettingsTyped
<1>6. TaskOK(p, t)
  BY <1>3, <1>4, <1>5 DEF TaskOK, SettingTask, StepsOf
<1>. QED
  BY <1>2, <1>3, <1>4, <1>6, SettingGoesOn, SettingsStay DEF FormTunnel

LEMMA SaveConfigNodes ==
  ASSUME NodeInv, NEW p \in Tasks, SaveConfig(p)
  PROVE  NodeInv'
<1>1. task[p].kind \in {"config", "tunnel"} /\ task[p].step = "save" /\ SettingTask(p, task[p])
  BY StepOfTask, TaskKind DEF SaveConfig, Setting, At
<1>2. SettingsTyped'
  <2>1. saved' \in Form /\ live' = live
    BY <1>1 DEF SaveConfig, SettingTask
  <2>2. wanted' \in Values
    BY <1>1 DEF SaveConfig, SettingTask, Is, Given, NodeInv, TypeInv, SettingsTyped
  <2>3. skewed' \subseteq {"base", "tunnel", "url"}
    BY DEF SaveConfig, NodeInv, TypeInv, SettingsTyped
  <2>. QED
    BY <2>1, <2>2, <2>3 DEF SettingsTyped, NodeInv, TypeInv
<1>3. CASE Broadcast(p)
  <2>1. PICK t : t = [task[p] EXCEPT !.step = "send", !.to = here]
    OBVIOUS
  <2>2. task' = [task EXCEPT ![p] = t]
    BY <1>3, <2>1 DEF Broadcast
  <2>3. "send" \in StepsOf(task[p].kind)
    BY <1>1 DEF StepsOf
  <2>4. task[p] # NoTask /\ task[p].step # "filter" /\ TypeInv
    BY <1>1 DEF NodeInv, NoTask
  <2>5. TaskOK(p, t) /\ t.kind = task[p].kind
    BY <2>1, <2>3, <2>4, BroadcastOK
  <2>. QED
    BY <1>1, <1>2, <2>2, <2>5, SettingGoesOn DEF SaveConfig
<1>4. CASE Ends(p)
  BY <1>1, <1>2, <1>4, EndsCalm DEF SaveConfig
<1>. QED
  BY <1>3, <1>4 DEF SaveConfig

\* A new request for the settings shows in the others for the settings.
LEMMA SetNodes ==
  ASSUME NodeInv, NEW p \in Requests, NEW kind \in {"config", "tunnel"}, NEW ask,
         kind = "config" => ask.base \in Values \cup {0} /\ ask.url \in Values \cup {0},
         kind = "tunnel" => ask.tunnel \in Values,
         Set(p, kind, ask)
  PROVE  NodeInv'
<1>. USE DEF nodeVars, events, settings
<1>1. p \in Tasks /\ task[p] = NoTask
  BY DEF Set, Arrives, Tasks
<1>2. PICK alone : task' = [q \in Tasks |->
         IF q = p THEN [kind |-> kind, step |-> "read", ask |-> ask,
                        form |-> saved, alone |-> alone, to |-> {}]
         ELSE IF Setting(q) THEN [task[q] EXCEPT !.alone = FALSE]
         ELSE task[q]]
  BY DEF Set
<1>3. TaskOK(p, task'[p]) /\ task'[p].kind = kind /\ task'[p].step = "read"
  <2>1. task'[p] = [kind |-> kind, step |-> "read", ask |-> ask,
                    form |-> saved, alone |-> alone, to |-> {}]
    BY <1>1, <1>2
  <2>2. saved \in Form
    BY DEF NodeInv, TypeInv, SettingsTyped
  <2>. QED
    BY <2>1, <2>2 DEF TaskOK, SettingTask, StepsOf
<1>4. ASSUME NEW q \in Tasks, q # p, Setting(q)
      PROVE  TaskOK(q, task'[q]) /\ task'[q].kind = task[q].kind /\ task'[q].step = task[q].step
  <2>1. task'[q] = [task[q] EXCEPT !.alone = FALSE]
    BY <1>2, <1>4
  <2>2. SettingTask(q, task[q]) /\ TaskOK(q, task[q])
    BY <1>4, StepOfTask, TaskKind DEF Setting
  <2>3. /\ DOMAIN task'[q] = DOMAIN task[q] /\ task'[q].kind = task[q].kind
        /\ task'[q].step = task[q].step /\ task'[q].form = task[q].form
        /\ task'[q].ask = task[q].ask /\ task'[q].to = task[q].to
    BY <2>1, <2>2 DEF SettingTask
  <2>. QED
    BY <2>2, <2>3 DEF TaskOK, SettingTask
<1>5. \A q \in Tasks : q # p /\ ~Setting(q) => task'[q] = task[q]
  BY <1>2
<1>6. \A q \in Tasks : TaskOK(q, task'[q])
  BY <1>3, <1>4, <1>5, StepOfTask
<1>7. UNCHANGED <<settings, nodeVars, events>> /\ calls' \in 0..MaxCalls
  BY DashboardAssumption DEF Set, Arrives, NodeInv, TypeInv
<1>8. AllTasksOK'
  <2>1. ASSUME NEW q \in Tasks PROVE TaskOK(q, task[q])'
    BY <1>6, <1>7 DEF TaskOK, SettingTask, NodeTaskOK, PlainTask
  <2>. QED
    BY <1>2, <2>1 DEF AllTasksOK
<1>9. \A q \in Tasks : holder' = q <=> task'[q].kind = "stop" /\ task'[q].step = "closing"
  BY <1>1, <1>3, <1>4, <1>5, <1>7 DEF NodeInv, TypeInv, TasksTyped, Is, At, NoTask, Setting
<1>10. TypeInv'
  BY <1>7, <1>8, <1>9, SettingsStay
  DEF NodeInv, TypeInv, TasksTyped, Is, At, NodesTyped, EventsTyped
<1>11. ASSUME NEW q \in Tasks, task'[q] # task[q]
       PROVE  Calm(q, task'[q]) /\ Found(task'[q])
  <2>1. task'[q].kind \in {"config", "tunnel"} /\ task[q].kind \in {"none", "config", "tunnel"}
    BY <1>1, <1>3, <1>4, <1>5, <1>11 DEF Setting, Is, NoTask
  <2>. QED
    BY <2>1, AboutNothing DEF NodeKinds, Steers
<1>12. NodesOK' /\ PicksFind'
  BY <1>7, <1>11, CalmSteps
<1>. QED
  BY <1>10, <1>12 DEF NodeInv

LEMMA RequestNodes ==
  ASSUME NodeInv, NEW p \in Requests, SetConfig(p) \/ SetTunnel(p)
  PROVE  NodeInv'
<1>1. CASE SetConfig(p)
  <2>1. PICK base, url \in Values \cup {0} : Set(p, "config", [base |-> base, url |-> url])
    BY <1>1 DEF SetConfig
  <2>. QED
    BY <2>1, SetNodes
<1>2. CASE SetTunnel(p)
  <2>1. PICK tunnel \in Values : Set(p, "tunnel", [tunnel |-> tunnel])
    BY <1>2 DEF SetTunnel
  <2>. QED
    BY <2>1, SetNodes
<1>. QED
  BY <1>1, <1>2

-----------------------------------------------------------------------------
(* Calm steps about nodes *)

\* A task about the same nodes, with other flags.
LEMMA NodeTaskKept ==
  ASSUME NodeInv, NEW p \in Tasks, task[p].kind \in NodeKinds, task[p].step # "filter", NEW t,
         DOMAIN t = NodeFields, t.kind = task[p].kind, t.nodes = task[p].nodes,
         \A n \in t.nodes : t.copies[n] \in Latencies \cup {0},
         t.running \in BOOLEAN, t.port \in BOOLEAN,
         t.step \in StepsOf(t.kind), t.step # "send" \/ t.to \subseteq here
  PROVE  TaskOK(p, t) /\ Subjects(t) = Subjects(task[p]) /\ Subjects(t) = t.nodes
         /\ Subjects(t) = {NodeOf(p)}
  BY NodeTaskFields, OneNode DEF TaskOK, NodeTaskOK, Subjects

LEMMA StopNothingNodes ==
  ASSUME NodeInv, NEW p \in Tasks, StopNothing(p)
  PROVE  NodeInv'
<1>1. PICK t : t = [task[p] EXCEPT !.step = "update"]
  OBVIOUS
<1>2. task[p].kind = "stop" /\ task[p].step = "act" /\ NodeOf(p) \notin up
      /\ task[p].kind \in NodeKinds
  BY DEF StopNothing, Is, At, NodeKinds
<1>3. t.step = "update" /\ DOMAIN t = NodeFields /\ t.kind = "stop" /\ t.nodes = task[p].nodes
      /\ t.copies = task[p].copies /\ t.running = task[p].running /\ t.port = task[p].port
  BY <1>1, <1>2, NodeTaskFields DEF NodeFields
<1>4. TaskOK(p, t) /\ Subjects(t) = Subjects(task[p]) /\ Subjects(t) = {NodeOf(p)}
  BY <1>2, <1>3, NodeTaskFields, NodeTaskKept DEF NodeTaskOK, StepsOf
<1>5. \A n \in Subjects(t) \ contended : Knows(t, n)
  BY <1>2, <1>3, <1>4, NodeTaskFields DEF Knows
<1>6. Calm(p, t) /\ Found(t)
  BY <1>2, <1>3, <1>4, <1>5 DEF Calm, Found
<1>. QED
  BY <1>1, <1>2, <1>3, <1>4, <1>6, SettingsStay, CalmStep DEF StopNothing, Goes

\* The clients of the listener are waited for.
LEMMA StopNodeNodes ==
  ASSUME NodeInv, NEW p \in Tasks, StopNode(p)
  PROVE  NodeInv'
<1>. USE DEF events
<1>1. PICK t : t = [task[p] EXCEPT !.step = "closing"]
  OBVIOUS
<1>2. task[p].kind = "stop" /\ task[p].step = "act" /\ task[p].kind \in NodeKinds
      /\ task' = [task EXCEPT ![p] = t]
  BY <1>1 DEF StopNode, Is, At, NodeKinds, Goes
<1>3. t.step = "closing" /\ DOMAIN t = NodeFields /\ t.kind = "stop" /\ t.nodes = task[p].nodes
      /\ t.copies = task[p].copies /\ t.running = task[p].running /\ t.port = task[p].port
  BY <1>1, <1>2, NodeTaskFields DEF NodeFields
<1>4. TaskOK(p, t) /\ Subjects(t) = Subjects(task[p]) /\ Subjects(t) = {NodeOf(p)}
  BY <1>2, <1>3, NodeTaskFields, NodeTaskKept DEF NodeTaskOK, StepsOf
<1>5. \A n \in Subjects(t) \ contended : Knows(t, n)
  BY <1>2, <1>3, <1>4, NodeTaskFields DEF Knows
<1>6. Calm(p, t) /\ Found(t)
  BY <1>2, <1>3, <1>4, <1>5 DEF Calm, Found
<1>7. holder = Nobody /\ holder' = p /\ UNCHANGED <<settings, up, stored, newest, refreshed, contended, events, calls>>
  BY DEF StopNode, Unlocked
<1>8. p \in Requests
  BY <1>2, NodeTaskFields DEF NodeTaskOK
<1>9. NodesOK' /\ PicksFind'
  BY <1>2, <1>6, <1>7, OneTaskCalm
<1>10. TasksTyped'
  BY <1>2, <1>3, <1>4, <1>7, OneTaskTyped DEF NodeInv
<1>11. SettingsTyped' /\ NodesTyped' /\ EventsTyped' /\ calls' \in 0..MaxCalls
  BY <1>7, <1>8, SettingsStay DEF NodeInv, TypeInv, NodesTyped, EventsTyped
<1>. QED
  BY <1>9, <1>10, <1>11 DEF NodeInv, TypeInv

LEMMA AcquireNodes ==
  ASSUME NodeInv, NEW p \in Tasks, Acquire(p)
  PROVE  NodeInv'
<1>1. PICK t : t = [task[p] EXCEPT !.step = "test"]
  OBVIOUS
<1>2. task[p].kind = "test" /\ task[p].step = "queue" /\ task[p].kind \in NodeKinds
  BY StepKind, StepOfTask DEF Acquire, At, NodeKinds
<1>3. t.step = "test" /\ DOMAIN t = NodeFields /\ t.kind = "test" /\ t.nodes = task[p].nodes
      /\ t.copies = task[p].copies /\ t.running = task[p].running /\ t.port = task[p].port
  BY <1>1, <1>2, NodeTaskFields DEF NodeFields
<1>4. TaskOK(p, t) /\ Subjects(t) = Subjects(task[p])
  BY <1>2, <1>3, NodeTaskFields, NodeTaskKept DEF NodeTaskOK, StepsOf
<1>5. Calm(p, t) /\ Found(t)
  BY <1>2, <1>3, <1>4 DEF Calm, Found, Knows, Steers
<1>. QED
  BY <1>1, <1>2, <1>3, <1>4, <1>5, SettingsStay, CalmStep DEF Acquire, Goes

LEMMA TestNodeNodes ==
  ASSUME NodeInv, NEW p \in Tasks, TestNode(p)
  PROVE  NodeInv'
<1>1. PICK latency \in Latencies :
        task' = [task EXCEPT ![p].copies = [n \in task[p].nodes |-> latency],
                             ![p].step = "running"]
  BY DEF TestNode
<1>2. PICK t : t = [task[p] EXCEPT !.copies = [n \in task[p].nodes |-> latency],
                                   !.step = "running"]
  OBVIOUS
<1>3. task[p].kind = "test" /\ task[p].step = "test" /\ task[p].kind \in NodeKinds
  BY StepKind, StepOfTask DEF TestNode, At, NodeKinds
<1>4. t.step = "running" /\ DOMAIN t = NodeFields /\ t.kind = "test" /\ t.nodes = task[p].nodes
      /\ t.copies = [n \in task[p].nodes |-> latency]
      /\ t.running = task[p].running /\ t.port = task[p].port
  BY <1>2, <1>3, NodeTaskFields DEF NodeFields
<1>5. TaskOK(p, t) /\ Subjects(t) = Subjects(task[p])
  BY <1>3, <1>4, NodeTaskFields, NodeTaskKept DEF NodeTaskOK, StepsOf
<1>6. Calm(p, t) /\ Found(t)
  BY <1>3, <1>4, <1>5 DEF Calm, Found, Knows, Steers
<1>. QED
  BY <1>1, <1>2, <1>3, <1>4, <1>5, <1>6, SettingsStay, CalmStep DEF TestNode

LEMMA ReadRunningNodes ==
  ASSUME NodeInv, NEW p \in Tasks, ReadRunning(p)
  PROVE  NodeInv'
<1>1. PICK t : t = [task[p] EXCEPT !.running = NodeOf(p) \in up, !.step = "port"]
  OBVIOUS
<1>2. task[p].kind \in {"test", "pick"} /\ task[p].step = "running" /\ task[p].kind \in NodeKinds
  BY StepKind, StepOfTask DEF ReadRunning, At, NodeKinds
<1>3. t.step = "port" /\ DOMAIN t = NodeFields /\ t.kind = task[p].kind /\ t.nodes = task[p].nodes
      /\ t.copies = task[p].copies /\ t.running = (NodeOf(p) \in up) /\ t.port = task[p].port
      /\ t.cut = task[p].cut /\ t.auto = task[p].auto
  BY <1>1, <1>2, NodeTaskFields DEF NodeFields
<1>4. TaskOK(p, t) /\ Subjects(t) = Subjects(task[p]) /\ Subjects(t) = {NodeOf(p)}
      /\ t.nodes = {NodeOf(p)} /\ t.step # "closing"
  <2>1. t.step \in StepsOf(t.kind) /\ t.step # "send" /\ t.step # "closing"
    BY <1>2, <1>3 DEF StepsOf
  <2>2. /\ \A n \in task[p].nodes : task[p].copies[n] \in Latencies \cup {0}
        /\ task[p].running \in BOOLEAN /\ task[p].port \in BOOLEAN
    BY <1>2, NodeTaskFields DEF NodeTaskOK
  <2>3. t.running \in BOOLEAN /\ t.port \in BOOLEAN
    BY <1>3, <2>2
  <2>4. task[p].step # "filter"
    BY <1>2
  <2>5. TaskOK(p, t) /\ Subjects(t) = Subjects(task[p]) /\ Subjects(t) = t.nodes
        /\ Subjects(t) = {NodeOf(p)}
    BY <1>2, <1>3, <2>1, <2>2, <2>3, <2>4, NodeTaskKept
  <2>. QED
    BY <2>1, <2>5
<1>5. \A n \in Subjects(t) \ contended : Knows(t, n)
  BY <1>2, <1>3, <1>4, NodeTaskFields DEF Knows
<1>6. Found(t)
  BY <1>2, <1>3, <1>4, NodeTaskFields DEF Found
<1>7. Calm(p, t)
  BY <1>2, <1>3, <1>4, <1>5 DEF Calm
<1>. QED
  BY <1>1, <1>2, <1>3, <1>4, <1>6, <1>7, SettingsStay, CalmStep DEF ReadRunning

LEMMA ReadPortNodes ==
  ASSUME NodeInv, NEW p \in Tasks, ReadPort(p)
  PROVE  NodeInv'
<1>1. PICK t : t = [task[p] EXCEPT !.port = NodeOf(p) \in up,
                                   !.step = IF Is(p, "pick") THEN "answer" ELSE "update"]
  OBVIOUS
<1>2. task[p].kind \in {"test", "pick"} /\ task[p].step = "port" /\ task[p].kind \in NodeKinds
  BY StepKind, StepOfTask DEF ReadPort, At, NodeKinds
<1>3. DOMAIN t = NodeFields /\ t.kind = task[p].kind /\ t.nodes = task[p].nodes
      /\ t.copies = task[p].copies /\ t.running = task[p].running /\ t.port = (NodeOf(p) \in up)
      /\ t.cut = task[p].cut /\ t.auto = task[p].auto
      /\ t.step = IF task[p].kind = "pick" THEN "answer" ELSE "update"
  BY <1>1, <1>2, NodeTaskFields DEF NodeFields, Is
<1>4. TaskOK(p, t) /\ Subjects(t) = Subjects(task[p]) /\ Subjects(t) = {NodeOf(p)}
      /\ t.nodes = {NodeOf(p)} /\ t.step # "closing"
  <2>1. t.step \in StepsOf(t.kind) /\ t.step # "send" /\ t.step # "closing"
    BY <1>2, <1>3 DEF StepsOf
  <2>2. /\ \A n \in task[p].nodes : task[p].copies[n] \in Latencies \cup {0}
        /\ task[p].running \in BOOLEAN /\ task[p].port \in BOOLEAN
    BY <1>2, NodeTaskFields DEF NodeTaskOK
  <2>3. t.running \in BOOLEAN /\ t.port \in BOOLEAN
    BY <1>3, <2>2
  <2>4. task[p].step # "filter"
    BY <1>2
  <2>5. TaskOK(p, t) /\ Subjects(t) = Subjects(task[p]) /\ Subjects(t) = t.nodes
        /\ Subjects(t) = {NodeOf(p)}
    BY <1>2, <1>3, <2>1, <2>2, <2>3, <2>4, NodeTaskKept
  <2>. QED
    BY <2>1, <2>5
<1>5. \A n \in Subjects(t) \ contended : Knows(t, n)
  BY <1>2, <1>3, <1>4, NodeTaskFields DEF Knows
<1>6. Found(t)
  BY <1>2, <1>3, <1>4, NodeTaskFields DEF Found
<1>7. Calm(p, t)
  BY <1>2, <1>3, <1>4, <1>5 DEF Calm
<1>. QED
  BY <1>1, <1>2, <1>3, <1>4, <1>6, <1>7, SettingsStay, CalmStep DEF ReadPort

LEMMA FilterNodes ==
  ASSUME NodeInv, NEW p \in Tasks, Filter(p)
  PROVE  NodeInv'
<1>1. PICK n : task' = [task EXCEPT ![p].left = @ \ {n},
                          ![p].nodes = IF task[p].only /\ n \notin up THEN @ \ {n} ELSE @]
  BY DEF Filter
<1>2. PICK t : t = [task[p] EXCEPT !.left = @ \ {n},
                          !.nodes = IF task[p].only /\ n \notin up THEN @ \ {n} ELSE @]
  OBVIOUS
<1>3. task[p].kind = "pick" /\ task[p].step = "filter" /\ task[p].kind \in NodeKinds
  BY StepKind, StepOfTask DEF Filter, At, NodeKinds
<1>4. DOMAIN t = NodeFields /\ t.kind = "pick" /\ t.step = "filter"
      /\ t.nodes \subseteq task[p].nodes /\ t.copies = task[p].copies
      /\ t.running = task[p].running /\ t.port = task[p].port
  BY <1>2, <1>3, NodeTaskFields DEF NodeFields
<1>5. TaskOK(p, t)
  BY <1>3, <1>4, NodeTaskFields DEF TaskOK, NodeTaskOK, StepsOf, NodeKinds
<1>6. \A m \in Subjects(t) \ contended : Knows(t, m)
  BY <1>3, <1>4, NodeTaskFields DEF Knows, Subjects
<1>7. Calm(p, t) /\ Found(t)
  BY <1>3, <1>4, <1>6, NodeTaskFields DEF Calm, Found, Subjects
<1>. QED
  BY <1>1, <1>2, <1>3, <1>4, <1>5, <1>7, SettingsStay, CalmStep DEF Filter

LEMMA ChooseNodes ==
  ASSUME NodeInv, NEW p \in Tasks, Choose(p)
  PROVE  NodeInv'
<1>1. task[p].kind = "pick" /\ task[p].step = "filter" /\ task[p].kind \in NodeKinds
  BY StepKind, StepOfTask DEF Choose, At, NodeKinds
<1>2. CASE Ends(p)
  BY <1>1, <1>2, EndsCalm, SettingsStay DEF Choose
<1>3. ASSUME ~Ends(p) PROVE NodeInv'
  <2>1. PICK n \in Choices(p) :
          task' = [task EXCEPT ![p].nodes = {n},
                               ![p].step = IF task[p].auto THEN "check" ELSE "running"]
    BY <1>3 DEF Choose
  <2>2. PICK t : t = [task[p] EXCEPT !.nodes = {n},
                               !.step = IF task[p].auto THEN "check" ELSE "running"]
    OBVIOUS
  <2>3. DOMAIN t = NodeFields /\ t.kind = "pick" /\ t.nodes = {n}
        /\ t.copies = task[p].copies /\ t.auto = task[p].auto
        /\ t.running = task[p].running /\ t.port = task[p].port
        /\ t.step = IF task[p].auto THEN "check" ELSE "running"
    BY <1>1, <2>2, NodeTaskFields DEF NodeFields
  <2>4. n \in task[p].nodes
    BY <2>1 DEF Choices
  <2>5. t.step \in {"check", "running"}
    BY <2>3
  <2>6. NodeTaskOK(p, t)
    BY <1>1, <2>3, <2>4, NodeTaskFields DEF NodeTaskOK, NodeKinds
  <2>7. TaskOK(p, t)
    BY <2>3, <2>5, <2>6 DEF TaskOK, StepsOf
  <2>8. \A m \in Subjects(t) \ contended : Knows(t, m)
    BY <1>1, <2>3, <2>4, <2>5, NodeTaskFields DEF Knows, Subjects
  <2>9. Found(t)
    BY <2>3, <2>5 DEF Found
  <2>10. Calm(p, t)
    BY <1>1, <2>3, <2>4, <2>8, NodeTaskFields DEF Calm, Subjects
  <2>11. task' = [task EXCEPT ![p] = t]
    BY <2>1, <2>2
  <2>. QED
    BY <1>1, <2>5, <2>7, <2>9, <2>10, <2>11, SettingsStay, CalmStep DEF Choose
<1>. QED
  BY <1>2, <1>3

LEMMA CheckNodes ==
  ASSUME NodeInv, NEW p \in Tasks, Check(p)
  PROVE  NodeInv'
<1>1. PICK step : step = IF NodeOf(p) \in up THEN "running" ELSE "act"
  OBVIOUS
<1>2. PICK t : t = [task[p] EXCEPT !.step = step]
  OBVIOUS
<1>3. task[p].kind = "pick" /\ task[p].step = "check" /\ task[p].kind \in NodeKinds
  BY StepKind, StepOfTask DEF Check, At, NodeKinds
<1>4. DOMAIN t = NodeFields /\ t.kind = "pick" /\ t.nodes = task[p].nodes
      /\ t.copies = task[p].copies /\ t.step = step
      /\ t.running = task[p].running /\ t.port = task[p].port
  BY <1>2, <1>3, NodeTaskFields DEF NodeFields
<1>5. step \in {"running", "act"}
  BY <1>1
<1>6. TaskOK(p, t) /\ Subjects(t) = Subjects(task[p]) /\ t.nodes = {NodeOf(p)}
  BY <1>3, <1>4, <1>5, NodeTaskFields, NodeTaskKept DEF NodeTaskOK, StepsOf
<1>7. \A n \in Subjects(t) \ contended : Knows(t, n)
  BY <1>3, <1>4, <1>5, <1>6, NodeTaskFields DEF Knows
<1>8. Found(t)
  BY <1>1, <1>4, <1>6 DEF Found
<1>9. Calm(p, t)
  BY <1>3, <1>4, <1>6, <1>7 DEF Calm
<1>10. task' = [task EXCEPT ![p] = t]
  BY <1>1, <1>2 DEF Check, Goes
<1>. QED
  BY <1>3, <1>4, <1>5, <1>6, <1>8, <1>9, <1>10, SettingsStay, CalmStep DEF Check

LEMMA AssignNodes ==
  ASSUME NodeInv, NEW p \in Tasks, Assign(p)
  PROVE  NodeInv'
<1>1. PICK t : t = [task[p] EXCEPT !.running = TRUE, !.port = TRUE, !.step = "answer"]
  OBVIOUS
<1>2. task[p].kind = "pick" /\ task[p].step = "assign" /\ task[p].kind \in NodeKinds
  BY StepKind, StepOfTask DEF Assign, At, NodeKinds
<1>3. DOMAIN t = NodeFields /\ t.kind = "pick" /\ t.nodes = task[p].nodes
      /\ t.copies = task[p].copies /\ t.step = "answer" /\ t.running = TRUE /\ t.port = TRUE
  BY <1>1, <1>2, NodeTaskFields DEF NodeFields
<1>4. TaskOK(p, t) /\ Subjects(t) = Subjects(task[p])
  <2>1. t.step \in StepsOf(t.kind) /\ t.step # "send" /\ task[p].step # "filter"
    BY <1>2, <1>3 DEF StepsOf
  <2>2. \A n \in t.nodes : t.copies[n] \in Latencies \cup {0}
    BY <1>2, <1>3, NodeTaskFields DEF NodeTaskOK
  <2>3. t.running \in BOOLEAN /\ t.port \in BOOLEAN
    BY <1>3
  <2>. QED
    BY <1>2, <1>3, <2>1, <2>2, <2>3, NodeTaskKept
<1>5. \A n \in Subjects(t) \ contended : Knows(t, n)
  BY <1>2, <1>3, <1>4, NodeTaskFields DEF Knows
<1>6. Calm(p, t) /\ Found(t)
  BY <1>2, <1>3, <1>4, <1>5 DEF Calm, Found
<1>. QED
  BY <1>1, <1>2, <1>3, <1>4, <1>6, SettingsStay, CalmStep DEF Assign

LEMMA AnswerNodes ==
  ASSUME NodeInv, NEW p \in Tasks, Answer(p)
  PROVE  NodeInv'
  BY EndsCalm, SettingsStay DEF Answer, At

LEMMA WaitNodes ==
  ASSUME NodeInv, NEW t \in Runs, Wait(t)
  PROVE  NodeInv'
<1>1. t \in Tasks
  BY DEF Tasks
<1>2. PICK v : v = [task[t] EXCEPT !.step = "send", !.to = here]
  OBVIOUS
<1>3. task[t].kind = "run" /\ task[t].step = "wait" /\ task[t] # NoTask
  BY <1>1, StepKind, StepOfTask DEF Wait, At, NoTask
<1>4. TaskOK(t, v) /\ v.step = "send" /\ v.kind = "run"
  BY <1>1, <1>2, <1>3, BroadcastOK DEF NodeInv, StepsOf
<1>5. Calm(t, v) /\ Found(v)
  BY <1>3, <1>4, AboutNothing DEF NodeKinds, Steers
<1>. QED
  BY <1>1, <1>2, <1>3, <1>4, <1>5, SettingsStay, CalmStep DEF Wait, Broadcast

-----------------------------------------------------------------------------
(* The dashboards and their events *)

LEMMA SendNodes ==
  ASSUME NodeInv, NEW p \in Tasks, NEW d \in Dashboards, Send(p, d)
  PROVE  NodeInv'
<1>. USE DEF nodeVars
<1>1. PICK t : t = [task[p] EXCEPT !.to = @ \ {d}]
  OBVIOUS
<1>2. task' = [task EXCEPT ![p] = t] /\ task[p].step = "send" /\ d \in task[p].to
  BY <1>1 DEF Send, At
<1>3. TaskOK(p, task[p])
  BY StepOfTask
<1>4. t.kind = task[p].kind /\ t.step = "send" /\ TaskOK(p, t)
  <2>1. CASE SettingTask(p, task[p])
    <3>1. t.kind = task[p].kind /\ t.step = "send" /\ DOMAIN t = DOMAIN task[p]
          /\ t.form = task[p].form /\ t.ask = task[p].ask /\ t.to \subseteq task[p].to
      BY <1>1, <1>2, <2>1 DEF SettingTask
    <3>. QED
      BY <1>2, <1>3, <2>1, <3>1 DEF TaskOK, SettingTask
  <2>2. CASE NodeTaskOK(p, task[p])
    <3>1. t.kind = task[p].kind /\ t.step = "send" /\ DOMAIN t = DOMAIN task[p]
          /\ t.nodes = task[p].nodes /\ t.copies = task[p].copies
          /\ t.running = task[p].running /\ t.port = task[p].port /\ t.to \subseteq task[p].to
      BY <1>1, <1>2, <2>2 DEF NodeTaskOK, NodeFields
    <3>. QED
      BY <1>2, <1>3, <2>2, <3>1 DEF TaskOK, NodeTaskOK
  <2>3. CASE PlainTask(p, task[p])
    <3>1. t.kind = task[p].kind /\ t.step = "send" /\ DOMAIN t = DOMAIN task[p]
          /\ t.to \subseteq task[p].to
      BY <1>1, <1>2, <2>3 DEF PlainTask
    <3>. QED
      BY <1>2, <1>3, <2>3, <3>1 DEF TaskOK, PlainTask
  <2>. QED
    BY <1>2, <1>3, <2>1, <2>2, <2>3 DEF TaskOK, NoTask
<1>5. Calm(p, t) /\ Found(t)
  <2>1. CASE task[p].kind \in NodeKinds
    <3>1. t.nodes = task[p].nodes /\ t.copies = task[p].copies
      BY <1>1, <2>1, NodeTaskFields DEF NodeFields
    <3>2. Subjects(t) = Subjects(task[p])
      BY <1>4, <3>1 DEF Subjects
    <3>3. \A n \in Subjects(t) \ contended : Knows(t, n)
      BY <1>2, <1>4, <2>1, <3>1, <3>2, NodeTaskFields DEF Knows
    <3>. QED
      BY <1>2, <1>4, <3>2, <3>3 DEF Calm, Found
  <2>2. CASE task[p].kind \notin NodeKinds
    BY <1>2, <1>4, <2>2, AboutNothing
  <2>. QED
    BY <2>1, <2>2
<1>6. UNCHANGED <<settings, nodeVars, here, tested, calls>>
  BY DEF Send
<1>7. TasksTyped'
  BY <1>2, <1>4, <1>6, CalmTyped DEF NodeInv
<1>8. NodesOK' /\ PicksFind'
  BY <1>2, <1>5, <1>6, OneTaskCalm
<1>9. EventsTyped'
  <2>1. d \in here /\ EventsTyped
    BY <1>2, <1>3 DEF TaskOK, NodeInv, TypeInv
  <2>2. CASE waiting[d] < Buffer
    BY <1>6, <2>1, <2>2, DashboardAssumption DEF Send, EventsTyped
  <2>3. CASE ~(waiting[d] < Buffer)
    BY <1>6, <2>1, <2>3 DEF Send, EventsTyped
  <2>. QED
    BY <2>2, <2>3
<1>10. SettingsTyped' /\ NodesTyped' /\ calls' \in 0..MaxCalls
  BY <1>6, SettingsStay DEF NodeInv, TypeInv, NodesTyped
<1>. QED
  BY <1>7, <1>8, <1>9, <1>10 DEF NodeInv, TypeInv

LEMMA SentNodes ==
  ASSUME NodeInv, NEW p \in Tasks, Sent(p)
  PROVE  NodeInv'
<1>1. task[p].step = "send" /\ SettingsTyped'
  BY SettingsStay DEF Sent, At
<1>2. CASE Ends(p)
  BY <1>1, <1>2, EndsCalm DEF Sent
<1>3. CASE Is(p, "pick") /\ Goes(p, "assign")
  <2>1. PICK t : t = [task[p] EXCEPT !.step = "assign"]
    OBVIOUS
  <2>2. task[p].kind = "pick" /\ task[p].kind \in NodeKinds
    BY <1>3 DEF Is, NodeKinds
  <2>3. DOMAIN t = NodeFields /\ t.kind = "pick" /\ t.nodes = task[p].nodes
        /\ t.copies = task[p].copies /\ t.step = "assign"
        /\ t.running = task[p].running /\ t.port = task[p].port
    BY <2>1, <2>2, NodeTaskFields DEF NodeFields
  <2>4. TaskOK(p, t) /\ Subjects(t) = Subjects(task[p])
    BY <1>1, <2>2, <2>3, NodeTaskFields, NodeTaskKept DEF NodeTaskOK, StepsOf
  <2>5. \A n \in Subjects(t) \ contended : Knows(t, n)
    BY <2>2, <2>3, <2>4, NodeTaskFields DEF Knows
  <2>6. Calm(p, t) /\ Found(t)
    BY <1>1, <2>2, <2>3, <2>4, <2>5 DEF Calm, Found
  <2>. QED
    BY <1>1, <1>3, <2>1, <2>3, <2>4, <2>6, CalmStep DEF Sent, Goes
<1>. QED
  BY <1>2, <1>3 DEF Sent

LEMMA DashboardsNodes ==
  ASSUME NodeInv, NEW d \in Dashboards, Join(d) \/ Leave(d) \/ Flush(d)
  PROVE  NodeInv'
<1>. USE DEF nodeVars
<1>1. UNCHANGED <<settings, nodeVars, task, calls>>
  BY DEF Join, Leave, Flush
<1>2. AllTasksOK'
  <2>1. ASSUME NEW p \in Tasks PROVE TaskOK(p, task[p])'
    <3>1. TaskOK(p, task[p])
      BY StepOfTask
    <3>2. task[p].step = "send" => here \subseteq here'
      BY DEF Join, Leave, Flush, NoBroadcast, At
    <3>. QED
      BY <1>1, <3>1, <3>2 DEF TaskOK, SettingTask, NodeTaskOK, PlainTask
  <2>. QED
    BY <1>1, <2>1 DEF AllTasksOK, NodeInv, TypeInv, TasksTyped
<1>3. TasksTyped'
  BY <1>1, <1>2 DEF TasksTyped, NodeInv, TypeInv, Is, At
<1>4. NodesOK' /\ PicksFind'
  BY <1>1, CalmSteps
<1>5. EventsTyped'
  BY DashboardAssumption DEF Join, Leave, Flush, EventsTyped, NodeInv, TypeInv
<1>6. SettingsTyped' /\ NodesTyped' /\ calls' \in 0..MaxCalls
  BY <1>1, SettingsStay DEF NodeInv, TypeInv, NodesTyped
<1>. QED
  BY <1>3, <1>4, <1>5, <1>6 DEF NodeInv, TypeInv

-----------------------------------------------------------------------------
(* New tasks about nodes *)

LEMMA AboutSubjects ==
  ASSUME NEW p
  PROVE  About(p) = Subjects(task[p])
  BY DEF About, Subjects, NodeKinds

\* Nobody is about a node that a new start, stop or pick does not spoil ...
LEMMA NobodyContends ==
  ASSUME NEW kind, NEW S, Contends(kind, S), NEW n \in S, n \notin contended',
         NEW q \in Tasks, Steers(kind) \/ Steers(task[q].kind)
  PROVE  n \notin Subjects(task[q])
<1>1. About(q) \cap S \subseteq contended'
  BY DEF Contends
<1>. QED
  BY <1>1, AboutSubjects

\* ... so that it is alone with it.
LEMMA NewSteering ==
  ASSUME NodeInv, NEW kind \in {"start", "stop", "pick"}, NEW S \in SUBSET Nodes,
         NEW p \in Tasks, NEW t, task[p] = NoTask, task' = [task EXCEPT ![p] = t],
         Contends(kind, S), UNCHANGED <<up, stored, newest, refreshed>>,
         t.kind = kind, t.nodes = S, t.copies = [n \in S |-> stored[n].latency],
         ~t.running, ~t.port, t.step \in {"act", "filter"}
  PROVE  NodesOK' /\ PicksFind'
<1>1. DOMAIN task = Tasks /\ contended \subseteq contended'
  BY DEF NodeInv, TypeInv, TasksTyped, AllTasksOK, Contends
<1>2. task'[p] = t /\ (\A q \in Tasks : q # p => task'[q] = task[q]) /\ Subjects(task[p]) = {}
      /\ Subjects(t) = S
  BY <1>1 DEF Subjects, NoTask, NodeKinds
<1>3. ASSUME NEW n \in Nodes \ contended' PROVE (Exclusive(n) /\ Known(n) /\ StoreKnows(n))'
  <2>1. Exclusive(n) /\ Known(n) /\ StoreKnows(n)
    BY <1>1 DEF NodeInv, NodesOK
  <2>2. CASE n \in S
    <3>1. \A q \in Tasks : n \notin Subjects(task[q])
      BY <2>2, NobodyContends DEF Steers
    <3>2. \A q \in Tasks : n \in Subjects(task'[q]) => q = p
      BY <1>2, <3>1
    <3>3. StoreKnows(n)'
      BY <2>1, <3>1 DEF StoreKnows
    <3>4. Knows(t, n)'
      BY <2>1, <2>2 DEF Knows, StoreKnows
    <3>. QED
      BY <1>2, <3>2, <3>3, <3>4 DEF Exclusive, Known, Subjects, Knows
  <2>3. CASE n \notin S
    <3>1. n \notin Subjects(task'[p])
      BY <1>2, <2>3
    <3>. QED
      BY <1>2, <2>1, <3>1 DEF Exclusive, Known, StoreKnows, Subjects, Knows
  <2>. QED
    BY <2>2, <2>3
<1>4. PicksFind'
  <2>1. Found(t)
    BY DEF Found
  <2>. QED
    BY <1>2, <2>1 DEF NodeInv, PicksFind, Found
<1>. QED
  BY <1>3, <1>4 DEF NodesOK

\* New tests of S: nobody starts or stops a node that they do not spoil.
LEMMA NewTests ==
  ASSUME NodeInv, NEW S \in SUBSET Nodes, DOMAIN task' = Tasks,
         Contends("test", S), UNCHANGED <<up, stored, newest, refreshed>>,
         \A q \in Tasks :
           \/ task'[q] = task[q]
           \/ /\ task[q].kind \in {"none", "test", "run"} /\ task'[q].kind \in {"test", "run"}
              /\ task'[q].step \in {"test", "queue", "wait"}
              /\ Subjects(task'[q]) \subseteq S
  PROVE  NodesOK' /\ PicksFind'
<1>1. contended \subseteq contended'
  BY DEF Contends
<1>2. \A q \in Tasks : Steers(task[q].kind) \/ Steers(task'[q].kind) => task'[q] = task[q]
  BY DEF Steers
<1>3. ASSUME NEW n \in Nodes \ contended' PROVE (Exclusive(n) /\ Known(n) /\ StoreKnows(n))'
  <2>1. Exclusive(n) /\ Known(n) /\ StoreKnows(n)
    BY <1>1 DEF NodeInv, NodesOK
  <2>2. ASSUME NEW q \in Tasks, task'[q] # task[q], n \in Subjects(task'[q])
        PROVE  \A r \in Tasks : n \in Subjects(task[r]) => ~Steers(task[r].kind)
    BY <2>2, NobodyContends
  <2>3. \A r \in Tasks : n \in Subjects(task'[r]) /\ Steers(task'[r].kind) =>
          task'[r] = task[r] /\ n \in Subjects(task[r]) /\ Steers(task[r].kind)
    BY <1>2
  <2>4. ASSUME NEW q \in Tasks, NEW r \in Tasks, n \in Subjects(task'[q]),
               n \in Subjects(task'[r]), Steers(task'[q].kind)
        PROVE  q = r
    <3>1. task'[q] = task[q] /\ n \in Subjects(task[q]) /\ Steers(task[q].kind)
      BY <2>3, <2>4
    <3>2. task'[r] = task[r]
      BY <2>2, <2>4, <3>1
    <3>. QED
      BY <2>1, <2>4, <3>1, <3>2 DEF Exclusive
  <2>5. Exclusive(n)'
    BY <2>4 DEF Exclusive, Subjects
  <2>6. ASSUME NEW q \in Tasks, n \in Subjects(task'[q]) PROVE Knows(task'[q], n)
    <3>1. CASE task'[q] = task[q]
      BY <2>1, <2>6, <3>1 DEF Known
    <3>2. CASE task'[q] # task[q]
      BY <3>2 DEF Knows, Steers
    <3>. QED
      BY <3>1, <3>2
  <2>7. Known(n)'
    BY <2>6 DEF Known, Knows, Subjects
  <2>8. StoreKnows(n)'
    BY <1>2, <2>1 DEF StoreKnows, Subjects
  <2>. QED
    BY <2>5, <2>7, <2>8
<1>4. PicksFind'
  BY DEF NodeInv, PicksFind, Found
<1>. QED
  BY <1>3, <1>4 DEF NodesOK

LEMMA ContendsTyped ==
  ASSUME NodeInv, NEW kind, NEW S \in SUBSET Nodes, Contends(kind, S),
         UNCHANGED <<up, holder, stored, newest, refreshed>>
  PROVE  NodesTyped'
<1>1. contended' \subseteq Nodes
  BY DEF Contends, NodeInv, TypeInv, NodesTyped
<1>. QED
  BY <1>1 DEF NodesTyped, NodeInv, TypeInv

\* The value of a new task about nodes, field by field.
Fresh(t, kind, step, S) ==
  /\ DOMAIN t = NodeFields /\ t.kind = kind /\ t.step = step /\ t.nodes = S
  /\ t.copies = [n \in S |-> stored[n].latency]
  /\ \A n \in S : t.copies[n] \in Latencies \cup {0}
  /\ t.running = FALSE /\ t.port = FALSE
  /\ t.running \in BOOLEAN /\ t.port \in BOOLEAN

LEMMA NewTask ==
  ASSUME NodeInv, NEW kind, NEW step, NEW S \in SUBSET Nodes, NEW t,
         t = NodeTask(kind, step, S)
  PROVE  Fresh(t, kind, step, S)
<1>1. DOMAIN t = NodeFields
  BY DEF NodeTask, NodeFields
<1>2. t.kind = kind /\ t.step = step /\ t.nodes = S /\ t.running = FALSE /\ t.port = FALSE
      /\ t.copies = [n \in S |-> stored[n].latency]
  BY DEF NodeTask
<1>3. \A n \in S : t.copies[n] \in Latencies \cup {0}
  BY <1>2 DEF NodeInv, TypeInv, NodesTyped
<1>. QED
  BY <1>1, <1>2, <1>3 DEF Fresh

LEMMA ActNodes ==
  ASSUME NodeInv, NEW p \in Requests, NEW kind \in {"start", "stop", "test"}, NEW n \in Nodes,
         Act(p, kind, n)
  PROVE  NodeInv'
<1>. USE DEF events
<1>1. PICK step : step = IF kind = "test" THEN "test" ELSE "act"
  OBVIOUS
<1>2. PICK t : t = NodeTask(kind, step, {n})
  OBVIOUS
<1>3. p \in Tasks /\ task[p] = NoTask /\ task' = [task EXCEPT ![p] = t]
      /\ UNCHANGED <<settings, up, holder, stored, newest, refreshed, events>> /\ Contends(kind, {n})
  BY <1>1, <1>2 DEF Act, Arrives, Tasks
<1>4. kind \in NodeKinds
  BY DEF NodeKinds
<1>5. /\ DOMAIN t = NodeFields /\ t.kind = kind /\ t.step = step /\ t.nodes = {n}
      /\ t.copies = [m \in {n} |-> stored[m].latency]
      /\ \A m \in {n} : t.copies[m] \in Latencies \cup {0}
      /\ t.running = FALSE /\ t.port = FALSE /\ t.running \in BOOLEAN /\ t.port \in BOOLEAN
  <2>1. Fresh(t, kind, step, {n})
    BY <1>2, NewTask
  <2>. QED
    BY <2>1 DEF Fresh
<1>6. NodeTaskOK(p, t)
  BY <1>4, <1>5 DEF NodeTaskOK
<1>7. step \in StepsOf(kind) /\ step \notin {"send", "closing"}
  BY <1>1 DEF StepsOf
<1>8. TaskOK(p, t) /\ t.step # "closing"
  BY <1>5, <1>6, <1>7 DEF TaskOK
<1>9. TasksTyped'
  BY <1>3, <1>8, CalmTyped, NoTaskOK DEF NodeInv
<1>10. NodesOK' /\ PicksFind'
  <2>1. CASE kind = "test"
    <3>1. step = "test"
      BY <1>1, <2>1
    <3>2. \A q \in Tasks : q # p => task'[q] = task[q]
      BY <1>3 DEF NodeInv, TypeInv, TasksTyped, AllTasksOK
    <3>3. task'[p] = t /\ task[p].kind = "none" /\ DOMAIN task' = Tasks
      BY <1>3 DEF NodeInv, TypeInv, TasksTyped, AllTasksOK, NoTask
    <3>4. Subjects(t) = {n}
      BY <1>4, <1>5 DEF Subjects
    <3>. QED
      BY <1>3, <1>5, <2>1, <3>1, <3>2, <3>3, <3>4, NewTests
  <2>2. CASE kind # "test"
    <3>1. step = "act"
      BY <1>1, <2>2
    <3>. QED
      BY <1>3, <1>5, <2>2, <3>1, NewSteering
  <2>. QED
    BY <2>1, <2>2
<1>11. SettingsTyped' /\ NodesTyped' /\ EventsTyped'
  BY <1>3, SettingsStay, ContendsTyped DEF NodeInv, TypeInv, EventsTyped
<1>12. calls' \in 0..MaxCalls
  BY DashboardAssumption DEF Act, Arrives, NodeInv, TypeInv
<1>. QED
  BY <1>9, <1>10, <1>11, <1>12 DEF NodeInv, TypeInv

LEMMA PickNodes ==
  ASSUME NodeInv, NEW p \in Requests, NEW S \in SUBSET Nodes, NEW only, NEW auto,
         Pick(p, S, only, auto)
  PROVE  NodeInv'
<1>. USE DEF events
<1>1. PICK u : u = NodeTask("pick", "filter", S)
  OBVIOUS
<1>2. PICK t : t = [u EXCEPT !.only = only, !.auto = auto, !.left = S]
  OBVIOUS
<1>3. p \in Tasks /\ task[p] = NoTask /\ task' = [task EXCEPT ![p] = t]
      /\ UNCHANGED <<settings, up, holder, stored, newest, refreshed, events>> /\ Contends("pick", S)
  BY <1>1, <1>2 DEF Pick, Arrives, Tasks
<1>4. "pick" \in NodeKinds
  BY DEF NodeKinds
<1>5. /\ DOMAIN u = NodeFields /\ u.kind = "pick" /\ u.step = "filter" /\ u.nodes = S
      /\ u.copies = [m \in S |-> stored[m].latency]
      /\ \A m \in S : u.copies[m] \in Latencies \cup {0}
      /\ u.running = FALSE /\ u.port = FALSE
  <2>1. Fresh(u, "pick", "filter", S)
    BY <1>1, NewTask
  <2>. QED
    BY <2>1 DEF Fresh
<1>6. /\ DOMAIN t = NodeFields /\ t.kind = "pick" /\ t.step = "filter" /\ t.nodes = S
      /\ t.copies = u.copies /\ t.running = FALSE /\ t.port = FALSE
  BY <1>2, <1>5 DEF NodeFields
<1>7. NodeTaskOK(p, t)
  BY <1>4, <1>5, <1>6 DEF NodeTaskOK
<1>8. TaskOK(p, t) /\ t.step # "closing"
  BY <1>6, <1>7 DEF TaskOK, StepsOf
<1>9. TasksTyped'
  BY <1>3, <1>8, CalmTyped, NoTaskOK DEF NodeInv
<1>10. NodesOK' /\ PicksFind'
  BY <1>3, <1>5, <1>6, NewSteering
<1>11. SettingsTyped' /\ NodesTyped' /\ EventsTyped'
  BY <1>3, SettingsStay, ContendsTyped DEF NodeInv, TypeInv, EventsTyped
<1>12. calls' \in 0..MaxCalls
  BY DashboardAssumption DEF Pick, Arrives, NodeInv, TypeInv
<1>. QED
  BY <1>9, <1>10, <1>11, <1>12 DEF NodeInv, TypeInv

\* A refresh says of its nodes that they are stopped and untested, and nobody
\* who starts or stops one of them is left unspoilt.
LEMMA RefreshNodes ==
  ASSUME NodeInv, NEW p \in Requests, NEW S \in SUBSET Nodes, Refresh(p, S)
  PROVE  NodeInv'
<1>. USE DEF events
<1>1. PICK t : t = [kind |-> "refresh", step |-> "send", to |-> here]
  OBVIOUS
<1>2. p \in Tasks /\ task[p] = NoTask /\ task' = [task EXCEPT ![p] = t]
      /\ UNCHANGED <<settings, up, holder, events>> /\ Contends("refresh", S)
      /\ refreshed' = refreshed \cup S
      /\ stored' = [n \in Nodes |-> IF n \in S
                                   THEN [running |-> FALSE, port |-> FALSE, latency |-> 0]
                                   ELSE stored[n]]
      /\ newest' = [n \in Nodes |-> IF n \in S THEN 0 ELSE newest[n]]
  BY <1>1 DEF Refresh, Arrives, Tasks
<1>3. t.kind = "refresh" /\ t.step = "send" /\ t.to = here /\ DOMAIN t = {"kind", "step", "to"}
  BY <1>1
<1>4. TaskOK(p, t)
  BY <1>3 DEF TaskOK, PlainTask, StepsOf
<1>5. TasksTyped'
  BY <1>2, <1>3, <1>4, CalmTyped, NoTaskOK DEF NodeInv
<1>6. NodesTyped'
  <2>1. [running |-> FALSE, port |-> FALSE, latency |-> 0]
          \in [running : BOOLEAN, port : BOOLEAN, latency : Latencies \cup {0}]
    OBVIOUS
  <2>2. stored' \in [Nodes -> [running : BOOLEAN, port : BOOLEAN, latency : Latencies \cup {0}]]
    BY <1>2, <2>1 DEF NodeInv, TypeInv, NodesTyped
  <2>3. newest' \in [Nodes -> Latencies \cup {0}] /\ contended' \subseteq Nodes
    BY <1>2 DEF Contends, NodeInv, TypeInv, NodesTyped
  <2>. QED
    BY <1>2, <2>2, <2>3 DEF NodeInv, TypeInv, NodesTyped
<1>7. task'[p] = t /\ Subjects(t) = {} /\ Subjects(task[p]) = {}
      /\ (\A q \in Tasks : q # p => task'[q] = task[q]) /\ contended \subseteq contended'
  BY <1>2, <1>3 DEF NodeInv, TypeInv, TasksTyped, AllTasksOK, Subjects, NodeKinds, NoTask, Contends
<1>8. ASSUME NEW n \in Nodes \ contended' PROVE (Exclusive(n) /\ Known(n) /\ StoreKnows(n))'
  <2>1. Exclusive(n) /\ Known(n) /\ StoreKnows(n)
    BY <1>7 DEF NodeInv, NodesOK
  <2>2. Exclusive(n)'
    BY <1>7, <2>1 DEF Exclusive
  <2>3. CASE n \in S
    <3>1. \A q \in Tasks : n \in Subjects(task[q]) => ~Steers(task[q].kind)
      BY <1>2, <2>3, NobodyContends
    <3>2. ASSUME NEW q \in Tasks, n \in Subjects(task'[q]) PROVE Knows(task[q], n)'
      <4>1. task'[q] = task[q] /\ n \in Subjects(task[q]) /\ Knows(task[q], n)
        BY <1>7, <2>1, <3>2 DEF Known
      <4>. QED
        BY <1>2, <3>1, <4>1 DEF Knows
    <3>3. Known(n)'
      BY <3>2 DEF Known, Subjects
    <3>4. StoreKnows(n)'
      BY <1>2, <2>3 DEF StoreKnows
    <3>. QED
      BY <2>2, <3>3, <3>4
  <2>4. CASE n \notin S
    <3>1. stored'[n] = stored[n] /\ newest'[n] = newest[n] /\ (n \in refreshed' <=> n \in refreshed)
      BY <1>2, <2>4
    <3>2. Known(n)'
      BY <1>2, <1>7, <2>1, <3>1 DEF Known, Knows, Subjects
    <3>3. StoreKnows(n)'
      BY <1>2, <1>7, <2>1, <3>1 DEF StoreKnows, Subjects
    <3>. QED
      BY <2>2, <3>2, <3>3
  <2>. QED
    BY <2>3, <2>4
<1>9. NodesOK'
  BY <1>8 DEF NodesOK
<1>10. PicksFind'
  BY <1>2, <1>3, <1>7 DEF NodeInv, PicksFind, Found
<1>11. SettingsTyped' /\ EventsTyped'
  BY <1>2, SettingsStay DEF NodeInv, TypeInv, EventsTyped
<1>12. calls' \in 0..MaxCalls
  BY DashboardAssumption DEF Refresh, Arrives, NodeInv, TypeInv
<1>. QED
  BY <1>5, <1>6, <1>9, <1>10, <1>11, <1>12 DEF NodeInv, TypeInv

\* A run starts its tests all at once.
LEMMA RunNodes ==
  ASSUME NodeInv, NEW t \in Runs, NEW S \in SUBSET Nodes, RunTests(t, S)
  PROVE  NodeInv'
<1>1. t \in Tasks /\ task[t] = NoTask /\ UNCHANGED <<settings, up, holder, stored, newest, refreshed, here, waiting>>
      /\ Contends("test", S)
  BY DEF RunTests, Arrives, Tasks
<1>2. DOMAIN task' = Tasks
  BY DEF RunTests
<1>3. PICK v : v = [kind |-> "run", step |-> "wait", to |-> {}]
  OBVIOUS
<1>4. v.kind = "run" /\ v.step = "wait" /\ PlainTask(t, v)
  BY <1>3 DEF PlainTask
<1>5. task'[t] = v
  BY <1>1, <1>3 DEF RunTests
<1>6. ASSUME NEW p \in Tasks, p # t, ~(p \in Workers /\ p[1] = t /\ p[2] \in S)
      PROVE  task'[p] = task[p]
  BY <1>6 DEF RunTests
<1>7. ASSUME NEW p \in Tasks, p # t, p \in Workers, p[1] = t, p[2] \in S
      PROVE  /\ NodeTaskOK(p, task'[p]) /\ task'[p].kind = "test" /\ task'[p].step = "queue"
             /\ Subjects(task'[p]) = {p[2]}
  <2>1. task'[p] = NodeTask("test", "queue", {p[2]})
    BY <1>7 DEF RunTests
  <2>2. {p[2]} \in SUBSET Nodes
    BY <1>7
  <2>3. Fresh(task'[p], "test", "queue", {p[2]})
    BY <2>1, <2>2, NewTask
  <2>. QED
    BY <1>7, <2>2, <2>3 DEF Fresh, NodeTaskOK, NodeKinds, Subjects
<1>8. \A p \in Workers : task[p].kind \in {"none", "test"}
  <2>1. ASSUME NEW p \in Workers PROVE task[p].kind \in {"none", "test"}
    <3>1. p \in Tasks /\ p \notin Requests /\ p \notin Runs
      BY DashboardAssumption DEF Tasks, Workers
    <3>2. TaskOK(p, task[p])
      BY <3>1, StepOfTask
    <3>. QED
      BY <3>1, <3>2 DEF TaskOK, SettingTask, NodeTaskOK, PlainTask, NoTask
  <2>. QED
    BY <2>1
<1>9. ASSUME NEW p \in Tasks
      PROVE  TaskOK(p, task'[p]) /\ (task'[p] = task[p] \/ task'[p].step \in {"wait", "queue"})
  <2>1. CASE p = t
    BY <1>4, <1>5, <2>1 DEF TaskOK, StepsOf
  <2>2. CASE p # t /\ p \in Workers /\ p[1] = t /\ p[2] \in S
    BY <1>7, <2>2 DEF TaskOK, StepsOf
  <2>3. CASE p # t /\ ~(p \in Workers /\ p[1] = t /\ p[2] \in S)
    BY <1>6, <2>3, StepOfTask
  <2>. QED
    BY <2>1, <2>2, <2>3
<1>10. AllTasksOK'
  <2>1. ASSUME NEW p \in Tasks PROVE TaskOK(p, task[p])'
    BY <1>1, <1>9 DEF TaskOK, SettingTask, NodeTaskOK, PlainTask
  <2>. QED
    BY <1>2, <2>1 DEF AllTasksOK
<1>11. TasksTyped'
  <2>1. \A p \in Tasks : holder = p <=> task[p].kind = "stop" /\ task[p].step = "closing"
    BY DEF NodeInv, TypeInv, TasksTyped, Is, At
  <2>2. ASSUME NEW p \in Tasks, task'[p] # task[p]
        PROVE  task[p].kind # "stop" /\ task'[p].step # "closing"
    <3>1. task'[p].step # "closing"
      BY <1>9, <2>2
    <3>2. p = t \/ p \in Workers
      BY <1>6, <2>2
    <3>. QED
      BY <1>1, <1>8, <3>1, <3>2 DEF NoTask
  <2>3. \A p \in Tasks : holder' = p <=> task'[p].kind = "stop" /\ task'[p].step = "closing"
    BY <1>1, <2>1, <2>2
  <2>. QED
    BY <1>10, <2>3 DEF TasksTyped, Is, At
<1>12. NodesOK' /\ PicksFind'
  <2>1. ASSUME NEW q \in Tasks, task'[q] # task[q]
        PROVE  /\ task[q].kind \in {"none", "test", "run"} /\ task'[q].kind \in {"test", "run"}
               /\ task'[q].step \in {"test", "queue", "wait"}
               /\ Subjects(task'[q]) \subseteq S
    <3>1. CASE q = t
      BY <1>1, <1>4, <1>5, <3>1 DEF Subjects, NoTask, NodeKinds
    <3>2. CASE q # t
      <4>1. q \in Workers /\ q[1] = t /\ q[2] \in S
        BY <1>6, <2>1, <3>2
      <4>. QED
        BY <1>7, <1>8, <3>2, <4>1
    <3>. QED
      BY <3>1, <3>2
  <2>. QED
    BY <1>1, <1>2, <2>1, NewTests
<1>13. NodesTyped' /\ SettingsTyped'
  BY <1>1, SettingsStay, ContendsTyped
<1>14. EventsTyped'
  BY <1>1 DEF RunTests, EventsTyped, NodeInv, TypeInv
<1>15. calls' \in 0..MaxCalls
  BY DashboardAssumption DEF RunTests, Arrives, NodeInv, TypeInv
<1>. QED
  BY <1>11, <1>12, <1>13, <1>14, <1>15 DEF NodeInv, TypeInv

-----------------------------------------------------------------------------
(* Steps that change the nodes *)

\* Of a node that one task is about and that is not contended another knows
\* nothing that the first may change.
LEMMA AloneWith ==
  ASSUME NodeInv, NEW p \in Tasks, NEW n \in Nodes \ contended,
         n \in Subjects(task[p]), Steers(task[p].kind),
         NEW q \in Tasks, n \in Subjects(task[q])
  PROVE  q = p
  BY DEF NodeInv, NodesOK, Exclusive

LEMMA StartNodeNodes ==
  ASSUME NodeInv, NEW p \in Tasks, StartNode(p)
  PROVE  NodeInv'
<1>. USE DEF events
<1>1. task[p].kind \in {"start", "pick"} /\ task[p].step = "act" /\ task[p].kind \in NodeKinds
  BY DEF StartNode, At, NodeKinds
<1>2. UNCHANGED <<settings, holder, stored, contended, newest, refreshed, events, calls>>
  BY DEF StartNode
<1>3. NodeOf(p) \in Nodes /\ task[p].nodes = {NodeOf(p)} /\ Subjects(task[p]) = {NodeOf(p)}
  BY <1>1, OneNode, NodeTaskFields
<1>4. SettingsTyped'
  BY <1>2, SettingsStay
<1>5. CASE NodeOf(p) \notin up /\ UNCHANGED up /\ Ends(p)
  BY <1>1, <1>2, <1>4, <1>5, EndsCalm DEF nodeVars
<1>6. CASE NodeOf(p) \notin up /\ UNCHANGED up /\ ~Is(p, "pick") /\ Goes(p, "update")
  <2>1. PICK t : t = [task[p] EXCEPT !.step = "update"]
    OBVIOUS
  <2>2. task[p].kind = "start"
    BY <1>1, <1>6 DEF Is
  <2>3. DOMAIN t = NodeFields /\ t.kind = "start" /\ t.nodes = task[p].nodes
        /\ t.copies = task[p].copies /\ t.step = "update"
        /\ t.running = task[p].running /\ t.port = task[p].port
    BY <1>1, <2>1, <2>2, NodeTaskFields DEF NodeFields
  <2>4. TaskOK(p, t) /\ Subjects(t) = Subjects(task[p])
    BY <1>1, <2>2, <2>3, NodeTaskFields, NodeTaskKept DEF NodeTaskOK, StepsOf
  <2>5. \A n \in Subjects(t) \ contended : Knows(t, n)
    BY <1>1, <1>3, <1>6, <2>2, <2>3, <2>4, NodeTaskFields DEF Knows
  <2>6. Calm(p, t) /\ Found(t)
    BY <1>1, <2>2, <2>3, <2>4, <2>5 DEF Calm, Found
  <2>7. task' = [task EXCEPT ![p] = t]
    BY <1>6, <2>1 DEF Goes
  <2>. QED
    BY <1>1, <1>2, <1>4, <1>6, <2>3, <2>4, <2>6, <2>7, CalmStep DEF nodeVars
<1>7. CASE /\ up' = up \cup {NodeOf(p)}
           /\ task' = [task EXCEPT ![p].step = "update", ![p].running = TRUE, ![p].port = TRUE,
                                   ![p].owns = NodeOf(p) \notin up]
  <2>1. PICK t : t = [task[p] EXCEPT !.step = "update", !.running = TRUE, !.port = TRUE,
                                     !.owns = NodeOf(p) \notin up]
    OBVIOUS
  <2>2. DOMAIN t = NodeFields /\ t.kind = task[p].kind /\ t.nodes = task[p].nodes
        /\ t.copies = task[p].copies /\ t.step = "update" /\ t.running = TRUE /\ t.port = TRUE
    BY <1>1, <2>1, NodeTaskFields DEF NodeFields
  <2>3. TaskOK(p, t) /\ Subjects(t) = Subjects(task[p])
    <3>1. t.step \in StepsOf(t.kind) /\ t.step # "send" /\ task[p].step # "filter"
      BY <1>1, <2>2 DEF StepsOf
    <3>2. \A n \in t.nodes : t.copies[n] \in Latencies \cup {0}
      BY <1>1, <2>2, NodeTaskFields DEF NodeTaskOK
    <3>3. t.running \in BOOLEAN /\ t.port \in BOOLEAN
      BY <2>2
    <3>. QED
      BY <1>1, <2>2, <3>1, <3>2, <3>3, NodeTaskKept
  <2>4. task' = [task EXCEPT ![p] = t]
    BY <1>7, <2>1
  <2>5. TasksTyped'
    BY <1>1, <1>2, <2>2, <2>3, <2>4, CalmTyped DEF NodeInv
  <2>6. task'[p] = t /\ \A q \in Tasks : q # p => task'[q] = task[q]
    BY <2>4 DEF NodeInv, TypeInv, TasksTyped, AllTasksOK
  <2>7. ASSUME NEW n \in Nodes \ contended PROVE (Exclusive(n) /\ Known(n) /\ StoreKnows(n))'
    <3>1. Exclusive(n) /\ Known(n) /\ StoreKnows(n)
      BY DEF NodeInv, NodesOK
    <3>2. Exclusive(n)'
      BY <2>2, <2>3, <2>6, <3>1 DEF Exclusive, Subjects
    <3>3. CASE n = NodeOf(p)
      <4>1. \A q \in Tasks : n \in Subjects(task[q]) => q = p
        BY <1>1, <1>3, <3>3, AloneWith DEF Steers
      <4>2. Knows(t, n)'
        BY <1>1, <1>2, <1>3, <1>7, <2>2, <3>1, <3>3 DEF Knows, Known, Steers
      <4>3. Known(n)'
        BY <2>6, <4>1, <4>2 DEF Known, Knows, Subjects
      <4>4. StoreKnows(n)'
        BY <1>1, <1>2, <1>3, <2>2, <2>3, <2>6, <3>1, <3>3 DEF StoreKnows, Subjects, Steers
      <4>. QED
        BY <3>2, <4>3, <4>4
    <3>4. CASE n # NodeOf(p)
      <4>1. n \notin Subjects(task[p]) /\ n \notin Subjects(t) /\ (n \in up' <=> n \in up)
        BY <1>3, <1>7, <2>3, <3>4
      <4>2. Known(n)'
        BY <1>2, <2>6, <3>1, <4>1 DEF Known, Knows, Subjects
      <4>3. StoreKnows(n)'
        BY <1>2, <2>6, <3>1, <4>1 DEF StoreKnows, Subjects
      <4>. QED
        BY <3>2, <4>2, <4>3
    <3>. QED
      BY <3>3, <3>4
  <2>8. NodesOK'
    BY <1>2, <2>7 DEF NodesOK
  <2>9. PicksFind'
    BY <1>7, <2>2, <2>6 DEF NodeInv, PicksFind, Found
  <2>10. NodesTyped' /\ EventsTyped' /\ calls' \in 0..MaxCalls
    BY <1>2, <1>3, <1>7 DEF NodeInv, TypeInv, NodesTyped, EventsTyped
  <2>. QED
    BY <1>4, <2>5, <2>8, <2>9, <2>10 DEF NodeInv, TypeInv
<1>. QED
  BY <1>5, <1>6, <1>7 DEF StartNode

\* A stop reaches into the copies of the picks of its node.
LEMMA ForgetNodes ==
  ASSUME NodeInv, NEW p \in Tasks, Forget(p)
  PROVE  NodeInv'
<1>. USE DEF events
<1>1. task[p].kind = "stop" /\ task[p].step = "closing" /\ task[p].kind \in NodeKinds
  BY DEF Forget, Is, At, NodeKinds
<1>2. UNCHANGED <<settings, stored, contended, newest, refreshed, events, calls>>
      /\ up' = up \ {NodeOf(p)} /\ holder' = Nobody
  BY DEF Forget
<1>3. NodeOf(p) \in Nodes /\ task[p].nodes = {NodeOf(p)} /\ Subjects(task[p]) = {NodeOf(p)}
  BY <1>1, OneNode, NodeTaskFields
<1>4. PICK running, port \in BOOLEAN :
        task' = [q \in Tasks |->
          IF q = p THEN [task[p] EXCEPT !.step = "update"]
          ELSE IF ~Is(q, "pick") \/ NodeOf(p) \notin task[q].nodes THEN task[q]
          ELSE IF task[q].owns /\ At(q, "answer")
               THEN [task[q] EXCEPT !.cut = TRUE, !.running = running, !.port = port]
          ELSE [task[q] EXCEPT !.cut = TRUE]]
  BY DEF Forget
<1>5. /\ DOMAIN task'[p] = NodeFields /\ task'[p].kind = "stop" /\ task'[p].nodes = task[p].nodes
      /\ task'[p].copies = task[p].copies /\ task'[p].step = "update"
      /\ task'[p].running = task[p].running /\ task'[p].port = task[p].port
  <2>1. task'[p] = [task[p] EXCEPT !.step = "update"]
    BY <1>4
  <2>. QED
    BY <1>1, <2>1, NodeTaskFields DEF NodeFields
<1>6. TaskOK(p, task'[p]) /\ Subjects(task'[p]) = Subjects(task[p])
  <2>1. task'[p].step \in StepsOf(task'[p].kind)
    BY <1>5 DEF StepsOf
  <2>. QED
    BY <1>1, <1>5, <2>1, NodeTaskFields DEF TaskOK, NodeTaskOK, Subjects
<1>7. ASSUME NEW q \in Tasks, q # p, task[q].kind = "pick", NodeOf(p) \in task[q].nodes
      PROVE  /\ DOMAIN task'[q] = NodeFields /\ task'[q].kind = "pick"
             /\ task'[q].step = task[q].step /\ task'[q].nodes = task[q].nodes
             /\ task'[q].copies = task[q].copies /\ task'[q].to = task[q].to
             /\ task'[q].cut = TRUE
             /\ task'[q].running \in BOOLEAN /\ task'[q].port \in BOOLEAN
             /\ task[q].step # "answer" => task'[q].running = task[q].running
                                           /\ task'[q].port = task[q].port
  <2>1. NodeTaskOK(q, task[q])
    BY <1>7, NodeTaskFields DEF NodeKinds
  <2>2. CASE task[q].owns /\ At(q, "answer")
    <3>1. task'[q] = [task[q] EXCEPT !.cut = TRUE, !.running = running, !.port = port]
      BY <1>4, <1>7, <2>2 DEF Is
    <3>. QED
      BY <1>7, <2>1, <2>2, <3>1 DEF NodeTaskOK, NodeFields, At
  <2>3. CASE ~(task[q].owns /\ At(q, "answer"))
    <3>1. task'[q] = [task[q] EXCEPT !.cut = TRUE]
      BY <1>4, <1>7, <2>3 DEF Is
    <3>. QED
      BY <1>7, <2>1, <3>1 DEF NodeTaskOK, NodeFields
  <2>. QED
    BY <2>2, <2>3
<1>8. ASSUME NEW q \in Tasks, q # p, ~(task[q].kind = "pick" /\ NodeOf(p) \in task[q].nodes)
      PROVE  task'[q] = task[q]
  BY <1>4, <1>8 DEF Is
<1>9. ASSUME NEW q \in Tasks, q # p
      PROVE  /\ TaskOK(q, task'[q]) /\ task'[q].kind = task[q].kind
             /\ task'[q].step = task[q].step /\ Subjects(task'[q]) = Subjects(task[q])
  <2>1. CASE task[q].kind = "pick" /\ NodeOf(p) \in task[q].nodes
    <3>1. NodeTaskOK(q, task[q]) /\ TaskOK(q, task[q])
      BY <2>1, NodeTaskFields, StepOfTask DEF NodeKinds
    <3>2. NodeTaskOK(q, task'[q])
      BY <1>7, <1>9, <2>1, <3>1 DEF NodeTaskOK
    <3>. QED
      BY <1>7, <1>9, <2>1, <3>1, <3>2 DEF TaskOK, Subjects
  <2>2. CASE ~(task[q].kind = "pick" /\ NodeOf(p) \in task[q].nodes)
    BY <1>8, <1>9, <2>2, StepOfTask
  <2>. QED
    BY <2>1, <2>2
<1>10. TasksTyped'
  <2>1. DOMAIN task' = Tasks
    BY <1>4
  <2>2. ASSUME NEW q \in Tasks PROVE TaskOK(q, task[q])'
    <3>1. TaskOK(q, task'[q])
      BY <1>6, <1>9
    <3>. QED
      BY <1>2, <3>1 DEF TaskOK, SettingTask, NodeTaskOK, PlainTask
  <2>3. ASSUME NEW q \in Tasks PROVE ~(task'[q].kind = "stop" /\ task'[q].step = "closing")
    <3>1. holder = p /\ (holder = q <=> task[q].kind = "stop" /\ task[q].step = "closing")
      BY <1>1 DEF NodeInv, TypeInv, TasksTyped, Is, At
    <3>. QED
      BY <1>5, <1>9, <3>1
  <2>4. Nobody \notin Tasks
    BY DashboardAssumption DEF Tasks, Workers
  <2>. QED
    BY <1>2, <2>1, <2>2, <2>3, <2>4 DEF TasksTyped, AllTasksOK, Is, At
<1>11. ASSUME NEW n \in Nodes \ contended PROVE (Exclusive(n) /\ Known(n) /\ StoreKnows(n))'
  <2>1. Exclusive(n) /\ Known(n) /\ StoreKnows(n)
    BY DEF NodeInv, NodesOK
  <2>2. \A q \in Tasks : Subjects(task'[q]) = Subjects(task[q]) /\ task'[q].kind = task[q].kind
    BY <1>1, <1>5, <1>6, <1>9
  <2>3. Exclusive(n)'
    BY <2>1, <2>2 DEF Exclusive, Subjects
  <2>4. CASE n = NodeOf(p)
    <3>1. \A q \in Tasks : n \in Subjects(task[q]) => q = p
      BY <1>1, <1>3, <2>4, AloneWith DEF Steers
    <3>2. Knows(task[p], n) /\ n \notin up'
      BY <1>2, <1>3, <2>1, <2>4 DEF Known
    <3>3. Knows(task[p], n)'
      BY <1>1, <1>2, <1>5, <3>2 DEF Knows
    <3>4. Known(n)'
      BY <2>2, <3>1, <3>3 DEF Known, Subjects
    <3>5. StoreKnows(n)'
      BY <1>2, <1>3, <1>5, <1>6, <2>1, <2>4 DEF StoreKnows, Subjects, Steers
    <3>. QED
      BY <2>3, <3>4, <3>5
  <2>5. CASE n # NodeOf(p)
    <3>1. n \notin Subjects(task[p]) /\ (n \in up' <=> n \in up)
      BY <1>2, <1>3, <2>5
    <3>2. ASSUME NEW q \in Tasks, n \in Subjects(task'[q]) PROVE Knows(task[q], n)'
      <4>1. q # p /\ Knows(task[q], n)
        BY <2>1, <2>2, <3>1, <3>2 DEF Known
      <4>2. CASE task'[q] = task[q]
        BY <1>2, <3>1, <4>1, <4>2 DEF Knows
      <4>3. CASE task'[q] # task[q]
        <5>1. task[q].kind = "pick" /\ NodeOf(p) \in task[q].nodes
          BY <1>8, <4>1, <4>3
        <5>. QED
          BY <1>2, <1>7, <3>1, <4>1, <5>1 DEF Knows
      <4>. QED
        BY <4>2, <4>3
    <3>3. Known(n)'
      BY <3>2 DEF Known, Subjects
    <3>4. StoreKnows(n)'
      <4>1. \A q \in Tasks : q # p => task'[q].step = task[q].step
        BY <1>9
      <4>. QED
        BY <1>2, <2>1, <2>2, <3>1, <4>1 DEF StoreKnows, Subjects
    <3>. QED
      BY <2>3, <3>3, <3>4
  <2>. QED
    BY <2>4, <2>5
<1>12. NodesOK'
  BY <1>2, <1>11 DEF NodesOK
<1>13. PicksFind'
  <2>1. ASSUME NEW q \in Tasks PROVE Found(task[q])'
    <3>1. Found(task[q])
      BY DEF NodeInv, PicksFind
    <3>2. CASE q = p
      BY <1>5, <3>2 DEF Found
    <3>3. CASE q # p /\ task[q].kind = "pick" /\ NodeOf(p) \in task[q].nodes
      BY <1>7, <3>3 DEF Found
    <3>4. CASE q # p /\ ~(task[q].kind = "pick" /\ NodeOf(p) \in task[q].nodes)
      <4>1. task'[q] = task[q]
        BY <1>8, <3>4
      <4>. QED
        BY <1>2, <3>1, <3>4, <4>1 DEF Found
    <3>. QED
      BY <3>2, <3>3, <3>4
  <2>. QED
    BY <2>1 DEF PicksFind
<1>14. SettingsTyped' /\ NodesTyped' /\ EventsTyped' /\ calls' \in 0..MaxCalls
  BY <1>2, SettingsStay DEF NodeInv, TypeInv, NodesTyped, EventsTyped
<1>. QED
  BY <1>10, <1>12, <1>13, <1>14 DEF NodeInv, TypeInv

\* What a task knows goes to the store.
LEMMA UpdateNodes ==
  ASSUME NodeInv, NEW p \in Tasks, UpdateNodeRuntime(p)
  PROVE  NodeInv'
<1>. USE DEF events
<1>1. task[p].step = "update" /\ task[p].kind \in NodeKinds
      /\ UNCHANGED <<settings, up, holder, contended, events, calls>>
  BY StepKind, StepOfTask DEF UpdateNodeRuntime, At
<1>2. NodeOf(p) \in Nodes /\ task[p].nodes = {NodeOf(p)} /\ Subjects(task[p]) = {NodeOf(p)}
      /\ NodeTaskOK(p, task[p])
  BY <1>1, OneNode, NodeTaskFields
<1>3. PICK n : n = NodeOf(p)
  OBVIOUS
<1>4. PICK latency : latency = task[p].copies[n]
  OBVIOUS
<1>5. n \in Nodes /\ latency \in Latencies \cup {0}
  BY <1>2, <1>3, <1>4 DEF NodeTaskOK
<1>6. /\ stored' = [stored EXCEPT ![n] = [running |-> task[p].running, port |-> task[p].port,
                                          latency |-> Keeps(latency, @.latency)]]
      /\ newest' = IF Is(p, "test") /\ latency # 0
                   THEN [newest EXCEPT ![n] = latency] ELSE newest
      /\ refreshed' = refreshed \ {n}
  BY <1>3, <1>4 DEF UpdateNodeRuntime
<1>7. NodesTyped'
  <2>1. Keeps(latency, stored[n].latency) \in Latencies \cup {0}
    BY <1>5 DEF Keeps, NodeInv, TypeInv, NodesTyped
  <2>2. [running |-> task[p].running, port |-> task[p].port,
         latency |-> Keeps(latency, stored[n].latency)]
          \in [running : BOOLEAN, port : BOOLEAN, latency : Latencies \cup {0}]
    BY <1>2, <2>1 DEF NodeTaskOK
  <2>3. stored' \in [Nodes -> [running : BOOLEAN, port : BOOLEAN, latency : Latencies \cup {0}]]
    BY <1>5, <1>6, <2>2 DEF NodeInv, TypeInv, NodesTyped
  <2>4. newest' \in [Nodes -> Latencies \cup {0}]
    BY <1>5, <1>6 DEF NodeInv, TypeInv, NodesTyped
  <2>. QED
    BY <1>1, <1>6, <2>3, <2>4 DEF NodeInv, TypeInv, NodesTyped
<1>8. PICK t : /\ task' = [task EXCEPT ![p] = t] /\ TaskOK(p, t) /\ t.step \in {"none", "send"}
               /\ \/ t.kind = "none"
                  \/ t.kind = task[p].kind /\ t.nodes = task[p].nodes /\ t.copies = task[p].copies
  <2>1. CASE Ends(p)
    BY <2>1, NoTaskOK DEF Ends
  <2>2. CASE Broadcast(p)
    <3>1. PICK t : t = [task[p] EXCEPT !.step = "send", !.to = here]
      OBVIOUS
    <3>2. task' = [task EXCEPT ![p] = t]
      BY <2>2, <3>1 DEF Broadcast
    <3>3. DOMAIN t = NodeFields /\ t.kind = task[p].kind /\ t.nodes = task[p].nodes
          /\ t.copies = task[p].copies /\ t.step = "send" /\ t.to = here
          /\ t.running = task[p].running /\ t.port = task[p].port
      BY <1>2, <3>1 DEF NodeTaskOK, NodeFields
    <3>4. t.step \in StepsOf(t.kind)
      BY <1>1, <3>3 DEF StepsOf, NodeKinds
    <3>5. TaskOK(p, t)
      BY <1>1, <1>2, <3>3, <3>4, NodeTaskKept DEF NodeTaskOK
    <3>. QED
      BY <3>2, <3>3, <3>5
  <2>. QED
    BY <2>1, <2>2 DEF UpdateNodeRuntime
<1>9. task'[p] = t /\ \A q \in Tasks : q # p => task'[q] = task[q]
  BY <1>8 DEF NodeInv, TypeInv, TasksTyped, AllTasksOK
<1>10. TasksTyped'
  BY <1>1, <1>8, CalmTyped DEF NodeInv
<1>11. Subjects(t) \subseteq Subjects(task[p])
  BY <1>8 DEF Subjects, NodeKinds
<1>12. ASSUME NEW m \in Nodes \ contended PROVE (Exclusive(m) /\ Known(m) /\ StoreKnows(m))'
  <2>1. Exclusive(m) /\ Known(m) /\ StoreKnows(m)
    BY DEF NodeInv, NodesOK
  <2>2. m \in Subjects(t) => t.kind = task[p].kind
    BY <1>8 DEF Subjects, NodeKinds
  <2>3. Exclusive(m)'
    BY <1>9, <1>11, <2>1, <2>2 DEF Exclusive, Subjects
  <2>4. CASE m = n
    <3>1. Knows(task[p], m)
      BY <1>2, <1>3, <2>1, <2>4 DEF Known
    <3>2. stored'[m].latency = newest'[m] /\ (Steers(task[p].kind) => newest'[m] = newest[m])
          /\ stored'[m].running = task[p].running /\ stored'[m].port = task[p].port
      <4>1. stored'[m].latency = Keeps(latency, stored[m].latency)
            /\ stored'[m].running = task[p].running /\ stored'[m].port = task[p].port
        BY <1>5, <1>6, <2>4 DEF NodeInv, TypeInv, NodesTyped
      <4>2. CASE Steers(task[p].kind)
        BY <1>4, <1>6, <2>1, <2>4, <3>1, <4>1, <4>2 DEF Knows, StoreKnows, Keeps, Steers, Is
      <4>3. CASE ~Steers(task[p].kind)
        <5>1. task[p].kind = "test"
          BY <1>1, <4>3 DEF Steers, NodeKinds
        <5>. QED
          BY <1>5, <1>6, <2>1, <2>4, <4>1, <4>3, <5>1
          DEF Is, Keeps, StoreKnows, NodeInv, TypeInv, NodesTyped
      <4>. QED
        BY <4>2, <4>3
    <3>3. StoreKnows(m)'
      BY <1>1, <1>6, <2>4, <3>1, <3>2 DEF StoreKnows, Knows
    <3>4. ASSUME NEW q \in Tasks, m \in Subjects(task'[q]) PROVE Knows(task[q], m)'
      <4>1. CASE q = p
        <5>1. t.kind = task[p].kind /\ task'[q] = t
          BY <1>9, <2>2, <3>4, <4>1
        <5>2. t.copies = task[p].copies
          BY <1>1, <1>8, <5>1 DEF NodeKinds
        <5>3. Steers(t.kind) => t.copies[m] = newest'[m]
          BY <3>1, <3>2, <5>1, <5>2 DEF Knows
        <5>. QED
          BY <1>8, <5>1, <5>3 DEF Knows
      <4>2. CASE q # p
        <5>1. ~Steers(task[q].kind) /\ task'[q] = task[q] /\ Knows(task[q], m)
          BY <1>2, <1>3, <1>9, <2>1, <2>4, <3>4, <4>2 DEF Exclusive, Known
        <5>. QED
          BY <1>1, <5>1 DEF Knows
      <4>. QED
        BY <4>1, <4>2
    <3>5. Known(m)'
      BY <3>4 DEF Known, Subjects
    <3>. QED
      BY <2>3, <3>3, <3>5
  <2>5. CASE m # n
    <3>1. m \notin Subjects(task[p]) /\ m \notin Subjects(t)
      BY <1>2, <1>3, <1>11, <2>5
    <3>2. stored'[m] = stored[m] /\ newest'[m] = newest[m]
          /\ (m \in refreshed' <=> m \in refreshed)
      BY <1>6, <2>5 DEF NodeInv, TypeInv, NodesTyped
    <3>3. Known(m)'
      BY <1>1, <1>9, <2>1, <3>1, <3>2 DEF Known, Knows, Subjects
    <3>4. StoreKnows(m)'
      BY <1>1, <1>9, <2>1, <3>1, <3>2 DEF StoreKnows, Subjects
    <3>. QED
      BY <2>3, <3>3, <3>4
  <2>. QED
    BY <2>4, <2>5
<1>13. NodesOK'
  BY <1>1, <1>12 DEF NodesOK
<1>14. PicksFind'
  BY <1>1, <1>8, <1>9 DEF NodeInv, PicksFind, Found
<1>15. SettingsTyped' /\ EventsTyped' /\ calls' \in 0..MaxCalls
  BY <1>1, SettingsStay DEF NodeInv, TypeInv, EventsTyped
<1>. QED
  BY <1>7, <1>10, <1>13, <1>14, <1>15 DEF NodeInv, TypeInv

-----------------------------------------------------------------------------
(* Together *)

LEMMA StepNodes ==
  ASSUME NodeInv, NEW p \in Tasks, Step(p)
  PROVE  NodeInv'
<1>1. CASE TestStep(p)
  <2>1. Wait(p) => p \in Runs
    BY DEF Wait
  <2>. QED
    BY <1>1, <2>1, AcquireNodes, TestNodeNodes, ReadRunningNodes, ReadPortNodes, UpdateNodes,
       WaitNodes, SentNodes, SendNodes
    DEF TestStep
<1>2. CASE \/ ReadConfig(p) \/ ReadBase(p) \/ SetBase(p) \/ UpdateTunnel(p)
           \/ FormTunnel(p) \/ SaveConfig(p)
  BY <1>2, ReadConfigNodes, ReadBaseNodes, SetBaseNodes, UpdateTunnelNodes, FormTunnelNodes,
     SaveConfigNodes
<1>3. CASE StartNode(p) \/ StopNothing(p) \/ StopNode(p)
  BY <1>3, StartNodeNodes, StopNothingNodes, StopNodeNodes
<1>4. CASE Filter(p) \/ Choose(p) \/ Check(p) \/ Assign(p) \/ Answer(p)
  BY <1>4, FilterNodes, ChooseNodes, CheckNodes, AssignNodes, AnswerNodes
<1>. QED
  BY <1>1, <1>2, <1>3, <1>4 DEF Step

LEMMA CallNodes ==
  ASSUME NodeInv, NEW p \in Requests, Call(p)
  PROVE  NodeInv'
<1>1. CASE SetConfig(p) \/ SetTunnel(p)
  BY <1>1, RequestNodes
<1>2. ASSUME NEW n \in Nodes, Act(p, "start", n) \/ Act(p, "stop", n) \/ Act(p, "test", n)
      PROVE  NodeInv'
  BY <1>2, ActNodes
<1>3. ASSUME NEW S \in SUBSET Nodes, NEW only, NEW auto, Pick(p, S, only, auto)
      PROVE  NodeInv'
  BY <1>3, PickNodes
<1>4. ASSUME NEW S \in SUBSET Nodes, Refresh(p, S) PROVE NodeInv'
  BY <1>4, RefreshNodes
<1>. QED
  BY <1>1, <1>2, <1>3, <1>4 DEF Call

LEMMA NextNodes == NodeInv /\ [Next]_vars => NodeInv'
<1>. SUFFICES ASSUME NodeInv, [Next]_vars PROVE NodeInv'
  OBVIOUS
<1>1. CASE UNCHANGED vars
  <2>. USE <1>1 DEF vars, settings, nodeVars, events
  <2>1. \A p \in Tasks : TaskOK(p, task[p])'
    BY StepOfTask DEF TaskOK, SettingTask, NodeTaskOK, PlainTask
  <2>2. TasksTyped'
    BY <2>1 DEF NodeInv, TypeInv, TasksTyped, AllTasksOK, Is, At
  <2>3. NodesOK' /\ PicksFind'
    BY CalmSteps
  <2>4. SettingsTyped' /\ NodesTyped' /\ EventsTyped' /\ calls' \in 0..MaxCalls
    BY SettingsStay DEF NodeInv, TypeInv, NodesTyped, EventsTyped
  <2>. QED
    BY <2>2, <2>3, <2>4 DEF NodeInv, TypeInv
<1>2. ASSUME NEW p \in Requests, Call(p) PROVE NodeInv'
  BY <1>2, CallNodes
<1>3. ASSUME NEW t \in Runs, NEW S \in SUBSET Nodes, RunTests(t, S) PROVE NodeInv'
  BY <1>3, RunNodes
<1>4. ASSUME NEW p \in Tasks, Step(p) \/ Forget(p) PROVE NodeInv'
  BY <1>4, StepNodes, ForgetNodes
<1>5. ASSUME NEW d \in Dashboards, Join(d) \/ Leave(d) \/ Flush(d) PROVE NodeInv'
  BY <1>5, DashboardsNodes
<1>. QED
  BY <1>1, <1>2, <1>3, <1>4, <1>5 DEF Next

\* Every variable keeps its type, however many requests and runs there are; m.mu
\* is held by a stop exactly while the clients of its listener leave
\* (manager.go:114-130).
THEOREM TypeCorrect == Spec => []TypeOK
<1>1. Init => NodeInv
  BY InitNodes
<1>2. NodeInv /\ [Next]_vars => NodeInv'
  BY NextNodes
<1>3. NodeInv => TypeOK
  BY TypesCorrect DEF NodeInv
<1>. QED
  BY <1>1, <1>2, <1>3, PTL DEF Spec

\* The store follows the manager and the tests: what it says of a node that no
\* start, stop or pick is about, and that none ever shared with another task, is
\* true of its listener and of its last test, but for a refresh, after which the
\* node counts as stopped and untested until it is started, stopped or tested
\* (server.go:349, 446, 552-570, 585, 798, store.go:186-197).
THEOREM StoreCorrect == Spec => []StoreFollows
<1>1. Init => NodeInv
  BY InitNodes
<1>2. NodeInv /\ [Next]_vars => NodeInv'
  BY NextNodes
<1>3. NodeInv => StoreFollows
  <2>. SUFFICES ASSUME NodeInv, NEW n \in Nodes \ contended,
                       \A p \in Tasks : ~(n \in About(p) /\ Steers(task[p].kind))
                PROVE  stored[n] = [running |-> n \in up \ refreshed, port |-> n \in up \ refreshed,
                                    latency |-> newest[n]]
    BY DEF StoreFollows
  <2>1. stored[n].latency = newest[n] /\ (stored[n].running <=> n \in up \ refreshed)
        /\ (stored[n].port <=> n \in up \ refreshed)
    BY AboutSubjects DEF NodeInv, NodesOK, StoreKnows
  <2>2. PICK running, port \in BOOLEAN, latency \in Latencies \cup {0} :
          stored[n] = [running |-> running, port |-> port, latency |-> latency]
    BY DEF NodeInv, TypeInv, NodesTyped
  <2>3. (running <=> n \in up \ refreshed) /\ (port <=> n \in up \ refreshed) /\ latency = newest[n]
    BY <2>1, <2>2
  <2>4. CASE n \in up \ refreshed
    <3>1. running = TRUE /\ port = TRUE /\ (n \in up \ refreshed) = TRUE
      BY <2>2, <2>3, <2>4
    <3>. QED
      BY <2>2, <2>3, <3>1, Zenon
  <2>5. CASE n \notin up \ refreshed
    <3>1. running = FALSE /\ port = FALSE /\ (n \in up \ refreshed) = FALSE
      BY <2>2, <2>3, <2>5
    <3>. QED
      BY <2>2, <2>3, <3>1, Zenon
  <2>. QED
    BY <2>4, <2>5
<1>. QED
  BY <1>1, <1>2, <1>3, PTL DEF Spec

\* Whoever asks for a proxy can use what is handed out: if it is said to run it
\* has a port, and with auto_start it runs, unless the node was stopped since
\* (server.go:792-805).
THEOREM PicksCorrect == Spec => []PickedIsUsable
<1>1. Init => NodeInv
  BY InitNodes
<1>2. NodeInv /\ [Next]_vars => NodeInv'
  BY NextNodes
<1>3. NodeInv => PickedIsUsable
  <2>. SUFFICES ASSUME NodeInv, NEW p \in Requests,
                       Is(p, "pick"), At(p, "answer"), ~task[p].cut
                PROVE  (task[p].running => task[p].port) /\ (task[p].auto => task[p].running)
    BY DEF PickedIsUsable
  <2>1. p \in Tasks /\ task[p].kind = "pick" /\ task[p].step = "answer" /\ task[p].kind \in NodeKinds
    BY DEF Tasks, Is, At, NodeKinds
  <2>2. task[p].nodes = {NodeOf(p)} /\ Found(task[p])
    BY <2>1, OneNode, NodeTaskFields
  <2>. QED
    BY <2>1, <2>2 DEF Found
<1>. QED
  BY <1>1, <1>2, <1>3, PTL DEF Spec

-----------------------------------------------------------------------------
(* What the dashboards are told of a run                                    *)

Heard == [Dashboards -> [Runs -> Seq(Nodes \cup {"complete"})]]

Told(told) == {told[k] : k \in DOMAIN told}

\* Who has nothing more to tell a dashboard.
Done(d, p) == task[p] = NoTask \/ (task[p].step = "send" /\ d \notin task[p].to)

\* The tests of a run are under way only while it waits for them.
TestsOfRuns ==
  \A p \in Workers : task[p] # NoTask =>
    task[p[1]].kind = "run" /\ task[p[1]].step = "wait" /\ p[2] \in tested[p[1]]

CompleteIsLast(d, t) ==
  \A k \in DOMAIN heard[d][t] : heard[d][t][k] = "complete" => k = Len(heard[d][t]) /\ Done(d, t)

\* Who is owed a run was told, once, of each test that is through with it, and of
\* the completion if that is.
ToldOnce(d, t) ==
  d \in owed[t] =>
    /\ \A n \in Nodes : n \in Told(heard[d][t]) <=> n \in tested[t] /\ Done(d, <<t, n>>)
    /\ ("complete" \in Told(heard[d][t]) <=> Done(d, t))
    /\ IsFiniteSet(Told(heard[d][t])) /\ Cardinality(Told(heard[d][t])) = Len(heard[d][t])

HeardOK ==
  /\ heard \in Heard /\ TestsOfRuns
  /\ \A d \in Dashboards, t \in Runs : CompleteIsLast(d, t) /\ ToldOnce(d, t)

HeardInv == NodeInv /\ HeardOK

LEMMA InitHeard == Init => HeardInv
<1>. SUFFICES ASSUME Init PROVE HeardInv
  OBVIOUS
<1>1. heard \in Heard
  BY DEF Init, Heard
<1>2. \A d \in Dashboards, t \in Runs : heard[d][t] = <<>> /\ owed[t] = {}
  BY DEF Init
<1>3. TestsOfRuns
  BY DEF Init, TestsOfRuns, Tasks
<1>. QED
  BY <1>1, <1>2, <1>3, InitNodes DEF HeardInv, HeardOK, CompleteIsLast, ToldOnce

\* A step that says nothing more to who is owed a run.
LEMMA SilentStep ==
  ASSUME HeardInv, UNCHANGED <<heard, tested>>, TestsOfRuns',
         \A t \in Runs : owed'[t] \subseteq owed[t],
         \A p \in Runs \cup Workers, d \in Dashboards : Done(d, p) => Done(d, p)',
         \A t \in Runs : \A d \in owed'[t] : Done(d, t)' => Done(d, t),
         \A p \in Workers : \A d \in owed'[p[1]] : Done(d, p)' => Done(d, p)
  PROVE  HeardOK'
<1>1. heard' \in Heard
  BY DEF HeardInv, HeardOK
<1>2. ASSUME NEW d \in Dashboards, NEW t \in Runs
      PROVE  CompleteIsLast(d, t)' /\ ToldOnce(d, t)'
  <2>1. CompleteIsLast(d, t) /\ ToldOnce(d, t)
    BY DEF HeardInv, HeardOK
  <2>2. CompleteIsLast(d, t)'
    BY <2>1 DEF CompleteIsLast
  <2>3. ASSUME d \in owed'[t] PROVE ToldOnce(d, t)'
    <3>1. Done(d, t)' <=> Done(d, t)
      BY <2>3
    <3>2. ASSUME NEW n \in Nodes PROVE Done(d, <<t, n>>)' <=> Done(d, <<t, n>>)
      <4>1. <<t, n>> \in Workers /\ <<t, n>>[1] = t
        BY DEF Workers
      <4>. QED
        BY <2>3, <4>1
    <3>3. d \in owed[t]
      BY <2>3
    <3>. QED
      BY <2>1, <3>1, <3>2, <3>3 DEF ToldOnce
  <2>4. ASSUME d \notin owed'[t] PROVE ToldOnce(d, t)'
    BY <2>4 DEF ToldOnce
  <2>. QED
    BY <2>2, <2>3, <2>4
<1>. QED
  BY <1>1, <1>2 DEF HeardOK

\* The requests have no part in it.
LEMMA RequestsSilent ==
  ASSUME HeardInv, UNCHANGED <<heard, tested>>,
         \A t \in Runs : owed'[t] \subseteq owed[t],
         \A p \in Runs \cup Workers : task'[p] = task[p]
  PROVE  HeardOK'
<1>1. TestsOfRuns'
  BY DEF HeardInv, HeardOK, TestsOfRuns, Workers
<1>2. \A p \in Runs \cup Workers : \A d : Done(d, p)' <=> Done(d, p)
  BY DEF Done
<1>. QED
  BY <1>1, <1>2, SilentStep

LEMMA OneTaskHeard ==
  ASSUME HeardInv, NEW p \in Tasks, NEW t, task' = [task EXCEPT ![p] = t]
  PROVE  task'[p] = t /\ \A q \in Tasks : q # p => task'[q] = task[q]
  BY DEF HeardInv, NodeInv, TypeInv, TasksTyped, AllTasksOK

LEMMA RequestHeard ==
  ASSUME HeardInv, NEW p \in Requests, NEW t, task' = [task EXCEPT ![p] = t],
         UNCHANGED <<heard, tested, owed>>
  PROVE  HeardOK'
<1>1. p \in Tasks /\ p \notin Runs \cup Workers /\ Runs \cup Workers \subseteq Tasks
  BY DashboardAssumption DEF Tasks, Workers
<1>2. \A q \in Runs \cup Workers : task'[q] = task[q]
  BY <1>1, OneTaskHeard
<1>. QED
  BY <1>2, RequestsSilent

\* Who is a test, and whose.
LEMMA Kinds ==
  ASSUME HeardInv, NEW p \in Tasks
  PROVE  /\ p \in Workers => task[p] = NoTask \/ (NodeTaskOK(p, task[p]) /\ task[p].kind = "test")
         /\ p \in Runs => task[p] = NoTask \/ (PlainTask(p, task[p]) /\ task[p].kind = "run")
         /\ task[p].kind \in {"config", "tunnel", "start", "stop", "pick", "refresh"} => p \in Requests
<1>1. task[p] = NoTask \/ SettingTask(p, task[p]) \/ NodeTaskOK(p, task[p]) \/ PlainTask(p, task[p])
  BY StepOfTask DEF HeardInv, TaskOK
<1>2. (p \in Workers => p \notin Runs) /\ (p \in Runs \cup Workers => p \notin Requests)
  BY DashboardAssumption DEF Workers
<1>3. CASE task[p] = NoTask
  BY <1>3 DEF NoTask
<1>4. CASE SettingTask(p, task[p])
  BY <1>2, <1>4 DEF SettingTask
<1>5. CASE NodeTaskOK(p, task[p])
  <2>1. p \in Requests \/ (task[p].kind = "test" /\ p \in Workers)
    BY <1>5 DEF NodeTaskOK
  <2>. QED
    BY <1>2, <1>5, <2>1
<1>6. CASE PlainTask(p, task[p])
  <2>1. \/ task[p].kind = "run" /\ p \in Runs
        \/ task[p].kind = "refresh" /\ p \in Requests
    BY <1>6 DEF PlainTask
  <2>. QED
    BY <1>2, <1>6, <2>1
<1>. QED
  BY <1>1, <1>3, <1>4, <1>5, <1>6

LEMMA WorkerParts ==
  ASSUME NEW p \in Workers
  PROVE  p[1] \in Runs /\ p[2] \in Nodes /\ p = <<p[1], p[2]>> /\ p[1] \notin Workers
         /\ p \notin Runs /\ p \notin Requests /\ p \in Tasks /\ p[1] \in Tasks
  BY DashboardAssumption DEF Workers, Tasks

\* A test that goes on, and says nothing yet to who is owed its run.
LEMMA TestGoesOn ==
  ASSUME HeardInv, NEW p \in Workers, NEW t, task' = [task EXCEPT ![p] = t],
         UNCHANGED <<heard, tested, owed>>, task[p] # NoTask, task[p].step # "send",
         t # NoTask, t.step = "send" => owed[p[1]] \subseteq t.to
  PROVE  HeardOK'
<1>1. task'[p] = t /\ \A q \in Tasks : q # p => task'[q] = task[q]
  BY WorkerParts, OneTaskHeard
<1>2. TestsOfRuns'
  <2>1. ASSUME NEW q \in Workers, task'[q] # NoTask
        PROVE  task'[q[1]].kind = "run" /\ task'[q[1]].step = "wait" /\ q[2] \in tested'[q[1]]
    <3>1. task[q] # NoTask
      BY <1>1, <2>1, WorkerParts
    <3>2. task'[q[1]] = task[q[1]]
      BY <1>1, WorkerParts
    <3>. QED
      BY <3>1, <3>2 DEF HeardInv, HeardOK, TestsOfRuns
  <2>. QED
    BY <2>1 DEF TestsOfRuns
<1>3. \A q \in Tasks : q # p => \A d : Done(d, q)' <=> Done(d, q)
  BY <1>1 DEF Done
<1>4. \A d : ~Done(d, p)
  BY DEF Done
<1>5. \A d \in owed[p[1]] : ~Done(d, p)'
  BY <1>1 DEF Done
<1>6. \A t_ \in Runs : t_ \in Tasks /\ t_ # p
  BY WorkerParts DEF Tasks
<1>7. \A q \in Workers : q \in Tasks
  BY WorkerParts
<1>. QED
  BY <1>2, <1>3, <1>4, <1>5, <1>6, <1>7, SilentStep

\* A step of a task is its own, and but for an event sent nobody hears of it.
LEMMA StepIsOwn ==
  ASSUME HeardInv, NEW p \in Tasks, Step(p)
  PROVE  /\ \A q \in Tasks \ {p} : task'[q] = task[q]
         /\ UNCHANGED tested
         /\ UNCHANGED <<heard, owed>> \/ \E d \in Dashboards : Send(p, d)
<1>1. DOMAIN task = Tasks
  BY DEF HeardInv, NodeInv, TypeInv, TasksTyped, AllTasksOK
<1>2. CASE ReadConfig(p) \/ ReadBase(p) \/ SetBase(p) \/ UpdateTunnel(p) \/ FormTunnel(p) \/ SaveConfig(p)
  BY <1>1, <1>2
  DEF ReadConfig, ReadBase, SetBase, UpdateTunnel, FormTunnel, SaveConfig, Goes, Ends, Broadcast, events
<1>3. CASE StartNode(p) \/ StopNothing(p) \/ StopNode(p)
  BY <1>1, <1>3 DEF StartNode, StopNothing, StopNode, Goes, Ends, events
<1>4. CASE Filter(p) \/ Choose(p) \/ Check(p) \/ Assign(p) \/ Answer(p)
  BY <1>1, <1>4 DEF Filter, Choose, Check, Assign, Answer, Goes, Ends, events
<1>5. CASE Acquire(p) \/ TestNode(p) \/ ReadRunning(p) \/ ReadPort(p) \/ UpdateNodeRuntime(p)
           \/ Wait(p) \/ Sent(p)
  BY <1>1, <1>5
  DEF Acquire, TestNode, ReadRunning, ReadPort, UpdateNodeRuntime, Wait, Sent, Goes, Ends,
      Broadcast, events
<1>6. ASSUME NEW d \in Dashboards, Send(p, d)
      PROVE  (\A q \in Tasks \ {p} : task'[q] = task[q]) /\ UNCHANGED tested
  BY <1>1, <1>6 DEF Send
<1>. QED
  BY <1>2, <1>3, <1>4, <1>5, <1>6 DEF Step, TestStep

\* The steps that the tests and the runs take.
LEMMA StepOfRun ==
  ASSUME HeardInv, NEW p \in Runs \cup Workers, Step(p)
  PROVE  TestStep(p)
<1>1. p \in Tasks /\ p \notin Requests
  BY DashboardAssumption DEF Tasks, Workers
<1>2. task[p].kind \notin {"config", "tunnel", "start", "stop", "pick"}
  BY <1>1, Kinds
<1>3. ~(ReadConfig(p) \/ ReadBase(p) \/ SetBase(p) \/ UpdateTunnel(p) \/ FormTunnel(p) \/ SaveConfig(p))
  BY <1>2
  DEF ReadConfig, ReadBase, SetBase, UpdateTunnel, FormTunnel, SaveConfig, Is, Setting
<1>4. ~(StartNode(p) \/ StopNothing(p) \/ StopNode(p))
  BY <1>2 DEF StartNode, StopNothing, StopNode, Is
<1>5. task[p].step \notin {"filter", "check", "assign", "answer"}
  BY <1>1, <1>2, StepKind, StepOfTask DEF HeardInv
<1>6. ~(Filter(p) \/ Choose(p) \/ Check(p) \/ Assign(p) \/ Answer(p))
  BY <1>5 DEF Filter, Choose, Check, Assign, Answer, At
<1>. QED
  BY <1>3, <1>4, <1>6 DEF Step

LEMMA RequestStepHeard ==
  ASSUME HeardInv, NEW p \in Requests, Step(p)
  PROVE  HeardOK'
<1>1. p \in Tasks /\ p \notin Runs \cup Workers /\ Runs \cup Workers \subseteq Tasks
  BY DashboardAssumption DEF Tasks, Workers
<1>2. \A q \in Runs \cup Workers : task'[q] = task[q]
  BY <1>1, StepIsOwn
<1>3. UNCHANGED <<heard, tested>> /\ \A t \in Runs : owed'[t] \subseteq owed[t]
  <2>1. CASE UNCHANGED <<heard, owed>>
    BY <1>1, <2>1, StepIsOwn
  <2>2. ASSUME NEW d \in Dashboards, Send(p, d)
        PROVE  UNCHANGED <<heard, tested>> /\ \A t \in Runs : owed'[t] \subseteq owed[t]
    BY <1>1, <2>2 DEF Send, Hears
  <2>. QED
    BY <1>1, <2>1, <2>2, StepIsOwn
<1>. QED
  BY <1>2, <1>3, RequestsSilent

LEMMA WorkerGoesHeard ==
  ASSUME HeardInv, NEW p \in Workers,
         Acquire(p) \/ TestNode(p) \/ ReadRunning(p) \/ ReadPort(p) \/ UpdateNodeRuntime(p)
  PROVE  HeardOK'
<1>1. p \in Tasks /\ DOMAIN task = Tasks
  BY WorkerParts DEF HeardInv, NodeInv, TypeInv, TasksTyped, AllTasksOK
<1>2. task[p].step \in {"queue", "test", "running", "port", "update"} /\ task[p] # NoTask
      /\ UNCHANGED <<heard, tested, owed, here>>
  BY DEF Acquire, TestNode, ReadRunning, ReadPort, UpdateNodeRuntime, At, NoTask, events
<1>3. task[p].kind = "test" /\ DOMAIN task[p] = NodeFields
  BY <1>1, <1>2, Kinds DEF NodeTaskOK
<1>4. ASSUME NEW t, task' = [task EXCEPT ![p] = t], t.kind = "test", t.step # "send"
      PROVE  HeardOK'
  <2>1. t # NoTask /\ task[p].step # "send" /\ (t.step = "send" => owed[p[1]] \subseteq t.to)
    BY <1>2, <1>4 DEF NoTask
  <2>2. task[p] # NoTask /\ UNCHANGED <<heard, tested, owed>>
    BY <1>2
  <2>. QED
    BY <1>4, <2>1, <2>2, TestGoesOn
<1>5. CASE Acquire(p)
  <2>1. PICK t : t = [task[p] EXCEPT !.step = "test"]
    OBVIOUS
  <2>2. t.kind = "test" /\ t.step = "test"
    BY <1>3, <2>1 DEF NodeFields
  <2>. QED
    BY <1>4, <1>5, <2>1, <2>2 DEF Acquire, Goes
<1>6. CASE TestNode(p)
  <2>1. PICK latency \in Latencies :
          task' = [task EXCEPT ![p].copies = [n \in task[p].nodes |-> latency],
                               ![p].step = "running"]
    BY <1>6 DEF TestNode
  <2>2. PICK t : t = [task[p] EXCEPT !.copies = [n \in task[p].nodes |-> latency],
                                     !.step = "running"]
    OBVIOUS
  <2>3. t.kind = "test" /\ t.step = "running"
    BY <1>3, <2>2 DEF NodeFields
  <2>. QED
    BY <1>4, <2>1, <2>2, <2>3
<1>7. CASE ReadRunning(p)
  <2>1. PICK t : t = [task[p] EXCEPT !.running = NodeOf(p) \in up, !.step = "port"]
    OBVIOUS
  <2>2. t.kind = "test" /\ t.step = "port"
    BY <1>3, <2>1 DEF NodeFields
  <2>. QED
    BY <1>4, <1>7, <2>1, <2>2 DEF ReadRunning
<1>8. CASE ReadPort(p)
  <2>1. PICK t : t = [task[p] EXCEPT !.port = NodeOf(p) \in up,
                                     !.step = IF Is(p, "pick") THEN "answer" ELSE "update"]
    OBVIOUS
  <2>2. t.kind = "test" /\ t.step = "update"
    BY <1>3, <2>1 DEF NodeFields, Is
  <2>3. task' = [task EXCEPT ![p] = t]
    BY <1>8, <2>1 DEF ReadPort
  <2>. QED
    BY <1>4, <2>2, <2>3
<1>9. CASE UpdateNodeRuntime(p)
  <2>1. PICK t : t = [task[p] EXCEPT !.step = "send", !.to = here]
    OBVIOUS
  <2>2. t.kind = "test" /\ t.to = here
    BY <1>3, <2>1 DEF NodeFields
  <2>3. Broadcast(p)
    BY <1>3, <1>9 DEF UpdateNodeRuntime, Is
  <2>4. owed[p[1]] \subseteq here
    BY WorkerParts DEF HeardInv, NodeInv, TypeInv, EventsTyped
  <2>5. t # NoTask /\ task[p].step # "send"
    BY <1>2, <2>2 DEF NoTask
  <2>. QED
    BY <1>2, <2>1, <2>2, <2>3, <2>4, <2>5, TestGoesOn DEF Broadcast
<1>. QED
  BY <1>5, <1>6, <1>7, <1>8, <1>9

\* All tests are through when a run is complete.
LEMMA WaitHeard ==
  ASSUME HeardInv, NEW t \in Runs, Wait(t)
  PROVE  HeardOK'
<1>1. t \in Tasks /\ t \notin Workers /\ Workers \subseteq Tasks /\ Runs \subseteq Tasks
  BY DashboardAssumption DEF Tasks, Workers
<1>2. task[t].step = "wait" /\ task[t] # NoTask /\ Broadcast(t)
      /\ UNCHANGED <<heard, tested, owed>>
  BY DEF Wait, At, NoTask, events
<1>3. \A q \in Tasks : q # t => task'[q] = task[q]
  BY <1>1, <1>2 DEF Broadcast, HeardInv, NodeInv, TypeInv, TasksTyped, AllTasksOK
<1>4. task'[t] # NoTask /\ task'[t].to = here
  <2>1. PlainTask(t, task[t]) /\ task[t].kind = "run"
    BY <1>1, <1>2, Kinds
  <2>2. task'[t] = [task[t] EXCEPT !.step = "send", !.to = here]
    BY <1>1, <1>2 DEF Broadcast, HeardInv, NodeInv, TypeInv, TasksTyped, AllTasksOK
  <2>3. task'[t].kind = "run" /\ task'[t].to = here
    BY <2>1, <2>2 DEF PlainTask
  <2>. QED
    BY <2>3 DEF NoTask
<1>5. TestsOfRuns'
  <2>1. ASSUME NEW q \in Workers, task'[q] # NoTask
        PROVE  task'[q[1]].kind = "run" /\ task'[q[1]].step = "wait" /\ q[2] \in tested'[q[1]]
    <3>1. task[q] # NoTask
      BY <1>1, <1>3, <2>1
    <3>2. q[1] # t
      BY <3>1 DEF Wait, WorkersOf
    <3>3. task'[q[1]] = task[q[1]]
      BY <1>3, <3>2, WorkerParts
    <3>. QED
      BY <1>2, <3>1, <3>3 DEF HeardInv, HeardOK, TestsOfRuns
  <2>. QED
    BY <2>1 DEF TestsOfRuns
<1>6. \A d : ~Done(d, t)
  BY <1>2 DEF Done
<1>7. \A d \in owed[t] : ~Done(d, t)'
  BY <1>4 DEF Done, HeardInv, NodeInv, TypeInv, EventsTyped
<1>8. \A q \in Tasks : q # t => \A d : Done(d, q)' <=> Done(d, q)
  BY <1>3 DEF Done
<1>. QED
  BY <1>1, <1>2, <1>5, <1>6, <1>7, <1>8, SilentStep

LEMMA SentHeard ==
  ASSUME HeardInv, NEW p \in Runs \cup Workers, Sent(p)
  PROVE  HeardOK'
<1>1. p \in Tasks /\ Workers \subseteq Tasks /\ Runs \subseteq Tasks
  BY DEF Tasks
<1>2. task[p].step = "send" /\ task[p].to = {} /\ UNCHANGED <<heard, tested, owed>>
  BY DEF Sent, At, events
<1>3. Ends(p)
  <2>1. p \notin Requests
    BY DashboardAssumption DEF Workers
  <2>. QED
    BY <1>1, <2>1, Kinds DEF Sent, Is
<1>4. task'[p] = NoTask /\ \A q \in Tasks : q # p => task'[q] = task[q]
  BY <1>1, <1>3, OneTaskHeard DEF Ends
<1>5. \A q \in Runs \cup Workers, d \in Dashboards : Done(d, q)' <=> Done(d, q)
  BY <1>1, <1>2, <1>4 DEF Done
<1>6. TestsOfRuns'
  <2>1. ASSUME NEW q \in Workers, task'[q] # NoTask
        PROVE  task'[q[1]].kind = "run" /\ task'[q[1]].step = "wait" /\ q[2] \in tested'[q[1]]
    <3>1. q # p /\ task[q] # NoTask
      BY <1>1, <1>4, <2>1
    <3>2. task[q[1]].kind = "run" /\ task[q[1]].step = "wait" /\ q[2] \in tested[q[1]]
      BY <3>1 DEF HeardInv, HeardOK, TestsOfRuns
    <3>3. task'[q[1]] = task[q[1]]
      BY <1>2, <1>4, <3>2, WorkerParts
    <3>. QED
      BY <1>2, <3>2, <3>3
  <2>. QED
    BY <2>1 DEF TestsOfRuns
<1>7. \A t \in Runs : owed[t] \subseteq Dashboards
  BY DEF HeardInv, NodeInv, TypeInv, EventsTyped
<1>. QED
  BY <1>2, <1>5, <1>6, <1>7, WorkerParts, SilentStep

\* One more event.
LEMMA ToldOneMore ==
  ASSUME NEW S, NEW s \in Seq(S), NEW e \in S
  PROVE  /\ Append(s, e) \in Seq(S) /\ Len(Append(s, e)) = Len(s) + 1
         /\ \A k \in DOMAIN Append(s, e) : k # Len(s) + 1 => k \in DOMAIN s /\ Append(s, e)[k] = s[k]
         /\ Append(s, e)[Len(s) + 1] = e
         /\ Told(Append(s, e)) = Told(s) \cup {e}
         /\ IsFiniteSet(Told(s)) /\ Cardinality(Told(s)) = Len(s) /\ e \notin Told(s) =>
              IsFiniteSet(Told(Append(s, e))) /\ Cardinality(Told(Append(s, e))) = Len(s) + 1
<1>1. /\ Append(s, e) \in Seq(S) /\ Len(Append(s, e)) = Len(s) + 1
      /\ DOMAIN Append(s, e) = 1..Len(s) + 1 /\ DOMAIN s = 1..Len(s) /\ Len(s) \in Nat
  OBVIOUS
<1>2. /\ \A k \in 1..Len(s) : Append(s, e)[k] = s[k]
      /\ Append(s, e)[Len(s) + 1] = e
  OBVIOUS
<1>3. \A k \in DOMAIN Append(s, e) : k # Len(s) + 1 => k \in DOMAIN s /\ Append(s, e)[k] = s[k]
  BY <1>1, <1>2
<1>4. Told(Append(s, e)) = Told(s) \cup {e}
  <2>1. ASSUME NEW x \in Told(Append(s, e)) PROVE x \in Told(s) \cup {e}
    BY <1>2, <1>3, <2>1 DEF Told
  <2>2. ASSUME NEW x \in Told(s) PROVE x \in Told(Append(s, e))
    <3>1. PICK k \in 1..Len(s) : x = s[k]
      BY <1>1, <2>2 DEF Told
    <3>2. k \in DOMAIN Append(s, e) /\ Append(s, e)[k] = x
      BY <1>1, <1>2, <3>1
    <3>. QED
      BY <3>2 DEF Told
  <2>3. e \in Told(Append(s, e))
    <3>1. Len(s) + 1 \in DOMAIN Append(s, e)
      BY <1>1
    <3>. QED
      BY <1>2, <3>1 DEF Told
  <2>. QED
    BY <2>1, <2>2, <2>3
<1>5. ASSUME IsFiniteSet(Told(s)), Cardinality(Told(s)) = Len(s), e \notin Told(s)
      PROVE  IsFiniteSet(Told(s) \cup {e}) /\ Cardinality(Told(s) \cup {e}) = Len(s) + 1
  BY <1>5, FS_AddElement
<1>. QED
  BY <1>1, <1>2, <1>3, <1>4, <1>5

\* An event of p for a dashboard whose channel has room.
LEMMA HeardMore ==
  ASSUME HeardInv, NEW p \in Runs \cup Workers, NEW t \in Runs, NEW e \in Nodes \cup {"complete"},
         \/ p = t /\ e = "complete"
         \/ p = <<t, e>> /\ e \in Nodes,
         NEW d \in Dashboards, Send(p, d), UNCHANGED owed,
         heard' = [heard EXCEPT ![d][t] = Append(@, e)]
  PROVE  HeardOK'
<1>1. p \in Tasks /\ Workers \subseteq Tasks /\ Runs \subseteq Tasks /\ "complete" \notin Nodes
      /\ (p \in Workers => p \notin Runs)
  BY DashboardAssumption DEF Tasks, Workers
<1>2. /\ task[p].step = "send" /\ d \in task[p].to /\ task' = [task EXCEPT ![p].to = @ \ {d}]
      /\ UNCHANGED tested
  BY DEF Send, At
<1>3. PICK v : v = [task[p] EXCEPT !.to = @ \ {d}]
  OBVIOUS
<1>4. task'[p] = v /\ \A q \in Tasks : q # p => task'[q] = task[q]
  <2>1. task' = [task EXCEPT ![p] = v]
    BY <1>2, <1>3
  <2>. QED
    BY <1>1, <2>1, OneTaskHeard
<1>5. v.step = "send" /\ v.kind = task[p].kind /\ v.to = task[p].to \ {d} /\ task[p] # NoTask /\ v # NoTask
  <2>1. NodeTaskOK(p, task[p]) \/ PlainTask(p, task[p])
    BY <1>1, <1>2, Kinds DEF NoTask
  <2>2. {"kind", "step", "to"} \subseteq DOMAIN task[p]
    BY <2>1 DEF NodeTaskOK, PlainTask, NodeFields
  <2>3. v.step = "send" /\ v.kind = task[p].kind /\ v.to = task[p].to \ {d}
    BY <1>2, <1>3, <2>2
  <2>. QED
    BY <1>2, <2>3 DEF NoTask
<1>6. ~Done(d, p) /\ Done(d, p)' /\ \A c : c # d => (Done(c, p)' <=> Done(c, p))
  BY <1>2, <1>4, <1>5 DEF Done
<1>7. \A q \in Tasks : q # p => \A c : Done(c, q)' <=> Done(c, q)
  BY <1>4 DEF Done
<1>8. TestsOfRuns'
  <2>1. ASSUME NEW q \in Workers, task'[q] # NoTask
        PROVE  task'[q[1]].kind = "run" /\ task'[q[1]].step = "wait" /\ q[2] \in tested'[q[1]]
    <3>1. task[q] # NoTask
      BY <1>1, <1>4, <1>5, <2>1
    <3>2. task[q[1]].kind = "run" /\ task[q[1]].step = "wait" /\ q[2] \in tested[q[1]]
      BY <3>1 DEF HeardInv, HeardOK, TestsOfRuns
    <3>3. task'[q[1]] = task[q[1]]
      BY <1>2, <1>4, <3>2, WorkerParts
    <3>. QED
      BY <1>2, <3>2, <3>3
  <2>. QED
    BY <2>1 DEF TestsOfRuns
<1>9. PICK s \in Seq(Nodes \cup {"complete"}) : s = heard[d][t]
  BY DEF HeardInv, HeardOK, Heard
<1>10. heard' \in Heard /\ heard'[d][t] = Append(s, e)
       /\ \A c \in Dashboards, r \in Runs : c # d \/ r # t => heard'[c][r] = heard[c][r]
  <2>1. Append(s, e) \in Seq(Nodes \cup {"complete"})
    BY <1>9
  <2>. QED
    BY <1>9, <2>1 DEF HeardInv, HeardOK, Heard
<1>11. CompleteIsLast(d, t) /\ ToldOnce(d, t)
  BY DEF HeardInv, HeardOK
<1>12. ~Done(d, t) /\ (e = "complete" => p = t) /\ (e \in Nodes => p = <<t, e>> /\ e \in tested[t])
  <2>1. CASE p = t /\ e = "complete"
    BY <1>1, <1>6, <2>1
  <2>2. CASE p = <<t, e>> /\ e \in Nodes
    <3>1. p \in Workers /\ p[1] = t /\ p[2] = e
      BY <2>2 DEF Workers
    <3>2. task[t].kind = "run" /\ task[t].step = "wait" /\ e \in tested[t]
      BY <1>5, <3>1 DEF HeardInv, HeardOK, TestsOfRuns
    <3>. QED
      BY <1>1, <2>2, <3>2 DEF Done, NoTask
  <2>. QED
    BY <2>1, <2>2
<1>13. \A k \in DOMAIN s : s[k] # "complete"
  BY <1>9, <1>11, <1>12 DEF CompleteIsLast
<1>14. CompleteIsLast(d, t)'
  <2>1. ASSUME NEW k \in DOMAIN Append(s, e), Append(s, e)[k] = "complete"
        PROVE  k = Len(Append(s, e)) /\ Done(d, t)'
    <3>1. k = Len(s) + 1 /\ e = "complete"
      BY <1>13, <2>1, ToldOneMore
    <3>. QED
      BY <1>6, <1>12, <3>1, ToldOneMore
  <2>. QED
    BY <1>10, <2>1 DEF CompleteIsLast
<1>15. ASSUME d \in owed[t] PROVE ToldOnce(d, t)'
  <2>1. /\ \A n \in Nodes : n \in Told(s) <=> n \in tested[t] /\ Done(d, <<t, n>>)
        /\ ("complete" \in Told(s) <=> Done(d, t))
        /\ IsFiniteSet(Told(s)) /\ Cardinality(Told(s)) = Len(s)
    BY <1>9, <1>11, <1>15 DEF ToldOnce
  <2>2. e \notin Told(s)
    BY <1>6, <1>12, <2>1
  <2>3. Told(Append(s, e)) = Told(s) \cup {e} /\ IsFiniteSet(Told(Append(s, e)))
        /\ Cardinality(Told(Append(s, e))) = Len(Append(s, e))
    BY <2>1, <2>2, ToldOneMore
  <2>4. ASSUME NEW n \in Nodes
        PROVE  n \in Told(Append(s, e)) <=> n \in tested'[t] /\ Done(d, <<t, n>>)'
    <3>1. <<t, n>> \in Workers /\ <<t, n>> \in Tasks
      BY <1>1 DEF Workers
    <3>2. CASE n = e
      BY <1>2, <1>6, <1>12, <2>3, <3>2
    <3>3. CASE n # e
      <4>1. <<t, n>> # p
        BY <1>1, <1>12, <3>1, <3>3
      <4>. QED
        BY <1>2, <1>7, <2>1, <2>3, <3>1, <3>3, <4>1
    <3>. QED
      BY <3>2, <3>3
  <2>5. "complete" \in Told(Append(s, e)) <=> Done(d, t)'
    <3>1. CASE e = "complete"
      BY <1>6, <1>12, <2>3, <3>1
    <3>2. CASE e # "complete"
      <4>1. e \in Nodes /\ t # p
        BY <1>1, <1>12, <3>2, WorkerParts DEF Workers
      <4>. QED
        BY <1>1, <1>7, <2>1, <2>3, <3>2, <4>1
    <3>. QED
      BY <3>1, <3>2
  <2>. QED
    BY <1>10, <2>3, <2>4, <2>5 DEF ToldOnce
<1>16. ASSUME NEW c \in Dashboards, NEW r \in Runs, c # d \/ r # t
       PROVE  CompleteIsLast(c, r)' /\ ToldOnce(c, r)'
  <2>1. CompleteIsLast(c, r) /\ ToldOnce(c, r) /\ heard'[c][r] = heard[c][r]
    BY <1>10, <1>16 DEF HeardInv, HeardOK
  <2>2. Done(c, r)' <=> Done(c, r)
    <3>1. CASE c # d
      BY <1>1, <1>6, <1>7, <3>1
    <3>2. CASE r # t
      <4>1. p = t \/ p \in Workers
        BY <1>12 DEF Workers
      <4>2. r # p /\ r \in Tasks
        BY <1>1, <3>2, <4>1
      <4>. QED
        BY <1>7, <4>2
    <3>. QED
      BY <1>16, <3>1, <3>2
  <2>3. ASSUME NEW n \in Nodes PROVE Done(c, <<r, n>>)' <=> Done(c, <<r, n>>)
    <3>1. <<r, n>> \in Workers /\ <<r, n>> \in Tasks /\ <<r, n>>[1] = r
      BY <1>1 DEF Workers
    <3>2. CASE c # d
      BY <1>6, <1>7, <3>1, <3>2
    <3>3. CASE r # t
      <4>1. <<r, n>> # p
        BY <1>1, <1>12, <3>1, <3>3
      <4>. QED
        BY <1>7, <3>1, <4>1
    <3>. QED
      BY <1>16, <3>2, <3>3
  <2>. QED
    BY <1>2, <2>1, <2>2, <2>3 DEF CompleteIsLast, ToldOnce
<1>17. ToldOnce(d, t)'
  <2>1. CASE d \in owed[t]
    BY <1>15, <2>1
  <2>2. CASE d \notin owed[t]
    BY <2>2 DEF ToldOnce
  <2>. QED
    BY <2>1, <2>2
<1>18. \A c \in Dashboards, r \in Runs : CompleteIsLast(c, r)' /\ ToldOnce(c, r)'
  <2>1. ASSUME NEW c \in Dashboards, NEW r \in Runs PROVE CompleteIsLast(c, r)' /\ ToldOnce(c, r)'
    <3>1. CASE c = d /\ r = t
      BY <1>14, <1>17, <3>1
    <3>2. CASE c # d \/ r # t
      BY <1>16, <3>2
    <3>. QED
      BY <3>1, <3>2
  <2>. QED
    BY <2>1
<1>. QED
  BY <1>8, <1>10, <1>18 DEF HeardOK

LEMMA SendHeard ==
  ASSUME HeardInv, NEW p \in Runs \cup Workers, NEW d \in Dashboards, Send(p, d)
  PROVE  HeardOK'
<1>1. p \in Tasks /\ Workers \subseteq Tasks /\ Runs \subseteq Tasks /\ (p \in Workers => p \notin Runs)
  BY DashboardAssumption DEF Tasks, Workers
<1>2. CASE waiting[d] < Buffer
  <2>1. Hears(d, p) /\ UNCHANGED owed
    BY <1>2 DEF Send
  <2>2. CASE p \in Runs
    <3>1. heard' = [heard EXCEPT ![d][p] = Append(@, "complete")]
      BY <2>1, <2>2 DEF Hears
    <3>2. "complete" \in Nodes \cup {"complete"}
      OBVIOUS
    <3>. QED
      BY <2>1, <2>2, <3>1, <3>2, HeardMore
  <2>3. CASE p \in Workers
    <3>1. heard' = [heard EXCEPT ![d][p[1]] = Append(@, p[2])]
      BY <1>1, <2>1, <2>3 DEF Hears
    <3>2. p[1] \in Runs /\ p[2] \in Nodes /\ p = <<p[1], p[2]>>
      BY <2>3, WorkerParts
    <3>. QED
      BY <2>1, <3>1, <3>2, HeardMore
  <2>. QED
    BY <2>2, <2>3
<1>3. CASE ~(waiting[d] < Buffer)
  <2>1. /\ task[p].step = "send" /\ d \in task[p].to /\ task' = [task EXCEPT ![p].to = @ \ {d}]
        /\ UNCHANGED <<heard, tested>> /\ owed' = [t \in Runs |-> owed[t] \ {d}]
    BY <1>3 DEF Send, At
  <2>2. PICK v : v = [task[p] EXCEPT !.to = @ \ {d}]
    OBVIOUS
  <2>3. task'[p] = v /\ \A q \in Tasks : q # p => task'[q] = task[q]
    <3>1. task' = [task EXCEPT ![p] = v]
      BY <2>1, <2>2
    <3>. QED
      BY <1>1, <3>1, OneTaskHeard
  <2>4. v.step = "send" /\ v.to = task[p].to \ {d} /\ task[p] # NoTask /\ v # NoTask
    <3>1. NodeTaskOK(p, task[p]) \/ PlainTask(p, task[p])
      BY <1>1, <2>1, Kinds DEF NoTask
    <3>2. {"step", "to"} \subseteq DOMAIN task[p]
      BY <3>1 DEF NodeTaskOK, PlainTask, NodeFields
    <3>3. v.step = "send" /\ v.to = task[p].to \ {d}
      BY <2>1, <2>2, <3>2
    <3>. QED
      BY <2>1, <3>3 DEF NoTask
  <2>5. \A c \in Dashboards : c # d => (Done(c, p)' <=> Done(c, p))
    BY <2>1, <2>3, <2>4 DEF Done
  <2>6. \A c \in Dashboards : Done(c, p) => Done(c, p)'
    BY <2>1, <2>3, <2>4 DEF Done
  <2>7. \A q \in Tasks : q # p => \A c : Done(c, q)' <=> Done(c, q)
    BY <2>3 DEF Done
  <2>8. \A t \in Runs : owed'[t] \subseteq owed[t] /\ owed'[t] \subseteq Dashboards \ {d}
    BY <2>1 DEF HeardInv, NodeInv, TypeInv, EventsTyped
  <2>9. TestsOfRuns'
    <3>1. ASSUME NEW q \in Workers, task'[q] # NoTask
          PROVE  task'[q[1]].kind = "run" /\ task'[q[1]].step = "wait" /\ q[2] \in tested'[q[1]]
      <4>1. task[q] # NoTask
        BY <1>1, <2>3, <2>4, <3>1
      <4>2. task[q[1]].kind = "run" /\ task[q[1]].step = "wait" /\ q[2] \in tested[q[1]]
        BY <4>1 DEF HeardInv, HeardOK, TestsOfRuns
      <4>3. task'[q[1]] = task[q[1]]
        BY <2>1, <2>3, <4>2, WorkerParts
      <4>. QED
        BY <2>1, <4>2, <4>3
    <3>. QED
      BY <3>1 DEF TestsOfRuns
  <2>10. \A q \in Runs \cup Workers, c \in Dashboards : Done(c, q) => Done(c, q)'
    BY <1>1, <2>6, <2>7
  <2>11. \A t \in Runs : \A c \in owed'[t] : Done(c, t)' => Done(c, t)
    BY <1>1, <2>5, <2>7, <2>8
  <2>12. \A q \in Workers : \A c \in owed'[q[1]] : Done(c, q)' => Done(c, q)
    BY <1>1, <2>5, <2>7, <2>8, WorkerParts
  <2>. QED
    BY <2>1, <2>8, <2>9, <2>10, <2>11, <2>12, SilentStep
<1>. QED
  BY <1>2, <1>3

\* A run begins when the last one of its goroutine is over: nobody has heard of it
\* and all of its tests are ahead.
LEMMA RunHeard ==
  ASSUME HeardInv, NEW t \in Runs, NEW S \in SUBSET Nodes, RunTests(t, S)
  PROVE  HeardOK'
<1>1. /\ t \in Tasks /\ Workers \subseteq Tasks /\ Runs \subseteq Tasks /\ task[t] = NoTask
      /\ t \notin Workers
  BY DashboardAssumption DEF RunTests, Arrives, Tasks, Workers
<1>2. /\ heard' = [d \in Dashboards |-> [heard[d] EXCEPT ![t] = <<>>]]
      /\ owed' = [owed EXCEPT ![t] = here] /\ tested' = [tested EXCEPT ![t] = S]
  BY DEF RunTests
<1>3. task'[t].kind = "run" /\ task'[t].step = "wait" /\ task'[t] # NoTask
  BY <1>1 DEF RunTests, NoTask
<1>4. ASSUME NEW p \in Workers, p[1] = t, p[2] \in S
      PROVE  task'[p].step = "queue" /\ task'[p] # NoTask
  <2>1. task'[p] = NodeTask("test", "queue", {p[2]})
    BY <1>1, <1>4 DEF RunTests
  <2>. QED
    BY <2>1 DEF NodeTask, NoTask
<1>5. ASSUME NEW p \in Tasks, p # t, ~(p \in Workers /\ p[1] = t /\ p[2] \in S)
      PROVE  task'[p] = task[p]
  BY <1>5 DEF RunTests
<1>6. \A p \in Workers : p[1] = t => task[p] = NoTask
  BY <1>1 DEF HeardInv, HeardOK, TestsOfRuns, NoTask
<1>7. heard' \in Heard
  BY <1>2 DEF HeardInv, HeardOK, Heard
<1>8. TestsOfRuns'
  <2>1. ASSUME NEW p \in Workers, task'[p] # NoTask
        PROVE  task'[p[1]].kind = "run" /\ task'[p[1]].step = "wait" /\ p[2] \in tested'[p[1]]
    <3>1. CASE p[1] = t
      <4>1. p[2] \in S
        BY <1>1, <1>5, <1>6, <2>1, <3>1
      <4>. QED
        BY <1>2, <1>3, <3>1, <4>1 DEF HeardInv, NodeInv, TypeInv, EventsTyped
    <3>2. CASE p[1] # t
      <4>1. task'[p] = task[p]
        BY <1>1, <1>5, <3>2
      <4>2. task'[p[1]] = task[p[1]]
        BY <1>5, <3>2, WorkerParts
      <4>3. tested'[p[1]] = tested[p[1]]
        BY <1>2, <3>2, WorkerParts DEF HeardInv, NodeInv, TypeInv, EventsTyped
      <4>. QED
        BY <2>1, <4>1, <4>2, <4>3 DEF HeardInv, HeardOK, TestsOfRuns
    <3>. QED
      BY <3>1, <3>2
  <2>. QED
    BY <2>1 DEF TestsOfRuns
<1>9. ASSUME NEW d \in Dashboards PROVE CompleteIsLast(d, t)' /\ ToldOnce(d, t)'
  <2>1. heard'[d][t] = <<>> /\ Told(<<>>) = {} /\ tested'[t] = S
    BY <1>2 DEF Told, HeardInv, HeardOK, Heard, NodeInv, TypeInv, EventsTyped
  <2>2. ~Done(d, t)'
    BY <1>3 DEF Done
  <2>3. ASSUME NEW n \in S PROVE ~Done(d, <<t, n>>)'
    <3>1. <<t, n>> \in Workers /\ <<t, n>>[1] = t /\ <<t, n>>[2] = n
      BY DEF Workers
    <3>2. task'[<<t, n>>].step = "queue" /\ task'[<<t, n>>] # NoTask
      BY <1>4, <3>1
    <3>. QED
      BY <3>2 DEF Done
  <2>4. IsFiniteSet(Told(<<>>)) /\ Cardinality(Told(<<>>)) = 0 /\ Len(<<>>) = 0
    BY <2>1, FS_EmptySet
  <2>. QED
    BY <2>1, <2>2, <2>3, <2>4 DEF CompleteIsLast, ToldOnce
<1>10. ASSUME NEW d \in Dashboards, NEW r \in Runs, r # t
       PROVE  CompleteIsLast(d, r)' /\ ToldOnce(d, r)'
  <2>1. heard'[d][r] = heard[d][r] /\ owed'[r] = owed[r] /\ tested'[r] = tested[r]
    BY <1>2, <1>10 DEF HeardInv, HeardOK, Heard, NodeInv, TypeInv, EventsTyped
  <2>2. Done(d, r)' <=> Done(d, r)
    <3>1. task'[r] = task[r]
      BY <1>5, <1>10, WorkerParts DEF Tasks
    <3>. QED
      BY <3>1 DEF Done
  <2>3. ASSUME NEW n \in Nodes PROVE Done(d, <<r, n>>)' <=> Done(d, <<r, n>>)
    <3>1. <<r, n>> \in Workers /\ <<r, n>>[1] = r
      BY DEF Workers
    <3>2. task'[<<r, n>>] = task[<<r, n>>]
      BY <1>1, <1>5, <1>10, <3>1
    <3>. QED
      BY <3>2 DEF Done
  <2>4. CompleteIsLast(d, r) /\ ToldOnce(d, r)
    BY DEF HeardInv, HeardOK
  <2>. QED
    BY <2>1, <2>2, <2>3, <2>4 DEF CompleteIsLast, ToldOnce
<1>. QED
  BY <1>7, <1>8, <1>9, <1>10 DEF HeardOK

LEMMA NextHeard == HeardInv /\ [Next]_vars => HeardInv'
<1>. SUFFICES ASSUME HeardInv, [Next]_vars PROVE HeardOK'
  BY NextNodes DEF HeardInv
<1>1. CASE UNCHANGED vars
  BY <1>1, RequestsSilent DEF vars, events
<1>2. ASSUME NEW p \in Requests, Call(p) PROVE HeardOK'
  <2>1. \A q \in Runs \cup Workers : q \in Tasks /\ q \notin Requests
    BY DashboardAssumption DEF Tasks, Workers
  <2>2. \A q \in Runs \cup Workers : ~Setting(q)
    BY <2>1, Kinds DEF Setting
  <2>3. DOMAIN task = Tasks
    BY DEF HeardInv, NodeInv, TypeInv, TasksTyped, AllTasksOK
  <2>4. CASE SetConfig(p) \/ SetTunnel(p)
    <3>1. PICK kind, ask : Set(p, kind, ask)
      BY <2>4 DEF SetConfig, SetTunnel
    <3>2. \A q \in Runs \cup Workers : task'[q] = task[q]
      BY <2>1, <2>2, <3>1 DEF Set
    <3>. QED
      BY <3>1, <3>2, RequestsSilent DEF Set, events
  <2>5. ASSUME NEW n \in Nodes, NEW kind, Act(p, kind, n) PROVE HeardOK'
    <3>1. \A q \in Runs \cup Workers : task'[q] = task[q]
      BY <2>1, <2>3, <2>5 DEF Act
    <3>. QED
      BY <2>5, <3>1, RequestsSilent DEF Act, events
  <2>6. ASSUME NEW S, NEW only, NEW auto, Pick(p, S, only, auto) PROVE HeardOK'
    <3>1. \A q \in Runs \cup Workers : task'[q] = task[q]
      BY <2>1, <2>3, <2>6 DEF Pick
    <3>. QED
      BY <2>6, <3>1, RequestsSilent DEF Pick, events
  <2>7. ASSUME NEW S, Refresh(p, S) PROVE HeardOK'
    <3>1. \A q \in Runs \cup Workers : task'[q] = task[q]
      BY <2>1, <2>3, <2>7 DEF Refresh
    <3>. QED
      BY <2>7, <3>1, RequestsSilent DEF Refresh, events
  <2>. QED
    BY <1>2, <2>4, <2>5, <2>6, <2>7 DEF Call
<1>3. ASSUME NEW t \in Runs, NEW S \in SUBSET Nodes, RunTests(t, S) PROVE HeardOK'
  BY <1>3, RunHeard
<1>4. ASSUME NEW p \in Tasks, Step(p) PROVE HeardOK'
  <2>1. CASE p \in Requests
    BY <1>4, <2>1, RequestStepHeard
  <2>2. ASSUME p \in Runs \cup Workers PROVE HeardOK'
    <3>1. TestStep(p)
      BY <1>4, <2>2, StepOfRun
    <3>2. CASE Acquire(p) \/ TestNode(p) \/ ReadRunning(p) \/ ReadPort(p) \/ UpdateNodeRuntime(p)
      <4>1. task[p].step \in {"queue", "test", "running", "port", "update"}
        BY <3>2 DEF Acquire, TestNode, ReadRunning, ReadPort, UpdateNodeRuntime, At
      <4>2. p \notin Runs
        <5>1. CASE task[p] = NoTask
          BY <4>1, <5>1 DEF NoTask
        <5>2. ASSUME p \in Runs, task[p] # NoTask PROVE FALSE
          <6>1. task[p].kind = "run" /\ task[p].step \in StepsOf(task[p].kind)
            BY <5>2, Kinds, StepOfTask DEF PlainTask, HeardInv
          <6>. QED
            BY <4>1, <6>1 DEF StepsOf
        <5>. QED
          BY <5>1, <5>2
      <4>. QED
        BY <2>2, <3>2, <4>2, WorkerGoesHeard
    <3>3. CASE Wait(p)
      BY <3>3, WaitHeard DEF Wait
    <3>4. CASE Sent(p)
      BY <2>2, <3>4, SentHeard
    <3>5. ASSUME NEW d \in Dashboards, Send(p, d) PROVE HeardOK'
      BY <2>2, <3>5, SendHeard
    <3>. QED
      BY <3>1, <3>2, <3>3, <3>4, <3>5 DEF TestStep
  <2>. QED
    BY <2>1, <2>2 DEF Tasks
<1>5. ASSUME NEW p \in Tasks, Forget(p) PROVE HeardOK'
  <2>1. \A q \in Runs \cup Workers : q \in Tasks /\ q \notin Requests
    BY DashboardAssumption DEF Tasks, Workers
  <2>2. \A q \in Runs \cup Workers : q # p /\ ~Is(q, "pick")
    BY <1>5, <2>1, Kinds DEF Is, Forget
  <2>3. \A q \in Runs \cup Workers : task'[q] = task[q]
    BY <1>5, <2>1, <2>2 DEF Forget
  <2>. QED
    BY <1>5, <2>3, RequestsSilent DEF Forget, events
<1>6. ASSUME NEW d \in Dashboards, Join(d) \/ Leave(d) \/ Flush(d) PROVE HeardOK'
  <2>1. \A t \in Runs : owed'[t] \subseteq owed[t]
    BY <1>6 DEF Join, Leave, Flush
  <2>. QED
    BY <1>6, <2>1, RequestsSilent DEF Join, Leave, Flush
<1>. QED
  BY <1>1, <1>2, <1>3, <1>4, <1>5, <1>6 DEF Next

\* Whoever listens from the beginning of a run, and does not fall behind, is sent
\* each result once and then the completion, when all of them are in the store
\* (server.go:75-80, 445-449, tester.go:138-163).
THEOREM HeardCorrect == Spec => []RunIsHeard
<1>1. Init => HeardInv
  BY InitHeard
<1>2. HeardInv /\ [Next]_vars => HeardInv'
  BY NextHeard
<1>3. HeardInv => RunIsHeard
  <2>. SUFFICES ASSUME HeardInv, NEW t \in Runs, NEW d \in Dashboards
                PROVE  /\ \A k \in DOMAIN heard[d][t] :
                            heard[d][t][k] = "complete" =>
                              k = Len(heard[d][t]) /\ \A p \in WorkersOf(t) : task[p] = NoTask
                       /\ d \in owed[t] /\ task[t] = NoTask =>
                            /\ Len(heard[d][t]) = Cardinality(tested[t]) + 1
                            /\ {heard[d][t][k] : k \in DOMAIN heard[d][t]} = tested[t] \cup {"complete"}
    BY DEF RunIsHeard
  <2>1. CompleteIsLast(d, t) /\ ToldOnce(d, t)
    BY DEF HeardInv, HeardOK
  <2>2. Done(d, t) => \A p \in WorkersOf(t) : task[p] = NoTask
    <3>1. Done(d, t) => task[t].step # "wait"
      BY DEF Done, NoTask
    <3>2. ASSUME NEW p \in WorkersOf(t), task[p] # NoTask PROVE task[t].step = "wait"
      BY <3>2 DEF WorkersOf, HeardInv, HeardOK, TestsOfRuns
    <3>. QED
      BY <3>1, <3>2
  <2>3. \A k \in DOMAIN heard[d][t] :
          heard[d][t][k] = "complete" =>
            k = Len(heard[d][t]) /\ \A p \in WorkersOf(t) : task[p] = NoTask
    BY <2>1, <2>2 DEF CompleteIsLast
  <2>4. ASSUME d \in owed[t], task[t] = NoTask
        PROVE  /\ Len(heard[d][t]) = Cardinality(tested[t]) + 1
               /\ {heard[d][t][k] : k \in DOMAIN heard[d][t]} = tested[t] \cup {"complete"}
    <3>1. /\ \A n \in Nodes : n \in Told(heard[d][t]) <=> n \in tested[t] /\ Done(d, <<t, n>>)
          /\ ("complete" \in Told(heard[d][t]) <=> Done(d, t))
          /\ IsFiniteSet(Told(heard[d][t])) /\ Cardinality(Told(heard[d][t])) = Len(heard[d][t])
      BY <2>1, <2>4 DEF ToldOnce
    <3>2. Done(d, t)
      BY <2>4 DEF Done
    <3>3. \A n \in Nodes : Done(d, <<t, n>>)
      <4>1. \A n \in Nodes : <<t, n>> \in WorkersOf(t)
        BY DEF WorkersOf, Workers
      <4>. QED
        BY <2>2, <3>2, <4>1 DEF Done
    <3>4. tested[t] \subseteq Nodes
      BY DEF HeardInv, NodeInv, TypeInv, EventsTyped
    <3>5. Told(heard[d][t]) \subseteq Nodes \cup {"complete"}
      <4>1. heard[d][t] \in Seq(Nodes \cup {"complete"})
        BY DEF HeardInv, HeardOK, Heard
      <4>. QED
        BY <4>1 DEF Told
    <3>6. Told(heard[d][t]) = tested[t] \cup {"complete"}
      BY <3>1, <3>2, <3>3, <3>4, <3>5
    <3>7. "complete" \notin tested[t]
      BY <3>4, DashboardAssumption
    <3>8. IsFiniteSet(tested[t])
      <4>1. tested[t] \subseteq Told(heard[d][t])
        BY <3>6
      <4>. QED
        BY <3>1, <4>1, FS_Subset
    <3>9. Cardinality(tested[t] \cup {"complete"}) = Cardinality(tested[t]) + 1
      BY <3>7, <3>8, FS_AddElement
    <3>. QED
      BY <3>1, <3>6, <3>9 DEF Told
  <2>. QED
    BY <2>3, <2>4
<1>. QED
  BY <1>1, <1>2, <1>3, PTL DEF Spec

-----------------------------------------------------------------------------
(* A run goes on                                                            *)

LEMMA OneCanGo ==
  ASSUME HeardInv, NEW t \in Runs, Is(t, "run"), Unlocked
  PROVE  \E p \in WorkersOf(t) \cup {t} : CanTestStep(p)
<1>1. \A p \in Tasks : TaskOK(p, task[p]) /\ task[p].step \in StepsOf(task[p].kind)
                       /\ (At(p, "send") => task[p].to \subseteq Dashboards)
  BY DEF HeardInv, NodeInv, TypeInv, TasksTyped, AllTasksOK, EventsTyped, TaskOK, At
<1>2. t \in Tasks /\ \A p \in WorkersOf(t) : p \in Tasks /\ p \in Workers /\ p[1] = t
  BY WorkerParts DEF Tasks, WorkersOf
<1>3. task[t].step \in {"wait", "send"}
  BY <1>1, <1>2 DEF Is, StepsOf
<1>4. \A p \in Tasks : At(p, "send") => CanTestStep(p)
  BY <1>1 DEF CanTestStep
<1>5. \A p \in WorkersOf(t) :
        \/ task[p] = NoTask
        \/ task[p].step \in {"queue", "test", "running", "port", "update", "send"}
  <2>. SUFFICES ASSUME NEW p \in WorkersOf(t), task[p] # NoTask
                PROVE  task[p].step \in {"queue", "test", "running", "port", "update", "send"}
    OBVIOUS
  <2>1. task[p].kind = "test"
    BY <1>2, Kinds
  <2>. QED
    BY <1>1, <1>2, <2>1 DEF StepsOf
<1>6. CASE task[t].step = "send"
  BY <1>2, <1>4, <1>6 DEF At
<1>7. CASE task[t].step = "wait" /\ \A p \in WorkersOf(t) : task[p] = NoTask
  BY <1>7 DEF CanTestStep, At
<1>8. ASSUME NEW p \in WorkersOf(t), task[p].step \in {"test", "running", "port", "update", "send"}
      PROVE  CanTestStep(p)
  BY <1>2, <1>4, <1>8, DashboardAssumption DEF CanTestStep, At
\* If no test runs the semaphore is free.
<1>9. ASSUME NEW p \in WorkersOf(t), At(p, "queue"),
             \A q \in WorkersOf(t) : task[q] = NoTask \/ At(q, "queue")
      PROVE  CanTestStep(p)
  <2>1. {q \in WorkersOf(t) : ~At(q, "queue") /\ ~At(q, "none")} = {}
    BY <1>9 DEF At, NoTask
  <2>2. Cardinality({q \in WorkersOf(t) : ~At(q, "queue") /\ ~At(q, "none")}) < Concurrency
    BY <2>1, FS_EmptySet, DashboardAssumption
  <2>. QED
    BY <1>2, <1>9, <2>2 DEF CanTestStep, PlaceFree
<1>. QED
  BY <1>3, <1>5, <1>6, <1>7, <1>8, <1>9 DEF At

\* However many tests a run has, and whatever else goes on, one of its goroutines
\* can go on unless a stop holds m.mu (tester.go:132-163, server.go:446,
\* manager.go:116-124).
THEOREM GoesOnCorrect == Spec => []RunGoesOn
<1>1. Init => HeardInv
  BY InitHeard
<1>2. HeardInv /\ [Next]_vars => HeardInv'
  BY NextHeard
<1>3. HeardInv => RunGoesOn
  BY OneCanGo DEF RunGoesOn
<1>. QED
  BY <1>1, <1>2, <1>3, PTL DEF Spec

\* So a run goes on to its end, and who listens hears of all of it.
THEOREM RunsComplete == Spec => []RunCompletes
  BY HeardCorrect, GoesOnCorrect, PTL DEF RunCompletes
=============================================================================
