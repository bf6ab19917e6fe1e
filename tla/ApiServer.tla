----------------------------- MODULE ApiServer -----------------------------
(***************************************************************************)
(* pkg/api/server.go: the requests that change subscriptions and nodes.    *)
(* Each is several calls on the store and the inbound manager, every call  *)
(* atomic under the lock of its callee and nothing held in between, so     *)
(* requests interleave and act on copies they took earlier.                *)
(*                                                                         *)
(* The manager is its set of running nodes (NodeManager has the rest), the *)
(* store its content in memory (Store has the file); a node's latency,     *)
(* exit address and error travel with its running flag and are left out.   *)
(***************************************************************************)
EXTENDS StoreData

CONSTANTS Requests  \* goroutines serving a request, or testing for one

VARIABLES memory,   \* the store
          running,  \* the manager's running nodes
          req,      \* per goroutine: its request
          used,     \* subscription IDs ever given out (random UUIDs)
          since,    \* history: per goroutine, nodes started since its request came
          gone,     \* history: subscriptions deleted with no load of theirs under way
          repeats,  \* history: per subscription, entries of the list last stored that
                    \* repeat an earlier one
          outdated, \* history: refreshes whose copy of their subscription is older
                    \* than its list
          skewed    \* history: subscriptions whose entry half a load has left behind

countHistories == <<repeats, outdated, skewed>>
histories == <<since, gone, countHistories>>
vars == <<memory, running, req, used, histories>>

\* step: the next call.  copy: of the subscription.  list, todo: nodes the
\* request is about, nodes still to do.  on: those it takes to be running.
\* length: of a list that was parsed, the number of its entries.
Request ==
  [step : {"none", "fetch", "save", "saveError", "replace", "deleteStop", "check",
           "start", "startBatch", "stop", "stopAll", "list", "update"},
   sub  : Subs \cup {"none"},
   copy : Subscription,
   list : SUBSET Nodes, todo : SUBSET Nodes, on : SUBSET Nodes,
   length : 0..(Cardinality(Nodes) + MaxRepeats),
   isImport : BOOLEAN, isAuto : BOOLEAN]

NoRequest ==
  [step |-> "none", sub |-> "none", copy |-> [count |-> 0, failed |-> FALSE],
   list |-> {}, todo |-> {}, on |-> {}, length |-> 0, isImport |-> FALSE, isAuto |-> FALSE]

Stored == DOMAIN memory.nodes
StoredOf(s) == Stored \cap NodesOf(s)

TypeOK ==
  /\ memory \in [subs : SubscriptionMap, nodes : NodeMap]
  /\ running \subseteq Nodes
  /\ req \in [Requests -> Request]
  /\ used \subseteq Subs
  /\ since \in [Requests -> SUBSET Nodes]
  /\ gone \subseteq Subs
  /\ repeats \in [Subs -> 0..MaxRepeats]
  /\ outdated \subseteq Requests
  /\ skewed \subseteq Subs

Init ==
  /\ memory = [subs |-> << >>, nodes |-> << >>]
  /\ running = {}
  /\ req = [r \in Requests |-> NoRequest]
  /\ used = {}
  /\ since = [r \in Requests |-> {}]
  /\ gone = {}
  /\ repeats = [s \in Subs |-> 0]
  /\ outdated = {}
  /\ skewed = {}

-----------------------------------------------------------------------------
At(r, step) == req[r].step = step

Arrive(r, request) ==
  /\ At(r, "none")
  /\ req' = [req EXCEPT ![r] = request]
  /\ since' = [since EXCEPT ![r] = {}]
  /\ outdated' = outdated \ {r}
  /\ UNCHANGED <<memory, running, gone, repeats, skewed>>

Finish(r) == req' = [req EXCEPT ![r] = NoRequest]

Loading(r, s) == req[r].sub = s /\ req[r].step \in {"fetch", "save", "saveError", "replace"}

-----------------------------------------------------------------------------
(* POST /api/subscriptions and POST /api/subscriptions/:id/refresh.        *)

\* The content is parsed before anything is stored; it has a node at least.
Import(r, s, S, length) ==
  /\ s \notin used
  /\ used' = used \cup {s}
  /\ Arrive(r, [NoRequest EXCEPT !.step = "save", !.sub = s, !.list = S, !.length = length,
                                 !.isImport = TRUE,
                                 !.copy = [count |-> length, failed |-> FALSE]])

Refresh(r, s) ==
  /\ s \in DOMAIN memory.subs
  /\ Arrive(r, [NoRequest EXCEPT !.step = "fetch", !.sub = s, !.copy = memory.subs[s]])
  /\ UNCHANGED used

Fetch(r, S, length) ==
  /\ At(r, "fetch")
  /\ req' = [req EXCEPT ![r].step = "save", ![r].list = S, ![r].length = length,
                        ![r].copy = [count |-> length, failed |-> FALSE]]
  /\ UNCHANGED <<memory, running, used, histories>>

FetchFails(r) ==
  /\ At(r, "fetch")
  /\ req' = [req EXCEPT ![r].step = "saveError", ![r].copy.failed = TRUE]
  /\ UNCHANGED <<memory, running, used, histories>>

\* A failure to write the file stops an import and is ignored by a refresh.
Save(r, fails) ==
  /\ At(r, "save")
  /\ memory' = SaveSubscription(memory, req[r].sub, req[r].copy)
  /\ IF fails /\ req[r].isImport
       THEN /\ Finish(r)
            /\ skewed' = skewed \cup {req[r].sub}
       ELSE /\ req' = [req EXCEPT ![r].step = "replace"]
            /\ UNCHANGED skewed
  /\ UNCHANGED <<running, used, since, gone, repeats, outdated>>

\* Mutant: what a failed refresh puts back counts the nodes as none.
SaveErrorForgetsCount(r) ==
  /\ At(r, "saveError")
  /\ memory' = SaveSubscription(memory, req[r].sub, [count |-> 0, failed |-> TRUE])
  /\ skewed' = IF r \in outdated THEN skewed \cup {req[r].sub} ELSE skewed
  /\ Finish(r)
  /\ UNCHANGED <<running, used, since, gone, repeats, outdated>>

\* The copy goes back as it was when the request came, with the error.
SaveError(r) ==
  /\ At(r, "saveError")
  /\ memory' = SaveSubscription(memory, req[r].sub, req[r].copy)
  /\ skewed' = IF r \in outdated THEN skewed \cup {req[r].sub} ELSE skewed
  /\ Finish(r)
  /\ UNCHANGED <<running, used, since, gone, repeats, outdated>>

\* The nodes of s are others than when its copies were taken.
ListChanges(s, repeated) ==
  /\ repeats' = [repeats EXCEPT ![s] = repeated]
  /\ outdated' = outdated \cup {q \in Requests : Loading(q, s)}
  /\ skewed' = skewed \ {s}

Replace(r) ==
  /\ At(r, "replace")
  /\ memory' = ReplaceNodes(memory, req[r].sub, req[r].list, req[r].length)
  /\ ListChanges(req[r].sub, req[r].length - Cardinality(req[r].list))
  /\ Finish(r)
  /\ UNCHANGED <<running, used, since, gone>>

-----------------------------------------------------------------------------
(* DELETE /api/subscriptions/:id.                                          *)

Delete(r, s) ==
  /\ s \in used
  /\ Arrive(r, [NoRequest EXCEPT !.step = "deleteStop", !.sub = s,
                                 !.list = StoredOf(s), !.todo = StoredOf(s)])
  /\ UNCHANGED used

\* Mutant: a deletion goes by the running flag in the store.
DeleteStopByFlag(r, n) ==
  /\ At(r, "deleteStop")
  /\ n \in req[r].todo
  /\ running' = IF n \in Stored /\ memory.nodes[n] THEN running \ {n} ELSE running
  /\ req' = [req EXCEPT ![r].todo = @ \ {n}]
  /\ UNCHANGED <<memory, used, histories>>

\* IsNodeRunning and StopNode.
DeleteStop(r, n) ==
  /\ At(r, "deleteStop")
  /\ n \in req[r].todo
  /\ running' = running \ {n}
  /\ req' = [req EXCEPT ![r].todo = @ \ {n}]
  /\ UNCHANGED <<memory, used, histories>>

DeleteSub(r) ==
  /\ At(r, "deleteStop")
  /\ req[r].todo = {}
  /\ LET s == req[r].sub
     IN  /\ memory' = DeleteSubscription(memory, s)
         /\ gone' = IF \E q \in Requests : Loading(q, s) THEN gone ELSE gone \cup {s}
         /\ ListChanges(s, 0)
  /\ Finish(r)
  /\ UNCHANGED <<running, used, since>>

-----------------------------------------------------------------------------
(* Starts: one node, a batch or all, and the automatic start of            *)
(* GET /api/proxy/fastest and /random.                                     *)

Start(r, n) ==
  /\ n \in Stored
  /\ Arrive(r, [NoRequest EXCEPT !.step = "start", !.todo = {n}])
  /\ UNCHANGED used

AutoStart(r, n) ==
  /\ n \in Stored
  /\ Arrive(r, [NoRequest EXCEPT !.step = "check", !.todo = {n}, !.isAuto = TRUE])
  /\ UNCHANGED used

Check(r) ==
  /\ At(r, "check")
  /\ IF req[r].todo \subseteq running
       THEN Finish(r)
       ELSE req' = [req EXCEPT ![r].step = "start"]
  /\ UNCHANGED <<memory, running, used, histories>>

\* StartNode gives a port, and then the node runs, or an error.
Started(S) ==
  /\ running' = running \cup S
  /\ since' = [q \in Requests |-> since[q] \cup (S \ running)]

StartNode(r) ==
  /\ At(r, "start")
  /\ Started(req[r].todo)
  /\ req' = [req EXCEPT ![r].step = "update", ![r].on = req[r].todo]
  /\ UNCHANGED <<memory, used, gone, countHistories>>

StartNodeFails(r) ==
  /\ At(r, "start")
  /\ ~(req[r].todo \subseteq running)
  /\ IF req[r].isAuto THEN Finish(r) ELSE req' = [req EXCEPT ![r].step = "update"]
  /\ UNCHANGED <<memory, running, used, histories>>

\* A batch works on copies, whose flags StartNode changes only for a node it
\* has just started.
StartBatch(r, S) ==
  /\ S \subseteq Stored
  /\ Arrive(r, [NoRequest EXCEPT !.step = "startBatch", !.list = S, !.todo = S,
                                 !.on = {n \in S : memory.nodes[n]}])
  /\ UNCHANGED used

BatchStart(r, n) ==
  /\ At(r, "startBatch")
  /\ n \in req[r].todo
  /\ \/ /\ n \notin running
        /\ Started({n})
        /\ req' = [req EXCEPT ![r].todo = @ \ {n}, ![r].on = @ \cup {n}]
     \/ /\ UNCHANGED <<running, since>>
        /\ req' = [req EXCEPT ![r].todo = @ \ {n}]
  /\ UNCHANGED <<memory, used, gone, countHistories>>

-----------------------------------------------------------------------------
(* Stops: one node, a batch of any IDs, or all.                            *)

Stop(r, n) ==
  /\ n \in Stored
  /\ Arrive(r, [NoRequest EXCEPT !.step = "stop", !.list = {n}, !.todo = {n}])
  /\ UNCHANGED used

StopBatch(r, S) ==
  /\ Arrive(r, [NoRequest EXCEPT !.step = "stop", !.list = S, !.todo = S])
  /\ UNCHANGED used

StopNode(r, n) ==
  /\ At(r, "stop")
  /\ n \in req[r].todo
  /\ running' = running \ {n}
  /\ req' = [req EXCEPT ![r].todo = @ \ {n}]
  /\ UNCHANGED <<memory, used, histories>>

BatchDone(r) ==
  /\ req[r].step \in {"startBatch", "stop"}
  /\ req[r].todo = {}
  /\ req' = [req EXCEPT ![r].step = "update", ![r].todo = req[r].list, ![r].list = {}]
  /\ UNCHANGED <<memory, running, used, histories>>

StopAll(r) == Arrive(r, [NoRequest EXCEPT !.step = "stopAll"]) /\ UNCHANGED used

ManagerStopAll(r) ==
  /\ At(r, "stopAll")
  /\ running' = {}
  /\ req' = [req EXCEPT ![r].step = "list"]
  /\ UNCHANGED <<memory, used, histories>>

ListNodes(r) ==
  /\ At(r, "list")
  /\ req' = [req EXCEPT ![r].step = "update", ![r].todo = Stored]
  /\ UNCHANGED <<memory, running, used, histories>>

-----------------------------------------------------------------------------
(* Tests of one node, a batch or all, and the updates of the store that    *)
(* end every request on nodes.                                             *)

Test(r, S) ==
  /\ S \subseteq Stored
  /\ Arrive(r, [NoRequest EXCEPT !.step = "update", !.list = S])
  /\ UNCHANGED used

\* A test is over: IsNodeRunning, ahead of the update that records it.
Tested(r, n) ==
  /\ At(r, "update")
  /\ n \in req[r].list
  /\ req' = [req EXCEPT ![r].list = @ \ {n}, ![r].todo = @ \cup {n},
                        ![r].on = IF n \in running THEN @ \cup {n} ELSE @ \ {n}]
  /\ UNCHANGED <<memory, running, used, histories>>

Update(r, n) ==
  /\ At(r, "update")
  /\ n \in req[r].todo
  /\ memory' = UpdateNodeRuntime(memory, n, n \in req[r].on)
  /\ req' = [req EXCEPT ![r].todo = @ \ {n}]
  /\ UNCHANGED <<running, used, histories>>

UpdatesDone(r) ==
  /\ At(r, "update")
  /\ req[r].list = {}
  /\ req[r].todo = {}
  /\ Finish(r)
  /\ UNCHANGED <<memory, running, used, histories>>

-----------------------------------------------------------------------------
Load(r) ==
  \/ \E s \in Subs : Refresh(r, s)
  \/ \E s \in Subs : \E S \in SUBSET NodesOf(s) \ {{}} : \E length \in Lengths(S) :
       Import(r, s, S, length)
  \/ /\ At(r, "fetch")
     /\ \E S \in SUBSET NodesOf(req[r].sub) \ {{}} : \E length \in Lengths(S) :
          Fetch(r, S, length)
  \/ FetchFails(r) \/ SaveError(r) \/ Replace(r)
  \/ \E fails \in BOOLEAN : Save(r, fails)

Removal(r) ==
  \/ \E s \in Subs : Delete(r, s)
  \/ \E n \in Nodes : DeleteStop(r, n)
  \/ DeleteSub(r)

Control(r) ==
  \/ \E n \in Nodes : \/ Start(r, n) \/ AutoStart(r, n) \/ Stop(r, n)
                      \/ BatchStart(r, n) \/ StopNode(r, n)
                      \/ Tested(r, n) \/ Update(r, n)
  \/ \E S \in SUBSET Nodes : StartBatch(r, S) \/ StopBatch(r, S) \/ Test(r, S)
  \/ Check(r) \/ StartNode(r) \/ StartNodeFails(r) \/ BatchDone(r)
  \/ StopAll(r) \/ ManagerStopAll(r) \/ ListNodes(r) \/ UpdatesDone(r)

Next == \E r \in Requests : Load(r) \/ Removal(r) \/ Control(r)

Spec == Init /\ [][Next]_vars

-----------------------------------------------------------------------------
(* Properties.                                                             *)

\* Whatever refreshes, failed fetches and deletions interleave, the count a
\* subscription shows is that of its stored nodes and of the entries of its list
\* that repeat one of them (store.go:194-200).  Two causes set it wrong until the
\* next load of the subscription: an import whose save failed, which stores no
\* nodes (server.go:274-282), and a failed refresh that puts back the copy it
\* took before another request replaced or deleted the nodes (server.go:329-334).
\* In between the two calls of a load it is that of the nodes to come.
NodeCountRight ==
  \A s \in DOMAIN memory.subs \ skewed :
    \/ \E r \in Requests : req[r].sub = s /\ At(r, "replace")
    \/ memory.subs[s].count = Cardinality(StoredOf(s)) + repeats[s]

\* A subscription deleted with no load of it under way stays deleted, and so
\* do its nodes: no start, stop or test that still holds a copy of one of them
\* brings it back (store.go:144-158, 253; server.go:300-316).
DeletedStaysDeleted ==
  \A s \in gone : s \notin DOMAIN memory.subs /\ StoredOf(s) = {}

\* A deletion stops every node it has found stored: one that still runs was
\* started again in the meantime (server.go:300-312).
DeleteStopsListed ==
  [][\A r \in Requests : DeleteSub(r) => running \cap req[r].list \subseteq since[r]]_vars

\* What a deletion promises, whatever else is requested meanwhile.  A node that
\* a refresh had dropped before is not found, and runs on (server.go:302, 349).
DeletionHolds == []DeletedStaysDeleted /\ DeleteStopsListed

=============================================================================
