-------------------------- MODULE ApiServerProofs --------------------------
(***************************************************************************)
(* What ApiServer keeps for any number of requests, subscriptions and      *)
(* nodes: its types, the counts of the subscriptions, that what is deleted *)
(* stays deleted, and what a deletion stops.                               *)
(***************************************************************************)
EXTENDS ApiServer, FiniteSetTheorems, TLAPS

-----------------------------------------------------------------------------
(* What the operations of the store do to the memory.                      *)

LEMMA SubscriptionMapType ==
  ASSUME NEW f
  PROVE  f \in SubscriptionMap <=> DOMAIN f \subseteq Subs /\ f \in [DOMAIN f -> Subscription]
BY DEF SubscriptionMap

LEMMA NodeMapType ==
  ASSUME NEW f
  PROVE  f \in NodeMap <=> DOMAIN f \subseteq Nodes /\ f \in [DOMAIN f -> BOOLEAN]
BY DEF NodeMap

LEMMA EmptyMaps == << >> \in SubscriptionMap /\ << >> \in NodeMap
<1>1. DOMAIN << >> = {} /\ << >> \in [DOMAIN << >> -> Subscription]
      /\ << >> \in [DOMAIN << >> -> BOOLEAN]
  OBVIOUS
<1>. QED
  BY <1>1, SubscriptionMapType, NodeMapType

\* The number of any set of nodes is a count.
LEMMA CountType ==
  ASSUME NEW S \in SUBSET Nodes
  PROVE  Cardinality(S) \in 0..Cardinality(Nodes)
BY StoreDataAssumption, FS_Subset, FS_CardinalityType

\* So is the length of any list, and what it has more than its set of nodes.
LEMMA LengthType ==
  ASSUME NEW S \in SUBSET Nodes, NEW length \in Lengths(S)
  PROVE  /\ length \in 0..(Cardinality(Nodes) + MaxRepeats)
         /\ length - Cardinality(S) \in 0..MaxRepeats
         /\ length = Cardinality(S) + (length - Cardinality(S))
<1>1. Cardinality(Nodes) \in Nat
  BY StoreDataAssumption, FS_CardinalityType
<1>. QED
  BY <1>1, CountType, StoreDataAssumption DEF Lengths

Memory == [subs : SubscriptionMap, nodes : NodeMap]

LEMMA SaveChanges ==
  ASSUME NEW data \in Memory, NEW s \in Subs, NEW sub \in Subscription
  PROVE  LET new == SaveSubscription(data, s, sub)
         IN  /\ new \in Memory
             /\ new.nodes = data.nodes
             /\ DOMAIN new.subs = DOMAIN data.subs \cup {s}
             /\ new.subs[s] = sub
             /\ \A t \in DOMAIN data.subs \ {s} : new.subs[t] = data.subs[t]
<1>. DEFINE f == [t \in DOMAIN data.subs \cup {s} |-> IF t = s THEN sub ELSE data.subs[t]]
<1>1. f \in SubscriptionMap
  BY SubscriptionMapType DEF Memory
<1>2. SaveSubscription(data, s, sub) = [data EXCEPT !.subs = f]
  BY DEF SaveSubscription
<1>. QED
  BY <1>1, <1>2 DEF Memory

LEMMA DeleteChanges ==
  ASSUME NEW data \in Memory, NEW s \in Subs
  PROVE  LET new == DeleteSubscription(data, s)
         IN  /\ new \in Memory
             /\ DOMAIN new.nodes = DOMAIN data.nodes \ NodesOf(s)
             /\ DOMAIN new.subs = DOMAIN data.subs \ {s}
             /\ \A t \in DOMAIN data.subs \ {s} : new.subs[t] = data.subs[t]
<1>1. Without(data.subs, {s}) \in SubscriptionMap
  BY SubscriptionMapType DEF Without, Memory
<1>2. Without(data.nodes, NodesOf(s)) \in NodeMap
  BY NodeMapType DEF Without, Memory
<1>3. DeleteSubscription(data, s) =
        [data EXCEPT !.subs = Without(data.subs, {s}),
                     !.nodes = Without(data.nodes, NodesOf(s))]
  BY DEF DeleteSubscription
<1>. HIDE DEF Without
<1>4. /\ DeleteSubscription(data, s).subs = Without(data.subs, {s})
      /\ DeleteSubscription(data, s).nodes = Without(data.nodes, NodesOf(s))
      /\ DeleteSubscription(data, s) \in Memory
  BY <1>1, <1>2, <1>3 DEF Memory
<1>. QED
  BY <1>4 DEF Without

LEMMA ReplaceChanges ==
  ASSUME NEW data \in Memory, NEW s \in Subs, NEW S \in SUBSET Nodes, NEW length \in Lengths(S)
  PROVE  LET new == ReplaceNodes(data, s, S, length)
         IN  /\ new \in Memory
             /\ DOMAIN new.nodes = (DOMAIN data.nodes \ NodesOf(s)) \cup S
             /\ DOMAIN new.subs = DOMAIN data.subs
             /\ s \in DOMAIN data.subs => new.subs[s].count = length
             /\ \A t \in DOMAIN data.subs \ {s} : new.subs[t] = data.subs[t]
<1>. DEFINE f == [n \in (DOMAIN data.nodes \ NodesOf(s)) \cup S |-> n \notin S /\ data.nodes[n]]
            g == [t \in DOMAIN data.subs |->
                    IF t = s THEN [data.subs[t] EXCEPT !.count = length]
                             ELSE data.subs[t]]
<1>1. f \in NodeMap
  BY NodeMapType DEF Memory
<1>2. g \in SubscriptionMap /\ (s \in DOMAIN data.subs => g[s].count = length)
  BY SubscriptionMapType, LengthType DEF Subscription, Memory
<1>3. ReplaceNodes(data, s, S, length) = [data EXCEPT !.nodes = f, !.subs = g]
  BY DEF ReplaceNodes
<1>4. /\ ReplaceNodes(data, s, S, length).nodes = f
      /\ ReplaceNodes(data, s, S, length).subs = g
      /\ ReplaceNodes(data, s, S, length) \in Memory
  <2>. HIDE DEF f, g
  <2>. QED
    BY <1>1, <1>2, <1>3 DEF Memory
<1>. QED
  BY <1>2, <1>4

LEMMA UpdateChanges ==
  ASSUME NEW data \in Memory, NEW n, NEW on \in BOOLEAN
  PROVE  LET new == UpdateNodeRuntime(data, n, on)
         IN  /\ new \in Memory
             /\ DOMAIN new.nodes = DOMAIN data.nodes
             /\ new.subs = data.subs
<1>. DEFINE f == [m \in DOMAIN data.nodes |-> IF m = n THEN on ELSE data.nodes[m]]
<1>1. f \in NodeMap
  BY NodeMapType DEF Memory
<1>2. UpdateNodeRuntime(data, n, on) = [data EXCEPT !.nodes = f]
  BY DEF UpdateNodeRuntime
<1>. QED
  BY <1>1, <1>2 DEF Memory

-----------------------------------------------------------------------------
(* The inductive invariant.                                                *)

\* The steps of requests on a subscription.
OnSub == {"fetch", "save", "saveError", "replace", "deleteStop"}

\* Such a request has one, and takes only nodes of it.
RequestsOwn ==
  \A r \in Requests : req[r].step \in OnSub =>
    /\ req[r].sub \in used
    /\ req[r].list \subseteq NodesOf(req[r].sub)

\* A stored subscription, and one that is gone, have had their ID.
KnownUsed == DOMAIN memory.subs \cup gone \subseteq used

\* What is gone is not coming back.
NoLoadOfGone == \A s \in gone, r \in Requests : ~Loading(r, s)

\* A node that a deletion has seen to runs only if it was started again.
StopsDone ==
  \A r \in Requests : At(r, "deleteStop") =>
    running \cap (req[r].list \ req[r].todo) \subseteq since[r]

\* What a request is about to store is of the length it has counted.
LengthsFit ==
  \A r \in Requests : req[r].step \in {"save", "replace"} => req[r].length \in Lengths(req[r].list)

\* A refresh whose copy is not older than the list holds the right count: to
\* put it back does no harm.
HalfLoaded(s) == \E r \in Requests : req[r].sub = s /\ At(r, "replace")
CopyRight(r) ==
  \/ req[r].step \notin {"fetch", "saveError"}
  \/ r \in outdated
  \/ req[r].sub \in skewed
  \/ HalfLoaded(req[r].sub)
  \/ req[r].copy.count = Cardinality(StoredOf(req[r].sub)) + repeats[req[r].sub]
CopiesRight == \A r \in Requests : CopyRight(r)

IInv ==
  /\ TypeOK
  /\ RequestsOwn
  /\ LengthsFit
  /\ CopiesRight
  /\ KnownUsed
  /\ NoLoadOfGone
  /\ DeletedStaysDeleted
  /\ NodeCountRight
  /\ StopsDone

LEMMA NoRequestType == NoRequest \in Request
BY StoreDataAssumption, FS_CardinalityType DEF NoRequest, Request, Subscription

LEMMA InitIInv == Init => IInv
<1>. SUFFICES ASSUME Init PROVE IInv
  OBVIOUS
<1>1. memory \in Memory /\ DOMAIN memory.subs = {} /\ DOMAIN memory.nodes = {}
  BY EmptyMaps DEF Init, Memory
<1>2. TypeOK
  BY <1>1, NoRequestType, StoreDataAssumption DEF Init, TypeOK, Memory
<1>3. \A r \in Requests : req[r].step = "none"
  BY DEF Init, NoRequest
<1>. QED
  BY <1>1, <1>2, <1>3
     DEF Init, IInv, RequestsOwn, LengthsFit, CopiesRight, CopyRight, OnSub, KnownUsed, NoLoadOfGone,
         DeletedStaysDeleted,
         NodeCountRight, StopsDone, At

\* A step of one request on nodes: the store's subscriptions and its set of
\* nodes stay, and a deletion learns of the nodes that start.
LEMMA ControlIInv ==
  ASSUME IInv, TypeOK', UNCHANGED <<used, gone, repeats, skewed>>,
         memory'.subs = memory.subs, Stored' = Stored,
         NEW r \in Requests, outdated \ {r} \subseteq outdated',
         req[r].step \notin OnSub, req'[r].step \notin OnSub,
         \A q \in Requests \ {r} : /\ req'[q] = req[q]
                                   /\ running' \ running \subseteq since'[q]
                                   /\ since[q] \subseteq since'[q]
  PROVE  IInv'
<1>. USE DEF IInv
<1>1. RequestsOwn'
  BY DEF RequestsOwn, OnSub
<1>2. KnownUsed'
  BY DEF KnownUsed
<1>3. NoLoadOfGone'
  BY DEF NoLoadOfGone, Loading, OnSub
<1>4. DeletedStaysDeleted'
  BY DEF DeletedStaysDeleted, StoredOf
<1>5. NodeCountRight'
  BY DEF NodeCountRight, StoredOf, At, OnSub
<1>6. StopsDone'
  BY DEF StopsDone, At, OnSub
<1>7. LengthsFit'
  BY DEF LengthsFit, OnSub
<1>8. CopiesRight'
  BY DEF CopiesRight, CopyRight, HalfLoaded, StoredOf, At, OnSub
<1>. QED
  BY <1>1, <1>2, <1>3, <1>4, <1>5, <1>6, <1>7, <1>8

\* The copy of a request that does not step stays right if its subscription is
\* left alone, or is half loaded, skewed or has another list now.
LEMMA CopyKept ==
  ASSUME IInv, NEW q \in Requests, req'[q] = req[q], NEW t, t = req[q].sub,
         \/ q \in outdated'
         \/ t \in skewed'
         \/ HalfLoaded(t)'
         \/ /\ q \notin outdated /\ t \notin skewed /\ ~HalfLoaded(t)
            /\ StoredOf(t)' = StoredOf(t) /\ repeats'[t] = repeats[t]
  PROVE  CopyRight(q)'
<1>1. CopyRight(q)
  BY DEF IInv, CopiesRight
<1>. QED
  BY <1>1 DEF CopyRight

-----------------------------------------------------------------------------
(* Requests on nodes.                                                      *)

\* A request that arrives changes nothing but its own state.
LEMMA ArriveType ==
  ASSUME TypeOK, NEW r \in Requests, NEW request \in Request, Arrive(r, request),
         used' \subseteq Subs
  PROVE  TypeOK'
BY DEF TypeOK, Arrive

LEMMA ArriveControl ==
  ASSUME IInv, NEW r \in Requests, NEW request \in Request, Arrive(r, request),
         request.step \notin OnSub, UNCHANGED used
  PROVE  IInv'
<1>1. TypeOK'
  BY ArriveType DEF IInv, TypeOK
<1>2. req'[r] = request /\ req[r].step \notin OnSub
  BY DEF IInv, TypeOK, Arrive, At, OnSub
<1>. QED
  BY <1>1, <1>2, ControlIInv DEF Arrive, IInv, TypeOK, Stored

LEMMA ArrivalsIInv ==
  ASSUME IInv, NEW r \in Requests, NEW n \in Nodes,
         Start(r, n) \/ AutoStart(r, n) \/ Stop(r, n)
  PROVE  IInv'
<1>. USE NoRequestType DEF Request, OnSub
<1>1. CASE Start(r, n)
  BY <1>1, ArriveControl DEF Start
<1>2. CASE AutoStart(r, n)
  BY <1>2, ArriveControl DEF AutoStart
<1>3. CASE Stop(r, n)
  BY <1>3, ArriveControl DEF Stop
<1>. QED
  BY <1>1, <1>2, <1>3

LEMMA BatchArrivalsIInv ==
  ASSUME IInv, NEW r \in Requests, NEW S \in SUBSET Nodes,
         StartBatch(r, S) \/ StopBatch(r, S) \/ Test(r, S) \/ StopAll(r)
  PROVE  IInv'
<1>. USE NoRequestType DEF Request, OnSub
<1>1. CASE StartBatch(r, S)
  <2>. DEFINE on == {n1 \in S : memory.nodes[n1]}
  <2>1. on \in SUBSET Nodes
    OBVIOUS
  <2>. HIDE DEF on
  <2>2. [NoRequest EXCEPT !.step = "startBatch", !.list = S, !.todo = S, !.on = on] \in Request
    BY <2>1
  <2>. QED
    BY <1>1, <2>2, ArriveControl DEF StartBatch, on, NoRequest
<1>2. CASE StopBatch(r, S)
  BY <1>2, ArriveControl DEF StopBatch
<1>3. CASE Test(r, S)
  BY <1>3, ArriveControl DEF Test
<1>4. CASE StopAll(r)
  BY <1>4, ArriveControl DEF StopAll
<1>. QED
  BY <1>1, <1>2, <1>3, <1>4

\* The states of a request that is on no subscription, and the steps between.
OnNodes == {x \in Request : x.step \notin OnSub}

LEMMA RequestSteps ==
  ASSUME NEW x \in OnNodes, NEW T \in SUBSET Nodes, NEW U \in SUBSET Nodes
  PROVE  /\ NoRequest \in OnNodes
         /\ [x EXCEPT !.step = "start"] \in OnNodes
         /\ [x EXCEPT !.step = "update"] \in OnNodes
         /\ [x EXCEPT !.step = "list"] \in OnNodes
         /\ [x EXCEPT !.step = "update", !.todo = T] \in OnNodes
         /\ [x EXCEPT !.step = "update", !.on = T] \in OnNodes
         /\ [x EXCEPT !.step = "update", !.todo = T, !.list = {}] \in OnNodes
         /\ [x EXCEPT !.list = x.list \ T, !.todo = x.todo \cup T, !.on = U] \in OnNodes
         /\ [x EXCEPT !.todo = x.todo \ T] \in OnNodes
         /\ [x EXCEPT !.todo = x.todo \ T, !.on = U] \in OnNodes
<1>1. NoRequest \in OnNodes
  BY NoRequestType DEF NoRequest, OnNodes, OnSub
<1>. QED
  BY <1>1 DEF Request, OnNodes, OnSub

\* A request that has work to do does a step of it.
LEMMA WorkIInv ==
  ASSUME IInv, NEW r \in Requests,
         \/ Check(r) \/ StartNodeFails(r) \/ BatchDone(r) \/ ListNodes(r)
         \/ UpdatesDone(r) \/ \E n \in Nodes : Tested(r, n)
  PROVE  IInv'
<1>1. TypeOK
  BY DEF IInv
<1>2. req[r] \in OnNodes
  BY <1>1 DEF TypeOK, OnNodes, OnSub, At, Check, StartNodeFails, BatchDone, ListNodes,
              Tested, UpdatesDone
<1>3. \E x \in OnNodes : req' = [req EXCEPT ![r] = x]
  <2>1. CASE Check(r)
    BY <1>2, <2>1, RequestSteps DEF Check, Finish
  <2>2. CASE StartNodeFails(r)
    BY <1>2, <2>2, RequestSteps DEF StartNodeFails, Finish
  <2>3. CASE BatchDone(r)
    <3>1. req[r].list \in SUBSET Nodes
      BY <1>2 DEF OnNodes, Request
    <3>2. [req[r] EXCEPT !.step = "update", !.todo = req[r].list, !.list = {}] \in OnNodes
      BY <1>2, <3>1, RequestSteps
    <3>. QED
      BY <2>3, <3>2 DEF BatchDone
  <2>4. CASE ListNodes(r)
    <3>1. Stored \in SUBSET Nodes
      BY <1>1, NodeMapType DEF TypeOK, Stored
    <3>2. [req[r] EXCEPT !.step = "update", !.todo = Stored] \in OnNodes
      BY <1>2, <3>1, RequestSteps
    <3>. QED
      BY <2>4, <3>2 DEF ListNodes
  <2>5. ASSUME NEW n \in Nodes, Tested(r, n) PROVE \E x \in OnNodes : req' = [req EXCEPT ![r] = x]
    <3>. DEFINE U == IF n \in running THEN req[r].on \cup {n} ELSE req[r].on \ {n}
    <3>1. U \in SUBSET Nodes
      BY <1>2 DEF OnNodes, Request
    <3>. HIDE DEF U
    <3>2. {n} \in SUBSET Nodes
      OBVIOUS
    <3>3. [req[r] EXCEPT !.list = req[r].list \ {n}, !.todo = req[r].todo \cup {n}, !.on = U]
            \in OnNodes
      BY <1>2, <3>1, <3>2, RequestSteps
    <3>4. req' = [req EXCEPT ![r].list = req[r].list \ {n}, ![r].todo = req[r].todo \cup {n},
                             ![r].on = U]
      BY <2>5, Zenon DEF Tested, U
    <3>. QED
      BY <3>3, <3>4
  <2>6. CASE UpdatesDone(r)
    BY <1>2, <2>6, RequestSteps DEF UpdatesDone, Finish
  <2>. QED
    BY <2>1, <2>2, <2>3, <2>4, <2>5, <2>6
<1>4. UNCHANGED <<memory, running, used, since, gone, repeats, outdated, skewed>>
  BY DEF Check, StartNodeFails, BatchDone, ListNodes, Tested, UpdatesDone, histories, countHistories
<1>5. TypeOK' /\ req'[r] \in OnNodes /\ \A q \in Requests \ {r} : req'[q] = req[q]
  BY <1>1, <1>3, <1>4 DEF TypeOK, OnNodes
<1>. QED
  BY <1>2, <1>4, <1>5, ControlIInv DEF Stored, OnNodes

\* The three that start nodes.
LEMMA StartsIInv ==
  ASSUME IInv, NEW r \in Requests, StartNode(r) \/ \E n \in Nodes : BatchStart(r, n)
  PROVE  IInv'
<1>1. TypeOK
  BY DEF IInv
<1>2. req[r] \in OnNodes
  BY <1>1 DEF TypeOK, OnNodes, OnSub, At, StartNode, BatchStart
<1>3. /\ \E x \in OnNodes : req' = [req EXCEPT ![r] = x]
      /\ \/ \E S \in SUBSET Nodes : Started(S)
         \/ UNCHANGED <<running, since>>
  <2>1. CASE StartNode(r)
    <3>1. req[r].todo \in SUBSET Nodes
      BY <1>2 DEF OnNodes, Request
    <3>2. [req[r] EXCEPT !.step = "update", !.on = req[r].todo] \in OnNodes
      BY <1>2, <3>1, RequestSteps
    <3>. QED
      BY <2>1, <3>1, <3>2 DEF StartNode
  <2>2. CASE \E n \in Nodes : BatchStart(r, n)
    <3>. PICK n \in Nodes : BatchStart(r, n)
      BY <2>2
    <3>1. req[r].on \cup {n} \in SUBSET Nodes /\ {n} \in SUBSET Nodes
      BY <1>2 DEF OnNodes, Request
    <3>2. /\ [req[r] EXCEPT !.todo = req[r].todo \ {n}, !.on = req[r].on \cup {n}] \in OnNodes
          /\ [req[r] EXCEPT !.todo = req[r].todo \ {n}] \in OnNodes
      BY <1>2, <3>1, RequestSteps
    <3>. QED
      BY <3>1, <3>2 DEF BatchStart
  <2>. QED
    BY <2>1, <2>2
<1>4. UNCHANGED <<memory, used, gone, repeats, outdated, skewed>>
  BY DEF StartNode, BatchStart, countHistories
<1>5. /\ running' \subseteq Nodes
      /\ since' \in [Requests -> SUBSET Nodes]
      /\ \A q \in Requests : running' \ running \subseteq since'[q] /\ since[q] \subseteq since'[q]
  BY <1>1, <1>3 DEF TypeOK, Started
<1>6. TypeOK' /\ req'[r] \in OnNodes /\ \A q \in Requests \ {r} : req'[q] = req[q]
  BY <1>1, <1>3, <1>4, <1>5 DEF TypeOK, OnNodes
<1>. QED
  BY <1>2, <1>4, <1>5, <1>6, ControlIInv DEF Stored, OnNodes

LEMMA StopsIInv ==
  ASSUME IInv, NEW r \in Requests, ManagerStopAll(r) \/ \E n \in Nodes : StopNode(r, n)
  PROVE  IInv'
<1>1. TypeOK
  BY DEF IInv
<1>2. req[r] \in OnNodes /\ \A n \in Nodes : {n} \in SUBSET Nodes
  BY <1>1 DEF TypeOK, OnNodes, OnSub, At, StopNode, ManagerStopAll
<1>3. \E x \in OnNodes : req' = [req EXCEPT ![r] = x]
  BY <1>2, RequestSteps DEF StopNode, ManagerStopAll
<1>4. UNCHANGED <<memory, used, since, gone, repeats, outdated, skewed>> /\ running' \subseteq running
  BY DEF StopNode, ManagerStopAll, histories, countHistories
<1>5. TypeOK' /\ req'[r] \in OnNodes /\ \A q \in Requests \ {r} : req'[q] = req[q]
  BY <1>1, <1>3, <1>4 DEF TypeOK, OnNodes
<1>. QED
  BY <1>2, <1>4, <1>5, ControlIInv DEF Stored, OnNodes

LEMMA UpdateIInv ==
  ASSUME IInv, NEW r \in Requests, NEW n \in Nodes, Update(r, n)
  PROVE  IInv'
<1>1. TypeOK
  BY DEF IInv
<1>2. req[r] \in OnNodes /\ {n} \in SUBSET Nodes
  BY <1>1 DEF TypeOK, OnNodes, OnSub, At, Update
<1>3. \E x \in OnNodes : req' = [req EXCEPT ![r] = x]
  BY <1>2, RequestSteps DEF Update
<1>4. memory' \in Memory /\ Stored' = Stored /\ memory'.subs = memory.subs
  <2>1. PICK on \in BOOLEAN : memory' = UpdateNodeRuntime(memory, n, on)
    <3>. DEFINE on == n \in req[r].on
    <3>1. on \in BOOLEAN
      OBVIOUS
    <3>. QED
      BY <3>1, Zenon DEF Update
  <2>2. memory \in Memory
    BY <1>1 DEF TypeOK, Memory
  <2>. QED
    BY <2>1, <2>2, UpdateChanges DEF Stored
<1>5. UNCHANGED <<running, used, since, gone, repeats, outdated, skewed>>
  BY DEF Update, histories, countHistories
<1>6. TypeOK' /\ req'[r] \in OnNodes /\ \A q \in Requests \ {r} : req'[q] = req[q]
  BY <1>1, <1>3, <1>4, <1>5 DEF TypeOK, OnNodes, Memory
<1>. QED
  BY <1>2, <1>4, <1>5, <1>6, ControlIInv DEF OnNodes

LEMMA ControlStepIInv ==
  ASSUME IInv, NEW r \in Requests, Control(r)
  PROVE  IInv'
<1>1. ASSUME NEW n \in Nodes, \/ Start(r, n) \/ AutoStart(r, n) \/ Stop(r, n)
                              \/ BatchStart(r, n) \/ StopNode(r, n)
                              \/ Tested(r, n) \/ Update(r, n)
      PROVE  IInv'
  BY <1>1, ArrivalsIInv, WorkIInv, StartsIInv, StopsIInv, UpdateIInv
<1>2. ASSUME NEW S \in SUBSET Nodes, StartBatch(r, S) \/ StopBatch(r, S) \/ Test(r, S)
      PROVE  IInv'
  BY <1>2, BatchArrivalsIInv
<1>3. CASE StopAll(r)
  <2>1. {} \in SUBSET Nodes
    OBVIOUS
  <2>. QED
    BY <1>3, <2>1, BatchArrivalsIInv
<1>4. CASE Check(r) \/ StartNodeFails(r) \/ BatchDone(r) \/ ListNodes(r) \/ UpdatesDone(r)
  BY <1>4, WorkIInv
<1>5. CASE StartNode(r)
  BY <1>5, StartsIInv
<1>6. CASE ManagerStopAll(r)
  BY <1>6, StopsIInv
<1>. QED
  BY <1>1, <1>2, <1>3, <1>4, <1>5, <1>6 DEF Control

-----------------------------------------------------------------------------
(* Requests on a subscription.                                             *)

\* Import, Refresh, Fetch and FetchFails prepare what is saved later.
LEMMA PrepareIInv ==
  ASSUME IInv, NEW r \in Requests, NEW x \in Request,
         req' = [req EXCEPT ![r] = x],
         x.step \in {"fetch", "save", "saveError"},
         x.sub \in used' \ gone, x.list \subseteq NodesOf(x.sub),
         req[r].step \notin {"replace", "deleteStop"},
         x.step = "save" => x.length \in Lengths(x.list),
         \/ x.step = "save"
         \/ r \in outdated'
         \/ x.sub \in skewed
         \/ HalfLoaded(x.sub)
         \/ x.copy.count = Cardinality(StoredOf(x.sub)) + repeats[x.sub],
         UNCHANGED <<memory, running, gone, repeats, skewed>>,
         outdated \ {r} \subseteq outdated', outdated' \subseteq outdated,
         used \subseteq used', used' \subseteq Subs,
         since' \in [Requests -> SUBSET Nodes],
         \A q \in Requests \ {r} : since'[q] = since[q]
  PROVE  IInv'
<1>. USE DEF IInv
<1>1. TypeOK'
  BY DEF TypeOK
<1>2. req'[r] = x /\ \A q \in Requests \ {r} : req'[q] = req[q]
  BY DEF TypeOK
<1>3. RequestsOwn'
  BY <1>2 DEF RequestsOwn
<1>4. KnownUsed'
  BY DEF KnownUsed
<1>5. NoLoadOfGone'
  BY <1>2 DEF NoLoadOfGone, Loading
<1>6. DeletedStaysDeleted'
  BY DEF DeletedStaysDeleted, StoredOf, Stored
<1>7. NodeCountRight'
  BY <1>2 DEF NodeCountRight, StoredOf, Stored, At
<1>8. StopsDone'
  BY <1>2 DEF StopsDone, At
<1>9. LengthsFit'
  BY <1>2 DEF LengthsFit
<1>10. CopiesRight'
  <2>1. \A t : HalfLoaded(t) => HalfLoaded(t)'
    BY <1>2 DEF HalfLoaded, At
  <2>2. \A t : StoredOf(t)' = StoredOf(t)
    BY DEF StoredOf, Stored
  <2>. QED
    BY <1>2, <2>1, <2>2 DEF CopiesRight, CopyRight
<1>. QED
  BY <1>1, <1>3, <1>4, <1>5, <1>6, <1>7, <1>8, <1>9, <1>10

LEMMA ImportIInv ==
  ASSUME IInv, NEW r \in Requests, NEW s \in Subs, NEW S \in SUBSET NodesOf(s),
         NEW length \in Lengths(S), Import(r, s, S, length)
  PROVE  IInv'
<1>. DEFINE x == [NoRequest EXCEPT !.step = "save", !.sub = s, !.list = S, !.length = length,
                                   !.isImport = TRUE,
                                   !.copy = [count |-> length, failed |-> FALSE]]
<1>1. x \in Request /\ x.step = "save" /\ x.sub = s /\ x.list = S /\ x.length = length
  <2>1. S \in SUBSET Nodes
    BY DEF NodesOf
  <2>2. length \in 0..(Cardinality(Nodes) + MaxRepeats)
    BY <2>1, LengthType
  <2>. QED
    BY <2>1, <2>2, NoRequestType DEF NoRequest, Request, Subscription
<1>2. Arrive(r, x) /\ s \notin used /\ used' = used \cup {s}
  BY DEF Import
<1>. HIDE DEF x
<1>3. s \in used' \ gone /\ used \subseteq used' /\ used' \subseteq Subs
  BY <1>2 DEF IInv, KnownUsed, TypeOK
<1>4. since' \in [Requests -> SUBSET Nodes] /\ \A q \in Requests \ {r} : since'[q] = since[q]
  BY <1>2 DEF IInv, TypeOK, Arrive
<1>. QED
  BY <1>1, <1>2, <1>3, <1>4, PrepareIInv DEF Arrive, At

LEMMA RefreshIInv ==
  ASSUME IInv, NEW r \in Requests, NEW s \in Subs, Refresh(r, s)
  PROVE  IInv'
<1>. DEFINE x == [NoRequest EXCEPT !.step = "fetch", !.sub = s, !.copy = memory.subs[s]]
<1>1. memory.subs[s] \in Subscription
  BY SubscriptionMapType DEF Refresh, IInv, TypeOK
<1>2. x \in Request /\ x.step = "fetch" /\ x.sub = s /\ x.list = {} /\ x.copy = memory.subs[s]
  BY <1>1, NoRequestType DEF NoRequest, Request
<1>3. Arrive(r, x) /\ UNCHANGED used
  BY DEF Refresh
<1>. HIDE DEF x
<1>4. s \in used' \ gone /\ used' \subseteq Subs
  BY <1>3 DEF Refresh, IInv, KnownUsed, DeletedStaysDeleted, TypeOK
<1>5. since' \in [Requests -> SUBSET Nodes] /\ \A q \in Requests \ {r} : since'[q] = since[q]
  BY <1>3 DEF IInv, TypeOK, Arrive
<1>6. \/ s \in skewed
      \/ HalfLoaded(s)
      \/ x.copy.count = Cardinality(StoredOf(s)) + repeats[s]
  BY <1>2 DEF Refresh, IInv, NodeCountRight, HalfLoaded
<1>. QED
  BY <1>2, <1>3, <1>4, <1>5, <1>6, PrepareIInv DEF Arrive, At

LEMMA FetchIInv ==
  ASSUME IInv, NEW r \in Requests, NEW S \in SUBSET NodesOf(req[r].sub),
         NEW length \in Lengths(S), Fetch(r, S, length) \/ FetchFails(r)
  PROVE  IInv'
<1>. DEFINE copy == [count |-> length, failed |-> FALSE]
            error == [req[r].copy EXCEPT !.failed = TRUE]
<1>1. TypeOK /\ req[r] \in Request /\ req[r].step = "fetch"
  BY DEF IInv, TypeOK, Fetch, FetchFails, At
<1>2. req[r].sub \in used' \ gone /\ req[r].list \subseteq NodesOf(req[r].sub) /\ UNCHANGED used
  BY <1>1 DEF IInv, RequestsOwn, OnSub, NoLoadOfGone, Loading, Fetch, FetchFails
<1>3. /\ S \in SUBSET Nodes /\ length \in 0..(Cardinality(Nodes) + MaxRepeats)
      /\ copy \in Subscription
      /\ error \in Subscription /\ error.count = req[r].copy.count
  <2>1. S \in SUBSET Nodes
    BY DEF NodesOf
  <2>. QED
    BY <1>1, <2>1, LengthType DEF Subscription, Request
<1>. HIDE DEF copy, error
<1>4. \E x \in Request : /\ req' = [req EXCEPT ![r] = x]
                         /\ x.step \in {"fetch", "save", "saveError"}
                         /\ x.sub = req[r].sub
                         /\ x.list \subseteq NodesOf(x.sub)
                         /\ x.step = "save" => x.length \in Lengths(x.list)
                         /\ x.step = "save" \/ x.copy.count = req[r].copy.count
  <2>1. CASE Fetch(r, S, length)
    <3>. DEFINE x == [req[r] EXCEPT !.step = "save", !.list = S, !.length = length, !.copy = copy]
    <3>1. /\ x \in Request /\ x.step = "save" /\ x.sub = req[r].sub
          /\ x.list = S /\ x.length = length
      BY <1>1, <1>3 DEF Request
    <3>2. req' = [req EXCEPT ![r] = x]
      BY <2>1 DEF Fetch, copy
    <3>. QED
      BY <3>1, <3>2
  <2>2. CASE FetchFails(r)
    <3>. DEFINE x == [req[r] EXCEPT !.step = "saveError", !.copy = error]
    <3>1. x \in Request /\ x.step = "saveError" /\ x.sub = req[r].sub /\ x.list = req[r].list
          /\ x.copy = error
      BY <1>1, <1>3 DEF Request
    <3>2. req' = [req EXCEPT ![r] = x]
      BY <2>2 DEF FetchFails, error
    <3>. QED
      BY <1>2, <1>3, <3>1, <3>2
  <2>. QED
    BY <2>1, <2>2
<1>5. UNCHANGED <<memory, running, used, since, gone, repeats, outdated, skewed>>
  BY DEF Fetch, FetchFails, histories, countHistories
<1>6. \/ r \in outdated
      \/ req[r].sub \in skewed
      \/ HalfLoaded(req[r].sub)
      \/ req[r].copy.count = Cardinality(StoredOf(req[r].sub)) + repeats[req[r].sub]
  BY <1>1 DEF IInv, CopiesRight, CopyRight
<1>. QED
  BY <1>1, <1>2, <1>4, <1>5, <1>6, PrepareIInv DEF TypeOK

\* The first call of a load.  It was not for a subscription that is gone.
LEMMA SaveIInv ==
  ASSUME IInv, NEW r \in Requests, NEW fails \in BOOLEAN, Save(r, fails)
  PROVE  IInv'
<1>. DEFINE s == req[r].sub
<1>1. TypeOK /\ req[r] \in Request /\ req[r].step = "save" /\ memory \in Memory
  BY DEF IInv, TypeOK, Save, At, Memory
<1>2. s \in used /\ s \in Subs /\ s \notin gone /\ req[r].list \subseteq NodesOf(s)
  BY <1>1 DEF IInv, RequestsOwn, OnSub, NoLoadOfGone, Loading, TypeOK
<1>3. /\ memory' \in Memory
      /\ memory'.nodes = memory.nodes
      /\ DOMAIN memory'.subs = DOMAIN memory.subs \cup {s}
      /\ \A t \in DOMAIN memory.subs \ {s} : memory'.subs[t] = memory.subs[t]
  BY <1>1, <1>2, SaveChanges DEF Save, Request
<1>4. \/ req' = [req EXCEPT ![r] = NoRequest] /\ skewed' = skewed \cup {s}
      \/ req' = [req EXCEPT ![r].step = "replace"] /\ skewed' = skewed
  BY DEF Save, Finish
<1>5. UNCHANGED <<running, used, since, gone, repeats, outdated>>
  BY DEF Save
<1>6. \A q \in Requests \ {r} : req'[q] = req[q]
  BY <1>1, <1>4 DEF TypeOK
<1>7. /\ req'[r] \in Request
      /\ \/ req'[r].step = "none" /\ skewed' = skewed \cup {s}
         \/ /\ req'[r].step = "replace" /\ req'[r].sub = s /\ req'[r].list = req[r].list
            /\ req'[r].length = req[r].length /\ skewed' = skewed
  <2>1. NoRequest \in Request /\ NoRequest.step = "none"
    BY NoRequestType DEF NoRequest
  <2>2. CASE req' = [req EXCEPT ![r] = NoRequest] /\ skewed' = skewed \cup {s}
    BY <1>1, <2>1, <2>2 DEF TypeOK
  <2>3. CASE req' = [req EXCEPT ![r].step = "replace"] /\ skewed' = skewed
    BY <1>1, <2>3 DEF TypeOK, Request
  <2>. QED
    BY <1>4, <2>2, <2>3
<1>. HIDE DEF s
<1>8. TypeOK'
  BY <1>1, <1>2, <1>3, <1>4, <1>5, <1>7 DEF TypeOK, Memory
<1>9. RequestsOwn'
  BY <1>2, <1>5, <1>6, <1>7 DEF IInv, RequestsOwn, OnSub, s
<1>10. KnownUsed'
  BY <1>2, <1>3, <1>5 DEF IInv, KnownUsed
<1>11. NoLoadOfGone'
  BY <1>2, <1>5, <1>6, <1>7 DEF IInv, NoLoadOfGone, Loading
<1>12. DeletedStaysDeleted'
  BY <1>2, <1>3, <1>5 DEF IInv, DeletedStaysDeleted, StoredOf, Stored
<1>13. NodeCountRight'
  BY <1>1, <1>3, <1>5, <1>6, <1>7 DEF IInv, NodeCountRight, StoredOf, Stored, At
<1>14. StopsDone'
  BY <1>5, <1>6, <1>7 DEF IInv, StopsDone, At
<1>15. LengthsFit'
  BY <1>1, <1>6, <1>7 DEF IInv, LengthsFit
<1>16. CopiesRight'
  <2>1. CopyRight(r)'
    BY <1>7 DEF CopyRight
  <2>2. ASSUME NEW q \in Requests \ {r} PROVE CopyRight(q)'
    <3>. PICK t : t = req[q].sub
      OBVIOUS
    <3>1. HalfLoaded(t) => HalfLoaded(t)'
      BY <1>1, <1>6 DEF HalfLoaded, At
    <3>2. StoredOf(t)' = StoredOf(t)
      BY <1>3 DEF StoredOf, Stored
    <3>3. skewed \subseteq skewed'
      BY <1>7
    <3>. QED
      BY <1>5, <1>6, <3>1, <3>2, <3>3, CopyKept
  <2>. QED
    BY <2>1, <2>2 DEF CopiesRight
<1>. QED
  BY <1>8, <1>9, <1>10, <1>11, <1>12, <1>13, <1>14, <1>15, <1>16 DEF IInv

\* A refresh that failed puts its copy back.
LEMMA SaveErrorIInv ==
  ASSUME IInv, NEW r \in Requests, SaveError(r)
  PROVE  IInv'
<1>. DEFINE s == req[r].sub
<1>1. TypeOK /\ req[r] \in Request /\ req[r].step = "saveError" /\ memory \in Memory
  BY DEF IInv, TypeOK, SaveError, At, Memory
<1>2. s \in used /\ s \in Subs /\ s \notin gone
  BY <1>1 DEF IInv, RequestsOwn, OnSub, NoLoadOfGone, Loading, TypeOK
<1>3. /\ memory' \in Memory
      /\ memory'.nodes = memory.nodes
      /\ DOMAIN memory'.subs = DOMAIN memory.subs \cup {s}
      /\ memory'.subs[s] = req[r].copy
      /\ \A t \in DOMAIN memory.subs \ {s} : memory'.subs[t] = memory.subs[t]
  BY <1>1, <1>2, SaveChanges DEF SaveError, Request
<1>4. /\ skewed' = IF r \in outdated THEN skewed \cup {s} ELSE skewed
      /\ CopyRight(r)
  BY DEF SaveError, IInv, CopiesRight
<1>5. /\ UNCHANGED <<running, used, since, gone, repeats, outdated>>
      /\ req' = [req EXCEPT ![r] = NoRequest]
  BY DEF SaveError, Finish
<1>6. req'[r] = NoRequest /\ NoRequest.step = "none" /\ \A q \in Requests \ {r} : req'[q] = req[q]
  BY <1>1, <1>5 DEF TypeOK, NoRequest
<1>. HIDE DEF s
<1>7. TypeOK'
  BY <1>1, <1>2, <1>3, <1>4, <1>5, NoRequestType DEF TypeOK, Memory
<1>8. RequestsOwn'
  BY <1>5, <1>6 DEF IInv, RequestsOwn, OnSub
<1>9. KnownUsed'
  BY <1>2, <1>3, <1>5 DEF IInv, KnownUsed
<1>10. NoLoadOfGone'
  BY <1>5, <1>6 DEF IInv, NoLoadOfGone, Loading
<1>11. DeletedStaysDeleted'
  BY <1>2, <1>3, <1>5 DEF IInv, DeletedStaysDeleted, StoredOf, Stored
<1>12. \A t : HalfLoaded(t)' <=> HalfLoaded(t)
  BY <1>1, <1>6 DEF HalfLoaded, At
<1>13. \A t : StoredOf(t)' = StoredOf(t)
  BY <1>3 DEF StoredOf, Stored
<1>14. NodeCountRight'
  <2>. SUFFICES ASSUME NEW t \in DOMAIN memory'.subs \ skewed', ~HalfLoaded(t)'
                PROVE  memory'.subs[t].count = Cardinality(StoredOf(t)') + repeats'[t]
    BY Zenon DEF NodeCountRight, HalfLoaded
  <2>1. t \notin skewed /\ ~HalfLoaded(t)
    BY <1>4, <1>12
  <2>2. CASE t = s
    <3>1. req[r].copy.count = Cardinality(StoredOf(s)) + repeats[s]
      BY <1>1, <1>4, <2>1, <2>2 DEF CopyRight, s
    <3>. QED
      BY <1>3, <1>5, <1>13, <2>2, <3>1
  <2>3. CASE t # s
    BY <1>3, <1>5, <1>13, <2>1, <2>3 DEF IInv, NodeCountRight, HalfLoaded
  <2>. QED
    BY <2>2, <2>3
<1>15. StopsDone'
  BY <1>5, <1>6 DEF IInv, StopsDone, At
<1>16. LengthsFit'
  BY <1>5, <1>6 DEF IInv, LengthsFit
<1>17. CopiesRight'
  <2>1. CopyRight(r)'
    BY <1>6 DEF CopyRight
  <2>2. ASSUME NEW q \in Requests \ {r} PROVE CopyRight(q)'
    <3>1. skewed \subseteq skewed'
      BY <1>4
    <3>. QED
      BY <1>5, <1>6, <1>12, <1>13, <3>1, CopyKept
  <2>. QED
    BY <2>1, <2>2 DEF CopiesRight
<1>. QED
  BY <1>7, <1>8, <1>9, <1>10, <1>11, <1>14, <1>15, <1>16, <1>17 DEF IInv

\* The second call of a load: the nodes stored are those that are counted.
LEMMA ReplaceIInv ==
  ASSUME IInv, NEW r \in Requests, Replace(r)
  PROVE  IInv'
<1>1. TypeOK /\ req[r] \in Request /\ req[r].step = "replace" /\ memory \in Memory
  BY DEF IInv, TypeOK, Replace, At, Memory
<1>. PICK s \in Subs, S \in SUBSET Nodes : s = req[r].sub /\ S = req[r].list
  BY <1>1 DEF IInv, RequestsOwn, OnSub, TypeOK, Request
<1>. PICK length \in Lengths(S) : length = req[r].length
  BY <1>1 DEF IInv, LengthsFit
<1>2. s \notin gone /\ S \subseteq NodesOf(s)
  BY <1>1 DEF IInv, RequestsOwn, OnSub, NoLoadOfGone, Loading
<1>3. /\ memory' \in Memory
      /\ DOMAIN memory'.nodes = (DOMAIN memory.nodes \ NodesOf(s)) \cup S
      /\ DOMAIN memory'.subs = DOMAIN memory.subs
      /\ s \in DOMAIN memory.subs => memory'.subs[s].count = length
      /\ \A t \in DOMAIN memory.subs \ {s} : memory'.subs[t] = memory.subs[t]
  BY <1>1, <1>2, ReplaceChanges DEF Replace
<1>4. StoredOf(s)' = S /\ \A t \in Subs \ {s} : StoredOf(t)' = StoredOf(t)
  BY <1>2, <1>3 DEF StoredOf, Stored, NodesOf
<1>5. /\ UNCHANGED <<running, used, since, gone>>
      /\ req' = [req EXCEPT ![r] = NoRequest]
      /\ repeats' = [repeats EXCEPT ![s] = length - Cardinality(S)]
      /\ outdated' = outdated \cup {q \in Requests : Loading(q, s)}
      /\ skewed' = skewed \ {s}
  BY DEF Replace, Finish, ListChanges
<1>6. req'[r] = NoRequest /\ NoRequest.step = "none" /\ \A q \in Requests \ {r} : req'[q] = req[q]
  BY <1>1, <1>5 DEF TypeOK, NoRequest
<1>7. TypeOK'
  <2>1. /\ repeats' \in [Subs -> 0..MaxRepeats]
        /\ outdated' \subseteq Requests
        /\ skewed' \subseteq Subs
    BY <1>1, <1>5, LengthType DEF TypeOK
  <2>. QED
    BY <1>1, <1>3, <1>5, <2>1, NoRequestType DEF TypeOK, Memory
<1>8. RequestsOwn'
  BY <1>5, <1>6 DEF IInv, RequestsOwn, OnSub
<1>9. KnownUsed'
  BY <1>3, <1>5 DEF IInv, KnownUsed
<1>10. NoLoadOfGone'
  BY <1>5, <1>6 DEF IInv, NoLoadOfGone, Loading
<1>11. DeletedStaysDeleted'
  <2>1. gone \subseteq Subs
    BY <1>1 DEF TypeOK
  <2>. QED
    BY <1>2, <1>3, <1>4, <1>5, <2>1 DEF IInv, DeletedStaysDeleted
<1>12. NodeCountRight'
  <2>. SUFFICES ASSUME NEW t \in DOMAIN memory.subs \ skewed',
                       \A q \in Requests : ~(req'[q].sub = t /\ At(q, "replace")')
                PROVE  memory'.subs[t].count = Cardinality(StoredOf(t)') + repeats'[t]
    BY <1>3, Zenon DEF NodeCountRight
  <2>1. CASE t = s
    BY <1>1, <1>3, <1>4, <1>5, <2>1, LengthType DEF TypeOK
  <2>2. CASE t # s
    <3>1. t \in Subs
      BY <1>1, SubscriptionMapType DEF Memory
    <3>2. \A q \in Requests : ~(req[q].sub = t /\ At(q, "replace"))
      BY <1>6, <2>2 DEF At
    <3>3. memory.subs[t].count = Cardinality(StoredOf(t)) + repeats[t]
      BY <1>5, <2>2, <3>2 DEF IInv, NodeCountRight
    <3>. QED
      BY <1>1, <1>3, <1>4, <1>5, <2>2, <3>1, <3>3 DEF TypeOK
  <2>. QED
    BY <2>1, <2>2
<1>13. StopsDone'
  BY <1>5, <1>6 DEF IInv, StopsDone, At
<1>14. LengthsFit'
  BY <1>5, <1>6 DEF IInv, LengthsFit
<1>15. CopiesRight'
  <2>1. CopyRight(r)'
    BY <1>6 DEF CopyRight
  <2>2. ASSUME NEW q \in Requests \ {r} PROVE CopyRight(q)'
    <3>. DEFINE t == req[q].sub
    <3>1. CASE t = s
      BY <1>5, <1>6, <3>1 DEF CopyRight, Loading
    <3>2. CASE t # s /\ t \in Subs
      <4>1. HalfLoaded(t) => HalfLoaded(t)'
        BY <1>6, <3>2 DEF HalfLoaded, At
      <4>2. repeats'[t] = repeats[t]
        BY <1>1, <1>5, <3>2 DEF TypeOK
      <4>. QED
        BY <1>4, <1>5, <1>6, <3>2, <4>1, <4>2, CopyKept
    <3>3. CASE t \notin Subs
      BY <1>1, <1>6, <3>3 DEF CopyRight, IInv, RequestsOwn, OnSub, TypeOK
    <3>. QED
      BY <3>1, <3>2, <3>3
  <2>. QED
    BY <2>1, <2>2 DEF CopiesRight
<1>. QED
  BY <1>7, <1>8, <1>9, <1>10, <1>11, <1>12, <1>13, <1>14, <1>15 DEF IInv

-----------------------------------------------------------------------------
(* Deletions.                                                              *)

\* One arrives, with the nodes it is to stop.
LEMMA DeleteIInv ==
  ASSUME IInv, NEW r \in Requests, NEW s \in Subs, Delete(r, s)
  PROVE  IInv'
<1>. PICK S \in SUBSET Nodes : S = StoredOf(s)
  BY DEF StoredOf, NodesOf
<1>. DEFINE x == [NoRequest EXCEPT !.step = "deleteStop", !.sub = s, !.list = S, !.todo = S]
<1>1. /\ x \in Request /\ x.step = "deleteStop" /\ x.sub = s
      /\ x.list = S /\ x.todo = S /\ S \subseteq NodesOf(s)
  BY NoRequestType DEF NoRequest, Request, StoredOf
<1>2. TypeOK /\ Arrive(r, x) /\ s \in used /\ UNCHANGED used
  BY DEF Delete, IInv
<1>. HIDE DEF x
<1>3. /\ req[r].step = "none" /\ req'[r] = x
      /\ \A q \in Requests \ {r} : req'[q] = req[q] /\ since'[q] = since[q]
  BY <1>2 DEF Arrive, At, TypeOK
<1>4. /\ UNCHANGED <<memory, running, gone, repeats, skewed>>
      /\ outdated \ {r} \subseteq outdated'
  BY <1>2 DEF Arrive
<1>5. TypeOK'
  BY <1>1, <1>2, ArriveType DEF TypeOK
<1>6. RequestsOwn'
  BY <1>1, <1>2, <1>3 DEF IInv, RequestsOwn
<1>7. KnownUsed'
  BY <1>2, <1>4 DEF IInv, KnownUsed
<1>8. NoLoadOfGone'
  BY <1>1, <1>3, <1>4 DEF IInv, NoLoadOfGone, Loading
<1>9. DeletedStaysDeleted'
  BY <1>4 DEF IInv, DeletedStaysDeleted, StoredOf, Stored
<1>10. NodeCountRight'
  BY <1>1, <1>3, <1>4 DEF IInv, NodeCountRight, StoredOf, Stored, At
<1>11. StopsDone'
  BY <1>1, <1>3, <1>4 DEF IInv, StopsDone, At
<1>12. LengthsFit'
  BY <1>1, <1>3 DEF IInv, LengthsFit
<1>13. CopiesRight'
  BY <1>1, <1>3, <1>4
     DEF IInv, CopiesRight, CopyRight, HalfLoaded, At, StoredOf, Stored
<1>. QED
  BY <1>5, <1>6, <1>7, <1>8, <1>9, <1>10, <1>11, <1>12, <1>13 DEF IInv

LEMMA DeleteStopIInv ==
  ASSUME IInv, NEW r \in Requests, NEW n \in Nodes, DeleteStop(r, n)
  PROVE  IInv'
<1>. DEFINE x == [req[r] EXCEPT !.todo = req[r].todo \ {n}]
<1>1. TypeOK /\ req[r] \in Request /\ req[r].step = "deleteStop"
  BY DEF IInv, TypeOK, DeleteStop, At
<1>2. /\ x \in Request /\ x.step = "deleteStop" /\ x.sub = req[r].sub
      /\ x.list = req[r].list /\ x.todo = req[r].todo \ {n}
  BY <1>1 DEF Request
<1>3. req' = [req EXCEPT ![r] = x]
  BY DEF DeleteStop
<1>. HIDE DEF x
<1>4. /\ UNCHANGED <<memory, used, since, gone, repeats, outdated, skewed>>
      /\ running' = running \ {n}
      /\ req'[r] = x /\ \A q \in Requests \ {r} : req'[q] = req[q]
  BY <1>1, <1>3 DEF DeleteStop, histories, countHistories, TypeOK
<1>5. TypeOK'
  BY <1>1, <1>2, <1>3, <1>4 DEF TypeOK
<1>6. RequestsOwn'
  BY <1>1, <1>2, <1>4 DEF IInv, RequestsOwn, OnSub
<1>7. KnownUsed'
  BY <1>4 DEF IInv, KnownUsed
<1>8. NoLoadOfGone'
  BY <1>1, <1>2, <1>4 DEF IInv, NoLoadOfGone, Loading
<1>9. DeletedStaysDeleted'
  BY <1>4 DEF IInv, DeletedStaysDeleted, StoredOf, Stored
<1>10. NodeCountRight'
  BY <1>1, <1>2, <1>4 DEF IInv, NodeCountRight, StoredOf, Stored, At
<1>11. StopsDone'
  BY <1>1, <1>2, <1>4 DEF IInv, StopsDone, At
<1>12. LengthsFit'
  BY <1>1, <1>2, <1>4 DEF IInv, LengthsFit
<1>13. CopiesRight'
  BY <1>1, <1>2, <1>4
     DEF IInv, CopiesRight, CopyRight, HalfLoaded, At, StoredOf, Stored
<1>. QED
  BY <1>5, <1>6, <1>7, <1>8, <1>9, <1>10, <1>11, <1>12, <1>13 DEF IInv

\* The subscription goes, and for good unless a load of it is under way.
LEMMA DeleteSubIInv ==
  ASSUME IInv, NEW r \in Requests, DeleteSub(r)
  PROVE  IInv'
<1>1. TypeOK /\ req[r] \in Request /\ req[r].step = "deleteStop" /\ memory \in Memory
  BY DEF IInv, TypeOK, DeleteSub, At, Memory
<1>. PICK s \in Subs : s = req[r].sub
  BY <1>1 DEF IInv, RequestsOwn, OnSub, TypeOK
<1>2. s \in used
  BY <1>1 DEF IInv, RequestsOwn, OnSub
<1>3. /\ memory' \in Memory
      /\ DOMAIN memory'.nodes = DOMAIN memory.nodes \ NodesOf(s)
      /\ DOMAIN memory'.subs = DOMAIN memory.subs \ {s}
      /\ \A t \in DOMAIN memory.subs \ {s} : memory'.subs[t] = memory.subs[t]
  BY <1>1, DeleteChanges DEF DeleteSub
<1>4. StoredOf(s)' = {} /\ \A t \in Subs \ {s} : StoredOf(t)' = StoredOf(t)
  BY <1>3 DEF StoredOf, Stored, NodesOf
<1>5. \/ gone' = gone
      \/ gone' = gone \cup {s} /\ \A q \in Requests : ~Loading(q, s)
  BY DEF DeleteSub
<1>6. /\ UNCHANGED <<running, used, since>>
      /\ req' = [req EXCEPT ![r] = NoRequest]
      /\ repeats' = [repeats EXCEPT ![s] = 0]
      /\ outdated' = outdated \cup {q \in Requests : Loading(q, s)}
      /\ skewed' = skewed \ {s}
  BY DEF DeleteSub, Finish, ListChanges
<1>7. req'[r] = NoRequest /\ NoRequest.step = "none" /\ \A q \in Requests \ {r} : req'[q] = req[q]
  BY <1>1, <1>6 DEF TypeOK, NoRequest
<1>8. TypeOK'
  <2>1. /\ repeats' \in [Subs -> 0..MaxRepeats]
        /\ outdated' \subseteq Requests
        /\ skewed' \subseteq Subs
    BY <1>1, <1>6, StoreDataAssumption DEF TypeOK
  <2>. QED
    BY <1>1, <1>3, <1>5, <1>6, <2>1, NoRequestType DEF TypeOK, Memory
<1>9. RequestsOwn'
  BY <1>6, <1>7 DEF IInv, RequestsOwn, OnSub
<1>10. KnownUsed'
  BY <1>2, <1>3, <1>5, <1>6 DEF IInv, KnownUsed
<1>11. NoLoadOfGone'
  BY <1>5, <1>7 DEF IInv, NoLoadOfGone, Loading
<1>12. DeletedStaysDeleted'
  <2>1. gone \subseteq Subs
    BY <1>1 DEF TypeOK
  <2>. QED
    BY <1>3, <1>4, <1>5, <2>1 DEF IInv, DeletedStaysDeleted
<1>13. NodeCountRight'
  <2>. SUFFICES ASSUME NEW t \in DOMAIN memory'.subs \ skewed',
                       \A q \in Requests : ~(req'[q].sub = t /\ At(q, "replace")')
                PROVE  memory'.subs[t].count = Cardinality(StoredOf(t)') + repeats'[t]
    BY Zenon DEF NodeCountRight
  <2>1. t \in Subs \ {s} /\ t \in DOMAIN memory.subs \ skewed
    BY <1>1, <1>3, <1>6, SubscriptionMapType DEF Memory
  <2>2. \A q \in Requests : ~(req[q].sub = t /\ At(q, "replace"))
    BY <1>1, <1>7 DEF At
  <2>3. memory.subs[t].count = Cardinality(StoredOf(t)) + repeats[t]
    BY <2>1, <2>2 DEF IInv, NodeCountRight
  <2>. QED
    BY <1>1, <1>3, <1>4, <1>6, <2>1, <2>3 DEF TypeOK
<1>14. StopsDone'
  BY <1>6, <1>7 DEF IInv, StopsDone, At
<1>15. LengthsFit'
  BY <1>6, <1>7 DEF IInv, LengthsFit
<1>16. CopiesRight'
  <2>1. CopyRight(r)'
    BY <1>7 DEF CopyRight
  <2>2. ASSUME NEW q \in Requests \ {r} PROVE CopyRight(q)'
    <3>. DEFINE t == req[q].sub
    <3>1. CASE t = s
      BY <1>6, <1>7, <3>1 DEF CopyRight, Loading
    <3>2. CASE t # s /\ t \in Subs
      <4>1. HalfLoaded(t) => HalfLoaded(t)'
        BY <1>1, <1>7 DEF HalfLoaded, At
      <4>2. repeats'[t] = repeats[t]
        BY <1>1, <1>6, <3>2 DEF TypeOK
      <4>. QED
        BY <1>4, <1>6, <1>7, <3>2, <4>1, <4>2, CopyKept
    <3>3. CASE t \notin Subs
      BY <1>1, <1>7, <3>3 DEF CopyRight, IInv, RequestsOwn, OnSub, TypeOK
    <3>. QED
      BY <3>1, <3>2, <3>3
  <2>. QED
    BY <2>1, <2>2 DEF CopiesRight
<1>. QED
  BY <1>8, <1>9, <1>10, <1>11, <1>12, <1>13, <1>14, <1>15, <1>16 DEF IInv

-----------------------------------------------------------------------------
LEMMA NextIInv == IInv /\ [Next]_vars => IInv'
<1>. SUFFICES ASSUME IInv, [Next]_vars PROVE IInv'
  OBVIOUS
<1>1. ASSUME NEW r \in Requests, Load(r) PROVE IInv'
  <2>1. ASSUME NEW s \in Subs,
               \/ Refresh(r, s)
               \/ \E S \in SUBSET NodesOf(s) \ {{}} : \E length \in Lengths(S) :
                    Import(r, s, S, length)
        PROVE  IInv'
    BY <2>1, RefreshIInv, ImportIInv
  <2>2. CASE \/ \E S \in SUBSET NodesOf(req[r].sub) \ {{}} : \E length \in Lengths(S) :
                  Fetch(r, S, length)
             \/ FetchFails(r)
    <3>1. {} \in SUBSET NodesOf(req[r].sub) /\ Cardinality({}) \in Lengths({})
      BY FS_EmptySet, StoreDataAssumption DEF Lengths
    <3>. QED
      BY <2>2, <3>1, FetchIInv
  <2>3. CASE SaveError(r) \/ Replace(r) \/ \E fails \in BOOLEAN : Save(r, fails)
    BY <2>3, SaveErrorIInv, ReplaceIInv, SaveIInv
  <2>. QED
    BY <1>1, <2>1, <2>2, <2>3 DEF Load
<1>2. ASSUME NEW r \in Requests, Removal(r) PROVE IInv'
  BY <1>2, DeleteIInv, DeleteStopIInv, DeleteSubIInv DEF Removal
<1>3. ASSUME NEW r \in Requests, Control(r) PROVE IInv'
  BY <1>3, ControlStepIInv
<1>4. CASE UNCHANGED vars
  BY <1>4 DEF vars, histories, IInv, TypeOK, RequestsOwn, KnownUsed, NoLoadOfGone, Loading,
              DeletedStaysDeleted, NodeCountRight, StoredOf, Stored, StopsDone, At,
              LengthsFit, CopiesRight, CopyRight, HalfLoaded, countHistories
<1>. QED
  BY <1>1, <1>2, <1>3, <1>4 DEF Next

\* Everything below follows from the inductive invariant: whatever requests
\* interleave, for any number of them, of subscriptions and of nodes.
THEOREM Inductive == Spec => []IInv
BY InitIInv, NextIInv, PTL DEF Spec

\* The store, the manager and the requests keep their types; no count in the
\* store exceeds the length of the longest list there is (store.go:85-205).
THEOREM TypeCorrect == Spec => []TypeOK
<1>1. IInv => TypeOK
  BY DEF IInv
<1>. QED
  BY <1>1, Inductive, PTL

\* A subscription shows the number of its stored nodes and of the entries of its
\* list that repeat one, unless a load of it is between its two calls, an import
\* of it has failed there, or a failed refresh has put back a copy older than
\* the list (store.go:182-204, server.go:268-282, 329-349).
THEOREM CountsCorrect == Spec => []NodeCountRight
<1>1. IInv => NodeCountRight
  BY DEF IInv
<1>. QED
  BY <1>1, Inductive, PTL

\* A subscription deleted with no load of it under way is never stored again,
\* nor is a node of it, whatever copies of them other requests still hold
\* (store.go:144-158, server.go:300-316).
THEOREM DeletionsCorrect == Spec => []DeletedStaysDeleted
<1>1. IInv => DeletedStaysDeleted
  BY DEF IInv
<1>. QED
  BY <1>1, Inductive, PTL

\* When a deletion removes the subscription, a node it found stored at first
\* runs only if some request has started it since (server.go:300-316).
THEOREM DeleteStopsCorrect == Spec => DeleteStopsListed
<1>1. IInv /\ [Next]_vars
        => [\A r \in Requests : DeleteSub(r) => running \cap req[r].list \subseteq since[r]]_vars
  BY DEF IInv, StopsDone, DeleteSub
<1>. QED
  BY <1>1, Inductive, PTL DEF Spec, DeleteStopsListed

\* A deletion holds: what it removed does not come back, and what it stopped runs
\* only if it was started again (store.go:144-158, server.go:300-316).
THEOREM DeletionHoldsCorrect == Spec => DeletionHolds
  BY DeletionsCorrect, DeleteStopsCorrect, PTL DEF DeletionHolds
=============================================================================
