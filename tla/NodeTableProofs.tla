-------------------------- MODULE NodeTableProofs --------------------------
(***************************************************************************)
(* Proofs about the two tables of nodes: the one in the Store, which is    *)
(* written to a file, for any subscriptions, nodes and settings; and the   *)
(* one in ReferencePool, the program this one was written after, for any   *)
(* subscriptions and any number of tests, refreshes and tunnels.           *)
(***************************************************************************)
EXTENDS Store, ReferencePool, FiniteSetTheorems, WellFoundedInduction, SequenceTheorems, TLAPS

-----------------------------------------------------------------------------
(* The maps of the store's content, and the operations of StoreData.       *)

LEMMA SubscriptionMapType ==
  ASSUME NEW f
  PROVE  f \in SubscriptionMap <=> DOMAIN f \subseteq Subs /\ f \in [DOMAIN f -> Subscription]
BY DEF SubscriptionMap

LEMMA NodeMapType ==
  ASSUME NEW f
  PROVE  f \in NodeMap <=> DOMAIN f \subseteq Nodes /\ f \in [DOMAIN f -> BOOLEAN]
BY DEF NodeMap

LEMMA EmptyMaps == << >> \in SubscriptionMap /\ << >> \in NodeMap
<1>1. DOMAIN << >> = {} /\ << >> \in [DOMAIN << >> -> Subscription]
      /\ << >> \in [DOMAIN << >> -> BOOLEAN]
  OBVIOUS
<1>. QED
  BY <1>1, SubscriptionMapType, NodeMapType

\* The length of a list of any set of nodes is a count.
LEMMA LengthType ==
  ASSUME NEW S \in SUBSET Nodes, NEW length \in Lengths(S)
  PROVE  length \in 0..(Cardinality(Nodes) + MaxRepeats)
<1>1. /\ Cardinality(Nodes) \in Nat
      /\ Cardinality(S) \in Nat
      /\ Cardinality(S) <= Cardinality(Nodes)
  BY StoreDataAssumption, FS_Subset, FS_CardinalityType
<1>. QED
  BY <1>1, StoreDataAssumption DEF Lengths

\* SaveSubscription changes one subscription and nothing else.  Here and below,
\* data is any record with the two maps, whatever else it holds.
LEMMA SaveSubscriptionType ==
  ASSUME NEW K, NEW data \in [config : K, subs : SubscriptionMap, nodes : NodeMap],
         NEW s \in Subs, NEW sub \in Subscription
  PROVE  SaveSubscription(data, s, sub) \in [config : K, subs : SubscriptionMap, nodes : NodeMap]
<1>. DEFINE f == [t \in DOMAIN data.subs \cup {s} |-> IF t = s THEN sub ELSE data.subs[t]]
<1>1. f \in SubscriptionMap
  BY SubscriptionMapType
<1>2. SaveSubscription(data, s, sub) = [data EXCEPT !.subs = f]
  BY DEF SaveSubscription
<1>. QED
  BY <1>1, <1>2

\* DeleteSubscription keeps every other subscription and its nodes.
LEMMA DeleteSubscriptionType ==
  ASSUME NEW K, NEW data \in [config : K, subs : SubscriptionMap, nodes : NodeMap],
         NEW s \in Subs
  PROVE  DeleteSubscription(data, s) \in [config : K, subs : SubscriptionMap, nodes : NodeMap]
<1>1. Without(data.subs, {s}) \in SubscriptionMap
  BY SubscriptionMapType DEF Without
<1>2. Without(data.nodes, NodesOf(s)) \in NodeMap
  BY NodeMapType DEF Without
<1>. QED
  BY <1>1, <1>2 DEF DeleteSubscription

LEMMA ReplaceNodesType ==
  ASSUME NEW K, NEW data \in [config : K, subs : SubscriptionMap, nodes : NodeMap],
         NEW s \in Subs, NEW S \in SUBSET Nodes, NEW length \in Lengths(S)
  PROVE  ReplaceNodes(data, s, S, length) \in [config : K, subs : SubscriptionMap, nodes : NodeMap]
<1>. DEFINE f == [n \in (DOMAIN data.nodes \ NodesOf(s)) \cup S |-> n \notin S /\ data.nodes[n]]
            g == [t \in DOMAIN data.subs |->
                    IF t = s THEN [data.subs[t] EXCEPT !.count = length]
                             ELSE data.subs[t]]
<1>1. f \in NodeMap
  BY NodeMapType
<1>2. g \in SubscriptionMap
  BY SubscriptionMapType, LengthType DEF Subscription
<1>3. ReplaceNodes(data, s, S, length) = [data EXCEPT !.nodes = f, !.subs = g]
  BY DEF ReplaceNodes
<1>. QED
  BY <1>1, <1>2, <1>3

\* UpdateNodeRuntime adds and drops nothing.
LEMMA UpdateNodeRuntimeType ==
  ASSUME NEW K, NEW data \in [config : K, subs : SubscriptionMap, nodes : NodeMap],
         NEW n, NEW running \in BOOLEAN
  PROVE  LET new == UpdateNodeRuntime(data, n, running)
         IN  /\ new \in [config : K, subs : SubscriptionMap, nodes : NodeMap]
             /\ new.config = data.config
             /\ new.subs = data.subs
             /\ DOMAIN new.nodes = DOMAIN data.nodes
<1>. DEFINE f == [m \in DOMAIN data.nodes |-> IF m = n THEN running ELSE data.nodes[m]]
<1>1. f \in NodeMap
  BY NodeMapType
<1>2. UpdateNodeRuntime(data, n, running) = [data EXCEPT !.nodes = f]
  BY DEF UpdateNodeRuntime
<1>. QED
  BY <1>1, <1>2

-----------------------------------------------------------------------------

(* The inductive invariant.                                               *)

\* What is about to be renamed is the memory it was written from: s.mu is held
\* from the one to the other.  AlwaysLoads and OnlyRuntimeIsLost need it.
TmpIsMemory == stage = "rename" => tmp = memory

IInv == TypeOK /\ TmpIsMemory /\ AlwaysLoads /\ OnlyRuntimeIsLost

LEMMA EmptyIsData == Empty \in Data
BY StoreAssumption, EmptyMaps DEF Empty, Data

LEMMA LoadedIsData ==
  ASSUME NEW data \in Data
  PROVE  /\ Loaded(data) \in Data
         /\ Lasting(Loaded(data)) = Lasting(data)
<1>1. CASE data.config = NoWebPort
  <2>. DEFINE new == [data EXCEPT !.config = DefaultConfig]
  <2>1. /\ Loaded(data) = new /\ new \in Data
        /\ new.config = DefaultConfig /\ new.subs = data.subs /\ new.nodes = data.nodes
    BY <1>1, StoreAssumption DEF Loaded, Data
  <2>2. Loaded(new) = new
    BY <2>1, StoreAssumption DEF Loaded
  <2>. QED
    BY <2>1, <2>2 DEF Lasting
<1>2. CASE data.config # NoWebPort
  BY <1>2 DEF Loaded
<1>. QED
  BY <1>1, <1>2

\* Every operation that saves takes the store's content to a content.
LEMMA OperationType ==
  ASSUME TypeOK, SavingOperation
  PROVE  /\ memory' \in Data
         /\ stage' = "write"
         /\ UNCHANGED <<file, tmp, booting, unsaved>>
<1>. USE DEF Operation
<1>1. memory \in [config : Configs, subs : SubscriptionMap, nodes : NodeMap]
  BY DEF TypeOK, Data
<1>2. CASE \E s \in Subs, sub \in Subscription : Operation(SaveSubscription(memory, s, sub))
  BY <1>1, <1>2, SaveSubscriptionType DEF Data
<1>3. CASE \E s \in Subs : Operation(DeleteSubscription(memory, s))
  BY <1>1, <1>3, DeleteSubscriptionType DEF Data
<1>4. CASE \E s \in Subs : \E S \in SUBSET NodesOf(s) \ {{}} : \E length \in Lengths(S) :
             Operation(ReplaceNodes(memory, s, S, length))
  BY <1>1, <1>4, ReplaceNodesType DEF Data, NodesOf
<1>5. CASE \E cfg \in Configs : Operation([memory EXCEPT !.config = cfg])
  BY <1>1, <1>5 DEF Data
<1>. QED
  BY <1>2, <1>3, <1>4, <1>5 DEF SavingOperation

\* UpdateNodeRuntime changes nothing that a restart brings back.
LEMMA RuntimeUpdateType ==
  ASSUME TypeOK, NEW n \in Nodes, NEW running \in BOOLEAN, RuntimeUpdate(n, running)
  PROVE  memory' \in Data /\ Lasting(memory') = Lasting(memory)
<1>1. memory \in [config : Configs, subs : SubscriptionMap, nodes : NodeMap]
  BY DEF TypeOK, Data
<1>2. /\ memory' \in Data /\ memory'.config = memory.config
      /\ memory'.subs = memory.subs /\ DOMAIN memory'.nodes = DOMAIN memory.nodes
  BY <1>1, UpdateNodeRuntimeType DEF RuntimeUpdate, Data
<1>3. Loaded(memory').config = Loaded(memory).config
  BY <1>1, <1>2, StoreAssumption DEF Loaded, Data
<1>. QED
  BY <1>2, <1>3 DEF Lasting

-----------------------------------------------------------------------------
LEMMA InitIInv == Init => IInv
BY EmptyIsData, FileAssumption
   DEF Init, IInv, TypeOK, TmpIsMemory, AlwaysLoads, OnlyRuntimeIsLost

LEMMA NextIInv ==
  ASSUME IInv, [Next]_vars
  PROVE  IInv'
<1>. USE FileAssumption DEF IInv, TypeOK, TmpIsMemory, AlwaysLoads, OnlyRuntimeIsLost
<1>1. CASE Load
  BY <1>1, LoadedIsData DEF Load
<1>2. CASE CreateFile
  BY <1>2, EmptyIsData DEF CreateFile
<1>3. CASE SavingOperation
  BY <1>3, OperationType
<1>4. CASE \E n \in Nodes, running \in BOOLEAN : RuntimeUpdate(n, running)
  <2>1. PICK n \in Nodes, running \in BOOLEAN : RuntimeUpdate(n, running)
    BY <1>4
  <2>2. memory' \in Data /\ Lasting(memory') = Lasting(memory)
    BY <2>1, RuntimeUpdateType
  <2>. QED
    BY <2>1, <2>2 DEF RuntimeUpdate, Lasting
<1>5. CASE WriteBegins
  BY <1>5 DEF WriteBegins
<1>6. CASE WriteEnds
  BY <1>6 DEF WriteEnds
<1>7. CASE Rename
  BY <1>7 DEF Rename
<1>8. CASE SaveFails
  BY <1>8 DEF SaveFails
<1>9. CASE Crash
  BY <1>9 DEF Crash
<1>10. CASE UNCHANGED vars
  BY <1>10 DEF vars
<1>. QED
  BY <1>1, <1>2, <1>3, <1>4, <1>5, <1>6, <1>7, <1>8, <1>9, <1>10 DEF Next

THEOREM Inductive == Spec => []IInv
BY InitIInv, NextIInv, PTL DEF Spec

\* The type invariant, whatever the operations, failures and crashes.
THEOREM TypeCorrect == Spec => []TypeOK
BY Inductive, PTL DEF IInv

\* Every file that the program leaves behind loads.
THEOREM StartsAgain == Spec => []AlwaysLoads
BY Inductive, PTL DEF IInv

\* A crash between two operations costs runtime fields only.
THEOREM LastingKept == Spec => []OnlyRuntimeIsLost
BY Inductive, PTL DEF IInv

-----------------------------------------------------------------------------
(* Refinement.                                                             *)

\* Every step of the store changes the live value, keeps it, restarts from
\* the kept one, or does nothing that DurableStore sees.
LEMMA StepIsDurable ==
  ASSUME IInv, [Next]_vars
  PROVE  [Durable!Next]_(Durable!storeVars)
<1>. USE FileAssumption DEF IInv, TypeOK, TmpIsMemory, AlwaysLoads
<1>. USE DEF Durable!Next, Durable!storeVars, Durable!Change, Durable!Keep, Durable!Restart
<1>1. CASE Load
  BY <1>1 DEF Load
<1>2. CASE CreateFile
  BY <1>2, EmptyIsData DEF CreateFile
<1>3. CASE SavingOperation
  BY <1>3, OperationType
<1>4. CASE \E n \in Nodes, running \in BOOLEAN : RuntimeUpdate(n, running)
  BY <1>4, RuntimeUpdateType DEF RuntimeUpdate
<1>5. CASE Rename
  BY <1>5 DEF Rename
<1>6. CASE WriteBegins \/ WriteEnds \/ SaveFails \/ Crash
  BY <1>6 DEF WriteBegins, WriteEnds, SaveFails, Crash
<1>7. CASE UNCHANGED vars
  BY <1>7 DEF vars
<1>. QED
  BY <1>1, <1>2, <1>3, <1>4, <1>5, <1>6, <1>7 DEF Next

\* The store implements DurableStore: what a restart finds was the store's
\* content at one moment.
THEOREM ImplementsDurableStore == Spec => StoreIsDurable
<1>1. Init => Durable!Init
  BY EmptyIsData DEF Init, Durable!Init
<1>2. IInv /\ [Next]_vars => [Durable!Next]_(Durable!storeVars)
  BY StepIsDurable
<1>. QED
  BY <1>1, <1>2, Inductive, PTL DEF Spec, StoreIsDurable, Durable!Spec
-----------------------------------------------------------------------------
(* ReferencePool: its loops over the table and over lists.                 *)

\* Induction over a set: the least number left out has no predecessor.
LEMMA Induction ==
  ASSUME NEW S \in SUBSET Nat, 0 \in S, \A n \in S : n + 1 \in S
  PROVE  \A n \in Nat : n \in S
<1>. SUFFICES ASSUME NEW n \in Nat, n \notin S PROVE FALSE
  OBVIOUS
<1>. DEFINE Upto(m) == 0..m
            missing == {m \in 0..n : m \notin S}
            T == {Upto(m) : m \in missing}
<1>1. IsWellFoundedOn(StrictSubsetOrdering(0..n), FiniteSubsetsOf(0..n))
  BY FS_StrictSubsetOrderingWellFounded, FS_Interval
<1>2. T \subseteq FiniteSubsetsOf(0..n) /\ T # {}
  <2>1. ASSUME NEW m \in missing PROVE Upto(m) \subseteq 0..n /\ IsFiniteSet(Upto(m))
    BY FS_Interval
  <2>2. n \in missing
    OBVIOUS
  <2>. QED
    BY <2>1, <2>2 DEF FiniteSubsetsOf
<1>3. PICK x \in T : \A y \in T : ~ (<<y, x>> \in StrictSubsetOrdering(0..n))
  BY <1>1, <1>2, WFMin
<1>4. PICK m \in missing : x = Upto(m)
  BY <1>3
<1>5. m \in Nat /\ m # 0 /\ m <= n /\ m \notin S
  BY <1>4
<1>6. m - 1 \in missing
  <2>1. m - 1 \in Nat /\ (m - 1) + 1 = m
    BY <1>5
  <2>2. m - 1 \notin S
    BY <1>5, <2>1
  <2>. QED
    BY <1>5, <2>1, <2>2
<1>7. <<Upto(m - 1), Upto(m)>> \in StrictSubsetOrdering(0..n)
  <2>1. Upto(m - 1) \subseteq Upto(m) /\ m \in Upto(m) /\ m \notin Upto(m - 1)
    BY <1>5
  <2>2. Upto(m) \subseteq 0..n
    BY <1>5
  <2>. QED
    BY <2>1, <2>2 DEF StrictSubsetOrdering
<1>. QED
  BY <1>3, <1>4, <1>6, <1>7

Key(n) == <<n.idx, n.id>>
Keys(ns) == {Key(ns[i]) : i \in DOMAIN ns}

\* A table has no Index and no server twice.
Distinct(ns) ==
  \A i, j \in DOMAIN ns : ns[i].idx = ns[j].idx \/ ns[i].id = ns[j].id => i = j

Table(ns) == ns \in Seq(Node) /\ Distinct(ns)

\* What a loop does at each round holds at its end.
LEMMA LoopIn ==
  ASSUME NEW A, NEW k \in Nat, NEW g, g[0] \in A,
         \A i \in 1..k : g[i - 1] \in A => g[i] \in A
  PROVE  g[k] \in A
<1>. DEFINE S == {i \in Nat : i <= k => g[i] \in A}
<1>1. 0 \in S
  OBVIOUS
<1>2. ASSUME NEW i \in S PROVE i + 1 \in S
  <2>. SUFFICES ASSUME i + 1 <= k PROVE g[i + 1] \in A
    OBVIOUS
  <2>1. i + 1 \in 1..k /\ (i + 1) - 1 = i /\ g[i] \in A
    OBVIOUS
  <2>. QED
    BY <2>1
<1>. HIDE DEF S
<1>3. S \in SUBSET Nat
  BY DEF S
<1>4. k \in S
  BY <1>1, <1>2, <1>3, Induction
<1>. QED
  BY <1>4 DEF S

\* The values a loop of k rounds goes through, from a.
RunOf(f, A, k, a, round) ==
  /\ f \in [0..k -> A] /\ f[0] = a
  /\ \A i \in 1..k : f[i] = round[<<f[i - 1], i>>]

\* A loop whose rounds keep to a set is defined.
LEMMA LoopRuns ==
  ASSUME NEW A, NEW k \in Nat, NEW a \in A, NEW round \in [A \X (1..k) -> A]
  PROVE  \E f : RunOf(f, A, k, a, round)
<1>. USE DEF RunOf
<1>. DEFINE Runs(f, m) == RunOf(f, A, m, a, round)
            S == {m \in Nat : m <= k => \E f : Runs(f, m)}
<1>1. 0 \in S
  <2>1. Runs([i \in 0..0 |-> a], 0)
    OBVIOUS
  <2>. QED
    BY <2>1
<1>2. ASSUME NEW m \in S PROVE m + 1 \in S
  <2>. SUFFICES ASSUME m + 1 <= k PROVE \E f : Runs(f, m + 1)
    OBVIOUS
  <2>1. PICK f : Runs(f, m)
    BY <1>2
  <2>. DEFINE next == round[<<f[m], m + 1>>]
              g == [i \in 0..(m + 1) |-> IF i = m + 1 THEN next ELSE f[i]]
  <2>2. f[m] \in A /\ m + 1 \in 1..k /\ m \in Nat
    BY <2>1
  <2>3. next \in A
    BY <2>2
  <2>4. g \in [0..(m + 1) -> A]
    BY <2>1, <2>2, <2>3
  <2>5. g[0] = a /\ g[m + 1] = next /\ \A i \in 0..m : g[i] = f[i]
    BY <2>1, <2>2
  <2>. HIDE DEF g
  <2>6. ASSUME NEW i \in 1..(m + 1) PROVE g[i] = round[<<g[i - 1], i>>]
    <3>1. CASE i = m + 1
      <4>1. i - 1 = m /\ m \in 0..m
        BY <2>2, <3>1
      <4>. QED
        BY <2>5, <3>1, <4>1
    <3>2. CASE i # m + 1
      <4>1. i \in 1..m /\ i \in 0..m /\ i - 1 \in 0..m
        BY <2>2, <3>2
      <4>. QED
        BY <2>1, <2>5, <4>1
    <3>. QED
      BY <3>1, <3>2
  <2>. QED
    BY <2>4, <2>5, <2>6
<1>. HIDE DEF S
<1>3. S \in SUBSET Nat
  BY DEF S
<1>4. k \in S
  BY <1>1, <1>2, <1>3, Induction
<1>. QED
  BY <1>4 DEF S

\* The table with what it says of its nodes changed, not their keys.
LEMMA SameKeys ==
  ASSUME NEW ns, Table(ns), NEW t \in [DOMAIN ns -> Node],
         \A i \in DOMAIN ns : t[i].idx = ns[i].idx /\ t[i].id = ns[i].id
  PROVE  Table(t) /\ Keys(t) = Keys(ns)
<1>1. DOMAIN ns = 1..Len(ns) /\ Len(ns) \in Nat
  BY LenProperties DEF Table
<1>2. t \in Seq(Node)
  BY <1>1, SeqDef
<1>3. Distinct(t)
  BY DEF Table, Distinct
<1>4. Keys(t) = Keys(ns)
  BY DEF Keys, Key
<1>. QED
  BY <1>2, <1>3, <1>4 DEF Table

\* AddNode gives no Index twice and takes no server twice.
LEMMA AddNodeTable ==
  ASSUME NEW ns, Table(ns), NEW n \in Node
  PROVE  /\ Table(AddNode(ns, n)) /\ Keys(ns) \subseteq Keys(AddNode(ns, n))
         /\ DOMAIN ns \subseteq DOMAIN AddNode(ns, n)
<1>1. CASE PortConflict(ns, n) \/ Listed(ns, n.id)
  BY <1>1 DEF AddNode
<1>2. CASE ~(PortConflict(ns, n) \/ Listed(ns, n.id))
  <2>. DEFINE t == Append(ns, n)
              k == Len(ns)
  <2>1. k \in Nat /\ DOMAIN ns = 1..k /\ ns \in Seq(Node)
    BY LenProperties DEF Table
  <2>2. /\ t \in Seq(Node) /\ DOMAIN t = 1..(k + 1)
        /\ t[k + 1] = n /\ \A i \in 1..k : t[i] = ns[i]
    BY <2>1, AppendProperties
  <2>. HIDE DEF t, k
  <2>3. \A i \in 1..k : ns[i].idx # n.idx /\ ns[i].id # n.id
    BY <1>2, <2>1 DEF PortConflict, Listed
  <2>4. \A i \in 1..(k + 1) : i \in 1..k \/ i = k + 1
    BY <2>1
  <2>5. Distinct(t)
    BY <2>1, <2>2, <2>3, <2>4 DEF Distinct, Table
  <2>6. 1..k \subseteq 1..(k + 1)
    BY <2>1
  <2>7. Keys(ns) \subseteq Keys(t)
    BY <2>1, <2>2, <2>6 DEF Keys
  <2>8. AddNode(ns, n) = t
    BY <1>2 DEF AddNode, t
  <2>. QED
    BY <2>1, <2>2, <2>5, <2>6, <2>7, <2>8 DEF Table
<1>. QED
  BY <1>1, <1>2

LEMMA NewNode ==
  ASSUME NEW id \in Ids, NEW index \in Nat
  PROVE  getNodeByV2rayNode(id, index) \in Node
BY ReferenceAssumption DEF getNodeByV2rayNode, Node

Grown(ns) == {t \in Seq(Node) : /\ Distinct(t) /\ Keys(ns) \subseteq Keys(t)
                                /\ DOMAIN ns \subseteq DOMAIN t}

LEMMA AddNodeGrown ==
  ASSUME NEW ns, NEW t \in Grown(ns), NEW n \in Node
  PROVE  AddNode(t, n) \in Grown(ns)
<1>1. Table(t)
  BY DEF Grown, Table
<1>2. /\ Table(AddNode(t, n)) /\ Keys(t) \subseteq Keys(AddNode(t, n))
      /\ DOMAIN t \subseteq DOMAIN AddNode(t, n)
  BY <1>1, AddNodeTable
<1>. QED
  BY <1>2 DEF Grown, Table

LEMMA addNodeListTable ==
  ASSUME NEW ns, Table(ns), NEW list \in Seq(Ids)
  PROVE  addNodeList(ns, list) \in Grown(ns)
<1>. DEFINE A == Grown(ns)
            k == Len(list)
            Round(t, i) == AddNode(t, getNodeByV2rayNode(list[i], i - 1))
            round == [p \in A \X (1..k) |-> Round(p[1], p[2])]
            Is(f) == f = [i \in 0..k |-> IF i = 0 THEN ns ELSE Round(f[i - 1], i)]
            g == CHOOSE f : Is(f)
<1>1. k \in Nat /\ \A i \in 1..k : list[i] \in Ids /\ i - 1 \in Nat
  BY LenProperties, ElementOfSeq
<1>2. ns \in A
  BY DEF Grown, Table
<1>3. \A t \in A, i \in 1..k : Round(t, i) \in A
  BY <1>1, NewNode, AddNodeGrown
<1>. HIDE DEF A
<1>4. PICK f : RunOf(f, A, k, ns, round)
  <2>1. round \in [A \X (1..k) -> A]
    BY <1>3
  <2>2. k \in Nat
    BY <1>1
  <2>. HIDE DEF Round, round, k
  <2>. QED
    BY <1>2, <2>1, <2>2, LoopRuns
<1>5. Is(f)
  <2>1. ASSUME NEW i \in 0..k PROVE f[i] = IF i = 0 THEN ns ELSE Round(f[i - 1], i)
    <3>1. CASE i = 0
      BY <1>4, <3>1 DEF RunOf
    <3>2. CASE i # 0
      <4>1. i \in 1..k /\ i - 1 \in 0..k
        BY <1>1, <3>2
      <4>2. f[i - 1] \in A
        BY <1>4, <4>1 DEF RunOf
      <4>. QED
        BY <1>4, <3>2, <4>1, <4>2 DEF RunOf
    <3>. QED
      BY <3>1, <3>2
  <2>2. f \in [0..k -> A]
    BY <1>4 DEF RunOf
  <2>. HIDE DEF Round
  <2>. QED
    BY <2>1, <2>2
<1>6. Is(g)
  <2>. HIDE DEF Is
  <2>. QED
    BY <1>5
<1>. HIDE DEF g
<1>7. g[0] = ns /\ \A i \in 1..k : g[i] = Round(g[i - 1], i)
  <2>1. 0 \in 0..k /\ \A i \in 1..k : i \in 0..k /\ i # 0
    BY <1>1
  <2>. HIDE DEF Round
  <2>. QED
    BY <1>6, <2>1
<1>8. g[k] \in A
  <2>1. \A i \in 1..k : g[i - 1] \in A => g[i] \in A
    BY <1>3, <1>7
  <2>. HIDE DEF k
  <2>. QED
    BY <1>1, <1>2, <1>7, <2>1, LoopIn
<1>9. addNodeList(ns, list) = g[k]
  BY DEF addNodeList, g
<1>. QED
  BY <1>8, <1>9 DEF A
-----------------------------------------------------------------------------
(* V2Ray's tags and the loops over the table.                              *)

\* The table with the keys it has; V2Ray with the tags of such keys.
Alike(ns) == {t \in [DOMAIN ns -> Node] :
                \A i \in DOMAIN ns : t[i].idx = ns[i].idx /\ t[i].id = ns[i].id}
Cores(K) == [in : SUBSET Nat, out : SUBSET K]

LEMMA AlikeTable ==
  ASSUME NEW ns, Table(ns), NEW t \in Alike(ns)
  PROVE  Table(t) /\ Keys(t) = Keys(ns) /\ DOMAIN t = DOMAIN ns
BY SameKeys DEF Alike

LEMMA TableAlike ==
  ASSUME NEW ns, Table(ns)
  PROVE  ns \in Alike(ns) /\ Len(ns) \in Nat /\ DOMAIN ns = 1..Len(ns)
<1>1. ns \in [DOMAIN ns -> Node] /\ Len(ns) \in Nat /\ DOMAIN ns = 1..Len(ns)
  BY LenProperties DEF Table
<1>. QED
  BY <1>1 DEF Alike

LEMMA NodeField ==
  ASSUME NEW n \in Node
  PROVE  /\ n.idx \in Nat /\ n.id \in Ids
         /\ \A b \in BOOLEAN :
              /\ [n EXCEPT !.up = b] \in Node
              /\ [n EXCEPT !.up = b].idx = n.idx /\ [n EXCEPT !.up = b].id = n.id
BY DEF Node

LEMMA UpAlike ==
  ASSUME NEW ns, NEW t \in Alike(ns), NEW i \in DOMAIN ns, NEW b \in BOOLEAN
  PROVE  [t EXCEPT ![i].up = b] \in Alike(ns)
<1>. DEFINE u == [t EXCEPT ![i].up = b]
<1>1. t \in [DOMAIN ns -> Node] /\ t[i] \in Node
  BY DEF Alike
<1>2. u = [t EXCEPT ![i] = [t[i] EXCEPT !.up = b]]
  BY <1>1
<1>3. [t[i] EXCEPT !.up = b] \in Node
      /\ [t[i] EXCEPT !.up = b].idx = t[i].idx /\ [t[i] EXCEPT !.up = b].id = t[i].id
  BY <1>1, NodeField
<1>. QED
  BY <1>1, <1>2, <1>3 DEF Alike

LEMMA AddToPoolCore ==
  ASSUME NEW K, NEW c \in Cores(K), NEW n \in Node, Key(n) \in K, NEW fault
  PROVE  AddToPool(c, n, fault) \in [core : Cores(K), ok : BOOLEAN]
<1>. DEFINE in == [c EXCEPT !.in = @ \cup {n.idx}]
            out == [in EXCEPT !.out = {o \in @ : o[1] # n.idx} \cup {<<n.idx, n.id>>}]
<1>1. n.idx \in Nat
  BY NodeField
<1>2. in \in Cores(K) /\ in.out = c.out
  BY <1>1 DEF Cores
<1>3. out \in Cores(K)
  <2>1. {o \in in.out : o[1] # n.idx} \cup {<<n.idx, n.id>>} \subseteq K
    BY <1>2 DEF Cores, Key
  <2>. HIDE DEF in
  <2>. QED
    BY <1>2, <2>1 DEF Cores
<1>4. AddToPool(c, n, fault) =
        IF fault = "first" \/ n.idx \in c.in THEN [core |-> c, ok |-> FALSE]
        ELSE IF fault = "second" THEN [core |-> in, ok |-> FALSE]
        ELSE [core |-> out, ok |-> TRUE]
  BY DEF AddToPool
<1>. HIDE DEF in, out
<1>. QED
  BY <1>2, <1>3, <1>4

LEMMA RemoveTagCore ==
  ASSUME NEW K, NEW c \in Cores(K), NEW tag, NEW fault
  PROVE  RemoveTag(c, tag, fault) \in [core : Cores(K), ok : BOOLEAN]
<1>. DEFINE noOut == [c EXCEPT !.out = {o \in @ : o[1] # tag}]
            noIn == [noOut EXCEPT !.in = @ \ {tag}]
<1>1. noOut \in Cores(K)
  BY DEF Cores
<1>2. noIn \in Cores(K)
  <2>. HIDE DEF noOut
  <2>. QED
    BY <1>1 DEF Cores
<1>3. RemoveTag(c, tag, fault) =
        IF fault = "first" THEN [core |-> c, ok |-> FALSE]
        ELSE IF fault = "second" \/ tag \notin c.in THEN [core |-> noOut, ok |-> FALSE]
        ELSE [core |-> noIn, ok |-> TRUE]
  BY DEF RemoveTag
<1>. HIDE DEF noOut, noIn
<1>. QED
  BY <1>1, <1>2, <1>3
LEMMA AddNewNodesTable ==
  ASSUME NEW ns, Table(ns), NEW list \in Seq(Ids)
  PROVE  AddNewNodes(ns, list) \in Grown(ns)
<1>. DEFINE A == [nodes : Grown(ns), newIndex : Nat]
            k == Len(list)
            a == [nodes |-> ns, newIndex |-> Len(ns)]
            Round(t, i) ==
              LET n == getNodeByV2rayNode(list[i], t.newIndex)
              IN  IF Listed(ns, list[i]) \/ PortConflict(t.nodes, n) THEN t
                  ELSE [nodes |-> AddNode(t.nodes, n), newIndex |-> t.newIndex + 1]
            round == [p \in A \X (1..k) |-> Round(p[1], p[2])]
            Is(f) == f = [i \in 0..k |-> IF i = 0 THEN a ELSE Round(f[i - 1], i)]
            g == CHOOSE f : Is(f)
<1>1. k \in Nat /\ \A i \in 1..k : list[i] \in Ids
  BY LenProperties, ElementOfSeq
<1>2. a \in A
  BY TableAlike DEF Grown, Table
<1>3. ASSUME NEW t \in A, NEW i \in 1..k PROVE Round(t, i) \in A
  <2>. DEFINE n == getNodeByV2rayNode(list[i], t.newIndex)
  <2>1. t.nodes \in Grown(ns) /\ t.newIndex \in Nat /\ t.newIndex + 1 \in Nat
    OBVIOUS
  <2>2. AddNode(t.nodes, n) \in Grown(ns)
    BY <1>1, <2>1, NewNode, AddNodeGrown
  <2>3. Round(t, i) = t
        \/ Round(t, i) = [nodes |-> AddNode(t.nodes, n), newIndex |-> t.newIndex + 1]
    OBVIOUS
  <2>. HIDE DEF Round, n
  <2>. QED
    BY <2>1, <2>2, <2>3
<1>. HIDE DEF A, a
<1>4. PICK f : RunOf(f, A, k, a, round)
  <2>1. round \in [A \X (1..k) -> A]
    BY <1>3
  <2>2. k \in Nat
    BY <1>1
  <2>. HIDE DEF Round, round, k
  <2>. QED
    BY <1>2, <2>1, <2>2, LoopRuns
<1>5. Is(f)
  <2>1. ASSUME NEW i \in 0..k PROVE f[i] = IF i = 0 THEN a ELSE Round(f[i - 1], i)
    <3>1. CASE i = 0
      BY <1>4, <3>1 DEF RunOf
    <3>2. CASE i # 0
      <4>1. i \in 1..k /\ i - 1 \in 0..k
        BY <1>1, <3>2
      <4>2. f[i - 1] \in A
        BY <1>4, <4>1 DEF RunOf
      <4>. QED
        BY <1>4, <3>2, <4>1, <4>2 DEF RunOf
    <3>. QED
      BY <3>1, <3>2
  <2>2. f \in [0..k -> A]
    BY <1>4 DEF RunOf
  <2>. HIDE DEF Round
  <2>. QED
    BY <2>1, <2>2
<1>6. Is(g)
  <2>. HIDE DEF Is
  <2>. QED
    BY <1>5
<1>. HIDE DEF g
<1>7. g[0] = a /\ \A i \in 1..k : g[i] = Round(g[i - 1], i)
  <2>1. 0 \in 0..k /\ \A i \in 1..k : i \in 0..k /\ i # 0
    BY <1>1
  <2>. HIDE DEF Round
  <2>. QED
    BY <1>6, <2>1
<1>8. g[k] \in A
  <2>1. \A i \in 1..k : g[i - 1] \in A => g[i] \in A
    BY <1>3, <1>7
  <2>. HIDE DEF k
  <2>. QED
    BY <1>1, <1>2, <1>7, <2>1, LoopIn
<1>9. AddNewNodes(ns, list) = g[k].nodes
  BY DEF AddNewNodes, g, a
<1>. QED
  BY <1>8, <1>9 DEF A

-----------------------------------------------------------------------------
(* The inductive invariant: every copy of a node, wherever it is, has the  *)
(* keys of a node in the table, which only grows.                          *)

Copies(K) == {n \in Node : Key(n) \in K}
Picked(K) == {<<k[2], k[1]>> : k \in K}

TunnelOf(K) == [running : BOOLEAN, cancelled : BOOLEAN, refreshCh : BOOLEAN,
                nodeList : SUBSET Picked(K)]
Todos(K) == UNION {[D -> Copies(K)] : D \in SUBSET Nat}
RefreshOf(K) == [of : 0..MaxTunnels, limit : Limits, done : SUBSET Copies(K), todo : Todos(K)]

TestsOK(ts, K) ==
  ts \in [Tests -> [phase : {"none", "called", "testing"}, jobs : SUBSET Copies(K)]]
TunnelsOK(tn, K) == tn \in [Tunnels -> TunnelOf(K)]
RefreshOK(rs, K) == rs \in [Refreshers -> RefreshOf(K) \cup {None}]

\* D: the positions of the table.
OpOf(K, D) ==
  {x \in [op : {"none", "start", "stop", "kill"},
          phase : {"none", "called", "locked", "at", "set", "killing"},
          left : SUBSET D, pos : D \cup {0}, view : Seq(Copies(K)) \cup {None}] :
     /\ x.phase = "set" => x.pos \in D
     /\ x.phase \in {"called", "locked"} => x.left = {} /\ x.view = None
     /\ x.view # None => x.left \subseteq DOMAIN x.view}
OpsOK(os, K, D) == os \in [Ops -> OpOf(K, D)]

Speeds == [Ids -> Kept \cup {None}]

SwitchesOK ==
  /\ IsLock \in BOOLEAN /\ poolCmd \in BOOLEAN /\ activeCmd \in BOOLEAN
  /\ active \in Ids \cup {None}
  /\ limit \in Limits /\ setting \in Limits \cup {None}
  /\ tunnel \in 0..MaxTunnels
  /\ loop \in [Loops -> [of : 0..MaxTunnels, first : BOOLEAN]]
  /\ calls \in 0..MaxCalls

PInv ==
  /\ Table(nodes) /\ speedMap \in Speeds
  /\ core \in Cores(Keys(nodes))
  /\ TestsOK(tests, Keys(nodes))
  /\ TunnelsOK(tunnels, Keys(nodes))
  /\ RefreshOK(refresh, Keys(nodes))
  /\ OpsOK(ops, Keys(nodes), DOMAIN nodes)
  /\ SwitchesOK
  /\ LockedOnlyWhileBusy

\* What is said of the copies stays true as the table grows.
LEMMA KeysGrow ==
  ASSUME NEW K, NEW L, K \subseteq L
  PROVE  /\ Cores(K) \subseteq Cores(L)
         /\ \A ts : TestsOK(ts, K) => TestsOK(ts, L)
         /\ \A tn : TunnelsOK(tn, K) => TunnelsOK(tn, L)
         /\ \A rs : RefreshOK(rs, K) => RefreshOK(rs, L)
         /\ \A os, D, E : D \subseteq E /\ OpsOK(os, K, D) => OpsOK(os, L, E)
<1>1. Cores(K) \subseteq Cores(L)
  BY DEF Cores
<1>2. Copies(K) \subseteq Copies(L) /\ Picked(K) \subseteq Picked(L)
  BY DEF Copies, Picked
<1>3. TunnelOf(K) \subseteq TunnelOf(L)
  BY <1>2 DEF TunnelOf
<1>4. Todos(K) \subseteq Todos(L)
  <2>. SUFFICES ASSUME NEW D \in SUBSET Nat, NEW f \in [D -> Copies(K)]
                PROVE  f \in [D -> Copies(L)]
    BY DEF Todos
  <2>. QED
    BY <1>2
<1>5. RefreshOf(K) \subseteq RefreshOf(L)
  BY <1>2, <1>4 DEF RefreshOf
<1>6. \A ts : TestsOK(ts, K) => TestsOK(ts, L)
  <2>. SUFFICES ASSUME NEW ts, TestsOK(ts, K) PROVE TestsOK(ts, L)
    OBVIOUS
  <2>1. SUBSET Copies(K) \subseteq SUBSET Copies(L)
    BY <1>2
  <2>. QED
    BY <2>1 DEF TestsOK
<1>7. \A tn : TunnelsOK(tn, K) => TunnelsOK(tn, L)
  BY <1>3 DEF TunnelsOK
<1>8. \A rs : RefreshOK(rs, K) => RefreshOK(rs, L)
  BY <1>5 DEF RefreshOK
<1>9. ASSUME NEW os, NEW D, NEW E, D \subseteq E, OpsOK(os, K, D) PROVE OpsOK(os, L, E)
  <2>1. Seq(Copies(K)) \subseteq Seq(Copies(L))
    BY <1>2, SeqDef
  <2>2. OpOf(K, D) \subseteq OpOf(L, E)
    BY <1>9, <2>1 DEF OpOf
  <2>. QED
    BY <1>9, <2>2 DEF OpsOK
<1>. QED
  BY <1>1, <1>6, <1>7, <1>8, <1>9

LEMMA Later ==
  ASSUME PInv, Table(nodes'), Keys(nodes) \subseteq Keys(nodes'), speedMap' \in Speeds,
         DOMAIN nodes \subseteq DOMAIN nodes',
         UNCHANGED ops \/ OpsOK(ops', Keys(nodes'), DOMAIN nodes'),
         UNCHANGED core \/ core' \in Cores(Keys(nodes')),
         UNCHANGED tests \/ TestsOK(tests', Keys(nodes')),
         UNCHANGED tunnels \/ TunnelsOK(tunnels', Keys(nodes')),
         UNCHANGED refresh \/ RefreshOK(refresh', Keys(nodes')),
         SwitchesOK',
         UNCHANGED <<IsLock, ops, tests>> \/ LockedOnlyWhileBusy'
  PROVE  PInv'
<1>1. core' \in Cores(Keys(nodes'))
  BY KeysGrow DEF PInv
<1>2. TestsOK(tests', Keys(nodes'))
  BY KeysGrow DEF PInv
<1>3. TunnelsOK(tunnels', Keys(nodes'))
  BY KeysGrow DEF PInv
<1>4. RefreshOK(refresh', Keys(nodes'))
  BY KeysGrow DEF PInv
<1>5. LockedOnlyWhileBusy'
  BY DEF PInv, LockedOnlyWhileBusy
<1>6. OpsOK(ops', Keys(nodes'), DOMAIN nodes')
  BY KeysGrow DEF PInv
<1>. QED
  BY <1>1, <1>2, <1>3, <1>4, <1>5, <1>6 DEF PInv

\* A step that leaves the table and V2Ray alone.
LEMMA SameTable ==
  ASSUME PInv, UNCHANGED <<nodes, speedMap, core>>,
         UNCHANGED ops \/ OpsOK(ops', Keys(nodes), DOMAIN nodes),
         UNCHANGED tests \/ TestsOK(tests', Keys(nodes)),
         UNCHANGED tunnels \/ TunnelsOK(tunnels', Keys(nodes)),
         UNCHANGED refresh \/ RefreshOK(refresh', Keys(nodes)),
         SwitchesOK',
         UNCHANGED <<IsLock, ops, tests>> \/ LockedOnlyWhileBusy'
  PROVE  PInv'
BY Later DEF PInv

-----------------------------------------------------------------------------
(* What writes to the table.                                               *)

LEMMA UpdateNodeAlike ==
  ASSUME NEW ns, Table(ns), NEW n \in Copies(Keys(ns))
  PROVE  UpdateNode(ns, n) \in Alike(ns)
<1>1. PICK k \in DOMAIN ns : ns[k].idx = n.idx /\ ns[k].id = n.id
  BY DEF Copies, Keys, Key
<1>2. \A i \in DOMAIN ns : ns[i].id = n.id => i = k
  BY <1>1 DEF Table, Distinct
<1>3. ns \in [DOMAIN ns -> Node] /\ n \in Node
  BY TableAlike DEF Alike, Copies
<1>4. UpdateNode(ns, n) = [i \in DOMAIN ns |-> IF ns[i].id = n.id THEN n ELSE ns[i]]
  BY DEF UpdateNode
<1>. QED
  BY <1>1, <1>2, <1>3, <1>4 DEF Alike

LEMMA MarkedNode ==
  ASSUME NEW n \in Node, NEW b \in BOOLEAN, NEW c \in BOOLEAN
  PROVE  /\ [n EXCEPT !.del = b, !.up = c] \in Node
         /\ [n EXCEPT !.del = b, !.up = c].idx = n.idx
         /\ [n EXCEPT !.del = b, !.up = c].id = n.id
         /\ [n EXCEPT !.ok = b] \in Node
         /\ [n EXCEPT !.ok = b].idx = n.idx /\ [n EXCEPT !.ok = b].id = n.id
BY DEF Node

LEMMA TestedNode ==
  ASSUME NEW K, NEW n \in Copies(K), NEW r \in Readings
  PROVE  Tested(n, r) \in Copies(K)
<1>1. r.speed \in 0..TestMaxDuration /\ r.ok \in BOOLEAN
  <2>1. TestMaxDuration \in Nat
    BY ReferenceAssumption
  <2>2. r \in Kept \/ r = [speed |-> TestMaxDuration, ok |-> FALSE]
    BY DEF Readings
  <2>3. Kept \subseteq [speed : 0..TestMaxDuration, ok : BOOLEAN]
    BY DEF Kept, Reading
  <2>4. CASE r \in Kept
    BY <2>3, <2>4
  <2>5. CASE r = [speed |-> TestMaxDuration, ok |-> FALSE]
    BY <2>1, <2>5
  <2>. QED
    BY <2>2, <2>4, <2>5
<1>2. n \in Node /\ Key(n) \in K
  BY DEF Copies
<1>. DEFINE t == [n EXCEPT !.speed = r.speed, !.ok = r.ok]
<1>3. t \in Node /\ t.idx = n.idx /\ t.id = n.id
  BY <1>1, <1>2 DEF Node
<1>4. Tested(n, r) \in {n, t}
  BY DEF Tested
<1>. HIDE DEF t
<1>. QED
  BY <1>2, <1>3, <1>4 DEF Copies, Key

LEMMA AddSpeedNodeSpeeds ==
  ASSUME speedMap \in Speeds, NEW n \in Node
  PROVE  AddSpeedNode(n) \in Speeds
<1>. DEFINE r == [speed |-> n.speed, ok |-> n.ok]
<1>1. n.speed \in 0..TestMaxDuration /\ n.ok \in BOOLEAN
  BY DEF Node
<1>2. n.speed < TestMaxDuration => r \in Kept
  BY <1>1 DEF Kept, Reading
<1>. HIDE DEF r
<1>3. AddSpeedNode(n) = IF n.speed < TestMaxDuration THEN [speedMap EXCEPT ![n.id] = r] ELSE speedMap
  BY DEF AddSpeedNode, r
<1>. QED
  BY <1>2, <1>3 DEF Speeds

\* A test writes to the table what it may, however late.
LEMMA TestOne ==
  ASSUME Table(nodes), speedMap \in Speeds,
         NEW n \in Copies(Keys(nodes)), NEW r \in Readings, testOneNode(n, r)
  PROVE  /\ Table(nodes') /\ Keys(nodes') = Keys(nodes) /\ speedMap' \in Speeds
         /\ DOMAIN nodes' = DOMAIN nodes
<1>1. CASE n.id \in Private
  BY <1>1 DEF testOneNode, tableVars
<1>2. CASE n.id \notin Private
  <2>. DEFINE t == Tested(n, r)
  <2>1. t \in Copies(Keys(nodes))
    BY TestedNode
  <2>2. nodes' = UpdateNode(nodes, t) /\ speedMap' = AddSpeedNode(t)
    BY <1>2 DEF testOneNode
  <2>. HIDE DEF t
  <2>3. nodes' \in Alike(nodes)
    BY <2>1, <2>2, UpdateNodeAlike
  <2>4. speedMap' \in Speeds
    BY <2>1, <2>2, AddSpeedNodeSpeeds DEF Copies
  <2>. QED
    BY <2>3, <2>4, AlikeTable
<1>. QED
  BY <1>1, <1>2

LEMMA SortTable ==
  ASSUME Table(nodes), NEW s \in SortBySpeed(nodes)
  PROVE  Table(s) /\ Keys(s) = Keys(nodes) /\ DOMAIN s = DOMAIN nodes
<1>1. PICK f \in Bijection(DOMAIN nodes, DOMAIN nodes) : s = [i \in DOMAIN nodes |-> nodes[f[i]]]
  BY DEF SortBySpeed
<1>2. /\ f \in [DOMAIN nodes -> DOMAIN nodes]
      /\ \A i, j \in DOMAIN nodes : f[i] = f[j] => i = j
      /\ \A j \in DOMAIN nodes : \E i \in DOMAIN nodes : f[i] = j
  BY DEF Bijection, Injection, Surjection, IsInjective
<1>3. nodes \in [DOMAIN nodes -> Node] /\ DOMAIN nodes = 1..Len(nodes) /\ Len(nodes) \in Nat
  BY TableAlike DEF Alike
<1>4. s \in [DOMAIN nodes -> Node]
  BY <1>1, <1>2, <1>3
<1>5. s \in Seq(Node)
  BY <1>3, <1>4, SeqDef
<1>6. Distinct(s)
  <2>1. DOMAIN s = DOMAIN nodes /\ \A i \in DOMAIN nodes : s[i] = nodes[f[i]] /\ f[i] \in DOMAIN nodes
    BY <1>1, <1>2
  <2>2. ASSUME NEW i \in DOMAIN nodes, NEW j \in DOMAIN nodes,
               s[i].idx = s[j].idx \/ s[i].id = s[j].id
        PROVE  i = j
    <3>1. f[i] = f[j]
      BY <2>1, <2>2 DEF Table, Distinct
    <3>. QED
      BY <1>2, <3>1
  <2>. QED
    BY <2>1, <2>2 DEF Distinct
<1>7. Keys(s) = Keys(nodes) /\ DOMAIN s = DOMAIN nodes
  BY <1>1, <1>2 DEF Keys
<1>. QED
  BY <1>5, <1>6, <1>7 DEF Table

\* Whatever becomes of an activation, the keys and V2Ray's tags are in order.
LEMMA ActiveNodeOK ==
  ASSUME NEW ns, Table(ns), NEW n \in Copies(Keys(ns)), core \in Cores(Keys(ns)), NEW fault,
         active \in Ids \cup {None}, activeCmd \in BOOLEAN, NEW s \in ActiveNode(ns, n, fault)
  PROVE  /\ s.nodes \in Alike(ns) /\ s.core \in Cores(Keys(ns))
         /\ s.active \in Ids \cup {None} /\ s.activeCmd \in BOOLEAN
<1>. DEFINE failed == [nodes |-> ns, core |-> core, active |-> None,
                       activeCmd |-> activeCmd /\ active = None]
            up == AddToPool(core, n, fault)
            updated == UpdateNode(ns, [n EXCEPT !.up = TRUE])
<1>1. n \in Node /\ Key(n) \in Keys(ns) /\ n.id \in Ids
  BY NodeField DEF Copies
<1>2. ns \in Alike(ns)
  BY TableAlike
<1>3. up.core \in Cores(Keys(ns))
  <2>1. up \in [core : Cores(Keys(ns)), ok : BOOLEAN]
    BY <1>1, AddToPoolCore
  <2>. QED
    BY <2>1
<1>4. updated \in Alike(ns)
  <2>1. [n EXCEPT !.up = TRUE] \in Copies(Keys(ns))
    BY <1>1, NodeField DEF Copies, Key
  <2>. QED
    BY <2>1, UpdateNodeAlike
<1>5. \/ s = failed
      \/ s = [failed EXCEPT !.active = n.id, !.activeCmd = TRUE]
      \/ s = [failed EXCEPT !.core = up.core, !.activeCmd = TRUE]
      \/ s = [nodes |-> updated, core |-> up.core, active |-> n.id, activeCmd |-> TRUE]
  BY DEF ActiveNode
<1>. HIDE DEF up, updated
<1>6. CASE s = failed
  BY <1>2, <1>6
<1>7. CASE s = [failed EXCEPT !.active = n.id, !.activeCmd = TRUE]
  BY <1>1, <1>2, <1>7
<1>8. CASE s = [failed EXCEPT !.core = up.core, !.activeCmd = TRUE]
  BY <1>1, <1>2, <1>3, <1>8
<1>9. CASE s = [nodes |-> updated, core |-> up.core, active |-> n.id, activeCmd |-> TRUE]
  BY <1>1, <1>3, <1>4, <1>9
<1>. QED
  BY <1>5, <1>6, <1>7, <1>8, <1>9

-----------------------------------------------------------------------------
(* Tunnels and refreshes.                                                  *)

LEMMA TunnelSwitches ==
  ASSUME NEW K, NEW tn, TunnelsOK(tn, K), NEW i, NEW b \in BOOLEAN, NEW c \in BOOLEAN
  PROVE  /\ TunnelsOK([tn EXCEPT ![i].running = b, ![i].cancelled = c], K)
         /\ TunnelsOK([tn EXCEPT ![i].cancelled = c], K)
         /\ TunnelsOK([tn EXCEPT ![i].refreshCh = b], K)
         /\ \A l \in SUBSET Picked(K) : TunnelsOK([tn EXCEPT ![i].nodeList = l], K)
<1>. USE DEF TunnelsOK
<1>1. \A x \in TunnelOf(K) :
        /\ [x EXCEPT !.running = b] \in TunnelOf(K)
        /\ [x EXCEPT !.cancelled = c] \in TunnelOf(K)
        /\ [x EXCEPT !.refreshCh = b] \in TunnelOf(K)
        /\ \A l \in SUBSET Picked(K) : [x EXCEPT !.nodeList = l] \in TunnelOf(K)
  BY DEF TunnelOf
<1>. DEFINE u == [tn EXCEPT ![i].running = b]
<1>2. u \in [Tunnels -> TunnelOf(K)]
  BY <1>1
<1>3. [tn EXCEPT ![i].running = b, ![i].cancelled = c] = [u EXCEPT ![i].cancelled = c]
  OBVIOUS
<1>4. \A w \in [Tunnels -> TunnelOf(K)] :
        [w EXCEPT ![i].cancelled = c] \in [Tunnels -> TunnelOf(K)]
  BY <1>1
<1>. HIDE DEF u
<1>5. TunnelsOK([tn EXCEPT ![i].running = b, ![i].cancelled = c], K)
  BY <1>2, <1>3, <1>4
<1>6. TunnelsOK([tn EXCEPT ![i].refreshCh = b], K)
  BY <1>1
<1>7. \A l \in SUBSET Picked(K) : TunnelsOK([tn EXCEPT ![i].nodeList = l], K)
  BY <1>1
<1>. QED
  BY <1>4, <1>5, <1>6, <1>7

LEMMA BeginRefreshOK ==
  ASSUME NEW ns, Table(ns), RefreshOK(refresh, Keys(ns)), limit' \in Limits,
         NEW o, NEW i \in 0..MaxTunnels, BeginRefresh(o, i, ns)
  PROVE  RefreshOK(refresh', Keys(ns))
<1>. DEFINE running == {k \in DOMAIN ns : ns[k].up /\ ~ns[k].del}
            left == Restrict(ns, running)
            new == [of |-> i, limit |-> limit', done |-> {}, todo |-> left]
<1>1. left = [k \in running |-> ns[k]]
  BY DEF Restrict
<1>2. running \in SUBSET Nat /\ \A k \in running : ns[k] \in Copies(Keys(ns))
  BY TableAlike DEF Alike, Copies, Keys
<1>3. left \in [running -> Copies(Keys(ns))]
  <2>. HIDE DEF running, left
  <2>. QED
    BY <1>1, <1>2
<1>4. left \in Todos(Keys(ns))
  <2>. HIDE DEF running, left
  <2>. QED
    BY <1>2, <1>3 DEF Todos
<1>5. refresh' = [refresh EXCEPT ![o] = new]
  BY DEF BeginRefresh
<1>6. new \in RefreshOf(Keys(ns))
  <2>. HIDE DEF left
  <2>. QED
    BY <1>4 DEF RefreshOf
<1>. HIDE DEF new
<1>. QED
  BY <1>5, <1>6 DEF RefreshOK

-----------------------------------------------------------------------------
(* The requests keep the invariant.                                        *)

USE DEF lockVars

LEMMA CallOK ==
  ASSUME PInv, Call
  PROVE  calls' \in 0..MaxCalls
BY ReferenceAssumption DEF PInv, SwitchesOK, Call

\* A request that changes no key.
LEMMA AlikeLater ==
  ASSUME PInv, nodes' \in Alike(nodes), UNCHANGED core \/ core' \in Cores(Keys(nodes)),
         speedMap' \in Speeds, SwitchesOK', UNCHANGED <<IsLock, ops, tests, tunnels, refresh>>
  PROVE  PInv'
<1>1. Table(nodes') /\ Keys(nodes') = Keys(nodes) /\ DOMAIN nodes' = DOMAIN nodes
  BY AlikeTable DEF PInv
<1>2. UNCHANGED core \/ core' \in Cores(Keys(nodes'))
  BY <1>1
<1>. QED
  BY <1>1, <1>2, Later

LEMMA NoOpOK ==
  ASSUME NEW K, NEW D
  PROVE  /\ NoOp \in OpOf(K, D)
         /\ \A op \in {"start", "stop", "kill"}, phase \in {"called", "killing"} :
              [NoOp EXCEPT !.op = op, !.phase = phase] \in OpOf(K, D)
BY DEF NoOp, OpOf

\* A request for all nodes waits for nothing yet.
LEMMA AskInv ==
  ASSUME PInv, NEW op \in {"start", "stop", "kill"}, Ask(op)
  PROVE  PInv'
<1>1. PICK o \in Ops : ops[o] = NoOp /\ ops' = [ops EXCEPT ![o].op = op, ![o].phase = "called"]
  BY DEF Ask
<1>2. ops' = [ops EXCEPT ![o] = [NoOp EXCEPT !.op = op, !.phase = "called"]]
  BY <1>1
<1>3. OpsOK(ops', Keys(nodes), DOMAIN nodes)
  BY <1>2, NoOpOK DEF PInv, OpsOK
<1>4. SwitchesOK' /\ UNCHANGED <<nodes, speedMap, core, IsLock, tests, tunnels, refresh>> /\ ~IsLock
  BY CallOK DEF Ask, tableVars, v2rayVars, tunnelVars, PInv, SwitchesOK
<1>5. LockedOnlyWhileBusy'
  BY <1>4 DEF LockedOnlyWhileBusy
<1>. QED
  BY <1>3, <1>4, <1>5, SameTable

LEMMA DeleteInv ==
  ASSUME PInv, NEW index, Delete(index)
  PROVE  PInv'
<1>. DEFINE mark == [i \in DOMAIN nodes |->
                       IF nodes[i].idx = index
                       THEN [nodes[i] EXCEPT !.del = TRUE, !.up = FALSE] ELSE nodes[i]]
<1>1. nodes \in Alike(nodes) /\ core \in Cores(Keys(nodes))
  BY TableAlike DEF PInv
<1>2. mark \in Alike(nodes)
  <2>1. \A n \in Node : /\ [n EXCEPT !.del = TRUE, !.up = FALSE] \in Node
                        /\ [n EXCEPT !.del = TRUE, !.up = FALSE].idx = n.idx
                        /\ [n EXCEPT !.del = TRUE, !.up = FALSE].id = n.id
    BY MarkedNode
  <2>. QED
    BY <1>1, <2>1 DEF Alike
<1>3. nodes' = mark \/ nodes' = nodes
  BY DEF Delete
<1>4. UNCHANGED core \/ \E fault : core' = RemoveTag(core, index, fault).core
  BY DEF Delete
<1>5. UNCHANGED core \/ core' \in Cores(Keys(nodes))
  <2>1. \A fault : RemoveTag(core, index, fault) \in [core : Cores(Keys(nodes)), ok : BOOLEAN]
    BY <1>1, RemoveTagCore
  <2>. QED
    BY <1>4, <2>1
<1>6. SwitchesOK' /\ UNCHANGED <<speedMap, IsLock, ops, tests, tunnels, refresh>>
  <2>1. active' \in {None, active} /\ activeCmd' \in BOOLEAN
    BY DEF Delete
  <2>2. UNCHANGED <<poolCmd, speedMap, IsLock, ops, limit, tests, tunnel, tunnels, loop, refresh, setting>>
        /\ Call
    BY DEF Delete, tunnelVars
  <2>. QED
    BY <2>1, <2>2, CallOK DEF PInv, SwitchesOK
<1>. HIDE DEF mark
<1>. QED
  BY <1>1, <1>2, <1>3, <1>5, <1>6, AlikeLater DEF PInv

LEMMA ActiveProxyNodeInv ==
  ASSUME PInv, NEW i \in DOMAIN nodes, ActiveProxyNode(i)
  PROVE  PInv'
<1>1. PICK fault : \E s \in ActiveNode(nodes, nodes[i], fault) : Becomes(s)
  BY DEF ActiveProxyNode
<1>2. PICK s \in ActiveNode(nodes, nodes[i], fault) : Becomes(s)
  BY <1>1
<1>3. nodes[i] \in Copies(Keys(nodes))
  BY TableAlike DEF PInv, Alike, Copies, Keys
<1>4. /\ s.nodes \in Alike(nodes) /\ s.core \in Cores(Keys(nodes))
      /\ s.active \in Ids \cup {None} /\ s.activeCmd \in BOOLEAN
  BY <1>3, ActiveNodeOK DEF PInv, SwitchesOK
<1>5. /\ nodes' \in Alike(nodes) /\ core' \in Cores(Keys(nodes))
      /\ active' \in Ids \cup {None} /\ activeCmd' \in BOOLEAN
  BY <1>2, <1>4 DEF Becomes
<1>6. SwitchesOK' /\ UNCHANGED <<speedMap, IsLock, ops, tests, tunnels, refresh>>
  <2>1. UNCHANGED <<poolCmd, speedMap, IsLock, ops, limit, tests, tunnel, tunnels, loop, refresh, setting>>
        /\ Call
    BY DEF ActiveProxyNode, tunnelVars
  <2>. QED
    BY <1>5, <2>1, CallOK DEF PInv, SwitchesOK
<1>. QED
  BY <1>5, <1>6, AlikeLater DEF PInv

LEMMA UnActiveNodeInv ==
  ASSUME PInv, UnActiveNode
  PROVE  PInv'
<1>1. SwitchesOK' /\ UNCHANGED <<nodes, speedMap, core, IsLock, ops, tests, tunnels, refresh>>
  BY CallOK DEF UnActiveNode, tableVars, tunnelVars, PInv, SwitchesOK
<1>. QED
  BY <1>1, SameTable

\* Who goes over a table that moved goes on over what it was.
LEMMA GrowsOK ==
  ASSUME PInv, NEW ns, Table(ns), Keys(ns) = Keys(nodes), DOMAIN ns = DOMAIN nodes, Grows(ns)
  PROVE  /\ OpsOK(ops', Keys(nodes), DOMAIN nodes)
         /\ \A o \in Ops : ops'[o].phase = ops[o].phase
<1>1. CASE UNCHANGED ops
  BY <1>1 DEF PInv
<1>2. CASE ops' = [o \in Ops |-> IF ops[o].left = {} \/ ops[o].view # None THEN ops[o]
                              ELSE [ops[o] EXCEPT !.view = ns]]
  <2>1. ns \in Seq(Copies(Keys(nodes)))
    <3>1. ns \in [1..Len(ns) -> Node] /\ Len(ns) \in Nat /\ DOMAIN ns = 1..Len(ns)
      BY TableAlike DEF Alike
    <3>2. ns \in [1..Len(ns) -> Copies(Keys(nodes))]
      BY <3>1 DEF Copies, Keys
    <3>. QED
      BY <3>1, <3>2, SeqDef
  <2>2. ASSUME NEW o \in Ops PROVE ops'[o] \in OpOf(Keys(nodes), DOMAIN nodes)
                                   /\ ops'[o].phase = ops[o].phase
    <3>1. ops[o] \in OpOf(Keys(nodes), DOMAIN nodes)
      BY DEF PInv, OpsOK
    <3>2. CASE ops[o].left = {} \/ ops[o].view # None
      BY <1>2, <3>1, <3>2
    <3>3. CASE ~(ops[o].left = {} \/ ops[o].view # None)
      <4>1. ops'[o] = [ops[o] EXCEPT !.view = ns]
        BY <1>2, <3>3
      <4>. QED
        BY <2>1, <3>1, <3>3, <4>1 DEF OpOf
    <3>. QED
      BY <3>2, <3>3
  <2>. QED
    BY <1>2, <2>2 DEF OpsOK
<1>. QED
  BY <1>1, <1>2 DEF Grows

\* A request that reads a list into the table.
LEMMA GrownLater ==
  ASSUME PInv, NEW ns, Table(ns), Keys(ns) = Keys(nodes), DOMAIN ns = DOMAIN nodes,
         nodes' \in Grown(ns), Grows(ns),
         SwitchesOK', UNCHANGED <<speedMap, core, IsLock, tests, tunnels, refresh>>
  PROVE  PInv'
<1>1. Table(nodes') /\ Keys(nodes) \subseteq Keys(nodes') /\ DOMAIN nodes \subseteq DOMAIN nodes'
  BY DEF Grown, Table
<1>2. OpsOK(ops', Keys(nodes'), DOMAIN nodes')
  BY <1>1, GrowsOK, KeysGrow
<1>3. LockedOnlyWhileBusy'
  BY GrowsOK DEF PInv, LockedOnlyWhileBusy
<1>4. speedMap' \in Speeds
  BY DEF PInv
<1>. QED
  BY <1>1, <1>2, <1>3, <1>4, Later

LEMMA UpdateSubscribeInv ==
  ASSUME PInv, UpdateSubscribe
  PROVE  PInv'
<1>1. PICK s \in SortBySpeed(nodes), list \in Lists \cup {<<>>} :
        nodes' = AddNewNodes(s, list) /\ Grows(s)
  BY DEF UpdateSubscribe
<1>2. Table(s) /\ Keys(s) = Keys(nodes) /\ DOMAIN s = DOMAIN nodes
  BY SortTable DEF PInv
<1>3. list \in Seq(Ids)
  BY ReferenceAssumption, EmptySeq
<1>4. nodes' \in Grown(s)
  BY <1>1, <1>2, <1>3, AddNewNodesTable
<1>5. SwitchesOK' /\ UNCHANGED <<speedMap, core, IsLock, tests, tunnels, refresh>>
  BY CallOK DEF UpdateSubscribe, v2rayVars, tunnelVars, PInv, SwitchesOK
<1>. QED
  BY <1>1, <1>2, <1>4, <1>5, GrownLater

LEMMA InitProxyPoolInv ==
  ASSUME PInv, InitProxyPool
  PROVE  PInv'
<1>1. PICK list \in Lists : nodes' = addNodeList(nodes, list) /\ Grows(nodes)
  BY DEF InitProxyPool
<1>2. list \in Seq(Ids) /\ Table(nodes)
  BY ReferenceAssumption DEF PInv
<1>3. nodes' \in Grown(nodes)
  BY <1>1, <1>2, addNodeListTable
<1>4. SwitchesOK' /\ UNCHANGED <<speedMap, core, IsLock, tests, tunnels, refresh>>
  BY CallOK DEF InitProxyPool, tunnelVars, PInv, SwitchesOK
<1>. QED
  BY <1>1, <1>2, <1>3, <1>4, GrownLater

LEMMA TestProxyPoolAllInv ==
  ASSUME PInv, NEW t \in Tests, TestProxyPoolAll(t)
  PROVE  PInv'
<1>1. SwitchesOK' /\ UNCHANGED <<nodes, speedMap, core, IsLock, ops, tunnels, refresh>>
  BY CallOK DEF TestProxyPoolAll, tableVars, v2rayVars, tunnelVars, PInv, SwitchesOK
<1>2. tests' = [tests EXCEPT ![t].phase = "called"] /\ tests[t] = Idle /\ ~IsLock
  BY DEF TestProxyPoolAll
<1>3. TestsOK(tests', Keys(nodes))
  BY <1>2 DEF PInv, TestsOK
<1>4. LockedOnlyWhileBusy'
  BY <1>1, <1>2 DEF LockedOnlyWhileBusy
<1>. QED
  BY <1>1, <1>3, <1>4, SameTable

LEMMA ExpireInv ==
  ASSUME PInv, NEW id \in Ids, Expire(id)
  PROVE  PInv'
<1>1. SwitchesOK' /\ UNCHANGED <<core, IsLock, ops, tests, tunnels, refresh>>
  BY CallOK DEF Expire, v2rayVars, tunnelVars, PInv, SwitchesOK
<1>2. nodes' = [i \in DOMAIN nodes |-> IF nodes[i].id = id THEN [nodes[i] EXCEPT !.ok = FALSE]
                                        ELSE nodes[i]]
  BY DEF Expire
<1>3. nodes' \in Alike(nodes)
  <2>1. \A n \in Node : /\ [n EXCEPT !.ok = FALSE] \in Node
                        /\ [n EXCEPT !.ok = FALSE].idx = n.idx
                        /\ [n EXCEPT !.ok = FALSE].id = n.id
    BY MarkedNode
  <2>2. nodes \in Alike(nodes)
    BY TableAlike DEF PInv
  <2>. QED
    BY <1>2, <2>1, <2>2 DEF Alike
<1>4. speedMap' \in Speeds
  <2>1. speedMap' = [speedMap EXCEPT ![id].ok = FALSE] /\ speedMap[id] # None
    BY DEF Expire, GetLastSpeedNodeIsOk
  <2>2. speedMap \in [Ids -> Kept \cup {None}]
    BY DEF PInv, Speeds
  <2>3. speedMap[id] \in Kept
    BY <2>1, <2>2
  <2>4. [speedMap[id] EXCEPT !.ok = FALSE] \in Kept
    BY <2>3 DEF Kept, Reading
  <2>5. speedMap' = [speedMap EXCEPT ![id] = [speedMap[id] EXCEPT !.ok = FALSE]]
    BY <2>1, <2>2
  <2>. QED
    BY <2>2, <2>4, <2>5 DEF Speeds
<1>. QED
  BY <1>1, <1>3, <1>4, AlikeLater

-----------------------------------------------------------------------------
(* TestAll, the tunnel and its refreshes keep it too.                      *)

LEMMA LeastPlace ==
  ASSUME NEW places \in SUBSET Nat, places # {}
  PROVE  \E i \in places : \A j \in places : i <= j
<1>. SUFFICES ASSUME \A i \in places : \E j \in places : ~(i <= j) PROVE FALSE
  OBVIOUS
<1>. DEFINE S == {m \in Nat : \A j \in places : ~(j <= m)}
<1>1. 0 \in S
  <2>. SUFFICES ASSUME NEW j \in places, j <= 0 PROVE FALSE
    OBVIOUS
  <2>1. j = 0 /\ \A k \in places : j <= k
    OBVIOUS
  <2>. QED
    BY <2>1
<1>2. ASSUME NEW m \in S PROVE m + 1 \in S
  <2>. SUFFICES ASSUME NEW j \in places, j <= m + 1 PROVE FALSE
    OBVIOUS
  <2>1. m \in Nat /\ \A k \in places : k \in Nat /\ ~(k <= m)
    OBVIOUS
  <2>2. \A k \in places : j <= k
    BY <2>1
  <2>. QED
    BY <2>2
<1>3. S \in SUBSET Nat
  OBVIOUS
<1>. HIDE DEF S
<1>4. \A n \in Nat : n \in S
  BY <1>1, <1>2, <1>3, Induction
<1>5. PICK i \in places : TRUE
  OBVIOUS
<1>. QED
  BY <1>4, <1>5 DEF S

LEMMA BeginTestsInv ==
  ASSUME PInv, NEW t \in Tests, BeginTests(t)
  PROVE  PInv'
<1>. DEFINE running == {nodes[i] : i \in {j \in DOMAIN nodes : nodes[j].up}}
            jobs == {n \in running : ~GetLastSpeedNodeIsOk(n.id)}
<1>1. jobs \subseteq Copies(Keys(nodes))
  BY TableAlike DEF PInv, Alike, Copies, Keys
<1>2. \/ IsLock' = FALSE /\ tests' = [tests EXCEPT ![t] = Idle]
      \/ IsLock' = TRUE /\ tests' = [tests EXCEPT ![t] = [phase |-> "testing", jobs |-> jobs]]
  BY DEF BeginTests
<1>. HIDE DEF jobs
<1>3. TestsOK(tests', Keys(nodes))
  BY <1>1, <1>2 DEF PInv, TestsOK, Idle
<1>4. LockedOnlyWhileBusy'
  BY <1>2 DEF PInv, TestsOK, LockedOnlyWhileBusy
<1>5. SwitchesOK' /\ UNCHANGED <<nodes, speedMap, ops, core, tunnels, refresh>>
  BY <1>2 DEF BeginTests, tableVars, v2rayVars, tunnelVars, PInv, SwitchesOK
<1>. QED
  BY <1>3, <1>4, <1>5, SameTable

LEMMA EndTestInv ==
  ASSUME PInv, NEW t \in Tests, NEW n \in tests[t].jobs, EndTest(t, n)
  PROVE  PInv'
<1>1. n \in Copies(Keys(nodes))
  BY DEF PInv, TestsOK
<1>2. PICK r \in Readings : testOneNode(n, r)
  BY DEF EndTest
<1>3. /\ Table(nodes') /\ Keys(nodes') = Keys(nodes) /\ speedMap' \in Speeds
      /\ DOMAIN nodes' = DOMAIN nodes
  BY <1>1, <1>2, TestOne DEF PInv
<1>4. tests' = [tests EXCEPT ![t].jobs = @ \ {n}]
      /\ UNCHANGED <<IsLock, ops, core, tunnels, refresh>>
  BY DEF EndTest, v2rayVars, tunnelVars
<1>5. TestsOK(tests', Keys(nodes')) /\ \A u \in Tests : tests'[u].phase = tests[u].phase
  BY <1>3, <1>4 DEF PInv, TestsOK
<1>6. LockedOnlyWhileBusy'
  BY <1>4, <1>5 DEF PInv, LockedOnlyWhileBusy
<1>7. SwitchesOK'
  BY DEF EndTest, v2rayVars, tunnelVars, PInv, SwitchesOK
<1>. QED
  BY <1>3, <1>4, <1>5, <1>6, <1>7, Later

LEMMA EndTestsInv ==
  ASSUME PInv, NEW t \in Tests, EndTests(t)
  PROVE  PInv'
<1>1. PICK sorted \in SortBySpeed(nodes) :
        LET ok == {i \in DOMAIN sorted : sorted[i].ok}
            stay == [nodes |-> sorted, core |-> core, active |-> active,
                     activeCmd |-> activeCmd]
        IN  IF activeCmd \/ ok = {} THEN Becomes(stay)
            ELSE LET n == sorted[CHOOSE i \in ok : \A j \in ok : i <= j]
                 IN  \E fault \in Faults : \E s \in ActiveNode(sorted, n, fault) : Becomes(s)
  BY DEF EndTests
<1>2. Table(sorted) /\ Keys(sorted) = Keys(nodes) /\ DOMAIN sorted = DOMAIN nodes
  BY SortTable DEF PInv
<1>3. /\ nodes' \in Alike(sorted) /\ core' \in Cores(Keys(nodes))
      /\ active' \in Ids \cup {None} /\ activeCmd' \in BOOLEAN
  <2>. DEFINE ok == {i \in DOMAIN sorted : sorted[i].ok}
              first == CHOOSE i \in ok : \A j \in ok : i <= j
  <2>1. CASE activeCmd \/ ok = {}
    <3>1. nodes' = sorted /\ UNCHANGED <<core, active, activeCmd>>
      BY <1>1, <2>1 DEF Becomes
    <3>2. sorted \in Alike(sorted)
      BY <1>2, TableAlike
    <3>. QED
      BY <3>1, <3>2 DEF PInv, SwitchesOK
  <2>2. CASE ~(activeCmd \/ ok = {})
    <3>1. sorted \in [DOMAIN sorted -> Node] /\ DOMAIN sorted = 1..Len(sorted) /\ Len(sorted) \in Nat
      BY <1>2, TableAlike DEF Alike
    <3>2. ok \in SUBSET Nat /\ ok # {}
      BY <2>2, <3>1
    <3>3. first \in ok
      <4>. HIDE DEF ok
      <4>. QED
        BY <3>2, LeastPlace
    <3>4. first \in DOMAIN sorted
      <4>. HIDE DEF first
      <4>. QED
        BY <3>3
    <3>5. PICK fault : \E s \in ActiveNode(sorted, sorted[first], fault) : Becomes(s)
      BY <1>1, <2>2
    <3>. HIDE DEF first
    <3>6. PICK s \in ActiveNode(sorted, sorted[first], fault) : Becomes(s)
      BY <3>5
    <3>7. sorted[first] \in Copies(Keys(sorted))
      BY <3>1, <3>4 DEF Copies, Keys
    <3>8. core \in Cores(Keys(sorted)) /\ active \in Ids \cup {None} /\ activeCmd \in BOOLEAN
      BY <1>2 DEF PInv, SwitchesOK
    <3>9. /\ s.nodes \in Alike(sorted) /\ s.core \in Cores(Keys(sorted))
          /\ s.active \in Ids \cup {None} /\ s.activeCmd \in BOOLEAN
      BY <1>2, <3>7, <3>8, ActiveNodeOK
    <3>. QED
      BY <1>2, <3>6, <3>9 DEF Becomes
  <2>. QED
    BY <2>1, <2>2
<1>4. Table(nodes') /\ Keys(nodes') = Keys(nodes) /\ DOMAIN nodes' = DOMAIN nodes
  BY <1>2, <1>3, AlikeTable
<1>5. IsLock' = FALSE /\ tests' = [tests EXCEPT ![t] = Idle]
      /\ UNCHANGED <<poolCmd, limit, speedMap, ops, tunnel, tunnels, loop, setting, calls>>
  BY DEF EndTests, tunnelVars
<1>6. TestsOK(tests', Keys(nodes'))
  BY <1>4, <1>5 DEF PInv, TestsOK, Idle
<1>7. UNCHANGED refresh \/ RefreshOK(refresh', Keys(nodes'))
  <2>1. UNCHANGED refresh \/ BeginRefresh(t, tunnel, nodes')
    BY DEF EndTests
  <2>2. RefreshOK(refresh, Keys(nodes')) /\ limit' \in Limits /\ tunnel \in 0..MaxTunnels
    BY <1>4, <1>5 DEF PInv, SwitchesOK
  <2>. QED
    BY <1>4, <2>1, <2>2, BeginRefreshOK
<1>8. SwitchesOK'
  BY <1>3, <1>5 DEF PInv, SwitchesOK
<1>9. LockedOnlyWhileBusy'
  BY <1>5 DEF LockedOnlyWhileBusy
<1>10. speedMap' \in Speeds /\ core' \in Cores(Keys(nodes')) /\ UNCHANGED <<ops, tunnels>>
  BY <1>3, <1>4, <1>5 DEF PInv
<1>. QED
  BY <1>4, <1>6, <1>7, <1>8, <1>9, <1>10, Later

-----------------------------------------------------------------------------
(* StartAll, StopAll and KillAllNodes keep it.                             *)

\* A step of one that leaves the table alone.
LEMMA OneOp ==
  ASSUME PInv, NEW o \in Ops, NEW x \in OpOf(Keys(nodes), DOMAIN nodes),
         ops' = [ops EXCEPT ![o] = x], core' \in Cores(Keys(nodes)), SwitchesOK',
         UNCHANGED <<nodes, speedMap, tests, tunnels, refresh>>,
         \/ ~IsLock'
         \/ x.phase \in {"locked", "at", "set"}
         \/ UNCHANGED IsLock /\ ops[o].phase \notin {"locked", "at", "set"}
  PROVE  PInv'
<1>1. OpsOK(ops', Keys(nodes), DOMAIN nodes) /\ ops'[o] = x
      /\ \A k \in Ops : k # o => ops'[k] = ops[k]
  BY DEF PInv, OpsOK
<1>2. LockedOnlyWhileBusy'
  BY <1>1 DEF PInv, LockedOnlyWhileBusy
<1>. QED
  BY <1>1, <1>2, Later DEF PInv

LEMMA LockInv ==
  ASSUME PInv, NEW o \in Ops, Lock(o)
  PROVE  PInv'
<1>1. PICK x : x = [ops[o] EXCEPT !.phase = "locked"]
  OBVIOUS
<1>2. ops[o] \in OpOf(Keys(nodes), DOMAIN nodes) /\ ops[o].phase = "called"
  BY DEF Lock, PInv, OpsOK
<1>3. x \in OpOf(Keys(nodes), DOMAIN nodes) /\ x.phase = "locked"
  BY <1>1, <1>2 DEF OpOf
<1>4. ops' = [ops EXCEPT ![o] = x]
      /\ UNCHANGED <<nodes, speedMap, core, tests, tunnels, refresh>>
  BY <1>1 DEF Lock, tableVars, tunnelVars
<1>5. SwitchesOK'
  BY DEF Lock, tunnelVars, PInv, SwitchesOK
<1>. QED
  BY <1>3, <1>4, <1>5, OneOp DEF PInv

\* What it reads is a copy of a node, from the table or from what it was.
LEMMA SeenNode ==
  ASSUME PInv, NEW o \in Ops, NEW i \in Ahead(o)
  PROVE  /\ Seen(o, i) \in Copies(Keys(nodes))
         /\ Ahead(o) \subseteq DOMAIN nodes
         /\ ops[o].view # None => Ahead(o) \subseteq DOMAIN ops[o].view
<1>1. ops[o] \in OpOf(Keys(nodes), DOMAIN nodes)
  BY DEF PInv, OpsOK
<1>2. /\ Ahead(o) \subseteq DOMAIN nodes
      /\ ops[o].view # None => Ahead(o) \subseteq DOMAIN ops[o].view
      /\ ops[o].view \in Seq(Copies(Keys(nodes))) \cup {None}
  BY <1>1 DEF OpOf, Ahead
<1>3. CASE ops[o].view = None
  <2>1. nodes[i] \in Copies(Keys(nodes))
    BY <1>2, TableAlike DEF PInv, Alike, Copies, Keys
  <2>. QED
    BY <1>2, <1>3, <2>1 DEF Seen
<1>4. CASE ops[o].view # None
  <2>1. ops[o].view \in Seq(Copies(Keys(nodes))) /\ i \in DOMAIN ops[o].view
    BY <1>2, <1>4
  <2>2. ops[o].view[i] \in Copies(Keys(nodes))
    BY <2>1, LenProperties, ElementOfSeq
  <2>. QED
    BY <1>2, <1>4, <2>2 DEF Seen
<1>. QED
  BY <1>3, <1>4

LEMMA CallNodeInv ==
  ASSUME PInv, NEW o \in Ops, CallNode(o)
  PROVE  PInv'
<1>1. PICK i \in Positions(o), fault \in Faults :
        /\ core' = Served(o, Seen(o, i), fault).core
        /\ ops' = [ops EXCEPT ![o] =
             IF Served(o, Seen(o, i), fault).ok
             THEN [@ EXCEPT !.phase = "set", !.pos = i, !.left = {j \in Ahead(o) : i < j}]
             ELSE [@ EXCEPT !.phase = "at",
                            !.left = IF ops[o].op = "start" THEN {}
                                     ELSE {j \in Ahead(o) : i < j}]]
  BY DEF CallNode
<1>2. PICK rest : rest = {j \in Ahead(o) : i < j}
  OBVIOUS
<1>3. i \in Ahead(o) /\ Seen(o, i) \in Copies(Keys(nodes)) /\ Ahead(o) \subseteq DOMAIN nodes
      /\ (ops[o].view # None => Ahead(o) \subseteq DOMAIN ops[o].view)
  BY SeenNode DEF Positions
<1>4. Served(o, Seen(o, i), fault) \in [core : Cores(Keys(nodes)), ok : BOOLEAN]
  BY <1>3, AddToPoolCore, RemoveTagCore DEF Served, PInv, Copies
<1>5. PICK x : x = IF Served(o, Seen(o, i), fault).ok
                   THEN [ops[o] EXCEPT !.phase = "set", !.pos = i, !.left = rest]
                   ELSE [ops[o] EXCEPT !.phase = "at",
                                       !.left = IF ops[o].op = "start" THEN {} ELSE rest]
  OBVIOUS
<1>6. ops[o] \in OpOf(Keys(nodes), DOMAIN nodes)
  BY DEF PInv, OpsOK
<1>7. rest \subseteq DOMAIN nodes /\ (ops[o].view # None => rest \subseteq DOMAIN ops[o].view)
  BY <1>2, <1>3
<1>8. x \in OpOf(Keys(nodes), DOMAIN nodes) /\ x.phase \in {"at", "set"}
  BY <1>3, <1>5, <1>6, <1>7 DEF OpOf
<1>9. ops' = [ops EXCEPT ![o] = x] /\ core' \in Cores(Keys(nodes))
      /\ UNCHANGED <<nodes, speedMap, tests, tunnels, refresh>>
  BY <1>1, <1>2, <1>4, <1>5 DEF CallNode, tableVars, tunnelVars
<1>10. SwitchesOK'
  BY DEF CallNode, tunnelVars, PInv, SwitchesOK
<1>. QED
  BY <1>8, <1>9, <1>10, OneOp

LEMMA SetStatusInv ==
  ASSUME PInv, NEW o \in Ops, SetStatus(o)
  PROVE  PInv'
<1>1. PICK b \in BOOLEAN : b = (ops[o].op = "start")
  OBVIOUS
<1>2. PICK x : x = [ops[o] EXCEPT !.phase = "at", !.pos = 0]
  OBVIOUS
<1>3. ops[o] \in OpOf(Keys(nodes), DOMAIN nodes) /\ ops[o].phase = "set"
  BY DEF SetStatus, PInv, OpsOK
<1>4. ops[o].pos \in DOMAIN nodes /\ x \in OpOf(Keys(nodes), DOMAIN nodes) /\ x.phase = "at"
  BY <1>2, <1>3 DEF OpOf
<1>5. nodes' \in Alike(nodes)
  <2>1. nodes' = [nodes EXCEPT ![ops[o].pos].up = b]
    BY <1>1 DEF SetStatus
  <2>. QED
    BY <1>4, <2>1, TableAlike, UpAlike DEF PInv
<1>6. Table(nodes') /\ Keys(nodes') = Keys(nodes) /\ DOMAIN nodes' = DOMAIN nodes
  BY <1>5, AlikeTable DEF PInv
<1>7. ops' = [ops EXCEPT ![o] = x] /\ UNCHANGED <<speedMap, IsLock, core, tests, tunnels, refresh>>
  BY <1>2 DEF SetStatus, v2rayVars, tunnelVars
<1>8. OpsOK(ops', Keys(nodes'), DOMAIN nodes') /\ ops'[o] = x
      /\ \A k \in Ops : k # o => ops'[k] = ops[k]
  BY <1>4, <1>6, <1>7 DEF PInv, OpsOK
<1>9. LockedOnlyWhileBusy'
  BY <1>4, <1>8 DEF LockedOnlyWhileBusy
<1>10. SwitchesOK' /\ speedMap' \in Speeds
  BY DEF SetStatus, v2rayVars, tunnelVars, PInv, SwitchesOK
<1>. QED
  BY <1>6, <1>7, <1>8, <1>9, <1>10, Later

LEMMA UnlockInv ==
  ASSUME PInv, NEW o \in Ops, Unlock(o)
  PROVE  PInv'
<1>1. PICK x : x = IF ops[o].op = "kill" THEN [NoOp EXCEPT !.op = "kill", !.phase = "killing"]
                   ELSE NoOp
  OBVIOUS
<1>2. x \in OpOf(Keys(nodes), DOMAIN nodes)
  BY <1>1, NoOpOK
<1>3. ops' = [ops EXCEPT ![o] = x] /\ ~IsLock'
      /\ UNCHANGED <<nodes, speedMap, core, tests, tunnels, refresh>>
  BY <1>1 DEF Unlock, tableVars, v2rayVars, tunnelVars
<1>4. SwitchesOK'
  BY DEF Unlock, v2rayVars, tunnelVars, PInv, SwitchesOK
<1>. QED
  BY <1>2, <1>3, <1>4, OneOp DEF PInv

LEMMA KillInv ==
  ASSUME PInv, NEW o \in Ops, Kill(o)
  PROVE  PInv'
<1>1. NoOp \in OpOf(Keys(nodes), DOMAIN nodes) /\ core' \in Cores(Keys(nodes))
  BY NoOpOK DEF Kill, NoTags, Cores
<1>2. ops' = [ops EXCEPT ![o] = NoOp] /\ ops[o].phase = "killing"
      /\ UNCHANGED <<nodes, speedMap, IsLock, tests, tunnels, refresh>>
  BY DEF Kill, tableVars, tunnelVars
<1>3. SwitchesOK'
  BY DEF Kill, tunnelVars, PInv, SwitchesOK
<1>. QED
  BY <1>1, <1>2, <1>3, OneOp

-----------------------------------------------------------------------------
\* A step that leaves all but the tunnels alone.
LEMMA TunnelLater ==
  ASSUME PInv, UNCHANGED <<nodes, speedMap, core, IsLock, ops, tests, refresh>>, SwitchesOK',
         TunnelsOK(tunnels', Keys(nodes))
  PROVE  PInv'
BY SameTable

LEMMA StartOK ==
  ASSUME PInv, NEW i \in 0..MaxTunnels, NEW was, TunnelsOK(was, Keys(nodes)), Start(i, was)
  PROVE  /\ TunnelsOK(tunnels', Keys(nodes))
         /\ loop' \in [Loops -> [of : 0..MaxTunnels, first : BOOLEAN]]
<1>1. /\ TunnelsOK([was EXCEPT ![i].running = TRUE, ![i].cancelled = FALSE], Keys(nodes))
      /\ TunnelsOK([was EXCEPT ![i].cancelled = FALSE], Keys(nodes))
  BY TunnelSwitches
<1>2. loop \in [Loops -> [of : 0..MaxTunnels, first : BOOLEAN]]
  BY DEF PInv, SwitchesOK
<1>3. \/ tunnels' = [was EXCEPT ![i].running = TRUE, ![i].cancelled = FALSE]
      \/ tunnels' = [was EXCEPT ![i].cancelled = FALSE]
  BY DEF Start
<1>4. \/ UNCHANGED loop
      \/ \E l \in Loops : loop' = [loop EXCEPT ![l] = [of |-> i, first |-> TRUE]]
  BY DEF Start
<1>5. TunnelsOK(tunnels', Keys(nodes))
  BY <1>1, <1>3
<1>6. [of |-> i, first |-> TRUE] \in [of : 0..MaxTunnels, first : BOOLEAN]
  OBVIOUS
<1>. QED
  BY <1>2, <1>4, <1>5, <1>6

LEMMA StopOK ==
  ASSUME PInv, NEW i
  PROVE  TunnelsOK(Stop(i), Keys(nodes))
<1>1. TunnelsOK(tunnels, Keys(nodes))
  BY DEF PInv
<1>. QED
  BY <1>1, TunnelSwitches DEF Stop

LEMMA StartTunnelPoolInv ==
  ASSUME PInv, StartTunnelPool
  PROVE  PInv'
<1>1. tunnel + 1 \in 0..MaxTunnels /\ TunnelsOK(tunnels, Keys(nodes))
  BY ReferenceAssumption DEF StartTunnelPool, PInv, SwitchesOK
<1>2. Start(tunnel + 1, tunnels) /\ tunnel' = tunnel + 1 /\ Call
      /\ UNCHANGED <<nodes, speedMap, core, IsLock, ops, tests, refresh,
                     poolCmd, active, activeCmd, limit, setting>>
  BY DEF StartTunnelPool, tableVars, v2rayVars
<1>3. /\ TunnelsOK(tunnels', Keys(nodes))
      /\ loop' \in [Loops -> [of : 0..MaxTunnels, first : BOOLEAN]]
  BY <1>1, <1>2, StartOK
<1>4. SwitchesOK'
  BY <1>1, <1>2, <1>3, CallOK DEF PInv, SwitchesOK
<1>. QED
  BY <1>2, <1>3, <1>4, TunnelLater

LEMMA StopTunnelPoolInv ==
  ASSUME PInv, StopTunnelPool
  PROVE  PInv'
<1>1. SwitchesOK' /\ UNCHANGED <<nodes, speedMap, core, IsLock, ops, tests, refresh>>
  BY CallOK DEF StopTunnelPool, tableVars, v2rayVars, PInv, SwitchesOK
<1>2. tunnels' = Stop(tunnel)
  BY DEF StopTunnelPool
<1>. QED
  BY <1>1, <1>2, StopOK, TunnelLater

LEMMA ChangePortInv ==
  ASSUME PInv, ChangePort
  PROVE  PInv'
<1>1. tunnel \in 0..MaxTunnels /\ TunnelsOK(Stop(tunnel), Keys(nodes))
  BY StopOK DEF PInv, SwitchesOK
<1>2. Start(tunnel, Stop(tunnel)) /\ Call
      /\ UNCHANGED <<nodes, speedMap, core, IsLock, ops, tests, refresh, tunnel,
                     poolCmd, active, activeCmd, limit, setting>>
  BY DEF ChangePort, tableVars, v2rayVars
<1>3. /\ TunnelsOK(tunnels', Keys(nodes))
      /\ loop' \in [Loops -> [of : 0..MaxTunnels, first : BOOLEAN]]
  BY <1>1, <1>2, StartOK
<1>4. SwitchesOK'
  BY <1>2, <1>3, CallOK DEF PInv, SwitchesOK
<1>. QED
  BY <1>2, <1>3, <1>4, TunnelLater

LEMMA SignalledOK ==
  ASSUME PInv
  PROVE  TunnelsOK(Signalled, Keys(nodes))
<1>1. TunnelsOK(tunnels, Keys(nodes))
  BY DEF PInv
<1>. QED
  BY <1>1, TunnelSwitches DEF Signalled

LEMMA SetRefreshIntervalInv ==
  ASSUME PInv, SetRefreshInterval
  PROVE  PInv'
<1>1. SwitchesOK' /\ UNCHANGED <<nodes, speedMap, core, IsLock, ops, tests, refresh>>
  BY CallOK DEF SetRefreshInterval, tableVars, v2rayVars, PInv, SwitchesOK
<1>2. tunnels' = Signalled
  BY DEF SetRefreshInterval
<1>. QED
  BY <1>1, <1>2, SignalledOK, TunnelLater

LEMMA SetMaxDelayInv ==
  ASSUME PInv, NEW n \in Limits, SetMaxDelay(n)
  PROVE  PInv'
<1>1. SwitchesOK' /\ UNCHANGED <<nodes, speedMap, core, IsLock, ops, tests, refresh>>
  BY CallOK DEF SetMaxDelay, tableVars, v2rayVars, PInv, SwitchesOK
<1>2. tunnels' = Signalled
  BY DEF SetMaxDelay
<1>. QED
  BY <1>1, <1>2, SignalledOK, TunnelLater

LEMMA SetConfInv ==
  ASSUME PInv, SetConf
  PROVE  PInv'
<1>1. UNCHANGED <<nodes, speedMap, core, IsLock, ops, tests, tunnels>>
  BY DEF SetConf, tableVars, v2rayVars, tunnelVars
<1>2. limit' \in Limits
  BY DEF SetConf, PInv, SwitchesOK
<1>3. SwitchesOK'
  BY <1>2 DEF SetConf, tableVars, v2rayVars, tunnelVars, PInv, SwitchesOK
<1>4. UNCHANGED refresh \/ RefreshOK(refresh', Keys(nodes))
  <2>1. UNCHANGED refresh \/ BeginRefresh(Setter, tunnel, nodes)
    BY DEF SetConf
  <2>2. Table(nodes) /\ RefreshOK(refresh, Keys(nodes)) /\ tunnel \in 0..MaxTunnels
    BY DEF PInv, SwitchesOK
  <2>. QED
    BY <1>2, <2>1, <2>2, BeginRefreshOK
<1>. QED
  BY <1>1, <1>3, <1>4, SameTable

\* A refresh and a loop that leave the table alone.
LEMMA NewRefresh ==
  ASSUME PInv, NEW o, NEW i \in 0..MaxTunnels, UNCHANGED limit, BeginRefresh(o, i, nodes)
  PROVE  RefreshOK(refresh', Keys(nodes))
<1>1. Table(nodes) /\ RefreshOK(refresh, Keys(nodes)) /\ limit' \in Limits
  BY DEF PInv, SwitchesOK
<1>. QED
  BY <1>1, BeginRefreshOK

LEMMA RefreshOneInv ==
  ASSUME PInv, NEW o \in Refreshers, RefreshOne(o)
  PROVE  PInv'
<1>. DEFINE K == Keys(nodes)
            left == refresh[o].todo
<1>1. /\ refresh[o] \in RefreshOf(K) /\ left \in Todos(K)
      /\ speedMap \in Speeds /\ Table(nodes)
  <2>1. refresh[o] # None
    BY DEF RefreshOne
  <2>2. refresh[o] \in RefreshOf(K)
    BY <2>1 DEF PInv, RefreshOK
  <2>. QED
    BY <2>2 DEF PInv, RefreshOf
<1>2. PICK r \in Readings, i \in DOMAIN left :
        LET rest == DOMAIN left \ {i}
            n == left[i]
            known == GetLastSpeedNodeIsOk(n.id)
            now == IF known THEN [n EXCEPT !.speed = speedMap[n.id].speed,
                                           !.ok = speedMap[n.id].ok]
                   ELSE Tested(n, r)
        IN  /\ IF known THEN UNCHANGED tableVars ELSE testOneNode(n, r)
            /\ refresh' = [refresh EXCEPT ![o].todo = Restrict(@, rest),
                                          ![o].done = @ \cup {now}]
  BY DEF RefreshOne
<1>. DEFINE rest == DOMAIN left \ {i}
            n == left[i]
            known == GetLastSpeedNodeIsOk(n.id)
            late == [n EXCEPT !.speed = speedMap[n.id].speed, !.ok = speedMap[n.id].ok]
            now == IF known THEN late ELSE Tested(n, r)
            less == Restrict(left, rest)
<1>3. DOMAIN left \in SUBSET Nat /\ left \in [DOMAIN left -> Copies(K)] /\ n \in Copies(K)
  BY <1>1 DEF Todos
<1>4. known => late \in Copies(K)
  <2>. SUFFICES ASSUME known PROVE late \in Copies(K)
    OBVIOUS
  <2>1. n \in Node /\ n.id \in Ids /\ Key(n) \in K
    BY <1>3, NodeField DEF Copies
  <2>. DEFINE s == speedMap[n.id]
  <2>2. s \in Kept
    BY <1>1, <2>1 DEF Speeds, GetLastSpeedNodeIsOk
  <2>3. s.speed \in 0..TestMaxDuration /\ s.ok \in BOOLEAN
    BY <2>2 DEF Kept, Reading
  <2>. DEFINE t == [n EXCEPT !.speed = s.speed, !.ok = s.ok]
  <2>. HIDE DEF s, n
  <2>4. t \in Node /\ t.idx = n.idx /\ t.id = n.id
    BY <2>1, <2>3 DEF Node
  <2>. HIDE DEF t
  <2>5. t \in Copies(K)
    BY <2>1, <2>4 DEF Copies, Key
  <2>. QED
    BY <2>5 DEF t, s
<1>5. now \in Copies(K)
  BY <1>3, <1>4, TestedNode
<1>6. /\ Table(nodes') /\ Keys(nodes') = K /\ speedMap' \in Speeds
      /\ DOMAIN nodes' = DOMAIN nodes
  <2>1. (known /\ UNCHANGED tableVars) \/ testOneNode(n, r)
    BY <1>2
  <2>. HIDE DEF n
  <2>. QED
    BY <1>1, <1>3, <2>1, TestOne DEF tableVars
<1>7. less \in Todos(K)
  <2>1. less = [k \in rest |-> left[k]] /\ rest \in SUBSET Nat
    BY <1>3 DEF Restrict
  <2>2. less \in [rest -> Copies(K)]
    BY <1>3, <2>1
  <2>. HIDE DEF less, rest
  <2>. QED
    BY <2>1, <2>2 DEF Todos
<1>8. refresh' = [refresh EXCEPT ![o].todo = less, ![o].done = @ \cup {now}]
  BY <1>2
<1>9. RefreshOK(refresh', K)
  <2>. DEFINE one == [refresh[o] EXCEPT !.todo = less, !.done = @ \cup {now}]
  <2>. HIDE DEF less, now
  <2>1. one \in RefreshOf(K)
    BY <1>1, <1>5, <1>7 DEF RefreshOf
  <2>2. refresh \in [Refreshers -> RefreshOf(K) \cup {None}]
    BY DEF PInv, RefreshOK
  <2>3. refresh' = [refresh EXCEPT ![o] = one]
    BY <1>8, <2>2
  <2>. HIDE DEF one
  <2>. QED
    BY <2>1, <2>2, <2>3 DEF RefreshOK
<1>10. SwitchesOK' /\ UNCHANGED <<core, IsLock, ops, tests, tunnels>>
  BY DEF RefreshOne, v2rayVars, tunnelVars, PInv, SwitchesOK
<1>11. RefreshOK(refresh', Keys(nodes')) /\ Keys(nodes) \subseteq Keys(nodes')
  BY <1>6, <1>9
<1>. QED
  BY <1>6, <1>10, <1>11, Later

LEMMA EndRefreshInv ==
  ASSUME PInv, NEW o \in Refreshers, EndRefresh(o)
  PROVE  PInv'
<1>. DEFINE K == Keys(nodes)
            list == {<<n.id, n.idx>> : n \in {m \in refresh[o].done : m.speed < refresh[o].limit}}
<1>1. refresh[o] \in RefreshOf(K)
  BY DEF EndRefresh, PInv, RefreshOK
<1>2. list \in SUBSET Picked(K)
  <2>1. refresh[o].done \subseteq Copies(K)
    BY <1>1 DEF RefreshOf
  <2>2. \A n \in Copies(K) : <<n.id, n.idx>> \in Picked(K)
    <3>. SUFFICES ASSUME NEW n \in Copies(K) PROVE <<n.id, n.idx>> \in Picked(K)
      OBVIOUS
    <3>. DEFINE k == Key(n)
    <3>1. k \in K /\ k[2] = n.id /\ k[1] = n.idx
      BY DEF Copies, Key
    <3>. HIDE DEF k
    <3>. QED
      BY <3>1 DEF Picked
  <2>. QED
    BY <2>1, <2>2
<1>3. tunnels' = [tunnels EXCEPT ![refresh[o].of].nodeList = list]
      /\ refresh' = [refresh EXCEPT ![o] = None]
      /\ UNCHANGED <<nodes, speedMap, core, IsLock, ops, tests>>
  BY DEF EndRefresh, tableVars, v2rayVars
<1>4. TunnelsOK(tunnels, K) /\ RefreshOK(refresh, K)
  BY DEF PInv
<1>. HIDE DEF list
<1>5. TunnelsOK(tunnels', K)
  BY <1>2, <1>3, <1>4, TunnelSwitches
<1>6. RefreshOK(refresh', K)
  BY <1>3, <1>4 DEF RefreshOK
<1>7. SwitchesOK'
  BY DEF EndRefresh, v2rayVars, PInv, SwitchesOK
<1>. QED
  BY <1>3, <1>5, <1>6, <1>7, SameTable

LEMMA LoopFirstInv ==
  ASSUME PInv, NEW l \in Loops, LoopFirst(l)
  PROVE  PInv'
<1>1. loop[l].of \in 0..MaxTunnels
  BY DEF PInv, SwitchesOK
<1>2. BeginRefresh(l, loop[l].of, nodes) /\ UNCHANGED limit
  BY DEF LoopFirst
<1>3. RefreshOK(refresh', Keys(nodes))
  BY <1>1, <1>2, NewRefresh
<1>4. SwitchesOK' /\ UNCHANGED <<nodes, speedMap, core, IsLock, ops, tests, tunnels>>
  BY DEF LoopFirst, tableVars, v2rayVars, PInv, SwitchesOK
<1>. QED
  BY <1>3, <1>4, SameTable

LEMMA LoopSignalInv ==
  ASSUME PInv, NEW l \in Loops, LoopSignal(l)
  PROVE  PInv'
<1>1. loop[l].of \in 0..MaxTunnels /\ TunnelsOK(tunnels, Keys(nodes))
  BY DEF PInv, SwitchesOK
<1>2. BeginRefresh(l, loop[l].of, nodes) /\ UNCHANGED limit
      /\ tunnels' = [tunnels EXCEPT ![loop[l].of].refreshCh = FALSE]
  BY DEF LoopSignal
<1>3. RefreshOK(refresh', Keys(nodes))
  BY <1>1, <1>2, NewRefresh
<1>4. TunnelsOK(tunnels', Keys(nodes))
  BY <1>1, <1>2, TunnelSwitches
<1>5. SwitchesOK' /\ UNCHANGED <<nodes, speedMap, core, IsLock, ops, tests>>
  BY DEF LoopSignal, tableVars, v2rayVars, PInv, SwitchesOK
<1>. QED
  BY <1>3, <1>4, <1>5, SameTable

LEMMA LoopTickInv ==
  ASSUME PInv, NEW l \in Loops, LoopTick(l)
  PROVE  PInv'
<1>1. loop[l].of \in 0..MaxTunnels
  BY DEF PInv, SwitchesOK
<1>2. BeginRefresh(l, loop[l].of, nodes) /\ UNCHANGED limit
  BY DEF LoopTick
<1>3. RefreshOK(refresh', Keys(nodes))
  BY <1>1, <1>2, NewRefresh
<1>4. SwitchesOK' /\ UNCHANGED <<nodes, speedMap, core, IsLock, ops, tests, tunnels>>
  BY DEF LoopTick, tableVars, v2rayVars, tunnelVars, PInv, SwitchesOK
<1>. QED
  BY <1>3, <1>4, SameTable

LEMMA LoopEndInv ==
  ASSUME PInv, NEW l \in Loops, LoopEnd(l)
  PROVE  PInv'
<1>1. loop' \in [Loops -> [of : 0..MaxTunnels, first : BOOLEAN]]
  <2>1. NoLoop \in [of : 0..MaxTunnels, first : BOOLEAN]
    BY ReferenceAssumption DEF NoLoop
  <2>2. loop' = [loop EXCEPT ![l] = NoLoop]
    BY DEF LoopEnd
  <2>. QED
    BY <2>1, <2>2 DEF PInv, SwitchesOK
<1>2. SwitchesOK' /\ UNCHANGED <<nodes, speedMap, core, IsLock, ops, tests, tunnels, refresh>>
  BY <1>1 DEF LoopEnd, tableVars, v2rayVars, PInv, SwitchesOK
<1>. QED
  BY <1>2, SameTable

-----------------------------------------------------------------------------
LEMMA InitPInv == PoolInit => PInv
<1>. SUFFICES ASSUME PoolInit PROVE PInv
  OBVIOUS
<1>1. Table(nodes)
  <2>1. PICK list \in Lists : nodes = addNodeList(<<>>, list)
    BY DEF PoolInit
  <2>2. list \in Seq(Ids)
    BY ReferenceAssumption
  <2>3. Table(<<>>)
    BY EmptySeq DEF Table, Distinct
  <2>4. nodes \in Grown(<<>>)
    BY <2>1, <2>2, <2>3, addNodeListTable
  <2>. QED
    BY <2>4 DEF Grown, Table
<1>2. speedMap \in Speeds /\ core \in Cores(Keys(nodes))
  BY DEF PoolInit, Speeds, NoTags, Cores
<1>3. TestsOK(tests, Keys(nodes))
  BY DEF PoolInit, TestsOK, Idle
<1>4. TunnelsOK(tunnels, Keys(nodes))
  BY DEF PoolInit, TunnelsOK, TunnelOf, NewTunnel
<1>5. RefreshOK(refresh, Keys(nodes))
  BY DEF PoolInit, RefreshOK
<1>6. SwitchesOK
  <2>1. NoLoop \in [of : 0..MaxTunnels, first : BOOLEAN]
    BY ReferenceAssumption DEF NoLoop
  <2>2. loop = [l \in Loops |-> NoLoop]
    BY DEF PoolInit
  <2>3. loop \in [Loops -> [of : 0..MaxTunnels, first : BOOLEAN]]
    BY <2>1, <2>2
  <2>4. tunnel \in 0..MaxTunnels /\ calls \in 0..MaxCalls
    BY ReferenceAssumption DEF PoolInit
  <2>. QED
    BY <2>3, <2>4 DEF PoolInit, SwitchesOK
<1>7. LockedOnlyWhileBusy
  BY DEF PoolInit, LockedOnlyWhileBusy
<1>8. OpsOK(ops, Keys(nodes), DOMAIN nodes)
  BY NoOpOK DEF PoolInit, OpsOK
<1>. QED
  BY <1>1, <1>2, <1>3, <1>4, <1>5, <1>6, <1>7, <1>8 DEF PInv

LEMMA NextPInv == PInv /\ [PoolNext]_poolVars => PInv'
<1>. SUFFICES ASSUME PInv, [PoolNext]_poolVars PROVE PInv'
  OBVIOUS
<1>1. CASE Request
  BY <1>1, AskInv, UnActiveNodeInv, UpdateSubscribeInv,
     InitProxyPoolInv, StartTunnelPoolInv, StopTunnelPoolInv, ChangePortInv,
     SetRefreshIntervalInv, DeleteInv, ActiveProxyNodeInv, TestProxyPoolAllInv, ExpireInv,
     SetMaxDelayInv DEF Request, StartAll, StopAll, KillAllNodes
<1>2. ASSUME NEW t \in Tests, Testing(t) PROVE PInv'
  BY <1>2, BeginTestsInv, EndTestInv, EndTestsInv DEF Testing
<1>3. ASSUME NEW o \in Refreshers, Refreshing(o) PROVE PInv'
  BY <1>3, RefreshOneInv, EndRefreshInv DEF Refreshing
<1>4. ASSUME NEW l \in Loops, LoopFirst(l) \/ LoopSignal(l) \/ LoopTick(l) \/ LoopEnd(l)
      PROVE  PInv'
  BY <1>4, LoopFirstInv, LoopSignalInv, LoopTickInv, LoopEndInv
<1>5. ASSUME NEW o \in Ops, Operating(o) PROVE PInv'
  BY <1>5, LockInv, CallNodeInv, SetStatusInv, UnlockInv, KillInv DEF Operating
<1>6. CASE UNCHANGED poolVars
  <2>1. SwitchesOK' /\ UNCHANGED <<nodes, speedMap, core, IsLock, ops, tests, tunnels, refresh>>
    BY <1>6 DEF poolVars, tableVars, v2rayVars, tunnelVars, PInv, SwitchesOK
  <2>. QED
    BY <2>1, SameTable
<1>. QED
  BY <1>1, <1>2, <1>3, <1>4, <1>5, <1>6, SetConfInv DEF PoolNext

LEMMA PoolInvariance == PoolSpec => []PInv
BY InitPInv, NextPInv, PTL DEF PoolSpec

\* The node pool of the reference project keeps its types, with any lists and
\* any number of requests, tests and refreshes.
THEOREM PoolTypeCorrect == PoolSpec => []PoolTypeOK
<1>1. PInv => PoolTypeOK
  <2>. SUFFICES ASSUME PInv PROVE PoolTypeOK
    OBVIOUS
  <2>1. Copies(Keys(nodes)) \subseteq Node /\ Picked(Keys(nodes)) \subseteq Ids \X Nat
        /\ Keys(nodes) \subseteq Nat \X Ids
    BY TableAlike, NodeField DEF PInv, Alike, Copies, Picked, Keys, Key
  <2>2. nodes \in Seq(Node) /\ speedMap \in [Ids -> Kept \cup {None}]
        /\ core.in \subseteq Nat /\ core.out \subseteq Nat \X Ids
    BY <2>1 DEF PInv, Table, Speeds, Cores
  <2>3. \A t \in Tests : tests[t].phase \in {"none", "called", "testing"} /\ tests[t].jobs \subseteq Node
    BY <2>1 DEF PInv, TestsOK
  <2>4. \A i \in Tunnels :
          /\ tunnels[i].running \in BOOLEAN /\ tunnels[i].cancelled \in BOOLEAN
          /\ tunnels[i].refreshCh \in BOOLEAN
          /\ tunnels[i].nodeList \subseteq Ids \X Nat
    BY <2>1 DEF PInv, TunnelsOK, TunnelOf
  <2>5. ASSUME NEW o \in Refreshers, refresh[o] # None
        PROVE  refresh[o].todo \in [DOMAIN refresh[o].todo -> Node] /\ refresh[o].done \subseteq Node
    <3>1. refresh[o] \in RefreshOf(Keys(nodes))
      BY <2>5 DEF PInv, RefreshOK
    <3>2. refresh[o].todo \in Todos(Keys(nodes)) /\ refresh[o].done \subseteq Copies(Keys(nodes))
      BY <3>1 DEF RefreshOf
    <3>. QED
      BY <2>1, <3>2 DEF Todos
  <2>6. ASSUME NEW o \in Ops
        PROVE  /\ ops[o].op \in {"none", "start", "stop", "kill"}
               /\ ops[o].phase \in {"none", "called", "locked", "at", "set", "killing"}
               /\ ops[o].left \subseteq DOMAIN nodes
               /\ ops[o].phase = "set" => ops[o].pos \in DOMAIN nodes
               /\ ops[o].view = None \/ ops[o].view \in Seq(Node)
    <3>1. ops[o] \in OpOf(Keys(nodes), DOMAIN nodes)
      BY DEF PInv, OpsOK
    <3>2. Seq(Copies(Keys(nodes))) \subseteq Seq(Node)
      BY <2>1, SeqDef
    <3>. QED
      BY <3>1, <3>2 DEF OpOf
  <2>. QED
    BY <2>2, <2>3, <2>4, <2>5, <2>6 DEF PInv, SwitchesOK, PoolTypeOK
<1>. QED
  BY <1>1, PoolInvariance, PTL

\* However lists repeat, change and are read again, and however late a test or a
\* refresh brings its copy back, a local port leads to the server of the node
\* that was given it, in V2Ray and in the tunnels (v2raypool.go:230, 279).
THEOREM PortCorrect == PoolSpec => []PortLeadsToItsNode
<1>1. PInv => PortLeadsToItsNode
  <2>. SUFFICES ASSUME PInv PROVE PortLeadsToItsNode
    OBVIOUS
  <2>1. \A i, j \in DOMAIN nodes : nodes[i].idx = nodes[j].idx => i = j
    BY DEF PInv, Table, Distinct
  <2>2. core.out \subseteq Keys(nodes)
    BY DEF PInv, Cores
  <2>3. \A i \in Tunnels : tunnels[i].nodeList \subseteq Picked(Keys(nodes))
    BY DEF PInv, TunnelsOK, TunnelOf
  <2>4. \A p \in Picked(Keys(nodes)) : <<p[2], p[1]>> \in Keys(nodes)
    BY DEF Picked, Keys, Key
  <2>5. \A o \in Keys(nodes) : \E i \in DOMAIN nodes : nodes[i].idx = o[1] /\ nodes[i].id = o[2]
    BY DEF Keys, Key
  <2>6. core.out \cup {<<p[2], p[1]>> : p \in UNION {tunnels[i].nodeList : i \in Tunnels}}
          \subseteq Keys(nodes)
    BY <2>2, <2>3, <2>4
  <2>. QED
    BY <2>1, <2>5, <2>6 DEF PortLeadsToItsNode
<1>. QED
  BY <1>1, PoolInvariance, PTL

\* However tests, starts, stops and kills of all nodes overlap and clear each
\* other's lock, the pool is locked only while one of them is under way
\* (v2raypool.go:571-640, 665, 701-703, 754-757).
THEOREM LockCorrect == PoolSpec => []LockedOnlyWhileBusy
BY PoolInvariance, PTL DEF PInv
=============================================================================
