----------------------------- MODULE StoreData -----------------------------
(***************************************************************************)
(* pkg/storage/store.go: what the store holds (StoreData) and what each of *)
(* its operations makes of it, as operators on a value.  Store adds the    *)
(* file and the crashes, ApiServer the requests.                           *)
(*                                                                         *)
(* Of a subscription the count of its nodes and its last error are kept,   *)
(* of a node the running flag; the rest is carried along by the code as    *)
(* these are.                                                              *)
(***************************************************************************)
EXTENDS Integers, FiniteSets

CONSTANTS Subs,   \* subscription IDs
          Nodes,  \* node IDs: a hash of the node and the ID of its subscription
          SubOf,  \* node.SubID
          MaxRepeats  \* bound: entries of a list that repeat the ID of an earlier one

ASSUME StoreDataAssumption ==
  /\ IsFiniteSet(Nodes)
  /\ SubOf \in [Nodes -> Subs]
  /\ MaxRepeats \in Nat

Subscription == [count : 0..(Cardinality(Nodes) + MaxRepeats), failed : BOOLEAN]

\* A list of parsed nodes is the set of its nodes and its length: an entry may
\* repeat the ID of an earlier one, and is then stored over it.
Lengths(S) == Cardinality(S)..(Cardinality(S) + MaxRepeats)

\* The values of the two maps.
SubscriptionMap == UNION {[S -> Subscription] : S \in SUBSET Subs}
NodeMap == UNION {[S -> BOOLEAN] : S \in SUBSET Nodes}

NodesOf(s) == {n \in Nodes : SubOf[n] = s}

Without(f, S) == [x \in DOMAIN f \ S |-> f[x]]

SaveSubscription(data, s, sub) ==
  [data EXCEPT !.subs = [t \in DOMAIN @ \cup {s} |-> IF t = s THEN sub ELSE @[t]]]

DeleteSubscription(data, s) ==
  [data EXCEPT !.subs = Without(@, {s}),
               !.nodes = Without(@, NodesOf(s))]

\* Mutant: the new nodes are counted on top of the old ones.
ReplaceNodesMiscounting(data, s, S, length) ==
  [data EXCEPT !.nodes = [n \in (DOMAIN @ \ NodesOf(s)) \cup S |-> n \notin S /\ @[n]],
               !.subs = [t \in DOMAIN @ |-> IF t = s THEN [@[t] EXCEPT !.count = @ + length]
                                                     ELSE @[t]]]

\* The old nodes of the subscription go, the new ones come without runtime
\* state; a subscription that is gone is not brought back.  What is counted is
\* the length of the list.
ReplaceNodes(data, s, S, length) ==
  [data EXCEPT !.nodes = [n \in (DOMAIN @ \ NodesOf(s)) \cup S |-> n \notin S /\ @[n]],
               !.subs = [t \in DOMAIN @ |-> IF t = s THEN [@[t] EXCEPT !.count = length]
                                                     ELSE @[t]]]

\* Mutant: a node that is gone comes back.
UpdateNodeRuntimeUpserts(data, n, running) ==
  [data EXCEPT !.nodes = [m \in DOMAIN @ \cup {n} |-> IF m = n THEN running ELSE @[m]]]

\* A node that is gone is left alone.
UpdateNodeRuntime(data, n, running) ==
  [data EXCEPT !.nodes = [m \in DOMAIN @ |-> IF m = n THEN running ELSE @[m]]]
=============================================================================
