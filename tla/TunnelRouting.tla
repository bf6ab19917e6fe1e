--------------------------- MODULE TunnelRouting ---------------------------
(***************************************************************************)
(* pkg/proxy/tunnel.go, GetDialer: how the tunnel chooses a node for each  *)
(* connection, and the list it chooses from.  The list is rebuilt from a   *)
(* Go map, so in any order, at every start and stop of a node              *)
(* (syncTunnelLocked).  An entry points at the copy of the node its start  *)
(* was called with, so it keeps the latency the store had at that moment;  *)
(* a speed test or a refresh of the subscription changes the store only.   *)
(***************************************************************************)
EXTENDS Integers, Sequences, FiniteSets, SequencesExt

CONSTANTS Nodes,
          Latencies,   \* results of a test in ms; 0 below one, -1 for a failure
          MaxLatency,  \* GetDialer's 999999999, above every latency it prefers
          IndexMod,    \* rrIndex is a uint64: 2^64
          NoOne

ASSUME RoutingAssumption ==
  /\ Latencies \subseteq Int
  /\ MaxLatency \in Nat
  /\ IndexMod \in Nat \ {0}
  /\ NoOne \notin Nodes

Strategies == {"round-robin", "random", "least-latency"}

VARIABLES stored,       \* the store's latency of each node
          copied,       \* running node -> the latency in its runtime's copy
          activeNodes,  \* t.activeNodes: the running nodes in some order
          strategy,
          rrIndex,
          turns,        \* history: round-robin turns since the last rebuild
          last,         \* history: the node picked last, NoOne if none
          outdated      \* history: running nodes tested or refreshed since
                        \* their start

routingVars == <<stored, copied, activeNodes, strategy, rrIndex, turns, last, outdated>>

RoutingTypeOK ==
  /\ stored \in [Nodes -> Latencies \cup {0}]
  /\ DOMAIN copied \subseteq Nodes
  /\ copied \in [DOMAIN copied -> Latencies \cup {0}]
  /\ activeNodes \in SetToSeqs(DOMAIN copied)
  /\ strategy \in Strategies
  /\ rrIndex \in 0..(IndexMod - 1)
  /\ turns \in [Nodes -> 0..IndexMod]
  /\ last \in Nodes \cup {NoOne}
  /\ outdated \subseteq DOMAIN copied

RoutingInit ==
  /\ stored = [n \in Nodes |-> 0]
  /\ copied = << >>
  /\ activeNodes = << >>
  /\ strategy \in Strategies
  /\ rrIndex = 0
  /\ turns = [n \in Nodes |-> 0]
  /\ last = NoOne
  /\ outdated = {}

-----------------------------------------------------------------------------
Rebuild ==
  /\ activeNodes' \in SetToSeqs(DOMAIN copied')
  /\ turns' = [n \in Nodes |-> 0]
  /\ UNCHANGED <<stored, strategy, rrIndex, last>>

\* Mutant: the copy is made without the latency.
StartNodeUntested(n) ==
  /\ n \notin DOMAIN copied
  /\ copied' = [m \in DOMAIN copied \cup {n} |-> IF m = n THEN 0 ELSE copied[m]]
  /\ Rebuild
  /\ UNCHANGED outdated

StartNode(n) ==
  /\ n \notin DOMAIN copied
  /\ copied' = [m \in DOMAIN copied \cup {n} |-> IF m = n THEN stored[n] ELSE copied[m]]
  /\ Rebuild
  /\ UNCHANGED outdated

\* Mutant: the tunnel is not told of the stop.
StopNodeKeepsList(n) ==
  /\ n \in DOMAIN copied
  /\ copied' = [m \in DOMAIN copied \ {n} |-> copied[m]]
  /\ outdated' = outdated \ {n}
  /\ UNCHANGED <<stored, activeNodes, strategy, rrIndex, turns, last>>

StopNode(n) ==
  /\ n \in DOMAIN copied
  /\ copied' = [m \in DOMAIN copied \ {n} |-> copied[m]]
  /\ outdated' = outdated \ {n}
  /\ Rebuild

\* The store's latency changes; the copy of a running node does not.
Record(n, latency) ==
  /\ stored' = [stored EXCEPT ![n] = latency]
  /\ outdated' = IF n \in DOMAIN copied THEN outdated \cup {n} ELSE outdated
  /\ UNCHANGED <<copied, activeNodes, strategy, rrIndex, turns, last>>

\* UpdateNodeRuntime keeps the old latency when the new one is zero.
TestNode(n, latency) == latency # 0 /\ Record(n, latency)

\* A refresh puts the node in the store anew, without a latency.
RefreshNode(n) == Record(n, 0)

SetStrategy(s) ==
  /\ strategy' = s
  /\ UNCHANGED <<stored, copied, activeNodes, rrIndex, turns, last, outdated>>

-----------------------------------------------------------------------------
(* GetDialer, under a read lock that keeps the list in place.              *)

Latency(i) == copied[activeNodes[i]]
Better(i, best) ==
  Latency(i) > 0 /\ Latency(i) < (IF best = 0 THEN MaxLatency ELSE Latency(best))

\* The loop over the entries: after i of them 0, or the best one's index.
Loop[i \in 0..Len(activeNodes)] ==
  IF i = 0 THEN 0 ELSE IF Better(i, Loop[i - 1]) THEN i ELSE Loop[i - 1]

BestEntry == Loop[Len(activeNodes)]

PickNode(n) ==
  /\ last' = n
  /\ UNCHANGED <<rrIndex, turns>>

\* Mutant: the remainder leaves out the last entry.
TakeTurnOffByOne ==
  LET next == (rrIndex + 1) % IndexMod
      n == activeNodes[IF Len(activeNodes) = 1 THEN 1 ELSE (next % (Len(activeNodes) - 1)) + 1]
  IN  /\ rrIndex' = next
      /\ turns' = IF next = 0 THEN [m \in Nodes |-> IF m = n THEN 1 ELSE 0]
                              ELSE [turns EXCEPT ![n] = @ + 1]
      /\ last' = n

\* atomic.AddUint64, then the remainder; Go counts entries from 0.
TakeTurn ==
  LET next == (rrIndex + 1) % IndexMod
      n == activeNodes[(next % Len(activeNodes)) + 1]
  IN  /\ rrIndex' = next
      /\ turns' = IF next = 0 THEN [m \in Nodes |-> IF m = n THEN 1 ELSE 0]
                              ELSE [turns EXCEPT ![n] = @ + 1]
      /\ last' = n

GetDialer ==
  /\ activeNodes # << >>
  /\ \/ /\ strategy = "random"
        /\ \E i \in DOMAIN activeNodes : PickNode(activeNodes[i])
     \/ /\ strategy = "least-latency"
        /\ IF BestEntry # 0 THEN PickNode(activeNodes[BestEntry]) ELSE TakeTurn
     \/ /\ strategy = "round-robin"
        /\ TakeTurn
  /\ UNCHANGED <<stored, copied, activeNodes, strategy, outdated>>

RoutingNext ==
  \/ \E n \in Nodes : \/ StartNode(n) \/ StopNode(n)
                      \/ RefreshNode(n) \/ \E l \in Latencies : TestNode(n, l)
  \/ \E s \in Strategies : SetStrategy(s)
  \/ GetDialer

RoutingSpec == RoutingInit /\ [][RoutingNext]_routingVars

-----------------------------------------------------------------------------
(* Properties                                                              *)

Active == DOMAIN copied
Usable(lat, n) == lat[n] > 0 /\ lat[n] < MaxLatency

\* As long as no node starts or stops and the index does not wrap, the turns
\* are even, however picks by another strategy fall in between: "Sequentially
\* cycles through nodes" (README.md:98).
RoundRobinEven == \A m, n \in Active : turns[m] - turns[n] <= 1

\* The loop finds what it is for: no entry with a usable latency beats the one
\* picked, and untested or failed ones are picked only when all entries are.
LeastLatencyPick ==
  (/\ GetDialer
   /\ strategy = "least-latency"
   /\ \E n \in Active : Usable(copied, n))
  => /\ Usable(copied, last')
     /\ \A n \in Active : Usable(copied, n) => copied[last'] <= copied[n]

\* Of two nodes the latency prefers n, or only it is usable.
Beats(latency, n, m) == Usable(latency, n) /\ (Usable(latency, m) => latency[n] < latency[m])

\* "Prefers the node with lowest latency from latest speed test"
\* (docs/PROTOCOL_SPEC.md:43) holds of the latencies in the store but for the
\* copies' age: whoever beats the node picked there was tested or refreshed
\* since its start, or the node picked was (manager.go:98, 245).
LatestLatencyPick ==
  GetDialer /\ strategy = "least-latency" =>
    \A n \in Active : Beats(stored, n, last') => n \in outdated \/ last' \in outdated

\* GetDialer picks what its strategy is for (tunnel.go:62-89), with nodes
\* started, stopped, tested and refreshed and the strategy changed between the
\* picks; where this is not what the documents promise, a copy is out of date.
PicksAsPromised ==
  [][RoundRobinEven' /\ LeastLatencyPick /\ LatestLatencyPick]_routingVars
=============================================================================
