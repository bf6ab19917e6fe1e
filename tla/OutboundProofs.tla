--------------------------- MODULE OutboundProofs ---------------------------
(***************************************************************************)
(* Proofs about Outbound, for any subscriptions and targets: what a list   *)
(* becomes in the store, what a dial does, and the stream of a WebSocket.  *)
(***************************************************************************)
EXTENDS Outbound, FiniteSetTheorems, SequenceTheorems, WellFoundedInduction, TLAPS

LEMMA PortBound == MaxPort \in Nat /\ MaxPort + 1 = 65536
  BY DEF MaxPort

-----------------------------------------------------------------------------
(* The list: what is parsed and what is stored.                            *)

\* A node parsed, whatever the format: its port and name are those of its entry
\* if the entry has them, and its ID says no more.
Parsed(n) ==
  /\ n = Node(n.entry, LinkPort(n.entry), n.name)
  /\ n.entry.name # Unnamed => n.name = n.entry.name

ListOf(parsed) ==
  /\ IsFiniteSet(DOMAIN parsed) /\ DOMAIN parsed \subseteq Nat
  /\ \A k \in DOMAIN parsed : Parsed(parsed[k])

Subs == [format : {"unknown", "clash", "base64", "links"}, count : Nat, failed : BOOLEAN]

ListInv ==
  /\ sub \in Subs
  /\ ListOf(list)
  /\ sub.count = Cardinality(DOMAIN list)
  /\ nodes = ByID(list)

\* A finite, nonempty set of naturals has a greatest element.
LEMMA GreatestNatural ==
  ASSUME NEW S \in SUBSET Nat, IsFiniteSet(S), S # {}
  PROVE  \E m \in S : \A k \in S : k <= m
<1>. DEFINE Above(m) == {k \in S : m <= k}
            T == {Above(m) : m \in S}
<1>1. IsWellFoundedOn(StrictSubsetOrdering(S), FiniteSubsetsOf(S))
  BY FS_StrictSubsetOrderingWellFounded
<1>2. T \subseteq FiniteSubsetsOf(S) /\ T # {}
  <2>1. ASSUME NEW m \in S PROVE Above(m) \subseteq S /\ IsFiniteSet(Above(m))
    BY FS_Subset
  <2>. QED
    BY <2>1 DEF FiniteSubsetsOf
<1>3. PICK x \in T : \A y \in T : ~ (<<y, x>> \in StrictSubsetOrdering(S))
  BY <1>1, <1>2, WFMin
<1>4. PICK m \in S : x = Above(m)
  BY <1>3
<1>5. ASSUME NEW k \in S PROVE k <= m
  <2>1. SUFFICES ASSUME m < k PROVE FALSE
    OBVIOUS
  <2>2. Above(k) \subseteq Above(m) /\ m \in Above(m) /\ m \notin Above(k)
    <3>1. k \in Nat /\ m \in Nat /\ \A j \in S : j \in Nat
      OBVIOUS
    <3>2. \A j \in S : k <= j => m <= j
      BY <2>1, <3>1
    <3>3. m <= m /\ ~(k <= m)
      BY <2>1, <3>1
    <3>. QED
      BY <3>2, <3>3, Zenon
  <2>3. <<Above(k), Above(m)>> \in StrictSubsetOrdering(S)
    BY <2>2 DEF StrictSubsetOrdering
  <2>. QED
    BY <1>3, <1>4, <2>3
<1>. QED
  BY <1>5

LEMMA ClashParsed ==
  ASSUME NEW text, text.proxies \in Seq(Range(text.proxies))
  PROVE  ListOf(parseClashYAML(text))
<1>. DEFINE nodesOf == parseClashYAML(text)
            accepted == {k \in DOMAIN text.proxies : text.marked /\ ClashAccepts(text.proxies[k])}
<1>1. DOMAIN nodesOf = accepted
      /\ \A i \in accepted : nodesOf[i] = convertClashProxyToNode(text.proxies[i], i)
  BY DEF parseClashYAML
<1>2. accepted \subseteq 1..Len(text.proxies) /\ Len(text.proxies) \in Nat
  BY LenProperties
<1>3. IsFiniteSet(accepted) /\ accepted \subseteq Nat
  <2>1. IsFiniteSet(1..Len(text.proxies))
    BY <1>2, FS_Interval
  <2>2. accepted \in SUBSET (1..Len(text.proxies)) /\ 1..Len(text.proxies) \subseteq Nat
    BY <1>2
  <2>. HIDE DEF accepted
  <2>. QED
    BY <2>1, <2>2, FS_Subset
<1>4. ASSUME NEW i \in accepted
      PROVE  Parsed(nodesOf[i])
  <2>. DEFINE entry == text.proxies[i]
              name == ClashName(entry, i)
  <2>1. LinkPort(entry) = entry.port
    <3>1. entry.port # 0
      <4>1. entry.port \in 1..MaxPort
        BY DEF ClashAccepts
      <4>. QED
        BY <4>1, PortBound
    <3>. QED
      BY <3>1 DEF LinkPort
  <2>2. nodesOf[i] = Node(entry, LinkPort(entry), name)
    BY <1>1, <2>1 DEF convertClashProxyToNode
  <2>3. nodesOf[i].entry = entry /\ nodesOf[i].name = name
    BY <2>2 DEF Node
  <2>4. entry.name # Unnamed => name = entry.name
    BY DEF ClashName
  <2>. HIDE DEF nodesOf, entry, name
  <2>. QED
    BY <2>2, <2>3, <2>4 DEF Parsed
<1>. HIDE DEF nodesOf, accepted
<1>5. ListOf(nodesOf)
  BY <1>1, <1>3, <1>4 DEF ListOf
<1>. QED
  BY <1>5 DEF nodesOf

LEMMA LinksParsed ==
  ASSUME NEW text, text.lines \in Seq(Range(text.lines))
  PROVE  ListOf(parseURILines(text))
<1>. DEFINE nodesOf == parseURILines(text)
            accepted == {k \in DOMAIN text.lines : LinkAccepts(text.lines[k])}
<1>1. DOMAIN nodesOf = accepted
      /\ \A i \in accepted : nodesOf[i] = parseSingleURI(text.lines[i])
  BY DEF parseURILines
<1>2. accepted \subseteq 1..Len(text.lines) /\ Len(text.lines) \in Nat
  BY LenProperties
<1>3. IsFiniteSet(accepted) /\ accepted \subseteq Nat
  <2>1. IsFiniteSet(1..Len(text.lines))
    BY <1>2, FS_Interval
  <2>2. accepted \in SUBSET (1..Len(text.lines)) /\ 1..Len(text.lines) \subseteq Nat
    BY <1>2
  <2>. HIDE DEF accepted
  <2>. QED
    BY <2>1, <2>2, FS_Subset
<1>4. ASSUME NEW i \in accepted
      PROVE  Parsed(nodesOf[i])
  <2>. DEFINE entry == text.lines[i]
              name == LinkName(entry)
  <2>1. nodesOf[i] = Node(entry, LinkPort(entry), name)
    BY <1>1 DEF parseSingleURI
  <2>2. nodesOf[i].entry = entry /\ nodesOf[i].name = name
    BY <2>1 DEF Node
  <2>3. entry.name # Unnamed => name = entry.name
    BY DEF LinkName
  <2>. HIDE DEF nodesOf, entry, name
  <2>. QED
    BY <2>1, <2>2, <2>3 DEF Parsed
<1>. HIDE DEF nodesOf, accepted
<1>5. ListOf(nodesOf)
  BY <1>1, <1>3, <1>4 DEF ListOf
<1>. QED
  BY <1>5 DEF nodesOf

\* Whatever is parsed from a body is a list of nodes in a known format.
LEMMA BodyParsed ==
  ASSUME NEW body \in Bodies, ParseContent(body).nodes # <<>>
  PROVE  /\ ListOf(ParseContent(body).nodes)
         /\ ParseContent(body).format \in {"clash", "base64", "links"}
<1>. DEFINE r == Readings(body)
            found == {i \in 1..4 : HasNodes(r[i])}
            first == CHOOSE i \in found : \A j \in found : i <= j
<1>1. /\ body.text.proxies \in Seq(Range(body.text.proxies))
      /\ body.text.lines \in Seq(Range(body.text.lines))
      /\ body.decoded.proxies \in Seq(Range(body.decoded.proxies))
      /\ body.decoded.lines \in Seq(Range(body.decoded.lines))
  BY OutboundAssumption
<1>2. /\ ListOf(parseClashYAML(body.text)) /\ ListOf(parseClashYAML(body.decoded))
      /\ ListOf(parseURILines(body.text)) /\ ListOf(parseURILines(body.decoded))
  BY <1>1, ClashParsed, LinksParsed
<1>3. \A i \in 1..4 : ListOf(r[i].nodes) /\ r[i].format \in {"clash", "base64", "links"}
  BY <1>2 DEF Readings
<1>4. found # {}
  BY DEF ParseContent, Fails
<1>5. first \in found
  <2>1. \E i \in found : \A j \in found : i <= j
    <3>. HIDE DEF r
    <3>. QED
      BY <1>4
  <2>. HIDE DEF found
  <2>. QED
    BY <2>1
<1>6. ParseContent(body) = r[first]
  BY <1>4 DEF ParseContent
<1>. HIDE DEF r, first
<1>. QED
  BY <1>3, <1>5, <1>6

\* The stored node of an ID is the last one parsed with it.
LEMMA LastIsStored ==
  ASSUME NEW parsed, ListOf(parsed), NEW i \in DOMAIN ByID(parsed)
  PROVE  \E k \in DOMAIN parsed :
           /\ ByID(parsed)[i] = parsed[k] /\ parsed[k].id = i
           /\ \A l \in DOMAIN parsed : parsed[l].id = i => l <= k
<1>. DEFINE D == {k \in DOMAIN parsed : parsed[k].id = i}
            Last(k) == /\ parsed[k].id = i
                       /\ \A l \in DOMAIN parsed : parsed[l].id = i => l <= k
            last == CHOOSE k \in DOMAIN parsed : Last(k)
<1>1. i \in {parsed[k].id : k \in DOMAIN parsed} /\ ByID(parsed)[i] = parsed[last]
  BY DEF ByID
<1>2. D # {} /\ D \in SUBSET Nat /\ IsFiniteSet(D)
  <2>1. D \in SUBSET DOMAIN parsed
    OBVIOUS
  <2>2. IsFiniteSet(DOMAIN parsed) /\ DOMAIN parsed \subseteq Nat
    BY DEF ListOf
  <2>3. IsFiniteSet(D)
    BY <2>1, <2>2, FS_Subset
  <2>. QED
    BY <1>1, <2>1, <2>2, <2>3
<1>3. PICK k \in D : \A l \in D : l <= k
  BY <1>2, GreatestNatural
<1>4. last \in DOMAIN parsed /\ Last(last)
  <2>1. k \in DOMAIN parsed /\ Last(k)
    BY <1>3
  <2>. HIDE DEF Last
  <2>. QED
    BY <2>1
<1>. HIDE DEF last
<1>. QED
  BY <1>1, <1>4

LEMMA IDsAreStored ==
  ASSUME NEW parsed
  PROVE  DOMAIN ByID(parsed) = {parsed[k].id : k \in DOMAIN parsed}
BY DEF ByID

LEMMA InitList == Init => ListInv
<1>. SUFFICES ASSUME Init PROVE ListInv
  OBVIOUS
<1>1. DOMAIN <<>> = {} /\ IsFiniteSet({}) /\ Cardinality({}) = 0
  BY FS_EmptySet
<1>2. sub \in Subs /\ sub.count = 0
  BY DEF Init, Subs
<1>3. ByID(<<>>) = <<>>
  <2>1. {<<>>[k].id : k \in DOMAIN <<>>} = {}
    BY <1>1
  <2>2. ByID(<<>>) = [i \in {} |-> ByID(<<>>)[i]]
    BY <2>1 DEF ByID
  <2>3. \A f : f = [i \in {} |-> f[i]] => f = <<>>
    OBVIOUS
  <2>. QED
    BY <2>2, <2>3
<1>. QED
  BY <1>1, <1>2, <1>3 DEF Init, ListInv, ListOf

LEMMA NextList == ListInv /\ [Next]_vars => ListInv'
<1>. SUFFICES ASSUME ListInv, [Next]_vars PROVE ListInv'
  OBVIOUS
<1>1. CASE UNCHANGED listVars
  BY <1>1 DEF ListInv, listVars
<1>2. CASE FetchFails
  <2>1. sub' = [sub EXCEPT !.failed = TRUE] /\ UNCHANGED <<nodes, list>>
    BY <1>2 DEF FetchFails
  <2>2. sub' \in Subs /\ sub'.count = sub.count
    BY <2>1 DEF ListInv, Subs
  <2>. QED
    BY <2>1, <2>2 DEF ListInv
<1>3. ASSUME NEW body \in Bodies, RefreshFails(body)
      PROVE  ListInv'
  BY <1>2, <1>3 DEF RefreshFails
<1>4. ASSUME NEW body \in Bodies, Refresh(body)
      PROVE  ListInv'
  <2>1. PICK p : p = ParseContent(body)
    OBVIOUS
  <2>2. /\ p.nodes # <<>> /\ nodes' = ByID(p.nodes) /\ list' = p.nodes
        /\ sub' = [format |-> p.format, count |-> Cardinality(DOMAIN p.nodes), failed |-> FALSE]
    BY <1>4, <2>1 DEF Refresh
  <2>3. ListOf(p.nodes) /\ p.format \in {"clash", "base64", "links"}
    BY <2>1, <2>2, BodyParsed
  <2>4. Cardinality(DOMAIN p.nodes) \in Nat
    BY <2>3, FS_CardinalityType DEF ListOf
  <2>5. sub' \in Subs /\ sub'.count = Cardinality(DOMAIN p.nodes)
    BY <2>2, <2>3, <2>4 DEF Subs
  <2>. QED
    BY <2>2, <2>3, <2>5 DEF ListInv
<1>5. ASSUME NEW n, NEW target, Dial(n, target)
      PROVE  UNCHANGED listVars
  BY <1>5 DEF Dial
<1>6. Connect \/ RequestAddr \/ Refuse \/ RequestByClient \/ RequestHTTP \/ DialSOCKS5 \/ HangUp
        => UNCHANGED listVars
  BY DEF Connect, RequestAddr, Refuse, RequestByClient, RequestHTTP, DialSOCKS5, HangUp
<1>7. ASSUME NEW n, NodeSends(n)
      PROVE  UNCHANGED listVars
  BY <1>7 DEF NodeSends
<1>8. ASSUME NEW size, ReadRest(size) \/ ReadMessage(size)
      PROVE  UNCHANGED listVars
  BY <1>8 DEF ReadRest, ReadMessage, Deliver
<1>9. UNCHANGED vars => UNCHANGED listVars
  BY DEF vars, listVars
<1>. QED
  BY <1>1, <1>2, <1>3, <1>4, <1>5, <1>6, <1>7, <1>8, <1>9 DEF Next

\* Nodes are the same for SameNode if they have the same ID.
LEMMA SameIsSameID ==
  ASSUME NEW m, NEW n, Parsed(m), Parsed(n)
  PROVE  SameNode(m, n) <=> m.id = n.id
<1>1. ASSUME NEW x, Parsed(x)
      PROVE  x.id = <<x.entry.proto, x.entry.server, x.port, x.entry.secret, x.name>>
  <2>1. x.id = generateNodeID(x.entry, LinkPort(x.entry), x.name) /\ x.port = LinkPort(x.entry)
    BY <1>1 DEF Parsed, Node
  <2>. QED
    BY <2>1 DEF generateNodeID
<1>2. /\ m.id = <<m.entry.proto, m.entry.server, m.port, m.entry.secret, m.name>>
      /\ n.id = <<n.entry.proto, n.entry.server, n.port, n.entry.secret, n.name>>
  BY <1>1
<1>. QED
  BY <1>2 DEF SameNode

\* What is stored is what no later node of the list repeats.
LEMMA StoredAreLast ==
  ASSUME ListInv
  PROVE  Stored = {list[k] : k \in DOMAIN list \ Repeated}
<1>1. ListOf(list) /\ nodes = ByID(list)
  BY DEF ListInv
<1>2. \A k, l \in DOMAIN list : SameNode(list[k], list[l]) <=> list[k].id = list[l].id
  BY <1>1, SameIsSameID DEF ListOf
<1>3. ASSUME NEW i \in DOMAIN nodes
      PROVE  nodes[i] \in {list[k] : k \in DOMAIN list \ Repeated}
  <2>1. PICK k \in DOMAIN list :
           /\ nodes[i] = list[k] /\ list[k].id = i
           /\ \A l \in DOMAIN list : list[l].id = i => l <= k
    BY <1>1, LastIsStored
  <2>2. k \notin Repeated
    <3>1. SUFFICES ASSUME NEW l \in DOMAIN list, l > k, SameNode(list[k], list[l])
                   PROVE  FALSE
      BY DEF Repeated
    <3>2. l <= k /\ l \in Nat /\ k \in Nat
      BY <1>1, <1>2, <2>1, <3>1 DEF ListOf
    <3>. QED
      BY <3>1, <3>2
  <2>. QED
    BY <2>1, <2>2
<1>4. ASSUME NEW k \in DOMAIN list \ Repeated
      PROVE  list[k] \in Stored
  <2>. DEFINE i == list[k].id
  <2>1. i \in DOMAIN nodes
    BY <1>1, IDsAreStored
  <2>2. PICK l \in DOMAIN list :
           /\ nodes[i] = list[l] /\ list[l].id = i
           /\ \A m \in DOMAIN list : list[m].id = i => m <= l
    BY <1>1, <2>1, LastIsStored
  <2>3. k <= l /\ ~(l > k) /\ k \in Nat /\ l \in Nat
    <3>1. SameNode(list[k], list[l])
      BY <1>2, <2>2
    <3>2. k <= l
      BY <2>2
    <3>. QED
      BY <1>1, <3>1, <3>2 DEF Repeated, ListOf
  <2>4. k = l
    BY <2>3
  <2>. QED
    BY <2>1, <2>2, <2>4 DEF Stored, Range
<1>. QED
  BY <1>3, <1>4 DEF Stored, Range

LEMMA RepeatsAreCounted ==
  ASSUME ListInv
  PROVE  sub.count = Cardinality(Stored) + Cardinality(Repeated)
<1>. DEFINE D == DOMAIN list
            L == D \ Repeated
            f == [k \in L |-> list[k]]
<1>1. ListOf(list) /\ sub.count = Cardinality(D)
  BY DEF ListInv
<1>2. \A k, l \in D : SameNode(list[k], list[l]) <=> list[k].id = list[l].id
  BY <1>1, SameIsSameID DEF ListOf
<1>3. IsFiniteSet(D) /\ Repeated \in SUBSET D /\ L \in SUBSET D
  BY <1>1 DEF ListOf, Repeated
<1>4. IsFiniteSet(Repeated) /\ IsFiniteSet(L)
  BY <1>3, FS_Subset
<1>5. Cardinality(D) = Cardinality(L) + Cardinality(Repeated)
  <2>1. L \cup Repeated = D /\ L \cap Repeated = {}
    BY <1>3
  <2>2. Cardinality(L \cup Repeated)
          = Cardinality(L) + Cardinality(Repeated) - Cardinality(L \cap Repeated)
    BY <1>4, FS_Union
  <2>3. Cardinality({}) = 0 /\ Cardinality(L) \in Nat /\ Cardinality(Repeated) \in Nat
    BY <1>4, FS_EmptySet, FS_CardinalityType
  <2>4. /\ Cardinality(L \cup Repeated) = Cardinality(D)
        /\ Cardinality(L \cap Repeated) = 0
    BY <2>1, <2>3
  <2>. QED
    BY <2>2, <2>3, <2>4
<1>6. f \in Bijection(L, Stored)
  <2>1. Stored = {f[k] : k \in L}
    BY StoredAreLast
  <2>2. ASSUME NEW k \in L, NEW l \in L, f[k] = f[l]
        PROVE  k = l
    <3>1. SameNode(list[k], list[l]) /\ SameNode(list[l], list[k])
      BY <1>2, <2>2
    <3>2. ~(l > k) /\ ~(k > l)
      BY <3>1 DEF Repeated
    <3>3. k \in Nat /\ l \in Nat
      BY <1>1 DEF ListOf
    <3>. QED
      BY <3>2, <3>3
  <2>. HIDE DEF L
  <2>3. f \in [L -> Stored]
    BY <2>1
  <2>. QED
    <3>. HIDE DEF f
    <3>1. f \in Injection(L, Stored)
      BY <2>2, <2>3 DEF Injection, IsInjective
    <3>2. f \in Surjection(L, Stored)
      BY <2>1, <2>3 DEF Surjection
    <3>. QED
      BY <3>1, <3>2 DEF Bijection
<1>7. Cardinality(L) = Cardinality(Stored)
  <2>1. ExistsBijection(L, Stored)
    BY <1>6, Zenon DEF ExistsBijection
  <2>. QED
    BY <1>4, <2>1, FS_Bijection
<1>. QED
  BY <1>1, <1>5, <1>7

LEMMA ListGives == ListInv => ListTyped /\ OnlyRepeatsAreLost
<1>. SUFFICES ASSUME ListInv PROVE ListTyped /\ OnlyRepeatsAreLost
  OBVIOUS
<1>1. ASSUME NEW i \in DOMAIN nodes
      PROVE  nodes[i].id = i /\ nodes[i] \in Range(list)
  <2>1. \E k \in DOMAIN list : nodes[i] = list[k] /\ list[k].id = i
    BY LastIsStored DEF ListInv
  <2>. QED
    BY <2>1 DEF Range
<1>. QED
  BY <1>1, StoredAreLast, RepeatsAreCounted DEF ListInv, ListTyped, Subs, OnlyRepeatsAreLost

\* The ID of a stored node is made of its entry, if that has a name.
StoredAreParsed == \A x \in Stored : Parsed(x)

LEMMA ListGivesParsed == ListInv => StoredAreParsed
<1>. SUFFICES ASSUME ListInv, NEW x \in Stored PROVE Parsed(x)
  BY DEF StoredAreParsed
<1>1. PICK k \in DOMAIN list : x = list[k]
  BY StoredAreLast
<1>. QED
  BY <1>1 DEF ListInv, ListOf

LEMMA EntryGivesID ==
  ASSUME ListInv, ListInv', NEW m \in Stored, NEW n \in Stored',
         m.entry = n.entry, m.entry.name # Unnamed
  PROVE  m.id = n.id
<1>1. StoredAreParsed /\ StoredAreParsed'
  BY ListGivesParsed, PTL
<1>2. Parsed(m) /\ Parsed(n)
  BY <1>1 DEF StoredAreParsed
<1>. QED
  BY <1>2 DEF Parsed, Node

-----------------------------------------------------------------------------
(* The dial: its target or nothing.                                        *)

\* A dial that is to send its request has a connection that is up.
DialOK ==
  \/ dial = NoDial
  \/ /\ dial = [step |-> dial.step, node |-> dial.node, target |-> dial.target,
                raw |-> dial.raw, told |-> dial.told]
     /\ dial.step \in Steps
     /\ dial.target \in Targets
     /\ dial.step = "request" => dial.raw = "open"

DialInv == DialOK /\ TargetOrNothing

\* What a node may be told.
Addresses == [form : Forms, len : Nat, port : 0..MaxPort]

\* The address field keeps a target it can carry: its kind up to the two ways
\* to write an IPv4 address, its length in a byte and its port in two.
LEMMA FieldKeepsTarget ==
  ASSUME NEW target \in Targets, Encodable(target)
  PROVE  /\ SameTarget(DecodeAddr(EncodeTargetAddr(target)), target)
         /\ DecodeAddr(EncodeTargetAddr(target)) \in Addresses
<1>. DEFINE field == EncodeTargetAddr(target)
            told == DecodeAddr(field)
<1>. USE OutboundAssumption DEF Encodable, Splits, Forms
<1>1. target.form \in {"name", "ip4", "ip6", "mapped"} /\ target.len \in Nat
      /\ target.len <= 255 /\ target.port \in Nat
  OBVIOUS
<1>2. field.atyp = Atyp[target.form] /\ field.len = target.len
      /\ field.high = target.port \div 256 /\ field.low = target.port % 256
  BY <1>1 DEF EncodeTargetAddr
<1>3. told.form = (IF target.form = "mapped" THEN "ip4" ELSE target.form)
  <2>1. \A f \in {"ip4", "name", "ip6"} :
           Atyp[f] = Atyp[target.form]
             <=> f = (IF target.form = "mapped" THEN "ip4" ELSE target.form)
    BY <1>1 DEF Atyp
  <2>. QED
    BY <1>1, <1>2, <2>1 DEF DecodeAddr
<1>4. told.len = target.len
  BY <1>2 DEF DecodeAddr
<1>5. told.port = target.port
  BY <1>1, <1>2 DEF DecodeAddr
<1>. QED
  <2>1. told = [form |-> told.form, len |-> told.len, port |-> told.port]
    BY DEF DecodeAddr
  <2>2. target.port <= MaxPort
    BY <1>1, PortBound
  <2>3. told.form \in Forms /\ told.len \in Nat /\ told.port \in 0..MaxPort
    BY <1>1, <1>3, <1>4, <1>5, <2>2, PortBound
  <2>. HIDE DEF told
  <2>4. told \in Addresses
    BY <2>1, <2>3 DEF Addresses
  <2>5. SameTarget(told, target)
    BY <1>1, <1>3, <1>4, <1>5 DEF SameTarget
  <2>. QED
    BY <2>4, <2>5 DEF told

\* The client of VLESS and VMess keeps it if its port has 16 bits.
LEMMA ClientKeepsTarget ==
  ASSUME NEW target \in Targets, InPortRange(target.port)
  PROVE  SameTarget(ClientAddr(target), target)
<1>1. target.port % 65536 = target.port /\ target.port # -1
  BY OutboundAssumption DEF InPortRange
<1>. QED
  BY <1>1, OutboundAssumption DEF ClientAddr, SameTarget

\* Whatever the port, what is told has 16 bits of it.
LEMMA ClientTells ==
  ASSUME NEW target \in Targets
  PROVE  ClientAddr(target) \in Addresses
<1>. DEFINE port == IF target.port = -1 THEN 0 ELSE target.port % 65536
<1>1. /\ target = [form |-> target.form, len |-> target.len, port |-> target.port]
      /\ target.form \in Forms /\ target.len \in Nat /\ target.port \in Int
  BY OutboundAssumption
<1>2. port \in Int /\ 0 <= port /\ port < 65536
  BY <1>1
<1>3. port \in 0..MaxPort
  <2>. HIDE DEF port
  <2>. QED
    BY <1>2, PortBound
<1>4. ClientAddr(target) = [form |-> target.form, len |-> target.len, port |-> port]
  BY <1>1 DEF ClientAddr
<1>. HIDE DEF port
<1>. QED
  BY <1>1, <1>3, <1>4 DEF Addresses

LEMMA InitDial == Init => DialInv
  BY DEF Init, DialInv, DialOK, TargetOrNothing, NoDial

\* What a failed step leaves of the connection.
LEMMA FailDial ==
  ASSUME DialInv, dial # NoDial, NEW raw, Fail(raw),
         \/ raw \in {"none", "closed"}
         \/ dial.node.entry.proto \in ByClient /\ raw = "lent"
  PROVE  DialInv'
  BY DEF DialInv, DialOK, Fail, TargetOrNothing, Steps, NoDial

\* A dial is open once the node was told its target, on the connection it has.
LEMMA OpenDial ==
  ASSUME DialInv, dial.step = "request", NEW told, Open(told),
         \/ SameTarget(told, dial.target)
         \/ dial.node.entry.proto \in ByClient /\ ~InPortRange(dial.target.port)
  PROVE  DialInv'
<1>1. dial # NoDial
  BY DEF NoDial
<1>. QED
  BY <1>1 DEF DialInv, DialOK, Open, TargetOrNothing, SameTarget, Steps, NoDial

LEMMA NextDial == DialInv /\ [Next]_vars => DialInv'
<1>. SUFFICES ASSUME DialInv, [Next]_vars PROVE DialInv'
  OBVIOUS
<1>1. CASE UNCHANGED dial
  BY <1>1 DEF DialInv, DialOK, TargetOrNothing, SameTarget
<1>2. ASSUME NEW i \in DOMAIN nodes, NEW target \in Targets, Dial(nodes[i], target)
      PROVE  DialInv'
  BY <1>2 DEF Dial, DialInv, DialOK, TargetOrNothing, Steps, NoDial
<1>. HIDE DEF DialInv
<1>3. CASE Connect
  <2>. USE <1>3 DEF Connect
  <2>1. dial # NoDial
    BY DEF NoDial
  <2>2. CASE Fail("none")
    BY <2>1, <2>2, FailDial
  <2>3. CASE dial' = [dial EXCEPT !.step = "request", !.raw = "open"]
    BY <2>1, <2>3 DEF DialInv, DialOK, TargetOrNothing, Steps, NoDial
  <2>. QED
    BY <2>2, <2>3
<1>4. CASE RequestAddr
  <2>. USE <1>4 DEF RequestAddr
  <2>1. dial # NoDial /\ dial.target \in Targets
    BY DEF NoDial, DialInv, DialOK
  <2>2. CASE Fail("closed")
    BY <2>1, <2>2, FailDial
  <2>3. CASE Encodable(dial.target) /\ Open(DecodeAddr(EncodeTargetAddr(dial.target)))
    BY <2>1, <2>3, FieldKeepsTarget, OpenDial
  <2>. QED
    BY <2>2, <2>3
<1>5. CASE Refuse
  <2>1. dial # NoDial /\ Fail("closed")
    BY <1>5 DEF Refuse, NoDial
  <2>. QED
    BY <2>1, FailDial
<1>6. CASE RequestByClient
  <2>. USE <1>6 DEF RequestByClient
  <2>1. dial # NoDial /\ dial.target \in Targets
    BY DEF NoDial, DialInv, DialOK
  <2>2. CASE Fail("lent")
    BY <2>1, <2>2, FailDial
  <2>3. CASE Open(ClientAddr(dial.target))
    BY <2>1, <2>3, ClientKeepsTarget, OpenDial
  <2>. QED
    BY <2>2, <2>3
<1>7. CASE RequestHTTP
  <2>. USE <1>7 DEF RequestHTTP
  <2>1. dial # NoDial
    BY DEF NoDial
  <2>2. CASE Fail("closed")
    BY <2>1, <2>2, FailDial
  <2>3. CASE Open(dial.target)
    <3>1. SameTarget(dial.target, dial.target)
      BY DEF SameTarget
    <3>. QED
      BY <2>3, <3>1, OpenDial
  <2>. QED
    BY <2>2, <2>3
<1>8. CASE DialSOCKS5
  <2>. USE <1>8 DEF DialSOCKS5
  <2>1. dial # NoDial /\ dial.target \in Targets
    BY DEF NoDial, DialInv, DialOK
  <2>2. CASE Fail("none")
    BY <2>1, <2>2, FailDial
  <2>3. ASSUME NEW told, told = DecodeAddr(EncodeTargetAddr(dial.target)),
               Encodable(dial.target),
               dial' = [dial EXCEPT !.step = "open", !.raw = "open", !.told = told]
        PROVE  DialInv'
    <3>1. SameTarget(told, dial.target)
      BY <2>1, <2>3, FieldKeepsTarget
    <3>. QED
      BY <2>1, <2>3, <3>1
      DEF DialInv, DialOK, TargetOrNothing, SameTarget, Steps, NoDial
  <2>. QED
    BY <2>2, <2>3
<1>9. CASE HangUp
  BY <1>9 DEF HangUp, DialInv, DialOK, TargetOrNothing, NoDial
<1>10. ASSUME NEW body \in Bodies, RefreshFails(body) \/ Refresh(body)
       PROVE  UNCHANGED dial
  BY <1>10 DEF RefreshFails, FetchFails, Refresh
<1>11. ASSUME NEW n \in 0 .. MaxItems, NodeSends(n)
       PROVE  UNCHANGED dial
  BY <1>11 DEF NodeSends
<1>12. ASSUME NEW size \in 1 .. MaxItems, ReadRest(size) \/ ReadMessage(size)
       PROVE  UNCHANGED dial
  BY <1>12 DEF ReadRest, ReadMessage, Deliver
<1>13. FetchFails => UNCHANGED dial
  BY DEF FetchFails
<1>14. UNCHANGED vars => UNCHANGED dial
  BY DEF vars
<1>. QED
  BY <1>1, <1>2, <1>3, <1>4, <1>5, <1>6, <1>7, <1>8, <1>9, <1>10, <1>11, <1>12,
     <1>13, <1>14 DEF Next


\* A step of a dial that keeps its node and target.
LEMMA DialGoesOn ==
  ASSUME DialInv, DialTyped, dial # NoDial,
         NEW step \in Steps, NEW raw \in {"none", "open", "closed", "lent"}, NEW told,
         told = dial.told \/ told \in Addresses \cup Targets,
         dial' = [dial EXCEPT !.step = step, !.raw = raw, !.told = told]
  PROVE  DialTyped'
<1>1. /\ dial = [step |-> dial.step, node |-> dial.node, target |-> dial.target,
                 raw |-> dial.raw, told |-> dial.told]
      /\ dial.target \in Targets /\ HasDialer(dial.node)
      /\ dial.told # <<>> => dial.told \in Addresses \cup Targets
  BY DEF DialInv, DialOK, DialTyped, Addresses
<1>2. /\ dial'.step = step /\ dial'.node = dial.node /\ dial'.target = dial.target
      /\ dial'.raw = raw /\ dial'.told = told
  BY <1>1
<1>3. told # <<>> => told \in Addresses \cup Targets
  BY <1>1
<1>. QED
  BY <1>1, <1>2, <1>3, Zenon DEF DialTyped, Addresses

LEMMA NextDialTyped == DialInv /\ DialTyped /\ [Next]_vars => DialTyped'
<1>. SUFFICES ASSUME DialInv, DialTyped, [Next]_vars PROVE DialTyped'
  OBVIOUS
<1>1. CASE UNCHANGED dial
  BY <1>1 DEF DialTyped
<1>2. ASSUME NEW i \in DOMAIN nodes, NEW target \in Targets, Dial(nodes[i], target)
      PROVE  DialTyped'
  <2>1. /\ dial'.step = "connect" /\ dial'.node = nodes[i] /\ dial'.target = target
        /\ dial'.raw = "none" /\ dial'.told = <<>> /\ HasDialer(nodes[i])
    BY <1>2 DEF Dial
  <2>2. dial'.step \in Steps /\ dial'.raw \in {"none", "open", "closed", "lent"}
    BY <2>1 DEF Steps
  <2>. QED
    BY <2>1, <2>2, Zenon DEF DialTyped
<1>3. ASSUME NEW raw \in {"none", "open", "closed", "lent"}, Fail(raw), dial # NoDial
      PROVE  DialTyped'
  <2>1. /\ dial = [step |-> dial.step, node |-> dial.node, target |-> dial.target,
                   raw |-> dial.raw, told |-> dial.told]
        /\ dial' = [dial EXCEPT !.step = "failed", !.raw = raw]
    BY <1>3 DEF DialInv, DialOK, Fail
  <2>2. dial' = [dial EXCEPT !.step = "failed", !.raw = raw, !.told = dial.told]
    BY <2>1
  <2>3. "failed" \in Steps
    BY DEF Steps
  <2>. QED
    BY <1>3, <2>2, <2>3, DialGoesOn
<1>4. ASSUME NEW told \in Addresses \cup Targets, Open(told), dial # NoDial, dial.step = "request"
      PROVE  DialTyped'
  <2>1. /\ dial = [step |-> dial.step, node |-> dial.node, target |-> dial.target,
                   raw |-> dial.raw, told |-> dial.told]
        /\ dial.raw \in {"none", "open", "closed", "lent"}
        /\ dial' = [dial EXCEPT !.step = "open", !.told = told]
    BY <1>4 DEF DialInv, DialOK, DialTyped, Open
  <2>2. dial' = [dial EXCEPT !.step = "open", !.raw = dial.raw, !.told = told]
    BY <2>1
  <2>3. "open" \in Steps
    BY DEF Steps
  <2>. QED
    BY <1>4, <2>1, <2>2, <2>3, DialGoesOn
<1>5. CASE Connect
  <2>1. dial # NoDial
    BY <1>5 DEF Connect, NoDial
  <2>2. CASE dial' = [dial EXCEPT !.step = "request", !.raw = "open"]
    <3>1. dial = [step |-> dial.step, node |-> dial.node, target |-> dial.target,
                  raw |-> dial.raw, told |-> dial.told]
      BY <2>1 DEF DialInv, DialOK
    <3>2. dial' = [dial EXCEPT !.step = "request", !.raw = "open", !.told = dial.told]
      BY <2>2, <3>1
    <3>3. "request" \in Steps
      BY DEF Steps
    <3>. QED
      BY <2>1, <3>2, <3>3, DialGoesOn
  <2>. QED
    BY <1>3, <1>5, <2>1, <2>2 DEF Connect
<1>6. CASE RequestAddr
  <2>1. dial # NoDial /\ dial.step = "request" /\ dial.target \in Targets
    BY <1>6 DEF RequestAddr, NoDial, DialInv, DialOK
  <2>2. Encodable(dial.target) => DecodeAddr(EncodeTargetAddr(dial.target)) \in Addresses
    BY <2>1, FieldKeepsTarget
  <2>. QED
    BY <1>3, <1>4, <1>6, <2>1, <2>2 DEF RequestAddr
<1>7. CASE Refuse
  <2>1. dial # NoDial /\ Fail("closed")
    BY <1>7 DEF Refuse, NoDial
  <2>. QED
    BY <1>3, <2>1
<1>8. CASE RequestByClient
  <2>1. dial # NoDial /\ dial.step = "request" /\ dial.target \in Targets
    BY <1>8 DEF RequestByClient, NoDial, DialInv, DialOK
  <2>2. ClientAddr(dial.target) \in Addresses
    BY <2>1, ClientTells
  <2>. QED
    BY <1>3, <1>4, <1>8, <2>1, <2>2 DEF RequestByClient
<1>9. CASE RequestHTTP
  <2>1. dial # NoDial /\ dial.step = "request" /\ dial.target \in Targets
    BY <1>9 DEF RequestHTTP, NoDial, DialInv, DialOK
  <2>. QED
    BY <1>3, <1>4, <1>9, <2>1 DEF RequestHTTP
<1>10. CASE DialSOCKS5
  <2>. DEFINE told == DecodeAddr(EncodeTargetAddr(dial.target))
  <2>1. dial # NoDial /\ dial.target \in Targets
    BY <1>10 DEF DialSOCKS5, NoDial, DialInv, DialOK
  <2>2. Encodable(dial.target) => told \in Addresses
    BY <2>1, FieldKeepsTarget
  <2>3. \/ /\ Encodable(dial.target)
           /\ dial' = [dial EXCEPT !.step = "open", !.raw = "open", !.told = told]
        \/ Fail("none")
    BY <1>10 DEF DialSOCKS5
  <2>4. "open" \in Steps
    BY DEF Steps
  <2>. HIDE DEF told
  <2>. QED
    BY <1>3, <2>1, <2>2, <2>3, <2>4, DialGoesOn
<1>11. CASE HangUp
  BY <1>11 DEF HangUp, DialTyped
<1>12. ASSUME NEW body \in Bodies, RefreshFails(body) \/ Refresh(body)
       PROVE  UNCHANGED dial
  BY <1>12 DEF RefreshFails, FetchFails, Refresh
<1>13. ASSUME NEW n \in 0..MaxItems, NodeSends(n)
       PROVE  UNCHANGED dial
  BY <1>13 DEF NodeSends
<1>14. ASSUME NEW size \in 1..MaxItems, ReadRest(size) \/ ReadMessage(size)
       PROVE  UNCHANGED dial
  BY <1>14 DEF ReadRest, ReadMessage, Deliver
<1>15. FetchFails => UNCHANGED dial
  BY DEF FetchFails
<1>16. UNCHANGED vars => UNCHANGED dial
  BY DEF vars
<1>. QED
  BY <1>1, <1>2, <1>5, <1>6, <1>7, <1>8, <1>9, <1>10, <1>11, <1>12, <1>13, <1>14,
     <1>15, <1>16 DEF Next

-----------------------------------------------------------------------------
(* Messages: a stream.                                                     *)

StreamInv == StreamTyped /\ MessagesMakeAStream

LEMMA BoundType == MaxItems \in Nat /\ MaxFrames \in Nat
  BY OutboundAssumption

LEMMA IsSequence ==
  ASSUME NEW S, NEW n \in Nat, NEW s \in [1..n -> S]
  PROVE  s \in Seq(S) /\ Len(s) = n
<1>1. s \in Seq(S)
  BY SeqDef
<1>2. DOMAIN s = 1..n /\ DOMAIN s = 1..Len(s) /\ Len(s) \in Nat
  BY <1>1, LenProperties
<1>. QED
  BY <1>1, <1>2

LEMMA ItemsType ==
  ASSUME NEW m \in 0..MaxItems, NEW n \in m..MaxItems
  PROVE  /\ Items(m, n) \in Seq(1..MaxItems)
         /\ Len(Items(m, n)) = n - m
         /\ \A i \in 1..(n - m) : Items(m, n)[i] = m + i
<1>. DEFINE s == Items(m, n)
<1>1. /\ n - m \in Nat /\ s \in [1..(n - m) -> 1..MaxItems]
      /\ \A i \in 1..(n - m) : s[i] = m + i
  BY BoundType DEF Items
<1>2. s \in Seq(1..MaxItems) /\ Len(s) = n - m
  BY <1>1, IsSequence
<1>. QED
  BY <1>1, <1>2

LEMMA NoItems ==
  ASSUME NEW m \in 0..MaxItems, NEW n \in m..MaxItems
  PROVE  Items(m, n) = <<>> <=> n = m
<1>1. Items(m, n) \in Seq(1..MaxItems) /\ Len(Items(m, n)) = n - m
  BY ItemsType
<1>2. Items(m, n) = <<>> <=> Len(Items(m, n)) = 0
  BY <1>1, EmptySeq
<1>. QED
  BY <1>1, <1>2

\* A sequence whose items are numbered this way is that of the items.
LEMMA AreItems ==
  ASSUME NEW m \in 0..MaxItems, NEW n \in m..MaxItems, NEW s \in Seq(1..MaxItems),
         Len(s) = n - m, \A i \in 1..(n - m) : s[i] = m + i
  PROVE  s = Items(m, n)
<1>. DEFINE t == Items(m, n)
<1>1. t \in Seq(1..MaxItems) /\ Len(t) = n - m /\ \A i \in 1..(n - m) : t[i] = m + i
  BY ItemsType
<1>. HIDE DEF t
<1>2. s = t
  BY <1>1, SeqEqual
<1>. QED
  BY <1>2 DEF t

LEMMA ItemsGoOn ==
  ASSUME NEW m \in 0..MaxItems, NEW n \in 0..MaxItems, m <= n
  PROVE  Items(0, m) \o Items(m, n) = Items(0, n)
<1>. DEFINE a == Items(0, m)
            b == Items(m, n)
<1>1. /\ a \in Seq(1..MaxItems) /\ Len(a) = m /\ \A i \in 1..m : a[i] = i
      /\ b \in Seq(1..MaxItems) /\ Len(b) = n - m /\ \A i \in 1..(n - m) : b[i] = m + i
  <2>1. m \in 0..MaxItems /\ 0 \in 0..MaxItems /\ m \in 0..MaxItems /\ n \in m..MaxItems
        /\ m - 0 = m
    BY BoundType
  <2>2. /\ a \in Seq(1..MaxItems) /\ Len(a) = m - 0 /\ \A i \in 1..(m - 0) : a[i] = 0 + i
    BY <2>1, ItemsType
  <2>3. b \in Seq(1..MaxItems) /\ Len(b) = n - m /\ \A i \in 1..(n - m) : b[i] = m + i
    BY <2>1, ItemsType
  <2>. HIDE DEF a, b
  <2>. QED
    BY <2>1, <2>2, <2>3
<1>. HIDE DEF a, b
<1>2. /\ a \o b \in Seq(1..MaxItems) /\ Len(a \o b) = Len(a) + Len(b)
      /\ \A i \in 1..(Len(a) + Len(b)) :
           (a \o b)[i] = IF i <= Len(a) THEN a[i] ELSE b[i - Len(a)]
  BY <1>1, ConcatProperties, Zenon
<1>3. ASSUME NEW i \in 1..n
      PROVE  (a \o b)[i] = i
  BY <1>1, <1>2
<1>4. a \o b = Items(0, n)
  <2>1. 0 \in 0..MaxItems /\ n \in 0..MaxItems /\ n - 0 = n
    BY BoundType
  <2>2. Len(a \o b) = n - 0 /\ \A i \in 1..(n - 0) : (a \o b)[i] = 0 + i
    BY <1>1, <1>2, <1>3, <2>1
  <2>3. a \o b \in Seq(1..MaxItems)
    BY <1>2
  <2>. QED
    BY <2>1, <2>2, <2>3, AreItems
<1>. QED
  BY <1>4 DEF a, b

LEMMA ItemsPart ==
  ASSUME NEW m \in 0..MaxItems, NEW n \in m..MaxItems, NEW k \in 0..(n - m)
  PROVE  SubSeq(Items(m, n), 1, k) = Items(m, m + k)
<1>. DEFINE a == Items(m, n)
<1>1. a \in Seq(1..MaxItems) /\ \A i \in 1..(n - m) : a[i] = m + i
  BY ItemsType
<1>. HIDE DEF a
<1>2. \A i \in 1..k : a[i] \in 1..MaxItems /\ a[i] = m + i
  BY <1>1, BoundType
<1>3. /\ SubSeq(a, 1, k) \in Seq(1..MaxItems) /\ Len(SubSeq(a, 1, k)) = k
      /\ \A i \in 1..k : SubSeq(a, 1, k)[i] = a[i]
  BY <1>2, SubSeqProperties
<1>4. SubSeq(a, 1, k) = Items(m, m + k)
  <2>1. m + k \in m..MaxItems /\ (m + k) - m = k
    BY BoundType
  <2>2. Len(SubSeq(a, 1, k)) = (m + k) - m
        /\ \A i \in 1..((m + k) - m) : SubSeq(a, 1, k)[i] = m + i
    BY <1>2, <1>3, <2>1
  <2>. QED
    BY <1>3, <2>1, <2>2, AreItems
<1>. QED
  BY <1>4 DEF a

LEMMA ItemsRest ==
  ASSUME NEW m \in 0..MaxItems, NEW n \in m..MaxItems, NEW k \in 0..(n - m)
  PROVE  SubSeq(Items(m, n), k + 1, n - m) = Items(m + k, n)
<1>. DEFINE a == Items(m, n)
            b == SubSeq(a, k + 1, n - m)
<1>1. a \in Seq(1..MaxItems) /\ \A i \in 1..(n - m) : a[i] = m + i
  BY ItemsType
<1>. HIDE DEF a
<1>2. \A i \in (k + 1)..(n - m) : a[i] \in 1..MaxItems /\ a[i] = m + i
  BY <1>1, BoundType
<1>3. /\ b \in Seq(1..MaxItems) /\ Len(b) = n - (m + k)
      /\ \A i \in 1..(n - (m + k)) : b[i] = a[k + i]
  BY <1>2, SubSeqProperties
<1>. HIDE DEF b
<1>4. \A i \in 1..(n - (m + k)) : b[i] = m + k + i
  BY <1>2, <1>3
<1>5. b = Items(m + k, n)
  BY <1>3, <1>4, AreItems, BoundType
<1>. QED
  BY <1>5 DEF a, b

\* A read of a message or of the rest of one, with a buffer of some size: what
\* fits goes on with what was read, and the rest stays.
LEMMA ReadSome ==
  ASSUME NEW m \in 0..MaxItems, NEW n \in m..MaxItems, NEW size \in 1..MaxItems
  PROVE  LET s == Items(m, n)
             k == IF size < Len(s) THEN size ELSE Len(s)
         IN  /\ k \in 0..(n - m)
             /\ Items(0, m) \o SubSeq(s, 1, k) = Items(0, m + k)
             /\ SubSeq(s, size + 1, Len(s)) = Items(m + k, n)
<1>. DEFINE s == Items(m, n)
            k == IF size < Len(s) THEN size ELSE Len(s)
<1>1. Len(s) = n - m /\ s \in Seq(1..MaxItems)
  BY ItemsType
<1>2. k \in 0..(n - m) /\ m + k \in 0..MaxItems
  BY <1>1, BoundType
<1>3. SubSeq(s, 1, k) = Items(m, m + k)
  BY <1>2, ItemsPart
<1>4. Items(0, m) \o Items(m, m + k) = Items(0, m + k)
  BY <1>2, ItemsGoOn, BoundType, m <= m + k
<1>5. SubSeq(s, size + 1, Len(s)) = Items(m + k, n)
  <2>1. CASE size < Len(s)
    BY <1>1, <1>2, <2>1, ItemsRest
  <2>2. CASE ~(size < Len(s))
    <3>1. SubSeq(s, size + 1, Len(s)) = <<>>
      BY <1>1, <2>2, SubSeqEmpty
    <3>2. k = n - m /\ m + k \in 0..MaxItems /\ n \in (m + k)..MaxItems
      BY <1>1, <2>2
    <3>3. Items(m + k, n) = <<>>
      BY <3>2, NoItems
    <3>. QED
      BY <3>1, <3>3
  <2>. QED
    BY <2>1, <2>2
<1>. QED
  BY <1>2, <1>3, <1>4, <1>5

\* The ends of the messages underway, the first that of what is kept.
Ends(end) ==
  /\ end \in [{0} \cup DOMAIN stream.wire -> Len(stream.got)..stream.sent]
  /\ \A k, m \in DOMAIN end : k <= m => end[k] <= end[m]
  /\ stream.rest = Items(Len(stream.got), end[0])
  /\ \A m \in DOMAIN stream.wire : stream.wire[m] = Items(end[m - 1], end[m])
  /\ end[Len(stream.wire)] = stream.sent

\* What the property says, with the ends named.
LEMMA HasEnds ==
  ASSUME MessagesMakeAStream
  PROVE  stream.got = Items(0, Len(stream.got)) /\ \E end : Ends(end)
  BY Zenon DEF MessagesMakeAStream, Ends

LEMMA HasEndsNext ==
  ASSUME stream'.got = Items(0, Len(stream'.got)), NEW end, Ends(end)'
  PROVE  MessagesMakeAStream'
  BY Zenon DEF MessagesMakeAStream, Ends

LEMMA StreamIsTyped ==
  ASSUME NEW s, s = [wire |-> s.wire, rest |-> s.rest, sent |-> s.sent, got |-> s.got],
         s.wire \in Seq(Seq(1..MaxItems)), s.rest \in Seq(1..MaxItems),
         s.sent \in 0..MaxItems, s.got \in Seq(1..MaxItems)
  PROVE  s \in [wire : Seq(Seq(1..MaxItems)), rest : Seq(1..MaxItems),
                sent : 0..MaxItems, got : Seq(1..MaxItems)]
<1>1. ASSUME NEW W, NEW R, NEW S, NEW G,
             s.wire \in W, s.rest \in R, s.sent \in S, s.got \in G
      PROVE  s \in [wire : W, rest : R, sent : S, got : G]
  BY <1>1
<1>. QED
  BY <1>1, Zenon

LEMMA NoStreamInv == stream = NoStream => StreamInv
<1>. SUFFICES ASSUME stream = NoStream PROVE StreamInv
  OBVIOUS
<1>. DEFINE end == [k \in {0} |-> 0]
<1>1. /\ stream.wire = <<>> /\ stream.rest = <<>> /\ stream.sent = 0 /\ stream.got = <<>>
      /\ stream = [wire |-> stream.wire, rest |-> stream.rest,
                    sent |-> stream.sent, got |-> stream.got]
  BY DEF NoStream
<1>2. /\ Items(0, 0) = <<>> /\ Len(<<>>) = 0 /\ DOMAIN <<>> = {}
      /\ <<>> \in Seq(1..MaxItems) /\ <<>> \in Seq(Seq(1..MaxItems))
  <2>1. 0 \in 0..MaxItems /\ 0 \in 0..MaxItems
    BY BoundType
  <2>. QED
    BY <2>1, NoItems
<1>3. StreamTyped
  <2>1. stream.sent \in 0..MaxItems /\ Len(stream.wire) <= MaxFrames
    BY <1>1, <1>2, BoundType
  <2>. QED
    BY <1>1, <1>2, <2>1, StreamIsTyped DEF StreamTyped
<1>4. Ends(end)
  <2>1. end \in [{0} -> 0..0] /\ end[0] = 0
    OBVIOUS
  <2>. HIDE DEF end
  <2>2. {0} \cup DOMAIN stream.wire = {0} /\ Len(stream.got) = 0 /\ Len(stream.wire) = 0
    BY <1>1, <1>2
  <2>. QED
    BY <1>1, <1>2, <2>1, <2>2 DEF Ends
<1>. QED
  <2>1. stream.got = Items(0, Len(stream.got))
    BY <1>1, <1>2
  <2>. HIDE DEF end
  <2>2. MessagesMakeAStream
    BY <1>4, <2>1, Zenon DEF Ends, MessagesMakeAStream
  <2>. QED
    BY <1>3, <2>2 DEF StreamInv

LEMMA StreamTypes ==
  ASSUME StreamInv, NEW end, Ends(end)
  PROVE  /\ stream = [wire |-> stream.wire, rest |-> stream.rest,
                      sent |-> stream.sent, got |-> stream.got]
         /\ stream.wire \in Seq(Seq(1..MaxItems)) /\ stream.rest \in Seq(1..MaxItems)
         /\ stream.sent \in 0..MaxItems /\ stream.got \in Seq(1..MaxItems)
         /\ Len(stream.wire) <= MaxFrames
         /\ Len(stream.wire) \in Nat /\ DOMAIN stream.wire = 1..Len(stream.wire)
         /\ {0} \cup DOMAIN stream.wire = 0..Len(stream.wire)
         /\ Len(stream.got) \in 0..MaxItems /\ stream.got = Items(0, Len(stream.got))
         /\ end[0] \in 0..MaxItems /\ Len(stream.got) <= end[0]
<1>1. /\ stream = [wire |-> stream.wire, rest |-> stream.rest,
                   sent |-> stream.sent, got |-> stream.got]
      /\ stream.wire \in Seq(Seq(1..MaxItems)) /\ stream.rest \in Seq(1..MaxItems)
      /\ stream.sent \in 0..MaxItems /\ stream.got \in Seq(1..MaxItems)
      /\ Len(stream.wire) <= MaxFrames
  BY DEF StreamInv, StreamTyped
<1>2. Len(stream.wire) \in Nat /\ DOMAIN stream.wire = 1..Len(stream.wire)
  BY <1>1, LenProperties
<1>3. Len(stream.got) \in Nat
  BY <1>1, LenProperties
<1>4. end[0] \in Len(stream.got)..stream.sent
  BY DEF Ends
<1>5. Len(stream.got) \in 0..MaxItems /\ end[0] \in 0..MaxItems /\ Len(stream.got) <= end[0]
  BY <1>1, <1>3, <1>4, BoundType
<1>6. stream.got = Items(0, Len(stream.got))
  BY HasEnds DEF StreamInv
<1>7. {0} \cup DOMAIN stream.wire = 0..Len(stream.wire)
  BY <1>2
<1>. QED
  BY <1>1, <1>2, <1>5, <1>6, <1>7

\* The node sends a message: its end is that of what was sent.
LEMMA SendKeepsStream ==
  ASSUME StreamInv, NEW n \in 0..MaxItems, NodeSends(n)
  PROVE  StreamInv'
<1>1. PICK end : Ends(end)
  BY HasEnds DEF StreamInv
<1>. DEFINE sent == stream.sent + n
            l == Len(stream.wire)
            message == Items(stream.sent, sent)
            wire == Append(stream.wire, message)
            ends == [k \in 0..(l + 1) |-> IF k <= l THEN end[k] ELSE sent]
<1>2. PICK s : s = stream
  OBVIOUS
<1>3. /\ stream' = [stream EXCEPT !.sent = sent, !.wire = wire]
      /\ l < MaxFrames /\ sent <= MaxItems
  BY DEF NodeSends
<1>4. /\ stream = [wire |-> stream.wire, rest |-> stream.rest,
                   sent |-> stream.sent, got |-> stream.got]
      /\ stream.wire \in Seq(Seq(1..MaxItems)) /\ stream.rest \in Seq(1..MaxItems)
      /\ stream.sent \in 0..MaxItems /\ stream.got \in Seq(1..MaxItems)
      /\ l \in Nat /\ DOMAIN stream.wire = 1..l /\ {0} \cup DOMAIN stream.wire = 0..l
      /\ Len(stream.got) \in 0..MaxItems /\ stream.got = Items(0, Len(stream.got))
  BY <1>1, StreamTypes
<1>5. /\ stream'.wire = wire /\ stream'.rest = stream.rest
      /\ stream'.sent = sent /\ stream'.got = stream.got
      /\ stream' = [wire |-> stream'.wire, rest |-> stream'.rest,
                    sent |-> stream'.sent, got |-> stream'.got]
  <2>. HIDE DEF sent, wire
  <2>. QED
    BY <1>3, <1>4
<1>6. sent \in stream.sent..MaxItems /\ sent \in 0..MaxItems
  BY <1>3, <1>4, BoundType
<1>7. message \in Seq(1..MaxItems)
  BY <1>4, <1>6, ItemsType
<1>. HIDE DEF message
<1>8. /\ wire \in Seq(Seq(1..MaxItems)) /\ Len(wire) = l + 1 /\ DOMAIN wire = 1..(l + 1)
      /\ \A i \in 1..l : wire[i] = stream.wire[i]
      /\ wire[l + 1] = message
  <2>1. /\ wire \in Seq(Seq(1..MaxItems)) /\ Len(wire) = l + 1
        /\ \A i \in 1..l : wire[i] = stream.wire[i]
        /\ wire[l + 1] = message
    BY <1>4, <1>7, AppendProperties
  <2>2. DOMAIN wire = 1..Len(wire)
    BY <2>1, LenProperties
  <2>. QED
    BY <2>1, <2>2
<1>. HIDE DEF wire
<1>9. StreamTyped'
  <2>1. Len(wire) <= MaxFrames
    BY <1>3, <1>4, <1>8, BoundType
  <2>. QED
    BY <1>4, <1>5, <1>6, <1>8, <2>1, StreamIsTyped DEF StreamTyped
<1>. PICK e : e = ends
  OBVIOUS
<1>10. Ends(e)'
  <2>1. /\ end \in [0..l -> Len(stream.got)..stream.sent]
        /\ stream.rest = Items(Len(stream.got), end[0])
        /\ \A m \in 1..l : stream.wire[m] = Items(end[m - 1], end[m])
        /\ \A k, m \in 0..l : k <= m => end[k] <= end[m]
        /\ end[l] = stream.sent
    BY <1>1, <1>4 DEF Ends
  <2>2. \A k \in 0..l : /\ e[k] = end[k] /\ end[k] \in Int
                        /\ Len(stream.got) <= end[k] /\ end[k] <= stream.sent
    BY <1>4, <2>1
  <2>3. e[l + 1] = sent /\ e[0] = end[0]
    BY <1>4
  <2>4. /\ Len(stream.got) <= end[l] /\ stream.sent <= sent
        /\ sent \in Int /\ stream.sent \in Int /\ Len(stream.got) \in Int
    <3>1. l \in 0..l
      BY <1>4
    <3>. HIDE DEF l, sent
    <3>2. Len(stream.got) <= end[l]
      BY <2>2, <3>1
    <3>. QED
      BY <1>4, <1>6, <3>2, BoundType
  <2>5. e \in [0..(l + 1) -> Len(stream.got)..sent]
    <3>1. ASSUME NEW k \in 0..(l + 1)
          PROVE  e[k] \in Len(stream.got)..sent
      <4>1. CASE k = l + 1
        BY <2>1, <2>3, <2>4, <4>1
      <4>2. CASE k # l + 1
        <5>1. k \in 0..l
          BY <1>4, <4>2
        <5>2. /\ e[k] = end[k] /\ end[k] \in Int
              /\ Len(stream.got) <= end[k] /\ end[k] <= stream.sent
          BY <2>2, <5>1
        <5>. HIDE DEF sent
        <5>. QED
          BY <2>4, <5>2
      <4>. QED
        BY <4>1, <4>2
    <3>. QED
      BY <3>1
  <2>6. {0} \cup 1..(l + 1) = 0..(l + 1)
    BY <1>4
  <2>7. ASSUME NEW m \in 1..(l + 1)
        PROVE  wire[m] = Items(e[m - 1], e[m])
    <3>1. CASE m = l + 1
      <4>1. m - 1 = l /\ l \in 0..l
        BY <1>4, <3>1
      <4>2. e[m - 1] = stream.sent /\ e[m] = sent
        BY <2>1, <2>2, <2>3, <3>1, <4>1
      <4>. QED
        BY <1>8, <2>4, <3>1, <4>2 DEF message
    <3>2. CASE m # l + 1
      <4>1. m \in 1..l /\ m \in 0..l /\ m - 1 \in 0..l
        BY <1>4, <3>2
      <4>2. e[m - 1] = end[m - 1] /\ e[m] = end[m]
        BY <2>2, <4>1
      <4>. QED
        BY <1>8, <2>1, <4>1, <4>2
    <3>. QED
      BY <3>1, <3>2
  <2>8. ASSUME NEW k \in 0..(l + 1), NEW m \in 0..(l + 1), k <= m
        PROVE  e[k] <= e[m]
    <3>1. CASE m = l + 1
      <4>1. e[k] \in Len(stream.got)..sent /\ e[m] = sent
        BY <2>3, <2>5, <3>1
      <4>. QED
        BY <2>4, <4>1
    <3>2. CASE m # l + 1
      <4>1. k \in 0..l /\ m \in 0..l
        BY <1>4, <2>8, <3>2
      <4>2. e[k] = end[k] /\ e[m] = end[m] /\ end[k] <= end[m]
        BY <2>1, <2>2, <2>8, <4>1
      <4>. QED
        BY <4>2
    <3>. QED
      BY <3>1, <3>2
  <2>. HIDE DEF sent
  <2>. QED
    <3>1. /\ DOMAIN stream'.wire = 1..(l + 1) /\ Len(stream'.wire) = l + 1
          /\ {0} \cup DOMAIN stream'.wire = 0..(l + 1)
      BY <1>5, <1>8, <2>6
    <3>2. \A m \in DOMAIN stream'.wire : stream'.wire[m] = Items(e[m - 1], e[m])
      BY <1>5, <2>7, <3>1
    <3>3. e \in [{0} \cup DOMAIN stream'.wire -> Len(stream'.got)..stream'.sent]
      BY <1>5, <2>5, <3>1
    <3>4. /\ stream'.rest = Items(Len(stream'.got), e[0])
          /\ e[Len(stream'.wire)] = stream'.sent
      BY <1>5, <2>1, <2>3, <3>1
    <3>5. \A k, m \in DOMAIN e : k <= m => e[k] <= e[m]
      BY <2>5, <2>8
    <3>. QED
      BY <3>2, <3>3, <3>4, <3>5, Zenon DEF Ends
<1>11. MessagesMakeAStream'
  <2>1. stream'.got = Items(0, Len(stream'.got))
    BY <1>4, <1>5
  <2>. QED
    BY <1>10, <2>1, HasEndsNext
<1>. QED
  BY <1>9, <1>11 DEF StreamInv

\* A read: what goes to the reader is what comes off the rest or the message.
LEMMA DeliverKeepsStream ==
  ASSUME StreamInv, NEW size \in 1..MaxItems, ReadRest(size) \/ ReadMessage(size)
  PROVE  StreamInv'
<1>1. PICK end : Ends(end)
  BY HasEnds DEF StreamInv
<1>. DEFINE l == Len(stream.wire)
            g == Len(stream.got)
<1>2. /\ stream = [wire |-> stream.wire, rest |-> stream.rest,
                   sent |-> stream.sent, got |-> stream.got]
      /\ stream.wire \in Seq(Seq(1..MaxItems)) /\ stream.rest \in Seq(1..MaxItems)
      /\ stream.sent \in 0..MaxItems /\ stream.got \in Seq(1..MaxItems)
      /\ l <= MaxFrames /\ l \in Nat
      /\ DOMAIN stream.wire = 1..l /\ {0} \cup DOMAIN stream.wire = 0..l
      /\ g \in 0..MaxItems /\ stream.got = Items(0, g)
      /\ end[0] \in 0..MaxItems /\ g <= end[0]
  BY <1>1, StreamTypes
<1>3. /\ end \in [0..l -> g..stream.sent]
      /\ stream.rest = Items(g, end[0])
      /\ \A k, m \in 0..l : k <= m => end[k] <= end[m]
      /\ \A m \in 1..l : stream.wire[m] = Items(end[m - 1], end[m])
      /\ end[l] = stream.sent
  BY <1>1, <1>2 DEF Ends
<1>4. ASSUME NEW to \in g..MaxItems, to \in Int,
             Deliver(Items(g, to), size, SubSeq(Items(g, to), size + 1, Len(Items(g, to))))
      PROVE  \E h \in g..to : /\ stream'.got = Items(0, h) /\ stream'.rest = Items(h, to)
                              /\ stream'.sent = stream.sent
                              /\ stream'.wire = IF stream.rest = <<>> THEN Tail(stream.wire)
                                                                     ELSE stream.wire
                              /\ stream' = [wire |-> stream'.wire, rest |-> stream'.rest,
                                            sent |-> stream'.sent, got |-> stream'.got]
  <2>. DEFINE s == Items(g, to)
              k == IF size < Len(s) THEN size ELSE Len(s)
              part == SubSeq(s, 1, k)
              more == SubSeq(s, size + 1, Len(s))
              wire == IF stream.rest = <<>> THEN Tail(stream.wire) ELSE stream.wire
  <2>1. stream' = [stream EXCEPT !.got = stream.got \o part, !.rest = more, !.wire = wire]
    BY <1>4, Zenon DEF Deliver
  <2>2. /\ k \in 0..(to - g) /\ Items(0, g) \o part = Items(0, g + k)
        /\ more = Items(g + k, to)
    BY <1>2, <1>4, ReadSome
  <2>3. g + k \in g..to
    <3>1. g \in Int /\ to \in Int /\ k \in 0..(to - g)
      BY <1>2, <1>4, <2>2, BoundType
    <3>. HIDE DEF k, g
    <3>. QED
      BY <3>1
  <2>. HIDE DEF k, part, more, wire
  <2>4. /\ stream'.got = stream.got \o part /\ stream'.rest = more
        /\ stream'.sent = stream.sent /\ stream'.wire = wire
        /\ stream' = [wire |-> stream'.wire, rest |-> stream'.rest,
                      sent |-> stream'.sent, got |-> stream'.got]
    BY <1>2, <2>1
  <2>5. stream'.got = Items(0, g + k) /\ stream'.rest = Items(g + k, to)
    BY <1>2, <2>2, <2>4
  <2>. QED
    BY <2>3, <2>4, <2>5 DEF wire
\* Whatever messages are left, their ends are the same.
<1>5. ASSUME NEW to, NEW ends, NEW n \in Nat, NEW h \in g..to, to \in g..MaxItems,
             stream'.got = Items(0, h), stream'.rest = Items(h, to),
             stream'.sent = stream.sent,
             stream' = [wire |-> stream'.wire, rest |-> stream'.rest,
                        sent |-> stream'.sent, got |-> stream'.got],
             stream'.wire \in Seq(Seq(1..MaxItems)), Len(stream'.wire) = n, n <= l,
             ends \in [0..n -> to..stream.sent], ends[0] = to, ends[n] = stream.sent,
             \A k, m \in 0..n : k <= m => ends[k] <= ends[m],
             \A m \in 1..n : stream'.wire[m] = Items(ends[m - 1], ends[m])
      PROVE  StreamInv'
  <2>1. h \in 0..MaxItems /\ to \in h..MaxItems /\ 0 \in 0..MaxItems /\ n <= MaxFrames
    BY <1>2, <1>5, BoundType
  <2>2. /\ Items(0, h) \in Seq(1..MaxItems) /\ Len(Items(0, h)) = h - 0
        /\ Items(h, to) \in Seq(1..MaxItems)
    BY <2>1, ItemsType
  <2>3. Len(stream'.got) = h
    BY <1>5, <2>1, <2>2
  <2>4. StreamTyped'
    BY <1>2, <1>5, <2>1, <2>2, StreamIsTyped DEF StreamTyped
  <2>5. DOMAIN stream'.wire = 1..n /\ {0} \cup DOMAIN stream'.wire = 0..n
    BY <1>5, LenProperties
  <2>6. ends \in [0..n -> h..stream.sent]
    <3>1. ASSUME NEW k \in 0..n PROVE ends[k] \in h..stream.sent
      <4>1. ends[k] \in to..stream.sent
        BY <1>5
      <4>. QED
        BY <1>2, <2>1, <4>1
    <3>. QED
      BY <1>5, <3>1
  <2>7. Ends(ends)'
    <3>1. ends \in [{0} \cup DOMAIN stream'.wire -> Len(stream'.got)..stream'.sent]
      BY <1>5, <2>3, <2>5, <2>6
    <3>2. \A m \in DOMAIN stream'.wire : stream'.wire[m] = Items(ends[m - 1], ends[m])
      BY <1>5, <2>5
    <3>3. /\ stream'.rest = Items(Len(stream'.got), ends[0])
          /\ ends[Len(stream'.wire)] = stream'.sent
      BY <1>5, <2>3
    <3>4. \A k, m \in DOMAIN ends : k <= m => ends[k] <= ends[m]
      BY <1>5
    <3>. QED
      BY <3>1, <3>2, <3>3, <3>4, Zenon DEF Ends
  <2>8. stream'.got = Items(0, Len(stream'.got))
    BY <1>5, <2>3
  <2>. QED
    BY <2>4, <2>7, <2>8, HasEndsNext DEF StreamInv
<1>6. \A k \in 0..l : end[k] \in Int /\ g <= end[k] /\ end[k] <= stream.sent
  BY <1>2, <1>3
<1>7. \A k \in 0..l : end[0] <= end[k]
  BY <1>2, <1>3
<1>8. CASE ReadRest(size)
  <2>1. stream.rest # <<>> /\ Deliver(stream.rest, size, SubSeq(stream.rest, size + 1, Len(stream.rest)))
    BY <1>8 DEF ReadRest
  <2>2. end[0] \in g..MaxItems /\ end[0] \in Int
    BY <1>2, BoundType
  <2>3. PICK h \in g..end[0] : /\ stream'.got = Items(0, h) /\ stream'.rest = Items(h, end[0])
                               /\ stream'.sent = stream.sent /\ stream'.wire = stream.wire
                               /\ stream' = [wire |-> stream'.wire, rest |-> stream'.rest,
                                             sent |-> stream'.sent, got |-> stream'.got]
    BY <1>3, <1>4, <2>1, <2>2
  <2>4. end \in [0..l -> end[0]..stream.sent]
    BY <1>3, <1>6, <1>7
  <2>. QED
    <3>1. /\ l \in Nat /\ l <= l /\ end[0] = end[0] /\ end[l] = stream.sent
          /\ \A k, m \in 0..l : k <= m => end[k] <= end[m]
      BY <1>2, <1>3
    <3>2. /\ stream'.wire \in Seq(Seq(1..MaxItems)) /\ Len(stream'.wire) = l
          /\ \A m \in 1..l : stream'.wire[m] = Items(end[m - 1], end[m])
      BY <1>2, <1>3, <2>3
    <3>. HIDE DEF l, g
    <3>. QED
      BY <1>5, <2>2, <2>3, <2>4, <3>1, <3>2
<1>9. CASE ReadMessage(size)
  <2>. DEFINE ends == [k \in 0..(l - 1) |-> end[k + 1]]
              to == end[1]
  <2>1. /\ stream.rest = <<>> /\ stream.wire # <<>>
        /\ Deliver(Head(stream.wire), size,
                   SubSeq(Head(stream.wire), size + 1, Len(Head(stream.wire))))
    BY <1>9 DEF ReadMessage
  <2>2. l >= 1 /\ l - 1 \in Nat /\ 1 \in 1..l /\ 0 \in 0..l /\ 1 \in 0..l
    BY <1>2, <2>1, EmptySeq
  <2>3. end[0] = g
    <3>1. end[0] \in g..MaxItems /\ Items(g, end[0]) = <<>>
      BY <1>2, <1>3, <2>1, BoundType
    <3>. HIDE DEF g
    <3>. QED
      BY <1>2, <3>1, NoItems
  <2>4. Head(stream.wire) = Items(g, to)
    <3>1. Head(stream.wire) = stream.wire[1]
      BY <1>2, <2>1
    <3>2. stream.wire[1] = Items(end[1 - 1], end[1]) /\ 1 - 1 = 0
      BY <1>3, <2>2
    <3>. QED
      BY <2>3, <3>1, <3>2
  <2>5. to \in g..MaxItems /\ to \in Int
    <3>1. to \in Int /\ g <= to /\ to <= stream.sent
      BY <1>6, <2>2
    <3>. QED
      BY <1>2, <3>1, BoundType
  <2>6. PICK h \in g..to : /\ stream'.got = Items(0, h) /\ stream'.rest = Items(h, to)
                           /\ stream'.sent = stream.sent /\ stream'.wire = Tail(stream.wire)
                           /\ stream' = [wire |-> stream'.wire, rest |-> stream'.rest,
                                         sent |-> stream'.sent, got |-> stream'.got]
    BY <1>4, <2>1, <2>4, <2>5
  <2>7. /\ Tail(stream.wire) \in Seq(Seq(1..MaxItems)) /\ Len(Tail(stream.wire)) = l - 1
        /\ \A m \in 1..(l - 1) : Tail(stream.wire)[m] = stream.wire[m + 1]
    BY <1>2, <2>1, HeadTailProperties
  <2>8. ASSUME NEW k \in 0..(l - 1)
        PROVE  ends[k] = end[k + 1] /\ k + 1 \in 0..l /\ ends[k] \in to..stream.sent
    <3>1. ends[k] = end[k + 1] /\ k + 1 \in 0..l /\ 1 <= k + 1
      BY <2>2
    <3>. HIDE DEF ends
    <3>2. end[1] <= end[k + 1] /\ end[k + 1] \in Int /\ end[k + 1] <= stream.sent
      BY <1>3, <1>6, <2>2, <3>1
    <3>. QED
      BY <1>2, <2>5, <3>1, <3>2
  <2>9. /\ ends \in [0..(l - 1) -> to..stream.sent] /\ ends[0] = to
        /\ ends[l - 1] = stream.sent
    <3>1. 0 \in 0..(l - 1) /\ l - 1 \in 0..(l - 1) /\ (l - 1) + 1 = l /\ 0 + 1 = 1
      BY <2>2
    <3>. QED
      BY <1>3, <2>8, <3>1
  <2>10. ASSUME NEW m \in 1..(l - 1)
         PROVE  stream'.wire[m] = Items(ends[m - 1], ends[m])
    <3>1. /\ m - 1 \in 0..(l - 1) /\ m \in 0..(l - 1) /\ m + 1 \in 1..l
          /\ (m - 1) + 1 = m /\ (m + 1) - 1 = m
      BY <2>2
    <3>2. ends[m - 1] = end[m] /\ ends[m] = end[m + 1]
      BY <2>8, <3>1
    <3>3. stream.wire[m + 1] = Items(end[m], end[m + 1])
      BY <1>3, <3>1
    <3>. QED
      BY <2>6, <2>7, <3>2, <3>3
  <2>11. ASSUME NEW k \in 0..(l - 1), NEW m \in 0..(l - 1), k <= m
         PROVE  ends[k] <= ends[m]
    <3>1. /\ ends[k] = end[k + 1] /\ k + 1 \in 0..l
          /\ ends[m] = end[m + 1] /\ m + 1 \in 0..l /\ k + 1 <= m + 1
      BY <2>8, <2>11
    <3>. QED
      BY <1>3, <3>1
  <2>. HIDE DEF ends
  <2>12. l - 1 <= l
    BY <1>2
  <2>13. /\ stream'.wire \in Seq(Seq(1..MaxItems)) /\ Len(stream'.wire) = l - 1
         /\ \A k, m \in 0..(l - 1) : k <= m => ends[k] <= ends[m]
         /\ \A m \in 1..(l - 1) : stream'.wire[m] = Items(ends[m - 1], ends[m])
    BY <2>6, <2>7, <2>10, <2>11
  <2>. HIDE DEF l, g, to
  <2>. QED
    BY <1>5, <2>2, <2>5, <2>6, <2>9, <2>12, <2>13
<1>. QED
  BY <1>8, <1>9

LEMMA NextStream == StreamInv /\ [Next]_vars => StreamInv'
<1>. SUFFICES ASSUME StreamInv, [Next]_vars PROVE StreamInv'
  OBVIOUS
<1>1. CASE UNCHANGED stream
  BY <1>1 DEF StreamInv, StreamTyped, MessagesMakeAStream
<1>2. CASE HangUp
  <2>1. (stream = NoStream)'
    BY <1>2 DEF HangUp
  <2>2. (stream = NoStream)' => StreamInv'
    BY NoStreamInv, PTL
  <2>. QED
    BY <2>1, <2>2
<1>3. ASSUME NEW body \in Bodies, RefreshFails(body) \/ Refresh(body)
      PROVE  UNCHANGED stream
  BY <1>3 DEF RefreshFails, FetchFails, Refresh
<1>4. FetchFails => UNCHANGED stream
  BY DEF FetchFails
<1>5. ASSUME NEW n, NEW target, Dial(n, target)
      PROVE  UNCHANGED stream
  BY <1>5 DEF Dial
<1>6. Connect \/ RequestAddr \/ Refuse \/ RequestByClient \/ RequestHTTP \/ DialSOCKS5
        => UNCHANGED stream
  BY DEF Connect, RequestAddr, Refuse, RequestByClient, RequestHTTP, DialSOCKS5
<1>7. ASSUME NEW n \in 0..MaxItems, NodeSends(n)
      PROVE  StreamInv'
  BY <1>7, SendKeepsStream
<1>8. ASSUME NEW size \in 1..MaxItems, ReadRest(size) \/ ReadMessage(size)
      PROVE  StreamInv'
  BY <1>8, DeliverKeepsStream
<1>9. UNCHANGED vars => UNCHANGED stream
  BY DEF vars
<1>. QED
  BY <1>1, <1>2, <1>3, <1>4, <1>5, <1>6, <1>7, <1>8, <1>9 DEF Next

-----------------------------------------------------------------------------
(* Together.                                                               *)

IInv == ListInv /\ DialInv /\ DialTyped /\ StreamInv

\* The inductive invariant: the store is what the last list gives, a dial that
\* sends its request has a connection, and a stream is cut into messages.
THEOREM Inductive == Spec => []IInv
<1>1. Init => ListInv /\ DialInv /\ DialTyped /\ StreamInv
  <2>1. Init => DialTyped
    BY DEF Init, DialTyped
  <2>2. Init => StreamInv
    BY NoStreamInv DEF Init
  <2>. QED
    BY <2>1, <2>2, InitList, InitDial
<1>. QED
  BY <1>1, NextList, NextDial, NextDialTyped, NextStream, PTL DEF Spec, IInv

\* Subscription, stored nodes, dial and stream keep their types, for any lists,
\* targets and messages (store.go:194-201, dialer.go, conn_ws.go).
THEOREM TypeCorrect == Spec => []TypeOK
<1>1. IInv => TypeOK
  BY ListGives DEF IInv, TypeOK, StreamInv
<1>. QED
  BY <1>1, Inductive, PTL

\* Of lists of any length only repeated nodes are lost, and the count is that of
\* the list (store.go:194-201, server.go:345-356).
THEOREM ListCorrect == Spec => []OnlyRepeatsAreLost
<1>1. IInv => OnlyRepeatsAreLost
  BY ListGives DEF IInv
<1>. QED
  BY <1>1, Inductive, PTL

\* An entry with a name keeps the ID of its node over any refreshes, in whatever
\* format and at whatever place it comes (parser.go:713-717).
THEOREM IDsCorrect == Spec => SameEntrySameID
<1>1. IInv /\ IInv' /\ [Next]_vars
        => [\A m \in Stored, n \in Stored' :
              m.entry = n.entry /\ m.entry.name # Unnamed => m.id = n.id]_vars
  BY EntryGivesID DEF IInv
<1>. QED
  BY <1>1, Inductive, PTL DEF Spec, SameEntrySameID

\* Whatever lists are stored and whatever is dialed, a dial reaches the target
\* it was asked for or leaves nothing behind (dialer.go, addr.go:12-53).
THEOREM TargetCorrect == Spec => []TargetOrNothing
<1>1. IInv => TargetOrNothing
  BY DEF IInv, DialInv
<1>. QED
  BY <1>1, Inductive, PTL

\* A reader gets all that was sent once and in order, for messages and buffers
\* of any sizes (conn_ws.go:25-56).
THEOREM StreamCorrect == Spec => []MessagesMakeAStream
<1>1. IInv => MessagesMakeAStream
  BY DEF IInv, StreamInv
<1>. QED
  BY <1>1, Inductive, PTL
=============================================================================
