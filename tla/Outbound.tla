------------------------------ MODULE Outbound ------------------------------
(***************************************************************************)
(* From a subscription to a connection: the list of a refresh is parsed    *)
(* (Parser) and stored, and a stored node is dialed (pkg/dialer).          *)
(*                                                                         *)
(* There is one subscription.  A dial is a sequence of calls on a          *)
(* connection of its own with a copy of a node, so it and the refreshes    *)
(* have nothing in common: one dial at a time shows what any does, and     *)
(* refreshes between the dials (Idle) what refreshes do at any time.       *)
(***************************************************************************)
EXTENDS Parser, FiniteSets, Functions

CONSTANTS Bodies,    \* what the provider may answer
          Targets,   \* what clients may ask for
          MaxItems,  \* bound: items a node sends over a WebSocket
          MaxFrames  \* bound: messages on their way

Forms == {"name", "ip4", "ip6", "mapped", "unsplit"}

\* What is not a name has no length of its own.
ASSUME OutboundAssumption ==
  /\ Targets \subseteq [form : Forms, len : Nat, port : Int]
  /\ \A t \in Targets : t.form # "name" => t.len = 0
  /\ MaxItems \in Nat /\ MaxFrames \in Nat
  /\ \A body \in Bodies : \A text \in {body.text, body.decoded} :
       /\ text.proxies \in Seq(Range(text.proxies))
       /\ text.lines \in Seq(Range(text.lines))

VARIABLES sub,     \* format, node count and whether the last refresh failed
          nodes,   \* the stored nodes: store.data.Nodes
          list,    \* history: the nodes of the last list, as parsed
          dial,    \* the dial: its step, node and target, its raw connection,
                   \* and the target the node was told
          stream   \* a WebSocket: messages underway, the rest of the one read
                   \* last (WSConn.reader), the items sent and those read

vars == <<sub, nodes, list, dial, stream>>
listVars == <<sub, nodes, list>>

NoDial == [step |-> "none"]
NoStream == [wire |-> <<>>, rest |-> <<>>, sent |-> 0, got |-> <<>>]

Init ==
  /\ sub = [format |-> "unknown", count |-> 0, failed |-> FALSE]
  /\ nodes = <<>>
  /\ list = <<>>
  /\ dial = NoDial
  /\ stream = NoStream

-----------------------------------------------------------------------------
(* The list *)

Idle == dial = NoDial

\* The last node with an ID is the one that is stored.
ByID(parsed) ==
  [i \in {parsed[k].id : k \in DOMAIN parsed} |->
     parsed[CHOOSE k \in DOMAIN parsed :
              /\ parsed[k].id = i
              /\ \A l \in DOMAIN parsed : parsed[l].id = i => l <= k]]

\* The fetch fails, or its answer has no node: only the error is kept.
FetchFails ==
  /\ Idle
  /\ sub' = [sub EXCEPT !.failed = TRUE]
  /\ UNCHANGED <<nodes, list, dial, stream>>

RefreshFails(body) ==
  /\ FetchFails
  /\ ParseContent(body).nodes = <<>>

\* Mutant: the nodes of the old list are not taken out.
RefreshKeepsOld(body) ==
  LET parsed == ParseContent(body)
  IN  /\ Idle
      /\ parsed.nodes # <<>>
      /\ sub' = [format |-> parsed.format, count |-> Cardinality(DOMAIN parsed.nodes), failed |-> FALSE]
      /\ LET new == ByID(parsed.nodes)
         IN  nodes' = [i \in DOMAIN nodes \cup DOMAIN new |->
                         IF i \in DOMAIN new THEN new[i] ELSE nodes[i]]
      /\ list' = parsed.nodes
      /\ UNCHANGED <<dial, stream>>

Refresh(body) ==
  LET parsed == ParseContent(body)
  IN  /\ Idle
      /\ parsed.nodes # <<>>
      /\ sub' = [format |-> parsed.format, count |-> Cardinality(DOMAIN parsed.nodes), failed |-> FALSE]
      /\ nodes' = ByID(parsed.nodes)
      /\ list' = parsed.nodes
      /\ UNCHANGED <<dial, stream>>

-----------------------------------------------------------------------------
(* The dial *)

\* The protocols whose request is written by the vendor's client.
ByClient == {"vless", "vmess"}

IsWebSocket(n) == n.entry.network = "ws" /\ n.entry.proto \in ByClient \cup {"trojan"}

\* Whether a dialer can be made: a node may have a protocol without one, and
\* the cipher of Shadowsocks and the UUID of VLESS are looked at here.
HasDialer(n) ==
  /\ n.entry.proto \in LinkProtocols
  /\ n.entry.proto = "shadowsocks" => n.entry.method # "odd"
  /\ n.entry.proto = "vless" => n.entry.secret # "no uuid"

\* The address field of SOCKS5.  An IPv4 address in IPv6 notation is sent as
\* the IPv4 address it is.
Atyp == [ip4 |-> 1, mapped |-> 1, name |-> 3, ip6 |-> 4]

Splits(target) == target.form # "unsplit"

Encodable(target) ==
  /\ Splits(target)
  /\ target.port > 0 /\ target.port < 65536
  /\ target.form = "name" => target.len <= 255

EncodeTargetAddr(target) ==
  [atyp |-> Atyp[target.form], len |-> target.len % 256,
   high |-> target.port \div 256, low |-> target.port % 256]

\* What the node reads from the field, and what it gets from the client of
\* VLESS and VMess, which has the port as 16 bits, 0 if it is no number (-1).
DecodeAddr(field) ==
  [form |-> CHOOSE f \in {"ip4", "name", "ip6"} : Atyp[f] = field.atyp,
   len |-> field.len, port |-> field.high * 256 + field.low]

ClientAddr(target) ==
  [target EXCEPT !.port = IF @ = -1 THEN 0 ELSE @ % 65536]

Dial(n, target) ==
  /\ Idle
  /\ HasDialer(n)
  /\ dial' = [step |-> "connect", node |-> n, target |-> target, raw |-> "none", told |-> <<>>]
  /\ UNCHANGED <<listVars, stream>>

Fail(raw) == dial' = [dial EXCEPT !.step = "failed", !.raw = raw]

Open(told) == dial' = [dial EXCEPT !.step = "open", !.told = told]

\* TCP, TLS or WebSocket comes up, or cleans up after itself.
Connect ==
  /\ dial.step = "connect"
  /\ dial.node.entry.proto # "socks5"
  /\ \/ dial' = [dial EXCEPT !.step = "request", !.raw = "open"]
     \/ Fail("none")
  /\ UNCHANGED <<listVars, stream>>

\* Trojan and Shadowsocks: the address is checked before it is written.
RequestAddr ==
  /\ dial.step = "request"
  /\ dial.node.entry.proto \in {"trojan", "shadowsocks"}
  /\ \/ Encodable(dial.target) /\ Open(DecodeAddr(EncodeTargetAddr(dial.target)))
     \/ Fail("closed")
  /\ UNCHANGED <<listVars, stream>>

\* Mutant: an error of the client's initialisation or of the target returns
\* without closing.
RefuseLeaking ==
  /\ dial.step = "request"
  /\ dial.node.entry.proto \in ByClient
  /\ dial.node.entry.method = "odd" \/ ~Splits(dial.target)
  /\ Fail("open")
  /\ UNCHANGED <<listVars, stream>>

\* VLESS and VMess: the vendor's client does not take the flow or the cipher,
\* or the target has no port.
Refuse ==
  /\ dial.step = "request"
  /\ dial.node.entry.proto \in ByClient
  /\ dial.node.entry.method = "odd" \/ ~Splits(dial.target)
  /\ Fail("closed")
  /\ UNCHANGED <<listVars, stream>>

\* The client writes the request.  If it fails the connection is left to it.
RequestByClient ==
  /\ dial.step = "request"
  /\ dial.node.entry.proto \in ByClient
  /\ dial.node.entry.method # "odd"
  /\ Splits(dial.target)
  /\ Open(ClientAddr(dial.target)) \/ Fail("lent")
  /\ UNCHANGED <<listVars, stream>>

\* HTTP: the target is sent as it is; anything but an answer 200 is an error.
RequestHTTP ==
  /\ dial.step = "request"
  /\ dial.node.entry.proto = "http"
  /\ Open(dial.target) \/ Fail("closed")
  /\ UNCHANGED <<listVars, stream>>

\* SOCKS5: golang.org/x/net/proxy dials, writes the address field and cleans up.
DialSOCKS5 ==
  /\ dial.step = "connect"
  /\ dial.node.entry.proto = "socks5"
  /\ \/ /\ Encodable(dial.target)
        /\ dial' = [dial EXCEPT !.step = "open", !.raw = "open",
                                !.told = DecodeAddr(EncodeTargetAddr(dial.target))]
     \/ Fail("none")
  /\ UNCHANGED <<listVars, stream>>

HangUp ==
  /\ dial.step \in {"open", "failed"}
  /\ dial' = NoDial
  /\ stream' = NoStream
  /\ UNCHANGED listVars

-----------------------------------------------------------------------------
(* WSConn: a stream over messages *)

Streams == dial.step = "open" /\ IsWebSocket(dial.node)

\* The items after the m-th up to the n-th.
Items(m, n) == [i \in 1..(n - m) |-> m + i]

\* A message has any number of items, also none.
NodeSends(n) ==
  /\ Streams
  /\ Len(stream.wire) < MaxFrames
  /\ stream.sent + n <= MaxItems
  /\ stream' = [stream EXCEPT !.sent = @ + n,
                              !.wire = Append(@, Items(stream.sent, stream.sent + n))]
  /\ UNCHANGED <<listVars, dial>>

Deliver(s, size, rest) ==
  /\ stream' = [stream EXCEPT !.got = @ \o SubSeq(s, 1, IF size < Len(s) THEN size ELSE Len(s)),
                              !.rest = rest,
                              !.wire = IF stream.rest = <<>> THEN Tail(@) ELSE @]
  /\ UNCHANGED <<listVars, dial>>

\* A read into a buffer of this size takes from the rest of a message, ...
ReadRest(size) ==
  /\ Streams
  /\ stream.rest # <<>>
  /\ Deliver(stream.rest, size, SubSeq(stream.rest, size + 1, Len(stream.rest)))

\* Mutant: what does not fit into the buffer is dropped with the message.
ReadMessageDroppingRest(size) ==
  /\ Streams
  /\ stream.rest = <<>>
  /\ stream.wire # <<>>
  /\ Deliver(Head(stream.wire), size, <<>>)

\* ... and from the next message once there is none.  Of an empty message it
\* returns nothing, without an error.
ReadMessage(size) ==
  /\ Streams
  /\ stream.rest = <<>>
  /\ stream.wire # <<>>
  /\ Deliver(Head(stream.wire), size, SubSeq(Head(stream.wire), size + 1, Len(Head(stream.wire))))

-----------------------------------------------------------------------------
Next ==
  \/ FetchFails
  \/ \E body \in Bodies : RefreshFails(body) \/ Refresh(body)
  \/ \E i \in DOMAIN nodes, target \in Targets : Dial(nodes[i], target)
  \/ Connect \/ RequestAddr \/ Refuse \/ RequestByClient \/ RequestHTTP \/ DialSOCKS5
  \/ HangUp
  \/ \E n \in 0..MaxItems : NodeSends(n)
  \/ \E size \in 1..MaxItems : ReadRest(size) \/ ReadMessage(size)

Spec == Init /\ [][Next]_vars

-----------------------------------------------------------------------------
Stored == Range(nodes)

Steps == {"connect", "request", "open", "failed"}

ListTyped ==
  /\ sub \in [format : {"unknown", "clash", "base64", "links"},
              count : Nat, failed : BOOLEAN]
  /\ \A i \in DOMAIN nodes : nodes[i].id = i /\ nodes[i] \in Range(list)

DialTyped ==
  \/ dial = NoDial
  \/ /\ dial.step \in Steps /\ dial.target \in Targets /\ HasDialer(dial.node)
     /\ dial.raw \in {"none", "open", "closed", "lent"}
     /\ dial.told # <<>> =>
          dial.told \in [form : Forms, len : Nat, port : 0..MaxPort] \cup Targets

StreamTyped ==
  /\ stream \in [wire : Seq(Seq(1..MaxItems)), rest : Seq(1..MaxItems),
                 sent : 0..MaxItems, got : Seq(1..MaxItems)]
  /\ Len(stream.wire) <= MaxFrames

TypeOK == ListTyped /\ DialTyped /\ StreamTyped

\* Two nodes of a list the user would call the same: generateNodeID has the
\* same fields for them.  Cipher, transport and the rest may differ.
SameNode(m, n) ==
  /\ <<m.entry.proto, m.entry.server, m.port>> = <<n.entry.proto, n.entry.server, n.port>>
  /\ <<m.entry.secret, m.name>> = <<n.entry.secret, n.name>>

Repeated == {k \in DOMAIN list : \E l \in DOMAIN list : l > k /\ SameNode(list[k], list[l])}

\* The count of a subscription is that of the list, and what is stored is the
\* list without the nodes a later one repeats: nothing else is lost, but the
\* repeated are counted as well (store.go:194-201, server.go:268, 343).
OnlyRepeatsAreLost ==
  /\ Stored = {list[k] : k \in DOMAIN list \ Repeated}
  /\ sub.count = Cardinality(Stored) + Cardinality(Repeated)

\* A refresh gives the node of an entry that was in the list before the ID it
\* had, wherever it now is in the list and in whatever format the list comes.
\* A Clash proxy without a name is named after its place, and has no such luck
\* (parser.go:187-189, 713-717).
SameEntrySameID ==
  [][\A m \in Stored, n \in Stored' :
       m.entry = n.entry /\ m.entry.name # Unnamed => m.id = n.id]_vars

\* The same destination: an IPv4 address may be told as such.
SameTarget(told, target) ==
  /\ <<told.len, told.port>> = <<target.len, target.port>>
  /\ told.form = target.form \/ {told.form, target.form} = {"ip4", "mapped"}

InPortRange(port) == port >= 0 /\ port < 65536

\* A dial ends with a connection to the target it was asked for, or with no
\* connection: whatever goes wrong after the connection is up closes it
\* (dialer.go:135, 149, 200, 205, 300, 306, 440, 446, 517-528).  Two things
\* VLESS and VMess have of their own: the port is cut to 16 bits (310, 450), and
\* the connection is left to the vendor's client if that fails (312, 452).
TargetOrNothing ==
  /\ dial.step = "open" =>
       /\ dial.raw = "open"
       /\ \/ SameTarget(dial.told, dial.target)
          \/ dial.node.entry.proto \in ByClient /\ ~InPortRange(dial.target.port)
  /\ dial.step = "failed" =>
       \/ dial.raw \in {"none", "closed"}
       \/ dial.node.entry.proto \in ByClient /\ dial.raw = "lent"

\* A reader gets every item of every message once and in order, however the
\* messages are cut and whatever the sizes of its buffers (conn_ws.go:25-56).
MessagesMakeAStream ==
  LET read == Len(stream.got)
      messages == DOMAIN stream.wire
  IN  /\ stream.got = Items(0, read)
      /\ \E end \in [{0} \cup messages -> read..stream.sent] :
           /\ \A k, m \in DOMAIN end : k <= m => end[k] <= end[m]
           /\ stream.rest = Items(read, end[0])
           /\ \A m \in messages : stream.wire[m] = Items(end[m - 1], end[m])
           /\ end[Len(stream.wire)] = stream.sent
=============================================================================
