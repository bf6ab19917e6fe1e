------------------------------- MODULE Parser -------------------------------
(***************************************************************************)
(* pkg/parser/parser.go: from the text of a subscription to its nodes, as  *)
(* operators on a value.                                                   *)
(*                                                                         *)
(* An entry is what a provider writes for one node, be it a proxy of a     *)
(* Clash file or a link.  Its method is the cipher of Shadowsocks and      *)
(* VMess and the flow of VLESS, "odd" if no client of this program accepts *)
(* it; its notice says whether its name is a message to the user ("no" if  *)
(* it is not) that the raw line shows ("plain") or hides behind an         *)
(* encoding ("encoded").  Port 0 is no port or no number.                  *)
(*                                                                         *)
(* A text has the markers of YAML or not, the proxies of its YAML (none if *)
(* it is broken) and its lines.  A body is a text and what it decodes to   *)
(* as base64: the empty text if it does not.                               *)
(*                                                                         *)
(* The nodes parsed are a function on the places of the entries that were  *)
(* accepted: a sequence in which the others leave gaps.                    *)
(***************************************************************************)
EXTENDS Integers, Sequences

LinkProtocols == {"trojan", "shadowsocks", "vmess", "vless", "socks5", "http"}
ClashProtocols == LinkProtocols \cup {"hysteria2", "anytls"}

\* A given name has one part; a generated one is its parts.
Unnamed == <<>>

\* Mutant: without the name.
generateNodeIDNoName(entry, port, name) ==
  <<entry.proto, entry.server, port, entry.secret>>

\* The hash of the fields is the fields: no two strings have the same one.
\* The subscription's ID is the same for all nodes here.
generateNodeID(entry, port, name) ==
  <<entry.proto, entry.server, port, entry.secret, name>>

\* A node: what its entry says, the port and the name completed, and the ID.
\* The entry stands for the other fields.
Node(entry, port, name) ==
  [id |-> generateNodeID(entry, port, name), entry |-> entry, port |-> port, name |-> name]

-----------------------------------------------------------------------------
(* Clash *)

MaxPort == 65535

ClashAccepts(entry) ==
  /\ entry.server # ""
  /\ entry.port \in 1..MaxPort
  /\ entry.proto \in ClashProtocols
  /\ entry.notice = "no"

\* Mutant: a name from the position for each proxy.
ClashNameNumbered(entry, idx) ==
  IF entry.name = Unnamed THEN <<entry.proto, idx>> ELSE entry.name \o <<idx>>

ClashName(entry, idx) ==
  IF entry.name = Unnamed THEN <<entry.proto, idx>> ELSE entry.name

convertClashProxyToNode(entry, idx) == Node(entry, entry.port, ClashName(entry, idx))

\* Nothing at all unless the text looks like YAML.
parseClashYAML(text) ==
  [i \in {k \in DOMAIN text.proxies : text.marked /\ ClashAccepts(text.proxies[k])} |->
     convertClashProxyToNode(text.proxies[i], i)]

-----------------------------------------------------------------------------
(* Links *)

DefaultPort == [trojan |-> 443, vless |-> 443, socks5 |-> 1080, http |-> 8080]

LinkPort(entry) ==
  IF entry.port = 0 /\ entry.proto \in DOMAIN DefaultPort
  THEN DefaultPort[entry.proto]
  ELSE entry.port

\* The name of a vmess link is always encoded.  There is no upper bound on the
\* port, and four of the protocols do not ask for a server.
LinkAccepts(entry) ==
  /\ entry.proto \in LinkProtocols
  /\ entry.notice = "plain" => entry.proto = "vmess"
  /\ entry.proto \in {"shadowsocks", "vmess"} => entry.server # "" /\ entry.port > 0

LinkName(entry) ==
  IF entry.name = Unnamed THEN <<entry.proto, entry.server, LinkPort(entry)>> ELSE entry.name

parseSingleURI(entry) == Node(entry, LinkPort(entry), LinkName(entry))

parseURILines(text) ==
  [i \in {k \in DOMAIN text.lines : LinkAccepts(text.lines[k])} |->
     parseSingleURI(text.lines[i])]

-----------------------------------------------------------------------------
\* The ways a body is read, in this order.
Readings(body) ==
  << [format |-> "clash",  nodes |-> parseClashYAML(body.text)],
     [format |-> "clash",  nodes |-> parseClashYAML(body.decoded)],
     [format |-> "base64", nodes |-> parseURILines(body.decoded)],
     [format |-> "links",  nodes |-> parseURILines(body.text)] >>

Fails == [format |-> "unknown", nodes |-> <<>>]

HasNodes(reading) == reading.nodes # <<>>

\* The first reading with a node.
ParseContent(body) ==
  LET found == {i \in 1..4 : HasNodes(Readings(body)[i])}
  IN  IF found = {}
      THEN Fails
      ELSE Readings(body)[CHOOSE i \in found : \A j \in found : i <= j]
=============================================================================
