----------------------------- MODULE MCOutbound -----------------------------
(***************************************************************************)
(* The entries are a plain one, its repetition with another cipher, one    *)
(* that differs in name only, unnamed ones, one without a port, notices,   *)
(* protocols that no dialer or no link knows, what a client refuses.  Any  *)
(* list of up to two of them comes in four ways: as YAML, as base64 of     *)
(* links, as YAML in base64, and as links in a text that looks like YAML.  *)
(***************************************************************************)
EXTENDS Outbound

E(proto, port, secret, method, network, name) ==
  [proto |-> proto, server |-> "host", port |-> port, secret |-> secret,
   method |-> method, network |-> network, name |-> name, notice |-> "no"]

Plain == E("shadowsocks", 443, "key", "known", "tcp", <<"a">>)

Entries ==
  { Plain,
    [Plain EXCEPT !.method = "odd"],
    [Plain EXCEPT !.name = <<"b">>],
    [Plain EXCEPT !.port = 0],
    [Plain EXCEPT !.notice = "plain"],
    E("trojan", 0, "key", "known", "ws", Unnamed),
    E("trojan", 443, "key", "known", "ws", Unnamed),
    [E("vmess", 443, "no uuid", "known", "ws", <<"a">>) EXCEPT !.notice = "plain"],
    E("vmess", 443, "no uuid", "odd", "tcp", <<"a">>),
    E("vless", 443, "no uuid", "known", "tcp", <<"a">>),
    [E("vless", 65979, "key", "known", "tcp", <<"a">>) EXCEPT !.server = ""],
    E("http", 0, "key", "known", "tcp", Unnamed),
    E("socks5", 1080, "key", "known", "tcp", <<"a">>),
    E("hysteria2", 443, "key", "known", "tcp", <<"a">>),
    E("unknown", 443, "key", "known", "tcp", <<"a">>) }

Lists == {<<>>} \cup {<<a>> : a \in Entries} \cup {<<a, b>> : a, b \in Entries}

Text(marked, proxies, lines) == [marked |-> marked, proxies |-> proxies, lines |-> lines]
Empty == Text(FALSE, <<>>, <<>>)

MCBodies ==
  UNION {{ [text |-> Text(TRUE, l, <<>>), decoded |-> Empty],
           [text |-> Empty, decoded |-> Text(FALSE, <<>>, l)],
           [text |-> Empty, decoded |-> Text(TRUE, l, <<>>)],
           [text |-> Text(TRUE, <<>>, l), decoded |-> Empty] } : l \in Lists}

T(form, len, port) == [form |-> form, len |-> len, port |-> port]

MCTargets ==
  { T("name", 11, 443), T("name", 300, 443), T("ip4", 0, 255), T("ip6", 0, 256),
    T("mapped", 0, 65535), T("name", 11, 65979), T("ip4", 0, 0), T("name", 11, -1),
    T("unsplit", 0, 443) }
=============================================================================
