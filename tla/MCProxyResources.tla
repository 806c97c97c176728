-------------------------- MODULE MCProxyResources --------------------------
(* ProxyResources on pairs of clients that compete for ports, routes,      *)
(* names and groups.  Each menu is one situation.                          *)
EXTENDS ProxyResources, TLC

CONSTANTS c1, c2

Conf(name, kind, port, domains, group, key) ==
  [name |-> name, kind |-> kind, port |-> port, domains |-> domains,
   locations |-> <<>>, group |-> group, groupKey |-> key]
Tcp(name, port)        == Conf(name, "tcp", port, <<>>, None, None)
Udp(name, port)        == Conf(name, "udp", port, <<>>, None, None)
TcpIn(name, port, key) == Conf(name, "tcp", port, <<>>, "g", key)
Vhost(name, kind, domains)      == Conf(name, kind, "", domains, None, None)
VhostIn(name, kind, domains, k) == Conf(name, kind, "", domains, "g", k)
Plain(name, kind)      == Conf(name, kind, "", <<>>, None, None)

Menu(first, second) == (c1 :> first) @@ (c2 :> second)

MCMenus == {
  \* ports, named and chosen by the server, and one name on two clients
  Menu({Tcp("x", "p1"), Udp("u", "p1")}, {Tcp("x", "any"), Tcp("y", "p1")}),
  \* a group of TCP proxies, one with another key, and a proxy that wants its port
  Menu({TcpIn("x", "p1", "k"), Tcp("z", "p1")}, {TcpIn("y", "p1", "k"), TcpIn("w", "any", "l")}),
  \* ... with two UDP proxies that have one port in turn
  Menu({TcpIn("x", "p1", "k"), Udp("v", "p1")}, {TcpIn("x", "p1", "k"), Udp("u", "p1")}),
  \* routes: two of one proxy, with a competitor for the second
  Menu({Vhost("x", "http", <<"a", "b">>)}, {Vhost("y", "http", <<"b">>), Vhost("x", "https", <<"a">>)}),
  \* HTTP groups with two routes, against a proxy outside the group
  Menu({VhostIn("x", "http", <<"a", "b">>, "k")},
       {VhostIn("y", "http", <<"b">>, "k"), Vhost("z", "http", <<"a">>)}),
  Menu({VhostIn("x", "http", <<"a">>, "k")},
       {VhostIn("x", "http", <<"a">>, "k"), VhostIn("y", "http", <<"a">>, "l")}),
  \* tcpmux groups and routes
  Menu({VhostIn("x", "tcpmux", <<"a">>, "k"), Vhost("z", "tcpmux", <<"b", "a">>)},
       {VhostIn("y", "tcpmux", <<"a">>, "k"), VhostIn("w", "tcpmux", <<"b">>, "k")}),
  \* a domain named twice is two listeners of one group, and two domains need two groups
  Menu({VhostIn("x", "tcpmux", <<"a", "b">>, "k")}, {VhostIn("x", "tcpmux", <<"a", "a">>, "k")}),
  \* secret listeners and NAT-hole clients of one name
  Menu({Plain("x", "stcp"), Plain("y", "xtcp")}, {Plain("x", "sudp"), Plain("y", "xtcp")})
}
=============================================================================
