-------------------------- MODULE MCRouteDiscovery --------------------------
(* An instance of RouteDiscovery for TLC: two routes of two hops, by a and b, *)
(* and two of four hops by c, at whose last node the ttl is used up.          *)
EXTENDS RouteDiscovery, TLC

CONSTANTS o, a, b, c, d

MCNodes == {o, a, b, c, d}
MCEdges == {<<o, a>>, <<o, b>>, <<a, d>>, <<b, d>>, <<a, c>>, <<b, c>>}
MCLinks == MCEdges \cup {<<e[2], e[1]>> : e \in MCEdges}

=============================================================================
