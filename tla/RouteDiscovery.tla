--------------------------- MODULE RouteDiscovery ---------------------------
(***************************************************************************)
(* What the nodes of a network do with each other's routing packets:       *)
(* miniroute_helper and forward_packet of miniroute.c as network_handler   *)
(* calls them, with the broadcast of rebroadcast and the sending half of   *)
(* miniroute_send_pkt.  What the node that asks for the route does with    *)
(* the answer, and when it asks again, is module Miniroute.                *)
(*                                                                         *)
(* A discovery floods the network and collects the nodes it went through;  *)
(* the destination reverses the collected path and sends it back along     *)
(* itself; data then follows it forwards.  Nodes keep no state for others: *)
(* all there is is what is in flight.                                      *)
(*                                                                         *)
(* path[0 .. path_len] of a header is the sequence path here, of length    *)
(* path_len + 1; what lies beyond it in the array is the zero address.     *)
(* network_handler calls forward_packet twice, the second time on a packet *)
(* the first has sent on and freed: what comes of it is a second copy, or  *)
(* nothing, or the end of the forwarding process, which for a node without *)
(* state is what a network that duplicates and loses packets does.         *)
(***************************************************************************)
EXTENDS Integers, Sequences, FiniteSets, SequencesExt

CONSTANTS
    Nodes,
    Links,              \* pairs of neighbours, symmetric
    Origin, Dest,
    MAX_ROUTE_LENGTH,
    NoAddress,          \* the zero address
    MaxBroadcasts,      \* bound: discoveries begun
    MaxData,            \* bound: data packets sent
    MaxFaults           \* bound: packets lost or duplicated

ASSUME RouteDiscoveryAssumption ==
    /\ Links \subseteq Nodes \X Nodes
    /\ \A l \in Links : <<l[2], l[1]>> \in Links /\ l[1] # l[2]
    /\ Origin \in Nodes /\ Dest \in Nodes /\ Origin # Dest
    /\ NoAddress \notin Nodes
    /\ MAX_ROUTE_LENGTH \in Nat \ {0}
    /\ {MaxBroadcasts, MaxData, MaxFaults} \subseteq Nat

(* A path along links that meets no node twice.                             *)
IsWalk(path) ==
    /\ \A i \in 1 .. Len(path) - 1 : <<path[i], path[i + 1]>> \in Links
    /\ \A i, j \in DOMAIN path : path[i] = path[j] => i = j

(* No route has MAX_ROUTE_LENGTH hops: the destination of one writes its    *)
(* address beyond the end of the array, and what happens then is not        *)
(* modelled.                                                                *)
ASSUME RoutesFit ==
    \A path \in [1 .. MAX_ROUTE_LENGTH + 1 -> Nodes] :
        path[1] = Origin /\ path[MAX_ROUTE_LENGTH + 1] = Dest => ~IsWalk(path)

VARIABLES
    packets,        \* in flight: routing headers, each with its receiver
    routing_id,     \* discoveries begun
    routes,         \* the routes the origin was told of
    sent,           \* data packets sent
    faults

vars == <<packets, routing_id, routes, sent, faults>>

Neighbours(n) == {m \in Nodes : <<n, m>> \in Links}

(* network_bcast_pkt and network_send_pkt.                                  *)
Bcast(n, hdr) == {[at |-> m, hdr |-> hdr] : m \in Neighbours(n)}
Send(m, hdr) == IF m = NoAddress THEN {} ELSE {[at |-> m, hdr |-> hdr]}

Entry(path, i) == IF i \in DOMAIN path THEN path[i] ELSE NoAddress

(* Mutant: no node finds itself in a path.                                  *)
path_contains_self_Never(n, path) == FALSE

path_contains_self(n, path) == \E i \in DOMAIN path : path[i] = n

find_self(n, path) ==
    IF path_contains_self(n, path)
    THEN CHOOSE i \in DOMAIN path : path[i] = n /\ \A j \in 1 .. i - 1 : path[j] # n
    ELSE 0

(* Mutant: the loop ends one too early.                                     *)
reverse_path_Short(path) == Front(Reverse(path))

reverse_path(path) == Reverse(path)

-----------------------------------------------------------------------------
Init ==
    /\ packets = {}
    /\ routing_id = 0
    /\ routes = {}
    /\ sent = 0
    /\ faults = 0

(* rebroadcast: the discovery starts with the origin alone on its path.     *)
Rebroadcast ==
    /\ routing_id < MaxBroadcasts
    /\ routing_id' = routing_id + 1
    /\ packets' = packets \cup
          Bcast(Origin, [type |-> "DISCOVERY", destination |-> Dest, id |-> routing_id + 1,
                         ttl |-> MAX_ROUTE_LENGTH, path |-> <<Origin>>])
    /\ UNCHANGED <<routes, sent, faults>>

(* miniroute_send_pkt with a route it was told of: data goes to path[1].    *)
SendData ==
    /\ sent < MaxData
    /\ \E route \in routes :
          packets' = packets \cup
             Send(Entry(route, 2), [type |-> "DATA", destination |-> Dest, id |-> 0,
                                    ttl |-> MAX_ROUTE_LENGTH, path |-> route])
    /\ sent' = sent + 1
    /\ UNCHANGED <<routing_id, routes, faults>>

-----------------------------------------------------------------------------
(* Mutant: a forwarding node does not add itself to the path.               *)
Discovered_NoAppend(n, h) ==
    LET path == Append(h.path, n) IN
    IF h.destination = n
    THEN Send(Entry(reverse_path(path), 2),
              [type |-> "REPLY", destination |-> h.path[1], id |-> h.id,
               ttl |-> MAX_ROUTE_LENGTH, path |-> reverse_path(path)])
    ELSE IF h.ttl - 1 = 0 \/ path_contains_self(n, h.path)
         THEN {}
         ELSE Bcast(n, [h EXCEPT !.ttl = @ - 1])

(* What n sends on a discovery: the destination answers whatever the ttl,   *)
(* with its own address added to the path; another node forwards it unless  *)
(* the ttl is used up or the packet has been here.                          *)
Discovered(n, h) ==
    LET path == Append(h.path, n) IN
    IF h.destination = n
    THEN Send(Entry(reverse_path(path), 2),
              [type |-> "REPLY", destination |-> h.path[1], id |-> h.id,
               ttl |-> MAX_ROUTE_LENGTH, path |-> reverse_path(path)])
    ELSE IF h.ttl - 1 = 0 \/ path_contains_self(n, h.path)
         THEN {}
         ELSE Bcast(n, [h EXCEPT !.ttl = @ - 1, !.path = path])

(* Mutant: the reply goes back to the node it came from.                    *)
Replied_Back(n, h) ==
    IF h.destination = n \/ h.ttl - 1 = 0
    THEN {}
    ELSE Send(Entry(h.path, find_self(n, h.path) - 1), [h EXCEPT !.ttl = @ - 1])

(* What n sends on a reply to another: the same, to the next on the path.   *)
Replied(n, h) ==
    IF h.destination = n \/ h.ttl - 1 = 0
    THEN {}
    ELSE Send(Entry(h.path, find_self(n, h.path) + 1), [h EXCEPT !.ttl = @ - 1])

(* forward_packet: the ttl is counted down and not tested; TypeOK shows     *)
(* that the unsigned counter never wraps.                                   *)
forward_packet(n, h) ==
    IF h.destination = n
    THEN {}
    ELSE Send(Entry(h.path, find_self(n, h.path) + 1),
              [h EXCEPT !.ttl = @ - 1])

(* network_handler: by the type of the packet.                              *)
Answer(p) ==
    CASE p.hdr.type = "DISCOVERY" -> Discovered(p.at, p.hdr)
      [] p.hdr.type = "REPLY" -> Replied(p.at, p.hdr)
      [] p.hdr.type = "DATA" -> forward_packet(p.at, p.hdr)

(* The reply that reaches the node it is for gives it the reversed path.    *)
Told(p) ==
    IF p.hdr.type = "REPLY" /\ p.hdr.destination = p.at
    THEN {reverse_path(p.hdr.path)} ELSE {}

Deliver(p) ==
    /\ p \in packets
    /\ packets' = (packets \ {p}) \cup Answer(p)
    /\ routes' = routes \cup Told(p)
    /\ UNCHANGED <<routing_id, sent, faults>>

Duplicate(p) ==
    /\ p \in packets
    /\ faults < MaxFaults
    /\ packets' = packets \cup Answer(p)
    /\ routes' = routes \cup Told(p)
    /\ faults' = faults + 1
    /\ UNCHANGED <<routing_id, sent>>

Lose(p) ==
    /\ p \in packets
    /\ faults < MaxFaults
    /\ packets' = packets \ {p}
    /\ faults' = faults + 1
    /\ UNCHANGED <<routing_id, routes, sent>>

Next ==
    \/ Rebroadcast
    \/ SendData
    \/ \E p \in packets : Deliver(p) \/ Duplicate(p) \/ Lose(p)

Spec == Init /\ [][Next]_vars

(* What the network does not lose it delivers.                              *)
FairSpec == Spec /\ WF_vars(\E p \in packets : Deliver(p))

-----------------------------------------------------------------------------
(* Properties.                                                              *)

OfType(type) == {p \in packets : p.hdr.type = type}

Header ==
    [type : {"DISCOVERY", "REPLY", "DATA"}, destination : {Origin, Dest},
     id : 0 .. MaxBroadcasts, ttl : 1 .. MAX_ROUTE_LENGTH, path : Seq(Nodes)]

(* Typing; no ttl in flight is 0.                                           *)
TypeOK ==
    /\ packets \subseteq [at : Nodes, hdr : Header]
    /\ routing_id \in 0 .. MaxBroadcasts
    /\ routes \subseteq Seq(Nodes)

(* A discovery has collected a walk from the origin, as long as its ttl     *)
(* says, to a neighbour of the node it is about to reach; with the ttl used *)
(* up or a node met twice it goes nowhere.  So the flood dies out, and the  *)
(* path fits into the array of MAX_ROUTE_LENGTH addresses.                  *)
DiscoveriesCollectWalks ==
    \A p \in OfType("DISCOVERY") :
        LET path == p.hdr.path IN
        /\ path[1] = Origin
        /\ IsWalk(path)
        /\ <<Last(path), p.at>> \in Links
        /\ p.hdr.ttl = MAX_ROUTE_LENGTH - (Len(path) - 1)
        /\ Len(path) <= MAX_ROUTE_LENGTH

(* A reply or a data packet is at a node of its path, one link behind the   *)
(* next, as many hops from its sender as its ttl says: it is never sent to  *)
(* nobody, in a circle, or dropped for its ttl, although only its path      *)
(* guides it (forward_packet would forward it for ever).                    *)
PacketsOnCourse ==
    \A p \in OfType("REPLY") \cup OfType("DATA") :
        LET path == p.hdr.path IN
        /\ IsWalk(path)
        /\ Last(path) = p.hdr.destination
        /\ \E i \in 2 .. Len(path) :
              path[i] = p.at /\ p.hdr.ttl = MAX_ROUTE_LENGTH - (i - 2)

(* The origin is told only of walks from itself to the destination.         *)
RoutesAreReal ==
    \A route \in routes :
        IsWalk(route) /\ route[1] = Origin /\ Last(route) = Dest

(* If nothing gets lost, a broadcast tells the origin of a route.           *)
RouteIsFound == routing_id > 0 ~> (routes # {} \/ faults > 0)

=============================================================================
