------------------------- MODULE RouteDiscoveryProofs -------------------------
(***************************************************************************)
(* Theorems about RouteDiscovery, for every network: whatever is in flight *)
(* is on a walk of the network and where its ttl says it is.               *)
(*                                                                         *)
(* The strengthening of the properties is that no discovery has been       *)
(* forwarded by the destination, and that paths have at most one node more *)
(* than MAX_ROUTE_LENGTH, so that no ttl is used up on the way back.       *)
(***************************************************************************)
EXTENDS RouteDiscovery, SequenceTheorems, TLAPS

-----------------------------------------------------------------------------
(* Walks.                                                                   *)

LEMMA WalkAppend ==
    ASSUME NEW path \in Seq(Nodes), path # <<>>, IsWalk(path),
           NEW n \in Nodes, <<Last(path), n>> \in Links,
           \A i \in DOMAIN path : path[i] # n
    PROVE  LET longer == Append(path, n) IN
           /\ longer \in Seq(Nodes) /\ Len(longer) = Len(path) + 1
           /\ IsWalk(longer)
           /\ longer[1] = path[1] /\ longer[Len(longer)] = n
  <1> DEFINE longer == Append(path, n)
  <1>1. /\ longer \in Seq(Nodes) /\ Len(longer) = Len(path) + 1
        /\ \A i \in 1 .. Len(path) : longer[i] = path[i]
        /\ longer[Len(path) + 1] = n
    BY AppendProperties
  <1>2. /\ Len(path) \in Nat \ {0}
        /\ DOMAIN path = 1 .. Len(path)
        /\ DOMAIN longer = 1 .. Len(path) + 1
    BY <1>1, LenProperties, EmptySeq
  <1> HIDE DEF longer
  <1>3. ASSUME NEW i \in 1 .. Len(longer) - 1
        PROVE  <<longer[i], longer[i + 1]>> \in Links
    <2>1. CASE i = Len(path)
      <3>1. longer[i] = path[Len(path)] /\ longer[i + 1] = n
        BY <1>1, <1>2, <2>1
      <3> QED  BY <3>1 DEF Last
    <2>2. CASE i # Len(path)
      <3>1. i \in 1 .. Len(path) - 1 /\ i + 1 \in 1 .. Len(path) /\ i \in 1 .. Len(path)
        <4>1. Len(longer) - 1 = Len(path)
          BY <1>1, <1>2
        <4>2. i \in 1 .. Len(path)
          BY <4>1
        <4>3. \A l \in Nat : \A k \in 1 .. l : k # l => k \in 1 .. l - 1 /\ k + 1 \in 1 .. l
          OBVIOUS
        <4> QED  BY <1>2, <2>2, <4>2, <4>3
      <3>2. longer[i] = path[i] /\ longer[i + 1] = path[i + 1]
        BY <1>1, <3>1
      <3> QED  BY <3>1, <3>2 DEF IsWalk
    <2> QED  BY <2>1, <2>2
  <1>4. ASSUME NEW i \in DOMAIN longer, NEW j \in DOMAIN longer, longer[i] = longer[j]
        PROVE  i = j
    BY <1>1, <1>2, <1>4 DEF IsWalk
  <1>5. longer[1] = path[1] /\ longer[Len(longer)] = n
    BY <1>1, <1>2
  <1> QED  BY <1>1, <1>3, <1>4, <1>5 DEF IsWalk, longer

LEMMA WalkReverse ==
    ASSUME NEW path \in Seq(Nodes), path # <<>>, IsWalk(path)
    PROVE  LET back == reverse_path(path) IN
           /\ back \in Seq(Nodes) /\ Len(back) = Len(path)
           /\ IsWalk(back)
           /\ back[1] = path[Len(path)] /\ back[Len(back)] = path[1]
           /\ Len(path) > 1 => back[2] = path[Len(path) - 1]
  <1> DEFINE back == reverse_path(path)
  <1>1. Len(path) \in Nat \ {0} /\ DOMAIN path = 1 .. Len(path)
    BY LenProperties, EmptySeq
  <1>2. back = [i \in 1 .. Len(path) |-> path[Len(path) - i + 1]]
    BY DEF reverse_path, Reverse
  <1>3. \A i \in 1 .. Len(path) : Len(path) - i + 1 \in 1 .. Len(path)
    BY <1>1
  <1>4. back \in [1 .. Len(path) -> Nodes]
    <2>1. \A i \in 1 .. Len(path) : path[Len(path) - i + 1] \in Nodes
      BY <1>3, ElementOfSeq
    <2> QED  BY <1>2, <2>1
  <1>5. back \in Seq(Nodes) /\ Len(back) = Len(path) /\ DOMAIN back = 1 .. Len(path)
    BY <1>1, <1>4
  <1>6. \A i \in 1 .. Len(path) : back[i] = path[Len(path) - i + 1]
    BY <1>2
  <1> HIDE DEF back
  <1>7. ASSUME NEW i \in 1 .. Len(back) - 1
        PROVE  <<back[i], back[i + 1]>> \in Links
    <2> DEFINE j == Len(path) - i
    <2>1. j \in 1 .. Len(path) - 1 /\ i \in 1 .. Len(path) /\ i + 1 \in 1 .. Len(path)
      BY <1>1, <1>5
    <2>2. back[i] = path[j + 1] /\ back[i + 1] = path[j]
      <3>1. Len(path) - i + 1 = j + 1 /\ Len(path) - (i + 1) + 1 = j
        BY <1>1, <2>1
      <3> QED  BY <1>6, <2>1, <3>1
    <2>3. <<path[j], path[j + 1]>> \in Links
      BY <2>1 DEF IsWalk
    <2> QED  BY <2>2, <2>3, RouteDiscoveryAssumption DEF RouteDiscoveryAssumption
  <1>8. ASSUME NEW i \in DOMAIN back, NEW j \in DOMAIN back, back[i] = back[j]
        PROVE  i = j
    <2>1. Len(path) - i + 1 = Len(path) - j + 1
      BY <1>1, <1>3, <1>5, <1>6, <1>8 DEF IsWalk
    <2> QED  BY <1>1, <1>5, <2>1
  <1>9. back[1] = path[Len(path)] /\ back[Len(back)] = path[1]
    BY <1>1, <1>5, <1>6
  <1>10. Len(path) > 1 => back[2] = path[Len(path) - 1]
    BY <1>1, <1>6
  <1> QED  BY <1>5, <1>7, <1>8, <1>9, <1>10 DEF IsWalk, back

(* A node finds itself where it is on the path.                             *)
LEMMA FindSelf ==
    ASSUME NEW path \in Seq(Nodes), IsWalk(path), NEW i \in DOMAIN path
    PROVE  find_self(path[i], path) = i
  <1>1. DOMAIN path = 1 .. Len(path) /\ Len(path) \in Nat
    BY LenProperties
  <1>2. path_contains_self(path[i], path)
    BY DEF path_contains_self
  <1>3. \A j \in 1 .. i - 1 : path[j] # path[i]
    BY <1>1 DEF IsWalk
  <1>4. \A k \in DOMAIN path : path[k] = path[i] => k = i
    BY DEF IsWalk
  <1> QED  BY <1>2, <1>3, <1>4 DEF find_self

-----------------------------------------------------------------------------
(* The invariant, packet by packet.                                         *)

IsRoute(path, from, to) ==
    /\ path \in Seq(Nodes) /\ path # <<>>
    /\ IsWalk(path)
    /\ path[1] = from /\ path[Len(path)] = to
    /\ Len(path) <= MAX_ROUTE_LENGTH + 1

Collecting(p) ==
    LET path == p.hdr.path IN
    /\ p.hdr.destination = Dest
    /\ path # <<>> /\ path[1] = Origin
    /\ IsWalk(path)
    /\ <<Last(path), p.at>> \in Links
    /\ p.hdr.ttl = MAX_ROUTE_LENGTH - (Len(path) - 1)
    /\ Len(path) <= MAX_ROUTE_LENGTH
    /\ \A i \in DOMAIN path : path[i] # Dest

OnCourse(p, from, to) ==
    LET path == p.hdr.path IN
    /\ p.hdr.destination = to
    /\ IsRoute(path, from, to)
    /\ \E i \in 2 .. Len(path) :
          path[i] = p.at /\ p.hdr.ttl = MAX_ROUTE_LENGTH - (i - 2)

Good(p) ==
    /\ p \in [at : Nodes, hdr : Header]
    /\ p.hdr.type = "DISCOVERY" => Collecting(p)
    /\ p.hdr.type = "REPLY" => OnCourse(p, Dest, Origin)
    /\ p.hdr.type = "DATA" => OnCourse(p, Origin, Dest)

IInv ==
    /\ \A p \in packets : Good(p)
    /\ routing_id \in 0 .. MaxBroadcasts
    /\ \A route \in routes : IsRoute(route, Origin, Dest)

-----------------------------------------------------------------------------
(* What is sent along a route from its first node is on course.             *)
LEMMA FirstHop ==
    ASSUME NEW path, NEW from \in Nodes, NEW to \in {Origin, Dest}, from # to,
           IsRoute(path, from, to),
           NEW type \in {"REPLY", "DATA"}, NEW id \in 0 .. MaxBroadcasts,
           NEW q \in Send(Entry(path, 2), [type |-> type, destination |-> to, id |-> id,
                                           ttl |-> MAX_ROUTE_LENGTH, path |-> path])
    PROVE  /\ q \in [at : Nodes, hdr : Header]
           /\ q.hdr.type = type
           /\ OnCourse(q, from, to)
  <1> DEFINE hdr == [type |-> type, destination |-> to, id |-> id,
                     ttl |-> MAX_ROUTE_LENGTH, path |-> path]
  <1>1. Len(path) \in Nat /\ DOMAIN path = 1 .. Len(path) /\ path \in Seq(Nodes)
    BY LenProperties DEF IsRoute
  <1>2. 2 \in 1 .. Len(path)
    BY <1>1, EmptySeq DEF IsRoute
  <1>3. path[2] \in Nodes
    BY <1>1, <1>2, ElementOfSeq
  <1>4. q = [at |-> path[2], hdr |-> hdr]
    BY <1>1, <1>2 DEF Send, Entry
  <1>5. hdr \in Header
    BY <1>1, RouteDiscoveryAssumption DEF Header, RouteDiscoveryAssumption
  <1>6. q.hdr.ttl = MAX_ROUTE_LENGTH - (2 - 2)
    BY <1>4, RouteDiscoveryAssumption DEF RouteDiscoveryAssumption
  <1>7. 2 \in 2 .. Len(path)
    BY <1>1, <1>2
  <1>8. q.hdr.path = path /\ q.hdr.destination = to /\ q.at = path[2]
    BY <1>4
  <1>9. OnCourse(q, from, to)
    BY <1>6, <1>7, <1>8 DEF OnCourse
  <1> QED  BY <1>3, <1>4, <1>5, <1>9

(* And so is what the next nodes forward.                                   *)
LEMMA NextHop ==
    ASSUME NEW p, NEW from \in Nodes, NEW to \in {Origin, Dest},
           p \in [at : Nodes, hdr : Header], OnCourse(p, from, to),
           p.hdr.destination # p.at,
           NEW q \in Send(Entry(p.hdr.path, find_self(p.at, p.hdr.path) + 1),
                          [p.hdr EXCEPT !.ttl = @ - 1])
    PROVE  /\ q \in [at : Nodes, hdr : Header]
           /\ q.hdr.type = p.hdr.type
           /\ OnCourse(q, from, to)
  <1> DEFINE path == p.hdr.path
  <1>1. PICK i \in 2 .. Len(path) : path[i] = p.at /\ p.hdr.ttl = MAX_ROUTE_LENGTH - (i - 2)
    BY DEF OnCourse
  <1>2. /\ Len(path) \in Nat /\ DOMAIN path = 1 .. Len(path) /\ path \in Seq(Nodes)
        /\ IsWalk(path) /\ path[Len(path)] = to /\ Len(path) <= MAX_ROUTE_LENGTH + 1
        /\ p.hdr.destination = to
    BY LenProperties DEF OnCourse, IsRoute
  <1>3. i \in DOMAIN path /\ i # Len(path)
    BY <1>1, <1>2
  <1>4. i + 1 \in 2 .. Len(path) /\ i + 1 \in DOMAIN path
    BY <1>1, <1>2, <1>3
  <1>5. find_self(p.at, path) = i
    BY <1>1, <1>2, <1>3, FindSelf
  <1>6. path[i + 1] \in Nodes
    BY <1>2, <1>4, ElementOfSeq
  <1>7. q = [at |-> path[i + 1], hdr |-> [p.hdr EXCEPT !.ttl = @ - 1]]
    BY <1>4, <1>5 DEF Send, Entry
  <1>8. /\ MAX_ROUTE_LENGTH \in Nat
        /\ p.hdr.ttl \in 1 .. MAX_ROUTE_LENGTH /\ p.hdr \in Header
    BY RouteDiscoveryAssumption DEF RouteDiscoveryAssumption, Header
  <1>9. p.hdr.ttl - 1 \in 1 .. MAX_ROUTE_LENGTH /\ p.hdr.ttl - 1 = MAX_ROUTE_LENGTH - ((i + 1) - 2)
    <2>1. PICK l \in Nat, m \in Nat : l = Len(path) /\ m = MAX_ROUTE_LENGTH
      BY <1>2, <1>8
    <2>2. i \in 2 .. l - 1 /\ l <= m + 1
      BY <1>2, <1>3, <2>1
    <2>3. p.hdr.ttl = m - (i - 2)
      BY <1>1, <2>1
    <2>4. m - (i - 2) - 1 \in 1 .. m /\ m - (i - 2) - 1 = m - ((i + 1) - 2)
      BY <2>2
    <2> QED
      BY <2>1, <2>3, <2>4
  <1>10. /\ q.hdr \in Header
         /\ q.hdr.ttl = p.hdr.ttl - 1
         /\ q.hdr.path = path /\ q.hdr.type = p.hdr.type /\ q.hdr.destination = to
         /\ q.at = path[i + 1]
    BY <1>2, <1>7, <1>8, <1>9 DEF Header
  <1>11. OnCourse(q, from, to)
    BY <1>4, <1>9, <1>10 DEF OnCourse
  <1> QED  BY <1>6, <1>7, <1>10, <1>11

LEMMA AnswersAreGood ==
    ASSUME NEW p, Good(p), NEW q \in Answer(p)
    PROVE  Good(q)
  <1> DEFINE n == p.at
             h == p.hdr
             path == p.hdr.path
  <1>1. /\ n \in Nodes /\ h \in Header
        /\ h.type \in {"DISCOVERY", "REPLY", "DATA"} /\ h.id \in 0 .. MaxBroadcasts
        /\ h.ttl \in 1 .. MAX_ROUTE_LENGTH /\ path \in Seq(Nodes)
        /\ p \in [at : Nodes, hdr : Header]
    BY DEF Good, Header
  <1>2. CASE h.type = "DISCOVERY"
    <2>1. q \in Discovered(n, h) /\ Collecting(p)
      BY <1>2 DEF Answer, Good
    <2>2. /\ path # <<>> /\ path[1] = Origin /\ IsWalk(path)
          /\ <<Last(path), n>> \in Links /\ h.destination = Dest
          /\ Len(path) <= MAX_ROUTE_LENGTH /\ \A i \in DOMAIN path : path[i] # Dest
          /\ h.ttl = MAX_ROUTE_LENGTH - (Len(path) - 1)
      BY <2>1 DEF Collecting
    <2>3. /\ Len(path) \in Nat \ {0} /\ DOMAIN path = 1 .. Len(path)
          /\ MAX_ROUTE_LENGTH \in Nat
      BY <1>1, <2>2, LenProperties, EmptySeq, RouteDiscoveryAssumption DEF RouteDiscoveryAssumption
    <2>4. CASE h.destination = n
      <3> DEFINE longer == Append(path, n)
                 back == reverse_path(longer)
      <3>1. /\ longer \in Seq(Nodes) /\ Len(longer) = Len(path) + 1
            /\ IsWalk(longer) /\ longer[1] = Origin /\ longer[Len(longer)] = Dest
        BY <1>1, <2>2, <2>4, WalkAppend
      <3>2. longer # <<>>
        BY <3>1, <2>3, EmptySeq
      <3> HIDE DEF longer
      <3>3. /\ back \in Seq(Nodes) /\ Len(back) = Len(longer) /\ IsWalk(back)
            /\ back[1] = Dest /\ back[Len(back)] = Origin
        BY <3>1, <3>2, WalkReverse
      <3>4. back # <<>>
        BY <2>3, <3>1, <3>3, EmptySeq
      <3>5. IsRoute(back, Dest, Origin)
        BY <2>2, <2>3, <3>1, <3>3, <3>4 DEF IsRoute
      <3>6. q \in Send(Entry(back, 2),
                       [type |-> "REPLY", destination |-> Origin, id |-> h.id,
                        ttl |-> MAX_ROUTE_LENGTH, path |-> back])
        BY <2>1, <2>2, <2>4 DEF Discovered, longer
      <3> HIDE DEF back
      <3>7. /\ q \in [at : Nodes, hdr : Header] /\ q.hdr.type = "REPLY"
            /\ OnCourse(q, Dest, Origin)
        BY <1>1, <3>5, <3>6, FirstHop, RouteDiscoveryAssumption DEF RouteDiscoveryAssumption
      <3> QED  BY <3>7 DEF Good
    <2>5. CASE h.destination # n
      <3> DEFINE longer == Append(path, n)
                 hdr == [h EXCEPT !.ttl = @ - 1, !.path = longer]
      <3>1. h.ttl - 1 # 0 /\ ~path_contains_self(n, path) /\ q \in Bcast(n, hdr)
        BY <2>1, <2>5 DEF Discovered
      <3>2. \A i \in DOMAIN path : path[i] # n
        BY <3>1 DEF path_contains_self
      <3>3. /\ longer \in Seq(Nodes) /\ Len(longer) = Len(path) + 1
            /\ IsWalk(longer) /\ longer[1] = Origin /\ longer[Len(longer)] = n
        BY <1>1, <2>2, <3>2, WalkAppend
      <3>4. longer # <<>> /\ DOMAIN longer = 1 .. Len(path) + 1
        BY <2>3, <3>3, EmptySeq, LenProperties
      <3>5. \A i \in DOMAIN longer : longer[i] # Dest
        <4>1. \A i \in 1 .. Len(path) : longer[i] = path[i]
          BY <1>1, AppendProperties
        <4> QED  BY <2>2, <2>3, <2>5, <3>3, <3>4, <4>1
      <3> HIDE DEF longer
      <3>6. PICK m \in Neighbours(n) : q = [at |-> m, hdr |-> hdr]
        BY <3>1 DEF Bcast
      <3>7. m \in Nodes /\ <<n, m>> \in Links
        BY <3>6 DEF Neighbours
      <3>8. h.ttl - 1 \in 1 .. MAX_ROUTE_LENGTH
        BY <1>1, <2>3, <3>1
      <3>9. /\ hdr \in Header
            /\ hdr.ttl = h.ttl - 1 /\ hdr.path = longer /\ hdr.type = "DISCOVERY"
            /\ hdr.destination = Dest
        BY <1>1, <1>2, <2>2, <3>3, <3>8 DEF Header
      <3> HIDE DEF hdr
      <3>10. q.at = m /\ q.hdr = hdr /\ q \in [at : Nodes, hdr : Header]
        BY <3>6, <3>7, <3>9
      <3>11. /\ hdr.ttl = MAX_ROUTE_LENGTH - (Len(longer) - 1)
             /\ Len(longer) <= MAX_ROUTE_LENGTH
        BY <2>2, <2>3, <3>3, <3>8, <3>9
      <3>12. <<Last(longer), m>> \in Links
        BY <3>3, <3>7 DEF Last
      <3>13. Collecting(q)
        BY <3>3, <3>4, <3>5, <3>9, <3>10, <3>11, <3>12 DEF Collecting
      <3> QED  BY <3>9, <3>10, <3>13 DEF Good
    <2> QED  BY <2>4, <2>5
  <1>3. CASE h.type = "REPLY"
    <2>1. q \in Replied(n, h) /\ OnCourse(p, Dest, Origin)
      BY <1>3 DEF Answer, Good
    <2>2. h.destination # n /\ q \in Send(Entry(path, find_self(n, path) + 1), [h EXCEPT !.ttl = @ - 1])
      BY <2>1 DEF Replied
    <2>3. /\ q \in [at : Nodes, hdr : Header] /\ q.hdr.type = "REPLY"
          /\ OnCourse(q, Dest, Origin)
      BY <1>1, <1>3, <2>1, <2>2, NextHop, RouteDiscoveryAssumption DEF RouteDiscoveryAssumption
    <2> QED  BY <2>3 DEF Good
  <1>4. CASE h.type = "DATA"
    <2>1. q \in forward_packet(n, h) /\ OnCourse(p, Origin, Dest)
      BY <1>4 DEF Answer, Good
    <2>2. h.destination # n /\ q \in Send(Entry(path, find_self(n, path) + 1), [h EXCEPT !.ttl = @ - 1])
      BY <2>1 DEF forward_packet
    <2>3. /\ q \in [at : Nodes, hdr : Header] /\ q.hdr.type = "DATA"
          /\ OnCourse(q, Origin, Dest)
      BY <1>1, <1>4, <2>1, <2>2, NextHop, RouteDiscoveryAssumption DEF RouteDiscoveryAssumption
    <2> QED  BY <2>3 DEF Good
  <1> QED  BY <1>1, <1>2, <1>3, <1>4

LEMMA ToldAreRoutes ==
    ASSUME NEW p, Good(p), NEW route \in Told(p)
    PROVE  IsRoute(route, Origin, Dest)
  <1> DEFINE path == p.hdr.path
  <1>1. p.hdr.type = "REPLY" /\ route = reverse_path(path)
    BY DEF Told
  <1>2. IsRoute(path, Dest, Origin)
    BY <1>1 DEF Good, OnCourse
  <1>3. /\ route \in Seq(Nodes) /\ Len(route) = Len(path) /\ IsWalk(route)
        /\ route[1] = Origin /\ route[Len(route)] = Dest
    BY <1>1, <1>2, WalkReverse DEF IsRoute
  <1>4. route # <<>>
    BY <1>2, <1>3, EmptySeq DEF IsRoute
  <1> QED  BY <1>2, <1>3, <1>4 DEF IsRoute

-----------------------------------------------------------------------------
LEMMA InitIInv == Init => IInv
  BY RouteDiscoveryAssumption DEF Init, IInv, RouteDiscoveryAssumption

LEMMA RebroadcastIInv ==
    ASSUME IInv, Rebroadcast
    PROVE  IInv'
  <1> DEFINE hdr == [type |-> "DISCOVERY", destination |-> Dest, id |-> routing_id + 1,
                     ttl |-> MAX_ROUTE_LENGTH, path |-> <<Origin>>]
  <1>1. routing_id' \in 0 .. MaxBroadcasts /\ routing_id' = routing_id + 1
    BY RouteDiscoveryAssumption DEF IInv, Rebroadcast, RouteDiscoveryAssumption
  <1>2. ASSUME NEW q \in Bcast(Origin, hdr)
        PROVE  Good(q)
    <2>1. PICK m \in Neighbours(Origin) : q = [at |-> m, hdr |-> hdr]
      BY <1>2 DEF Bcast
    <2>2. m \in Nodes /\ <<Origin, m>> \in Links
      BY <2>1 DEF Neighbours
    <2>3. /\ <<Origin>> \in Seq(Nodes) /\ <<Origin>> # <<>> /\ Len(<<Origin>>) = 1
          /\ <<Origin>>[1] = Origin /\ DOMAIN <<Origin>> = 1 .. 1
          /\ MAX_ROUTE_LENGTH \in Nat \ {0} /\ Origin # Dest
      BY RouteDiscoveryAssumption DEF RouteDiscoveryAssumption
    <2>4. hdr \in Header /\ hdr.path = <<Origin>> /\ hdr.ttl = MAX_ROUTE_LENGTH
          /\ hdr.type = "DISCOVERY" /\ hdr.destination = Dest
      BY <1>1, <2>3 DEF Header
    <2>5. IsWalk(<<Origin>>)
      BY <2>3 DEF IsWalk
    <2> HIDE DEF hdr
    <2>6. q \in [at : Nodes, hdr : Header] /\ q.at = m /\ q.hdr = hdr
      BY <2>1, <2>2, <2>4
    <2>7. Last(<<Origin>>) = Origin
      BY <2>3 DEF Last
    <2>8. MAX_ROUTE_LENGTH = MAX_ROUTE_LENGTH - (1 - 1) /\ 1 <= MAX_ROUTE_LENGTH
      BY <2>3
    <2>9. \A i \in DOMAIN <<Origin>> : <<Origin>>[i] # Dest
      BY <2>3
    <2> DEFINE path == q.hdr.path
    <2>10. path = <<Origin>> /\ Len(path) = 1 /\ q.hdr.ttl = MAX_ROUTE_LENGTH
           /\ q.hdr.destination = Dest /\ q.at = m
      BY <2>3, <2>4, <2>6
    <2>11. Collecting(q)
      <3>1. path # <<>> /\ path[1] = Origin /\ IsWalk(path) /\ Last(path) = Origin
            /\ \A i \in DOMAIN path : path[i] # Dest
        BY <2>3, <2>5, <2>7, <2>9, <2>10
      <3>2. q.hdr.ttl = MAX_ROUTE_LENGTH - (Len(path) - 1) /\ Len(path) <= MAX_ROUTE_LENGTH
        BY <2>8, <2>10
      <3>3. <<Last(path), q.at>> \in Links
        BY <2>2, <2>10, <3>1
      <3> QED  BY <2>10, <3>1, <3>2, <3>3 DEF Collecting
    <2> QED  BY <2>4, <2>6, <2>11 DEF Good
  <1>3. packets' = packets \cup Bcast(Origin, hdr) /\ routes' = routes
    BY DEF Rebroadcast
  <1> HIDE DEF hdr
  <1>4. \A q \in packets' : Good(q)
    BY <1>2, <1>3 DEF IInv
  <1>5. \A route \in routes' : IsRoute(route, Origin, Dest)
    BY <1>3 DEF IInv
  <1> QED  BY <1>1, <1>4, <1>5 DEF IInv

LEMMA SendDataIInv ==
    ASSUME IInv, SendData
    PROVE  IInv'
  <1>1. PICK route \in routes :
            packets' = packets \cup
               Send(Entry(route, 2), [type |-> "DATA", destination |-> Dest, id |-> 0,
                                      ttl |-> MAX_ROUTE_LENGTH, path |-> route])
    BY DEF SendData
  <1>2. IsRoute(route, Origin, Dest)
    BY DEF IInv
  <1>3. ASSUME NEW q \in packets', q \notin packets
        PROVE  Good(q)
    <2>1. /\ Origin \in Nodes /\ Origin # Dest /\ 0 \in 0 .. MaxBroadcasts
      BY RouteDiscoveryAssumption DEF RouteDiscoveryAssumption
    <2>2. q \in [at : Nodes, hdr : Header] /\ q.hdr.type = "DATA" /\ OnCourse(q, Origin, Dest)
      BY <1>1, <1>2, <1>3, <2>1, FirstHop
    <2> QED  BY <2>2 DEF Good
  <1>4. routes' = routes /\ routing_id' = routing_id
    BY DEF SendData
  <1>5. \A q \in packets' : Good(q)
    BY <1>3 DEF IInv
  <1>6. \A r \in routes' : IsRoute(r, Origin, Dest)
    BY <1>4 DEF IInv
  <1> QED  BY <1>4, <1>5, <1>6 DEF IInv

LEMMA DeliverIInv ==
    ASSUME IInv, NEW p \in packets, Deliver(p) \/ Duplicate(p) \/ Lose(p)
    PROVE  IInv'
  <1>1. /\ packets' \subseteq packets \cup Answer(p)
        /\ routes' \subseteq routes \cup Told(p)
        /\ routing_id' = routing_id
    BY DEF Deliver, Duplicate, Lose
  <1>2. Good(p)
    BY DEF IInv
  <1>3. \A q \in packets' : Good(q)
    BY <1>1, <1>2, AnswersAreGood DEF IInv
  <1>4. \A route \in routes' : IsRoute(route, Origin, Dest)
    BY <1>1, <1>2, ToldAreRoutes DEF IInv
  <1> QED  BY <1>1, <1>3, <1>4 DEF IInv

LEMMA NextIInv == IInv /\ [Next]_vars => IInv'
  <1> SUFFICES ASSUME IInv, [Next]_vars
               PROVE  IInv'
    OBVIOUS
  <1>1. CASE Rebroadcast  BY <1>1, RebroadcastIInv
  <1>2. CASE SendData  BY <1>2, SendDataIInv
  <1>3. CASE \E p \in packets : Deliver(p) \/ Duplicate(p) \/ Lose(p)
    BY <1>3, DeliverIInv
  <1>4. CASE UNCHANGED vars
    <2>1. packets' = packets /\ routes' = routes /\ routing_id' = routing_id
      BY <1>4 DEF vars
    <2>2. \A q \in packets' : Good(q)
      BY <2>1 DEF IInv
    <2>3. \A route \in routes' : IsRoute(route, Origin, Dest)
      BY <2>1 DEF IInv
    <2> QED  BY <2>1, <2>2, <2>3 DEF IInv
  <1> QED  BY <1>1, <1>2, <1>3, <1>4 DEF Next

LEMMA SpecIInv == Spec => []IInv
  BY InitIInv, NextIInv, PTL DEF Spec

-----------------------------------------------------------------------------
(* Every header in flight is well typed: no node sends on a packet whose    *)
(* unsigned ttl has gone through 0, although forward_packet never looks.    *)
THEOREM RouteTyping == Spec => []TypeOK
  <1>1. IInv => TypeOK
    BY DEF IInv, TypeOK, Good, IsRoute
  <1> QED  BY <1>1, SpecIInv, PTL

(* In every network a discovery goes along a walk from the origin, and no   *)
(* further than the array of its header is long: the flood dies out.        *)
THEOREM DiscoveriesDieOut == Spec => []DiscoveriesCollectWalks
  <1>1. IInv => DiscoveriesCollectWalks
    BY DEF IInv, DiscoveriesCollectWalks, OfType, Good, Collecting
  <1> QED  BY <1>1, SpecIInv, PTL

(* In every network a reply or a data packet is where its path and its ttl  *)
(* say: forward_packet and miniroute_helper send nothing astray.            *)
THEOREM NothingGoesAstray == Spec => []PacketsOnCourse
  <1>1. IInv => PacketsOnCourse
    BY DEF IInv, PacketsOnCourse, OfType, Good, OnCourse, IsRoute, Last
  <1> QED  BY <1>1, SpecIInv, PTL

(* In every network the routes the origin is told of are walks to the       *)
(* destination.                                                             *)
THEOREM OriginIsToldOfRoutes == Spec => []RoutesAreReal
  <1>1. IInv => RoutesAreReal
    BY DEF IInv, RoutesAreReal, IsRoute, Last
  <1> QED  BY <1>1, SpecIInv, PTL

=============================================================================
