--------------------------- MODULE MinirouteProofs ---------------------------
(***************************************************************************)
(* The safety properties of the route cache, for every number of threads,  *)
(* destinations, entries, nodes of the table and retries.                  *)
(*                                                                         *)
(* The invariant has a part per concern, and each part is kept by itself:  *)
(* types (Typing), the queues of the semaphores (Queued), who is in        *)
(* rebroadcast and how many broadcasts there were (RetriesOf, Numbered),   *)
(* the timers (TimedOf), what the table leads to (Cached), how many wait   *)
(* (CountOf) and who wakes them (WokenOf).                                 *)
(***************************************************************************)
EXTENDS Miniroute, SequenceTheorems, FiniteSetTheorems, TLAPS

Records ==
    [destination : Destinations, routing_flag : 0 .. 2, retry_count : Nat, routing_id : Nat,
     waiting_count : Nat, alarm_id : {NULL, "retry", "evict"}]

PC == {"idle", "missed", "found", "count", "P", "blocked", "uncount", "pass", "verdict", "send",
       "rebroadcast", "register", "retried", "evict"}

Typing ==
    /\ entry \in [Entries -> Records \cup {NULL}]
    /\ live \subseteq Entries /\ \A e \in live : entry[e] \in Records
    /\ routing_cache \subseteq Entries
    /\ value \in [Entries -> Nat] /\ waiting \in [Entries -> Seq(Threads)] /\ granted \subseteq Threads
    /\ alarms \subseteq Entries \X {"retry", "evict"}
    /\ pc \in [Callers -> PC] /\ route \in [Callers -> Entries \cup {NULL}]
    /\ dest_address \in [Threads -> Destinations \cup {NULL}]
    /\ \A t \in Threads : pc[t] = "missed" => dest_address[t] \in Destinations
    /\ broadcast \in [Destinations -> SUBSET Nat]

(* A thread in the queue of a semaphore is there once, in a P on it, and    *)
(* has not been granted a unit; one that has is in a P.                     *)
Queues(w, g) ==
    /\ \A e \in Entries : \A i \in 1 .. Len(w[e]) :
          LET t == w[e][i] IN
          /\ pc[t] = "blocked" /\ route[t] = e /\ t \notin g
          /\ \A j \in 1 .. Len(w[e]) : w[e][j] = t => i = j
    /\ \A t \in g : pc[t] = "blocked"

Queued == Queues(waiting, granted)

(* p is in a call of rebroadcast for e.                                     *)
InHand(p, e) == route[p] = e /\ pc[p] \in {"rebroadcast", "register", "retried"}

(* An entry is in one call of rebroadcast at most, or its alarm is set.     *)
RetriesOf(e) ==
    /\ entry[e].retry_count <= MAX_RETRIES + 1 /\ entry[e].routing_id <= MAX_RETRIES + 2
    /\ \A p, q \in Callers : InHand(p, e) /\ InHand(q, e) => p = q
    /\ \A p \in Callers : InHand(p, e) =>
          /\ pc[p] # "retried" => <<e, "retry">> \notin alarms
          /\ pc[p] = "rebroadcast" => entry[e].routing_id = entry[e].retry_count
          /\ pc[p] # "rebroadcast" => /\ entry[e].routing_id = entry[e].retry_count + 1
                                      /\ entry[e].retry_count <= MAX_RETRIES
    /\ <<e, "retry">> \in alarms /\ (\A p \in Callers : ~InHand(p, e)) =>
          entry[e].routing_id = entry[e].retry_count

Numbered == \A d \in Destinations : broadcast[d] \subseteq 1 .. MAX_RETRIES + 1

(* The timers; while the route is being discovered alarm_id is the retry's. *)
TimedOf(e) ==
    /\ entry[e].routing_flag = 0 => <<e, "retry">> \in alarms \/ Retrying(e)
    /\ entry[e].routing_flag = 1 =>
          \/ <<e, "evict">> \in alarms
          \/ route[AlarmThread] = e /\ pc[AlarmThread] = "evict"
    /\ entry[e].routing_flag = 1 /\ e \notin overtaken => <<e, "retry">> \notin alarms /\ ~Retrying(e)
    /\ entry[e].routing_flag = 0 /\ <<e, "retry">> \in alarms => entry[e].alarm_id = "retry"

(* Unless entries were doubled a destination has one.                       *)
Cached ==
    /\ Cardinality(routing_cache) <= SIZE_OF_ROUTE_CACHE
    /\ ~doubled => /\ routing_cache \subseteq live
                   /\ \A e, f \in live : entry[e].destination = entry[f].destination => e = f

CountOf(e) == entry[e].waiting_count = Cardinality(Counted(e))

(* As WaitersAreWoken, from the moment a thread has counted itself.         *)
WokenOf(t) ==
    LET e == route[t] IN
    /\ pc[t] \in {"P", "blocked"} /\ t \notin late
    /\ e \in live /\ entry[e].routing_flag # 0
    => BeingWoken(e)

IInv ==
    /\ Typing /\ Queued /\ Numbered /\ Cached
    /\ \A e \in live : RetriesOf(e) /\ TimedOf(e) /\ CountOf(e)
    /\ \A t \in Threads : WokenOf(t)

-----------------------------------------------------------------------------
(* What the parts of the actions do.                                        *)

LEMMA CallersFact ==
    /\ AlarmThread \in Callers /\ AlarmThread \notin Threads
    /\ \A t \in Threads : t \in Callers
    /\ NULL \notin Entries /\ NULL \notin Destinations
    /\ \A p \in Callers : p \in Threads \/ p = AlarmThread
BY MinirouteAssumption DEF Callers

(* V on the semaphore of e: somebody is being woken.                        *)
LEMMA VFact ==
    ASSUME Typing, Queued, NEW e \in Entries, V(e)
    PROVE  /\ value' \in [Entries -> Nat] /\ waiting' \in [Entries -> Seq(Threads)]
           /\ granted' \subseteq Threads /\ granted \subseteq granted'
           /\ \A f \in Entries : value'[f] >= value[f]
           /\ value'[e] > 0 \/ \E t \in Threads : route[t] = e /\ t \in granted'
           /\ Queues(waiting', granted')
<1>1. /\ value \in [Entries -> Nat] /\ waiting \in [Entries -> Seq(Threads)] /\ granted \subseteq Threads
  BY DEF Typing
<1>2. CASE Sem!Release(e)
  <2>1. /\ value' = [value EXCEPT ![e] = @ + 1] /\ waiting' = waiting /\ granted' = granted
    BY <1>2 DEF Sem!Release
  <2>2. /\ value' \in [Entries -> Nat] /\ \A f \in Entries : value'[f] >= value[f]
        /\ value'[e] > 0
    BY <1>1, <2>1
  <2> QED
    BY <1>1, <2>1, <2>2 DEF Queued
<1>3. CASE Sem!Grant(e)
  <2> DEFINE w == waiting[e]
             h == Head(w)
             r == Tail(w)
  <2>1. /\ w # <<>> /\ w \in Seq(Threads)
        /\ waiting' = [waiting EXCEPT ![e] = r] /\ granted' = granted \cup {h} /\ value' = value
    BY <1>1, <1>3 DEF Sem!Grant
  <2>2. /\ Len(w) \in Nat /\ Len(w) > 0 /\ h = w[1] /\ h \in Threads
        /\ r \in Seq(Threads) /\ Len(r) = Len(w) - 1
        /\ \A i \in 1 .. Len(r) : r[i] = w[i + 1]
    BY <2>1, HeadTailProperties, LenProperties, EmptySeq, ElementOfSeq
  <2>3. /\ pc[h] = "blocked" /\ route[h] = e /\ h \notin granted
        /\ \A j \in 1 .. Len(w) : w[j] = h => j = 1
    BY <2>2 DEF Queued, Queues
  <2>4. /\ waiting' \in [Entries -> Seq(Threads)] /\ waiting'[e] = r
        /\ \A f \in Entries \ {e} : waiting'[f] = waiting[f]
    BY <1>1, <2>1, <2>2
  <2> HIDE DEF h, r
  <2>5. ASSUME NEW f \in Entries, NEW i \in 1 .. Len(waiting'[f])
        PROVE  LET t == waiting'[f][i] IN
               /\ pc[t] = "blocked" /\ route[t] = f /\ t \notin granted'
               /\ \A j \in 1 .. Len(waiting'[f]) : waiting'[f][j] = t => i = j
    <3>1. CASE f # e
      BY <2>1, <2>3, <2>4, <2>5, <3>1 DEF Queued, Queues
    <3>2. CASE f = e
      <4>1. i + 1 \in 1 .. Len(w) /\ r[i] = w[i + 1] /\ i + 1 # 1
        BY <2>2, <2>4, <2>5, <3>2
      <4>2. r[i] # h
        BY <2>3, <4>1
      <4>3. /\ pc[r[i]] = "blocked" /\ route[r[i]] = e /\ r[i] \notin granted
            /\ \A j \in 1 .. Len(w) : w[j] = r[i] => i + 1 = j
        BY <4>1 DEF Queued, Queues
      <4>4. \A j \in 1 .. Len(r) : j + 1 \in 1 .. Len(w) /\ r[j] = w[j + 1] /\ (i + 1 = j + 1 => i = j)
        BY <2>2, <2>4, <3>2
      <4> QED
        BY <2>1, <2>4, <3>2, <4>2, <4>3, <4>4
    <3> QED
      BY <3>1, <3>2
  <2>6. \A t \in granted' : pc[t] = "blocked"
    BY <2>1, <2>3 DEF Queued, Queues
  <2>7. Queues(waiting', granted')
    BY <2>5, <2>6 DEF Queues
  <2>8. \A f \in Entries : value'[f] >= value[f]
    BY <1>1, <2>1
  <2> QED
    BY <1>1, <2>1, <2>2, <2>3, <2>4, <2>7, <2>8
<1> QED
  BY <1>2, <1>3 DEF V

(* The entry is freed, and a node of its destination is removed.            *)
LEMMA DestroyFact ==
    ASSUME Typing, NEW e \in live, Destroy(e)
    PROVE  /\ live' = live \ {e}
           /\ entry' \in [Entries -> Records \cup {NULL}]
           /\ \A f \in Entries \ {e} : entry'[f] = entry[f]
           /\ value' \in [Entries -> Nat]
           /\ \A f \in Entries \ {e} : value'[f] = value[f]
           /\ waiting' = waiting /\ granted' = granted
           /\ overtaken' = overtaken \ {e}
           /\ routing_cache' \subseteq routing_cache
           /\ \A f \in routing_cache : entry[f].destination = entry[e].destination =>
                 \E h \in routing_cache : /\ entry[h].destination = entry[e].destination
                                          /\ routing_cache' = routing_cache \ {h}
<1>1. entry[e] \in Records /\ Fresh(entry[e].destination) \in Records
  BY DEF Typing, Records, Fresh
<1>2. /\ entry' = [entry EXCEPT ![e] = Fresh(entry[e].destination)]
      /\ value' = [value EXCEPT ![e] = 0]
      /\ overtaken' = overtaken \ {e} /\ waiting' = waiting /\ granted' = granted
      /\ live' = live \ {e}
  BY DEF Destroy, Discard
<1>3. /\ entry' \in [Entries -> Records \cup {NULL}]
      /\ \A f \in Entries \ {e} : entry'[f] = entry[f]
  BY <1>1, <1>2 DEF Typing
<1>4. /\ value' \in [Entries -> Nat]
      /\ \A f \in Entries \ {e} : value'[f] = value[f]
  BY <1>2 DEF Typing
<1>5. routing_cache' \subseteq routing_cache
  BY DEF Destroy
<1>6. ASSUME NEW f \in routing_cache, entry[f].destination = entry[e].destination
      PROVE  \E h \in routing_cache : /\ entry[h].destination = entry[e].destination
                                      /\ routing_cache' = routing_cache \ {h}
  BY <1>6 DEF Destroy, Hits
<1> QED
  BY <1>2, <1>3, <1>4, <1>5, <1>6

(* What a caller does with its place and its entry.                         *)
LEMMA GotoFact ==
    ASSUME Typing, NEW p \in Callers, NEW next \in PC, Goto(p, next)
    PROVE  /\ pc' \in [Callers -> PC] /\ pc'[p] = next
           /\ \A q \in Callers \ {p} : pc'[q] = pc[q]
BY DEF Typing, Goto

LEMMA ReturnFact ==
    ASSUME Typing, NEW p \in Callers, Return(p)
    PROVE  /\ pc' \in [Callers -> PC] /\ pc'[p] = "idle"
           /\ \A q \in Callers \ {p} : pc'[q] = pc[q]
           /\ route' \in [Callers -> Entries \cup {NULL}] /\ route'[p] = NULL
           /\ \A q \in Callers \ {p} : route'[q] = route[q]
<1>1. Goto(p, "idle") /\ "idle" \in PC
  BY DEF Return, PC
<1> QED
  BY <1>1, GotoFact DEF Return, Typing

(* A step of p, as the rest of the invariant sees it: who it is, and where  *)
(* it goes.                                                                 *)
Moves(p, next, e) ==
    /\ pc' \in [Callers -> PC] /\ pc'[p] = next
    /\ \A q \in Callers \ {p} : pc'[q] = pc[q]
    /\ route' \in [Callers -> Entries \cup {NULL}] /\ route'[p] = e
    /\ \A q \in Callers \ {p} : route'[q] = route[q]

LEMMA MovesFact ==
    ASSUME Typing, NEW p \in Callers
    PROVE  /\ \A next \in PC : Goto(p, next) /\ UNCHANGED route => Moves(p, next, route[p])
           /\ \A next \in PC, e \in Entries \cup {NULL} :
                 Goto(p, next) /\ route' = [route EXCEPT ![p] = e] => Moves(p, next, e)
           /\ Return(p) => Moves(p, "idle", NULL)
           /\ Back(p) => Moves(p, "idle", NULL) \/ (p \in Threads /\ Moves(p, "count", route[p]))
<1>1. route \in [Callers -> Entries \cup {NULL}]
  BY DEF Typing
<1>2. ASSUME NEW next \in PC, Goto(p, next), UNCHANGED route
      PROVE  Moves(p, next, route[p])
  BY <1>1, <1>2, GotoFact DEF Moves
<1>3. ASSUME NEW next \in PC, NEW e \in Entries \cup {NULL}, Goto(p, next), route' = [route EXCEPT ![p] = e]
      PROVE  Moves(p, next, e)
  BY <1>1, <1>3, GotoFact DEF Moves
<1>4. Return(p) => Moves(p, "idle", NULL)
  BY ReturnFact DEF Moves
<1>5. Back(p) => Moves(p, "idle", NULL) \/ (p \in Threads /\ Moves(p, "count", route[p]))
  <2>1. CASE p = AlarmThread
    BY <1>4, <2>1 DEF Back
  <2>2. CASE p # AlarmThread
    BY <1>2, <2>2, CallersFact DEF Back, PC
  <2> QED
    BY <2>1, <2>2
<1> QED
  BY <1>2, <1>3, <1>4, <1>5

-----------------------------------------------------------------------------
(* What leaves the parts of the invariant alone.                            *)

LEMMA QueuedKept ==
    ASSUME Typing', Queues(waiting', granted'),
           \A t \in Threads : pc[t] = "blocked" => pc'[t] = "blocked" /\ route'[t] = route[t]
    PROVE  Queued'
<1>1. \A e \in Entries : \A i \in 1 .. Len(waiting'[e]) : waiting'[e][i] \in Threads
  BY ElementOfSeq DEF Typing
<1>2. granted' \subseteq Threads
  BY DEF Typing
<1> QED
  BY <1>1, <1>2 DEF Queued, Queues

(* Nobody enters or leaves rebroadcast or cache_evict for f.                *)
HandsKept(f) ==
    /\ \A q \in Callers : InHand(q, f)' <=> InHand(q, f)
    /\ \A q \in Callers : InHand(q, f) => pc'[q] = pc[q]
    /\ route'[AlarmThread] = f /\ pc'[AlarmThread] = "evict" <=>
          route[AlarmThread] = f /\ pc[AlarmThread] = "evict"

(* Of entry f and its alarms nothing changes, but its count of threads.     *)
EntryKept(f) ==
    /\ entry'[f].destination = entry[f].destination
    /\ entry'[f].retry_count = entry[f].retry_count /\ entry'[f].routing_id = entry[f].routing_id
    /\ entry'[f].routing_flag = entry[f].routing_flag /\ entry'[f].alarm_id = entry[f].alarm_id
    /\ \A k \in {"retry", "evict"} : <<f, k>> \in alarms' <=> <<f, k>> \in alarms
    /\ f \in overtaken' <=> f \in overtaken

LEMMA RetryingFact ==
    ASSUME NEW f, HandsKept(f)
    PROVE  Retrying(f)' <=> Retrying(f)
BY DEF Retrying, HandsKept, InHand

LEMMA EntryPartsKept ==
    ASSUME NEW f, HandsKept(f), EntryKept(f), RetriesOf(f), TimedOf(f)
    PROVE  RetriesOf(f)' /\ TimedOf(f)'
<1>1. RetriesOf(f)'
  BY DEF HandsKept, EntryKept, RetriesOf
<1>2. TimedOf(f)'
  BY RetryingFact DEF HandsKept, EntryKept, TimedOf
<1> QED
  BY <1>1, <1>2

(* Steps of p that neither enter nor leave one of these places for f keep   *)
(* hands off it, and so on.                                                 *)
Places == {"rebroadcast", "register", "retried", "evict"}

Counting == {"P", "blocked", "uncount"}

LEMMA MovesKeepHands ==
    ASSUME Typing, NEW p \in Callers, NEW next, NEW e2, Moves(p, next, e2), NEW f,
           route[p] # f \/ pc[p] \notin Places, e2 # f \/ next \notin Places
    PROVE  HandsKept(f)
BY CallersFact DEF HandsKept, InHand, Moves, Places

LEMMA MovesKeepCounted ==
    ASSUME Typing, NEW p \in Callers, NEW next, NEW e2, Moves(p, next, e2), NEW f,
           p \in Threads => \/ (route[p] # f \/ pc[p] \notin Counting) /\ (e2 # f \/ next \notin Counting)
                            \/ route[p] = f /\ pc[p] \in Counting /\ e2 = f /\ next \in Counting
    PROVE  Counted(f)' = Counted(f)
BY CallersFact DEF Counted, Moves, Counting

LEMMA BeingWokenKept ==
    ASSUME NEW f, value[f] > 0 => value'[f] > 0,
           \A t \in Threads :
              route[t] = f /\ (pc[t] \in {"uncount", "pass"} \/ t \in granted) =>
                 route'[t] = f /\ (pc'[t] \in {"uncount", "pass"} \/ t \in granted'),
           BeingWoken(f)
    PROVE  BeingWoken(f)'
BY DEF BeingWoken

LEMMA WokenKept ==
    ASSUME NEW t \in Threads, WokenOf(t), NEW f, route[t] = f,
           pc'[t] \in {"P", "blocked"} =>
              pc[t] \in {"P", "blocked"} /\ route'[t] = f /\ (t \in late => t \in late'),
           f \in live' =>
              /\ f \in live
              /\ entry'[f].routing_flag = entry[f].routing_flag
              /\ BeingWoken(f) => BeingWoken(f)'
    PROVE  WokenOf(t)'
<1> SUFFICES ASSUME pc'[t] \in {"P", "blocked"}, t \notin late',
                    route'[t] \in live', entry'[route'[t]].routing_flag # 0
             PROVE  BeingWoken(route[t])'
  BY DEF WokenOf
<1>1. route'[t] = f /\ BeingWoken(f)
  BY DEF WokenOf
<1>2. BeingWoken(f)'
  BY <1>1
<1> QED
  BY <1>1, <1>2 DEF BeingWoken

-----------------------------------------------------------------------------
(* The actions.  First those that only move a caller.                       *)

Still == UNCHANGED <<entry, live, routing_cache, semaVars, alarms, broadcast, ghosts>>

LEMMA QuietMoveKeepsIInv ==
    ASSUME IInv, Typing', NEW p \in Callers, NEW next, NEW e2, Moves(p, next, e2), Still,
           pc[p] \notin Places \cup Counting \cup {"pass"},
           next \notin Places \cup Counting \cup {"pass"}
    PROVE  IInv'
<1>1. Typing /\ Queued /\ Numbered /\ Cached
  BY DEF IInv
<1>2. /\ entry' = entry /\ live' = live /\ routing_cache' = routing_cache
      /\ value' = value /\ waiting' = waiting /\ granted' = granted
      /\ alarms' = alarms /\ broadcast' = broadcast
      /\ doubled' = doubled /\ overtaken' = overtaken /\ late' = late
  BY DEF Still, semaVars, ghosts
<1>3. Queued'
  BY <1>1, <1>2, QueuedKept DEF Queued, Moves, Counting, Callers
<1>4. Numbered' /\ Cached'
  BY <1>1, <1>2 DEF Numbered, Cached
<1>5. ASSUME NEW f \in live
      PROVE  RetriesOf(f)' /\ TimedOf(f)' /\ CountOf(f)'
  <2>1. HandsKept(f) /\ Counted(f)' = Counted(f)
    BY <1>1, MovesKeepHands, MovesKeepCounted
  <2>2. EntryKept(f)
    BY <1>2 DEF EntryKept
  <2> QED
    BY <1>2, <2>1, <2>2, EntryPartsKept DEF IInv, CountOf
<1>6. ASSUME NEW t \in Threads
      PROVE  WokenOf(t)'
  <2>1. PICK f : f = route[t]
    OBVIOUS
  <2>2. t \in Callers /\ WokenOf(t)
    BY CallersFact DEF IInv
  <2>3. pc'[t] \in {"P", "blocked"} =>
           pc[t] \in {"P", "blocked"} /\ route'[t] = f /\ (t \in late => t \in late')
    BY <1>2, <2>1, <2>2 DEF Moves, Counting
  <2>4. BeingWoken(f) => BeingWoken(f)'
    <3>1. \A u \in Threads : pc[u] \in {"uncount", "pass"} \/ u \in granted =>
             route'[u] = route[u] /\ pc'[u] = pc[u]
      BY <1>1, CallersFact DEF Moves, Counting, Queued, Queues
    <3> QED
      BY <1>2, <3>1, BeingWokenKept
  <2> QED
    BY <1>2, <2>1, <2>2, <2>3, <2>4, WokenKept
<1> QED
  BY <1>2, <1>3, <1>4, <1>5, <1>6 DEF IInv

(* Typing of the variables that callers change with their place.            *)
LEMMA MoveTyping ==
    ASSUME Typing, NEW p \in Callers, NEW next, NEW e2, Moves(p, next, e2), next # "missed",
           dest_address' = dest_address
    PROVE  /\ pc' \in [Callers -> PC] /\ route' \in [Callers -> Entries \cup {NULL}]
           /\ dest_address' \in [Threads -> Destinations \cup {NULL}]
           /\ \A t \in Threads : pc'[t] = "missed" => dest_address'[t] \in Destinations
BY CallersFact DEF Typing, Moves

LEMMA LookupKeepsIInv ==
    ASSUME IInv, NEW t \in Threads, Lookup(t)
    PROVE  IInv'
<1>1. Typing /\ t \in Callers /\ pc[t] = "idle" /\ Still
  BY CallersFact DEF IInv, Lookup, Still
<1>2. {"missed", "found"} \subseteq PC
  BY DEF PC
<1>3. CASE \E d \in Destinations :
              /\ Goto(t, "missed")
              /\ dest_address' = [dest_address EXCEPT ![t] = d]
              /\ UNCHANGED route
  <2>1. Moves(t, "missed", route[t])
    BY <1>1, <1>2, <1>3, MovesFact
  <2>2. Typing'
    BY <1>1, <1>3, <2>1, CallersFact DEF Typing, Moves, Still, semaVars
  <2> QED
    BY <1>1, <2>1, <2>2, QuietMoveKeepsIInv DEF Places, Counting
<1>4. CASE \E d \in Destinations :
              /\ Goto(t, "found")
              /\ \E e \in Hits(d) : route' = [route EXCEPT ![t] = e]
              /\ UNCHANGED dest_address
  <2>1. PICK e \in Entries : Goto(t, "found") /\ route' = [route EXCEPT ![t] = e] /\ UNCHANGED dest_address
    BY <1>1, <1>4 DEF Typing, Hits
  <2>2. Moves(t, "found", e)
    BY <1>1, <1>2, <2>1, MovesFact
  <2>3. Typing'
    BY <1>1, <2>1, <2>2, MoveTyping DEF Typing, Still, semaVars
  <2> QED
    BY <1>1, <2>2, <2>3, QuietMoveKeepsIInv DEF Places, Counting
<1> QED
  BY <1>3, <1>4 DEF Lookup

(* A caller at an entry goes on, and changes nothing.                       *)
LEMMA GoOnKeepsIInv ==
    ASSUME IInv, NEW p \in Callers, Still, dest_address' = dest_address,
           pc[p] \in {"found", "verdict", "send"},
           \/ \E next \in {"count", "send"} : Goto(p, next) /\ UNCHANGED route
           \/ Return(p)
    PROVE  IInv'
<1>1. Typing
  BY DEF IInv
<1>2. PICK next \in {"count", "send", "idle"}, e2 \in {route[p], NULL} : Moves(p, next, e2)
  BY <1>1, MovesFact DEF PC
<1>3. Typing'
  BY <1>1, <1>2, MoveTyping DEF Typing, Still, semaVars
<1> QED
  BY <1>2, <1>3, QuietMoveKeepsIInv DEF Places, Counting

-----------------------------------------------------------------------------
(* The entry of a caller that returns is destroyed.                         *)
LEMMA DestroyKeepsIInv ==
    ASSUME IInv, NEW p \in Callers, NEW e, route[p] = e, e \in live, Destroy(e),
           pc[p] \notin Counting \cup {"pass"}, Return(p) \/ Back(p),
           UNCHANGED <<alarms, dest_address, broadcast, doubled, late>>
    PROVE  IInv'
<1>1. Typing /\ Queued /\ Numbered /\ Cached /\ e \in Entries
  BY DEF IInv, Typing
<1>2. PICK next \in {"idle", "count"}, e2 \in {NULL, e} : Moves(p, next, e2)
  BY <1>1, MovesFact
<1>3. /\ live' = live \ {e}
      /\ entry' \in [Entries -> Records \cup {NULL}]
      /\ \A f \in Entries \ {e} : entry'[f] = entry[f]
      /\ value' \in [Entries -> Nat]
      /\ \A f \in Entries \ {e} : value'[f] = value[f]
      /\ waiting' = waiting /\ granted' = granted
      /\ overtaken' = overtaken \ {e}
      /\ routing_cache' \subseteq routing_cache
      /\ \A f \in routing_cache : entry[f].destination = entry[e].destination =>
            \E h \in routing_cache : /\ entry[h].destination = entry[e].destination
                                     /\ routing_cache' = routing_cache \ {h}
  BY <1>1, DestroyFact
<1>4. /\ live' \subseteq Entries /\ live' \subseteq live
      /\ \A f \in live' : f \in Entries \ {e} /\ f # e /\ entry'[f] = entry[f] /\ entry'[f] \in Records
  BY <1>1, <1>3 DEF Typing
<1>5. Typing'
  BY <1>1, <1>2, <1>3, <1>4, MoveTyping DEF Typing
<1>6. Queued'
  <2>1. pc[p] # "blocked"
    BY DEF Counting
  <2> QED
    BY <1>1, <1>2, <1>3, <1>5, <2>1, QueuedKept DEF Queued, Moves, Callers
<1>7. Numbered'
  BY <1>1 DEF Numbered
<1>8. Cached'
  <2>1. Cardinality(routing_cache') <= SIZE_OF_ROUTE_CACHE
    <3>1. IsFiniteSet(routing_cache)
      BY <1>1, MinirouteAssumption, FS_Subset DEF Typing
    <3>2. Cardinality(routing_cache') <= Cardinality(routing_cache)
      BY <1>3, <3>1, FS_Subset
    <3>3. Cardinality(routing_cache) \in Nat /\ Cardinality(routing_cache') \in Nat
      BY <1>3, <3>1, FS_Subset, FS_CardinalityType
    <3> QED
      BY <1>1, <3>2, <3>3, MinirouteAssumption DEF Cached
  <2>2. ASSUME ~doubled
        PROVE  e \notin routing_cache'
    <3>1. routing_cache \subseteq live /\ \A f \in live : entry[f].destination = entry[e].destination => f = e
      BY <1>1, <2>2 DEF Cached
    <3>2. CASE e \in routing_cache
      <4>1. PICK h \in routing_cache : /\ entry[h].destination = entry[e].destination
                                       /\ routing_cache' = routing_cache \ {h}
        BY <1>3, <3>2
      <4> QED
        BY <3>1, <4>1
    <3> QED
      BY <1>3, <3>2
  <2>3. ~doubled => routing_cache' \subseteq live'
    BY <1>1, <1>3, <2>2 DEF Cached
  <2> QED
    BY <1>1, <1>4, <2>1, <2>3 DEF Cached
<1>9. ASSUME NEW f \in live'
      PROVE  RetriesOf(f)' /\ TimedOf(f)' /\ CountOf(f)'
  <2>1. route[p] # f /\ e2 # f /\ f \in live
    BY <1>1, <1>2, <1>4, CallersFact
  <2>2. HandsKept(f) /\ Counted(f)' = Counted(f)
    BY <1>1, <1>2, <2>1, MovesKeepHands, MovesKeepCounted
  <2>3. EntryKept(f)
    BY <1>3, <1>4 DEF EntryKept
  <2> QED
    BY <1>4, <2>1, <2>2, <2>3, EntryPartsKept DEF IInv, CountOf
<1>10. ASSUME NEW t \in Threads
       PROVE  WokenOf(t)'
  <2>1. PICK f : f = route[t]
    OBVIOUS
  <2>2. t \in Callers /\ WokenOf(t)
    BY CallersFact DEF IInv
  <2>3. pc'[t] \in {"P", "blocked"} =>
           pc[t] \in {"P", "blocked"} /\ route'[t] = f /\ (t \in late => t \in late')
    BY <1>2, <2>1, <2>2 DEF Moves
  <2>4. f \in live' => (BeingWoken(f) => BeingWoken(f)')
    <3>1. \A u \in Threads : pc[u] \in {"uncount", "pass"} \/ u \in granted =>
             route'[u] = route[u] /\ pc'[u] = pc[u]
      BY <1>1, <1>2, CallersFact DEF Moves, Counting, Queued, Queues
    <3> QED
      BY <1>3, <1>4, <3>1, BeingWokenKept
  <2> QED
    BY <1>4, <2>1, <2>2, <2>3, <2>4, WokenKept
<1> QED
  BY <1>5, <1>6, <1>7, <1>8, <1>9, <1>10 DEF IInv

-----------------------------------------------------------------------------
(* Steps that wake a thread.                                                *)

LEMMA VWakes ==
    ASSUME Typing, Queued, NEW e \in Entries, V(e),
           \A t \in Threads : pc[t] = "blocked" => pc'[t] = "blocked" /\ route'[t] = route[t]
    PROVE  /\ BeingWoken(e)'
           /\ \A f \in Entries :
                 (\A t \in Threads : route[t] = f /\ pc[t] \in {"uncount", "pass"} =>
                     route'[t] = f /\ pc'[t] \in {"uncount", "pass"})
                 => (BeingWoken(f) => BeingWoken(f)')
<1>1. /\ value' \in [Entries -> Nat] /\ value \in [Entries -> Nat]
      /\ granted' \subseteq Threads /\ granted \subseteq granted'
      /\ \A f \in Entries : value'[f] >= value[f]
      /\ value'[e] > 0 \/ \E t \in Threads : route[t] = e /\ t \in granted'
      /\ Queues(waiting', granted')
  BY VFact DEF Typing
<1>2. \A t \in granted' : pc[t] = "blocked" /\ t \in Threads
  BY <1>1 DEF Queues
<1>3. BeingWoken(e)'
  BY <1>1, <1>2 DEF BeingWoken
<1>4. ASSUME NEW f \in Entries,
             \A t \in Threads : route[t] = f /\ pc[t] \in {"uncount", "pass"} =>
                route'[t] = f /\ pc'[t] \in {"uncount", "pass"},
             BeingWoken(f)
      PROVE  BeingWoken(f)'
  <2>1. value[f] > 0 => value'[f] > 0
    BY <1>1
  <2> QED
    BY <1>1, <1>2, <1>4, <2>1 DEF BeingWoken
<1> QED
  BY <1>3, <1>4

(* A thread that is counted is among those the count says.                  *)
LEMMA CountFact ==
    ASSUME IInv, NEW e \in live, NEW t \in Threads, route[t] = e, pc[t] \in Counting
    PROVE  entry[e].waiting_count > 0
<1>1. t \in Counted(e) /\ Counted(e) \subseteq Threads
  BY DEF Counted, Counting
<1>2. IsFiniteSet(Counted(e)) /\ Cardinality(Counted(e)) \in Nat
  BY <1>1, MinirouteAssumption, FS_Subset, FS_CardinalityType
<1>3. Cardinality(Counted(e)) # 0
  BY <1>1, <1>2, FS_EmptySet
<1> QED
  BY <1>2, <1>3 DEF IInv, CountOf

(* The flag of e may be set now, and those that wait for it are woken.      *)
LEMMA WakeKeepsWoken ==
    ASSUME IInv, NEW e \in live,
           IF entry[e].waiting_count > 0 THEN V(e) ELSE UNCHANGED semaVars,
           \A u \in Threads :
              pc[u] \in Counting \/ pc'[u] \in Counting \/ (pc[u] = "pass" /\ route[u] # e) =>
                 pc'[u] = pc[u] /\ route'[u] = route[u],
           live' = live, late' = late,
           \A f \in live : f # e => entry'[f].routing_flag = entry[f].routing_flag
    PROVE  \A t \in Threads : WokenOf(t)'
<1>1. Typing /\ Queued /\ live \subseteq Entries
  BY DEF IInv, Typing
<1>2. \A u \in Threads : pc[u] = "blocked" => pc'[u] = "blocked" /\ route'[u] = route[u]
  BY DEF Counting
<1>4. \A f \in Entries : f # e => (BeingWoken(f) => BeingWoken(f)')
  <2> SUFFICES ASSUME NEW f \in Entries, f # e
               PROVE  BeingWoken(f) => BeingWoken(f)'
    OBVIOUS
  <2>1. \A u \in Threads : route[u] = f /\ pc[u] \in {"uncount", "pass"} =>
           route'[u] = f /\ pc'[u] \in {"uncount", "pass"}
    BY DEF Counting
  <2>2. CASE entry[e].waiting_count > 0
    BY <1>1, <1>2, <2>1, <2>2, VWakes
  <2>3. CASE ~(entry[e].waiting_count > 0)
    <3>1. value' = value /\ granted' = granted
      BY <2>3 DEF semaVars
    <3>2. \A u \in granted : u \in Threads /\ pc[u] = "blocked"
      BY <1>1 DEF Typing, Queued, Queues
    <3> QED
      BY <1>2, <2>1, <3>1, <3>2, BeingWokenKept
  <2> QED
    BY <2>2, <2>3
<1> SUFFICES ASSUME NEW t \in Threads
             PROVE  WokenOf(t)'
  OBVIOUS
<1>5. PICK f : f = route[t]
  OBVIOUS
<1>6. WokenOf(t)
  BY DEF IInv
<1>7. pc'[t] \in {"P", "blocked"} =>
         pc[t] \in {"P", "blocked"} /\ route'[t] = f /\ (t \in late => t \in late')
  BY <1>5 DEF Counting
<1>8. CASE f # e
  BY <1>1, <1>4, <1>5, <1>6, <1>7, <1>8, WokenKept
<1>9. CASE f = e
  <2> SUFFICES ASSUME pc'[t] \in {"P", "blocked"}
               PROVE  BeingWoken(route[t])'
    BY DEF WokenOf, BeingWoken
  <2>1. pc[t] \in Counting /\ route[t] = e /\ route'[t] = e
    BY <1>5, <1>7, <1>9 DEF Counting
  <2>2. V(e)
    BY <2>1, CountFact
  <2>3. BeingWoken(e)'
    BY <1>1, <1>2, <2>2, VWakes
  <2> QED
    BY <2>1, <2>3 DEF BeingWoken
<1> QED
  BY <1>8, <1>9

(* The semaphores and their queues stay in shape.                           *)
LEMMA WakeKeepsQueued ==
    ASSUME IInv, NEW e \in live,
           V(e) \/ UNCHANGED semaVars,
           pc' \in [Callers -> PC],
           \A t \in Threads : pc[t] = "blocked" => pc'[t] = "blocked" /\ route'[t] = route[t]
    PROVE  /\ value' \in [Entries -> Nat] /\ waiting' \in [Entries -> Seq(Threads)]
           /\ granted' \subseteq Threads
           /\ Typing' => Queued'
<1>1. Typing /\ Queued /\ e \in Entries
  BY DEF IInv, Typing
<1>2. CASE V(e)
  BY <1>1, <1>2, VFact, QueuedKept
<1>3. CASE UNCHANGED semaVars
  BY <1>1, <1>3, QueuedKept DEF semaVars, Typing, Queued
<1> QED
  BY <1>2, <1>3

(* A caller at e wakes the next thread, and goes on.                        *)
LEMMA PassKeepsIInv ==
    ASSUME IInv, NEW p \in Callers, NEW e, route[p] = e, e \in live,
           IF entry[e].waiting_count > 0 THEN V(e) ELSE UNCHANGED semaVars,
           pc[p] \in {"found", "pass"},
           (Goto(p, "verdict") /\ UNCHANGED route) \/ Return(p),
           UNCHANGED <<store, alarms, dest_address, broadcast, doubled, late>>
    PROVE  IInv'
<1>1. Typing /\ Queued /\ Numbered /\ Cached /\ e \in Entries
  BY DEF IInv, Typing
<1>2. PICK next \in {"idle", "verdict"}, e2 \in {e, NULL} : Moves(p, next, e2)
  BY <1>1, MovesFact DEF PC
<1>3. /\ entry' = entry /\ live' = live /\ routing_cache' = routing_cache /\ overtaken' = overtaken
      /\ alarms' = alarms
  BY DEF store
<1>4. \A u \in Threads :
         pc[u] \in Counting \/ pc'[u] \in Counting \/ (pc[u] = "pass" /\ route[u] # e) =>
            pc'[u] = pc[u] /\ route'[u] = route[u]
  BY <1>2, CallersFact DEF Moves, Counting
<1>5. /\ value' \in [Entries -> Nat] /\ waiting' \in [Entries -> Seq(Threads)]
      /\ granted' \subseteq Threads
      /\ Typing' => Queued'
  <2>1. V(e) \/ UNCHANGED semaVars
    OBVIOUS
  <2>2. \A t \in Threads : pc[t] = "blocked" => pc'[t] = "blocked" /\ route'[t] = route[t]
    BY <1>4 DEF Counting
  <2>3. pc' \in [Callers -> PC]
    BY <1>2 DEF Moves
  <2> QED
    BY <2>1, <2>2, <2>3, WakeKeepsQueued
<1>6. Typing'
  BY <1>1, <1>2, <1>3, <1>5, MoveTyping DEF Typing
<1>7. \A t \in Threads : WokenOf(t)'
  BY <1>3, <1>4, WakeKeepsWoken
<1>8. Numbered' /\ Cached'
  BY <1>1, <1>3 DEF Numbered, Cached
<1>9. ASSUME NEW f \in live
      PROVE  RetriesOf(f)' /\ TimedOf(f)' /\ CountOf(f)'
  <2>1. HandsKept(f) /\ Counted(f)' = Counted(f)
    BY <1>1, <1>2, MovesKeepHands, MovesKeepCounted DEF Places, Counting
  <2>2. EntryKept(f)
    BY <1>3 DEF EntryKept
  <2> QED
    BY <1>3, <2>1, <2>2, EntryPartsKept DEF IInv, CountOf
<1> QED
  BY <1>3, <1>5, <1>6, <1>7, <1>8, <1>9 DEF IInv

LEMMA FoundKeepsIInv ==
    ASSUME IInv, NEW t \in Threads, Found(t)
    PROVE  IInv'
<1>1. t \in Callers /\ pc[t] = "found" /\ route[t] \in live
  BY CallersFact DEF Found, At
<1>2. UNCHANGED <<alarms, dest_address, creator, broadcast, doubled, late>>
  BY DEF Found
<1>3. PICK e : e = route[t]
  OBVIOUS
<1>4. CASE UNCHANGED <<store, semaVars, route>> /\ (Goto(t, "count") \/ Goto(t, "send"))
  BY <1>1, <1>2, <1>4, GoOnKeepsIInv DEF Still, store, ghosts
<1>5. CASE entry[e].waiting_count > 0 /\ V(e) /\ UNCHANGED store /\ Return(t)
  BY <1>1, <1>2, <1>3, <1>5, PassKeepsIInv
<1>6. CASE Destroy(e) /\ Return(t)
  BY <1>1, <1>2, <1>3, <1>6, DestroyKeepsIInv DEF Counting
<1> QED
  BY <1>3, <1>4, <1>5, <1>6 DEF Found

LEMMA PassOnKeepsIInv ==
    ASSUME IInv, NEW t \in Threads, PassOn(t)
    PROVE  IInv'
<1>1. t \in Callers /\ pc[t] = "pass" /\ route[t] \in live
  BY CallersFact DEF PassOn, At
<1>2. PICK e : e = route[t]
  OBVIOUS
<1>3. /\ IF entry[e].waiting_count > 0 THEN V(e) ELSE UNCHANGED semaVars
      /\ Goto(t, "verdict") /\ UNCHANGED route
      /\ UNCHANGED <<store, alarms, dest_address, broadcast, doubled, late>>
  BY <1>2 DEF PassOn, store, ghosts
<1> QED
  BY <1>1, <1>2, <1>3, PassKeepsIInv

LEMMA VerdictKeepsIInv ==
    ASSUME IInv, NEW t \in Threads, Verdict(t) \/ SendPkt(t)
    PROVE  IInv'
<1>1. t \in Callers /\ pc[t] \in {"verdict", "send"} /\ route[t] \in live
  BY CallersFact DEF Verdict, SendPkt, At
<1>2. UNCHANGED <<alarms, dest_address, broadcast, doubled, late>>
  BY DEF Verdict, SendPkt, ghosts
<1>3. CASE UNCHANGED <<store, semaVars>> /\ ((Goto(t, "send") /\ UNCHANGED route) \/ Return(t))
  BY <1>1, <1>2, <1>3, GoOnKeepsIInv DEF Still, store, ghosts
<1>4. CASE Destroy(route[t]) /\ Return(t)
  <2>1. PICK e : e = route[t]
    OBVIOUS
  <2> QED
    BY <1>1, <1>2, <1>4, <2>1, DestroyKeepsIInv DEF Counting
<1> QED
  BY <1>3, <1>4 DEF Verdict, SendPkt, store, ghosts

-----------------------------------------------------------------------------
(* Waiting.                                                                 *)

(* A statement changes the entry at e to r.                                 *)
LEMMA EntryTyping ==
    ASSUME Typing, NEW e \in live, NEW r \in Records, entry' = [entry EXCEPT ![e] = r]
    PROVE  /\ entry' \in [Entries -> Records \cup {NULL}] /\ entry'[e] = r
           /\ \A f \in live : f # e => entry'[f] = entry[f]
           /\ \A f \in live : entry'[f] \in Records
<1>1. e \in Entries /\ entry \in [Entries -> Records \cup {NULL}] /\ live \subseteq Entries
      /\ \A f \in live : entry[f] \in Records
  BY DEF Typing
<1> QED
  BY <1>1

(* A thread counts itself, or has been woken and uncounts itself: n is the  *)
(* new count.                                                               *)
LEMMA RecountTyping ==
    ASSUME Typing, NEW t \in Threads, NEW e \in live, route[t] = e, NEW n \in Nat,
           NEW next, Moves(t, next, e), next # "missed",
           entry' = [entry EXCEPT ![e].waiting_count = n],
           UNCHANGED <<live, routing_cache, semaVars, alarms, dest_address, broadcast>>
    PROVE  /\ Typing'
           /\ entry'[e].waiting_count = n
           /\ \A f \in live : f # e => entry'[f] = entry[f]
           /\ \A f \in live : /\ entry'[f].destination = entry[f].destination
                              /\ entry'[f].retry_count = entry[f].retry_count
                              /\ entry'[f].routing_id = entry[f].routing_id
                              /\ entry'[f].routing_flag = entry[f].routing_flag
                              /\ entry'[f].alarm_id = entry[f].alarm_id
<1>1. entry[e] \in Records /\ t \in Callers
  BY CallersFact DEF Typing
<1> DEFINE r == [entry[e] EXCEPT !.waiting_count = n]
<1>2. /\ r \in Records /\ r.waiting_count = n
      /\ r.destination = entry[e].destination /\ r.retry_count = entry[e].retry_count
      /\ r.routing_id = entry[e].routing_id /\ r.routing_flag = entry[e].routing_flag
      /\ r.alarm_id = entry[e].alarm_id
  BY <1>1 DEF Records
<1>3. entry' = [entry EXCEPT ![e] = r]
  OBVIOUS
<1> HIDE DEF r
<1>4. PICK q : q = r
  OBVIOUS
<1>5. /\ entry' \in [Entries -> Records \cup {NULL}] /\ entry'[e] = q
      /\ \A f \in live : f # e => entry'[f] = entry[f]
      /\ \A f \in live : entry'[f] \in Records
  BY <1>2, <1>3, <1>4, EntryTyping
<1>6. Typing'
  BY <1>1, <1>5, MoveTyping DEF Typing, semaVars
<1> QED
  BY <1>2, <1>4, <1>5, <1>6

LEMMA CountKeepsIInv ==
    ASSUME IInv, NEW t \in Threads, Count(t)
    PROVE  IInv'
<1>1. PICK e : e = route[t]
  OBVIOUS
<1>2. /\ Typing /\ Queued /\ Numbered /\ Cached /\ t \in Callers /\ "P" \in PC
      /\ pc[t] = "count" /\ e \in live /\ e \in Entries
  BY <1>1, CallersFact DEF IInv, Typing, Count, At, PC
<1>3. entry[e].waiting_count \in Nat /\ entry[e].waiting_count = Cardinality(Counted(e))
  BY <1>2 DEF IInv, Typing, Records, CountOf
<1>4. PICK n \in Nat : n = entry[e].waiting_count + 1
  BY <1>3
<1>5. entry' = [entry EXCEPT ![e].waiting_count = n]
  BY <1>1, <1>4 DEF Count
<1>6. Moves(t, "P", e)
  BY <1>1, <1>2, MovesFact DEF Count
<1>7. /\ live' = live /\ routing_cache' = routing_cache /\ UNCHANGED semaVars
      /\ alarms' = alarms /\ dest_address' = dest_address /\ broadcast' = broadcast
      /\ doubled' = doubled /\ overtaken' = overtaken
      /\ late' = IF entry[e].routing_flag = 0 THEN late \ {t} ELSE late \cup {t}
  BY <1>1 DEF Count
<1>8. /\ Typing'
      /\ entry'[e].waiting_count = n
      /\ \A f \in live : f # e => entry'[f] = entry[f]
      /\ \A f \in live : /\ entry'[f].destination = entry[f].destination
                         /\ entry'[f].retry_count = entry[f].retry_count
                         /\ entry'[f].routing_id = entry[f].routing_id
                         /\ entry'[f].routing_flag = entry[f].routing_flag
                         /\ entry'[f].alarm_id = entry[f].alarm_id
  <2>1. route[t] = e /\ UNCHANGED <<live, routing_cache, semaVars, alarms, dest_address, broadcast>>
    BY <1>1, <1>7
  <2>2. PICK next : next \in {"P", "pass"} /\ Moves(t, next, e)
    BY <1>6
  <2> QED
    BY <1>2, <1>5, <2>1, <2>2, RecountTyping, ZenonT(30)
<1>9. Queued'
  BY <1>2, <1>6, <1>7, <1>8, QueuedKept, CallersFact DEF Queued, Moves, semaVars
<1>10. Numbered' /\ Cached'
  BY <1>2, <1>7, <1>8 DEF Numbered, Cached
<1>11. ASSUME NEW f \in live
       PROVE  RetriesOf(f)' /\ TimedOf(f)'
  <2>1. HandsKept(f)
    BY <1>2, <1>6, MovesKeepHands DEF Places
  <2>2. EntryKept(f)
    BY <1>7, <1>8 DEF EntryKept
  <2> QED
    BY <2>1, <2>2, EntryPartsKept DEF IInv
<1>12. ASSUME NEW f \in live
       PROVE  CountOf(f)'
  <2>1. CASE f # e
    <3>1. Counted(f)' = Counted(f)
      BY <1>1, <1>2, <1>6, <2>1, MovesKeepCounted DEF Counting
    <3> QED
      BY <1>8, <2>1, <3>1 DEF IInv, CountOf
  <2>2. CASE f = e
    <3>1. Counted(e)' = Counted(e) \cup {t} /\ t \notin Counted(e)
      BY <1>1, <1>2, <1>6, CallersFact DEF Counted, Moves
    <3>2. IsFiniteSet(Counted(e))
      BY MinirouteAssumption, FS_Subset DEF Counted
    <3>3. Cardinality(Counted(e) \cup {t}) = Cardinality(Counted(e)) + 1
      BY <3>1, <3>2, FS_AddElement
    <3> QED
      BY <1>3, <1>4, <1>8, <2>2, <3>1, <3>3 DEF CountOf
  <2> QED
    BY <2>1, <2>2
<1>13. ASSUME NEW u \in Threads
       PROVE  WokenOf(u)'
  <2>1. PICK f : f = route[u]
    OBVIOUS
  <2>2. BeingWoken(f) => BeingWoken(f)'
    <3>1. \A v \in Threads : pc[v] \in {"uncount", "pass"} \/ v \in granted =>
             route'[v] = route[v] /\ pc'[v] = pc[v]
      BY <1>2, <1>6, CallersFact DEF Moves, Queued, Queues
    <3> QED
      BY <1>7, <3>1, BeingWokenKept DEF semaVars
  <2>3. CASE u # t
    <3>1. pc'[u] = pc[u] /\ route'[u] = f /\ (u \in late => u \in late')
      BY <1>6, <1>7, <2>1, <2>3, CallersFact DEF Moves
    <3> QED
      BY <1>7, <1>8, <2>1, <2>2, <3>1, WokenKept DEF IInv
  <2>4. CASE u = t
    <3>1. route'[t] = e /\ entry'[e].routing_flag = entry[e].routing_flag
      BY <1>2, <1>6, <1>8 DEF Moves
    <3> QED
      BY <1>7, <2>4, <3>1 DEF WokenOf
  <2> QED
    BY <2>3, <2>4
<1> QED
  BY <1>7, <1>8, <1>9, <1>10, <1>11, <1>12, <1>13 DEF IInv

LEMMA UncountKeepsIInv ==
    ASSUME IInv, NEW t \in Threads, Uncount(t)
    PROVE  IInv'
<1>1. PICK e : e = route[t]
  OBVIOUS
<1>2. /\ Typing /\ Queued /\ Numbered /\ Cached /\ t \in Callers /\ "pass" \in PC
      /\ pc[t] = "uncount" /\ e \in live /\ e \in Entries
  BY <1>1, CallersFact DEF IInv, Typing, Uncount, At, PC
<1>3. /\ entry[e].waiting_count \in Nat /\ entry[e].waiting_count = Cardinality(Counted(e))
      /\ entry[e].waiting_count > 0
  BY <1>1, <1>2, CountFact DEF IInv, Typing, Records, CountOf, Counting
<1>4. PICK n \in Nat : n = entry[e].waiting_count - 1
  BY <1>3
<1>5. entry' = [entry EXCEPT ![e].waiting_count = n]
  BY <1>1, <1>4 DEF Uncount
<1>6. Moves(t, "pass", e)
  BY <1>1, <1>2, MovesFact DEF Uncount
<1>7. /\ live' = live /\ routing_cache' = routing_cache /\ UNCHANGED semaVars
      /\ alarms' = alarms /\ dest_address' = dest_address /\ broadcast' = broadcast
      /\ doubled' = doubled /\ overtaken' = overtaken
      /\ late' = late \ {t}
  BY <1>1 DEF Uncount
<1>8. /\ Typing'
      /\ entry'[e].waiting_count = n
      /\ \A f \in live : f # e => entry'[f] = entry[f]
      /\ \A f \in live : /\ entry'[f].destination = entry[f].destination
                         /\ entry'[f].retry_count = entry[f].retry_count
                         /\ entry'[f].routing_id = entry[f].routing_id
                         /\ entry'[f].routing_flag = entry[f].routing_flag
                         /\ entry'[f].alarm_id = entry[f].alarm_id
  <2>1. route[t] = e /\ UNCHANGED <<live, routing_cache, semaVars, alarms, dest_address, broadcast>>
    BY <1>1, <1>7
  <2>2. PICK next : next \in {"P", "pass"} /\ Moves(t, next, e)
    BY <1>6
  <2> QED
    BY <1>2, <1>5, <2>1, <2>2, RecountTyping, ZenonT(30)
<1>9. Queued'
  BY <1>2, <1>6, <1>7, <1>8, QueuedKept, CallersFact DEF Queued, Moves, semaVars
<1>10. Numbered' /\ Cached'
  BY <1>2, <1>7, <1>8 DEF Numbered, Cached
<1>11. ASSUME NEW f \in live
       PROVE  RetriesOf(f)' /\ TimedOf(f)'
  <2>1. HandsKept(f)
    BY <1>2, <1>6, MovesKeepHands DEF Places
  <2>2. EntryKept(f)
    BY <1>7, <1>8 DEF EntryKept
  <2> QED
    BY <2>1, <2>2, EntryPartsKept DEF IInv
<1>12. ASSUME NEW f \in live
       PROVE  CountOf(f)'
  <2>1. CASE f # e
    <3>1. Counted(f)' = Counted(f)
      BY <1>1, <1>2, <1>6, <2>1, MovesKeepCounted DEF Counting
    <3> QED
      BY <1>8, <2>1, <3>1 DEF IInv, CountOf
  <2>2. CASE f = e
    <3>1. Counted(e)' = Counted(e) \ {t} /\ t \in Counted(e)
      BY <1>1, <1>2, <1>6, CallersFact DEF Counted, Moves
    <3>2. IsFiniteSet(Counted(e))
      BY MinirouteAssumption, FS_Subset DEF Counted
    <3>3. Cardinality(Counted(e) \ {t}) = Cardinality(Counted(e)) - 1
      BY <3>1, <3>2, FS_RemoveElement
    <3> QED
      BY <1>3, <1>4, <1>8, <2>2, <3>1, <3>3 DEF CountOf
  <2> QED
    BY <2>1, <2>2
<1>13. ASSUME NEW u \in Threads
       PROVE  WokenOf(u)'
  <2>1. PICK f : f = route[u]
    OBVIOUS
  <2>2. BeingWoken(f) => BeingWoken(f)'
    <3>1. \A v \in Threads : pc[v] \in {"uncount", "pass"} \/ v \in granted =>
             route'[v] = route[v] /\ (pc'[v] = pc[v] \/ pc'[v] = "pass")
      BY <1>1, <1>2, <1>6, CallersFact DEF Moves, Queued, Queues
    <3> QED
      BY <1>7, <3>1, BeingWokenKept DEF semaVars
  <2>3. pc'[u] \in {"P", "blocked"} => pc[u] \in {"P", "blocked"} /\ route'[u] = f /\ (u \in late => u \in late')
    BY <1>6, <1>7, <2>1, CallersFact DEF Moves
  <2> QED
    BY <1>7, <1>8, <2>1, <2>2, <2>3, WokenKept DEF IInv
<1> QED
  BY <1>7, <1>8, <1>9, <1>10, <1>11, <1>12, <1>13 DEF IInv

LEMMA PKeepsIInv ==
    ASSUME IInv, NEW t \in Threads, P(t)
    PROVE  IInv'
<1>1. PICK e : e = route[t]
  OBVIOUS
<1>2. /\ Typing /\ Queued /\ Numbered /\ Cached /\ t \in Callers /\ {"uncount", "blocked"} \subseteq PC
      /\ pc[t] \in {"P", "blocked"} /\ live \subseteq Entries
  BY <1>1, CallersFact DEF IInv, Typing, P, At, PC
<1>3. /\ entry' = entry /\ live' = live /\ routing_cache' = routing_cache
      /\ alarms' = alarms /\ route' = route /\ dest_address' = dest_address /\ broadcast' = broadcast
      /\ doubled' = doubled /\ overtaken' = overtaken /\ late' = late
  BY DEF P, ghosts
<1>4. PICK next \in {"uncount", "blocked"} : Goto(t, next) /\ Moves(t, next, e)
  BY <1>1, <1>2, <1>3, MovesFact DEF P
<1>5. /\ value \in [Entries -> Nat] /\ waiting \in [Entries -> Seq(Threads)] /\ granted \subseteq Threads
  BY <1>2 DEF Typing
<1>6. ASSUME /\ value' \in [Entries -> Nat] /\ waiting' \in [Entries -> Seq(Threads)]
             /\ granted' \subseteq Threads /\ Queues(waiting, granted)'
             /\ \A f \in Entries : f # e /\ value[f] > 0 => value'[f] > 0
             /\ \A u \in Threads : u # t /\ u \in granted => u \in granted'
             /\ pc'[t] = "uncount" \/ (value[e] = 0 /\ t \notin granted)
      PROVE  IInv'
  <2>1. Typing'
    BY <1>2, <1>3, <1>4, <1>6, MoveTyping DEF Typing
  <2>2. Numbered' /\ Cached'
    BY <1>2, <1>3 DEF Numbered, Cached
  <2>3. ASSUME NEW f \in live
        PROVE  RetriesOf(f)' /\ TimedOf(f)' /\ CountOf(f)'
    <3>1. HandsKept(f)
      BY <1>2, <1>4, MovesKeepHands DEF Places
    <3>2. Counted(f)' = Counted(f)
      BY <1>1, <1>2, <1>4, MovesKeepCounted DEF Counting
    <3>3. EntryKept(f)
      BY <1>3 DEF EntryKept
    <3> QED
      BY <1>3, <3>1, <3>2, <3>3, EntryPartsKept DEF IInv, CountOf
  <2>4. ASSUME NEW f \in live, BeingWoken(f)
        PROVE  BeingWoken(f)'
    <3>1. CASE f = e /\ pc'[t] = "uncount"
      BY <1>1, <1>3, <3>1 DEF BeingWoken
    <3>2. CASE f = e /\ pc'[t] # "uncount"
      <4>1. PICK v \in Threads : route[v] = f /\ (pc[v] \in {"uncount", "pass"} \/ v \in granted)
        BY <1>5, <1>6, <2>4, <3>2 DEF BeingWoken
      <4>2. v # t
        BY <1>2, <1>6, <3>2, <4>1
      <4>3. route'[v] = f /\ pc'[v] = pc[v] /\ (v \in granted => v \in granted')
        BY <1>3, <1>4, <1>6, <4>1, <4>2, CallersFact DEF Moves
      <4> QED
        BY <4>1, <4>3 DEF BeingWoken
    <3>3. CASE f # e
      <4>1. \A v \in Threads : route[v] = f =>
               route'[v] = f /\ pc'[v] = pc[v] /\ (v \in granted => v \in granted')
        BY <1>1, <1>3, <1>4, <1>6, <3>3, CallersFact DEF Moves
      <4>2. value[f] > 0 => value'[f] > 0
        BY <1>2, <1>6, <3>3
      <4> QED
        BY <2>4, <4>1, <4>2 DEF BeingWoken
    <3> QED
      BY <3>1, <3>2, <3>3
  <2>5. ASSUME NEW u \in Threads
        PROVE  WokenOf(u)'
    <3>1. PICK f : f = route[u]
      OBVIOUS
    <3>2. pc'[u] \in {"P", "blocked"} => pc[u] \in {"P", "blocked"} /\ route'[u] = f /\ (u \in late => u \in late')
      BY <1>2, <1>3, <1>4, <3>1, CallersFact DEF Moves
    <3>3. f \in live' => /\ f \in live /\ entry'[f].routing_flag = entry[f].routing_flag
                         /\ BeingWoken(f) => BeingWoken(f)'
      BY <1>3, <2>4
    <3> QED
      BY <3>1, <3>2, <3>3, WokenKept DEF IInv
  <2> QED
    BY <1>3, <1>6, <2>1, <2>2, <2>3, <2>5 DEF IInv, Queued
<1>7. CASE At(t, "P") /\ Sem!Acquire(e) /\ Goto(t, "uncount")
  <2>1. pc[t] = "P" /\ e \in Entries /\ pc'[t] = "uncount" /\ value[e] > 0
        /\ value' = [value EXCEPT ![e] = @ - 1] /\ waiting' = waiting /\ granted' = granted
    BY <1>1, <1>2, <1>7, GotoFact DEF At, Sem!Acquire
  <2>2. value' \in [Entries -> Nat] /\ \A f \in Entries : f # e => value'[f] = value[f]
    BY <1>5, <2>1
  <2>3. \A u \in Threads : pc[u] = "blocked" => pc'[u] = "blocked" /\ route'[u] = route[u]
    BY <1>3, <1>4, <2>1, CallersFact DEF Moves
  <2>4. \A f \in Entries : \A i \in 1 .. Len(waiting[f]) : waiting[f][i] \in Threads
    BY <1>5, ElementOfSeq
  <2>5. Queues(waiting, granted)'
    BY <1>2, <1>5, <2>1, <2>3, <2>4 DEF Queued, Queues
  <2> QED
    BY <1>5, <1>6, <2>1, <2>2, <2>5
<1>8. CASE At(t, "P") /\ Sem!Wait(t, e) /\ Goto(t, "blocked")
  <2>1. pc[t] = "P" /\ e \in Entries /\ pc'[t] = "blocked" /\ value[e] = 0 /\ t \notin granted
        /\ waiting' = [waiting EXCEPT ![e] = Append(@, t)] /\ value' = value /\ granted' = granted
    BY <1>1, <1>2, <1>8, GotoFact DEF At, Sem!Wait
  <2> DEFINE w == waiting[e]
             w2 == Append(w, t)
  <2>2. /\ w \in Seq(Threads) /\ w2 \in Seq(Threads) /\ Len(w) \in Nat /\ Len(w2) = Len(w) + 1
        /\ \A i \in 1 .. Len(w) : w2[i] = w[i]
        /\ w2[Len(w) + 1] = t
    BY <1>5, <2>1, AppendProperties, LenProperties
  <2>3. \A f \in Entries : \A i \in 1 .. Len(waiting[f]) : waiting[f][i] \in Threads /\ waiting[f][i] # t
    BY <1>2, <1>5, <2>1, ElementOfSeq DEF Queued, Queues
  <2>4. \A u \in Threads : pc[u] = "blocked" => pc'[u] = "blocked" /\ route'[u] = route[u]
    BY <1>3, <1>4, <2>1, CallersFact DEF Moves
  <2>5. /\ waiting' \in [Entries -> Seq(Threads)] /\ waiting'[e] = w2
        /\ \A f \in Entries \ {e} : waiting'[f] = waiting[f]
    BY <1>5, <2>1, <2>2
  <2> HIDE DEF w2
  <2>6. ASSUME NEW f \in Entries, NEW i \in 1 .. Len(waiting'[f])
        PROVE  LET u == waiting'[f][i] IN
               /\ pc'[u] = "blocked" /\ route'[u] = f /\ u \notin granted'
               /\ \A j \in 1 .. Len(waiting'[f]) : waiting'[f][j] = u => i = j
    <3>1. CASE f # e
      <4>1. waiting'[f] = waiting[f] /\ i \in 1 .. Len(waiting[f]) /\ waiting[f][i] \in Threads
        BY <2>3, <2>5, <3>1
      <4>2. LET u == waiting[f][i] IN
            /\ pc[u] = "blocked" /\ route[u] = f /\ u \notin granted
            /\ \A j \in 1 .. Len(waiting[f]) : waiting[f][j] = u => i = j
        BY <1>2, <4>1 DEF Queued, Queues
      <4> QED
        BY <2>1, <2>4, <4>1, <4>2
    <3>2. CASE f = e /\ i = Len(w) + 1
      <4>1. waiting'[f][i] = t /\ route'[t] = f
        BY <1>1, <1>3, <2>2, <2>5, <3>2
      <4>2. \A j \in 1 .. Len(waiting'[f]) : j # i => waiting'[f][j] # t
        <5> SUFFICES ASSUME NEW j \in 1 .. Len(waiting'[f]), j # i
                     PROVE  waiting'[f][j] # t
          OBVIOUS
        <5>1. j \in 1 .. Len(w) /\ waiting'[f][j] = w[j]
          BY <2>2, <2>5, <3>2
        <5> QED
          BY <2>1, <2>3, <5>1
      <4> QED
        BY <2>1, <4>1, <4>2
    <3>3. CASE f = e /\ i # Len(w) + 1
      <4>1. i \in 1 .. Len(w) /\ waiting'[f][i] = w[i] /\ w[i] \in Threads /\ w[i] # t
        BY <2>1, <2>2, <2>3, <2>5, <3>3
      <4>2. /\ pc[w[i]] = "blocked" /\ route[w[i]] = e /\ w[i] \notin granted
            /\ \A j \in 1 .. Len(w) : w[j] = w[i] => i = j
        BY <1>2, <2>1, <4>1 DEF Queued, Queues
      <4>3. \A j \in 1 .. Len(waiting'[f]) : \/ j \in 1 .. Len(w) /\ waiting'[f][j] = w[j]
                                             \/ waiting'[f][j] = t
        BY <2>2, <2>5, <3>3
      <4> QED
        BY <2>1, <2>4, <3>3, <4>1, <4>2, <4>3
    <3> QED
      BY <3>1, <3>2, <3>3
  <2>7. \A u \in granted' : pc'[u] = "blocked"
    BY <1>2, <1>5, <2>1, <2>4 DEF Queued, Queues
  <2>8. Queues(waiting, granted)'
    BY <2>6, <2>7 DEF Queues
  <2> QED
    BY <1>5, <1>6, <2>1, <2>5, <2>8
<1>9. CASE pc[t] = "blocked" /\ Sem!Return(t) /\ Goto(t, "uncount")
  <2>1. t \in granted /\ pc'[t] = "uncount" /\ granted' = granted \ {t} /\ value' = value /\ waiting' = waiting
    BY <1>2, <1>9, GotoFact DEF Sem!Return
  <2>2. \A u \in Threads : u # t /\ pc[u] = "blocked" => pc'[u] = "blocked" /\ route'[u] = route[u]
    BY <1>3, <1>4, CallersFact DEF Moves
  <2>3. \A f \in Entries : \A i \in 1 .. Len(waiting[f]) : waiting[f][i] \in Threads /\ waiting[f][i] # t
    BY <1>2, <1>5, <2>1, ElementOfSeq DEF Queued, Queues
  <2>4. \A u \in granted' : pc'[u] = "blocked"
    BY <1>2, <1>5, <2>1, <2>2 DEF Queued, Queues
  <2>5. ASSUME NEW f \in Entries, NEW i \in 1 .. Len(waiting'[f])
        PROVE  LET u == waiting'[f][i] IN
               /\ pc'[u] = "blocked" /\ route'[u] = f /\ u \notin granted'
               /\ \A j \in 1 .. Len(waiting'[f]) : waiting'[f][j] = u => i = j
    <3>1. waiting'[f][i] = waiting[f][i] /\ waiting[f][i] \in Threads /\ waiting[f][i] # t
      BY <2>1, <2>3
    <3>2. LET u == waiting[f][i] IN
          /\ pc[u] = "blocked" /\ route[u] = f /\ u \notin granted
          /\ \A j \in 1 .. Len(waiting[f]) : waiting[f][j] = u => i = j
      BY <1>2, <2>1 DEF Queued, Queues
    <3> QED
      BY <2>1, <2>2, <3>1, <3>2
  <2>6. Queues(waiting, granted)'
    BY <2>4, <2>5 DEF Queues
  <2> QED
    BY <1>5, <1>6, <2>1, <2>6
<1> QED
  BY <1>1, <1>7, <1>8, <1>9 DEF P

-----------------------------------------------------------------------------
(* rebroadcast, and the alarm thread.                                       *)

(* What a step of a caller that is not in a P leaves alone.                 *)
LEMMA HandMoveKeepsRest ==
    ASSUME IInv, NEW p \in Callers, NEW next, NEW e2, Moves(p, next, e2),
           pc[p] \notin Counting \cup {"pass"}, next \notin Counting \cup {"pass"},
           UNCHANGED <<live, semaVars, late>>,
           \A f \in live : entry'[f].routing_flag = entry[f].routing_flag
    PROVE  /\ Typing' => Queued'
           /\ \A t \in Threads : WokenOf(t)'
           /\ \A f \in live : Counted(f)' = Counted(f)
<1>1. /\ Typing /\ Queued
      /\ live' = live /\ value' = value /\ waiting' = waiting /\ granted' = granted /\ late' = late
  BY DEF IInv, semaVars
<1>2. ASSUME Typing'
      PROVE  Queued'
  BY <1>1, <1>2, QueuedKept DEF Queued, Moves, Counting, Callers
<1>3. ASSUME NEW t \in Threads
      PROVE  WokenOf(t)'
  <2>1. PICK f : f = route[t]
    OBVIOUS
  <2>2. t \in Callers /\ WokenOf(t)
    BY CallersFact DEF IInv
  <2>3. pc'[t] \in {"P", "blocked"} =>
           pc[t] \in {"P", "blocked"} /\ route'[t] = f /\ (t \in late => t \in late')
    BY <1>1, <2>1, <2>2 DEF Moves, Counting
  <2>4. BeingWoken(f) => BeingWoken(f)'
    <3>1. \A u \in Threads : pc[u] \in {"uncount", "pass"} \/ u \in granted =>
             route'[u] = route[u] /\ pc'[u] = pc[u]
      BY <1>1, CallersFact DEF Moves, Counting, Queued, Queues
    <3> QED
      BY <1>1, <3>1, BeingWokenKept
  <2> QED
    BY <1>1, <2>1, <2>2, <2>3, <2>4, WokenKept
<1>4. ASSUME NEW f \in live
      PROVE  Counted(f)' = Counted(f)
  BY <1>1, MovesKeepCounted
<1> QED
  BY <1>2, <1>3, <1>4

(* An entry becomes r, and so may its alarms: the rest of the invariant.    *)
LEMMA ChangeKeepsIInv ==
    ASSUME IInv, NEW e \in live, NEW r \in Records, entry' = [entry EXCEPT ![e] = r],
           r.destination = entry[e].destination, r.waiting_count = entry[e].waiting_count,
           pc' \in [Callers -> PC], route' \in [Callers -> Entries \cup {NULL}],
           \A t \in Threads : pc'[t] = "missed" => pc[t] = "missed",
           UNCHANGED <<live, routing_cache, dest_address, doubled>>,
           value' \in [Entries -> Nat], waiting' \in [Entries -> Seq(Threads)], granted' \subseteq Threads,
           Typing' => Queued',
           \A t \in Threads : WokenOf(t)',
           alarms' \subseteq Entries \X {"retry", "evict"},
           \A f \in live : f # e =>
              /\ HandsKept(f)
              /\ \A k \in {"retry", "evict"} : <<f, k>> \in alarms' <=> <<f, k>> \in alarms
              /\ f \in overtaken' <=> f \in overtaken,
           \A f \in live : Counted(f)' = Counted(f),
           broadcast' \in [Destinations -> SUBSET Nat], Numbered',
           RetriesOf(e)', TimedOf(e)'
    PROVE  IInv'
<1>1. /\ Typing /\ Cached
      /\ live' = live /\ routing_cache' = routing_cache /\ dest_address' = dest_address /\ doubled' = doubled
  BY DEF IInv
<1>2. /\ entry' \in [Entries -> Records \cup {NULL}] /\ entry'[e] = r
      /\ \A f \in live : f # e => entry'[f] = entry[f]
      /\ \A f \in live : entry'[f] \in Records
  BY <1>1, EntryTyping
<1>3. Typing'
  BY <1>1, <1>2 DEF Typing
<1>4. Cached'
  <2>1. \A f \in live : entry'[f].destination = entry[f].destination
    BY <1>2
  <2> QED
    BY <1>1, <2>1 DEF Cached
<1>5. ASSUME NEW f \in live
      PROVE  RetriesOf(f)' /\ TimedOf(f)' /\ CountOf(f)'
  <2>1. CountOf(f)'
    BY <1>2 DEF IInv, CountOf
  <2>2. CASE f # e
    <3>1. HandsKept(f) /\ EntryKept(f)
      BY <1>2, <2>2 DEF EntryKept
    <3> QED
      BY <2>1, <3>1, EntryPartsKept DEF IInv
  <2> QED
    BY <2>1, <2>2
<1> QED
  BY <1>1, <1>3, <1>4, <1>5 DEF IInv

LEMMA BroadcastKeepsIInv ==
    ASSUME IInv, NEW p \in Callers, Broadcast(p)
    PROVE  IInv'
<1>1. PICK e : e = route[p]
  OBVIOUS
<1>2. /\ Typing /\ Numbered /\ Cached /\ "register" \in PC
      /\ pc[p] = "rebroadcast" /\ e \in live /\ entry[e] \in Records
  BY <1>1 DEF IInv, Typing, Broadcast, At, PC
<1>3. /\ entry[e].retry_count \in Nat /\ entry[e].routing_id = entry[e].retry_count
      /\ entry[e].retry_count <= MAX_RETRIES /\ entry[e].destination \in Destinations
      /\ <<e, "retry">> \notin alarms
  BY <1>1, <1>2, MinirouteAssumption DEF IInv, RetriesOf, InHand, Broadcast, Exhausted, Records
<1>4. PICK id \in Nat : id = entry[e].routing_id + 1
  BY <1>3
<1> DEFINE r == [entry[e] EXCEPT !.routing_id = id]
<1>5. /\ entry' = [entry EXCEPT ![e] = r]
      /\ broadcast' = [broadcast EXCEPT ![entry[e].destination] = @ \cup {id}]
      /\ Goto(p, "register") /\ route' = route
      /\ live' = live /\ routing_cache' = routing_cache /\ UNCHANGED semaVars
      /\ alarms' = alarms /\ dest_address' = dest_address
      /\ doubled' = doubled /\ overtaken' = overtaken /\ late' = late
  BY <1>1, <1>4 DEF Broadcast, ghosts
<1>6. /\ r \in Records /\ r.routing_id = id
      /\ r.destination = entry[e].destination /\ r.retry_count = entry[e].retry_count
      /\ r.waiting_count = entry[e].waiting_count /\ r.routing_flag = entry[e].routing_flag
      /\ r.alarm_id = entry[e].alarm_id
  BY <1>2 DEF Records
<1> HIDE DEF r
<1>7. PICK q : q = r
  OBVIOUS
<1>8. entry'[e] = q /\ \A f \in live : f # e => entry'[f] = entry[f]
  BY <1>2, <1>5, <1>6, <1>7, EntryTyping
<1>9. Moves(p, "register", e)
  BY <1>1, <1>2, <1>5, MovesFact
<1>10. id \in 1 .. MAX_RETRIES + 1 /\ id <= MAX_RETRIES + 2
  BY <1>3, <1>4, MinirouteAssumption
<1>11. broadcast' \in [Destinations -> SUBSET Nat] /\ Numbered'
  <2>1. broadcast \in [Destinations -> SUBSET Nat]
    BY <1>2 DEF Typing
  <2>2. broadcast' \in [Destinations -> SUBSET Nat]
    BY <1>3, <1>5, <2>1
  <2>3. \A d \in Destinations : broadcast'[d] \subseteq broadcast[d] \cup {id}
    BY <1>3, <1>5, <2>1
  <2> QED
    BY <1>2, <1>10, <2>2, <2>3 DEF Numbered
<1>12. /\ Typing' => Queued'
       /\ \A t \in Threads : WokenOf(t)'
       /\ \A f \in live : Counted(f)' = Counted(f)
  <2>1. \A f \in live : entry'[f].routing_flag = entry[f].routing_flag
    BY <1>6, <1>7, <1>8
  <2>2. /\ pc[p] \notin Counting \cup {"pass"}
        /\ \E next : next = "register" /\ next \notin Counting \cup {"pass"}
    BY <1>2 DEF Counting
  <2> QED
    BY <1>5, <1>9, <2>1, <2>2, HandMoveKeepsRest
<1>13. RetriesOf(e)'
  <2>1. \A c \in Callers : InHand(c, e)' => c = p
    BY <1>1, <1>2, <1>9 DEF Moves, InHand, IInv, RetriesOf
  <2>2. pc'[p] = "register" /\ route'[p] = e
    BY <1>9 DEF Moves
  <2>3. /\ entry'[e].retry_count = entry[e].retry_count /\ entry'[e].routing_id = id
        /\ entry[e].retry_count <= MAX_RETRIES + 1 /\ id = entry[e].retry_count + 1
        /\ <<e, "retry">> \notin alarms'
    BY <1>3, <1>4, <1>5, <1>6, <1>7, <1>8, MinirouteAssumption
  <2>4. InHand(p, e)'
    BY <2>2 DEF InHand
  <2> QED
    BY <1>3, <1>10, <2>1, <2>2, <2>3, <2>4 DEF RetriesOf
<1>14. TimedOf(e)'
  <2>1. Retrying(e) /\ Retrying(e)' /\ TimedOf(e)
    BY <1>1, <1>2, <1>9 DEF Retrying, Moves, IInv
  <2>2. pc[AlarmThread] = "evict" /\ route[AlarmThread] = e => pc'[AlarmThread] = "evict" /\ route'[AlarmThread] = e
    BY <1>2, <1>9, CallersFact DEF Moves, Callers
  <2> QED
    BY <1>5, <1>6, <1>7, <1>8, <2>1, <2>2 DEF TimedOf
<1>15. \A f \in live : f # e => HandsKept(f)
  BY <1>1, <1>2, <1>9, MovesKeepHands
<1>16. \A t \in Threads : pc'[t] = "missed" => pc[t] = "missed"
  BY <1>9, CallersFact DEF Moves
<1>17. /\ value' \in [Entries -> Nat] /\ waiting' \in [Entries -> Seq(Threads)] /\ granted' \subseteq Threads
       /\ alarms' \subseteq Entries \X {"retry", "evict"}
       /\ pc' \in [Callers -> PC] /\ route' \in [Callers -> Entries \cup {NULL}]
  BY <1>2, <1>5, <1>9 DEF Typing, semaVars, Moves
<1> QED
  BY <1>2, <1>5, <1>6, <1>11, <1>12, <1>13, <1>14, <1>15, <1>16, <1>17, ChangeKeepsIInv

LEMMA RegisterRetryKeepsIInv ==
    ASSUME IInv, NEW p \in Callers, RegisterRetry(p)
    PROVE  IInv'
<1>1. PICK e : e = route[p]
  OBVIOUS
<1>2. /\ Typing /\ Numbered /\ Cached /\ "retried" \in PC
      /\ pc[p] = "register" /\ e \in live /\ e \in Entries /\ entry[e] \in Records
  BY <1>1 DEF IInv, Typing, RegisterRetry, At, PC
<1> DEFINE r == [entry[e] EXCEPT !.alarm_id = "retry"]
<1>3. /\ entry' = [entry EXCEPT ![e] = r]
      /\ alarms' = alarms \cup {<<e, "retry">>}
      /\ Goto(p, "retried") /\ route' = route
      /\ live' = live /\ routing_cache' = routing_cache /\ UNCHANGED semaVars
      /\ broadcast' = broadcast /\ dest_address' = dest_address
      /\ doubled' = doubled /\ overtaken' = overtaken /\ late' = late
  BY <1>1 DEF RegisterRetry, ghosts
<1>4. /\ r \in Records /\ r.routing_id = entry[e].routing_id
      /\ r.destination = entry[e].destination /\ r.retry_count = entry[e].retry_count
      /\ r.waiting_count = entry[e].waiting_count /\ r.routing_flag = entry[e].routing_flag
      /\ r.alarm_id = "retry"
  BY <1>2 DEF Records
<1> HIDE DEF r
<1>5. PICK q : q = r
  OBVIOUS
<1>6. entry'[e] = q /\ \A f \in live : f # e => entry'[f] = entry[f]
  BY <1>2, <1>3, <1>4, <1>5, EntryTyping
<1>7. Moves(p, "retried", e)
  BY <1>1, <1>2, <1>3, MovesFact
<1>8. /\ Typing' => Queued'
      /\ \A t \in Threads : WokenOf(t)'
      /\ \A f \in live : Counted(f)' = Counted(f)
  <2>1. \A f \in live : entry'[f].routing_flag = entry[f].routing_flag
    BY <1>4, <1>5, <1>6
  <2>2. /\ pc[p] \notin Counting \cup {"pass"}
        /\ \E next : next = "retried" /\ next \notin Counting \cup {"pass"}
    BY <1>2 DEF Counting
  <2> QED
    BY <1>3, <1>7, <2>1, <2>2, HandMoveKeepsRest
<1>9. RetriesOf(e)'
  <2>1. \A c \in Callers : InHand(c, e)' <=> InHand(c, e)
    BY <1>1, <1>2, <1>7 DEF Moves, InHand
  <2>2. pc'[p] = "retried" /\ InHand(p, e) /\ InHand(p, e)'
    BY <1>1, <1>2, <1>7 DEF Moves, InHand
  <2>3. entry'[e].retry_count = entry[e].retry_count /\ entry'[e].routing_id = entry[e].routing_id
    BY <1>4, <1>5, <1>6
  <2> QED
    BY <1>2, <2>1, <2>2, <2>3 DEF RetriesOf, IInv
<1>10. TimedOf(e)'
  <2>1. Retrying(e) /\ TimedOf(e)
    BY <1>1, <1>2 DEF Retrying, IInv
  <2>2. pc[AlarmThread] = "evict" /\ route[AlarmThread] = e => pc'[AlarmThread] = "evict" /\ route'[AlarmThread] = e
    BY <1>2, <1>7, CallersFact DEF Moves, Callers
  <2> QED
    BY <1>3, <1>4, <1>5, <1>6, <2>1, <2>2 DEF TimedOf
<1>11. \A f \in live : f # e => HandsKept(f)
  BY <1>1, <1>2, <1>7, MovesKeepHands
<1>12. \A t \in Threads : pc'[t] = "missed" => pc[t] = "missed"
  BY <1>7, CallersFact DEF Moves
<1>13. /\ value' \in [Entries -> Nat] /\ waiting' \in [Entries -> Seq(Threads)] /\ granted' \subseteq Threads
       /\ alarms' \subseteq Entries \X {"retry", "evict"}
       /\ pc' \in [Callers -> PC] /\ route' \in [Callers -> Entries \cup {NULL}]
       /\ broadcast' \in [Destinations -> SUBSET Nat] /\ Numbered'
  BY <1>2, <1>3, <1>7 DEF Typing, semaVars, Moves, Numbered
<1>14. \A f \in live : f # e =>
          /\ \A k \in {"retry", "evict"} : <<f, k>> \in alarms' <=> <<f, k>> \in alarms
          /\ f \in overtaken' <=> f \in overtaken
  BY <1>3
<1> QED
  BY <1>2, <1>3, <1>4, <1>8, <1>9, <1>10, <1>11, <1>12, <1>13, <1>14, ChangeKeepsIInv

LEMMA RetriedKeepsIInv ==
    ASSUME IInv, NEW p \in Callers, Retried(p)
    PROVE  IInv'
<1>1. PICK e : e = route[p]
  OBVIOUS
<1>2. /\ Typing /\ Numbered /\ Cached
      /\ pc[p] = "retried" /\ e \in live /\ e \in Entries /\ entry[e] \in Records
  BY <1>1 DEF IInv, Typing, Retried, At
<1>3. /\ entry[e].retry_count \in Nat /\ entry[e].routing_id = entry[e].retry_count + 1
      /\ entry[e].retry_count <= MAX_RETRIES
  BY <1>1, <1>2 DEF IInv, RetriesOf, InHand, Records
<1>4. PICK n \in Nat : n = entry[e].retry_count + 1
  BY <1>3
<1> DEFINE r == [entry[e] EXCEPT !.retry_count = n]
<1>5. /\ entry' = [entry EXCEPT ![e] = r]
      /\ Back(p)
      /\ live' = live /\ routing_cache' = routing_cache /\ UNCHANGED semaVars
      /\ alarms' = alarms /\ broadcast' = broadcast /\ dest_address' = dest_address
      /\ doubled' = doubled /\ overtaken' = overtaken /\ late' = late
  BY <1>1, <1>4 DEF Retried, ghosts
<1>6. /\ r \in Records /\ r.routing_id = entry[e].routing_id
      /\ r.destination = entry[e].destination /\ r.retry_count = n
      /\ r.waiting_count = entry[e].waiting_count /\ r.routing_flag = entry[e].routing_flag
      /\ r.alarm_id = entry[e].alarm_id
  BY <1>2 DEF Records
<1> HIDE DEF r
<1>7. PICK q : q = r
  OBVIOUS
<1>8. entry'[e] = q /\ \A f \in live : f # e => entry'[f] = entry[f]
  BY <1>2, <1>5, <1>6, <1>7, EntryTyping
<1>9. PICK next \in {"idle", "count"}, e2 \in {NULL, e} : Moves(p, next, e2)
  BY <1>1, <1>2, <1>5, MovesFact
<1>10. /\ Typing' => Queued'
       /\ \A t \in Threads : WokenOf(t)'
       /\ \A f \in live : Counted(f)' = Counted(f)
  <2>1. \A f \in live : entry'[f].routing_flag = entry[f].routing_flag
    BY <1>6, <1>7, <1>8
  <2>2. pc[p] \notin Counting \cup {"pass"} /\ next \notin Counting \cup {"pass"}
    BY <1>2 DEF Counting
  <2> QED
    BY <1>5, <1>9, <2>1, <2>2, HandMoveKeepsRest
<1>11. RetriesOf(e)'
  <2>1. \A c \in Callers : ~InHand(c, e)'
    BY <1>1, <1>2, <1>9 DEF Moves, InHand, IInv, RetriesOf
  <2>2. entry'[e].retry_count = n /\ entry'[e].routing_id = n
        /\ n <= MAX_RETRIES + 1 /\ n <= MAX_RETRIES + 2
    BY <1>3, <1>4, <1>6, <1>7, <1>8, MinirouteAssumption
  <2> QED
    BY <2>1, <2>2 DEF RetriesOf
<1>12. TimedOf(e)'
  <2>1. TimedOf(e) /\ (Retrying(e)' <=> Retrying(e))
    BY <1>1, <1>2, <1>9 DEF Retrying, Moves, IInv
  <2>2. pc[AlarmThread] = "evict" /\ route[AlarmThread] = e => pc'[AlarmThread] = "evict" /\ route'[AlarmThread] = e
    BY <1>2, <1>9, CallersFact DEF Moves, Callers
  <2> QED
    BY <1>5, <1>6, <1>7, <1>8, <2>1, <2>2 DEF TimedOf
<1>13. \A f \in live : f # e => HandsKept(f)
  BY <1>1, <1>2, <1>9, MovesKeepHands DEF Places
<1>14. \A t \in Threads : pc'[t] = "missed" => pc[t] = "missed"
  BY <1>9, CallersFact DEF Moves
<1>15. /\ value' \in [Entries -> Nat] /\ waiting' \in [Entries -> Seq(Threads)] /\ granted' \subseteq Threads
       /\ alarms' \subseteq Entries \X {"retry", "evict"}
       /\ pc' \in [Callers -> PC] /\ route' \in [Callers -> Entries \cup {NULL}]
       /\ broadcast' \in [Destinations -> SUBSET Nat] /\ Numbered'
  BY <1>2, <1>5, <1>9 DEF Typing, semaVars, Moves, Numbered
<1> QED
  BY <1>2, <1>5, <1>6, <1>10, <1>11, <1>12, <1>13, <1>14, <1>15, ChangeKeepsIInv

LEMMA GiveUpKeepsIInv ==
    ASSUME IInv, NEW p \in Callers, GiveUp(p)
    PROVE  IInv'
<1>1. PICK e : e = route[p]
  OBVIOUS
<1>2. /\ Typing /\ Numbered /\ Cached
      /\ pc[p] = "rebroadcast" /\ e \in live /\ e \in Entries /\ entry[e] \in Records
  BY <1>1 DEF IInv, Typing, GiveUp, At
<1>3. Back(p) /\ UNCHANGED <<alarms, dest_address, broadcast, doubled, late>>
  BY DEF GiveUp
<1>4. CASE ~(entry[e].waiting_count > 0)
  BY <1>1, <1>2, <1>3, <1>4, DestroyKeepsIInv DEF GiveUp, Counting
<1>5. CASE entry[e].waiting_count > 0
  <2>1. /\ entry[e].retry_count \in Nat /\ entry[e].routing_id = entry[e].retry_count
        /\ entry[e].retry_count <= MAX_RETRIES + 1 /\ <<e, "retry">> \notin alarms
    BY <1>1, <1>2 DEF IInv, RetriesOf, InHand, Records
  <2>2. PICK id \in Nat : id = entry[e].routing_id + 1
    BY <2>1
  <2> DEFINE r == [entry[e] EXCEPT !.routing_id = id, !.routing_flag = 2]
  <2>3. entry' = [entry EXCEPT ![e].routing_id = @ + 1, ![e].routing_flag = 2]
    BY <1>1, <1>5 DEF GiveUp
  <2>4. /\ entry' = [entry EXCEPT ![e] = r]
    BY <1>2, <2>2, <2>3 DEF Typing
  <2>5. /\ V(e) /\ live' = live /\ routing_cache' = routing_cache
        /\ alarms' = alarms /\ broadcast' = broadcast /\ dest_address' = dest_address
        /\ doubled' = doubled /\ overtaken' = overtaken /\ late' = late
    BY <1>1, <1>5 DEF GiveUp
  <2>6. /\ r \in Records /\ r.routing_id = id
        /\ r.destination = entry[e].destination /\ r.retry_count = entry[e].retry_count
        /\ r.waiting_count = entry[e].waiting_count /\ r.routing_flag = 2
    <3> DEFINE s == [entry[e] EXCEPT !.routing_id = id]
    <3>1. /\ s \in Records /\ s.routing_id = id
          /\ s.destination = entry[e].destination /\ s.retry_count = entry[e].retry_count
          /\ s.waiting_count = entry[e].waiting_count
      BY <1>2 DEF Records
    <3>2. r = [s EXCEPT !.routing_flag = 2]
      BY <1>2 DEF Records
    <3> HIDE DEF s, r
    <3> QED
      BY <3>1, <3>2 DEF Records
  <2> HIDE DEF r
  <2>7. PICK q : q = r
    OBVIOUS
  <2>8. entry'[e] = q /\ \A f \in live : f # e => entry'[f] = entry[f]
    BY <1>2, <2>4, <2>6, <2>7, EntryTyping
  <2>9. PICK next \in {"idle", "count"}, e2 \in {NULL, e} : Moves(p, next, e2)
    BY <1>1, <1>2, <1>3, MovesFact
  <2>10. \A u \in Threads :
            pc[u] \in Counting \/ pc'[u] \in Counting \/ (pc[u] = "pass" /\ route[u] # e) =>
               pc'[u] = pc[u] /\ route'[u] = route[u]
    BY <1>2, <2>9, CallersFact DEF Moves, Counting
  <2>11. \A t \in Threads : WokenOf(t)'
    BY <1>2, <1>5, <2>5, <2>8, <2>10, WakeKeepsWoken
  <2>12. /\ value' \in [Entries -> Nat] /\ waiting' \in [Entries -> Seq(Threads)]
         /\ granted' \subseteq Threads
         /\ Typing' => Queued'
    <3>1. \A t \in Threads : pc[t] = "blocked" => pc'[t] = "blocked" /\ route'[t] = route[t]
      BY <2>10 DEF Counting
    <3>2. pc' \in [Callers -> PC]
      BY <2>9 DEF Moves
    <3> QED
      BY <1>2, <2>5, <3>1, <3>2, WakeKeepsQueued
  <2>13. \A f \in live : Counted(f)' = Counted(f)
    BY <1>2, <2>9, MovesKeepCounted DEF Counting
  <2>14. RetriesOf(e)'
    <3>1. \A c \in Callers : ~InHand(c, e)'
      BY <1>1, <1>2, <2>9 DEF Moves, InHand, IInv, RetriesOf
    <3>2. /\ entry'[e].retry_count <= MAX_RETRIES + 1 /\ entry'[e].routing_id <= MAX_RETRIES + 2
          /\ <<e, "retry">> \notin alarms'
      BY <2>1, <2>2, <2>5, <2>6, <2>7, <2>8, MinirouteAssumption
    <3> QED
      BY <3>1, <3>2 DEF RetriesOf
  <2>15. TimedOf(e)'
    BY <2>6, <2>7, <2>8 DEF TimedOf
  <2>16. \A f \in live : f # e => HandsKept(f)
    BY <1>1, <1>2, <2>9, MovesKeepHands DEF Places
  <2>17. \A t \in Threads : pc'[t] = "missed" => pc[t] = "missed"
    BY <2>9, CallersFact DEF Moves
  <2>18. /\ alarms' \subseteq Entries \X {"retry", "evict"}
         /\ pc' \in [Callers -> PC] /\ route' \in [Callers -> Entries \cup {NULL}]
         /\ broadcast' \in [Destinations -> SUBSET Nat] /\ Numbered'
    BY <1>2, <2>5, <2>9 DEF Typing, Moves, Numbered
  <2> QED
    BY <1>2, <2>4, <2>5, <2>6, <2>11, <2>12, <2>13, <2>14, <2>15, <2>16, <2>17, <2>18, ChangeKeepsIInv
<1> QED
  BY <1>4, <1>5

LEMMA FireKeepsIInv ==
    ASSUME IInv, NEW e \in Entries, NEW kind \in {"retry", "evict"}, Fire(e, kind)
    PROVE  IInv'
<1>1. /\ Typing /\ Queued /\ Numbered /\ Cached /\ AlarmThread \in Callers
      /\ {"rebroadcast", "evict"} \subseteq PC /\ e \in Entries \cup {NULL}
      /\ pc[AlarmThread] = "idle" /\ <<e, kind>> \in alarms
      /\ kind = "retry" => \A t \in Threads : ~(route[t] = e /\ pc[t] = "retried")
  BY CallersFact DEF IInv, Fire, PC
<1>2. PICK next \in {"rebroadcast", "evict"} :
         /\ next = IF kind = "retry" THEN "rebroadcast" ELSE "evict"
         /\ Goto(AlarmThread, next)
  BY DEF Fire
<1>3. /\ alarms' = alarms \ {<<e, kind>>}
      /\ entry' = entry /\ live' = live /\ routing_cache' = routing_cache /\ UNCHANGED semaVars
      /\ broadcast' = broadcast /\ dest_address' = dest_address
      /\ doubled' = doubled /\ overtaken' = overtaken /\ late' = late
  BY DEF Fire, ghosts
<1>4. Moves(AlarmThread, next, e)
  BY <1>1, <1>2, MovesFact DEF Fire
<1>5. /\ Typing' => Queued'
      /\ \A t \in Threads : WokenOf(t)'
      /\ \A f \in live : Counted(f)' = Counted(f)
  <2>1. pc[AlarmThread] \notin Counting \cup {"pass"} /\ next \notin Counting \cup {"pass"}
    BY <1>1 DEF Counting
  <2> QED
    BY <1>1, <1>3, <1>4, <2>1, HandMoveKeepsRest
<1>6. Typing'
  BY <1>1, <1>3, <1>4, MoveTyping DEF Typing, semaVars
<1>7. Numbered' /\ Cached'
  BY <1>1, <1>3 DEF Numbered, Cached
<1>8. ASSUME NEW f \in live, f # e
      PROVE  RetriesOf(f)' /\ TimedOf(f)'
  <2>1. HandsKept(f)
    BY <1>1, <1>4, <1>8, MovesKeepHands DEF Places
  <2>2. EntryKept(f)
    BY <1>3, <1>8 DEF EntryKept
  <2> QED
    BY <2>1, <2>2, EntryPartsKept DEF IInv
<1>9. ASSUME e \in live, kind = "retry"
      PROVE  RetriesOf(e)' /\ TimedOf(e)'
  <2>1. RetriesOf(e) /\ TimedOf(e)
    BY <1>9 DEF IInv
  <2>2. \A c \in Callers : ~InHand(c, e)
    <3> SUFFICES ASSUME NEW c \in Callers, InHand(c, e)
                 PROVE  FALSE
      OBVIOUS
    <3>1. pc[c] = "retried" /\ route[c] = e
      BY <1>1, <1>9, <2>1 DEF RetriesOf, InHand
    <3> QED
      BY <1>1, <1>9, <3>1, CallersFact
  <2>3. /\ \A c \in Callers : InHand(c, e)' => c = AlarmThread
        /\ pc'[AlarmThread] = "rebroadcast" /\ route'[AlarmThread] = e
        /\ <<e, "retry">> \notin alarms'
        /\ <<e, "evict">> \in alarms => <<e, "evict">> \in alarms'
    BY <1>2, <1>3, <1>4, <1>9, <2>2 DEF Moves, InHand
  <2>4. RetriesOf(e)'
    <3>1. entry[e].routing_id = entry[e].retry_count
      BY <1>1, <1>9, <2>1, <2>2 DEF RetriesOf
    <3> QED
      BY <1>3, <2>1, <2>3, <3>1 DEF RetriesOf
  <2>5. Retrying(e)'
    BY <1>1, <2>3 DEF Retrying
  <2>6. TimedOf(e)'
    BY <1>1, <1>3, <1>9, <2>1, <2>3, <2>5 DEF TimedOf
  <2> QED
    BY <2>4, <2>6
<1>10. ASSUME e \in live, kind = "evict"
       PROVE  RetriesOf(e)' /\ TimedOf(e)'
  <2>1. RetriesOf(e) /\ TimedOf(e)
    BY <1>10 DEF IInv
  <2>2. /\ \A c \in Callers : (InHand(c, e)' <=> InHand(c, e)) /\ (InHand(c, e) => pc'[c] = pc[c])
        /\ Retrying(e)' <=> Retrying(e)
        /\ pc'[AlarmThread] = "evict" /\ route'[AlarmThread] = e
        /\ <<e, "retry">> \in alarms' <=> <<e, "retry">> \in alarms
    BY <1>1, <1>2, <1>3, <1>4, <1>10 DEF Moves, InHand, Retrying
  <2>3. RetriesOf(e)'
    BY <1>3, <2>1, <2>2 DEF RetriesOf
  <2>4. TimedOf(e)'
    BY <1>3, <2>1, <2>2 DEF TimedOf
  <2> QED
    BY <2>3, <2>4
<1>11. \A f \in live : CountOf(f)'
  BY <1>3, <1>5 DEF IInv, CountOf
<1> QED
  BY <1>3, <1>5, <1>6, <1>7, <1>8, <1>9, <1>10, <1>11 DEF IInv

LEMMA EvictKeepsIInv ==
    ASSUME IInv, cache_evict
    PROVE  IInv'
<1>1. AlarmThread \in Callers /\ pc[AlarmThread] = "evict" /\ route[AlarmThread] \in live
  BY CallersFact DEF cache_evict, At
<1>2. PICK e : e = route[AlarmThread]
  OBVIOUS
<1> QED
  BY <1>1, <1>2, DestroyKeepsIInv DEF cache_evict, Counting

-----------------------------------------------------------------------------
(* The network handler, the creation of an entry, and the last step.        *)

Untouched ==
    UNCHANGED <<entry, live, routing_cache, semaVars, alarms, pc, route, dest_address,
                broadcast, ghosts>>

LEMMA UntouchedKeepsIInv ==
    ASSUME IInv, Untouched
    PROVE  IInv'
<1>1. /\ entry' = entry /\ live' = live /\ routing_cache' = routing_cache
      /\ value' = value /\ waiting' = waiting /\ granted' = granted
      /\ alarms' = alarms /\ pc' = pc /\ route' = route
      /\ dest_address' = dest_address /\ broadcast' = broadcast
      /\ doubled' = doubled /\ overtaken' = overtaken /\ late' = late
  BY DEF Untouched, semaVars, ghosts
<1>2. Typing' /\ Queued' /\ Numbered' /\ Cached'
  BY <1>1 DEF IInv, Typing, Queued, Queues, Numbered, Cached
<1>3. ASSUME NEW e \in live
      PROVE  RetriesOf(e)' /\ TimedOf(e)' /\ CountOf(e)'
  <2>1. HandsKept(e) /\ Counted(e)' = Counted(e) /\ EntryKept(e)
    BY <1>1 DEF HandsKept, InHand, Counted, EntryKept
  <2> QED
    BY <1>1, <2>1, EntryPartsKept DEF IInv, CountOf
<1>4. ASSUME NEW t \in Threads
      PROVE  WokenOf(t)'
  BY <1>1 DEF IInv, WokenOf, BeingWoken
<1> QED
  BY <1>1, <1>2, <1>3, <1>4 DEF IInv

LEMMA ReplyKeepsIInv ==
    ASSUME IInv, NEW d \in Destinations, NEW id \in broadcast[d], Reply(d, id)
    PROVE  IInv'
<1>1. /\ Typing /\ Numbered /\ Cached /\ AlarmThread \in Callers
      /\ live' = live /\ routing_cache' = routing_cache
      /\ pc' = pc /\ route' = route
      /\ broadcast' = broadcast /\ dest_address' = dest_address
      /\ doubled' = doubled /\ late' = late
  BY CallersFact DEF IInv, Reply
<1>2. CASE UNCHANGED <<entry, semaVars, alarms, overtaken>>
  BY <1>1, <1>2, UntouchedKeepsIInv DEF Untouched, ghosts
<1>3. CASE \E e \in Hits(d) :
              /\ e \in live /\ entry[e].routing_flag = 0
              /\ Answered(e)
              /\ overtaken' = IF Retrying(e) THEN overtaken \cup {e} ELSE overtaken
  <2>1. PICK e \in live : /\ entry[e].routing_flag = 0
                          /\ Answered(e)
                          /\ overtaken' = IF Retrying(e) THEN overtaken \cup {e} ELSE overtaken
    BY <1>3
  <2>2. e \in Entries /\ entry[e] \in Records /\ RetriesOf(e) /\ TimedOf(e)
    BY <1>1 DEF IInv, Typing
  <2> DEFINE s == [entry[e] EXCEPT !.routing_flag = 1]
             r == [s EXCEPT !.alarm_id = "evict"]
  <2>3. /\ s \in Records /\ s.routing_flag = 1 /\ s.routing_id = entry[e].routing_id
        /\ s.destination = entry[e].destination /\ s.retry_count = entry[e].retry_count
        /\ s.waiting_count = entry[e].waiting_count
    BY <2>2 DEF Records
  <2>4. entry' = [entry EXCEPT ![e].routing_flag = 1, ![e].alarm_id = "evict"]
    BY <2>1 DEF Answered
  <2>5. entry' = [entry EXCEPT ![e] = r]
    BY <1>1, <2>2, <2>4 DEF Typing
  <2> HIDE DEF s
  <2>6. /\ r \in Records /\ r.routing_flag = 1 /\ r.routing_id = entry[e].routing_id
        /\ r.destination = entry[e].destination /\ r.retry_count = entry[e].retry_count
        /\ r.waiting_count = entry[e].waiting_count
    BY <2>3 DEF Records
  <2> HIDE DEF r
  <2>7. PICK q : q = r
    OBVIOUS
  <2>8. entry'[e] = q /\ \A f \in live : f # e => entry'[f] = entry[f]
    BY <1>1, <2>5, <2>6, <2>7, EntryTyping
  <2>9. alarms' = (alarms \ {<<e, entry[e].alarm_id>>}) \cup {<<e, "evict">>}
    BY <2>1 DEF Answered
  <2>10. IF entry[e].waiting_count > 0 THEN V(e) ELSE UNCHANGED semaVars
    BY <2>1 DEF Answered
  <2>11. \A t \in Threads : WokenOf(t)'
    BY <1>1, <2>8, <2>10, WakeKeepsWoken
  <2>12. /\ value' \in [Entries -> Nat] /\ waiting' \in [Entries -> Seq(Threads)]
         /\ granted' \subseteq Threads
         /\ Typing' => Queued'
    <3>1. V(e) \/ UNCHANGED semaVars
      BY <2>10
    <3>2. pc' \in [Callers -> PC]
      BY <1>1 DEF Typing
    <3> QED
      BY <1>1, <3>1, <3>2, WakeKeepsQueued
  <2>13. \A f \in live : Counted(f)' = Counted(f) /\ HandsKept(f)
    BY <1>1 DEF Counted, HandsKept, InHand
  <2>14. RetriesOf(e)'
    <3>1. <<e, "retry">> \in alarms' => <<e, "retry">> \in alarms
      BY <2>9
    <3>2. \A c \in Callers : InHand(c, e)' <=> InHand(c, e)
      BY <1>1 DEF InHand
    <3> QED
      BY <1>1, <2>2, <2>6, <2>7, <2>8, <3>1, <3>2 DEF RetriesOf
  <2>15. TimedOf(e)'
    <3>1. ~Retrying(e) => <<e, "retry">> \notin alarms'
      BY <2>1, <2>2, <2>9 DEF TimedOf
    <3>2. (Retrying(e)' <=> Retrying(e)) /\ <<e, "evict">> \in alarms'
      BY <1>1, <2>9 DEF Retrying
    <3> QED
      BY <2>1, <2>6, <2>7, <2>8, <3>1, <3>2 DEF TimedOf
  <2>16. \A f \in live : f # e =>
            /\ \A k \in {"retry", "evict"} : <<f, k>> \in alarms' <=> <<f, k>> \in alarms
            /\ f \in overtaken' <=> f \in overtaken
    BY <2>1, <2>9
  <2>17. /\ alarms' \subseteq Entries \X {"retry", "evict"}
         /\ pc' \in [Callers -> PC] /\ route' \in [Callers -> Entries \cup {NULL}]
         /\ broadcast' \in [Destinations -> SUBSET Nat] /\ Numbered'
    BY <1>1, <2>2, <2>9 DEF Typing, Numbered
  <2> QED
    BY <1>1, <2>5, <2>6, <2>11, <2>12, <2>13, <2>14, <2>15, <2>16, <2>17, ChangeKeepsIInv
<1> QED
  BY <1>2, <1>3 DEF Reply

LEMMA CreateKeepsIInv ==
    ASSUME IInv, NEW t \in Threads, Create(t)
    PROVE  IInv'
<1>1. /\ Typing /\ Queued /\ Numbered /\ Cached /\ t \in Callers /\ "rebroadcast" \in PC
      /\ pc[t] = "missed" /\ dest_address[t] \in Destinations
  BY CallersFact DEF IInv, Typing, Create, PC
<1>2. PICK d \in Destinations : d = dest_address[t]
  BY <1>1
<1>3. PICK e \in Entries :
         /\ Unreferenced(e)
         /\ entry' = [entry EXCEPT ![e] = Fresh(d)]
         /\ live' = live \cup {e}
         /\ value' = [value EXCEPT ![e] = 0]
         /\ routing_cache' = IF Cardinality(routing_cache) < SIZE_OF_ROUTE_CACHE
                             THEN routing_cache \cup {e} ELSE routing_cache
         /\ route' = [route EXCEPT ![t] = e]
  BY <1>2 DEF Create
<1>4. /\ doubled' = (doubled \/ \E f \in live : entry[f].destination = d)
      /\ Goto(t, "rebroadcast")
      /\ dest_address' = [dest_address EXCEPT ![t] = NULL]
      /\ waiting' = waiting /\ granted' = granted /\ alarms' = alarms /\ broadcast' = broadcast
      /\ overtaken' = overtaken /\ late' = late
  BY <1>2 DEF Create
<1>5. /\ e \notin live /\ e \notin routing_cache
      /\ \A c \in Callers : route[c] # e
      /\ \A k : <<e, k>> \notin alarms
  BY <1>3 DEF Unreferenced
<1>6. Moves(t, "rebroadcast", e)
  BY <1>1, <1>3, <1>4, MovesFact
<1>7. PICK r \in Records : /\ r = Fresh(d) /\ r.destination = d /\ r.routing_flag = 0
                           /\ r.retry_count = 0 /\ r.routing_id = 0 /\ r.waiting_count = 0
  <2>1. /\ Fresh(d) \in Records /\ Fresh(d).destination = d /\ Fresh(d).routing_flag = 0
        /\ Fresh(d).retry_count = 0 /\ Fresh(d).routing_id = 0 /\ Fresh(d).waiting_count = 0
    BY DEF Records, Fresh
  <2> QED
    BY <2>1
<1>8. /\ entry' \in [Entries -> Records \cup {NULL}] /\ entry'[e] = r
      /\ \A f \in live : entry'[f] = entry[f] /\ f # e
      /\ \A f \in live' : entry'[f] \in Records
  BY <1>1, <1>3, <1>5, <1>7 DEF Typing
<1>9. value' \in [Entries -> Nat] /\ \A f \in Entries : f # e => value'[f] = value[f]
  BY <1>1, <1>3 DEF Typing
<1>10. Typing'
  <2>1. /\ dest_address' \in [Threads -> Destinations \cup {NULL}]
        /\ \A u \in Threads : pc'[u] = "missed" => dest_address'[u] \in Destinations
    BY <1>1, <1>4, <1>6, CallersFact DEF Typing, Moves
  <2>2. live' \subseteq Entries /\ routing_cache' \subseteq Entries
    BY <1>1, <1>3 DEF Typing
  <2> QED
    BY <1>1, <1>4, <1>6, <1>8, <1>9, <2>1, <2>2 DEF Typing, Moves
<1>11. Queued'
  <2>1. \A u \in Threads : pc[u] = "blocked" => pc'[u] = "blocked" /\ route'[u] = route[u]
    BY <1>1, <1>6, CallersFact DEF Moves
  <2> QED
    BY <1>1, <1>4, <1>10, <2>1, QueuedKept DEF Queued
<1>12. Numbered'
  BY <1>1, <1>4 DEF Numbered
<1>13. Cached'
  <2>1. IsFiniteSet(routing_cache) /\ Cardinality(routing_cache) \in Nat
    BY <1>1, MinirouteAssumption, FS_Subset, FS_CardinalityType DEF Typing
  <2>2. Cardinality(routing_cache \cup {e}) = Cardinality(routing_cache) + 1
    BY <1>5, <2>1, FS_AddElement
  <2>3. Cardinality(routing_cache') <= SIZE_OF_ROUTE_CACHE
    BY <1>1, <1>3, <2>1, <2>2, MinirouteAssumption DEF Cached
  <2>4. ASSUME ~doubled'
        PROVE  /\ routing_cache' \subseteq live'
               /\ \A f, g \in live' : entry'[f].destination = entry'[g].destination => f = g
    <3>1. ~doubled /\ \A f \in live : entry[f].destination # d
      BY <1>4, <2>4
    <3>2. /\ routing_cache \subseteq live
          /\ \A f, g \in live : entry[f].destination = entry[g].destination => f = g
      BY <1>1, <3>1 DEF Cached
    <3> QED
      BY <1>3, <1>7, <1>8, <3>1, <3>2
  <2> QED
    BY <2>3, <2>4 DEF Cached
<1>14. ASSUME NEW f \in live
       PROVE  RetriesOf(f)' /\ TimedOf(f)' /\ CountOf(f)'
  <2>1. f # e
    BY <1>5
  <2>2. HandsKept(f) /\ Counted(f)' = Counted(f)
    BY <1>1, <1>6, <2>1, MovesKeepHands, MovesKeepCounted DEF Places, Counting
  <2>3. EntryKept(f)
    BY <1>4, <1>8 DEF EntryKept
  <2> QED
    BY <1>8, <2>2, <2>3, EntryPartsKept DEF IInv, CountOf
<1>15. RetriesOf(e)' /\ TimedOf(e)' /\ CountOf(e)'
  <2>1. /\ pc'[t] = "rebroadcast" /\ route'[t] = e
        /\ \A c \in Callers : c # t => route'[c] # e
    BY <1>5, <1>6 DEF Moves
  <2>2. \A k : <<e, k>> \notin alarms'
    BY <1>4, <1>5
  <2>3. RetriesOf(e)'
    BY <1>7, <1>8, <2>1, <2>2, MinirouteAssumption DEF RetriesOf, InHand
  <2>4. TimedOf(e)'
    BY <1>1, <1>7, <1>8, <2>1, <2>2 DEF TimedOf, Retrying
  <2>5. Counted(e)' = {}
    BY <2>1, CallersFact DEF Counted
  <2> QED
    BY <1>7, <1>8, <2>3, <2>4, <2>5, FS_EmptySet DEF CountOf
<1>16. ASSUME NEW u \in Threads
       PROVE  WokenOf(u)'
  <2>1. PICK f : f = route[u]
    OBVIOUS
  <2>2. u \in Callers /\ f # e
    BY <1>5, <2>1, CallersFact
  <2>3. pc'[u] \in {"P", "blocked"} =>
           pc[u] \in {"P", "blocked"} /\ route'[u] = f /\ (u \in late => u \in late')
    BY <1>4, <1>6, <2>1, <2>2 DEF Moves
  <2>4. \A v \in Threads : pc[v] \in {"uncount", "pass"} \/ v \in granted =>
           route'[v] = route[v] /\ pc'[v] = pc[v]
    BY <1>1, <1>6, CallersFact DEF Moves, Queued, Queues
  <2>5. f \in live' => f \in live /\ f \in Entries
    BY <1>1, <1>3, <2>2 DEF Typing
  <2>6. f \in live' => (BeingWoken(f) => BeingWoken(f)')
    BY <1>4, <1>9, <2>2, <2>4, <2>5, BeingWokenKept
  <2> QED
    BY <1>8, <2>1, <2>3, <2>5, <2>6, WokenKept DEF IInv
<1> QED
  BY <1>3, <1>10, <1>11, <1>12, <1>13, <1>14, <1>15, <1>16 DEF IInv

-----------------------------------------------------------------------------
(* Together.                                                                *)

LEMMA InitIInv == Init => IInv
<1> SUFFICES ASSUME Init
             PROVE  IInv
  OBVIOUS
<1>1. Typing
  BY CallersFact, EmptySeq DEF Init, Typing, Sem!Init, PC
<1>2. Queued
  BY DEF Init, Queued, Queues, Sem!Init
<1>3. Numbered
  BY DEF Init, Numbered
<1>4. Cached
  BY FS_EmptySet, MinirouteAssumption DEF Init, Cached
<1>5. \A t \in Threads : WokenOf(t)
  BY CallersFact DEF Init, WokenOf
<1> QED
  BY <1>1, <1>2, <1>3, <1>4, <1>5 DEF Init, IInv

LEMMA NextKeepsIInv == IInv /\ [Next]_vars => IInv'
<1> SUFFICES ASSUME IInv, [Next]_vars
             PROVE  IInv'
  OBVIOUS
<1>1. CASE UNCHANGED vars
  BY <1>1, UntouchedKeepsIInv DEF vars, Untouched
<1>2. ASSUME NEW p \in Callers, Step(p)
      PROVE  IInv'
  <2>1. CASE UseFreed(p)
    BY <2>1, UntouchedKeepsIInv DEF UseFreed, Untouched
  <2> QED
    BY <1>2, <2>1, BroadcastKeepsIInv, GiveUpKeepsIInv, RegisterRetryKeepsIInv, RetriedKeepsIInv DEF Step
<1>3. ASSUME NEW t \in Threads, Lookup(t) \/ ThreadStep(t)
      PROVE  IInv'
  BY <1>2, <1>3, LookupKeepsIInv, CreateKeepsIInv, FoundKeepsIInv, CountKeepsIInv, PKeepsIInv,
     UncountKeepsIInv, PassOnKeepsIInv, VerdictKeepsIInv, CallersFact DEF ThreadStep
<1>4. CASE AlarmStep
  BY <1>2, <1>4, EvictKeepsIInv, CallersFact DEF AlarmStep
<1>5. ASSUME NEW e \in Entries, NEW kind \in {"retry", "evict"}, Fire(e, kind)
      PROVE  IInv'
  BY <1>5, FireKeepsIInv
<1>6. ASSUME NEW d \in Destinations, NEW id \in broadcast[d], Reply(d, id)
      PROVE  IInv'
  BY <1>6, ReplyKeepsIInv
<1> QED
  BY <1>1, <1>3, <1>4, <1>5, <1>6 DEF Next

LEMMA IInvHolds == Spec => []IInv
BY InitIInv, NextKeepsIInv, PTL DEF Spec

(* The types, the bounds on the retries of an entry, and the count of its   *)
(* waiting threads, in every reachable state.                               *)
THEOREM RouteCacheTyping == Spec => []TypeOK
<1>1. IInv => TypeOK
  <2> SUFFICES ASSUME IInv
               PROVE  TypeOK
    OBVIOUS
  <2>1. Typing /\ Numbered /\ Cached
    BY DEF IInv
  <2>2. ASSUME NEW e \in live
        PROVE  /\ entry[e] \in [destination : Destinations, routing_flag : 0 .. 2,
                                retry_count : 0 .. MAX_RETRIES + 1,
                                routing_id : 0 .. MAX_RETRIES + 2, waiting_count : Nat,
                                alarm_id : {NULL, "retry", "evict"}]
               /\ entry[e].waiting_count = Cardinality(Counted(e))
    <3>1. /\ entry[e] \in Records /\ CountOf(e)
          /\ entry[e].retry_count <= MAX_RETRIES + 1 /\ entry[e].routing_id <= MAX_RETRIES + 2
      BY <2>1 DEF IInv, Typing, RetriesOf
    <3>2. /\ entry[e].retry_count \in 0 .. MAX_RETRIES + 1
          /\ entry[e].routing_id \in 0 .. MAX_RETRIES + 2
      BY <3>1, MinirouteAssumption DEF Records
    <3> QED
      BY <3>1, <3>2 DEF Records, CountOf
  <2> QED
    BY <2>1, <2>2 DEF TypeOK, Typing, Numbered, Cached
<1> QED
  BY <1>1, IInvHolds, PTL

(* No entry is left without a timer: see EntriesAreTimed.                   *)
THEOREM TimersCoverEntries == Spec => []EntriesAreTimed
<1>1. IInv => EntriesAreTimed
  BY DEF IInv, TimedOf, EntriesAreTimed
<1> QED
  BY <1>1, IInvHolds, PTL

(* The answer ends the discovery: see AnswerStopsRetries.                   *)
THEOREM AnswerEndsDiscovery == Spec => []AnswerStopsRetries
<1>1. IInv => AnswerStopsRetries
  BY DEF IInv, TimedOf, AnswerStopsRetries
<1> QED
  BY <1>1, IInvHolds, PTL

(* The table leads to no freed entry unless two entries were created for    *)
(* one destination: see CacheNeverDangles.                                  *)
THEOREM NoDanglingNode == Spec => []CacheNeverDangles
<1>1. IInv => CacheNeverDangles
  BY DEF IInv, Cached, CacheNeverDangles
<1> QED
  BY <1>1, IInvHolds, PTL

(* No thread that waits for a discovery is forgotten when it ends, but for  *)
(* one that counted itself too late: see WaitersAreWoken.                   *)
THEOREM NoWaiterForgotten == Spec => []WaitersAreWoken
<1>1. IInv => WaitersAreWoken
  BY DEF IInv, WokenOf, WaitersAreWoken
<1> QED
  BY <1>1, IInvHolds, PTL

=============================================================================
