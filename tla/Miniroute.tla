------------------------------ MODULE Miniroute ------------------------------
(***************************************************************************)
(* The route cache of a node: retrieve_route, rebroadcast, cache_evict and *)
(* the part of miniroute_helper that takes a reply to this node.           *)
(*                                                                         *)
(* A call that finds no entry for its destination creates one, broadcasts  *)
(* a discovery and waits on the entry's semaphore; later calls wait with   *)
(* it.  The network handler, with the answer, or the alarm thread, after   *)
(* the last retry, sets the flag and wakes one of them, who wakes the      *)
(* next.  All but the handler run with interrupts enabled, so any two      *)
(* steps here can have anything between them.                              *)
(*                                                                         *)
(* routing_cache is the set of entries that have a node in the hash table, *)
(* which may miss a put when it is full and looks for a destination: what  *)
(* theorem HashTableImplementsStore says of it.  The semaphores are those  *)
(* of module CountingSemaphores, the alarms a set: any may be the next to  *)
(* go off.  A reply is any that a discovery ever sent out asked for, late, *)
(* again, or never.  A statement that counts up or down is one step.       *)
(*                                                                         *)
(* The model stops at the first use of a freed entry.  Memory is not given *)
(* out again while something refers to it.                                 *)
(***************************************************************************)
EXTENDS Integers, Sequences, FiniteSets

CONSTANTS
    Threads, AlarmThread,
    Destinations,
    Entries,                \* the memory for entries
    SIZE_OF_ROUTE_CACHE,
    MAX_RETRIES,            \* 2 in the code: the retries after the first broadcast
    MaxSpare,               \* bound: units given to a thread that has not called P yet
    NULL

ASSUME MinirouteAssumption ==
    /\ AlarmThread \notin Threads
    /\ NULL \notin Entries \cup Destinations
    /\ IsFiniteSet(Threads) /\ IsFiniteSet(Entries)
    /\ SIZE_OF_ROUTE_CACHE \in Nat
    /\ MAX_RETRIES \in Nat /\ MaxSpare \in Nat

Callers == Threads \cup {AlarmThread}

VARIABLES
    entry,          \* the route_cache_entry at each place in memory
    live,           \* the places that are allocated
    routing_cache,
    value, waiting, granted,    \* the semaphores routing_sem
    alarms,         \* pairs of an entry and "retry" or "evict"
    pc, route,      \* per caller: where it is, and its variable route
    dest_address,   \* per thread: of a call that has found no entry
    creator,        \* the threads that wait for an entry they created
    broadcast,      \* per destination: the ids sent out in discoveries
    doubled,        \* ghost: an entry was created beside another
    overtaken,      \* ghost: entries answered while the retry was under way
    late,           \* ghost: threads that counted themselves after the decision
    fault           \* a freed entry was used

semaVars == <<value, waiting, granted>>
ghosts == <<doubled, overtaken, late>>
store == <<entry, live, routing_cache, overtaken>>
vars == <<entry, live, routing_cache, semaVars, alarms, pc, route, dest_address,
          creator, broadcast, ghosts, fault>>

Sem == INSTANCE CountingSemaphores WITH
          Sems <- Entries, InitialCnt <- [e \in Entries |-> 0]

V(e) == Sem!Release(e) \/ Sem!Grant(e)

Fresh(d) == [destination |-> d, routing_flag |-> 0, retry_count |-> 0,
             routing_id |-> 0, waiting_count |-> 0, alarm_id |-> NULL]

-----------------------------------------------------------------------------
(* miniroute_initialize.                                                    *)
Init ==
    /\ entry = [e \in Entries |-> NULL]
    /\ live = {}
    /\ routing_cache = {}
    /\ Sem!Init
    /\ alarms = {}
    /\ pc = [p \in Callers |-> "idle"]
    /\ route = [p \in Callers |-> NULL]
    /\ dest_address = [t \in Threads |-> NULL]
    /\ creator = {}
    /\ broadcast = [d \in Destinations |-> {}]
    /\ doubled = FALSE
    /\ overtaken = {}
    /\ late = {}
    /\ fault = FALSE

Goto(p, next) == pc' = [pc EXCEPT ![p] = next]

Return(p) == Goto(p, "idle") /\ route' = [route EXCEPT ![p] = NULL]

(* p is at a step that uses its entry, which is there.                      *)
At(p, here) == pc[p] = here /\ route[p] \in live

(* What the table finds for d.                                              *)
Hits(d) == {e \in routing_cache : entry[e].destination = d}

(* What is in freed memory does not matter, but a node may still lead there.*)
Discard(e) ==
    /\ entry' = [entry EXCEPT ![e] = Fresh(@.destination)]
    /\ value' = [value EXCEPT ![e] = 0]
    /\ overtaken' = overtaken \ {e}
    /\ UNCHANGED <<waiting, granted>>

(* Mutant: the entry stays in the table.                                    *)
Destroy_KeepsNode(e) ==
    /\ live' = live \ {e}
    /\ Discard(e)
    /\ UNCHANGED routing_cache

(* semaphore_destroy, hashtable_remove and free.                            *)
Destroy(e) ==
    /\ live' = live \ {e}
    /\ Discard(e)
    /\ \/ \E h \in Hits(entry[e].destination) : routing_cache' = routing_cache \ {h}
       \/ Hits(entry[e].destination) = {} /\ UNCHANGED routing_cache

-----------------------------------------------------------------------------
(* retrieve_route.                                                          *)

Lookup(t) ==
    /\ pc[t] = "idle"
    /\ \E d \in Destinations :
          \/ /\ Hits(d) = {}
             /\ Goto(t, "missed")
             /\ dest_address' = [dest_address EXCEPT ![t] = d]
             /\ UNCHANGED route
          \/ /\ Goto(t, "found")
             /\ \E e \in Hits(d) : route' = [route EXCEPT ![t] = e]
             /\ UNCHANGED dest_address
    /\ UNCHANGED <<entry, live, routing_cache, semaVars, alarms, creator, broadcast, ghosts, fault>>

Unreferenced(e) ==
    /\ e \notin live \cup routing_cache
    /\ \A p \in Callers : route[p] # e
    /\ \A a \in alarms : a[1] # e

(* The result of hashtable_put is not looked at.                            *)
Create(t) ==
    LET d == dest_address[t] IN
    /\ pc[t] = "missed"
    /\ \E e \in Entries :
          /\ Unreferenced(e)
          /\ entry' = [entry EXCEPT ![e] = Fresh(d)]
          /\ live' = live \cup {e}
          /\ value' = [value EXCEPT ![e] = 0]
          /\ routing_cache' = IF Cardinality(routing_cache) < SIZE_OF_ROUTE_CACHE
                              THEN routing_cache \cup {e} ELSE routing_cache
          /\ route' = [route EXCEPT ![t] = e]
    /\ doubled' = (doubled \/ \E f \in live : entry[f].destination = d)
    /\ Goto(t, "rebroadcast")
    /\ dest_address' = [dest_address EXCEPT ![t] = NULL]
    /\ creator' = creator \cup {t}
    /\ UNCHANGED <<waiting, granted, alarms, broadcast, overtaken, late, fault>>

(* An entry was found: its flag says whether to wait, to go on or to fail.  *)
(* A thread that fails wakes another or destroys the entry.                 *)
Found(t) ==
    LET e == route[t] IN
    /\ At(t, "found")
    /\ \/ /\ entry[e].routing_flag = 0
          /\ Goto(t, "count")
          /\ UNCHANGED <<store, semaVars, route>>
       \/ /\ entry[e].routing_flag = 1
          /\ Goto(t, "send")
          /\ UNCHANGED <<store, semaVars, route>>
       \/ /\ entry[e].routing_flag = 2
          /\ IF entry[e].waiting_count > 0 THEN value[e] < MaxSpare /\ V(e) /\ UNCHANGED store
             ELSE Destroy(e)
          /\ Return(t)
    /\ UNCHANGED <<alarms, dest_address, creator, broadcast, doubled, late, fault>>

Count(t) ==
    /\ At(t, "count")
    /\ late' = IF entry[route[t]].routing_flag = 0 THEN late \ {t} ELSE late \cup {t}
    /\ entry' = [entry EXCEPT ![route[t]].waiting_count = @ + 1]
    /\ Goto(t, "P")
    /\ UNCHANGED <<live, routing_cache, semaVars, alarms, route, dest_address, creator,
                   broadcast, doubled, overtaken, fault>>

P(t) ==
    /\ \/ At(t, "P") /\ Sem!Acquire(route[t]) /\ Goto(t, "uncount")
       \/ At(t, "P") /\ Sem!Wait(t, route[t]) /\ Goto(t, "blocked")
       \/ pc[t] = "blocked" /\ Sem!Return(t) /\ Goto(t, "uncount")
    /\ UNCHANGED <<entry, live, routing_cache, alarms, route, dest_address, creator,
                   broadcast, ghosts, fault>>

Uncount(t) ==
    /\ At(t, "uncount")
    /\ entry' = [entry EXCEPT ![route[t]].waiting_count = @ - 1]
    /\ late' = late \ {t}
    /\ Goto(t, "pass")
    /\ UNCHANGED <<live, routing_cache, semaVars, alarms, route, dest_address, creator,
                   broadcast, doubled, overtaken, fault>>

(* Mutant: a thread that was woken wakes nobody else.                       *)
PassOn_Forgotten(t) ==
    /\ At(t, "pass")
    /\ Goto(t, "verdict")
    /\ UNCHANGED <<entry, live, routing_cache, semaVars, alarms, route, dest_address, creator,
                   broadcast, ghosts, fault>>

PassOn(t) ==
    /\ At(t, "pass")
    /\ IF entry[route[t]].waiting_count > 0 THEN V(route[t]) ELSE UNCHANGED semaVars
    /\ Goto(t, "verdict")
    /\ UNCHANGED <<entry, live, routing_cache, alarms, route, dest_address, creator,
                   broadcast, ghosts, fault>>

(* The flag decides; of those that fail, the last destroys the entry unless *)
(* it is its creator.                                                       *)
Verdict(t) ==
    LET e == route[t] IN
    /\ At(t, "verdict")
    /\ \/ /\ entry[e].routing_flag = 1
          /\ Goto(t, "send")
          /\ UNCHANGED <<store, semaVars, route>>
       \/ /\ entry[e].routing_flag # 1
          /\ IF t \notin creator /\ entry[e].waiting_count = 0
             THEN Destroy(e) ELSE UNCHANGED <<store, semaVars>>
          /\ Return(t)
    /\ creator' = creator \ {t}
    /\ UNCHANGED <<alarms, dest_address, broadcast, doubled, late, fault>>

(* miniroute_send_pkt packs the path of the entry it was given.             *)
SendPkt(t) ==
    /\ At(t, "send")
    /\ Return(t)
    /\ UNCHANGED <<entry, live, routing_cache, semaVars, alarms, dest_address, creator,
                   broadcast, ghosts, fault>>

-----------------------------------------------------------------------------
(* rebroadcast, called by the creator of the entry or by the alarm thread.  *)

(* Where the call returns to.                                               *)
Back(p) ==
    IF p = AlarmThread THEN Return(p) ELSE Goto(p, "count") /\ UNCHANGED route

(* Mutant: one retry too many.                                              *)
Exhausted_Late(e) == entry[e].retry_count > MAX_RETRIES + 1

Exhausted(e) == entry[e].retry_count > MAX_RETRIES

Broadcast(p) ==
    LET e == route[p]
        id == entry[e].routing_id + 1
    IN /\ At(p, "rebroadcast")
       /\ ~Exhausted(e)
       /\ entry' = [entry EXCEPT ![e].routing_id = id]
       /\ broadcast' = [broadcast EXCEPT ![entry[e].destination] = @ \cup {id}]
       /\ Goto(p, "register")
       /\ UNCHANGED <<live, routing_cache, semaVars, alarms, route, dest_address, creator,
                      ghosts, fault>>

(* Without a waiting thread the entry is freed, and used in what follows.   *)
GiveUp(p) ==
    LET e == route[p] IN
    /\ At(p, "rebroadcast")
    /\ Exhausted(e)
    /\ IF entry[e].waiting_count > 0
       THEN /\ entry' = [entry EXCEPT ![e].routing_id = @ + 1, ![e].routing_flag = 2]
            /\ V(e)
            /\ UNCHANGED <<live, routing_cache, overtaken, fault>>
       ELSE Destroy(e) /\ fault' = TRUE
    /\ Back(p)
    /\ UNCHANGED <<alarms, dest_address, creator, broadcast, doubled, late>>

(* Mutant: the alarm is set for the first broadcast only.                   *)
RegisterRetry_Once(p) ==
    LET e == route[p] IN
    /\ At(p, "register")
    /\ alarms' = IF p = AlarmThread THEN alarms ELSE alarms \cup {<<e, "retry">>}
    /\ entry' = [entry EXCEPT ![e].alarm_id = "retry"]
    /\ Goto(p, "retried")
    /\ UNCHANGED <<live, routing_cache, semaVars, route, dest_address, creator,
                   broadcast, ghosts, fault>>

RegisterRetry(p) ==
    LET e == route[p] IN
    /\ At(p, "register")
    /\ alarms' = alarms \cup {<<e, "retry">>}
    /\ entry' = [entry EXCEPT ![e].alarm_id = "retry"]
    /\ Goto(p, "retried")
    /\ UNCHANGED <<live, routing_cache, semaVars, route, dest_address, creator,
                   broadcast, ghosts, fault>>

Retried(p) ==
    /\ At(p, "retried")
    /\ entry' = [entry EXCEPT ![route[p]].retry_count = @ + 1]
    /\ Back(p)
    /\ UNCHANGED <<live, routing_cache, semaVars, alarms, dest_address, creator,
                   broadcast, ghosts, fault>>

-----------------------------------------------------------------------------
(* The alarm thread takes an alarm that has gone off.  An alarm may be the   *)
(* next at any time, but for the 15 seconds of a retry not within the call  *)
(* of rebroadcast that has set it.                                          *)
Fire(e, kind) ==
    /\ pc[AlarmThread] = "idle"
    /\ <<e, kind>> \in alarms
    /\ kind = "retry" => \A t \in Threads : ~(route[t] = e /\ pc[t] = "retried")
    /\ alarms' = alarms \ {<<e, kind>>}
    /\ Goto(AlarmThread, IF kind = "retry" THEN "rebroadcast" ELSE "evict")
    /\ route' = [route EXCEPT ![AlarmThread] = e]
    /\ UNCHANGED <<entry, live, routing_cache, semaVars, dest_address, creator,
                   broadcast, ghosts, fault>>

cache_evict ==
    /\ At(AlarmThread, "evict")
    /\ Destroy(route[AlarmThread])
    /\ Return(AlarmThread)
    /\ UNCHANGED <<alarms, dest_address, creator, broadcast, doubled, late, fault>>

(* The caller is about to use an entry that has been freed.                 *)
UseFreed(p) ==
    /\ pc[p] \notin {"idle", "missed", "blocked"}
    /\ route[p] \notin live
    /\ fault' = TRUE
    /\ UNCHANGED <<entry, live, routing_cache, semaVars, alarms, pc, route, dest_address,
                   creator, broadcast, ghosts>>

-----------------------------------------------------------------------------
(* Mutant: the retry alarm is left alone.                                   *)
Answered_KeepsAlarm(e) ==
    /\ entry' = [entry EXCEPT ![e].routing_flag = 1, ![e].alarm_id = "evict"]
    /\ alarms' = alarms \cup {<<e, "evict">>}
    /\ IF entry[e].waiting_count > 0 THEN V(e) ELSE UNCHANGED semaVars

(* The route is entered, the alarm now evicts it, the first thread is woken.*)
Answered(e) ==
    /\ entry' = [entry EXCEPT ![e].routing_flag = 1, ![e].alarm_id = "evict"]
    /\ alarms' = (alarms \ {<<e, entry[e].alarm_id>>}) \cup {<<e, "evict">>}
    /\ IF entry[e].waiting_count > 0 THEN V(e) ELSE UNCHANGED semaVars

(* Somebody is between taking the retry alarm of e and setting it again.    *)
Retrying(e) == \E p \in Callers : route[p] = e /\ pc[p] \in {"rebroadcast", "register"}

(* miniroute_helper: a reply to this node.                                  *)
Reply(d, id) ==
    /\ id \in broadcast[d]
    /\ \E e \in Hits(d) :
          IF e \in live
          THEN /\ entry[e].routing_flag = 0
               /\ entry[e].retry_count <= MAX_RETRIES
               /\ entry[e].routing_id = id
               /\ Answered(e)
               /\ overtaken' = IF Retrying(e) THEN overtaken \cup {e} ELSE overtaken
               /\ UNCHANGED fault
          ELSE /\ fault' = TRUE
               /\ UNCHANGED <<entry, semaVars, alarms, overtaken>>
    /\ UNCHANGED <<live, routing_cache, pc, route, dest_address, creator, broadcast, doubled, late>>

Step(p) ==
    \/ Broadcast(p) \/ GiveUp(p) \/ RegisterRetry(p) \/ Retried(p)
    \/ UseFreed(p)

ThreadStep(t) ==
    \/ Create(t) \/ Found(t) \/ Count(t) \/ P(t) \/ Uncount(t)
    \/ PassOn(t) \/ Verdict(t) \/ SendPkt(t)
    \/ Step(t)

AlarmStep == cache_evict \/ Step(AlarmThread)

Next ==
    /\ ~fault
    /\ \/ \E t \in Threads : Lookup(t) \/ ThreadStep(t)
       \/ AlarmStep
       \/ \E e \in Entries, kind \in {"retry", "evict"} : Fire(e, kind)
       \/ \E d \in Destinations : \E id \in broadcast[d] : Reply(d, id)

Spec == Init /\ [][Next]_vars

-----------------------------------------------------------------------------
(* Properties.                                                              *)

(* The threads that have counted themselves and not uncounted yet.          *)
Counted(e) == {t \in Threads : route[t] = e /\ pc[t] \in {"P", "blocked", "uncount"}}

(* Typing, with the bounds of the retries: three broadcasts for an entry,   *)
(* whoever calls rebroadcast; the count of waiting threads is theirs.       *)
TypeOK ==
    /\ live \subseteq Entries
    /\ routing_cache \subseteq Entries
    /\ Cardinality(routing_cache) <= SIZE_OF_ROUTE_CACHE
    /\ \A e \in live :
          /\ entry[e] \in [destination : Destinations, routing_flag : 0 .. 2,
                           retry_count : 0 .. MAX_RETRIES + 1,
                           routing_id : 0 .. MAX_RETRIES + 2, waiting_count : Nat, alarm_id : {NULL, "retry", "evict"}]
          /\ entry[e].waiting_count = Cardinality(Counted(e))
    /\ alarms \subseteq Entries \X {"retry", "evict"}
    /\ \A d \in Destinations : broadcast[d] \subseteq 1 .. MAX_RETRIES + 1

(* No entry is left without a timer: while its route is being discovered    *)
(* the retry alarm is set or about to be, and once it is found the alarm    *)
(* that evicts it is, whatever races with the answer.                       *)
EntriesAreTimed ==
    \A e \in live :
        /\ entry[e].routing_flag = 0 => <<e, "retry">> \in alarms \/ Retrying(e)
        /\ entry[e].routing_flag = 1 =>
              \/ <<e, "evict">> \in alarms
              \/ route[AlarmThread] = e /\ pc[AlarmThread] = "evict"

(* The answer ends the discovery: no retry of an answered entry is to come, *)
(* unless the answer came while one was under way.  (Such a retry goes off  *)
(* when the entry has long been evicted.)                                   *)
AnswerStopsRetries ==
    \A e \in live : entry[e].routing_flag = 1 /\ e \notin overtaken =>
        <<e, "retry">> \notin alarms /\ ~Retrying(e)

(* The table never leads to a freed entry, unless there were two entries    *)
(* for a destination, which the removal by destination mixes up.            *)
CacheNeverDangles == ~doubled => routing_cache \subseteq live

(* Somebody is about to wake the next thread that waits for e: a thread that *)
(* was woken and will pass it on, or that will be, for there is a unit left. *)
BeingWoken(e) ==
    \/ value[e] > 0
    \/ \E t \in Threads : route[t] = e /\ (pc[t] \in {"uncount", "pass"} \/ t \in granted)

(* No thread that waits for a discovery is forgotten when it ends, however   *)
(* many wait, whoever wakes whom, and whatever the answer comes between; but *)
(* for a thread that finds the discovery in progress and counts itself only  *)
(* after the end.                                                            *)
WaitersAreWoken ==
    \A t \in Threads :
        LET e == route[t] IN
        /\ pc[t] = "blocked" /\ t \notin late
        /\ e \in live /\ entry[e].routing_flag # 0
        => BeingWoken(e)

=============================================================================
