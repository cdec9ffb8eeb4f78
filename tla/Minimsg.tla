------------------------------- MODULE Minimsg -------------------------------
(***************************************************************************)
(* Miniports and the receiving side of minimsgs: minimsg.c with the        *)
(* datagram branch of network_handler (minithread.c:145-154).              *)
(*                                                                         *)
(* An unbound port is a queue of packets and a semaphore that counts them; *)
(* the network handler fills it, and opens it if nobody has.  A received   *)
(* packet comes with a fresh bound port for the answer, whose number is    *)
(* chosen with interrupts disabled and entered into the table of bound     *)
(* ports later, again with interrupts disabled: two steps that any thread  *)
(* can come between.                                                       *)
(*                                                                         *)
(* P on the semaphore is called with interrupts disabled, so module        *)
(* CountingSemaphores stands for it (run synch_masked).                    *)
(***************************************************************************)
EXTENDS Integers, Sequences, FiniteSets

CONSTANTS
    Threads,
    Unbound,        \* unbound port numbers
    Packets,        \* what arrives
    NumBound,       \* BOUND_MAX - BOUND_MIN + 1: bound numbers are counted from 0
    BoundPorts,     \* the memory for bound ports
    NULL,
    MaxQueued       \* bound: no packet arrives at a port with this many queued

ASSUME MinimsgAssumption ==
    /\ NumBound \in Nat \ {0}
    /\ NULL \notin BoundPorts \cup Int
    /\ MaxQueued \in Nat

Numbers == 0 .. NumBound - 1

VARIABLES
    unbound_ports,      \* the numbers of the open unbound ports
    incoming_data,      \* per unbound port: the packets queued
    value, waiting, granted,    \* the semaphores datagrams_ready
    pc, port,           \* per thread: what it does, and on which unbound port
    next_bound,
    bound_ports,        \* per number: the port in the table, or NULL
    port_number,        \* per bound port in memory: its number; NULL if it is free
    chosen,             \* per thread: the number nextBound gave it
    last,               \* ghost: the number nextBound gave last
    raced               \* ghost: nextBound gave a number another thread had
                        \* chosen and not entered yet

semaVars == <<value, waiting, granted>>
boundVars == <<next_bound, bound_ports, port_number, chosen, last, raced>>
vars == <<unbound_ports, incoming_data, value, waiting, granted, pc, port,
          next_bound, bound_ports, port_number, chosen, last, raced>>

Ready == INSTANCE CountingSemaphores WITH
            Sems <- Unbound, InitialCnt <- [p \in Unbound |-> 0]

-----------------------------------------------------------------------------
Init ==
    /\ unbound_ports = {}
    /\ incoming_data = [p \in Unbound |-> <<>>]
    /\ Ready!Init
    /\ pc = [t \in Threads |-> "run"]
    /\ port = [t \in Threads |-> NULL]
    /\ next_bound = 0
    /\ bound_ports = [n \in Numbers |-> NULL]
    /\ port_number = [b \in BoundPorts |-> NULL]
    /\ chosen = [t \in Threads |-> NULL]
    /\ last = NULL
    /\ raced = FALSE

(* Mutant: the semaphore is signalled only when the queue was empty.        *)
miniport_unbound_enqueue_IfEmpty(p, m) ==
    /\ incoming_data' = [incoming_data EXCEPT ![p] = Append(@, m)]
    /\ IF incoming_data[p] = <<>> THEN Ready!Release(p) \/ Ready!Grant(p)
                                  ELSE UNCHANGED semaVars

miniport_unbound_enqueue(p, m) ==
    /\ incoming_data' = [incoming_data EXCEPT ![p] = Append(@, m)]
    /\ Ready!Release(p) \/ Ready!Grant(p)

(* network_handler, for a datagram to port p: open it if it is not, and     *)
(* queue the packet.                                                        *)
Arrive(p, m) ==
    /\ Len(incoming_data[p]) < MaxQueued
    /\ unbound_ports' = unbound_ports \cup {p}
    /\ miniport_unbound_enqueue(p, m)
    /\ UNCHANGED <<pc, port>>
    /\ UNCHANGED boundVars

miniport_create_unbound(p) ==
    /\ unbound_ports' = unbound_ports \cup {p}
    /\ UNCHANGED <<incoming_data, pc, port>>
    /\ UNCHANGED semaVars
    /\ UNCHANGED boundVars

(* The programmer does not destroy a port a thread receives on.  The queued *)
(* packets go with it.                                                      *)
DestroyUnbound(p) ==
    /\ p \in unbound_ports
    /\ \A t \in Threads : pc[t] = "receive" => port[t] # p
    /\ unbound_ports' = unbound_ports \ {p}
    /\ incoming_data' = [incoming_data EXCEPT ![p] = <<>>]
    /\ value' = [value EXCEPT ![p] = 0]
    /\ UNCHANGED <<waiting, granted, pc, port>>
    /\ UNCHANGED boundVars

queue_dequeue(p) ==
    /\ incoming_data[p] # <<>>
    /\ incoming_data' = [incoming_data EXCEPT ![p] = Tail(@)]

(* minimsg_receive: P finds a packet counted, ...                           *)
ReceiveNow(t, p) ==
    /\ pc[t] = "run"
    /\ p \in unbound_ports
    /\ Ready!Acquire(p)
    /\ queue_dequeue(p)
    /\ pc' = [pc EXCEPT ![t] = "bind"]
    /\ UNCHANGED <<unbound_ports, port>>
    /\ UNCHANGED boundVars

(* ... or blocks, ...                                                       *)
ReceiveWait(t, p) ==
    /\ pc[t] = "run"
    /\ p \in unbound_ports
    /\ Ready!Wait(t, p)
    /\ pc' = [pc EXCEPT ![t] = "receive"]
    /\ port' = [port EXCEPT ![t] = p]
    /\ UNCHANGED <<unbound_ports, incoming_data>>
    /\ UNCHANGED boundVars

(* ... until the handler's V has started it and the dispatcher gets to it.  *)
ReceiveResume(t) ==
    /\ Ready!Return(t)
    /\ queue_dequeue(port[t])
    /\ pc' = [pc EXCEPT ![t] = "bind"]
    /\ port' = [port EXCEPT ![t] = NULL]
    /\ UNCHANGED unbound_ports
    /\ UNCHANGED boundVars

-----------------------------------------------------------------------------
(* Mutant: next_bound is not moved beyond the number given out.             *)
nextBound_Same(n) ==
    /\ bound_ports[n] = NULL
    /\ \A m \in Numbers : bound_ports[m] = NULL =>
          (n - next_bound) % NumBound <= (m - next_bound) % NumBound
    /\ next_bound' = n

(* Mutant: next_bound does not wrap around.                                 *)
nextBound_NoWrap(n) ==
    /\ bound_ports[n] = NULL
    /\ \A m \in Numbers : bound_ports[m] = NULL =>
          (n - next_bound) % NumBound <= (m - next_bound) % NumBound
    /\ next_bound' = n + 1

(* nextBound: the first number that is not in the table, from next_bound    *)
(* upwards and wrapping around.                                             *)
nextBound(n) ==
    /\ bound_ports[n] = NULL
    /\ \A m \in Numbers : bound_ports[m] = NULL =>
          (n - next_bound) % NumBound <= (m - next_bound) % NumBound
    /\ next_bound' = (n + 1) % NumBound

(* miniport_create_bound, called by minimsg_receive or by a thread: a       *)
(* number first, ...                                                        *)
Choose(t, n) ==
    /\ pc[t] \in {"run", "bind"}
    /\ nextBound(n)
    /\ chosen' = [chosen EXCEPT ![t] = n]
    /\ pc' = [pc EXCEPT ![t] = "enter"]
    /\ last' = n
    /\ raced' = (raced \/ \E u \in Threads : pc[u] = "enter" /\ chosen[u] = n)
    /\ UNCHANGED <<unbound_ports, incoming_data, port, bound_ports, port_number>>
    /\ UNCHANGED semaVars

(* ... none left: NULL, ...                                                 *)
ChooseNone(t) ==
    /\ pc[t] = "bind"
    /\ \A n \in Numbers : bound_ports[n] # NULL
    /\ pc' = [pc EXCEPT ![t] = "run"]
    /\ UNCHANGED <<unbound_ports, incoming_data, port>>
    /\ UNCHANGED semaVars
    /\ UNCHANGED boundVars

(* Mutant: the port is not entered into the table.                          *)
Enter_NoTable(t, b) ==
    /\ pc[t] = "enter"
    /\ port_number[b] = NULL
    /\ port_number' = [port_number EXCEPT ![b] = chosen[t]]
    /\ chosen' = [chosen EXCEPT ![t] = NULL]
    /\ pc' = [pc EXCEPT ![t] = "run"]
    /\ UNCHANGED <<unbound_ports, incoming_data, port, next_bound, bound_ports, last, raced>>
    /\ UNCHANGED semaVars

(* ... then the memory, and the table.                                      *)
Enter(t, b) ==
    /\ pc[t] = "enter"
    /\ port_number[b] = NULL
    /\ port_number' = [port_number EXCEPT ![b] = chosen[t]]
    /\ bound_ports' = [bound_ports EXCEPT ![chosen[t]] = b]
    /\ chosen' = [chosen EXCEPT ![t] = NULL]
    /\ pc' = [pc EXCEPT ![t] = "run"]
    /\ UNCHANGED <<unbound_ports, incoming_data, port, next_bound, last, raced>>
    /\ UNCHANGED semaVars

(* miniport_destroy of a bound port clears the table at its number.         *)
DestroyBound(b) ==
    /\ port_number[b] # NULL
    /\ bound_ports' = [bound_ports EXCEPT ![port_number[b]] = NULL]
    /\ port_number' = [port_number EXCEPT ![b] = NULL]
    /\ UNCHANGED <<unbound_ports, incoming_data, pc, port, next_bound, chosen, last, raced>>
    /\ UNCHANGED semaVars

-----------------------------------------------------------------------------
Next ==
    \/ \E p \in Unbound : miniport_create_unbound(p) \/ DestroyUnbound(p)
    \/ \E p \in Unbound, m \in Packets : Arrive(p, m)
    \/ \E t \in Threads, p \in Unbound : ReceiveNow(t, p) \/ ReceiveWait(t, p)
    \/ \E t \in Threads : ReceiveResume(t) \/ ChooseNone(t)
    \/ \E t \in Threads, n \in Numbers : Choose(t, n)
    \/ \E t \in Threads, b \in BoundPorts : Enter(t, b)
    \/ \E b \in BoundPorts : DestroyBound(b)

Spec == Init /\ [][Next]_vars

-----------------------------------------------------------------------------
(* Properties.                                                              *)

Live == {b \in BoundPorts : port_number[b] # NULL}

Served(p) == {t \in granted : port[t] = p}

(* Typing.                                                                  *)
TypeOK ==
    /\ unbound_ports \subseteq Unbound
    /\ incoming_data \in [Unbound -> Seq(Packets)]
    /\ pc \in [Threads -> {"run", "receive", "bind", "enter"}]
    /\ port \in [Threads -> Unbound \cup {NULL}]
    /\ next_bound \in Numbers
    /\ bound_ports \in [Numbers -> BoundPorts \cup {NULL}]
    /\ port_number \in [BoundPorts -> Numbers \cup {NULL}]
    /\ chosen \in [Threads -> Numbers \cup {NULL}]

(* The semaphore counts the packets: each one queued is either free for the *)
(* next receiver or meant for one that V has started, so a dequeue always   *)
(* finds one (minimsg.c:259 does not notice when it does not) and no packet *)
(* lies in a port beside a blocked receiver.                                *)
PacketsMatchReceivers ==
    \A p \in Unbound :
        /\ Len(incoming_data[p]) = value[p] + Cardinality(Served(p))
        /\ waiting[p] # <<>> => value[p] = 0

(* Bound ports in use have different numbers and are in the table, unless   *)
(* two threads were creating one at the same time and nextBound gave them   *)
(* the same number.                                                         *)
PortNumbersDistinctUnlessRaced ==
    raced \/ \A b \in Live : bound_ports[port_number[b]] = b

(* Numbers are given out in increasing order: nextBound starts again from   *)
(* below the number it gave last only if all numbers above are in use       *)
(* (minimsg.c:143-146).                                                     *)
IncrementalUntilOverflow ==
    [][\A t \in Threads, n \in Numbers :
          Choose(t, n) /\ last # NULL /\ n <= last
              => \A m \in Numbers : m > last => bound_ports[m] # NULL]_vars

=============================================================================
