------------------------------ MODULE Minisocket ------------------------------
(***************************************************************************)
(* A connection of two minisockets: minisocket.c with the stream branch of *)
(* network_handler.  Each side has the one thread that uses its socket,    *)
(* the network handler, and an alarm thread.                               *)
(*                                                                         *)
(* Packets stay in order but may be lost or come twice.  A packet is its   *)
(* type, seq and ack and the number of the fragment of data it carries, 0  *)
(* for none.  Fragments are numbered as their sender goes through its      *)
(* data, whatever seq they are sent under.                                 *)
(*                                                                         *)
(* What the callers name wait is not the waiT of this file but a function  *)
(* of the C library that returns at once if the process has no children.   *)
(* wait_blocks says which one the program was linked with.                 *)
(*                                                                         *)
(* The semaphores of this file with one thread and the handler on either   *)
(* side are their counts.  Of the empty items in the buffer only one in    *)
(* last place is kept: neither queue_length(buffer) = 1 nor what can be    *)
(* received tells the others apart.                                        *)
(***************************************************************************)
EXTENDS Integers, Sequences, FiniteSets

CONSTANTS
    MAX_TRIES,
    MaxData,        \* per side: the fragments it may send
    Capacity,       \* bound: packets on the way to a side; more are lost
    MaxFaults,      \* bound: packets lost or duplicated, routes not found
    NULL

States == {"START", "LISTENING", "CONNECTING", "CONNECTED", "CLOSING", "CLOSED"}

(* struct minisocket, without ports, addresses and incoming_data; semaphores *)
(* are their counts, the queue of alarms is in wake_arg.                    *)
Sockets ==
    [seq : Nat, ack : Nat, state : States, timed_out : BOOLEAN, tries : Nat,
     error : BOOLEAN, buffer : Seq(Nat), buffer_has_stuff : Nat,
     unable_to_close : Nat \cup {NULL}, listening : Nat \cup {NULL}]

(* A packet: fragment 0 is none.                                            *)
Packets == [type : {"SYN", "SYNACK", "ACK", "FIN"}, seq : Nat, ack : Nat, frag : Nat]

ASSUME MinisocketAssumption ==
    /\ NULL \notin Sockets
    /\ MAX_TRIES \in Nat
    /\ MaxData \in [{"client", "server"} -> Nat]
    /\ Capacity \in Nat \ {0}
    /\ MaxFaults \in Nat

Sides == {"client", "server"}
Peer(s) == IF s = "client" THEN "server" ELSE "client"

VARIABLES
    wait_blocks,    \* wait is waiT
    socket,         \* per side: what ports gives the handler, or NULL
    pc,             \* per side: where its thread is
    remaining,      \* per side: the fragments left in a call of send
    wake_arg,       \* per side: the alarm, the entry of the queue alarms, and
                    \* the count of the semaphore of a call of waiT
    net,            \* per side: the packets on the way to it
    faults,
    frag,           \* per side: the fragment being sent, or sent last
    buffered,       \* ghost, per side: the fragments its buffer has been given
    confirmed,      \* ghost, per side: those send said were transmitted
    fault           \* a NULL or freed pointer was used

socketVars == <<socket, wake_arg>>
threadVars == <<pc, remaining, frag, confirmed>>
vars == <<wait_blocks, socketVars, threadVars, net, faults, buffered, fault>>

-----------------------------------------------------------------------------
(* create_new_socket; the queue of alarms is wake_arg.                      *)
create_new_socket(starting_state) ==
    [seq |-> 1, ack |-> 0, state |-> starting_state, timed_out |-> FALSE, tries |-> 0,
     error |-> FALSE, buffer |-> <<>>, buffer_has_stuff |-> 0,
     unable_to_close |-> NULL, listening |-> NULL]

NoArg == [alarm |-> "none", queued |-> FALSE, sema |-> 0]

Init ==
    /\ wait_blocks \in BOOLEAN
    /\ socket = [s \in Sides |-> NULL]
    /\ pc = [s \in Sides |-> "create"]
    /\ remaining = [s \in Sides |-> 0]
    /\ wake_arg = [s \in Sides |-> NoArg]
    /\ net = [s \in Sides |-> <<>>]
    /\ faults = 0
    /\ frag = [s \in Sides |-> 0]
    /\ buffered = [s \in Sides |-> <<>>]
    /\ confirmed = [s \in Sides |-> {}]
    /\ fault = FALSE

Goto(s, next) == pc' = [pc EXCEPT ![s] = next]

Set(s, k) == socket' = [socket EXCEPT ![s] = k]

(* The packets on the way, with one more unless there are too many.         *)
Sent(q, p) == IF Len(q) < Capacity THEN Append(q, p) ELSE q

(* send_data_packet of socket k, and send_control_packet for fragment 0.    *)
Packet(k, type, n) == [type |-> type, seq |-> k.seq, ack |-> k.ack, frag |-> n]

send(s, type, n) ==
    net' = [net EXCEPT ![Peer(s)] = Sent(@, Packet(socket[s], type, n))]

-----------------------------------------------------------------------------
(* Creation.                                                                *)

minisocket_server_create ==
    /\ pc["server"] = "create"
    /\ Set("server", create_new_socket("LISTENING"))
    /\ Goto("server", "connect")
    /\ UNCHANGED <<wait_blocks, remaining, wake_arg, net, faults, frag, buffered, confirmed, fault>>

minisocket_client_create ==
    /\ pc["client"] = "create"
    /\ Set("client", create_new_socket("START"))
    /\ Goto("client", "syn")
    /\ UNCHANGED <<wait_blocks, remaining, wake_arg, net, faults, frag, buffered, confirmed, fault>>

SendSyn ==
    /\ pc["client"] = "syn"
    /\ send("client", "SYN", 0)
    /\ Goto("client", "connecting")
    /\ UNCHANGED <<wait_blocks, socketVars, remaining, faults, frag, buffered, confirmed, fault>>

Connecting ==
    /\ pc["client"] = "connecting"
    /\ Set("client", [socket["client"] EXCEPT !.state = "CONNECTING"])
    /\ Goto("client", "connect")
    /\ UNCHANGED <<wait_blocks, wake_arg, remaining, net, faults, frag, buffered, confirmed, fault>>

(* The condition of the loop.  A socket with an error is freed.             *)
Connect(s) ==
    LET k == socket[s] IN
    /\ pc[s] = "connect"
    /\ Goto(s, CASE k.error -> "failed"
                 [] ~k.error /\ k.state = "CONNECTED" -> "ready"
                 [] ~k.error /\ k.state = "LISTENING" -> "listen"
                 [] ~k.error /\ k.state \notin {"CONNECTED", "LISTENING"} -> "connect_wait")
    /\ Set(s, IF k.error THEN NULL ELSE k)
    /\ UNCHANGED <<wait_blocks, wake_arg, remaining, net, faults, frag, buffered, confirmed, fault>>

(* listen_wait, before and after it blocks.                                 *)
ListenWait(s) ==
    /\ \/ /\ pc[s] = "listen"
          /\ Set(s, [socket[s] EXCEPT !.listening = IF @ = NULL THEN 0 ELSE @])
          /\ Goto(s, "listening")
       \/ /\ pc[s] = "listening"
          /\ socket[s].listening > 0
          /\ Set(s, [socket[s] EXCEPT !.listening = NULL])
          /\ Goto(s, "connect_evaluate")
    /\ UNCHANGED <<wait_blocks, wake_arg, remaining, net, faults, frag, buffered, confirmed, fault>>

(* What the loop does when wait has returned: the server goes back to       *)
(* listening after the last try, the client fails.                          *)
ConnectEvaluate(s) ==
    LET k == socket[s]
        tries == IF k.timed_out THEN k.tries + 1 ELSE 0
        over == tries > MAX_TRIES
    IN /\ pc[s] = "connect_evaluate"
       /\ Set(s, [k EXCEPT !.timed_out = FALSE,
                           !.tries = IF over /\ s = "server" THEN 0 ELSE tries,
                           !.state = IF over /\ s = "server" THEN "LISTENING" ELSE @,
                           !.error = @ \/ (over /\ s = "client")])
       /\ IF k.timed_out /\ k.state = "CONNECTING"
          THEN send(s, IF s = "server" THEN "SYNACK" ELSE "SYN", 0)
          ELSE UNCHANGED net
       /\ Goto(s, "connect")
       /\ UNCHANGED <<wait_blocks, wake_arg, remaining, faults, frag, buffered, confirmed, fault>>

-----------------------------------------------------------------------------
(* waiT, and the alarm that ends it.                                        *)

(* A thread waits at one of these, and goes on there.                       *)
Waits == {"connect_wait", "send_wait", "close_wait"}

Blocked(here) ==
    CASE here = "connect_wait" -> "connect_blocked"
      [] here = "send_wait" -> "send_blocked"
      [] here = "close_wait" -> "close_blocked"

Evaluate(here) ==
    CASE here = "connect_wait" -> "connect_evaluate"
      [] here = "send_wait" -> "send_evaluate"
      [] here = "close_wait" -> "close_evaluate"

Wait(s) ==
    /\ pc[s] \in Waits
    /\ IF wait_blocks
       THEN /\ wake_arg' = [wake_arg EXCEPT ![s].alarm = "set", ![s].queued = TRUE]
            /\ Goto(s, Blocked(pc[s]))
       ELSE Goto(s, Evaluate(pc[s])) /\ UNCHANGED wake_arg
    /\ UNCHANGED <<wait_blocks, socket, remaining, net, faults, frag, buffered, confirmed, fault>>

(* The alarm goes unless the alarm thread has it, which then calls          *)
(* wake_from_timeout with the argument that is freed here.                  *)
Woken(s) ==
    /\ wake_arg[s].sema > 0
    /\ \E here \in Waits : pc[s] = Blocked(here) /\ Goto(s, Evaluate(here))
    /\ wake_arg' = [wake_arg EXCEPT ![s] = NoArg]
    /\ fault' = (wake_arg[s].alarm = "taken")
    /\ UNCHANGED <<wait_blocks, socket, remaining, net, faults, frag, buffered, confirmed>>

AlarmDequeue(s) ==
    /\ wake_arg[s].alarm = "set"
    /\ wake_arg' = [wake_arg EXCEPT ![s].alarm = "taken"]
    /\ UNCHANGED <<wait_blocks, socket, threadVars, net, faults, buffered, fault>>

wake_from_timeout(s) ==
    /\ wake_arg[s].alarm = "taken"
    /\ Set(s, [socket[s] EXCEPT !.timed_out = TRUE])
    /\ wake_arg' = [wake_arg EXCEPT ![s].alarm = "none", ![s].sema = @ + 1]
    /\ UNCHANGED <<wait_blocks, threadVars, net, faults, buffered, fault>>

(* wake_from_packet, for the handler: the queue gives each argument once.   *)
wake_from_packet(s) ==
    wake_arg' = IF wake_arg[s].queued
                THEN [wake_arg EXCEPT ![s].queued = FALSE, ![s].sema = @ + 1]
                ELSE wake_arg

-----------------------------------------------------------------------------
(* The network handler.                                                     *)

(* The packet at hand is gone, and answered.                                *)
Answer(s, k, type) ==
    net' = [net EXCEPT ![s] = Tail(@),
                       ![Peer(s)] = IF type = "none" THEN @ ELSE Sent(@, Packet(k, type, 0))]

(* Mutant: a packet is expected though its number has been seen.            *)
Expected_Again(k, p) ==
    \/ p.seq \in {k.ack, k.ack + 1}
    \/ p.type \in {"ACK", "SYNACK"} /\ p.frag = 0 /\ p.ack = k.seq

(* The next in order, or an empty acknowledgement of the last packet sent.  *)
Expected(k, p) ==
    \/ p.seq = k.ack + 1
    \/ p.type \in {"ACK", "SYNACK"} /\ p.frag = 0 /\ p.ack = k.seq

(* queue_append to the buffer, where an empty item in last place gives way. *)
Put(q, n) == IF q # <<>> /\ q[Len(q)] = 0 THEN [q EXCEPT ![Len(q)] = n] ELSE Append(q, n)

(* Mutant: the semaphore counts the items.                                  *)
Buffered_EveryTime(k, n) ==
    [k EXCEPT !.buffer = Put(k.buffer, n), !.buffer_has_stuff = @ + 1]

(* The semaphore is signalled if the buffer was empty.                      *)
Buffered(k, n) ==
    [k EXCEPT !.buffer = Put(k.buffer, n),
              !.buffer_has_stuff = IF k.buffer = <<>> THEN @ + 1 ELSE @]

(* Mutant: only the numbers of data are kept.                               *)
Acknowledged_Data(k, p) == IF p.frag = 0 THEN k ELSE [k EXCEPT !.ack = p.seq]

Acknowledged(k, p) == [k EXCEPT !.ack = p.seq]

(* Nobody has the port open, or the packet is not expected: that is         *)
(* answered, whatever the state.                                            *)
HandleRefused(s, p) ==
    /\ \/ socket[s] = NULL /\ Answer(s, NULL, "none")
       \/ socket[s] # NULL /\ ~Expected(socket[s], p) /\ Answer(s, socket[s], "ACK")
    /\ UNCHANGED <<socketVars, buffered, fault>>

(* Socket k, with the ack it has now, gets a packet it expects.             *)
HandleSyn(s, k, p) ==
    /\ k.state = "LISTENING" /\ p.type = "SYN"
    /\ Answer(s, k, "SYNACK")
    /\ IF k.listening = NULL
       THEN fault' = TRUE /\ Set(s, k)
       ELSE /\ Set(s, [k EXCEPT !.state = "CONNECTING", !.timed_out = FALSE, !.listening = @ + 1])
            /\ UNCHANGED fault
    /\ UNCHANGED <<wake_arg, buffered>>

HandleConnected(s, k, p) ==
    /\ k.state = "CONNECTING" /\ p.type \in {"SYNACK", "ACK"}
    /\ Answer(s, k, IF p.type = "SYNACK" THEN "ACK" ELSE "none")
    /\ Set(s, [k EXCEPT !.state = "CONNECTED", !.timed_out = FALSE])
    /\ wake_from_packet(s)
    /\ UNCHANGED <<buffered, fault>>

(* Every ACK is buffered, acknowledged, and wakes the thread, empty or not. *)
HandleData(s, k, p) ==
    /\ k.state = "CONNECTED" /\ p.type = "ACK"
    /\ Answer(s, k, "ACK")
    /\ Set(s, [Buffered(k, p.frag) EXCEPT !.timed_out = FALSE])
    /\ buffered' = IF p.frag = 0 THEN buffered
                   ELSE [buffered EXCEPT ![s] = Append(@, p.frag)]
    /\ wake_from_packet(s)
    /\ UNCHANGED fault

HandleSynAck(s, k, p) ==
    /\ k.state = "CONNECTED" /\ p.type = "SYNACK"
    /\ Answer(s, k, "ACK")
    /\ Set(s, k)
    /\ UNCHANGED <<wake_arg, buffered, fault>>

(* The socket will not be closed within 15 seconds.                         *)
HandleFin(s, k, p) ==
    /\ k.state \in {"CONNECTED", "CLOSING"} /\ p.type = "FIN"
    /\ Answer(s, k, "ACK")
    /\ Set(s, IF k.state = "CLOSING" THEN k
              ELSE [k EXCEPT !.state = "CLOSING", !.unable_to_close = 0])
    /\ UNCHANGED <<wake_arg, buffered, fault>>

HandleFinAck(s, k, p) ==
    /\ k.state = "CLOSING" /\ p.type = "ACK"
    /\ Answer(s, k, "none")
    /\ Set(s, [k EXCEPT !.state = "CLOSED"])
    /\ UNCHANGED <<wake_arg, buffered, fault>>

HandleNothing(s, k, p) ==
    /\ \/ k.state \in {"START", "CLOSED"}
       \/ k.state = "LISTENING" /\ p.type # "SYN"
       \/ k.state = "CONNECTING" /\ p.type \notin {"SYNACK", "ACK"}
       \/ k.state = "CONNECTED" /\ p.type = "SYN"
       \/ k.state = "CLOSING" /\ p.type \notin {"FIN", "ACK"}
    /\ Answer(s, k, "none")
    /\ Set(s, k)
    /\ UNCHANGED <<wake_arg, buffered, fault>>

minisocket_handle_incoming_packet(s) ==
    /\ net[s] # <<>>
    /\ LET p == Head(net[s]) IN
       \/ HandleRefused(s, p)
       \/ /\ socket[s] # NULL
          /\ Expected(socket[s], p)
          /\ LET k == Acknowledged(socket[s], p) IN
             \/ HandleSyn(s, k, p) \/ HandleConnected(s, k, p) \/ HandleData(s, k, p)
             \/ HandleSynAck(s, k, p) \/ HandleFin(s, k, p) \/ HandleFinAck(s, k, p)
             \/ HandleNothing(s, k, p)
    /\ UNCHANGED <<wait_blocks, threadVars, faults>>

-----------------------------------------------------------------------------
(* minisocket_send: seq is not counted up for what is sent again.           *)

SendCall(s) ==
    /\ pc[s] = "ready"
    /\ socket[s].state = "CONNECTED"
    /\ frag[s] < MaxData[s]
    /\ remaining' = [remaining EXCEPT ![s] = MaxData[s] - frag[s]]
    /\ frag' = [frag EXCEPT ![s] = @ + 1]
    /\ Goto(s, "send")
    /\ UNCHANGED <<wait_blocks, socketVars, net, faults, buffered, confirmed, fault>>

(* Mutant: what is sent again has a new number.                             *)
SendCount_Always(s) ==
    /\ pc[s] = "send"
    /\ Set(s, [socket[s] EXCEPT !.seq = @ + 1])
    /\ Goto(s, "send_packet")
    /\ UNCHANGED <<wait_blocks, wake_arg, remaining, net, faults, frag, buffered, confirmed, fault>>

SendCount(s) ==
    /\ pc[s] = "send"
    /\ Set(s, [socket[s] EXCEPT !.seq = IF socket[s].tries = 0 THEN @ + 1 ELSE @])
    /\ Goto(s, "send_packet")
    /\ UNCHANGED <<wait_blocks, wake_arg, remaining, net, faults, frag, buffered, confirmed, fault>>

SendPacket(s) ==
    /\ pc[s] = "send_packet"
    /\ send(s, "ACK", frag[s])
    /\ Goto(s, "send_wait")
    /\ UNCHANGED <<wait_blocks, socketVars, remaining, faults, frag, buffered, confirmed, fault>>

(* A failed call leaves tries as it is.                                     *)
SendEvaluate(s) ==
    LET k == socket[s]
        tries == IF k.timed_out THEN k.tries + 1 ELSE 0
        left == IF k.timed_out THEN remaining[s] ELSE remaining[s] - 1
        again == left > 0 /\ tries <= MAX_TRIES
    IN /\ pc[s] = "send_evaluate"
       /\ Set(s, [k EXCEPT !.timed_out = FALSE, !.tries = tries])
       /\ confirmed' = IF k.timed_out THEN confirmed
                       ELSE [confirmed EXCEPT ![s] = @ \cup {frag[s]}]
       /\ remaining' = [remaining EXCEPT ![s] = IF again THEN left ELSE 0]
       /\ frag' = IF again /\ ~k.timed_out THEN [frag EXCEPT ![s] = @ + 1] ELSE frag
       /\ Goto(s, IF again THEN "send" ELSE "ready")
       /\ UNCHANGED <<wait_blocks, wake_arg, net, faults, buffered, fault>>

-----------------------------------------------------------------------------
(* minisocket_receive takes the items in front, all or up to one with data  *)
(* that fills the message.  (A message that ends within an item leads to    *)
(* the assertion of queue_prepend.)                                         *)
ReceiveCall(s) ==
    /\ pc[s] = "ready"
    /\ socket[s].state = "CONNECTED"
    /\ Goto(s, "receive")
    /\ UNCHANGED <<wait_blocks, socketVars, remaining, net, faults, frag, buffered, confirmed, fault>>

Receive(s) ==
    LET k == socket[s] IN
    /\ pc[s] = "receive"
    /\ k.buffer_has_stuff > 0
    /\ \E n \in 0 .. Len(k.buffer) :
          /\ n = Len(k.buffer) \/ (n > 0 /\ k.buffer[n] # 0)
          /\ Set(s, [k EXCEPT !.buffer = SubSeq(@, n + 1, Len(@)),
                              !.buffer_has_stuff = IF n < Len(k.buffer) THEN @ ELSE @ - 1])
    /\ Goto(s, "ready")
    /\ UNCHANGED <<wait_blocks, wake_arg, remaining, net, faults, frag, buffered, confirmed, fault>>

-----------------------------------------------------------------------------
(* minisocket_close.                                                        *)

(* If the peer was first, the thread waits for 15 seconds, and the socket   *)
(* is left as it is unless it is CLOSED by then.                            *)
CloseCall(s) ==
    LET k == socket[s] IN
    /\ pc[s] = "ready"
    /\ k.unable_to_close # 0
    /\ IF k.state = "CLOSING"
       THEN Goto(s, "done") /\ UNCHANGED socket
       ELSE Goto(s, "close") /\ Set(s, [k EXCEPT !.state = "CLOSING"])
    /\ UNCHANGED <<wait_blocks, wake_arg, remaining, net, faults, frag, buffered, confirmed, fault>>

(* The alarm of 15 seconds, which calls semaphore_V itself.                 *)
AbleToClose(s) ==
    /\ socket[s] # NULL
    /\ socket[s].unable_to_close = 0
    /\ Set(s, [socket[s] EXCEPT !.unable_to_close = 1])
    /\ UNCHANGED <<wait_blocks, wake_arg, threadVars, net, faults, buffered, fault>>

Close(s) ==
    LET k == socket[s] IN
    /\ pc[s] = "close"
    /\ IF k.state # "CLOSED" /\ k.tries <= MAX_TRIES
       THEN Goto(s, "close_wait") /\ send(s, "FIN", 0) /\ UNCHANGED socket
       ELSE Goto(s, "done") /\ Set(s, NULL) /\ UNCHANGED net
    /\ UNCHANGED <<wait_blocks, wake_arg, remaining, faults, frag, buffered, confirmed, fault>>

CloseEvaluate(s) ==
    LET k == socket[s] IN
    /\ pc[s] = "close_evaluate"
    /\ Set(s, [k EXCEPT !.timed_out = FALSE, !.tries = IF k.timed_out THEN @ + 1 ELSE @])
    /\ Goto(s, "close")
    /\ UNCHANGED <<wait_blocks, wake_arg, remaining, net, faults, frag, buffered, confirmed, fault>>

-----------------------------------------------------------------------------
(* The network, and miniroute: a packet gets lost or comes again, a route   *)
(* is not found for a packet of a socket that is being connected.           *)

Lose(s) ==
    /\ net[s] # <<>>
    /\ net' = [net EXCEPT ![s] = Tail(@)]
    /\ UNCHANGED socket

Duplicate(s) ==
    /\ net[s] # <<>>
    /\ net' = [net EXCEPT ![s] = <<Head(@)>> \o @]
    /\ UNCHANGED socket

RouteNotFound(s) ==
    /\ socket[s] # NULL /\ socket[s].state \in {"START", "LISTENING", "CONNECTING"}
    /\ Set(s, [socket[s] EXCEPT !.error = TRUE])
    /\ UNCHANGED net

NetworkFault ==
    /\ faults < MaxFaults
    /\ faults' = faults + 1
    /\ \E s \in Sides : Lose(s) \/ Duplicate(s) \/ RouteNotFound(s)
    /\ UNCHANGED <<wait_blocks, wake_arg, threadVars, buffered, fault>>

Create == minisocket_server_create \/ minisocket_client_create \/ SendSyn \/ Connecting

(* The steps of the thread of s within a call.                              *)
CallStep(s) ==
    \/ Connect(s) \/ ListenWait(s) \/ ConnectEvaluate(s)
    \/ Wait(s) \/ Woken(s)
    \/ SendCount(s) \/ SendPacket(s) \/ SendEvaluate(s)
    \/ Receive(s)
    \/ Close(s) \/ CloseEvaluate(s)

AlarmStep(s) == AlarmDequeue(s) \/ wake_from_timeout(s) \/ AbleToClose(s)

Next ==
    /\ ~fault
    /\ \/ Create
       \/ \E s \in Sides :
             \/ SendCall(s) \/ ReceiveCall(s) \/ CloseCall(s)
             \/ CallStep(s)
             \/ AlarmStep(s)
             \/ minisocket_handle_incoming_packet(s)
       \/ NetworkFault

Spec == Init /\ [][Next]_vars

-----------------------------------------------------------------------------
(* Properties.                                                              *)

(* Typing.  The semaphore of the buffer says whether there is anything in   *)
(* it, also where items are put back or arrive between P and the dequeue.   *)
TypeOK ==
    \A s \in Sides :
        LET k == socket[s] IN
        /\ k # NULL =>
              /\ k \in Sockets
              /\ k.seq \in 1 .. MaxData[s] + 1
              /\ k.ack \in 0 .. MaxData[Peer(s)] + 1
              /\ k.tries \in 0 .. MAX_TRIES + 1 + MaxData[s]
              /\ k.buffer_has_stuff = IF k.buffer = <<>> THEN 0 ELSE 1
        /\ wake_arg[s].sema \in 0 .. 2
        /\ net[s] \in Seq(Packets)
        /\ remaining[s] \in 0 .. MaxData[s]

(* What reaches the buffer are fragments of the peer in the order they were *)
(* sent in, none of them twice, whatever was lost, sent again or came twice.*)
InOrderAtMostOnce ==
    \A s \in Sides :
        \A i, j \in DOMAIN buffered[s] : i < j => buffered[s][i] < buffered[s][j]

(* While both sides have their sockets, what one has acknowledged the other *)
(* has sent; and no side is more than one packet ahead of what the other    *)
(* has seen of it, whatever was lost, repeated or late.  That much takes    *)
(* waiT, and a peer that has not begun to send: afterwards even an answer   *)
(* of the peer without data may have a new number, and any packet with a    *)
(* new number wakes a sender as its acknowledgement does.                   *)
Open == \A s \in Sides : socket[s] # NULL

WindowOfOne ==
    Open => \A s \in Sides :
        /\ socket[Peer(s)].ack <= socket[s].seq
        /\ wait_blocks /\ frag[Peer(s)] = 0 => socket[s].seq <= socket[Peer(s)].ack + 1

(* A side is connected only to a side that has had a packet of it, be it    *)
(* that the handshake ended on the answer awaited or on something else that *)
(* the code takes for it, such as the refusal of a repeated SYN.            *)
HandshakeAgrees ==
    Open => \A s \in Sides :
        socket[s].state = "CONNECTED" => socket[Peer(s)].ack >= 1

(* The documentation of minisocket_send: it blocks until the remote host    *)
(* has acknowledged that the packet is buffered.  Violated: see the README. *)
SendsAreBuffered ==
    \A s \in Sides : \A n \in confirmed[s] :
        \E i \in DOMAIN buffered[Peer(s)] : buffered[Peer(s)][i] = n

=============================================================================
