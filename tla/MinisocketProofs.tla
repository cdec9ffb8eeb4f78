--------------------------- MODULE MinisocketProofs ---------------------------
(***************************************************************************)
(* The data of a minisocket arrives in order and at most once, for every   *)
(* amount of data, number of tries, size and number of faults of the       *)
(* network: THEOREM OrderlyDelivery.  Below it, by a second invariant that *)
(* uses the first: THEOREM MinisocketTyping, OnePacketAhead and            *)
(* HandshakesAgree.                                                        *)
(*                                                                         *)
(* The argument follows the packets on their way from one side to the      *)
(* other.  Their numbers never fall, and between two of them with data     *)
(* under different numbers the data moves on (Moving); data under an older *)
(* number than the sender's is older than the data the sender is at        *)
(* (Behind), and data under a newer number than the receiver's ack is      *)
(* newer than what the receiver has (Ahead).  These support each other,    *)
(* and need one thing more of the sender: that the data it is about to     *)
(* give a new number has never been sent (Fresh).                          *)
(***************************************************************************)
EXTENDS Minisocket, SequenceTheorems, TLAPS

(* What bs says of a number above all its members.                          *)
Below(bs, n) == \A j \in 1 .. Len(bs) : bs[j] < n

Rising(bs) == \A i, j \in 1 .. Len(bs) : i < j => bs[i] < bs[j]

(* The packets q on their way from a to k, one of which may be NULL; f is   *)
(* the fragment of a, bs are those k has, x says that a is at a new one.    *)
Moving(q) ==
    \A i, j \in 1 .. Len(q) : i < j =>
        /\ q[i].seq <= q[j].seq
        /\ q[i].frag # 0 /\ q[j].frag # 0 /\ q[i].seq < q[j].seq => q[i].frag < q[j].frag

Behind(q, a, f) ==
    a # NULL => \A i \in 1 .. Len(q) :
        /\ q[i].seq <= a.seq
        /\ q[i].frag # 0 /\ q[i].seq < a.seq => q[i].frag < f

Given(q, f, bs) ==
    /\ \A i \in 1 .. Len(q) : q[i].frag <= f
    /\ \A j \in 1 .. Len(bs) : bs[j] <= f

Fresh(q, f, bs, x) ==
    x => /\ \A i \in 1 .. Len(q) : q[i].frag # 0 => q[i].frag < f
         /\ Below(bs, f)

Ahead(q, k, bs) ==
    k # NULL => \A i \in 1 .. Len(q) :
        /\ k.ack <= q[i].seq
        /\ q[i].frag # 0 /\ k.ack < q[i].seq => Below(bs, q[i].frag)

Window(a, k, f, bs) ==
    a # NULL /\ k # NULL =>
        /\ k.ack <= a.seq
        /\ k.ack < a.seq => Below(bs, f)

Chan(q, a, k, f, bs, x) ==
    /\ Moving(q) /\ Behind(q, a, f) /\ Given(q, f, bs) /\ Fresh(q, f, bs, x)
    /\ Ahead(q, k, bs) /\ Window(a, k, f, bs) /\ Rising(bs)

(* The thread of s is about to give its fragment a new number.              *)
Counting(s) == pc[s] = "send" /\ socket[s].tries = 0

ChanTo(s) ==
    Chan(net[s], socket[Peer(s)], socket[s], frag[Peer(s)], buffered[s], Counting(Peer(s)))

WakeArgs == [alarm : {"none", "set", "taken"}, queued : BOOLEAN, sema : Nat]

PC == {"create", "syn", "connecting", "connect", "connect_wait", "connect_blocked",
       "connect_evaluate", "listen", "listening", "ready", "send", "send_packet", "send_wait",
       "send_blocked", "send_evaluate", "receive", "close", "close_wait", "close_blocked",
       "close_evaluate", "done", "failed"}

Typing ==
    /\ socket \in [Sides -> Sockets \cup {NULL}]
    /\ pc \in [Sides -> PC]
    /\ wake_arg \in [Sides -> WakeArgs]
    /\ net \in [Sides -> Seq(Packets)]
    /\ frag \in [Sides -> Nat]
    /\ buffered \in [Sides -> Seq(Nat)]

(* Nothing has been sent by, or given to, a side that is not there yet.     *)
NotYet(s) ==
    pc[s] = "create" =>
        /\ socket[s] = NULL
        /\ net[Peer(s)] = <<>> /\ buffered[s] = <<>> /\ buffered[Peer(s)] = <<>>
        /\ socket[Peer(s)] # NULL => socket[Peer(s)].ack = 0

(* A thread within a call has its socket, and so has its alarm.             *)
InCall(s) ==
    /\ pc[s] \notin {"create", "done", "failed"} => socket[s] # NULL
    /\ wake_arg[s].alarm # "none" => pc[s] \in {"connect_blocked", "send_blocked", "close_blocked"}

IInv ==
    /\ Typing
    /\ \A s \in Sides : NotYet(s) /\ InCall(s) /\ ChanTo(s)

-----------------------------------------------------------------------------
(* What the operations on the packets do to a channel.                      *)

LEMMA Elements ==
    ASSUME NEW q \in Seq(Packets)
    PROVE  /\ Len(q) \in Nat
           /\ \A i \in 1 .. Len(q) : q[i] \in Packets /\ q[i].seq \in Nat /\ q[i].frag \in Nat
           /\ q # <<>> => Len(q) > 0 /\ Head(q) = q[1] /\ Head(q) \in Packets
<1>1. Len(q) \in Nat /\ \A i \in 1 .. Len(q) : q[i] \in Packets
  BY LenProperties, ElementOfSeq
<1>2. \A p \in Packets : p.seq \in Nat /\ p.frag \in Nat
  BY DEF Packets
<1>3. ASSUME q # <<>>
      PROVE  Len(q) > 0 /\ Head(q) = q[1] /\ Head(q) \in Packets
  BY <1>3, HeadTailProperties, EmptySeq, LenProperties
<1> QED
  BY <1>1, <1>2, <1>3

(* A packet at the end, with the number of its sender: new data, if any,    *)
(* is what the sender is at, and is then no longer fresh.                    *)
LEMMA SendKeepsChan ==
    ASSUME NEW q \in Seq(Packets), NEW p \in Packets, NEW bs \in Seq(Nat), NEW f \in Nat,
           NEW a, a # NULL, a.seq \in Nat, NEW k, k # NULL => k.ack \in Nat,
           NEW x \in BOOLEAN, Chan(q, a, k, f, bs, x),
           p.seq = a.seq, p.frag = 0 \/ (p.frag = f /\ ~x)
    PROVE  Chan(Append(q, p), a, k, f, bs, x)
<1> DEFINE r == Append(q, p)
<1>1. /\ r \in Seq(Packets) /\ Len(r) = Len(q) + 1 /\ Len(q) \in Nat
      /\ \A i \in 1 .. Len(q) : r[i] = q[i] /\ q[i].seq \in Nat /\ q[i].frag \in Nat
      /\ r[Len(q) + 1] = p
  BY AppendProperties, Elements
<1>2. p.seq \in Nat /\ p.frag \in Nat
  BY DEF Packets
<1>3. \A j \in 1 .. Len(bs) : bs[j] \in Nat
  BY ElementOfSeq
<1> HIDE DEF r
<1>4. \A i \in 1 .. Len(r) : i \in 1 .. Len(q) \/ i = Len(q) + 1
  BY <1>1
<1>5. Moving(r)
  <2>1. \A i \in 1 .. Len(q) : q[i].seq <= p.seq /\ (q[i].frag # 0 /\ q[i].seq < p.seq => q[i].frag < f)
    BY DEF Chan, Behind
  <2>2. \A i, j \in 1 .. Len(q) : i < j =>
          /\ r[i].seq <= r[j].seq
          /\ r[i].frag # 0 /\ r[j].frag # 0 /\ r[i].seq < r[j].seq => r[i].frag < r[j].frag
    BY <1>1 DEF Chan, Moving
  <2> SUFFICES ASSUME NEW i \in 1 .. Len(r), NEW j \in 1 .. Len(r), i < j
               PROVE  /\ r[i].seq <= r[j].seq
                      /\ r[i].frag # 0 /\ r[j].frag # 0 /\ r[i].seq < r[j].seq
                           => r[i].frag < r[j].frag
    BY DEF Moving
  <2>3. i \in 1 .. Len(q)
    BY <1>1
  <2>4. CASE j = Len(q) + 1
    BY <2>1, <2>3, <2>4, <1>1, <1>2
  <2>5. CASE j \in 1 .. Len(q)
    BY <2>2, <2>3, <2>5
  <2> QED
    BY <2>4, <2>5, <1>4
<1>6. Behind(r, a, f)
  BY <1>1, <1>2, <1>4 DEF Chan, Behind
<1>7. Given(r, f, bs)
  BY <1>1, <1>2, <1>4 DEF Chan, Given
<1>8. Fresh(r, f, bs, x)
  BY <1>1, <1>2, <1>4 DEF Chan, Fresh
<1>9. Ahead(r, k, bs)
  BY <1>1, <1>2, <1>3, <1>4 DEF Chan, Ahead, Window, Below
<1> QED
  BY <1>5, <1>6, <1>7, <1>8, <1>9 DEF Chan, r

(* The packet in front is lost.                                             *)
LEMMA DropKeepsChan ==
    ASSUME NEW q \in Seq(Packets), q # <<>>, NEW a, NEW k, NEW f, NEW bs, NEW x,
           Chan(q, a, k, f, bs, x)
    PROVE  Chan(Tail(q), a, k, f, bs, x)
<1> DEFINE r == Tail(q)
<1>1. /\ Len(q) \in Nat /\ Len(r) = Len(q) - 1
      /\ \A i \in 1 .. Len(r) : r[i] = q[i + 1]
  BY HeadTailProperties, LenProperties
<1> HIDE DEF r
<1>2. \A i \in 1 .. Len(r) : i + 1 \in 1 .. Len(q) /\ r[i] = q[i + 1]
  BY <1>1
<1>3. \A i, j \in 1 .. Len(r) : i < j => i + 1 < j + 1
  OBVIOUS
<1>4. Moving(r)
  BY <1>2, <1>3 DEF Chan, Moving
<1>5. Behind(r, a, f) /\ Given(r, f, bs) /\ Fresh(r, f, bs, x) /\ Ahead(r, k, bs)
  BY <1>2 DEF Chan, Behind, Given, Fresh, Ahead
<1> QED
  BY <1>4, <1>5 DEF Chan, r

(* The packet in front comes again.                                         *)
LEMMA RepeatKeepsChan ==
    ASSUME NEW q \in Seq(Packets), q # <<>>, NEW a, NEW k, NEW f, NEW bs, NEW x,
           Chan(q, a, k, f, bs, x)
    PROVE  Chan(<<Head(q)>> \o q, a, k, f, bs, x)
<1> DEFINE r == <<Head(q)>> \o q
<1>1. /\ Len(q) \in Nat /\ Len(q) > 0 /\ Head(q) = q[1]
      /\ \A i \in 1 .. Len(q) : q[i].seq \in Nat /\ q[i].frag \in Nat
  BY Elements
<1>2. Head(q) \in Packets
  BY Elements
<1>3. /\ <<Head(q)>> \in Seq(Packets) /\ Len(<<Head(q)>>) = 1 /\ <<Head(q)>>[1] = Head(q)
  BY <1>2
<1>4. /\ Len(r) = 1 + Len(q)
      /\ r[1] = q[1]
      /\ \A i \in 2 .. Len(q) + 1 : r[i] = q[i - 1]
  BY <1>1, <1>3, ConcatProperties
<1> HIDE DEF r
<1> DEFINE at(i) == IF i = 1 THEN 1 ELSE i - 1
<1>5. \A i \in 1 .. Len(r) : at(i) \in 1 .. Len(q) /\ r[i] = q[at(i)]
  BY <1>1, <1>4
<1>6. \A i, j \in 1 .. Len(r) : i < j => at(i) < at(j) \/ at(i) = at(j)
  BY <1>1, <1>4
<1> HIDE DEF at
<1>7. Moving(r)
  <2> SUFFICES ASSUME NEW i \in 1 .. Len(r), NEW j \in 1 .. Len(r), i < j
               PROVE  /\ r[i].seq <= r[j].seq
                      /\ r[i].frag # 0 /\ r[j].frag # 0 /\ r[i].seq < r[j].seq
                           => r[i].frag < r[j].frag
    BY DEF Moving
  <2>1. CASE at(i) = at(j)
    BY <2>1, <1>1, <1>5
  <2>2. CASE at(i) < at(j)
    BY <2>2, <1>5 DEF Chan, Moving
  <2> QED
    BY <2>1, <2>2, <1>6
<1>8. Behind(r, a, f) /\ Given(r, f, bs) /\ Fresh(r, f, bs, x) /\ Ahead(r, k, bs)
  BY <1>5 DEF Chan, Behind, Given, Fresh, Ahead
<1> QED
  BY <1>7, <1>8 DEF Chan, r

(* The packet in front is accepted: it is the next in order, or has no      *)
(* data.  Its data, if any, goes to the buffer or is dropped.               *)
LEMMA AcceptKeepsChan ==
    ASSUME NEW q \in Seq(Packets), q # <<>>, NEW bs \in Seq(Nat), NEW f \in Nat,
           NEW a, a # NULL => a.seq \in Nat, NEW k, k # NULL, k.ack \in Nat,
           NEW x \in BOOLEAN, Chan(q, a, k, f, bs, x),
           Head(q).seq = k.ack + 1 \/ Head(q).frag = 0,
           NEW k2, k2.ack = Head(q).seq,
           NEW bs2, bs2 = bs \/ (Head(q).frag # 0 /\ bs2 = Append(bs, Head(q).frag))
    PROVE  Chan(Tail(q), a, k2, f, bs2, x)
<1> DEFINE r == Tail(q)
           p == Head(q)
<1>1. /\ Len(q) \in Nat /\ Len(q) > 0 /\ p = q[1] /\ p \in Packets /\ Len(r) = Len(q) - 1
      /\ \A i \in 1 .. Len(r) : r[i] = q[i + 1]
      /\ \A i \in 1 .. Len(q) : q[i].seq \in Nat /\ q[i].frag \in Nat
  BY HeadTailProperties, Elements
<1>2. Chan(r, a, k, f, bs, x)
  BY DropKeepsChan
<1>3. \A j \in 1 .. Len(bs) : bs[j] \in Nat
  BY ElementOfSeq
<1>4. p.seq \in Nat /\ p.frag \in Nat
  BY <1>1 DEF Packets
<1>5. Len(bs) \in Nat
  BY LenProperties
<1>6. ASSUME bs2 # bs
      PROVE  /\ p.frag # 0 /\ p.seq = k.ack + 1
             /\ Len(bs2) = Len(bs) + 1 /\ bs2[Len(bs) + 1] = p.frag
             /\ \A j \in 1 .. Len(bs) : bs2[j] = bs[j]
  BY <1>4, <1>6, AppendProperties, SMTT(20)
<1> HIDE DEF r, p
<1>7. k.ack <= p.seq
  BY <1>1 DEF Chan, Ahead
<1>8. \A i \in 1 .. Len(r) : i + 1 \in 1 .. Len(q) /\ 1 \in 1 .. Len(q) /\ 1 < i + 1 /\ r[i] = q[i + 1]
  BY <1>1
<1>9. \A i \in 1 .. Len(r) :
         /\ r[i].seq \in Nat /\ r[i].frag \in Nat
         /\ p.seq <= r[i].seq
         /\ p.frag # 0 /\ r[i].frag # 0 /\ p.seq < r[i].seq => p.frag < r[i].frag
  BY <1>1, <1>8 DEF Chan, Moving
<1>10. bs2 # bs => \A j \in 1 .. Len(bs2) : j \in 1 .. Len(bs) \/ j = Len(bs) + 1
  BY <1>5, <1>6
<1>11. bs2 # bs => Below(bs, p.frag)
  BY <1>1, <1>6, <1>4 DEF Chan, Ahead
<1>12. Given(r, f, bs2)
  <2>1. p.frag <= f
    BY <1>1 DEF Chan, Given
  <2> QED
    BY <1>2, <1>6, <1>10, <2>1 DEF Chan, Given
<1>13. Fresh(r, f, bs2, x)
  <2>1. x /\ p.frag # 0 => p.frag < f
    BY <1>1 DEF Chan, Fresh
  <2> QED
    BY <1>2, <1>6, <1>10, <2>1 DEF Chan, Fresh, Below
<1>14. Ahead(r, k2, bs2)
  <2> SUFFICES ASSUME NEW i \in 1 .. Len(r), r[i].frag # 0, p.seq < r[i].seq
               PROVE  Below(bs2, r[i].frag)
    BY <1>9 DEF Ahead, p
  <2>1. Below(bs, r[i].frag)
    BY <1>2, <1>4, <1>7, <1>9 DEF Chan, Ahead
  <2> QED
    BY <2>1, <1>6, <1>9, <1>10 DEF Below
<1>15. Window(a, k2, f, bs2)
  <2> SUFFICES ASSUME a # NULL
               PROVE  p.seq <= a.seq /\ (p.seq < a.seq => Below(bs2, f))
    BY DEF Window, p
  <2>1. p.seq <= a.seq /\ (p.frag # 0 /\ p.seq < a.seq => p.frag < f)
    BY <1>1 DEF Chan, Behind
  <2>2. p.seq < a.seq => Below(bs, f)
    BY <1>4, <1>7, <2>1 DEF Chan, Window
  <2> QED
    BY <2>1, <2>2, <1>6, <1>10 DEF Below
<1>16. Rising(bs2)
  <2>1. Rising(bs)
    BY DEF Chan
  <2>2. CASE bs2 = bs
    BY <2>1, <2>2
  <2>3. CASE bs2 # bs
    <3>1. \A j \in 1 .. Len(bs) : bs2[j] < p.frag
      BY <2>3, <1>6, <1>11 DEF Below
    <3> SUFFICES ASSUME NEW i \in 1 .. Len(bs2), NEW j \in 1 .. Len(bs2), i < j
                 PROVE  bs2[i] < bs2[j]
      BY DEF Rising
    <3>2. i \in 1 .. Len(bs)
      BY <1>5, <1>6, <2>3
    <3>3. CASE j = Len(bs) + 1
      BY <3>1, <3>2, <3>3, <1>6, <2>3
    <3>4. CASE j \in 1 .. Len(bs)
      BY <2>1, <2>3, <3>2, <3>4, <1>6 DEF Rising
    <3> QED
      BY <3>3, <3>4, <1>10, <2>3
  <2> QED
    BY <2>2, <2>3
<1> QED
  BY <1>2, <1>12, <1>13, <1>14, <1>15, <1>16 DEF Chan, r

(* The sides go on under their numbers, or are gone.                        *)
LEMMA QuietKeepsChan ==
    ASSUME NEW q, NEW f, NEW bs, NEW a, NEW k, NEW a2, NEW k2, NEW x, NEW y,
           Chan(q, a, k, f, bs, x), y => x,
           a2 # NULL => a # NULL /\ a2.seq = a.seq,
           k2 # NULL => k # NULL /\ k2.ack = k.ack
    PROVE  Chan(q, a2, k2, f, bs, y)
BY DEF Chan, Behind, Fresh, Ahead, Window

(* The sender goes to its next fragment, under the number it has,           *)
LEMMA NextKeepsChan ==
    ASSUME NEW q \in Seq(Packets), NEW f \in Nat, NEW bs \in Seq(Nat), NEW a, NEW k, NEW a2,
           NEW x, NEW y, Chan(q, a, k, f, bs, x),
           a2 # NULL => a # NULL /\ a2.seq = a.seq
    PROVE  Chan(q, a2, k, f + 1, bs, y)
<1>1. \A i \in 1 .. Len(q) : q[i].seq \in Nat /\ q[i].frag \in Nat
  BY Elements
<1>2. \A j \in 1 .. Len(bs) : bs[j] \in Nat
  BY ElementOfSeq
<1>3. Behind(q, a2, f + 1)
  BY <1>1 DEF Chan, Behind
<1>4. Given(q, f + 1, bs)
  <2>1. Given(q, f, bs)
    BY DEF Chan
  <2>2. \A n \in Nat : n <= f => n <= f + 1
    OBVIOUS
  <2> QED
    BY <1>1, <1>2, <2>1, <2>2 DEF Given
<1>5. Fresh(q, f + 1, bs, y)
  BY <1>1, <1>2 DEF Chan, Given, Fresh, Below
<1>6. Ahead(q, k, bs)
  BY DEF Chan
<1>7. Window(a2, k, f + 1, bs)
  BY <1>2 DEF Chan, Window, Given, Below
<1> QED
  BY <1>3, <1>4, <1>5, <1>6, <1>7 DEF Chan

(* and then to its next number.                                             *)
LEMMA CountKeepsChan ==
    ASSUME NEW q \in Seq(Packets), NEW f \in Nat, NEW bs, NEW a, a # NULL, a.seq \in Nat,
           NEW k, k # NULL => k.ack \in Nat, NEW a2, NEW x, x,
           Chan(q, a, k, f, bs, x), a2.seq = a.seq + 1
    PROVE  Chan(q, a2, k, f, bs, FALSE)
<1>1. \A i \in 1 .. Len(q) : q[i].seq \in Nat
  BY Elements
<1>2. Behind(q, a2, f)
  BY <1>1 DEF Chan, Behind, Fresh
<1>3. Window(a2, k, f, bs)
  BY DEF Chan, Window, Fresh
<1> QED
  BY <1>2, <1>3 DEF Chan, Fresh

(* A side comes into being.                                                 *)
LEMMA NewSenderHasChan ==
    ASSUME NEW a, a.seq = 1, NEW k, k # NULL => k.ack = 0, NEW f
    PROVE  Chan(<<>>, a, k, f, <<>>, FALSE)
BY DEF Chan, Moving, Behind, Given, Fresh, Ahead, Window, Rising, Below

LEMMA NewReceiverHasChan ==
    ASSUME NEW q \in Seq(Packets), NEW a, a # NULL => a.seq \in Nat, NEW k, NEW k2, k2.ack = 0,
           NEW f, NEW x, Chan(q, a, k, f, <<>>, x)
    PROVE  Chan(q, a, k2, f, <<>>, x)
<1>1. \A i \in 1 .. Len(q) : q[i].seq \in Nat
  BY Elements
<1> QED
  BY <1>1 DEF Chan, Ahead, Window, Below

-----------------------------------------------------------------------------
(* What a side does on its own.                                             *)

LEMMA SidesFact == \A s \in Sides : Peer(s) \in Sides /\ Peer(s) # s /\ Peer(Peer(s)) = s
                                     /\ \A t \in Sides : t = s \/ t = Peer(s)
BY DEF Sides, Peer

LEMMA SocketFact ==
    /\ NULL \notin Sockets
    /\ \A k \in Sockets : k # NULL /\ k.seq \in Nat /\ k.ack \in Nat
BY MinisocketAssumption DEF Sockets

(* The thread of s, or its alarm, takes a step within a call, sends at most *)
(* one packet, and leaves the numbers as they are.                          *)
Quiet(s) ==
    /\ \A t \in Sides \ {s} : socket'[t] = socket[t] /\ pc'[t] = pc[t] /\ wake_arg'[t] = wake_arg[t]
    /\ socket'[s] # NULL => /\ socket[s] # NULL
                            /\ socket'[s].seq = socket[s].seq /\ socket'[s].ack = socket[s].ack
    /\ pc[s] # "create" /\ pc'[s] # "create"
    /\ InCall(s)'
    /\ Counting(s)' => Counting(s)
    /\ frag' = frag /\ buffered' = buffered
    /\ net'[s] = net[s]
    /\ \/ net'[Peer(s)] = net[Peer(s)]
       \/ \E p \in Packets :
             /\ net'[Peer(s)] = Append(net[Peer(s)], p)
             /\ socket'[s] # NULL /\ p.seq = socket'[s].seq
             /\ p.frag = 0 \/ (p.frag = frag[s] /\ ~Counting(s)')

LEMMA QuietKeepsIInv ==
    ASSUME IInv, Typing', NEW s \in Sides, Quiet(s)
    PROVE  IInv'
<1> DEFINE o == Peer(s)
<1>1. /\ o \in Sides /\ o # s /\ Peer(o) = s /\ Peer(s) = o
      /\ \A t \in Sides : t = s \/ t = o
  BY SidesFact
<1> HIDE DEF o
<1>2. /\ net[s] \in Seq(Packets) /\ net[o] \in Seq(Packets)
      /\ frag[s] \in Nat /\ frag[o] \in Nat
      /\ buffered[s] \in Seq(Nat) /\ buffered[o] \in Seq(Nat)
      /\ \A t \in Sides : /\ socket[t] # NULL => socket[t].seq \in Nat /\ socket[t].ack \in Nat
                          /\ socket'[t] # NULL => socket'[t].seq \in Nat /\ socket'[t].ack \in Nat
  BY <1>1, SocketFact DEF IInv, Typing
<1>3. /\ socket'[o] = socket[o] /\ pc'[o] = pc[o] /\ wake_arg'[o] = wake_arg[o]
      /\ frag' = frag /\ buffered' = buffered /\ net'[s] = net[s]
      /\ Counting(o)' = Counting(o)
  BY <1>1 DEF Quiet, Counting
<1>4. NotYet(s)' /\ InCall(s)' /\ InCall(o)'
  BY <1>1, <1>3 DEF Quiet, NotYet, InCall, IInv
<1>5. NotYet(o)'
  <2> SUFFICES ASSUME pc[o] = "create"
               PROVE  /\ socket[o] = NULL
                      /\ net[s] = <<>> /\ buffered[o] = <<>> /\ buffered[s] = <<>>
                      /\ socket'[s] # NULL => socket'[s].ack = 0
    BY <1>1, <1>3 DEF NotYet
  <2> QED
    BY <1>1 DEF IInv, NotYet, Quiet
<1>6. ChanTo(s)'
  <2>1. Chan(net[s], socket[o], socket[s], frag[o], buffered[s], Counting(o))
    BY <1>1 DEF IInv, ChanTo
  <2> DEFINE x == Counting(o)
             k2 == socket'[s]
  <2>2. k2 # NULL => socket[s] # NULL /\ k2.ack = socket[s].ack
    BY DEF Quiet
  <2>3. Chan(net[s], socket[o], k2, frag[o], buffered[s], x)
    <3> HIDE DEF x, k2
    <3> QED  BY <2>1, <2>2, QuietKeepsChan DEF x
  <2> QED
    BY <1>1, <1>3, <2>3 DEF ChanTo
<1>7. ChanTo(o)'
  <2>1. Chan(net[o], socket[s], socket[o], frag[s], buffered[o], Counting(s))
    BY <1>1 DEF IInv, ChanTo
  <2>2. PICK y \in BOOLEAN : y = Counting(s)'
    BY DEF Counting
  <2>3. PICK a2 : a2 = socket'[s]
    OBVIOUS
  <2>4. a2 # NULL => socket[s] # NULL /\ a2.seq = socket[s].seq
    BY <2>3 DEF Quiet
  <2>5. y => Counting(s)
    BY <2>2 DEF Quiet
  <2>6. Chan(net[o], a2, socket[o], frag[s], buffered[o], y)
    BY <2>1, <2>4, <2>5, QuietKeepsChan
  <2>7. CASE net'[o] = net[o]
    BY <1>1, <1>3, <2>2, <2>3, <2>6, <2>7 DEF ChanTo
  <2>8. CASE net'[o] # net[o]
    <3>1. PICK p \in Packets :
             /\ net'[o] = Append(net[o], p)
             /\ a2 # NULL /\ p.seq = a2.seq
             /\ p.frag = 0 \/ (p.frag = frag[s] /\ ~y)
      BY <1>1, <2>2, <2>3, <2>8 DEF Quiet
    <3>2. Chan(Append(net[o], p), a2, socket[o], frag[s], buffered[o], y)
      BY <1>1, <1>2, <2>3, <2>6, <3>1, SendKeepsChan, ZenonT(30)
    <3> QED
      BY <1>1, <1>3, <2>2, <2>3, <3>1, <3>2 DEF ChanTo
  <2> QED
    BY <2>7, <2>8
<1> QED
  BY <1>1, <1>4, <1>5, <1>6, <1>7 DEF IInv

-----------------------------------------------------------------------------
(* What the parts of the actions do.                                        *)

LEMMA SetFact ==
    ASSUME Typing, NEW s \in Sides, NEW k \in Sockets \cup {NULL}, Set(s, k)
    PROVE  /\ socket' \in [Sides -> Sockets \cup {NULL}]
           /\ socket'[s] = k
           /\ \A t \in Sides \ {s} : socket'[t] = socket[t]
BY DEF Typing, Set

LEMMA GotoFact ==
    ASSUME Typing, NEW s \in Sides, NEW next \in PC, Goto(s, next)
    PROVE  /\ pc' \in [Sides -> PC]
           /\ pc'[s] = next
           /\ \A t \in Sides \ {s} : pc'[t] = pc[t]
BY DEF Typing, Goto

LEMMA SendFact ==
    ASSUME Typing, NEW s \in Sides, socket[s] # NULL, NEW type \in {"SYN", "SYNACK", "ACK", "FIN"},
           NEW n \in Nat, send(s, type, n)
    PROVE  /\ net' \in [Sides -> Seq(Packets)]
           /\ net'[s] = net[s]
           /\ \/ net'[Peer(s)] = net[Peer(s)]
              \/ \E p \in Packets :
                    /\ net'[Peer(s)] = Append(net[Peer(s)], p)
                    /\ p.seq = socket[s].seq /\ p.frag = n
<1> DEFINE o == Peer(s)
           p == Packet(socket[s], type, n)
           q == net[o]
<1>1. o \in Sides /\ o # s
  BY SidesFact
<1>2. p \in Packets /\ p.seq = socket[s].seq /\ p.frag = n
  BY SocketFact DEF Typing, Packet, Packets
<1>3. q \in Seq(Packets)
  BY <1>1 DEF Typing
<1>4. net' = [net EXCEPT ![o] = Sent(q, p)]
  BY DEF send
<1> HIDE DEF o, p, q
<1>5. Sent(q, p) = q \/ Sent(q, p) = Append(q, p)
  BY DEF Sent
<1>6. Sent(q, p) \in Seq(Packets)
  BY <1>2, <1>3, <1>5, AppendProperties
<1> DEFINE r == Sent(q, p)
<1>7. net' = [net EXCEPT ![o] = r]
  BY <1>4
<1> HIDE DEF r
<1>8. /\ net' \in [Sides -> Seq(Packets)] /\ net'[s] = net[s] /\ net'[o] = r
  BY <1>1, <1>6, <1>7 DEF Typing, r
<1> QED
  BY <1>2, <1>5, <1>8 DEF r, o, q

(* The fields of a socket but its numbers are anything of their types.      *)
LEMMA FieldFact ==
    ASSUME NEW k \in Sockets
    PROVE  /\ k.seq \in Nat /\ k.ack \in Nat /\ k.state \in States /\ k.timed_out \in BOOLEAN
           /\ k.tries \in Nat /\ k.error \in BOOLEAN /\ k.buffer \in Seq(Nat)
           /\ k.buffer_has_stuff \in Nat
           /\ k.unable_to_close \in Nat \cup {NULL} /\ k.listening \in Nat \cup {NULL}
BY DEF Sockets

(* A step of s that changes the socket, the place of the thread, and no     *)
(* packets, or sends one.                                                   *)
Kept(k, k2) == k2 = NULL \/ (k2 \in Sockets /\ k2.seq = k.seq /\ k2.ack = k.ack)

LEMMA StepIsQuiet ==
    ASSUME IInv, NEW s \in Sides, socket[s] # NULL,
           NEW k2, Kept(socket[s], k2), Set(s, k2),
           NEW next \in PC, Goto(s, next) \/ (next = pc[s] /\ pc' = pc),
           next # "create",
           next = "send" => k2.tries # 0 \/ (pc[s] = "send" /\ k2.tries = socket[s].tries),
           k2 = NULL => next \in {"done", "failed"},
           wake_arg' \in [Sides -> WakeArgs],
           \A t \in Sides \ {s} : wake_arg'[t] = wake_arg[t],
           wake_arg'[s].alarm # "none" => next \in {"connect_blocked", "send_blocked", "close_blocked"},
           frag' = frag, buffered' = buffered,
           \/ net' = net
           \/ k2 # NULL /\ \E type \in {"SYN", "SYNACK", "ACK", "FIN"}, n \in {0, frag[s]} :
                 send(s, type, n) /\ (n = 0 \/ next # "send")
    PROVE  IInv'
<1>1. Typing
  BY DEF IInv
<1>2. socket[s] \in Sockets /\ k2 \in Sockets \cup {NULL} /\ pc[s] # "create"
  BY <1>1 DEF Typing, Kept, IInv, NotYet
<1>3. /\ socket' \in [Sides -> Sockets \cup {NULL}]
      /\ socket'[s] = k2
      /\ \A t \in Sides \ {s} : socket'[t] = socket[t]
  BY <1>1, <1>2, SetFact
<1>4. /\ pc' \in [Sides -> PC]
      /\ pc'[s] = next
      /\ \A t \in Sides \ {s} : pc'[t] = pc[t]
  BY <1>1, GotoFact DEF Typing
<1>5. /\ net' \in [Sides -> Seq(Packets)]
      /\ net'[s] = net[s]
      /\ \/ net'[Peer(s)] = net[Peer(s)]
         \/ k2 # NULL /\ \E p \in Packets :
               /\ net'[Peer(s)] = Append(net[Peer(s)], p)
               /\ p.seq = socket[s].seq /\ p.frag \in {0, frag[s]}
               /\ p.frag = 0 \/ next # "send"
  <2>1. CASE net' = net
    BY <1>1, <2>1 DEF Typing
  <2>2. CASE k2 # NULL /\ \E type \in {"SYN", "SYNACK", "ACK", "FIN"}, n \in {0, frag[s]} :
                             send(s, type, n) /\ (n = 0 \/ next # "send")
    <3>1. PICK type \in {"SYN", "SYNACK", "ACK", "FIN"}, n \in {0, frag[s]} :
             send(s, type, n) /\ (n = 0 \/ next # "send")
      BY <2>2
    <3>2. n \in Nat
      BY <1>1 DEF Typing
    <3> QED
      BY <1>1, <2>2, <3>1, <3>2, SendFact
  <2> QED
    BY <2>1, <2>2
<1>6. Typing'
  BY <1>1, <1>3, <1>4, <1>5 DEF Typing
<1>7. Quiet(s)
  <2>1. InCall(s)'
    BY <1>3, <1>4 DEF InCall
  <2>2. Counting(s)' => Counting(s)
    BY <1>3, <1>4 DEF Counting
  <2>3. Counting(s)' => next = "send"
    BY <1>4 DEF Counting
  <2>4. socket'[s] # NULL => /\ socket[s] # NULL
                             /\ socket'[s].seq = socket[s].seq /\ socket'[s].ack = socket[s].ack
    BY <1>3, <1>2 DEF Kept
  <2> QED
    BY <1>2, <1>3, <1>4, <1>5, <2>1, <2>2, <2>3, <2>4 DEF Quiet
<1> QED
  BY <1>6, <1>7, QuietKeepsIInv

(* The actions that take such a step.                                       *)
LEMMA ConnectKeepsIInv ==
    ASSUME IInv, NEW s \in Sides, Connect(s) \/ ListenWait(s) \/ ConnectEvaluate(s)
    PROVE  IInv'
<1>1. /\ socket[s] \in Sockets \cup {NULL}
      /\ wake_arg \in [Sides -> WakeArgs]
      /\ pc[s] \in {"connect", "listen", "listening", "connect_evaluate"} => socket[s] # NULL /\ wake_arg[s].alarm = "none"
  BY DEF IInv, Typing, InCall
<1>2. CASE Connect(s)
  <2> DEFINE k2 == IF socket[s].error THEN NULL ELSE socket[s]
  <2>1. PICK next \in {"failed", "ready", "listen", "connect_wait"} :
           /\ Goto(s, next)
           /\ socket[s].error => next = "failed"
    BY <1>1, <1>2, FieldFact DEF Connect
  <2>2. socket[s] # NULL /\ wake_arg[s].alarm = "none" /\ socket[s] \in Sockets
    BY <1>1, <1>2 DEF Connect
  <2>3. Kept(socket[s], k2) /\ Set(s, k2) /\ (k2 = NULL => next = "failed") /\ next \in PC
    BY <1>2, <2>1, <2>2 DEF Connect, Kept, PC
  <2>4. wake_arg' = wake_arg /\ frag' = frag /\ buffered' = buffered /\ net' = net
    BY <1>2 DEF Connect
  <2> HIDE DEF k2
  <2> QED
    BY <1>1, <2>1, <2>2, <2>3, <2>4, StepIsQuiet
<1>3. CASE ListenWait(s)
  <2>1. socket[s] # NULL /\ wake_arg[s].alarm = "none" /\ socket[s] \in Sockets
    BY <1>1, <1>3 DEF ListenWait
  <2>2. PICK next \in {"listening", "connect_evaluate"}, l \in Nat \cup {NULL} :
           Goto(s, next) /\ Set(s, [socket[s] EXCEPT !.listening = l])
    BY <1>3, <2>1, FieldFact DEF ListenWait
  <2>3. Kept(socket[s], [socket[s] EXCEPT !.listening = l])
    BY <2>1 DEF Kept, Sockets
  <2>4. [socket[s] EXCEPT !.listening = l] # NULL
    BY <2>1, SocketFact DEF Sockets
  <2>5. next \in PC
    BY <2>2 DEF PC
  <2>6. wake_arg' = wake_arg /\ frag' = frag /\ buffered' = buffered /\ net' = net
    BY <1>3 DEF ListenWait
  <2> QED
    BY <1>1, <2>1, <2>2, <2>3, <2>4, <2>5, <2>6, StepIsQuiet
<1>4. CASE ConnectEvaluate(s)
  <2>1. socket[s] # NULL /\ wake_arg[s].alarm = "none" /\ socket[s] \in Sockets
    BY <1>1, <1>4 DEF ConnectEvaluate
  <2>2. PICK m \in Nat, e \in BOOLEAN, st \in States :
           Set(s, [socket[s] EXCEPT !.timed_out = FALSE, !.tries = m, !.state = st, !.error = e])
    <3> DEFINE k == socket[s]
               tries == IF k.timed_out THEN k.tries + 1 ELSE 0
               over == tries > MAX_TRIES
    <3>1. tries \in Nat
      BY <2>1, FieldFact
    <3>2. k.state \in States /\ "LISTENING" \in States /\ k.error \in BOOLEAN
      BY <2>1, FieldFact DEF States
    <3>3. Set(s, [k EXCEPT !.timed_out = FALSE,
                           !.tries = IF over /\ s = "server" THEN 0 ELSE tries,
                           !.state = IF over /\ s = "server" THEN "LISTENING" ELSE @,
                           !.error = @ \/ (over /\ s = "client")])
      BY <1>4 DEF ConnectEvaluate
    <3>4. /\ (IF over /\ s = "server" THEN 0 ELSE tries) \in Nat
          /\ (IF over /\ s = "server" THEN "LISTENING" ELSE k.state) \in States
          /\ (k.error \/ (over /\ s = "client")) \in BOOLEAN
      BY <3>1, <3>2
    <3> HIDE DEF tries, over
    <3> QED
      BY <3>3, <3>4
  <2> DEFINE k2 == [socket[s] EXCEPT !.timed_out = FALSE, !.tries = m, !.state = st, !.error = e]
  <2>3. Kept(socket[s], k2) /\ k2 # NULL
    BY <2>1, SocketFact, ZenonT(30) DEF Kept, Sockets
  <2>4. Set(s, k2)
    BY <2>2
  <2> HIDE DEF k2
  <2>5. \/ net' = net
        \/ \E type \in {"SYN", "SYNACK", "ACK", "FIN"}, n \in {0, frag[s]} :
              send(s, type, n) /\ n = 0
    BY <1>4 DEF ConnectEvaluate
  <2>6. wake_arg' = wake_arg /\ frag' = frag /\ buffered' = buffered /\ Goto(s, "connect") /\ "connect" \in PC
    BY <1>4 DEF ConnectEvaluate, PC
  <2> QED
    BY <1>1, <2>1, <2>3, <2>4, <2>5, <2>6, StepIsQuiet
<1> QED
  BY <1>2, <1>3, <1>4

LEMMA WaitKeepsIInv ==
    ASSUME IInv, NEW s \in Sides, Wait(s) \/ Woken(s)
    PROVE  IInv'
<1>1. /\ socket[s] \in Sockets \cup {NULL}
      /\ wake_arg \in [Sides -> WakeArgs] /\ pc[s] \in PC
      /\ pc[s] \notin {"create", "done", "failed"} => socket[s] # NULL
      /\ socket \in [Sides -> Sockets \cup {NULL}]
  BY DEF IInv, Typing, InCall
<1>2. Set(s, socket[s])
  BY <1>1 DEF Wait, Woken, Set
<1>3. socket[s] # NULL => Kept(socket[s], socket[s])
  BY <1>1 DEF Kept
<1>4. CASE Wait(s)
  <2>1. socket[s] # NULL
    BY <1>1, <1>4 DEF Wait, Waits
  <2>2. PICK next \in {"connect_blocked", "send_blocked", "close_blocked",
                       "connect_evaluate", "send_evaluate", "close_evaluate"} :
           /\ Goto(s, next)
           /\ \/ /\ next \in {"connect_blocked", "send_blocked", "close_blocked"}
                 /\ wake_arg' = [wake_arg EXCEPT ![s].alarm = "set", ![s].queued = TRUE]
              \/ wake_arg' = wake_arg
    BY <1>4 DEF Wait, Waits, Blocked, Evaluate
  <2>3. /\ wake_arg' \in [Sides -> WakeArgs]
        /\ \A t \in Sides \ {s} : wake_arg'[t] = wake_arg[t]
        /\ wake_arg'[s].alarm # "none" => \/ next \in {"connect_blocked", "send_blocked", "close_blocked"}
                                          \/ wake_arg' = wake_arg
    BY <1>1, <2>2 DEF WakeArgs
  <2>4. wake_arg[s].alarm = "none"
    BY <1>4 DEF Wait, Waits, IInv, InCall
  <2>5. frag' = frag /\ buffered' = buffered /\ net' = net /\ next \in PC
    BY <1>4, <2>2 DEF Wait, PC
  <2> QED
    BY <1>2, <1>3, <2>1, <2>2, <2>3, <2>4, <2>5, StepIsQuiet
<1>5. CASE Woken(s)
  <2>1. PICK next \in {"connect_evaluate", "send_evaluate", "close_evaluate"} : Goto(s, next)
    BY <1>5 DEF Woken, Waits, Evaluate
  <2>2. socket[s] # NULL
    BY <1>1, <1>5 DEF Woken, Waits, Blocked
  <2>3. /\ wake_arg' \in [Sides -> WakeArgs]
        /\ \A t \in Sides \ {s} : wake_arg'[t] = wake_arg[t]
        /\ wake_arg'[s].alarm = "none"
    BY <1>1, <1>5 DEF Woken, WakeArgs, NoArg
  <2>4. frag' = frag /\ buffered' = buffered /\ net' = net /\ next \in PC
    BY <1>5, <2>1 DEF Woken, PC
  <2> QED
    BY <1>2, <1>3, <2>1, <2>2, <2>3, <2>4, StepIsQuiet
<1> QED
  BY <1>4, <1>5

LEMMA AlarmKeepsIInv ==
    ASSUME IInv, NEW s \in Sides, AlarmStep(s)
    PROVE  IInv'
<1>1. /\ socket[s] \in Sockets \cup {NULL} /\ socket \in [Sides -> Sockets \cup {NULL}]
      /\ wake_arg \in [Sides -> WakeArgs] /\ pc[s] \in PC
      /\ wake_arg[s].alarm # "none" => pc[s] \in {"connect_blocked", "send_blocked", "close_blocked"}
      /\ pc[s] \notin {"create", "done", "failed"} => socket[s] # NULL
      /\ pc[s] = "create" => socket[s] = NULL
  BY DEF IInv, Typing, InCall, NotYet
<1>2. CASE AlarmDequeue(s)
  <2>1. Set(s, socket[s]) /\ Kept(socket[s], socket[s]) /\ socket[s] # NULL
    BY <1>1, <1>2 DEF AlarmDequeue, Set, Kept
  <2>2. /\ wake_arg' \in [Sides -> WakeArgs]
        /\ \A t \in Sides \ {s} : wake_arg'[t] = wake_arg[t]
        /\ pc[s] \in {"connect_blocked", "send_blocked", "close_blocked"}
    BY <1>1, <1>2 DEF AlarmDequeue, WakeArgs
  <2>3. frag' = frag /\ buffered' = buffered /\ net' = net /\ pc' = pc
    BY <1>2 DEF AlarmDequeue, threadVars
  <2> QED
    BY <1>1, <2>1, <2>2, <2>3, StepIsQuiet
<1>3. CASE wake_from_timeout(s)
  <2> DEFINE k2 == [socket[s] EXCEPT !.timed_out = TRUE]
  <2>1. socket[s] # NULL /\ socket[s] \in Sockets
    BY <1>1, <1>3 DEF wake_from_timeout
  <2>2. Set(s, k2) /\ Kept(socket[s], k2) /\ k2 # NULL
    BY <1>3, <2>1, SocketFact DEF wake_from_timeout, Kept, Sockets
  <2>3. /\ wake_arg' \in [Sides -> WakeArgs]
        /\ \A t \in Sides \ {s} : wake_arg'[t] = wake_arg[t]
        /\ pc[s] \in {"connect_blocked", "send_blocked", "close_blocked"}
    BY <1>1, <1>3 DEF wake_from_timeout, WakeArgs
  <2>4. frag' = frag /\ buffered' = buffered /\ net' = net /\ pc' = pc
    BY <1>3 DEF wake_from_timeout, threadVars
  <2> HIDE DEF k2
  <2> QED
    BY <1>1, <2>1, <2>2, <2>3, <2>4, StepIsQuiet
<1>4. CASE AbleToClose(s)
  <2> DEFINE k2 == [socket[s] EXCEPT !.unable_to_close = 1]
  <2>1. socket[s] # NULL /\ socket[s] \in Sockets
    BY <1>1, <1>4 DEF AbleToClose
  <2>2. Set(s, k2) /\ Kept(socket[s], k2) /\ k2 # NULL /\ k2.tries = socket[s].tries
    <3>1. k2 \in Sockets /\ k2.seq = socket[s].seq /\ k2.ack = socket[s].ack /\ k2.tries = socket[s].tries
      BY <2>1 DEF Sockets
    <3> QED
      BY <1>4, <3>1, SocketFact DEF AbleToClose, Kept
  <2>3. frag' = frag /\ buffered' = buffered /\ net' = net /\ pc' = pc /\ wake_arg' = wake_arg
    BY <1>4 DEF AbleToClose, threadVars
  <2> HIDE DEF k2
  <2> QED
    BY <1>1, <2>1, <2>2, <2>3, StepIsQuiet
<1> QED
  BY <1>2, <1>3, <1>4 DEF AlarmStep

(* Steps of a thread that leave its alarm alone.                            *)
LEMMA ThreadStepIsQuiet ==
    ASSUME IInv, NEW s \in Sides,
           pc[s] \notin {"create", "done", "failed", "connect_blocked", "send_blocked", "close_blocked"},
           NEW k2, Kept(socket[s], k2), Set(s, k2),
           NEW next \in PC \ {"create", "send"}, Goto(s, next), k2 = NULL => next \in {"done", "failed"},
           wake_arg' = wake_arg, frag' = frag, buffered' = buffered,
           \/ net' = net
           \/ k2 # NULL /\ \E type \in {"SYN", "SYNACK", "ACK", "FIN"}, n \in {0, frag[s]} : send(s, type, n)
    PROVE  IInv'
<1>1. socket[s] # NULL /\ wake_arg[s].alarm = "none" /\ wake_arg' \in [Sides -> WakeArgs]
  BY DEF IInv, InCall, Typing
<1> QED
  BY <1>1, StepIsQuiet

LEMMA CallKeepsIInv ==
    ASSUME IInv, NEW s \in Sides,
           SendPacket(s) \/ Receive(s) \/ Close(s) \/ CloseEvaluate(s) \/ ReceiveCall(s) \/ CloseCall(s)
    PROVE  IInv'
<1>1. /\ socket[s] \in Sockets \cup {NULL} /\ socket \in [Sides -> Sockets \cup {NULL}]
      /\ pc[s] \notin {"create", "done", "failed"} => socket[s] # NULL
      /\ pc[s] = "create" => socket[s] = NULL
  BY DEF IInv, Typing, InCall, NotYet
<1>2. wake_arg' = wake_arg /\ frag' = frag /\ buffered' = buffered
  BY DEF SendPacket, Receive, Close, CloseEvaluate, ReceiveCall, CloseCall, socketVars
<1>3. /\ Kept(socket[s], socket[s]) \/ socket[s] = NULL
      /\ socket' = socket => Set(s, socket[s])
  BY <1>1 DEF Kept, Set
<1>4. CASE SendPacket(s)
  <2>1. /\ pc[s] = "send_packet" /\ Goto(s, "send_wait") /\ "send_wait" \in PC \ {"create", "send"}
        /\ socket' = socket
        /\ \E type \in {"SYN", "SYNACK", "ACK", "FIN"}, n \in {0, frag[s]} : send(s, type, n)
    BY <1>4 DEF SendPacket, PC, socketVars
  <2> QED
    BY <1>1, <1>2, <1>3, <2>1, ThreadStepIsQuiet
<1>5. CASE Receive(s)
  <2>1. socket[s] \in Sockets
    BY <1>1, <1>5 DEF Receive
  <2>2. PICK n \in 0 .. Len(socket[s].buffer) :
           Set(s, [socket[s] EXCEPT !.buffer = SubSeq(@, n + 1, Len(@)),
                                    !.buffer_has_stuff = IF n < Len(socket[s].buffer) THEN @ ELSE @ - 1])
    BY <1>5 DEF Receive
  <2> DEFINE b == SubSeq(socket[s].buffer, n + 1, Len(socket[s].buffer))
             m == IF n < Len(socket[s].buffer) THEN socket[s].buffer_has_stuff
                                               ELSE socket[s].buffer_has_stuff - 1
             k2 == [socket[s] EXCEPT !.buffer = b, !.buffer_has_stuff = m]
  <2>3. b \in Seq(Nat)
    BY <2>1, FieldFact, LenProperties, SubSeqProperties
  <2>4. m \in Nat
    <3>1. socket[s].buffer_has_stuff \in Nat /\ socket[s].buffer_has_stuff > 0
      BY <1>5, <2>1, FieldFact DEF Receive
    <3>2. \A l \in Nat : l > 0 => l - 1 \in Nat
      OBVIOUS
    <3> QED
      BY <3>1, <3>2
  <2>5. Set(s, k2)
    BY <2>2
  <2> HIDE DEF b, m
  <2>6. Kept(socket[s], k2) /\ k2 # NULL
    BY <2>1, <2>3, <2>4, SocketFact DEF Kept, Sockets
  <2> HIDE DEF k2
  <2>7. pc[s] = "receive" /\ Goto(s, "ready") /\ "ready" \in PC \ {"create", "send"} /\ net' = net
    BY <1>5 DEF Receive, PC
  <2> QED
    BY <1>2, <2>5, <2>6, <2>7, ThreadStepIsQuiet
<1>6. CASE Close(s)
  <2>1. pc[s] = "close" /\ {"close_wait", "done"} \subseteq PC \ {"create", "send"}
    BY <1>6 DEF Close, PC
  <2>2. CASE Goto(s, "close_wait") /\ send(s, "FIN", 0) /\ UNCHANGED socket
    BY <1>1, <1>2, <1>3, <2>1, <2>2, ThreadStepIsQuiet
  <2>3. CASE Goto(s, "done") /\ Set(s, NULL) /\ UNCHANGED net
    <3>1. Kept(socket[s], NULL)
      BY DEF Kept
    <3> QED
      BY <1>2, <2>1, <2>3, <3>1, ThreadStepIsQuiet
  <2> QED
    BY <1>6, <2>2, <2>3 DEF Close
<1>7. CASE CloseEvaluate(s)
  <2>1. socket[s] \in Sockets
    BY <1>1, <1>7 DEF CloseEvaluate
  <2> DEFINE m == IF socket[s].timed_out THEN socket[s].tries + 1 ELSE socket[s].tries
             k2 == [socket[s] EXCEPT !.timed_out = FALSE, !.tries = m]
  <2>2. m \in Nat
    BY <2>1, FieldFact
  <2>3. Set(s, k2)
    BY <1>7 DEF CloseEvaluate
  <2> HIDE DEF m
  <2>4. Kept(socket[s], k2) /\ k2 # NULL
    BY <2>1, <2>2, SocketFact DEF Kept, Sockets
  <2> HIDE DEF k2
  <2>5. pc[s] = "close_evaluate" /\ Goto(s, "close") /\ "close" \in PC \ {"create", "send"} /\ net' = net
    BY <1>7 DEF CloseEvaluate, PC
  <2> QED
    BY <1>2, <2>3, <2>4, <2>5, ThreadStepIsQuiet
<1>8. CASE ReceiveCall(s)
  <2>1. /\ pc[s] = "ready" /\ Goto(s, "receive") /\ "receive" \in PC \ {"create", "send"}
        /\ socket' = socket /\ net' = net
    BY <1>8 DEF ReceiveCall, PC, socketVars
  <2> QED
    BY <1>1, <1>2, <1>3, <2>1, ThreadStepIsQuiet
<1>9. CASE CloseCall(s)
  <2>1. pc[s] = "ready" /\ net' = net /\ {"close", "done"} \subseteq PC \ {"create", "send"}
    BY <1>9 DEF CloseCall, PC
  <2>2. CASE Goto(s, "done") /\ UNCHANGED socket
    BY <1>1, <1>2, <1>3, <2>1, <2>2, ThreadStepIsQuiet
  <2>3. CASE Goto(s, "close") /\ Set(s, [socket[s] EXCEPT !.state = "CLOSING"])
    <3> DEFINE k2 == [socket[s] EXCEPT !.state = "CLOSING"]
    <3>1. Kept(socket[s], k2) /\ k2 # NULL
      BY <1>1, <2>1, SocketFact, ZenonT(30) DEF Kept, Sockets, States
    <3>2. Set(s, k2)
      BY <2>3
    <3> HIDE DEF k2
    <3> QED
      BY <1>2, <2>1, <2>3, <3>1, <3>2, ThreadStepIsQuiet
  <2> QED
    BY <1>9, <2>2, <2>3 DEF CloseCall
<1> QED
  BY <1>4, <1>5, <1>6, <1>7, <1>8, <1>9

LEMMA CreateKeepsIInv ==
    ASSUME IInv, Create
    PROVE  IInv'
<1>1. SendSyn \/ Connecting => IInv'
  <2> SUFFICES ASSUME SendSyn \/ Connecting
               PROVE  IInv'
    OBVIOUS
  <2>1. /\ "client" \in Sides /\ socket \in [Sides -> Sockets \cup {NULL}]
        /\ pc["client"] \in {"syn", "connecting"} /\ socket["client"] # NULL
        /\ wake_arg' = wake_arg /\ frag' = frag /\ buffered' = buffered
        /\ {"connecting", "connect"} \subseteq PC \ {"create", "send"}
    BY DEF SendSyn, Connecting, IInv, Typing, InCall, Sides, PC, socketVars
  <2>2. socket["client"] \in Sockets
    BY <2>1
  <2>3. CASE SendSyn
    <3>1. Kept(socket["client"], socket["client"]) /\ Set("client", socket["client"])
      BY <2>1, <2>2, <2>3 DEF Kept, Set, SendSyn, socketVars
    <3>2. Goto("client", "connecting") /\ send("client", "SYN", 0)
      BY <2>3 DEF SendSyn
    <3> QED
      BY <2>1, <3>1, <3>2, ThreadStepIsQuiet
  <2>4. CASE Connecting
    <3> DEFINE k2 == [socket["client"] EXCEPT !.state = "CONNECTING"]
    <3>1. Kept(socket["client"], k2) /\ k2 # NULL
      BY <2>2, SocketFact DEF Kept, Sockets, States
    <3>2. Set("client", k2) /\ Goto("client", "connect") /\ net' = net
      BY <2>4 DEF Connecting
    <3> HIDE DEF k2
    <3> QED
      BY <2>1, <3>1, <3>2, ThreadStepIsQuiet
  <2> QED
    BY <2>3, <2>4
<1>2. ASSUME NEW s \in Sides, pc[s] = "create", NEW st \in States, Set(s, create_new_socket(st)),
             NEW next \in {"connect", "syn"}, Goto(s, next),
             UNCHANGED <<wake_arg, net, frag, buffered>>
      PROVE  IInv'
  <2> DEFINE o == Peer(s)
             k2 == create_new_socket(st)
  <2>1. /\ o \in Sides /\ o # s /\ Peer(o) = s /\ Peer(s) = o
        /\ \A t \in Sides : t = s \/ t = o
    BY SidesFact
  <2> HIDE DEF o
  <2>2. k2 \in Sockets /\ k2 # NULL /\ k2.seq = 1 /\ k2.ack = 0
    <3>1. k2 \in Sockets /\ k2.seq = 1 /\ k2.ack = 0
      BY DEF create_new_socket, Sockets
    <3> QED
      BY <3>1, SocketFact
  <2>3. Typing /\ next \in PC
    BY DEF IInv, PC
  <2>4. /\ socket' \in [Sides -> Sockets \cup {NULL}]
        /\ socket'[s] = k2 /\ socket'[o] = socket[o]
    BY <1>2, <2>1, <2>2, <2>3, SetFact
  <2> HIDE DEF k2
  <2>5. pc' \in [Sides -> PC] /\ pc'[s] = next /\ pc'[o] = pc[o]
    BY <1>2, <2>1, <2>3, GotoFact
  <2>6. Typing'
    BY <1>2, <2>3, <2>4, <2>5 DEF Typing
  <2>7. /\ socket[s] = NULL /\ net[o] = <<>> /\ buffered[s] = <<>> /\ buffered[o] = <<>>
        /\ socket[o] # NULL => socket[o].ack = 0
        /\ wake_arg[s].alarm = "none"
    BY <1>2, <2>1 DEF IInv, NotYet, InCall
  <2>8. NotYet(s)' /\ InCall(s)' /\ InCall(o)'
    BY <1>2, <2>1, <2>2, <2>4, <2>5, <2>7 DEF IInv, NotYet, InCall
  <2>9. NotYet(o)'
    BY <1>2, <2>1, <2>2, <2>4, <2>5 DEF IInv, NotYet
  <2>10. ChanTo(o)'
    <3>1. Chan(<<>>, k2, socket[o], frag[s], <<>>, FALSE)
      BY <2>2, <2>7, NewSenderHasChan
    <3>2. Counting(s)' = FALSE
      BY <2>5 DEF Counting
    <3> QED
      BY <1>2, <2>1, <2>4, <2>7, <3>1, <3>2 DEF ChanTo
  <2>11. ChanTo(s)'
    <3>1. PICK q \in Seq(Packets), f \in Nat, a \in Sockets \cup {NULL}, x \in BOOLEAN :
             q = net[s] /\ f = frag[o] /\ a = socket[o] /\ x = Counting(o)
      BY <2>1, <2>3 DEF Typing, Counting
    <3>2. Chan(q, a, NULL, f, <<>>, x)
      BY <2>1, <2>7, <3>1 DEF IInv, ChanTo
    <3>3. Chan(q, a, k2, f, <<>>, x)
      BY <2>2, <3>2, SocketFact, NewReceiverHasChan
    <3>4. Counting(o)' = Counting(o)
      BY <2>4, <2>5 DEF Counting
    <3> QED
      BY <1>2, <2>1, <2>4, <2>7, <3>1, <3>3, <3>4 DEF ChanTo
  <2> QED
    BY <2>1, <2>6, <2>8, <2>9, <2>10, <2>11 DEF IInv
<1>3. minisocket_server_create => IInv'
  BY <1>2 DEF minisocket_server_create, Sides, States
<1>4. minisocket_client_create => IInv'
  BY <1>2 DEF minisocket_client_create, Sides, States
<1> QED
  BY <1>1, <1>3, <1>4 DEF Create

-----------------------------------------------------------------------------
(* minisocket_send.                                                         *)

(* The thread of s is at its next fragment.                                 *)
LEMMA FragmentStepKeepsIInv ==
    ASSUME IInv, NEW s \in Sides, pc[s] \in {"ready", "send_evaluate"},
           NEW k2 \in Sockets, Kept(socket[s], k2), Set(s, k2),
           Goto(s, "send"), frag' = [frag EXCEPT ![s] = @ + 1],
           wake_arg' = wake_arg, buffered' = buffered, net' = net
    PROVE  IInv'
<1> DEFINE o == Peer(s)
<1>1. /\ o \in Sides /\ o # s /\ Peer(o) = s /\ Peer(s) = o
      /\ \A t \in Sides : t = s \/ t = o
  BY SidesFact
<1> HIDE DEF o
<1>2. Typing /\ "send" \in PC
  BY DEF IInv, PC
<1>3. /\ socket' \in [Sides -> Sockets \cup {NULL}]
      /\ socket'[s] = k2 /\ socket'[o] = socket[o]
      /\ pc' \in [Sides -> PC] /\ pc'[s] = "send" /\ pc'[o] = pc[o]
  BY <1>1, <1>2, SetFact, GotoFact
<1>4. frag' \in [Sides -> Nat] /\ frag'[s] = frag[s] + 1 /\ frag'[o] = frag[o]
  BY <1>1, <1>2 DEF Typing
<1>5. Typing'
  BY <1>2, <1>3, <1>4 DEF Typing
<1>6. socket[s] # NULL /\ wake_arg[s].alarm = "none" /\ k2 # NULL
  BY SocketFact DEF IInv, InCall
<1>7. NotYet(s)' /\ InCall(s)' /\ InCall(o)' /\ NotYet(o)'
  BY <1>1, <1>3, <1>6 DEF IInv, NotYet, InCall, Kept
<1>8. ChanTo(o)'
  <2>a. PICK x \in BOOLEAN, y \in BOOLEAN : x = Counting(s) /\ y = Counting(s)'
    BY DEF Counting
  <2>1. PICK q \in Seq(Packets), f \in Nat, bs \in Seq(Nat), a \in Sockets \cup {NULL}, k \in Sockets \cup {NULL} :
           /\ q = net[o] /\ f = frag[s] /\ bs = buffered[o] /\ a = socket[s] /\ k = socket[o]
    BY <1>1, <1>2 DEF Typing
  <2>2. Chan(q, a, k, f, bs, x)
    BY <1>1, <2>a, <2>1 DEF IInv, ChanTo
  <2>3. Chan(q, k2, k, f + 1, bs, y)
    BY <1>6, <2>1, <2>2, NextKeepsChan DEF Kept
  <2> QED
    BY <1>1, <1>3, <1>4, <2>a, <2>1, <2>3 DEF ChanTo
<1>9. ChanTo(s)'
  <2>a. PICK x \in BOOLEAN : x = Counting(o)
    BY DEF Counting
  <2>1. PICK q, f, bs, a, k :
           /\ q = net[s] /\ f = frag[o] /\ bs = buffered[s] /\ a = socket[o] /\ k = socket[s]
    OBVIOUS
  <2>2. Chan(q, a, k, f, bs, x)
    BY <1>1, <2>a, <2>1 DEF IInv, ChanTo
  <2>3. Chan(q, a, k2, f, bs, x)
    BY <1>6, <2>1, <2>2, QuietKeepsChan DEF Kept
  <2>4. Counting(o)' = Counting(o)
    BY <1>3 DEF Counting
  <2> QED
    BY <1>1, <1>3, <1>4, <2>a, <2>1, <2>3, <2>4 DEF ChanTo
<1> QED
  BY <1>1, <1>5, <1>7, <1>8, <1>9 DEF IInv

LEMMA SendCountKeepsIInv ==
    ASSUME IInv, NEW s \in Sides, SendCount(s)
    PROVE  IInv'
<1>1. /\ socket[s] \in Sockets /\ socket[s] # NULL /\ wake_arg \in [Sides -> WakeArgs]
      /\ wake_arg[s].alarm = "none" /\ pc[s] = "send" /\ Typing
  BY DEF SendCount, IInv, Typing, InCall
<1>2. /\ wake_arg' = wake_arg /\ frag' = frag /\ buffered' = buffered /\ net' = net
      /\ Goto(s, "send_packet") /\ "send_packet" \in PC
  BY DEF SendCount, PC
<1>3. CASE socket[s].tries # 0
  <2>1. Set(s, [socket[s] EXCEPT !.seq = socket[s].seq])
    BY <1>3 DEF SendCount
  <2>2. [socket[s] EXCEPT !.seq = socket[s].seq] = socket[s]
    BY <1>1 DEF Sockets
  <2>3. Set(s, socket[s])
    BY <2>1, <2>2
  <2> QED
    BY <1>1, <1>2, <2>3, ThreadStepIsQuiet DEF Kept
<1>4. CASE socket[s].tries = 0
  <2> DEFINE o == Peer(s)
             k2 == [socket[s] EXCEPT !.seq = socket[s].seq + 1]
  <2>1. /\ o \in Sides /\ o # s /\ Peer(o) = s /\ Peer(s) = o
        /\ \A t \in Sides : t = s \/ t = o
    BY SidesFact
  <2> HIDE DEF o
  <2>2. k2 \in Sockets /\ k2.seq = socket[s].seq + 1 /\ k2.ack = socket[s].ack
    <3>1. PICK n \in Nat : n = socket[s].seq + 1
      BY <1>1, FieldFact
    <3>2. [socket[s] EXCEPT !.seq = n] \in Sockets
      BY <1>1 DEF Sockets
    <3>3. [socket[s] EXCEPT !.seq = n].seq = n /\ [socket[s] EXCEPT !.seq = n].ack = socket[s].ack
      BY <1>1 DEF Sockets
    <3> QED
      BY <3>1, <3>2, <3>3
  <2>3. Set(s, k2)
    BY <1>4 DEF SendCount
  <2> HIDE DEF k2
  <2>4. /\ socket' \in [Sides -> Sockets \cup {NULL}]
        /\ socket'[s] = k2 /\ socket'[o] = socket[o] /\ k2 # NULL
        /\ pc' \in [Sides -> PC] /\ pc'[s] = "send_packet" /\ pc'[o] = pc[o]
    BY <1>1, <1>2, <2>1, <2>2, <2>3, SetFact, GotoFact, SocketFact
  <2>5. Typing'
    BY <1>1, <1>2, <2>4 DEF Typing
  <2>6. NotYet(s)' /\ InCall(s)' /\ InCall(o)' /\ NotYet(o)'
    BY <1>1, <1>2, <2>1, <2>2, <2>4 DEF IInv, NotYet, InCall
  <2>7. ChanTo(o)'
    <3>1. PICK q \in Seq(Packets), f \in Nat, bs \in Seq(Nat), a \in Sockets \cup {NULL}, k \in Sockets \cup {NULL} :
             /\ q = net[o] /\ f = frag[s] /\ bs = buffered[o] /\ a = socket[s] /\ k = socket[o]
      BY <1>1, <2>1 DEF Typing
    <3>2. PICK x : x = Counting(s)
      OBVIOUS
    <3>3. x
      BY <1>1, <1>4, <3>2 DEF Counting
    <3>4. Chan(q, a, k, f, bs, x)
      BY <2>1, <3>1, <3>2 DEF IInv, ChanTo
    <3>5. a # NULL /\ a.seq \in Nat /\ (k # NULL => k.ack \in Nat)
      BY <1>1, <2>1, <3>1, SocketFact DEF Typing
    <3>6. Chan(q, k2, k, f, bs, FALSE)
      BY <2>2, <3>1, <3>3, <3>4, <3>5, CountKeepsChan
    <3>7. Counting(s)' = FALSE
      BY <2>4 DEF Counting
    <3> QED
      BY <1>2, <2>1, <2>4, <3>1, <3>6, <3>7 DEF ChanTo
  <2>8. ChanTo(s)'
    <3>a. PICK x \in BOOLEAN : x = Counting(o)
      BY DEF Counting
    <3>1. PICK q, f, bs, a, k :
             /\ q = net[s] /\ f = frag[o] /\ bs = buffered[s] /\ a = socket[o] /\ k = socket[s]
      OBVIOUS
    <3>2. Chan(q, a, k, f, bs, x)
      BY <2>1, <3>a, <3>1 DEF IInv, ChanTo
    <3>3. Chan(q, a, k2, f, bs, x)
      BY <1>1, <2>2, <3>1, <3>2, QuietKeepsChan
    <3>4. Counting(o)' = Counting(o)
      BY <2>4 DEF Counting
    <3> QED
      BY <1>2, <2>1, <2>4, <3>a, <3>1, <3>3, <3>4 DEF ChanTo
  <2> QED
    BY <2>1, <2>5, <2>6, <2>7, <2>8 DEF IInv
<1> QED
  BY <1>3, <1>4

LEMMA SendKeepsIInv ==
    ASSUME IInv, NEW s \in Sides, SendCall(s) \/ SendEvaluate(s)
    PROVE  IInv'
<1>1. /\ socket[s] \in Sockets /\ socket[s] # NULL /\ wake_arg \in [Sides -> WakeArgs]
      /\ wake_arg[s].alarm = "none" /\ socket \in [Sides -> Sockets \cup {NULL}]
      /\ pc[s] \in {"ready", "send_evaluate"}
  BY DEF SendCall, SendEvaluate, IInv, Typing, InCall
<1>2. CASE SendCall(s)
  <2>1. Kept(socket[s], socket[s]) /\ Set(s, socket[s])
    BY <1>1, <1>2 DEF SendCall, Kept, Set, socketVars
  <2>2. /\ Goto(s, "send") /\ frag' = [frag EXCEPT ![s] = @ + 1]
        /\ wake_arg' = wake_arg /\ buffered' = buffered /\ net' = net
    BY <1>2 DEF SendCall, socketVars
  <2> QED
    BY <1>1, <2>1, <2>2, FragmentStepKeepsIInv
<1>3. CASE SendEvaluate(s)
  <2> DEFINE m == IF socket[s].timed_out THEN socket[s].tries + 1 ELSE 0
             left == IF socket[s].timed_out THEN remaining[s] ELSE remaining[s] - 1
             again == left > 0 /\ m <= MAX_TRIES
             k2 == [socket[s] EXCEPT !.timed_out = FALSE, !.tries = m]
  <2>1. m \in Nat /\ (socket[s].timed_out => m # 0)
    BY <1>1, FieldFact
  <2>2. /\ Set(s, k2)
        /\ frag' = IF again /\ ~socket[s].timed_out THEN [frag EXCEPT ![s] = @ + 1] ELSE frag
        /\ Goto(s, IF again THEN "send" ELSE "ready")
        /\ wake_arg' = wake_arg /\ buffered' = buffered /\ net' = net
    BY <1>3 DEF SendEvaluate
  <2> HIDE DEF m, again
  <2>3. k2 \in Sockets /\ k2 # NULL /\ Kept(socket[s], k2) /\ k2.tries = m
    <3>1. k2 \in Sockets /\ k2.seq = socket[s].seq /\ k2.ack = socket[s].ack /\ k2.tries = m
      BY <1>1, <2>1 DEF Sockets
    <3> QED
      BY <3>1, SocketFact DEF Kept
  <2> HIDE DEF k2
  <2>4. CASE again /\ ~socket[s].timed_out
    BY <1>1, <2>2, <2>3, <2>4, FragmentStepKeepsIInv
  <2>5. CASE ~(again /\ ~socket[s].timed_out)
    <3>1. PICK next \in {"send", "ready"} : Goto(s, next) /\ (next = "send" => k2.tries # 0)
      BY <1>1, <2>1, <2>2, <2>3, <2>5, FieldFact
    <3>2. frag' = frag /\ next \in PC
      BY <2>2, <2>5 DEF PC
    <3> QED
      BY <1>1, <2>2, <2>3, <3>1, <3>2, StepIsQuiet
  <2> QED
    BY <2>4, <2>5
<1> QED
  BY <1>2, <1>3

-----------------------------------------------------------------------------
(* The network handler.                                                     *)

LEMMA AnswerFact ==
    ASSUME Typing, NEW s \in Sides, net[s] # <<>>, NEW type, NEW k,
           type = "none" \/ (type \in {"SYN", "SYNACK", "ACK", "FIN"} /\ k \in Sockets),
           Answer(s, k, type)
    PROVE  /\ net' \in [Sides -> Seq(Packets)]
           /\ net'[s] = Tail(net[s])
           /\ \/ net'[Peer(s)] = net[Peer(s)]
              \/ /\ k \in Sockets
                 /\ \E p \in Packets :
                       /\ net'[Peer(s)] = Append(net[Peer(s)], p)
                       /\ p.seq = k.seq /\ p.frag = 0
<1> DEFINE o == Peer(s)
           p == Packet(k, type, 0)
           q == net[o]
           t == Tail(net[s])
           r == IF type = "none" THEN q ELSE Sent(q, p)
<1>1. o \in Sides /\ o # s
  BY SidesFact
<1>2. type # "none" => k \in Sockets /\ p \in Packets /\ p.seq = k.seq /\ p.frag = 0
  BY FieldFact DEF Packet, Packets
<1>3. q \in Seq(Packets) /\ t \in Seq(Packets)
  BY <1>1, HeadTailProperties DEF Typing
<1>4. net' = [net EXCEPT ![s] = t, ![o] = r]
  BY <1>1 DEF Answer
<1> HIDE DEF o, p, q, t
<1>5. Sent(q, p) = q \/ Sent(q, p) = Append(q, p)
  BY DEF Sent
<1>6. r = q \/ (type # "none" /\ r = Append(q, p))
  BY <1>5
<1>7. r \in Seq(Packets)
  BY <1>2, <1>3, <1>6, AppendProperties
<1> HIDE DEF r
<1>8. net' \in [Sides -> Seq(Packets)] /\ net'[s] = t /\ net'[o] = r
  BY <1>1, <1>3, <1>4, <1>7 DEF Typing
<1> QED
  BY <1>2, <1>6, <1>8 DEF o, q, t

(* The packet in front is gone, refused or accepted by k2, and answered.    *)
LEMMA HandleStepKeepsIInv ==
    ASSUME IInv, NEW s \in Sides, net[s] # <<>>, socket[s] \in Sockets,
           NEW k2 \in Sockets, Set(s, k2),
           k2.seq = socket[s].seq, k2.tries = socket[s].tries,
           NEW bs2 \in Seq(Nat), buffered' = [buffered EXCEPT ![s] = bs2],
           \/ k2.ack = socket[s].ack /\ bs2 = buffered[s]
           \/ /\ k2.ack = Head(net[s]).seq
              /\ Head(net[s]).seq = socket[s].ack + 1 \/ Head(net[s]).frag = 0
              /\ \/ bs2 = buffered[s]
                 \/ Head(net[s]).frag # 0 /\ bs2 = Append(buffered[s], Head(net[s]).frag),
           NEW type \in {"none", "SYN", "SYNACK", "ACK", "FIN"}, Answer(s, k2, type),
           wake_arg' \in [Sides -> WakeArgs],
           \A t \in Sides : wake_arg'[t].alarm = wake_arg[t].alarm,
           pc' = pc, frag' = frag
    PROVE  IInv'
<1> DEFINE o == Peer(s)
<1>1. /\ o \in Sides /\ o # s /\ Peer(o) = s /\ Peer(s) = o
      /\ \A t \in Sides : t = s \/ t = o
  BY SidesFact
<1> HIDE DEF o
<1>2. Typing /\ k2 # NULL /\ socket[s] # NULL
  BY SocketFact DEF IInv
<1>3. /\ socket' \in [Sides -> Sockets \cup {NULL}]
      /\ socket'[s] = k2 /\ socket'[o] = socket[o]
  BY <1>1, <1>2, SetFact
<1>4. /\ net' \in [Sides -> Seq(Packets)]
      /\ net'[s] = Tail(net[s])
      /\ \/ net'[o] = net[o]
         \/ \E p \in Packets :
               net'[o] = Append(net[o], p) /\ p.seq = k2.seq /\ p.frag = 0
  <2>1. type = "none" \/ (type \in {"SYN", "SYNACK", "ACK", "FIN"} /\ k2 \in Sockets)
    OBVIOUS
  <2>2. /\ net' \in [Sides -> Seq(Packets)]
        /\ net'[s] = Tail(net[s])
        /\ \/ net'[Peer(s)] = net[Peer(s)]
           \/ \E p \in Packets :
                 net'[Peer(s)] = Append(net[Peer(s)], p) /\ p.seq = k2.seq /\ p.frag = 0
    BY <1>2, <2>1, AnswerFact
  <2> QED
    BY <1>1, <2>2
<1>5. buffered' \in [Sides -> Seq(Nat)] /\ buffered'[s] = bs2 /\ buffered'[o] = buffered[o]
  BY <1>1, <1>2 DEF Typing
<1>6. Typing'
  BY <1>2, <1>3, <1>4, <1>5 DEF Typing
<1>7. NotYet(s)' /\ InCall(s)' /\ InCall(o)'
  BY <1>1, <1>2, <1>3 DEF IInv, NotYet, InCall
<1>8. NotYet(o)'
  <2>1. pc[o] # "create"
    BY <1>1 DEF IInv, NotYet
  <2> QED
    BY <2>1 DEF NotYet
<1>9. Counting(s)' = Counting(s) /\ Counting(o)' = Counting(o)
  BY <1>3 DEF Counting
<1>10. ChanTo(s)'
  <2>a. PICK x \in BOOLEAN : x = Counting(o)
    BY DEF Counting
  <2>1. PICK q \in Seq(Packets), f \in Nat, bs \in Seq(Nat), a \in Sockets \cup {NULL}, k \in Sockets \cup {NULL} :
           q = net[s] /\ f = frag[o] /\ bs = buffered[s] /\ a = socket[o] /\ k = socket[s]
    BY <1>1, <1>2 DEF Typing
  <2>2. Chan(q, a, k, f, bs, x)
    BY <1>1, <2>a, <2>1 DEF IInv, ChanTo
  <2>3. /\ a # NULL => a.seq \in Nat
        /\ k # NULL /\ k.ack \in Nat /\ q # <<>>
    BY <1>1, <1>2, <2>1, SocketFact DEF Typing
  <2>4. Chan(Tail(q), a, k2, f, bs2, x)
    <3>1. CASE k2.ack = socket[s].ack /\ bs2 = buffered[s]
      <4>1. Chan(Tail(q), a, k, f, bs, x)
        BY <2>2, <2>3, DropKeepsChan
      <4> QED
        BY <2>1, <2>3, <3>1, <4>1, QuietKeepsChan
    <3>2. CASE /\ k2.ack = Head(net[s]).seq
               /\ Head(net[s]).seq = socket[s].ack + 1 \/ Head(net[s]).frag = 0
               /\ \/ bs2 = buffered[s]
                  \/ Head(net[s]).frag # 0 /\ bs2 = Append(buffered[s], Head(net[s]).frag)
      <4>1. k2.ack = Head(q).seq /\ (Head(q).seq = k.ack + 1 \/ Head(q).frag = 0)
        BY <2>1, <3>2
      <4>2. bs2 = bs \/ (Head(q).frag # 0 /\ bs2 = Append(bs, Head(q).frag))
        BY <2>1, <3>2
      <4> QED
        BY <2>2, <2>3, <4>1, <4>2, AcceptKeepsChan
    <3> QED
      BY <3>1, <3>2
  <2> QED
    BY <1>1, <1>3, <1>4, <1>5, <1>9, <2>a, <2>1, <2>4 DEF ChanTo
<1>11. ChanTo(o)'
  <2>a. PICK x \in BOOLEAN : x = Counting(s)
    BY DEF Counting
  <2>1. PICK q \in Seq(Packets), f \in Nat, bs \in Seq(Nat), a \in Sockets \cup {NULL}, k \in Sockets \cup {NULL} :
           q = net[o] /\ f = frag[s] /\ bs = buffered[o] /\ a = socket[s] /\ k = socket[o]
    BY <1>1, <1>2 DEF Typing
  <2>2. Chan(q, a, k, f, bs, x)
    BY <1>1, <2>a, <2>1 DEF IInv, ChanTo
  <2>3. Chan(q, k2, k, f, bs, x)
    BY <1>2, <2>1, <2>2, QuietKeepsChan
  <2>4. CASE net'[o] = net[o]
    BY <1>1, <1>3, <1>5, <1>9, <2>a, <2>1, <2>3, <2>4 DEF ChanTo
  <2>5. CASE net'[o] # net[o]
    <3>1. PICK p \in Packets : net'[o] = Append(q, p) /\ p.seq = k2.seq /\ p.frag = 0
      BY <1>4, <2>1, <2>5
    <3>2. k2 # NULL /\ k2.seq \in Nat /\ (k # NULL => k.ack \in Nat)
      BY <1>1, <1>2, <2>1, SocketFact DEF Typing
    <3>3. Chan(Append(q, p), k2, k, f, bs, x)
      BY <2>3, <3>1, <3>2, SendKeepsChan
    <3> QED
      BY <1>1, <1>3, <1>5, <1>9, <2>a, <2>1, <3>1, <3>3 DEF ChanTo
  <2> QED
    BY <2>4, <2>5
<1> QED
  BY <1>1, <1>6, <1>7, <1>8, <1>10, <1>11 DEF IInv

(* The packet in front is gone, or comes again, and nothing else happens.   *)
LEMMA NetworkKeepsIInv ==
    ASSUME IInv, NEW s \in Sides, net[s] # <<>>,
           NEW q2, net' = [net EXCEPT ![s] = q2],
           q2 = Tail(net[s]) \/ q2 = <<Head(net[s])>> \o net[s],
           UNCHANGED <<socket, pc, wake_arg, frag, buffered>>
    PROVE  IInv'
<1> DEFINE o == Peer(s)
<1>1. /\ o \in Sides /\ o # s /\ Peer(o) = s /\ Peer(s) = o
      /\ \A t \in Sides : t = s \/ t = o
  BY SidesFact
<1> HIDE DEF o
<1>2. Typing /\ net[s] \in Seq(Packets)
  BY DEF IInv, Typing
<1>3. q2 \in Seq(Packets)
  <2>1. Tail(net[s]) \in Seq(Packets)
    BY <1>2, HeadTailProperties
  <2>2. <<Head(net[s])>> \o net[s] \in Seq(Packets)
    <3>1. Head(net[s]) \in Packets
      BY <1>2, Elements
    <3>2. <<Head(net[s])>> \in Seq(Packets)
      BY <3>1
    <3> QED
      BY <1>2, <3>2, ConcatProperties
  <2> QED
    BY <2>1, <2>2
<1>4. net' \in [Sides -> Seq(Packets)] /\ net'[s] = q2 /\ net'[o] = net[o]
  BY <1>1, <1>2, <1>3 DEF Typing
<1>5. Typing' /\ Counting(s)' = Counting(s) /\ Counting(o)' = Counting(o)
  BY <1>2, <1>4 DEF Typing, Counting
<1>6. NotYet(s)' /\ NotYet(o)' /\ InCall(s)' /\ InCall(o)'
  BY <1>1, <1>4 DEF IInv, NotYet, InCall
<1>7. ChanTo(o)'
  BY <1>1, <1>4, <1>5 DEF IInv, ChanTo
<1>8. ChanTo(s)'
  <2>1. PICK q, f, bs, a, k, x :
           /\ q = net[s] /\ f = frag[o] /\ bs = buffered[s] /\ a = socket[o] /\ k = socket[s]
           /\ x = Counting(o)
    OBVIOUS
  <2>2. Chan(q, a, k, f, bs, x)
    BY <1>1, <2>1 DEF IInv, ChanTo
  <2>3. Chan(q2, a, k, f, bs, x)
    <3>1. q \in Seq(Packets) /\ q # <<>>
      BY <1>2, <2>1
    <3> QED
      BY <2>1, <2>2, <3>1, DropKeepsChan, RepeatKeepsChan
  <2> QED
    BY <1>1, <1>4, <1>5, <2>1, <2>3 DEF ChanTo
<1> QED
  BY <1>1, <1>5, <1>6, <1>7, <1>8 DEF IInv

LEMMA HandleKeepsIInv ==
    ASSUME IInv, NEW s \in Sides, minisocket_handle_incoming_packet(s)
    PROVE  IInv'
<1> DEFINE p == Head(net[s])
<1>1. /\ net[s] # <<>> /\ p \in Packets /\ p.seq \in Nat /\ p.frag \in Nat
      /\ Typing /\ wake_arg \in [Sides -> WakeArgs] /\ socket[s] \in Sockets \cup {NULL}
      /\ buffered \in [Sides -> Seq(Nat)] /\ buffered[s] \in Seq(Nat)
  <2>1. net[s] # <<>> /\ net[s] \in Seq(Packets)
    BY DEF IInv, Typing, minisocket_handle_incoming_packet
  <2>2. p \in Packets
    BY <2>1, Elements
  <2> QED
    BY <2>1, <2>2 DEF IInv, Typing, Packets
<1>2. pc' = pc /\ frag' = frag
  BY DEF minisocket_handle_incoming_packet, threadVars
<1>3. buffered' = buffered => buffered' = [buffered EXCEPT ![s] = buffered[s]]
  BY <1>1
<1>4. CASE HandleRefused(s, p)
  <2>1. socket' = socket /\ wake_arg' = wake_arg /\ buffered' = buffered
    BY <1>4 DEF HandleRefused, socketVars
  <2>2. CASE socket[s] = NULL /\ Answer(s, NULL, "none")
    <3> DEFINE q2 == Tail(net[s])
    <3>1. net' = [net EXCEPT ![s] = q2]
      <4>1. net' = [net EXCEPT ![s] = q2, ![Peer(s)] = net[Peer(s)]]
        BY <2>2, SidesFact DEF Answer
      <4>2. net \in [Sides -> Seq(Packets)] /\ Peer(s) \in Sides
        BY <1>1, SidesFact DEF Typing
      <4> QED
        BY <4>1, <4>2, SidesFact
    <3> QED
      BY <1>1, <1>2, <2>1, <3>1, NetworkKeepsIInv
  <2>3. CASE socket[s] # NULL /\ ~Expected(socket[s], p) /\ Answer(s, socket[s], "ACK")
    <3>1. Set(s, socket[s]) /\ socket[s] \in Sockets
      BY <1>1, <2>1, <2>3 DEF Typing, Set
    <3>2. \A t \in Sides : wake_arg'[t].alarm = wake_arg[t].alarm
      BY <2>1
    <3> QED
      BY <1>1, <1>2, <1>3, <2>1, <2>3, <3>1, <3>2, HandleStepKeepsIInv
  <2> QED
    BY <1>4, <2>2, <2>3 DEF HandleRefused
<1>5. CASE /\ socket[s] # NULL
           /\ Expected(socket[s], p)
           /\ LET k == Acknowledged(socket[s], p) IN
              \/ HandleSyn(s, k, p) \/ HandleConnected(s, k, p) \/ HandleData(s, k, p)
              \/ HandleSynAck(s, k, p) \/ HandleFin(s, k, p) \/ HandleFinAck(s, k, p)
              \/ HandleNothing(s, k, p)
  <2> DEFINE k == Acknowledged(socket[s], p)
  <2>1. socket[s] \in Sockets
    BY <1>1, <1>5
  <2>2. /\ k \in Sockets /\ k.ack = p.seq /\ k.seq = socket[s].seq /\ k.tries = socket[s].tries
    BY <1>1, <2>1 DEF Acknowledged, Sockets
  <2>3. p.seq = socket[s].ack + 1 \/ p.frag = 0
    BY <1>5 DEF Expected
  <2>4. \/ HandleSyn(s, k, p) \/ HandleConnected(s, k, p) \/ HandleData(s, k, p)
        \/ HandleSynAck(s, k, p) \/ HandleFin(s, k, p) \/ HandleFinAck(s, k, p)
        \/ HandleNothing(s, k, p)
    BY <1>5
  <2> HIDE DEF k
  (* The socket, but for its numbers, and the alarm, but for its state, are *)
  (* anything; so is the answer.                                            *)
  <2>5. ASSUME NEW k2 \in Sockets, Set(s, k2),
               k2.ack = k.ack, k2.seq = k.seq, k2.tries = k.tries,
               NEW type \in {"none", "SYN", "SYNACK", "ACK", "FIN"}, Answer(s, k, type),
               wake_arg' = wake_arg \/ wake_from_packet(s),
               \/ buffered' = buffered
               \/ p.frag # 0 /\ buffered' = [buffered EXCEPT ![s] = Append(buffered[s], p.frag)]
        PROVE  IInv'
    <3>1. Answer(s, k2, type)
      BY <2>5 DEF Answer, Packet
    <3>2. /\ wake_arg' \in [Sides -> WakeArgs]
          /\ \A t \in Sides : wake_arg'[t].alarm = wake_arg[t].alarm
      <4>1. CASE wake_arg' = wake_arg
        BY <1>1, <4>1
      <4>2. CASE wake_arg' = [wake_arg EXCEPT ![s].queued = FALSE, ![s].sema = @ + 1]
        BY <1>1, <4>2 DEF WakeArgs
      <4> QED
        BY <2>5, <4>1, <4>2 DEF wake_from_packet
    <3>3. PICK bs2 \in Seq(Nat) : /\ buffered' = [buffered EXCEPT ![s] = bs2]
                                  /\ bs2 = buffered[s] \/ (p.frag # 0 /\ bs2 = Append(buffered[s], p.frag))
      BY <1>1, <1>3, <2>5, AppendProperties
    <3> QED
      BY <1>1, <1>2, <2>1, <2>2, <2>3, <2>5, <3>1, <3>2, <3>3, HandleStepKeepsIInv, ZenonT(30)
  <2>6. CASE HandleSyn(s, k, p)
    <3>1. CASE k.listening = NULL
      <4>1. Set(s, k) /\ Answer(s, k, "SYNACK") /\ wake_arg' = wake_arg /\ buffered' = buffered
        BY <2>6, <3>1 DEF HandleSyn
      <4> QED
        BY <2>2, <2>5, <4>1
    <3>2. CASE k.listening # NULL
      <4> DEFINE k2 == [k EXCEPT !.state = "CONNECTING", !.timed_out = FALSE, !.listening = @ + 1]
      <4>1. k.listening \in Nat
        BY <2>2, <3>2, FieldFact
      <4>2. k2 \in Sockets /\ k2.ack = k.ack /\ k2.seq = k.seq /\ k2.tries = k.tries
        <5>1. PICK l \in Nat : l = k.listening + 1
          BY <4>1
        <5>2. k2 = [k EXCEPT !.state = "CONNECTING", !.timed_out = FALSE, !.listening = l]
          BY <5>1
        <5> QED
          BY <2>2, <5>2 DEF Sockets, States
      <4>3. Set(s, k2) /\ Answer(s, k, "SYNACK") /\ wake_arg' = wake_arg /\ buffered' = buffered
        BY <2>6, <3>2 DEF HandleSyn
      <4> HIDE DEF k2
      <4> QED
        BY <2>5, <4>2, <4>3
    <3> QED
      BY <3>1, <3>2
  <2>7. CASE HandleConnected(s, k, p)
    <3> DEFINE k2 == [k EXCEPT !.state = "CONNECTED", !.timed_out = FALSE]
    <3>1. k2 \in Sockets /\ k2.ack = k.ack /\ k2.seq = k.seq /\ k2.tries = k.tries
      BY <2>2 DEF Sockets, States
    <3>2. PICK type \in {"none", "ACK"} : Answer(s, k, type)
      BY <2>7 DEF HandleConnected
    <3>3. Set(s, k2) /\ wake_from_packet(s) /\ buffered' = buffered
      BY <2>7 DEF HandleConnected
    <3> HIDE DEF k2
    <3> QED
      BY <2>5, <3>1, <3>2, <3>3
  <2>8. CASE HandleData(s, k, p)
    <3> DEFINE b == Put(k.buffer, p.frag)
               m == IF k.buffer = <<>> THEN k.buffer_has_stuff + 1 ELSE k.buffer_has_stuff
               k2 == [k EXCEPT !.buffer = b, !.buffer_has_stuff = m, !.timed_out = FALSE]
    <3>1. b \in Seq(Nat)
      <4>1. k.buffer \in Seq(Nat)
        BY <2>2, FieldFact
      <4>2. Append(k.buffer, p.frag) \in Seq(Nat)
        BY <1>1, <4>1, AppendProperties
      <4>3. ASSUME k.buffer # <<>>
            PROVE  [k.buffer EXCEPT ![Len(k.buffer)] = p.frag] \in Seq(Nat)
        <5>1. Len(k.buffer) \in 1 .. Len(k.buffer)
          BY <4>1, <4>3, LenProperties, EmptySeq
        <5> QED
          BY <1>1, <4>1, <5>1, ExceptSeq
      <4> QED
        BY <4>2, <4>3 DEF Put
    <3>2. m \in Nat
      BY <2>2, FieldFact
    <3>3. Set(s, k2)
      BY <2>8 DEF HandleData, Buffered
    <3>4. /\ wake_from_packet(s) /\ Answer(s, k, "ACK")
          /\ \/ buffered' = buffered
             \/ p.frag # 0 /\ buffered' = [buffered EXCEPT ![s] = Append(buffered[s], p.frag)]
      BY <2>8 DEF HandleData
    <3> HIDE DEF b, m
    <3>5. k2 \in Sockets /\ k2.ack = k.ack /\ k2.seq = k.seq /\ k2.tries = k.tries
      BY <2>2, <3>1, <3>2 DEF Sockets
    <3> HIDE DEF k2
    <3> QED
      BY <2>5, <3>3, <3>4, <3>5
  <2>9. CASE HandleFin(s, k, p)
    <3> DEFINE k2 == IF k.state = "CLOSING" THEN k ELSE [k EXCEPT !.state = "CLOSING", !.unable_to_close = 0]
    <3>1. k2 \in Sockets /\ k2.ack = k.ack /\ k2.seq = k.seq /\ k2.tries = k.tries
      BY <2>2 DEF Sockets, States
    <3>2. Set(s, k2) /\ Answer(s, k, "ACK") /\ wake_arg' = wake_arg /\ buffered' = buffered
      BY <2>9 DEF HandleFin
    <3> HIDE DEF k2
    <3> QED
      BY <2>5, <3>1, <3>2
  <2>10. CASE HandleFinAck(s, k, p)
    <3> DEFINE k2 == [k EXCEPT !.state = "CLOSED"]
    <3>1. k2 \in Sockets /\ k2.ack = k.ack /\ k2.seq = k.seq /\ k2.tries = k.tries
      BY <2>2 DEF Sockets, States
    <3>2. Set(s, k2) /\ Answer(s, k, "none") /\ wake_arg' = wake_arg /\ buffered' = buffered
      BY <2>10 DEF HandleFinAck
    <3> HIDE DEF k2
    <3> QED
      BY <2>5, <3>1, <3>2
  <2>11. CASE HandleSynAck(s, k, p) \/ HandleNothing(s, k, p)
    <3>1. Set(s, k) /\ wake_arg' = wake_arg /\ buffered' = buffered
      BY <2>11 DEF HandleSynAck, HandleNothing
    <3>2. PICK type \in {"none", "ACK"} : Answer(s, k, type)
      BY <2>11 DEF HandleSynAck, HandleNothing
    <3> QED
      BY <2>2, <2>5, <3>1, <3>2
  <2> QED
    BY <2>4, <2>6, <2>7, <2>8, <2>9, <2>10, <2>11
<1> QED
  BY <1>4, <1>5 DEF minisocket_handle_incoming_packet

-----------------------------------------------------------------------------
LEMMA FaultKeepsIInv ==
    ASSUME IInv, NetworkFault
    PROVE  IInv'
<1>1. PICK s \in Sides : Lose(s) \/ Duplicate(s) \/ RouteNotFound(s)
  BY DEF NetworkFault
<1>2. UNCHANGED <<pc, wake_arg, frag, buffered>>
  BY DEF NetworkFault, threadVars
<1>3. CASE Lose(s) \/ Duplicate(s)
  <2>1. PICK q2 : /\ net[s] # <<>> /\ net' = [net EXCEPT ![s] = q2] /\ UNCHANGED socket
                  /\ q2 = Tail(net[s]) \/ q2 = <<Head(net[s])>> \o net[s]
    BY <1>3 DEF Lose, Duplicate
  <2> QED
    BY <1>2, <2>1, NetworkKeepsIInv
<1>4. CASE RouteNotFound(s)
  <2> DEFINE k2 == [socket[s] EXCEPT !.error = TRUE]
  <2>1. /\ socket[s] \in Sockets /\ socket[s] # NULL /\ wake_arg \in [Sides -> WakeArgs]
        /\ pc[s] \in PC /\ pc[s] # "create"
        /\ wake_arg[s].alarm # "none" => pc[s] \in {"connect_blocked", "send_blocked", "close_blocked"}
    BY <1>4 DEF RouteNotFound, IInv, Typing, NotYet, InCall
  <2>2. k2 \in Sockets /\ k2.seq = socket[s].seq /\ k2.ack = socket[s].ack /\ k2.tries = socket[s].tries
    BY <2>1 DEF Sockets
  <2>3. Set(s, k2) /\ net' = net
    BY <1>4 DEF RouteNotFound
  <2> HIDE DEF k2
  <2>4. Kept(socket[s], k2) /\ k2 # NULL
    BY <2>2, SocketFact DEF Kept
  <2> QED
    BY <1>2, <2>1, <2>2, <2>3, <2>4, StepIsQuiet
<1> QED
  BY <1>1, <1>3, <1>4

(* IInv holds of every behaviour.                                           *)
LEMMA IInvHolds == Spec => []IInv
<1>1. Init => IInv
  <2> SUFFICES ASSUME Init
               PROVE  IInv
    OBVIOUS
  <2>1. Typing
    BY EmptySeq DEF Init, Typing, NoArg, WakeArgs, PC
  <2>2. ASSUME NEW s \in Sides
        PROVE  NotYet(s) /\ InCall(s) /\ ChanTo(s)
    <3>1. Peer(s) \in Sides
      BY SidesFact
    <3>2. NotYet(s) /\ InCall(s)
      BY <3>1 DEF Init, NotYet, InCall, NoArg
    <3>3. Counting(Peer(s)) = FALSE
      BY <3>1 DEF Init, Counting
    <3>4. Chan(<<>>, NULL, NULL, 0, <<>>, FALSE)
      BY DEF Chan, Moving, Behind, Given, Fresh, Ahead, Window, Rising, Below
    <3> QED
      BY <3>1, <3>2, <3>3, <3>4 DEF Init, ChanTo
  <2> QED
    BY <2>1, <2>2 DEF IInv
<1>2. IInv /\ [Next]_vars => IInv'
  <2> SUFFICES ASSUME IInv, [Next]_vars
               PROVE  IInv'
    OBVIOUS
  <2>1. CASE Create
    BY <2>1, CreateKeepsIInv
  <2>2. ASSUME NEW s \in Sides,
               SendCall(s) \/ ReceiveCall(s) \/ CloseCall(s) \/ CallStep(s)
        PROVE  IInv'
    BY <2>2, ConnectKeepsIInv, WaitKeepsIInv, CallKeepsIInv, SendCountKeepsIInv, SendKeepsIInv
    DEF CallStep
  <2>3. ASSUME NEW s \in Sides, AlarmStep(s)
        PROVE  IInv'
    BY <2>3, AlarmKeepsIInv
  <2>4. ASSUME NEW s \in Sides, minisocket_handle_incoming_packet(s)
        PROVE  IInv'
    BY <2>4, HandleKeepsIInv
  <2>5. CASE NetworkFault
    BY <2>5, FaultKeepsIInv
  <2>6. CASE UNCHANGED vars
    BY <2>6 DEF vars, socketVars, threadVars, IInv, Typing, NotYet, InCall, ChanTo, Counting
  <2> QED
    BY <2>1, <2>2, <2>3, <2>4, <2>5, <2>6 DEF Next
<1> QED
  BY <1>1, <1>2, PTL DEF Spec

(* What reaches the buffer of a minisocket is in order and comes once: for  *)
(* the handler of minisocket.c and minisocket_send, over a network that     *)
(* loses and repeats packets, for any amount of data and any MAX_TRIES.     *)
THEOREM OrderlyDelivery == Spec => []InOrderAtMostOnce
<1>1. IInv => InOrderAtMostOnce
  <2> SUFFICES ASSUME IInv, NEW s \in Sides,
                      NEW i \in DOMAIN buffered[s], NEW j \in DOMAIN buffered[s], i < j
               PROVE  buffered[s][i] < buffered[s][j]
    BY DEF InOrderAtMostOnce
  <2>1. DOMAIN buffered[s] = 1 .. Len(buffered[s])
    BY LenProperties DEF IInv, Typing
  <2> QED
    BY <2>1 DEF IInv, ChanTo, Chan, Rising
<1> QED
  BY <1>1, IInvHolds, PTL

(***************************************************************************)
(* What a side is at, side by side: its counters and what may still wake   *)
(* its thread (Side), packets that carry no number their sender has not    *)
(* reached (Sound), connections only with a side that has had a packet of  *)
(* this one (Met), and the sender's distance from its peer (Paced).        *)
(***************************************************************************)
Sending == {"send", "send_packet", "send_wait", "send_blocked", "send_evaluate"}

Closing == {"close_wait", "close_blocked", "close_evaluate"}

Opening == {"syn", "connecting", "connect_wait", "connect_blocked", "connect_evaluate",
            "listen", "listening"}

(* The connection has been made.                                            *)
Established == Sending \cup Closing \cup {"ready", "receive", "close", "done"}

(* The tries of socket k, whose thread is at at, at fragment f.             *)
Trying(k, at, f) ==
    /\ k.tries <= MAX_TRIES + 1 + f
    /\ at \in Opening \cup Closing => k.tries <= MAX_TRIES
    /\ at = "connect" => k.error \/ k.tries <= MAX_TRIES
    /\ at \in {"ready", "receive"} => k.tries <= MAX_TRIES + f
    /\ at \in Sending => k.tries < MAX_TRIES + f

(* Its numbers and its buffer.                                              *)
Numbered(s, k, at, f) ==
    /\ at # "failed"
    /\ k.seq >= 1 /\ k.seq <= f + 1
    /\ at = "send" /\ k.tries = 0 => k.seq <= f
    /\ k.state = "CONNECTED" => k.ack >= 1
    /\ s = "server" /\ k.state = "CONNECTING" => k.ack >= 1
    /\ at \in Established => k.ack >= 1 /\ k.state \in {"CONNECTED", "CLOSING", "CLOSED"}
    /\ k.buffer_has_stuff = IF k.buffer = <<>> THEN 0 ELSE 1

(* Of the fragments, r are left in the call of send.                        *)
Sliced(s, at, f, r) ==
    /\ f <= MaxData[s]
    /\ at \notin Established \cup {"failed"} => f = 0
    /\ IF at \in Sending THEN f >= 1 /\ r >= 1 /\ r + f = MaxData[s] + 1 ELSE r = 0

(* At most two will wake the thread, and nobody unless it waits.            *)
One(b) == IF b THEN 1 ELSE 0

Alarmed(at, w) ==
    IF at \in {"connect_blocked", "send_blocked", "close_blocked"}
    THEN w.sema + One(w.alarm # "none") + One(w.queued) <= 2
    ELSE w = NoArg

Side(s) ==
    /\ frag[s] \in Nat /\ remaining[s] \in Nat
    /\ socket[s] # NULL => /\ Trying(socket[s], pc[s], frag[s])
                           /\ Numbered(s, socket[s], pc[s], frag[s])
    /\ Sliced(s, pc[s], frag[s], remaining[s])
    /\ Alarmed(pc[s], wake_arg[s])

(* The side has had a packet of its peer.                                   *)
Acked(s) == pc[s] # "create" /\ (socket[s] # NULL => socket[s].ack >= 1)

Met(s) ==
    pc[s] \in Established \/ (socket[s] # NULL /\ socket[s].state = "CONNECTED") => Acked(Peer(s))

(* Packet p is on its way to s.                                             *)
On(q, p) == \E i \in 1 .. Len(q) : q[i] = p

Good(s, p) ==
    /\ p.seq >= 1 /\ p.seq <= frag[Peer(s)] + 1
    /\ p.seq > 1 => Acked(s)
    /\ p.type \in {"ACK", "SYNACK"} => p.ack >= 1
    /\ p.ack >= 1 => Acked(Peer(s))
    /\ socket[Peer(s)] # NULL => p.ack <= socket[Peer(s)].ack

Sound(s) ==
    /\ \A p \in Packets : On(net[s], p) => Good(s, p)
    /\ socket[s] # NULL => socket[s].ack <= frag[Peer(s)] + 1

(* The sender knows that its last packet was acknowledged.                  *)
Answered(s) ==
    \/ pc[s] \in {"ready", "receive", "send"} /\ socket[s].tries = 0
    \/ pc[s] = "send_evaluate" /\ ~socket[s].timed_out
    \/ pc[s] = "send_blocked" /\ wake_arg[s].sema > 0 /\ ~socket[s].timed_out

Paced(s) ==
    wait_blocks /\ frag[Peer(s)] = 0 /\ socket[s] # NULL /\ socket[Peer(s)] # NULL =>
        /\ socket[s].seq <= socket[Peer(s)].ack + 1
        /\ Answered(s) => socket[s].seq <= socket[Peer(s)].ack

SInv ==
    /\ remaining \in [Sides -> Nat]
    /\ \A s \in Sides : Side(s) /\ Sound(s) /\ Met(s) /\ Paced(s)

-----------------------------------------------------------------------------
LEMMA OnFact ==
    ASSUME NEW q \in Seq(Packets)
    PROVE  /\ \A p : On(q, p) => p \in Packets
           /\ q # <<>> => /\ On(q, Head(q))
                          /\ \A p : On(Tail(q), p) => On(q, p)
                          /\ \A p : On(<<Head(q)>> \o q, p) => On(q, p)
           /\ \A x \in Packets : \A p : On(Append(q, x), p) => On(q, p) \/ p = x
<1>1. \A p : On(q, p) => p \in Packets
  BY Elements DEF On
<1>2. ASSUME NEW x \in Packets, NEW p, On(Append(q, x), p)
      PROVE  On(q, p) \/ p = x
  <2>1. /\ Len(Append(q, x)) = Len(q) + 1 /\ Len(q) \in Nat
        /\ Append(q, x)[Len(q) + 1] = x
        /\ \A i \in 1 .. Len(q) : Append(q, x)[i] = q[i]
    BY AppendProperties, LenProperties
  <2>2. PICK i \in 1 .. Len(q) + 1 : Append(q, x)[i] = p
    BY <1>2, <2>1 DEF On
  <2>3. i = Len(q) + 1 \/ i \in 1 .. Len(q)
    BY <2>1
  <2> QED
    BY <2>1, <2>2, <2>3 DEF On
<1>3. ASSUME q # <<>>
      PROVE  /\ On(q, Head(q))
             /\ \A p : On(Tail(q), p) => On(q, p)
             /\ \A p : On(<<Head(q)>> \o q, p) => On(q, p)
  <2>1. Len(q) \in Nat /\ Len(q) > 0 /\ Head(q) = q[1] /\ Head(q) \in Packets
    BY <1>3, Elements
  <2>2. On(q, Head(q))
    BY <2>1 DEF On
  <2>3. ASSUME NEW p, On(Tail(q), p)
        PROVE  On(q, p)
    <3>1. Len(Tail(q)) = Len(q) - 1 /\ \A i \in 1 .. Len(Tail(q)) : Tail(q)[i] = q[i + 1]
      BY <1>3, HeadTailProperties
    <3>2. PICK i \in 1 .. Len(Tail(q)) : Tail(q)[i] = p
      BY <2>3 DEF On
    <3>3. i + 1 \in 1 .. Len(q)
      BY <2>1, <3>1
    <3> QED
      BY <3>1, <3>2, <3>3 DEF On
  <2>4. ASSUME NEW p, On(<<Head(q)>> \o q, p)
        PROVE  On(q, p)
    <3>a. <<Head(q)>> \in Seq(Packets) /\ Len(<<Head(q)>>) = 1 /\ <<Head(q)>>[1] = Head(q)
      BY <2>1
    <3>1. /\ Len(<<Head(q)>> \o q) = 1 + Len(q)
          /\ (<<Head(q)>> \o q)[1] = Head(q)
          /\ \A i \in 2 .. Len(q) + 1 : (<<Head(q)>> \o q)[i] = q[i - 1]
      BY <2>1, <3>a, ConcatProperties
    <3>2. PICK i \in 1 .. 1 + Len(q) : (<<Head(q)>> \o q)[i] = p
      BY <2>4, <3>1 DEF On
    <3>3. CASE i = 1
      BY <2>2, <3>1, <3>2, <3>3
    <3>4. CASE i # 1
      <4>1. i \in 2 .. Len(q) + 1 /\ i - 1 \in 1 .. Len(q)
        BY <2>1, <3>4
      <4> QED
        BY <3>1, <3>2, <4>1 DEF On
    <3> QED
      BY <3>3, <3>4
  <2> QED
    BY <2>2, <2>3, <2>4
<1> QED
  BY <1>1, <1>2, <1>3

-----------------------------------------------------------------------------
(* What a step of side s may do to the rest.                                *)
Others(s) ==
    /\ \A t \in Sides \ {s} :
          /\ socket'[t] = socket[t] /\ pc'[t] = pc[t] /\ wake_arg'[t] = wake_arg[t]
          /\ frag'[t] = frag[t] /\ remaining'[t] = remaining[t]
    /\ wait_blocks' = wait_blocks /\ remaining' \in [Sides -> Nat]
    /\ frag[s] <= frag'[s]

(* Its packets are those it had; those to its peer too, but for one of it.  *)
Sends(s) ==
    /\ \A p : On(net'[s], p) => On(net[s], p)
    /\ \A p : On(net'[Peer(s)], p) =>
          \/ On(net[Peer(s)], p)
          \/ /\ socket'[s] # NULL /\ p.seq = socket'[s].seq /\ p.ack = socket'[s].ack
             /\ p.type \in {"ACK", "SYNACK"} => p.ack >= 1

(* Its ack is that of a packet, or the old one.                             *)
Acks(s) ==
    /\ pc'[s] = "create" => pc[s] = "create" /\ socket'[s] = NULL
    /\ socket'[s] # NULL =>
          \/ pc[s] = "create" /\ socket'[s].ack = 0
          \/ socket[s] # NULL /\ socket'[s].ack = socket[s].ack
          \/ socket[s] # NULL /\ socket[s].ack <= socket'[s].ack
             /\ \E p \in Packets : On(net[s], p) /\ socket'[s].ack = p.seq

(* It goes on to a new number only when the last one is acknowledged.       *)
Paces(s) ==
    socket'[s] # NULL =>
        \/ pc[s] = "create" /\ socket'[s].seq = 1 /\ ~Answered(s)'
        \/ /\ socket[s] # NULL /\ socket'[s].seq = socket[s].seq + 1
           /\ Answered(s) /\ ~Answered(s)'
        \/ /\ socket[s] # NULL /\ socket'[s].seq = socket[s].seq
           /\ wait_blocks /\ frag[Peer(s)] = 0 /\ Answered(s)' =>
                \/ Answered(s)
                \/ socket[s].seq <= 1 /\ Acked(Peer(s))
                \/ \E p \in Packets : On(net[s], p) /\ p.ack = socket[s].seq

Step(s) == Others(s) /\ Sends(s) /\ Acks(s) /\ Paces(s) /\ Side(s)' /\ Met(s)'

LEMMA StepKeepsSInv ==
    ASSUME IInv, IInv', SInv, NEW s \in Sides, Step(s)
    PROVE  SInv'
<1> DEFINE o == Peer(s)
<1>1. /\ o \in Sides /\ o # s /\ Peer(o) = s /\ Peer(s) = o
      /\ \A t \in Sides : t = s \/ t = o
  BY SidesFact
<1> HIDE DEF o
<1>2. /\ Typing /\ Typing' /\ NotYet(s) /\ NotYet(s)' /\ NotYet(o)
  BY <1>1 DEF IInv
<1>3. /\ Side(s) /\ Sound(s) /\ Met(s) /\ Paced(s)
      /\ Side(o) /\ Sound(o) /\ Met(o) /\ Paced(o)
  BY <1>1 DEF SInv
<1>4. /\ socket'[o] = socket[o] /\ pc'[o] = pc[o] /\ wake_arg'[o] = wake_arg[o]
      /\ frag'[o] = frag[o] /\ remaining'[o] = remaining[o] /\ wait_blocks' = wait_blocks
      /\ frag[s] <= frag'[s]
  BY <1>1 DEF Step, Others
<1>5. /\ Side(s)' /\ Met(s)'
      /\ Side(o)'
  BY <1>3, <1>4 DEF Step, Side
<1>6. /\ frag[s] \in Nat /\ frag'[s] \in Nat /\ frag[o] \in Nat
      /\ socket[s] # NULL => socket[s].seq \in Nat /\ socket[s].ack \in Nat
      /\ socket'[s] # NULL => socket'[s].seq \in Nat /\ socket'[s].ack \in Nat
      /\ socket[o] # NULL => socket[o].seq \in Nat /\ socket[o].ack \in Nat
      /\ \A p \in Packets : p.seq \in Nat /\ p.ack \in Nat
  BY <1>1, <1>2, SocketFact DEF Typing, Packets
<1>7. net[s] \in Seq(Packets) /\ net[o] \in Seq(Packets)
  BY <1>1, <1>2 DEF Typing
<1>8. (Acked(s) => Acked(s)') /\ Acked(o)' = Acked(o)
  <2>1. socket'[s] # NULL /\ pc[s] # "create" =>
           socket[s] # NULL /\ socket[s].ack <= socket'[s].ack
    BY <1>6 DEF Step, Acks
  <2>2. pc[s] # "create" => pc'[s] # "create"
    BY DEF Step, Acks
  <2>3. Acked(s) => Acked(s)'
    BY <1>6, <2>1, <2>2 DEF Acked
  <2> QED
    BY <1>4, <2>3 DEF Acked
<1>9. Met(o)'
  BY <1>1, <1>3, <1>4, <1>8 DEF Met
<1>10. Sound(s)'
  <2>1. ASSUME NEW p \in Packets, On(net'[s], p)
        PROVE  Good(s, p)'
    <3>1. Good(s, p)
      BY <1>3, <2>1 DEF Sound, Step, Sends
    <3> QED
      BY <1>1, <1>4, <1>8, <3>1 DEF Good
  <2>2. ASSUME socket'[s] # NULL
        PROVE  socket'[s].ack <= frag[o] + 1
    <3>1. CASE socket'[s].ack = 0
      BY <1>6, <3>1
    <3>2. CASE socket[s] # NULL /\ socket'[s].ack = socket[s].ack
      BY <1>1, <1>3, <3>2 DEF Sound
    <3>3. ASSUME NEW p \in Packets, On(net[s], p), socket'[s].ack = p.seq
          PROVE  socket'[s].ack <= frag[o] + 1
      BY <1>1, <1>3, <3>3 DEF Sound, Good
    <3> QED
      BY <2>2, <3>1, <3>2, <3>3 DEF Step, Acks
  <2> QED
    BY <1>1, <1>4, <2>1, <2>2 DEF Sound
<1>11. Sound(o)'
  <2>1. ASSUME NEW p \in Packets, On(net[o], p)
        PROVE  Good(o, p)'
    <3>1. Good(o, p)
      BY <1>3, <2>1 DEF Sound
    <3>2. pc[s] # "create"
      <4> SUFFICES ASSUME net[o] = <<>>
                   PROVE  FALSE
        BY <1>1, <1>2 DEF NotYet
      <4> QED
        BY <2>1, EmptySeq DEF On
    <3>3. socket'[s] # NULL => socket[s] # NULL /\ socket[s].ack <= socket'[s].ack
      BY <1>6, <3>2 DEF Step, Acks
    <3>4. socket'[s] # NULL => p.ack <= socket'[s].ack
      BY <1>1, <1>6, <3>1, <3>3 DEF Good
    <3>5. p.seq >= 1 /\ p.seq <= frag'[s] + 1
      BY <1>1, <1>4, <1>6, <3>1 DEF Good
    <3> QED
      BY <1>1, <1>8, <3>1, <3>4, <3>5 DEF Good
  <2>2. ASSUME NEW p \in Packets, socket'[s] # NULL, p.seq = socket'[s].seq, p.ack = socket'[s].ack,
               p.type \in {"ACK", "SYNACK"} => p.ack >= 1
        PROVE  Good(o, p)'
    <3>1. p.seq >= 1 /\ p.seq <= frag'[s] + 1
      BY <1>5, <2>2 DEF Side, Numbered
    <3>2. ASSUME p.seq > 1
          PROVE  Acked(o)'
      <4>1. frag'[s] # 0
        BY <1>6, <3>1, <3>2
      <4>2. pc'[s] \in Established \cup {"failed"}
        BY <1>5, <4>1 DEF Side, Sliced
      <4>3. pc'[s] # "failed"
        BY <1>5, <2>2 DEF Side, Numbered
      <4> QED
        BY <1>1, <1>5, <4>2, <4>3 DEF Met
    <3>3. ASSUME p.ack >= 1
          PROVE  Acked(s)'
      BY <2>2, <3>3 DEF Step, Acks, Acked
    <3>4. p.ack <= socket'[s].ack
      BY <1>6, <2>2
    <3> QED
      BY <1>1, <2>2, <3>1, <3>2, <3>3, <3>4 DEF Good
  <2>3. socket[o] # NULL => socket[o].ack <= frag'[s] + 1
    BY <1>1, <1>3, <1>4, <1>6 DEF Sound
  <2>4. \A p \in Packets : On(net'[o], p) => Good(o, p)'
    BY <1>1, <2>1, <2>2 DEF Step, Sends
  <2> QED
    BY <1>1, <1>4, <2>3, <2>4 DEF Sound
<1>12. Paced(s)'
  <2> SUFFICES ASSUME wait_blocks, frag[o] = 0, socket'[s] # NULL, socket[o] # NULL
               PROVE  /\ socket'[s].seq <= socket[o].ack + 1
                      /\ Answered(s)' => socket'[s].seq <= socket[o].ack
    BY <1>1, <1>4 DEF Paced
  <2>1. CASE pc[s] = "create" /\ socket'[s].seq = 1 /\ ~Answered(s)'
    BY <1>6, <2>1
  <2>2. ASSUME socket[s] # NULL
        PROVE  /\ socket[s].seq <= socket[o].ack + 1
               /\ Answered(s) => socket[s].seq <= socket[o].ack
    BY <1>1, <1>3, <2>2 DEF Paced
  <2>3. CASE /\ socket[s] # NULL /\ socket'[s].seq = socket[s].seq + 1
             /\ Answered(s) /\ ~Answered(s)'
    BY <1>6, <2>2, <2>3
  <2>4. ASSUME socket[s] # NULL, socket'[s].seq = socket[s].seq,
               Answered(s)' => \/ Answered(s)
                               \/ socket[s].seq <= 1 /\ Acked(o)
                               \/ \E p \in Packets : On(net[s], p) /\ p.ack = socket[s].seq
        PROVE  /\ socket'[s].seq <= socket[o].ack + 1
               /\ Answered(s)' => socket'[s].seq <= socket[o].ack
    <3>1. ASSUME NEW p \in Packets, On(net[s], p), p.ack = socket[s].seq
          PROVE  socket[s].seq <= socket[o].ack
      BY <1>1, <1>3, <3>1 DEF Sound, Good
    <3>2. socket[s].seq <= 1 /\ Acked(o) => socket[s].seq <= socket[o].ack
      BY <1>6, <2>4 DEF Acked
    <3> QED
      BY <2>2, <2>4, <3>1, <3>2
  <2> QED
    BY <1>1, <2>1, <2>3, <2>4 DEF Step, Paces
<1>13. Paced(o)'
  <2> SUFFICES ASSUME wait_blocks, frag'[s] = 0, socket[o] # NULL, socket'[s] # NULL
               PROVE  /\ socket[o].seq <= socket'[s].ack + 1
                      /\ Answered(o)' => socket[o].seq <= socket'[s].ack
    BY <1>1, <1>4 DEF Paced
  <2>1. frag[s] = 0 /\ Answered(o)' = Answered(o)
    BY <1>4, <1>6 DEF Answered
  <2>2. CASE pc[s] = "create"
    <3>1. pc[o] \notin Established /\ pc[o] # "failed"
      BY <1>1, <1>3, <2>2 DEF Met, Acked, Side, Numbered
    <3>2. socket[o].seq <= 1
      BY <1>3, <1>6, <3>1 DEF Side, Sliced, Numbered
    <3>3. ~Answered(o)
      BY <3>1 DEF Answered, Established, Sending
    <3> QED
      BY <1>6, <2>1, <3>2, <3>3
  <2>3. CASE pc[s] # "create"
    <3>1. socket[s] # NULL /\ socket[s].ack <= socket'[s].ack
      BY <1>6, <2>3 DEF Step, Acks
    <3>2. socket[o].seq <= socket[s].ack + 1 /\ (Answered(o) => socket[o].seq <= socket[s].ack)
      BY <1>1, <1>3, <2>1, <3>1 DEF Paced
    <3> QED
      BY <1>6, <2>1, <3>1, <3>2
  <2> QED
    BY <2>2, <2>3
<1> QED
  BY <1>1, <1>5, <1>9, <1>10, <1>11, <1>12, <1>13 DEF SInv, Step, Others

-----------------------------------------------------------------------------
LEMMA SendOn ==
    ASSUME Typing, NEW s \in Sides, socket[s] # NULL, NEW type \in {"SYN", "SYNACK", "ACK", "FIN"},
           NEW n \in Nat, send(s, type, n)
    PROVE  /\ net'[s] = net[s]
           /\ \A p : On(net'[Peer(s)], p) =>
                 \/ On(net[Peer(s)], p)
                 \/ p.type = type /\ p.seq = socket[s].seq /\ p.ack = socket[s].ack
<1> DEFINE o == Peer(s)
           x == Packet(socket[s], type, n)
           q == net[o]
           r == Sent(q, x)
<1>1. o \in Sides /\ o # s
  BY SidesFact
<1>2. x \in Packets /\ x.type = type /\ x.seq = socket[s].seq /\ x.ack = socket[s].ack
  BY SocketFact DEF Typing, Packet, Packets
<1>3. q \in Seq(Packets)
  BY <1>1 DEF Typing
<1>4. net' = [net EXCEPT ![o] = r]
  BY DEF send
<1> HIDE DEF o, x, q
<1>5. r = q \/ r = Append(q, x)
  BY DEF Sent
<1> HIDE DEF r
<1>6. net'[s] = net[s] /\ net'[o] = r
  BY <1>1, <1>4 DEF Typing
<1>7. \A p : On(r, p) => On(q, p) \/ p = x
  <2>1. \A p : On(Append(q, x), p) => On(q, p) \/ p = x
    BY <1>2, <1>3, OnFact
  <2> QED
    BY <1>5, <2>1
<1> QED
  BY <1>2, <1>6, <1>7 DEF o, q

(* A step of the thread or the alarm of s, with the socket k2 it leaves.     *)
LEMMA OwnStep ==
    ASSUME IInv, IInv', SInv, NEW s \in Sides, socket[s] # NULL,
           NEW k2, socket'[s] = k2, k2 # NULL => k2.ack = socket[s].ack,
           Others(s), pc'[s] # "create",
           \/ net' = net
           \/ k2 # NULL /\ k2.seq = socket[s].seq /\ k2.ack = socket[s].ack
              /\ \E type \in {"SYN", "SYNACK", "ACK", "FIN"}, n \in Nat :
                    /\ send(s, type, n)
                    /\ type \in {"ACK", "SYNACK"} => socket[s].ack >= 1,
           Paces(s), Side(s)',
           pc'[s] \in Established \/ (k2 # NULL /\ k2.state = "CONNECTED") =>
              pc[s] \in Established \/ socket[s].state = "CONNECTED"
    PROVE  SInv'
<1>1. Typing /\ Peer(s) \in Sides /\ Peer(s) # s
  BY SidesFact DEF IInv
<1>2. Sends(s)
  <2>1. CASE net' = net
    BY <2>1 DEF Sends
  <2>2. CASE /\ k2 # NULL /\ k2.seq = socket[s].seq /\ k2.ack = socket[s].ack
             /\ \E type \in {"SYN", "SYNACK", "ACK", "FIN"}, n \in Nat :
                   /\ send(s, type, n)
                   /\ type \in {"ACK", "SYNACK"} => socket[s].ack >= 1
    <3>1. PICK type \in {"SYN", "SYNACK", "ACK", "FIN"}, n \in Nat :
                   /\ send(s, type, n)
                   /\ type \in {"ACK", "SYNACK"} => socket[s].ack >= 1
      BY <2>2
    <3>2. /\ net'[s] = net[s]
          /\ \A p : On(net'[Peer(s)], p) =>
                 \/ On(net[Peer(s)], p)
                 \/ p.type = type /\ p.seq = socket[s].seq /\ p.ack = socket[s].ack
      BY <1>1, <3>1, SendOn
    <3> QED
      BY <2>2, <3>1, <3>2 DEF Sends
  <2> QED
    BY <2>1, <2>2
<1>3. Acks(s)
  BY DEF Acks
<1>4. Met(s)'
  <2>1. Acked(Peer(s))' = Acked(Peer(s))
    BY <1>1 DEF Others, Acked
  <2>2. Met(s)
    BY DEF SInv
  <2> QED
    BY <2>1, <2>2 DEF Met
<1> QED
  BY <1>2, <1>3, <1>4, StepKeepsSInv DEF Step

-----------------------------------------------------------------------------
LEMMA ConnectKeepsSInv ==
    ASSUME IInv, IInv', SInv, NEW s \in Sides, Connect(s)
    PROVE  SInv'
<1> DEFINE k == socket[s]
           k2 == socket'[s]
<1>1. /\ k \in Sockets /\ k # NULL /\ pc[s] = "connect" /\ frag[s] \in Nat
      /\ remaining \in [Sides -> Nat]
      /\ socket \in [Sides -> Sockets \cup {NULL}] /\ pc \in [Sides -> PC]
  BY DEF IInv, Typing, InCall, Connect, SInv
<1>2. /\ Others(s) /\ net' = net
      /\ frag'[s] = frag[s] /\ remaining'[s] = remaining[s] /\ wake_arg'[s] = wake_arg[s]
  BY <1>1 DEF Connect, Others, Set, Goto
<1>3. Side(s) /\ Met(s) /\ k.error \in BOOLEAN /\ k.seq \in Nat /\ k.tries \in Nat
  BY <1>1, FieldFact DEF SInv
<1>4. \/ k.error /\ k2 = NULL /\ pc'[s] = "failed"
      \/ ~k.error /\ k2 = k /\ pc'[s] = "ready" /\ k.state = "CONNECTED"
      \/ ~k.error /\ k2 = k /\ pc'[s] = "listen" /\ k.state # "CONNECTED"
      \/ ~k.error /\ k2 = k /\ pc'[s] = "connect_wait" /\ k.state # "CONNECTED"
  BY <1>1, <1>3 DEF Connect, Set, Goto
<1> HIDE DEF k, k2
<1>5. MAX_TRIES \in Nat
  BY MinisocketAssumption
<1>6. Side(s)'
  BY <1>1, <1>2, <1>3, <1>4, <1>5
  DEF k, k2, Side, Trying, Numbered, Sliced, Alarmed, Opening, Sending, Closing, Established
<1>7. Paces(s)
  <2>1. Answered(s)' => k.seq <= 1 /\ Acked(Peer(s))
    BY <1>1, <1>3, <1>4
    DEF k, k2, Answered, Side, Numbered, Sliced, Met, Sending, Closing, Established
  <2> QED
    BY <1>1, <1>4, <2>1 DEF Paces, k, k2
<1> QED
  BY <1>1, <1>2, <1>4, <1>6, <1>7, OwnStep
  DEF k, k2, Established, Closing, Sending

LEMMA ListenKeepsSInv ==
    ASSUME IInv, IInv', SInv, NEW s \in Sides, ListenWait(s)
    PROVE  SInv'
<1> DEFINE k == socket[s]
           k2 == socket'[s]
<1>1. /\ k \in Sockets /\ k # NULL /\ pc[s] \in {"listen", "listening"} /\ frag[s] \in Nat
      /\ remaining[s] \in Nat /\ remaining \in [Sides -> Nat]
      /\ socket \in [Sides -> Sockets \cup {NULL}] /\ pc \in [Sides -> PC]
      /\ wake_arg \in [Sides -> WakeArgs]
  BY DEF IInv, Typing, InCall, SInv, Side, ListenWait
<1>2. /\ Others(s) /\ net' = net
      /\ frag'[s] = frag[s] /\ remaining'[s] = remaining[s] /\ wake_arg'[s] = wake_arg[s]
  BY <1>1 DEF ListenWait, Others, Set, Goto
<1>3. Side(s) /\ Met(s) /\ k.seq \in Nat /\ k.tries \in Nat /\ MAX_TRIES \in Nat
  BY <1>1, FieldFact, MinisocketAssumption DEF SInv
<1>4. /\ k2 # NULL /\ k2.seq = k.seq /\ k2.ack = k.ack /\ k2.state = k.state /\ k2.tries = k.tries
      /\ k2.buffer = k.buffer /\ k2.buffer_has_stuff = k.buffer_has_stuff
      /\ pc'[s] \in {"listening", "connect_evaluate"}
  <2>1. PICK l : k2 = [k EXCEPT !.listening = l]
    BY <1>1 DEF ListenWait, Set
  <2>2. pc'[s] \in {"listening", "connect_evaluate"}
    BY <1>1 DEF ListenWait, Goto
  <2>3. k2 \in Sockets \cup {NULL}
    BY DEF IInv, Typing
  <2>4. k2 # NULL
    BY <1>1, <2>1, <2>2 DEF IInv, InCall
  <2> QED
    BY <1>1, <2>1, <2>2, <2>4 DEF Sockets
<1> HIDE DEF k, k2
<1>5. Side(s)'
  BY <1>1, <1>2, <1>3, <1>4
  DEF k, k2, Side, Trying, Numbered, Sliced, Alarmed, Opening, Sending, Closing, Established
<1>6. Paces(s)
  BY <1>1, <1>4 DEF k, k2, Paces, Answered
<1> QED
  BY <1>1, <1>2, <1>4, <1>5, <1>6, OwnStep DEF k, k2, Established, Closing, Sending

LEMMA EvaluateKeepsSInv ==
    ASSUME IInv, IInv', SInv, NEW s \in Sides, ConnectEvaluate(s)
    PROVE  SInv'
<1> DEFINE k == socket[s]
           k2 == socket'[s]
<1>1. /\ k \in Sockets /\ k # NULL /\ pc[s] \in {"connect_evaluate"} /\ frag[s] \in Nat
      /\ remaining[s] \in Nat /\ remaining \in [Sides -> Nat]
      /\ socket \in [Sides -> Sockets \cup {NULL}] /\ pc \in [Sides -> PC]
      /\ wake_arg \in [Sides -> WakeArgs]
  BY DEF IInv, Typing, InCall, SInv, Side, ConnectEvaluate
<1>2. /\ Others(s)
      /\ frag'[s] = frag[s] /\ remaining'[s] = remaining[s] /\ wake_arg'[s] = wake_arg[s]
  BY <1>1 DEF ConnectEvaluate, Others, Set, Goto
<1>3. Side(s) /\ Met(s) /\ k.seq \in Nat /\ k.tries \in Nat /\ k.error \in BOOLEAN /\ MAX_TRIES \in Nat
  BY <1>1, FieldFact, MinisocketAssumption DEF SInv
<1> DEFINE tries == IF k.timed_out THEN k.tries + 1 ELSE 0
           over == tries > MAX_TRIES
           m == IF over /\ s = "server" THEN 0 ELSE tries
           st == IF over /\ s = "server" THEN "LISTENING" ELSE k.state
           e == k.error \/ (over /\ s = "client")
<1>4. k2 = [k EXCEPT !.timed_out = FALSE, !.tries = m, !.state = st, !.error = e]
  BY <1>1 DEF ConnectEvaluate, Set
<1>5. /\ m \in Nat /\ m <= MAX_TRIES + 1 /\ e \in BOOLEAN /\ (e \/ m <= MAX_TRIES)
      /\ st = k.state \/ st = "LISTENING"
  BY <1>1, <1>3 DEF Side, Trying, Opening, Sides
<1> HIDE DEF m, e, st, tries
<1>6. /\ k2.seq = k.seq /\ k2.ack = k.ack /\ k2.state = st /\ k2.tries = m
      /\ k2.error = e /\ k2.buffer = k.buffer /\ k2.buffer_has_stuff = k.buffer_has_stuff
      /\ pc'[s] = "connect"
  <2>1. pc'[s] = "connect"
    BY <1>1 DEF ConnectEvaluate, Goto
  <2> QED
    BY <1>1, <1>4, <2>1 DEF Sockets
<1>7. k2 # NULL
  BY <1>6 DEF IInv, InCall
<1>8. \/ net' = net
      \/ \E type \in {"SYN", "SYNACK", "ACK", "FIN"}, n \in Nat :
            /\ send(s, type, n)
            /\ type \in {"ACK", "SYNACK"} => k.ack >= 1
  <2>1. CASE k.timed_out /\ k.state = "CONNECTING"
    <3>1. send(s, IF s = "server" THEN "SYNACK" ELSE "SYN", 0)
      BY <2>1 DEF ConnectEvaluate
    <3>2. s = "server" => k.ack >= 1
      BY <1>1, <1>3, <2>1 DEF Side, Numbered
    <3> QED
      BY <3>1, <3>2
  <2> QED
    BY <2>1 DEF ConnectEvaluate
<1> HIDE DEF k, k2
<1>9. Side(s)'
  BY <1>1, <1>2, <1>3, <1>5, <1>6
  DEF k, k2, Side, Trying, Numbered, Sliced, Alarmed, Opening, Sending, Closing, Established
<1>10. Paces(s)
  BY <1>1, <1>6 DEF k, k2, Paces, Answered
<1> QED
  BY <1>1, <1>2, <1>5, <1>6, <1>7, <1>8, <1>9, <1>10, OwnStep DEF k, k2, Established, Closing, Sending

LEMMA WaitKeepsSInv ==
    ASSUME IInv, IInv', SInv, NEW s \in Sides, Wait(s)
    PROVE  SInv'
<1> DEFINE k == socket[s]
           k2 == socket'[s]
<1>1. /\ k \in Sockets /\ k # NULL /\ pc[s] \in {"connect_wait", "send_wait", "close_wait"} /\ frag[s] \in Nat
      /\ remaining[s] \in Nat /\ remaining \in [Sides -> Nat]
      /\ socket \in [Sides -> Sockets \cup {NULL}] /\ pc \in [Sides -> PC]
      /\ wake_arg \in [Sides -> WakeArgs]
  BY DEF IInv, Typing, InCall, SInv, Side, Wait, Waits
<1>2. /\ Others(s) /\ net' = net /\ k2 = k
      /\ frag'[s] = frag[s] /\ remaining'[s] = remaining[s]
  BY <1>1 DEF Wait, Others, Goto
<1>3. Side(s) /\ k.seq \in Nat /\ k.tries \in Nat /\ MAX_TRIES \in Nat
  BY <1>1, FieldFact, MinisocketAssumption DEF SInv
<1>4. wake_arg[s] = NoArg /\ NoArg.sema = 0
  BY <1>1, <1>3 DEF Side, Alarmed, NoArg
<1>5. \/ /\ wake_arg'[s].sema = 0
         /\ \/ pc[s] = "connect_wait" /\ pc'[s] = "connect_blocked"
            \/ pc[s] = "send_wait" /\ pc'[s] = "send_blocked"
            \/ pc[s] = "close_wait" /\ pc'[s] = "close_blocked"
      \/ /\ ~wait_blocks /\ wake_arg'[s] = NoArg
         /\ \/ pc[s] = "connect_wait" /\ pc'[s] = "connect_evaluate"
            \/ pc[s] = "send_wait" /\ pc'[s] = "send_evaluate"
            \/ pc[s] = "close_wait" /\ pc'[s] = "close_evaluate"
  BY <1>1, <1>4 DEF Wait, Goto, Blocked, Evaluate, WakeArgs
<1> HIDE DEF k, k2
<1>6. Side(s)'
  <2>1. Alarmed(pc'[s], wake_arg'[s])
    BY <1>5 DEF Alarmed, One
  <2> QED
    BY <1>1, <1>2, <1>3, <1>5, <2>1
    DEF k, k2, Side, Trying, Numbered, Sliced, Opening, Sending, Closing, Established
<1>7. Paces(s)
  BY <1>1, <1>2, <1>5 DEF k, k2, Paces, Answered
<1> QED
  BY <1>1, <1>2, <1>5, <1>6, <1>7, OwnStep DEF k, k2, Established, Closing, Sending

LEMMA WokenKeepsSInv ==
    ASSUME IInv, IInv', SInv, NEW s \in Sides, Woken(s)
    PROVE  SInv'
<1> DEFINE k == socket[s]
           k2 == socket'[s]
<1>1. /\ k \in Sockets /\ k # NULL /\ pc[s] \in {"connect_blocked", "send_blocked", "close_blocked"} /\ frag[s] \in Nat
      /\ remaining[s] \in Nat /\ remaining \in [Sides -> Nat]
      /\ socket \in [Sides -> Sockets \cup {NULL}] /\ pc \in [Sides -> PC]
      /\ wake_arg \in [Sides -> WakeArgs]
  BY DEF IInv, Typing, InCall, SInv, Side, Woken, Waits, Blocked
<1>2. /\ Others(s) /\ net' = net /\ k2 = k
      /\ frag'[s] = frag[s] /\ remaining'[s] = remaining[s]
  BY <1>1 DEF Woken, Others, Goto
<1>3. Side(s) /\ k.seq \in Nat /\ k.tries \in Nat /\ MAX_TRIES \in Nat
  BY <1>1, FieldFact, MinisocketAssumption DEF SInv
<1>4. /\ wake_arg'[s] = NoArg /\ wake_arg[s].sema > 0
      /\ \/ pc[s] = "connect_blocked" /\ pc'[s] = "connect_evaluate"
         \/ pc[s] = "send_blocked" /\ pc'[s] = "send_evaluate"
         \/ pc[s] = "close_blocked" /\ pc'[s] = "close_evaluate"
  BY <1>1 DEF Woken, Goto, Waits, Blocked, Evaluate
<1> HIDE DEF k, k2
<1>5. Side(s)'
  <2>1. Alarmed(pc'[s], wake_arg'[s])
    BY <1>4 DEF Alarmed
  <2> QED
    BY <1>1, <1>2, <1>3, <1>4, <2>1
    DEF k, k2, Side, Trying, Numbered, Sliced, Opening, Sending, Closing, Established
<1>6. Paces(s)
  BY <1>1, <1>2, <1>4 DEF k, k2, Paces, Answered
<1> QED
  BY <1>1, <1>2, <1>4, <1>5, <1>6, OwnStep DEF k, k2, Established, Closing, Sending

LEMMA DequeueKeepsSInv ==
    ASSUME IInv, IInv', SInv, NEW s \in Sides, AlarmDequeue(s)
    PROVE  SInv'
<1> DEFINE k == socket[s]
           k2 == socket'[s]
<1>1. /\ k \in Sockets /\ k # NULL /\ pc[s] \in {"connect_blocked", "send_blocked", "close_blocked"} /\ frag[s] \in Nat
      /\ remaining[s] \in Nat /\ remaining \in [Sides -> Nat] /\ frag \in [Sides -> Nat]
      /\ socket \in [Sides -> Sockets \cup {NULL}] /\ pc \in [Sides -> PC]
      /\ wake_arg \in [Sides -> WakeArgs]
  BY DEF IInv, Typing, InCall, SInv, Side, AlarmDequeue
<1>2. Side(s) /\ Met(s) /\ k.seq \in Nat /\ k.tries \in Nat /\ MAX_TRIES \in Nat /\ MaxData[s] \in Nat
      /\ k.timed_out \in BOOLEAN
  BY <1>1, FieldFact, MinisocketAssumption DEF SInv, Sides
<1>3. /\ Others(s) /\ net' = net /\ k2 = k /\ pc'[s] = pc[s]
      /\ frag'[s] = frag[s] /\ remaining'[s] = remaining[s]
      /\ wake_arg'[s].sema = wake_arg[s].sema /\ wake_arg'[s].queued = wake_arg[s].queued
      /\ wake_arg[s].alarm # "none"
  BY <1>1 DEF AlarmDequeue, Others, threadVars, WakeArgs
<1> HIDE DEF k, k2
<1>4. Side(s)'
  <2>1. Alarmed(pc'[s], wake_arg'[s])
    <3>1. One(wake_arg'[s].alarm # "none") = 1 /\ One(wake_arg[s].alarm # "none") = 1
      BY <1>1, <1>3 DEF AlarmDequeue, WakeArgs, One
    <3> QED
      BY <1>1, <1>2, <1>3, <3>1 DEF Side, Alarmed
  <2> QED
    BY <1>1, <1>2, <1>3, <2>1 DEF k, k2, Side, Trying, Numbered, Sliced, Opening, Sending, Closing, Established
<1>5. Paces(s)
  BY <1>1, <1>3 DEF k, k2, Paces, Answered
<1> QED
  BY <1>1, <1>3, <1>4, <1>5, OwnStep DEF k, k2, Established, Closing, Sending

LEMMA TimeoutKeepsSInv ==
    ASSUME IInv, IInv', SInv, NEW s \in Sides, wake_from_timeout(s)
    PROVE  SInv'
<1> DEFINE k == socket[s]
           k2 == socket'[s]
<1>1. /\ k \in Sockets /\ k # NULL /\ pc[s] \in {"connect_blocked", "send_blocked", "close_blocked"} /\ frag[s] \in Nat
      /\ remaining[s] \in Nat /\ remaining \in [Sides -> Nat] /\ frag \in [Sides -> Nat]
      /\ socket \in [Sides -> Sockets \cup {NULL}] /\ pc \in [Sides -> PC]
      /\ wake_arg \in [Sides -> WakeArgs]
  BY DEF IInv, Typing, InCall, SInv, Side, wake_from_timeout
<1>2. Side(s) /\ Met(s) /\ k.seq \in Nat /\ k.tries \in Nat /\ MAX_TRIES \in Nat /\ MaxData[s] \in Nat
      /\ k.timed_out \in BOOLEAN
  BY <1>1, FieldFact, MinisocketAssumption DEF SInv, Sides
<1>3. /\ Others(s) /\ net' = net /\ pc'[s] = pc[s]
      /\ frag'[s] = frag[s] /\ remaining'[s] = remaining[s]
      /\ wake_arg'[s].sema = wake_arg[s].sema + 1 /\ wake_arg'[s].queued = wake_arg[s].queued
      /\ wake_arg[s].alarm = "taken" /\ wake_arg'[s].alarm = "none"
  BY <1>1 DEF wake_from_timeout, Others, Set, threadVars, WakeArgs
<1>4. /\ k2.seq = k.seq /\ k2.ack = k.ack /\ k2.state = k.state /\ k2.tries = k.tries
      /\ k2.buffer = k.buffer /\ k2.buffer_has_stuff = k.buffer_has_stuff /\ k2.timed_out = TRUE
  BY <1>1 DEF wake_from_timeout, Set, Sockets
<1>5. k2 # NULL
  BY <1>1, <1>3 DEF IInv, InCall
<1> HIDE DEF k, k2
<1>6. Side(s)'
  <2>1. Alarmed(pc'[s], wake_arg'[s])
    <3>1. One(wake_arg'[s].alarm # "none") = 0 /\ One(wake_arg[s].alarm # "none") = 1
      BY <1>3 DEF One
    <3>2. wake_arg[s].sema \in Nat /\ One(wake_arg[s].queued) \in Nat
      BY <1>1 DEF WakeArgs, One
    <3>3. One(wake_arg'[s].queued) = One(wake_arg[s].queued)
      BY <1>3
    <3> QED
      BY <1>1, <1>2, <1>3, <3>1, <3>2, <3>3 DEF Side, Alarmed
  <2> QED
    BY <1>1, <1>2, <1>3, <1>4, <2>1 DEF k, k2, Side, Trying, Numbered, Sliced, Opening, Sending, Closing, Established
<1>7. Paces(s)
  BY <1>1, <1>3, <1>4 DEF k, k2, Paces, Answered
<1> QED
  BY <1>1, <1>3, <1>4, <1>5, <1>6, <1>7, OwnStep DEF k, k2, Established, Closing, Sending

LEMMA AbleKeepsSInv ==
    ASSUME IInv, IInv', SInv, NEW s \in Sides, AbleToClose(s)
    PROVE  SInv'
<1> DEFINE k == socket[s]
           k2 == socket'[s]
<1>1. /\ k \in Sockets /\ k # NULL /\ pc[s] \in PC \ {"create"} /\ frag[s] \in Nat
      /\ remaining[s] \in Nat /\ remaining \in [Sides -> Nat] /\ frag \in [Sides -> Nat]
      /\ socket \in [Sides -> Sockets \cup {NULL}] /\ pc \in [Sides -> PC]
      /\ wake_arg \in [Sides -> WakeArgs]
  BY DEF IInv, Typing, InCall, SInv, Side, AbleToClose, NotYet
<1>2. Side(s) /\ Met(s) /\ k.seq \in Nat /\ k.tries \in Nat /\ MAX_TRIES \in Nat /\ MaxData[s] \in Nat
      /\ k.timed_out \in BOOLEAN
  BY <1>1, FieldFact, MinisocketAssumption DEF SInv, Sides
<1>3. /\ Others(s) /\ net' = net /\ pc'[s] = pc[s] /\ wake_arg'[s] = wake_arg[s]
      /\ frag'[s] = frag[s] /\ remaining'[s] = remaining[s]
  BY <1>1 DEF AbleToClose, Others, Set, threadVars
<1>4. /\ k2.seq = k.seq /\ k2.ack = k.ack /\ k2.state = k.state /\ k2.tries = k.tries
      /\ k2.buffer = k.buffer /\ k2.buffer_has_stuff = k.buffer_has_stuff
      /\ k2.timed_out = k.timed_out /\ k2.error = k.error /\ k2 \in Sockets
  BY <1>1 DEF AbleToClose, Set, Sockets
<1>5. k2 # NULL
  BY <1>4, SocketFact
<1> HIDE DEF k, k2
<1>6. Side(s)'
  BY <1>1, <1>2, <1>3, <1>4 DEF k, k2, Side, Trying, Numbered
<1>7. Paces(s)
  BY <1>1, <1>3, <1>4 DEF k, k2, Paces, Answered
<1> QED
  BY <1>1, <1>3, <1>4, <1>5, <1>6, <1>7, OwnStep DEF k, k2, Established, Closing, Sending

LEMMA CountKeepsSInv ==
    ASSUME IInv, IInv', SInv, NEW s \in Sides, SendCount(s)
    PROVE  SInv'
<1> DEFINE k == socket[s]
           k2 == socket'[s]
<1>1. /\ k \in Sockets /\ k # NULL /\ pc[s] \in {"send"} /\ frag[s] \in Nat
      /\ remaining[s] \in Nat /\ remaining \in [Sides -> Nat] /\ frag \in [Sides -> Nat]
      /\ socket \in [Sides -> Sockets \cup {NULL}] /\ pc \in [Sides -> PC]
      /\ wake_arg \in [Sides -> WakeArgs]
  BY DEF IInv, Typing, InCall, SInv, Side, SendCount
<1>2. Side(s) /\ Met(s) /\ k.seq \in Nat /\ k.tries \in Nat /\ MAX_TRIES \in Nat /\ MaxData[s] \in Nat
      /\ k.timed_out \in BOOLEAN
  BY <1>1, FieldFact, MinisocketAssumption DEF SInv, Sides
<1>3. /\ Others(s) /\ net' = net /\ pc'[s] = "send_packet" /\ wake_arg'[s] = wake_arg[s]
      /\ frag'[s] = frag[s] /\ remaining'[s] = remaining[s]
  BY <1>1 DEF SendCount, Others, Set, Goto
<1>4. /\ k2.seq = IF k.tries = 0 THEN k.seq + 1 ELSE k.seq
      /\ k2.ack = k.ack /\ k2.state = k.state /\ k2.tries = k.tries
      /\ k2.buffer = k.buffer /\ k2.buffer_has_stuff = k.buffer_has_stuff
  <2>1. PICK n : n = IF k.tries = 0 THEN k.seq + 1 ELSE k.seq
    OBVIOUS
  <2>2. k2 = [k EXCEPT !.seq = n]
    BY <1>1, <2>1 DEF SendCount, Set
  <2> QED
    BY <1>1, <2>1, <2>2 DEF Sockets
<1>5. k2 # NULL
  BY <1>3 DEF IInv, InCall
<1> HIDE DEF k, k2
<1>6. Side(s)'
  <2>1. Alarmed(pc'[s], wake_arg'[s])
    BY <1>1, <1>2, <1>3 DEF Side, Alarmed
  <2> QED
    BY <1>1, <1>2, <1>3, <1>4, <2>1 DEF k, k2, Side, Trying, Numbered, Sliced, Opening, Sending, Closing, Established
<1>7. Paces(s)
  <2>1. ~Answered(s)'
    BY <1>3 DEF Answered
  <2>2. k.tries = 0 => Answered(s)
    BY <1>1 DEF k, Answered
  <2> QED
    BY <1>1, <1>4, <2>1, <2>2 DEF k, k2, Paces
<1> QED
  BY <1>1, <1>3, <1>4, <1>5, <1>6, <1>7, OwnStep DEF k, k2, Established, Closing, Sending

LEMMA PacketKeepsSInv ==
    ASSUME IInv, IInv', SInv, NEW s \in Sides, SendPacket(s)
    PROVE  SInv'
<1> DEFINE k == socket[s]
           k2 == socket'[s]
<1>1. /\ k \in Sockets /\ k # NULL /\ pc[s] \in {"send_packet"} /\ frag[s] \in Nat
      /\ remaining[s] \in Nat /\ remaining \in [Sides -> Nat] /\ frag \in [Sides -> Nat]
      /\ socket \in [Sides -> Sockets \cup {NULL}] /\ pc \in [Sides -> PC]
      /\ wake_arg \in [Sides -> WakeArgs]
  BY DEF IInv, Typing, InCall, SInv, Side, SendPacket
<1>2. Side(s) /\ Met(s) /\ k.seq \in Nat /\ k.tries \in Nat /\ MAX_TRIES \in Nat /\ MaxData[s] \in Nat
      /\ k.timed_out \in BOOLEAN
  BY <1>1, FieldFact, MinisocketAssumption DEF SInv, Sides
<1>3. /\ Others(s) /\ k2 = k /\ pc'[s] = "send_wait" /\ wake_arg'[s] = wake_arg[s]
      /\ frag'[s] = frag[s] /\ remaining'[s] = remaining[s]
      /\ send(s, "ACK", frag[s])
  BY <1>1 DEF SendPacket, Others, Goto, socketVars
<1>4. k.ack >= 1
  BY <1>1, <1>2 DEF Side, Numbered, Established, Sending
<1> HIDE DEF k, k2
<1>5. Side(s)'
  <2>1. Alarmed(pc'[s], wake_arg'[s])
    BY <1>1, <1>2, <1>3 DEF Side, Alarmed
  <2> QED
    BY <1>1, <1>2, <1>3, <2>1 DEF k, k2, Side, Trying, Numbered, Sliced, Opening, Sending, Closing, Established
<1>6. Paces(s)
  BY <1>1, <1>3 DEF k, k2, Paces, Answered
<1> QED
  BY <1>1, <1>3, <1>4, <1>5, <1>6, OwnStep DEF k, k2, Established, Closing, Sending

LEMMA CallKeepsSInv ==
    ASSUME IInv, IInv', SInv, NEW s \in Sides, SendCall(s)
    PROVE  SInv'
<1> DEFINE k == socket[s]
           k2 == socket'[s]
<1>1. /\ k \in Sockets /\ k # NULL /\ pc[s] \in {"ready"} /\ frag[s] \in Nat
      /\ remaining[s] \in Nat /\ remaining \in [Sides -> Nat] /\ frag \in [Sides -> Nat]
      /\ socket \in [Sides -> Sockets \cup {NULL}] /\ pc \in [Sides -> PC]
      /\ wake_arg \in [Sides -> WakeArgs]
  BY DEF IInv, Typing, InCall, SInv, Side, SendCall
<1>2. Side(s) /\ Met(s) /\ k.seq \in Nat /\ k.tries \in Nat /\ MAX_TRIES \in Nat /\ MaxData[s] \in Nat
      /\ k.timed_out \in BOOLEAN
  BY <1>1, FieldFact, MinisocketAssumption DEF SInv, Sides
<1>3. /\ net' = net /\ k2 = k /\ pc'[s] = "send" /\ wake_arg'[s] = wake_arg[s]
      /\ frag'[s] = frag[s] + 1 /\ remaining'[s] = MaxData[s] - frag[s] /\ frag[s] < MaxData[s]
  BY <1>1 DEF SendCall, Goto, socketVars
<1>4. Others(s)
  <2>1. PICK n \in Nat : n = MaxData[s] - frag[s]
    BY <1>1, <1>2, <1>3
  <2>2. remaining' = [remaining EXCEPT ![s] = n]
    BY <2>1 DEF SendCall
  <2>3. frag' = [frag EXCEPT ![s] = frag[s] + 1]
    BY DEF SendCall
  <2>4. remaining' \in [Sides -> Nat]
    BY <1>1, <2>2
  <2> QED
    BY <1>1, <2>2, <2>3, <2>4 DEF SendCall, Others, Goto, socketVars
<1> HIDE DEF k, k2
<1>5. Side(s)'
  <2>1. Alarmed(pc'[s], wake_arg'[s])
    BY <1>1, <1>2, <1>3 DEF Side, Alarmed
  <2>2. Trying(k2, pc'[s], frag'[s])
    BY <1>1, <1>2, <1>3 DEF k, Side, Trying, Opening, Sending, Closing
  <2>3. Numbered(s, k2, pc'[s], frag'[s])
    BY <1>1, <1>2, <1>3 DEF k, Side, Numbered, Established, Sending, Closing
  <2>4. Sliced(s, pc'[s], frag'[s], remaining'[s]) /\ remaining'[s] \in Nat /\ frag'[s] \in Nat
    BY <1>1, <1>2, <1>3 DEF Side, Sliced, Established, Sending, Closing
  <2> QED
    BY <2>1, <2>2, <2>3, <2>4 DEF k2, Side
<1>6. Paces(s)
  BY <1>1, <1>3 DEF k, k2, Paces, Answered
<1> QED
  BY <1>1, <1>3, <1>4, <1>5, <1>6, OwnStep DEF k, k2, Established, Closing, Sending

LEMMA DoneKeepsSInv ==
    ASSUME IInv, IInv', SInv, NEW s \in Sides, SendEvaluate(s)
    PROVE  SInv'
<1> DEFINE k == socket[s]
           k2 == socket'[s]
<1>1. /\ k \in Sockets /\ k # NULL /\ pc[s] \in {"send_evaluate"} /\ frag[s] \in Nat
      /\ remaining[s] \in Nat /\ remaining \in [Sides -> Nat] /\ frag \in [Sides -> Nat]
      /\ socket \in [Sides -> Sockets \cup {NULL}] /\ pc \in [Sides -> PC]
      /\ wake_arg \in [Sides -> WakeArgs]
  BY DEF IInv, Typing, InCall, SInv, Side, SendEvaluate
<1>2. Side(s) /\ Met(s) /\ k.seq \in Nat /\ k.tries \in Nat /\ MAX_TRIES \in Nat /\ MaxData[s] \in Nat
      /\ k.timed_out \in BOOLEAN
  BY <1>1, FieldFact, MinisocketAssumption DEF SInv, Sides
<1> DEFINE tries == IF k.timed_out THEN k.tries + 1 ELSE 0
           left == IF k.timed_out THEN remaining[s] ELSE remaining[s] - 1
           again == left > 0 /\ tries <= MAX_TRIES
<1>3. /\ k2 = [k EXCEPT !.timed_out = FALSE, !.tries = tries]
      /\ remaining' = [remaining EXCEPT ![s] = IF again THEN left ELSE 0]
      /\ frag' = IF again /\ ~k.timed_out THEN [frag EXCEPT ![s] = frag[s] + 1] ELSE frag
      /\ pc'[s] = IF again THEN "send" ELSE "ready"
      /\ net' = net /\ wake_arg' = wake_arg /\ wait_blocks' = wait_blocks
  BY <1>1 DEF SendEvaluate, Set, Goto
<1>4. \A t \in Sides \ {s} : socket'[t] = socket[t] /\ pc'[t] = pc[t]
  BY <1>1 DEF SendEvaluate, Set, Goto
<1>5. frag[s] >= 1 /\ remaining[s] >= 1 /\ remaining[s] + frag[s] = MaxData[s] + 1
  BY <1>1, <1>2 DEF Side, Sliced, Sending
<1>6. /\ tries \in Nat /\ left \in Nat
      /\ k.timed_out => tries = k.tries + 1 /\ left = remaining[s]
      /\ ~k.timed_out => tries = 0 /\ left = remaining[s] - 1
  BY <1>1, <1>2, <1>5
<1> HIDE DEF tries, left
<1>7. /\ k2.seq = k.seq /\ k2.ack = k.ack /\ k2.state = k.state /\ k2.tries = tries
      /\ k2.buffer = k.buffer /\ k2.buffer_has_stuff = k.buffer_has_stuff
  BY <1>1, <1>3 DEF Sockets
<1>8. k2 # NULL
  BY <1>3 DEF IInv, InCall
<1>9. /\ remaining' \in [Sides -> Nat]
      /\ remaining'[s] = IF again THEN left ELSE 0
      /\ frag'[s] = IF again /\ ~k.timed_out THEN frag[s] + 1 ELSE frag[s]
      /\ \A t \in Sides \ {s} : remaining'[t] = remaining[t] /\ frag'[t] = frag[t]
  <2>1. (IF again THEN left ELSE 0) \in Nat
    BY <1>6
  <2> HIDE DEF again
  <2> QED
    BY <1>1, <1>3, <2>1
<1>10. Others(s)
  BY <1>1, <1>3, <1>4, <1>9 DEF Others
<1> HIDE DEF k, k2
<1>11. k.tries < MAX_TRIES + frag[s] /\ k.seq >= 1 /\ k.seq <= frag[s] + 1 /\ frag[s] <= MaxData[s]
  BY <1>1, <1>2 DEF k, Side, Trying, Numbered, Sliced, Sending
<1>12. Side(s)'
  <2>1. Alarmed(pc'[s], wake_arg'[s])
    BY <1>1, <1>2, <1>3 DEF Side, Alarmed
  <2>2. Trying(k2, pc'[s], frag'[s])
    <3>1. CASE k.timed_out
      BY <1>1, <1>2, <1>3, <1>5, <1>6, <1>7, <1>9, <1>11, <3>1 DEF Trying, Opening, Sending, Closing
    <3>2. CASE ~k.timed_out
      BY <1>1, <1>2, <1>3, <1>6, <1>7, <1>9, <1>11, <3>2 DEF Trying, Opening, Sending, Closing
    <3> QED
      BY <3>1, <3>2
  <2>3. Numbered(s, k2, pc'[s], frag'[s])
    <3>1. /\ k.ack >= 1 /\ k.state \in {"CONNECTED", "CLOSING", "CLOSED"}
          /\ k.buffer_has_stuff = IF k.buffer = <<>> THEN 0 ELSE 1
      BY <1>1, <1>2 DEF k, Side, Numbered, Established, Sending
    <3>2. pc'[s] = "send" /\ tries = 0 => frag'[s] = frag[s] + 1
      BY <1>2, <1>3, <1>6, <1>9
    <3>3. frag'[s] \in Nat /\ frag[s] <= frag'[s] /\ pc'[s] \in {"send", "ready"}
      BY <1>1, <1>3, <1>9
    <3>4. k.seq <= frag'[s] + 1 /\ (pc'[s] = "send" /\ tries = 0 => k.seq <= frag'[s])
      BY <1>1, <1>2, <1>11, <3>2, <3>3
    <3> QED
      BY <1>7, <1>11, <3>1, <3>3, <3>4 DEF Numbered
  <2>4. Sliced(s, pc'[s], frag'[s], remaining'[s])
    <3>1. CASE ~again
      BY <1>1, <1>3, <1>9, <1>11, <3>1 DEF Sliced, Established, Sending, Closing
    <3>2. CASE again
      <4>1. frag'[s] >= 1 /\ left >= 1 /\ left + frag'[s] = MaxData[s] + 1 /\ frag'[s] \in Nat
        BY <1>1, <1>2, <1>5, <1>6, <1>9, <3>2
      <4>2. frag'[s] <= MaxData[s]
        BY <1>2, <1>6, <4>1
      <4> QED
        BY <1>3, <1>9, <3>2, <4>1, <4>2 DEF Sliced, Established, Sending
    <3> QED
      BY <3>1, <3>2
  <2>5. frag'[s] \in Nat /\ remaining'[s] \in Nat
    BY <1>1, <1>9
  <2> QED
    BY <2>1, <2>2, <2>3, <2>4, <2>5 DEF k2, Side
<1>13. Paces(s)
  <2>1. Answered(s)' => tries = 0
    BY <1>3, <1>7 DEF k2, Answered
  <2>2. tries = 0 => Answered(s)
    BY <1>1, <1>2, <1>6 DEF k, Answered
  <2> QED
    BY <1>1, <1>7, <2>1, <2>2 DEF k, k2, Paces
<1> QED
  BY <1>1, <1>3, <1>7, <1>8, <1>10, <1>12, <1>13, OwnStep DEF k, k2, Established, Closing, Sending

LEMMA ReceiveKeepsSInv ==
    ASSUME IInv, IInv', SInv, NEW s \in Sides, Receive(s)
    PROVE  SInv'
<1> DEFINE k == socket[s]
           k2 == socket'[s]
<1>1. /\ k \in Sockets /\ k # NULL /\ pc[s] \in {"receive"} /\ frag[s] \in Nat
      /\ remaining[s] \in Nat /\ remaining \in [Sides -> Nat] /\ frag \in [Sides -> Nat]
      /\ socket \in [Sides -> Sockets \cup {NULL}] /\ pc \in [Sides -> PC]
      /\ wake_arg \in [Sides -> WakeArgs]
  BY DEF IInv, Typing, InCall, SInv, Side, Receive
<1>2. Side(s) /\ Met(s) /\ k.seq \in Nat /\ k.tries \in Nat /\ MAX_TRIES \in Nat /\ MaxData[s] \in Nat
      /\ k.timed_out \in BOOLEAN
  BY <1>1, FieldFact, MinisocketAssumption DEF SInv, Sides
<1>3. /\ Others(s) /\ net' = net /\ pc'[s] = "ready" /\ wake_arg'[s] = wake_arg[s]
      /\ frag'[s] = frag[s] /\ remaining'[s] = remaining[s] /\ k.buffer_has_stuff > 0
  BY <1>1 DEF Receive, Others, Set, Goto
<1>4. k.buffer \in Seq(Nat)
  BY <1>1, FieldFact
<1>5. PICK n \in 0 .. Len(k.buffer) :
         k2 = [k EXCEPT !.buffer = SubSeq(k.buffer, n + 1, Len(k.buffer)),
                        !.buffer_has_stuff = IF n < Len(k.buffer) THEN k.buffer_has_stuff
                                                                  ELSE k.buffer_has_stuff - 1]
  BY <1>1 DEF Receive, Set
<1>6. k.buffer_has_stuff = 1
  BY <1>1, <1>2, <1>3 DEF Side, Numbered
<1> DEFINE b == SubSeq(k.buffer, n + 1, Len(k.buffer))
           m == IF n < Len(k.buffer) THEN k.buffer_has_stuff ELSE k.buffer_has_stuff - 1
<1>7. /\ b \in Seq(Nat) /\ (b = <<>> <=> ~(n < Len(k.buffer)))
  <2>1. PICK l \in Nat, q \in Seq(Nat) : l = Len(q) /\ q = k.buffer
    BY <1>4, LenProperties
  <2>a. n + 1 \in Int /\ \A i \in n + 1 .. l : i \in 1 .. l /\ q[i] \in Nat
    BY <2>1, ElementOfSeq
  <2>b. SubSeq(q, n + 1, l) \in Seq(Nat) /\ Len(SubSeq(q, n + 1, l)) = IF n + 1 <= l THEN l - (n + 1) + 1 ELSE 0
    BY <2>1, <2>a, SubSeqProperties
  <2>2. b \in Seq(Nat) /\ Len(b) = IF n + 1 <= Len(k.buffer) THEN Len(k.buffer) - (n + 1) + 1 ELSE 0
    BY <2>1, <2>b
  <2>3. PICK r \in Seq(Nat) : r = b
    BY <2>2
  <2>4. (r = <<>> <=> Len(r) = 0) /\ Len(r) \in Nat
    BY EmptySeq, LenProperties
  <2>5. Len(r) = IF n + 1 <= l THEN l - (n + 1) + 1 ELSE 0
    BY <2>1, <2>2, <2>3
  <2>6. Len(r) = 0 <=> ~(n < l)
    BY <2>5
  <2> QED
    BY <2>1, <2>3, <2>4, <2>6
<1>8. m = IF b = <<>> THEN 0 ELSE 1
  BY <1>6, <1>7
<1>9. k2 = [k EXCEPT !.buffer = b, !.buffer_has_stuff = m]
  BY <1>5
<1> HIDE DEF b, m
<1>10. /\ k2.seq = k.seq /\ k2.ack = k.ack /\ k2.state = k.state /\ k2.tries = k.tries
       /\ k2.buffer = b /\ k2.buffer_has_stuff = m
  BY <1>1, <1>9 DEF Sockets
<1>11. k2 # NULL
  BY <1>3 DEF IInv, InCall
<1> HIDE DEF k, k2
<1>12. Side(s)'
  <2>1. Alarmed(pc'[s], wake_arg'[s])
    BY <1>1, <1>2, <1>3 DEF Side, Alarmed
  <2> QED
    BY <1>1, <1>2, <1>3, <1>8, <1>10, <2>1 DEF k, k2, Side, Trying, Numbered, Sliced, Opening, Sending, Closing, Established
<1>13. Paces(s)
  BY <1>1, <1>3, <1>10 DEF k, k2, Paces, Answered
<1> QED
  BY <1>1, <1>3, <1>10, <1>11, <1>12, <1>13, OwnStep DEF k, k2, Established, Closing, Sending

LEMMA ReceiveCallKeepsSInv ==
    ASSUME IInv, IInv', SInv, NEW s \in Sides, ReceiveCall(s)
    PROVE  SInv'
<1> DEFINE k == socket[s]
           k2 == socket'[s]
<1>1. /\ k \in Sockets /\ k # NULL /\ pc[s] \in {"ready"} /\ frag[s] \in Nat
      /\ remaining[s] \in Nat /\ remaining \in [Sides -> Nat] /\ frag \in [Sides -> Nat]
      /\ socket \in [Sides -> Sockets \cup {NULL}] /\ pc \in [Sides -> PC]
      /\ wake_arg \in [Sides -> WakeArgs]
  BY DEF IInv, Typing, InCall, SInv, Side, ReceiveCall
<1>2. Side(s) /\ Met(s) /\ k.seq \in Nat /\ k.tries \in Nat /\ MAX_TRIES \in Nat /\ MaxData[s] \in Nat
      /\ k.timed_out \in BOOLEAN
  BY <1>1, FieldFact, MinisocketAssumption DEF SInv, Sides
<1>3. /\ Others(s) /\ net' = net /\ k2 = k /\ pc'[s] = "receive" /\ wake_arg'[s] = wake_arg[s]
      /\ frag'[s] = frag[s] /\ remaining'[s] = remaining[s]
  BY <1>1 DEF ReceiveCall, Others, Goto, socketVars
<1> HIDE DEF k, k2
<1>4. Side(s)'
  <2>1. Alarmed(pc'[s], wake_arg'[s])
    BY <1>1, <1>2, <1>3 DEF Side, Alarmed
  <2> QED
    BY <1>1, <1>2, <1>3, <2>1 DEF k, k2, Side, Trying, Numbered, Sliced, Opening, Sending, Closing, Established
<1>5. Paces(s)
  BY <1>1, <1>3 DEF k, k2, Paces, Answered
<1> QED
  BY <1>1, <1>3, <1>4, <1>5, OwnStep DEF k, k2, Established, Closing, Sending

LEMMA CloseCallKeepsSInv ==
    ASSUME IInv, IInv', SInv, NEW s \in Sides, CloseCall(s)
    PROVE  SInv'
<1> DEFINE k == socket[s]
           k2 == socket'[s]
<1>1. /\ k \in Sockets /\ k # NULL /\ pc[s] \in {"ready"} /\ frag[s] \in Nat
      /\ remaining[s] \in Nat /\ remaining \in [Sides -> Nat] /\ frag \in [Sides -> Nat]
      /\ socket \in [Sides -> Sockets \cup {NULL}] /\ pc \in [Sides -> PC]
      /\ wake_arg \in [Sides -> WakeArgs]
  BY DEF IInv, Typing, InCall, SInv, Side, CloseCall
<1>2. Side(s) /\ Met(s) /\ k.seq \in Nat /\ k.tries \in Nat /\ MAX_TRIES \in Nat /\ MaxData[s] \in Nat
      /\ k.timed_out \in BOOLEAN
  BY <1>1, FieldFact, MinisocketAssumption DEF SInv, Sides
<1>3. /\ Others(s) /\ net' = net /\ wake_arg'[s] = wake_arg[s]
      /\ frag'[s] = frag[s] /\ remaining'[s] = remaining[s]
  BY <1>1 DEF CloseCall, Others, Set, Goto
<1>4. \/ pc'[s] = "done" /\ k2 = k
      \/ pc'[s] = "close" /\ k2 = [k EXCEPT !.state = "CLOSING"]
  BY <1>1 DEF CloseCall, Set, Goto
<1>5. /\ k2.seq = k.seq /\ k2.ack = k.ack /\ k2.state \in {k.state, "CLOSING"} /\ k2.tries = k.tries
      /\ k2.buffer = k.buffer /\ k2.buffer_has_stuff = k.buffer_has_stuff /\ k2 \in Sockets
  BY <1>1, <1>4 DEF Sockets, States
<1>6. k2 # NULL
  BY <1>5, SocketFact
<1> HIDE DEF k, k2
<1>7. Side(s)'
  <2>1. Alarmed(pc'[s], wake_arg'[s])
    BY <1>1, <1>2, <1>3, <1>4 DEF Side, Alarmed
  <2> QED
    BY <1>1, <1>2, <1>3, <1>4, <1>5, <2>1 DEF k, k2, Side, Trying, Numbered, Sliced, Opening, Sending, Closing, Established
<1>8. Paces(s)
  BY <1>1, <1>3, <1>4, <1>5 DEF k, k2, Paces, Answered
<1> QED
  BY <1>1, <1>3, <1>4, <1>5, <1>6, <1>7, <1>8, OwnStep DEF k, k2, Established, Closing, Sending

LEMMA CloseKeepsSInv ==
    ASSUME IInv, IInv', SInv, NEW s \in Sides, Close(s)
    PROVE  SInv'
<1> DEFINE k == socket[s]
           k2 == socket'[s]
<1>1. /\ k \in Sockets /\ k # NULL /\ pc[s] \in {"close"} /\ frag[s] \in Nat
      /\ remaining[s] \in Nat /\ remaining \in [Sides -> Nat] /\ frag \in [Sides -> Nat]
      /\ socket \in [Sides -> Sockets \cup {NULL}] /\ pc \in [Sides -> PC]
      /\ wake_arg \in [Sides -> WakeArgs]
  BY DEF IInv, Typing, InCall, SInv, Side, Close
<1>2. Side(s) /\ Met(s) /\ k.seq \in Nat /\ k.tries \in Nat /\ MAX_TRIES \in Nat /\ MaxData[s] \in Nat
      /\ k.timed_out \in BOOLEAN
  BY <1>1, FieldFact, MinisocketAssumption DEF SInv, Sides
<1>3. /\ Others(s) /\ wake_arg'[s] = wake_arg[s]
      /\ frag'[s] = frag[s] /\ remaining'[s] = remaining[s]
  BY <1>1 DEF Close, Others, Set, Goto
<1>4. \/ pc'[s] = "done" /\ k2 = NULL /\ net' = net
      \/ pc'[s] = "close_wait" /\ k2 = k /\ k.tries <= MAX_TRIES /\ send(s, "FIN", 0)
  BY <1>1 DEF Close, Set, Goto
<1> HIDE DEF k, k2
<1>5. Side(s)'
  <2>1. Alarmed(pc'[s], wake_arg'[s])
    BY <1>1, <1>2, <1>3, <1>4 DEF Side, Alarmed
  <2> QED
    BY <1>1, <1>2, <1>3, <1>4, <2>1 DEF k, k2, Side, Trying, Numbered, Sliced, Opening, Sending, Closing, Established
<1>6. Paces(s)
  BY <1>1, <1>3, <1>4 DEF k, k2, Paces, Answered
<1>7. \/ net' = net
      \/ k2 = k /\ \E type \in {"SYN", "SYNACK", "ACK", "FIN"}, n \in Nat :
           send(s, type, n) /\ type = "FIN"
  BY <1>4
<1> QED
  BY <1>1, <1>3, <1>4, <1>5, <1>6, <1>7, OwnStep DEF k, k2, Established, Closing, Sending

LEMMA CloseEvaluateKeepsSInv ==
    ASSUME IInv, IInv', SInv, NEW s \in Sides, CloseEvaluate(s)
    PROVE  SInv'
<1> DEFINE k == socket[s]
           k2 == socket'[s]
<1>1. /\ k \in Sockets /\ k # NULL /\ pc[s] \in {"close_evaluate"} /\ frag[s] \in Nat
      /\ remaining[s] \in Nat /\ remaining \in [Sides -> Nat] /\ frag \in [Sides -> Nat]
      /\ socket \in [Sides -> Sockets \cup {NULL}] /\ pc \in [Sides -> PC]
      /\ wake_arg \in [Sides -> WakeArgs]
  BY DEF IInv, Typing, InCall, SInv, Side, CloseEvaluate
<1>2. Side(s) /\ Met(s) /\ k.seq \in Nat /\ k.tries \in Nat /\ MAX_TRIES \in Nat /\ MaxData[s] \in Nat
      /\ k.timed_out \in BOOLEAN
  BY <1>1, FieldFact, MinisocketAssumption DEF SInv, Sides
<1>3. /\ Others(s) /\ net' = net /\ wake_arg'[s] = wake_arg[s] /\ pc'[s] = "close"
      /\ frag'[s] = frag[s] /\ remaining'[s] = remaining[s]
  BY <1>1 DEF CloseEvaluate, Others, Set, Goto
<1>4. PICK m : m = IF k.timed_out THEN k.tries + 1 ELSE k.tries
  OBVIOUS
<1>5. k2 = [k EXCEPT !.timed_out = FALSE, !.tries = m]
  BY <1>1, <1>4 DEF CloseEvaluate, Set
<1>6. /\ k2.seq = k.seq /\ k2.ack = k.ack /\ k2.state = k.state /\ k2.tries = m
      /\ k2.buffer = k.buffer /\ k2.buffer_has_stuff = k.buffer_has_stuff
  BY <1>1, <1>5 DEF Sockets
<1>7. k2 # NULL
  BY <1>3 DEF IInv, InCall
<1> HIDE DEF k, k2
<1>8. Side(s)'
  <2>1. Alarmed(pc'[s], wake_arg'[s])
    BY <1>1, <1>2, <1>3 DEF Side, Alarmed
  <2> QED
    BY <1>1, <1>2, <1>3, <1>4, <1>6, <2>1 DEF k, k2, Side, Trying, Numbered, Sliced, Opening, Sending, Closing, Established
<1>9. Paces(s)
  BY <1>1, <1>3, <1>6 DEF k, k2, Paces, Answered
<1> QED
  BY <1>1, <1>3, <1>6, <1>7, <1>8, <1>9, OwnStep DEF k, k2, Established, Closing, Sending

(* What an answer puts on the way.                                          *)
LEMMA AnswerOn ==
    ASSUME Typing, NEW s \in Sides, net[s] # <<>>, NEW type, NEW k,
           type = "none" \/ (type \in {"SYN", "SYNACK", "ACK", "FIN"} /\ k \in Sockets),
           Answer(s, k, type)
    PROVE  /\ \A p : On(net'[s], p) => On(net[s], p)
           /\ \A p : On(net'[Peer(s)], p) =>
                 \/ On(net[Peer(s)], p)
                 \/ type # "none" /\ p.type = type /\ p.seq = k.seq /\ p.ack = k.ack
<1> DEFINE o == Peer(s)
           x == Packet(k, type, 0)
           q == net[o]
           t == Tail(net[s])
           r == IF type = "none" THEN q ELSE Sent(q, x)
<1>1. o \in Sides /\ o # s
  BY SidesFact
<1>2. type # "none" => x \in Packets /\ x.type = type /\ x.seq = k.seq /\ x.ack = k.ack
  BY FieldFact DEF Packet, Packets
<1>3. q \in Seq(Packets) /\ net[s] \in Seq(Packets)
  BY <1>1 DEF Typing
<1>4. \A p : On(t, p) => On(net[s], p)
  BY <1>3, OnFact
<1>5. net' = [net EXCEPT ![s] = t, ![o] = r]
  BY <1>1 DEF Answer
<1> HIDE DEF o, x, q, t
<1>6. r = q \/ (type # "none" /\ r = Append(q, x))
  BY DEF Sent
<1>7. \A p : On(r, p) => On(q, p) \/ (type # "none" /\ p = x)
  <2>1. type # "none" => \A p : On(Append(q, x), p) => On(q, p) \/ p = x
    BY <1>2, <1>3, OnFact
  <2> QED
    BY <1>6, <2>1
<1> HIDE DEF r
<1>8. net'[s] = t /\ net'[o] = r
  BY <1>1, <1>5 DEF Typing
<1> QED
  BY <1>2, <1>4, <1>7, <1>8 DEF q, o

(* The packet p in front is handled: k becomes k2, which answers.           *)
LEMMA HandleStepKeepsSInv ==
    ASSUME IInv, IInv', SInv, NEW s \in Sides, net[s] # <<>>, socket[s] \in Sockets,
           NEW p \in Packets, p = Head(net[s]),
           NEW k2 \in Sockets, socket' = [socket EXCEPT ![s] = k2],
           k2.seq = socket[s].seq, k2.tries = socket[s].tries, k2.error = socket[s].error,
           \/ k2.ack = socket[s].ack /\ k2.state = socket[s].state
           \/ k2.ack = p.seq,
           \/ k2.state = socket[s].state
           \/ socket[s].state = "LISTENING" /\ k2.state = "CONNECTING"
           \/ socket[s].state = "CONNECTING" /\ k2.state = "CONNECTED" /\ p.type \in {"SYNACK", "ACK"}
           \/ socket[s].state \in {"CONNECTED", "CLOSING"} /\ k2.state \in {"CLOSING", "CLOSED"},
           k2.buffer_has_stuff = IF k2.buffer = <<>> THEN 0 ELSE 1,
           \/ k2.timed_out = socket[s].timed_out /\ wake_arg' = wake_arg
           \/ /\ wake_arg' = wake_arg \/ wake_from_packet(s)
              /\ \/ socket[s].state \in {"LISTENING", "CONNECTING"}
                 \/ frag[Peer(s)] = 0 => p.ack = socket[s].seq,
           NEW type \in {"none", "SYN", "SYNACK", "ACK", "FIN"}, Answer(s, k2, type),
           type \in {"ACK", "SYNACK"} => k2.ack >= 1,
           UNCHANGED <<wait_blocks, pc, remaining, frag>>
    PROVE  SInv'
<1> DEFINE k == socket[s]
<1>1. /\ Typing /\ k # NULL /\ k2 # NULL /\ frag[s] \in Nat /\ remaining \in [Sides -> Nat]
      /\ socket \in [Sides -> Sockets \cup {NULL}] /\ wake_arg \in [Sides -> WakeArgs]
      /\ net[s] \in Seq(Packets)
      /\ k.seq \in Nat /\ k.ack \in Nat /\ k.tries \in Nat /\ p.seq \in Nat /\ p.ack \in Nat
      /\ k2.seq \in Nat /\ k2.ack \in Nat
  BY SocketFact, FieldFact DEF IInv, Typing, SInv, Packets
<1>2. Side(s) /\ Sound(s) /\ Met(s) /\ Peer(s) \in Sides /\ Peer(s) # s
  BY SidesFact DEF SInv
<1>3. On(net[s], p)
  BY <1>1, OnFact
<1>4. Good(s, p)
  BY <1>2, <1>3 DEF Sound
<1>5. k.ack <= p.seq
  <2>1. Ahead(net[s], k, buffered[s])
    BY DEF IInv, ChanTo, Chan
  <2>2. 1 \in 1 .. Len(net[s]) /\ net[s][1] = p
    BY <1>1, Elements
  <2> QED
    BY <1>1, <2>1, <2>2 DEF Ahead
<1>6. socket'[s] = k2 /\ pc'[s] = pc[s] /\ frag'[s] = frag[s] /\ remaining'[s] = remaining[s]
  BY <1>1
<1>7. /\ \A t \in Sides \ {s} : wake_arg'[t] = wake_arg[t]
      /\ Alarmed(pc[s], wake_arg'[s])
  <2>1. CASE wake_arg' = wake_arg
    BY <1>2, <2>1 DEF Side
  <2>2. CASE wake_from_packet(s) /\ wake_arg' # wake_arg
    <3>1. wake_arg[s].queued /\ wake_arg' = [wake_arg EXCEPT ![s].queued = FALSE, ![s].sema = @ + 1]
      BY <2>2 DEF wake_from_packet
    <3>2. wake_arg'[s].queued = FALSE /\ wake_arg'[s].sema = wake_arg[s].sema + 1
          /\ wake_arg'[s].alarm = wake_arg[s].alarm /\ wake_arg[s].sema \in Nat
      BY <1>1, <3>1 DEF WakeArgs
    <3>3. wake_arg[s] # NoArg
      BY <3>1 DEF NoArg
    <3>4. /\ pc[s] \in {"connect_blocked", "send_blocked", "close_blocked"}
          /\ wake_arg[s].sema + One(wake_arg[s].alarm # "none") + One(wake_arg[s].queued) <= 2
      BY <1>2, <3>3 DEF Side, Alarmed
    <3>5. One(wake_arg[s].queued) = 1 /\ One(wake_arg'[s].queued) = 0
          /\ One(wake_arg[s].alarm # "none") \in Nat
          /\ One(wake_arg'[s].alarm # "none") = One(wake_arg[s].alarm # "none")
      BY <3>1, <3>2 DEF One
    <3>6. Alarmed(pc[s], wake_arg'[s])
      BY <3>2, <3>4, <3>5 DEF Alarmed
    <3> QED
      BY <1>1, <3>1, <3>6
  <2> QED
    BY <2>1, <2>2
<1>8. Others(s)
  BY <1>1, <1>7 DEF Others
<1>9. Sends(s)
  <2>1. type = "none" \/ (type \in {"SYN", "SYNACK", "ACK", "FIN"} /\ k2 \in Sockets)
    OBVIOUS
  <2>2. /\ \A x : On(net'[s], x) => On(net[s], x)
        /\ \A x : On(net'[Peer(s)], x) =>
              \/ On(net[Peer(s)], x)
              \/ type # "none" /\ x.type = type /\ x.seq = k2.seq /\ x.ack = k2.ack
    <3> HIDE DEF k
    <3>1. Typing
      BY <1>1
    <3> QED
      BY <2>1, <3>1, AnswerOn
  <2> QED
    BY <1>1, <1>6, <2>2 DEF Sends
<1>10. Acks(s)
  <2>1. pc[s] # "create"
    BY <1>1 DEF IInv, NotYet
  <2> QED
    BY <1>1, <1>3, <1>5, <1>6, <2>1 DEF Acks
<1>11. k2.ack >= 1 \/ (k2.ack = k.ack /\ k2.state = k.state)
  BY <1>4 DEF Good
<1> HIDE DEF k
<1>12. Side(s)'
  <2>1. Trying(k2, pc[s], frag[s])
    BY <1>1, <1>2 DEF k, Side, Trying
  <2>2. Numbered(s, k2, pc[s], frag[s])
    BY <1>1, <1>2, <1>5, <1>11 DEF k, Side, Numbered
  <2> QED
    BY <1>1, <1>2, <1>6, <1>7, <2>1, <2>2 DEF Side
<1>13. Met(s)'
  <2>1. Acked(Peer(s))' = Acked(Peer(s))
    BY <1>2, <1>8 DEF Others, Acked
  <2>2. k2.state = "CONNECTED" => Acked(Peer(s))
    <3>1. CASE k.state = "CONNECTED"
      BY <1>1, <1>2, <3>1 DEF k, Met
    <3>2. CASE k.state # "CONNECTED"
      BY <1>4, <3>2 DEF k, Good
    <3> QED
      BY <3>1, <3>2
  <2> QED
    BY <1>2, <1>6, <2>1, <2>2 DEF Met
<1>14. Paces(s)
  <2> SUFFICES ASSUME frag[Peer(s)] = 0, Answered(s)'
               PROVE  Answered(s) \/ p.ack = k.seq
    BY <1>1, <1>3, <1>6 DEF Paces, k
  <2>1. CASE k2.timed_out = k.timed_out /\ wake_arg' = wake_arg
    BY <1>6, <2>1 DEF k, Answered
  <2>2. CASE k.state \in {"LISTENING", "CONNECTING"}
    <3>1. pc[s] \notin Established
      BY <1>1, <1>2, <2>2 DEF k, Side, Numbered
    <3> QED
      BY <1>6, <3>1 DEF Answered, Established, Sending
  <2> QED
    BY <2>1, <2>2 DEF k
<1> QED
  BY <1>8, <1>9, <1>10, <1>12, <1>13, <1>14, StepKeepsSInv DEF Step

(* Packets may get lost or come again.                                      *)
LEMMA NetKeepsSInv ==
    ASSUME SInv, \A t \in Sides : \A p : On(net'[t], p) => On(net[t], p),
           UNCHANGED <<wait_blocks, socket, pc, wake_arg, remaining, frag>>
    PROVE  SInv'
<1> SUFFICES ASSUME NEW s \in Sides
             PROVE  Side(s)' /\ Sound(s)' /\ Met(s)' /\ Paced(s)'
  BY DEF SInv
<1>1. Side(s)' /\ Met(s)' /\ Paced(s)'
  BY DEF SInv, Side, Met, Acked, Paced, Answered
<1>2. \A p : Good(s, p)' = Good(s, p)
  BY DEF Good, Acked
<1>3. Sound(s)'
  BY <1>2 DEF SInv, Sound
<1> QED
  BY <1>1, <1>3

LEMMA HandleKeepsSInv ==
    ASSUME IInv, IInv', SInv, NEW s \in Sides, minisocket_handle_incoming_packet(s)
    PROVE  SInv'
<1>1. /\ Typing /\ net[s] # <<>> /\ net[s] \in Seq(Packets) /\ socket[s] \in Sockets \cup {NULL}
      /\ UNCHANGED <<wait_blocks, pc, remaining, frag>>
  BY DEF IInv, Typing, minisocket_handle_incoming_packet, threadVars
<1>2. PICK p \in Packets : p = Head(net[s])
  BY <1>1, Elements
<1>3. /\ Side(s) /\ Sound(s) /\ On(net[s], p) /\ Good(s, p)
      /\ p.seq \in Nat /\ p.seq >= 1 /\ p.ack \in Nat
  BY <1>1, <1>2, OnFact DEF SInv, Sound, Good, Packets
<1>4. CASE HandleRefused(s, p)
  <2>1. UNCHANGED <<socket, wake_arg>>
    BY <1>4 DEF HandleRefused, socketVars
  <2>2. CASE socket[s] = NULL /\ Answer(s, NULL, "none")
    <3>1. /\ \A x : On(net'[s], x) => On(net[s], x)
          /\ \A x : On(net'[Peer(s)], x) => On(net[Peer(s)], x)
      BY <1>1, <2>2, AnswerOn
    <3> QED
      BY <1>1, <2>1, <3>1, SidesFact, NetKeepsSInv
  <2>3. CASE socket[s] # NULL /\ ~Expected(socket[s], p) /\ Answer(s, socket[s], "ACK")
    <3> DEFINE k == socket[s]
    <3>1. k \in Sockets /\ socket' = [socket EXCEPT ![s] = k] /\ k.ack \in Nat
      BY <1>1, <2>1, <2>3, FieldFact DEF Typing
    <3>2. k.ack >= 1
      <4> SUFFICES ASSUME k.ack = 0
                   PROVE  FALSE
        BY <3>1
      <4>1. p.seq = 1
        BY <1>3, <2>3 DEF Good, Acked
      <4> QED
        BY <2>3, <4>1 DEF Expected
    <3>3. k.buffer_has_stuff = IF k.buffer = <<>> THEN 0 ELSE 1
      BY <1>3, <2>3 DEF Side, Numbered
    <3>4. Answer(s, k, "ACK")
      BY <2>3
    <3> HIDE DEF k
    <3>5. k = socket[s]
      BY DEF k
    <3> QED
      BY <1>1, <1>2, <2>1, <3>1, <3>2, <3>3, <3>4, <3>5, HandleStepKeepsSInv
  <2> QED
    BY <1>4, <2>2, <2>3 DEF HandleRefused
<1>5. CASE /\ socket[s] # NULL
           /\ Expected(socket[s], p)
           /\ LET k == Acknowledged(socket[s], p) IN
              \/ HandleSyn(s, k, p) \/ HandleConnected(s, k, p) \/ HandleData(s, k, p)
              \/ HandleSynAck(s, k, p) \/ HandleFin(s, k, p) \/ HandleFinAck(s, k, p)
              \/ HandleNothing(s, k, p)
  <2>1. PICK k0 \in Sockets : k0 = socket[s]
    BY <1>1, <1>5
  <2>2. PICK k \in Sockets :
           /\ k = Acknowledged(socket[s], p)
           /\ k.ack = p.seq /\ k.seq = k0.seq /\ k.tries = k0.tries /\ k.error = k0.error
           /\ k.state = k0.state /\ k.timed_out = k0.timed_out
           /\ k.buffer = k0.buffer /\ k.buffer_has_stuff = k0.buffer_has_stuff
    <3>1. /\ [k0 EXCEPT !.ack = p.seq] \in Sockets
      BY <1>3, <2>1 DEF Sockets
    <3> QED
      BY <2>1, <3>1 DEF Acknowledged, Sockets
  <2>3. \/ HandleSyn(s, k, p) \/ HandleConnected(s, k, p) \/ HandleData(s, k, p)
        \/ HandleSynAck(s, k, p) \/ HandleFin(s, k, p) \/ HandleFinAck(s, k, p)
        \/ HandleNothing(s, k, p)
    BY <1>5, <2>2
  <2>4. /\ k0.buffer_has_stuff = IF k0.buffer = <<>> THEN 0 ELSE 1
        /\ k0.seq \in Nat /\ k0.ack \in Nat /\ k.buffer \in Seq(Nat) /\ k.buffer_has_stuff \in Nat
        /\ k0.state = "CONNECTED" => k0.ack >= 1
    BY <1>3, <1>5, <2>1, <2>2, FieldFact DEF Side, Numbered
  (* What the cases have in common.                                         *)
  <2>5. ASSUME NEW k2 \in Sockets, Set(s, k2),
               k2.ack = k.ack, k2.seq = k.seq, k2.tries = k.tries, k2.error = k.error,
               \/ k2.state = k.state
               \/ k.state = "LISTENING" /\ k2.state = "CONNECTING"
               \/ k.state = "CONNECTING" /\ k2.state = "CONNECTED" /\ p.type \in {"SYNACK", "ACK"}
               \/ k.state \in {"CONNECTED", "CLOSING"} /\ k2.state \in {"CLOSING", "CLOSED"},
               k2.buffer_has_stuff = IF k2.buffer = <<>> THEN 0 ELSE 1,
               \/ k2.timed_out = k.timed_out /\ wake_arg' = wake_arg
               \/ /\ wake_arg' = wake_arg \/ wake_from_packet(s)
                  /\ \/ k.state \in {"LISTENING", "CONNECTING"}
                     \/ frag[Peer(s)] = 0 => p.ack = k.seq,
               NEW type \in {"none", "SYN", "SYNACK", "ACK", "FIN"}, Answer(s, k, type)
        PROVE  SInv'
    <3>1. Answer(s, k2, type)
      BY <2>5 DEF Answer, Packet
    <3>2. socket' = [socket EXCEPT ![s] = k2] /\ socket[s] \in Sockets
      BY <2>1, <2>5 DEF Set
    <3>3. k2.ack = p.seq /\ k2.ack >= 1
      BY <1>3, <2>2, <2>5
    <3>4. /\ k2.seq = socket[s].seq /\ k2.tries = socket[s].tries /\ k2.error = socket[s].error
          /\ k.state = socket[s].state /\ k.timed_out = socket[s].timed_out /\ k.seq = socket[s].seq
      BY <2>1, <2>2, <2>5
    <3>5. \/ k2.state = socket[s].state
          \/ socket[s].state = "LISTENING" /\ k2.state = "CONNECTING"
          \/ socket[s].state = "CONNECTING" /\ k2.state = "CONNECTED" /\ p.type \in {"SYNACK", "ACK"}
          \/ socket[s].state \in {"CONNECTED", "CLOSING"} /\ k2.state \in {"CLOSING", "CLOSED"}
      BY <2>5, <3>4
    <3>6. \/ k2.timed_out = socket[s].timed_out /\ wake_arg' = wake_arg
          \/ /\ wake_arg' = wake_arg \/ wake_from_packet(s)
             /\ \/ socket[s].state \in {"LISTENING", "CONNECTING"}
                \/ frag[Peer(s)] = 0 => p.ack = socket[s].seq
      BY <2>5, <3>4
    <3> QED
      BY <1>1, <1>2, <2>5, <3>1, <3>2, <3>3, <3>4, <3>5, <3>6, HandleStepKeepsSInv
  <2>6. CASE HandleSyn(s, k, p)
    <3>1. CASE k.listening = NULL
      <4>1. Set(s, k) /\ Answer(s, k, "SYNACK") /\ wake_arg' = wake_arg
        BY <2>6, <3>1 DEF HandleSyn
      <4> QED
        BY <2>2, <2>4, <2>5, <4>1
    <3>2. CASE k.listening # NULL
      <4>1. PICK l \in Nat : l = k.listening + 1
        BY <3>2, FieldFact
      <4> DEFINE k2 == [k EXCEPT !.state = "CONNECTING", !.timed_out = FALSE, !.listening = l]
      <4>2. Set(s, k2) /\ Answer(s, k, "SYNACK") /\ wake_arg' = wake_arg /\ k.state = "LISTENING"
        BY <2>6, <3>2, <4>1 DEF HandleSyn
      <4>3. /\ k2 \in Sockets /\ k2.ack = k.ack /\ k2.seq = k.seq /\ k2.tries = k.tries
            /\ k2.error = k.error /\ k2.state = "CONNECTING"
            /\ k2.buffer = k.buffer /\ k2.buffer_has_stuff = k.buffer_has_stuff
        BY DEF Sockets, States
      <4> HIDE DEF k2
      <4> QED
        BY <2>2, <2>4, <2>5, <4>2, <4>3
    <3> QED
      BY <3>1, <3>2
  <2>7. CASE HandleConnected(s, k, p)
    <3> DEFINE k2 == [k EXCEPT !.state = "CONNECTED", !.timed_out = FALSE]
    <3>1. /\ k2 \in Sockets /\ k2.ack = k.ack /\ k2.seq = k.seq /\ k2.tries = k.tries
          /\ k2.error = k.error /\ k2.state = "CONNECTED"
          /\ k2.buffer = k.buffer /\ k2.buffer_has_stuff = k.buffer_has_stuff
      BY DEF Sockets, States
    <3>2. PICK type \in {"none", "ACK"} : Answer(s, k, type)
      BY <2>7 DEF HandleConnected
    <3>3. Set(s, k2) /\ wake_from_packet(s) /\ k.state = "CONNECTING" /\ p.type \in {"SYNACK", "ACK"}
      BY <2>7 DEF HandleConnected
    <3> HIDE DEF k2
    <3> QED
      BY <2>2, <2>4, <2>5, <3>1, <3>2, <3>3
  <2>8. CASE HandleData(s, k, p)
    <3>1. frag[Peer(s)] = 0 => p.ack = k.seq
      <4> SUFFICES ASSUME frag[Peer(s)] = 0
                   PROVE  p.ack = k.seq
        OBVIOUS
      <4>1. p.seq <= 1
        BY <1>3 DEF Good
      <4>2. k0.ack >= 1
        BY <2>2, <2>4, <2>8 DEF HandleData
      <4>3. p.seq # k0.ack + 1
        BY <1>3, <2>4, <4>1, <4>2
      <4> QED
        BY <1>5, <2>1, <2>2, <4>3 DEF Expected
    <3> DEFINE b == Put(k.buffer, p.frag)
               m == IF k.buffer = <<>> THEN k.buffer_has_stuff + 1 ELSE k.buffer_has_stuff
               k2 == [k EXCEPT !.buffer = b, !.buffer_has_stuff = m, !.timed_out = FALSE]
    <3>2. b \in Seq(Nat) /\ b # <<>>
      <4>a. p.frag \in Nat
        BY DEF Packets
      <4>1. Append(k.buffer, p.frag) \in Seq(Nat) /\ Append(k.buffer, p.frag) # <<>>
        <5>1. /\ Append(k.buffer, p.frag) \in Seq(Nat)
              /\ Len(Append(k.buffer, p.frag)) = Len(k.buffer) + 1 /\ Len(k.buffer) \in Nat
          BY <2>4, <4>a, AppendProperties, LenProperties
        <5> QED
          BY <5>1, EmptySeq
      <4>2. ASSUME k.buffer # <<>>
            PROVE  /\ [k.buffer EXCEPT ![Len(k.buffer)] = p.frag] \in Seq(Nat)
                   /\ [k.buffer EXCEPT ![Len(k.buffer)] = p.frag] # <<>>
        <5>1. Len(k.buffer) \in 1 .. Len(k.buffer) /\ Len(k.buffer) \in Nat
          BY <2>4, <4>2, LenProperties, EmptySeq
        <5>2. /\ [k.buffer EXCEPT ![Len(k.buffer)] = p.frag] \in Seq(Nat)
              /\ Len([k.buffer EXCEPT ![Len(k.buffer)] = p.frag]) = Len(k.buffer)
          BY <2>4, <4>a, <5>1, ExceptSeq
        <5> QED
          BY <5>1, <5>2, EmptySeq
      <4> QED
        BY <4>1, <4>2 DEF Put
    <3>3. m = 1
      BY <2>2, <2>4
    <3>4. /\ Set(s, k2) /\ wake_from_packet(s) /\ Answer(s, k, "ACK")
      BY <2>8 DEF HandleData, Buffered
    <3> HIDE DEF b, m
    <3>5. /\ k2 \in Sockets /\ k2.ack = k.ack /\ k2.seq = k.seq /\ k2.tries = k.tries
          /\ k2.error = k.error /\ k2.state = k.state
          /\ k2.buffer = b /\ k2.buffer_has_stuff = m
      BY <3>2, <3>3 DEF Sockets
    <3> HIDE DEF k2
    <3> QED
      BY <2>5, <3>1, <3>2, <3>3, <3>4, <3>5
  <2>9. CASE HandleFin(s, k, p)
    <3> DEFINE k2 == [k EXCEPT !.state = "CLOSING", !.unable_to_close = 0]
    <3>1. /\ k2 \in Sockets /\ k2.ack = k.ack /\ k2.seq = k.seq /\ k2.tries = k.tries
          /\ k2.error = k.error /\ k2.state = "CLOSING" /\ k2.timed_out = k.timed_out
          /\ k2.buffer = k.buffer /\ k2.buffer_has_stuff = k.buffer_has_stuff
      BY DEF Sockets, States
    <3>2. /\ Set(s, k) \/ Set(s, k2)
          /\ Answer(s, k, "ACK") /\ wake_arg' = wake_arg /\ k.state \in {"CONNECTED", "CLOSING"}
      BY <2>9 DEF HandleFin
    <3> HIDE DEF k2
    <3> QED
      BY <2>2, <2>4, <2>5, <3>1, <3>2
  <2>10. CASE HandleFinAck(s, k, p)
    <3> DEFINE k2 == [k EXCEPT !.state = "CLOSED"]
    <3>1. /\ k2 \in Sockets /\ k2.ack = k.ack /\ k2.seq = k.seq /\ k2.tries = k.tries
          /\ k2.error = k.error /\ k2.state = "CLOSED" /\ k2.timed_out = k.timed_out
          /\ k2.buffer = k.buffer /\ k2.buffer_has_stuff = k.buffer_has_stuff
      BY DEF Sockets, States
    <3>2. Set(s, k2) /\ Answer(s, k, "none") /\ wake_arg' = wake_arg /\ k.state = "CLOSING"
      BY <2>10 DEF HandleFinAck
    <3> HIDE DEF k2
    <3> QED
      BY <2>2, <2>4, <2>5, <3>1, <3>2
  <2>11. CASE HandleSynAck(s, k, p) \/ HandleNothing(s, k, p)
    <3>1. Set(s, k) /\ wake_arg' = wake_arg
      BY <2>11 DEF HandleSynAck, HandleNothing
    <3>2. PICK type \in {"none", "ACK"} : Answer(s, k, type)
      BY <2>11 DEF HandleSynAck, HandleNothing
    <3> QED
      BY <2>2, <2>4, <2>5, <3>1, <3>2
  <2> QED
    BY <2>3, <2>6, <2>7, <2>8, <2>9, <2>10, <2>11
<1> QED
  BY <1>2, <1>4, <1>5 DEF minisocket_handle_incoming_packet

(* Creation, and the faults of the network.                                 *)
LEMMA NewKeepsSInv ==
    ASSUME IInv, IInv', SInv, NEW s \in Sides, pc[s] = "create",
           NEW st \in {"LISTENING", "START"}, Set(s, create_new_socket(st)),
           NEW next \in {"connect", "syn"}, Goto(s, next),
           UNCHANGED <<wait_blocks, remaining, wake_arg, net, frag>>
    PROVE  SInv'
<1> DEFINE k2 == create_new_socket(st)
<1>1. /\ Typing /\ socket \in [Sides -> Sockets \cup {NULL}] /\ pc \in [Sides -> PC]
      /\ frag[s] \in Nat /\ remaining \in [Sides -> Nat] /\ Side(s) /\ MAX_TRIES \in Nat
      /\ Peer(s) \in Sides /\ Peer(s) # s
  BY MinisocketAssumption, SidesFact DEF IInv, Typing, SInv
<1>2. socket'[s] = k2 /\ pc'[s] = next /\ frag'[s] = frag[s] /\ remaining'[s] = remaining[s]
      /\ wake_arg'[s] = wake_arg[s]
  BY <1>1 DEF Set, Goto
<1>3. /\ k2.seq = 1 /\ k2.ack = 0 /\ k2.state = st /\ k2.tries = 0 /\ k2.error = FALSE
      /\ k2.buffer = <<>> /\ k2.buffer_has_stuff = 0
  BY DEF create_new_socket
<1>4. k2 # NULL
  BY <1>2 DEF IInv, InCall
<1> HIDE DEF k2
<1>5. Others(s)
  BY <1>1 DEF Others, Set, Goto
<1>6. Sends(s)
  BY DEF Sends
<1>7. Acks(s)
  BY <1>2, <1>3 DEF Acks
<1>8. Paces(s)
  BY <1>2, <1>3 DEF Paces, Answered
<1>9. Side(s)'
  <2>1. Alarmed(pc'[s], wake_arg'[s])
    BY <1>1, <1>2 DEF Side, Alarmed
  <2> QED
    BY <1>1, <1>2, <1>3, <2>1
    DEF Side, Trying, Numbered, Sliced, Opening, Sending, Closing, Established
<1>10. Met(s)'
  BY <1>2, <1>3 DEF Met, Established, Sending, Closing
<1> QED
  BY <1>5, <1>6, <1>7, <1>8, <1>9, <1>10, StepKeepsSInv DEF Step

LEMMA CreateKeepsSInv ==
    ASSUME IInv, IInv', SInv, Create
    PROVE  SInv'
<1>1. CASE minisocket_server_create
  BY <1>1, NewKeepsSInv DEF minisocket_server_create, Sides
<1>2. CASE minisocket_client_create
  BY <1>2, NewKeepsSInv DEF minisocket_client_create, Sides
<1>3. CASE SendSyn \/ Connecting
  <2> DEFINE s == "client"
             k == socket[s]
             k2 == socket'[s]
  <2>1. /\ s \in Sides /\ k \in Sockets /\ k # NULL /\ pc[s] \in {"syn", "connecting"} /\ frag[s] \in Nat
        /\ remaining[s] \in Nat /\ remaining \in [Sides -> Nat]
        /\ socket \in [Sides -> Sockets \cup {NULL}] /\ pc \in [Sides -> PC]
        /\ wake_arg \in [Sides -> WakeArgs]
    BY <1>3 DEF IInv, Typing, InCall, SInv, Side, SendSyn, Connecting, Sides
  <2>2. Side(s) /\ Met(s) /\ k.seq \in Nat /\ k.tries \in Nat /\ MAX_TRIES \in Nat
    BY <2>1, FieldFact, MinisocketAssumption DEF SInv
  <2>3. /\ Others(s) /\ wake_arg'[s] = wake_arg[s] /\ frag'[s] = frag[s] /\ remaining'[s] = remaining[s]
    BY <1>3, <2>1 DEF SendSyn, Connecting, Others, Set, Goto, socketVars
  <2>4. \/ k2 = k /\ pc'[s] = "connecting" /\ send(s, "SYN", 0)
        \/ k2 = [k EXCEPT !.state = "CONNECTING"] /\ pc'[s] = "connect" /\ net' = net
    BY <1>3, <2>1 DEF SendSyn, Connecting, Set, Goto, socketVars
  <2>5. /\ k2.seq = k.seq /\ k2.ack = k.ack /\ k2.tries = k.tries
        /\ k2.state = k.state \/ k2.state = "CONNECTING"
        /\ k2.buffer = k.buffer /\ k2.buffer_has_stuff = k.buffer_has_stuff
    BY <2>1, <2>4 DEF Sockets
  <2>6. k2 # NULL
    BY <2>1, <2>4 DEF IInv, InCall
  <2>7. "client" # "server"
    OBVIOUS
  <2> HIDE DEF k, k2
  <2>8. Side(s)'
    <3>1. Alarmed(pc'[s], wake_arg'[s])
      BY <2>1, <2>2, <2>3, <2>4 DEF Side, Alarmed
    <3>2. Trying(k2, pc'[s], frag'[s])
      BY <2>1, <2>2, <2>3, <2>4, <2>5 DEF k, Side, Trying, Opening, Sending, Closing
    <3>3. Numbered(s, k2, pc'[s], frag'[s])
      BY <2>1, <2>2, <2>3, <2>4, <2>5, <2>7 DEF k, Side, Numbered, Established, Sending, Closing
    <3>4. Sliced(s, pc'[s], frag'[s], remaining'[s])
      BY <2>1, <2>2, <2>3, <2>4 DEF Side, Sliced, Established, Sending, Closing
    <3> QED
      BY <2>1, <2>3, <3>1, <3>2, <3>3, <3>4 DEF k2, Side
  <2>9. Paces(s)
    BY <2>1, <2>4, <2>5 DEF k, k2, Paces, Answered
  <2>10. \/ net' = net
         \/ \E type \in {"SYN", "SYNACK", "ACK", "FIN"}, n \in Nat : send(s, type, n) /\ type = "SYN"
    BY <2>4
  <2> HIDE DEF s
  <2> QED
    BY <2>1, <2>3, <2>4, <2>5, <2>6, <2>8, <2>9, <2>10, OwnStep DEF k, k2, Established, Closing, Sending
<1> QED
  BY <1>1, <1>2, <1>3 DEF Create

LEMMA FaultKeepsSInv ==
    ASSUME IInv, IInv', SInv, NetworkFault
    PROVE  SInv'
<1>1. PICK s \in Sides : Lose(s) \/ Duplicate(s) \/ RouteNotFound(s)
  BY DEF NetworkFault
<1>2. UNCHANGED <<wait_blocks, wake_arg, pc, remaining, frag>>
  BY DEF NetworkFault, threadVars
<1>3. /\ net \in [Sides -> Seq(Packets)] /\ net[s] \in Seq(Packets)
      /\ socket \in [Sides -> Sockets \cup {NULL}] /\ wake_arg \in [Sides -> WakeArgs]
      /\ pc \in [Sides -> PC] /\ frag \in [Sides -> Nat] /\ remaining \in [Sides -> Nat]
  BY DEF IInv, Typing, SInv
<1>4. CASE Lose(s) \/ Duplicate(s)
  <2>1. PICK q : /\ q = Tail(net[s]) \/ q = <<Head(net[s])>> \o net[s]
                 /\ net' = [net EXCEPT ![s] = q] /\ net[s] # <<>> /\ socket' = socket
    BY <1>4 DEF Lose, Duplicate
  <2>2. \A p : On(q, p) => On(net[s], p)
    <3>1. /\ \A p : On(Tail(net[s]), p) => On(net[s], p)
          /\ \A p : On(<<Head(net[s])>> \o net[s], p) => On(net[s], p)
      BY <1>3, <2>1, OnFact
    <3> QED
      BY <2>1, <3>1
  <2>3. \A t \in Sides : \A p : On(net'[t], p) => On(net[t], p)
    BY <1>3, <2>1, <2>2
  <2> QED
    BY <1>2, <2>1, <2>3, NetKeepsSInv
<1>5. CASE RouteNotFound(s)
  <2> DEFINE k == socket[s]
             k2 == socket'[s]
  <2>1. k \in Sockets /\ k # NULL /\ pc[s] # "create" /\ net' = net
    BY <1>3, <1>5 DEF RouteNotFound, IInv, NotYet
  <2>2. Side(s)
    BY DEF SInv
  <2>3. /\ Others(s) /\ pc'[s] = pc[s] /\ wake_arg'[s] = wake_arg[s]
        /\ frag'[s] = frag[s] /\ remaining'[s] = remaining[s]
    BY <1>2, <1>3, <1>5 DEF RouteNotFound, Others, Set
  <2>4. /\ k2.seq = k.seq /\ k2.ack = k.ack /\ k2.state = k.state /\ k2.tries = k.tries
        /\ k2.buffer = k.buffer /\ k2.buffer_has_stuff = k.buffer_has_stuff
        /\ k2.timed_out = k.timed_out /\ k2.error = TRUE /\ k2 \in Sockets
    BY <1>3, <1>5, <2>1 DEF RouteNotFound, Set, Sockets
  <2>5. k2 # NULL
    BY <2>4, SocketFact
  <2> HIDE DEF k, k2
  <2>6. Side(s)'
    BY <2>1, <2>2, <2>3, <2>4 DEF k, k2, Side, Trying, Numbered
  <2>7. Paces(s)
    BY <2>1, <2>3, <2>4 DEF k, k2, Paces, Answered
  <2> QED
    BY <2>1, <2>3, <2>4, <2>5, <2>6, <2>7, OwnStep DEF k, k2
<1> QED
  BY <1>1, <1>4, <1>5

-----------------------------------------------------------------------------
LEMMA SInvHolds == Spec => []SInv
<1>1. Init => SInv
  <2> SUFFICES ASSUME Init
               PROVE  SInv
    OBVIOUS
  <2>1. remaining \in [Sides -> Nat]
    BY DEF Init
  <2>2. ASSUME NEW s \in Sides
        PROVE  Side(s) /\ Sound(s) /\ Met(s) /\ Paced(s)
    <3>1. Peer(s) \in Sides /\ MaxData[s] \in Nat
      BY SidesFact, MinisocketAssumption DEF Sides
    <3>2. Side(s)
      BY <3>1 DEF Init, Side, Sliced, Alarmed, Established, Sending, Closing
    <3>3. Sound(s)
      BY <3>1, EmptySeq DEF Init, Sound, On
    <3>4. Met(s) /\ Paced(s)
      BY <3>1 DEF Init, Met, Paced, Established, Sending, Closing
    <3> QED
      BY <3>2, <3>3, <3>4
  <2> QED
    BY <2>1, <2>2 DEF SInv
<1>2. IInv /\ IInv' /\ SInv /\ [Next]_vars => SInv'
  <2> SUFFICES ASSUME IInv, IInv', SInv, [Next]_vars
               PROVE  SInv'
    OBVIOUS
  <2>1. CASE Create
    BY <2>1, CreateKeepsSInv
  <2>2. ASSUME NEW s \in Sides, SendCall(s) \/ ReceiveCall(s) \/ CloseCall(s)
        PROVE  SInv'
    BY <2>2, CallKeepsSInv, ReceiveCallKeepsSInv, CloseCallKeepsSInv
  <2>3. ASSUME NEW s \in Sides, CallStep(s)
        PROVE  SInv'
    BY <2>3, ConnectKeepsSInv, ListenKeepsSInv, EvaluateKeepsSInv, WaitKeepsSInv, WokenKeepsSInv,
       CountKeepsSInv, PacketKeepsSInv, DoneKeepsSInv, ReceiveKeepsSInv, CloseKeepsSInv,
       CloseEvaluateKeepsSInv
    DEF CallStep
  <2>4. ASSUME NEW s \in Sides, AlarmStep(s)
        PROVE  SInv'
    BY <2>4, DequeueKeepsSInv, TimeoutKeepsSInv, AbleKeepsSInv DEF AlarmStep
  <2>5. ASSUME NEW s \in Sides, minisocket_handle_incoming_packet(s)
        PROVE  SInv'
    BY <2>5, HandleKeepsSInv
  <2>6. CASE NetworkFault
    BY <2>6, FaultKeepsSInv
  <2>7. CASE UNCHANGED vars
    <3>1. UNCHANGED <<wait_blocks, socket, pc, wake_arg, remaining, frag, net>>
      BY <2>7 DEF vars, socketVars, threadVars
    <3> QED
      BY <3>1, NetKeepsSInv
  <2> QED
    BY <2>1, <2>2, <2>3, <2>4, <2>5, <2>6, <2>7 DEF Next
<1> QED
  BY <1>1, <1>2, IInvHolds, PTL DEF Spec

(* The counters of a minisocket and of its calls stay within their bounds,  *)
(* and the semaphore of the buffer says whether there is anything in it,    *)
(* whatever wakes the thread.                                               *)
THEOREM MinisocketTyping == Spec => []TypeOK
<1>1. IInv /\ SInv => TypeOK
  <2> SUFFICES ASSUME IInv, SInv, NEW s \in Sides
               PROVE  LET k == socket[s] IN
                      /\ k # NULL =>
                            /\ k \in Sockets
                            /\ k.seq \in 1 .. MaxData[s] + 1
                            /\ k.ack \in 0 .. MaxData[Peer(s)] + 1
                            /\ k.tries \in 0 .. MAX_TRIES + 1 + MaxData[s]
                            /\ k.buffer_has_stuff = IF k.buffer = <<>> THEN 0 ELSE 1
                      /\ wake_arg[s].sema \in 0 .. 2
                      /\ net[s] \in Seq(Packets)
                      /\ remaining[s] \in 0 .. MaxData[s]
    BY DEF TypeOK
  <2>1. /\ Peer(s) \in Sides /\ MaxData[s] \in Nat /\ MaxData[Peer(s)] \in Nat /\ MAX_TRIES \in Nat
        /\ frag[s] \in Nat /\ frag[Peer(s)] \in Nat /\ remaining[s] \in Nat
        /\ net[s] \in Seq(Packets) /\ wake_arg[s] \in WakeArgs /\ socket[s] \in Sockets \cup {NULL}
    BY SidesFact, MinisocketAssumption DEF IInv, Typing, SInv, Sides
  <2>2. /\ Side(s) /\ Sound(s)
        /\ frag[s] <= MaxData[s] /\ frag[Peer(s)] <= MaxData[Peer(s)]
    BY <2>1 DEF SInv, Side, Sliced
  <2>3. ASSUME socket[s] # NULL
        PROVE  /\ socket[s] \in Sockets
               /\ socket[s].seq \in 1 .. MaxData[s] + 1
               /\ socket[s].ack \in 0 .. MaxData[Peer(s)] + 1
               /\ socket[s].tries \in 0 .. MAX_TRIES + 1 + MaxData[s]
               /\ socket[s].buffer_has_stuff = IF socket[s].buffer = <<>> THEN 0 ELSE 1
    <3>1. socket[s] \in Sockets /\ socket[s].seq \in Nat /\ socket[s].ack \in Nat /\ socket[s].tries \in Nat
      BY <2>1, <2>3, FieldFact
    <3>2. /\ socket[s].seq >= 1 /\ socket[s].seq <= frag[s] + 1
          /\ socket[s].ack <= frag[Peer(s)] + 1 /\ socket[s].tries <= MAX_TRIES + 1 + frag[s]
          /\ socket[s].buffer_has_stuff = IF socket[s].buffer = <<>> THEN 0 ELSE 1
      BY <2>2, <2>3 DEF Side, Numbered, Trying, Sound
    <3>3. PICK n \in Nat, a \in Nat, t \in Nat :
             n = socket[s].seq /\ a = socket[s].ack /\ t = socket[s].tries
      BY <3>1
    <3>4. /\ n >= 1 /\ n <= MaxData[s] + 1 /\ a <= MaxData[Peer(s)] + 1
          /\ t <= MAX_TRIES + 1 + MaxData[s]
      <4>1. \A x, f, m \in Nat : x <= f + 1 /\ f <= m => x <= m + 1
        OBVIOUS
      <4>2. \A x, f, m, l \in Nat : x <= l + 1 + f /\ f <= m => x <= l + 1 + m
        OBVIOUS
      <4>3. n >= 1 /\ n <= MaxData[s] + 1
        BY <2>1, <2>2, <3>2, <3>3, <4>1
      <4>4. a <= MaxData[Peer(s)] + 1
        BY <2>1, <2>2, <3>2, <3>3, <4>1
      <4>5. t <= MAX_TRIES + 1 + MaxData[s]
        BY <2>1, <2>2, <3>2, <3>3, <4>2
      <4> QED
        BY <4>3, <4>4, <4>5
    <3>5. n \in 1 .. MaxData[s] + 1 /\ a \in 0 .. MaxData[Peer(s)] + 1 /\ t \in 0 .. MAX_TRIES + 1 + MaxData[s]
      BY <2>1, <3>3, <3>4
    <3> QED
      BY <3>1, <3>2, <3>3, <3>5
  <2>4. wake_arg[s].sema \in 0 .. 2
    <3>1. wake_arg[s].sema \in Nat
      BY <2>1 DEF WakeArgs
    <3>2. \A b : One(b) \in Nat
      BY DEF One
    <3> QED
      BY <2>2, <3>1, <3>2 DEF Side, Alarmed, NoArg
  <2>5. remaining[s] \in 0 .. MaxData[s]
    BY <2>1, <2>2 DEF Side, Sliced
  <2> QED
    BY <2>1, <2>3, <2>4, <2>5
<1> QED
  BY <1>1, IInvHolds, SInvHolds, PTL

(* While both sides are there, neither is ahead of the packets it was sent, *)
(* and, with waiT and a peer that has not begun to send, the sender is at   *)
(* most one packet ahead of its peer, for any losses, repetitions and       *)
(* retries.                                                                 *)
THEOREM OnePacketAhead == Spec => []WindowOfOne
<1>1. IInv /\ SInv => WindowOfOne
  <2> SUFFICES ASSUME IInv, SInv, Open, NEW s \in Sides
               PROVE  /\ socket[Peer(s)].ack <= socket[s].seq
                      /\ wait_blocks /\ frag[Peer(s)] = 0
                            => socket[s].seq <= socket[Peer(s)].ack + 1
    BY DEF WindowOfOne
  <2>1. Peer(s) \in Sides /\ Peer(Peer(s)) = s /\ socket[s] # NULL /\ socket[Peer(s)] # NULL
    BY SidesFact DEF Open
  <2>2. Window(socket[s], socket[Peer(s)], frag[s], buffered[Peer(s)])
    BY <2>1 DEF IInv, ChanTo, Chan
  <2>3. Paced(s)
    BY DEF SInv
  <2> QED
    BY <2>1, <2>2, <2>3 DEF Window, Paced
<1> QED
  BY <1>1, IInvHolds, SInvHolds, PTL

(* A side is connected only to a side that has had a packet of it, whatever *)
(* was lost, repeated, refused or late during the handshake.                *)
THEOREM HandshakesAgree == Spec => []HandshakeAgrees
<1>1. SInv => HandshakeAgrees
  <2> SUFFICES ASSUME SInv, Open, NEW s \in Sides, socket[s].state = "CONNECTED"
               PROVE  socket[Peer(s)].ack >= 1
    BY DEF HandshakeAgrees
  <2>1. Peer(s) \in Sides /\ socket[s] # NULL /\ socket[Peer(s)] # NULL
    BY SidesFact DEF Open
  <2> QED
    BY <2>1 DEF SInv, Met, Acked
<1> QED
  BY <1>1, SInvHolds, PTL
===============================================================================
