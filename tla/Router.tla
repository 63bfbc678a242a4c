------------------------------- MODULE Router -------------------------------
(***************************************************************************)
(* The forwarding loop of Tema_1/router.c: one frame at a time, packets    *)
(* held in a queue until the MAC of their next hop is known, and the loop  *)
(* over that queue when an ARP reply comes.  The lookup is                 *)
(* get_best_route of Routes, which RouteTrie shows the trie to compute.    *)
(*                                                                         *)
(* The program is one thread.  A handler without a loop is one action; the *)
(* queue loop is one action per turn.  Frames may come in any order, and   *)
(* an ARP reply may be lost, repeated or come unasked.                     *)
(***************************************************************************)
EXTENDS Routes, Checksum, FiniteSets

CONSTANTS
  rtable,       \* rows with prefix, next_hop and interface
  Addresses,    \* the IP addresses that occur
  Macs,
  RouterIps,    \* the addresses of the interfaces the loop at line 316 visits
  Packets,      \* the IP frames that may arrive
  Replies,      \* the ARP replies that may arrive
  Askers,       \* the hosts that may send an ARP request
  MaxPackets,   \* bound: IP frames that arrive
  MaxReplies    \* bound: ARP replies that arrive

VARIABLES
  arp_table,      \* entries of an address and a MAC, in the order they were made
  q, queue_len,
  pc,             \* "recv" in recv_from_any_link, "drain" in the queue loop
  i, new_queue_len,
  reply,          \* the ARP reply being handled: entry, and len of its frame
  \* What has happened so far.
  arrivals,       \* the IP frames received; a packet is known by its index here
  replies,        \* the number of ARP replies received
  sent,           \* the packets forwarded, in order
  icmp,           \* the ICMP messages written
  dropped,        \* the packets that were left at a continue
  asked,          \* the ARP requests written: the packet held and its next hop
  answered,       \* the addresses an ARP reply has come from
  heard,          \* heard[a]: the MAC last heard for address a, from a packet or a reply
  replied         \* the hosts whose ARP request was answered

vars == <<arp_table, q, queue_len, pc, i, new_queue_len, reply, arrivals, replies, sent,
          icmp, dropped, asked, answered, heard, replied>>
loop == <<pc, i, new_queue_len, reply>>
queue == <<q, queue_len>>
arp == <<arp_table, asked, heard>>
arpIn == <<replies, answered, replied>>

BestRoute == [dst \in Addresses |-> get_best_route(rtable, dst)]
Best(dst) == BestRoute[dst]
NextHop(dst) == rtable[Best(dst)].next_hop

\* Of an IP header: the time to live, the sum of the words without it and without
\* the checksum, the checksum.  Of what follows: the sums of the second half of
\* the ICMP header, of the next 28 bytes and of all behind them.
Packet == [src : Addresses, dst : Addresses, shost : Macs, dhost : {"us", "other"},
           ttl : {n \in Nat : n <= 255}, rest : {n \in Nat : n <= 8 * 65535 + 255}, check : Word,
           echo : BOOLEAN, id : {n \in Nat : n <= 2 * 65535},
           quoted : {n \in Nat : n <= 14 * 65535}, more : Nat, len : Nat]

\* Nothing is asked of MACs: a packet may come from any, whatever its source, and
\* hosts may change theirs.
ASSUME RouterAssumption ==
  /\ rtable \in Seq([prefix : Seq(Bit), next_hop : Addresses, interface : Nat])
  /\ \A d \in Addresses : Best(d) \in 0 .. Len(rtable)
  /\ Packets \subseteq Packet
  /\ Replies \subseteq [ip : Addresses, mac : Macs, len : Nat]
  /\ MaxPackets \in Nat /\ MaxReplies \in Nat

NoReply == [ip |-> <<>>, mac |-> "none", len |-> 0]

Init ==
  /\ arp_table = <<>>
  /\ q = <<>> /\ queue_len = 0
  /\ pc = "recv" /\ i = 0 /\ new_queue_len = 0 /\ reply = NoReply
  /\ arrivals = <<>> /\ replies = 0 /\ sent = <<>>
  /\ icmp = {} /\ dropped = {} /\ asked = <<>>
  /\ answered = {} /\ heard = [a \in {} |-> "none"] /\ replied = {}

\* The first entry for ip; 0 is NULL.
get_arp_table_entry(table, ip) ==
  LET found == {k \in DOMAIN table : table[k].ip = ip}
  IN  IF found = {} THEN 0 ELSE CHOOSE k \in found : \A l \in found : k <= l

\* Mutants: an entry that exists is not overwritten; it is not looked for.
LearntOnce(ip, mac) ==
  IF get_arp_table_entry(arp_table, ip) # 0 THEN arp_table
  ELSE Append(arp_table, [ip |-> ip, mac |-> mac])
LearntAgain(ip, mac) == Append(arp_table, [ip |-> ip, mac |-> mac])

\* The entry for ip is overwritten, or one is appended.
Learnt(ip, mac) ==
  LET k == get_arp_table_entry(arp_table, ip)
  IN  IF k = 0 THEN Append(arp_table, [ip |-> ip, mac |-> mac])
      ELSE [arp_table EXCEPT ![k].mac = mac]

Hear(ip, mac) ==
  heard' = [a \in DOMAIN heard \cup {ip} |-> IF a = ip THEN mac ELSE heard[a]]

-----------------------------------------------------------------------------
(* An IP frame p arrives. *)

Receive(p) ==
  /\ pc = "recv" /\ Len(arrivals) < MaxPackets
  /\ arrivals' = Append(arrivals, p)
  /\ UNCHANGED <<loop, arpIn>>

This == Len(arrivals) + 1

ForUs(p) == p.dhost = "us"
ToRouter(p) == ForUs(p) /\ p.dst \in RouterIps
Sound(p) ==
  ForUs(p) /\ p.dst \notin RouterIps /\ checksum(256 * p.ttl + p.rest + p.check) = 0
Routed(p) == Sound(p) /\ Best(p.dst) # 0

\* Mutant: the time to live is tested after the decrement, against 0 only.
LastHopForwardable(p) == Routed(p) /\ p.ttl > 0

Forwardable(p) == Routed(p) /\ p.ttl > 1

\* A frame for another host, a packet for the router that asks for no echo, a
\* bad checksum.
Drop(p) ==
  /\ Receive(p)
  /\ \/ ~ForUs(p)
     \/ ToRouter(p) /\ ~p.echo
     \/ ForUs(p) /\ ~ToRouter(p) /\ ~Sound(p)
  /\ dropped' = dropped \cup {This}
  /\ UNCHANGED <<arp, queue, sent, icmp>>

\* The ICMP message of a type whose checksum was computed from the sum of covered,
\* and the sum of what is sent behind its first word.
Message(type, covered, behind) ==
  LET check == checksum(256 * type + covered)
  IN  [id |-> This, type |-> type, sum |-> 256 * type + check + behind]

\* The request's own checksum is not looked at.  The reply's covers the header
\* and not the data that is sent with it.
icmp_send_echo_reply(p) ==
  /\ Receive(p) /\ ToRouter(p) /\ p.echo
  /\ icmp' = icmp \cup {Message(0, p.id, p.id + p.quoted + p.more)}
  /\ UNCHANGED <<arp, queue, sent, dropped>>

\* Type 3 or 11.  The quoted datagram lands behind what is sent: the message ends
\* with the 28 bytes that came, and these are what the checksum covers.
icmp_send_dest_unreachable_or_timeout(p, type) ==
  icmp' = icmp \cup {Message(type, p.id + p.quoted, p.id + p.quoted)}

Unreachable(p) ==
  /\ Receive(p) /\ Sound(p) /\ ~Routed(p)
  /\ icmp_send_dest_unreachable_or_timeout(p, 3)
  /\ UNCHANGED <<arp, queue, sent, dropped>>

TimeExceeded(p) ==
  /\ Receive(p) /\ Routed(p) /\ p.ttl <= 1
  /\ icmp_send_dest_unreachable_or_timeout(p, 11)
  /\ UNCHANGED <<arp, queue, sent, dropped>>

\* The header with its time to live less one and a checksum of its own.
Rewritten(p) ==
  [id |-> This, dst |-> p.dst, ttl |-> p.ttl - 1, rest |-> p.rest,
   check |-> checksum(256 * (p.ttl - 1) + p.rest)]

Frame(packet, mac, len) ==
  [packet |-> packet, mac |-> mac, interface |-> rtable[Best(packet.dst)].interface,
   len |-> len]

LearnSource(p) == arp_table' = Learnt(p.src, p.shost) /\ Hear(p.src, p.shost)

\* The entry of the next hop, after the source was learnt.
HopEntry(p) == get_arp_table_entry(arp_table', NextHop(p.dst))

\* Mutant: the queue is a stack.
HoldInFront(p) ==
  /\ Receive(p) /\ Forwardable(p) /\ LearnSource(p)
  /\ HopEntry(p) = 0
  /\ q' = <<Rewritten(p)>> \o q
  /\ queue_len' = queue_len + 1
  /\ asked' = Append(asked, [id |-> This, hop |-> NextHop(p.dst)])
  /\ UNCHANGED <<sent, icmp, dropped>>

\* The MAC of the next hop is unknown: the packet waits and the hop is asked for.
Hold(p) ==
  /\ Receive(p) /\ Forwardable(p) /\ LearnSource(p)
  /\ HopEntry(p) = 0
  /\ q' = Append(q, Rewritten(p))
  /\ queue_len' = queue_len + 1
  /\ asked' = Append(asked, [id |-> This, hop |-> NextHop(p.dst)])
  /\ UNCHANGED <<sent, icmp, dropped>>

\* Mutant: the frame leaves with the length of an ARP frame.
ForwardCut(p) ==
  /\ Receive(p) /\ Forwardable(p) /\ LearnSource(p)
  /\ HopEntry(p) # 0
  /\ sent' = Append(sent, Frame(Rewritten(p), arp_table'[HopEntry(p)].mac, 42))
  /\ UNCHANGED <<queue, icmp, dropped, asked>>

Forward(p) ==
  /\ Receive(p) /\ Forwardable(p) /\ LearnSource(p)
  /\ HopEntry(p) # 0
  /\ sent' = Append(sent, Frame(Rewritten(p), arp_table'[HopEntry(p)].mac, p.len))
  /\ UNCHANGED <<queue, icmp, dropped, asked>>

-----------------------------------------------------------------------------
(* An ARP frame arrives. *)

\* Every request is answered, whichever address it asks for.
ArpRequest(h) ==
  /\ pc = "recv" /\ h \notin replied
  /\ replied' = replied \cup {h}
  /\ UNCHANGED <<arp, queue, loop, arrivals, replies, sent, icmp, dropped, answered>>

ArpReply(r) ==
  /\ pc = "recv" /\ replies < MaxReplies
  /\ replies' = replies + 1 /\ answered' = answered \cup {r.ip}
  /\ arp_table' = Learnt(r.ip, r.mac) /\ Hear(r.ip, r.mac)
  /\ reply' = r /\ i' = 0 /\ new_queue_len' = queue_len
  /\ pc' = "drain"
  /\ UNCHANGED <<queue, arrivals, sent, icmp, dropped, asked, replied>>

\* Mutant: the loop is bounded by the length that it decrements.
DrainingShort == pc = "drain" /\ i < new_queue_len

Draining == pc = "drain" /\ i < queue_len

\* The packet waits for this hop.  It leaves with the length of the ARP reply.
DrainForward ==
  /\ Draining /\ NextHop(Head(q).dst) = reply.ip
  /\ q' = Tail(q)
  /\ sent' = Append(sent, Frame(Head(q), reply.mac, reply.len))
  /\ new_queue_len' = new_queue_len - 1
  /\ i' = i + 1
  /\ UNCHANGED <<arp, arpIn, queue_len, pc, reply, arrivals, icmp, dropped>>

\* Mutant: the continue after queue_enq is missing.
DrainRotateSends ==
  /\ Draining /\ NextHop(Head(q).dst) # reply.ip
  /\ q' = Append(Tail(q), Head(q))
  /\ sent' = Append(sent, Frame(Head(q), reply.mac, reply.len))
  /\ i' = i + 1
  /\ UNCHANGED <<arp, arpIn, queue_len, pc, reply, new_queue_len, arrivals, icmp, dropped>>

\* It waits for another: to the back of the queue.
DrainRotate ==
  /\ Draining /\ NextHop(Head(q).dst) # reply.ip
  /\ q' = Append(Tail(q), Head(q))
  /\ i' = i + 1
  /\ UNCHANGED <<arp, arpIn, queue_len, pc, reply, new_queue_len, arrivals, sent, icmp,
                 dropped>>

\* Mutant: queue_len is not set from new_queue_len.
DrainEndKeepsLength ==
  /\ pc = "drain" /\ ~Draining
  /\ pc' = "recv" /\ i' = 0 /\ new_queue_len' = 0 /\ reply' = NoReply
  /\ UNCHANGED <<arp, arpIn, queue, arrivals, sent, icmp, dropped>>

DrainEnd ==
  /\ pc = "drain" /\ ~Draining
  /\ queue_len' = new_queue_len
  /\ pc' = "recv" /\ i' = 0 /\ new_queue_len' = 0 /\ reply' = NoReply
  /\ UNCHANGED <<arp, arpIn, q, arrivals, sent, icmp, dropped>>

-----------------------------------------------------------------------------
Drain == DrainForward \/ DrainRotate \/ DrainEnd

HandlePacket(p) ==
  \/ Drop(p) \/ icmp_send_echo_reply(p) \/ Unreachable(p) \/ TimeExceeded(p)
  \/ Hold(p) \/ Forward(p)

Next ==
  \/ \E p \in Packets : HandlePacket(p)
  \/ \E h \in Askers : ArpRequest(h)
  \/ \E r \in Replies : ArpReply(r)
  \/ Drain

\* Frames need not come; the loop over the queue, once entered, runs.
Spec == Init /\ [][Next]_vars /\ WF_vars(Drain)

-----------------------------------------------------------------------------
Known == DOMAIN arrivals

Header == [id : Known, dst : Addresses, ttl : Nat \ {0}, rest : Nat, check : Word]

TypeOK ==
  /\ arp_table \in Seq([ip : Addresses, mac : Macs])
  /\ arrivals \in Seq(Packets) /\ Len(arrivals) <= MaxPackets /\ replies \in 0 .. MaxReplies
  /\ q \in Seq(Header)
  /\ sent \in Seq([packet : Header, mac : Macs, interface : Nat, len : Nat])
  /\ queue_len \in Nat /\ new_queue_len \in Nat /\ i \in Nat
  /\ pc \in {"recv", "drain"} /\ reply \in Replies \cup {NoReply}
  /\ icmp \subseteq [id : Known, type : {0, 3, 11}, sum : Nat] /\ dropped \subseteq Known
  /\ asked \in Seq([id : Known, hop : Addresses])
  /\ answered \subseteq Addresses
  /\ heard \in [DOMAIN heard -> Macs] /\ DOMAIN heard \subseteq Addresses
  /\ replied \subseteq Askers

Waiting == {q[k].id : k \in DOMAIN q}
Sent == {sent[k].packet.id : k \in DOMAIN sent}
WithIcmp == {m.id : m \in icmp}
Held == {asked[k].id : k \in DOMAIN asked}

\* Whatever path main takes through its continues, and however the queue loop
\* rotates, a frame that came has one fate: it waits or was forwarded exactly
\* once, if it could be, or was answered by one ICMP message, or was dropped
\* (router.c 217-421).
OneFate ==
  /\ Waiting \cup Sent = {n \in Known : Forwardable(arrivals[n])}
  /\ Waiting \cap Sent = {}
  /\ Cardinality(Waiting) = Len(q) /\ Cardinality(Sent) = Len(sent)
  /\ WithIcmp \cup dropped = Known \ (Waiting \cup Sent)
  /\ WithIcmp \cap dropped = {} /\ Cardinality(WithIcmp) = Cardinality(icmp)

\* queue_len and new_queue_len, which main keeps beside the queue, agree with it:
\* queue_deq never meets an empty queue, and the loop sees every packet that was
\* queued before the reply (router.c 273-304, the assert of queue.c 36).
QueueLenExact ==
  /\ pc = "recv" => queue_len = Len(q)
  /\ pc = "drain" => new_queue_len = Len(q) /\ i <= queue_len /\ queue_len - i <= Len(q)

\* A packet waits only for an answer that is asked for and has not come: each has
\* a request of its own, and once a reply from its hop has been handled none is
\* left or queued any more (router.c 274-302, 367-416).
WaitsForAnAnswer ==
  \A k \in DOMAIN q :
    /\ [id |-> q[k].id, hop |-> NextHop(q[k].dst)] \in {asked[l] : l \in DOMAIN asked}
    /\ pc = "recv" => NextHop(q[k].dst) \notin answered

\* A frame leaves, at once or from the queue, for the MAC that was last heard for the
\* next hop of its route, whether in a reply or as the source of a packet that may
\* have come the wrong way round, and for no MAC heard before it nor for another
\* hop's; through its route's interface, with the time to live it came with less
\* one (router.c 258-300, 351-421).
ToTheNextHop ==
  [][\A k \in DOMAIN sent' \ DOMAIN sent :
       LET f == sent'[k]
           p == arrivals'[f.packet.id]
       IN  /\ f.packet.dst = p.dst /\ f.packet.ttl = p.ttl - 1
           /\ NextHop(p.dst) \in DOMAIN heard' /\ f.mac = heard'[NextHop(p.dst)]
           /\ f.interface = rtable[Best(p.dst)].interface]_vars

\* The ARP table, which is never checked against its 100000 entries, has one for
\* each address that was heard and no second one for any (router.c 258-266,
\* 357-365).
ArpTableExact ==
  /\ {arp_table[k].ip : k \in DOMAIN arp_table} = DOMAIN heard
  /\ \A k, l \in DOMAIN arp_table : arp_table[k].ip = arp_table[l].ip => k = l

\* What the router writes passes the check it makes itself: each header that it
\* forwards or keeps, also where the folded sum carries again, and each ICMP
\* message, except an echo reply whose data does not happen to add up to nothing
\* (router.c 103-105, 127-135, 351-354; lib.c 182-199).
WrittenSumsVerify ==
  /\ \A h \in {q[k] : k \in DOMAIN q} \cup {sent[k].packet : k \in DOMAIN sent} :
       Verifies(256 * h.ttl + h.rest + h.check)
  /\ \A m \in icmp :
       LET p == arrivals[m.id]
       IN  \/ Verifies(m.sum)
           \/ m.type = 0 /\ (p.quoted + p.more) % 65535 # 0

\* send_to_link in the queue loop is given len, which by then is that of the ARP
\* reply.  A frame that did not have to wait leaves with the length it came with,
\* and one that did leaves with that of a reply from its own hop, never of another
\* frame (router.c 300, 421).
CutOnlyIfHeld ==
  \A k \in DOMAIN sent :
    LET f == sent[k]
        p == arrivals[f.packet.id]
    IN  IF f.packet.id \in Held
        THEN \E r \in Replies : r.ip = NextHop(p.dst) /\ r.ip \in answered /\ f.len = r.len
        ELSE f.len = p.len

-----------------------------------------------------------------------------
(* The abstract forwarder. *)

NextHops == {rtable[j].next_hop : j \in DOMAIN rtable}

\* The packets that wait for each hop, those sent with their hops, the hops known.
Lines ==
  [h \in NextHops |-> {q[k].id : k \in {l \in DOMAIN q : NextHop(q[l].dst) = h}}]
Out ==
  [k \in DOMAIN sent |-> [number |-> sent[k].packet.id, hop |-> NextHop(sent[k].packet.dst)]]
KnownHops == {h \in NextHops : get_arp_table_entry(arp_table, h) # 0}

Promise == INSTANCE Forwarder WITH
  Hops <- NextHops, seen <- Len(arrivals), line <- Lines, out <- Out,
  ended <- WithIcmp \cup dropped, known <- KnownHops, answered <- answered \cap NextHops

\* One queue that is rotated serves a line for each next hop: packets for a hop
\* leave in the order they were held, a reply releases its own line whatever is
\* queued around it and no other, and a packet passes the line only when the MAC
\* is known (router.c 273-304, 351-421).
KeepsPromise == Promise!Spec

-----------------------------------------------------------------------------
\* "Send two packets; there should be at most just one! ARP request"
\* (checker/tests.py 380).
OneRequestPerHop == \A k, l \in DOMAIN asked : asked[k].hop = asked[l].hop => k = l
=============================================================================
