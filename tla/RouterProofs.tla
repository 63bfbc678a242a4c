---------------------------- MODULE RouterProofs ----------------------------
(***************************************************************************)
(* What the router of Tema_1 does with every frame, for any routing table, *)
(* hosts, packets and replies and any number of them: one fate, exact      *)
(* lengths, the right hop, and that it implements Forwarder step by step.  *)
(***************************************************************************)
EXTENDS Router, ChecksumProofs, FiniteSetTheorems, FunctionTheorems

-----------------------------------------------------------------------------
(* The inductive invariant. *)

\* The header the router makes of p, the packet with number n.
HeaderOf(n, p) ==
  [id |-> n, dst |-> p.dst, ttl |-> p.ttl - 1, rest |-> p.rest,
   check |-> checksum(256 * (p.ttl - 1) + p.rest)]

\* h is the header of a packet that came and could be forwarded.
MadeOf(h, came) ==
  /\ h.id \in DOMAIN came /\ Forwardable(came[h.id])
  /\ h = HeaderOf(h.id, came[h.id])

\* Whatever is queued or sent was made of a packet that could be forwarded.
HeaderInv ==
  /\ \A k \in DOMAIN q : MadeOf(q[k], arrivals)
  /\ \A k \in DOMAIN sent : MadeOf(sent[k].packet, arrivals)

\* The number of packets at the front of the queue that the loop has not rotated.
Left == IF pc = "drain" THEN queue_len - i ELSE Len(q)

\* Numbers ascend in the part that was not rotated and in the part that was, and
\* what was rotated is older.
OrderInv ==
  \A k, l \in DOMAIN q :
    /\ (k < l /\ (l <= Left \/ k > Left)) => q[k].id < q[l].id
    /\ (k <= Left /\ l > Left) => q[l].id < q[k].id

\* A packet whose hop has answered is one of those the loop has yet to see.
WaitInv ==
  \A k \in DOMAIN q :
    /\ [id |-> q[k].id, hop |-> NextHop(q[k].dst)] \in {asked[l] : l \in DOMAIN asked}
    /\ NextHop(q[k].dst) \in answered =>
         pc = "drain" /\ NextHop(q[k].dst) = reply.ip /\ k <= Left

\* Who has answered was heard, and the reply being handled is the last of its hop.
ReplyInv ==
  /\ answered \subseteq DOMAIN heard
  /\ pc = "drain" => /\ reply \in Replies /\ reply.ip \in answered
                     /\ reply.mac = heard[reply.ip]

\* An entry holds the MAC that was last heard for its address.
MacInv ==
  \A k \in DOMAIN arp_table :
    arp_table[k].ip \in DOMAIN heard /\ arp_table[k].mac = heard[arp_table[k].ip]

\* OneFate without counting.
FateInv ==
  /\ Waiting \cup Sent = {n \in Known : Forwardable(arrivals[n])}
  /\ Waiting \cap Sent = {}
  /\ \A k, l \in DOMAIN q : q[k].id = q[l].id => k = l
  /\ \A k, l \in DOMAIN sent : sent[k].packet.id = sent[l].packet.id => k = l
  /\ WithIcmp \cup dropped = Known \ (Waiting \cup Sent)
  /\ WithIcmp \cap dropped = {} /\ IsFiniteSet(icmp)
  /\ \A m, n \in icmp : m.id = n.id => m = n

\* An ICMP message verifies, but for an echo reply whose data add up to something.
IcmpInv ==
  \A m \in icmp :
    LET p == arrivals[m.id]
    IN  Verifies(m.sum) \/ (m.type = 0 /\ (p.quoted + p.more) % 65535 # 0)

IInv ==
  /\ TypeOK /\ HeaderInv /\ QueueLenExact /\ OrderInv /\ WaitInv /\ ReplyInv /\ MacInv
  /\ FateInv /\ ArpTableExact /\ IcmpInv /\ CutOnlyIfHeld

-----------------------------------------------------------------------------
(* Packets and rows. *)

LEMMA Rows ==
  ASSUME NEW d \in Addresses, Best(d) # 0
  PROVE  /\ Best(d) \in DOMAIN rtable
         /\ NextHop(d) \in Addresses /\ NextHop(d) \in NextHops
         /\ rtable[Best(d)].interface \in Nat
<1> DEFINE Row == [prefix : Seq(Bit), next_hop : Addresses, interface : Nat]
<1>1. rtable \in Seq(Row) /\ Best(d) \in 0 .. Len(rtable)
  BY RouterAssumption
<1> HIDE DEF Row
<1>2. Best(d) \in DOMAIN rtable /\ rtable[Best(d)] \in Row
  BY <1>1
<1> QED BY <1>2, RouterAssumption DEF NextHop, NextHops, Row

LEMMA PacketFields ==
  ASSUME NEW p \in Packets
  PROVE  /\ p.src \in Addresses /\ p.dst \in Addresses /\ p.shost \in Macs
         /\ p.ttl \in Nat /\ p.ttl <= 255 /\ p.rest \in Nat /\ p.rest <= 8 * 65535 + 255
         /\ p.id \in Nat /\ p.id <= 2 * 65535 /\ p.quoted \in Nat /\ p.quoted <= 14 * 65535
         /\ p.more \in Nat /\ p.len \in Nat
BY RouterAssumption DEF Packet

\* What a packet that can be forwarded has.
LEMMA ForwardableFacts ==
  ASSUME NEW p \in Packets, Forwardable(p)
  PROVE  /\ p.dst \in Addresses /\ Best(p.dst) # 0 /\ p.ttl - 1 \in Nat \ {0}
         /\ NextHop(p.dst) \in Addresses /\ NextHop(p.dst) \in NextHops
         /\ rtable[Best(p.dst)].interface \in Nat
         /\ p.rest \in Nat
         /\ 256 * (p.ttl - 1) + p.rest \in Sum
<1>1. p.dst \in Addresses /\ p.ttl \in Nat /\ p.rest \in Nat
      /\ p.ttl <= 255 /\ p.rest <= 8 * 65535 + 255
  BY PacketFields
<1>2. Best(p.dst) # 0 /\ p.ttl > 1
  BY DEF Forwardable, Routed
<1>3. 256 * (p.ttl - 1) + p.rest \in Sum
  BY <1>1, <1>2 DEF Sum
<1> QED BY <1>1, <1>2, <1>3, Rows

-----------------------------------------------------------------------------
(* Arrivals and the ARP table. *)

LEMMA Arrived ==
  ASSUME NEW p \in Packets, arrivals \in Seq(Packets), arrivals' = Append(arrivals, p)
  PROVE  /\ This \in Nat \ {0} /\ Known' = Known \cup {This} /\ This \notin Known
         /\ Known \subseteq Nat
         /\ \A n \in Known : n < This /\ arrivals'[n] = arrivals[n]
         /\ arrivals'[This] = p /\ arrivals' \in Seq(Packets)
<1>1. Known = 1 .. Len(arrivals) /\ Len(arrivals) \in Nat /\ This = Len(arrivals) + 1
  BY DEF Known, This
<1>2. arrivals' \in Seq(Packets) /\ Len(arrivals') = This /\ arrivals'[This] = p
      /\ \A n \in Known : arrivals'[n] = arrivals[n]
  BY <1>1
<1>3. Known' = 1 .. This
  BY <1>2 DEF Known
<1> QED BY <1>1, <1>2, <1>3

\* The header made of a packet that can be forwarded.
LEMMA RewrittenIsHeader ==
  ASSUME NEW p \in Packets, Forwardable(p), arrivals \in Seq(Packets),
         arrivals' = Append(arrivals, p)
  PROVE  /\ Rewritten(p) \in Header' /\ MadeOf(Rewritten(p), arrivals')
         /\ Rewritten(p).id = This /\ Rewritten(p).dst = p.dst
<1>1. checksum(256 * (p.ttl - 1) + p.rest) \in Word
  BY ForwardableFacts, ChecksumIsWord
<1>2. arrivals'[This] = p /\ This \in Known' /\ Known' = DOMAIN arrivals'
  BY Arrived DEF Known
<1>3. Rewritten(p) = HeaderOf(This, p) /\ Rewritten(p).id = This /\ Rewritten(p).dst = p.dst
  BY DEF Rewritten, HeaderOf
<1>4. Rewritten(p) \in Header'
  BY <1>1, <1>2, ForwardableFacts DEF Rewritten, Header
<1>5. MadeOf(Rewritten(p), arrivals')
  BY <1>2, <1>3 DEF MadeOf
<1> QED BY <1>3, <1>4, <1>5

\* A header stays what it is when another packet comes.
LEMMA HeadersKept ==
  ASSUME NEW p \in Packets, arrivals \in Seq(Packets), arrivals' = Append(arrivals, p)
  PROVE  /\ \A h : MadeOf(h, arrivals) => MadeOf(h, arrivals') /\ h.id \in Known
         /\ Header \subseteq Header'
<1>1. Known \subseteq Known' /\ \A n \in Known : arrivals'[n] = arrivals[n]
  BY Arrived
<1>2. ASSUME NEW h, MadeOf(h, arrivals)
      PROVE  MadeOf(h, arrivals') /\ h.id \in Known
  BY <1>1, <1>2 DEF MadeOf, Known
<1>3. Header \subseteq Header'
  BY <1>1 DEF Header
<1> QED BY <1>2, <1>3

LEMMA LeastOf ==
  ASSUME NEW S \in SUBSET Nat, S # {}
  PROVE  \E x \in S : \A y \in S : x <= y
<1> DEFINE Below == {0 .. x : x \in S}
<1>1. Below \in SUBSET FiniteSubsetsOf(Nat) /\ Below # {}
  <2>1. \A x \in S : IsFiniteSet(0 .. x) /\ (0 .. x) \in SUBSET Nat
    BY FS_Interval
  <2> QED BY <2>1 DEF FiniteSubsetsOf
<1>2. PICK I \in Below : \A J \in Below : ~(<<J, I>> \in StrictSubsetOrdering(Nat))
  BY <1>1, WFMin, FS_StrictSubsetOrderingWellFounded
<1>3. PICK x \in S : I = 0 .. x
  BY <1>2
<1>4. \A y \in S : x <= y
  <2> SUFFICES ASSUME NEW y \in S, y < x PROVE FALSE
    OBVIOUS
  <2>1. (0 .. y) \in Below /\ (0 .. y) \subseteq (0 .. x) /\ x \in 0 .. x /\ x \notin 0 .. y
    OBVIOUS
  <2>2. <<0 .. y, 0 .. x>> \in StrictSubsetOrdering(Nat)
    BY <2>1 DEF StrictSubsetOrdering
  <2> QED BY <2>1, <2>2, <1>2, <1>3
<1> QED BY <1>4

\* A search finds an entry for the address or there is none.
LEMMA EntryFound ==
  ASSUME NEW S, NEW table \in Seq(S), NEW ip
  PROVE  LET k == get_arp_table_entry(table, ip)
         IN  /\ k \in 0 .. Len(table)
             /\ k = 0 <=> \A l \in DOMAIN table : table[l].ip # ip
             /\ k # 0 => k \in DOMAIN table /\ table[k].ip = ip
<1> DEFINE found == {k \in DOMAIN table : table[k].ip = ip}
<1>1. CASE found = {}
  BY <1>1 DEF get_arp_table_entry
<1>2. CASE found # {}
  <2>1. found \in SUBSET Nat
    OBVIOUS
  <2>2. \E x \in found : \A y \in found : x <= y
    BY <1>2, <2>1, LeastOf
  <2>3. get_arp_table_entry(table, ip) \in found
    BY <1>2, <2>2 DEF get_arp_table_entry
  <2> QED BY <2>3
<1> QED BY <1>1, <1>2

\* A row of the ARP table.
Entry == [ip : Addresses, mac : Macs]

LEMMA LearntFacts ==
  ASSUME arp_table \in Seq(Entry), NEW ip \in Addresses, NEW mac \in Macs
  PROVE  LET t == Learnt(ip, mac)
         IN  /\ t \in Seq(Entry)
             /\ \A k \in DOMAIN arp_table :
                  /\ k \in DOMAIN t /\ t[k].ip = arp_table[k].ip
                  /\ arp_table[k].ip # ip => t[k] = arp_table[k]
             /\ \A k \in DOMAIN t : k \notin DOMAIN arp_table =>
                  /\ t[k] = [ip |-> ip, mac |-> mac] /\ k = Len(arp_table) + 1
                  /\ \A l \in DOMAIN arp_table : arp_table[l].ip # ip
             /\ \E k \in DOMAIN t : t[k].ip = ip /\ t[k].mac = mac
<1> DEFINE k0 == get_arp_table_entry(arp_table, ip)
<1>1. /\ k0 \in 0 .. Len(arp_table)
      /\ k0 = 0 <=> \A l \in DOMAIN arp_table : arp_table[l].ip # ip
      /\ k0 # 0 => k0 \in DOMAIN arp_table /\ arp_table[k0].ip = ip
  BY EntryFound
<1> HIDE DEF k0
<1>2. CASE k0 = 0
  <2>1. Learnt(ip, mac) = Append(arp_table, [ip |-> ip, mac |-> mac])
    BY <1>2 DEF Learnt, k0
  <2>2. [ip |-> ip, mac |-> mac] \in Entry
    BY DEF Entry
  <2> QED BY <1>1, <1>2, <2>1, <2>2
<1>3. CASE k0 # 0
  <2>1. Learnt(ip, mac) = [arp_table EXCEPT ![k0].mac = mac]
    BY <1>3 DEF Learnt, k0
  <2>2. [arp_table[k0] EXCEPT !.mac = mac] \in Entry
        /\ [arp_table[k0] EXCEPT !.mac = mac].ip = ip
        /\ [arp_table[k0] EXCEPT !.mac = mac].mac = mac
    <3>1. arp_table[k0] \in Entry
      BY <1>1, <1>3
    <3> QED BY <3>1, <1>1, <1>3 DEF Entry
  <2>3. DOMAIN Learnt(ip, mac) = DOMAIN arp_table /\ Learnt(ip, mac) \in Seq(Entry)
        /\ Learnt(ip, mac)[k0] = [arp_table[k0] EXCEPT !.mac = mac]
        /\ \A l \in DOMAIN arp_table : l # k0 => Learnt(ip, mac)[l] = arp_table[l]
    BY <1>1, <1>3, <2>1, <2>2
  <2> QED BY <1>1, <1>3, <2>2, <2>3
<1> QED BY <1>2, <1>3

\* What an overwritten or added entry leaves of the table's invariants.
LEMMA LearntKeeps ==
  ASSUME TypeOK, MacInv, ArpTableExact, NEW ip \in Addresses, NEW mac \in Macs,
         arp_table' = Learnt(ip, mac), Hear(ip, mac)
  PROVE  /\ arp_table' \in Seq(Entry) /\ MacInv' /\ ArpTableExact'
         /\ heard' \in [DOMAIN heard' -> Macs] /\ DOMAIN heard' \subseteq Addresses
         /\ DOMAIN heard' = DOMAIN heard \cup {ip} /\ heard'[ip] = mac
<1> DEFINE t == Learnt(ip, mac)
<1>1. /\ arp_table \in Seq(Entry)
      /\ heard \in [DOMAIN heard -> Macs] /\ DOMAIN heard \subseteq Addresses
  BY DEF TypeOK, Entry
<1>2. /\ t \in Seq(Entry)
      /\ \A k \in DOMAIN arp_table :
           /\ k \in DOMAIN t /\ t[k].ip = arp_table[k].ip
           /\ arp_table[k].ip # ip => t[k] = arp_table[k]
      /\ \A k \in DOMAIN t : k \notin DOMAIN arp_table =>
           /\ t[k] = [ip |-> ip, mac |-> mac] /\ k = Len(arp_table) + 1
           /\ \A l \in DOMAIN arp_table : arp_table[l].ip # ip
      /\ \E k \in DOMAIN t : t[k].ip = ip /\ t[k].mac = mac
  BY <1>1, LearntFacts
<1>3. arp_table' = t
  OBVIOUS
<1> HIDE DEF t
<1>4. /\ heard' \in [DOMAIN heard' -> Macs] /\ DOMAIN heard' \subseteq Addresses
      /\ DOMAIN heard' = DOMAIN heard \cup {ip} /\ heard'[ip] = mac
      /\ \A a \in DOMAIN heard : a # ip => heard'[a] = heard[a]
  BY <1>1 DEF Hear
<1>5. \A k, l \in DOMAIN t : t[k].ip = t[l].ip => k = l
  BY <1>2 DEF ArpTableExact
<1>6. {t[k].ip : k \in DOMAIN t} = DOMAIN heard'
  <2>1. {arp_table[k].ip : k \in DOMAIN arp_table} = DOMAIN heard
    BY DEF ArpTableExact
  <2> QED BY <1>2, <1>4, <2>1
<1>7. ArpTableExact'
  BY <1>3, <1>5, <1>6 DEF ArpTableExact
<1>8. ASSUME NEW k \in DOMAIN t
      PROVE  t[k].ip \in DOMAIN heard' /\ t[k].mac = heard'[t[k].ip]
  <2>1. CASE t[k].ip = ip
    BY <1>2, <1>4, <1>5, <2>1
  <2>2. CASE t[k].ip # ip
    <3>1. k \in DOMAIN arp_table /\ t[k] = arp_table[k]
      BY <1>2, <2>2
    <3> QED BY <1>4, <2>2, <3>1 DEF MacInv
  <2> QED BY <2>1, <2>2
<1>9. MacInv'
  BY <1>3, <1>8 DEF MacInv
<1> QED BY <1>2, <1>3, <1>4, <1>7, <1>9

\* The source of a packet is learnt.
LEMMA SourceLearnt ==
  ASSUME TypeOK, MacInv, ArpTableExact, NEW p \in Packets, LearnSource(p)
  PROVE  /\ arp_table' \in Seq(Entry) /\ MacInv' /\ ArpTableExact'
         /\ heard' \in [DOMAIN heard' -> Macs] /\ DOMAIN heard' \subseteq Addresses
         /\ DOMAIN heard \subseteq DOMAIN heard'
<1>1. /\ p.src \in Addresses /\ p.shost \in Macs
      /\ arp_table' = Learnt(p.src, p.shost) /\ Hear(p.src, p.shost)
  BY PacketFields DEF LearnSource
<1>2. /\ arp_table' \in Seq(Entry) /\ MacInv' /\ ArpTableExact'
      /\ heard' \in [DOMAIN heard' -> Macs] /\ DOMAIN heard' \subseteq Addresses
      /\ DOMAIN heard' = DOMAIN heard \cup {p.src}
  BY <1>1, LearntKeeps
<1> QED BY <1>2, Zenon

-----------------------------------------------------------------------------
(* What is kept when a packet comes, whatever becomes of it. *)

SentFrame == [packet : Header, mac : Macs, interface : Nat, len : Nat]
IcmpMessage == [id : Known, type : {0, 3, 11}, sum : Nat]
Request == [id : Known, hop : Addresses]

LEMMA SeqOfLarger ==
  ASSUME NEW S, NEW T, S \subseteq T, NEW s \in Seq(S)
  PROVE  s \in Seq(T)
OBVIOUS

LEMMA ReceivedTypes ==
  ASSUME TypeOK, NEW p \in Packets, Receive(p)
  PROVE  /\ arrivals \in Seq(Packets) /\ arrivals' = Append(arrivals, p)
         /\ arrivals' \in Seq(Packets) /\ Len(arrivals') <= MaxPackets
         /\ q \in Seq(Header') /\ sent \in Seq(SentFrame')
         /\ icmp \subseteq IcmpMessage' /\ dropped \subseteq Known'
         /\ asked \in Seq(Request')
         /\ pc = "recv" /\ UNCHANGED <<pc, i, new_queue_len, reply, replies, answered, replied>>
<1>1. arrivals \in Seq(Packets) /\ arrivals' = Append(arrivals, p) /\ Len(arrivals) < MaxPackets
      /\ pc = "recv" /\ UNCHANGED <<loop, arpIn>>
  BY DEF TypeOK, Receive
<1>2. arrivals' \in Seq(Packets) /\ Len(arrivals') <= MaxPackets
  BY <1>1, RouterAssumption
<1>3. Header \subseteq Header' /\ Known \subseteq Known'
  BY <1>1, HeadersKept, Arrived
<1>4. SentFrame \subseteq SentFrame' /\ IcmpMessage \subseteq IcmpMessage' /\ Request \subseteq Request'
  BY <1>3 DEF SentFrame, IcmpMessage, Request
<1>5. q \in Seq(Header) /\ sent \in Seq(SentFrame) /\ asked \in Seq(Request)
      /\ icmp \subseteq IcmpMessage /\ dropped \subseteq Known
  BY DEF TypeOK, SentFrame, IcmpMessage, Request
<1>6. q \in Seq(Header') /\ sent \in Seq(SentFrame') /\ asked \in Seq(Request')
  BY <1>3, <1>4, <1>5, SeqOfLarger
<1> QED BY <1>1, <1>2, <1>3, <1>4, <1>5, <1>6 DEF loop, arpIn

-----------------------------------------------------------------------------
(* A packet that goes no further. *)

\* The checksum of an ICMP message covers all of it but an echo reply's data.
LEMMA MessageVerifies ==
  ASSUME NEW p \in Packets
  PROVE  /\ \A type \in {3, 11} :
              LET m == Message(type, p.id + p.quoted, p.id + p.quoted)
              IN  m.sum \in Nat /\ Verifies(m.sum)
         /\ LET m == Message(0, p.id, p.id + p.quoted + p.more)
            IN  m.sum \in Nat /\ (Verifies(m.sum) \/ (p.quoted + p.more) % 65535 # 0)
<1>1. /\ p.id \in Nat /\ p.id <= 2 * 65535 /\ p.quoted \in Nat /\ p.quoted <= 14 * 65535
      /\ p.more \in Nat
  BY PacketFields
<1>2. ASSUME NEW type \in {3, 11}
      PROVE  LET m == Message(type, p.id + p.quoted, p.id + p.quoted)
             IN  m.sum \in Nat /\ Verifies(m.sum)
  <2> DEFINE s == 256 * type + (p.id + p.quoted)
  <2>1. s \in Sum
    BY <1>1 DEF Sum
  <2>2. Verifies(s + checksum(s)) /\ checksum(s) \in Nat /\ s \in Nat
    BY <2>1, WrittenVerifies, ChecksumIsWord DEF Word, Sum
  <2>3. Message(type, p.id + p.quoted, p.id + p.quoted).sum =
          256 * type + checksum(s) + (p.id + p.quoted)
    BY DEF Message
  <2>4. 256 * type + checksum(s) + (p.id + p.quoted) = s + checksum(s)
    BY <1>1, <2>2
  <2> HIDE DEF s
  <2> QED BY <2>2, <2>3, <2>4
<1>3. LET m == Message(0, p.id, p.id + p.quoted + p.more)
      IN  m.sum \in Nat /\ (Verifies(m.sum) \/ (p.quoted + p.more) % 65535 # 0)
  <2> DEFINE c == checksum(p.id)
  <2>1. p.id \in Sum /\ 256 * 0 + p.id = p.id
    BY <1>1 DEF Sum
  <2>2. Verifies(p.id + c) /\ c \in Nat
    BY <2>1, WrittenVerifies, ChecksumIsWord DEF Word
  <2>3. Message(0, p.id, p.id + p.quoted + p.more).sum = c + (p.id + p.quoted + p.more)
    <3>1. Message(0, p.id, p.id + p.quoted + p.more).sum =
            256 * 0 + checksum(256 * 0 + p.id) + (p.id + p.quoted + p.more)
      BY DEF Message
    <3> QED BY <1>1, <2>1, <2>2, <3>1
  <2> HIDE DEF c
  <2>4. ASSUME (p.quoted + p.more) % 65535 = 0
        PROVE  Verifies(c + (p.id + p.quoted + p.more))
    <3>1. PICK n \in Nat : p.quoted + p.more = 65535 * n
      BY <1>1, <2>4
    <3>2. PICK m \in Nat : p.id + c = 65535 * m /\ p.id + c > 0
      BY <1>1, <2>2 DEF Verifies
    <3>3. c + (p.id + p.quoted + p.more) = 65535 * (m + n)
      BY <1>1, <2>2, <3>1, <3>2
    <3>4. c + (p.id + p.quoted + p.more) > 0 /\ (65535 * (m + n)) % 65535 = 0
      BY <1>1, <2>2, <3>2
    <3> QED BY <3>3, <3>4 DEF Verifies
  <2> QED BY <1>1, <2>2, <2>3, <2>4
<1> QED BY <1>2, <1>3

\* The messages that may be written about p, the packet with number n.
IcmpFor(n, p) ==
  {m \in [id : {n}, type : {0, 3, 11}, sum : Nat] :
     Verifies(m.sum) \/ (m.type = 0 /\ (p.quoted + p.more) % 65535 # 0)}

\* The four ways in which a packet ends at the router.
Ends(p) == Drop(p) \/ icmp_send_echo_reply(p) \/ Unreachable(p) \/ TimeExceeded(p)

LEMMA EndFacts ==
  ASSUME NEW p \in Packets, Ends(p)
  PROVE  /\ Receive(p) /\ ~Forwardable(p) /\ UNCHANGED <<arp, queue, sent>>
         /\ \/ dropped' = dropped \cup {This} /\ icmp' = icmp
            \/ /\ dropped' = dropped
               /\ \E m \in IcmpFor(This, p) : icmp' = icmp \cup {m}
<1>1. CASE Drop(p)
  BY <1>1 DEF Drop, Forwardable, Routed, Sound, ToRouter
<1>2. CASE icmp_send_echo_reply(p)
  <2> DEFINE m == Message(0, p.id, p.id + p.quoted + p.more)
  <2>1. m \in IcmpFor(This, p)
    BY MessageVerifies DEF Message, IcmpFor
  <2>2. icmp' = icmp \cup {m} /\ dropped' = dropped /\ Receive(p)
        /\ UNCHANGED <<arp, queue, sent>> /\ ~Forwardable(p)
    BY <1>2 DEF icmp_send_echo_reply, Forwardable, Routed, Sound, ToRouter
  <2> HIDE DEF m
  <2> QED BY <2>1, <2>2
<1>3. ASSUME NEW type \in {3, 11}, icmp_send_dest_unreachable_or_timeout(p, type)
      PROVE  \E m \in IcmpFor(This, p) : icmp' = icmp \cup {m}
  <2> DEFINE m == Message(type, p.id + p.quoted, p.id + p.quoted)
  <2>1. m \in IcmpFor(This, p)
    BY MessageVerifies DEF Message, IcmpFor
  <2>2. icmp' = icmp \cup {m}
    BY <1>3 DEF icmp_send_dest_unreachable_or_timeout
  <2> HIDE DEF m
  <2> QED BY <2>1, <2>2
<1>4. CASE Unreachable(p)
  BY <1>3, <1>4 DEF Unreachable, Forwardable
<1>5. CASE TimeExceeded(p)
  <2>1. p.ttl \in Nat
    BY PacketFields
  <2> QED BY <1>3, <1>5, <2>1 DEF TimeExceeded, Forwardable
<1> QED BY <1>1, <1>2, <1>4, <1>5 DEF Ends

\* What left keeps its length, and is judged as before while its packet is held or
\* not as it was.
LEMMA CutStays ==
  ASSUME CutOnlyIfHeld, sent' = sent, answered' = answered,
         \A k \in DOMAIN sent :
           /\ arrivals'[sent[k].packet.id] = arrivals[sent[k].packet.id]
           /\ sent[k].packet.id \in Held' <=> sent[k].packet.id \in Held
  PROVE  CutOnlyIfHeld'
<1> SUFFICES ASSUME NEW k \in DOMAIN sent'
             PROVE  LET f == sent'[k]
                        p == arrivals'[f.packet.id]
                    IN  IF f.packet.id \in Held'
                        THEN \E r \in Replies :
                               r.ip = NextHop(p.dst) /\ r.ip \in answered' /\ f.len = r.len
                        ELSE f.len = p.len
  BY DEF CutOnlyIfHeld
<1>1. LET f == sent[k]
          p == arrivals[f.packet.id]
      IN  IF f.packet.id \in Held
          THEN \E r \in Replies : r.ip = NextHop(p.dst) /\ r.ip \in answered /\ f.len = r.len
          ELSE f.len = p.len
  BY DEF CutOnlyIfHeld
<1> QED BY <1>1

LEMMA EndKeeps ==
  ASSUME IInv, NEW p \in Packets, Ends(p)
  PROVE  IInv'
<1> USE DEF IInv
<1>1. /\ ~Forwardable(p)
      /\ UNCHANGED <<arp_table, asked, heard, q, queue_len, sent>>
      /\ \/ dropped' = dropped \cup {This} /\ icmp' = icmp
         \/ dropped' = dropped /\ \E m \in IcmpFor(This, p) : icmp' = icmp \cup {m}
  BY EndFacts DEF arp, queue
<1>2. /\ arrivals \in Seq(Packets) /\ arrivals' = Append(arrivals, p)
      /\ arrivals' \in Seq(Packets) /\ Len(arrivals') <= MaxPackets
      /\ q \in Seq(Header') /\ sent \in Seq(SentFrame')
      /\ icmp \subseteq IcmpMessage' /\ dropped \subseteq Known'
      /\ asked \in Seq(Request')
      /\ pc = "recv" /\ UNCHANGED <<pc, i, new_queue_len, reply, replies, answered, replied>>
  BY ReceivedTypes, EndFacts
<1>3. /\ This \in Nat \ {0} /\ Known' = Known \cup {This} /\ This \notin Known
      /\ Known \subseteq Nat
      /\ \A n \in Known : n < This /\ arrivals'[n] = arrivals[n]
      /\ arrivals'[This] = p
  BY <1>2, Arrived
<1>4. /\ \A h : MadeOf(h, arrivals) => MadeOf(h, arrivals') /\ h.id \in Known
  BY <1>2, HeadersKept
<1>5. TypeOK'
  <2>1. icmp' \subseteq IcmpMessage' /\ dropped' \subseteq Known'
    <3>1. This \in Known'
      BY <1>3
    <3>2. IcmpFor(This, p) \subseteq IcmpMessage'
      BY <3>1 DEF IcmpFor, IcmpMessage
    <3> QED BY <1>1, <1>2, <1>3, <3>2
  <2> QED BY <1>1, <1>2, <2>1 DEF TypeOK, SentFrame, IcmpMessage, Request
<1>6. HeaderInv'
  BY <1>1, <1>4 DEF HeaderInv
<1>7. QueueLenExact' /\ ReplyInv'
  BY <1>1, <1>2 DEF QueueLenExact, ReplyInv
<1>8. OrderInv' /\ WaitInv'
  BY <1>1, <1>2 DEF OrderInv, WaitInv, Left
<1>9. MacInv' /\ ArpTableExact'
  BY <1>1, <1>2 DEF MacInv, ArpTableExact
<1>10. FateInv'
  <2>1. Waiting' = Waiting /\ Sent' = Sent /\ Waiting \cup Sent \subseteq Known
    BY <1>1 DEF Waiting, Sent, FateInv
  <2>2. {n \in Known' : Forwardable(arrivals'[n])} = {n \in Known : Forwardable(arrivals[n])}
    BY <1>1, <1>3
  <2>3. WithIcmp \subseteq Known /\ dropped \subseteq Known
    BY DEF TypeOK, WithIcmp
  <2> DEFINE QueueFate ==
               /\ Waiting \cup Sent = {n \in Known : Forwardable(arrivals[n])}
               /\ Waiting \cap Sent = {}
               /\ \A k, l \in DOMAIN q : q[k].id = q[l].id => k = l
               /\ \A k, l \in DOMAIN sent : sent[k].packet.id = sent[l].packet.id => k = l
             Rest == Known \ (Waiting \cup Sent)
  <2>4. QueueFate'
    BY <1>1, <2>1, <2>2 DEF FateInv
  <2>5. Rest' = Rest \cup {This} /\ This \notin WithIcmp \cup dropped
    BY <1>3, <2>1, <2>3
  <2>6. /\ WithIcmp \cup dropped = Rest /\ WithIcmp \cap dropped = {} /\ IsFiniteSet(icmp)
        /\ \A m, n \in icmp : m.id = n.id => m = n
    BY DEF FateInv
  <2>7. FateInv' = /\ QueueFate' /\ WithIcmp' \cup dropped' = Rest'
                   /\ WithIcmp' \cap dropped' = {} /\ IsFiniteSet(icmp')
                   /\ \A m, n \in icmp' : m.id = n.id => m = n
    BY DEF FateInv
  <2> HIDE DEF QueueFate, Rest, IInv
  <2>8. CASE dropped' = dropped \cup {This} /\ icmp' = icmp
    <3>1. WithIcmp' = WithIcmp
      BY <2>8 DEF WithIcmp
    <3>2. WithIcmp' \cup dropped' = Rest' /\ WithIcmp' \cap dropped' = {}
      BY <2>8, <2>5, <2>6, <3>1
    <3> QED BY <2>8, <2>4, <2>6, <2>7, <3>2
  <2>9. ASSUME NEW m \in IcmpFor(This, p), dropped' = dropped, icmp' = icmp \cup {m}
        PROVE  FateInv'
    <3>1. m.id = This
      BY DEF IcmpFor
    <3>2. WithIcmp' = WithIcmp \cup {This}
      BY <2>9, <3>1 DEF WithIcmp
    <3>3. IsFiniteSet(icmp')
      BY <2>9, <2>6, FS_AddElement
    <3>4. \A k, l \in icmp' : k.id = l.id => k = l
      BY <2>9, <2>5, <2>6, <3>1 DEF WithIcmp
    <3>5. WithIcmp' \cup dropped' = Rest' /\ WithIcmp' \cap dropped' = {}
      BY <2>9, <2>5, <2>6, <3>2
    <3> QED BY <2>4, <2>7, <3>3, <3>4, <3>5
  <2> QED BY <1>1, <2>8, <2>9
<1>11. CutOnlyIfHeld'
  <2>1. \A k \in DOMAIN sent : arrivals'[sent[k].packet.id] = arrivals[sent[k].packet.id]
    BY <1>3, <1>4 DEF HeaderInv
  <2>2. Held' = Held
    BY <1>1 DEF Held
  <2> QED BY <1>1, <1>2, <2>1, <2>2, CutStays
<1>12. IcmpInv'
  <2>1. \A m \in icmp : arrivals'[m.id] = arrivals[m.id]
    BY <1>3 DEF TypeOK
  <2>2. \A m \in IcmpFor(This, p) : m.id = This
    BY DEF IcmpFor
  <2> QED BY <1>1, <1>3, <2>1, <2>2 DEF IcmpInv, IcmpFor
<1> QED BY <1>5, <1>6, <1>7, <1>8, <1>9, <1>10, <1>11, <1>12

-----------------------------------------------------------------------------
(* A packet that is held or forwarded. *)

LEMMA Appended ==
  ASSUME NEW S, NEW s \in Seq(S), NEW e \in S
  PROVE  LET t == Append(s, e)
         IN  /\ t \in Seq(S) /\ Len(t) = Len(s) + 1 /\ DOMAIN t = DOMAIN s \cup {Len(t)}
             /\ Len(t) \notin DOMAIN s /\ t[Len(t)] = e
             /\ \A k \in DOMAIN s : t[k] = s[k] /\ k \in 1 .. Len(s)
OBVIOUS

\* What holding and forwarding have in common.
LEMMA RoutedOn ==
  ASSUME IInv, NEW p \in Packets, Receive(p), Forwardable(p), LearnSource(p)
  PROVE  /\ arrivals' \in Seq(Packets) /\ Len(arrivals') <= MaxPackets
         /\ q \in Seq(Header') /\ sent \in Seq(SentFrame')
         /\ icmp \subseteq IcmpMessage' /\ dropped \subseteq Known' /\ asked \in Seq(Request')
         /\ pc = "recv" /\ UNCHANGED <<pc, i, new_queue_len, reply, replies, answered, replied>>
         /\ arp_table' \in Seq(Entry)
         /\ heard' \in [DOMAIN heard' -> Macs] /\ DOMAIN heard' \subseteq Addresses
         /\ MacInv' /\ ArpTableExact' /\ ReplyInv'
         /\ This \in Nat \ {0} /\ Known' = Known \cup {This} /\ This \notin Known
         /\ Known \subseteq Nat
         /\ \A n \in Known : n < This /\ arrivals'[n] = arrivals[n]
         /\ arrivals'[This] = p
         /\ \A h : MadeOf(h, arrivals) => MadeOf(h, arrivals') /\ h.id \in Known
         /\ Rewritten(p) \in Header' /\ MadeOf(Rewritten(p), arrivals')
         /\ Rewritten(p).id = This /\ Rewritten(p).dst = p.dst
         /\ {n \in Known' : Forwardable(arrivals'[n])} =
              {n \in Known : Forwardable(arrivals[n])} \cup {This}
<1>1. TypeOK /\ MacInv /\ ArpTableExact /\ ReplyInv
  BY DEF IInv
<1>2. /\ arrivals \in Seq(Packets) /\ arrivals' = Append(arrivals, p)
      /\ arrivals' \in Seq(Packets) /\ Len(arrivals') <= MaxPackets
      /\ q \in Seq(Header') /\ sent \in Seq(SentFrame')
      /\ icmp \subseteq IcmpMessage' /\ dropped \subseteq Known' /\ asked \in Seq(Request')
      /\ pc = "recv" /\ UNCHANGED <<pc, i, new_queue_len, reply, replies, answered, replied>>
  BY <1>1, ReceivedTypes
<1>3. /\ arp_table' \in Seq(Entry) /\ MacInv' /\ ArpTableExact'
      /\ heard' \in [DOMAIN heard' -> Macs] /\ DOMAIN heard' \subseteq Addresses
      /\ DOMAIN heard \subseteq DOMAIN heard'
  BY <1>1, SourceLearnt
<1>4. ReplyInv'
  BY <1>1, <1>2, <1>3 DEF ReplyInv
<1>5. /\ This \in Nat \ {0} /\ Known' = Known \cup {This} /\ This \notin Known
      /\ Known \subseteq Nat
      /\ \A n \in Known : n < This /\ arrivals'[n] = arrivals[n]
      /\ arrivals'[This] = p
  BY <1>2, Arrived
<1>6. /\ \A h : MadeOf(h, arrivals) => MadeOf(h, arrivals') /\ h.id \in Known
  BY <1>2, HeadersKept
<1>7. /\ Rewritten(p) \in Header' /\ MadeOf(Rewritten(p), arrivals')
      /\ Rewritten(p).id = This /\ Rewritten(p).dst = p.dst
  BY <1>2, RewrittenIsHeader
<1>8. {n \in Known' : Forwardable(arrivals'[n])} =
        {n \in Known : Forwardable(arrivals[n])} \cup {This}
  BY <1>5
<1> QED BY <1>2, <1>3, <1>4, <1>5, <1>6, <1>7, <1>8

LEMMA HoldKeeps ==
  ASSUME IInv, NEW p \in Packets, Hold(p)
  PROVE  IInv'
<1> USE DEF IInv
<1> DEFINE h == Rewritten(p)
           a == [id |-> This, hop |-> NextHop(p.dst)]
<1>1. /\ Receive(p) /\ Forwardable(p) /\ LearnSource(p) /\ HopEntry(p) = 0
      /\ q' = Append(q, h) /\ queue_len' = queue_len + 1 /\ asked' = Append(asked, a)
      /\ UNCHANGED <<sent, icmp, dropped>>
  BY DEF Hold
<1>2. /\ arrivals' \in Seq(Packets) /\ Len(arrivals') <= MaxPackets
      /\ q \in Seq(Header') /\ sent \in Seq(SentFrame')
      /\ icmp \subseteq IcmpMessage' /\ dropped \subseteq Known' /\ asked \in Seq(Request')
      /\ pc = "recv" /\ UNCHANGED <<pc, i, new_queue_len, reply, replies, answered, replied>>
      /\ arp_table' \in Seq(Entry)
      /\ heard' \in [DOMAIN heard' -> Macs] /\ DOMAIN heard' \subseteq Addresses
      /\ MacInv' /\ ArpTableExact' /\ ReplyInv'
  BY <1>1, RoutedOn
<1>3. /\ This \in Nat \ {0} /\ Known' = Known \cup {This} /\ This \notin Known
      /\ Known \subseteq Nat
      /\ \A n \in Known : n < This /\ arrivals'[n] = arrivals[n]
      /\ arrivals'[This] = p
      /\ \A g : MadeOf(g, arrivals) => MadeOf(g, arrivals') /\ g.id \in Known
      /\ h \in Header' /\ MadeOf(h, arrivals') /\ h.id = This /\ h.dst = p.dst
      /\ {n \in Known' : Forwardable(arrivals'[n])} =
           {n \in Known : Forwardable(arrivals[n])} \cup {This}
  BY <1>1, RoutedOn
<1>4. NextHop(p.dst) \in Addresses /\ NextHop(p.dst) \notin answered
  <2>1. NextHop(p.dst) \in Addresses
    BY <1>1, ForwardableFacts
  <2>2. \A l \in DOMAIN arp_table' : arp_table'[l].ip # NextHop(p.dst)
    BY <1>1, <1>2, EntryFound DEF HopEntry
  <2>3. NextHop(p.dst) \notin {arp_table'[l].ip : l \in DOMAIN arp_table'}
    BY <2>2
  <2>4. {arp_table'[l].ip : l \in DOMAIN arp_table'} = DOMAIN heard'
    BY <1>2 DEF ArpTableExact
  <2>5. answered \subseteq DOMAIN heard'
    BY <1>2 DEF ReplyInv
  <2> QED BY <2>1, <2>3, <2>4, <2>5
<1>5. a \in Request' /\ a.id = This
  BY <1>3, <1>4 DEF Request
<1> HIDE DEF h
<1>6. /\ q' \in Seq(Header') /\ Len(q') = Len(q) + 1 /\ DOMAIN q' = DOMAIN q \cup {Len(q')}
      /\ Len(q') \notin DOMAIN q /\ q'[Len(q')] = h
      /\ \A k \in DOMAIN q : q'[k] = q[k] /\ k \in 1 .. Len(q)
  BY <1>1, <1>2, <1>3, Appended
<1>7. /\ asked' \in Seq(Request') /\ DOMAIN asked' = DOMAIN asked \cup {Len(asked')}
      /\ asked'[Len(asked')] = a
      /\ \A k \in DOMAIN asked : asked'[k] = asked[k]
  <2> HIDE DEF a
  <2> QED BY <1>1, <1>2, <1>5, Appended
<1>8. TypeOK'
  <2>1. queue_len' \in Nat
    BY <1>1 DEF TypeOK
  <2> QED BY <1>1, <1>2, <1>6, <1>7, <2>1 DEF TypeOK, SentFrame, IcmpMessage, Request, Entry
<1>9. HeaderInv'
  BY <1>1, <1>3, <1>6 DEF HeaderInv
<1>10. QueueLenExact'
  BY <1>1, <1>2, <1>6 DEF QueueLenExact
<1>11. OrderInv'
  <2>1. Left = Len(q) /\ Left' = Len(q') /\ Len(q) \in Nat
    BY <1>2 DEF Left
  <2>2. \A k \in DOMAIN q : q[k].id < This
    BY <1>3 DEF HeaderInv
  <2>3. \A k, l \in DOMAIN q : k < l => q[k].id < q[l].id
    BY <1>6, <2>1 DEF OrderInv
  <2>4. \A k, l \in DOMAIN q' : k < l => q'[k].id < q'[l].id
    BY <1>3, <1>6, <2>1, <2>2, <2>3
  <2>5. \A l \in DOMAIN q' : ~(l > Left')
    BY <1>6, <2>1
  <2> QED BY <2>4, <2>5 DEF OrderInv
<1>12. WaitInv'
  <2>1. a \in {asked'[l] : l \in DOMAIN asked'}
        /\ {asked[l] : l \in DOMAIN asked} \subseteq {asked'[l] : l \in DOMAIN asked'}
    BY <1>7
  <2>2. ASSUME NEW k \in DOMAIN q'
        PROVE  /\ [id |-> q'[k].id, hop |-> NextHop(q'[k].dst)] \in {asked'[l] : l \in DOMAIN asked'}
               /\ NextHop(q'[k].dst) \notin answered'
    <3>1. CASE k \in DOMAIN q
      BY <1>2, <1>6, <2>1, <3>1 DEF WaitInv
    <3>2. CASE k = Len(q')
      BY <1>2, <1>3, <1>4, <1>6, <2>1, <3>2
    <3> QED BY <1>6, <3>1, <3>2
  <2> QED BY <2>2 DEF WaitInv
<1>13. FateInv'
  <2>1. Waiting' = Waiting \cup {This} /\ Sent' = Sent
    BY <1>1, <1>3, <1>6 DEF Waiting, Sent
  <2>2. Waiting \cup Sent \subseteq Known /\ WithIcmp' = WithIcmp
    BY <1>1 DEF FateInv, WithIcmp
  <2>3. \A k \in DOMAIN q : q[k].id # This
    BY <1>3 DEF HeaderInv
  <2>4. \A k, l \in DOMAIN q' : q'[k].id = q'[l].id => k = l
    BY <1>3, <1>6, <2>3 DEF FateInv
  <2>5. Waiting' \cup Sent' = {n \in Known' : Forwardable(arrivals'[n])}
        /\ Waiting' \cap Sent' = {}
    BY <1>3, <2>1, <2>2 DEF FateInv
  <2>6. WithIcmp' \cup dropped' = Known' \ (Waiting' \cup Sent') /\ WithIcmp' \cap dropped' = {}
    BY <1>1, <1>3, <2>1, <2>2 DEF FateInv
  <2>7. IsFiniteSet(icmp') /\ (\A m, n \in icmp' : m.id = n.id => m = n)
        /\ \A k, l \in DOMAIN sent' : sent'[k].packet.id = sent'[l].packet.id => k = l
    BY <1>1 DEF FateInv
  <2> QED BY <2>4, <2>5, <2>6, <2>7 DEF FateInv
<1>14. CutOnlyIfHeld' /\ IcmpInv'
  <2>1. \A k \in DOMAIN sent :
          /\ arrivals'[sent[k].packet.id] = arrivals[sent[k].packet.id]
          /\ sent[k].packet.id # This
    <3>1. \A k \in DOMAIN sent : MadeOf(sent[k].packet, arrivals)
      BY DEF HeaderInv
    <3> HIDE DEF IInv
    <3> QED BY <1>3, <3>1
  <2>2. Held' = Held \cup {This}
    <3> HIDE DEF IInv, a
    <3>1. \A k \in DOMAIN asked' : asked'[k].id \in Held \cup {This}
      BY <1>5, <1>7 DEF Held
    <3>2. \A k \in DOMAIN asked : asked[k].id \in Held'
      BY <1>7 DEF Held
    <3>3. This \in Held'
      BY <1>5, <1>7 DEF Held
    <3> QED BY <3>1, <3>2, <3>3 DEF Held
  <2>4. CutOnlyIfHeld'
    BY <1>1, <1>2, <2>1, <2>2, CutStays
  <2>5. \A m \in icmp : arrivals'[m.id] = arrivals[m.id]
    BY <1>3 DEF TypeOK
  <2>6. IcmpInv'
    BY <1>1, <2>5 DEF IcmpInv
  <2> QED BY <2>4, <2>6
<1> QED BY <1>2, <1>8, <1>9, <1>10, <1>11, <1>12, <1>13, <1>14

LEMMA ForwardKeeps ==
  ASSUME IInv, NEW p \in Packets, Forward(p)
  PROVE  IInv'
<1> USE DEF IInv
<1> DEFINE h == Rewritten(p)
           f == Frame(h, arp_table'[HopEntry(p)].mac, p.len)
<1>1. /\ Receive(p) /\ Forwardable(p) /\ LearnSource(p) /\ HopEntry(p) # 0
      /\ sent' = Append(sent, f)
      /\ UNCHANGED <<q, queue_len, icmp, dropped, asked>>
  BY DEF Forward, queue
<1>2. /\ arrivals' \in Seq(Packets) /\ Len(arrivals') <= MaxPackets
      /\ q \in Seq(Header') /\ sent \in Seq(SentFrame')
      /\ icmp \subseteq IcmpMessage' /\ dropped \subseteq Known' /\ asked \in Seq(Request')
      /\ pc = "recv" /\ UNCHANGED <<pc, i, new_queue_len, reply, replies, answered, replied>>
      /\ arp_table' \in Seq(Entry)
      /\ heard' \in [DOMAIN heard' -> Macs] /\ DOMAIN heard' \subseteq Addresses
      /\ MacInv' /\ ArpTableExact' /\ ReplyInv'
  BY <1>1, RoutedOn
<1>3. /\ This \in Nat \ {0} /\ Known' = Known \cup {This} /\ This \notin Known
      /\ Known \subseteq Nat
      /\ \A n \in Known : n < This /\ arrivals'[n] = arrivals[n]
      /\ arrivals'[This] = p
      /\ \A g : MadeOf(g, arrivals) => MadeOf(g, arrivals') /\ g.id \in Known
      /\ h \in Header' /\ MadeOf(h, arrivals') /\ h.id = This /\ h.dst = p.dst
      /\ h.ttl = p.ttl - 1
      /\ {n \in Known' : Forwardable(arrivals'[n])} =
           {n \in Known : Forwardable(arrivals[n])} \cup {This}
  BY <1>1, RoutedOn DEF Rewritten
<1>4. arp_table'[HopEntry(p)].mac \in Macs
  <2>1. HopEntry(p) \in DOMAIN arp_table'
    BY <1>1, <1>2, EntryFound DEF HopEntry
  <2>2. arp_table'[HopEntry(p)] \in Entry
    BY <1>2, <2>1
  <2> QED BY <2>2 DEF Entry
<1> HIDE DEF h
<1>5. f \in SentFrame' /\ f.packet = h /\ f.len = p.len
  <2>1. p.len \in Nat /\ rtable[Best(p.dst)].interface \in Nat
    BY <1>1, ForwardableFacts, PacketFields
  <2> QED BY <1>3, <1>4, <2>1 DEF Frame, SentFrame
<1> HIDE DEF f
<1>6. /\ sent' \in Seq(SentFrame') /\ DOMAIN sent' = DOMAIN sent \cup {Len(sent')}
      /\ Len(sent') \notin DOMAIN sent /\ sent'[Len(sent')] = f
      /\ \A k \in DOMAIN sent : sent'[k] = sent[k]
  BY <1>1, <1>2, <1>5, Appended
<1>7. TypeOK'
  BY <1>1, <1>2, <1>6 DEF TypeOK, SentFrame, IcmpMessage, Request, Entry
<1>8. HeaderInv'
  BY <1>1, <1>3, <1>5, <1>6 DEF HeaderInv
<1>9. QueueLenExact' /\ OrderInv' /\ WaitInv'
  BY <1>1, <1>2 DEF QueueLenExact, OrderInv, WaitInv, Left
<1>10. FateInv'
  <2>1. Waiting' = Waiting /\ Sent' = Sent \cup {This}
    BY <1>1, <1>3, <1>5, <1>6 DEF Waiting, Sent
  <2>2. Waiting \cup Sent \subseteq Known /\ WithIcmp' = WithIcmp
    BY <1>1 DEF FateInv, WithIcmp
  <2>3. \A k \in DOMAIN sent : sent[k].packet.id # This
    BY <1>3 DEF HeaderInv
  <2>4. \A k, l \in DOMAIN sent' : sent'[k].packet.id = sent'[l].packet.id => k = l
    <3>1. sent'[Len(sent')].packet.id = This
      BY <1>3, <1>5, <1>6
    <3>2. \A k, l \in DOMAIN sent : sent[k].packet.id = sent[l].packet.id => k = l
      BY DEF FateInv
    <3> QED BY <1>6, <2>3, <3>1, <3>2
  <2>5. Waiting' \cup Sent' = {n \in Known' : Forwardable(arrivals'[n])}
        /\ Waiting' \cap Sent' = {}
    BY <1>3, <2>1, <2>2 DEF FateInv
  <2>6. WithIcmp' \cup dropped' = Known' \ (Waiting' \cup Sent') /\ WithIcmp' \cap dropped' = {}
    BY <1>1, <1>3, <2>1, <2>2 DEF FateInv
  <2>7. IsFiniteSet(icmp') /\ (\A m, n \in icmp' : m.id = n.id => m = n)
        /\ \A k, l \in DOMAIN q' : q'[k].id = q'[l].id => k = l
    BY <1>1 DEF FateInv
  <2> QED BY <2>4, <2>5, <2>6, <2>7 DEF FateInv
<1>11. CutOnlyIfHeld' /\ IcmpInv'
  <2>1. \A k \in DOMAIN sent : arrivals'[sent[k].packet.id] = arrivals[sent[k].packet.id]
    BY <1>3 DEF HeaderInv
  <2>2. asked' = asked /\ asked \in Seq(Request)
    BY <1>1 DEF TypeOK, Request
  <2>3. Held' = Held /\ This \notin Held
    <3>1. \A k \in DOMAIN asked : asked[k] \in Request
      BY <2>2
    <3>2. \A k \in DOMAIN asked : asked[k].id \in Known
      BY <3>1 DEF Request
    <3> QED BY <1>3, <2>2, <3>2 DEF Held
  <2>7. CutOnlyIfHeld'
    <3> SUFFICES ASSUME NEW k \in DOMAIN sent'
                 PROVE  LET g == sent'[k]
                            a == arrivals'[g.packet.id]
                        IN  IF g.packet.id \in Held
                            THEN \E r \in Replies : r.ip = NextHop(a.dst) /\ r.ip \in answered
                                                    /\ g.len = r.len
                            ELSE g.len = a.len
      BY <1>2, <2>3 DEF CutOnlyIfHeld
    <3>1. CASE k \in DOMAIN sent
      <4>1. sent'[k] = sent[k] /\ arrivals'[sent'[k].packet.id] = arrivals[sent[k].packet.id]
        BY <1>6, <2>1, <3>1
      <4> QED BY <3>1, <4>1, Zenon DEF CutOnlyIfHeld
    <3>2. CASE k = Len(sent')
      <4>1. sent'[k] = f /\ f.packet = h /\ arrivals'[h.id] = p /\ h.id \notin Held
        BY <1>3, <1>5, <1>6, <2>3, <3>2
      <4>2. /\ arrivals'[sent'[k].packet.id] = p /\ sent'[k].packet.id \notin Held
            /\ sent'[k].len = p.len
        BY <1>5, <4>1
      <4> QED BY <4>2, Zenon
    <3> QED BY <1>6, <3>1, <3>2
  <2>5. \A m \in icmp : arrivals'[m.id] = arrivals[m.id]
    BY <1>3 DEF TypeOK
  <2>6. IcmpInv'
    BY <1>1, <2>5 DEF IcmpInv
  <2> QED BY <2>6, <2>7
<1> QED BY <1>2, <1>7, <1>8, <1>9, <1>10, <1>11

-----------------------------------------------------------------------------
(* ARP frames and the loop over the queue. *)

\* What an ARP frame leaves alone.
LEMMA Undisturbed ==
  ASSUME UNCHANGED <<q, arrivals, sent, icmp, dropped, asked>>
  PROVE  /\ Known' = Known /\ Header' = Header /\ Held' = Held
         /\ (FateInv => FateInv') /\ (IcmpInv => IcmpInv')
<1>1. Known' = Known /\ Waiting' = Waiting /\ Sent' = Sent /\ WithIcmp' = WithIcmp /\ Held' = Held
  BY DEF Known, Waiting, Sent, WithIcmp, Held
<1>2. Header' = Header
  BY <1>1 DEF Header
<1>3. {n \in Known' : Forwardable(arrivals'[n])} = {n \in Known : Forwardable(arrivals[n])}
  BY <1>1
<1>4. FateInv => FateInv'
  BY <1>1, <1>3 DEF FateInv
<1>5. IcmpInv => IcmpInv'
  BY DEF IcmpInv
<1> QED BY <1>1, <1>2, <1>4, <1>5

LEMMA ArpRequestKeeps ==
  ASSUME IInv, NEW h \in Askers, ArpRequest(h)
  PROVE  IInv'
<1> USE DEF IInv
<1>1. /\ replied' = replied \cup {h}
      /\ UNCHANGED <<arp_table, q, queue_len, pc, i, new_queue_len, reply, arrivals, replies,
                     sent, icmp, dropped, asked, answered, heard>>
  BY DEF ArpRequest, arp, queue, loop
<1>2. TypeOK'
  BY <1>1 DEF TypeOK, Header, Known
<1>3. HeaderInv' /\ QueueLenExact' /\ OrderInv' /\ WaitInv' /\ ReplyInv' /\ MacInv'
  BY <1>1 DEF HeaderInv, QueueLenExact, OrderInv, WaitInv, Left, ReplyInv, MacInv
<1>4. FateInv'
  BY <1>1, Undisturbed
<1>5. ArpTableExact' /\ IcmpInv' /\ CutOnlyIfHeld'
  <2>1. Held' = Held
    BY <1>1, Undisturbed
  <2> QED BY <1>1, <2>1 DEF ArpTableExact, IcmpInv, CutOnlyIfHeld
<1> QED BY <1>2, <1>3, <1>4, <1>5

LEMMA ArpReplyKeeps ==
  ASSUME IInv, NEW r \in Replies, ArpReply(r)
  PROVE  IInv'
<1> USE DEF IInv
<1>1. /\ pc = "recv" /\ replies < MaxReplies
      /\ replies' = replies + 1 /\ answered' = answered \cup {r.ip}
      /\ arp_table' = Learnt(r.ip, r.mac) /\ Hear(r.ip, r.mac)
      /\ reply' = r /\ i' = 0 /\ new_queue_len' = queue_len /\ pc' = "drain"
      /\ UNCHANGED <<q, queue_len, arrivals, sent, icmp, dropped, asked, replied>>
  BY DEF ArpReply, queue
<1>2. r.ip \in Addresses /\ r.mac \in Macs
  BY RouterAssumption
<1>3. /\ arp_table' \in Seq(Entry) /\ MacInv' /\ ArpTableExact'
      /\ heard' \in [DOMAIN heard' -> Macs] /\ DOMAIN heard' \subseteq Addresses
      /\ DOMAIN heard' = DOMAIN heard \cup {r.ip} /\ heard'[r.ip] = r.mac
  BY <1>1, <1>2, LearntKeeps
<1>4. Known' = Known /\ Header' = Header
  BY <1>1, Undisturbed
<1>5. TypeOK'
  <2>1. replies' \in 0 .. MaxReplies /\ queue_len \in Nat
    <3>1. replies \in 0 .. MaxReplies /\ MaxReplies \in Nat /\ queue_len \in Nat
      BY RouterAssumption DEF TypeOK
    <3> HIDE DEF IInv
    <3> QED BY <1>1, <3>1
  <2> QED BY <1>1, <1>2, <1>3, <1>4, <2>1 DEF TypeOK, Entry
<1>7. HeaderInv' /\ ReplyInv'
  BY <1>1, <1>3 DEF HeaderInv, ReplyInv
<1>8. QueueLenExact' /\ Len(q) \in Nat /\ queue_len = Len(q)
  BY <1>1 DEF QueueLenExact, TypeOK
<1>9. OrderInv' /\ WaitInv'
  <2>1. Left = Len(q) /\ Left' = Len(q) /\ \A k \in DOMAIN q : k <= Len(q)
    BY <1>1, <1>8 DEF Left, TypeOK
  <2>2. OrderInv'
    BY <1>1, <2>1 DEF OrderInv
  <2>3. WaitInv'
    BY <1>1, <2>1 DEF WaitInv
  <2> QED BY <2>2, <2>3
<1>10. FateInv' /\ IcmpInv' /\ CutOnlyIfHeld'
  <2>1. Held' = Held /\ FateInv' /\ IcmpInv'
    BY <1>1, Undisturbed
  <2>2. CutOnlyIfHeld'
    BY <1>1, <2>1 DEF CutOnlyIfHeld
  <2> QED BY <2>1, <2>2
<1> QED BY <1>3, <1>5, <1>7, <1>8, <1>9, <1>10

\* The loop never meets an empty queue.
LEMMA LoopFacts ==
  ASSUME IInv, Draining
  PROVE  /\ q \in Seq(Header) /\ Len(q) \in Nat /\ Len(q) > 0 /\ 1 \in DOMAIN q /\ Head(q) = q[1]
         /\ i \in Nat /\ queue_len \in Nat /\ new_queue_len = Len(q)
         /\ Left = queue_len - i /\ 0 < Left /\ Left <= Len(q) /\ Left \in Nat
         /\ reply \in Replies /\ reply.ip \in answered
         /\ reply.ip \in DOMAIN heard /\ reply.mac = heard[reply.ip]
<1>1. /\ q \in Seq(Header) /\ i \in Nat /\ queue_len \in Nat
  BY DEF IInv, TypeOK
<1>2. pc = "drain" /\ i < queue_len
  BY DEF Draining
<1>3. new_queue_len = Len(q) /\ queue_len - i <= Len(q)
  BY <1>2 DEF IInv, QueueLenExact
<1>4. /\ reply \in Replies /\ reply.ip \in answered
      /\ reply.ip \in DOMAIN heard /\ reply.mac = heard[reply.ip]
  BY <1>2 DEF IInv, ReplyInv
<1>5. Left = queue_len - i
  BY <1>2 DEF Left
<1> QED BY <1>1, <1>2, <1>3, <1>4, <1>5

\* What one more frame adds to those sent.
LEMMA SentGrows ==
  ASSUME sent \in Seq(SentFrame), NEW f, sent' = Append(sent, f)
  PROVE  Sent' = Sent \cup {f.packet.id}
<1>1. /\ DOMAIN sent' = DOMAIN sent \cup {Len(sent')} /\ sent'[Len(sent')] = f
      /\ \A k \in DOMAIN sent : sent'[k] = sent[k]
  OBVIOUS
<1>2. \A k \in DOMAIN sent' : sent'[k].packet.id \in Sent \cup {f.packet.id}
  BY <1>1 DEF Sent
<1>3. \A k \in DOMAIN sent : sent[k].packet.id \in Sent'
  BY <1>1 DEF Sent
<1>4. f.packet.id \in Sent'
  BY <1>1 DEF Sent
<1> QED BY <1>2, <1>3, <1>4 DEF Sent

LEMMA DrainForwardKeeps ==
  ASSUME IInv, DrainForward
  PROVE  IInv'
<1> USE DEF IInv
<1> DEFINE n == Len(q)
           h == q[1]
           f == Frame(h, reply.mac, reply.len)
<1>1. /\ q \in Seq(Header) /\ n \in Nat /\ n > 0 /\ 1 \in DOMAIN q /\ Head(q) = h
      /\ i \in Nat /\ queue_len \in Nat /\ new_queue_len = n
      /\ Left = queue_len - i /\ 0 < Left /\ Left <= n /\ Left \in Nat
      /\ reply \in Replies /\ reply.ip \in answered
  BY LoopFacts DEF DrainForward
<1>2. /\ pc = "drain" /\ NextHop(h.dst) = reply.ip
      /\ q' = Tail(q) /\ sent' = Append(sent, f)
      /\ new_queue_len' = new_queue_len - 1 /\ i' = i + 1
      /\ UNCHANGED <<arp_table, asked, heard, replies, answered, replied, queue_len, pc,
                     reply, arrivals, icmp, dropped>>
  BY <1>1 DEF DrainForward, Draining, arp, arpIn
<1>3. /\ q' \in Seq(Header) /\ Len(q') = n - 1 /\ DOMAIN q' = 1 .. (n - 1) /\ DOMAIN q = 1 .. n
      /\ \A k \in DOMAIN q' : k + 1 \in DOMAIN q /\ q'[k] = q[k + 1]
  BY <1>1, <1>2
<1>4. Known' = Known /\ Header' = Header
  <2>1. Known' = Known
    BY <1>2 DEF Known
  <2> QED BY <2>1 DEF Header
<1>5. h \in Header /\ MadeOf(h, arrivals) /\ h.id \in Known /\ Forwardable(arrivals[h.id])
      /\ h.dst = arrivals[h.id].dst /\ h.ttl = arrivals[h.id].ttl - 1
  <2>1. h \in Header /\ MadeOf(h, arrivals)
    BY <1>1 DEF HeaderInv
  <2> QED BY <2>1 DEF MadeOf, HeaderOf, Known
<1>6. arrivals[h.id] \in Packets /\ h.dst \in Addresses /\ Best(h.dst) # 0
  BY <1>5, ForwardableFacts DEF TypeOK, Known
<1>7. f.packet = h /\ f.len = reply.len /\ f \in SentFrame
  <2>1. reply.mac \in Macs /\ reply.len \in Nat
    BY <1>1, RouterAssumption
  <2>2. rtable[Best(h.dst)].interface \in Nat
    BY <1>6, Rows
  <2> QED BY <1>2, <1>5, <2>1, <2>2 DEF Frame, SentFrame
<1> HIDE DEF f
<1>8. sent \in Seq(SentFrame)
  BY DEF TypeOK, SentFrame
<1>9. /\ sent' \in Seq(SentFrame) /\ DOMAIN sent' = DOMAIN sent \cup {Len(sent')}
      /\ Len(sent') \notin DOMAIN sent /\ sent'[Len(sent')] = f
      /\ \A k \in DOMAIN sent : sent'[k] = sent[k]
  BY <1>2, <1>7, <1>8, Appended
<1> HIDE DEF n, h
<1>10. TypeOK'
  <2>1. new_queue_len' \in Nat /\ i' \in Nat /\ q' \in Seq(Header') /\ sent' \in Seq(SentFrame)
    BY <1>1, <1>2, <1>3, <1>4, <1>9
  <2> QED BY <1>2, <1>4, <2>1 DEF TypeOK, SentFrame
<1>11. HeaderInv'
  BY <1>2, <1>3, <1>5, <1>7, <1>9 DEF HeaderInv
<1>12. QueueLenExact'
  BY <1>1, <1>2, <1>3 DEF QueueLenExact
<1>13. Left' = Left - 1
  BY <1>1, <1>2 DEF Left
<1>14. OrderInv'
  <2>1. ASSUME NEW k \in DOMAIN q', NEW l \in DOMAIN q'
        PROVE  /\ (k < l /\ (l <= Left' \/ k > Left')) => q'[k].id < q'[l].id
               /\ (k <= Left' /\ l > Left') => q'[l].id < q'[k].id
    <3>1. /\ k \in Nat /\ l \in Nat /\ k + 1 \in DOMAIN q /\ l + 1 \in DOMAIN q
          /\ q'[k] = q[k + 1] /\ q'[l] = q[l + 1]
      BY <1>3
    <3>2. /\ (k + 1 < l + 1 /\ (l + 1 <= Left \/ k + 1 > Left)) => q[k + 1].id < q[l + 1].id
          /\ (k + 1 <= Left /\ l + 1 > Left) => q[l + 1].id < q[k + 1].id
      BY <3>1 DEF OrderInv
    <3> QED BY <1>1, <1>13, <3>1, <3>2
  <2> QED BY <2>1 DEF OrderInv
<1>15. WaitInv'
  <2>1. ASSUME NEW k \in DOMAIN q'
        PROVE  /\ [id |-> q'[k].id, hop |-> NextHop(q'[k].dst)] \in {asked[l] : l \in DOMAIN asked}
               /\ NextHop(q'[k].dst) \in answered => NextHop(q'[k].dst) = reply.ip /\ k <= Left'
    <3>1. k \in Nat /\ k + 1 \in DOMAIN q /\ q'[k] = q[k + 1]
      BY <1>3
    <3>2. /\ [id |-> q[k + 1].id, hop |-> NextHop(q[k + 1].dst)] \in {asked[l] : l \in DOMAIN asked}
          /\ NextHop(q[k + 1].dst) \in answered => NextHop(q[k + 1].dst) = reply.ip /\ k + 1 <= Left
      BY <3>1 DEF WaitInv
    <3> QED BY <1>1, <1>13, <3>1, <3>2
  <2> QED BY <1>2, <2>1 DEF WaitInv
<1>16. ReplyInv' /\ MacInv' /\ ArpTableExact' /\ IcmpInv'
  BY <1>2 DEF ReplyInv, MacInv, ArpTableExact, IcmpInv
<1>17. FateInv'
  <2>1. Waiting = Waiting' \cup {h.id} /\ h.id \notin Waiting'
    <3>1. \A k \in DOMAIN q : k = 1 \/ (k - 1 \in DOMAIN q' /\ q'[k - 1] = q[k])
      BY <1>1, <1>3
    <3>2. \A k \in DOMAIN q' : q'[k].id # h.id
      <4> SUFFICES ASSUME NEW k \in DOMAIN q', q'[k].id = h.id PROVE FALSE
        OBVIOUS
      <4>1. k + 1 \in DOMAIN q /\ q[k + 1].id = q[1].id /\ k + 1 # 1
        BY <1>3 DEF h
      <4> QED BY <1>1, <4>1 DEF FateInv
    <3> QED BY <1>1, <1>3, <3>1, <3>2 DEF Waiting, h
  <2>2. Sent' = Sent \cup {h.id} /\ h.id \notin Sent
    <3>1. Sent' = Sent \cup {h.id}
      BY <1>2, <1>7, <1>8, SentGrows
    <3> QED BY <2>1, <3>1 DEF FateInv
  <2>3. WithIcmp' = WithIcmp /\ {m \in Known' : Forwardable(arrivals'[m])} = {m \in Known : Forwardable(arrivals[m])}
    BY <1>2, <1>4 DEF WithIcmp
  <2>4. Waiting' \cup Sent' = Waiting \cup Sent /\ Waiting' \cap Sent' = {}
    BY <2>1, <2>2 DEF FateInv
  <2>5. \A k, l \in DOMAIN q' : q'[k].id = q'[l].id => k = l
    <3> SUFFICES ASSUME NEW k \in DOMAIN q', NEW l \in DOMAIN q', q'[k].id = q'[l].id
                 PROVE  k = l
      OBVIOUS
    <3>1. k + 1 \in DOMAIN q /\ l + 1 \in DOMAIN q /\ q[k + 1].id = q[l + 1].id
      BY <1>3
    <3>2. k + 1 = l + 1
      BY <3>1 DEF FateInv
    <3> QED BY <1>3, <3>2
  <2>6. \A k, l \in DOMAIN sent' : sent'[k].packet.id = sent'[l].packet.id => k = l
    <3>1. sent'[Len(sent')].packet.id = h.id /\ \A k \in DOMAIN sent : sent[k].packet.id # h.id
      BY <1>7, <1>9, <2>2 DEF Sent
    <3>2. \A k, l \in DOMAIN sent : sent[k].packet.id = sent[l].packet.id => k = l
      BY DEF FateInv
    <3> QED BY <1>9, <3>1, <3>2
  <2> QED BY <1>2, <1>4, <2>3, <2>4, <2>5, <2>6 DEF FateInv
<1>19. CutOnlyIfHeld'
  <2>1. Held' = Held
    BY <1>2 DEF Held
  <2> SUFFICES ASSUME NEW k \in DOMAIN sent'
               PROVE  LET g == sent'[k]
                          a == arrivals[g.packet.id]
                      IN  IF g.packet.id \in Held
                          THEN \E r \in Replies : r.ip = NextHop(a.dst) /\ r.ip \in answered
                                                  /\ g.len = r.len
                          ELSE g.len = a.len
    BY <1>2, <2>1 DEF CutOnlyIfHeld
  <2>2. CASE k \in DOMAIN sent
    <3>1. sent'[k] = sent[k]
      BY <1>9, <2>2
    <3> QED BY <2>2, <3>1, Zenon DEF CutOnlyIfHeld
  <2>3. CASE k = Len(sent')
    <3>1. sent'[k].packet = h /\ sent'[k].len = reply.len
      BY <1>7, <1>9, <2>3
    <3>2. h.id \in Held
      <4>1. [id |-> h.id, hop |-> NextHop(h.dst)] \in {asked[l] : l \in DOMAIN asked}
        BY <1>1 DEF WaitInv, h
      <4> QED BY <4>1 DEF Held
    <3>3. reply.ip = NextHop(arrivals[h.id].dst)
      BY <1>2, <1>5
    <3> QED BY <1>1, <3>1, <3>2, <3>3, Zenon
  <2> QED BY <1>9, <2>2, <2>3
<1> QED BY <1>10, <1>11, <1>12, <1>14, <1>15, <1>16, <1>17, <1>19

LEMMA DrainRotateKeeps ==
  ASSUME IInv, DrainRotate
  PROVE  IInv'
<1> USE DEF IInv
<1> DEFINE n == Len(q)
<1>1. /\ q \in Seq(Header) /\ n \in Nat /\ n > 0 /\ 1 \in DOMAIN q /\ Head(q) = q[1]
      /\ i \in Nat /\ queue_len \in Nat /\ new_queue_len = n
      /\ Left = queue_len - i /\ 0 < Left /\ Left <= n /\ Left \in Nat
      /\ reply \in Replies /\ reply.ip \in answered
  BY LoopFacts DEF DrainRotate
<1>2. /\ pc = "drain" /\ NextHop(q[1].dst) # reply.ip
      /\ q' = Append(Tail(q), Head(q)) /\ i' = i + 1
      /\ UNCHANGED <<arp_table, asked, heard, replies, answered, replied, queue_len, pc,
                     reply, new_queue_len, arrivals, sent, icmp, dropped>>
  BY <1>1 DEF DrainRotate, Draining, arp, arpIn
<1>3. /\ q' \in Seq(Header) /\ Len(q') = n /\ DOMAIN q' = 1 .. n /\ DOMAIN q = 1 .. n
      /\ q'[n] = q[1]
      /\ \A k \in DOMAIN q' : k # n => k + 1 \in DOMAIN q /\ q'[k] = q[k + 1]
  <2>1. Tail(q) \in Seq(Header) /\ Len(Tail(q)) = n - 1
        /\ \A k \in 1 .. (n - 1) : Tail(q)[k] = q[k + 1]
    BY <1>1
  <2>2. q[1] \in Header
    BY <1>1
  <2> QED BY <1>1, <1>2, <2>1, <2>2
<1> HIDE DEF n
<1>4. Known' = Known /\ Header' = Header
  <2>1. Known' = Known
    BY <1>2 DEF Known
  <2> QED BY <2>1 DEF Header
<1>5. TypeOK'
  <2>1. i' \in Nat /\ q' \in Seq(Header')
    BY <1>1, <1>2, <1>3, <1>4
  <2> QED BY <1>2, <1>4, <2>1 DEF TypeOK
<1>6. HeaderInv'
  BY <1>1, <1>2, <1>3 DEF HeaderInv
<1>7. QueueLenExact'
  BY <1>1, <1>2, <1>3 DEF QueueLenExact
<1>8. Left' = Left - 1
  BY <1>1, <1>2 DEF Left
<1>9. OrderInv'
  <2>1. ASSUME NEW k \in DOMAIN q', NEW l \in DOMAIN q'
        PROVE  /\ (k < l /\ (l <= Left' \/ k > Left')) => q'[k].id < q'[l].id
               /\ (k <= Left' /\ l > Left') => q'[l].id < q'[k].id
    <3>1. k \in 1 .. n /\ l \in 1 .. n
      BY <1>3
    <3>2. CASE k # n /\ l # n
      <4>1. /\ k + 1 \in DOMAIN q /\ l + 1 \in DOMAIN q
            /\ q'[k] = q[k + 1] /\ q'[l] = q[l + 1]
        BY <1>3, <3>2
      <4>2. /\ (k + 1 < l + 1 /\ (l + 1 <= Left \/ k + 1 > Left)) => q[k + 1].id < q[l + 1].id
            /\ (k + 1 <= Left /\ l + 1 > Left) => q[l + 1].id < q[k + 1].id
        BY <4>1 DEF OrderInv
      <4> QED BY <1>1, <1>8, <3>1, <4>1, <4>2
    <3>3. CASE k # n /\ l = n
      <4>1. k + 1 \in DOMAIN q /\ q'[k] = q[k + 1] /\ q'[l] = q[1]
        BY <1>3, <3>3
      <4>2. /\ (1 < k + 1 /\ k + 1 <= Left) => q[1].id < q[k + 1].id
            /\ (1 <= Left /\ k + 1 > Left) => q[k + 1].id < q[1].id
        BY <1>1, <4>1 DEF OrderInv
      <4> QED BY <1>1, <1>8, <3>1, <3>3, <4>1, <4>2
    <3>4. CASE k = n
      BY <1>1, <1>8, <3>1, <3>4
    <3> QED BY <3>2, <3>3, <3>4
  <2> QED BY <2>1 DEF OrderInv
<1>10. WaitInv'
  <2>1. ASSUME NEW k \in DOMAIN q'
        PROVE  /\ [id |-> q'[k].id, hop |-> NextHop(q'[k].dst)] \in {asked[l] : l \in DOMAIN asked}
               /\ NextHop(q'[k].dst) \in answered => NextHop(q'[k].dst) = reply.ip /\ k <= Left'
    <3>1. CASE k # n
      <4>1. k \in Nat /\ k + 1 \in DOMAIN q /\ q'[k] = q[k + 1]
        BY <1>3, <3>1
      <4>2. /\ [id |-> q[k + 1].id, hop |-> NextHop(q[k + 1].dst)] \in {asked[l] : l \in DOMAIN asked}
            /\ NextHop(q[k + 1].dst) \in answered => NextHop(q[k + 1].dst) = reply.ip /\ k + 1 <= Left
        BY <4>1 DEF WaitInv
      <4> QED BY <1>1, <1>8, <4>1, <4>2
    <3>2. CASE k = n
      <4>1. /\ [id |-> q[1].id, hop |-> NextHop(q[1].dst)] \in {asked[l] : l \in DOMAIN asked}
            /\ NextHop(q[1].dst) \notin answered
        BY <1>1, <1>2 DEF WaitInv
      <4> QED BY <1>3, <3>2, <4>1
    <3> QED BY <3>1, <3>2
  <2> QED BY <1>2, <2>1 DEF WaitInv
<1>11. ReplyInv' /\ MacInv' /\ ArpTableExact' /\ IcmpInv'
  BY <1>2 DEF ReplyInv, MacInv, ArpTableExact, IcmpInv
<1>12. CutOnlyIfHeld'
  <2>1. Held' = Held
    BY <1>2 DEF Held
  <2> QED BY <1>2, <2>1 DEF CutOnlyIfHeld
<1>13. FateInv'
  <2>1. Waiting' = Waiting
    <3>1. \A k \in DOMAIN q : \E l \in DOMAIN q' : q'[l] = q[k]
      <4> SUFFICES ASSUME NEW k \in DOMAIN q PROVE \E l \in DOMAIN q' : q'[l] = q[k]
        OBVIOUS
      <4>1. CASE k = 1
        BY <1>1, <1>3, <4>1
      <4>2. CASE k # 1
        <5>1. k - 1 \in DOMAIN q' /\ k - 1 # n
          BY <1>1, <1>3, <4>2
        <5>2. q'[k - 1] = q[k]
          BY <1>1, <1>3, <5>1
        <5> QED BY <5>1, <5>2
      <4> QED BY <4>1, <4>2
    <3>2. \A l \in DOMAIN q' : \E k \in DOMAIN q : q'[l] = q[k]
      BY <1>1, <1>3
    <3> QED BY <3>1, <3>2 DEF Waiting
  <2>2. Sent' = Sent /\ WithIcmp' = WithIcmp
        /\ {m \in Known' : Forwardable(arrivals'[m])} = {m \in Known : Forwardable(arrivals[m])}
    BY <1>2, <1>4 DEF Sent, WithIcmp
  <2>3. \A k, l \in DOMAIN q' : q'[k].id = q'[l].id => k = l
    <3>1. \A k, l \in DOMAIN q : q[k].id = q[l].id => k = l
      BY DEF FateInv
    <3> QED BY <1>1, <1>3, <3>1
  <2> QED BY <1>2, <1>4, <2>1, <2>2, <2>3 DEF FateInv
<1> QED BY <1>5, <1>6, <1>7, <1>9, <1>10, <1>11, <1>12, <1>13

LEMMA DrainEndKeeps ==
  ASSUME IInv, DrainEnd
  PROVE  IInv'
<1> USE DEF IInv
<1>1. /\ pc = "drain" /\ ~(i < queue_len) /\ queue_len' = new_queue_len /\ pc' = "recv"
      /\ i' = 0 /\ new_queue_len' = 0 /\ reply' = NoReply
      /\ UNCHANGED <<arp_table, asked, heard, replies, answered, replied, q, arrivals, sent,
                     icmp, dropped>>
  BY DEF DrainEnd, Draining, arp, arpIn
<1>2. Known' = Known /\ Header' = Header /\ Held' = Held /\ FateInv' /\ IcmpInv'
  BY <1>1, Undisturbed
<1>3. q \in Seq(Header) /\ Len(q) \in Nat /\ i \in Nat /\ queue_len \in Nat /\ new_queue_len = Len(q)
      /\ i = queue_len /\ Left = 0 /\ Left' = Len(q)
  BY <1>1 DEF TypeOK, QueueLenExact, Left
<1>4. \A k \in DOMAIN q : k \in Nat /\ k > 0 /\ k <= Len(q)
  BY <1>3
<1>5. TypeOK'
  BY <1>1, <1>2, <1>3 DEF TypeOK
<1>6. HeaderInv' /\ QueueLenExact'
  BY <1>1, <1>3 DEF HeaderInv, QueueLenExact
<1>7. OrderInv'
  BY <1>1, <1>3, <1>4 DEF OrderInv
<1>8. WaitInv'
  BY <1>1, <1>3, <1>4 DEF WaitInv
<1>9. ReplyInv' /\ MacInv' /\ ArpTableExact' /\ CutOnlyIfHeld'
  BY <1>1, <1>2 DEF ReplyInv, MacInv, ArpTableExact, CutOnlyIfHeld
<1> QED BY <1>2, <1>5, <1>6, <1>7, <1>8, <1>9

-----------------------------------------------------------------------------
(* The invariants. *)

LEMMA InitIInv == Init => IInv
<1> SUFFICES ASSUME Init PROVE IInv
  OBVIOUS
<1> USE DEF Init, IInv
<1>1. TypeOK
  <2>1. \A S : <<>> \in Seq(S)
    OBVIOUS
  <2>2. Len(arrivals) <= MaxPackets /\ replies \in 0 .. MaxReplies
    BY RouterAssumption
  <2> QED BY <2>1, <2>2 DEF TypeOK
<1>2. Left = 0 /\ DOMAIN q = {} /\ DOMAIN sent = {} /\ DOMAIN arp_table = {} /\ Known = {} /\ DOMAIN asked = {}
  BY DEF Left, Known
<1>3. HeaderInv /\ QueueLenExact /\ OrderInv /\ WaitInv /\ ReplyInv /\ MacInv
  BY <1>2 DEF HeaderInv, QueueLenExact, OrderInv, WaitInv, ReplyInv, MacInv
<1>4. FateInv
  <2>1. Waiting = {} /\ Sent = {} /\ WithIcmp = {} /\ IsFiniteSet(icmp)
    BY <1>2, FS_EmptySet DEF Waiting, Sent, WithIcmp
  <2> QED BY <1>2, <2>1 DEF FateInv
<1>5. ArpTableExact /\ IcmpInv /\ CutOnlyIfHeld
  BY <1>2 DEF ArpTableExact, IcmpInv, CutOnlyIfHeld
<1> QED BY <1>1, <1>3, <1>4, <1>5

\* The steps of the router, one by one.
LEMMA StepCases ==
  ASSUME Next
  PROVE  \/ \E p \in Packets : Ends(p)
         \/ \E p \in Packets : Hold(p)
         \/ \E p \in Packets : Forward(p)
         \/ \E h \in Askers : ArpRequest(h)
         \/ \E r \in Replies : ArpReply(r)
         \/ DrainForward
         \/ DrainRotate
         \/ DrainEnd
BY DEF Next, HandlePacket, Ends, Drain

LEMMA NextIInv == IInv /\ [Next]_vars => IInv'
<1> SUFFICES ASSUME IInv, [Next]_vars PROVE IInv'
  OBVIOUS
<1>1. CASE UNCHANGED vars
  <2>1. UNCHANGED <<arp_table, q, queue_len, pc, i, new_queue_len, reply, arrivals, replies, sent,
                    icmp, dropped, asked, answered, heard, replied>>
    BY <1>1 DEF vars
  <2>2. Known' = Known /\ Header' = Header /\ Held' = Held
        /\ FateInv' /\ IcmpInv'
    BY <2>1, Undisturbed DEF IInv
  <2>3. TypeOK'
    BY <2>1, <2>2 DEF IInv, TypeOK
  <2>4. HeaderInv' /\ QueueLenExact' /\ OrderInv' /\ WaitInv' /\ ReplyInv' /\ MacInv'
    BY <2>1 DEF IInv, HeaderInv, QueueLenExact, OrderInv, WaitInv, Left, ReplyInv, MacInv
  <2>5. ArpTableExact' /\ CutOnlyIfHeld'
    BY <2>1, <2>2 DEF IInv, ArpTableExact, CutOnlyIfHeld
  <2> QED BY <2>2, <2>3, <2>4, <2>5 DEF IInv
<1>2. ASSUME NEW p \in Packets, Ends(p) PROVE IInv'
  BY <1>2, EndKeeps
<1>3. ASSUME NEW p \in Packets, Hold(p) PROVE IInv'
  BY <1>3, HoldKeeps
<1>4. ASSUME NEW p \in Packets, Forward(p) PROVE IInv'
  BY <1>4, ForwardKeeps
<1>5. ASSUME NEW h \in Askers, ArpRequest(h) PROVE IInv'
  BY <1>5, ArpRequestKeeps
<1>6. ASSUME NEW r \in Replies, ArpReply(r) PROVE IInv'
  BY <1>6, ArpReplyKeeps
<1>7. CASE DrainForward
  BY <1>7, DrainForwardKeeps
<1>8. CASE DrainRotate
  BY <1>8, DrainRotateKeeps
<1>9. CASE DrainEnd
  BY <1>9, DrainEndKeeps
<1>10. ASSUME Next PROVE IInv'
  BY <1>2, <1>3, <1>4, <1>5, <1>6, <1>7, <1>8, <1>9, <1>10, StepCases
<1> QED BY <1>1, <1>10

LEMMA SafetyIInv == Init /\ [][Next]_vars => []IInv
BY InitIInv, NextIInv, PTL

LEMMA SpecIInv == Spec => []IInv
BY SafetyIInv, PTL DEF Spec

\* Frame f, made of one of the packets that came, leaves for the MAC in macs.
Rightly(f, came, macs) ==
  LET p == came[f.packet.id]
  IN  /\ f.packet.dst = p.dst /\ f.packet.ttl = p.ttl - 1
      /\ NextHop(p.dst) \in DOMAIN macs /\ f.mac = macs[NextHop(p.dst)]
      /\ f.interface = rtable[Best(p.dst)].interface

LEMMA ForwardRightly ==
  ASSUME IInv, IInv', NEW p \in Packets, Forward(p), NEW k \in DOMAIN sent' \ DOMAIN sent
  PROVE  Rightly(sent'[k], arrivals', heard')
<1> DEFINE f == Frame(Rewritten(p), arp_table'[HopEntry(p)].mac, p.len)
<1>1. /\ Receive(p) /\ Forwardable(p) /\ LearnSource(p) /\ HopEntry(p) # 0
      /\ sent' = Append(sent, f) /\ sent \in Seq(SentFrame)
  BY DEF Forward, IInv, TypeOK, SentFrame
<1>2. arrivals'[This] = p /\ arp_table' \in Seq(Entry) /\ MacInv'
  BY <1>1, RoutedOn
<1>3. HopEntry(p) \in DOMAIN arp_table' /\ arp_table'[HopEntry(p)].ip = NextHop(p.dst)
  BY <1>1, <1>2, EntryFound DEF HopEntry
<1>4. /\ NextHop(p.dst) \in DOMAIN heard'
      /\ arp_table'[HopEntry(p)].mac = heard'[NextHop(p.dst)]
  BY <1>2, <1>3 DEF MacInv
<1>5. /\ f.packet.id = This /\ f.packet.dst = p.dst /\ f.packet.ttl = p.ttl - 1
      /\ f.mac = arp_table'[HopEntry(p)].mac /\ f.interface = rtable[Best(p.dst)].interface
  BY DEF Frame, Rewritten
<1> HIDE DEF f
<1>6. sent'[k] = f
  BY <1>1
<1> QED BY <1>2, <1>4, <1>5, <1>6 DEF Rightly

LEMMA ReleasedRightly ==
  ASSUME IInv, DrainForward, NEW k \in DOMAIN sent' \ DOMAIN sent
  PROVE  Rightly(sent'[k], arrivals', heard')
<1> DEFINE h == q[1]
           f == Frame(h, reply.mac, reply.len)
<1>1. /\ 1 \in DOMAIN q /\ Head(q) = h
      /\ reply.ip \in DOMAIN heard /\ reply.mac = heard[reply.ip]
  BY LoopFacts DEF DrainForward
<1>2. /\ NextHop(h.dst) = reply.ip /\ sent' = Append(sent, f) /\ sent \in Seq(SentFrame)
      /\ arrivals' = arrivals /\ heard' = heard
  BY <1>1 DEF DrainForward, arp, IInv, TypeOK, SentFrame
<1>3. h.dst = arrivals[h.id].dst /\ h.ttl = arrivals[h.id].ttl - 1
  BY <1>1 DEF IInv, HeaderInv, MadeOf, HeaderOf
<1>4. f.packet = h /\ f.mac = reply.mac /\ f.interface = rtable[Best(h.dst)].interface
  BY DEF Frame
<1> HIDE DEF f, h
<1>5. sent'[k] = f
  BY <1>2
<1> QED BY <1>1, <1>2, <1>3, <1>4, <1>5 DEF Rightly

LEMMA SafetyHop == Init /\ [][Next]_vars => ToTheNextHop
<1> DEFINE A == \A k \in DOMAIN sent' \ DOMAIN sent :
                  LET f == sent'[k]
                      p == arrivals'[f.packet.id]
                  IN  /\ f.packet.dst = p.dst /\ f.packet.ttl = p.ttl - 1
                      /\ NextHop(p.dst) \in DOMAIN heard' /\ f.mac = heard'[NextHop(p.dst)]
                      /\ f.interface = rtable[Best(p.dst)].interface
<1>1. IInv /\ IInv' /\ [Next]_vars => [A]_vars
  <2> SUFFICES ASSUME IInv, IInv', Next,
                      NEW k \in DOMAIN sent' \ DOMAIN sent
               PROVE  Rightly(sent'[k], arrivals', heard')
    BY DEF Rightly
  <2>1. ASSUME NEW p \in Packets, Ends(p) PROVE FALSE
    BY <2>1, EndFacts
  <2>2. ASSUME NEW p \in Packets, Hold(p) PROVE FALSE
    BY <2>2 DEF Hold
  <2>3. ASSUME NEW h \in Askers, ArpRequest(h) PROVE FALSE
    BY <2>3 DEF ArpRequest
  <2>4. ASSUME NEW r \in Replies, ArpReply(r) PROVE FALSE
    BY <2>4 DEF ArpReply
  <2>5. CASE DrainRotate \/ DrainEnd
    BY <2>5 DEF DrainRotate, DrainEnd
  <2> QED BY <2>1, <2>2, <2>3, <2>4, <2>5, ForwardRightly, ReleasedRightly, StepCases
<1> QED BY <1>1, SafetyIInv, PTL DEF ToTheNextHop

\* A set counted without repeating has as many elements as it was counted with.
LEMMA CountedOnce ==
  ASSUME NEW S, NEW s \in Seq(S), NEW T, NEW F \in [DOMAIN s -> T],
         \A k, l \in DOMAIN s : F[k] = F[l] => k = l,
         \A t \in T : \E k \in DOMAIN s : F[k] = t
  PROVE  Cardinality(T) = Len(s)
<1>1. Len(s) \in Nat /\ DOMAIN s = 1 .. Len(s)
  OBVIOUS
<1>2. F \in Bijection(DOMAIN s, T)
  BY Fun_IsBij
<1>3. ExistsBijection(DOMAIN s, T)
  BY <1>2, Fun_ExistsBij
<1> QED BY <1>1, <1>3, FS_CountingElements

LEMMA FateFacts == IInv => OneFate
<1> SUFFICES ASSUME IInv PROVE OneFate
  OBVIOUS
<1>1. FateInv /\ q \in Seq(Header)
      /\ sent \in Seq([packet : Header, mac : Macs, interface : Nat, len : Nat])
  BY DEF IInv, TypeOK
<1>2. Cardinality(Waiting) = Len(q)
  <2> DEFINE F == [k \in DOMAIN q |-> q[k].id]
  <2>1. F \in [DOMAIN q -> Waiting]
    BY DEF Waiting
  <2>2. \A k, l \in DOMAIN q : F[k] = F[l] => k = l
    BY <1>1 DEF FateInv
  <2>3. \A t \in Waiting : \E k \in DOMAIN q : F[k] = t
    BY DEF Waiting
  <2> HIDE DEF F
  <2> QED BY <1>1, <2>1, <2>2, <2>3, CountedOnce
<1>3. Cardinality(Sent) = Len(sent)
  <2> DEFINE F == [k \in DOMAIN sent |-> sent[k].packet.id]
  <2>1. F \in [DOMAIN sent -> Sent]
    BY DEF Sent
  <2>2. \A k, l \in DOMAIN sent : F[k] = F[l] => k = l
    BY <1>1 DEF FateInv
  <2>3. \A t \in Sent : \E k \in DOMAIN sent : F[k] = t
    BY DEF Sent
  <2> HIDE DEF F
  <2> QED BY <1>1, <2>1, <2>2, <2>3, CountedOnce
<1>4. Cardinality(WithIcmp) = Cardinality(icmp)
  <2> DEFINE F == [m \in icmp |-> m.id]
  <2>1. F \in [icmp -> WithIcmp] /\ \A a, b \in icmp : F[a] = F[b] => a = b
    BY <1>1 DEF WithIcmp, FateInv
  <2>2. \A t \in WithIcmp : \E m \in icmp : F[m] = t
    BY DEF WithIcmp
  <2> HIDE DEF F
  <2>3. F \in Bijection(icmp, WithIcmp)
    BY <2>1, <2>2, Fun_IsBij
  <2>4. ExistsBijection(icmp, WithIcmp) /\ IsFiniteSet(icmp)
    BY <1>1, <2>3, Fun_ExistsBij DEF FateInv
  <2> QED BY <2>4, FS_Bijection
<1> QED BY <1>1, <1>2, <1>3, <1>4 DEF FateInv, OneFate

\* A header made by the router verifies.
LEMMA MadeVerifies ==
  ASSUME NEW came \in Seq(Packets), NEW h, MadeOf(h, came)
  PROVE  Verifies(256 * h.ttl + h.rest + h.check)
<1> DEFINE p == came[h.id]
           s == 256 * (p.ttl - 1) + p.rest
<1>1. p \in Packets /\ Forwardable(p) /\ h = HeaderOf(h.id, p)
  BY DEF MadeOf
<1>2. h.ttl = p.ttl - 1 /\ h.rest = p.rest /\ h.check = checksum(s)
  BY <1>1 DEF HeaderOf
<1>3. s \in Sum
  BY <1>1, ForwardableFacts
<1>4. Verifies(s + checksum(s))
  BY <1>3, WrittenVerifies
<1> QED BY <1>2, <1>4

LEMMA SumsFacts == IInv => WrittenSumsVerify
<1> SUFFICES ASSUME IInv PROVE WrittenSumsVerify
  OBVIOUS
<1>1. arrivals \in Seq(Packets) /\ HeaderInv /\ IcmpInv
  BY DEF IInv, TypeOK
<1>2. ASSUME NEW h \in {q[k] : k \in DOMAIN q} \cup {sent[k].packet : k \in DOMAIN sent}
      PROVE  Verifies(256 * h.ttl + h.rest + h.check)
  <2>1. MadeOf(h, arrivals)
    BY <1>1 DEF HeaderInv
  <2> QED BY <1>1, <2>1, MadeVerifies
<1> QED BY <1>1, <1>2 DEF WrittenSumsVerify, IcmpInv

LEMMA WaitFacts == IInv => WaitsForAnAnswer
BY DEF IInv, WaitInv, WaitsForAnAnswer

\* The variables, and the history kept of them, have the values they should.
THEOREM TypeCorrect == Spec => []TypeOK
<1>1. IInv => TypeOK
  BY DEF IInv
<1> QED BY <1>1, SpecIInv, PTL

\* Whatever frames come and in whatever order, each has one fate: main loses none
\* and sends none twice (router.c 217-421).
THEOREM NoneLostNoneTwice == Spec => []OneFate
BY SpecIInv, FateFacts, PTL

\* The two lengths kept beside the queue agree with it at every turn of the loop,
\* so that queue_deq never meets an empty queue (router.c 273-304).
THEOREM LengthsAgree == Spec => []QueueLenExact
<1>1. IInv => QueueLenExact
  BY DEF IInv
<1> QED BY <1>1, SpecIInv, PTL

\* No packet is left in the queue, or put there, once its hop has answered
\* (router.c 274-302, 367-416).
THEOREM NoneForgotten == Spec => []WaitsForAnAnswer
BY SpecIInv, WaitFacts, PTL

\* Whatever was learnt, from whom and when, a frame leaves through its route's
\* interface for the MAC last heard for the next hop of the route, also one that was
\* learnt from a packet or that another host has taken over (router.c 258-300, 351-421).
THEOREM RightHop == Spec => ToTheNextHop
BY SafetyHop, PTL DEF Spec

\* The ARP table has one entry for every address that was heard, and no other
\* (router.c 258-266, 357-365).
THEOREM TableExact == Spec => []ArpTableExact
<1>1. IInv => ArpTableExact
  BY DEF IInv
<1> QED BY <1>1, SpecIInv, PTL

\* What the router writes verifies, for every header and message that may come
\* (router.c 103-105, 127-135, 351-354).
THEOREM WrittenIsSound == Spec => []WrittenSumsVerify
BY SpecIInv, SumsFacts, PTL

\* Only a frame that was held can leave with another length than it came with, and
\* then with that of its own hop's reply (router.c 300, 421).
THEOREM CutByOwnReply == Spec => []CutOnlyIfHeld
<1>1. IInv => CutOnlyIfHeld
  BY DEF IInv
<1> QED BY <1>1, SpecIInv, PTL

-----------------------------------------------------------------------------
(* The router implements Forwarder. *)

\* The packets that wait for hop g, told by what came and what was sent.
Owed(g) ==
  {n \in Known : Forwardable(arrivals[n]) /\ n \notin Sent /\ NextHop(arrivals[n].dst) = g}

LEMMA LinesOwed == IInv => Lines = [g \in NextHops |-> Owed(g)]
<1> SUFFICES ASSUME IInv, NEW g \in NextHops PROVE Lines[g] = Owed(g)
  BY DEF Lines
<1>1. FateInv /\ HeaderInv
  BY DEF IInv
<1>2. \A k \in DOMAIN q : q[k].id \in Known /\ q[k].dst = arrivals[q[k].id].dst
  BY <1>1 DEF HeaderInv, MadeOf, HeaderOf, Known
<1>3. \A n \in Waiting : \E k \in DOMAIN q : q[k].id = n
  BY DEF Waiting
<1>4. Waiting = {n \in Known : Forwardable(arrivals[n])} \ Sent
  BY <1>1 DEF FateInv
<1>5. ASSUME NEW n \in Lines[g] PROVE n \in Owed(g)
  <2>1. PICK k \in DOMAIN q : NextHop(q[k].dst) = g /\ n = q[k].id
    BY <1>5 DEF Lines
  <2>2. n \in Waiting
    BY <2>1 DEF Waiting
  <2> QED BY <1>2, <1>4, <2>1, <2>2 DEF Owed
<1>6. ASSUME NEW n \in Owed(g) PROVE n \in Lines[g]
  <2>1. n \in Waiting /\ NextHop(arrivals[n].dst) = g
    BY <1>4 DEF Owed
  <2>2. PICK k \in DOMAIN q : q[k].id = n
    BY <1>3, <2>1
  <2>3. NextHop(q[k].dst) = g
    BY <1>2, <2>1, <2>2
  <2> QED BY <2>2, <2>3 DEF Lines
<1> QED BY <1>5, <1>6

LEMMA HopsHeard == IInv => KnownHops = NextHops \cap DOMAIN heard
<1> SUFFICES ASSUME IInv PROVE KnownHops = NextHops \cap DOMAIN heard
  OBVIOUS
<1>1. arp_table \in Seq(Entry) /\ {arp_table[k].ip : k \in DOMAIN arp_table} = DOMAIN heard
  BY DEF IInv, TypeOK, Entry, ArpTableExact
<1>2. \A h : get_arp_table_entry(arp_table, h) # 0 <=> h \in {arp_table[k].ip : k \in DOMAIN arp_table}
  <2> TAKE h
  <2>1. get_arp_table_entry(arp_table, h) = 0 <=> \A l \in DOMAIN arp_table : arp_table[l].ip # h
    BY <1>1, EntryFound
  <2> QED BY <2>1
<1> QED BY <1>1, <1>2 DEF KnownHops

\* One more frame is one more entry of Out.
LEMMA OutGrows ==
  ASSUME sent \in Seq(SentFrame), NEW f, sent' = Append(sent, f)
  PROVE  Out' = Append(Out, [number |-> f.packet.id, hop |-> NextHop(f.packet.dst)])
<1> DEFINE e(g) == [number |-> g.packet.id, hop |-> NextHop(g.packet.dst)]
<1> HIDE DEF e
<1>1. /\ DOMAIN sent = 1 .. Len(sent) /\ DOMAIN sent' = 1 .. (Len(sent) + 1) /\ Len(sent) \in Nat
      /\ sent'[Len(sent) + 1] = f /\ \A k \in 1 .. Len(sent) : sent'[k] = sent[k]
  OBVIOUS
<1>2. Out = [k \in 1 .. Len(sent) |-> e(sent[k])]
      /\ Out' = [k \in 1 .. (Len(sent) + 1) |-> e(sent'[k])]
  BY <1>1 DEF Out, e
<1>3. Append(Out, e(f)) = [k \in 1 .. (Len(sent) + 1) |-> IF k = Len(sent) + 1 THEN e(f) ELSE Out[k]]
  BY <1>1, <1>2
<1>4. Out' = Append(Out, e(f))
  BY <1>1, <1>2, <1>3
<1> QED BY <1>4 DEF e

\* The source of a packet that goes on may become known, and no hop is forgotten.
LEMMA TakeStep ==
  ASSUME IInv, IInv', NEW p \in Packets, Receive(p), LearnSource(p)
  PROVE  Promise!Take /\ Len(arrivals)' = This /\ Len(arrivals)' = Len(arrivals) + 1
<1>1. Len(arrivals)' = Len(arrivals) + 1 /\ answered' = answered
  BY DEF IInv, TypeOK, Receive, arpIn
<1>2. DOMAIN heard \subseteq DOMAIN heard'
  BY DEF LearnSource, Hear
<1>3. KnownHops \subseteq KnownHops'
  <2>1. KnownHops = NextHops \cap DOMAIN heard
    BY HopsHeard
  <2>2. (IInv => KnownHops = NextHops \cap DOMAIN heard)'
    BY HopsHeard, PTL
  <2> QED BY <1>1, <1>2, <2>1, <2>2
<1> QED BY <1>1, <1>3 DEF Promise!Take, This

LEMMA HoldWaits ==
  ASSUME IInv, IInv', NEW p \in Packets, Hold(p)
  PROVE  Promise!Wait(NextHop(p.dst)) /\ NextHop(p.dst) \in NextHops
<1> DEFINE h == NextHop(p.dst)
<1>1. /\ Receive(p) /\ Forwardable(p) /\ LearnSource(p) /\ HopEntry(p) = 0
      /\ UNCHANGED <<sent, icmp, dropped>>
  BY DEF Hold
<1>2. h \in NextHops
  BY <1>1, ForwardableFacts
<1>3. Promise!Take /\ Len(arrivals)' = This /\ Len(arrivals)' = Len(arrivals) + 1
  BY <1>1, TakeStep
<1>4. h \notin KnownHops'
  BY <1>1 DEF KnownHops, HopEntry
<1>5. /\ Known' = Known \cup {This} /\ This \notin Known
      /\ \A n \in Known : arrivals'[n] = arrivals[n]
      /\ arrivals'[This] = p
  BY <1>1, RoutedOn
<1>6. Sent' = Sent /\ This \notin Sent
  BY <1>1, <1>5 DEF Sent, IInv, FateInv
<1>7. Lines' = [Lines EXCEPT ![h] = @ \cup {This}]
  <2>1. Lines = [g \in NextHops |-> Owed(g)]
    BY LinesOwed
  <2>2. (IInv => Lines = [g \in NextHops |-> Owed(g)])'
    BY LinesOwed, PTL
  <2>3. \A g \in NextHops : Owed(g)' = IF g = h THEN Owed(g) \cup {This} ELSE Owed(g)
    BY <1>1, <1>5, <1>6 DEF Owed
  <2> QED BY <1>2, <2>1, <2>2, <2>3
<1>8. UNCHANGED <<Out, WithIcmp \cup dropped>>
  BY <1>1 DEF Out, WithIcmp
<1> QED BY <1>2, <1>3, <1>4, <1>7, <1>8 DEF Promise!Wait

LEMMA ForwardPasses ==
  ASSUME IInv, IInv', NEW p \in Packets, Forward(p)
  PROVE  Promise!Pass(NextHop(p.dst)) /\ NextHop(p.dst) \in NextHops
<1> DEFINE h == NextHop(p.dst)
           f == Frame(Rewritten(p), arp_table'[HopEntry(p)].mac, p.len)
<1>1. /\ Receive(p) /\ Forwardable(p) /\ LearnSource(p) /\ HopEntry(p) # 0
      /\ sent' = Append(sent, f)
      /\ UNCHANGED <<q, queue_len, icmp, dropped, asked>>
  BY DEF Forward, queue
<1>2. h \in NextHops
  BY <1>1, ForwardableFacts
<1>3. Promise!Take /\ Len(arrivals)' = This
  BY <1>1, TakeStep
<1>4. h \in KnownHops'
  BY <1>1, <1>2 DEF KnownHops, HopEntry
<1>5. f.packet.id = This /\ f.packet.dst = p.dst
  BY DEF Frame, Rewritten
<1> HIDE DEF f
<1>6. Out' = Append(Out, [number |-> This, hop |-> h])
  <2>1. sent \in Seq(SentFrame)
    BY DEF IInv, TypeOK, SentFrame
  <2> QED BY <1>1, <1>5, <2>1, OutGrows
<1>7. UNCHANGED <<Lines, WithIcmp \cup dropped>>
  BY <1>1 DEF Lines, WithIcmp
<1> QED BY <1>2, <1>3, <1>4, <1>6, <1>7 DEF Promise!Pass

LEMMA EndEnds ==
  ASSUME IInv, NEW p \in Packets, Ends(p)
  PROVE  Promise!End
<1>1. /\ Receive(p) /\ UNCHANGED <<arp_table, q, sent>>
      /\ \/ dropped' = dropped \cup {This} /\ icmp' = icmp
         \/ dropped' = dropped /\ \E m \in IcmpFor(This, p) : icmp' = icmp \cup {m}
  BY EndFacts DEF arp, queue
<1>2. Len(arrivals)' = Len(arrivals) + 1 /\ This = Len(arrivals) + 1 /\ answered' = answered
  BY <1>1 DEF IInv, TypeOK, Receive, arpIn, This
<1>3. UNCHANGED <<Lines, Out, KnownHops>>
  BY <1>1 DEF Lines, Out, KnownHops
<1>4. (WithIcmp \cup dropped)' = (WithIcmp \cup dropped) \cup {This}
  <2>1. CASE dropped' = dropped \cup {This} /\ icmp' = icmp
    BY <2>1 DEF WithIcmp
  <2>2. ASSUME NEW m \in IcmpFor(This, p), dropped' = dropped, icmp' = icmp \cup {m}
        PROVE  (WithIcmp \cup dropped)' = (WithIcmp \cup dropped) \cup {This}
    <3>1. m.id = This
      BY DEF IcmpFor
    <3> QED BY <2>2, <3>1 DEF WithIcmp
  <2> QED BY <1>1, <2>1, <2>2
<1> QED BY <1>2, <1>3, <1>4 DEF Promise!End, Promise!Take

LEMMA ReplyAnswers ==
  ASSUME IInv, IInv', NEW r \in Replies, ArpReply(r)
  PROVE  IF r.ip \in NextHops THEN Promise!Answer(r.ip) ELSE UNCHANGED Promise!vars
<1>1. /\ answered' = answered \cup {r.ip}
      /\ UNCHANGED <<q, arrivals, sent, icmp, dropped>>
      /\ DOMAIN heard' = DOMAIN heard \cup {r.ip}
  BY DEF ArpReply, queue, Hear
<1>2. UNCHANGED <<Len(arrivals), Lines, Out, WithIcmp \cup dropped>>
  BY <1>1 DEF Lines, Out, WithIcmp
<1>3. KnownHops' = KnownHops \cup ({r.ip} \cap NextHops)
  <2>1. KnownHops = NextHops \cap DOMAIN heard
    BY HopsHeard
  <2>2. (IInv => KnownHops = NextHops \cap DOMAIN heard)'
    BY HopsHeard, PTL
  <2>3. NextHops' = NextHops
    BY DEF NextHops
  <2> QED BY <1>1, <2>1, <2>2, <2>3
<1>4. CASE r.ip \in NextHops
  BY <1>1, <1>2, <1>3, <1>4 DEF Promise!Answer
<1>5. CASE r.ip \notin NextHops
  BY <1>1, <1>2, <1>3, <1>5 DEF Promise!vars
<1> QED BY <1>4, <1>5

\* What a turn of the loop leaves alone, and what it leaves of the lines.
LEMMA TurnFacts ==
  ASSUME IInv, IInv', UNCHANGED <<arp_table, answered, arrivals, icmp, dropped>>
  PROVE  /\ UNCHANGED <<Len(arrivals), WithIcmp \cup dropped, KnownHops, answered \cap NextHops>>
         /\ Lines = [g \in NextHops |-> Owed(g)]
         /\ Lines' = [g \in NextHops |-> {n \in Known : Forwardable(arrivals[n]) /\ n \notin Sent'
                                                        /\ NextHop(arrivals[n].dst) = g}]
<1>1. UNCHANGED <<Len(arrivals), WithIcmp \cup dropped, KnownHops, answered \cap NextHops, Known>>
  BY DEF WithIcmp, KnownHops, Known
<1>2. Lines = [g \in NextHops |-> Owed(g)]
  BY LinesOwed
<1>3. (IInv => Lines = [g \in NextHops |-> Owed(g)])'
  BY LinesOwed, PTL
<1>4. \A g \in NextHops : Owed(g)' = {n \in Known : Forwardable(arrivals[n]) /\ n \notin Sent'
                                                    /\ NextHop(arrivals[n].dst) = g}
  BY <1>1 DEF Owed
<1> QED BY <1>1, <1>2, <1>3, <1>4

LEMMA DrainForwardReleases ==
  ASSUME IInv, IInv', DrainForward
  PROVE  Promise!Release(reply.ip) /\ reply.ip \in NextHops
<1> DEFINE h == q[1]
           f == Frame(h, reply.mac, reply.len)
<1>1. /\ q \in Seq(Header) /\ 1 \in DOMAIN q /\ Head(q) = h
      /\ 0 < Left /\ Left \in Nat /\ reply.ip \in answered
  BY LoopFacts DEF DrainForward
<1>2. /\ pc = "drain" /\ NextHop(h.dst) = reply.ip /\ sent' = Append(sent, f)
      /\ UNCHANGED <<arp_table, answered, arrivals, icmp, dropped>>
  BY <1>1 DEF DrainForward, Draining, arp, arpIn
<1>3. f.packet = h
  BY DEF Frame
<1> HIDE DEF f
<1>4. Out' = Append(Out, [number |-> h.id, hop |-> reply.ip])
  <2>1. sent \in Seq(SentFrame)
    BY DEF IInv, TypeOK, SentFrame
  <2> QED BY <1>2, <1>3, <2>1, OutGrows
<1>5. Sent' = Sent \cup {h.id}
  <2>1. sent \in Seq(SentFrame)
    BY DEF IInv, TypeOK, SentFrame
  <2> QED BY <1>2, <1>3, <2>1, SentGrows
<1>6. /\ UNCHANGED <<Len(arrivals), WithIcmp \cup dropped, KnownHops, answered \cap NextHops>>
      /\ Lines = [g \in NextHops |-> Owed(g)]
      /\ Lines' = [g \in NextHops |-> {n \in Known : Forwardable(arrivals[n]) /\ n \notin Sent'
                                                     /\ NextHop(arrivals[n].dst) = g}]
  BY <1>2, TurnFacts
<1>7. /\ h.id \in Known /\ Forwardable(arrivals[h.id]) /\ h.dst = arrivals[h.id].dst
      /\ h.dst \in Addresses /\ Best(h.dst) # 0
  <2>1. MadeOf(h, arrivals) /\ arrivals \in Seq(Packets)
    BY <1>1 DEF IInv, HeaderInv, TypeOK
  <2> QED BY <2>1, ForwardableFacts DEF MadeOf, HeaderOf, Known
<1>8. reply.ip \in NextHops
  BY <1>2, <1>7, Rows
<1>9. h.id \in Lines[reply.ip] /\ \A m \in Lines[reply.ip] : h.id <= m
  <2>1. Lines[reply.ip] = {q[k].id : k \in {l \in DOMAIN q : NextHop(q[l].dst) = reply.ip}}
    BY <1>8 DEF Lines
  <2>2. ASSUME NEW k \in DOMAIN q, NextHop(q[k].dst) = reply.ip
        PROVE  h.id <= q[k].id
    <3>1. k <= Left
      BY <1>1, <2>2 DEF IInv, WaitInv
    <3>2. 1 < k => h.id < q[k].id
      BY <1>1, <3>1 DEF IInv, OrderInv
    <3>3. k \in Nat /\ k > 0 /\ h.id \in Nat /\ q[k].id \in Nat
      <4>1. q[k] \in Header /\ h \in Header /\ k \in Nat /\ k > 0
        BY <1>1
      <4>2. arrivals \in Seq(Packets)
        BY DEF IInv, TypeOK
      <4>3. Known \subseteq Nat
        BY <4>2 DEF Known
      <4>4. h.id \in Known /\ q[k].id \in Known
        BY <4>1 DEF Header
      <4> QED BY <4>1, <4>3, <4>4
    <3> QED BY <3>2, <3>3
  <2> QED BY <1>1, <1>2, <2>1, <2>2
<1>10. Lines' = [Lines EXCEPT ![reply.ip] = @ \ {h.id}]
  <2>1. \A g \in NextHops :
          {n \in Known : Forwardable(arrivals[n]) /\ n \notin Sent' /\ NextHop(arrivals[n].dst) = g}
            = IF g = reply.ip THEN Owed(g) \ {h.id} ELSE Owed(g)
    BY <1>2, <1>5, <1>7 DEF Owed
  <2> QED BY <1>6, <1>8, <2>1
<1> QED BY <1>1, <1>4, <1>6, <1>8, <1>9, <1>10 DEF Promise!Release

LEMMA DrainRotateStutters ==
  ASSUME IInv, IInv', DrainRotate
  PROVE  UNCHANGED Promise!vars
<1>1. UNCHANGED <<arp_table, answered, arrivals, sent, icmp, dropped>>
  BY DEF DrainRotate, arp, arpIn
<1>2. /\ UNCHANGED <<Len(arrivals), WithIcmp \cup dropped, KnownHops, answered \cap NextHops>>
      /\ Lines = [g \in NextHops |-> Owed(g)]
      /\ Lines' = [g \in NextHops |-> {n \in Known : Forwardable(arrivals[n]) /\ n \notin Sent'
                                                     /\ NextHop(arrivals[n].dst) = g}]
  BY <1>1, TurnFacts
<1>3. Sent' = Sent /\ Out' = Out
  BY <1>1 DEF Sent, Out
<1>4. Lines' = Lines
  BY <1>2, <1>3 DEF Owed
<1> QED BY <1>2, <1>3, <1>4 DEF Promise!vars

\* One turn, frame or reply is one step of the forwarder or none.
LEMMA StepSimulates ==
  ASSUME IInv, IInv', [Next]_vars
  PROVE  [Promise!Next]_(Promise!vars)
<1>1. CASE UNCHANGED vars
  <2>1. UNCHANGED <<arp_table, q, arrivals, sent, icmp, dropped, answered>>
    BY <1>1 DEF vars
  <2> QED BY <2>1 DEF Promise!vars, Lines, Out, KnownHops, WithIcmp
<1>2. ASSUME NEW p \in Packets, Ends(p) PROVE Promise!Next
  BY <1>2, EndEnds DEF Promise!Next
<1>3. ASSUME NEW p \in Packets, Hold(p) PROVE Promise!Next
  BY <1>3, HoldWaits DEF Promise!Next
<1>4. ASSUME NEW p \in Packets, Forward(p) PROVE Promise!Next
  BY <1>4, ForwardPasses DEF Promise!Next
<1>5. ASSUME NEW h \in Askers, ArpRequest(h) PROVE UNCHANGED Promise!vars
  <2>1. UNCHANGED <<arp_table, q, arrivals, sent, icmp, dropped, answered>>
    BY <1>5 DEF ArpRequest, arp, queue
  <2> QED BY <2>1 DEF Promise!vars, Lines, Out, KnownHops, WithIcmp
<1>6. ASSUME NEW r \in Replies, ArpReply(r) PROVE Promise!Next \/ UNCHANGED Promise!vars
  BY <1>6, ReplyAnswers DEF Promise!Next
<1>7. CASE DrainForward
  BY <1>7, DrainForwardReleases DEF Promise!Next
<1>8. CASE DrainRotate
  BY <1>8, DrainRotateStutters
<1>9. CASE DrainEnd
  <2>1. UNCHANGED <<arp_table, q, arrivals, sent, icmp, dropped, answered>>
    BY <1>9 DEF DrainEnd, arp, arpIn
  <2> QED BY <2>1 DEF Promise!vars, Lines, Out, KnownHops, WithIcmp
<1>10. ASSUME Next PROVE Promise!Next \/ UNCHANGED Promise!vars
  BY <1>2, <1>3, <1>4, <1>5, <1>6, <1>7, <1>8, <1>9, <1>10, StepCases
<1> QED BY <1>1, <1>10

LEMMA SafetySimulates == Init /\ [][Next]_vars => Promise!Safety
<1>1. Init => Promise!Init
  <2> SUFFICES ASSUME Init PROVE Promise!Init
    OBVIOUS
  <2>1. Len(arrivals) = 0 /\ WithIcmp \cup dropped = {} /\ answered \cap NextHops = {}
    BY DEF Init, WithIcmp
  <2>2. Lines = [h \in NextHops |-> {}]
    BY DEF Init, Lines
  <2>3. Out = <<>>
    BY DEF Init, Out
  <2>4. KnownHops = {}
    BY DEF Init, KnownHops, get_arp_table_entry
  <2> QED BY <2>1, <2>2, <2>3, <2>4 DEF Promise!Init
<1>2. IInv /\ IInv' /\ [Next]_vars => [Promise!Next]_(Promise!vars)
  BY StepSimulates
<1> QED BY <1>1, <1>2, SafetyIInv, PTL DEF Promise!Safety

\* The router implements the forwarder in every step, for any table, hosts and
\* frames: a packet passes the line only when the MAC is known, and a reply sends
\* the first of its own line, whatever the loop rotates around it (router.c
\* 273-304, 351-421).
THEOREM KeepsPromiseSafely == Spec => Promise!Safety
BY SafetySimulates, PTL DEF Spec
=============================================================================
