----------------------------- MODULE PubSubProofs -----------------------------
(***************************************************************************)
(* The broker for any number of processes, ids, descriptors, patterns and  *)
(* messages and any capacity of the connections: types, the poll table,    *)
(* SlotsFollowSockets, CommandsAreOwned, SubscriptionsSound, InOrderOnce   *)
(* and OnlyOwnSubscription; and, for ids that fit in MAX_ID_LEN,           *)
(* OneConnectionPerId and that the broker implements Broker.tla.           *)
(***************************************************************************)
EXTENDS PubSub, FiniteSetTheorems, SequenceTheorems, TLAPS

-----------------------------------------------------------------------------
(* The inductive invariant. *)

Occurs(p) == p \in Elems(backlog) \/ \E fd \in Fds : conn[fd] = p

\* A process is at most once in the backlog or behind a descriptor.
ConnInv ==
  /\ \A fd, gd \in Accepted : conn[fd] = conn[gd] => fd = gd
  /\ \A m, n \in DOMAIN backlog : backlog[m] = backlog[n] => m = n
  /\ \A m \in DOMAIN backlog, fd \in Fds : backlog[m] # conn[fd]
  /\ \A p \in Procs : Occurs(p) => sub[p] # "idle"

\* The hello is the first packet of a connection; after it the process is
\* registered, before it nothing else is sent.
HelloOf(p) ==
  /\ \A m \in DOMAIN c2s[p] :
       c2s[p][m].command = "connect" =>
         m = 1 /\ c2s[p][m].topic = IdOf[p] /\ ~Registered(p)
  /\ c2s[p] # <<>> => Registered(p) \/ c2s[p][1].command = "connect"
  /\ sub[p] \in {"idle", "connected"} => c2s[p] = <<>> /\ ~Registered(p)
  /\ sub[p] = "running" /\ link[p] = "open" => Registered(p) \/ c2s[p] # <<>>

HelloInv == \A p \in Procs : HelloOf(p)

SlotInv ==
  /\ \A k \in DOMAIN clients :
       /\ clients[k].sockfd = NoFd <=> ~clients[k].connected
       /\ Stored[clients[k].id] = clients[k].id
  /\ \A k \in Connected :
       /\ clients[k].sockfd \in Accepted
       /\ Stored[IdOf[conn[clients[k].sockfd]]] = clients[k].id
  /\ \A k, l \in Connected : clients[l].sockfd = clients[k].sockfd => l = k

IdsFit == \A id \in Ids : Stored[id] = id

IdInv ==
  IdsFit => \A k, l \in DOMAIN clients : clients[k].id = clients[l].id => k = l

IInv == TypeOK /\ PollTableExact /\ ConnInv /\ HelloInv /\ SlotInv /\ IdInv

\* A connection is open while its process runs and the broker keeps its end.
LinkOf(p) ==
  /\ link[p] = "open" => sub[p] \in {"connected", "running"}
  /\ Occurs(p) /\ sub[p] # "exited" => link[p] = "open"

LinkInv == \A p \in Procs : LinkOf(p)

\* Delivery, on top of these: what is numbered so far, and that a connected client
\* without sent_message has nothing as new as the datagram being published.  The
\* refusal is the last packet of its connection.
Older(p, n) ==
  /\ last[p] <= n
  /\ \A m \in DOMAIN s2c[p] : s2c[p][m] <= n

BoxOf(p) ==
  /\ Older(p, Len(published))
  /\ sub[p] = "idle" => s2c[p] = <<>>
  /\ \A m \in DOMAIN s2c[p] : s2c[p][m] = Error => m = Len(s2c[p]) /\ link[p] # "open"
  /\ \A m \in DOMAIN s2c[p] : s2c[p][m] # Error => last[p] < s2c[p][m]
  /\ \A m, n \in DOMAIN s2c[p] :
       m < n /\ s2c[p][m] # Error /\ s2c[p][n] # Error => s2c[p][m] < s2c[p][n]

Unsent(k) == k \in Connected /\ ~clients[k].sent_message

BoxInv ==
  /\ pub = 0 \/ (pub = Len(published) /\ srv = "up")
  /\ \A p \in Procs : BoxOf(p)
  /\ pub # 0 => \A k \in DOMAIN clients :
                  Unsent(k) => Older(conn[clients[k].sockfd], Len(published) - 1)

-----------------------------------------------------------------------------
(* Search loops and sequences. *)

LEMMA LeastIsMember ==
  ASSUME NEW n \in Nat, NEW K \in SUBSET (1 .. n)
  PROVE  /\ Least(K) \in 0 .. n
         /\ Least(K) = 0 <=> K = {}
         /\ K # {} => Least(K) \in K
         /\ \A m \in K : Least(K) <= m
<1>1. CASE K = {}
  BY <1>1 DEF Least
<1>2. CASE K # {}
  <2> DEFINE Below == {1 .. k : k \in K}
  <2>1. Below \in SUBSET FiniteSubsetsOf(Nat) /\ Below # {}
    <3>1. \A k \in K : IsFiniteSet(1 .. k) /\ (1 .. k) \in SUBSET Nat
      BY FS_Interval
    <3> QED BY <3>1, <1>2 DEF FiniteSubsetsOf
  <2>2. PICK I \in Below : \A J \in Below : ~(<<J, I>> \in StrictSubsetOrdering(Nat))
    BY <2>1, WFMin, FS_StrictSubsetOrderingWellFounded
  <2>3. PICK x \in K : I = 1 .. x
    BY <2>2
  <2>4. \A y \in K : x <= y
    <3> SUFFICES ASSUME NEW y \in K, y < x PROVE FALSE
      OBVIOUS
    <3>1. (1 .. y) \in Below /\ (1 .. y) \subseteq (1 .. x) /\ x \in 1 .. x /\ x \notin 1 .. y
      OBVIOUS
    <3>2. <<1 .. y, 1 .. x>> \in StrictSubsetOrdering(Nat)
      BY <3>1 DEF StrictSubsetOrdering
    <3> QED BY <3>1, <3>2, <2>2, <2>3
  <2>5. Least(K) \in K /\ \A m \in K : Least(K) <= m
    BY <2>4, <1>2 DEF Least
  <2>6. Least(K) \in 1 .. n
    BY <2>5
  <2>7. Least(K) \in 0 .. n /\ Least(K) # 0
    BY <2>6
  <2> QED BY <2>5, <2>7, <1>2
<1> QED BY <1>1, <1>2

LEMMA NextReadyInRange ==
  ASSUME NEW S, NEW entries \in Seq(S), NEW flagged, NEW from
  PROVE  NextReady(entries, flagged, from) \in 0 .. Len(entries)
BY LeastIsMember DEF NextReady

LEMMA WithoutShifts ==
  ASSUME NEW S, NEW s \in Seq(S), NEW k \in 1 .. Len(s)
  PROVE  /\ Without(s, k) \in Seq(S)
         /\ Len(Without(s, k)) = Len(s) - 1
         /\ \A m \in 1 .. Len(s) - 1 :
              Without(s, k)[m] = IF m < k THEN s[m] ELSE s[m + 1]
BY DEF Without

LEMMA FoundByFd ==
  ASSUME TypeOK, NEW fd
  PROVE  LET k == find_client_by_fd(fd)
         IN  /\ k \in 0 .. Len(clients)
             /\ k = 0 <=> \A l \in DOMAIN clients : clients[l].sockfd # fd
             /\ k # 0 => k \in DOMAIN clients /\ clients[k].sockfd = fd
<1> DEFINE K == {k \in DOMAIN clients : clients[k].sockfd = fd}
<1>1. Len(clients) \in Nat /\ DOMAIN clients = 1 .. Len(clients)
  BY DEF TypeOK
<1>2. K \in SUBSET (1 .. Len(clients))
  BY <1>1
<1> QED BY <1>1, <1>2, LeastIsMember DEF find_client_by_fd

LEMMA FoundById ==
  ASSUME TypeOK, NEW id
  PROVE  LET k == find_client_by_id(id)
         IN  /\ k \in 0 .. Len(clients)
             /\ k = 0 <=> \A l \in DOMAIN clients : clients[l].id # id
             /\ k # 0 => k \in DOMAIN clients /\ clients[k].id = id
<1> DEFINE K == {k \in DOMAIN clients : clients[k].id = id}
<1>1. Len(clients) \in Nat /\ DOMAIN clients = 1 .. Len(clients)
  BY DEF TypeOK
<1>2. K \in SUBSET (1 .. Len(clients))
  BY <1>1
<1> QED BY <1>1, <1>2, LeastIsMember DEF find_client_by_id

-----------------------------------------------------------------------------
(* What a handler of a client's descriptor finds. *)

LEMMA FdsAreDescriptors ==
  /\ \A fd \in Fds : fd \in Int /\ fd # TcpFd /\ fd # UdpFd /\ fd # StdinFd /\ fd # NoFd
  /\ Descriptors = Fds \cup {TcpFd, UdpFd, StdinFd}
BY SocketAssumption DEF Descriptors, TcpFd, UdpFd, StdinFd, NoFd

LEMMA AtClientFacts ==
  ASSUME TypeOK, PollTableExact, AtClient
  PROVE  /\ srv = "up" /\ i \in 4 .. Len(poll_fds)
         /\ fd_i \in Fds /\ fd_i \in Accepted
         /\ peer \in Procs
<1>1. srv = "up" /\ i \in 1 .. Len(poll_fds) /\ poll_fds \in Seq(Descriptors)
  BY DEF TypeOK, AtClient, Handling
<1>2. fd_i \in Descriptors /\ fd_i \notin {TcpFd, UdpFd, StdinFd}
  BY <1>1 DEF fd_i, AtClient
<1>3. i # 1 /\ i # 2 /\ i # 3
  BY <1>1, <1>2 DEF PollTableExact, fd_i
<1>4. i \in 4 .. Len(poll_fds)
  BY <1>1, <1>3
<1>5. fd_i \in Fds /\ fd_i \in Accepted
  BY <1>1, <1>2, <1>4 DEF PollTableExact, fd_i, Descriptors
<1>6. peer \in Procs
  BY <1>5 DEF peer, Accepted, TypeOK
<1> QED BY <1>1, <1>4, <1>5, <1>6

LEMMA Owned ==
  ASSUME TypeOK, PollTableExact, ConnInv, SlotInv, AtClient, Registered(peer)
  PROVE  /\ find_client_by_fd(fd_i) \in Connected
         /\ clients[find_client_by_fd(fd_i)].sockfd = fd_i
         /\ SenderId = Stored[IdOf[peer]]
         /\ SenderId \in Ids
<1>1. fd_i \in Fds /\ fd_i \in Accepted /\ peer \in Procs
  BY AtClientFacts
<1>2. PICK k \in Connected : conn[clients[k].sockfd] = peer
  BY DEF Registered
<1>3. clients[k].sockfd \in Accepted /\ k \in DOMAIN clients
  BY <1>2 DEF SlotInv, Connected
<1>4. clients[k].sockfd = fd_i
  BY <1>1, <1>2, <1>3 DEF ConnInv, peer
<1> DEFINE l == find_client_by_fd(fd_i)
<1>5. l \in DOMAIN clients /\ clients[l].sockfd = fd_i
  BY <1>3, <1>4, FoundByFd
<1>6. l \in Connected
  BY <1>1, <1>5, FdsAreDescriptors DEF SlotInv, Connected
<1>7. SenderId = Stored[IdOf[peer]]
  BY <1>5, <1>6 DEF SlotInv, SenderId, peer
<1>8. SenderId \in Ids
  BY <1>1, <1>7, StoredAssumption, PubSubAssumption
<1> QED BY <1>5, <1>6, <1>7, <1>8

\* The hello came first, so whoever sends a command is registered.
LEMMA SendersAreRegistered ==
  ASSUME TypeOK, PollTableExact, ConnInv, HelloInv, SlotInv,
         AtClient, c2s[peer] # <<>>, packet.command # "connect"
  PROVE  Registered(peer)
<1>1. peer \in Procs /\ c2s[peer] \in Seq(Packets)
  BY AtClientFacts DEF TypeOK
<1>2. packet = c2s[peer][1]
  BY <1>1 DEF packet
<1> QED BY <1>1, <1>2 DEF HelloInv, HelloOf

LEMMA CommandsOwned ==
  ASSUME TypeOK, PollTableExact, ConnInv, HelloInv, SlotInv
  PROVE  CommandsAreOwned
<1> SUFFICES ASSUME Receiving("subscribe") \/ Receiving("unsubscribe")
             PROVE  find_client_by_fd(fd_i) # 0 /\ SenderId = Stored[IdOf[peer]]
  BY DEF CommandsAreOwned
<1>1. AtClient /\ c2s[peer] # <<>> /\ packet.command # "connect"
  BY DEF Receiving
<1>2. Registered(peer)
  BY <1>1, SendersAreRegistered
<1>3. find_client_by_fd(fd_i) \in DOMAIN clients /\ SenderId = Stored[IdOf[peer]]
  BY <1>1, <1>2, Owned DEF Connected
<1> QED BY <1>3 DEF TypeOK

-----------------------------------------------------------------------------
(* Types of what the helpers return. *)

LEMMA ScanOnTypes ==
  ASSUME TypeOK, NEW entries \in Seq(Descriptors), NEW flagged \in SUBSET Descriptors,
         ScanOn(entries, flagged)
  PROVE  /\ poll_fds' = entries /\ poll_fds' \in Seq(Descriptors)
         /\ ready' \subseteq Descriptors
         /\ i' \in 0 .. Len(poll_fds')
BY NextReadyInRange DEF ScanOn

LEMMA AddTypes ==
  ASSUME TypeOK, NEW id \in Ids, NEW fd \in Fds
  PROVE  add_or_reconnect_client(id, fd) \in Seq(Slots)
<1> DEFINE k == find_client_by_id(id)
<1>1. CASE k # 0
  <2>1. k \in DOMAIN clients
    BY <1>1, FoundById
  <2>2. [clients[k] EXCEPT !.sockfd = fd, !.connected = TRUE] \in Slots
    <3>1. clients[k] \in Slots
      BY <2>1 DEF TypeOK
    <3> QED BY <3>1 DEF Slots
  <2>3. add_or_reconnect_client(id, fd)
          = [clients EXCEPT ![k] = [clients[k] EXCEPT !.sockfd = fd, !.connected = TRUE]]
    BY <1>1, <2>1 DEF add_or_reconnect_client, TypeOK, Slots
  <2> HIDE DEF k
  <2> QED BY <2>1, <2>2, <2>3 DEF TypeOK
<1>2. CASE k = 0
  <2>1. [id |-> Stored[id], sockfd |-> fd, connected |-> TRUE, sent_message |-> FALSE] \in Slots
    BY StoredAssumption DEF Slots
  <2> QED BY <1>2, <2>1 DEF add_or_reconnect_client, TypeOK
<1> QED BY <1>1, <1>2

LEMMA DisconnectedTypes ==
  ASSUME TypeOK, NEW fd
  PROVE  Disconnected(fd) \in Seq(Slots)
<1> DEFINE k == find_client_by_fd(fd)
<1>1. CASE k = 0
  BY <1>1 DEF Disconnected, TypeOK
<1>2. CASE k # 0
  <2>1. k \in DOMAIN clients
    BY <1>2, FoundByFd
  <2>2. [clients[k] EXCEPT !.sockfd = NoFd, !.connected = FALSE] \in Slots
    <3>1. clients[k] \in Slots
      BY <2>1 DEF TypeOK
    <3> QED BY <3>1 DEF Slots
  <2>3. Disconnected(fd)
          = [clients EXCEPT ![k] = [clients[k] EXCEPT !.sockfd = NoFd, !.connected = FALSE]]
    BY <1>2, <2>1 DEF Disconnected, TypeOK, Slots
  <2> HIDE DEF k
  <2> QED BY <2>1, <2>2, <2>3 DEF TypeOK
<1> QED BY <1>1, <1>2

LEMMA FlagTypes ==
  ASSUME TypeOK
  PROVE  /\ FlagsCleared \in Seq(Slots)
         /\ \A r : [clients EXCEPT ![r].sent_message = TRUE] \in Seq(Slots)
<1>1. FlagsCleared \in Seq(Slots)
  <2>1. clients \in Seq(Slots) /\ Len(clients) \in Nat /\ DOMAIN clients = 1 .. Len(clients)
    BY DEF TypeOK
  <2>2. ASSUME NEW k \in 1 .. Len(clients)
        PROVE  [clients[k] EXCEPT !.sent_message = FALSE] \in Slots
    <3>1. clients[k] \in Slots
      BY <2>1
    <3> QED BY <3>1 DEF Slots
  <2>3. [k \in 1 .. Len(clients) |-> [clients[k] EXCEPT !.sent_message = FALSE]] \in Seq(Slots)
    BY <2>1, <2>2
  <2> QED BY <2>1, <2>3 DEF FlagsCleared
<1>2. ASSUME NEW r PROVE [clients EXCEPT ![r].sent_message = TRUE] \in Seq(Slots)
  <2>1. CASE r \in DOMAIN clients
    <3>1. clients[r] \in Slots
      BY <2>1 DEF TypeOK
    <3>2. [clients[r] EXCEPT !.sent_message = TRUE] \in Slots
      BY <3>1 DEF Slots
    <3> QED BY <2>1, <3>2 DEF TypeOK
  <2>2. CASE r \notin DOMAIN clients
    <3>1. [clients EXCEPT ![r].sent_message = TRUE] = clients
      BY <2>2 DEF TypeOK
    <3> QED BY <3>1 DEF TypeOK
  <2> QED BY <2>1, <2>2
<1> QED BY <1>1, <1>2

LEMMA SubscribeTypes ==
  ASSUME TypeOK, NEW topic \in Patterns, NEW id \in Ids
  PROVE  subscribe(topic, id) \in Seq(Entries)
<1> DEFINE T == {t \in DOMAIN topic_map : topic_map[t].topic = topic}
           t == EntryFor(topic)
<1>1. Len(topic_map) \in Nat /\ DOMAIN topic_map = 1 .. Len(topic_map)
      /\ topic_map \in Seq(Entries)
  BY DEF TypeOK
<1>2. find_topic_index(topic) \in 0 .. Len(topic_map)
  BY <1>1, LeastIsMember DEF find_topic_index
<1>3. [topic |-> topic, subscribers |-> <<>>] \in Entries
  BY DEF Entries
<1>4. WithEntry(topic) \in Seq(Entries) /\ t \in 1 .. Len(WithEntry(topic))
  BY <1>1, <1>2, <1>3 DEF WithEntry, EntryFor
<1>5. WithEntry(topic)[t] \in Entries
  BY <1>4
<1>6. Append(WithEntry(topic)[t].subscribers, id) \in Seq(Ids)
  BY <1>5 DEF Entries
<1>7. [WithEntry(topic)[t] EXCEPT !.subscribers = Append(WithEntry(topic)[t].subscribers, id)]
        \in Entries
  BY <1>5, <1>6 DEF Entries
<1> HIDE DEF t
<1>8. [WithEntry(topic) EXCEPT ![t].subscribers = Append(WithEntry(topic)[t].subscribers, id)]
        \in Seq(Entries)
  BY <1>4, <1>7
<1> USE DEF t
<1> QED BY <1>1, <1>8 DEF subscribe

LEMMA UnsubscribeTypes ==
  ASSUME TypeOK, NEW topic, NEW id
  PROVE  unsubscribe(topic, id) \in Seq(Entries)
<1> DEFINE t == find_topic_index(topic)
           subscribers == topic_map[t].subscribers
           j == Least({m \in DOMAIN subscribers : subscribers[m] = id})
<1>1. Len(topic_map) \in Nat /\ DOMAIN topic_map = 1 .. Len(topic_map)
      /\ topic_map \in Seq(Entries)
  BY DEF TypeOK
<1>2. t \in 0 .. Len(topic_map)
  BY <1>1, LeastIsMember DEF find_topic_index
<1>3. CASE t = 0 \/ j = 0
  BY <1>1, <1>3 DEF unsubscribe
<1>4. CASE t # 0 /\ j # 0
  <2>1. t \in DOMAIN topic_map /\ topic_map[t] \in Entries
    BY <1>1, <1>2, <1>4
  <2>2. subscribers \in Seq(Ids) /\ Len(subscribers) \in Nat
    BY <2>1 DEF Entries
  <2>3. j \in 1 .. Len(subscribers)
    BY <2>2, <1>4, LeastIsMember
  <2> HIDE DEF j, subscribers
  <2>4. \A m \in 1 .. Len(subscribers) - 1 :
          (IF m = j THEN subscribers[Len(subscribers)] ELSE subscribers[m]) \in Ids
    BY <2>2, <2>3
  <2>5. SwapOut(subscribers, j) \in Seq(Ids)
    BY <2>2, <2>3, <2>4 DEF SwapOut
  <2>6. [topic_map[t] EXCEPT !.subscribers = SwapOut(subscribers, j)] \in Entries
    BY <2>1, <2>5 DEF Entries
  <2>7. [topic_map EXCEPT ![t].subscribers = SwapOut(subscribers, j)] \in Seq(Entries)
    <3> HIDE DEF t
    <3> QED BY <1>1, <2>1, <2>6
  <2> QED BY <2>7, <1>4 DEF unsubscribe, j, subscribers
<1> QED BY <1>3, <1>4

-----------------------------------------------------------------------------
(* TypeOK is preserved. *)

LEMMA EndsTypes ==
  ASSUME TypeOK, NEW how \in {"exited", "died"}, Ends(how)
  PROVE  /\ srv' = how /\ poll_fds' = <<>> /\ ready' = {} /\ i' = 0 /\ pub' = 0
         /\ clients' = <<>> /\ topic_map' = <<>> /\ udp' = <<>> /\ typed' = <<>>
         /\ published' = published /\ s2c' = s2c /\ backlog' = <<>>
         /\ conn' = [fd \in Fds |-> NoProc] /\ c2s' = [p \in Procs |-> <<>>]
         /\ link' \in [Procs -> {"none", "open", "fin", "reset", "dead", "closed"}]
         /\ \A p \in Procs : link'[p] # "open"
BY DEF Ends, BrokerEnds, TypeOK

LEMMA PollTypes ==
  ASSUME TypeOK, Poll, UNCHANGED subscriberVars
  PROVE  TypeOK'
<1>1. ready' \in SUBSET Descriptors
  BY DEF Poll, TypeOK, Elems
<1>2. i' \in 0 .. Len(poll_fds)
  BY NextReadyInRange DEF Poll, TypeOK
<1> QED BY <1>1, <1>2 DEF Poll, TypeOK, subscriberVars, inputs, tables, sockets

LEMMA AcceptTypes ==
  ASSUME TypeOK, AcceptConnection, UNCHANGED subscriberVars
  PROVE  TypeOK'
<1>1. PICK fd \in Fds :
        /\ Accept(fd)
        /\ \E revents \in {{}, {fd}} : ScanOn(Append(poll_fds, fd), ready \cup revents)
  BY DEF AcceptConnection
<1>2. PICK revents \in {{}, {fd}} : ScanOn(Append(poll_fds, fd), ready \cup revents)
  BY <1>1
<1>3. Append(poll_fds, fd) \in Seq(Descriptors) /\ ready \cup revents \in SUBSET Descriptors
  BY DEF TypeOK, Descriptors
<1>4. /\ poll_fds' \in Seq(Descriptors) /\ ready' \subseteq Descriptors
      /\ i' \in 0 .. Len(poll_fds')
  BY <1>2, <1>3, ScanOnTypes
<1>5. Head(backlog) \in Procs /\ Tail(backlog) \in Seq(Procs)
  BY <1>1 DEF Accept, TypeOK
<1>6. conn' \in [Fds -> Procs \cup {NoProc}] /\ backlog' \in Seq(Procs)
  BY <1>1, <1>5 DEF Accept, TypeOK
<1> QED BY <1>1, <1>4, <1>6 DEF AcceptConnection, Accept, TypeOK, subscriberVars, inputs, tables

LEMMA PublishTypes ==
  ASSUME TypeOK, PublishBegin \/ PublishSend \/ PublishEnd,
         UNCHANGED subscriberVars
  PROVE  TypeOK'
<1>1. CASE PublishBegin
  <2>1. Head(udp) \in Topics /\ Tail(udp) \in Seq(Topics)
    BY <1>1 DEF PublishBegin, TypeOK
  <2>2. published' \in Seq(Topics) /\ pub' \in 0 .. Len(published')
    BY <1>1, <2>1 DEF PublishBegin, TypeOK
  <2> QED BY <1>1, <2>1, <2>2, FlagTypes DEF PublishBegin, TypeOK, subscriberVars, sockets
<1>2. CASE PublishSend
  <2>1. pub \in Nat
    BY DEF TypeOK
  <2>2. s2c' \in [Procs -> Seq(Nat)]
    <3> DEFINE p == Addressee
    <3>1. s2c' = s2c \/ s2c' = [s2c EXCEPT ![p] = Append(@, pub)]
      BY <1>2 DEF PublishSend, S2CAfterSend
    <3>2. s2c \in [Procs -> Seq(Nat)]
      BY DEF TypeOK
    <3>3. \A q \in Procs : Append(s2c[q], pub) \in Seq(Nat)
      BY <2>1, <3>2
    <3> HIDE DEF p
    <3>4. [s2c EXCEPT ![p] = Append(@, pub)] \in [Procs -> Seq(Nat)]
      BY <3>2, <3>3
    <3> QED BY <3>1, <3>2, <3>4
  <2>3. link' \in [Procs -> {"none", "open", "fin", "reset", "dead", "closed"}]
    BY <1>2 DEF PublishSend, LinkAfterSend, TypeOK
  <2>4. clients' \in Seq(Slots)
    BY <1>2, FlagTypes DEF PublishSend
  <2> QED BY <1>2, <2>2, <2>3, <2>4 DEF PublishSend, TypeOK, subscriberVars, inputs
<1>3. CASE PublishEnd
  <2>1. /\ poll_fds' \in Seq(Descriptors) /\ ready' \subseteq Descriptors
        /\ i' \in 0 .. Len(poll_fds')
    BY <1>3, ScanOnTypes DEF PublishEnd, TypeOK
  <2>2. /\ pub' = 0 /\ UNCHANGED <<srv, published, typed, udp, clients, topic_map>>
        /\ UNCHANGED <<backlog, conn, link, c2s, s2c>>
    BY <1>3 DEF PublishEnd, inputs, tables, sockets
  <2>3. UNCHANGED <<sub, given, last>>
    BY DEF subscriberVars
  <2> QED BY <2>1, <2>2, <2>3 DEF TypeOK
<1> QED BY <1>1, <1>2, <1>3

LEMMA EndingTypes ==
  ASSUME TypeOK, PublishKilled \/ ExitCommand \/ ReceiveError,
         UNCHANGED subscriberVars
  PROVE  TypeOK'
<1>1. PICK how \in {"exited", "died"} : Ends(how)
  BY DEF PublishKilled, ExitCommand, ReceiveError
<1>2. /\ <<>> \in Seq(Packets) /\ <<>> \in Seq(Descriptors) /\ <<>> \in Seq(Slots)
      /\ <<>> \in Seq(Entries) /\ <<>> \in Seq(Topics) /\ <<>> \in Seq({"exit", "other"})
      /\ <<>> \in Seq(Procs) /\ Len(<<>>) = 0
  OBVIOUS
<1>3. c2s' \in [Procs -> Seq(Packets)] /\ conn' \in [Fds -> Procs \cup {NoProc}]
  BY <1>1, <1>2, EndsTypes
<1>4. 0 \in 0 .. Len(poll_fds') /\ 0 \in 0 .. Len(published')
  BY <1>1, <1>2, EndsTypes DEF TypeOK
<1> QED BY <1>1, <1>2, <1>3, <1>4, EndsTypes DEF TypeOK, subscriberVars

LEMMA OtherLineTypes ==
  ASSUME TypeOK, OtherLine, UNCHANGED subscriberVars
  PROVE  TypeOK'
<1>1. /\ poll_fds' \in Seq(Descriptors) /\ ready' \subseteq Descriptors
      /\ i' \in 0 .. Len(poll_fds')
  BY ScanOnTypes DEF OtherLine, TypeOK
<1> QED BY <1>1 DEF OtherLine, TypeOK, subscriberVars, tables, sockets

LEMMA RemoveEntryTypes ==
  ASSUME TypeOK, PollTableExact, AtClient, RemoveEntry
  PROVE  /\ poll_fds' = Without(poll_fds, i) /\ poll_fds' \in Seq(Descriptors)
         /\ ready' \subseteq Descriptors /\ i' \in 0 .. Len(poll_fds')
<1>1. i \in 1 .. Len(poll_fds) /\ poll_fds \in Seq(Descriptors) /\ ready \in SUBSET Descriptors
  BY AtClientFacts DEF TypeOK
<1>2. Without(poll_fds, i) \in Seq(Descriptors)
  BY <1>1, WithoutShifts
<1> QED BY <1>1, <1>2, ScanOnTypes DEF RemoveEntry

LEMMA ClosedByTypes ==
  ASSUME TypeOK, NEW fd, ClosedBy(fd)
  PROVE  /\ conn' \in [Fds -> Procs \cup {NoProc}]
         /\ link' \in [Procs -> {"none", "open", "fin", "reset", "dead", "closed"}]
         /\ c2s' \in [Procs -> Seq(Packets)]
<1>1. <<>> \in Seq(Packets)
  OBVIOUS
<1> QED BY <1>1 DEF ClosedBy, TypeOK

LEMMA ClosingTypes ==
  ASSUME TypeOK, PollTableExact, Disconnect \/ ConnectRefused,
         UNCHANGED subscriberVars
  PROVE  TypeOK'
<1>1. AtClient /\ RemoveEntry /\ ClosedBy(fd_i)
  BY DEF Disconnect, ConnectRefused, Receiving
<1>2. clients' \in Seq(Slots)
  BY DisconnectedTypes DEF Disconnect, ConnectRefused, TypeOK, tables
<1>3. s2c' \in [Procs -> Seq(Nat)]
  <2> DEFINE p == peer
  <2>1. s2c' = s2c \/ s2c' = [s2c EXCEPT ![p] = Append(@, Error)]
    BY DEF Disconnect, ConnectRefused, S2CAfterSend
  <2>2. s2c \in [Procs -> Seq(Nat)] /\ Error \in Nat
    BY DEF TypeOK, Error
  <2>3. \A q \in Procs : Append(s2c[q], Error) \in Seq(Nat)
    BY <2>2
  <2> HIDE DEF p
  <2>4. [s2c EXCEPT ![p] = Append(@, Error)] \in [Procs -> Seq(Nat)]
    BY <2>2, <2>3
  <2> QED BY <2>1, <2>2, <2>4
<1>4. /\ UNCHANGED <<srv, pub, published, udp, typed, topic_map, backlog>>
  BY DEF Disconnect, ConnectRefused, inputs, tables
<1> QED BY <1>1, <1>2, <1>3, <1>4, RemoveEntryTypes, ClosedByTypes DEF TypeOK, subscriberVars

\* What a handler that takes a packet knows of it.
LEMMA PacketFacts ==
  ASSUME TypeOK, PollTableExact, AtClient, c2s[peer] # <<>>
  PROVE  /\ peer \in Procs /\ c2s[peer] \in Seq(Packets)
         /\ packet = c2s[peer][1] /\ packet \in Packets
         /\ packet.command = "connect" => packet.topic \in Ids
         /\ packet.command \in {"subscribe", "unsubscribe"} => packet.topic \in Patterns
<1>1. peer \in Procs /\ c2s[peer] \in Seq(Packets)
  BY AtClientFacts DEF TypeOK
<1>2. packet = c2s[peer][1] /\ packet \in Packets
  BY <1>1 DEF packet
<1> QED BY <1>1, <1>2 DEF Packets

LEMMA TakingTypes ==
  ASSUME TypeOK, PollTableExact, ConnInv, HelloInv, SlotInv,
         SubscribeCommand \/ UnsubscribeCommand \/ ConnectNew,
         UNCHANGED subscriberVars
  PROVE  TypeOK'
<1>1. AtClient /\ c2s[peer] # <<>> /\ PacketTaken
  BY DEF SubscribeCommand, UnsubscribeCommand, ConnectNew, Receiving
<1>2. topic_map' \in Seq(Entries)
  <2>1. CASE SubscribeCommand
    <3>1. packet.command = "subscribe"
      BY <2>1 DEF SubscribeCommand, Receiving
    <3>2. packet.topic \in Patterns /\ SenderId \in Ids
      BY <1>1, <3>1, PacketFacts, SendersAreRegistered, Owned
    <3> QED BY <2>1, <3>2, SubscribeTypes DEF SubscribeCommand
  <2>2. CASE UnsubscribeCommand
    BY <2>2, UnsubscribeTypes DEF UnsubscribeCommand
  <2>3. CASE ConnectNew
    BY <2>3 DEF ConnectNew, TypeOK
  <2> QED BY <2>1, <2>2, <2>3
<1>3. clients' \in Seq(Slots)
  <2>1. CASE ConnectNew
    <3>1. packet.topic \in Ids /\ fd_i \in Fds
      BY <1>1, <2>1, PacketFacts, AtClientFacts DEF ConnectNew, Receiving
    <3> QED BY <2>1, <3>1, AddTypes DEF ConnectNew
  <2>2. CASE ~ConnectNew
    BY <2>2 DEF SubscribeCommand, UnsubscribeCommand, TypeOK
  <2> QED BY <2>1, <2>2
<1>4. c2s' \in [Procs -> Seq(Packets)]
  <2>1. Tail(c2s[peer]) \in Seq(Packets)
    BY <1>1, PacketFacts
  <2> QED BY <1>1, <2>1 DEF PacketTaken, TypeOK
<1>5. /\ poll_fds' \in Seq(Descriptors) /\ ready' \subseteq Descriptors
      /\ i' \in 0 .. Len(poll_fds')
  BY <1>1, ScanOnTypes DEF PacketTaken, TypeOK
<1> QED BY <1>1, <1>2, <1>3, <1>4, <1>5 DEF PacketTaken, TypeOK, inputs, subscriberVars

LEMMA SubscriberTypes ==
  ASSUME TypeOK, NEW p \in Procs, SubscriberNext(p), UNCHANGED serverVars
  PROVE  TypeOK'
<1>1. CASE Connect(p)
  <2>1. Append(backlog, p) \in Seq(Procs)
    BY DEF TypeOK
  <2> QED BY <1>1, <2>1 DEF Connect, Becomes, TypeOK, serverVars
<1>2. CASE ConnectFails(p)
  BY <1>2 DEF ConnectFails, Becomes, TypeOK, serverVars, sockets
<1>3. ASSUME NEW pk \in Packets, PacketFrom(p, pk)
      PROVE  c2s' \in [Procs -> Seq(Packets)]
  <2>1. c2s \in [Procs -> Seq(Packets)] /\ Append(c2s[p], pk) \in Seq(Packets)
    BY DEF TypeOK
  <2> QED BY <1>3, <2>1 DEF PacketFrom
<1>4. CASE Hello(p)
  <2>1. [command |-> "connect", topic |-> IdOf[p]] \in Packets
    BY PubSubAssumption DEF Packets
  <2>2. c2s' \in [Procs -> Seq(Packets)]
    BY <1>3, <1>4, <2>1 DEF Hello
  <2> QED BY <1>4, <2>2 DEF Hello, Becomes, TypeOK, serverVars
<1>5. CASE Command(p)
  <2>1. PICK command \in {"subscribe", "unsubscribe"}, pattern \in Patterns :
          PacketFrom(p, [command |-> command, topic |-> pattern])
    BY <1>5 DEF Command
  <2>2. [command |-> command, topic |-> pattern] \in Packets
    BY DEF Packets
  <2>3. c2s' \in [Procs -> Seq(Packets)]
    BY <1>3, <2>1, <2>2
  <2>4. given' \in [Procs -> Nat] /\ \A q \in Procs : given'[q] <= MaxCommands[q]
    <3>1. given[p] \in Nat /\ given[p] < MaxCommands[p] /\ MaxCommands[p] \in Nat
      BY <1>5, PubSubAssumption DEF Command, TypeOK
    <3>2. given \in [Procs -> Nat] /\ \A q \in Procs : given[q] <= MaxCommands[q]
      BY DEF TypeOK
    <3>3. given' = [given EXCEPT ![p] = @ + 1]
      BY <1>5 DEF Command
    <3>4. given[p] + 1 \in Nat /\ given[p] + 1 <= MaxCommands[p]
      BY <3>1
    <3> QED BY <3>2, <3>3, <3>4
  <2> QED BY <1>5, <2>3, <2>4 DEF Command, TypeOK, serverVars
<1>6. CASE Receive(p)
  <2>1. Head(s2c[p]) \in Nat /\ Tail(s2c[p]) \in Seq(Nat)
    <3>1. s2c[p] \in Seq(Nat) /\ s2c[p] # <<>>
      BY <1>6 DEF Receive, TypeOK
    <3> QED BY <3>1
  <2> QED BY <1>6, <2>1 DEF Receive, TypeOK, serverVars
<1>7. CASE Ended(p)
  <2>1. \A s \in Seq(Packets) : Len(s) > Cap => SubSeq(s, 1, Cap) \in Seq(Packets)
    BY SocketAssumption
  <2>2. <<>> \in Seq(Nat)
    OBVIOUS
  <2>3. c2s' \in [Procs -> Seq(Packets)]
    BY <1>7, <2>1 DEF Ended, ProcessEnds, Blocked, TypeOK
  <2>4. s2c' \in [Procs -> Seq(Nat)]
    BY <1>7, <2>2 DEF Ended, ProcessEnds, TypeOK
  <2>5. link' \in [Procs -> {"none", "open", "fin", "reset", "dead", "closed"}]
    BY <1>7 DEF Ended, ProcessEnds, TypeOK
  <2> QED BY <1>7, <2>3, <2>4, <2>5 DEF Ended, ProcessEnds, Becomes, TypeOK, serverVars
<1>8. ReceiveRefusal(p) \/ ServerGone(p) \/ Quit(p) => Ended(p)
  BY DEF ReceiveRefusal, ServerGone, Quit
<1> QED BY <1>1, <1>2, <1>4, <1>5, <1>6, <1>7, <1>8 DEF SubscriberNext

LEMMA EnvironmentTypes ==
  ASSUME TypeOK, Datagram \/ TypeLine PROVE TypeOK'
<1>1. CASE Datagram
  <2>1. udp' \in Seq(Topics)
    BY <1>1 DEF Datagram, TypeOK
  <2> QED BY <1>1, <2>1 DEF Datagram, TypeOK, tables, sockets, subscriberVars
<1>2. CASE TypeLine
  <2>1. typed' \in Seq({"exit", "other"})
    BY <1>2 DEF TypeLine, TypeOK
  <2> QED BY <1>2, <2>1 DEF TypeLine, TypeOK, tables, sockets, subscriberVars
<1> QED BY <1>1, <1>2

LEMMA TypesStep ==
  ASSUME IInv, [Next]_vars PROVE TypeOK'
<1> USE DEF IInv
<1>1. CASE ServerStep
  BY <1>1, PollTypes, AcceptTypes, PublishTypes, EndingTypes, OtherLineTypes,
     ClosingTypes, TakingTypes DEF ServerStep, ServerNext
<1>2. CASE SubscriberStep
  BY <1>2, SubscriberTypes DEF SubscriberStep
<1>3. CASE Datagram \/ TypeLine
  BY <1>3, EnvironmentTypes
<1>4. CASE UNCHANGED vars
  BY <1>4 DEF vars, serverVars, subscriberVars, sockets, TypeOK
<1> QED BY <1>1, <1>2, <1>3, <1>4 DEF Next

-----------------------------------------------------------------------------
(* PollTableExact is preserved. *)

\* The steps that leave the poll array and the descriptors as they are.
LEMMA PollUntouched ==
  ASSUME PollTableExact, srv' = srv, poll_fds' = poll_fds, conn' = conn
  PROVE  PollTableExact'
BY DEF PollTableExact, Accepted

LEMMA PollAfterAccept ==
  ASSUME TypeOK, PollTableExact, AcceptConnection
  PROVE  PollTableExact'
<1>1. PICK fd \in Fds :
        Accept(fd) /\ poll_fds' = Append(poll_fds, fd)
  BY DEF AcceptConnection, ScanOn
<1>2. srv = "up" /\ srv' = srv
  BY DEF AcceptConnection, Handling
<1> DEFINE n == Len(poll_fds)
<1>3. n \in Nat /\ n >= 3 /\ poll_fds \in Seq(Descriptors) /\ DOMAIN poll_fds = 1 .. n
  BY <1>2 DEF PollTableExact, TypeOK
<1>4. /\ Len(poll_fds') = n + 1 /\ DOMAIN poll_fds' = 1 .. n + 1
      /\ poll_fds'[n + 1] = fd /\ \A k \in 1 .. n : poll_fds'[k] = poll_fds[k]
  BY <1>1, <1>3
<1>5. conn[fd] = NoProc /\ conn'[fd] \in Procs
      /\ \A gd \in Fds : gd # fd => conn'[gd] = conn[gd]
  <2>1. Head(backlog) \in Procs
    BY <1>1 DEF Accept, TypeOK
  <2> QED BY <1>1, <2>1 DEF Accept, TypeOK
<1>6. Accepted' = Accepted \cup {fd} /\ fd \notin Accepted
  BY <1>5, SocketAssumption DEF Accepted
<1>7. {poll_fds'[k] : k \in 4 .. n + 1} = {poll_fds[k] : k \in 4 .. n} \cup {fd}
  BY <1>3, <1>4
<1>8. \A k \in 1 .. n : poll_fds[k] # fd
  <2>1. \A k \in 4 .. n : poll_fds[k] \in Accepted
    BY <1>2 DEF PollTableExact
  <2>2. TcpFd # fd /\ UdpFd # fd /\ StdinFd # fd
    BY FdsAreDescriptors
  <2>3. \A k \in 1 .. n : k = 1 \/ k = 2 \/ k = 3 \/ k \in 4 .. n
    BY <1>3
  <2> QED BY <1>2, <1>6, <2>1, <2>2, <2>3 DEF PollTableExact
<1>9. \A k, l \in 1 .. n + 1 : poll_fds'[k] = poll_fds'[l] => k = l
  <2>1. \A k, l \in 1 .. n : poll_fds[k] = poll_fds[l] => k = l
    BY <1>2, <1>3 DEF PollTableExact
  <2>2. \A k \in 1 .. n + 1 : k \in 1 .. n \/ k = n + 1
    BY <1>3
  <2> QED BY <1>4, <1>8, <2>1, <2>2
<1>10. poll_fds'[1] = TcpFd /\ poll_fds'[2] = UdpFd /\ poll_fds'[3] = StdinFd
  BY <1>2, <1>3, <1>4 DEF PollTableExact
<1>11. {poll_fds'[k] : k \in 4 .. Len(poll_fds')} = Accepted'
  BY <1>2, <1>4, <1>6, <1>7 DEF PollTableExact
<1> QED BY <1>3, <1>4, <1>9, <1>10, <1>11 DEF PollTableExact

LEMMA PollAfterClose ==
  ASSUME TypeOK, PollTableExact, AtClient, RemoveEntry, ClosedBy(fd_i), srv' = srv
  PROVE  PollTableExact'
<1> DEFINE n == Len(poll_fds)
<1>1. /\ srv = "up" /\ i \in 4 .. n /\ fd_i \in Accepted
  BY AtClientFacts
<1>2. n \in Nat /\ n >= 4 /\ poll_fds \in Seq(Descriptors) /\ DOMAIN poll_fds = 1 .. n
      /\ i \in 1 .. n
  BY <1>1 DEF TypeOK
<1>3. poll_fds' = Without(poll_fds, i)
  BY DEF RemoveEntry, ScanOn
<1>4. /\ Len(poll_fds') = n - 1 /\ DOMAIN poll_fds' = 1 .. n - 1
      /\ \A m \in 1 .. n - 1 :
           poll_fds'[m] = IF m < i THEN poll_fds[m] ELSE poll_fds[m + 1]
  <2>1. /\ Without(poll_fds, i) \in Seq(Descriptors)
        /\ Len(Without(poll_fds, i)) = n - 1
        /\ \A m \in 1 .. n - 1 :
             Without(poll_fds, i)[m] = IF m < i THEN poll_fds[m] ELSE poll_fds[m + 1]
    BY <1>2, WithoutShifts
  <2>2. DOMAIN Without(poll_fds, i) = 1 .. n - 1
    BY <2>1
  <2> QED BY <1>3, <2>1, <2>2
<1>5. Accepted' = Accepted \ {fd_i}
  BY DEF ClosedBy, Accepted, TypeOK
<1>6. \A k, l \in 1 .. n : poll_fds[k] = poll_fds[l] => k = l
  BY <1>1, <1>2 DEF PollTableExact
<1>7. {poll_fds[k] : k \in 4 .. n} = Accepted
  BY <1>1 DEF PollTableExact
<1>8. {poll_fds'[k] : k \in 4 .. n - 1} = Accepted \ {fd_i}
  <2>1. ASSUME NEW m \in 4 .. n - 1 PROVE poll_fds'[m] \in Accepted \ {fd_i}
    <3>1. PICK k \in 4 .. n : k # i /\ poll_fds'[m] = poll_fds[k]
      <4>1. CASE m < i  BY <4>1, <1>1, <1>2, <1>4
      <4>2. CASE m >= i
        <5>1. m + 1 \in 4 .. n /\ m + 1 # i /\ m \in 1 .. n - 1
          BY <4>2, <1>1, <1>2
        <5> QED BY <4>2, <5>1, <1>1, <1>4
      <4> QED BY <4>1, <4>2, <1>1
    <3>2. k \in 1 .. n
      BY <1>2
    <3> QED BY <3>1, <3>2, <1>2, <1>6, <1>7 DEF fd_i
  <2>2. ASSUME NEW fd \in Accepted \ {fd_i}
        PROVE  \E m \in 4 .. n - 1 : poll_fds'[m] = fd
    <3>1. PICK k \in 4 .. n : poll_fds[k] = fd
      BY <1>7
    <3>2. k # i
      BY <3>1 DEF fd_i
    <3>3. CASE k < i
      <4>1. k \in 4 .. n - 1 /\ k \in 1 .. n - 1
        BY <3>3, <1>1, <1>2
      <4> QED BY <4>1, <3>1, <3>3, <1>4
    <3>4. CASE k > i
      <4>1. k - 1 \in 4 .. n - 1 /\ k - 1 \in 1 .. n - 1 /\ ~(k - 1 < i) /\ (k - 1) + 1 = k
        BY <3>4, <1>1, <1>2
      <4> QED BY <4>1, <3>1, <1>4
    <3> QED BY <3>2, <3>3, <3>4, <1>1
  <2> QED BY <2>1, <2>2
<1>9. \A k, l \in 1 .. n - 1 : poll_fds'[k] = poll_fds'[l] => k = l
  <2> SUFFICES ASSUME NEW k \in 1 .. n - 1, NEW l \in 1 .. n - 1,
                      poll_fds'[k] = poll_fds'[l]
               PROVE  k = l
    OBVIOUS
  <2> DEFINE K == IF k < i THEN k ELSE k + 1
             L == IF l < i THEN l ELSE l + 1
  <2>1. K \in 1 .. n /\ L \in 1 .. n
    BY <1>2
  <2>2. poll_fds'[k] = poll_fds[K] /\ poll_fds'[l] = poll_fds[L]
    BY <1>4
  <2>3. K = L
    BY <2>1, <2>2, <1>6
  <2> QED BY <2>3, <1>2
<1>10. poll_fds'[1] = TcpFd /\ poll_fds'[2] = UdpFd /\ poll_fds'[3] = StdinFd
  BY <1>1, <1>2, <1>4 DEF PollTableExact
<1>11. Len(poll_fds') >= 3
  BY <1>2, <1>4
<1> QED BY <1>4, <1>5, <1>8, <1>9, <1>10, <1>11 DEF PollTableExact

LEMMA PollStep ==
  ASSUME IInv, [Next]_vars PROVE PollTableExact'
<1> USE DEF IInv
<1>1. CASE AcceptConnection
  BY <1>1, PollAfterAccept
<1>2. CASE Disconnect \/ ConnectRefused
  BY <1>2, PollAfterClose DEF Disconnect, ConnectRefused, Receiving
<1>3. CASE PublishKilled \/ ExitCommand \/ ReceiveError
  BY <1>3 DEF PublishKilled, ExitCommand, ReceiveError, Ends, BrokerEnds, PollTableExact
<1>4. CASE \/ Poll \/ PublishBegin \/ PublishSend \/ PublishEnd \/ OtherLine
           \/ SubscribeCommand \/ UnsubscribeCommand \/ ConnectNew
  BY <1>4, PollUntouched DEF Poll, PublishBegin, PublishSend, PublishEnd, OtherLine,
     SubscribeCommand, UnsubscribeCommand, ConnectNew, PacketTaken, ScanOn, sockets
<1>5. CASE SubscriberStep
  BY <1>5, PollUntouched DEF SubscriberStep, SubscriberNext, serverVars, Connect,
     ConnectFails, Hello, Command, Receive, ReceiveRefusal, ServerGone, Quit, Ended,
     ProcessEnds, sockets
<1>6. CASE Datagram \/ TypeLine \/ UNCHANGED vars
  BY <1>6, PollUntouched DEF Datagram, TypeLine, vars, serverVars, sockets
<1> QED BY <1>1, <1>2, <1>3, <1>4, <1>5, <1>6 DEF Next, ServerStep, ServerNext

-----------------------------------------------------------------------------
(* ConnInv is preserved. *)

LEMMA ConnUntouched ==
  ASSUME ConnInv, backlog' = backlog, conn' = conn,
         \A p \in Procs : sub[p] # "idle" => sub'[p] # "idle"
  PROVE  ConnInv'
BY DEF ConnInv, Occurs, Accepted, Elems

LEMMA ConnAfterClose ==
  ASSUME TypeOK, ConnInv, NEW fd, conn' = [conn EXCEPT ![fd] = NoProc],
         backlog' = backlog, sub' = sub
  PROVE  ConnInv' /\ \A p \in Procs : Occurs(p)' => Occurs(p)
<1>1. \A gd \in Fds : conn'[gd] = NoProc \/ conn'[gd] = conn[gd]
  BY DEF TypeOK
<1>2. Accepted' \subseteq Accepted /\ \A gd \in Accepted' : conn'[gd] = conn[gd]
  BY <1>1 DEF Accepted
<1>3. \A gd, hd \in Accepted' : conn'[gd] = conn'[hd] => gd = hd
  BY <1>2 DEF ConnInv
<1>4. \A m \in DOMAIN backlog', gd \in Fds : backlog'[m] # conn'[gd]
  <2>1. \A m \in DOMAIN backlog : backlog[m] \in Procs
    BY DEF TypeOK
  <2> QED BY <1>1, <2>1, SocketAssumption DEF ConnInv
<1>5. \A p \in Procs : Occurs(p)' => Occurs(p)
  BY <1>1, SocketAssumption DEF Occurs, Elems
<1>6. ConnInv'
  BY <1>3, <1>4, <1>5 DEF ConnInv
<1> QED BY <1>5, <1>6

LEMMA ConnAfterAccept ==
  ASSUME TypeOK, ConnInv, AcceptConnection, sub' = sub
  PROVE  ConnInv' /\ \A p \in Procs : Occurs(p)' => Occurs(p)
<1>1. PICK fd \in Fds : Accept(fd)
  BY DEF AcceptConnection
<1> DEFINE n == Len(backlog)
<1>2. n \in Nat /\ n >= 1 /\ backlog \in Seq(Procs) /\ DOMAIN backlog = 1 .. n
  <2>1. backlog \in Seq(Procs) /\ backlog # <<>>
    BY <1>1 DEF Accept, TypeOK
  <2> QED BY <2>1
<1>3. /\ DOMAIN backlog' = 1 .. n - 1
      /\ \A m \in 1 .. n - 1 : backlog'[m] = backlog[m + 1] /\ m + 1 \in 1 .. n /\ m + 1 # 1
  BY <1>1, <1>2 DEF Accept
<1>4. /\ 1 \in 1 .. n /\ conn'[fd] = backlog[1] /\ conn[fd] = NoProc
      /\ \A gd \in Fds : gd # fd => conn'[gd] = conn[gd]
  BY <1>1, <1>2 DEF Accept, TypeOK
<1>5. Accepted' = Accepted \cup {fd}
  <2>1. backlog[1] \in Procs
    BY <1>2, <1>4
  <2> QED BY <1>4, <2>1, SocketAssumption DEF Accepted
<1>6. ASSUME NEW gd \in Accepted', NEW hd \in Accepted', conn'[gd] = conn'[hd]
      PROVE  gd = hd
  <2>1. \A ed \in Accepted : ed # fd => conn'[ed] # conn'[fd]
    BY <1>2, <1>4 DEF ConnInv, Accepted
  <2> QED BY <1>4, <1>5, <1>6, <2>1 DEF ConnInv, Accepted
<1>7. \A m, k \in DOMAIN backlog' : backlog'[m] = backlog'[k] => m = k
  BY <1>2, <1>3 DEF ConnInv
<1>8. ASSUME NEW m \in DOMAIN backlog', NEW gd \in Fds PROVE backlog'[m] # conn'[gd]
  BY <1>2, <1>3, <1>4 DEF ConnInv
<1>9. ASSUME NEW p \in Procs, Occurs(p)' PROVE Occurs(p)
  <2>1. CASE \E gd \in Fds : conn'[gd] = p
    BY <1>2, <1>4, <2>1 DEF Occurs, Elems
  <2>2. CASE \E m \in DOMAIN backlog' : backlog'[m] = p
    BY <1>2, <1>3, <2>2 DEF Occurs, Elems
  <2> QED BY <1>9, <2>1, <2>2 DEF Occurs, Elems
<1>10. ConnInv'
  BY <1>6, <1>7, <1>8, <1>9 DEF ConnInv
<1> QED BY <1>9, <1>10

LEMMA ConnAfterConnect ==
  ASSUME TypeOK, ConnInv, NEW p \in Procs, Connect(p)
  PROVE  ConnInv' /\ \A q \in Procs : Occurs(q)' => Occurs(q) \/ q = p
<1> DEFINE n == Len(backlog)
<1>1. n \in Nat /\ backlog \in Seq(Procs) /\ DOMAIN backlog = 1 .. n
  BY DEF TypeOK
<1>2. /\ DOMAIN backlog' = 1 .. n + 1 /\ backlog'[n + 1] = p
      /\ \A m \in 1 .. n : backlog'[m] = backlog[m]
  BY <1>1 DEF Connect
<1>3. conn' = conn /\ sub[p] = "idle" /\ sub'[p] = "connected"
      /\ \A q \in Procs : q # p => sub'[q] = sub[q]
  BY DEF Connect, Becomes, TypeOK
<1>4. (\A m \in 1 .. n : backlog[m] # p) /\ \A fd \in Fds : conn[fd] # p
  BY <1>1, <1>3 DEF ConnInv, Occurs, Elems
<1>5. \A m \in 1 .. n + 1 : m \in 1 .. n \/ m = n + 1
  BY <1>1
<1>6. \A m, k \in DOMAIN backlog' : backlog'[m] = backlog'[k] => m = k
  BY <1>1, <1>2, <1>4, <1>5 DEF ConnInv
<1>7. \A m \in DOMAIN backlog', fd \in Fds : backlog'[m] # conn'[fd]
  BY <1>1, <1>2, <1>3, <1>4, <1>5 DEF ConnInv
<1>8. \A q \in Procs : Occurs(q)' => Occurs(q) \/ q = p
  BY <1>1, <1>2, <1>3, <1>5 DEF Occurs, Elems
<1>9. \A q \in Procs : Occurs(q)' => sub'[q] # "idle"
  BY <1>3, <1>8 DEF ConnInv
<1>10. \A fd, gd \in Accepted' : conn'[fd] = conn'[gd] => fd = gd
  BY <1>3 DEF ConnInv, Accepted
<1>11. ConnInv'
  BY <1>6, <1>7, <1>9, <1>10 DEF ConnInv
<1> QED BY <1>8, <1>11

LEMMA ConnAfterEnd ==
  ASSUME backlog' = <<>>, conn' = [fd \in Fds |-> NoProc]
  PROVE  ConnInv'
BY SocketAssumption DEF ConnInv, Occurs, Elems, Accepted

LEMMA ConnStep ==
  ASSUME IInv, [Next]_vars PROVE ConnInv'
<1> USE DEF IInv
<1>1. CASE AcceptConnection /\ UNCHANGED subscriberVars
  BY <1>1, ConnAfterAccept DEF subscriberVars
<1>2. CASE (Disconnect \/ ConnectRefused) /\ UNCHANGED subscriberVars
  <2>1. conn' = [conn EXCEPT ![fd_i] = NoProc] /\ backlog' = backlog /\ sub' = sub
    BY <1>2 DEF Disconnect, ConnectRefused, ClosedBy, subscriberVars
  <2> QED BY <2>1, ConnAfterClose
<1>3. CASE PublishKilled \/ ExitCommand \/ ReceiveError
  BY <1>3, ConnAfterEnd DEF PublishKilled, ExitCommand, ReceiveError, Ends, BrokerEnds
<1>4. CASE /\ UNCHANGED subscriberVars
           /\ \/ Poll \/ PublishBegin \/ PublishSend \/ PublishEnd \/ OtherLine
              \/ SubscribeCommand \/ UnsubscribeCommand \/ ConnectNew
  <2>1. backlog' = backlog /\ conn' = conn /\ sub' = sub
    BY <1>4 DEF Poll, PublishBegin, PublishSend, PublishEnd, OtherLine,
       SubscribeCommand, UnsubscribeCommand, ConnectNew, PacketTaken, sockets, subscriberVars
  <2> QED BY <2>1, ConnUntouched
<1>5. ASSUME NEW p \in Procs, SubscriberNext(p) PROVE ConnInv'
  <2>1. CASE Connect(p)
    BY <2>1, ConnAfterConnect
  <2>2. CASE ~Connect(p)
    <3>1. backlog' = backlog /\ conn' = conn
      BY <1>5, <2>2 DEF SubscriberNext, ConnectFails, Hello, Command, Receive,
         ReceiveRefusal, ServerGone, Quit, Ended, ProcessEnds, sockets
    <3>2. sub' = sub \/ sub' = [sub EXCEPT ![p] = "exited"] \/ sub' = [sub EXCEPT ![p] = "running"]
      BY <1>5, <2>2 DEF SubscriberNext, ConnectFails, Hello, Command, Receive,
         ReceiveRefusal, ServerGone, Quit, Ended, Becomes
    <3>3. \A q \in Procs : sub[q] # "idle" => sub'[q] # "idle"
      BY <3>2 DEF TypeOK
    <3> QED BY <3>1, <3>3, ConnUntouched
  <2> QED BY <2>1, <2>2
<1>6. CASE Datagram \/ TypeLine \/ UNCHANGED vars
  <2>1. backlog' = backlog /\ conn' = conn /\ sub' = sub
    BY <1>6 DEF Datagram, TypeLine, vars, sockets, subscriberVars
  <2> QED BY <2>1, ConnUntouched
<1> QED BY <1>1, <1>2, <1>3, <1>4, <1>5, <1>6 DEF Next, ServerStep, ServerNext, SubscriberStep

-----------------------------------------------------------------------------
(* SlotInv and IdInv are preserved, and who is registered afterwards. *)

LEMMA SlotsUntouched ==
  ASSUME TypeOK, SlotInv, IdInv,
         DOMAIN clients' = DOMAIN clients,
         \A k \in DOMAIN clients : /\ clients'[k].id = clients[k].id
                                   /\ clients'[k].sockfd = clients[k].sockfd
                                   /\ clients'[k].connected = clients[k].connected,
         \A k \in Connected : conn'[clients[k].sockfd] = conn[clients[k].sockfd]
  PROVE  /\ SlotInv' /\ IdInv'
         /\ \A p \in Procs : Registered(p)' <=> Registered(p)
<1>1. Connected' = Connected
  BY DEF Connected
<1>2. \A k \in Connected : k \in DOMAIN clients /\ clients[k].sockfd \in Accepted
  BY DEF SlotInv, Connected
<1>3. \A k \in Connected : clients'[k].sockfd \in Accepted'
  BY <1>2 DEF Accepted
<1>4. \A k \in Connected :
        Stored[IdOf[conn'[clients'[k].sockfd]]] = clients'[k].id
  BY <1>2 DEF SlotInv
<1>5. \A k, l \in Connected : clients'[l].sockfd = clients'[k].sockfd => l = k
  BY <1>2 DEF SlotInv
<1>6. SlotInv'
  BY <1>1, <1>3, <1>4, <1>5 DEF SlotInv
<1>7. IdInv'
  BY DEF IdInv, IdsFit
<1>8. \A p \in Procs : Registered(p)' <=> Registered(p)
  BY <1>1, <1>2 DEF Registered
<1> QED BY <1>6, <1>7, <1>8

LEMMA SlotsAfterFlag ==
  ASSUME TypeOK, SlotInv, IdInv, conn' = conn,
         \/ clients' = FlagsCleared
         \/ \E r : clients' = [clients EXCEPT ![r].sent_message = TRUE]
  PROVE  /\ SlotInv' /\ IdInv'
         /\ \A p \in Procs : Registered(p)' <=> Registered(p)
<1>1. \A k \in DOMAIN clients : clients[k] \in Slots
  BY DEF TypeOK
<1>2. DOMAIN clients' = DOMAIN clients
  BY DEF FlagsCleared, TypeOK
<1>3. ASSUME NEW k \in DOMAIN clients
      PROVE  /\ clients'[k].id = clients[k].id
             /\ clients'[k].sockfd = clients[k].sockfd
             /\ clients'[k].connected = clients[k].connected
  <2>1. \/ clients'[k] = clients[k]
        \/ clients'[k] = [clients[k] EXCEPT !.sent_message = FALSE]
        \/ clients'[k] = [clients[k] EXCEPT !.sent_message = TRUE]
    BY <1>2 DEF FlagsCleared, TypeOK
  <2> QED BY <1>1, <2>1 DEF Slots
<1> QED BY <1>2, <1>3, SlotsUntouched

LEMMA SlotsAfterDisconnect ==
  ASSUME TypeOK, PollTableExact, ConnInv, SlotInv, IdInv, Disconnect
  PROVE  /\ SlotInv' /\ IdInv'
         /\ \A p \in Procs : Registered(p)' <=> Registered(p) /\ p # peer
<1>1. fd_i \in Fds /\ fd_i \in Accepted /\ peer \in Procs /\ fd_i # NoFd
  BY AtClientFacts, FdsAreDescriptors DEF Disconnect
<1> DEFINE l == find_client_by_fd(fd_i)
<1>2. conn' = [conn EXCEPT ![fd_i] = NoProc] /\ clients' = Disconnected(fd_i)
  BY DEF Disconnect, ClosedBy
<1>3. \A fd \in Fds : conn'[fd] = IF fd = fd_i THEN NoProc ELSE conn[fd]
  BY <1>1, <1>2 DEF TypeOK
<1>4. DOMAIN clients' = DOMAIN clients
  BY <1>2, FoundByFd DEF Disconnected, TypeOK
<1>5. \A k \in DOMAIN clients : clients[k] \in Slots
  BY DEF TypeOK
<1>6. ASSUME NEW k \in DOMAIN clients
      PROVE  /\ clients'[k].id = clients[k].id
             /\ clients'[k].sockfd = IF k = l THEN NoFd ELSE clients[k].sockfd
             /\ clients'[k].connected <=> k # l /\ clients[k].connected
  <2>1. CASE l = 0
    BY <1>2, <2>1 DEF Disconnected, TypeOK
  <2>2. CASE l # 0
    <3>1. clients'[k] = IF k = l THEN [clients[k] EXCEPT !.sockfd = NoFd, !.connected = FALSE]
                        ELSE clients[k]
      BY <1>2, <2>2, FoundByFd DEF Disconnected, TypeOK
    <3> QED BY <1>5, <3>1 DEF Slots
  <2> QED BY <2>1, <2>2
<1> HIDE DEF l
<1>7. Connected' = Connected \ {l}
  BY <1>4, <1>6 DEF Connected
<1>8. \A k \in Connected : clients[k].sockfd = fd_i <=> k = l
  <2>1. ASSUME NEW k \in Connected, clients[k].sockfd = fd_i PROVE k = l
    <3>1. l \in DOMAIN clients /\ clients[l].sockfd = fd_i
      BY <2>1, FoundByFd DEF Connected, l
    <3>2. l \in Connected
      BY <1>1, <3>1 DEF SlotInv, Connected
    <3> QED BY <2>1, <3>1, <3>2 DEF SlotInv
  <2>2. ASSUME l \in Connected PROVE clients[l].sockfd = fd_i
    <3>1. l # 0
      BY <2>2 DEF Connected, TypeOK
    <3> QED BY <3>1, FoundByFd DEF l
  <2> QED BY <2>1, <2>2
<1>9. ASSUME NEW k \in Connected'
      PROVE  /\ k \in Connected /\ k \in DOMAIN clients /\ clients'[k].id = clients[k].id
             /\ clients'[k].sockfd = clients[k].sockfd /\ clients[k].sockfd # fd_i
             /\ clients[k].sockfd \in Accepted /\ clients[k].sockfd \in Fds
             /\ conn'[clients[k].sockfd] = conn[clients[k].sockfd]
  BY <1>3, <1>6, <1>7, <1>8 DEF Connected, SlotInv, Accepted
<1>10. SlotInv'
  <2>1. \A k \in DOMAIN clients' :
          /\ clients'[k].sockfd = NoFd <=> ~clients'[k].connected
          /\ Stored[clients'[k].id] = clients'[k].id
    BY <1>4, <1>6 DEF SlotInv
  <2>2. \A k \in Connected' : clients'[k].sockfd \in Accepted'
    BY <1>9 DEF Accepted
  <2>3. \A k \in Connected' : Stored[IdOf[conn'[clients'[k].sockfd]]] = clients'[k].id
    BY <1>9 DEF SlotInv
  <2>4. \A k, m \in Connected' : clients'[m].sockfd = clients'[k].sockfd => m = k
    BY <1>9 DEF SlotInv
  <2> QED BY <2>1, <2>2, <2>3, <2>4 DEF SlotInv
<1>11. IdInv'
  BY <1>4, <1>6 DEF IdInv, IdsFit
<1>12. ASSUME NEW p \in Procs
       PROVE  Registered(p)' <=> Registered(p) /\ p # peer
  <2>1. ASSUME Registered(p)' PROVE Registered(p) /\ p # peer
    <3>1. PICK k \in Connected' : conn'[clients'[k].sockfd] = p
      BY <2>1 DEF Registered
    <3> QED BY <1>1, <1>9, <3>1 DEF Registered, ConnInv, peer
  <2>2. ASSUME Registered(p), p # peer PROVE Registered(p)'
    <3>1. PICK k \in Connected : conn[clients[k].sockfd] = p
      BY <2>2 DEF Registered
    <3>2. clients[k].sockfd # fd_i
      BY <2>2, <3>1 DEF peer
    <3>3. k \in Connected'
      BY <1>7, <1>8, <3>2
    <3> QED BY <1>9, <3>1, <3>3 DEF Registered
  <2> QED BY <2>1, <2>2
<1> QED BY <1>10, <1>11, <1>12

\* A process whose hello is still to be read is not registered.
LEMMA HelloIsFirst ==
  ASSUME TypeOK, PollTableExact, HelloInv, Receiving("connect")
  PROVE  /\ peer \in Procs /\ ~Registered(peer) /\ packet.topic = IdOf[peer]
         /\ packet.topic \in Ids /\ sub[peer] \notin {"idle", "connected"}
<1>1. /\ peer \in Procs /\ c2s[peer] \in Seq(Packets) /\ c2s[peer] # <<>>
      /\ packet = c2s[peer][1] /\ packet.command = "connect" /\ packet.topic \in Ids
  BY PacketFacts DEF Receiving
<1>2. 1 \in DOMAIN c2s[peer]
  BY <1>1
<1> QED BY <1>1, <1>2 DEF HelloInv, HelloOf

LEMMA SlotsAfterRefusal ==
  ASSUME TypeOK, PollTableExact, HelloInv, SlotInv, IdInv, ConnectRefused
  PROVE  /\ SlotInv' /\ IdInv'
         /\ \A p \in Procs : Registered(p)' <=> Registered(p)
<1>1. clients' = clients /\ conn' = [conn EXCEPT ![fd_i] = NoProc]
  BY DEF ConnectRefused, ClosedBy, tables
<1>2. ~Registered(peer)
  BY HelloIsFirst DEF ConnectRefused
<1>3. \A k \in Connected : clients[k].sockfd # fd_i
  BY <1>2 DEF Registered, peer
<1>4. \A k \in Connected : conn'[clients[k].sockfd] = conn[clients[k].sockfd]
  BY <1>1, <1>3 DEF TypeOK, SlotInv, Accepted
<1> QED BY <1>1, <1>4, SlotsUntouched

LEMMA SlotsAfterAccept ==
  ASSUME TypeOK, SlotInv, IdInv, AcceptConnection
  PROVE  /\ SlotInv' /\ IdInv'
         /\ \A p \in Procs : Registered(p)' <=> Registered(p)
<1>1. PICK fd \in Fds : Accept(fd)
  BY DEF AcceptConnection
<1>2. clients' = clients /\ conn[fd] = NoProc /\ conn' = [conn EXCEPT ![fd] = Head(backlog)]
  BY <1>1 DEF AcceptConnection, Accept, tables
<1>3. \A k \in Connected : conn'[clients[k].sockfd] = conn[clients[k].sockfd]
  BY <1>2 DEF TypeOK, SlotInv, Accepted
<1> QED BY <1>2, <1>3, SlotsUntouched

LEMMA SlotsAfterEnd ==
  ASSUME clients' = <<>>
  PROVE  SlotInv' /\ IdInv' /\ \A p \in Procs : ~Registered(p)'
<1>1. DOMAIN clients' = {}
  OBVIOUS
<1>2. Connected' = {}
  BY <1>1 DEF Connected
<1> QED BY <1>1, <1>2 DEF SlotInv, IdInv, Registered

LEMMA SlotsAfterConnect ==
  ASSUME TypeOK, PollTableExact, ConnInv, HelloInv, SlotInv, IdInv, ConnectNew
  PROVE  /\ SlotInv' /\ IdInv'
         /\ \A p \in Procs : Registered(p)' <=> Registered(p) \/ p = peer
<1> DEFINE id == IdOf[peer]
           l == find_client_by_id(id)
           n == Len(clients)
           new == IF l # 0 THEN l ELSE n + 1
<1>1. /\ peer \in Procs /\ ~Registered(peer) /\ packet.topic = id /\ id \in Ids
  BY HelloIsFirst DEF ConnectNew
<1>2. fd_i \in Fds /\ fd_i \in Accepted /\ fd_i # NoFd
  BY AtClientFacts, FdsAreDescriptors DEF ConnectNew, Receiving
<1>3. /\ conn' = conn /\ clients' = add_or_reconnect_client(id, fd_i)
      /\ l # 0 => ~clients[l].connected
  BY <1>1 DEF ConnectNew, PacketTaken, IsConnected
<1>4. n \in Nat /\ DOMAIN clients = 1 .. n /\ \A k \in 1 .. n : clients[k] \in Slots
  BY DEF TypeOK
<1>5. /\ l \in 0 .. n
      /\ l # 0 => clients[l].id = id
      /\ l = 0 => \A k \in 1 .. n : clients[k].id # id
  BY <1>4, FoundById
<1>6. \A k \in Connected : clients[k].sockfd # fd_i
  BY <1>1 DEF Registered, peer
<1>7. /\ DOMAIN clients' = 1 .. n \cup {new}
      /\ clients'[new].sockfd = fd_i /\ clients'[new].connected
      /\ clients'[new].id = Stored[id]
      /\ \A k \in 1 .. n : k # new => clients'[k] = clients[k]
  <2>1. CASE l # 0
    <3>1. clients' = [clients EXCEPT ![l].sockfd = fd_i, ![l].connected = TRUE]
      BY <1>3, <2>1 DEF add_or_reconnect_client
    <3>2. l \in 1 .. n /\ clients[l] \in Slots
      <4> HIDE DEF l
      <4>1. l \in 1 .. n
        BY <1>4, <1>5, <2>1
      <4> QED BY <1>4, <4>1
    <3>3. clients'[l] = [clients[l] EXCEPT !.sockfd = fd_i, !.connected = TRUE]
      BY <1>4, <3>1, <3>2 DEF Slots
    <3>4. Stored[id] = clients[l].id
      BY <1>4, <1>5, <2>1, <3>2 DEF SlotInv
    <3>5. clients'[l].sockfd = fd_i /\ clients'[l].connected /\ clients'[l].id = Stored[id]
      BY <3>2, <3>3, <3>4 DEF Slots
    <3>6. DOMAIN clients' = 1 .. n /\ \A k \in 1 .. n : k # l => clients'[k] = clients[k]
      BY <1>4, <3>1, <3>2
    <3> HIDE DEF l, id
    <3> QED BY <2>1, <3>2, <3>5, <3>6
  <2>2. CASE l = 0
    <3>1. clients' = Append(clients, [id |-> Stored[id], sockfd |-> fd_i,
                                      connected |-> TRUE, sent_message |-> FALSE])
      BY <1>3, <2>2 DEF add_or_reconnect_client
    <3>2. new = n + 1
      BY <2>2
    <3>3. clients \in Seq(Slots)
      BY DEF TypeOK
    <3> HIDE DEF l, id, new
    <3> QED BY <1>4, <3>1, <3>2, <3>3
  <2> QED BY <2>1, <2>2
<1>8. new \notin Connected
  BY <1>3, <1>4, <1>5 DEF Connected
<1> HIDE DEF new, l
<1>9. Connected' = Connected \cup {new}
  BY <1>4, <1>7 DEF Connected
<1>10. ASSUME NEW k \in Connected
       PROVE  /\ k # new /\ k \in 1 .. n /\ clients'[k] = clients[k]
              /\ clients[k].sockfd \in Accepted /\ clients[k].sockfd # fd_i
  BY <1>4, <1>6, <1>7, <1>8 DEF Connected, SlotInv
<1>11. Accepted' = Accepted
  BY <1>3 DEF Accepted
<1>12. SlotInv'
  <2>1. Stored[Stored[id]] = Stored[id]
    BY <1>1, StoredAssumption
  <2>2. ASSUME NEW k \in DOMAIN clients'
        PROVE  /\ clients'[k].sockfd = NoFd <=> ~clients'[k].connected
               /\ Stored[clients'[k].id] = clients'[k].id
    <3>1. CASE k = new
      BY <1>2, <1>7, <2>1, <3>1
    <3>2. CASE k # new
      BY <1>4, <1>7, <3>2 DEF SlotInv
    <3> QED BY <3>1, <3>2
  <2>3. \A k \in Connected' : clients'[k].sockfd \in Accepted'
    BY <1>2, <1>7, <1>9, <1>10, <1>11
  <2>4. \A k \in Connected' : Stored[IdOf[conn'[clients'[k].sockfd]]] = clients'[k].id
    <3>1. Stored[IdOf[conn[fd_i]]] = Stored[id]
      BY DEF peer
    <3> QED BY <1>3, <1>7, <1>9, <1>10, <3>1 DEF SlotInv
  <2>5. \A k, m \in Connected' : clients'[m].sockfd = clients'[k].sockfd => m = k
    BY <1>7, <1>9, <1>10 DEF SlotInv
  <2> QED BY <2>2, <2>3, <2>4, <2>5 DEF SlotInv
<1>13. IdInv'
  <2> SUFFICES ASSUME IdsFit, NEW k \in DOMAIN clients', NEW m \in DOMAIN clients',
                      clients'[k].id = clients'[m].id
               PROVE  k = m
    BY DEF IdInv, IdsFit
  <2>1. Stored[id] = id
    BY <1>1 DEF IdsFit
  <2>2. \A j \in 1 .. n : j # new => clients[j].id # id
    <3>1. CASE l = 0
      BY <1>5, <3>1
    <3>2. CASE l # 0
      <4>1. new = l /\ l \in 1 .. n /\ clients[l].id = id
        BY <1>4, <1>5, <3>2 DEF new
      <4> QED BY <1>4, <4>1 DEF IdInv
    <3> QED BY <3>1, <3>2
  <2> QED BY <1>4, <1>7, <2>1, <2>2 DEF IdInv
<1>14. ASSUME NEW p \in Procs
       PROVE  Registered(p)' <=> Registered(p) \/ p = peer
  <2>1. conn'[clients'[new].sockfd] = peer
    BY <1>3, <1>7 DEF peer
  <2>2. \A k \in Connected : conn'[clients'[k].sockfd] = conn[clients[k].sockfd]
    BY <1>3, <1>10
  <2> QED BY <1>9, <2>1, <2>2 DEF Registered
<1> QED BY <1>12, <1>13, <1>14

\* The steps of the broker that leave slots and descriptors as they are.
SlotsStay ==
  \/ Poll \/ OtherLine \/ PublishEnd \/ SubscribeCommand \/ UnsubscribeCommand
  \/ Datagram \/ TypeLine \/ UNCHANGED vars

LEMMA SlotsWhenTheyStay ==
  ASSUME IInv, SlotsStay
  PROVE  /\ SlotInv' /\ IdInv'
         /\ \A p \in Procs : Registered(p)' <=> Registered(p)
<1>1. clients' = clients /\ conn' = conn
  BY DEF SlotsStay, Poll, OtherLine, PublishEnd, SubscribeCommand, UnsubscribeCommand,
     PacketTaken, Datagram, TypeLine, vars, serverVars, tables, sockets
<1> QED BY <1>1, SlotsUntouched DEF IInv

LEMMA SlotsAfterPublish ==
  ASSUME IInv, PublishBegin \/ PublishSend
  PROVE  /\ SlotInv' /\ IdInv'
         /\ \A p \in Procs : Registered(p)' <=> Registered(p)
<1>1. conn' = conn
  BY DEF PublishBegin, PublishSend, sockets
<1>2. \/ clients' = FlagsCleared
      \/ \E r : clients' = [clients EXCEPT ![r].sent_message = TRUE]
  BY DEF PublishBegin, PublishSend
<1> QED BY <1>1, <1>2, SlotsAfterFlag DEF IInv

LEMMA SlotsAfterSubscriber ==
  ASSUME IInv, NEW q \in Procs, SubscriberNext(q), UNCHANGED serverVars
  PROVE  /\ SlotInv' /\ IdInv'
         /\ \A p \in Procs : Registered(p)' <=> Registered(p)
<1>1. clients' = clients
  BY DEF serverVars
<1>2. conn' = conn
  BY DEF SubscriberNext, Connect, ConnectFails, Hello, Command, Receive, ReceiveRefusal,
     ServerGone, Quit, Ended, ProcessEnds, sockets
<1> QED BY <1>1, <1>2, SlotsUntouched DEF IInv

LEMMA SlotStep ==
  ASSUME IInv, [Next]_vars PROVE SlotInv' /\ IdInv'
<1>1. CASE AcceptConnection
  BY <1>1, SlotsAfterAccept DEF IInv
<1>2. CASE PublishBegin \/ PublishSend
  BY <1>2, SlotsAfterPublish
<1>3. CASE PublishKilled \/ ExitCommand \/ ReceiveError
  BY <1>3, SlotsAfterEnd DEF PublishKilled, ExitCommand, ReceiveError, Ends
<1>4. CASE Disconnect
  BY <1>4, SlotsAfterDisconnect DEF IInv
<1>5. CASE ConnectNew
  BY <1>5, SlotsAfterConnect DEF IInv
<1>6. CASE ConnectRefused
  BY <1>6, SlotsAfterRefusal DEF IInv
<1>7. CASE SlotsStay
  BY <1>7, SlotsWhenTheyStay
<1>8. CASE SubscriberStep
  BY <1>8, SlotsAfterSubscriber DEF SubscriberStep
<1> QED BY <1>1, <1>2, <1>3, <1>4, <1>5, <1>6, <1>7, <1>8
       DEF Next, ServerStep, ServerNext, SlotsStay

-----------------------------------------------------------------------------
(* HelloInv is preserved. *)

LEMMA HelloUntouched ==
  ASSUME HelloInv, NEW p \in Procs,
         c2s'[p] = c2s[p], sub'[p] = sub[p], Registered(p)' <=> Registered(p),
         link'[p] = link[p] \/ link'[p] # "open"
  PROVE  HelloOf(p)'
<1>1. HelloOf(p)
  BY DEF HelloInv
<1> QED BY <1>1 DEF HelloOf

LEMMA HelloAfterClose ==
  ASSUME NEW p \in Procs, c2s'[p] = <<>>, link'[p] # "open", ~Registered(p)'
  PROVE  HelloOf(p)'
BY DEF HelloOf

\* The steps that touch neither packets to the broker nor who is registered.
LEMMA HelloStays ==
  ASSUME IInv, UNCHANGED subscriberVars,
         \/ AcceptConnection \/ PublishBegin \/ PublishSend \/ PublishEnd \/ Poll
         \/ OtherLine \/ Datagram \/ TypeLine \/ UNCHANGED vars
  PROVE  HelloInv'
<1>1. c2s' = c2s /\ sub' = sub
  BY DEF AcceptConnection, Accept, PublishBegin, PublishSend, PublishEnd, Poll, OtherLine,
     Datagram, TypeLine, vars, sockets, subscriberVars
<1>2. \A p \in Procs : link'[p] = link[p] \/ link'[p] # "open"
  BY DEF AcceptConnection, Accept, PublishBegin, PublishSend, LinkAfterSend, PublishEnd,
     Poll, OtherLine, Datagram, TypeLine, vars, sockets, IInv, TypeOK
<1>3. \A p \in Procs : Registered(p)' <=> Registered(p)
  BY SlotsAfterAccept, SlotsAfterPublish, SlotsWhenTheyStay DEF SlotsStay, IInv
<1> QED BY <1>1, <1>2, <1>3, HelloUntouched DEF HelloInv, IInv

LEMMA HelloAfterEnd ==
  ASSUME IInv, PublishKilled \/ ExitCommand \/ ReceiveError
  PROVE  HelloInv'
<1>1. PICK how \in {"exited", "died"} : Ends(how)
  BY DEF PublishKilled, ExitCommand, ReceiveError
<1>2. /\ clients' = <<>> /\ c2s' = [p \in Procs |-> <<>>]
      /\ \A p \in Procs : link'[p] # "open"
  BY <1>1, EndsTypes DEF IInv
<1> QED BY <1>2, SlotsAfterEnd, HelloAfterClose DEF HelloInv

LEMMA HelloAfterRemoval ==
  ASSUME IInv, Disconnect \/ ConnectRefused, UNCHANGED subscriberVars
  PROVE  HelloInv'
<1>1. peer \in Procs /\ sub' = sub
  BY AtClientFacts DEF Disconnect, ConnectRefused, Receiving, IInv, subscriberVars
<1>2. PICK w \in Procs : w = peer
  BY <1>1
<1>3. /\ link' = [link EXCEPT ![w] = "closed"]
      /\ c2s' = [c2s EXCEPT ![w] = <<>>]
  BY <1>2 DEF Disconnect, ConnectRefused, ClosedBy, peer
<1>4. /\ c2s'[w] = <<>> /\ link'[w] # "open"
      /\ \A p \in Procs : p # w => c2s'[p] = c2s[p] /\ link'[p] = link[p]
  BY <1>3 DEF IInv, TypeOK
<1>5. /\ ~Registered(w)'
      /\ \A p \in Procs : p # w => (Registered(p)' <=> Registered(p))
  <2>1. CASE Disconnect
    BY <1>2, <2>1, SlotsAfterDisconnect DEF IInv
  <2>2. CASE ConnectRefused
    <3>1. ~Registered(w)
      BY <1>2, <2>2, HelloIsFirst DEF IInv, ConnectRefused
    <3> QED BY <2>2, <3>1, SlotsAfterRefusal DEF IInv
  <2> QED BY <2>1, <2>2
<1>6. ASSUME NEW p \in Procs PROVE HelloOf(p)'
  <2>1. CASE p = w
    BY <1>4, <1>5, <2>1, HelloAfterClose
  <2>2. CASE p # w
    BY <1>1, <1>4, <1>5, <2>2, HelloUntouched DEF IInv
  <2> QED BY <2>1, <2>2
<1> QED BY <1>6 DEF HelloInv

LEMMA HelloAfterPacket ==
  ASSUME IInv, SubscribeCommand \/ UnsubscribeCommand \/ ConnectNew,
         UNCHANGED subscriberVars
  PROVE  HelloInv'
<1>1. AtClient /\ c2s[peer] # <<>> /\ PacketTaken
  BY DEF SubscribeCommand, UnsubscribeCommand, ConnectNew, Receiving
<1>2. peer \in Procs /\ c2s[peer] \in Seq(Packets) /\ sub' = sub /\ link' = link
  BY <1>1, PacketFacts DEF IInv, PacketTaken, subscriberVars
<1>3. PICK w \in Procs : w = peer
  BY <1>2
<1>4. /\ c2s'[w] = Tail(c2s[w])
      /\ \A p \in Procs : p # w => c2s'[p] = c2s[p]
  BY <1>1, <1>3 DEF PacketTaken, IInv, TypeOK
<1>5. /\ Registered(w)'
      /\ \A p \in Procs : p # w => (Registered(p)' <=> Registered(p))
  <2>1. CASE ConnectNew
    BY <1>3, <2>1, SlotsAfterConnect DEF IInv
  <2>2. CASE SubscribeCommand \/ UnsubscribeCommand
    <3>1. packet.command # "connect"
      BY <2>2 DEF SubscribeCommand, UnsubscribeCommand, Receiving
    <3>2. Registered(w)
      BY <1>1, <1>3, <3>1, SendersAreRegistered DEF IInv
    <3> QED BY <2>2, <3>2, SlotsWhenTheyStay DEF SlotsStay
  <2> QED BY <2>1, <2>2
<1>6. HelloOf(w)
  BY DEF IInv, HelloInv
<1>7. c2s[w] \in Seq(Packets) /\ c2s[w] # <<>>
  BY <1>1, <1>2, <1>3
<1>8. sub'[w] \notin {"idle", "connected"}
  BY <1>2, <1>6, <1>7 DEF HelloOf
<1>9. \A m \in DOMAIN c2s'[w] : c2s'[w][m].command # "connect"
  <2>1. \A m \in DOMAIN Tail(c2s[w]) :
          m + 1 \in DOMAIN c2s[w] /\ m + 1 # 1 /\ Tail(c2s[w])[m] = c2s[w][m + 1]
    BY <1>7
  <2> QED BY <1>4, <1>6, <2>1 DEF HelloOf
<1>10. HelloOf(w)'
  BY <1>5, <1>8, <1>9 DEF HelloOf
<1>11. ASSUME NEW p \in Procs, p # w PROVE HelloOf(p)'
  BY <1>2, <1>4, <1>5, <1>11, HelloUntouched DEF IInv
<1> QED BY <1>10, <1>11 DEF HelloInv

LEMMA HelloAfterSubscriber ==
  ASSUME IInv, NEW w \in Procs, SubscriberNext(w), UNCHANGED serverVars
  PROVE  HelloInv'
<1>1. \A p \in Procs : Registered(p)' <=> Registered(p)
  BY SlotsAfterSubscriber
<1>2. HelloOf(w) /\ TypeOK /\ c2s[w] \in Seq(Packets)
  BY DEF IInv, HelloInv, TypeOK
<1>3. \A p \in Procs : p # w => c2s'[p] = c2s[p] /\ sub'[p] = sub[p] /\ link'[p] = link[p]
  BY <1>2 DEF SubscriberNext, Connect, ConnectFails, Hello, Command, Receive,
     ReceiveRefusal, ServerGone, Quit, Ended, ProcessEnds, PacketFrom, Becomes, sockets, TypeOK
<1>4. ASSUME NEW p \in Procs, p # w PROVE HelloOf(p)'
  BY <1>1, <1>3, <1>4, HelloUntouched DEF IInv
<1>5. HelloOf(w)'
  <2>1. CASE Connect(w) \/ ConnectFails(w)
    <3>1. c2s' = c2s /\ sub'[w] # "running" /\ c2s[w] = <<>> /\ ~Registered(w)
      BY <1>2, <2>1 DEF Connect, ConnectFails, Becomes, sockets, HelloOf, TypeOK
    <3> QED BY <1>1, <3>1 DEF HelloOf
  <2>2. CASE Hello(w)
    <3> DEFINE hello == [command |-> "connect", topic |-> IdOf[w]]
    <3>1. c2s[w] = <<>> /\ ~Registered(w) /\ sub'[w] = "running" /\ link' = link
      BY <1>2, <2>2 DEF Hello, Becomes, HelloOf, TypeOK
    <3>2. c2s'[w] = IF link[w] = "open" THEN <<hello>> ELSE <<>>
      BY <1>2, <2>2, <3>1 DEF Hello, PacketFrom, TypeOK
    <3>3. DOMAIN <<hello>> = {1} /\ <<hello>> # <<>> /\ <<hello>>[1] = hello
      OBVIOUS
    <3>4. CASE link[w] = "open"
      BY <1>1, <3>1, <3>2, <3>3, <3>4 DEF HelloOf
    <3>5. CASE link[w] # "open"
      BY <1>1, <3>1, <3>2, <3>5 DEF HelloOf
    <3> QED BY <3>4, <3>5
  <2>3. CASE Command(w)
    <3>1. sub[w] = "running" /\ sub' = sub /\ link' = link
      BY <2>3 DEF Command
    <3>2. PICK command \in {"subscribe", "unsubscribe"}, pattern \in Patterns :
            PacketFrom(w, [command |-> command, topic |-> pattern])
      BY <2>3 DEF Command
    <3> DEFINE pk == [command |-> command, topic |-> pattern]
    <3>3. CASE link[w] # "open"
      <4>1. c2s' = c2s
        BY <3>2, <3>3 DEF PacketFrom
      <4> QED BY <1>1, <1>2, <3>1, <4>1 DEF HelloOf
    <3>4. CASE link[w] = "open"
      <4>1. c2s'[w] = Append(c2s[w], pk)
        BY <1>2, <3>2, <3>4 DEF PacketFrom, TypeOK
      <4>2. pk.command # "connect"
        OBVIOUS
      <4> HIDE DEF pk
      <4> DEFINE n == Len(c2s[w])
      <4>3. /\ n \in Nat /\ DOMAIN c2s[w] = 1 .. n /\ DOMAIN c2s'[w] = 1 .. n + 1
            /\ c2s'[w][n + 1] = pk /\ \A m \in 1 .. n : c2s'[w][m] = c2s[w][m]
            /\ c2s'[w] # <<>>
        BY <1>2, <4>1
      <4>4. Registered(w) \/ (c2s[w] # <<>> /\ c2s[w][1].command = "connect")
        BY <1>2, <3>1, <3>4, Zenon DEF HelloOf
      <4>5. Registered(w) \/ c2s'[w][1].command = "connect"
        <5>1. c2s[w] # <<>> => 1 \in 1 .. n
          BY <1>2, <4>3
        <5> QED BY <4>3, <4>4, <5>1
      <4>6. \A m \in DOMAIN c2s'[w] :
              c2s'[w][m].command = "connect" =>
                m = 1 /\ c2s'[w][m].topic = IdOf[w] /\ ~Registered(w)
        <5>1. \A m \in 1 .. n + 1 : m \in 1 .. n \/ m = n + 1
          BY <4>3
        <5> QED BY <1>2, <4>2, <4>3, <5>1 DEF HelloOf
      <4> QED BY <1>1, <3>1, <4>3, <4>5, <4>6 DEF HelloOf
    <3> QED BY <3>3, <3>4
  <2>4. CASE Receive(w)
    <3>1. c2s' = c2s /\ sub' = sub /\ link' = link
      BY <2>4 DEF Receive
    <3> QED BY <1>1, <3>1, HelloUntouched DEF IInv
  <2>5. CASE Ended(w)
    <3>1. sub'[w] = "exited"
      BY <1>2, <2>5 DEF Ended, Becomes, TypeOK
    <3>2. c2s'[w] = c2s[w] \/ (Len(c2s[w]) > Cap /\ c2s'[w] = SubSeq(c2s[w], 1, Cap))
      BY <1>2, <2>5 DEF Ended, ProcessEnds, Blocked, TypeOK
    <3>3. /\ \A m \in DOMAIN c2s'[w] : m \in DOMAIN c2s[w] /\ c2s'[w][m] = c2s[w][m]
          /\ c2s'[w] # <<>> => c2s[w] # <<>> /\ 1 \in DOMAIN c2s'[w]
      <4>1. CASE c2s'[w] = c2s[w]
        BY <1>2, <4>1
      <4>2. CASE Len(c2s[w]) > Cap /\ c2s'[w] = SubSeq(c2s[w], 1, Cap)
        BY <1>2, <4>2, SocketAssumption
      <4> QED BY <3>2, <4>1, <4>2
    <3> QED BY <1>1, <1>2, <3>1, <3>3 DEF HelloOf
  <2>6. ReceiveRefusal(w) \/ ServerGone(w) \/ Quit(w) => Ended(w)
    BY DEF ReceiveRefusal, ServerGone, Quit
  <2> QED BY <2>1, <2>2, <2>3, <2>4, <2>5, <2>6 DEF SubscriberNext
<1> QED BY <1>4, <1>5 DEF HelloInv

LEMMA HelloStep ==
  ASSUME IInv, [Next]_vars PROVE HelloInv'
<1>1. CASE ServerStep
  BY <1>1, HelloStays, HelloAfterEnd, HelloAfterRemoval, HelloAfterPacket
     DEF ServerStep, ServerNext
<1>2. CASE SubscriberStep
  BY <1>2, HelloAfterSubscriber DEF SubscriberStep
<1>3. CASE Datagram \/ TypeLine \/ UNCHANGED vars
  <2>1. UNCHANGED subscriberVars
    BY <1>3 DEF Datagram, TypeLine, vars
  <2> QED BY <1>3, <2>1, HelloStays
<1> QED BY <1>1, <1>2, <1>3 DEF Next

-----------------------------------------------------------------------------
(* The theorems. *)

LEMMA InitIInv == Init => IInv
<1> SUFFICES ASSUME Init PROVE IInv
  OBVIOUS
<1> USE DEF Init, ServerInit, SubscriberInit
<1>1. TypeOK
  <2>1. /\ <<>> \in Seq(Packets) /\ <<>> \in Seq(Slots) /\ <<>> \in Seq(Nat)
        /\ <<>> \in Seq(Entries) /\ <<>> \in Seq(Topics) /\ <<>> \in Seq({"exit", "other"})
        /\ <<>> \in Seq(Procs) /\ Len(<<>>) = 0
    OBVIOUS
  <2>2. <<TcpFd, UdpFd, StdinFd>> \in Seq(Descriptors)
    BY DEF Descriptors
  <2>3. 0 \in 0 .. Len(poll_fds) /\ 0 \in 0 .. Len(published)
    BY <2>2
  <2>4. \A p \in Procs : 0 <= MaxCommands[p]
    BY PubSubAssumption
  <2> QED BY <2>1, <2>2, <2>3, <2>4 DEF TypeOK
<1>2. DOMAIN clients = {} /\ Connected = {} /\ Accepted = {}
  BY DEF Connected, Accepted
<1>3. PollTableExact
  <2>1. /\ Len(poll_fds) = 3 /\ DOMAIN poll_fds = 1 .. 3
        /\ poll_fds[1] = TcpFd /\ poll_fds[2] = UdpFd /\ poll_fds[3] = StdinFd
    OBVIOUS
  <2>2. TcpFd # UdpFd /\ TcpFd # StdinFd /\ UdpFd # StdinFd
    BY DEF TcpFd, UdpFd, StdinFd
  <2>3. \A k \in 1 .. 3 : k = 1 \/ k = 2 \/ k = 3
    OBVIOUS
  <2>4. 4 .. 3 = {}
    OBVIOUS
  <2> QED BY <1>2, <2>1, <2>2, <2>3, <2>4 DEF PollTableExact
<1>4. ConnInv
  BY <1>2, SocketAssumption DEF ConnInv, Occurs, Elems
<1>5. HelloInv
  BY <1>2 DEF HelloInv, HelloOf, Registered
<1>6. SlotInv /\ IdInv
  BY <1>2 DEF SlotInv, IdInv
<1> QED BY <1>1, <1>3, <1>4, <1>5, <1>6 DEF IInv

LEMMA NextIInv == IInv /\ [Next]_vars => IInv'
BY TypesStep, PollStep, ConnStep, HelloStep, SlotStep DEF IInv

THEOREM Invariance == Spec => []IInv
<1> QED BY InitIInv, NextIInv, PTL DEF Spec

\* The types of the composed system hold, for instances of any size.  What a write
\* outside the tables would do is not a question of types (Registry's Disconnected).
THEOREM TypesHold == Spec => []TypeOK
<1>1. IInv => TypeOK  BY DEF IInv
<1> QED BY <1>1, Invariance, PTL

\* The poll array lists exactly the open descriptors, once each.
THEOREM PollTableStaysExact == Spec => []PollTableExact
<1>1. IInv => PollTableExact  BY DEF IInv
<1> QED BY <1>1, Invariance, PTL

\* Connected slots and open connections correspond, whatever descriptors are reused.
THEOREM SlotsAlwaysFollow == Spec => []SlotsFollowSockets
<1>1. IInv => SlotsFollowSockets
  BY DEF IInv, SlotInv, SlotsFollowSockets, Connected
<1> QED BY <1>1, Invariance, PTL

\* Every command is charged to the process that sent it.
THEOREM CommandsAlwaysOwned == Spec => []CommandsAreOwned
<1>1. IInv => CommandsAreOwned
  BY CommandsOwned DEF IInv
<1> QED BY <1>1, Invariance, PTL

\* If every id fits in MAX_ID_LEN, no id is connected twice at a time.
THEOREM OneConnection ==
  ASSUME IdsFit PROVE Spec => []OneConnectionPerId
<1>1. ASSUME IInv, NEW p \in Procs, NEW q \in Procs,
             Registered(p), Registered(q), IdOf[p] = IdOf[q]
      PROVE  p = q
  <2>1. PICK k \in Connected : conn[clients[k].sockfd] = p
    BY <1>1 DEF Registered
  <2>2. PICK l \in Connected : conn[clients[l].sockfd] = q
    BY <1>1 DEF Registered
  <2>3. clients[k].id = clients[l].id
    BY <1>1, <2>1, <2>2 DEF IInv, SlotInv
  <2>4. k = l
    BY <1>1, <2>3 DEF IInv, IdInv, Connected
  <2> QED BY <2>1, <2>2, <2>4
<1>2. IInv => OneConnectionPerId
  BY <1>1 DEF OneConnectionPerId
<1> QED BY <1>2, Invariance, PTL

-----------------------------------------------------------------------------
(* Subscriptions: what the two commands do to the entries. *)

LEMMA FoundTopic ==
  ASSUME TypeOK, NEW topic
  PROVE  LET t == find_topic_index(topic)
         IN  /\ t \in 0 .. Len(topic_map)
             /\ t = 0 <=> \A u \in DOMAIN topic_map : topic_map[u].topic # topic
             /\ t # 0 => t \in DOMAIN topic_map /\ topic_map[t].topic = topic
<1> DEFINE K == {t \in DOMAIN topic_map : topic_map[t].topic = topic}
<1>1. Len(topic_map) \in Nat /\ DOMAIN topic_map = 1 .. Len(topic_map)
  BY DEF TypeOK
<1>2. K \in SUBSET (1 .. Len(topic_map))
  BY <1>1
<1> QED BY <1>1, <1>2, LeastIsMember DEF find_topic_index

\* topic_map as map, in which id was added to the entry t of a pattern that held
\* held, and may be a new one.
Added(map, t, topic, id, held) ==
  /\ held \in Seq(Ids) /\ id \notin Elems(held)
  /\ \/ t \in DOMAIN topic_map /\ topic_map[t].topic = topic /\ held = topic_map[t].subscribers
     \/ /\ t \notin DOMAIN topic_map /\ held = <<>>
        /\ \A u \in DOMAIN topic_map : topic_map[u].topic # topic
  /\ DOMAIN map = DOMAIN topic_map \cup {t}
  /\ map[t].topic = topic /\ map[t].subscribers = Append(held, id)
  /\ \A u \in DOMAIN topic_map : u # t => map[u] = topic_map[u]

LEMMA SubscribeAdds ==
  ASSUME TypeOK, NEW topic \in Patterns, NEW id \in Ids
  PROVE  \/ /\ subscribe(topic, id) = topic_map
            /\ \E t \in DOMAIN topic_map :
                 topic_map[t].topic = topic /\ id \in Elems(topic_map[t].subscribers)
         \/ \E t, held : Added(subscribe(topic, id), t, topic, id, held)
<1> DEFINE n == Len(topic_map)
           f == find_topic_index(topic)
<1>1. n \in Nat /\ DOMAIN topic_map = 1 .. n /\ topic_map \in Seq(Entries)
  BY DEF TypeOK
<1>2. /\ f \in 0 .. n
      /\ f = 0 <=> \A u \in DOMAIN topic_map : topic_map[u].topic # topic
      /\ f # 0 => f \in DOMAIN topic_map /\ topic_map[f].topic = topic
  BY FoundTopic
<1>3. CASE f # 0
  <2> DEFINE held == topic_map[f].subscribers
  <2>1. topic_map[f] \in Entries
    BY <1>1, <1>2, <1>3
  <2>2. held \in Seq(Ids) /\ f \in DOMAIN topic_map /\ topic_map[f].topic = topic
    BY <1>2, <1>3, <2>1 DEF Entries
  <2>3. subscribe(topic, id) =
          IF id \in Elems(held) THEN topic_map
          ELSE [topic_map EXCEPT ![f].subscribers = Append(held, id)]
    BY <1>3 DEF subscribe, EntryFor, WithEntry
  <2>4. CASE id \in Elems(held)
    BY <2>2, <2>3, <2>4
  <2>5. CASE id \notin Elems(held)
    <3> DEFINE map == [topic_map EXCEPT ![f].subscribers = Append(held, id)]
    <3>0. map[f] = [topic_map[f] EXCEPT !.subscribers = Append(held, id)]
      BY <2>2
    <3>1. map[f].topic = topic /\ map[f].subscribers = Append(held, id)
      <4> HIDE DEF map
      <4> QED BY <2>1, <2>2, <3>0 DEF Entries
    <3>2. DOMAIN map = DOMAIN topic_map \cup {f}
          /\ \A u \in DOMAIN topic_map : u # f => map[u] = topic_map[u]
      BY <2>2
    <3> HIDE DEF map, f
    <3>3. Added(map, f, topic, id, held)
      BY <2>2, <2>5, <3>1, <3>2, Zenon DEF Added
    <3>4. subscribe(topic, id) = map
      BY <2>3, <2>5 DEF map
    <3> QED BY <3>3, <3>4, Zenon
  <2> QED BY <2>4, <2>5
<1>4. CASE f = 0
  <2> DEFINE new == [topic |-> topic, subscribers |-> <<>>]
             longer == Append(topic_map, new)
             t == n + 1
             map == [longer EXCEPT ![t].subscribers = Append(<<>>, id)]
  <2>1. new \in Entries
    BY DEF Entries
  <2>2. longer \in Seq(Entries) /\ DOMAIN longer = 1 .. t /\ longer[t] = new
        /\ \A u \in 1 .. n : longer[u] = topic_map[u]
    BY <1>1, <2>1
  <2>3. t \in 1 .. t /\ t \notin DOMAIN topic_map
    BY <1>1
  <2>4. longer[t].subscribers = <<>>
    BY <2>2
  <2>5. id \notin Elems(<<>>) /\ <<>> \in Seq(Ids)
    BY DEF Elems
  <2>6. subscribe(topic, id) = map
    <3>1. WithEntry(topic) = longer /\ EntryFor(topic) = t
      BY <1>4 DEF WithEntry, EntryFor
    <3> HIDE DEF longer, t, f
    <3> QED BY <2>4, <2>5, <3>1 DEF subscribe
  <2>7. map[t].topic = topic /\ map[t].subscribers = Append(<<>>, id)
        /\ DOMAIN map = 1 .. t /\ \A u \in 1 .. n : map[u] = topic_map[u]
    <3> HIDE DEF longer
    <3>1. map[t] = [longer[t] EXCEPT !.subscribers = Append(<<>>, id)]
      BY <2>2, <2>3
    <3>2. map[t].topic = topic /\ map[t].subscribers = Append(<<>>, id)
      <4> HIDE DEF map
      <4> QED BY <2>2, <3>1
    <3>3. DOMAIN map = 1 .. t
      BY <2>2, <2>3
    <3>4. \A u \in 1 .. n : map[u] = topic_map[u]
      BY <1>1, <2>2, <2>3
    <3> QED BY <3>2, <3>3, <3>4
  <2>8. DOMAIN map = DOMAIN topic_map \cup {t}
    BY <1>1, <2>7
  <2> HIDE DEF map, t
  <2>9. Added(map, t, topic, id, <<>>)
    BY <1>1, <1>2, <1>4, <2>3, <2>5, <2>7, <2>8, Zenon DEF Added
  <2> QED BY <2>6, <2>9, Zenon
<1> QED BY <1>3, <1>4

\* topic_map as map, in which the subscriber at j of entry t has left.
Removed(map, t, j, topic, id) ==
  /\ t \in DOMAIN topic_map /\ topic_map[t].topic = topic
  /\ j \in DOMAIN topic_map[t].subscribers /\ topic_map[t].subscribers[j] = id
  /\ DOMAIN map = DOMAIN topic_map
  /\ map[t].topic = topic /\ map[t].subscribers = SwapOut(topic_map[t].subscribers, j)
  /\ \A u \in DOMAIN topic_map : u # t => map[u] = topic_map[u]

LEMMA UnsubscribeRemoves ==
  ASSUME TypeOK, NEW topic, NEW id
  PROVE  \/ unsubscribe(topic, id) = topic_map
         \/ \E t, j : Removed(unsubscribe(topic, id), t, j, topic, id)
<1> DEFINE t == find_topic_index(topic)
           held == topic_map[t].subscribers
           J == {m \in DOMAIN held : held[m] = id}
           j == Least(J)
<1>1. topic_map \in Seq(Entries)
  BY DEF TypeOK
<1>2. CASE t = 0 \/ j = 0
  BY <1>2 DEF unsubscribe
<1>3. CASE t # 0 /\ j # 0
  <2>1. t \in DOMAIN topic_map /\ topic_map[t].topic = topic
    BY <1>3, FoundTopic
  <2>2. topic_map[t] \in Entries
    BY <1>1, <2>1
  <2>3. held \in Seq(Ids) /\ Len(held) \in Nat /\ DOMAIN held = 1 .. Len(held)
    BY <2>2 DEF Entries
  <2>4. j \in J
    <3>1. J \in SUBSET (1 .. Len(held))
      BY <2>3
    <3> HIDE DEF J
    <3> QED BY <1>3, <2>3, <3>1, LeastIsMember
  <2>5. j \in DOMAIN held /\ held[j] = id
    BY <2>4
  <2> DEFINE map == [topic_map EXCEPT ![t].subscribers = SwapOut(held, j)]
  <2>6. unsubscribe(topic, id) = map
    BY <1>3 DEF unsubscribe
  <2> HIDE DEF t, held, J, j
  <2>7. map[t] = [topic_map[t] EXCEPT !.subscribers = SwapOut(held, j)]
        /\ DOMAIN map = DOMAIN topic_map
        /\ \A u \in DOMAIN topic_map : u # t => map[u] = topic_map[u]
    BY <2>1
  <2> HIDE DEF map
  <2>8. map[t].topic = topic /\ map[t].subscribers = SwapOut(held, j)
    BY <2>1, <2>2, <2>7 DEF Entries
  <2>9. Removed(map, t, j, topic, id)
    BY <2>1, <2>5, <2>7, <2>8, Zenon DEF Removed, held
  <2> QED BY <2>6, <2>9, Zenon
<1> QED BY <1>2, <1>3

\* No element twice.
Distinct(s) == \A j, m \in DOMAIN s : s[j] = s[m] => j = m

LEMMA AppendKeepsDistinct ==
  ASSUME NEW S, NEW s \in Seq(S), NEW x \in S, x \notin Elems(s), Distinct(s)
  PROVE  Distinct(Append(s, x)) /\ Elems(Append(s, x)) = Elems(s) \cup {x}
<1> DEFINE n == Len(s)
           a == Append(s, x)
<1>1. n \in Nat /\ DOMAIN s = 1 .. n /\ DOMAIN a = 1 .. n + 1 /\ a[n + 1] = x
      /\ \A j \in 1 .. n : a[j] = s[j]
  OBVIOUS
<1> HIDE DEF a, n
<1>2. \A j \in 1 .. n + 1 : j \in 1 .. n \/ j = n + 1
  BY <1>1
<1>3. \A j \in 1 .. n : s[j] # x
  BY <1>1 DEF Elems
<1>4. Distinct(a)
  BY <1>1, <1>2, <1>3 DEF Distinct
<1>5. Elems(a) = Elems(s) \cup {x}
  <2>1. n + 1 \in 1 .. n + 1 /\ \A j \in 1 .. n : j \in 1 .. n + 1
    BY <1>1
  <2> QED BY <1>1, <1>2, <2>1 DEF Elems
<1> QED BY <1>4, <1>5 DEF a

\* The swap drops one subscriber and no other.
LEMMA SwapDropsOne ==
  ASSUME NEW S, NEW s \in Seq(S), NEW j \in DOMAIN s, Distinct(s)
  PROVE  Distinct(SwapOut(s, j)) /\ Elems(SwapOut(s, j)) = Elems(s) \ {s[j]}
<1> DEFINE n == Len(s)
           r == SwapOut(s, j)
<1>1. n \in Nat /\ DOMAIN s = 1 .. n /\ j \in 1 .. n
  OBVIOUS
<1>2. DOMAIN r = 1 .. n - 1 /\ \A m \in 1 .. n - 1 : r[m] = IF m = j THEN s[n] ELSE s[m]
  BY <1>1 DEF SwapOut
<1> HIDE DEF r, n
<1>3. n \in 1 .. n /\ n \notin 1 .. n - 1 /\ \A m \in 1 .. n - 1 : m \in 1 .. n
  BY <1>1
<1>4. \A k, m \in 1 .. n : s[k] = s[m] => k = m
  BY <1>1 DEF Distinct
<1>5. Distinct(r)
  <2> SUFFICES ASSUME NEW k \in 1 .. n - 1, NEW m \in 1 .. n - 1, r[k] = r[m] PROVE k = m
    BY <1>2 DEF Distinct
  <2> QED BY <1>2, <1>3, <1>4
<1>6. ASSUME NEW x PROVE x \in Elems(r) => x \in Elems(s) \ {s[j]}
  <2> SUFFICES ASSUME NEW m \in 1 .. n - 1, x = r[m] PROVE x \in Elems(s) /\ x # s[j]
    BY <1>2 DEF Elems
  <2>1. CASE m = j
    BY <1>1, <1>2, <1>3, <1>4, <2>1 DEF Elems
  <2>2. CASE m # j
    BY <1>1, <1>2, <1>3, <1>4, <2>2 DEF Elems
  <2> QED BY <2>1, <2>2
<1>7. ASSUME NEW x PROVE x \in Elems(s) \ {s[j]} => x \in Elems(r)
  <2> SUFFICES ASSUME NEW m \in 1 .. n, x = s[m], m # j PROVE \E k \in 1 .. n - 1 : x = r[k]
    BY <1>1, <1>2 DEF Elems
  <2>1. CASE m = n
    <3>1. j \in 1 .. n - 1
      BY <1>1, <2>1
    <3> QED BY <1>2, <2>1, <3>1
  <2>2. CASE m # n
    <3>1. m \in 1 .. n - 1
      BY <1>1, <2>2
    <3> QED BY <1>2, <3>1
  <2> QED BY <2>1, <2>2
<1> QED BY <1>5, <1>6, <1>7 DEF r

\* SubscriptionsSound and Subscribed of any table.
SlotIds == {clients[k].id : k \in DOMAIN clients}

Sound(map, ids) ==
  /\ \A t, u \in DOMAIN map : map[t].topic = map[u].topic => t = u
  /\ \A t \in DOMAIN map : Distinct(map[t].subscribers) /\ Elems(map[t].subscribers) \subseteq ids

PairsOf(map) == UNION {{map[t].topic} \X Elems(map[t].subscribers) : t \in DOMAIN map}

LEMMA SoundNow == SubscriptionsSound <=> Sound(topic_map, SlotIds)
BY DEF SubscriptionsSound, Sound, Distinct, SlotIds

LEMMA SoundNext == SubscriptionsSound' <=> Sound(topic_map', SlotIds')
BY DEF SubscriptionsSound, Sound, Distinct, SlotIds

LEMMA InPairs ==
  ASSUME NEW map, NEW pair
  PROVE  pair \in PairsOf(map) <=>
           \E t \in DOMAIN map : \E id \in Elems(map[t].subscribers) :
              pair = <<map[t].topic, id>>
BY DEF PairsOf

LEMMA AddedSound ==
  ASSUME TypeOK, NEW ids, Sound(topic_map, ids), NEW map, NEW t, NEW topic, NEW held,
         NEW id \in Ids, id \in ids, Added(map, t, topic, id, held)
  PROVE  Sound(map, ids) /\ PairsOf(map) = PairsOf(topic_map) \cup {<<topic, id>>}
<1>1. /\ held \in Seq(Ids) /\ id \notin Elems(held) /\ Distinct(held) /\ Elems(held) \subseteq ids
      /\ DOMAIN map = DOMAIN topic_map \cup {t}
      /\ map[t].topic = topic /\ map[t].subscribers = Append(held, id)
      /\ \A u \in DOMAIN topic_map : u # t => map[u] = topic_map[u]
  BY DEF Added, Sound, Elems, Distinct
<1>2. Distinct(Append(held, id)) /\ Elems(Append(held, id)) = Elems(held) \cup {id}
  BY <1>1, AppendKeepsDistinct
<1>3. \A u \in DOMAIN topic_map : topic_map[u].topic = topic => u = t
  BY Zenon DEF Added, Sound
<1>4. Sound(map, ids)
  <2>1. ASSUME NEW u \in DOMAIN map, NEW v \in DOMAIN map, map[u].topic = map[v].topic PROVE u = v
    <3>1. CASE u = t
      BY <1>1, <1>3, <2>1, <3>1, Zenon
    <3>2. CASE v = t
      BY <1>1, <1>3, <2>1, <3>2, Zenon
    <3>3. CASE u # t /\ v # t
      BY <1>1, <2>1, <3>3 DEF Sound
    <3> QED BY <3>1, <3>2, <3>3
  <2>2. ASSUME NEW u \in DOMAIN map
        PROVE  Distinct(map[u].subscribers) /\ Elems(map[u].subscribers) \subseteq ids
    <3>1. CASE u = t
      <4>1. map[u].subscribers = Append(held, id)
        BY <1>1, <3>1
      <4>2. Elems(Append(held, id)) \subseteq ids
        BY <1>1, <1>2
      <4> QED BY <1>2, <4>1, <4>2, Zenon
    <3>2. CASE u # t
      BY <1>1, <3>2, Zenon DEF Sound
    <3> QED BY <3>1, <3>2
  <2> QED BY <2>1, <2>2, Zenon DEF Sound
<1>5. Elems(<<>>) = {}
  BY DEF Elems
<1>6. ASSUME NEW pair, pair \in PairsOf(map) PROVE pair \in PairsOf(topic_map) \cup {<<topic, id>>}
  <2>1. PICK u \in DOMAIN map : \E x \in Elems(map[u].subscribers) : pair = <<map[u].topic, x>>
    BY <1>6, InPairs, Zenon
  <2>2. PICK x \in Elems(map[u].subscribers) : pair = <<map[u].topic, x>>
    BY <2>1, Zenon
  <2>3. CASE u # t
    <3>1. u \in DOMAIN topic_map /\ map[u] = topic_map[u]
      BY <1>1, <2>3, Zenon
    <3> QED BY <2>2, <3>1, InPairs
  <2>4. CASE u = t /\ x # id
    <3>1. x \in Elems(held)
      BY <1>1, <1>2, <2>2, <2>4
    <3>2. t \in DOMAIN topic_map /\ topic_map[t].topic = topic /\ held = topic_map[t].subscribers
      BY <1>5, <3>1, Zenon DEF Added
    <3> QED BY <1>1, <2>2, <2>4, <3>1, <3>2, InPairs
  <2>5. CASE u = t /\ x = id
    BY <1>1, <2>2, <2>5
  <2> QED BY <2>3, <2>4, <2>5
<1>7. ASSUME NEW pair, pair \in PairsOf(topic_map) \cup {<<topic, id>>} PROVE pair \in PairsOf(map)
  <2>1. CASE pair = <<topic, id>>
    <3>1. t \in DOMAIN map /\ id \in Elems(map[t].subscribers) /\ pair = <<map[t].topic, id>>
      BY <1>1, <1>2, <2>1
    <3> QED BY <3>1, InPairs, Zenon
  <2>2. CASE pair \in PairsOf(topic_map)
    <3>1. PICK u \in DOMAIN topic_map : \E x \in Elems(topic_map[u].subscribers) :
                                           pair = <<topic_map[u].topic, x>>
      BY <2>2, InPairs, Zenon
    <3>2. PICK x \in Elems(topic_map[u].subscribers) : pair = <<topic_map[u].topic, x>>
      BY <3>1, Zenon
    <3>3. u \in DOMAIN map
      BY <1>1
    <3>4. x \in Elems(map[u].subscribers) /\ map[u].topic = topic_map[u].topic
      <4>1. CASE u # t
        BY <1>1, <3>2, <4>1
      <4>2. CASE u = t
        <5>1. topic_map[t].topic = topic /\ held = topic_map[t].subscribers
          BY <4>2, Zenon DEF Added
        <5> QED BY <1>1, <1>2, <3>2, <4>2, <5>1
      <4> QED BY <4>1, <4>2
    <3> QED BY <3>2, <3>3, <3>4, InPairs, Zenon
  <2> QED BY <1>7, <2>1, <2>2
<1> QED BY <1>4, <1>6, <1>7

LEMMA RemovedSound ==
  ASSUME TypeOK, NEW ids, Sound(topic_map, ids), NEW map, NEW t, NEW j, NEW topic, NEW id,
         Removed(map, t, j, topic, id)
  PROVE  Sound(map, ids) /\ PairsOf(map) = PairsOf(topic_map) \ {<<topic, id>>}
<1> DEFINE held == topic_map[t].subscribers
<1>1. /\ t \in DOMAIN topic_map /\ topic_map[t].topic = topic /\ DOMAIN map = DOMAIN topic_map
      /\ j \in DOMAIN held /\ held[j] = id
      /\ map[t].topic = topic /\ map[t].subscribers = SwapOut(held, j)
      /\ \A u \in DOMAIN topic_map : u # t => map[u] = topic_map[u]
  BY DEF Removed
<1>2. topic_map[t] \in Entries
  BY <1>1 DEF TypeOK
<1>3. held \in Seq(Ids) /\ Distinct(held) /\ Elems(held) \subseteq ids
  BY <1>1, <1>2 DEF Entries, Sound
<1> HIDE DEF held
<1>4. Distinct(SwapOut(held, j)) /\ Elems(SwapOut(held, j)) = Elems(held) \ {id}
  BY <1>1, <1>3, SwapDropsOne
<1>5. \A u \in DOMAIN topic_map : topic_map[u].topic = topic => u = t
  BY <1>1, Zenon DEF Sound
<1>6. \A u \in DOMAIN topic_map :
        /\ map[u].topic = topic_map[u].topic
        /\ Elems(map[u].subscribers)
             = Elems(topic_map[u].subscribers) \ (IF u = t THEN {id} ELSE {})
        /\ Distinct(map[u].subscribers)
  <2> SUFFICES ASSUME NEW u \in DOMAIN topic_map
               PROVE  /\ map[u].topic = topic_map[u].topic
                      /\ Elems(map[u].subscribers) =
                           Elems(topic_map[u].subscribers) \ (IF u = t THEN {id} ELSE {})
                      /\ Distinct(map[u].subscribers)
    OBVIOUS
  <2>1. CASE u = t
    BY <1>1, <1>4, <2>1 DEF held
  <2>2. CASE u # t
    BY <1>1, <2>2 DEF Sound
  <2> QED BY <2>1, <2>2
<1>7. Sound(map, ids)
  <2>1. \A u, v \in DOMAIN map : map[u].topic = map[v].topic => u = v
    BY <1>1, <1>6, Zenon DEF Sound
  <2>2. \A u \in DOMAIN map : Elems(map[u].subscribers) \subseteq ids
    BY <1>1, <1>6 DEF Sound
  <2>3. \A u \in DOMAIN map : Distinct(map[u].subscribers)
    BY <1>1, <1>6
  <2> QED BY <2>1, <2>2, <2>3 DEF Sound
<1>8. ASSUME NEW pair PROVE pair \in PairsOf(map) <=> pair \in PairsOf(topic_map) \ {<<topic, id>>}
  <2>1. pair \in PairsOf(map) <=>
          \E u \in DOMAIN topic_map : \E x \in Elems(map[u].subscribers) : pair = <<map[u].topic, x>>
    BY <1>1, InPairs
  <2>2. pair \in PairsOf(topic_map) <=>
          \E u \in DOMAIN topic_map : \E x \in Elems(topic_map[u].subscribers) :
             pair = <<topic_map[u].topic, x>>
    BY InPairs
  <2>3. ASSUME NEW u \in DOMAIN topic_map, NEW x
        PROVE  (x \in Elems(map[u].subscribers) /\ pair = <<map[u].topic, x>>) <=>
               /\ x \in Elems(topic_map[u].subscribers)
               /\ pair = <<topic_map[u].topic, x>> /\ pair # <<topic, id>>
    BY <1>1, <1>5, <1>6
  <2> QED BY <2>1, <2>2, <2>3
<1> QED BY <1>7, <1>8

\* Who sends a command: a registered process, by the id of its slot.
LEMMA SenderFacts ==
  ASSUME IInv, SubscribeCommand \/ UnsubscribeCommand
  PROVE  /\ Registered(peer) /\ peer \in Procs /\ packet.topic \in Patterns
         /\ SenderId = Stored[IdOf[peer]] /\ SenderId \in Ids /\ SenderId \in SlotIds
         /\ clients' = clients /\ conn' = conn /\ srv' = srv /\ srv = "up" /\ pub = 0
<1>1. AtClient /\ c2s[peer] # <<>> /\ packet.command \in {"subscribe", "unsubscribe"}
  BY DEF SubscribeCommand, UnsubscribeCommand, Receiving
<1>2. peer \in Procs /\ packet.topic \in Patterns
  BY <1>1, PacketFacts DEF IInv
<1>3. Registered(peer)
  BY <1>1, SendersAreRegistered DEF IInv
<1>4. find_client_by_fd(fd_i) \in Connected /\ SenderId = Stored[IdOf[peer]] /\ SenderId \in Ids
  BY <1>1, <1>3, Owned DEF IInv
<1>5. SenderId \in SlotIds
  BY <1>4 DEF SenderId, SlotIds, Connected
<1>6. clients' = clients /\ conn' = conn /\ srv' = srv /\ srv = "up" /\ pub = 0
  BY <1>1 DEF SubscribeCommand, UnsubscribeCommand, PacketTaken, AtClient, Handling
<1> QED BY <1>2, <1>3, <1>4, <1>5, <1>6

\* A command changes the one pair it names, or nothing.
LEMMA CommandPairs ==
  ASSUME IInv, SubscriptionsSound, SubscribeCommand \/ UnsubscribeCommand
  PROVE  /\ SubscriptionsSound'
         /\ \/ SubscribeCommand /\ Subscribed' = Subscribed \cup {<<packet.topic, SenderId>>}
            \/ UnsubscribeCommand /\ Subscribed' = Subscribed \ {<<packet.topic, SenderId>>}
            \/ Subscribed' = Subscribed
<1> DEFINE topic == packet.topic
           id == SenderId
<1>1. topic \in Patterns /\ id \in Ids /\ id \in SlotIds /\ SlotIds' = SlotIds
  BY SenderFacts DEF SlotIds
<1>2. TypeOK /\ Sound(topic_map, SlotIds)
  BY SoundNow DEF IInv
<1>3. Subscribed = PairsOf(topic_map) /\ Subscribed' = PairsOf(topic_map')
  BY DEF Subscribed, PairsOf
<1>4. CASE topic_map' = topic_map
  BY <1>1, <1>2, <1>3, <1>4, SoundNext
<1>5. CASE SubscribeCommand /\ topic_map' # topic_map
  <2>1. topic_map' = subscribe(topic, id)
    BY <1>5 DEF SubscribeCommand
  <2> HIDE DEF topic, id
  <2>2. PICK t, held : Added(topic_map', t, topic, id, held)
    BY <1>1, <1>2, <1>5, <2>1, SubscribeAdds
  <2>3. Sound(topic_map', SlotIds) /\ PairsOf(topic_map') = PairsOf(topic_map) \cup {<<topic, id>>}
    BY <1>1, <1>2, <2>2, AddedSound
  <2> QED BY <1>1, <1>3, <1>5, <2>3, SoundNext DEF topic, id
<1>6. CASE UnsubscribeCommand /\ topic_map' # topic_map
  <2>1. topic_map' = unsubscribe(topic, id)
    BY <1>6 DEF UnsubscribeCommand
  <2> HIDE DEF topic, id
  <2>2. PICK t, j : Removed(topic_map', t, j, topic, id)
    BY <1>2, <1>6, <2>1, UnsubscribeRemoves
  <2>3. Sound(topic_map', SlotIds) /\ PairsOf(topic_map') = PairsOf(topic_map) \ {<<topic, id>>}
    BY <1>2, <2>2, RemovedSound
  <2> QED BY <1>1, <1>3, <1>6, <2>3, SoundNext DEF topic, id
<1> QED BY <1>4, <1>5, <1>6

\* No slot loses its id.
IdsKept ==
  /\ DOMAIN clients \subseteq DOMAIN clients'
  /\ \A k \in DOMAIN clients : clients'[k].id = clients[k].id

LEMMA SlotsKeepIds ==
  ASSUME TypeOK,
         \/ clients' = FlagsCleared
         \/ \E r : clients' = [clients EXCEPT ![r].sent_message = TRUE]
         \/ \E fd : clients' = Disconnected(fd)
         \/ \E id, fd : clients' = add_or_reconnect_client(id, fd)
  PROVE  IdsKept
<1>1. \A k \in DOMAIN clients : clients[k] \in Slots
  BY DEF TypeOK
<1>2. Len(clients) \in Nat /\ DOMAIN clients = 1 .. Len(clients) /\ clients \in Seq(Slots)
  BY DEF TypeOK
<1>3. CASE clients' = FlagsCleared
  BY <1>1, <1>3 DEF FlagsCleared, Slots, IdsKept
<1>4. ASSUME NEW r, clients' = [clients EXCEPT ![r].sent_message = TRUE] PROVE IdsKept
  BY <1>1, <1>4 DEF Slots, IdsKept
<1>5. ASSUME NEW fd, clients' = Disconnected(fd) PROVE IdsKept
  BY <1>1, <1>5 DEF Slots, IdsKept, Disconnected
<1>6. ASSUME NEW id, NEW fd, clients' = add_or_reconnect_client(id, fd) PROVE IdsKept
  <2> DEFINE k == find_client_by_id(id)
             new == [id |-> Stored[id], sockfd |-> fd, connected |-> TRUE, sent_message |-> FALSE]
  <2>1. \/ clients' = [clients EXCEPT ![k].sockfd = fd, ![k].connected = TRUE]
        \/ clients' = Append(clients, new)
    BY <1>6 DEF add_or_reconnect_client
  <2> HIDE DEF k, new
  <2>2. CASE clients' = [clients EXCEPT ![k].sockfd = fd, ![k].connected = TRUE]
    BY <1>1, <2>2 DEF Slots, IdsKept
  <2>3. CASE clients' = Append(clients, new)
    <3>1. clients \in Seq(Slots \cup {new}) /\ new \in Slots \cup {new}
      BY <1>2
    <3>2. DOMAIN Append(clients, new) = 1 .. Len(clients) + 1
          /\ \A m \in 1 .. Len(clients) : Append(clients, new)[m] = clients[m]
      BY <3>1
    <3>3. \A m \in 1 .. Len(clients) : m \in 1 .. Len(clients) + 1
      BY <1>2
    <3>4. DOMAIN clients \subseteq DOMAIN clients'
      BY <1>2, <2>3, <3>2, <3>3, Zenon
    <3>5. \A m \in DOMAIN clients : clients'[m] = clients[m]
      BY <1>2, <2>3, <3>2, Zenon
    <3> QED BY <3>4, <3>5, Zenon DEF IdsKept
  <2> QED BY <2>1, <2>2, <2>3
<1> QED BY <1>3, <1>4, <1>5, <1>6

\* Outside of the two commands entries stay as they are; the end of the process
\* loses them all.
LEMMA EntriesStay ==
  ASSUME IInv, [Next]_vars, ~SubscribeCommand, ~UnsubscribeCommand
  PROVE  \/ topic_map' = topic_map /\ IdsKept
         \/ topic_map' = <<>> /\ srv' # "up"
<1>1. CASE PublishKilled \/ ExitCommand \/ ReceiveError
  BY <1>1 DEF PublishKilled, ExitCommand, ReceiveError, Ends, BrokerEnds
<1>2. CASE PublishBegin \/ PublishSend \/ Disconnect \/ ConnectNew
  <2>1. topic_map' = topic_map
    BY <1>2 DEF PublishBegin, PublishSend, Disconnect, ConnectNew
  <2>2. \/ clients' = FlagsCleared
        \/ \E r : clients' = [clients EXCEPT ![r].sent_message = TRUE]
        \/ \E fd : clients' = Disconnected(fd)
        \/ \E id, fd : clients' = add_or_reconnect_client(id, fd)
    BY <1>2, Zenon DEF PublishBegin, PublishSend, Disconnect, ConnectNew
  <2> QED BY <2>1, <2>2, SlotsKeepIds DEF IInv
<1>3. CASE \/ Poll \/ AcceptConnection \/ PublishEnd \/ OtherLine \/ ConnectRefused
           \/ SubscriberStep \/ Datagram \/ TypeLine \/ UNCHANGED vars
  BY <1>3 DEF Poll, AcceptConnection, PublishEnd, OtherLine, ConnectRefused, SubscriberStep,
     Datagram, TypeLine, vars, serverVars, tables, IdsKept
<1> QED BY <1>1, <1>2, <1>3 DEF Next, ServerStep, ServerNext

LEMMA SoundStep ==
  ASSUME IInv, SubscriptionsSound, [Next]_vars
  PROVE  SubscriptionsSound'
<1>1. CASE SubscribeCommand \/ UnsubscribeCommand
  BY <1>1, CommandPairs
<1>2. CASE topic_map' = topic_map /\ IdsKept
  <2>1. SlotIds \subseteq SlotIds'
    BY <1>2 DEF IdsKept, SlotIds
  <2> QED BY <1>2, <2>1, SoundNow, SoundNext DEF Sound
<1>3. CASE topic_map' = <<>>
  BY <1>3, SoundNext DEF Sound
<1> QED BY <1>1, <1>2, <1>3, EntriesStay

\* One entry per pattern, no id twice in an entry, and only ids that have a slot, so
\* that no array of the tables overflows before clients[] does (utils.c subscribe,
\* unsubscribe).
THEOREM SubscriptionsStaySound == Spec => []SubscriptionsSound
<1>1. Init => SubscriptionsSound
  BY DEF Init, ServerInit, SubscriptionsSound
<1>2. IInv /\ SubscriptionsSound /\ [Next]_vars => SubscriptionsSound'
  BY SoundStep
<1> QED BY <1>1, <1>2, Invariance, PTL DEF Spec

\* Only the packet that is handled changes a subscription, and only the sender's: no
\* swap, disconnection or reconnection touches another (utils.c unsubscribe).
THEOREM SubscriptionsAreOwn == Spec => OnlyOwnSubscription
<1> DEFINE Own == srv' = "up" =>
                    \A change \in (Subscribed \ Subscribed') \cup (Subscribed' \ Subscribed) :
                      /\ AtClient /\ c2s[peer] # <<>>
                      /\ change = <<packet.topic, Stored[IdOf[peer]]>>
<1>1. IInv /\ SubscriptionsSound /\ [Next]_vars => [Own]_vars
  <2> SUFFICES ASSUME IInv, SubscriptionsSound, [Next]_vars PROVE Own
    OBVIOUS
  <2>1. CASE SubscribeCommand \/ UnsubscribeCommand
    <3>1. AtClient /\ c2s[peer] # <<>>
      BY <2>1 DEF SubscribeCommand, UnsubscribeCommand, Receiving
    <3> QED BY <2>1, <3>1, SenderFacts, CommandPairs
  <2>2. CASE topic_map' = topic_map \/ srv' # "up"
    BY <2>2 DEF Subscribed
  <2> QED BY <2>1, <2>2, EntriesStay
<1> QED BY <1>1, Invariance, SubscriptionsStaySound, PTL DEF Spec, OnlyOwnSubscription

-----------------------------------------------------------------------------
(* publish(): where its loops stand, and what they send. *)

LEMMA DueEntries ==
  ASSUME TypeOK, NEW topic, NEW d \in Due(topic)
  PROVE  /\ d[1] \in DOMAIN topic_map /\ d[2] \in DOMAIN topic_map[d[1]].subscribers
         /\ d = <<d[1], d[2]>> /\ d[1] \in Nat /\ d[2] \in Nat
         /\ topic_map[d[1]].subscribers[d[2]] \in Ids
         /\ topic_map[d[1]].topic \in Patterns
         /\ SlotAt(d) \in DOMAIN clients
         /\ clients[SlotAt(d)].id = topic_map[d[1]].subscribers[d[2]]
         /\ clients[SlotAt(d)].connected /\ ~clients[SlotAt(d)].sent_message
<1>1. PICK t \in DOMAIN topic_map : d \in {t} \X DOMAIN topic_map[t].subscribers
  BY DEF Due, Positions
<1>2. d[1] = t /\ d[2] \in DOMAIN topic_map[t].subscribers /\ d = <<d[1], d[2]>>
  BY <1>1
<1>3. /\ topic_map[t].subscribers \in Seq(Ids) /\ topic_map[t].topic \in Patterns
      /\ t \in Nat /\ d[2] \in Nat
  <2>1. topic_map[t] \in Entries /\ t \in Nat
    BY DEF TypeOK
  <2>2. topic_map[t].subscribers \in Seq(Ids) /\ topic_map[t].topic \in Patterns
    BY <2>1 DEF Entries
  <2> QED BY <1>2, <2>1, <2>2
<1>4. topic_map[t].subscribers[d[2]] \in Ids
  BY <1>2, <1>3
<1>5. SlotAt(d) # 0 /\ clients[SlotAt(d)].connected /\ ~clients[SlotAt(d)].sent_message
  BY DEF Due
<1>6. SlotAt(d) \in DOMAIN clients /\ clients[SlotAt(d)].id = topic_map[d[1]].subscribers[d[2]]
  BY <1>5, FoundById DEF SlotAt
<1> QED BY <1>2, <1>3, <1>4, <1>5, <1>6

\* The CHOOSE of Recipient has something to choose.
LEMMA FirstOfDue ==
  ASSUME TypeOK, NEW topic, Due(topic) # {}
  PROVE  \E d \in Due(topic) : Recipient(topic) = SlotAt(d)
<1> DEFINE A == {d[1] : d \in Due(topic)}
           a == Least(A)
           B == {d[2] : d \in {e \in Due(topic) : e[1] = a}}
           b == Least(B)
<1>1. Len(topic_map) \in Nat /\ A \in SUBSET (1 .. Len(topic_map)) /\ A # {}
  <2>1. Len(topic_map) \in Nat /\ DOMAIN topic_map = 1 .. Len(topic_map)
    BY DEF TypeOK
  <2>2. \A d \in Due(topic) : d[1] \in DOMAIN topic_map
    BY DueEntries
  <2>3. \E d : d \in Due(topic)
    OBVIOUS
  <2> QED BY <2>1, <2>2, <2>3
<1>2. a \in A /\ \A m \in A : a <= m
  BY <1>1, LeastIsMember
<1>3. Len(topic_map[a].subscribers) \in Nat
      /\ DOMAIN topic_map[a].subscribers = 1 .. Len(topic_map[a].subscribers)
  <2>1. a \in 1 .. Len(topic_map)
    BY <1>1, <1>2
  <2> HIDE DEF a
  <2>2. topic_map[a] \in Entries
    BY <1>1, <2>1 DEF TypeOK
  <2> QED BY <2>2 DEF Entries
<1>4. B \in SUBSET (1 .. Len(topic_map[a].subscribers)) /\ B # {}
  <2>1. \E d \in Due(topic) : d[1] = a
    BY <1>2
  <2>2. \A d \in Due(topic) : d[1] = a => d[2] \in DOMAIN topic_map[a].subscribers
    BY DueEntries
  <2> HIDE DEF a
  <2> QED BY <1>3, <2>1, <2>2
<1>5. b \in B /\ \A m \in B : b <= m
  BY <1>3, <1>4, LeastIsMember
<1>6. PICK d \in Due(topic) : d[1] = a /\ d[2] = b
  BY <1>5
<1>7. \A e \in Due(topic) : e[1] \in Int /\ e[2] \in Int
  BY DueEntries
<1>8. \A e \in Due(topic) : d[1] < e[1] \/ (d[1] = e[1] /\ d[2] <= e[2])
  <2> SUFFICES ASSUME NEW e \in Due(topic)
               PROVE  d[1] < e[1] \/ (d[1] = e[1] /\ d[2] <= e[2])
    OBVIOUS
  <2>1. a <= e[1] /\ (e[1] = a => b <= e[2])
    BY <1>2, <1>5
  <2> HIDE DEF a, b
  <2> QED BY <1>6, <1>7, <2>1
<1> QED BY <1>8 DEF Recipient

\* Who a message is sent to is connected, was not sent it, and is met once.
LEMMA AddresseeFacts ==
  ASSUME IInv, Publishing
  PROVE  LET r == Recipient(published[pub])
         IN  /\ r \in Connected /\ Unsent(r) /\ clients[r].sockfd \in Accepted
             /\ Addressee \in Procs
             /\ \A k \in Connected : conn[clients[k].sockfd] = Addressee => k = r
<1> DEFINE r == Recipient(published[pub])
<1>1. r \in Connected /\ Unsent(r)
  <2>1. PICK d \in Due(published[pub]) : r = SlotAt(d)
    BY FirstOfDue DEF Publishing, IInv
  <2> HIDE DEF r
  <2>2. r \in DOMAIN clients /\ clients[r].connected /\ ~clients[r].sent_message
    BY <2>1, DueEntries DEF IInv
  <2> QED BY <2>2 DEF Connected, Unsent
<1>2. clients[r].sockfd \in Accepted
  BY <1>1 DEF IInv, SlotInv
<1>3. Addressee \in Procs /\ Addressee = conn[clients[r].sockfd]
  BY <1>2 DEF Addressee, Accepted, IInv, TypeOK
<1> HIDE DEF r
<1>4. ASSUME NEW k \in Connected, conn[clients[k].sockfd] = Addressee PROVE k = r
  <2>1. clients[k].sockfd \in Accepted
    BY DEF IInv, SlotInv
  <2>2. clients[k].sockfd = clients[r].sockfd
    BY <1>2, <1>3, <1>4, <2>1 DEF IInv, ConnInv
  <2> QED BY <1>1, <2>2 DEF IInv, SlotInv
<1> USE DEF r
<1> QED BY <1>1, <1>2, <1>3, <1>4

-----------------------------------------------------------------------------
(* BoxInv is preserved. *)

LEMMA BoxUntouched ==
  ASSUME TypeOK, NEW p \in Procs, BoxOf(p),
         s2c'[p] = s2c[p], last'[p] = last[p],
         Len(published') \in {Len(published), Len(published) + 1},
         sub'[p] = "idle" => sub[p] = "idle",
         link'[p] = link[p] \/ link'[p] # "open"
  PROVE  BoxOf(p)' /\ \A n : Older(p, n) => Older(p, n)'
<1>1. /\ s2c[p] \in Seq(Nat) /\ last[p] \in Nat /\ Len(published) \in Nat
      /\ \A m \in DOMAIN s2c[p] : s2c[p][m] \in Nat
  <2>1. s2c[p] \in Seq(Nat) /\ last[p] \in Nat /\ Len(published) \in Nat
    BY DEF TypeOK
  <2> QED BY <2>1
<1>2. \A n : Older(p, n) => Older(p, n)'
  BY DEF Older
<1>3. Older(p, Len(published))'
  BY <1>1 DEF Older, BoxOf
<1> QED BY <1>2, <1>3 DEF BoxOf

LEMMA BoxEmptied ==
  ASSUME TypeOK, NEW p \in Procs, BoxOf(p), s2c'[p] = <<>>, last'[p] = last[p],
         published' = published
  PROVE  BoxOf(p)' /\ \A n : Older(p, n) => Older(p, n)'
<1>1. DOMAIN s2c'[p] = {}
  OBVIOUS
<1> QED BY <1>1 DEF BoxOf, Older

\* A packet goes into an open connection.
LEMMA BoxFilled ==
  ASSUME TypeOK, NEW p \in Procs, BoxOf(p), link[p] = "open", NEW x \in Nat,
         s2c'[p] = Append(s2c[p], x), last'[p] = last[p], published' = published,
         x = Error => link'[p] # "open",
         x # Error => x = Len(published) /\ Older(p, Len(published) - 1),
         sub'[p] # "idle"
  PROVE  BoxOf(p)'
<1> DEFINE s == s2c[p]
           n == Len(s2c[p])
<1>1. /\ s \in Seq(Nat) /\ last[p] \in Nat /\ Len(published) \in Nat
      /\ n \in Nat /\ DOMAIN s = 1 .. n
      /\ \A m \in 1 .. n : s[m] \in Nat
  <2>1. s \in Seq(Nat) /\ last[p] \in Nat /\ Len(published) \in Nat
    BY DEF TypeOK
  <2>2. \A u \in Seq(Nat) :
          Len(u) \in Nat /\ DOMAIN u = 1 .. Len(u) /\ \A m \in 1 .. Len(u) : u[m] \in Nat
    OBVIOUS
  <2> QED BY <2>1, <2>2
<1>2. /\ DOMAIN s2c'[p] = 1 .. n + 1 /\ Len(s2c'[p]) = n + 1 /\ s2c'[p][n + 1] = x
      /\ \A m \in 1 .. n : s2c'[p][m] = s[m]
  BY <1>1
<1>3. \A m \in 1 .. n + 1 : m \in 1 .. n \/ m = n + 1
  BY <1>1
<1>4. \A m \in 1 .. n : s[m] # Error /\ last[p] < s[m] /\ s[m] <= Len(published)
  BY <1>1 DEF BoxOf, Older
<1>5. x # Error => last[p] < x /\ \A m \in 1 .. n : s[m] < x
  <2> SUFFICES ASSUME x # Error PROVE last[p] < x /\ \A m \in 1 .. n : s[m] < x
    OBVIOUS
  <2>1. last[p] <= Len(published) - 1 /\ \A m \in 1 .. n : s[m] <= Len(published) - 1
    BY <1>1 DEF Older
  <2>2. x = Len(published)
    OBVIOUS
  <2>3. \A a, b \in Nat : a <= b - 1 => a < b
    OBVIOUS
  <2> HIDE DEF s, n
  <2> QED BY <1>1, <2>1, <2>2, <2>3, Zenon
<1>6. x <= Len(published) /\ last[p] <= Len(published)
  BY <1>1 DEF Error, BoxOf, Older
<1>7. \A k, m \in 1 .. n : k < m => s[k] < s[m]
  BY <1>1, <1>4 DEF BoxOf
<1> HIDE DEF s, n
<1>8. Older(p, Len(published))'
  BY <1>2, <1>3, <1>4, <1>6 DEF Older
<1>9. \A m \in DOMAIN s2c'[p] :
        s2c'[p][m] = Error => m = Len(s2c'[p]) /\ link'[p] # "open"
  BY <1>2, <1>3, <1>4
<1>10. \A m \in DOMAIN s2c'[p] : s2c'[p][m] # Error => last'[p] < s2c'[p][m]
  BY <1>2, <1>3, <1>4, <1>5
<1>11. \A k, m \in DOMAIN s2c'[p] :
         k < m /\ s2c'[p][k] # Error /\ s2c'[p][m] # Error => s2c'[p][k] < s2c'[p][m]
  <2> SUFFICES ASSUME NEW k \in 1 .. n + 1, NEW m \in 1 .. n + 1, k < m,
                      s2c'[p][k] # Error, s2c'[p][m] # Error
               PROVE  s2c'[p][k] < s2c'[p][m]
    BY <1>2
  <2>1. k \in 1 .. n
    BY <1>1, <1>3 DEF n
  <2>2. CASE m \in 1 .. n
    BY <1>2, <1>7, <2>1, <2>2
  <2>3. CASE m = n + 1
    BY <1>2, <1>5, <2>1, <2>3
  <2> QED BY <1>3, <2>2, <2>3
<1> QED BY <1>8, <1>9, <1>10, <1>11 DEF BoxOf

\* The first message is taken out and printed.
LEMMA BoxRead ==
  ASSUME TypeOK, NEW p \in Procs, BoxOf(p), Receive(p), published' = published
  PROVE  BoxOf(p)' /\ \A n : Older(p, n) => Older(p, n)'
<1> DEFINE s == s2c[p]
<1>1. /\ s \in Seq(Nat) /\ s # <<>> /\ Len(s) \in Nat /\ Len(published) \in Nat
      /\ DOMAIN s = 1 .. Len(s) /\ 1 \in DOMAIN s /\ s[1] \in Nat
  <2>1. s \in Seq(Nat) /\ s # <<>> /\ Len(published) \in Nat
    BY DEF TypeOK, Receive
  <2> QED BY <2>1
<1>2. Head(s) = s[1] /\ s[1] # Error
  BY <1>1 DEF Receive
<1>3. s2c'[p] = Tail(s) /\ last'[p] = s[1] /\ sub' = sub /\ link' = link /\ sub[p] = "running"
  BY <1>1, <1>2 DEF Receive, TypeOK
<1>4. /\ Len(Tail(s)) = Len(s) - 1
      /\ \A m \in DOMAIN Tail(s) :
           m \in Int /\ m + 1 \in DOMAIN s /\ 1 < m + 1 /\ Tail(s)[m] = s[m + 1]
  BY <1>1
<1> HIDE DEF s
<1>5. BoxOf(p) /\ s2c[p] = s
  BY DEF s
<1>6. \A n : Older(p, n) => Older(p, n)'
  BY <1>1, <1>3, <1>4, <1>5 DEF Older
<1>7. Older(p, Len(published))'
  BY <1>5, <1>6 DEF BoxOf
<1>8. \A m \in DOMAIN s2c'[p] :
        s2c'[p][m] = Error => m = Len(s2c'[p]) /\ link'[p] # "open"
  BY <1>1, <1>3, <1>4, <1>5 DEF BoxOf
<1>9. \A m \in DOMAIN s2c'[p] : s2c'[p][m] # Error => last'[p] < s2c'[p][m]
  BY <1>1, <1>2, <1>3, <1>4, <1>5 DEF BoxOf
<1>10. \A k, m \in DOMAIN s2c'[p] :
         k < m /\ s2c'[p][k] # Error /\ s2c'[p][m] # Error => s2c'[p][k] < s2c'[p][m]
  <2> SUFFICES ASSUME NEW k \in DOMAIN Tail(s), NEW m \in DOMAIN Tail(s), k < m,
                      Tail(s)[k] # Error, Tail(s)[m] # Error
               PROVE  Tail(s)[k] < Tail(s)[m]
    BY <1>3
  <2>1. k + 1 < m + 1 /\ k + 1 \in DOMAIN s /\ m + 1 \in DOMAIN s
    BY <1>4
  <2> QED BY <1>4, <1>5, <2>1 DEF BoxOf
<1> QED BY <1>3, <1>6, <1>7, <1>8, <1>9, <1>10 DEF BoxOf

BoxesOK == \A p \in Procs : BoxOf(p)

\* What is left to prove for each kind of step: the boxes, and, while a message is
\* being published, that whoever still waits for it has nothing as new.
LEMMA BoxInvBetween ==
  ASSUME pub' = 0, BoxesOK'
  PROVE  BoxInv'
BY DEF BoxInv, BoxesOK

\* The steps of the broker that send nothing.
LEMMA BoxWhenNothingSent ==
  ASSUME IInv, BoxInv, pub' = 0, s2c' = s2c, last' = last, sub' = sub, published' = published,
         \A p \in Procs : link'[p] = link[p] \/ link'[p] # "open"
  PROVE  BoxInv'
<1>1. ASSUME NEW p \in Procs PROVE BoxOf(p)'
  BY BoxUntouched DEF IInv, BoxInv
<1> QED BY <1>1, BoxInvBetween DEF BoxesOK

LEMMA BoxAfterSilent ==
  ASSUME IInv, BoxInv, UNCHANGED subscriberVars,
         \/ AcceptConnection \/ PublishEnd \/ OtherLine \/ Disconnect
         \/ SubscribeCommand \/ UnsubscribeCommand \/ ConnectNew
  PROVE  BoxInv'
<1>1. s2c' = s2c /\ last' = last /\ sub' = sub /\ published' = published
  BY DEF AcceptConnection, Accept, PublishEnd, OtherLine, Disconnect, SubscribeCommand,
     UnsubscribeCommand, ConnectNew, PacketTaken, sockets, subscriberVars, ClosedBy
<1>2. pub' = 0
  BY DEF AcceptConnection, PublishEnd, OtherLine, Disconnect, SubscribeCommand,
     UnsubscribeCommand, ConnectNew, PacketTaken, Handling, AtTerminal, AtClient, Receiving
<1>3. \A p \in Procs : link'[p] = link[p] \/ link'[p] # "open"
  <2>1. CASE Disconnect
    BY <2>1 DEF Disconnect, ClosedBy, IInv, TypeOK
  <2>2. CASE link' = link
    BY <2>2
  <2>3. link' = link \/ Disconnect
    BY DEF AcceptConnection, Accept, PublishEnd, OtherLine, SubscribeCommand,
       UnsubscribeCommand, ConnectNew, PacketTaken, sockets
  <2> QED BY <2>1, <2>2, <2>3
<1> QED BY <1>1, <1>2, <1>3, BoxWhenNothingSent

LEMMA BoxAfterEnd ==
  ASSUME IInv, BoxInv, UNCHANGED subscriberVars, PublishKilled \/ ExitCommand \/ ReceiveError
  PROVE  BoxInv'
<1>1. PICK how \in {"exited", "died"} : Ends(how)
  BY DEF PublishKilled, ExitCommand, ReceiveError
<1>2. /\ pub' = 0 /\ s2c' = s2c /\ published' = published
      /\ \A p \in Procs : link'[p] # "open"
  BY <1>1, EndsTypes DEF IInv
<1>3. last' = last /\ sub' = sub
  BY DEF subscriberVars
<1> QED BY <1>2, <1>3, BoxWhenNothingSent

LEMMA BoxAfterRefusal ==
  ASSUME IInv, BoxInv, UNCHANGED subscriberVars, ConnectRefused
  PROVE  BoxInv'
<1>1. /\ last' = last /\ sub' = sub /\ published' = published /\ pub' = 0
      /\ s2c' = S2CAfterSend(peer, Error) /\ link' = [link EXCEPT ![peer] = "closed"]
  BY DEF subscriberVars, ConnectRefused, Receiving, AtClient, Handling, ClosedBy, peer
<1>2. peer \in Procs /\ sub[peer] \notin {"idle", "connected"}
  BY HelloIsFirst DEF IInv, ConnectRefused
<1>3. PICK w \in Procs : w = peer
  BY <1>2
<1>4. link'[w] = "closed" /\ \A p \in Procs : p # w => link'[p] = link[p]
  BY <1>1, <1>3 DEF IInv, TypeOK
<1>5. ASSUME NEW p \in Procs, p # w \/ link[w] # "open" PROVE BoxOf(p)'
  <2>1. s2c'[p] = s2c[p]
    BY <1>1, <1>3, <1>5 DEF S2CAfterSend, IInv, TypeOK
  <2>2. link'[p] = link[p] \/ link'[p] # "open"
    BY <1>4
  <2> QED BY <1>1, <2>1, <2>2, BoxUntouched DEF IInv, BoxInv
<1>6. CASE link[w] = "open"
  <2>1. s2c'[w] = Append(s2c[w], Error)
    BY <1>1, <1>3, <1>6 DEF S2CAfterSend, IInv, TypeOK
  <2>2. BoxOf(w)'
    BY <1>1, <1>2, <1>3, <1>4, <1>6, <2>1, BoxFilled DEF IInv, BoxInv, Error
  <2> QED BY <1>1, <1>5, <2>2, BoxInvBetween DEF BoxesOK
<1> QED BY <1>1, <1>5, <1>6, BoxInvBetween DEF BoxesOK

LEMMA BoxAfterBegin ==
  ASSUME IInv, BoxInv, UNCHANGED subscriberVars, PublishBegin
  PROVE  BoxInv'
<1>1. /\ last' = last /\ sub' = sub /\ srv' = srv /\ srv = "up"
      /\ s2c' = s2c /\ link' = link /\ conn' = conn /\ clients' = FlagsCleared
      /\ pub' = Len(published')
  BY DEF subscriberVars, PublishBegin, Handling, sockets
<1>2. Len(published') = Len(published) + 1 /\ Len(published) \in Nat
  <2>1. published \in Seq(Topics) /\ Head(udp) \in Topics
    BY DEF IInv, TypeOK, PublishBegin
  <2> QED BY <2>1 DEF PublishBegin
<1>3. \A p \in Procs : BoxOf(p)' /\ \A n : Older(p, n) => Older(p, n)'
  BY <1>1, <1>2, BoxUntouched DEF IInv, BoxInv
<1>4. ASSUME NEW k \in DOMAIN clients', Unsent(k)'
      PROVE  \E q \in Procs : q = conn'[clients'[k].sockfd] /\ Older(q, Len(published))
  <2>1. k \in DOMAIN clients /\ clients'[k] = [clients[k] EXCEPT !.sent_message = FALSE]
    BY <1>1, <1>4 DEF FlagsCleared
  <2>2. clients[k] \in Slots
    BY <2>1 DEF IInv, TypeOK
  <2>3. clients'[k].sockfd = clients[k].sockfd /\ k \in Connected
    BY <1>4, <2>1, <2>2 DEF Slots, Unsent, Connected
  <2>4. conn[clients[k].sockfd] \in Procs
    BY <2>3 DEF IInv, SlotInv, Accepted, TypeOK
  <2> QED BY <1>1, <1>2, <2>3, <2>4 DEF BoxInv, BoxOf
<1>5. \A k \in DOMAIN clients' :
        Unsent(k)' => Older(conn[clients[k].sockfd], Len(published) - 1)'
  <2> SUFFICES ASSUME NEW k \in DOMAIN clients', Unsent(k)'
               PROVE  Older(conn[clients[k].sockfd], Len(published) - 1)'
    OBVIOUS
  <2>1. PICK q \in Procs : q = conn'[clients'[k].sockfd] /\ Older(q, Len(published))
    BY <1>2, <1>4
  <2>2. PICK n : n = Len(published)
    OBVIOUS
  <2>3. Older(q, n)'
    BY <1>3, <2>1, <2>2
  <2>4. n = Len(published') - 1
    BY <1>2, <2>2
  <2> QED BY <2>1, <2>3, <2>4 DEF Older
<1> QED BY <1>1, <1>3, <1>5 DEF BoxInv

LEMMA BoxAfterSend ==
  ASSUME IInv, BoxInv, UNCHANGED subscriberVars, PublishSend
  PROVE  BoxInv'
<1> DEFINE r == Recipient(published[pub])
<1>1. /\ last' = last /\ sub' = sub /\ published' = published /\ pub' = pub /\ srv' = srv
      /\ srv = "up" /\ conn' = conn /\ Publishing /\ pub # 0
      /\ clients' = [clients EXCEPT ![r].sent_message = TRUE]
      /\ s2c' = S2CAfterSend(Addressee, pub) /\ link' = LinkAfterSend(Addressee)
  BY DEF subscriberVars, PublishSend, Publishing
<1>2. /\ r \in Connected /\ Unsent(r) /\ Addressee \in Procs
      /\ Addressee = conn[clients[r].sockfd]
      /\ \A k \in Connected : conn[clients[k].sockfd] = Addressee => k = r
  BY <1>1, AddresseeFacts DEF Addressee
<1> HIDE DEF r
<1>3. PICK w \in Procs : w = Addressee
  BY <1>2
<1>4. pub = Len(published) /\ pub \in Nat
  BY <1>1 DEF BoxInv, IInv, TypeOK
<1>5. Older(w, Len(published) - 1) /\ r \in DOMAIN clients
  BY <1>1, <1>2, <1>3 DEF BoxInv, Connected
<1>6. \A p \in Procs : link'[p] = link[p] \/ link'[p] # "open"
  BY <1>1, <1>3 DEF LinkAfterSend, IInv, TypeOK
<1>7. ASSUME NEW p \in Procs, p # w \/ link[w] # "open"
      PROVE  BoxOf(p)' /\ \A n : Older(p, n) => Older(p, n)'
  <2>1. s2c'[p] = s2c[p]
    BY <1>1, <1>3, <1>7 DEF S2CAfterSend, IInv, TypeOK
  <2> QED BY <1>1, <1>6, <2>1, BoxUntouched DEF IInv, BoxInv
<1>8. BoxOf(w)'
  <2>1. CASE link[w] = "open"
    <3>1. s2c'[w] = Append(s2c[w], pub)
      BY <1>1, <1>3, <2>1 DEF S2CAfterSend, IInv, TypeOK
    <3>2. sub[w] # "idle"
      <4>1. clients[r].sockfd \in Accepted
        BY <1>2 DEF IInv, SlotInv
      <4>2. Occurs(w)
        BY <1>2, <1>3, <4>1 DEF Occurs, Accepted
      <4> QED BY <4>2 DEF IInv, ConnInv
    <3>3. pub # Error
      BY <1>1 DEF Error
    <3>4. BoxOf(w) /\ TypeOK
      BY DEF BoxInv, IInv
    <3> QED BY <1>1, <1>4, <1>5, <2>1, <3>1, <3>2, <3>3, <3>4, BoxFilled
  <2> QED BY <1>7, <2>1
<1>9. \A p \in Procs : BoxOf(p)'
  BY <1>7, <1>8
<1>10. ASSUME NEW k \in DOMAIN clients', Unsent(k)'
       PROVE  Older(conn[clients[k].sockfd], Len(published) - 1)'
  <2>1. /\ k \in DOMAIN clients /\ k # r /\ Unsent(k) /\ clients'[k].sockfd = clients[k].sockfd
    <3>1. DOMAIN clients' = DOMAIN clients
      BY <1>1
    <3>2. clients[r] \in Slots
      BY <1>5 DEF IInv, TypeOK
    <3>3. clients'[r].sent_message
      BY <1>1, <1>5, <3>2 DEF Slots
    <3>4. k # r
      BY <1>10, <3>3 DEF Unsent
    <3> QED BY <1>1, <1>10, <3>1, <3>4 DEF Unsent, Connected
  <2>2. conn[clients[k].sockfd] \in Procs
    BY <2>1 DEF IInv, SlotInv, Accepted, TypeOK, Unsent
  <2>3. PICK q \in Procs : q = conn[clients[k].sockfd]
    BY <2>2
  <2>4. q # w /\ Older(q, Len(published) - 1)
    BY <1>1, <1>2, <1>3, <2>1, <2>3 DEF BoxInv, Unsent
  <2>5. PICK n : n = Len(published) - 1
    OBVIOUS
  <2>6. Older(q, n)'
    BY <1>7, <2>4, <2>5
  <2>7. conn'[clients'[k].sockfd] = q /\ n = Len(published') - 1
    BY <1>1, <2>1, <2>3, <2>5
  <2> QED BY <2>6, <2>7
<1> QED BY <1>1, <1>4, <1>9, <1>10 DEF BoxInv

\* A step of a process makes nobody's messages newer.
LEMMA BoxOfSubscriber ==
  ASSUME IInv, BoxInv, NEW w \in Procs, SubscriberNext(w), UNCHANGED serverVars,
         NEW p \in Procs
  PROVE  BoxOf(p)' /\ \A n : Older(p, n) => Older(p, n)'
<1>1. published' = published /\ BoxOf(p) /\ TypeOK
  BY DEF serverVars, BoxInv, IInv
<1>2. CASE Connect(w)
  <2>1. s2c' = s2c /\ last' = last /\ sub[w] = "idle" /\ sub'[w] = "connected"
        /\ \A q \in Procs : q # w => sub'[q] = sub[q] /\ link'[q] = link[q]
    BY <1>1, <1>2 DEF Connect, Becomes, TypeOK
  <2>2. CASE p = w
    <3>1. s2c'[p] = <<>> /\ last'[p] = last[p]
      BY <1>1, <2>1, <2>2 DEF BoxOf
    <3> QED BY <1>1, <3>1, BoxEmptied
  <2>3. CASE p # w
    BY <1>1, <2>1, <2>3, BoxUntouched
  <2> QED BY <2>2, <2>3
<1>3. CASE ConnectFails(w) \/ Hello(w) \/ Command(w)
  <2>1. s2c' = s2c /\ last' = last /\ link' = link /\ (sub'[p] = "idle" => sub[p] = "idle")
    BY <1>1, <1>3 DEF ConnectFails, Hello, Command, Becomes, sockets, TypeOK
  <2> QED BY <1>1, <2>1, BoxUntouched
<1>4. CASE Receive(w)
  <2>1. CASE p = w
    BY <1>1, <1>4, <2>1, BoxRead
  <2>2. CASE p # w
    <3>1. s2c'[p] = s2c[p] /\ last'[p] = last[p] /\ link' = link /\ sub' = sub
      BY <1>1, <1>4, <2>2 DEF Receive, TypeOK
    <3> QED BY <1>1, <3>1, BoxUntouched
  <2> QED BY <2>1, <2>2
<1>5. CASE Ended(w)
  <2>1. CASE p = w
    <3>1. s2c'[p] = <<>> /\ last'[p] = last[p]
      BY <1>1, <1>5, <2>1 DEF Ended, ProcessEnds, TypeOK
    <3> QED BY <1>1, <3>1, BoxEmptied
  <2>2. CASE p # w
    <3>1. /\ s2c'[p] = s2c[p] /\ last'[p] = last[p] /\ link'[p] = link[p]
          /\ sub'[p] = sub[p]
      BY <1>1, <1>5, <2>2 DEF Ended, ProcessEnds, Becomes, TypeOK
    <3> QED BY <1>1, <3>1, BoxUntouched
  <2> QED BY <2>1, <2>2
<1>6. ReceiveRefusal(w) \/ ServerGone(w) \/ Quit(w) => Ended(w)
  BY DEF ReceiveRefusal, ServerGone, Quit
<1> QED BY <1>2, <1>3, <1>4, <1>5, <1>6 DEF SubscriberNext

\* While a message is published the broker's tables stay.
LEMMA BoxWhenServerStays ==
  ASSUME IInv, BoxInv, pub' = pub, srv' = srv, clients' = clients, published' = published,
         conn' = conn,
         \A p \in Procs : BoxOf(p)' /\ \A n : Older(p, n) => Older(p, n)'
  PROVE  BoxInv'
<1>1. ASSUME pub # 0, NEW k \in DOMAIN clients, Unsent(k)
      PROVE  Older(conn[clients[k].sockfd], Len(published) - 1)'
  <2>1. conn[clients[k].sockfd] \in Procs
    BY <1>1 DEF IInv, SlotInv, Accepted, TypeOK, Unsent
  <2>2. PICK q \in Procs : q = conn[clients[k].sockfd]
    BY <2>1
  <2>3. PICK n : n = Len(published) - 1
    OBVIOUS
  <2>4. Older(q, n)'
    BY <1>1, <2>2, <2>3 DEF BoxInv
  <2>5. conn'[clients'[k].sockfd] = q /\ n = Len(published') - 1
    BY <2>2, <2>3
  <2> QED BY <2>4, <2>5
<1>2. \A k : Unsent(k)' <=> Unsent(k)
  BY DEF Unsent, Connected
<1> QED BY <1>1, <1>2 DEF BoxInv

LEMMA BoxAfterSubscriber ==
  ASSUME IInv, BoxInv, NEW w \in Procs, SubscriberNext(w), UNCHANGED serverVars
  PROVE  BoxInv'
<1>1. /\ pub' = pub /\ srv' = srv /\ clients' = clients /\ published' = published
      /\ conn' = conn
  BY DEF serverVars, SubscriberNext, Connect, ConnectFails, Hello, Command, Receive,
     ReceiveRefusal, ServerGone, Quit, Ended, ProcessEnds, sockets
<1> QED BY <1>1, BoxOfSubscriber, BoxWhenServerStays

LEMMA BoxAfterInput ==
  ASSUME IInv, BoxInv, UNCHANGED subscriberVars,
         Poll \/ Datagram \/ TypeLine \/ UNCHANGED vars
  PROVE  BoxInv'
<1>1. /\ pub' = pub /\ srv' = srv /\ clients' = clients /\ published' = published
      /\ conn' = conn /\ s2c' = s2c /\ last' = last /\ sub' = sub /\ link' = link
  BY DEF Poll, Datagram, TypeLine, vars, serverVars, tables, sockets, subscriberVars
<1>2. \A p \in Procs : BoxOf(p)' /\ \A n : Older(p, n) => Older(p, n)'
  BY <1>1, BoxUntouched DEF IInv, BoxInv
<1> QED BY <1>1, <1>2, BoxWhenServerStays

LEMMA BoxStep ==
  ASSUME IInv, BoxInv, [Next]_vars
  PROVE  BoxInv'
<1>1. CASE ServerStep
  BY <1>1, BoxAfterInput, BoxAfterSilent, BoxAfterEnd, BoxAfterRefusal, BoxAfterBegin,
     BoxAfterSend DEF ServerStep, ServerNext
<1>2. CASE SubscriberStep
  BY <1>2, BoxAfterSubscriber DEF SubscriberStep
<1>3. CASE Datagram \/ TypeLine \/ UNCHANGED vars
  <2>1. UNCHANGED subscriberVars
    BY <1>3 DEF Datagram, TypeLine, vars
  <2> QED BY <1>3, <2>1, BoxAfterInput
<1> QED BY <1>1, <1>2, <1>3 DEF Next

LEMMA BoxInvariance == Spec => []BoxInv
<1>1. Init => BoxInv
  <2> SUFFICES ASSUME Init PROVE BoxInv
    OBVIOUS
  <2>1. pub = 0 /\ Len(published) = 0
    BY DEF Init, ServerInit
  <2>2. \A p \in Procs : s2c[p] = <<>> /\ last[p] = 0
    BY DEF Init, SubscriberInit
  <2> QED BY <2>1, <2>2 DEF BoxInv, BoxOf, Older
<1>2. IInv /\ BoxInv /\ [Next]_vars => BoxInv'
  BY BoxStep
<1> QED BY <1>1, <1>2, Invariance, PTL DEF Spec

\* A process is handed messages in the order of publication and none twice, whatever
\* patterns overlap and whenever it reads (utils.c publish, sent_message).
THEOREM DeliveredInOrderOnce == Spec => []InOrderOnce
<1>1. BoxInv => InOrderOnce
  BY DEF BoxInv, BoxOf, InOrderOnce
<1> QED BY <1>1, BoxInvariance, PTL

-----------------------------------------------------------------------------
(* LinkInv is preserved. *)

LEMMA LinkUntouched ==
  ASSUME NEW p \in Procs, LinkOf(p), Occurs(p)' => Occurs(p),
         link'[p] = "open" <=> link[p] = "open",
         sub'[p] = sub[p] \/ (sub[p] = "connected" /\ sub'[p] = "running")
  PROVE  LinkOf(p)'
BY DEF LinkOf

LEMMA LinkWhenConnsStay ==
  ASSUME LinkInv, backlog' = backlog, conn' = conn, sub' = sub,
         \A p \in Procs : link'[p] = "open" <=> link[p] = "open"
  PROVE  LinkInv'
<1>1. \A p \in Procs : Occurs(p)' => Occurs(p)
  BY DEF Occurs, Elems
<1> QED BY <1>1, LinkUntouched DEF LinkInv

LEMMA LinkAfterServer ==
  ASSUME IInv, LinkInv, ServerStep
  PROVE  LinkInv'
<1>1. sub' = sub /\ TypeOK /\ ConnInv
  BY DEF ServerStep, subscriberVars, IInv
<1>2. CASE \/ Poll \/ PublishBegin \/ PublishEnd \/ OtherLine
           \/ SubscribeCommand \/ UnsubscribeCommand \/ ConnectNew
  <2>1. backlog' = backlog /\ conn' = conn /\ link' = link
    BY <1>2 DEF Poll, PublishBegin, PublishEnd, OtherLine,
       SubscribeCommand, UnsubscribeCommand, ConnectNew, PacketTaken, sockets
  <2> QED BY <1>1, <2>1, LinkWhenConnsStay
<1>3. CASE PublishSend
  <2>1. backlog' = backlog /\ conn' = conn /\ link' = LinkAfterSend(Addressee)
    BY <1>3 DEF PublishSend
  <2>2. \A p \in Procs : link'[p] = "open" <=> link[p] = "open"
    BY <1>1, <2>1 DEF LinkAfterSend, TypeOK
  <2> QED BY <1>1, <2>1, <2>2, LinkWhenConnsStay
<1>4. CASE AcceptConnection
  <2>1. \A p \in Procs : Occurs(p)' => Occurs(p)
    BY <1>1, <1>4, ConnAfterAccept
  <2>2. link' = link
    BY <1>4 DEF AcceptConnection, Accept
  <2> QED BY <1>1, <2>1, <2>2, LinkUntouched DEF LinkInv
<1>5. CASE PublishKilled \/ ExitCommand \/ ReceiveError
  <2>1. /\ backlog' = <<>> /\ conn' = [fd \in Fds |-> NoProc]
        /\ \A p \in Procs : link'[p] # "open"
    BY <1>5 DEF PublishKilled, ExitCommand, ReceiveError, Ends, BrokerEnds
  <2>2. \A p \in Procs : ~Occurs(p)'
    BY <2>1, SocketAssumption DEF Occurs, Elems
  <2> QED BY <2>1, <2>2 DEF LinkInv, LinkOf
<1>6. CASE Disconnect \/ ConnectRefused
  <2>1. AtClient /\ ClosedBy(fd_i) /\ backlog' = backlog
    BY <1>6 DEF Disconnect, ConnectRefused, Receiving
  <2>2. fd_i \in Accepted /\ peer \in Procs
    BY <2>1, AtClientFacts DEF IInv
  <2>3. PICK fd \in Fds, w \in Procs : fd = fd_i /\ w = peer /\ w = conn[fd]
    BY <2>2 DEF Accepted, peer
  <2>4. /\ conn' = [conn EXCEPT ![fd] = NoProc] /\ link' = [link EXCEPT ![w] = "closed"]
    BY <2>1, <2>3 DEF ClosedBy
  <2>5. \A p \in Procs : Occurs(p)' => Occurs(p)
    BY <1>1, <2>1, <2>4, ConnAfterClose
  <2>6. ~Occurs(w)'
    <3>1. \A gd \in Fds : conn'[gd] # w
      BY <1>1, <2>3, <2>4, SocketAssumption DEF ConnInv, Accepted, TypeOK
    <3>2. \A m \in DOMAIN backlog : backlog[m] # w
      BY <1>1, <2>3 DEF ConnInv
    <3> QED BY <2>1, <3>1, <3>2 DEF Occurs, Elems
  <2>7. ASSUME NEW p \in Procs PROVE LinkOf(p)'
    <3>1. CASE p = w
      BY <1>1, <2>4, <2>6, <3>1 DEF LinkOf, TypeOK
    <3>2. CASE p # w
      <4>1. link'[p] = link[p]
        BY <1>1, <2>4, <3>2 DEF TypeOK
      <4> QED BY <1>1, <2>5, <4>1, LinkUntouched DEF LinkInv
    <3> QED BY <3>1, <3>2
  <2> QED BY <2>7 DEF LinkInv
<1> QED BY <1>2, <1>3, <1>4, <1>5, <1>6 DEF ServerStep, ServerNext

LEMMA LinkAfterSubscriber ==
  ASSUME IInv, LinkInv, NEW w \in Procs, SubscriberNext(w)
  PROVE  LinkInv'
<1>1. TypeOK /\ ConnInv
  BY DEF IInv
<1> SUFFICES ASSUME NEW p \in Procs PROVE LinkOf(p)'
  BY DEF LinkInv
<1>2. LinkOf(p)
  BY DEF LinkInv
<1>3. CASE Connect(w)
  <2>1. /\ sub'[w] = "connected" /\ link'[w] = "open"
        /\ p # w => sub'[p] = sub[p] /\ link'[p] = link[p]
    BY <1>1, <1>3 DEF Connect, Becomes, TypeOK
  <2>2. Occurs(p)' => Occurs(p) \/ p = w
    BY <1>1, <1>3, ConnAfterConnect
  <2> QED BY <1>2, <2>1, <2>2 DEF LinkOf
<1>4. CASE ConnectFails(w) \/ Hello(w) \/ Command(w) \/ Receive(w) \/ Ended(w)
  <2>1. backlog' = backlog /\ conn' = conn
    BY <1>4 DEF ConnectFails, Hello, Command, Receive, Ended, ProcessEnds, sockets
  <2>2. Occurs(p)' => Occurs(p)
    BY <2>1 DEF Occurs, Elems
  <2>3. CASE Hello(w) \/ Command(w) \/ Receive(w)
    <3>1. /\ link' = link
          /\ sub'[p] = sub[p] \/ (sub[p] = "connected" /\ sub'[p] = "running")
      BY <1>1, <2>3 DEF Hello, Command, Receive, Becomes, TypeOK
    <3> QED BY <1>2, <2>2, <3>1, LinkUntouched
  <2>4. CASE ConnectFails(w) \/ Ended(w)
    <3>1. /\ sub'[w] = "exited" /\ link'[w] # "open"
          /\ p # w => sub'[p] = sub[p] /\ link'[p] = link[p]
      <4>1. CASE ConnectFails(w)
        <5>1. link[w] # "open"
          BY <4>1 DEF ConnectFails, LinkInv, LinkOf
        <5> QED BY <1>1, <4>1, <5>1 DEF ConnectFails, Becomes, sockets, TypeOK
      <4>2. CASE Ended(w)
        BY <1>1, <4>2 DEF Ended, ProcessEnds, Becomes, TypeOK
      <4> QED BY <2>4, <4>1, <4>2
    <3> QED BY <1>2, <2>2, <3>1 DEF LinkOf
  <2> QED BY <1>4, <2>3, <2>4
<1>5. ReceiveRefusal(w) \/ ServerGone(w) \/ Quit(w) => Ended(w)
  BY DEF ReceiveRefusal, ServerGone, Quit
<1> QED BY <1>3, <1>4, <1>5 DEF SubscriberNext

LEMMA LinkInvariance == Spec => []LinkInv
<1>1. Init => LinkInv
  <2> SUFFICES ASSUME Init PROVE LinkInv
    OBVIOUS
  <2>1. \A p \in Procs : link[p] = "none" /\ ~Occurs(p)
    BY SocketAssumption DEF Init, Occurs, Elems
  <2> QED BY <2>1 DEF LinkInv, LinkOf
<1>2. IInv /\ LinkInv /\ [Next]_vars => LinkInv'
  <2> SUFFICES ASSUME IInv, LinkInv, [Next]_vars PROVE LinkInv'
    OBVIOUS
  <2>1. CASE Datagram \/ TypeLine \/ UNCHANGED vars
    <3>1. backlog' = backlog /\ conn' = conn /\ link' = link /\ sub' = sub
      BY <2>1 DEF Datagram, TypeLine, vars, sockets, subscriberVars
    <3> QED BY <3>1, LinkWhenConnsStay
  <2> QED BY <2>1, LinkAfterServer, LinkAfterSubscriber DEF Next, SubscriberStep
<1> QED BY <1>1, <1>2, Invariance, PTL DEF Spec

-----------------------------------------------------------------------------
(* KeepsPromise: the state of the abstract broker, read off the invariant. *)

\* Who is online is who is registered.
OnlineRight ==
  /\ Online \in [Ids -> Procs \cup {NoProc}]
  /\ \A id \in Ids, p \in Procs : Online[id] = p <=> Registered(p) /\ IdOf[p] = id

LEMMA OnlineIsRegistered == IInv /\ IdsFit => OnlineRight
<1> SUFFICES ASSUME IInv, IdsFit PROVE OnlineRight
  OBVIOUS
<1>1. ASSUME NEW k \in Connected
      PROVE  /\ conn[clients[k].sockfd] \in Procs
             /\ IdOf[conn[clients[k].sockfd]] = clients[k].id
             /\ find_client_by_id(clients[k].id) = k
             /\ IsConnected(clients[k].id)
  <2>1. clients[k].sockfd \in Accepted
        /\ Stored[IdOf[conn[clients[k].sockfd]]] = clients[k].id
    BY DEF IInv, SlotInv
  <2>2. conn[clients[k].sockfd] \in Procs
    BY <2>1 DEF Accepted, IInv, TypeOK
  <2>3. IdOf[conn[clients[k].sockfd]] = clients[k].id
    BY <2>1, <2>2, PubSubAssumption DEF IdsFit
  <2>4. find_client_by_id(clients[k].id) \in DOMAIN clients
        /\ clients[find_client_by_id(clients[k].id)].id = clients[k].id
    BY FoundById DEF Connected, IInv
  <2>5. find_client_by_id(clients[k].id) = k
    BY <2>4 DEF IInv, IdInv, Connected
  <2>6. k # 0
    BY DEF Connected, IInv, TypeOK
  <2> QED BY <2>2, <2>3, <2>5, <2>6 DEF IsConnected, Connected
<1>2. ASSUME NEW id \in Ids, IsConnected(id)
      PROVE  find_client_by_id(id) \in Connected /\ clients[find_client_by_id(id)].id = id
  BY <1>2, FoundById DEF IsConnected, Connected, IInv
<1>3. Online \in [Ids -> Procs \cup {NoProc}]
  BY <1>1, <1>2 DEF Online
<1>4. ASSUME NEW id \in Ids, NEW p \in Procs, Online[id] = p
      PROVE  Registered(p) /\ IdOf[p] = id
  <2>1. IsConnected(id) /\ conn[clients[find_client_by_id(id)].sockfd] = p
    BY <1>4, SocketAssumption DEF Online
  <2> QED BY <1>1, <1>2, <2>1 DEF Registered
<1>5. ASSUME NEW id \in Ids, NEW p \in Procs, Registered(p), IdOf[p] = id
      PROVE  Online[id] = p
  <2>1. PICK k \in Connected : conn[clients[k].sockfd] = p
    BY <1>5 DEF Registered
  <2> QED BY <1>1, <1>5, <2>1 DEF Online
<1> QED BY <1>3, <1>4, <1>5 DEF OnlineRight

\* The processes that publish() still has to send to.
DueRight ==
  \A topic, p :
    p \in {conn[clients[SlotAt(d)].sockfd] : d \in Due(topic)} <=>
      /\ \E k \in Connected : conn[clients[k].sockfd] = p /\ ~clients[k].sent_message
      /\ \E pattern \in Patterns :
           Matches(topic, pattern) /\ <<pattern, IdOf[p]>> \in Subscribed

LEMMA WhoIsDue == IInv /\ IdsFit => DueRight
<1> SUFFICES ASSUME IInv, IdsFit, NEW topic, NEW p
             PROVE  p \in {conn[clients[SlotAt(d)].sockfd] : d \in Due(topic)} <=>
                      /\ \E k \in Connected :
                           conn[clients[k].sockfd] = p /\ ~clients[k].sent_message
                      /\ \E pattern \in Patterns :
                           Matches(topic, pattern) /\ <<pattern, IdOf[p]>> \in Subscribed
  BY DEF DueRight
<1>1. ASSUME NEW k \in Connected
      PROVE  IdOf[conn[clients[k].sockfd]] = clients[k].id
  <2>1. clients[k].sockfd \in Accepted
        /\ Stored[IdOf[conn[clients[k].sockfd]]] = clients[k].id
    BY DEF IInv, SlotInv
  <2>2. conn[clients[k].sockfd] \in Procs
    BY <2>1 DEF Accepted, IInv, TypeOK
  <2> QED BY <2>1, <2>2, PubSubAssumption DEF IdsFit
<1>2. ASSUME NEW d \in Due(topic), p = conn[clients[SlotAt(d)].sockfd]
      PROVE  /\ \E k \in Connected : conn[clients[k].sockfd] = p /\ ~clients[k].sent_message
             /\ \E pattern \in Patterns :
                  Matches(topic, pattern) /\ <<pattern, IdOf[p]>> \in Subscribed
  <2> DEFINE k == SlotAt(d)
             t == d[1]
  <2>1. /\ k \in Connected /\ ~clients[k].sent_message
        /\ clients[k].id = topic_map[t].subscribers[d[2]]
        /\ t \in DOMAIN topic_map /\ d[2] \in DOMAIN topic_map[t].subscribers
        /\ topic_map[t].topic \in Patterns
    BY DueEntries DEF IInv, Connected
  <2>2. Matches(topic, topic_map[t].topic)
    BY DEF Due
  <2> HIDE DEF k, t
  <2>3. IdOf[p] \in Elems(topic_map[t].subscribers)
    BY <1>1, <1>2, <2>1 DEF k, Elems
  <2>4. <<topic_map[t].topic, IdOf[p]>> \in Subscribed
    BY <2>1, <2>3 DEF Subscribed
  <2> QED BY <1>2, <2>1, <2>2, <2>4 DEF k
<1>3. ASSUME NEW k \in Connected, conn[clients[k].sockfd] = p, ~clients[k].sent_message,
             NEW pattern \in Patterns, Matches(topic, pattern),
             <<pattern, IdOf[p]>> \in Subscribed
      PROVE  p \in {conn[clients[SlotAt(d)].sockfd] : d \in Due(topic)}
  <2>1. PICK t \in DOMAIN topic_map :
          <<pattern, IdOf[p]>> \in {topic_map[t].topic} \X Elems(topic_map[t].subscribers)
    BY <1>3 DEF Subscribed
  <2>2. topic_map[t].topic = pattern /\ IdOf[p] \in Elems(topic_map[t].subscribers)
    BY <2>1
  <2>3. PICK j \in DOMAIN topic_map[t].subscribers : topic_map[t].subscribers[j] = IdOf[p]
    BY <2>2 DEF Elems
  <2> DEFINE d == <<t, j>>
  <2>4. d[1] = t /\ d[2] = j
    OBVIOUS
  <2>5. d \in Positions
    BY <2>3 DEF Positions
  <2> HIDE DEF d
  <2>6. SlotAt(d) = find_client_by_id(clients[k].id)
    BY <1>1, <1>3, <2>3, <2>4 DEF SlotAt
  <2>7. find_client_by_id(clients[k].id) \in DOMAIN clients
        /\ clients[find_client_by_id(clients[k].id)].id = clients[k].id
    BY FoundById DEF Connected, IInv
  <2>8. SlotAt(d) = k /\ k # 0
    BY <2>6, <2>7 DEF IInv, IdInv, Connected, TypeOK
  <2>9. d \in Due(topic)
    BY <1>3, <2>2, <2>4, <2>5, <2>8 DEF Due, Connected
  <2> QED BY <1>3, <2>8, <2>9
<1> QED BY <1>2, <1>3

\* Messages() of the packets that are sent and read.
LEMMA MessagesOf ==
  ASSUME NEW s \in Seq(Nat), NEW x \in Nat, \A m \in DOMAIN s : s[m] # Error
  PROVE  /\ Messages(s) = s
         /\ x # Error => Messages(Append(s, x)) = Append(s, x)
         /\ Messages(Append(s, Error)) = s
<1> DEFINE n == Len(s)
<1>1. n \in Nat /\ DOMAIN s = 1 .. n /\ (s # <<>> => n \in DOMAIN s)
  OBVIOUS
<1>2. Messages(s) = s
  BY <1>1 DEF Messages
<1>3. /\ Append(s, x)[Len(Append(s, x))] = x /\ Append(s, x) # <<>>
  OBVIOUS
<1>4. x # Error => Messages(Append(s, x)) = Append(s, x)
  BY <1>3 DEF Messages
<1>5. /\ Append(s, Error) \in Seq(Nat) /\ Append(s, Error) # <<>>
      /\ Len(Append(s, Error)) = n + 1 /\ Append(s, Error)[n + 1] = Error
      /\ \A m \in 1 .. n : Append(s, Error)[m] = s[m]
  <2>1. Error \in Nat
    BY DEF Error
  <2> QED BY <2>1
<1>6. Messages(Append(s, Error)) = SubSeq(Append(s, Error), 1, n)
  BY <1>1, <1>5 DEF Messages
<1>7. SubSeq(Append(s, Error), 1, n) = s
  BY <1>1, <1>5
<1> QED BY <1>2, <1>4, <1>6, <1>7

LEMMA MessagesOfTail ==
  ASSUME NEW s \in Seq(Nat), s # <<>>, Head(s) # Error
  PROVE  Messages(s) # <<>> /\ Messages(Tail(s)) = Tail(Messages(s))
<1> DEFINE n == Len(s)
           t == Tail(s)
<1>1. /\ n \in Nat \ {0} /\ Len(s) = n /\ DOMAIN s = 1 .. n /\ Head(s) = s[1]
      /\ t \in Seq(Nat) /\ Len(t) = n - 1 /\ DOMAIN t = 1 .. n - 1
      /\ \A m \in 1 .. n - 1 : t[m] = s[m + 1]
  OBVIOUS
<1>0. (\A m \in 1 .. n : s[m] \in Nat) /\ \A m \in 1 .. n - 1 : t[m] \in Nat
  OBVIOUS
<1> HIDE DEF n, t
<1>2. CASE s[n] # Error
  <2>1. Messages(s) = s
    BY <1>1, <1>2 DEF Messages
  <2>2. ASSUME t # <<>> PROVE t[Len(t)] = s[n]
    <3>1. n - 1 \in 1 .. n - 1 /\ (n - 1) + 1 = n
      BY <1>1, <2>2
    <3> QED BY <1>1, <3>1
  <2>3. Messages(t) = t
    BY <1>2, <2>2 DEF Messages
  <2> QED BY <2>1, <2>3 DEF t
<1>3. CASE s[n] = Error
  <2>1. n # 1 /\ n - 1 \in Nat \ {0} /\ n - 1 \in 1 .. n - 1 /\ (n - 1) + 1 = n
    <3>1. n # 1
      BY <1>1, <1>3
    <3> QED BY <1>1, <3>1
  <2>2. t # <<>> /\ t[Len(t)] = s[n]
    BY <1>1, <2>1
  <2>3. Messages(s) = SubSeq(s, 1, n - 1) /\ Messages(t) = SubSeq(t, 1, n - 2)
    BY <1>1, <1>3, <2>1, <2>2 DEF Messages
  <2> DEFINE u == SubSeq(s, 1, n - 1)
             v == SubSeq(t, 1, n - 2)
  <2>4. /\ u \in Seq(Nat) /\ Len(u) = n - 1 /\ \A m \in 1 .. n - 1 : u[m] = s[m]
    <3>1. \A m \in 1 .. n - 1 : s[m] \in Nat
      BY <1>0, <1>1
    <3> QED BY <1>1, <2>1, <3>1, SubSeqProperties
  <2>5. /\ v \in Seq(Nat) /\ Len(v) = n - 2 /\ \A m \in 1 .. n - 2 : v[m] = t[m]
    <3>1. \A m \in 1 .. n - 2 : t[m] \in Nat
      BY <1>0, <1>1
    <3> QED BY <1>1, <3>1, <2>1, SubSeqProperties
  <2> HIDE DEF u, v
  <2>6. u # <<>> /\ Tail(u) \in Seq(Nat) /\ Len(Tail(u)) = n - 2
        /\ \A m \in 1 .. n - 2 : Tail(u)[m] = s[m + 1]
    <3>1. u # <<>> /\ Tail(u) \in Seq(Nat) /\ Len(Tail(u)) = n - 2
          /\ \A m \in 1 .. n - 2 : Tail(u)[m] = u[m + 1]
      BY <2>1, <2>4
    <3>2. \A m \in 1 .. n - 2 : m + 1 \in 1 .. n - 1
      BY <2>1
    <3> QED BY <2>4, <3>1, <3>2
  <2>7. \A m \in 1 .. n - 2 : v[m] = Tail(u)[m]
    <3>1. \A m \in 1 .. n - 2 : m \in 1 .. n - 1
      BY <2>1
    <3> QED BY <1>1, <2>5, <2>6, <3>1, Zenon
  <2>8. v = Tail(u)
    BY <2>5, <2>6, <2>7, SeqEqual
  <2> QED BY <2>3, <2>6, <2>8 DEF u, v, t
<1> QED BY <1>2, <1>3

-----------------------------------------------------------------------------
(* Each step of the broker is a step of the abstract one, or none of it. *)

\* What holds before and after every step.
Facts == IInv /\ SubscriptionsSound /\ BoxInv /\ LinkInv /\ OnlineRight /\ DueRight

\* The processes that have ended.
Gone == {p \in Procs : sub[p] = "exited"}

LEMMA OnlineNext ==
  ASSUME OnlineRight, OnlineRight', NEW F \in [Ids -> Procs \cup {NoProc}],
         \A id \in Ids, p \in Procs : F[id] = p <=> Registered(p)' /\ IdOf[p] = id
  PROVE  Online' = F
<1>1. Online' \in [Ids -> Procs \cup {NoProc}]
      /\ \A id \in Ids, p \in Procs : Online'[id] = p <=> Registered(p)' /\ IdOf[p] = id
  BY DEF OnlineRight
<1>2. ASSUME NEW id \in Ids PROVE Online'[id] = F[id]
  <2>1. Online'[id] \in Procs \cup {NoProc} /\ F[id] \in Procs \cup {NoProc}
    BY <1>1
  <2> QED BY <1>1, <2>1
<1> HIDE DEF Online
<1> QED BY <1>1, <1>2

LEMMA OnlineSame ==
  ASSUME OnlineRight, OnlineRight', \A p \in Procs : Registered(p)' <=> Registered(p)
  PROVE  Online' = Online
<1>1. Online \in [Ids -> Procs \cup {NoProc}]
      /\ \A id \in Ids, p \in Procs : Online[id] = p <=> Registered(p)' /\ IdOf[p] = id
  BY DEF OnlineRight
<1> QED BY <1>1, OnlineNext

\* The parts of the state that a step leaves alone.
LEMMA BoxesSame ==
  ASSUME s2c' = s2c PROVE Boxes' = Boxes
BY DEF Boxes, Messages

LEMMA SubscribedSame ==
  ASSUME topic_map' = topic_map PROVE Subscribed' = Subscribed
BY DEF Subscribed

LEMMA NothingDue ==
  ASSUME pub = 0 PROVE StillDue = {}
BY DEF StillDue

LEMMA NothingDueNext ==
  ASSUME pub' = 0 PROVE StillDue' = {}
BY DEF StillDue

LEMMA Stutters ==
  ASSUME srv' = srv, Online' = Online, Subscribed' = Subscribed,
         Len(published') = Len(published), StillDue' = StillDue, Boxes' = Boxes,
         Gone' = Gone
  PROVE  UNCHANGED Promise!vars
BY DEF Promise!vars, Gone

LEMMA GoneSame ==
  ASSUME sub' = sub PROVE Gone' = Gone
BY DEF Gone

\* Steps of the scan that the abstract broker does not see.
LEMMA ScanIsSilent ==
  ASSUME Facts, OnlineRight', sub' = sub, AcceptConnection \/ PublishEnd \/ OtherLine
  PROVE  UNCHANGED Promise!vars
<1>1. srv' = srv /\ published' = published /\ topic_map' = topic_map /\ s2c' = s2c
  BY DEF AcceptConnection, Accept, PublishEnd, OtherLine, tables, sockets
<1>2. \A p \in Procs : Registered(p)' <=> Registered(p)
  BY SlotsAfterAccept, SlotsWhenTheyStay DEF SlotsStay, Facts, IInv
<1>3. StillDue = {} /\ pub' = 0
  BY NothingDue DEF AcceptConnection, PublishEnd, OtherLine, AtTerminal, Handling, StillDue
<1> QED BY <1>1, <1>2, <1>3, OnlineSame, BoxesSame, SubscribedSame, NothingDueNext, GoneSame,
           Stutters DEF Facts

\* The broker's tables and what is published stay as they are.
LEMMA DueSame ==
  ASSUME pub' = pub, published' = published, clients' = clients, topic_map' = topic_map,
         conn' = conn
  PROVE  StillDue' = StillDue
BY DEF StillDue, Due, Positions, SlotAt, find_client_by_id

LEMMA WaitingIsSilent ==
  ASSUME Facts, OnlineRight', sub' = sub, Poll \/ Datagram \/ TypeLine \/ UNCHANGED vars
  PROVE  UNCHANGED Promise!vars
<1>1. /\ srv' = srv /\ published' = published /\ topic_map' = topic_map /\ s2c' = s2c
      /\ clients' = clients /\ pub' = pub /\ conn' = conn
  BY DEF Poll, Datagram, TypeLine, vars, serverVars, tables, sockets
<1>2. \A p \in Procs : Registered(p)' <=> Registered(p)
  BY SlotsWhenTheyStay DEF SlotsStay, Facts
<1> QED BY <1>1, <1>2, OnlineSame, BoxesSame, SubscribedSame, DueSame, GoneSame, Stutters
        DEF Facts

LEMMA RefusalIsSilent ==
  ASSUME Facts, OnlineRight', sub' = sub, ConnectRefused
  PROVE  UNCHANGED Promise!vars
<1>1. /\ srv' = srv /\ published' = published /\ topic_map' = topic_map
      /\ pub = 0 /\ pub' = 0 /\ s2c' = S2CAfterSend(peer, Error)
  BY DEF ConnectRefused, Receiving, AtClient, Handling, tables
<1>2. \A p \in Procs : Registered(p)' <=> Registered(p)
  BY SlotsAfterRefusal DEF Facts, IInv
<1>3. PICK w \in Procs : w = peer
  BY HelloIsFirst DEF Facts, IInv, ConnectRefused
<1>4. Boxes' = Boxes
  <2>1. CASE link[w] # "open"
    BY <1>1, <1>3, <2>1, BoxesSame DEF S2CAfterSend
  <2>2. CASE link[w] = "open"
    <3>1. s2c[w] \in Seq(Nat) /\ \A m \in DOMAIN s2c[w] : s2c[w][m] # Error
      BY <2>2 DEF Facts, IInv, TypeOK, BoxInv, BoxOf
    <3>2. /\ s2c'[w] = Append(s2c[w], Error)
          /\ \A p \in Procs : p # w => s2c'[p] = s2c[p]
      BY <1>1, <1>3, <2>2 DEF S2CAfterSend, Facts, IInv, TypeOK
    <3>3. Messages(s2c'[w]) = Messages(s2c[w])
      BY <3>1, <3>2, MessagesOf DEF Error
    <3>4. \A p \in Procs : Messages(s2c'[p]) = Messages(s2c[p])
      BY <3>2, <3>3
    <3>5. Boxes' = [p \in Procs |-> Messages(s2c'[p])]
      BY DEF Boxes, Messages
    <3> QED BY <3>4, <3>5 DEF Boxes
  <2> QED BY <2>1, <2>2
<1> QED BY <1>1, <1>2, <1>4, OnlineSame, SubscribedSame, NothingDue, NothingDueNext, GoneSame,
           Stutters DEF Facts

LEMMA JoinStep ==
  ASSUME Facts, OnlineRight', sub' = sub, ConnectNew, IdsFit
  PROVE  Promise!Join(peer) /\ peer \in Procs
<1>1. /\ srv' = srv /\ published' = published /\ topic_map' = topic_map /\ s2c' = s2c
      /\ srv = "up" /\ pub = 0 /\ pub' = 0 /\ ~IsConnected(packet.topic)
  BY DEF ConnectNew, PacketTaken, Receiving, AtClient, Handling
<1>2. peer \in Procs /\ packet.topic = IdOf[peer] /\ packet.topic \in Ids
  BY HelloIsFirst DEF ConnectNew, Facts, IInv
<1>3. PICK w \in Procs : w = peer
  BY <1>2
<1>4. Online[IdOf[w]] = NoProc /\ IdOf[w] \in Ids
  BY <1>1, <1>2, <1>3 DEF Online
<1>5. \A p \in Procs : Registered(p)' <=> Registered(p) \/ p = w
  BY <1>3, SlotsAfterConnect DEF Facts, IInv
<1> DEFINE F == [Online EXCEPT ![IdOf[w]] = w]
<1>6. F \in [Ids -> Procs \cup {NoProc}]
  BY <1>4 DEF Facts, OnlineRight
<1>7. ASSUME NEW id \in Ids, NEW p \in Procs
      PROVE  F[id] = p <=> Registered(p)' /\ IdOf[p] = id
  <2>1. Online[id] = p <=> Registered(p) /\ IdOf[p] = id
    BY DEF Facts, OnlineRight
  <2>2. Online \in [Ids -> Procs \cup {NoProc}]
    BY DEF Facts, OnlineRight
  <2>3. CASE id = IdOf[w]
    <3>1. F[id] = w
      BY <1>4, <2>2, <2>3
    <3>2. ~(Registered(p) /\ IdOf[p] = id)
      BY <1>4, <2>1, <2>3, SocketAssumption
    <3> QED BY <1>5, <2>3, <3>1, <3>2
  <2>4. CASE id # IdOf[w]
    <3>1. F[id] = Online[id]
      BY <2>2, <2>4
    <3> QED BY <1>5, <2>1, <2>4, <3>1
  <2> QED BY <2>3, <2>4
<1>8. Online' = F
  <2> HIDE DEF F
  <2> QED BY <1>6, <1>7, OnlineNext DEF Facts
<1>9. StillDue = {} /\ StillDue' = {}
  BY <1>1, NothingDue, NothingDueNext
<1> QED BY <1>1, <1>3, <1>4, <1>8, <1>9, BoxesSame, SubscribedSame, GoneSame
        DEF Promise!Join, Gone

LEMMA LeaveStep ==
  ASSUME Facts, OnlineRight', sub' = sub, Disconnect
  PROVE  (\E id \in Ids : Promise!Leave(id)) \/ UNCHANGED Promise!vars
<1>1. /\ srv' = srv /\ published' = published /\ topic_map' = topic_map /\ s2c' = s2c
      /\ srv = "up" /\ pub = 0 /\ pub' = 0
  BY DEF Disconnect, AtClient, Handling
<1>2. PICK w \in Procs : w = peer
  BY AtClientFacts DEF Disconnect, Facts, IInv
<1>3. \A p \in Procs : Registered(p)' <=> Registered(p) /\ p # w
  BY <1>2, SlotsAfterDisconnect DEF Facts, IInv
<1>4. StillDue = {} /\ StillDue' = {} /\ Boxes' = Boxes /\ Subscribed' = Subscribed
  BY <1>1, NothingDue, NothingDueNext, BoxesSame, SubscribedSame
<1>5. CASE ~Registered(w)
  <2>1. Online' = Online
    BY <1>3, <1>5, OnlineSame DEF Facts
  <2> QED BY <1>1, <1>4, <2>1, GoneSame, Stutters
<1>6. CASE Registered(w)
  <2> DEFINE F == [Online EXCEPT ![IdOf[w]] = NoProc]
  <2>1. Online \in [Ids -> Procs \cup {NoProc}] /\ IdOf[w] \in Ids
    BY PubSubAssumption DEF Facts, OnlineRight
  <2>2. F \in [Ids -> Procs \cup {NoProc}]
    BY <2>1
  <2>3. ASSUME NEW id \in Ids, NEW p \in Procs
        PROVE  F[id] = p <=> Registered(p)' /\ IdOf[p] = id
    <3>1. /\ Online[id] = p <=> Registered(p) /\ IdOf[p] = id
          /\ Online[id] = w <=> Registered(w) /\ IdOf[w] = id
      BY DEF Facts, OnlineRight
    <3>2. CASE id = IdOf[w]
      <4>1. F[id] = NoProc /\ NoProc # p
        BY <2>1, <3>2, SocketAssumption
      <4>2. Registered(p) /\ IdOf[p] = id => p = w
        BY <1>6, <3>1, <3>2
      <4> QED BY <1>3, <4>1, <4>2
    <3>3. CASE id # IdOf[w]
      <4>1. F[id] = Online[id]
        BY <2>1, <3>3
      <4> QED BY <1>3, <3>1, <3>3, <4>1
    <3> QED BY <3>2, <3>3
  <2>4. Online' = F
    <3> HIDE DEF F
    <3> QED BY <2>2, <2>3, OnlineNext DEF Facts
  <2>5. Online[IdOf[w]] \in Gone
    <3>1. Occurs(w) /\ link[w] # "open"
      BY <1>2, AtClientFacts DEF Disconnect, RecvGivesEnd, Occurs, Accepted, peer, Facts, IInv
    <3>2. w \in Gone
      BY <3>1 DEF Facts, LinkInv, LinkOf, Gone
    <3>3. Online[IdOf[w]] = w
      BY <1>6, <2>1 DEF Facts, OnlineRight
    <3> QED BY <3>2, <3>3
  <2>6. Gone' = Gone
    BY GoneSame
  <2> QED BY <1>1, <1>4, <2>1, <2>4, <2>5, <2>6 DEF Promise!Leave, Gone
<1> QED BY <1>5, <1>6

LEMMA CommandStep ==
  ASSUME Facts, OnlineRight', sub' = sub, SubscribeCommand \/ UnsubscribeCommand, IdsFit
  PROVE  (\E p \in Procs : Promise!ChangeSubscription(p)) \/ UNCHANGED Promise!vars
<1>1. /\ srv' = srv /\ published' = published /\ s2c' = s2c
      /\ srv = "up" /\ pub = 0 /\ pub' = 0
  BY DEF SubscribeCommand, UnsubscribeCommand, PacketTaken, Receiving, AtClient, Handling
<1>2. /\ Registered(peer) /\ peer \in Procs /\ packet.topic \in Patterns
      /\ SenderId = Stored[IdOf[peer]]
  BY SenderFacts DEF Facts
<1>3. PICK w \in Procs, pattern \in Patterns : w = peer /\ pattern = packet.topic
  BY <1>2
<1>4. IdOf[w] \in Ids /\ SenderId = IdOf[w]
  BY <1>2, <1>3, PubSubAssumption DEF IdsFit
<1>5. \/ Subscribed' = Subscribed \cup {<<pattern, IdOf[w]>>}
      \/ Subscribed' = Subscribed \ {<<pattern, IdOf[w]>>}
      \/ Subscribed' = Subscribed
  BY <1>3, <1>4, CommandPairs DEF Facts
<1>6. Online[IdOf[w]] = w
  BY <1>2, <1>3, <1>4 DEF Facts, OnlineRight
<1>7. \A p \in Procs : Registered(p)' <=> Registered(p)
  BY SlotsWhenTheyStay DEF SlotsStay, Facts
<1>8. /\ Online' = Online /\ Boxes' = Boxes /\ StillDue = {} /\ StillDue' = {}
  BY <1>1, <1>7, OnlineSame, BoxesSame, NothingDue, NothingDueNext DEF Facts
<1>9. CASE Subscribed' = Subscribed
  BY <1>1, <1>8, <1>9, GoneSame, Stutters
<1>10. CASE \/ Subscribed' = Subscribed \cup {<<pattern, IdOf[w]>>}
            \/ Subscribed' = Subscribed \ {<<pattern, IdOf[w]>>}
  BY <1>1, <1>6, <1>8, <1>10, GoneSame DEF Promise!ChangeSubscription, Gone
<1> QED BY <1>5, <1>9, <1>10

LEMMA StopStep ==
  ASSUME Facts, OnlineRight', sub' = sub, PublishKilled \/ ExitCommand \/ ReceiveError
  PROVE  Promise!Stop
<1>1. srv = "up"
  BY DEF PublishKilled, Publishing, ExitCommand, AtTerminal, ReceiveError, AtClient, Handling
<1>2. PICK how \in {"exited", "died"} : Ends(how)
  BY DEF PublishKilled, ExitCommand, ReceiveError
<1>3. /\ srv' = how /\ pub' = 0 /\ clients' = <<>> /\ topic_map' = <<>>
      /\ published' = published /\ s2c' = s2c
  BY <1>2, EndsTypes DEF Facts, IInv
<1>4. (srv' = "up") = FALSE /\ (srv = "up") = TRUE
  BY <1>1, <1>2, <1>3
<1> DEFINE F == [id \in Ids |-> NoProc]
<1>5. Online' = F
  <2>1. \A p \in Procs : ~Registered(p)'
    BY <1>3, SlotsAfterEnd
  <2>2. \A id \in Ids, p \in Procs : F[id] = p <=> Registered(p)' /\ IdOf[p] = id
    BY <2>1, SocketAssumption
  <2>3. F \in [Ids -> Procs \cup {NoProc}]
    OBVIOUS
  <2> HIDE DEF F
  <2> QED BY <2>2, <2>3, OnlineNext DEF Facts
<1>6. Subscribed' = {}
  BY <1>3 DEF Subscribed
<1>7. StillDue' = {} /\ Boxes' = Boxes
  BY <1>3, NothingDueNext, BoxesSame
<1> QED BY <1>3, <1>4, <1>5, <1>6, <1>7, GoneSame DEF Promise!Stop, Gone

LEMMA PublishStep ==
  ASSUME Facts, OnlineRight', DueRight', sub' = sub, PublishBegin
  PROVE  Promise!Publish
<1>1. /\ srv' = srv /\ srv = "up" /\ pub = 0 /\ topic_map' = topic_map /\ s2c' = s2c
      /\ conn' = conn /\ clients' = FlagsCleared /\ udp # <<>>
      /\ published' = Append(published, Head(udp)) /\ pub' = Len(published')
  BY DEF PublishBegin, Handling, sockets
<1>2. PICK topic \in Topics : topic = Head(udp)
  BY <1>1 DEF Facts, IInv, TypeOK
<1>3. /\ Len(published') = Len(published) + 1 /\ pub' # 0
      /\ published'[pub'] = topic
  <2>1. published \in Seq(Topics)
    BY DEF Facts, IInv, TypeOK
  <2> QED BY <1>1, <1>2, <2>1
<1>4. \A p \in Procs : Registered(p)' <=> Registered(p)
  BY SlotsAfterPublish DEF Facts
<1>5. Online' = Online /\ Boxes' = Boxes /\ Subscribed' = Subscribed /\ StillDue = {}
  BY <1>1, <1>4, OnlineSame, BoxesSame, SubscribedSame, NothingDue DEF Facts
<1>6. /\ DOMAIN clients' = DOMAIN clients
      /\ \A k \in DOMAIN clients : /\ clients'[k].connected = clients[k].connected
                                   /\ clients'[k].sockfd = clients[k].sockfd
                                   /\ ~clients'[k].sent_message
  <2>1. \A k \in DOMAIN clients : clients[k] \in Slots
    BY DEF Facts, IInv, TypeOK
  <2> QED BY <1>1, <2>1 DEF FlagsCleared, Slots
<1>7. \A p : (\E k \in Connected' : conn'[clients'[k].sockfd] = p /\ ~clients'[k].sent_message)
               <=> Registered(p)
  BY <1>1, <1>6 DEF Registered, Connected
<1>8. \A p : p \in StillDue' <=>
               /\ Registered(p)
               /\ \E pattern \in Patterns :
                    Matches(topic, pattern) /\ <<pattern, IdOf[p]>> \in Subscribed
  <2>3. \A p : p \in {conn'[clients'[SlotAt(d)'].sockfd] : d \in Due(topic)'} <=>
               /\ \E k \in Connected' :
                    conn'[clients'[k].sockfd] = p /\ ~clients'[k].sent_message
               /\ \E pattern \in Patterns :
                    Matches(topic, pattern) /\ <<pattern, IdOf[p]>> \in Subscribed'
    BY DEF DueRight
  <2>4. StillDue' = {conn'[clients'[SlotAt(d)'].sockfd] : d \in Due(topic)'}
    BY <1>3 DEF StillDue
  <2> QED BY <1>5, <1>7, <2>3, <2>4
<1>9. ASSUME NEW p PROVE p \in StillDue' <=> p \in Promise!Interested(topic)
  <2>1. Registered(p) <=> p \in Procs /\ Online[IdOf[p]] = p
    <3>1. ASSUME Registered(p) PROVE p \in Procs
      <4>1. PICK k \in Connected : conn[clients[k].sockfd] = p
        BY <3>1 DEF Registered
      <4>2. clients[k].sockfd \in Accepted
        BY DEF Facts, IInv, SlotInv
      <4> QED BY <4>1, <4>2 DEF Accepted, Facts, IInv, TypeOK
    <3>2. p \in Procs => IdOf[p] \in Ids
      BY PubSubAssumption
    <3> QED BY <3>1, <3>2 DEF Facts, OnlineRight
  <2> QED BY <1>8, <2>1 DEF Promise!Interested
<1>10. StillDue' = Promise!Interested(topic)
  BY <1>9
<1> QED BY <1>1, <1>3, <1>5, <1>10, GoneSame DEF Promise!Publish, Gone

LEMMA HandStep ==
  ASSUME Facts, OnlineRight', DueRight', sub' = sub, PublishSend
  PROVE  Promise!HandTo(Addressee) /\ Addressee \in Procs
<1> DEFINE r == Recipient(published[pub])
<1>1. /\ srv' = srv /\ srv = "up" /\ pub' = pub /\ pub # 0 /\ published' = published
      /\ topic_map' = topic_map /\ conn' = conn /\ Publishing
      /\ clients' = [clients EXCEPT ![r].sent_message = TRUE]
      /\ s2c' = S2CAfterSend(Addressee, pub)
  BY DEF PublishSend, Publishing
<1>2. /\ r \in Connected /\ Addressee \in Procs
      /\ Addressee = conn[clients[r].sockfd]
      /\ \A k \in Connected : conn[clients[k].sockfd] = Addressee => k = r
  BY <1>1, AddresseeFacts DEF Addressee, Facts
<1>3. Addressee \in StillDue
  BY <1>1, FirstOfDue DEF StillDue, Addressee, Publishing, Facts, IInv
<1>4. r \in DOMAIN clients
  BY <1>2 DEF Connected
<1> HIDE DEF r
<1>5. PICK w \in Procs : w = Addressee
  BY <1>2
<1>6. /\ DOMAIN clients' = DOMAIN clients
      /\ \A k \in DOMAIN clients : /\ clients'[k].connected = clients[k].connected
                                   /\ clients'[k].sockfd = clients[k].sockfd
                                   /\ clients'[k].sent_message
                                        = IF k = r THEN TRUE ELSE clients[k].sent_message
  <2>1. clients[r] \in Slots
    BY <1>4 DEF Facts, IInv, TypeOK
  <2> QED BY <1>1, <1>4, <2>1 DEF Slots
<1>7. ASSUME NEW p
      PROVE  (\E k \in Connected' : conn'[clients'[k].sockfd] = p /\ ~clients'[k].sent_message)
             <=> /\ \E k \in Connected : conn[clients[k].sockfd] = p /\ ~clients[k].sent_message
                 /\ p # w
  BY <1>1, <1>2, <1>5, <1>6 DEF Connected
<1>8. Online' = Online /\ Subscribed' = Subscribed
  <2>1. \A p \in Procs : Registered(p)' <=> Registered(p)
    BY SlotsAfterPublish DEF Facts
  <2> QED BY <1>1, <2>1, OnlineSame, SubscribedSame DEF Facts
<1>9. StillDue' = StillDue \ {w}
  <2> DEFINE topic == published[pub]
  <2>3. PICK about : about = topic
    OBVIOUS
  <2>4. \A p : p \in {conn'[clients'[SlotAt(d)'].sockfd] : d \in Due(about)'} <=>
               /\ \E k \in Connected' :
                    conn'[clients'[k].sockfd] = p /\ ~clients'[k].sent_message
               /\ \E pattern \in Patterns :
                    Matches(about, pattern) /\ <<pattern, IdOf[p]>> \in Subscribed'
    BY DEF DueRight
  <2>5. \A p : p \in {conn[clients[SlotAt(d)].sockfd] : d \in Due(about)} <=>
               /\ \E k \in Connected : conn[clients[k].sockfd] = p /\ ~clients[k].sent_message
               /\ \E pattern \in Patterns :
                    Matches(about, pattern) /\ <<pattern, IdOf[p]>> \in Subscribed
    BY DEF Facts, DueRight
  <2>6. StillDue' = {conn'[clients'[SlotAt(d)'].sockfd] : d \in Due(about)'}
    BY <1>1, <2>3 DEF StillDue
  <2>7. StillDue = {conn[clients[SlotAt(d)].sockfd] : d \in Due(about)}
    BY <1>1, <2>3 DEF StillDue
  <2>8. \A p : p \in StillDue' <=> p \in StillDue /\ p # w
    BY <1>7, <1>8, <2>4, <2>5, <2>6, <2>7
  <2> QED BY <2>8
<1>10. pub = Len(published) /\ pub \in Nat
  BY <1>1 DEF Facts, BoxInv, IInv, TypeOK
<1>11. Boxes' = IF w \in Gone THEN Boxes ELSE [Boxes EXCEPT ![w] = Append(@, Len(published))]
  <2>0. w \in Gone <=> link[w] # "open"
    <3>1. Occurs(w)
      <4>1. clients[Recipient(published[pub])].sockfd \in Fds
        BY <1>1, AddresseeFacts DEF Accepted, Facts
      <4> QED BY <1>5, <4>1 DEF Occurs, Addressee
    <3> QED BY <3>1 DEF Facts, LinkInv, LinkOf, Gone
  <2>1. CASE link[w] # "open"
    BY <1>1, <1>5, <2>0, <2>1, BoxesSame DEF S2CAfterSend
  <2>2. CASE link[w] = "open"
    <3>1. s2c[w] \in Seq(Nat) /\ \A m \in DOMAIN s2c[w] : s2c[w][m] # Error
      BY <2>2 DEF Facts, IInv, TypeOK, BoxInv, BoxOf
    <3>2. /\ s2c'[w] = Append(s2c[w], pub)
          /\ \A p \in Procs : p # w => s2c'[p] = s2c[p]
      BY <1>1, <1>5, <2>2 DEF S2CAfterSend, Facts, IInv, TypeOK
    <3>3. pub # Error
      BY <1>1 DEF Error
    <3>4. Messages(s2c'[w]) = Append(Messages(s2c[w]), pub)
      BY <1>10, <3>1, <3>2, <3>3, MessagesOf
    <3>5. Boxes' = [p \in Procs |-> Messages(s2c'[p])]
      BY DEF Boxes, Messages
    <3>6. Boxes = [p \in Procs |-> Messages(s2c[p])]
      BY DEF Boxes
    <3> HIDE DEF Messages
    <3> QED BY <1>10, <2>0, <2>2, <3>2, <3>4, <3>5, <3>6
  <2> QED BY <2>1, <2>2
<1> QED BY <1>1, <1>3, <1>5, <1>8, <1>9, <1>11, GoneSame DEF Promise!HandTo, Gone

LEMMA ReaderStep ==
  ASSUME Facts, OnlineRight', NEW w \in Procs, SubscriberNext(w), UNCHANGED serverVars
  PROVE  Promise!Read(w) \/ Promise!End(w) \/ UNCHANGED Promise!vars
<1>1. /\ pub' = pub /\ srv' = srv /\ clients' = clients /\ published' = published
      /\ topic_map' = topic_map /\ conn' = conn
  BY DEF serverVars, SubscriberNext, Connect, ConnectFails, Hello, Command, Receive,
     ReceiveRefusal, ServerGone, Quit, Ended, ProcessEnds, sockets
<1>2. \A p \in Procs : Registered(p)' <=> Registered(p)
  BY SlotsAfterSubscriber DEF Facts
<1>3. Online' = Online /\ Subscribed' = Subscribed /\ StillDue' = StillDue
  BY <1>1, <1>2, OnlineSame, SubscribedSame, DueSame DEF Facts
<1>4. Boxes = [p \in Procs |-> Messages(s2c[p])]
      /\ Boxes' = [p \in Procs |-> Messages(s2c'[p])]
  BY DEF Boxes, Messages
<1>5. CASE Connect(w) \/ Hello(w) \/ Command(w)
  <2>1. s2c' = s2c
    BY <1>5 DEF Connect, Hello, Command
  <2>2. Gone' = Gone
    BY <1>5 DEF Connect, Hello, Command, Becomes, Gone, Facts, IInv, TypeOK
  <2> QED BY <1>1, <1>3, <2>1, <2>2, BoxesSame, Stutters
<1>6. CASE Receive(w)
  <2>1. s2c[w] \in Seq(Nat) /\ s2c[w] # <<>> /\ Head(s2c[w]) # Error
    BY <1>6 DEF Receive, Facts, IInv, TypeOK
  <2>2. s2c'[w] = Tail(s2c[w]) /\ \A p \in Procs : p # w => s2c'[p] = s2c[p]
    BY <1>6 DEF Receive, Facts, IInv, TypeOK
  <2>3. Messages(s2c[w]) # <<>> /\ Messages(s2c'[w]) = Tail(Messages(s2c[w]))
    BY <2>1, <2>2, MessagesOfTail
  <2>4. Boxes[w] # <<>> /\ Boxes' = [Boxes EXCEPT ![w] = Tail(@)]
    BY <1>4, <2>2, <2>3
  <2>5. Gone' = Gone
    BY <1>6, GoneSame DEF Receive
  <2> QED BY <1>1, <1>3, <2>4, <2>5 DEF Promise!Read, Gone
<1>7. CASE ConnectFails(w) \/ (Ended(w) /\ sub[w] # "exited")
  <2>1. s2c'[w] = <<>> /\ \A p \in Procs : p # w => s2c'[p] = s2c[p]
    <3>1. CASE ConnectFails(w)
      BY <3>1 DEF ConnectFails, sockets, Facts, BoxInv, BoxOf
    <3>2. CASE Ended(w)
      BY <3>2 DEF Ended, ProcessEnds, Facts, IInv, TypeOK
    <3> QED BY <1>7, <3>1, <3>2
  <2>2. Messages(s2c'[w]) = <<>>
    BY <2>1 DEF Messages
  <2>3. Boxes' = [Boxes EXCEPT ![w] = <<>>]
    BY <1>4, <2>1, <2>2
  <2>4. w \notin Gone /\ Gone' = Gone \cup {w}
    BY <1>7 DEF ConnectFails, Ended, Becomes, Gone, Facts, IInv, TypeOK
  <2> QED BY <1>1, <1>3, <2>3, <2>4 DEF Promise!End, Gone
<1>8. ReceiveRefusal(w) \/ ServerGone(w) \/ Quit(w) => Ended(w) /\ sub[w] # "exited"
  BY DEF ReceiveRefusal, ServerGone, Quit
<1> QED BY <1>5, <1>6, <1>7, <1>8 DEF SubscriberNext

LEMMA PromiseStep ==
  ASSUME Facts, OnlineRight', DueRight', IdsFit, [Next]_vars
  PROVE  [Promise!Next]_(Promise!vars)
<1>1. CASE ServerStep
  <2>0. sub' = sub
    BY <1>1 DEF ServerStep, subscriberVars
  <2>1. CASE Poll \/ AcceptConnection \/ PublishEnd \/ OtherLine \/ ConnectRefused
    BY <2>0, <2>1, ScanIsSilent, WaitingIsSilent, RefusalIsSilent
  <2>2. CASE PublishBegin
    BY <2>0, <2>2, PublishStep DEF Promise!Next
  <2>3. CASE PublishSend
    BY <2>0, <2>3, HandStep DEF Promise!Next
  <2>4. CASE PublishKilled \/ ExitCommand \/ ReceiveError
    BY <2>0, <2>4, StopStep DEF Promise!Next
  <2>5. CASE Disconnect
    BY <2>0, <2>5, LeaveStep DEF Promise!Next
  <2>6. CASE SubscribeCommand \/ UnsubscribeCommand
    BY <2>0, <2>6, CommandStep DEF Promise!Next
  <2>7. CASE ConnectNew
    BY <2>0, <2>7, JoinStep DEF Promise!Next
  <2> QED BY <1>1, <2>1, <2>2, <2>3, <2>4, <2>5, <2>6, <2>7 DEF ServerStep, ServerNext
<1>2. CASE SubscriberStep
  BY <1>2, ReaderStep DEF SubscriberStep, Promise!Next
<1>3. CASE Datagram \/ TypeLine \/ UNCHANGED vars
  <2>1. sub' = sub
    BY <1>3 DEF Datagram, TypeLine, vars, subscriberVars
  <2> QED BY <1>3, <2>1, WaitingIsSilent
<1> QED BY <1>1, <1>2, <1>3 DEF Next

LEMMA PromiseInit == Init => Promise!Init
<1> SUFFICES ASSUME Init PROVE Promise!Init
  OBVIOUS
<1>1. /\ srv = "up" /\ clients = <<>> /\ topic_map = <<>> /\ published = <<>> /\ pub = 0
      /\ s2c = [p \in Procs |-> <<>>]
  BY DEF Init, ServerInit
<1>2. (srv = "up") = TRUE
  BY <1>1
<1>3. Online = [id \in Ids |-> NoProc]
  <2>1. \A id : find_client_by_id(id) = 0
    BY <1>1 DEF find_client_by_id, Least
  <2> QED BY <2>1 DEF Online, IsConnected
<1>4. Subscribed = {} /\ StillDue = {}
  BY <1>1 DEF Subscribed, StillDue
<1>5. Boxes = [p \in Procs |-> <<>>]
  <2>1. Messages(<<>>) = <<>>
    BY DEF Messages
  <2>2. Boxes = [p \in Procs |-> Messages(s2c[p])]
    BY DEF Boxes
  <2>3. \A p \in Procs : Messages(s2c[p]) = <<>>
    BY <1>1, <2>1
  <2> QED BY <2>2, <2>3
<1>6. Len(published) = 0
  BY <1>1
<1>7. Gone = {}
  BY DEF Init, SubscriberInit, Gone
<1> QED BY <1>2, <1>3, <1>4, <1>5, <1>6, <1>7 DEF Promise!Init, Gone

\* The broker is the abstract one of Broker.tla seen through its tables and sockets:
\* each published message goes once, whatever patterns overlap, to each connected
\* process whose id subscribes to it and to nobody else, is lost only to a process
\* that has already ended, which the broker has yet to notice, and subscriptions
\* outlive connections, provided that ids fit in MAX_ID_LEN.
THEOREM BrokerKeepsPromise ==
  ASSUME IdsFit PROVE Spec => KeepsPromise
<1>1. IInv => OnlineRight /\ DueRight
  BY OnlineIsRegistered, WhoIsDue
<1>2. IInv /\ SubscriptionsSound /\ BoxInv /\ LinkInv /\ IInv' /\ [Next]_vars
        => [Promise!Next]_(Promise!vars)
  <2>1. (IInv => OnlineRight /\ DueRight)'
    BY <1>1, PTL
  <2> QED BY <1>1, <2>1, PromiseStep DEF Facts
<1> QED BY <1>2, PromiseInit, Invariance, SubscriptionsStaySound, BoxInvariance, LinkInvariance,
           PTL DEF Spec, KeepsPromise, Promise!Spec
=============================================================================
