------------------------------- MODULE Server -------------------------------
(***************************************************************************)
(* The broker, run_chat_multi_server of Tema_2/server.c: one thread that   *)
(* polls its descriptors and then scans the array once, handling one       *)
(* packet, datagram, line or connection per ready entry.                   *)
(*                                                                         *)
(* The array changes while it is scanned.  accept() appends an entry whose *)
(* revents nobody set; closing a connection moves the later entries down   *)
(* while the loop still steps to the next index.  A handler therefore ends *)
(* by moving to the next ready entry of the array as it has become.        *)
(***************************************************************************)
EXTENDS Registry, Sockets

CONSTANT Topics   \* what publishers publish on

VARIABLES
  poll_fds,   \* the descriptors polled, in order
  ready,      \* those with revents & POLLIN that this scan has not handled
  i,          \* the entry being handled, 0 while the broker is in poll()
  pub,        \* the number of the datagram being published, 0 if none
  published,  \* the topics of the datagrams received so far, in order
  udp,        \* topics of the datagrams waiting in the UDP socket
  typed       \* lines typed on the broker's terminal, not read yet

serverVars == <<srv, poll_fds, ready, i, pub, published, udp, typed,
                clients, topic_map>>

tables == <<clients, topic_map>>
inputs == <<udp, typed>>

-----------------------------------------------------------------------------
(* poll() and the scan. *)

HasInput(fd) ==
  CASE fd = TcpFd   -> backlog # <<>>
    [] fd = UdpFd   -> udp # <<>>
    [] fd = StdinFd -> typed # <<>>
    [] OTHER        -> Readable(conn[fd])

\* The next entry the scan stops at, from the given index on; 0 when the scan
\* is over and poll() is called again.
NextReady(entries, flagged, from) ==
  Least({k \in DOMAIN entries : k >= from /\ entries[k] \in flagged})

ServerInit ==
  /\ srv = "up"
  /\ poll_fds = <<TcpFd, UdpFd, StdinFd>>
  /\ ready = {}
  /\ i = 0 /\ pub = 0
  /\ published = <<>>
  /\ udp = <<>> /\ typed = <<>>
  /\ clients = <<>> /\ topic_map = <<>>

\* poll() returns once something is readable, and sets every revents.
Poll ==
  /\ srv = "up" /\ i = 0
  /\ ready' = {fd \in Elems(poll_fds) : HasInput(fd)}
  /\ ready' # {}
  /\ i' = NextReady(poll_fds, ready', 1)
  /\ UNCHANGED <<srv, poll_fds, pub, published, inputs, tables, sockets>>

\* The scan stands at an entry and no publish() is running.
Handling == srv = "up" /\ i # 0 /\ pub = 0

\* The handler of entry i leaves the array as given, some of it flagged, and the
\* loop goes on with the entry after index i.
ScanOn(entries, flagged) ==
  /\ poll_fds' = entries
  /\ ready' = flagged \ {poll_fds[i]}
  /\ i' = NextReady(entries, ready', i + 1)

\* The process ends and its memory with it: "exited" is the return of
\* run_chat_multi_server, "died" is DIE or SIGPIPE.
Ends(how) ==
  /\ BrokerEnds(how)
  /\ poll_fds' = <<>> /\ ready' = {} /\ i' = 0 /\ pub' = 0
  /\ clients' = <<>> /\ topic_map' = <<>>
  /\ udp' = <<>> /\ typed' = <<>>
  /\ UNCHANGED published

-----------------------------------------------------------------------------
(* The listening socket: the new entry's revents is whatever the array held. *)

AcceptConnection ==
  /\ Handling /\ poll_fds[i] = TcpFd
  /\ \E fd \in Fds :
       /\ Accept(fd)
       /\ \E revents \in {{}, {fd}} : ScanOn(Append(poll_fds, fd), ready \cup revents)
  /\ UNCHANGED <<srv, pub, published, inputs, tables>>

-----------------------------------------------------------------------------
(* The UDP socket: publish() sends the datagram to one client after another. *)

PublishBegin ==
  /\ Handling /\ poll_fds[i] = UdpFd
  /\ udp # <<>>
  /\ published' = Append(published, Head(udp))
  /\ pub' = Len(published')
  /\ udp' = Tail(udp)
  /\ clients' = FlagsCleared
  /\ UNCHANGED <<srv, poll_fds, ready, i, typed, topic_map, sockets>>

Publishing == srv = "up" /\ pub # 0 /\ Due(published[pub]) # {}

\* The process at the other end of the client the loops have reached.
Addressee == conn[clients[Recipient(published[pub])].sockfd]

\* Mutant: nobody looks at the flag, so that a copy goes out for each entry of the
\* same client that matches.
PublishSendEachEntry ==
  /\ Publishing
  /\ SendReturns(Addressee) /\ ~SendKills(Addressee)
  /\ clients' = [clients EXCEPT ![Recipient(published[pub])].sent_message = TRUE]
  /\ s2c' = LET copies == {d \in Due(published[pub]) : SlotAt(d) = Recipient(published[pub])}
            IN  IF link[Addressee] = "open"
                THEN [s2c EXCEPT ![Addressee] = @ \o [n \in 1 .. Cardinality(copies) |-> pub]]
                ELSE s2c
  /\ link' = LinkAfterSend(Addressee)
  /\ UNCHANGED <<srv, poll_fds, ready, i, pub, published, inputs,
                 topic_map, backlog, conn, c2s>>

\* send_all, whose result publish() ignores.
PublishSend ==
  /\ Publishing
  /\ SendReturns(Addressee) /\ ~SendKills(Addressee)
  /\ clients' = [clients EXCEPT ![Recipient(published[pub])].sent_message = TRUE]
  /\ s2c' = S2CAfterSend(Addressee, pub)
  /\ link' = LinkAfterSend(Addressee)
  /\ UNCHANGED <<srv, poll_fds, ready, i, pub, published, inputs,
                 topic_map, backlog, conn, c2s>>

\* The second send to a client that is gone: SIGPIPE, which nothing catches.
PublishKilled == Publishing /\ SendKills(Addressee) /\ Ends("died")

PublishEnd ==
  /\ srv = "up" /\ pub # 0
  /\ Due(published[pub]) = {}
  /\ pub' = 0
  /\ ScanOn(poll_fds, ready)
  /\ UNCHANGED <<srv, published, inputs, tables, sockets>>

-----------------------------------------------------------------------------
(* The terminal: one read takes all that is typed, only its first line counts. *)

AtTerminal == Handling /\ poll_fds[i] = StdinFd /\ typed # <<>>

ExitCommand == AtTerminal /\ Head(typed) = "exit" /\ Ends("exited")

OtherLine ==
  /\ AtTerminal /\ Head(typed) # "exit"
  /\ typed' = <<>>
  /\ ScanOn(poll_fds, ready)
  /\ UNCHANGED <<srv, pub, published, udp, tables, sockets>>

-----------------------------------------------------------------------------
(* A client's descriptor.  recv_all waits for a whole packet, the end or an *)
(* error, so a stale revents with nothing to read stops the broker here.    *)

AtClient == Handling /\ poll_fds[i] \notin {TcpFd, UdpFd, StdinFd}

fd_i == poll_fds[i]
peer == conn[fd_i]
packet == Head(c2s[peer])

\* The later entries move down by one, and the scan steps over the first of them.
RemoveEntry == ScanOn(Without(poll_fds, i), ready)

ReceiveError == AtClient /\ RecvGivesError(peer) /\ Ends("died")

\* Mutant: the descriptor leaves the array but is not closed.
DisconnectUnclosed ==
  /\ AtClient /\ RecvGivesEnd(peer)
  /\ clients' = Disconnected(fd_i)
  /\ RemoveEntry
  /\ UNCHANGED <<srv, pub, published, inputs, topic_map, sockets>>

Disconnect ==
  /\ AtClient /\ RecvGivesEnd(peer)
  /\ clients' = Disconnected(fd_i)
  /\ ClosedBy(fd_i)
  /\ RemoveEntry
  /\ UNCHANGED <<srv, pub, published, inputs, topic_map, backlog, s2c>>

Receiving(command) == AtClient /\ c2s[peer] # <<>> /\ packet.command = command

PacketTaken ==
  /\ c2s' = [c2s EXCEPT ![peer] = Tail(@)]
  /\ ScanOn(poll_fds, ready)
  /\ UNCHANGED <<srv, pub, published, inputs, backlog, conn, link, s2c>>

\* The id a command is about: clients[find_client_by_fd(fd)].id.
SenderId == clients[find_client_by_fd(fd_i)].id

SubscribeCommand ==
  /\ Receiving("subscribe")
  /\ topic_map' = subscribe(packet.topic, SenderId)
  /\ PacketTaken
  /\ UNCHANGED clients

UnsubscribeCommand ==
  /\ Receiving("unsubscribe")
  /\ topic_map' = unsubscribe(packet.topic, SenderId)
  /\ PacketTaken
  /\ UNCHANGED clients

ConnectNew ==
  /\ Receiving("connect")
  /\ ~IsConnected(packet.topic)
  /\ clients' = add_or_reconnect_client(packet.topic, fd_i)
  /\ PacketTaken
  /\ UNCHANGED topic_map

\* The id is taken: an error packet, and the connection is closed.
ConnectRefused ==
  /\ Receiving("connect")
  /\ IsConnected(packet.topic)
  /\ SendReturns(peer)
  /\ s2c' = S2CAfterSend(peer, Error)
  /\ ClosedBy(fd_i)
  /\ RemoveEntry
  /\ UNCHANGED <<srv, pub, published, inputs, tables, backlog>>

ServerNext ==
  \/ Poll \/ AcceptConnection
  \/ PublishBegin \/ PublishSend \/ PublishKilled \/ PublishEnd
  \/ ExitCommand \/ OtherLine
  \/ ReceiveError \/ Disconnect
  \/ SubscribeCommand \/ UnsubscribeCommand \/ ConnectNew \/ ConnectRefused
=============================================================================
