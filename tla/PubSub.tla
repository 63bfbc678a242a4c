------------------------------- MODULE PubSub -------------------------------
(***************************************************************************)
(* Tema_2 as a whole: the broker, its subscribers, the publishers that     *)
(* write to the UDP socket and the operator at the broker's terminal.      *)
(***************************************************************************)
EXTENDS Server, Subscriber

CONSTANTS
  MaxPub,     \* bound: datagrams published in a behaviour
  MaxTyped    \* bound: lines waiting at the broker's terminal

ASSUME PubSubAssumption ==
  /\ IdOf \in [Procs -> Ids]
  /\ MaxPub \in Nat /\ MaxTyped \in Nat /\ MaxCommands \in [Procs -> Nat]

vars == <<serverVars, sockets, subscriberVars>>

Init ==
  /\ ServerInit /\ SubscriberInit
  /\ backlog = <<>>
  /\ conn = [fd \in Fds |-> NoProc]
  /\ link = [p \in Procs |-> "none"]
  /\ c2s = [p \in Procs |-> <<>>]
  /\ s2c = [p \in Procs |-> <<>>]

\* A publisher's datagram reaches the broker's socket.
Datagram ==
  /\ srv = "up"
  /\ Len(published) + Len(udp) < MaxPub
  /\ \E topic \in Topics : udp' = Append(udp, topic)
  /\ UNCHANGED <<srv, poll_fds, ready, i, pub, published, typed, tables,
                 sockets, subscriberVars>>

\* The operator types a line.
TypeLine ==
  /\ srv = "up"
  /\ Len(typed) < MaxTyped
  /\ \E line \in {"exit", "other"} : typed' = Append(typed, line)
  /\ UNCHANGED <<srv, poll_fds, ready, i, pub, published, udp, tables,
                 sockets, subscriberVars>>

ServerStep == ServerNext /\ UNCHANGED subscriberVars
SubscriberStep == (\E p \in Procs : SubscriberNext(p)) /\ UNCHANGED serverVars

Next == ServerStep \/ SubscriberStep \/ Datagram \/ TypeLine

Spec == Init /\ [][Next]_vars

\* The broker is scheduled whenever it can take a step; a subscriber that runs
\* sends its hello and reads what arrives.  Users, operators and publishers owe
\* nothing.
Fairness ==
  /\ WF_vars(ServerStep)
  /\ \A p \in Procs :
       WF_vars((Hello(p) \/ Receive(p) \/ ReceiveRefusal(p) \/ ServerGone(p))
               /\ UNCHANGED serverVars)

FairSpec == Spec /\ Fairness

-----------------------------------------------------------------------------
Packets == [command : {"connect"}, topic : Ids]
             \cup [command : {"subscribe", "unsubscribe"}, topic : Patterns]
Slots == [id : Ids, sockfd : Fds \cup {NoFd},
          connected : BOOLEAN, sent_message : BOOLEAN]
Entries == [topic : Patterns, subscribers : Seq(Ids)]
Descriptors == Fds \cup {TcpFd, UdpFd, StdinFd}

TypeOK ==
  /\ srv \in {"up", "exited", "died"}
  /\ poll_fds \in Seq(Descriptors)
  /\ ready \subseteq Descriptors
  /\ i \in 0 .. Len(poll_fds)
  /\ published \in Seq(Topics)
  /\ pub \in 0 .. Len(published)
  /\ udp \in Seq(Topics)
  /\ typed \in Seq({"exit", "other"})
  /\ clients \in Seq(Slots)
  /\ topic_map \in Seq(Entries)
  /\ backlog \in Seq(Procs)
  /\ conn \in [Fds -> Procs \cup {NoProc}]
  /\ link \in [Procs -> {"none", "open", "fin", "reset", "dead", "closed"}]
  /\ c2s \in [Procs -> Seq(Packets)]
  /\ s2c \in [Procs -> Seq(Nat)]
  /\ sub \in [Procs -> {"idle", "connected", "running", "exited"}]
  /\ last \in [Procs -> Nat]
  /\ given \in [Procs -> Nat] /\ \A p \in Procs : given[p] <= MaxCommands[p]

-----------------------------------------------------------------------------
(* The broker's tables against the sockets. *)

Accepted == {fd \in Fds : conn[fd] # NoProc}
Connected == {k \in DOMAIN clients : clients[k].connected}
Registered(p) == \E k \in Connected : conn[clients[k].sockfd] = p

\* poll_fds holds the three fixed descriptors and then every open client
\* descriptor exactly once, through any order of accepts, closes and shifts in
\* the middle of a scan (server.c run_chat_multi_server).
PollTableExact ==
  srv = "up" =>
    /\ Len(poll_fds) >= 3
    /\ poll_fds[1] = TcpFd /\ poll_fds[2] = UdpFd /\ poll_fds[3] = StdinFd
    /\ {poll_fds[k] : k \in 4 .. Len(poll_fds)} = Accepted
    /\ \A k, l \in DOMAIN poll_fds : poll_fds[k] = poll_fds[l] => k = l

\* A connected slot names an open descriptor, no other slot names it, and the
\* process behind it introduced itself with the slot's id; a slot that is not
\* connected names none.  Descriptor numbers are reused by accept(), so a slot
\* left behind would speak for a stranger (server.c, utils.c clients[]).
SlotsFollowSockets ==
  srv = "up" =>
    /\ \A k \in DOMAIN clients : clients[k].sockfd = NoFd <=> k \notin Connected
    /\ \A k \in Connected :
         /\ clients[k].sockfd \in Accepted
         /\ Stored[IdOf[conn[clients[k].sockfd]]] = clients[k].id
         /\ \A l \in Connected : clients[l].sockfd = clients[k].sockfd => l = k

\* Two processes are never registered under one id at a time: "the server
\* doesn't accept two subscribers with the same ID" (test.py run_test_same_id).
OneConnectionPerId ==
  srv = "up" => \A p, q \in Procs :
    Registered(p) /\ Registered(q) /\ IdOf[p] = IdOf[q] => p = q

\* A command always finds the slot of the process that sent it: the unchecked
\* find_client_by_fd of the subscribe and unsubscribe branches never gives -1
\* nor the slot of an earlier owner of the descriptor.
CommandsAreOwned ==
  Receiving("subscribe") \/ Receiving("unsubscribe") =>
    find_client_by_fd(fd_i) # 0 /\ SenderId = Stored[IdOf[peer]]

\* One entry per pattern, no id twice in an entry, and only ids that have a
\* slot: so subscribers[32] cannot overflow before clients[32] does.
SubscriptionsSound ==
  /\ \A t, u \in DOMAIN topic_map : topic_map[t].topic = topic_map[u].topic => t = u
  /\ \A t \in DOMAIN topic_map :
       LET subscribers == topic_map[t].subscribers
       IN  /\ \A j, m \in DOMAIN subscribers : subscribers[j] = subscribers[m] => j = m
           /\ Elems(subscribers) \subseteq {clients[k].id : k \in DOMAIN clients}

\* What is on the way to a process is newer than what it printed, and in the
\* order of publication with nothing twice, whatever patterns overlap
\* (sent_message in utils.c publish, run_test_c2_subscribe_wildcard_set_inclusion).
InOrderOnce ==
  \A p \in Procs : \A m, n \in DOMAIN s2c[p] :
    s2c[p][m] # Error =>
      /\ last[p] < s2c[p][m]
      /\ m < n /\ s2c[p][n] # Error => s2c[p][m] < s2c[p][n]

\* A step changes at most the subscription that the packet being handled names,
\* and only for the id of the process that sent it: the swap with the last
\* subscriber touches nobody else, nor does a disconnection (utils.c).
\* Only the end of the broker's process loses subscriptions.
Subscribed == UNION {{topic_map[t].topic} \X Elems(topic_map[t].subscribers) :
                       t \in DOMAIN topic_map}

OnlyOwnSubscription ==
  [][srv' = "up" =>
       \A change \in (Subscribed \ Subscribed') \cup (Subscribed' \ Subscribed) :
         /\ AtClient /\ c2s[peer] # <<>>
         /\ change = <<packet.topic, Stored[IdOf[peer]]>>]_vars

-----------------------------------------------------------------------------
(* The abstract broker, seen through the tables. *)

Online ==
  [id \in Ids |-> IF IsConnected(id) THEN conn[clients[find_client_by_id(id)].sockfd] ELSE NoProc]

StillDue ==
  IF pub = 0 THEN {} ELSE {conn[clients[SlotAt(d)].sockfd] : d \in Due(published[pub])}

\* A refusal is the last packet of its connection; the others are messages.
Messages(packets) ==
  IF packets # <<>> /\ packets[Len(packets)] = Error
  THEN SubSeq(packets, 1, Len(packets) - 1)
  ELSE packets

Boxes == [p \in Procs |-> Messages(s2c[p])]

Promise == INSTANCE Broker WITH
  MatchesPattern <- Matches,
  alive  <- srv = "up",
  online <- Online,
  subs   <- Subscribed,
  count  <- Len(published),
  due    <- StillDue,
  box    <- Boxes,
  ended  <- {p \in Procs : sub[p] = "exited"}

\* Through sockets, loops and tables the broker keeps its promise (Broker.tla): each
\* message reaches every connected process whose id subscribes, once and in order,
\* whatever patterns overlap and whoever reconnects, and is lost only to one that
\* has ended and whose end is still unread (server.c, utils.c publish).
KeepsPromise == Promise!Spec

-----------------------------------------------------------------------------
(* Progress. *)

\* The broker waits for a client to read that is itself waiting for the broker.
MutualWait == Publishing /\ ~SendReturns(Addressee) /\ Blocked(Addressee)

\* Every scan of the array ends and poll() is called again: no handler blocks for
\* ever, not even recv_all on an entry whose revents nobody set, nor a send to a
\* client that is slow to read.  The one exception is a wait for each other that
\* neither side ever leaves (server.c 80-197, common.c 32-51).
ScansEnd == i # 0 ~> i = 0 \/ []MutualWait

\* A process that connected and stays gets its slot or its refusal.
HelloAnswered ==
  \A p \in Procs :
    sub[p] = "running" ~>
      Registered(p) \/ sub[p] = "exited" \/ srv # "up" \/ MutualWait

\* The connection of a process that ended is closed, its slot freed.
EndedAreReaped ==
  \A p \in Procs :
    sub[p] = "exited" ~>
      p \notin {conn[fd] : fd \in Fds} \/ srv # "up" \/ MutualWait

\* Once the broker has stopped, every subscriber that connected ends
\* (run_test_server_stop in test.py).
StopReachesAll ==
  srv # "up" ~> \A p \in Procs : sub[p] \in {"idle", "exited"}

-----------------------------------------------------------------------------
(* What the documents and tests say and the code does not keep. *)

\* "The server handles unexpected disconnections of clients and cleans up the
\* resources tied to them" (readme.txt): no client's end makes the broker DIE on
\* recv or takes it down with SIGPIPE in send.
BrokerSurvives == srv # "died"
=============================================================================
