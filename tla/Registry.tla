------------------------------ MODULE Registry ------------------------------
(***************************************************************************)
(* The broker's two tables and the functions of Tema_2/utils.c on them:    *)
(* clients[], one slot for ever per client id, and topic_map[], one entry  *)
(* for ever per pattern, with the ids subscribed to it.                    *)
(*                                                                         *)
(* Tables are sequences, so C's index n is n + 1 here and C's -1 is 0.     *)
(***************************************************************************)
EXTENDS TopicStrings, Integers

CONSTANTS
  Ids,       \* client ids, as typed on the subscriber's command line
  Stored     \* Stored[id]: what strncpy(..., MAX_ID_LEN) keeps of an id

ASSUME StoredAssumption ==
  /\ Stored \in [Ids -> Ids]
  /\ \A id \in Ids : Stored[Stored[id]] = Stored[id]

VARIABLES
  clients,   \* [id, sockfd, connected, sent_message] per slot
  topic_map  \* [topic, subscribers] per entry

NoFd == -1

\* The least element of a set of indices, 0 if there is none: what a search
\* loop that returns at the first hit computes.
Least(K) == IF K = {} THEN 0 ELSE CHOOSE k \in K : \A m \in K : k <= m

\* Mutant: the shift starts one entry too late.
WithoutNext(s, k) ==
  [m \in 1 .. Len(s) - 1 |-> IF m <= k THEN s[m] ELSE s[m + 1]]

\* The sequence without its k-th element, the later ones moved down by one.
Without(s, k) ==
  [m \in 1 .. Len(s) - 1 |-> IF m < k THEN s[m] ELSE s[m + 1]]

\* The elements of a sequence.
Elems(s) == {s[k] : k \in DOMAIN s}

-----------------------------------------------------------------------------
(* clients[] *)

\* Mutant: the search starts at the second slot.
find_client_by_id_second(id) ==
  Least({k \in DOMAIN clients : k > 1 /\ clients[k].id = id})

find_client_by_id(id) == Least({k \in DOMAIN clients : clients[k].id = id})

find_client_by_fd(fd) == Least({k \in DOMAIN clients : clients[k].sockfd = fd})

\* find_client_by_id and the connected test of add_or_reconnect_client.
IsConnected(id) ==
  find_client_by_id(id) # 0 /\ clients[find_client_by_id(id)].connected

\* Mutant: a slot that is used again is not marked connected.
ReconnectUnmarked(id, new_fd) ==
  LET k == find_client_by_id(id)
  IN  IF k # 0
      THEN [clients EXCEPT ![k].sockfd = new_fd]
      ELSE Append(clients, [id |-> Stored[id], sockfd |-> new_fd,
                            connected |-> TRUE, sent_message |-> FALSE])

\* add_or_reconnect_client for an id that is not connected: its slot again, or
\* a new one.
add_or_reconnect_client(id, new_fd) ==
  LET k == find_client_by_id(id)
  IN  IF k # 0
      THEN [clients EXCEPT ![k].sockfd = new_fd, ![k].connected = TRUE]
      ELSE Append(clients, [id |-> Stored[id], sockfd |-> new_fd,
                            connected |-> TRUE, sent_message |-> FALSE])

\* Mutants: the slot is left as it was; only connected is reset; sockfd is zeroed.
DisconnectedNot(fd) == clients
DisconnectedKeepsFd(fd) ==
  LET k == find_client_by_fd(fd)
  IN  IF k = 0 THEN clients ELSE [clients EXCEPT ![k].connected = FALSE]
DisconnectedZero(fd) ==
  LET k == find_client_by_fd(fd)
  IN  IF k = 0 THEN clients
      ELSE [clients EXCEPT ![k].sockfd = 0, ![k].connected = FALSE]

\* The end of a connection.  One that never got a slot writes clients[-1], which
\* C leaves undefined: as the Makefile builds the broker the two fields fall on
\* padding before the table, and the model has that outcome, no slot changed.
Disconnected(fd) ==
  LET k == find_client_by_fd(fd)
  IN  IF k = 0 THEN clients
      ELSE [clients EXCEPT ![k].sockfd = NoFd, ![k].connected = FALSE]

-----------------------------------------------------------------------------
(* topic_map[] *)

find_topic_index(topic) ==
  Least({t \in DOMAIN topic_map : topic_map[t].topic = topic})

\* topic_map once subscribe() has found or appended the entry of the pattern.
WithEntry(topic) ==
  IF find_topic_index(topic) # 0 THEN topic_map
  ELSE Append(topic_map, [topic |-> topic, subscribers |-> <<>>])

EntryFor(topic) ==
  IF find_topic_index(topic) # 0 THEN find_topic_index(topic)
  ELSE Len(topic_map) + 1

\* Mutant: nobody looks whether the id is subscribed already.
subscribe_again(topic, id) ==
  [WithEntry(topic) EXCEPT ![EntryFor(topic)].subscribers = Append(@, id)]

subscribe(topic, id) ==
  LET t == EntryFor(topic)
      subscribers == WithEntry(topic)[t].subscribers
  IN  IF id \in Elems(subscribers) THEN topic_map
      ELSE [WithEntry(topic) EXCEPT ![t].subscribers = Append(subscribers, id)]

\* Mutant: only the count is decremented.
DropLast(subscribers, j) == SubSeq(subscribers, 1, Len(subscribers) - 1)

\* The last subscriber takes the place of the one that leaves.
SwapOut(subscribers, j) ==
  [m \in 1 .. Len(subscribers) - 1 |->
     IF m = j THEN subscribers[Len(subscribers)] ELSE subscribers[m]]

unsubscribe(topic, id) ==
  LET t == find_topic_index(topic)
  IN  IF t = 0 THEN topic_map
      ELSE LET subscribers == topic_map[t].subscribers
               j == Least({m \in DOMAIN subscribers : subscribers[m] = id})
           IN  IF j = 0 THEN topic_map
               ELSE [topic_map EXCEPT ![t].subscribers = SwapOut(subscribers, j)]

-----------------------------------------------------------------------------
(* publish() *)

\* Mutant: the flags are not cleared.
FlagsKept == clients

\* Every sent_message flag cleared, before the loops.
FlagsCleared == [k \in DOMAIN clients |-> [clients[k] EXCEPT !.sent_message = FALSE]]

\* Mutant: the inner loop stops at the first subscriber.
PositionsFirst ==
  {d \in (DOMAIN topic_map) \X {1} : topic_map[d[1]].subscribers # <<>>}

\* The positions the two loops of publish() go through.
Positions ==
  UNION {{t} \X DOMAIN topic_map[t].subscribers : t \in DOMAIN topic_map}

SlotAt(d) == find_client_by_id(topic_map[d[1]].subscribers[d[2]])

\* Those where they still have a message to send.
Due(topic) ==
  {d \in Positions :
     /\ Matches(topic, topic_map[d[1]].topic)
     /\ SlotAt(d) # 0
     /\ clients[SlotAt(d)].connected
     /\ ~clients[SlotAt(d)].sent_message}

\* The slot the loops reach first.
Recipient(topic) ==
  SlotAt(CHOOSE d \in Due(topic) :
           \A e \in Due(topic) : d[1] < e[1] \/ (d[1] = e[1] /\ d[2] <= e[2]))
=============================================================================
