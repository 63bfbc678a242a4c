# TLA+ models of TEME_PCOM

The repository holds three programs written in C for a networking course:

* **Tema_1**, a software IP router: longest-prefix lookup in a trie, ICMP, ARP and a
  queue of packets that wait for a MAC address;
* **Tema_2**, a publish/subscribe broker: publishers send UDP datagrams, subscribers
  connect over TCP with an id and subscribe to topics with wildcards;
* **Tema_3**, an interactive HTTP client of a movie library: logins with a cookie, an
  access token, and commands that each open a connection.

The three do not talk to each other. Each is modelled on its own, with its environment.

## 1. Inventory

### Tema_1: the router

| part | state | operations | what makes it correct |
|---|---|---|---|
| trie (`router.c` 40-87) | nodes with two children and a copy of a row | `insert_route`, `rtable_to_trie`, `get_best_route` | a route that is found is the longest that covers the address |
| forwarding loop (`router.c` 157-431) | `arp_table`, the queue, `queue_len` | one frame at a time: drop, echo, unreachable, time exceeded, hold, forward, answer an ARP request, handle an ARP reply | every frame has exactly one fate; a frame leaves for the MAC last heard for its hop; the two length counters agree with the queue |
| queue (`lib/queue.c`, `lib/list.c`) | a linked list with head and tail | `queue_enq`, `queue_deq` | the cells from head to tail are the waiting packets in order; none is leaked; never dequeued when empty |
| checksum (`lib/lib.c` 182-199) | none | `checksum` | what the router writes passes the check it makes itself |
| link layer (`lib/lib.c`) | one raw socket per interface | `recv_from_any_link`, `send_to_link`, `read_rtable` | external I/O |

One thread. What is hard is the order of frames: a reply may be lost, repeated or come
unasked; a MAC may be learnt from a packet's source while other packets wait for it, or
overwritten by one that came the wrong way round; the loop over the queue rotates the packets that wait for other hops. Frames held back are
sent with the `len` of the frame that released them, and `tail` dangles while the list is
empty.

### Tema_2: the broker and its subscribers

| part | state | operations | what makes it correct |
|---|---|---|---|
| topic matching (`utils.c` 24-55) | two token cursors | `check_topic_regexp` | it decides what the wildcards mean |
| tables (`utils.c`) | `clients[]` (slots for ever), `topic_map[]` (entries for ever) | `add_or_reconnect_client`, `find_*`, `subscribe`, `unsubscribe`, `publish` | a slot names the connection of its own id; subscriptions change only by their owner's command; a datagram reaches a client once |
| loop (`server.c` 52-200) | `poll_fds[]`, its `revents`, the scan index | accept, datagram, terminal, packet, end of a connection | the array holds each open descriptor once although it changes under the scan; every scan ends |
| sockets (`common.c`, kernel) | backlog, connections, buffers | `recv_all`, `send_all`, accept, close | a packet arrives whole or not at all |
| subscriber (`subscriber.c`) | its connection | hello, subscribe, unsubscribe, print, exit | it ends when the broker ends or refuses it |

The broker is one thread and its clients are processes that start, send, stop reading and
end at any time. What is hard: `revents` that nobody set, entries that are skipped when
the array moves, descriptor numbers that come back, ends that are a FIN or a reset
depending on what was unread, sends that block or raise SIGPIPE, and hellos that overtake
the end of an older connection.

### Tema_3: the client

| part | state | operations | what makes it correct |
|---|---|---|---|
| command loop (`client.c`) | `cookies`, `acces_token`, their flags and blocks, the connection | 19 commands and `exit` | flags tell the truth about the memory; client and server agree about the session; the token belongs to the cookie; a success is a success |
| receiving (`helpers.c` 73-126, `buffer.c`) | the growing buffer, `header_end`, `content_length` | two loops of `read` | a reply is returned whole unless the server closed early, and the call returns |
| requests (`requests.c`) | none | `compute_get_request`, `compute_post_request`, `compute_delete_request`, `compute_put_request` | cookie and token exactly when their flags say so |
| movie server | sessions | external | |

What is hard: replies that are split or cut anywhere, sessions that expire, and any
sequence of logins, logouts and refusals.

### Not modelled

`parson.c` is vendored. The Python checkers, the publisher's source, the tables and logs,
the Makefiles and editor settings have no behaviour of the programs; the tests are read
for what they say. `PROJECT.json` lists every part with its status, and the hazards with
the properties that cover them.

## 2. Modules

### Tema_2

* **TopicStrings** — topics and patterns as sequences of levels, what `strtok_r` makes of
  them, and `Matches`, the closed form of `check_topic_regexp`.
* **TopicMatch** — the token loop of `check_topic_regexp`, one action per branch of a
  turn. *MCTopicMatch* gives it all strings over a few levels; *TopicMatchProofs* proves
  that it returns `Matches`, and what `Matches` has to do with the wildcards.
* **Registry** — `clients[]` and `topic_map[]` as sequences, and each function of
  `utils.c` as an operator that gives the new table. A search loop is `Least` of the
  indices it would stop at; 0 is C's -1. `Due` is the set of positions at which the nested
  loops of `publish` still have something to send, so that each send is a step of its own.
* **Sockets** — TCP as the two programs see it. `link[p]` is the connection of process
  `p`: a process that ends with everything read leaves a FIN, otherwise a reset; a send to
  a closed peer makes the connection "dead" and the next one kills the sender.
* **Server** — the loop. `Poll` fills `ready`, the entries with POLLIN; each handler ends
  by moving `i` to the next ready entry of the array as it has become, which is what
  `i++` over a shifted array does. A new entry's `revents` is either value. `publish` is
  `PublishBegin`, one `PublishSend` per client and `PublishEnd`, because a send can block
  while subscribers run. `exited` and `died` are the two ends of the process.
* **Subscriber** — one process: `Connect`, `Hello`, `Command`, `Receive`,
  `ReceiveRefusal`, `ServerGone`, `Quit`. A process connects once; a restart is another
  process of the same id (`IdOf`).
* **Broker** — the abstract specification: who is online, a set of subscriptions, and
  messages handed to the interested. No sockets, tables, flags or scans. A message is lost
  only to a process in `ended`, and only such a process is taken off line.
* **PubSub** — composes the four, adds publishers and the operator as environment, states
  the properties and the refinement mapping to `Broker` (`Promise`): who is online is the
  process behind the slot of an id (`Online`), those still to be sent to are read off what
  is left of the loops of `publish` (`StillDue`), a box is what is in a connection
  without the refusal, which is its last packet (`Boxes`), and `ended` are the processes
  that have exited. *MCPubSub* holds the instances,
  *PubSubProofs* the proofs.

### Tema_1

* **Routes** — covering, the nodes of a trie as the bit strings that lead to them, and
  `get_best_route` as a closed form: the last row that ends at the node where the walk
  stops.
* **RouteTrie** — building the trie level by level and walking it. *MCRouteTrie* gives it
  every table up to a size; *RouteTrieProofs* proves that it computes the closed form.
* **Checksum** — `checksum` on the sum of a header's words: two folds and the complement.
  *ChecksumProofs* proves what the router relies on.
* **Router** — the loop of `main`. Each path through one frame is one action (the program
  is one thread and does not wait inside it), the loop over the queue is one action per
  turn. `arp_table` is the array, searched from its start; a packet carries its time to
  live, its checksum, the sum of its other words and its length, so that the check, the
  rewriting and the sums of the ICMP messages are computed as in the code. `arrivals`,
  `sent`, `icmp`, `dropped`, `asked`, `answered`, `heard` (the MAC last heard for each
  address) and `replied` record what has happened, for the properties and to bound the
  runs.
* **ListQueue** — `queue.c` and `list.c`: cells with an element and `next`, a head, and a
  tail that is left pointing at a freed cell. `malloc` may return any free cell.
* **RouterList** — `Router` with that list beside the sequence `q`, both changed by every
  `queue_enq` and `queue_deq` of `main`. *MCRouter* is an instance with two hops on two
  interfaces; *RouterProofs* and *RouterListProofs* prove the properties.
* **Forwarder** — the abstract specification: one line of waiting packets for each next
  hop, which moves once its hop has answered, whatever stands in the others. No frames,
  tables, counters or rotation. A line is the set of the numbers of its packets, the least
  is its first. `Router` states the refinement mapping (`Promise`): the line of a hop are
  the packets for it wherever the loop has rotated them to (`Lines`), `Out` is what was
  sent with the hop it was meant for, `KnownHops` the hops that have an ARP entry.

### Tema_3

* **Requests** — `requests.c`: a request as method, URL, body, and the cookie and token
  that the counts and flags let in.
* **HttpServer** — external: sessions are numbers; a cookie and the tokens given under it
  carry the number. `Answer` looks at a request's method, URL and headers: it may refuse
  anything, serves only what the session allows, may put a cookie on a refusal and may end
  a session by itself.
* **Buffer** — `buffer.c`: `buffer_add` and the two searches, on sequences. *BufferProofs*
  proves that a search returns the first place, and the same one as the buffer grows.
* **HttpReceive** — `receive_from_server`. A reply is seven units (status, first part of
  the cookie, its end with the header that may name the length, the blank line in two, the
  body in two), a read returns any part of what is left, and the server may close at any
  point. The loops search the buffer as it is; `total` keeps the wrap of `size_t`.
* **HttpClient** — the command loop. `Open` is the start of every command, `InvalidInput`
  its early return, `ValidInput` and `NegativeCount` the two outcomes of a negative number
  of movies, `SendCommand` the server's answer to `TheRequest` (what the command
  passes to `requests.c`), `Receive` a step
  of `HttpReceive`, and one action per way of handling the reply. Commands that differ
  only in their data share their action (`Printed`). `cookie_mem` and `token_mem` are the
  blocks behind the pointers; freeing one that is not live is "twice".
  *HttpClientProofs* proves the properties.

## 3. Runs

| run | instance | states | shows |
|---|---|---|---|
| topic_match | strings of 1-3 levels over `""`, `upb`, `ec`, `+`, `*` on both sides | 82,891 | the loop returns `Matches`, never misses a topic that the pattern covers, and is exact if `*` is last |
| connections | two processes of id `a`, one of `b`, 3 descriptors, one command each | 478,194 | array, slots, sockets and subscriptions stay consistent |
| delivery | two processes of one id, one command and two, two overlapping patterns, two datagrams, one packet per buffer | 268,385 | in order and once although an id holds two matching subscriptions and comes back; `PubSub` implements `Broker` |
| two_clients | one process each of two ids, one command each, one datagram, one line typed | 135,908 | a message due to two reaches both (`PubSub` implements `Broker`); a stop reaches everybody |
| progress | two processes of one id, one command and two, two datagrams, one packet per buffer | 87,024 | scans end, hellos are answered, the ended are closed; broker and subscriber can come to wait for each other, which section 4 exempts |
| route_trie | every table of up to 3 rows, 2-bit addresses | 17,640 | the trie computes `get_best_route`; when a route is found it is the longest; when one is missed, why |
| router | 12 kinds of packet, 3 packets, 2 ARP replies, 1 ARP request, 3 list cells | 384,654 | one fate, exact lengths, frames to the MAC last heard for their hop, nobody left waiting for a hop that answered, one ARP entry per address, sums that verify, lengths of held frames; the list is the queue; `Router` implements `Forwarder` |
| http_client | 4 commands, 2 users, 2 sessions, -1 to 2 movies | 1,074,488 | flags, memory, token, sessions, descriptors, partial and whole replies, and that every command ends |

Four more runs check what a document or a test of the repository says and the code does
not do; TLC finds each violated:

| run | statement | what happens |
|---|---|---|
| topic_match_star | `*/pressure` matches only topics that end so (`test.py` 642-654) | `*` accepts at once, what follows it is ignored (`utils.c` 42) |
| survives | unexpected disconnections are handled (`readme.txt` 33) | a client that ends with unread messages makes `recv` fail and DIE ends the broker |
| longest_prefix | the trie finds the longest prefix (`README` 3) | the walk passes a covering route and ends where none ends |
| one_request | at most one ARP request for two packets (`tests.py` 380) | one per packet that waits |

**Why the bounds are enough.** *Matching*: three levels reach each branch of a turn on a
first, a middle and a last token and every difference of length. *Broker*: three processes
with two ids give a second holder of an id together with a stranger whose descriptor
number and array entry are reused; a scan with three ready client entries has an entry
before, at and behind the one removed. `Cap` = 1 makes the second packet block; it
takes two datagrams to block the broker, and two commands of the process it sends to,
under an id that has subscribed, to make both wait for each other (`MaxCommands` is a
bound for each process). Two patterns that both match one topic are what `sent_message` is for, and one id
holds both only with two commands of one process or with one each of two runs; two
datagrams show the flag's reset. *delivery* has one id, whose second process finds what the
first subscribed to; *two_clients* has what one id cannot show, a message due to two.
Longer behaviours repeat these; the proofs of section 5 cover any size. *Trie*:
two bits and three rows give equal, nested, disjoint and empty prefixes in every order.
*Router*: three packets are the least with two waiting and one rotated past them, and
three cells as many as can be in use; two of the packets come the wrong way round, one
with the address of a next hop, and overwrite what a reply has taught or teach what it
overwrites; two replies may be for the same hop, and two ARP frames differ in length from the packets and from each other. The sum of the instance's
headers is chosen so that folding it carries again. *Client*: four commands are login,
token, logout and one more; seven units put a read's end inside and at the end of each
part; the two accounts and two session numbers let a second session follow a first.

**Deadlock** is not checked where the system may really stop: the matching and the trie
return, the client's user may leave, and when the bounded input is used up the broker
waits in `poll` and the router in `recv_from_any_link`. That nobody waits for ever is
stated by the liveness properties instead.

Every property has a mutant: a definition changed the way a plausible mistake would
(operators preceded by a `Mutant:` comment, used by nothing in the models), under which
TLC finds the property violated.

## 4. Fairness

* **TopicMatch, RouteTrie**: none; each turn of their loops consumes a level, a bit or a
  row, so that there is nothing to ask.
* **PubSub** (`Fairness`): the broker's process is scheduled when it can take a step, and
  a subscriber that runs sends its hello and reads what arrives, as its poll loop does.
  Users owe no command, publishers no datagram, the operator no line, nobody owes an end.
  The liveness properties leave out a *mutual wait*, a broker that sends to a subscriber
  which is itself blocked sending to the broker: the code can reach it (and the run
  *progress* does), and only the end of that subscriber resolves it. `ScansEnd` exempts
  only a wait that nobody ever leaves (`[]MutualWait`): after any other the scan ends.
* **Router**: the loop over the queue goes on once entered; frames need not come. That is
  what `Forwarder`'s `LinesMove` needs: the line of a hop that has answered empties.
* **HttpClient**: the server answers a request that was sent (or closes), and the client
  runs. Nobody has to type a command. A server that omits `Content-Length` is taken to
  close at the end of its reply; if it kept the connection open the first loop of
  `receive_from_server` would wait for it for ever.

## 5. Proofs

TLAPS checks every theorem for all values of the constants allowed by the named
assumptions. Every invariant and every action property of the passing runs is one of
them, and so is each refinement but for one liveness condition. A proof module about a
specification has an inductive invariant `IInv`, `Init => IInv`, a lemma for each action
(or each conjunct and action), and the theorems from `[]IInv`. ChecksumProofs and
BufferProofs are about operators and need none.

**TopicMatchProofs.** `IInv` adds to the types that, inside the loop, the tokens left of
topic and pattern decide exactly what the whole strings do (`LoopInv`); it is what carries
the result from the branch that returns back to the arguments. `TypesHold`,
`LoopReturnsMatches`: so using `Matches` in `Registry` loses nothing. What the wildcards
mean is `WildcardSense`, a way of cutting the topic into as many pieces as the pattern has
levels. Before the first `*` each level of a pattern takes exactly one of the topic
(`OneLevelEach`); as induction is out of reach, its proof takes the least place where
that fails. From it `NothingMissed` (the code says yes to everything the wildcards cover)
and `ExactIfStarLast` (and to nothing else, if `*` comes last).

**PubSubProofs.** `IInv` is `TypeOK`, `PollTableExact` and four facts no property alone
implies: each process is behind at most one descriptor or in the backlog (`ConnInv`); a
hello is the first packet of a process and comes once, so commands come only from
registered processes (`HelloInv`); connected slots name open descriptors, one each, with
the right id (`SlotInv`); ids of slots differ, if ids fit (`IdInv`). Without `HelloInv` a
command from a process without a slot could not be excluded; without `ConnInv` a reused
descriptor could not be told from the earlier one. From `IInv` follow

* `TypesHold`, `PollTableStaysExact`, `SlotsAlwaysFollow`, `CommandsAlwaysOwned` and,
  under `IdsFit` (no id is longer than `MAX_ID_LEN` keeps), `OneConnection`;
* `SubscriptionsStaySound`: `SubscriptionsSound` is inductive with `IInv`, because
  `subscribe` searches before it appends and `unsubscribe` swaps with the last
  (`SubscribeAdds`, `UnsubscribeRemoves`: what each does to the set of subscribed pairs,
  for any table in which no id stands twice); and `SubscriptionsAreOwn`, from the same
  two lemmas and `CommandsAreOwned`;
* `DeliveredInOrderOnce`, by `BoxInv`: the numbers in a connection ascend, up to that of
  the last publication, and *a connected client whose `sent_message` is not set holds
  nothing as new as the datagram being published*. The last part is what the flag is for,
  and it fails without knowing that two slots never share a connection (`SlotInv`);
* `BrokerKeepsPromise`, the refinement, for ids that fit: with `OnlineRight` (who is online
  is who is registered), `DueRight` (the positions left to `publish` are the connected,
  interested and unsent) and `LinkInv` (a connection that the broker keeps is open while
  its process runs, so that a message is lost only to one that has ended) each action of
  `PubSub` is shown to be a named action of `Broker` or a stutter (`JoinStep`, `LeaveStep`, `CommandStep`, `PublishStep`, `HandStep`,
  `ReaderStep`, `StopStep`, the others silent). Ids that are cut to the same text share a
  slot, and then the abstract broker's subscriptions would not be theirs.

**RouteTrieProofs.** `IInv` says that the nodes and entries are those of the rows inserted
so far plus the part of the current row down to where the loop stands (`NodesInv`,
`EntryInv`), and that the walk stands at a prefix of the address (`WalkInv`). Theorems:
`TypesHold`, `TrieComputesBestRoute`, `FoundRouteIsLongest`, `MissMeansLedOff`, for every
width and every set of tables whose prefixes fit.

**RouterProofs.** Of the seven invariants only some are inductive. What the others need:

* `HeaderInv`: whatever is queued or sent is the header made of the packet with its
  number, so that its hop and its sums can be computed from what arrived;
* `OrderInv`: `Left` packets at the front are those that the loop has not yet rotated;
  numbers ascend among them and among the rotated ones, and the rotated are older. It is
  what makes the loop first-in first-out for each hop, and gives the refinement's order;
* `WaitInv`: a packet whose hop has answered is among the first `Left`, and only while the
  loop of that hop's reply runs. `WaitsForAnAnswer` speaks of the states outside the loop,
  and is lost in the middle of it without this;
* `ReplyInv` and `MacInv`: the reply in hand is the last thing that was heard, and each
  entry of the ARP table holds the MAC last heard for its address. The loop over the queue
  sends with the reply's MAC and not the table's, and `Forward` with the table's after the
  packet's own source was learnt: `ToTheNextHop` needs both to be the one last heard. No
  assumption says which MACs packets and replies come from;
* `FateInv`: what `OneFate` counts, as disjoint sets without repetition;
* `IcmpInv`: `WrittenSumsVerify` for ICMP messages; for headers it follows from
  `HeaderInv` and `WrittenVerifies` of ChecksumProofs.

Theorems: `TypeCorrect`, `NoneLostNoneTwice`, `LengthsAgree`, `NoneForgotten`, `RightHop`,
`TableExact`, `WrittenIsSound`, `CutByOwnReply`, and `KeepsPromiseSafely`: the initial
states and each step of the router are those of `Forwarder`. In it `LinesOwed` is the
central fact: whatever the rotation does, the line of a hop is the set of packets that
came for it and have not been sent. Only the steps are used, not the fairness of `Spec`.

**RouterListProofs.** `EnqHolds` and `DeqHolds` say what `queue_enq` and `queue_deq` do to
a list that holds a sequence, for any set of cells and whichever free one `malloc` gives.
`ListIsQueue` (`QueueIsList`) follows with `LengthsAgree`'s invariant, which excludes a
`queue_deq` of an empty list; `ListRefinesRouter` gives every step back to `Router`, and
`ListKeepsAll` the seven invariants, `ToTheNextHop` and the refinement for `ListSpec`, the specification
that the run checks.

**HttpClientProofs.** `IInv` has four parts that are inductive on their own or one after
the other:

* `ReceiveOK`: the second loop of `receive_from_server` runs only at the end of the stream
  or with the length of the whole reply (`TerminatorFound`, from BufferProofs, is why
  `header_end` is the right one however the reply is split). `WholeReplies`;
* `LoopOK`: a command that runs has one connection more than were left open.
  `LeaksCounted`;
* `MoviesOK`: either a movie less was counted than was sent, or all before the last are
  with the server. `CollectionsAreWhole`;
* `SessionOK`: besides `FlagsMatchMemory`, a token is the one of the cookie's session and
  that session is not an administrator's (`TokenInv`), what a reply that has arrived and
  was not handled says of the session (`PendingInv`), and `AgreeUnlessLost` with such a
  reply taken into account (`AgreeInv`): between the server's answer and the client's
  handling of it the two do disagree. `MemorySafe`, `TokenNeverOutlives`,
  `SessionsAgree`; from all four `TypeCorrect`.

**ChecksumProofs.** For every sum that a header of at most 65535 words can have:
`ZeroMeansSound` (the code's test for 0 is the rule of ones' complement: two folds take up
every carry), `WrittenVerifies` (a header written with its checksum passes) and
`ChangedWordNoticed` (two headers that differ in one word do not both pass, up to the two
zeros). The argument: a fold keeps the remainder by 65535, and after two of them a sum is
at most 65535.

**BufferProofs.** For buffers and words of any length: `FoundIsFirst` and, from it,
`FoundStays`: what was found stays where it was when more is read, so a `header_end` that
was computed once is that of the whole reply. That there is a first position follows from
the library's theorem on finite subsets (`FS_StrictSubsetOrderingWellFounded`).

**Assumptions on constants** are named where the constants are declared, and TLC evaluates
each in a run. `StringsAssumption`: strings and their tokens are sequences of levels.
`StoredAssumption`: what is kept of an id is an id and is kept as it is.
`SocketAssumption`: descriptors are numbers above the two fixed ones, a connection takes at
least one packet. `PubSubAssumption`, `ClientAssumption`, `ServerAssumption`: bounds are
numbers, each process has an id, the administrator is no user. `TrieAssumption`: prefixes
fit in an address. `ListAssumption`: NULL is no cell. `RouterAssumption`: the table's rows,
packets and replies have the types the code gives them, and the sums of headers and quoted
data are those that their number of 16-bit words allows. `BrokerKeepsPromise` and `OneConnection` also assume
`IdsFit`.

**Only model-checked** is liveness, as fairness and ENABLED are beyond the prover:
`ScansEnd`, `HelloAnswered`, `EndedAreReaped`, `StopReachesAll`, `EveryCommandEnds`, and of
`Router`'s `KeepsPromise` the conjunct `LinesMove`. So are the four statements that the
code does not keep. Nothing is proved by induction over data: no model uses a recursive
operator, and where a search loop needs a first element, it is the least of a finite set.

## 6. What the models leave out

* Capacities of arrays (32 clients, descriptors and subscribers, 1024 patterns, 100000 ARP
  entries) and of text (`LINELEN`, `BUFLEN`): nothing in the code checks them. What the
  properties say is how many entries there can be: one per descriptor (`PollTableExact`),
  per id (`SubscriptionsSound`), per address heard (`ArpTableExact`). That these stay within
  the arrays is not shown, and not true of a broker with a 30th client.
* Writes outside a table. `clients[-1]` is written when a connection ends that has no slot
  (`server.c` 144): as the Makefile builds the broker the fields fall on padding, and
  `Disconnected` changes nothing. An array of a negative number of movies (`client.c` 673)
  leaves the stack alone from -1 to -3 and ends the program below, in the Makefile's build;
  the model has both outcomes for every negative number. Other builds may differ, and the
  theorems say nothing of them.
* What the movie server does beyond what the client's messages say. `HttpServer` gives an
  administrator no token and refuses the logout of the other kind, so that the token which
  `logout_admin` leaves alone is never there; `TokenOfSession` rests on it, and
  `FlagsMatchMemory` on a refused logout without a session. Nothing in the repository
  says that the server keeps to it.
* An id that is refused although its former process has ended, as its hello came before the
  broker read that end, is what the code does (`server.c` 173). No document claims the
  contrary: the tests wait for the disconnection first. `HelloAnswered` counts the refusal
  as an answer.
* The text of payloads (`subscriber.c` 54-120). A payload is the number of its datagram.
  Two things in it are worth a reader's eye: a sign byte of 1 with the value 0 is printed
  as `-0` (`sample_wildcard_payloads.json` sends it for the second elevator, where
  `test.py` 114-115 expects `0`), and a FLOAT goes through `(float)`, which keeps 24 bits.
* The words of headers: only their sums are there. Ethernet and ARP headers are what they
  decide.
* Memory that is never freed (the copies of `router.c` 370, the strings of the client).
* Ids longer than `MAX_ID_LEN`: `Stored` can express the truncation; what the unterminated
  copy does then depends on the layout of a slot. The runs, `OneConnection` and
  `BrokerKeepsPromise` take ids that fit; the other theorems about the broker do not.
* Start-up errors (bind, socket, files), and the terminal's buffering.
* Functions that nobody calls (`handle_disconnect`, `receive_and_send`, `parse_arp_table`).

## 7. Plan

Done: the inventory; matching, broker, subscriber, abstract broker; trie, router, its list,
checksum and abstract forwarder; client, requests, receiving, buffer and server; their
runs; the proofs of section 5.

The proofs cover every safety property of the passing runs. Next, in this order:

1. *Payloads.* What `subscriber.c` prints for each type, against the values of `test.py`,
   and that formatting is exact except for the sign of zero and the 24 bits of a FLOAT.
2. *Progress without fairness.* The measures behind the liveness properties as safety
   theorems: each step of a scan or of the router's loop leaves less to do, so that only
   scheduling is left to TLC.
3. *Requests.* That the server sees a cookie and a token exactly when the flags say so, as
   lemmas about `compute_get_request` and the other three.
