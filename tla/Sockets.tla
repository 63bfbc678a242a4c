------------------------------ MODULE Sockets -------------------------------
(***************************************************************************)
(* The sockets between the broker and its subscribers, as Linux gives them *)
(* to server.c and subscriber.c: the listen backlog, the broker's file     *)
(* descriptors, one TCP connection per subscriber process, the UDP socket  *)
(* the publishers write to, and the two send_all / recv_all ends.          *)
(*                                                                         *)
(* link[p] is the connection of p as the broker's kernel sees it:          *)
(*   "none"    p has not connected                                         *)
(*   "open"    both ends open                                              *)
(*   "fin"     p closed with nothing unread: recv gives what is queued,    *)
(*             then 0; a send is lost and is answered by a reset           *)
(*   "reset"   p closed with data unread: recv gives what is queued, then  *)
(*             -1; a send returns -1                                       *)
(*   "dead"    a send met a closed peer: recv gives what is queued, then 0;*)
(*             the next send raises SIGPIPE                                *)
(*   "closed"  the broker closed its end                                   *)
(***************************************************************************)
EXTENDS Integers, Sequences, FiniteSets

CONSTANTS
  Procs,    \* runs of the subscriber program, each connects at most once
  NoProc,   \* no process
  Fds,      \* descriptors accept() can return
  Cap       \* packets a connection holds in one direction before send blocks

TcpFd == 3
UdpFd == 4
StdinFd == 0

ASSUME SocketAssumption ==
  /\ NoProc \notin Procs
  /\ Fds \subseteq {fd \in Nat : fd > UdpFd}
  /\ Cap \in Nat \ {0}

VARIABLES
  srv,       \* the broker's process: "up" (listening), "exited" or "died"
  backlog,   \* processes whose connection accept() has not returned yet
  conn,      \* conn[fd]: the process at the other end, NoProc if fd is free
  link,      \* link[p]: see above
  c2s,       \* c2s[p]: packets from p that the broker has not received
  s2c        \* s2c[p]: packets to p that p has not received

sockets == <<backlog, conn, link, c2s, s2c>>

Error == 0   \* in s2c, the packet of data_type 5; others are publish numbers

-----------------------------------------------------------------------------
(* The broker's end. *)

\* poll reports POLLIN: data, an orderly end or a reset.
Readable(p) == c2s[p] # <<>> \/ link[p] \in {"fin", "reset", "dead"}

\* Mutant: recv_all does not return at the end of the connection.
RecvSpins(p) == FALSE

RecvGivesEnd(p)   == c2s[p] = <<>> /\ link[p] \in {"fin", "dead"}
RecvGivesError(p) == c2s[p] = <<>> /\ link[p] = "reset"

\* A send to p returns (it may have failed), kills the sender, or else blocks.
SendReturns(p) == link[p] # "open" \/ Len(s2c[p]) < Cap
SendKills(p)   == link[p] = "dead"

S2CAfterSend(p, m) ==
  IF link[p] = "open" THEN [s2c EXCEPT ![p] = Append(@, m)] ELSE s2c

LinkAfterSend(p) ==
  IF link[p] \in {"fin", "reset"} THEN [link EXCEPT ![p] = "dead"] ELSE link

\* accept returns the oldest connection on the lowest free descriptor.
Accept(fd) ==
  /\ backlog # <<>>
  /\ conn[fd] = NoProc
  /\ \A other \in Fds : other < fd => conn[other] # NoProc
  /\ conn' = [conn EXCEPT ![fd] = Head(backlog)]
  /\ backlog' = Tail(backlog)
  /\ UNCHANGED <<link, c2s, s2c>>

\* close(fd) in the broker, m the last packet sent on it, if any.
ClosedBy(fd) ==
  /\ conn' = [conn EXCEPT ![fd] = NoProc]
  /\ link' = [link EXCEPT ![conn[fd]] = "closed"]
  /\ c2s' = [c2s EXCEPT ![conn[fd]] = <<>>]

\* The end of the broker's process closes everything it holds.
BrokerEnds(how) ==
  /\ srv' = how
  /\ backlog' = <<>>
  /\ conn' = [fd \in Fds |-> NoProc]
  /\ link' = [p \in Procs |-> IF link[p] = "none" THEN "none" ELSE "closed"]
  /\ c2s' = [p \in Procs |-> <<>>]
  /\ UNCHANGED s2c

-----------------------------------------------------------------------------
(* The subscriber's end. *)

\* p is inside send: its last packet does not fit in the connection.
Blocked(p) == Len(c2s[p]) > Cap

\* A whole packet from p: on the connection, or to a broker that is gone.
PacketFrom(p, packet) ==
  c2s' = IF link[p] = "open" THEN [c2s EXCEPT ![p] = Append(@, packet)] ELSE c2s

\* p ends: what it did not read turns the end into a reset, and a packet that
\* did not fit is never complete (recv_all then sees the end of the connection).
ProcessEnds(p) ==
  /\ link' = [link EXCEPT ![p] =
                IF @ # "open" THEN @ ELSE IF s2c[p] = <<>> THEN "fin" ELSE "reset"]
  /\ c2s' = [c2s EXCEPT ![p] = IF Blocked(p) THEN SubSeq(@, 1, Cap) ELSE @]
  /\ s2c' = [s2c EXCEPT ![p] = <<>>]
  /\ UNCHANGED <<backlog, conn>>
=============================================================================
