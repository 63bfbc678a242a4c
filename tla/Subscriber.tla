----------------------------- MODULE Subscriber -----------------------------
(***************************************************************************)
(* The subscriber program, Tema_2/subscriber.c.  A process p connects,     *)
(* sends its id and then handles what the broker sends and what its user   *)
(* types until one of the two ends it; it can also be killed at any point. *)
(***************************************************************************)
EXTENDS Sockets

CONSTANTS
  IdOf,       \* IdOf[p]: the ID_CLIENT argument of p
  Patterns,   \* what users subscribe to
  MaxCommands \* bound: MaxCommands[p], the commands the user of p types

VARIABLES
  sub,    \* "idle", "connected" (hello not sent), "running" or "exited"
  last,   \* last[p]: the number of the last message p printed
  given   \* given[p]: the number of commands typed to p

subscriberVars == <<sub, last, given>>

SubscriberInit ==
  /\ sub = [p \in Procs |-> "idle"]
  /\ last = [p \in Procs |-> 0]
  /\ given = [p \in Procs |-> 0]

Becomes(p, state) == sub' = [sub EXCEPT ![p] = state]

\* connect(): the kernel completes it, accept() comes later.
Connect(p) ==
  /\ sub[p] = "idle" /\ srv = "up"
  /\ Becomes(p, "connected")
  /\ backlog' = Append(backlog, p)
  /\ link' = [link EXCEPT ![p] = "open"]
  /\ UNCHANGED <<last, given, conn, c2s, s2c>>

\* Nobody listens: connect() fails and DIE ends the process.
ConnectFails(p) ==
  /\ sub[p] = "idle" /\ srv # "up"
  /\ Becomes(p, "exited")
  /\ UNCHANGED <<last, given, sockets>>

\* The connect packet, with the id where a command has its topic.
Hello(p) ==
  /\ sub[p] = "connected"
  /\ PacketFrom(p, [command |-> "connect", topic |-> IdOf[p]])
  /\ Becomes(p, "running")
  /\ UNCHANGED <<last, given, backlog, conn, link, s2c>>

\* A subscribe or unsubscribe command, sent when it is typed.
Command(p) ==
  /\ sub[p] = "running" /\ ~Blocked(p)
  /\ \E command \in {"subscribe", "unsubscribe"}, pattern \in Patterns :
       PacketFrom(p, [command |-> command, topic |-> pattern])
  /\ given[p] < MaxCommands[p]
  /\ given' = [given EXCEPT ![p] = @ + 1]
  /\ UNCHANGED <<sub, last, backlog, conn, link, s2c>>

\* A message is printed; the error packet ends the process.
Receive(p) ==
  /\ sub[p] = "running" /\ ~Blocked(p)
  /\ s2c[p] # <<>>
  /\ Head(s2c[p]) # Error
  /\ last' = [last EXCEPT ![p] = Head(s2c[p])]
  /\ s2c' = [s2c EXCEPT ![p] = Tail(@)]
  /\ UNCHANGED <<sub, given, backlog, conn, link, c2s>>

Ended(p) == Becomes(p, "exited") /\ ProcessEnds(p) /\ UNCHANGED <<last, given>>

ReceiveRefusal(p) ==
  /\ sub[p] = "running" /\ ~Blocked(p)
  /\ s2c[p] # <<>> /\ Head(s2c[p]) = Error
  /\ Ended(p)

\* Mutant: only -1 ends the loop, not 0.
ServerGoneUnseen(p) == FALSE /\ Ended(p)

\* recv_all gives 0 or -1: "Server closed connection."
ServerGone(p) ==
  /\ sub[p] = "running"
  /\ s2c[p] = <<>> /\ link[p] = "closed"
  /\ Ended(p)

\* exit, a signal, or a send_all that fails because the broker is gone.
Quit(p) == sub[p] \in {"connected", "running"} /\ Ended(p)

SubscriberNext(p) ==
  \/ Connect(p) \/ ConnectFails(p) \/ Hello(p) \/ Command(p)
  \/ Receive(p) \/ ReceiveRefusal(p) \/ ServerGone(p) \/ Quit(p)
=============================================================================
