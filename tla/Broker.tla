------------------------------- MODULE Broker -------------------------------
(***************************************************************************)
(* What the broker of Tema_2 promises, with no sockets, tables or loops: a *)
(* set of subscriptions that outlives connections, at most one connected   *)
(* process per id, and every published message handed, once and in order,  *)
(* to exactly the connected processes whose id subscribes to its topic.    *)
(* A process that has ended stays connected until the broker notices, and  *)
(* only to such a process is a message lost, unless the broker stops.      *)
(***************************************************************************)
EXTENDS Naturals, Sequences

CONSTANTS
  Ids, Procs, NoProc, Topics, Patterns,
  IdOf,                  \* the id of each process
  MatchesPattern(_, _)   \* does a topic match a pattern

VARIABLES
  alive,     \* the broker runs
  online,    \* online[id]: the process connected under id, NoProc if none
  subs,      \* pairs <<pattern, id>>
  count,     \* messages published
  due,       \* processes the last one still has to be handed to
  box,       \* box[p]: numbers handed to p that it has not read
  ended      \* processes that have ended

vars == <<alive, online, subs, count, due, box, ended>>

Init ==
  /\ alive = TRUE
  /\ online = [id \in Ids |-> NoProc]
  /\ subs = {}
  /\ count = 0
  /\ due = {}
  /\ box = [p \in Procs |-> <<>>]
  /\ ended = {}

Join(p) ==
  /\ alive /\ due = {}
  /\ online[IdOf[p]] = NoProc
  /\ online' = [online EXCEPT ![IdOf[p]] = p]
  /\ UNCHANGED <<alive, subs, count, due, box, ended>>

\* The broker notices that a process has ended.
Leave(id) ==
  /\ alive /\ due = {}
  /\ online[id] \in ended
  /\ online' = [online EXCEPT ![id] = NoProc]
  /\ UNCHANGED <<alive, subs, count, due, box, ended>>

\* Only a connected process changes subscriptions, and only those of its id.
ChangeSubscription(p) ==
  /\ alive /\ due = {}
  /\ online[IdOf[p]] = p
  /\ \E pattern \in Patterns :
       \/ subs' = subs \cup {<<pattern, IdOf[p]>>}
       \/ subs' = subs \ {<<pattern, IdOf[p]>>}
  /\ UNCHANGED <<alive, online, count, due, box, ended>>

Interested(topic) ==
  {p \in Procs : /\ online[IdOf[p]] = p
                 /\ \E pattern \in Patterns :
                      MatchesPattern(topic, pattern) /\ <<pattern, IdOf[p]>> \in subs}

Publish ==
  /\ alive /\ due = {}
  /\ \E topic \in Topics : due' = Interested(topic)
  /\ count' = count + 1
  /\ UNCHANGED <<alive, online, subs, box, ended>>

\* A message that is due reaches its process, unless that has ended.
HandTo(p) ==
  /\ alive /\ p \in due
  /\ due' = due \ {p}
  /\ box' = IF p \in ended THEN box ELSE [box EXCEPT ![p] = Append(@, count)]
  /\ UNCHANGED <<alive, online, subs, count, ended>>

Read(p) ==
  /\ box[p] # <<>>
  /\ box' = [box EXCEPT ![p] = Tail(@)]
  /\ UNCHANGED <<alive, online, subs, count, due, ended>>

\* A process ends, with what it has not read.
End(p) ==
  /\ p \notin ended
  /\ ended' = ended \cup {p}
  /\ box' = [box EXCEPT ![p] = <<>>]
  /\ UNCHANGED <<alive, online, subs, count, due>>

Stop ==
  /\ alive /\ alive' = FALSE
  /\ online' = [id \in Ids |-> NoProc]
  /\ subs' = {} /\ due' = {}
  /\ UNCHANGED <<count, box, ended>>

Next ==
  \/ Publish \/ Stop
  \/ \E id \in Ids : Leave(id)
  \/ \E p \in Procs : \/ Join(p) \/ ChangeSubscription(p)
                      \/ HandTo(p) \/ Read(p) \/ End(p)

Spec == Init /\ [][Next]_vars
=============================================================================
