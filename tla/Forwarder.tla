----------------------------- MODULE Forwarder -----------------------------
(***************************************************************************)
(* What the router of Tema_1 promises, without frames, tables or loops:    *)
(* packets wait in one line for each next hop, a line moves when its hop   *)
(* has answered whatever stands in the others, and nothing is lost.        *)
(* A packet is known by its number, and a line is the set of those in it:  *)
(* the least is its first.                                                 *)
(***************************************************************************)
EXTENDS Integers, Sequences

CONSTANT Hops

VARIABLES
  seen,       \* the number of packets that came
  line,       \* for each hop the packets that wait for it
  out,        \* the packets sent, each with its hop, in order
  ended,      \* the packets dropped or answered by the router itself
  known,      \* the hops whose MAC is known
  answered    \* the hops that have answered

vars == <<seen, line, out, ended, known, answered>>

Init ==
  /\ seen = 0 /\ ended = {} /\ known = {} /\ answered = {}
  /\ line = [h \in Hops |-> {}] /\ out = <<>>

\* A packet comes, and its source may become known.
Take == seen' = seen + 1 /\ known \subseteq known' /\ UNCHANGED answered

Wait(h) ==
  /\ Take /\ h \notin known'
  /\ line' = [line EXCEPT ![h] = @ \cup {seen'}]
  /\ UNCHANGED <<out, ended>>

Pass(h) ==
  /\ Take /\ h \in known'
  /\ out' = Append(out, [number |-> seen', hop |-> h])
  /\ UNCHANGED <<line, ended>>

End ==
  /\ Take /\ ended' = ended \cup {seen'}
  /\ UNCHANGED <<line, out, known>>

Answer(h) ==
  /\ answered' = answered \cup {h} /\ known' = known \cup {h}
  /\ UNCHANGED <<seen, line, out, ended>>

\* The first in the line of h leaves.
Release(h) ==
  /\ h \in answered
  /\ \E n \in line[h] :
       /\ \A m \in line[h] : n <= m
       /\ line' = [line EXCEPT ![h] = @ \ {n}]
       /\ out' = Append(out, [number |-> n, hop |-> h])
  /\ UNCHANGED <<seen, ended, known, answered>>

Next == End \/ \E h \in Hops : Wait(h) \/ Pass(h) \/ Answer(h) \/ Release(h)

\* A line whose hop has answered empties.
LinesMove == \A h \in Hops : h \in answered ~> line[h] = {}

Safety == Init /\ [][Next]_vars
Spec == Safety /\ LinesMove
=============================================================================
