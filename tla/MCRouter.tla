------------------------------ MODULE MCRouter ------------------------------
(* Two next hops, a host behind the first, a router with two interfaces and an *)
(* address without a route, in addresses of three bits.                        *)
EXTENDS RouterList

A == <<0, 0, 0>>    \* next hop on interface 0
A2 == <<0, 0, 1>>   \* behind A
B == <<0, 1, 0>>    \* next hop on interface 1
R == <<1, 0, 0>>    \* the router's
X == <<1, 1, 0>>    \* no route

TwoRoutes ==
  <<[prefix |-> <<0, 0>>, next_hop |-> A, interface |-> 0],
    [prefix |-> <<0, 1>>, next_hop |-> B, interface |-> 1]>>
FiveAddresses == {A, A2, B, R, X}
TwoMacs == {"mA", "mB"}
RouterAddresses == {R}

\* Less 512, for the time to live that is left, the header's sum is 2^17 - 1, whose
\* folded sum carries again.
Rest == 131071 - 512

Sends(src, shost, dst) ==
  [src |-> src, shost |-> shost, dst |-> dst, dhost |-> "us", ttl |-> 3, rest |-> Rest,
   check |-> 65278, echo |-> FALSE, id |-> 258, quoted |-> 0, more |-> 0, len |-> 98]

\* Packets that wait, that teach a MAC, or both; two come the wrong way round, and
\* one of these with the address of a next hop.
Crossing == {Sends(A2, "mA", B), Sends(B, "mB", A), Sends(A, "mA", B), Sends(X, "mB", A2),
             Sends(A2, "mB", A), Sends(B, "mA", A)}
Others == {[Sends(A, "mA", B) EXCEPT !.ttl = 1, !.check = 255, !.quoted = 70000],
           [Sends(A, "mA", B) EXCEPT !.check = 65279],
           Sends(A, "mA", X), [Sends(A, "mA", B) EXCEPT !.dhost = "other"],
           [Sends(A, "mA", R) EXCEPT !.echo = TRUE, !.check = 0, !.quoted = 4660],
           Sends(A, "mA", R)}
AllPackets == Crossing \cup Others
BothReply == {[ip |-> A, mac |-> "mA", len |-> 60], [ip |-> B, mac |-> "mB", len |-> 42]}
OneAsker == {"hA"}
=============================================================================
