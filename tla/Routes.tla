------------------------------- MODULE Routes -------------------------------
(***************************************************************************)
(* The routing table of Tema_1/router.c and what a walk down its trie      *)
(* gives.  Addresses and prefixes are sequences of bits, the most          *)
(* significant first; a trie node is the sequence of bits that leads to it.*)
(***************************************************************************)
EXTENDS Integers, Sequences

Bit == {0, 1}

FirstBits(s, k) == SubSeq(s, 1, k)

\* The route's prefix covers the address.
Covers(route, ip) ==
  Len(route.prefix) <= Len(ip) /\ FirstBits(ip, Len(route.prefix)) = route.prefix

\* The nodes the first rows of the table have created, the root included.
NodesOf(rtable, rows) ==
  {<<>>} \cup UNION {{FirstBits(rtable[j].prefix, k) : k \in 0 .. Len(rtable[j].prefix)} :
                       j \in 1 .. rows}

\* The row whose copy a node holds: a later row overwrites an earlier one.
\* 0 stands for a node that ends no route, C's NULL.
RowAt(rtable, rows, node) ==
  LET ending == {j \in 1 .. rows : rtable[j].prefix = node}
  IN  IF ending = {} THEN 0 ELSE CHOOSE j \in ending : \A l \in ending : l <= j

\* The node where the walk for an address ends: no child for the next bit.
Deepest(rtable, ip) ==
  FirstBits(ip, CHOOSE k \in 0 .. Len(ip) :
                  /\ FirstBits(ip, k) \in NodesOf(rtable, Len(rtable))
                  /\ k < Len(ip) =>
                       FirstBits(ip, k + 1) \notin NodesOf(rtable, Len(rtable)))

\* get_best_route: the row at the node where the walk ends, and only there.
get_best_route(rtable, ip) == RowAt(rtable, Len(rtable), Deepest(rtable, ip))
=============================================================================
