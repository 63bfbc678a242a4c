------------------------------ MODULE RouteTrie ------------------------------
(***************************************************************************)
(* The trie of Tema_1/router.c, built once from the table at start-up      *)
(* (rtable_to_trie, insert_route) and walked for every packet              *)
(* (get_best_route), one step per turn of a loop.                          *)
(***************************************************************************)
EXTENDS Routes

CONSTANTS
  Width,    \* bits in an address, 32 in the program
  Tables    \* the routing tables the program may be given

Address == [1 .. Width -> Bit]

ASSUME TrieAssumption ==
  /\ Width \in Nat
  /\ \A t \in Tables :
       /\ t \in Seq([prefix : Seq(Bit)])
       /\ \A j \in DOMAIN t : Len(t[j].prefix) <= Width

VARIABLES
  rtable,    \* the table read from the file
  row,       \* the row being inserted
  nodes,     \* the nodes allocated so far
  entry,     \* entry[node]: the row whose copy the node holds, 0 if none
  current,   \* where the loop stands: C's root or current
  ip_dest,   \* the address looked up
  pc,        \* "insert", "lookup" or "done"
  result     \* the row returned, 0 for NULL

vars == <<rtable, row, nodes, entry, current, ip_dest, pc, result>>
lookup == <<ip_dest, result>>
trie == <<nodes, entry>>

Init ==
  /\ rtable \in Tables
  /\ row = 1
  /\ nodes = {<<>>} /\ entry = [node \in {<<>>} |-> 0]
  /\ current = <<>>
  /\ ip_dest \in Address
  /\ pc = "insert"
  /\ result = 0

Child(bit) == Append(current, bit)

-----------------------------------------------------------------------------
(* insert_route, for each row in order. *)

Inserting == pc = "insert" /\ row <= Len(rtable)

prefix == rtable[row].prefix

\* Mutant: the new child is not linked to its parent.
InsertUnlinked ==
  /\ Inserting /\ Len(current) < Len(prefix)
  /\ current' = Child(prefix[Len(current) + 1])
  /\ UNCHANGED <<rtable, row, trie, lookup, pc>>

\* The next bit of the prefix: the child is allocated if it is missing.
InsertLevel ==
  /\ Inserting /\ Len(current) < Len(prefix)
  /\ LET child == Child(prefix[Len(current) + 1])
     IN  /\ nodes' = nodes \cup {child}
         /\ entry' = [node \in nodes' |-> IF node \in nodes THEN entry[node] ELSE 0]
         /\ current' = child
  /\ UNCHANGED <<rtable, row, lookup, pc>>

\* Mutant: a node that already ends a route keeps its first entry.
EndRouteOnce ==
  /\ Inserting /\ Len(current) = Len(prefix)
  /\ entry' = [entry EXCEPT ![current] = IF @ = 0 THEN row ELSE @]
  /\ row' = row + 1
  /\ current' = <<>>
  /\ UNCHANGED <<rtable, nodes, lookup, pc>>

EndRoute ==
  /\ Inserting /\ Len(current) = Len(prefix)
  /\ entry' = [entry EXCEPT ![current] = row]
  /\ row' = row + 1
  /\ current' = <<>>
  /\ UNCHANGED <<rtable, nodes, lookup, pc>>

BuiltTrie ==
  /\ pc = "insert" /\ row > Len(rtable)
  /\ pc' = "lookup"
  /\ UNCHANGED <<rtable, row, trie, current, lookup>>

-----------------------------------------------------------------------------
(* get_best_route. *)

HasChild == Len(current) < Width /\ Child(ip_dest[Len(current) + 1]) \in nodes

\* Mutant: the walk follows the wrong child.
WalkAside ==
  /\ pc = "lookup" /\ HasChild
  /\ current' = IF Child(1) \in nodes THEN Child(1) ELSE Child(0)
  /\ UNCHANGED <<rtable, row, trie, lookup, pc>>

Walk ==
  /\ pc = "lookup" /\ HasChild
  /\ current' = Child(ip_dest[Len(current) + 1])
  /\ UNCHANGED <<rtable, row, trie, lookup, pc>>

\* Mutant: the walk stops at the first node that ends a route.
ReturnFirst ==
  /\ pc = "lookup" /\ (~HasChild \/ entry[current] # 0)
  /\ result' = entry[current]
  /\ pc' = "done"
  /\ UNCHANGED <<rtable, row, trie, current, ip_dest>>

\* No child for the next bit, or no bit left: only this node is looked at.
Return ==
  /\ pc = "lookup" /\ ~HasChild
  /\ result' = entry[current]
  /\ pc' = "done"
  /\ UNCHANGED <<rtable, row, trie, current, ip_dest>>

Next == InsertLevel \/ EndRoute \/ BuiltTrie \/ Walk \/ Return

Spec == Init /\ [][Next]_vars

-----------------------------------------------------------------------------
TypeOK ==
  /\ rtable \in Tables
  /\ row \in 1 .. Len(rtable) + 1
  /\ nodes \subseteq Seq(Bit) /\ \A node \in nodes : Len(node) <= Width
  /\ entry \in [nodes -> 0 .. Len(rtable)]
  /\ current \in nodes
  /\ ip_dest \in Address
  /\ pc \in {"insert", "lookup", "done"}
  /\ result \in 0 .. Len(rtable)

\* The trie and the walk over it compute the closed form that the router's model
\* uses, for tables with equal, nested and empty prefixes in any order
\* (router.c insert_route, get_best_route).
ReturnsBestRoute == pc = "done" => result = get_best_route(rtable, ip_dest)

Covering == {j \in DOMAIN rtable : Covers(rtable[j], ip_dest)}

\* A route that is found covers the address and no route of the table covers it
\* with a longer prefix; of equal prefixes the last one counts.
FoundIsLongest ==
  pc = "done" /\ result # 0 =>
    /\ result \in Covering
    /\ \A j \in Covering :
         /\ Len(rtable[j].prefix) <= Len(rtable[result].prefix)
         /\ rtable[j].prefix = rtable[result].prefix => j <= result

\* A covered address is missed only when the walk was led off by a longer prefix
\* of the table that shares more bits with the address than any covering one.
MissedOnlyIfLedOff ==
  pc = "done" /\ result = 0 =>
    \A j \in Covering :
      \E l \in DOMAIN rtable, k \in Len(rtable[j].prefix) + 1 .. Width :
        /\ k <= Len(rtable[l].prefix)
        /\ FirstBits(rtable[l].prefix, k) = FirstBits(ip_dest, k)

-----------------------------------------------------------------------------
\* "caut cel mai lung prefix pentru ip-ul cautat" (README): an address that some
\* route covers is routed.
LongestPrefixFound == pc = "done" /\ Covering # {} => result # 0
=============================================================================
