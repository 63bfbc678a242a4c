--------------------------- MODULE RouteTrieProofs ---------------------------
(***************************************************************************)
(* The trie of router.c returns what get_best_route of Routes.tla says,    *)
(* and never a route that is not the longest match, for addresses of any   *)
(* width and any routing table.                                            *)
(***************************************************************************)
EXTENDS RouteTrie, TLAPS

-----------------------------------------------------------------------------
(* Bits. *)

LEMMA FirstBitsProps ==
  ASSUME NEW s \in Seq(Bit), NEW k \in 0 .. Len(s)
  PROVE  /\ FirstBits(s, k) \in Seq(Bit)
         /\ Len(FirstBits(s, k)) = k
         /\ \A m \in 1 .. k : FirstBits(s, k)[m] = s[m]
BY DEF FirstBits

LEMMA SameBits ==
  ASSUME NEW s \in Seq(Bit), NEW t \in Seq(Bit), Len(s) = Len(t),
         \A m \in 1 .. Len(s) : s[m] = t[m]
  PROVE  s = t
OBVIOUS

LEMMA FirstOfFirst ==
  ASSUME NEW s \in Seq(Bit), NEW k \in 0 .. Len(s), NEW m \in 0 .. k
  PROVE  FirstBits(FirstBits(s, k), m) = FirstBits(s, m)
<1>1. /\ FirstBits(s, k) \in Seq(Bit) /\ Len(FirstBits(s, k)) = k
      /\ \A n \in 1 .. k : FirstBits(s, k)[n] = s[n]
  BY FirstBitsProps
<1> DEFINE a == FirstBits(FirstBits(s, k), m)
           b == FirstBits(s, m)
<1>2. a \in Seq(Bit) /\ Len(a) = m /\ \A n \in 1 .. m : a[n] = FirstBits(s, k)[n]
  BY <1>1, FirstBitsProps
<1>3. b \in Seq(Bit) /\ Len(b) = m /\ \A n \in 1 .. m : b[n] = s[n]
  BY FirstBitsProps
<1> HIDE DEF a, b
<1>4. \A n \in 1 .. m : a[n] = b[n]
  BY <1>1, <1>2, <1>3
<1> QED BY <1>2, <1>3, <1>4, SameBits DEF a, b

LEMMA AllBits ==
  ASSUME NEW s \in Seq(Bit)
  PROVE  FirstBits(s, Len(s)) = s /\ FirstBits(s, 0) = <<>>
<1>1. FirstBits(s, Len(s)) \in Seq(Bit) /\ Len(FirstBits(s, Len(s))) = Len(s)
      /\ \A m \in 1 .. Len(s) : FirstBits(s, Len(s))[m] = s[m]
  BY FirstBitsProps
<1>2. FirstBits(s, Len(s)) = s
  BY <1>1, SameBits
<1> QED BY <1>2 DEF FirstBits

LEMMA NextBit ==
  ASSUME NEW s \in Seq(Bit), NEW k \in 0 .. Len(s) - 1
  PROVE  Append(FirstBits(s, k), s[k + 1]) = FirstBits(s, k + 1)
<1>1. /\ FirstBits(s, k) \in Seq(Bit) /\ Len(FirstBits(s, k)) = k
      /\ \A n \in 1 .. k : FirstBits(s, k)[n] = s[n]
  BY FirstBitsProps
<1>2. /\ FirstBits(s, k + 1) \in Seq(Bit) /\ Len(FirstBits(s, k + 1)) = k + 1
      /\ \A n \in 1 .. k + 1 : FirstBits(s, k + 1)[n] = s[n]
  BY FirstBitsProps
<1>3. s[k + 1] \in Bit
  OBVIOUS
<1> DEFINE a == Append(FirstBits(s, k), s[k + 1])
<1>4. a \in Seq(Bit) /\ Len(a) = k + 1 /\ \A n \in 1 .. k + 1 : a[n] = s[n]
  BY <1>1, <1>3
<1> QED BY <1>2, <1>4, SameBits

-----------------------------------------------------------------------------
(* Where a walk ends. *)

LEMMA TableRows ==
  ASSUME NEW t \in Tables, NEW j \in 1 .. Len(t)
  PROVE  Len(t) \in Nat /\ t[j].prefix \in Seq(Bit) /\ Len(t[j].prefix) \in 0 .. Width
<1>1. t \in Seq([prefix : Seq(Bit)])
  BY TrieAssumption
<1>2. Len(t) \in Nat /\ j \in DOMAIN t
  BY <1>1
<1> DEFINE Rows == [prefix : Seq(Bit)]
<1>3. t[j] \in Rows
  <2>1. t \in Seq(Rows)
    BY <1>1
  <2> HIDE DEF Rows
  <2> QED BY <1>2, <2>1
<1>4. t[j].prefix \in Seq(Bit)
  BY <1>3
<1> QED BY <1>1, <1>2, <1>4, TrieAssumption

LEMMA NodesAreClosed ==
  ASSUME NEW t \in Tables, NEW rows \in 0 .. Len(t), NEW s \in Seq(Bit),
         NEW k \in 0 .. Len(s), FirstBits(s, k) \in NodesOf(t, rows), NEW m \in 0 .. k
  PROVE  FirstBits(s, m) \in NodesOf(t, rows)
<1>1. CASE FirstBits(s, k) = <<>>
  <2>1. k = 0
    BY <1>1, FirstBitsProps
  <2> QED BY <2>1 DEF NodesOf, FirstBits
<1>2. CASE FirstBits(s, k) # <<>>
  <2>1. PICK j \in 1 .. rows :
          \E l \in 0 .. Len(t[j].prefix) : FirstBits(s, k) = FirstBits(t[j].prefix, l)
    BY <1>2 DEF NodesOf
  <2>2. t[j].prefix \in Seq(Bit)
    <3>1. Len(t) \in Nat
      BY TrieAssumption
    <3>2. j \in 1 .. Len(t)
      BY <3>1
    <3> QED BY <3>2, TableRows
  <2>3. k \in 0 .. Len(t[j].prefix) /\ FirstBits(s, k) = FirstBits(t[j].prefix, k)
    BY <2>1, <2>2, FirstBitsProps
  <2>4. FirstBits(s, m) = FirstBits(t[j].prefix, m)
    BY <2>2, <2>3, FirstOfFirst
  <2>5. m \in 0 .. Len(t[j].prefix)
    BY <2>2, <2>3
  <2> QED BY <2>4, <2>5 DEF NodesOf
<1> QED BY <1>1, <1>2

LEMMA DeepestIsUnique ==
  ASSUME NEW t \in Tables, NEW ip \in Seq(Bit), NEW k \in 0 .. Len(ip),
         FirstBits(ip, k) \in NodesOf(t, Len(t)),
         k < Len(ip) => FirstBits(ip, k + 1) \notin NodesOf(t, Len(t))
  PROVE  Deepest(t, ip) = FirstBits(ip, k)
<1> DEFINE Ends(m) == /\ FirstBits(ip, m) \in NodesOf(t, Len(t))
                      /\ m < Len(ip) => FirstBits(ip, m + 1) \notin NodesOf(t, Len(t))
           l == CHOOSE m \in 0 .. Len(ip) : Ends(m)
<1>1. Len(t) \in 0 .. Len(t)
  BY TrieAssumption
<1>2. l \in 0 .. Len(ip) /\ Ends(l)
  <2>1. \E m \in 0 .. Len(ip) : Ends(m)
    OBVIOUS
  <2> HIDE DEF Ends
  <2> QED BY <2>1
<1>3. ASSUME NEW a \in 0 .. Len(ip), NEW b \in 0 .. Len(ip), Ends(a), Ends(b), a < b
      PROVE  FALSE
  <2>1. a + 1 \in 0 .. b /\ a < Len(ip)
    BY <1>3
  <2>2. FirstBits(ip, a + 1) \in NodesOf(t, Len(t))
    BY <1>1, <1>3, <2>1, NodesAreClosed
  <2> QED BY <1>3, <2>1, <2>2
<1>4. Ends(k)
  OBVIOUS
<1>5. l = k
  <2> HIDE DEF Ends, l
  <2> QED BY <1>2, <1>3, <1>4
<1> QED BY <1>5 DEF Deepest

LEMMA RowAtNext ==
  ASSUME NEW t \in Tables, NEW j \in 1 .. Len(t), NEW node
  PROVE  RowAt(t, j, node) = IF t[j].prefix = node THEN j ELSE RowAt(t, j - 1, node)
<1> DEFINE ending(rows) == {l \in 1 .. rows : t[l].prefix = node}
<1>1. j \in Nat \ {0}
  BY TrieAssumption
<1>2. CASE t[j].prefix = node
  <2>1. j \in ending(j) /\ \A l \in ending(j) : l <= j /\ l \in Nat
    BY <1>1, <1>2
  <2>2. \A m \in ending(j) : (\A l \in ending(j) : l <= m) => m = j
    BY <1>1, <2>1
  <2>3. RowAt(t, j, node) = CHOOSE m \in ending(j) : \A l \in ending(j) : l <= m
    BY <2>1 DEF RowAt
  <2> HIDE DEF ending
  <2> QED BY <1>2, <2>1, <2>2, <2>3
<1>3. CASE t[j].prefix # node
  <2>1. ending(j) = ending(j - 1)
    BY <1>1, <1>3
  <2>2. \A rows : RowAt(t, rows, node) =
          IF ending(rows) = {} THEN 0
          ELSE CHOOSE m \in ending(rows) : \A l \in ending(rows) : l <= m
    BY DEF RowAt
  <2> HIDE DEF ending
  <2> QED BY <1>3, <2>1, <2>2
<1> QED BY <1>2, <1>3

LEMMA NodesOfNext ==
  ASSUME NEW t \in Tables, NEW j \in 1 .. Len(t)
  PROVE  NodesOf(t, j) = NodesOf(t, j - 1)
           \cup {FirstBits(t[j].prefix, k) : k \in 0 .. Len(t[j].prefix)}
<1>1. 1 .. j = (1 .. j - 1) \cup {j}
  BY TrieAssumption
<1> QED BY <1>1 DEF NodesOf

-----------------------------------------------------------------------------
(* The inductive invariant. *)

\* The bits of row's prefix that the insertion has gone through.
Inserted == {FirstBits(prefix, k) : k \in 0 .. Len(current)}

NodesInv ==
  /\ pc = "insert" /\ row <= Len(rtable) =>
       /\ Len(current) <= Len(prefix) /\ current = FirstBits(prefix, Len(current))
       /\ nodes = NodesOf(rtable, row - 1) \cup Inserted
  /\ pc = "insert" /\ row > Len(rtable) => current = <<>>
  /\ row > Len(rtable) => nodes = NodesOf(rtable, Len(rtable))

EntryInv ==
  \A node \in nodes :
    /\ entry[node] = RowAt(rtable, row - 1, node)
    /\ entry[node] \in 0 .. row - 1
    /\ entry[node] = 0 => \A j \in 1 .. row - 1 : rtable[j].prefix # node
    /\ entry[node] # 0 =>
         /\ rtable[entry[node]].prefix = node
         /\ \A j \in 1 .. row - 1 : rtable[j].prefix = node => j <= entry[node]

WalkInv ==
  pc # "insert" =>
    /\ row = Len(rtable) + 1
    /\ Len(current) <= Width /\ current = FirstBits(ip_dest, Len(current))
    /\ pc = "done" => ~HasChild /\ result = entry[current]

IInv == TypeOK /\ NodesInv /\ EntryInv /\ WalkInv

-----------------------------------------------------------------------------
LEMMA InitIInv == Init => IInv
<1> SUFFICES ASSUME Init PROVE IInv
  OBVIOUS
<1> USE DEF Init
<1>1. /\ rtable \in Tables /\ Len(rtable) \in Nat
      /\ \A j \in 1 .. Len(rtable) : rtable[j].prefix \in Seq(Bit) /\ Len(rtable[j].prefix) \in 0 .. Width
  BY TrieAssumption, TableRows
<1>2. NodesOf(rtable, 0) = {<<>>}
  BY DEF NodesOf
<1>3. TypeOK
  BY <1>1, TrieAssumption DEF TypeOK
<1>4. NodesInv
  <2>1. CASE 1 <= Len(rtable)
    <3>1. prefix \in Seq(Bit) /\ FirstBits(prefix, 0) = <<>>
      BY <1>1, <2>1, AllBits DEF prefix
    <3>2. Inserted = {<<>>}
      BY <3>1 DEF Inserted
    <3> QED BY <1>1, <1>2, <2>1, <3>1, <3>2 DEF NodesInv
  <2>2. CASE Len(rtable) = 0
    BY <1>2, <2>2 DEF NodesInv
  <2> QED BY <1>1, <2>1, <2>2
<1>5. EntryInv
  <2>1. RowAt(rtable, 0, <<>>) = 0
    BY DEF RowAt
  <2> QED BY <2>1 DEF EntryInv
<1>6. WalkInv
  BY DEF WalkInv
<1> QED BY <1>3, <1>4, <1>5, <1>6 DEF IInv

\* What every action's proof starts from.
LEMMA Facts ==
  ASSUME IInv
  PROVE  /\ Len(rtable) \in Nat /\ row \in Nat \ {0}
         /\ \A j \in 1 .. Len(rtable) :
              rtable[j].prefix \in Seq(Bit) /\ Len(rtable[j].prefix) \in 0 .. Width
         /\ current \in Seq(Bit) /\ Len(current) \in 0 .. Width
         /\ ip_dest \in Seq(Bit) /\ Len(ip_dest) = Width
         /\ row <= Len(rtable) => prefix \in Seq(Bit) /\ Len(prefix) \in 0 .. Width
<1>1. /\ Len(rtable) \in Nat
      /\ \A j \in 1 .. Len(rtable) :
            rtable[j].prefix \in Seq(Bit) /\ Len(rtable[j].prefix) \in 0 .. Width
  BY TableRows, TrieAssumption DEF IInv, TypeOK
<1>2. row \in Nat \ {0} /\ current \in Seq(Bit) /\ Len(current) \in 0 .. Width
  BY <1>1, TrieAssumption DEF IInv, TypeOK
<1>3. ip_dest \in Seq(Bit) /\ Len(ip_dest) = Width
  BY TrieAssumption DEF IInv, TypeOK, Address
<1>4. row <= Len(rtable) => prefix \in Seq(Bit) /\ Len(prefix) \in 0 .. Width
  BY <1>1, <1>2 DEF prefix
<1> QED BY <1>1, <1>2, <1>3, <1>4

LEMMA InsertLevelKeeps ==
  ASSUME IInv, InsertLevel
  PROVE  IInv'
<1> DEFINE child == Child(prefix[Len(current) + 1])
<1>1. /\ pc = "insert" /\ row \in 1 .. Len(rtable) /\ Len(rtable) \in Nat
      /\ prefix \in Seq(Bit) /\ Len(prefix) \in 0 .. Width
      /\ current \in Seq(Bit) /\ Len(current) \in 0 .. Len(prefix) - 1
      /\ current = FirstBits(prefix, Len(current))
      /\ nodes = NodesOf(rtable, row - 1) \cup Inserted
  BY Facts DEF InsertLevel, Inserting, IInv, NodesInv, TypeOK
<1>2. /\ nodes' = nodes \cup {child} /\ current' = child
      /\ entry' = [node \in nodes' |-> IF node \in nodes THEN entry[node] ELSE 0]
      /\ UNCHANGED <<rtable, row, lookup, pc>> /\ prefix' = prefix
  BY DEF InsertLevel, prefix
<1>3. child = FirstBits(prefix, Len(current) + 1)
  BY <1>1, NextBit DEF Child
<1>4. child \in Seq(Bit) /\ Len(child) = Len(current) + 1
  BY <1>1, <1>3, FirstBitsProps
<1>5. /\ Inserted' = Inserted \cup {child}
      /\ UNCHANGED <<rtable, row, ip_dest, result, pc>>
  <2>1. Inserted' = {FirstBits(prefix, k) : k \in 0 .. Len(current) + 1}
    BY <1>2, <1>4 DEF Inserted
  <2> HIDE DEF child
  <2>2. 0 .. Len(current) + 1 = (0 .. Len(current)) \cup {Len(current) + 1}
    BY <1>1
  <2> QED BY <1>2, <1>3, <2>1, <2>2 DEF Inserted, lookup
<1> HIDE DEF child
<1>6. TypeOK'
  <2>1. /\ nodes' \subseteq Seq(Bit) /\ \A node \in nodes' : Len(node) <= Width
    BY <1>1, <1>2, <1>4, TrieAssumption DEF IInv, TypeOK
  <2>2. entry' \in [nodes' -> 0 .. Len(rtable)]
    BY <1>1, <1>2 DEF IInv, TypeOK
  <2> QED BY <1>2, <1>5, <2>1, <2>2 DEF IInv, TypeOK
<1>7. NodesInv'
  BY <1>1, <1>2, <1>3, <1>4, <1>5 DEF NodesInv
<1>8. EntryInv'
  <2> SUFFICES ASSUME NEW node \in nodes'
               PROVE  /\ entry'[node] = RowAt(rtable, row - 1, node)
                      /\ entry'[node] \in 0 .. row - 1
                      /\ entry'[node] = 0 => \A j \in 1 .. row - 1 : rtable[j].prefix # node
                      /\ entry'[node] # 0 =>
                           /\ rtable[entry'[node]].prefix = node
                           /\ \A j \in 1 .. row - 1 : rtable[j].prefix = node => j <= entry'[node]
    BY <1>5 DEF EntryInv
  <2>1. CASE node \in nodes
    BY <1>2, <2>1 DEF IInv, EntryInv
  <2>2. CASE node \notin nodes
    <3>1. entry'[node] = 0
      BY <1>2, <2>2
    <3>2. \A j \in 1 .. row - 1 : rtable[j].prefix # node
      <4> SUFFICES ASSUME NEW j \in 1 .. row - 1, rtable[j].prefix = node PROVE FALSE
        OBVIOUS
      <4>1. rtable[j].prefix \in Seq(Bit)
        BY <1>1, Facts
      <4>2. FirstBits(rtable[j].prefix, Len(rtable[j].prefix)) = node
        BY <4>1, AllBits
      <4>3. node \in NodesOf(rtable, row - 1)
        BY <4>1, <4>2 DEF NodesOf
      <4> QED BY <1>1, <2>2, <4>3
    <3>3. RowAt(rtable, row - 1, node) = 0
      BY <3>2 DEF RowAt
    <3> QED BY <1>1, <3>1, <3>2, <3>3
  <2> QED BY <2>1, <2>2
<1>9. WalkInv'
  BY <1>1, <1>5 DEF WalkInv
<1> QED BY <1>6, <1>7, <1>8, <1>9 DEF IInv

LEMMA EndRouteKeeps ==
  ASSUME IInv, EndRoute
  PROVE  IInv'
<1>1. /\ pc = "insert" /\ row \in 1 .. Len(rtable) /\ Len(rtable) \in Nat
      /\ prefix \in Seq(Bit) /\ Len(prefix) \in 0 .. Width
      /\ current = FirstBits(prefix, Len(current)) /\ Len(current) = Len(prefix)
      /\ nodes = NodesOf(rtable, row - 1) \cup Inserted
  BY Facts DEF EndRoute, Inserting, IInv, NodesInv, TypeOK
<1>2. /\ entry' = [entry EXCEPT ![current] = row] /\ row' = row + 1 /\ current' = <<>>
      /\ UNCHANGED <<rtable, nodes, ip_dest, result, pc>>
  BY DEF EndRoute, lookup
<1>3. current = prefix
  BY <1>1, AllBits
<1>4. nodes = NodesOf(rtable, row)
  <2>1. Inserted = {FirstBits(rtable[row].prefix, k) : k \in 0 .. Len(rtable[row].prefix)}
    BY <1>1 DEF Inserted, prefix
  <2> QED BY <1>1, <2>1, NodesOfNext DEF IInv, TypeOK
<1>5. TypeOK'
  <2>1. <<>> \in nodes
    BY <1>4 DEF NodesOf
  <2>2. entry' \in [nodes -> 0 .. Len(rtable)]
    BY <1>1, <1>2 DEF IInv, TypeOK
  <2> QED BY <1>1, <1>2, <2>1, <2>2 DEF IInv, TypeOK
<1>6. NodesInv'
  <2>1. CASE row = Len(rtable)
    BY <1>1, <1>2, <1>4, <2>1 DEF NodesInv
  <2>2. CASE row < Len(rtable)
    <3>1. prefix' = rtable[row + 1].prefix /\ prefix' \in Seq(Bit)
      BY <1>1, <1>2, <2>2, Facts DEF prefix
    <3>2. FirstBits(prefix', 0) = <<>> /\ 0 <= Len(prefix')
      BY <3>1, AllBits
    <3>3. Inserted' = {<<>>}
      <4>1. Inserted' = {FirstBits(prefix', k) : k \in 0 .. 0}
        BY <1>2 DEF Inserted
      <4> QED BY <3>2, <4>1
    <3>4. <<>> \in nodes
      BY <1>4 DEF NodesOf
    <3> QED BY <1>1, <1>2, <1>4, <2>2, <3>2, <3>3, <3>4 DEF NodesInv
  <2> QED BY <1>1, <2>1, <2>2
<1>7. EntryInv'
  <2> SUFFICES ASSUME NEW node \in nodes
               PROVE  /\ entry'[node] = RowAt(rtable, row, node)
                      /\ entry'[node] \in 0 .. row
                      /\ entry'[node] = 0 => \A j \in 1 .. row : rtable[j].prefix # node
                      /\ entry'[node] # 0 =>
                           /\ rtable[entry'[node]].prefix = node
                           /\ \A j \in 1 .. row : rtable[j].prefix = node => j <= entry'[node]
    BY <1>1, <1>2 DEF EntryInv
  <2>1. RowAt(rtable, row, node) = IF rtable[row].prefix = node THEN row ELSE RowAt(rtable, row - 1, node)
    BY <1>1, RowAtNext DEF IInv, TypeOK
  <2>2. CASE node = prefix
    <3>1. entry'[node] = row
      BY <1>2, <1>3, <2>2 DEF IInv, TypeOK
    <3> QED BY <1>1, <2>1, <2>2, <3>1 DEF prefix
  <2>3. CASE node # prefix
    <3>1. entry'[node] = entry[node]
      BY <1>2, <1>3, <2>3 DEF IInv, TypeOK
    <3> QED BY <1>1, <2>1, <2>3, <3>1 DEF IInv, EntryInv, prefix
  <2> QED BY <2>2, <2>3
<1>8. WalkInv'
  BY <1>1, <1>2 DEF WalkInv
<1> QED BY <1>5, <1>6, <1>7, <1>8 DEF IInv

LEMMA BuiltTrieKeeps ==
  ASSUME IInv, BuiltTrie
  PROVE  IInv'
<1>1. /\ row = Len(rtable) + 1 /\ current = <<>> /\ pc' = "lookup"
      /\ UNCHANGED <<rtable, row, nodes, entry, current, ip_dest, result>>
  BY Facts DEF BuiltTrie, IInv, TypeOK, NodesInv, trie, lookup
<1>2. FirstBits(ip_dest, 0) = <<>>
  BY Facts, AllBits
<1>3. TypeOK' /\ NodesInv'
  BY <1>1 DEF IInv, TypeOK, NodesInv, Address
<1>4. EntryInv'
  BY <1>1 DEF IInv, EntryInv
<1>5. WalkInv'
  BY <1>1, <1>2, TrieAssumption DEF WalkInv
<1> QED BY <1>3, <1>4, <1>5 DEF IInv

LEMMA WalkKeeps ==
  ASSUME IInv, Walk
  PROVE  IInv'
<1> DEFINE child == Child(ip_dest[Len(current) + 1])
<1>1. /\ pc = "lookup" /\ Len(current) < Width /\ child \in nodes /\ current' = child
      /\ UNCHANGED <<rtable, row, nodes, entry, ip_dest, result, pc>>
  BY DEF Walk, HasChild, trie, lookup
<1>2. row = Len(rtable) + 1 /\ current = FirstBits(ip_dest, Len(current))
  BY <1>1 DEF IInv, WalkInv
<1>3. child = FirstBits(ip_dest, Len(current) + 1)
  BY <1>1, <1>2, Facts, NextBit DEF Child
<1>4. Len(child) = Len(current) + 1
  BY <1>1, <1>3, Facts, FirstBitsProps
<1> HIDE DEF child
<1>5. TypeOK' /\ NodesInv'
  BY <1>1, <1>2, Facts DEF IInv, TypeOK, NodesInv, Address
<1>6. EntryInv'
  BY <1>1 DEF IInv, EntryInv
<1>7. WalkInv'
  BY <1>1, <1>2, <1>3, <1>4, Facts DEF WalkInv
<1> QED BY <1>5, <1>6, <1>7 DEF IInv

LEMMA ReturnKeeps ==
  ASSUME IInv, Return
  PROVE  IInv'
<1>1. /\ pc = "lookup" /\ ~HasChild /\ result' = entry[current] /\ pc' = "done"
      /\ UNCHANGED <<rtable, row, nodes, entry, current, ip_dest>>
  BY DEF Return, trie
<1>2. row = Len(rtable) + 1
  BY <1>1 DEF IInv, WalkInv
<1>3. TypeOK' /\ NodesInv'
  BY <1>1, <1>2, Facts DEF IInv, TypeOK, NodesInv, Address
<1>4. EntryInv'
  BY <1>1 DEF IInv, EntryInv
<1>5. WalkInv'
  BY <1>1 DEF IInv, WalkInv, HasChild, Child
<1> QED BY <1>3, <1>4, <1>5 DEF IInv

LEMMA NextIInv == IInv /\ [Next]_vars => IInv'
<1> SUFFICES ASSUME IInv, [Next]_vars PROVE IInv'
  OBVIOUS
<1>1. CASE UNCHANGED vars
  BY <1>1 DEF IInv, TypeOK, NodesInv, EntryInv, WalkInv, Inserted, prefix, HasChild, Child,
              Address, vars
<1> QED BY <1>1, InsertLevelKeeps, EndRouteKeeps, BuiltTrieKeeps, WalkKeeps, ReturnKeeps DEF Next

THEOREM Invariance == Spec => []IInv
BY InitIInv, NextIInv, PTL DEF Spec

\* The types of the trie's insertion and of the walk (router.c 40-87).
THEOREM TypesHold == Spec => []TypeOK
<1>1. IInv => TypeOK
  BY DEF IInv
<1> QED BY <1>1, Invariance, PTL

-----------------------------------------------------------------------------
(* What the walk returns. *)

\* When the walk is over, the node it stands on.
LEMMA WalkEnds ==
  ASSUME IInv, pc = "done"
  PROVE  /\ current = FirstBits(ip_dest, Len(current)) /\ Len(current) \in 0 .. Width
         /\ current \in NodesOf(rtable, Len(rtable))
         /\ Len(current) < Width =>
              FirstBits(ip_dest, Len(current) + 1) \notin NodesOf(rtable, Len(rtable))
         /\ result = entry[current] /\ row = Len(rtable) + 1 /\ row - 1 = Len(rtable)
<1>1. /\ row = Len(rtable) + 1 /\ current = FirstBits(ip_dest, Len(current))
      /\ ~HasChild /\ result = entry[current]
  BY DEF IInv, WalkInv
<1>2. nodes = NodesOf(rtable, Len(rtable)) /\ current \in nodes
  BY <1>1, Facts DEF IInv, NodesInv, TypeOK
<1>3. ASSUME Len(current) < Width
      PROVE  FirstBits(ip_dest, Len(current) + 1) \notin nodes
  <2>1. Len(current) \in 0 .. Len(ip_dest) - 1 /\ ip_dest \in Seq(Bit)
    BY <1>3, Facts
  <2>2. Append(FirstBits(ip_dest, Len(current)), ip_dest[Len(current) + 1])
          = FirstBits(ip_dest, Len(current) + 1)
    BY <2>1, NextBit
  <2>3. Append(current, ip_dest[Len(current) + 1]) \notin nodes
    BY <1>1, <1>3 DEF HasChild, Child
  <2> QED BY <1>1, <2>2, <2>3
<1> QED BY <1>1, <1>2, <1>3, Facts

\* The closed form of the lookup that the router's model uses is what the trie
\* computes, for every table and every width (router.c 40-87).
THEOREM TrieComputesBestRoute == Spec => []ReturnsBestRoute
<1>1. ASSUME IInv, pc = "done" PROVE result = get_best_route(rtable, ip_dest)
  <2>1. Deepest(rtable, ip_dest) = current
    BY <1>1, WalkEnds, Facts, DeepestIsUnique DEF IInv, TypeOK
  <2>2. entry[current] = RowAt(rtable, Len(rtable), current)
    BY <1>1, WalkEnds DEF IInv, EntryInv, TypeOK
  <2> QED BY <1>1, <2>1, <2>2, WalkEnds DEF get_best_route
<1>2. IInv => ReturnsBestRoute
  BY <1>1 DEF ReturnsBestRoute
<1> QED BY <1>2, Invariance, PTL

\* No covering route reaches below the node where the walk ends.
LEMMA CoveringEndAbove ==
  ASSUME IInv, pc = "done", NEW j \in Covering
  PROVE  /\ j \in 1 .. Len(rtable) /\ Len(rtable[j].prefix) \in 0 .. Len(current)
         /\ rtable[j].prefix = FirstBits(ip_dest, Len(rtable[j].prefix))
         /\ rtable[j].prefix \in Seq(Bit)
<1> DEFINE p == rtable[j].prefix
<1>1. /\ j \in 1 .. Len(rtable) /\ Len(p) <= Width /\ p = FirstBits(ip_dest, Len(p))
  <2>1. j \in DOMAIN rtable /\ DOMAIN rtable = 1 .. Len(rtable)
    BY TrieAssumption DEF Covering, IInv, TypeOK
  <2> QED BY <2>1, Facts DEF Covering, Covers
<1>2. p \in Seq(Bit) /\ Len(p) \in 0 .. Width
  BY <1>1, Facts
<1> HIDE DEF p
<1>3. ASSUME Len(current) < Len(p) PROVE FALSE
  <2>1. Len(current) + 1 \in 0 .. Len(p)
    BY <1>2, <1>3, WalkEnds
  <2>2. FirstBits(ip_dest, Len(current) + 1) = FirstBits(p, Len(current) + 1)
    BY <1>1, <1>2, <2>1, Facts, FirstOfFirst
  <2>3. FirstBits(p, Len(current) + 1) \in NodesOf(rtable, Len(rtable))
    BY <1>1, <2>1 DEF NodesOf, p
  <2>4. Len(current) < Width /\ Len(current) \in Nat
    BY <1>2, <1>3, Facts, TrieAssumption
  <2> QED BY <2>2, <2>3, <2>4, WalkEnds
<1> QED BY <1>1, <1>2, <1>3, WalkEnds DEF p

\* A route that is returned is the last longest match (router.c 70-87).
THEOREM FoundRouteIsLongest == Spec => []FoundIsLongest
<1>1. ASSUME IInv, pc = "done", result # 0
      PROVE  /\ result \in Covering
             /\ \A j \in Covering :
                  /\ Len(rtable[j].prefix) <= Len(rtable[result].prefix)
                  /\ rtable[j].prefix = rtable[result].prefix => j <= result
  <2>1. /\ rtable[result].prefix = current /\ result \in 1 .. Len(rtable)
        /\ \A j \in 1 .. Len(rtable) : rtable[j].prefix = current => j <= result
    <3>1. current \in nodes /\ result = entry[current] /\ row - 1 = Len(rtable)
      BY <1>1, WalkEnds DEF IInv, TypeOK
    <3> QED BY <1>1, <3>1, Facts DEF IInv, EntryInv
  <2>2. result \in DOMAIN rtable
    BY <2>1, TrieAssumption DEF IInv, TypeOK
  <2>3. result \in Covering
    BY <1>1, <2>1, <2>2, WalkEnds, Facts DEF Covering, Covers
  <2> QED BY <1>1, <2>1, <2>3, CoveringEndAbove
<1>2. IInv => FoundIsLongest
  BY <1>1 DEF FoundIsLongest
<1> QED BY <1>2, Invariance, PTL

\* A covered address is missed only because a longer prefix leads the walk off
\* the covering ones (router.c 74-86).
THEOREM MissMeansLedOff == Spec => []MissedOnlyIfLedOff
<1>1. ASSUME IInv, pc = "done", result = 0, NEW j \in Covering
      PROVE  \E l \in DOMAIN rtable, k \in Len(rtable[j].prefix) + 1 .. Width :
               /\ k <= Len(rtable[l].prefix)
               /\ FirstBits(rtable[l].prefix, k) = FirstBits(ip_dest, k)
  <2>1. /\ j \in 1 .. Len(rtable) /\ Len(rtable[j].prefix) \in 0 .. Len(current)
        /\ rtable[j].prefix = FirstBits(ip_dest, Len(rtable[j].prefix))
    BY <1>1, CoveringEndAbove
  <2>2. rtable[j].prefix # current
    <3>1. current \in nodes /\ entry[current] = 0 /\ row - 1 = Len(rtable)
      BY <1>1, WalkEnds DEF IInv, TypeOK
    <3> QED BY <1>1, <2>1, <3>1 DEF IInv, EntryInv
  <2>3. Len(current) \in Len(rtable[j].prefix) + 1 .. Width /\ current # <<>>
    <3>1. Len(rtable[j].prefix) # Len(current)
      BY <1>1, <2>1, <2>2, WalkEnds
    <3> QED BY <1>1, <2>1, <3>1, WalkEnds
  <2>4. PICK l \in 1 .. Len(rtable) :
          \E k \in 0 .. Len(rtable[l].prefix) : current = FirstBits(rtable[l].prefix, k)
    BY <1>1, <2>3, WalkEnds DEF NodesOf
  <2>5. rtable[l].prefix \in Seq(Bit) /\ l \in DOMAIN rtable
    BY <1>1, Facts, TrieAssumption DEF IInv, TypeOK
  <2>6. /\ Len(current) <= Len(rtable[l].prefix)
        /\ FirstBits(rtable[l].prefix, Len(current)) = current
    BY <2>4, <2>5, FirstBitsProps
  <2> QED BY <1>1, <2>3, <2>5, <2>6, WalkEnds
<1>2. IInv => MissedOnlyIfLedOff
  BY <1>1 DEF MissedOnlyIfLedOff
<1> QED BY <1>2, Invariance, PTL
=============================================================================
