-------------------------- MODULE RouterListProofs --------------------------
(***************************************************************************)
(* The linked list of queue.c is the queue of the router, for any number   *)
(* of cells and however malloc picks them, and the router that keeps it    *)
(* does nothing the router of Router does not.                             *)
(***************************************************************************)
EXTENDS RouterList, RouterProofs

-----------------------------------------------------------------------------
(* The operations of queue.c on any list. *)

IsMemory(cells) == cells = [a \in DOMAIN cells |-> cells[a]]

\* A head, a tail and a memory of cells.
IsList(l) ==
  /\ l = [head |-> l.head, tail |-> l.tail, cells |-> l.cells]
  /\ DOMAIN l.cells \subseteq Cell /\ IsMemory(l.cells)

\* A list is empty when it holds nothing.
LEMMA EmptyHoldsNone ==
  ASSUME NEW l, IsList(l), NEW S, NEW s \in Seq(S), Holds(l, s)
  PROVE  queue_empty(l) <=> s = <<>>
<1>1. PICK path \in [1 .. Len(s) -> DOMAIN l.cells] : Leads(l, path, s)
  BY DEF Holds
<1>2. CASE s = <<>>
  BY <1>1, <1>2 DEF Leads, queue_empty
<1>3. CASE s # <<>>
  <2>1. 1 \in 1 .. Len(s)
    BY <1>3
  <2>2. l.head = path[1] /\ path[1] \in Cell
    BY <1>1, <1>3, <2>1 DEF Leads, IsList
  <2> QED BY <1>3, <2>2, ListAssumption DEF queue_empty
<1> QED BY <1>2, <1>3

\* queue_enq adds its element at the end, in whichever free cell.
LEMMA EnqHolds ==
  ASSUME NEW l, IsList(l), NEW S, NEW s \in Seq(S), Holds(l, s),
         NEW e \in S, NEW c \in Free(l)
  PROVE  IsList(queue_enq(l, e, c)) /\ Holds(queue_enq(l, e, c), Append(s, e))
<1> DEFINE n == Len(s)
           t == queue_enq(l, e, c)
           u == Append(s, e)
<1>1. PICK path \in [1 .. n -> DOMAIN l.cells] : Leads(l, path, s)
  BY DEF Holds
<1>2. /\ n \in Nat /\ DOMAIN s = 1 .. n /\ c \in Cell /\ c \notin DOMAIN l.cells /\ c # NULL
      /\ u \in Seq(S) /\ Len(u) = n + 1 /\ DOMAIN u = 1 .. (n + 1) /\ u # <<>>
      /\ u[n + 1] = e /\ \A k \in 1 .. n : u[k] = s[k]
  BY ListAssumption DEF Free
<1>3. queue_empty(l) <=> s = <<>>
  BY EmptyHoldsNone
<1> DEFINE way == [k \in 1 .. (n + 1) |-> IF k = n + 1 THEN c ELSE path[k]]
<1>4. CASE s = <<>>
  <2> DEFINE new == constr(l.cells, c, e)
  <2>1. t = [head |-> c, tail |-> c, cells |-> new]
    BY <1>3, <1>4 DEF queue_enq
  <2>2. n = 0 /\ DOMAIN l.cells = {}
    BY <1>1, <1>4 DEF Leads
  <2>3. /\ IsMemory(new) /\ DOMAIN new = {c}
        /\ new[c] = [element |-> e, next |-> NULL]
    <3>1. /\ IsMemory(new) /\ DOMAIN new = DOMAIN l.cells \cup {c}
          /\ new[c] = [element |-> e, next |-> NULL]
      BY DEF constr, IsMemory
    <3> HIDE DEF new
    <3> QED BY <2>2, <3>1
  <2> HIDE DEF new
  <2>4. t.head = c /\ t.tail = c /\ t.cells = new
    BY <2>1
  <2> HIDE DEF t, u
  <2>5. IsList(t)
    BY <1>2, <2>1, <2>3, <2>4 DEF IsList
  <2>6. way \in [1 .. Len(u) -> DOMAIN t.cells] /\ way[1] = c /\ DOMAIN way = {1}
    BY <1>2, <2>2, <2>3, <2>4
  <2> HIDE DEF way
  <2>7. Leads(t, way, u)
    BY <1>2, <2>2, <2>3, <2>4, <2>6 DEF Leads
  <2> QED BY <2>5, <2>6, <2>7 DEF Holds, t, u
<1>5. CASE s # <<>>
  <2> DEFINE old == [l.cells EXCEPT ![l.tail].next = c]
             new == constr(old, c, e)
  <2>1. n > 0 /\ n \in 1 .. n /\ l.tail = path[n] /\ l.head = path[1] /\ 1 \in 1 .. n
        /\ path[n] \in DOMAIN l.cells
    BY <1>1, <1>2, <1>5 DEF Leads
  <2>2. t = [l EXCEPT !.tail = c, !.cells = new]
    BY <1>3, <1>5 DEF queue_enq
  <2>3. t = [head |-> path[1], tail |-> c, cells |-> new]
    BY <2>1, <2>2 DEF IsList
  <2>4. l.cells[path[n]] = [element |-> s[n], next |-> NULL]
    BY <1>1, <2>1 DEF Leads
  <2>5. /\ DOMAIN old = DOMAIN l.cells
        /\ old[path[n]] = [element |-> s[n], next |-> c]
        /\ \A a \in DOMAIN l.cells : a # path[n] => old[a] = l.cells[a]
    BY <2>1, <2>4 DEF IsList, IsMemory
  <2> HIDE DEF old
  <2>6. /\ IsMemory(new) /\ DOMAIN new = DOMAIN l.cells \cup {c}
        /\ new[c] = [element |-> e, next |-> NULL]
        /\ \A a \in DOMAIN l.cells : a # c => new[a] = old[a]
    <3>1. /\ IsMemory(new) /\ DOMAIN new = DOMAIN old \cup {c}
          /\ new[c] = [element |-> e, next |-> NULL]
          /\ \A a \in DOMAIN old : a # c => new[a] = old[a]
      BY DEF constr, IsMemory
    <3> HIDE DEF new
    <3> QED BY <2>5, <3>1
  <2> HIDE DEF new
  <2>7. t.head = path[1] /\ t.tail = c /\ t.cells = new
    BY <2>3
  <2> HIDE DEF t, u
  <2>8. IsList(t)
    BY <1>2, <2>3, <2>6, <2>7 DEF IsList
  <2>9. /\ way \in [1 .. Len(u) -> DOMAIN t.cells] /\ DOMAIN way = 1 .. (n + 1)
        /\ way[n + 1] = c /\ \A k \in 1 .. n : way[k] = path[k] /\ way[k] \in DOMAIN l.cells
    BY <1>2, <2>6, <2>7
  <2> HIDE DEF way
  <2>10. /\ \A k \in 1 .. n : l.cells[path[k]] = [element |-> s[k],
                                                  next |-> IF k = n THEN NULL ELSE path[k + 1]]
         /\ \A k, m \in 1 .. n : path[k] = path[m] => k = m
         /\ {path[k] : k \in 1 .. n} = DOMAIN l.cells
    BY <1>1, <1>2 DEF Leads
  <2> HIDE DEF n
  <2>11. {way[k] : k \in DOMAIN way} = DOMAIN t.cells
    <3>1. \A k \in 1 .. (n + 1) : way[k] \in DOMAIN l.cells \cup {c}
      BY <1>2, <2>9
    <3>2. \A a \in DOMAIN l.cells : \E k \in 1 .. (n + 1) : way[k] = a
      <4> TAKE a \in DOMAIN l.cells
      <4>1. PICK k \in 1 .. n : path[k] = a
        BY <2>10
      <4> QED BY <1>2, <2>9, <4>1
    <3>3. n + 1 \in 1 .. (n + 1)
      BY <1>2
    <3> QED BY <2>6, <2>7, <2>9, <3>1, <3>2, <3>3
  <2>12. \A k, m \in DOMAIN way : way[k] = way[m] => k = m
    BY <1>2, <2>9, <2>10
  <2>13. ASSUME NEW k \in DOMAIN way
         PROVE  t.cells[way[k]] = [element |-> u[k],
                                   next |-> IF k = n + 1 THEN NULL ELSE way[k + 1]]
    <3>1. CASE k = n + 1
      BY <1>2, <2>6, <2>7, <2>9, <3>1
    <3>2. CASE k = n
      <4>1. new[path[n]] = [element |-> s[n], next |-> c]
        BY <1>2, <2>1, <2>5, <2>6
      <4> QED BY <1>2, <2>1, <2>7, <2>9, <3>2, <4>1
    <3>3. CASE k \in 1 .. n /\ k # n
      <4>1. path[k] # path[n] /\ path[k] \in DOMAIN l.cells /\ path[k] # c
        BY <1>2, <2>1, <2>9, <2>10, <3>3
      <4>2. new[path[k]] = [element |-> s[k], next |-> path[k + 1]]
        BY <2>5, <2>6, <2>10, <3>3, <4>1
      <4>3. way[k] = path[k] /\ way[k + 1] = path[k + 1] /\ u[k] = s[k] /\ k # n + 1
        BY <1>2, <2>9, <3>3
      <4> QED BY <2>7, <4>2, <4>3
    <3> QED BY <1>2, <2>9, <3>1, <3>2, <3>3
  <2>14. t.head = way[1] /\ t.tail = way[Len(u)] /\ DOMAIN way = DOMAIN u
    BY <1>2, <2>1, <2>7, <2>9
  <2>15. Leads(t, way, u)
    BY <1>2, <2>11, <2>12, <2>13, <2>14 DEF Leads
  <2> QED BY <2>8, <2>9, <2>15 DEF Holds, t, u
<1> QED BY <1>4, <1>5

\* queue_deq takes the first element away and frees its cell.
LEMMA DeqHolds ==
  ASSUME NEW l, IsList(l), NEW S, NEW s \in Seq(S), s # <<>>, Holds(l, s)
  PROVE  IsList(queue_deq(l)) /\ Holds(queue_deq(l), Tail(s))
<1> DEFINE n == Len(s)
           t == queue_deq(l)
           u == Tail(s)
<1>1. PICK path \in [1 .. n -> DOMAIN l.cells] : Leads(l, path, s)
  BY DEF Holds
<1>2. /\ n \in Nat /\ n > 0 /\ DOMAIN s = 1 .. n /\ 1 \in 1 .. n /\ n \in 1 .. n
      /\ u \in Seq(S) /\ Len(u) = n - 1 /\ DOMAIN u = 1 .. (n - 1) /\ (u = <<>> <=> n = 1)
      /\ \A k \in 1 .. (n - 1) : k + 1 \in 1 .. n /\ u[k] = s[k + 1]
  <2>1. n \in Nat /\ n > 0 /\ DOMAIN s = 1 .. n
    OBVIOUS
  <2>2. /\ u \in Seq(S) /\ Len(u) = n - 1 /\ \A k \in 1 .. (n - 1) : u[k] = s[k + 1]
    OBVIOUS
  <2>3. DOMAIN u = 1 .. (n - 1) /\ (u = <<>> <=> Len(u) = 0)
    BY <2>2
  <2> HIDE DEF n, u
  <2> QED BY <2>1, <2>2, <2>3
<1>3. /\ \A k \in 1 .. n : path[k] \in DOMAIN l.cells
      /\ \A k \in 1 .. n : l.cells[path[k]] = [element |-> s[k],
                                               next |-> IF k = n THEN NULL ELSE path[k + 1]]
      /\ \A k, m \in 1 .. n : path[k] = path[m] => k = m
      /\ {path[k] : k \in 1 .. n} = DOMAIN l.cells
      /\ l.head = path[1] /\ l.tail = path[n]
  BY <1>1, <1>2 DEF Leads
<1> DEFINE kept == [a \in DOMAIN l.cells \ {path[1]} |-> l.cells[a]]
           first == IF n = 1 THEN NULL ELSE path[2]
           way == [k \in 1 .. (n - 1) |-> path[k + 1]]
<1>4. t = [head |-> first, tail |-> path[n], cells |-> kept]
  <2>1. l.cells[path[1]].next = first
    <3>1. l.cells[path[1]] = [element |-> s[1], next |-> IF 1 = n THEN NULL ELSE path[1 + 1]]
      BY <1>2, <1>3
    <3>2. 1 + 1 = 2 /\ (1 = n <=> n = 1)
      OBVIOUS
    <3> HIDE DEF n
    <3> QED BY <3>1, <3>2
  <2>2. t = [l EXCEPT !.head = l.cells[l.head].next,
                      !.cells = [a \in DOMAIN l.cells \ {l.head} |-> l.cells[a]]]
    BY DEF queue_deq
  <2> HIDE DEF first, t
  <2> QED BY <1>3, <2>1, <2>2 DEF IsList
<1>5. /\ IsMemory(kept) /\ DOMAIN kept = DOMAIN l.cells \ {path[1]}
      /\ \A a \in DOMAIN kept : kept[a] = l.cells[a]
  BY DEF IsMemory
<1> HIDE DEF kept
<1>6. t.head = first /\ t.tail = path[n] /\ t.cells = kept
  BY <1>4
<1> HIDE DEF t, u
<1>7. IsList(t)
  BY <1>4, <1>5, <1>6 DEF IsList
<1>8. /\ way \in [1 .. (n - 1) -> DOMAIN kept] /\ DOMAIN way = 1 .. (n - 1)
      /\ \A k \in 1 .. (n - 1) : way[k] = path[k + 1]
  <2>1. \A k \in 1 .. (n - 1) : path[k + 1] \in DOMAIN kept
    <3> TAKE k \in 1 .. (n - 1)
    <3>1. k + 1 \in 1 .. n /\ k + 1 # 1 /\ 1 \in 1 .. n
      BY <1>2
    <3> HIDE DEF n
    <3> QED BY <1>3, <1>5, <3>1
  <2> QED BY <2>1
<1> HIDE DEF way, n
<1>9. {way[k] : k \in DOMAIN way} = DOMAIN kept
  <2>1. \A k \in DOMAIN way : way[k] \in DOMAIN kept
    BY <1>8
  <2>2. ASSUME NEW a \in DOMAIN kept PROVE \E k \in DOMAIN way : way[k] = a
    <3>1. PICK k \in 1 .. n : path[k] = a
      BY <1>3, <1>5
    <3>2. k # 1 /\ k - 1 \in 1 .. (n - 1) /\ (k - 1) + 1 = k
      BY <1>2, <1>5, <3>1
    <3>3. k - 1 \in DOMAIN way /\ way[k - 1] = path[(k - 1) + 1]
      BY <1>8, <3>2
    <3> QED BY <3>1, <3>2, <3>3
  <2> QED BY <2>1, <2>2
<1>10. \A k, m \in DOMAIN way : way[k] = way[m] => k = m
  <2> SUFFICES ASSUME NEW k \in DOMAIN way, NEW m \in DOMAIN way, way[k] = way[m] PROVE k = m
    OBVIOUS
  <2>1. k \in Nat /\ m \in Nat /\ k + 1 \in 1 .. n /\ m + 1 \in 1 .. n /\ path[k + 1] = path[m + 1]
    BY <1>2, <1>8
  <2>2. k + 1 = m + 1
    BY <1>3, <2>1
  <2> QED BY <2>1, <2>2
<1>11. ASSUME NEW k \in DOMAIN way
       PROVE  t.cells[way[k]] = [element |-> u[k],
                                 next |-> IF k = n - 1 THEN NULL ELSE way[k + 1]]
  <2>1. k \in 1 .. (n - 1) /\ k + 1 \in 1 .. n /\ way[k] = path[k + 1] /\ u[k] = s[k + 1]
    BY <1>2, <1>8
  <2>2. kept[way[k]] = [element |-> s[k + 1],
                        next |-> IF k + 1 = n THEN NULL ELSE path[(k + 1) + 1]]
    BY <1>3, <1>5, <1>8, <2>1
  <2>3. k + 1 # n => way[k + 1] = path[(k + 1) + 1]
    BY <1>2, <1>8, <2>1
  <2>4. k + 1 = n <=> k = n - 1
    BY <1>2, <2>1
  <2> QED BY <1>6, <2>1, <2>2, <2>3, <2>4
<1>12. /\ t.head = IF u = <<>> THEN NULL ELSE way[1]
       /\ u # <<>> => t.tail = way[Len(u)]
       /\ DOMAIN way = DOMAIN u
  BY <1>2, <1>6, <1>8
<1>13. Leads(t, way, u)
  BY <1>2, <1>6, <1>9, <1>10, <1>11, <1>12 DEF Leads
<1>14. way \in [1 .. Len(u) -> DOMAIN t.cells]
  BY <1>2, <1>6, <1>8
<1> QED BY <1>7, <1>13, <1>14 DEF Holds, t, u

-----------------------------------------------------------------------------
(* The list beside the queue. *)

\* The numbers of the packets in the queue.
Ids == [k \in DOMAIN q |-> q[k].id]

ListInv == IsList(list) /\ Holds(list, Ids)

LEMMA InitList == ListInit => ListInv
<1> SUFFICES ASSUME ListInit PROVE ListInv
  OBVIOUS
<1>1. q = <<>> /\ list = create_queue
  BY DEF ListInit, Init
<1>2. /\ list.head = NULL /\ list.tail = NULL /\ list.cells = [c \in {} |-> NULL]
      /\ list = [head |-> list.head, tail |-> list.tail, cells |-> list.cells]
  BY <1>1 DEF create_queue
<1>3. IsList(list)
  BY <1>2 DEF IsList, IsMemory
<1>4. Ids = <<>>
  BY <1>1 DEF Ids
<1> DEFINE path == [k \in 1 .. 0 |-> NULL]
<1>5. DOMAIN list.cells = {} /\ path \in [1 .. Len(<<>>) -> {}] /\ DOMAIN path = {}
  BY <1>2
<1> HIDE DEF path
<1>6. Leads(list, path, <<>>)
  BY <1>2, <1>5 DEF Leads
<1>7. Holds(list, <<>>)
  BY <1>5, <1>6 DEF Holds
<1> QED BY <1>3, <1>4, <1>7 DEF ListInv

\* What the operations on q do to the numbers.
LEMMA IdsOf ==
  ASSUME NEW H, q \in Seq(H)
  PROVE  /\ \A h \in H : \A n : (q' = Append(q, h) /\ h.id = n) => Ids' = Append(Ids, n)
         /\ q # <<>> => /\ Ids # <<>> /\ Head(q) \in H /\ Head(q) = q[1]
                        /\ q' = Tail(q) => Ids' = Tail(Ids)
<1>1. /\ Len(q) \in Nat /\ DOMAIN q = 1 .. Len(q)
      /\ Ids = [k \in 1 .. Len(q) |-> q[k].id] /\ Len(Ids) = Len(q)
  BY DEF Ids
<1>2. ASSUME NEW h \in H, NEW n, q' = Append(q, h), h.id = n
      PROVE  Ids' = Append(Ids, n)
  <2>1. /\ DOMAIN q' = 1 .. (Len(q) + 1) /\ q'[Len(q) + 1] = h
        /\ \A k \in 1 .. Len(q) : q'[k] = q[k]
    BY <1>1, <1>2
  <2>2. Ids' = [k \in 1 .. (Len(q) + 1) |-> q'[k].id]
    BY <2>1 DEF Ids
  <2>3. Append(Ids, n) = [k \in 1 .. (Len(q) + 1) |-> IF k = Len(q) + 1 THEN n ELSE Ids[k]]
    BY <1>1
  <2> QED BY <1>1, <1>2, <2>1, <2>2, <2>3
<1>3. ASSUME q # <<>>
      PROVE  Ids # <<>> /\ Head(q) \in H /\ Head(q) = q[1]
  BY <1>1, <1>3
<1>4. ASSUME q # <<>>, q' = Tail(q)
      PROVE  Ids' = Tail(Ids)
  <2>1. /\ DOMAIN q' = 1 .. (Len(q) - 1) /\ \A k \in 1 .. (Len(q) - 1) : q'[k] = q[k + 1]
    BY <1>1, <1>4
  <2>2. Ids' = [k \in 1 .. (Len(q) - 1) |-> q'[k].id]
    BY <2>1 DEF Ids
  <2>3. Tail(Ids) = [k \in 1 .. (Len(q) - 1) |-> Ids[k + 1]]
    BY <1>1, <1>4
  <2> QED BY <1>1, <2>1, <2>2, <2>3
<1> QED BY <1>2, <1>3, <1>4

\* The numbers of the queue are a sequence of numbers.
LEMMA IdsTyped == IInv => q \in Seq(Header) /\ Ids \in Seq(Nat)
<1> SUFFICES ASSUME IInv PROVE q \in Seq(Header) /\ Ids \in Seq(Nat)
  OBVIOUS
<1>1. q \in Seq(Header) /\ arrivals \in Seq(Packets)
  BY DEF IInv, TypeOK
<1>2. \A k \in DOMAIN q : q[k].id \in Nat
  <2>1. Known \subseteq Nat
    BY <1>1 DEF Known
  <2>2. \A k \in DOMAIN q : q[k] \in Header
    BY <1>1
  <2>3. \A h \in Header : h.id \in Known
    BY DEF Header
  <2> QED BY <2>1, <2>2, <2>3
<1> QED BY <1>1, <1>2 DEF Ids

\* Every step of the router with the list is a step of the router.
LEMMA ListStep ==
  ASSUME [ListNext]_listVars
  PROVE  [Next]_vars
BY DEF ListNext, ListHold, ListDrain, ListDrainForward, ListDrainRotate, ListDrainEnd, OffQueue,
       listVars, Next, HandlePacket, Drain

LEMMA ListNextInv ==
  ASSUME IInv, ListInv, [ListNext]_listVars
  PROVE  ListInv'
<1>1. IsList(list) /\ Holds(list, Ids) /\ q \in Seq(Header) /\ Ids \in Seq(Nat)
  BY IdsTyped DEF ListInv
<1>2. ASSUME UNCHANGED <<q, list>> PROVE ListInv'
  BY <1>1, <1>2 DEF ListInv, Ids
<1>3. ASSUME NEW p \in Packets, ListHold(p) PROVE ListInv'
  <2>1. PICK c \in Free(list) : list' = queue_enq(list, This, c)
    BY <1>3 DEF ListHold
  <2>2. q' = Append(q, Rewritten(p)) /\ Rewritten(p).id = This
    BY <1>3 DEF ListHold, Hold, Rewritten
  <2>3. This \in Nat
    BY DEF IInv, TypeOK, This
  <2>4. Ids' = Append(Ids, This)
    <3> DEFINE h == Rewritten(p)
    <3> HIDE DEF h
    <3>1. q \in Seq(Header \cup {h}) /\ h \in Header \cup {h}
      BY <1>1, SeqOfLarger
    <3> QED BY <2>2, <3>1, IdsOf DEF h
  <2> HIDE DEF This
  <2>5. IsList(list') /\ Holds(list', Append(Ids, This))
    BY <1>1, <2>1, <2>3, EnqHolds
  <2> QED BY <2>4, <2>5 DEF ListInv
<1>4. CASE ListDrainForward
  <2>1. q # <<>> /\ q' = Tail(q) /\ list' = queue_deq(list)
    BY <1>1, <1>4, LoopFacts DEF ListDrainForward, DrainForward
  <2>2. Ids # <<>> /\ Ids' = Tail(Ids)
    BY <1>1, <2>1, IdsOf
  <2>3. IsList(list') /\ Holds(list', Tail(Ids))
    BY <1>1, <2>1, <2>2, DeqHolds
  <2> QED BY <2>2, <2>3 DEF ListInv
<1>5. CASE ListDrainRotate
  <2> DEFINE rest == queue_deq(list)
             n == Head(q).id
  <2>1. q # <<>> /\ q' = Append(Tail(q), Head(q))
    BY <1>1, <1>5, LoopFacts DEF ListDrainRotate, DrainRotate
  <2>2. PICK c \in Free(rest) : list' = queue_enq(rest, n, c)
    BY <1>5 DEF ListDrainRotate
  <2>3. Ids # <<>> /\ Head(Ids) = n /\ Tail(Ids) \in Seq(Nat) /\ n \in Nat
    BY <1>1, <2>1 DEF Ids
  <2>4. Ids' = Append(Tail(Ids), n)
    BY <1>1, <2>1 DEF Ids
  <2>5. IsList(rest) /\ Holds(rest, Tail(Ids))
    BY <1>1, <2>3, DeqHolds
  <2> HIDE DEF rest, n
  <2>6. IsList(list') /\ Holds(list', Append(Tail(Ids), n))
    BY <2>2, <2>3, <2>5, EnqHolds
  <2> QED BY <2>4, <2>6 DEF ListInv
<1>6. CASE ListDrainEnd
  BY <1>2, <1>6 DEF ListDrainEnd, DrainEnd
<1>7. CASE OffQueue /\ UNCHANGED list
  BY <1>2, <1>7, EndFacts
     DEF OffQueue, Ends, Forward, ArpRequest, ArpReply, queue
<1>8. CASE UNCHANGED listVars
  BY <1>2, <1>8 DEF listVars, vars
<1> QED BY <1>3, <1>4, <1>5, <1>6, <1>7, <1>8 DEF ListNext, ListDrain

\* With the list the router does what it does without: everything shown of Router's
\* steps holds of ListSpec (queue.c 24-42).
THEOREM ListRefinesRouter == ListSpec => Init /\ [][Next]_vars
<1>1. ListInit => Init
  BY DEF ListInit
<1>2. [ListNext]_listVars => [Next]_vars
  BY ListStep
<1> QED BY <1>1, <1>2, PTL DEF ListSpec

\* On the list too, whatever blocks malloc reuses: one fate for each frame, exact
\* lengths, nobody forgotten, the right hop, one ARP entry for each address, sums
\* that verify, and the steps of the forwarder (queue.c 24-42, router.c 217-421).
THEOREM ListKeepsAll ==
  ListSpec => /\ [](TypeOK /\ OneFate /\ QueueLenExact /\ WaitsForAnAnswer)
              /\ [](ArpTableExact /\ WrittenSumsVerify /\ CutOnlyIfHeld)
              /\ ToTheNextHop /\ Promise!Safety
<1>1. IInv => TypeOK /\ OneFate /\ QueueLenExact /\ WaitsForAnAnswer
  BY FateFacts, WaitFacts DEF IInv
<1>2. IInv => ArpTableExact /\ WrittenSumsVerify /\ CutOnlyIfHeld
  BY SumsFacts DEF IInv
<1> QED BY <1>1, <1>2, ListRefinesRouter, SafetyIInv, SafetyHop, SafetySimulates, PTL

\* From head to tail the cells are those of the waiting packets, in order, and no
\* other is allocated, whichever blocks malloc reuses (queue.c 24-42, list.c 4-17).
THEOREM ListIsQueue == ListSpec => []QueueIsList
<1>1. ListSpec => []IInv
  BY ListRefinesRouter, SafetyIInv, PTL
<1>2. IInv /\ ListInv /\ [ListNext]_listVars => ListInv'
  BY ListNextInv
<1>3. ListInv => QueueIsList
  BY DEF ListInv, QueueIsList, Ids
<1> QED BY <1>1, <1>2, <1>3, InitList, PTL DEF ListSpec
=============================================================================
