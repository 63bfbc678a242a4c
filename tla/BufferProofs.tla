---------------------------- MODULE BufferProofs ----------------------------
(***************************************************************************)
(* What receive_from_server relies on when it searches the whole buffer    *)
(* again after each read, for buffers and terminators of any length.       *)
(***************************************************************************)
EXTENDS Buffer, FiniteSetTheorems, TLAPS

\* A set of positions that is not empty has a least element.
LEMMA LeastPosition ==
  ASSUME NEW K \in SUBSET Nat, K # {}
  PROVE  \E x \in K : \A y \in K : x <= y
<1> DEFINE Below == {0 .. k : k \in K}
<1>1. Below \in SUBSET FiniteSubsetsOf(Nat) /\ Below # {}
  <2>1. \A k \in K : IsFiniteSet(0 .. k) /\ (0 .. k) \in SUBSET Nat
    BY FS_Interval
  <2> QED
    BY <2>1 DEF FiniteSubsetsOf
<1>2. PICK I \in Below : \A J \in Below : ~(<<J, I>> \in StrictSubsetOrdering(Nat))
  BY <1>1, WFMin, FS_StrictSubsetOrderingWellFounded
<1>3. PICK x \in K : I = 0 .. x
  BY <1>2
<1>4. \A y \in K : x <= y
  <2> SUFFICES ASSUME NEW y \in K, y < x PROVE FALSE
    OBVIOUS
  <2>1. (0 .. y) \in Below /\ (0 .. y) \subseteq (0 .. x) /\ x \in 0 .. x /\ x \notin 0 .. y
    OBVIOUS
  <2>2. <<0 .. y, 0 .. x>> \in StrictSubsetOrdering(Nat)
    BY <2>1 DEF StrictSubsetOrdering
  <2> QED
    BY <2>1, <2>2, <1>2, <1>3
<1> QED
  BY <1>4

Positions(buffer, data) == {i \in 0 .. Len(buffer) - Len(data) : LiesAt(buffer, data, i)}

\* The search is exact: -1 means that data is nowhere in the buffer, and any other
\* result is the first place where it is (buffer.c 41-62).
THEOREM FoundIsFirst ==
  ASSUME NEW Char, NEW buffer \in Seq(Char), NEW data \in Seq(Char)
  PROVE  LET i == buffer_find(buffer, data)
         IN  /\ i = -1 <=> Positions(buffer, data) = {}
             /\ i # -1 => /\ i \in Positions(buffer, data)
                          /\ \A k \in Positions(buffer, data) : i <= k
<1> DEFINE P == Positions(buffer, data)
<1>1. P \in SUBSET Nat
  BY DEF Positions
<1>2. buffer_find(buffer, data) =
        IF P = {} THEN -1 ELSE CHOOSE i \in P : \A k \in P : i <= k
  BY DEF buffer_find, Positions
<1> HIDE DEF P
<1>3. CASE P = {}
  BY <1>2, <1>3 DEF P
<1>4. CASE P # {}
  <2>1. \E i \in P : \A k \in P : i <= k
    BY <1>1, <1>4, LeastPosition
  <2>2. LET i == buffer_find(buffer, data) IN i \in P /\ \A k \in P : i <= k
    BY <1>2, <1>4, <2>1
  <2>3. buffer_find(buffer, data) # -1
    BY <2>2, <1>1
  <2> QED
    BY <2>2, <2>3, <1>4 DEF P
<1> QED
  BY <1>3, <1>4

\* What a read adds never moves what was found: header_end stays the end of the
\* same header in every later turn, however the reply is split among reads
\* (helpers.c 91-96, buffer.c 28-39).
THEOREM FoundStays ==
  ASSUME NEW Char, NEW buffer \in Seq(Char), NEW more \in Seq(Char),
         NEW data \in Seq(Char), buffer_find(buffer, data) # -1
  PROVE  buffer_find(buffer_add(buffer, more), data) = buffer_find(buffer, data)
<1> DEFINE all == buffer_add(buffer, more)
           i == buffer_find(buffer, data)
           j == buffer_find(all, data)
<1>1. all \in Seq(Char) /\ Len(all) = Len(buffer) + Len(more)
  BY DEF buffer_add
<1>2. \A k \in 1 .. Len(buffer) : all[k] = buffer[k]
  BY DEF buffer_add
<1>3. /\ i \in Positions(buffer, data)
      /\ \A k \in Positions(buffer, data) : i <= k
  BY FoundIsFirst
<1>4. Len(buffer) \in Nat /\ Len(more) \in Nat /\ Len(data) \in Nat
  OBVIOUS
<1> HIDE DEF all, i
<1>5. \A k \in 0 .. Len(buffer) - Len(data) :
        LiesAt(all, data, k) <=> LiesAt(buffer, data, k)
  <2> SUFFICES ASSUME NEW k \in 0 .. Len(buffer) - Len(data), NEW n \in 1 .. Len(data)
               PROVE  all[k + n] = buffer[k + n]
    BY DEF LiesAt
  <2>1. k + n \in 1 .. Len(buffer)
    BY <1>4
  <2> QED
    BY <2>1, <1>2
<1>6. i \in Positions(all, data)
  BY <1>1, <1>3, <1>4, <1>5 DEF Positions
<1>7. /\ j \in Positions(all, data)
      /\ \A k \in Positions(all, data) : j <= k
  BY <1>1, <1>6, FoundIsFirst
<1> HIDE DEF j
<1>8. i \in 0 .. Len(buffer) - Len(data) /\ j \in Nat
  BY <1>3, <1>7 DEF Positions
<1>9. j <= i
  BY <1>6, <1>7
<1>10. j \in Positions(buffer, data)
  BY <1>4, <1>5, <1>7, <1>8, <1>9 DEF Positions
<1>11. i <= j
  BY <1>3, <1>10
<1> QED
  BY <1>8, <1>9, <1>11 DEF all, i, j
=============================================================================
