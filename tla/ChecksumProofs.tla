--------------------------- MODULE ChecksumProofs ---------------------------
(***************************************************************************)
(* What the checksum of lib.c promises, for every header and message whose *)
(* words add up to less than 2^32: far more than 1600 bytes can hold.      *)
(***************************************************************************)
EXTENDS Checksum, TLAPS

Sum == {n \in Nat : n < 65536 * 65536}

\* The high and the low half of a sum.
LEMMA Halves ==
  ASSUME NEW s \in Sum
  PROVE  /\ Carry(s) \in Nat /\ Carry(s) <= 65535
         /\ Low(s) \in Nat /\ Low(s) <= 65535
         /\ s = 65536 * Carry(s) + Low(s)
BY DEF Sum, Carry, Low

\* A half word and a carry come out of the folding by cases.
LEMMA FoldCases ==
  ASSUME NEW s \in Sum
  PROVE  LET f == Carry(s) + Low(s)
         IN  /\ f \in Nat /\ f <= 131070
             /\ f <= 65535 => checksum(s) = 65535 - f
             /\ f > 65535 => checksum(s) = 131070 - f
<1> DEFINE f == Carry(s) + Low(s)
<1>1. f \in Nat /\ f <= 131070
  BY Halves
<1>2. checksum(s) = 65535 - ((f + (f \div 65536)) % 65536)
  BY DEF checksum, Carry, Low
<1> HIDE DEF f
<1>3. CASE f <= 65535
  <2>1. f \div 65536 = 0 /\ f % 65536 = f
    BY <1>1, <1>3
  <2> QED
    BY <1>1, <1>2, <1>3, <2>1 DEF f
<1>4. CASE f > 65535
  <2>1. f \div 65536 = 1
    BY <1>1, <1>4
  <2>2. (f + 1) % 65536 = f - 65535
    BY <1>1, <1>4
  <2> QED
    BY <1>1, <1>2, <1>4, <2>1, <2>2 DEF f
<1> QED
  BY <1>1, <1>3, <1>4

\* The remainder of a sum is that of its folded halves.
LEMMA RemainderOfFold ==
  ASSUME NEW s \in Sum
  PROVE  s % 65535 = (Carry(s) + Low(s)) % 65535
<1>1. s = 65535 * Carry(s) + (Carry(s) + Low(s))
  BY Halves
<1> QED
  BY <1>1, Halves

\* The result is a word.
LEMMA ChecksumIsWord ==
  ASSUME NEW s \in Sum
  PROVE  checksum(s) \in Word
BY FoldCases DEF Word

\* main forwards a header exactly when checksum returns 0 (router.c 337): that is
\* when the words, their checksum among them, add up to a multiple of 65535 and are
\* not all zero.
THEOREM ZeroMeansSound ==
  ASSUME NEW s \in Sum
  PROVE  checksum(s) = 0 <=> Verifies(s)
<1> DEFINE f == Carry(s) + Low(s)
<1>1. f \in Nat /\ f <= 131070 /\ (f = 0 <=> s = 0)
  BY Halves
<1>2. checksum(s) = 0 <=> f = 65535 \/ f = 131070
  BY FoldCases
<1>3. s % 65535 = f % 65535
  BY RemainderOfFold
<1> HIDE DEF f
<1>4. f % 65535 = 0 <=> f = 0 \/ f = 65535 \/ f = 131070
  BY <1>1
<1>5. s > 0 <=> s # 0
  BY DEF Sum
<1> QED
  BY <1>1, <1>2, <1>3, <1>4, <1>5 DEF Verifies

\* Whatever the words, setting the checksum field to 0, adding them up and storing
\* checksum of the sum gives a header that verifies (router.c 103-105, 112-114,
\* 132-135, 146-148, 352-354).
THEOREM WrittenVerifies ==
  ASSUME NEW s \in Sum
  PROVE  Verifies(s + checksum(s))
<1> DEFINE f == Carry(s) + Low(s)
<1>1. f \in Nat /\ f <= 131070 /\ s = 65535 * Carry(s) + f /\ Carry(s) \in Nat /\ Carry(s) <= 65535
  BY Halves
<1>2. /\ f <= 65535 => checksum(s) = 65535 - f
      /\ f > 65535 => checksum(s) = 131070 - f
  BY FoldCases
<1> DEFINE c == Carry(s)
<1> HIDE DEF f, c
<1>3. CASE f <= 65535
  <2>1. s + checksum(s) = 65535 * (c + 1)
    BY <1>1, <1>2, <1>3 DEF c
  <2>2. c \in Nat /\ c <= 65535
    BY <1>1 DEF c
  <2> QED
    BY <2>1, <2>2 DEF Verifies
<1>4. CASE f > 65535
  <2>1. s + checksum(s) = 65535 * (c + 2)
    BY <1>1, <1>2, <1>4 DEF c
  <2>2. c \in Nat /\ c <= 65535
    BY <1>1 DEF c
  <2> QED
    BY <2>1, <2>2 DEF Verifies
<1> QED
  BY <1>1, <1>3, <1>4

\* One word of a sound header that is changed on the way is noticed, unless all
\* its zeros became ones or the reverse (router.c 337).
THEOREM ChangedWordNoticed ==
  ASSUME NEW s \in Sum, NEW t \in Sum, checksum(s) = 0,
         s # t, s - t < 65535, t - s < 65535
  PROVE  checksum(t) # 0
<1>1. s % 65535 = 0
  BY ZeroMeansSound DEF Verifies
<1>2. t % 65535 # 0
  <2> DEFINE n == s \div 65535
  <2>1. s = 65535 * n /\ n \in Nat
    BY <1>1 DEF Sum
  <2> HIDE DEF n
  <2>2. t - 65535 * n < 65535 /\ 65535 * n - t < 65535 /\ t # 65535 * n
    BY <2>1 DEF Sum
  <2>3. CASE t > 65535 * n
    <3>1. t = 65535 * n + (t - 65535 * n) /\ 0 < t - 65535 * n /\ t - 65535 * n < 65535
      BY <2>1, <2>2, <2>3
    <3> QED
      BY <2>1, <3>1
  <2>4. CASE t < 65535 * n
    <3>1. t = 65535 * (n - 1) + (t - 65535 * (n - 1)) /\ 0 < t - 65535 * (n - 1) /\ t - 65535 * (n - 1) < 65535
      BY <2>1, <2>2, <2>4
    <3> QED
      BY <2>1, <3>1 DEF Sum
  <2> QED
    BY <2>1, <2>2, <2>3, <2>4 DEF Sum
<1> QED
  BY <1>2, ZeroMeansSound DEF Verifies
=============================================================================
