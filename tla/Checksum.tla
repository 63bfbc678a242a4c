------------------------------ MODULE Checksum ------------------------------
(***************************************************************************)
(* The internet checksum of Tema_1/lib/lib.c on the sum of the 16-bit words *)
(* of a header, in host order.  The router only sums even lengths.         *)
(***************************************************************************)
EXTENDS Integers

Word == {n \in Nat : n <= 65535}

Low(n) == n % 65536
Carry(n) == n \div 65536

\* Mutant: the carry of the first fold is lost.
ChecksumFoldedOnce(sum) == 65535 - Low(Carry(sum) + Low(sum))

\* The carries are folded in twice; the low 16 bits of the complement are returned.
checksum(sum) ==
  LET folded == Carry(sum) + Low(sum)
  IN  65535 - Low(folded + Carry(folded))

\* What the sum of a sound header is in ones' complement: zero, but not by having
\* only zeros.
Verifies(sum) == sum > 0 /\ sum % 65535 = 0
=============================================================================
