------------------------------- MODULE BitSet -------------------------------
(***************************************************************************)
(* bitset/bitset.c.  A byte is the set of its bits that are 1, bit 0 being *)
(* the lowest.  The byte behind the allocated ones, which bitset_count     *)
(* reads and which bitset_get and bitset_set reach when n = length and the *)
(* length is a multiple of 8, is part of the model: it holds whatever the  *)
(* heap has there.                                                         *)
(***************************************************************************)
EXTENDS Integers, FiniteSets, FiniteSetsExt

CONSTANTS
  BitLengths,  \* the lengths that programs pass to bitset_new
  HeapByte     \* what the byte behind the bitset can hold

ASSUME BitLengthsAssumption == BitLengths \subseteq Nat
ASSUME HeapByteAssumption == HeapByte \subseteq SUBSET (0 .. 7)

VARIABLES
  bitLength,  \* set->length
  bytes,      \* set->bytes, and the byte behind it
  ones        \* the bits below bitLength that were last set to 1

bitVars == <<bitLength, bytes, ones>>

Byte == 0 .. 7

\* (length + 7) / 8, also the place of the byte behind.
nbytes == (bitLength + 7) \div 8

bitset_new(n) ==
  /\ bitLength = n
  /\ \E b \in HeapByte : bytes = [i \in 0 .. nbytes |-> IF i < nbytes THEN {} ELSE b]
  /\ ones = {}

BitInit == \E n \in BitLengths : bitset_new(n)

\* (bytes[n/8] >> (n % 8)) & 1 is 1.
HasBit(b, n) == n % 8 \in b[n \div 8]

\* bytes[n/8] |= 1 << n%8, and &= ~(1 << n%8), for every n of N.
WithOnes(b, N) ==
  [i \in DOMAIN b |-> b[i] \union {n % 8 : n \in {m \in N : m \div 8 = i}}]
WithZeros(b, N) ==
  [i \in DOMAIN b |-> b[i] \ {n % 8 : n \in {m \in N : m \div 8 = i}}]
-----------------------------------------------------------------------------
bitset_get(n) == IF n <= bitLength /\ HasBit(bytes, n) THEN 1 ELSE 0

\* The other arguments, n > length and bit not 0 or 1, change nothing.
bitset_set(n, bit) ==
  /\ n <= bitLength
  /\ bytes' = IF bit = 1 THEN WithOnes(bytes, {n}) ELSE WithZeros(bytes, {n})
  /\ ones' = IF n = bitLength THEN ones
             ELSE IF bit = 1 THEN ones \union {n} ELSE ones \ {n}
  /\ UNCHANGED bitLength

\* Mutant: the mask of the next entry of lsbmask.
LastByteShort ==
  LET mbits == nbytes * 8 - bitLength
  IN  IF mbits = 0 THEN Byte ELSE 0 .. 6 - mbits

\* The last byte after memset and lsbmask.
LastByte ==
  LET mbits == nbytes * 8 - bitLength
  IN  IF mbits = 0 THEN Byte ELSE 0 .. 7 - mbits

bitset_setall ==
  /\ bytes' = [i \in 0 .. nbytes |->
       IF i = nbytes THEN bytes[i] ELSE IF i = nbytes - 1 THEN LastByte ELSE Byte]
  /\ ones' = 0 .. bitLength - 1
  /\ UNCHANGED bitLength

bitset_clearall ==
  /\ bytes' = [i \in 0 .. nbytes |-> IF i = nbytes THEN bytes[i] ELSE {}]
  /\ ones' = {}
  /\ UNCHANGED bitLength

\* What the table count[] gives for the two halves of a byte.
BitsIn == [i \in 0 .. nbytes |-> Cardinality(bytes[i])]

\* Mutant: the loop ends before the last byte.
bitset_count_short == MapThenSumSet(LAMBDA i : BitsIn[i], 0 .. nbytes - 2)

\* The loop runs to i <= nbytes.
bitset_count == MapThenSumSet(LAMBDA i : BitsIn[i], 0 .. nbytes)

BitNext ==
  \/ \E n \in 0 .. bitLength, bit \in {0, 1} : bitset_set(n, bit)
  \/ bitset_setall
  \/ bitset_clearall

BitSpec == BitInit /\ [][BitNext]_bitVars
-----------------------------------------------------------------------------
(* Properties.                                                             *)

\* bitset_get returns what the last bitset_set, bitset_setall or
\* bitset_clearall made of a bit, whatever happened to the other bits of its
\* byte and to the bit at n = length, which the functions accept.
BitsAreOnes == \A n \in 0 .. bitLength - 1 : bitset_get(n) = 1 <=> n \in ones

\* bitset_count is the number of ones as long as the two things are 0 that it
\* should not look at: the byte behind the bitset and the bit at n = length.
\* bitset_setall in particular sets no bit past the length.
CountIsOnes ==
  bytes[nbytes] = {} /\ bitset_get(bitLength) = 0 =>
    bitset_count = Cardinality(ones)
-----------------------------------------------------------------------------
\* The inductive invariant behind the theorems about BitsAreOnes and
\* CountIsOnes: every bit of the allocated bytes, but the one at n = length,
\* is 1 exactly if it is one of the ones, those past the length included.
BitInv ==
  /\ bitLength \in Nat
  /\ bytes \in [0 .. nbytes -> SUBSET Byte]
  /\ ones \subseteq 0 .. bitLength - 1
  /\ \A n \in 0 .. 8 * nbytes - 1 : n # bitLength => (HasBit(bytes, n) <=> n \in ones)
=============================================================================
