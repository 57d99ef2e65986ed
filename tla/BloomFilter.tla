---------------------------- MODULE BloomFilter -----------------------------
(***************************************************************************)
(* bloomfilter/bloomfilter.c: the filter on top of its bitset.  The hash   *)
(* of a key is a constant; uint32_t has Low * High values, a hash being a  *)
(* low and a high part, which delta swaps.                                 *)
(***************************************************************************)
EXTENDS BitSet

CONSTANTS
  Element,    \* the keys
  HashOf,     \* _bloom_hash of each of them
  Low,        \* 2^17 in the code, the values of a hash's low part
  High,       \* 2^15 in the code, those of its high part
  probes,     \* filter->k
  Capacities  \* the capacities that programs pass to bloomfilter_new

ASSUME HashAssumption ==
  /\ Low \in Nat \ {0} /\ High \in Nat \ {0}
  /\ HashOf \in [Element -> 0 .. Low * High - 1]
ASSUME ProbesAssumption == probes \in 1 .. 30
ASSUME CapacitiesAssumption == Capacities \subseteq Nat \ {0}

VARIABLES
  capacity,  \* filter->capacity
  count,     \* filter->count
  hasSet,    \* whether filter->set is not NULL
  added      \* the keys that bloomfilter_add accepted

bloomVars == <<bitVars, capacity, count, hasSet, added>>

\* nbits = capacity * ceilf(k / 0.69).  If bitset_new returns NULL, so that
\* filter->set is NULL, the filter is returned all the same.
bloomfilter_new ==
  /\ capacity \in Capacities
  /\ bitset_new(capacity * ((100 * probes + 68) \div 69))
  /\ count = 0
  /\ hasSet \in BOOLEAN

BloomInit == bloomfilter_new /\ added = {}

nbits == bitLength

\* (h >> 17) | (h << 15)
delta(h) == (h \div Low) + ((h * High) % (Low * High))

\* The values that bitpos takes; h wraps around.
Positions(k) ==
  LET h == HashOf[k]
  IN  {((h + i * delta(h)) % (Low * High)) % nbits : i \in 0 .. probes - 1}

\* Mutant: h starts one step further than in bloomfilter_check.
AddsNextPositions(k) ==
  LET h == HashOf[k]
  IN  {((h + i * delta(h)) % (Low * High)) % nbits : i \in 1 .. probes}

AddPositions(k) == Positions(k)

\* count > capacity is refused; bitset_set does nothing with a NULL set, and
\* the key is accepted all the same.
bloomfilter_add(k) ==
  /\ count <= capacity
  /\ IF hasSet
       THEN /\ bytes' = WithOnes(bytes, AddPositions(k))
            /\ ones' = ones \union AddPositions(k)
       ELSE UNCHANGED <<bytes, ones>>
  /\ count' = count + 1
  /\ added' = added \union {k}
  /\ UNCHANGED <<bitLength, capacity, hasSet>>

bloomfilter_check(k) == hasSet /\ \A n \in Positions(k) : bitset_get(n) = 1

BloomNext == \E k \in Element : bloomfilter_add(k)

BloomSpec == BloomInit /\ [][BloomNext]_bloomVars
-----------------------------------------------------------------------------
(* Properties.                                                             *)

\* A filter that has its bitset says of every key that was accepted that it
\* is there, however many others came after it, and sets no bit that is not
\* its own.
NoFalseNegative ==
  /\ hasSet => \A k \in added : bloomfilter_check(k)
  /\ ones \subseteq 0 .. nbits - 1

\* "一旦创建后，不允许加入大于此数的元素": a filter that has its bitset accepts no
\* more keys than its capacity.
WithinCapacity == hasSet => Cardinality(added) <= capacity
-----------------------------------------------------------------------------
\* The inductive invariant behind the theorem about NoFalseNegative.
BloomInv ==
  /\ BitInv
  /\ nbits > 0 /\ hasSet \in BOOLEAN
  /\ added \subseteq Element
  /\ hasSet => \A k \in added : Positions(k) \subseteq ones
=============================================================================
