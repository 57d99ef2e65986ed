--------------------------- MODULE MCBloomFilter ----------------------------
(***************************************************************************)
(* Instances of BloomFilter.  Hashes have 6 bits; their sums with delta    *)
(* wrap around or do not, and their positions overlap.                     *)
(***************************************************************************)
EXTENDS BloomFilter

Elements == {"e1", "e2", "e3", "e4", "e5"}
Hashes == [e1 |-> 5, e2 |-> 27, e3 |-> 60, e4 |-> 33, e5 |-> 63]
=============================================================================
