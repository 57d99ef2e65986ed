----------------------------- MODULE MCHashMap -----------------------------
(***************************************************************************)
(* Instances of HashMap.  Keys are numbers; their hashes collide in a      *)
(* table of 4 entries, in one of 8, and on the first probe only.           *)
(***************************************************************************)
EXTENDS HashMap

\* Keys 1, 2 and 3 start at entry 0 of a table of 4; 3 leaves their way at
\* the second probe, where perturb is 1, and 2 starts elsewhere in a table of
\* 8.  The way of 4 starts where that of 1 goes on.
HashOf == <<0, 4, 32, 1>>
HashOfKeys == [k \in Key |-> HashOf[k]]
=============================================================================
