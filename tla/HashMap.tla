------------------------------ MODULE HashMap ------------------------------
(***************************************************************************)
(* hashmap/hashmap.c: a hash table with open addressing.                   *)
(*                                                                         *)
(* A call is one step.  The loops of hashmap_put, hashmap_get and          *)
(* hashmap_delete differ only in the entry they stop at; one that meets no *)
(* such entry never ends.  The hash of a key is a constant: which keys     *)
(* collide is all that _string_hash decides.                               *)
(***************************************************************************)
EXTENDS Integers, FiniteSetsExt

CONSTANTS
  Key, Value,
  NULL,       \* no key, no value
  Hash,       \* _string_hash of every key
  Shifts,     \* after so many shifts by 5 nothing is left of a hash
  InitSize,   \* the size given to hashmap_new
  MaxUse      \* bound on map->use

TwoTo[e \in Nat] == IF e = 0 THEN 1 ELSE 2 * TwoTo[e - 1]

ASSUME HashAssumption ==
  /\ Shifts \in Nat
  /\ Hash \in [Key -> Nat]
  /\ \A k \in Key : Hash[k] < TwoTo[5 * Shifts]
\* In a table of 1 or 2 entries the test of hashmap_put lets every entry be
\* taken, and a search for another key would not end.
ASSUME SizeAssumption == \E e \in 2 .. 59 : InitSize = TwoTo[e]
\* -1 stands for a call that does not return.
ASSUME NullAssumption == NULL \notin Key \union Value /\ -1 \notin Value \union {NULL}
ASSUME MaxUseAssumption == MaxUse \in Nat

VARIABLES
  map,        \* the hashmap: its size, use and entrys
  stored,     \* what the program last stored under a key, NULL if deleted
  deleted,    \* whether hashmap_delete was ever called
  failed,     \* whether malloc ever failed in _hashmap_resize
  hung        \* whether a call is in a loop that never ends

vars == <<map, stored, deleted, failed, hung>>

Entry == [key : Key \union {NULL}, value : Value \union {NULL}, isdel : BOOLEAN]

\* The tables of n entries.
Table(n) == [size : {n}, use : Nat, entrys : [0 .. n - 1 -> Entry]]

hashmap_new(n) ==
  [size |-> n, use |-> 0,
   entrys |-> [i \in 0 .. n - 1 |->
                 [key |-> NULL, value |-> NULL, isdel |-> FALSE]]]

Init ==
  /\ map = hashmap_new(InitSize)
  /\ stored = [k \in Key |-> NULL]
  /\ deleted = FALSE
  /\ failed = FALSE
  /\ hung = FALSE
-----------------------------------------------------------------------------
(* Searching.                                                              *)

\* Mutant: index = (index << 2) + perturb + 1.
NextTimesFour(q, n) ==
  LET perturb == q.perturb \div 32
  IN  [index |-> (4 * q.index + perturb + 1) % n, perturb |-> perturb]

\* What the end of each loop makes of index and perturb.
NextProbe(q, n) ==
  LET perturb == q.perturb \div 32
  IN  [index |-> (5 * q.index + perturb + 1) % n, perturb |-> perturb]

\* The i-th entry that a search for k looks at in a table of n entries.  Once
\* perturb is 0, it takes n more steps to see all of them, and the search
\* goes on in that cycle.
Probe(k, n) ==
  LET p[i \in 0 .. Shifts + n - 1] ==
        IF i = 0 THEN [index |-> Hash[k] % n, perturb |-> Hash[k]]
        ELSE NextProbe(p[i - 1], n)
  IN  p

\* The sizes a table can have (it doubles while use * 3 >= size * 2), and the
\* probes of every key in each.
Sizes ==
  {n \in {InitSize * TwoTo[e] : e \in 0 .. MaxUse} : n <= InitSize + 3 * MaxUse}
Probes == [n \in Sizes |-> [k \in Key |->
             LET p == Probe(k, n) IN [i \in DOMAIN p |-> p[i].index]]]

Endless == -1

\* The first entry on the way of k that is one of stops.
Find(m, k, stops) ==
  LET p == Probes[m.size][k]
      S == {i \in DOMAIN p : p[i] \in stops}
  IN  IF S = {} THEN Endless ELSE p[Min(S)]

\* The entries that hold k, those that hold any key, and those without one,
\* deleted or not.
Keyed(m) == {i \in DOMAIN m.entrys : m.entrys[i].key # NULL}
Holding(m, k) == {i \in DOMAIN m.entrys : m.entrys[i].key = k}
Free(m, isdel) ==
  {i \in Holding(m, NULL) : m.entrys[i].isdel = isdel}

PutFinds(m, k) == Find(m, k, Holding(m, k) \union Holding(m, NULL))

GetFinds(m, k) == Find(m, k, Holding(m, k) \union Free(m, FALSE))

DeleteFinds(m, k) == Find(m, k, Holding(m, k) \union Free(m, TRUE))

\* What hashmap_get returns, or Endless.
Lookup(k) ==
  LET i == GetFinds(map, k)
  IN  IF i = Endless THEN Endless
      ELSE IF map.entrys[i].key = k THEN map.entrys[i].value ELSE NULL
-----------------------------------------------------------------------------
(* Growing.                                                                *)

\* hashmap_put, when its search stops: an entry without a key is taken and
\* counted, whether it was ever used or not.
Store(m, k, v) ==
  LET i == PutFinds(m, k)
  IN  [m EXCEPT !.entrys[i] = [key |-> k, value |-> v, isdel |-> FALSE],
                !.use = IF m.entrys[i].key = NULL THEN @ + 1 ELSE @]

\* Mutant: the entries are copied to where they were.
ResizeInPlace(m) ==
  [m EXCEPT !.size = 2 * @,
            !.entrys = [i \in 0 .. 2 * m.size - 1 |->
                          IF i < m.size THEN m.entrys[i]
                          ELSE [key |-> NULL, value |-> NULL, isdel |-> FALSE]]]

\* What an iteration of the loop in _hashmap_resize does with the entry e.  The
\* new table has twice the size, so that the put never finds it loaded.
Copied(c, e) ==
  IF c.olduse > 0 /\ e.key # NULL
    THEN [new |-> Store(c.new, e.key, e.value), olduse |-> c.olduse - 1]
    ELSE c

\* The loop: the new table and olduse after i iterations.
Copy(m) ==
  LET copy[i \in 0 .. m.size] ==
        IF i = 0 THEN [new |-> hashmap_new(2 * m.size), olduse |-> m.use]
        ELSE Copied(copy[i - 1], m.entrys[i - 1])
  IN  copy

\* _hashmap_resize puts the entries that have a key into a table of twice the
\* size, and takes it over if it met as many of them as use says.
_hashmap_resize(m) ==
  LET done == Copy(m)[m.size]
  IN  IF done.olduse = 0
        THEN [m EXCEPT !.size = done.new.size, !.entrys = done.new.entrys]
        ELSE m

\* Mutant: the table grows only when it is full.
IsLoadedFull(m) == m.use >= m.size

IsLoaded(m) == m.use * 3 >= m.size * 2

\* The table in which hashmap_put searches.
Grown(m, ok) == IF IsLoaded(m) /\ ok THEN _hashmap_resize(m) ELSE m
-----------------------------------------------------------------------------
(* The calls.                                                              *)

hashmap_put(k, v) ==
  /\ ~hung
  /\ map.use < MaxUse
  /\ \E ok \in BOOLEAN :
       LET m == Grown(map, ok) IN
       /\ failed' = (failed \/ (IsLoaded(map) /\ ~ok))
       /\ \/ /\ PutFinds(m, k) # Endless
             /\ map' = Store(m, k, v)
             /\ stored' = [stored EXCEPT ![k] = v]
             /\ UNCHANGED hung
          \/ /\ PutFinds(m, k) = Endless
             /\ map' = m
             /\ hung' = TRUE
             /\ UNCHANGED stored
  /\ UNCHANGED deleted

hashmap_get(k) ==
  /\ ~hung
  /\ hung' = (GetFinds(map, k) = Endless)
  /\ UNCHANGED <<map, stored, deleted, failed>>

\* Mutant: map->use-- when an entry loses its key.
DeleteLowersUse(k) ==
  /\ ~hung
  /\ deleted' = TRUE
  /\ LET i == DeleteFinds(map, k) IN
     /\ hung' = (i = Endless)
     /\ stored' = [stored EXCEPT ![k] = IF i = Endless THEN @ ELSE NULL]
     /\ map' = IF i # Endless /\ map.entrys[i].key = k
                 THEN [map EXCEPT !.entrys[i].key = NULL,
                                  !.entrys[i].isdel = TRUE,
                                  !.use = @ - 1]
                 ELSE map
  /\ UNCHANGED failed

hashmap_delete(k) ==
  /\ ~hung
  /\ deleted' = TRUE
  /\ LET i == DeleteFinds(map, k) IN
     /\ hung' = (i = Endless)
     /\ stored' = [stored EXCEPT ![k] = IF i = Endless THEN @ ELSE NULL]
     /\ map' = IF i # Endless /\ map.entrys[i].key = k
                 THEN [map EXCEPT !.entrys[i].key = NULL,
                                  !.entrys[i].isdel = TRUE]
                 ELSE map
  /\ UNCHANGED failed

\* hashmap_map calls func, which replaces the value, for the first use
\* entries that have a key.
hashmap_map(v) ==
  LET keys == Keyed(map)
      seen == {i \in keys : Cardinality({j \in keys : j < i}) < map.use}
  IN  /\ ~hung
      /\ map' = [map EXCEPT !.entrys =
                   [i \in DOMAIN @ |->
                      IF i \in seen THEN [@[i] EXCEPT !.value = v] ELSE @[i]]]
      /\ stored' = [k \in Key |-> IF stored[k] = NULL THEN NULL ELSE v]
      /\ UNCHANGED <<deleted, failed, hung>>

\* A loop that never ends.
Spin == hung /\ UNCHANGED vars

Next ==
  \/ \E k \in Key, v \in Value : hashmap_put(k, v)
  \/ \E k \in Key : hashmap_get(k)
  \/ \E k \in Key : hashmap_delete(k)
  \/ \E v \in Value : hashmap_map(v)
  \/ Spin

Spec == Init /\ [][Next]_vars
-----------------------------------------------------------------------------
(* Properties.                                                             *)

\* Every variable has its type, and the table a size it can grow to.
TypeOK ==
  /\ map.size \in Sizes
  /\ map \in Table(map.size)
  /\ map.use <= MaxUse
  /\ stored \in [Key -> Value \union {NULL}]
  /\ deleted \in BOOLEAN
  /\ failed \in BOOLEAN
  /\ hung \in BOOLEAN

\* hashmap_put and hashmap_get return as long as no entry was deleted and the
\* table could grow: whatever the keys and their hashes, the search meets an
\* entry at which it stops.
CallsReturn == hung => deleted \/ failed

\* "当 use/size >= 2/3 时，扩大表": a put that finds the table loaded makes it
\* grow, so that use never exceeds two thirds of the size by more than one,
\* as long as no entry was deleted and malloc did not fail.
LoadBounded == ~deleted /\ ~failed => 3 * (map.use - 1) < 2 * map.size

\* As long as no entry was deleted and malloc did not fail, the table grows in
\* time: it is never loaded further, and no put or get spins.
GrowsInTime == LoadBounded /\ CallsReturn

\* No entry is lost: a key that was stored and not deleted since is found
\* with the value that was stored last, whatever else was stored, deleted,
\* moved to a larger table or changed by hashmap_map in between.
StoredIsFound ==
  \A k \in Key : stored[k] # NULL => Lookup(k) = stored[k]

\* With deletes and failed mallocs too, hashmap_put and hashmap_get return as
\* long as use is below the size: a tombstone that is taken again is counted a
\* second time, but no entry is used without being counted, so that one that
\* was never used is left, and every search comes to it.
ReturnsWithRoom ==
  map.use < map.size =>
    \A k \in Key : /\ GetFinds(map, k) # Endless
                   /\ \A ok \in BOOLEAN : PutFinds(Grown(map, ok), k) # Endless

\* hashmap_delete returns for every key that is stored, and for any other once
\* an entry lost its key: it looks at every entry.  The first one that is called
\* leaves no entry with its key.
DeleteFindsKey(k) ==
  hashmap_delete(k) =>
    /\ hung' => stored[k] = NULL /\ Free(map, TRUE) = {}
    /\ ~deleted => Holding(map', k) = {}
DeletesReturn == [][\A k \in Key : DeleteFindsKey(k)]_vars

\* "当负载因子达到 2/3 时进行 resize 操作，每次增加一倍": a put that takes an entry
\* when two thirds of them have a key doubles the table, if malloc did not fail.
\* Only entries that have a key are counted, so that it makes no difference
\* whether deleted ones belong to the load.
GrowsWhenLoaded ==
  [][/\ map'.use > map.use
     /\ 3 * Cardinality(Keyed(map)) >= 2 * map.size
     /\ ~failed'
     => map'.size = 2 * map.size]_vars

\* hashmap_get returns NULL for a key that was never stored or was deleted.
\* The unit test asserts it after hashmap_delete.
DeletedIsGone ==
  \A k \in Key : stored[k] = NULL => Lookup(k) = NULL
-----------------------------------------------------------------------------
(***************************************************************************)
(* The inductive invariant behind the theorems of HashMapProofs.           *)
(***************************************************************************)

\* A table that no entry was deleted from: every key in it is found where it
\* is, so that it is there once.
Intact(m) ==
  /\ Free(m, TRUE) = {}
  /\ \A i \in Keyed(m) : GetFinds(m, m.entrys[i].key) = i

\* use counts the entries that have a key and those that lost it: where it
\* counts the first only, none was deleted.
UseInv ==
  /\ Cardinality(Keyed(map)) <= map.use
  /\ Cardinality(Keyed(map)) = map.use => Intact(map)
  /\ ~deleted => Cardinality(Keyed(map)) = map.use

\* The entries that have a key or had one; use counts each of them.
Used(m) == {i \in DOMAIN m.entrys : m.entrys[i].key # NULL \/ m.entrys[i].isdel}
UsedInv == Cardinality(Used(map)) <= map.use

\* What holds between any two calls.
IInv ==
  /\ TypeOK
  /\ UseInv
  /\ StoredIsFound
  /\ LoadBounded
  /\ CallsReturn
=============================================================================
