------------------------------ MODULE SkipList ------------------------------
(***************************************************************************)
(* skiplist/skiplist.c.  A node is its key; the header is 0.  Every        *)
(* iteration of the search loops is one step, and so is every node that    *)
(* skiplist_free visits.  The random level of a new node is a choice.      *)
(* After skiplist_free the program makes a new list.  A malloc that fails  *)
(* in skiplist_insert or for the header ends the program.                  *)
(***************************************************************************)
EXTENDS Integers, FiniteSets, FiniteSetsExt, Pointers

CONSTANTS
  Key,      \* the keys, as numbers in the order of list->compare
  Value,    \* the values
  MAXLEVEL  \* SKIPLIST_MAXLEVEL

ASSUME KeyAssumption == Key \subseteq Nat \ {0} /\ IsFiniteSet(Key)
ASSUME PointerAssumption ==
  /\ NULL \notin Nat \union Value /\ WILD \notin Nat \union Value
  /\ NULL # WILD
ASSUME LevelAssumption == MAXLEVEL \in Nat \ {0}

header == 0
SkipNode == Key \union {header}
Tier == 0 .. MAXLEVEL - 1

VARIABLES
  forward,  \* forward[t][n], the pointer of node n on tier t
  valueOf,  \* the value of every node, NULL where there is none
  level,    \* list->level
  length,   \* list->length
  call,     \* the function in progress and its arguments, or NULL
  x,        \* the node the search has reached
  tier,     \* the tier it is on, -1 after the last one
  update,   \* where it left each tier
  answer    \* what the last function returned

towerVars == <<forward, valueOf, level, length>>
searchVars == <<x, tier, update>>
skipVars == <<towerVars, searchVars, call, answer>>

NoUpdate == [t \in Tier |-> WILD]

skiplist_new ==
  /\ forward = [t \in Tier |-> [n \in SkipNode |-> IF n = header THEN NULL ELSE WILD]]
  /\ valueOf = [k \in Key |-> NULL]
  /\ level = 1
  /\ length = 0

SkipInit ==
  /\ skiplist_new
  /\ call = NULL /\ answer = NULL
  /\ x = header /\ tier = -1 /\ update = NoUpdate
-----------------------------------------------------------------------------
Calls ==
  [fn : {"insert"}, key : Key, value : Value]
    \union [fn : {"search", "delete"}, key : Key, value : {NULL}]
FreeArgs == [fn |-> "free", key |-> NULL, value |-> NULL]

ASSUME CallAssumption == NULL \notin Calls \union {FreeArgs}

Freeing == call # NULL /\ call.fn = "free"
Searching == call # NULL /\ call.fn # "free"

\* skiplist_insert, skiplist_search or skiplist_delete is called.
SkipCall(c) ==
  /\ call = NULL
  /\ call' = c
  /\ tier' = level - 1
  /\ UNCHANGED <<towerVars, x, update, answer>>

\* skiplist_free is called.
FreeCall ==
  /\ call = NULL
  /\ call' = FreeArgs
  /\ x' = forward[0][header]
  /\ UNCHANGED <<towerVars, tier, update, answer>>

\* Mutant: the search goes on to the key itself.
SearchMovesTooFar ==
  LET ahead == forward[tier][x] IN ahead # NULL /\ ahead <= call.key

\* x->forward[i] && compare(x->forward[i]->key, key) < 0
SearchMoves ==
  LET ahead == forward[tier][x] IN ahead # NULL /\ ahead < call.key

\* One step of the two nested search loops.
Search ==
  /\ Searching /\ tier >= 0
  /\ IF SearchMoves
       THEN x' = forward[tier][x] /\ UNCHANGED <<tier, update>>
       ELSE /\ update' = [update EXCEPT ![tier] = x]
            /\ tier' = tier - 1
            /\ UNCHANGED x
  /\ UNCHANGED <<towerVars, call, answer>>

\* The search for fn is over; the key was found if it is behind x.
Searched(fn) == call # NULL /\ call.fn = fn /\ tier = -1
Found == forward[0][x] = call.key

SkipReturn(r) ==
  /\ call' = NULL /\ answer' = r
  /\ x' = header /\ tier' = -1 /\ update' = NoUpdate

InsertReplaces ==
  /\ Searched("insert") /\ Found
  /\ valueOf' = [valueOf EXCEPT ![call.key] = call.value]
  /\ SkipReturn(NULL)
  /\ UNCHANGED <<forward, level, length>>

\* Any height may come out, the greater ones seldom.
_random_level == 1 .. MAXLEVEL

\* A new node of height h; on the tiers above list->level it follows the header.
InsertAdds(h) ==
  /\ Searched("insert") /\ ~Found
  /\ level' = IF h > level THEN h ELSE level
  /\ LET before(t) == IF t < level THEN update[t] ELSE header
     IN  forward' = [t \in Tier |->
           IF t < h
             THEN [forward[t] EXCEPT ![call.key] = forward[t][before(t)],
                                     ![before(t)] = call.key]
             ELSE forward[t]]
  /\ valueOf' = [valueOf EXCEPT ![call.key] = call.value]
  /\ length' = length + 1
  /\ SkipReturn(NULL)

SearchReturns ==
  /\ Searched("search")
  /\ SkipReturn(IF Found THEN valueOf[call.key] ELSE NULL)
  /\ UNCHANGED towerVars

\* The tiers before the first one where update[i]->forward[i] != x.
Unlinked ==
  {t \in 0 .. level - 1 : \A s \in 0 .. t : forward[s][update[s]] = call.key}

\* Mutant: list->level is not lowered.
LevelKept(fwd) == level

\* The loop that lowers list->level past the empty tiers.
LevelAfter(fwd) ==
  Max({1} \union {t + 1 : t \in {s \in 0 .. level - 1 : fwd[s][header] # NULL}})

DeleteUnlinks ==
  /\ Searched("delete") /\ Found
  /\ forward' = [t \in Tier |->
       [n \in SkipNode |->
          IF n = call.key THEN WILD
          ELSE IF t \in Unlinked /\ n = update[t] THEN forward[t][call.key]
          ELSE forward[t][n]]]
  /\ valueOf' = [valueOf EXCEPT ![call.key] = NULL]
  /\ length' = length - 1
  /\ level' = LevelAfter(forward')
  /\ SkipReturn(valueOf[call.key])

DeleteMisses ==
  /\ Searched("delete") /\ ~Found
  /\ SkipReturn(NULL)
  /\ UNCHANGED towerVars

\* skiplist_free frees the next node,
FreeNode ==
  /\ Freeing /\ x # NULL
  /\ x' = forward[0][x]
  /\ forward' = [t \in Tier |-> [forward[t] EXCEPT ![x] = WILD]]
  /\ valueOf' = [valueOf EXCEPT ![x] = NULL]
  /\ UNCHANGED <<level, length, tier, update, call, answer>>

\* and is done; the program makes a new list.
FreeReturns ==
  /\ Freeing /\ x = NULL
  /\ forward' = [t \in Tier |-> [forward[t] EXCEPT ![header] = NULL]]
  /\ level' = 1
  /\ length' = 0
  /\ SkipReturn(NULL)
  /\ UNCHANGED valueOf

SkipNext ==
  \/ \E c \in Calls : SkipCall(c)
  \/ FreeCall
  \/ Search
  \/ InsertReplaces
  \/ \E h \in _random_level : InsertAdds(h)
  \/ SearchReturns
  \/ DeleteUnlinks
  \/ DeleteMisses
  \/ FreeNode
  \/ FreeReturns

SkipSpec == SkipInit /\ [][SkipNext]_skipVars
-----------------------------------------------------------------------------
(* Properties.                                                             *)

\* The nodes on a tier whose pointers are f.
OnTier(f) == {k \in Key : f[k] # WILD}

SkipTypeOK ==
  /\ forward \in [Tier -> [SkipNode -> Key \union {NULL, WILD}]]
  /\ valueOf \in [Key -> Value \union {NULL}]
  /\ level \in 1 .. MAXLEVEL
  /\ length \in Nat
  /\ call \in Calls \union {NULL, FreeArgs}
  /\ x \in SkipNode \union {NULL}
  /\ tier \in -1 .. level - 1
  /\ update \in [Tier -> SkipNode \union {WILD}]
  /\ answer \in Value \union {NULL}

\* The pointer of n leads to the next greater node of the tier.
LeadsOn(f, n) ==
  IF f[n] = NULL
    THEN \A k \in OnTier(f) : k <= n
    ELSE f[n] \in OnTier(f) /\ f[n] > n /\ \A k \in OnTier(f) : k <= n \/ k >= f[n]

\* Whatever heights random() gave the nodes, and in whatever order they came
\* and went, every tier is sorted and holds a part of the tiers below, no
\* pointer leads to a freed node, and list->level is the highest tier in use,
\* so that no search starts above it or misses it.
SkipShape ==
  /\ \A t \in Tier : \A n \in OnTier(forward[t]) :
       LeadsOn(forward[t], n) /\ \A s \in 0 .. t : n \in OnTier(forward[s])
  /\ \A k \in Key : k \in OnTier(forward[0]) <=> valueOf[k] # NULL
  /\ IF Freeing
       THEN x = NULL <=> OnTier(forward[0]) = {}
       ELSE /\ \A t \in Tier : LeadsOn(forward[t], header)
            /\ \A t \in Tier : t >= level => forward[t][header] = NULL
            /\ level > 1 => forward[level - 1][header] # NULL
            /\ length = Cardinality(OnTier(forward[0]))

\* n is the last node before the key on a tier whose pointers are f.
LastBefore(f, n) ==
  /\ n = header \/ n \in OnTier(f)
  /\ n < call.key
  /\ \A k \in OnTier(f) : k <= n \/ k >= call.key

\* What the search in progress knows: it stays before the key, on the nodes
\* of its tier, and has left every tier at the last node before the key.
SearchInv ==
  /\ call = NULL => x = header
  /\ ~Searching => tier = -1
  /\ Freeing /\ x # NULL =>
       x \in OnTier(forward[0]) /\ \A k \in OnTier(forward[0]) : x <= k
  /\ Searching =>
       /\ x # NULL /\ x < call.key
       /\ \A t \in Tier : t <= tier => x = header \/ x \in OnTier(forward[t])
       /\ \A t \in tier + 1 .. level - 1 : LastBefore(forward[t], update[t])
       /\ tier = -1 => x = update[0]

\* What holds between any two steps of skiplist.c.
SkipInv == SkipTypeOK /\ SkipShape /\ SearchInv

\* The skip list implements the map: a function takes effect when it returns.
Map == INSTANCE MapService WITH
  dict    <- IF Freeing THEN [k \in Key |-> NULL] ELSE valueOf,
  request <- call,
  reply   <- answer

\* Every function answers what the calls before it make it answer: a search
\* finds the value of the last insert unless a delete followed, an insert of a
\* stored key replaces its value, and skiplist_free leaves no node behind.
SkipIsMap == Map!MapSpec
=============================================================================
