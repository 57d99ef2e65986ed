--------------------------- MODULE SkipListProofs ---------------------------
(***************************************************************************)
(* Proofs about SkipList, for any keys, values and number of tiers:        *)
(* SkipInv is inductive, and the skip list implements MapService.          *)
(***************************************************************************)
EXTENDS SkipList, FiniteSetTheorems, InductionFacts

\* The pointers of a tier.
Pointer == [SkipNode -> Key \union {NULL, WILD}]

\* A tier on which every pointer, the header's too, leads to the next node.
Sorted(f) == \A n \in OnTier(f) \union {header} : LeadsOn(f, n)

LEMMA TierFacts ==
  /\ 0 \in Tier
  /\ Tier \subseteq Nat
  /\ \A t \in Tier : t < MAXLEVEL /\ t >= 0 /\ 0 .. t \subseteq Tier
  /\ \A t \in Nat : t < MAXLEVEL => t \in Tier
BY LevelAssumption DEF Tier

LEMMA KeyFacts ==
  /\ Key \subseteq Nat /\ header \notin Key /\ header \in SkipNode
  /\ SkipNode \subseteq Nat
  /\ \A n \in SkipNode : n # NULL /\ n # WILD /\ n >= 0
  /\ \A k \in Key : k \in SkipNode /\ k > 0 /\ k > header
  /\ NULL # WILD /\ NULL \notin Value /\ NULL \notin Key /\ WILD \notin Key
  /\ header \in Nat
<1>1. Key \subseteq Nat /\ header \notin Key /\ header \in SkipNode /\ header \in Nat
  BY KeyAssumption DEF header, SkipNode
<1>2. SkipNode \subseteq Nat /\ \A k \in Key : k \in SkipNode /\ k > 0 /\ k > header
  BY KeyAssumption DEF header, SkipNode
<1>3. \A n \in Nat : n # NULL /\ n # WILD /\ n >= 0
  BY PointerAssumption
<1>4. NULL # WILD /\ NULL \notin Value
  BY PointerAssumption
<1> QED BY <1>1, <1>2, <1>3, <1>4

LEMMA CallFacts ==
  /\ \A c \in Calls : /\ c # NULL /\ c.fn # "free" /\ c.key \in Key
                      /\ c.fn = "insert" => c.value \in Value
  /\ FreeArgs # NULL /\ FreeArgs.fn = "free"
BY CallAssumption DEF Calls, FreeArgs
-----------------------------------------------------------------------------
(* One tier.                                                               *)

\* The node before the place of a key points to the key if and only if the
\* key is on the tier.
LEMMA PredecessorFinds ==
  ASSUME NEW f \in Pointer, Sorted(f), NEW k \in Key,
         NEW b \in OnTier(f) \union {header}, b < k,
         \A j \in OnTier(f) : j <= b \/ j >= k
  PROVE  f[b] = k <=> k \in OnTier(f)
<1>1. LeadsOn(f, b) /\ b \in Nat /\ OnTier(f) \subseteq Nat
  BY KeyFacts DEF Sorted, OnTier
<1> QED BY <1>1, KeyFacts DEF LeadsOn

\* A new node goes between its predecessor and what that pointed to.
LEMMA LinkIn ==
  ASSUME NEW f \in Pointer, Sorted(f), NEW k \in Key, k \notin OnTier(f),
         NEW b \in OnTier(f) \union {header}, b < k,
         \A j \in OnTier(f) : j <= b \/ j >= k,
         NEW g \in Pointer, g[k] = f[b], g[b] = k,
         \A n \in SkipNode : n # k /\ n # b => g[n] = f[n]
  PROVE  /\ OnTier(g) = OnTier(f) \union {k}
         /\ Sorted(g)
         /\ f[header] # NULL => g[header] # NULL
         /\ b = header => g[header] # NULL
<1>1. LeadsOn(f, b) /\ b \in Nat /\ b \in SkipNode /\ OnTier(f) \subseteq Nat /\ b # k
  BY KeyFacts DEF Sorted, OnTier
<1>2. f[b] \in Key \union {NULL} /\ k \in SkipNode
  BY <1>1, KeyFacts DEF Pointer, LeadsOn, OnTier
<1>4. OnTier(g) = OnTier(f) \union {k}
  BY <1>2, KeyFacts DEF OnTier
<1>5. ASSUME NEW n \in OnTier(g) \union {header}
      PROVE  LeadsOn(g, n)
  <2>1. CASE n = k
    BY <1>1, <1>2, <1>4, <2>1, KeyFacts DEF LeadsOn
  <2>2. CASE n = b
    BY <1>1, <1>2, <1>4, <2>2, KeyFacts DEF LeadsOn
  <2>3. CASE n # k /\ n # b
    <3>1. n \in OnTier(f) \union {header} /\ g[n] = f[n] /\ n \in Nat /\ LeadsOn(f, n)
      BY <1>2, <1>4, <2>3, KeyFacts DEF OnTier, Sorted
    <3>2. CASE n < b
      <4>1. b \in OnTier(f)
        BY <3>2, <1>1, <3>1, KeyFacts DEF header
      <4> QED BY <1>1, <1>4, <3>1, <3>2, <4>1, KeyFacts DEF LeadsOn
    <3>3. CASE n > b
      <4>1. n >= k
        BY <3>3, <1>1, <3>1, KeyFacts DEF header
      <4> QED BY <1>1, <1>4, <3>1, <4>1, KeyFacts DEF LeadsOn
    <3> QED BY <1>1, <2>3, <3>1, <3>2, <3>3
  <2> QED BY <2>1, <2>2, <2>3
<1>6. Sorted(g)
  BY <1>5 DEF Sorted
<1>7. (f[header] # NULL => g[header] # NULL) /\ (b = header => g[header] # NULL)
  BY <1>1, <1>2, KeyFacts
<1> QED BY <1>4, <1>6, <1>7

\* A node is taken out: its predecessor points to what it pointed to.
LEMMA LinkOut ==
  ASSUME NEW f \in Pointer, Sorted(f), NEW k \in OnTier(f),
         NEW b \in OnTier(f) \union {header}, f[b] = k,
         NEW g, g = [n \in SkipNode |-> IF n = k THEN WILD
                                        ELSE IF n = b THEN f[k] ELSE f[n]]
  PROVE  g \in Pointer /\ OnTier(g) = OnTier(f) \ {k} /\ Sorted(g)
<1>1. /\ LeadsOn(f, b) /\ LeadsOn(f, k)
      /\ b \in Nat /\ b \in SkipNode /\ OnTier(f) \subseteq Nat /\ k \in Key
  BY KeyFacts DEF Sorted, OnTier
<1>2. k > b /\ f[k] \in Key \union {NULL}
  BY <1>1, KeyFacts DEF LeadsOn, OnTier, Pointer
<1>3. /\ g[k] = WILD /\ g[b] = f[k]
      /\ \A n \in SkipNode : n # k /\ n # b => g[n] = f[n]
  BY <1>1, <1>2, KeyFacts
<1>4. g \in Pointer
  BY <1>1, <1>2 DEF Pointer
<1>5. OnTier(g) = OnTier(f) \ {k}
  BY <1>1, <1>2, <1>3, KeyFacts DEF OnTier
<1>6. ASSUME NEW n \in OnTier(g) \union {header}
      PROVE  LeadsOn(g, n)
  <2>1. n \in OnTier(f) \union {header} /\ n # k /\ n \in Nat /\ n \in SkipNode
    BY <1>1, <1>5, KeyFacts DEF OnTier
  <2>2. CASE n = b
    BY <1>1, <1>2, <1>3, <1>5, <2>1, <2>2, KeyFacts DEF LeadsOn
  <2>3. CASE n # b
    <3>1. g[n] = f[n] /\ LeadsOn(f, n)
      BY <1>3, <2>1, <2>3 DEF Sorted
    <3>2. f[n] # k
      <4>1. CASE n < b
        <5>1. b \in OnTier(f)
          BY <4>1, <1>1, <2>1, KeyFacts DEF header
        <5> QED BY <1>1, <1>2, <2>1, <3>1, <4>1, <5>1, KeyFacts DEF LeadsOn
      <4>2. CASE n > b
        <5>1. n \in OnTier(f) /\ n >= k
          BY <4>2, <1>1, <2>1, KeyFacts DEF header, LeadsOn
        <5> QED BY <1>1, <2>1, <3>1, <5>1, KeyFacts DEF LeadsOn
      <4> QED BY <1>1, <2>1, <2>3, <4>1, <4>2
    <3> QED BY <1>1, <1>5, <2>1, <3>1, <3>2, KeyFacts DEF LeadsOn
  <2> QED BY <2>2, <2>3
<1> QED BY <1>4, <1>5, <1>6 DEF Sorted
-----------------------------------------------------------------------------
(* The invariant.                                                          *)

\* SkipShape outside skiplist_free, by tiers.
LEMMA ShapeFacts ==
  ASSUME SkipInv
  PROVE  /\ \A t \in Tier : forward[t] \in Pointer
         /\ \A t \in Tier : OnTier(forward[t]) \subseteq OnTier(forward[0])
         /\ \A t \in Tier : \A s \in 0 .. t : OnTier(forward[t]) \subseteq OnTier(forward[s])
         /\ ~Freeing => \A t \in Tier : Sorted(forward[t])
         /\ ~Freeing => \A t \in Tier : t >= level => OnTier(forward[t]) = {}
<1>1. \A t \in Tier : forward[t] \in Pointer
  BY DEF SkipInv, SkipTypeOK, Pointer
<1>2. \A t \in Tier : \A s \in 0 .. t : OnTier(forward[t]) \subseteq OnTier(forward[s])
  BY DEF SkipInv, SkipShape
<1>3. \A t \in Tier : OnTier(forward[t]) \subseteq OnTier(forward[0])
  <2>1. \A t \in Tier : 0 \in 0 .. t
    BY TierFacts
  <2> QED BY <1>2, <2>1
<1>4. ASSUME ~Freeing PROVE \A t \in Tier : Sorted(forward[t])
  BY <1>4 DEF SkipInv, SkipShape, Sorted
<1>5. ASSUME ~Freeing, NEW t \in Tier, t >= level PROVE OnTier(forward[t]) = {}
  <2>1. LeadsOn(forward[t], header) /\ forward[t][header] = NULL
    BY <1>5 DEF SkipInv, SkipShape
  <2>2. ASSUME NEW k \in OnTier(forward[t]) PROVE FALSE
    <3>1. k \in Nat /\ k > header
      BY KeyFacts DEF OnTier
    <3>2. k <= header
      BY <2>1 DEF LeadsOn
    <3> QED BY <3>1, <3>2 DEF header
  <2> QED BY <2>2
<1> QED BY <1>1, <1>2, <1>3, <1>4, <1>5

\* What a search knows when it has passed the last tier.
LEMMA SearchedFacts ==
  ASSUME SkipInv, NEW fn, Searched(fn), fn # "free"
  PROVE  /\ call \in Calls /\ call.key \in Key /\ ~Freeing
         /\ \A t \in Tier : t < level =>
              /\ update[t] \in OnTier(forward[t]) \union {header}
              /\ update[t] < call.key
              /\ \A j \in OnTier(forward[t]) : j <= update[t] \/ j >= call.key
              /\ forward[t][update[t]] = call.key <=> call.key \in OnTier(forward[t])
         /\ Found <=> call.key \in OnTier(forward[0])
         /\ Found <=> valueOf[call.key] # NULL
<1>1. call \in Calls /\ call.key \in Key /\ ~Freeing /\ tier = -1 /\ level \in 1 .. MAXLEVEL
  BY CallFacts DEF SkipInv, SkipTypeOK, Searched, Freeing
<1>2. /\ \A t \in tier + 1 .. level - 1 : LastBefore(forward[t], update[t])
      /\ x = update[0]
  BY <1>1, CallFacts DEF SkipInv, SearchInv, Searching
<1>3. ASSUME NEW t \in Tier, t < level
      PROVE  /\ update[t] \in OnTier(forward[t]) \union {header}
             /\ update[t] < call.key
             /\ \A j \in OnTier(forward[t]) : j <= update[t] \/ j >= call.key
  <2>1. t \in tier + 1 .. level - 1
    BY <1>1, <1>3, TierFacts
  <2> QED BY <1>2, <2>1 DEF LastBefore
<1>4. ASSUME NEW t \in Tier, t < level
      PROVE  forward[t][update[t]] = call.key <=> call.key \in OnTier(forward[t])
  BY <1>1, <1>3, <1>4, ShapeFacts, PredecessorFinds
<1>5. Found <=> call.key \in OnTier(forward[0])
  BY <1>1, <1>2, <1>4, TierFacts DEF Found
<1>6. call.key \in OnTier(forward[0]) <=> valueOf[call.key] # NULL
  BY <1>1 DEF SkipInv, SkipShape
<1> QED BY <1>1, <1>3, <1>4, <1>5, <1>6

LEMMA SkipInitKeeps == SkipInit => SkipInv
<1> SUFFICES ASSUME SkipInit PROVE SkipInv
  OBVIOUS
<1> USE DEF SkipInit, skiplist_new
<1>1. \A t \in Tier : forward[t] \in Pointer /\ OnTier(forward[t]) = {} /\ forward[t][header] = NULL
  BY KeyFacts DEF OnTier, Pointer
<1>2. SkipTypeOK
  <2>1. forward \in [Tier -> [SkipNode -> Key \union {NULL, WILD}]]
    BY <1>1 DEF Pointer
  <2>2. update \in [Tier -> SkipNode \union {WILD}]
    BY DEF NoUpdate
  <2> QED BY <2>1, <2>2, LevelAssumption, KeyFacts DEF SkipTypeOK
<1>3. SkipShape
  BY <1>1, TierFacts, FS_EmptySet DEF SkipShape, LeadsOn, Freeing
<1>4. SearchInv
  BY DEF SearchInv, Searching, Freeing
<1> QED BY <1>2, <1>3, <1>4 DEF SkipInv

\* A call that returns and leaves the towers as they are.
LEMMA ReturnKeeps ==
  ASSUME SkipInv, ~Freeing, NEW r \in Value \union {NULL}, SkipReturn(r), UNCHANGED towerVars
  PROVE  SkipInv'
<1> USE DEF SkipReturn, towerVars
<1>1. SkipTypeOK'
  BY KeyFacts DEF SkipInv, SkipTypeOK, NoUpdate
<1>2. SkipShape'
  BY DEF SkipInv, SkipShape, Freeing, OnTier, LeadsOn
<1>3. SearchInv'
  BY DEF SearchInv, Searching, Freeing
<1> QED BY <1>1, <1>2, <1>3 DEF SkipInv
LEMMA CallKeeps ==
  ASSUME SkipInv, NEW c \in Calls, SkipCall(c)
  PROVE  SkipInv'
<1> USE DEF SkipCall, towerVars
<1>1. ~Freeing /\ ~Freeing' /\ Searching' /\ level \in 1 .. MAXLEVEL /\ x = header
  BY CallFacts DEF Freeing, Searching, SkipInv, SkipTypeOK, SearchInv
<1>2. SkipTypeOK'
  BY <1>1, LevelAssumption DEF SkipInv, SkipTypeOK
<1>3. SkipShape'
  BY <1>1 DEF SkipInv, SkipShape, OnTier, LeadsOn
<1>4. SearchInv'
  <2>1. x' # NULL /\ x' < call'.key
    BY <1>1, CallFacts, KeyFacts
  <2>2. tier' # -1 /\ tier' + 1 .. level' - 1 = {}
    BY <1>1, LevelAssumption
  <2> QED BY <1>1, <2>1, <2>2, CallFacts DEF SearchInv
<1> QED BY <1>2, <1>3, <1>4 DEF SkipInv

LEMMA FreeCallKeeps ==
  ASSUME SkipInv, FreeCall
  PROVE  SkipInv'
<1> USE DEF FreeCall, towerVars
<1>1. ~Freeing /\ Freeing' /\ ~Searching /\ ~Searching' /\ call' # NULL
  BY CallFacts DEF Freeing, Searching
<1>2. LeadsOn(forward[0], header) /\ forward[0] \in Pointer
  BY <1>1, TierFacts, ShapeFacts DEF Sorted
<1>3. \A k \in OnTier(forward[0]) : k \in Nat /\ k > header /\ k # NULL
  BY KeyFacts DEF OnTier
<1>4. SkipTypeOK'
  <2>1. x' \in SkipNode \union {NULL}
    BY <1>2, KeyFacts DEF LeadsOn, OnTier, SkipNode
  <2> QED BY <2>1 DEF SkipInv, SkipTypeOK
<1>5. x' = NULL <=> OnTier(forward[0]) = {}
  <2>1. CASE x' = NULL
    <3>1. \A k \in OnTier(forward[0]) : k <= header
      BY <1>2, <2>1 DEF LeadsOn
    <3>2. \A k \in OnTier(forward[0]) : FALSE
      BY <1>3, <3>1, KeyFacts
    <3> QED BY <2>1, <3>2
  <2>2. CASE x' # NULL
    BY <1>2, <2>2 DEF LeadsOn
  <2> QED BY <2>1, <2>2
<1>6. SkipShape'
  BY <1>1, <1>5 DEF SkipInv, SkipShape, OnTier, LeadsOn
<1>7. ASSUME x' # NULL
      PROVE  x' \in OnTier(forward[0]) /\ \A k \in OnTier(forward[0]) : x' <= k
  <2>1. /\ x' \in OnTier(forward[0])
        /\ \A k \in OnTier(forward[0]) : k <= header \/ k >= x'
    BY <1>2, <1>7 DEF LeadsOn
  <2> QED BY <1>3, <2>1, KeyFacts
<1>8. SearchInv'
  BY <1>1, <1>7 DEF SkipInv, SearchInv, OnTier
<1> QED BY <1>4, <1>6, <1>8 DEF SkipInv

LEMMA SearchKeeps ==
  ASSUME SkipInv, Search
  PROVE  SkipInv'
<1> USE DEF towerVars
<1>1. /\ Searching /\ Searching' /\ ~Freeing /\ ~Freeing' /\ call = call' /\ call # NULL
      /\ tier \in Tier /\ tier < level /\ level \in Nat /\ call.key \in Key
      /\ level' = level /\ forward' = forward /\ tier \in Nat /\ level <= MAXLEVEL
  <2>1. call \in Calls /\ tier \in 0 .. level - 1 /\ level \in 1 .. MAXLEVEL
    BY CallFacts DEF SkipInv, SkipTypeOK, Search, Searching
  <2> QED BY <2>1, CallFacts, TierFacts, LevelAssumption DEF Search, Searching, Freeing
<1>2. SkipShape'
  BY <1>1 DEF SkipInv, SkipShape, Search, OnTier, LeadsOn
<1>3. /\ x \in SkipNode /\ x \in Nat /\ x < call.key
      /\ x = header \/ x \in OnTier(forward[tier])
      /\ \A t \in Tier : t <= tier => x = header \/ x \in OnTier(forward[t])
      /\ \A t \in tier + 1 .. level - 1 : LastBefore(forward[t], update[t])
  BY <1>1, KeyFacts, TierFacts DEF SkipInv, SearchInv, SkipTypeOK
<1>4. LeadsOn(forward[tier], x) /\ forward[tier] \in Pointer
  BY <1>1, <1>3, ShapeFacts DEF Sorted
<1>5. \A k \in OnTier(forward[tier]) : k \in Nat
  BY KeyFacts DEF OnTier
<1>6. CASE SearchMoves
  <2>1. /\ x' = forward[tier][x] /\ x' # NULL /\ x' < call.key
        /\ tier' = tier /\ update' = update
    BY <1>6 DEF Search, SearchMoves
  <2>2. x' \in OnTier(forward[tier])
    BY <1>4, <2>1 DEF LeadsOn
  <2>3. SkipTypeOK'
    BY <1>1, <2>1, <2>2 DEF SkipInv, SkipTypeOK, Search, OnTier, SkipNode
  <2>4. \A t \in Tier : t <= tier => x' \in OnTier(forward[t])
    <3>1. \A t \in Tier : t <= tier => t \in 0 .. tier
      BY <1>1, TierFacts
    <3> QED BY <1>1, <2>2, <3>1, ShapeFacts
  <2>5. \A t \in tier' + 1 .. level' - 1 : LastBefore(forward[t], update[t])'
    BY <1>1, <1>3, <2>1 DEF LastBefore, OnTier
  <2>6. SearchInv'
    BY <1>1, <2>1, <2>4, <2>5, TierFacts DEF SearchInv, OnTier
  <2> QED BY <1>2, <2>3, <2>6 DEF SkipInv
<1>7. CASE ~SearchMoves
  <2>1. /\ x' = x /\ tier' = tier - 1
        /\ update' = [update EXCEPT ![tier] = x]
        /\ forward[tier][x] = NULL \/ ~(forward[tier][x] < call.key)
    BY <1>7 DEF Search, SearchMoves
  <2>2. \A k \in OnTier(forward[tier]) : k <= x \/ k >= call.key
    <3>1. CASE forward[tier][x] = NULL
      BY <1>4, <3>1 DEF LeadsOn
    <3>2. CASE forward[tier][x] # NULL
      <4>1. /\ forward[tier][x] \in Nat
            /\ \A k \in OnTier(forward[tier]) : k <= x \/ k >= forward[tier][x]
        BY <1>4, <1>5, <3>2 DEF LeadsOn
      <4>2. call.key \in Nat /\ ~(forward[tier][x] < call.key)
        BY <1>1, <2>1, <3>2, KeyFacts
      <4>3. forward[tier][x] >= call.key
        BY <4>1, <4>2
      <4>4. ASSUME NEW k \in OnTier(forward[tier]) PROVE k <= x \/ k >= call.key
        BY <1>5, <4>1, <4>2, <4>3
      <4> QED BY <4>4
    <3> QED BY <3>1, <3>2
  <2>3. SkipTypeOK'
    <3>1. update' \in [Tier -> SkipNode \union {WILD}]
      BY <1>3, <2>1 DEF SkipInv, SkipTypeOK
    <3>2. tier' \in -1 .. level' - 1
      BY <1>1, <2>1, TierFacts
    <3> QED BY <1>1, <2>1, <3>1, <3>2 DEF SkipInv, SkipTypeOK, Search
  <2>4. ASSUME NEW t \in tier' + 1 .. level' - 1
        PROVE  LastBefore(forward[t], update[t])'
    <3>1. t \in Tier /\ (t = tier \/ t \in tier + 1 .. level - 1)
      <4>1. t \in Nat /\ t < MAXLEVEL /\ t >= tier /\ t <= level - 1
        BY <1>1, <2>1, LevelAssumption
      <4> QED BY <1>1, <4>1, TierFacts
    <3>2. CASE t = tier
      <4>1. update'[t] = x
        BY <1>1, <2>1, <3>2 DEF SkipInv, SkipTypeOK
      <4> QED BY <1>1, <1>3, <2>2, <3>2, <4>1 DEF LastBefore, OnTier
    <3>3. CASE t \in tier + 1 .. level - 1
      <4>1. update'[t] = update[t]
        BY <1>1, <2>1, <3>1, <3>3, TierFacts DEF SkipInv, SkipTypeOK
      <4> QED BY <1>1, <1>3, <3>3, <4>1 DEF LastBefore, OnTier
    <3> QED BY <3>1, <3>2, <3>3
  <2>5. tier' = -1 => x' = update'[0]
    BY <1>1, <2>1, TierFacts DEF SkipInv, SkipTypeOK
  <2>6. \A t \in Tier : t <= tier' => x = header \/ x \in OnTier(forward[t])
    BY <1>1, <1>3, <2>1, TierFacts
  <2>7. SearchInv'
    BY <1>1, <1>3, <2>1, <2>4, <2>5, <2>6, KeyFacts DEF SearchInv, OnTier
  <2> QED BY <1>2, <2>3, <2>7 DEF SkipInv
<1> QED BY <1>6, <1>7
LEMMA ReplaceKeeps ==
  ASSUME SkipInv, InsertReplaces
  PROVE  SkipInv'
<1> USE DEF InsertReplaces, SkipReturn
<1>1. /\ call \in Calls /\ call.key \in Key /\ call.value \in Value /\ ~Freeing
      /\ call.key \in OnTier(forward[0])
  BY SearchedFacts, CallFacts DEF Searched
<1>2. /\ \A k \in Key : k # call.key => valueOf'[k] = valueOf[k]
      /\ valueOf'[call.key] # NULL /\ valueOf' \in [Key -> Value \union {NULL}]
  BY <1>1, KeyFacts DEF SkipInv, SkipTypeOK
<1>3. SkipTypeOK'
  BY <1>2, KeyFacts DEF SkipInv, SkipTypeOK, NoUpdate
<1>4. \A k \in Key : k \in OnTier(forward[0]) <=> valueOf'[k] # NULL
  BY <1>1, <1>2 DEF SkipInv, SkipShape
<1>5. SkipShape'
  BY <1>1, <1>4 DEF SkipInv, SkipShape, Freeing, OnTier, LeadsOn
<1>6. SearchInv'
  BY DEF SearchInv, Searching, Freeing
<1> QED BY <1>3, <1>5, <1>6 DEF SkipInv

\* The tiers after a node was added.
LEMMA AddedTiers ==
  ASSUME SkipInv, NEW h \in _random_level, InsertAdds(h)
  PROVE  /\ call.key \in Key /\ call.key \notin OnTier(forward[0])
         /\ \A t \in Tier :
              /\ forward'[t] \in Pointer
              /\ Sorted(forward'[t])
              /\ OnTier(forward'[t]) = OnTier(forward[t]) \union (IF t < h THEN {call.key} ELSE {})
              /\ forward[t][header] # NULL => forward'[t][header] # NULL
              /\ t >= h => forward'[t] = forward[t]
              /\ t < h /\ t >= level => forward'[t][header] # NULL
<1> DEFINE before(t) == IF t < level THEN update[t] ELSE header
           k == call.key
<1>1. /\ k \in Key /\ k \notin OnTier(forward[0]) /\ ~Freeing /\ level \in Nat
      /\ h \in Nat /\ forward \in [Tier -> Pointer]
  BY SearchedFacts, LevelAssumption DEF InsertAdds, Searched, SkipInv, SkipTypeOK, Pointer, _random_level
<1>2. forward' = [t \in Tier |->
        IF t < h THEN [forward[t] EXCEPT ![k] = forward[t][before(t)], ![before(t)] = k]
                 ELSE forward[t]]
  BY DEF InsertAdds
<1>3. ASSUME NEW t \in Tier
      PROVE  /\ before(t) \in OnTier(forward[t]) \union {header}
             /\ before(t) < k
             /\ \A j \in OnTier(forward[t]) : j <= before(t) \/ j >= k
  <2>1. CASE t < level
    BY <2>1, SearchedFacts DEF InsertAdds
  <2>2. CASE ~(t < level)
    <3>1. t >= level
      BY <1>1, <2>2, TierFacts
    <3>2. OnTier(forward[t]) = {}
      BY <1>1, <3>1, ShapeFacts
    <3> QED BY <1>1, <2>2, <3>2, KeyFacts
  <2> QED BY <2>1, <2>2
<1>4. ASSUME NEW t \in Tier, t < h
      PROVE  /\ forward'[t] \in Pointer
             /\ Sorted(forward'[t])
             /\ OnTier(forward'[t]) = OnTier(forward[t]) \union {k}
             /\ forward[t][header] # NULL => forward'[t][header] # NULL
             /\ t >= level => forward'[t][header] # NULL
  <2> DEFINE b == before(t)
             f == forward[t]
             g == forward'[t]
  <2>1. /\ b \in OnTier(f) \union {header} /\ b < k
        /\ \A j \in OnTier(f) : j <= b \/ j >= k
        /\ f \in Pointer /\ Sorted(f) /\ k \notin OnTier(f) /\ k \in Key
    BY <1>1, <1>3, ShapeFacts
  <2>2. g = [f EXCEPT ![k] = f[b], ![b] = k]
    BY <1>2, <1>4
  <2>3. t >= level => b = header
    BY <1>1, TierFacts
  <2> HIDE DEF f, g, b, k, before
  <2>4. b \in SkipNode /\ k \in SkipNode /\ b # k /\ f[b] \in Key \union {NULL, WILD}
    <3>1. b \in SkipNode /\ b \in Nat /\ k \in SkipNode /\ k \in Nat
      BY <2>1, KeyFacts DEF OnTier
    <3> QED BY <2>1, <3>1 DEF Pointer
  <2>5. /\ g \in Pointer /\ g[k] = f[b] /\ g[b] = k
        /\ \A n \in SkipNode : n # k /\ n # b => g[n] = f[n]
    BY <2>1, <2>2, <2>4 DEF Pointer
  <2>6. /\ OnTier(g) = OnTier(f) \union {k}
        /\ Sorted(g)
        /\ f[header] # NULL => g[header] # NULL
        /\ b = header => g[header] # NULL
    BY <2>1, <2>5, LinkIn
  <2>7. /\ g \in Pointer /\ Sorted(g) /\ OnTier(g) = OnTier(f) \union {k}
        /\ f[header] # NULL => g[header] # NULL
        /\ t >= level => g[header] # NULL
    BY <2>3, <2>5, <2>6
  <2> QED BY <2>7 DEF f, g
<1>5. ASSUME NEW t \in Tier, ~(t < h)
      PROVE  forward'[t] = forward[t] /\ forward[t] \in Pointer /\ Sorted(forward[t])
  BY <1>1, <1>2, <1>5, ShapeFacts
<1> HIDE DEF before, k
<1>6. call.key \in Key /\ call.key \notin OnTier(forward[0])
  BY <1>1 DEF k
<1>7. ASSUME NEW t \in Tier
      PROVE  /\ forward'[t] \in Pointer
             /\ Sorted(forward'[t])
             /\ OnTier(forward'[t]) = OnTier(forward[t]) \union (IF t < h THEN {call.key} ELSE {})
             /\ forward[t][header] # NULL => forward'[t][header] # NULL
             /\ t >= h => forward'[t] = forward[t]
             /\ t < h /\ t >= level => forward'[t][header] # NULL
  <2>1. CASE t < h
    BY <1>1, <1>4, <2>1, TierFacts DEF k
  <2>2. CASE ~(t < h)
    BY <1>5, <2>2
  <2> QED BY <2>1, <2>2
<1> QED BY <1>6, <1>7

LEMMA AddKeeps ==
  ASSUME SkipInv, NEW h \in _random_level, InsertAdds(h)
  PROVE  SkipInv'
<1> DEFINE k == call.key
<1>1. /\ call \in Calls /\ k \in Key /\ call.value \in Value /\ ~Freeing /\ ~Freeing'
      /\ k \notin OnTier(forward[0])
      /\ level \in 1 .. MAXLEVEL /\ h \in 1 .. MAXLEVEL
  BY SearchedFacts, CallFacts, AddedTiers
    DEF InsertAdds, Searched, SkipInv, SkipTypeOK, _random_level, SkipReturn, Freeing
<1>2. /\ \A j \in Key : j # k => valueOf'[j] = valueOf[j]
      /\ valueOf'[k] # NULL /\ valueOf' \in [Key -> Value \union {NULL}]
  BY <1>1, KeyFacts DEF SkipInv, SkipTypeOK, InsertAdds
<1>3. /\ level' \in 1 .. MAXLEVEL /\ level' = IF h > level THEN h ELSE level
      /\ level' >= level /\ level' >= h
  BY <1>1, LevelAssumption DEF InsertAdds
<1>4. SkipTypeOK'
  <2>1. forward' \in [Tier -> [SkipNode -> Key \union {NULL, WILD}]]
    <3>1. forward' = [t \in Tier |-> forward'[t]]
      BY DEF InsertAdds
    <3> QED BY <3>1, AddedTiers DEF Pointer
  <2> QED BY <1>2, <1>3, <2>1, KeyFacts, LevelAssumption
        DEF SkipInv, SkipTypeOK, NoUpdate, InsertAdds, SkipReturn
<1>5. SkipShape'
  <2>1. \A t \in Tier : \A n \in OnTier(forward'[t]) \union {header} : LeadsOn(forward'[t], n)
    BY AddedTiers DEF Sorted
  <2>2. ASSUME NEW t \in Tier, NEW n \in OnTier(forward'[t]), NEW s \in 0 .. t
        PROVE  n \in OnTier(forward'[s])
    <3>1. s \in Tier /\ s <= t /\ s \in Nat /\ t \in Nat
      BY TierFacts
    <3>2. CASE n \in OnTier(forward[t])
      BY <3>1, <3>2, AddedTiers, ShapeFacts
    <3>3. CASE n \notin OnTier(forward[t])
      <4>1. t < h /\ n = k
        BY <3>3, AddedTiers
      <4>2. s < h
        BY <1>1, <3>1, <4>1
      <4> QED BY <3>1, <4>1, <4>2, AddedTiers
    <3> QED BY <3>2, <3>3
  <2>3. OnTier(forward'[0]) = OnTier(forward[0]) \union {k}
    BY <1>1, TierFacts, AddedTiers
  <2>4. \A j \in Key : j \in OnTier(forward'[0]) <=> valueOf'[j] # NULL
    BY <1>1, <1>2, <2>3 DEF SkipInv, SkipShape
  <2>5. ASSUME NEW t \in Tier, t >= level' PROVE forward'[t][header] = NULL
    <3>1. t >= level /\ t >= h
      BY <1>1, <1>3, <2>5, TierFacts
    <3> QED BY <1>1, <3>1, AddedTiers DEF SkipInv, SkipShape
  <2>6. ASSUME level' > 1 PROVE forward'[level' - 1][header] # NULL
    <3>1. level' - 1 \in Tier
      BY <1>3, TierFacts, LevelAssumption
    <3>2. CASE h > level
      BY <1>1, <1>3, <3>1, <3>2, AddedTiers
    <3>3. CASE ~(h > level)
      BY <1>1, <1>3, <2>6, <3>1, <3>3, AddedTiers DEF SkipInv, SkipShape
    <3> QED BY <3>2, <3>3
  <2>7. length' = Cardinality(OnTier(forward'[0]))
    <3>1. IsFiniteSet(OnTier(forward[0]))
      BY KeyAssumption, FS_Subset DEF OnTier
    <3>2. length' = length + 1 /\ length = Cardinality(OnTier(forward[0]))
      BY <1>1 DEF InsertAdds, SkipInv, SkipShape
    <3> QED BY <1>1, <2>3, <3>1, <3>2, FS_AddElement
  <2> HIDE DEF k
  <2>8. /\ \A t \in Tier : \A n \in OnTier(forward'[t]) :
             LeadsOn(forward'[t], n) /\ \A s \in 0 .. t : n \in OnTier(forward'[s])
        /\ \A t \in Tier : LeadsOn(forward'[t], header)
    BY <2>1, <2>2
  <2> QED BY <1>1, <2>4, <2>5, <2>6, <2>7, <2>8 DEF SkipShape, OnTier, LeadsOn
<1>6. SearchInv'
  BY DEF SearchInv, Searching, Freeing, InsertAdds, SkipReturn
<1> QED BY <1>4, <1>5, <1>6 DEF SkipInv
\* LevelAfter is where the loop ends: the tiers from there on are empty, and
\* the one below, unless it is the lowest, is not.
LEMMA LevelAfterFacts ==
  ASSUME level \in Nat \ {0}, NEW f
  PROVE  /\ LevelAfter(f) \in 1 .. level
         /\ \A t \in 0 .. level - 1 : t >= LevelAfter(f) => f[t][header] = NULL
         /\ LevelAfter(f) > 1 => f[LevelAfter(f) - 1][header] # NULL
<1> DEFINE S == {1} \union {t + 1 : t \in {s \in 0 .. level - 1 : f[s][header] # NULL}}
<1>1. S \in SUBSET (0 .. level) /\ S # {} /\ \A n \in S : n \in 1 .. level
  OBVIOUS
<1>2. LevelAfter(f) = Max(S)
  BY DEF LevelAfter
<1>3. /\ \A t \in 0 .. level - 1 : f[t][header] # NULL => t + 1 \in S
      /\ \A n \in S : n > 1 => f[n - 1][header] # NULL
  OBVIOUS
<1> HIDE DEF S
<1>4. \E m \in S : \A n \in S : m >= n
  <2>1. PICK m \in S : \A n \in S : n <= m
    BY <1>1, GreatestNat
  <2> QED BY <1>1, <2>1
<1>5. Max(S) \in S /\ \A n \in S : Max(S) >= n
  BY <1>4 DEF Max
<1>6. ASSUME NEW t \in 0 .. level - 1, t >= Max(S) PROVE f[t][header] = NULL
  <2>1. Max(S) \in 1 .. level
    BY <1>1, <1>5
  <2>2. ~(Max(S) >= t + 1)
    BY <1>6, <2>1
  <2> QED BY <1>3, <1>5, <2>2
<1> QED BY <1>1, <1>2, <1>3, <1>5, <1>6

\* The tiers after a node was taken out: it was unlinked where it was.
LEMMA DeletedTiers ==
  ASSUME SkipInv, DeleteUnlinks
  PROVE  /\ call.key \in OnTier(forward[0])
         /\ \A t \in Tier :
              /\ forward'[t] \in Pointer
              /\ Sorted(forward'[t])
              /\ OnTier(forward'[t]) = OnTier(forward[t]) \ {call.key}
              /\ t >= level => forward'[t][header] = NULL
<1> DEFINE k == call.key
<1>1. /\ k \in Key /\ k \in OnTier(forward[0]) /\ ~Freeing /\ level \in Nat
      /\ k \in SkipNode /\ k # header
  <2>1. k \in Key /\ k \in OnTier(forward[0]) /\ ~Freeing
    BY SearchedFacts DEF DeleteUnlinks
  <2>2. level \in Nat
    BY LevelAssumption DEF SkipInv, SkipTypeOK
  <2> QED BY <2>1, <2>2, KeyFacts
<1>2. forward' = [t \in Tier |-> [n \in SkipNode |->
        IF n = k THEN WILD
        ELSE IF t \in Unlinked /\ n = update[t] THEN forward[t][k] ELSE forward[t][n]]]
  BY DEF DeleteUnlinks
<1>3. ASSUME NEW t \in Tier, t < level
      PROVE  t \in Unlinked <=> k \in OnTier(forward[t])
  <2>1. t \in 0 .. level - 1 /\ t \in 0 .. t
    BY <1>1, <1>3, TierFacts
  <2>2. ASSUME NEW s \in 0 .. t
        PROVE  s \in Tier /\ (forward[s][update[s]] = k <=> k \in OnTier(forward[s]))
    <3>1. s \in Tier /\ s < level
      BY <1>1, <1>3, TierFacts
    <3> QED BY <3>1, SearchedFacts DEF DeleteUnlinks
  <2>3. k \in OnTier(forward[t]) => \A s \in 0 .. t : k \in OnTier(forward[s])
    BY ShapeFacts
  <2> HIDE DEF k
  <2>4. t \in Unlinked <=> \A s \in 0 .. t : forward[s][update[s]] = k
    BY <2>1 DEF Unlinked, k
  <2> QED BY <2>1, <2>2, <2>3, <2>4
<1>4. ASSUME NEW t \in Tier, t < level, k \in OnTier(forward[t])
      PROVE  /\ forward'[t] \in Pointer
             /\ Sorted(forward'[t])
             /\ OnTier(forward'[t]) = OnTier(forward[t]) \ {k}
  <2> DEFINE b == update[t]
             f == forward[t]
             g == forward'[t]
  <2>1. /\ b \in OnTier(f) \union {header} /\ f[b] = k
        /\ f \in Pointer /\ Sorted(f) /\ k \in OnTier(f)
    BY <1>1, <1>4, SearchedFacts, ShapeFacts DEF DeleteUnlinks
  <2>2. g = [n \in SkipNode |-> IF n = k THEN WILD ELSE IF n = b THEN f[k] ELSE f[n]]
    BY <1>2, <1>3, <1>4
  <2> HIDE DEF f, g, b, k
  <2>3. g \in Pointer /\ OnTier(g) = OnTier(f) \ {k} /\ Sorted(g)
    BY <2>1, <2>2, LinkOut
  <2> QED BY <2>3 DEF f, g
<1>5. ASSUME NEW t \in Tier, k \notin OnTier(forward[t])
      PROVE  forward'[t] = forward[t] /\ OnTier(forward[t]) = OnTier(forward[t]) \ {k}
  <2>1. t \notin Unlinked
    BY <1>1, <1>3, <1>5, TierFacts DEF Unlinked
  <2>2. forward[t] \in Pointer /\ forward[t][k] = WILD
    BY <1>1, <1>5, ShapeFacts DEF OnTier
  <2>3. forward'[t] = [n \in SkipNode |-> IF n = k THEN WILD ELSE forward[t][n]]
    BY <1>2, <2>1
  <2> QED BY <1>5, <2>2, <2>3 DEF Pointer
<1>6. \A t \in Tier : k \in OnTier(forward[t]) => t < level
  BY <1>1, ShapeFacts, TierFacts
<1>7. \A t \in Tier : t >= level => forward[t][header] = NULL
  BY <1>1 DEF SkipInv, SkipShape
<1>8. ASSUME NEW t \in Tier
      PROVE  /\ forward'[t] \in Pointer
             /\ Sorted(forward'[t])
             /\ OnTier(forward'[t]) = OnTier(forward[t]) \ {k}
             /\ t >= level => forward'[t][header] = NULL
  <2>1. CASE k \in OnTier(forward[t])
    BY <1>1, <1>4, <1>6, <2>1, TierFacts
  <2>2. CASE k \notin OnTier(forward[t])
    BY <1>1, <1>5, <1>7, <2>2, ShapeFacts
  <2> QED BY <2>1, <2>2
<1> QED BY <1>1, <1>8

LEMMA DeleteKeeps ==
  ASSUME SkipInv, DeleteUnlinks
  PROVE  SkipInv'
<1> DEFINE k == call.key
<1>1. /\ call \in Calls /\ k \in Key /\ ~Freeing /\ ~Freeing' /\ k \in OnTier(forward[0])
      /\ level \in 1 .. MAXLEVEL
  BY SearchedFacts, DeletedTiers
    DEF DeleteUnlinks, Searched, SkipInv, SkipTypeOK, SkipReturn, Freeing
<1>2. /\ \A j \in Key : j # k => valueOf'[j] = valueOf[j]
      /\ valueOf'[k] = NULL /\ valueOf' \in [Key -> Value \union {NULL}]
      /\ valueOf[k] \in Value \union {NULL}
  BY <1>1 DEF SkipInv, SkipTypeOK, DeleteUnlinks
<1>3. /\ level' \in 1 .. level
      /\ \A t \in 0 .. level - 1 : t >= level' => forward'[t][header] = NULL
      /\ level' > 1 => forward'[level' - 1][header] # NULL
  <2>1. level \in Nat \ {0}
    BY <1>1, LevelAssumption
  <2>2. level' = LevelAfter(forward')
    BY DEF DeleteUnlinks
  <2> QED BY <2>1, <2>2, LevelAfterFacts
<1>4. OnTier(forward'[0]) = OnTier(forward[0]) \ {k}
  BY TierFacts, DeletedTiers
<1>5. length' = Cardinality(OnTier(forward'[0])) /\ length' \in Nat
  <2>1. IsFiniteSet(OnTier(forward[0]))
    BY KeyAssumption, FS_Subset DEF OnTier
  <2>2. length' = length - 1 /\ length = Cardinality(OnTier(forward[0]))
    BY <1>1 DEF DeleteUnlinks, SkipInv, SkipShape
  <2>3. IsFiniteSet(OnTier(forward'[0])) /\ Cardinality(OnTier(forward'[0])) = Cardinality(OnTier(forward[0])) - 1
    BY <1>1, <1>4, <2>1, FS_RemoveElement
  <2>4. Cardinality(OnTier(forward'[0])) \in Nat
    BY <2>3, FS_CardinalityType
  <2> QED BY <2>2, <2>3, <2>4
<1>6. SkipTypeOK'
  <2>1. forward' \in [Tier -> [SkipNode -> Key \union {NULL, WILD}]]
    <3>1. forward' = [t \in Tier |-> forward'[t]]
      BY DEF DeleteUnlinks
    <3> QED BY <3>1, DeletedTiers DEF Pointer
  <2>2. level' \in 1 .. MAXLEVEL
    BY <1>1, <1>3, LevelAssumption
  <2> QED BY <1>2, <1>5, <2>1, <2>2, KeyFacts
        DEF SkipInv, SkipTypeOK, NoUpdate, DeleteUnlinks, SkipReturn
<1>7. SkipShape'
  <2>1. \A t \in Tier : \A n \in OnTier(forward'[t]) \union {header} : LeadsOn(forward'[t], n)
    BY DeletedTiers DEF Sorted
  <2>2. ASSUME NEW t \in Tier, NEW n \in OnTier(forward'[t]), NEW s \in 0 .. t
        PROVE  n \in OnTier(forward'[s])
    BY TierFacts, DeletedTiers, ShapeFacts
  <2>3. \A j \in Key : j \in OnTier(forward'[0]) <=> valueOf'[j] # NULL
    BY <1>1, <1>2, <1>4 DEF SkipInv, SkipShape
  <2>4. ASSUME NEW t \in Tier, t >= level' PROVE forward'[t][header] = NULL
    <3>1. t \in 0 .. level - 1 \/ t >= level
      BY <1>1, TierFacts, LevelAssumption
    <3> QED BY <1>3, <2>4, <3>1, DeletedTiers
  <2> HIDE DEF k
  <2>5. /\ \A t \in Tier : \A n \in OnTier(forward'[t]) :
             LeadsOn(forward'[t], n) /\ \A s \in 0 .. t : n \in OnTier(forward'[s])
        /\ \A t \in Tier : LeadsOn(forward'[t], header)
    BY <2>1, <2>2
  <2> QED BY <1>1, <1>3, <1>5, <2>3, <2>4, <2>5 DEF SkipShape, OnTier, LeadsOn
<1>8. SearchInv'
  BY DEF SearchInv, Searching, Freeing, DeleteUnlinks, SkipReturn
<1> QED BY <1>6, <1>7, <1>8 DEF SkipInv
LEMMA FreeNodeKeeps ==
  ASSUME SkipInv, FreeNode
  PROVE  SkipInv'
<1>1. /\ Freeing /\ Freeing' /\ ~Searching' /\ call' # NULL /\ tier' = -1 /\ x # NULL
      /\ x \in OnTier(forward[0]) /\ x \in Key /\ x \in SkipNode /\ x \in Nat
      /\ \A k \in OnTier(forward[0]) : x <= k
      /\ x' = forward[0][x] /\ forward[0] \in Pointer
      /\ LeadsOn(forward[0], x)
  <2>1. Freeing /\ Freeing' /\ ~Searching' /\ ~Searching /\ call' # NULL /\ tier' = tier /\ x # NULL
    BY DEF FreeNode, Freeing, Searching
  <2>2. x \in OnTier(forward[0]) /\ \A k \in OnTier(forward[0]) : x <= k
    BY <2>1 DEF SkipInv, SearchInv
  <2>3. LeadsOn(forward[0], x)
    BY <2>2, TierFacts DEF SkipInv, SkipShape
  <2> QED BY <2>1, <2>2, <2>3, TierFacts, KeyFacts, ShapeFacts
        DEF FreeNode, SkipInv, SearchInv, OnTier
<1>2. ASSUME NEW t \in Tier
      PROVE  /\ forward'[t] \in Pointer /\ forward'[t][x] = WILD
             /\ \A n \in SkipNode : n # x => forward'[t][n] = forward[t][n]
             /\ OnTier(forward'[t]) = OnTier(forward[t]) \ {x}
  <2>1. forward'[t] = [forward[t] EXCEPT ![x] = WILD] /\ forward[t] \in Pointer
    BY ShapeFacts DEF FreeNode
  <2>2. /\ forward'[t] \in Pointer /\ forward'[t][x] = WILD
        /\ \A n \in SkipNode : n # x => forward'[t][n] = forward[t][n]
    BY <1>1, <2>1 DEF Pointer
  <2> QED BY <1>1, <2>2, KeyFacts DEF OnTier
<1>3. /\ \A k \in Key : k # x => valueOf'[k] = valueOf[k]
      /\ valueOf'[x] = NULL /\ valueOf' \in [Key -> Value \union {NULL}]
  BY <1>1 DEF SkipInv, SkipTypeOK, FreeNode
<1>4. x' \in Key \union {NULL}
  BY <1>1 DEF LeadsOn, OnTier
<1>5. SkipTypeOK'
  <2>1. forward' \in [Tier -> [SkipNode -> Key \union {NULL, WILD}]]
    <3>1. forward' = [t \in Tier |-> forward'[t]]
      BY DEF FreeNode
    <3> QED BY <1>2, <3>1 DEF Pointer
  <2> QED BY <1>3, <1>4, <2>1, KeyFacts DEF SkipInv, SkipTypeOK, FreeNode
<1>6. OnTier(forward'[0]) = OnTier(forward[0]) \ {x}
  BY <1>2, TierFacts
<1>7. ASSUME x' # NULL
      PROVE  x' \in OnTier(forward'[0]) /\ \A k \in OnTier(forward'[0]) : x' <= k
  <2>1. /\ x' \in OnTier(forward[0]) /\ x' > x
        /\ \A k \in OnTier(forward[0]) : k <= x \/ k >= x'
    BY <1>1, <1>7 DEF LeadsOn
  <2>2. \A k \in OnTier(forward[0]) : k \in Nat
    BY KeyFacts DEF OnTier
  <2>3. x' \in OnTier(forward'[0])
    BY <1>1, <1>6, <2>1, <2>2
  <2>4. ASSUME NEW k \in OnTier(forward'[0]) PROVE x' <= k
    <3>1. k \in OnTier(forward[0]) /\ k # x /\ x <= k
      BY <1>1, <1>6
    <3>2. k \in Nat /\ x' \in Nat /\ (k <= x \/ k >= x')
      BY <2>1, <2>2, <3>1
    <3>3. x \in Nat
      BY <1>1
    <3> QED BY <3>1, <3>2, <3>3
  <2> QED BY <2>3, <2>4
<1>8. x' = NULL => OnTier(forward'[0]) = {}
  <2>1. ASSUME x' = NULL, NEW k \in OnTier(forward'[0]) PROVE FALSE
    <3>1. k \in OnTier(forward[0]) /\ k # x /\ x <= k /\ k <= x
      BY <1>1, <1>6, <2>1 DEF LeadsOn
    <3>2. k \in Nat
      BY <3>1, KeyFacts DEF OnTier
    <3> QED BY <1>1, <3>1, <3>2
  <2> QED BY <2>1
<1>9. ASSUME NEW t \in Tier, NEW n \in OnTier(forward'[t])
      PROVE  LeadsOn(forward'[t], n) /\ \A s \in 0 .. t : n \in OnTier(forward'[s])
  <2>1. /\ n \in OnTier(forward[t]) /\ n # x /\ n \in Key /\ n \in Nat /\ n \in SkipNode
        /\ LeadsOn(forward[t], n) /\ n \in OnTier(forward[0])
        /\ forward'[t][n] = forward[t][n]
    <3>1. n \in OnTier(forward[t]) /\ n # x /\ n \in Key /\ n \in Nat /\ n \in SkipNode
      BY <1>2, KeyFacts DEF OnTier
    <3>2. LeadsOn(forward[t], n)
      BY <3>1 DEF SkipInv, SkipShape
    <3> QED BY <1>2, <3>1, <3>2, ShapeFacts
  <2>2. \A s \in 0 .. t : n \in OnTier(forward'[s])
    <3>1. \A s \in 0 .. t : s \in Tier /\ n \in OnTier(forward[s])
      BY <2>1, TierFacts, ShapeFacts
    <3> QED BY <1>2, <2>1, <3>1
  <2>3. forward[t][n] # x
    <3>1. x <= n
      BY <1>1, <2>1
    <3>2. forward[t][n] # NULL => forward[t][n] > n
      BY <2>1 DEF LeadsOn
    <3> QED BY <1>1, <2>1, <3>1, <3>2
  <2>4. LeadsOn(forward'[t], n)
    BY <1>2, <2>1, <2>3 DEF LeadsOn
  <2> QED BY <2>2, <2>4
<1>10. \A k \in Key : k \in OnTier(forward'[0]) <=> valueOf'[k] # NULL
  BY <1>1, <1>3, <1>6 DEF SkipInv, SkipShape
<1>11. SkipShape'
  BY <1>1, <1>7, <1>8, <1>9, <1>10 DEF SkipShape, OnTier, LeadsOn
<1>12. SearchInv'
  BY <1>1, <1>7 DEF SearchInv, OnTier
<1> QED BY <1>5, <1>11, <1>12 DEF SkipInv

LEMMA FreeReturnsKeeps ==
  ASSUME SkipInv, FreeReturns
  PROVE  SkipInv' /\ valueOf = [k \in Key |-> NULL]
<1>1. Freeing /\ ~Freeing' /\ call' = NULL /\ OnTier(forward[0]) = {}
  BY DEF FreeReturns, SkipReturn, Freeing, SkipInv, SkipShape
<1>2. ASSUME NEW t \in Tier
      PROVE  /\ forward'[t] \in Pointer /\ forward'[t][header] = NULL
             /\ OnTier(forward'[t]) = {}
  <2>1. /\ forward'[t] = [forward[t] EXCEPT ![header] = NULL]
        /\ forward[t] \in Pointer /\ OnTier(forward[t]) = {}
    BY <1>1, ShapeFacts DEF FreeReturns
  <2> QED BY <2>1, KeyFacts DEF Pointer, OnTier
<1>3. valueOf' = valueOf /\ valueOf = [k \in Key |-> NULL]
  BY <1>1 DEF SkipInv, SkipShape, SkipTypeOK, FreeReturns
<1>4. SkipTypeOK'
  <2>1. forward' \in [Tier -> [SkipNode -> Key \union {NULL, WILD}]]
    <3>1. forward' = [t \in Tier |-> forward'[t]]
      BY DEF FreeReturns
    <3> QED BY <1>2, <3>1 DEF Pointer
  <2> QED BY <2>1, KeyFacts, LevelAssumption
        DEF SkipInv, SkipTypeOK, FreeReturns, SkipReturn, NoUpdate
<1>5. SkipShape'
  <2>1. \A k \in Key : valueOf'[k] = NULL
    BY <1>3
  <2>2. length' = Cardinality(OnTier(forward'[0])) /\ level' = 1
    BY <1>2, TierFacts, FS_EmptySet DEF FreeReturns
  <2> QED BY <1>1, <1>2, <2>1, <2>2, TierFacts DEF SkipShape, OnTier, LeadsOn
<1>6. SearchInv'
  BY DEF SearchInv, Searching, Freeing, FreeReturns, SkipReturn
<1> QED BY <1>3, <1>4, <1>5, <1>6 DEF SkipInv

\* What the searches answer: the value of the key, NULL if there is none.
LEMMA AnswerFacts ==
  ASSUME SkipInv, NEW fn, Searched(fn), fn # "free"
  PROVE  /\ ~Found => valueOf[call.key] = NULL
         /\ valueOf[call.key] \in Value \union {NULL}
BY SearchedFacts DEF SkipInv, SkipTypeOK

LEMMA SkipStepKeeps == SkipInv /\ [SkipNext]_skipVars => SkipInv'
<1> SUFFICES ASSUME SkipInv, [SkipNext]_skipVars PROVE SkipInv'
  OBVIOUS
<1>1. CASE UNCHANGED skipVars
  BY <1>1 DEF skipVars, towerVars, searchVars, SkipInv, SkipTypeOK, SkipShape, SearchInv,
              OnTier, LeadsOn, LastBefore, Freeing, Searching
<1>2. ASSUME NEW c \in Calls, SkipCall(c) PROVE SkipInv'
  BY <1>2, CallKeeps
<1>3. CASE FreeCall
  BY <1>3, FreeCallKeeps
<1>4. CASE Search
  BY <1>4, SearchKeeps
<1>5. CASE InsertReplaces
  BY <1>5, ReplaceKeeps
<1>6. ASSUME NEW h \in _random_level, InsertAdds(h) PROVE SkipInv'
  BY <1>6, AddKeeps
<1>7. CASE SearchReturns
  <2>1. ~Freeing /\ Searched("search")
    BY <1>7 DEF SearchReturns, Searched, Freeing
  <2>2. (IF Found THEN valueOf[call.key] ELSE NULL) \in Value \union {NULL}
    BY <2>1, AnswerFacts
  <2> QED BY <1>7, <2>1, <2>2, ReturnKeeps DEF SearchReturns
<1>8. CASE DeleteUnlinks
  BY <1>8, DeleteKeeps
<1>9. CASE DeleteMisses
  <2>1. ~Freeing
    BY <1>9 DEF DeleteMisses, Searched, Freeing
  <2> QED BY <1>9, <2>1, ReturnKeeps DEF DeleteMisses
<1>10. CASE FreeNode
  BY <1>10, FreeNodeKeeps
<1>11. CASE FreeReturns
  BY <1>11, FreeReturnsKeeps
<1> QED BY <1>1, <1>2, <1>3, <1>4, <1>5, <1>6, <1>7, <1>8, <1>9, <1>10, <1>11 DEF SkipNext

\* Between any two steps of skiplist.c, for any keys, heights and order of the
\* calls: every tier is sorted and part of the tiers below, no pointer leads to
\* a freed node, list->level and list->length are right, and the search in
\* progress has left every tier at the last node before its key.
THEOREM SkipListInvariant == SkipSpec => []SkipInv
BY SkipInitKeeps, SkipStepKeeps, PTL DEF SkipSpec
-----------------------------------------------------------------------------
(* The refinement.                                                         *)

LEMMA MapStep ==
  ASSUME SkipInv, SkipInv', SkipNext
  PROVE  [Map!MapNext]_(Map!mapVars)
<1> USE DEF Map!MapNext, Map!mapVars
<1>1. ASSUME NEW c \in Calls, SkipCall(c) PROVE Map!Call(c) /\ c \in Map!Requests
  BY <1>1, CallFacts DEF SkipCall, towerVars, Map!Call, Map!Requests, Calls, Freeing
<1>2. CASE FreeCall
  <2>1. Map!Call(FreeArgs)
    BY <1>2, CallFacts DEF FreeCall, towerVars, Map!Call, Map!Empty, Freeing
  <2>2. FreeArgs \in Map!Requests
    BY DEF Map!Requests, FreeArgs
  <2> QED BY <2>1, <2>2
<1>3. CASE Search
  BY <1>3 DEF Search, towerVars, Freeing
<1>4. CASE InsertReplaces
  <2>1. call # NULL /\ call.fn = "insert" /\ ~Freeing /\ ~Freeing'
    BY <1>4 DEF InsertReplaces, Searched, Freeing, SkipReturn
  <2> QED BY <1>4, <2>1 DEF InsertReplaces, SkipReturn, Map!Return
<1>5. ASSUME NEW h \in _random_level, InsertAdds(h) PROVE Map!Return
  <2>1. call # NULL /\ call.fn = "insert" /\ ~Freeing /\ ~Freeing'
    BY <1>5 DEF InsertAdds, Searched, Freeing, SkipReturn
  <2> QED BY <1>5, <2>1 DEF InsertAdds, SkipReturn, Map!Return
<1>6. CASE SearchReturns
  <2>1. call # NULL /\ call.fn = "search" /\ ~Freeing /\ ~Freeing' /\ Searched("search")
    BY <1>6 DEF SearchReturns, Searched, Freeing, SkipReturn
  <2>2. answer' = valueOf[call.key]
    BY <1>6, <2>1, AnswerFacts DEF SearchReturns, SkipReturn
  <2> QED BY <1>6, <2>1, <2>2 DEF SearchReturns, SkipReturn, towerVars, Map!Return
<1>7. CASE DeleteUnlinks
  <2>1. call # NULL /\ call.fn = "delete" /\ ~Freeing /\ ~Freeing'
    BY <1>7 DEF DeleteUnlinks, Searched, Freeing, SkipReturn
  <2> QED BY <1>7, <2>1 DEF DeleteUnlinks, SkipReturn, Map!Return
<1>8. CASE DeleteMisses
  <2>1. call # NULL /\ call.fn = "delete" /\ ~Freeing /\ ~Freeing' /\ Searched("delete")
    BY <1>8 DEF DeleteMisses, Searched, Freeing, SkipReturn
  <2>2. answer' = valueOf[call.key] /\ valueOf[call.key] = NULL
    BY <1>8, <2>1, AnswerFacts DEF DeleteMisses, SkipReturn
  <2>3. valueOf' = [valueOf EXCEPT ![call.key] = NULL]
    BY <1>8, <2>2 DEF DeleteMisses, towerVars, SkipInv, SkipTypeOK
  <2> QED BY <1>8, <2>1, <2>2, <2>3 DEF DeleteMisses, SkipReturn, Map!Return
<1>9. CASE FreeNode
  BY <1>9 DEF FreeNode, Freeing
<1>10. CASE FreeReturns
  <2>1. call # NULL /\ call.fn = "free" /\ Freeing /\ ~Freeing'
    BY <1>10 DEF FreeReturns, Freeing, SkipReturn
  <2> QED BY <1>10, <2>1, FreeReturnsKeeps DEF FreeReturns, SkipReturn, Map!Return
<1> QED BY <1>1, <1>2, <1>3, <1>4, <1>5, <1>6, <1>7, <1>8, <1>9, <1>10 DEF SkipNext

\* skiplist.c implements a map, for any keys, values and heights: every call
\* takes effect when it returns and answers what the calls before it make it
\* answer, and a skiplist_free leaves nothing stored.
THEOREM SkipListImplementsMap == SkipSpec => SkipIsMap
<1>1. SkipInit => Map!MapInit
  BY DEF SkipInit, skiplist_new, Map!MapInit, Map!Empty, Freeing
<1>2. SkipInv /\ SkipInv' /\ [SkipNext]_skipVars => [Map!MapNext]_(Map!mapVars)
  <2>1. CASE SkipNext
    BY <2>1, MapStep
  <2>2. CASE UNCHANGED skipVars
    BY <2>2 DEF skipVars, towerVars, searchVars, Map!mapVars, Freeing
  <2> QED BY <2>1, <2>2
<1> QED BY <1>1, <1>2, SkipListInvariant, PTL DEF SkipSpec, SkipIsMap, Map!MapSpec
=============================================================================
