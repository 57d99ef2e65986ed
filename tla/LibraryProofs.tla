--------------------------- MODULE LibraryProofs ---------------------------
(***************************************************************************)
(* Proofs about the library's containers, for any addresses, lengths and   *)
(* keys: LinkList, BitSet and BloomFilter; and about Lifecycle, how they   *)
(* are made and ended.                                                     *)
(***************************************************************************)
EXTENDS LinkList, BloomFilter, Lifecycle, SequenceTheorems, FunctionTheorems, InductionFacts

-----------------------------------------------------------------------------
(* linklist.c.  A list is a sequence s with its pointers.                  *)

\* The j-th node, or NULL before the first and behind the last.
Nth(s, j) == IF j \in 1 .. Len(s) THEN s[j] ELSE NULL

In(s, n) == \E j \in 1 .. Len(s) : s[j] = n
Distinct(s) == \A i, j \in 1 .. Len(s) : s[i] = s[j] => i = j

\* The values of prev and of next.
Pointer == [ListNode -> ListNode \union {NULL, WILD}]

\* h and t are the ends of the list s, and p and q its pointers.
Linked(s, h, t, p, q) ==
  /\ \A j \in 1 .. Len(s) : q[Nth(s, j)] = Nth(s, j + 1) /\ p[Nth(s, j)] = Nth(s, j - 1)
  /\ h = Nth(s, 1) /\ t = Nth(s, Len(s))

\* s is a list of distinct nodes, those that p knows of.
Nodes(s, p) ==
  /\ s \in Seq(ListNode) /\ Distinct(s)
  /\ \A n \in ListNode : p[n] # WILD <=> In(s, n)

\* Nth as a function of the place.
LEMMA NthFacts ==
  ASSUME NEW s \in Seq(ListNode), Distinct(s)
  PROVE  /\ Len(s) \in Nat
         /\ \A j \in 1 .. Len(s) : Nth(s, j) \in ListNode /\ Nth(s, j) # NULL /\ Nth(s, j) # WILD
         /\ \A j \in Int : j \notin 1 .. Len(s) => Nth(s, j) = NULL
         /\ \A i, j \in 1 .. Len(s) : Nth(s, i) = Nth(s, j) => i = j
         /\ \A n : In(s, n) <=> \E j \in 1 .. Len(s) : Nth(s, j) = n
<1>1. \A j \in 1 .. Len(s) : s[j] \in ListNode
  OBVIOUS
<1>2. Len(s) \in Nat
  OBVIOUS
<1>3. \A j \in 1 .. Len(s) : Nth(s, j) = s[j]
  BY DEF Nth
<1>4. \A j \in Int : j \notin 1 .. Len(s) => Nth(s, j) = NULL
  BY DEF Nth
<1> QED BY <1>1, <1>2, <1>3, <1>4, ListNodeAssumption DEF Distinct, In

\* t is s with n at place i.
Inserted(s, t, i, n) ==
  /\ t \in Seq(ListNode) /\ Len(t) = Len(s) + 1 /\ i \in 1 .. Len(t)
  /\ Nth(t, i) = n
  /\ \A j \in Int : j < i => Nth(t, j) = Nth(s, j)
  /\ \A j \in Int : j > i => Nth(t, j) = Nth(s, j - 1)

\* t is s without place i.
Removed(s, t, i) ==
  /\ t \in Seq(ListNode) /\ Len(t) = Len(s) - 1 /\ i \in 1 .. Len(s)
  /\ \A j \in Int : j < i => Nth(t, j) = Nth(s, j)
  /\ \A j \in Int : j >= i => Nth(t, j) = Nth(s, j + 1)

\* g is f with the values v for n and, unless b is NULL, n for b.
Spliced(f, g, n, v, b) ==
  /\ g \in Pointer /\ g[n] = v
  /\ b # NULL => g[b] = n
  /\ \A m \in ListNode : m # n /\ m # b => g[m] = f[m]

\* Inserting a node between its neighbours keeps a list linked.
LEMMA InsertLinked ==
  ASSUME NEW s, NEW h, NEW e, NEW p \in Pointer, NEW q \in Pointer,
         Nodes(s, p), Linked(s, h, e, p, q),
         NEW n \in ListNode, ~In(s, n), NEW i, NEW t, Inserted(s, t, i, n),
         NEW p2, NEW q2, Spliced(p, p2, n, Nth(s, i - 1), Nth(s, i)),
         Spliced(q, q2, n, Nth(s, i), Nth(s, i - 1)),
         NEW h2, h2 = IF i = 1 THEN n ELSE h,
         NEW e2, e2 = IF i = Len(s) + 1 THEN n ELSE e
  PROVE  Nodes(t, p2) /\ Linked(t, h2, e2, p2, q2) /\ Len(t) = Len(s) + 1
<1>1. /\ Len(s) \in Nat
      /\ \A j \in 1 .. Len(s) : Nth(s, j) \in ListNode /\ Nth(s, j) # NULL /\ Nth(s, j) # WILD
      /\ \A j \in Int : j \notin 1 .. Len(s) => Nth(s, j) = NULL
      /\ \A j, k \in 1 .. Len(s) : Nth(s, j) = Nth(s, k) => j = k
      /\ \A m : In(s, m) <=> \E j \in 1 .. Len(s) : Nth(s, j) = m
  BY NthFacts DEF Nodes
<1>2. /\ t \in Seq(ListNode) /\ Len(t) = Len(s) + 1 /\ i \in 1 .. Len(s) + 1
      /\ Nth(t, i) = n
      /\ \A j \in Int : j < i => Nth(t, j) = Nth(s, j)
      /\ \A j \in Int : j > i => Nth(t, j) = Nth(s, j - 1)
  BY <1>1 DEF Inserted
<1>3. \A j \in 1 .. Len(s) : Nth(s, j) # n
  BY <1>1
<1>4. ASSUME NEW j \in 1 .. Len(t), j # i
      PROVE  \E k \in 1 .. Len(s) : Nth(t, j) = Nth(s, k) /\ k = IF j < i THEN j ELSE j - 1
  <2>1. CASE j < i
    BY <1>1, <1>2, <2>1
  <2>2. CASE j > i
    BY <1>1, <1>2, <2>2
  <2> QED BY <1>2, <1>4, <2>1, <2>2
<1>5. \A j \in 1 .. Len(t) : Nth(t, j) = t[j]
  BY DEF Nth
<1>6. Distinct(t)
  <2> SUFFICES ASSUME NEW j \in 1 .. Len(t), NEW k \in 1 .. Len(t), Nth(t, j) = Nth(t, k)
               PROVE  j = k
    BY <1>5 DEF Distinct
  <2>1. CASE j = i \/ k = i
    BY <1>2, <1>3, <1>4, <2>1
  <2>2. CASE j # i /\ k # i
    <3>1. PICK u \in 1 .. Len(s) : Nth(t, j) = Nth(s, u) /\ u = IF j < i THEN j ELSE j - 1
      BY <1>4, <2>2
    <3>2. PICK v \in 1 .. Len(s) : Nth(t, k) = Nth(s, v) /\ v = IF k < i THEN k ELSE k - 1
      BY <1>4, <2>2
    <3>3. u = v
      BY <1>1, <3>1, <3>2
    <3>4. j \in Int /\ k \in Int /\ i \in Int
      BY <1>1, <1>2
    <3> QED BY <2>2, <3>1, <3>2, <3>3, <3>4
  <2> QED BY <2>1, <2>2
<1>7. ASSUME NEW m \in ListNode PROVE p2[m] # WILD <=> In(t, m)
  <2>1. In(t, m) <=> m = n \/ In(s, m)
    <3>1. ASSUME In(t, m) PROVE m = n \/ In(s, m)
      <4>1. PICK j \in 1 .. Len(t) : Nth(t, j) = m
        BY <1>5, <3>1 DEF In
      <4> QED BY <1>1, <1>2, <1>4, <4>1
    <3>2. ASSUME m = n PROVE In(t, m)
      BY <1>2, <1>5, <3>2 DEF In
    <3>3. ASSUME In(s, m) PROVE In(t, m)
      <4>1. PICK k \in 1 .. Len(s) : Nth(s, k) = m
        BY <1>1, <3>3
      <4>2. k < i => k \in 1 .. Len(t) /\ Nth(t, k) = m
        BY <1>1, <1>2, <4>1
      <4>3. ~(k < i) => k + 1 \in 1 .. Len(t) /\ Nth(t, k + 1) = m
        <5>1. ASSUME ~(k < i) PROVE k + 1 \in 1 .. Len(t) /\ k + 1 > i /\ k + 1 \in Int /\ (k + 1) - 1 = k
          BY <1>1, <1>2, <5>1
        <5> QED BY <1>2, <4>1, <5>1
      <4> QED BY <1>5, <4>2, <4>3 DEF In
    <3> QED BY <3>1, <3>2, <3>3
  <2>2. CASE m = n
    <3>1. p2[n] # WILD
      <4>1. i - 1 \in Int /\ Nth(s, i - 1) # WILD
        BY <1>1, <1>2, ListNodeAssumption
      <4> QED BY <4>1 DEF Spliced
    <3> QED BY <2>1, <2>2, <3>1
  <2>3. CASE m # n /\ m = Nth(s, i)
    <3>1. In(s, m)
      <4>1. i \in 1 .. Len(s)
        BY <1>1, <1>2, <2>3, ListNodeAssumption
      <4> QED BY <1>1, <2>3, <4>1
    <3>2. p2[m] = n
      BY <2>3, ListNodeAssumption DEF Spliced
    <3> QED BY <2>1, <3>1, <3>2, ListNodeAssumption
  <2>4. CASE m # n /\ m # Nth(s, i)
    <3>1. p2[m] = p[m]
      BY <2>4 DEF Spliced
    <3> QED BY <2>1, <2>4, <3>1 DEF Nodes
  <2> QED BY <2>2, <2>3, <2>4
<1>8. Nodes(t, p2)
  BY <1>2, <1>6, <1>7 DEF Nodes
<1>9. ASSUME NEW j \in 1 .. Len(t)
      PROVE  q2[Nth(t, j)] = Nth(t, j + 1) /\ p2[Nth(t, j)] = Nth(t, j - 1)
  <2>0. /\ j \in Int /\ i \in Int /\ Len(s) \in Int
        /\ j + 1 \in Int /\ j - 1 \in Int /\ (j + 1) - 1 = j /\ i - 1 \in Int /\ i + 1 \in Int
    BY <1>1, <1>2
  <2>1. CASE j = i
    <3>1. Nth(t, j + 1) = Nth(s, i) /\ Nth(t, j - 1) = Nth(s, i - 1)
      BY <1>2, <2>0, <2>1
    <3> QED BY <1>2, <2>1, <3>1 DEF Spliced
  <2>2. CASE j < i
    <3>1. /\ j \in 1 .. Len(s) /\ Nth(t, j) = Nth(s, j) /\ Nth(t, j - 1) = Nth(s, j - 1)
      BY <1>2, <2>0, <2>2
    <3>2. p[Nth(s, j)] = Nth(s, j - 1) /\ q[Nth(s, j)] = Nth(s, j + 1)
      BY <3>1 DEF Linked
    <3>3. Nth(s, j) # n /\ Nth(s, j) # Nth(s, i) /\ Nth(s, j) \in ListNode
      <4>1. CASE i \in 1 .. Len(s)
        BY <1>1, <1>3, <2>0, <2>2, <3>1, <4>1
      <4>2. CASE i \notin 1 .. Len(s)
        BY <1>1, <1>3, <2>0, <3>1, <4>2
      <4> QED BY <4>1, <4>2
    <3>4. p2[Nth(t, j)] = Nth(t, j - 1)
      BY <3>1, <3>2, <3>3 DEF Spliced
    <3>5. CASE j = i - 1
      <4>1. q2[Nth(s, i - 1)] = n /\ Nth(t, j + 1) = n
        BY <1>1, <1>2, <2>0, <3>1, <3>5 DEF Spliced
      <4> QED BY <3>1, <3>4, <3>5, <4>1
    <3>6. CASE j # i - 1
      <4>1. j + 1 < i
        BY <2>0, <2>2, <3>6
      <4>2. Nth(t, j + 1) = Nth(s, j + 1)
        BY <1>2, <2>0, <4>1
      <4>3. Nth(s, j) # Nth(s, i - 1)
        <5>1. i - 1 \in 1 .. Len(s)
          BY <1>2, <2>0, <2>2
        <5> QED BY <1>1, <3>1, <3>6, <5>1
      <4>4. q2[Nth(s, j)] = q[Nth(s, j)]
        BY <3>3, <4>3 DEF Spliced
      <4> QED BY <3>1, <3>2, <3>4, <4>2, <4>4
    <3> QED BY <3>5, <3>6
  <2>3. CASE j > i
    <3>1. /\ j - 1 \in 1 .. Len(s) /\ Nth(t, j) = Nth(s, j - 1) /\ Nth(t, j + 1) = Nth(s, j)
      <4>1. j + 1 > i /\ (j + 1) - 1 = j /\ j - 1 \in 1 .. Len(s)
        BY <1>2, <2>0, <2>3
      <4> QED BY <1>2, <2>0, <2>3, <4>1
    <3>2. p[Nth(s, j - 1)] = Nth(s, (j - 1) - 1) /\ q[Nth(s, j - 1)] = Nth(s, (j - 1) + 1)
          /\ (j - 1) + 1 = j
      BY <2>0, <3>1 DEF Linked
    <3>3. Nth(s, j - 1) # n /\ Nth(s, j - 1) # Nth(s, i - 1) /\ Nth(s, j - 1) \in ListNode
      <4>1. CASE i - 1 \in 1 .. Len(s)
        BY <1>1, <1>3, <2>0, <2>3, <3>1, <4>1
      <4>2. CASE i - 1 \notin 1 .. Len(s)
        BY <1>1, <1>3, <2>0, <3>1, <4>2
      <4> QED BY <4>1, <4>2
    <3>4. q2[Nth(t, j)] = Nth(t, j + 1)
      BY <3>1, <3>2, <3>3 DEF Spliced
    <3>5. CASE j = i + 1
      <4>1. j - 1 = i
        BY <2>0, <3>5
      <4>2. p2[Nth(s, i)] = n /\ Nth(t, j - 1) = n
        BY <1>1, <1>2, <3>1, <4>1 DEF Spliced
      <4> QED BY <3>1, <3>4, <4>1, <4>2
    <3>6. CASE j # i + 1
      <4>1. j - 1 > i /\ j - 1 # i /\ i \in 1 .. Len(s)
        BY <1>2, <2>0, <2>3, <3>1, <3>6
      <4>2. Nth(t, j - 1) = Nth(s, (j - 1) - 1)
        BY <1>2, <2>0, <4>1
      <4>3. Nth(s, j - 1) # Nth(s, i)
        BY <1>1, <3>1, <4>1
      <4>4. p2[Nth(s, j - 1)] = p[Nth(s, j - 1)]
        BY <3>3, <4>3 DEF Spliced
      <4> QED BY <3>1, <3>2, <3>4, <4>2, <4>4
    <3> QED BY <3>5, <3>6
  <2> QED BY <2>0, <2>1, <2>2, <2>3
<1>10. h2 = Nth(t, 1)
  BY <1>1, <1>2 DEF Linked
<1>11. e2 = Nth(t, Len(t))
  <2>1. CASE i = Len(s) + 1
    BY <1>2, <2>1
  <2>2. CASE i # Len(s) + 1
    <3>1. Len(t) > i /\ Len(t) \in Int /\ Len(t) - 1 = Len(s)
      BY <1>1, <1>2, <2>2
    <3> QED BY <1>2, <2>2, <3>1 DEF Linked
  <2> QED BY <2>1, <2>2
<1> QED BY <1>2, <1>8, <1>9, <1>10, <1>11 DEF Linked

\* g is f where the nodes next to n are linked to each other: v for b, unless
\* b is NULL, and WILD for n.
Bypassed(f, g, n, v, b) ==
  /\ g \in Pointer /\ g[n] = WILD
  /\ b # NULL => g[b] = v
  /\ \A m \in ListNode : m # n /\ m # b => g[m] = f[m]

\* Taking a node out keeps a list linked.
LEMMA RemoveLinked ==
  ASSUME NEW s, NEW h, NEW e, NEW p \in Pointer, NEW q \in Pointer,
         Nodes(s, p), Linked(s, h, e, p, q), NEW i, NEW t, Removed(s, t, i),
         NEW p2, NEW q2, Bypassed(p, p2, Nth(s, i), Nth(s, i - 1), Nth(s, i + 1)),
         Bypassed(q, q2, Nth(s, i), Nth(s, i + 1), Nth(s, i - 1)),
         NEW h2, h2 = IF i = 1 THEN Nth(s, 2) ELSE h,
         NEW e2, e2 = IF i = Len(s) THEN Nth(s, Len(s) - 1) ELSE e
  PROVE  Nodes(t, p2) /\ Linked(t, h2, e2, p2, q2) /\ Len(t) = Len(s) - 1
<1>1. /\ Len(s) \in Nat
      /\ \A j \in 1 .. Len(s) : Nth(s, j) \in ListNode /\ Nth(s, j) # NULL /\ Nth(s, j) # WILD
      /\ \A j \in Int : j \notin 1 .. Len(s) => Nth(s, j) = NULL
      /\ \A j, k \in 1 .. Len(s) : Nth(s, j) = Nth(s, k) => j = k
      /\ \A m : In(s, m) <=> \E j \in 1 .. Len(s) : Nth(s, j) = m
  BY NthFacts DEF Nodes
<1>2. /\ t \in Seq(ListNode) /\ Len(t) = Len(s) - 1 /\ i \in 1 .. Len(s)
      /\ \A j \in Int : j < i => Nth(t, j) = Nth(s, j)
      /\ \A j \in Int : j >= i => Nth(t, j) = Nth(s, j + 1)
  BY <1>1 DEF Removed
<1>3. ASSUME NEW j \in 1 .. Len(t)
      PROVE  \E k \in 1 .. Len(s) : k # i /\ Nth(t, j) = Nth(s, k) /\ k = IF j < i THEN j ELSE j + 1
  <2>0. Len(s) \in Nat /\ i \in 1 .. Len(s) /\ Len(t) = Len(s) - 1 /\ j \in 1 .. Len(t)
    BY <1>1, <1>2, <1>3
  <2>1. CASE j < i
    <3>1. j \in 1 .. Len(s) /\ j # i /\ j \in Int
      BY <2>0, <2>1
    <3>2. Nth(t, j) = Nth(s, j)
      BY <1>2, <2>1, <3>1
    <3> QED BY <2>1, <3>1, <3>2
  <2>2. CASE j >= i
    <3>1. j + 1 \in 1 .. Len(s) /\ j + 1 # i /\ j \in Int /\ ~(j < i)
      BY <2>0, <2>2
    <3>2. Nth(t, j) = Nth(s, j + 1)
      BY <1>2, <2>2, <3>1
    <3> QED BY <3>1, <3>2
  <2> QED BY <1>1, <1>2, <2>1, <2>2
<1>4. \A j \in 1 .. Len(t) : Nth(t, j) = t[j]
  BY DEF Nth
<1>5. Distinct(t)
  <2> SUFFICES ASSUME NEW j \in 1 .. Len(t), NEW k \in 1 .. Len(t), Nth(t, j) = Nth(t, k)
               PROVE  j = k
    BY <1>4 DEF Distinct
  <2>1. PICK u \in 1 .. Len(s) : u # i /\ Nth(t, j) = Nth(s, u) /\ u = IF j < i THEN j ELSE j + 1
    BY <1>3
  <2>2. PICK v \in 1 .. Len(s) : v # i /\ Nth(t, k) = Nth(s, v) /\ v = IF k < i THEN k ELSE k + 1
    BY <1>3
  <2>3. u = v
    BY <1>1, <2>1, <2>2
  <2>4. j \in Int /\ k \in Int /\ i \in Int
    BY <1>1, <1>2
  <2> QED BY <2>1, <2>2, <2>3, <2>4
<1>6. ASSUME NEW m \in ListNode PROVE p2[m] # WILD <=> In(t, m)
  <2>1. In(t, m) <=> m # Nth(s, i) /\ In(s, m)
    <3>1. ASSUME In(t, m) PROVE m # Nth(s, i) /\ In(s, m)
      <4>1. PICK j \in 1 .. Len(t) : Nth(t, j) = m
        BY <1>4, <3>1 DEF In
      <4>2. PICK u \in 1 .. Len(s) : u # i /\ Nth(t, j) = Nth(s, u)
        BY <1>3
      <4> QED BY <1>1, <1>2, <4>1, <4>2
    <3>2. ASSUME m # Nth(s, i), In(s, m) PROVE In(t, m)
      <4>1. PICK k \in 1 .. Len(s) : Nth(s, k) = m
        BY <1>1, <3>2
      <4>2. k # i
        BY <3>2, <4>1
      <4>3. k < i => k \in 1 .. Len(t) /\ Nth(t, k) = m
        BY <1>1, <1>2, <4>1
      <4>4. k > i => k - 1 \in 1 .. Len(t) /\ Nth(t, k - 1) = m
        <5>1. ASSUME k > i PROVE k - 1 \in 1 .. Len(t) /\ k - 1 >= i /\ k - 1 \in Int /\ (k - 1) + 1 = k
          BY <1>1, <1>2, <5>1
        <5> QED BY <1>2, <4>1, <5>1
      <4>5. k < i \/ k > i
        BY <1>1, <1>2, <4>2
      <4> QED BY <1>4, <4>3, <4>4, <4>5 DEF In
    <3> QED BY <3>1, <3>2
  <2>2. CASE m = Nth(s, i)
    BY <2>1, <2>2 DEF Bypassed
  <2>3. CASE m # Nth(s, i) /\ m = Nth(s, i + 1)
    <3>1. i + 1 \in 1 .. Len(s) /\ In(s, m)
      <4>1. i + 1 \in Int
        BY <1>1, <1>2
      <4> QED BY <1>1, <2>3, <4>1, ListNodeAssumption
    <3>2. p2[m] = Nth(s, i - 1) /\ Nth(s, i - 1) # WILD
      <4>1. i - 1 \in Int /\ m # NULL
        BY <1>1, <1>2, ListNodeAssumption
      <4> QED BY <1>1, <2>3, <4>1, ListNodeAssumption DEF Bypassed
    <3> QED BY <2>1, <2>3, <3>1, <3>2
  <2>4. CASE m # Nth(s, i) /\ m # Nth(s, i + 1)
    <3>1. p2[m] = p[m]
      BY <2>4 DEF Bypassed
    <3> QED BY <2>1, <2>4, <3>1 DEF Nodes
  <2> QED BY <2>2, <2>3, <2>4
<1>7. Nodes(t, p2)
  BY <1>2, <1>5, <1>6 DEF Nodes
<1>8. ASSUME NEW j \in 1 .. Len(t)
      PROVE  q2[Nth(t, j)] = Nth(t, j + 1) /\ p2[Nth(t, j)] = Nth(t, j - 1)
  <2>0. /\ j \in Int /\ i \in Int /\ Len(s) \in Int
        /\ j + 1 \in Int /\ j - 1 \in Int /\ (j + 1) - 1 = j /\ (j - 1) + 1 = j
        /\ i - 1 \in Int /\ i + 1 \in Int /\ j + 2 \in Int /\ (j + 1) + 1 = j + 2
    BY <1>1, <1>2
  <2>1. CASE j < i
    <3>1. /\ j \in 1 .. Len(s) /\ Nth(t, j) = Nth(s, j) /\ Nth(t, j - 1) = Nth(s, j - 1)
      <4>1. j \in 1 .. Len(s) /\ j - 1 < i
        BY <1>1, <1>2, <2>0, <2>1
      <4>2. \A k \in Int : k < i => Nth(t, k) = Nth(s, k)
        BY <1>2
      <4> QED BY <2>0, <2>1, <4>1, <4>2
    <3>2. p[Nth(s, j)] = Nth(s, j - 1) /\ q[Nth(s, j)] = Nth(s, j + 1)
      BY <3>1 DEF Linked
    <3>3. Nth(s, j) # Nth(s, i) /\ Nth(s, j) # Nth(s, i + 1) /\ Nth(s, j) \in ListNode /\ Nth(s, j) # NULL
      <4>1. CASE i + 1 \in 1 .. Len(s)
        BY <1>1, <1>2, <2>0, <2>1, <3>1, <4>1
      <4>2. CASE i + 1 \notin 1 .. Len(s)
        BY <1>1, <1>2, <2>0, <2>1, <3>1, <4>2
      <4> QED BY <4>1, <4>2
    <3>4. p2[Nth(t, j)] = Nth(t, j - 1)
      BY <3>1, <3>2, <3>3 DEF Bypassed
    <3>5. CASE j = i - 1
      <4>1. q2[Nth(s, i - 1)] = Nth(s, i + 1)
        BY <3>3, <3>5 DEF Bypassed
      <4>2. j + 1 = i
        BY <2>0, <3>5
      <4>3. Nth(t, j + 1) = Nth(s, i + 1)
        BY <1>2, <2>0, <4>2
      <4> QED BY <3>1, <3>4, <3>5, <4>1, <4>3
    <3>6. CASE j # i - 1
      <4>1. j + 1 < i
        BY <2>0, <2>1, <3>6
      <4>2. Nth(t, j + 1) = Nth(s, j + 1)
        BY <1>2, <2>0, <4>1
      <4>3. Nth(s, j) # Nth(s, i - 1)
        <5>1. i - 1 \in 1 .. Len(s)
          BY <1>2, <2>0, <2>1
        <5> QED BY <1>1, <3>1, <3>6, <5>1
      <4>4. q2[Nth(s, j)] = q[Nth(s, j)]
        BY <3>3, <4>3 DEF Bypassed
      <4> QED BY <3>1, <3>2, <3>4, <4>2, <4>4
    <3> QED BY <3>5, <3>6
  <2>2. CASE j >= i
    <3>1. /\ j + 1 \in 1 .. Len(s) /\ Nth(t, j) = Nth(s, j + 1) /\ Nth(t, j + 1) = Nth(s, (j + 1) + 1)
      <4>1. j + 1 >= i /\ j + 1 \in 1 .. Len(s)
        BY <1>2, <2>0, <2>2
      <4> QED BY <1>2, <2>0, <2>2, <4>1
    <3>2. p[Nth(s, j + 1)] = Nth(s, (j + 1) - 1) /\ q[Nth(s, j + 1)] = Nth(s, (j + 1) + 1)
      BY <3>1 DEF Linked
    <3>3. /\ Nth(s, j + 1) # Nth(s, i) /\ Nth(s, j + 1) # Nth(s, i - 1)
          /\ Nth(s, j + 1) \in ListNode /\ Nth(s, j + 1) # NULL
      <4>1. CASE i - 1 \in 1 .. Len(s)
        BY <1>1, <1>2, <2>0, <2>2, <3>1, <4>1
      <4>2. CASE i - 1 \notin 1 .. Len(s)
        BY <1>1, <1>2, <2>0, <2>2, <3>1, <4>2
      <4> QED BY <4>1, <4>2
    <3>4. q2[Nth(t, j)] = Nth(t, j + 1)
      BY <3>1, <3>2, <3>3 DEF Bypassed
    <3>5. CASE j = i
      <4>1. p2[Nth(s, i + 1)] = Nth(s, i - 1)
        BY <3>3, <3>5 DEF Bypassed
      <4>2. Nth(t, j - 1) = Nth(s, i - 1)
        <5>1. j - 1 < i
          BY <2>0, <3>5
        <5> QED BY <1>2, <2>0, <3>5, <5>1
      <4> QED BY <3>1, <3>4, <3>5, <4>1, <4>2
    <3>6. CASE j # i
      <4>1. j - 1 >= i
        BY <2>0, <2>2, <3>6
      <4>2. Nth(t, j - 1) = Nth(s, j)
        BY <1>2, <2>0, <4>1
      <4>3. Nth(s, j + 1) # Nth(s, i + 1)
        <5>1. i + 1 \in 1 .. Len(s) /\ j + 1 # i + 1
          BY <1>2, <2>0, <2>2, <3>1, <3>6
        <5> QED BY <1>1, <3>1, <5>1
      <4>4. p2[Nth(s, j + 1)] = p[Nth(s, j + 1)]
        BY <3>3, <4>3 DEF Bypassed
      <4> QED BY <2>0, <3>1, <3>2, <3>4, <4>2, <4>4
    <3> QED BY <3>5, <3>6
  <2> QED BY <2>0, <2>1, <2>2
<1>9. h2 = Nth(t, 1)
  <2>1. CASE i = 1
    BY <1>2, <2>1
  <2>2. CASE i # 1
    BY <1>1, <1>2, <2>2 DEF Linked
  <2> QED BY <2>1, <2>2
<1>10. e2 = Nth(t, Len(t))
  <2>1. CASE i = Len(s)
    <3>1. Len(t) < i /\ Len(t) \in Int
      BY <1>1, <1>2, <2>1
    <3> QED BY <1>2, <2>1, <3>1
  <2>2. CASE i # Len(s)
    <3>1. Len(t) >= i /\ Len(t) \in Int /\ Len(t) + 1 = Len(s)
      BY <1>1, <1>2, <2>2
    <3> QED BY <1>2, <2>2, <3>1 DEF Linked
  <2> QED BY <2>1, <2>2
<1> QED BY <1>2, <1>7, <1>8, <1>9, <1>10 DEF Linked

\* The two operations on the sequence.
LEMMA InsertPlaces ==
  ASSUME NEW s \in Seq(ListNode), NEW i \in 1 .. Len(s) + 1, NEW n \in ListNode
  PROVE  Inserted(s, InsertAt(s, i, n), i, n)
<1> DEFINE t == InsertAt(s, i, n)
<1>1. /\ t \in Seq(ListNode) /\ Len(t) = Len(s) + 1 /\ t[i] = n /\ Len(s) \in Nat
      /\ \A j \in 1 .. i - 1 : t[j] = s[j]
      /\ \A j \in i + 1 .. Len(s) + 1 : t[j] = s[j - 1]
  <2> DEFINE a == SubSeq(s, 1, i - 1)
             b == SubSeq(s, i, Len(s))
  <2>1. /\ a \in Seq(ListNode) /\ Len(a) = i - 1 /\ \A j \in 1 .. i - 1 : a[j] = s[j]
        /\ b \in Seq(ListNode) /\ Len(b) = Len(s) - i + 1
        /\ \A j \in 1 .. Len(s) - i + 1 : b[j] = s[i + j - 1]
    OBVIOUS
  <2>2. t = (a \o <<n>>) \o b
    BY DEF InsertAt
  <2> HIDE DEF a, b, t
  <2>3. Len(s) \in Nat /\ i \in Nat
    OBVIOUS
  <2>4. /\ a \o <<n>> \in Seq(ListNode) /\ Len(a \o <<n>>) = i /\ (a \o <<n>>)[i] = n
        /\ \A j \in 1 .. i - 1 : (a \o <<n>>)[j] = a[j]
    <3>1. /\ <<n>> \in Seq(ListNode) /\ Len(<<n>>) = 1 /\ <<n>>[1] = n
      OBVIOUS
    <3> DEFINE e == <<n>>
    <3> HIDE DEF e
    <3>2. e \in Seq(ListNode) /\ Len(e) = 1 /\ e[1] = n
      BY <3>1 DEF e
    <3>3. a \in Seq(ListNode) /\ e \in Seq(ListNode)
      BY <2>1, <3>2
    <3>4. /\ a \o e \in Seq(ListNode) /\ Len(a \o e) = Len(a) + Len(e)
          /\ \A j \in 1 .. Len(a) : (a \o e)[j] = a[j]
      BY ONLY <3>3
    <3>5. Len(e) = 1 => (a \o e)[Len(a) + 1] = e[1]
      <4>1. Len(a) \in Nat
        BY ONLY <3>3
      <4>2. (Len(a) + 1) - Len(a) = 1 /\ Len(a) + 1 \in 1 .. Len(a) + 1 /\ Len(a) + 1 > Len(a)
        BY ONLY <4>1
      <4>3. \A j \in 1 .. Len(a) + Len(e) : j > Len(a) => (a \o e)[j] = e[j - Len(a)]
        BY ONLY <3>3
      <4> QED BY <4>2, <4>3
    <3>6. Len(a) = i - 1
      BY <2>1
    <3>7. 1 .. Len(a) = 1 .. i - 1 /\ Len(a) + Len(e) = i /\ Len(a) + 1 = i
      BY ONLY <2>3, <3>2, <3>6
    <3> QED BY <3>2, <3>4, <3>5, <3>7 DEF e
  <2> DEFINE c == a \o <<n>>
  <2> HIDE DEF c
  <2>5. /\ c \o b \in Seq(ListNode) /\ Len(c \o b) = Len(s) + 1
        /\ \A j \in 1 .. i : (c \o b)[j] = c[j]
        /\ \A j \in i + 1 .. Len(s) + 1 : (c \o b)[j] = b[j - i]
    <3>1. c \in Seq(ListNode) /\ Len(c) = i
      BY <2>4 DEF c
    <3> QED BY <2>1, <2>3, <3>1
  <2>6. ASSUME NEW j \in i + 1 .. Len(s) + 1 PROVE b[j - i] = s[j - 1]
    <3>1. j - i \in 1 .. Len(s) - i + 1 /\ i + (j - i) - 1 = j - 1
      BY <2>3
    <3> QED BY <2>1, <3>1
  <2> QED BY <2>1, <2>2, <2>3, <2>4, <2>5, <2>6 DEF c
<1> HIDE DEF t
<1>2. ASSUME NEW j \in Int, j < i PROVE Nth(t, j) = Nth(s, j)
  BY <1>1, <1>2 DEF Nth
<1>3. ASSUME NEW j \in Int, j > i PROVE Nth(t, j) = Nth(s, j - 1)
  BY <1>1, <1>3 DEF Nth
<1>4. Nth(t, i) = n /\ i \in 1 .. Len(t)
  BY <1>1 DEF Nth
<1>5. Inserted(s, t, i, n)
  BY <1>1, <1>2, <1>3, <1>4 DEF Inserted
<1> QED BY <1>5 DEF t

\* RemoveAt(s, i) is s without its i-th element, the later ones a place earlier.
LEMMA RemovePlaces ==
  ASSUME NEW s \in Seq(ListNode), NEW i \in 1 .. Len(s)
  PROVE  Removed(s, RemoveAt(s, i), i)
<1> DEFINE t == RemoveAt(s, i)
<1>1. /\ t \in Seq(ListNode) /\ Len(t) = Len(s) - 1 /\ Len(s) \in Nat
      /\ \A j \in 1 .. i - 1 : t[j] = s[j]
      /\ \A j \in i .. Len(s) - 1 : t[j] = s[j + 1]
  <2> DEFINE a == SubSeq(s, 1, i - 1)
             b == SubSeq(s, i + 1, Len(s))
  <2>1. /\ a \in Seq(ListNode) /\ Len(a) = i - 1 /\ \A j \in 1 .. i - 1 : a[j] = s[j]
        /\ b \in Seq(ListNode) /\ Len(b) = Len(s) - i
        /\ \A j \in 1 .. Len(s) - i : b[j] = s[i + j]
    <3>1. a \in Seq(ListNode) /\ Len(a) = i - 1
      OBVIOUS
    <3>2. b \in Seq(ListNode) /\ Len(b) = Len(s) - i
      OBVIOUS
    <3>3. \A j \in 1 .. i - 1 : a[j] = s[j]
      OBVIOUS
    <3>4. \A j \in 1 .. Len(s) - i : b[j] = s[i + j]
      OBVIOUS
    <3> QED BY <3>1, <3>2, <3>3, <3>4
  <2>2. t = a \o b
    BY DEF RemoveAt
  <2> HIDE DEF a, b, t
  <2>3. Len(s) \in Nat /\ i \in Nat
    OBVIOUS
  <2>4. /\ a \o b \in Seq(ListNode) /\ Len(a \o b) = Len(s) - 1
        /\ \A j \in 1 .. i - 1 : (a \o b)[j] = a[j]
        /\ \A j \in i .. Len(s) - 1 : (a \o b)[j] = b[j - (i - 1)]
    <3>0. a \in Seq(ListNode) /\ b \in Seq(ListNode)
      BY <2>1
    <3>1. a \o b \in Seq(ListNode) /\ Len(a \o b) = Len(a) + Len(b)
      BY <3>0
    <3>2. (i - 1) + (Len(s) - i) = Len(s) - 1
      BY <2>3
    <3>3. \A j \in 1 .. Len(a) : (a \o b)[j] = a[j]
      BY <2>1, <2>3, <3>2
    <3>4. \A j \in Len(a) + 1 .. Len(a) + Len(b) : (a \o b)[j] = b[j - Len(a)]
      BY <2>1, <2>3
    <3>5. (i - 1) + 1 = i
      BY <2>3
    <3> QED BY <2>1, <3>1, <3>2, <3>3, <3>4, <3>5
  <2>5. ASSUME NEW j \in i .. Len(s) - 1 PROVE b[j - (i - 1)] = s[j + 1]
    <3>1. j - (i - 1) \in 1 .. Len(s) - i /\ i + (j - (i - 1)) = j + 1
      BY <2>3
    <3> QED BY <2>1, <3>1
  <2> QED BY <2>1, <2>2, <2>3, <2>4, <2>5
<1> HIDE DEF t
<1>2. ASSUME NEW j \in Int, j < i PROVE Nth(t, j) = Nth(s, j)
  BY <1>1, <1>2 DEF Nth
<1>3. ASSUME NEW j \in Int, j >= i PROVE Nth(t, j) = Nth(s, j + 1)
  BY <1>1, <1>3 DEF Nth
<1>4. Removed(s, t, i)
  BY <1>1, <1>2, <1>3 DEF Removed
<1> QED BY <1>4 DEF t

\* <<n>> \o s is s with n before its first place.
LEMMA PrependPlaces ==
  ASSUME NEW s \in Seq(ListNode), NEW n \in ListNode
  PROVE  Inserted(s, <<n>> \o s, 1, n)
<1> DEFINE t == <<n>> \o s
<1>1. t \in Seq(ListNode) /\ Len(t) = Len(s) + 1 /\ Len(s) \in Nat
  OBVIOUS
<1>2. t[1] = n /\ \A j \in 2 .. Len(s) + 1 : t[j] = s[j - 1]
  OBVIOUS
<1> HIDE DEF t
<1>3. ASSUME NEW j \in Int, j < 1 PROVE Nth(t, j) = Nth(s, j)
  BY <1>1, <1>3 DEF Nth
<1>4. ASSUME NEW j \in Int, j > 1 PROVE Nth(t, j) = Nth(s, j - 1)
  BY <1>1, <1>2, <1>4 DEF Nth
<1>5. Nth(t, 1) = n /\ 1 \in 1 .. Len(t)
  BY <1>1, <1>2 DEF Nth
<1>6. Inserted(s, t, 1, n)
  BY <1>1, <1>3, <1>4, <1>5 DEF Inserted
<1> QED BY <1>6 DEF t

\* Append(s, n) is s with n behind its last place.
LEMMA AppendPlaces ==
  ASSUME NEW s \in Seq(ListNode), NEW n \in ListNode
  PROVE  Inserted(s, Append(s, n), Len(s) + 1, n)
<1> DEFINE t == Append(s, n)
<1>1. t \in Seq(ListNode) /\ Len(t) = Len(s) + 1 /\ Len(s) \in Nat
  OBVIOUS
<1>2. t[Len(s) + 1] = n /\ \A j \in 1 .. Len(s) : t[j] = s[j]
  OBVIOUS
<1> HIDE DEF t
<1>3. ASSUME NEW j \in Int, j < Len(s) + 1 PROVE Nth(t, j) = Nth(s, j)
  BY <1>1, <1>2, <1>3 DEF Nth
<1>4. ASSUME NEW j \in Int, j > Len(s) + 1 PROVE Nth(t, j) = Nth(s, j - 1)
  BY <1>1, <1>4 DEF Nth
<1>5. Nth(t, Len(s) + 1) = n /\ Len(s) + 1 \in 1 .. Len(t)
  BY <1>1, <1>2 DEF Nth
<1>6. Inserted(s, t, Len(s) + 1, n)
  BY <1>1, <1>3, <1>4, <1>5 DEF Inserted
<1> QED BY <1>6 DEF t

\* The place of a node of the list.
LEMMA PlaceOf ==
  ASSUME NEW s \in Seq(ListNode), NEW n \in ListNode, In(s, n)
  PROVE  Place(s, n) \in 1 .. Len(s) /\ Nth(s, Place(s, n)) = n
<1>1. \E j \in DOMAIN s : s[j] = n
  BY DEF In
<1>2. Place(s, n) \in DOMAIN s /\ s[Place(s, n)] = n
  BY <1>1 DEF Place
<1>3. DOMAIN s = 1 .. Len(s)
  OBVIOUS
<1> QED BY <1>2, <1>3 DEF Nth

\* What the assignments to prev and to next amount to.
LEMMA SetSplices ==
  ASSUME NEW f \in Pointer, NEW n \in ListNode, NEW v \in ListNode \union {NULL},
         NEW b \in ListNode \union {NULL}, b # n
  PROVE  Spliced(f, SetUnlessNull([f EXCEPT ![n] = v], b, n), n, v, b)
  BY ListNodeAssumption DEF Spliced, SetUnlessNull, Pointer

\* Making b skip the node n, which is freed, changes f at no other node.
LEMMA SetBypasses ==
  ASSUME NEW f \in Pointer, NEW n \in ListNode, NEW v \in ListNode \union {NULL},
         NEW b \in ListNode \union {NULL}, b # n
  PROVE  Bypassed(f, [SetUnlessNull(f, b, v) EXCEPT ![n] = WILD], n, v, b)
  BY ListNodeAssumption DEF Bypassed, SetUnlessNull, Pointer

\* The invariant while the program calls, and while linklist_free runs.
Calling ==
  /\ freeing = FALSE /\ prev \in Pointer /\ next \in Pointer
  /\ Nodes(order, prev) /\ Linked(order, head, tail, prev, next) /\ len = Len(order)

Emptying ==
  /\ freeing = TRUE /\ prev \in Pointer /\ next \in Pointer
  /\ Nodes(order, prev)
  /\ \A j \in 1 .. Len(order) : next[Nth(order, j)] = Nth(order, j + 1)
  /\ left = Len(order) /\ current = Nth(order, 1)

\* The invariant is Calling between calls and Emptying inside linklist_free.
LEMMA InvariantForms == LinkInv <=> Calling \/ Emptying
<1>1. CASE order \in Seq(ListNode)
  <2>1. DOMAIN order = 1 .. Len(order) /\ Len(order) \in Nat
    BY <1>1
  <2>2. \A j : At(j) = Nth(order, j)
    BY <2>1 DEF At, Nth
  <2>3. \A j \in 1 .. Len(order) : order[j] = Nth(order, j) /\ order[j] \in ListNode
    BY <1>1 DEF Nth
  <2>4. Allocated = Range(order) <=> \A n \in ListNode : prev[n] # WILD <=> In(order, n)
    BY <2>1, <2>3 DEF Allocated, Range, In
  <2>5. Nodes(order, prev) <=> Distinct(order) /\ Allocated = Range(order)
    BY <1>1, <2>4 DEF Nodes
  <2>6. LinkInv <=> /\ ListLinked /\ Distinct(order) /\ prev \in Pointer /\ next \in Pointer
                    /\ freeing \in BOOLEAN
    BY <1>1, <2>1 DEF LinkInv, Distinct, Pointer
  <2>7. ListLinked <=>
          /\ \A j \in 1 .. Len(order) :
               /\ next[Nth(order, j)] = Nth(order, j + 1)
               /\ freeing \/ prev[Nth(order, j)] = Nth(order, j - 1)
          /\ Allocated = Range(order)
          /\ IF freeing THEN left = Len(order) /\ current = Nth(order, 1)
                        ELSE /\ len = Len(order) /\ head = Nth(order, 1)
                             /\ tail = Nth(order, Len(order))
    BY <2>1, <2>2, <2>3 DEF ListLinked
  <2> QED BY <2>5, <2>6, <2>7 DEF Calling, Emptying, Linked
<1>2. CASE order \notin Seq(ListNode)
  BY <1>2 DEF LinkInv, Calling, Emptying, Nodes
<1> QED BY <1>1, <1>2

\* The same after a step.
LEMMA InvariantFormsNext == Calling' \/ Emptying' => LinkInv'
  BY InvariantForms, PTL

\* Any action that inserts a node.
LEMMA CallInserts ==
  ASSUME Calling, NEW n \in ListNode, Fresh(n), NEW i, Inserted(order, order', i, n),
         Spliced(prev, prev', n, Nth(order, i - 1), Nth(order, i)),
         Spliced(next, next', n, Nth(order, i), Nth(order, i - 1)),
         head' = IF i = 1 THEN n ELSE head,
         tail' = IF i = Len(order) + 1 THEN n ELSE tail,
         len' = len + 1, freeing' = freeing
  PROVE  Calling'
<1>1. ~In(order, n)
  BY DEF Calling, Nodes, Fresh, Allocated
<1>2. Nodes(order', prev') /\ Linked(order', head', tail', prev', next')
      /\ Len(order') = Len(order) + 1
  BY <1>1, InsertLinked DEF Calling
<1>3. prev' \in Pointer /\ next' \in Pointer
  BY DEF Spliced
<1> QED BY <1>2, <1>3 DEF Calling

\* Any action that takes a node out.
LEMMA CallRemoves ==
  ASSUME Calling, NEW i, Removed(order, order', i),
         Bypassed(prev, prev', Nth(order, i), Nth(order, i - 1), Nth(order, i + 1)),
         Bypassed(next, next', Nth(order, i), Nth(order, i + 1), Nth(order, i - 1)),
         head' = IF i = 1 THEN Nth(order, 2) ELSE head,
         tail' = IF i = Len(order) THEN Nth(order, Len(order) - 1) ELSE tail,
         len' = len - 1, freeing' = freeing
  PROVE  Calling'
<1>1. Nodes(order', prev') /\ Linked(order', head', tail', prev', next')
      /\ Len(order') = Len(order) - 1
  BY RemoveLinked DEF Calling
<1>2. prev' \in Pointer /\ next' \in Pointer
  BY DEF Bypassed
<1> QED BY <1>1, <1>2 DEF Calling

\* What Calling says of the places.
LEMMA CallingFacts ==
  ASSUME Calling
  PROVE  /\ order \in Seq(ListNode) /\ Len(order) \in Nat /\ len = Len(order)
         /\ prev \in Pointer /\ next \in Pointer /\ freeing = FALSE
         /\ head = Nth(order, 1) /\ tail = Nth(order, Len(order))
         /\ \A j \in 1 .. Len(order) :
              /\ Nth(order, j) \in ListNode /\ Nth(order, j) # NULL
              /\ next[Nth(order, j)] = Nth(order, j + 1) /\ prev[Nth(order, j)] = Nth(order, j - 1)
         /\ \A j \in Int : Nth(order, j) \in ListNode \union {NULL}
         /\ \A j \in Int : j \notin 1 .. Len(order) => Nth(order, j) = NULL
         /\ \A i, j \in 1 .. Len(order) : Nth(order, i) = Nth(order, j) => i = j
         /\ \A n \in ListNode : n \in Allocated <=> In(order, n)
<1>1. order \in Seq(ListNode) /\ Distinct(order)
  BY DEF Calling, Nodes
<1>2. /\ Len(order) \in Nat
      /\ \A j \in 1 .. Len(order) : Nth(order, j) \in ListNode /\ Nth(order, j) # NULL
      /\ \A j \in Int : j \notin 1 .. Len(order) => Nth(order, j) = NULL
      /\ \A i, j \in 1 .. Len(order) : Nth(order, i) = Nth(order, j) => i = j
  BY <1>1, NthFacts
<1>3. \A n \in ListNode : n \in Allocated <=> In(order, n)
  BY DEF Calling, Nodes, Allocated
<1>4. \A j \in Int : Nth(order, j) \in ListNode \union {NULL}
  BY <1>2
<1>5. /\ \A j \in 1 .. Len(order) :
           next[Nth(order, j)] = Nth(order, j + 1) /\ prev[Nth(order, j)] = Nth(order, j - 1)
      /\ head = Nth(order, 1) /\ tail = Nth(order, Len(order))
      /\ prev \in Pointer /\ next \in Pointer /\ freeing = FALSE /\ len = Len(order)
  BY DEF Calling, Linked
<1> QED BY <1>1, <1>2, <1>3, <1>4, <1>5

\* linklist_add_head keeps the list linked.
LEMMA AddHeadKeeps ==
  ASSUME Calling, NEW n \in ListNode, linklist_add_head(n)
  PROVE  Calling'
<1>1. order \in Seq(ListNode) /\ Len(order) \in Nat /\ len = Len(order) /\ prev \in Pointer
      /\ next \in Pointer /\ head = Nth(order, 1) /\ tail = Nth(order, Len(order))
  BY CallingFacts
<1>2. Fresh(n) /\ order' = <<n>> \o order /\ len' = len + 1 /\ freeing' = freeing /\ head' = n
  BY DEF linklist_add_head, freeVars
<1>3. Inserted(order, order', 1, n)
  BY <1>1, <1>2, PrependPlaces
<1>4. Nth(order, 1) \in ListNode \union {NULL} /\ Nth(order, 1 - 1) = NULL
      /\ (len = 0 <=> Nth(order, 1) = NULL)
  <2>1. 1 \in Int /\ 1 - 1 \in Int /\ 1 - 1 \notin 1 .. Len(order) /\ (len # 0 => 1 \in 1 .. Len(order))
        /\ (len = 0 => 1 \notin 1 .. Len(order))
    BY <1>1
  <2> QED BY <2>1, CallingFacts
<1>5. Nth(order, 1) # n
  <2>1. Nth(order, 1) = n => In(order, n)
    BY ListNodeAssumption DEF Nth, In
  <2> QED BY <1>2, <2>1, CallingFacts DEF Fresh
<1>6. Spliced(prev, prev', n, NULL, Nth(order, 1))
  <2>1. prev' = SetUnlessNull([prev EXCEPT ![n] = NULL], Nth(order, 1), n)
    BY <1>1, <1>4 DEF linklist_add_head, SetUnlessNull
  <2> QED BY <1>1, <1>4, <1>5, <2>1, SetSplices
<1>7. Spliced(next, next', n, Nth(order, 1), NULL)
  <2>1. next' = SetUnlessNull([next EXCEPT ![n] = Nth(order, 1)], NULL, n)
    BY <1>1, <1>4 DEF linklist_add_head, SetUnlessNull
  <2>2. NULL # n
    BY ListNodeAssumption
  <2> QED BY <1>1, <1>4, <2>1, <2>2, SetSplices
<1>8. tail' = IF 1 = Len(order) + 1 THEN n ELSE tail
  BY <1>1 DEF linklist_add_head
<1> QED BY <1>2, <1>3, <1>4, <1>6, <1>7, <1>8, CallInserts

\* linklist_add_tail keeps the list linked.
LEMMA AddTailKeeps ==
  ASSUME Calling, NEW n \in ListNode, linklist_add_tail(n)
  PROVE  Calling'
<1> DEFINE i == Len(order) + 1
<1>1. order \in Seq(ListNode) /\ Len(order) \in Nat /\ len = Len(order) /\ prev \in Pointer
      /\ next \in Pointer /\ head = Nth(order, 1) /\ tail = Nth(order, Len(order))
  BY CallingFacts
<1>2. Fresh(n) /\ order' = Append(order, n) /\ len' = len + 1 /\ freeing' = freeing /\ tail' = n
  BY DEF linklist_add_tail, freeVars
<1>3. Inserted(order, order', i, n)
  BY <1>1, <1>2, AppendPlaces
<1>4. Nth(order, i - 1) \in ListNode \union {NULL} /\ Nth(order, i) = NULL
      /\ Nth(order, i - 1) = tail /\ (len = 0 <=> tail = NULL)
  <2>1. i \in Int /\ i - 1 \in Int /\ i \notin 1 .. Len(order) /\ i - 1 = Len(order)
        /\ (len # 0 => Len(order) \in 1 .. Len(order))
        /\ (len = 0 => Len(order) \notin 1 .. Len(order))
    BY <1>1
  <2> QED BY <1>1, <2>1, CallingFacts
<1>5. tail # n
  <2>1. tail = n => In(order, n)
    BY <1>1, ListNodeAssumption DEF Nth, In
  <2> QED BY <1>2, <2>1, CallingFacts DEF Fresh
<1>6. Spliced(next, next', n, NULL, tail)
  <2>1. next' = SetUnlessNull([next EXCEPT ![n] = NULL], tail, n)
    BY <1>4 DEF linklist_add_tail, SetUnlessNull
  <2> QED BY <1>1, <1>4, <1>5, <2>1, SetSplices
<1>7. Spliced(prev, prev', n, tail, NULL)
  <2>1. prev' = SetUnlessNull([prev EXCEPT ![n] = tail], NULL, n)
    BY <1>4 DEF linklist_add_tail, SetUnlessNull
  <2>2. NULL # n
    BY ListNodeAssumption
  <2> QED BY <1>1, <1>4, <2>1, <2>2, SetSplices
<1>8. head' = IF i = 1 THEN n ELSE head
  BY <1>1 DEF linklist_add_tail
<1> QED BY <1>2, <1>3, <1>4, <1>6, <1>7, <1>8, CallInserts

\* linklist_insert_node keeps the list linked, at both ends and inside.
LEMMA InsertNodeKeeps ==
  ASSUME Calling, NEW n \in ListNode, NEW node \in ListNode, NEW after \in BOOLEAN,
         linklist_insert_node(n, node, after)
  PROVE  Calling'
<1> DEFINE k == Place(order, node)
           i == IF after THEN k + 1 ELSE k
           p == IF after THEN node ELSE prev[node]
           q == IF after THEN next[node] ELSE node
<1>1. order \in Seq(ListNode) /\ Len(order) \in Nat /\ prev \in Pointer /\ next \in Pointer
      /\ head = Nth(order, 1) /\ tail = Nth(order, Len(order))
  BY CallingFacts
<1>2. Fresh(n) /\ node \in Allocated /\ len' = len + 1 /\ freeing' = freeing
  BY DEF linklist_insert_node, freeVars
<1>3. k \in 1 .. Len(order) /\ Nth(order, k) = node
  BY <1>1, <1>2, CallingFacts, PlaceOf
<1> HIDE DEF k
<1>4. i \in 1 .. Len(order) + 1 /\ i \in Int /\ i - 1 \in Int
  BY <1>1, <1>3
<1>5. order' = InsertAt(order, i, n)
  BY DEF linklist_insert_node, Beside, k
<1>6. p = Nth(order, i - 1) /\ q = Nth(order, i)
  <2>1. next[node] = Nth(order, k + 1) /\ prev[node] = Nth(order, k - 1) /\ (k + 1) - 1 = k
    BY <1>1, <1>3, CallingFacts
  <2> QED BY <1>3, <2>1
<1>7. /\ tail' = IF after /\ tail = node THEN n ELSE tail
      /\ head' = IF ~after /\ head = node THEN n ELSE head
      /\ prev' = SetUnlessNull([prev EXCEPT ![n] = p], q, n)
      /\ next' = SetUnlessNull([next EXCEPT ![n] = q], p, n)
  BY DEF linklist_insert_node, InsertLinks
<1>8. tail' = IF i = Len(order) + 1 THEN n ELSE tail
  <2>1. tail = node <=> k = Len(order)
    <3>1. Len(order) \in 1 .. Len(order)
      BY <1>1, <1>3
    <3> QED BY <1>1, <1>3, <3>1, CallingFacts
  <2>2. i = Len(order) + 1 <=> after /\ k = Len(order)
    BY <1>1, <1>3
  <2> QED BY <1>7, <2>1, <2>2
<1>9. head' = IF i = 1 THEN n ELSE head
  <2>1. head = node <=> k = 1
    <3>1. 1 \in 1 .. Len(order)
      BY <1>1, <1>3
    <3> QED BY <1>1, <1>3, <3>1, CallingFacts
  <2>2. i = 1 <=> ~after /\ k = 1
    BY <1>1, <1>3
  <2> QED BY <1>7, <2>1, <2>2
<1>10. Inserted(order, order', i, n)
  BY <1>1, <1>4, <1>5, InsertPlaces
<1> HIDE DEF i, p, q
<1>11. p \in ListNode \union {NULL} /\ q \in ListNode \union {NULL}
  BY <1>4, <1>6, CallingFacts
<1>12. p # n /\ q # n
  <2>1. ~In(order, n)
    BY <1>2, CallingFacts DEF Fresh
  <2>2. \A j : Nth(order, j) # n
    BY <2>1, ListNodeAssumption DEF Nth, In
  <2> QED BY <1>6, <2>2
<1>13. Spliced(prev, prev', n, p, q)
  BY <1>1, <1>7, <1>11, <1>12, SetSplices
<1>14. Spliced(next, next', n, q, p)
  BY <1>1, <1>7, <1>11, <1>12, SetSplices
<1> QED BY <1>2, <1>6, <1>8, <1>9, <1>10, <1>13, <1>14, CallInserts

\* linklist_delete_node keeps the list linked, whichever end the node is at.
LEMMA DeleteNodeKeeps ==
  ASSUME Calling, NEW n \in ListNode, linklist_delete_node(n)
  PROVE  Calling'
<1> DEFINE i == Place(order, n)
<1>1. order \in Seq(ListNode) /\ Len(order) \in Nat /\ prev \in Pointer /\ next \in Pointer
      /\ head = Nth(order, 1) /\ tail = Nth(order, Len(order))
  BY CallingFacts
<1>2. n \in Allocated /\ len' = len - 1 /\ freeing' = freeing /\ order' = RemoveAt(order, i)
  BY DEF linklist_delete_node, freeVars, Without
<1>3. i \in 1 .. Len(order) /\ Nth(order, i) = n
  BY <1>1, <1>2, CallingFacts, PlaceOf
<1> HIDE DEF i
<1>4. i \in Int /\ i + 1 \in Int /\ i - 1 \in Int /\ i - 1 # i /\ i + 1 # i
  BY <1>1, <1>3
<1>5. next[n] = Nth(order, i + 1) /\ prev[n] = Nth(order, i - 1)
  BY <1>3, CallingFacts
<1>6. next[n] \in ListNode \union {NULL} /\ prev[n] \in ListNode \union {NULL}
  BY <1>4, <1>5, CallingFacts
<1>7. next[n] # n /\ prev[n] # n
  <2>1. ASSUME NEW j \in Int, j # i PROVE Nth(order, j) # n
    <3>1. CASE j \in 1 .. Len(order)
      BY <1>3, <2>1, <3>1, CallingFacts
    <3>2. CASE j \notin 1 .. Len(order)
      BY <3>2, CallingFacts, ListNodeAssumption
    <3> QED BY <3>1, <3>2
  <2> QED BY <1>4, <1>5, <2>1
<1>8. Bypassed(prev, prev', n, prev[n], next[n])
  <2>1. prev' = [SetUnlessNull(prev, next[n], prev[n]) EXCEPT ![n] = WILD]
    BY DEF linklist_delete_node, PrevWithout
  <2> QED BY <1>1, <1>6, <1>7, <2>1, SetBypasses
<1>9. Bypassed(next, next', n, next[n], prev[n])
  <2>1. next' = [SetUnlessNull(next, prev[n], next[n]) EXCEPT ![n] = WILD]
    BY DEF linklist_delete_node, NextWithout
  <2> QED BY <1>1, <1>6, <1>7, <2>1, SetBypasses
<1>10. head' = IF i = 1 THEN Nth(order, 2) ELSE head
  <2>1. prev[n] = NULL <=> i = 1
    <3>1. i = 1 => i - 1 \notin 1 .. Len(order)
      BY <1>1
    <3>2. i # 1 => i - 1 \in 1 .. Len(order)
      BY <1>1, <1>3
    <3> QED BY <1>4, <1>5, <3>1, <3>2, CallingFacts
  <2>2. i = 1 => i + 1 = 2
    OBVIOUS
  <2> QED BY <1>5, <2>1, <2>2 DEF linklist_delete_node, HeadWithout
<1>11. tail' = IF i = Len(order) THEN Nth(order, Len(order) - 1) ELSE tail
  <2>1. next[n] = NULL <=> i = Len(order)
    <3>1. i = Len(order) => i + 1 \notin 1 .. Len(order)
      BY <1>1
    <3>2. i # Len(order) => i + 1 \in 1 .. Len(order)
      BY <1>1, <1>3
    <3> QED BY <1>4, <1>5, <3>1, <3>2, CallingFacts
  <2> QED BY <1>5, <2>1 DEF linklist_delete_node, TailWithout
<1>12. Removed(order, order', i)
  BY <1>1, <1>2, <1>3, RemovePlaces
<1> QED BY <1>2, <1>3, <1>5, <1>8, <1>9, <1>10, <1>11, <1>12, CallRemoves

\* linklist_free: the list it has not freed yet starts at current.
LEMMA FreeKeeps ==
  ASSUME Calling, linklist_free
  PROVE  Emptying'
<1>1. UNCHANGED <<order, prev, next>> /\ freeing' = TRUE /\ current' = head /\ left' = len
  BY DEF linklist_free, pointerVars
<1>2. /\ prev \in Pointer /\ next \in Pointer /\ head = Nth(order, 1) /\ len = Len(order)
      /\ \A j \in 1 .. Len(order) : next[Nth(order, j)] = Nth(order, j + 1)
  BY CallingFacts
<1>3. Nodes(order, prev)
  BY DEF Calling
<1> QED BY <1>1, <1>2, <1>3 DEF Emptying

\* When linklist_free returns, the list is an empty one.
LEMMA FreeReturnsKeeps ==
  ASSUME Emptying, ListFreeReturns
  PROVE  Calling'
<1>1. /\ UNCHANGED <<order, prev, next>> /\ freeing' = FALSE /\ left = 0
      /\ head' = NULL /\ tail' = NULL /\ len' = 0
  BY DEF ListFreeReturns
<1>2. order \in Seq(ListNode) /\ Len(order) = 0
  BY <1>1 DEF Emptying, Nodes
<1>3. Linked(order, NULL, NULL, prev, next)
  BY <1>2 DEF Linked, Nth
<1> QED BY <1>1, <1>2, <1>3 DEF Emptying, Calling

\* An iteration of linklist_free leaves the rest of the list linked.
LEMMA FreeNodeKeeps ==
  ASSUME Emptying, ListFreeNode
  PROVE  Emptying'
<1>1. /\ order' = Tail(order) /\ current' = next[current] /\ left > 0 /\ left' = left - 1
      /\ prev' = [prev EXCEPT ![current] = WILD] /\ next' = [next EXCEPT ![current] = WILD]
      /\ freeing' = freeing
  BY DEF ListFreeNode
<1>2. /\ order \in Seq(ListNode) /\ Distinct(order) /\ prev \in Pointer /\ next \in Pointer
      /\ left = Len(order) /\ current = Nth(order, 1) /\ freeing = TRUE
      /\ \A j \in 1 .. Len(order) : next[Nth(order, j)] = Nth(order, j + 1)
      /\ \A m \in ListNode : prev[m] # WILD <=> In(order, m)
  BY DEF Emptying, Nodes
<1>3. /\ Len(order) \in Nat /\ order # <<>> /\ 1 \in 1 .. Len(order)
      /\ order' \in Seq(ListNode) /\ Len(order') = Len(order) - 1
      /\ \A j \in 1 .. Len(order) - 1 : order'[j] = order[j + 1]
  <2>1. Len(order) \in Nat /\ order # <<>> /\ 1 \in 1 .. Len(order)
    BY <1>1, <1>2
  <2>2. order \in Seq(ListNode)
    BY <1>2
  <2>3. Tail(order) \in Seq(ListNode) /\ Len(Tail(order)) = Len(order) - 1
        /\ \A j \in 1 .. Len(order) - 1 : Tail(order)[j] = order[j + 1]
    BY <2>1, <2>2
  <2> QED BY <1>1, <2>1, <2>3
<1>4. \A j \in 1 .. Len(order) : /\ Nth(order, j) \in ListNode /\ Nth(order, j) = order[j]
                                 /\ Nth(order, j) # WILD /\ Nth(order, j) # NULL
  BY <1>2, NthFacts DEF Nth
<1>5. \A j \in 1 .. Len(order') : Nth(order', j) = Nth(order, j + 1) /\ j + 1 \in 1 .. Len(order)
  BY <1>3 DEF Nth
<1>6. \A i, j \in 1 .. Len(order) : Nth(order, i) = Nth(order, j) => i = j
  BY <1>2, NthFacts
<1>7. current \in ListNode
  BY <1>2, <1>3, <1>4
<1>8. Distinct(order')
  <2> SUFFICES ASSUME NEW j \in 1 .. Len(order'), NEW k \in 1 .. Len(order'),
                      Nth(order', j) = Nth(order', k)
               PROVE  j = k
    BY DEF Distinct, Nth
  <2>1. j + 1 = k + 1
    BY <1>5, <1>6
  <2> QED BY <1>3, <2>1
<1>9. ASSUME NEW m \in ListNode PROVE In(order', m) <=> m # current /\ In(order, m)
  <2>1. In(order', m) <=> \E j \in 1 .. Len(order') : Nth(order', j) = m
    BY DEF In, Nth
  <2>2. In(order, m) <=> \E j \in 1 .. Len(order) : Nth(order, j) = m
    BY DEF In, Nth
  <2>3. ASSUME NEW j \in 1 .. Len(order'), Nth(order', j) = m PROVE m # current /\ In(order, m)
    <3>1. j + 1 \in 1 .. Len(order) /\ Nth(order, j + 1) = m /\ j + 1 # 1
      BY <1>3, <1>5, <2>3
    <3> QED BY <1>2, <1>3, <1>6, <2>2, <3>1
  <2>4. ASSUME NEW j \in 1 .. Len(order), Nth(order, j) = m, m # current
        PROVE  \E k \in 1 .. Len(order') : Nth(order', k) = m
    <3>1. j # 1
      BY <1>2, <2>4
    <3>2. j - 1 \in 1 .. Len(order') /\ (j - 1) + 1 = j
      BY <1>3, <3>1
    <3> QED BY <1>5, <2>4, <3>2
  <2> QED BY <2>1, <2>2, <2>3, <2>4
<1>10. Nodes(order', prev') /\ prev' \in Pointer /\ next' \in Pointer
  <2>1. prev' \in Pointer /\ next' \in Pointer
    BY <1>1, <1>2 DEF Pointer
  <2>2. \A m \in ListNode : prev'[m] # WILD <=> m # current /\ prev[m] # WILD
    BY <1>1, <1>2, <1>7 DEF Pointer
  <2> QED BY <1>2, <1>3, <1>8, <1>9, <2>1, <2>2 DEF Nodes
<1>11. ASSUME NEW j \in 1 .. Len(order') PROVE next'[Nth(order', j)] = Nth(order', j + 1)
  <2>1. j + 1 \in 1 .. Len(order) /\ Nth(order', j) = Nth(order, j + 1) /\ j + 1 # 1
        /\ j \in Int /\ j + 1 \in Int
    BY <1>3, <1>5
  <2>2. Nth(order, j + 1) # current /\ Nth(order, j + 1) \in ListNode
    BY <1>2, <1>3, <1>4, <1>6, <2>1
  <2>3. next'[Nth(order, j + 1)] = Nth(order, (j + 1) + 1)
    <3>1. next[Nth(order, j + 1)] = Nth(order, (j + 1) + 1)
      BY <1>2, <2>1
    <3> QED BY <1>1, <1>2, <2>2, <3>1 DEF Pointer
  <2>4. Nth(order', j + 1) = Nth(order, (j + 1) + 1)
    <3>1. CASE j + 1 \in 1 .. Len(order')
      BY <1>5, <3>1
    <3>2. CASE j + 1 \notin 1 .. Len(order')
      <4>1. (j + 1) + 1 \notin 1 .. Len(order)
        BY <1>3, <2>1, <3>2
      <4> QED BY <3>2, <4>1 DEF Nth
    <3> QED BY <3>1, <3>2
  <2> QED BY <2>1, <2>3, <2>4
<1>12. left' = Len(order') /\ current' = Nth(order', 1)
  <2>1. current' = Nth(order, 1 + 1)
    BY <1>1, <1>2, <1>3
  <2>2. Nth(order', 1) = Nth(order, 1 + 1)
    <3>1. CASE 1 \in 1 .. Len(order')
      BY <1>5, <3>1
    <3>2. CASE 1 \notin 1 .. Len(order')
      <4>1. 1 + 1 \notin 1 .. Len(order)
        BY <1>3, <3>2
      <4> QED BY <3>2, <4>1 DEF Nth
    <3> QED BY <3>1, <3>2
  <2> QED BY <1>1, <1>2, <1>3, <2>1, <2>2
<1> QED BY <1>1, <1>2, <1>10, <1>11, <1>12 DEF Emptying

\* Every step of a program that moves no node.
LEMMA LinkStep == (Calling \/ Emptying) /\ [ListNext]_linkVars => Calling' \/ Emptying'
<1> SUFFICES ASSUME Calling \/ Emptying, [ListNext]_linkVars
             PROVE  Calling' \/ Emptying'
  OBVIOUS
<1>1. ASSUME NEW n \in ListNode, linklist_add_head(n) PROVE Calling'
  BY <1>1, AddHeadKeeps DEF linklist_add_head, Fresh, Emptying
<1>2. ASSUME NEW n \in ListNode, linklist_add_tail(n) PROVE Calling'
  BY <1>2, AddTailKeeps DEF linklist_add_tail, Fresh, Emptying
<1>3. ASSUME NEW n \in ListNode, linklist_delete_node(n) PROVE Calling'
  BY <1>3, DeleteNodeKeeps DEF linklist_delete_node, Emptying
<1>4. ASSUME NEW n \in ListNode, NEW node \in ListNode, NEW after \in BOOLEAN,
             linklist_insert_node(n, node, after)
      PROVE  Calling'
  BY <1>4, InsertNodeKeeps DEF linklist_insert_node, Fresh, Emptying
<1>5. ASSUME linklist_free PROVE Emptying'
  BY <1>5, FreeKeeps DEF linklist_free, Emptying
<1>6. ASSUME ListFreeNode PROVE Emptying'
  BY <1>6, FreeNodeKeeps DEF ListFreeNode, Calling
<1>7. ASSUME ListFreeReturns PROVE Calling'
  BY <1>7, FreeReturnsKeeps DEF ListFreeReturns, Calling
<1>8. ASSUME UNCHANGED linkVars PROVE Calling' \/ Emptying'
  BY <1>8 DEF Calling, Emptying, linkVars, pointerVars, freeVars, Nodes, Linked
<1> QED BY <1>1, <1>2, <1>3, <1>4, <1>5, <1>6, <1>7, <1>8 DEF ListNext

\* In a program that moves no node, the list's invariant holds.
THEOREM ListInvariance == ListSpec => []LinkInv
<1>1. ListInit => Calling
  <2> SUFFICES ASSUME ListInit PROVE Calling
    OBVIOUS
  <2>1. order = <<>> /\ order \in Seq(ListNode) /\ Len(order) = 0
    BY DEF ListInit
  <2>2. Nodes(order, prev)
    BY <2>1 DEF ListInit, Nodes, Distinct, In
  <2>3. Linked(order, head, tail, prev, next) /\ len = Len(order)
    BY <2>1 DEF ListInit, linklist_new, Linked, Nth
  <2> QED BY <2>2, <2>3 DEF ListInit, Calling, Pointer
<1>2. (Calling \/ Emptying) => LinkInv
  BY InvariantForms
<1> QED BY <1>1, <1>2, LinkStep, PTL DEF ListSpec

\* Adding at either end, inserting before or after a node, deleting and freeing
\* leave every pointer and the length as linklist.h describes them, however
\* many nodes there are; linklist_free frees every node once.
THEOREM ListStaysLinked == ListSpec => []ListLinked
<1>1. LinkInv => ListLinked
  BY DEF LinkInv
<1> QED BY <1>1, ListInvariance, PTL

-----------------------------------------------------------------------------
(* bitset.c.                                                               *)

\* The byte of a bit, its place there, and back.
LEMMA Divide ==
  \A n \in Nat : n \div 8 \in Nat /\ n % 8 \in Byte /\ n = 8 * (n \div 8) + (n % 8)
  BY DEF Byte

\* Bit j of byte i is bit 8 * i + j of the bitset, and no other.
LEMMA Compose ==
  \A i \in Nat, j \in Byte :
    8 * i + j \in Nat /\ (8 * i + j) \div 8 = i /\ (8 * i + j) % 8 = j
  BY DEF Byte

\* The bytes of a bitset of m bits.
LEMMA ByteOfBit ==
  ASSUME NEW m \in Nat
  PROVE  /\ (m + 7) \div 8 \in Nat
         /\ m <= 8 * ((m + 7) \div 8) /\ 8 * ((m + 7) \div 8) < m + 8
         /\ \A n \in 0 .. m : n \div 8 \in 0 .. (m + 7) \div 8
         /\ \A n \in Nat : n < 8 * ((m + 7) \div 8) <=> n \div 8 < (m + 7) \div 8
<1> DEFINE b == (m + 7) \div 8
<1>1. b \in Nat /\ m <= 8 * b /\ 8 * b < m + 8
  OBVIOUS
<1> HIDE DEF b
<1>2. ASSUME NEW n \in Nat PROVE n < 8 * b <=> n \div 8 < b
  <2>1. PICK q \in Nat, r \in Byte : q = n \div 8 /\ n = 8 * q + r
    BY Divide
  <2>2. 8 * q + r < 8 * b <=> q < b
    BY <1>1 DEF Byte
  <2> QED BY <2>1, <2>2
<1>3. ASSUME NEW n \in 0 .. m PROVE n \div 8 \in 0 .. b
  <2>1. PICK q \in Nat, r \in Byte : q = n \div 8 /\ n = 8 * q + r
    BY Divide
  <2>2. 8 * q + r <= m => q <= b
    BY <1>1 DEF Byte
  <2> QED BY <1>1, <2>1, <2>2
<1> QED BY <1>1, <1>2, <1>3 DEF b

\* What setting and clearing bits does to each of them.
LEMMA WithBits ==
  ASSUME NEW m \in Nat, NEW b \in [0 .. m -> SUBSET Byte], NEW N \in SUBSET Nat
  PROVE  /\ WithOnes(b, N) \in [0 .. m -> SUBSET Byte]
         /\ WithZeros(b, N) \in [0 .. m -> SUBSET Byte]
         /\ \A n \in Nat : n \div 8 \in 0 .. m =>
              /\ HasBit(WithOnes(b, N), n) <=> HasBit(b, n) \/ n \in N
              /\ HasBit(WithZeros(b, N), n) <=> HasBit(b, n) /\ n \notin N
         /\ \A i \in 0 .. m : (\A n \in N : n \div 8 # i) =>
              WithOnes(b, N)[i] = b[i] /\ WithZeros(b, N)[i] = b[i]
<1> DEFINE In8(i) == {n % 8 : n \in {k \in N : k \div 8 = i}}
<1>1. DOMAIN b = 0 .. m /\ \A i \in 0 .. m : b[i] \in SUBSET Byte
  OBVIOUS
<1>2. \A i : In8(i) \in SUBSET Byte
  BY Divide
<1>3. \A n \in Nat : n % 8 \in In8(n \div 8) <=> n \in N
  <2> SUFFICES ASSUME NEW n \in Nat, NEW k \in N, k \div 8 = n \div 8, n % 8 = k % 8 PROVE n \in N
    OBVIOUS
  <2>1. k = n
    <3>1. k \in Nat
      OBVIOUS
    <3>2. k = 8 * (k \div 8) + (k % 8) /\ n = 8 * (n \div 8) + (n % 8)
      BY <3>1, Divide
    <3> QED BY <3>2
  <2> QED BY <2>1
<1>4. \A i : (\A n \in N : n \div 8 # i) => In8(i) = {}
  OBVIOUS
<1>5. /\ WithOnes(b, N) = [i \in 0 .. m |-> b[i] \union In8(i)]
      /\ WithZeros(b, N) = [i \in 0 .. m |-> b[i] \ In8(i)]
  BY <1>1 DEF WithOnes, WithZeros
<1> HIDE DEF In8
<1>6. WithOnes(b, N) \in [0 .. m -> SUBSET Byte] /\ WithZeros(b, N) \in [0 .. m -> SUBSET Byte]
  BY <1>1, <1>2, <1>5
<1>7. ASSUME NEW n \in Nat, n \div 8 \in 0 .. m
      PROVE  /\ HasBit(WithOnes(b, N), n) <=> HasBit(b, n) \/ n \in N
             /\ HasBit(WithZeros(b, N), n) <=> HasBit(b, n) /\ n \notin N
  BY <1>3, <1>5, <1>7 DEF HasBit
<1>8. ASSUME NEW i \in 0 .. m, \A n \in N : n \div 8 # i
      PROVE  WithOnes(b, N)[i] = b[i] /\ WithZeros(b, N)[i] = b[i]
  BY <1>4, <1>5, <1>8
<1> QED BY <1>6, <1>7, <1>8

\* The facts about the place of a bit that the proofs below use.
LEMMA BitFacts ==
  ASSUME BitInv
  PROVE  /\ bitLength \in Nat /\ nbytes \in Nat /\ bytes \in [0 .. nbytes -> SUBSET Byte]
         /\ bitLength <= 8 * nbytes /\ 8 * nbytes < bitLength + 8
         /\ ones \in SUBSET Nat
         /\ \A n \in 0 .. bitLength : n \in Nat /\ n \div 8 \in 0 .. nbytes
         /\ \A n \in 0 .. 8 * nbytes - 1 : n \in Nat /\ n \div 8 \in 0 .. nbytes - 1
<1>1. bitLength \in Nat /\ bytes \in [0 .. nbytes -> SUBSET Byte] /\ ones \subseteq 0 .. bitLength - 1
  BY DEF BitInv
<1>2. /\ nbytes \in Nat /\ bitLength <= 8 * nbytes /\ 8 * nbytes < bitLength + 8
      /\ \A n \in 0 .. bitLength : n \div 8 \in 0 .. nbytes
      /\ \A n \in Nat : n < 8 * nbytes <=> n \div 8 < nbytes
  BY <1>1, ByteOfBit DEF nbytes
<1>3. ASSUME NEW n \in 0 .. 8 * nbytes - 1 PROVE n \in Nat /\ n \div 8 \in 0 .. nbytes - 1
  <2>1. n \in Nat /\ n < 8 * nbytes
    BY <1>2
  <2>2. n \div 8 \in Nat /\ n \div 8 < nbytes
    BY <1>2, <2>1, Divide
  <2> QED BY <1>2, <2>1, <2>2
<1> QED BY <1>1, <1>2, <1>3

\* A bitset made by bitset_new satisfies the invariant.
LEMMA BitSetNewKeeps ==
  ASSUME NEW n, bitset_new(n), bitLength \in Nat
  PROVE  BitInv
<1>1. PICK c \in HeapByte : bytes = [i \in 0 .. nbytes |-> IF i < nbytes THEN {} ELSE c]
  BY DEF bitset_new
<1>2. c \in SUBSET Byte
  BY HeapByteAssumption DEF Byte
<1>3. ones = {}
  BY DEF bitset_new
<1>4. nbytes \in Nat /\ \A k \in Nat : k < 8 * nbytes <=> k \div 8 < nbytes
  BY ByteOfBit DEF nbytes
<1>5. ASSUME NEW k \in 0 .. 8 * nbytes - 1 PROVE ~HasBit(bytes, k)
  <2>1. k \in Nat /\ k < 8 * nbytes
    BY <1>4
  <2>2. k \div 8 \in 0 .. nbytes /\ k \div 8 < nbytes
    BY <1>4, <2>1, Divide
  <2> QED BY <1>1, <2>2 DEF HasBit
<1> QED BY <1>1, <1>2, <1>3, <1>4, <1>5 DEF BitInv

\* So does the bitset that a program starts with.
LEMMA BitSetInit == BitInit => BitInv
<1> SUFFICES ASSUME BitInit PROVE BitInv
  OBVIOUS
<1>1. PICK n \in BitLengths : bitset_new(n)
  BY DEF BitInit
<1>2. bitLength \in Nat
  BY <1>1, BitLengthsAssumption DEF bitset_new
<1> QED BY <1>1, BitSetNewKeeps, <1>2

\* Every step of the program on a bitset.
LEMMA BitStep == BitInv /\ [BitNext]_bitVars => BitInv'
<1> SUFFICES ASSUME BitInv, [BitNext]_bitVars PROVE BitInv'
  OBVIOUS
<1>1. /\ bitLength \in Nat /\ nbytes \in Nat /\ bytes \in [0 .. nbytes -> SUBSET Byte]
      /\ bitLength <= 8 * nbytes /\ 8 * nbytes < bitLength + 8
      /\ \A n \in 0 .. bitLength : n \in Nat /\ n \div 8 \in 0 .. nbytes
      /\ \A n \in 0 .. 8 * nbytes - 1 : n \in Nat /\ n \div 8 \in 0 .. nbytes - 1
  BY BitFacts
<1>2. /\ ones \subseteq 0 .. bitLength - 1
      /\ \A n \in 0 .. 8 * nbytes - 1 : n # bitLength => (HasBit(bytes, n) <=> n \in ones)
  BY DEF BitInv
<1>3. ASSUME bitLength' = bitLength, bytes' \in [0 .. nbytes -> SUBSET Byte],
             ones' \subseteq 0 .. bitLength - 1,
             \A n \in 0 .. 8 * nbytes - 1 : n # bitLength => (HasBit(bytes', n) <=> n \in ones')
      PROVE  BitInv'
  <2>1. nbytes' = nbytes
    BY <1>3 DEF nbytes
  <2> QED BY <1>1, <1>3, <2>1 DEF BitInv
<1>4. ASSUME NEW n \in 0 .. bitLength, NEW bit \in {0, 1}, bitset_set(n, bit) PROVE BitInv'
  <2>1. {n} \in SUBSET Nat
    BY <1>1
  <2>2. bytes' = IF bit = 1 THEN WithOnes(bytes, {n}) ELSE WithZeros(bytes, {n})
    BY <1>4 DEF bitset_set
  <2>3. bytes' \in [0 .. nbytes -> SUBSET Byte]
    BY <1>1, <2>1, <2>2, WithBits
  <2>4. bitLength' = bitLength /\ ones' = IF n = bitLength THEN ones
             ELSE IF bit = 1 THEN ones \union {n} ELSE ones \ {n}
    BY <1>4 DEF bitset_set
  <2>5. ones' \subseteq 0 .. bitLength - 1
    BY <1>1, <1>2, <2>4
  <2>6. ASSUME NEW k \in 0 .. 8 * nbytes - 1, k # bitLength PROVE HasBit(bytes', k) <=> k \in ones'
    <3>1. HasBit(bytes, k) <=> k \in ones
      BY <1>2, <2>6
    <3>2. k \in Nat /\ k \div 8 \in 0 .. nbytes
      BY <1>1
    <3>3. HasBit(bytes', k) <=> IF bit = 1 THEN HasBit(bytes, k) \/ k = n ELSE HasBit(bytes, k) /\ k # n
      BY <1>1, <2>1, <2>2, <3>2, WithBits
    <3> QED BY <2>4, <2>6, <3>1, <3>3
  <2> QED BY <1>3, <2>3, <2>4, <2>5, <2>6
<1>5. ASSUME bitset_setall PROVE BitInv'
  <2>1. /\ bitLength' = bitLength /\ ones' = 0 .. bitLength - 1
        /\ bytes' = [i \in 0 .. nbytes |->
             IF i = nbytes THEN bytes[i] ELSE IF i = nbytes - 1 THEN LastByte ELSE Byte]
    BY <1>5 DEF bitset_setall
  <2>2. LastByte = IF nbytes * 8 - bitLength = 0 THEN Byte ELSE 0 .. 7 - (nbytes * 8 - bitLength)
    BY DEF LastByte
  <2>3. LastByte \in SUBSET Byte
    BY <1>1, <2>2 DEF Byte
  <2>4. bytes' \in [0 .. nbytes -> SUBSET Byte]
    BY <1>1, <2>1, <2>3
  <2>5. ASSUME NEW k \in 0 .. 8 * nbytes - 1, k # bitLength PROVE HasBit(bytes', k) <=> k \in ones'
    <3>1. PICK q \in Nat, r \in Byte : q = k \div 8 /\ r = k % 8 /\ k = 8 * q + r
      BY <1>1, Divide
    <3>2. q \in 0 .. nbytes - 1 /\ k \in Nat
      BY <1>1, <3>1
    <3>3. bytes'[q] = IF q = nbytes - 1 THEN LastByte ELSE Byte
      BY <1>1, <2>1, <3>2
    <3>4. r \in bytes'[q] <=> k < bitLength
      <4>1. CASE q = nbytes - 1
        BY <1>1, <2>2, <3>1, <3>3, <4>1 DEF Byte
      <4>2. CASE q # nbytes - 1
        <5>1. q \in Int /\ r \in 0 .. 7 /\ k = 8 * q + r /\ q < nbytes - 1
              /\ nbytes \in Int /\ bitLength \in Int /\ 8 * nbytes < bitLength + 8
          BY <1>1, <3>1, <3>2, <4>2 DEF Byte
        <5>2. k < bitLength
          BY <5>1
        <5> QED BY <3>1, <3>3, <4>2, <5>2
      <4> QED BY <4>1, <4>2
    <3> QED BY <1>1, <2>1, <3>1, <3>2, <3>4 DEF HasBit
  <2> QED BY <1>3, <2>1, <2>4, <2>5
<1>6. ASSUME bitset_clearall PROVE BitInv'
  <2>1. /\ bitLength' = bitLength /\ ones' = {}
        /\ bytes' = [i \in 0 .. nbytes |-> IF i = nbytes THEN bytes[i] ELSE {}]
    BY <1>6 DEF bitset_clearall
  <2>2. bytes' \in [0 .. nbytes -> SUBSET Byte]
    BY <1>1, <2>1
  <2>3. ASSUME NEW k \in 0 .. 8 * nbytes - 1 PROVE ~HasBit(bytes', k)
    <3>1. k \div 8 \in 0 .. nbytes - 1
      BY <1>1
    <3>2. bytes'[k \div 8] = {}
      BY <1>1, <2>1, <3>1
    <3> QED BY <3>2 DEF HasBit
  <2> QED BY <1>3, <2>1, <2>2, <2>3
<1>7. ASSUME UNCHANGED bitVars PROVE BitInv'
  BY <1>7 DEF BitInv, bitVars, nbytes
<1> QED BY <1>4, <1>5, <1>6, <1>7 DEF BitNext

\* A bitset's bits are the ones, and it has none past its length.
THEOREM BitSetInvariance == BitSpec => []BitInv
  BY BitSetInit, BitStep, PTL DEF BitSpec

\* bitset_get answers 1 exactly for the bits last set to 1.
LEMMA BitInvGet ==
  BitInv => \A n \in 0 .. bitLength - 1 : bitset_get(n) = 1 <=> n \in ones
<1> SUFFICES ASSUME BitInv, NEW n \in 0 .. bitLength - 1
             PROVE  bitset_get(n) = 1 <=> n \in ones
  OBVIOUS
<1>1. bitLength \in Nat /\ nbytes \in Nat /\ bitLength <= 8 * nbytes
  BY BitFacts
<1>2. n \in 0 .. 8 * nbytes - 1 /\ n # bitLength /\ n <= bitLength
  BY <1>1
<1> QED BY <1>2 DEF BitInv, bitset_get

\* Whatever its length, a bitset returns of each bit what the program last
\* made of it.
THEOREM BitsStayOnes == BitSpec => []BitsAreOnes
<1>1. BitInv => BitsAreOnes
  BY BitInvGet DEF BitsAreOnes
<1> QED BY <1>1, BitSetInvariance, PTL

\* The sum over 0 to m, term by term.
LEMMA SumOfInterval ==
  ASSUME NEW U, NEW v \in [U -> Nat], NEW m \in Nat, 0 .. m \subseteq U
  PROVE  /\ SumOver(v, 0 .. 0) = v[0]
         /\ \A i \in 0 .. m - 1 : SumOver(v, 0 .. i + 1) = v[i + 1] + SumOver(v, 0 .. i)
<1>1. ASSUME NEW x \in U, NEW T \in SUBSET U, IsFiniteSet(T), x \in T
      PROVE  SumOver(v, T) = v[x] + SumOver(v, T \ {x})
  BY <1>1, SumSplit
<1>2. SumOver(v, 0 .. 0) = v[0]
  <2>1. 0 .. 0 = {0} /\ 0 \in U /\ {0} \ {0} = {} /\ {0} \in SUBSET U /\ 0 \in {0}
    OBVIOUS
  <2>2. IsFiniteSet({0})
    BY FS_Singleton
  <2>3. SumOver(v, {0}) = v[0] + SumOver(v, {0} \ {0})
    BY <1>1, <2>1, <2>2
  <2>4. SumOver(v, {}) = 0
    BY SumEmpty
  <2>5. v[0] \in Nat
    BY <2>1
  <2>6. v[0] + 0 = v[0]
    BY <2>5
  <2> QED BY <2>1, <2>3, <2>4, <2>6
<1>3. ASSUME NEW i \in 0 .. m - 1
      PROVE  SumOver(v, 0 .. i + 1) = v[i + 1] + SumOver(v, 0 .. i)
  <2>1. 0 .. i + 1 \in SUBSET U /\ i + 1 \in 0 .. i + 1 /\ i + 1 \in U
    OBVIOUS
  <2>2. IsFiniteSet(0 .. i + 1)
    BY FS_Interval
  <2>3. (0 .. i + 1) \ {i + 1} = 0 .. i
    <3>1. \A n : n \in (0 .. i + 1) \ {i + 1} <=> n \in 0 .. i
      OBVIOUS
    <3> QED BY <3>1
  <2>4. SumOver(v, 0 .. i + 1) = v[i + 1] + SumOver(v, (0 .. i + 1) \ {i + 1})
    BY <1>1, <2>1, <2>2
  <2> QED BY <2>3, <2>4
<1> QED BY <1>2, <1>3

\* A byte has finitely many bits.
LEMMA ByteFinite == IsFiniteSet(Byte)
<1>1. 0 \in Int /\ 7 \in Int
  OBVIOUS
<1>2. IsFiniteSet(0 .. 7)
  BY <1>1, FS_Interval
<1> QED BY <1>2 DEF Byte

\* Adding up the bits of the bytes 0 to m counts them.
LEMMA CountOfBits ==
  ASSUME NEW m \in Nat, NEW b \in [0 .. m -> SUBSET Byte],
         NEW v \in [0 .. m -> Nat], \A i \in 0 .. m : v[i] = Cardinality(b[i])
  PROVE  SumOver(v, 0 .. m) = Cardinality({n \in 0 .. 8 * m + 7 : HasBit(b, n)})
<1> DEFINE Bits(i) == {n \in 0 .. 8 * i + 7 : HasBit(b, n)}
           Row(i) == {8 * i + j : j \in b[i]}
           S == {i \in 0 .. m : SumOver(v, 0 .. i) = Cardinality(Bits(i))}
<1>1. \A i \in 0 .. m : b[i] \in SUBSET Byte /\ IsFiniteSet(b[i]) /\ Cardinality(b[i]) \in Nat
  <2>1. IsFiniteSet(Byte)
    BY ByteFinite
  <2> QED BY <2>1, FS_Subset, FS_CardinalityType
<1>2. v \in [0 .. m -> Nat]
  OBVIOUS
<1>3. ASSUME NEW i \in 0 .. m PROVE IsFiniteSet(Row(i)) /\ Cardinality(Row(i)) = v[i]
  <2> DEFINE f == [j \in b[i] |-> 8 * i + j]
  <2>1. \A j \in b[i] : j \in Int
    BY <1>1 DEF Byte
  <2>2. f \in Bijection(b[i], Row(i))
    <3>1. f \in [b[i] -> Row(i)]
      OBVIOUS
    <3>2. \A j, k \in b[i] : f[j] = f[k] => j = k
      BY <2>1
    <3>3. \A t \in Row(i) : \E j \in b[i] : f[j] = t
      OBVIOUS
    <3> QED BY <3>1, <3>2, <3>3, Fun_IsBij
  <2>3. ExistsBijection(b[i], Row(i))
    BY <2>2, Fun_ExistsBij
  <2> QED BY <1>1, <2>3, FS_Bijection
<1>4. ASSUME NEW i \in 0 .. m, NEW n \in 8 * i .. 8 * i + 7 PROVE HasBit(b, n) <=> n \in Row(i)
  <2>1. n - 8 * i \in Byte /\ n = 8 * i + (n - 8 * i) /\ i \in Nat
    BY DEF Byte
  <2>2. n \div 8 = i /\ n % 8 = n - 8 * i
    BY <2>1, Compose
  <2>3. n \in Row(i) <=> n - 8 * i \in b[i]
    <3>1. ASSUME NEW j \in b[i], n = 8 * i + j PROVE n - 8 * i \in b[i]
      <4>1. j \in Int /\ i \in Int
        BY <1>1 DEF Byte
      <4>2. n - 8 * i = j
        BY <3>1, <4>1
      <4> QED BY <4>2
    <3> QED BY <2>1, <3>1
  <2> QED BY <2>2, <2>3 DEF HasBit
<1>5. ASSUME NEW i \in 0 .. m PROVE Row(i) \subseteq 8 * i .. 8 * i + 7
  <2>1. \A j \in b[i] : j \in 0 .. 7
    BY <1>1 DEF Byte
  <2>2. \A j \in 0 .. 7 : 8 * i + j \in 8 * i .. 8 * i + 7
    OBVIOUS
  <2> QED BY <2>1, <2>2
<1>6. 0 \in S
  <2>1. Bits(0) = Row(0)
    <3>1. 0 \in 0 .. m /\ 8 * 0 = 0 /\ 8 * 0 + 7 = 7
      OBVIOUS
    <3>2. \A n \in 0 .. 7 : HasBit(b, n) <=> n \in Row(0)
      BY <1>4, <3>1
    <3>3. Row(0) \subseteq 0 .. 7
      BY <1>5, <3>1
    <3> HIDE DEF Row
    <3> QED BY <3>1, <3>2, <3>3
  <2>2. SumOver(v, 0 .. 0) = v[0]
    BY SumOfInterval
  <2>3. 0 \in 0 .. m
    OBVIOUS
  <2> QED BY <1>3, <2>1, <2>2, <2>3
<1>7. ASSUME NEW i \in 0 .. m - 1, i \in S PROVE i + 1 \in S
  <2>0. i \in 0 .. m /\ i + 1 \in 0 .. m /\ i \in Int
    OBVIOUS
  <2>1. Bits(i + 1) = Bits(i) \union Row(i + 1)
    <3>1. \A n \in 8 * (i + 1) .. 8 * (i + 1) + 7 : HasBit(b, n) <=> n \in Row(i + 1)
      BY <1>4, <2>0
    <3>2. Row(i + 1) \subseteq 8 * (i + 1) .. 8 * (i + 1) + 7
      BY <1>5, <2>0
    <3>3. \A n : n \in 0 .. 8 * (i + 1) + 7 <=>
                   n \in 0 .. 8 * i + 7 \/ n \in 8 * (i + 1) .. 8 * (i + 1) + 7
      BY <2>0
    <3> HIDE DEF Row
    <3> QED BY <3>1, <3>2, <3>3
  <2>2. Bits(i) \cap Row(i + 1) = {}
    <3>1. Row(i + 1) \subseteq 8 * (i + 1) .. 8 * (i + 1) + 7
      BY <1>5, <2>0
    <3>2. \A n : ~(n \in 0 .. 8 * i + 7 /\ n \in 8 * (i + 1) .. 8 * (i + 1) + 7)
      BY <2>0
    <3> HIDE DEF Row
    <3> QED BY <3>1, <3>2
  <2>3. IsFiniteSet(Bits(i)) /\ Cardinality(Bits(i)) \in Nat
    <3>1. IsFiniteSet(0 .. 8 * i + 7)
      BY <2>0, FS_Interval
    <3> QED BY <3>1, FS_Subset, FS_CardinalityType
  <2>4. Cardinality(Bits(i + 1)) = Cardinality(Bits(i)) + v[i + 1]
    <3>1. IsFiniteSet(Row(i + 1)) /\ Cardinality(Row(i + 1)) = v[i + 1] /\ v[i + 1] \in Nat
      BY <1>2, <1>3, <2>0
    <3> HIDE DEF Row, Bits
    <3>2. Cardinality(Bits(i) \union Row(i + 1)) = Cardinality(Bits(i)) + Cardinality(Row(i + 1))
                                                    - Cardinality(Bits(i) \cap Row(i + 1))
      BY <2>3, <3>1, FS_Union
    <3>3. Cardinality(Bits(i) \cap Row(i + 1)) = 0
      BY <2>2, FS_EmptySet
    <3>4. \A c, w \in Nat : c + w - 0 = c + w
      OBVIOUS
    <3> QED BY <2>1, <2>3, <3>1, <3>2, <3>3, <3>4
  <2>5. SumOver(v, 0 .. i + 1) = v[i + 1] + SumOver(v, 0 .. i)
    BY SumOfInterval
  <2>6. SumOver(v, 0 .. i) = Cardinality(Bits(i))
    BY <1>7
  <2>7. v[i + 1] \in Nat
    BY <1>2, <2>0
  <2> HIDE DEF Bits
  <2> QED BY <2>0, <2>3, <2>4, <2>5, <2>6, <2>7
<1>8. m \in S
  <2> HIDE DEF S
  <2>1. 0 \in Nat /\ m \in 0 .. m
    OBVIOUS
  <2>2. \A i \in 0 .. m - 1 : i \in S => i + 1 \in S
    BY <1>7
  <2>3. \A i \in 0 .. m : i \in S
    BY <1>6, <2>1, <2>2, IntervalInduction
  <2> QED BY <2>1, <2>3
<1> QED BY <1>8

\* Whatever its length, bitset_count is right as long as what it should not
\* look at is 0.
THEOREM CountStaysRight == BitSpec => []CountIsOnes
<1>1. BitInv => CountIsOnes
  <2> SUFFICES ASSUME BitInv, bytes[nbytes] = {}, bitset_get(bitLength) = 0
               PROVE  bitset_count = Cardinality(ones)
    BY DEF CountIsOnes
  <2>1. /\ bitLength \in Nat /\ nbytes \in Nat /\ bytes \in [0 .. nbytes -> SUBSET Byte]
        /\ bitLength <= 8 * nbytes
    BY BitFacts
  <2>2. bitset_count = SumOver(BitsIn, 0 .. nbytes)
    BY DEF bitset_count, SumOver
  <2>3. bitset_count = Cardinality({n \in 0 .. 8 * nbytes + 7 : HasBit(bytes, n)})
    <3>1. \A i \in 0 .. nbytes : Cardinality(bytes[i]) \in Nat
      <4>1. IsFiniteSet(Byte)
        BY ByteFinite
      <4> QED BY <2>1, <4>1, FS_Subset, FS_CardinalityType
    <3>2. BitsIn \in [0 .. nbytes -> Nat] /\ \A i \in 0 .. nbytes : BitsIn[i] = Cardinality(bytes[i])
      BY <3>1 DEF BitsIn
    <3> QED BY <2>1, <2>2, <3>2, CountOfBits
  <2>4. ASSUME NEW n \in 0 .. 8 * nbytes + 7 PROVE HasBit(bytes, n) <=> n \in ones
    <3>1. ones \subseteq 0 .. bitLength - 1
      BY DEF BitInv
    <3>2. CASE n = bitLength
      <4>1. ~HasBit(bytes, n)
        BY <2>1, <3>2 DEF bitset_get
      <4>2. bitLength \notin 0 .. bitLength - 1
        BY <2>1
      <4> QED BY <3>1, <3>2, <4>1, <4>2
    <3>3. CASE n # bitLength /\ n \in 0 .. 8 * nbytes - 1
      BY <3>3 DEF BitInv
    <3>4. CASE n >= 8 * nbytes
      <4>1. n - 8 * nbytes \in Byte /\ n = 8 * nbytes + (n - 8 * nbytes)
        BY <2>1, <3>4 DEF Byte
      <4>2. n \div 8 = nbytes
        BY <2>1, <4>1, Compose
      <4>3. ~HasBit(bytes, n)
        BY <4>2 DEF HasBit
      <4>4. n \notin 0 .. bitLength - 1
        BY <2>1, <3>4
      <4> QED BY <3>1, <4>3, <4>4
    <3> QED BY <2>1, <3>2, <3>3, <3>4
  <2>5. ones \subseteq 0 .. 8 * nbytes + 7
    <3>1. ones \subseteq 0 .. bitLength - 1
      BY DEF BitInv
    <3> QED BY <2>1, <3>1
  <2>6. {n \in 0 .. 8 * nbytes + 7 : HasBit(bytes, n)} = ones
    BY <2>4, <2>5
  <2> QED BY <2>3, <2>6
<1> QED BY <1>1, BitSetInvariance, PTL

-----------------------------------------------------------------------------
(* bloomfilter.c.                                                          *)

\* The positions of a key are places of the bitset, however h wraps around.
LEMMA PositionsInBits ==
  ASSUME nbits \in Nat, nbits > 0, NEW k \in Element
  PROVE  Positions(k) \subseteq 0 .. nbits - 1
<1> DEFINE W == Low * High
           h == HashOf[k]
<1>1. W \in Nat /\ W > 0 /\ High \in Nat /\ Low \in Nat /\ Low > 0
  BY HashAssumption
<1>2. h \in Nat
  BY HashAssumption
<1> HIDE DEF W, h
<1>3. delta(h) \in Nat
  <2>1. h * High \in Nat
    BY <1>1, <1>2
  <2>2. h \div Low \in Nat /\ (h * High) % W \in Nat
    BY <1>1, <1>2, <2>1
  <2>3. delta(h) = (h \div Low) + ((h * High) % W)
    BY DEF delta, W
  <2> QED BY <2>2, <2>3
<1>4. ASSUME NEW i \in 0 .. probes - 1
      PROVE  ((h + i * delta(h)) % W) % nbits \in 0 .. nbits - 1
  <2> DEFINE d == delta(h)
  <2>1. i \in Nat /\ d \in Nat
    BY <1>3, ProbesAssumption
  <2> HIDE DEF d
  <2>2. i * d \in Nat
    BY <2>1
  <2>3. h + i * d \in Nat
    BY <1>2, <2>2
  <2> DEFINE y == h + i * d
             z == y % W
  <2>4. z \in Nat
    <3> HIDE DEF y
    <3> QED BY <1>1, <2>3 DEF y
  <2> HIDE DEF z
  <2>5. z % nbits \in 0 .. nbits - 1
    BY <2>4
  <2> QED BY <2>5 DEF z, d
<1> QED BY <1>4 DEF Positions, W, h

\* A filter made by bloomfilter_new satisfies the invariant.
LEMMA BloomStart == BloomInit => BloomInv
<1> SUFFICES ASSUME BloomInit PROVE BloomInv
  OBVIOUS
<1> DEFINE bits == (100 * probes + 68) \div 69
<1>1. /\ capacity \in Nat \ {0} /\ bitset_new(capacity * bits) /\ count = 0 /\ hasSet \in BOOLEAN
      /\ added = {}
  BY CapacitiesAssumption DEF BloomInit, bloomfilter_new
<1>2. bits \in Nat /\ bits > 0
  BY ProbesAssumption
<1> HIDE DEF bits
<1>3. capacity * bits \in Nat /\ capacity * bits > 0
  BY <1>1, <1>2
<1>4. bitLength = capacity * bits
  BY <1>1 DEF bitset_new
<1>5. BitInv
  BY <1>1, <1>3, <1>4, BitSetNewKeeps
<1> QED BY <1>1, <1>3, <1>4, <1>5 DEF BloomInv, nbits

\* bloomfilter_add, the only call that changes a filter, keeps the invariant.
LEMMA BloomStep == BloomInv /\ [BloomNext]_bloomVars => BloomInv'
<1> SUFFICES ASSUME BloomInv, [BloomNext]_bloomVars PROVE BloomInv'
  OBVIOUS
<1>1. ASSUME NEW k \in Element, bloomfilter_add(k) PROVE BloomInv'
  <2> DEFINE N == Positions(k)
  <2>1. /\ BitInv /\ nbits > 0 /\ hasSet \in BOOLEAN
        /\ added \subseteq Element
        /\ hasSet => \A e \in added : Positions(e) \subseteq ones
    BY DEF BloomInv
  <2>2. /\ added' = added \union {k}
        /\ bitLength' = bitLength /\ hasSet' = hasSet
        /\ IF hasSet THEN bytes' = WithOnes(bytes, N) /\ ones' = ones \union N
                     ELSE bytes' = bytes /\ ones' = ones
    BY <1>1 DEF bloomfilter_add, AddPositions
  <2>3. /\ bitLength \in Nat /\ nbytes \in Nat /\ bytes \in [0 .. nbytes -> SUBSET Byte]
        /\ bitLength <= 8 * nbytes
        /\ \A n \in 0 .. 8 * nbytes - 1 : n \in Nat /\ n \div 8 \in 0 .. nbytes - 1
    BY <2>1, BitFacts
  <2>4. N \subseteq 0 .. bitLength - 1
    BY <2>1, <2>3, PositionsInBits DEF nbits
  <2>5. nbytes' = nbytes /\ nbits' = nbits
    BY <2>2 DEF nbytes, nbits
  <2>6. \A e \in Element : Positions(e)' = Positions(e)
    BY <2>5 DEF Positions, delta
  <2> HIDE DEF N
  <2>7. BitInv'
    <3>1. CASE hasSet
      <4>1. N \in SUBSET Nat
        BY <2>4
      <4>2. bytes' \in [0 .. nbytes -> SUBSET Byte]
        BY <2>2, <2>3, <3>1, <4>1, WithBits
      <4>3. ASSUME NEW n \in 0 .. 8 * nbytes - 1, n # bitLength
            PROVE  HasBit(bytes', n) <=> n \in ones'
        <5>1. HasBit(bytes, n) <=> n \in ones
          BY <2>1, <4>3 DEF BitInv
        <5>2. n \in Nat /\ n \div 8 \in 0 .. nbytes
          BY <2>3
        <5>3. HasBit(WithOnes(bytes, N), n) <=> HasBit(bytes, n) \/ n \in N
          BY <2>3, <4>1, <5>2, WithBits
        <5> QED BY <2>2, <3>1, <5>1, <5>3
      <4>4. ones' \subseteq 0 .. bitLength - 1
        BY <2>1, <2>2, <2>4, <3>1 DEF BitInv
      <4> QED BY <2>2, <2>3, <2>5, <4>2, <4>3, <4>4 DEF BitInv
    <3>2. CASE ~hasSet
      BY <2>1, <2>2, <2>5, <3>2 DEF BitInv
    <3> QED BY <3>1, <3>2
  <2>8. added' \subseteq Element
    BY <2>1, <2>2
  <2>9. hasSet' => \A e \in added' : Positions(e)' \subseteq ones'
    <3>1. ASSUME hasSet, NEW e \in added' PROVE Positions(e) \subseteq ones'
      BY <2>1, <2>2, <3>1 DEF N
    <3> QED BY <2>2, <2>6, <2>8, <3>1
  <2> QED BY <2>1, <2>2, <2>5, <2>7, <2>8, <2>9 DEF BloomInv
<1>2. ASSUME UNCHANGED bloomVars PROVE BloomInv'
  BY <1>2 DEF BloomInv, BitInv, bloomVars, bitVars, nbytes, nbits, Positions, delta
<1> QED BY <1>1, <1>2 DEF BloomNext

\* A bloom filter never denies a key that it accepted, whatever the keys, their
\* hashes, its capacity and the number of probes: 32-bit wrap-around gives add
\* and check the same positions, all of them inside the bitset.
THEOREM NoFalseNegatives == BloomSpec => []NoFalseNegative
<1>1. BloomInv => NoFalseNegative
  <2> SUFFICES ASSUME BloomInv PROVE NoFalseNegative
    OBVIOUS
  <2>1. BitInv
    BY DEF BloomInv
  <2>2. ones \subseteq 0 .. nbits - 1
    BY <2>1 DEF BitInv, nbits
  <2>3. ASSUME hasSet, NEW k \in added PROVE bloomfilter_check(k)
    <3>1. Positions(k) \subseteq ones
      BY <2>3 DEF BloomInv
    <3>2. \A n \in Positions(k) : bitset_get(n) = 1
      BY <2>1, <2>2, <3>1, BitInvGet DEF nbits
    <3> QED BY <2>3, <3>2 DEF bloomfilter_check
  <2> QED BY <2>1, <2>2, <2>3 DEF NoFalseNegative
<1> QED BY <1>1, BloomStart, BloomStep, PTL DEF BloomSpec

-----------------------------------------------------------------------------
(* Lifecycle.  What is asked for and what is freed are lists of parts.     *)

\* Everything that is asked for or freed.
Part ==
  {"loop", "heap", "tes", "events", "actives", "poller", "pevents", "epfd",
   "pool", "map", "entrys", "set", "bytes", "filter", "recycled"}

\* The lists that are put together from others, written out.
LEMMA ComposedLists ==
  /\ event_loop_create =
       <<"loop", "heap", "tes", "events", "actives", "poller", "pevents", "epfd">>
  /\ LoopError = <<"tes", "recycled", "heap", "events", "actives", "loop">>
  /\ event_loop_delete =
       <<"epfd", "pevents", "poller", "tes", "recycled", "heap", "events", "actives", "loop">>
  /\ <<"poller">> \o LoopError =
       <<"poller", "tes", "recycled", "heap", "events", "actives", "loop">>
  /\ <<"pevents", "poller">> \o LoopError =
       <<"pevents", "poller", "tes", "recycled", "heap", "events", "actives", "loop">>
  /\ BloomFilterNew = <<"filter", "set", "bytes">>
  /\ bloomfilter_free = <<"bytes", "set", "filter">>
<1>1. <<"loop">> \o <<"heap", "tes">> =
        <<"loop", "heap", "tes">>
  <2>1. <<"loop">> \o <<"heap", "tes">> \in Seq(Part)
    BY DEF Part
  <2>2. <<"loop", "heap", "tes">> \in Seq(Part)
    BY DEF Part
  <2>3. Len(<<"loop">> \o <<"heap", "tes">>) = 3
    OBVIOUS
  <2>4. \A i \in 1 .. 3 :
          (<<"loop">> \o <<"heap", "tes">>)[i] =
            <<"loop", "heap", "tes">>[i]
    OBVIOUS
  <2> QED BY ONLY <2>1, <2>2, <2>3, <2>4, SeqEqual
<1>2. <<"loop", "heap", "tes">> \o <<"events", "actives">> =
        <<"loop", "heap", "tes", "events", "actives">>
  <2>1. <<"loop", "heap", "tes">> \o <<"events", "actives">> \in Seq(Part)
    BY DEF Part
  <2>2. <<"loop", "heap", "tes", "events", "actives">> \in Seq(Part)
    BY DEF Part
  <2>3. Len(<<"loop", "heap", "tes">> \o <<"events", "actives">>) = 5
    OBVIOUS
  <2>4. \A i \in 1 .. 5 :
          (<<"loop", "heap", "tes">> \o <<"events", "actives">>)[i] =
            <<"loop", "heap", "tes", "events", "actives">>[i]
    OBVIOUS
  <2> QED BY ONLY <2>1, <2>2, <2>3, <2>4, SeqEqual
<1>3. <<"loop", "heap", "tes", "events", "actives">> \o <<"poller", "pevents", "epfd">> =
        <<"loop", "heap", "tes", "events", "actives", "poller", "pevents", "epfd">>
  <2>1. <<"loop", "heap", "tes", "events", "actives">> \o <<"poller", "pevents", "epfd">> \in Seq(Part)
    BY DEF Part
  <2>2. <<"loop", "heap", "tes", "events", "actives", "poller", "pevents", "epfd">> \in Seq(Part)
    BY DEF Part
  <2>3. Len(<<"loop", "heap", "tes", "events", "actives">> \o <<"poller", "pevents", "epfd">>) = 8
    OBVIOUS
  <2>4. \A i \in 1 .. 8 :
          (<<"loop", "heap", "tes", "events", "actives">> \o <<"poller", "pevents", "epfd">>)[i] =
            <<"loop", "heap", "tes", "events", "actives", "poller", "pevents", "epfd">>[i]
    OBVIOUS
  <2> QED BY ONLY <2>1, <2>2, <2>3, <2>4, SeqEqual
<1>4. <<"tes", "recycled", "heap">> \o <<"events", "actives", "loop">> =
        <<"tes", "recycled", "heap", "events", "actives", "loop">>
  <2>1. <<"tes", "recycled", "heap">> \o <<"events", "actives", "loop">> \in Seq(Part)
    BY DEF Part
  <2>2. <<"tes", "recycled", "heap", "events", "actives", "loop">> \in Seq(Part)
    BY DEF Part
  <2>3. Len(<<"tes", "recycled", "heap">> \o <<"events", "actives", "loop">>) = 6
    OBVIOUS
  <2>4. \A i \in 1 .. 6 :
          (<<"tes", "recycled", "heap">> \o <<"events", "actives", "loop">>)[i] =
            <<"tes", "recycled", "heap", "events", "actives", "loop">>[i]
    OBVIOUS
  <2> QED BY ONLY <2>1, <2>2, <2>3, <2>4, SeqEqual
<1>5. <<"epfd", "pevents", "poller">> \o <<"tes", "recycled", "heap", "events", "actives", "loop">> =
        <<"epfd", "pevents", "poller", "tes", "recycled", "heap", "events", "actives", "loop">>
  <2>1. <<"epfd", "pevents", "poller">> \o <<"tes", "recycled", "heap", "events", "actives", "loop">> \in Seq(Part)
    BY DEF Part
  <2>2. <<"epfd", "pevents", "poller", "tes", "recycled", "heap", "events", "actives", "loop">> \in Seq(Part)
    BY DEF Part
  <2>3. Len(<<"epfd", "pevents", "poller">> \o <<"tes", "recycled", "heap", "events", "actives", "loop">>) = 9
    OBVIOUS
  <2>4. \A i \in 1 .. 9 :
          (<<"epfd", "pevents", "poller">> \o <<"tes", "recycled", "heap", "events", "actives", "loop">>)[i] =
            <<"epfd", "pevents", "poller", "tes", "recycled", "heap", "events", "actives", "loop">>[i]
    OBVIOUS
  <2> QED BY ONLY <2>1, <2>2, <2>3, <2>4, SeqEqual
<1>6. <<"poller">> \o <<"tes", "recycled", "heap", "events", "actives", "loop">> =
        <<"poller", "tes", "recycled", "heap", "events", "actives", "loop">>
  <2>1. <<"poller">> \o <<"tes", "recycled", "heap", "events", "actives", "loop">> \in Seq(Part)
    BY DEF Part
  <2>2. <<"poller", "tes", "recycled", "heap", "events", "actives", "loop">> \in Seq(Part)
    BY DEF Part
  <2>3. Len(<<"poller">> \o <<"tes", "recycled", "heap", "events", "actives", "loop">>) = 7
    OBVIOUS
  <2>4. \A i \in 1 .. 7 :
          (<<"poller">> \o <<"tes", "recycled", "heap", "events", "actives", "loop">>)[i] =
            <<"poller", "tes", "recycled", "heap", "events", "actives", "loop">>[i]
    OBVIOUS
  <2> QED BY ONLY <2>1, <2>2, <2>3, <2>4, SeqEqual
<1>7. <<"pevents", "poller">> \o <<"tes", "recycled", "heap", "events", "actives", "loop">> =
        <<"pevents", "poller", "tes", "recycled", "heap", "events", "actives", "loop">>
  <2>1. <<"pevents", "poller">> \o <<"tes", "recycled", "heap", "events", "actives", "loop">> \in Seq(Part)
    BY DEF Part
  <2>2. <<"pevents", "poller", "tes", "recycled", "heap", "events", "actives", "loop">> \in Seq(Part)
    BY DEF Part
  <2>3. Len(<<"pevents", "poller">> \o <<"tes", "recycled", "heap", "events", "actives", "loop">>) = 8
    OBVIOUS
  <2>4. \A i \in 1 .. 8 :
          (<<"pevents", "poller">> \o <<"tes", "recycled", "heap", "events", "actives", "loop">>)[i] =
            <<"pevents", "poller", "tes", "recycled", "heap", "events", "actives", "loop">>[i]
    OBVIOUS
  <2> QED BY ONLY <2>1, <2>2, <2>3, <2>4, SeqEqual
<1>8. <<"filter">> \o <<"set", "bytes">> =
        <<"filter", "set", "bytes">>
  <2>1. <<"filter">> \o <<"set", "bytes">> \in Seq(Part)
    BY DEF Part
  <2>2. <<"filter", "set", "bytes">> \in Seq(Part)
    BY DEF Part
  <2>3. Len(<<"filter">> \o <<"set", "bytes">>) = 3
    OBVIOUS
  <2>4. \A i \in 1 .. 3 :
          (<<"filter">> \o <<"set", "bytes">>)[i] =
            <<"filter", "set", "bytes">>[i]
    OBVIOUS
  <2> QED BY ONLY <2>1, <2>2, <2>3, <2>4, SeqEqual
<1>9. <<"bytes", "set">> \o <<"filter">> =
        <<"bytes", "set", "filter">>
  <2>1. <<"bytes", "set">> \o <<"filter">> \in Seq(Part)
    BY DEF Part
  <2>2. <<"bytes", "set", "filter">> \in Seq(Part)
    BY DEF Part
  <2>3. Len(<<"bytes", "set">> \o <<"filter">>) = 3
    OBVIOUS
  <2>4. \A i \in 1 .. 3 :
          (<<"bytes", "set">> \o <<"filter">>)[i] =
            <<"bytes", "set", "filter">>[i]
    OBVIOUS
  <2> QED BY ONLY <2>1, <2>2, <2>3, <2>4, SeqEqual
<1> QED
  BY <1>1, <1>2, <1>3, <1>4, <1>5, <1>6, <1>7, <1>8, <1>9, Zenon
  DEF event_loop_create, LoopError, event_loop_delete, BloomFilterNew, bloomfilter_free,
      timer_heap_create, poller_create, timer_heap_delete, poller_delete, bitset_free, BitSetNew

\* What is freed after a refusal.
LEMMA UndoLists ==
  ASSUME NEW part
  PROVE  Undo(part) \in Seq(Part) /\ Distinct(Undo(part))
<1> DEFINE u == Undo(part)
<1>1. \/ u = <<"tes", "recycled", "heap", "events", "actives", "loop">>
      \/ u = <<"poller", "tes", "recycled", "heap", "events", "actives", "loop">>
      \/ u = <<"pevents", "poller", "tes", "recycled", "heap", "events", "actives", "loop">>
      \/ u = <<"heap", "loop">>
      \/ u = <<"loop">> \/ u = <<"map">> \/ u = <<"set">> \/ u = <<>>
  <2> USE ComposedLists DEF Undo
  <2>1. CASE part \in {"events", "actives", "poller"}
    BY <2>1
  <2>2. CASE part = "pevents"
    BY <2>2
  <2>3. CASE part = "epfd"
    BY <2>3
  <2>4. CASE part \notin {"events", "actives", "poller", "pevents", "epfd"}
    BY <2>4
  <2> QED BY <2>1, <2>2, <2>3, <2>4
<1> HIDE DEF u
<1>2. /\ <<"tes", "recycled", "heap", "events", "actives", "loop">> \in Seq(Part)
      /\ <<"poller", "tes", "recycled", "heap", "events", "actives", "loop">> \in Seq(Part)
      /\ <<"pevents", "poller", "tes", "recycled", "heap", "events", "actives", "loop">>
           \in Seq(Part)
      /\ <<"heap", "loop">> \in Seq(Part)
      /\ <<"loop">> \in Seq(Part) /\ <<"map">> \in Seq(Part) /\ <<"set">> \in Seq(Part)
      /\ <<>> \in Seq(Part)
  BY DEF Part
<1>3. u \in Seq(Part)
  BY ONLY <1>1, <1>2
<1>4. /\ Distinct(<<"tes", "recycled", "heap", "events", "actives", "loop">>)
      /\ Distinct(<<"poller", "tes", "recycled", "heap", "events", "actives", "loop">>)
      /\ Distinct(<<"pevents", "poller", "tes", "recycled", "heap", "events", "actives", "loop">>)
      /\ Distinct(<<"heap", "loop">>)
      /\ Distinct(<<"loop">>) /\ Distinct(<<"map">>) /\ Distinct(<<"set">>) /\ Distinct(<<>>)
  BY DEF Distinct
<1>5. Distinct(u)
  BY ONLY <1>1, <1>4
<1> QED BY <1>3, <1>5 DEF u

\* What is asked for.
LEMMA AsksLists ==
  ASSUME NEW k \in Kind
  PROVE  /\ Asks(k) \in Seq(Part)
         /\ Len(Asks(k)) \in Nat
<1> USE DEF Asks
<1>1. CASE k = "event_loop"
  BY <1>1, ComposedLists DEF Part
<1>2. CASE k = "buffer_pool"
  BY <1>2 DEF buffer_pool_create, Part
<1>3. CASE k = "hashmap"
  BY <1>3 DEF hashmap_new, Part
<1>4. CASE k = "bitset"
  BY <1>4 DEF BitSetNew, Part
<1>5. CASE k = "bloomfilter"
  BY <1>5, ComposedLists DEF Part
<1> QED BY <1>1, <1>2, <1>3, <1>4, <1>5 DEF Kind

\* A destructor frees what the constructor asked for, and each part once.
LEMMA DestroyLists ==
  ASSUME NEW k \in Kind
  PROVE  /\ Destroy(k) \in Seq(Part) /\ Distinct(Destroy(k))
         /\ \A i \in 1 .. Len(Asks(k)) : In(Destroy(k), Asks(k)[i])
         /\ k \in {"event_loop", "buffer_pool"} => In(Destroy(k), "recycled")
<1>1. CASE k = "event_loop"
  <2> DEFINE a == <<"loop", "heap", "tes", "events", "actives", "poller", "pevents", "epfd">>
             d == <<"epfd", "pevents", "poller", "tes", "recycled", "heap", "events", "actives", "loop">>
  <2>1. Asks(k) = a /\ Destroy(k) = d
    BY <1>1, ComposedLists DEF Asks, Destroy
  <2>2. d \in Seq(Part)
    BY DEF Part
  <2>3. Distinct(d)
    BY DEF Distinct
  <2>4. /\ In(d, "loop") /\ In(d, "heap") /\ In(d, "tes") /\ In(d, "events") /\ In(d, "actives")
        /\ In(d, "poller") /\ In(d, "pevents") /\ In(d, "epfd") /\ In(d, "recycled")
    <3>1. /\ d[1] = "epfd" /\ d[2] = "pevents" /\ d[3] = "poller" /\ d[4] = "tes" /\ d[5] = "recycled"
          /\ d[6] = "heap" /\ d[7] = "events" /\ d[8] = "actives" /\ d[9] = "loop"
          /\ Len(d) = 9
      OBVIOUS
    <3> QED BY <3>1 DEF In
  <2>5. \A i \in 1 .. Len(a) : a[i] \in {"loop", "heap", "tes", "events", "actives", "poller", "pevents", "epfd"}
    OBVIOUS
  <2> HIDE DEF a, d
  <2> QED BY <2>1, <2>2, <2>3, <2>4, <2>5
<1>2. CASE k = "buffer_pool"
  BY <1>2 DEF Asks, Destroy, buffer_pool_create, buffer_pool_delete, Part, Distinct, In
<1>3. CASE k = "hashmap"
  BY <1>3 DEF Asks, Destroy, hashmap_new, hashmap_free, Part, Distinct, In
<1>4. CASE k = "bitset"
  BY <1>4 DEF Asks, Destroy, BitSetNew, bitset_free, Part, Distinct, In
<1>5. CASE k = "bloomfilter"
  <2>1. Asks(k) = <<"filter", "set", "bytes">> /\ Destroy(k) = <<"bytes", "set", "filter">>
    BY <1>5, ComposedLists DEF Asks, Destroy
  <2>2. <<"bytes", "set", "filter">> \in Seq(Part)
    BY DEF Part
  <2>3. Distinct(<<"bytes", "set", "filter">>)
    BY DEF Distinct
  <2>4. \A i \in 1 .. Len(<<"filter", "set", "bytes">>) :
          In(<<"bytes", "set", "filter">>, <<"filter", "set", "bytes">>[i])
    BY DEF In
  <2> QED BY <1>5, <2>1, <2>2, <2>3, <2>4
<1> QED BY <1>1, <1>2, <1>3, <1>4, <1>5 DEF Kind

\* After a refusal everything is freed that was granted before.
LEMMA UndoCovers ==
  ASSUME NEW k \in Kind, NEW n \in 0 .. Len(Asks(k)) - 1,
         ~(k = "bloomfilter" /\ Asks(k)[n + 1] \in {"set", "bytes"}),
         NEW i \in 1 .. n
  PROVE  In(Undo(Asks(k)[n + 1]), Asks(k)[i])
<1>1. CASE k = "event_loop"
  <2> DEFINE a == <<"loop", "heap", "tes", "events", "actives", "poller", "pevents", "epfd">>
             e == <<"tes", "recycled", "heap", "events", "actives", "loop">>
             p == <<"poller", "tes", "recycled", "heap", "events", "actives", "loop">>
             q == <<"pevents", "poller", "tes", "recycled", "heap", "events", "actives", "loop">>
  <2>1. Asks(k) = a
    BY <1>1, ComposedLists DEF Asks
  <2>2. /\ a[1] = "loop" /\ a[2] = "heap" /\ a[3] = "tes" /\ a[4] = "events" /\ a[5] = "actives"
        /\ a[6] = "poller" /\ a[7] = "pevents" /\ a[8] = "epfd" /\ Len(a) = 8
    OBVIOUS
  <2>3. /\ In(e, "loop") /\ In(e, "heap") /\ In(e, "tes") /\ In(e, "events") /\ In(e, "actives")
    <3>1. /\ e[1] = "tes" /\ e[3] = "heap" /\ e[4] = "events" /\ e[5] = "actives" /\ e[6] = "loop"
          /\ Len(e) = 6
      OBVIOUS
    <3> QED BY <3>1 DEF In
  <2>4. /\ In(p, "loop") /\ In(p, "heap") /\ In(p, "tes") /\ In(p, "events") /\ In(p, "actives")
        /\ In(p, "poller")
    <3>1. /\ p[1] = "poller" /\ p[2] = "tes" /\ p[4] = "heap" /\ p[5] = "events" /\ p[6] = "actives"
          /\ p[7] = "loop" /\ Len(p) = 7
      OBVIOUS
    <3> QED BY <3>1 DEF In
  <2>5. /\ In(q, "loop") /\ In(q, "heap") /\ In(q, "tes") /\ In(q, "events") /\ In(q, "actives")
        /\ In(q, "poller") /\ In(q, "pevents")
    <3>1. /\ q[1] = "pevents" /\ q[2] = "poller" /\ q[3] = "tes" /\ q[5] = "heap" /\ q[6] = "events"
          /\ q[7] = "actives" /\ q[8] = "loop" /\ Len(q) = 8
      OBVIOUS
    <3> QED BY <3>1 DEF In
  <2>6. /\ Undo("events") = e /\ Undo("actives") = e /\ Undo("poller") = e
        /\ Undo("pevents") = p /\ Undo("epfd") = q
    BY ComposedLists DEF Undo
  <2>7. /\ In(Undo("tes"), "loop") /\ In(Undo("tes"), "heap") /\ In(Undo("heap"), "loop")
    BY DEF Undo, In
  <2> HIDE DEF a, e, p, q
  <2>8. n \in 0 .. 7 /\ i \in 1 .. n
    BY <2>1, <2>2
  <2>9. \/ n = 1 /\ i = 1
        \/ n = 2 /\ i \in {1, 2}
        \/ n = 3 /\ i \in {1, 2, 3}
        \/ n = 4 /\ i \in {1, 2, 3, 4}
        \/ n = 5 /\ i \in {1, 2, 3, 4, 5}
        \/ n = 6 /\ i \in {1, 2, 3, 4, 5, 6}
        \/ n = 7 /\ i \in {1, 2, 3, 4, 5, 6, 7}
    BY ONLY <2>8
  <2> QED BY <2>1, <2>2, <2>3, <2>4, <2>5, <2>6, <2>7, <2>9
<1>2. CASE k = "buffer_pool"
  <2>1. Len(Asks(k)) = 1
    BY <1>2 DEF Asks, buffer_pool_create
  <2> QED BY <2>1
<1>3. CASE k = "hashmap"
  BY <1>3 DEF Asks, hashmap_new, Undo, In
<1>4. CASE k = "bitset"
  BY <1>4 DEF Asks, BitSetNew, Undo, In
<1>5. CASE k = "bloomfilter"
  BY <1>5, ComposedLists DEF Asks
<1> QED BY <1>1, <1>2, <1>3, <1>4, <1>5 DEF Kind

\* Of a list of frees that is done up to some place, the next is new, and what
\* comes after it is what remains.
LEMMA FreesFacts ==
  ASSUME NEW plan \in Seq(Part), Distinct(plan), Frees(plan)
  PROVE  /\ todo \in Seq(Part) /\ ToSet(todo) = {todo[i] : i \in 1 .. Len(todo)}
         /\ todo # <<>> => Head(todo) \notin freed
         /\ freed = {} => todo = plan
         /\ [FreePart]_lifeVars => Frees(plan)'
<1>1. PICK n \in 0 .. Len(plan) :
        todo = SubSeq(plan, n + 1, Len(plan)) /\ freed = {plan[i] : i \in 1 .. n}
  BY DEF Frees
<1>2. Len(plan) \in Nat /\ n \in Nat /\ n <= Len(plan)
  OBVIOUS
<1>3. /\ todo \in Seq(Part) /\ Len(todo) = Len(plan) - n
      /\ \A i \in 1 .. Len(plan) - n : todo[i] = plan[n + i]
  BY <1>1, <1>2
<1>4. ToSet(todo) = {todo[i] : i \in 1 .. Len(todo)}
  BY <1>3 DEF ToSet
<1>5. ASSUME todo # <<>> PROVE Head(todo) \notin freed
  <2>1. Len(todo) # 0
    BY <1>3, <1>5
  <2>2. n + 1 \in 1 .. Len(plan) /\ Head(todo) = plan[n + 1]
    BY <1>2, <1>3, <2>1
  <2>3. \A i \in 1 .. n : i \in 1 .. Len(plan) /\ i # n + 1
    BY ONLY <1>2
  <2> QED BY <1>1, <2>2, <2>3 DEF Distinct
<1>6. ASSUME freed = {} PROVE todo = plan
  <2>1. n = 0
    <3>1. SUFFICES ASSUME n # 0 PROVE FALSE
      OBVIOUS
    <3>2. 1 \in 1 .. n
      BY <1>2, <3>1
    <3> QED BY <1>1, <1>6, <3>2
  <2>2. Len(todo) = Len(plan) /\ \A i \in 1 .. Len(plan) : todo[i] = plan[i]
    BY <1>2, <1>3, <2>1
  <2> QED BY <1>3, <2>2, SeqEqual
<1>7. ASSUME [FreePart]_lifeVars PROVE Frees(plan)'
  <2>1. CASE FreePart
    <3>1. todo # <<>> /\ todo' = Tail(todo) /\ freed' = freed \union {Head(todo)}
      BY <2>1 DEF FreePart
    <3>2. Len(todo) # 0
      BY <1>3, <3>1
    <3>3. n + 1 \in 0 .. Len(plan) /\ n + 1 \in 1 .. Len(plan) /\ Head(todo) = plan[n + 1]
      BY <1>2, <1>3, <3>2
    <3>4. todo' = SubSeq(plan, (n + 1) + 1, Len(plan))
      <4> DEFINE rest == SubSeq(plan, (n + 1) + 1, Len(plan))
      <4>1. /\ rest \in Seq(Part) /\ Len(rest) = Len(plan) - (n + 1)
            /\ \A i \in 1 .. Len(plan) - (n + 1) : rest[i] = plan[(n + 1) + i]
        BY <1>2, <3>3
      <4>2. /\ Tail(todo) \in Seq(Part) /\ Len(Tail(todo)) = Len(todo) - 1
            /\ \A i \in 1 .. Len(todo) - 1 : Tail(todo)[i] = todo[i + 1]
        BY <1>3, <3>1
      <4> HIDE DEF rest
      <4>3. \A i \in 1 .. Len(plan) - (n + 1) :
              i + 1 \in 1 .. Len(plan) - n /\ n + (i + 1) = (n + 1) + i
        BY ONLY <1>2
      <4>4. \A i \in 1 .. Len(plan) - (n + 1) : Tail(todo)[i] = rest[i]
        <5> TAKE i \in 1 .. Len(plan) - (n + 1)
        <5>1. i \in 1 .. Len(todo) - 1
          BY <1>2, <1>3
        <5>2. Tail(todo)[i] = todo[i + 1]
          BY <4>2, <5>1
        <5>3. todo[i + 1] = plan[n + (i + 1)]
          BY <1>3, <4>3
        <5> QED BY <4>1, <4>3, <5>2, <5>3
      <4>5. Len(Tail(todo)) = Len(rest)
        BY <1>2, <1>3, <4>1, <4>2
      <4> QED BY <3>1, <4>1, <4>2, <4>4, <4>5, SeqEqual DEF rest
    <3>5. freed' = {plan[i] : i \in 1 .. n + 1}
      <4>1. 1 .. n + 1 = (1 .. n) \union {n + 1}
        BY ONLY <1>2
      <4> QED BY <1>1, <3>1, <3>3, <4>1
    <3> QED BY <3>3, <3>4, <3>5 DEF Frees
  <2>2. CASE UNCHANGED lifeVars
    BY <2>2 DEF lifeVars, Frees
  <2> QED BY <1>7, <2>1, <2>2
<1> QED BY <1>3, <1>4, <1>5, <1>6, <1>7

\* A free of the first part leaves the others.
LEMMA FreeLeaves ==
  ASSUME todo \in Seq(Part), FreePart
  PROVE  /\ todo' \in Seq(Part)
         /\ ToSet(todo) \subseteq ToSet(todo') \union {Head(todo)}
<1>1. todo # <<>> /\ todo' = Tail(todo)
  BY DEF FreePart
<1>2. Len(todo) \in Nat /\ Len(todo) # 0
  BY <1>1
<1>3. /\ todo' \in Seq(Part) /\ Len(todo') = Len(todo) - 1
      /\ \A i \in 1 .. Len(todo) - 1 : todo'[i] = todo[i + 1]
  BY <1>1
<1>4. ASSUME NEW p \in ToSet(todo), p # Head(todo) PROVE p \in ToSet(todo')
  <2>1. PICK i \in 1 .. Len(todo) : p = todo[i]
    BY DEF ToSet
  <2>2. i # 1
    BY <1>1, <1>4, <2>1
  <2>3. i - 1 \in 1 .. Len(todo) - 1 /\ (i - 1) + 1 = i
    BY <1>2, <2>2
  <2>4. p = todo'[i - 1] /\ i - 1 \in 1 .. Len(todo')
    BY <1>3, <2>1, <2>3
  <2>5. DOMAIN todo' = 1 .. Len(todo')
    BY <1>3
  <2> QED BY <2>4, <2>5 DEF ToSet
<1> QED BY <1>3, <1>4

\* Before the first free, and the one list of bloomfilter_new.
LEMMA FreesAll ==
  ASSUME NEW plan \in Seq(Part)
  PROVE  /\ todo = plan /\ freed = {} => Frees(plan)
         /\ (todo = plan)' /\ (freed = {})' => Frees(plan)'
<1>1. plan = SubSeq(plan, 0 + 1, Len(plan)) /\ 0 \in 0 .. Len(plan) /\ 1 .. 0 = {}
  OBVIOUS
<1> QED BY <1>1 DEF Frees

LEMMA SetAlone == <<"set">> \in Seq(Part) /\ Distinct(<<"set">>)
BY DEF Part, Distinct

LEMMA ListMembers ==
  ASSUME NEW s \in Seq(Part), NEW p
  PROVE  p \in ToSet(s) <=> In(s, p)
BY DEF ToSet, In

LEMMA LifeStart == LifeInit => LifeInv
<1> SUFFICES ASSUME LifeInit PROVE LifeInv
  OBVIOUS
<1>1. Len(Asks(kind)) \in Nat
  BY AsksLists DEF LifeInit
<1> QED BY <1>1 DEF LifeInit, LifeInv, MakingInv

LEMMA GrantedKeeps == LifeInv /\ Granted => LifeInv'
<1> SUFFICES ASSUME LifeInv, Granted PROVE LifeInv'
  OBVIOUS
<1> USE DEF Granted
<1>1. kind \in Kind /\ asked \in 0 .. Len(Asks(kind)) /\ MakingInv
  BY DEF LifeInv
<1>2. Len(Asks(kind)) \in Nat /\ asked < Len(Asks(kind))
  BY <1>1, AsksLists
<1>3. kind' = kind /\ Asks(kind)' = Asks(kind)
  BY DEF Asks
<1>4. asked' \in 0 .. Len(Asks(kind)) /\ 1 .. asked' = (1 .. asked) \union {asked + 1}
  BY <1>1, <1>2
<1>5. MakingInv'
  BY <1>1, <1>3, <1>4 DEF MakingInv, NextPart
<1> QED BY <1>1, <1>3, <1>4, <1>5 DEF LifeInv

LEMMA RefusedKeeps == LifeInv /\ Refused => LifeInv'
<1> SUFFICES ASSUME LifeInv, Refused PROVE LifeInv'
  OBVIOUS
<1> USE DEF Refused
<1>1. /\ kind \in Kind /\ asked \in 0 .. Len(Asks(kind)) /\ MakingInv
      /\ phase = "making" /\ todo = <<>>
  BY DEF LifeInv
<1>2. Asks(kind) \in Seq(Part) /\ Len(Asks(kind)) \in Nat /\ asked \in 0 .. Len(Asks(kind)) - 1
  BY <1>1, AsksLists
<1>3. kind' = kind /\ Asks(kind)' = Asks(kind) /\ parts' = parts /\ freed' = freed
  BY DEF Asks
<1>4. CASE Unchecked(NextPart)
  <2>1. phase' = "making" /\ asked' = Len(Asks(kind)) /\ kind = "bloomfilter"
    BY <1>4 DEF Unchecked
  <2>2. parts \subseteq {Asks(kind)[i] : i \in 1 .. asked'}
    <3>1. \A i \in 1 .. asked : i \in 1 .. Len(Asks(kind))
      BY ONLY <1>2
    <3> QED BY <1>1, <2>1, <3>1 DEF MakingInv
  <2>3. freed = {} /\ freed' = {}
    BY <1>1, <1>2, <1>3 DEF MakingInv
  <2>4. \/ todo' = <<>> /\ freed' = {}
        \/ todo' = <<"set">> /\ freed' = {}
    <3>1. todo' = Undo(NextPart) /\ NextPart \in {"set", "bytes"}
      BY <1>4 DEF Unchecked
    <3> QED BY <2>3, <3>1 DEF Undo
  <2>5. todo' = <<"set">> /\ freed' = {} => Frees(<<"set">>)'
    BY FreesAll, SetAlone
  <2>6. MakingInv'
    BY <1>3, <2>1, <2>2, <2>4, <2>5 DEF MakingInv
  <2> QED BY <1>1, <1>2, <1>3, <2>1, <2>6 DEF LifeInv
<1>5. CASE ~Unchecked(NextPart)
  <2>1. /\ phase' = "undoing" /\ asked' = asked /\ todo' = Undo(NextPart)
        /\ NextPart' = NextPart /\ NextPart = Asks(kind)[asked + 1]
    BY <1>3, <1>5 DEF NextPart
  <2>2. PICK plan \in Seq(Part) : plan = Undo(NextPart) /\ Distinct(plan)
    BY UndoLists
  <2>3. \A p \in parts : In(plan, p)
    BY <1>1, <1>2, <1>5, <2>1, <2>2, UndoCovers DEF MakingInv, Unchecked
  <2>4. freed' = {} /\ todo' = plan
    BY <1>1, <1>2, <1>3, <2>1, <2>2 DEF MakingInv
  <2>5. Frees(plan)' /\ plan = Undo(NextPart)'
    BY <2>1, <2>2, <2>4, FreesAll DEF Undo
  <2>6. Frees(Undo(NextPart))'
    BY <2>5
  <2>7. parts' \subseteq ToSet(todo')
    BY <1>3, <2>2, <2>3, <2>4, ListMembers
  <2>8. UndoingInv'
    BY <1>2, <1>3, <2>1, <2>6, <2>7 DEF UndoingInv
  <2> QED BY <1>1, <1>2, <1>3, <2>1, <2>8 DEF LifeInv
<1> QED BY <1>4, <1>5

LEMMA RefusedAfterEventsKeeps == LifeInv /\ RefusedAfterEvents => LifeInv'
<1> SUFFICES ASSUME LifeInv, RefusedAfterEvents PROVE LifeInv'
  OBVIOUS
<1> USE DEF RefusedAfterEvents
<1>1. /\ kind \in Kind /\ asked \in 0 .. Len(Asks(kind)) /\ UndoingInv
      /\ phase = "undoing" /\ freed = {} /\ NextPart = "events"
  BY DEF LifeInv
<1>2. /\ kind' = kind /\ Asks(kind)' = Asks(kind) /\ asked' = asked /\ NextPart' = NextPart
      /\ todo' = todo /\ freed' = freed /\ parts' = parts \union {"actives"}
  BY DEF Asks, NextPart
<1>3. PICK plan \in Seq(Part) : plan = Undo(NextPart) /\ Distinct(plan)
  BY UndoLists
<1>4. Frees(plan) /\ Frees(plan)' /\ plan = Undo(NextPart)'
  <2>1. Frees(plan)
    BY <1>1, <1>3 DEF UndoingInv
  <2>2. Frees(plan)'
    BY <1>2, <2>1 DEF Frees
  <2>3. Undo(NextPart)' = Undo(NextPart)
    BY <1>2 DEF Undo
  <2> QED BY <1>3, <2>1, <2>2, <2>3
<1>5. todo = plan
  BY <1>1, <1>3, <1>4, FreesFacts
<1>6. In(plan, "actives")
  <2>1. plan = <<"tes", "recycled", "heap", "events", "actives", "loop">>
    BY <1>1, <1>3, ComposedLists DEF Undo
  <2> QED BY <2>1 DEF In
<1>7. parts' \subseteq ToSet(todo')
  BY <1>1, <1>2, <1>3, <1>5, <1>6, ListMembers DEF UndoingInv
<1>8. Frees(Undo(NextPart))'
  BY <1>4
<1>9. UndoingInv'
  BY <1>1, <1>2, <1>7, <1>8 DEF UndoingInv
<1> QED BY <1>1, <1>2, <1>9 DEF LifeInv

LEMMA MadeKeeps == LifeInv /\ Made => LifeInv'
<1> SUFFICES ASSUME LifeInv, Made PROVE LifeInv'
  OBVIOUS
<1> USE DEF Made
<1>1. kind \in Kind /\ asked \in 0 .. Len(Asks(kind)) /\ MakingInv /\ asked = Len(Asks(kind))
  BY DEF LifeInv
<1>2. /\ kind' = kind /\ Asks(kind)' = Asks(kind) /\ Destroy(kind)' = Destroy(kind)
      /\ asked' = asked /\ parts' = parts /\ todo' = <<>> /\ freed' = {} /\ phase' = "used"
  BY DEF Asks, Destroy
<1>3. parts \subseteq ToSet(Destroy(kind))
  BY <1>1, DestroyLists, ListMembers DEF MakingInv
<1> QED BY <1>1, <1>2, <1>3 DEF LifeInv, UsedInv

LEMMA CollectsKeeps ==
  LifeInv /\ (\E part \in {"recycled", "pending"} : Collects(part)) => LifeInv'
<1> SUFFICES ASSUME LifeInv, NEW part \in {"recycled", "pending"}, Collects(part)
             PROVE  LifeInv'
  OBVIOUS
<1> USE DEF Collects
<1>1. kind \in Kind /\ asked \in 0 .. Len(Asks(kind)) /\ UsedInv
  BY DEF LifeInv
<1>2. /\ kind' = kind /\ Asks(kind)' = Asks(kind) /\ Destroy(kind)' = Destroy(kind)
      /\ asked' = asked /\ parts' = parts \union {part} /\ todo' = todo /\ freed' = freed
      /\ phase' = "used"
  BY DEF Asks, Destroy
<1>3. part = "recycled" => part \in ToSet(Destroy(kind))
  BY <1>1, DestroyLists, ListMembers
<1>4. UsedInv'
  BY <1>1, <1>2, <1>3 DEF UsedInv
<1> QED BY <1>1, <1>2, <1>4 DEF LifeInv

LEMMA DestructorCallKeeps == LifeInv /\ DestructorCall => LifeInv'
<1> SUFFICES ASSUME LifeInv, DestructorCall PROVE LifeInv'
  OBVIOUS
<1> USE DEF DestructorCall
<1>1. kind \in Kind /\ asked \in 0 .. Len(Asks(kind)) /\ UsedInv
  BY DEF LifeInv
<1>2. /\ kind' = kind /\ Asks(kind)' = Asks(kind) /\ Destroy(kind)' = Destroy(kind)
      /\ asked' = asked /\ parts' = parts /\ freed' = {} /\ phase' = "ending"
      /\ todo' = Destroy(kind)
  BY <1>1 DEF Asks, Destroy, UsedInv
<1>3. PICK plan \in Seq(Part) : plan = Destroy(kind) /\ Distinct(plan)
  BY <1>1, DestroyLists
<1>4. Frees(plan)' /\ plan = Destroy(kind)'
  BY <1>2, <1>3, FreesAll
<1>5. Frees(Destroy(kind))'
  BY <1>4
<1>6. EndingInv'
  BY <1>1, <1>2, <1>5 DEF EndingInv, UsedInv
<1> QED BY <1>1, <1>2, <1>6 DEF LifeInv

LEMMA FreePartKeeps == LifeInv /\ FreePart => LifeInv'
<1> SUFFICES ASSUME LifeInv, FreePart PROVE LifeInv'
  OBVIOUS
<1>1. /\ kind' = kind /\ Asks(kind)' = Asks(kind) /\ Destroy(kind)' = Destroy(kind)
      /\ asked' = asked /\ NextPart' = NextPart /\ Undo(NextPart)' = Undo(NextPart)
      /\ phase' = phase /\ parts' = parts \ {Head(todo)} /\ todo # <<>>
  BY DEF FreePart, Asks, Destroy, NextPart, Undo
<1>2. kind' \in Kind /\ asked' \in 0 .. Len(Asks(kind)') /\ asked \in 0 .. Len(Asks(kind))
  BY <1>1 DEF LifeInv
<1>3. CASE phase = "making"
  <2>1. MakingInv /\ kind = "bloomfilter" /\ asked = Len(Asks(kind)) /\ Frees(<<"set">>)
    BY <1>1, <1>3 DEF LifeInv, MakingInv
  <2>2. Frees(<<"set">>)'
    BY <2>1, SetAlone, FreesFacts
  <2>3. MakingInv'
    BY <1>1, <2>1, <2>2 DEF MakingInv
  <2> QED BY <1>1, <1>2, <1>3, <2>3 DEF LifeInv
<1>4. CASE phase = "undoing"
  <2>1. UndoingInv
    BY <1>4 DEF LifeInv
  <2>2. PICK plan \in Seq(Part) : plan = Undo(NextPart) /\ Distinct(plan)
    BY UndoLists
  <2>3. Frees(plan) /\ Frees(plan)' /\ todo \in Seq(Part)
    BY <2>1, <2>2, FreesFacts DEF UndoingInv
  <2>4. Frees(Undo(NextPart))'
    BY <1>1, <2>2, <2>3
  <2>5. parts' \subseteq ToSet(todo')
    BY <1>1, <2>1, <2>3, FreeLeaves DEF UndoingInv
  <2>6. UndoingInv'
    BY <1>1, <2>1, <2>4, <2>5 DEF UndoingInv
  <2> QED BY <1>1, <1>2, <1>4, <2>6 DEF LifeInv
<1>5. CASE phase = "ending"
  <2>1. EndingInv /\ kind \in Kind
    BY <1>5 DEF LifeInv
  <2>2. PICK plan \in Seq(Part) : plan = Destroy(kind) /\ Distinct(plan)
    BY <2>1, DestroyLists
  <2>3. Frees(plan) /\ Frees(plan)' /\ todo \in Seq(Part)
    BY <2>1, <2>2, FreesFacts DEF EndingInv
  <2>4. Frees(Destroy(kind))'
    BY <1>1, <2>2, <2>3
  <2>5. parts' \subseteq ToSet(todo') \union {"pending"}
    BY <1>1, <2>1, <2>3, FreeLeaves DEF EndingInv
  <2>6. EndingInv'
    BY <2>4, <2>5 DEF EndingInv
  <2> QED BY <1>1, <1>2, <1>5, <2>6 DEF LifeInv
<1>6. phase \in {"making", "undoing", "ending"}
  BY <1>1 DEF LifeInv, UsedInv, GoneInv
<1> QED BY <1>3, <1>4, <1>5, <1>6

LEMMA GoneKeeps == LifeInv /\ Gone => LifeInv'
<1> SUFFICES ASSUME LifeInv, Gone PROVE LifeInv'
  OBVIOUS
<1> USE DEF Gone
<1>1. kind' = kind /\ Asks(kind)' = Asks(kind) /\ asked' = asked /\ parts' = parts /\ todo' = <<>>
      /\ phase' = "gone" /\ todo = <<>> /\ phase \in {"undoing", "ending"}
  BY DEF Asks
<1>2. ToSet(todo) = {}
  BY <1>1 DEF ToSet
<1>3. parts \subseteq {"pending"}
  BY <1>1, <1>2 DEF LifeInv, UndoingInv, EndingInv
<1> QED BY <1>1, <1>3 DEF LifeInv, GoneInv

LEMMA LifeStep == LifeInv /\ [LifeNext]_lifeVars => LifeInv'
<1> SUFFICES ASSUME LifeInv, [LifeNext]_lifeVars PROVE LifeInv'
  OBVIOUS
<1>1. CASE UNCHANGED lifeVars
  <2>1. /\ kind' = kind /\ phase' = phase /\ asked' = asked
        /\ parts' = parts /\ todo' = todo /\ freed' = freed
    BY <1>1 DEF lifeVars
  <2>2. /\ Asks(kind)' = Asks(kind) /\ Destroy(kind)' = Destroy(kind)
        /\ NextPart' = NextPart /\ Undo(NextPart)' = Undo(NextPart)
    BY <2>1 DEF Asks, Destroy, NextPart, Undo
  <2>3. /\ Frees(<<"set">>)' <=> Frees(<<"set">>)
        /\ Frees(Destroy(kind))' <=> Frees(Destroy(kind))
        /\ Frees(Undo(NextPart))' <=> Frees(Undo(NextPart))
    BY <2>1, <2>2 DEF Frees
  <2>4. /\ MakingInv => MakingInv'
        /\ UndoingInv => UndoingInv'
        /\ UsedInv => UsedInv'
        /\ EndingInv => EndingInv'
        /\ GoneInv => GoneInv'
    BY <2>1, <2>2, <2>3 DEF MakingInv, UndoingInv, UsedInv, EndingInv, GoneInv
  <2> QED BY <2>1, <2>2, <2>4 DEF LifeInv
<1>2. CASE LifeNext
  BY <1>2, GrantedKeeps, RefusedKeeps, RefusedAfterEventsKeeps, MadeKeeps, CollectsKeeps,
     DestructorCallKeeps, FreePartKeeps, GoneKeeps DEF LifeNext
<1> QED BY <1>1, <1>2

\* At every moment of a constructor or a destructor, what is left to free is
\* the rest of one list, and what is allocated is on it: the clean-up behind
\* each refusal covers exactly what was granted before.
THEOREM LifecycleInvariance == LifeSpec => []LifeInv
<1> QED BY LifeStart, LifeStep, PTL DEF LifeSpec

\* A constructor that returns NULL and a destructor leave nothing allocated,
\* whichever part is refused, and call free once for each part.
THEOREM NoPartIsLost == LifeSpec => []NothingLost
<1>1. LifeInv => NothingLost
  <2> SUFFICES ASSUME LifeInv PROVE NothingLost
    OBVIOUS
  <2>1. phase = "gone" => parts \subseteq {"pending"}
    BY DEF LifeInv, GoneInv
  <2>2. ASSUME todo # <<>> PROVE Head(todo) \notin freed
    <3>1. \/ MakingInv /\ Frees(<<"set">>)
          \/ UndoingInv
          \/ EndingInv /\ kind \in Kind
      BY <2>2 DEF LifeInv, MakingInv, UsedInv, GoneInv
    <3> QED BY <2>2, <3>1, FreesFacts, SetAlone, UndoLists, DestroyLists DEF UndoingInv, EndingInv
  <2> QED BY <2>1, <2>2 DEF NothingLost
<1> QED BY <1>1, LifecycleInvariance, PTL
=============================================================================
