--------------------------- MODULE InductionFacts ---------------------------
(***************************************************************************)
(* Least and greatest elements of sets of natural numbers, and induction   *)
(* over an interval and over a finite set.  What is proved by induction is *)
(* that a set, of numbers or of sets, has an element.                      *)
(***************************************************************************)
EXTENDS Integers, FiniteSetsExt, FiniteSetTheorems, WellFoundedInduction, TLAPS

\* A set of natural numbers has a least element.
LEMMA LeastNat ==
  ASSUME NEW S \in SUBSET Nat, S # {}
  PROVE  \E m \in S : \A n \in S : m <= n
<1>1. PICK m \in S : \A n \in S : ~ (<<n, m>> \in OpToRel(<, Nat))
  BY NatLessThanWellFounded, WFMin
<1>2. \A n \in S : ~ (n < m)
  BY <1>1 DEF OpToRel
<1> QED BY <1>2

\* A set of natural numbers below a bound has a greatest element.
LEMMA GreatestNat ==
  ASSUME NEW b \in Nat, NEW S \in SUBSET (0 .. b), S # {}
  PROVE  \E m \in S : \A n \in S : n <= m
<1> DEFINE T == {b - n : n \in S}
<1>1. T \in SUBSET Nat /\ T # {}
  <2>1. \A n \in S : n \in 0 .. b /\ b - n \in Nat
    OBVIOUS
  <2>2. PICK n \in S : TRUE
    OBVIOUS
  <2>3. b - n \in T
    OBVIOUS
  <2> QED BY <2>1, <2>3
<1>2. PICK k \in T : \A n \in T : k <= n
  <2> HIDE DEF T
  <2> QED BY <1>1, LeastNat
<1>3. PICK m \in S : k = b - m
  OBVIOUS
<1>4. \A n \in S : b - m <= b - n
  BY <1>2, <1>3
<1> QED BY <1>3, <1>4

\* Induction from a to b.
LEMMA IntervalInduction ==
  ASSUME NEW a \in Nat, NEW b \in Nat, NEW S,
         a \in S, \A i \in a .. b - 1 : i \in S => i + 1 \in S
  PROVE  \A i \in a .. b : i \in S
<1> DEFINE Out == {i \in a .. b : i \notin S}
<1>1. ASSUME Out # {} PROVE FALSE
  <2>1. Out \in SUBSET Nat
    OBVIOUS
  <2> HIDE DEF Out
  <2>2. PICK m \in Out : \A n \in Out : m <= n
    BY <1>1, <2>1, LeastNat
  <2>3. m \in a .. b /\ m \notin S
    BY <2>2 DEF Out
  <2>4. m - 1 \in a .. b - 1
    BY <2>3
  <2>5. m - 1 \notin Out /\ m - 1 \in a .. b
    <3>1. ~(m <= m - 1)
      BY <2>3
    <3>2. m - 1 \notin Out
      BY <2>2, <3>1
    <3> QED BY <2>4, <3>2
  <2>6. m - 1 \in S
    BY <2>5 DEF Out
  <2>7. (m - 1) + 1 \in S
    BY <2>4, <2>6
  <2> QED BY <2>3, <2>7
<1> QED BY <1>1

\* Induction over the subsets of a finite set, from the smaller ones to the
\* larger ones.
LEMMA RemovalInduction ==
  ASSUME NEW U, IsFiniteSet(U), NEW F,
         {} \in F, \A T \in SUBSET U : T # {} /\ (\A x \in T : T \ {x} \in F) => T \in F
  PROVE  \A T \in SUBSET U : T \in F
<1> DEFINE S == {n \in Nat : \A T \in SUBSET U : Cardinality(T) = n => T \in F}
<1>1. \A T \in SUBSET U : IsFiniteSet(T) /\ Cardinality(T) \in Nat /\ Cardinality(T) <= Cardinality(U)
  BY FS_Subset, FS_CardinalityType
<1>2. 0 \in S
  BY <1>1, FS_EmptySet
<1>3. ASSUME NEW i \in 0 .. Cardinality(U) - 1, i \in S PROVE i + 1 \in S
  <2> SUFFICES ASSUME NEW T \in SUBSET U, Cardinality(T) = i + 1 PROVE T \in F
    OBVIOUS
  <2>0. i \in Nat /\ i + 1 # 0 /\ i + 1 - 1 = i
    BY <1>1
  <2>1. T # {}
    BY <2>0, FS_EmptySet
  <2>2. ASSUME NEW x \in T PROVE T \ {x} \in F
    <3>1. Cardinality(T \ {x}) = Cardinality(T) - 1
      BY <1>1, FS_RemoveElement
    <3>2. Cardinality(T \ {x}) = i /\ T \ {x} \in SUBSET U
      BY <2>0, <3>1
    <3> QED BY <1>3, <3>2
  <2> QED BY <2>1, <2>2
<1>4. \A i \in 0 .. Cardinality(U) : i \in S
  <2>1. Cardinality(U) \in Nat /\ 0 \in Nat
    BY FS_CardinalityType
  <2> HIDE DEF S
  <2> QED BY <1>2, <1>3, <2>1, IntervalInduction
<1> QED BY <1>1, <1>4

\* The same, adding one element after the other.
LEMMA FiniteInduction ==
  ASSUME NEW U, IsFiniteSet(U), NEW F,
         {} \in F, \A T \in SUBSET U : \A x \in U \ T : T \in F => T \union {x} \in F
  PROVE  \A T \in SUBSET U : T \in F
<1>1. ASSUME NEW T \in SUBSET U, T # {}, \A x \in T : T \ {x} \in F PROVE T \in F
  <2>1. PICK x \in T : TRUE
    BY <1>1
  <2>2. (T \ {x}) \union {x} = T /\ x \in U \ (T \ {x}) /\ T \ {x} \in SUBSET U
    OBVIOUS
  <2> QED BY <1>1, <2>1, <2>2
<1> QED BY <1>1, RemovalInduction
-----------------------------------------------------------------------------
(* Sums over finite sets, which are defined by a recursive function.       *)

Pick(s) == CHOOSE x \in s : TRUE

SumOver(v, S) == MapThenSumSet(LAMBDA x : v[x], S)

\* f is the function that SumOver(v, S) computes its result with.
SumEqn(f, v, D) ==
  f = [s \in D |-> IF s = {} THEN 0 ELSE v[Pick(s)] + f[s \ {Pick(s)}]]

LEMMA SumUnfold ==
  ASSUME NEW v, NEW S, IsFiniteSet(S)
  PROVE  \E f : SumEqn(f, v, SUBSET S) /\ SumOver(v, S) = f[S]
<1> DEFINE n == Cardinality(S)
           D(m) == {s \in SUBSET S : Cardinality(s) <= m}
           Def == {m \in Nat : \E f : SumEqn(f, v, D(m))}
           h == CHOOSE f : SumEqn(f, v, SUBSET S)
<1>0. n \in Nat /\ 0 \in Nat
  BY FS_CardinalityType
<1>1. \A s \in SUBSET S : IsFiniteSet(s) /\ Cardinality(s) \in Nat /\ Cardinality(s) <= n
  BY FS_Subset, FS_CardinalityType
<1>2. \A s \in SUBSET S : s # {} => Pick(s) \in s /\ Cardinality(s \ {Pick(s)}) = Cardinality(s) - 1
                                    /\ Cardinality(s) # 0
  BY <1>1, FS_RemoveElement, FS_EmptySet DEF Pick
<1> HIDE DEF n
<1>3. 0 \in Def
  <2> DEFINE f == [s \in D(0) |-> 0]
  <2>1. ASSUME NEW s \in D(0), s # {} PROVE FALSE
    <3>1. Cardinality(s) \in Nat /\ Cardinality(s) # 0 /\ Cardinality(s) <= 0
      BY <1>1, <1>2, <2>1
    <3> QED BY <3>1
  <2>2. SumEqn(f, v, D(0))
    BY <2>1 DEF SumEqn
  <2>3. \E e : SumEqn(e, v, D(0))
    <3> HIDE DEF f
    <3> QED BY <2>2
  <2> QED BY <2>3
<1>4. ASSUME NEW m \in 0 .. n - 1, m \in Def PROVE m + 1 \in Def
  <2>1. PICK f : SumEqn(f, v, D(m))
    BY <1>4
  <2> DEFINE g == [s \in D(m + 1) |-> IF s \in D(m) THEN f[s] ELSE v[Pick(s)] + f[s \ {Pick(s)}]]
  <2>2. m \in Nat /\ m + 1 \in Nat
    BY <1>0
  <2>3. ASSUME NEW s \in D(m + 1)
        PROVE  g[s] = IF s = {} THEN 0 ELSE v[Pick(s)] + g[s \ {Pick(s)}]
    <3>1. s # {} => s \ {Pick(s)} \in D(m) /\ s \ {Pick(s)} \in D(m + 1)
      BY <1>1, <1>2, <2>2
    <3>2. s # {} => g[s \ {Pick(s)}] = f[s \ {Pick(s)}]
      BY <3>1
    <3>3. CASE s \in D(m)
      <4>1. f[s] = IF s = {} THEN 0 ELSE v[Pick(s)] + f[s \ {Pick(s)}]
        BY <2>1, <3>3 DEF SumEqn
      <4>2. g[s] = f[s]
        BY <3>3
      <4> HIDE DEF g
      <4> QED BY <3>2, <4>1, <4>2
    <3>4. CASE s \notin D(m)
      <4>1. s # {}
        BY <2>2, <3>4, FS_EmptySet
      <4>2. g[s] = v[Pick(s)] + f[s \ {Pick(s)}]
        BY <3>4
      <4> HIDE DEF g
      <4> QED BY <3>2, <4>1, <4>2
    <3> QED BY <3>3, <3>4
  <2>4. SumEqn(g, v, D(m + 1))
    BY <2>3 DEF SumEqn
  <2>5. \E e : SumEqn(e, v, D(m + 1))
    <3> HIDE DEF g, D
    <3> QED BY <2>4
  <2> QED BY <2>2, <2>5
<1>5. n \in Def
  <2>1. \A m \in 0 .. n : m \in Def
    <3> HIDE DEF Def
    <3> QED BY <1>0, <1>3, <1>4, IntervalInduction
  <2> QED BY <1>0, <2>1
<1>6. SumEqn(h, v, SUBSET S)
  <2>1. D(n) = SUBSET S
    BY <1>1
  <2>2. \E f : SumEqn(f, v, D(n))
    BY <1>5
  <2>3. \E f : SumEqn(f, v, SUBSET S)
    <3> HIDE DEF D
    <3> QED BY <2>1, <2>2
  <2> QED BY <2>3
<1>7. SumOver(v, S) = h[S]
  BY DEF SumOver, MapThenSumSet, MapThenFoldSet, SumEqn, Pick
<1> HIDE DEF h
<1> QED BY <1>6, <1>7

\* The sum over a set does not depend on the larger set it is computed in.
LEMMA SumAgree ==
  \A v, S, T, f, g :
    IsFiniteSet(S) /\ T \subseteq S /\ SumEqn(f, v, SUBSET S) /\ SumEqn(g, v, SUBSET T) =>
      f[T] = g[T]
<1> TAKE v, S, T, f, g
<1> HAVE IsFiniteSet(S) /\ T \subseteq S /\ SumEqn(f, v, SUBSET S) /\ SumEqn(g, v, SUBSET T)
<1> DEFINE F == {s \in SUBSET T : f[s] = g[s]}
<1>1. {} \in F
  <2>1. f[{}] = 0 /\ g[{}] = 0
    BY DEF SumEqn
  <2> QED BY <2>1
<1>2. ASSUME NEW s \in SUBSET T, s # {}, \A x \in s : s \ {x} \in F PROVE s \in F
  <2>1. Pick(s) \in s
    BY <1>2 DEF Pick
  <2>2. f[s \ {Pick(s)}] = g[s \ {Pick(s)}]
    BY <1>2, <2>1
  <2>3. f[s] = v[Pick(s)] + f[s \ {Pick(s)}] /\ g[s] = v[Pick(s)] + g[s \ {Pick(s)}]
    BY <1>2 DEF SumEqn
  <2> QED BY <2>2, <2>3
<1>3. IsFiniteSet(T)
  BY FS_Subset
<1>4. \A s \in SUBSET T : s \in F
  <2> HIDE DEF F
  <2> QED BY <1>1, <1>2, <1>3, RemovalInduction
<1> QED BY <1>4

LEMMA SumEmpty ==
  ASSUME NEW v
  PROVE  SumOver(v, {}) = 0
<1>1. PICK f : SumEqn(f, v, SUBSET {}) /\ SumOver(v, {}) = f[{}]
  BY SumUnfold, FS_EmptySet
<1> QED BY <1>1 DEF SumEqn

LEMMA SumPick ==
  ASSUME NEW v, NEW S, IsFiniteSet(S), S # {}
  PROVE  Pick(S) \in S /\ SumOver(v, S) = v[Pick(S)] + SumOver(v, S \ {Pick(S)})
<1> DEFINE T == S \ {Pick(S)}
<1>1. PICK f : SumEqn(f, v, SUBSET S) /\ SumOver(v, S) = f[S]
  BY SumUnfold
<1>2. IsFiniteSet(T) /\ T \in SUBSET S /\ T \in SUBSET T
  BY FS_Subset
<1>3. PICK g : SumEqn(g, v, SUBSET T) /\ SumOver(v, T) = g[T]
  BY <1>2, SumUnfold
<1>4. f[T] = g[T]
  <2>1. \A R \in SUBSET S : SumEqn(g, v, SUBSET R) => f[R] = g[R]
    BY <1>1, SumAgree
  <2> QED BY <1>2, <1>3, <2>1
<1>5. f[S] = v[Pick(S)] + f[T]
  BY <1>1 DEF SumEqn
<1>6. Pick(S) \in S
  BY DEF Pick
<1> QED BY <1>1, <1>3, <1>4, <1>5, <1>6

LEMMA SumType ==
  ASSUME NEW U, NEW v \in [U -> Nat], NEW S \in SUBSET U, IsFiniteSet(S)
  PROVE  SumOver(v, S) \in Nat
<1> DEFINE F == {s \in SUBSET S : SumOver(v, s) \in Nat}
<1>1. {} \in F
  BY SumEmpty
<1>2. ASSUME NEW s \in SUBSET S, s # {}, \A x \in s : s \ {x} \in F PROVE s \in F
  <2>1. Pick(s) \in s /\ SumOver(v, s) = v[Pick(s)] + SumOver(v, s \ {Pick(s)})
    BY <1>2, FS_Subset, SumPick
  <2>2. SumOver(v, s \ {Pick(s)}) \in Nat /\ v[Pick(s)] \in Nat
    BY <1>2, <2>1
  <2> QED BY <2>1, <2>2
<1>3. \A s \in SUBSET S : s \in F
  <2> HIDE DEF F
  <2> QED BY <1>1, <1>2, RemovalInduction
<1> QED BY <1>3

\* Any element can be taken out first.
LEMMA SumSplit ==
  ASSUME NEW U, NEW v \in [U -> Nat], NEW S \in SUBSET U, IsFiniteSet(S), NEW x \in S
  PROVE  SumOver(v, S) = v[x] + SumOver(v, S \ {x})
<1> DEFINE F == {s \in SUBSET S : \A y \in s : SumOver(v, s) = v[y] + SumOver(v, s \ {y})}
<1>1. {} \in F
  OBVIOUS
<1>2. ASSUME NEW s \in SUBSET S, s # {}, \A y \in s : s \ {y} \in F PROVE s \in F
  <2> DEFINE p == Pick(s)
  <2>1. p \in s /\ SumOver(v, s) = v[p] + SumOver(v, s \ {p})
    BY <1>2, FS_Subset, SumPick
  <2> HIDE DEF p
  <2>2. ASSUME NEW y \in s, y # p PROVE SumOver(v, s) = v[y] + SumOver(v, s \ {y})
    <3> DEFINE t == s \ {p, y}
    <3>1. t \in SUBSET U /\ IsFiniteSet(t) /\ (s \ {p}) \ {y} = t /\ (s \ {y}) \ {p} = t
      BY FS_Subset
    <3>2. y \in s \ {p} /\ p \in s \ {y}
      BY <2>1, <2>2
    <3>3. SumOver(v, s \ {p}) = v[y] + SumOver(v, t) /\ SumOver(v, s \ {y}) = v[p] + SumOver(v, t)
      BY <1>2, <2>1, <3>1, <3>2
    <3>4. SumOver(v, t) \in Nat /\ v[y] \in Nat /\ v[p] \in Nat
      BY <2>1, <3>1, SumType
    <3> HIDE DEF t
    <3> QED BY <2>1, <3>3, <3>4
  <2> QED BY <2>1, <2>2
<1>3. \A s \in SUBSET S : s \in F
  <2> HIDE DEF F
  <2> QED BY <1>1, <1>2, RemovalInduction
<1> QED BY <1>3

LEMMA SumSame ==
  ASSUME NEW v, NEW w, NEW S, IsFiniteSet(S), \A x \in S : v[x] = w[x]
  PROVE  SumOver(v, S) = SumOver(w, S)
<1> DEFINE F == {s \in SUBSET S : SumOver(v, s) = SumOver(w, s)}
<1>1. {} \in F
  BY SumEmpty
<1>2. ASSUME NEW s \in SUBSET S, s # {}, \A y \in s : s \ {y} \in F PROVE s \in F
  <2>1. /\ Pick(s) \in s /\ SumOver(v, s) = v[Pick(s)] + SumOver(v, s \ {Pick(s)})
        /\ SumOver(w, s) = w[Pick(s)] + SumOver(w, s \ {Pick(s)})
    BY <1>2, FS_Subset, SumPick
  <2>2. SumOver(v, s \ {Pick(s)}) = SumOver(w, s \ {Pick(s)}) /\ v[Pick(s)] = w[Pick(s)]
    BY <1>2, <2>1
  <2> QED BY <2>1, <2>2
<1>3. \A s \in SUBSET S : s \in F
  <2> HIDE DEF F
  <2> QED BY <1>1, <1>2, RemovalInduction
<1> QED BY <1>3

\* What changes when one value changes.
LEMMA SumChange ==
  ASSUME NEW S, IsFiniteSet(S), NEW v \in [S -> Nat], NEW w \in [S -> Nat], NEW x \in S,
         \A y \in S \ {x} : v[y] = w[y]
  PROVE  /\ SumOver(v, S) \in Nat /\ SumOver(w, S) \in Nat
         /\ SumOver(w, S) - w[x] = SumOver(v, S) - v[x]
<1>1. IsFiniteSet(S \ {x}) /\ S \ {x} \in SUBSET S /\ S \in SUBSET S
  BY FS_Subset
<1>2. SumOver(v, S \ {x}) = SumOver(w, S \ {x})
  BY <1>1, SumSame
<1>3. SumOver(v, S) = v[x] + SumOver(v, S \ {x}) /\ SumOver(w, S) = w[x] + SumOver(w, S \ {x})
  BY <1>1, SumSplit
<1>4. SumOver(v, S \ {x}) \in Nat /\ v[x] \in Nat /\ w[x] \in Nat
  BY <1>1, SumType
<1> QED BY <1>2, <1>3, <1>4
=============================================================================
