--------------------------- MODULE HashMapProofs ---------------------------
(***************************************************************************)
(* Proofs about HashMap, for any keys, hashes and values and for every     *)
(* initial size that is a power of 2: a search visits every entry, and no  *)
(* entry that was stored is lost.                                          *)
(***************************************************************************)
EXTENDS HashMap, InductionFacts

-----------------------------------------------------------------------------
(* Recursive functions over the natural numbers: a is the value at 0, and   *)
(* g makes of i and the value at i the one at i + 1.                        *)

IsStep(W, a, g) == a \in W /\ g \in [Nat \X W -> W]
Solves(f, W, a, g) ==
  f \in [Nat -> W] /\ f[0] = a /\ \A i \in Nat : f[i + 1] = g[<<i, f[i]>>]
SolvesUpTo(f, b, W, a, g) ==
  /\ f \in [0 .. b -> W]
  /\ f = [i \in 0 .. b |-> IF i = 0 THEN a ELSE g[<<i - 1, f[i - 1]>>]]
Follows(f, n, W, a, g) ==
  f \in [0 .. n -> W] /\ f[0] = a /\ \A i \in 0 .. n - 1 : f[i + 1] = g[<<i, f[i]>>]

\* Up to n, the equations have a solution.
LEMMA RecursionUpTo ==
  ASSUME NEW W, NEW a \in W, NEW g \in [Nat \X W -> W], NEW n \in Nat
  PROVE  \E f : Follows(f, n, W, a, g)
<1> DEFINE S == {m \in Nat : \E f : Follows(f, m, W, a, g)}
<1>1. 0 \in S
  <2> DEFINE f == [i \in 0 .. 0 |-> a]
  <2>1. Follows(f, 0, W, a, g)
    BY DEF Follows
  <2> QED BY <2>1
<1>2. ASSUME NEW m \in 0 .. n - 1, m \in S PROVE m + 1 \in S
  <2>1. PICK f : Follows(f, m, W, a, g)
    BY <1>2
  <2> DEFINE h == [i \in 0 .. m + 1 |-> IF i <= m THEN f[i] ELSE g[<<m, f[m]>>]]
  <2>2. m \in Nat /\ f \in [0 .. m -> W] /\ f[0] = a /\ f[m] \in W
    BY <2>1 DEF Follows
  <2>3. g[<<m, f[m]>>] \in W
    BY <2>2
  <2>4. h \in [0 .. m + 1 -> W] /\ h[0] = a
    BY <2>2, <2>3
  <2>5. ASSUME NEW i \in 0 .. m PROVE h[i + 1] = g[<<i, h[i]>>]
    <3>1. CASE i = m
      <4>1. m + 1 \in 0 .. m + 1 /\ ~(m + 1 <= m) /\ m <= m /\ m \in 0 .. m + 1
        BY <2>2
      <4>2. h[m + 1] = g[<<m, f[m]>>] /\ h[m] = f[m]
        BY <4>1
      <4> QED BY <3>1, <4>2
    <3>2. CASE i < m
      <4>1. i \in 0 .. m - 1 /\ i + 1 \in 0 .. m + 1 /\ i + 1 <= m /\ i <= m /\ i \in 0 .. m + 1
        BY <2>2, <3>2
      <4>2. f[i + 1] = g[<<i, f[i]>>]
        BY <2>1, <4>1 DEF Follows
      <4> QED BY <4>1, <4>2
    <3> QED BY <2>2, <3>1, <3>2
  <2>6. Follows(h, m + 1, W, a, g)
    <3> HIDE DEF h
    <3>1. (m + 1) - 1 = m
      BY <2>2
    <3> QED BY <2>4, <2>5, <3>1 DEF Follows
  <2> QED BY <2>2, <2>6
<1>3. \A i \in 0 .. n : i \in S
  <2> HIDE DEF S
  <2>1. 0 \in Nat
    OBVIOUS
  <2> QED BY <1>1, <1>2, <2>1, IntervalInduction
<1> QED BY <1>3

\* Two solutions agree as far as both go.
LEMMA RecursionAgrees ==
  ASSUME NEW W, NEW a, NEW g, NEW n \in Nat, NEW m \in Nat, n <= m,
         NEW f, NEW h, Follows(f, n, W, a, g), Follows(h, m, W, a, g)
  PROVE  f[n] = h[n]
<1> DEFINE S == {i \in Nat : f[i] = h[i]}
<1>1. 0 \in S
  BY DEF Follows
<1>2. ASSUME NEW i \in 0 .. n - 1, i \in S PROVE i + 1 \in S
  <2>1. i \in 0 .. m - 1 /\ i + 1 \in Nat
    OBVIOUS
  <2>2. f[i + 1] = g[<<i, f[i]>>] /\ h[i + 1] = g[<<i, h[i]>>]
    BY <2>1 DEF Follows
  <2> QED BY <1>2, <2>1, <2>2
<1>3. \A i \in 0 .. n : i \in S
  <2> HIDE DEF S
  <2>1. 0 \in Nat
    OBVIOUS
  <2> QED BY <1>1, <1>2, <2>1, IntervalInduction
<1> QED BY <1>3

\* The equations have a solution.
LEMMA Recursion == \A W, a, g : IsStep(W, a, g) => \E f : Solves(f, W, a, g)
<1> SUFFICES ASSUME NEW W, NEW a, NEW g, IsStep(W, a, g) PROVE \E f : Solves(f, W, a, g)
  OBVIOUS
<1>0. a \in W /\ g \in [Nat \X W -> W]
  BY DEF IsStep
<1> DEFINE s(n) == CHOOSE f : Follows(f, n, W, a, g)
           F == [n \in Nat |-> s(n)[n]]
<1>1. \A n \in Nat : Follows(s(n), n, W, a, g)
  BY <1>0, RecursionUpTo
<1> HIDE DEF s
<1>2. \A n \in Nat : s(n)[n] \in W
  BY <1>1 DEF Follows
<1>3. F \in [Nat -> W]
  BY <1>2
<1>4. F[0] = a
  BY <1>1 DEF Follows
<1>5. ASSUME NEW i \in Nat PROVE F[i + 1] = g[<<i, F[i]>>]
  <2>1. i + 1 \in Nat /\ i \in 0 .. (i + 1) - 1 /\ i <= i + 1
    OBVIOUS
  <2>2. s(i + 1)[i + 1] = g[<<i, s(i + 1)[i]>>]
    BY <1>1, <2>1 DEF Follows
  <2>3. s(i)[i] = s(i + 1)[i]
    <3>1. Follows(s(i), i, W, a, g) /\ Follows(s(i + 1), i + 1, W, a, g)
      BY <1>1, <2>1
    <3> QED BY <2>1, <3>1, RecursionAgrees
  <2> QED BY <2>1, <2>2, <2>3
<1> HIDE DEF F
<1>6. Solves(F, W, a, g)
  BY <1>3, <1>4, <1>5 DEF Solves
<1> QED BY <1>6

\* The equations over an interval, for a step that depends on the value only.
LEMMA RecursionOver ==
  \A W, a, g : \A b \in Nat : IsStep(W, a, g) => \E f : SolvesUpTo(f, b, W, a, g)
<1> SUFFICES ASSUME NEW W, NEW a, NEW g, NEW b \in Nat, IsStep(W, a, g)
             PROVE  \E f : SolvesUpTo(f, b, W, a, g)
  OBVIOUS
<1>0. a \in W /\ g \in [Nat \X W -> W]
  BY DEF IsStep
<1>1. PICK f : Follows(f, b, W, a, g)
  BY <1>0, RecursionUpTo
<1>2. ASSUME NEW i \in 0 .. b PROVE f[i] = IF i = 0 THEN a ELSE g[<<i - 1, f[i - 1]>>]
  <2>1. CASE i = 0
    BY <1>1, <2>1 DEF Follows
  <2>2. CASE i # 0
    <3>1. i - 1 \in 0 .. b - 1 /\ (i - 1) + 1 = i
      BY <2>2
    <3>2. f[(i - 1) + 1] = g[<<i - 1, f[i - 1]>>]
      BY <1>1, <3>1 DEF Follows
    <3> QED BY <2>2, <3>1, <3>2
  <2> QED BY <2>1, <2>2
<1>3. f \in [0 .. b -> W]
  BY <1>1 DEF Follows
<1> DEFINE h == [i \in 0 .. b |-> IF i = 0 THEN a ELSE g[<<i - 1, f[i - 1]>>]]
<1>4. f = h
  BY <1>2, <1>3
<1>5. SolvesUpTo(f, b, W, a, g)
  BY <1>3, <1>4 DEF SolvesUpTo
<1> QED BY <1>5

\* A function that satisfies the equations over an interval has its values in
\* W, if the step stays there.
LEMMA RecursionType ==
  ASSUME NEW W, NEW p, NEW b \in Nat, p[0] \in W,
         \A i \in 0 .. b - 1 : p[i] \in W => p[i + 1] \in W
  PROVE  \A i \in 0 .. b : p[i] \in W
<1> DEFINE S == {i \in Nat : p[i] \in W}
<1>1. 0 \in S /\ \A i \in 0 .. b - 1 : i \in S => i + 1 \in S
  OBVIOUS
<1> HIDE DEF S
<1>2. \A i \in 0 .. b : i \in S
  <2>1. 0 \in Nat
    OBVIOUS
  <2> QED BY <1>1, <2>1, IntervalInduction
<1> QED BY <1>2 DEF S
-----------------------------------------------------------------------------
(* Powers of 2.                                                            *)

\* The powers of 2 satisfy their equation.
LEMMA TwoToIs == TwoTo = [e \in Nat |-> IF e = 0 THEN 1 ELSE 2 * TwoTo[e - 1]]
<1> DEFINE g == [z \in Nat \X Nat |-> 2 * z[2]]
<1>1. g \in [Nat \X Nat -> Nat] /\ 1 \in Nat
  OBVIOUS
<1>2. \A i, x \in Nat : g[<<i, x>>] = 2 * x
  OBVIOUS
<1> HIDE DEF g
<1>3. PICK f : f \in [Nat -> Nat] /\ f[0] = 1 /\ \A i \in Nat : f[i + 1] = g[<<i, f[i]>>]
  <2>1. IsStep(Nat, 1, g)
    BY <1>1 DEF IsStep
  <2>2. \E f : Solves(f, Nat, 1, g)
    BY <2>1, Recursion
  <2> QED BY <2>2 DEF Solves
<1>4. ASSUME NEW e \in Nat PROVE f[e] = IF e = 0 THEN 1 ELSE 2 * f[e - 1]
  <2>1. CASE e = 0
    BY <1>3, <2>1
  <2>2. CASE e # 0
    <3>1. e - 1 \in Nat /\ (e - 1) + 1 = e
      BY <2>2
    <3>2. f[(e - 1) + 1] = g[<<e - 1, f[e - 1]>>] /\ f[e - 1] \in Nat
      BY <1>3, <3>1
    <3> QED BY <1>2, <2>2, <3>1, <3>2
  <2> QED BY <2>1, <2>2
<1>5. f = [e \in Nat |-> IF e = 0 THEN 1 ELSE 2 * f[e - 1]]
  BY <1>3, <1>4
<1> QED BY <1>5 DEF TwoTo

\* Their first value, how they double, and how fast they grow.
LEMMA TwoToFacts ==
  TwoTo[0] = 1 /\ \A e \in Nat : /\ TwoTo[e] \in Nat /\ TwoTo[e] > e
                                  /\ TwoTo[e + 1] = 2 * TwoTo[e]
<1>1. TwoTo[0] = 1
  BY TwoToIs
<1>2. ASSUME NEW e \in Nat PROVE TwoTo[e + 1] = 2 * TwoTo[e]
  <2>1. e + 1 \in Nat /\ e + 1 # 0 /\ (e + 1) - 1 = e
    OBVIOUS
  <2>2. TwoTo[e + 1] = IF e + 1 = 0 THEN 1 ELSE 2 * TwoTo[(e + 1) - 1]
    BY <2>1, TwoToIs
  <2> QED BY <2>1, <2>2
<1>3. ASSUME NEW e \in Nat PROVE TwoTo[e] \in Nat /\ TwoTo[e] > e
  <2> DEFINE S == {i \in Nat : TwoTo[i] \in Nat /\ TwoTo[i] > i}
  <2>1. 0 \in S
    BY <1>1
  <2>2. ASSUME NEW i \in 0 .. e - 1, i \in S PROVE i + 1 \in S
    BY <1>2, <2>2
  <2> HIDE DEF S
  <2>3. e \in S
    <3>1. 0 \in Nat /\ e \in 0 .. e
      OBVIOUS
    <3> QED BY <2>1, <2>2, <3>1, IntervalInduction
  <2> QED BY <2>3 DEF S
<1> QED BY <1>1, <1>2, <1>3
-----------------------------------------------------------------------------
(***************************************************************************)
(* The cycle x |-> 5x + 1.  Without the remainder, its i-th element from x *)
(* is x + Orbit[i] * (4x + 1), where Orbit is the one from 0; modulo a     *)
(* power of 2 it visits every number.                                      *)
(***************************************************************************)

IsOrbit(f) == f \in [Nat -> Nat] /\ f[0] = 0 /\ \A i \in Nat : f[i + 1] = 5 * f[i] + 1
Orbit == CHOOSE f : IsOrbit(f)

\* The values that 5 * x + 1 takes from 0 satisfy their equation.
LEMMA OrbitIs == IsOrbit(Orbit)
<1> DEFINE g == [z \in Nat \X Nat |-> 5 * z[2] + 1]
<1>1. g \in [Nat \X Nat -> Nat] /\ 0 \in Nat
  OBVIOUS
<1>2. \A i, x \in Nat : g[<<i, x>>] = 5 * x + 1
  OBVIOUS
<1> HIDE DEF g
<1>3. PICK f : f \in [Nat -> Nat] /\ f[0] = 0 /\ \A i \in Nat : f[i + 1] = g[<<i, f[i]>>]
  <2>1. IsStep(Nat, 0, g)
    BY <1>1 DEF IsStep
  <2>2. \E f : Solves(f, Nat, 0, g)
    BY <2>1, Recursion
  <2> QED BY <2>2 DEF Solves
<1>4. IsOrbit(f)
  BY <1>2, <1>3 DEF IsOrbit
<1> QED BY <1>4 DEF Orbit

\* From the i-th element the orbit goes on as it does from any number.
LEMMA OrbitAdd ==
  ASSUME NEW i \in Nat, NEW j \in Nat
  PROVE  Orbit[i + j] = Orbit[i] + Orbit[j] * (4 * Orbit[i] + 1)
<1> DEFINE S == {k \in Nat : Orbit[i + k] = Orbit[i] + Orbit[k] * (4 * Orbit[i] + 1)}
<1>1. \A k \in Nat : Orbit[k] \in Nat /\ Orbit[k + 1] = 5 * Orbit[k] + 1
  BY OrbitIs DEF IsOrbit
<1>2. 0 \in S
  <2>1. Orbit[0] = 0
    BY OrbitIs DEF IsOrbit
  <2>2. Orbit[i] \in Nat /\ i + 0 = i
    BY <1>1
  <2>3. Orbit[i] = Orbit[i] + 0 * (4 * Orbit[i] + 1)
    BY <2>2
  <2> QED BY <2>1, <2>2, <2>3
<1>3. ASSUME NEW k \in 0 .. j - 1, k \in S PROVE k + 1 \in S
  <2>1. i + k \in Nat /\ k \in Nat /\ i + (k + 1) = (i + k) + 1 /\ k + 1 \in Nat
    OBVIOUS
  <2>2. Orbit[(i + k) + 1] = 5 * Orbit[i + k] + 1 /\ Orbit[k + 1] = 5 * Orbit[k] + 1
    BY <1>1, <2>1
  <2>3. Orbit[i + k] = Orbit[i] + Orbit[k] * (4 * Orbit[i] + 1)
    BY <1>3
  <2>4. \A x, y \in Nat : 5 * (x + y * (4 * x + 1)) + 1 = x + (5 * y + 1) * (4 * x + 1)
    OBVIOUS
  <2>5. 5 * (Orbit[i] + Orbit[k] * (4 * Orbit[i] + 1)) + 1
          = Orbit[i] + (5 * Orbit[k] + 1) * (4 * Orbit[i] + 1)
    BY <1>1, <2>1, <2>4
  <2> QED BY <2>1, <2>2, <2>3, <2>5
<1> HIDE DEF S
<1>4. j \in S
  <2>1. 0 \in Nat /\ j \in 0 .. j
    OBVIOUS
  <2> QED BY <1>2, <1>3, <2>1, IntervalInduction
<1> QED BY <1>4 DEF S

\* From every x the cycle comes to every y modulo n within n steps, and
\* Orbit[n] is an odd multiple of n.
Full(n) ==
  /\ \A x, y \in Nat : \E i \in 0 .. n - 1, q \in Int :
       x + Orbit[i] * (4 * x + 1) = y + n * q
  /\ \E q \in Nat : Orbit[n] = n * (2 * q + 1)

\* In a table of one entry the cycle is full.
LEMMA FullOne == Full(1)
<1>1. Orbit[0] = 0 /\ Orbit[1] = 1
  <2>1. Orbit[0] = 0 /\ Orbit[0 + 1] = 5 * Orbit[0] + 1
    BY OrbitIs DEF IsOrbit
  <2> QED BY <2>1
<1>2. ASSUME NEW x \in Nat, NEW y \in Nat
      PROVE  \E i \in 0 .. 1 - 1, q \in Int : x + Orbit[i] * (4 * x + 1) = y + 1 * q
  <2>1. x - y \in Int /\ x = y + 1 * (x - y) /\ x + 0 * (4 * x + 1) = x /\ 0 \in 0 .. 1 - 1
    OBVIOUS
  <2>2. x + Orbit[0] * (4 * x + 1) = y + 1 * (x - y)
    BY <1>1, <2>1
  <2> QED BY <2>1, <2>2
<1>3. Orbit[1] = 1 * (2 * 0 + 1) /\ 0 \in Nat
  BY <1>1
<1> QED BY <1>2, <1>3 DEF Full

\* If the cycle is complete modulo n, it is modulo 2 * n: its second half is
\* the first one, n further on.
LEMMA FullDouble ==
  ASSUME NEW n \in Nat \ {0}, Full(n)
  PROVE  Full(2 * n)
<1>1. \A k \in Nat : Orbit[k] \in Nat
  BY OrbitIs DEF IsOrbit
<1>2. PICK a \in Nat : Orbit[n] = n * (2 * a + 1)
  BY DEF Full
<1>3. ASSUME NEW x \in Nat, NEW y \in Nat
      PROVE  \E i \in 0 .. 2 * n - 1, q \in Int :
               x + Orbit[i] * (4 * x + 1) = y + (2 * n) * q
  <2>1. PICK i \in 0 .. n - 1, q \in Int : x + Orbit[i] * (4 * x + 1) = y + n * q
    BY DEF Full
  <2>2. i \in Nat /\ i \in 0 .. 2 * n - 1 /\ i + n \in 0 .. 2 * n - 1 /\ Orbit[i] \in Nat
    BY <1>1, <2>1
  <2>3. PICK r \in Int : q = 2 * r \/ q = 2 * r + 1
    <3>1. q \div 2 \in Int /\ (q = 2 * (q \div 2) \/ q = 2 * (q \div 2) + 1)
      OBVIOUS
    <3> QED BY <3>1
  <2>4. CASE q = 2 * r
    <3>1. n * (2 * r) = (2 * n) * r
      OBVIOUS
    <3> QED BY <2>1, <2>2, <2>4, <3>1
  <2>5. CASE q = 2 * r + 1
    <3> DEFINE o == Orbit[i]
    <3>1. Orbit[i + n] = o + (n * (2 * a + 1)) * (4 * o + 1)
      BY <1>2, <2>2, OrbitAdd
    <3>2. o \in Nat
      BY <2>2
    <3> HIDE DEF o
    <3>3. \A u, v, w \in Nat : (2 * u + 1) * (4 * v + 1) * (4 * w + 1)
            = 2 * (u + (2 * u + 1) * (2 * v + 2 * w + 8 * (v * w))) + 1
      OBVIOUS
    <3>4. PICK c \in Nat : (2 * a + 1) * (4 * o + 1) * (4 * x + 1) = 2 * c + 1
      <4>1. a + (2 * a + 1) * (2 * o + 2 * x + 8 * (o * x)) \in Nat
        BY <3>2
      <4>2. (2 * a + 1) * (4 * o + 1) * (4 * x + 1)
            = 2 * (a + (2 * a + 1) * (2 * o + 2 * x + 8 * (o * x))) + 1
        BY <3>2, <3>3
      <4> QED BY <4>1, <4>2
    <3>5. (o + (n * (2 * a + 1)) * (4 * o + 1)) * (4 * x + 1)
            = o * (4 * x + 1) + n * ((2 * a + 1) * (4 * o + 1) * (4 * x + 1))
      BY <3>2
    <3>6. x + (o + (n * (2 * a + 1)) * (4 * o + 1)) * (4 * x + 1)
            = (x + o * (4 * x + 1)) + n * (2 * c + 1)
      <4>1. x \in Int /\ o * (4 * x + 1) \in Int /\ n * (2 * c + 1) \in Int
        BY <3>2
      <4> QED BY <3>4, <3>5, <4>1
    <3>7. x + o * (4 * x + 1) = y + n * (2 * r + 1)
      BY <2>1, <2>5 DEF o
    <3>8. (y + n * (2 * r + 1)) + n * (2 * c + 1) = y + (2 * n) * (r + c + 1)
      OBVIOUS
    <3>9. r + c + 1 \in Int /\ x + Orbit[i + n] * (4 * x + 1) = y + (2 * n) * (r + c + 1)
      BY <3>1, <3>6, <3>7, <3>8
    <3> QED BY <2>2, <3>9
  <2> QED BY <2>3, <2>4, <2>5
<1>4. \E q \in Nat : Orbit[2 * n] = (2 * n) * (2 * q + 1)
  <2>1. Orbit[n + n] = Orbit[n] + Orbit[n] * (4 * Orbit[n] + 1)
    BY OrbitAdd
  <2>2. \A u \in Nat : u + u * (4 * u + 1) = 2 * u * (2 * u + 1)
    OBVIOUS
  <2>3. Orbit[n] \in Nat /\ n + n = 2 * n
    BY <1>1
  <2> DEFINE u == Orbit[n]
  <2>4. Orbit[2 * n] = 2 * u * (2 * u + 1)
    BY <2>1, <2>2, <2>3
  <2>5. u = n * (2 * a + 1) /\ u \in Nat
    BY <1>2, <2>3
  <2> HIDE DEF u
  <2>6. 2 * u * (2 * u + 1) = (2 * n) * ((2 * a + 1) * (2 * u + 1))
    BY <2>5
  <2>7. (2 * a + 1) * (2 * u + 1) = 2 * (a + u + 2 * (a * u)) + 1 /\ a + u + 2 * (a * u) \in Nat
    BY <2>5
  <2> QED BY <2>4, <2>6, <2>7
<1> QED BY <1>3, <1>4 DEF Full

\* It is complete modulo every power of 2.
LEMMA FullTwoTo == \A e \in Nat : Full(TwoTo[e])
<1> SUFFICES ASSUME NEW e \in Nat PROVE Full(TwoTo[e])
  OBVIOUS
<1> DEFINE S == {i \in Nat : Full(TwoTo[i])}
<1>1. 0 \in S
  BY FullOne, TwoToFacts
<1>2. ASSUME NEW i \in 0 .. e - 1, i \in S PROVE i + 1 \in S
  <2>1. i \in Nat /\ i + 1 \in Nat /\ TwoTo[i] \in Nat \ {0} /\ TwoTo[i + 1] = 2 * TwoTo[i]
    BY TwoToFacts
  <2>2. Full(TwoTo[i])
    BY <1>2
  <2>3. Full(2 * TwoTo[i])
    BY <2>1, <2>2, FullDouble
  <2> QED BY <2>1, <2>3
<1> HIDE DEF S
<1>3. e \in S
  <2>1. 0 \in Nat /\ e \in 0 .. e
    OBVIOUS
  <2> QED BY <1>1, <1>2, <2>1, IntervalInduction
<1> QED BY <1>3 DEF S
-----------------------------------------------------------------------------
(* The entries that a search looks at.                                     *)

ProbeState(n) == [index : 0 .. n - 1, perturb : Nat]

\* A step of a search stays in the table.
LEMMA NextProbeType ==
  ASSUME NEW n \in Nat \ {0}, NEW q \in ProbeState(n)
  PROVE  /\ NextProbe(q, n) \in ProbeState(n)
         /\ NextProbe(q, n).perturb = q.perturb \div 32
         /\ NextProbe(q, n).index = (5 * q.index + (q.perturb \div 32) + 1) % n
<1>1. q.index \in Nat /\ q.perturb \in Nat
  BY DEF ProbeState
<1>2. q.perturb \div 32 \in Nat
  BY <1>1
<1>3. 5 * q.index + (q.perturb \div 32) + 1 \in Nat
  BY <1>1, <1>2
<1>4. \A z \in Nat : z % n \in 0 .. n - 1
  OBVIOUS
<1> QED BY <1>2, <1>3, <1>4 DEF ProbeState, NextProbe

\* The probes of a key satisfy their equation.
LEMMA ProbeIs ==
  ASSUME NEW n \in Nat \ {0}, NEW k \in Key
  PROVE  Probe(k, n) = [i \in 0 .. Shifts + n - 1 |->
           IF i = 0 THEN [index |-> Hash[k] % n, perturb |-> Hash[k]]
           ELSE NextProbe(Probe(k, n)[i - 1], n)]
<1> DEFINE b == Shifts + n - 1
           a == [index |-> Hash[k] % n, perturb |-> Hash[k]]
           W == ProbeState(n)
           g == [z \in Nat \X W |-> NextProbe(z[2], n)]
<1>1. b \in Nat /\ Hash[k] \in Nat
  BY HashAssumption
<1>2. a \in W
  <2>1. \A z \in Nat : z % n \in 0 .. n - 1
    OBVIOUS
  <2> QED BY <1>1, <2>1 DEF ProbeState
<1>3. g \in [Nat \X W -> W] /\ \A i \in Nat, x \in W : g[<<i, x>>] = NextProbe(x, n)
  BY NextProbeType
<1> HIDE DEF g, W, a, b
<1>4. PICK f : f \in [0 .. b -> W] /\ f = [i \in 0 .. b |-> IF i = 0 THEN a ELSE g[<<i - 1, f[i - 1]>>]]
  <2>1. IsStep(W, a, g)
    BY <1>2, <1>3 DEF IsStep
  <2>2. \E f : SolvesUpTo(f, b, W, a, g)
    BY <1>1, <2>1, RecursionOver
  <2> QED BY <2>2 DEF SolvesUpTo
<1>5. ASSUME NEW i \in 0 .. b PROVE f[i] = IF i = 0 THEN a ELSE NextProbe(f[i - 1], n)
  <2>1. f[i] = IF i = 0 THEN a ELSE g[<<i - 1, f[i - 1]>>]
    BY <1>4
  <2>2. CASE i = 0
    BY <2>1, <2>2
  <2>3. CASE i # 0
    <3>1. i - 1 \in 0 .. b /\ i - 1 \in Nat
      BY <1>1, <2>3
    <3>2. f[i - 1] \in W
      BY <1>4, <3>1
    <3>3. g[<<i - 1, f[i - 1]>>] = NextProbe(f[i - 1], n)
      BY <1>3, <3>1, <3>2
    <3> QED BY <2>1, <2>3, <3>3
  <2> QED BY <2>2, <2>3
<1>6. f = [i \in 0 .. b |-> IF i = 0 THEN a ELSE NextProbe(f[i - 1], n)]
  BY <1>4, <1>5
<1> QED BY <1>6 DEF Probe, a, b

\* The first steps, and those after them.
LEMMA ProbeFacts ==
  ASSUME NEW n \in Nat \ {0}, NEW k \in Key
  PROVE  /\ DOMAIN Probe(k, n) = 0 .. Shifts + n - 1
         /\ Probe(k, n)[0] = [index |-> Hash[k] % n, perturb |-> Hash[k]]
         /\ \A i \in 0 .. Shifts + n - 1 : Probe(k, n)[i] \in ProbeState(n)
         /\ \A i \in 0 .. Shifts + n - 2 : Probe(k, n)[i + 1] = NextProbe(Probe(k, n)[i], n)
<1> DEFINE p == Probe(k, n)
           b == Shifts + n - 1
           a == [index |-> Hash[k] % n, perturb |-> Hash[k]]
<1>1. p = [i \in 0 .. b |-> IF i = 0 THEN a ELSE NextProbe(p[i - 1], n)]
  BY ProbeIs
<1>2. b \in Nat /\ Hash[k] \in Nat /\ b - 1 = Shifts + n - 2
  BY HashAssumption
<1>3. a \in ProbeState(n)
  <2>1. \A z \in Nat : z % n \in 0 .. n - 1
    OBVIOUS
  <2> QED BY <1>2, <2>1 DEF ProbeState
<1> HIDE DEF p, a, b
<1>4. p[0] = a
  BY <1>1, <1>2
<1>5. ASSUME NEW i \in 0 .. b - 1 PROVE p[i + 1] = NextProbe(p[i], n)
  <2>1. i + 1 \in 0 .. b /\ i + 1 # 0 /\ (i + 1) - 1 = i
    BY <1>2
  <2>2. p[i + 1] = IF i + 1 = 0 THEN a ELSE NextProbe(p[(i + 1) - 1], n)
    BY <1>1, <2>1
  <2> QED BY <2>1, <2>2
<1>6. \A i \in 0 .. b : p[i] \in ProbeState(n)
  BY <1>2, <1>3, <1>4, <1>5, NextProbeType, RecursionType
<1>7. DOMAIN p = 0 .. b
  BY <1>1
<1> QED BY <1>2, <1>4, <1>5, <1>6, <1>7 DEF p, a, b

\* After Shifts steps nothing is left of the hash.
LEMMA PerturbGone ==
  ASSUME NEW n \in Nat \ {0}, NEW k \in Key
  PROVE  \A j \in 0 .. n - 1 : Probe(k, n)[Shifts + j].perturb = 0
<1> DEFINE p == Probe(k, n)
           S == {i \in Nat : p[i].perturb < TwoTo[5 * (Shifts - i)]}
           Z == {j \in Nat : p[Shifts + j].perturb = 0}
<1>1. /\ Shifts \in Nat /\ p[0].perturb = Hash[k] /\ Hash[k] < TwoTo[5 * Shifts]
      /\ \A i \in 0 .. Shifts + n - 1 : p[i] \in ProbeState(n)
      /\ \A i \in 0 .. Shifts + n - 2 : p[i + 1] = NextProbe(p[i], n)
  <2>1. Shifts \in Nat /\ Hash[k] < TwoTo[5 * Shifts]
    BY HashAssumption
  <2>2. /\ p[0] = [index |-> Hash[k] % n, perturb |-> Hash[k]]
        /\ \A i \in 0 .. Shifts + n - 1 : p[i] \in ProbeState(n)
        /\ \A i \in 0 .. Shifts + n - 2 : p[i + 1] = NextProbe(p[i], n)
    BY ProbeFacts
  <2> QED BY <2>1, <2>2
<1> HIDE DEF p
<1>2. \A i \in 0 .. Shifts + n - 2 : p[i + 1].perturb = p[i].perturb \div 32 /\ p[i].perturb \in Nat
  <2> SUFFICES ASSUME NEW i \in 0 .. Shifts + n - 2
               PROVE  p[i + 1].perturb = p[i].perturb \div 32 /\ p[i].perturb \in Nat
    OBVIOUS
  <2>1. i \in 0 .. Shifts + n - 1
    BY <1>1
  <2>2. p[i] \in ProbeState(n)
    BY <1>1, <2>1
  <2>3. p[i].perturb \in Nat
    BY <2>2 DEF ProbeState
  <2>4. p[i + 1] = NextProbe(p[i], n)
    BY <1>1
  <2>5. NextProbe(p[i], n).perturb = p[i].perturb \div 32
    BY <2>2, NextProbeType
  <2> QED BY <2>3, <2>4, <2>5
<1>3. \A e \in Nat : TwoTo[5 * (e + 1)] = 32 * TwoTo[5 * e] /\ TwoTo[5 * e] \in Nat
  <2> SUFFICES ASSUME NEW e \in Nat
               PROVE  TwoTo[5 * (e + 1)] = 32 * TwoTo[5 * e] /\ TwoTo[5 * e] \in Nat
    OBVIOUS
  <2> DEFINE f == 5 * e
  <2>1. f \in Nat /\ 5 * (e + 1) = f + 5
    OBVIOUS
  <2> HIDE DEF f
  <2>2. /\ TwoTo[f] \in Nat
        /\ TwoTo[f + 1] = 2 * TwoTo[f]
        /\ TwoTo[(f + 1) + 1] = 2 * TwoTo[f + 1]
        /\ TwoTo[(f + 2) + 1] = 2 * TwoTo[f + 2]
        /\ TwoTo[(f + 3) + 1] = 2 * TwoTo[f + 3]
        /\ TwoTo[(f + 4) + 1] = 2 * TwoTo[f + 4]
    <3>1. f + 1 \in Nat /\ f + 2 \in Nat /\ f + 3 \in Nat /\ f + 4 \in Nat
      BY <2>1
    <3> QED BY <2>1, <3>1, TwoToFacts
  <2>3. (f + 1) + 1 = f + 2 /\ (f + 2) + 1 = f + 3 /\ (f + 3) + 1 = f + 4 /\ (f + 4) + 1 = f + 5
    BY <2>1
  <2>4. TwoTo[f + 5] = 32 * TwoTo[f]
    BY <2>2, <2>3
  <2> QED BY <2>1, <2>2, <2>4 DEF f
<1>4. Shifts \in S
  <2>1. 0 \in S
    BY <1>1
  <2>2. ASSUME NEW i \in 0 .. Shifts - 1, i \in S PROVE i + 1 \in S
    <3> DEFINE e == Shifts - (i + 1)
               x == p[i].perturb
               t == TwoTo[5 * e]
    <3>1. e \in Nat /\ e + 1 = Shifts - i /\ i \in 0 .. Shifts + n - 2 /\ i + 1 \in Nat
      BY <1>1
    <3>2. x \in Nat /\ p[i + 1].perturb = x \div 32 /\ x < TwoTo[5 * (e + 1)]
      BY <1>2, <2>2, <3>1
    <3>3. t \in Nat /\ x < 32 * t
      BY <1>3, <3>1, <3>2
    <3> HIDE DEF x, t
    <3>4. x \div 32 < t
      BY <3>2, <3>3
    <3> QED BY <3>1, <3>2, <3>4 DEF t
  <2> HIDE DEF S
  <2>3. 0 \in Nat /\ Shifts \in 0 .. Shifts
    BY <1>1
  <2> QED BY <1>1, <2>1, <2>2, <2>3, IntervalInduction
<1>5. 0 \in Z
  <2>1. p[Shifts].perturb \in Nat
    <3>1. Shifts \in 0 .. Shifts + n - 1
      BY <1>1
    <3> QED BY <1>1, <3>1 DEF ProbeState
  <2>2. p[Shifts].perturb < TwoTo[5 * (Shifts - Shifts)]
    BY <1>4
  <2>3. 5 * (Shifts - Shifts) = 0 /\ Shifts + 0 = Shifts /\ TwoTo[0] = 1
    BY <1>1, TwoToFacts
  <2> QED BY <2>1, <2>2, <2>3
<1>6. ASSUME NEW j \in 0 .. n - 2, j \in Z PROVE j + 1 \in Z
  <2>1. Shifts + j \in 0 .. Shifts + n - 2 /\ (Shifts + j) + 1 = Shifts + (j + 1) /\ j + 1 \in Nat
    BY <1>1
  <2>2. p[Shifts + (j + 1)].perturb = p[Shifts + j].perturb \div 32
    BY <1>2, <2>1
  <2>3. p[Shifts + j].perturb = 0 /\ 0 \div 32 = 0
    BY <1>6
  <2> QED BY <2>1, <2>2, <2>3
<1> HIDE DEF Z
<1>7. \A j \in 0 .. n - 1 : j \in Z
  <2>1. 0 \in Nat /\ n - 1 \in Nat /\ (n - 1) - 1 = n - 2
    OBVIOUS
  <2> QED BY <1>5, <1>6, <2>1, IntervalInduction
<1> QED BY <1>7 DEF Z, p

\* From then on the entries are those of the cycle.
LEMMA ProbeCycles ==
  ASSUME NEW n \in Nat \ {0}, NEW k \in Key
  PROVE  LET p == Probe(k, n)
             x == p[Shifts].index
         IN  /\ x \in 0 .. n - 1
             /\ \A j \in 0 .. n - 1 : \E q \in Int :
                  x + Orbit[j] * (4 * x + 1) = p[Shifts + j].index + n * q
<1> DEFINE p == Probe(k, n)
           x == p[Shifts].index
           S == {j \in Nat : \E q \in Int :
                  x + Orbit[j] * (4 * x + 1) = p[Shifts + j].index + n * q}
<1>1. Shifts \in Nat
  BY HashAssumption
<1>2. /\ \A i \in 0 .. Shifts + n - 1 : p[i] \in ProbeState(n)
      /\ \A i \in 0 .. Shifts + n - 2 : p[i + 1] = NextProbe(p[i], n)
      /\ \A j \in 0 .. n - 1 : p[Shifts + j].perturb = 0
  BY ProbeFacts, PerturbGone
<1> HIDE DEF p
<1>3. \A j \in 0 .. n - 1 : p[Shifts + j].index \in 0 .. n - 1
  <2> SUFFICES ASSUME NEW j \in 0 .. n - 1 PROVE p[Shifts + j].index \in 0 .. n - 1
    OBVIOUS
  <2>1. Shifts + j \in 0 .. Shifts + n - 1
    BY <1>1
  <2> QED BY <1>2, <2>1 DEF ProbeState
<1>4. x \in 0 .. n - 1
  <2>1. Shifts + 0 = Shifts /\ 0 \in 0 .. n - 1
    BY <1>1
  <2> QED BY <1>3, <2>1
<1>5. 0 \in S
  <2>1. Orbit[0] = 0
    BY OrbitIs DEF IsOrbit
  <2>2. Shifts + 0 = Shifts /\ x \in Nat
    BY <1>1, <1>4
  <2> HIDE DEF x
  <2>3. x + 0 * (4 * x + 1) = x + n * 0
    BY <2>2
  <2>4. x + Orbit[0] * (4 * x + 1) = p[Shifts + 0].index + n * 0
    BY <2>1, <2>2, <2>3 DEF x
  <2>5. \E q \in Int : x + Orbit[0] * (4 * x + 1) = p[Shifts + 0].index + n * q
    <3>1. 0 \in Int
      OBVIOUS
    <3> QED BY <2>4, <3>1, Zenon
  <2> QED BY <2>5
<1>6. ASSUME NEW j \in 0 .. n - 2, j \in S PROVE j + 1 \in S
  <2>1. /\ Shifts + j \in 0 .. Shifts + n - 2 /\ Shifts + j \in 0 .. Shifts + n - 1
        /\ (Shifts + j) + 1 = Shifts + (j + 1)
        /\ j + 1 \in Nat /\ j \in 0 .. n - 1 /\ j \in Nat
    BY <1>1
  <2> DEFINE y == p[Shifts + j].index
             z == p[Shifts + (j + 1)].index
             o == Orbit[j]
  <2>2. y \in Nat
    BY <1>3, <2>1
  <2>3. z = (5 * y + (0 \div 32) + 1) % n
    <3>1. p[Shifts + j] \in ProbeState(n) /\ p[Shifts + j].perturb = 0
          /\ p[Shifts + (j + 1)] = NextProbe(p[Shifts + j], n)
      BY <1>2, <2>1
    <3> QED BY <3>1, NextProbeType
  <2>4. o \in Nat /\ Orbit[j + 1] = 5 * o + 1
    BY <2>1, OrbitIs DEF IsOrbit
  <2>5. PICK q \in Int : x + o * (4 * x + 1) = y + n * q
    BY <1>6
  <2>6. x \in Nat
    BY <1>4
  <2> HIDE DEF x, y, z, o
  <2>7. PICK w \in Int : 5 * y + 1 = n * w + z
    <3>1. 5 * y + (0 \div 32) + 1 = 5 * y + 1 /\ 5 * y + 1 \in Nat
      BY <2>2
    <3>2. \A u \in Nat : u = n * (u \div n) + (u % n) /\ u \div n \in Int
      OBVIOUS
    <3> QED BY <2>3, <3>1, <3>2
  <2>8. x + (5 * o + 1) * (4 * x + 1) = 5 * (x + o * (4 * x + 1)) + 1
    BY <2>4, <2>6
  <2>9. 5 * (y + n * q) + 1 = (5 * y + 1) + n * (5 * q)
    BY <2>2
  <2>10. z \in Int
    <3>1. j + 1 \in 0 .. n - 1
      BY <2>1
    <3> QED BY <1>3, <3>1 DEF z
  <2>11. (n * w + z) + n * (5 * q) = z + n * (w + 5 * q)
    BY <2>10
  <2>12. w + 5 * q \in Int /\ x + Orbit[j + 1] * (4 * x + 1) = z + n * (w + 5 * q)
    BY <2>4, <2>5, <2>7, <2>8, <2>9, <2>11
  <2> QED BY <2>1, <2>12 DEF z, x
<1> HIDE DEF S
<1>7. \A j \in 0 .. n - 1 : j \in S
  <2>1. 0 \in Nat /\ n - 1 \in Nat /\ (n - 1) - 1 = n - 2
    OBVIOUS
  <2> QED BY <1>5, <1>6, <2>1, IntervalInduction
<1> QED BY <1>4, <1>7 DEF S, p

\* If the cycle of 5 * x + 1 is full in a table, a search visits every entry.
LEMMA ProbeCovers ==
  ASSUME NEW n \in Nat \ {0}, Full(n), NEW k \in Key, NEW y \in 0 .. n - 1
  PROVE  \E i \in 0 .. Shifts + n - 1 : Probe(k, n)[i].index = y
<1> DEFINE p == Probe(k, n)
           x == p[Shifts].index
<1>1. /\ x \in 0 .. n - 1
      /\ \A j \in 0 .. n - 1 : \E q \in Int :
           x + Orbit[j] * (4 * x + 1) = p[Shifts + j].index + n * q
  BY ProbeCycles
<1>2. Shifts \in Nat /\ \A i \in 0 .. Shifts + n - 1 : p[i] \in ProbeState(n)
  BY HashAssumption, ProbeFacts
<1> HIDE DEF p
<1>3. PICK j \in 0 .. n - 1, q \in Int : x + Orbit[j] * (4 * x + 1) = y + n * q
  <2>1. x \in Nat /\ y \in Nat
    BY <1>1
  <2> HIDE DEF x
  <2> QED BY <2>1 DEF Full
<1>4. PICK r \in Int : x + Orbit[j] * (4 * x + 1) = p[Shifts + j].index + n * r
  BY <1>1
<1>5. Shifts + j \in 0 .. Shifts + n - 1
  BY <1>2
<1> DEFINE z == p[Shifts + j].index
<1>6. z \in 0 .. n - 1
  BY <1>2, <1>5 DEF ProbeState
<1>7. y + n * q = z + n * r
  BY <1>3, <1>4
<1> HIDE DEF z
<1>8. y = z
  <2>1. y - z = n * (r - q)
    BY <1>6, <1>7
  <2>2. y - z < n /\ z - y < n
    BY <1>6
  <2> DEFINE d == r - q
  <2>3. d \in Int /\ n * d < n /\ -n < n * d
    BY <1>6, <2>1, <2>2
  <2> HIDE DEF d
  <2>4. d = 0
    <3>1. d >= 1 => n * d >= n
      BY <2>3
    <3>2. d <= -1 => n * d <= -n
      BY <2>3
    <3> QED BY <2>3, <3>1, <3>2
  <2> QED BY <1>6, <2>1, <2>4 DEF d
<1> QED BY <1>5, <1>8 DEF z, p

\* A search visits every entry of a table whose size is a power of 2, whatever
\* the hash of the key: index * 5 + perturb + 1 does not get into a cycle that
\* leaves one out.
THEOREM SearchCoversTable ==
  ASSUME NEW e \in Nat, NEW k \in Key, NEW y \in 0 .. TwoTo[e] - 1
  PROVE  \E i \in 0 .. Shifts + TwoTo[e] - 1 : Probe(k, TwoTo[e])[i].index = y
<1> DEFINE n == TwoTo[e]
<1>1. n \in Nat \ {0} /\ Full(n)
  <2>1. n \in Nat /\ n > e
    BY TwoToFacts
  <2>2. Full(n)
    BY FullTwoTo
  <2> HIDE DEF n
  <2> QED BY <2>1, <2>2
<1> HIDE DEF n
<1>2. y \in 0 .. n - 1
  BY DEF n
<1>3. \E i \in 0 .. Shifts + n - 1 : Probe(k, n)[i].index = y
  BY <1>1, <1>2, ProbeCovers
<1> QED BY <1>3 DEF n
-----------------------------------------------------------------------------
(* The sizes of a table.                                                   *)

\* The power of a sum.
LEMMA TwoToAdd ==
  ASSUME NEW i \in Nat, NEW j \in Nat
  PROVE  TwoTo[i + j] = TwoTo[i] * TwoTo[j]
<1> DEFINE S == {k \in Nat : TwoTo[i + k] = TwoTo[i] * TwoTo[k]}
<1>1. 0 \in S
  <2>1. TwoTo[0] = 1 /\ TwoTo[i] \in Nat /\ i + 0 = i
    BY TwoToFacts
  <2> QED BY <2>1
<1>2. ASSUME NEW k \in 0 .. j - 1, k \in S PROVE k + 1 \in S
  <2>1. k \in Nat /\ k + 1 \in Nat /\ i + k \in Nat /\ i + (k + 1) = (i + k) + 1
    OBVIOUS
  <2>2. /\ TwoTo[(i + k) + 1] = 2 * TwoTo[i + k] /\ TwoTo[k + 1] = 2 * TwoTo[k]
        /\ TwoTo[i] \in Nat /\ TwoTo[k] \in Nat
    BY <2>1, TwoToFacts
  <2>3. TwoTo[i + k] = TwoTo[i] * TwoTo[k]
    BY <1>2
  <2>4. \A u, v \in Nat : 2 * (u * v) = u * (2 * v)
    OBVIOUS
  <2>5. 2 * (TwoTo[i] * TwoTo[k]) = TwoTo[i] * (2 * TwoTo[k])
    BY <2>2, <2>4
  <2> QED BY <2>1, <2>2, <2>3, <2>5
<1> HIDE DEF S
<1>3. j \in S
  <2>1. 0 \in Nat /\ j \in 0 .. j
    OBVIOUS
  <2> QED BY <1>1, <1>2, <2>1, IntervalInduction
<1> QED BY <1>3 DEF S

\* The size given to hashmap_new is at least 4, and one of Sizes.
LEMMA InitSizeFacts == InitSize \in Nat /\ InitSize >= 4 /\ InitSize \in Sizes
<1>1. PICK e \in 2 .. 59 : InitSize = TwoTo[e]
  BY SizeAssumption
<1>2. InitSize \in Nat
  BY <1>1, TwoToFacts
<1>3. InitSize >= 4
  <2>1. e - 2 \in Nat /\ 2 \in Nat /\ (e - 2) + 2 = e
    BY <1>1
  <2>2. TwoTo[(e - 2) + 2] = TwoTo[e - 2] * TwoTo[2]
    BY <2>1, TwoToAdd
  <2>3. TwoTo[0 + 1] = 2 * TwoTo[0] /\ TwoTo[1 + 1] = 2 * TwoTo[1] /\ TwoTo[0] = 1
    <3>1. 0 \in Nat /\ 1 \in Nat
      OBVIOUS
    <3> QED BY <3>1, TwoToFacts
  <2>4. TwoTo[e - 2] \in Nat /\ TwoTo[e - 2] > e - 2
    BY <2>1, TwoToFacts
  <2>5. TwoTo[2] = 4
    BY <2>3
  <2> DEFINE z == TwoTo[e - 2]
  <2>6. z \in Nat /\ z >= 1 /\ InitSize = z * 4
    BY <1>1, <2>1, <2>2, <2>4, <2>5
  <2> HIDE DEF z
  <2> QED BY <2>6
<1>4. InitSize \in Sizes
  <2>1. 0 \in 0 .. MaxUse /\ MaxUse \in Nat /\ TwoTo[0] = 1
    BY MaxUseAssumption, TwoToFacts
  <2>2. InitSize = InitSize * TwoTo[0] /\ InitSize <= InitSize + 3 * MaxUse
    BY <1>2, <2>1
  <2> QED BY <2>1, <2>2 DEF Sizes
<1> QED BY <1>2, <1>3, <1>4

\* Every size is a power of 2, so that a search visits every entry.
LEMMA SizeFacts ==
  ASSUME NEW n \in Sizes
  PROVE  n \in Nat \ {0} /\ n >= 4 /\ Full(n)
<1>1. PICK f \in 0 .. MaxUse : n = InitSize * TwoTo[f]
  BY DEF Sizes
<1>2. PICK e \in 2 .. 59 : InitSize = TwoTo[e]
  BY SizeAssumption
<1>3. f \in Nat /\ e \in Nat /\ e + f \in Nat
  BY <1>1, MaxUseAssumption
<1>4. n = TwoTo[e + f]
  BY <1>1, <1>2, <1>3, TwoToAdd
<1>5. Full(n)
  BY <1>3, <1>4, FullTwoTo
<1>6. n \in Nat /\ n >= 4
  <2> DEFINE z == TwoTo[f]
             y == InitSize
  <2>1. z \in Nat /\ z >= 1 /\ y \in Nat /\ y >= 4 /\ n = y * z
    <3>1. z \in Nat /\ z > f
      BY <1>3, TwoToFacts
    <3> QED BY <1>1, <1>3, <3>1, InitSizeFacts
  <2> HIDE DEF z, y
  <2>2. y * z >= y
    BY <2>1
  <2> QED BY <2>1, <2>2
<1> QED BY <1>5, <1>6

\* A table that is loaded may have twice its size.
LEMMA SizeDoubles ==
  ASSUME NEW n \in Sizes, NEW u \in Nat, u <= MaxUse, u * 3 >= n * 2
  PROVE  2 * n \in Sizes
<1>1. PICK f \in 0 .. MaxUse : n = InitSize * TwoTo[f]
  BY DEF Sizes
<1>2. f \in Nat /\ MaxUse \in Nat /\ n \in Nat
  BY <1>1, MaxUseAssumption, SizeFacts
<1> DEFINE z == TwoTo[f]
           y == InitSize
<1>3. z \in Nat /\ z > f /\ TwoTo[f + 1] = 2 * z /\ y \in Nat /\ y >= 4 /\ n = y * z
  BY <1>1, <1>2, TwoToFacts, InitSizeFacts
<1> HIDE DEF z, y
<1>4. n >= 4 * z
  BY <1>3
<1>5. f + 1 \in 0 .. MaxUse
  BY <1>2, <1>3, <1>4
<1>6. 2 * n = y * (2 * z)
  BY <1>3
<1>7. 2 * n <= y + 3 * MaxUse
  BY <1>2, <1>3
<1>8. 2 * n = InitSize * TwoTo[f + 1] /\ 2 * n <= InitSize + 3 * MaxUse
  BY <1>3, <1>6, <1>7 DEF y
<1> QED BY <1>5, <1>8 DEF Sizes
-----------------------------------------------------------------------------
(* Searches.                                                               *)

\* The entries that a search looks at: they are in the table, and it looks
\* at every one of it.
LEMMA ProbesFacts ==
  ASSUME NEW n \in Sizes, NEW k \in Key
  PROVE  /\ Probes[n][k] \in [0 .. Shifts + n - 1 -> 0 .. n - 1]
         /\ \A y \in 0 .. n - 1 : \E i \in 0 .. Shifts + n - 1 : Probes[n][k][i] = y
<1> DEFINE p == Probe(k, n)
<1>1. n \in Nat \ {0} /\ Full(n)
  BY SizeFacts
<1>2. /\ DOMAIN p = 0 .. Shifts + n - 1
      /\ \A i \in 0 .. Shifts + n - 1 : p[i] \in ProbeState(n)
      /\ \A y \in 0 .. n - 1 : \E i \in 0 .. Shifts + n - 1 : p[i].index = y
  BY <1>1, ProbeFacts, ProbeCovers
<1>3. Probes[n][k] = [i \in DOMAIN p |-> p[i].index]
  BY DEF Probes
<1> HIDE DEF p
<1>4. \A i \in 0 .. Shifts + n - 1 : p[i].index \in 0 .. n - 1
  BY <1>2 DEF ProbeState
<1> QED BY <1>2, <1>3, <1>4

\* f is the first entry on the way of k that is one of stops.
First(n, k, stops, f) ==
  \E i \in 0 .. Shifts + n - 1 :
    /\ f = Probes[n][k][i] /\ f \in stops
    /\ \A j \in 0 .. i - 1 : Probes[n][k][j] \notin stops

\* There is no more than one.
LEMMA FirstUnique ==
  ASSUME NEW n \in Nat, NEW k, NEW stops, NEW f, NEW g, First(n, k, stops, f), First(n, k, stops, g)
  PROVE  f = g
<1>1. PICK i \in 0 .. Shifts + n - 1 : /\ f = Probes[n][k][i] /\ f \in stops
                                         /\ \A j \in 0 .. i - 1 : Probes[n][k][j] \notin stops
  BY DEF First
<1>2. PICK h \in 0 .. Shifts + n - 1 : /\ g = Probes[n][k][h] /\ g \in stops
                                         /\ \A j \in 0 .. h - 1 : Probes[n][k][j] \notin stops
  BY DEF First
<1>0. i \in Nat /\ h \in Nat
  <2>1. Shifts + n - 1 \in Int
    BY HashAssumption
  <2> QED BY <1>1, <1>2, <2>1
<1>3. ~(i < h) /\ ~(h < i)
  <2>1. i < h => i \in 0 .. h - 1
    BY <1>0
  <2>2. h < i => h \in 0 .. i - 1
    BY <1>0
  <2> QED BY <1>1, <1>2, <2>1, <2>2
<1>4. i = h
  BY <1>0, <1>3
<1> QED BY <1>1, <1>2, <1>4

\* A search stops at the first one, and if there is one in the table, it
\* does stop.
LEMMA FindFacts ==
  ASSUME NEW m, m.size \in Sizes, NEW k \in Key, NEW stops
  PROVE  /\ Find(m, k, stops) # Endless =>
              /\ First(m.size, k, stops, Find(m, k, stops))
              /\ Find(m, k, stops) \in stops \intersect (0 .. m.size - 1)
         /\ Find(m, k, stops) = Endless => stops \intersect (0 .. m.size - 1) = {}
<1> DEFINE n == m.size
           p == Probes[n][k]
           S == {i \in DOMAIN p : p[i] \in stops}
<1>1. n \in Nat \ {0} /\ Shifts \in Nat
  BY SizeFacts, HashAssumption
<1>2. /\ p \in [0 .. Shifts + n - 1 -> 0 .. n - 1]
      /\ \A y \in 0 .. n - 1 : \E i \in 0 .. Shifts + n - 1 : p[i] = y
  BY ProbesFacts
<1>3. Find(m, k, stops) = IF S = {} THEN Endless ELSE p[Min(S)]
  BY DEF Find
<1>4. First(n, k, stops, Find(m, k, stops)) <=>
        \E i \in 0 .. Shifts + n - 1 :
          /\ Find(m, k, stops) = p[i] /\ Find(m, k, stops) \in stops
          /\ \A j \in 0 .. i - 1 : p[j] \notin stops
  BY DEF First
<1>5. CASE S = {}
  <2>1. stops \intersect (0 .. n - 1) = {}
    BY <1>2, <1>5
  <2> QED BY <1>3, <1>5, <2>1
<1>6. CASE S # {}
  <2> HIDE DEF p, n
  <2>1. S \in SUBSET Nat
    BY <1>1, <1>2
  <2>2. Min(S) \in S /\ \A i \in S : Min(S) <= i
    <3> HIDE DEF S
    <3>1. \E i \in S : \A j \in S : i <= j
      BY <1>6, <2>1, LeastNat
    <3> QED BY <3>1 DEF Min
  <2> DEFINE i == Min(S)
  <2> HIDE DEF i
  <2>3. i \in S /\ \A j \in S : i <= j
    BY <2>2 DEF i
  <2>4. i \in 0 .. Shifts + n - 1 /\ p[i] \in stops /\ p[i] \in 0 .. n - 1
    BY <1>2, <2>3
  <2>5. ASSUME NEW j \in 0 .. i - 1 PROVE p[j] \notin stops
    <3>1. j \in 0 .. Shifts + n - 1 /\ ~(i <= j)
      BY <1>1, <2>4
    <3> QED BY <1>2, <2>3, <3>1
  <2>6. Find(m, k, stops) = p[i]
    BY <1>3, <1>6 DEF i
  <2>7. p[i] # Endless
    BY <1>1, <2>4 DEF Endless
  <2> QED BY <1>4, <2>4, <2>5, <2>6, <2>7 DEF n
<1> QED BY <1>5, <1>6

\* Fewer stops, but not fewer than the one that was found.
LEMMA FindKeeps ==
  ASSUME NEW m, NEW w, m.size \in Sizes, w.size = m.size, NEW k \in Key,
         NEW S, NEW T \in SUBSET S, Find(m, k, S) # Endless, Find(m, k, S) \in T
  PROVE  Find(w, k, T) = Find(m, k, S)
<1> DEFINE f == Find(m, k, S)
           n == m.size
<1>1. First(n, k, S, f) /\ f \in T /\ f \in 0 .. n - 1
  BY FindFacts
<1>2. First(n, k, T, f)
  BY <1>1 DEF First
<1>3. Find(w, k, T) # Endless
  BY <1>1, FindFacts
<1>4. First(n, k, T, Find(w, k, T)) /\ n \in Nat
  BY <1>3, FindFacts, SizeFacts
<1> HIDE DEF f, n
<1>5. Find(w, k, T) = f
  BY <1>2, <1>4, FirstUnique
<1> QED BY <1>5 DEF f
-----------------------------------------------------------------------------
(* Tables.                                                                 *)

\* The fields of a table.
LEMMA TableType ==
  ASSUME NEW n \in Nat, NEW m \in Table(n)
  PROVE  /\ m.size = n /\ m.use \in Nat /\ m.entrys \in [0 .. n - 1 -> Entry]
         /\ m = [size |-> n, use |-> m.use, entrys |-> m.entrys]
BY DEF Table

\* The entries that hold k, by their index.
LEMMA HoldingIs ==
  ASSUME NEW n \in Nat, NEW m \in Table(n), NEW k
  PROVE  \A i : i \in Holding(m, k) <=> i \in 0 .. n - 1 /\ m.entrys[i].key = k
<1>1. m.entrys \in [0 .. n - 1 -> Entry]
  BY TableType
<1>2. DOMAIN m.entrys = 0 .. n - 1
  BY <1>1
<1> QED BY <1>2 DEF Holding

\* The entries that have a key, by their index.
LEMMA KeyedIs ==
  ASSUME NEW n \in Nat, NEW m \in Table(n)
  PROVE  \A i : i \in Keyed(m) <=> i \in 0 .. n - 1 /\ m.entrys[i].key # NULL
<1>1. m.entrys \in [0 .. n - 1 -> Entry]
  BY TableType
<1>2. DOMAIN m.entrys = 0 .. n - 1
  BY <1>1
<1> QED BY <1>2 DEF Keyed

\* Both, and the free entries, with what an entry is.
LEMMA TableFacts ==
  ASSUME NEW n \in Nat, NEW m \in Table(n)
  PROVE  /\ m.size = n /\ m.use \in Nat
         /\ \A i \in 0 .. n - 1 : m.entrys[i].key \in Key \union {NULL} /\ m.entrys[i].isdel \in BOOLEAN
         /\ \A i : i \in Keyed(m) <=> i \in 0 .. n - 1 /\ m.entrys[i].key # NULL
         /\ \A i : i \in Free(m, TRUE) <=> /\ i \in 0 .. n - 1 /\ m.entrys[i].key = NULL
                                           /\ m.entrys[i].isdel = TRUE
         /\ \A i : i \in Free(m, FALSE) <=> /\ i \in 0 .. n - 1 /\ m.entrys[i].key = NULL
                                            /\ m.entrys[i].isdel = FALSE
<1>1. m.size = n /\ m.use \in Nat /\ m.entrys \in [0 .. n - 1 -> Entry]
  BY TableType
<1>2. DOMAIN m.entrys = 0 .. n - 1
  BY <1>1
<1>3. \A i \in 0 .. n - 1 : m.entrys[i].key \in Key \union {NULL} /\ m.entrys[i].isdel \in BOOLEAN
  BY <1>1 DEF Entry
<1>4. \A i : i \in Holding(m, NULL) <=> i \in 0 .. n - 1 /\ m.entrys[i].key = NULL
  BY HoldingIs
<1>5. \A i : i \in Keyed(m) <=> i \in 0 .. n - 1 /\ m.entrys[i].key # NULL
  BY KeyedIs
<1>6. \A i : i \in Free(m, TRUE) <=> /\ i \in 0 .. n - 1 /\ m.entrys[i].key = NULL
                                     /\ m.entrys[i].isdel = TRUE
  BY <1>4 DEF Free
<1>7. \A i : i \in Free(m, FALSE) <=> /\ i \in 0 .. n - 1 /\ m.entrys[i].key = NULL
                                      /\ m.entrys[i].isdel = FALSE
  BY <1>4 DEF Free
<1> QED BY <1>1, <1>3, <1>5, <1>6, <1>7

\* The keys of a table can be counted, and if they are fewer than its entries
\* one of these is free.
LEMMA KeyedFinite ==
  ASSUME NEW n \in Nat, NEW m \in Table(n)
  PROVE  /\ IsFiniteSet(Keyed(m)) /\ Cardinality(Keyed(m)) \in Nat
         /\ Cardinality(Keyed(m)) <= n
         /\ Cardinality(Keyed(m)) < n => Holding(m, NULL) # {}
<1>1. IsFiniteSet(0 .. n - 1) /\ Cardinality(0 .. n - 1) = n
  <2>1. 0 \in Int /\ n - 1 \in Int
    OBVIOUS
  <2>2. Cardinality(0 .. n - 1) = IF 0 <= n - 1 THEN (n - 1) - 0 + 1 ELSE 0
    BY <2>1, FS_Interval
  <2> QED BY <2>1, <2>2, FS_Interval
<1>2. Keyed(m) \subseteq 0 .. n - 1
  BY TableFacts
<1>3. IsFiniteSet(Keyed(m)) /\ Cardinality(Keyed(m)) <= n
  BY <1>1, <1>2, FS_Subset
<1>4. Cardinality(Keyed(m)) \in Nat
  BY <1>3, FS_CardinalityType
<1>5. ASSUME Cardinality(Keyed(m)) < n, Holding(m, NULL) = {} PROVE FALSE
  <2>0. /\ \A i : i \in Holding(m, NULL) <=> i \in 0 .. n - 1 /\ m.entrys[i].key = NULL
        /\ \A i : i \in Keyed(m) <=> i \in 0 .. n - 1 /\ m.entrys[i].key # NULL
    <3>1. \A i : i \in Holding(m, NULL) <=> i \in 0 .. n - 1 /\ m.entrys[i].key = NULL
      BY HoldingIs
    <3>2. \A i : i \in Keyed(m) <=> i \in 0 .. n - 1 /\ m.entrys[i].key # NULL
      BY TableFacts
    <3> QED BY <3>1, <3>2
  <2>1. Keyed(m) = 0 .. n - 1
    <3>1. \A i : i \in 0 .. n - 1 <=> i \in Keyed(m)
      BY <1>5, <2>0
    <3> QED BY <3>1
  <2> QED BY <1>1, <1>5, <2>1
<1> QED BY <1>3, <1>4, <1>5

\* hashmap_new makes a table without a key.
LEMMA NewFacts ==
  ASSUME NEW n \in Nat
  PROVE  /\ hashmap_new(n) \in Table(n) /\ hashmap_new(n).use = 0
         /\ Keyed(hashmap_new(n)) = {} /\ Free(hashmap_new(n), TRUE) = {}
<1> DEFINE e == [key |-> NULL, value |-> NULL, isdel |-> FALSE]
           m == hashmap_new(n)
<1>1. e \in Entry
  BY DEF Entry
<1>2. m.size = n /\ m.use = 0 /\ m.entrys = [i \in 0 .. n - 1 |-> e]
  BY DEF hashmap_new
<1>3. m \in Table(n)
  BY <1>1 DEF hashmap_new, Table
<1>4. \A i \in 0 .. n - 1 : m.entrys[i].key = NULL /\ m.entrys[i].isdel = FALSE
  BY <1>2
<1> HIDE DEF m
<1>5. Keyed(m) = {} /\ Free(m, TRUE) = {}
  <2>1. /\ \A i : i \in Keyed(m) <=> i \in 0 .. n - 1 /\ m.entrys[i].key # NULL
        /\ \A i : i \in Free(m, TRUE) <=> /\ i \in 0 .. n - 1 /\ m.entrys[i].key = NULL
                                          /\ m.entrys[i].isdel = TRUE
    BY <1>3, TableFacts
  <2>2. \A i : i \notin Keyed(m) /\ i \notin Free(m, TRUE)
    BY <1>4, <2>1
  <2> QED BY <2>2
<1> QED BY <1>2, <1>3, <1>5 DEF m

\* The stops of hashmap_put and hashmap_get in terms of the entries.
PutStops(m, k) == Holding(m, k) \union Holding(m, NULL)
GetStops(m, k) == Holding(m, k) \union Free(m, FALSE)

\* Where hashmap_put stops.
LEMMA PutStopsIs ==
  ASSUME NEW n \in Nat, NEW m \in Table(n), NEW k
  PROVE  \A i : i \in PutStops(m, k) <=>
           i \in 0 .. n - 1 /\ (m.entrys[i].key = k \/ m.entrys[i].key = NULL)
<1>1. /\ \A i : i \in Holding(m, k) <=> i \in 0 .. n - 1 /\ m.entrys[i].key = k
      /\ \A i : i \in Holding(m, NULL) <=> i \in 0 .. n - 1 /\ m.entrys[i].key = NULL
  BY HoldingIs
<1> QED BY <1>1 DEF PutStops

\* Where hashmap_get stops.
LEMMA GetStopsIs ==
  ASSUME NEW n \in Nat, NEW m \in Table(n), NEW k
  PROVE  \A i : i \in GetStops(m, k) <=>
           /\ i \in 0 .. n - 1
           /\ m.entrys[i].key = k \/ (m.entrys[i].key = NULL /\ m.entrys[i].isdel = FALSE)
<1>1. \A i : i \in Holding(m, k) <=> i \in 0 .. n - 1 /\ m.entrys[i].key = k
  BY HoldingIs
<1>2. \A i : i \in Free(m, FALSE) <=> /\ i \in 0 .. n - 1 /\ m.entrys[i].key = NULL
                                      /\ m.entrys[i].isdel = FALSE
  BY TableFacts
<1> QED BY <1>1, <1>2 DEF GetStops

\* What hashmap_put and hashmap_get find.
LEMMA PutGetFacts ==
  ASSUME NEW n \in Sizes, NEW m \in Table(n), NEW k \in Key
  PROVE  /\ PutFinds(m, k) # Endless =>
              /\ PutFinds(m, k) \in 0 .. n - 1
              /\ m.entrys[PutFinds(m, k)].key \in {k, NULL}
         /\ PutFinds(m, k) = Endless => \A i \in 0 .. n - 1 : m.entrys[i].key \notin {k, NULL}
         /\ GetFinds(m, k) # Endless => GetFinds(m, k) \in 0 .. n - 1
         /\ GetFinds(m, k) = Endless =>
              \A i \in 0 .. n - 1 : m.entrys[i].key # k /\ (m.entrys[i].key = NULL => m.entrys[i].isdel # FALSE)
         /\ Free(m, TRUE) = {} => PutFinds(m, k) = GetFinds(m, k)
<1>0. n \in Nat /\ m.size = n
  BY SizeFacts, TableFacts
<1> DEFINE P == PutStops(m, k)
           G == GetStops(m, k)
<1>1. /\ \A i : i \in P <=> i \in 0 .. n - 1 /\ (m.entrys[i].key = k \/ m.entrys[i].key = NULL)
      /\ \A i : i \in G <=> /\ i \in 0 .. n - 1
                           /\ \/ m.entrys[i].key = k
                              \/ m.entrys[i].key = NULL /\ m.entrys[i].isdel = FALSE
  BY <1>0, PutStopsIs, GetStopsIs
<1>3. PutFinds(m, k) = Find(m, k, P) /\ GetFinds(m, k) = Find(m, k, G)
  BY DEF PutFinds, GetFinds, PutStops, GetStops
<1> HIDE DEF P, G
<1>4. Free(m, TRUE) = {} => P = G
  <2> SUFFICES ASSUME Free(m, TRUE) = {} PROVE P = G
    OBVIOUS
  <2>1. /\ \A i : i \in Free(m, TRUE) <=> /\ i \in 0 .. n - 1 /\ m.entrys[i].key = NULL
                                          /\ m.entrys[i].isdel = TRUE
        /\ \A i \in 0 .. n - 1 : m.entrys[i].isdel \in BOOLEAN
    BY <1>0, TableFacts
  <2>2. \A i \in 0 .. n - 1 : m.entrys[i].key = NULL => m.entrys[i].isdel = FALSE
    BY <2>1
  <2>3. \A i : i \in P <=> i \in G
    BY <1>1, <2>2
  <2> QED BY <2>3
<1>5. /\ Find(m, k, P) # Endless => Find(m, k, P) \in P \intersect (0 .. n - 1)
      /\ Find(m, k, P) = Endless => P \intersect (0 .. n - 1) = {}
      /\ Find(m, k, G) # Endless => Find(m, k, G) \in G \intersect (0 .. n - 1)
      /\ Find(m, k, G) = Endless => G \intersect (0 .. n - 1) = {}
  BY <1>0, FindFacts
<1>6. P \intersect (0 .. n - 1) = {} => \A i \in 0 .. n - 1 : i \notin P
  OBVIOUS
<1>7. G \intersect (0 .. n - 1) = {} => \A i \in 0 .. n - 1 : i \notin G
  OBVIOUS
<1>8. PutFinds(m, k) # Endless => PutFinds(m, k) \in P /\ PutFinds(m, k) \in 0 .. n - 1
  BY <1>3, <1>5
<1>9. GetFinds(m, k) # Endless => GetFinds(m, k) \in 0 .. n - 1
  BY <1>3, <1>5
<1>10. PutFinds(m, k) = Endless => \A i \in 0 .. n - 1 : m.entrys[i].key \notin {k, NULL}
  BY <1>1, <1>3, <1>5, <1>6
<1>11. GetFinds(m, k) = Endless =>
         \A i \in 0 .. n - 1 : m.entrys[i].key # k /\ (m.entrys[i].key = NULL => m.entrys[i].isdel # FALSE)
  BY <1>1, <1>3, <1>5, <1>7
<1>12. PutFinds(m, k) \in P => m.entrys[PutFinds(m, k)].key \in {k, NULL}
  BY <1>1
<1> QED BY <1>3, <1>4, <1>8, <1>9, <1>10, <1>11, <1>12
-----------------------------------------------------------------------------
(* Storing an entry.                                                       *)

\* A table with other entries and another use.
Write(m, g, c) == [m EXCEPT !.entrys = g, !.use = c]

\* It is one, and has these.
LEMMA Written ==
  ASSUME NEW n, NEW m \in Table(n), NEW g \in [0 .. n - 1 -> Entry], NEW c \in Nat
  PROVE  Write(m, g, c) \in Table(n) /\ Write(m, g, c).use = c /\ Write(m, g, c).entrys = g
<1> DEFINE F == [0 .. n - 1 -> Entry]
<1>1. m \in [size : {n}, use : Nat, entrys : F] /\ g \in F
  BY DEF Table
<1>2. Table(n) = [size : {n}, use : Nat, entrys : F]
  BY DEF Table
<1> HIDE DEF F
<1> QED BY <1>1, <1>2 DEF Write

\* hashmap_put writes one entry.
LEMMA StoreIs ==
  ASSUME NEW n \in Sizes, NEW m \in Table(n), NEW k \in Key, NEW v \in Value \union {NULL},
         PutFinds(m, k) # Endless
  PROVE  LET i == PutFinds(m, k)
             w == Store(m, k, v)
         IN  /\ i \in 0 .. n - 1 /\ m.entrys[i].key \in {k, NULL}
             /\ w \in Table(n)
             /\ w.use = IF m.entrys[i].key = NULL THEN m.use + 1 ELSE m.use
             /\ w.entrys[i] = [key |-> k, value |-> v, isdel |-> FALSE]
             /\ \A j \in 0 .. n - 1 : j # i => w.entrys[j] = m.entrys[j]
<1> DEFINE i == PutFinds(m, k)
           e == [key |-> k, value |-> v, isdel |-> FALSE]
           u == IF m.entrys[i].key = NULL THEN m.use + 1 ELSE m.use
           f == [m.entrys EXCEPT ![i] = e]
<1>1. i \in 0 .. n - 1 /\ m.entrys[i].key \in {k, NULL}
  BY PutGetFacts
<1>2. n \in Nat /\ m.size = n /\ m.use \in Nat /\ m.entrys \in [0 .. n - 1 -> Entry]
  BY SizeFacts, TableType
<1>3. Store(m, k, v) = Write(m, f, u)
  BY DEF Store, Write
<1>4. u \in Nat
  BY <1>2
<1>5. e \in Entry
  BY DEF Entry
<1> HIDE DEF i, e, u
<1>6. f \in [0 .. n - 1 -> Entry] /\ f[i] = e /\ \A j \in 0 .. n - 1 : j # i => f[j] = m.entrys[j]
  BY <1>1, <1>2, <1>5
<1> HIDE DEF f
<1>7. Write(m, f, u) \in Table(n) /\ Write(m, f, u).use = u /\ Write(m, f, u).entrys = f
  BY <1>4, <1>6, Written
<1>8. Store(m, k, v) \in Table(n) /\ Store(m, k, v).use = u /\ Store(m, k, v).entrys = f
  BY <1>3, <1>7
<1> QED BY <1>1, <1>6, <1>8 DEF i, e, u

\* The entry has a key from then on, and use counts it if it had none.
LEMMA StoreKeyed ==
  ASSUME NEW n \in Sizes, NEW m \in Table(n), NEW k \in Key, NEW v \in Value \union {NULL},
         PutFinds(m, k) # Endless
  PROVE  LET i == PutFinds(m, k)
             w == Store(m, k, v)
         IN  /\ \A j : j \in Keyed(w) <=> j \in Keyed(m) \/ j = i
             /\ i \in Keyed(m) => w.use = m.use /\ Cardinality(Keyed(w)) = Cardinality(Keyed(m))
             /\ i \notin Keyed(m) => /\ w.use = m.use + 1
                                     /\ Cardinality(Keyed(w)) = Cardinality(Keyed(m)) + 1
<1> DEFINE i == PutFinds(m, k)
           w == Store(m, k, v)
<1>1. /\ i \in 0 .. n - 1 /\ m.entrys[i].key \in {k, NULL}
      /\ w \in Table(n)
      /\ w.use = IF m.entrys[i].key = NULL THEN m.use + 1 ELSE m.use
      /\ w.entrys[i] = [key |-> k, value |-> v, isdel |-> FALSE]
      /\ \A j \in 0 .. n - 1 : j # i => w.entrys[j] = m.entrys[j]
  BY StoreIs
<1>2. n \in Nat /\ k # NULL
  BY SizeFacts, NullAssumption
<1> HIDE DEF i, w
<1>3. /\ \A j : j \in Keyed(m) <=> j \in 0 .. n - 1 /\ m.entrys[j].key # NULL
      /\ IsFiniteSet(Keyed(m))
  <2>1. \A j : j \in Keyed(m) <=> j \in 0 .. n - 1 /\ m.entrys[j].key # NULL
    BY <1>2, KeyedIs
  <2>2. IsFiniteSet(Keyed(m))
    BY <1>2, KeyedFinite
  <2> QED BY <2>1, <2>2
<1>4. \A j : j \in Keyed(w) <=> j \in 0 .. n - 1 /\ w.entrys[j].key # NULL
  BY <1>1, <1>2, KeyedIs
<1>5. w.entrys[i].key = k
  BY <1>1
<1>6. \A j : j \in Keyed(w) <=> j \in Keyed(m) \/ j = i
  BY <1>1, <1>2, <1>3, <1>4, <1>5
<1>7. Keyed(w) = Keyed(m) \union {i}
  BY <1>6
<1>8. Cardinality(Keyed(w)) = IF i \in Keyed(m) THEN Cardinality(Keyed(m)) ELSE Cardinality(Keyed(m)) + 1
  <2>1. IsFiniteSet(Keyed(m))
    BY <1>3
  <2>2. Cardinality(Keyed(m) \union {i}) =
          IF i \in Keyed(m) THEN Cardinality(Keyed(m)) ELSE Cardinality(Keyed(m)) + 1
    BY <2>1, FS_AddElement
  <2> QED BY <1>7, <2>2
<1>9. i \in Keyed(m) <=> m.entrys[i].key # NULL
  BY <1>1, <1>3
<1> QED BY <1>1, <1>6, <1>8, <1>9 DEF i, w

\* A search for k ends at key k, whose value is v.
Holds(m, k, v) ==
  /\ GetFinds(m, k) # Endless
  /\ m.entrys[GetFinds(m, k)].key = k
  /\ m.entrys[GetFinds(m, k)].value = v

\* hashmap_get finds what hashmap_put stored.
LEMMA StoreFinds ==
  ASSUME NEW n \in Sizes, NEW m \in Table(n), NEW k \in Key, NEW v \in Value \union {NULL},
         PutFinds(m, k) # Endless
  PROVE  GetFinds(Store(m, k, v), k) = PutFinds(m, k) /\ Holds(Store(m, k, v), k, v)
<1> DEFINE i == PutFinds(m, k)
           w == Store(m, k, v)
           S == PutStops(m, k)
           T == GetStops(w, k)
<1>1. /\ i \in 0 .. n - 1 /\ m.entrys[i].key \in {k, NULL}
      /\ w \in Table(n)
      /\ w.entrys[i] = [key |-> k, value |-> v, isdel |-> FALSE]
      /\ \A j \in 0 .. n - 1 : j # i => w.entrys[j] = m.entrys[j]
  BY StoreIs
<1>2. n \in Nat /\ m.size = n
  BY SizeFacts, TableFacts
<1>3. i = Find(m, k, S) /\ GetFinds(w, k) = Find(w, k, T)
  BY DEF PutFinds, GetFinds, PutStops, GetStops
<1>4. \A j : j \in S <=> j \in 0 .. n - 1 /\ (m.entrys[j].key = k \/ m.entrys[j].key = NULL)
  BY <1>2, PutStopsIs
<1> HIDE DEF w, i
<1>5. w.size = n
  BY <1>1, <1>2, TableFacts
<1>6. \A j : j \in T <=> /\ j \in 0 .. n - 1
                         /\ \/ w.entrys[j].key = k
                            \/ w.entrys[j].key = NULL /\ w.entrys[j].isdel = FALSE
  <2>1. n \in Nat /\ w \in Table(n)
    BY <1>1, <1>2
  <2> QED BY <2>1, GetStopsIs
<1> HIDE DEF S, T
<1>7. w.entrys[i].key = k /\ w.entrys[i].value = v
  BY <1>1
<1>8. i \in T
  BY <1>1, <1>6, <1>7
<1>9. \A j : j \in T => j \in S
  <2> SUFFICES ASSUME NEW j \in T PROVE j \in S
    OBVIOUS
  <2>1. CASE j = i
    BY <1>1, <1>4, <2>1
  <2>2. CASE j # i
    BY <1>1, <1>4, <1>6, <2>2
  <2> QED BY <2>1, <2>2
<1>10. T \in SUBSET S
  BY <1>9
<1>11. i # Endless
  BY DEF i
<1>12. Find(w, k, T) = Find(m, k, S)
  <2>1. m.size \in Sizes /\ w.size = m.size /\ Find(m, k, S) # Endless /\ Find(m, k, S) \in T
    BY <1>2, <1>3, <1>5, <1>8, <1>11
  <2> QED BY <1>10, <2>1, FindKeeps
<1>13. GetFinds(w, k) = i
  BY <1>3, <1>12
<1>14. Holds(w, k, v)
  BY <1>7, <1>11, <1>13 DEF Holds
<1> QED BY <1>13, <1>14 DEF i, w

\* It still finds what it found, if that was another key.
LEMMA StoreKeeps ==
  ASSUME NEW n \in Sizes, NEW m \in Table(n), NEW k \in Key, NEW v \in Value \union {NULL},
         PutFinds(m, k) # Endless,
         NEW c \in Key \ {k}, GetFinds(m, c) # Endless, m.entrys[GetFinds(m, c)].key = c
  PROVE  /\ GetFinds(Store(m, k, v), c) = GetFinds(m, c)
         /\ Store(m, k, v).entrys[GetFinds(m, c)] = m.entrys[GetFinds(m, c)]
<1> DEFINE i == PutFinds(m, k)
           h == GetFinds(m, c)
           w == Store(m, k, v)
           S == GetStops(m, c)
           T == GetStops(w, c)
<1>1. /\ i \in 0 .. n - 1 /\ m.entrys[i].key \in {k, NULL}
      /\ w \in Table(n)
      /\ w.entrys[i] = [key |-> k, value |-> v, isdel |-> FALSE]
      /\ \A j \in 0 .. n - 1 : j # i => w.entrys[j] = m.entrys[j]
  BY StoreIs
<1>2. n \in Nat /\ m.size = n /\ k # NULL /\ c # NULL /\ c # k
  <2>1. n \in Nat
    BY SizeFacts
  <2>2. m.size = n
    BY <2>1, TableFacts
  <2> QED BY <2>1, <2>2, NullAssumption
<1>3. h = Find(m, c, S) /\ GetFinds(w, c) = Find(w, c, T)
  BY DEF GetFinds, GetStops
<1>4. \A j : j \in S <=> /\ j \in 0 .. n - 1
                         /\ \/ m.entrys[j].key = c
                            \/ m.entrys[j].key = NULL /\ m.entrys[j].isdel = FALSE
  BY <1>2, GetStopsIs
<1>5. h \in 0 .. n - 1 /\ h # Endless /\ m.entrys[h].key = c
  BY PutGetFacts
<1> HIDE DEF w, i, h
<1>6. w.size = n
  BY <1>1, <1>2, TableFacts
<1>7. \A j : j \in T <=> /\ j \in 0 .. n - 1
                         /\ \/ w.entrys[j].key = c
                            \/ w.entrys[j].key = NULL /\ w.entrys[j].isdel = FALSE
  <2>1. n \in Nat /\ w \in Table(n)
    BY <1>1, <1>2
  <2> QED BY <2>1, GetStopsIs
<1> HIDE DEF S, T
<1>8. w.entrys[i].key = k
  BY <1>1
<1>9. h # i
  BY <1>1, <1>2, <1>5
<1>10. h \in T
  BY <1>1, <1>5, <1>7, <1>9
<1>11. \A j : j \in T => j \in S
  <2> SUFFICES ASSUME NEW j \in T PROVE j \in S
    OBVIOUS
  <2>1. CASE j = i
    BY <1>2, <1>7, <1>8, <2>1
  <2>2. CASE j # i
    BY <1>1, <1>4, <1>7, <2>2
  <2> QED BY <2>1, <2>2
<1>12. T \in SUBSET S
  BY <1>11
<1>13. Find(w, c, T) = Find(m, c, S)
  <2>1. /\ m.size \in Sizes /\ w.size = m.size /\ Find(m, c, S) # Endless /\ Find(m, c, S) \in T
        /\ c \in Key
    BY <1>2, <1>3, <1>5, <1>6, <1>10
  <2> QED BY <1>12, <2>1, FindKeeps
<1>14. GetFinds(w, c) = h /\ w.entrys[h] = m.entrys[h]
  BY <1>1, <1>3, <1>5, <1>9, <1>13
<1> QED BY <1>14 DEF h, w

\* What is held under another key stays.
LEMMA StoreHolds ==
  ASSUME NEW n \in Sizes, NEW m \in Table(n), NEW k \in Key, NEW v \in Value \union {NULL},
         PutFinds(m, k) # Endless,
         NEW c \in Key \ {k}, NEW x, Holds(m, c, x)
  PROVE  Holds(Store(m, k, v), c, x)
<1>1. GetFinds(m, c) # Endless /\ m.entrys[GetFinds(m, c)].key = c /\ m.entrys[GetFinds(m, c)].value = x
  BY DEF Holds
<1>2. /\ GetFinds(Store(m, k, v), c) = GetFinds(m, c)
      /\ Store(m, k, v).entrys[GetFinds(m, c)] = m.entrys[GetFinds(m, c)]
  BY <1>1, StoreKeeps
<1> QED BY <1>1, <1>2 DEF Holds

\* Storing keeps a table intact.
LEMMA StoreIntact ==
  ASSUME NEW n \in Sizes, NEW m \in Table(n), NEW k \in Key, NEW v \in Value \union {NULL},
         PutFinds(m, k) # Endless, Intact(m)
  PROVE  Intact(Store(m, k, v))
<1> DEFINE i == PutFinds(m, k)
           w == Store(m, k, v)
<1>1. /\ i \in 0 .. n - 1
      /\ w \in Table(n)
      /\ w.entrys[i] = [key |-> k, value |-> v, isdel |-> FALSE]
      /\ \A j \in 0 .. n - 1 : j # i => w.entrys[j] = m.entrys[j]
  BY StoreIs
<1>2. n \in Nat
  BY SizeFacts
<1>3. Free(m, TRUE) = {} /\ \A j \in Keyed(m) : GetFinds(m, m.entrys[j].key) = j
  BY DEF Intact
<1>4. i = GetFinds(m, k)
  BY <1>3, PutGetFacts
<1>5. w.entrys[i].key = k /\ w.entrys[i].isdel = FALSE
  BY <1>1
<1>6. \A j : j \in Keyed(w) <=> j \in Keyed(m) \/ j = i
  BY StoreKeyed
<1>7. GetFinds(w, k) = i
  BY StoreFinds
<1>8. \A j : j \in Keyed(m) <=> j \in 0 .. n - 1 /\ m.entrys[j].key # NULL
  BY <1>2, KeyedIs
<1>9. /\ \A j : j \in Free(m, TRUE) <=> /\ j \in 0 .. n - 1 /\ m.entrys[j].key = NULL
                                        /\ m.entrys[j].isdel = TRUE
      /\ \A j \in 0 .. n - 1 : m.entrys[j].key \in Key \union {NULL}
  BY <1>2, TableFacts
<1>10. \A c \in Key \ {k} : GetFinds(m, c) # Endless /\ m.entrys[GetFinds(m, c)].key = c =>
         GetFinds(w, c) = GetFinds(m, c)
  BY StoreKeeps
<1> HIDE DEF w, i
<1>11. Free(w, TRUE) = {}
  <2>1. n \in Nat /\ w \in Table(n)
    BY <1>1, <1>2
  <2>2. \A j : j \in Free(w, TRUE) <=> /\ j \in 0 .. n - 1 /\ w.entrys[j].key = NULL
                                       /\ w.entrys[j].isdel = TRUE
    BY <2>1, TableFacts
  <2>3. \A j : j \notin Free(w, TRUE)
    BY <1>1, <1>3, <1>5, <1>9, <2>2
  <2> QED BY <2>3
<1>12. ASSUME NEW j \in Keyed(w) PROVE GetFinds(w, w.entrys[j].key) = j
  <2>1. CASE j = i
    BY <1>5, <1>7, <2>1
  <2>2. CASE j # i
    <3>1. j \in Keyed(m) /\ j \in 0 .. n - 1 /\ m.entrys[j].key # NULL
      BY <1>6, <1>8, <2>2
    <3> DEFINE c == m.entrys[j].key
    <3>2. GetFinds(m, c) = j /\ c \in Key
      BY <1>3, <1>9, <3>1
    <3>3. c # k
      BY <1>4, <2>2, <3>2
    <3>4. j # Endless
      BY <3>1 DEF Endless
    <3>5. GetFinds(w, c) = j
      BY <1>10, <3>2, <3>3, <3>4
    <3>6. w.entrys[j] = m.entrys[j]
      BY <1>1, <2>2, <3>1
    <3> QED BY <3>5, <3>6
  <2> QED BY <2>1, <2>2
<1>13. Intact(w)
  BY <1>11, <1>12 DEF Intact
<1> QED BY <1>13 DEF w
-----------------------------------------------------------------------------
(* Growing.                                                                *)

\* The entries with a key among the first i.
Below(m, i) == {j \in Keyed(m) : j < i}

\* None before the first entry, all of them after the last.
LEMMA BelowFacts ==
  ASSUME NEW n \in Nat, NEW m \in Table(n), NEW i \in 0 .. n
  PROVE  /\ Below(m, 0) = {} /\ Below(m, n) = Keyed(m)
         /\ Cardinality(Below(m, 0)) = 0
         /\ IsFiniteSet(Below(m, i)) /\ Cardinality(Below(m, i)) \in Nat
         /\ Cardinality(Below(m, i)) <= Cardinality(Keyed(m))
         /\ Cardinality(Below(m, i)) <= n
<1>1. \A j : j \in Keyed(m) <=> j \in 0 .. n - 1 /\ m.entrys[j].key # NULL
  BY KeyedIs
<1>2. IsFiniteSet(Keyed(m)) /\ Cardinality(Keyed(m)) \in Nat /\ Cardinality(Keyed(m)) <= n
  BY KeyedFinite
<1>3. Below(m, 0) = {} /\ Below(m, n) = Keyed(m)
  BY <1>1 DEF Below
<1>4. Below(m, i) \subseteq Keyed(m)
  BY DEF Below
<1>5. IsFiniteSet(Below(m, i)) /\ Cardinality(Below(m, i)) <= Cardinality(Keyed(m))
  BY <1>2, <1>4, FS_Subset
<1>6. Cardinality(Below(m, i)) \in Nat
  BY <1>5, FS_CardinalityType
<1>7. Cardinality(Below(m, 0)) = 0
  <2>1. Cardinality({}) = 0
    BY FS_EmptySet
  <2> QED BY <1>3, <2>1
<1> QED BY <1>2, <1>3, <1>5, <1>6, <1>7

\* One more entry adds itself, if it has a key.
LEMMA BelowGrows ==
  ASSUME NEW n \in Nat, NEW m \in Table(n), NEW i \in 0 .. n - 1
  PROVE  /\ i \notin Keyed(m) => Below(m, i + 1) = Below(m, i)
         /\ i \in Keyed(m) =>
              /\ \A j : j \in Below(m, i + 1) <=> j \in Below(m, i) \/ j = i
              /\ Cardinality(Below(m, i + 1)) = Cardinality(Below(m, i)) + 1
<1>1. \A j \in Keyed(m) : j \in 0 .. n - 1
  BY KeyedIs
<1>2. IsFiniteSet(Below(m, i)) /\ i \notin Below(m, i)
  <2>1. i \in 0 .. n
    OBVIOUS
  <2>2. IsFiniteSet(Below(m, i))
    BY <2>1, BelowFacts
  <2> QED BY <2>2 DEF Below
<1>3. ASSUME NEW j \in Keyed(m) PROVE j < i + 1 <=> j < i \/ j = i
  <2>1. j \in 0 .. n - 1
    BY <1>1
  <2> QED BY <2>1
<1>4. \A j : j \in Below(m, i + 1) <=> j \in Keyed(m) /\ (j < i \/ j = i)
  BY <1>3 DEF Below
<1>5. \A j : j \in Below(m, i) <=> j \in Keyed(m) /\ j < i
  BY DEF Below
<1>6. CASE i \in Keyed(m)
  <2>1. \A j : j \in Below(m, i + 1) <=> j \in Below(m, i) \/ j = i
    BY <1>4, <1>5, <1>6
  <2>2. Below(m, i + 1) = Below(m, i) \union {i}
    BY <2>1
  <2>3. Cardinality(Below(m, i) \union {i}) = Cardinality(Below(m, i)) + 1
    BY <1>2, FS_AddElement
  <2> QED BY <1>6, <2>1, <2>2, <2>3
<1>7. CASE i \notin Keyed(m)
  <2>1. \A j : j \in Below(m, i + 1) <=> j \in Below(m, i)
    BY <1>4, <1>5, <1>7
  <2> QED BY <1>7, <2>1
<1> QED BY <1>6, <1>7

\* A new table and the entries left to copy.
CopyState(n) == [new : Table(n), olduse : Nat]

\* hashmap_put makes a table of a table, wherever its search ends.
LEMMA StoreType ==
  ASSUME NEW n \in Nat, NEW m \in Table(n), NEW k \in Key, NEW v \in Value \union {NULL}
  PROVE  Store(m, k, v) \in Table(n)
<1> DEFINE i == PutFinds(m, k)
           e == [key |-> k, value |-> v, isdel |-> FALSE]
           u == IF m.entrys[i].key = NULL THEN m.use + 1 ELSE m.use
           f == [m.entrys EXCEPT ![i] = e]
<1>1. m.use \in Nat /\ m.entrys \in [0 .. n - 1 -> Entry]
  BY TableType
<1>2. Store(m, k, v) = Write(m, f, u)
  BY DEF Store, Write
<1>3. u \in Nat
  BY <1>1
<1>4. e \in Entry
  BY DEF Entry
<1> HIDE DEF e, i, u
<1>5. f \in [0 .. n - 1 -> Entry]
  BY <1>1, <1>4
<1> HIDE DEF f
<1>6. Write(m, f, u) \in Table(n)
  BY <1>3, <1>5, Written
<1> QED BY <1>2, <1>6

\* So does an iteration of the loop.
LEMMA CopiedType ==
  ASSUME NEW n \in Nat, NEW c \in CopyState(n), NEW e \in Entry
  PROVE  Copied(c, e) \in CopyState(n)
<1>1. c.new \in Table(n) /\ c.olduse \in Nat
  BY DEF CopyState
<1>2. CASE c.olduse > 0 /\ e.key # NULL
  <2>1. e.key \in Key /\ e.value \in Value \union {NULL}
    BY <1>2 DEF Entry
  <2> DEFINE w == Store(c.new, e.key, e.value)
  <2>2. w \in Table(n)
    BY <1>1, <2>1, StoreType
  <2>3. Copied(c, e) = [new |-> w, olduse |-> c.olduse - 1]
    BY <1>2 DEF Copied
  <2>4. c.olduse - 1 \in Nat
    BY <1>1, <1>2
  <2> HIDE DEF w
  <2> QED BY <2>2, <2>3, <2>4 DEF CopyState
<1>3. CASE ~(c.olduse > 0 /\ e.key # NULL)
  BY <1>3 DEF Copied
<1> QED BY <1>2, <1>3

\* The iterations of the loop.
LEMMA CopyIs ==
  ASSUME NEW n \in Nat, NEW m \in Table(n)
  PROVE  Copy(m) = [i \in 0 .. n |->
           IF i = 0 THEN [new |-> hashmap_new(2 * n), olduse |-> m.use]
           ELSE Copied(Copy(m)[i - 1], m.entrys[i - 1])]
<1> DEFINE a == [new |-> hashmap_new(2 * n), olduse |-> m.use]
           W == CopyState(2 * n)
           g == [z \in Nat \X W |-> IF z[1] < n THEN Copied(z[2], m.entrys[z[1]]) ELSE z[2]]
<1>1. m.size = n /\ m.use \in Nat /\ m.entrys \in [0 .. n - 1 -> Entry] /\ 2 * n \in Nat
  BY TableType
<1>2. a \in W
  <2>1. hashmap_new(2 * n) \in Table(2 * n)
    BY <1>1, NewFacts
  <2> QED BY <1>1, <2>1 DEF CopyState
<1>3. ASSUME NEW i \in Nat, NEW x \in W PROVE g[<<i, x>>] \in W /\ (i < n => g[<<i, x>>] = Copied(x, m.entrys[i]))
  <2>1. g[<<i, x>>] = IF i < n THEN Copied(x, m.entrys[i]) ELSE x
    OBVIOUS
  <2>2. ASSUME i < n PROVE Copied(x, m.entrys[i]) \in W
    <3>1. i \in 0 .. n - 1
      BY <2>2
    <3>2. m.entrys[i] \in Entry
      BY <1>1, <3>1
    <3> QED BY <1>1, <3>2, CopiedType
  <2> HIDE DEF g
  <2> QED BY <2>1, <2>2
<1>4. g \in [Nat \X W -> W]
  <2>1. \A z \in Nat \X W : g[z] \in W
    BY <1>3
  <2> QED BY <2>1
<1> HIDE DEF g, W, a
<1>5. PICK f : f \in [0 .. n -> W] /\ f = [i \in 0 .. n |-> IF i = 0 THEN a ELSE g[<<i - 1, f[i - 1]>>]]
  <2>1. IsStep(W, a, g)
    BY <1>2, <1>4 DEF IsStep
  <2>2. \E f : SolvesUpTo(f, n, W, a, g)
    BY <2>1, RecursionOver
  <2> QED BY <2>2 DEF SolvesUpTo
<1>6. ASSUME NEW i \in 0 .. n PROVE f[i] = IF i = 0 THEN a ELSE Copied(f[i - 1], m.entrys[i - 1])
  <2>1. f[i] = IF i = 0 THEN a ELSE g[<<i - 1, f[i - 1]>>]
    BY <1>5
  <2>2. CASE i = 0
    BY <2>1, <2>2
  <2>3. CASE i # 0
    <3>1. i - 1 \in 0 .. n /\ i - 1 \in Nat /\ i - 1 < n
      BY <2>3
    <3>2. f[i - 1] \in W
      BY <1>5, <3>1
    <3>3. g[<<i - 1, f[i - 1]>>] = Copied(f[i - 1], m.entrys[i - 1])
      BY <1>3, <3>1, <3>2
    <3> QED BY <2>1, <2>3, <3>3
  <2> QED BY <2>2, <2>3
<1>7. f = [i \in 0 .. n |-> IF i = 0 THEN a ELSE Copied(f[i - 1], m.entrys[i - 1])]
  BY <1>5, <1>6
<1> QED BY <1>1, <1>7 DEF Copy, a

\* The first state of the loop, the next, and the type of all.
LEMMA CopySteps ==
  ASSUME NEW n \in Nat, NEW m \in Table(n)
  PROVE  /\ Copy(m)[0] = [new |-> hashmap_new(2 * n), olduse |-> m.use]
         /\ \A i \in 0 .. n - 1 : Copy(m)[i + 1] = Copied(Copy(m)[i], m.entrys[i])
         /\ \A i \in 0 .. n : Copy(m)[i] \in CopyState(2 * n)
<1> DEFINE a == [new |-> hashmap_new(2 * n), olduse |-> m.use]
           c == Copy(m)
<1>1. c = [i \in 0 .. n |-> IF i = 0 THEN a ELSE Copied(c[i - 1], m.entrys[i - 1])]
  BY CopyIs
<1>2. m.use \in Nat /\ m.entrys \in [0 .. n - 1 -> Entry] /\ 2 * n \in Nat
  BY TableType
<1>3. a \in CopyState(2 * n)
  <2>1. hashmap_new(2 * n) \in Table(2 * n)
    BY <1>2, NewFacts
  <2> QED BY <1>2, <2>1 DEF CopyState
<1> HIDE DEF c, a
<1>4. c[0] = a
  BY <1>1
<1>5. ASSUME NEW i \in 0 .. n - 1 PROVE c[i + 1] = Copied(c[i], m.entrys[i])
  <2>1. i + 1 \in 0 .. n /\ i + 1 # 0 /\ (i + 1) - 1 = i
    OBVIOUS
  <2>2. c[i + 1] = Copied(c[(i + 1) - 1], m.entrys[(i + 1) - 1])
    BY <1>1, <2>1
  <2> QED BY <2>1, <2>2
<1>6. ASSUME NEW i \in 0 .. n - 1, c[i] \in CopyState(2 * n) PROVE c[i + 1] \in CopyState(2 * n)
  <2>1. m.entrys[i] \in Entry
    BY <1>2
  <2>2. Copied(c[i], m.entrys[i]) \in CopyState(2 * n)
    BY <1>2, <1>6, <2>1, CopiedType
  <2> QED BY <1>5, <2>2
<1>7. \A i \in 0 .. n : c[i] \in CopyState(2 * n)
  BY <1>3, <1>4, <1>6, RecursionType
<1> QED BY <1>4, <1>5, <1>7 DEF c, a

\* The entries that are left to copy were not met yet.
LEMMA CopyCounts ==
  ASSUME NEW n \in Nat, NEW m \in Table(n), Cardinality(Keyed(m)) <= m.use
  PROVE  \A i \in 0 .. n : Copy(m)[i].olduse + Cardinality(Below(m, i)) = m.use
<1> DEFINE c == Copy(m)
           card(i) == Cardinality(Below(m, i))
           S == {i \in Nat : c[i].olduse + card(i) = m.use}
<1>1. /\ c[0] = [new |-> hashmap_new(2 * n), olduse |-> m.use]
      /\ \A i \in 0 .. n - 1 : c[i + 1] = Copied(c[i], m.entrys[i])
      /\ \A i \in 0 .. n : c[i] \in CopyState(2 * n)
  BY CopySteps
<1>2. m.use \in Nat /\ Cardinality(Keyed(m)) \in Nat
  BY TableType, KeyedFinite
<1>3. \A i \in 0 .. n : c[i].olduse \in Nat
  BY <1>1 DEF CopyState
<1>4. \A i \in 0 .. n : card(i) \in Nat /\ card(i) <= Cardinality(Keyed(m))
  BY BelowFacts
<1>5. card(0) = 0
  <2>1. 0 \in 0 .. n
    OBVIOUS
  <2> QED BY <2>1, BelowFacts
<1>6. 0 \in S
  <2>1. c[0].olduse = m.use
    BY <1>1
  <2> HIDE DEF c, card
  <2> QED BY <1>2, <1>5, <2>1
<1>7. ASSUME NEW i \in 0 .. n - 1, i \in S PROVE i + 1 \in S
  <2>1. c[i + 1] = Copied(c[i], m.entrys[i])
    BY <1>1
  <2>2. i \in 0 .. n /\ i + 1 \in 0 .. n /\ i + 1 \in Nat
    OBVIOUS
  <2>3. c[i].olduse \in Nat /\ card(i) \in Nat /\ c[i].olduse + card(i) = m.use
    BY <1>3, <1>4, <1>7, <2>2
  <2>4. i \in Keyed(m) <=> m.entrys[i].key # NULL
    BY KeyedIs
  <2>5. CASE i \in Keyed(m)
    <3>1. card(i + 1) = card(i) + 1
      BY <2>5, BelowGrows
    <3>2. card(i + 1) <= Cardinality(Keyed(m))
      BY <1>4, <2>2
    <3>3. c[i].olduse > 0
      <4> HIDE DEF c, card
      <4> QED BY <1>2, <2>3, <3>1, <3>2
    <3>4. c[i + 1].olduse = c[i].olduse - 1
      BY <2>1, <2>4, <2>5, <3>3 DEF Copied
    <3>5. c[i + 1].olduse + card(i + 1) = m.use
      <4> HIDE DEF c, card
      <4> QED BY <1>2, <2>3, <3>1, <3>4
    <3> QED BY <2>2, <3>5
  <2>6. CASE i \notin Keyed(m)
    <3>1. Below(m, i + 1) = Below(m, i)
      BY <2>6, BelowGrows
    <3>2. c[i + 1] = c[i]
      BY <2>1, <2>4, <2>6 DEF Copied
    <3> QED BY <2>2, <2>3, <3>1, <3>2
  <2> QED BY <2>5, <2>6
<1> HIDE DEF S
<1>8. \A i \in 0 .. n : i \in S
  <2>1. 0 \in Nat
    OBVIOUS
  <2> QED BY <1>6, <1>7, <2>1, IntervalInduction
<1> QED BY <1>8 DEF S, c, card

\* What the loop keeps, copying a table that no entry was deleted from: the
\* new table is intact and holds the entries met so far, and no others.
CopyInv(m, n, i, w) ==
  /\ w \in Table(2 * n)
  /\ w.use = Cardinality(Below(m, i)) /\ Cardinality(Keyed(w)) = Cardinality(Below(m, i))
  /\ Intact(w)
  /\ \A j \in Below(m, i) : Holds(w, m.entrys[j].key, m.entrys[j].value)
  /\ \A h \in Keyed(w) : \E j \in Below(m, i) : w.entrys[h].key = m.entrys[j].key

\* In a table that no entry was deleted from, a key is in one entry only.
LEMMA KeyOnce ==
  ASSUME NEW m, Intact(m), NEW i \in Keyed(m), NEW j \in Keyed(m), m.entrys[i].key = m.entrys[j].key
  PROVE  i = j
<1>1. GetFinds(m, m.entrys[i].key) = i /\ GetFinds(m, m.entrys[j].key) = j
  BY DEF Intact
<1> QED BY <1>1

\* Copying one more entry.
LEMMA CopyStores ==
  ASSUME NEW n \in Nat, NEW m \in Table(n), 2 * n \in Sizes, Intact(m),
         NEW i \in 0 .. n - 1, i \in Keyed(m), NEW w, CopyInv(m, n, i, w)
  PROVE  CopyInv(m, n, i + 1, Store(w, m.entrys[i].key, m.entrys[i].value))
<1> DEFINE k == m.entrys[i].key
           v == m.entrys[i].value
           x == Store(w, k, v)
           h == PutFinds(w, k)
<1>1. k \in Key /\ v \in Value \union {NULL} /\ k # NULL
  <2>1. m.entrys \in [0 .. n - 1 -> Entry]
    BY TableType
  <2>2. m.entrys[i] \in Entry /\ k # NULL
    BY <2>1, KeyedIs
  <2> QED BY <2>2 DEF Entry
<1>2. /\ w \in Table(2 * n)
      /\ w.use = Cardinality(Below(m, i)) /\ Cardinality(Keyed(w)) = Cardinality(Below(m, i))
      /\ Intact(w)
  BY DEF CopyInv
<1>3. \A j \in Below(m, i) : Holds(w, m.entrys[j].key, m.entrys[j].value)
  BY DEF CopyInv
<1>4. \A g \in Keyed(w) : \E j \in Below(m, i) : w.entrys[g].key = m.entrys[j].key
  BY DEF CopyInv
<1>5. /\ \A j : j \in Below(m, i + 1) <=> j \in Below(m, i) \/ j = i
      /\ Cardinality(Below(m, i + 1)) = Cardinality(Below(m, i)) + 1
  BY BelowGrows
<1>6. \A j \in Below(m, i) : j \in Keyed(m) /\ j # i
  BY DEF Below
<1>7. \A j \in Below(m, i) : m.entrys[j].key # k
  <2> SUFFICES ASSUME NEW j \in Below(m, i), m.entrys[j].key = k PROVE FALSE
    OBVIOUS
  <2>1. j \in Keyed(m) /\ j # i
    BY <1>6
  <2> QED BY <2>1, KeyOnce
<1>8. \A g \in Keyed(w) : w.entrys[g].key # k
  BY <1>4, <1>7
<1>9. 2 * n \in Nat /\ n \in Nat
  BY SizeFacts
<1>10. h # Endless
  <2>1. i \in 0 .. n
    OBVIOUS
  <2>2. Cardinality(Below(m, i + 1)) <= n /\ Cardinality(Below(m, i)) \in Nat
    <3>1. i + 1 \in 0 .. n
      OBVIOUS
    <3> QED BY <2>1, <3>1, BelowFacts
  <2>3. Cardinality(Keyed(w)) < 2 * n
    BY <1>2, <1>5, <1>9, <2>2
  <2>4. Holding(w, NULL) # {}
    BY <1>2, <1>9, <2>3, KeyedFinite
  <2>5. PICK z \in 0 .. 2 * n - 1 : w.entrys[z].key = NULL
    <3>1. PICK z : z \in Holding(w, NULL)
      BY <2>4
    <3>2. z \in 0 .. 2 * n - 1 /\ w.entrys[z].key = NULL
      BY <1>2, <1>9, <3>1, HoldingIs
    <3> QED BY <3>2
  <2>6. PutFinds(w, k) = Endless => \A f \in 0 .. 2 * n - 1 : w.entrys[f].key \notin {k, NULL}
    <3> DEFINE q == 2 * n
    <3>1. q \in Sizes /\ w \in Table(q) /\ k \in Key
      BY <1>1, <1>2
    <3> HIDE DEF q, k, v
    <3>2. PutFinds(w, k) = Endless => \A f \in 0 .. q - 1 : w.entrys[f].key \notin {k, NULL}
      BY <3>1, PutGetFacts
    <3> QED BY <3>2 DEF q
  <2> QED BY <2>5, <2>6
<1> HIDE DEF h, k, v
<1>11. /\ h \in 0 .. 2 * n - 1 /\ w.entrys[h].key \in {k, NULL}
       /\ x \in Table(2 * n)
       /\ x.entrys[h] = [key |-> k, value |-> v, isdel |-> FALSE]
       /\ \A j \in 0 .. 2 * n - 1 : j # h => x.entrys[j] = w.entrys[j]
  BY <1>1, <1>2, <1>10, StoreIs DEF h
<1>12. \A g : g \in Keyed(w) <=> g \in 0 .. 2 * n - 1 /\ w.entrys[g].key # NULL
  BY <1>2, <1>9, KeyedIs
<1>13. h \notin Keyed(w)
  BY <1>8, <1>11, <1>12
<1>14. /\ \A g : g \in Keyed(x) <=> g \in Keyed(w) \/ g = h
       /\ x.use = w.use + 1
       /\ Cardinality(Keyed(x)) = Cardinality(Keyed(w)) + 1
  BY <1>1, <1>2, <1>10, <1>13, StoreKeyed DEF h
<1>15. Intact(x) /\ Holds(x, k, v)
  BY <1>1, <1>2, <1>10, StoreIntact, StoreFinds DEF h
<1>16. ASSUME NEW j \in Below(m, i) PROVE Holds(x, m.entrys[j].key, m.entrys[j].value)
  <2> DEFINE c == m.entrys[j].key
  <2>1. Holds(w, c, m.entrys[j].value) /\ c # k
    BY <1>3, <1>7
  <2>2. c \in Key
    <3>1. j \in 0 .. n - 1 /\ m.entrys[j].key # NULL
      BY <1>6, KeyedIs
    <3>2. m.entrys[j].key \in Key \union {NULL}
      BY <3>1, TableFacts
    <3> QED BY <3>1, <3>2
  <2> HIDE DEF c
  <2>3. c \in Key \ {k} /\ PutFinds(w, k) # Endless
    BY <1>10, <2>1, <2>2 DEF h
  <2>4. Holds(x, c, m.entrys[j].value)
    BY <1>1, <1>2, <2>1, <2>3, StoreHolds
  <2> QED BY <2>4 DEF c
<1> HIDE DEF x
<1>17. \A j \in Below(m, i + 1) : Holds(x, m.entrys[j].key, m.entrys[j].value)
  BY <1>5, <1>15, <1>16 DEF k, v
<1>18. ASSUME NEW g \in Keyed(x) PROVE \E j \in Below(m, i + 1) : x.entrys[g].key = m.entrys[j].key
  <2>1. CASE g = h
    <3>1. x.entrys[g].key = k
      BY <1>11, <2>1
    <3> QED BY <1>5, <3>1 DEF k
  <2>2. CASE g # h
    <3>1. g \in Keyed(w) /\ x.entrys[g] = w.entrys[g]
      BY <1>11, <1>12, <1>14, <2>2
    <3> QED BY <1>4, <1>5, <3>1
  <2> QED BY <2>1, <2>2
<1>19. x.use = Cardinality(Below(m, i + 1)) /\ Cardinality(Keyed(x)) = Cardinality(Below(m, i + 1))
  BY <1>2, <1>5, <1>14
<1>20. CopyInv(m, n, i + 1, x)
  BY <1>11, <1>15, <1>17, <1>18, <1>19 DEF CopyInv
<1> QED BY <1>20 DEF x, k, v

\* The loop keeps CopyInv.
LEMMA CopyKeeps ==
  ASSUME NEW n \in Nat, NEW m \in Table(n), 2 * n \in Sizes, Intact(m), Cardinality(Keyed(m)) = m.use
  PROVE  \A i \in 0 .. n : CopyInv(m, n, i, Copy(m)[i].new)
<1> DEFINE c == Copy(m)
           S == {i \in Nat : CopyInv(m, n, i, c[i].new)}
<1>1. /\ c[0] = [new |-> hashmap_new(2 * n), olduse |-> m.use]
      /\ \A i \in 0 .. n - 1 : c[i + 1] = Copied(c[i], m.entrys[i])
      /\ \A i \in 0 .. n : c[i] \in CopyState(2 * n)
  BY CopySteps
<1>2. m.use \in Nat
  BY TableType
<1>3. \A i \in 0 .. n : c[i].olduse + Cardinality(Below(m, i)) = m.use
  <2>1. Cardinality(Keyed(m)) <= m.use
    BY <1>2
  <2> QED BY <2>1, CopyCounts
<1>4. 0 \in S
  <2> DEFINE w == hashmap_new(2 * n)
  <2>1. c[0].new = w
    BY <1>1
  <2>2. w \in Table(2 * n) /\ w.use = 0 /\ Keyed(w) = {} /\ Free(w, TRUE) = {}
    <3>1. 2 * n \in Nat
      OBVIOUS
    <3> QED BY <3>1, NewFacts
  <2>3. Below(m, 0) = {} /\ Cardinality(Below(m, 0)) = 0
    <3>1. 0 \in 0 .. n
      OBVIOUS
    <3> QED BY <3>1, BelowFacts
  <2>4. Cardinality(Keyed(w)) = 0
    <3>1. Cardinality({}) = 0
      BY FS_EmptySet
    <3> QED BY <2>2, <3>1
  <2> HIDE DEF w
  <2>5. Intact(w)
    BY <2>2 DEF Intact
  <2>6. CopyInv(m, n, 0, w)
    BY <2>2, <2>3, <2>4, <2>5 DEF CopyInv
  <2> QED BY <2>1, <2>6
<1>5. ASSUME NEW i \in 0 .. n - 1, i \in S PROVE i + 1 \in S
  <2> DEFINE w == c[i].new
             k == m.entrys[i].key
  <2>1. c[i + 1] = Copied(c[i], m.entrys[i])
    BY <1>1
  <2>2. CopyInv(m, n, i, w) /\ i \in 0 .. n /\ i + 1 \in 0 .. n /\ i + 1 \in Nat
    BY <1>5
  <2>3. i \in Keyed(m) <=> k # NULL
    BY KeyedIs
  <2>4. CASE i \in Keyed(m)
    <3>1. Cardinality(Below(m, i + 1)) = Cardinality(Below(m, i)) + 1
      BY <2>4, BelowGrows
    <3>2. /\ c[i].olduse + Cardinality(Below(m, i)) = m.use
          /\ Cardinality(Below(m, i + 1)) <= Cardinality(Keyed(m))
          /\ Cardinality(Below(m, i)) \in Nat
      <4>1. c[i].olduse + Cardinality(Below(m, i)) = m.use
        BY <1>3, <2>2
      <4>2. Cardinality(Below(m, i + 1)) <= Cardinality(Keyed(m))
        BY <2>2, BelowFacts
      <4>3. Cardinality(Below(m, i)) \in Nat
        BY <2>2, BelowFacts
      <4> QED BY <4>1, <4>2, <4>3
    <3>3. c[i].olduse \in Nat
      BY <1>1, <2>2 DEF CopyState
    <3>4. c[i].olduse > 0
      <4> HIDE DEF c
      <4> QED BY <1>2, <3>1, <3>2, <3>3
    <3>5. c[i + 1].new = Store(w, k, m.entrys[i].value)
      BY <2>1, <2>3, <2>4, <3>4 DEF Copied
    <3>6. CopyInv(m, n, i + 1, Store(w, k, m.entrys[i].value))
      <4> HIDE DEF w
      <4> QED BY <2>2, <2>4, CopyStores
    <3> QED BY <2>2, <3>5, <3>6
  <2>5. CASE i \notin Keyed(m)
    <3>1. Below(m, i + 1) = Below(m, i)
      BY <2>5, BelowGrows
    <3>2. c[i + 1] = c[i]
      BY <2>1, <2>3, <2>5 DEF Copied
    <3>3. CopyInv(m, n, i + 1, w)
      BY <2>2, <3>1 DEF CopyInv
    <3> QED BY <2>2, <3>2, <3>3
  <2> QED BY <2>4, <2>5
<1> HIDE DEF S
<1>6. \A i \in 0 .. n : i \in S
  <2>1. 0 \in Nat
    OBVIOUS
  <2> QED BY <1>4, <1>5, <2>1, IntervalInduction
<1> QED BY <1>6 DEF S, c

\* Taking over the size and the entries of a table with the same use.
LEMMA Replaced ==
  ASSUME NEW n, NEW q, NEW m \in Table(n), NEW w \in Table(q), m.use = w.use
  PROVE  [m EXCEPT !.size = w.size, !.entrys = w.entrys] = w
<1> DEFINE F(x) == [0 .. x - 1 -> Entry]
<1>1. m \in [size : {n}, use : Nat, entrys : F(n)]
  BY DEF Table
<1>2. w \in [size : {q}, use : Nat, entrys : F(q)]
  BY DEF Table
<1> HIDE DEF F
<1> QED BY <1>1, <1>2

\* A table that lost a key does not grow, and one that lost none becomes one
\* of twice the size in which every key is found with its value.
LEMMA ResizeFacts ==
  ASSUME NEW n \in Nat, NEW m \in Table(n), Cardinality(Keyed(m)) <= m.use
  PROVE  LET r == _hashmap_resize(m)
         IN  /\ Cardinality(Keyed(m)) < m.use => r = m
             /\ 2 * n \in Sizes /\ Intact(m) /\ Cardinality(Keyed(m)) = m.use =>
                  /\ r \in Table(2 * n) /\ r.use = m.use /\ Cardinality(Keyed(r)) = r.use
                  /\ Intact(r)
                  /\ \A j \in Keyed(m) : Holds(r, m.entrys[j].key, m.entrys[j].value)
<1> DEFINE d == Copy(m)[n]
           r == _hashmap_resize(m)
           card == Cardinality(Keyed(m))
<1>1. m.size = n /\ m.use \in Nat /\ card \in Nat
  BY TableType, KeyedFinite
<1>2. n \in 0 .. n /\ Below(m, n) = Keyed(m)
  <2>1. n \in 0 .. n
    OBVIOUS
  <2> QED BY <2>1, BelowFacts
<1>3. d.olduse + card = m.use
  BY <1>2, CopyCounts
<1>4. r = IF d.olduse = 0 THEN [m EXCEPT !.size = d.new.size, !.entrys = d.new.entrys] ELSE m
  BY <1>1 DEF _hashmap_resize
<1>5. d \in CopyState(2 * n)
  BY <1>2, CopySteps
<1>6. d.olduse \in Nat
  BY <1>5 DEF CopyState
<1> HIDE DEF d, r
<1>7. card < m.use => r = m
  <2> HIDE DEF card
  <2>1. card < m.use => d.olduse # 0
    BY <1>1, <1>3, <1>6
  <2> QED BY <1>4, <2>1
<1>8. ASSUME 2 * n \in Sizes, Intact(m), card = m.use
      PROVE  /\ r \in Table(2 * n) /\ r.use = m.use /\ Cardinality(Keyed(r)) = r.use
             /\ Intact(r)
             /\ \A j \in Keyed(m) : Holds(r, m.entrys[j].key, m.entrys[j].value)
  <2> DEFINE w == d.new
  <2>1. CopyInv(m, n, n, w)
    BY <1>2, <1>8, CopyKeeps DEF d
  <2> HIDE DEF w
  <2>2. /\ w \in Table(2 * n)
        /\ w.use = card /\ Cardinality(Keyed(w)) = card
        /\ Intact(w)
        /\ \A j \in Keyed(m) : Holds(w, m.entrys[j].key, m.entrys[j].value)
    BY <1>2, <2>1 DEF CopyInv
  <2>3. d.olduse = 0
    <3> HIDE DEF card
    <3> QED BY <1>1, <1>3, <1>6, <1>8
  <2>4. r = w
    <3>1. [m EXCEPT !.size = w.size, !.entrys = w.entrys] = w
      <4>1. m.use = w.use
        BY <1>8, <2>2
      <4> QED BY <2>2, <4>1, Replaced
    <3> QED BY <1>4, <2>3, <3>1 DEF w
  <2> QED BY <1>8, <2>2, <2>4
<1> QED BY <1>7, <1>8 DEF r
-----------------------------------------------------------------------------
(* The calls.                                                              *)

\* What IInv says of the table alone.
Sound(m) ==
  /\ m.size \in Sizes
  /\ m \in Table(m.size)
  /\ Cardinality(Keyed(m)) <= m.use
  /\ Cardinality(Keyed(m)) = m.use => Intact(m)

\* Looking up a key that is stored is a search that ends at it.
LEMMA LookupIs ==
  ASSUME NEW k \in Key, NEW v \in Value
  PROVE  Lookup(k) = v <=> Holds(map, k, v)
<1>1. v # NULL /\ v # Endless
  BY NullAssumption DEF Endless
<1>2. Lookup(k) = IF GetFinds(map, k) = Endless THEN Endless
                  ELSE IF map.entrys[GetFinds(map, k)].key = k
                       THEN map.entrys[GetFinds(map, k)].value ELSE NULL
  BY DEF Lookup
<1> QED BY <1>1, <1>2 DEF Holds

\* The same after a step.
LEMMA LookupNext ==
  ASSUME NEW k \in Key, NEW v \in Value
  PROVE  Lookup(k)' = v <=> Holds(map', k, v)
<1>1. v # NULL /\ v # Endless
  BY NullAssumption DEF Endless
<1>2. Lookup(k)' = IF GetFinds(map', k) = Endless THEN Endless
                   ELSE IF map'.entrys[GetFinds(map', k)].key = k
                        THEN map'.entrys[GetFinds(map', k)].value ELSE NULL
  BY DEF Lookup
<1> QED BY <1>1, <1>2 DEF Holds

\* A table that may grow stays sound, with the same keys and values.
LEMMA GrownFacts ==
  ASSUME NEW m, Sound(m), m.use <= MaxUse, NEW ok \in BOOLEAN
  PROVE  LET g == Grown(m, ok)
         IN  /\ Sound(g) /\ g.use = m.use /\ Cardinality(Keyed(g)) = Cardinality(Keyed(m))
             /\ \A k \in Key : \A v : Holds(m, k, v) => Holds(g, k, v)
             /\ g.size = m.size \/ g.size = 2 * m.size
             /\ IsLoaded(m) /\ ok /\ Cardinality(Keyed(m)) = m.use => g.size = 2 * m.size
<1> DEFINE n == m.size
           r == _hashmap_resize(m)
           g == Grown(m, ok)
           card == Cardinality(Keyed(m))
<1>1. n \in Sizes /\ m \in Table(n) /\ card <= m.use /\ (card = m.use => Intact(m))
  BY DEF Sound
<1>2. n \in Nat /\ m.use \in Nat /\ card \in Nat
  <2>1. n \in Nat
    BY <1>1, SizeFacts
  <2>2. m.use \in Nat
    BY <1>1, <2>1, TableType
  <2>3. card \in Nat
    BY <1>1, <2>1, KeyedFinite
  <2> QED BY <2>1, <2>2, <2>3
<1>3. CASE ~(IsLoaded(m) /\ ok)
  <2>1. g = m
    BY <1>3 DEF Grown
  <2> QED BY <1>3, <2>1
<1>4. CASE IsLoaded(m) /\ ok
  <2>1. g = r
    BY <1>4 DEF Grown
  <2>2. 2 * n \in Sizes
    <3>1. m.use * 3 >= n * 2
      BY <1>4 DEF IsLoaded
    <3> QED BY <1>1, <1>2, <3>1, SizeDoubles
  <2>3. CASE card < m.use
    <3>1. r = m
      BY <1>1, <1>2, <2>3, ResizeFacts
    <3>2. card # m.use
      <4> HIDE DEF card
      <4> QED BY <1>2, <2>3
    <3> QED BY <2>1, <3>1, <3>2
  <2>4. CASE card = m.use
    <3>1. /\ r \in Table(2 * n) /\ r.use = m.use /\ Cardinality(Keyed(r)) = r.use
          /\ Intact(r)
          /\ \A j \in Keyed(m) : Holds(r, m.entrys[j].key, m.entrys[j].value)
      BY <1>1, <1>2, <2>2, <2>4, ResizeFacts
    <3> HIDE DEF r
    <3>2. r.size = 2 * n
      <4>1. 2 * n \in Nat
        BY <1>2
      <4> QED BY <3>1, <4>1, TableType
    <3>3. Sound(r)
      <4>1. Cardinality(Keyed(r)) <= r.use
        BY <1>2, <3>1
      <4> QED BY <2>2, <3>1, <3>2, <4>1 DEF Sound
    <3>4. ASSUME NEW k \in Key, NEW v, Holds(m, k, v) PROVE Holds(r, k, v)
      <4> DEFINE h == GetFinds(m, k)
      <4>1. h # Endless /\ m.entrys[h].key = k /\ m.entrys[h].value = v
        BY <3>4 DEF Holds
      <4>2. h \in 0 .. n - 1
        BY <1>1, <4>1, PutGetFacts
      <4> HIDE DEF h
      <4>3. h \in Keyed(m)
        <5>1. \A i : i \in Keyed(m) <=> i \in 0 .. n - 1 /\ m.entrys[i].key # NULL
          BY <1>1, <1>2, KeyedIs
        <5>2. k # NULL
          BY NullAssumption
        <5> QED BY <4>1, <4>2, <5>1, <5>2
      <4> QED BY <3>1, <4>1, <4>3
    <3> QED BY <2>1, <2>4, <3>1, <3>2, <3>3, <3>4
  <2>5. card < m.use \/ card = m.use
    <3> HIDE DEF card
    <3> QED BY <1>1, <1>2
  <2> QED BY <2>3, <2>4, <2>5
<1> QED BY <1>3, <1>4

\* While an entry has no key, a search for where to put one ends, and so does
\* one for a key if no entry was deleted.
LEMMA SearchesEnd ==
  ASSUME NEW m, m.size \in Sizes, m \in Table(m.size), Cardinality(Keyed(m)) < m.size, NEW k \in Key
  PROVE  PutFinds(m, k) # Endless /\ (Intact(m) => GetFinds(m, k) # Endless)
<1> DEFINE n == m.size
<1>1. n \in Sizes /\ n \in Nat /\ m \in Table(n)
  BY SizeFacts
<1>2. Holding(m, NULL) # {}
  BY <1>1, KeyedFinite
<1>3. \A i : i \in Holding(m, NULL) <=> i \in 0 .. n - 1 /\ m.entrys[i].key = NULL
  BY <1>1, HoldingIs
<1>4. PICK z \in 0 .. n - 1 : m.entrys[z].key = NULL
  BY <1>2, <1>3
<1>5. /\ PutFinds(m, k) = Endless => \A i \in 0 .. n - 1 : m.entrys[i].key \notin {k, NULL}
      /\ Free(m, TRUE) = {} => PutFinds(m, k) = GetFinds(m, k)
  BY <1>1, PutGetFacts
<1>6. PutFinds(m, k) # Endless
  BY <1>4, <1>5
<1>7. Intact(m) => Free(m, TRUE) = {}
  BY DEF Intact
<1> QED BY <1>5, <1>6, <1>7

\* Storing keeps a table sound.
LEMMA StoreSound ==
  ASSUME NEW m, Sound(m), NEW k \in Key, NEW v \in Value \union {NULL}, PutFinds(m, k) # Endless
  PROVE  LET w == Store(m, k, v)
         IN  /\ Sound(w) /\ w.size = m.size
             /\ w.use = m.use \/ w.use = m.use + 1
             /\ Cardinality(Keyed(m)) = m.use => Cardinality(Keyed(w)) = w.use
<1> DEFINE n == m.size
           w == Store(m, k, v)
           i == PutFinds(m, k)
<1>1. /\ n \in Sizes /\ m \in Table(n)
      /\ Cardinality(Keyed(m)) <= m.use /\ (Cardinality(Keyed(m)) = m.use => Intact(m))
  BY DEF Sound
<1>2. w \in Table(n)
  BY <1>1, StoreIs
<1>3. n \in Nat
  BY <1>1, SizeFacts
<1>4. w.size = n
  BY <1>2, <1>3, TableType
<1>5. m.use \in Nat /\ Cardinality(Keyed(m)) \in Nat
  BY <1>1, <1>3, TableType, KeyedFinite
<1>6. /\ i \in Keyed(m) => w.use = m.use /\ Cardinality(Keyed(w)) = Cardinality(Keyed(m))
      /\ i \notin Keyed(m) => w.use = m.use + 1 /\ Cardinality(Keyed(w)) = Cardinality(Keyed(m)) + 1
  BY <1>1, StoreKeyed
<1>7. Intact(m) => Intact(w)
  BY <1>1, StoreIntact
<1> HIDE DEF w, i
<1>8. /\ Cardinality(Keyed(w)) <= w.use
      /\ Cardinality(Keyed(w)) = w.use <=> Cardinality(Keyed(m)) = m.use
      /\ w.use = m.use \/ w.use = m.use + 1
  BY <1>1, <1>5, <1>6
<1>9. Sound(w)
  BY <1>1, <1>2, <1>4, <1>7, <1>8 DEF Sound
<1> QED BY <1>4, <1>8, <1>9 DEF w

\* The invariant, with what it says of the table as Sound and of the keys as
\* Holds.
LEMMA IInvIs ==
  IInv <=>
    /\ Sound(map) /\ map.use <= MaxUse
    /\ stored \in [Key -> Value \union {NULL}]
    /\ deleted \in BOOLEAN /\ failed \in BOOLEAN /\ hung \in BOOLEAN
    /\ ~deleted => Cardinality(Keyed(map)) = map.use
    /\ \A k \in Key : stored[k] # NULL => Lookup(k) = stored[k]
    /\ LoadBounded
    /\ CallsReturn
BY DEF IInv, TypeOK, UseInv, StoredIsFound, Sound

\* A table as loaded as LoadBounded allows has room left.
LEMMA RoomLeft ==
  ASSUME NEW n \in Nat, n >= 4, NEW u \in Nat, 3 * (u - 1) < 2 * n
  PROVE  u < n
OBVIOUS

\* IInv holds of a new table.
LEMMA InitInv == Init => IInv
<1> SUFFICES ASSUME Init PROVE IInv
  OBVIOUS
<1>1. /\ map = hashmap_new(InitSize) /\ stored = [k \in Key |-> NULL]
      /\ deleted = FALSE /\ failed = FALSE /\ hung = FALSE
  BY DEF Init
<1>2. InitSize \in Nat /\ InitSize >= 4 /\ InitSize \in Sizes /\ MaxUse \in Nat
  BY InitSizeFacts, MaxUseAssumption
<1>3. map \in Table(InitSize) /\ map.use = 0 /\ Keyed(map) = {} /\ Free(map, TRUE) = {}
  BY <1>1, <1>2, NewFacts
<1>4. map.size = InitSize
  BY <1>2, <1>3, TableType
<1>5. Cardinality(Keyed(map)) = 0
  <2>1. Cardinality({}) = 0
    BY FS_EmptySet
  <2> QED BY <1>3, <2>1
<1>6. Intact(map)
  BY <1>3 DEF Intact
<1>7. Sound(map)
  BY <1>2, <1>3, <1>4, <1>5, <1>6 DEF Sound
<1>8. stored \in [Key -> Value \union {NULL}] /\ \A k \in Key : stored[k] = NULL
  BY <1>1
<1>9. LoadBounded
  BY <1>2, <1>3, <1>4 DEF LoadBounded
<1>10. CallsReturn
  BY <1>1 DEF CallsReturn
<1>11. map.use <= MaxUse
  BY <1>2, <1>3
<1> QED BY <1>1, <1>3, <1>5, <1>7, <1>8, <1>9, <1>10, <1>11, IInvIs

\* The table in which hashmap_put searches has room for one more entry.
LEMMA GrownRoom ==
  ASSUME NEW m, Sound(m), m.use <= MaxUse, NEW ok \in BOOLEAN, IsLoaded(m) => ok,
         Cardinality(Keyed(m)) = m.use, 3 * (m.use - 1) < 2 * m.size
  PROVE  3 * Grown(m, ok).use < 2 * Grown(m, ok).size /\ Grown(m, ok).use < Grown(m, ok).size
<1> DEFINE g == Grown(m, ok)
<1>1. /\ g.use = m.use
      /\ g.size = m.size \/ g.size = 2 * m.size
      /\ IsLoaded(m) => g.size = 2 * m.size
  BY GrownFacts
<1>2. m.size \in Nat /\ m.size >= 4
  BY SizeFacts DEF Sound
<1>3. m.use \in Nat
  BY <1>2, TableType DEF Sound
<1>4. IsLoaded(m) <=> m.use * 3 >= m.size * 2
  BY DEF IsLoaded
<1> HIDE DEF g
<1>5. 3 * g.use < 2 * g.size /\ g.use < g.size
  <2>1. CASE IsLoaded(m)
    BY <1>1, <1>2, <1>3, <2>1
  <2>2. CASE ~IsLoaded(m)
    BY <1>1, <1>2, <1>3, <1>4, <2>2
  <2> QED BY <2>1, <2>2
<1> QED BY <1>5 DEF g

\* hashmap_put keeps IInv.
LEMMA PutInv ==
  ASSUME IInv, NEW k \in Key, NEW v \in Value, hashmap_put(k, v)
  PROVE  IInv'
<1>1. /\ Sound(map) /\ map.use <= MaxUse
      /\ stored \in [Key -> Value \union {NULL}]
      /\ deleted \in BOOLEAN /\ failed \in BOOLEAN /\ hung \in BOOLEAN
      /\ ~deleted => Cardinality(Keyed(map)) = map.use
      /\ \A c \in Key : stored[c] # NULL => Lookup(c) = stored[c]
      /\ LoadBounded
  BY IInvIs
<1>2. ~hung /\ map.use < MaxUse /\ deleted' = deleted
  BY DEF hashmap_put
<1>3. PICK ok \in BOOLEAN :
        LET m == Grown(map, ok) IN
        /\ failed' = (failed \/ (IsLoaded(map) /\ ~ok))
        /\ \/ /\ PutFinds(m, k) # Endless
              /\ map' = Store(m, k, v)
              /\ stored' = [stored EXCEPT ![k] = v]
              /\ UNCHANGED hung
           \/ /\ PutFinds(m, k) = Endless
              /\ map' = m
              /\ hung' = TRUE
              /\ UNCHANGED stored
  BY DEF hashmap_put
<1> DEFINE m == Grown(map, ok)
           n == m.size
<1>4. /\ Sound(m) /\ m.use = map.use /\ Cardinality(Keyed(m)) = Cardinality(Keyed(map))
      /\ \A c \in Key : \A x : Holds(map, c, x) => Holds(m, c, x)
  BY <1>1, <1>2, GrownFacts
<1>5. ~deleted /\ ~failed' => 3 * m.use < 2 * n /\ m.use < n
  <2> SUFFICES ASSUME ~deleted, ~failed' PROVE 3 * m.use < 2 * n /\ m.use < n
    OBVIOUS
  <2>1. ~failed /\ (IsLoaded(map) => ok)
    BY <1>3
  <2>2. 3 * (map.use - 1) < 2 * map.size
    BY <1>1, <2>1 DEF LoadBounded
  <2> QED BY <1>1, <1>2, <2>1, <2>2, GrownRoom
<1>6. n \in Sizes /\ n \in Nat /\ m \in Table(n) /\ m.use \in Nat /\ map.use \in Nat
  <2>1. n \in Sizes /\ m \in Table(n)
    BY <1>4 DEF Sound
  <2>2. n \in Nat
    BY <2>1, SizeFacts
  <2> HIDE DEF m
  <2>3. m.use \in Nat
    BY <2>1, <2>2, TableType
  <2> QED BY <1>4, <2>1, <2>2, <2>3
<1>7. ASSUME NEW c \in Key, stored[c] # NULL PROVE Holds(m, c, stored[c])
  <2>1. stored[c] \in Value /\ Lookup(c) = stored[c]
    BY <1>1, <1>7
  <2>2. Holds(map, c, stored[c])
    BY <2>1, LookupIs
  <2> QED BY <1>4, <2>2
<1>8. failed' \in BOOLEAN
  BY <1>1, <1>3
<1>9. CASE PutFinds(m, k) # Endless
  <2> DEFINE w == Store(m, k, v)
  <2>1. /\ failed' = (failed \/ (IsLoaded(map) /\ ~ok))
        /\ map' = w /\ stored' = [stored EXCEPT ![k] = v] /\ hung' = hung
    BY <1>3, <1>9
  <2>2. /\ Sound(w) /\ w.size = n
        /\ w.use = m.use \/ w.use = m.use + 1
        /\ Cardinality(Keyed(m)) = m.use => Cardinality(Keyed(w)) = w.use
    BY <1>4, <1>9, StoreSound
  <2>3. Holds(w, k, v)
    BY <1>6, <1>9, StoreFinds
  <2>4. ASSUME NEW c \in Key \ {k}, stored[c] # NULL PROVE Holds(w, c, stored[c])
    BY <1>6, <1>7, <1>9, <2>4, StoreHolds
  <2> HIDE DEF w, m
  <2>5. ASSUME NEW c \in Key, stored'[c] # NULL PROVE Lookup(c)' = stored'[c]
    <3>1. stored'[c] \in Value
      BY <1>1, <2>1, <2>5
    <3>2. Holds(map', c, stored'[c])
      <4>1. CASE c = k
        BY <1>1, <2>1, <2>3, <4>1
      <4>2. CASE c # k
        <5>1. stored'[c] = stored[c]
          BY <1>1, <2>1, <4>2
        <5> QED BY <2>1, <2>4, <2>5, <4>2, <5>1
      <4> QED BY <4>1, <4>2
    <3> QED BY <3>1, <3>2, LookupNext
  <2>6. LoadBounded'
    <3> SUFFICES ASSUME ~deleted', ~failed' PROVE 3 * (map'.use - 1) < 2 * map'.size
      BY DEF LoadBounded
    <3>1. 3 * m.use < 2 * n
      BY <1>2, <1>5
    <3>2. map'.size = n /\ (map'.use = m.use \/ map'.use = m.use + 1)
      BY <2>1, <2>2
    <3> QED BY <1>6, <3>1, <3>2
  <2>7. CallsReturn'
    BY <1>2, <2>1 DEF CallsReturn
  <2>8. map'.use <= MaxUse
    BY <1>2, <1>4, <1>6, <2>1, <2>2, MaxUseAssumption
  <2>9. stored' \in [Key -> Value \union {NULL}]
    BY <1>1, <2>1
  <2>10. IInv'
    BY <1>1, <1>2, <1>4, <1>8, <2>1, <2>2, <2>5, <2>6, <2>7, <2>8, <2>9
       DEF IInv, TypeOK, UseInv, StoredIsFound, Sound
  <2> QED BY <2>10
<1>10. CASE PutFinds(m, k) = Endless
  <2>1. /\ failed' = (failed \/ (IsLoaded(map) /\ ~ok))
        /\ map' = m /\ stored' = stored /\ hung' = TRUE
    BY <1>3, <1>10
  <2>2. deleted \/ failed'
    <3> SUFFICES ASSUME ~deleted, ~failed' PROVE FALSE
      OBVIOUS
    <3>1. Cardinality(Keyed(m)) < n
      BY <1>1, <1>4, <1>5
    <3>2. PutFinds(m, k) # Endless
      BY <1>6, <3>1, SearchesEnd
    <3> QED BY <1>10, <3>2
  <2>3. ASSUME NEW c \in Key, stored'[c] # NULL PROVE Lookup(c)' = stored'[c]
    <3>1. stored'[c] \in Value /\ stored'[c] = stored[c]
      BY <1>1, <2>1, <2>3
    <3>2. Holds(map', c, stored'[c])
      BY <1>7, <2>1, <2>3
    <3> QED BY <3>1, <3>2, LookupNext
  <2> HIDE DEF m
  <2>4. LoadBounded' /\ CallsReturn'
    BY <1>2, <2>2 DEF LoadBounded, CallsReturn
  <2>5. map'.use <= MaxUse
    BY <1>1, <1>4, <2>1
  <2>6. IInv'
    BY <1>1, <1>2, <1>4, <1>8, <2>1, <2>3, <2>4, <2>5
       DEF IInv, TypeOK, UseInv, StoredIsFound, Sound
  <2> QED BY <2>6
<1> QED BY <1>9, <1>10

\* hashmap_get keeps IInv.
LEMMA GetInv ==
  ASSUME IInv, NEW k \in Key, hashmap_get(k)
  PROVE  IInv'
<1>1. /\ Sound(map)
      /\ ~deleted => Cardinality(Keyed(map)) = map.use
      /\ LoadBounded
  BY IInvIs
<1>2. /\ hung' = (GetFinds(map, k) = Endless)
      /\ map' = map /\ stored' = stored /\ deleted' = deleted /\ failed' = failed
  BY DEF hashmap_get
<1>3. CallsReturn'
  <2> SUFFICES ASSUME GetFinds(map, k) = Endless, ~deleted, ~failed PROVE FALSE
    BY <1>2 DEF CallsReturn
  <2>1. map.size \in Sizes /\ map \in Table(map.size) /\ (Cardinality(Keyed(map)) = map.use => Intact(map))
    BY <1>1 DEF Sound
  <2>2. Intact(map) /\ Cardinality(Keyed(map)) = map.use
    BY <1>1, <2>1
  <2>3. Cardinality(Keyed(map)) < map.size
    <3>1. map.size \in Nat /\ map.size >= 4
      BY <2>1, SizeFacts
    <3>2. map.use \in Nat
      BY <2>1, <3>1, TableType
    <3>3. 3 * (map.use - 1) < 2 * map.size
      BY <1>1 DEF LoadBounded
    <3>4. map.use < map.size
      BY <3>1, <3>2, <3>3, RoomLeft
    <3> QED BY <2>2, <3>4
  <2> QED BY <2>1, <2>2, <2>3, SearchesEnd
<1>4. \A c \in Key : Lookup(c)' = Lookup(c)
  BY <1>2 DEF Lookup
<1>5. hung' \in BOOLEAN
  BY <1>2
<1> QED BY <1>2, <1>3, <1>4, <1>5 DEF IInv, TypeOK, UseInv, StoredIsFound, LoadBounded

\* A table whose entry i lost its key, and what that means entry by entry.
Unkeyed(m, i) == [m EXCEPT !.entrys[i].key = NULL, !.entrys[i].isdel = TRUE]
Lost(n, m, w, i) ==
  /\ w.entrys[i].key = NULL /\ w.entrys[i].isdel = TRUE
  /\ \A j \in 0 .. n - 1 : j # i => w.entrys[j] = m.entrys[j]

\* What deleting a key makes of the table.
LEMMA DeleteIs ==
  ASSUME NEW n \in Sizes, NEW m \in Table(n), NEW i \in 0 .. n - 1
  PROVE  Unkeyed(m, i) \in Table(n) /\ Unkeyed(m, i).use = m.use /\ Lost(n, m, Unkeyed(m, i), i)
<1> DEFINE e == [m.entrys[i] EXCEPT !.key = NULL, !.isdel = TRUE]
           f == [m.entrys EXCEPT ![i] = e]
           w == Unkeyed(m, i)
<1>1. m.use \in Nat /\ m.entrys \in [0 .. n - 1 -> Entry]
  BY SizeFacts, TableType
<1>2. m.entrys[i] \in Entry
  BY <1>1
<1>3. e \in Entry /\ e.key = NULL /\ e.isdel = TRUE
  BY <1>2 DEF Entry
<1> HIDE DEF e
<1>4. f \in [0 .. n - 1 -> Entry] /\ f[i] = e /\ \A j \in 0 .. n - 1 : j # i => f[j] = m.entrys[j]
  BY <1>1, <1>3
<1>5. w = Write(m, f, m.use)
  BY <1>1 DEF Write, Table, e, Unkeyed
<1> HIDE DEF f, w
<1>6. Write(m, f, m.use) \in Table(n) /\ Write(m, f, m.use).use = m.use /\ Write(m, f, m.use).entrys = f
  BY <1>1, <1>4, Written
<1>7. w \in Table(n) /\ w.use = m.use /\ w.entrys = f
  BY <1>5, <1>6
<1>8. Lost(n, m, w, i)
  BY <1>3, <1>4, <1>7 DEF Lost
<1> QED BY <1>7, <1>8 DEF w

\* Deleting a key leaves one key less.
LEMMA DeleteKeyed ==
  ASSUME NEW n \in Sizes, NEW m \in Table(n), NEW w \in Table(n), NEW i \in 0 .. n - 1,
         m.entrys[i].key # NULL, Lost(n, m, w, i)
  PROVE  Cardinality(Keyed(w)) = Cardinality(Keyed(m)) - 1
<1>0. w.entrys[i].key = NULL /\ \A j \in 0 .. n - 1 : j # i => w.entrys[j] = m.entrys[j]
  BY DEF Lost
<1>1. n \in Nat
  BY SizeFacts
<1>2. \A j : j \in Keyed(m) <=> j \in 0 .. n - 1 /\ m.entrys[j].key # NULL
  BY <1>1, KeyedIs
<1>3. \A j : j \in Keyed(w) <=> j \in 0 .. n - 1 /\ w.entrys[j].key # NULL
  BY <1>1, KeyedIs
<1>4. \A j : j \in Keyed(w) <=> j \in Keyed(m) /\ j # i
  BY <1>0, <1>2, <1>3
<1>5. Keyed(w) = Keyed(m) \ {i} /\ i \in Keyed(m)
  BY <1>2, <1>4
<1>6. IsFiniteSet(Keyed(m))
  BY <1>1, KeyedFinite
<1>7. Cardinality(Keyed(m) \ {i}) = Cardinality(Keyed(m)) - 1
  BY <1>5, <1>6, FS_RemoveElement
<1> QED BY <1>5, <1>7

\* A key that is not deleted is found where it was.
LEMMA DeleteHolds ==
  ASSUME NEW n \in Sizes, NEW m \in Table(n), NEW w \in Table(n), NEW k \in Key, NEW i \in 0 .. n - 1,
         m.entrys[i].key = k, Lost(n, m, w, i),
         NEW c \in Key \ {k}, NEW x, Holds(m, c, x)
  PROVE  Holds(w, c, x)
<1> DEFINE h == GetFinds(m, c)
           S == GetStops(m, c)
           T == GetStops(w, c)
<1>1. n \in Nat /\ c # NULL /\ c # k /\ c \in Key
  BY SizeFacts, NullAssumption
<1>2. m.size = n /\ w.size = n
  BY <1>1, TableType
<1>3. h = Find(m, c, S) /\ GetFinds(w, c) = Find(w, c, T)
  BY DEF GetFinds, GetStops
<1>4. h # Endless /\ m.entrys[h].key = c /\ m.entrys[h].value = x
  BY DEF Holds
<1>5. h \in 0 .. n - 1
  BY <1>1, <1>4, PutGetFacts
<1>6. \A j : j \in S <=> /\ j \in 0 .. n - 1
                         /\ \/ m.entrys[j].key = c
                            \/ m.entrys[j].key = NULL /\ m.entrys[j].isdel = FALSE
  BY <1>1, GetStopsIs
<1>7. \A j : j \in T <=> /\ j \in 0 .. n - 1
                         /\ \/ w.entrys[j].key = c
                            \/ w.entrys[j].key = NULL /\ w.entrys[j].isdel = FALSE
  BY <1>1, GetStopsIs
<1> HIDE DEF S, T, h
<1>0. /\ w.entrys[i].key = NULL /\ w.entrys[i].isdel = TRUE
      /\ \A j \in 0 .. n - 1 : j # i => w.entrys[j] = m.entrys[j]
  BY DEF Lost
<1>8. h # i /\ w.entrys[h] = m.entrys[h]
  BY <1>0, <1>1, <1>4, <1>5
<1>9. h \in T
  BY <1>4, <1>5, <1>7, <1>8
<1>10. i \notin T
  BY <1>0, <1>1, <1>7
<1>11. \A j : j \in T => j \in S
  <2> SUFFICES ASSUME NEW j \in T PROVE j \in S
    OBVIOUS
  <2>1. j # i /\ j \in 0 .. n - 1
    BY <1>7, <1>10
  <2>2. w.entrys[j] = m.entrys[j]
    BY <1>0, <2>1
  <2> QED BY <1>6, <1>7, <2>1, <2>2
<1>12. T \in SUBSET S
  BY <1>11
<1>13. Find(w, c, T) = Find(m, c, S)
  <2>1. m.size \in Sizes /\ w.size = m.size /\ Find(m, c, S) # Endless /\ Find(m, c, S) \in T
    BY <1>2, <1>3, <1>4, <1>9
  <2> QED BY <1>1, <1>12, <2>1, FindKeeps
<1>14. GetFinds(w, c) = h
  BY <1>3, <1>13
<1> QED BY <1>4, <1>8, <1>14 DEF Holds

\* hashmap_delete keeps IInv.
LEMMA DeleteInv ==
  ASSUME IInv, NEW k \in Key, hashmap_delete(k)
  PROVE  IInv'
<1>1. /\ Sound(map) /\ map.use <= MaxUse
      /\ stored \in [Key -> Value \union {NULL}]
      /\ failed \in BOOLEAN
      /\ \A c \in Key : stored[c] # NULL => Lookup(c) = stored[c]
  BY IInvIs
<1> DEFINE i == DeleteFinds(map, k)
           n == map.size
           w == Unkeyed(map, i)
<1>2. /\ deleted' = TRUE /\ failed' = failed
      /\ hung' = (i = Endless)
      /\ stored' = [stored EXCEPT ![k] = IF i = Endless THEN stored[k] ELSE NULL]
      /\ map' = IF i # Endless /\ map.entrys[i].key = k THEN w ELSE map
  BY DEF hashmap_delete, Unkeyed
<1>3. n \in Sizes /\ map \in Table(n) /\ n \in Nat /\ map.use \in Nat /\ Cardinality(Keyed(map)) \in Nat
  <2>1. n \in Sizes /\ map \in Table(n)
    BY <1>1 DEF Sound
  <2>2. n \in Nat
    BY <2>1, SizeFacts
  <2> QED BY <2>1, <2>2, TableType, KeyedFinite
<1>4. LoadBounded' /\ CallsReturn'
  BY <1>2 DEF LoadBounded, CallsReturn
<1>5. stored' \in [Key -> Value \union {NULL}] /\ hung' \in BOOLEAN
  BY <1>1, <1>2
<1>6. \A c \in Key : stored[c] # NULL => Holds(map, c, stored[c])
  <2> SUFFICES ASSUME NEW c \in Key, stored[c] # NULL PROVE Holds(map, c, stored[c])
    OBVIOUS
  <2>1. stored[c] \in Value /\ Lookup(c) = stored[c]
    BY <1>1
  <2> QED BY <2>1, LookupIs
<1>7. CASE i # Endless /\ map.entrys[i].key = k
  <2>1. i \in 0 .. n - 1
    BY <1>3, <1>7, FindFacts DEF DeleteFinds
  <2>2. map' = w
    BY <1>2, <1>7
  <2>3. w \in Table(n) /\ w.use = map.use /\ Lost(n, map, w, i)
    <3> HIDE DEF n, i
    <3> QED BY <1>3, <2>1, DeleteIs
  <2>4. stored' = [stored EXCEPT ![k] = NULL]
    BY <1>2, <1>7
  <2> HIDE DEF w, i, n
  <2>5. Cardinality(Keyed(w)) = Cardinality(Keyed(map)) - 1
    <3>1. map.entrys[i].key # NULL
      BY <1>7, NullAssumption
    <3> QED BY <1>3, <2>1, <2>3, <3>1, DeleteKeyed
  <2>6. w.size = n
    BY <1>3, <2>3, TableType
  <2>7. Sound(w)
    <3>1. Cardinality(Keyed(map)) <= map.use
      BY <1>1 DEF Sound
    <3>2. Cardinality(Keyed(w)) <= w.use /\ Cardinality(Keyed(w)) # w.use
      BY <1>3, <2>3, <2>5, <3>1
    <3> QED BY <1>3, <2>3, <2>6, <3>2 DEF Sound
  <2>8. ASSUME NEW c \in Key, stored'[c] # NULL PROVE Lookup(c)' = stored'[c]
    <3>1. c # k /\ stored'[c] = stored[c] /\ stored'[c] \in Value
      BY <1>1, <2>4, <2>8
    <3>2. Holds(map, c, stored[c])
      BY <1>6, <2>8, <3>1
    <3>3. Holds(w, c, stored[c])
      <4>1. c \in Key \ {k} /\ map.entrys[i].key = k
        BY <1>7, <3>1
      <4> QED BY <1>3, <2>1, <2>3, <3>2, <4>1, DeleteHolds
    <3> QED BY <2>2, <3>1, <3>3, LookupNext
  <2>9. map'.use <= MaxUse
    BY <1>1, <2>2, <2>3
  <2> QED BY <1>1, <1>2, <1>4, <1>5, <2>2, <2>7, <2>8, <2>9
          DEF IInv, TypeOK, UseInv, StoredIsFound, Sound
<1>8. CASE ~(i # Endless /\ map.entrys[i].key = k)
  <2>1. map' = map
    BY <1>2, <1>8
  <2>2. ASSUME NEW c \in Key, stored'[c] # NULL PROVE Lookup(c)' = stored'[c]
    <3>1. stored'[c] = stored[c] /\ stored'[c] \in Value
      BY <1>1, <1>2, <2>2
    <3>2. Holds(map, c, stored[c])
      BY <1>6, <2>2, <3>1
    <3> QED BY <2>1, <3>1, <3>2, LookupNext
  <2> QED BY <1>1, <1>2, <1>4, <1>5, <2>1, <2>2
          DEF IInv, TypeOK, UseInv, StoredIsFound, Sound
<1> QED BY <1>7, <1>8
-----------------------------------------------------------------------------
(* hashmap_map.                                                            *)

\* hashmap_map meets every entry that has a key before it met use of them.
LEMMA SeenIsKeyed ==
  ASSUME NEW n \in Nat, NEW m \in Table(n), Cardinality(Keyed(m)) <= m.use, NEW i \in Keyed(m)
  PROVE  Cardinality({j \in Keyed(m) : j < i}) < m.use
<1>1. i \in 0 .. n - 1 /\ i \in 0 .. n /\ i + 1 \in 0 .. n
  <2>1. i \in 0 .. n - 1
    BY KeyedIs
  <2> QED BY <2>1
<1>2. Cardinality(Below(m, i + 1)) = Cardinality(Below(m, i)) + 1
  BY <1>1, BelowGrows
<1>3. Cardinality(Below(m, i)) \in Nat
  BY <1>1, BelowFacts
<1>4. Cardinality(Below(m, i + 1)) <= Cardinality(Keyed(m))
  BY <1>1, BelowFacts
<1>5. Cardinality(Keyed(m)) \in Nat /\ m.use \in Nat
  BY KeyedFinite, TableType
<1>6. Cardinality(Below(m, i)) < m.use
  BY <1>2, <1>3, <1>4, <1>5
<1> QED BY <1>6 DEF Below

\* The same keys and tombstones.
SameIn(n, m, w) ==
  \A j \in 0 .. n - 1 : w.entrys[j].key = m.entrys[j].key /\ w.entrys[j].isdel = m.entrys[j].isdel

\* Searches depend on them only.
LEMMA SameKeys ==
  ASSUME NEW n \in Sizes, NEW m \in Table(n), NEW w \in Table(n), SameIn(n, m, w)
  PROVE  /\ Keyed(w) = Keyed(m)
         /\ Intact(m) => Intact(w)
         /\ \A c : GetFinds(w, c) = GetFinds(m, c)
<1>1. n \in Nat
  BY SizeFacts
<1>2. m.size = n /\ w.size = n
  BY <1>1, TableType
<1>3. Keyed(w) = Keyed(m)
  <2>1. \A j : j \in Keyed(m) <=> j \in 0 .. n - 1 /\ m.entrys[j].key # NULL
    BY <1>1, KeyedIs
  <2>2. \A j : j \in Keyed(w) <=> j \in 0 .. n - 1 /\ w.entrys[j].key # NULL
    BY <1>1, KeyedIs
  <2>3. \A j : j \in Keyed(w) <=> j \in Keyed(m)
    BY <2>1, <2>2 DEF SameIn
  <2> QED BY <2>3
<1>4. Free(w, TRUE) = Free(m, TRUE)
  <2>1. \A j : j \in Free(m, TRUE) <=> /\ j \in 0 .. n - 1 /\ m.entrys[j].key = NULL
                                       /\ m.entrys[j].isdel = TRUE
    BY <1>1, TableFacts
  <2>2. \A j : j \in Free(w, TRUE) <=> /\ j \in 0 .. n - 1 /\ w.entrys[j].key = NULL
                                       /\ w.entrys[j].isdel = TRUE
    BY <1>1, TableFacts
  <2>3. \A j : j \in Free(w, TRUE) <=> j \in Free(m, TRUE)
    BY <2>1, <2>2 DEF SameIn
  <2> QED BY <2>3
<1>5. ASSUME NEW c PROVE GetFinds(w, c) = GetFinds(m, c)
  <2>1. \A j : j \in GetStops(m, c) <=> /\ j \in 0 .. n - 1
                                        /\ \/ m.entrys[j].key = c
                                           \/ m.entrys[j].key = NULL /\ m.entrys[j].isdel = FALSE
    BY <1>1, GetStopsIs
  <2>2. \A j : j \in GetStops(w, c) <=> /\ j \in 0 .. n - 1
                                        /\ \/ w.entrys[j].key = c
                                           \/ w.entrys[j].key = NULL /\ w.entrys[j].isdel = FALSE
    BY <1>1, GetStopsIs
  <2>3. \A j : j \in GetStops(w, c) <=> j \in GetStops(m, c)
    BY <2>1, <2>2 DEF SameIn
  <2>4. GetStops(w, c) = GetStops(m, c)
    BY <2>3
  <2>5. GetFinds(m, c) = Find(m, c, GetStops(m, c)) /\ GetFinds(w, c) = Find(w, c, GetStops(w, c))
    BY DEF GetFinds, GetStops
  <2>6. Find(w, c, GetStops(m, c)) = Find(m, c, GetStops(m, c))
    BY <1>2 DEF Find
  <2> QED BY <2>4, <2>5, <2>6
<1>6. ASSUME Intact(m) PROVE Intact(w)
  <2>1. Free(m, TRUE) = {} /\ \A j \in Keyed(m) : GetFinds(m, m.entrys[j].key) = j
    BY <1>6 DEF Intact
  <2>2. ASSUME NEW j \in Keyed(w) PROVE GetFinds(w, w.entrys[j].key) = j
    <3>1. j \in Keyed(m) /\ j \in 0 .. n - 1
      BY <1>1, <1>3, KeyedIs
    <3>2. w.entrys[j].key = m.entrys[j].key /\ GetFinds(m, m.entrys[j].key) = j
      BY <2>1, <3>1 DEF SameIn
    <3> QED BY <1>5, <3>2
  <2> QED BY <1>4, <2>1, <2>2 DEF Intact
<1> QED BY <1>3, <1>5, <1>6

\* hashmap_map with a function that returns v.
Mapped(m, seen, v) ==
  [m EXCEPT !.entrys = [i \in DOMAIN @ |-> IF i \in seen THEN [@[i] EXCEPT !.value = v] ELSE @[i]]]

\* Keys and tombstones stay, and the entries seen get the value.
LEMMA MappedIs ==
  ASSUME NEW n \in Sizes, NEW m \in Table(n), NEW seen, NEW v \in Value
  PROVE  /\ Mapped(m, seen, v) \in Table(n) /\ Mapped(m, seen, v).use = m.use
         /\ SameIn(n, m, Mapped(m, seen, v))
         /\ \A i \in 0 .. n - 1 : i \in seen => Mapped(m, seen, v).entrys[i].value = v
<1> DEFINE e(i) == IF i \in seen THEN [m.entrys[i] EXCEPT !.value = v] ELSE m.entrys[i]
           f == [i \in 0 .. n - 1 |-> e(i)]
           w == Mapped(m, seen, v)
<1>1. m.use \in Nat /\ m.entrys \in [0 .. n - 1 -> Entry] /\ DOMAIN m.entrys = 0 .. n - 1
  <2>1. m.use \in Nat /\ m.entrys \in [0 .. n - 1 -> Entry]
    BY SizeFacts, TableType
  <2> QED BY <2>1
<1>2. ASSUME NEW i \in 0 .. n - 1
      PROVE  /\ e(i) \in Entry /\ e(i).key = m.entrys[i].key /\ e(i).isdel = m.entrys[i].isdel
             /\ i \in seen => e(i).value = v
  <2>1. m.entrys[i] \in [key : Key \union {NULL}, value : Value \union {NULL}, isdel : BOOLEAN]
    BY <1>1 DEF Entry
  <2>2. CASE i \in seen
    <3>1. e(i) = [m.entrys[i] EXCEPT !.value = v]
      BY <2>2
    <3> HIDE DEF e
    <3> QED BY <2>1, <3>1 DEF Entry
  <2>3. CASE i \notin seen
    BY <2>1, <2>3 DEF Entry
  <2> QED BY <2>2, <2>3
<1>3. w = Write(m, f, m.use)
  BY <1>1 DEF Mapped, Write, Table
<1> HIDE DEF e, w
<1>4. f \in [0 .. n - 1 -> Entry] /\ \A i \in 0 .. n - 1 : f[i] = e(i)
  BY <1>2
<1> HIDE DEF f
<1>5. Write(m, f, m.use) \in Table(n) /\ Write(m, f, m.use).use = m.use /\ Write(m, f, m.use).entrys = f
  BY <1>1, <1>4, Written
<1>6. w \in Table(n) /\ w.use = m.use /\ w.entrys = f
  BY <1>3, <1>5
<1>7. SameIn(n, m, w)
  BY <1>2, <1>4, <1>6 DEF SameIn
<1>8. \A i \in 0 .. n - 1 : i \in seen => w.entrys[i].value = v
  BY <1>2, <1>4, <1>6
<1> QED BY <1>6, <1>7, <1>8 DEF w

\* hashmap_map keeps IInv.
LEMMA MapInv ==
  ASSUME IInv, NEW v \in Value, hashmap_map(v)
  PROVE  IInv'
<1>1. /\ Sound(map) /\ map.use <= MaxUse
      /\ stored \in [Key -> Value \union {NULL}]
      /\ deleted \in BOOLEAN /\ failed \in BOOLEAN /\ hung \in BOOLEAN
      /\ ~deleted => Cardinality(Keyed(map)) = map.use
      /\ \A c \in Key : stored[c] # NULL => Lookup(c) = stored[c]
      /\ LoadBounded /\ CallsReturn
  BY IInvIs
<1> DEFINE n == map.size
           keys == Keyed(map)
           seen == {i \in keys : Cardinality({j \in keys : j < i}) < map.use}
           w == Mapped(map, seen, v)
<1>2. /\ map' = w
      /\ stored' = [k \in Key |-> IF stored[k] = NULL THEN NULL ELSE v]
      /\ deleted' = deleted /\ failed' = failed /\ hung' = hung
  BY DEF hashmap_map, Mapped
<1>3. n \in Sizes /\ n \in Nat /\ map \in Table(n) /\ Cardinality(keys) <= map.use
  <2>1. n \in Sizes /\ map \in Table(n) /\ Cardinality(keys) <= map.use
    BY <1>1 DEF Sound
  <2> QED BY <2>1, SizeFacts
<1>4. \A i \in keys : i \in seen
  BY <1>3, SeenIsKeyed
<1> HIDE DEF seen
<1>5. /\ w \in Table(n) /\ w.use = map.use /\ SameIn(n, map, w)
      /\ \A i \in 0 .. n - 1 : i \in seen => w.entrys[i].value = v
  BY <1>3, MappedIs
<1> HIDE DEF w
<1>6. /\ Keyed(w) = keys
      /\ Intact(map) => Intact(w)
      /\ \A c : GetFinds(w, c) = GetFinds(map, c)
  BY <1>3, <1>5, SameKeys
<1>7. w.size = n
  BY <1>3, <1>5, TableType
<1>8. Sound(w)
  BY <1>1, <1>3, <1>5, <1>6, <1>7 DEF Sound
<1>9. ASSUME NEW c \in Key, stored'[c] # NULL PROVE Lookup(c)' = stored'[c]
  <2>1. stored[c] # NULL /\ stored'[c] = v
    BY <1>2, <1>9
  <2>2. stored[c] \in Value /\ Lookup(c) = stored[c]
    BY <1>1, <2>1
  <2>3. Holds(map, c, stored[c])
    BY <2>2, LookupIs
  <2> DEFINE h == GetFinds(map, c)
  <2>4. h # Endless /\ map.entrys[h].key = c
    BY <2>3 DEF Holds
  <2>5. h \in 0 .. n - 1
    BY <1>3, <2>4, PutGetFacts
  <2>6. h \in keys
    <3>1. \A i : i \in keys <=> i \in 0 .. n - 1 /\ map.entrys[i].key # NULL
      BY <1>3, KeyedIs
    <3>2. c # NULL
      BY NullAssumption
    <3> QED BY <2>4, <2>5, <3>1, <3>2
  <2>7. w.entrys[h].value = v
    BY <1>4, <1>5, <2>5, <2>6
  <2>8. w.entrys[h].key = c
    BY <1>5, <2>4, <2>5 DEF SameIn
  <2>9. Holds(w, c, v)
    BY <1>6, <2>4, <2>7, <2>8 DEF Holds
  <2> QED BY <1>2, <2>1, <2>9, LookupNext
<1>10. stored' \in [Key -> Value \union {NULL}]
  BY <1>1, <1>2
<1>11. LoadBounded' /\ CallsReturn'
  BY <1>1, <1>2, <1>5, <1>7 DEF LoadBounded, CallsReturn
<1>12. map'.use <= MaxUse
  BY <1>1, <1>2, <1>5
<1> QED BY <1>1, <1>2, <1>5, <1>6, <1>8, <1>9, <1>10, <1>11, <1>12
        DEF IInv, TypeOK, UseInv, StoredIsFound, Sound

\* No step, and no call that never returns.
LEMMA StutterInv ==
  ASSUME IInv, UNCHANGED vars
  PROVE  IInv'
<1>1. map' = map /\ stored' = stored /\ deleted' = deleted /\ failed' = failed /\ hung' = hung
  BY DEF vars
<1>2. \A c \in Key : Lookup(c)' = Lookup(c)
  BY <1>1 DEF Lookup
<1> QED BY <1>1, <1>2 DEF IInv, TypeOK, UseInv, StoredIsFound, LoadBounded, CallsReturn

\* IInv is inductive: whatever is stored, fetched, deleted and mapped, in
\* whatever order, it holds after every call of hashmap.c.
THEOREM Invariance == Spec => []IInv
<1>1. Init => IInv
  BY InitInv
<1>2. IInv /\ [Next]_vars => IInv'
  <2> SUFFICES ASSUME IInv, [Next]_vars PROVE IInv'
    OBVIOUS
  <2>1. ASSUME NEW k \in Key, NEW v \in Value, hashmap_put(k, v) PROVE IInv'
    BY <2>1, PutInv
  <2>2. ASSUME NEW k \in Key, hashmap_get(k) PROVE IInv'
    BY <2>2, GetInv
  <2>3. ASSUME NEW k \in Key, hashmap_delete(k) PROVE IInv'
    BY <2>3, DeleteInv
  <2>4. ASSUME NEW v \in Value, hashmap_map(v) PROVE IInv'
    BY <2>4, MapInv
  <2>5. CASE Spin
    BY <2>5, StutterInv DEF Spin
  <2>6. CASE UNCHANGED vars
    BY <2>6, StutterInv
  <2> QED BY <2>1, <2>2, <2>3, <2>4, <2>5, <2>6 DEF Next
<1> QED BY <1>1, <1>2, PTL DEF Spec

\* A key that was stored and not deleted since is found with the value that
\* was stored last: nothing is lost when keys collide, when entries are
\* deleted and taken again, when _hashmap_resize moves them, or when malloc
\* fails and the table stays as it is.
THEOREM NothingIsLost == Spec => []StoredIsFound
<1>1. IInv => StoredIsFound
  BY DEF IInv
<1> QED BY <1>1, Invariance, PTL

\* As long as no entry was deleted and hashmap_new did not fail in
\* _hashmap_resize, the table is never loaded by more than two thirds and one
\* entry, and hashmap_put and hashmap_get return, whatever the keys hash to: the
\* table is never full, and a search that goes on for long enough looks at each
\* of its entries.
THEOREM TableGrowsInTime == Spec => []GrowsInTime
<1>1. IInv => GrowsInTime
  BY DEF IInv, GrowsInTime
<1> QED BY <1>1, Invariance, PTL

-----------------------------------------------------------------------------
(* What use counts when entries are deleted.                               *)

\* The entries that were used are some of the table, or all of them.
LEMMA UsedFacts ==
  ASSUME NEW n \in Nat, NEW m \in Table(n)
  PROVE  /\ \A i : i \in Used(m) <=> i \in 0 .. n - 1 /\ (m.entrys[i].key # NULL \/ m.entrys[i].isdel)
         /\ IsFiniteSet(Used(m)) /\ Cardinality(Used(m)) \in Nat
         /\ Cardinality(Used(m)) < n => \E z \in 0 .. n - 1 : z \notin Used(m)
<1>1. m.entrys \in [0 .. n - 1 -> Entry]
  BY TableType
<1>2. \A i : i \in Used(m) <=> i \in 0 .. n - 1 /\ (m.entrys[i].key # NULL \/ m.entrys[i].isdel)
  BY <1>1 DEF Used
<1>3. IsFiniteSet(0 .. n - 1) /\ Cardinality(0 .. n - 1) = n
  BY FS_Interval
<1>4. Used(m) \subseteq 0 .. n - 1
  BY <1>2
<1>5. IsFiniteSet(Used(m))
  BY <1>3, <1>4, FS_Subset
<1>6. Cardinality(Used(m)) \in Nat
  BY <1>5, FS_CardinalityType
<1>7. ASSUME Cardinality(Used(m)) < n PROVE \E z \in 0 .. n - 1 : z \notin Used(m)
  <2> SUFFICES ASSUME 0 .. n - 1 \subseteq Used(m) PROVE FALSE
    OBVIOUS
  <2>1. Used(m) = 0 .. n - 1
    BY <1>4
  <2> QED BY <1>3, <1>6, <1>7, <2>1
<1> QED BY <1>2, <1>5, <1>6, <1>7

\* As long as use is below the size, every search of put and get ends.
LEMMA RoomEnds ==
  ASSUME NEW m, Sound(m), Cardinality(Used(m)) <= m.use, m.use < m.size, NEW k \in Key
  PROVE  PutFinds(m, k) # Endless /\ GetFinds(m, k) # Endless
<1> DEFINE n == m.size
<1>1. n \in Sizes /\ m \in Table(n) /\ n \in Nat
  BY SizeFacts DEF Sound
<1>2. m.use \in Nat /\ Cardinality(Used(m)) \in Nat
  BY <1>1, TableType, UsedFacts
<1>3. Cardinality(Used(m)) < n
  BY <1>1, <1>2
<1>4. PICK z \in 0 .. n - 1 : z \notin Used(m)
  BY <1>1, <1>3, UsedFacts
<1>5. m.entrys[z].key = NULL /\ ~m.entrys[z].isdel /\ m.entrys[z].isdel \in BOOLEAN
  BY <1>1, <1>4, UsedFacts, TableFacts
<1>6. m.entrys[z].isdel = FALSE
  BY <1>5
<1>7. /\ PutFinds(m, k) = Endless => \A i \in 0 .. n - 1 : m.entrys[i].key \notin {k, NULL}
      /\ GetFinds(m, k) = Endless =>
           \A i \in 0 .. n - 1 : m.entrys[i].key # k /\ (m.entrys[i].key = NULL => m.entrys[i].isdel # FALSE)
  BY <1>1, PutGetFacts
<1> QED BY <1>4, <1>5, <1>6, <1>7

\* A resize that succeeds leaves no tombstone, and counts the keys.
LEMMA GrownUsed ==
  ASSUME NEW m, Sound(m), m.use <= MaxUse, NEW ok \in BOOLEAN, Cardinality(Used(m)) <= m.use
  PROVE  Cardinality(Used(Grown(m, ok))) <= Grown(m, ok).use
<1> DEFINE n == m.size
           r == _hashmap_resize(m)
           card == Cardinality(Keyed(m))
<1>1. n \in Sizes /\ m \in Table(n) /\ card <= m.use /\ (card = m.use => Intact(m))
  BY DEF Sound
<1>2. n \in Nat /\ m.use \in Nat /\ card \in Nat
  <2>1. n \in Nat
    BY <1>1, SizeFacts
  <2> QED BY <1>1, <2>1, TableType, KeyedFinite
<1>3. CASE ~(IsLoaded(m) /\ ok)
  BY <1>3 DEF Grown
<1>4. CASE IsLoaded(m) /\ ok
  <2>1. Grown(m, ok) = r
    BY <1>4 DEF Grown
  <2>2. CASE card < m.use
    <3>1. r = m
      BY <1>1, <1>2, <2>2, ResizeFacts
    <3> QED BY <2>1, <3>1
  <2>3. CASE card = m.use
    <3>1. 2 * n \in Sizes
      <4>1. m.use * 3 >= n * 2
        BY <1>4 DEF IsLoaded
      <4> QED BY <1>1, <1>2, <4>1, SizeDoubles
    <3>2. /\ r \in Table(2 * n) /\ r.use = m.use /\ Cardinality(Keyed(r)) = r.use
          /\ Intact(r)
      BY <1>1, <1>2, <2>3, <3>1, ResizeFacts
    <3> HIDE DEF r
    <3>3. 2 * n \in Nat
      BY <1>2
    <3>4. Free(r, TRUE) = {}
      BY <3>2 DEF Intact
    <3>5. \A i : i \in Used(r) <=> i \in Keyed(r)
      <4>1. /\ \A i : i \in Used(r) <=> i \in 0 .. 2 * n - 1 /\ (r.entrys[i].key # NULL \/ r.entrys[i].isdel)
            /\ \A i : i \in Keyed(r) <=> i \in 0 .. 2 * n - 1 /\ r.entrys[i].key # NULL
        BY <3>2, <3>3, UsedFacts, KeyedIs
      <4>2. \A i \in 0 .. 2 * n - 1 : r.entrys[i].isdel = TRUE => r.entrys[i].key # NULL
        <5>1. \A i : i \in Free(r, TRUE) <=> /\ i \in 0 .. 2 * n - 1 /\ r.entrys[i].key = NULL
                                             /\ r.entrys[i].isdel = TRUE
          BY <3>2, <3>3, TableFacts
        <5> QED BY <3>4, <5>1
      <4>3. \A i \in 0 .. 2 * n - 1 : r.entrys[i].isdel \in BOOLEAN
        BY <3>2, <3>3, TableFacts
      <4> QED BY <4>1, <4>2, <4>3
    <3>6. Used(r) = Keyed(r)
      BY <3>5
    <3>7. Cardinality(Used(r)) <= r.use
      BY <1>2, <3>2, <3>6
    <3> QED BY <2>1, <3>7
  <2>4. card < m.use \/ card = m.use
    <3> HIDE DEF card
    <3> QED BY <1>1, <1>2
  <2> QED BY <2>2, <2>3, <2>4
<1> QED BY <1>3, <1>4

\* A put that takes an entry counts it.
LEMMA StoreUsed ==
  ASSUME NEW m, Sound(m), NEW k \in Key, NEW v \in Value \union {NULL}, PutFinds(m, k) # Endless,
         Cardinality(Used(m)) <= m.use
  PROVE  Cardinality(Used(Store(m, k, v))) <= Store(m, k, v).use
<1> DEFINE n == m.size
           i == PutFinds(m, k)
           w == Store(m, k, v)
<1>1. n \in Sizes /\ m \in Table(n)
  BY DEF Sound
<1>2. /\ i \in 0 .. n - 1
      /\ w \in Table(n)
      /\ w.use = IF m.entrys[i].key = NULL THEN m.use + 1 ELSE m.use
      /\ w.entrys[i] = [key |-> k, value |-> v, isdel |-> FALSE]
      /\ \A j \in 0 .. n - 1 : j # i => w.entrys[j] = m.entrys[j]
  BY <1>1, StoreIs
<1> HIDE DEF i, w
<1>3. n \in Nat /\ m.use \in Nat /\ k # NULL
  <2>1. n \in Nat
    BY <1>1, SizeFacts
  <2> QED BY <1>1, <2>1, TableType, NullAssumption
<1> HIDE DEF n
<1>4. /\ \A j : j \in Used(m) <=> j \in 0 .. n - 1 /\ (m.entrys[j].key # NULL \/ m.entrys[j].isdel)
      /\ IsFiniteSet(Used(m)) /\ Cardinality(Used(m)) \in Nat
  BY <1>1, <1>3, UsedFacts
<1>5. \A j : j \in Used(w) <=> j \in 0 .. n - 1 /\ (w.entrys[j].key # NULL \/ w.entrys[j].isdel)
  BY <1>2, <1>3, UsedFacts
<1>6. w.entrys[i].key = k
  BY <1>2
<1>7. Used(w) = Used(m) \union {i}
  <2>1. \A j : j \in Used(w) <=> j \in Used(m) \/ j = i
    BY <1>2, <1>3, <1>4, <1>5, <1>6
  <2> QED BY <2>1
<1>8. Cardinality(Used(w)) = IF i \in Used(m) THEN Cardinality(Used(m)) ELSE Cardinality(Used(m)) + 1
  <2>1. IsFiniteSet(Used(m))
    BY <1>4
  <2>2. Cardinality(Used(m) \union {i}) =
          IF i \in Used(m) THEN Cardinality(Used(m)) ELSE Cardinality(Used(m)) + 1
    BY <2>1, FS_AddElement
  <2> QED BY <1>7, <2>2
<1>9. i \notin Used(m) => w.use = m.use + 1
  BY <1>2, <1>4
<1>10. w.use >= m.use
  BY <1>2, <1>3
<1>11. Cardinality(Used(w)) <= w.use
  <2>1. w.use \in Nat
    BY <1>2, <1>3
  <2> QED BY <1>3, <1>4, <1>8, <1>9, <1>10, <2>1
<1> QED BY <1>11 DEF w

\* A table whose entries were used where those of another were has as many.
LEMMA SameUsed ==
  ASSUME NEW n \in Nat, NEW m \in Table(n), NEW w \in Table(n),
         \A j \in 0 .. n - 1 : (w.entrys[j].key # NULL \/ w.entrys[j].isdel)
                               <=> (m.entrys[j].key # NULL \/ m.entrys[j].isdel)
  PROVE  Used(w) = Used(m)
<1>1. \A j : j \in Used(w) <=> j \in Used(m)
  BY UsedFacts
<1> QED BY <1>1

\* use counts every entry that has or had a key.
LEMMA UsedStep == IInv /\ UsedInv /\ [Next]_vars => UsedInv'
<1> SUFFICES ASSUME IInv, UsedInv, [Next]_vars PROVE Cardinality(Used(map')) <= map'.use
  BY DEF UsedInv, Used
<1> DEFINE n == map.size
<1>1. Sound(map) /\ map.use <= MaxUse /\ Cardinality(Used(map)) <= map.use
  BY IInvIs DEF UsedInv
<1>2. n \in Sizes /\ map \in Table(n) /\ n \in Nat
  BY <1>1, SizeFacts DEF Sound
<1> HIDE DEF n
<1>3. ASSUME NEW k \in Key, NEW v \in Value, hashmap_put(k, v)
      PROVE  Cardinality(Used(map')) <= map'.use
  <2>1. PICK ok \in BOOLEAN :
          LET m == Grown(map, ok) IN
          \/ PutFinds(m, k) # Endless /\ map' = Store(m, k, v)
          \/ map' = m
    BY <1>3 DEF hashmap_put
  <2> DEFINE m == Grown(map, ok)
  <2>2. Sound(m) /\ Cardinality(Used(m)) <= m.use
    BY <1>1, GrownFacts, GrownUsed
  <2>3. CASE map' = m
    BY <2>2, <2>3
  <2>4. CASE PutFinds(m, k) # Endless /\ map' = Store(m, k, v)
    <3> HIDE DEF m
    <3>1. Cardinality(Used(Store(m, k, v))) <= Store(m, k, v).use
      BY <2>2, <2>4, StoreUsed
    <3> QED BY <2>4, <3>1
  <2> QED BY <2>1, <2>3, <2>4
<1>4. ASSUME NEW k \in Key, hashmap_get(k) PROVE Cardinality(Used(map')) <= map'.use
  BY <1>1, <1>4 DEF hashmap_get
<1>5. ASSUME NEW k \in Key, hashmap_delete(k) PROVE Cardinality(Used(map')) <= map'.use
  <2> DEFINE i == DeleteFinds(map, k)
             w == Unkeyed(map, i)
  <2>1. map' = IF i # Endless /\ map.entrys[i].key = k THEN w ELSE map
    BY <1>5 DEF hashmap_delete, Unkeyed
  <2>2. CASE i # Endless /\ map.entrys[i].key = k
    <3>1. i \in 0 .. n - 1
      BY <1>2, <2>2, FindFacts DEF DeleteFinds, n
    <3> HIDE DEF i
    <3>2. w \in Table(n) /\ w.use = map.use /\ Lost(n, map, w, i)
      BY <1>2, <3>1, DeleteIs
    <3> HIDE DEF w
    <3>3. Used(w) = Used(map)
      <4>1. map.entrys[i].key # NULL
        BY <2>2, NullAssumption
      <4>2. \A j \in 0 .. n - 1 : (w.entrys[j].key # NULL \/ w.entrys[j].isdel)
                                  <=> (map.entrys[j].key # NULL \/ map.entrys[j].isdel)
        BY <3>2, <4>1 DEF Lost
      <4> QED BY <1>2, <3>2, <4>2, SameUsed
    <3> QED BY <1>1, <2>1, <2>2, <3>2, <3>3
  <2>3. CASE ~(i # Endless /\ map.entrys[i].key = k)
    BY <1>1, <2>1, <2>3
  <2> QED BY <2>2, <2>3
<1>6. ASSUME NEW v \in Value, hashmap_map(v) PROVE Cardinality(Used(map')) <= map'.use
  <2> DEFINE seen == {i \in Keyed(map) : Cardinality({j \in Keyed(map) : j < i}) < map.use}
             w == Mapped(map, seen, v)
  <2>1. map' = w
    BY <1>6 DEF hashmap_map, Mapped
  <2> HIDE DEF seen
  <2>2. w \in Table(n) /\ w.use = map.use /\ SameIn(n, map, w)
    BY <1>2, MappedIs
  <2> HIDE DEF w
  <2>3. Used(w) = Used(map)
    BY <1>2, <2>2, SameUsed DEF SameIn
  <2> QED BY <1>1, <2>1, <2>2, <2>3
<1>7. CASE UNCHANGED vars
  BY <1>1, <1>7 DEF vars
<1> QED BY <1>3, <1>4, <1>5, <1>6, <1>7 DEF Next, Spin

\* Whatever was deleted and whether malloc failed or not, hashmap_put and
\* hashmap_get return as long as use is below the size: use counts every entry
\* that was used, so that one is left that never was, and the probes visit it.
THEOREM SearchesWithRoomReturn == Spec => []ReturnsWithRoom
<1>1. Init => UsedInv
  <2> SUFFICES ASSUME Init PROVE Cardinality(Used(map)) <= map.use
    BY DEF UsedInv
  <2>1. /\ InitSize \in Nat /\ map \in Table(InitSize) /\ map.use = 0
        /\ Keyed(map) = {} /\ Free(map, TRUE) = {}
    BY InitSizeFacts, NewFacts DEF Init
  <2>2. Used(map) = {}
    <3>1. \A i \in 0 .. InitSize - 1 : map.entrys[i].key = NULL /\ map.entrys[i].isdel \in BOOLEAN
      <4>1. \A i : i \in Keyed(map) <=> i \in 0 .. InitSize - 1 /\ map.entrys[i].key # NULL
        BY <2>1, KeyedIs
      <4>2. \A i \in 0 .. InitSize - 1 : map.entrys[i].isdel \in BOOLEAN
        BY <2>1, TableFacts
      <4> QED BY <2>1, <4>1, <4>2
    <3>2. \A i \in 0 .. InitSize - 1 : map.entrys[i].isdel # TRUE
      <4>1. \A i : i \in Free(map, TRUE) <=> /\ i \in 0 .. InitSize - 1 /\ map.entrys[i].key = NULL
                                             /\ map.entrys[i].isdel = TRUE
        BY <2>1, TableFacts
      <4> QED BY <2>1, <3>1, <4>1
    <3>3. \A i : i \in Used(map) <=> /\ i \in 0 .. InitSize - 1
                                     /\ map.entrys[i].key # NULL \/ map.entrys[i].isdel
      BY <2>1, UsedFacts
    <3>4. \A i : i \notin Used(map)
      BY <3>1, <3>2, <3>3
    <3> QED BY <3>4
  <2> QED BY <2>1, <2>2, FS_EmptySet
<1>2. IInv /\ UsedInv => ReturnsWithRoom
  <2> SUFFICES ASSUME IInv, UsedInv, map.use < map.size, NEW k \in Key, NEW ok \in BOOLEAN
               PROVE  GetFinds(map, k) # Endless /\ PutFinds(Grown(map, ok), k) # Endless
    BY DEF ReturnsWithRoom
  <2> DEFINE g == Grown(map, ok)
  <2>1. Sound(map) /\ map.use <= MaxUse /\ Cardinality(Used(map)) <= map.use
    BY IInvIs DEF UsedInv
  <2>2. /\ Sound(g) /\ g.use = map.use /\ Cardinality(Used(g)) <= g.use
        /\ g.size = map.size \/ g.size = 2 * map.size
    BY <2>1, GrownFacts, GrownUsed
  <2> HIDE DEF g
  <2>3. map.size \in Nat /\ map.use \in Nat
    <3>1. map.size \in Nat
      BY <2>1, SizeFacts DEF Sound
    <3> QED BY <2>1, <3>1, TableType DEF Sound
  <2>4. g.use < g.size
    BY <2>2, <2>3
  <2> QED BY <2>1, <2>2, <2>4, RoomEnds DEF g
<1> QED BY <1>1, <1>2, Invariance, UsedStep, PTL DEF Spec
-----------------------------------------------------------------------------
(* Deleting.                                                               *)

\* A search for a key to delete ends at an entry with that key or at a deleted
\* one, and it ends if the table has any of them.
LEMMA DeleteStops ==
  ASSUME NEW m, Sound(m), NEW k \in Key
  PROVE  LET i == DeleteFinds(m, k)
         IN  /\ i = Endless => Holding(m, k) = {} /\ Free(m, TRUE) = {}
             /\ i # Endless => i \in 0 .. m.size - 1 /\ i \in Holding(m, k) \union Free(m, TRUE)
<1> DEFINE stops == Holding(m, k) \union Free(m, TRUE)
           n == m.size
<1>1. n \in Sizes /\ m \in Table(n) /\ n \in Nat
  BY SizeFacts DEF Sound
<1>2. stops \subseteq 0 .. n - 1
  <2>1. \A i : i \in Holding(m, k) => i \in 0 .. n - 1
    BY <1>1, HoldingIs
  <2>2. \A i : i \in Free(m, TRUE) => i \in 0 .. n - 1
    BY <1>1, TableFacts
  <2> QED BY <2>1, <2>2
<1>3. /\ Find(m, k, stops) # Endless => Find(m, k, stops) \in stops \intersect (0 .. n - 1)
      /\ Find(m, k, stops) = Endless => stops \intersect (0 .. n - 1) = {}
  BY <1>1, FindFacts
<1> QED BY <1>2, <1>3 DEF DeleteFinds

\* A key that is stored is in the table.
LEMMA StoredIsHeld ==
  ASSUME IInv, NEW k \in Key, stored[k] # NULL
  PROVE  Holding(map, k) # {}
<1>1. Sound(map) /\ stored[k] \in Value /\ Lookup(k) = stored[k]
  BY IInvIs
<1>2. map.size \in Sizes /\ map \in Table(map.size) /\ map.size \in Nat
  BY <1>1, SizeFacts DEF Sound
<1>3. Holds(map, k, stored[k])
  BY <1>1, LookupIs
<1>4. GetFinds(map, k) # Endless /\ map.entrys[GetFinds(map, k)].key = k
  BY <1>3 DEF Holds
<1>5. GetFinds(map, k) \in 0 .. map.size - 1
  BY <1>2, <1>4, PutGetFacts
<1> QED BY <1>2, <1>4, <1>5, HoldingIs

\* In a table from which none was deleted, a key is in one entry only.
LEMMA IntactOnce ==
  ASSUME NEW n \in Nat, NEW m \in Table(n), Intact(m), NEW k \in Key,
         NEW i \in Holding(m, k), NEW j \in Holding(m, k)
  PROVE  i = j
<1>1. /\ i \in 0 .. n - 1 /\ m.entrys[i].key = k
      /\ j \in 0 .. n - 1 /\ m.entrys[j].key = k
  BY HoldingIs
<1>2. i \in Keyed(m) /\ j \in Keyed(m)
  BY <1>1, KeyedIs, NullAssumption
<1> QED BY <1>1, <1>2 DEF Intact

\* hashmap_delete of a key that is stored always returns, and so does one of any
\* key where an entry was deleted before; the first call of hashmap_delete
\* leaves no entry with its key.  What makes it return is that the probes visit
\* the whole table.
THEOREM DeletesOfStoredReturn == Spec => DeletesReturn
<1>1. IInv /\ [Next]_vars => [\A k \in Key : DeleteFindsKey(k)]_vars
  <2> SUFFICES ASSUME IInv, NEW k \in Key, hashmap_delete(k)
               PROVE  /\ hung' => stored[k] = NULL /\ Free(map, TRUE) = {}
                      /\ ~deleted => Holding(map', k) = {}
    BY DEF DeleteFindsKey
  <2> DEFINE i == DeleteFinds(map, k)
             n == map.size
             w == Unkeyed(map, i)
  <2>1. /\ hung' = (i = Endless)
        /\ map' = IF i # Endless /\ map.entrys[i].key = k THEN w ELSE map
    BY DEF hashmap_delete, Unkeyed
  <2>2. /\ Sound(map) /\ n \in Sizes /\ map \in Table(n) /\ n \in Nat
        /\ ~deleted => Intact(map)
    <3>1. Sound(map) /\ (~deleted => Cardinality(Keyed(map)) = map.use)
      BY IInvIs
    <3>2. n \in Sizes /\ map \in Table(n) /\ (Cardinality(Keyed(map)) = map.use => Intact(map))
      BY <3>1 DEF Sound
    <3> QED BY <3>1, <3>2, SizeFacts
  <2>3. /\ i = Endless => Holding(map, k) = {} /\ Free(map, TRUE) = {}
        /\ i # Endless => i \in 0 .. n - 1 /\ i \in Holding(map, k) \union Free(map, TRUE)
    BY <2>2, DeleteStops
  <2>4. hung' => stored[k] = NULL /\ Free(map, TRUE) = {}
    BY <2>1, <2>3, StoredIsHeld
  <2>5. ASSUME ~deleted PROVE Holding(map', k) = {}
    <3>1. Intact(map) /\ Free(map, TRUE) = {}
      BY <2>2, <2>5 DEF Intact
    <3>2. CASE i = Endless
      BY <2>1, <2>3, <3>2
    <3>3. CASE i # Endless
      <4>1. i \in 0 .. n - 1 /\ i \in Holding(map, k)
        BY <2>3, <3>1, <3>3
      <4>2. map.entrys[i].key = k
        BY <2>2, <4>1, HoldingIs
      <4>3. map' = w
        BY <2>1, <3>3, <4>2
      <4> HIDE DEF i, n
      <4>4. w \in Table(n) /\ Lost(n, map, w, i)
        BY <2>2, <4>1, DeleteIs
      <4> HIDE DEF w
      <4>5. k # NULL
        BY NullAssumption
      <4>6. ASSUME NEW j \in Holding(w, k) PROVE FALSE
        <5>1. j \in 0 .. n - 1 /\ w.entrys[j].key = k
          BY <2>2, <4>4, <4>6, HoldingIs
        <5>2. j # i /\ map.entrys[j].key = k
          BY <4>4, <4>5, <5>1 DEF Lost
        <5>3. j \in Holding(map, k)
          BY <2>2, <5>1, <5>2, HoldingIs
        <5>4. n \in Nat /\ map \in Table(n) /\ Intact(map) /\ i \in Holding(map, k)
          BY <2>2, <3>1, <4>1
        <5>5. j = i
          BY ONLY <5>3, <5>4, k \in Key, IntactOnce
        <5> QED BY <5>2, <5>5
      <4> QED BY <4>3, <4>6
    <3> QED BY <3>2, <3>3
  <2> QED BY <2>4, <2>5
<1> QED BY <1>1, Invariance, PTL DEF Spec, DeletesReturn
=============================================================================
