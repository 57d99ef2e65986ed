------------------------- MODULE BufferChainProofs --------------------------
(***************************************************************************)
(* Proofs about BufferChain, for any number of chains and buffers and for  *)
(* all sizes: IInv is inductive.                                           *)
(***************************************************************************)
EXTENDS BufferChain, SequenceTheorems, InductionFacts

-----------------------------------------------------------------------------
(* Runs of numbers, and what a sequence of adjacent ones amounts to.       *)

LEMMA RunFacts ==
  ASSUME NEW a \in Nat, NEW n \in Nat
  PROVE  /\ Run(a, n) \in Seq(Nat) /\ Len(Run(a, n)) = n
         /\ \A i \in 1 .. n : Run(a, n)[i] = a + i
BY DEF Run

LEMMA RunUnique ==
  ASSUME NEW s \in Seq(Nat), NEW a \in Nat, \A i \in 1 .. Len(s) : s[i] = a + i
  PROVE  s = Run(a, Len(s))
<1>1. Len(s) \in Nat
  OBVIOUS
<1> QED BY <1>1, RunFacts, SeqEqual

LEMMA RunConcat ==
  ASSUME NEW a \in Nat, NEW b \in Nat, NEW c \in Nat, a <= b, b <= c
  PROVE  Run(a, b - a) \o Run(b, c - b) = Run(a, c - a)
<1> DEFINE r == Run(a, b - a)
           s == Run(b, c - b)
<1>1. b - a \in Nat /\ c - b \in Nat /\ (b - a) + (c - b) = c - a
  OBVIOUS
<1>2. /\ r \in Seq(Nat) /\ Len(r) = b - a /\ \A i \in 1 .. b - a : r[i] = a + i
      /\ s \in Seq(Nat) /\ Len(s) = c - b /\ \A i \in 1 .. c - b : s[i] = b + i
  BY <1>1, RunFacts
<1> HIDE DEF r, s
<1>3. r \o s \in Seq(Nat) /\ Len(r \o s) = c - a
  <2>1. r \o s \in Seq(Nat) /\ Len(r \o s) = Len(r) + Len(s)
    BY <1>2, ConcatProperties
  <2> QED BY <1>1, <1>2, <2>1
<1>4. ASSUME NEW i \in 1 .. c - a PROVE (r \o s)[i] = a + i
  <2>1. (r \o s)[i] = IF i <= b - a THEN r[i] ELSE s[i - (b - a)]
    BY <1>1, <1>2, <1>4, ConcatProperties
  <2>2. CASE i <= b - a
    BY <1>1, <1>2, <2>1, <2>2
  <2>3. CASE ~(i <= b - a)
    <3>1. i - (b - a) \in 1 .. c - b
      BY <2>3
    <3>2. s[i - (b - a)] = b + (i - (b - a))
      BY <1>2, <3>1
    <3> QED BY <2>1, <2>3, <3>2
  <2> QED BY <2>2, <2>3
<1>5. r \o s = Run(a, c - a)
  BY <1>3, <1>4, RunUnique
<1> QED BY <1>5 DEF r, s

LEMMA RunSub ==
  ASSUME NEW a \in Nat, NEW n \in Nat, NEW i \in 1 .. n + 1, NEW j \in i - 1 .. n
  PROVE  SubSeq(Run(a, n), i, j) = Run(a + (i - 1), j - (i - 1))
<1> DEFINE r == Run(a, n)
           s == SubSeq(r, i, j)
<1>1. /\ r \in Seq(Nat) /\ Len(r) = n /\ \A k \in 1 .. n : r[k] = a + k
      /\ i \in Int /\ j \in Int /\ a + (i - 1) \in Nat /\ j - (i - 1) \in Nat
  BY RunFacts
<1> HIDE DEF r
<1>2. \A k \in i .. j : r[k] \in Nat
  BY <1>1
<1>3. /\ s \in Seq(Nat) /\ Len(s) = j - (i - 1)
      /\ \A k \in 1 .. j - i + 1 : s[k] = r[i + k - 1]
  BY <1>1, <1>2, SubSeqProperties
<1> HIDE DEF s
<1>4. ASSUME NEW k \in 1 .. Len(s) PROVE s[k] = (a + (i - 1)) + k
  <2>1. k \in 1 .. j - i + 1 /\ i + k - 1 \in 1 .. n
    BY <1>1, <1>3
  <2> QED BY <1>1, <1>3, <2>1
<1>5. s = Run(a + (i - 1), j - (i - 1))
  BY <1>1, <1>3, <1>4, RunUnique
<1> QED BY <1>5 DEF r, s

\* A run of n numbers after a, cut into r and s.
Halves(r, s, a, n) ==
  n = Len(r) + Len(s) /\ r = Run(a, Len(r)) /\ s = Run(a + Len(r), Len(s))

LEMMA RunSplit ==
  \A r, s \in Seq(Nat), a, n \in Nat : r \o s = Run(a, n) => Halves(r, s, a, n)
<1> SUFFICES ASSUME NEW r \in Seq(Nat), NEW s \in Seq(Nat), NEW a \in Nat, NEW n \in Nat,
                    r \o s = Run(a, n)
             PROVE  Halves(r, s, a, n)
  OBVIOUS
<1>1. /\ Len(r) \in Nat /\ Len(s) \in Nat /\ a + Len(r) \in Nat
      /\ r \o s \in Seq(Nat) /\ Len(r \o s) = Len(r) + Len(s)
      /\ \A i \in 1 .. Len(r) + Len(s) :
           (r \o s)[i] = IF i <= Len(r) THEN r[i] ELSE s[i - Len(r)]
  <2>1. Len(r) \in Nat /\ Len(s) \in Nat /\ a + Len(r) \in Nat
    OBVIOUS
  <2> QED BY <2>1, ConcatProperties
<1>2. Len(r \o s) = n /\ \A i \in 1 .. n : (r \o s)[i] = a + i
  BY RunFacts
<1>3. \A i \in 1 .. Len(r) : r[i] = a + i
  BY <1>1, <1>2
<1>4. ASSUME NEW i \in 1 .. Len(s) PROVE s[i] = (a + Len(r)) + i
  <2>1. /\ Len(r) + i \in 1 .. Len(r) + Len(s) /\ ~(Len(r) + i <= Len(r))
        /\ (Len(r) + i) - Len(r) = i
    BY <1>1
  <2>2. (r \o s)[Len(r) + i] = s[i]
    BY <1>1, <2>1
  <2>3. (r \o s)[Len(r) + i] = a + (Len(r) + i)
    BY <1>1, <1>2, <2>1
  <2> QED BY <1>1, <2>2, <2>3
<1> QED BY <1>1, <1>2, <1>3, <1>4, RunUnique DEF Halves
-----------------------------------------------------------------------------
(* FlattenSeq, which is defined by a recursive function.                   *)

\* f is the function that FlattenSeq(seqs) computes its result with.
FlatEqn(f, seqs) ==
  f = [i \in 1 .. Len(seqs) |-> IF i = 1 THEN seqs[i] ELSE f[i - 1] \o seqs[i]]

LEMMA FlattenUnfold ==
  ASSUME NEW S, NEW seqs \in Seq(Seq(S)), seqs # <<>>
  PROVE  \E f : FlatEqn(f, seqs) /\ FlattenSeq(seqs) = f[Len(seqs)]
<1> DEFINE n == Len(seqs)
           Eqn(f, m) == f = [i \in 1 .. m |-> IF i = 1 THEN seqs[i] ELSE f[i - 1] \o seqs[i]]
           Def == {m \in 1 .. n : \E f : Eqn(f, m)}
           h == CHOOSE f : Eqn(f, n)
<1>0. n \in Nat /\ n # 0 /\ n \in 1 .. n
  OBVIOUS
<1>1. 1 \in Def
  <2> DEFINE f == [i \in 1 .. 1 |-> seqs[i]]
  <2>1. Eqn(f, 1)
    OBVIOUS
  <2>2. \E e : Eqn(e, 1)
    <3> HIDE DEF f, Eqn
    <3> QED BY <2>1
  <2>3. 1 \in 1 .. n
    BY <1>0
  <2> HIDE DEF Eqn
  <2> QED BY <2>2, <2>3
<1>2. ASSUME NEW m \in 1 .. n - 1, m \in Def PROVE m + 1 \in Def
  <2>1. PICK f : Eqn(f, m)
    BY <1>2
  <2> DEFINE g == [i \in 1 .. m + 1 |-> IF i = m + 1 THEN f[m] \o seqs[m + 1] ELSE f[i]]
  <2>2. m \in Nat /\ m # 0 /\ m + 1 \in 1 .. n
    BY <1>0
  <2>3. ASSUME NEW i \in 1 .. m + 1
        PROVE  g[i] = IF i = 1 THEN seqs[i] ELSE g[i - 1] \o seqs[i]
    <3>1. CASE i = m + 1
      <4>1. m \in 1 .. m + 1 /\ m # m + 1 /\ i # 1 /\ i - 1 = m
        BY <2>2, <3>1
      <4>2. g[m] = f[m]
        BY <4>1
      <4>3. m + 1 \in 1 .. m + 1
        BY <2>2
      <4>4. g[m + 1] = f[m] \o seqs[m + 1]
        BY <4>3
      <4> HIDE DEF g
      <4> QED BY <3>1, <4>1, <4>2, <4>4
    <3>2. CASE i # m + 1
      <4>1. i \in 1 .. m /\ g[i] = f[i] /\ (i # 1 => g[i - 1] = f[i - 1])
        BY <2>2, <3>2
      <4>2. f[i] = IF i = 1 THEN seqs[i] ELSE f[i - 1] \o seqs[i]
        BY <2>1, <4>1
      <4> HIDE DEF g
      <4> QED BY <4>1, <4>2
    <3> QED BY <3>1, <3>2
  <2>4. Eqn(g, m + 1)
    BY <2>3
  <2>5. \E e : Eqn(e, m + 1)
    <3> HIDE DEF g, Eqn
    <3> QED BY <2>4
  <2> QED BY <2>2, <2>5
<1>3. n \in Def
  <2>1. \A m \in 1 .. n : m \in Def
    <3>1. 1 \in Nat /\ n \in Nat
      BY <1>0
    <3> HIDE DEF Def, n
    <3> QED BY <1>1, <1>2, <3>1, IntervalInduction
  <2> QED BY <1>0, <2>1
<1>4. Eqn(h, n)
  <2>1. \E f : Eqn(f, n)
    BY <1>3
  <2> HIDE DEF Eqn
  <2> QED BY <2>1
<1>5. FlattenSeq(seqs) = h[n]
  BY <1>0 DEF FlattenSeq
<1>6. FlatEqn(h, seqs)
  <2> HIDE DEF h
  <2> QED BY <1>4 DEF FlatEqn
<1> HIDE DEF h
<1> QED BY <1>5, <1>6

LEMMA FlattenEmpty == FlattenSeq(<<>>) = <<>>
BY DEF FlattenSeq

LEMMA FlattenOne ==
  ASSUME NEW S, NEW x \in Seq(S)
  PROVE  FlattenSeq(<<x>>) = x
<1>1. <<x>> \in Seq(Seq(S)) /\ <<x>> # <<>> /\ Len(<<x>>) = 1 /\ <<x>>[1] = x
  OBVIOUS
<1>2. PICK f : FlatEqn(f, <<x>>) /\ FlattenSeq(<<x>>) = f[1]
  BY <1>1, FlattenUnfold
<1>3. f[1] = <<x>>[1]
  BY <1>1, <1>2 DEF FlatEqn
<1> QED BY <1>1, <1>2, <1>3

LEMMA FlattenType ==
  ASSUME NEW S, NEW seqs \in Seq(Seq(S))
  PROVE  FlattenSeq(seqs) \in Seq(S)
<1>1. CASE seqs = <<>>
  <2>1. <<>> \in Seq(S)
    OBVIOUS
  <2> QED BY <1>1, <2>1, FlattenEmpty
<1>2. CASE seqs # <<>>
  <2>1. PICK f : FlatEqn(f, seqs) /\ FlattenSeq(seqs) = f[Len(seqs)]
    BY <1>2, FlattenUnfold
  <2> DEFINE Typed == {i \in 1 .. Len(seqs) : f[i] \in Seq(S)}
  <2>2. Len(seqs) \in Nat /\ Len(seqs) # 0 /\ 1 \in 1 .. Len(seqs) /\ Len(seqs) \in 1 .. Len(seqs)
    BY <1>2
  <2>3. 1 \in Typed
    BY <2>1, <2>2 DEF FlatEqn
  <2>4. ASSUME NEW i \in 1 .. Len(seqs) - 1, i \in Typed PROVE i + 1 \in Typed
    <3>1. i + 1 \in 1 .. Len(seqs) /\ i + 1 # 1 /\ (i + 1) - 1 = i
      OBVIOUS
    <3>2. f[i + 1] = f[i] \o seqs[i + 1]
      BY <2>1, <3>1 DEF FlatEqn
    <3>3. f[i] \in Seq(S) /\ seqs[i + 1] \in Seq(S)
      BY <2>4, <3>1
    <3>4. f[i] \o seqs[i + 1] \in Seq(S)
      BY <3>3, ConcatProperties
    <3> QED BY <3>1, <3>2, <3>4
  <2>5. \A i \in 1 .. Len(seqs) : i \in Typed
    <3>1. 1 \in Nat /\ Len(seqs) \in Nat
      OBVIOUS
    <3> HIDE DEF Typed
    <3> QED BY <2>3, <2>4, <3>1, IntervalInduction
  <2> QED BY <2>1, <2>2, <2>5
<1> QED BY <1>1, <1>2

LEMMA FlattenAppend ==
  ASSUME NEW S, NEW seqs \in Seq(Seq(S)), NEW x \in Seq(S)
  PROVE  FlattenSeq(Append(seqs, x)) = FlattenSeq(seqs) \o x
<1> DEFINE n == Len(seqs)
           t == Append(seqs, x)
<1>1. /\ n \in Nat /\ t \in Seq(Seq(S)) /\ Len(t) = n + 1 /\ t # <<>> /\ t[n + 1] = x
      /\ \A i \in 1 .. n : t[i] = seqs[i]
  BY AppendProperties
<1> HIDE DEF t
<1>2. CASE seqs = <<>>
  <2>1. t = <<x>>
    BY <1>2 DEF t
  <2>2. FlattenSeq(t) = x
    BY <2>1, FlattenOne
  <2>3. <<>> \o x = x
    BY ConcatEmptySeq
  <2> QED BY <1>2, <2>2, <2>3, FlattenEmpty DEF t
<1>3. CASE seqs # <<>>
  <2>1. PICK f : FlatEqn(f, seqs) /\ FlattenSeq(seqs) = f[n]
    BY <1>3, FlattenUnfold
  <2>2. PICK g : FlatEqn(g, t) /\ FlattenSeq(t) = g[n + 1]
    BY <1>1, FlattenUnfold
  <2> DEFINE Same == {i \in 1 .. n : f[i] = g[i]}
  <2>3. n # 0 /\ 1 \in 1 .. n /\ n \in 1 .. n
    BY <1>1, <1>3
  <2>4. \A i \in 1 .. n : f[i] = IF i = 1 THEN seqs[i] ELSE f[i - 1] \o seqs[i]
    BY <2>1 DEF FlatEqn
  <2>5. \A i \in 1 .. n + 1 : g[i] = IF i = 1 THEN t[i] ELSE g[i - 1] \o t[i]
    BY <1>1, <2>2 DEF FlatEqn
  <2> HIDE DEF n
  <2>6. 1 \in Same
    BY <1>1, <2>3, <2>4, <2>5
  <2>7. ASSUME NEW i \in 1 .. n - 1, i \in Same PROVE i + 1 \in Same
    <3>1. i + 1 \in 1 .. n /\ i + 1 \in 1 .. n + 1 /\ i + 1 # 1 /\ (i + 1) - 1 = i
      BY <1>1
    <3>2. f[i + 1] = f[i] \o seqs[i + 1] /\ g[i + 1] = g[i] \o t[i + 1] /\ f[i] = g[i]
      BY <2>4, <2>5, <2>7, <3>1
    <3> QED BY <1>1, <3>1, <3>2
  <2>8. \A i \in 1 .. n : i \in Same
    <3>1. 1 \in Nat
      OBVIOUS
    <3> HIDE DEF Same
    <3> QED BY <1>1, <2>6, <2>7, <3>1, IntervalInduction
  <2>9. g[n + 1] = g[n] \o x
    <3>1. n + 1 \in 1 .. n + 1 /\ n + 1 # 1 /\ (n + 1) - 1 = n
      BY <1>1, <2>3
    <3> QED BY <1>1, <2>5, <3>1
  <2> QED BY <2>1, <2>2, <2>3, <2>8, <2>9 DEF t
<1> QED BY <1>2, <1>3

Associate(s, t, u) == (s \o t) \o u = s \o (t \o u)

LEMMA Associative ==
  \A S : \A s, t, u \in Seq(S) : Associate(s, t, u)
BY DEF Associate

LEMMA AssociativeNat ==
  \A s, t, u \in Seq(Nat) : (s \o t) \o u = s \o (t \o u)
OBVIOUS

LEMMA FlattenConcat ==
  ASSUME NEW S, NEW s \in Seq(Seq(S)), NEW t \in Seq(Seq(S))
  PROVE  FlattenSeq(s \o t) = FlattenSeq(s) \o FlattenSeq(t)
<1> DEFINE n == Len(t)
           Pre(k) == SubSeq(t, 1, k)
           Good == {k \in 0 .. n : FlattenSeq(s \o Pre(k)) = FlattenSeq(s) \o FlattenSeq(Pre(k))}
<1>1. n \in Nat /\ 0 \in Nat
  OBVIOUS
<1>2. \A k \in 0 .. n : Pre(k) \in Seq(Seq(S))
  OBVIOUS
<1>3. 0 \in Good
  <2>1. Pre(0) = <<>>
    BY SubSeqEmpty
  <2>2. FlattenSeq(s) \in Seq(S)
    BY FlattenType
  <2>3. s \o <<>> = s /\ FlattenSeq(s) \o <<>> = FlattenSeq(s)
    BY <2>2, ConcatEmptySeq
  <2>4. 0 \in 0 .. n
    BY <1>1
  <2> HIDE DEF Pre
  <2> QED BY <2>1, <2>3, <2>4, FlattenEmpty
<1>4. ASSUME NEW k \in 0 .. n - 1, k \in Good PROVE k + 1 \in Good
  <2>1. k + 1 \in 0 .. n /\ k + 1 \in 1 .. n /\ k + 1 \in 1 .. Len(t) /\ (k + 1) - 1 = k /\ k \in 0 .. n
    BY <1>1
  <2>2. t[k + 1] \in Seq(S)
    BY <2>1
  <2>3. Pre(k + 1) = Append(Pre(k), t[k + 1])
    <3>1. 1 \in 1 .. Len(t) /\ k + 1 \in 1 .. Len(t)
      BY <1>1, <2>1
    <3>2. SubSeq(t, 1, k + 1) = SubSeq(t, 1, (k + 1) - 1) \o <<t[k + 1]>>
      BY <3>1, SubSeqRecursiveSecond
    <3>3. Append(Pre(k), t[k + 1]) = Pre(k) \o <<t[k + 1]>>
      <4>1. Pre(k) \in Seq(Seq(S))
        BY <1>2, <2>1
      <4> HIDE DEF Pre
      <4> QED BY <2>2, <4>1, AppendIsConcat
    <3> QED BY <2>1, <3>2, <3>3
  <2> DEFINE p == Pre(k)
             x == t[k + 1]
  <2>4. p \in Seq(Seq(S)) /\ x \in Seq(S) /\ Pre(k + 1) = Append(p, x)
    BY <1>2, <2>1, <2>2, <2>3
  <2>5. FlattenSeq(s \o p) = FlattenSeq(s) \o FlattenSeq(p)
    BY <1>4
  <2> HIDE DEF p, x, Pre
  <2>6. s \o Append(p, x) = Append(s \o p, x) /\ s \o p \in Seq(Seq(S))
    <3>1. <<x>> \in Seq(Seq(S)) /\ s \o p \in Seq(Seq(S))
      BY <2>4, ConcatProperties
    <3>2. Append(p, x) = p \o <<x>> /\ Append(s \o p, x) = (s \o p) \o <<x>>
      BY <2>4, <3>1, AppendIsConcat
    <3>3. (s \o p) \o <<x>> = s \o (p \o <<x>>)
      <4>1. s \in Seq(Seq(S)) /\ p \in Seq(Seq(S)) /\ x \in Seq(S)
        BY <2>4
      <4> HIDE DEF n
      <4> QED BY <4>1
    <3> QED BY <3>1, <3>2, <3>3
  <2>7. FlattenSeq(Append(s \o p, x)) = FlattenSeq(s \o p) \o x /\ FlattenSeq(Append(p, x)) = FlattenSeq(p) \o x
    BY <2>4, <2>6, FlattenAppend
  <2>8. (FlattenSeq(s) \o FlattenSeq(p)) \o x = FlattenSeq(s) \o (FlattenSeq(p) \o x)
    <3>1. FlattenSeq(s) \in Seq(S) /\ FlattenSeq(p) \in Seq(S)
      BY <2>4, FlattenType
    <3>2. x \in Seq(S)
      BY <2>4
    <3>3. Associate(FlattenSeq(s), FlattenSeq(p), x)
      BY <3>1, <3>2, Associative, Zenon
    <3> QED BY <3>3 DEF Associate
  <2>9. FlattenSeq(s \o Pre(k + 1)) = FlattenSeq(s) \o FlattenSeq(Pre(k + 1))
    BY <2>4, <2>5, <2>6, <2>7, <2>8
  <2> QED BY <2>1, <2>9
<1>5. \A k \in 0 .. n : k \in Good
  <2> HIDE DEF Good, n
  <2> QED BY <1>1, <1>3, <1>4, IntervalInduction
<1>6. Pre(n) = t
  BY SubSeqFull
<1>7. n \in Good
  BY <1>1, <1>5
<1> HIDE DEF Pre
<1> QED BY <1>6, <1>7
-----------------------------------------------------------------------------
(* The bytes of a sequence of buffers.                                     *)

ContentOf(f, s) == FlattenSeq([i \in 1 .. Len(s) |-> f[s[i]]])

LEMMA ContentIs ==
  /\ \A s : Content(s) = ContentOf(content, s)
  /\ \A c \in Chain : Content(chain[c])' = ContentOf(content', chain'[c])
BY DEF Content, ContentOf

LEMMA ContentType ==
  ASSUME NEW f \in [Buffer -> Seq(Nat)], NEW s \in Seq(Buffer)
  PROVE  ContentOf(f, s) \in Seq(Nat)
<1> DEFINE q == [i \in 1 .. Len(s) |-> f[s[i]]]
<1>1. q \in Seq(Seq(Nat))
  OBVIOUS
<1> HIDE DEF q
<1>2. FlattenSeq(q) \in Seq(Nat)
  BY <1>1, FlattenType
<1> QED BY <1>2 DEF ContentOf, q

LEMMA ContentEmpty ==
  ASSUME NEW f
  PROVE  ContentOf(f, <<>>) = <<>>
<1>1. [i \in 1 .. Len(<<>>) |-> f[<<>>[i]]] = <<>>
  OBVIOUS
<1> QED BY <1>1, FlattenEmpty DEF ContentOf

LEMMA ContentOne ==
  ASSUME NEW f \in [Buffer -> Seq(Nat)], NEW b \in Buffer
  PROVE  ContentOf(f, <<b>>) = f[b]
<1>1. [i \in 1 .. Len(<<b>>) |-> f[<<b>>[i]]] = <<f[b]>>
  OBVIOUS
<1>2. FlattenSeq(<<f[b]>>) = f[b]
  BY FlattenOne
<1> QED BY <1>1, <1>2 DEF ContentOf

LEMMA ContentConcat ==
  ASSUME NEW f \in [Buffer -> Seq(Nat)], NEW s \in Seq(Buffer), NEW t \in Seq(Buffer)
  PROVE  ContentOf(f, s \o t) = ContentOf(f, s) \o ContentOf(f, t)
<1> DEFINE q == [i \in 1 .. Len(s) |-> f[s[i]]]
           r == [i \in 1 .. Len(t) |-> f[t[i]]]
           u == [i \in 1 .. Len(s \o t) |-> f[(s \o t)[i]]]
<1>1. q \in Seq(Seq(Nat)) /\ r \in Seq(Seq(Nat)) /\ Len(q) = Len(s) /\ Len(r) = Len(t)
  OBVIOUS
<1>2. /\ s \o t \in Seq(Buffer) /\ Len(s \o t) = Len(s) + Len(t)
      /\ \A i \in 1 .. Len(s) + Len(t) :
           (s \o t)[i] = IF i <= Len(s) THEN s[i] ELSE t[i - Len(s)]
  BY ConcatProperties
<1>3. u \in Seq(Seq(Nat)) /\ Len(u) = Len(s) + Len(t)
  <2>1. Len(s) + Len(t) \in Nat /\ \A i \in 1 .. Len(s) + Len(t) : f[(s \o t)[i]] \in Seq(Nat)
    BY <1>2
  <2> QED BY <1>2, <2>1
<1>4. q \o r \in Seq(Seq(Nat)) /\ Len(q \o r) = Len(q) + Len(r)
      /\ \A i \in 1 .. Len(q) + Len(r) : (q \o r)[i] = IF i <= Len(q) THEN q[i] ELSE r[i - Len(q)]
  <2> HIDE DEF q, r
  <2> QED BY <1>1, ConcatProperties
<1>5. ASSUME NEW i \in 1 .. Len(s) + Len(t) PROVE u[i] = (q \o r)[i]
  <2>1. u[i] = f[(s \o t)[i]]
    BY <1>2
  <2>2. CASE i <= Len(s)
    <3>1. i \in 1 .. Len(s) /\ q[i] = f[s[i]]
      BY <2>2
    <3> HIDE DEF u, q, r
    <3> QED BY <1>1, <1>2, <1>4, <2>1, <2>2, <3>1
  <2>3. CASE ~(i <= Len(s))
    <3>1. i - Len(s) \in 1 .. Len(t) /\ r[i - Len(s)] = f[t[i - Len(s)]]
      BY <2>3
    <3> HIDE DEF u, q, r
    <3> QED BY <1>1, <1>2, <1>4, <2>1, <2>3, <3>1
  <2> QED BY <2>2, <2>3
<1> HIDE DEF u, q, r
<1>6. u = q \o r
  BY <1>1, <1>3, <1>4, <1>5, SeqEqual
<1>7. FlattenSeq(q \o r) = FlattenSeq(q) \o FlattenSeq(r)
  BY <1>1, FlattenConcat
<1> QED BY <1>6, <1>7 DEF ContentOf, q, r, u

LEMMA ContentSame ==
  ASSUME NEW f, NEW g, NEW s \in Seq(Buffer), \A i \in 1 .. Len(s) : f[s[i]] = g[s[i]]
  PROVE  ContentOf(f, s) = ContentOf(g, s)
<1>1. [i \in 1 .. Len(s) |-> f[s[i]]] = [i \in 1 .. Len(s) |-> g[s[i]]]
  OBVIOUS
<1> QED BY <1>1 DEF ContentOf

LEMMA SplitHead ==
  ASSUME NEW s \in Seq(Buffer), s # <<>>
  PROVE  /\ Head(s) \in Buffer /\ Head(s) = s[1]
         /\ Tail(s) \in Seq(Buffer) /\ Len(Tail(s)) = Len(s) - 1 /\ Len(Tail(s)) \in Nat
         /\ \A i \in 1 .. Len(s) - 1 : Tail(s)[i] = s[i + 1]
         /\ s = <<Head(s)>> \o Tail(s)
         /\ 1 \in 1 .. Len(s)
OBVIOUS

LEMMA SplitLast ==
  ASSUME NEW s \in Seq(Buffer), s # <<>>
  PROVE  /\ Last(s) \in Buffer /\ Last(s) = s[Len(s)] /\ Len(s) \in 1 .. Len(s)
         /\ SubSeq(s, 1, Len(s) - 1) \in Seq(Buffer) /\ Len(SubSeq(s, 1, Len(s) - 1)) = Len(s) - 1
         /\ \A i \in 1 .. Len(s) - 1 : SubSeq(s, 1, Len(s) - 1)[i] = s[i]
         /\ s = SubSeq(s, 1, Len(s) - 1) \o <<Last(s)>>
BY DEF Last

LEMMA ContentHead ==
  ASSUME NEW f \in [Buffer -> Seq(Nat)], NEW s \in Seq(Buffer), s # <<>>
  PROVE  ContentOf(f, s) = f[Head(s)] \o ContentOf(f, Tail(s))
<1>1. Head(s) \in Buffer /\ Tail(s) \in Seq(Buffer) /\ s = <<Head(s)>> \o Tail(s)
  BY SplitHead
<1>2. <<Head(s)>> \in Seq(Buffer)
  BY <1>1
<1>3. ContentOf(f, <<Head(s)>> \o Tail(s)) = ContentOf(f, <<Head(s)>>) \o ContentOf(f, Tail(s))
  BY <1>1, <1>2, ContentConcat
<1>4. ContentOf(f, <<Head(s)>>) = f[Head(s)]
  BY <1>1, ContentOne
<1> QED BY <1>1, <1>3, <1>4, Zenon

LEMMA ContentAppend ==
  ASSUME NEW f \in [Buffer -> Seq(Nat)], NEW s \in Seq(Buffer), NEW b \in Buffer
  PROVE  ContentOf(f, Append(s, b)) = ContentOf(f, s) \o f[b]
<1>1. Append(s, b) = s \o <<b>> /\ <<b>> \in Seq(Buffer)
  BY AppendIsConcat
<1>2. ContentOf(f, s \o <<b>>) = ContentOf(f, s) \o ContentOf(f, <<b>>)
  BY <1>1, ContentConcat
<1> QED BY <1>1, <1>2, ContentOne

\* s holds no buffer twice.
Distinct(s) == \A i, j \in 1 .. Len(s) : s[i] = s[j] => i = j

\* x is appended to the bytes of buffer b, and x is taken from their start.
Grown(f, g, b, x) == g[b] = f[b] \o x /\ \A d \in Buffer \ {b} : g[d] = f[d]
Taken(f, g, b, x) == f[b] = x \o g[b] /\ \A d \in Buffer \ {b} : g[d] = f[d]

\* Bytes that are appended to the last buffer are appended to the content.
LEMMA ContentGrow ==
  ASSUME NEW f \in [Buffer -> Seq(Nat)], NEW s \in Seq(Buffer), s # <<>>, Distinct(s),
         NEW x \in Seq(Nat), NEW g \in [Buffer -> Seq(Nat)],
         Grown(f, g, Last(s), x)
  PROVE  ContentOf(g, s) = ContentOf(f, s) \o x
<1> DEFINE t == SubSeq(s, 1, Len(s) - 1)
           b == Last(s)
<1>1. /\ b \in Buffer /\ b = s[Len(s)] /\ t \in Seq(Buffer) /\ Len(t) = Len(s) - 1
      /\ \A i \in 1 .. Len(s) - 1 : t[i] = s[i]
      /\ s = t \o <<b>> /\ Len(s) \in 1 .. Len(s)
  BY SplitLast
<1> HIDE DEF t
<1>2. \A i \in 1 .. Len(t) : f[t[i]] = g[t[i]]
  <2> SUFFICES ASSUME NEW i \in 1 .. Len(t) PROVE f[t[i]] = g[t[i]]
    OBVIOUS
  <2>1. i \in 1 .. Len(s) - 1 /\ i \in 1 .. Len(s) /\ i # Len(s)
    BY <1>1
  <2>2. t[i] = s[i] /\ s[i] \in Buffer /\ s[i] # s[Len(s)]
    BY <1>1, <2>1 DEF Distinct
  <2> HIDE DEF t, b
  <2> QED BY <1>1, <2>2 DEF b, Grown
<1>3. ContentOf(f, t) = ContentOf(g, t)
  <2> HIDE DEF t, b
  <2> QED BY <1>1, <1>2, ContentSame
<1>4. ASSUME NEW h \in [Buffer -> Seq(Nat)] PROVE ContentOf(h, s) = ContentOf(h, t) \o h[b]
  <2> HIDE DEF b
  <2>1. <<b>> \in Seq(Buffer)
    BY <1>1
  <2>2. ContentOf(h, t \o <<b>>) = ContentOf(h, t) \o ContentOf(h, <<b>>)
    BY <1>1, <2>1, ContentConcat
  <2>3. ContentOf(h, <<b>>) = h[b]
    BY <1>1, ContentOne
  <2> QED BY <1>1, <2>2, <2>3, Zenon
<1>5. ContentOf(f, s) = ContentOf(f, t) \o f[b] /\ ContentOf(g, s) = ContentOf(f, t) \o (f[b] \o x)
  BY <1>3, <1>4 DEF Grown
<1>6. ContentOf(f, t) \in Seq(Nat) /\ f[b] \in Seq(Nat)
  <2> HIDE DEF t, b
  <2> QED BY <1>1, ContentType
<1>7. (ContentOf(f, t) \o f[b]) \o x = ContentOf(f, t) \o (f[b] \o x)
  <2> HIDE DEF b
  <2> QED BY <1>6, AssociativeNat, Zenon
<1> QED BY <1>5, <1>7

\* Bytes that are taken from the first buffer are taken from the content.
LEMMA ContentTake ==
  ASSUME NEW f \in [Buffer -> Seq(Nat)], NEW s \in Seq(Buffer), s # <<>>, Distinct(s),
         NEW x \in Seq(Nat), NEW g \in [Buffer -> Seq(Nat)],
         Taken(f, g, Head(s), x)
  PROVE  ContentOf(f, s) = x \o ContentOf(g, s)
<1> DEFINE t == Tail(s)
           b == Head(s)
<1>1. /\ b \in Buffer /\ b = s[1] /\ t \in Seq(Buffer) /\ Len(t) = Len(s) - 1
      /\ \A i \in 1 .. Len(s) - 1 : t[i] = s[i + 1]
      /\ 1 \in 1 .. Len(s)
  BY SplitHead
<1> HIDE DEF t
<1>2. \A i \in 1 .. Len(t) : f[t[i]] = g[t[i]]
  <2> SUFFICES ASSUME NEW i \in 1 .. Len(t) PROVE f[t[i]] = g[t[i]]
    OBVIOUS
  <2>1. i \in 1 .. Len(s) - 1 /\ i + 1 \in 1 .. Len(s) /\ i + 1 # 1
    BY <1>1
  <2>2. s[i + 1] \in Buffer /\ s[i + 1] # s[1]
    <3>1. 1 \in 1 .. Len(s)
      BY <1>1
    <3> QED BY <2>1, <3>1 DEF Distinct
  <2>3. t[i] = s[i + 1]
    BY <1>1, <2>1
  <2> HIDE DEF t, b
  <2> QED BY <1>1, <2>2, <2>3 DEF b, Taken
<1>3. ContentOf(f, t) = ContentOf(g, t)
  <2> HIDE DEF t, b
  <2> QED BY <1>1, <1>2, ContentSame
<1>4. ContentOf(f, s) = f[b] \o ContentOf(f, t) /\ ContentOf(g, s) = g[b] \o ContentOf(g, t)
  BY ContentHead DEF t
<1>5. ContentOf(f, t) \in Seq(Nat) /\ g[b] \in Seq(Nat)
  <2> HIDE DEF t, b
  <2> QED BY <1>1, ContentType
<1>6. (x \o g[b]) \o ContentOf(f, t) = x \o (g[b] \o ContentOf(f, t))
  <2> HIDE DEF b
  <2> QED BY <1>5, AssociativeNat, Zenon
<1> QED BY <1>3, <1>4, <1>6 DEF Taken

\* A sequence is its first k elements and the others.
LEMMA SeqSplit ==
  ASSUME NEW S, NEW u \in Seq(S), NEW k \in 0 .. Len(u)
  PROVE  /\ SubSeq(u, 1, k) \in Seq(S) /\ Len(SubSeq(u, 1, k)) = k
         /\ SubSeq(u, k + 1, Len(u)) \in Seq(S) /\ Len(SubSeq(u, k + 1, Len(u))) = Len(u) - k
         /\ u = SubSeq(u, 1, k) \o SubSeq(u, k + 1, Len(u))
<1>1. /\ SubSeq(u, 1, k) \in Seq(S) /\ Len(SubSeq(u, 1, k)) = k
      /\ SubSeq(u, k + 1, Len(u)) \in Seq(S) /\ Len(SubSeq(u, k + 1, Len(u))) = Len(u) - k
  OBVIOUS
<1>2. 1 \in 1 .. Len(u) + 1 /\ k \in 1 - 1 .. Len(u) /\ Len(u) \in k .. Len(u)
  OBVIOUS
<1>3. SubSeq(u, 1, k) \o SubSeq(u, k + 1, Len(u)) = SubSeq(u, 1, Len(u))
  BY <1>2, ConcatAdjacentSubSeq
<1>4. SubSeq(u, 1, Len(u)) = u
  BY SubSeqFull
<1> QED BY <1>1, <1>3, <1>4

\* The content of the first buffers is where the content starts.
LEMMA ContentPrefix ==
  ASSUME NEW f \in [Buffer -> Seq(Nat)], NEW s \in Seq(Buffer), NEW k \in 0 .. Len(s)
  PROVE  \E rest \in Seq(Nat) : ContentOf(f, s) = ContentOf(f, SubSeq(s, 1, k)) \o rest
<1> DEFINE a == SubSeq(s, 1, k)
           b == SubSeq(s, k + 1, Len(s))
<1>1. a \in Seq(Buffer) /\ b \in Seq(Buffer)
  OBVIOUS
<1>0. s = a \o b
  BY SeqSplit
<1> HIDE DEF a, b
<1>2. ContentOf(f, a \o b) = ContentOf(f, a) \o ContentOf(f, b) /\ ContentOf(f, b) \in Seq(Nat)
  BY <1>1, ContentConcat, ContentType
<1>3. ContentOf(f, s) = ContentOf(f, a) \o ContentOf(f, b)
  BY <1>0, <1>2, Zenon
<1> QED BY <1>2, <1>3 DEF a
-----------------------------------------------------------------------------
(* Who owns a buffer: a pool p, chains h and allocated buffers l.          *)

In(s, b) == \E i \in 1 .. Len(s) : b = s[i]
InChain(h, b) == \E c \in Chain : In(h[c], b)

\* No buffer is in two places of the chains.
Apart(h) ==
  \A c, d \in Chain : \A i \in 1 .. Len(h[c]), j \in 1 .. Len(h[d]) :
    h[c][i] = h[d][j] => c = d /\ i = j

\* OneOwner, place by place.
Owned(p, h, l) ==
  /\ Distinct(p)
  /\ Apart(h)
  /\ \A b \in Buffer : ~ (InChain(h, b) /\ In(p, b))
  /\ \A b \in Buffer : b \in l <=> InChain(h, b) \/ In(p, b)

OwnType(p, h, l) ==
  p \in Seq(Buffer) /\ h \in [Chain -> Seq(Buffer)] /\ l \subseteq Buffer

LEMMA ToSetIs ==
  ASSUME NEW s \in Seq(Buffer)
  PROVE  ToSet(s) \subseteq Buffer /\ \A b : b \in ToSet(s) <=> \E i \in 1 .. Len(s) : b = s[i]
BY DEF ToSet

LEMMA OwnedIs ==
  ASSUME OwnType(pool, chain, live)
  PROVE  OneOwner <=> Owned(pool, chain, live)
<1>1. /\ \A b : b \in ToSet(pool) <=> In(pool, b)
      /\ ToSet(pool) \subseteq Buffer
      /\ \A c \in Chain : ToSet(chain[c]) \subseteq Buffer
      /\ \A c \in Chain : \A b : b \in ToSet(chain[c]) <=> In(chain[c], b)
  BY ToSetIs DEF OwnType, In
<1>2. \A b : InChain(chain, b) <=> \E c \in Chain : b \in ToSet(chain[c])
  BY <1>1 DEF InChain
<1>3. ASSUME OneOwner PROVE Owned(pool, chain, live)
  <2>1. Distinct(pool)
    BY <1>3 DEF OneOwner, Distinct
  <2>2. ASSUME NEW c \in Chain, NEW d \in Chain,
               NEW i \in 1 .. Len(chain[c]), NEW j \in 1 .. Len(chain[d]), chain[c][i] = chain[d][j]
        PROVE  c = d /\ i = j
    <3>1. chain[c][i] \in ToSet(chain[c]) /\ chain[d][j] \in ToSet(chain[d])
      BY <1>1 DEF In
    <3>2. c = d
      BY <1>3, <2>2, <3>1 DEF OneOwner
    <3> QED BY <1>3, <2>2, <3>2 DEF OneOwner
  <2>3. \A b \in Buffer : ~ (InChain(chain, b) /\ In(pool, b))
    BY <1>1, <1>2, <1>3, Zenon DEF OneOwner
  <2>4. \A b \in Buffer : b \in live <=> InChain(chain, b) \/ In(pool, b)
    BY <1>1, <1>2, <1>3 DEF OneOwner
  <2> QED BY <2>1, <2>2, <2>3, <2>4 DEF Owned, Apart
<1>4. ASSUME Owned(pool, chain, live) PROVE OneOwner
  <2>1. \A i, j \in 1 .. Len(pool) : pool[i] = pool[j] => i = j
    BY <1>4 DEF Owned, Distinct
  <2>2. \A c \in Chain : \A i, j \in 1 .. Len(chain[c]) : chain[c][i] = chain[c][j] => i = j
    BY <1>4 DEF Owned, Apart
  <2>3. \A c, d \in Chain : c # d => ToSet(chain[c]) \intersect ToSet(chain[d]) = {}
    <3> SUFFICES ASSUME NEW c \in Chain, NEW d \in Chain, NEW b,
                        b \in ToSet(chain[c]), b \in ToSet(chain[d])
                 PROVE  c = d
      OBVIOUS
    <3>0. In(chain[c], b) /\ In(chain[d], b)
      BY <1>1
    <3>1. PICK i \in 1 .. Len(chain[c]) : b = chain[c][i]
      BY <3>0 DEF In
    <3>2. PICK j \in 1 .. Len(chain[d]) : b = chain[d][j]
      BY <3>0 DEF In
    <3> QED BY <1>4, <3>1, <3>2 DEF Owned, Apart
  <2>4. \A c \in Chain : ToSet(chain[c]) \intersect ToSet(pool) = {}
    BY <1>1, <1>2, <1>4 DEF Owned
  <2>5. live = ToSet(pool) \union UNION {ToSet(chain[c]) : c \in Chain}
    <3>1. \A b \in Buffer : b \in live <=> b \in ToSet(pool) \/ \E c \in Chain : b \in ToSet(chain[c])
      BY <1>1, <1>2, <1>4 DEF Owned
    <3> QED BY <1>1, <3>1 DEF OwnType
  <2> QED BY <2>1, <2>2, <2>3, <2>4, <2>5 DEF OneOwner
<1> QED BY <1>3, <1>4

\* A buffer from malloc becomes the only free one.
LEMMA OwnNew ==
  ASSUME NEW h, NEW l, OwnType(<<>>, h, l), Owned(<<>>, h, l), NEW b \in Buffer \ l
  PROVE  OwnType(<<b>>, h, l \union {b}) /\ Owned(<<b>>, h, l \union {b})
<1>1. OwnType(<<b>>, h, l \union {b}) /\ Distinct(<<b>>)
  BY DEF OwnType, Distinct
<1>2. \A d : In(<<b>>, d) <=> d = b
  BY DEF In
<1>3. \A d : ~In(<<>>, d)
  BY DEF In
<1>4. ~InChain(h, b)
  BY DEF Owned
<1> QED BY <1>1, <1>2, <1>3, <1>4 DEF Owned

\* The places of the chains h and k, when k is h with b appended to chain c.
Appended(h, k, c, b) ==
  /\ k \in [Chain -> Seq(Buffer)] /\ Len(h[c]) \in Nat
  /\ Len(k[c]) = Len(h[c]) + 1 /\ k[c][Len(h[c]) + 1] = b
  /\ \A i \in 1 .. Len(h[c]) : k[c][i] = h[c][i]
  /\ \A d \in Chain : d # c => k[d] = h[d]
  /\ \A d \in Buffer : InChain(k, d) <=> d = b \/ InChain(h, d)

LEMMA AppendPlaces ==
  \A h \in [Chain -> Seq(Buffer)], c \in Chain, b \in Buffer :
    Appended(h, [h EXCEPT ![c] = Append(@, b)], c, b)
<1> SUFFICES ASSUME NEW h \in [Chain -> Seq(Buffer)], NEW c \in Chain, NEW b \in Buffer
             PROVE  Appended(h, [h EXCEPT ![c] = Append(@, b)], c, b)
  OBVIOUS
<1> DEFINE k == [h EXCEPT ![c] = Append(@, b)]
           n == Len(h[c])
<1>1. /\ h[c] \in Seq(Buffer) /\ n \in Nat
      /\ k[c] \in Seq(Buffer) /\ Len(k[c]) = n + 1 /\ k[c][n + 1] = b
      /\ \A i \in 1 .. n : k[c][i] = h[c][i]
      /\ \A d \in Chain : d # c => k[d] = h[d]
      /\ k \in [Chain -> Seq(Buffer)]
  <2>1. h[c] \in Seq(Buffer)
    OBVIOUS
  <2>2. k[c] = Append(h[c], b) /\ \A d \in Chain : d # c => k[d] = h[d]
    OBVIOUS
  <2>3. k \in [Chain -> Seq(Buffer)]
    <3>1. Append(h[c], b) \in Seq(Buffer)
      BY <2>1, AppendProperties
    <3> QED BY <3>1
  <2> HIDE DEF k
  <2> QED BY <2>1, <2>2, <2>3, AppendProperties
<1> HIDE DEF k, n
<1>2. ASSUME NEW d \in Buffer PROVE InChain(k, d) <=> d = b \/ InChain(h, d)
  <2>1. ASSUME InChain(k, d), d # b PROVE InChain(h, d)
    <3>0. PICK e \in Chain : \E i \in 1 .. Len(k[e]) : d = k[e][i]
      BY <2>1 DEF InChain, In
    <3>1. PICK i \in 1 .. Len(k[e]) : d = k[e][i]
      BY <3>0
    <3>2. CASE e # c
      BY <1>1, <3>1, <3>2 DEF InChain, In
    <3>3. CASE e = c
      <4>1. i \in 1 .. n /\ d = h[c][i]
        BY <1>1, <2>1, <3>1, <3>3
      <4> QED BY <4>1 DEF InChain, In, n
    <3> QED BY <3>2, <3>3
  <2>2. ASSUME InChain(h, d) PROVE InChain(k, d)
    <3>0. PICK e \in Chain : \E i \in 1 .. Len(h[e]) : d = h[e][i]
      BY <2>2 DEF InChain, In
    <3>1. PICK i \in 1 .. Len(h[e]) : d = h[e][i]
      BY <3>0
    <3>2. CASE e # c
      BY <1>1, <3>1, <3>2 DEF InChain, In
    <3>3. CASE e = c
      <4>1. i \in 1 .. n
        BY <3>3 DEF n
      <4>2. i \in 1 .. Len(k[c]) /\ d = k[c][i]
        BY <1>1, <3>1, <3>3, <4>1
      <4> QED BY <4>2 DEF InChain, In
    <3> QED BY <3>2, <3>3
  <2>3. InChain(k, b)
    <3>1. n + 1 \in 1 .. Len(k[c])
      BY <1>1
    <3> QED BY <1>1, <3>1 DEF InChain, In
  <2> QED BY <2>1, <2>2, <2>3
<1>3. Appended(h, k, c, b)
  BY <1>1, <1>2 DEF n, Appended
<1> QED BY <1>3 DEF k

\* The first free buffer becomes the last one of chain c.
LEMMA OwnDetach ==
  ASSUME NEW p, NEW h, NEW l, OwnType(p, h, l), Owned(p, h, l), p # <<>>, NEW c \in Chain
  PROVE  LET k == [h EXCEPT ![c] = Append(@, Head(p))]
         IN  OwnType(Tail(p), k, l) /\ Owned(Tail(p), k, l)
<1> DEFINE k == [h EXCEPT ![c] = Append(@, Head(p))]
           b == Head(p)
           q == Tail(p)
           n == Len(h[c])
<1>1. /\ b \in Buffer /\ b = p[1] /\ q \in Seq(Buffer) /\ Len(q) = Len(p) - 1
      /\ \A i \in 1 .. Len(p) - 1 : q[i] = p[i + 1]
      /\ 1 \in 1 .. Len(p) /\ Len(p) \in Nat
  BY SplitHead DEF OwnType
<1>2. /\ n \in Nat /\ Len(k[c]) = n + 1 /\ k[c][n + 1] = b
      /\ \A i \in 1 .. n : k[c][i] = h[c][i]
      /\ \A d \in Chain : d # c => k[d] = h[d]
      /\ k \in [Chain -> Seq(Buffer)]
      /\ \A d \in Buffer : InChain(k, d) <=> d = b \/ InChain(h, d)
  <2>1. h \in [Chain -> Seq(Buffer)]
    BY DEF OwnType
  <2>2. Appended(h, k, c, b)
    <3> HIDE DEF b
    <3> QED BY <1>1, <2>1, AppendPlaces DEF b
  <2> HIDE DEF k, b
  <2> QED BY <2>2 DEF Appended
<1> HIDE DEF k, b, q, n
<1>3. OwnType(q, k, l)
  BY <1>1, <1>2 DEF OwnType
<1>4. Distinct(q)
  <2> SUFFICES ASSUME NEW i \in 1 .. Len(q), NEW j \in 1 .. Len(q), q[i] = q[j] PROVE i = j
    BY DEF Distinct
  <2>1. i + 1 \in 1 .. Len(p) /\ j + 1 \in 1 .. Len(p) /\ p[i + 1] = p[j + 1]
    BY <1>1
  <2>2. i + 1 = j + 1
    BY <2>1 DEF Owned, Distinct
  <2> QED BY <2>2
<1>5. \A d \in Buffer : In(p, d) <=> d = b \/ In(q, d)
  <2> SUFFICES ASSUME NEW d \in Buffer PROVE In(p, d) <=> d = b \/ In(q, d)
    OBVIOUS
  <2>1. ASSUME In(p, d), d # b PROVE In(q, d)
    <3>1. PICK i \in 1 .. Len(p) : d = p[i]
      BY <2>1 DEF In
    <3>2. i - 1 \in 1 .. Len(q) /\ (i - 1) + 1 = i
      BY <1>1, <2>1, <3>1
    <3>3. q[i - 1] = p[i]
      BY <1>1, <3>2
    <3> QED BY <3>1, <3>2, <3>3 DEF In
  <2>2. ASSUME In(q, d) PROVE In(p, d)
    <3>1. PICK i \in 1 .. Len(q) : d = q[i]
      BY <2>2 DEF In
    <3>2. i + 1 \in 1 .. Len(p) /\ q[i] = p[i + 1]
      BY <1>1
    <3> QED BY <3>1, <3>2 DEF In
  <2>3. In(p, b)
    BY <1>1 DEF In
  <2> QED BY <2>1, <2>2, <2>3
<1>6. ~In(q, b)
  <2> SUFFICES ASSUME NEW i \in 1 .. Len(q), b = q[i] PROVE FALSE
    BY DEF In
  <2>1. i \in 1 .. Len(p) - 1 /\ i + 1 \in 1 .. Len(p) /\ i + 1 # 1
    BY <1>1
  <2>2. p[i + 1] = p[1]
    BY <1>1, <2>1
  <2> QED BY <1>1, <2>1, <2>2 DEF Owned, Distinct
<1>7. ~InChain(h, b)
  BY <1>1, <1>5 DEF Owned
<1>8. \A d \in Buffer : InChain(k, d) <=> d = b \/ InChain(h, d)
  BY <1>2
<1>9. ASSUME NEW d \in Chain, NEW e \in Chain,
             NEW i \in 1 .. Len(k[d]), NEW j \in 1 .. Len(k[e]), k[d][i] = k[e][j]
      PROVE  d = e /\ i = j
  <2>1. ASSUME NEW a \in Chain, NEW m \in 1 .. Len(k[a])
        PROVE  \/ a = c /\ m = n + 1 /\ k[a][m] = b
               \/ m \in 1 .. Len(h[a]) /\ k[a][m] = h[a][m] /\ h[a][m] # b
    <3>1. CASE a = c /\ m = n + 1
      BY <1>2, <3>1
    <3>2. CASE ~(a = c /\ m = n + 1)
      <4>1. m \in 1 .. Len(h[a]) /\ k[a][m] = h[a][m]
        <5>1. CASE a # c
          BY <1>2, <5>1
        <5>2. CASE a = c
          <6>1. m \in 1 .. n
            BY <1>2, <3>2, <5>2
          <6> QED BY <1>2, <5>2, <6>1 DEF n
        <5> QED BY <5>1, <5>2
      <4>2. h[a][m] # b
        BY <1>7, <4>1 DEF InChain, In
      <4> QED BY <4>1, <4>2
    <3> QED BY <3>1, <3>2
  <2>2. CASE d = c /\ i = n + 1 /\ k[d][i] = b
    BY <1>9, <2>1, <2>2
  <2>3. CASE i \in 1 .. Len(h[d]) /\ k[d][i] = h[d][i] /\ h[d][i] # b
    <3>1. j \in 1 .. Len(h[e]) /\ k[e][j] = h[e][j]
      BY <1>9, <2>1, <2>3
    <3>2. h[d][i] = h[e][j]
      BY <1>9, <2>3, <3>1
    <3> QED BY <2>3, <3>1, <3>2 DEF Owned, Apart
  <2> QED BY <2>1, <2>2, <2>3
<1>10. \A d \in Buffer : ~ (InChain(k, d) /\ In(q, d))
  BY <1>5, <1>6, <1>8 DEF Owned
<1>11. \A d \in Buffer : d \in l <=> InChain(k, d) \/ In(q, d)
  BY <1>5, <1>8 DEF Owned
<1>12. Owned(q, k, l)
  BY <1>4, <1>9, <1>10, <1>11 DEF Owned, Apart
<1> QED BY <1>3, <1>12 DEF k, q

\* The places of the chains h and k, when k is h without the head of chain c.
Shortened(h, k, c) ==
  /\ Head(h[c]) \in Buffer /\ Head(h[c]) = h[c][1] /\ 1 \in 1 .. Len(h[c]) /\ Len(h[c]) \in Nat
  /\ k \in [Chain -> Seq(Buffer)]
  /\ Len(k[c]) = Len(h[c]) - 1
  /\ \A i \in 1 .. Len(h[c]) - 1 : k[c][i] = h[c][i + 1]
  /\ \A d \in Chain : d # c => k[d] = h[d]

LEMMA TailPlaces ==
  \A h \in [Chain -> Seq(Buffer)], c \in Chain :
    h[c] # <<>> => Shortened(h, [h EXCEPT ![c] = Tail(@)], c)
<1> SUFFICES ASSUME NEW h \in [Chain -> Seq(Buffer)], NEW c \in Chain, h[c] # <<>>
             PROVE  Shortened(h, [h EXCEPT ![c] = Tail(@)], c)
  OBVIOUS
<1> DEFINE k == [h EXCEPT ![c] = Tail(@)]
           n == Len(h[c])
<1>1. k[c] = Tail(h[c]) /\ \A d \in Chain : d # c => k[d] = h[d]
  OBVIOUS
<1>2. /\ Head(h[c]) \in Buffer /\ Head(h[c]) = h[c][1] /\ 1 \in 1 .. n /\ n \in Nat
      /\ Tail(h[c]) \in Seq(Buffer) /\ Len(Tail(h[c])) = n - 1
      /\ \A i \in 1 .. n - 1 : Tail(h[c])[i] = h[c][i + 1]
  BY SplitHead
<1>3. k \in [Chain -> Seq(Buffer)]
  BY <1>2
<1> HIDE DEF k
<1>4. Shortened(h, k, c)
  BY <1>1, <1>2, <1>3 DEF Shortened
<1> QED BY <1>4 DEF k

\* The first buffer of chain c is freed, or becomes the last free one.
LEMMA OwnPut ==
  ASSUME NEW p, NEW h, NEW l, OwnType(p, h, l), Owned(p, h, l), NEW c \in Chain, h[c] # <<>>
  PROVE  LET k == [h EXCEPT ![c] = Tail(@)]
             b == Head(h[c])
         IN  /\ OwnType(p, k, l \ {b}) /\ Owned(p, k, l \ {b})
             /\ OwnType(Append(p, b), k, l) /\ Owned(Append(p, b), k, l)
             /\ b \in l /\ ~InChain(k, b)
             /\ \A d \in Buffer : InChain(h, d) <=> d = b \/ InChain(k, d)
<1> DEFINE k == [h EXCEPT ![c] = Tail(@)]
           b == Head(h[c])
           n == Len(h[c])
           q == Append(p, b)
<1>1. h[c] \in Seq(Buffer) /\ p \in Seq(Buffer) /\ Len(p) \in Nat
  BY DEF OwnType
<1>2. /\ b \in Buffer /\ b = h[c][1] /\ 1 \in 1 .. n /\ n \in Nat
      /\ k[c] \in Seq(Buffer) /\ Len(k[c]) = n - 1
      /\ \A i \in 1 .. n - 1 : k[c][i] = h[c][i + 1]
      /\ \A d \in Chain : d # c => k[d] = h[d]
      /\ k \in [Chain -> Seq(Buffer)]
  <2>1. h \in [Chain -> Seq(Buffer)]
    BY DEF OwnType
  <2>2. Shortened(h, k, c)
    BY <2>1, TailPlaces
  <2> HIDE DEF k
  <2> QED BY <2>1, <2>2 DEF Shortened
<1> HIDE DEF k, b, n
<1>3. /\ q \in Seq(Buffer) /\ Len(q) = Len(p) + 1 /\ q[Len(p) + 1] = b
      /\ \A i \in 1 .. Len(p) : q[i] = p[i]
  BY <1>1, <1>2, AppendProperties
<1> HIDE DEF q
\* Where a place of the new chains was before.
<1>4. ASSUME NEW a \in Chain, NEW i \in 1 .. Len(k[a])
      PROVE  LET m == IF a = c THEN i + 1 ELSE i
             IN  m \in 1 .. Len(h[a]) /\ k[a][i] = h[a][m] /\ (a = c => m # 1)
  <2>1. CASE a = c
    <3>1. i \in 1 .. n - 1 /\ i + 1 \in 1 .. n /\ i + 1 # 1
      BY <1>2, <2>1
    <3> QED BY <1>2, <2>1, <3>1 DEF n
  <2>2. CASE a # c
    BY <1>2, <2>2
  <2> QED BY <2>1, <2>2
<1>5. Apart(k)
  <2> SUFFICES ASSUME NEW a \in Chain, NEW e \in Chain,
                      NEW i \in 1 .. Len(k[a]), NEW j \in 1 .. Len(k[e]), k[a][i] = k[e][j]
               PROVE  a = e /\ i = j
    BY DEF Apart
  <2> DEFINE m == IF a = c THEN i + 1 ELSE i
             o == IF e = c THEN j + 1 ELSE j
  <2>1. m \in 1 .. Len(h[a]) /\ o \in 1 .. Len(h[e]) /\ h[a][m] = h[e][o]
    BY <1>4
  <2>2. a = e /\ m = o
    <3> HIDE DEF m, o
    <3> QED BY <2>1 DEF Owned, Apart
  <2> QED BY <2>2
<1>6. ~InChain(k, b)
  <2> SUFFICES ASSUME NEW a \in Chain, NEW i \in 1 .. Len(k[a]), b = k[a][i] PROVE FALSE
    BY DEF InChain, In
  <2> DEFINE m == IF a = c THEN i + 1 ELSE i
  <2>1. m \in 1 .. Len(h[a]) /\ h[a][m] = h[c][1] /\ (a = c => m # 1) /\ 1 \in 1 .. Len(h[c])
    BY <1>2, <1>4 DEF n
  <2> HIDE DEF m
  <2> QED BY <2>1 DEF Owned, Apart
<1>7. \A d \in Buffer : InChain(h, d) <=> d = b \/ InChain(k, d)
  <2> SUFFICES ASSUME NEW d \in Buffer PROVE InChain(h, d) <=> d = b \/ InChain(k, d)
    OBVIOUS
  <2>1. ASSUME InChain(h, d), d # b PROVE InChain(k, d)
    <3>1. PICK a \in Chain : \E i \in 1 .. Len(h[a]) : d = h[a][i]
      BY <2>1 DEF InChain, In
    <3>2. PICK i \in 1 .. Len(h[a]) : d = h[a][i]
      BY <3>1
    <3>3. CASE a # c
      BY <1>2, <3>2, <3>3 DEF InChain, In
    <3>4. CASE a = c
      <4>1. i \in 1 .. n /\ i # 1
        BY <1>2, <2>1, <3>2, <3>4 DEF n
      <4>2. i - 1 \in 1 .. n - 1 /\ (i - 1) + 1 = i
        BY <1>2, <4>1
      <4>3. i - 1 \in 1 .. Len(k[c]) /\ k[c][i - 1] = d
        BY <1>2, <3>2, <3>4, <4>2
      <4> QED BY <4>3 DEF InChain, In
    <3> QED BY <3>3, <3>4
  <2>2. ASSUME InChain(k, d) PROVE InChain(h, d)
    <3>1. PICK a \in Chain : \E i \in 1 .. Len(k[a]) : d = k[a][i]
      BY <2>2 DEF InChain, In
    <3>2. \E m \in 1 .. Len(h[a]) : d = h[a][m]
      BY <1>4, <3>1
    <3> QED BY <3>2 DEF InChain, In
  <2>3. InChain(h, b)
    BY <1>2 DEF InChain, In, n
  <2> QED BY <2>1, <2>2, <2>3
<1>8. b \in l /\ ~In(p, b)
  BY <1>2, <1>7 DEF Owned
<1>9. OwnType(p, k, l \ {b}) /\ OwnType(q, k, l)
  BY <1>2, <1>3 DEF OwnType
<1>10. Owned(p, k, l \ {b})
  BY <1>5, <1>6, <1>7, <1>8 DEF Owned
<1>11. \A d : In(q, d) <=> d = b \/ In(p, d)
  <2>1. ASSUME NEW d, In(q, d), d # b PROVE In(p, d)
    <3>1. PICK i \in 1 .. Len(q) : d = q[i]
      BY <2>1 DEF In
    <3>2. i \in 1 .. Len(p)
      BY <1>1, <1>3, <2>1, <3>1
    <3> QED BY <1>3, <3>1, <3>2 DEF In
  <2>2. ASSUME NEW d, In(p, d) PROVE In(q, d)
    <3>1. PICK i \in 1 .. Len(p) : d = p[i]
      BY <2>2 DEF In
    <3>2. i \in 1 .. Len(q)
      BY <1>1, <1>3
    <3> QED BY <1>3, <3>1, <3>2 DEF In
  <2>3. In(q, b)
    <3>1. Len(p) + 1 \in 1 .. Len(q)
      BY <1>1, <1>3
    <3> QED BY <1>3, <3>1 DEF In
  <2> QED BY <2>1, <2>2, <2>3
<1>12. Distinct(q)
  <2> SUFFICES ASSUME NEW i \in 1 .. Len(q), NEW j \in 1 .. Len(q), q[i] = q[j] PROVE i = j
    BY DEF Distinct
  <2>1. ASSUME NEW m \in 1 .. Len(q)
        PROVE  \/ m = Len(p) + 1 /\ q[m] = b
               \/ m \in 1 .. Len(p) /\ q[m] = p[m] /\ p[m] # b
    <3>1. CASE m = Len(p) + 1
      BY <1>3, <3>1
    <3>2. CASE m # Len(p) + 1
      <4>1. m \in 1 .. Len(p)
        BY <1>1, <1>3, <3>2
      <4> QED BY <1>3, <1>8, <4>1 DEF In
    <3> QED BY <3>1, <3>2
  <2>2. CASE q[i] = b
    BY <2>1, <2>2
  <2>3. CASE q[i] # b
    <3>1. i \in 1 .. Len(p) /\ j \in 1 .. Len(p) /\ p[i] = p[j]
      BY <2>1, <2>3
    <3> QED BY <3>1 DEF Owned, Distinct
  <2> QED BY <2>2, <2>3
<1>13. Owned(q, k, l)
  BY <1>5, <1>6, <1>7, <1>8, <1>11, <1>12 DEF Owned
<1> QED BY <1>6, <1>7, <1>8, <1>9, <1>10, <1>13 DEF k, b, q

\* There are no more free buffers than allocated ones.
LEMMA PoolFits ==
  ASSUME NEW p, NEW h, NEW l, OwnType(p, h, l), Owned(p, h, l), IsFiniteSet(l)
  PROVE  Len(p) <= Cardinality(l)
<1> DEFINE S == 1 .. Len(p)
           f == [i \in S |-> p[i]]
<1>1. p \in Seq(Buffer) /\ Len(p) \in Nat /\ 1 \in Int /\ Len(p) \in Int
  BY DEF OwnType
<1>2. \A i \in S : p[i] \in l
  BY <1>1 DEF Owned, In
<1>3. f \in Injection(S, l)
  BY <1>2 DEF Owned, Distinct, Injection, IsInjective
<1>4. IsFiniteSet(S) /\ Cardinality(S) = Len(p)
  <2>1. Cardinality(1 .. Len(p)) = IF 1 > Len(p) THEN 0 ELSE Len(p) - 1 + 1
    BY <1>1, FS_Interval
  <2>2. IsFiniteSet(1 .. Len(p))
    BY <1>1, FS_Interval
  <2> QED BY <1>1, <2>1, <2>2
<1>5. Cardinality(S) <= Cardinality(l)
  <2> HIDE DEF S, f
  <2> QED BY <1>3, FS_Injection
<1> QED BY <1>4, <1>5
-----------------------------------------------------------------------------
(* The operations of the pool.                                             *)

PoolInv(p, h, l, a) ==
  /\ OwnType(p, h, l) /\ Owned(p, h, l)
  /\ IsFiniteSet(l) /\ a = Cardinality(l)
  /\ Len(p) <= MaxSize

LEMMA PeekKeeps ==
  ASSUME PoolInv(pool, chain, live, allocs), NEW b \in Buffer,
         buffer_pool_peek(b), Peeked(b)
  PROVE  /\ PoolInv(pool', chain, live', allocs')
         /\ pool' # <<>> /\ Head(pool') = b /\ ~InChain(chain, b)
<1>1. CASE pool = <<>>
  <2>1. b \in Buffer \ live /\ pool' = <<b>> /\ live' = live \union {b} /\ allocs' = allocs + 1
    BY <1>1 DEF buffer_pool_peek, Peeked
  <2>2. OwnType(<<b>>, chain, live \union {b}) /\ Owned(<<b>>, chain, live \union {b})
    BY <1>1, <2>1, OwnNew DEF PoolInv
  <2>3. IsFiniteSet(live \union {b}) /\ Cardinality(live \union {b}) = allocs + 1
    BY <2>1, FS_AddElement DEF PoolInv
  <2>4. Len(<<b>>) <= MaxSize
    BY SizesAssumption
  <2>5. ~InChain(chain, b)
    BY <2>1 DEF PoolInv, Owned
  <2>6. <<b>> # <<>> /\ Head(<<b>>) = b
    OBVIOUS
  <2> QED BY <2>1, <2>2, <2>3, <2>4, <2>5, <2>6 DEF PoolInv
<1>2. CASE pool # <<>>
  <2>1. pool \in Seq(Buffer)
    BY DEF PoolInv, OwnType
  <2>2. b = Head(pool) /\ pool' = pool /\ allocs' = allocs /\ live' = live \union {b}
    BY <1>2 DEF buffer_pool_peek, Peeked
  <2>3. In(pool, b)
    BY <1>2, <2>1, <2>2, SplitHead DEF In
  <2>4. b \in live /\ ~InChain(chain, b)
    BY <2>3 DEF PoolInv, Owned
  <2>5. live' = live
    BY <2>2, <2>4
  <2> QED BY <1>2, <2>2, <2>4, <2>5
<1> QED BY <1>1, <1>2

LEMMA DetachKeepsPool ==
  ASSUME PoolInv(pool, chain, live, allocs), NEW b \in Buffer,
         buffer_pool_peek(b), buffer_detach(b), NEW c \in Chain
  PROVE  /\ PoolInv(pool', [chain EXCEPT ![c] = Append(@, b)], live', allocs')
         /\ ~InChain(chain, b)
<1> DEFINE p == IF pool = <<>> THEN <<b>> ELSE pool
           a == IF pool = <<>> THEN allocs + 1 ELSE allocs
           l == live \union {b}
<1>1. PoolInv(p, chain, l, a) /\ p # <<>> /\ Head(p) = b /\ ~InChain(chain, b)
  <2>1. CASE pool = <<>>
    <3>1. b \in Buffer \ live /\ p = <<b>> /\ a = allocs + 1
      BY <2>1 DEF buffer_pool_peek
    <3>2. OwnType(<<b>>, chain, l) /\ Owned(<<b>>, chain, l)
      BY <2>1, <3>1, OwnNew DEF PoolInv
    <3>3. IsFiniteSet(l) /\ Cardinality(l) = allocs + 1
      BY <3>1, FS_AddElement DEF PoolInv
    <3>4. Len(<<b>>) <= MaxSize
      BY SizesAssumption
    <3>5. ~InChain(chain, b)
      BY <3>1 DEF PoolInv, Owned
    <3>6. <<b>> # <<>> /\ Head(<<b>>) = b
      OBVIOUS
    <3> HIDE DEF l, p, a
    <3> QED BY <3>1, <3>2, <3>3, <3>4, <3>5, <3>6 DEF PoolInv
  <2>2. CASE pool # <<>>
    <3>1. pool \in Seq(Buffer) /\ b = Head(pool)
      BY <2>2 DEF PoolInv, OwnType, buffer_pool_peek
    <3>2. In(pool, b)
      BY <2>2, <3>1, SplitHead DEF In
    <3>3. b \in live /\ ~InChain(chain, b)
      BY <3>2 DEF PoolInv, Owned
    <3>4. l = live
      BY <3>3
    <3> QED BY <2>2, <3>1, <3>3, <3>4
  <2> QED BY <2>1, <2>2
<1>2. pool' = Tail(p) /\ live' = l /\ allocs' = a
  BY DEF buffer_detach
<1> HIDE DEF p, l, a
<1>3. /\ OwnType(Tail(p), [chain EXCEPT ![c] = Append(@, Head(p))], l)
      /\ Owned(Tail(p), [chain EXCEPT ![c] = Append(@, Head(p))], l)
  BY <1>1, OwnDetach DEF PoolInv
<1>4. Len(Tail(p)) <= MaxSize
  <2>1. p \in Seq(Buffer) /\ Len(p) <= MaxSize
    BY <1>1 DEF PoolInv, OwnType
  <2> QED BY <1>1, <2>1, SizesAssumption
<1> QED BY <1>1, <1>2, <1>3, <1>4 DEF PoolInv

LEMMA PutKeepsPool ==
  ASSUME PoolInv(pool, chain, live, allocs), NEW c \in Chain, chain[c] # <<>>,
         buffer_pool_put(Head(chain[c]))
  PROVE  /\ PoolInv(pool', [chain EXCEPT ![c] = Tail(@)], live', allocs')
         /\ \A d \in Buffer : d # Head(chain[c]) =>
              (InChain(chain, d) <=> InChain([chain EXCEPT ![c] = Tail(@)], d))
         /\ ~InChain([chain EXCEPT ![c] = Tail(@)], Head(chain[c]))
<1> DEFINE k == [chain EXCEPT ![c] = Tail(@)]
           b == Head(chain[c])
<1>1. /\ OwnType(pool, k, live \ {b}) /\ Owned(pool, k, live \ {b})
      /\ OwnType(Append(pool, b), k, live) /\ Owned(Append(pool, b), k, live)
      /\ b \in live /\ ~InChain(k, b)
      /\ \A d \in Buffer : InChain(chain, d) <=> d = b \/ InChain(k, d)
  BY OwnPut DEF PoolInv
<1> HIDE DEF k
<1>2. PoolInv(pool', k, live', allocs')
  <2>1. CASE allocs > MaxSize
    <3>1. live' = live \ {b} /\ allocs' = allocs - 1 /\ pool' = pool
      BY <2>1 DEF buffer_pool_put
    <3>2. IsFiniteSet(live \ {b}) /\ Cardinality(live \ {b}) = allocs - 1
      BY <1>1, FS_RemoveElement DEF PoolInv
    <3> QED BY <1>1, <3>1, <3>2 DEF PoolInv
  <2>2. CASE ~(allocs > MaxSize)
    <3>1. live' = live /\ allocs' = allocs /\ pool' = Append(pool, b)
      BY <2>2 DEF buffer_pool_put
    <3>2. Len(Append(pool, b)) <= Cardinality(live)
      <4> HIDE DEF b
      <4> QED BY <1>1, PoolFits DEF PoolInv
    <3>3. Len(Append(pool, b)) <= MaxSize
      <4>1. Cardinality(live) = allocs /\ allocs \in Nat /\ pool \in Seq(Buffer) /\ MaxSize \in Nat
        BY SizesAssumption, FS_CardinalityType DEF PoolInv, OwnType
      <4>2. Len(Append(pool, b)) \in Nat
        BY <1>1 DEF OwnType
      <4> QED BY <2>2, <3>2, <4>1, <4>2
    <3> QED BY <1>1, <3>1, <3>3 DEF PoolInv
  <2> QED BY <2>1, <2>2
<1> QED BY <1>1, <1>2 DEF k
-----------------------------------------------------------------------------
(* IInv in the terms of the lemmas.                                        *)

\* The markers of the buffers: ChainShape and CleanInv.
BufInv(h, f, o) ==
  /\ f \in [Buffer -> Seq(Nat)] /\ o \in [Buffer -> 0 .. Cap]
  /\ \A b \in Buffer : o[b] + Len(f[b]) <= Cap
  /\ \A c \in Chain : \A i \in 1 .. Len(h[c]) - 1 :
       Len(f[h[c][i]]) > 0 /\ Cap - (o[h[c][i]] + Len(f[h[c][i]])) = 0
  /\ \A b \in Buffer : f[b] = <<>> \/ ~InChain(h, b) => o[b] = 0 /\ f[b] = <<>>

\* The stream of a chain s of which w was written, a bytes arrived, and k
\* bytes of what was written are still in the chain.
StreamOf(w, s, f, a, k) ==
  /\ k \in Nat /\ k <= Len(w) /\ Len(w) <= a
  /\ w = Run(0, Len(w))
  /\ ContentOf(f, s) = Run(Len(w) - k, a - (Len(w) - k))

Pending(c) == IF pc = "shrink" /\ cur = c THEN surplus ELSE 0

Streams == \A c \in Chain : StreamOf(written[c], chain[c], content, arrived[c], Pending(c))

CallType ==
  /\ recv \in [Chain -> Nat] /\ sent \in [Chain -> Nat]
  /\ arrived \in [Chain -> Nat] /\ \A c \in Chain : arrived[c] <= MaxBytes[c]
  /\ written \in [Chain -> Seq(Nat)]
  /\ pc \in {"idle", "recv", "send", "shrink"}
  /\ cur \in Chain \union {NoChain} /\ surplus \in Nat
  /\ complete \in BOOLEAN /\ ret \in {-1, 0, 1}

Ind ==
  /\ PoolInv(pool, chain, live, allocs)
  /\ BufInv(chain, content, pos)
  /\ CallType /\ CallInv /\ Streams

LEMMA IndIs == IInv <=> Ind
<1>1. ASSUME OwnType(pool, chain, live) PROVE CleanInv <=>
        \A b \in Buffer : content[b] = <<>> \/ ~InChain(chain, b) => pos[b] = 0 /\ content[b] = <<>>
  <2>1. \A b : InChain(chain, b) <=> \E c \in Chain : b \in ToSet(chain[c])
    <3>1. \A c \in Chain : \A b : b \in ToSet(chain[c]) <=> In(chain[c], b)
      BY <1>1, ToSetIs DEF OwnType, In
    <3> QED BY <3>1 DEF InChain
  <2> QED BY <2>1 DEF CleanInv
<1>2. ASSUME surplus \in Nat PROVE StreamInv <=> Streams
  BY <1>2, ContentIs, Zenon DEF StreamInv, Streams, StreamOf, Pending
<1>3. ASSUME IInv PROVE Ind
  <2>1. OwnType(pool, chain, live)
    BY <1>3 DEF IInv, TypeOK, OwnType
  <2>2. PoolInv(pool, chain, live, allocs)
    BY <1>3, <2>1, OwnedIs DEF IInv, PoolClean, PoolInv
  <2>3. BufInv(chain, content, pos)
    BY <1>1, <1>3, <2>1 DEF IInv, TypeOK, ChainShape, BufInv, buffer_rsize, buffer_wsize
  <2>4. CallType /\ CallInv
    BY <1>3 DEF IInv, TypeOK, CallType
  <2>5. Streams
    BY <1>2, <1>3 DEF IInv, TypeOK
  <2> QED BY <2>2, <2>3, <2>4, <2>5 DEF Ind
<1>4. ASSUME Ind PROVE IInv
  <2>1. OwnType(pool, chain, live) /\ OneOwner /\ IsFiniteSet(live)
    BY <1>4, OwnedIs DEF Ind, PoolInv
  <2>2. allocs = Cardinality(live) /\ allocs \in Nat
    BY <1>4, FS_CardinalityType DEF Ind, PoolInv
  <2>3. TypeOK
    BY <1>4, <2>1, <2>2 DEF Ind, OwnType, BufInv, CallType, TypeOK
  <2>4. ChainShape
    BY <1>4 DEF Ind, BufInv, ChainShape, buffer_rsize, buffer_wsize
  <2>5. CleanInv
    BY <1>1, <1>4, <2>1 DEF Ind, BufInv
  <2>6. PoolClean
    <3>1. ASSUME NEW i \in 1 .. Len(pool) PROVE pos[pool[i]] = 0 /\ content[pool[i]] = <<>>
      <4>1. pool[i] \in Buffer /\ In(pool, pool[i])
        BY <2>1 DEF OwnType, In
      <4>2. ~InChain(chain, pool[i])
        BY <1>4, <4>1 DEF Ind, PoolInv, Owned
      <4> QED BY <1>4, <4>1, <4>2 DEF Ind, BufInv
    <3>2. Len(pool) <= MaxSize
      BY <1>4 DEF Ind, PoolInv
    <3> QED BY <2>2, <3>1, <3>2 DEF PoolClean
  <2>7. StreamInv /\ CallInv
    BY <1>2, <1>4 DEF Ind, CallType
  <2> QED BY <2>1, <2>3, <2>4, <2>5, <2>6, <2>7 DEF IInv
<1> QED BY <1>3, <1>4
-----------------------------------------------------------------------------
(* What reads, writes and shrinks do to a stream.                          *)

LEMMA StreamSame ==
  ASSUME NEW w, NEW s \in Seq(Buffer), NEW f, NEW g, NEW a, NEW k,
         StreamOf(w, s, f, a, k), \A i \in 1 .. Len(s) : f[s[i]] = g[s[i]]
  PROVE  StreamOf(w, s, g, a, k)
<1>1. ContentOf(f, s) = ContentOf(g, s)
  BY ContentSame
<1> QED BY <1>1 DEF StreamOf

LEMMA StreamRead ==
  ASSUME NEW w \in Seq(Nat), NEW s, NEW f, NEW t, NEW g, NEW a \in Nat, NEW n \in Nat,
         StreamOf(w, s, f, a, 0), ContentOf(g, t) = ContentOf(f, s) \o Run(a, n)
  PROVE  StreamOf(w, t, g, a + n, 0)
<1> DEFINE d == Len(w)
<1>1. d \in Nat /\ d <= a /\ w = Run(0, d) /\ ContentOf(f, s) = Run(d, a - d)
  BY DEF StreamOf
<1> HIDE DEF d
<1>2. a + n \in Nat /\ a <= a + n /\ (a + n) - a = n /\ d <= a + n /\ d - 0 = d
  BY <1>1
<1>3. Run(d, a - d) \o Run(a, (a + n) - a) = Run(d, (a + n) - d)
  BY <1>1, <1>2, RunConcat
<1>4. ContentOf(g, t) = Run(d, (a + n) - d)
  BY <1>1, <1>2, <1>3
<1> QED BY <1>1, <1>2, <1>4 DEF StreamOf, d

LEMMA StreamWrite ==
  ASSUME NEW w \in Seq(Nat), NEW s \in Seq(Buffer), NEW f \in [Buffer -> Seq(Nat)],
         NEW a \in Nat, NEW m \in 0 .. Len(s), StreamOf(w, s, f, a, 0),
         NEW n \in 0 .. Len(ContentOf(f, SubSeq(s, 1, m)))
  PROVE  LET v == w \o SubSeq(ContentOf(f, SubSeq(s, 1, m)), 1, n)
         IN  StreamOf(v, s, f, a, n) /\ v \in Seq(Nat)
<1> DEFINE d == Len(w)
           x == ContentOf(f, SubSeq(s, 1, m))
           v == w \o SubSeq(x, 1, n)
<1>1. d \in Nat /\ d <= a /\ w = Run(0, d) /\ ContentOf(f, s) = Run(d, a - d)
  BY DEF StreamOf
<1>2. PICK rest \in Seq(Nat) : ContentOf(f, s) = x \o rest
  BY ContentPrefix
<1>3. x \in Seq(Nat)
  <2>1. SubSeq(s, 1, m) \in Seq(Buffer)
    OBVIOUS
  <2> QED BY <2>1, ContentType
<1> HIDE DEF d, x
<1>4. a - d = Len(x) + Len(rest) /\ x = Run(d, Len(x)) /\ Len(x) \in Nat /\ Len(rest) \in Nat
  <2>1. x \o rest = Run(d, a - d) /\ a - d \in Nat
    BY <1>1, <1>2
  <2>2. a - d = Len(x) + Len(rest) /\ x = Run(d, Len(x))
    <3>1. d \in Nat
      BY <1>1
    <3>2. Halves(x, rest, d, a - d)
      BY <1>3, <2>1, <3>1, RunSplit, Zenon
    <3> QED BY <3>2 DEF Halves
  <2> QED BY <1>3, <2>2
<1>5. n \in Nat /\ n <= Len(x)
  BY <1>4 DEF x
<1>6. SubSeq(x, 1, n) = Run(d, n)
  <2>1. /\ 1 \in 1 .. Len(x) + 1 /\ n \in 1 - 1 .. Len(x)
        /\ d + (1 - 1) = d /\ n - (1 - 1) = n
    BY <1>1, <1>4, <1>5
  <2>2. SubSeq(Run(d, Len(x)), 1, n) = Run(d + (1 - 1), n - (1 - 1))
    BY <1>1, <1>4, <2>1, RunSub
  <2>3. SubSeq(x, 1, n) = SubSeq(Run(d, Len(x)), 1, n)
    BY <1>4
  <2> QED BY <2>1, <2>2, <2>3
<1>7. Run(0, d) \o Run(d, n) = Run(0, d + n) /\ d + n \in Nat
  <2>1. d + n \in Nat /\ d <= d + n /\ (d + n) - d = n /\ (d + n) - 0 = d + n /\ d - 0 = d /\ 0 <= d
    BY <1>1, <1>5
  <2>2. Run(0, d - 0) \o Run(d, (d + n) - d) = Run(0, (d + n) - 0)
    BY <1>1, <2>1, RunConcat
  <2> QED BY <2>1, <2>2
<1>8. v = Run(0, d + n)
  BY <1>1, <1>6, <1>7
<1> HIDE DEF v
<1>9. v \in Seq(Nat) /\ Len(v) = d + n
  BY <1>7, <1>8, RunFacts
<1>10. n <= Len(v) /\ Len(v) <= a /\ Len(v) - n = d
  BY <1>1, <1>4, <1>5, <1>9
<1>11. StreamOf(v, s, f, a, n)
  BY <1>1, <1>5, <1>8, <1>9, <1>10 DEF StreamOf
<1> QED BY <1>9, <1>11 DEF v, x

LEMMA StreamShrink ==
  ASSUME NEW w \in Seq(Nat), NEW s, NEW f, NEW t, NEW g, NEW a \in Nat, NEW k \in Nat,
         StreamOf(w, s, f, a, k), NEW x \in Seq(Nat), Len(x) <= k,
         ContentOf(g, t) \in Seq(Nat), ContentOf(f, s) = x \o ContentOf(g, t)
  PROVE  StreamOf(w, t, g, a, k - Len(x))
<1> DEFINE d == Len(w)
           r == ContentOf(g, t)
<1>1. /\ d \in Nat /\ k <= d /\ d <= a /\ w = Run(0, d)
      /\ ContentOf(f, s) = Run(d - k, a - (d - k))
  BY DEF StreamOf
<1>2. r \in Seq(Nat) /\ x \o r = Run(d - k, a - (d - k))
  BY <1>1
<1> HIDE DEF d, r
<1>3. d - k \in Nat /\ a - (d - k) \in Nat /\ Len(x) \in Nat /\ Len(r) \in Nat
  BY <1>1, <1>2
<1>4. a - (d - k) = Len(x) + Len(r) /\ r = Run((d - k) + Len(x), Len(r))
  <2>0. r \in Seq(Nat)
    BY <1>2
  <2>1. Halves(x, r, d - k, a - (d - k))
    BY <1>2, <1>3, <2>0, RunSplit, Zenon
  <2> QED BY <2>1 DEF Halves
<1>5. /\ k - Len(x) \in Nat /\ k - Len(x) <= d
      /\ (d - k) + Len(x) = d - (k - Len(x)) /\ Len(r) = a - (d - (k - Len(x)))
  BY <1>1, <1>3, <1>4
<1>6. r = Run(d - (k - Len(x)), a - (d - (k - Len(x))))
  BY <1>4, <1>5
<1> QED BY <1>1, <1>5, <1>6 DEF StreamOf, d, r
-----------------------------------------------------------------------------
(* What reads and shrinks do to the markers of the buffers.                *)

LEMMA Places ==
  ASSUME NEW h \in [Chain -> Seq(Buffer)], NEW c \in Chain, NEW i \in 1 .. Len(h[c])
  PROVE  h[c][i] \in Buffer /\ InChain(h, h[c][i])
<1>1. h[c][i] \in Buffer
  OBVIOUS
<1>2. In(h[c], h[c][i])
  BY DEF In
<1> QED BY <1>1, <1>2 DEF InChain

LEMMA BufType ==
  ASSUME NEW h, NEW f, NEW o, BufInv(h, f, o), NEW b \in Buffer
  PROVE  /\ f \in [Buffer -> Seq(Nat)] /\ o \in [Buffer -> 0 .. Cap]
         /\ f[b] \in Seq(Nat) /\ Len(f[b]) \in Nat /\ o[b] \in Nat /\ Cap \in Nat \ {0}
<1>1. f \in [Buffer -> Seq(Nat)] /\ o \in [Buffer -> 0 .. Cap]
  BY DEF BufInv
<1>2. Cap \in Nat \ {0}
  BY SizesAssumption
<1> QED BY <1>1, <1>2

LEMMA BufNew ==
  ASSUME NEW h \in [Chain -> Seq(Buffer)], NEW f, NEW o, BufInv(h, f, o),
         NEW c \in Chain, h[c] = <<>>, NEW b \in Buffer
  PROVE  BufInv([h EXCEPT ![c] = Append(@, b)], f, o)
<1> DEFINE k == [h EXCEPT ![c] = Append(@, b)]
<1>1. /\ Len(k[c]) = 1 /\ \A d \in Chain : d # c => k[d] = h[d]
      /\ \A d \in Buffer : InChain(k, d) <=> d = b \/ InChain(h, d)
  <2>1. Len(h[c]) = 0
    OBVIOUS
  <2>2. Appended(h, k, c, b)
    BY AppendPlaces
  <2> HIDE DEF k
  <2> QED BY <2>1, <2>2 DEF Appended
<1> HIDE DEF k
<1>2. ASSUME NEW d \in Chain, NEW i \in 1 .. Len(k[d]) - 1
      PROVE  Len(f[k[d][i]]) > 0 /\ Cap - (o[k[d][i]] + Len(f[k[d][i]])) = 0
  <2>1. d # c
    <3>1. Len(k[c]) = 1
      BY <1>1
    <3>2. \A j \in 1 .. 1 - 1 : FALSE
      OBVIOUS
    <3> QED BY <3>1, <3>2
  <2>2. k[d] = h[d]
    BY <1>1, <2>1
  <2> QED BY <2>2 DEF BufInv
<1>3. BufInv(k, f, o)
  BY <1>1, <1>2 DEF BufInv
<1> QED BY <1>3 DEF k

LEMMA BufGrow ==
  ASSUME NEW h \in [Chain -> Seq(Buffer)], Apart(h), NEW f, NEW o, BufInv(h, f, o),
         NEW c \in Chain, h[c] # <<>>, NEW b, b = Last(h[c]), NEW x \in Seq(Nat), x # <<>>,
         Len(x) <= Cap - (o[b] + Len(f[b]))
  PROVE  BufInv(h, [f EXCEPT ![b] = @ \o x], o)
<1> DEFINE g == [f EXCEPT ![b] = @ \o x]
<1>1. /\ b \in Buffer /\ b = h[c][Len(h[c])] /\ Len(h[c]) \in 1 .. Len(h[c])
  BY SplitLast
<1>2. /\ f \in [Buffer -> Seq(Nat)] /\ o \in [Buffer -> 0 .. Cap] /\ f[b] \in Seq(Nat)
      /\ o[b] \in Nat /\ Cap \in Nat /\ Len(f[b]) \in Nat
  BY <1>1, BufType
<1>3. f[b] \o x \in Seq(Nat) /\ Len(f[b] \o x) = Len(f[b]) + Len(x) /\ f[b] \o x # <<>>
  BY <1>2
<1>4. g \in [Buffer -> Seq(Nat)] /\ g[b] = f[b] \o x /\ \A d \in Buffer : d # b => g[d] = f[d]
  BY <1>1, <1>2, <1>3
<1> HIDE DEF g
<1>5. \A d \in Buffer : o[d] + Len(g[d]) <= Cap
  <2>1. o[b] + Len(g[b]) <= Cap
    <3>1. Len(x) \in Nat /\ Len(f[b]) \in Nat /\ Len(x) <= Cap - (o[b] + Len(f[b]))
      BY <1>2
    <3>2. Len(g[b]) = Len(f[b]) + Len(x)
      BY <1>3, <1>4
    <3> QED BY <1>2, <3>1, <3>2
  <2> QED BY <1>4, <2>1 DEF BufInv
<1>6. ASSUME NEW d \in Chain, NEW i \in 1 .. Len(h[d]) - 1
      PROVE  Len(g[h[d][i]]) > 0 /\ Cap - (o[h[d][i]] + Len(g[h[d][i]])) = 0
  <2>1. i \in 1 .. Len(h[d]) /\ h[d][i] \in Buffer
    OBVIOUS
  <2>2. h[d][i] # b
    <3>1. ASSUME h[d][i] = h[c][Len(h[c])] PROVE FALSE
      <4>1. d = c /\ i = Len(h[c])
        BY <1>1, <2>1, <3>1 DEF Apart
      <4> QED BY <4>1
    <3> QED BY <1>1, <3>1
  <2> QED BY <1>4, <2>1, <2>2 DEF BufInv
<1>7. InChain(h, b)
  BY <1>1, Places
<1>8. ASSUME NEW d \in Buffer, g[d] = <<>> \/ ~InChain(h, d)
      PROVE  o[d] = 0 /\ g[d] = <<>>
  <2>1. d # b
    BY <1>3, <1>4, <1>7, <1>8
  <2> QED BY <1>4, <1>8, <2>1 DEF BufInv
<1>9. BufInv(h, g, o)
  BY <1>2, <1>4, <1>5, <1>6, <1>8 DEF BufInv
<1> QED BY <1>9 DEF g

LEMMA BufSpill ==
  ASSUME NEW h \in [Chain -> Seq(Buffer)], Apart(h), NEW f, NEW o, BufInv(h, f, o),
         NEW c \in Chain, h[c] # <<>>, NEW b, b = Last(h[c]), NEW x \in Seq(Nat), NEW y \in Seq(Nat), y # <<>>,
         NEW t \in Buffer, ~InChain(h, t), Len(y) <= Cap,
         Len(x) = Cap - (o[b] + Len(f[b]))
  PROVE  BufInv([h EXCEPT ![c] = Append(@, t)],
                [[f EXCEPT ![b] = @ \o x] EXCEPT ![t] = y], o)
<1> DEFINE g == [[f EXCEPT ![b] = @ \o x] EXCEPT ![t] = y]
           k == [h EXCEPT ![c] = Append(@, t)]
           n == Len(h[c])
<1>1. b \in Buffer /\ b = h[c][n] /\ n \in 1 .. n
  BY SplitLast
<1>2. /\ f \in [Buffer -> Seq(Nat)] /\ o \in [Buffer -> 0 .. Cap] /\ f[b] \in Seq(Nat)
      /\ o[b] \in Nat /\ Cap \in Nat \ {0} /\ Len(f[b]) \in Nat
  BY <1>1, BufType
<1>0. /\ n \in Nat /\ k \in [Chain -> Seq(Buffer)] /\ Len(k[c]) = n + 1 /\ k[c][n + 1] = t
      /\ \A i \in 1 .. n : k[c][i] = h[c][i]
      /\ \A d \in Chain : d # c => k[d] = h[d]
      /\ \A d \in Buffer : InChain(k, d) <=> d = t \/ InChain(h, d)
  <2>1. Appended(h, k, c, t)
    <3> HIDE DEF g
    <3> QED BY AppendPlaces
  <2> HIDE DEF g, k
  <2> QED BY <2>1 DEF Appended
<1> HIDE DEF k, n
<1>3. InChain(h, b) /\ b # t
  BY <1>1, Places DEF n
<1>4. f[b] \o x \in Seq(Nat) /\ Len(f[b] \o x) = Len(f[b]) + Len(x)
  <2>1. f[b] \in Seq(Nat)
    BY <1>2
  <2> HIDE DEF g
  <2> QED BY <2>1, ConcatProperties
<1>5. /\ g \in [Buffer -> Seq(Nat)] /\ g[b] = f[b] \o x /\ g[t] = y
      /\ \A d \in Buffer : d # b /\ d # t => g[d] = f[d]
  BY <1>1, <1>2, <1>3, <1>4
<1> HIDE DEF g
<1>6. o[t] = 0 /\ o[b] + Len(g[b]) = Cap /\ Len(g[b]) > 0
  <2>1. o[t] = 0
    BY DEF BufInv
  <2>2. Len(x) \in Nat /\ Len(f[b]) \in Nat /\ Len(x) = Cap - (o[b] + Len(f[b]))
    BY <1>2
  <2>3. o[b] + Len(g[b]) = Cap /\ Len(g[b]) = Len(f[b]) + Len(x)
    <3>1. Len(g[b]) = Len(f[b]) + Len(x)
      BY <1>4, <1>5
    <3>2. o[b] \in Nat /\ Cap \in Nat
      BY <1>2
    <3> QED BY <2>2, <3>1, <3>2
  <2>4. f[b] = <<>> => o[b] = 0
    BY <1>1 DEF BufInv
  <2>5. Len(f[b]) = 0 => f[b] = <<>>
    BY <1>2
  <2>6. Len(g[b]) > 0
    <3>1. o[b] \in Nat /\ Cap \in Nat /\ Cap # 0
      BY <1>2
    <3> QED BY <2>2, <2>3, <2>4, <2>5, <3>1
  <2> QED BY <2>1, <2>3, <2>6
<1>7. \A d \in Buffer : o[d] + Len(g[d]) <= Cap
  <2>1. o[t] + Len(g[t]) <= Cap
    BY <1>5, <1>6
  <2>2. o[b] + Len(g[b]) <= Cap
    BY <1>2, <1>6
  <2> QED BY <1>5, <2>1, <2>2 DEF BufInv
<1>8. ASSUME NEW d \in Chain, NEW i \in 1 .. Len(k[d]) - 1
      PROVE  Len(g[k[d][i]]) > 0 /\ Cap - (o[k[d][i]] + Len(g[k[d][i]])) = 0
  <2>1. CASE d = c /\ i = n
    <3>1. k[d][i] = b
      BY <1>0, <1>1, <2>1
    <3>2. Cap - (o[b] + Len(g[b])) = 0
      BY <1>2, <1>6
    <3> QED BY <1>6, <3>1, <3>2
  <2>2. CASE ~(d = c /\ i = n)
    <3>1. i \in 1 .. Len(h[d]) - 1 /\ k[d][i] = h[d][i]
      <4>1. CASE d # c
        BY <1>0, <4>1
      <4>2. CASE d = c
        <5>1. i \in 1 .. n /\ i \in 1 .. n - 1
          BY <1>0, <2>2, <4>2
        <5> QED BY <1>0, <4>2, <5>1 DEF n
      <4> QED BY <4>1, <4>2
    <3>2. i \in 1 .. Len(h[d]) /\ h[d][i] \in Buffer
      BY <3>1
    <3>3. h[d][i] # t
      BY <3>2, Places
    <3>4. h[d][i] # b
      <4>1. ASSUME h[d][i] = h[c][n] PROVE FALSE
        <5>1. d = c /\ i = n
          BY <1>1, <3>2, <4>1 DEF Apart, n
        <5> QED BY <2>2, <5>1
      <4> QED BY <1>1, <4>1
    <3>5. g[h[d][i]] = f[h[d][i]]
      BY <1>5, <3>2, <3>3, <3>4
    <3>6. Len(f[h[d][i]]) > 0 /\ Cap - (o[h[d][i]] + Len(f[h[d][i]])) = 0
      BY <3>1 DEF BufInv
    <3> QED BY <3>1, <3>5, <3>6
  <2> QED BY <2>1, <2>2
<1>9. ASSUME NEW d \in Buffer, g[d] = <<>> \/ ~InChain(k, d)
      PROVE  o[d] = 0 /\ g[d] = <<>>
  <2>1. d # t
    BY <1>0, <1>5, <1>9
  <2>2. d # b
    <3>1. g[b] # <<>>
      BY <1>6
    <3> QED BY <1>0, <1>1, <1>3, <1>9, <3>1
  <2> QED BY <1>0, <1>5, <1>9, <2>1, <2>2 DEF BufInv
<1>10. BufInv(k, g, o)
  BY <1>2, <1>5, <1>7, <1>8, <1>9 DEF BufInv
<1> QED BY <1>10 DEF g, k

\* f and o with buffer b reset.
LEMMA BufDrop ==
  ASSUME NEW h \in [Chain -> Seq(Buffer)], Apart(h), NEW f, NEW o, BufInv(h, f, o),
         NEW c \in Chain, h[c] # <<>>, NEW b, b = Head(h[c]),
         \A d \in Buffer : d # b => (InChain(h, d) <=> InChain([h EXCEPT ![c] = Tail(@)], d))
  PROVE  BufInv([h EXCEPT ![c] = Tail(@)], [f EXCEPT ![b] = <<>>], [o EXCEPT ![b] = 0])
<1> DEFINE k == [h EXCEPT ![c] = Tail(@)]
           g == [f EXCEPT ![b] = <<>>]
           q == [o EXCEPT ![b] = 0]
           n == Len(h[c])
<1>1. Shortened(h, k, c)
  BY TailPlaces
<1>2. \A d \in Buffer : d # b => (InChain(h, d) <=> InChain(k, d))
  OBVIOUS
<1>3. b \in Buffer
  BY SplitHead
<1>4. f \in [Buffer -> Seq(Nat)] /\ o \in [Buffer -> 0 .. Cap] /\ Cap \in Nat
  BY <1>3, BufType
<1> HIDE DEF k
<1>5. /\ g \in [Buffer -> Seq(Nat)] /\ q \in [Buffer -> 0 .. Cap]
      /\ g[b] = <<>> /\ q[b] = 0
      /\ \A d \in Buffer : d # b => g[d] = f[d] /\ q[d] = o[d]
  <2>1. <<>> \in Seq(Nat) /\ 0 \in 0 .. Cap
    BY <1>4
  <2> QED BY <1>3, <1>4, <2>1
<1> HIDE DEF g, q
<1>6. \A d \in Buffer : q[d] + Len(g[d]) <= Cap
  <2>1. q[b] + Len(g[b]) <= Cap
    BY <1>4, <1>5
  <2> QED BY <1>5, <2>1 DEF BufInv
<1>7. ASSUME NEW d \in Chain, NEW i \in 1 .. Len(k[d]) - 1
      PROVE  Len(g[k[d][i]]) > 0 /\ Cap - (q[k[d][i]] + Len(g[k[d][i]])) = 0
  <2> DEFINE m == IF d = c THEN i + 1 ELSE i
  <2>1. m \in 1 .. Len(h[d]) - 1 /\ k[d][i] = h[d][m] /\ (d = c => m # 1)
    <3>1. CASE d = c
      <4>1. i \in 1 .. n - 1 /\ i + 1 \in 1 .. n - 1 /\ i + 1 # 1
        BY <1>1, <3>1 DEF Shortened
      <4> QED BY <1>1, <3>1, <4>1 DEF Shortened
    <3>2. CASE d # c
      BY <1>1, <3>2 DEF Shortened
    <3> QED BY <3>1, <3>2
  <2> HIDE DEF m
  <2>2. m \in 1 .. Len(h[d]) /\ h[d][m] \in Buffer
    BY <2>1
  <2>3. h[d][m] # b
    <3>1. ASSUME h[d][m] = h[c][1] PROVE FALSE
      <4>1. 1 \in 1 .. Len(h[c])
        BY <1>1 DEF Shortened
      <4>2. d = c /\ m = 1
        BY <2>2, <3>1, <4>1 DEF Apart
      <4> QED BY <2>1, <4>2
    <3>2. b = h[c][1]
      BY <1>1 DEF Shortened
    <3> QED BY <3>1, <3>2
  <2>4. Len(f[h[d][m]]) > 0 /\ Cap - (o[h[d][m]] + Len(f[h[d][m]])) = 0
    BY <2>1 DEF BufInv
  <2>5. g[h[d][m]] = f[h[d][m]] /\ q[h[d][m]] = o[h[d][m]]
    BY <1>5, <2>2, <2>3
  <2> QED BY <2>1, <2>4, <2>5
<1>8. ASSUME NEW d \in Buffer, g[d] = <<>> \/ ~InChain(k, d)
      PROVE  q[d] = 0 /\ g[d] = <<>>
  <2>1. CASE d = b
    BY <1>5, <2>1
  <2>2. CASE d # b
    BY <1>2, <1>5, <1>8, <2>2 DEF BufInv
  <2> QED BY <2>1, <2>2
<1>9. BufInv(k, g, q)
  BY <1>5, <1>6, <1>7, <1>8 DEF BufInv
<1> QED BY <1>9 DEF k, g, q

\* All bytes of the only buffer of a chain are taken.
LEMMA BufReset ==
  ASSUME NEW h \in [Chain -> Seq(Buffer)], Apart(h), NEW f, NEW o, BufInv(h, f, o),
         NEW c \in Chain, NEW b \in Buffer, h[c] = <<b>>
  PROVE  BufInv(h, [f EXCEPT ![b] = <<>>], [o EXCEPT ![b] = 0])
<1> DEFINE g == [f EXCEPT ![b] = <<>>]
           q == [o EXCEPT ![b] = 0]
<1>1. f \in [Buffer -> Seq(Nat)] /\ o \in [Buffer -> 0 .. Cap] /\ Cap \in Nat
  BY BufType
<1>2. /\ g \in [Buffer -> Seq(Nat)] /\ q \in [Buffer -> 0 .. Cap]
      /\ g[b] = <<>> /\ q[b] = 0
      /\ \A d \in Buffer : d # b => g[d] = f[d] /\ q[d] = o[d]
  <2>1. <<>> \in Seq(Nat) /\ 0 \in 0 .. Cap
    BY <1>1
  <2> QED BY <1>1, <2>1
<1> HIDE DEF g, q
<1>3. Len(h[c]) = 1 /\ h[c][1] = b /\ 1 \in 1 .. Len(h[c])
  OBVIOUS
<1>4. \A d \in Buffer : q[d] + Len(g[d]) <= Cap
  <2>1. q[b] + Len(g[b]) <= Cap
    BY <1>1, <1>2
  <2> QED BY <1>2, <2>1 DEF BufInv
<1>5. ASSUME NEW d \in Chain, NEW i \in 1 .. Len(h[d]) - 1
      PROVE  Len(g[h[d][i]]) > 0 /\ Cap - (q[h[d][i]] + Len(g[h[d][i]])) = 0
  <2>0. \A j \in 1 .. 1 - 1 : FALSE
    OBVIOUS
  <2>1. i \in 1 .. Len(h[d]) /\ h[d][i] \in Buffer /\ Len(h[d]) # 1
    <3>1. i \in 1 .. Len(h[d]) /\ h[d][i] \in Buffer
      OBVIOUS
    <3>2. Len(h[d]) # 1
      BY <2>0
    <3> QED BY <3>1, <3>2
  <2>2. h[d][i] # b
    <3>1. ASSUME h[d][i] = h[c][1] PROVE FALSE
      <4>1. d = c
        BY <1>3, <2>1, <3>1 DEF Apart
      <4> QED BY <1>3, <2>1, <4>1
    <3> QED BY <1>3, <3>1
  <2>3. Len(f[h[d][i]]) > 0 /\ Cap - (o[h[d][i]] + Len(f[h[d][i]])) = 0
    BY DEF BufInv
  <2>4. g[h[d][i]] = f[h[d][i]] /\ q[h[d][i]] = o[h[d][i]]
    BY <1>2, <2>1, <2>2
  <2> QED BY <2>3, <2>4
<1>6. ASSUME NEW d \in Buffer, g[d] = <<>> \/ ~InChain(h, d)
      PROVE  q[d] = 0 /\ g[d] = <<>>
  <2>1. CASE d = b
    BY <1>2, <2>1
  <2>2. CASE d # b
    BY <1>2, <1>6, <2>2 DEF BufInv
  <2> QED BY <2>1, <2>2
<1>7. BufInv(h, g, q)
  BY <1>2, <1>4, <1>5, <1>6 DEF BufInv
<1> QED BY <1>7 DEF g, q

\* Some bytes of buffer b are taken, and y is left of them.
LEMMA BufTake ==
  ASSUME NEW h \in [Chain -> Seq(Buffer)], NEW f, NEW o, BufInv(h, f, o),
         NEW b \in Buffer, InChain(h, b), NEW m \in Nat, NEW y \in Seq(Nat), y # <<>>,
         Len(y) + m = Len(f[b])
  PROVE  BufInv(h, [f EXCEPT ![b] = y], [o EXCEPT ![b] = @ + m])
<1> DEFINE g == [f EXCEPT ![b] = y]
           q == [o EXCEPT ![b] = @ + m]
<1>1. /\ f \in [Buffer -> Seq(Nat)] /\ o \in [Buffer -> 0 .. Cap] /\ Cap \in Nat
      /\ Len(f[b]) \in Nat /\ o[b] \in Nat /\ o[b] + Len(f[b]) <= Cap /\ Len(y) \in Nat /\ Len(y) > 0
  <2>1. Len(y) \in Nat /\ Len(y) > 0
    OBVIOUS
  <2>2. o[b] + Len(f[b]) <= Cap
    BY DEF BufInv
  <2> QED BY <2>1, <2>2, BufType
<1>2. o[b] + m \in 0 .. Cap /\ (o[b] + m) + Len(y) = o[b] + Len(f[b])
  <2>1. \A u, v, w \in Nat : w + m = v /\ u + v <= Cap => u + m \in 0 .. Cap /\ (u + m) + w = u + v
    BY <1>1
  <2> QED BY <1>1, <2>1
<1>3. /\ g \in [Buffer -> Seq(Nat)] /\ q \in [Buffer -> 0 .. Cap]
      /\ g[b] = y /\ q[b] = o[b] + m
      /\ \A d \in Buffer : d # b => g[d] = f[d] /\ q[d] = o[d]
  BY <1>1, <1>2
<1> HIDE DEF g, q
<1>4. \A d \in Buffer : q[d] + Len(g[d]) = o[d] + Len(f[d])
  BY <1>2, <1>3
<1>5. \A d \in Buffer : q[d] + Len(g[d]) <= Cap
  BY <1>4 DEF BufInv
<1>6. ASSUME NEW d \in Chain, NEW i \in 1 .. Len(h[d]) - 1
      PROVE  Len(g[h[d][i]]) > 0 /\ Cap - (q[h[d][i]] + Len(g[h[d][i]])) = 0
  <2>1. h[d][i] \in Buffer
    OBVIOUS
  <2>2. Len(f[h[d][i]]) > 0 /\ Cap - (o[h[d][i]] + Len(f[h[d][i]])) = 0
    BY DEF BufInv
  <2>3. Len(g[h[d][i]]) > 0
    BY <1>1, <1>3, <2>1, <2>2
  <2>4. q[h[d][i]] + Len(g[h[d][i]]) = o[h[d][i]] + Len(f[h[d][i]])
    BY <1>4, <2>1
  <2> QED BY <2>2, <2>3, <2>4
<1>7. ASSUME NEW d \in Buffer, g[d] = <<>> \/ ~InChain(h, d)
      PROVE  q[d] = 0 /\ g[d] = <<>>
  <2>1. d # b
    BY <1>3, <1>7
  <2> QED BY <1>3, <1>7, <2>1 DEF BufInv
<1>8. BufInv(h, g, q)
  BY <1>3, <1>5, <1>6, <1>7 DEF BufInv
<1> QED BY <1>8 DEF g, q
-----------------------------------------------------------------------------
(* Every action preserves the invariant.                                   *)

LEMMA ChainType ==
  ASSUME Ind
  PROVE  /\ chain \in [Chain -> Seq(Buffer)] /\ Apart(chain)
         /\ \A c \in Chain : chain[c] \in Seq(Buffer) /\ Distinct(chain[c])
         /\ content \in [Buffer -> Seq(Nat)] /\ pos \in [Buffer -> 0 .. Cap]
<1>1. chain \in [Chain -> Seq(Buffer)] /\ Apart(chain)
  BY DEF Ind, PoolInv, OwnType, Owned
<1>2. \A c \in Chain : chain[c] \in Seq(Buffer) /\ Distinct(chain[c])
  BY <1>1 DEF Apart, Distinct
<1> QED BY <1>1, <1>2 DEF Ind, BufInv

LEMMA CurIs ==
  ASSUME Ind, pc # "idle"
  PROVE  cur \in Chain /\ chain[cur] # <<>>
BY DEF Ind, CallType, CallInv

LEMMA InitInd == Init => Ind
<1> SUFFICES ASSUME Init PROVE Ind
  OBVIOUS
<1>0. \A c \in Chain : chain[c] = <<>> /\ written[c] = <<>> /\ arrived[c] = 0
  BY DEF Init
<1>1. PoolInv(pool, chain, live, allocs)
  <2>1. OwnType(pool, chain, live)
    BY DEF Init, OwnType
  <2>2. (\A b : ~In(pool, b)) /\ (\A b : ~InChain(chain, b))
    BY <1>0 DEF Init, In, InChain
  <2>3. Distinct(pool) /\ Apart(chain)
    BY <1>0 DEF Init, Distinct, Apart
  <2>4. Owned(pool, chain, live)
    BY <2>2, <2>3 DEF Init, Owned
  <2>5. IsFiniteSet(live) /\ allocs = Cardinality(live)
    BY FS_EmptySet DEF Init
  <2>6. Len(pool) <= MaxSize
    BY SizesAssumption DEF Init
  <2> QED BY <2>1, <2>4, <2>5, <2>6 DEF PoolInv
<1>2. BufInv(chain, content, pos)
  <2>1. Cap \in Nat
    BY SizesAssumption
  <2>2. content \in [Buffer -> Seq(Nat)] /\ pos \in [Buffer -> 0 .. Cap]
    BY <2>1 DEF Init
  <2>3. \A b \in Buffer : pos[b] = 0 /\ content[b] = <<>>
    BY DEF Init
  <2>4. \A b \in Buffer : pos[b] + Len(content[b]) <= Cap
    BY <2>1, <2>3
  <2>5. \A c \in Chain : \A i \in 1 .. Len(chain[c]) - 1 : FALSE
    BY <1>0
  <2> QED BY <2>2, <2>3, <2>4, <2>5 DEF BufInv
<1>3. CallType /\ CallInv
  <2>1. CallInv
    BY DEF Init, CallInv
  <2>2. arrived \in [Chain -> Nat] /\ \A c \in Chain : arrived[c] <= MaxBytes[c]
    BY SizesAssumption DEF Init
  <2>3. recv \in [Chain -> Nat] /\ sent \in [Chain -> Nat] /\ written \in [Chain -> Seq(Nat)]
    BY DEF Init
  <2>4. /\ pc \in {"idle", "recv", "send", "shrink"} /\ cur \in Chain \union {NoChain}
        /\ surplus \in Nat /\ complete \in BOOLEAN /\ ret \in {-1, 0, 1}
    BY DEF Init
  <2> QED BY <2>1, <2>2, <2>3, <2>4 DEF CallType
<1>4. ASSUME NEW c \in Chain PROVE StreamOf(written[c], chain[c], content, arrived[c], Pending(c))
  <2>1. written[c] = <<>> /\ chain[c] = <<>> /\ arrived[c] = 0 /\ Pending(c) = 0
    BY <1>0 DEF Init, Pending
  <2>2. ContentOf(content, <<>>) = <<>>
    BY ContentEmpty
  <2>3. <<>> = Run(0, 0)
    BY RunFacts
  <2> QED BY <2>1, <2>2, <2>3 DEF StreamOf
<1> QED BY <1>1, <1>2, <1>3, <1>4 DEF Ind, Streams

LEMMA NewChainKeeps ==
  ASSUME Ind, NEW c \in Chain, NewChain(c)
  PROVE  Ind'
<1>0. pc = "idle" /\ chain[c] = <<>>
  BY DEF NewChain
<1>1. PICK b \in Buffer : buffer_pool_peek(b) /\ buffer_detach(b) /\ chain' = [chain EXCEPT ![c] = <<b>>]
  BY DEF NewChain
<1>2. chain \in [Chain -> Seq(Buffer)] /\ content \in [Buffer -> Seq(Nat)]
  BY ChainType
<1>3. chain' = [chain EXCEPT ![c] = Append(@, b)]
  <2>1. Append(chain[c], b) = <<b>>
    BY <1>0
  <2> QED BY <1>1, <2>1
<1>4. PoolInv(pool', chain', live', allocs') /\ ~InChain(chain, b)
  BY <1>1, <1>3, DetachKeepsPool DEF Ind
<1>5. BufInv(chain', content', pos')
  <2>1. content' = content /\ pos' = pos
    BY DEF NewChain
  <2>2. BufInv([chain EXCEPT ![c] = Append(@, b)], content, pos)
    BY <1>0, <1>2, BufNew DEF Ind
  <2> QED BY <1>3, <2>1, <2>2
<1>6. CallType' /\ CallInv'
  BY <1>0 DEF Ind, NewChain, CallType, CallInv
<1>7. ASSUME NEW d \in Chain
      PROVE  StreamOf(written'[d], chain'[d], content', arrived'[d], Pending(d)')
  <2>1. /\ written' = written /\ content' = content /\ arrived' = arrived
        /\ Pending(d) = 0 /\ Pending(d)' = 0
    BY <1>0 DEF NewChain, Pending
  <2>2. StreamOf(written[d], chain[d], content, arrived[d], 0)
    BY <2>1 DEF Ind, Streams
  <2>3. CASE d = c
    <3>1. chain'[d] = <<b>> /\ chain[d] = <<>>
      BY <1>0, <1>1, <1>2, <2>3
    <3>2. ContentOf(content, <<b>>) = <<>> /\ ContentOf(content, <<>>) = <<>>
      <4>1. content[b] = <<>>
        BY <1>4 DEF Ind, BufInv
      <4> QED BY <1>2, <4>1, ContentOne, ContentEmpty
    <3> QED BY <2>1, <2>2, <3>1, <3>2 DEF StreamOf
  <2>4. CASE d # c
    <3>1. chain'[d] = chain[d]
      BY <1>1, <1>2, <2>4
    <3> QED BY <2>1, <2>2, <3>1
  <2> QED BY <2>3, <2>4
<1> QED BY <1>4, <1>5, <1>6, <1>7 DEF Ind, Streams

\* Steps that change no buffer and leave nothing pending.
LEMMA CallKeeps ==
  ASSUME Ind, PoolInv(pool', chain, live', allocs'),
         UNCHANGED <<chain, content, pos, arrived, written>>,
         CallType', CallInv', pc # "shrink", pc' # "shrink"
  PROVE  Ind'
<1>1. PoolInv(pool', chain', live', allocs') /\ BufInv(chain', content', pos')
  BY DEF Ind
<1>2. ASSUME NEW d \in Chain
      PROVE  StreamOf(written'[d], chain'[d], content', arrived'[d], Pending(d)')
  <2>1. Pending(d) = 0 /\ Pending(d)' = 0
    BY DEF Pending
  <2>2. StreamOf(written[d], chain[d], content, arrived[d], 0)
    BY <2>1 DEF Ind, Streams
  <2> QED BY <2>1, <2>2
<1> QED BY <1>1, <1>2 DEF Ind, Streams

LEMMA RecvKeeps ==
  ASSUME Ind, NEW c \in Chain, buffer_chain_recv(c)
  PROVE  Ind'
<1>1. CallType' /\ CallInv'
  BY ChainAssumption DEF Ind, CallType, CallInv, buffer_chain_recv, bufVars
<1>2. /\ UNCHANGED <<chain, content, pos, arrived, written>> /\ pc # "shrink" /\ pc' # "shrink"
      /\ UNCHANGED <<pool, live, allocs>>
  BY DEF buffer_chain_recv, poolVars, bufVars
<1>3. PoolInv(pool', chain, live', allocs')
  BY <1>2 DEF Ind
<1> QED BY <1>1, <1>2, <1>3, CallKeeps

LEMMA SendKeeps ==
  ASSUME Ind, NEW c \in Chain, buffer_chain_send(c)
  PROVE  Ind'
<1>1. CallType' /\ CallInv'
  BY ChainAssumption DEF Ind, CallType, CallInv, buffer_chain_send, bufVars
<1>2. /\ UNCHANGED <<chain, content, pos, arrived, written>> /\ pc # "shrink" /\ pc' # "shrink"
      /\ UNCHANGED <<pool, live, allocs>>
  BY DEF buffer_chain_send, poolVars, bufVars
<1>3. PoolInv(pool', chain, live', allocs')
  BY <1>2 DEF Ind
<1> QED BY <1>1, <1>2, <1>3, CallKeeps

LEMMA ReadEndsKeeps ==
  ASSUME Ind, NEW rv \in {-1, 0, 1}, ReadEnds(rv)
  PROVE  Ind'
<1>1. CallType' /\ CallInv'
  BY DEF Ind, CallType, CallInv, ReadEnds, Return
<1>2. UNCHANGED <<chain, content, pos, arrived, written>> /\ pc # "shrink" /\ pc' # "shrink"
  BY DEF ReadEnds, Return, bufVars
<1>3. PICK temp \in Buffer : buffer_pool_peek(temp) /\ Peeked(temp)
  BY DEF ReadEnds
<1>4. PoolInv(pool', chain, live', allocs')
  BY <1>3, PeekKeeps DEF Ind
<1> QED BY <1>1, <1>2, <1>4, CallKeeps

LEMMA WriteEndsKeeps ==
  ASSUME Ind, NEW rv \in {-1, 0, 1}, WriteEnds(rv)
  PROVE  Ind'
<1>1. CallType' /\ CallInv'
  BY DEF Ind, CallType, CallInv, WriteEnds, Return
<1>2. /\ UNCHANGED <<chain, content, pos, arrived, written>> /\ pc # "shrink" /\ pc' # "shrink"
      /\ UNCHANGED <<pool, live, allocs>>
  BY DEF WriteEnds, Return, poolVars, bufVars
<1>3. PoolInv(pool', chain, live', allocs')
  BY <1>2 DEF Ind
<1> QED BY <1>1, <1>2, <1>3, CallKeeps

LEMMA ArrivingIs ==
  ASSUME NEW c \in Chain, NEW n \in Nat, Ind
  PROVE  /\ Arriving(c, n) = Run(arrived[c], n) /\ Run(arrived[c], n) \in Seq(Nat)
         /\ Len(Run(arrived[c], n)) = n /\ arrived[c] \in Nat
<1>1. arrived[c] \in Nat
  BY DEF Ind, CallType
<1> QED BY <1>1, RunFacts DEF Arriving, Run

\* The bytes that a call counts.
LEMMA ReadCounts ==
  ASSUME Ind, NEW c \in Chain, NEW n \in Nat, arrived[c] + n <= MaxBytes[c],
         recv' = [recv EXCEPT ![c] = @ + n], arrived' = [arrived EXCEPT ![c] = @ + n]
  PROVE  /\ recv' \in [Chain -> Nat] /\ arrived' \in [Chain -> Nat]
         /\ \A d \in Chain : arrived'[d] <= MaxBytes[d]
         /\ arrived'[c] = arrived[c] + n /\ \A d \in Chain : d # c => arrived'[d] = arrived[d]
<1>1. recv \in [Chain -> Nat] /\ arrived \in [Chain -> Nat] /\ \A d \in Chain : arrived[d] <= MaxBytes[d]
  BY DEF Ind, CallType
<1>2. arrived' \in [Chain -> Nat] /\ recv' \in [Chain -> Nat]
  BY <1>1
<1>3. arrived'[c] = arrived[c] + n /\ \A d \in Chain : d # c => arrived'[d] = arrived[d]
  BY <1>1
<1> QED BY <1>1, <1>2, <1>3

LEMMA ReadFitsKeeps ==
  ASSUME Ind, NEW n \in Nat \ {0}, ReadFits(n)
  PROVE  Ind'
<1> DEFINE c == cur
           s == chain[cur]
           b == Last(chain[cur])
           x == Run(arrived[cur], n)
<1>1. c \in Chain /\ s # <<>> /\ pc = "recv"
  BY CurIs DEF ReadFits
<1>2. /\ chain \in [Chain -> Seq(Buffer)] /\ Apart(chain) /\ s \in Seq(Buffer) /\ Distinct(s)
      /\ content \in [Buffer -> Seq(Nat)]
  BY <1>1, ChainType
<1>3. Arriving(c, n) = x /\ x \in Seq(Nat) /\ Len(x) = n /\ x # <<>> /\ arrived[c] \in Nat
  <2>1. Arriving(c, n) = x /\ x \in Seq(Nat) /\ Len(x) = n /\ arrived[c] \in Nat
    BY <1>1, ArrivingIs
  <2> HIDE DEF x
  <2> QED BY <2>1
<1>4. content' = [content EXCEPT ![b] = @ \o x] /\ n <= Cap - (pos[b] + Len(content[b]))
  <2>1. content' = [content EXCEPT ![b] = @ \o Arriving(c, n)] /\ n <= Cap - (pos[b] + Len(content[b]))
    BY DEF ReadFits, wbuf, buffer_wsize
  <2> QED BY <1>3, <2>1
<1>5. UNCHANGED <<chain, pos, sent, written, surplus, complete>> /\ pc' = "idle" /\ cur' = NoChain /\ ret' = 1
  BY DEF ReadFits, Return
<1>6. b \in Buffer /\ b = s[Len(s)] /\ Len(s) \in 1 .. Len(s)
  BY <1>1, <1>2, SplitLast
<1> HIDE DEF b, x, s
<1>7. PoolInv(pool', chain', live', allocs')
  <2>1. PICK temp \in Buffer : buffer_pool_peek(temp) /\ Peeked(temp)
    BY DEF ReadFits
  <2> QED BY <1>5, <2>1, PeekKeeps DEF Ind
<1>8. BufInv(chain', content', pos')
  <2>1. Len(x) <= Cap - (pos[b] + Len(content[b]))
    BY <1>3, <1>4
  <2>2. BufInv(chain, [content EXCEPT ![b] = @ \o x], pos)
    <3>1. BufInv(chain, content, pos) /\ chain[c] # <<>> /\ b = Last(chain[c])
      BY <1>1 DEF Ind, b, s
    <3> QED BY <1>1, <1>2, <1>3, <2>1, <3>1, BufGrow
  <2> QED BY <1>4, <1>5, <2>2
<1>9. /\ recv' \in [Chain -> Nat] /\ arrived' \in [Chain -> Nat]
      /\ \A d \in Chain : arrived'[d] <= MaxBytes[d]
      /\ arrived'[c] = arrived[c] + n /\ \A d \in Chain : d # c => arrived'[d] = arrived[d]
  BY <1>1, ReadCounts DEF ReadFits
<1>10. CallType' /\ CallInv'
  BY <1>1, <1>5, <1>9 DEF Ind, CallType, CallInv
<1>11. /\ content' \in [Buffer -> Seq(Nat)] /\ content'[b] = content[b] \o x
       /\ \A d \in Buffer : d # b => content'[d] = content[d]
  BY <1>2, <1>4, <1>6, <1>8 DEF BufInv
<1>12. ASSUME NEW d \in Chain
       PROVE  StreamOf(written'[d], chain'[d], content', arrived'[d], Pending(d)')
  <2>1. Pending(d) = 0 /\ Pending(d)' = 0 /\ written[d] \in Seq(Nat)
    BY <1>1, <1>5 DEF Pending, Ind, CallType
  <2>2. StreamOf(written[d], chain[d], content, arrived[d], 0)
    BY <2>1 DEF Ind, Streams
  <2>3. CASE d = c
    <3>1. ContentOf(content', s) = ContentOf(content, s) \o x
      <4>1. Grown(content, content', Last(s), x)
        BY <1>11 DEF Grown, b, s
      <4> QED BY <1>1, <1>2, <1>3, <1>11, <4>1, ContentGrow
    <3>2. StreamOf(written[d], s, content', arrived[d] + n, 0)
      <4>1. StreamOf(written[d], s, content, arrived[d], 0) /\ arrived[d] \in Nat
        BY <1>3, <2>2, <2>3 DEF s
      <4>2. ContentOf(content', s) = ContentOf(content, s) \o Run(arrived[d], n)
        BY <2>3, <3>1 DEF x
      <4> QED BY <2>1, <4>1, <4>2, StreamRead
    <3> QED BY <1>5, <1>9, <2>1, <2>3, <3>2 DEF s
  <2>4. CASE d # c
    <3>1. \A i \in 1 .. Len(chain[d]) : content[chain[d][i]] = content'[chain[d][i]]
      <4> SUFFICES ASSUME NEW i \in 1 .. Len(chain[d]) PROVE content[chain[d][i]] = content'[chain[d][i]]
        OBVIOUS
      <4>1. chain[d][i] \in Buffer
        BY <1>2
      <4>2. chain[d][i] # b
        BY <1>1, <1>2, <1>6, <2>4 DEF Apart, s
      <4> QED BY <1>11, <4>1, <4>2
    <3>2. StreamOf(written[d], chain[d], content', arrived[d], 0)
      <4>1. chain[d] \in Seq(Buffer)
        BY <1>2
      <4> QED BY <2>2, <3>1, <4>1, StreamSame
    <3> QED BY <1>5, <1>9, <2>1, <2>4, <3>2
  <2> QED BY <2>3, <2>4
<1> QED BY <1>7, <1>8, <1>10, <1>12 DEF Ind, Streams

\* g is f after a read that appended x to buffer b and put y into buffer t.
Spilled(f, g, b, t, x, y) ==
  g[b] = f[b] \o x /\ g[t] = y /\ \A d \in Buffer \ {b, t} : g[d] = f[d]

\* The content of a chain s that a read filled up with x and extended by a
\* buffer t with y.
LEMMA ContentSpill ==
  \A f, g \in [Buffer -> Seq(Nat)], s \in Seq(Buffer), t \in Buffer, x, y \in Seq(Nat) :
    s # <<>> /\ Distinct(s) /\ ~In(s, t) /\ Spilled(f, g, Last(s), t, x, y) =>
      ContentOf(g, Append(s, t)) = ContentOf(f, s) \o (x \o y)
<1> TAKE f, g \in [Buffer -> Seq(Nat)], s \in Seq(Buffer), t \in Buffer, x, y \in Seq(Nat)
<1> HAVE s # <<>> /\ Distinct(s) /\ ~In(s, t) /\ Spilled(f, g, Last(s), t, x, y)
<1> DEFINE e == [g EXCEPT ![t] = f[t]]
<1>1. \A i \in 1 .. Len(s) : s[i] \in Buffer /\ s[i] # t
  BY DEF In
<1>2. Last(s) \in Buffer /\ Last(s) # t
  <2>1. Last(s) = s[Len(s)] /\ Len(s) \in 1 .. Len(s)
    BY SplitLast
  <2> QED BY <1>1, <2>1
<1>3. e \in [Buffer -> Seq(Nat)] /\ e[t] = f[t] /\ \A d \in Buffer \ {t} : e[d] = g[d]
  OBVIOUS
<1> HIDE DEF e
<1>4. Grown(f, e, Last(s), x)
  <2>1. e[Last(s)] = g[Last(s)]
    BY <1>2, <1>3
  <2>2. \A d \in Buffer \ {Last(s)} : e[d] = f[d]
    BY <1>3 DEF Spilled
  <2> QED BY <2>1, <2>2 DEF Grown, Spilled
<1>5. ContentOf(e, s) = ContentOf(f, s) \o x
  BY <1>3, <1>4, ContentGrow
<1>6. ContentOf(g, s) = ContentOf(e, s)
  <2>1. \A i \in 1 .. Len(s) : g[s[i]] = e[s[i]]
    BY <1>1, <1>3
  <2> QED BY <2>1, ContentSame
<1>7. ContentOf(g, Append(s, t)) = ContentOf(g, s) \o g[t] /\ g[t] = y
  BY ContentAppend DEF Spilled
<1>8. ContentOf(f, s) \in Seq(Nat)
  BY ContentType
<1>9. (ContentOf(f, s) \o x) \o y = ContentOf(f, s) \o (x \o y)
  BY <1>8, AssociativeNat, Zenon
<1> QED BY <1>5, <1>6, <1>7, <1>9

LEMMA ReadSpillsKeeps ==
  ASSUME Ind, NEW n \in Nat \ {0}, ReadSpills(n)
  PROVE  Ind'
<1> DEFINE c == cur
           s == chain[cur]
           b == Last(chain[cur])
           a == arrived[cur]
           w == buffer_wsize(Last(chain[cur]))
           x == Run(a, w)
           y == Run(a + w, n - w)
<1>1. c \in Chain /\ s # <<>> /\ pc = "recv"
  BY CurIs DEF ReadSpills
<1>2. /\ chain \in [Chain -> Seq(Buffer)] /\ Apart(chain) /\ s \in Seq(Buffer) /\ Distinct(s)
      /\ content \in [Buffer -> Seq(Nat)]
  BY <1>1, ChainType
<1>3. Arriving(c, n) = Run(a, n) /\ a \in Nat
  BY <1>1, ArrivingIs
<1>4. b \in Buffer /\ b = s[Len(s)] /\ Len(s) \in 1 .. Len(s)
  BY <1>1, <1>2, SplitLast
<1> HIDE DEF a, s
<1>5. /\ w \in Nat /\ w = Cap - (pos[b] + Len(content[b])) /\ n > w
  <2>1. w = Cap - (pos[b] + Len(content[b])) /\ n > w
    BY DEF ReadSpills, wbuf, buffer_wsize
  <2>2. pos[b] \in Nat /\ Len(content[b]) \in Nat /\ Cap \in Nat
    <3> HIDE DEF b, w
    <3> QED BY <1>4, BufType DEF Ind
  <2>3. pos[b] + Len(content[b]) <= Cap
    <3> HIDE DEF b, w
    <3> QED BY <1>4 DEF Ind, BufInv
  <2> HIDE DEF b, w
  <2> QED BY <2>1, <2>2, <2>3
<1>6. PICK temp \in Buffer :
        /\ buffer_pool_peek(temp) /\ buffer_detach(temp)
        /\ n <= w + buffer_wsize(temp)
        /\ content' = [[content EXCEPT ![b] = @ \o SubSeq(Arriving(c, n), 1, w)]
                       EXCEPT ![temp] = SubSeq(Arriving(c, n), w + 1, n)]
        /\ chain' = [chain EXCEPT ![c] = Append(@, temp)]
        /\ IF n = w + buffer_wsize(temp) THEN UNCHANGED <<pc, cur, ret>> ELSE Return(1)
  BY DEF ReadSpills, wbuf
<1>7. UNCHANGED <<pos, sent, written, surplus, complete>>
  BY DEF ReadSpills
<1>8. /\ recv' \in [Chain -> Nat] /\ arrived' \in [Chain -> Nat]
      /\ \A d \in Chain : arrived'[d] <= MaxBytes[d]
      /\ arrived'[c] = a + n /\ \A d \in Chain : d # c => arrived'[d] = arrived[d]
  BY <1>1, ReadCounts DEF ReadSpills, a
<1> HIDE DEF b, w
<1>9. SubSeq(Run(a, n), 1, w) = x /\ SubSeq(Run(a, n), w + 1, n) = y
  <2>1. /\ 1 \in 1 .. n + 1 /\ w \in 1 - 1 .. n /\ a + (1 - 1) = a /\ w - (1 - 1) = w
        /\ w + 1 \in 1 .. n + 1 /\ n \in (w + 1) - 1 .. n /\ (w + 1) - 1 = w
    BY <1>3, <1>5
  <2>2. SubSeq(Run(a, n), 1, w) = Run(a + (1 - 1), w - (1 - 1))
    BY <1>3, <2>1, RunSub
  <2>3. SubSeq(Run(a, n), w + 1, n) = Run(a + ((w + 1) - 1), n - ((w + 1) - 1))
    BY <1>3, <2>1, RunSub
  <2> QED BY <2>1, <2>2, <2>3
<1>10. /\ x \in Seq(Nat) /\ Len(x) = w /\ y \in Seq(Nat) /\ Len(y) = n - w /\ y # <<>>
       /\ x \o y = Run(a, n)
  <2>1. a + w \in Nat /\ n - w \in Nat /\ n - w # 0
    BY <1>3, <1>5
  <2>2. x \in Seq(Nat) /\ Len(x) = w /\ y \in Seq(Nat) /\ Len(y) = n - w
    BY <1>3, <1>5, <2>1, RunFacts
  <2>3. Run(a, (a + w) - a) \o Run(a + w, (a + n) - (a + w)) = Run(a, (a + n) - a)
    <3>1. a <= a + w /\ a + w <= a + n /\ a + n \in Nat
      BY <1>3, <1>5
    <3> QED BY <1>3, <2>1, <3>1, RunConcat
  <2>4. (a + w) - a = w /\ (a + n) - (a + w) = n - w /\ (a + n) - a = n
    BY <1>3, <1>5
  <2>5. x \o y = Run(a, n)
    BY <2>3, <2>4
  <2>6. y # <<>>
    <3> HIDE DEF y
    <3> QED BY <2>1, <2>2
  <2> QED BY <2>2, <2>5, <2>6
<1> HIDE DEF x, y
<1>11. content' = [[content EXCEPT ![b] = @ \o x] EXCEPT ![temp] = y]
  BY <1>3, <1>6, <1>9
<1>12. PoolInv(pool', chain', live', allocs') /\ ~InChain(chain, temp)
  BY <1>1, <1>6, DetachKeepsPool DEF Ind
<1>13. Len(y) <= Cap
  <2>1. pos[temp] = 0 /\ content[temp] = <<>> /\ Cap \in Nat
    BY <1>12, SizesAssumption DEF Ind, BufInv
  <2>2. buffer_wsize(temp) = Cap
    BY <2>1 DEF buffer_wsize
  <2> QED BY <1>5, <1>6, <1>10, <2>1, <2>2
<1>14. BufInv(chain', content', pos')
  <2>1. Len(x) = Cap - (pos[b] + Len(content[b]))
    BY <1>5, <1>10
  <2>2. BufInv(chain, content, pos) /\ chain[c] # <<>> /\ b = Last(chain[c])
    BY <1>1 DEF Ind, b, s
  <2>3. BufInv([chain EXCEPT ![c] = Append(@, temp)],
               [[content EXCEPT ![b] = @ \o x] EXCEPT ![temp] = y], pos)
    BY <1>1, <1>2, <1>10, <1>12, <1>13, <2>1, <2>2, BufSpill
  <2> QED BY <1>6, <1>7, <1>11, <2>3
<1>15. /\ pc' \in {"idle", "recv"} /\ (pc' = "idle" <=> cur' = NoChain) /\ cur' \in {cur, NoChain}
       /\ ret' \in {-1, 0, 1}
  <2>1. ret \in {-1, 0, 1} /\ cur # NoChain
    BY <1>1, ChainAssumption DEF Ind, CallType
  <2> QED BY <1>1, <1>6, <2>1 DEF Return
<1>16. CallType' /\ CallInv'
  <2>1. CallType'
    BY <1>1, <1>7, <1>8, <1>15 DEF Ind, CallType
  <2>2. chain'[c] # <<>>
    <3>1. chain'[c] = Append(s, temp)
      BY <1>1, <1>2, <1>6 DEF s
    <3>2. temp \in Buffer
      BY <1>6
    <3>3. \A r \in Seq(Buffer), t \in Buffer : Append(r, t) # <<>>
      OBVIOUS
    <3> QED BY <1>2, <3>1, <3>2, <3>3
  <2>3. surplus = 0
    BY <1>1 DEF Ind, CallInv
  <2> QED BY <1>7, <1>15, <2>1, <2>2, <2>3 DEF CallInv
<1>17. /\ content' \in [Buffer -> Seq(Nat)]
       /\ \A d \in Buffer : d # b /\ d # temp => content'[d] = content[d]
  BY <1>2, <1>4, <1>11, <1>14 DEF BufInv
<1>18. ASSUME NEW d \in Chain
       PROVE  StreamOf(written'[d], chain'[d], content', arrived'[d], Pending(d)')
  <2>1. Pending(d) = 0 /\ Pending(d)' = 0 /\ written[d] \in Seq(Nat)
    BY <1>1, <1>15 DEF Pending, Ind, CallType
  <2>2. StreamOf(written[d], chain[d], content, arrived[d], 0)
    BY <2>1 DEF Ind, Streams
  <2>3. CASE d = c
    <3>1. ~In(s, temp)
      BY <1>1, <1>12 DEF InChain, s
    <3>2. ContentOf(content', Append(s, temp)) = ContentOf(content, s) \o (x \o y)
      <4>1. b # temp
        BY <1>4, <3>1 DEF In
      <4>2. Spilled(content, content', Last(s), temp, x, y)
        BY <1>2, <1>4, <1>11, <1>17, <4>1 DEF Spilled, b, s
      <4>3. temp \in Buffer
        BY <1>6
      <4>4. s # <<>> /\ Distinct(s) /\ s \in Seq(Buffer) /\ content \in [Buffer -> Seq(Nat)]
        BY <1>1, <1>2
      <4>5. x \in Seq(Nat) /\ y \in Seq(Nat) /\ content' \in [Buffer -> Seq(Nat)]
        BY <1>10, <1>17
      <4>6. s # <<>> /\ Distinct(s) /\ ~In(s, temp) /\ Spilled(content, content', Last(s), temp, x, y)
        BY <3>1, <4>2, <4>4
      <4>7. \A g \in [Buffer -> Seq(Nat)], t \in Buffer, u, v \in Seq(Nat) :
              s # <<>> /\ Distinct(s) /\ ~In(s, t) /\ Spilled(content, g, Last(s), t, u, v) =>
                ContentOf(g, Append(s, t)) = ContentOf(content, s) \o (u \o v)
        BY <4>4, ContentSpill
      <4> QED BY <4>3, <4>5, <4>6, <4>7
    <3>3. StreamOf(written[d], Append(s, temp), content', a + n, 0)
      <4>1. StreamOf(written[d], s, content, a, 0)
        BY <2>2, <2>3 DEF s, a
      <4>2. ContentOf(content', Append(s, temp)) = ContentOf(content, s) \o Run(a, n)
        BY <1>10, <3>2
      <4> QED BY <1>3, <2>1, <4>1, <4>2, StreamRead
    <3>4. chain'[d] = Append(s, temp)
      BY <1>1, <1>2, <1>6, <2>3 DEF s
    <3> QED BY <1>7, <1>8, <2>1, <2>3, <3>3, <3>4
  <2>4. CASE d # c
    <3>1. \A i \in 1 .. Len(chain[d]) : content[chain[d][i]] = content'[chain[d][i]]
      <4> SUFFICES ASSUME NEW i \in 1 .. Len(chain[d]) PROVE content[chain[d][i]] = content'[chain[d][i]]
        OBVIOUS
      <4>1. chain[d][i] \in Buffer /\ InChain(chain, chain[d][i])
        BY <1>2, Places
      <4>2. chain[d][i] # b
        BY <1>1, <1>2, <1>4, <2>4 DEF Apart, s
      <4> QED BY <1>12, <1>17, <4>1, <4>2
    <3>2. StreamOf(written[d], chain[d], content', arrived[d], 0)
      <4>1. chain[d] \in Seq(Buffer)
        BY <1>2
      <4> QED BY <2>2, <3>1, <4>1, StreamSame
    <3>3. chain'[d] = chain[d]
      BY <1>2, <1>6, <2>4
    <3> QED BY <1>7, <1>8, <2>1, <2>4, <3>2, <3>3
  <2> QED BY <2>3, <2>4
<1> QED BY <1>12, <1>14, <1>16, <1>18 DEF Ind, Streams

LEMMA WriteKeeps ==
  ASSUME Ind, NEW n \in Nat \ {0}, Write(n)
  PROVE  Ind'
<1> DEFINE c == cur
           s == chain[cur]
           m == IF Len(s) < SM_MAX_IOV THEN Len(s) ELSE SM_MAX_IOV
           x == ContentOf(content, SubSeq(s, 1, m))
           v == written[cur] \o SubSeq(x, 1, n)
<1>1. c \in Chain /\ s # <<>> /\ pc = "send"
  BY CurIs DEF Write
<1>2. chain \in [Chain -> Seq(Buffer)] /\ s \in Seq(Buffer) /\ content \in [Buffer -> Seq(Nat)]
  BY <1>1, ChainType
<1>3. Covered = x
  BY ContentIs DEF Covered
<1>4. /\ written' = [written EXCEPT ![c] = v] /\ sent' = [sent EXCEPT ![c] = @ + n]
      /\ complete' \in BOOLEAN /\ surplus' = n /\ pc' = "shrink" /\ n <= Len(x)
      /\ UNCHANGED <<pool, allocs, live, chain, pos, content, recv, arrived, cur, ret>>
  BY <1>3 DEF Write, poolVars, bufVars
<1>5. m \in 0 .. Len(s) /\ Len(s) \in Nat
  <2>1. SM_MAX_IOV \in Nat /\ Len(s) \in Nat
    BY <1>2, SizesAssumption
  <2> HIDE DEF s
  <2> QED BY <2>1
<1> HIDE DEF s, m
<1>6. x \in Seq(Nat) /\ n \in 0 .. Len(x)
  <2>1. SubSeq(s, 1, m) \in Seq(Buffer)
    <3>1. 1 \in 1 .. Len(s) + 1 /\ m \in 1 - 1 .. Len(s)
      BY <1>5
    <3> QED BY <1>2, <1>5, <3>1, SubSeqProperties
  <2>2. x \in Seq(Nat)
    BY <1>2, <2>1, ContentType
  <2> HIDE DEF x
  <2> QED BY <1>4, <2>2
<1>7. written \in [Chain -> Seq(Nat)] /\ written[c] \in Seq(Nat) /\ arrived[c] \in Nat
  BY <1>1 DEF Ind, CallType
<1>8. StreamOf(written[c], s, content, arrived[c], 0)
  <2>1. Pending(c) = 0
    BY <1>1 DEF Pending
  <2> QED BY <1>1, <2>1 DEF Ind, Streams, s
<1>9. StreamOf(v, s, content, arrived[c], n) /\ v \in Seq(Nat)
  BY <1>2, <1>5, <1>6, <1>7, <1>8, StreamWrite
<1> HIDE DEF v
<1>10. PoolInv(pool', chain', live', allocs') /\ BufInv(chain', content', pos')
  BY <1>4 DEF Ind
<1>11. CallType' /\ CallInv'
  <2>1. written' \in [Chain -> Seq(Nat)] /\ sent' \in [Chain -> Nat]
    <3>1. sent \in [Chain -> Nat]
      BY DEF Ind, CallType
    <3> QED BY <1>1, <1>4, <1>7, <1>9, <3>1
  <2>2. CallType'
    BY <1>4, <2>1 DEF Ind, CallType
  <2>3. cur # NoChain /\ chain[cur] # <<>>
    BY <1>1, ChainAssumption DEF s
  <2> QED BY <1>4, <2>2, <2>3 DEF CallInv
<1>12. ASSUME NEW d \in Chain
       PROVE  StreamOf(written'[d], chain'[d], content', arrived'[d], Pending(d)')
  <2>1. CASE d = c
    <3>1. Pending(d)' = n /\ written'[d] = v
      BY <1>1, <1>4, <1>7, <2>1 DEF Pending
    <3> QED BY <1>4, <1>9, <2>1, <3>1 DEF s
  <2>2. CASE d # c
    <3>1. Pending(d)' = 0 /\ Pending(d) = 0 /\ written'[d] = written[d]
      BY <1>1, <1>4, <1>7, <2>2 DEF Pending
    <3>2. StreamOf(written[d], chain[d], content, arrived[d], 0)
      BY <3>1 DEF Ind, Streams
    <3> QED BY <1>4, <3>1, <3>2
  <2> QED BY <2>1, <2>2
<1> QED BY <1>10, <1>11, <1>12 DEF Ind, Streams

LEMMA ShrinkDropKeeps ==
  ASSUME Ind, ShrinkDrop
  PROVE  Ind'
<1> DEFINE c == cur
           s == chain[cur]
           b == Head(chain[cur])
           x == content[Head(chain[cur])]
<1>1. c \in Chain /\ s # <<>> /\ pc = "shrink"
  BY CurIs DEF ShrinkDrop
<1>2. /\ chain \in [Chain -> Seq(Buffer)] /\ Apart(chain) /\ s \in Seq(Buffer) /\ Distinct(s)
      /\ content \in [Buffer -> Seq(Nat)]
  BY <1>1, ChainType
<1>3. /\ Len(s) > 1 /\ surplus >= Len(x) /\ surplus' = surplus - Len(x)
      /\ chain' = [chain EXCEPT ![c] = Tail(@)] /\ buffer_pool_put(b)
      /\ pos' = [pos EXCEPT ![b] = 0] /\ content' = [content EXCEPT ![b] = <<>>]
      /\ UNCHANGED <<recv, sent, arrived, written, pc, cur, complete, ret>>
  BY DEF ShrinkDrop, DropsBuffer, ResetBuffer, buffer_rsize, rbuf
<1>4. /\ PoolInv(pool', chain', live', allocs') /\ ~InChain(chain', b)
      /\ \A d \in Buffer : d # b => (InChain(chain, d) <=> InChain([chain EXCEPT ![c] = Tail(@)], d))
  BY <1>1, <1>3, PutKeepsPool DEF Ind
<1>5. BufInv(chain', content', pos')
  <2>1. BufInv([chain EXCEPT ![c] = Tail(@)], [content EXCEPT ![b] = <<>>], [pos EXCEPT ![b] = 0])
    BY <1>1, <1>2, <1>4, BufDrop DEF Ind
  <2> QED BY <1>3, <2>1
<1>6. b \in Buffer /\ x \in Seq(Nat) /\ Len(x) \in Nat /\ Len(s) \in Nat
  <2>1. b \in Buffer /\ Len(s) \in Nat
    BY <1>1, <1>2, SplitHead
  <2>2. x \in Seq(Nat)
    BY <1>2, <2>1
  <2> HIDE DEF x
  <2> QED BY <2>1, <2>2
<1>7. /\ content' \in [Buffer -> Seq(Nat)]
      /\ \A d \in Buffer : d # b => content'[d] = content[d]
  <2> HIDE DEF b
  <2> QED BY <1>2, <1>3, <1>5 DEF BufInv
<1>8. chain'[c] = Tail(s) /\ \A d \in Chain : d # c => chain'[d] = chain[d]
  <2>1. [chain EXCEPT ![c] = Tail(@)][c] = Tail(s)
    BY <1>1, <1>2
  <2>2. \A d \in Chain : d # c => [chain EXCEPT ![c] = Tail(@)][d] = chain[d]
    BY <1>1, <1>2
  <2> QED BY <1>3, <2>1, <2>2
<1> HIDE DEF b, x, s
<1>9. Tail(s) \in Seq(Buffer) /\ Len(Tail(s)) = Len(s) - 1 /\ Len(Tail(s)) \in Nat
  BY <1>1, <1>2, SplitHead
<1>10. CallType' /\ CallInv'
  <2>1. surplus \in Nat
    BY DEF Ind, CallType
  <2>2. surplus' \in Nat
    BY <1>3, <1>6, <2>1
  <2>3. CallType'
    BY <1>3, <2>2 DEF Ind, CallType
  <2>4. Tail(s) # <<>>
    <3>0. Len(s) > 1
      BY <1>3
    <3>1. Len(Tail(s)) # 0
      BY <1>6, <1>9, <3>0
    <3> QED BY <3>1
  <2>5. cur # NoChain /\ chain'[cur] # <<>>
    BY <1>1, <1>8, <2>4, ChainAssumption
  <2> QED BY <1>1, <1>3, <2>3, <2>5 DEF CallInv
<1>11. ASSUME NEW d \in Chain, NEW i \in 1 .. Len(chain'[d])
       PROVE  content[chain'[d][i]] = content'[chain'[d][i]]
  <2>1. chain' \in [Chain -> Seq(Buffer)]
    BY <1>4 DEF PoolInv, OwnType
  <2>2. chain'[d][i] \in Buffer /\ InChain(chain', chain'[d][i])
    BY <2>1, Places
  <2>3. chain'[d][i] # b
    BY <1>4, <2>2
  <2> QED BY <1>7, <2>2, <2>3
<1>12. ASSUME NEW d \in Chain
       PROVE  StreamOf(written'[d], chain'[d], content', arrived'[d], Pending(d)')
  <2>1. CASE d = c
    <3>1. Pending(d) = surplus /\ Pending(d)' = surplus - Len(x) /\ surplus \in Nat
      BY <1>1, <1>3, <2>1 DEF Pending, Ind, CallType
    <3>2. written[c] \in Seq(Nat) /\ arrived[c] \in Nat
      BY <1>1 DEF Ind, CallType
    <3>3. StreamOf(written[c], s, content, arrived[c], surplus)
      BY <2>1, <3>1 DEF Ind, Streams, s
    <3>4. ContentOf(content, s) = x \o ContentOf(content, Tail(s))
      BY <1>1, <1>2, ContentHead DEF x, s
    <3>5. ContentOf(content, Tail(s)) = ContentOf(content', Tail(s))
      <4>1. \A i \in 1 .. Len(Tail(s)) : content[Tail(s)[i]] = content'[Tail(s)[i]]
        <5>1. \A i \in 1 .. Len(chain'[c]) : content[chain'[c][i]] = content'[chain'[c][i]]
          BY <1>1, <1>11
        <5>2. chain'[c] = Tail(s)
          BY <1>8
        <5> QED BY <5>1, <5>2
      <4> QED BY <1>9, <4>1, ContentSame
    <3>6. ContentOf(content', Tail(s)) \in Seq(Nat)
      BY <1>7, <1>9, ContentType
    <3>7. ContentOf(content, s) = x \o ContentOf(content', Tail(s))
      BY <3>4, <3>5
    <3>8. StreamOf(written[c], Tail(s), content', arrived[c], surplus - Len(x))
      <4>1. Len(x) <= surplus
        BY <1>3, <1>6, <3>1
      <4> QED BY <1>6, <3>1, <3>2, <3>3, <3>6, <3>7, <4>1, StreamShrink
    <3> QED BY <1>3, <1>8, <2>1, <3>1, <3>8
  <2>2. CASE d # c
    <3>1. Pending(d) = 0 /\ Pending(d)' = 0
      BY <1>3, <2>2 DEF Pending
    <3>2. StreamOf(written[d], chain[d], content, arrived[d], 0)
      BY <3>1 DEF Ind, Streams
    <3>3. chain'[d] = chain[d] /\ chain[d] \in Seq(Buffer)
      BY <1>2, <1>8, <2>2
    <3>4. \A i \in 1 .. Len(chain[d]) : content[chain[d][i]] = content'[chain[d][i]]
      BY <1>11, <3>3
    <3>5. StreamOf(written[d], chain[d], content', arrived[d], 0)
      BY <3>2, <3>3, <3>4, StreamSame
    <3> QED BY <1>3, <3>1, <3>3, <3>5
  <2> QED BY <2>1, <2>2
<1> QED BY <1>4, <1>5, <1>10, <1>12 DEF Ind, Streams

\* What shrink_chain still has to take out is in the chain's only buffer.
LEMMA LastFits ==
  ASSUME Ind, pc = "shrink", Len(chain[cur]) = 1
  PROVE  surplus <= Len(content[Head(chain[cur])])
<1> DEFINE s == chain[cur]
           x == content[Head(chain[cur])]
           w == Len(written[cur])
           a == arrived[cur]
<1>1. cur \in Chain /\ s # <<>>
  BY CurIs
<1>2. s \in Seq(Buffer) /\ content \in [Buffer -> Seq(Nat)]
  BY <1>1, ChainType
<1>3. w \in Nat /\ a \in Nat /\ surplus \in Nat
  BY <1>1 DEF Ind, CallType
<1>4. StreamOf(written[cur], s, content, a, surplus)
  <2>1. Pending(cur) = surplus
    BY DEF Pending
  <2> QED BY <1>1, <2>1 DEF Ind, Streams
<1>5. surplus <= w /\ w <= a /\ ContentOf(content, s) = Run(w - surplus, a - (w - surplus))
  BY <1>4 DEF StreamOf
<1>6. ContentOf(content, s) = x
  <2>1. Head(s) \in Buffer /\ s = <<Head(s)>>
    BY <1>1, <1>2
  <2>2. ContentOf(content, <<Head(s)>>) = content[Head(s)]
    BY <1>2, <2>1, ContentOne
  <2> QED BY <2>1, <2>2
<1> HIDE DEF s, x, w, a
<1>7. w - surplus \in Nat /\ a - (w - surplus) \in Nat /\ surplus <= a - (w - surplus)
  BY <1>3, <1>5
<1>8. Len(Run(w - surplus, a - (w - surplus))) = a - (w - surplus)
  BY <1>7, RunFacts
<1>9. surplus <= Len(x)
  BY <1>5, <1>6, <1>7, <1>8
<1> QED BY <1>9 DEF x

LEMMA ShrinkDoneKeeps ==
  ASSUME Ind, ShrinkDone
  PROVE  Ind'
<1> DEFINE c == cur
           s == chain[cur]
           b == Head(chain[cur])
           x == SubSeq(content[Head(chain[cur])], 1, surplus)
           y == SubSeq(content[Head(chain[cur])], surplus + 1, Len(content[Head(chain[cur])]))
<1>1. c \in Chain /\ s # <<>> /\ pc = "shrink"
  BY CurIs DEF ShrinkDone
<1>2. /\ chain \in [Chain -> Seq(Buffer)] /\ Apart(chain) /\ s \in Seq(Buffer) /\ Distinct(s)
      /\ content \in [Buffer -> Seq(Nat)] /\ pos \in [Buffer -> 0 .. Cap]
  BY <1>1, ChainType
<1>3. /\ IF s = <<b>> /\ y = <<>>
           THEN /\ pos' = [pos EXCEPT ![b] = 0]
                /\ content' = [content EXCEPT ![b] = <<>>]
           ELSE /\ pos' = [pos EXCEPT ![b] = @ + surplus]
                /\ content' = [content EXCEPT ![b] = y]
  BY DEF ShrinkDone, Consume, ResetBuffer, rbuf
<1>4. /\ ~ (Len(s) > 1 /\ surplus >= Len(content[b]))
      /\ surplus' = 0 /\ complete' = FALSE
      /\ UNCHANGED <<pool, allocs, live, chain, recv, sent, arrived, written>>
      /\ (pc' = "idle" /\ cur' = NoChain /\ ret' = 1) \/ (pc' = "send" /\ UNCHANGED <<cur, ret>>)
  BY DEF ShrinkDone, SendEnds, DropsBuffer, Return, buffer_rsize, rbuf, poolVars
<1>5. surplus \in Nat /\ b \in Buffer /\ content[b] \in Seq(Nat) /\ Len(content[b]) \in Nat /\ Len(s) \in Nat
  <2>1. b \in Buffer /\ Len(s) \in Nat
    BY <1>1, <1>2, SplitHead
  <2> HIDE DEF b
  <2>2. surplus \in Nat
    BY DEF Ind, CallType
  <2>3. content[b] \in Seq(Nat)
    BY <1>2, <2>1
  <2> QED BY <2>1, <2>2, <2>3
<1>6. surplus <= Len(content[b]) /\ (Len(s) # 1 => surplus # Len(content[b]))
  <2>1. CASE Len(s) = 1
    BY <1>1, <2>1, LastFits
  <2>2. CASE Len(s) # 1
    <3>1. Len(s) > 1
      <4>1. Len(s) # 0
        BY <1>1, <1>2
      <4>2. Len(s) \in Nat
        BY <1>5
      <4>3. \A k \in Nat : k # 0 /\ k # 1 => k > 1
        OBVIOUS
      <4> QED BY <2>2, <4>1, <4>2, <4>3
    <3> HIDE DEF s, b
    <3> QED BY <1>4, <1>5, <3>1
  <2> QED BY <2>1, <2>2
<1>7. Len(s) = 1 => s = <<b>>
  BY <1>1, <1>2
<1>8. InChain(chain, b)
  <2>1. b = chain[c][1] /\ 1 \in 1 .. Len(chain[c])
    BY <1>1, <1>2, SplitHead
  <2> QED BY <1>1, <1>2, <2>1, Places
<1> HIDE DEF s, b
<1>9. /\ x \in Seq(Nat) /\ y \in Seq(Nat) /\ Len(x) = surplus
      /\ Len(y) + surplus = Len(content[b]) /\ content[b] = x \o y
  <2> DEFINE u == content[b]
             n == Len(content[b])
  <2>0. x = SubSeq(u, 1, surplus) /\ y = SubSeq(u, surplus + 1, n)
    BY DEF b
  <2>1. u \in Seq(Nat) /\ n = Len(u) /\ n \in Nat /\ surplus \in Nat /\ surplus <= n
    BY <1>5, <1>6
  <2> HIDE DEF x, y, u, n
  <2>2. surplus \in 0 .. Len(u)
    BY <2>1
  <2>3. /\ x \in Seq(Nat) /\ y \in Seq(Nat) /\ Len(x) = surplus /\ Len(y) = n - surplus /\ u = x \o y
    BY <2>0, <2>1, <2>2, SeqSplit
  <2>4. Len(y) + surplus = n
    BY <2>1, <2>3
  <2> QED BY <2>3, <2>4 DEF u, n
<1> HIDE DEF x, y
<1>10. BufInv(chain', content', pos')
  <2>0. BufInv(chain, content, pos)
    BY DEF Ind
  <2>1. CASE s = <<b>> /\ y = <<>>
    <3>1. BufInv(chain, [content EXCEPT ![b] = <<>>], [pos EXCEPT ![b] = 0])
      BY <1>1, <1>2, <1>5, <2>0, <2>1, BufReset DEF s
    <3> QED BY <1>3, <1>4, <2>1, <3>1
  <2>2. CASE ~ (s = <<b>> /\ y = <<>>)
    <3>1. y # <<>>
      <4>1. ASSUME y = <<>> PROVE FALSE
        <5>1. Len(y) = 0
          BY <4>1
        <5>2. surplus = Len(content[b])
          BY <1>5, <1>9, <5>1
        <5> QED BY <1>6, <1>7, <2>2, <4>1, <5>2
      <4> QED BY <4>1
    <3>2. BufInv(chain, [content EXCEPT ![b] = y], [pos EXCEPT ![b] = @ + surplus])
      BY <1>2, <1>5, <1>8, <1>9, <2>0, <3>1, BufTake
    <3> QED BY <1>3, <1>4, <2>2, <3>2
  <2> QED BY <2>1, <2>2
<1>11. /\ content' \in [Buffer -> Seq(Nat)] /\ content'[b] = y
       /\ \A d \in Buffer \ {b} : content'[d] = content[d]
  <2>1. content' = [content EXCEPT ![b] = y]
    BY <1>3
  <2> QED BY <1>2, <1>5, <1>9, <2>1
<1>12. PoolInv(pool', chain', live', allocs')
  BY <1>4 DEF Ind
<1>13. CallType' /\ CallInv'
  <2>1. CallType'
    BY <1>1, <1>4 DEF Ind, CallType
  <2>2. cur # NoChain /\ chain[cur] # <<>>
    BY <1>1, ChainAssumption DEF s
  <2> QED BY <1>4, <2>1, <2>2 DEF CallInv
<1>14. ASSUME NEW d \in Chain
       PROVE  StreamOf(written'[d], chain'[d], content', arrived'[d], Pending(d)')
  <2>0. Pending(d)' = 0
    BY <1>4 DEF Pending
  <2>1. CASE d = c
    <3>1. Pending(d) = surplus
      BY <1>1, <2>1 DEF Pending
    <3>2. written[c] \in Seq(Nat) /\ arrived[c] \in Nat
      BY <1>1 DEF Ind, CallType
    <3>3. StreamOf(written[c], s, content, arrived[c], surplus)
      BY <2>1, <3>1 DEF Ind, Streams, s
    <3>4. Taken(content, content', Head(s), x)
      <4>1. content[b] = x \o content'[b]
        BY <1>9, <1>11
      <4> QED BY <1>11, <4>1 DEF Taken, b, s
    <3>5. ContentOf(content, s) = x \o ContentOf(content', s)
      BY <1>1, <1>2, <1>9, <1>11, <3>4, ContentTake
    <3>6. ContentOf(content', s) \in Seq(Nat)
      BY <1>2, <1>11, ContentType
    <3>7. StreamOf(written[c], s, content', arrived[c], surplus - Len(x))
      <4>1. Len(x) <= surplus
        BY <1>5, <1>9
      <4>2. x \in Seq(Nat)
        BY <1>9
      <4> QED BY <1>5, <3>2, <3>3, <3>5, <3>6, <4>1, <4>2, StreamShrink
    <3>8. surplus - Len(x) = 0
      BY <1>5, <1>9
    <3> QED BY <1>4, <2>0, <2>1, <3>7, <3>8 DEF s
  <2>2. CASE d # c
    <3>1. Pending(d) = 0
      BY <2>2 DEF Pending
    <3>2. StreamOf(written[d], chain[d], content, arrived[d], 0)
      BY <3>1 DEF Ind, Streams
    <3>3. chain[d] \in Seq(Buffer)
      BY <1>2
    <3>4. \A i \in 1 .. Len(chain[d]) : content[chain[d][i]] = content'[chain[d][i]]
      <4> SUFFICES ASSUME NEW i \in 1 .. Len(chain[d]) PROVE content[chain[d][i]] = content'[chain[d][i]]
        OBVIOUS
      <4>1. chain[d][i] \in Buffer
        BY <3>3
      <4>2. chain[d][i] # b
        <5>1. b = chain[c][1] /\ 1 \in 1 .. Len(chain[c])
          BY <1>1, <1>2, SplitHead DEF b, s
        <5> QED BY <1>1, <1>2, <2>2, <5>1 DEF Apart
      <4> QED BY <1>11, <4>1, <4>2
    <3>5. StreamOf(written[d], chain[d], content', arrived[d], 0)
      BY <3>2, <3>3, <3>4, StreamSame
    <3> QED BY <1>4, <2>0, <3>5
  <2> QED BY <2>1, <2>2
<1> QED BY <1>10, <1>12, <1>13, <1>14 DEF Ind, Streams

\* A step that changes nothing keeps the invariant.
LEMMA StutterKeeps ==
  ASSUME Ind, UNCHANGED vars
  PROVE  Ind'
<1>1. /\ UNCHANGED <<pool, allocs, live, chain, pos, content, recv, sent, arrived, written>>
      /\ UNCHANGED <<pc, cur, surplus, complete, ret>>
  BY DEF vars, poolVars, bufVars
<1>2. PoolInv(pool', chain', live', allocs') /\ BufInv(chain', content', pos')
  BY <1>1 DEF Ind
<1>3. CallType' /\ CallInv'
  BY <1>1 DEF Ind, CallType, CallInv
<1>4. Streams'
  BY <1>1 DEF Ind, Streams, Pending
<1> QED BY <1>2, <1>3, <1>4 DEF Ind

\* Every step keeps the invariant.
LEMMA NextKeeps ==
  ASSUME Ind, [Next]_vars
  PROVE  Ind'
<1>1. CASE \E c \in Chain : NewChain(c) \/ buffer_chain_recv(c) \/ buffer_chain_send(c)
  BY <1>1, NewChainKeeps, RecvKeeps, SendKeeps
<1>2. CASE \E n \in 1 .. 2 * Cap : ReadFits(n) \/ ReadSpills(n)
  <2>1. PICK n \in 1 .. 2 * Cap : ReadFits(n) \/ ReadSpills(n)
    BY <1>2
  <2>2. n \in Nat \ {0}
    BY <2>1, SizesAssumption
  <2> QED BY <2>1, <2>2, ReadFitsKeeps, ReadSpillsKeeps
<1>3. CASE \E rv \in {-1, 0, 1} : ReadEnds(rv) \/ WriteEnds(rv)
  BY <1>3, ReadEndsKeeps, WriteEndsKeeps
<1>4. CASE \E n \in 1 .. SM_MAX_IOV * Cap : Write(n)
  <2>1. PICK n \in 1 .. SM_MAX_IOV * Cap : Write(n)
    BY <1>4
  <2>2. n \in Nat \ {0}
    <3>1. SM_MAX_IOV * Cap \in Int
      BY SizesAssumption
    <3> QED BY <2>1, <3>1
  <2> QED BY <2>1, <2>2, WriteKeeps
<1>5. CASE ShrinkDrop
  BY <1>5, ShrinkDropKeeps
<1>6. CASE ShrinkDone
  BY <1>6, ShrinkDoneKeeps
<1>7. CASE UNCHANGED vars
  BY <1>7, StutterKeeps
<1> QED BY <1>1, <1>2, <1>3, <1>4, <1>5, <1>6, <1>7 DEF Next
-----------------------------------------------------------------------------
(* What a running call has counted: ProgressInv.                           *)

LEMMA CountTypes ==
  ASSUME Ind
  PROVE  /\ recv \in [Chain -> Nat] /\ sent \in [Chain -> Nat] /\ arrived \in [Chain -> Nat]
         /\ \A c \in Chain : /\ written[c] \in Seq(Nat) /\ Len(written[c]) \in Nat
                             /\ Len(written[c]) <= arrived[c] /\ arrived[c] <= MaxBytes[c]
                             /\ written[c] = Run(0, Len(written[c]))
<1>1. /\ recv \in [Chain -> Nat] /\ sent \in [Chain -> Nat] /\ arrived \in [Chain -> Nat]
      /\ written \in [Chain -> Seq(Nat)] /\ \A c \in Chain : arrived[c] <= MaxBytes[c]
  BY DEF Ind, CallType
<1>2. ASSUME NEW c \in Chain
      PROVE  Len(written[c]) <= arrived[c] /\ written[c] = Run(0, Len(written[c]))
  BY DEF Ind, Streams, StreamOf
<1>3. ASSUME NEW c \in Chain
      PROVE  written[c] \in Seq(Nat) /\ Len(written[c]) \in Nat
  BY <1>1
<1> QED BY <1>1, <1>2, <1>3

\* A readv that fills both buffers takes at least the whole second one.
LEMMA FullRead ==
  ASSUME Ind, NEW n \in Nat \ {0}, ReadSpills(n), pc' # "idle"
  PROVE  n >= Cap
<1>1. cur \in Chain /\ chain[cur] # <<>>
  BY CurIs DEF ReadSpills
<1>2. chain \in [Chain -> Seq(Buffer)] /\ chain[cur] \in Seq(Buffer)
  BY <1>1, ChainType
<1>3. wbuf \in Buffer
  BY <1>1, <1>2, SplitLast DEF wbuf
<1>4. PICK temp \in Buffer :
        /\ buffer_pool_peek(temp) /\ buffer_detach(temp)
        /\ chain' = [chain EXCEPT ![cur] = Append(@, temp)]
        /\ IF n = buffer_wsize(wbuf) + buffer_wsize(temp)
             THEN UNCHANGED <<pc, cur, ret>> ELSE Return(1)
  BY DEF ReadSpills
<1>5. n = buffer_wsize(wbuf) + buffer_wsize(temp)
  BY <1>4 DEF Return
<1>6. ~InChain(chain, temp)
  BY <1>1, <1>4, DetachKeepsPool DEF Ind
<1>7. pos[temp] = 0 /\ content[temp] = <<>>
  BY <1>6 DEF Ind, BufInv
<1>8. buffer_wsize(temp) = Cap
  BY <1>7, SizesAssumption DEF buffer_wsize
<1>9. buffer_wsize(wbuf) \in Nat
  <2>1. pos[wbuf] \in Nat /\ Len(content[wbuf]) \in Nat /\ Cap \in Nat
    BY <1>3, BufType DEF Ind
  <2>2. pos[wbuf] + Len(content[wbuf]) <= Cap
    BY <1>3 DEF Ind, BufInv
  <2> QED BY <2>1, <2>2 DEF buffer_wsize
<1>10. Cap \in Nat
  BY SizesAssumption
<1> QED BY <1>5, <1>8, <1>9, <1>10

\* What shrink_chain leaves in the buffer it ends at waits to be sent.
LEMMA MoreToSend ==
  ASSUME Ind, pc = "shrink", ~DropsBuffer, surplus # buffer_rsize(rbuf)
  PROVE  Len(written[cur]) < arrived[cur]
<1> DEFINE s == chain[cur]
           x == content[Head(chain[cur])]
           y == ContentOf(content, Tail(chain[cur]))
           w == Len(written[cur])
           a == arrived[cur]
<1>1. cur \in Chain /\ s # <<>>
  BY CurIs
<1>2. s \in Seq(Buffer) /\ content \in [Buffer -> Seq(Nat)]
  BY <1>1, ChainType
<1>3. w \in Nat /\ a \in Nat /\ surplus \in Nat
  BY <1>1, CountTypes DEF Ind, CallType
<1>4. surplus <= w /\ w <= a /\ ContentOf(content, s) = Run(w - surplus, a - (w - surplus))
  <2>1. Pending(cur) = surplus
    BY DEF Pending
  <2> QED BY <1>1, <2>1 DEF Ind, Streams, StreamOf
<1>5. ContentOf(content, s) = x \o y /\ x \in Seq(Nat) /\ y \in Seq(Nat)
  <2>1. Head(s) \in Buffer /\ Tail(s) \in Seq(Buffer)
    BY <1>1, <1>2, SplitHead
  <2> QED BY <1>1, <1>2, <2>1, ContentHead, ContentType
<1>6. ~ (Len(s) > 1 /\ surplus >= Len(x)) /\ surplus # Len(x)
  BY DEF DropsBuffer, buffer_rsize, rbuf
<1>7. Len(s) = 1 => surplus <= Len(x)
  BY LastFits
<1>8. Len(s) \in Nat /\ Len(s) # 0
  BY <1>1, <1>2
<1> HIDE DEF s, x, y, w, a
<1>9. Len(x) \in Nat /\ Len(y) \in Nat /\ Len(x \o y) = Len(x) + Len(y)
  BY <1>5, ConcatProperties
<1>10. surplus < Len(x)
  <2>1. \A l, k, m \in Nat : ~ (k > 1 /\ l >= m) /\ l # m /\ (k = 1 => l <= m) /\ k # 0 => l < m
    OBVIOUS
  <2> QED BY <1>3, <1>6, <1>7, <1>8, <1>9, <2>1
<1>11. Len(Run(w - surplus, a - (w - surplus))) = a - (w - surplus)
  <2>1. w - surplus \in Nat /\ a - (w - surplus) \in Nat
    BY <1>3, <1>4
  <2> QED BY <2>1, RunFacts
<1>12. a - (w - surplus) = Len(x) + Len(y)
  BY <1>4, <1>5, <1>9, <1>11
<1>13. w < a
  BY <1>3, <1>9, <1>10, <1>12
<1> QED BY <1>13 DEF w, a

LEMMA CoveredType ==
  ASSUME Ind, cur \in Chain
  PROVE  Covered \in Seq(Nat)
<1> DEFINE s == chain[cur]
           m == IF Len(chain[cur]) < SM_MAX_IOV THEN Len(chain[cur]) ELSE SM_MAX_IOV
<1>1. s \in Seq(Buffer) /\ content \in [Buffer -> Seq(Nat)]
  BY ChainType
<1>2. m \in 0 .. Len(s) /\ Len(s) \in Nat
  <2>1. SM_MAX_IOV \in Nat /\ Len(s) \in Nat
    BY <1>1, SizesAssumption
  <2> HIDE DEF s
  <2> QED BY <2>1 DEF s
<1>3. Covered = ContentOf(content, SubSeq(s, 1, m))
  BY ContentIs DEF Covered
<1> HIDE DEF s, m
<1>4. SubSeq(s, 1, m) \in Seq(Buffer)
  <2>1. 1 \in 1 .. Len(s) + 1 /\ m \in 1 - 1 .. Len(s)
    BY <1>2
  <2> QED BY <1>1, <1>2, <2>1, SubSeqProperties
<1> QED BY <1>1, <1>3, <1>4, ContentType

\* writev adds to what was written what it took.
LEMMA WriteCounts ==
  ASSUME Ind, NEW n \in Nat \ {0}, Write(n)
  PROVE  Len(written'[cur]) = Len(written[cur]) + n
<1>1. cur \in Chain
  BY CurIs DEF Write
<1>2. n <= Len(Covered) /\ written' = [written EXCEPT ![cur] = @ \o SubSeq(Covered, 1, n)]
  BY DEF Write
<1>3. Covered \in Seq(Nat)
  BY <1>1, CoveredType
<1> DEFINE x == Covered
<1> HIDE DEF x
<1>4. SubSeq(x, 1, n) \in Seq(Nat) /\ Len(SubSeq(x, 1, n)) = n
  <2>1. x \in Seq(Nat) /\ n <= Len(x)
    BY <1>2, <1>3 DEF x
  <2> QED BY <2>1
<1>5. written[cur] \in Seq(Nat) /\ written'[cur] = written[cur] \o SubSeq(x, 1, n)
  <2>1. written \in [Chain -> Seq(Nat)]
    BY DEF Ind, CallType
  <2> QED BY <1>1, <1>2, <2>1 DEF x
<1>6. Len(written[cur] \o SubSeq(x, 1, n)) = Len(written[cur]) + Len(SubSeq(x, 1, n))
  BY <1>4, <1>5, ConcatProperties
<1> QED BY <1>4, <1>5, <1>6

\* One conjunct of ProgressInv for each loop.
LEMMA ProgressKeeps ==
  ASSUME Ind, Ind', ProgressInv, [Next]_vars
  PROVE  ProgressInv'
<1> USE CountTypes, CurIs
<1>1. ASSUME NEW c \in Chain, NewChain(c) PROVE ProgressInv'
  BY <1>1 DEF NewChain, ProgressInv
<1>2. ASSUME NEW c \in Chain, buffer_chain_recv(c) PROVE ProgressInv'
  <2>1. pc' = "recv" /\ recv'[cur'] = 0 /\ arrived'[cur'] \in Nat
    BY <1>2 DEF buffer_chain_recv
  <2> QED BY <2>1 DEF ProgressInv
<1>3. ASSUME NEW c \in Chain, buffer_chain_send(c) PROVE ProgressInv'
  <2>1. pc' = "send" /\ sent'[cur'] = 0 /\ Len(written[c]) \in Nat /\ written' = written /\ cur' = c
    BY <1>3 DEF buffer_chain_send
  <2> QED BY <2>1 DEF ProgressInv
<1>4. ASSUME NEW n, ReadFits(n) PROVE ProgressInv'
  BY <1>4 DEF ReadFits, Return, ProgressInv
<1>5. ASSUME NEW n \in Nat \ {0}, ReadSpills(n) PROVE ProgressInv'
  <2>1. CASE pc' = "idle"
    BY <2>1 DEF ProgressInv
  <2>2. CASE pc' # "idle"
    <3>1. n >= Cap /\ Cap \in Nat
      BY <1>5, <2>2, FullRead, SizesAssumption
    <3>2. pc = "recv" /\ cur \in Chain
      BY <1>5 DEF ReadSpills
    <3>3. pc' = "recv" /\ cur' = cur
      BY <1>5, <2>2, <3>2, Zenon DEF ReadSpills, Return
    <3>4. recv'[cur] = recv[cur] + n /\ arrived'[cur] = arrived[cur] + n
      BY <1>5, <3>2 DEF ReadSpills
    <3>5. recv[cur] \in Nat /\ arrived[cur] \in Nat /\ recv[cur] <= arrived[cur]
      BY <3>2 DEF ProgressInv
    <3>6. recv'[cur] <= arrived'[cur] /\ recv'[cur] >= Cap
      BY <3>1, <3>4, <3>5
    <3> QED BY <3>3, <3>6 DEF ProgressInv
  <2> QED BY <2>1, <2>2
<1>6. ASSUME NEW rv, ReadEnds(rv) \/ WriteEnds(rv) PROVE ProgressInv'
  BY <1>6 DEF ReadEnds, WriteEnds, Return, ProgressInv
<1>7. ASSUME NEW n \in Nat \ {0}, Write(n) PROVE ProgressInv'
  <2>1. pc = "send" /\ cur \in Chain /\ pc' = "shrink" /\ cur' = cur /\ sent'[cur] = sent[cur] + n
    BY <1>7 DEF Write
  <2>2. Len(written'[cur]) = Len(written[cur]) + n
    BY <1>7, WriteCounts
  <2>3. sent[cur] \in Nat /\ Len(written[cur]) \in Nat /\ sent[cur] <= Len(written[cur])
    BY <2>1 DEF ProgressInv
  <2>4. sent'[cur] <= Len(written'[cur])
    BY <2>1, <2>2, <2>3
  <2> QED BY <2>1, <2>4 DEF ProgressInv
<1>8. ASSUME ShrinkDrop PROVE ProgressInv'
  BY <1>8 DEF ShrinkDrop, ProgressInv
<1>9. ASSUME ShrinkDone PROVE ProgressInv'
  <2>1. pc = "shrink" /\ UNCHANGED <<sent, written, arrived>> /\ sent[cur] <= Len(written[cur])
    BY <1>9 DEF ShrinkDone, ProgressInv
  <2>2. CASE SendEnds
    BY <1>9, <2>2 DEF ShrinkDone, Return, ProgressInv
  <2>3. CASE ~SendEnds
    <3>1. pc' = "send" /\ cur' = cur
      BY <1>9, <2>3 DEF ShrinkDone
    <3>2. Len(written[cur]) < arrived[cur]
      BY <1>9, <2>1, <2>3, MoreToSend DEF ShrinkDone, SendEnds
    <3> QED BY <2>1, <3>1, <3>2 DEF ProgressInv
  <2> QED BY <2>2, <2>3
<1>10. ASSUME UNCHANGED vars PROVE ProgressInv'
  BY <1>10 DEF vars, ProgressInv
<1>11. \A n \in 1 .. 2 * Cap : n \in Nat \ {0}
  BY SizesAssumption
<1>12. \A n \in 1 .. SM_MAX_IOV * Cap : n \in Nat \ {0}
  <2>1. SM_MAX_IOV * Cap \in Int
    BY SizesAssumption
  <2> QED BY <2>1
<1> QED BY <1>1, <1>2, <1>3, <1>4, <1>5, <1>6, <1>7, <1>8, <1>9, <1>10, <1>11, <1>12, Zenon DEF Next
-----------------------------------------------------------------------------
(* BufferChain implements ChainService, step by step.                      *)

\* writev is given nothing only for a chain that is empty.
LEMMA NothingCovered ==
  ASSUME Ind, pc = "send", Covered = <<>>
  PROVE  Len(written[cur]) = arrived[cur]
<1> DEFINE s == chain[cur]
           m == IF Len(chain[cur]) < SM_MAX_IOV THEN Len(chain[cur]) ELSE SM_MAX_IOV
           t == SubSeq(s, 1, m)
           w == Len(written[cur])
           a == arrived[cur]
<1>1. cur \in Chain /\ s # <<>>
  BY CurIs
<1>2. s \in Seq(Buffer) /\ content \in [Buffer -> Seq(Nat)]
  BY <1>1, ChainType
<1>3. ContentOf(content, t) = <<>>
  BY ContentIs DEF Covered
<1>4. Len(s) \in Nat /\ Len(s) >= 1 /\ m \in 1 .. Len(s)
  <2>1. Len(s) \in Nat /\ Len(s) # 0
    BY <1>1, <1>2
  <2>2. SM_MAX_IOV \in Nat /\ SM_MAX_IOV >= 1
    BY SizesAssumption
  <2> QED BY <2>1, <2>2
<1>5. w \in Nat /\ a \in Nat /\ w <= a /\ ContentOf(content, s) = Run(w, a - w)
  <2>1. Pending(cur) = 0
    BY DEF Pending
  <2>2. ContentOf(content, s) = Run(w - 0, a - (w - 0)) /\ w <= a
    BY <1>1, <2>1 DEF Ind, Streams, StreamOf
  <2>3. w \in Nat /\ a \in Nat
    BY <1>1, CountTypes
  <2> HIDE DEF w, a
  <2>4. w - 0 = w
    BY <2>3
  <2> QED BY <2>2, <2>3, <2>4
<1>6. Len(s) > 1 => Len(content[s[1]]) > 0
  <2>1. \A i \in 1 .. Len(s) - 1 : Len(content[s[i]]) > 0
    BY <1>1 DEF Ind, BufInv
  <2> HIDE DEF s
  <2>2. Len(s) > 1 => 1 \in 1 .. Len(s) - 1
    BY <1>4
  <2> QED BY <2>1, <2>2
<1> HIDE DEF s, m, w, a
<1>7. t \in Seq(Buffer) /\ t # <<>> /\ Head(t) = s[1]
  <2>1. 1 \in 1 .. Len(s) + 1 /\ m \in 1 - 1 .. Len(s)
    BY <1>4
  <2>2. t \in Seq(Buffer) /\ Len(t) = m /\ t[1] = s[1]
    BY <1>2, <1>4
  <2> HIDE DEF t
  <2> QED BY <1>4, <2>2
<1>8. Len(s) = 1
  <2>1. ~ (Len(s) > 1)
    <3>0. SUFFICES ASSUME Len(s) > 1 PROVE FALSE
      OBVIOUS
    <3> HIDE DEF t
    <3>1. s[1] \in Buffer /\ content[s[1]] \in Seq(Nat)
      BY <1>2, <1>4
    <3>2. <<>> = content[s[1]] \o ContentOf(content, Tail(t)) /\ ContentOf(content, Tail(t)) \in Seq(Nat)
      BY <1>2, <1>3, <1>7, ContentHead, ContentType, SplitHead
    <3>3. Len(<<>>) = Len(content[s[1]]) + Len(ContentOf(content, Tail(t)))
      BY <3>1, <3>2, ConcatProperties
    <3>4. Len(ContentOf(content, Tail(t))) \in Nat /\ Len(content[s[1]]) \in Nat
      BY <3>1, <3>2
    <3>5. Len(<<>>) = 0
      OBVIOUS
    <3> QED BY <1>6, <3>0, <3>3, <3>4, <3>5
  <2>2. \A k \in Nat : k >= 1 /\ ~ (k > 1) => k = 1
    OBVIOUS
  <2> QED BY <1>4, <2>1, <2>2
<1>9. t = s
  <2>1. m = 1
    BY <1>4, <1>8
  <2> QED BY <1>2, <1>8, <2>1
<1>10. Len(Run(w, a - w)) = a - w
  <2>1. a - w \in Nat
    BY <1>5
  <2> QED BY <1>5, <2>1, RunFacts
<1>11. a - w = 0
  <2> DEFINE r == Run(w, a - w)
  <2>1. r = <<>>
    <3> HIDE DEF r
    <3>1. ContentOf(content, s) = r
      BY <1>5 DEF r
    <3> QED BY <1>3, <1>9, <3>1
  <2>2. Len(r) = a - w
    BY <1>10
  <2> HIDE DEF r
  <2> QED BY <2>1, <2>2
<1>12. w = a
  BY <1>5, <1>11
<1> QED BY <1>12 DEF w, a

\* What ChainService shows of chain c.
LEMMA ShownIs ==
  ASSUME Ind, ProgressInv, NEW c \in Chain
  PROVE  /\ RecvSoFar(c) \in Nat /\ RecvSoFar(c) <= arrived[c]
         /\ SentSoFar(c) \in Nat /\ SentSoFar(c) <= Len(written[c])
         /\ TookIn(c) \in Nat /\ GaveOut(c) \in Nat
         /\ ShownOut[c] = Run(0, GaveOut(c)) /\ Len(ShownOut[c]) = GaveOut(c)
<1>1. /\ recv[c] \in Nat /\ sent[c] \in Nat /\ arrived[c] \in Nat /\ Len(written[c]) \in Nat
      /\ written[c] = Run(0, Len(written[c]))
  BY CountTypes
<1>2. RecvSoFar(c) \in Nat /\ RecvSoFar(c) <= arrived[c]
  BY <1>1 DEF RecvSoFar, ProgressInv
<1>3. SentSoFar(c) \in Nat /\ SentSoFar(c) <= Len(written[c])
  BY <1>1 DEF SentSoFar, ProgressInv
<1>4. TookIn(c) \in Nat
  BY <1>1, <1>2 DEF TookIn
<1> DEFINE w == Len(written[c])
           g == GaveOut(c)
<1>5. w \in Nat /\ g \in Nat /\ g <= w
  <2>1. w \in Nat
    BY <1>1
  <2>2. g = w - SentSoFar(c)
    BY DEF GaveOut
  <2> HIDE DEF w, g
  <2>3. SentSoFar(c) <= w
    BY <1>3 DEF w
  <2> QED BY <1>3, <2>1, <2>2, <2>3
<1>6. ShownOut[c] = SubSeq(written[c], 1, g)
  BY DEF ShownOut
<1>7. written[c] = Run(0, w)
  BY <1>1
<1> HIDE DEF w, g
<1>8. SubSeq(Run(0, w), 1, g) = Run(0 + (1 - 1), g - (1 - 1))
  <2>1. 1 \in 1 .. w + 1 /\ g \in 1 - 1 .. w /\ 0 \in Nat
    BY <1>5
  <2> QED BY <1>5, <2>1, RunSub
<1>9. 0 + (1 - 1) = 0 /\ g - (1 - 1) = g
  BY <1>5
<1>10. ShownOut[c] = Run(0, g)
  BY <1>6, <1>7, <1>8, <1>9
<1>11. Len(Run(0, g)) = g
  BY <1>5, RunFacts
<1> QED BY <1>2, <1>3, <1>4, <1>5, <1>10, <1>11 DEF g

\* Nothing that is shown of chain d changes.
Same(d) ==
  /\ TookIn(d)' = TookIn(d) /\ GaveOut(d)' = GaveOut(d)
  /\ recv'[d] - RecvSoFar(d)' = recv[d] - RecvSoFar(d)
  /\ sent'[d] - SentSoFar(d)' = sent[d] - SentSoFar(d)

\* A step leaves the chains alone that neither the old nor the new call is about.
LEMMA OthersSame ==
  ASSUME NEW d \in Chain, d # cur, d # cur',
         arrived'[d] = arrived[d], recv'[d] = recv[d],
         written'[d] = written[d], sent'[d] = sent[d]
  PROVE  Same(d)
BY DEF Same, TookIn, GaveOut, RecvSoFar, SentSoFar

\* A prefix of what was written is determined by its length.
LEMMA ShownOutIs ==
  Ind /\ ProgressInv => \A c \in Chain : ShownOut[c] = Run(0, GaveOut(c))
BY ShownIs

LEMMA ShownOutAfter ==
  ASSUME Ind', ProgressInv', NEW d \in Chain
  PROVE  ShownOut'[d] = Run(0, GaveOut(d)')
<1>1. Ind' /\ ProgressInv' => (\A c \in Chain : ShownOut[c] = Run(0, GaveOut(c)))'
  BY ShownOutIs, PTL
<1> QED BY <1>1

LEMMA ShownOutSame ==
  ASSUME Ind, Ind', ProgressInv, ProgressInv', NEW d \in Chain, GaveOut(d)' = GaveOut(d)
  PROVE  ShownOut'[d] = ShownOut[d]
BY ShownIs, ShownOutAfter

\* The user of the service sees no change.
LEMMA HiddenStep ==
  ASSUME Ind, Ind', ProgressInv, ProgressInv', \A d \in Chain : Same(d),
         \A d \in Chain : chain'[d] # <<>> <=> chain[d] # <<>>,
         ShownCall' = ShownCall, UNCHANGED <<cur, ret>>
  PROVE  UNCHANGED Service!serviceVars
<1>1. ShownMade' = ShownMade
  BY DEF ShownMade
<1>2. ShownReceived' = ShownReceived
  BY DEF ShownReceived, Same
<1>3. ShownOut' = ShownOut
  <2>1. \A d \in Chain : ShownOut'[d] = ShownOut[d]
    BY ShownOutSame DEF Same
  <2>2. ShownOut = [d \in Chain |-> ShownOut[d]] /\ ShownOut' = [d \in Chain |-> ShownOut'[d]]
    BY DEF ShownOut
  <2> QED BY <2>1, <2>2
<1>4. ShownRecv' = ShownRecv
  BY DEF ShownRecv, Same
<1>5. ShownSent' = ShownSent
  BY DEF ShownSent, Same
<1> QED BY <1>1, <1>2, <1>3, <1>4, <1>5 DEF Service!serviceVars

\* buffer_chain_recv returns after a readv of k bytes, or none.
LEMMA RecvEnds ==
  ASSUME Ind, Ind', ProgressInv, ProgressInv', NEW c \in Chain, c = cur, pc = "recv",
         NEW rv \in {-1, 0, 1}, NEW k \in Nat, Return(rv), rv = 1 \/ k = 0,
         arrived'[c] = arrived[c] + k, recv'[c] = recv[c] + k,
         \A d \in Chain : d # c => arrived'[d] = arrived[d] /\ recv'[d] = recv[d],
         UNCHANGED <<sent, written>>,
         \A d \in Chain : chain'[d] # <<>> <=> chain[d] # <<>>
  PROVE  \E n \in 0 .. MaxBytes[c] : Service!RecvReturns(c, rv, n)
<1> DEFINE n == recv'[c]
<1>1. pc' = "idle" /\ cur' = NoChain /\ ret' = rv /\ cur # NoChain
  BY ChainAssumption DEF Return
<1>2. /\ recv[c] \in Nat /\ arrived[c] \in Nat /\ recv[c] <= arrived[c]
      /\ recv[c] = 0 \/ recv[c] >= Cap
      /\ arrived'[c] <= MaxBytes[c] /\ MaxBytes[c] \in Nat
  <2>1. recv[c] \in Nat /\ arrived[c] \in Nat
    BY <1>1, CountTypes
  <2>2. arrived'[c] <= MaxBytes[c]
    BY <1>1 DEF Ind, CallType
  <2> QED BY <1>1, <2>1, <2>2, SizesAssumption DEF ProgressInv
<1>3. RecvSoFar(c) = recv[c] /\ RecvSoFar(c)' = 0 /\ SentSoFar(c) = 0 /\ SentSoFar(c)' = 0
  BY <1>1 DEF RecvSoFar, SentSoFar
<1>4. \A d \in Chain : d # c => Same(d)
  BY <1>1, ChainAssumption, OthersSame
<1>5. n \in 0 .. MaxBytes[c] /\ TookIn(c) = arrived[c] - recv[c] /\ TookIn(c)' = TookIn(c) + n
  BY <1>2, <1>3 DEF TookIn
<1>6. ShownReceived[c] + n <= MaxBytes[c]
  BY <1>1, <1>2, <1>5 DEF ShownReceived
<1>7. ShownReceived' = [ShownReceived EXCEPT ![c] = @ + n]
  <2>1. \A d \in Chain : TookIn(d)' = IF d = c THEN TookIn(c) + n ELSE TookIn(d)
    BY <1>4, <1>5 DEF Same
  <2> HIDE DEF n
  <2> QED BY <2>1 DEF ShownReceived
<1>8. ShownRecv' = [ShownRecv EXCEPT ![c] = n]
  <2>1. \A d \in Chain : recv'[d] - RecvSoFar(d)' = IF d = c THEN n ELSE recv[d] - RecvSoFar(d)
    BY <1>2, <1>3, <1>4 DEF Same
  <2> HIDE DEF n
  <2> QED BY <2>1 DEF ShownRecv
<1>9. ShownMade' = ShownMade
  BY DEF ShownMade
<1>10. \A d \in Chain : GaveOut(d)' = GaveOut(d) /\ sent'[d] - SentSoFar(d)' = sent[d] - SentSoFar(d)
  BY <1>3, <1>4 DEF Same, GaveOut
<1>11. ShownSent' = ShownSent
  BY <1>10 DEF ShownSent
<1>12. ShownOut' = ShownOut
  BY <1>10 DEF ShownOut
<1>13. rv # 1 => n = 0 \/ n >= Cap
  BY <1>2
<1>14. ShownCall = "recv" /\ ShownCall' = "idle"
  BY <1>1 DEF ShownCall
<1>15. Service!RecvReturns(c, rv, n)
  <2> HIDE DEF n
  <2>1. Service!RecvAnswer(rv, n, n >= Cap) /\ Service!Returns(rv)
    BY <1>1, <1>13, <1>14 DEF Service!RecvAnswer, Service!Returns
  <2> QED BY <1>6, <1>7, <1>8, <1>9, <1>11, <1>12, <1>14, <2>1 DEF Service!RecvReturns
<1> QED BY <1>1, <1>5, <1>15

\* buffer_chain_send returns, and 0 only if there was nothing to send.
LEMMA SendEndsAll ==
  ASSUME Ind, Ind', ProgressInv, ProgressInv',
         NEW c \in Chain, c = cur, pc \in {"send", "shrink"},
         NEW rv \in {-1, 0, 1}, Return(rv),
         rv = 0 => sent[c] = 0 /\ Len(written[c]) = arrived[c],
         UNCHANGED <<arrived, recv, written, sent>>,
         \A d \in Chain : chain'[d] # <<>> <=> chain[d] # <<>>
  PROVE  \E n \in 0 .. MaxBytes[c] : Service!SendReturns(c, rv, n)
<1> DEFINE n == sent[c]
           g == GaveOut(c)
           w == Len(written[c])
           a == arrived[c]
<1>1. pc' = "idle" /\ cur' = NoChain /\ ret' = rv /\ cur # NoChain
  BY ChainAssumption DEF Return
<1>2. /\ n \in Nat /\ w \in Nat /\ a \in Nat /\ n <= w /\ w <= a /\ a <= MaxBytes[c]
      /\ MaxBytes[c] \in Nat
  <2>1. n \in Nat /\ w \in Nat /\ a \in Nat /\ w <= a /\ a <= MaxBytes[c]
    BY <1>1, CountTypes
  <2> QED BY <1>1, <2>1, SizesAssumption DEF ProgressInv
<1>3. /\ RecvSoFar(c) = 0 /\ RecvSoFar(c)' = 0 /\ SentSoFar(c) = n /\ SentSoFar(c)' = 0
  BY <1>1 DEF RecvSoFar, SentSoFar
<1>4. \A d \in Chain : d # c => Same(d)
  BY <1>1, ChainAssumption, OthersSame
<1>5. /\ g = w - n /\ GaveOut(c)' = g + n /\ TookIn(c) = a
  BY <1>2, <1>3 DEF GaveOut, TookIn
<1>6. /\ ShownOut[c] = Run(0, g) /\ Len(ShownOut[c]) = g /\ g \in Nat
  BY <1>1, ShownIs
<1>7. ShownOut'[c] = Run(0, g + n)
  <2>1. ShownOut'[c] = Run(0, GaveOut(c)')
    BY ShownOutAfter
  <2> QED BY <1>5, <2>1
<1>8. Service!Waiting(c) = a - g
  BY <1>1, <1>5, <1>6 DEF Service!Waiting, ShownReceived
<1>9. Service!Bytes(c, n) = Run(g, n)
  BY <1>6 DEF Service!Bytes, Run
<1>10. Service!SendResult(Service!Waiting(c), rv, n)
  BY <1>2, <1>5, <1>8 DEF Service!SendResult
<1>11. ShownOut' = [ShownOut EXCEPT ![c] = @ \o Service!Bytes(c, n)]
  <2>1. Run(0, g) \o Run(g, n) = Run(0, g + n)
    <3>1. Run(0, g - 0) \o Run(g, (g + n) - g) = Run(0, (g + n) - 0)
      <4>1. 0 \in Nat /\ g + n \in Nat /\ 0 <= g /\ g <= g + n
        BY <1>2, <1>6
      <4> HIDE DEF g, n
      <4> QED BY <1>6, <4>1, RunConcat
    <3>2. g - 0 = g /\ (g + n) - g = n /\ (g + n) - 0 = g + n
      BY <1>2, <1>6
    <3> QED BY <3>1, <3>2
  <2>2. \A d \in Chain : d # c => ShownOut'[d] = ShownOut[d]
    BY <1>4, ShownOutSame DEF Same
  <2>3. ShownOut = [d \in Chain |-> ShownOut[d]] /\ ShownOut' = [d \in Chain |-> ShownOut'[d]]
    BY DEF ShownOut
  <2>4. ShownOut'[c] = ShownOut[c] \o Service!Bytes(c, n)
    BY <1>6, <1>7, <1>9, <2>1
  <2> HIDE DEF n, g
  <2> QED BY <2>2, <2>3, <2>4
<1>12. ShownSent' = [ShownSent EXCEPT ![c] = n]
  <2>1. \A d \in Chain : sent'[d] - SentSoFar(d)' = IF d = c THEN n ELSE sent[d] - SentSoFar(d)
    BY <1>2, <1>3, <1>4 DEF Same
  <2> HIDE DEF n
  <2> QED BY <2>1 DEF ShownSent
<1>13. ShownMade' = ShownMade
  BY DEF ShownMade
<1>14. \A d \in Chain : TookIn(d)' = TookIn(d) /\ recv'[d] - RecvSoFar(d)' = recv[d] - RecvSoFar(d)
  BY <1>3, <1>4 DEF Same, TookIn
<1>15. ShownReceived' = ShownReceived /\ ShownRecv' = ShownRecv
  BY <1>14 DEF ShownReceived, ShownRecv
<1>16. ShownCall = "send" /\ ShownCall' = "idle"
  BY <1>1 DEF ShownCall
<1>17. Service!SendReturns(c, rv, n)
  <2>1. Service!Returns(rv)
    BY <1>1, <1>16 DEF Service!Returns
  <2> QED BY <1>10, <1>11, <1>12, <1>13, <1>15, <1>16, <2>1 DEF Service!SendReturns
<1>18. n \in 0 .. MaxBytes[c]
  BY <1>2
<1> QED BY <1>1, <1>17, <1>18

\* A chain that stays or becomes a longer one.
LEMMA StaysMade ==
  ASSUME Ind, NEW c \in Chain, chain[c] # <<>>, NEW s, s # <<>>, chain' = [chain EXCEPT ![c] = s]
  PROVE  \A d \in Chain : chain'[d] # <<>> <=> chain[d] # <<>>
BY ChainType

\* The calls.
LEMMA MakeStep ==
  ASSUME Ind, NEW c \in Chain, NewChain(c)
  PROVE  Service!Make(c)
<1>1. /\ pc = "idle" /\ chain[c] = <<>>
      /\ UNCHANGED <<recv, sent, arrived, written, pc, cur, ret>>
  BY DEF NewChain
<1>2. PICK b \in Buffer : chain' = [chain EXCEPT ![c] = <<b>>]
  BY DEF NewChain
<1>3. c \notin ShownMade /\ ShownMade' = ShownMade \union {c}
  <2>1. <<b>> # <<>>
    OBVIOUS
  <2>2. chain \in [Chain -> Seq(Buffer)]
    BY ChainType
  <2>3. \A d \in Chain : chain'[d] # <<>> <=> chain[d] # <<>> \/ d = c
    BY <1>2, <2>1, <2>2
  <2> QED BY <1>1, <2>3 DEF ShownMade
<1>4. ShownReceived' = ShownReceived /\ ShownOut' = ShownOut
  BY <1>1 DEF ShownReceived, ShownOut, TookIn, GaveOut, RecvSoFar, SentSoFar
<1>5. ShownRecv' = ShownRecv /\ ShownSent' = ShownSent
  BY <1>1 DEF ShownRecv, ShownSent, RecvSoFar, SentSoFar
<1>6. ShownCall = "idle" /\ ShownCall' = ShownCall
  BY <1>1 DEF ShownCall
<1> QED BY <1>1, <1>3, <1>4, <1>5, <1>6 DEF Service!Make

LEMMA CallRecvStep ==
  ASSUME Ind, NEW c \in Chain, buffer_chain_recv(c)
  PROVE  Service!CallRecv(c)
<1>1. /\ pc = "idle" /\ chain[c] # <<>> /\ pc' = "recv" /\ cur' = c
      /\ recv' = [recv EXCEPT ![c] = 0]
      /\ UNCHANGED <<chain, sent, arrived, written, ret>>
  BY DEF buffer_chain_recv, bufVars
<1>2. recv \in [Chain -> Nat]
  BY CountTypes
<1>3. ASSUME NEW d \in Chain
      PROVE  /\ RecvSoFar(d) = 0 /\ RecvSoFar(d)' = 0 /\ SentSoFar(d) = 0 /\ SentSoFar(d)' = 0
             /\ recv'[d] = IF d = c THEN 0 ELSE recv[d]
  BY <1>1, <1>2 DEF RecvSoFar, SentSoFar
<1>4. ShownReceived' = ShownReceived
  BY <1>1, <1>3 DEF ShownReceived, TookIn
<1>5. ShownOut' = ShownOut /\ ShownSent' = ShownSent
  BY <1>1, <1>3 DEF ShownOut, GaveOut, ShownSent
<1>6. ShownRecv' = [ShownRecv EXCEPT ![c] = 0]
  <2>1. \A d \in Chain : recv'[d] - RecvSoFar(d)' = IF d = c THEN 0 ELSE recv[d] - RecvSoFar(d)
    BY <1>2, <1>3
  <2> QED BY <2>1 DEF ShownRecv
<1>7. ShownMade' = ShownMade /\ c \in ShownMade
  BY <1>1 DEF ShownMade
<1>8. ShownCall = "idle" /\ ShownCall' = "recv"
  BY <1>1 DEF ShownCall
<1> QED BY <1>1, <1>4, <1>5, <1>6, <1>7, <1>8 DEF Service!CallRecv

LEMMA CallSendStep ==
  ASSUME Ind, NEW c \in Chain, buffer_chain_send(c)
  PROVE  Service!CallSend(c)
<1>1. /\ pc = "idle" /\ chain[c] # <<>> /\ pc' = "send" /\ cur' = c
      /\ sent' = [sent EXCEPT ![c] = 0]
      /\ UNCHANGED <<chain, recv, arrived, written, ret>>
  BY DEF buffer_chain_send, bufVars
<1>2. sent \in [Chain -> Nat]
  BY CountTypes
<1>3. ASSUME NEW d \in Chain
      PROVE  /\ RecvSoFar(d) = 0 /\ RecvSoFar(d)' = 0 /\ SentSoFar(d) = 0 /\ SentSoFar(d)' = 0
             /\ sent'[d] = IF d = c THEN 0 ELSE sent[d]
  BY <1>1, <1>2 DEF RecvSoFar, SentSoFar
<1>4. ShownReceived' = ShownReceived /\ ShownRecv' = ShownRecv
  BY <1>1, <1>3 DEF ShownReceived, TookIn, ShownRecv
<1>5. ShownOut' = ShownOut
  BY <1>1, <1>3 DEF ShownOut, GaveOut
<1>6. ShownSent' = [ShownSent EXCEPT ![c] = 0]
  <2>1. \A d \in Chain : sent'[d] - SentSoFar(d)' = IF d = c THEN 0 ELSE sent[d] - SentSoFar(d)
    BY <1>2, <1>3
  <2> QED BY <2>1 DEF ShownSent
<1>7. ShownMade' = ShownMade /\ c \in ShownMade
  BY <1>1 DEF ShownMade
<1>8. ShownCall = "idle" /\ ShownCall' = "send"
  BY <1>1 DEF ShownCall
<1> QED BY <1>1, <1>4, <1>5, <1>6, <1>7, <1>8 DEF Service!CallSend

\* The readv and writev after which a call goes on.
LEMMA ReadSpillsStep ==
  ASSUME Ind, Ind', ProgressInv, ProgressInv', NEW n \in Nat \ {0}, ReadSpills(n)
  PROVE  \/ UNCHANGED Service!serviceVars
         \/ \E c \in Chain : \E k \in 0 .. MaxBytes[c] : Service!RecvReturns(c, 1, k)
<1>1. PICK c \in Chain : c = cur /\ chain[c] # <<>> /\ pc = "recv"
  BY CurIs DEF ReadSpills
<1>2. PICK temp \in Buffer :
        /\ chain' = [chain EXCEPT ![c] = Append(@, temp)]
        /\ UNCHANGED <<pc, cur, ret>> \/ Return(1)
  BY <1>1 DEF ReadSpills
<1>3. \A d \in Chain : chain'[d] # <<>> <=> chain[d] # <<>>
  <2>1. chain[c] \in Seq(Buffer)
    BY ChainType
  <2>2. Append(chain[c], temp) # <<>>
    BY <2>1
  <2> QED BY <1>1, <1>2, <2>2, StaysMade
<1>4. /\ recv \in [Chain -> Nat] /\ arrived \in [Chain -> Nat]
      /\ recv[c] <= arrived[c]
      /\ recv' = [recv EXCEPT ![c] = @ + n] /\ arrived' = [arrived EXCEPT ![c] = @ + n]
      /\ UNCHANGED <<sent, written>>
  BY <1>1, CountTypes DEF ReadSpills, ProgressInv
<1>5. /\ arrived'[c] = arrived[c] + n /\ recv'[c] = recv[c] + n
      /\ \A d \in Chain : d # c => arrived'[d] = arrived[d] /\ recv'[d] = recv[d]
  BY <1>4
<1>6. CASE Return(1)
  <2>1. \E k \in 0 .. MaxBytes[c] : Service!RecvReturns(c, 1, k)
    BY <1>1, <1>3, <1>4, <1>5, <1>6, RecvEnds
  <2> QED BY <2>1
<1>7. CASE UNCHANGED <<pc, cur, ret>>
  <2>1. Same(c)
    <3>1. /\ RecvSoFar(c) = recv[c] /\ RecvSoFar(c)' = recv'[c]
          /\ SentSoFar(c) = 0 /\ SentSoFar(c)' = 0
      BY <1>1, <1>7 DEF RecvSoFar, SentSoFar
    <3>2. recv[c] \in Nat /\ arrived[c] \in Nat
      BY <1>4
    <3>3. TookIn(c)' = TookIn(c) /\ recv'[c] - RecvSoFar(c)' = recv[c] - RecvSoFar(c)
      BY <1>5, <3>1, <3>2 DEF TookIn
    <3>4. GaveOut(c)' = GaveOut(c) /\ sent'[c] - SentSoFar(c)' = sent[c] - SentSoFar(c)
      BY <1>4, <3>1 DEF GaveOut
    <3> QED BY <3>3, <3>4 DEF Same
  <2>2. \A d \in Chain : d # c => Same(d)
    BY <1>1, <1>4, <1>5, <1>7, OthersSame
  <2>3. ShownCall' = ShownCall
    BY <1>7 DEF ShownCall
  <2> QED BY <1>3, <1>7, <2>1, <2>2, <2>3, HiddenStep
<1> QED BY <1>2, <1>6, <1>7

LEMMA WriteStep ==
  ASSUME Ind, Ind', ProgressInv, ProgressInv', NEW n \in Nat \ {0}, Write(n)
  PROVE  UNCHANGED Service!serviceVars
<1>1. PICK c \in Chain : c = cur
  BY CurIs DEF Write
<1>2. /\ pc = "send" /\ pc' = "shrink" /\ UNCHANGED <<chain, recv, arrived, cur, ret>>
      /\ sent' = [sent EXCEPT ![c] = @ + n]
      /\ written' = [written EXCEPT ![c] = @ \o SubSeq(Covered, 1, n)]
  BY <1>1 DEF Write, bufVars
<1>3. /\ sent[c] \in Nat /\ sent'[c] = sent[c] + n /\ Len(written[c]) \in Nat
      /\ Len(written'[c]) = Len(written[c]) + n
  BY <1>1, <1>2, CountTypes, WriteCounts
<1>4. ASSUME NEW d \in Chain, d # c PROVE sent'[d] = sent[d] /\ written'[d] = written[d]
  <2>1. sent \in [Chain -> Nat] /\ written \in [Chain -> Seq(Nat)]
    BY DEF Ind, CallType
  <2> QED BY <1>2, <1>4, <2>1
<1>5. Same(c)
  <2>1. /\ RecvSoFar(c) = 0 /\ RecvSoFar(c)' = 0
        /\ SentSoFar(c) = sent[c] /\ SentSoFar(c)' = sent'[c]
    BY <1>1, <1>2 DEF RecvSoFar, SentSoFar
  <2>2. TookIn(c)' = TookIn(c) /\ recv'[c] - RecvSoFar(c)' = recv[c] - RecvSoFar(c)
    BY <1>2, <2>1 DEF TookIn
  <2>3. GaveOut(c)' = GaveOut(c) /\ sent'[c] - SentSoFar(c)' = sent[c] - SentSoFar(c)
    <3>1. GaveOut(c) = Len(written[c]) - sent[c] /\ GaveOut(c)' = Len(written'[c]) - sent'[c]
      BY <2>1 DEF GaveOut
    <3> QED BY <1>3, <2>1, <3>1
  <2> QED BY <2>2, <2>3 DEF Same
<1>6. \A d \in Chain : d # c => Same(d)
  BY <1>1, <1>2, <1>4, OthersSame
<1>7. ShownCall' = ShownCall
  BY <1>2 DEF ShownCall
<1> QED BY <1>2, <1>5, <1>6, <1>7, HiddenStep

\* shrink_chain is not seen; it leaves every chain a buffer.
LEMMA ShrinkDropStep ==
  ASSUME Ind, Ind', ProgressInv, ProgressInv', ShrinkDrop
  PROVE  UNCHANGED Service!serviceVars
<1>1. cur \in Chain /\ chain[cur] # <<>>
  BY CurIs DEF ShrinkDrop
<1>2. /\ Len(chain[cur]) > 1 /\ chain' = [chain EXCEPT ![cur] = Tail(@)]
      /\ UNCHANGED <<recv, sent, arrived, written, pc, cur, ret>>
  BY DEF ShrinkDrop, DropsBuffer
<1>3. \A d \in Chain : chain'[d] # <<>> <=> chain[d] # <<>>
  <2>1. chain[cur] \in Seq(Buffer)
    BY <1>1, ChainType
  <2>2. Tail(chain[cur]) # <<>>
    <3>1. Len(Tail(chain[cur])) = Len(chain[cur]) - 1 /\ Len(chain[cur]) \in Nat
      BY <1>1, <2>1, SplitHead
    <3>2. Len(Tail(chain[cur])) # 0
      <4>1. Len(chain[cur]) > 1
        BY <1>2
      <4>2. \A k \in Nat : k > 1 => k - 1 # 0
        OBVIOUS
      <4> QED BY <3>1, <4>1, <4>2
    <3>3. Len(<<>>) = 0
      OBVIOUS
    <3> QED BY <3>2, <3>3
  <2> QED BY <1>1, <1>2, <2>2, StaysMade
<1>4. \A d \in Chain : Same(d)
  BY <1>2 DEF Same, TookIn, GaveOut, RecvSoFar, SentSoFar
<1>5. ShownCall' = ShownCall
  BY <1>2 DEF ShownCall
<1> QED BY <1>2, <1>3, <1>4, <1>5, HiddenStep

LEMMA ShrinkDoneStep ==
  ASSUME Ind, Ind', ProgressInv, ProgressInv', ShrinkDone
  PROVE  \/ UNCHANGED Service!serviceVars
         \/ \E c \in Chain : \E k \in 0 .. MaxBytes[c] : Service!SendReturns(c, 1, k)
<1>1. PICK c \in Chain : c = cur /\ pc = "shrink"
  BY CurIs DEF ShrinkDone
<1>2. UNCHANGED <<chain, recv, sent, arrived, written>>
  BY DEF ShrinkDone
<1>3. CASE SendEnds
  <2>1. Return(1)
    BY <1>3 DEF ShrinkDone
  <2>2. \E k \in 0 .. MaxBytes[c] : Service!SendReturns(c, 1, k)
    BY <1>1, <1>2, <2>1, SendEndsAll
  <2> QED BY <2>2
<1>4. CASE ~SendEnds
  <2>1. pc' = "send" /\ UNCHANGED <<cur, ret>>
    BY <1>4 DEF ShrinkDone
  <2>2. \A d \in Chain : Same(d)
    BY <1>1, <1>2, <2>1 DEF Same, TookIn, GaveOut, RecvSoFar, SentSoFar
  <2>3. ShownCall' = ShownCall
    BY <1>1, <2>1 DEF ShownCall
  <2> QED BY <1>2, <2>1, <2>2, <2>3, HiddenStep
<1> QED BY <1>3, <1>4

\* The readv and writev that end a call.
LEMMA ReadFitsStep ==
  ASSUME Ind, Ind', ProgressInv, ProgressInv', NEW n \in Nat \ {0}, ReadFits(n)
  PROVE  \E c \in Chain : \E k \in 0 .. MaxBytes[c] : Service!RecvReturns(c, 1, k)
<1>1. PICK c \in Chain : c = cur /\ pc = "recv"
  BY CurIs DEF ReadFits
<1>2. /\ recv' = [recv EXCEPT ![c] = @ + n] /\ arrived' = [arrived EXCEPT ![c] = @ + n]
      /\ Return(1) /\ UNCHANGED <<chain, sent, written>>
  BY <1>1 DEF ReadFits
<1>3. /\ arrived'[c] = arrived[c] + n /\ recv'[c] = recv[c] + n
      /\ \A d \in Chain : d # c => arrived'[d] = arrived[d] /\ recv'[d] = recv[d]
  <2>1. recv \in [Chain -> Nat] /\ arrived \in [Chain -> Nat]
    BY CountTypes
  <2> QED BY <1>2, <2>1
<1>4. \E k \in 0 .. MaxBytes[c] : Service!RecvReturns(c, 1, k)
  BY <1>1, <1>2, <1>3, RecvEnds
<1> QED BY <1>4

LEMMA ReadEndsStep ==
  ASSUME Ind, Ind', ProgressInv, ProgressInv', NEW rv \in {-1, 0, 1}, ReadEnds(rv)
  PROVE  \E c \in Chain : \E k \in 0 .. MaxBytes[c] : Service!RecvReturns(c, rv, k)
<1>1. PICK c \in Chain : c = cur /\ pc = "recv"
  BY CurIs DEF ReadEnds
<1>2. Return(rv) /\ UNCHANGED <<chain, recv, sent, arrived, written>>
  BY DEF ReadEnds, bufVars
<1>3. arrived'[c] = arrived[c] + 0 /\ recv'[c] = recv[c] + 0
  BY <1>2, CountTypes
<1>4. 0 \in Nat
  OBVIOUS
<1>5. \E k \in 0 .. MaxBytes[c] : Service!RecvReturns(c, rv, k)
  BY <1>1, <1>2, <1>3, <1>4, RecvEnds
<1> QED BY <1>5

LEMMA WriteEndsStep ==
  ASSUME Ind, Ind', ProgressInv, ProgressInv', NEW rv \in {-1, 0, 1}, WriteEnds(rv)
  PROVE  \E c \in Chain : \E k \in 0 .. MaxBytes[c] : Service!SendReturns(c, rv, k)
<1>1. PICK c \in Chain : c = cur /\ pc = "send"
  BY CurIs DEF WriteEnds
<1>2. Return(rv) /\ UNCHANGED <<chain, recv, sent, arrived, written>> /\ (rv = 0 => Covered = <<>>)
  BY DEF WriteEnds, bufVars
<1>3. rv = 0 => sent[c] = 0 /\ Len(written[c]) = arrived[c]
  <2>1. rv = 0 => Len(written[c]) = arrived[c]
    BY <1>1, <1>2, NothingCovered
  <2>2. arrived[c] \in Nat
    BY CountTypes
  <2> QED BY <1>1, <2>1, <2>2 DEF ProgressInv
<1>4. \E k \in 0 .. MaxBytes[c] : Service!SendReturns(c, rv, k)
  BY <1>1, <1>2, <1>3, SendEndsAll
<1> QED BY <1>4

LEMMA ServiceStep ==
  ASSUME Ind, Ind', ProgressInv, ProgressInv', [Next]_vars
  PROVE  Service!ServiceNext \/ UNCHANGED Service!serviceVars
<1>1. ASSUME NEW c \in Chain, NewChain(c) \/ buffer_chain_recv(c) \/ buffer_chain_send(c)
      PROVE  Service!ServiceNext
  BY <1>1, MakeStep, CallRecvStep, CallSendStep DEF Service!ServiceNext
<1>2. ASSUME NEW n \in 1 .. 2 * Cap, ReadFits(n) \/ ReadSpills(n)
      PROVE  Service!ServiceNext \/ UNCHANGED Service!serviceVars
  <2>1. n \in Nat \ {0}
    BY <1>2, SizesAssumption
  <2> QED BY <1>2, <2>1, ReadFitsStep, ReadSpillsStep DEF Service!ServiceNext
<1>3. ASSUME NEW rv \in {-1, 0, 1}, ReadEnds(rv) \/ WriteEnds(rv)
      PROVE  Service!ServiceNext
  BY <1>3, ReadEndsStep, WriteEndsStep DEF Service!ServiceNext
<1>4. ASSUME NEW n \in 1 .. SM_MAX_IOV * Cap, Write(n)
      PROVE  UNCHANGED Service!serviceVars
  <2>1. SM_MAX_IOV * Cap \in Int
    BY SizesAssumption
  <2>2. n \in Nat \ {0}
    BY <2>1
  <2> QED BY <1>4, <2>2, WriteStep
<1>5. ASSUME ShrinkDrop \/ ShrinkDone
      PROVE  Service!ServiceNext \/ UNCHANGED Service!serviceVars
  BY <1>5, ShrinkDropStep, ShrinkDoneStep DEF Service!ServiceNext
<1>6. ASSUME UNCHANGED vars PROVE UNCHANGED Service!serviceVars
  <2>1. UNCHANGED <<chain, recv, sent, arrived, written, pc, cur, ret>>
    BY <1>6 DEF vars, bufVars
  <2>2. \A d \in Chain : Same(d)
    BY <2>1 DEF Same, TookIn, GaveOut, RecvSoFar, SentSoFar
  <2>3. ShownCall' = ShownCall
    BY <2>1 DEF ShownCall
  <2> QED BY <2>1, <2>2, <2>3, HiddenStep
<1> QED BY <1>1, <1>2, <1>3, <1>4, <1>5, <1>6, Zenon DEF Next
-----------------------------------------------------------------------------
(* What holds of buffer.c, for any chains, sizes and bounds.               *)

\* The inductive invariant holds in every reachable state, whatever readv and
\* writev return and in whatever order the connections call.
THEOREM Invariance == Spec => []IInv
<1>1. Init => IInv
  BY InitInd, IndIs
<1>2. IInv /\ [Next]_vars => IInv'
  <2>1. IInv => Ind
    BY IndIs
  <2>2. Ind /\ [Next]_vars => Ind'
    BY NextKeeps
  <2>3. Ind' => IInv'
    BY IndIs, PTL
  <2> QED BY <2>1, <2>2, <2>3
<1> QED BY <1>1, <1>2, PTL DEF Spec

\* Every variable has its type, and no marker leaves its buffer: no readv
\* writes past the end of a buffer and no offset passes last.
THEOREM TypeCorrect == Spec => []TypeOK
<1>1. IInv => TypeOK
  BY DEF IInv
<1> QED BY <1>1, Invariance, PTL

\* buffer_chain_recv and buffer_chain_send lose, double and reorder nothing:
\* between two calls of shrink_chain, what was written followed by what is in
\* the chain is what arrived.
THEOREM StreamsInOrder == Spec => []StreamOrder
<1>1. IInv => StreamOrder
  <2> SUFFICES ASSUME Ind, NEW c \in Chain, ~ (pc = "shrink" /\ cur = c)
               PROVE  written[c] \o Content(chain[c]) = [i \in 1 .. arrived[c] |-> i]
    BY IndIs DEF StreamOrder
  <2> DEFINE w == Len(written[c])
             a == arrived[c]
  <2>1. w \in Nat /\ a \in Nat
    BY DEF Ind, CallType
  <2>2. StreamOf(written[c], chain[c], content, a, 0)
    <3>1. Pending(c) = 0
      BY DEF Pending
    <3> QED BY <3>1 DEF Ind, Streams
  <2>3. w <= a /\ written[c] = Run(0, w) /\ Content(chain[c]) = Run(w - 0, a - (w - 0))
    BY <2>2, ContentIs DEF StreamOf
  <2> HIDE DEF w, a
  <2>4. Run(0, w - 0) \o Run(w, a - w) = Run(0, a - 0)
    <3>1. 0 \in Nat /\ 0 <= w /\ w <= a
      BY <2>1, <2>3
    <3> QED BY <2>1, <3>1, RunConcat
  <2>5. w - 0 = w /\ a - 0 = a
    BY <2>1
  <2>6. written[c] \o Content(chain[c]) = Run(0, a)
    BY <2>3, <2>4, <2>5
  <2>7. Run(0, a) = [i \in 1 .. a |-> i]
    BY <2>1 DEF Run
  <2> QED BY <2>6, <2>7 DEF a
<1> QED BY <1>1, Invariance, PTL

\* Only the last buffer of a chain has room or may be empty: writev is never
\* given an empty iovec before bytes that wait.
THEOREM ChainsFilled == Spec => []ChainShape
<1>1. IInv => ChainShape
  BY DEF IInv
<1> QED BY <1>1, Invariance, PTL

\* The assertion of shrink_chain never fails: what is left to take out of the
\* last buffer is in it.
THEOREM ShrinkNeverOverruns == Spec => []ShrinkFits
<1>1. IInv => ShrinkFits
  BY IndIs, LastFits DEF ShrinkFits, rbuf, buffer_rsize
<1> QED BY <1>1, Invariance, PTL

\* A buffer that malloc returned has one owner, the pool or one chain.
THEOREM OneOwnerHolds == Spec => []OneOwner
<1>1. IInv => OneOwner
  BY DEF IInv
<1> QED BY <1>1, Invariance, PTL

\* Free buffers are empty, allocs is exact, and the pool keeps at most
\* maxsize buffers.
THEOREM PoolStaysClean == Spec => []PoolClean
<1>1. IInv => PoolClean
  BY DEF IInv
<1> QED BY <1>1, Invariance, PTL

\* What a running call has counted is true: bytes that arrived or were
\* written, and it goes on only after full buffers or with more to send.
THEOREM CallsCount == Spec => []ProgressInv
<1>1. Init => ProgressInv
  BY DEF Init, ProgressInv
<1>2. IInv /\ IInv' /\ ProgressInv /\ [Next]_vars => ProgressInv'
  <2>1. (IInv => Ind) /\ (IInv' => Ind')
    BY IndIs, PTL
  <2> QED BY <2>1, ProgressKeeps
<1> QED BY <1>1, <1>2, Invariance, PTL DEF Spec

\* To a connection a chain is a queue of bytes, and every call one step of
\* it: what EchoServer assumes of buffer_chain_recv and buffer_chain_send.
THEOREM BufferChainImplementsService == Spec => ImplementsChain
<1>1. Init => Service!ServiceInit
  <2> SUFFICES ASSUME Init PROVE Service!ServiceInit
    OBVIOUS
  <2>1. \A c \in Chain : /\ chain[c] = <<>> /\ written[c] = <<>> /\ arrived[c] = 0
                         /\ recv[c] = 0 /\ sent[c] = 0
    BY DEF Init
  <2>2. \A c \in Chain : RecvSoFar(c) = 0 /\ SentSoFar(c) = 0
    BY DEF Init, RecvSoFar, SentSoFar
  <2>3. ShownMade = {} /\ ShownReceived = [c \in Chain |-> 0]
    BY <2>1, <2>2 DEF ShownMade, ShownReceived, TookIn
  <2>4. ShownRecv = [c \in Chain |-> 0] /\ ShownSent = [c \in Chain |-> 0]
    BY <2>1, <2>2 DEF ShownRecv, ShownSent
  <2>5. ShownOut = [c \in Chain |-> <<>>]
    <3>1. \A c \in Chain : GaveOut(c) = 0
      BY <2>1, <2>2 DEF GaveOut
    <3>2. SubSeq(<<>>, 1, 0) = <<>>
      OBVIOUS
    <3> QED BY <2>1, <3>1, <3>2 DEF ShownOut
  <2>6. ShownCall = "idle" /\ cur = NoChain /\ ret = 1
    BY DEF Init, ShownCall
  <2> QED BY <2>3, <2>4, <2>5, <2>6 DEF Service!ServiceInit
<1>2. IInv /\ IInv' /\ ProgressInv /\ ProgressInv' /\ [Next]_vars
        => [Service!ServiceNext]_(Service!serviceVars)
  <2>1. (IInv => Ind) /\ (IInv' => Ind')
    BY IndIs, PTL
  <2> QED BY <2>1, ServiceStep
<1> QED BY <1>1, <1>2, Invariance, CallsCount, PTL DEF Spec, ImplementsChain, Service!ServiceSpec
=============================================================================
