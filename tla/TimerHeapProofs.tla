--------------------------- MODULE TimerHeapProofs --------------------------
(***************************************************************************)
(* Proofs about TimerHeap: IInv is an inductive invariant, and implies the *)
(* invariants of the module for any number of timers, delays and slots.    *)
(***************************************************************************)
EXTENDS TimerHeap, InductionFacts, TLAPS

\* The slot arithmetic of timer.c: (i - 1) / 2 inverts 2 * h + 1 and
\* 2 * (h + 1).
LEMMA ParentFacts ==
  ASSUME NEW i \in Nat, i # 0
  PROVE  /\ Parent(i) \in Nat
         /\ Parent(i) < i
         /\ i = 2 * Parent(i) + 1 \/ i = 2 * Parent(i) + 2
BY DEF Parent

LEMMA ChildFacts ==
  ASSUME NEW h \in Nat
  PROVE  Parent(2 * h + 1) = h /\ Parent(2 * h + 2) = h
BY DEF Parent

\* The child _shift_down compares with is a child, in use, and no later than
\* its sibling.
LEMMA MinChildFacts ==
  ASSUME IInv, pc = "down", 2 * (hole + 1) <= now
  PROVE  /\ MinChild(hole) \in Filled \ {0}
         /\ Parent(MinChild(hole)) = hole
         /\ \A i \in Filled \ {0} : Parent(i) = hole =>
              when_msec[tes[MinChild(hole)]] <= when_msec[tes[i]]
<1> DEFINE r == 2 * (hole + 1)
<1>1. hole \in Nat /\ now \in Nat /\ kind # "push"
  BY DEF IInv, TypeOK, ShiftInv, Shifting
<1>2. Filled = (0 .. now - 1) \ {hole}
  BY <1>1 DEF Filled, Slots, Shifting
<1>3. Parent(r) = hole /\ Parent(r - 1) = hole
  <2>1. r = 2 * hole + 2 /\ r - 1 = 2 * hole + 1
    BY <1>1
  <2> QED BY <1>1, <2>1, ChildFacts
<1>4. r - 1 \in Filled \ {0} /\ (r # now => r \in Filled \ {0})
  BY <1>1, <1>2
<1>5. \A i \in Filled \ {0} : Parent(i) = hole => i = r \/ i = r - 1
  <2> SUFFICES ASSUME NEW i \in Filled \ {0}, Parent(i) = hole
               PROVE  i = r \/ i = r - 1
    OBVIOUS
  <2>1. i \in Nat /\ i # 0
    BY <1>1, <1>2
  <2>2. i = 2 * Parent(i) + 1 \/ i = 2 * Parent(i) + 2
    BY <2>1, ParentFacts
  <2> QED BY <1>1, <2>1, <2>2
<1>6. \A i \in Filled : when_msec[tes[i]] \in Nat
  BY DEF IInv, TypeOK, IndexInv
<1>7. MinChild(hole) = IF r = now \/ when_msec[tes[r]] > when_msec[tes[r - 1]]
                         THEN r - 1 ELSE r
  BY DEF MinChild, _elem_greater
<1>8. r = now => r \notin Filled
  BY <1>1, <1>2
<1> HIDE DEF r
<1>9. CASE r = now
  <2>1. MinChild(hole) = r - 1
    BY <1>7, <1>9
  <2> QED BY <2>1, <1>3, <1>4, <1>5, <1>6, <1>8, <1>9
<1>10. CASE r # now
  BY <1>3, <1>4, <1>5, <1>6, <1>7, <1>10
<1> QED BY <1>9, <1>10
-----------------------------------------------------------------------------
(* The iterations of the shift loops.                                      *)

\* What an iteration keeps whatever its direction: the timer of slot i gets
\* the hole's slot, and slot i becomes the hole.
LEMMA MoveHoleKeeps ==
  ASSUME IInv, Shifting, hole \in Slots, NEW i \in Filled, MoveHole(i),
         te # NULL => i # 0
  PROVE  /\ TypeOK' /\ ShiftInv' /\ IndexInv' /\ CallbackInv' /\ MemoryInv'
         /\ Filled' = Slots \ {i}
<1> USE DEF IInv
<1>1. /\ now \in Nat /\ all \in Nat /\ hole \in Nat /\ i \in Nat
      /\ Slots \subseteq 0 .. all - 1
      /\ Filled = Slots \ {hole}
      /\ i \in Slots /\ i # hole
  BY DEF TypeOK, ShiftInv, Slots, Filled, Shifting
<1>2. tes[i] \in Timer
  BY DEF IndexInv
<1>3. TypeOK'
  BY <1>1, <1>2 DEF TypeOK, MoveHole, poolVars
<1>4. /\ Shifting' /\ Slots' = Slots /\ Filled' = Slots \ {i}
  BY DEF MoveHole, Shifting, Slots, Filled
<1>5. tes[i] # moving /\ tes[i] # victim
  BY DEF IndexInv
<1>6. ShiftInv'
  <2>1. \A t \in Timer : t # tes[i] => min_heap_idx'[t] = min_heap_idx[t]
    BY <1>2 DEF MoveHole, TypeOK
  <2>2. min_heap_idx'[moving] = min_heap_idx[moving]
    BY <1>5, <2>1 DEF ShiftInv
  <2>3. victim \in Timer => min_heap_idx'[victim] = min_heap_idx[victim]
    BY <1>5, <2>1
  <2>4. kind = "delete" => moving # victim
    BY DEF ShiftInv, Slots, TypeOK
  <2>5. hole' = i /\ UNCHANGED <<now, all, pc, kind, moving, victim, back>>
    BY DEF MoveHole
  <2> QED BY <1>1, <1>4, <2>2, <2>3, <2>4, <2>5 DEF ShiftInv, Slots
<1>7. IndexInv'
  <2>1. \A j \in Slots \ {i} : tes'[j] = IF j = hole THEN tes[i] ELSE tes[j]
    BY <1>1 DEF MoveHole, TypeOK
  <2>2. \A t \in Timer :
          min_heap_idx'[t] = IF t = tes[i] THEN hole ELSE min_heap_idx[t]
    BY <1>2 DEF MoveHole, TypeOK
  <2>3. UNCHANGED <<moving, victim>>
    BY DEF MoveHole
  <2>4. \A j \in Filled : tes[j] = tes[i] => j = i
    BY DEF IndexInv
  <2>5. ASSUME NEW j \in Filled'
        PROVE  /\ tes'[j] \in Timer /\ min_heap_idx'[tes'[j]] = j
               /\ tes'[j] # moving' /\ tes'[j] # victim'
    <3>1. CASE j = hole
      BY <1>1, <1>2, <1>4, <1>5, <2>1, <2>2, <2>3, <3>1
    <3>2. CASE j # hole
      <4>1. j \in Filled /\ tes'[j] = tes[j] /\ tes[j] # tes[i]
        BY <1>1, <1>4, <2>1, <2>4, <3>2
      <4> QED BY <2>2, <2>3, <4>1 DEF IndexInv
    <3> QED BY <3>1, <3>2
  <2>6. ASSUME NEW t \in Timer, min_heap_idx'[t] >= 0,
               t # moving', t # victim'
        PROVE  min_heap_idx'[t] \in Filled' /\ tes'[min_heap_idx'[t]] = t
    <3>1. CASE t = tes[i]
      BY <1>1, <1>4, <2>1, <2>2, <3>1
    <3>2. CASE t # tes[i]
      <4>1. min_heap_idx'[t] = min_heap_idx[t]
        BY <2>2, <3>2
      <4>2. min_heap_idx[t] \in Filled /\ tes[min_heap_idx[t]] = t
        BY <2>3, <2>6, <4>1 DEF IndexInv
      <4>3. min_heap_idx[t] # i /\ min_heap_idx[t] # hole
        BY <1>1, <3>2, <4>2
      <4> QED BY <1>1, <1>4, <2>1, <4>1, <4>2, <4>3
    <3> QED BY <3>1, <3>2
  <2> QED BY <2>5, <2>6 DEF IndexInv
<1>8. CallbackInv'
  <2>1. UNCHANGED <<te, pc, back, clock, when_msec, moving, victim>>
    BY DEF MoveHole
  <2>2. te # NULL => 0 \in Filled' /\ tes'[0] = te
    BY <1>1, <1>4 DEF CallbackInv, MoveHole, TypeOK
  <2> QED BY <1>4, <2>1, <2>2 DEF CallbackInv
<1>9. MemoryInv'
  <2>1. UNCHANGED <<free, live, allocs, leaked, now, kind, moving>>
    BY DEF MoveHole, poolVars
  <2>2. \A t \in Timer :
          min_heap_idx'[t] = IF t = tes[i] THEN hole ELSE min_heap_idx[t]
    BY <1>2 DEF MoveHole, TypeOK
  <2>3. min_heap_idx[tes[i]] = i
    BY DEF IndexInv
  <2>4. \A t \in Timer : min_heap_idx'[t] >= 0 => t \in live
    BY <1>1, <1>2, <2>2, <2>3 DEF MemoryInv
  <2>5. \A k \in 1 .. Len(free) : free[k] \in Timer /\ free[k] # tes[i]
    BY <1>1, <2>3 DEF MemoryInv, TypeOK
  <2>6. \A k \in 1 .. Len(free) : min_heap_idx'[free[k]] = -1
    BY <2>2, <2>5 DEF MemoryInv
  <2> QED BY <2>1, <2>4, <2>6 DEF MemoryInv, PoolBounded
<1> QED BY <1>3, <1>4, <1>6, <1>7, <1>8, <1>9

\* An iteration of _shift_up.
LEMMA ShiftUpKeeps ==
  ASSUME IInv, ShiftUp
  PROVE  IInv'
<1> DEFINE p == Parent(hole)
<1>1. Shifting /\ hole \in Slots /\ hole # 0
  BY DEF IInv, TypeOK, ShiftInv, ShiftUp, UpMoves, Shifting, Slots
<1>2. Slots \subseteq Nat /\ \A i, j \in Nat : i \in Slots /\ j < i => j \in Slots
  BY DEF Slots, IInv, TypeOK
<1>3. p \in Nat /\ p < hole
  BY <1>1, <1>2, ParentFacts
<1>4. Filled = Slots \ {hole} /\ p \in Filled
  BY <1>1, <1>2, <1>3 DEF Filled
<1>5. when_msec[tes[p]] > when_msec[moving]
  BY DEF ShiftUp, UpMoves, _elem_greater
<1>6. /\ \A i \in Filled : when_msec[tes[i]] \in Nat
      /\ when_msec[moving] \in Nat
  BY <1>1 DEF IInv, TypeOK, IndexInv, ShiftInv
<1>7. te # NULL => p # 0
  <2> SUFFICES ASSUME te # NULL, p = 0  PROVE FALSE
    OBVIOUS
  <2>1. tes[0] = te /\ when_msec[te] <= when_msec[moving]
    BY <1>1 DEF IInv, CallbackInv
  <2> QED BY <1>4, <1>5, <1>6, <2>1
<1>8. MoveHole(p)
  BY DEF ShiftUp
<1>9. /\ TypeOK' /\ ShiftInv' /\ IndexInv' /\ CallbackInv' /\ MemoryInv'
      /\ Filled' = Slots \ {p}
  BY <1>1, <1>4, <1>7, <1>8, MoveHoleKeeps
<1>10. /\ \A j \in Filled' : tes'[j] = IF j = hole THEN tes[p] ELSE tes[j]
       /\ hole' = p /\ UNCHANGED <<when_msec, moving, pc>> /\ pc = "up"
  BY <1>1, <1>9 DEF MoveHole, IInv, TypeOK, ShiftUp
<1>11. \A j \in Filled \ {0} : Parent(j) = hole =>
         when_msec[tes[p]] <= when_msec[tes[j]]
  BY <1>1, <1>2 DEF IInv, OrderInv
<1>12. \A j \in Filled \ {0} : Parent(j) \in Filled =>
         when_msec[tes[Parent(j)]] <= when_msec[tes[j]]
  BY DEF IInv, OrderInv
<1>13. \A j \in Slots \ {0} : Parent(j) \in Slots /\ Parent(j) < j
  BY <1>2, ParentFacts
<1>14. ASSUME NEW j \in Filled' \ {0}, Parent(j) \in Filled'
       PROVE  when_msec'[tes'[Parent(j)]] <= when_msec'[tes'[j]]
  <2>1. j # hole
    BY <1>9, <1>14
  <2>2. j \in Filled \ {0} /\ tes'[j] = tes[j]
    BY <1>4, <1>9, <1>10, <2>1
  <2>3. CASE Parent(j) = hole
    BY <1>10, <1>11, <1>14, <2>2, <2>3
  <2>4. CASE Parent(j) # hole
    BY <1>4, <1>9, <1>10, <1>12, <1>14, <2>2, <2>4
  <2> QED BY <2>3, <2>4
<1>15. ASSUME NEW j \in Filled' \ {0}, Parent(j) = p
       PROVE  when_msec'[tes[p]] <= when_msec'[tes'[j]]
  BY <1>4, <1>6, <1>9, <1>10, <1>12, <1>15
<1>16. p > 0 => /\ Parent(p) \in Filled' \ {hole}
                /\ when_msec[tes[Parent(p)]] <= when_msec[tes[p]]
  BY <1>1, <1>2, <1>3, <1>4, <1>9, <1>12, <1>13
<1>17. \A j \in Filled' : when_msec[tes'[j]] \in Nat
  BY <1>4, <1>6, <1>9, <1>10
<1>18. ASSUME NEW j \in Filled' \ {0}, Parent(j) = hole'
       PROVE  /\ hole' > 0 =>
                   when_msec'[tes'[Parent(hole')]] <= when_msec'[tes'[j]]
              /\ when_msec'[moving'] <= when_msec'[tes'[j]]
  <2>1. when_msec[tes[p]] <= when_msec[tes'[j]]
    BY <1>10, <1>15, <1>18
  <2>2. when_msec[tes'[j]] \in Nat /\ when_msec[tes[p]] \in Nat
    BY <1>4, <1>6, <1>17
  <2>3. CASE p > 0
    <3>1. Parent(p) \in Filled
      BY <1>4, <1>9, <1>16, <2>3
    <3>2. when_msec[tes[Parent(p)]] <= when_msec[tes'[j]]
      BY <1>6, <1>16, <2>1, <2>2, <2>3, <3>1
    <3> QED BY <1>5, <1>6, <1>10, <1>16, <2>1, <2>2, <2>3, <3>2
  <2>4. CASE ~ (p > 0)
    BY <1>5, <1>6, <1>10, <2>1, <2>2, <2>4
  <2> QED BY <2>3, <2>4
<1>19. OrderInv'
  BY <1>10, <1>14, <1>18 DEF OrderInv
<1> QED BY <1>9, <1>19 DEF IInv

\* An iteration of _shift_down.
LEMMA ShiftDownKeeps ==
  ASSUME IInv, ShiftDown
  PROVE  IInv'
<1> DEFINE c == MinChild(hole)
<1>1. pc = "down" /\ Shifting /\ 2 * (hole + 1) <= now /\ MoveHole(c)
  BY DEF ShiftDown, DownMoves, Shifting
<1>2. when_msec[moving] > when_msec[tes[c]]
  BY DEF ShiftDown, DownMoves, _elem_greater
<1>3. /\ c \in Filled \ {0}
      /\ Parent(c) = hole
      /\ \A i \in Filled \ {0} : Parent(i) = hole =>
           when_msec[tes[c]] <= when_msec[tes[i]]
  BY <1>1, MinChildFacts
<1>4. /\ hole \in Slots /\ Slots \subseteq Nat /\ Filled = Slots \ {hole}
      /\ \A i, j \in Nat : i \in Slots /\ j < i => j \in Slots
  BY <1>1 DEF IInv, TypeOK, ShiftInv, Shifting, Slots, Filled
<1> HIDE DEF c
<1>5. /\ TypeOK' /\ ShiftInv' /\ IndexInv' /\ CallbackInv' /\ MemoryInv'
      /\ Filled' = Slots \ {c}
  BY <1>1, <1>3, <1>4, MoveHoleKeeps
<1>6. /\ \A j \in Filled' : tes'[j] = IF j = hole THEN tes[c] ELSE tes[j]
      /\ hole' = c /\ UNCHANGED <<when_msec, moving, pc>>
  BY <1>1, <1>4, <1>5 DEF MoveHole, IInv, TypeOK
<1>7. \A i \in Filled : when_msec[tes[i]] \in Nat
  BY DEF IInv, TypeOK, IndexInv
<1>8. when_msec[moving] \in Nat
  BY <1>1 DEF IInv, TypeOK, ShiftInv
<1>9. \A j \in Slots \ {0} : Parent(j) \in Slots /\ Parent(j) < j
  BY <1>4, ParentFacts
<1>10. hole > 0 => when_msec[tes[Parent(hole)]] <= when_msec[tes[c]]
  BY <1>1, <1>3 DEF IInv, OrderInv
<1>11. \A j \in Filled \ {0} : Parent(j) \in Filled =>
         when_msec[tes[Parent(j)]] <= when_msec[tes[j]]
  BY DEF IInv, OrderInv
<1>12. ASSUME NEW j \in Filled' \ {0}, Parent(j) \in Filled'
       PROVE  when_msec'[tes'[Parent(j)]] <= when_msec'[tes'[j]]
  <2>1. CASE j = hole
    <3>1. Parent(hole) # hole /\ hole > 0
      BY <1>4, <1>9, <1>12, <2>1
    <3> QED BY <1>6, <1>10, <1>12, <2>1, <3>1
  <2>2. CASE j # hole /\ Parent(j) = hole
    BY <1>3, <1>4, <1>5, <1>6, <1>12, <2>2
  <2>3. CASE j # hole /\ Parent(j) # hole
    BY <1>4, <1>5, <1>6, <1>11, <1>12, <2>3
  <2> QED BY <2>1, <2>2, <2>3
<1>13. ASSUME NEW j \in Filled' \ {0}, Parent(j) = c
       PROVE  when_msec[tes[c]] <= when_msec[tes'[j]]
  <2>1. j # hole
    BY <1>3, <1>4, <1>9, <1>13
  <2> QED BY <1>3, <1>4, <1>5, <1>6, <1>11, <1>13, <2>1
<1>14. hole \in Filled' /\ tes'[hole] = tes[c]
  BY <1>3, <1>4, <1>5, <1>6
<1>15. when_msec[tes[c]] <= when_msec[moving]
  BY <1>2, <1>3, <1>7, <1>8
<1>16. OrderInv'
  BY <1>1, <1>3, <1>6, <1>12, <1>13, <1>14, <1>15 DEF OrderInv
<1> QED BY <1>5, <1>16 DEF IInv
-----------------------------------------------------------------------------
(* The end of the shift loops.                                             *)

\* When a shift loop ends, its timer fits into the hole: it is no earlier
\* than the parent and no later than the children.
LEMMA SettleOrder ==
  ASSUME IInv, Settle, hole \in Slots
  PROVE  /\ hole # 0 => when_msec[tes[Parent(hole)]] <= when_msec[moving]
         /\ \A i \in Filled \ {0} : Parent(i) = hole =>
              when_msec[moving] <= when_msec[tes[i]]
<1>1. Shifting
  BY DEF Settle, Shifting
<1>2. /\ Slots \subseteq Nat /\ Filled = Slots \ {hole}
      /\ hole # 0 => Parent(hole) \in Filled
  <2>1. Slots \subseteq Nat /\ \A i, j \in Nat : i \in Slots /\ j < i => j \in Slots
    BY DEF Slots, IInv, TypeOK
  <2>2. Filled = Slots \ {hole}
    BY <1>1 DEF Filled
  <2>3. hole # 0 => Parent(hole) \in Nat /\ Parent(hole) < hole
    BY <2>1, ParentFacts
  <2> QED BY <2>1, <2>2, <2>3
<1>3. /\ \A i \in Filled : when_msec[tes[i]] \in Nat
      /\ when_msec[moving] \in Nat
  BY <1>1 DEF IInv, TypeOK, IndexInv, ShiftInv
<1>4. CASE pc = "up" /\ ~UpMoves
  <2>1. hole # 0 => ~ (when_msec[tes[Parent(hole)]] > when_msec[moving])
    BY <1>4 DEF UpMoves, _elem_greater
  <2>2. \A i \in Filled \ {0} : Parent(i) = hole =>
          when_msec[moving] <= when_msec[tes[i]]
    BY <1>1, <1>4 DEF IInv, OrderInv
  <2> QED BY <1>2, <1>3, <2>1, <2>2
<1>5. CASE pc = "down" /\ ~DownMoves
  <2>1. hole # 0 => when_msec[tes[Parent(hole)]] <= when_msec[moving]
    BY <1>5 DEF IInv, OrderInv
  <2>2. ASSUME NEW i \in Filled \ {0}, Parent(i) = hole
        PROVE  when_msec[moving] <= when_msec[tes[i]]
    <3>1. 2 * (hole + 1) <= now
      <4>1. hole \in Nat /\ now \in Nat /\ i \in 0 .. now - 1
        BY <1>2, <1>5, <2>2 DEF IInv, TypeOK, ShiftInv, Shifting, Slots
      <4>2. i = 2 * hole + 1 \/ i = 2 * hole + 2
        BY <2>2, <4>1, ParentFacts
      <4> QED BY <4>1, <4>2
    <3>2. /\ MinChild(hole) \in Filled
          /\ when_msec[tes[MinChild(hole)]] <= when_msec[tes[i]]
      BY <1>5, <2>2, <3>1, MinChildFacts
    <3>3. ~ (when_msec[moving] > when_msec[tes[MinChild(hole)]])
      BY <1>5, <3>1 DEF DownMoves, _elem_greater
    <3> QED BY <1>3, <3>2, <3>3
  <2> QED BY <2>1, <2>2
<1> QED BY <1>4, <1>5 DEF Settle

\* The end of a shift loop restores the heap, hole filled, if the indices
\* are set as the code sets them.
LEMMA SettleKeeps ==
  ASSUME IInv, Settle,
         Slots' = Slots,
         min_heap_idx' \in [Timer -> Nat \union {-1}],
         \A t \in Timer \ {moving, victim} :
           min_heap_idx'[t] = min_heap_idx[t],
         moving # victim => min_heap_idx'[moving] = hole,
         victim # NULL => min_heap_idx'[victim] = -1
  PROVE  ShiftInv' /\ IndexInv' /\ OrderInv' /\ CallbackInv'
<1>1. Shifting /\ moving \in Timer /\ hole \in 0 .. all - 1
  BY DEF Settle, Shifting, IInv, ShiftInv, TypeOK
<1>2. /\ ~Shifting' /\ kind' = "none" /\ hole' = 0 /\ moving' = NULL
      /\ victim' = NULL /\ back' = "none" /\ pc' = back
      /\ UNCHANGED <<when_msec, te, clock, all>>
  BY <1>1 DEF Settle, Shifting, IInv, ShiftInv
<1>3. Filled' = Slots /\ Filled = Slots \ {hole}
  BY <1>1, <1>2 DEF Filled
<1>4. Slots \subseteq 0 .. all - 1 /\ all \in Nat
  BY <1>1 DEF Slots, IInv, ShiftInv, TypeOK
<1>5. \A i \in Slots : tes'[i] = IF i = hole THEN moving ELSE tes[i]
  BY <1>4 DEF Settle, IInv, TypeOK
<1>6. moving = victim <=> hole \notin Slots
  <2>1. kind \in {"push", "adjust"} => victim = NULL /\ hole \in Slots
    BY <1>1 DEF Slots, IInv, ShiftInv, TypeOK
  <2>2. kind = "delete" => (moving = victim <=> hole \notin Slots)
    BY <1>1 DEF Slots, IInv, ShiftInv, TypeOK
  <2>3. kind \in {"push", "adjust", "delete"}
    BY <1>1 DEF IInv, ShiftInv, TypeOK
  <2> QED BY <1>1, <2>1, <2>2, <2>3, NullAssumption
<1>7. ShiftInv'
  BY <1>2 DEF ShiftInv, NoCall
<1>8. \A i \in Filled : /\ tes[i] \in Timer \ {moving, victim}
                        /\ min_heap_idx[tes[i]] = i
  BY DEF IInv, IndexInv
<1>9. IndexInv'
  <2>1. ASSUME NEW i \in Slots
        PROVE  tes'[i] \in Timer /\ min_heap_idx'[tes'[i]] = i
    <3>1. CASE i = hole
      BY <1>1, <1>5, <1>6, <3>1
    <3>2. CASE i # hole
      <4>1. i \in Filled /\ tes'[i] = tes[i]
        BY <1>3, <1>5, <3>2
      <4> QED BY <1>8, <4>1
    <3> QED BY <3>1, <3>2
  <2>2. ASSUME NEW t \in Timer, min_heap_idx'[t] >= 0
        PROVE  min_heap_idx'[t] \in Slots /\ tes'[min_heap_idx'[t]] = t
    <3>1. t # victim
      BY <2>2, NullAssumption
    <3>2. CASE t = moving
      BY <1>5, <1>6, <3>1, <3>2
    <3>3. CASE t # moving
      <4>1. min_heap_idx'[t] = min_heap_idx[t]
        BY <3>1, <3>3
      <4>2. min_heap_idx[t] \in Filled /\ tes[min_heap_idx[t]] = t
        BY <2>2, <3>1, <3>3, <4>1 DEF IInv, IndexInv
      <4> QED BY <1>3, <1>5, <4>1, <4>2
    <3> QED BY <3>2, <3>3
  <2>3. \A i \in Slots : tes'[i] # moving' /\ tes'[i] # victim'
    BY <1>2, <2>1, NullAssumption
  <2> QED BY <1>3, <2>1, <2>2, <2>3 DEF IndexInv
<1>10. OrderInv'
  <2> SUFFICES ASSUME NEW i \in Slots \ {0}, Parent(i) \in Slots
               PROVE  when_msec[tes'[Parent(i)]] <= when_msec[tes'[i]]
    <3>1. pc' # "down" /\ ~Shifting' /\ Filled' = Slots /\ when_msec' = when_msec
      BY <1>2, <1>3 DEF Shifting
    <3> QED BY <3>1 DEF OrderInv
  <2>1. i \in Nat /\ i # 0 /\ Parent(i) < i
    BY <1>4, ParentFacts
  <2>2. CASE i = hole
    <3>1. Parent(i) # hole
      BY <1>1, <1>4, <2>1, <2>2
    <3>2. when_msec[tes[Parent(i)]] <= when_msec[moving]
      BY <2>2, SettleOrder
    <3> QED BY <1>5, <2>2, <3>1, <3>2
  <2>3. CASE i # hole /\ Parent(i) = hole
    <3>1. when_msec[moving] <= when_msec[tes[i]]
      BY <1>3, <2>3, SettleOrder
    <3> QED BY <1>5, <2>3, <3>1
  <2>4. CASE i # hole /\ Parent(i) # hole
    BY <1>3, <1>5, <2>4 DEF IInv, OrderInv
  <2> QED BY <2>2, <2>3, <2>4
<1>11. CallbackInv'
  <2>1. te # NULL <=> back = "cb"
    BY <1>1 DEF IInv, CallbackInv, Shifting
  <2>2. te # NULL => 0 \in Slots /\ tes'[0] = te /\ when_msec[te] <= clock
    BY <1>3, <1>5 DEF IInv, CallbackInv
  <2>3. te # NULL => te # moving' /\ te # victim'
    BY <1>2
  <2> QED BY <1>2, <1>3, <2>1, <2>2, <2>3 DEF CallbackInv
<1> QED BY <1>7, <1>9, <1>10, <1>11

\* The end of _heap_push.
LEMMA PushDoneKeeps ==
  ASSUME IInv, PushDone
  PROVE  IInv'
<1>1. /\ Settle /\ Shifting /\ kind = "push"
      /\ moving \in Timer /\ victim = NULL /\ now < all /\ hole \in 0 .. now
      /\ now' = now + 1
      /\ min_heap_idx' = [min_heap_idx EXCEPT ![moving] = hole]
  BY DEF PushDone, Settle, Shifting, IInv, ShiftInv
<1>2. now \in Nat /\ all \in Nat /\ min_heap_idx \in [Timer -> Nat \union {-1}]
  BY DEF IInv, TypeOK
<1>3. Slots' = Slots
  BY <1>1, <1>2 DEF Slots, Shifting, Settle
<1>4. min_heap_idx' \in [Timer -> Nat \union {-1}]
  BY <1>1, <1>2
<1>5. ShiftInv' /\ IndexInv' /\ OrderInv' /\ CallbackInv'
  BY <1>1, <1>2, <1>3, <1>4, SettleKeeps
<1>6. TypeOK'
  BY <1>1, <1>4 DEF PushDone, Settle, IInv, TypeOK, ShiftInv, Shifting
<1>7. MemoryInv'
  <2>1. UNCHANGED <<free, allocs, live, leaked>> /\ kind' = "none"
        /\ moving' = NULL
    BY DEF PushDone, Settle
  <2>2. \A t \in Timer : min_heap_idx'[t] >= 0 => t \in live
    BY <1>1, <1>2, NullAssumption DEF IInv, MemoryInv
  <2>3. \A i \in 1 .. Len(free) : free[i] \in Timer
    BY DEF IInv, TypeOK
  <2>4. \A i \in 1 .. Len(free) :
          min_heap_idx'[free[i]] = -1 /\ free[i] # moving'
    BY <1>1, <1>2, <2>1, <2>3, NullAssumption DEF IInv, MemoryInv
  <2>5. PoolBounded'
    BY <1>1, <1>2, <2>1 DEF IInv, TypeOK, MemoryInv, PoolBounded
  <2> QED BY <2>1, <2>2, <2>4, <2>5 DEF IInv, MemoryInv
<1> QED BY <1>5, <1>6, <1>7 DEF IInv

\* The end of _heap_adjust.
LEMMA AdjustDoneKeeps ==
  ASSUME IInv, AdjustDone
  PROVE  IInv'
<1>1. /\ Settle /\ Shifting /\ kind = "adjust"
      /\ moving \in Timer /\ victim = NULL /\ hole \in 0 .. now - 1
      /\ min_heap_idx[moving] >= 0
      /\ now' = now
      /\ min_heap_idx' = [min_heap_idx EXCEPT ![moving] = hole]
  BY DEF AdjustDone, Settle, Shifting, IInv, ShiftInv
<1>2. now \in Nat /\ all \in Nat /\ min_heap_idx \in [Timer -> Nat \union {-1}]
  BY DEF IInv, TypeOK
<1>3. Slots' = Slots
  BY <1>1, <1>2 DEF Slots, Shifting, Settle
<1>4. min_heap_idx' \in [Timer -> Nat \union {-1}]
  BY <1>1, <1>2
<1>5. ShiftInv' /\ IndexInv' /\ OrderInv' /\ CallbackInv'
  BY <1>1, <1>2, <1>3, <1>4, SettleKeeps
<1>6. TypeOK'
  BY <1>1, <1>4 DEF AdjustDone, Settle, IInv, TypeOK, ShiftInv, Shifting
<1>7. MemoryInv'
  <2>1. UNCHANGED <<free, allocs, live, leaked>> /\ kind' = "none"
        /\ moving' = NULL
    BY DEF AdjustDone, Settle
  <2>2. \A t \in Timer : min_heap_idx'[t] >= 0 => t \in live
    BY <1>1, <1>2, NullAssumption DEF IInv, MemoryInv
  <2>3. \A i \in 1 .. Len(free) : free[i] \in Timer
    BY DEF IInv, TypeOK
  <2>4. \A i \in 1 .. Len(free) :
          min_heap_idx'[free[i]] = -1 /\ free[i] # moving'
    BY <1>1, <1>2, <2>1, <2>3, NullAssumption DEF IInv, MemoryInv
  <2>5. PoolBounded'
    BY <1>1, <1>2, <2>1 DEF IInv, TypeOK, MemoryInv, PoolBounded
  <2> QED BY <2>1, <2>2, <2>4, <2>5 DEF IInv, MemoryInv
<1> QED BY <1>5, <1>6, <1>7 DEF IInv

\* The end of delete_timer: the timer is freed or recycled.
LEMMA DeleteDoneKeeps ==
  ASSUME IInv, DeleteDone
  PROVE  IInv'
<1>1. /\ Settle /\ Shifting /\ kind = "delete"
      /\ moving \in Timer /\ victim \in Timer
      /\ min_heap_idx[victim] >= 0 /\ min_heap_idx[moving] >= 0
      /\ now' = now /\ now < all
      /\ hole \in 0 .. now
      /\ Recycle(victim)
  BY DEF DeleteDone, Settle, Shifting, IInv, ShiftInv, TypeOK
<1>2. now \in Nat /\ all \in Nat /\ min_heap_idx \in [Timer -> Nat \union {-1}]
  BY DEF IInv, TypeOK
<1>3. Slots' = Slots
  BY <1>1, <1>2 DEF Slots, Shifting, Settle
<1>4. \A t \in Timer : min_heap_idx'[t] = IF t = victim THEN -1
                                          ELSE IF t = moving THEN hole
                                          ELSE min_heap_idx[t]
  BY <1>1, <1>2 DEF DeleteDone
<1>5. min_heap_idx' \in [Timer -> Nat \union {-1}]
  BY <1>1, <1>2 DEF DeleteDone
<1>6. ShiftInv' /\ IndexInv' /\ OrderInv' /\ CallbackInv'
  BY <1>1, <1>2, <1>3, <1>4, <1>5, SettleKeeps
<1>7. /\ kind' = "none" /\ moving' = NULL /\ leaked' = leaked
      /\ pc' = back /\ back \in {"io", "cb", "loop"}
  BY <1>1 DEF Settle, IInv, ShiftInv
<1>8. /\ allocs = Len(free) + now + leaked + 1
      /\ Len(free) <= MaxSize
      /\ Len(free) \in Nat /\ leaked \in Nat /\ allocs \in Nat
      /\ free \in Seq(Timer) /\ live \subseteq Timer
  BY <1>1 DEF IInv, TypeOK, MemoryInv, PoolBounded
<1>9. \A i \in 1 .. Len(free) :
         /\ free[i] \in live /\ min_heap_idx[free[i]] = -1
         /\ free[i] \in Timer /\ free[i] # victim /\ free[i] # moving
  BY <1>1, <1>2, <1>8 DEF IInv, MemoryInv
<1>10. \A t \in Timer : min_heap_idx'[t] >= 0 => t \in live \ {victim}
  BY <1>1, <1>2, <1>4 DEF IInv, MemoryInv
<1>11. victim \in live
  BY <1>1 DEF IInv, MemoryInv
<1>12. CASE allocs > MaxSize
  <2>1. live' = live \ {victim} /\ allocs' = allocs - 1 /\ free' = free
    BY <1>1, <1>12 DEF Recycle
  <2>2. TypeOK'
    <3>1. allocs' \in Nat /\ live' \subseteq Timer
      BY <1>2, <1>8, <2>1
    <3> QED BY <1>1, <1>5, <1>7, <2>1, <3>1 DEF Settle, IInv, TypeOK
  <2>3. PoolBounded'
    BY <1>1, <1>2, <1>7, <1>8, <2>1 DEF PoolBounded
  <2>4. \A i \in 1 .. Len(free') :
          /\ free'[i] \in live' /\ min_heap_idx'[free'[i]] = -1
          /\ free'[i] # moving'
    BY <1>1, <1>4, <1>7, <1>9, <2>1, NullAssumption
  <2>5. MemoryInv'
    BY <1>7, <1>10, <2>1, <2>3, <2>4 DEF IInv, MemoryInv
  <2> QED BY <1>6, <2>2, <2>5 DEF IInv
<1>13. CASE ~ (allocs > MaxSize)
  <2>1. live' = live /\ allocs' = allocs /\ free' = Append(free, victim)
    BY <1>1, <1>13 DEF Recycle
  <2>2. TypeOK'
    BY <1>1, <1>5, <1>7, <1>8, <2>1 DEF Settle, IInv, TypeOK
  <2>3. /\ Len(free') = Len(free) + 1
        /\ \A i \in 1 .. Len(free') :
             free'[i] = IF i = Len(free) + 1 THEN victim ELSE free[i]
    BY <1>1, <1>8, <2>1
  <2>4. PoolBounded'
    BY <1>1, <1>2, <1>7, <1>8, <1>13, <2>1, <2>3, MaxSizeAssumption
    DEF PoolBounded
  <2>5. \A i \in 1 .. Len(free') :
          i # Len(free) + 1 => i \in 1 .. Len(free)
    BY <1>8, <2>3
  <2>6. \A i \in 1 .. Len(free') :
          /\ free'[i] \in live' /\ min_heap_idx'[free'[i]] = -1
          /\ free'[i] # moving'
    BY <1>1, <1>4, <1>7, <1>9, <1>11, <2>1, <2>3, <2>5, NullAssumption
  <2>7. \A i, j \in 1 .. Len(free') : free'[i] = free'[j] => i = j
    BY <1>9, <2>3, <2>5 DEF IInv, MemoryInv
  <2>8. MemoryInv'
    BY <1>7, <1>10, <2>1, <2>4, <2>6, <2>7 DEF MemoryInv
  <2> QED BY <1>6, <2>2, <2>8 DEF IInv
<1> QED BY <1>12, <1>13
-----------------------------------------------------------------------------
(* The calls of the program.                                               *)

\* _heap_top is the minimum, across the hole of a shift loop too, as long as
\* the hole is below it.
LEMMA TopIsLeast ==
  ASSUME IInv, 0 \in Filled, NEW i \in Filled
  PROVE  when_msec[tes[0]] <= when_msec[tes[i]]
<1> DEFINE S == {j \in Filled : when_msec[tes[j]] < when_msec[tes[0]]}
<1> SUFFICES ASSUME i \in S PROVE FALSE
  <2>1. when_msec[tes[i]] \in Nat /\ when_msec[tes[0]] \in Nat
    BY DEF IInv, TypeOK, IndexInv
  <2> QED BY <2>1
<1>1. Filled \subseteq Nat /\ S \in SUBSET Nat /\ S # {}
  <2>1. Filled \subseteq Nat
    BY DEF Filled, Slots, IInv, TypeOK
  <2> QED BY <2>1
<1>2. PICK m \in S : \A n \in S : m <= n
  <2> HIDE DEF S
  <2> QED BY <1>1, LeastNat
<1>3. m \in Filled /\ m \in Nat /\ m # 0 /\ when_msec[tes[m]] < when_msec[tes[0]]
  BY <1>1, <1>2 DEF IInv, TypeOK, IndexInv
<1>4. Parent(m) \in Nat /\ Parent(m) < m
  BY <1>3, ParentFacts
<1>5. \A j \in Filled : when_msec[tes[j]] \in Nat
  BY DEF IInv, TypeOK, IndexInv
<1>6. \A j \in Filled : j < m => when_msec[tes[0]] <= when_msec[tes[j]]
  BY <1>1, <1>2, <1>3, <1>5
<1>7. \A k \in Nat : k < m => k \in Filled \/ (Shifting /\ k = hole)
  BY <1>3 DEF Filled, Slots, IInv, TypeOK
<1>8. CASE Parent(m) \in Filled
  <2>1. when_msec[tes[Parent(m)]] <= when_msec[tes[m]]
    BY <1>3, <1>8 DEF IInv, OrderInv
  <2> QED BY <1>3, <1>4, <1>5, <1>6, <1>8, <2>1
<1>9. CASE Parent(m) \notin Filled
  <2>1. Shifting /\ Parent(m) = hole /\ hole \in Nat /\ hole # 0
    BY <1>4, <1>7, <1>9
  <2>2. Parent(hole) \in Nat /\ Parent(hole) < hole
    BY <2>1, ParentFacts
  <2>3. Parent(hole) \in Filled
    BY <1>3, <1>4, <1>7, <2>1, <2>2
  <2>4. when_msec[tes[Parent(hole)]] <= when_msec[tes[m]]
    BY <1>3, <2>1 DEF IInv, OrderInv
  <2> QED BY <1>3, <1>4, <1>5, <1>6, <2>1, <2>2, <2>3, <2>4
<1> QED BY <1>8, <1>9

\* Where create_timer gets its timer from.
LEMMA TakeTimerFacts ==
  ASSUME IInv, NEW t \in Timer, TakeTimer(t)
  PROVE  /\ min_heap_idx[t] = -1 /\ t # moving
         /\ t \in live' /\ live \subseteq live' /\ live' \subseteq Timer
         /\ free' \in Seq(Timer) /\ allocs' \in Nat
         /\ allocs' - Len(free') = allocs - Len(free) + 1
         /\ Len(free') <= Len(free)
         /\ \A i \in 1 .. Len(free') :
              /\ free'[i] \in live' /\ min_heap_idx[free'[i]] = -1
              /\ free'[i] # moving /\ free'[i] # t
         /\ \A i, j \in 1 .. Len(free') : free'[i] = free'[j] => i = j
<1>1. /\ free \in Seq(Timer) /\ allocs \in Nat /\ live \subseteq Timer
      /\ min_heap_idx \in [Timer -> Nat \union {-1}]
      /\ moving \in Timer \union {NULL}
      /\ Len(free) \in Nat
  BY DEF IInv, TypeOK
<1>2. /\ \A i \in 1 .. Len(free) :
           free[i] \in live /\ min_heap_idx[free[i]] = -1 /\ free[i] # moving
      /\ \A i, j \in 1 .. Len(free) : free[i] = free[j] => i = j
  BY DEF IInv, MemoryInv
<1>3. CASE free # <<>> /\ t = Head(free) /\ free' = Tail(free)
             /\ UNCHANGED <<allocs, live>>
  <2>1. /\ t = free[1] /\ 1 \in 1 .. Len(free)
        /\ free' \in Seq(Timer)
        /\ Len(free') = Len(free) - 1
        /\ \A i \in 1 .. Len(free') : free'[i] = free[i + 1]
    BY <1>1, <1>3
  <2>2. \A i \in 1 .. Len(free') : i + 1 \in 1 .. Len(free) /\ i + 1 # 1
    BY <1>1, <2>1
  <2>3. \A i \in 1 .. Len(free') :
          /\ free'[i] \in live' /\ min_heap_idx[free'[i]] = -1
          /\ free'[i] # moving /\ free'[i] # t
    BY <1>2, <1>3, <2>1, <2>2
  <2>4. \A i, j \in 1 .. Len(free') : free'[i] = free'[j] => i = j
    BY <1>2, <2>1, <2>2
  <2> QED BY <1>1, <1>2, <1>3, <2>1, <2>3, <2>4
<1>4. CASE free = <<>> /\ t \notin live /\ live' = live \union {t}
             /\ allocs' = allocs + 1 /\ free' = free
  <2>1. min_heap_idx[t] = -1 /\ t # moving
    BY <1>1, <1>4, NullAssumption DEF IInv, MemoryInv
  <2>2. Len(free) = 0
    BY <1>4
  <2> QED BY <1>1, <1>4, <2>1, <2>2
<1> QED BY <1>3, <1>4 DEF TakeTimer

\* Outside the shift loops the hole plays no part.
LEMMA NotShifting ==
  ASSUME IInv, ~Shifting
  PROVE  /\ NoCall
         /\ Slots = 0 .. now - 1 /\ Filled = 0 .. now - 1
         /\ now \in Nat /\ all \in Nat /\ now <= all /\ all > 0
         /\ te # NULL <=> pc = "cb"
BY DEF IInv, TypeOK, ShiftInv, NoCall, Slots, Filled, CallbackInv

\* create_timer up to the first iteration of _shift_up.
LEMMA CreateKeeps ==
  ASSUME IInv, NEW t \in Timer, NEW msec \in Delay, create_timer(t, msec)
  PROVE  IInv'
<1>1. /\ ~Shifting /\ pc \in {"io", "cb"} /\ TakeTimer(t)
      /\ pc' = "up" /\ kind' = "push" /\ hole' = now /\ moving' = t
      /\ victim' = NULL /\ back' = pc
      /\ now' = now /\ leaked' = leaked /\ clock' = clock /\ te' = te
  BY DEF create_timer, InProgram, Shifting, Shift
<1>2. /\ NoCall
      /\ Slots = 0 .. now - 1 /\ Filled = 0 .. now - 1
      /\ now \in Nat /\ all \in Nat /\ now <= all /\ all > 0
      /\ te # NULL <=> pc = "cb"
  BY <1>1, NotShifting
<1>3. /\ min_heap_idx[t] = -1
      /\ t \in live' /\ live \subseteq live' /\ live' \subseteq Timer
      /\ free' \in Seq(Timer) /\ allocs' \in Nat
      /\ allocs' - Len(free') = allocs - Len(free) + 1
      /\ Len(free') <= Len(free)
      /\ \A i \in 1 .. Len(free') :
           /\ free'[i] \in live' /\ min_heap_idx[free'[i]] = -1
           /\ free'[i] # moving /\ free'[i] # t
      /\ \A i, j \in 1 .. Len(free') : free'[i] = free'[j] => i = j
  BY <1>1, TakeTimerFacts
<1>4. /\ all' \in Nat \ {0} /\ now < all'
      /\ tes' \in [0 .. all' - 1 -> Timer \union {NULL}]
      /\ \A i \in 0 .. now - 1 : tes'[i] = tes[i]
  <2>1. tes \in [0 .. all - 1 -> Timer \union {NULL}]
    BY DEF IInv, TypeOK
  <2>2. CASE all < now + 1
    <3>1. /\ all' = IF 2 * all < now + 1 THEN now + 1 ELSE 2 * all
          /\ tes' = [i \in 0 .. all' - 1 |-> IF i < all THEN tes[i] ELSE NULL]
      BY <2>2 DEF create_timer, Reserve
    <3>2. all' \in Nat \ {0} /\ now < all' /\ all <= all'
      BY <1>2, <3>1
    <3> QED BY <1>2, <2>1, <3>1, <3>2
  <2>3. CASE ~ (all < now + 1)
    BY <1>2, <2>1, <2>3 DEF create_timer, Reserve
  <2> QED BY <2>2, <2>3
<1>5. /\ when_msec' = [when_msec EXCEPT ![t] = clock + msec]
      /\ min_heap_idx' = min_heap_idx
      /\ when_msec \in [Timer -> Nat] /\ clock \in Nat /\ msec \in Nat
      /\ when_msec' \in [Timer -> Nat]
      /\ min_heap_idx \in [Timer -> Nat \union {-1}]
  BY <1>3, DelayAssumption DEF create_timer, IInv, TypeOK
<1>6. Shifting' /\ Slots' = 0 .. now /\ Filled' = 0 .. now - 1
  BY <1>1, <1>2 DEF Shifting, Slots, Filled
<1>7. \A i \in 0 .. now - 1 : /\ tes[i] \in Timer /\ min_heap_idx[tes[i]] = i
                              /\ tes[i] # t
  BY <1>2, <1>3 DEF IInv, IndexInv
<1>8. TypeOK'
  <2>1. /\ all' \in Nat \ {0} /\ now' \in 0 .. all'
        /\ hole' \in Nat /\ leaked' \in Nat /\ clock' \in Nat
    BY <1>1, <1>2, <1>4, <1>5 DEF IInv, TypeOK
  <2>2. /\ moving' \in Timer \union {NULL} /\ victim' \in Timer \union {NULL}
        /\ te' \in Timer \union {NULL} /\ live' \in SUBSET Timer
    BY <1>1, <1>3 DEF IInv, TypeOK
  <2>3. /\ pc' \in {"poll", "io", "loop", "cb", "up", "down"}
        /\ kind' \in {"none", "push", "delete", "adjust"}
        /\ back' \in {"none", "io", "cb", "loop"}
    BY <1>1
  <2> QED BY <1>3, <1>4, <1>5, <2>1, <2>2, <2>3 DEF TypeOK
<1>9. ShiftInv'
  BY <1>1, <1>2, <1>3, <1>4, <1>5, <1>6 DEF ShiftInv
<1>10. IndexInv'
  <2>1. \A i \in Filled' : /\ tes'[i] \in Timer /\ min_heap_idx'[tes'[i]] = i
                           /\ tes'[i] # moving' /\ tes'[i] # victim'
    <3> SUFFICES ASSUME NEW i \in 0 .. now - 1
                 PROVE  /\ tes'[i] \in Timer /\ min_heap_idx'[tes'[i]] = i
                        /\ tes'[i] # moving' /\ tes'[i] # victim'
      BY <1>6
    <3>1. tes'[i] = tes[i] /\ tes[i] \in Timer /\ tes[i] # t
      BY <1>4, <1>7
    <3>2. moving' = t /\ victim' = NULL
      BY <1>1
    <3> QED BY <1>5, <1>7, <3>1, <3>2, NullAssumption
  <2>2. ASSUME NEW u \in Timer, min_heap_idx'[u] >= 0
        PROVE  min_heap_idx'[u] \in Filled' /\ tes'[min_heap_idx'[u]] = u
    <3>1. min_heap_idx[u] \in Filled /\ tes[min_heap_idx[u]] = u
      BY <1>2, <1>5, <2>2, NullAssumption DEF IInv, IndexInv, NoCall
    <3> QED BY <1>2, <1>4, <1>5, <1>6, <3>1
  <2> QED BY <2>1, <2>2 DEF IndexInv
<1>11. OrderInv'
  <2>1. \A i \in 0 .. now - 1 : when_msec'[tes'[i]] = when_msec[tes[i]]
    BY <1>4, <1>5, <1>7
  <2>2. \A i \in Filled \ {0} : Parent(i) \in Filled =>
          when_msec[tes[Parent(i)]] <= when_msec[tes[i]]
    BY DEF IInv, OrderInv
  <2>3. \A i \in Filled' \ {0} : Parent(i) # hole'
    <3> SUFFICES ASSUME NEW i \in Filled' \ {0} PROVE Parent(i) # now
      BY <1>1
    <3>1. i \in Nat /\ i # 0 /\ i < now
      BY <1>2, <1>6
    <3>2. Parent(i) < i /\ Parent(i) \in Nat
      BY <3>1, ParentFacts
    <3> QED BY <1>2, <3>1, <3>2
  <2> QED BY <1>1, <1>2, <1>6, <2>1, <2>2, <2>3 DEF OrderInv
<1>12. CallbackInv'
  <2>1. te' # NULL <=> pc' = "cb" \/ back' = "cb"
    BY <1>1, <1>2
  <2>2. ASSUME te # NULL
        PROVE  /\ 0 \in Filled' /\ tes'[0] = te /\ when_msec'[te] <= clock
               /\ te # moving' /\ te # victim'
               /\ when_msec'[te] <= when_msec'[moving']
    <3>1. /\ 0 \in Filled /\ tes[0] = te /\ when_msec[te] <= clock
      BY <2>2 DEF IInv, CallbackInv
    <3>2. te # t /\ te \in Timer
      BY <1>2, <1>7, <3>1
    <3>3. 0 \in Filled' /\ tes'[0] = te
      BY <1>2, <1>4, <1>6, <3>1
    <3>4. when_msec'[te] = when_msec[te] /\ when_msec'[t] = clock + msec
      BY <1>5, <3>2
    <3>5. when_msec[te] \in Nat
      BY <1>5, <3>2
    <3>6. when_msec'[te] <= clock /\ when_msec'[te] <= when_msec'[t]
      BY <1>5, <3>1, <3>4, <3>5
    <3>7. moving' = t /\ victim' = NULL
      BY <1>1
    <3> QED BY <3>2, <3>3, <3>6, <3>7, NullAssumption
  <2> QED BY <1>1, <2>1, <2>2 DEF CallbackInv
<1>13. MemoryInv'
  <2>1. \A u \in Timer : min_heap_idx'[u] >= 0 => u \in live'
    BY <1>3, <1>5 DEF IInv, MemoryInv
  <2>2. PoolBounded'
    <3>1. /\ allocs = Len(free) + now + leaked /\ Len(free) <= MaxSize
          /\ allocs \in Nat /\ Len(free) \in Nat /\ leaked \in Nat
          /\ Len(free') \in Nat
      BY <1>2, <1>3 DEF IInv, TypeOK, MemoryInv, PoolBounded, NoCall
    <3> QED BY <1>1, <1>2, <1>3, <3>1, MaxSizeAssumption DEF PoolBounded
  <2> QED BY <1>1, <1>3, <1>5, <2>1, <2>2 DEF MemoryInv
<1> QED BY <1>8, <1>9, <1>10, <1>11, <1>12, <1>13 DEF IInv

\* create_timer when realloc fails.
LEMMA CreateNoMemoryKeeps ==
  ASSUME IInv, NEW t \in Timer, NEW msec \in Delay, CreateTimerNoMemory(t, msec)
  PROVE  IInv'
<1>1. /\ ~Shifting /\ TakeTimer(t)
      /\ leaked' = leaked + 1
      /\ UNCHANGED <<tes, now, all, callVars, clock, pc, te>>
  BY DEF CreateTimerNoMemory, InProgram, Shifting
<1>2. UNCHANGED <<kind, hole, moving, victim, back>>
  BY <1>1 DEF callVars
<1>3. /\ NoCall
      /\ Slots = 0 .. now - 1 /\ Filled = 0 .. now - 1
      /\ now \in Nat /\ all \in Nat /\ now <= all /\ all > 0
  BY <1>1, NotShifting
<1>4. /\ min_heap_idx[t] = -1
      /\ t \in live' /\ live \subseteq live' /\ live' \subseteq Timer
      /\ free' \in Seq(Timer) /\ allocs' \in Nat
      /\ allocs' - Len(free') = allocs - Len(free) + 1
      /\ Len(free') <= Len(free)
      /\ \A i \in 1 .. Len(free') :
           /\ free'[i] \in live' /\ min_heap_idx[free'[i]] = -1
           /\ free'[i] # moving /\ free'[i] # t
      /\ \A i, j \in 1 .. Len(free') : free'[i] = free'[j] => i = j
  BY <1>1, TakeTimerFacts
<1>5. /\ when_msec' = [when_msec EXCEPT ![t] = clock + msec]
      /\ min_heap_idx' = min_heap_idx
      /\ when_msec' \in [Timer -> Nat]
  BY <1>4, DelayAssumption DEF CreateTimerNoMemory, IInv, TypeOK
<1>6. ~Shifting' /\ Slots' = Slots /\ Filled' = Filled /\ NoCall'
  BY <1>1, <1>2, <1>3 DEF Shifting, Slots, Filled, NoCall
<1>7. TypeOK'
  BY <1>1, <1>2, <1>4, <1>5 DEF IInv, TypeOK
<1>8. ShiftInv'
  BY <1>6 DEF ShiftInv
<1>9. IndexInv'
  BY <1>1, <1>2, <1>5, <1>6 DEF IInv, IndexInv
<1>10. \A i \in Filled : when_msec'[tes[i]] = when_msec[tes[i]]
  <2>1. \A i \in Filled : tes[i] \in Timer /\ tes[i] # t
    BY <1>3, <1>4 DEF IInv, IndexInv
  <2> QED BY <1>5, <2>1 DEF IInv, TypeOK
<1>11. OrderInv'
  BY <1>1, <1>6, <1>10 DEF IInv, OrderInv, Shifting
<1>12. CallbackInv'
  BY <1>1, <1>2, <1>6, <1>10 DEF IInv, CallbackInv
<1>13. MemoryInv'
  <2>1. /\ allocs = Len(free) + now + leaked /\ Len(free) <= MaxSize
        /\ allocs \in Nat /\ Len(free) \in Nat /\ leaked \in Nat
        /\ Len(free') \in Nat
    BY <1>3, <1>4 DEF IInv, TypeOK, MemoryInv, PoolBounded, NoCall
  <2>2. kind' = "none" /\ now' = now
    BY <1>1, <1>6 DEF NoCall
  <2>3. /\ allocs' \in Nat /\ leaked' = leaked + 1 /\ now \in Nat
        /\ allocs' - Len(free') = allocs - Len(free) + 1
        /\ Len(free') <= Len(free)
    BY <1>1, <1>3, <1>4
  <2>4. allocs' = Len(free') + now' + leaked' + 0 /\ Len(free') <= MaxSize
    BY <2>1, <2>2, <2>3, MaxSizeAssumption
  <2>5. PoolBounded'
    BY <2>2, <2>4 DEF PoolBounded
  <2>6. moving' = NULL /\ \A i \in 1 .. Len(free') : free'[i] # moving'
    BY <1>2, <1>4, <1>6 DEF NoCall
  <2> QED BY <1>4, <1>5, <2>5, <2>6 DEF IInv, MemoryInv
<1> QED BY <1>7, <1>8, <1>9, <1>11, <1>12, <1>13 DEF IInv

\* delete_timer up to the first iteration of a shift loop, called by the
\* program or, for the timer that has just run, by process_time_events.
LEMMA StartDeleteKeeps ==
  ASSUME IInv, ~Shifting, NEW t \in Timer, NEW ret \in {"io", "cb", "loop"},
         StartDelete(t, ret),
         te' = te \/ te' = NULL,
         te' # NULL => te # t,
         te' # NULL <=> ret = "cb"
  PROVE  IInv'
<1> DEFINE h == min_heap_idx[t]
           last == tes[now - 1]
           up == h > 0 /\ when_msec[tes[Parent(h)]] > when_msec[last]
<1>1. /\ NoCall
      /\ Slots = 0 .. now - 1 /\ Filled = 0 .. now - 1
      /\ now \in Nat /\ all \in Nat /\ now <= all /\ all > 0
      /\ te # NULL <=> pc = "cb"
  BY NotShifting
<1>2. /\ h >= 0 /\ now' = now - 1
      /\ pc' = (IF up THEN "up" ELSE "down")
      /\ kind' = "delete" /\ hole' = h /\ moving' = last /\ victim' = t
      /\ back' = ret
      /\ UNCHANGED <<tes, all, min_heap_idx, when_msec, clock>>
      /\ UNCHANGED <<free, allocs, live, leaked>>
  BY DEF StartDelete, Shift, _elem_greater, poolVars
<1>3. \A i \in 0 .. now - 1 : tes[i] \in Timer /\ min_heap_idx[tes[i]] = i
  BY <1>1 DEF IInv, IndexInv
<1>4. h \in 0 .. now - 1 /\ tes[h] = t
  BY <1>1, <1>2, NullAssumption DEF IInv, IndexInv, NoCall
<1>5. last \in Timer /\ min_heap_idx[last] = now - 1 /\ now - 1 \in 0 .. now - 1
  BY <1>1, <1>3, <1>4
<1>6. last = t <=> h = now - 1
  BY <1>4, <1>5
<1>7. \A i \in 0 .. now - 1 : when_msec[tes[i]] \in Nat
  BY <1>3 DEF IInv, TypeOK
<1>8. \A i \in (0 .. now - 1) \ {0} :
        /\ Parent(i) \in 0 .. now - 1 /\ Parent(i) < i
        /\ when_msec[tes[Parent(i)]] <= when_msec[tes[i]]
  <2> SUFFICES ASSUME NEW i \in (0 .. now - 1) \ {0}
               PROVE  /\ Parent(i) \in 0 .. now - 1 /\ Parent(i) < i
                      /\ when_msec[tes[Parent(i)]] <= when_msec[tes[i]]
    OBVIOUS
  <2>1. Parent(i) \in Nat /\ Parent(i) < i
    BY <1>1, ParentFacts
  <2>2. Parent(i) \in 0 .. now - 1
    BY <1>1, <2>1
  <2> QED BY <1>1, <2>1, <2>2 DEF IInv, OrderInv
<1> HIDE DEF h, last
<1>9. up => h # now - 1
  BY <1>1, <1>4, <1>6, <1>7, <1>8
<1>10. Shifting' /\ Slots' = 0 .. now - 2 /\ Filled' = (0 .. now - 2) \ {h}
  BY <1>1, <1>2 DEF Shifting, Slots, Filled
<1>11. TypeOK'
  <2>1. /\ now' \in 0 .. all' /\ hole' \in Nat
    BY <1>1, <1>2, <1>4
  <2>2. /\ moving' \in Timer \union {NULL} /\ victim' \in Timer \union {NULL}
        /\ te' \in Timer \union {NULL}
    BY <1>2, <1>5 DEF IInv, TypeOK
  <2>3. /\ pc' \in {"poll", "io", "loop", "cb", "up", "down"}
        /\ kind' \in {"none", "push", "delete", "adjust"}
        /\ back' \in {"none", "io", "cb", "loop"}
    BY <1>2
  <2> QED BY <1>2, <2>1, <2>2, <2>3 DEF IInv, TypeOK
<1>12. ShiftInv'
  <2>1. IF moving' = victim' THEN hole' = now' /\ pc' = "down"
                             ELSE hole' \in 0 .. now' - 1
    BY <1>1, <1>2, <1>4, <1>6, <1>9
  <2>2. min_heap_idx'[victim'] >= 0 /\ min_heap_idx'[moving'] >= 0 /\ now' < all'
    BY <1>1, <1>2, <1>5 DEF h
  <2> QED BY <1>2, <1>5, <1>10, <2>1, <2>2 DEF ShiftInv
<1>13. IndexInv'
  <2>1. ASSUME NEW i \in Filled'
        PROVE  /\ tes'[i] \in Timer /\ min_heap_idx'[tes'[i]] = i
               /\ tes'[i] # moving' /\ tes'[i] # victim'
    <3>1. i \in 0 .. now - 1 /\ i # h /\ i # now - 1
      BY <1>1, <1>10
    <3>2. tes[i] # last /\ tes[i] # t
      BY <1>3, <1>5, <3>1 DEF h
    <3> QED BY <1>2, <1>3, <3>1, <3>2
  <2>2. ASSUME NEW u \in Timer, min_heap_idx'[u] >= 0,
               u # moving', u # victim'
        PROVE  min_heap_idx'[u] \in Filled' /\ tes'[min_heap_idx'[u]] = u
    <3>1. min_heap_idx[u] \in 0 .. now - 1 /\ tes[min_heap_idx[u]] = u
      BY <1>1, <1>2, <2>2, NullAssumption DEF IInv, IndexInv, NoCall
    <3>2. min_heap_idx[u] # h /\ min_heap_idx[u] # now - 1
      BY <1>2, <1>4, <2>2, <3>1 DEF last
    <3> QED BY <1>1, <1>2, <1>10, <3>1, <3>2
  <2> QED BY <2>1, <2>2 DEF IndexInv
<1>14. OrderInv'
  <2>1. \A i \in Filled' : i \in 0 .. now - 1
    BY <1>1, <1>10
  <2>2. ASSUME NEW i \in Filled' \ {0}, Parent(i) = h
        PROVE  /\ h > 0 => when_msec[tes[Parent(h)]] <= when_msec[tes[i]]
               /\ up => when_msec[last] <= when_msec[tes[i]]
    <3>1. when_msec[tes[h]] <= when_msec[tes[i]]
      BY <1>8, <2>1, <2>2
    <3>2. h > 0 => Parent(h) \in 0 .. now - 1
                   /\ when_msec[tes[Parent(h)]] <= when_msec[tes[h]]
      BY <1>1, <1>4, <1>8
    <3>3. when_msec[last] \in Nat
      BY <1>5 DEF IInv, TypeOK
    <3> QED BY <1>4, <1>7, <2>1, <3>1, <3>2, <3>3
  <2>3. pc' = "down" /\ h > 0 => when_msec[tes[Parent(h)]] <= when_msec[last]
    <3>1. when_msec[last] \in Nat
      BY <1>5 DEF IInv, TypeOK
    <3>2. h > 0 => Parent(h) \in 0 .. now - 1
      BY <1>1, <1>4, <1>8
    <3> QED BY <1>2, <1>7, <3>1, <3>2
  <2>4. pc' = "up" => up
    BY <1>2
  <2>5. \A i \in Filled' \ {0} : when_msec[tes[Parent(i)]] <= when_msec[tes[i]]
    BY <1>8, <2>1
  <2>6. h \in Nat
    BY <1>1, <1>4
  <2> HIDE DEF up
  <2> QED BY <1>2, <2>2, <2>3, <2>4, <2>5, <2>6 DEF OrderInv
<1>15. CallbackInv'
  <2>1. te' # NULL <=> pc' = "cb" \/ back' = "cb"
    BY <1>2
  <2>2. ASSUME te' # NULL
        PROVE  /\ 0 \in Filled' /\ tes'[0] = te' /\ when_msec'[te'] <= clock'
               /\ te' # moving' /\ te' # victim'
               /\ when_msec'[te'] <= when_msec'[moving']
    <3>1. te' = te /\ te # NULL /\ te # t
      BY <2>2
    <3>2. 0 \in Filled /\ tes[0] = te /\ when_msec[te] <= clock
      BY <3>1 DEF IInv, CallbackInv
    <3>3. h # 0
      BY <1>4, <3>1, <3>2
    <3>4. 0 \in Filled' /\ now - 1 # 0
      BY <1>1, <1>4, <1>10, <3>3
    <3>5. te # last
      BY <1>1, <1>3, <1>5, <3>2, <3>4
    <3>6. when_msec[te] <= when_msec[last]
      BY <1>1, <1>5, <3>2, TopIsLeast DEF last
    <3> QED BY <1>2, <3>1, <3>2, <3>4, <3>5, <3>6
  <2> QED BY <2>1, <2>2 DEF CallbackInv
<1>16. MemoryInv'
  <2>1. moving' \in live
    BY <1>1, <1>2, <1>5 DEF IInv, MemoryInv
  <2>2. \A i \in 1 .. Len(free) : free[i] # moving'
    BY <1>1, <1>2, <1>5 DEF IInv, MemoryInv
  <2>3. PoolBounded'
    BY <1>1, <1>2 DEF IInv, TypeOK, MemoryInv, PoolBounded, NoCall
  <2> QED BY <1>2, <2>1, <2>2, <2>3 DEF IInv, MemoryInv
<1> QED BY <1>11, <1>12, <1>13, <1>14, <1>15, <1>16 DEF IInv

\* A callback returns a positive delay: its timer is at the top, so that
\* _heap_adjust shifts it down.
LEMMA ReturnAgainKeeps ==
  ASSUME IInv, NEW msec \in Delay, ReturnAgain(msec)
  PROVE  IInv'
<1>1. ~Shifting /\ pc = "cb"
  BY DEF ReturnAgain, Shifting
<1>2. /\ NoCall
      /\ Slots = 0 .. now - 1 /\ Filled = 0 .. now - 1
      /\ now \in Nat /\ all \in Nat /\ now <= all /\ all > 0
      /\ te # NULL
  BY <1>1, NotShifting
<1>3. 0 \in Filled /\ tes[0] = te /\ te \in Timer /\ min_heap_idx[te] = 0
  BY <1>2 DEF IInv, CallbackInv, IndexInv
<1>4. /\ pc' = "down" /\ kind' = "adjust" /\ hole' = 0 /\ moving' = te
      /\ victim' = NULL /\ back' = "loop" /\ te' = NULL
      /\ UNCHANGED <<tes, now, all, min_heap_idx, clock>>
      /\ UNCHANGED <<free, allocs, live, leaked>>
  BY <1>3 DEF ReturnAgain, Shift, poolVars
<1>5. /\ when_msec' \in [Timer -> Nat]
      /\ \A u \in Timer : u # te => when_msec'[u] = when_msec[u]
  BY <1>3, DelayAssumption DEF ReturnAgain, IInv, TypeOK
<1>6. Shifting' /\ Slots' = 0 .. now - 1 /\ Filled' = (0 .. now - 1) \ {0}
  BY <1>2, <1>4 DEF Shifting, Slots, Filled
<1>7. \A i \in 0 .. now - 1 : tes[i] \in Timer /\ min_heap_idx[tes[i]] = i
  BY <1>2 DEF IInv, IndexInv
<1>8. \A i \in Filled' : tes[i] # te
  BY <1>3, <1>6, <1>7
<1>9. TypeOK'
  BY <1>2, <1>3, <1>4, <1>5 DEF IInv, TypeOK
<1>10. ShiftInv'
  BY <1>2, <1>3, <1>4, <1>6 DEF ShiftInv
<1>11. IndexInv'
  <2>1. \A i \in Filled' : /\ tes'[i] \in Timer /\ min_heap_idx'[tes'[i]] = i
                           /\ tes'[i] # moving' /\ tes'[i] # victim'
    BY <1>4, <1>6, <1>7, <1>8, NullAssumption
  <2>2. ASSUME NEW u \in Timer, min_heap_idx'[u] >= 0,
               u # moving', u # victim'
        PROVE  min_heap_idx'[u] \in Filled' /\ tes'[min_heap_idx'[u]] = u
    <3>1. min_heap_idx[u] \in 0 .. now - 1 /\ tes[min_heap_idx[u]] = u
      BY <1>2, <1>4, <2>2, NullAssumption DEF IInv, IndexInv, NoCall
    <3> QED BY <1>3, <1>4, <1>6, <2>2, <3>1
  <2> QED BY <2>1, <2>2 DEF IndexInv
<1>12. OrderInv'
  <2>1. \A i \in Filled' : when_msec'[tes'[i]] = when_msec[tes[i]]
    BY <1>4, <1>5, <1>6, <1>7, <1>8
  <2>2. \A i \in Filled \ {0} : Parent(i) \in Filled =>
          when_msec[tes[Parent(i)]] <= when_msec[tes[i]]
    BY DEF IInv, OrderInv
  <2> QED BY <1>2, <1>4, <1>6, <2>1, <2>2 DEF OrderInv
<1>13. CallbackInv'
  BY <1>4 DEF CallbackInv
<1>14. MemoryInv'
  <2>1. moving' \in live
    BY <1>2, <1>3, <1>4 DEF IInv, MemoryInv
  <2>2. \A i \in 1 .. Len(free) : free[i] # moving'
    BY <1>3, <1>4 DEF IInv, MemoryInv
  <2>3. PoolBounded'
    BY <1>2, <1>4 DEF IInv, TypeOK, MemoryInv, PoolBounded, NoCall
  <2> QED BY <1>4, <2>1, <2>2, <2>3 DEF IInv, MemoryInv
<1> QED BY <1>9, <1>10, <1>11, <1>12, <1>13, <1>14 DEF IInv

\* The steps of the event loop and of the clock move only pc, te and clock.
LEMMA ControlKeeps ==
  ASSUME IInv,
         UNCHANGED <<heapVars, poolVars, callVars>>,
         clock' \in Nat, clock <= clock',
         \/ UNCHANGED <<pc, te>>
         \/ /\ ~Shifting /\ pc' \in {"poll", "io", "loop"}
            /\ pc # "cb" /\ te' = te
         \/ Fire
  PROVE  IInv'
<1>1. /\ UNCHANGED <<tes, now, all, min_heap_idx, when_msec>>
      /\ UNCHANGED <<free, allocs, live, leaked>>
      /\ UNCHANGED <<kind, hole, moving, victim, back>>
  BY DEF heapVars, poolVars, callVars
<1>2. CASE UNCHANGED <<pc, te>>
  <2>1. Filled' = Filled /\ Slots' = Slots /\ Shifting' = Shifting
    BY <1>1, <1>2 DEF Filled, Slots, Shifting
  <2>2. TypeOK' /\ ShiftInv' /\ MemoryInv'
    BY <1>1, <1>2 DEF IInv, TypeOK, ShiftInv, MemoryInv, PoolBounded, Shifting,
                      NoCall
  <2>3. IndexInv' /\ OrderInv'
    BY <1>1, <1>2, <2>1 DEF IInv, IndexInv, OrderInv
  <2>4. CallbackInv'
    <3>1. te # NULL => when_msec[te] \in Nat /\ clock \in Nat
      BY DEF IInv, CallbackInv, IndexInv, TypeOK
    <3> QED BY <1>1, <1>2, <2>1, <3>1 DEF IInv, CallbackInv
  <2> QED BY <2>2, <2>3, <2>4 DEF IInv
<1>3. CASE ~Shifting /\ ~Shifting' /\ pc' \in {"poll", "io", "loop", "cb"}
  <2>1. Filled' = Filled /\ Slots' = Slots /\ pc' # "down" /\ pc # "down"
    BY <1>1, <1>3 DEF Filled, Slots, Shifting
  <2>2. ShiftInv' /\ MemoryInv'
    BY <1>1, <1>3 DEF IInv, ShiftInv, MemoryInv, PoolBounded, NoCall
  <2>3. IndexInv' /\ OrderInv'
    BY <1>1, <1>3, <2>1 DEF IInv, IndexInv, OrderInv
  <2>4. back' = "none" /\ (te # NULL <=> pc = "cb")
    BY <1>1, <1>3, NotShifting DEF NoCall
  <2>5. CASE pc' # "cb" /\ pc # "cb" /\ te' = te
    <3>1. TypeOK'
      BY <1>1, <1>3, <2>5 DEF IInv, TypeOK
    <3>2. CallbackInv'
      BY <2>4, <2>5 DEF CallbackInv
    <3> QED BY <2>2, <2>3, <3>1, <3>2 DEF IInv
  <2>6. CASE Fire
    <3>1. /\ te' = tes[0] /\ pc' = "cb" /\ now > 0 /\ clock >= when_msec[tes[0]]
          /\ clock' = clock
      BY <2>6 DEF Fire, Due
    <3>2. 0 \in Filled
      BY <1>3, <3>1, NotShifting
    <3>3. te' \in Timer /\ te' # NULL /\ te' # moving /\ te' # victim
          /\ when_msec[te'] \in Nat
      BY <3>1, <3>2, NullAssumption DEF IInv, IndexInv, TypeOK
    <3>4. TypeOK'
      BY <1>1, <3>1, <3>3 DEF IInv, TypeOK
    <3>5. when_msec'[te'] <= clock'
      BY <1>1, <3>1, <3>3 DEF IInv, TypeOK
    <3>6. CallbackInv'
      BY <1>1, <1>3, <2>1, <2>4, <3>1, <3>2, <3>3, <3>5 DEF CallbackInv
    <3> QED BY <2>2, <2>3, <3>4, <3>6 DEF IInv
  <2> QED BY <1>2, <1>3, <2>5, <2>6 DEF Fire, Shifting
<1> QED BY <1>2, <1>3 DEF Fire, Shifting
-----------------------------------------------------------------------------
(* The theorems.                                                           *)

LEMMA InitKeeps == Init => IInv
<1> SUFFICES ASSUME Init PROVE IInv
  OBVIOUS
<1>1. NoCall /\ pc = "io" /\ te = NULL /\ now = 0 /\ ~Shifting
  BY DEF Init, Shifting
<1>2. Slots = {} /\ Filled = {}
  BY <1>1 DEF Slots, Filled
<1>3. TypeOK
  BY <1>1, InitAllAssumption DEF Init, TypeOK, NoCall
<1>4. ShiftInv /\ IndexInv /\ OrderInv /\ CallbackInv
  BY <1>1, <1>2
  DEF Init, ShiftInv, IndexInv, OrderInv, CallbackInv, NoCall
<1>5. MemoryInv
  BY <1>1, MaxSizeAssumption DEF Init, MemoryInv, PoolBounded, NoCall
<1> QED BY <1>3, <1>4, <1>5 DEF IInv

LEMMA NextKeeps == IInv /\ [Next]_vars => IInv'
<1> SUFFICES ASSUME IInv, [Next]_vars PROVE IInv'
  OBVIOUS
<1>0. clock \in Nat /\ te \in Timer \union {NULL}
  BY DEF IInv, TypeOK
<1>1. ASSUME NEW t \in Timer, NEW msec \in Delay, create_timer(t, msec)
      PROVE  IInv'
  BY <1>1, CreateKeeps
<1>2. ASSUME NEW t \in Timer, NEW msec \in Delay, CreateTimerNoMemory(t, msec)
      PROVE  IInv'
  BY <1>2, CreateNoMemoryKeeps
<1>3. ASSUME NEW t \in Timer, delete_timer(t) PROVE IInv'
  <2>1. ~Shifting /\ pc \in {"io", "cb"} /\ t # te /\ te' = te
        /\ StartDelete(t, pc)
    BY <1>3 DEF delete_timer, InProgram, Shifting
  <2>2. te # NULL <=> pc = "cb"
    BY <2>1, NotShifting
  <2>3. pc \in {"io", "cb", "loop"}
    BY <2>1
  <2> QED BY <2>1, <2>2, <2>3, StartDeleteKeeps
<1>4. CASE ShiftUp
  BY <1>4, ShiftUpKeeps
<1>5. CASE ShiftDown
  BY <1>5, ShiftDownKeeps
<1>6. CASE PushDone
  BY <1>6, PushDoneKeeps
<1>7. CASE AdjustDone
  BY <1>7, AdjustDoneKeeps
<1>8. CASE DeleteDone
  BY <1>8, DeleteDoneKeeps
<1>9. CASE Poll
  <2>1. clock' \in Nat /\ clock <= clock'
    BY <1>0, <1>9, TimeAssumption DEF Poll
  <2> QED BY <1>9, <2>1, ControlKeeps DEF Poll, Shifting
<1>10. CASE Fire
  BY <1>0, <1>10, ControlKeeps DEF Fire
<1>11. CASE LoopExit
  BY <1>0, <1>11, ControlKeeps DEF LoopExit, Shifting
<1>12. CASE ProcessTimeEvents
  BY <1>0, <1>12, ControlKeeps DEF ProcessTimeEvents, Shifting
<1>13. CASE ReturnEnd
  <2>1. ~Shifting /\ StartDelete(te, "loop") /\ te' = NULL /\ te # NULL
    BY <1>13, NotShifting DEF ReturnEnd, Shifting
  <2> QED BY <1>0, <2>1, StartDeleteKeeps
<1>14. ASSUME NEW msec \in Delay, ReturnAgain(msec) PROVE IInv'
  BY <1>14, ReturnAgainKeeps
<1>15. CASE Tick
  BY <1>0, <1>15, ControlKeeps DEF Tick
<1>16. CASE UNCHANGED vars
  BY <1>0, <1>16, ControlKeeps DEF vars
<1> QED
  BY <1>1, <1>2, <1>3, <1>4, <1>5, <1>6, <1>7, <1>8, <1>9, <1>10, <1>11,
     <1>12, <1>13, <1>14, <1>15, <1>16
  DEF Next, Program, HeapStep, LoopStep, ReturnFromCallback

\* IInv holds in every state timer.c can reach, between the iterations of its
\* shift loops too.
THEOREM InductiveInvariant == Spec => []IInv
BY InitKeeps, NextKeeps, PTL DEF Spec

\* The variables keep their types.
THEOREM TypeCorrect == Spec => []TypeOK
<1>1. IInv => TypeOK
  BY DEF IInv
<1> QED BY <1>1, InductiveInvariant, PTL

\* Array and indices are inverse whenever no call is in progress.
THEOREM IndicesAreInverse == Spec => []IndexInverse
<1>1. IInv => IndexInverse
  <2> SUFFICES ASSUME IInv, ~Shifting PROVE IndexInverse
    BY DEF IndexInverse
  <2>1. NoCall /\ Slots = Filled
    BY NotShifting
  <2> QED BY <2>1, NullAssumption DEF IInv, IndexInv, IndexInverse, NoCall
<1> QED BY <1>1, InductiveInvariant, PTL

\* The array is a heap whenever no call is in progress.
THEOREM HeapIsOrdered == Spec => []HeapOrder
<1>1. IInv => HeapOrder
  <2> SUFFICES ASSUME IInv, ~Shifting, NEW i \in Slots \ {0}
               PROVE  when_msec[tes[Parent(i)]] <= when_msec[tes[i]]
    BY DEF HeapOrder
  <2>1. Slots = 0 .. now - 1 /\ Filled = 0 .. now - 1 /\ now \in Nat
    BY NotShifting
  <2>2. i \in Nat /\ i # 0
    BY <2>1
  <2>3. Parent(i) \in Filled
    BY <2>1, <2>2, ParentFacts
  <2> QED BY <2>1, <2>3 DEF IInv, OrderInv
<1> QED BY <1>1, InductiveInvariant, PTL

\* The timer whose callback runs is due, pending, and the earliest.
THEOREM EarliestTimerRuns == Spec => []EarliestRuns
<1>1. IInv => EarliestRuns
  <2> SUFFICES ASSUME IInv, te # NULL
               PROVE  /\ te \in Pending /\ when_msec[te] <= clock
                      /\ \A t \in Pending : when_msec[te] <= when_msec[t]
    BY DEF EarliestRuns
  <2>1. 0 \in Filled /\ tes[0] = te /\ when_msec[te] <= clock
        /\ te # moving /\ te # victim
    BY DEF IInv, CallbackInv
  <2>2. te \in Pending
    BY <2>1 DEF IInv, IndexInv, Pending
  <2>3. ASSUME NEW t \in Pending PROVE when_msec[te] <= when_msec[t]
    <3>1. t \in Timer /\ t # victim /\ (min_heap_idx[t] >= 0 \/ t = moving)
      BY DEF Pending
    <3>2. CASE t = moving
      <4>1. Shifting
        BY <3>1, <3>2, NullAssumption DEF IInv, ShiftInv, NoCall
      <4> QED BY <3>2, <4>1 DEF IInv, CallbackInv
    <3>3. CASE t # moving
      <4>1. min_heap_idx[t] \in Filled /\ tes[min_heap_idx[t]] = t
        BY <3>1, <3>3 DEF IInv, IndexInv
      <4> QED BY <2>1, <4>1, TopIsLeast
    <3> QED BY <3>2, <3>3
  <2> QED BY <2>1, <2>2, <2>3
<1> QED BY <1>1, InductiveInvariant, PTL

\* No timer is handed out twice, or used after it was freed.
THEOREM TimersAreNotAliased == Spec => []NoAliasing
<1>1. IInv => NoAliasing
  <2> SUFFICES ASSUME IInv PROVE NoAliasing
    OBVIOUS
  <2>1. Pending \subseteq live
    BY NullAssumption DEF IInv, MemoryInv, Pending
  <2>2. victim # NULL => min_heap_idx[victim] >= 0 /\ victim \in Timer
    BY DEF IInv, ShiftInv, NoCall, TypeOK
  <2>3. \A i \in 1 .. Len(free) :
          /\ free[i] \in live /\ free[i] \in Timer
          /\ min_heap_idx[free[i]] = -1 /\ free[i] # moving
    BY DEF IInv, MemoryInv, TypeOK
  <2>4. \A i \in 1 .. Len(free) : free[i] \in live \ (Pending \union {victim})
    BY <2>2, <2>3, NullAssumption DEF Pending
  <2> QED BY <2>1, <2>4 DEF NoAliasing, IInv, MemoryInv
<1> QED BY <1>1, InductiveInvariant, PTL

\* The free list holds at most maxsize timers.
THEOREM PoolIsBounded == Spec => []PoolBounded
<1>1. IInv => PoolBounded
  BY DEF IInv, MemoryInv
<1> QED BY <1>1, InductiveInvariant, PTL
-----------------------------------------------------------------------------
(* TimerHeap implements TimerService.                                      *)

\* A step that changes neither Pending nor the deadlines of its members does
\* not change the abstract deadlines.
LEMMA SameDeadlines ==
  ASSUME Pending' = Pending,
         \A t \in Pending : when_msec'[t] = when_msec[t]
  PROVE  [t \in Timer |-> IF t \in Pending THEN when_msec[t] ELSE NULL]'
           = [t \in Timer |-> IF t \in Pending THEN when_msec[t] ELSE NULL]
OBVIOUS

\* The abstract pending timers are the concrete ones.
LEMMA ServicePending ==
  ASSUME IInv
  PROVE  Service!Pending = Pending
<1>1. \A t \in Timer : when_msec[t] # NULL
  BY NullAssumption DEF IInv, TypeOK
<1> QED BY <1>1 DEF Service!Pending, Pending

\* The steps the user of the timers cannot see.
LEMMA HeapStepIsHidden ==
  ASSUME IInv, HeapStep
  PROVE  UNCHANGED Service!svars
<1>1. Shifting /\ moving \in Timer /\ min_heap_idx \in [Timer -> Nat \union {-1}]
      /\ hole \in Nat
  BY DEF HeapStep, ShiftUp, ShiftDown, PushDone, AdjustDone, DeleteDone, Settle,
         IInv, ShiftInv, Shifting, TypeOK
<1>2. UNCHANGED <<when_msec, clock, te>>
  BY DEF HeapStep, ShiftUp, ShiftDown, MoveHole, PushDone, AdjustDone,
         DeleteDone, Settle
<1>3. CASE ShiftUp \/ ShiftDown
  <2>1. PICK i \in Filled : MoveHole(i)
    <3>1. ASSUME ShiftUp PROVE Parent(hole) \in Filled
      <4>1. hole \in Slots /\ hole # 0 /\ Slots \subseteq Nat
            /\ \A m, n \in Nat : m \in Slots /\ n < m => n \in Slots
        BY <3>1 DEF ShiftUp, UpMoves, IInv, TypeOK, ShiftInv, Shifting, Slots
      <4>2. Parent(hole) \in Nat /\ Parent(hole) < hole
        BY <4>1, ParentFacts
      <4> QED BY <1>1, <4>1, <4>2 DEF Filled
    <3>2. ASSUME ShiftDown PROVE MinChild(hole) \in Filled
      BY <3>2, MinChildFacts DEF ShiftDown, DownMoves
    <3> QED BY <1>3, <3>1, <3>2 DEF ShiftUp, ShiftDown
  <2>2. /\ tes[i] \in Timer /\ min_heap_idx[tes[i]] = i
        /\ i \in Nat
    BY DEF IInv, IndexInv, Filled, Slots, TypeOK
  <2>3. \A t \in Timer : min_heap_idx'[t] >= 0 <=> min_heap_idx[t] >= 0
    BY <1>1, <2>1, <2>2 DEF MoveHole
  <2>4. UNCHANGED <<moving, victim>>
    BY <2>1 DEF MoveHole
  <2>5. Pending' = Pending
    BY <2>3, <2>4 DEF Pending
  <2> QED BY <1>2, <2>5, SameDeadlines DEF Service!svars
<1>4. CASE PushDone \/ AdjustDone \/ DeleteDone
  <2>1. moving' = NULL /\ victim' = NULL
    BY <1>4 DEF PushDone, AdjustDone, DeleteDone, Settle
  <2>2. victim # NULL => kind = "delete" /\ victim \in Timer
    BY <1>1 DEF IInv, ShiftInv, TypeOK
  <2>3. \A t \in Timer : min_heap_idx'[t] >= 0 <=>
          (min_heap_idx[t] >= 0 \/ t = moving) /\ t # victim
    <3>1. CASE kind = "delete"
      <4>1. victim \in Timer
            /\ min_heap_idx' = [[min_heap_idx EXCEPT ![moving] = hole]
                                  EXCEPT ![victim] = -1]
        BY <1>1, <1>4, <3>1 DEF PushDone, AdjustDone, DeleteDone, IInv, ShiftInv
      <4> QED BY <1>1, <4>1
    <3>2. CASE kind # "delete"
      <4>1. victim = NULL
            /\ min_heap_idx' = [min_heap_idx EXCEPT ![moving] = hole]
        BY <1>4, <2>2, <3>2 DEF PushDone, AdjustDone, DeleteDone
      <4> QED BY <1>1, <4>1, NullAssumption
    <3> QED BY <3>1, <3>2
  <2>4. Pending' = Pending
    BY <2>1, <2>3, NullAssumption DEF Pending
  <2> QED BY <1>2, <2>4, SameDeadlines DEF Service!svars
<1> QED BY <1>3, <1>4 DEF HeapStep

\* A call takes effect when its shift loop starts, a callback when it is
\* called and when it returns.
LEMMA StepImplements ==
  ASSUME IInv, [Next]_vars
  PROVE  [Service!Next]_(Service!svars)
<1> DEFINE dl == [t \in Timer |-> IF t \in Pending THEN when_msec[t] ELSE NULL]
<1>0. /\ when_msec \in [Timer -> Nat] /\ clock \in Nat
      /\ min_heap_idx \in [Timer -> Nat \union {-1}]
      /\ te \in Timer \union {NULL}
  BY DEF IInv, TypeOK
<1>1. ASSUME NEW t \in Timer, NEW msec \in Delay, create_timer(t, msec)
      PROVE  Service!Create(t, msec)
  <2>1. /\ ~Shifting /\ TakeTimer(t) /\ moving' = t /\ victim' = NULL
        /\ UNCHANGED <<clock, te>>
        /\ when_msec' = [when_msec EXCEPT ![t] = clock + msec]
        /\ min_heap_idx' = [min_heap_idx EXCEPT ![t] = -1]
    BY <1>1 DEF create_timer, InProgram, Shifting, Shift
  <2>2. moving = NULL /\ victim = NULL
    BY <2>1, NotShifting DEF NoCall
  <2>3. min_heap_idx[t] = -1
    BY <2>1, TakeTimerFacts
  <2>4. t \notin Pending /\ Pending' = Pending \union {t}
    BY <1>0, <2>1, <2>2, <2>3, NullAssumption DEF Pending
  <2>5. dl' = [dl EXCEPT ![t] = clock + msec]
    BY <1>0, <2>1, <2>4
  <2> QED BY <2>1, <2>4, <2>5, ServicePending DEF Service!Create
<1>2. ASSUME NEW t \in Timer, NEW msec \in Delay, CreateTimerNoMemory(t, msec)
      PROVE  UNCHANGED Service!svars
  <2>1. /\ ~Shifting /\ TakeTimer(t) /\ UNCHANGED <<clock, te, moving, victim>>
        /\ when_msec' = [when_msec EXCEPT ![t] = clock + msec]
        /\ min_heap_idx' = [min_heap_idx EXCEPT ![t] = -1]
    BY <1>2 DEF CreateTimerNoMemory, InProgram, Shifting, callVars
  <2>2. min_heap_idx[t] = -1 /\ t # moving
    BY <2>1, TakeTimerFacts
  <2>3. Pending' = Pending /\ t \notin Pending
    BY <1>0, <2>1, <2>2 DEF Pending
  <2>4. \A u \in Pending : when_msec'[u] = when_msec[u]
    BY <1>0, <2>1, <2>3 DEF Pending
  <2> QED BY <2>1, <2>3, <2>4, SameDeadlines DEF Service!svars
<1>3. ASSUME NEW t \in Timer, NEW ret, ~Shifting, StartDelete(t, ret)
      PROVE  t \in Pending /\ clock' = clock /\ dl' = [dl EXCEPT ![t] = NULL]
  <2>1. /\ min_heap_idx[t] >= 0 /\ victim' = t
        /\ moving' = tes[now - 1] /\ UNCHANGED <<min_heap_idx, when_msec, clock>>
    BY <1>3 DEF StartDelete, Shift
  <2>2. moving = NULL /\ victim = NULL
    BY <1>3, NotShifting DEF NoCall
  <2>3. tes[now - 1] \in Timer /\ min_heap_idx[tes[now - 1]] >= 0
    <3>1. min_heap_idx[t] \in Filled /\ Filled = 0 .. now - 1 /\ now \in Nat
      BY <1>3, <2>1, <2>2, NotShifting, NullAssumption DEF IInv, IndexInv
    <3>2. now - 1 \in Filled
      BY <3>1
    <3> QED BY <3>1, <3>2 DEF IInv, IndexInv
  <2>4. t \in Pending /\ Pending' = Pending \ {t}
    BY <2>1, <2>2, <2>3, NullAssumption DEF Pending
  <2> QED BY <2>1, <2>4
<1>4. ASSUME NEW t \in Timer, delete_timer(t) PROVE Service!Cancel(t)
  <2>1. ~Shifting /\ t # te /\ te' = te /\ StartDelete(t, pc)
    BY <1>4 DEF delete_timer, InProgram, Shifting
  <2> QED BY <1>3, <2>1, ServicePending DEF Service!Cancel
<1>5. CASE HeapStep
  BY <1>5, HeapStepIsHidden
<1>6. ASSUME Poll \/ Tick \/ LoopExit \/ ProcessTimeEvents
      PROVE  Service!Pass \/ UNCHANGED Service!svars
  <2>1. /\ UNCHANGED <<min_heap_idx, when_msec, moving, victim, te>>
        /\ clock' = clock \/ \E n \in clock .. MaxTime : clock' = n
    BY <1>0, <1>6, TimeAssumption
    DEF Poll, Tick, LoopExit, ProcessTimeEvents, heapVars, callVars
  <2>2. dl' = dl
    BY <2>1 DEF Pending
  <2> QED BY <2>1, <2>2 DEF Service!Pass, Service!svars
<1>7. CASE Fire
  <2>1. /\ ~Shifting /\ pc = "loop" /\ now > 0 /\ te' = tes[0]
        /\ clock >= when_msec[tes[0]]
        /\ UNCHANGED <<min_heap_idx, when_msec, moving, victim, clock>>
    BY <1>7 DEF Fire, Due, Shifting, heapVars, callVars
  <2>2. te = NULL /\ 0 \in Filled /\ moving = NULL /\ victim = NULL
    BY <2>1, NotShifting DEF NoCall
  <2>3. tes[0] \in Timer /\ min_heap_idx[tes[0]] = 0
    BY <2>2 DEF IInv, IndexInv
  <2>4. tes[0] \in Pending
    BY <2>2, <2>3, NullAssumption DEF Pending
  <2>5. ASSUME NEW u \in Pending PROVE when_msec[tes[0]] <= when_msec[u]
    <3>1. min_heap_idx[u] \in Filled /\ tes[min_heap_idx[u]] = u
      BY <2>2, NullAssumption DEF Pending, IInv, IndexInv
    <3> QED BY <2>2, <3>1, TopIsLeast
  <2>6. dl' = dl /\ \A u \in Pending : dl[u] = when_msec[u]
    BY <2>1 DEF Pending
  <2>7. dl[tes[0]] <= clock
    BY <1>0, <2>1, <2>3, <2>4, <2>6
  <2>8. Service!Fire(tes[0])
    BY <2>1, <2>2, <2>4, <2>5, <2>6, <2>7, ServicePending DEF Service!Fire
  <2> QED BY <2>3, <2>8 DEF Service!Next
<1>8. CASE ReturnEnd
  <2>1. ~Shifting /\ te # NULL /\ te' = NULL /\ StartDelete(te, "loop")
    BY <1>8, NotShifting DEF ReturnEnd, Shifting
  <2>2. Service!End
    BY <1>0, <1>3, <2>1 DEF Service!End
  <2> QED BY <2>2 DEF Service!Next
<1>9. ASSUME NEW msec \in Delay, ReturnAgain(msec) PROVE Service!Rearm(msec)
  <2>1. /\ ~Shifting /\ te # NULL /\ te' = NULL /\ moving' = te /\ victim' = NULL
        /\ when_msec' = [when_msec EXCEPT ![te] = clock + msec]
        /\ UNCHANGED <<min_heap_idx, clock>>
    BY <1>9, NotShifting DEF ReturnAgain, Shifting, Shift
  <2>2. moving = NULL /\ victim = NULL
    BY <2>1, NotShifting DEF NoCall
  <2>3. te \in Timer /\ min_heap_idx[te] >= 0
    BY <2>1 DEF IInv, CallbackInv, IndexInv
  <2>4. te \in Pending /\ Pending' = Pending
    BY <2>1, <2>2, <2>3, NullAssumption DEF Pending
  <2>5. dl' = [dl EXCEPT ![te] = clock + msec]
    BY <1>0, <2>1, <2>3, <2>4
  <2> QED BY <2>1, <2>5 DEF Service!Rearm
<1>10. CASE UNCHANGED vars
  <2>1. UNCHANGED <<min_heap_idx, when_msec, moving, victim, te, clock>>
    BY <1>10 DEF vars, heapVars, callVars
  <2>2. dl' = dl
    BY <2>1 DEF Pending
  <2> QED BY <2>1, <2>2 DEF Service!svars
<1> QED
  BY <1>1, <1>2, <1>4, <1>5, <1>6, <1>7, <1>8, <1>9, <1>10
  DEF Next, Program, LoopStep, ReturnFromCallback, Service!Next

\* timer.c implements the abstract timers of TimerService.
THEOREM TimerHeapImplementsService == Spec => ImplementsService
<1>1. Init => Service!Init
  <2> SUFFICES ASSUME Init PROVE Service!Init
    OBVIOUS
  <2>1. Pending = {}
    BY NullAssumption DEF Init, NoCall, Pending
  <2> QED BY <2>1 DEF Init, Service!Init
<1>2. IInv /\ [Next]_vars => [Service!Next]_(Service!svars)
  BY StepImplements
<1> QED
  BY <1>1, <1>2, InductiveInvariant, PTL
  DEF Spec, ImplementsService, Service!Spec

\* poller_poll never waits past the deadline of a pending timer.
THEOREM PollNeverOversleeps == Spec => NoOversleep
<1>1. IInv /\ [Next]_vars =>
        [pc = "poll" /\ pc' = "io" => \A t \in Pending :
           when_msec[t] <= clock \/ when_msec[t] >= clock']_vars
  <2> SUFFICES ASSUME IInv, [Next]_vars, pc = "poll", pc' = "io",
                      NEW t \in Pending
               PROVE  when_msec[t] <= clock \/ when_msec[t] >= clock'
    OBVIOUS
  <2>1. Poll
    BY DEF Next, Program, HeapStep, LoopStep, ReturnFromCallback, vars,
           create_timer, CreateTimerNoMemory, delete_timer, InProgram, ShiftUp,
           ShiftDown, PushDone, AdjustDone, DeleteDone, Settle, Fire, LoopExit,
           ProcessTimeEvents, ReturnEnd, ReturnAgain, Tick
  <2>2. ~Shifting
    BY DEF Shifting
  <2>3. moving = NULL /\ victim = NULL /\ Filled = 0 .. now - 1 /\ now \in Nat
    BY <2>2, NotShifting DEF NoCall
  <2>4. min_heap_idx[t] \in Filled /\ tes[min_heap_idx[t]] = t /\ t \in Timer
    BY <2>3, NullAssumption DEF Pending, IInv, IndexInv
  <2>5. 0 \in Filled /\ now # 0
    BY <2>3, <2>4
  <2>6. when_msec[tes[0]] <= when_msec[t]
    BY <2>4, <2>5, TopIsLeast
  <2>7. when_msec[tes[0]] \in Nat /\ when_msec[t] \in Nat /\ clock \in Nat
    BY <2>4, <2>5 DEF IInv, TypeOK, IndexInv
  <2>8. /\ clock' \in Int
        /\ get_shortest_msec >= 0 => clock' <= clock + get_shortest_msec
    BY <2>1, <2>7, TimeAssumption DEF Poll
  <2>9. /\ get_shortest_msec \in Nat
        /\ when_msec[tes[0]] - clock < 0 => get_shortest_msec = 0
        /\ when_msec[tes[0]] - clock >= 0 =>
             get_shortest_msec <= when_msec[tes[0]] - clock
    BY <2>5, <2>7, TimeAssumption DEF get_shortest_msec
  <2> QED BY <2>6, <2>7, <2>8, <2>9
<1> QED BY <1>1, InductiveInvariant, PTL DEF Spec, NoOversleep
=============================================================================
