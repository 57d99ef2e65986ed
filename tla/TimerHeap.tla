----------------------------- MODULE TimerHeap ------------------------------
(***************************************************************************)
(* kznet/timer.c: the min-heap of timers, the list of recycled timers and  *)
(* the loop of process_time_events, with the code that calls them.         *)
(*                                                                         *)
(* The event loop is one thread.  Control is in poller_poll ("poll"), in   *)
(* code of the program that may create and delete timers ("io": before the *)
(* loop and in I/O callbacks), at the head of the while loop of            *)
(* process_time_events ("loop"), in a timer callback ("cb"), or in         *)
(* _shift_up / _shift_down ("up", "down").  Every iteration of the two     *)
(* shift loops is one step: tes[hole] is then a stale entry and the timer  *)
(* `moving' is outside the array until the loop ends.                      *)
(***************************************************************************)
EXTENDS Integers, Sequences

CONSTANTS
  Timer,      \* the addresses malloc can return for a struct timer
  NULL,       \* the null pointer
  Delay,      \* the delays programs pass to create_timer and callbacks return
  InitAll,    \* slots that timer_heap_create allocates, 16 in the code
  MaxSize,    \* heap->maxsize, how many timers are kept rather than freed
  INT32_MAX,  \* the longest wait get_shortest_msec returns
  MaxTime     \* bound on the clock

ASSUME NullAssumption == NULL \notin Timer /\ NULL \notin Nat
ASSUME DelayAssumption == Delay \subseteq Nat \ {0}
ASSUME InitAllAssumption == InitAll \in Nat \ {0}
ASSUME MaxSizeAssumption == MaxSize \in Nat
ASSUME TimeAssumption == INT32_MAX \in Nat /\ MaxTime \in Nat

VARIABLES
  tes,          \* heap->tes, the array of timers
  now,          \* heap->now, how many slots of tes are in use
  all,          \* heap->all, how many slots tes has
  min_heap_idx, \* the slot of each timer, -1 when it is not in the heap
  when_msec,    \* the deadline of each timer
  free,         \* the recycled timers, from heap->head.next to heap->tail
  allocs,       \* heap->allocs
  live,         \* the timers malloc returned that were not freed
  leaked,       \* how many of them nothing refers to any more
  clock,        \* what get_now_time returns
  pc,           \* where control is
  te,           \* the timer whose callback is running, or NULL
  kind,         \* what the shift loop is part of: "push", "delete", "adjust"
  hole,         \* hole_index of the shift loop
  moving,       \* parameter t of the shift loop
  victim,       \* the timer delete_timer was called with, or NULL
  back          \* where control returns to after the shift loop

heapVars == <<tes, now, all, min_heap_idx, when_msec>>
poolVars == <<free, allocs, live, leaked>>
callVars == <<kind, hole, moving, victim, back>>
vars == <<heapVars, poolVars, callVars, clock, pc, te>>

Shifting == pc \in {"up", "down"}

NoCall ==
  kind = "none" /\ hole = 0 /\ moving = NULL /\ victim = NULL /\ back = "none"

Init ==
  /\ tes = [i \in 0 .. InitAll - 1 |-> NULL]
  /\ now = 0
  /\ all = InitAll
  /\ min_heap_idx = [t \in Timer |-> -1]
  /\ when_msec = [t \in Timer |-> 0]
  /\ free = <<>>
  /\ allocs = 0
  /\ live = {}
  /\ leaked = 0
  /\ clock = 0
  /\ pc = "io"
  /\ te = NULL
  /\ NoCall
-----------------------------------------------------------------------------
(* The heap.                                                               *)

\* (i - 1) / 2 of the code; the code evaluates it for i = 0 but never uses it.
Parent(i) == (i - 1) \div 2

_elem_greater(a, b) == when_msec[a] > when_msec[b]

\* The child _shift_down compares with: the right one unless it is missing
\* or later than the left one.
MinChild(h) ==
  LET right == 2 * (h + 1)
  IN  IF right = now \/ _elem_greater(tes[right], tes[right - 1])
        THEN right - 1
        ELSE right

UpMoves == hole # 0 /\ _elem_greater(tes[Parent(hole)], moving)

DownMoves ==
  2 * (hole + 1) <= now /\ _elem_greater(moving, tes[MinChild(hole)])

\* Mutant: the timer that moves keeps its old index.
MoveHoleOldIndex(i) ==
  /\ tes' = [tes EXCEPT ![hole] = tes[i]]
  /\ hole' = i
  /\ UNCHANGED <<now, all, min_heap_idx, when_msec, poolVars, kind, moving,
                 victim, back, clock, pc, te>>

\* One iteration of a shift loop: the timer in slot i moves into the hole.
MoveHole(i) ==
  /\ tes' = [tes EXCEPT ![hole] = tes[i]]
  /\ min_heap_idx' = [min_heap_idx EXCEPT ![tes[i]] = hole]
  /\ hole' = i
  /\ UNCHANGED <<now, all, when_msec, poolVars, kind, moving, victim, back,
                 clock, pc, te>>

ShiftUp == pc = "up" /\ UpMoves /\ MoveHole(Parent(hole))

ShiftDown == pc = "down" /\ DownMoves /\ MoveHole(MinChild(hole))

\* The shift loop ends: `moving' fills the hole, and control returns.
Settle ==
  /\ \/ pc = "up" /\ ~UpMoves
     \/ pc = "down" /\ ~DownMoves
  /\ tes' = [tes EXCEPT ![hole] = moving]
  /\ pc' = back
  /\ kind' = "none"
  /\ hole' = 0
  /\ moving' = NULL
  /\ victim' = NULL
  /\ back' = "none"
  /\ UNCHANGED <<all, when_msec, leaked, clock, te>>

\* Enter a shift loop, called with h and x, for the operation k.
Shift(dir, k, h, x, v, ret) ==
  /\ pc' = dir
  /\ kind' = k
  /\ hole' = h
  /\ moving' = x
  /\ victim' = v
  /\ back' = ret

\* The end of _heap_push: the new timer counts only now.
PushDone ==
  /\ kind = "push"
  /\ Settle
  /\ now' = now + 1
  /\ min_heap_idx' = [min_heap_idx EXCEPT ![moving] = hole]
  /\ UNCHANGED <<free, allocs, live>>

\* The end of _heap_adjust.
AdjustDone ==
  /\ kind = "adjust"
  /\ Settle
  /\ min_heap_idx' = [min_heap_idx EXCEPT ![moving] = hole]
  /\ UNCHANGED <<now, free, allocs, live>>

\* Mutant: heap->allocs-- is missing.
RecycleUncounted(t) ==
  IF allocs > MaxSize
    THEN /\ live' = live \ {t}
         /\ UNCHANGED <<allocs, free>>
    ELSE /\ free' = Append(free, t)
         /\ UNCHANGED <<allocs, live>>

\* Put a timer that left the heap on the free list, or free it.
Recycle(t) ==
  IF allocs > MaxSize
    THEN /\ live' = live \ {t}
         /\ allocs' = allocs - 1
         /\ UNCHANGED free
    ELSE /\ free' = Append(free, t)
         /\ UNCHANGED <<allocs, live>>

\* The end of _heap_delete and of delete_timer.
DeleteDone ==
  /\ kind = "delete"
  /\ Settle
  /\ min_heap_idx' = [[min_heap_idx EXCEPT ![moving] = hole]
                        EXCEPT ![victim] = -1]
  /\ Recycle(victim)
  /\ UNCHANGED now
-----------------------------------------------------------------------------
(* Calls of the program, and the loop of process_time_events.              *)

InProgram == pc \in {"io", "cb"}

\* Mutant: the recycled timer stays on the list.
TakeTimerKeepsListed(t) ==
  \/ /\ free # <<>>
     /\ t = Head(free)
     /\ UNCHANGED <<free, allocs, live>>
  \/ /\ free = <<>>
     /\ t \notin live
     /\ live' = live \union {t}
     /\ allocs' = allocs + 1
     /\ UNCHANGED free

\* create_timer takes the first recycled timer, or a new one from malloc.
\* (Where malloc fails it returns NULL and changes nothing.)
TakeTimer(t) ==
  \/ /\ free # <<>>
     /\ t = Head(free)
     /\ free' = Tail(free)
     /\ UNCHANGED <<allocs, live>>
  \/ /\ free = <<>>
     /\ t \notin live
     /\ live' = live \union {t}
     /\ allocs' = allocs + 1
     /\ UNCHANGED free

\* Mutant: the array grows one timer too late.
ReserveLate ==
  IF all < now
    THEN /\ all' = IF 2 * all < now + 1 THEN now + 1 ELSE 2 * all
         /\ tes' = [i \in 0 .. all' - 1 |-> IF i < all THEN tes[i] ELSE NULL]
    ELSE UNCHANGED <<all, tes>>

\* _heap_push: _reserve doubles the array when it is full.
Reserve ==
  IF all < now + 1
    THEN /\ all' = IF 2 * all < now + 1 THEN now + 1 ELSE 2 * all
         /\ tes' = [i \in 0 .. all' - 1 |-> IF i < all THEN tes[i] ELSE NULL]
    ELSE UNCHANGED <<all, tes>>

create_timer(t, msec) ==
  /\ InProgram
  /\ TakeTimer(t)
  /\ when_msec' = [when_msec EXCEPT ![t] = clock + msec]
  /\ min_heap_idx' = [min_heap_idx EXCEPT ![t] = -1]
  /\ Reserve
  /\ Shift("up", "push", now, t, NULL, pc)
  /\ UNCHANGED <<now, leaked, clock, te>>

\* realloc fails in _reserve: create_timer returns NULL and nothing refers
\* to the timer it had taken.
CreateTimerNoMemory(t, msec) ==
  /\ InProgram
  /\ all < now + 1
  /\ TakeTimer(t)
  /\ when_msec' = [when_msec EXCEPT ![t] = clock + msec]
  /\ min_heap_idx' = [min_heap_idx EXCEPT ![t] = -1]
  /\ leaked' = leaked + 1
  /\ UNCHANGED <<tes, now, all, callVars, clock, pc, te>>

\* t->next # NULL: t is on the free list and not its last timer.
HasNext(t) == \E i \in 1 .. Len(free) - 1 : free[i] = t

\* Mutant: the timer that fills the gap is only ever shifted down.
StartDeleteOnlyDown(t, ret) ==
  /\ min_heap_idx[t] >= 0
  /\ ~HasNext(t)
  /\ now' = now - 1
  /\ Shift("down", "delete", min_heap_idx[t], tes[now - 1], t, ret)
  /\ UNCHANGED <<tes, all, min_heap_idx, when_msec, poolVars, clock>>

\* delete_timer: the last timer of the array takes the place of t.  A timer
\* that is not in the heap is refused, which changes nothing.
StartDelete(t, ret) ==
  /\ min_heap_idx[t] >= 0
  /\ ~HasNext(t)
  /\ now' = now - 1
  /\ LET h    == min_heap_idx[t]
         last == tes[now - 1]
         up   == h > 0 /\ _elem_greater(tes[Parent(h)], last)
     IN  Shift(IF up THEN "up" ELSE "down", "delete", h, last, t, ret)
  /\ UNCHANGED <<tes, all, min_heap_idx, when_msec, poolVars, clock>>

\* The program may pass any timer whose memory is valid, recycled ones too;
\* a callback ends its own timer by what it returns, as demo.c does, and
\* does not delete it.
delete_timer(t) ==
  /\ InProgram
  /\ t \in live
  /\ t # te
  /\ StartDelete(t, pc)
  /\ UNCHANGED te

\* Mutant: without the cap a longer wait is negative as an int, so endless.
ShortestUncapped ==
  IF now = 0 THEN -1
  ELSE LET msec == when_msec[tes[0]] - clock
       IN  IF msec > INT32_MAX THEN -1
           ELSE IF msec < 0 THEN 0 ELSE msec

\* get_shortest_msec: how long poller_poll may wait, -1 for ever.
get_shortest_msec ==
  IF now = 0 THEN -1
  ELSE LET msec == when_msec[tes[0]] - clock
       IN  IF msec > INT32_MAX THEN INT32_MAX
           ELSE IF msec < 0 THEN 0 ELSE msec

\* poller_poll returns on an event, or when the time it was given is over.
Poll ==
  /\ pc = "poll"
  /\ \E until \in clock .. MaxTime :
       /\ get_shortest_msec >= 0 => until <= clock + get_shortest_msec
       /\ clock' = until
  /\ pc' = "io"
  /\ UNCHANGED <<heapVars, poolVars, callVars, te>>

\* The I/O callbacks are done and process_events calls process_time_events.
ProcessTimeEvents ==
  /\ pc = "io"
  /\ pc' = "loop"
  /\ UNCHANGED <<heapVars, poolVars, callVars, clock, te>>

\* Mutant: the clock is not looked at.
DueUnchecked == now > 0

Due == now > 0 /\ clock >= when_msec[tes[0]]

Fire ==
  /\ pc = "loop"
  /\ Due
  /\ te' = tes[0]
  /\ pc' = "cb"
  /\ UNCHANGED <<heapVars, poolVars, callVars, clock>>

LoopExit ==
  /\ pc = "loop"
  /\ ~Due
  /\ pc' = "poll"
  /\ UNCHANGED <<heapVars, poolVars, callVars, clock, te>>

\* The callback returns EV_TIMER_END.
ReturnEnd ==
  /\ pc = "cb"
  /\ StartDelete(te, "loop")
  /\ te' = NULL

\* Mutant: the deadline is not renewed.
ReturnAgainSameDeadline(msec) ==
  /\ pc = "cb"
  /\ Shift("down", "adjust", min_heap_idx[te], te, NULL, "loop")
  /\ te' = NULL
  /\ UNCHANGED <<tes, now, all, min_heap_idx, when_msec, poolVars, clock>>

\* The callback returns msec > 0: _heap_adjust moves its timer.
ReturnAgain(msec) ==
  /\ pc = "cb"
  /\ when_msec' = [when_msec EXCEPT ![te] = clock + msec]
  /\ LET h  == min_heap_idx[te]
         up == h > 0 /\ when_msec[tes[Parent(h)]] > clock + msec
     IN  Shift(IF up THEN "up" ELSE "down", "adjust", h, te, NULL, "loop")
  /\ te' = NULL
  /\ UNCHANGED <<tes, now, all, min_heap_idx, poolVars, clock>>

\* get_now_time with CLOCK_MONOTONIC, as the Makefile chooses for Linux: a
\* later reading is never smaller.  gettimeofday, which other builds use, can be
\* set back.
Tick ==
  /\ clock < MaxTime
  /\ clock' = clock + 1
  /\ UNCHANGED <<heapVars, poolVars, callVars, pc, te>>

Program ==
  \/ \E t \in Timer, msec \in Delay :
       create_timer(t, msec) \/ CreateTimerNoMemory(t, msec)
  \/ \E t \in Timer : delete_timer(t)

ReturnFromCallback == ReturnEnd \/ \E msec \in Delay : ReturnAgain(msec)

HeapStep == ShiftUp \/ ShiftDown \/ PushDone \/ AdjustDone \/ DeleteDone

LoopStep == Poll \/ Fire \/ LoopExit

Next ==
  \/ Program
  \/ HeapStep
  \/ LoopStep
  \/ ProcessTimeEvents
  \/ ReturnFromCallback
  \/ Tick

Spec == Init /\ [][Next]_vars

(***************************************************************************)
(* A callback calls the library finitely often and returns, so that        *)
(* process_time_events is called again and again (strong fairness: a call  *)
(* inside the callback disables its return for a while).  The thread never *)
(* stops between the steps of the library, poller_poll returns at the      *)
(* latest when the time it was given is over, and the clock advances.      *)
(***************************************************************************)
Fairness ==
  /\ WF_vars(HeapStep)
  /\ WF_vars(LoopStep)
  /\ WF_vars(Tick)
  /\ SF_vars(ProcessTimeEvents)
  /\ SF_vars(ReturnFromCallback)

FairSpec == Spec /\ Fairness
-----------------------------------------------------------------------------
(* Properties.                                                             *)

\* The slots of the heap, and those that hold their timer: the hole of a
\* shift loop does not.
Slots == 0 .. (IF Shifting /\ kind = "push" THEN now ELSE now - 1)
Filled == IF Shifting THEN Slots \ {hole} ELSE Slots

\* Pending: create_timer was called, and neither delete_timer nor a callback
\* that returned EV_TIMER_END.
Pending ==
  {t \in Timer : (min_heap_idx[t] >= 0 \/ t = moving) /\ t # victim}

\* Every variable has the type its declaration in timer.c gives it.
TypeOK ==
  /\ all \in Nat \ {0}
  /\ now \in 0 .. all
  /\ tes \in [0 .. all - 1 -> Timer \union {NULL}]
  /\ min_heap_idx \in [Timer -> Nat \union {-1}]
  /\ when_msec \in [Timer -> Nat]
  /\ free \in Seq(Timer)
  /\ allocs \in Nat
  /\ live \in SUBSET Timer
  /\ leaked \in Nat
  /\ clock \in Nat
  /\ pc \in {"poll", "io", "loop", "cb", "up", "down"}
  /\ te \in Timer \union {NULL}
  /\ kind \in {"none", "push", "delete", "adjust"}
  /\ hole \in Nat
  /\ moving \in Timer \union {NULL}
  /\ victim \in Timer \union {NULL}
  /\ back \in {"none", "io", "cb", "loop"}

\* What delete_timer relies on when it reads min_heap_idx: outside a call
\* the array and the indices kept in the timers are inverse to each other,
\* whatever the shift loops of earlier calls moved, so that no timer is
\* lost, doubled or found in the wrong slot.
IndexInverse ==
  ~Shifting =>
    /\ \A i \in Slots : tes[i] \in Timer /\ min_heap_idx[tes[i]] = i
    /\ \A t \in Timer : min_heap_idx[t] >= 0 =>
         min_heap_idx[t] \in Slots /\ tes[min_heap_idx[t]] = t

\* _heap_top is the minimum: outside a call no timer is earlier than the
\* one in its parent's slot.
HeapOrder ==
  ~Shifting =>
    \A i \in Slots \ {0} : when_msec[tes[Parent(i)]] <= when_msec[tes[i]]

\* process_time_events runs the callback of a timer that is due, pending and
\* no later than any other pending timer, and this stays so while the
\* callback creates and deletes other timers.
EarliestRuns ==
  te # NULL =>
    /\ te \in Pending
    /\ when_msec[te] <= clock
    /\ \A t \in Pending : when_msec[te] <= when_msec[t]

\* The memory create_timer hands out and delete_timer takes back: pending and
\* recycled timers were not freed, no recycled timer is pending, and none is
\* on the free list twice, so a timer is never given to two owners.
NoAliasing ==
  /\ Pending \subseteq live
  /\ \A i \in 1 .. Len(free) : free[i] \in live \ (Pending \union {victim})
  /\ \A i, j \in 1 .. Len(free) : free[i] = free[j] => i = j

\* heap->allocs counts the timers in the heap, on the free list, in the
\* hands of the call in progress and lost by a failed realloc, which is why
\* the test of allocs in delete_timer bounds the free list by maxsize.
PoolBounded ==
  /\ allocs = Len(free) + now + leaked
                + (IF kind \in {"push", "delete"} THEN 1 ELSE 0)
  /\ Len(free) <= MaxSize

\* poller_poll, called with get_shortest_msec, never sleeps through the
\* deadline of a pending timer: who was not due before is not overdue after.
NoOversleep ==
  [][pc = "poll" /\ pc' = "io" =>
       \A t \in Pending : when_msec[t] <= clock \/ when_msec[t] >= clock']_vars

\* The heap implements the abstract timers: a call takes effect when its
\* shift loop starts.
Service == INSTANCE TimerService WITH
  deadline <- [t \in Timer |-> IF t \in Pending THEN when_msec[t] ELSE NULL],
  running  <- te

\* Every step of timer.c is a step of TimerService, or one its user cannot
\* see: create, cancel, fire the earliest due timer, end or re-arm it.
ImplementsService == Service!Spec

\* A timer whose deadline the clock reaches is run, unless it is deleted: no
\* timer is starved by others that are re-armed again and again.
DueTimersRun ==
  \A t \in Timer :
    (t \in Pending /\ when_msec[t] <= MaxTime) ~> (te = t \/ t \notin Pending)
-----------------------------------------------------------------------------
(***************************************************************************)
(* The inductive invariant behind the theorems of TimerHeapProofs.         *)
(***************************************************************************)

\* IndexInverse during a shift loop: it holds but for the hole and for the
\* timers in the hands of the loop.
IndexInv ==
  /\ \A i \in Filled :
       /\ tes[i] \in Timer
       /\ min_heap_idx[tes[i]] = i
       /\ tes[i] # moving
       /\ tes[i] # victim
  /\ \A t \in Timer : min_heap_idx[t] >= 0 /\ t # moving /\ t # victim =>
       min_heap_idx[t] \in Filled /\ tes[min_heap_idx[t]] = t

\* The arguments of the call in progress.  Deleting the last timer of the
\* array calls _shift_down with the slot that has just been given up.
ShiftInv ==
  IF Shifting
    THEN /\ moving \in Timer
         /\ kind # "none"
         /\ back \in {"io", "cb", "loop"}
         /\ kind = "push" =>
              /\ pc = "up"
              /\ hole \in 0 .. now
              /\ now < all
              /\ min_heap_idx[moving] = -1
              /\ victim = NULL
              /\ back \in {"io", "cb"}
         /\ kind = "adjust" =>
              /\ hole \in 0 .. now - 1
              /\ min_heap_idx[moving] >= 0
              /\ victim = NULL
              /\ back = "loop"
         /\ kind = "delete" =>
              /\ victim \in Timer
              /\ min_heap_idx[victim] >= 0
              /\ min_heap_idx[moving] >= 0
              /\ now < all
              /\ IF moving = victim THEN hole = now /\ pc = "down"
                                    ELSE hole \in 0 .. now - 1
    ELSE NoCall

\* HeapOrder during a shift loop: it holds across the hole, and the loop has
\* one direction left to go.
OrderInv ==
  /\ \A i \in Filled \ {0} :
       Parent(i) \in Filled => when_msec[tes[Parent(i)]] <= when_msec[tes[i]]
  /\ Shifting =>
       \A i \in Filled \ {0} : Parent(i) = hole =>
         /\ hole > 0 => when_msec[tes[Parent(hole)]] <= when_msec[tes[i]]
         /\ pc = "up" => when_msec[moving] <= when_msec[tes[i]]
  /\ pc = "down" /\ hole \in Slots \ {0} =>
       when_msec[tes[Parent(hole)]] <= when_msec[moving]

\* The timer whose callback runs stays at the top of the heap: what the
\* callback creates is later, so no shift loop reaches slot 0.
CallbackInv ==
  /\ te # NULL <=> pc = "cb" \/ back = "cb"
  /\ te # NULL =>
       /\ 0 \in Filled
       /\ tes[0] = te
       /\ when_msec[te] <= clock
       /\ te \notin {moving, victim}
  /\ te # NULL /\ Shifting => when_msec[te] <= when_msec[moving]

\* NoAliasing in terms of min_heap_idx.
MemoryInv ==
  /\ \A t \in Timer : min_heap_idx[t] >= 0 => t \in live
  /\ moving # NULL => moving \in live
  /\ \A i \in 1 .. Len(free) :
       free[i] \in live /\ min_heap_idx[free[i]] = -1 /\ free[i] # moving
  /\ \A i, j \in 1 .. Len(free) : free[i] = free[j] => i = j
  /\ PoolBounded

\* What holds between any two steps of timer.c, the iterations of its shift
\* loops included, and implies the invariants above.
IInv == TypeOK /\ ShiftInv /\ IndexInv /\ OrderInv /\ CallbackInv /\ MemoryInv
=============================================================================
