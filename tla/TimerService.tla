---------------------------- MODULE TimerService ----------------------------
(***************************************************************************)
(* What the timers of kznet promise their user, without a heap: a timer    *)
(* has a deadline from create_timer until delete_timer or until its        *)
(* callback returns EV_TIMER_END, callbacks run one at a time, and the     *)
(* timer that runs is due and has the earliest deadline of all pending     *)
(* ones.  TimerHeap is shown to implement this specification.              *)
(***************************************************************************)
EXTENDS Integers

CONSTANTS
  Timer,    \* the timers a program can hold
  Delay,    \* the delays, in milliseconds, that programs ask for
  MaxTime,  \* bound on the clock
  NULL      \* no timer, no deadline

VARIABLES
  deadline, \* the deadline of every pending timer, NULL for the others
  running,  \* the timer whose callback is running, or NULL
  clock     \* the current time

svars == <<deadline, running, clock>>

Pending == {t \in Timer : deadline[t] # NULL}

Init ==
  /\ deadline = [t \in Timer |-> NULL]
  /\ running = NULL
  /\ clock = 0

Create(t, d) ==
  /\ t \notin Pending
  /\ deadline' = [deadline EXCEPT ![t] = clock + d]
  /\ UNCHANGED <<running, clock>>

Cancel(t) ==
  /\ t \in Pending
  /\ t # running
  /\ deadline' = [deadline EXCEPT ![t] = NULL]
  /\ UNCHANGED <<running, clock>>

Fire(t) ==
  /\ running = NULL
  /\ t \in Pending
  /\ deadline[t] <= clock
  /\ \A u \in Pending : deadline[t] <= deadline[u]
  /\ running' = t
  /\ UNCHANGED <<deadline, clock>>

End ==
  /\ running # NULL
  /\ deadline' = [deadline EXCEPT ![running] = NULL]
  /\ running' = NULL
  /\ UNCHANGED clock

Rearm(d) ==
  /\ running # NULL
  /\ deadline' = [deadline EXCEPT ![running] = clock + d]
  /\ running' = NULL
  /\ UNCHANGED clock

Pass ==
  /\ \E now \in clock .. MaxTime : clock' = now
  /\ UNCHANGED <<deadline, running>>

Next ==
  \/ \E t \in Timer, d \in Delay : Create(t, d)
  \/ \E t \in Timer : Cancel(t) \/ Fire(t)
  \/ End
  \/ \E d \in Delay : Rearm(d)
  \/ Pass

Spec == Init /\ [][Next]_svars
=============================================================================
