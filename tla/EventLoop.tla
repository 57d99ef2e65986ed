----------------------------- MODULE EventLoop ------------------------------
(***************************************************************************)
(* kznet/event.c and kznet/poller.c: the table of events, the two pollers  *)
(* (epoll, and select where USE_EPOLL is not defined), and the loop that   *)
(* dispatches what a poll reported while callbacks change the table.       *)
(*                                                                         *)
(* The loop is one thread.  Code of the program runs before the loop       *)
(* starts ("idle"), in the read and write callbacks ("rcb", "wcb") and in  *)
(* the timer callbacks ("timers").  It may do there anything to any of its *)
(* file descriptors: open one, register it, deregister it, close it.  Like *)
(* demo.c it deregisters a descriptor before it closes it.  The kernel     *)
(* gives out the lowest free descriptor, so one closed in a callback is    *)
(* soon in use again.                                                      *)
(***************************************************************************)
EXTENDS Integers, FiniteSets, FiniteSetsExt

CONSTANTS
  Conn,      \* the connections of the program: the `data' of its callbacks
  NULL,      \* no connection
  setsize,   \* loop->setsize
  Masks,     \* the sets of events that the program registers
  UseEpoll,  \* whether USE_EPOLL is defined
  Timeouts,  \* what get_shortest_msec can return
  Arrivals   \* where control may be when a socket becomes ready

ASSUME ConnAssumption == NULL \notin Conn
ASSUME SizeAssumption == setsize \in Nat
ASSUME MasksAssumption == Masks \subseteq (SUBSET {"RDABLE", "WRABLE"}) \ {{}}
ASSUME BuildAssumption == UseEpoll \in BOOLEAN
ASSUME ArrivalsAssumption == "poll" \in Arrivals
ASSUME TimeoutsAssumption == Timeouts \subseteq Nat \union {-1}

Fd == 1 .. setsize    \* the last one does not fit into the table
Entry == 0 .. setsize - 1
Event == {"RDABLE", "WRABLE"}

VARIABLES
  owner,    \* the connection whose socket each descriptor is, or NULL
  ready,    \* what each socket is ready for
  hup,      \* the sockets with EPOLLHUP or EPOLLERR
  watched,  \* the descriptors in the epoll set
  interest, \* what epoll, or rfds and wfds, are asked for
  event,    \* loop->events[fd].event
  read,     \* loop->events[fd].read: whose callback it is
  write,    \* loop->events[fd].write
  data,     \* loop->events[fd].data
  maxfd,    \* loop->maxfd
  stop,     \* loop->stop
  actives,  \* the reported events that process_events has not looked at
  cur,      \* the reported event that is being dispatched
  pc        \* where control is

kernelVars == <<owner, ready, hup>>
pollerVars == <<watched, interest>>
tableVars == <<event, read, write, data, maxfd>>
loopVars == <<actives, cur, pc>>
vars == <<kernelVars, pollerVars, tableVars, loopVars, stop>>

Nothing == [fd |-> 0, event |-> {}, conn |-> NULL]

\* An empty epoll set, or empty fd_sets.
poller_create ==
  /\ watched = {}
  /\ interest = [fd \in Fd |-> {}]

Init ==
  /\ owner = [fd \in Fd |-> NULL]
  /\ ready = [fd \in Fd |-> {}]
  /\ hup = {}
  /\ poller_create
  /\ event = [fd \in Entry |-> {}]
  /\ read = [fd \in Entry |-> NULL]
  /\ write = [fd \in Entry |-> NULL]
  /\ data = [fd \in Entry |-> NULL]
  /\ maxfd = -1
  /\ stop = FALSE
  /\ actives = {}
  /\ cur = Nothing
  /\ pc = "idle"
-----------------------------------------------------------------------------
(* The kernel.                                                             *)

Open == {fd \in Fd : owner[fd] # NULL}

\* A socket becomes ready, or is hung up, which makes it ready for all.
BecomeReady(fd, e) ==
  /\ fd \in Open
  /\ e \notin ready[fd]
  /\ ready' = [ready EXCEPT ![fd] = @ \union {e}]
  /\ UNCHANGED <<owner, hup, pollerVars, tableVars, loopVars, stop>>

HangUp(fd) ==
  /\ fd \in Open \ hup
  /\ ready' = [ready EXCEPT ![fd] = Event]
  /\ hup' = hup \union {fd}
  /\ UNCHANGED <<owner, pollerVars, tableVars, loopVars, stop>>
-----------------------------------------------------------------------------
(* What the program does.                                                  *)

InProgram == pc \in {"idle", "rcb", "wcb", "timers"}

\* socket or accept returns the lowest free descriptor.
OpenSocket(fd, c) ==
  /\ InProgram
  /\ fd \notin Open
  /\ 1 .. fd - 1 \subseteq Open
  /\ \A f \in Fd : owner[f] # c
  /\ owner' = [owner EXCEPT ![fd] = c]
  /\ UNCHANGED <<ready, hup, pollerVars, tableVars, loopVars, stop>>

\* close takes a descriptor out of the epoll set; fd_sets keep it.
CloseSocket(fd) ==
  /\ InProgram
  /\ fd \in Open
  /\ fd \in Entry => event[fd] = {}
  /\ owner' = [owner EXCEPT ![fd] = NULL]
  /\ ready' = [ready EXCEPT ![fd] = {}]
  /\ hup' = hup \ {fd}
  /\ IF UseEpoll
       THEN /\ watched' = watched \ {fd}
            /\ interest' = [interest EXCEPT ![fd] = {}]
       ELSE UNCHANGED pollerVars
  /\ UNCHANGED <<tableVars, loopVars, stop>>

\* A callback reads until there is nothing left, or fills the send buffer.
Drain(fd, e) ==
  /\ InProgram
  /\ fd \in Open \ hup
  /\ e \in ready[fd]
  /\ ready' = [ready EXCEPT ![fd] = @ \ {e}]
  /\ UNCHANGED <<owner, hup, pollerVars, tableVars, loopVars, stop>>

event_loop_stop ==
  /\ InProgram
  /\ stop' = TRUE
  /\ UNCHANGED <<kernelVars, pollerVars, tableVars, loopVars>>
-----------------------------------------------------------------------------
(* poller_addevent and poller_delevent.  Where the kernel refuses, create_ *)
(* event and delete_event return -1 and change nothing.                    *)

\* Mutant: the events registered before are not passed on to epoll_ctl.
EpollAddForgets(fd, e) ==
  /\ event[fd] = {} <=> fd \notin watched
  /\ watched' = watched \union {fd}
  /\ interest' = [interest EXCEPT ![fd] = e]

\* EPOLL_CTL_ADD fails for a descriptor in the set, EPOLL_CTL_MOD for one
\* that is not.
epoll_addevent(fd, e) ==
  /\ event[fd] = {} <=> fd \notin watched
  /\ watched' = watched \union {fd}
  /\ interest' = [interest EXCEPT ![fd] = event[fd] \union e]

select_addevent(fd, e) ==
  /\ interest' = [interest EXCEPT ![fd] = @ \union e]
  /\ UNCHANGED watched

poller_addevent(fd, e) ==
  IF UseEpoll THEN epoll_addevent(fd, e) ELSE select_addevent(fd, e)

epoll_delevent(fd, e) ==
  LET nevent == event[fd] \ e
  IN  /\ fd \in watched
      /\ watched' = IF nevent = {} THEN watched \ {fd} ELSE watched
      /\ interest' = [interest EXCEPT ![fd] = nevent]

select_delevent(fd, e) ==
  /\ interest' = [interest EXCEPT ![fd] = @ \ e]
  /\ UNCHANGED watched

poller_delevent(fd, e) ==
  IF UseEpoll THEN epoll_delevent(fd, e) ELSE select_delevent(fd, e)

\* Mutant: ev->data = data is missing.
CreateEventKeepsData(fd, e) ==
  /\ InProgram
  /\ fd \in Open
  /\ fd >= 1 /\ fd < setsize
  /\ poller_addevent(fd, e)
  /\ event' = [event EXCEPT ![fd] = @ \union e]
  /\ read' = IF "RDABLE" \in e THEN [read EXCEPT ![fd] = owner[fd]] ELSE read
  /\ write' = IF "WRABLE" \in e THEN [write EXCEPT ![fd] = owner[fd]] ELSE write
  /\ maxfd' = IF fd > maxfd THEN fd ELSE maxfd
  /\ UNCHANGED <<kernelVars, data, loopVars, stop>>

\* Register the events e of an open socket, with its owner's callback.
create_event(fd, e) ==
  /\ InProgram
  /\ fd \in Open
  /\ fd >= 1 /\ fd < setsize
  /\ poller_addevent(fd, e)
  /\ event' = [event EXCEPT ![fd] = @ \union e]
  /\ read' = IF "RDABLE" \in e THEN [read EXCEPT ![fd] = owner[fd]] ELSE read
  /\ write' = IF "WRABLE" \in e THEN [write EXCEPT ![fd] = owner[fd]] ELSE write
  /\ data' = [data EXCEPT ![fd] = owner[fd]]
  /\ maxfd' = IF fd > maxfd THEN fd ELSE maxfd
  /\ UNCHANGED <<kernelVars, loopVars, stop>>

\* Mutant: the loop does not stop at a descriptor in use.
UpdateMaxFdTooFar(ev) == 0

\* The loop that looks for the new maxfd, from the table ev: it stops at a
\* descriptor in use, before it would assign it.
UpdateMaxFd(ev) ==
  LET used == {j \in 0 .. maxfd - 1 : ev[j] # {}}
  IN  IF used = {} THEN 0 ELSE Max(used) + 1

delete_event(fd, e) ==
  /\ InProgram
  /\ fd \in Open
  /\ fd < setsize
  /\ event[fd] # {}
  /\ poller_delevent(fd, e)
  /\ event' = [event EXCEPT ![fd] = @ \ e]
  /\ maxfd' = IF fd = maxfd /\ event[fd] \ e = {}
                THEN UpdateMaxFd(event')
                ELSE maxfd
  /\ UNCHANGED <<kernelVars, read, write, data, loopVars, stop>>
-----------------------------------------------------------------------------
(* poller_poll and process_events.                                         *)

\* What epoll_wait reports; EPOLLHUP and EPOLLERR need no interest, and
\* become EV_WRABLE.
EpollReports ==
  {[fd    |-> fd,
    event |-> (ready[fd] \intersect interest[fd])
                \union (IF fd \in hup THEN {"WRABLE"} ELSE {}),
    conn  |-> owner[fd]] :
      fd \in {f \in watched : ready[f] \intersect interest[f] # {} \/ f \in hup}}

\* select looks at the descriptors up to maxfd, and fails if one is closed.
Selected == {fd \in Fd : fd <= maxfd /\ interest[fd] # {}}

SelectWorks(timeout) == timeout # -1 /\ Selected \subseteq Open

\* If any is ready, every entry of the table in use is reported, ready or not.
SelectReports(timeout) ==
  IF SelectWorks(timeout)
       /\ \E fd \in Selected : ready[fd] \intersect interest[fd] # {}
    THEN {[fd    |-> fd,
           event |-> ready[fd] \intersect interest[fd] \intersect event[fd],
           conn  |-> owner[fd]] :
             fd \in {f \in Fd : f <= maxfd /\ f \in Entry /\ event[f] # {}}}
    ELSE {}

\* Where the poller would wait, the step waits for a socket to become ready,
\* or for a timer.  select refuses the timeout -1 and returns at once.
poller_poll(timeout) ==
  /\ actives' = IF UseEpoll THEN EpollReports ELSE SelectReports(timeout)
  /\ UseEpoll /\ timeout = -1 => actives' # {}

Poll ==
  /\ pc = "poll"
  /\ \E timeout \in Timeouts : poller_poll(timeout)
  /\ pc' = "batch"
  /\ UNCHANGED <<kernelVars, pollerVars, tableVars, cur, stop>>

\* Mutant: ev->event is not looked at again after the read callback.
CallsWriteUnchecked(a) == "WRABLE" \in a.event

\* The checks before the callbacks: ev->event may have been modified.
CallsRead(a) == "RDABLE" \in event[a.fd] \intersect a.event
CallsWrite(a) == "WRABLE" \in event[a.fd] \intersect a.event

\* Mutant: process_events leaves the loop after one entry.
DispatchOne(a) ==
  /\ pc = "batch"
  /\ UseEpoll \/ \A b \in actives : a.fd <= b.fd
  /\ actives' = {}
  /\ cur' = IF CallsRead(a) \/ CallsWrite(a) THEN a ELSE Nothing
  /\ pc' = IF CallsRead(a) THEN "rcb" ELSE IF CallsWrite(a) THEN "wcb" ELSE "batch"
  /\ UNCHANGED <<kernelVars, pollerVars, tableVars, stop>>

\* The next entry of loop->actives: epoll has no order, select goes upwards.
Dispatch(a) ==
  /\ pc = "batch"
  /\ UseEpoll \/ \A b \in actives : a.fd <= b.fd
  /\ actives' = actives \ {a}
  /\ cur' = IF CallsRead(a) \/ CallsWrite(a) THEN a ELSE Nothing
  /\ pc' = IF CallsRead(a) THEN "rcb" ELSE IF CallsWrite(a) THEN "wcb" ELSE "batch"
  /\ UNCHANGED <<kernelVars, pollerVars, tableVars, stop>>

\* A callback returns; after the read callback, the write callback follows
\* if the read callback left the event in place.
Return ==
  /\ pc \in {"rcb", "wcb"}
  /\ IF pc = "rcb" /\ CallsWrite(cur)
       THEN pc' = "wcb" /\ UNCHANGED cur
       ELSE pc' = "batch" /\ cur' = Nothing
  /\ UNCHANGED <<kernelVars, pollerVars, tableVars, actives, stop>>

ProcessTimeEvents ==
  /\ pc = "batch"
  /\ actives = {}
  /\ pc' = "timers"
  /\ UNCHANGED <<kernelVars, pollerVars, tableVars, actives, cur, stop>>

\* Mutant: loop->stop is reset inside the while loop.
TestStopResets ==
  /\ pc = "timers"
  /\ pc' = "poll"
  /\ stop' = FALSE
  /\ UNCHANGED <<kernelVars, pollerVars, tableVars, actives, cur>>

\* The timer callbacks are done, and event_loop_start tests loop->stop.
TestStop ==
  /\ pc = "timers"
  /\ pc' = IF stop THEN "idle" ELSE "poll"
  /\ UNCHANGED <<kernelVars, pollerVars, tableVars, actives, cur, stop>>

event_loop_start ==
  /\ pc = "idle"
  /\ stop' = FALSE
  /\ pc' = "poll"
  /\ UNCHANGED <<kernelVars, pollerVars, tableVars, actives, cur>>

\* Only poller_poll looks at what a socket is ready for, so a socket that
\* becomes ready earlier might as well become ready while the poll waits.
Kernel ==
  /\ pc \in Arrivals
  /\ \E fd \in Fd : HangUp(fd) \/ \E e \in UNION Masks : BecomeReady(fd, e)

Program ==
  \/ \E fd \in Fd :
       \/ \E c \in Conn : OpenSocket(fd, c)
       \/ CloseSocket(fd)
       \/ \E e \in Event : Drain(fd, e)
       \/ \E e \in Masks : create_event(fd, e) \/ delete_event(fd, e)
  \/ event_loop_stop

DispatchNext == \E a \in actives : Dispatch(a)

LoopStep == Poll \/ DispatchNext \/ Return \/ ProcessTimeEvents \/ TestStop

Next == Kernel \/ Program \/ LoopStep \/ event_loop_start

Spec == Init /\ [][Next]_vars

(***************************************************************************)
(* The thread does not stop between the steps of the loop, and callbacks   *)
(* call the library finitely often and return.                             *)
(***************************************************************************)
Fairness == WF_vars(LoopStep)

FairSpec == Spec /\ Fairness
-----------------------------------------------------------------------------
(* Properties.                                                             *)

Reports == [fd : Fd, event : SUBSET Event, conn : Conn \union {NULL}]

\* Every variable has the type its declaration gives it.
TypeOK ==
  /\ owner \in [Fd -> Conn \union {NULL}]
  /\ ready \in [Fd -> SUBSET Event]
  /\ hup \subseteq Fd
  /\ watched \subseteq Fd
  /\ interest \in [Fd -> SUBSET Event]
  /\ event \in [Entry -> SUBSET Event]
  /\ read \in [Entry -> Conn \union {NULL}]
  /\ write \in [Entry -> Conn \union {NULL}]
  /\ data \in [Entry -> Conn \union {NULL}]
  /\ maxfd \in -1 .. setsize - 1
  /\ stop \in BOOLEAN
  /\ actives \subseteq Reports
  /\ cur \in Reports \union {Nothing}
  /\ pc \in {"idle", "poll", "batch", "rcb", "wcb", "timers"}

\* What the poller is asked for is what the table says, through every
\* sequence of create_event, delete_event, close and reuse of a descriptor:
\* no registration is lost, none outlives its socket, and epoll_ctl is never
\* called with the wrong operation.
InterestMatchesTable ==
  \A fd \in Fd :
    IF fd \in Entry
      THEN /\ interest[fd] = event[fd]
           /\ UseEpoll => (fd \in watched <=> event[fd] # {})
           /\ event[fd] # {} => fd \in Open
      ELSE interest[fd] = {} /\ fd \notin watched

\* select(maxfd + 1, ...) looks at every descriptor in use: the loop that
\* lowers maxfd in delete_event never goes too far.
MaxFdCovers == \A fd \in Entry : event[fd] # {} => fd <= maxfd

\* A callback is called for an open socket that is registered for the event,
\* and both the callback and its data are the ones of the connection the
\* descriptor belongs to now, even if the descriptor was closed and reused
\* since the poll.
CalledFor(fd, e, cb) ==
  /\ fd \in Open
  /\ e \in event[fd]
  /\ cb[fd] = owner[fd]
  /\ data[fd] = owner[fd]

DispatchToOwner ==
  [][/\ pc # "rcb" /\ pc' = "rcb" => CalledFor(cur'.fd, "RDABLE", read)
     /\ pc # "wcb" /\ pc' = "wcb" => CalledFor(cur'.fd, "WRABLE", write)]_vars

\* The check of ev->event in process_events, whose comment says that it
\* looks for events that were modified, lets through only what the poll
\* reported about the connection the descriptor belongs to now.
FreshDispatch ==
  [][pc = "batch" /\ pc' \in {"rcb", "wcb"} => cur'.conn = owner[cur'.fd]]_vars

\* A registered socket that stays ready is served, whatever the callbacks of
\* other sockets do, or the loop is stopped.
ReadyServed ==
  \A fd \in Fd \intersect Entry :
    /\ (pc # "idle" /\ "RDABLE" \in event[fd] \intersect ready[fd]) ~>
         \/ pc = "rcb" /\ cur.fd = fd
         \/ "RDABLE" \notin event[fd] \intersect ready[fd]
         \/ pc = "idle"
    /\ (pc # "idle" /\ "WRABLE" \in event[fd] \intersect ready[fd]) ~>
         \/ pc = "wcb" /\ cur.fd = fd
         \/ "WRABLE" \notin event[fd] \intersect ready[fd]
         \/ pc = "idle"

\* event_loop_stop, called from a callback, ends the loop.
StopEnds == (stop /\ pc # "idle") ~> pc = "idle"
-----------------------------------------------------------------------------
(***************************************************************************)
(* The inductive invariant behind the theorems of NetworkProofs.           *)
(***************************************************************************)

\* Who is registered: the entries in use hold the callbacks and the data of
\* the connection the descriptor belongs to.
OwnedInv ==
  \A fd \in Fd \intersect Entry : event[fd] # {} =>
    /\ data[fd] = owner[fd]
    /\ "RDABLE" \in event[fd] => read[fd] = owner[fd]
    /\ "WRABLE" \in event[fd] => write[fd] = owner[fd]

\* What is reported lies in the table, and entry 0 is never used.
ReportsInv ==
  /\ \A a \in actives : a.fd \in Entry
  /\ pc \in {"rcb", "wcb"} => cur \in Reports /\ cur.fd \in Entry
  /\ 0 \in Entry => event[0] = {}

\* What holds between any two steps of the loop and of the callbacks.
IInv ==
  TypeOK /\ InterestMatchesTable /\ MaxFdCovers /\ OwnedInv /\ ReportsInv
=============================================================================
