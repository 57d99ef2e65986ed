--------------------------- MODULE NetworkProofs ---------------------------
(***************************************************************************)
(* Proofs about the parts of kznet that talk to the kernel, for any        *)
(* connections, descriptors and addresses: EventLoop (the event loop and   *)
(* both pollers), and Socket behind it.                                    *)
(***************************************************************************)
EXTENDS EventLoop, Socket, InductionFacts

-----------------------------------------------------------------------------
(* event.c and poller.c: the table, what the poller is asked for, maxfd,   *)
(* and whose callback is called.                                           *)

LEMMA FdFacts ==
  /\ Fd \subseteq Nat \ {0}
  /\ Entry \subseteq Nat
  /\ \A fd \in Fd : fd < setsize => fd \in Entry
BY SizeAssumption DEF Fd, Entry

\* The loop of delete_event leaves maxfd at or above every descriptor in use
\* below the old one, and does not raise it.
LEMMA UpdateMaxFdFacts ==
  ASSUME maxfd \in Nat, NEW ev
  PROVE  /\ UpdateMaxFd(ev) \in 0 .. maxfd
         /\ \A j \in 0 .. maxfd - 1 : ev[j] # {} => j <= UpdateMaxFd(ev)
<1> DEFINE used == {j \in 0 .. maxfd - 1 : ev[j] # {}}
<1>1. CASE used = {}
  <2>1. UpdateMaxFd(ev) = 0
    BY <1>1 DEF UpdateMaxFd
  <2> QED BY <1>1, <2>1
<1>2. CASE used # {}
  <2>1. UpdateMaxFd(ev) = Max(used) + 1
    BY <1>2 DEF UpdateMaxFd
  <2>2. \E m \in used : \A n \in used : n <= m
    <3>1. used \in SUBSET (0 .. maxfd)
      OBVIOUS
    <3> HIDE DEF used
    <3> QED BY <1>2, <3>1, GreatestNat
  <2>3. \E m \in used : \A n \in used : m >= n
    BY <2>2
  <2>4. Max(used) \in used /\ \A n \in used : Max(used) >= n
    <3> HIDE DEF used
    <3> QED BY <2>3 DEF Max
  <2>5. Max(used) \in 0 .. maxfd - 1
    BY <2>4
  <2>6. \A j \in 0 .. maxfd - 1 : ev[j] # {} => j <= Max(used)
    BY <2>4, <2>5
  <2> HIDE DEF used
  <2> QED BY <2>1, <2>5, <2>6
<1> QED BY <1>1, <1>2

LEMMA EventFacts ==
  /\ UNION Masks \subseteq Event
  /\ \A e \in Masks : e \in SUBSET Event /\ e # {}
BY MasksAssumption DEF Event

LEMMA InitKeeps == Init => IInv
<1> SUFFICES ASSUME Init PROVE IInv
  OBVIOUS
<1>1. TypeOK
  <2>1. maxfd \in -1 .. setsize - 1
    BY SizeAssumption DEF Init, poller_create
  <2>2. /\ owner \in [Fd -> Conn \union {NULL}]
        /\ ready \in [Fd -> SUBSET Event]
        /\ interest \in [Fd -> SUBSET Event]
        /\ event \in [Entry -> SUBSET Event]
        /\ read \in [Entry -> Conn \union {NULL}]
        /\ write \in [Entry -> Conn \union {NULL}]
        /\ data \in [Entry -> Conn \union {NULL}]
    BY DEF Init, poller_create
  <2> QED BY <2>1, <2>2 DEF Init, poller_create, TypeOK
<1>2. InterestMatchesTable /\ MaxFdCovers /\ OwnedInv /\ ReportsInv
  BY FdFacts
  DEF Init, poller_create, InterestMatchesTable, MaxFdCovers, OwnedInv, ReportsInv
<1> QED BY <1>1, <1>2 DEF IInv

\* Steps that leave the table, the poller and the owners alone.
LEMMA SameTable ==
  ASSUME IInv, UNCHANGED <<owner, pollerVars, tableVars>>, TypeOK', ReportsInv'
  PROVE  IInv'
BY DEF IInv, pollerVars, tableVars, InterestMatchesTable, MaxFdCovers, OwnedInv,
       Open

LEMMA KernelKeeps ==
  ASSUME IInv, Kernel
  PROVE  IInv'
<1>1. PICK fd \in Fd : HangUp(fd) \/ \E e \in UNION Masks : BecomeReady(fd, e)
  BY DEF Kernel
<1>2. UNCHANGED <<owner, pollerVars, tableVars, loopVars, stop>>
      /\ ready' \in [Fd -> SUBSET Event] /\ hup' \subseteq Fd
  BY <1>1, EventFacts DEF HangUp, BecomeReady, IInv, TypeOK
<1>3. TypeOK' /\ ReportsInv'
  BY <1>2 DEF IInv, TypeOK, ReportsInv, pollerVars, tableVars, loopVars
<1> QED BY <1>2, <1>3, SameTable

LEMMA DrainAndStopKeep ==
  ASSUME IInv, event_loop_stop \/ \E fd \in Fd, e \in Event : Drain(fd, e)
  PROVE  IInv'
<1>1. UNCHANGED <<owner, hup, pollerVars, tableVars, loopVars>>
      /\ ready' \in [Fd -> SUBSET Event] /\ stop' \in BOOLEAN
  BY DEF event_loop_stop, Drain, IInv, TypeOK, kernelVars
<1>2. TypeOK' /\ ReportsInv'
  BY <1>1 DEF IInv, TypeOK, ReportsInv, pollerVars, tableVars, loopVars
<1> QED BY <1>1, <1>2, SameTable

LEMMA OpenKeeps ==
  ASSUME IInv, NEW fd \in Fd, NEW c \in Conn, OpenSocket(fd, c)
  PROVE  IInv'
<1>1. /\ UNCHANGED <<ready, hup, watched, interest, stop>>
      /\ UNCHANGED <<event, read, write, data, maxfd, actives, cur, pc>>
      /\ owner' = [owner EXCEPT ![fd] = c]
      /\ owner[fd] = NULL
  BY DEF OpenSocket, pollerVars, tableVars, loopVars, Open
<1>2. TypeOK'
  BY <1>1 DEF IInv, TypeOK
<1>3. \A f \in Fd : f \in Open => f \in Open' /\ owner'[f] = owner[f]
  BY <1>1, ConnAssumption DEF Open, IInv, TypeOK
<1>4. fd \in Entry => event[fd] = {}
  BY <1>1 DEF IInv, InterestMatchesTable, Open
<1>5. InterestMatchesTable' /\ MaxFdCovers' /\ ReportsInv'
  BY <1>1, <1>3 DEF IInv, InterestMatchesTable, MaxFdCovers, ReportsInv
<1>6. OwnedInv'
  BY <1>1, <1>3 DEF IInv, OwnedInv, InterestMatchesTable
<1> QED BY <1>2, <1>5, <1>6 DEF IInv

LEMMA CloseKeeps ==
  ASSUME IInv, NEW fd \in Fd, CloseSocket(fd)
  PROVE  IInv'
<1>1. /\ UNCHANGED <<stop, event, read, write, data, maxfd, actives, cur, pc>>
      /\ owner' = [owner EXCEPT ![fd] = NULL]
      /\ ready' = [ready EXCEPT ![fd] = {}]
      /\ hup' = hup \ {fd}
      /\ fd \in Entry => event[fd] = {}
  BY DEF CloseSocket, tableVars, loopVars
<1>2. interest[fd] = {} /\ interest \in [Fd -> SUBSET Event]
  BY <1>1 DEF IInv, InterestMatchesTable, TypeOK
<1>3. interest' = interest
  BY <1>2 DEF CloseSocket, pollerVars
<1>4. /\ UseEpoll => watched' = watched \ {fd}
      /\ watched' \subseteq watched
  BY DEF CloseSocket, pollerVars
<1>5. TypeOK'
  BY <1>1, <1>3, <1>4 DEF IInv, TypeOK
<1>6. \A f \in Fd \ {fd} : owner'[f] = owner[f] /\ (f \in Open' <=> f \in Open)
  BY <1>1 DEF Open, IInv, TypeOK
<1>7. InterestMatchesTable' /\ MaxFdCovers' /\ ReportsInv'
  BY <1>1, <1>3, <1>4, <1>6
  DEF IInv, InterestMatchesTable, MaxFdCovers, ReportsInv
<1>8. OwnedInv'
  BY <1>1, <1>6 DEF IInv, OwnedInv
<1> QED BY <1>5, <1>7, <1>8 DEF IInv

LEMMA CreateKeeps ==
  ASSUME IInv, NEW fd \in Fd, NEW e \in Masks, create_event(fd, e)
  PROVE  IInv'
<1>1. /\ UNCHANGED <<owner, ready, hup, actives, cur, pc, stop>>
      /\ fd \in Open /\ fd \in Entry /\ fd \in Nat \ {0} /\ fd < setsize
      /\ event' = [event EXCEPT ![fd] = @ \union e]
      /\ data' = [data EXCEPT ![fd] = owner[fd]]
      /\ maxfd' = IF fd > maxfd THEN fd ELSE maxfd
  BY FdFacts DEF create_event, kernelVars, loopVars
<1>2. /\ read' = IF "RDABLE" \in e THEN [read EXCEPT ![fd] = owner[fd]] ELSE read
      /\ write' = IF "WRABLE" \in e THEN [write EXCEPT ![fd] = owner[fd]]
                                    ELSE write
  BY DEF create_event
<1>3. e \in SUBSET Event /\ e # {}
  BY EventFacts
<1>4. interest[fd] = event[fd]
  BY <1>1 DEF IInv, InterestMatchesTable
<1>5. /\ interest' = [interest EXCEPT ![fd] = event[fd] \union e]
      /\ UseEpoll => watched' = watched \union {fd}
      /\ ~UseEpoll => watched' = watched
  BY <1>4, BuildAssumption
    DEF create_event, poller_addevent, epoll_addevent, select_addevent
<1>6. TypeOK'
  <2>1. maxfd' \in -1 .. setsize - 1
    BY <1>1, SizeAssumption DEF IInv, TypeOK
  <2>2. watched' \subseteq Fd
    BY <1>5, BuildAssumption DEF IInv, TypeOK
  <2>3. /\ read' \in [Entry -> Conn \union {NULL}]
        /\ write' \in [Entry -> Conn \union {NULL}]
        /\ data' \in [Entry -> Conn \union {NULL}]
        /\ event' \in [Entry -> SUBSET Event]
        /\ interest' \in [Fd -> SUBSET Event]
    BY <1>1, <1>2, <1>3, <1>5 DEF IInv, TypeOK
  <2> QED BY <1>1, <2>1, <2>2, <2>3 DEF IInv, TypeOK
<1>7. \A f \in Entry : event'[f] = IF f = fd THEN event[fd] \union e ELSE event[f]
  BY <1>1 DEF IInv, TypeOK
<1>8. \A f \in Fd : interest'[f] = IF f = fd THEN event[fd] \union e
                                             ELSE interest[f]
  BY <1>5 DEF IInv, TypeOK
<1>9. InterestMatchesTable'
  <2> SUFFICES ASSUME NEW f \in Fd
               PROVE  IF f \in Entry
                        THEN /\ interest'[f] = event'[f]
                             /\ UseEpoll => (f \in watched' <=> event'[f] # {})
                             /\ event'[f] # {} => f \in Open'
                        ELSE interest'[f] = {} /\ f \notin watched'
    BY DEF InterestMatchesTable
  <2>1. Open' = Open
    BY <1>1 DEF Open
  <2>2. CASE f = fd
    <3>1. event[fd] \union e # {}
      BY <1>3
    <3>2. /\ interest'[f] = event'[f] /\ event'[f] # {} /\ f \in Open'
          /\ f \in Entry
      BY <1>1, <1>7, <1>8, <2>1, <2>2, <3>1
    <3> QED BY <1>5, <2>2, <3>2
  <2>3. CASE f # fd
    BY <1>5, <1>7, <1>8, <2>1, <2>3, BuildAssumption
    DEF IInv, InterestMatchesTable
  <2> QED BY <2>2, <2>3
<1>10. MaxFdCovers'
  <2>1. maxfd \in Int /\ Entry \subseteq Int
    BY FdFacts DEF IInv, TypeOK
  <2> QED BY <1>1, <1>7, <2>1 DEF IInv, MaxFdCovers
<1>11. OwnedInv'
  <2> SUFFICES ASSUME NEW f \in Fd \intersect Entry, event'[f] # {}
               PROVE  /\ data'[f] = owner[f]
                      /\ "RDABLE" \in event'[f] => read'[f] = owner[f]
                      /\ "WRABLE" \in event'[f] => write'[f] = owner[f]
    BY <1>1 DEF OwnedInv
  <2>1. CASE f = fd
    <3>1. data'[f] = owner[f]
      BY <1>1, <2>1 DEF IInv, TypeOK
    <3>2. "RDABLE" \in event'[f] => read'[f] = owner[f]
      BY <1>1, <1>2, <1>7, <2>1 DEF IInv, TypeOK, OwnedInv
    <3>3. "WRABLE" \in event'[f] => write'[f] = owner[f]
      BY <1>1, <1>2, <1>7, <2>1 DEF IInv, TypeOK, OwnedInv
    <3> QED BY <3>1, <3>2, <3>3
  <2>2. CASE f # fd
    BY <1>1, <1>2, <1>7, <2>2 DEF IInv, TypeOK, OwnedInv
  <2> QED BY <2>1, <2>2
<1>12. ReportsInv'
  BY <1>1, <1>7 DEF IInv, ReportsInv
<1> QED BY <1>6, <1>9, <1>10, <1>11, <1>12 DEF IInv

LEMMA DeleteKeeps ==
  ASSUME IInv, NEW fd \in Fd, NEW e \in Masks, delete_event(fd, e)
  PROVE  IInv'
<1>1. /\ UNCHANGED <<owner, ready, hup, read, write, data, actives, cur, pc, stop>>
      /\ fd \in Open /\ fd \in Entry /\ fd \in Nat \ {0} /\ fd < setsize
      /\ event' = [event EXCEPT ![fd] = @ \ e]
      /\ maxfd' = IF fd = maxfd /\ event[fd] \ e = {}
                    THEN UpdateMaxFd(event') ELSE maxfd
  BY FdFacts DEF delete_event, kernelVars, loopVars
<1>2. interest[fd] = event[fd]
  BY <1>1 DEF IInv, InterestMatchesTable
<1>3. /\ interest' = [interest EXCEPT ![fd] = event[fd] \ e]
      /\ UseEpoll => /\ fd \in watched
                     /\ watched' = IF event[fd] \ e = {} THEN watched \ {fd}
                                                         ELSE watched
      /\ ~UseEpoll => watched' = watched
  BY <1>2, BuildAssumption
    DEF delete_event, poller_delevent, epoll_delevent, select_delevent
<1>4. \A f \in Entry : event'[f] = IF f = fd THEN event[fd] \ e ELSE event[f]
  BY <1>1 DEF IInv, TypeOK
<1>5. maxfd \in Int /\ maxfd >= -1 /\ maxfd < setsize
  BY SizeAssumption DEF IInv, TypeOK
<1>6. /\ maxfd' \in -1 .. setsize - 1
      /\ \A f \in Entry : event'[f] # {} => f <= maxfd'
  <2>1. CASE fd = maxfd /\ event[fd] \ e = {}
    <3>1. maxfd \in Nat /\ maxfd' = UpdateMaxFd(event')
      BY <1>1, <2>1
    <3>2. /\ maxfd' \in 0 .. maxfd
          /\ \A j \in 0 .. maxfd - 1 : event'[j] # {} => j <= maxfd'
      BY <3>1, UpdateMaxFdFacts
    <3>3. \A f \in Entry : event'[f] # {} => f \in 0 .. maxfd - 1
      <4> SUFFICES ASSUME NEW f \in Entry, event'[f] # {}
                   PROVE  f \in 0 .. maxfd - 1
        OBVIOUS
      <4>1. f # maxfd /\ event[f] # {} /\ f \in Nat
        BY <1>4, <2>1, FdFacts
      <4>2. f <= maxfd
        BY <4>1 DEF IInv, MaxFdCovers
      <4> QED BY <3>1, <4>1, <4>2
    <3> QED BY <1>5, <3>1, <3>2, <3>3, SizeAssumption
  <2>2. CASE ~ (fd = maxfd /\ event[fd] \ e = {})
    <3>1. maxfd' = maxfd
      BY <1>1, <2>2
    <3>2. \A f \in Entry : event'[f] # {} => event[f] # {}
      BY <1>4
    <3> QED BY <1>5, <3>1, <3>2, SizeAssumption DEF IInv, MaxFdCovers, TypeOK
  <2> QED BY <2>1, <2>2
<1>7. TypeOK'
  <2>1. watched' \subseteq Fd
    BY <1>3, BuildAssumption DEF IInv, TypeOK
  <2>2. event' \in [Entry -> SUBSET Event] /\ interest' \in [Fd -> SUBSET Event]
    BY <1>1, <1>3 DEF IInv, TypeOK
  <2> QED BY <1>1, <1>6, <2>1, <2>2 DEF IInv, TypeOK
<1>8. \A f \in Fd : interest'[f] = IF f = fd THEN event[fd] \ e ELSE interest[f]
  BY <1>3 DEF IInv, TypeOK
<1>9. InterestMatchesTable'
  <2> SUFFICES ASSUME NEW f \in Fd
               PROVE  IF f \in Entry
                        THEN /\ interest'[f] = event'[f]
                             /\ UseEpoll => (f \in watched' <=> event'[f] # {})
                             /\ event'[f] # {} => f \in Open'
                        ELSE interest'[f] = {} /\ f \notin watched'
    BY DEF InterestMatchesTable
  <2>1. Open' = Open
    BY <1>1 DEF Open
  <2>2. CASE f = fd
    BY <1>1, <1>3, <1>4, <1>8, <2>1, <2>2
  <2>3. CASE f # fd
    BY <1>3, <1>4, <1>8, <2>1, <2>3, BuildAssumption
    DEF IInv, InterestMatchesTable
  <2> QED BY <2>2, <2>3
<1>10. OwnedInv'
  <2>1. \A f \in Entry : event'[f] \subseteq event[f]
    BY <1>4
  <2> SUFFICES ASSUME NEW f \in Fd \intersect Entry, event'[f] # {}
               PROVE  /\ data[f] = owner[f]
                      /\ "RDABLE" \in event'[f] => read[f] = owner[f]
                      /\ "WRABLE" \in event'[f] => write[f] = owner[f]
    BY <1>1 DEF OwnedInv
  <2>2. event[f] # {}
    BY <2>1
  <2> QED BY <2>1, <2>2 DEF IInv, OwnedInv
<1>11. ReportsInv'
  BY <1>1, <1>4 DEF IInv, ReportsInv
<1> QED BY <1>6, <1>7, <1>9, <1>10, <1>11 DEF IInv, MaxFdCovers

\* What a poll reports lies in the table.
LEMMA ReportFacts ==
  ASSUME IInv, NEW timeout
  PROVE  /\ EpollReports \subseteq Reports
         /\ SelectReports(timeout) \subseteq Reports
         /\ UseEpoll => \A a \in EpollReports : a.fd \in Entry
         /\ \A a \in SelectReports(timeout) : a.fd \in Entry
<1>1. /\ \A fd \in Fd : /\ ready[fd] \subseteq Event
                        /\ interest[fd] \subseteq Event
                        /\ owner[fd] \in Conn \union {NULL}
      /\ watched \subseteq Fd
  BY DEF IInv, TypeOK
<1>2. "WRABLE" \in Event
  BY DEF Event
<1>3. ASSUME NEW a \in EpollReports
      PROVE  a \in Reports /\ (UseEpoll => a.fd \in Entry)
  <2>1. PICK fd \in watched :
          a = [fd    |-> fd,
               event |-> (ready[fd] \intersect interest[fd])
                           \union (IF fd \in hup THEN {"WRABLE"} ELSE {}),
               conn  |-> owner[fd]]
    BY <1>3 DEF EpollReports
  <2>2. fd \in Fd /\ (UseEpoll => fd \in Entry)
    BY <1>1 DEF IInv, InterestMatchesTable
  <2>3. (ready[fd] \intersect interest[fd])
          \union (IF fd \in hup THEN {"WRABLE"} ELSE {}) \in SUBSET Event
    BY <1>1, <1>2, <2>2
  <2> QED BY <1>1, <2>1, <2>2, <2>3 DEF Reports
<1>4. ASSUME NEW a \in SelectReports(timeout)
      PROVE  a \in Reports /\ a.fd \in Entry
  <2>1. a \in {[fd    |-> fd,
                event |-> ready[fd] \intersect interest[fd] \intersect event[fd],
                conn  |-> owner[fd]] :
                  fd \in {f \in Fd : f <= maxfd /\ f \in Entry /\ event[f] # {}}}
    BY <1>4 DEF SelectReports
  <2>2. PICK fd \in Fd :
          /\ fd \in Entry
          /\ a = [fd    |-> fd,
                  event |-> ready[fd] \intersect interest[fd]
                              \intersect event[fd],
                  conn  |-> owner[fd]]
    BY <2>1
  <2>3. ready[fd] \intersect interest[fd] \intersect event[fd] \in SUBSET Event
    BY <1>1
  <2> QED BY <1>1, <2>2, <2>3 DEF Reports
<1> QED BY <1>3, <1>4

LEMMA LoopKeeps ==
  ASSUME IInv, LoopStep \/ event_loop_start
  PROVE  IInv'
<1>1. /\ UNCHANGED <<owner, ready, hup, watched, interest>>
      /\ UNCHANGED <<event, read, write, data, maxfd>>
      /\ stop' \in BOOLEAN
  <2>1. stop \in BOOLEAN
    BY DEF IInv, TypeOK
  <2> QED BY <2>1 DEF LoopStep, Poll, DispatchNext, Dispatch, Return,
             ProcessTimeEvents, TestStop, event_loop_start, kernelVars,
             pollerVars, tableVars
<1> SUFFICES /\ actives' \subseteq Reports /\ cur' \in Reports \union {Nothing}
             /\ pc' \in {"idle", "poll", "batch", "rcb", "wcb", "timers"}
             /\ \A a \in actives' : a.fd \in Entry
             /\ pc' \in {"rcb", "wcb"} => cur' \in Reports /\ cur'.fd \in Entry
  <2>1. TypeOK'
    BY <1>1 DEF IInv, TypeOK
  <2>2. ReportsInv'
    BY <1>1 DEF IInv, ReportsInv
  <2> QED BY <1>1, <2>1, <2>2, SameTable DEF pollerVars, tableVars
<1>2. /\ actives \subseteq Reports /\ cur \in Reports \union {Nothing}
      /\ \A a \in actives : a.fd \in Entry
      /\ pc \in {"rcb", "wcb"} => cur \in Reports /\ cur.fd \in Entry
  BY DEF IInv, TypeOK, ReportsInv
<1>3. CASE Poll
  <2>1. PICK timeout \in Timeouts : poller_poll(timeout)
    BY <1>3 DEF Poll
  <2>2. actives' \subseteq Reports /\ \A a \in actives' : a.fd \in Entry
    BY <2>1, ReportFacts, BuildAssumption DEF poller_poll
  <2> QED BY <1>2, <1>3, <2>2 DEF Poll
<1>4. ASSUME NEW a \in actives, Dispatch(a)
      PROVE  /\ actives' \subseteq Reports /\ cur' \in Reports \union {Nothing}
             /\ pc' \in {"idle", "poll", "batch", "rcb", "wcb", "timers"}
             /\ \A b \in actives' : b.fd \in Entry
             /\ pc' \in {"rcb", "wcb"} => cur' \in Reports /\ cur'.fd \in Entry
  BY <1>2, <1>4 DEF Dispatch
<1>5. CASE Return
  BY <1>2, <1>5 DEF Return
<1>6. CASE ProcessTimeEvents \/ TestStop \/ event_loop_start
  BY <1>2, <1>6 DEF ProcessTimeEvents, TestStop, event_loop_start
<1> QED BY <1>3, <1>4, <1>5, <1>6 DEF LoopStep, DispatchNext

LEMMA NextKeeps == IInv /\ [Next]_vars => IInv'
<1> SUFFICES ASSUME IInv, [Next]_vars PROVE IInv'
  OBVIOUS
<1>1. CASE Kernel
  BY <1>1, KernelKeeps
<1>2. CASE Program
  BY <1>2, DrainAndStopKeep, OpenKeeps, CloseKeeps, CreateKeeps, DeleteKeeps
  DEF Program
<1>3. CASE LoopStep \/ event_loop_start
  BY <1>3, LoopKeeps
<1>4. CASE UNCHANGED vars
  <2>1. TypeOK' /\ ReportsInv'
    BY <1>4 DEF vars, kernelVars, pollerVars, tableVars, loopVars, IInv, TypeOK,
                ReportsInv
  <2> QED BY <1>4, <2>1, SameTable DEF vars, kernelVars
<1> QED BY <1>1, <1>2, <1>3, <1>4 DEF Next

\* IInv holds in every state the loop and the callbacks can reach.
THEOREM InductiveInvariant == Spec => []IInv
BY InitKeeps, NextKeeps, PTL DEF Spec

\* The variables keep their types.
THEOREM TypeCorrect == Spec => []TypeOK
<1>1. IInv => TypeOK
  BY DEF IInv
<1> QED BY <1>1, InductiveInvariant, PTL

\* What the poller is asked for is what the table says.
THEOREM PollerMatchesTable == Spec => []InterestMatchesTable
<1>1. IInv => InterestMatchesTable
  BY DEF IInv
<1> QED BY <1>1, InductiveInvariant, PTL

\* select looks at every descriptor in use.
THEOREM SelectLooksFarEnough == Spec => []MaxFdCovers
<1>1. IInv => MaxFdCovers
  BY DEF IInv
<1> QED BY <1>1, InductiveInvariant, PTL

\* A callback is called for the connection that its descriptor belongs to.
THEOREM CallbacksReachTheirOwner == Spec => DispatchToOwner
<1>1. ASSUME IInv, NEW a \in Reports, a.fd \in Entry
      PROVE  /\ CallsRead(a) => CalledFor(a.fd, "RDABLE", read)
             /\ CallsWrite(a) => CalledFor(a.fd, "WRABLE", write)
  <2>1. a.fd \in Fd
    BY DEF Reports
  <2> QED BY <1>1, <2>1 DEF CallsRead, CallsWrite, CalledFor, IInv, OwnedInv,
                            InterestMatchesTable
<1>2. IInv /\ [Next]_vars =>
        [/\ pc # "rcb" /\ pc' = "rcb" => CalledFor(cur'.fd, "RDABLE", read)
         /\ pc # "wcb" /\ pc' = "wcb" => CalledFor(cur'.fd, "WRABLE", write)]_vars
  <2> SUFFICES ASSUME IInv, [Next]_vars
               PROVE  /\ pc # "rcb" /\ pc' = "rcb" =>
                           CalledFor(cur'.fd, "RDABLE", read)
                      /\ pc # "wcb" /\ pc' = "wcb" =>
                           CalledFor(cur'.fd, "WRABLE", write)
    OBVIOUS
  <2>1. CASE Kernel \/ Program \/ UNCHANGED vars
    BY <2>1 DEF Kernel, HangUp, BecomeReady, Program, OpenSocket, CloseSocket,
                Drain, create_event, delete_event, event_loop_stop, vars, loopVars
  <2>2. CASE Poll \/ ProcessTimeEvents \/ TestStop \/ event_loop_start
    BY <2>2 DEF Poll, ProcessTimeEvents, TestStop, event_loop_start
  <2>3. ASSUME NEW a \in actives, Dispatch(a)
        PROVE  /\ pc # "rcb" /\ pc' = "rcb" =>
                    CalledFor(cur'.fd, "RDABLE", read)
               /\ pc # "wcb" /\ pc' = "wcb" =>
                    CalledFor(cur'.fd, "WRABLE", write)
    <3>1. a \in Reports /\ a.fd \in Entry
      BY DEF IInv, TypeOK, ReportsInv
    <3> QED BY <1>1, <2>3, <3>1 DEF Dispatch
  <2>4. CASE Return
    <3>1. cur \in Reports /\ cur.fd \in Entry
      BY <2>4 DEF Return, IInv, ReportsInv
    <3> QED BY <1>1, <2>4, <3>1 DEF Return
  <2> QED BY <2>1, <2>2, <2>3, <2>4 DEF Next, LoopStep, DispatchNext
<1> QED BY <1>2, InductiveInvariant, PTL DEF Spec, DispatchToOwner
-----------------------------------------------------------------------------
(* socket.c, whatever call fails.                                          *)

InCall == {"socket", "reuseaddr", "nonblock", "connect", "bind", "listen", "error", "end"}
InUse == {"reuseaddr", "nonblock", "connect", "bind", "listen"}

SocketTypeOK ==
  /\ state \in [Sock -> {"closed", "new", "connecting", "connected", "bound", "listening"}]
  /\ nonblock \subseteq Sock /\ held \subseteq Sock
  /\ fn \in {"none", "tcp_connect", "tcp_server_serve"} /\ flags \in BOOLEAN
  /\ naddrs \in Nat /\ p \in Nat /\ unset \in Nat
  /\ servinfo \in BOOLEAN
  /\ s \in Sock \union {-1}
  /\ at \in InCall \union {"idle"}

\* A socket that may be returned.
Returnable(fd) ==
  \/ state[fd] \in {"connected", "listening"}
  \/ state[fd] = "connecting" /\ fd \in nonblock

\* What the program got is open and may be used.
HeldOk == \A fd \in held : fd \in Opened /\ Returnable(fd)

\* The open sockets that neither the program has nor the running call will
\* return or close.
Lost ==
  (Opened \ held) \ (IF at = "error" /\ fn = "tcp_server_serve" THEN {} ELSE {s})

\* Which socket the call has in hand.
InHand ==
  /\ at \in {"idle", "socket"} => s = -1
  /\ at \in InUse => s \in Opened \ held
  /\ at = "error" /\ fn = "tcp_connect" => s = -1 \/ s \in Opened \ held
  /\ at = "end" => s = -1 \/ (s \in Opened \ held /\ Returnable(s))
  /\ at \in {"nonblock", "connect"} => fn = "tcp_connect"
  /\ at \in {"bind", "listen"} => fn = "tcp_server_serve"
  /\ at = "nonblock" => flags
  /\ at = "connect" /\ flags => s \in nonblock

\* How far it is in the list of addresses.
Progress ==
  /\ at = "idle" <=> fn = "none"
  /\ at = "idle" <=> ~servinfo
  /\ at # "idle" => failed = 1 .. p - 1 /\ p \in 1 .. naddrs + 1
  /\ at \in InUse => p <= naddrs
  /\ at = "error" /\ fn = "tcp_connect" /\ s = -1 => p = naddrs + 1

\* What holds between any two system calls.
SocketInv ==
  /\ SocketTypeOK
  /\ HeldOk
  /\ Cardinality(Lost) = unset
  /\ InHand
  /\ Progress

LEMMA OpenedFacts == Opened \subseteq Sock /\ -1 \notin Opened
BY SockAssumption DEF Opened

\* What close changes.
LEMMA CloseFacts ==
  ASSUME SocketTypeOK, NEW fd \in Sock, CloseFd(fd)
  PROVE  /\ state' \in [Sock -> {"closed", "new", "connecting", "connected", "bound", "listening"}]
         /\ nonblock' \subseteq Sock
         /\ Opened' = Opened \ {fd}
         /\ \A g \in Sock : g # fd => /\ state'[g] = state[g]
                                      /\ g \in nonblock' <=> g \in nonblock
                                      /\ Returnable(g)' = Returnable(g)
<1>1. /\ state' = [state EXCEPT ![fd] = "closed"] /\ nonblock' = nonblock \ {fd}
      /\ state \in [Sock -> {"closed", "new", "connecting", "connected", "bound", "listening"}]
      /\ nonblock \subseteq Sock
  BY DEF CloseFd, SocketTypeOK
<1>2. state' \in [Sock -> {"closed", "new", "connecting", "connected", "bound", "listening"}]
  BY <1>1
<1>3. Opened' = Opened \ {fd}
  BY <1>1 DEF Opened
<1>4. ASSUME NEW g \in Sock, g # fd
      PROVE  /\ state'[g] = state[g]
             /\ g \in nonblock' <=> g \in nonblock
             /\ Returnable(g)' = Returnable(g)
  BY <1>1, <1>4 DEF Returnable
<1> QED BY <1>1, <1>2, <1>3, <1>4

\* What a call does that gives one socket another state than "closed".
LEMMA StateFacts ==
  ASSUME SocketTypeOK, NEW fd \in Sock,
         NEW st \in {"new", "connecting", "connected", "bound", "listening"},
         state' = [state EXCEPT ![fd] = st]
  PROVE  /\ state' \in [Sock -> {"closed", "new", "connecting", "connected", "bound", "listening"}]
         /\ Opened' = Opened \union {fd}
         /\ state'[fd] = st
         /\ \A g \in Sock : g # fd => state'[g] = state[g]
<1>1. state \in [Sock -> {"closed", "new", "connecting", "connected", "bound", "listening"}]
  BY DEF SocketTypeOK
<1>2. state' \in [Sock -> {"closed", "new", "connecting", "connected", "bound", "listening"}]
  BY <1>1
<1>3. Opened' = Opened \union {fd}
  BY <1>1 DEF Opened
<1> QED BY <1>1, <1>2, <1>3
-----------------------------------------------------------------------------
LEMMA SocketInitKeeps == SocketInit => SocketInv
<1> SUFFICES ASSUME SocketInit PROVE SocketInv
  OBVIOUS
<1> USE DEF SocketInit
<1>1. SocketTypeOK
  BY DEF SocketTypeOK, InCall
<1>2. Opened = {}
  BY DEF Opened
<1>3. Cardinality(Lost) = unset
  BY <1>2, FS_EmptySet DEF Lost
<1>4. InHand /\ Progress
  BY DEF InHand, Progress, InUse
<1> QED BY <1>1, <1>3, <1>4 DEF SocketInv, HeldOk, SocketInit

LEMMA CallStep ==
  ASSUME SocketInv, NEW f \in {"tcp_connect", "tcp_server_serve"}, NEW nb \in BOOLEAN,
         SocketCall(f, nb)
  PROVE  SocketInv'
<1> USE DEF SocketCall, fdVars, SocketInv
<1>1. SocketTypeOK'
  BY AddrsAssumption DEF SocketTypeOK, InCall
<1>2. HeldOk'
  BY DEF HeldOk, Opened, Returnable
<1>3. Lost' = Lost /\ unset' = unset
  BY DEF Lost, Opened, InHand
<1>4. InHand'
  BY DEF InHand, InUse
<1>5. 1 .. p' - 1 = {} /\ p' \in 1 .. naddrs' + 1
  <2>1. p' = 1 /\ naddrs' \in Nat /\ naddrs' >= 1
    BY AddrsAssumption
  <2> HIDE DEF SocketCall, SocketInv
  <2>2. ASSUME NEW q \in Nat, NEW n \in Nat, q = 1
        PROVE  1 .. q - 1 = {} /\ q \in 1 .. n + 1
    BY <2>2
  <2>3. p' \in Nat
    BY <2>1
  <2> QED BY <2>1, <2>2, <2>3
<1>6. /\ at' = "socket" /\ fn' # "none" /\ servinfo' = TRUE /\ failed' = {}
  OBVIOUS
<1>7. Progress'
  BY <1>5, <1>6 DEF Progress, InUse
<1> QED BY <1>1, <1>2, <1>3, <1>4, <1>7

LEMMA CreateStep ==
  ASSUME SocketInv, CreateSocket
  PROVE  SocketInv'
<1> USE DEF SocketInv
<1>0. s = -1 /\ p \in Nat /\ p <= naddrs /\ naddrs \in Nat /\ failed = 1 .. p - 1 /\ p >= 1
  BY DEF InHand, CreateSocket, Progress, SocketTypeOK
<1>1. ASSUME NEW fd \in Sock \ Opened,
             state' = [state EXCEPT ![fd] = "new"], s' = fd, at' = "reuseaddr",
             UNCHANGED <<p, failed>>
      PROVE  SocketInv'
  <2>1. /\ state' \in [Sock -> {"closed", "new", "connecting", "connected", "bound", "listening"}]
        /\ Opened' = Opened \union {fd} /\ \A g \in Sock : g # fd => state'[g] = state[g]
    BY <1>1, StateFacts
  <2>2. SocketTypeOK'
    BY <1>1, <2>1 DEF SocketTypeOK, InCall, CreateSocket
  <2>3. HeldOk'
    BY <1>1, <2>1, OpenedFacts DEF HeldOk, Returnable, CreateSocket
  <2>4. Lost' = Lost /\ unset' = unset
    BY <1>0, <1>1, <2>1, OpenedFacts DEF Lost, CreateSocket
  <2>5. InHand'
    BY <1>1, <2>1 DEF HeldOk, InHand, InUse, CreateSocket
  <2>6. Progress'
    BY <1>0, <1>1 DEF Progress, InUse, CreateSocket
  <2> QED BY <2>2, <2>3, <2>4, <2>5, <2>6
<1>2. ASSUME s' = -1, p' = p + 1, failed' = failed \union {p}, UNCHANGED <<state, at>>
      PROVE  SocketInv'
  <2>1. SocketTypeOK'
    BY <1>0, <1>2 DEF SocketTypeOK, CreateSocket
  <2>2. HeldOk'
    BY <1>2 DEF HeldOk, Returnable, Opened, CreateSocket
  <2>3. Lost' = Lost /\ unset' = unset
    BY <1>0, <1>2 DEF Lost, Opened, CreateSocket
  <2>4. InHand'
    BY <1>2 DEF InHand, InUse, CreateSocket
  <2>5. failed' = 1 .. p' - 1
    BY <1>0, <1>2
  <2>6. Progress'
    BY <1>0, <1>2, <2>5 DEF Progress, InUse, CreateSocket
  <2> QED BY <2>1, <2>2, <2>3, <2>4, <2>6
<1> QED BY <1>1, <1>2 DEF CreateSocket

LEMMA ExhaustedStep ==
  ASSUME SocketInv, Exhausted
  PROVE  SocketInv'
<1> USE DEF SocketInv, Exhausted, fdVars, callVars
<1>1. SocketTypeOK'
  BY DEF SocketTypeOK, InCall
<1>2. HeldOk'
  BY DEF HeldOk, Opened, Returnable
<1>3. Lost' = Lost /\ unset' = unset
  BY OpenedFacts DEF Lost, Opened, InHand
<1>4. InHand' /\ Progress'
  BY DEF InHand, Progress, InUse, SocketTypeOK
<1> QED BY <1>1, <1>2, <1>3, <1>4

LEMMA ReuseaddrStep ==
  ASSUME SocketInv, set_reuseaddr
  PROVE  SocketInv'
<1> USE DEF SocketInv, fdVars, callVars
<1>1. /\ s \in Opened \ held /\ s \in Sock /\ at = "reuseaddr" /\ p <= naddrs /\ unset \in Nat
      /\ fn \in {"tcp_connect", "tcp_server_serve"} /\ flags \in BOOLEAN /\ at' # "reuseaddr"
      /\ Opened' = Opened /\ held' = held
  BY OpenedFacts DEF InHand, InUse, Progress, set_reuseaddr, SocketTypeOK, Opened
<1>2. SocketTypeOK'
  BY <1>1 DEF SocketTypeOK, InCall, set_reuseaddr
<1>3. HeldOk'
  BY DEF HeldOk, Opened, Returnable, set_reuseaddr
<1>4. Cardinality(Lost') = unset'
  <2>1. CASE at' = "error" /\ fn = "tcp_server_serve"
    <3>1. Lost' = Lost \union {s} /\ s \notin Lost /\ unset' = unset + 1
      BY <1>1, <2>1 DEF Lost, set_reuseaddr
    <3>2. IsFiniteSet(Lost)
      BY SockAssumption, OpenedFacts, FS_Subset DEF Lost
    <3> QED BY <3>1, <3>2, FS_AddElement
  <2>2. CASE ~(at' = "error" /\ fn = "tcp_server_serve")
    BY <1>1, <2>2 DEF Lost, set_reuseaddr
  <2> QED BY <2>1, <2>2
<1>5. InHand'
  BY <1>1 DEF InHand, InUse, set_reuseaddr
<1>6. Progress'
  BY <1>1, SockAssumption DEF Progress, InUse, set_reuseaddr
<1> QED BY <1>2, <1>3, <1>4, <1>5, <1>6

LEMMA NonblockStep ==
  ASSUME SocketInv, set_nonblock
  PROVE  SocketInv'
<1> USE DEF SocketInv, fdVars, callVars
<1>1. /\ s \in Opened \ held /\ s \in Sock /\ at = "nonblock" /\ p <= naddrs
      /\ fn = "tcp_connect" /\ flags
      /\ Opened' = Opened /\ held' = held
  BY OpenedFacts DEF InHand, InUse, set_nonblock, Opened, Progress
<1>2. SocketTypeOK'
  BY <1>1 DEF SocketTypeOK, InCall, set_nonblock
<1>3. HeldOk'
  BY DEF HeldOk, Opened, Returnable, set_nonblock
<1>4. Lost' = Lost /\ unset' = unset
  BY <1>1 DEF Lost, set_nonblock
<1>5. InHand'
  BY <1>1 DEF InHand, InUse, set_nonblock
<1>6. Progress'
  BY <1>1, SockAssumption DEF Progress, InUse, set_nonblock
<1> QED BY <1>2, <1>3, <1>4, <1>5, <1>6

LEMMA ConnectStep ==
  ASSUME SocketInv, Connect
  PROVE  SocketInv'
<1> USE DEF SocketInv, callVars
<1>1. /\ s \in Opened \ held /\ s \in Sock /\ s # -1 /\ at = "connect" /\ fn = "tcp_connect"
      /\ flags => s \in nonblock
      /\ held' = held /\ held \subseteq Sock /\ unset' = unset
      /\ fn' = fn /\ naddrs' = naddrs /\ servinfo' = servinfo
  BY OpenedFacts DEF InHand, InUse, Connect, SocketTypeOK
<1>2. /\ p \in Nat /\ naddrs \in Nat /\ p <= naddrs /\ p >= 1 /\ failed = 1 .. p - 1 /\ servinfo
  BY <1>1 DEF Progress, InUse, SocketTypeOK
<1>3. ASSUME NEW st \in {"connected", "connecting"}, st = "connecting" => flags,
             state' = [state EXCEPT ![s] = st], at' = "end",
             UNCHANGED <<nonblock, p, s, failed>>
      PROVE  SocketInv'
  <2>1. /\ state' \in [Sock -> {"closed", "new", "connecting", "connected", "bound", "listening"}]
        /\ Opened' = Opened \union {s} /\ state'[s] = st
        /\ \A g \in Sock : g # s => state'[g] = state[g]
    BY <1>1, <1>3, StateFacts
  <2>2. SocketTypeOK'
    BY <1>3, <2>1 DEF SocketTypeOK, InCall, Connect
  <2>3. HeldOk'
    BY <1>1, <1>3, <2>1 DEF HeldOk, Returnable
  <2>4. Lost' = Lost
    BY <1>1, <1>3, <2>1 DEF Lost
  <2>5. InHand'
    BY <1>1, <1>3, <2>1 DEF InHand, InUse, Returnable
  <2>6. Progress'
    BY <1>1, <1>2, <1>3 DEF Progress, InUse
  <2> QED BY <1>1, <2>2, <2>3, <2>4, <2>5, <2>6
<1>4. ASSUME CloseFd(s), s' = -1, p' = p + 1, at' = "socket", failed' = failed \union {p}
      PROVE  SocketInv'
  <2>1. /\ state' \in [Sock -> {"closed", "new", "connecting", "connected", "bound", "listening"}]
        /\ nonblock' \subseteq Sock
        /\ Opened' = Opened \ {s}
        /\ \A g \in Sock : g # s => Returnable(g)' = Returnable(g)
    BY <1>1, <1>4, CloseFacts
  <2>2. SocketTypeOK'
    BY <1>2, <1>4, <2>1 DEF SocketTypeOK, InCall, Connect
  <2>3. HeldOk'
    BY <1>1, <2>1 DEF HeldOk
  <2>4. Lost' = Lost
    BY <1>1, <1>4, <2>1, OpenedFacts DEF Lost
  <2>5. InHand'
    BY <1>4 DEF InHand, InUse
  <2>6. failed' = 1 .. p' - 1 /\ p' \in 1 .. naddrs' + 1
    BY <1>1, <1>2, <1>4
  <2>7. Progress'
    BY <1>1, <1>2, <1>4, <2>6 DEF Progress, InUse
  <2> QED BY <1>1, <2>2, <2>3, <2>4, <2>5, <2>7
<1> QED BY <1>3, <1>4 DEF Connect, InProgressOk

LEMMA BindOrListenStep ==
  ASSUME SocketInv, BindOrListen
  PROVE  SocketInv'
<1> USE DEF SocketInv, callVars
<1>1. /\ s \in Opened \ held /\ s \in Sock /\ s # -1
      /\ at \in {"bind", "listen"} /\ fn = "tcp_server_serve"
      /\ held' = held /\ held \subseteq Sock /\ unset' = unset
      /\ fn' = fn /\ naddrs' = naddrs /\ servinfo' = servinfo
      /\ p' = p /\ s' = s /\ failed' = failed
  BY OpenedFacts DEF InHand, InUse, BindOrListen, SocketTypeOK
<1>2. /\ p \in Nat /\ naddrs \in Nat /\ p <= naddrs /\ p >= 1 /\ failed = 1 .. p - 1 /\ servinfo
  BY <1>1 DEF Progress, InUse, SocketTypeOK
<1>3. at' \in {"listen", "error", "end"} => Progress'
  BY <1>1, <1>2 DEF Progress, InUse
<1>4. ASSUME NEW st \in {"bound", "listening"}, at' = "end" => st = "listening",
             state' = [state EXCEPT ![s] = st], at' \in {"listen", "end"}, nonblock' = nonblock
      PROVE  SocketInv'
  <2>1. /\ state' \in [Sock -> {"closed", "new", "connecting", "connected", "bound", "listening"}]
        /\ Opened' = Opened \union {s} /\ state'[s] = st
        /\ \A g \in Sock : g # s => state'[g] = state[g]
    BY <1>1, <1>4, StateFacts
  <2>2. SocketTypeOK'
    BY <1>4, <2>1 DEF SocketTypeOK, InCall, BindOrListen
  <2>3. HeldOk'
    BY <1>1, <1>4, <2>1 DEF HeldOk, Returnable
  <2>4. Lost' = Lost
    BY <1>1, <1>4, <2>1 DEF Lost
  <2>5. InHand'
    BY <1>1, <1>4, <2>1 DEF InHand, InUse, Returnable
  <2> QED BY <1>1, <1>3, <1>4, <2>2, <2>3, <2>4, <2>5
<1>5. ASSUME CloseFd(s), at' = "error"
      PROVE  SocketInv'
  <2>1. /\ state' \in [Sock -> {"closed", "new", "connecting", "connected", "bound", "listening"}]
        /\ nonblock' \subseteq Sock
        /\ Opened' = Opened \ {s}
        /\ \A g \in Sock : g # s => Returnable(g)' = Returnable(g)
    BY <1>1, <1>5, CloseFacts
  <2>2. SocketTypeOK'
    BY <1>5, <2>1 DEF SocketTypeOK, InCall, BindOrListen
  <2>3. HeldOk'
    BY <1>1, <2>1 DEF HeldOk
  <2>4. Lost' = Lost
    BY <1>1, <1>5, <2>1 DEF Lost
  <2>5. InHand'
    BY <1>1, <1>5 DEF InHand, InUse
  <2> QED BY <1>1, <1>3, <1>5, <2>2, <2>3, <2>4, <2>5
<1>6. CASE /\ state' = [state EXCEPT ![s] = IF at = "bind" THEN "bound" ELSE "listening"]
           /\ at' = IF at = "bind" THEN "listen" ELSE "end"
           /\ UNCHANGED nonblock
  <2>1. CASE at = "bind"
    BY <1>4, <1>6, <2>1
  <2>2. CASE at = "listen"
    BY <1>4, <1>6, <2>2
  <2> QED BY <1>1, <2>1, <2>2
<1> QED BY <1>5, <1>6 DEF BindOrListen

LEMMA ErrorStep ==
  ASSUME SocketInv, ErrorLabel
  PROVE  SocketInv'
<1> USE DEF SocketInv, callVars, fdVars
<1>1. /\ at = "error" /\ at' = "end" /\ s' = -1
      /\ held' = held /\ held \subseteq Sock /\ unset' = unset
      /\ fn' = fn /\ naddrs' = naddrs /\ servinfo' = servinfo
      /\ p' = p /\ failed' = failed
      /\ fn \in {"tcp_connect", "tcp_server_serve"}
  BY DEF ErrorLabel, Progress, SocketTypeOK
<1>2. InHand' /\ Progress'
  BY <1>1 DEF InHand, Progress, InUse
<1>3. CASE fn = "tcp_connect" /\ s # -1
  <2>1. s \in Opened \ held /\ s \in Sock /\ CloseFd(s)
    BY <1>1, <1>3, OpenedFacts DEF InHand, ErrorLabel
  <2>2. /\ state' \in [Sock -> {"closed", "new", "connecting", "connected", "bound", "listening"}]
        /\ nonblock' \subseteq Sock
        /\ Opened' = Opened \ {s}
        /\ \A g \in Sock : g # s => Returnable(g)' = Returnable(g)
    BY <2>1, CloseFacts
  <2>3. SocketTypeOK'
    BY <1>1, <2>2 DEF SocketTypeOK, InCall, ErrorLabel
  <2>4. HeldOk'
    BY <1>1, <2>1, <2>2 DEF HeldOk
  <2>5. Lost' = Lost
    BY <1>1, <1>3, <2>2, OpenedFacts DEF Lost
  <2> QED BY <1>1, <1>2, <2>3, <2>4, <2>5
<1>4. CASE ~(fn = "tcp_connect" /\ s # -1)
  <2>1. UNCHANGED <<state, nonblock>> /\ Opened' = Opened
    BY <1>4 DEF ErrorLabel, Opened
  <2>2. SocketTypeOK'
    BY <1>1, <2>1 DEF SocketTypeOK, InCall, ErrorLabel
  <2>3. HeldOk'
    BY <1>1, <2>1 DEF HeldOk, Returnable
  <2>4. Lost' = Lost
    BY <1>1, <1>4, <2>1, OpenedFacts DEF Lost
  <2> QED BY <1>1, <1>2, <2>2, <2>3, <2>4
<1> QED BY <1>3, <1>4

LEMMA EndStep ==
  ASSUME SocketInv, EndLabel
  PROVE  SocketInv'
<1> USE DEF SocketInv, fdVars
<1>1. /\ at = "end" /\ at' = "idle" /\ s' = -1 /\ servinfo' = FALSE /\ fn' = "none"
      /\ UNCHANGED <<state, nonblock, unset>> /\ Opened' = Opened
      /\ s = -1 \/ (s \in Opened \ held /\ Returnable(s))
      /\ held' = IF s = -1 THEN held ELSE held \union {s}
  BY DEF EndLabel, InHand, Opened
<1>2. SocketTypeOK'
  BY <1>1, OpenedFacts DEF SocketTypeOK, InCall, EndLabel
<1>3. HeldOk'
  BY <1>1 DEF HeldOk, Returnable
<1>4. Lost' = Lost
  BY <1>1, OpenedFacts DEF Lost
<1>5. InHand' /\ Progress'
  BY <1>1 DEF InHand, Progress, InUse
<1> QED BY <1>1, <1>2, <1>3, <1>4, <1>5

LEMMA AcceptStep ==
  ASSUME SocketInv, NEW sfd \in Sock, NEW fd \in Sock, tcp_accept(sfd, fd)
  PROVE  SocketInv'
<1> USE DEF SocketInv, callVars
<1>1. /\ at = "idle" /\ s = -1 /\ fd \notin Opened
      /\ state' = [state EXCEPT ![fd] = "connected"]
      /\ held' = held \union {fd} /\ held \subseteq Sock
      /\ UNCHANGED <<nonblock, fn, flags, naddrs, failed, servinfo, p, s, at, unset>>
  BY DEF tcp_accept, InHand, SocketTypeOK
<1>2. /\ state' \in [Sock -> {"closed", "new", "connecting", "connected", "bound", "listening"}]
      /\ Opened' = Opened \union {fd} /\ state'[fd] = "connected"
      /\ \A g \in Sock : g # fd => state'[g] = state[g]
  BY <1>1, StateFacts
<1>3. SocketTypeOK'
  BY <1>1, <1>2 DEF SocketTypeOK
<1>4. HeldOk'
  BY <1>1, <1>2 DEF HeldOk, Returnable
<1>5. Lost' = Lost
  BY <1>1, <1>2 DEF Lost
<1>6. InHand' /\ Progress'
  BY <1>1 DEF InHand, Progress, InUse
<1> QED BY <1>1, <1>3, <1>4, <1>5, <1>6

LEMMA ProgramStep ==
  ASSUME SocketInv, NEW fd \in Sock, ProgramCloses(fd)
  PROVE  SocketInv'
<1> USE DEF SocketInv, callVars
<1>1. /\ at = "idle" /\ s = -1 /\ fd \in held /\ fd \in Opened /\ CloseFd(fd)
      /\ held' = held \ {fd} /\ held \subseteq Sock
      /\ UNCHANGED <<fn, flags, naddrs, failed, servinfo, p, s, at, unset>>
  BY DEF ProgramCloses, InHand, SocketTypeOK, HeldOk
<1>2. /\ state' \in [Sock -> {"closed", "new", "connecting", "connected", "bound", "listening"}]
      /\ nonblock' \subseteq Sock
      /\ Opened' = Opened \ {fd}
      /\ \A g \in Sock : g # fd => Returnable(g)' = Returnable(g)
  BY <1>1, CloseFacts
<1>3. SocketTypeOK'
  BY <1>1, <1>2 DEF SocketTypeOK
<1>4. HeldOk'
  BY <1>1, <1>2 DEF HeldOk
<1>5. Lost' = Lost
  BY <1>1, <1>2 DEF Lost
<1>6. InHand' /\ Progress'
  BY <1>1 DEF InHand, Progress, InUse
<1> QED BY <1>1, <1>3, <1>4, <1>5, <1>6

LEMMA SocketStepKeeps == SocketInv /\ [SocketNext]_socketVars => SocketInv'
<1> SUFFICES ASSUME SocketInv, [SocketNext]_socketVars PROVE SocketInv'
  OBVIOUS
<1>1. CASE tcp_connect \/ tcp_server_serve
  BY <1>1, CallStep DEF tcp_connect, tcp_server_serve
<1>2. CASE CreateSocket \/ Exhausted
  BY <1>2, CreateStep, ExhaustedStep
<1>3. CASE set_reuseaddr \/ set_nonblock
  BY <1>3, ReuseaddrStep, NonblockStep
<1>4. CASE Connect \/ BindOrListen
  BY <1>4, ConnectStep, BindOrListenStep
<1>5. CASE ErrorLabel \/ EndLabel
  BY <1>5, ErrorStep, EndStep
<1>6. CASE \E sfd, fd \in Sock : tcp_accept(sfd, fd)
  BY <1>6, AcceptStep
<1>7. CASE \E fd \in Sock : ProgramCloses(fd)
  BY <1>7, ProgramStep
<1>8. CASE UNCHANGED socketVars
  BY <1>8 DEF socketVars, fdVars, callVars, SocketInv, SocketTypeOK, HeldOk, Returnable, Opened,
              Lost, InHand, Progress, InUse
<1> QED BY <1>1, <1>2, <1>3, <1>4, <1>5, <1>6, <1>7, <1>8 DEF SocketNext
-----------------------------------------------------------------------------
\* The inductive invariant: SocketInv holds whichever system call fails.
THEOREM SocketInvariant == SocketSpec => []SocketInv
BY SocketInitKeeps, SocketStepKeeps, PTL DEF SocketSpec

LEMMA InvReturned == SocketInv => SocketsReturned
<1> SUFFICES ASSUME SocketInv, at = "idle" PROVE SocketsReturned
  BY DEF SocketsReturned
<1>1. s = -1 /\ ~servinfo
  BY DEF SocketInv, InHand, Progress
<1>2. Lost = Opened \ held
  BY <1>1, OpenedFacts DEF Lost
<1> QED BY <1>1, <1>2 DEF SocketInv, HeldOk, SocketsReturned, Returnable

\* For any number of descriptors and addresses, and whichever calls fail, no
\* socket is lost by tcp_connect, and tcp_server_serve loses one each time
\* set_reuseaddr fails: nothing else is open between calls.
THEOREM NoSocketLost == SocketSpec => []SocketsReturned
BY SocketInvariant, InvReturned, PTL

\* tcp_connect never gives up before the last address of the list failed,
\* unless an option of the socket in hand cannot be set.
THEOREM EveryAddressTried == SocketSpec => ConnectTriesAll
<1> DEFINE Tried == fn = "tcp_connect" /\ at # "end" /\ at' = "end" =>
                      /\ failed = 1 .. p - 1
                      /\ s = -1 => failed = 1 .. naddrs
<1>1. ASSUME SocketInv, [SocketNext]_socketVars PROVE [Tried]_socketVars
  <2> SUFFICES ASSUME fn = "tcp_connect", at # "end", at' = "end"
               PROVE  failed = 1 .. p - 1 /\ (s = -1 => failed = 1 .. naddrs)
    OBVIOUS
  <2>1. Connect \/ ErrorLabel \/ BindOrListen
    BY <1>1 DEF SocketNext, socketVars, SocketCall, tcp_connect, tcp_server_serve, CreateSocket,
                Exhausted, set_reuseaddr, set_nonblock, EndLabel, tcp_accept, ProgramCloses
  <2>2. failed = 1 .. p - 1 /\ p \in Nat /\ naddrs \in Nat
    BY <1>1 DEF SocketInv, Progress, SocketTypeOK
  <2>3. CASE Connect \/ BindOrListen
    BY <1>1, <2>2, <2>3, OpenedFacts DEF SocketInv, InHand, InUse, Connect, BindOrListen
  <2>4. CASE ErrorLabel
    BY <1>1, <2>2, <2>4 DEF SocketInv, Progress, ErrorLabel
  <2> QED BY <2>1, <2>3, <2>4
<1> QED BY <1>1, SocketInvariant, PTL DEF SocketSpec, ConnectTriesAll
=============================================================================
