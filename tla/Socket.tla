------------------------------- MODULE Socket -------------------------------
(***************************************************************************)
(* kznet/socket.c: tcp_connect and tcp_server_serve go through the list    *)
(* that getaddrinfo returns, one system call after the other, each of      *)
(* which may fail; tcp_accept; and the program that holds what they        *)
(* return.  An address is its place in the list.                           *)
(***************************************************************************)
EXTENDS Integers, FiniteSets

CONSTANTS
  Sock,     \* the descriptors
  MaxAddrs  \* bound on the entries of servinfo

ASSUME SockAssumption == -1 \notin Sock /\ IsFiniteSet(Sock)
ASSUME AddrsAssumption == MaxAddrs \in Nat

VARIABLES
  state,     \* what each socket is: "closed", "new", "connecting", ...
  nonblock,  \* the sockets with O_NONBLOCK
  held,      \* the sockets that the program got and has not closed
  fn,        \* "tcp_connect" or "tcp_server_serve", while one is running
  flags,     \* whether CONNECT_NONBLOCK was passed
  naddrs,    \* how many entries servinfo has
  servinfo,  \* whether it is allocated
  p,         \* the entry the loop is at
  s,         \* the socket of this entry, -1 for none
  at,        \* the next system call, or a label of the code
  failed,    \* the entries whose socket() or connect() failed
  unset      \* how often set_reuseaddr failed in tcp_server_serve

fdVars == <<state, nonblock>>
callVars == <<fn, flags, naddrs, failed>>
socketVars == <<fdVars, callVars, held, servinfo, p, s, at, unset>>

SocketInit ==
  /\ state = [fd \in Sock |-> "closed"]
  /\ nonblock = {} /\ held = {}
  /\ fn = "none" /\ flags = FALSE /\ naddrs = 0 /\ failed = {}
  /\ servinfo = FALSE
  /\ p = 0 /\ s = -1 /\ at = "idle" /\ unset = 0

Opened == {fd \in Sock : state[fd] # "closed"}

CloseFd(fd) ==
  /\ state' = [state EXCEPT ![fd] = "closed"]
  /\ nonblock' = nonblock \ {fd}
-----------------------------------------------------------------------------
(* The calls.  Where getaddrinfo fails they return -1 and change nothing.  *)

SocketCall(f, nb) ==
  /\ at = "idle"
  /\ fn' = f /\ flags' = nb /\ failed' = {}
  /\ naddrs' \in 1 .. MaxAddrs
  /\ servinfo' = TRUE
  /\ p' = 1 /\ s' = -1 /\ at' = "socket"
  /\ UNCHANGED <<fdVars, held, unset>>

tcp_connect == \E nb \in BOOLEAN : SocketCall("tcp_connect", nb)
tcp_server_serve == SocketCall("tcp_server_serve", FALSE)

\* socket() for the next entry; if it fails the loop continues.
CreateSocket ==
  /\ at = "socket" /\ p <= naddrs
  /\ \/ \E fd \in Sock \ Opened :
          /\ state' = [state EXCEPT ![fd] = "new"]
          /\ s' = fd
          /\ at' = "reuseaddr"
          /\ UNCHANGED <<p, failed>>
     \/ /\ s' = -1
        /\ p' = p + 1
        /\ failed' = failed \union {p}
        /\ UNCHANGED <<state, at>>
  /\ UNCHANGED <<nonblock, held, fn, flags, naddrs, servinfo, unset>>

\* p == NULL.
Exhausted ==
  /\ at = "socket" /\ p > naddrs
  /\ at' = "error"
  /\ UNCHANGED <<fdVars, callVars, held, servinfo, p, s, unset>>

set_reuseaddr ==
  /\ at = "reuseaddr"
  /\ \/ /\ at' = IF fn = "tcp_server_serve" THEN "bind"
                 ELSE IF flags THEN "nonblock" ELSE "connect"
        /\ UNCHANGED unset
     \/ /\ at' = "error"
        /\ unset' = IF fn = "tcp_server_serve" THEN unset + 1 ELSE unset
  /\ UNCHANGED <<fdVars, callVars, held, servinfo, p, s>>

set_nonblock ==
  /\ at = "nonblock"
  /\ \/ nonblock' = nonblock \union {s} /\ at' = "connect"
     \/ at' = "error" /\ UNCHANGED nonblock
  /\ UNCHANGED <<state, callVars, held, servinfo, p, s, unset>>

\* errno == EINPROGRESS && flags & CONNECT_NONBLOCK
InProgressOk == flags

\* Mutant: a failed connect ends the call, as a failed bind does.
ConnectGivesUp ==
  /\ at = "connect"
  /\ \/ /\ state' = [state EXCEPT ![s] = "connected"]
        /\ at' = "end"
        /\ UNCHANGED <<nonblock, s>>
     \/ /\ InProgressOk
        /\ state' = [state EXCEPT ![s] = "connecting"]
        /\ at' = "end"
        /\ UNCHANGED <<nonblock, s>>
     \/ /\ CloseFd(s)
        /\ s' = -1
        /\ at' = "error"
  /\ UNCHANGED <<held, callVars, servinfo, p, unset>>

Connect ==
  /\ at = "connect"
  /\ \/ /\ state' = [state EXCEPT ![s] = "connected"]
        /\ at' = "end"
        /\ UNCHANGED <<nonblock, p, s, failed>>
     \/ /\ InProgressOk
        /\ state' = [state EXCEPT ![s] = "connecting"]
        /\ at' = "end"
        /\ UNCHANGED <<nonblock, p, s, failed>>
     \/ /\ CloseFd(s)
        /\ s' = -1
        /\ p' = p + 1
        /\ at' = "socket"
        /\ failed' = failed \union {p}
  /\ UNCHANGED <<held, fn, flags, naddrs, servinfo, unset>>

\* bind or listen; if one fails the socket is closed and the call gives up.
BindOrListen ==
  /\ at \in {"bind", "listen"}
  /\ \/ /\ state' = [state EXCEPT ![s] = IF at = "bind" THEN "bound" ELSE "listening"]
        /\ at' = IF at = "bind" THEN "listen" ELSE "end"
        /\ UNCHANGED nonblock
     \/ CloseFd(s) /\ at' = "error"
  /\ UNCHANGED <<callVars, held, servinfo, p, s, unset>>

\* Mutant: tcp_connect does not close the socket either.
ErrorLeaksBoth ==
  /\ at = "error"
  /\ UNCHANGED fdVars
  /\ s' = -1
  /\ at' = "end"
  /\ UNCHANGED <<callVars, held, servinfo, p, unset>>

\* The label error: only tcp_connect closes s there.
ErrorLabel ==
  /\ at = "error"
  /\ IF fn = "tcp_connect" /\ s # -1 THEN CloseFd(s) ELSE UNCHANGED fdVars
  /\ s' = -1
  /\ at' = "end"
  /\ UNCHANGED <<callVars, held, servinfo, p, unset>>

\* The label end: freeaddrinfo, and the call returns s.
EndLabel ==
  /\ at = "end"
  /\ servinfo' = FALSE
  /\ held' = IF s = -1 THEN held ELSE held \union {s}
  /\ fn' = "none" /\ flags' = FALSE /\ naddrs' = 0 /\ failed' = {}
  /\ p' = 0 /\ s' = -1 /\ at' = "idle"
  /\ UNCHANGED <<fdVars, unset>>

\* accept; where it fails tcp_accept returns -1.
tcp_accept(sfd, fd) ==
  /\ at = "idle"
  /\ sfd \in held /\ state[sfd] = "listening"
  /\ fd \notin Opened
  /\ state' = [state EXCEPT ![fd] = "connected"]
  /\ held' = held \union {fd}
  /\ UNCHANGED <<nonblock, callVars, servinfo, p, s, at, unset>>

\* The program closes one of its sockets.
ProgramCloses(fd) ==
  /\ at = "idle"
  /\ fd \in held
  /\ CloseFd(fd)
  /\ held' = held \ {fd}
  /\ UNCHANGED <<callVars, servinfo, p, s, at, unset>>

SocketNext ==
  \/ tcp_connect
  \/ tcp_server_serve
  \/ CreateSocket
  \/ Exhausted
  \/ set_reuseaddr
  \/ set_nonblock
  \/ Connect
  \/ BindOrListen
  \/ ErrorLabel
  \/ EndLabel
  \/ \E sfd, fd \in Sock : tcp_accept(sfd, fd)
  \/ \E fd \in Sock : ProgramCloses(fd)

SocketSpec == SocketInit /\ [][SocketNext]_socketVars
-----------------------------------------------------------------------------
(* Properties.                                                             *)

\* Whichever system call failed for whichever address: between calls servinfo
\* is freed, what the program got is connected or listening, or, if it asked
\* for that, a non-blocking socket that is connecting, and no other socket is
\* open, save one for each time that set_reuseaddr failed in tcp_server_serve.
SocketsReturned ==
  at = "idle" =>
    /\ ~servinfo
    /\ held \subseteq Opened
    /\ \A fd \in held :
         \/ state[fd] \in {"connected", "listening"}
         \/ state[fd] = "connecting" /\ fd \in nonblock
    /\ Cardinality(Opened \ held) = unset

\* tcp_connect returns the socket of the first address that works, and gives
\* up only after socket() or connect() failed for every address, or when an
\* option of the socket in hand cannot be set: a failure is retried with the
\* next entry, as the comment in its loop says.
ConnectTriesAll ==
  [][fn = "tcp_connect" /\ at # "end" /\ at' = "end" =>
       /\ failed = 1 .. p - 1
       /\ s = -1 => failed = 1 .. naddrs]_socketVars
=============================================================================
