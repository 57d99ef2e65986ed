----------------------------- MODULE EchoServer -----------------------------
(***************************************************************************)
(* kznet/demo.c: the connections of the echo server and the callbacks that *)
(* the event loop calls for them.                                          *)
(*                                                                         *)
(* A chain is the number of bytes in it: BufferChain implements            *)
(* ChainService, where it is a queue.  A callback is one step.  The loop   *)
(* may call a callback at any time while its event is registered, also     *)
(* when the socket is not ready: what the poll reported may be stale       *)
(* (FreshDispatch of EventLoop does not hold), and recv and send then fail *)
(* with EAGAIN.                                                            *)
(***************************************************************************)
EXTENDS Integers, FiniteSetsExt, ChainResults

CONSTANTS
  Conn,       \* the connections, each one malloc of a connection_t
  MaxBytes,   \* bound on the bytes a peer sends
  SizeMod,    \* size_t wraps around at this value
  FullReads   \* whether a readv may fill both buffers to the last byte

ASSUME WrapAssumption ==
  MaxBytes \in Nat /\ SizeMod \in Nat /\ SizeMod > MaxBytes
ASSUME FullReadsAssumption == FullReads \in BOOLEAN
ASSUME ConnAssumption == IsFiniteSet(Conn)

VARIABLES
  sock,       \* the socket: "none", "open", "orphan" or "closed"
  aborted,    \* whether it was closed after an error
  sentByPeer, \* how many bytes the peer has sent
  fin,        \* whether the peer has sent all it wants
  shut,       \* whether the server called shutdown(fd, SHUT_WR)
  events,     \* the events registered for the socket
  received,   \* how many bytes the chain took in
  echoed,     \* how many bytes were sent from it
  total,      \* conn->total
  eof,        \* conn->eof
  writing,    \* conn->writing
  recv_total, \* the counters of the whole server
  send_total

peerVars == <<sentByPeer, fin>>
echoVars == <<sock, aborted, peerVars, shut, events, received, echoed, total,
              eof, writing, recv_total, send_total>>

EchoInit ==
  /\ sock = [c \in Conn |-> "none"]
  /\ aborted = [c \in Conn |-> FALSE]
  /\ sentByPeer = [c \in Conn |-> 0]
  /\ fin = [c \in Conn |-> FALSE]
  /\ shut = [c \in Conn |-> FALSE]
  /\ events = [c \in Conn |-> {}]
  /\ received = [c \in Conn |-> 0]
  /\ echoed = [c \in Conn |-> 0]
  /\ total = [c \in Conn |-> 0]
  /\ eof = [c \in Conn |-> FALSE]
  /\ writing = [c \in Conn |-> FALSE]
  /\ recv_total = 0
  /\ send_total = 0

\* The bytes in the chain of c.
Backlog(c) == received[c] - echoed[c]

\* Addition and subtraction of size_t, which wraps around.
Plus(a, b) == IF a + b < SizeMod THEN a + b ELSE a + b - SizeMod
Minus(a, b) == IF a >= b THEN a - b ELSE a - b + SizeMod
-----------------------------------------------------------------------------
(* The peers.                                                              *)

PeerSends(c) ==
  /\ sock[c] = "open"
  /\ ~fin[c]
  /\ sentByPeer[c] < MaxBytes
  /\ sentByPeer' = [sentByPeer EXCEPT ![c] = @ + 1]
  /\ UNCHANGED <<sock, aborted, fin, shut, events, received, echoed, total, eof,
                 writing, recv_total, send_total>>

PeerEnds(c) ==
  /\ sock[c] = "open"
  /\ ~fin[c]
  /\ fin' = [fin EXCEPT ![c] = TRUE]
  /\ UNCHANGED <<sock, aborted, sentByPeer, shut, events, received, echoed,
                 total, eof, writing, recv_total, send_total>>
-----------------------------------------------------------------------------
(* What buffer_chain_recv and buffer_chain_send can return: RecvAnswer and  *)
(* SendResult of ChainResults, and what the peer has sent.                 *)

\* buffer_chain_recv takes n bytes and returns rv; it returns 0 only when the
\* stream is at its end.
RecvResult(c, rv, n) ==
  /\ n \in 0 .. sentByPeer[c] - received[c]
  /\ RecvAnswer(rv, n, FullReads)
  /\ rv = 0 => fin[c] /\ n = sentByPeer[c] - received[c]
-----------------------------------------------------------------------------
(* The callbacks.                                                          *)

\* server_accept_cb, one iteration of its loop.
server_accept_cb(c) ==
  /\ sock[c] = "none"
  /\ sock' = [sock EXCEPT ![c] = "open"]
  /\ events' = [events EXCEPT ![c] = {"RDABLE"}]
  /\ UNCHANGED <<aborted, peerVars, shut, received, echoed, total, eof, writing,
                 recv_total, send_total>>

\* An option cannot be set and the socket is closed; the callback goes on,
\* and create_event fails for the closed descriptor, which epoll_ctl refuses
\* (select would be given it; the server is the one of the epoll build).
AcceptFails(c) ==
  /\ sock[c] = "none"
  /\ sock' = [sock EXCEPT ![c] = "closed"]
  /\ aborted' = [aborted EXCEPT ![c] = TRUE]
  /\ UNCHANGED <<peerVars, shut, events, received, echoed, total, eof, writing,
                 recv_total, send_total>>

\* create_event refuses a descriptor beyond its table, and nobody notices:
\* the socket stays open and no callback is ever called for it.
AcceptUnregistered(c) ==
  /\ sock[c] = "none"
  /\ sock' = [sock EXCEPT ![c] = "orphan"]
  /\ UNCHANGED <<aborted, peerVars, shut, events, received, echoed, total, eof,
                 writing, recv_total, send_total>>

\* Mutant: the events stay registered.
CloseKeepsEvents(c, error) ==
  /\ sock' = [sock EXCEPT ![c] = "closed"]
  /\ aborted' = [aborted EXCEPT ![c] = error]
  /\ UNCHANGED events

\* delete_event for both events, and close.
Close(c, error) ==
  /\ sock' = [sock EXCEPT ![c] = "closed"]
  /\ aborted' = [aborted EXCEPT ![c] = error]
  /\ events' = [events EXCEPT ![c] = {}]

\* The chain takes n bytes in and sends m of them.
Chain(c, n, m) ==
  /\ received' = [received EXCEPT ![c] = @ + n]
  /\ echoed' = [echoed EXCEPT ![c] = @ + m]

\* Mutant: the connection is closed whatever is left to send.
ReadClosesEarly(c) ==
  /\ "RDABLE" \in events[c]
  /\ \E rv \in {-1, 0}, n \in 0 .. MaxBytes :
       /\ RecvResult(c, rv, n)
       /\ Chain(c, n, 0)
       /\ Close(c, rv = -1)
  /\ UNCHANGED <<peerVars, shut, total, eof, writing, recv_total, send_total>>

\* client_readcb closes the connection: an error, or the end of the stream
\* when nothing is left to send.
ReadCloses(c) ==
  /\ "RDABLE" \in events[c]
  /\ \E rv \in {-1, 0}, n \in 0 .. MaxBytes :
       /\ RecvResult(c, rv, n)
       /\ rv = 0 => total[c] = 0
       /\ Chain(c, n, 0)
       /\ Close(c, rv = -1)
  /\ UNCHANGED <<peerVars, shut, total, eof, writing, recv_total, send_total>>

\* client_readcb at the end of the stream, with something left to send.
ReadEof(c) ==
  /\ "RDABLE" \in events[c]
  /\ total[c] # 0
  /\ \E n \in 0 .. MaxBytes : RecvResult(c, 0, n) /\ Chain(c, n, 0)
  /\ events' = [events EXCEPT ![c] = @ \ {"RDABLE"}]
  /\ eof' = [eof EXCEPT ![c] = TRUE]
  /\ UNCHANGED <<sock, aborted, peerVars, shut, total, writing, recv_total,
                 send_total>>

\* Mutant: conn->total is only raised when client_readcb sends.
ReadBuffersUncounted(c) ==
  /\ "RDABLE" \in events[c]
  /\ writing[c]
  /\ \E n \in 0 .. MaxBytes :
       /\ RecvResult(c, 1, n)
       /\ Chain(c, n, 0)
       /\ recv_total' = Plus(recv_total, n)
  /\ UNCHANGED <<sock, aborted, peerVars, shut, events, total, eof, writing,
                 send_total>>

\* client_readcb while client_writecb is registered: it only takes bytes in.
ReadBuffers(c) ==
  /\ "RDABLE" \in events[c]
  /\ writing[c]
  /\ \E n \in 0 .. MaxBytes :
       /\ RecvResult(c, 1, n)
       /\ Chain(c, n, 0)
       /\ total' = [total EXCEPT ![c] = Plus(@, n)]
       /\ recv_total' = Plus(recv_total, n)
  /\ UNCHANGED <<sock, aborted, peerVars, shut, events, eof, writing, send_total>>

\* client_readcb sends at once, and registers client_writecb for the rest.  It
\* does not look at the result of create_event, which succeeds here: the
\* descriptor is open and already in the table, so that it fits.
ReadEchoes(c) ==
  /\ "RDABLE" \in events[c]
  /\ ~writing[c]
  /\ \E n, m \in 0 .. MaxBytes, rv \in {0, 1} :
       /\ RecvResult(c, 1, n)
       /\ SendResult(Backlog(c) + n, rv, m)
       /\ Chain(c, n, m)
       /\ total' = [total EXCEPT ![c] = Minus(Plus(@, n), m)]
       /\ recv_total' = Plus(recv_total, n)
       /\ send_total' = Plus(send_total, m)
  /\ events' = [events EXCEPT ![c] =
                  IF total'[c] # 0 THEN @ \union {"WRABLE"} ELSE @]
  /\ writing' = [writing EXCEPT ![c] = total'[c] # 0]
  /\ UNCHANGED <<sock, aborted, peerVars, shut, eof>>

\* client_readcb takes bytes in and cannot send them.
ReadSendFails(c) ==
  /\ "RDABLE" \in events[c]
  /\ ~writing[c]
  /\ \E n, m \in 0 .. MaxBytes :
       /\ RecvResult(c, 1, n)
       /\ SendResult(Backlog(c) + n, -1, m)
       /\ Chain(c, n, m)
       /\ total' = [total EXCEPT ![c] = Plus(@, n)]
       /\ recv_total' = Plus(recv_total, n)
  /\ Close(c, TRUE)
  /\ UNCHANGED <<peerVars, shut, eof, writing, send_total>>

client_readcb(c) ==
  \/ ReadCloses(c)
  \/ ReadEof(c)
  \/ ReadBuffers(c)
  \/ ReadEchoes(c)
  \/ ReadSendFails(c)

\* Mutant: conn->writing = 0 is missing.
WriteSendsKeepsFlag(c, m) ==
  /\ "WRABLE" \in events[c]
  /\ \E rv \in {0, 1} : SendResult(Backlog(c), rv, m)
  /\ Chain(c, 0, m)
  /\ total' = [total EXCEPT ![c] = Minus(@, m)]
  /\ send_total' = Plus(send_total, m)
  /\ IF total'[c] = 0
       THEN /\ events' = [events EXCEPT ![c] = @ \ {"WRABLE"}]
            /\ shut' = [shut EXCEPT ![c] = eof[c]]
       ELSE UNCHANGED <<events, shut>>
  /\ UNCHANGED <<sock, aborted, peerVars, eof, writing, recv_total>>

\* client_writecb sends m bytes; when total is 0 it deregisters itself, and
\* at the end of the stream it shuts the socket down.
WriteSends(c, m) ==
  /\ "WRABLE" \in events[c]
  /\ \E rv \in {0, 1} : SendResult(Backlog(c), rv, m)
  /\ Chain(c, 0, m)
  /\ total' = [total EXCEPT ![c] = Minus(@, m)]
  /\ send_total' = Plus(send_total, m)
  /\ IF total'[c] = 0
       THEN /\ events' = [events EXCEPT ![c] = @ \ {"WRABLE"}]
            /\ writing' = [writing EXCEPT ![c] = FALSE]
            /\ shut' = [shut EXCEPT ![c] = eof[c]]
       ELSE UNCHANGED <<events, writing, shut>>
  /\ UNCHANGED <<sock, aborted, peerVars, eof, recv_total>>

\* Mutant: what was sent before the error is taken from total alone.
WriteFailsCounts(c) ==
  /\ "WRABLE" \in events[c]
  /\ \E m \in 0 .. MaxBytes :
       /\ SendResult(Backlog(c), -1, m)
       /\ Chain(c, 0, m)
       /\ total' = [total EXCEPT ![c] = Minus(@, m)]
  /\ Close(c, TRUE)
  /\ UNCHANGED <<peerVars, shut, eof, writing, recv_total, send_total>>

WriteFails(c) ==
  /\ "WRABLE" \in events[c]
  /\ \E m \in 0 .. MaxBytes : SendResult(Backlog(c), -1, m) /\ Chain(c, 0, m)
  /\ Close(c, TRUE)
  /\ UNCHANGED <<peerVars, shut, total, eof, writing, recv_total, send_total>>

client_writecb(c) == WriteFails(c) \/ \E m \in 0 .. MaxBytes : WriteSends(c, m)

EchoNext ==
  \E c \in Conn :
    \/ PeerSends(c) \/ PeerEnds(c)
    \/ server_accept_cb(c) \/ AcceptFails(c) \/ AcceptUnregistered(c)
    \/ client_readcb(c)
    \/ client_writecb(c)

EchoSpec == EchoInit /\ [][EchoNext]_echoVars

(***************************************************************************)
(* The loop serves a socket that stays ready (ReadyServed of EventLoop),   *)
(* and a peer reads what it is sent, so that the socket is writable again  *)
(* and again: a registered client_writecb sends something in the end.      *)
(***************************************************************************)
EchoFairness ==
  \A c \in Conn : SF_echoVars(\E m \in 1 .. MaxBytes : WriteSends(c, m))

EchoFairSpec == EchoSpec /\ EchoFairness
-----------------------------------------------------------------------------
(* Properties.                                                             *)

\* Every variable has its type; in particular a chain never sends more than
\* it took in.
EchoTypeOK ==
  /\ sock \in [Conn -> {"none", "open", "orphan", "closed"}]
  /\ aborted \in [Conn -> BOOLEAN]
  /\ sentByPeer \in [Conn -> 0 .. MaxBytes]
  /\ fin \in [Conn -> BOOLEAN]
  /\ shut \in [Conn -> BOOLEAN]
  /\ events \in [Conn -> SUBSET {"RDABLE", "WRABLE"}]
  /\ received \in [Conn -> 0 .. MaxBytes]
  /\ echoed \in [Conn -> 0 .. MaxBytes]
  /\ \A c \in Conn : echoed[c] <= received[c] /\ received[c] <= sentByPeer[c]
  /\ total \in [Conn -> 0 .. SizeMod - 1]
  /\ eof \in [Conn -> BOOLEAN]
  /\ writing \in [Conn -> BOOLEAN]
  /\ recv_total \in 0 .. SizeMod - 1
  /\ send_total \in 0 .. SizeMod - 1

\* conn->total, which decides when client_writecb stops and when a
\* connection is closed, is the number of bytes in the chain.
TotalIsBacklog == \A c \in Conn : sock[c] = "open" => total[c] = Backlog(c)

\* Nobody forgets to send: while total says there is something to send,
\* client_writecb is registered, and conn->writing says so; when nothing is
\* left it is not, so the loop does not spin on a writable socket.
WriterRegistered ==
  \A c \in Conn : sock[c] = "open" =>
    /\ writing[c] <=> total[c] # 0
    /\ writing[c] <=> "WRABLE" \in events[c]
    /\ ~eof[c] <=> "RDABLE" \in events[c]

\* "A echo demo server": when the server ends its side of a connection, and
\* no call failed, it has sent back every byte it took in, and took in every
\* byte that the peer sent.
EchoComplete ==
  \A c \in Conn :
    shut[c] \/ (sock[c] = "closed" /\ ~aborted[c]) =>
      echoed[c] = received[c] /\ received[c] = sentByPeer[c]

\* recv_total and send_total of print_info differ by what conn->total says is
\* still to be sent, connections that were closed with a backlog included.
StatsBalance ==
  Minus(recv_total, send_total) =
    MapThenSumSet(LAMBDA c : total[c], Conn) % SizeMod

\* What the chain has taken in is sent, or the connection fails.
BacklogDrains ==
  \A c \in Conn : (Backlog(c) > 0) ~> (Backlog(c) = 0 \/ sock[c] = "closed")
-----------------------------------------------------------------------------
(***************************************************************************)
(* The inductive invariant behind the theorems of EchoServerProofs.        *)
(***************************************************************************)

\* Only an open socket is registered, and one that was never open has seen
\* nothing.
OpenInv ==
  \A c \in Conn :
    /\ events[c] # {} => sock[c] = "open"
    /\ sock[c] = "none" =>
         total[c] = 0 /\ received[c] = 0 /\ ~eof[c] /\ ~writing[c]

\* The end of the stream: everything the peer sent was taken in, and after
\* shutdown the connection is idle.
EndInv ==
  \A c \in Conn :
    /\ eof[c] => fin[c] /\ received[c] = sentByPeer[c]
    /\ shut[c] => eof[c] /\ events[c] = {}

\* total is the backlog until the end of the stream, and after it too if no
\* byte came together with it.
CountInv ==
  \A c \in Conn :
    sock[c] = "open" /\ (eof[c] => ~FullReads) => total[c] = Backlog(c)

\* What holds between any two callbacks.
EchoInv ==
  /\ EchoTypeOK
  /\ OpenInv
  /\ EndInv
  /\ WriterRegistered
  /\ CountInv
  /\ ~FullReads => EchoComplete
=============================================================================
