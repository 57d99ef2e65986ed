-------------------------- MODULE EchoServerProofs --------------------------
(***************************************************************************)
(* Proofs about EchoServer, for any number of connections and of bytes.    *)
(***************************************************************************)
EXTENDS EchoServer, InductionFacts

\* The difference of two size_t that do not wrap, and the range of both.
LEMMA SizeArithmetic ==
  ASSUME NEW a \in 0 .. SizeMod - 1, NEW b \in 0 .. MaxBytes
  PROVE  /\ Plus(a, b) \in 0 .. SizeMod - 1
         /\ Minus(a, b) \in 0 .. SizeMod - 1
         /\ a + b < SizeMod => Plus(a, b) = a + b
         /\ b <= a => Minus(a, b) = a - b
BY WrapAssumption DEF Plus, Minus

\* Nothing has happened yet.
LEMMA InitEstablishes == EchoInit => EchoInv
<1> SUFFICES ASSUME EchoInit PROVE EchoInv
  OBVIOUS
<1>1. EchoTypeOK
  BY WrapAssumption DEF EchoInit, EchoTypeOK
<1>2. OpenInv /\ EndInv /\ WriterRegistered /\ CountInv /\ EchoComplete
  BY DEF EchoInit, OpenInv, EndInv, WriterRegistered, CountInv, EchoComplete, Backlog
<1> QED BY <1>1, <1>2 DEF EchoInv

\* The steps of the peers.
LEMMA PeerKeeps ==
  ASSUME EchoInv, NEW c \in Conn, PeerSends(c) \/ PeerEnds(c)
  PROVE  EchoInv'
<1>1. CASE PeerSends(c)
  <2>1. EchoTypeOK'
    BY <1>1, WrapAssumption DEF EchoInv, EchoTypeOK, PeerSends
  <2>2. OpenInv' /\ WriterRegistered'
    BY <1>1 DEF EchoInv, OpenInv, WriterRegistered, PeerSends
  <2>3. EndInv'
    BY <1>1 DEF EchoInv, EchoTypeOK, EndInv, PeerSends
  <2>4. CountInv' /\ (~FullReads => EchoComplete')
    BY <1>1 DEF EchoInv, EchoTypeOK, EndInv, CountInv, EchoComplete, Backlog,
                PeerSends
  <2> QED BY <2>1, <2>2, <2>3, <2>4 DEF EchoInv
<1>2. CASE PeerEnds(c)
  <2>1. EchoTypeOK'
    BY <1>2 DEF EchoInv, EchoTypeOK, PeerEnds
  <2>2. OpenInv' /\ WriterRegistered'
    BY <1>2 DEF EchoInv, OpenInv, WriterRegistered, PeerEnds
  <2>3. EndInv'
    BY <1>2 DEF EchoInv, EchoTypeOK, EndInv, PeerEnds
  <2>4. CountInv' /\ (~FullReads => EchoComplete')
    BY <1>2 DEF EchoInv, EchoTypeOK, CountInv, EchoComplete, Backlog, PeerEnds
  <2> QED BY <2>1, <2>2, <2>3, <2>4 DEF EchoInv
<1> QED BY <1>1, <1>2

\* A connection is accepted, with or without success.
LEMMA AcceptKeeps ==
  ASSUME EchoInv, NEW c \in Conn,
         server_accept_cb(c) \/ AcceptFails(c) \/ AcceptUnregistered(c)
  PROVE  EchoInv'
<1>1. /\ sock[c] = "none" /\ events[c] = {} /\ ~shut[c]
      /\ total[c] = 0 /\ received[c] = 0 /\ echoed[c] = 0
      /\ ~eof[c] /\ ~writing[c]
  BY DEF EchoInv, EchoTypeOK, OpenInv, EndInv, server_accept_cb, AcceptFails,
         AcceptUnregistered
<1>2. CASE server_accept_cb(c)
  <2>1. EchoTypeOK'
    BY <1>2 DEF EchoInv, EchoTypeOK, server_accept_cb, peerVars
  <2>2. OpenInv' /\ EndInv' /\ WriterRegistered'
    BY <1>1, <1>2
    DEF EchoInv, EchoTypeOK, OpenInv, EndInv, WriterRegistered, server_accept_cb,
        peerVars
  <2>3. CountInv' /\ (~FullReads => EchoComplete')
    BY <1>1, <1>2
    DEF EchoInv, EchoTypeOK, CountInv, EchoComplete, Backlog, server_accept_cb,
        peerVars
  <2> QED BY <2>1, <2>2, <2>3 DEF EchoInv
<1>3. CASE AcceptFails(c)
  <2>1. EchoTypeOK'
    BY <1>3 DEF EchoInv, EchoTypeOK, AcceptFails, peerVars
  <2>2. OpenInv' /\ EndInv' /\ WriterRegistered'
    BY <1>1, <1>3
    DEF EchoInv, EchoTypeOK, OpenInv, EndInv, WriterRegistered, AcceptFails,
        peerVars
  <2>3. CountInv' /\ (~FullReads => EchoComplete')
    BY <1>1, <1>3
    DEF EchoInv, EchoTypeOK, CountInv, EchoComplete, Backlog, AcceptFails,
        peerVars
  <2> QED BY <2>1, <2>2, <2>3 DEF EchoInv
<1>4. CASE AcceptUnregistered(c)
  <2>1. EchoTypeOK'
    BY <1>4 DEF EchoInv, EchoTypeOK, AcceptUnregistered, peerVars
  <2>2. OpenInv' /\ EndInv' /\ WriterRegistered'
    BY <1>1, <1>4
    DEF EchoInv, EchoTypeOK, OpenInv, EndInv, WriterRegistered, AcceptUnregistered,
        peerVars
  <2>3. CountInv' /\ (~FullReads => EchoComplete')
    BY <1>1, <1>4
    DEF EchoInv, EchoTypeOK, CountInv, EchoComplete, Backlog, AcceptUnregistered,
        peerVars
  <2> QED BY <2>1, <2>2, <2>3 DEF EchoInv
<1> QED BY <1>2, <1>3, <1>4

\* A callback that closes the connection, whatever it moved before: the bytes
\* it moved were there, and it says whether it closes after an error.
LEMMA CloseKeeps ==
  ASSUME EchoInv, NEW c \in Conn, events[c] # {},
         NEW n \in 0 .. MaxBytes, NEW m \in 0 .. MaxBytes,
         NEW error \in BOOLEAN, NEW t \in 0 .. SizeMod - 1,
         received[c] + n <= sentByPeer[c],
         echoed[c] + m <= received[c] + n,
         ~FullReads /\ ~error => /\ echoed[c] + m = received[c] + n
                                /\ received[c] + n = sentByPeer[c],
         Chain(c, n, m), Close(c, error),
         total' = [total EXCEPT ![c] = t],
         recv_total' \in 0 .. SizeMod - 1, send_total' = send_total,
         UNCHANGED <<peerVars, shut, eof, writing>>
  PROVE  EchoInv'
<1>1. sock[c] = "open" /\ ~shut[c]
  BY DEF EchoInv, OpenInv, EndInv
<1>2. EchoTypeOK'
  BY WrapAssumption DEF EchoInv, EchoTypeOK, Chain, Close, peerVars
<1>3. OpenInv' /\ WriterRegistered'
  BY <1>1 DEF EchoInv, EchoTypeOK, OpenInv, WriterRegistered, Chain, Close
<1>4. EndInv'
  BY <1>1 DEF EchoInv, EchoTypeOK, EndInv, Chain, Close, peerVars
<1>5. CountInv' /\ (~FullReads => EchoComplete')
  BY <1>1 DEF EchoInv, EchoTypeOK, CountInv, EchoComplete, Backlog, Chain,
              Close, peerVars
<1> QED BY <1>2, <1>3, <1>4, <1>5 DEF EchoInv

\* What recv and send move was there.
LEMMA RecvBounds ==
  ASSUME EchoInv, NEW c \in Conn, NEW rv, NEW n \in 0 .. MaxBytes,
         RecvResult(c, rv, n)
  PROVE  /\ received[c] + n <= sentByPeer[c]
         /\ received[c] + n <= MaxBytes
         /\ rv = 0 => received[c] + n = sentByPeer[c] /\ fin[c]
BY WrapAssumption DEF EchoInv, EchoTypeOK, RecvResult, RecvAnswer

\* client_readcb or client_writecb closes the connection.
LEMMA ClosingKeeps ==
  ASSUME EchoInv, NEW c \in Conn,
         ReadCloses(c) \/ ReadSendFails(c) \/ WriteFails(c)
  PROVE  EchoInv'
<1>0. /\ total \in [Conn -> 0 .. SizeMod - 1]
      /\ recv_total \in 0 .. SizeMod - 1
      /\ received[c] \in 0 .. MaxBytes /\ echoed[c] \in 0 .. MaxBytes
      /\ sentByPeer[c] \in 0 .. MaxBytes
      /\ echoed[c] <= received[c] /\ received[c] <= sentByPeer[c]
      /\ 0 \in 0 .. MaxBytes
  BY WrapAssumption DEF EchoInv, EchoTypeOK
<1>1. CASE ReadCloses(c)
  <2>1. PICK rv \in {-1, 0}, n \in 0 .. MaxBytes :
          /\ RecvResult(c, rv, n)
          /\ rv = 0 => total[c] = 0
          /\ Chain(c, n, 0)
          /\ Close(c, rv = -1)
    BY <1>1 DEF ReadCloses
  <2>2. received[c] + n <= sentByPeer[c]
    BY <2>1, RecvBounds
  <2>3. ASSUME ~FullReads, rv # -1
        PROVE  /\ echoed[c] + 0 = received[c] + n
               /\ received[c] + n = sentByPeer[c]
    <3>1. sock[c] = "open"
      BY <1>1 DEF EchoInv, OpenInv, ReadCloses
    <3>2. total[c] = received[c] - echoed[c] /\ total[c] = 0
      BY <2>1, <2>3, <3>1 DEF EchoInv, CountInv, Backlog
    <3>3. n = 0
      BY <2>1, <2>3 DEF RecvResult, RecvAnswer
    <3>4. received[c] + n = sentByPeer[c]
      BY <2>1, <2>3, RecvBounds
    <3> QED BY <1>0, <3>2, <3>3, <3>4
  <2>4. total' = [total EXCEPT ![c] = total[c]] /\ events[c] # {}
    BY <1>0, <1>1 DEF ReadCloses
  <2>5. total[c] \in 0 .. SizeMod - 1 /\ recv_total' \in 0 .. SizeMod - 1
    BY <1>0, <1>1 DEF ReadCloses
  <2>6. UNCHANGED <<peerVars, shut, eof, writing, send_total>>
    BY <1>1 DEF ReadCloses
  <2>7. (rv = -1) \in BOOLEAN
    OBVIOUS
  <2>8. echoed[c] + 0 <= received[c] + n
    BY <1>0
  <2> QED BY <1>0, <2>1, <2>2, <2>3, <2>4, <2>5, <2>6, <2>7, <2>8, CloseKeeps
<1>2. CASE ReadSendFails(c)
  <2>1. PICK n \in 0 .. MaxBytes, m \in 0 .. MaxBytes :
          /\ RecvResult(c, 1, n)
          /\ SendResult(Backlog(c) + n, -1, m)
          /\ Chain(c, n, m)
          /\ total' = [total EXCEPT ![c] = Plus(@, n)]
          /\ recv_total' = Plus(recv_total, n)
    BY <1>2 DEF ReadSendFails
  <2>2. received[c] + n <= sentByPeer[c]
    BY <2>1, RecvBounds
  <2>3. echoed[c] + m <= received[c] + n
    BY <1>0, <2>1 DEF SendResult, Backlog
  <2>4. total' = [total EXCEPT ![c] = Plus(total[c], n)] /\ events[c] # {}
    BY <1>0, <1>2, <2>1 DEF ReadSendFails
  <2>5. /\ Plus(total[c], n) \in 0 .. SizeMod - 1
        /\ recv_total' \in 0 .. SizeMod - 1
    BY <1>0, <2>1, SizeArithmetic
  <2>6. UNCHANGED <<peerVars, shut, eof, writing, send_total>> /\ Close(c, TRUE)
    BY <1>2 DEF ReadSendFails
  <2> QED BY <2>1, <2>2, <2>3, <2>4, <2>5, <2>6, CloseKeeps
<1>3. CASE WriteFails(c)
  <2>1. PICK m \in 0 .. MaxBytes : SendResult(Backlog(c), -1, m) /\ Chain(c, 0, m)
    BY <1>3 DEF WriteFails
  <2>2. received[c] + 0 <= sentByPeer[c] /\ echoed[c] + m <= received[c] + 0
    BY <1>0, <2>1 DEF SendResult, Backlog
  <2>3. total' = [total EXCEPT ![c] = total[c]] /\ events[c] # {}
    BY <1>0, <1>3 DEF WriteFails
  <2>4. total[c] \in 0 .. SizeMod - 1 /\ recv_total' \in 0 .. SizeMod - 1
    BY <1>0, <1>3 DEF WriteFails
  <2>5. UNCHANGED <<peerVars, shut, eof, writing, send_total>> /\ Close(c, TRUE)
    BY <1>3 DEF WriteFails
  <2> QED BY <1>0, <2>1, <2>2, <2>3, <2>4, <2>5, CloseKeeps
<1> QED BY <1>1, <1>2, <1>3

\* What an invariant state says of a connection with a registered event.
LEMMA Registered ==
  ASSUME EchoInv, NEW c \in Conn, events[c] # {}
  PROVE  /\ sock[c] = "open" /\ ~shut[c]
         /\ received[c] \in 0 .. MaxBytes /\ echoed[c] \in 0 .. MaxBytes
         /\ sentByPeer[c] \in 0 .. MaxBytes /\ total[c] \in 0 .. SizeMod - 1
         /\ echoed[c] <= received[c] /\ received[c] <= sentByPeer[c]
         /\ writing[c] <=> total[c] # 0
         /\ writing[c] <=> "WRABLE" \in events[c]
         /\ ~eof[c] <=> "RDABLE" \in events[c]
         /\ (eof[c] => ~FullReads) => total[c] = received[c] - echoed[c]
<1>1. sock[c] = "open" /\ ~shut[c]
  BY DEF EchoInv, OpenInv, EndInv
<1>2. /\ received[c] \in 0 .. MaxBytes /\ echoed[c] \in 0 .. MaxBytes
      /\ sentByPeer[c] \in 0 .. MaxBytes /\ total[c] \in 0 .. SizeMod - 1
      /\ echoed[c] <= received[c] /\ received[c] <= sentByPeer[c]
  BY DEF EchoInv, EchoTypeOK
<1>3. /\ writing[c] <=> total[c] # 0
      /\ writing[c] <=> "WRABLE" \in events[c]
      /\ ~eof[c] <=> "RDABLE" \in events[c]
  BY <1>1 DEF EchoInv, WriterRegistered
<1>4. (eof[c] => ~FullReads) => total[c] = received[c] - echoed[c]
  BY <1>1 DEF EchoInv, CountInv, Backlog
<1> QED BY <1>1, <1>2, <1>3, <1>4

\* client_readcb at the end of the stream: without a full read, no byte came
\* with it, so that total still is the backlog.
LEMMA ReadEofKeeps ==
  ASSUME EchoInv, NEW c \in Conn, ReadEof(c)
  PROVE  EchoInv'
<1>1. PICK n \in 0 .. MaxBytes : RecvResult(c, 0, n) /\ Chain(c, n, 0)
  BY DEF ReadEof
<1>2. /\ received[c] + n <= MaxBytes /\ fin[c]
      /\ received[c] + n = sentByPeer[c]
  BY <1>1, RecvBounds
<1>3. ~FullReads => n = 0
  BY <1>1 DEF RecvResult, RecvAnswer
<1>4. events[c] # {} /\ "RDABLE" \in events[c]
  BY DEF ReadEof
<1>5. EchoTypeOK'
  BY <1>1, <1>2 DEF EchoInv, EchoTypeOK, ReadEof, Chain, peerVars
<1>6. OpenInv' /\ WriterRegistered'
  BY <1>1, <1>4, Registered
  DEF EchoInv, EchoTypeOK, OpenInv, WriterRegistered, ReadEof, Chain
<1>7. EndInv'
  BY <1>1, <1>2, <1>4, Registered
  DEF EchoInv, EchoTypeOK, EndInv, ReadEof, Chain, peerVars
<1>8. CountInv' /\ (~FullReads => EchoComplete')
  BY <1>1, <1>3, <1>4, Registered
  DEF EchoInv, EchoTypeOK, CountInv, EchoComplete, Backlog, ReadEof, Chain,
      peerVars
<1> QED BY <1>5, <1>6, <1>7, <1>8 DEF EchoInv

\* client_readcb while client_writecb is registered.
LEMMA ReadBuffersKeeps ==
  ASSUME EchoInv, NEW c \in Conn, ReadBuffers(c)
  PROVE  EchoInv'
<1>1. PICK n \in 0 .. MaxBytes :
        /\ RecvResult(c, 1, n)
        /\ Chain(c, n, 0)
        /\ total' = [total EXCEPT ![c] = Plus(@, n)]
        /\ recv_total' = Plus(recv_total, n)
  BY DEF ReadBuffers
<1>2. received[c] + n <= sentByPeer[c] /\ received[c] + n <= MaxBytes
  BY <1>1, RecvBounds
<1>3. events[c] # {} /\ "RDABLE" \in events[c] /\ writing[c]
  BY DEF ReadBuffers
<1>4. /\ Plus(total[c], n) \in 0 .. SizeMod - 1
      /\ Plus(recv_total, n) \in 0 .. SizeMod - 1
      /\ total[c] + n < SizeMod => Plus(total[c], n) = total[c] + n
  <2>1. total[c] \in 0 .. SizeMod - 1 /\ recv_total \in 0 .. SizeMod - 1
    BY DEF EchoInv, EchoTypeOK
  <2> QED BY <2>1, SizeArithmetic
<1>5. EchoTypeOK'
  BY <1>1, <1>2, <1>4 DEF EchoInv, EchoTypeOK, ReadBuffers, Chain, peerVars
<1>6. Plus(total[c], n) # 0
  BY <1>2, <1>3, <1>4, Registered, WrapAssumption
<1>7. OpenInv' /\ WriterRegistered'
  BY <1>1, <1>3, <1>6, Registered
  DEF EchoInv, EchoTypeOK, OpenInv, WriterRegistered, ReadBuffers, Chain
<1>8. EndInv'
  BY <1>1, <1>3, Registered
  DEF EchoInv, EchoTypeOK, EndInv, ReadBuffers, Chain, peerVars
<1>9. CountInv' /\ (~FullReads => EchoComplete')
  BY <1>1, <1>2, <1>3, <1>4, Registered, WrapAssumption
  DEF EchoInv, EchoTypeOK, CountInv, EchoComplete, Backlog, ReadBuffers, Chain,
      peerVars
<1> QED BY <1>5, <1>7, <1>8, <1>9 DEF EchoInv

\* client_readcb sends at once and registers client_writecb for the rest.
LEMMA ReadEchoesKeeps ==
  ASSUME EchoInv, NEW c \in Conn, ReadEchoes(c)
  PROVE  EchoInv'
<1>1. PICK n \in 0 .. MaxBytes, m \in 0 .. MaxBytes, rv \in {0, 1} :
        /\ RecvResult(c, 1, n)
        /\ SendResult(Backlog(c) + n, rv, m)
        /\ Chain(c, n, m)
        /\ total' = [total EXCEPT ![c] = Minus(Plus(@, n), m)]
        /\ recv_total' = Plus(recv_total, n)
        /\ send_total' = Plus(send_total, m)
  BY DEF ReadEchoes
<1>2. received[c] + n <= sentByPeer[c] /\ received[c] + n <= MaxBytes
  BY <1>1, RecvBounds
<1>3. events[c] # {} /\ "RDABLE" \in events[c] /\ ~writing[c] /\ ~eof[c]
  BY Registered DEF ReadEchoes
<1>4. echoed[c] + m <= received[c] + n /\ echoed[c] + m <= MaxBytes
  <2>1. m <= received[c] - echoed[c] + n
    BY <1>1 DEF SendResult, Backlog
  <2>2. received[c] \in Int /\ echoed[c] \in Int
    BY <1>3, Registered
  <2> QED BY <1>2, <2>1, <2>2, WrapAssumption
<1>5. /\ Minus(Plus(total[c], n), m) = received[c] + n - (echoed[c] + m)
      /\ Minus(Plus(total[c], n), m) \in 0 .. SizeMod - 1
  <2>1. /\ total[c] = received[c] - echoed[c] /\ total[c] \in 0 .. SizeMod - 1
        /\ received[c] \in 0 .. MaxBytes /\ echoed[c] \in 0 .. MaxBytes
    BY <1>3, Registered
  <2>2. total[c] + n < SizeMod
    BY <1>2, <2>1, WrapAssumption
  <2>3. Plus(total[c], n) = total[c] + n /\ Plus(total[c], n) \in 0 .. SizeMod - 1
    BY <2>1, <2>2, SizeArithmetic
  <2>4. m <= Plus(total[c], n)
    BY <1>4, <2>1, <2>3
  <2>5. /\ Minus(Plus(total[c], n), m) = Plus(total[c], n) - m
        /\ Minus(Plus(total[c], n), m) \in 0 .. SizeMod - 1
    BY <2>3, <2>4, SizeArithmetic
  <2> QED BY <2>1, <2>3, <2>5
<1>6. recv_total' \in 0 .. SizeMod - 1 /\ send_total' \in 0 .. SizeMod - 1
  BY <1>1, SizeArithmetic DEF EchoInv, EchoTypeOK
<1>7. total' = [total EXCEPT ![c] = Minus(Plus(total[c], n), m)]
  BY <1>1
<1> DEFINE t == Minus(Plus(total[c], n), m)
<1>8. total'[c] = t /\ total \in [Conn -> 0 .. SizeMod - 1]
  BY <1>7 DEF EchoInv, EchoTypeOK
<1> HIDE DEF t
<1>9. /\ total' = [total EXCEPT ![c] = t] /\ Chain(c, n, m)
      /\ events' = [events EXCEPT ![c] =
                      IF t # 0 THEN @ \union {"WRABLE"} ELSE @]
      /\ writing' = [writing EXCEPT ![c] = t # 0]
      /\ UNCHANGED <<sock, aborted, peerVars, shut, eof>>
  BY <1>1, <1>7, <1>8 DEF ReadEchoes, t
<1>10. t = received[c] + n - (echoed[c] + m) /\ t \in 0 .. SizeMod - 1
  BY <1>5 DEF t
<1>11. EchoTypeOK'
  <2>1. /\ total' \in [Conn -> 0 .. SizeMod - 1]
        /\ events' \in [Conn -> SUBSET {"RDABLE", "WRABLE"}]
        /\ writing' \in [Conn -> BOOLEAN]
    BY <1>9, <1>10 DEF EchoInv, EchoTypeOK
  <2>2. /\ received' \in [Conn -> 0 .. MaxBytes]
        /\ echoed' \in [Conn -> 0 .. MaxBytes]
        /\ \A d \in Conn : /\ echoed'[d] <= received'[d]
                           /\ received'[d] <= sentByPeer'[d]
    BY <1>2, <1>4, <1>9 DEF EchoInv, EchoTypeOK, Chain, peerVars
  <2> QED BY <1>6, <1>9, <2>1, <2>2 DEF EchoInv, EchoTypeOK, peerVars
<1>12. OpenInv' /\ WriterRegistered'
  <2>0. sock[c] = "open"
    BY <1>3, Registered
  <2>1. ASSUME NEW d \in Conn, d # c
        PROVE  /\ events'[d] = events[d] /\ writing'[d] = writing[d] /\ total'[d] = total[d]
               /\ received'[d] = received[d]
    BY <1>9, <2>1 DEF EchoInv, EchoTypeOK, Chain
  <2>2. OpenInv'
    BY <1>9, <2>0, <2>1 DEF EchoInv, OpenInv
  <2>3. WriterRegistered'
    BY <1>3, <1>9, Registered DEF EchoInv, EchoTypeOK, WriterRegistered
  <2> QED BY <2>2, <2>3
<1>13. EndInv'
  BY <1>3, <1>9, Registered DEF EchoInv, EchoTypeOK, EndInv, Chain, peerVars
<1>14. CountInv'
  BY <1>3, <1>9, <1>10 DEF EchoInv, EchoTypeOK, CountInv, Backlog, Chain
<1>15. ~FullReads => EchoComplete'
  BY <1>3, <1>9, Registered DEF EchoInv, EchoTypeOK, EchoComplete, Chain, peerVars
<1> QED BY <1>11, <1>12, <1>13, <1>14, <1>15 DEF EchoInv

\* client_writecb sends; only when nothing is left does it deregister itself
\* and, at the end of the stream, end the connection.
LEMMA WriteSendsKeeps ==
  ASSUME EchoInv, NEW c \in Conn, NEW m \in 0 .. MaxBytes, WriteSends(c, m)
  PROVE  EchoInv'
<1> DEFINE t == Minus(total[c], m)
<1>1. total' = [total EXCEPT ![c] = t] /\ Chain(c, 0, m)
  BY DEF WriteSends
<1>2. events[c] # {} /\ "WRABLE" \in events[c] /\ writing[c]
  BY Registered DEF WriteSends
<1>3. echoed[c] + m <= received[c]
  BY <1>2, Registered DEF WriteSends, SendResult, Backlog
<1>4. /\ t \in 0 .. SizeMod - 1
      /\ send_total' \in 0 .. SizeMod - 1
      /\ (eof[c] => ~FullReads) => t = received[c] - (echoed[c] + m)
  <2>1. total[c] \in 0 .. SizeMod - 1 /\ send_total \in 0 .. SizeMod - 1
    BY DEF EchoInv, EchoTypeOK
  <2>2. t \in 0 .. SizeMod - 1 /\ (m <= total[c] => t = total[c] - m)
    BY <2>1, SizeArithmetic
  <2>3. send_total' \in 0 .. SizeMod - 1
    BY <2>1, SizeArithmetic DEF WriteSends
  <2>4. (eof[c] => ~FullReads) => t = received[c] - (echoed[c] + m)
    BY <1>2, <1>3, <2>2, Registered
  <2> QED BY <2>2, <2>3, <2>4
<1> HIDE DEF t
<1>5. total'[c] = t
  BY <1>1 DEF EchoInv, EchoTypeOK
<1>6. EchoTypeOK'
  <2>1. /\ total' \in [Conn -> 0 .. SizeMod - 1]
        /\ events' \in [Conn -> SUBSET {"RDABLE", "WRABLE"}]
        /\ writing' \in [Conn -> BOOLEAN]
        /\ shut' \in [Conn -> BOOLEAN]
    <3>1. total' \in [Conn -> 0 .. SizeMod - 1]
      BY <1>1, <1>4 DEF EchoInv, EchoTypeOK
    <3>2. CASE total'[c] = 0
      <4>1. /\ events' = [events EXCEPT ![c] = @ \ {"WRABLE"}]
            /\ writing' = [writing EXCEPT ![c] = FALSE]
            /\ shut' = [shut EXCEPT ![c] = eof[c]]
        BY <3>2 DEF WriteSends
      <4>2. events' \in [Conn -> SUBSET {"RDABLE", "WRABLE"}]
        BY <4>1 DEF EchoInv, EchoTypeOK
      <4>3. writing' \in [Conn -> BOOLEAN] /\ shut' \in [Conn -> BOOLEAN]
        BY <4>1 DEF EchoInv, EchoTypeOK
      <4> QED BY <3>1, <4>2, <4>3
    <3>3. CASE total'[c] # 0
      BY <3>1, <3>3 DEF EchoInv, EchoTypeOK, WriteSends
    <3> QED BY <3>2, <3>3
  <2>2. UNCHANGED <<sock, aborted, peerVars, eof, recv_total>>
    BY DEF WriteSends
  <2>3. /\ received' \in [Conn -> 0 .. MaxBytes]
        /\ echoed' \in [Conn -> 0 .. MaxBytes]
        /\ \A d \in Conn : /\ echoed'[d] <= received'[d]
                           /\ received'[d] <= sentByPeer'[d]
    <3>1. received' = received /\ echoed' = [echoed EXCEPT ![c] = @ + m]
      BY <1>1 DEF EchoInv, EchoTypeOK, Chain
    <3>2. /\ received \in [Conn -> 0 .. MaxBytes]
          /\ echoed \in [Conn -> 0 .. MaxBytes]
          /\ \A d \in Conn : echoed[d] <= received[d]
          /\ \A d \in Conn : received[d] <= sentByPeer[d]
      BY DEF EchoInv, EchoTypeOK
    <3>3. echoed[c] + m \in 0 .. MaxBytes
      BY <1>3, <3>2, WrapAssumption
    <3> QED BY <1>3, <2>2, <3>1, <3>2, <3>3 DEF peerVars
  <2> QED BY <1>4, <2>1, <2>2, <2>3 DEF EchoInv, EchoTypeOK, peerVars
<1>7. OpenInv' /\ WriterRegistered'
  BY <1>1, <1>2, <1>5, Registered
  DEF EchoInv, EchoTypeOK, OpenInv, WriterRegistered, WriteSends, Chain
<1>8. EndInv'
  BY <1>1, <1>2, Registered
  DEF EchoInv, EchoTypeOK, EndInv, WriteSends, Chain, peerVars
<1>9. CountInv' /\ (~FullReads => EchoComplete')
  <2>1. CountInv'
    BY <1>1, <1>2, <1>4, Registered
    DEF EchoInv, EchoTypeOK, CountInv, Backlog, WriteSends, Chain
  <2>2. ASSUME ~FullReads PROVE EchoComplete'
    <3>1. ASSUME NEW d \in Conn, d # c
          PROVE  /\ shut'[d] = shut[d] /\ sock'[d] = sock[d] /\ aborted'[d] = aborted[d]
                 /\ echoed'[d] = echoed[d] /\ received'[d] = received[d]
                 /\ sentByPeer'[d] = sentByPeer[d]
      BY <1>1, <3>1 DEF EchoInv, EchoTypeOK, WriteSends, Chain, peerVars
    <3>2. /\ sock'[c] = sock[c] /\ sock[c] = "open"
          /\ received'[c] = received[c] /\ echoed'[c] = echoed[c] + m
          /\ sentByPeer'[c] = sentByPeer[c] /\ total'[c] = t
      <4>1. received' = [received EXCEPT ![c] = @ + 0]
            /\ echoed' = [echoed EXCEPT ![c] = @ + m]
            /\ UNCHANGED <<sock, sentByPeer>>
        BY <1>1 DEF WriteSends, Chain, peerVars
      <4>2. received[c] \in Nat /\ c \in DOMAIN received /\ c \in DOMAIN echoed
            /\ c \in DOMAIN total
        BY DEF EchoInv, EchoTypeOK
      <4>3. sock[c] = "open"
        BY <1>2, Registered
      <4> QED BY <1>1, <4>1, <4>2, <4>3
    <3>3. shut'[c] => echoed'[c] = received'[c] /\ received'[c] = sentByPeer'[c]
      <4>1. CASE t = 0
        <5>1. shut'[c] = eof[c]
          BY <1>1, <3>2, <4>1 DEF EchoInv, EchoTypeOK, WriteSends
        <5>2. eof[c] => received[c] = sentByPeer[c]
          BY DEF EchoInv, EndInv
        <5>3. received[c] = echoed[c] + m
          <6>1. 0 = received[c] - (echoed[c] + m)
            BY <1>4, <2>2, <4>1
          <6>2. received[c] \in Nat /\ echoed[c] \in Nat /\ m \in Nat
            BY WrapAssumption DEF EchoInv, EchoTypeOK
          <6> QED BY <6>1, <6>2
        <5> QED BY <3>2, <5>1, <5>2, <5>3
      <4>2. CASE t # 0
        <5>1. shut' = shut
          BY <1>1, <3>2, <4>2 DEF WriteSends
        <5>2. ~shut[c]
          BY <1>2 DEF EchoInv, EndInv
        <5> QED BY <5>1, <5>2
      <4> QED BY <4>1, <4>2
    <3> QED BY <2>2, <3>1, <3>2, <3>3 DEF EchoInv, EchoComplete
  <2> QED BY <2>1, <2>2
<1> QED BY <1>6, <1>7, <1>8, <1>9 DEF EchoInv

-----------------------------------------------------------------------------
\* What demo.c keeps between any two callbacks: every variable has its type,
\* an event is registered only for an open connection, client_writecb is
\* registered exactly while there is something to send, and total is the
\* backlog until the end of the stream.
THEOREM InductiveInvariant == EchoSpec => []EchoInv
<1>1. EchoInit => EchoInv
  BY InitEstablishes
<1>2. EchoInv /\ [EchoNext]_echoVars => EchoInv'
  <2> SUFFICES ASSUME EchoInv, [EchoNext]_echoVars PROVE EchoInv'
    OBVIOUS
  <2>1. CASE UNCHANGED echoVars
    BY <2>1 DEF echoVars, peerVars, EchoInv, EchoTypeOK, OpenInv, EndInv,
                WriterRegistered, CountInv, EchoComplete, Backlog
  <2>2. CASE EchoNext
    <3>1. PICK c \in Conn :
            \/ PeerSends(c) \/ PeerEnds(c)
            \/ server_accept_cb(c) \/ AcceptFails(c) \/ AcceptUnregistered(c)
            \/ client_readcb(c)
            \/ client_writecb(c)
      BY <2>2 DEF EchoNext
    <3>2. CASE PeerSends(c) \/ PeerEnds(c)
      BY <3>2, PeerKeeps
    <3>3. CASE server_accept_cb(c) \/ AcceptFails(c) \/ AcceptUnregistered(c)
      BY <3>3, AcceptKeeps
    <3>4. CASE client_readcb(c)
      BY <3>4, ClosingKeeps, ReadEofKeeps, ReadBuffersKeeps, ReadEchoesKeeps
      DEF client_readcb
    <3>5. CASE client_writecb(c)
      BY <3>5, ClosingKeeps, WriteSendsKeeps DEF client_writecb
    <3> QED BY <3>1, <3>2, <3>3, <3>4, <3>5
  <2> QED BY <2>1, <2>2
<1> QED BY <1>1, <1>2, PTL DEF EchoSpec

\* The variables of demo.c have their types, and a chain never sends more
\* than it took in.
THEOREM TypeCorrect == EchoSpec => []EchoTypeOK
<1>1. EchoInv => EchoTypeOK
  BY DEF EchoInv
<1> QED BY <1>1, InductiveInvariant, PTL

\* client_writecb is registered exactly while total is not 0 and
\* client_readcb exactly until the end of the stream, full reads or not.
THEOREM RegistersWriter == EchoSpec => []WriterRegistered
<1>1. EchoInv => WriterRegistered
  BY DEF EchoInv
<1> QED BY <1>1, InductiveInvariant, PTL

\* If no readv fills both buffers, the server echoes everything before it
\* ends a connection.
THEOREM EchoesWithoutFullReads ==
  ASSUME ~FullReads
  PROVE  EchoSpec => []EchoComplete
<1>1. EchoInv => EchoComplete
  BY DEF EchoInv
<1> QED BY <1>1, InductiveInvariant, PTL

\* If no readv fills both buffers, conn->total, from which the callbacks
\* conclude that everything was sent, is the number of bytes in the chain.
THEOREM TotalCountsBacklog ==
  ASSUME ~FullReads
  PROVE  EchoSpec => []TotalIsBacklog
<1>1. EchoInv => TotalIsBacklog
  BY DEF EchoInv, CountInv, TotalIsBacklog
<1> QED BY <1>1, InductiveInvariant, PTL
-----------------------------------------------------------------------------
(* The statistics, which wrap around like every size_t.                    *)

Congruent(a, b) == \E k \in Int : a = b + k * SizeMod

LEMMA CongruentSame ==
  ASSUME NEW a \in Int
  PROVE  Congruent(a, a)
<1>1. 0 \in Int /\ a = a + 0 * SizeMod
  BY WrapAssumption
<1> QED BY <1>1 DEF Congruent

\* size_t additions and subtractions are right modulo SizeMod.
LEMMA SizeCongruent ==
  ASSUME NEW a \in 0 .. SizeMod - 1, NEW b \in 0 .. SizeMod - 1
  PROVE  Congruent(Plus(a, b), a + b) /\ Congruent(Minus(a, b), a - b)
<1>1. SizeMod \in Nat /\ a \in Int /\ b \in Int
  BY WrapAssumption
<1>2. /\ a + b = a + b + 0 * SizeMod /\ a + b - SizeMod = a + b + (-1) * SizeMod
      /\ a - b = a - b + 0 * SizeMod /\ a - b + SizeMod = a - b + 1 * SizeMod
      /\ 0 \in Int /\ -1 \in Int /\ 1 \in Int
  BY <1>1
<1>3. Congruent(Plus(a, b), a + b)
  <2>1. Plus(a, b) = a + b + 0 * SizeMod \/ Plus(a, b) = a + b + (-1) * SizeMod
    BY <1>2 DEF Plus
  <2> QED BY <1>2, <2>1 DEF Congruent
<1>4. Congruent(Minus(a, b), a - b)
  <2>1. Minus(a, b) = a - b + 0 * SizeMod \/ Minus(a, b) = a - b + 1 * SizeMod
    BY <1>2 DEF Minus
  <2> QED BY <1>2, <2>1 DEF Congruent
<1> QED BY <1>3, <1>4

LEMMA CongruentAdd ==
  ASSUME NEW a \in Int, NEW b \in Int, NEW c \in Int, NEW d \in Int,
         Congruent(a, b), Congruent(c, d)
  PROVE  Congruent(a + c, b + d) /\ Congruent(a - c, b - d)
<1>1. PICK i \in Int : a = b + i * SizeMod
  BY DEF Congruent
<1>2. PICK j \in Int : c = d + j * SizeMod
  BY DEF Congruent
<1>3. SizeMod \in Int
  BY WrapAssumption
<1>4. /\ i + j \in Int /\ a + c = (b + d) + (i + j) * SizeMod
      /\ i - j \in Int /\ a - c = (b - d) + (i - j) * SizeMod
  BY <1>1, <1>2, <1>3
<1> QED BY <1>4 DEF Congruent

LEMMA CongruentTrans ==
  ASSUME NEW a \in Int, NEW b \in Int, NEW c \in Int, Congruent(a, b), Congruent(b, c)
  PROVE  Congruent(a, c)
<1>1. PICK i \in Int : a = b + i * SizeMod
  BY DEF Congruent
<1>2. PICK j \in Int : b = c + j * SizeMod
  BY DEF Congruent
<1>3. SizeMod \in Int
  BY WrapAssumption
<1>4. i + j \in Int /\ a = c + (i + j) * SizeMod
  BY <1>1, <1>2, <1>3
<1> QED BY <1>4 DEF Congruent

LEMMA CongruentMod ==
  ASSUME NEW a \in 0 .. SizeMod - 1, NEW b \in Nat, Congruent(a, b)
  PROVE  a = b % SizeMod
<1> DEFINE q == b \div SizeMod
           r == b % SizeMod
<1>1. SizeMod \in Nat /\ SizeMod > 0
  BY WrapAssumption
<1>2. q \in Int /\ r \in 0 .. SizeMod - 1 /\ b = SizeMod * q + r
  BY <1>1
<1>3. PICK i \in Int : a = b + i * SizeMod
  BY DEF Congruent
<1> HIDE DEF q, r
<1>4. a - r = (i + q) * SizeMod /\ i + q \in Int
  BY <1>1, <1>2, <1>3
<1>5. \A m \in Int : m * SizeMod > -SizeMod /\ m * SizeMod < SizeMod => m = 0
  <2> TAKE m \in Int
  <2>1. CASE m >= 1
    <3>1. (m - 1) * SizeMod >= 0
      BY <1>1, <2>1
    <3>2. m * SizeMod = (m - 1) * SizeMod + SizeMod
      BY <1>1
    <3> QED BY <1>1, <3>1, <3>2
  <2>2. CASE m <= -1
    <3>1. (-1 - m) * SizeMod >= 0
      BY <1>1, <2>2
    <3>2. m * SizeMod = -SizeMod - (-1 - m) * SizeMod
      BY <1>1
    <3> QED BY <1>1, <3>1, <3>2
  <2> QED BY <2>1, <2>2
<1>6. a - r > -SizeMod /\ a - r < SizeMod
  BY <1>1, <1>2
<1>7. i + q = 0
  BY <1>4, <1>5, <1>6
<1>8. a - r = 0
  BY <1>1, <1>4, <1>7
<1>9. a = r
  BY <1>1, <1>2, <1>8
<1> QED BY <1>9 DEF r

LEMMA CongruentSym ==
  ASSUME NEW a \in Int, NEW b \in Int, Congruent(a, b)
  PROVE  Congruent(b, a)
<1>1. PICK i \in Int : a = b + i * SizeMod
  BY DEF Congruent
<1>2. -i \in Int /\ b = a + (-i) * SizeMod
  BY <1>1, WrapAssumption
<1> QED BY <1>2 DEF Congruent

\* The counters of the server differ by the sum of those of its connections.
Balanced == Congruent(recv_total - send_total, SumOver(total, Conn))

\* A callback takes n bytes in, sends m, and counts both at both places.
LEMMA CountedKeeps ==
  ASSUME EchoTypeOK, EchoTypeOK', Balanced, NEW c \in Conn, NEW n \in Int, NEW m \in Int,
         Congruent(recv_total', recv_total + n), Congruent(send_total', send_total + m),
         Congruent(total'[c], total[c] + (n - m)), \A d \in Conn \ {c} : total[d] = total'[d]
  PROVE  Balanced'
<1> DEFINE s == SumOver(total, Conn)
           t == SumOver(total', Conn)
           k == n - m
<1>1. /\ recv_total \in Int /\ send_total \in Int /\ recv_total' \in Int /\ send_total' \in Int
      /\ total \in [Conn -> Nat] /\ total' \in [Conn -> Nat] /\ k \in Int
  BY WrapAssumption DEF EchoTypeOK
<1>2. s \in Nat /\ t \in Nat /\ t - total'[c] = s - total[c]
  BY <1>1, ConnAssumption, SumChange
<1>3. total[c] \in Int /\ total'[c] \in Int
  BY <1>1
<1> HIDE DEF s, t, k
<1>4. Congruent(t, s + k)
  <2>1. Congruent(s - total[c], s - total[c])
    BY <1>2, <1>3, CongruentSame
  <2>2. Congruent((s - total[c]) + total'[c], (s - total[c]) + (total[c] + k))
    BY <1>1, <1>2, <1>3, <2>1, CongruentAdd DEF k
  <2>3. (s - total[c]) + total'[c] = t /\ (s - total[c]) + (total[c] + k) = s + k
    BY <1>1, <1>2, <1>3
  <2> QED BY <2>2, <2>3
<1>5. Congruent(recv_total' - send_total', s + k)
  <2>1. Congruent(recv_total' - send_total', (recv_total + n) - (send_total + m))
    BY <1>1, CongruentAdd
  <2>2. Congruent((recv_total - send_total) + k, s + k)
    <3>1. Congruent(k, k) /\ Congruent(recv_total - send_total, s)
      BY <1>1, CongruentSame DEF Balanced, s
    <3> QED BY <1>1, <1>2, <3>1, CongruentAdd
  <2>3. (recv_total + n) - (send_total + m) = (recv_total - send_total) + k
    BY <1>1 DEF k
  <2> QED BY <1>1, <1>2, <2>1, <2>2, <2>3, CongruentTrans
<1>6. Congruent(s + k, t)
  BY <1>1, <1>2, <1>4, CongruentSym
<1>7. Congruent(recv_total' - send_total', t)
  BY <1>1, <1>2, <1>5, <1>6, CongruentTrans
<1> QED BY <1>7 DEF Balanced, t

\* A byte count is a size_t.
LEMMA CountType ==
  ASSUME NEW n \in 0 .. MaxBytes
  PROVE  n \in 0 .. SizeMod - 1 /\ n \in Int /\ 0 - n \in Int
BY WrapAssumption

\* The four actions that count.
LEMMA CountingKeeps ==
  ASSUME EchoInv, EchoInv', Balanced, NEW c \in Conn, client_readcb(c) \/ client_writecb(c)
  PROVE  Balanced'
<1>0. EchoTypeOK /\ EchoTypeOK' /\ total \in [Conn -> 0 .. SizeMod - 1] /\ total[c] \in 0 .. SizeMod - 1
      /\ recv_total \in 0 .. SizeMod - 1 /\ send_total \in 0 .. SizeMod - 1
      /\ total[c] \in Int /\ recv_total \in Int /\ send_total \in Int
  BY WrapAssumption DEF EchoInv, EchoTypeOK
<1>1. ASSUME UNCHANGED <<total, recv_total, send_total>> PROVE Balanced'
  BY <1>1 DEF Balanced
<1>2. CASE ReadCloses(c) \/ ReadEof(c) \/ WriteFails(c)
  BY <1>1, <1>2 DEF ReadCloses, ReadEof, WriteFails
<1>3. ASSUME NEW n \in 0 .. MaxBytes, total' = [total EXCEPT ![c] = Plus(@, n)],
             recv_total' = Plus(recv_total, n), send_total' = send_total
      PROVE  Balanced'
  <2>1. /\ total'[c] = Plus(total[c], n) /\ n \in 0 .. SizeMod - 1 /\ n \in Int
        /\ \A d \in Conn \ {c} : total[d] = total'[d]
    BY <1>0, <1>3, CountType
  <2>2. Congruent(total'[c], total[c] + n) /\ Congruent(recv_total', recv_total + n)
    BY <1>0, <1>3, <2>1, SizeCongruent
  <2>3. Congruent(send_total', send_total + 0)
    <3>1. send_total + 0 = send_total'
      BY <1>0, <1>3
    <3> QED BY <1>0, <1>3, <3>1, CongruentSame
  <2>4. n - 0 = n /\ 0 \in Int
    BY <2>1
  <2> QED BY <1>0, <2>1, <2>2, <2>3, <2>4, CountedKeeps
<1>4. CASE ReadBuffers(c) \/ ReadSendFails(c)
  <2>1. PICK n \in 0 .. MaxBytes : total' = [total EXCEPT ![c] = Plus(@, n)] /\ recv_total' = Plus(recv_total, n)
    BY <1>4 DEF ReadBuffers, ReadSendFails
  <2>2. send_total' = send_total
    BY <1>4 DEF ReadBuffers, ReadSendFails
  <2> QED BY <1>3, <2>1, <2>2
<1>5. CASE ReadEchoes(c)
  <2>1. PICK n \in 0 .. MaxBytes, m \in 0 .. MaxBytes :
          /\ total' = [total EXCEPT ![c] = Minus(Plus(@, n), m)]
          /\ recv_total' = Plus(recv_total, n) /\ send_total' = Plus(send_total, m)
    BY <1>5 DEF ReadEchoes
  <2> DEFINE p == Plus(total[c], n)
  <2>2. /\ total'[c] = Minus(p, m)
        /\ n \in 0 .. SizeMod - 1 /\ n \in Int /\ m \in 0 .. SizeMod - 1 /\ m \in Int
        /\ \A d \in Conn \ {c} : total[d] = total'[d]
    BY <1>0, <2>1, CountType
  <2>3. Congruent(p, total[c] + n) /\ Congruent(recv_total', recv_total + n)
        /\ Congruent(send_total', send_total + m)
    BY <1>0, <2>1, <2>2, SizeCongruent
  <2>4. p \in 0 .. SizeMod - 1 /\ p \in Int /\ total'[c] \in Int
    <3>1. p \in 0 .. SizeMod - 1
      BY <1>0, SizeArithmetic
    <3> HIDE DEF p
    <3> QED BY <1>0, <2>2, <3>1, WrapAssumption DEF Minus
  <2> HIDE DEF p
  <2>5. Congruent(total'[c], p - m)
    BY <2>2, <2>4, SizeCongruent
  <2>6. Congruent(p - m, (total[c] + n) - m)
    <3>1. Congruent(m, m) /\ total[c] + n \in Int
      BY <1>0, <2>2, CongruentSame
    <3> QED BY <2>2, <2>3, <2>4, <3>1, CongruentAdd
  <2>7. Congruent(total'[c], (total[c] + n) - m)
    <3>1. p - m \in Int /\ (total[c] + n) - m \in Int
      BY <1>0, <2>2, <2>4
    <3> QED BY <2>4, <2>5, <2>6, <3>1, CongruentTrans
  <2>8. (total[c] + n) - m = total[c] + (n - m)
    BY <1>0, <2>2
  <2> QED BY <1>0, <2>2, <2>3, <2>7, <2>8, CountedKeeps
<1>6. CASE \E m \in 0 .. MaxBytes : WriteSends(c, m)
  <2>1. PICK m \in 0 .. MaxBytes :
          /\ total' = [total EXCEPT ![c] = Minus(@, m)] /\ send_total' = Plus(send_total, m)
          /\ recv_total' = recv_total
    BY <1>6 DEF WriteSends
  <2>2. /\ total'[c] = Minus(total[c], m) /\ m \in 0 .. SizeMod - 1 /\ m \in Int
        /\ \A d \in Conn \ {c} : total[d] = total'[d]
    BY <1>0, <2>1, CountType
  <2>3. Congruent(total'[c], total[c] - m) /\ Congruent(send_total', send_total + m)
    BY <1>0, <2>1, <2>2, SizeCongruent
  <2>4. Congruent(recv_total', recv_total + 0)
    <3>1. recv_total + 0 = recv_total'
      BY <1>0, <2>1
    <3> QED BY <1>0, <2>1, <3>1, CongruentSame
  <2>5. total[c] - m = total[c] + (0 - m) /\ 0 \in Int
    BY <1>0, <2>2
  <2> QED BY <1>0, <2>2, <2>3, <2>4, <2>5, CountedKeeps
<1> QED BY <1>2, <1>4, <1>5, <1>6 DEF client_readcb, client_writecb

\* recv_total and send_total, which print_info prints, differ by the bytes
\* that conn->total says are still to be sent, whether the counters wrap
\* around or not and whatever failed.
THEOREM StatisticsBalance == EchoSpec => []StatsBalance
<1>1. EchoInit => Balanced
  <2> SUFFICES ASSUME EchoInit PROVE Balanced
    OBVIOUS
  <2>1. SumOver(total, Conn) = 0
    <3> DEFINE F == {T \in SUBSET Conn : SumOver(total, T) = 0}
    <3>1. {} \in F
      BY SumEmpty
    <3>2. ASSUME NEW T \in SUBSET Conn, T # {}, \A x \in T : T \ {x} \in F PROVE T \in F
      <4>1. Pick(T) \in T /\ SumOver(total, T) = total[Pick(T)] + SumOver(total, T \ {Pick(T)})
        BY <3>2, ConnAssumption, FS_Subset, SumPick
      <4>2. total[Pick(T)] = 0 /\ SumOver(total, T \ {Pick(T)}) = 0
        BY <3>2, <4>1 DEF EchoInit
      <4> QED BY <4>1, <4>2
    <3>3. \A T \in SUBSET Conn : T \in F
      <4> HIDE DEF F
      <4> QED BY <3>1, <3>2, ConnAssumption, RemovalInduction
    <3> QED BY <3>3
  <2>2. recv_total - send_total = 0 /\ 0 \in Int
    BY DEF EchoInit
  <2> QED BY <2>1, <2>2, CongruentSame DEF Balanced
<1>2. EchoInv /\ EchoInv' /\ Balanced /\ [EchoNext]_echoVars => Balanced'
  <2> SUFFICES ASSUME EchoInv, EchoInv', Balanced, [EchoNext]_echoVars PROVE Balanced'
    OBVIOUS
  <2>1. ASSUME UNCHANGED <<total, recv_total, send_total>> PROVE Balanced'
    BY <2>1 DEF Balanced
  <2>2. CASE UNCHANGED echoVars
    BY <2>1, <2>2 DEF echoVars
  <2>3. CASE EchoNext
    <3>1. PICK c \in Conn :
            \/ PeerSends(c) \/ PeerEnds(c)
            \/ server_accept_cb(c) \/ AcceptFails(c) \/ AcceptUnregistered(c)
            \/ client_readcb(c)
            \/ client_writecb(c)
      BY <2>3 DEF EchoNext
    <3>2. CASE client_readcb(c) \/ client_writecb(c)
      BY <3>2, CountingKeeps
    <3>3. CASE \/ PeerSends(c) \/ PeerEnds(c)
               \/ server_accept_cb(c) \/ AcceptFails(c) \/ AcceptUnregistered(c)
      BY <2>1, <3>3 DEF PeerSends, PeerEnds, server_accept_cb, AcceptFails, AcceptUnregistered
    <3> QED BY <3>1, <3>2, <3>3
  <2> QED BY <2>2, <2>3
<1>3. EchoInv /\ Balanced => StatsBalance
  <2> SUFFICES ASSUME EchoInv, Balanced PROVE StatsBalance
    OBVIOUS
  <2>1. /\ recv_total \in 0 .. SizeMod - 1 /\ send_total \in 0 .. SizeMod - 1
        /\ total \in [Conn -> Nat]
    BY WrapAssumption DEF EchoInv, EchoTypeOK
  <2>2. Congruent(Minus(recv_total, send_total), recv_total - send_total)
    BY <2>1, SizeCongruent
  <2>3. /\ Minus(recv_total, send_total) \in 0 .. SizeMod - 1
        /\ Minus(recv_total, send_total) \in Int /\ recv_total - send_total \in Int
    BY <2>1, WrapAssumption DEF Minus
  <2>4. SumOver(total, Conn) \in Nat
    BY <2>1, ConnAssumption, SumType
  <2>5. Congruent(Minus(recv_total, send_total), SumOver(total, Conn))
    BY <2>2, <2>3, <2>4, CongruentTrans DEF Balanced
  <2>6. Minus(recv_total, send_total) = SumOver(total, Conn) % SizeMod
    BY <2>3, <2>4, <2>5, CongruentMod
  <2> QED BY <2>6 DEF StatsBalance, SumOver
<1> QED BY <1>1, <1>2, <1>3, InductiveInvariant, PTL DEF EchoSpec
=============================================================================
