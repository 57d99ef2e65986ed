---------------------------- MODULE BufferChain -----------------------------
(***************************************************************************)
(* kznet/buffer.c: the pool of buffers, and the chains of buffers that     *)
(* hold what a connection received and has not sent yet.                   *)
(*                                                                         *)
(* Calls do not overlap (the event loop is one thread), but the chains of  *)
(* all connections share one pool.  Every readv, every writev and every    *)
(* iteration of shrink_chain is a step.  The k-th byte that arrives for a  *)
(* chain is the number k; a buffer is its read offset and the sequence of  *)
(* the bytes between its read and its write marker.                        *)
(***************************************************************************)
EXTENDS Integers, Sequences, SequencesExt

CONSTANTS
  Chain,       \* the chains that share the pool
  Buffer,      \* the addresses malloc can return for a buffer
  NoChain,     \* no chain
  Cap,         \* BUFFER_SIZE - BUFFER_HSIZE
  SM_MAX_IOV,  \* how many buffers one writev takes
  MaxSize,     \* pool->maxsize
  MaxBytes     \* for every chain, a bound on the bytes that arrive for it

ASSUME ChainAssumption == NoChain \notin Chain
ASSUME SizesAssumption ==
  /\ Cap \in Nat \ {0} /\ SM_MAX_IOV \in Nat \ {0} /\ MaxSize \in Nat \ {0}
  /\ MaxBytes \in [Chain -> Nat]

VARIABLES
  pool,     \* the free buffers, from pool->head.next to pool->tail
  allocs,   \* pool->allocs
  live,     \* the buffers malloc returned that were not freed
  chain,    \* the buffers of each chain from rbuf to wbuf; <<>> before it exists
  pos,      \* buf->pos - buf->start
  content,  \* the bytes from buf->pos to buf->last
  recv,     \* chain->recv
  sent,     \* chain->sent
  arrived,  \* how many bytes readv returned for each chain
  written,  \* the bytes writev took from each chain
  pc,       \* "idle", or the loop that runs: "recv", "send" or "shrink"
  cur,      \* the chain the running call is about
  surplus,  \* parameter size of shrink_chain
  complete, \* variable complete of buffer_chain_send
  ret       \* what the last call returned

poolVars == <<pool, allocs, live>>
bufVars == <<chain, pos, content>>
vars == <<poolVars, bufVars, recv, sent, arrived, written, pc, cur, surplus,
          complete, ret>>

Init ==
  /\ pool = <<>>
  /\ allocs = 0
  /\ live = {}
  /\ chain = [c \in Chain |-> <<>>]
  /\ pos = [b \in Buffer |-> 0]
  /\ content = [b \in Buffer |-> <<>>]
  /\ recv = [c \in Chain |-> 0]
  /\ sent = [c \in Chain |-> 0]
  /\ arrived = [c \in Chain |-> 0]
  /\ written = [c \in Chain |-> <<>>]
  /\ pc = "idle"
  /\ cur = NoChain
  /\ surplus = 0
  /\ complete = FALSE
  /\ ret = 1

buffer_rsize(b) == Len(content[b])
buffer_wsize(b) == Cap - (pos[b] + Len(content[b]))
-----------------------------------------------------------------------------
(* The pool.                                                               *)

\* buffer_pool_peek: b is the first free buffer, or a new one, which it
\* makes the only free one.  (malloc succeeds: recv would dereference NULL.)
buffer_pool_peek(b) ==
  IF pool = <<>> THEN b \in Buffer \ live ELSE b = Head(pool)

\* The pool after a peek that returned b, and after detaching b as well.
Peeked(b) ==
  /\ live' = live \union {b}
  /\ allocs' = IF pool = <<>> THEN allocs + 1 ELSE allocs
  /\ pool' = IF pool = <<>> THEN <<b>> ELSE pool

\* Mutant: the buffer stays in the pool.
DetachKeeps(b) ==
  /\ live' = live \union {b}
  /\ allocs' = IF pool = <<>> THEN allocs + 1 ELSE allocs
  /\ pool' = IF pool = <<>> THEN <<b>> ELSE pool

buffer_detach(b) ==
  /\ live' = live \union {b}
  /\ allocs' = IF pool = <<>> THEN allocs + 1 ELSE allocs
  /\ pool' = IF pool = <<>> THEN <<>> ELSE Tail(pool)

\* Mutant: pool->allocs-- is missing.
PutUncounted(b) ==
  IF allocs > MaxSize
    THEN /\ live' = live \ {b}
         /\ UNCHANGED <<pool, allocs>>
    ELSE /\ pool' = Append(pool, b)
         /\ UNCHANGED <<live, allocs>>

\* buffer_pool_put: free the buffer if there are too many, or reset it and
\* append it to the pool.
buffer_pool_put(b) ==
  IF allocs > MaxSize
    THEN /\ live' = live \ {b}
         /\ allocs' = allocs - 1
         /\ UNCHANGED pool
    ELSE /\ pool' = Append(pool, b)
         /\ UNCHANGED <<live, allocs>>

\* A buffer is reset when it is put into the pool; malloc gives new ones that
\* peek initializes in the same way.
ResetBuffer(b) ==
  /\ pos' = [pos EXCEPT ![b] = 0]
  /\ content' = [content EXCEPT ![b] = <<>>]

\* A connection creates its chain, with one buffer from buffer_pool_get.
NewChain(c) ==
  /\ pc = "idle"
  /\ chain[c] = <<>>
  /\ \E b \in Buffer :
       /\ buffer_pool_peek(b)
       /\ buffer_detach(b)
       /\ chain' = [chain EXCEPT ![c] = <<b>>]
  /\ UNCHANGED <<pos, content, recv, sent, arrived, written, pc, cur, surplus,
                 complete, ret>>
-----------------------------------------------------------------------------
(* buffer_chain_recv.                                                      *)

Return(rv) ==
  /\ pc' = "idle"
  /\ cur' = NoChain
  /\ ret' = rv

buffer_chain_recv(c) ==
  /\ pc = "idle"
  /\ chain[c] # <<>>
  /\ recv' = [recv EXCEPT ![c] = 0]
  /\ pc' = "recv"
  /\ cur' = c
  /\ UNCHANGED <<poolVars, bufVars, sent, arrived, written, surplus, complete,
                 ret>>

\* The next n bytes of the stream that arrives for chain c.
Arriving(c, n) == [i \in 1 .. n |-> arrived[c] + i]

wbuf == Last(chain[cur])

\* readv returns n > 0 bytes that fit into wbuf.
ReadFits(n) ==
  /\ pc = "recv"
  /\ n <= buffer_wsize(wbuf)
  /\ arrived[cur] + n <= MaxBytes[cur]
  /\ \E temp \in Buffer : buffer_pool_peek(temp) /\ Peeked(temp)
  /\ content' = [content EXCEPT ![wbuf] = @ \o Arriving(cur, n)]
  /\ recv' = [recv EXCEPT ![cur] = @ + n]
  /\ arrived' = [arrived EXCEPT ![cur] = @ + n]
  /\ Return(1)
  /\ UNCHANGED <<chain, pos, sent, written, surplus, complete>>

\* readv fills wbuf and goes on in the first free buffer, which becomes the
\* new wbuf; if that is full too, the loop tries to read more.
ReadSpills(n) ==
  /\ pc = "recv"
  /\ n > buffer_wsize(wbuf)
  /\ arrived[cur] + n <= MaxBytes[cur]
  /\ \E temp \in Buffer :
       LET wlen == buffer_wsize(wbuf)
           tlen == buffer_wsize(temp)
           new  == Arriving(cur, n)
       IN  /\ buffer_pool_peek(temp)
           /\ n <= wlen + tlen
           /\ buffer_detach(temp)
           /\ content' = [[content EXCEPT ![wbuf] = @ \o SubSeq(new, 1, wlen)]
                          EXCEPT ![temp] = SubSeq(new, wlen + 1, n)]
           /\ chain' = [chain EXCEPT ![cur] = Append(@, temp)]
           /\ IF n = wlen + tlen THEN UNCHANGED <<pc, cur, ret>> ELSE Return(1)
  /\ recv' = [recv EXCEPT ![cur] = @ + n]
  /\ arrived' = [arrived EXCEPT ![cur] = @ + n]
  /\ UNCHANGED <<pos, sent, written, surplus, complete>>

\* readv returns 0 at the end of the stream, fails with EAGAIN, or fails; the
\* peek before it may have taken a new buffer.  (EINTR repeats the readv.)
ReadEnds(rv) ==
  /\ pc = "recv"
  /\ \E temp \in Buffer : buffer_pool_peek(temp) /\ Peeked(temp)
  /\ Return(rv)
  /\ UNCHANGED <<bufVars, recv, sent, arrived, written, surplus, complete>>
-----------------------------------------------------------------------------
(* buffer_chain_send and shrink_chain.                                     *)

buffer_chain_send(c) ==
  /\ pc = "idle"
  /\ chain[c] # <<>>
  /\ sent' = [sent EXCEPT ![c] = 0]
  /\ pc' = "send"
  /\ cur' = c
  /\ UNCHANGED <<poolVars, bufVars, recv, arrived, written, surplus, complete,
                 ret>>

\* The bytes of a sequence of buffers.
Content(bufs) == FlattenSeq([i \in 1 .. Len(bufs) |-> content[bufs[i]]])

\* What the iovec of a writev covers: the first SM_MAX_IOV buffers.
Covered ==
  LET s == chain[cur]
  IN  Content(SubSeq(s, 1, IF Len(s) < SM_MAX_IOV THEN Len(s) ELSE SM_MAX_IOV))

\* writev takes n > 0 bytes, and shrink_chain is called.
Write(n) ==
  /\ pc = "send"
  /\ n <= Len(Covered)
  /\ written' = [written EXCEPT ![cur] = @ \o SubSeq(Covered, 1, n)]
  /\ sent' = [sent EXCEPT ![cur] = @ + n]
  /\ complete' = (n = Len(Covered))
  /\ surplus' = n
  /\ pc' = "shrink"
  /\ UNCHANGED <<poolVars, bufVars, recv, arrived, cur, ret>>

\* writev returns 0, which it does only when there is nothing to send, fails
\* with EAGAIN, or fails.
WriteEnds(rv) ==
  /\ pc = "send"
  /\ rv = 0 => Covered = <<>>
  /\ Return(rv)
  /\ UNCHANGED <<poolVars, bufVars, recv, sent, arrived, written, surplus,
                 complete>>

rbuf == Head(chain[cur])

\* Mutant: `>' for `>='.
DropsBufferStrict == Len(chain[cur]) > 1 /\ surplus > buffer_rsize(rbuf)

\* An iteration of shrink_chain: a buffer that was sent leaves the chain.
DropsBuffer == Len(chain[cur]) > 1 /\ surplus >= buffer_rsize(rbuf)

\* Mutant: size -= rlen is missing.
ShrinkDropKeepsSize ==
  /\ pc = "shrink"
  /\ DropsBuffer
  /\ chain' = [chain EXCEPT ![cur] = Tail(@)]
  /\ buffer_pool_put(rbuf)
  /\ ResetBuffer(rbuf)
  /\ UNCHANGED <<recv, sent, arrived, written, pc, cur, surplus, complete, ret>>

ShrinkDrop ==
  /\ pc = "shrink"
  /\ DropsBuffer
  /\ surplus' = surplus - buffer_rsize(rbuf)
  /\ chain' = [chain EXCEPT ![cur] = Tail(@)]
  /\ buffer_pool_put(rbuf)
  /\ ResetBuffer(rbuf)
  /\ UNCHANGED <<recv, sent, arrived, written, pc, cur, complete, ret>>

\* Mutant: buf->pos += size is missing before the first return.
ConsumeKeeps(b) ==
  LET rest == SubSeq(content[b], surplus + 1, Len(content[b]))
  IN  IF chain[cur] = <<b>> /\ rest = <<>>
        THEN ResetBuffer(b)
        ELSE UNCHANGED <<pos, content>>

\* The rest is taken from the first buffer that stays; wbuf is reset when it
\* is empty.  Then buffer_chain_send goes on, or returns.
Consume(b) ==
  LET rest == SubSeq(content[b], surplus + 1, Len(content[b]))
  IN  IF chain[cur] = <<b>> /\ rest = <<>>
        THEN ResetBuffer(b)
        ELSE /\ pos' = [pos EXCEPT ![b] = @ + surplus]
             /\ content' = [content EXCEPT ![b] = rest]

\* Mutant: whether the chain is empty is not looked at.
SendEndsLate == ~complete

SendEnds == ~complete \/ surplus = buffer_rsize(rbuf)

ShrinkDone ==
  /\ pc = "shrink"
  /\ ~DropsBuffer
  /\ Consume(rbuf)
  /\ IF SendEnds
       THEN Return(1)
       ELSE pc' = "send" /\ UNCHANGED <<cur, ret>>
  /\ surplus' = 0
  /\ complete' = FALSE
  /\ UNCHANGED <<poolVars, chain, recv, sent, arrived, written>>

Next ==
  \/ \E c \in Chain : NewChain(c) \/ buffer_chain_recv(c) \/ buffer_chain_send(c)
  \/ \E n \in 1 .. 2 * Cap : ReadFits(n) \/ ReadSpills(n)
  \/ \E rv \in {-1, 0, 1} : ReadEnds(rv) \/ WriteEnds(rv)
  \/ \E n \in 1 .. SM_MAX_IOV * Cap : Write(n)
  \/ ShrinkDrop
  \/ ShrinkDone

Spec == Init /\ [][Next]_vars
-----------------------------------------------------------------------------
(* Properties.                                                             *)

\* Every variable has its type, and no marker leaves its buffer.
TypeOK ==
  /\ pool \in Seq(Buffer)
  /\ allocs \in Nat
  /\ live \subseteq Buffer
  /\ chain \in [Chain -> Seq(Buffer)]
  /\ pos \in [Buffer -> 0 .. Cap]
  /\ content \in [Buffer -> Seq(Nat)]
  /\ \A b \in Buffer : pos[b] + Len(content[b]) <= Cap
  /\ recv \in [Chain -> Nat]
  /\ sent \in [Chain -> Nat]
  /\ arrived \in [Chain -> Nat]
  /\ \A c \in Chain : arrived[c] <= MaxBytes[c]
  /\ written \in [Chain -> Seq(Nat)]
  /\ pc \in {"idle", "recv", "send", "shrink"}
  /\ cur \in Chain \union {NoChain}
  /\ surplus \in Nat
  /\ complete \in BOOLEAN
  /\ ret \in {-1, 0, 1}

\* What was written and what is in the chain is what arrived, byte for byte
\* and in order: recv and send lose, double and reorder nothing, whatever
\* sizes readv and writev return and however often they fail.
StreamOrder ==
  \A c \in Chain : ~ (pc = "shrink" /\ cur = c) =>
    written[c] \o Content(chain[c]) = [i \in 1 .. arrived[c] |-> i]

\* Every buffer of a chain but the last is filled up to its end and holds a
\* byte to send, so writev is never given an iovec of nothing while there is
\* something to send, and shrink_chain cannot stop at an empty buffer.
ChainShape ==
  \A c \in Chain : \A i \in 1 .. Len(chain[c]) - 1 :
    /\ buffer_rsize(chain[c][i]) > 0
    /\ buffer_wsize(chain[c][i]) = 0

\* assert(size <= buffer_rsize(buf)) in shrink_chain, which NDEBUG removes.
ShrinkFits ==
  pc = "shrink" /\ Len(chain[cur]) = 1 => surplus <= buffer_rsize(rbuf)

\* Every buffer that was not freed is in exactly one place, the pool or one
\* chain, so two connections never write into the same buffer.
OneOwner ==
  /\ \A i, j \in 1 .. Len(pool) : pool[i] = pool[j] => i = j
  /\ \A c \in Chain : \A i, j \in 1 .. Len(chain[c]) :
       chain[c][i] = chain[c][j] => i = j
  /\ \A c, d \in Chain : c # d => ToSet(chain[c]) \intersect ToSet(chain[d]) = {}
  /\ \A c \in Chain : ToSet(chain[c]) \intersect ToSet(pool) = {}
  /\ live = ToSet(pool) \union UNION {ToSet(chain[c]) : c \in Chain}

\* The free buffers are empty, allocs counts the buffers, and the pool keeps
\* at most maxsize of them.
PoolClean ==
  /\ \A i \in 1 .. Len(pool) : pos[pool[i]] = 0 /\ content[pool[i]] = <<>>
  /\ allocs = Cardinality(live)
  /\ Len(pool) <= MaxSize
(***************************************************************************)
(* BufferChain implements ChainService.  What a running call has done so   *)
(* far is hidden until it returns.                                         *)
(***************************************************************************)

RecvSoFar(c) == IF pc = "recv" /\ cur = c THEN recv[c] ELSE 0
SentSoFar(c) == IF pc \in {"send", "shrink"} /\ cur = c THEN sent[c] ELSE 0

TookIn(c) == arrived[c] - RecvSoFar(c)
GaveOut(c) == Len(written[c]) - SentSoFar(c)

ShownMade == {c \in Chain : chain[c] # <<>>}
ShownReceived == [c \in Chain |-> TookIn(c)]
ShownOut == [c \in Chain |-> SubSeq(written[c], 1, GaveOut(c))]
ShownRecv == [c \in Chain |-> recv[c] - RecvSoFar(c)]
ShownSent == [c \in Chain |-> sent[c] - SentSoFar(c)]
ShownCall == IF pc = "shrink" THEN "send" ELSE pc

Service == INSTANCE ChainService WITH
  made <- ShownMade, received <- ShownReceived, out <- ShownOut,
  recv <- ShownRecv, sent <- ShownSent, running <- ShownCall, user <- cur

\* Every call of buffer.c is, for the connection that makes it, one step on a
\* queue of bytes: chain->recv and chain->sent are exactly what it took in and
\* out however many readv and writev it needed, recv reports the end of the
\* stream or an error only with no byte or with a buffer of them in hand, and
\* send returns 0 only for a chain that was empty.
ImplementsChain == Service!ServiceSpec
-----------------------------------------------------------------------------
(***************************************************************************)
(* The inductive invariant behind the theorems of BufferChainProofs.       *)
(***************************************************************************)

\* A call is about a chain that exists, and only shrink_chain has a size.
CallInv ==
  /\ pc = "idle" <=> cur = NoChain
  /\ pc # "idle" => chain[cur] # <<>>
  /\ pc # "shrink" => surplus = 0

\* A buffer in no chain is as malloc and buffer_pool_put leave it, and one in
\* a chain is reset as soon as it is empty.
CleanInv ==
  \A b \in Buffer :
    content[b] = <<>> \/ (\A c \in Chain : b \notin ToSet(chain[c])) =>
      pos[b] = 0 /\ content[b] = <<>>

\* The n numbers that follow k.
Run(k, n) == [i \in 1 .. n |-> k + i]

\* A chain holds the bytes from where writev stopped to the last one that
\* arrived; in shrink_chain, also those that still have to be taken out.
StreamInv ==
  \A c \in Chain :
    LET pending == IF pc = "shrink" /\ cur = c THEN surplus ELSE 0
        done    == Len(written[c])
    IN  /\ pending <= done /\ done <= arrived[c]
        /\ written[c] = Run(0, done)
        /\ Content(chain[c]) = Run(done - pending, arrived[c] - (done - pending))

\* What the running call has counted: bytes that did arrive or were written,
\* a readv that fills both buffers takes at least Cap of them, and buffer_chain_send
\* goes on after a writev only if there is more to send.
ProgressInv ==
  /\ pc = "recv" => recv[cur] <= arrived[cur] /\ (recv[cur] = 0 \/ recv[cur] >= Cap)
  /\ pc \in {"send", "shrink"} => sent[cur] <= Len(written[cur])
  /\ pc = "send" /\ sent[cur] # 0 => Len(written[cur]) < arrived[cur]

\* What holds between any two steps of buffer.c.
IInv ==
  /\ TypeOK
  /\ OneOwner
  /\ PoolClean
  /\ ChainShape
  /\ CallInv
  /\ CleanInv
  /\ StreamInv
  /\ IsFiniteSet(live)
=============================================================================
