---------------------------- MODULE ChainResults -----------------------------
(***************************************************************************)
(* What buffer_chain_recv and buffer_chain_send can answer.  EchoServer    *)
(* calls them through these operators; ChainService promises them, and     *)
(* BufferChain is shown to keep the promise.                               *)
(***************************************************************************)
EXTENDS Integers

\* buffer_chain_recv takes n bytes and returns rv.  It returns 1 after a readv
\* that did not fill both buffers; only after one that did, which full says is
\* possible, can it meet the end of the stream or an error with bytes in hand.
RecvAnswer(rv, n, full) == rv # 1 => n = 0 \/ full

\* Mutant: the last byte of the chain is never sent.
SendsAllButOne(k, rv, m) ==
  /\ m \in 0 .. IF k > 0 THEN k - 1 ELSE 0
  /\ rv = 0 => k = 0

\* buffer_chain_send, on a chain of k bytes, sends m of them and returns rv.
SendResult(k, rv, m) ==
  /\ m \in 0 .. k
  /\ rv = 0 => k = 0
=============================================================================
