---------------------------- MODULE ChainService -----------------------------
(***************************************************************************)
(* What buffer.c promises to a connection: a chain is a queue of the bytes *)
(* of a stream.  A call takes effect at the moment it returns; the value   *)
(* it returns, chain->recv and chain->sent say what it did.  BufferChain   *)
(* is shown to implement this specification, and EchoServer relies on it.  *)
(***************************************************************************)
EXTENDS Sequences, ChainResults

CONSTANTS
  Chain,     \* the chains
  NoChain,   \* no chain
  Cap,       \* how many bytes one buffer holds
  MaxBytes   \* for every chain, a bound on the bytes that arrive for it

VARIABLES
  made,      \* the chains that exist
  received,  \* how many bytes the calls of recv took in, for each chain
  out,       \* the bytes the calls of send took out: the k-th byte is k
  recv,      \* chain->recv
  sent,      \* chain->sent
  running,   \* the call in progress: "idle", "recv" or "send"
  user,      \* the chain it is about
  ret        \* what the last call returned

serviceVars == <<made, received, out, recv, sent, running, user, ret>>

ServiceInit ==
  /\ made = {}
  /\ received = [c \in Chain |-> 0] /\ out = [c \in Chain |-> <<>>]
  /\ recv = [c \in Chain |-> 0] /\ sent = [c \in Chain |-> 0]
  /\ running = "idle" /\ user = NoChain
  /\ ret = 1

\* How many bytes are in chain c, and the first n of them.
Waiting(c) == received[c] - Len(out[c])
Bytes(c, n) == [i \in 1 .. n |-> Len(out[c]) + i]

\* A chain is never given up again.
Make(c) ==
  /\ running = "idle" /\ c \notin made
  /\ made' = made \union {c}
  /\ UNCHANGED <<received, out, recv, sent, running, user, ret>>

CallRecv(c) ==
  /\ running = "idle" /\ c \in made
  /\ running' = "recv" /\ user' = c
  /\ recv' = [recv EXCEPT ![c] = 0]
  /\ UNCHANGED <<made, received, out, sent, ret>>

CallSend(c) ==
  /\ running = "idle" /\ c \in made
  /\ running' = "send" /\ user' = c
  /\ sent' = [sent EXCEPT ![c] = 0]
  /\ UNCHANGED <<made, received, out, recv, ret>>

Returns(rv) == running' = "idle" /\ user' = NoChain /\ ret' = rv

\* A readv that fills both buffers takes at least what one buffer holds.
RecvReturns(c, rv, n) ==
  /\ running = "recv" /\ user = c
  /\ received[c] + n <= MaxBytes[c]
  /\ RecvAnswer(rv, n, n >= Cap)
  /\ received' = [received EXCEPT ![c] = @ + n]
  /\ recv' = [recv EXCEPT ![c] = n]
  /\ Returns(rv)
  /\ UNCHANGED <<made, out, sent>>

SendReturns(c, rv, n) ==
  /\ running = "send" /\ user = c
  /\ SendResult(Waiting(c), rv, n)
  /\ out' = [out EXCEPT ![c] = @ \o Bytes(c, n)]
  /\ sent' = [sent EXCEPT ![c] = n]
  /\ Returns(rv)
  /\ UNCHANGED <<made, received, recv>>

ServiceNext ==
  \E c \in Chain :
    \/ Make(c) \/ CallRecv(c) \/ CallSend(c)
    \/ \E rv \in {-1, 0, 1}, n \in 0 .. MaxBytes[c] :
         RecvReturns(c, rv, n) \/ SendReturns(c, rv, n)

ServiceSpec == ServiceInit /\ [][ServiceNext]_serviceVars
=============================================================================
