----------------------------- MODULE MCLibrary ------------------------------
(***************************************************************************)
(* The parts of the library that share no state with each other, for TLC:  *)
(* a behaviour is one of a single part, and the others stay as they are.   *)
(* Permuting the buffers of the chains changes nothing.                    *)
(***************************************************************************)
EXTENDS SkipList, LinkList, MCBloomFilter, Socket, Lifecycle, BufferChain

VARIABLE part  \* the part that this behaviour is of

libraryVars ==
  <<skipVars, linkVars, bloomVars, socketVars, lifeVars, vars, part>>

\* A bitset without a filter, and the filter with its bitset.
BareBitSet == BitInit /\ capacity = 1 /\ count = 0 /\ hasSet = FALSE /\ added = {}
SomeBitSet == BareBitSet /\ bitLength = 8 /\ bytes[1] = {}

LibraryInit ==
  /\ part \in {"skiplist", "linklist", "bitset", "bloomfilter", "socket",
               "life", "buffers"}
  /\ SkipInit
  /\ ListInit
  /\ CASE part = "bitset"      -> BareBitSet
       [] part = "bloomfilter" -> BloomInit
       [] OTHER                -> SomeBitSet
  /\ SocketInit
  /\ LifeInit /\ (part # "life" => kind = "bitset")
  /\ Init

LibraryNext ==
  /\ \/ /\ part = "skiplist" /\ SkipNext
        /\ UNCHANGED <<linkVars, bloomVars, socketVars, lifeVars, vars>>
     \/ /\ part = "linklist" /\ ListNext
        /\ UNCHANGED <<skipVars, bloomVars, socketVars, lifeVars, vars>>
     \/ /\ part = "bitset" /\ BitNext
        /\ UNCHANGED <<capacity, count, hasSet, added>>
        /\ UNCHANGED <<skipVars, linkVars, socketVars, lifeVars, vars>>
     \/ /\ part = "bloomfilter" /\ BloomNext
        /\ UNCHANGED <<skipVars, linkVars, socketVars, lifeVars, vars>>
     \/ /\ part = "socket" /\ SocketNext
        /\ UNCHANGED <<skipVars, linkVars, bloomVars, lifeVars, vars>>
     \/ /\ part = "life" /\ LifeNext
        /\ UNCHANGED <<skipVars, linkVars, bloomVars, socketVars, vars>>
     \/ /\ part = "buffers" /\ Next
        /\ UNCHANGED <<skipVars, linkVars, bloomVars, socketVars, lifeVars>>
  /\ UNCHANGED part

LibrarySpec == LibraryInit /\ [][LibraryNext]_libraryVars

\* One chain grows longer than a writev takes, the other only needs buffers.
LongAndShort == <<5, 2>>

Symmetry == Permutations(Buffer)
=============================================================================
