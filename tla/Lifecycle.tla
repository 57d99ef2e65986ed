----------------------------- MODULE Lifecycle ------------------------------
(***************************************************************************)
(* How the objects of the library are made and ended.  A constructor asks  *)
(* for its parts one after the other, any of which may be refused, and     *)
(* then frees what it has; a destructor frees the parts, and those that    *)
(* the object collected while it was in use.  Every call of free, or close *)
(* of the epoll descriptor, is one step.                                   *)
(***************************************************************************)
EXTENDS Naturals, Sequences, SequencesExt

Kind == {"event_loop", "buffer_pool", "hashmap", "bitset", "bloomfilter"}

VARIABLES
  kind,   \* the object that is being made, used or ended
  phase,  \* "making", "undoing", "used", "ending" or "gone"
  asked,  \* how many parts were asked for
  parts,  \* the parts that are allocated
  todo,   \* what is still to be freed
  freed   \* what was freed

lifeVars == <<kind, phase, asked, parts, todo, freed>>

(* What the constructors ask for, in their order.  The poller is epoll's.  *)

timer_heap_create == <<"heap", "tes">>
poller_create == <<"poller", "pevents", "epfd">>
event_loop_create ==
  <<"loop">> \o timer_heap_create \o <<"events", "actives">> \o poller_create
buffer_pool_create == <<"pool">>
hashmap_new == <<"map", "entrys">>
BitSetNew == <<"set", "bytes">>
BloomFilterNew == <<"filter">> \o BitSetNew

Asks(k) ==
  CASE k = "event_loop"  -> event_loop_create
    [] k = "buffer_pool" -> buffer_pool_create
    [] k = "hashmap"     -> hashmap_new
    [] k = "bitset"      -> BitSetNew
    [] k = "bloomfilter" -> BloomFilterNew

(* What the destructors free, in their order.                              *)

\* The timers that are in the heap are not on the list it walks.
timer_heap_delete == <<"tes", "recycled", "heap">>
poller_delete == <<"epfd", "pevents", "poller">>
LoopError == timer_heap_delete \o <<"events", "actives", "loop">>
event_loop_delete == poller_delete \o LoopError
buffer_pool_delete == <<"recycled", "pool">>
hashmap_free == <<"entrys", "map">>
bitset_free == <<"bytes", "set">>
bloomfilter_free == bitset_free \o <<"filter">>

Destroy(k) ==
  CASE k = "event_loop"  -> event_loop_delete
    [] k = "buffer_pool" -> buffer_pool_delete
    [] k = "hashmap"     -> hashmap_free
    [] k = "bitset"      -> bitset_free
    [] k = "bloomfilter" -> bloomfilter_free

\* Mutant: the label error is reached without the poller's own clean-up.
UndoSkipsPoller(part) ==
  CASE part \in {"events", "actives", "poller", "pevents", "epfd"} -> LoopError
    [] part = "tes"    -> <<"heap", "loop">>
    [] part = "heap"   -> <<"loop">>
    [] part = "entrys" -> <<"map">>
    [] part = "bytes"  -> <<"set">>
    [] OTHER -> <<>>

\* What is freed when the part is refused.  events and actives are both asked
\* for before either is looked at.
Undo(part) ==
  CASE part \in {"events", "actives", "poller"} -> LoopError
    [] part = "pevents" -> <<"poller">> \o LoopError
    [] part = "epfd"    -> <<"pevents", "poller">> \o LoopError
    [] part = "tes"     -> <<"heap", "loop">>
    [] part = "heap"    -> <<"loop">>
    [] part = "entrys"  -> <<"map">>
    [] part = "bytes"   -> <<"set">>
    [] OTHER -> <<>>

\* bloomfilter_new does not look at what bitset_new returned.
Unchecked(part) == kind = "bloomfilter" /\ part \in {"set", "bytes"}

LifeInit ==
  /\ kind \in Kind
  /\ phase = "making"
  /\ asked = 0
  /\ parts = {} /\ todo = <<>> /\ freed = {}
-----------------------------------------------------------------------------
NextPart == Asks(kind)[asked + 1]

Granted ==
  /\ phase = "making" /\ todo = <<>>
  /\ asked < Len(Asks(kind))
  /\ asked' = asked + 1
  /\ parts' = parts \union {NextPart}
  /\ UNCHANGED <<kind, phase, todo, freed>>

Refused ==
  /\ phase = "making" /\ todo = <<>>
  /\ asked < Len(Asks(kind))
  /\ todo' = Undo(NextPart)
  /\ IF Unchecked(NextPart)
       THEN phase' = "making" /\ asked' = Len(Asks(kind))
       ELSE phase' = "undoing" /\ UNCHANGED asked
  /\ UNCHANGED <<kind, parts, freed>>

\* events was refused, but actives is asked for all the same.
RefusedAfterEvents ==
  /\ phase = "undoing" /\ freed = {}
  /\ kind = "event_loop" /\ NextPart = "events" /\ "actives" \notin parts
  /\ parts' = parts \union {"actives"}
  /\ UNCHANGED <<kind, phase, asked, todo, freed>>

Made ==
  /\ phase = "making" /\ todo = <<>>
  /\ asked = Len(Asks(kind))
  /\ phase' = "used"
  /\ freed' = {}
  /\ UNCHANGED <<kind, asked, parts, todo>>

\* The object in use: timers or buffers are allocated, and come back to its
\* list.
Collects(part) ==
  /\ phase = "used"
  /\ kind \in {"event_loop", "buffer_pool"}
  /\ parts' = parts \union {part}
  /\ UNCHANGED <<kind, phase, asked, todo, freed>>

DestructorCall ==
  /\ phase = "used"
  /\ phase' = "ending"
  /\ todo' = Destroy(kind)
  /\ UNCHANGED <<kind, asked, parts, freed>>

\* free; of NULL it does nothing.
FreePart ==
  /\ todo # <<>>
  /\ todo' = Tail(todo)
  /\ parts' = parts \ {Head(todo)}
  /\ freed' = freed \union {Head(todo)}
  /\ UNCHANGED <<kind, phase, asked>>

\* The constructor returns NULL, or the destructor returns.
Gone ==
  /\ phase \in {"undoing", "ending"} /\ todo = <<>>
  /\ phase' = "gone"
  /\ UNCHANGED <<kind, asked, parts, todo, freed>>

LifeNext ==
  \/ Granted
  \/ Refused
  \/ RefusedAfterEvents
  \/ Made
  \/ \E part \in {"recycled", "pending"} : Collects(part)
  \/ DestructorCall
  \/ FreePart
  \/ Gone

LifeSpec == LifeInit /\ [][LifeNext]_lifeVars
-----------------------------------------------------------------------------
(* Properties.                                                             *)

\* A constructor that returns NULL leaves nothing behind, whatever it was
\* refused; a destructor leaves nothing but the timers that are still in the
\* heap, and the buffers that are still in chains; and nothing is freed twice.
NothingLost ==
  /\ phase = "gone" => parts \subseteq {"pending"}
  /\ todo # <<>> => Head(todo) \notin freed
-----------------------------------------------------------------------------
(* The inductive invariant behind NothingLost.                             *)

\* The frees of plan are done up to some place, and the others are to come.
Frees(plan) ==
  \E n \in 0 .. Len(plan) :
    /\ todo = SubSeq(plan, n + 1, Len(plan))
    /\ freed = {plan[i] : i \in 1 .. n}

\* What a constructor that is still asking has is among what it asked for; only
\* bloomfilter_new goes on when its bitset freed what it had.
MakingInv ==
  /\ parts \subseteq {Asks(kind)[i] : i \in 1 .. asked}
  /\ \/ todo = <<>> /\ freed = {}
     \/ kind = "bloomfilter" /\ asked = Len(Asks(kind)) /\ Frees(<<"set">>)

UsedInv ==
  /\ todo = <<>> /\ freed = {}
  /\ parts \subseteq ToSet(Destroy(kind)) \union {"pending"}

\* A constructor that gives up still has to free all that it was granted, a
\* destructor all that the object has.
UndoingInv ==
  /\ asked < Len(Asks(kind))
  /\ Frees(Undo(NextPart))
  /\ parts \subseteq ToSet(todo)

EndingInv == Frees(Destroy(kind)) /\ parts \subseteq ToSet(todo) \union {"pending"}

GoneInv == todo = <<>> /\ parts \subseteq {"pending"}

LifeInv ==
  /\ kind \in Kind /\ asked \in 0 .. Len(Asks(kind))
  /\ \/ phase = "making"  /\ MakingInv
     \/ phase = "undoing" /\ UndoingInv
     \/ phase = "used"    /\ UsedInv
     \/ phase = "ending"  /\ EndingInv
     \/ phase = "gone"    /\ GoneInv
=============================================================================
