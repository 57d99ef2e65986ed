# A TLA+ specification of libakio

libakio is a collection of C libraries: an event-driven network library
(`kznet`, with an echo server as its demo) and five data structures (hash map,
skip list, linked list, bitset, Bloom filter). This directory holds TLA+
modules that model its core, TLC configurations that check them on small
instances, and TLAPS proofs of the main theorems for instances of every size.

`PROJECT.json` is the index: components, runs, the source lines behind each
definition, hazards, findings and theorems.

## 1. Inventory of the system

| Component | State | Operations | Interacts with | What is hard |
|---|---|---|---|---|
| Timers (`kznet/timer.c`) | the array of a binary heap, the slot kept inside each timer, a free list of recycled timers, `allocs` | `create_timer`, `delete_timer`, `get_shortest_msec`, `process_time_events` | the event loop calls it; timer callbacks call back into it | callbacks that create and delete timers while the loop holds one; indices kept by shift loops; replacement timers from another subtree; failed `realloc`; int64 to int |
| Event loop (`kznet/event.c`) | the table `events[fd]`, the batch `actives`, `maxfd`, `stop` | `create_event`, `delete_event`, `query_event`, `process_events`, `event_loop_start`, `event_loop_stop` | poller below, callbacks above | callbacks that change the table, close and reuse descriptors in the middle of a batch |
| Pollers (`kznet/poller.c`) | the epoll set, or two `fd_set`s | `poller_addevent`, `poller_delevent`, `poller_poll` | kernel | ADD, MOD or DEL is chosen from the table, not from the epoll set; `maxfd + 1`; timeout −1 |
| Buffers (`kznet/buffer.c`) | a pool shared by all chains; chains of buffers with read and write markers | `buffer_pool_get/put`, `buffer_chain_recv`, `buffer_chain_send`, `shrink_chain` | `readv`, `writev`; the echo server | any split of the stream; more buffers than one `writev` takes; the pool at its limit |
| Echo server (`kznet/demo.c`) | `connection_t`: `eof`, `writing`, `total` | accept, read and write callback, statistics timer | all of the above | end of stream after a full read; half-closed connections; ignored failures |
| Sockets (`kznet/socket.c`) | the list of addresses and the socket in hand, during a call | `tcp_connect`, `tcp_server_serve`, `tcp_accept`, options | kernel | every system call may fail, and the next address must start clean |
| Hash map (`hashmap/`) | open-addressing table with tombstones, `use`, `size` | put, get, delete, map, resize | — | tombstones and probe sequences; resize |
| Skip list (`skiplist/`) | sorted tiers of forward pointers, `level`, `length` | insert, search, delete, free | — | a pointer per tier, heights chosen at random, `update` filled by the search and used after it |
| Linked list (`linklist/`) | `prev`, `next`, `head`, `tail`, `len` | add, insert, move, delete, free | — | neighbours' pointers; `linklist_free` trusts the counter |
| Bitset, Bloom filter | bytes and a length; a bitset and a count | set, get, set all, clear all, count; add, check | the filter uses the bitset | boundary at the length and the last byte, capacity |
| Construction and destruction | the parts of a loop, a pool, a map, a bitset, a filter | the `*_create`, `*_new`, `*_delete` and `*_free` functions | all of the above | the part that is refused decides what must be freed, and by whom |

Nothing here is multi-threaded: what interleaves is the event loop, the
callbacks it calls, the operating system, and the clock. Nothing is persisted.

What makes each component correct:

* *Timers*: the earliest due timer runs and no other; indices and array are
  inverse; no timer is lost, doubled or in two hands; the wait handed to the
  poller never sleeps through a deadline; a due timer eventually runs.
* *Event loop and pollers*: what the kernel is asked for is what the table
  says; a callback gets the connection that owns the descriptor now; a socket
  that stays ready is served; `event_loop_stop` ends the loop.
* *Buffers*: what is written is what was read, in order; a buffer has one
  owner; the pool is bounded and its buffers are empty.
* *Echo server*: every byte received is sent back; finished connections end.
* *Sockets*: every address is tried; whichever call fails, what is not returned
  is closed.
* *Data structures*: each implements its abstract map, sequence or set.
* *Construction and destruction*: nothing is left behind, nothing is freed twice.

## 2. Plan

| Order | Modules | Status |
|---|---|---|
| 1 | `TimerService`, `TimerHeap`, `TimerHeapProofs` | done |
| 2 | `EventLoop`, `NetworkProofs` (event loop and both pollers) | done |
| 3 | `ChainResults`, `ChainService`, `BufferChain`, `BufferChainProofs` | done |
| 4 | `EchoServer`, `EchoServerProofs`: `connection_t` and the callbacks of `demo.c` | done |
| 5 | `HashMap`, `HashMapProofs` | done |
| 6 | `MapService`, `SkipList`, `SkipListProofs` | done |
| 7 | `LinkList`; `BitSet`; `BloomFilter` on top of `BitSet`; `LibraryProofs` | done |
| 8 | `Socket`, `NetworkProofs`: the address loops of `tcp_connect` and `tcp_server_serve` | done |
| 9 | `Lifecycle`: the functions that make and end a loop, a heap, a pool, a map, a bitset, a filter; `LibraryProofs` | done |

Every safety property that a passing run checks is proved, and so are the three
refinements. What remains are the four liveness properties (section 6), and the
parts of section 7.

Which module uses which: `TimerHeap`, `BufferChain` and `SkipList` instantiate the
abstract specifications `TimerService`, `ChainService` and `MapService`;
`BloomFilter` extends `BitSet`; `SkipList` and `LinkList` take the two special
pointers from `Pointers`. The event loop, the buffers and the echo server meet in
three places: `EchoServer` calls the buffers through the operators of
`ChainResults`, which `ChainService` promises and `BufferChain` is shown to keep; it
lets a callback be called whenever `EventLoop` may call it; and `TimerHeap!Poll` is
the poll of `EventLoop` seen from the timers. `MCLibrary` puts parts that share
no state into one instance, and so does `MCMapServer`.

## 3. The modules and the code

### TimerService

The promise of the timers without a heap: a deadline per pending timer, and at
most one timer running, which was due and the earliest when it started.

### TimerHeap (`timer.c`)

The variables carry the names of the C fields (`tes`, `now`, `all`,
`min_heap_idx`, `when_msec`, `allocs`); `free` is the linked free list from
`head.next` to `tail`, `live` what `malloc` returned and was not freed. `pc`
says where the single thread is. The shift loops are not atomic in the model:
`hole` and `moving` are their `hole_index` and `t`, and each iteration is a step
(`ShiftUp`, `ShiftDown`), so that the invariants also say what holds inside
them. `create_timer`, `delete_timer` and the two returns of a callback
(`ReturnEnd`, `ReturnAgain`) start a shift loop; `PushDone`, `DeleteDone` and
`AdjustDone` are everything the C functions do after it. `CreateTimerNoMemory`
is a failed `realloc`. `Poll` is `poller_poll` seen from the timers: it returns
at any time up to the wait it was given. The clock may tick between any steps, and
never goes back: it is `CLOCK_MONOTONIC`, which the Makefile chooses for Linux
(`USE_MONOTONIC`). The `gettimeofday` of other builds can be set back and is not modelled.

The program may create and delete any timers before the loop, in I/O callbacks
and in timer callbacks, with two restrictions. It passes `delete_timer` only
memory that was not freed, and a callback does not delete its own timer: it ends
it by returning `EV_TIMER_END`, as `demo.c` does. The code cannot handle either.

The deadlines are unbounded integers: an `int64_t` of milliseconds does not
overflow by adding an `int`.

### EventLoop (`event.c`, `poller.c`)

`event`, `read`, `write`, `data` are the fields of `loop->events[fd]`; a callback
is represented by the connection that registered it. `watched` and `interest`
are the epoll set, or (with `UseEpoll = FALSE`) `rfds` and `wfds`. `owner`,
`ready` and `hup` are the kernel's view. `actives` is the part of the batch that
`process_events` has not looked at; each entry remembers whose socket it was
reported for (a ghost that the properties use). The program may, before the loop
and in every callback, open a socket (the kernel hands out the lowest free
descriptor), register and deregister events, drain a socket, close one it has
deregistered, and stop the loop. `process_time_events` appears as the place
where timer callbacks do the same; the timeout given to the poller is any value
of `Timeouts`. Calls that fail change nothing and are no step. Interrupted
polls (`EINTR`) are left out. `Arrivals` says at which places of the loop the
kernel may make a socket ready; `loop_epoll` and `loop_select` let it do so only where the
program waits in the poll (`WhilePolling`), `loop_stale` anywhere (`AnyTime`).
Readiness is only looked at in the poll, so what arrives elsewhere is seen then.

### BufferChain (`buffer.c`)

A buffer is `pos` (read marker) and `content` (what lies between the markers); the
k-th byte that arrives on a chain is the number k, so order and loss are
visible. Each `readv`, each `writev` and each iteration of `shrink_chain` is a
step. `readv` and `writev` return every length they can, or fail. `NewChain` is
the creation of a chain in `server_accept_cb`.

### ChainResults and ChainService

`ChainService` is the promise of `buffer.c` to a connection: a chain is a queue of
the bytes of a stream. A call is made, takes effect at the moment it returns, and
`chain->recv`, `chain->sent` and the value it returns say what it did.
`ChainResults` holds the two relations between those numbers on which a caller
relies: `RecvAnswer` (with a value other than 1, `buffer_chain_recv` has taken in
nothing, unless a `readv` filled both buffers) and `SendResult` (0 is returned for
an empty chain only, and no more is sent than there is). In `BufferChain` a call
takes many steps, and both its counter and the bytes move during it, so the mapping
to `ChainService` takes out what the call in progress has moved so far
(`RecvSoFar`, `SentSoFar`): `ShownReceived` and `ShownOut` jump when the call
returns. `shrink_chain` is a part of the call of send.

### EchoServer (`demo.c`)

One record of variables per connection: `total`, `eof` and `writing` are the
fields of `connection_t`, `events` what is registered for its socket, `received`
and `echoed` count the bytes that the chain took in and sent. A chain is
therefore a number of bytes: `StreamOrder` of `BufferChain` says that it is a
queue. A callback is one step, and one action per way through it: `ReadCloses`,
`ReadEof`, `ReadBuffers`, `ReadEchoes`, `ReadSendFails`, `WriteSends`,
`WriteFails`, and three for an iteration of the accept loop. `RecvResult` is
`RecvAnswer` of `ChainResults` for what the peer has sent, `SendResult` is used as
it is. The constant `FullReads` says
whether a `readv` may fill both buffers; only then does `buffer_chain_recv` go on
to another `readv`, which may meet the end of the stream or an error with bytes
in hand. A callback may be called whenever its event is registered, also when
the socket is not ready, because `FreshDispatch` does not hold. Two results of
`create_event` that `demo.c` ignores are fixed: for a descriptor that was closed
because an option could not be set it fails (`AcceptFails`), which is what the epoll
build does, while the select build would put the descriptor into an `fd_set`; for the
write event of an open connection it succeeds, since the descriptor is in the table
already. `SizeMod` is
where `size_t` wraps around.

### HashMap (`hashmap.c`)

`map` is the `hashmap` structure; `stored` is a ghost that remembers what the
program last stored under each key. `Probe` is the sequence of entries that the
loops of put, get and delete look at, one `NextProbe` after the other; it is finite
because after `Shifts` steps `perturb` is 0 and the index runs through a cycle of
all entries. `Probes` holds these sequences for the sizes the table can have. A loop
that meets no entry to stop at in it never ends, and sets `hung`. `_hashmap_resize`
copies entry by entry (`Copy`), as the code does. The hash of a key is a constant, chosen
so that keys collide; `malloc` may fail in a resize. `deleted` and `failed` are
ghosts that remember whether `hashmap_delete` was called and whether `malloc`
failed. `MaxUse` bounds `map->use`, which deletes and puts can raise without end.
The products of `index` are not cut off at 64 bits: the size is a power of 2, so
that what is cut off does not matter for the entry.

### SkipList (`skiplist.c`) and MapService

`MapService` is the promise: a call is made, takes effect at one moment, and
answers what the entries at that moment say. In `SkipList` a node is its key and
the header is 0; `forward[t][n]` is the pointer of node `n` on tier `t`, `WILD`
where the node is not as high or is freed. `call`, `x`, `tier` and `update` are
the arguments and the local variables of the function in progress: each
iteration of the search loops is a step (`Search`), and so is each node that
`skiplist_free` visits. `_random_level` may give any height. After
`skiplist_free` the program makes a new list. A failed `malloc`, which
`skiplist_insert` dereferences, ends the program and is no step.

### LinkList (`linklist.c`)

`head`, `tail`, `prev`, `next` and `len` are what the code keeps; `order` is what
the comments of `linklist.h` say of the list, changed by each call as they say.
The program passes nodes that are in the list, and any node may be allocated
next. `linklist_free` is a step per node. Two specifications: `ListSpec` without
and `ListMoveSpec` with `linklist_move_node`.

### BitSet (`bitset.c`) and BloomFilter (`bloomfilter.c`)

A byte is the set of its bits that are 1, and the byte behind the allocated ones is part
of the model, because `bitset_count` reads it and `bitset_set` and `bitset_get`
accept `n = length`. `ones` is a ghost: the bits last set to 1. `BloomFilter` adds
the capacity, the count and the positions of a key: a hash is one of `Low * High`
values, its rotation swaps a low and a high part, and the sum wraps around; the
hash of a key is a constant.
`hasSet` is false where `bitset_new` returned `NULL`, which `bloomfilter_new` does
not notice.

### Socket (`socket.c`)

One system call is one step, with an outcome for each way it may end. `p` is the
entry of `servinfo`, `s` the socket in hand, `at` the next call or the label the
code is at. `state` and `nonblock` are the kernel's; `held` is what the program got
and has not closed, `failed` a ghost with the entries that failed, and `unset`
counts the times `set_reuseaddr` failed in `tcp_server_serve`, whose label `error`
does not close the socket.

### Lifecycle

The parts that each constructor asks for, in order, with any of them refused, and
what is then freed by the function itself and by its callers; the order in which
the destructors free. Every `free` is a step. The poller is the one of epoll.

### Definitions named as mutants

A definition whose comment starts with "Mutant" is a plausible mistake in the
definition below it. No specification uses it; substituting it shows that the
properties notice the mistake.

## 4. Runs

| Run | Instance | States | Checks |
|---|---|---|---|
| `timer_calls` | 3 timers, delays 1 and 2, clock to 3, array of 1 slot, free list of 1, fair | 170,997 | `EarliestRuns`, `NoAliasing`, `PoolBounded`, `IInv`, `NoOversleep`, `ImplementsService`, `DueTimersRun` |
| `timer_six` | 6 timers, clock stands still | 275,118 | `IndexInverse`, `HeapOrder` |
| `loop_epoll` | 2 connections, 2 usable descriptors, masks read and both, epoll, fair | 398,472 | `InterestMatchesTable`, `DispatchToOwner`, `ReadyServed`, `StopEnds` |
| `loop_select` | 3 connections for 2 usable descriptors, masks read and both, select | 2,294,271 | `MaxFdCovers`, `IInv` |
| `map_server` | hash map: 4 colliding keys, 2 values, table of 4 entries, `use` up to 6; echo server: 2 connections, 3 bytes each, no full reads, `size_t` wraps at 4, fair | 233,931 | `GrowsInTime` (`LoadBounded` and `CallsReturn`), `StoredIsFound`, `ReturnsWithRoom`, `DeletesReturn`; `TotalIsBacklog`, `WriterRegistered`, `EchoComplete`, `StatsBalance`, `EchoInv`, `BacklogDrains` |
| `library` | skip list: 3 keys, 2 values, 3 tiers; linked list: 4 nodes; bitset: 7, 8 and 9 bits; filter: 5 keys, capacities 1 and 3; sockets: 3 descriptors, 3 addresses; every constructor; buffers: a chain of 5 bytes and one of 2, 5 buffers of 2 bytes, 2 buffers per `writev`, pool of 1 | 251,294 | `SkipInv`, `SkipIsMap`, `ListLinked`, `BitsAreOnes`, `CountIsOnes`, `NoFalseNegative`, `SocketsReturned`, `ConnectTriesAll`, `NothingLost`; `StreamOrder`, `ChainShape`, `ShrinkFits`, `OneOwner`, `PoolClean`, `ImplementsChain` |
| `loop_stale` | 2 connections, epoll | — | `FreshDispatch`, violated |
| `echo_full` | 1 connection, 3 bytes, full reads | — | `EchoComplete`, violated |
| `map_gone` | 2 keys | — | `DeletedIsGone`, violated |
| `map_growth` | 3 keys | — | `GrowsWhenLoaded`, violated |
| `bloom_capacity` | 5 keys, capacities 1 and 3 | — | `WithinCapacity`, violated |
| `list_move` | 4 nodes | — | `ListLinked` with `linklist_move_node`, violated |

Why the bounds are enough. Three timers make the array grow from 1 to 2 to 4
slots, fill the free list to its limit, and give a heap whose root has two
children; the case where the timer that fills a gap must go *up* needs six
timers, which is `timer_six`. `INT32_MAX = 1` lets the wait be capped. Two
descriptors and two connections are what reuse of a descriptor inside a batch
needs (one callback closes the other's socket and opens a new one); `setsize`
entries and one descriptor more show the boundary of the table in `loop_select`.
Three buffers on a chain with two per `writev` let the send loop run twice, two
bytes per buffer allow a read to end inside, at the end of, and beyond a buffer,
and the short chain takes buffers from the pool in between. The connections of
`EchoServer` share only the statistics, so two of them show every interaction, and
three bytes allow a partial send between two reads. Four keys make the table of
`map_server` grow from 4 to 8 entries; three of them start at the same entry, which
is what a tombstone in front of a key, a second copy of it and a full table need,
and `use` up to 6 goes beyond the size of 4 at which failing resizes leave the
table full. Three keys are two thirds of a table of 4 (`map_growth`), and `use` up to
5 is one more put than three keys, a delete and the put that replaces the key need.

The parts in `library` share no state, and neither do the two in `map_server`, so a
behaviour of such a run is one of a single part (the variable `part`) while the others
stay as they are, and their instances add up instead of multiplying. The buffers of
`library` are symmetric; it checks no liveness. The fairness in `map_server` is the
echo server's (section 5), which asks nothing of the hash map's behaviours: a server
without a connection has nothing to send.
Three keys on three tiers allow a node to be inserted and deleted between two
others of every combination of heights, so that the top tiers fill and empty
again. Four nodes give `linklist_insert_node` a place at both ends and inside.
The lengths 7, 8 and 9 are a last byte that lacks one bit, is full, and has only
one; `HeapByte` puts zeros or ones behind it. The five keys of the filter have
hashes that wrap around in 6 bits or do not, share positions with each other and
visit the same position twice, and the capacity 1 is exceeded. Three descriptors and three addresses let a call
fail in different ways for each address while the program holds other sockets.

`EchoServer` may stop, because the finitely many connections of the model can all
be closed. So may parts of `library`: a full Bloom filter takes no more keys, and
what is destroyed stays so. Their configurations, and so that of `map_server`, switch
deadlock checking off.

Six runs show disagreements between the code and its comments, docs or tests:

* `loop_stale`: the check under "检查可能被修改的事件" in `process_events` does not
  notice a descriptor that was closed and reused within the batch, so a new
  connection is called for readiness that was the old one's. The callback and its
  data are nevertheless the new connection's (`DispatchToOwner`).
* `echo_full`: "A echo demo server" does not echo the bytes that
  `buffer_chain_recv` took in before it met the end of the stream in the same
  call; without full reads `EchoComplete` holds (`map_server`, and proved).
* `map_gone`: after `hashmap_delete`, `hashmap_get` may still find the key, which
  the unit test excludes: the search for the key to delete stops at the
  tombstone of another one.
* `map_growth`: "当 use/size >= 2/3 时，扩大表" and "每次增加一倍" (enlarge the table when
  `use/size >= 2/3`, doubling it), but `hashmap_delete` does not lower `use`, so that
  from then on `_hashmap_resize` meets fewer keys than `use` says and throws the larger
  table away. The property counts only entries that have a key as load, so that the
  disagreement does not depend on what a tombstone counts for. Without deletes the
  table grows in time (`GrowsInTime`).
* `bloom_capacity`: "一旦创建后，不允许加入大于此数的元素" (no more elements than the
  capacity may be added), but `bloomfilter_add` tests `count > capacity` before it
  counts the key, and accepts `capacity + 1`.
* `list_move`: "将结点 src 按照 after 指示移动到 dst 前或者后" (move `src` before or
  behind `dst`), but `linklist_move_node` makes neither `dst` nor its neighbour
  point to `src`, as `linklist_insert_node` does: the node drops out of the walk
  over the list while `len` still counts it.

More were met without a run of their own, and are among the hazards. The
loop under "Update the max fd" in `delete_event` leaves `maxfd` one too large,
which is harmless because `MaxFdCovers` holds. Since the table does not grow after a
`hashmap_delete`, `GrowsInTime` is stated for a map without deletes; `ReturnsWithRoom`
says what is left with them: every put and get returns as long as `use` is below the
size. `hashmap_delete` does not stop at
an entry that was never used, so that deleting an absent key does not return:
`DeletesReturn` says that this needs a table without deleted entries, and cannot
happen for a stored key. A hash
map created with 1 or 2 entries can fill up, so that the search for an absent key
does not end (`SizeAssumption` of `HashMap` asks for 4). `bitset_count` reads the byte behind the bitset,
and `bitset_set` and `bitset_get` accept `n = length`: `CountIsOnes` says that these
two are the only ways for the count to be wrong. `tcp_server_serve` gives up at
the first address that cannot be bound and loses the socket when `set_reuseaddr`
fails: `SocketsReturned` says that no socket is lost in any other way.
`timer_heap_delete` does not free timers that are still in the heap; `NothingLost`
leaves them out. A Bloom filter whose bitset could not be allocated accepts keys and
then denies them; `NoFalseNegative` is stated for a filter that has its bitset.

## 5. Fairness

`TimerHeap`: the thread does not stop between the steps of the library
(`WF` of the shift loops and of the loop), time passes, and callbacks return
after finitely many calls. The last is strong fairness of `ReturnFromCallback`
and `ProcessTimeEvents`, because a library call inside a callback disables its
return for a moment. `EventLoop`: weak fairness of the loop as a whole
(`LoopStep`), which includes the return of callbacks. With epoll and no timer
`Poll` is disabled until something is ready, so no assumption about the network
is hidden in it. `EchoServer`: strong fairness of a `client_writecb` that sends at
least one byte: the loop serves what stays ready (`ReadyServed`), and the peer
reads, so that the socket becomes writable again and again. `ReadyServed` is checked for
epoll: in the select build without a timer the timeout −1 becomes
`tv_usec = -1000`, `select` fails at once, and nobody is served.

## 6. Proofs

`InductionFacts` derives what the provers cannot take from the library's induction
theorems, which have an operator as a parameter, from its well-foundedness of
`<`: every nonempty set of natural numbers has a least element, every bounded one
a greatest; induction over an interval and over the subsets of a finite set, each
stated for a set of numbers or of sets instead of a predicate; and what a sum over
a finite set is and how it changes with one of its terms.

`TimerHeapProofs` proves for every set of timers, every set of positive delays,
and every size that `TimerHeap` keeps `IInv`, and from it `TypeOK`,
`IndexInverse`, `HeapOrder`, `EarliestRuns`, `NoAliasing`, `PoolBounded`,
`NoOversleep`, and that it implements `TimerService`. The invariants the user
cares about hold only outside the shift loops, so the inductive one says what
holds inside them: `IndexInv` (indices and array agree but for the hole),
`OrderInv` (the order holds across the hole, and the loop has one direction
left), `ShiftInv` (the arguments of the call; deleting the last timer shifts
down from the slot just given up), `CallbackInv` (the timer whose callback runs
stays in slot 0, because whatever its callback creates is later) and
`MemoryInv` (`NoAliasing` in terms of indices). `CallbackInv` also shows that
the upward branch of `_heap_adjust` is never taken. That the top is the least
timer follows from the order along parents by taking the least slot that would
contradict it.

`NetworkProofs` proves for any number of connections and descriptors and for
both pollers that `EventLoop` keeps its `IInv`, and from it `TypeOK`,
`InterestMatchesTable`, `MaxFdCovers` and `DispatchToOwner`. The strengthening is
`OwnedInv` (an entry in use holds its owner's callbacks and data, which needs
that a socket is closed only when its entry is empty) and `ReportsInv` (what is
reported lies in the table).

`EchoServerProofs` proves for any number of connections and bytes that
`EchoServer` keeps `EchoInv`, and from it `EchoTypeOK` and `WriterRegistered`, and, if
`FullReads` is false, `TotalIsBacklog` and `EchoComplete`. The strengthening is
`OpenInv` (events are registered only for open connections), `EndInv` (at the end
of the stream everything was taken in; after `shutdown` no event is left) and
`CountInv`: `total` is the backlog until the end of the stream even with full
reads, which is why a wrapped `total` can still not make `client_readcb` and
`client_writecb` disagree about who sends. `StatsBalance` is proved for full reads
as well: every callback changes one term of the sum, and the two global counters
by the same amount modulo `SizeMod`.

`BufferChainProofs` proves for any number of chains and buffers, every buffer
size, every limit of `writev` and of the pool that `BufferChain` keeps its `IInv`,
and from it `TypeOK`, `StreamOrder`, `ChainShape`, `ShrinkFits`, `OneOwner` and
`PoolClean`. These properties are part of `IInv` but need each other:
`OneOwner` makes a `readv` into one chain leave the content of the others alone,
`ChainShape` makes the bytes behind the last buffer the next of the stream, and
`PoolClean` makes a buffer taken from the pool an empty one. What is added is
`CallInv` (the call in progress has a chain that is not empty), `CleanInv` (an
empty buffer, or one that no chain has, is as `malloc` left it) and `StreamInv`:
the content of a chain is a run of consecutive numbers, which starts before
what was written as long as `shrink_chain` has bytes to drop. The lemmas are about
runs and about the content of a sequence of buffers, when one is appended,
removed in front, extended or shortened.

That `BufferChain` implements `ChainService` needs one more invariant, `ProgressInv`
(theorem `CallsCount`), which relates the counters of the call in progress to the
stream: they never exceed what arrived or was written, `recv` is 0 or at least a buffer when
another `readv` follows, and a send goes on after a `writev` only while the chain is
not empty. With it each step of a call but the last maps to a stutter, because the
bytes and the counter it changes cancel out, and the step that returns maps to
`RecvReturns` or `SendReturns`. That `buffer_chain_send` returns 0 for an empty chain
only is the part that is easy to get wrong: it holds because the loop is left when
`pos == last`, which `ChainShape` makes mean that nothing is left to send.

`LibraryProofs` is about the data structures that share nothing but the prover's
context. `LinkList`: `LinkInv` adds to `ListLinked` that no node is in the list
twice. Inserting and deleting are each one lemma about a sequence and the pointers
of a node's neighbours (`InsertLinked`, `RemoveLinked`), used for both ends and the
inside; `linklist_free` is a phase of its own (`Emptying`), in which `prev` is no
longer right. The theorem is about `ListSpec`; `linklist_move_node` violates it.
`BitSet`: `BitInv` says of every bit of every byte but the one at `n = length` that
it is 1 exactly if it was last set to 1, the bits past the length included, which
`bitset_count` counts and `bitset_setall` must not set. That
`bitset_count` is right is a sum over the bytes, compared with the set of ones by
induction over the bytes. `BloomFilter`: `BloomInv` says that the positions of
every key that was added are ones; they are below `nbits` for every hash, and the
same in `bloomfilter_add` and `bloomfilter_check`. `Lifecycle`: `NothingLost` looks at
the end of a constructor or destructor only; `LifeInv` says what leads there: what is
to be freed is the rest of one list without repetitions, and while something is
undone or ended, everything allocated is on that rest. The lemmas are the tables of
the code: `UndoCovers` (each clean-up frees what was asked for before the refusal),
`DestroyLists` and `UndoLists` (nothing is named twice).

`HashMapProofs` proves for any keys, hashes and values and every initial size that is
a power of 2 from 4 that `HashMap` keeps its `IInv`, and from it `StoredIsFound`,
`GrowsInTime`, `ReturnsWithRoom` and `DeletesReturn`. It has three parts. The first is about
numbers: `perturb` is 0 after `Shifts` steps, and from then on the index follows
`5 * x + 1`, whose cycle visits all residues modulo a power of 2. That is proved by
doubling the modulus: what the cycle visits modulo `n` it visits twice modulo `2 * n`,
at places that differ by `n` (`FullDouble`, `ProbeCycles`, `SearchCoversTable`). What
the recursive functions compute is derived from the existence of a solution
(`RecursionOver`). The second part is about one table: a search whose stops become
fewer, but not the one it ended at, still ends there (`FindKeeps`), which covers a
put of another key, a delete of another key, and a tombstone that is taken again. The
third is the invariant. `StoredIsFound` and `LoadBounded` are not inductive, because a
resize may drop an entry that is in the table twice and `hashmap_map` one beyond the
first `use`. `UseInv` says why neither happens: `use` is at least the number of
keys, and if it is that number, the table is `Intact`: without tombstones, and with
every key once, at the entry where a search finds it. Only such a table passes the
test of `olduse` in `_hashmap_resize`; the loop there keeps `CopyInv`, by which the
new table is intact and holds the entries met so far. `DeletesReturn` combines the
parts: a stored key is in the table (`StoredIsHeld`), the probes meet every entry
(`DeleteStops`), and in an intact table there is no second entry with the key
(`IntactOnce`). `ReturnsWithRoom` needs one more invariant, `UsedInv`: `use` is at least
the number of entries that have a key or had one, because a put that takes an unused
entry or a tombstone counts it, a delete leaves the entry used, and a resize that
succeeds leaves no tombstone; below the size, an entry is left at which every search
ends (`RoomEnds`).

`SkipListProofs` proves for every finite set of keys, every set of values and every
number of tiers that `SkipList` keeps `SkipInv` and that it implements
`MapService`. `SkipShape` alone (sorted tiers, each part of the one below, `level`
the highest in use) is not inductive, because insert and delete trust what the
search left in `update`; `SearchInv` says what that is: on every tier the search
has left, `update[t]` is the last node before the key, and on the tiers still to
come `x` is a node of the tier. The lemmas about one tier (`LinkIn`,
`LinkOut`, `PredecessorFinds`) say what linking a node behind its predecessor and
unlinking it do to the order, and that a key is
found exactly if it is stored, which is what the refinement needs. That `level`
is lowered to the right tier follows from the greatest element of a bounded set.

`NetworkProofs` also proves for every finite set of descriptors and any number of
addresses that `Socket` keeps `SocketInv`, and from it `SocketsReturned` and
`ConnectTriesAll`. Between calls the open sockets are counted, so the
strengthening says what is counted within one: `Lost` (open, not the program's,
and not the socket in hand, or in hand at the label where it is not closed),
`InHand` (at which places `s` is an open socket that the program does not have)
and `Progress` (the entries before `p` are those that failed).

Assumptions: the `ASSUME`s of the modules. `NULL` is no timer and no number,
delays are positive (the assertion `msec > EV_TIMER_END` of `create_timer`),
the array has a slot, sizes are natural numbers, masks are nonempty, a
connection has fewer bytes than a `size_t` can count, there are finitely many
connections, keys are numbers above that of the header, −1 is no descriptor, `NULL`
and the content of freed memory (`WILD`) differ from each other and from every
node, buffers and the pool have room for one, the filter has a positive
capacity and from 1 to 30 probes, the hash map starts with a power of 2 of entries
(as `hashmap.h` asks) from 4, a hash has at most `5 * Shifts` bits, and −1, which stands for
a call that does not return, is no value.

Only model-checked: liveness (`DueTimersRun`, `ReadyServed`, `StopEnds`,
`BacklogDrains`), which is out of the prover's reach.

## 7. Not modelled

* The demos and unit tests of the data structures: straight-line programs. They
  are read as statements about the libraries.
* In `socket.c`, `set_close_on_exec`, `set_tcp_nodelay` and `set_tcp_keepalive`, which
  set one flag that nothing else reads, and the functions that look up names and
  addresses.
* A poll interrupted by a signal (`EINTR`).
* In `demo.c`, what a closed connection keeps: its memory, its buffers (the pool's
  `allocs` stays above what is in use), and the descriptor of a connection that was
  shut down but not closed.
* `malloc` returning `NULL` where the code dereferences the result
  (`skiplist_insert`, `buffer_chain_recv`): the program ends there.
* A Bloom filter of capacity 0, whose first `bloomfilter_add` divides by zero; the
  computation of `k` from the error rate, which is floating point; `_bloom_hash`
  and `_string_hash`, whose values are constants of the models.
* Null arguments, which the functions refuse at their first line; logging.
