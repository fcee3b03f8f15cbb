# antcitytool in TLA+

antcitytool is a small C library: a thread pool, containers, a memory pool, a client
for libcurl with a pool of its own, and an XML parser on top of libxml2. This directory
holds TLA+ models of its components, TLC configurations that check them on small
instances, and TLAPS proofs of what matters most for every size. Paths below are relative
to the repository (`src/util/...`, `include/...`, `tests/...`).

## 1. Inventory

| component | code | state it keeps | operations | what is hard |
|---|---|---|---|---|
| thread pool | `src/util/at_thread_pool.c` | status, idle counter, stack of tasks, mutex, condition variable, worker threads | create, add_task, is_all_idle, stop; the loop `run` in each worker | real concurrency: unlocked reads of `status`, lost wake-ups, tasks that submit tasks, shutdown |
| queue | `src/util/at_queue.c` | ring buffer with head, tail, size, capacity | new, pushback, pop, size, free | wrap-around, growth of a wrapped buffer, the pointer a pop returns |
| stack | `src/util/at_stack.c` | array with cursor, size, capacity | new, push, pop, size, free | two counters that must agree, growth from capacity 0 |
| hash map | `src/util/at_hashmap.c` | array of buckets, a doubly linked list behind each, size, threshold | new, set functions, insert, get, iterate, next, remove, free | lists that are relinked, expansion, pointers and iterators a caller holds meanwhile |
| hash set | `src/util/at_hashset.c` | a hash map with a placeholder value | one call of the map each; `hashset_array` iterates | an array of pointers into the nodes, sized by one count and filled by another |
| memory pool | `src/util/at_mpool.c` | one buffer, headers linked inside it, free space | create, malloc, calloc, free, compress, reset, destroy | gaps, blocks that move under their holders, running out of space |
| bitset | `src/util/at_bitset.c` | words of bits and a counter | new, set, reset, clear, isset, isallset, count, free | word boundary, counter against bits |
| http client pool | `src/http/at_httpclient_pool.c` | a stack of clients and a mutex | create, get, return, destroy | threads sharing clients, exhaustion, destruction |
| http client | `src/http/at_httpclient.c` | a curl handle whose options persist, a header list, a response | new, set_*, head, get, post, destroy | state left over from one request, and one borrower, to the next; failed transfers |
| string | `src/util/at_string.c` | a growing byte buffer | new, blank, append, appendch, reset, free | the terminating zero after growth |
| vector | `src/util/at_vector.c` | a growing array of elements | new, get, prefetch, insert, iterate, next, reset, free | pointers and iterators across growth |
| xml parser | `src/util/at_xmlparser.c` | a tree of libxml2, a vector of handlers with a vector of callbacks each | create, register, parse, eval_xpath, destroy | recursion with user callbacks that may register more, paths of any length |
| utilities | `src/util/at_util.c` | none | characters, numbers, trimming, powers of two, hashes, dates, files | boundary values, loops over bytes and characters |
| types and definitions | `include/at_types.h`, `include/at_define.h` | none | | |

How they interact: the two pools keep their tasks and clients in a *stack* and guard it
with a mutex; the *hash set* is a *hash map*, which sizes its table with `min2n` of the
*utilities*; the *xml parser* keeps its handlers in *vectors* and puts paths together in
*strings*; the *http client* collects its response in *strings* and is what the *http
client pool* lends. No container locks anything: all concurrency is in the two pools. User
code runs inside the thread pool's workers (`task->run`), where it may submit further
tasks, and inside the parser's traversal, where it may register further callbacks.

What makes each correct, and where it is stated: an accepted task is run exactly once, no
worker sleeps while work waits or through a stop, and the answer of `is_all_idle` can be
relied on (`ThreadPool`); queue, stack, map, string and vector are a queue, a stack, a
dictionary, a text and a list whatever their arrays do (`ImplementsFifo`,
`ImplementsLifo`, `ImplementsDictionary`, `ImplementsText`, `ImplementsList`), and the
pointers they hand out stay good for as long as a caller may count on them
(`PoppedIntact`, `HeldIntact`, `ArrayExact`, `IterationExact` of the map and of the
vector, `HalfFullIsCString`); blocks never overlap and the free space adds up
(`MemPool`); bits and counter agree as far as the code allows (`Bitset`); a client is in
one hand at a time, a response belongs to its request, and what one borrower leaves in a
client does the next no harm beyond what is said (`HttpService`); a parse makes exactly
the calls it should (`XmlParser`).

## 2. Modules

| module | what it is |
|---|---|
| `TaskPool` | what a thread pool promises: tasks submitted, started by at most `PoolSize` workers, finished, refused; closed, then shut when nothing is left |
| `ThreadPool` | `at_thread_pool.c`, one step per access to shared state |
| `MCThreadPool`, `ThreadPoolProofs` | instances for TLC; proofs, with lemmas on stacks as sequences |
| `Fifo`, `RingQueue`, `MCRingQueue`, `RingQueueProofs` | what a queue promises, the queue, instances, proofs |
| `Lifo`, `Stack` | the stack, likewise |
| `Dictionary`, `HashMap`, `HashSet`, `MCHashMap`, `HashMapProofs` | what a map promises, the hash map, the hash set on top of it, instances of both, proofs of both |
| `MemPool`, `MCMemPool`, `MemPoolProofs` | the memory pool, instances, proofs |
| `Bitset`, `MCBitset`, `BitsetProofs` | the bitset |
| `HttpClientPool` | the pool, for which a client is a name |
| `HttpClient` | one client, as operators on a record |
| `HttpService`, `MCHttpService`, `HttpServiceProofs` | the pool with the clients in it, instances, proofs of both pools |
| `StringBuffer` | the functions of `at_string.c`, as operators on a record |
| `Text`, `AtString` | what a string promises; a string in the hands of a caller |
| `AtUtil` | the pure functions of `at_util.c` |
| `TextTools`, `MCAtString` | those functions on the texts a string comes to hold; instances |
| `VectorBuffer` | the functions of `at_vector.c`, as operators on a record |
| `List`, `AtVector` | what a vector promises; a vector in the hands of a caller who keeps pointers |
| `MCArrays` | instances of the stack and of the vector, one or the other in a behaviour |
| `BufferProofs` | proofs of the string, the vector and the stack, the arrays that grow, and of what `AtUtil` computes |
| `XmlParser`, `MCXmlParser`, `XmlParserProofs` | the parser, over `StringBuffer` and `VectorBuffer`; instances; proofs |

Variables keep the names of the C fields (`idles`, `cursor`, `capcity`, `total_free`, ...).
Variables marked *history* in a module record what the program has no field for and the
properties need: who pushed a task, which blocks callers hold, which keys an iteration has
promised. Actions are named after the functions; a function with several outcomes is one
action per outcome.

An operator placed directly before a definition and used by nothing is a *mutant*: that
definition with a plausible mistake in it. `PROJECT.json` pairs each property with the
mutant that must break it.

**ThreadPool.** `pc[t]` says where a thread is. A step ends wherever another thread can get
in between: at each read or write of `status` outside the mutex, at each acquisition of the
mutex, at the release inside `pthread_cond_wait`. A critical section is still cut into
pieces, so that a change of its order shows. `pthread_cond_signal` wakes any one sleeper or
none; a sleeper may wake spuriously; a woken worker has to win the mutex like anybody else
(`WorkerRelock`). `status` is a plain int read without the mutex in `run` and `add_task`.
That is a data race in C; every such read is followed or preceded by a call into pthreads
that the compiler cannot look through, and the Makefile builds without optimisation, so each
is a load of its own. A late store of `status` by the owner is the same as the owner
being late before `StopLock`, which the interleavings contain. A running task may call
`add_task`; the constant `Overlap` says whether clients may still be inside `add_task`
while the owner stops the pool.

**RingQueue, Stack.** Nodes are values and a slot that was never written holds `Junk` in the
queue, `Unset` in the stack. In
`RingQueue` the variables `slot` and `grace` follow the pointer the last `queue_pop`
returned and the number of pushes it survives.

**HashMap, HashSet.** The buckets are the addresses `0..capcity-1`, nodes from `malloc` get
the addresses above `MaxCapcity`. `Hash` gives the hash of each key, so it decides what
collides, and stands for all key types whose equal keys have equal hashes.
`hashmap_remove` is modelled with what it does: with one follower behind the bucket it
leaks a node (counted by `shifts`), with two it leaves a link to a freed node (state
`dangling`, after which nothing is claimed), and a search past the first follower never
ends (state `hung`). `hashmap_free` reads `ptr->next` of a node it has just freed; the
model lets it find the old value. The search of `hashmap_get` and `hashmap_insert` is `Find`:
of the nodes with the key the one from which all of them are reached along `next`
(`Listed`). `expand_map` is a recursive function over the steps of its loops, which end by
the count of nodes as well as by the buckets. `min2n` is the least power of two that is not
below its argument; that the code computes it is `RoundingExact` of `TextTools`, for arguments up to the highest
power of two. `HashSet`
adds `hashset_array`, whose array holds what repeated calls of `hashmap_next` deliver, to
the calls that are the map's own.

**MemPool.** Addresses and sizes are in units, `RESERVE_ALLOC_SIZE` of them a header; the
list of headers is kept as the code keeps it, `prev` links that `mpool_compress` leaves
stale included. `Target` is where compression moves each block: against the one before it. `corrupted`, `crashed` and `dangling` are the
states after a move that overwrites its own header, after a NULL dereference, and after
`mpool_expand` has replaced the pool behind its caller's back.

**Bitset.** `temp <<= index` with an index beyond the word is undefined in C; the model
takes the index modulo the word, as the shift instructions of the usual machines do.

**HttpClientPool, HttpClient, HttpService.** `get` and `return` are one critical section
each and so one step. A borrowed client is used by one thread, so its calls are steps too.
libcurl is outside the repository: of it the model has that options stay set, that
`CURLOPT_NOBODY` wins over `CURLOPT_POSTFIELDS`, that the handle keeps the pointer to the
header list, and that a transfer may fail. A client goes back to the pool as it is: the
next borrower finds its headers, its options and its response.

**StringBuffer, AtString.** A buffer maps offsets to bytes, so a write behind the allocated
memory shows as an offset too many, and a byte `realloc` delivered is `Junk`.

**AtUtil.** Texts are sequences of bytes. The loops of `trim` and `is_digit` are recursive
functions with the loop's variable as argument; `min2n` and `max2n` work modulo `2^Bits`.
`n & (n - 1)` is `LowestBitOff`, n without its lowest bit; `MCAtString` has TLC compare it
with the bitwise operator. `TextTools` says what the functions are for without loops, and
assumes that pieces of text are made of ASCII characters and UTF-8 characters of three
bytes (`TextToolsAssumption`): `trim` steps over three bytes wherever it meets the
ideographic space, and looks for it only where a byte is not ASCII.

**VectorBuffer, AtVector.** `block` counts how often the array has moved; a pointer
remembers the block it was taken from, and its use after the array has moved ends the
behaviour in state `stale`.

**XmlParser.** The recursion of `travel` is a stack of frames with its two variables: the
node an invocation is at and the path before its name. A callback is user code: between two
steps of the loop over callbacks it may register others. The tree is what libxml2 delivers,
`IsDocument`: nodes in document order with parent and name, subtrees without gaps, children
of elements only. `stale` and `garbled` are the states after the use of a handler
that has moved and after a path without its final zero has been read.

## 3. Runs

| run | instance | states | what it shows |
|---|---|---|---|
| `pool_safety` | 3 workers, owner, 1 client that may overlap the stop, 3 tasks | 137,266 | no task lost or run twice; `idles` exact; an AT_TRUE of `is_all_idle` stays true; no task waits while a worker sleeps and nobody is on the way to it; nobody sleeps through the stop; at the end everything accepted was run, except what an overlapping client pushed late; no deadlock |
| `pool_live` | 2 workers, owner, 1 client, 2 tasks, fair | 26,823 | the pool implements `TaskPool`; the stop returns; accepted tasks are run; polling ends |
| `ring_queue` | capacity 2, 4, 7; 2 nodes | 17,048 | popped pointer, implements `Fifo` |
| `arrays` | a stack of capacity 0, 1, 2, 4 with 2 nodes and NULL, or a vector from capacities 0 and 2 with up to 4 elements of 2 kinds and 6 calls on an iterator | 396,665 | the stack implements `Lifo`, the vector `List`; iteration in order |
| `hash_map` | 3 keys with hashes 0, 4, 8 in 1, 2, 4 or 8 buckets; 2 values | 19,802 | links in both directions, search, size, leaks, held pointers, iteration, the array of the set, implements `Dictionary` |
| `hash_map_remove_deep` | same, 1 value | | **violation**: `hashmap_remove` does not return |
| `mem_pool` | 16 units, header 2, requests 1, 2, 4 | 26,001 | no overlap, free space, owners, retry after compression |
| `bitset` | 5 bits in words of 2 | 7,284 | no bit from nowhere, no wrap-around, exact until a reset |
| `http` | 3 threads, 2 clients, 1 header, 1 body, 1 status besides 200 | 1,316,804 | one owner per client, own response, complete destruction; status of this request, all headers sent |
| `http_method` | same | | **violation**: a request does not go out by its method |
| `text` | pieces of 1 to 3 bytes: blank, sign, digit, point, letter, U+3000; texts up to 6 bytes; capacities 1, 2, 5 and those of the pieces | 46,686 | a C string up to half of the buffer, implements `Text`; `trim`, `is_digit`, `min2n`, `max2n` |
| `xml_parser` | 5 documents of up to 6 nodes, 5 paths, 2 callbacks, 4 registrations | 530,332 | exactly the calls that are due, in document order; memory-safe within two limits |

Bounds. Three workers are the fewest with one asleep, one woken and one that steals its
task; three tasks let a running task submit while another waits. Each task is submitted at
most once (`Tasks` is a set of objects), which is what bounds `pool_*`. `MaxCapcity` (in
`RingQueue`, `Stack`, `HashMap`) cuts off growth: two expansions in the queue, so that a
wrapped buffer is expanded and wraps again; three in the stack; up to three in the map, so
that lists split and split again. The hashes 0, 4, 8 collide in up to 4 buckets and partly
in 8, so lists of three nodes occur. `Requested` has 0 (which gets
`DEFAULT_MAP_CAPCITY`), a power of two and a number between two. `MaxShifts` bounds the
nodes the map may leak; `LoadFactors` holds one factor that `hashmap_setloadfactor` stores
(0) and one it ignores (4 quarters: it takes only factors that are not positive).
`MaxSize` bounds the bitset's counter, which the resets let drift upwards; five bits in
words of two give a last word that is half used. 16 units with headers of 2 hold up to five
blocks and every way to leave gaps. With two clients three threads find the pool empty.
`MaxSize` of the strings is reached from every first capacity by several growths;
`Bits` = 4 puts the highest power of two, 8, below some of the capacities that occur, so that
`min2n` is checked up to it and `max2n` beyond it as well. The vector grows once or three times while pointers and
iterators are out, and `MaxCalls` is more than its size, so iterators are polled past the
end. `NodePathCap` = 6 is just filled by a parent's path, a node's path and one name in
three of the documents; `HandlerCap` = 2 is exceeded by three registered paths, and
`MaxCallbacks` bounds the registrations. All runs check for deadlock; the states in which
a component is freed, or the program is at an end, loop on themselves.

Symmetry is used where values are interchangeable and no liveness is checked.

Fairness (`pool_live` only). Weak fairness on `Proceed(t)`: the operating system runs every
thread, and tasks return. Strong fairness on `TakeLock(t)`: a thread that wants the mutex
gets it if it is free again and again; POSIX promises no more than progress, but the default
mutex of the platforms the library is built for starves nobody for ever. Nothing is assumed
of callers: no one has to call anything, and spurious wake-ups may happen or not.
`PollSucceeds` needs them to stop at some point, since a worker that wakes up over and over
is not idle each time the owner looks; its premise says so.

### Disagreements found

Two runs expect a violation: the property is what a test relies on, and TLC's trace is what
the code does instead.

* `hash_map_remove_deep`, `at_hashmap.c:357`: the loop over the followers does not advance,
  so `hashmap_remove` ends only if the key is in the first follower (`RemoveReturns`).
* `http_method`, `at_httpclient.c:130`: every request of a client after a `httpclient_head` is
  a HEAD, since `CURLOPT_NOBODY` is never set back, and after a post with parameters every get
  is a POST; `tests/test_httpclient.c` gets texts (`MethodAsAsked`). The next borrower of the
  client inherits it.

Met while modelling, and kept in the models as the code does them, without a run of their
own. The passing properties are restricted to what is left, and claim none of what does not
hold:

* `hashmap_remove`, `at_hashmap.c:350`: frees the wrong node, as it has already changed
  `node_ptr->next`: a leak with one follower (`MapWellFormed` counts it), a link to freed
  memory with two, after which `MapWellFormed` and `ImplementsDictionary` claim nothing.
* `mpool_compress`, `at_mpool.c:26`: moves blocks whose pointers callers hold;
  `tests/test_mpool.c:26-28` uses such a pointer afterwards. `OwnersServed` speaks of the
  blocks that were not moved.
* `bitset_reset`, `at_bitset.c:65`: clears the whole word, where the comment at line 53 says
  "reset bit at index of m_index to be 0", and counts one bit. It also asserts `index > 0`,
  which `bitset_set` does not. `ExactUntilReset` says what is left.
* `expand_buffer`, `at_string.c:16`: clears from `size` on as many bytes as the buffer has grown
  by, so the last `capcity - size` bytes stay as `realloc` delivered them, and `string_cstr`,
  which `tests/test_httpclient.c:27` prints, may run on behind the text. `HalfFullIsCString`
  says how far it can be relied on.
* `min2n`, `at_util.c:112`, is 0 above the highest power of two, where its comment (lines
  99-102) promises a power of two above n. `RoundingExact` leaves those numbers out.
  `is2n` is 0 for 0 as well.
* The comment of `xmlparser_register_node_callback` (`at_xmlparser.c:66-67`) gives paths with a
  slash at the end, `/root/a/a1/`; `travel` looks for paths without it, as
  `tests/test_xmlparser.c:14` has them, or for the bare name, and a callback registered in the
  form of the comment is never called. `CallsExact` counts what is due by the two forms that
  work.
* `httpclient_reset_header` leaves curl with the freed list (`BorrowerCrashes`), and a client
  goes back to its pool with the headers its borrower set: `HeadersComplete` counts headers
  since the last reset, whoever set them, and excepts the freed list.
* A NULL given back to the client pool ends `httpclient_pool_destroy` early, and a task that
  another thread submits while the owner stops the thread pool may stay in it:
  `DestroyedWithClients` and `FreedWhenDrained` except just these.
* `trim`, `at_util.c:188`: the second loop counts `i` up and `len` down and so stops half-way:
  of a text that begins with more blanks than half its length some blanks stay.
  `TrimExact` states exactly that.
* `xmlparser_destroy` does not free the strings in `handler->node`. The header declares
  `xmlparser_create_for_str`, the source defines `xmlparser_creata_for_str`.

## 4. Proofs

All for every value of the constants, under the assumptions named in the modules
(`ThreadPoolAssumption`: finitely many workers, at least one, the thread sets disjoint;
`RingQueueAssumption`, `StackAssumption`, `HashMapAssumption`, `MemPoolAssumption`,
`HttpClientPoolAssumption`, `HttpServiceAssumption`, `BitsetAssumption`,
`AtStringAssumption`, `AtVectorAssumption`, `AtUtilAssumption`, `XmlParserAssumption`:
capacities, sizes and hashes natural numbers, positive where the code needs it, the special
values distinct from the ordinary ones, texts without a zero byte, documents trees; and
`TextToolsAssumption`, for the functions on texts only, which characters these have).

**ThreadPoolProofs.** The properties of `pool_safety` are not inductive one by one. `IInv`
adds to them what the code keeps implicitly:
`Control` (whoever is in a critical section holds the mutex, sleepers are waiting, and the
owner's position fixes `status`), `InHand` (a worker has a task exactly while it runs it, a
caller an argument exactly while it submits), `ArgFresh` (nobody else has the task being
submitted), `SawEmpty` and `NoneEnters` (a worker on its way to sleep saw an empty stack,
under the mutex, and after the broadcast nobody is on that way, because `status` was
written before the owner took the mutex), `Quiescent` (after an AT_TRUE answer nobody inside
the pool has or will get a task), `Drained` and `AllJoined` (a worker leaves only when the
stack is empty, and what comes later comes from a worker that is still there, or from an
overlapping client). `WorkConserving` is a counting argument on finite sets: a push adds a
task and, if anybody sleeps, a seeker. From `Invariant` follow `TypeCorrect`,
`Conservation`, `IdlesCorrect`, `WorkConservation`, `NoMissedStop`, `AllIdleCorrect` and
`StopDrains`; `Refinement` maps every step to a step of `TaskPool` or none, and needs
`~Overlap`, as a late client's push has no counterpart there.

**RingQueueProofs.** `IInv` has the types, the shape of the ring (`RingWellFormed`: `tail` is
`size` slots after `head`), and that the pointer of the last pop is as far in front of
`tail` as it has pushes to live, so no push hits it before (`PoppedStays`). `Refinement`:
the slots from `head` on, read as a sequence, are the queue.

**HttpServiceProofs.** First the pool alone: `OnePlace` is inductive with the types; `ResponseIsOwn` rests on
it, since two threads with one client would overwrite each other's response. `NoNullUnseen`
and `EndsEmpty` say that the loop of `httpclient_pool_destroy` ends early only at a NULL
somebody gave back. `ServiceImplementsPool`: a call on a borrowed client is a step of the
pool or none, so the pool's theorems hold of the service (`ServiceOneOwner`). The clients
have an invariant of their own, `ServiceInv`: the header list is what was set since the
last reset, and `op_code` 0 goes with the answer's status. From it follow `FreshStatus` and
`CompleteHeaders`.

**HashMapProofs.** Everything rests on `Table(t, c, L)`, which says when the nodes `t` are a
table of `c` buckets that has lost the nodes `L`: the addresses are the buckets and what
`malloc` gave (`Places`); every follower is the `next` of its `prev`, lost nodes and unused
buckets have no `next` (`Links`); all keys of a list belong in its bucket and none occurs
twice (`Homes`); and `next` descends in some numbering of the nodes (`Descends`). The last
part is needed because the others also hold of a ring of followers: with it the recursive
`Listed` is defined (`ListedIs`), every node in use is on the list of its bucket
(`TableFacts`) and searches find it (`FindIs`). `AddedTable`, `ValueTable`, `AloneTable`,
`HeadTable` and `SecondTable` show that each way to insert, overwrite and remove takes a
table to a table, with a new numbering for each. `expand_map` is followed by induction over
its steps: after n of them the new table holds n of the old entries, and the iterator has
the others still before it (`Copied`), so the loops, which count up to `size`, copy them all
(`ExpandedIs`). `IInv` has for a live map that some `L` of `shifts` nodes makes it a table,
that `size` counts the nodes in use, that the held pointer is to one of them, and that each
promised key of an iteration was returned or is still to come; from it follow
`StaysWellFormed`, `HeldPointersStay` and `IterationsExact`. `MapIsDictionary` reads the
entries of the table as the dictionary. A hash set is a map (`SetIsMap`), whose array,
built by an iteration over all nodes (`VisitedIs`), stays good as insertions move no node
(`ArraysStay`).

**MemPoolProofs.** `BlocksApart`, with the types, is what the other properties stand on: the
list runs upwards from `allocs` to `last_alloc` past every header and no block reaches into
the next. It says where the lists lead without recursion, so that placement in a gap and
removal can be done by cases. `Target`, the place compression gives each block, is
recursive: it is shown to be defined (by induction over the addresses), not to exceed the
block's address, and to keep blocks apart; how much lower the last block gets is what
`FreeAccounted` adds up. `IInv` joins `FreeAccounted`, `OwnersServed` and `RetryFits`;
`OwnersServed` is inductive only together with the order of the blocks, since `mpool_free`
trusts `prev` links that `mpool_compress` may have left behind.

**BitsetProofs.** An index is its group and its bit, and no other pair is the same index
(`Division`, `PartsOfIndex`). `IInv`: every one is a member, groups without a reset have
the bits of all their members, and the counter is the number of members, or more once a
reset has hit. `CounterHolds` follows as the ones are a subset of the members.

**BufferProofs.** For the string, `IInv` is `WellFormed`: the text is shorter than the buffer,
and behind it the lower half of the buffer is zero. What matters is growth: an append that
needs room at least doubles the buffer, so the bytes `expand_buffer` does clear reach beyond
its half. `Refinement`: the bytes in use are the text. For the vector, `VInv` says that a
pointer that is not stale points into the array, and that an iterator has returned as many
elements as it has moved, and was asked at least as often. `VectorIsList` follows from what
the operators of `VectorBuffer` do to `Elements` (`InsertAppends`, `PrefetchAppends`,
`PutOverwrites`, `ResetVector`): a pointer kept over a reset may write behind the last element,
where it shows nowhere. `IterationsAgree` is the step of an iterator under `VInv`. For the
stack, types and `CursorAgrees` (`cursor` is `size - 1`, all slots up to it written) are
inductive together; `StackIsLifo` reads the slots below `size` as the stack.

`BufferProofs` also has the functions of `AtUtil`, each a recursive function that is
unfolded with `Recursion` (or `RecursionToTop`, for loops that count upwards). A number of
k bits lies between two powers (`Sized`): halving takes a bit away, so `ShiftedPer` is the
power above it (`ShiftedPerIs`), 0 when that is shifted out of the word (`ShiftedPast`),
and `LowestBitOff` is 0 for the powers alone (`OneBit`). So `min2n` is the next power or 0
(`RoundsUp`), never 0 up to the highest power (`RoundsUpBelow`); `RoundingsExact` follows. That the
string holds a text of whole characters (`TextHeld`) is an invariant with `IInv`, as texts in
a row are a text (`TextsJoin`). `NumbersAreRecognised` takes a number apart at the sign and
the point and back (`DecimalIsNumeral`, `NumeralIsDecimal`). For `TrimIsExact` each loop has
a claim that holds at the boundaries between characters: `CutEndIs` goes up the length,
`CutStartIs` down the offset; both loops stay on boundaries, where `is_full_blank` is true of
nothing but U+3000 (`FullBlankIs`).

**XmlParserProofs.** What travel has done is told from where it is. `PCore`, the invariant,
says that the frames are a way down the tree, each with its parent's path before it
(`FramesHeld`); that no two handlers have one path (`HandlersHeld`), so that `get_handler`
finds the one that is meant; that the running loop has no more calls to make than its
handler has callbacks (`CallingHeld`); that the calls made are for nodes passed, none inside
of another's (`LogHeld`); and, as long as nothing is registered, that they are those due for
the nodes before the one travel is at (`PosOf`), and no parent on the way down has a handler
(`QuietHeld`). `After(n)`, the first node that is not below n, is where travel goes on
behind n (`AfterIs`, `DescendantsAre`), and no registration changes it. The last return is
behind the last node, and there `QuietHeld` is `ParserCallsExact`. `ParserWithinLimits` rests on how
far a path that was appended to a string of `NodePathCap` bytes is followed by a zero
(`ShortPathsEnd`), and on the array of handlers moving only when it is full. The model's
recursive functions (paths, ancestors, and the `FlattenSeq` of the library, in which the
calls due are added up) are unfolded with `Recursion`, a theorem on functions that are
defined along parents, proved in `BufferProofs` from the library's well-foundedness of the
natural numbers.

Only model-checked: liveness and anything under fairness, which this prover cannot do. Every
safety invariant and every refinement that the passing runs check is also proved.

## 5. Not modelled

* Failures of `malloc`, `realloc` and `pthread_create` where the code does not look at them.
* Calls on a component that is being freed by another thread (of the thread pool only the
  overlapping `add_task` is modelled up to the point where the pool is freed).
* Of the hash map: the setters for hash and comparison functions, which come before the use
  of a map; `key_hash_fn`, which `hashmap_new` leaves uninitialised, so that
  `is_map_integrity` cannot do its work; floating-point keys that are equal with different
  hashes; strings, which the map does not copy, changed by their owner; `hashmap_dump`.
* Of the http client: the settings made once, the text of the response and
  `httpclient_get_header`, which only reads it.
* `bitset_new(0)`, whose capacity wraps around; `string_blank(0)`, from which
  `string_appendch` writes behind the buffer.
* Of the memory pool: the contents of blocks, and `memcpy` of a block onto a place that
  overlaps it.
* Of the xml parser: documents libxml2 cannot read, callbacks that parse or destroy the
  parser, the evaluation of XPath expressions by libxml2.
* Of the utilities: the hash functions, `is_full_char`, and the functions on dates, files
  and directories, which are calls of the C library without state of the program's own.
* Characters of two or four bytes in the texts `trim` gets, at whose end `is_full_blank` may
  look at the byte behind the text.
* The width of integers in sizes of arrays (in `AtUtil` it is modelled). So of the hash map
  capacities above 2^30, which an `int` does not hold once they are rounded up.
* `at_types.h` and `at_define.h`: a boolean type and macros.

## 6. How it was built, and what is left

In this order: `ThreadPool` with its abstract specification and proofs, the queue and the
stack with theirs, the hash map, the bitset, the memory pool, the http client and its
pool; then string, utilities, vector and xml parser, the clients inside the pool, the hash
set on the map, and the proofs for the bitset, the string and the service; then those for
the memory pool, the hash map, the hash set, the vector, the xml parser and the functions
on texts.

Left, in order of weight:

1. Two keys of a map that are equal with different hashes, once it is said what
   the map owes to such keys.
