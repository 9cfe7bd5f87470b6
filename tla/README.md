# ccRPC in TLA+

ccRPC is a small RPC runtime in C for MCUs and Linux. A node is a process with
application threads that call remote methods and one poll thread per transport
that receives bytes. This directory models its parts in TLA+, checks them with
TLC on small instances and proves, with TLAPS and for every size, the safety of
the call runtime, of the reassembly, of the hash map and of the red-black tree with
their promises, of the four allocators and of the typed stubs. Line numbers refer to the files under `src/`;
`PROJECT.json` maps every definition to its lines.

## The system

| Part | Source | State | Operations | Module |
|---|---|---|---|---|
| Call runtime | `ccrpc/source/rpc.c`, `rpc_port.c` | `g_rpc_lock`, `g_next_seq`, `g_pending`, `g_methods`, `g_transport_map`, waiters | `rpc_bind_transport`, `rpc_register_method`, `rpc_call_with_tlv`, `rpc_on_data` with the request and response handlers | `CcRpc`, promise in `CallContract`, proofs in `CcRpcProofs` |
| Reassembly | `rpc.c` 120-243, 444-496 | `rpc_reasm`: list of pieces and `total_len` | append, peek header, consume | `Reasm`, promise in `OrderedDelivery`, proofs in `ReasmProofs` |
| Hash map | `lib/source/hashmap.c`, `link_list.c` | buckets, rings of entries | init, put, get, remove, contains, clear, destroy | `HashMap`, promise in `KeyedTable`, proofs in `HashMapProofs` |
| Heap | `mg/source/heap.c` | free list, `all_size`, tail node | init, malloc, free | `Heap`, proofs in `AllocatorProofs` |
| Fixed-size pool | `mg/source/mempool.c` | `used` marks, free list | create, alloc, free, delete | `MemPool`, on `Heap`, proofs in `AllocatorProofs` |
| Region allocator | `mg/source/mg_alloc.c`, `membit.c` | pools per size class, or a bump pointer | create, alloc, reset, destroy | `MgRegion`, proofs in `AllocatorProofs` |
| Tree-based allocator | `mg/source/memalloc.c` | list of all blocks, tree of the unused ones, `all_size` | init, malloc, free | `MemAlloc`, on `RbTree`, proofs in `RbTreeProofs` |
| Red-black tree | `lib/source/rbtree.c` | nodes, root, cached ends, count | insert, remove, replace, first, last, next, prev, first greater, search | `RbTree`, `RbTreeCalls`, promise in `OrderedNodes`, proofs in `RbTreeFacts`, `RbTreeProofs` |
| Radix tree | `lib/source/radix.c` | root, nodes in the heap | insert, delete, lookup, leftmost, upper bound | `Radix` |
| Typed stubs, TLV codec | `ccrpc/source/rpc_gen.c`, `rpc_tlv.c` | the caller's buffers, the server's static `param_buf` and `result_buf` | `rpc_call_<name>`, parsers, emitters, free functions | `Stub`, proofs in `StubProofs` |
| TCP port, nodes A and B | `port/src/rpc_cal_tcp.c`, `nodeA`, `nodeB` | a socket | send, recv, poll loops, handlers | as parts of `CcRpc`, `Reasm`, `Stub` |

How they interact. A stub encodes its parameters and calls
`rpc_call_with_tlv`, which looks the transport up **without** the lock, then
under `g_rpc_lock` draws a sequence number, puts a `pending_call` into
`g_pending` and sends the request. It waits on its waiter without the lock and
takes the lock again to remove the entry. The peer's poll thread hands bytes to
`rpc_on_data`, which holds the lock while it reassembles messages, runs
handlers and sends responses, or copies a response into the caller's buffer and
wakes the caller. All tables, messages and fields live in the one heap, which
has a lock of its own. The pool, the tree-based allocator and the two trees
are library code beside it: `mempool.c` and `radix.c` take their memory from
the heap, `memalloc.c` keeps its free blocks in the red-black tree, and neither
node uses any of them.

What is hard there: sending and, in polling mode, receiving block with
`g_rpc_lock` held; responses may be late, lost, or race the timeout; sequence
numbers wrap; tables are read while they change; pieces of a stream fall
anywhere; each allocation may fail; static buffers carry pointers from one
request to the next; a tree's shape depends on everything that was done to it
before, and its cached ends and counts are kept by rules of their own. `PROJECT.json` lists these as hazards, each at its line.

## Modules

**CcRpc** has one action per stretch of code between two lock operations or
blocking calls. A caller moves through `idle`, `enter` (looked up), `send`
(lock held), `wait`, `blocked` (in `pthread_cond_timedwait`), `leave`; a poll
thread through `recv`, `lock`, `poll` (receiving with the lock held), `loop`
(lock held), `reply` (sending with the lock held). The lock is a variable, so
a thread that blocks with it is visible. A message is its header fields and the
identity of the call it belongs to: that is all the properties tell apart of
a payload. A connection is two bounded FIFO channels (`ChanCap` messages before `send`
blocks) that may go down for good. Handlers and clocks are nondeterministic: a
parameter block parses or not, a handler succeeds or not, a wait may time out at any
moment. The history variables `issued`, `execs` and `refused` record which
call drew which number and whether its handler ran.

**CallContract** is what the runtime promises, with no threads, numbers or
messages: a call runs at most once and its result does not lie about that.

**Reasm** works on bytes `<<m, o>>` (message, offset) and takes every iteration
of the loops in `rpc_reasm_peek_header`, `rpc_reasm_consume` and
`rpc_on_data` as a step. **OrderedDelivery** is its promise: messages come out
in the order sent, each at most once, and only one that was refused memory is skipped
(`refused`, in both modules, records the failed allocations of `msg_buf`, `rpc.c` 485).
`has_recv` says whether the transport has the `recv` that the manual calls
optional. Once a byte of the stream is lost (`broken`) the framing is gone, and
only the consistency of the list is still claimed.

**HashMap** keeps `next` and `prev` of every ring cell. The writer (there is
one, the lock's holder) splits its stores where a reader could see the
difference. `shared` says which table it is: `g_transport_map` has
readers without the lock and no removals, `g_pending` the reverse. A reader follows one `next` per step, as `rpc_transport_lookup`
does without the lock. Stores become visible in program order, as on the x86
hosts the nodes run on: the C code has a data race there, and a weaker memory order is
not covered. **KeyedTable** is the promise: a lookup returns what its
key was bound to at some moment between its beginning and its end.

**Heap** and **MgRegion** are allocators, one action per
operation; `heap_malloc` and `heap_free` run under `mem_lock`, a region is
used by one thread at a time. `Heap` stops once a block that reaches over the
tail node has been handed out (see hazards), since the caller's writes then
decide what the list is. **MemPool** is `mempool.c` as a client of `Heap`: a
pool lives in one block of it, while others allocate and free around it.

**RbTree** is `rbtree.c` as operators from tree to tree, each pointer
assignment of the code an update of one field; the code's mirror images are one
definition with the side as a parameter. **RbTreeCalls** is a caller that
inserts, removes and replaces nodes; **OrderedNodes** its promise, a sorted
list in which a node stands behind earlier ones of the same value (`rbtree.c`
432). **MemAlloc** uses the same operators: its blocks' addresses are the
tree's nodes, their sizes the values. **Radix** has the blocks of the heap
that hold nodes, and an insertion may find the heap empty at any of its
allocations. A root that has not grown has the root struct for its parent
(`radix.c` 120), and the model reads it as the code does: `slots[1]` of it is
`rnode`. After `radix_tree_grow_height` has failed, heights and levels disagree
and the model stops.

**Stub** is one typed call at a time, end to end, at the level of bytes and
heap blocks. `Base` (256 in the code) scales the byte so that both bytes of a
TLV length are exercised. A `heap_malloc` whose result is not checked ends the
process. Results are assumed to fit `resp_tlv`, which the encoder does not check.

`MC…` modules hold the instances. `MCAllocators` (the four allocators, and the
red-black tree called directly) and `MCTables` (hash map and radix tree) put
components that share nothing side by side: `which`, chosen at the start, says
which of them a behaviour is about. Definitions named `X_Suffix` are
variants of `X` with a plausible slip; each property is shown to fail under one
of them, which is what the `mutants` of `PROJECT.json` are.

## What is checked

Passing runs:

| Run | Instance | Shows |
|---|---|---|
| `ConcurrentCalls` | two threads, three calls each, numbers 1..3, one message per direction | `TypeOK`, `MutualExclusion`, `PendingExact` when the counter wraps onto waiting calls, `NoLostWakeup`, `AnswerMatches`, `NoLateWrite` |
| `FaultyCalls` | one thread, three calls, an overlong name, a transport in polling mode, allocation and link failures | `AtMostOnce`, `OutcomeTruthful`; `PendingExact` on the error paths |
| `TwoWayCalls` | both nodes call and serve, with failures, channels that hold every message | `CcRpc` implements `CallContract`; `CallReturns` under fairness |
| `Reassembly` | three messages of 3 to 7 bytes, any cuts, failing allocations, short sends, with and without `recv` | `TotalExact` (with `TypeOK`) on any stream; as long as no byte was lost `Intact`, `NothingWaits`, refinement of `OrderedDelivery`, and `AllTaken` under fairness |
| `Tables` | three keys in two buckets, both tables; a radix tree of one bit per level, four indices, two items for each | `RingsIntact` (with `TypeOK`), refinement of `KeyedTable`, `LookupReturns` under fairness; `LookupExact`, `RadixShape`, `UpperBoundExact` |
| `Allocators` | a heap of 248 bytes at an aligned and an unaligned address with a pool of two or three blocks in it; regions with sizes around the class limits and a scaled 32-bit range; `memalloc.c` with 804 bytes; a red-black tree of seven nodes at will, two with the same value, and a spare that replaces others, and one of ten nodes filled and taken apart in every order | `Tiled` (with `HeapTypeOK`), `FreeListExact`, `MetadataSafe`; `PoolListExact`, `PoolBytesApart`; `BlocksFit`, `BlocksDisjoint`; `MemTiled`, `MemTreeExact`, `BestFit`; `TreeBalanced`, `EndsCached`, `TreeSearches`, refinement of `OrderedNodes` |
| `TypedCalls` | the methods of the xdef files and one with two strings, NULL and overlong strings among the values | `ParamsArrive`, `ResultsReturn`, `FitsBuffer`, `HeapBalanced` |

Runs in which the code does not do what a document says:

| Run | The document | The code |
|---|---|---|
| `BlockedSends` | a call has a timeout | both poll threads answer requests on full connections (`reply`, `rpc.c` 376 and 272), each with its node's lock held, so neither reads what the other waits to send; the callers time out and then wait for the lock for good (588) |
| `TimeoutRace` | TIMEOUT: no response was received | a response may be complete in the buffer |
| `LongStrings` | a TLV that is not valid is refused with INVALID_PARAMS | a length is stored modulo 2^16: the handler runs on a part of a longer string, and the call returns OK |
| `NoRecv` | `recv` is optional | without it `rpc_on_data` drops everything it is given |
| `EmptyPoll` | the runtime is thread-safe | `rpc_on_data` with nothing to receive keeps the lock |

Other differences from the manual (`docs/中文/使用手册.md`), met while modelling:

- Line 99 says a call returns an `rpc_status_t`; local failures return negated
  values (`rpc.c` 547, 556, 570, 581), and `CcRpc` models them so.
- Line 105 says of OK that the result is valid; a response longer than the
  caller's buffer is cut and reported OK (`rpc.c` 414).
- Line 81 says `rpc_on_data` reassembles what arrives. A piece there is no memory for is
  dropped (`rpc.c` 143), and a short count from `send` is taken for success
  (`rpc.c` 306-309): after either, `Reasm` promises no message any more.
- Line 17 calls `pending_cap` the maximum of pending calls; it only sizes the bucket array.

And from comments and between functions of the library:

- `radix.c` says that rightward traversal supports upper-bound queries (158-159); without an item
  above the index, a tree that has not grown returns its least item. `UpperBoundExact` leaves this case out,
  and indices above the tree's height: it would fail for both.
- `radix_tree_delete` refuses an index above the tree's height (227), `radix_tree_lookup` does not and
  finds the item of the lower bits (`LookupExact`).
- `rb_replace_node` leaves `first_node` and `last_node` as they are (369-388), unlike insertion and
  removal; `EndsCached` holds until it is called for one of them.
- `memalloc.c` never serves a request from a block of exactly its size (90), although the test before
  (87) lets it through.

**Bounds.** Two callers per node are the fewest that compete for the lock and for a
number; two calls of a thread let a late response of the first meet the second, and
three with `SeqMax` 3 make the counter wrap onto numbers that wait. `AnswerMatches`,
`OutcomeTruthful` and the contract speak of numbers not yet reused: `FaultyCalls` and
`TwoWayCalls` never wrap. `METHOD_LEN` and `BufSize` 2 have values on both
sides among the names and results. Three messages, one without and one with more payload than a header, give every way in which
a header can straddle pieces, a piece of 12 bytes may hold several messages, and one loss per behaviour
(`MayLose`) breaks the stream at every byte. Two buckets for three keys force collisions.
In `Allocators` a 33-byte request and an empty one give both splits
and refusals to split around a pool, three pool blocks come back in every order, and blocks of 80 and 160
bytes in `memalloc.c` give exact fits, splits and all four ways of joining; `MaxBlocks` bounds the blocks of the heap's other users.
Seven nodes are inserted and removed at will (`Usual`), which never gives three black levels; so that a removal repairs
the tree on two levels one after the other, ten nodes (`Fill`) are also inserted in ascending order and then removed in every
order (`plan`). One bit per level (`BIT_LEVEL` is 4 in the code, whose comment says that any value works)
makes a tree of three levels out of four indices, which grows by one and by two levels. String lengths 5, 24 and 27 with `Base` 5 are the first that
needs the second length byte, the last that fits in two, and one that does not.

**Fairness.** `FairSpec` of `CcRpc` is weak fairness of every caller's and every
poll thread's own steps: pthreads are scheduled, a mutex that is free is obtained, a timed wait
ends. It does not assume that the network delivers, that a handler
succeeds or that anyone makes another call. In `Reasm` it is that of the poll thread, which loops for ever
(`nodeB/src/main.c` 26-36), and of the peer that sends the messages (`Send`), and in `HashMap` a reader's.

Deadlock checking is off where the system does stop: reassembly after the last message, a node
that dies of a NULL pointer, the heap and (in `Tables`) the radix tree as said above, and the runs in which a node can hang with
its lock held (`EmptyPoll`, `BlockedSends` and, since connections of one message
fill up there too, `ConcurrentCalls`).

## What is proved

Each theorem holds for every value of the constants that satisfies the `ASSUME` of the module it is about: any topology, number
of threads, keys, messages and sizes. Most invariants are not inductive as they stand; what follows says which
stronger one was needed and why. Facts about numbers, sets and sequences that
several proofs need are in `DataFacts`.

**Call runtime** (`CcRpcProofs`)

- `TypeCorrect`: `TypeOK` always holds. `TypeInv` adds what the program
  counters say of the locals (a pending call has a number, a reply in progress is a message).
- `MutualExclusionHolds`, from `LockOwned`: whoever is in a critical section
  is the lock's recorded owner. Exclusion alone is not inductive, since it does not say whose release it is.
- `PendingExactHolds`: `PendingExact` is inductive given `TypeInv`. The heart is
  that `rpc_next_seq` skips numbers in use, and that both ways out of a call remove its own entry.
- `AnswerMatchesHolds`, from `AnswerInv`: a node's numbers are handed out in order
  until the counter wraps (`Counters`), so a number names a call (`Owns`), and every
  message on a wire, in an inbox or about to be sent carries the number of the
  call it belongs to (`MsgInv`), and travels between that call's node and its peer.
- `NoLostWakeupHolds`, from `WakeInv`: for every program counter, how `done` and `signaled` are related.
- `NoLateWriteHolds`: the action property, from `RetInv` (only calls that have begun have results).

**What a call's result says** (`CcRpcProofs`)

- `AtMostOnceHolds`, from `SentInv`: a call that has not been sent has left no trace (`UnsentFresh`); at most one
  copy of a request is on all wires and in all inboxes together (`OneCopy`), and its call has neither run nor been refused (`WiresLive`,
  `InboxesLive`). Counting executions alone says nothing about what is still on its way.
- `OutcomeTruthfulHolds`, from `TrueInv`: what `OutcomeTruthful` says of a result already holds of the status in a response
  on a wire, in an inbox, about to be sent, or copied into a caller's buffer.
- `ContractImplemented`: `Spec /\ []NoWrap => ImplementsContract`, where no node has yet reused a number (`NoWrap`) and names are not
  empty (`NonEmptyNames`; an empty one makes a request look like a response, `rpc.c` 438). Both hypotheses are
  those of `OutcomeTruthful`: after a wrap a late response may answer another call.

**Reassembly** (`ReasmProofs`), from `ReasmInv`

- `TotalIsExact`, also after lost bytes: `total_len` counts the list and what the loop has already copied out of it (`Held`).
- `MessagesIntact` and `NoMessageWaits`: unless a byte was lost, the bytes held and the bytes on their way are, one after
  the other, the rest of one message and then whole messages (`Flow`). No statement about the list alone is inductive,
  since a cut may fall anywhere.
- `OrderedDeliveryImplemented`: the refinement, from the same invariant; a step of a loop is a stutter, and the last one of a copy the delivery.

**Hash map** (`HashMapProofs`), from `HashInv`

- `RingsStayIntact`: every bucket's ring is a list of distinct entries from its head back to it (`RingIs`), which gives the walk a
  length to count on; and between the stores of an insertion the entry that is not linked yet is prepared (`Writing`), and a destroyed table is empty (`Down`).
- `TableImplemented`: a reader stands on the ring of its key, with the key's entry ahead of it if the key was bound
  all the while, and the current value is among those the lookup may answer with (`Reading`). The theorem
  is about stores that become visible in program order, as the module is.

**Heap, pool, region** (`AllocatorProofs`)

- `HeapTiled`, `HeapListExact`, `HeapMetadataSafe`, from `HeapInv`: free and used blocks are disjoint, aligned, have room for their struct and
  together are the first block's bytes; the list is in address order with a gap between neighbours; `all_size` is the number of free bytes. The three
  properties support each other: joining two free blocks keeps the order only because nothing touches.
- `PoolListIsExact`, `PoolBytesAreApart`, `PoolKeepsHeap`, from `PoolInv`: the pool's block is one of the heap's blocks in use and the
  layout in it is the one of `pool_apart`; the list holds the unmarked nodes in address order. The heap's invariant is part of it, so the three properties of the heap
  hold with a pool at work as well.
- `RegionBlocksFit`, `RegionBlocksDisjoint`, from `RegionInv`: a pool's bit mask is the complement of what callers have (`GivenOK`); a bump region has
  handed out only bytes below `off` (`BumpOK`). Word sizes are bounded (`U32` at most 2^32) so that the classes can be
  run through one by one.

**Red-black tree** (`RbTreeFacts`, `RbTreeProofs`), for any nodes, values and calls, from `TreeInv`

- `TreeStaysBalanced`: the invariant speaks of single nodes, never of subtrees, so that no recursion is needed. Every node has a place on a
  line and every pointer leads into the interval its place leaves (`Placed`); each has a black height that agrees with its
  kids' (`Heights`). A rotation keeps the places and moves two intervals (`Shape`), and in the middle of a repair exactly one pair of nodes breaks
  the colours (`Clash`) or exactly one side is one too short. The loops run as iterated functions with a measure that falls
  (`LoopEnds`), which also shows that the bound of `Repeat` is never what ends one.
- `EndsStayCached`: first and last in place are where the cached ends point, unless one of them was replaced.
- `TreeSearchesRight`: a search narrows the interval of places in which its answer can be; `InOrder` lists the places from left to right.
- `TreeImplements`: the refinement of `OrderedNodes`; an insertion's new place comes behind those of the same value.

**Tree-based allocator** (`RbTreeProofs`), from `MemInv`

- `MemoryTiled`, `UnusedInTree`, `MallocFitsBest`: the list names in address order blocks that tile the heap, no two
  unused neighbours among them, the unused ones are the nodes of a red-black tree sorted by size, and `all_size` is the number of
  their bytes (`Laid`). The tree's facts are those above: removal keeps the order although `mem_free` has just changed the value of a
  block in the tree, because it compares no values, and only the order of the nodes that stay is claimed. `MemNodeAssumption` says that
  the model has a node for every address at which a block can begin.

**Typed stubs** (`StubProofs`), for every list of field types and every method

- `ParametersFit`: the emitters never write more than the estimate, for fields of any length (for a NULL string the estimate
  is 3 bytes and nothing is written; for every other value the two are equal): `EstimateHolds`, by induction over
  the fields written so far. The encoder's other half, the results, has no estimate (see the hazards).
- `BlocksFreedOnce`, from `HeapInv`: which blocks each side owns at every program counter, and that no two fields name the same
  one. The parser's blocks are new ones, numbered in order (`ParseHolds`), and a static result buffer may
  still hold old pointers, but only of fields the handler sets before they are freed (`HandlerHolds`).
- `ParametersArrive`, `ResultsArrive`, from `ArriveInv` and `ReturnInv`: what is between the two sides is the encoding of what was passed
  (or of what the handler left), and reading an encoding gives back its fields (`ReadsBack` for one, `RoundTrip` for all). Both properties are
  about calls whose values are all shorter than 2^16 bytes (`TwoByteLengths`): two bytes hold a length and `tlv_write` keeps the low ones of a longer
  one, which is what `LongStrings` shows.

How inductions are done. The library's induction rules take an operator and cannot be applied here, so each claim
about all lengths is proved by the least counterexample: a non-empty set of numbers has a least member (`LeastNumber`, and `Induction` for a set that holds
0 and with each number the next). Recursive functions
(`FlattenSeq`, the walks of the hash map) are reasoned about by what one unfolding says, and never by computing them.

Assumptions worth knowing: a value that stands for NULL is different from everything it
is compared with (`NullAssumption`, `HashMapAssumption`: entries are not bucket numbers); `method_len` has 16 bits and `rpc_init`'s
capacities 8; pools have at least two blocks.

Only model-checked:

- liveness (`CallReturns`, `AllTaken`, `LookupReturns`), which is out of the prover's reach, and the runs that show a violation;
- `LookupExact`, `RadixShape`, `UpperBoundExact`: inductions over the levels of the radix tree.

## What is not modelled

- Pools of fewer than two blocks, where `pool_apart` has undefined behaviour, and `remain_node`, which nothing reads.
- Sums that wrap: sizes are natural numbers in `Heap`, `MgRegion` and `MemAlloc`, so requests near `SIZE_MAX`, where the additions at
  `heap.c` 143-148, `mg_alloc.c` 173-175 and `memalloc.c` 76-81 would wrap, are not covered. The 32-bit narrowing
  at `mg_alloc.c` 133 is in the model, and `BlocksFit` says nothing of the requests it changes.
- What happens after a block of the heap has been handed out that reaches over the tail node (`heap.c` 123): `MetadataSafe` exempts that layout.
- `membit_free`, which nothing calls.
- `queue.c`, `stack.c`, header macros: wrappers without state of their own.
- Socket set-up and closing, file and process I/O of the handlers, debug dumps and `heap_get_stats`.
- `hashmap_hash` and key comparison: a parameter and equality.
- `i32` fields: `tlv_write_i32` does not exist, so no method can use one.
- A connection never comes back: the code does not reconnect.

## Plan

Done: the call runtime with its contract, reassembly with lost bytes and transports without `recv`, the hash
map, all allocators, both trees, the stubs; theorems for all of them but the radix tree, four refinements among them.

Next, in this order:

1. Theorems: the shape of the radix tree, by levels.
2. A composition of `Reasm` and `CcRpc`: a broken stream under running calls.
