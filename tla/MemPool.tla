------------------------------ MODULE MemPool -------------------------------
(***************************************************************************)
(* mempool.c on top of heap.c: a pool of blocks of one size inside one     *)
(* block of the heap, next to other users of the heap.  A pool node is     *)
(* named by its address; the user's bytes of it follow its struct.         *)
(*                                                                         *)
(* Pools of fewer than two blocks are left out: for one, pool_apart writes *)
(* through a pointer it never set, and for none it counts down from 255.   *)
(***************************************************************************)
EXTENDS Heap

CONSTANTS
  PoolSizes,   \* values of size for mem_pool_create
  PoolAmounts  \* values of amount

ASSUME MemPoolAssumption ==
  /\ PoolSizes \subseteq 0 .. 2^16 - 1
  /\ PoolAmounts \subseteq 2 .. 255

VARIABLES
  pool,       \* the pool with its nodes, NoPool without one
  free_list,  \* the nodes behind pool->free_list
  node_used,  \* the nodes with used = 1
  held        \* history: the nodes whose blocks users have

poolVars == <<pool, free_list, node_used, held>>

node_struct_size == 32
head_struct_size == 48

NoPool == [block |-> [addr |-> NULL, size |-> 0, req |-> 0], nodes |-> <<>>, size |-> 0]

(* Variants named X_... change X the way a slip in the code would; none is *)
(* part of the specification.                                              *)
ApartSize_NoNode(size) == RoundUp(size)

(* Bytes from one node to the next. *)
ApartSize(size) == RoundUp(size + node_struct_size)

TotalSize(size, amount) == amount * ApartSize(size) + head_struct_size

PoolInit ==
  /\ HeapInit
  /\ pool = NoPool
  /\ free_list = <<>>
  /\ node_used = {}
  /\ held = {}

(* The pool in the heap block b, cut up by pool_apart. *)
PoolIn(b, size, amount) ==
  [block |-> b, size |-> size,
   nodes |-> [i \in 1 .. amount |->
     b.addr + heap_struct_size + head_struct_size + (i - 1) * ApartSize(size)]]

mem_pool_create(size, amount) ==
  /\ pool = NoPool
  /\ heap_malloc(TotalSize(size, amount))
  /\ \E b \in live' \ live : pool' = PoolIn(b, size, amount)
  /\ free_list' = pool'.nodes
  /\ node_used' = {}
  /\ held' = {}

CreateFails(size, amount) ==
  /\ pool = NoPool
  /\ MallocFails(TotalSize(size, amount))
  /\ UNCHANGED poolVars

(* The first node of the list, unless it is marked used. *)
mem_pool_alloc ==
  /\ pool # NoPool
  /\ free_list # <<>>
  /\ free_list' = Tail(free_list)
  /\ node_used' = node_used \cup {Head(free_list)}
  /\ held' = IF Head(free_list) \in node_used THEN held ELSE held \cup {Head(free_list)}
  /\ UNCHANGED <<heapVars, pool>>

PutBack_Last(blk) == Append(free_list, blk)

(* In front of the next node, in the order of addresses, that is not used, *)
(* or at the end of the list.                                              *)
PutBack(blk) ==
  LET later == {n \in ToSet(pool.nodes) \ node_used : n > blk}
      at    == SelectInSeq(free_list, LAMBDA n : n = Min(later))
  IN  IF later = {} THEN Append(free_list, blk) ELSE InsertAt(free_list, at, blk)

mem_pool_free(blk) ==
  /\ blk \in held
  /\ node_used' = node_used \ {blk}
  /\ free_list' = PutBack(blk)
  /\ held' = held \ {blk}
  /\ UNCHANGED <<heapVars, pool>>

mem_pool_delete ==
  /\ pool # NoPool
  /\ heap_free(pool.block)
  /\ pool' = NoPool
  /\ free_list' = <<>>
  /\ node_used' = {}
  /\ held' = {}

(* Other users of the heap. *)
OtherUser ==
  /\ \/ /\ Cardinality(live) < MaxBlocks
        /\ \E req \in HeapRequests : heap_malloc(req) \/ MallocFails(req)
     \/ \E b \in live \ {pool.block} : heap_free(b)
  /\ UNCHANGED poolVars

PoolNext ==
  \/ OtherUser
  \/ \E size \in PoolSizes, amount \in PoolAmounts :
       mem_pool_create(size, amount) \/ CreateFails(size, amount)
  \/ Usable /\ mem_pool_alloc
  \/ \E blk \in held : Usable /\ mem_pool_free(blk)
  \/ mem_pool_delete

-----------------------------------------------------------------------------
(* The free list holds exactly the nodes that nobody has, lowest address   *)
(* first, in whatever order blocks are taken and given back, so that no    *)
(* block is handed out twice or lost.                                      *)
PoolListExact ==
  /\ ToSet(free_list) = ToSet(pool.nodes) \ held
  /\ \A i \in 1 .. Len(free_list) - 1 : free_list[i] < free_list[i + 1]

(* What the pool and its users write lies inside the heap block the pool   *)
(* was given: the head, the structs of the nodes and the users' bytes have *)
(* no byte in common, and none of them belongs to another user of the heap.*)
PoolBytesApart ==
  pool # NoPool =>
    LET base == pool.block.addr + heap_struct_size
        Parts == {<<base, head_struct_size>>}
                   \cup {<<n, node_struct_size>> : n \in ToSet(pool.nodes)}
                   \cup {<<n + node_struct_size, pool.size>> : n \in ToSet(pool.nodes)}
    IN  /\ \A p \in Parts : base <= p[1] /\ p[1] + p[2] <= base + pool.block.req
        /\ \A p, q \in Parts : p = q \/ p[1] + p[2] <= q[1] \/ q[1] + q[2] <= p[1]
        /\ \A b \in live \ {pool.block} :
             b.addr + b.size <= pool.block.addr
               \/ pool.block.addr + pool.block.req + heap_struct_size <= b.addr
=============================================================================
