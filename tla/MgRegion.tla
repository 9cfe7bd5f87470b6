------------------------------ MODULE MgRegion ------------------------------
(***************************************************************************)
(* mg_alloc.c: an allocation region of one of two kinds.  A pool region    *)
(* keeps, per size class, a list of bit-mask pools (membit.c) that grows   *)
(* when they are full; a bump region hands out one buffer from front to    *)
(* back.  Blocks are never freed one by one: mg_region_reset frees all.    *)
(* A heap_malloc that fails makes an operation return NULL and leaves no   *)
(* trace.                                                                  *)
(***************************************************************************)
EXTENDS Integers, FiniteSetsExt, SequencesExt

CONSTANTS
  MaxBits,   \* values of max_class_bits for mg_region_create_pool
  Caps,      \* values of cap for mg_region_create_bump
  RegionRequests,  \* sizes passed to mg_region_alloc
  U32,       \* 2^32 in the code: the range of (uint32_t)need
  MaxPools,  \* bound: pools the heap has room for
  MaxLive    \* bound: blocks handed out between resets

MG_MAX_CLASS_BITS  == 12
MG_MIN_CLASS_BYTES == 32
HeaderSize == 8  \* sizeof(struct mg_block_header)

ASSUME MgAssumption ==
  /\ MaxBits \subseteq 0 .. 255
  /\ Caps \subseteq Nat
  /\ RegionRequests \subseteq Nat
  /\ U32 \in Nat
  /\ MG_MIN_CLASS_BYTES + HeaderSize < U32
  /\ (U32 - 1) \div 2^16 < 2^16  \* U32 <= 2^32, in numbers TLC can reach
  /\ MaxPools \in Nat
  /\ MaxLive \in Nat

VARIABLES
  kind,      \* "none" before creation and after mg_region_destroy
  max_bits,  \* r->max_bits
  pools,     \* pools[b]: the pools of class b, oldest first
  cap, off,  \* the bump state
  given       \* history: blocks handed out since the last reset

regionVars == <<kind, max_bits, pools, cap, off, given>>

Class == 0 .. MG_MAX_CLASS_BITS
Empty == [b \in Class |-> <<>>]

RegionInit ==
  /\ kind = "none" /\ max_bits = 0 /\ pools = Empty
  /\ cap = 0 /\ off = 0
  /\ given = {}

-----------------------------------------------------------------------------
(* A membit pool: its blocks 0 .. count-1, and those whose bit is set.     *)
mg_pool_block_count(size) ==
  IF size <= 64 THEN 8 ELSE IF size <= 128 THEN 2 ELSE 1

membit_create(size, count) ==
  [size |-> size + ((-size) % 8), count |-> count, bitmask |-> 0 .. count - 1]

membit_reset(p) == [p EXCEPT !.bitmask = 0 .. p.count - 1]

(* Variants named X_... change X the way a slip in the code would; none is *)
(* part of the specification.                                              *)
membit_alloc_KeepsBit(p) == p

(* membit_alloc clears the lowest set bit. *)
lowbit_index(p) == Min(p.bitmask)
membit_alloc(p) == [p EXCEPT !.bitmask = @ \ {lowbit_index(p)}]

(* next_power_of_two_index_u32 *)
PowerIndex(x) == IF x <= 1 THEN 0 ELSE CHOOSE i \in 1 .. 32 : 2^(i-1) < x /\ x <= 2^i

ClassOf_NoHeader(req) == PowerIndex(Max({req, MG_MIN_CLASS_BYTES}) % U32)

(* The class a request is served from, its header included. *)
ClassOf(req) ==
  PowerIndex((Max({req, MG_MIN_CLASS_BYTES}) + HeaderSize) % U32)

mg_region_create_pool(bits) ==
  /\ kind = "none"
  /\ kind' = "pool"
  /\ max_bits' = Min({bits, MG_MAX_CLASS_BITS})
  /\ pools' = Empty
  /\ UNCHANGED <<cap, off, given>>

mg_region_create_bump(c) ==
  /\ kind = "none"
  /\ kind' = "bump"
  /\ max_bits' = 0
  /\ cap' = c /\ off' = 0
  /\ UNCHANGED <<pools, given>>

(* Pools with a free block that are large enough, <<class, position>>.     *)
Candidates(bits) ==
  {x \in (bits .. max_bits) \X (1 .. MaxPools) :
     x[2] <= Len(pools[x[1]]) /\ pools[x[1]][x[2]].bitmask # {}}

(* The walk takes the smallest class, and its newest pool first.           *)
FirstFound(S) ==
  CHOOSE x \in S : \A y \in S : x[1] < y[1] \/ (x[1] = y[1] /\ x[2] >= y[2])

HandOut(b, i, p, req) ==
  given' = given \cup {[class |-> b, pool |-> i, idx |-> lowbit_index(p),
                      size |-> p.size, req |-> req]}

(* mg_region_alloc_class: a pool has a free block ... *)
AllocFound(req) ==
  LET C == Candidates(ClassOf(req))
      x == FirstFound(C)
      p == pools[x[1]][x[2]]
  IN
  /\ kind = "pool"
  /\ req # 0
  /\ Cardinality(given) < MaxLive
  /\ C # {}
  /\ pools' = [pools EXCEPT ![x[1]] = ReplaceAt(@, x[2], membit_alloc(p))]
  /\ HandOut(x[1], x[2], p, req)
  /\ UNCHANGED <<kind, max_bits, cap, off>>

(* ... or the request's own class gets a new one. *)
AllocGrows(req) ==
  LET b == ClassOf(req)
      p == membit_create(2^b, mg_pool_block_count(2^b))
  IN
  /\ kind = "pool"
  /\ req # 0
  /\ Cardinality(given) < MaxLive
  /\ b <= max_bits
  /\ Candidates(b) = {}
  /\ MapThenSumSet(LAMBDA c : Len(pools[c]), Class) < MaxPools
  /\ pools' = [pools EXCEPT ![b] = Append(@, membit_alloc(p))]
  /\ HandOut(b, Len(pools[b]) + 1, p, req)
  /\ UNCHANGED <<kind, max_bits, cap, off>>

(* mg_region_alloc_bump *)
AllocBump(req) ==
  LET size == req + ((-req) % 4) IN
  /\ kind = "bump"
  /\ req # 0
  /\ Cardinality(given) < MaxLive
  /\ off + size <= cap
  /\ off' = off + size
  /\ given' = given \cup {[addr |-> off, req |-> req]}
  /\ UNCHANGED <<kind, max_bits, pools, cap>>

mg_region_reset ==
  /\ kind # "none"
  /\ off' = IF kind = "bump" THEN 0 ELSE off
  /\ pools' = [b \in Class |->
                 [i \in DOMAIN pools[b] |-> membit_reset(pools[b][i])]]
  /\ given' = {}
  /\ UNCHANGED <<kind, max_bits, cap>>

mg_region_destroy ==
  /\ kind # "none"
  /\ kind' = "none"
  /\ max_bits' = 0 /\ pools' = Empty /\ cap' = 0 /\ off' = 0
  /\ given' = {}

RegionNext ==
  \/ \E bits \in MaxBits : mg_region_create_pool(bits)
  \/ \E c \in Caps : mg_region_create_bump(c)
  \/ \E req \in RegionRequests : AllocFound(req) \/ AllocGrows(req) \/ AllocBump(req)
  \/ mg_region_reset \/ mg_region_destroy

-----------------------------------------------------------------------------
(* Every block a caller has is large enough for its request and the        *)
(* header, for requests that (uint32_t)need does not cut off; in a bump    *)
(* region, it lies inside the buffer.                                      *)
BlocksFit ==
  \A x \in given :
    IF kind = "bump" THEN x.addr + x.req <= cap
    ELSE x.req + HeaderSize < U32 => x.req + HeaderSize <= x.size

(* No two callers have bytes in common: a block whose bit is set is in     *)
(* nobody's hands, through growth, reuse of larger classes and resets.     *)
BlocksDisjoint ==
  IF kind = "bump"
  THEN \A x, y \in given :
         x = y \/ x.addr + x.req <= y.addr \/ y.addr + y.req <= x.addr
  ELSE /\ \A x, y \in given :
            x = y \/ <<x.class, x.pool, x.idx>> # <<y.class, y.pool, y.idx>>
       /\ \A b \in Class : \A i \in DOMAIN pools[b] :
            pools[b][i].bitmask =
              (0 .. pools[b][i].count - 1)
                \ {x.idx : x \in {y \in given : y.class = b /\ y.pool = i}}
=============================================================================
