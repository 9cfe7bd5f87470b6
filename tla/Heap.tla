-------------------------------- MODULE Heap --------------------------------
(***************************************************************************)
(* heap.c: first fit over a list of free blocks in address order, inside   *)
(* the static array all_heap.  heap_malloc and heap_free each run under    *)
(* heap_lock and are one step.                                             *)
(*                                                                         *)
(* A free block is a member of the list free (the blocks between           *)
(* the_heap.head and the_heap.tail), a block in use one of live; both start*)
(* with a struct heap_node.  Addresses and sizes are the code's, in bytes. *)
(***************************************************************************)
EXTENDS Integers, FiniteSetsExt, SequencesExt

CONSTANTS
  CONFIG_HEAP,  \* bytes of all_heap
  Places,       \* where the linker may put all_heap
  HeapRequests, \* sizes passed to heap_malloc
  MaxBlocks     \* bound: blocks in use when one more is asked for

NULL == 0
ALIGNMENT == 8           \* ALIGNMENT_BYTE + 1
heap_struct_size == 16
MIN_SIZE == 2 * heap_struct_size

RoundDown(x) == x - (x % ALIGNMENT)
(* Variants named X_... change X the way a slip in the code would; none is *)
(* part of the specification.                                              *)
RoundUp_Down(x) == RoundDown(x)
RoundUp(x)   == RoundDown(x + ALIGNMENT - 1)

ASSUME HeapAssumption ==
  /\ CONFIG_HEAP \in Nat
  /\ CONFIG_HEAP >= ALIGNMENT + MIN_SIZE
  /\ Places \subseteq Nat \ {NULL}
  /\ HeapRequests \subseteq Nat
  /\ MaxBlocks \in Nat

VARIABLES
  place,     \* the address of all_heap
  tail,      \* the_heap.tail, NULL before heap_init
  free,      \* free blocks in list order
  all_size,  \* the_heap.all_size
  live       \* blocks in use, with the size that was asked for

heapVars == <<place, tail, free, all_size, live>>

HeapInit ==
  /\ place \in Places
  /\ tail = NULL
  /\ free = <<>>
  /\ all_size = CONFIG_HEAP
  /\ live = {}

-----------------------------------------------------------------------------
(* heap_init: the first block and the tail node at the end of the array.   *)
(* all_size leaves room for the tail only if the end was rounded down.     *)
Start   == RoundUp(place)
Room    == CONFIG_HEAP - (Start - place)
End     == RoundDown(Start + Room - heap_struct_size)
First   == [addr |-> Start,
            size |-> IF (Start + Room) % ALIGNMENT # 0 THEN End - Start ELSE Room]

(* The list and all_size as real_heap_malloc finds them. *)
FreeList == IF tail = NULL THEN <<First>> ELSE free
AllSize  == IF tail = NULL THEN First.size ELSE all_size

(* The first block of the list that is large enough, 0 if there is none.   *)
FirstFit(size) == SelectInSeq(FreeList, LAMBDA b : b.size >= size)

(* The caller's bytes of a block reach into the tail node. *)
OnTail(b) == b.addr + heap_struct_size + b.req > End

(* Once the caller may have overwritten the tail node, what follows is     *)
(* not modelled.                                                           *)
Usable == ~ \E b \in live : OnTail(b)

(* heap_malloc finds a block, and splits it if the rest is worth keeping.  *)
heap_malloc(req) ==
  LET size == RoundUp(req + heap_struct_size)
      i    == FirstFit(size)
      use  == FreeList[i]
      rest == [addr |-> use.addr + size, size |-> use.size - size]
      keep == rest.size > MIN_SIZE
      got  == IF keep THEN size ELSE use.size
  IN
  /\ Usable
  /\ i # 0
  /\ tail' = End
  /\ free' = IF keep THEN ReplaceAt(FreeList, i, rest)
                     ELSE RemoveAt(FreeList, i)
  /\ all_size' = AllSize - got
  /\ live' = live \cup {[addr |-> use.addr, size |-> got, req |-> req]}
  /\ UNCHANGED place

(* ... or returns NULL. *)
MallocFails(req) ==
  /\ Usable
  /\ FirstFit(RoundUp(req + heap_struct_size)) = 0
  /\ tail' = End
  /\ free' = FreeList
  /\ all_size' = AllSize
  /\ UNCHANGED <<place, live>>

JoinNext_Never(node, after) == <<node>> \o after

JoinPrev_LosesSize(before, list) ==
  IF before # <<>> /\ Last(before).addr + Last(before).size = Head(list).addr
  THEN before \o Tail(list)
  ELSE before \o list

(* insert_free_block: join node to the list after its first i blocks, and  *)
(* to its neighbours where they touch.                                     *)
JoinNext(node, after) ==
  IF after # <<>> /\ node.addr + node.size = Head(after).addr
  THEN <<[node EXCEPT !.size = @ + Head(after).size]>> \o Tail(after)
  ELSE <<node>> \o after

JoinPrev(before, list) ==
  IF before # <<>> /\ Last(before).addr + Last(before).size = Head(list).addr
  THEN Front(before)
         \o <<[Last(before) EXCEPT !.size = @ + Head(list).size]>> \o Tail(list)
  ELSE before \o list

insert_free_block(node) ==
  LET i      == SelectInSeq(free, LAMBDA b : b.addr >= node.addr)
      k      == IF i = 0 THEN Len(free) ELSE i - 1
  IN  JoinPrev(SubSeq(free, 1, k),
               JoinNext(node, SubSeq(free, k + 1, Len(free))))

heap_free(b) ==
  /\ Usable
  /\ b \in live
  /\ all_size' = all_size + b.size
  /\ free' = insert_free_block([addr |-> b.addr, size |-> b.size])
  /\ live' = live \ {b}
  /\ UNCHANGED <<place, tail>>

-----------------------------------------------------------------------------
Block == [addr : Nat, size : Nat]

(* Every variable has its type. *)
HeapTypeOK ==
  /\ place \in Places
  /\ tail \in {NULL, End}
  /\ free \in Seq(Block)
  /\ all_size \in 0 .. CONFIG_HEAP
  /\ live \subseteq [addr : Nat, size : Nat, req : Nat]

(* Bytes of a block, and of the blocks of the list. *)
Span(b)   == b.addr .. b.addr + b.size - 1
FreeBytes == UNION {Span(free[i]) : i \in DOMAIN free}
LiveBytes == UNION {Span(b) : b \in live}

(* Two blocks have no byte in common. *)
Apart(b, c) == b.addr + b.size <= c.addr \/ c.addr + c.size <= b.addr

Blocks == Range(free) \cup {[addr |-> b.addr, size |-> b.size] : b \in live}

(* However blocks were split, handed out, returned and joined, every byte  *)
(* of the first block belongs to exactly one block: nothing is lost, and   *)
(* no two blocks overlap.                                                  *)
Tiled ==
  /\ HeapTypeOK
  /\ tail # NULL =>
       /\ FreeBytes \cup LiveBytes = Span(First)
       /\ \A b, c \in live : b = c \/ Apart(b, c)
       /\ \A b \in live, i \in DOMAIN free : Apart(b, free[i])

(* The list is in address order and no two of its blocks touch, so that    *)
(* freed memory can be handed out again in the largest possible pieces;    *)
(* and heap_get_stats' two figures agree: the_heap.all_size, kept by       *)
(* addition and subtraction, and the bytes of the blocks in the list.      *)
FreeListExact ==
  /\ \A i \in 1 .. Len(free) - 1 :
       free[i].addr + free[i].size < free[i + 1].addr
  /\ tail # NULL => all_size = Cardinality(FreeBytes)

(* What a caller writes into its block never reaches a struct heap_node:   *)
(* of another block, or, where all_heap or its end is not aligned, of the  *)
(* tail.                                                                   *)
MetadataSafe ==
  \A b \in live :
    LET payload == b.addr + heap_struct_size .. b.addr + heap_struct_size + b.req - 1
    IN  /\ b.addr % ALIGNMENT = 0
        /\ \A c \in Blocks :
             payload \cap (c.addr .. c.addr + heap_struct_size - 1) = {}
        /\ First.size = Room \/ ~OnTail(b)
=============================================================================
