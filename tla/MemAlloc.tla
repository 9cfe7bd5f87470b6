------------------------------ MODULE MemAlloc ------------------------------
(***************************************************************************)
(* memalloc.c: an allocator that keeps all its blocks in a list in address *)
(* order and the unused ones, by size, in a red-black tree (rbtree.c).     *)
(*                                                                         *)
(* A block, a struct heap_node at its first byte, is named by its distance *)
(* from the first one: the nodes of RbTree are these numbers, and          *)
(* iter_node.value, the size of the block with its struct, is the tree's   *)
(* value for it.  Sizes are the code's, in bytes.                          *)
(***************************************************************************)
EXTENDS RbTree, SequencesExt

CONSTANTS
  MEM_HEAP,    \* CONFIG_HEAP: bytes of all_heap
  Skews,       \* address of all_heap modulo the alignment
  MemRequests  \* sizes passed to mem_malloc

MEM_ALIGN == 8        \* ALIGNMENT_BYTE + 1
mem_struct_size == 72 \* heap_struct_size
MEM_MIN_SIZE == 2 * mem_struct_size

ASSUME MemAllocAssumption ==
  /\ MEM_HEAP \in Nat
  /\ Skews \subseteq 0 .. MEM_ALIGN - 1
  /\ MemRequests \subseteq Nat
  /\ MEM_HEAP > MEM_ALIGN + MEM_MIN_SIZE
  /\ 0 \in Node /\ Node \subseteq Nat

VARIABLES
  skew,
  mem_tree,      \* the tree
  link,          \* the list after cache_node; empty before mem_init
  used,          \* the blocks with used = 1
  mem_all_size,  \* the_heap.all_size
  asked          \* history: block |-> what its holder asked for

memVars == <<skew, mem_tree, link, used, mem_all_size, asked>>

(* Bytes from the first block to the end of all_heap. *)
MemRoom == MEM_HEAP - ((-skew) % MEM_ALIGN)

Size(t, b)       == t.value[b]
SetSize(t, b, s) == [t EXCEPT !.value[b] = s]

MemInit ==
  /\ skew \in Skews
  /\ mem_tree = rb_root_init
  /\ link = <<>>
  /\ used = {}
  /\ mem_all_size = MEM_HEAP
  /\ asked = [b \in Node |-> 0]

(* Tree, list and all_size after the mem_init of the first mem_malloc. *)
Prepared == link # <<>>
TreeNow == IF Prepared THEN mem_tree
           ELSE rb_insert_node(SetSize(rb_root_init, 0, MemRoom), 0)
LinkNow == IF Prepared THEN link ELSE <<0>>
SizeNow == IF Prepared THEN mem_all_size ELSE MemRoom

(* want with the struct, rounded up. *)
Gross(req) == LET w == req + mem_struct_size IN w + ((-w) % MEM_ALIGN)

(* Wherever mem_malloc cuts a block there is a node for the rest.          *)
ASSUME MemNodeAssumption ==
  \A b \in Node, req \in MemRequests \ {0} :
    b + Gross(req) + MEM_MIN_SIZE < MEM_HEAP => b + Gross(req) \in Node

(* Variants named X_... change X the way a slip in the code would; none is *)
(* part of the specification.                                              *)
FindBlock_TestsFirst(t, want) ==
  IF t.first_node = NIL \/ Size(t, t.first_node) < want THEN NIL
  ELSE rb_first_greater(t, want)

(* The block mem_malloc takes, NIL for none: one of exactly the size that  *)
(* is wanted is never taken.                                               *)
FindBlock(t, want) ==
  IF t.last_node = NIL \/ Size(t, t.last_node) < want THEN NIL
  ELSE rb_first_greater(t, want)

LinkAfter(seq, b, new) == InsertAt(seq, SelectInSeq(seq, LAMBDA c : c = b) + 1, new)

mem_malloc(req) ==
  \E t \in {TreeNow} :
    LET want  == Gross(req)
        b     == FindBlock(t, want)
        rest  == Size(t, b) - want
        split == rest > MEM_MIN_SIZE
    IN
    /\ req # 0
    /\ b # NIL
    /\ \E cut \in {rb_remove_node(t, b)} :
         mem_tree' = IF split THEN rb_insert_node([cut EXCEPT !.value[b] = want,
                                                              !.value[b + want] = rest],
                                                  b + want)
                     ELSE cut
    /\ link' = IF split THEN LinkAfter(LinkNow, b, b + want) ELSE LinkNow
    /\ used' = used \cup {b}
    /\ mem_all_size' = SizeNow - Size(mem_tree', b)
    /\ asked' = [asked EXCEPT ![b] = req]
    /\ UNCHANGED skew

(* No block is large enough: NULL. *)
MemMallocFails(req) ==
  /\ req # 0
  /\ FindBlock(TreeNow, Gross(req)) = NIL
  /\ mem_tree' = TreeNow
  /\ link' = LinkNow
  /\ mem_all_size' = SizeNow
  /\ UNCHANGED <<skew, used, asked>>

Unused(seq, i) == i \in DOMAIN seq /\ seq[i] \notin used

Absorb_KeepsInTree(x, i, j, leaves) ==
  [t |-> [x.t EXCEPT !.value[x.l[i]] = Size(x.t, x.l[i]) + Size(x.t, x.l[j]),
                     !.value[x.l[j]] = 0],
   l |-> RemoveAt(x.l, j)]

Absorb_LosesSize(x, i, j, leaves) ==
  LET sized == SetSize(x.t, x.l[i], Size(x.t, x.l[i]))
  IN  [t |-> SetSize(rb_remove_node(sized, x.l[leaves]), x.l[j], 0),
       l |-> RemoveAt(x.l, j)]

(* Block i of the list takes in block j behind it, and the one that is in  *)
(* the tree (position leaves) is removed from it, after its value changed  *)
(* when it is i.  The bytes of block j's struct are stale from here on.    *)
Absorb(x, i, j, leaves) ==
  LET sized == SetSize(x.t, x.l[i], Size(x.t, x.l[i]) + Size(x.t, x.l[j]))
  IN  [t |-> SetSize(rb_remove_node(sized, x.l[leaves]), x.l[j], 0),
       l |-> RemoveAt(x.l, j)]

(* The block joins the next one, then the one before it, where they are    *)
(* not in use.                                                             *)
mem_free(b) ==
  LET i     == SelectInSeq(link, LAMBDA c : c = b)
      start == [t |-> mem_tree, l |-> link]
      whole == IF Unused(link, i - 1) THEN link[i - 1] ELSE b
  IN
  /\ b \in used
  /\ used' = used \ {b}
  /\ mem_all_size' = mem_all_size + Size(mem_tree, b)
  /\ \E x \in {IF Unused(link, i + 1) THEN Absorb(start, i, i + 1, i + 1) ELSE start} :
     \E y \in {IF Unused(link, i - 1) THEN Absorb(x, i - 1, i, i - 1) ELSE x} :
       /\ mem_tree' = rb_insert_node(y.t, whole)
       /\ link' = y.l
  /\ asked' = [asked EXCEPT ![b] = 0]
  /\ UNCHANGED skew

MemNext ==
  \/ \E req \in MemRequests : mem_malloc(req) \/ MemMallocFails(req)
  \/ \E b \in used : mem_free(b)

MemSpec == MemInit /\ [][MemNext]_memVars

-----------------------------------------------------------------------------
(* The list covers the heap from its first byte to its last without gap or *)
(* overlap, no two neighbours are both unused, and every holder's bytes    *)
(* lie inside its block behind the struct, however blocks were split and   *)
(* joined: memory is neither lost nor shared.                              *)
MemTiled ==
  Prepared =>
    /\ link[1] = 0
    /\ \A i \in 1 .. Len(link) - 1 :
         /\ link[i] + Size(mem_tree, link[i]) = link[i + 1]
         /\ {link[i], link[i + 1]} \cap used # {}
    /\ Last(link) + Size(mem_tree, Last(link)) = MemRoom
    /\ \A b \in used : mem_struct_size + asked[b] <= Size(mem_tree, b)

(* The tree holds exactly the unused blocks in the order of their sizes,   *)
(* is red-black, and its cached last node, on which mem_malloc's first     *)
(* test relies, is the largest block: although mem_free changes the value  *)
(* of a block that is still in the tree. the_heap.all_size is the number   *)
(* of bytes of these blocks.                                               *)
MemTreeExact ==
  LET seq == InOrder(mem_tree) IN
  /\ RedBlack(mem_tree)
  /\ Members(mem_tree) = Range(link) \ used
  /\ \A i \in 1 .. Len(seq) - 1 : Size(mem_tree, seq[i]) <= Size(mem_tree, seq[i + 1])
  /\ mem_tree.first_node = rb_first(mem_tree)
  /\ mem_tree.last_node = rb_last(mem_tree)
  /\ Prepared =>
       mem_all_size = Cardinality(UNION {b .. b + Size(mem_tree, b) - 1 : b \in Members(mem_tree)})

(* What mem_malloc finds in the tree is the smallest of the blocks larger  *)
(* than it needs, and it finds nothing only when there is no such block:   *)
(* its test of the cached last node never hides one that the search below  *)
(* would reach.                                                            *)
BestFit ==
  Prepared =>
    \A req \in MemRequests \ {0} :
      LET fits  == {b \in Range(link) \ used : Size(mem_tree, b) > Gross(req)}
          found == FindBlock(mem_tree, Gross(req))
      IN  IF fits = {} THEN found = NIL
          ELSE /\ found \in fits
               /\ \A b \in fits : Size(mem_tree, found) <= Size(mem_tree, b)
=============================================================================
