------------------------------- MODULE Radix --------------------------------
(***************************************************************************)
(* radix.c: a radix tree over heap blocks and a caller that inserts and    *)
(* deletes, on a heap that may run out at any allocation.  The code's      *)
(* BIT_LEVEL is 4; it says that every other value works alike.             *)
(*                                                                         *)
(* A tree is the record of struct radix_tree_root with the node blocks     *)
(* (blk) and the number of allocations of the running call that will still *)
(* succeed (room).  The item stored for an index is the pair of the index  *)
(* and a stamp that tells two items apart.                                 *)
(***************************************************************************)
EXTENDS Integers, FiniteSetsExt

CONSTANTS
  BIT_LEVEL,   \* index bits per level
  Index,       \* the indices in use
  Stamp,       \* items per index
  MaxNodes,    \* blocks the heap has for nodes
  MaxRoom,     \* allocations of one call before the heap is empty
  NULL

ASSUME RadixAssumption ==
  /\ BIT_LEVEL \in Nat \ {0}
  /\ Index \subseteq Nat
  /\ MaxNodes \in Nat /\ MaxRoom \in Nat
  /\ NULL \notin 0 .. MaxNodes

SIZE_LEVEL == 2 ^ BIT_LEVEL
Slots      == 0 .. SIZE_LEVEL - 1
RadixNode  == 1 .. MaxNodes

(* (struct radix_tree_node * )root: the parent of a root that has not      *)
(* grown.                                                                  *)
RootCast == 0

VARIABLES
  root,     \* the tree
  stored,   \* history: index |-> item, or NULL
  starved   \* history: an allocation failed since the tree was last empty

radixVars == <<root, stored, starved>>

Nodes(r)    == {n \in RadixNode : r.blk[n] # NULL}
Capacity(r) == SIZE_LEVEL ^ r.height

radix_tree_height(i) == Min({h \in 1 .. i + 1 : i < SIZE_LEVEL ^ h})

(* (index >> shift) & (SIZE_LEVEL - 1) at the level of height h. *)
OffsetAt(i, h) == (i \div SIZE_LEVEL ^ (h - 1)) % SIZE_LEVEL

radix_tree_init ==
  [height |-> 0, count |-> 0, rnode |-> NULL,
   blk |-> [n \in RadixNode |-> NULL], room |-> 0]

radix_tree_node_init(h) ==
  [slots |-> [o \in Slots |-> NULL], parent |-> NULL, offset |-> 0,
   count |-> 0, height |-> h]

CanAlloc(r)  == r.room > 0 /\ Nodes(r) # RadixNode
NextBlock(r) == Min(RadixNode \ Nodes(r))

radix_tree_node_alloc(r, h) ==
  [r EXCEPT !.room = @ - 1, !.count = @ + 1,
            !.blk[NextBlock(r)] = radix_tree_node_init(h)]

radix_tree_node_free(r, n) == [r EXCEPT !.blk[n] = NULL, !.count = @ - 1]

-----------------------------------------------------------------------------
(* One round of radix_tree_grow_height: the height is written before the   *)
(* node is there.                                                          *)
GrowRound(x) ==
  LET new   == NextBlock(x.r)
      taken == radix_tree_node_alloc(x.r, x.r.height + 1)
  IN  IF ~CanAlloc(x.r) THEN [r |-> [x.r EXCEPT !.height = @ + 1], ok |-> FALSE]
      ELSE [ok |-> TRUE,
            r  |-> [taken EXCEPT !.height = @ + 1,
                      !.rnode = new,
                      !.blk[x.r.rnode].parent = new,
                      !.blk[new].slots[0] = x.r.rnode,
                      !.blk[new].count = @ + 1]]

radix_tree_grow_height(r, height) ==
  LET after[h \in r.height .. height] ==
        IF h = r.height THEN [r |-> r, ok |-> TRUE]
        ELSE LET x == after[h - 1] IN IF x.ok THEN GrowRound(x) ELSE x
  IN  after[height]

(* One level of the descent of radix_tree_grow_node, from the node x.n of  *)
(* height h.                                                               *)
GrowDown(x, i, h) ==
  LET o     == OffsetAt(i, h)
      child == x.r.blk[x.n].slots[o]
      new   == NextBlock(x.r)
      taken == radix_tree_node_alloc(x.r, h - 1)
  IN  IF child # NULL THEN [x EXCEPT !.n = child]
      ELSE IF ~CanAlloc(x.r) THEN [x EXCEPT !.ok = FALSE]
      ELSE [ok |-> TRUE, n |-> new,
            r  |-> [taken EXCEPT
                      !.blk[x.n] = [@ EXCEPT !.slots[o] = new, !.count = @ + 1],
                      !.blk[new] = [@ EXCEPT !.offset = o, !.parent = x.n]]]

(* Variants named X_... change X the way a slip in the code would; none is *)
(* part of the specification.                                              *)
PutItem_Overwrites(r, n, i, item) ==
  [r EXCEPT !.blk[n].slots[OffsetAt(i, 1)] = item,
            !.blk[n].count = IF r.blk[n].slots[OffsetAt(i, 1)] = NULL THEN @ + 1 ELSE @]

(* The item goes into its leaf unless there is one. *)
PutItem(r, n, i, item) ==
  IF r.blk[n].slots[OffsetAt(i, 1)] # NULL THEN r
  ELSE [r EXCEPT !.blk[n].slots[OffsetAt(i, 1)] = item, !.blk[n].count = @ + 1]

radix_tree_grow_node(r, i, item) ==
  LET down[h \in 1 .. r.height] ==
        IF h = r.height THEN [r |-> r, n |-> r.rnode, ok |-> TRUE]
        ELSE LET x == down[h + 1] IN IF x.ok THEN GrowDown(x, i, h + 1) ELSE x
  IN  IF down[1].ok
      THEN [r |-> PutItem(down[1].r, down[1].n, i, item), ok |-> TRUE]
      ELSE [r |-> down[1].r, ok |-> FALSE]

(* The tree after the call, and whether every allocation succeeded. *)
radix_tree_insert(r, i, item) ==
  LET h     == radix_tree_height(i)
      first == [radix_tree_node_alloc(r, h) EXCEPT
                  !.rnode = NextBlock(r), !.height = h,
                  !.blk[NextBlock(r)].parent = RootCast]
      grown == radix_tree_grow_height(r, h)
  IN  CASE r.rnode = NULL /\ ~CanAlloc(r) -> [r |-> r, ok |-> FALSE]
        [] r.rnode = NULL /\ CanAlloc(r)  -> radix_tree_grow_node(first, i, item)
        [] r.rnode # NULL /\ h <= r.height -> radix_tree_grow_node(r, i, item)
        [] OTHER -> IF grown.ok THEN radix_tree_grow_node(grown.r, i, item) ELSE grown

-----------------------------------------------------------------------------
(* The node of height h on the way to i, or NULL. *)
PathNode(r, i, h) ==
  LET down[k \in h .. r.height] ==
        IF k = r.height THEN r.rnode
        ELSE IF down[k + 1] = NULL THEN NULL
        ELSE r.blk[down[k + 1]].slots[OffsetAt(i, k + 1)]
  IN  down[h]

(* An index of more levels than the tree has loses its upper bits. *)
radix_tree_lookup(r, i) ==
  IF r.rnode = NULL THEN NULL ELSE PathNode(r, i, 0)

PruneStep_NoCount(r, n) ==
  [radix_tree_node_free(r, n) EXCEPT
     !.blk[r.blk[n].parent].slots = [@ EXCEPT ![r.blk[n].offset] = NULL]]

(* An empty node below the root is freed and taken out of its parent. *)
PruneStep(r, n) ==
  [radix_tree_node_free(r, n) EXCEPT
     !.blk[r.blk[n].parent].slots = [@ EXCEPT ![r.blk[n].offset] = NULL],
     !.blk[r.blk[n].parent].count = @ - 1]

Prune(r, leaf) ==
  LET up[h \in 1 .. r.height] ==
        IF h = 1 THEN [r |-> r, n |-> leaf]
        ELSE LET x == up[h - 1]
             IN  IF x.r.blk[x.n].count = 0 /\ x.n # x.r.rnode
                 THEN [r |-> PruneStep(x.r, x.n), n |-> x.r.blk[x.n].parent]
                 ELSE x
      last == up[r.height].r
  IN  IF last.blk[last.rnode].count > 0 THEN last
      ELSE [radix_tree_node_free(last, up[r.height].n) EXCEPT
              !.rnode = NULL, !.height = 0]

radix_tree_delete(r, i) ==
  LET leaf == PathNode(r, i, 1)
      o    == OffsetAt(i, 1)
  IN  IF \/ r.height < radix_tree_height(i)
         \/ leaf = NULL
         \/ r.blk[leaf].slots[o] = NULL
      THEN r
      ELSE Prune([r EXCEPT !.blk[leaf].slots[o] = NULL, !.blk[leaf].count = @ - 1], leaf)

-----------------------------------------------------------------------------
(* The first slot of n from offset o that holds something, if any.  The    *)
(* root struct, read as a node, has rnode where slots[1] would be.         *)
SlotsFrom(r, n, o) ==
  IF n = RootCast THEN {1} ELSE {k \in Slots : k >= o /\ r.blk[n].slots[k] # NULL}

FirstFrom(r, n, o) ==
  IF n = RootCast THEN r.rnode ELSE r.blk[n].slots[Min(SlotsFrom(r, n, o))]

(* The leftmost item below a node; no node on the way is empty. *)
radix_tree_node_left(r, n) ==
  LET down[h \in 0 .. r.blk[n].height] ==
        IF h = r.blk[n].height THEN n ELSE FirstFrom(r, down[h + 1], 0)
  IN  down[0]

radix_tree_root_left(r) ==
  IF r.rnode = NULL THEN NULL ELSE radix_tree_node_left(r, r.rnode)

ClimbFrom_SameOffset(r, n, o) ==
  LET up[k \in 0 .. r.height] ==
        IF k = 0 THEN <<n, o>>
        ELSE LET x == up[k - 1]
             IN  IF x[1] \in {NULL, RootCast} THEN <<NULL, 0>>
                 ELSE <<r.blk[x[1]].parent, r.blk[x[1]].offset>>
  IN  up

(* Nodes from n up, each with the first offset to look at in it. *)
ClimbFrom(r, n, o) ==
  LET up[k \in 0 .. r.height] ==
        IF k = 0 THEN <<n, o>>
        ELSE LET x == up[k - 1]
             IN  IF x[1] \in {NULL, RootCast} THEN <<NULL, 0>>
                 ELSE <<r.blk[x[1]].parent, r.blk[x[1]].offset + 1>>
  IN  up

(* Down along i as far as there are nodes, then to the right: in the node  *)
(* reached, in its parent, and so on up.                                   *)
radix_tree_lookup_upper_bound(r, i) ==
  LET low  == Min({h \in 1 .. r.height : PathNode(r, i, h) # NULL})
      here == PathNode(r, i, low)
      up   == ClimbFrom(r, here, OffsetAt(i, low))
      hits == {k \in 0 .. r.height :
                 up[k][1] # NULL /\ SlotsFrom(r, up[k][1], up[k][2]) # {}}
      hit  == up[Min(hits)]
      sub  == FirstFrom(r, hit[1], hit[2])
  IN  IF r.rnode = NULL \/ hits = {} THEN NULL
      ELSE IF low = 1 /\ hit[1] = here THEN sub
      ELSE radix_tree_node_left(r, sub)

-----------------------------------------------------------------------------
(* radix_tree_grow_height gave up half way: heights and levels disagree    *)
(* and every later call reads items as nodes.                              *)
Torn(r) == r.rnode # NULL /\ r.height # r.blk[r.rnode].height

RadixInit ==
  /\ root = radix_tree_init
  /\ stored = [i \in Index |-> NULL]
  /\ starved = FALSE

RadixInsert(i, item, room) ==
  LET done == radix_tree_insert([root EXCEPT !.room = room], i, item)
  IN  /\ ~Torn(root)
      /\ root' = [done.r EXCEPT !.room = 0]
      /\ stored' = IF done.ok /\ stored[i] = NULL THEN [stored EXCEPT ![i] = item]
                   ELSE stored
      /\ starved' = (root'.rnode # NULL /\ (starved \/ ~done.ok))

RadixDelete(i) ==
  /\ ~Torn(root)
  /\ root' = radix_tree_delete(root, i)
  /\ stored' = [stored EXCEPT ![i] = NULL]
  /\ starved' = (starved /\ root'.rnode # NULL)

RadixNext ==
  \E i \in Index :
    \/ \E stamp \in Stamp, room \in 0 .. MaxRoom : RadixInsert(i, <<i, stamp>>, room)
    \/ RadixDelete(i)

-----------------------------------------------------------------------------
Known(i) == IF i \in Index THEN stored[i] ELSE NULL

(* A lookup finds the item inserted first and not deleted since, for any   *)
(* order of insertions, failed insertions and deletions, however the tree  *)
(* grew and shrank; an index above the tree's height, which the code does  *)
(* not refuse, finds the item of the index with its upper bits cut off.    *)
LookupExact ==
  ~Torn(root) =>
    \A i \in Index : radix_tree_lookup(root, i) = Known(i % Capacity(root))

(* The blocks form one tree: every node but the top one stands in the slot *)
(* of its parent that its offset names, one level lower; a node counts the *)
(* slots in use; root->count counts the blocks, so that none is lost; and  *)
(* no empty node stays behind unless an allocation failed.                 *)
RadixShape ==
  /\ root.count = Cardinality(Nodes(root))
  /\ (root.rnode = NULL) = (Nodes(root) = {})
  /\ \A n \in Nodes(root) :
       LET b == root.blk[n]
           used == {o \in Slots : b.slots[o] # NULL}
       IN  /\ b.count = Cardinality(used)
           /\ ~starved => used # {}
           /\ b.height > 1 => \A o \in used : b.slots[o] \in Nodes(root)
           /\ IF n = root.rnode THEN b.parent \in {NULL, RootCast}
              ELSE /\ b.parent \in Nodes(root)
                   /\ root.blk[b.parent].height = b.height + 1
                   /\ root.blk[b.parent].slots[b.offset] = n

(* With no empty node in the tree, its leftmost item is that of the least  *)
(* index, and an upper-bound query, for an index the tree is high enough   *)
(* for, returns the item of the least index in use that is not below it;   *)
(* when there is none, a tree that has grown answers NULL.  Left out is a  *)
(* tree that has not grown and holds nothing above the index: there the    *)
(* climb reads the root struct as a node and the answer is the least item  *)
(* of all, where the code's comment promises the next item or none.        *)
UpperBoundExact ==
  LET filled == {k \in Index : stored[k] # NULL}
      grown  == root.blk[root.rnode].parent # RootCast
  IN  ~starved /\ filled # {} =>
        /\ radix_tree_root_left(root) = stored[Min(filled)]
        /\ \A i \in {k \in Index : k < Capacity(root)} :
             LET above == {k \in filled : k >= i}
                 found == radix_tree_lookup_upper_bound(root, i)
             IN  /\ above # {} => found = stored[Min(above)]
                 /\ above = {} /\ grown => found = NULL
=============================================================================
