--------------------------- MODULE AllocatorProofs --------------------------
(***************************************************************************)
(* heap.c for every size and place of all_heap and every sequence of       *)
(* requests: the blocks tile the first block, the list of free blocks is   *)
(* exact, and no caller's bytes reach a struct heap_node.  Then mempool.c  *)
(* on it, for every size of pool and every sequence of calls of the pool's *)
(* users and of other users of the heap.  Then mg_alloc.c and membit.c for *)
(* every region and every sequence of requests and resets: a caller's      *)
(* block is large enough and nobody else's.                                *)
(***************************************************************************)
EXTENDS MemPool, MgRegion, DataFacts

HeapNext ==
  \/ \E req \in Nat : heap_malloc(req) \/ MallocFails(req)
  \/ \E b \in live : heap_free(b)

HeapSpec == HeapInit /\ [][HeapNext]_heapVars

-----------------------------------------------------------------------------
(* The inductive invariant, about a list of free blocks L of n bytes and   *)
(* the blocks V in use.                                                    *)
LiveBlock == [addr : Nat, size : Nat, req : Nat]

Bytes(L) == UNION {Span(L[i]) : i \in DOMAIN L}
Taken(V) == UNION {Span(b) : b \in V}

(* A block starts at a multiple of 8 and has room for its struct. *)
Sound(b) ==
  /\ b.addr % ALIGNMENT = 0
  /\ b.size % ALIGNMENT = 0
  /\ b.size >= heap_struct_size

Sorted(L) ==
  \A i, j \in 1 .. Len(L) : i < j => L[i].addr + L[i].size < L[j].addr

ListOK(L) ==
  /\ L \in Seq(Block)
  /\ \A i \in 1 .. Len(L) : Sound(L[i])
  /\ Sorted(L)

LiveOK(V) ==
  /\ V \subseteq LiveBlock
  /\ \A b \in V : Sound(b) /\ b.req + heap_struct_size <= b.size
  /\ \A b, c \in V : b = c \/ Apart(b, c)

HeapShape(L, n, V) ==
  /\ ListOK(L)
  /\ LiveOK(V)
  /\ \A b \in V, i \in 1 .. Len(L) : Apart(b, L[i])
  /\ Bytes(L) \cup Taken(V) = Span(First)
  /\ n = Cardinality(Bytes(L))

HeapInv ==
  /\ HeapTypeOK
  /\ tail = NULL => free = <<>> /\ live = {}
  /\ tail # NULL => HeapShape(free, all_size, live)

-----------------------------------------------------------------------------
(* Rounding, and where heap_init puts the first block.                     *)
LEMMA Rounding ==
  ASSUME NEW x \in Nat
  PROVE  /\ RoundUp(x) \in Nat
         /\ RoundUp(x) % 8 = 0
         /\ x <= RoundUp(x)
         /\ RoundUp(x) <= x + 7
         /\ RoundDown(x) \in Nat
         /\ RoundDown(x) % 8 = 0
         /\ RoundDown(x) <= x
         /\ x <= RoundDown(x) + 7
  BY DEF RoundUp, RoundDown, ALIGNMENT

LEMMA Multiples ==
  ASSUME NEW x \in Nat, NEW y \in Nat, x % 8 = 0, y % 8 = 0
  PROVE  /\ (x + y) % 8 = 0
         /\ x < y => x + 8 <= y
         /\ x <= y => (y - x) % 8 = 0
  OBVIOUS

LEMMA FirstBlock ==
  ASSUME place \in Places
  PROVE  /\ First \in Block
         /\ Sound(First)
         /\ First.size <= CONFIG_HEAP
         /\ First.size # Room => First.addr + First.size = End
         /\ End \in Nat
         /\ End # NULL
<1>1. place \in Nat /\ place # 0 /\ CONFIG_HEAP \in Nat /\ CONFIG_HEAP >= 40
  BY HeapAssumption DEF ALIGNMENT, MIN_SIZE, heap_struct_size, NULL
<1>2. /\ Start \in Nat /\ Start % 8 = 0
      /\ place <= Start /\ Start <= place + 7
  BY <1>1, Rounding DEF Start
<1>3. Room \in Nat /\ Room >= 33 /\ Room <= CONFIG_HEAP
  BY <1>1, <1>2 DEF Room
<1>4. /\ End \in Nat /\ End % 8 = 0
      /\ End <= Start + Room - 16
      /\ Start + Room - 16 <= End + 7
  <2>1. Start + Room - 16 \in Nat
    BY <1>2, <1>3
  <2>2. End = RoundDown(Start + Room - 16)
    BY DEF End, heap_struct_size
  <2> QED
    BY <2>1, <2>2, Rounding
<1>5. End >= Start + 16
  BY <1>2, <1>3, <1>4
<1>6. (End - Start) % 8 = 0
  BY <1>2, <1>4, <1>5
<1>7. (Start + Room) % 8 = 0 => Room % 8 = 0
  BY <1>2, <1>3
<1> QED
  BY <1>1, <1>2, <1>3, <1>4, <1>5, <1>6, <1>7
  DEF First, Block, Sound, ALIGNMENT, heap_struct_size, NULL

-----------------------------------------------------------------------------
(* Bytes of blocks and of lists.                                           *)
LEMMA SpanFacts ==
  ASSUME NEW b, b.addr \in Nat, b.size \in Nat
  PROVE  /\ IsFiniteSet(Span(b))
         /\ Cardinality(Span(b)) = b.size
<1>1. b.addr \in Int /\ b.addr + b.size - 1 \in Int
  OBVIOUS
<1>2. /\ IsFiniteSet(b.addr .. b.addr + b.size - 1)
      /\ Cardinality(b.addr .. b.addr + b.size - 1) =
           IF b.addr > b.addr + b.size - 1 THEN 0 ELSE (b.addr + b.size - 1) - b.addr + 1
  BY <1>1, FS_Interval
<1> QED
  BY <1>2 DEF Span

LEMMA ApartSpans ==
  ASSUME NEW b, NEW c, b.addr \in Nat, b.size \in Nat, c.addr \in Nat, c.size \in Nat,
         Apart(b, c)
  PROVE  Span(b) \cap Span(c) = {}
  BY DEF Apart, Span

LEMMA BytesFacts ==
  ASSUME place \in Places, NEW L, NEW n, NEW V, HeapShape(L, n, V)
  PROVE  /\ IsFiniteSet(Bytes(L))
         /\ n \in 0 .. CONFIG_HEAP
<1>1. First.addr \in Nat /\ First.size \in Nat /\ First.size <= CONFIG_HEAP
  BY FirstBlock DEF Block
<1>2. IsFiniteSet(Span(First)) /\ Cardinality(Span(First)) = First.size
  BY <1>1, SpanFacts
<1>3. Bytes(L) \in SUBSET Span(First)
  BY DEF HeapShape
<1>4. IsFiniteSet(Bytes(L)) /\ Cardinality(Bytes(L)) <= First.size
  BY <1>2, <1>3, FS_Subset
<1>5. Cardinality(Bytes(L)) \in Nat
  BY <1>4, FS_CardinalityType
<1> QED
  BY <1>1, <1>4, <1>5, HeapAssumption DEF HeapShape

(* What heap_init leaves: one free block. *)
LEMMA InitialShape ==
  ASSUME place \in Places
  PROVE  HeapShape(<<First>>, First.size, {})
<1>1. First \in Block /\ Sound(First) /\ First.addr \in Nat /\ First.size \in Nat
  BY FirstBlock DEF Block
<1>2. ListOK(<<First>>)
  BY <1>1 DEF ListOK, Sorted
<1>3. Bytes(<<First>>) = Span(First)
  BY <1>1 DEF Bytes
<1> QED
  BY <1>1, <1>2, <1>3, SpanFacts DEF HeapShape, LiveOK, Taken

LEMMA ShapeFound ==
  ASSUME HeapInv
  PROVE  HeapShape(FreeList, AllSize, live)
<1>1. CASE tail = NULL
  BY <1>1, InitialShape DEF HeapInv, HeapTypeOK, FreeList, AllSize
<1>2. CASE tail # NULL
  BY <1>2 DEF HeapInv, FreeList, AllSize
<1> QED
  BY <1>1, <1>2

-----------------------------------------------------------------------------
(* heap_malloc takes the front of the block at i, got bytes, and the rest  *)
(* stays in the list or does not.                                          *)
RestOf(b, got) == [addr |-> b.addr + got, size |-> b.size - got]

Carved(L, M, i, got) ==
  /\ ListOK(M)
  /\ \A j \in 1 .. Len(M) :
       \/ \E k \in (1 .. Len(L)) \ {i} : M[j] = L[k]
       \/ M[j] = RestOf(L[i], got)
  /\ \A k \in (1 .. Len(L)) \ {i} : \E j \in 1 .. Len(M) : M[j] = L[k]
  /\ got # L[i].size => \E j \in 1 .. Len(M) : M[j] = RestOf(L[i], got)

LEMMA BlockFields ==
  /\ \A b \in Block : b.addr \in Nat /\ b.size \in Nat
  /\ \A b \in LiveBlock : b.addr \in Nat /\ b.size \in Nat /\ b.req \in Nat
  /\ \A x, y \in Nat : [addr |-> x, size |-> y] \in Block
  BY DEF Block, LiveBlock

LEMMA ListFacts ==
  ASSUME NEW L, ListOK(L)
  PROVE  /\ L \in Seq(Block) /\ Len(L) \in Nat /\ DOMAIN L = 1 .. Len(L)
         /\ \A j \in 1 .. Len(L) :
              /\ L[j] \in Block /\ L[j].addr \in Nat /\ L[j].size \in Nat
              /\ L[j].addr % 8 = 0 /\ L[j].size % 8 = 0 /\ L[j].size >= 16
         /\ Sorted(L)
<1>1. L \in Seq(Block) /\ Sorted(L) /\ \A j \in 1 .. Len(L) : Sound(L[j])
  BY DEF ListOK
<1>2. Len(L) \in Nat /\ DOMAIN L = 1 .. Len(L) /\ \A j \in 1 .. Len(L) : L[j] \in Block
  BY <1>1, LenProperties, ElementOfSeq
<1> QED
  BY <1>1, <1>2, BlockFields DEF Sound, ALIGNMENT, heap_struct_size

LEMMA RestFacts ==
  ASSUME NEW b \in Block, Sound(b), NEW got \in Nat, got % 8 = 0, b.size - got >= 16
  PROVE  /\ RestOf(b, got) \in Block
         /\ Sound(RestOf(b, got))
         /\ RestOf(b, got).addr = b.addr + got
         /\ RestOf(b, got).addr >= b.addr
         /\ RestOf(b, got).addr + RestOf(b, got).size = b.addr + b.size
<1>1. b.addr \in Nat /\ b.size \in Nat /\ b.addr % 8 = 0 /\ b.size % 8 = 0
  BY BlockFields DEF Sound, ALIGNMENT
<1>2. b.addr + got \in Nat /\ b.size - got \in Nat
  BY <1>1
<1>3. (b.addr + got) % 8 = 0 /\ (b.size - got) % 8 = 0
  BY <1>1, <1>2
<1> QED
  BY <1>1, <1>2, <1>3, BlockFields DEF RestOf, Sound, ALIGNMENT, heap_struct_size

LEMMA CarveSplits ==
  ASSUME NEW L, ListOK(L), NEW i \in 1 .. Len(L), NEW got \in Nat,
         got % 8 = 0, L[i].size - got >= 16
  PROVE  Carved(L, ReplaceAt(L, i, RestOf(L[i], got)), i, got)
<1>1. /\ L \in Seq(Block) /\ Len(L) \in Nat /\ Sorted(L)
      /\ \A j \in 1 .. Len(L) :
           L[j] \in Block /\ L[j].addr \in Nat /\ L[j].size \in Nat /\ Sound(L[j])
  BY ListFacts DEF ListOK
<1>2. PICK r : r = RestOf(L[i], got)
  OBVIOUS
<1>3. /\ r \in Block /\ Sound(r) /\ r.addr >= L[i].addr
      /\ r.addr + r.size = L[i].addr + L[i].size
  BY <1>1, <1>2, RestFacts
<1>4. PICK M : M = ReplaceAt(L, i, r)
  OBVIOUS
<1>5. /\ M \in Seq(Block) /\ Len(M) = Len(L)
      /\ \A j \in 1 .. Len(L) : M[j] = IF j = i THEN r ELSE L[j]
  BY <1>1, <1>3, <1>4, ExceptSeq DEF ReplaceAt
<1>6. ASSUME NEW x \in 1 .. Len(L), NEW y \in 1 .. Len(L), x < y
      PROVE  M[x].addr + M[x].size < M[y].addr
  <2>1. /\ L[x].addr + L[x].size < L[y].addr
        /\ L[x].addr + L[x].size \in Nat /\ L[y].addr \in Nat
    BY <1>1, <1>6, SMTT(30) DEF Sorted
  <2>2. M[x].addr + M[x].size = L[x].addr + L[x].size
    <3>1. CASE x = i
      BY <1>3, <1>5, <3>1
    <3>2. CASE x # i
      BY <1>5, <3>2
    <3> QED BY <3>1, <3>2
  <2>3. M[y].addr >= L[y].addr /\ M[y].addr \in Nat
    <3>1. CASE y = i
      BY <1>3, <1>5, <3>1, BlockFields
    <3>2. CASE y # i
      BY <1>1, <1>5, <3>2
    <3> QED BY <3>1, <3>2
  <2> QED
    BY <2>1, <2>2, <2>3
<1>7. ListOK(M)
  BY <1>1, <1>3, <1>5, <1>6 DEF ListOK, Sorted
<1> QED
  BY <1>2, <1>4, <1>5, <1>7 DEF Carved

LEMMA CarveWhole ==
  ASSUME NEW L, ListOK(L), NEW i \in 1 .. Len(L)
  PROVE  Carved(L, RemoveAt(L, i), i, L[i].size)
<1>1. /\ L \in Seq(Block) /\ Sorted(L) /\ Len(L) \in Nat
      /\ \A j \in 1 .. Len(L) : Sound(L[j]) /\ L[j].addr \in Nat /\ L[j].size \in Nat
  BY ListFacts DEF ListOK
<1>2. PICK n \in Nat : n = Len(L)
  BY <1>1
<1>3. PICK M : M = RemoveAt(L, i)
  OBVIOUS
<1>4. /\ M \in Seq(Block) /\ Len(M) = n - 1
      /\ \A j \in 1 .. n - 1 : M[j] = IF j < i THEN L[j] ELSE L[j + 1]
  <2>1. i \in Nat /\ 1 <= i /\ i <= Len(L)
    BY <1>1
  <2> QED
    BY <1>1, <1>2, <1>3, <2>1, RemoveAtFacts
<1>5. ASSUME NEW j \in 1 .. n - 1
      PROVE  \E k \in (1 .. n) \ {i} : /\ M[j] = L[k]
                                      /\ k = IF j < i THEN j ELSE j + 1
  BY <1>2, <1>4
<1>6. ASSUME NEW k \in (1 .. n) \ {i} PROVE \E j \in 1 .. n - 1 : M[j] = L[k]
  <2>1. CASE k < i
    <3>1. k \in 1 .. n - 1 /\ M[k] = L[k]
      BY <1>2, <1>4, <2>1
    <3> QED BY <3>1
  <2>2. CASE ~(k < i)
    <3>1. PICK j \in Int : j = k - 1
      OBVIOUS
    <3>2. j \in 1 .. n - 1 /\ ~(j < i) /\ j + 1 = k
      BY <1>2, <2>2, <3>1
    <3> QED BY <1>4, <3>2
  <2> QED
    BY <2>1, <2>2
<1>7. Sorted(M)
  <2> SUFFICES ASSUME NEW x \in 1 .. n - 1, NEW y \in 1 .. n - 1, x < y
               PROVE  M[x].addr + M[x].size < M[y].addr
    BY <1>4 DEF Sorted
  <2>1. PICK k \in 1 .. n : M[x] = L[k] /\ k = IF x < i THEN x ELSE x + 1
    BY <1>5
  <2>2. PICK m \in 1 .. n : M[y] = L[m] /\ m = IF y < i THEN y ELSE y + 1
    BY <1>5
  <2>3. k < m
    BY <2>1, <2>2
  <2> QED
    BY <1>1, <1>2, <2>1, <2>2, <2>3 DEF Sorted
<1>8. \A j \in 1 .. n - 1 : Sound(M[j])
  BY <1>1, <1>2, <1>5
<1>9. ListOK(M)
  BY <1>4, <1>7, <1>8 DEF ListOK
<1> QED
  BY <1>2, <1>3, <1>4, <1>5, <1>6, <1>9 DEF Carved

LEMMA BytesOf ==
  ASSUME NEW L, ListOK(L), NEW x
  PROVE  x \in Bytes(L) <=> \E j \in 1 .. Len(L) : x \in Span(L[j])
<1>1. DOMAIN L = 1 .. Len(L)
  BY ListFacts
<1> QED
  BY <1>1 DEF Bytes

LEMMA CarveBytes ==
  ASSUME NEW L, ListOK(L), NEW i \in 1 .. Len(L), NEW got \in Nat, got <= L[i].size,
         NEW M, Carved(L, M, i, got), NEW u, u.addr = L[i].addr, u.size = got
  PROVE  /\ \A k \in (1 .. Len(L)) \ {i} : Apart(u, L[k])
         /\ \A j \in 1 .. Len(M) : Apart(u, M[j])
         /\ Span(u) \subseteq Bytes(L)
         /\ Bytes(M) = Bytes(L) \ Span(u)
<1>0. PICK b : b = L[i]
  OBVIOUS
<1>1. /\ Len(L) \in Nat
      /\ \A j \in 1 .. Len(L) : L[j].addr \in Nat /\ L[j].size \in Nat
      /\ b.addr \in Nat /\ b.size \in Nat
  BY <1>0, ListFacts
<1>2. u.addr = b.addr /\ u.size = got /\ got <= b.size
  BY <1>0
<1>3. ASSUME NEW k \in (1 .. Len(L)) \ {i} PROVE Apart(u, L[k])
  <2>1. \/ L[k].addr + L[k].size < b.addr
        \/ b.addr + b.size < L[k].addr
    <3>1. k < i \/ i < k
      BY <1>1
    <3> QED
      BY <3>1, <1>0, ListFacts DEF Sorted
  <2> QED
    BY <1>1, <1>2, <2>1, SMTT(30) DEF Apart
<1>4. PICK r : r = RestOf(b, got)
  OBVIOUS
<1>5. r.addr = b.addr + got /\ r.size = b.size - got
  BY <1>4 DEF RestOf
<1>6. Apart(u, r)
  BY <1>1, <1>2, <1>5 DEF Apart
<1>7. ListOK(M)
  BY DEF Carved
<1>8. \A j \in 1 .. Len(M) : (\E k \in (1 .. Len(L)) \ {i} : M[j] = L[k]) \/ M[j] = r
  BY <1>0, <1>4 DEF Carved
<1>9. \A j \in 1 .. Len(M) : Apart(u, M[j])
  BY <1>3, <1>6, <1>8
<1>10. \A x : x \in Span(b) <=> x \in Span(u) \/ x \in Span(r)
  BY <1>1, <1>2, <1>5, SMTT(30) DEF Span
<1>11. Span(u) \subseteq Bytes(L)
  BY <1>0, <1>10, BytesOf
<1>12. ASSUME NEW x \in Bytes(M) PROVE x \in Bytes(L) \ Span(u)
  <2>1. PICK j \in 1 .. Len(M) : x \in Span(M[j])
    BY <1>7, BytesOf
  <2>2. x \in Bytes(L)
    <3>1. CASE \E k \in (1 .. Len(L)) \ {i} : M[j] = L[k]
      BY <3>1, <2>1, BytesOf
    <3>2. CASE M[j] = r
      BY <3>2, <2>1, <1>0, <1>10, BytesOf
    <3> QED
      BY <3>1, <3>2, <1>8
  <2>3. Span(u) \cap Span(M[j]) = {}
    <3>1. M[j].addr \in Nat /\ M[j].size \in Nat
      BY <1>7, ListFacts
    <3> QED
      BY <3>1, <1>1, <1>2, <1>9, ApartSpans
  <2> QED
    BY <2>1, <2>2, <2>3
<1>13. ASSUME NEW x \in Bytes(L), x \notin Span(u) PROVE x \in Bytes(M)
  <2>1. PICK k \in 1 .. Len(L) : x \in Span(L[k])
    BY BytesOf
  <2>2. CASE k # i
    <3>1. PICK j \in 1 .. Len(M) : M[j] = L[k]
      BY <2>2 DEF Carved
    <3> QED
      BY <3>1, <2>1, <1>7, BytesOf
  <2>3. CASE k = i
    <3>1. x \in Span(r)
      BY <1>0, <1>10, <1>13, <2>1, <2>3
    <3>2. got # b.size
      BY <1>1, <1>5, <3>1 DEF Span
    <3>3. PICK j \in 1 .. Len(M) : M[j] = r
      BY <1>0, <1>4, <3>2 DEF Carved
    <3> QED
      BY <3>1, <3>3, <1>7, BytesOf
  <2> QED
    BY <2>2, <2>3
<1> QED
  BY <1>3, <1>9, <1>11, <1>12, <1>13

LEMMA PartApart ==
  ASSUME NEW b, NEW c, NEW d,
         b.addr \in Nat, b.size \in Nat, c.addr \in Nat, c.size \in Nat,
         d.addr \in Nat, d.size \in Nat,
         Apart(c, b), b.addr <= d.addr, d.addr + d.size <= b.addr + b.size
  PROVE  Apart(c, d) /\ Apart(d, c)
  BY DEF Apart

LEMMA FrontAndRest ==
  ASSUME NEW b, NEW u, NEW r, NEW got \in Nat, b.addr \in Nat, b.size \in Nat,
         got <= b.size, u.addr = b.addr, u.size = got,
         r.addr = b.addr + got, r.size = b.size - got
  PROVE  /\ u.addr \in Nat /\ u.size \in Nat /\ r.addr \in Nat /\ r.size \in Nat
         /\ b.addr <= u.addr /\ u.addr + u.size <= b.addr + b.size
         /\ b.addr <= r.addr /\ r.addr + r.size <= b.addr + b.size
  OBVIOUS

LEMMA CarveShape ==
  ASSUME place \in Places, NEW L, NEW n, NEW V, HeapShape(L, n, V),
         NEW i \in 1 .. Len(L), NEW got \in Nat, got <= L[i].size, got % 8 = 0,
         NEW req \in Nat, req + 16 <= got,
         NEW M, Carved(L, M, i, got)
  PROVE  HeapShape(M, n - got,
                   V \cup {[addr |-> L[i].addr, size |-> got, req |-> req]})
<1>0. PICK b : b = L[i]
  OBVIOUS
<1>1. PICK u : u = [addr |-> b.addr, size |-> got, req |-> req]
  OBVIOUS
<1>2. /\ ListOK(L) /\ LiveOK(V) /\ ListOK(M)
      /\ \A c \in V, k \in 1 .. Len(L) : Apart(c, L[k])
  BY DEF HeapShape, Carved
<1>3. /\ b.addr \in Nat /\ b.size \in Nat /\ b.addr % 8 = 0
      /\ u.addr = b.addr /\ u.size = got /\ u.req = req /\ got <= b.size
  BY <1>0, <1>1, <1>2, ListFacts
<1>4. /\ u \in LiveBlock /\ Sound(u) /\ u.req + heap_struct_size <= u.size
  BY <1>1, <1>3 DEF LiveBlock, Sound, ALIGNMENT, heap_struct_size
<1>5. /\ \A k \in (1 .. Len(L)) \ {i} : Apart(u, L[k])
      /\ \A j \in 1 .. Len(M) : Apart(u, M[j])
      /\ Span(u) \subseteq Bytes(L)
      /\ Bytes(M) = Bytes(L) \ Span(u)
  BY <1>0, <1>2, <1>3, CarveBytes
<1>6. PICK r : r = RestOf(b, got)
  OBVIOUS
<1>7. r.addr = b.addr + got /\ r.size = b.size - got
  BY <1>6 DEF RestOf
<1>8. ASSUME NEW c \in V PROVE Apart(c, u) /\ Apart(u, c) /\ Apart(c, r)
  <2>1. c.addr \in Nat /\ c.size \in Nat /\ Apart(c, b)
    BY <1>0, <1>2, BlockFields DEF LiveOK
  <2>2. /\ u.addr \in Nat /\ u.size \in Nat /\ r.addr \in Nat /\ r.size \in Nat
        /\ b.addr <= u.addr /\ u.addr + u.size <= b.addr + b.size
        /\ b.addr <= r.addr /\ r.addr + r.size <= b.addr + b.size
    BY <1>3, <1>7, FrontAndRest
  <2> QED
    BY <1>3, <2>1, <2>2, PartApart
<1>9. LiveOK(V \cup {u})
  BY <1>2, <1>4, <1>8 DEF LiveOK
<1>10. ASSUME NEW c \in V \cup {u}, NEW j \in 1 .. Len(M) PROVE Apart(c, M[j])
  <2>1. CASE c = u
    BY <1>5, <2>1
  <2>2. CASE c \in V
    <3>1. (\E k \in (1 .. Len(L)) \ {i} : M[j] = L[k]) \/ M[j] = r
      BY <1>0, <1>6 DEF Carved
    <3> QED
      BY <1>2, <1>8, <2>2, <3>1
  <2> QED
    BY <2>1, <2>2
<1>11. Bytes(M) \cup Taken(V \cup {u}) = Span(First)
  <2>1. Taken(V \cup {u}) = Taken(V) \cup Span(u)
    BY DEF Taken
  <2> QED
    BY <1>5, <2>1 DEF HeapShape
<1>12. n - got = Cardinality(Bytes(M))
  <2>1. IsFiniteSet(Bytes(L)) /\ n = Cardinality(Bytes(L))
    BY BytesFacts DEF HeapShape
  <2>2. Cardinality(Span(u)) = got
    BY <1>3, SpanFacts
  <2>3. Bytes(L) \cap Span(u) = Span(u)
    BY <1>5
  <2>4. Cardinality(Bytes(L) \ Span(u)) = Cardinality(Bytes(L)) - Cardinality(Bytes(L) \cap Span(u))
    BY <2>1, FS_Difference
  <2> QED
    BY <1>5, <2>1, <2>2, <2>3, <2>4
<1> QED
  BY <1>0, <1>1, <1>2, <1>9, <1>10, <1>11, <1>12 DEF HeapShape

LEMMA MallocShape ==
  ASSUME HeapInv, NEW req \in Nat, heap_malloc(req)
  PROVE  /\ HeapShape(free', all_size', live')
         /\ tail' = End /\ place' = place
<1> DEFINE size == RoundUp(req + heap_struct_size)
           i    == FirstFit(size)
           use  == FreeList[i]
           rest == [addr |-> use.addr + size, size |-> use.size - size]
           keep == rest.size > MIN_SIZE
           got  == IF keep THEN size ELSE use.size
<1>1. /\ i # 0
      /\ tail' = End
      /\ free' = IF keep THEN ReplaceAt(FreeList, i, rest) ELSE RemoveAt(FreeList, i)
      /\ all_size' = AllSize - got
      /\ live' = live \cup {[addr |-> use.addr, size |-> got, req |-> req]}
      /\ place' = place
  BY DEF heap_malloc
<1>2. PICK L, n : L = FreeList /\ n = AllSize
  OBVIOUS
<1>3. HeapShape(L, n, live) /\ place \in Places
  BY <1>2, ShapeFound DEF HeapInv, HeapTypeOK
<1>4. ListOK(L)
  BY <1>3 DEF HeapShape
<1>5. PICK sz \in Nat : sz = size /\ sz % 8 = 0 /\ req + 16 <= sz
  <2>1. req + heap_struct_size \in Nat /\ req + heap_struct_size = req + 16
    BY DEF heap_struct_size
  <2> QED
    BY <2>1, Rounding
<1>6. PICK k : k = i
  OBVIOUS
<1>7. k \in 1 .. Len(L) /\ L[k].size >= sz
  <2>1. PICK I : I = {j \in 1 .. Len(L) : L[j].size >= sz}
    OBVIOUS
  <2>2. k = IF I # {} THEN Min(I) ELSE 0
    BY <1>2, <1>5, <1>6, <2>1 DEF FirstFit, SelectInSeq
  <2>3. I # {}
    BY <1>1, <1>6, <2>2
  <2>4. I \in SUBSET Nat
    BY <2>1
  <2>5. Min(I) \in I
    BY <2>3, <2>4, MinIsLeast
  <2> QED
    BY <2>1, <2>2, <2>3, <2>5
<1>8. PICK b : b = L[k]
  OBVIOUS
<1>9. /\ b = use /\ b.addr \in Nat /\ b.size \in Nat /\ b.size % 8 = 0 /\ b.size >= sz
  BY <1>2, <1>4, <1>6, <1>7, <1>8, ListFacts
<1>10. rest = RestOf(b, sz)
  BY <1>5, <1>9 DEF RestOf
<1>11. CASE keep
  <2>1. /\ free' = ReplaceAt(L, k, RestOf(L[k], sz))
        /\ all_size' = n - sz
        /\ live' = live \cup {[addr |-> L[k].addr, size |-> sz, req |-> req]}
    BY <1>1, <1>2, <1>5, <1>6, <1>8, <1>9, <1>10, <1>11
  <2>2. L[k].size - sz >= 16
    BY <1>5, <1>8, <1>9, <1>11 DEF MIN_SIZE, heap_struct_size
  <2>3. Carved(L, free', k, sz)
    BY <1>4, <1>5, <1>7, <2>1, <2>2, CarveSplits
  <2>4. sz <= L[k].size
    BY <1>8, <1>9
  <2> HIDE DEF size, i, use, rest, keep, got
  <2> QED
    BY <1>1, <1>3, <1>5, <1>7, <2>1, <2>3, <2>4, CarveShape, SMTT(40)
<1>12. CASE ~keep
  <2>1. /\ free' = RemoveAt(L, k)
        /\ all_size' = n - L[k].size
        /\ live' = live \cup {[addr |-> L[k].addr, size |-> L[k].size, req |-> req]}
    BY <1>1, <1>2, <1>6, <1>8, <1>9, <1>12
  <2>2. Carved(L, free', k, L[k].size)
    BY <1>4, <1>7, <2>1, CarveWhole
  <2>3. PICK g \in Nat : g = L[k].size /\ g % 8 = 0 /\ req + 16 <= g
    BY <1>5, <1>8, <1>9
  <2> HIDE DEF size, i, use, rest, keep, got
  <2>4. HeapShape(free', n - g, live \cup {[addr |-> L[k].addr, size |-> g, req |-> req]})
    BY <1>3, <1>7, <2>2, <2>3, CarveShape
  <2> QED
    BY <1>1, <2>1, <2>3, <2>4
<1> QED
  BY <1>11, <1>12

-----------------------------------------------------------------------------
(* heap_free puts a block into the list after its first k blocks and joins *)
(* it to the neighbours it touches: the blocks p + 1 .. q of the list and  *)
(* the node become the one block m.                                        *)
Fits(L, p, q, n, m) ==
  /\ \A x \in 1 .. p : L[x].addr + L[x].size < m.addr
  /\ \A y \in q + 1 .. n : m.addr + m.size < L[y].addr

Covers(L, p, q, m, node) ==
  \A x : x \in Span(m) <=>
           x \in Span(node) \/ \E j \in p + 1 .. q : x \in Span(L[j])

Inserted(L, node, M) == ListOK(M) /\ Bytes(M) = Bytes(L) \cup Span(node)

LEMMA SpliceList ==
  ASSUME NEW L, ListOK(L), NEW node, NEW n \in Nat, n = Len(L),
         NEW p \in Nat, NEW q \in Nat, p <= q, NEW r \in Nat, n = q + r,
         NEW m \in Block, Sound(m),
         Fits(L, p, q, n, m), Covers(L, p, q, m, node),
         NEW M, Spliced(Block, L, p, q, m, M)
  PROVE  Inserted(L, node, M)
<1>1. /\ L \in Seq(Block) /\ Sorted(L)
      /\ \A j \in 1 .. n : Sound(L[j]) /\ L[j].addr \in Nat /\ L[j].size \in Nat
  BY ListFacts DEF ListOK
<1>2. /\ M \in Seq(Block)
      /\ Len(M) = p + 1 + r
      /\ \A j \in 1 .. p : M[j] = L[j]
      /\ M[p + 1] = m
      /\ \A j \in 1 .. r : M[p + 1 + j] = L[q + j]
  <2>1. Len(L) - q = r
    OBVIOUS
  <2> QED BY <2>1 DEF Spliced
<1>7. ASSUME NEW j \in 1 .. p + 1 + r
      PROVE  \/ j \in 1 .. p /\ M[j] = L[j]
             \/ j = p + 1 /\ M[j] = m
             \/ \E i \in 1 .. r : M[j] = L[q + i] /\ j = p + 1 + i
  <2>1. CASE j <= p
    BY <1>2, <2>1
  <2>2. CASE j = p + 1
    BY <1>2, <2>2
  <2>3. CASE j > p + 1
    <3>1. PICK i \in Int : i = j - (p + 1)
      OBVIOUS
    <3>2. i \in 1 .. r /\ p + 1 + i = j
      BY <2>3, <3>1
    <3> QED
      BY <1>2, <3>2
  <2> QED
    BY <2>1, <2>2, <2>3
<1>8. ASSUME NEW x \in 1 .. p + 1 + r, NEW y \in 1 .. p + 1 + r, x < y
      PROVE  M[x].addr + M[x].size < M[y].addr
  <2>0. \A i, j \in 1 .. n : i < j => L[i].addr + L[i].size < L[j].addr
    BY DEF ListOK, Sorted
  <2>1. CASE x \in 1 .. p /\ M[x] = L[x]
    <3>1. CASE y \in 1 .. p /\ M[y] = L[y]
      <4>1. x \in 1 .. n /\ y \in 1 .. n
        BY <2>1, <3>1
      <4> QED BY <1>8, <2>0, <2>1, <3>1, <4>1
    <3>2. CASE M[y] = m
      BY <2>1, <3>2 DEF Fits
    <3>3. CASE \E i \in 1 .. r : M[y] = L[q + i]
      <4>1. PICK i \in 1 .. r : M[y] = L[q + i]
        BY <3>3
      <4>2. x \in 1 .. n /\ q + i \in 1 .. n /\ x < q + i
        BY <2>1
      <4> QED BY <2>0, <2>1, <4>1, <4>2
    <3> QED BY <1>7, <3>1, <3>2, <3>3
  <2>2. CASE x = p + 1 /\ M[x] = m
    <3>1. PICK i \in 1 .. r : M[y] = L[q + i]
      <4>1. ~(y \in 1 .. p) /\ y # p + 1
        BY <1>8, <2>2
      <4> QED BY <4>1, <1>7
    <3>2. q + i \in q + 1 .. n
      OBVIOUS
    <3> QED BY <2>2, <3>1, <3>2 DEF Fits
  <2>3. CASE \E i \in 1 .. r : M[x] = L[q + i] /\ x = p + 1 + i
    <3>1. PICK i \in 1 .. r : M[x] = L[q + i] /\ x = p + 1 + i
      BY <2>3
    <3>2. ~(y \in 1 .. p) /\ y # p + 1
      BY <1>8, <3>1
    <3>3. PICK h \in 1 .. r : M[y] = L[q + h] /\ y = p + 1 + h
      BY <1>7, <3>2
    <3>4. q + i \in 1 .. n /\ q + h \in 1 .. n /\ q + i < q + h
      BY <1>8, <3>1, <3>3
    <3> QED BY <2>0, <3>1, <3>3, <3>4
  <2> QED
    BY <1>7, <2>1, <2>2, <2>3
<1>9. ASSUME NEW j \in 1 .. p + 1 + r PROVE Sound(M[j])
  <2>1. j \in 1 .. p => j \in 1 .. n
    OBVIOUS
  <2>2. \A i \in 1 .. r : q + i \in 1 .. n
    OBVIOUS
  <2> QED
    BY <1>1, <1>7, <2>1, <2>2
<1>10. ListOK(M)
  BY <1>2, <1>8, <1>9 DEF ListOK, Sorted
<1>11. ASSUME NEW x \in Bytes(M) PROVE x \in Bytes(L) \cup Span(node)
  <2>0. \A j \in 1 .. n : x \in Span(L[j]) => x \in Bytes(L)
    BY BytesOf
  <2>1. PICK j \in 1 .. p + 1 + r : x \in Span(M[j])
    BY <1>2, <1>10, BytesOf
  <2>2. CASE j \in 1 .. p /\ M[j] = L[j]
    <3>1. j \in 1 .. n
      BY <2>2
    <3> QED BY <2>0, <2>1, <2>2, <3>1
  <2>3. CASE M[j] = m
    <3>1. \A i \in p + 1 .. q : i \in 1 .. n
      OBVIOUS
    <3> QED BY <2>0, <2>1, <2>3, <3>1 DEF Covers
  <2>4. CASE \E i \in 1 .. r : M[j] = L[q + i]
    <3>1. \A i \in 1 .. r : q + i \in 1 .. n
      OBVIOUS
    <3> QED BY <2>0, <2>1, <2>4, <3>1
  <2> QED
    BY <1>7, <2>2, <2>3, <2>4
<1>12. \A j \in 1 .. p + 1 + r : \A x : x \in Span(M[j]) => x \in Bytes(M)
  BY <1>2, <1>10, BytesOf
<1>13. \A x : x \in Span(m) => x \in Bytes(M)
  <2>1. p + 1 \in 1 .. p + 1 + r
    OBVIOUS
  <2> QED BY <1>2, <1>12, <2>1
<1>14. ASSUME NEW x \in Bytes(L) \cup Span(node) PROVE x \in Bytes(M)
  <2>1. CASE x \in Span(node)
    BY <1>13, <2>1 DEF Covers
  <2>2. CASE x \in Bytes(L)
    <3>1. PICK i \in 1 .. n : x \in Span(L[i])
      BY <2>2, BytesOf
    <3>2. CASE i <= p
      <4>1. i \in 1 .. p /\ i \in 1 .. p + 1 + r
        BY <3>2
      <4> QED BY <1>2, <1>12, <3>1, <4>1
    <3>3. CASE i > p /\ i <= q
      <4>1. i \in p + 1 .. q
        BY <3>3
      <4> QED BY <1>13, <3>1, <4>1 DEF Covers
    <3>4. CASE i > q
      <4>1. PICK j \in Int : j = i - q
        OBVIOUS
      <4>2. j \in 1 .. r /\ q + j = i /\ p + 1 + j \in 1 .. p + 1 + r
        BY <3>4, <4>1
      <4>3. M[p + 1 + j] = L[i]
        BY <1>2, <4>2
      <4> QED BY <1>12, <3>1, <4>2, <4>3
    <3> QED BY <3>2, <3>3, <3>4
  <2> QED BY <2>1, <2>2
<1> QED
  BY <1>10, <1>11, <1>14 DEF Inserted

(* Two blocks that touch make one. *)
LEMMA Merge ==
  ASSUME NEW a \in Block, NEW b \in Block, Sound(a), Sound(b),
         a.addr + a.size = b.addr,
         NEW m, m = [addr |-> a.addr, size |-> a.size + b.size]
  PROVE  /\ m \in Block /\ Sound(m)
         /\ m.addr = a.addr /\ m.addr + m.size = b.addr + b.size
         /\ \A x : x \in Span(m) <=> x \in Span(a) \/ x \in Span(b)
<1>1. /\ a.addr \in Nat /\ a.size \in Nat /\ b.addr \in Nat /\ b.size \in Nat
      /\ a.addr % 8 = 0 /\ a.size % 8 = 0 /\ a.size >= 16
      /\ b.size % 8 = 0 /\ b.size >= 16
  BY BlockFields DEF Sound, ALIGNMENT, heap_struct_size
<1>3. m.addr = a.addr /\ m.size = a.size + b.size /\ a.size + b.size \in Nat
  BY <1>1
<1>4. m \in Block
  BY <1>1, <1>3, BlockFields
<1>5. (a.size + b.size) % 8 = 0 /\ a.size + b.size >= 16
  BY <1>1
<1>6. Sound(m)
  BY <1>1, <1>3, <1>5 DEF Sound, ALIGNMENT, heap_struct_size
<1>7. \A x : x \in Span(m) <=> x \in Span(a) \/ x \in Span(b)
  BY <1>1, <1>3 DEF Span
<1> QED
  BY <1>1, <1>3, <1>4, <1>6, <1>7

(* Where the node goes: after the first k blocks of the list. *)
Position(L, k, n, node) ==
  /\ \A x \in 1 .. k : L[x].addr + L[x].size <= node.addr
  /\ \A y \in k + 1 .. n : node.addr + node.size <= L[y].addr

(* The node and the blocks k + 1 .. q have become m. *)
NextJoined(L, k, n, node, q, m) ==
  /\ k <= q /\ q <= n
  /\ JoinNext(node, SubSeq(L, k + 1, n)) = <<m>> \o SubSeq(L, q + 1, n)
  /\ Sound(m) /\ m.addr = node.addr
  /\ \A y \in q + 1 .. n : m.addr + m.size < L[y].addr
  /\ Covers(L, k, q, m, node)

LEMMA JoinNextFacts ==
  ASSUME NEW L, ListOK(L), NEW n \in Nat, n = Len(L), NEW k \in Nat, k <= n,
         NEW node \in Block, Sound(node),
         Position(L, k, n, node)
  PROVE  \E q \in Nat, m \in Block : NextJoined(L, k, n, node, q, m)
<1>1. /\ L \in Seq(Block)
      /\ \A j \in 1 .. n : /\ L[j] \in Block /\ Sound(L[j])
                           /\ L[j].addr \in Nat /\ L[j].size \in Nat
      /\ \A i, j \in 1 .. n : i < j => L[i].addr + L[i].size < L[j].addr
      /\ node.addr \in Nat /\ node.size \in Nat
  BY ListFacts, BlockFields DEF ListOK, Sorted
<1>2. PICK after : after = SubSeq(L, k + 1, n)
  OBVIOUS
<1>3. CASE k = n
  <2>1. after = <<>>
    <3>1. Len(after) = 0 /\ after \in Seq(Block)
      BY <1>1, <1>2, <1>3, PartsOfSeq
    <3> QED BY <3>1, EmptySeq
  <2>2. JoinNext(node, after) = <<node>> \o after
    BY <2>1 DEF JoinNext
  <2>3. Covers(L, k, k, node, node)
    <3>1. ~\E j \in k + 1 .. k : TRUE
      OBVIOUS
    <3> QED BY <3>1 DEF Covers
  <2>4. ~\E y \in k + 1 .. n : TRUE
    BY <1>3
  <2>5. NextJoined(L, k, n, node, k, node)
    BY <1>2, <2>2, <2>3, <2>4 DEF NextJoined
  <2> QED BY <2>5
<1>4. CASE k < n
  <2>1. k + 1 \in 1 .. n /\ k + 1 \in Nat /\ k + 1 <= n /\ k + 1 <= Len(L)
    BY <1>4
  <2>2. PICK b : b = L[k + 1]
    OBVIOUS
  <2>3. b \in Block /\ Sound(b) /\ b.addr \in Nat /\ b.size \in Nat
    BY <1>1, <2>1, <2>2
  <2>4. /\ after # <<>>
        /\ Head(after) = b
        /\ Tail(after) = SubSeq(L, k + 2, n)
    BY <1>1, <1>2, <2>1, <2>2, TailOfPart
  <2>5. CASE node.addr + node.size = b.addr
    <3>0. PICK m : m = [addr |-> node.addr, size |-> node.size + b.size]
      OBVIOUS
    <3>1. m = [node EXCEPT !.size = @ + b.size]
      BY <3>0 DEF Block
    <3>2. /\ m \in Block /\ Sound(m)
          /\ m.addr = node.addr /\ m.addr + m.size = b.addr + b.size
          /\ \A x : x \in Span(m) <=> x \in Span(node) \/ x \in Span(b)
      BY <2>3, <2>5, <3>0, Merge
    <3>3. JoinNext(node, after) = <<m>> \o SubSeq(L, k + 2, n)
      BY <2>4, <2>5, <3>1 DEF JoinNext
    <3>4. ASSUME NEW y \in k + 2 .. n PROVE m.addr + m.size < L[y].addr
      <4>1. y \in 1 .. n /\ k + 1 < y
        OBVIOUS
      <4> QED BY <1>1, <2>1, <2>2, <3>2, <4>1
    <3>5. Covers(L, k, k + 1, m, node)
      <4>1. \A j \in k + 1 .. k + 1 : j = k + 1
        OBVIOUS
      <4>2. k + 1 \in k + 1 .. k + 1
        OBVIOUS
      <4> QED BY <2>2, <3>2, <4>1, <4>2 DEF Covers
    <3>6. PICK q \in Nat : q = k + 1
      BY <2>1
    <3>7. k <= q /\ q <= n /\ q + 1 = k + 2
      BY <2>1, <3>6
    <3>8. NextJoined(L, k, n, node, q, m)
      BY <1>2, <3>2, <3>3, <3>4, <3>5, <3>6, <3>7 DEF NextJoined
    <3> QED BY <3>2, <3>8
  <2>6. CASE node.addr + node.size # b.addr
    <3>1. JoinNext(node, after) = <<node>> \o after
      BY <2>4, <2>6 DEF JoinNext
    <3>2. node.addr + node.size < b.addr
      <4>1. k + 1 \in k + 1 .. n
        BY <2>1
      <4>2. node.addr + node.size <= b.addr
        BY <2>2, <4>1 DEF Position
      <4> QED BY <1>1, <2>3, <2>6, <4>2
    <3>3. ASSUME NEW y \in k + 1 .. n PROVE node.addr + node.size < L[y].addr
      <4>1. CASE y = k + 1
        BY <2>2, <3>2, <4>1
      <4>2. CASE y # k + 1
        <5>1. y \in 1 .. n /\ k + 1 < y
          BY <4>2
        <5>2. b.addr + b.size < L[y].addr /\ L[y].addr \in Nat
          BY <1>1, <2>1, <2>2, <5>1
        <5> QED BY <1>1, <2>3, <3>2, <5>2
      <4> QED BY <4>1, <4>2
    <3>4. Covers(L, k, k, node, node)
      <4>1. ~\E j \in k + 1 .. k : TRUE
        OBVIOUS
      <4> QED BY <4>1 DEF Covers
    <3>5. NextJoined(L, k, n, node, k, node)
      BY <1>2, <3>1, <3>3, <3>4, SMTT(30) DEF NextJoined
    <3> QED BY <3>5
  <2> QED BY <2>5, <2>6
<1> QED
  <2>1. k = n \/ k < n
    OBVIOUS
  <2> QED BY <2>1, <1>3, <1>4

LEMMA SpliceAt ==
  ASSUME NEW L, ListOK(L), NEW node, NEW p, NEW q, PartOf(L, p, q),
         NEW h \in Block, Sound(h),
         Fits(L, p, q, Len(L), h), Covers(L, p, q, h, node)
  PROVE  Inserted(L, node, SpliceOf(L, p, q, h))
<1>1. L \in Seq(Block)
  BY ListFacts
<1>2. PICK n \in Nat : n = Len(L)
  BY ListFacts
<1>3. p \in Nat /\ q \in Nat /\ p <= q /\ q <= n
  BY <1>2 DEF PartOf
<1>4. PICK r \in Nat : n = q + r
  <2>1. n - q \in Nat /\ n = q + (n - q)
    BY <1>3
  <2> QED BY <2>1
<1>5. Spliced(Block, L, p, q, h, SpliceOf(L, p, q, h))
  BY <1>1, Splice
<1>6. Fits(L, p, q, n, h)
  BY <1>2
<1> QED
  BY <1>2, <1>3, <1>4, <1>5, <1>6, SpliceList

LEMMA InsertList ==
  ASSUME NEW L, ListOK(L), NEW n \in Nat, n = Len(L), NEW k \in Nat, k <= n,
         NEW node \in Block, Sound(node),
         Position(L, k, n, node),
         NEW M, M = JoinPrev(SubSeq(L, 1, k), JoinNext(node, SubSeq(L, k + 1, n)))
  PROVE  Inserted(L, node, M)
<1>1. /\ L \in Seq(Block)
      /\ \A j \in 1 .. n : /\ L[j] \in Block /\ Sound(L[j])
                           /\ L[j].addr \in Nat /\ L[j].size \in Nat
      /\ \A i, j \in 1 .. n : i < j => L[i].addr + L[i].size < L[j].addr
      /\ node.addr \in Nat /\ node.size \in Nat
  BY ListFacts, BlockFields DEF ListOK, Sorted
<1>2. PICK q \in Nat, m \in Block : NextJoined(L, k, n, node, q, m)
  BY JoinNextFacts
<1>3. /\ k <= q /\ q <= n
      /\ JoinNext(node, SubSeq(L, k + 1, n)) = <<m>> \o SubSeq(L, q + 1, n)
      /\ Sound(m) /\ m.addr = node.addr
      /\ \A y \in q + 1 .. n : m.addr + m.size < L[y].addr
      /\ Covers(L, k, q, m, node)
  BY <1>2 DEF NextJoined
<1>4. PICK r \in Nat : n = q + r
  <2>1. n - q \in Nat /\ n = q + (n - q)
    BY <1>3
  <2> QED BY <2>1
<1>5. PICK z \in Seq(Block) : z = SubSeq(L, q + 1, n)
  BY <1>1, <1>3, PartsOfSeq
<1>6. PICK a \in Seq(Block) : a = SubSeq(L, 1, k)
  BY <1>1, PartsOfSeq
<1>7. PICK list : list = <<m>> \o z
  OBVIOUS
<1>8. list \in Seq(Block) /\ Head(list) = m /\ Tail(list) = z
  BY <1>7, ConsFacts
<1>9. M = JoinPrev(a, list)
  BY <1>3, <1>5, <1>6, <1>7
<1>11. CASE k = 0 \/ L[k].addr + L[k].size # node.addr
  <2>1. M = a \o list
    <3>1. CASE k = 0
      <4>1. a = <<>>
        <5>1. Len(a) = 0
          BY <1>1, <1>6, <3>1, PartsOfSeq
        <5> QED BY <5>1, EmptySeq
      <4> QED BY <1>9, <4>1 DEF JoinPrev
    <3>2. CASE k # 0
      <4>1. 1 <= k /\ k <= Len(L)
        BY <3>2
      <4>2. Last(a) = L[k]
        BY <1>1, <1>6, <4>1, FrontOfPart
      <4> QED BY <1>3, <1>8, <1>9, <1>11, <3>2, <4>2 DEF JoinPrev
    <3> QED BY <3>1, <3>2
  <2>2. M = SpliceOf(L, k, q, m)
    <3>1. (a \o <<m>>) \o z = a \o (<<m>> \o z)
      BY SingletonConcat
    <3> QED BY <1>5, <1>6, <1>7, <2>1, <3>1 DEF SpliceOf
  <2>3. ASSUME NEW x \in 1 .. k PROVE L[x].addr + L[x].size < m.addr
    <3>1. x \in 1 .. n /\ k \in 1 .. n
      OBVIOUS
    <3>2. L[x].addr + L[x].size <= node.addr /\ L[k].addr + L[k].size <= node.addr
      <4>1. k \in 1 .. k
        OBVIOUS
      <4> QED BY <2>3, <4>1 DEF Position
    <3>3. CASE x = k
      <4>1. k # 0
        OBVIOUS
      <4>2. L[k].addr + L[k].size # node.addr /\ L[k].addr + L[k].size \in Nat
        BY <1>1, <1>11, <3>1, <4>1
      <4> QED BY <1>1, <1>3, <3>2, <3>3, <4>2
    <3>4. CASE x # k
      <4>1. x < k
        BY <3>4
      <4>2. L[x].addr + L[x].size < L[k].addr
        BY <1>1, <3>1, <4>1
      <4>3. /\ L[x].addr + L[x].size \in Nat /\ L[k].addr \in Nat /\ L[k].size \in Nat
        BY <1>1, <3>1
      <4> QED BY <1>1, <1>3, <3>2, <4>2, <4>3, SMTT(30)
    <3> QED BY <3>3, <3>4
  <2>4. Fits(L, k, q, Len(L), m)
    BY <1>3, <2>3 DEF Fits
  <2>5. PartOf(L, k, q) /\ Sound(m) /\ Covers(L, k, q, m, node)
    BY <1>3 DEF PartOf
  <2> QED
    BY <2>2, <2>4, <2>5, SpliceAt
<1>12. CASE k # 0 /\ L[k].addr + L[k].size = node.addr
  <2>1. 1 <= k /\ k <= Len(L) /\ k \in 1 .. n /\ k - 1 \in Nat
    BY <1>12
  <2>2. PICK b : b = L[k]
    OBVIOUS
  <2>3. b \in Block /\ Sound(b) /\ b.addr \in Nat /\ b.size \in Nat
    BY <1>1, <2>1, <2>2
  <2>4. PICK p \in Nat : p = k - 1
    BY <2>1
  <2>5. a # <<>> /\ Last(a) = b /\ Front(a) = SubSeq(L, 1, p)
    BY <1>1, <1>6, <2>1, <2>2, <2>4, FrontOfPart
  <2>6. b.addr + b.size = m.addr
    BY <1>3, <1>12, <2>2
  <2>7. PICK h : h = [addr |-> b.addr, size |-> b.size + m.size]
    OBVIOUS
  <2>8. h = [b EXCEPT !.size = @ + m.size]
    BY <2>3, <2>7, SMTT(30) DEF Block
  <2>9. M = SpliceOf(L, p, q, h)
    BY <1>5, <1>8, <1>9, <2>5, <2>6, <2>8 DEF JoinPrev, SpliceOf
  <2>10. /\ h \in Block /\ Sound(h)
         /\ h.addr = b.addr /\ h.addr + h.size = m.addr + m.size
         /\ \A x : x \in Span(h) <=> x \in Span(b) \/ x \in Span(m)
    BY <1>3, <2>3, <2>6, <2>7, Merge
  <2>11. ASSUME NEW x \in 1 .. p PROVE L[x].addr + L[x].size < h.addr
    <3>1. x \in 1 .. n /\ x < k /\ k \in 1 .. n
      BY <2>1, <2>4
    <3>2. L[x].addr + L[x].size < L[k].addr
      BY <1>1, <3>1
    <3> QED BY <2>2, <2>10, <3>2
  <2>12. Fits(L, p, q, Len(L), h)
    BY <1>3, <2>10, <2>11 DEF Fits
  <2>13. Covers(L, p, q, h, node)
    <3>1. \A j \in Int : j \in p + 1 .. q <=> j = k \/ j \in k + 1 .. q
      <4>1. k <= q /\ p + 1 = k
        BY <1>3, <2>4
      <4> QED BY <4>1
    <3>2. \A x : x \in Span(m) <=>
             x \in Span(node) \/ \E j \in k + 1 .. q : x \in Span(L[j])
      BY <1>3 DEF Covers
    <3>3. \A x : x \in Span(h) <=> x \in Span(L[k]) \/ x \in Span(m)
      BY <2>2, <2>10
    <3>4. ASSUME NEW x
          PROVE  (\E j \in p + 1 .. q : x \in Span(L[j])) <=>
                   x \in Span(L[k]) \/ \E j \in k + 1 .. q : x \in Span(L[j])
      <4>1. k \in p + 1 .. q
        BY <3>1
      <4>2. \A j \in p + 1 .. q : j = k \/ j \in k + 1 .. q
        BY <3>1, SMTT(30)
      <4>3. \A j \in k + 1 .. q : j \in p + 1 .. q
        BY <3>1
      <4> QED BY <4>1, <4>2, <4>3, Zenon
    <3> QED BY <3>2, <3>3, <3>4 DEF Covers
  <2>14. PartOf(L, p, q)
    BY <1>3, <2>4 DEF PartOf
  <2>15. h \in Block /\ Sound(h)
    BY <2>10
  <2> QED
    BY <2>9, <2>12, <2>13, <2>14, <2>15, SpliceAt
<1> QED
  BY <1>11, <1>12

(* A block is apart from every block of a list that has no byte of it.     *)
LEMMA DisjointApart ==
  ASSUME NEW b, NEW c, b.addr \in Nat, b.size \in Nat, c.addr \in Nat, c.size \in Nat,
         b.size >= 16, c.size >= 16, Span(b) \cap Span(c) = {}
  PROVE  Apart(b, c)
<1>1. SUFFICES ASSUME ~Apart(b, c) PROVE FALSE
  OBVIOUS
<1>2. c.addr < b.addr + b.size /\ b.addr < c.addr + c.size
  BY <1>1 DEF Apart
<1>3. CASE b.addr <= c.addr
  <2>1. c.addr \in Span(b) /\ c.addr \in Span(c)
    BY <1>2, <1>3 DEF Span
  <2> QED BY <2>1
<1>4. CASE c.addr < b.addr
  <2>1. b.addr \in Span(b) /\ b.addr \in Span(c)
    BY <1>2, <1>4 DEF Span
  <2> QED BY <2>1
<1> QED
  BY <1>3, <1>4

LEMMA ReturnShape ==
  ASSUME place \in Places, NEW L, NEW n, NEW V, HeapShape(L, n, V), NEW b \in V,
         NEW M, Inserted(L, b, M)
  PROVE  HeapShape(M, n + b.size, V \ {b})
<1>1. /\ ListOK(L) /\ LiveOK(V) /\ ListOK(M)
      /\ \A c \in V, k \in 1 .. Len(L) : Apart(c, L[k])
      /\ Bytes(M) = Bytes(L) \cup Span(b)
  BY DEF HeapShape, Inserted
<1>2. LiveOK(V \ {b})
  BY <1>1 DEF LiveOK
<1>3. ASSUME NEW c \in V
      PROVE  /\ c.addr \in Nat /\ c.size \in Nat /\ c.size >= 16
             /\ Span(c) \cap Bytes(L) = {}
  <2>1. c.addr \in Nat /\ c.size \in Nat /\ c.size >= 16
    BY <1>1, BlockFields DEF LiveOK, Sound, heap_struct_size
  <2>2. ASSUME NEW x \in Span(c), x \in Bytes(L) PROVE FALSE
    <3>1. PICK k \in 1 .. Len(L) : x \in Span(L[k])
      BY <1>1, <2>2, BytesOf
    <3>2. L[k].addr \in Nat /\ L[k].size \in Nat /\ Apart(c, L[k])
      BY <1>1, ListFacts
    <3> QED BY <2>1, <2>2, <3>1, <3>2, ApartSpans
  <2> QED BY <2>1, <2>2
<1>4. ASSUME NEW c \in V \ {b}, NEW j \in 1 .. Len(M) PROVE Apart(c, M[j])
  <2>1. M[j].addr \in Nat /\ M[j].size \in Nat /\ M[j].size >= 16
    BY <1>1, ListFacts
  <2>2. Apart(c, b)
    BY <1>1 DEF LiveOK
  <2>3. Span(c) \cap Span(b) = {}
    BY <1>3, <2>2, ApartSpans
  <2>4. Span(M[j]) \subseteq Bytes(L) \cup Span(b)
    BY <1>1, BytesOf
  <2>5. Span(c) \cap Span(M[j]) = {}
    BY <1>3, <2>3, <2>4
  <2> QED
    BY <1>3, <2>1, <2>5, DisjointApart
<1>5. Bytes(M) \cup Taken(V \ {b}) = Span(First)
  <2>1. Taken(V) = Taken(V \ {b}) \cup Span(b)
    BY DEF Taken
  <2> QED
    BY <1>1, <2>1 DEF HeapShape
<1>6. n + b.size = Cardinality(Bytes(M))
  <2>1. IsFiniteSet(Bytes(L)) /\ n = Cardinality(Bytes(L)) /\ n \in Nat
    BY BytesFacts DEF HeapShape
  <2>2. IsFiniteSet(Span(b)) /\ Cardinality(Span(b)) = b.size
    BY <1>3, SpanFacts
  <2>3. Bytes(L) \cap Span(b) = {}
    BY <1>3
  <2>4. Cardinality(Bytes(L) \cup Span(b)) =
          Cardinality(Bytes(L)) + Cardinality(Span(b)) - Cardinality(Bytes(L) \cap Span(b))
    BY <2>1, <2>2, FS_Union
  <2>5. Cardinality(Bytes(L) \cap Span(b)) = 0
    BY <2>3, FS_EmptySet
  <2> QED
    BY <1>1, <1>3, <2>1, <2>2, <2>4, <2>5
<1> QED
  BY <1>1, <1>2, <1>4, <1>5, <1>6 DEF HeapShape

LEMMA FreeShape ==
  ASSUME HeapInv, NEW b \in live, heap_free(b)
  PROVE  /\ HeapShape(free', all_size', live')
         /\ tail' = tail /\ place' = place /\ tail # NULL
<1>1. /\ all_size' = all_size + b.size
      /\ free' = insert_free_block([addr |-> b.addr, size |-> b.size])
      /\ live' = live \ {b}
      /\ place' = place /\ tail' = tail
  BY DEF heap_free
<1>2. tail # NULL /\ HeapShape(free, all_size, live) /\ place \in Places
  BY DEF HeapInv, HeapTypeOK
<1>3. PICK L : L = free
  OBVIOUS
<1>4. /\ ListOK(L) /\ LiveOK(live)
      /\ \A k \in 1 .. Len(L) : Apart(b, L[k])
  BY <1>2, <1>3 DEF HeapShape
<1>5. PICK node : node = [addr |-> b.addr, size |-> b.size]
  OBVIOUS
<1>6. /\ b.addr \in Nat /\ b.size \in Nat /\ b.size >= 16
      /\ node \in Block /\ Sound(node)
      /\ node.addr = b.addr /\ node.size = b.size
  <2>1. b.addr \in Nat /\ b.size \in Nat /\ Sound(b)
    BY <1>4, BlockFields DEF LiveOK
  <2> QED
    BY <1>5, <2>1, BlockFields DEF Sound, heap_struct_size
<1>7. PICK n \in Nat : n = Len(L)
  BY <1>4, ListFacts
<1>8. /\ \A j \in 1 .. n : L[j].addr \in Nat /\ L[j].size \in Nat /\ L[j].size >= 16
      /\ \A i, j \in 1 .. n : i < j => L[i].addr + L[i].size < L[j].addr
  BY <1>4, <1>7, ListFacts DEF Sorted
<1>9. PICK I : I = {j \in 1 .. n : L[j].addr >= node.addr}
  OBVIOUS
<1>10. PICK k \in Nat : /\ k <= n
                        /\ k = IF I = {} THEN n ELSE Min(I) - 1
                        /\ \A j \in 1 .. k : L[j].addr < node.addr
                        /\ \A j \in k + 1 .. n : L[j].addr >= node.addr
  <2>1. CASE I = {}
    <3>1. \A j \in 1 .. n : L[j].addr < node.addr
      BY <1>6, <1>8, <1>9, <2>1
    <3>2. ~\E j \in n + 1 .. n : TRUE
      OBVIOUS
    <3> QED BY <2>1, <3>1, <3>2
  <2>2. CASE I # {}
    <3>1. I \in SUBSET Nat
      BY <1>9
    <3>2. PICK m \in I : m = Min(I) /\ \A y \in I : m <= y
      BY <2>2, <3>1, MinIsLeast
    <3>3. m \in 1 .. n /\ L[m].addr >= node.addr
      BY <1>9, <3>2
    <3>4. PICK k \in Nat : k = m - 1
      <4>1. m - 1 \in Nat
        BY <3>3
      <4> QED BY <4>1
    <3>5. ASSUME NEW j \in 1 .. k PROVE L[j].addr < node.addr
      <4>1. j \in 1 .. n /\ ~(m <= j)
        BY <3>3, <3>4
      <4>2. ~(L[j].addr >= node.addr)
        BY <1>9, <3>2, <4>1
      <4> QED BY <1>6, <1>8, <4>1, <4>2
    <3>6. ASSUME NEW j \in k + 1 .. n PROVE L[j].addr >= node.addr
      <4>1. CASE j = m
        BY <3>3, <4>1
      <4>2. CASE j # m
        <5>1. m < j /\ j \in 1 .. n
          BY <3>3, <3>4, <4>2
        <5>2. L[m].addr + L[m].size < L[j].addr
          BY <1>8, <3>3, <5>1
        <5> QED BY <1>6, <1>8, <3>3, <5>1, <5>2
      <4> QED BY <4>1, <4>2
    <3>7. k <= n
      BY <3>3, <3>4
    <3> QED BY <2>2, <3>2, <3>4, <3>5, <3>6, <3>7
  <2> QED BY <2>1, <2>2
<1>11. Position(L, k, n, node)
  <2>1. ASSUME NEW x \in 1 .. k PROVE L[x].addr + L[x].size <= node.addr
    <3>1. x \in 1 .. n /\ x \in 1 .. Len(L)
      BY <1>7, <1>10
    <3>2. Apart(b, L[x]) /\ L[x].addr < node.addr
      BY <1>4, <1>10, <3>1
    <3> QED BY <1>6, <1>8, <3>1, <3>2 DEF Apart
  <2>2. ASSUME NEW y \in k + 1 .. n PROVE node.addr + node.size <= L[y].addr
    <3>1. y \in 1 .. n /\ y \in 1 .. Len(L)
      BY <1>7, <1>10
    <3>2. Apart(b, L[y]) /\ L[y].addr >= node.addr
      BY <1>4, <1>10, <3>1
    <3> QED BY <1>6, <1>8, <3>1, <3>2 DEF Apart
  <2> QED BY <2>1, <2>2 DEF Position
<1>12. free' = JoinPrev(SubSeq(L, 1, k), JoinNext(node, SubSeq(L, k + 1, n)))
  <2>1. I = {j \in 1 .. Len(free) : free[j].addr >= node.addr}
    BY <1>3, <1>7, <1>9
  <2>2. 0 \notin I /\ (I # {} => Min(I) # 0)
    <3>1. I \in SUBSET Nat /\ 0 \notin I
      BY <1>9
    <3> QED BY <3>1, MinIsLeast
  <2>3. k = IF I = {} THEN Len(free) ELSE Min(I) - 1
    BY <1>3, <1>7, <1>10
  <2> QED
    BY <1>1, <1>3, <1>5, <1>7, <2>1, <2>2, <2>3 DEF insert_free_block, SelectInSeq
<1>13. Inserted(L, node, free')
  BY <1>4, <1>6, <1>7, <1>10, <1>11, <1>12, InsertList
<1>14. Inserted(L, b, free')
  <2>1. Span(node) = Span(b)
    BY <1>6 DEF Span
  <2> QED BY <1>13, <2>1 DEF Inserted
<1>15. HeapShape(free', all_size + b.size, live \ {b})
  BY <1>2, <1>3, <1>14, ReturnShape
<1> QED
  BY <1>1, <1>2, <1>15

-----------------------------------------------------------------------------
(* The invariant holds initially and every step keeps it.                  *)
LEMMA FailsShape ==
  ASSUME HeapInv, NEW req \in Nat, MallocFails(req)
  PROVE  /\ HeapShape(free', all_size', live')
         /\ tail' = End /\ place' = place
  BY ShapeFound DEF MallocFails

(* First and End depend on place alone, which no step changes. *)
LEMMA ShapeKept ==
  ASSUME place \in Places, place' = place, tail' = End,
         HeapShape(free', all_size', live')
  PROVE  HeapInv'
<1>1. /\ First' = First /\ End' = End
  BY DEF First, End, Start, Room
<1>2. all_size' \in 0 .. CONFIG_HEAP
  BY BytesFacts
<1>3. End # NULL /\ End' # NULL
  BY <1>1, FirstBlock
<1>4. HeapShape(free, all_size, live)'
  <2>1. PICK f : f = First
    OBVIOUS
  <2>2. First' = f
    BY <1>1, <2>1
  <2> QED
    BY <2>1, <2>2 DEF HeapShape
<1>5. HeapTypeOK'
  <2>1. free' \in Seq(Block) /\ live' \subseteq LiveBlock
    BY DEF HeapShape, ListOK, LiveOK
  <2> QED
    BY <1>1, <1>2, <2>1 DEF HeapTypeOK, LiveBlock
<1> QED
  BY <1>1, <1>3, <1>4, <1>5 DEF HeapInv

LEMMA HeapInvInit == HeapInit => HeapInv
<1> SUFFICES ASSUME HeapInit PROVE HeapInv
  OBVIOUS
<1>1. free \in Seq(Block) /\ free = <<>>
  BY DEF HeapInit
<1> QED
  BY <1>1, HeapAssumption DEF HeapInit, HeapInv, HeapTypeOK

LEMMA HeapInvStep == HeapInv /\ [HeapNext]_heapVars => HeapInv'
<1> SUFFICES ASSUME HeapInv, [HeapNext]_heapVars PROVE HeapInv'
  OBVIOUS
<1>1. place \in Places
  BY DEF HeapInv, HeapTypeOK
<1>2. ASSUME NEW req \in Nat, heap_malloc(req) PROVE HeapInv'
  BY <1>1, <1>2, MallocShape, ShapeKept
<1>3. ASSUME NEW req \in Nat, MallocFails(req) PROVE HeapInv'
  BY <1>1, <1>3, FailsShape, ShapeKept
<1>4. ASSUME NEW b \in live, heap_free(b) PROVE HeapInv'
  <2>1. /\ HeapShape(free', all_size', live')
        /\ tail' = tail /\ place' = place /\ tail # NULL
    BY <1>4, FreeShape
  <2>2. tail = End
    BY <2>1 DEF HeapInv, HeapTypeOK
  <2> QED
    BY <1>1, <2>1, <2>2, ShapeKept
<1>5. CASE UNCHANGED heapVars
  <2>1. /\ place' = place /\ tail' = tail /\ free' = free
        /\ all_size' = all_size /\ live' = live
    BY <1>5 DEF heapVars
  <2>2. CASE tail = NULL
    <3>1. /\ free \in Seq(Block) /\ all_size \in 0 .. CONFIG_HEAP
          /\ live \subseteq [addr : Nat, size : Nat, req : Nat]
          /\ free = <<>> /\ live = {}
      BY <2>2 DEF HeapInv, HeapTypeOK
    <3> QED
      BY <1>1, <2>1, <2>2, <3>1 DEF HeapInv, HeapTypeOK
  <2>3. CASE tail # NULL
    <3>1. tail = End /\ HeapShape(free, all_size, live)
      BY <2>3 DEF HeapInv, HeapTypeOK
    <3>2. HeapShape(free', all_size', live')
      BY <2>1, <3>1
    <3> QED
      BY <1>1, <2>1, <3>1, <3>2, ShapeKept
  <2> QED
    BY <2>2, <2>3
<1> QED
  BY <1>2, <1>3, <1>4, <1>5 DEF HeapNext

LEMMA HeapInvariant == HeapSpec => []HeapInv
  BY HeapInvInit, HeapInvStep, PTL DEF HeapSpec

-----------------------------------------------------------------------------
(* What the invariant says about callers and about heap_get_stats.         *)
LEMMA InvTiled == HeapInv => Tiled
<1> SUFFICES ASSUME HeapInv PROVE Tiled
  OBVIOUS
<1>1. HeapTypeOK
  BY DEF HeapInv
<1>2. CASE tail = NULL
  BY <1>1, <1>2 DEF Tiled
<1>3. CASE tail # NULL
  <2>1. HeapShape(free, all_size, live)
    BY <1>3 DEF HeapInv
  <2>2. DOMAIN free = 1 .. Len(free)
    BY <2>1, ListFacts DEF HeapShape
  <2>3. FreeBytes = Bytes(free) /\ LiveBytes = Taken(live)
    BY DEF FreeBytes, Bytes, LiveBytes, Taken
  <2>4. FreeBytes \cup LiveBytes = Span(First)
    BY <2>1, <2>3 DEF HeapShape
  <2>5. /\ \A b, c \in live : b = c \/ Apart(b, c)
        /\ \A b \in live, i \in DOMAIN free : Apart(b, free[i])
    BY <2>1, <2>2 DEF HeapShape, LiveOK
  <2> QED
    BY <1>1, <2>4, <2>5 DEF Tiled
<1> QED
  BY <1>2, <1>3

LEMMA InvListExact == HeapInv => FreeListExact
<1> SUFFICES ASSUME HeapInv PROVE FreeListExact
  OBVIOUS
<1>1. CASE tail = NULL
  <2>1. free = <<>>
    BY <1>1 DEF HeapInv
  <2> QED
    BY <1>1, <2>1 DEF FreeListExact
<1>2. CASE tail # NULL
  <2>1. HeapShape(free, all_size, live)
    BY <1>2 DEF HeapInv
  <2>2. Sorted(free) /\ Len(free) \in Nat
    BY <2>1, ListFacts DEF HeapShape
  <2>3. all_size = Cardinality(FreeBytes)
    BY <2>1 DEF HeapShape, FreeBytes, Bytes
  <2> QED
    BY <2>2, <2>3 DEF FreeListExact, Sorted
<1> QED
  BY <1>1, <1>2

LEMMA PayloadClear ==
  ASSUME NEW a \in Nat, NEW s \in Nat, NEW r \in Nat, NEW c \in Nat, NEW t \in Nat,
         r + 16 <= s, t >= 16,
         a + s <= c \/ c + t <= a \/ a = c
  PROVE  (a + 16 .. a + 16 + r - 1) \cap (c .. c + 16 - 1) = {}
  OBVIOUS

LEMMA InvMetadataSafe == HeapInv => MetadataSafe
<1> SUFFICES ASSUME HeapInv, NEW b \in live
    PROVE  LET payload == b.addr + heap_struct_size .. b.addr + heap_struct_size + b.req - 1
           IN  /\ b.addr % ALIGNMENT = 0
               /\ \A c \in Blocks :
                    payload \cap (c.addr .. c.addr + heap_struct_size - 1) = {}
               /\ First.size = Room \/ ~OnTail(b)
  BY DEF MetadataSafe
<1>1. place \in Places /\ HeapShape(free, all_size, live)
  BY DEF HeapInv, HeapTypeOK
<1>2. /\ LiveOK(live) /\ ListOK(free)
      /\ \A c \in live, i \in 1 .. Len(free) : Apart(c, free[i])
      /\ Bytes(free) \cup Taken(live) = Span(First)
  BY <1>1 DEF HeapShape
<1>3. \A c \in live : /\ c.addr \in Nat /\ c.size \in Nat /\ c.req \in Nat
                      /\ c.addr % 8 = 0 /\ c.size >= 16 /\ c.req + 16 <= c.size
  BY <1>2, BlockFields DEF LiveOK, Sound, ALIGNMENT, heap_struct_size
<1>4. ASSUME NEW c \in Blocks
      PROVE  (b.addr + 16 .. b.addr + 16 + b.req - 1) \cap (c.addr .. c.addr + 16 - 1) = {}
  <2>1. CASE \E i \in 1 .. Len(free) : c = free[i]
    <3>1. PICK i \in 1 .. Len(free) : c = free[i]
      BY <2>1
    <3>2. Apart(b, c) /\ c.addr \in Nat /\ c.size \in Nat /\ c.size >= 16
      BY <1>2, <3>1, ListFacts
    <3>3. b.addr + b.size <= c.addr \/ c.addr + c.size <= b.addr
      BY <3>2 DEF Apart
    <3> QED
      BY <1>3, <3>2, <3>3, PayloadClear
  <2>2. CASE \E d \in live : c = [addr |-> d.addr, size |-> d.size]
    <3>1. PICK d \in live : c.addr = d.addr /\ c.size = d.size
      BY <2>2
    <3>2. b = d \/ Apart(b, d)
      BY <1>2 DEF LiveOK
    <3>3. b.addr + b.size <= c.addr \/ c.addr + c.size <= b.addr \/ b.addr = c.addr
      BY <3>1, <3>2 DEF Apart
    <3>4. c.addr \in Nat /\ c.size \in Nat /\ c.size >= 16
      BY <1>3, <3>1
    <3> QED
      BY <1>3, <3>3, <3>4, PayloadClear
  <2>3. DOMAIN free = 1 .. Len(free)
    BY <1>2, ListFacts
  <2> QED
    BY <2>1, <2>2, <2>3 DEF Blocks, Range
<1>5. First.size = Room \/ ~OnTail(b)
  <2> SUFFICES ASSUME First.size # Room PROVE ~OnTail(b)
    OBVIOUS
  <2>1. First.addr \in Nat /\ First.size \in Nat /\ First.addr + First.size = End /\ End \in Nat
    BY <1>1, FirstBlock, BlockFields
  <2>2. b.addr + b.size - 1 \in Span(b)
    BY <1>3 DEF Span
  <2>3. Span(b) \subseteq Span(First)
    BY <1>2 DEF Taken
  <2>4. b.addr + b.size - 1 \in First.addr .. First.addr + First.size - 1
    BY <2>2, <2>3 DEF Span
  <2>5. b.addr + b.size <= End
    BY <1>3, <2>1, <2>4
  <2> QED
    BY <1>3, <2>1, <2>5 DEF OnTail, heap_struct_size
<1> QED
  BY <1>3, <1>4, <1>5 DEF heap_struct_size, ALIGNMENT

(* heap_malloc and heap_free, in any order and with any sizes: every byte  *)
(* of the first block belongs to exactly one block, free or in use.        *)
THEOREM HeapTiled == HeapSpec => []Tiled
  BY HeapInvariant, InvTiled, PTL

(* insert_free_block keeps the list in address order with no two blocks    *)
(* touching, and the_heap.all_size stays the number of free bytes.         *)
THEOREM HeapListExact == HeapSpec => []FreeListExact
  BY HeapInvariant, InvListExact, PTL

(* What a caller of heap_malloc writes into its block never reaches the    *)
(* struct heap_node of another block or, if the end of all_heap had to be  *)
(* rounded down, the tail's.                                               *)
THEOREM HeapMetadataSafe == HeapSpec => []MetadataSafe
  BY HeapInvariant, InvMetadataSafe, PTL

-----------------------------------------------------------------------------
(***************************************************************************)
(* The pool.                                                               *)
(***************************************************************************)

PoolSpec == PoolInit /\ [][PoolNext]_<<heapVars, poolVars>>

-----------------------------------------------------------------------------
(* The inductive invariant.  L lists the members of N that are not in H,   *)
(* in ascending order.                                                     *)
Increasing(L) == \A i, j \in 1 .. Len(L) : i < j => L[i] < L[j]

Listed(L, N, H) ==
  /\ L \in Seq(Nat)
  /\ ToSet(L) = N \ H
  /\ Increasing(L)

(* p is a pool that fills the heap block it is in. *)
LaidOut(p) ==
  /\ p.block \in LiveBlock
  /\ p.size \in Nat
  /\ \E amount \in Nat \ {0} :
       /\ p.block.req = TotalSize(p.size, amount)
       /\ p.nodes = [i \in 1 .. amount |->
            p.block.addr + heap_struct_size + head_struct_size
              + (i - 1) * ApartSize(p.size)]

PoolInv ==
  /\ HeapInv
  /\ node_used = held
  /\ held \subseteq ToSet(pool.nodes)
  /\ ToSet(pool.nodes) \subseteq Nat
  /\ Listed(free_list, ToSet(pool.nodes), held)
  /\ pool # NoPool => LaidOut(pool) /\ pool.block \in live

-----------------------------------------------------------------------------
(* The list of free nodes.                                                 *)
LEMMA TakeFirst ==
  ASSUME NEW L, NEW N, NEW H, Listed(L, N, H), L # <<>>
  PROVE  /\ Head(L) \in N \ H
         /\ Listed(Tail(L), N, H \cup {Head(L)})
<1>1. L \in Seq(Nat) /\ ToSet(L) = N \ H /\ Increasing(L)
  BY DEF Listed
<1>2. PICK n \in Nat : n = Len(L) /\ DOMAIN L = 1 .. n
  BY <1>1, LenProperties
<1>3. n >= 1 /\ Head(L) = L[1]
  BY <1>1, <1>2, EmptySeq
<1>4. PICK m \in Nat : m = n - 1
  <2>1. n - 1 \in Nat
    BY <1>3
  <2> QED BY <2>1
<1>5. PICK T : T = Tail(L)
  OBVIOUS
<1>6. /\ T \in Seq(Nat) /\ Len(T) = m /\ DOMAIN T = 1 .. m
      /\ \A i \in 1 .. m : T[i] = L[i + 1]
  <2>1. /\ T \in Seq(Nat) /\ Len(T) = Len(L) - 1
        /\ \A i \in 1 .. Len(T) : T[i] = L[i + 1]
    BY <1>1, <1>5, HeadTailProperties
  <2>2. Len(T) = m
    BY <1>2, <1>4, <2>1
  <2> QED BY <2>1, <2>2, LenProperties
<1>7. Increasing(T)
  BY <1>1, <1>2, <1>4, <1>6 DEF Increasing
<1>8. \A i \in 1 .. m : L[1] < L[i + 1]
  BY <1>1, <1>2, <1>3, <1>4 DEF Increasing
<1>9. ToSet(T) = ToSet(L) \ {L[1]}
  <2>1. ASSUME NEW x \in ToSet(T) PROVE x \in ToSet(L) /\ x # L[1]
    <3>1. PICK i \in 1 .. m : x = L[i + 1]
      BY <1>6 DEF ToSet
    <3>2. i + 1 \in 1 .. n
      BY <1>4
    <3>3. L[1] \in Nat /\ x \in Nat /\ L[1] < x
      BY <1>1, <1>2, <1>3, <1>8, <3>1, <3>2, ElementOfSeq
    <3> QED BY <1>2, <3>1, <3>2, <3>3 DEF ToSet
  <2>2. ASSUME NEW x \in ToSet(L), x # L[1] PROVE x \in ToSet(T)
    <3>1. PICK i \in 1 .. n : x = L[i]
      BY <1>2 DEF ToSet
    <3>2. PICK k \in Int : k = i - 1
      OBVIOUS
    <3>3. k \in 1 .. m /\ k + 1 = i
      BY <1>4, <2>2, <3>1, <3>2
    <3> QED BY <1>6, <3>1, <3>3 DEF ToSet
  <2> QED BY <2>1, <2>2
<1>10. L[1] \in ToSet(L)
  BY <1>2, <1>3 DEF ToSet
<1> QED
  BY <1>1, <1>3, <1>5, <1>6, <1>7, <1>9, <1>10 DEF Listed

(* x put after the first p elements, which are those below it. *)
Below(L, p, n, x) ==
  /\ \A j \in 1 .. p : L[j] < x
  /\ \A j \in p + 1 .. n : x < L[j]

LEMMA SortedInsert ==
  ASSUME NEW L \in Seq(Nat), Increasing(L), NEW p \in Nat, p <= Len(L), NEW x \in Nat,
         Below(L, p, Len(L), x), NEW M, Spliced(Nat, L, p, p, x, M)
  PROVE  /\ M \in Seq(Nat)
         /\ Increasing(M)
         /\ ToSet(M) = ToSet(L) \cup {x}
<1>1. PICK n \in Nat : n = Len(L) /\ DOMAIN L = 1 .. n
  BY LenProperties
<1>2. \A j \in 1 .. n : L[j] \in Nat
  BY <1>1, ElementOfSeq
<1>11. p <= n
  BY <1>1
<1>3. /\ M \in Seq(Nat) /\ Len(M) = n + 1 /\ DOMAIN M = 1 .. n + 1
      /\ \A j \in 1 .. p : M[j] = L[j]
      /\ M[p + 1] = x
      /\ \A j \in 1 .. n - p : M[p + 1 + j] = L[p + j]
  <2>1. /\ M \in Seq(Nat) /\ Len(M) = p + 1 + (n - p)
        /\ \A j \in 1 .. p : M[j] = L[j]
        /\ M[p + 1] = x
        /\ \A j \in 1 .. n - p : M[p + 1 + j] = L[p + j]
    BY <1>1 DEF Spliced
  <2>2. Len(M) = n + 1
    BY <2>1
  <2> QED BY <2>1, <2>2, LenProperties
<1>4. \A j \in p + 2 .. n + 1 : M[j] = L[j - 1]
  <2> SUFFICES ASSUME NEW j \in p + 2 .. n + 1 PROVE M[j] = L[j - 1]
    OBVIOUS
  <2>1. PICK k \in Int : k = j - p - 1
    OBVIOUS
  <2>2. k \in 1 .. n - p /\ p + 1 + k = j /\ p + k = j - 1
    BY <2>1
  <2>3. M[p + 1 + k] = L[p + k]
    BY <1>3, <2>2
  <2> QED BY <2>2, <2>3
<1>5. /\ \A j \in 1 .. p : L[j] < x
      /\ \A j \in p + 1 .. n : x < L[j]
  BY <1>1 DEF Below
<1>6. ASSUME NEW i \in 1 .. n + 1, NEW j \in 1 .. n + 1, i < j PROVE M[i] < M[j]
  <2>1. \A k, l \in 1 .. n : k < l => L[k] < L[l]
    BY <1>1 DEF Increasing
  <2>2. CASE j <= p
    <3>1. i \in 1 .. p /\ j \in 1 .. p /\ i \in 1 .. n /\ j \in 1 .. n
      BY <1>6, <1>11, <2>2
    <3> QED BY <1>3, <1>6, <2>1, <3>1
  <2>3. CASE j = p + 1
    BY <1>3, <1>5, <1>6, <2>3, SMTT(30)
  <2>4. CASE j > p + 1
    <3>1. PICK l \in Int : l = j - 1
      OBVIOUS
    <3>2. l \in p + 1 .. n /\ l \in 1 .. n /\ M[j] = L[l]
      BY <1>4, <2>4, <3>1
    <3>3. CASE i <= p
      <4>1. i \in 1 .. p /\ i \in 1 .. n /\ i < l
        BY <1>11, <3>2, <3>3
      <4> QED BY <1>3, <2>1, <3>2, <4>1
    <3>4. CASE i = p + 1
      BY <1>3, <1>5, <3>2, <3>4
    <3>5. CASE i > p + 1
      <4>1. PICK k \in Int : k = i - 1
        OBVIOUS
      <4>2. k \in 1 .. n /\ k < l /\ M[i] = L[k]
        BY <1>4, <1>6, <3>1, <3>5, <4>1
      <4> QED BY <2>1, <3>2, <4>2
    <3> QED BY <3>3, <3>4, <3>5
  <2> QED BY <2>2, <2>3, <2>4
<1>7. Increasing(M)
  BY <1>3, <1>6 DEF Increasing
<1>8. ASSUME NEW y \in ToSet(M) PROVE y \in ToSet(L) \cup {x}
  <2>1. PICK j \in 1 .. n + 1 : y = M[j]
    BY <1>3 DEF ToSet
  <2>2. CASE j <= p
    <3>1. j \in 1 .. p /\ j \in 1 .. n
      BY <1>11, <2>2
    <3> QED BY <1>1, <1>3, <2>1, <3>1 DEF ToSet
  <2>3. CASE j = p + 1
    BY <1>3, <2>1, <2>3
  <2>4. CASE j > p + 1
    <3>1. PICK l \in Int : l = j - 1
      OBVIOUS
    <3>2. l \in 1 .. n /\ M[j] = L[l]
      BY <1>4, <2>4, <3>1
    <3> QED BY <1>1, <2>1, <3>2 DEF ToSet
  <2> QED BY <2>2, <2>3, <2>4
<1>9. ASSUME NEW y \in ToSet(L) PROVE y \in ToSet(M)
  <2>1. PICK j \in 1 .. n : y = L[j]
    BY <1>1 DEF ToSet
  <2>2. CASE j <= p
    <3>1. j \in 1 .. p /\ j \in 1 .. n + 1
      BY <2>2
    <3>2. M[j] = y
      BY <1>3, <2>1, <3>1
    <3> QED BY <1>3, <3>1, <3>2 DEF ToSet
  <2>3. CASE j > p
    <3>1. PICK l \in Int : l = j + 1
      OBVIOUS
    <3>2. l \in p + 2 .. n + 1 /\ l \in 1 .. n + 1 /\ l - 1 = j
      BY <2>3, <3>1
    <3>3. M[l] = y
      BY <1>4, <2>1, <3>2
    <3> QED BY <1>3, <3>2, <3>3 DEF ToSet
  <2> QED BY <2>2, <2>3
<1>10. x \in ToSet(M)
  <2>1. p + 1 \in 1 .. n + 1
    BY <1>1
  <2> QED BY <1>3, <2>1 DEF ToSet
<1> QED
  BY <1>3, <1>7, <1>8, <1>9, <1>10

LEMMA AppendSpliced ==
  ASSUME NEW L \in Seq(Nat), NEW x \in Nat
  PROVE  Spliced(Nat, L, Len(L), Len(L), x, Append(L, x))
<1>1. PICK n \in Nat : n = Len(L)
  BY LenProperties
<1>2. PICK M : M = Append(L, x)
  OBVIOUS
<1>3. M \in Seq(Nat) /\ Len(M) = n + 1 /\ M[n + 1] = x /\ \A j \in 1 .. n : M[j] = L[j]
  BY <1>1, <1>2, AppendProperties
<1>4. Spliced(Nat, L, n, n, x, M)
  BY <1>1, <1>3 DEF Spliced
<1> QED BY <1>1, <1>2, <1>4

(* mem_pool_free puts the node where the order of addresses wants it. *)
LEMMA GiveBack ==
  ASSUME PoolInv, NEW blk \in held
  PROVE  Listed(PutBack(blk), ToSet(pool.nodes), held \ {blk})
<1>1. PICK N : N = ToSet(pool.nodes)
  OBVIOUS
<1>2. PICK L : L = free_list
  OBVIOUS
<1>3. /\ held \subseteq N /\ N \subseteq Nat /\ node_used = held
      /\ L \in Seq(Nat) /\ ToSet(L) = N \ held /\ Increasing(L)
  BY <1>1, <1>2 DEF PoolInv, Listed
<1>4. blk \in Nat
  BY <1>3
<1>5. PICK n \in Nat : n = Len(L) /\ DOMAIN L = 1 .. n
  BY <1>3, LenProperties
<1>6. \A j \in 1 .. n : L[j] \in Nat /\ L[j] \in N \ held /\ L[j] # blk
  <2>1. ASSUME NEW j \in 1 .. n PROVE L[j] \in N \ held
    BY <1>3, <1>5 DEF ToSet
  <2> QED BY <1>3, <2>1
<1>7. PICK later \in SUBSET Nat : later = {x \in N \ held : x > blk}
  BY <1>3
<1>8. ASSUME NEW p \in Nat, p <= n, Below(L, p, n, blk),
             NEW M, Spliced(Nat, L, p, p, blk, M)
      PROVE  Listed(M, N, held \ {blk})
  <2>1. p <= Len(L) /\ Below(L, p, Len(L), blk)
    BY <1>5, <1>8
  <2>2. M \in Seq(Nat) /\ Increasing(M) /\ ToSet(M) = ToSet(L) \cup {blk}
    BY <1>3, <1>4, <1>8, <2>1, SortedInsert
  <2>3. ToSet(M) = N \ (held \ {blk})
    BY <1>3, <2>2
  <2> QED BY <2>2, <2>3 DEF Listed
<1>9. CASE later = {}
  <2>1. PutBack(blk) = Append(L, blk)
    BY <1>1, <1>2, <1>3, <1>7, <1>9 DEF PutBack
  <2>2. Below(L, n, n, blk)
    <3>1. ASSUME NEW j \in 1 .. n PROVE L[j] < blk
      BY <1>4, <1>6, <1>7, <1>9
    <3> QED BY <3>1 DEF Below
  <2>3. Spliced(Nat, L, n, n, blk, PutBack(blk))
    BY <1>3, <1>4, <1>5, <2>1, AppendSpliced
  <2> QED BY <1>1, <1>8, <2>2, <2>3
<1>10. CASE later # {}
  <2>1. PICK least : least = Min(later)
    OBVIOUS
  <2>2. least \in later /\ \A y \in later : least <= y
    BY <1>7, <1>10, <2>1, MinIsLeast
  <2>3. least \in Nat /\ least \in N \ held /\ least > blk
    BY <1>7, <2>2
  <2>4. PICK I \in SUBSET Nat : I = {j \in 1 .. n : L[j] = least}
    <3>1. {j \in 1 .. n : L[j] = least} \in SUBSET Nat
      OBVIOUS
    <3> QED BY <3>1
  <2>5. I # {}
    BY <1>3, <1>5, <2>3, <2>4 DEF ToSet
  <2>6. PICK at : at = Min(I)
    OBVIOUS
  <2>7. at \in I
    BY <2>5, <2>6, MinIsLeast
  <2>8. at \in 1 .. n /\ L[at] = least
    BY <2>4, <2>7
  <2>9. PutBack(blk) = InsertAt(L, at, blk)
    <3>1. SelectInSeq(L, LAMBDA x : x = least) = at
      <4>1. {j \in 1 .. Len(L) : L[j] = least} = I
        BY <1>5, <2>4
      <4> QED BY <2>5, <2>6, <4>1 DEF SelectInSeq
    <3>2. later = {x \in ToSet(pool.nodes) \ node_used : x > blk}
      BY <1>1, <1>3, <1>7
    <3> QED BY <1>2, <1>10, <2>1, <3>1, <3>2 DEF PutBack
  <2>10. PICK p \in Nat : p = at - 1
    <3>1. at - 1 \in Nat
      BY <2>8
    <3> QED BY <3>1
  <2>11. p + 1 = at /\ p <= n
    BY <2>8, <2>10
  <2>12. PutBack(blk) = SpliceOf(L, p, p, blk)
    BY <2>9, <2>10, <2>11 DEF InsertAt, SpliceOf
  <2>13. PartOf(L, p, p)
    BY <1>5, <2>11 DEF PartOf
  <2>14. Spliced(Nat, L, p, p, blk, PutBack(blk))
    BY <1>3, <1>4, <2>12, <2>13, Splice
  <2>15. ASSUME NEW j \in 1 .. p PROVE L[j] < blk
    <3>1. j \in 1 .. n /\ j < at
      BY <2>8, <2>10
    <3>2. L[j] < least
      BY <1>3, <1>5, <2>8, <3>1 DEF Increasing
    <3>3. L[j] \notin later
      BY <1>6, <2>2, <2>3, <3>1, <3>2
    <3> QED BY <1>4, <1>6, <1>7, <3>1, <3>3
  <2>16. ASSUME NEW j \in p + 1 .. n PROVE blk < L[j]
    <3>1. j \in 1 .. n /\ (j = at \/ at < j)
      BY <2>8, <2>11
    <3>2. j = at \/ least < L[j]
      BY <1>3, <1>5, <2>8, <3>1 DEF Increasing
    <3> QED BY <1>4, <1>6, <2>3, <2>8, <3>1, <3>2
  <2>17. Below(L, p, n, blk)
    BY <2>15, <2>16 DEF Below
  <2> QED BY <1>1, <1>8, <2>11, <2>14, <2>17
<1> QED
  BY <1>9, <1>10

-----------------------------------------------------------------------------
(* How pool_apart lays out the nodes.                                      *)
LEMMA Steps ==
  ASSUME NEW i \in Nat, NEW m \in Nat, i < m, NEW a \in Nat
  PROVE  i * a \in Nat /\ m * a \in Nat /\ i * a + a <= m * a
<1>1. PICK d \in Nat : m = i + 1 + d
  <2>1. m - i - 1 \in Nat
    OBVIOUS
  <2>2. m = i + 1 + (m - i - 1)
    OBVIOUS
  <2> QED BY <2>1, <2>2
<1>2. m * a = i * a + a + d * a
  BY <1>1
<1>3. i * a \in Nat /\ d * a \in Nat
  OBVIOUS
<1> QED BY <1>2, <1>3

LEMMA ApartFacts ==
  ASSUME NEW size \in Nat
  PROVE  ApartSize(size) \in Nat /\ ApartSize(size) >= size + 32
<1>1. size + 32 \in Nat
  OBVIOUS
<1> QED BY <1>1, Rounding DEF ApartSize, node_struct_size

LEMMA TotalFacts ==
  ASSUME NEW size \in Nat, NEW amount \in Nat
  PROVE  TotalSize(size, amount) \in Nat
  BY ApartFacts DEF TotalSize, head_struct_size

(* The nodes of a pool of amount blocks of a bytes, from address z. *)
Nodes(z, amount, a) == [i \in 1 .. amount |-> z + (i - 1) * a]

LEMMA NodesFacts ==
  ASSUME NEW z \in Nat, NEW amount \in Nat, NEW a \in Nat, a >= 32
  PROVE  /\ ToSet(Nodes(z, amount, a)) \subseteq Nat
         /\ Listed(Nodes(z, amount, a), ToSet(Nodes(z, amount, a)), {})
<1>1. PICK L : L = Nodes(z, amount, a)
  OBVIOUS
<1>2. ASSUME NEW i \in 1 .. amount PROVE L[i] = z + (i - 1) * a /\ z + (i - 1) * a \in Nat
  <2>1. i - 1 \in Nat
    OBVIOUS
  <2>2. (i - 1) * a \in Nat
    BY <2>1
  <2> QED BY <1>1, <2>2 DEF Nodes
<1>3. L \in Seq(Nat) /\ Len(L) = amount /\ DOMAIN L = 1 .. amount
  <2>1. L = [i \in 1 .. amount |-> L[i]]
    BY <1>1 DEF Nodes
  <2>2. \A i \in 1 .. amount : L[i] \in Nat
    BY <1>2
  <2>3. L \in [1 .. amount -> Nat]
    BY <2>1, <2>2
  <2>4. L \in Seq(Nat)
    BY <2>3, SeqDef
  <2> QED BY <2>3, <2>4, LenProperties
<1>4. ASSUME NEW i \in 1 .. amount, NEW j \in 1 .. amount, i < j PROVE L[i] < L[j]
  <2>1. PICK i0 \in Nat, j0 \in Nat : i0 = i - 1 /\ j0 = j - 1
    <3>1. i - 1 \in Nat /\ j - 1 \in Nat
      OBVIOUS
    <3> QED BY <3>1
  <2>2. i0 < j0
    BY <1>4, <2>1
  <2>3. i0 * a \in Nat /\ j0 * a \in Nat /\ i0 * a + a <= j0 * a
    BY <2>2, Steps
  <2>4. L[i] = z + i0 * a /\ L[j] = z + j0 * a
    BY <1>2, <2>1
  <2> QED BY <2>3, <2>4
<1>5. Increasing(L)
  BY <1>3, <1>4 DEF Increasing
<1>6. ToSet(L) \subseteq Nat
  BY <1>2, <1>3, SMTT(30) DEF ToSet
<1> QED
  BY <1>1, <1>3, <1>5, <1>6 DEF Listed

-----------------------------------------------------------------------------
(* The invariant holds initially and every step keeps it.                  *)
LEMMA PoolArguments ==
  /\ \A size \in PoolSizes : size \in Nat
  /\ \A amount \in PoolAmounts : amount \in Nat \ {0}
<1>1. \A m \in Int : 0 .. m - 1 \subseteq Nat
  OBVIOUS
<1>2. 2^16 \in Int
  OBVIOUS
<1>3. 0 .. 2^16 - 1 \subseteq Nat
  BY <1>1, <1>2
<1>4. 2 .. 255 \subseteq Nat \ {0}
  OBVIOUS
<1> QED
  BY <1>3, <1>4, MemPoolAssumption

LEMMA NoNodes ==
  /\ NoPool.nodes = <<>>
  /\ ToSet(<<>>) = {}
  /\ Listed(<<>>, {}, {})
<1>1. ToSet(<<>>) = {}
  BY DEF ToSet
<1>2. <<>> \in Seq(Nat)
  OBVIOUS
<1> QED BY <1>1, <1>2 DEF NoPool, Listed, Increasing

LEMMA PoolInvInit == PoolInit => PoolInv
  BY HeapInvInit, NoNodes DEF PoolInit, PoolInv

LEMMA PoolHeapStep ==
  ASSUME PoolInv, PoolNext
  PROVE  HeapInv'
<1>1. HeapInv
  BY DEF PoolInv
<1>2. CASE OtherUser
  BY <1>1, <1>2, HeapInvStep, HeapAssumption DEF OtherUser, HeapNext
<1>3. ASSUME NEW size \in PoolSizes, NEW amount \in PoolAmounts,
             mem_pool_create(size, amount) \/ CreateFails(size, amount)
      PROVE  HeapInv'
  <2>1. TotalSize(size, amount) \in Nat
    BY PoolArguments, TotalFacts
  <2>2. heap_malloc(TotalSize(size, amount)) \/ MallocFails(TotalSize(size, amount))
    BY <1>3 DEF mem_pool_create, CreateFails
  <2> QED BY <1>1, <2>1, <2>2, HeapInvStep DEF HeapNext
<1>4. CASE mem_pool_alloc
  BY <1>1, <1>4, HeapInvStep DEF mem_pool_alloc
<1>5. ASSUME NEW blk \in held, mem_pool_free(blk) PROVE HeapInv'
  BY <1>1, <1>5, HeapInvStep DEF mem_pool_free
<1>6. CASE mem_pool_delete
  <2>1. heap_free(pool.block)
    BY <1>6 DEF mem_pool_delete
  <2>2. pool.block \in live
    BY <2>1 DEF heap_free
  <2> QED BY <1>1, <2>1, <2>2, HeapInvStep DEF HeapNext
<1> QED
  BY <1>2, <1>3, <1>4, <1>5, <1>6 DEF PoolNext

LEMMA CreateStep ==
  ASSUME PoolInv, HeapInv', NEW size \in PoolSizes, NEW amount \in PoolAmounts,
         mem_pool_create(size, amount)
  PROVE  PoolInv'
<1>1. size \in Nat /\ amount \in Nat \ {0}
  BY PoolArguments
<1>2. PICK total : total = TotalSize(size, amount)
  OBVIOUS
<1>3. PICK b \in live' \ live : pool' = PoolIn(b, size, amount)
  BY DEF mem_pool_create
<1>4. b.req = total
  <2>1. heap_malloc(total)
    BY <1>2 DEF mem_pool_create
  <2>2. \A c \in live' : c \in live \/ c.req = total
    BY <2>1 DEF heap_malloc
  <2> QED BY <1>3, <2>2
<1>5. live' \subseteq LiveBlock
  BY DEF HeapInv, HeapTypeOK, LiveBlock
<1>6. b \in LiveBlock /\ b.addr \in Nat
  BY <1>3, <1>5, BlockFields
<1>7. PICK a : a = ApartSize(size)
  OBVIOUS
<1>8. a \in Nat /\ a >= 32
  BY <1>1, <1>7, ApartFacts
<1>9. PICK z \in Nat : z = b.addr + heap_struct_size + head_struct_size
  BY <1>6 DEF heap_struct_size, head_struct_size
<1>10. /\ pool'.block = b /\ pool'.size = size
       /\ pool'.nodes = Nodes(z, amount, a)
  BY <1>3, <1>7, <1>9 DEF PoolIn, Nodes
<1>11. LaidOut(pool)'
  <2>1. /\ pool'.block \in LiveBlock /\ pool'.size \in Nat
        /\ pool'.block.req = TotalSize(pool'.size, amount)
        /\ pool'.nodes = [i \in 1 .. amount |->
             pool'.block.addr + heap_struct_size + head_struct_size
               + (i - 1) * ApartSize(pool'.size)]
    BY <1>1, <1>2, <1>4, <1>6, <1>7, <1>9, <1>10 DEF Nodes
  <2> QED BY <1>1, <2>1 DEF LaidOut
<1>12. /\ ToSet(pool'.nodes) \subseteq Nat
       /\ Listed(pool'.nodes, ToSet(pool'.nodes), {})
  BY <1>1, <1>8, <1>10, NodesFacts
<1>13. free_list' = pool'.nodes /\ node_used' = {} /\ held' = {}
  BY DEF mem_pool_create
<1>14. pool'.block \in live'
  BY <1>3, <1>10
<1> QED
  BY <1>11, <1>12, <1>13, <1>14 DEF PoolInv

LEMMA AllocStep ==
  ASSUME PoolInv, HeapInv', mem_pool_alloc
  PROVE  PoolInv'
<1>1. PICK N : N = ToSet(pool.nodes)
  OBVIOUS
<1>2. PICK h : h = Head(free_list)
  OBVIOUS
<1>3. /\ N \subseteq Nat /\ held \subseteq N /\ node_used = held
      /\ Listed(free_list, N, held) /\ free_list # <<>>
  BY <1>1 DEF PoolInv, mem_pool_alloc
<1>4. h \in N \ held /\ Listed(Tail(free_list), N, held \cup {h})
  BY <1>2, <1>3, TakeFirst
<1>5. /\ free_list' = Tail(free_list) /\ node_used' = held \cup {h}
      /\ held' = held \cup {h} /\ pool' = pool /\ live' = live
  BY <1>2, <1>3, <1>4 DEF mem_pool_alloc, heapVars
<1>6. ToSet(pool'.nodes) = N
  BY <1>1, <1>5
<1>7. pool' # NoPool => LaidOut(pool)' /\ pool'.block \in live'
  BY <1>5 DEF PoolInv
<1> QED
  BY <1>3, <1>4, <1>5, <1>6, <1>7 DEF PoolInv

LEMMA FreeStep ==
  ASSUME PoolInv, HeapInv', NEW blk \in held, mem_pool_free(blk)
  PROVE  PoolInv'
<1>1. PICK N : N = ToSet(pool.nodes)
  OBVIOUS
<1>2. /\ N \subseteq Nat /\ held \subseteq N /\ node_used = held
  BY <1>1 DEF PoolInv
<1>3. Listed(PutBack(blk), N, held \ {blk})
  BY <1>1, GiveBack
<1>4. /\ free_list' = PutBack(blk) /\ node_used' = held \ {blk}
      /\ held' = held \ {blk} /\ pool' = pool /\ live' = live
  BY <1>2 DEF mem_pool_free, heapVars
<1>5. ToSet(pool'.nodes) = N
  BY <1>1, <1>4
<1>6. pool' # NoPool => LaidOut(pool)' /\ pool'.block \in live'
  BY <1>4 DEF PoolInv
<1> QED
  BY <1>2, <1>3, <1>4, <1>5, <1>6 DEF PoolInv

LEMMA PoolKept ==
  ASSUME PoolInv, HeapInv', UNCHANGED poolVars,
         pool # NoPool => pool.block \in live'
  PROVE  PoolInv'
<1>1. pool' = pool /\ free_list' = free_list /\ node_used' = node_used /\ held' = held
  BY DEF poolVars
<1>2. ToSet(pool'.nodes) = ToSet(pool.nodes)
  BY <1>1
<1>3. Listed(free_list', ToSet(pool'.nodes), held')
  BY <1>1, <1>2 DEF PoolInv
<1>4. pool' # NoPool => LaidOut(pool)' /\ pool'.block \in live'
  BY <1>1 DEF PoolInv
<1> QED
  BY <1>1, <1>2, <1>3, <1>4 DEF PoolInv

LEMMA PoolInvStep == PoolInv /\ [PoolNext]_<<heapVars, poolVars>> => PoolInv'
<1> SUFFICES ASSUME PoolInv, [PoolNext]_<<heapVars, poolVars>> PROVE PoolInv'
  OBVIOUS
<1>1. CASE PoolNext
  <2>1. HeapInv'
    BY <1>1, PoolHeapStep
  <2>2. ASSUME NEW req \in Nat, heap_malloc(req) \/ MallocFails(req) PROVE live \subseteq live'
    BY <2>2 DEF heap_malloc, MallocFails
  <2>3. CASE OtherUser
    <3>1. pool # NoPool => pool.block \in live
      BY DEF PoolInv
    <3>2. CASE \E req \in HeapRequests : heap_malloc(req) \/ MallocFails(req)
      <4>1. live \subseteq live'
        BY <2>2, <3>2, HeapAssumption
      <4> QED BY <2>1, <2>3, <3>1, <4>1, PoolKept DEF OtherUser
    <3>3. CASE \E b \in live \ {pool.block} : heap_free(b)
      <4>1. \E b \in live \ {pool.block} : live' = live \ {b}
        BY <3>3 DEF heap_free
      <4> QED BY <2>1, <2>3, <3>1, <4>1, PoolKept DEF OtherUser
    <3> QED BY <2>3, <3>2, <3>3 DEF OtherUser
  <2>4. ASSUME NEW size \in PoolSizes, NEW amount \in PoolAmounts,
               mem_pool_create(size, amount)
        PROVE  PoolInv'
    BY <2>1, <2>4, CreateStep
  <2>5. ASSUME NEW size \in PoolSizes, NEW amount \in PoolAmounts,
               CreateFails(size, amount)
        PROVE  PoolInv'
    BY <2>1, <2>5, PoolKept DEF CreateFails
  <2>6. CASE mem_pool_alloc
    BY <2>1, <2>6, AllocStep
  <2>7. ASSUME NEW blk \in held, mem_pool_free(blk) PROVE PoolInv'
    BY <2>1, <2>7, FreeStep
  <2>8. CASE mem_pool_delete
    BY <2>1, <2>8, NoNodes DEF mem_pool_delete, PoolInv
  <2> QED
    BY <1>1, <2>3, <2>4, <2>5, <2>6, <2>7, <2>8 DEF PoolNext
<1>2. CASE UNCHANGED <<heapVars, poolVars>>
  <2>1. HeapInv' /\ live' = live /\ UNCHANGED poolVars
    BY <1>2, HeapInvStep DEF PoolInv, heapVars
  <2> QED BY <2>1, PoolKept DEF PoolInv
<1> QED
  BY <1>1, <1>2

LEMMA PoolInvariant == PoolSpec => []PoolInv
  BY PoolInvInit, PoolInvStep, PTL DEF PoolSpec

-----------------------------------------------------------------------------
(* What the invariant says.                                                *)
LEMMA InvPoolListExact == PoolInv => PoolListExact
<1> SUFFICES ASSUME PoolInv PROVE PoolListExact
  OBVIOUS
<1>1. Listed(free_list, ToSet(pool.nodes), held)
  BY DEF PoolInv
<1>2. /\ free_list \in Seq(Nat) /\ Increasing(free_list)
      /\ ToSet(free_list) = ToSet(pool.nodes) \ held
  BY <1>1 DEF Listed
<1>3. Len(free_list) \in Nat
  BY <1>2, LenProperties
<1> QED
  BY <1>2, <1>3, SMTT(30) DEF PoolListExact, Increasing

(* Where the bytes at p of a pool lie: in its head, or in the struct or    *)
(* the block of its node number k, counted from 0.                         *)
InSlot(p, z, k, a, size) ==
  p = <<z + k * a, 32>> \/ p = <<z + k * a + 32, size>>

Clear(p, q) == p[1] + p[2] <= q[1] \/ q[1] + q[2] <= p[1]

LEMMA SlotFacts ==
  ASSUME NEW z \in Nat, NEW size \in Nat, NEW a \in Nat, a >= size + 32,
         NEW k \in Nat, NEW p, InSlot(p, z, k, a, size)
  PROVE  /\ p[1] \in Nat /\ p[2] \in Nat
         /\ z + k * a <= p[1]
         /\ p[1] + p[2] <= z + k * a + a
<1>1. k * a \in Nat
  OBVIOUS
<1>2. PICK c \in Nat : c = k * a
  BY <1>1
<1>3. p = <<z + c, 32>> \/ p = <<z + c + 32, size>>
  BY <1>2 DEF InSlot
<1> QED
  BY <1>2, <1>3

LEMMA SlotsClear ==
  ASSUME NEW z \in Nat, NEW size \in Nat, NEW a \in Nat, a >= size + 32,
         NEW k \in Nat, NEW p, InSlot(p, z, k, a, size),
         NEW l \in Nat, NEW q, InSlot(q, z, l, a, size)
  PROVE  p = q \/ Clear(p, q)
<1>1. /\ p[1] \in Nat /\ p[2] \in Nat /\ z + k * a <= p[1] /\ p[1] + p[2] <= z + k * a + a
      /\ q[1] \in Nat /\ q[2] \in Nat /\ z + l * a <= q[1] /\ q[1] + q[2] <= z + l * a + a
  BY SlotFacts
<1>2. PICK c \in Nat, d \in Nat : c = k * a /\ d = l * a
  <2>1. k * a \in Nat /\ l * a \in Nat
    OBVIOUS
  <2> QED BY <2>1
<1>3. CASE k < l
  <2>1. c + a <= d
    BY <1>2, <1>3, Steps
  <2> QED BY <1>1, <1>2, <2>1 DEF Clear
<1>4. CASE l < k
  <2>1. d + a <= c
    BY <1>2, <1>4, Steps
  <2> QED BY <1>1, <1>2, <2>1 DEF Clear
<1>5. CASE k = l
  <2>1. /\ p = <<z + c, 32>> \/ p = <<z + c + 32, size>>
        /\ q = <<z + c, 32>> \/ q = <<z + c + 32, size>>
    BY <1>2, <1>5 DEF InSlot
  <2> QED BY <1>2, <2>1 DEF Clear
<1> QED
  BY <1>3, <1>4, <1>5

LEMMA InvPoolBytesApart == PoolInv => PoolBytesApart
<1> SUFFICES ASSUME PoolInv, pool # NoPool PROVE PoolBytesApart
  BY DEF PoolBytesApart
<1>1. LaidOut(pool) /\ pool.block \in live /\ HeapInv
  BY DEF PoolInv
<1>2. PICK pb : pb = pool.block
  OBVIOUS
<1>3. PICK size \in Nat : size = pool.size
  BY <1>1 DEF LaidOut
<1>4. PICK a \in Nat : a = ApartSize(size) /\ a >= size + 32
  BY ApartFacts
<1>5. pb \in live /\ pb.addr \in Nat /\ pb.size \in Nat /\ pb.req \in Nat
  BY <1>1, <1>2, BlockFields DEF LaidOut
<1>6. PICK base \in Nat : base = pb.addr + 16
  BY <1>5
<1>7. PICK z \in Nat : z = base + 48
  OBVIOUS
<1>8. PICK amount \in Nat :
        /\ pb.req = amount * a + 48
        /\ pool.nodes = [i \in 1 .. amount |-> z + (i - 1) * a]
  <2>1. PICK amount \in Nat \ {0} :
          /\ pb.req = TotalSize(size, amount)
          /\ pool.nodes = [i \in 1 .. amount |->
               pb.addr + heap_struct_size + head_struct_size + (i - 1) * a]
    BY <1>1, <1>2, <1>3, <1>4 DEF LaidOut
  <2>2. z = pb.addr + heap_struct_size + head_struct_size
    BY <1>5, <1>6, <1>7 DEF heap_struct_size, head_struct_size
  <2>3. pb.req = amount * a + 48
    BY <1>4, <2>1 DEF TotalSize, head_struct_size
  <2>4. amount \in Nat
    OBVIOUS
  <2> QED BY <2>1, <2>2, <2>3, <2>4, Zenon
<1>9. \A n \in ToSet(pool.nodes) : \E k \in Nat : k < amount /\ n = z + k * a
  <2> SUFFICES ASSUME NEW n \in ToSet(pool.nodes)
               PROVE  \E k \in Nat : k < amount /\ n = z + k * a
    OBVIOUS
  <2>1. PICK i \in 1 .. amount : n = z + (i - 1) * a
    BY <1>8, ZenonT(40) DEF ToSet
  <2>2. PICK k \in Nat : k = i - 1
    <3>1. i - 1 \in Nat
      OBVIOUS
    <3> QED BY <3>1
  <2>3. k < amount /\ n = z + k * a
    BY <2>1, <2>2
  <2> QED BY <2>3
<1> DEFINE Parts == {<<base, 48>>}
                      \cup {<<n, 32>> : n \in ToSet(pool.nodes)}
                      \cup {<<n + 32, size>> : n \in ToSet(pool.nodes)}
<1>10. ASSUME NEW p \in Parts
       PROVE  \/ p = <<base, 48>>
              \/ \E k \in Nat : k < amount /\ InSlot(p, z, k, a, size)
  BY <1>9, <1>10 DEF InSlot
<1>11. ASSUME NEW p \in Parts
       PROVE  base <= p[1] /\ p[1] + p[2] <= base + pb.req
  <2>1. PICK t \in Nat : t = amount * a
    <3>1. amount * a \in Nat
      OBVIOUS
    <3> QED BY <3>1
  <2>2. base + pb.req = z + t
    BY <1>5, <1>7, <1>8, <2>1
  <2>3. CASE p = <<base, 48>>
    BY <1>7, <2>1, <2>2, <2>3
  <2>4. ASSUME NEW k \in Nat, k < amount, InSlot(p, z, k, a, size)
        PROVE  base <= p[1] /\ p[1] + p[2] <= base + pb.req
    <3>1. /\ p[1] \in Nat /\ p[2] \in Nat
          /\ z + k * a <= p[1] /\ p[1] + p[2] <= z + k * a + a
      BY <1>4, <2>4, SlotFacts
    <3>2. k * a \in Nat /\ k * a + a <= t
      BY <2>1, <2>4, Steps
    <3>3. PICK c \in Nat : c = k * a
      BY <3>2
    <3>4. z + c <= p[1] /\ p[1] + p[2] <= z + c + a /\ c + a <= t
      BY <3>1, <3>2, <3>3
    <3>5. base <= p[1] /\ p[1] + p[2] <= z + t
      BY <1>7, <2>1, <3>1, <3>4
    <3> QED BY <2>2, <3>5
  <2> QED BY <1>10, <2>3, <2>4
<1>12. ASSUME NEW p \in Parts, NEW q \in Parts
       PROVE  p = q \/ Clear(p, q)
  <2>1. CASE p = <<base, 48>> /\ q = <<base, 48>>
    BY <2>1
  <2>2. ASSUME NEW k \in Nat, NEW s, InSlot(s, z, k, a, size)
        PROVE  s[1] \in Nat /\ s[2] \in Nat /\ z <= s[1]
    <3>1. /\ s[1] \in Nat /\ s[2] \in Nat /\ z + k * a <= s[1]
      BY <1>4, <2>2, SlotFacts
    <3>2. k * a \in Nat
      OBVIOUS
    <3> QED BY <3>1, <3>2
  <2>3. ASSUME p = <<base, 48>>, NEW l \in Nat, InSlot(q, z, l, a, size)
        PROVE  Clear(p, q)
    BY <1>7, <2>2, <2>3 DEF Clear
  <2>4. ASSUME q = <<base, 48>>, NEW k \in Nat, InSlot(p, z, k, a, size)
        PROVE  Clear(p, q)
    BY <1>7, <2>2, <2>4 DEF Clear
  <2>5. ASSUME NEW k \in Nat, InSlot(p, z, k, a, size),
               NEW l \in Nat, InSlot(q, z, l, a, size)
        PROVE  p = q \/ Clear(p, q)
    BY <1>4, <2>5, SlotsClear
  <2> QED BY <1>10, <2>1, <2>3, <2>4, <2>5
<1>13. ASSUME NEW b \in live \ {pb}
       PROVE  b.addr + b.size <= pb.addr \/ pb.addr + pb.req + 16 <= b.addr
  <2>1. HeapShape(free, all_size, live)
    BY <1>1 DEF HeapInv
  <2>2. LiveOK(live)
    BY <2>1 DEF HeapShape
  <2>3. /\ b.addr \in Nat /\ b.size \in Nat /\ pb.req + 16 <= pb.size /\ Apart(b, pb)
    BY <1>5, <2>2, BlockFields DEF LiveOK, heap_struct_size
  <2> QED BY <1>5, <2>3 DEF Apart
<1>14. pool.block.addr + heap_struct_size = base /\ pool.block = pb
  BY <1>2, <1>6 DEF heap_struct_size
<1>15. Parts = {<<base, head_struct_size>>}
                 \cup {<<n, node_struct_size>> : n \in ToSet(pool.nodes)}
                 \cup {<<n + node_struct_size, pool.size>> : n \in ToSet(pool.nodes)}
  BY <1>3 DEF head_struct_size, node_struct_size
<1> HIDE DEF Parts
<1> QED
  BY <1>11, <1>12, <1>13, <1>14, <1>15 DEF PoolBytesApart, Clear, heap_struct_size

(* Whatever the pool's users and the other users of the heap do, the free  *)
(* list of a pool is its nodes that nobody holds, in address order.        *)
THEOREM PoolListIsExact == PoolSpec => []PoolListExact
  BY PoolInvariant, InvPoolListExact, PTL

(* The pool's head, the structs of its nodes and its users' blocks lie     *)
(* apart, inside the heap block mem_pool_create was given.                 *)
THEOREM PoolBytesAreApart == PoolSpec => []PoolBytesApart
  BY PoolInvariant, InvPoolBytesApart, PTL

(* With a pool among its users the heap keeps its own promises.            *)
THEOREM PoolKeepsHeap == PoolSpec => [](Tiled /\ FreeListExact /\ MetadataSafe)
<1>1. PoolInv => Tiled /\ FreeListExact /\ MetadataSafe
  BY InvTiled, InvListExact, InvMetadataSafe DEF PoolInv
<1> QED
  BY <1>1, PoolInvariant, PTL

-----------------------------------------------------------------------------
(* mg_alloc.c. *)
RegionSpec == RegionInit /\ [][RegionNext]_regionVars

-----------------------------------------------------------------------------
(* The inductive invariant, about pools P and the blocks G handed out.     *)
MemBit == [size : Nat, count : Nat, bitmask : SUBSET Nat]

(* A pool of class b has blocks of at least 2^b bytes. *)
PoolsOK(P) ==
  /\ P \in [Class -> Seq(MemBit)]
  /\ \A b \in Class : \A i \in 1 .. Len(P[b]) : P[b][i].size >= 2^b

(* The blocks of pool i of class b that callers have. *)
Used(G, b, i) == {x.idx : x \in {y \in G : y.class = b /\ y.pool = i}}

RegionFits(x) == x.req + HeaderSize < U32 => x.req + HeaderSize <= x.size

SameBlock(x, y) == x.class = y.class /\ x.pool = y.pool /\ x.idx = y.idx

GivenOK(P, G) ==
  /\ \A x \in G : x.class \in Class /\ x.pool \in 1 .. Len(P[x.class]) /\ RegionFits(x)
  /\ \A x, y \in G : SameBlock(x, y) => x = y
  /\ \A b \in Class : \A i \in 1 .. Len(P[b]) :
       P[b][i].bitmask = (0 .. P[b][i].count - 1) \ Used(G, b, i)

(* What a bump region has handed out lies below off. *)
BumpOK(G, n, c) ==
  /\ n \in Nat /\ c \in Nat /\ n <= c
  /\ \A x \in G : x.addr \in Nat /\ x.req \in Nat /\ x.addr + x.req <= n
  /\ \A x, y \in G : x = y \/ x.addr + x.req <= y.addr \/ y.addr + y.req <= x.addr

RegionInv ==
  /\ kind \in {"none", "pool", "bump"}
  /\ max_bits \in Class
  /\ kind = "none" => given = {} /\ pools = Empty
  /\ kind = "pool" => PoolsOK(pools) /\ GivenOK(pools, given)
  /\ kind = "bump" => BumpOK(given, off, cap)

-----------------------------------------------------------------------------
(* Powers of two, and the class of a request.                              *)
LEMMA Powers ==
  /\ 2^0 = 1 /\ 2^1 = 2 /\ 2^2 = 4 /\ 2^3 = 8 /\ 2^4 = 16 /\ 2^5 = 32
  /\ 2^6 = 64 /\ 2^7 = 128 /\ 2^8 = 256 /\ 2^9 = 512 /\ 2^10 = 1024
  /\ 2^11 = 2048 /\ 2^12 = 4096
  BY SMT

LEMMA LargePowers ==
  /\ 2^13 = 8192 /\ 2^14 = 16384 /\ 2^15 = 32768 /\ 2^16 = 65536
  /\ 2^17 = 131072 /\ 2^18 = 262144 /\ 2^19 = 524288 /\ 2^20 = 1048576
  /\ 2^21 = 2097152 /\ 2^22 = 4194304 /\ 2^23 = 8388608 /\ 2^24 = 16777216
  /\ 2^25 = 33554432 /\ 2^26 = 67108864 /\ 2^27 = 134217728
  /\ 2^28 = 268435456 /\ 2^29 = 536870912 /\ 2^30 = 1073741824
  /\ 2^31 = 2147483648 /\ 2^32 = 4294967296
  BY SMT

LEMMA U32Facts == U32 \in Nat /\ 40 < U32 /\ U32 <= 2^32
<1>1. U32 \in Nat /\ 40 < U32
  BY MgAssumption DEF MG_MIN_CLASS_BYTES, HeaderSize
<1>2. (U32 - 1) \div 65536 < 65536
  BY MgAssumption, LargePowers, SMT
<1>3. PICK u \in Nat : u = U32 - 1
  <2>1. U32 - 1 \in Nat
    BY <1>1, SMT
  <2> QED BY <2>1
<1>4. u = 65536 * (u \div 65536) + (u % 65536) /\ u % 65536 < 65536 /\ u \div 65536 \in Int
  BY <1>3, SMT
<1>5. u < 4294967296
  BY <1>2, <1>3, <1>4, SMT
<1> QED
  BY <1>1, <1>3, <1>5, LargePowers, SMT

(* next_power_of_two_index_u32 finds the class. *)
LEMMA PowerFound ==
  ASSUME NEW x \in Nat, 1 < x, x <= 2^32
  PROVE  PowerIndex(x) \in 1 .. 32 /\ x <= 2^PowerIndex(x)
<1>1. ASSUME NEW i \in 1 .. 32, NEW j \in Nat, j = i - 1, 2^j < x, x <= 2^i
      PROVE  \E k \in 1 .. 32 : 2^(k - 1) < x /\ x <= 2^k
  BY <1>1
<1>2. \E i \in 1 .. 32 : 2^(i - 1) < x /\ x <= 2^i
  <2>1. CASE x <= 2^12
    BY <1>1, <2>1, Powers, SMTT(30)
  <2>2. CASE 2^12 < x /\ x <= 2^22
    BY <1>1, <2>2, LargePowers, SMTT(30)
  <2>3. CASE 2^22 < x
    BY <1>1, <2>3, LargePowers, SMTT(30)
  <2> QED
    BY <2>1, <2>2, <2>3, SMT
<1>3. PICK i : i = PowerIndex(x)
  OBVIOUS
<1>4. i = CHOOSE j \in 1 .. 32 : 2^(j - 1) < x /\ x <= 2^j
  <2>1. ~(x <= 1)
    OBVIOUS
  <2> QED BY <1>3, <2>1, SMT DEF PowerIndex
<1>5. i \in 1 .. 32 /\ x <= 2^i
  BY <1>2, <1>4
<1> QED
  BY <1>3, <1>5

(* s is the size of class d. *)
HasSize(d, s) ==
  \/ d = 0 /\ s = 1
  \/ d = 1 /\ s = 2
  \/ d = 2 /\ s = 4
  \/ d = 3 /\ s = 8
  \/ d = 4 /\ s = 16
  \/ d = 5 /\ s = 32
  \/ d = 6 /\ s = 64
  \/ d = 7 /\ s = 128
  \/ d = 8 /\ s = 256
  \/ d = 9 /\ s = 512
  \/ d = 10 /\ s = 1024
  \/ d = 11 /\ s = 2048
  \/ d = 12 /\ s = 4096

LEMMA ClassSize ==
  ASSUME NEW d \in Class
  PROVE  HasSize(d, 2^d)
<1>1. d = 0 \/ d = 1 \/ d = 2 \/ d = 3 \/ d = 4 \/ d = 5 \/ d = 6
        \/ d = 7 \/ d = 8 \/ d = 9 \/ d = 10 \/ d = 11 \/ d = 12
  BY SMT DEF Class, MG_MAX_CLASS_BITS
<1>2. CASE d = 0
  BY <1>2 DEF HasSize
<1>3. CASE d = 1
  BY <1>3 DEF HasSize
<1>4. CASE d = 2
  BY <1>4 DEF HasSize
<1>5. CASE d = 3
  BY <1>5 DEF HasSize
<1>6. CASE d = 4
  BY <1>6 DEF HasSize
<1>7. CASE d = 5
  BY <1>7 DEF HasSize
<1>8. CASE d = 6
  BY <1>8 DEF HasSize
<1>9. CASE d = 7
  BY <1>9 DEF HasSize
<1>10. CASE d = 8
  BY <1>10 DEF HasSize
<1>11. CASE d = 9
  BY <1>11 DEF HasSize
<1>12. CASE d = 10
  BY <1>12 DEF HasSize
<1>13. CASE d = 11
  BY <1>13 DEF HasSize
<1>14. CASE d = 12
  BY <1>14 DEF HasSize
<1> QED
  BY <1>1, <1>2, <1>3, <1>4, <1>5, <1>6, <1>7, <1>8, <1>9, <1>10, <1>11, <1>12, <1>13, <1>14

LEMMA ClassesGrow ==
  ASSUME NEW b \in Class, NEW c \in Class, b <= c
  PROVE  2^b \in Nat /\ 2^c \in Nat /\ 2^b <= 2^c
<1>1. PICK x, y : x = 2^b /\ y = 2^c
  OBVIOUS
<1>2. HasSize(b, x) /\ HasSize(c, y)
  BY <1>1, ClassSize
<1> QED
  BY <1>1, <1>2, SMT DEF HasSize

LEMMA MaxOfTwo ==
  ASSUME NEW x \in Nat, NEW y \in Nat
  PROVE  Max({x, y}) \in Nat /\ x <= Max({x, y}) /\ (x <= y => Max({x, y}) = y)
           /\ (y <= x => Max({x, y}) = x)
<1>1. CASE x <= y
  <2>1. \E z \in {x, y} : \A w \in {x, y} : z >= w
    BY <1>1
  <2> QED BY <1>1, <2>1 DEF Max
<1>2. CASE y <= x
  <2>1. \E z \in {x, y} : \A w \in {x, y} : z >= w
    BY <1>2
  <2> QED BY <1>2, <2>1 DEF Max
<1> QED
  BY <1>1, <1>2

(* Unless (uint32_t)need cuts it off, a request fits its class. *)
LEMMA ClassFits ==
  ASSUME NEW req \in Nat
  PROVE  /\ ClassOf(req) \in Nat
         /\ req + 8 < U32 => req + 8 <= 2^ClassOf(req)
<1>1. PICK u \in Nat : u = U32 /\ 40 < u /\ u <= 2^32
  BY U32Facts
<1>2. PICK m \in Nat : m = Max({req, 32}) /\ req <= m /\ (m = req \/ m = 32)
  <2>1. req <= 32 \/ 32 <= req
    OBVIOUS
  <2> QED BY <2>1, MaxOfTwo
<1>3. PICK x \in Nat : x = (m + 8) % u /\ x < u
  <2>1. (m + 8) % u \in Nat /\ (m + 8) % u < u
    BY <1>1
  <2> QED BY <2>1
<1>4. ClassOf(req) = PowerIndex(x)
  BY <1>1, <1>2, <1>3 DEF ClassOf, HeaderSize, MG_MIN_CLASS_BYTES
<1>5. x <= 2^32
  <2>1. PICK t \in Int : t = 2^32
    OBVIOUS
  <2> QED BY <1>1, <1>3, <2>1, SMT
<1>6. PowerIndex(x) \in Nat
  <2>1. CASE x <= 1
    BY <2>1 DEF PowerIndex
  <2>2. CASE 1 < x
    <3>1. PowerIndex(x) \in 1 .. 32
      BY <1>5, <2>2, PowerFound
    <3> QED BY <3>1
  <2> QED BY <2>1, <2>2
<1>7. ASSUME req + 8 < u PROVE req + 8 <= 2^PowerIndex(x)
  <2>1. m + 8 < u
    BY <1>1, <1>2, <1>7
  <2>2. x = m + 8
    BY <1>1, <1>3, <2>1
  <2>3. 1 < x /\ req + 8 <= x
    BY <1>2, <2>2
  <2>4. x <= 2^PowerIndex(x)
    BY <1>5, <2>3, PowerFound
  <2>5. 2^PowerIndex(x) \in Int
    BY <1>6
  <2> QED BY <2>3, <2>4, <2>5
<1> QED
  BY <1>1, <1>4, <1>6, <1>7

(* mg_region_alloc_class takes one of the pools it looks through. *)
LEMMA FirstFoundIn ==
  ASSUME NEW n \in Nat, NEW C, C \subseteq Nat \X (1 .. n), C # {}
  PROVE  FirstFound(C) \in C
<1>1. PICK A \in SUBSET Nat : A = {x[1] : x \in C}
  <2>1. {x[1] : x \in C} \in SUBSET Nat
    OBVIOUS
  <2> QED BY <2>1
<1>2. PICK b \in A : \A c \in A : b <= c
  <2>1. A # {}
    BY <1>1
  <2> QED BY <2>1, LeastNumber
<1>3. PICK B \in SUBSET Nat : B = {n - x[2] : x \in {y \in C : y[1] = b}}
  <2>1. \A x \in C : n - x[2] \in Nat
    OBVIOUS
  <2>2. {n - x[2] : x \in {y \in C : y[1] = b}} \in SUBSET Nat
    BY <2>1
  <2> QED BY <2>2
<1>4. B # {}
  BY <1>1, <1>2, <1>3
<1>5. PICK d \in B : \A e \in B : d <= e
  BY <1>3, <1>4, LeastNumber
<1>6. PICK x \in C : x[1] = b /\ d = n - x[2]
  BY <1>3, <1>5
<1>7. ASSUME NEW y \in C PROVE x[1] < y[1] \/ (x[1] = y[1] /\ x[2] >= y[2])
  <2>1. y[1] \in A /\ b <= y[1] /\ y[1] \in Nat /\ y[2] \in Nat /\ x[2] \in Nat
    BY <1>1, <1>2
  <2>2. CASE y[1] = b
    <3>1. n - y[2] \in B
      BY <1>3, <2>2
    <3>2. d <= n - y[2]
      BY <1>5, <3>1
    <3> QED BY <1>6, <2>1, <2>2, <3>2
  <2>3. CASE y[1] # b
    BY <1>2, <1>6, <2>1, <2>3
  <2> QED BY <2>2, <2>3
<1>8. \E z \in C : \A y \in C : z[1] < y[1] \/ (z[1] = y[1] /\ z[2] >= y[2])
  BY <1>6, <1>7, Zenon
<1> QED
  BY <1>8, Zenon DEF FirstFound

-----------------------------------------------------------------------------
(* One more block handed out, from pool i of class b.                      *)
Changed(P, Q, b, i) ==
  /\ i \in 1 .. Len(Q[b])
  /\ \A c \in Class : \A j \in 1 .. Len(P[c]) : j \in 1 .. Len(Q[c])
  /\ \A c \in Class : \A j \in 1 .. Len(Q[c]) :
       (c # b \/ j # i) => j \in 1 .. Len(P[c]) /\ Q[c][j] = P[c][j]

LEMMA GiveOne ==
  ASSUME NEW P, NEW G, GivenOK(P, G), NEW Q, NEW b \in Class, NEW i, Changed(P, Q, b, i),
         NEW x, x.class = b, x.pool = i, RegionFits(x), x.idx \notin Used(G, b, i),
         Q[b][i].bitmask = (0 .. Q[b][i].count - 1) \ (Used(G, b, i) \cup {x.idx})
  PROVE  GivenOK(Q, G \cup {x})
<1> DEFINE H == G \cup {x}
<1>1. \A y \in H : y.class \in Class /\ y.pool \in 1 .. Len(Q[y.class]) /\ RegionFits(y)
  BY DEF GivenOK, Changed
<1>2. ASSUME NEW y \in H, NEW z \in H, SameBlock(y, z) PROVE y = z
  <2>1. ASSUME NEW w \in G PROVE ~SameBlock(w, x)
    BY <2>1 DEF Used, SameBlock
  <2>2. \A w \in G : ~SameBlock(x, w)
    BY <2>1 DEF SameBlock
  <2> QED BY <1>2, <2>1, <2>2 DEF GivenOK
<1>3. ASSUME NEW c \in Class, NEW j \in 1 .. Len(Q[c])
      PROVE  Q[c][j].bitmask = (0 .. Q[c][j].count - 1) \ Used(H, c, j)
  <2>1. CASE c = b /\ j = i
    <3>1. Used(H, c, j) = Used(G, b, i) \cup {x.idx}
      BY <2>1 DEF Used
    <3> QED BY <2>1, <3>1
  <2>2. CASE c # b \/ j # i
    <3>1. Used(H, c, j) = Used(G, c, j)
      BY <2>2 DEF Used
    <3>2. j \in 1 .. Len(P[c]) /\ Q[c][j] = P[c][j]
      BY <2>2 DEF Changed
    <3>3. P[c][j].bitmask = (0 .. P[c][j].count - 1) \ Used(G, c, j)
      BY <3>2 DEF GivenOK
    <3> QED BY <3>1, <3>2, <3>3
  <2> QED BY <2>1, <2>2
<1> QED
  BY <1>1, <1>2, <1>3 DEF GivenOK

LEMMA MemBitFields ==
  /\ \A p \in MemBit : p.size \in Nat /\ p.count \in Nat /\ p.bitmask \in SUBSET Nat
  /\ \A s, n \in Nat : \A m \in SUBSET Nat :
       [size |-> s, count |-> n, bitmask |-> m] \in MemBit
  BY DEF MemBit

(* What membit_alloc leaves and returns. *)
LEMMA BitTaken ==
  ASSUME NEW p \in MemBit, p.bitmask # {}
  PROVE  /\ membit_alloc(p) \in MemBit
         /\ membit_alloc(p).size = p.size /\ membit_alloc(p).count = p.count
         /\ membit_alloc(p).bitmask = p.bitmask \ {lowbit_index(p)}
         /\ lowbit_index(p) \in p.bitmask
<1>1. p.size \in Nat /\ p.count \in Nat /\ p.bitmask \in SUBSET Nat
  BY MemBitFields
<1>2. lowbit_index(p) \in p.bitmask
  BY <1>1, MinIsLeast DEF lowbit_index
<1>3. p = [size |-> p.size, count |-> p.count, bitmask |-> p.bitmask]
  BY DEF MemBit
<1>4. membit_alloc(p) = [size |-> p.size, count |-> p.count,
                         bitmask |-> p.bitmask \ {lowbit_index(p)}]
  BY <1>3 DEF membit_alloc
<1> QED
  BY <1>1, <1>2, <1>4, MemBitFields

(* A new pool has at least one block, and blocks of the class's size. *)
LEMMA NewPool ==
  ASSUME NEW b \in Class, NEW p,
         p = membit_create(2^b, mg_pool_block_count(2^b))
  PROVE  /\ p \in MemBit
         /\ p.bitmask = 0 .. p.count - 1 /\ p.bitmask # {}
         /\ p.size >= 2^b
<1>1. PICK s \in Nat : s = 2^b
  <2>1. b <= b
    BY DEF Class
  <2> QED BY <2>1, ClassesGrow
<1>2. PICK n \in Nat : n = mg_pool_block_count(s) /\ n >= 1
  <2>1. mg_pool_block_count(s) \in Nat /\ mg_pool_block_count(s) >= 1
    BY DEF mg_pool_block_count
  <2> QED BY <2>1
<1>3. p = [size |-> s + ((-s) % 8), count |-> n, bitmask |-> 0 .. n - 1]
  BY <1>1, <1>2 DEF membit_create
<1>4. s + ((-s) % 8) \in Nat /\ s + ((-s) % 8) >= s
  OBVIOUS
<1>5. 0 .. n - 1 \in SUBSET Nat /\ 0 \in 0 .. n - 1
  BY <1>2
<1>6. p \in MemBit
  BY <1>3, <1>4, <1>5, MemBitFields
<1>7. p.bitmask = 0 .. n - 1 /\ p.count = n /\ p.size = s + ((-s) % 8)
  BY <1>3
<1>8. p.bitmask # {}
  BY <1>5, <1>7
<1> QED
  BY <1>1, <1>4, <1>6, <1>7, <1>8

LEMMA PoolFacts ==
  ASSUME NEW P, PoolsOK(P), NEW b \in Class
  PROVE  /\ P[b] \in Seq(MemBit) /\ Len(P[b]) \in Nat
         /\ \A i \in 1 .. Len(P[b]) : P[b][i] \in MemBit /\ P[b][i].size >= 2^b
<1>1. P[b] \in Seq(MemBit)
  BY DEF PoolsOK
<1>2. Len(P[b]) \in Nat
  BY <1>1, LenProperties
<1>3. ASSUME NEW i \in 1 .. Len(P[b]) PROVE P[b][i] \in MemBit
  BY <1>1, ElementOfSeq
<1>4. \A i \in 1 .. Len(P[b]) : P[b][i].size >= 2^b
  BY DEF PoolsOK
<1> QED
  BY <1>1, <1>2, <1>3, <1>4

(* The record HandOut adds. *)
NewBlock(b, i, p, req) ==
  [class |-> b, pool |-> i, idx |-> lowbit_index(p), size |-> p.size, req |-> req]

LEMMA NewBlockFields ==
  ASSUME NEW b, NEW i, NEW p, NEW req
  PROVE  /\ NewBlock(b, i, p, req).class = b /\ NewBlock(b, i, p, req).pool = i
         /\ NewBlock(b, i, p, req).idx = lowbit_index(p)
         /\ NewBlock(b, i, p, req).size = p.size /\ NewBlock(b, i, p, req).req = req
  BY DEF NewBlock

LEMMA NewBlockFits ==
  ASSUME NEW req \in Nat, NEW b \in Class, ClassOf(req) <= b, NEW i,
         NEW p \in MemBit, p.size >= 2^b
  PROVE  RegionFits(NewBlock(b, i, p, req))
<1>1. ClassOf(req) \in Nat /\ (req + 8 < U32 => req + 8 <= 2^ClassOf(req))
  BY ClassFits
<1>2. ClassOf(req) \in Class
  BY <1>1 DEF Class, MG_MAX_CLASS_BITS
<1>3. 2^ClassOf(req) \in Nat /\ 2^b \in Nat /\ 2^ClassOf(req) <= 2^b /\ p.size \in Nat
  BY <1>2, ClassesGrow, MemBitFields
<1>4. req + 8 < U32 => req + 8 <= p.size
  BY <1>1, <1>3
<1> QED
  BY <1>4, NewBlockFields DEF RegionFits, HeaderSize

LEMMA ClassRange ==
  ASSUME NEW a \in Nat, NEW m \in Class, NEW c \in a .. m
  PROVE  c \in Class /\ a <= c
BY SMT DEF Class, MG_MAX_CLASS_BITS

LEMMA AllocFoundStep ==
  ASSUME RegionInv, NEW req \in Nat, AllocFound(req)
  PROVE  RegionInv'
<1>1. PICK P, G : P = pools /\ G = given
  OBVIOUS
<1>2. kind = "pool" /\ kind' = "pool" /\ max_bits' = max_bits /\ max_bits \in Class
  BY DEF AllocFound, RegionInv
<1>3. PoolsOK(P) /\ GivenOK(P, G)
  BY <1>1, <1>2 DEF RegionInv
<1>4. PICK C : C = Candidates(ClassOf(req))
  OBVIOUS
<1>5. C # {}
  BY <1>4 DEF AllocFound
<1>6. PICK x : x = FirstFound(C)
  OBVIOUS
<1>7. x \in C
  <2>1. C \subseteq Nat \X (1 .. MaxPools)
    <3>1. ClassOf(req) \in Nat
      BY ClassFits
    <3>2. ClassOf(req) .. max_bits \subseteq Nat
      BY <3>1
    <3> QED BY <1>4, <3>2 DEF Candidates
  <2>2. MaxPools \in Nat
    BY MgAssumption
  <2> QED BY <1>5, <1>6, <2>1, <2>2, FirstFoundIn
<1>8. PICK b, i : b = x[1] /\ i = x[2]
  OBVIOUS
<1>9. /\ b \in Class /\ ClassOf(req) <= b
      /\ i \in 1 .. Len(P[b]) /\ P[b][i].bitmask # {}
  <2>1. /\ b \in ClassOf(req) .. max_bits /\ i \in 1 .. MaxPools
        /\ i <= Len(P[b]) /\ P[b][i].bitmask # {}
    BY <1>1, <1>4, <1>7, <1>8 DEF Candidates
  <2>2. ClassOf(req) \in Nat
    BY ClassFits
  <2>3. b \in Class /\ ClassOf(req) <= b
    BY <1>2, <2>1, <2>2, ClassRange, Zenon
  <2>4. Len(P[b]) \in Nat
    BY <1>3, <2>3, PoolFacts
  <2> QED BY <2>1, <2>3, <2>4, MgAssumption
<1>10. PICK p : p = P[b][i]
  OBVIOUS
<1>11. p \in MemBit /\ p.size >= 2^b /\ p.bitmask # {} /\ P[b] \in Seq(MemBit)
  BY <1>3, <1>9, <1>10, PoolFacts
<1>12. PICK q : q = membit_alloc(p)
  OBVIOUS
<1>13. /\ q \in MemBit /\ q.size = p.size /\ q.count = p.count
       /\ q.bitmask = p.bitmask \ {lowbit_index(p)} /\ lowbit_index(p) \in p.bitmask
  BY <1>11, <1>12, BitTaken
<1>14. PICK Q : Q = pools'
  OBVIOUS
<1>15. Q = [P EXCEPT ![b] = [P[b] EXCEPT ![i] = q]]
  BY <1>1, <1>4, <1>6, <1>8, <1>10, <1>12, <1>14 DEF AllocFound, ReplaceAt
<1>16. PICK s : s = [P[b] EXCEPT ![i] = q]
  OBVIOUS
<1>17. /\ s \in Seq(MemBit) /\ Len(s) = Len(P[b]) /\ s[i] = q
       /\ \A j \in 1 .. Len(P[b]) : j # i => s[j] = P[b][j]
  BY <1>9, <1>11, <1>13, <1>16, ExceptSeq
<1>18. Q \in [Class -> Seq(MemBit)] /\ Q[b] = s /\ \A c \in Class : c # b => Q[c] = P[c]
  BY <1>3, <1>9, <1>15, <1>16, <1>17 DEF PoolsOK
<1>19. PoolsOK(Q)
  <2>1. ASSUME NEW c \in Class, NEW j \in 1 .. Len(Q[c]) PROVE Q[c][j].size >= 2^c
    <3>1. CASE c = b /\ j = i
      BY <1>11, <1>13, <1>17, <1>18, <3>1
    <3>2. CASE c = b /\ j # i
      BY <1>3, <1>17, <1>18, <3>2 DEF PoolsOK
    <3>3. CASE c # b
      BY <1>3, <1>18, <3>3 DEF PoolsOK
    <3> QED BY <3>1, <3>2, <3>3
  <2> QED BY <1>18, <2>1 DEF PoolsOK
<1>20. Changed(P, Q, b, i)
  BY <1>9, <1>17, <1>18 DEF Changed
<1>21. PICK y : y = NewBlock(b, i, p, req)
  OBVIOUS
<1>22. given' = G \cup {y}
  BY <1>1, <1>4, <1>6, <1>8, <1>10, <1>21 DEF AllocFound, HandOut, NewBlock
<1>23. /\ y.class = b /\ y.pool = i /\ y.idx = lowbit_index(p) /\ RegionFits(y)
  BY <1>9, <1>11, <1>21, NewBlockFields, NewBlockFits
<1>24. p.bitmask = (0 .. p.count - 1) \ Used(G, b, i)
  BY <1>3, <1>9, <1>10 DEF GivenOK
<1>25. y.idx \notin Used(G, b, i)
  BY <1>13, <1>23, <1>24
<1>26. Q[b][i].bitmask = (0 .. Q[b][i].count - 1) \ (Used(G, b, i) \cup {y.idx})
  BY <1>13, <1>17, <1>18, <1>23, <1>24
<1>27. GivenOK(Q, G \cup {y})
  BY <1>3, <1>9, <1>20, <1>23, <1>25, <1>26, GiveOne
<1> QED
  BY <1>2, <1>14, <1>19, <1>22, <1>27 DEF RegionInv

LEMMA AllocGrowsStep ==
  ASSUME RegionInv, NEW req \in Nat, AllocGrows(req)
  PROVE  RegionInv'
<1>1. PICK P, G : P = pools /\ G = given
  OBVIOUS
<1>2. kind = "pool" /\ kind' = "pool" /\ max_bits' = max_bits /\ max_bits \in Class
  BY DEF AllocGrows, RegionInv
<1>3. PoolsOK(P) /\ GivenOK(P, G)
  BY <1>1, <1>2 DEF RegionInv
<1>4. PICK b : b = ClassOf(req)
  OBVIOUS
<1>5. b \in Class /\ b <= max_bits /\ ClassOf(req) <= b
  <2>1. b \in Nat /\ b <= max_bits
    BY <1>4, ClassFits DEF AllocGrows
  <2> QED BY <1>2, <1>4, <2>1 DEF Class, MG_MAX_CLASS_BITS
<1>6. PICK p : p = membit_create(2^b, mg_pool_block_count(2^b))
  OBVIOUS
<1>7. p \in MemBit /\ p.bitmask = 0 .. p.count - 1 /\ p.bitmask # {} /\ p.size >= 2^b
  BY <1>5, <1>6, NewPool
<1>8. PICK q : q = membit_alloc(p)
  OBVIOUS
<1>9. /\ q \in MemBit /\ q.size = p.size /\ q.count = p.count
      /\ q.bitmask = p.bitmask \ {lowbit_index(p)}
  BY <1>7, <1>8, BitTaken
<1>10. PICK n \in Nat : n = Len(P[b]) /\ P[b] \in Seq(MemBit)
  BY <1>3, <1>5, PoolFacts
<1>11. PICK i \in Nat : i = n + 1
  OBVIOUS
<1>12. PICK s : s = Append(P[b], q)
  OBVIOUS
<1>13. s \in Seq(MemBit) /\ Len(s) = i /\ s[i] = q /\ \A j \in 1 .. n : s[j] = P[b][j]
  BY <1>9, <1>10, <1>11, <1>12, AppendProperties
<1>14. PICK Q : Q = pools'
  OBVIOUS
<1>15. Q = [P EXCEPT ![b] = s]
  BY <1>1, <1>4, <1>6, <1>8, <1>12, <1>14 DEF AllocGrows
<1>16. Q \in [Class -> Seq(MemBit)] /\ Q[b] = s /\ \A c \in Class : c # b => Q[c] = P[c]
  BY <1>3, <1>5, <1>13, <1>15 DEF PoolsOK
<1>17. \A j \in 1 .. i : j # i => j \in 1 .. n
  BY <1>11
<1>18. PoolsOK(Q)
  <2>1. ASSUME NEW c \in Class, NEW j \in 1 .. Len(Q[c]) PROVE Q[c][j].size >= 2^c
    <3>1. CASE c = b /\ j = i
      BY <1>7, <1>9, <1>13, <1>16, <3>1
    <3>2. CASE c = b /\ j # i
      BY <1>3, <1>10, <1>13, <1>16, <1>17, <3>2 DEF PoolsOK
    <3>3. CASE c # b
      BY <1>3, <1>16, <3>3 DEF PoolsOK
    <3> QED BY <3>1, <3>2, <3>3
  <2> QED BY <1>16, <2>1 DEF PoolsOK
<1>19. Changed(P, Q, b, i)
  <2>1. i \in 1 .. i /\ \A j \in 1 .. n : j \in 1 .. i
    BY <1>11
  <2> QED BY <1>10, <1>13, <1>16, <1>17, <2>1 DEF Changed
<1>20. PICK y : y = NewBlock(b, i, p, req)
  OBVIOUS
<1>21. given' = G \cup {y}
  BY <1>1, <1>4, <1>6, <1>10, <1>11, <1>20 DEF AllocGrows, HandOut, NewBlock
<1>22. /\ y.class = b /\ y.pool = i /\ y.idx = lowbit_index(p) /\ RegionFits(y)
  BY <1>5, <1>7, <1>20, NewBlockFields, NewBlockFits
<1>23. Used(G, b, i) = {}
  <2>1. ASSUME NEW z \in G, z.class = b, z.pool = i PROVE FALSE
    <3>1. i \in 1 .. n
      BY <1>3, <1>10, <2>1 DEF GivenOK
    <3> QED BY <1>11, <3>1
  <2> QED BY <2>1 DEF Used
<1>24. Q[b][i].bitmask = (0 .. Q[b][i].count - 1) \ (Used(G, b, i) \cup {y.idx})
  BY <1>7, <1>9, <1>13, <1>16, <1>22, <1>23
<1>25. y.idx \notin Used(G, b, i)
  BY <1>23
<1>26. GivenOK(Q, G \cup {y})
  BY <1>3, <1>5, <1>19, <1>22, <1>24, <1>25, GiveOne
<1> QED
  BY <1>2, <1>14, <1>18, <1>21, <1>26 DEF RegionInv

-----------------------------------------------------------------------------
(* The other operations.                                                   *)
LEMMA EmptyPools == PoolsOK(Empty) /\ GivenOK(Empty, {})
<1>1. <<>> \in Seq(MemBit) /\ Len(<<>>) = 0
  OBVIOUS
<1>2. Empty \in [Class -> Seq(MemBit)] /\ \A b \in Class : Empty[b] = <<>>
  BY <1>1 DEF Empty
<1>3. \A b \in Class : \A i \in 1 .. Len(Empty[b]) : FALSE
  BY <1>1, <1>2
<1> QED
  BY <1>2, <1>3 DEF PoolsOK, GivenOK

LEMMA CreateRegionStep ==
  ASSUME RegionInv
  PROVE  /\ \A bits \in MaxBits : mg_region_create_pool(bits) => RegionInv'
         /\ \A c \in Caps : mg_region_create_bump(c) => RegionInv'
<1>1. kind = "none" => given = {} /\ pools = Empty
  BY DEF RegionInv
<1>2. ASSUME NEW bits \in MaxBits, mg_region_create_pool(bits) PROVE RegionInv'
  <2>1. max_bits' \in Class
    <3>1. bits \in Nat
      BY MgAssumption
    <3>2. max_bits' = Min({bits, 12}) /\ {bits, 12} \in SUBSET Nat /\ {bits, 12} # {}
      BY <1>2, <3>1 DEF mg_region_create_pool, MG_MAX_CLASS_BITS
    <3>3. max_bits' \in {bits, 12} /\ max_bits' <= 12
      BY <3>2, MinIsLeast
    <3> QED BY <3>1, <3>3 DEF Class, MG_MAX_CLASS_BITS
  <2>2. kind' = "pool" /\ pools' = Empty /\ given' = {}
    BY <1>1, <1>2 DEF mg_region_create_pool
  <2> QED BY <2>1, <2>2, EmptyPools DEF RegionInv
<1>3. ASSUME NEW c \in Caps, mg_region_create_bump(c) PROVE RegionInv'
  <2>1. /\ kind' = "bump" /\ max_bits' = 0 /\ cap' = c /\ off' = 0 /\ given' = {}
    BY <1>1, <1>3 DEF mg_region_create_bump
  <2>2. c \in Nat /\ 0 \in Class
    BY MgAssumption DEF Class, MG_MAX_CLASS_BITS
  <2>3. BumpOK({}, 0, c)
    BY <2>2 DEF BumpOK
  <2> QED BY <2>1, <2>2, <2>3 DEF RegionInv
<1> QED
  BY <1>2, <1>3

LEMMA AllocBumpStep ==
  ASSUME RegionInv, NEW req \in Nat, AllocBump(req)
  PROVE  RegionInv'
<1>1. PICK size \in Nat : size = req + ((-req) % 4) /\ req <= size
  <2>1. req + ((-req) % 4) \in Nat /\ req <= req + ((-req) % 4)
    OBVIOUS
  <2> QED BY <2>1
<1>2. PICK G, n, c : G = given /\ n = off /\ c = cap
  OBVIOUS
<1>3. kind = "bump" /\ BumpOK(G, n, c)
  BY <1>2 DEF AllocBump, RegionInv
<1>4. /\ n \in Nat /\ c \in Nat
      /\ \A x \in G : x.addr \in Nat /\ x.req \in Nat /\ x.addr + x.req <= n
      /\ \A x, y \in G : x = y \/ x.addr + x.req <= y.addr \/ y.addr + y.req <= x.addr
  BY <1>3 DEF BumpOK
<1>5. PICK y : y = [addr |-> n, req |-> req]
  OBVIOUS
<1>6. y.addr = n /\ y.req = req
  BY <1>5
<1>7. /\ n + size <= c /\ off' = n + size /\ given' = G \cup {y}
      /\ cap' = c /\ kind' = "bump" /\ max_bits' = max_bits
  BY <1>1, <1>2, <1>3, <1>5 DEF AllocBump
<1>8. BumpOK(G \cup {y}, n + size, c)
  <2>1. \A x \in G \cup {y} : x.addr \in Nat /\ x.req \in Nat /\ x.addr + x.req <= n + size
    BY <1>1, <1>4, <1>6
  <2>2. \A x, z \in G \cup {y} :
          x = z \/ x.addr + x.req <= z.addr \/ z.addr + z.req <= x.addr
    BY <1>4, <1>6
  <2> QED BY <1>1, <1>4, <1>7, <2>1, <2>2 DEF BumpOK
<1> QED
  BY <1>7, <1>8 DEF RegionInv

(* mg_region_reset sets every bit of every pool. *)
LEMMA ResetPools ==
  ASSUME NEW P, PoolsOK(P), NEW Q,
         Q = [b \in Class |-> [i \in DOMAIN P[b] |-> membit_reset(P[b][i])]]
  PROVE  PoolsOK(Q) /\ GivenOK(Q, {})
<1>1. ASSUME NEW b \in Class, NEW i \in 1 .. Len(P[b])
      PROVE  /\ membit_reset(P[b][i]) \in MemBit
             /\ membit_reset(P[b][i]).size >= 2^b
             /\ membit_reset(P[b][i]).bitmask = 0 .. membit_reset(P[b][i]).count - 1
  <2>1. PICK p \in MemBit : p = P[b][i] /\ p.size >= 2^b
    BY PoolFacts
  <2>2. p.size \in Nat /\ p.count \in Nat
    BY MemBitFields
  <2>3. p = [size |-> p.size, count |-> p.count, bitmask |-> p.bitmask]
    BY DEF MemBit
  <2>4. membit_reset(p) = [size |-> p.size, count |-> p.count, bitmask |-> 0 .. p.count - 1]
    BY <2>3 DEF membit_reset
  <2>5. 0 .. p.count - 1 \in SUBSET Nat
    BY <2>2
  <2>6. membit_reset(p) \in MemBit
    BY <2>2, <2>4, <2>5, MemBitFields
  <2> QED BY <2>1, <2>4, <2>6
<1>2. ASSUME NEW b \in Class
      PROVE  /\ Q[b] \in Seq(MemBit) /\ Len(Q[b]) = Len(P[b])
             /\ \A i \in 1 .. Len(P[b]) : Q[b][i] = membit_reset(P[b][i])
  <2>1. PICK n \in Nat : n = Len(P[b]) /\ DOMAIN P[b] = 1 .. n
    BY PoolFacts, LenProperties
  <2>2. Q[b] = [i \in 1 .. n |-> membit_reset(P[b][i])]
    BY <2>1
  <2>3. \A i \in 1 .. n : Q[b][i] = membit_reset(P[b][i]) /\ Q[b][i] \in MemBit
    BY <1>1, <2>1, <2>2
  <2>4. Q[b] \in [1 .. n -> MemBit]
    BY <2>2, <2>3
  <2>5. Q[b] \in Seq(MemBit) /\ Len(Q[b]) = n
    BY <2>4, SeqDef, LenProperties
  <2> QED BY <2>1, <2>3, <2>5
<1>3. Q \in [Class -> Seq(MemBit)]
  BY <1>2
<1>4. PoolsOK(Q)
  BY <1>1, <1>2, <1>3 DEF PoolsOK
<1>5. \A b, i : Used({}, b, i) = {}
  BY DEF Used
<1>6. ASSUME NEW b \in Class, NEW i \in 1 .. Len(Q[b])
      PROVE  Q[b][i].bitmask = (0 .. Q[b][i].count - 1) \ Used({}, b, i)
  <2>1. i \in 1 .. Len(P[b]) /\ Q[b][i] = membit_reset(P[b][i])
    BY <1>2
  <2>2. Q[b][i].bitmask = 0 .. Q[b][i].count - 1
    BY <1>1, <2>1
  <2> QED BY <1>5, <2>2
<1> QED
  BY <1>4, <1>6 DEF GivenOK

LEMMA ResetStep ==
  ASSUME RegionInv, mg_region_reset
  PROVE  RegionInv'
<1>1. /\ kind # "none" /\ kind' = kind /\ max_bits' = max_bits /\ cap' = cap /\ given' = {}
      /\ kind \in {"none", "pool", "bump"} /\ max_bits \in Class
  BY DEF mg_region_reset, RegionInv
<1>2. CASE kind = "pool"
  <2>1. PICK P, Q : P = pools /\ Q = pools'
    OBVIOUS
  <2>2. /\ PoolsOK(P)
        /\ Q = [b \in Class |-> [i \in DOMAIN P[b] |-> membit_reset(P[b][i])]]
    BY <1>2, <2>1 DEF RegionInv, mg_region_reset
  <2>3. PoolsOK(Q) /\ GivenOK(Q, {})
    BY <2>2, ResetPools
  <2> QED BY <1>1, <1>2, <2>1, <2>3 DEF RegionInv
<1>3. CASE kind = "bump"
  <2>1. off' = 0 /\ cap \in Nat
    BY <1>3 DEF mg_region_reset, RegionInv, BumpOK
  <2>2. BumpOK({}, 0, cap)
    BY <2>1 DEF BumpOK
  <2> QED BY <1>1, <1>3, <2>1, <2>2 DEF RegionInv
<1> QED
  BY <1>1, <1>2, <1>3

LEMMA RegionInvInit == RegionInit => RegionInv
  BY DEF RegionInit, RegionInv, Class, MG_MAX_CLASS_BITS

LEMMA RegionInvStep == RegionInv /\ [RegionNext]_regionVars => RegionInv'
<1> SUFFICES ASSUME RegionInv, [RegionNext]_regionVars PROVE RegionInv'
  OBVIOUS
<1>1. CASE \E bits \in MaxBits : mg_region_create_pool(bits)
  BY <1>1, CreateRegionStep
<1>2. CASE \E c \in Caps : mg_region_create_bump(c)
  BY <1>2, CreateRegionStep
<1>3. ASSUME NEW req \in RegionRequests, AllocFound(req) \/ AllocGrows(req) \/ AllocBump(req)
      PROVE  RegionInv'
  <2>1. req \in Nat
    BY MgAssumption
  <2> QED BY <1>3, <2>1, AllocFoundStep, AllocGrowsStep, AllocBumpStep
<1>4. CASE mg_region_reset
  BY <1>4, ResetStep
<1>5. CASE mg_region_destroy
  BY <1>5 DEF mg_region_destroy, RegionInv, Class, MG_MAX_CLASS_BITS
<1>6. CASE UNCHANGED regionVars
  <2>1. /\ kind' = kind /\ max_bits' = max_bits /\ pools' = pools
        /\ cap' = cap /\ off' = off /\ given' = given
    BY <1>6 DEF regionVars
  <2>2. kind = "pool" => PoolsOK(pools') /\ GivenOK(pools', given')
    BY <2>1 DEF RegionInv
  <2>3. kind = "bump" => BumpOK(given', off', cap')
    BY <2>1 DEF RegionInv
  <2> QED BY <2>1, <2>2, <2>3 DEF RegionInv
<1> QED
  BY <1>1, <1>2, <1>3, <1>4, <1>5, <1>6 DEF RegionNext

LEMMA RegionInvariant == RegionSpec => []RegionInv
  BY RegionInvInit, RegionInvStep, PTL DEF RegionSpec

(* Every block a caller of mg_region_alloc has is large enough for its     *)
(* request and the header, unless (uint32_t)need cut the request off, and  *)
(* inside the buffer of a bump region.                                     *)
THEOREM RegionBlocksFit == RegionSpec => []BlocksFit
<1>1. RegionInv => BlocksFit
  <2> SUFFICES ASSUME RegionInv, NEW x \in given
               PROVE  IF kind = "bump" THEN x.addr + x.req <= cap
                      ELSE x.req + HeaderSize < U32 => x.req + HeaderSize <= x.size
    BY DEF BlocksFit
  <2>1. CASE kind = "bump"
    <3>1. BumpOK(given, off, cap)
      BY <2>1 DEF RegionInv
    <3> QED BY <2>1, <3>1 DEF BumpOK
  <2>2. CASE kind = "pool"
    <3>1. RegionFits(x)
      BY <2>2 DEF RegionInv, GivenOK
    <3> QED BY <2>2, <3>1 DEF RegionFits
  <2> QED BY <2>1, <2>2 DEF RegionInv
<1> QED
  BY <1>1, RegionInvariant, PTL

(* No two callers of mg_region_alloc have bytes in common, and a block     *)
(* whose bit is set in a pool is in nobody's hands.                        *)
THEOREM RegionBlocksDisjoint == RegionSpec => []BlocksDisjoint
<1>1. RegionInv => BlocksDisjoint
  <2> SUFFICES ASSUME RegionInv PROVE BlocksDisjoint
    OBVIOUS
  <2>1. CASE kind = "bump"
    <3>1. BumpOK(given, off, cap)
      BY <2>1 DEF RegionInv
    <3> QED BY <2>1, <3>1 DEF BumpOK, BlocksDisjoint
  <2>2. CASE kind # "bump"
    <3>1. PoolsOK(pools) /\ GivenOK(pools, given)
      BY <2>2, EmptyPools DEF RegionInv
    <3>2. \A x, y \in given : x = y \/ <<x.class, x.pool, x.idx>> # <<y.class, y.pool, y.idx>>
      BY <3>1 DEF GivenOK, SameBlock
    <3>3. ASSUME NEW b \in Class, NEW i \in DOMAIN pools[b]
          PROVE  pools[b][i].bitmask = (0 .. pools[b][i].count - 1) \ Used(given, b, i)
      <4>1. pools[b] \in Seq(MemBit)
        BY <3>1, PoolFacts
      <4>2. i \in 1 .. Len(pools[b])
        BY <4>1, LenProperties
      <4> QED BY <3>1, <4>2 DEF GivenOK
    <3> QED BY <2>2, <3>2, <3>3 DEF BlocksDisjoint, Used
  <2> QED BY <2>1, <2>2
<1> QED
  BY <1>1, RegionInvariant, PTL
=============================================================================
