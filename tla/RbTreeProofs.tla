---------------------------- MODULE RbTreeProofs ----------------------------
(***************************************************************************)
(* What is true of a tree of rbtree.c through any calls on it, and of the  *)
(* allocator that keeps its unused blocks in one, memalloc.c, for every    *)
(* size and place of its heap and every sequence of requests.              *)
(***************************************************************************)
EXTENDS RbTreeCalls, MemAlloc, RbTreeFacts

-----------------------------------------------------------------------------
(* BlackHeight.  height[i][n] is the height of n when at most i nodes are  *)
(* below n.                                                                *)
Joint(l, k, c) == IF l # k \/ l = 0 THEN 0 ELSE l + c

Topped(t, f, n) ==
  Joint(f[Kid(t, n, "left")], f[Kid(t, n, "right")], IF Red(t, n) THEN 0 ELSE 1)

HeightRun(t, g) ==
  g = [i \in 0 .. Cardinality(Node) |->
        [n \in Node \cup {NIL} |->
          IF n = NIL THEN 1
          ELSE IF i = 0 THEN 0
          ELSE LET l == g[i - 1][Kid(t, n, "left")]
                   r == g[i - 1][Kid(t, n, "right")]
               IN  IF l # r \/ l = 0 THEN 0
                   ELSE l + (IF Red(t, n) THEN 0 ELSE 1)]]

Higher(t, f) == [n \in Node \cup {NIL} |-> IF n = NIL THEN 1 ELSE Topped(t, f, n)]

LEMMA HeightExists ==
  ASSUME NEW t \in Trees
  PROVE  \E g : HeightRun(t, g)
<1>1. PICK N \in Nat : N = Cardinality(Node)
  BY RbTreeAssumption, FS_CardinalityType
<1>2. PICK X : X = [Ptr -> Nat]
  OBVIOUS
<1>3. PICK step : step = [f \in X |-> Higher(t, f)]
  OBVIOUS
<1>4. PICK x : x = [n \in Node \cup {NIL} |-> IF n = NIL THEN 1 ELSE 0]
  OBVIOUS
<1>5. \A n \in Node, s \in Side : Kid(t, n, s) \in Ptr
  BY TreeFields
<1>6. "left" \in Side /\ "right" \in Side
  BY DEF Side
<1>7. step \in [X -> X]
  <2>1. ASSUME NEW f \in X PROVE Higher(t, f) \in X
    <3>1. ASSUME NEW n \in Node PROVE Topped(t, f, n) \in Nat
      <4>1. PICK l \in Nat, k \in Nat : l = f[Kid(t, n, "left")] /\ k = f[Kid(t, n, "right")]
        BY <1>2, <1>5, <1>6
      <4> QED BY <4>1 DEF Topped, Joint
    <3>2. \A n \in Ptr : n # NIL => n \in Node
      BY DEF Ptr
    <3> QED BY <1>2, <3>1, <3>2 DEF Higher, Ptr
  <2> QED BY <1>3, <2>1
<1>8. x \in X
  BY <1>2, <1>4 DEF Ptr
<1>9. PICK g : /\ g = [i \in 0 .. N |-> g[i]] /\ Runs(X, step, x, N, g) /\ g[0] = x
               /\ \A i \in 0 .. N : /\ g[i] \in X
                                    /\ i # 0 => i - 1 \in 0 .. N /\ g[i] = step[g[i - 1]]
  BY <1>7, <1>8, RunExists
<1>10. \A i \in 0 .. N : i # 0 => g[i] = Higher(t, g[i - 1])
  BY <1>3, <1>9
<1>11. ASSUME NEW i \in 0 .. N
       PROVE  g[i] = [n \in Node \cup {NIL} |->
          IF n = NIL THEN 1
          ELSE IF i = 0 THEN 0
          ELSE LET l == g[i - 1][Kid(t, n, "left")]
                   r == g[i - 1][Kid(t, n, "right")]
               IN  IF l # r \/ l = 0 THEN 0
                   ELSE l + (IF Red(t, n) THEN 0 ELSE 1)]
  <2>1. CASE i = 0
    BY <1>4, <1>9, <2>1
  <2>2. CASE i # 0
    BY <1>10, <2>2, Zenon DEF Higher, Topped, Joint
  <2> QED BY <2>1, <2>2
<1>12. HeightRun(t, g)
  BY <1>1, <1>9, <1>11, Zenon DEF HeightRun
<1> QED BY <1>12

LEMMA HeightsFound ==
  ASSUME NEW t, NEW M, NEW r, NEW b, NEW w, Shape(t, M, r, b, w),
         NEW h, Heights(t, M, h, NIL, "left"), NEW g, NEW N \in Nat,
         \A i \in 0 .. N : g[i][NIL] = 1, \A i \in 1 .. N : g[i] = Higher(t, g[i - 1]),
         NEW n \in M, Cardinality(In(M, r, b, n)) <= N
  PROVE  g[N][n] = HH(h, n)
<1>1. M \subseteq Node /\ NIL \notin M /\ IsFiniteSet(M)
  BY ShapeTypes
<1>2. \A x \in M, d \in Side : Kid(t, x, d) \in M \cup {NIL}
  BY DEF Shape, Linked
<1>3. "left" \in Side /\ "right" \in Side
  BY DEF Side
<1>4. \A x \in M : /\ Cardinality(In(M, r, b, x)) \in Nat
                   /\ Cardinality(In(M, r, b, x)) > 0
                   /\ \A d \in Side : Kid(t, x, d) # NIL =>
                        Cardinality(In(M, r, b, Kid(t, x, d))) < Cardinality(In(M, r, b, x))
  <2> TAKE x \in M
  <2>1. In(M, r, b, x) \subseteq M /\ x \in In(M, r, b, x)
    BY Intervals
  <2>2. /\ Cardinality(In(M, r, b, x)) \in 0 .. Cardinality(Node)
        /\ \A d \in Side : Kid(t, x, d) # NIL =>
             Cardinality(In(M, r, b, Kid(t, x, d))) < Cardinality(In(M, r, b, x))
    BY Measures
  <2>3. Cardinality(In(M, r, b, x)) \in Nat
    BY <2>2, RbTreeAssumption, FS_CardinalityType
  <2>4. Cardinality(In(M, r, b, x)) # 0
    BY <1>1, <2>1, FS_Subset, FS_EmptySet
  <2>5. Cardinality(In(M, r, b, x)) > 0
    BY <2>3, <2>4
  <2> QED BY <2>2, <2>3, <2>5, Zenon
<1>5. \A k \in M \cup {NIL} : HH(h, k) \in Int /\ HH(h, k) >= 1
  BY <1>1, HeightTypes
<1>6. t \in Trees
  BY DEF Shape, Linked
<1> DEFINE S == {i \in Nat : i <= N => \A x \in M : Cardinality(In(M, r, b, x)) <= i =>
                                           g[i][x] = HH(h, x)}
<1>7. 0 \in S
  BY <1>4
<1>8. ASSUME NEW k \in Nat, k \in S PROVE k + 1 \in S
  <2>1. SUFFICES ASSUME k + 1 <= N
                 PROVE  \A x \in M : Cardinality(In(M, r, b, x)) <= k + 1 =>
                             g[k + 1][x] = HH(h, x)
    OBVIOUS
  <2>2. g[k + 1] = Higher(t, g[k]) /\ g[k][NIL] = 1
    <3>1. k + 1 \in 1 .. N /\ (k + 1) - 1 = k /\ k \in 0 .. N
      BY <2>1
    <3> QED BY <3>1
  <2>3. ASSUME NEW x \in M, Cardinality(In(M, r, b, x)) <= k + 1
        PROVE  g[k + 1][x] = HH(h, x)
    <3>1. g[k + 1][x] = Topped(t, g[k], x)
      BY <1>1, <2>2 DEF Higher
    <3>2. ASSUME NEW d \in Side
          PROVE g[k][Kid(t, x, d)] = HH(h, Kid(t, x, d))
      <4>1. CASE Kid(t, x, d) = NIL
        BY <2>2, <4>1 DEF HH
      <4>2. CASE Kid(t, x, d) # NIL
        <5>1. Kid(t, x, d) \in M
          BY <1>2, <4>2
        <5>2. Cardinality(In(M, r, b, Kid(t, x, d))) <= k
          BY <1>4, <2>3, <4>2, <5>1
        <5> QED BY <1>8, <2>1, <5>1, <5>2
      <4> QED BY <4>1, <4>2
    <3>3. PICK l, m : l = Kid(t, x, "left") /\ m = Kid(t, x, "right")
      OBVIOUS
    <3>4. g[k][l] = HH(h, l) /\ g[k][m] = HH(h, m)
      BY <1>3, <3>2, <3>3
    <3>5. x # NIL /\ l \in M \cup {NIL} /\ m \in M \cup {NIL} /\ Blk(t, x) \in Int
      BY <1>1, <1>2, <1>3, <3>3 DEF Blk
    <3>6. HH(h, x) = HH(h, l) + Blk(t, x) + 0 /\ HH(h, x) = HH(h, m) + Blk(t, x) + 0
      <4>1. h[x] = HH(h, l) + Blk(t, x) + 0 /\ h[x] = HH(h, m) + Blk(t, x) + 0
        BY <1>3, <3>3, <3>5 DEF Heights
      <4> QED BY <3>5, <4>1 DEF HH
    <3>7. Blk(t, x) = IF Red(t, x) THEN 0 ELSE 1
      BY <3>5 DEF Blk, Red, Color
    <3>8. HH(h, l) = HH(h, m) /\ HH(h, l) # 0 /\ HH(h, x) = HH(h, l) + Blk(t, x)
      BY <1>5, <3>5, <3>6
    <3>9. Topped(t, g[k], x) = Joint(HH(h, l), HH(h, m), Blk(t, x))
      BY <3>3, <3>4, <3>7 DEF Topped
    <3> QED BY <3>1, <3>8, <3>9 DEF Joint
  <2> QED BY <2>3
<1> HIDE DEF S
<1>9. N \in S
  BY <1>7, <1>8, Induction
<1> QED BY <1>9 DEF S

LEMMA BlackHeightPositive ==
  ASSUME NEW t, NEW M, NEW r, NEW w, Formed(t, M, r, w), Even(t, M)
  PROVE  BlackHeight(t) # 0
<1>1. PICK N \in Nat : N = Cardinality(Node)
  BY RbTreeAssumption, FS_CardinalityType
<1>2. PICK b : Shape(t, M, r, b, w)
  BY DEF Formed
<1>3. PICK h : Heights(t, M, h, NIL, "left")
  BY DEF Even
<1>4. t \in Trees /\ t.rb_node \in M \cup {NIL} /\ NIL \notin M
  BY <1>2, ShapeTypes DEF Shape, Linked
<1>5. PICK g : g = CHOOSE f : HeightRun(t, f)
  OBVIOUS
<1>6. HeightRun(t, g)
  BY <1>4, <1>5, HeightExists
<1>7. BlackHeight(t) = g[N][t.rb_node]
  BY <1>1, <1>5 DEF BlackHeight, HeightRun
<1>8. \A i \in 0 .. N : g[i][NIL] = 1
  <2> TAKE i \in 0 .. N
  <2>1. NIL \in Node \cup {NIL}
    OBVIOUS
  <2> QED BY <1>1, <1>6, <2>1, ZenonT(40) DEF HeightRun
<1>9. ASSUME NEW i \in 1 .. N PROVE g[i] = Higher(t, g[i - 1])
  <2>1. i \in 0 .. N /\ i # 0
    OBVIOUS
  <2> QED BY <1>1, <1>6, <2>1, ZenonT(40) DEF HeightRun, Higher, Topped, Joint
<1>10. CASE t.rb_node = NIL
  BY <1>7, <1>8, <1>10
<1>11. CASE t.rb_node # NIL
  <2>1. PICK x \in M : x = t.rb_node
    BY <1>4, <1>11
  <2>2. Cardinality(In(M, r, b, x)) <= N
    <3>1. Cardinality(In(M, r, b, x)) \in 0 .. Cardinality(Node)
      BY <1>2, Measures
    <3> QED BY <1>1, <3>1
  <2>3. g[N][x] = HH(h, x)
    BY <1>2, <1>3, <1>8, <1>9, <2>2, HeightsFound
  <2>4. HH(h, x) \in Int /\ HH(h, x) >= 1
    BY <1>3, <1>4, HeightTypes
  <2> QED BY <1>7, <2>1, <2>3, <2>4
<1> QED BY <1>10, <1>11

LEMMA SoundRedBlack ==
  ASSUME NEW t, NEW M, NEW r, NEW w, Sound(t, M, r, w)
  PROVE  RedBlack(t) /\ Members(t) = M
<1>1. PICK b : Shape(t, M, r, b, w)
  BY DEF Sound, Formed
<1>2. Lists(InOrder(t), M, r)
  BY <1>1, InOrderLists
<1>3. Members(t) = M
  <2>1. PICK s : s = InOrder(t)
    OBVIOUS
  <2>2. s \in Seq(M) /\ \A x \in M : \E i \in 1 .. Len(s) : s[i] = x
    BY <1>2, <2>1 DEF Lists
  <2>3. {s[i] : i \in DOMAIN s} = M
    BY <2>2
  <2> QED BY <2>1, <2>3 DEF Members
<1>4. Formed(t, M, r, w) /\ Even(t, M) /\ Calm(t, M) /\ ~Red(t, t.rb_node)
  BY DEF Sound
<1>5. BlackHeight(t) # 0
  BY <1>4, BlackHeightPositive
<1>6. t.rb_node # NIL => Parent(t, t.rb_node) = NIL
  BY <1>1 DEF Shape, Linked
<1>7. \A n \in M, s \in Side :
       Kid(t, n, s) # NIL => /\ Parent(t, Kid(t, n, s)) = n
                             /\ ~(Red(t, n) /\ Red(t, Kid(t, n, s)))
  <2>1. \A n \in M, s \in Side : Kid(t, n, s) # NIL => Parent(t, Kid(t, n, s)) = n
    BY <1>1 DEF Shape, Linked
  <2> QED BY <1>4, <2>1 DEF Calm, Clash
<1> QED BY <1>3, <1>4, <1>5, <1>6, <1>7 DEF RedBlack

-----------------------------------------------------------------------------
(* There is one listing of a set in an order. *)
LEMMA ListsFacts ==
  ASSUME NEW s, NEW A, NEW r, Lists(s, A, r), \A x \in A : r[x] \in Int
  PROVE  /\ s \in Seq(A) /\ Len(s) \in Nat /\ DOMAIN s = 1 .. Len(s)
         /\ \A i \in 1 .. Len(s) : s[i] \in A
         /\ \A i, j \in 1 .. Len(s) : i < j <=> r[s[i]] < r[s[j]]
         /\ \A i, j \in 1 .. Len(s) : s[i] = s[j] => i = j
         /\ \A x \in A : \E i \in 1 .. Len(s) : s[i] = x
<1>1. /\ s \in Seq(A) /\ Len(s) \in Nat /\ DOMAIN s = 1 .. Len(s)
      /\ \A i \in 1 .. Len(s) : s[i] \in A
      /\ \A i, j \in 1 .. Len(s) : i < j => r[s[i]] < r[s[j]]
      /\ \A x \in A : \E i \in 1 .. Len(s) : s[i] = x
  BY DEF Lists
<1>2. ASSUME NEW i \in 1 .. Len(s), NEW j \in 1 .. Len(s), r[s[i]] < r[s[j]] PROVE i < j
  <2>1. r[s[i]] \in Int /\ r[s[j]] \in Int
    BY <1>1
  <2>2. ~(j < i) /\ i # j
    BY <1>1, <1>2, <2>1
  <2> QED BY <1>1, <2>2
<1>3. ASSUME NEW i \in 1 .. Len(s), NEW j \in 1 .. Len(s), s[i] = s[j] PROVE i = j
  <2>1. r[s[i]] \in Int /\ r[s[j]] \in Int
    BY <1>1
  <2>2. ~(i < j) /\ ~(j < i)
    BY <1>1, <1>3, <2>1
  <2> QED BY <1>1, <2>2
<1> QED BY <1>1, <1>2, <1>3

LEMMA ListsPrefix ==
  ASSUME NEW A, NEW r, NEW c, SameOrder(A, r, c), \A x \in A : r[x] \in Int /\ c[x] \in Int,
         NEW s, Lists(s, A, r), NEW u, Lists(u, A, c), NEW i \in 1 .. Len(s),
         \A j \in 1 .. i - 1 : j <= Len(u) /\ s[j] = u[j]
  PROVE  i <= Len(u) /\ s[i] = u[i]
<1>0. (\A x \in A : r[x] \in Int) /\ (\A y \in A : c[y] \in Int)
  OBVIOUS
<1>1. /\ Len(s) \in Nat
      /\ \A k \in 1 .. Len(s) : s[k] \in A
      /\ \A k, j \in 1 .. Len(s) : k < j <=> r[s[k]] < r[s[j]]
      /\ \A k, j \in 1 .. Len(s) : s[k] = s[j] => k = j
      /\ \A x \in A : \E k \in 1 .. Len(s) : s[k] = x
  BY <1>0, ListsFacts, SMTT(30)
<1>2. /\ Len(u) \in Nat
      /\ \A k \in 1 .. Len(u) : u[k] \in A
      /\ \A k, j \in 1 .. Len(u) : k < j <=> c[u[k]] < c[u[j]]
      /\ \A k, j \in 1 .. Len(u) : u[k] = u[j] => k = j
      /\ \A x \in A : \E k \in 1 .. Len(u) : u[k] = x
  BY <1>0, ListsFacts, SMTT(30)
<1>3. PICK k \in 1 .. Len(u) : u[k] = s[i]
  BY <1>1, <1>2
<1>4. k >= i
  <2>1. SUFFICES ASSUME k < i PROVE FALSE
    BY <1>2
  <2>2. k \in 1 .. i - 1 /\ k \in 1 .. Len(s)
    BY <1>1, <1>2, <2>1
  <2>3. s[k] = s[i]
    BY <1>3, <2>2
  <2> QED BY <1>1, <2>1, <2>2, <2>3
<1>5. i \in 1 .. Len(u)
  BY <1>2, <1>4
<1>6. k = i
  <2>1. SUFFICES ASSUME i < k PROVE FALSE
    BY <1>4
  <2>2. c[u[i]] < c[u[k]]
    BY <1>2, <1>5, <2>1
  <2>3. PICK m \in 1 .. Len(s) : s[m] = u[i]
    BY <1>1, <1>2, <1>5
  <2>4. r[s[m]] < r[s[i]]
    BY <1>1, <1>3, <2>2, <2>3 DEF SameOrder
  <2>5. m < i
    BY <1>1, <2>4
  <2>6. m \in 1 .. i - 1 /\ m \in 1 .. Len(u)
    BY <1>5, <2>5
  <2>7. u[m] = u[i]
    BY <2>3, <2>6
  <2> QED BY <1>2, <1>5, <2>5, <2>6, <2>7
<1> QED BY <1>3, <1>5, <1>6

LEMMA ListsSame ==
  ASSUME NEW A, NEW r, NEW c, SameOrder(A, r, c), \A x \in A : r[x] \in Int /\ c[x] \in Int,
         NEW s, Lists(s, A, r), NEW u, Lists(u, A, c)
  PROVE  s = u
<1>1. ASSUME NEW e, NEW f, NEW a, NEW d, SameOrder(A, e, f), \A x \in A : e[x] \in Int /\ f[x] \in Int,
             Lists(a, A, e), Lists(d, A, f)
      PROVE  \A i \in 1 .. Len(a) : i <= Len(d) /\ a[i] = d[i]
  <2>1. Len(a) \in Nat
    BY <1>1, ListsFacts
  <2> DEFINE S == {n \in Nat : \A i \in 1 .. n : i <= Len(a) => i <= Len(d) /\ a[i] = d[i]}
  <2>2. 0 \in S
    OBVIOUS
  <2>3. ASSUME NEW n \in Nat, n \in S PROVE n + 1 \in S
    <3>1. SUFFICES ASSUME n + 1 <= Len(a) PROVE n + 1 <= Len(d) /\ a[n + 1] = d[n + 1]
      <4>1. ASSUME NEW i \in 1 .. n + 1, i <= Len(a) PROVE i <= Len(d) /\ a[i] = d[i]
        <5>1. i \in 1 .. n \/ i = n + 1
          BY <4>1
        <5> QED BY <2>3, <3>1, <4>1, <5>1
      <4> QED BY <4>1
    <3>2. PICK k \in 1 .. Len(a) : k = n + 1
      BY <2>1, <3>1
    <3>3. \A j \in 1 .. k - 1 : j <= Len(d) /\ a[j] = d[j]
      <4>1. \A j \in 1 .. k - 1 : j \in 1 .. n /\ j <= Len(a)
        BY <2>1, <3>2
      <4> QED BY <2>3, <4>1
    <3>4. k <= Len(d) /\ a[k] = d[k]
      BY <1>1, <3>3, ListsPrefix
    <3> QED BY <3>2, <3>4
  <2> HIDE DEF S
  <2>4. Len(a) \in S
    BY <2>1, <2>2, <2>3, Induction
  <2> QED BY <2>1, <2>4 DEF S
<1>2. SameOrder(A, c, r)
  BY DEF SameOrder
<1>3. \A i \in 1 .. Len(s) : i <= Len(u) /\ s[i] = u[i]
  BY <1>1
<1>4. \A i \in 1 .. Len(u) : i <= Len(s) /\ u[i] = s[i]
  BY <1>1, <1>2
<1>5. s \in Seq(A) /\ u \in Seq(A) /\ Len(s) \in Nat /\ Len(u) \in Nat
  BY ListsFacts
<1>6. Len(s) = Len(u)
  <2>1. Len(s) <= Len(u)
    BY <1>3, <1>5
  <2>2. Len(u) <= Len(s)
    BY <1>4, <1>5
  <2> QED BY <1>5, <2>1, <2>2
<1> QED BY <1>3, <1>5, <1>6, SeqEqual

Ranked(A, r) == \A x \in A : r[x] \in Int

Pairs(s, v) == [i \in DOMAIN s |-> <<s[i], v[s[i]]>>]

Paired(A, s, v, o) ==
  /\ o \in Seq(A \X Int) /\ Len(o) = Len(s) /\ DOMAIN o = 1 .. Len(s)
  /\ \A i \in 1 .. Len(s) : o[i] = <<s[i], v[s[i]]>> /\ o[i][1] = s[i] /\ o[i][2] = v[s[i]]

LEMMA PairsFacts ==
  ASSUME NEW A, NEW s \in Seq(A), NEW v, \A x \in A : v[x] \in Int, NEW o, o = Pairs(s, v)
  PROVE  Paired(A, s, v, o)
<1>1. Len(s) \in Nat /\ DOMAIN s = 1 .. Len(s) /\ \A i \in 1 .. Len(s) : s[i] \in A
  BY SMTT(30)
<1>2. PICK k \in Nat : k = Len(s)
  BY <1>1
<1>3. o = [i \in 1 .. k |-> <<s[i], v[s[i]]>>]
  BY <1>1, <1>2 DEF Pairs
<1>4. \A i \in 1 .. k : <<s[i], v[s[i]]>> \in A \X Int
  BY <1>1, <1>2
<1>5. o \in Seq(A \X Int) /\ Len(o) = k /\ DOMAIN o = 1 .. k
  BY <1>3, <1>4
<1>6. \A i \in 1 .. k : o[i] = <<s[i], v[s[i]]>> /\ o[i][1] = s[i] /\ o[i][2] = v[s[i]]
  BY <1>3
<1> QED BY <1>2, <1>5, <1>6 DEF Paired

Dropped(S, L, i, q) ==
  /\ q \in Seq(S) /\ Len(q) = Len(L) - 1
  /\ \A j \in 1 .. Len(L) - 1 : q[j] = IF j < i THEN L[j] ELSE L[j + 1]

LEMMA DropAt ==
  ASSUME NEW S, NEW L \in Seq(S), NEW i \in Nat, 1 <= i, i <= Len(L), NEW q, q = RemoveAt(L, i)
  PROVE  Dropped(S, L, i, q)
  BY RemoveAtFacts DEF Dropped

(* A listing without one of its nodes. *)
Without(u, i, s) ==
  /\ i \in 1 .. Len(u) /\ Len(s) = Len(u) - 1
  /\ \A j \in 1 .. Len(s) : s[j] = IF j < i THEN u[j] ELSE u[j + 1]

LEMMA ListsWithout ==
  ASSUME NEW L, NEW c, Ranked(L, c), NEW u, Lists(u, L, c), NEW n \in L,
         NEW M, M = L \ {n}, NEW r, Ranked(M, r), SameOrder(M, r, c), NEW s, Lists(s, M, r)
  PROVE  \E i \in 1 .. Len(u) : u[i] = n /\ Without(u, i, s)
<1>1. /\ u \in Seq(L) /\ Len(u) \in Nat
      /\ \A i \in 1 .. Len(u) : u[i] \in L
      /\ \A i, j \in 1 .. Len(u) : i < j <=> c[u[i]] < c[u[j]]
      /\ \A i, j \in 1 .. Len(u) : u[i] = u[j] => i = j
      /\ \A x \in L : \E i \in 1 .. Len(u) : u[i] = x
  BY ListsFacts, ZenonT(40) DEF Ranked
<1>2. PICK i \in 1 .. Len(u) : u[i] = n
  BY <1>1
<1>3. PICK a : a = RemoveAt(u, i)
  OBVIOUS
<1>4. PICK k \in Nat : k = Len(u)
  BY <1>1
<1>5. i \in Nat /\ 1 <= i /\ i <= Len(u)
  BY <1>1
<1>6. a \in Seq(L) /\ Len(a) = k - 1 /\ \A j \in 1 .. k - 1 : a[j] = IF j < i THEN u[j] ELSE u[j + 1]
  <2>1. Dropped(L, u, i, a)
    BY <1>1, <1>3, <1>5, DropAt
  <2> QED BY <1>4, <2>1 DEF Dropped
<1>7. PICK at : at = [j \in 1 .. k - 1 |-> IF j < i THEN j ELSE j + 1]
  OBVIOUS
<1>8. \A j \in 1 .. k - 1 : at[j] \in 1 .. k /\ at[j] # i /\ a[j] = u[at[j]]
  BY <1>4, <1>6, <1>7
<1>9. \A j, m \in 1 .. k - 1 : j < m => at[j] < at[m]
  BY <1>4, <1>7
<1>10. Lists(a, M, c)
  <2>1. \A j \in 1 .. k - 1 : a[j] \in M
    BY <1>1, <1>2, <1>4, <1>8
  <2>2. a \in Seq(M)
    <3>1. a = [j \in 1 .. k - 1 |-> a[j]] /\ k - 1 \in Nat
      <4>1. k - 1 \in Nat
        BY <1>4, <1>5
      <4> QED BY <1>6, <4>1
    <3> QED BY <2>1, <3>1
  <2>3. ASSUME NEW j \in 1 .. k - 1, NEW m \in 1 .. k - 1, j < m PROVE c[a[j]] < c[a[m]]
    <3>1. at[j] < at[m] /\ at[j] \in 1 .. Len(u) /\ at[m] \in 1 .. Len(u)
      <4>1. at[j] \in 1 .. k /\ at[m] \in 1 .. k
        BY <1>8
      <4>2. at[j] < at[m]
        BY <1>9, <2>3
      <4> QED BY <1>4, <4>1, <4>2
    <3>2. a[j] = u[at[j]] /\ a[m] = u[at[m]]
      BY <1>8
    <3>3. \A i1, i2 \in 1 .. Len(u) : i1 < i2 => c[u[i1]] < c[u[i2]]
      BY <1>1
    <3>4. c[u[at[j]]] < c[u[at[m]]]
      BY <3>1, <3>3, Zenon
    <3> QED BY <3>2, <3>4, Zenon
  <2>4. ASSUME NEW x \in M PROVE \E j \in 1 .. k - 1 : a[j] = x
    <3>1. PICK m \in 1 .. k : u[m] = x
      BY <1>1, <1>4
    <3>2. m # i
      BY <1>2, <3>1
    <3>3. CASE m < i
      <4>1. m \in 1 .. k - 1 /\ a[m] = u[m]
        BY <1>4, <1>6, <3>3
      <4> QED BY <3>1, <4>1
    <3>4. CASE m > i
      <4>1. m - 1 \in 1 .. k - 1 /\ ~(m - 1 < i) /\ (m - 1) + 1 = m
        BY <1>4, <3>4
      <4>2. a[m - 1] = u[m]
        BY <1>6, <4>1
      <4> QED BY <3>1, <4>1, <4>2
    <3> QED BY <1>4, <3>2, <3>3, <3>4
  <2> QED BY <1>6, <2>2, <2>3, <2>4 DEF Lists
<1>11. \A x \in M : r[x] \in Int /\ c[x] \in Int
  BY DEF Ranked
<1>12. s = a
  BY <1>10, <1>11, ListsSame
<1>13. Without(u, i, s)
  BY <1>4, <1>6, <1>12 DEF Without
<1> QED BY <1>2, <1>13

TakenFrom(o, o2, n) == \E i \in DOMAIN o : o[i][1] = n /\ o2 = RemoveAt(o, i)

LEMMA TakeListed ==
  ASSUME NEW L, NEW r, Ranked(L, r), NEW u, Lists(u, L, r), NEW n \in L,
         NEW M, M = L \ {n}, NEW c, Ranked(M, c), SameOrder(M, r, c), NEW s, Lists(s, M, c),
         NEW v, \A x \in L : v[x] \in Int
  PROVE  TakenFrom(Pairs(u, v), Pairs(s, v), n)
<1>1. SameOrder(M, c, r)
  BY DEF SameOrder
<1>2. PICK i \in 1 .. Len(u) : u[i] = n /\ Without(u, i, s)
  BY <1>1, ListsWithout
<1>3. PICK o, p : o = Pairs(u, v) /\ p = Pairs(s, v)
  OBVIOUS
<1>4. u \in Seq(L) /\ s \in Seq(L) /\ Len(u) \in Nat /\ Len(s) \in Nat
  <2>1. u \in Seq(L) /\ s \in Seq(M)
    BY DEF Lists
  <2> QED BY <2>1
<1>5. /\ o \in Seq(L \X Int) /\ Len(o) = Len(u) /\ DOMAIN o = 1 .. Len(u)
      /\ \A j \in 1 .. Len(u) : o[j] = <<u[j], v[u[j]]>> /\ o[j][1] = u[j] /\ o[j][2] = v[u[j]]
  <2>1. Paired(L, u, v, o)
    BY <1>3, <1>4, PairsFacts
  <2> QED BY <2>1 DEF Paired
<1>6. /\ p \in Seq(L \X Int) /\ Len(p) = Len(s)
      /\ \A j \in 1 .. Len(s) : p[j] = <<s[j], v[s[j]]>> /\ p[j][1] = s[j] /\ p[j][2] = v[s[j]]
  <2>1. Paired(L, s, v, p)
    BY <1>3, <1>4, PairsFacts
  <2> QED BY <2>1 DEF Paired
<1>7. PICK q : q = RemoveAt(o, i)
  OBVIOUS
<1>8. i \in Nat /\ 1 <= i /\ i <= Len(o)
  BY <1>4, <1>5
<1>9. /\ q \in Seq(L \X Int) /\ Len(q) = Len(o) - 1
      /\ \A j \in 1 .. Len(o) - 1 : q[j] = IF j < i THEN o[j] ELSE o[j + 1]
  <2>1. Dropped(L \X Int, o, i, q)
    BY <1>5, <1>7, <1>8, DropAt
  <2> QED BY <2>1 DEF Dropped
<1>10. Len(s) = Len(u) - 1 /\ \A j \in 1 .. Len(s) : s[j] = IF j < i THEN u[j] ELSE u[j + 1]
  BY <1>2 DEF Without
<1>11. ASSUME NEW j \in 1 .. Len(p) PROVE p[j] = q[j]
  <2>1. j \in 1 .. Len(s) /\ j \in 1 .. Len(o) - 1 /\ j \in 1 .. Len(u) /\ j + 1 \in 1 .. Len(u)
    BY <1>4, <1>5, <1>6, <1>10
  <2>2. CASE j < i
    BY <1>5, <1>6, <1>9, <1>10, <2>1, <2>2, ZenonT(40)
  <2>3. CASE ~(j < i)
    BY <1>5, <1>6, <1>9, <1>10, <2>1, <2>3, ZenonT(40)
  <2> QED BY <2>2, <2>3
<1>12. p = q
  BY <1>5, <1>6, <1>9, <1>10, <1>11, SeqEqual
<1> QED BY <1>2, <1>3, <1>5, <1>7, <1>12 DEF TakenFrom

PutInto(o, o2, n, k) ==
  \E i \in 1 .. Len(o) + 1 :
    /\ \A j \in DOMAIN o : (j < i) <=> (o[j][2] <= k)
    /\ o2 = InsertAt(o, i, <<n, k>>)

LEMMA PutListed ==
  ASSUME NEW M, NEW r, Ranked(M, r), NEW s, Lists(s, M, r), NEW n, n \notin M,
         NEW L, L = M \cup {n}, NEW c, Ranked(L, c), SameOrder(M, r, c), NEW u, Lists(u, L, c),
         NEW v, NEW z, \A x \in L : v[x] \in Int, \A x \in M : z[x] = v[x],
         \A y \in M : c[y] < c[n] <=> v[y] <= v[n]
  PROVE  PutInto(Pairs(s, z), Pairs(u, v), n, v[n])
<1>1. M = L \ {n} /\ n \in L
  OBVIOUS
<1>2. PICK i \in 1 .. Len(u) : u[i] = n /\ Without(u, i, s)
  BY <1>1, ListsWithout
<1>3. PICK o, p : o = Pairs(s, z) /\ p = Pairs(u, v)
  OBVIOUS
<1>4. u \in Seq(L) /\ s \in Seq(M) /\ s \in Seq(L) /\ Len(u) \in Nat /\ Len(s) \in Nat
      /\ (\A j \in 1 .. Len(s) : s[j] \in M)
  <2>1. u \in Seq(L) /\ s \in Seq(M)
    BY DEF Lists
  <2> QED BY <2>1
<1>5. \A x \in M : z[x] \in Int
  OBVIOUS
<1>6. o \in Seq(M \X Int)
      /\ Len(o) = Len(s) /\ DOMAIN o = 1 .. Len(s)
      /\ (\A j \in 1 .. Len(s) : o[j] = <<s[j], z[s[j]]>> /\ o[j][1] = s[j] /\ o[j][2] = z[s[j]])
  <2>1. Paired(M, s, z, o)
    BY <1>3, <1>4, <1>5, PairsFacts
  <2> QED BY <2>1 DEF Paired
<1>7. /\ p \in Seq(L \X Int) /\ Len(p) = Len(u)
      /\ \A j \in 1 .. Len(u) : p[j] = <<u[j], v[u[j]]>> /\ p[j][1] = u[j] /\ p[j][2] = v[u[j]]
  <2>1. Paired(L, u, v, p)
    BY <1>3, <1>4, PairsFacts
  <2> QED BY <2>1 DEF Paired
<1>8. PICK m : m = <<n, v[n]>>
  OBVIOUS
<1>9. m \in L \X Int /\ o \in Seq(L \X Int)
  <2>1. \A j \in 1 .. Len(s) : o[j] \in L \X Int
    BY <1>1, <1>4, <1>5, <1>6
  <2>2. o \in Seq(L \X Int)
    <3>1. o = [j \in 1 .. Len(s) |-> o[j]]
      BY <1>6
    <3> QED BY <1>4, <2>1, <3>1
  <2> QED BY <1>1, <1>8, <2>2
<1>10. Len(s) = Len(u) - 1 /\ \A j \in 1 .. Len(s) : s[j] = IF j < i THEN u[j] ELSE u[j + 1]
  BY <1>2 DEF Without
<1>11. PICK k \in Nat : k = i - 1
  BY <1>4
<1>12. i = k + 1 /\ PartOf(o, k, k)
  BY <1>4, <1>6, <1>10, <1>11 DEF PartOf
<1>13. PICK q : q = SpliceOf(o, k, k, m)
  OBVIOUS
<1>14. Spliced(L \X Int, o, k, k, m, q)
  BY <1>9, <1>12, <1>13, Splice
<1>15. /\ q \in Seq(L \X Int) /\ Len(q) = k + 1 + (Len(o) - k)
       /\ \A j \in 1 .. k : q[j] = o[j]
       /\ q[k + 1] = m
       /\ \A j \in 1 .. Len(o) - k : q[k + 1 + j] = o[k + j]
  BY <1>14 DEF Spliced
<1>16. InsertAt(o, i, m) = q
  <2>1. i - 1 = k /\ k + 1 = i
    BY <1>12
  <2> QED BY <1>13, <2>1, Zenon DEF SpliceOf, InsertAt
<1>17. ASSUME NEW j \in 1 .. Len(p) PROVE p[j] = q[j]
  <2>1. j \in 1 .. Len(u) /\ Len(o) = Len(u) - 1
    BY <1>6, <1>7, <1>10
  <2>2. CASE j < i
    <3>1. j \in 1 .. Len(s) /\ j \in 1 .. k /\ s[j] = u[j]
      BY <1>4, <1>10, <1>11, <2>1, <2>2
    <3>2. q[j] = <<u[j], z[u[j]]>> /\ u[j] \in M
      BY <1>4, <1>6, <1>15, <3>1
    <3> QED BY <1>7, <2>1, <3>2
  <2>3. CASE j = i
    BY <1>2, <1>7, <1>8, <1>12, <1>15, <2>1, <2>3
  <2>4. CASE j > i
    <3>1. PICK a \in 1 .. Len(o) - k : j = k + 1 + a
      <4>1. j - i \in 1 .. Len(o) - k /\ j = k + 1 + (j - i)
        BY <1>4, <1>12, <2>1, <2>4
      <4> QED BY <4>1
    <3>2. k + a \in 1 .. Len(s) /\ ~(k + a < i) /\ (k + a) + 1 = j
      BY <1>4, <1>6, <1>12, <3>1
    <3>3. s[k + a] = u[j] /\ s[k + a] \in M
      BY <1>4, <1>10, <3>2
    <3>4. q[j] = o[k + a]
      BY <1>15, <3>1
    <3>5. q[j] = <<u[j], z[u[j]]>> /\ z[u[j]] = v[u[j]]
      BY <1>6, <3>2, <3>3, <3>4
    <3> QED BY <1>7, <2>1, <3>5
  <2> QED BY <1>4, <2>1, <2>2, <2>3, <2>4
<1>18. p = q
  <2>1. Len(p) = Len(q)
    <3>1. PICK a \in Nat : a = Len(s)
      BY <1>4
    <3>2. Len(u) = a + 1
      BY <1>4, <1>10, <3>1
    <3>3. Len(q) = a + 1
      <4>1. Len(o) = a /\ Len(q) = k + 1 + (Len(o) - k)
        BY <1>6, <1>15, <3>1
      <4>2. k + 1 + (a - k) = a + 1
        BY <3>1, <1>11
      <4> QED BY <4>1, <4>2
    <3> QED BY <1>7, <3>2, <3>3
  <2> QED BY <1>7, <1>15, <1>17, <2>1, SeqEqual
<1>19. ASSUME NEW j \in DOMAIN o PROVE (j < i) <=> (o[j][2] <= v[n])
  <2>1. j \in 1 .. Len(s) /\ o[j][2] = v[s[j]] /\ s[j] \in M
    BY <1>4, <1>6, <1>19
  <2>2. (j < i) <=> c[s[j]] < c[n]
    <3>1. \A a, d \in 1 .. Len(u) : a < d <=> c[u[a]] < c[u[d]]
      BY ListsFacts, ZenonT(40) DEF Ranked
    <3>3. j \in 1 .. Len(u) /\ j + 1 \in 1 .. Len(u)
      BY <1>4, <1>10, <2>1, SMTT(30)
    <3>4. CASE j < i
      BY <1>2, <1>10, <2>1, <3>1, <3>3, <3>4
    <3>5. CASE ~(j < i)
      <4>1. s[j] = u[j + 1] /\ ~(j + 1 < i)
        BY <1>10, <2>1, <3>3, <3>5
      <4> QED BY <1>2, <3>1, <3>3, <3>5, <4>1
    <3> QED BY <3>4, <3>5
  <2> QED BY <2>1, <2>2
<1>20. i \in 1 .. Len(o) + 1
  BY <1>4, <1>6, <1>10
<1> QED BY <1>3, <1>8, <1>16, <1>18, <1>19, <1>20 DEF PutInto

SwappedIn(o, o2, old, new) ==
  o2 = [i \in DOMAIN o |-> IF o[i][1] = old THEN <<new, o[i][2]>> ELSE o[i]]

LEMMA SwapListed ==
  ASSUME NEW M, NEW r, Ranked(M, r), NEW s, Lists(s, M, r), NEW old \in M, NEW new, new \notin M,
         NEW L, L = (M \ {old}) \cup {new}, NEW c, \A x \in L : c[x] = r[IF x = new THEN old ELSE x],
         NEW u, Lists(u, L, c), NEW v, NEW z, \A x \in M : z[x] \in Int,
         \A x \in L : v[x] = IF x = new THEN z[old] ELSE z[x],
         NEW o, o = Pairs(s, z)
  PROVE  SwappedIn(o, Pairs(u, v), old, new)
<1>1. /\ s \in Seq(M) /\ Len(s) \in Nat /\ DOMAIN s = 1 .. Len(s)
      /\ \A i \in 1 .. Len(s) : s[i] \in M
      /\ \A i, j \in 1 .. Len(s) : i < j <=> r[s[i]] < r[s[j]]
      /\ \A i, j \in 1 .. Len(s) : s[i] = s[j] => i = j
      /\ \A x \in M : \E i \in 1 .. Len(s) : s[i] = x
  BY ListsFacts, ZenonT(40) DEF Ranked
<1>2. PICK k \in Nat : k = Len(s)
  BY <1>1
<1>3. PICK a : a = [i \in 1 .. k |-> IF s[i] = old THEN new ELSE s[i]]
  OBVIOUS
<1>4. \A i \in 1 .. k : a[i] \in L /\ a[i] = (IF s[i] = old THEN new ELSE s[i]) /\ s[i] \in M
  BY <1>1, <1>2, <1>3
<1>5. a \in Seq(L) /\ Len(a) = k /\ DOMAIN a = 1 .. k
  BY <1>3, <1>4
<1>6. \A i \in 1 .. k : c[a[i]] = r[s[i]]
  <2> TAKE i \in 1 .. k
  <2>1. a[i] \in L /\ (IF a[i] = new THEN old ELSE a[i]) = s[i]
    BY <1>4
  <2> QED BY <2>1
<1>7. Lists(a, L, c)
  <2>1. \A i, j \in 1 .. k : i < j => c[a[i]] < c[a[j]]
    BY <1>1, <1>2, <1>6, ZenonT(40)
  <2>2. ASSUME NEW x \in L PROVE \E i \in 1 .. k : a[i] = x
    <3>1. PICK y \in M : y = IF x = new THEN old ELSE x
      OBVIOUS
    <3>2. PICK i \in 1 .. k : s[i] = y
      BY <1>1, <1>2
    <3> QED BY <1>4, <3>1, <3>2
  <2> QED BY <1>5, <2>1, <2>2 DEF Lists
<1>8. \A x \in L : c[x] \in Int
  BY DEF Ranked
<1>9. u = a
  BY <1>7, <1>8, ListsSame DEF SameOrder
<1>10. DOMAIN o = 1 .. k /\ \A i \in 1 .. k : o[i] = <<s[i], z[s[i]]>>
  BY <1>1, <1>2 DEF Pairs
<1>11. Pairs(u, v) = [i \in 1 .. k |-> <<a[i], v[a[i]]>>]
  BY <1>5, <1>9 DEF Pairs
<1>12. ASSUME NEW i \in 1 .. k
       PROVE  <<a[i], v[a[i]]>> = IF o[i][1] = old THEN <<new, o[i][2]>> ELSE o[i]
  <2>1. o[i] = <<s[i], z[s[i]]>> /\ o[i][1] = s[i] /\ o[i][2] = z[s[i]]
    BY <1>10
  <2>2. a[i] \in L /\ a[i] = (IF s[i] = old THEN new ELSE s[i]) /\ s[i] \in M
    BY <1>4
  <2>3. v[a[i]] = z[s[i]]
    BY <2>2
  <2> QED BY <2>1, <2>2, <2>3
<1> QED BY <1>10, <1>11, <1>12 DEF SwappedIn

-----------------------------------------------------------------------------
(* What the calls do to the order of the nodes, and to the ends of it.     *)
LEMMA SoundFacts ==
  ASSUME NEW t, NEW M, NEW r, NEW w, Sound(t, M, r, w)
  PROVE  /\ t \in Trees /\ M \subseteq Node /\ NIL \notin M /\ IsFiniteSet(M) /\ Ranked(M, r)
         /\ \A x, y \in M : r[x] = r[y] => x = y
         /\ \A x \in M : t.value[x] \in Int
         /\ Lists(InOrder(t), M, r)
         /\ RedBlack(t) /\ Members(t) = M
<1>1. PICK b : Shape(t, M, r, b, w)
  BY DEF Sound, Formed
<1>2. Ranked(M, r) /\ M \subseteq Node /\ NIL \notin M /\ IsFiniteSet(M)
  BY <1>1, ShapeTypes DEF Ranked
<1>3. t \in Trees /\ \A x, y \in M : r[x] = r[y] => x = y
  BY <1>1 DEF Shape, Linked, Placed
<1>4. \A x \in M : t.value[x] \in Int
  BY <1>2, <1>3 DEF Trees
<1> QED BY <1>1, <1>2, <1>3, <1>4, InOrderLists, SoundRedBlack

EndsAre(t, M, r) == IsEnd(M, r, "left", t.first_node) /\ IsEnd(M, r, "right", t.last_node)

LEMMA InsertSorted ==
  ASSUME NEW t, NEW M, NEW r, NEW w, Sound(t, M, r, w), Sorted(t, M, r),
         NEW n \in Node \ M, NEW L, L = M \cup {n},
         NEW u, NEW c, NEW v, Sound(u, L, c, v), Inserted(t, M, r, u, n, c)
  PROVE  Sorted(u, L, c)
<1>1. /\ M \subseteq Node /\ Ranked(M, r) /\ Ranked(L, c)
      /\ \A x, y \in L : c[x] = c[y] => x = y
      /\ \A x \in L : u.value[x] \in Int /\ u.value[x] = t.value[x]
  BY SoundFacts DEF Inserted
<1>2. SameOrder(M, r, c) /\ \A y \in M : c[y] < c[n] <=> t.value[y] <= t.value[n]
  BY DEF Inserted
<1>3. ASSUME NEW x \in L, NEW y \in L, c[x] < c[y] PROVE u.value[x] <= u.value[y]
  <2>1. CASE x \in M /\ y \in M
    BY <1>1, <1>2, <1>3, <2>1 DEF SameOrder, Sorted
  <2>2. CASE x = n /\ y \in M
    <3>1. c[x] \in Int /\ c[y] \in Int
      BY <1>1 DEF Ranked
    <3>2. ~(c[y] < c[n])
      BY <1>3, <2>2, <3>1
    <3> QED BY <1>1, <1>2, <2>2, <3>2
  <2>3. CASE x \in M /\ y = n
    BY <1>1, <1>2, <1>3, <2>3
  <2>4. CASE x = n /\ y = n
    BY <1>1, <2>4
  <2> QED BY <2>1, <2>2, <2>3, <2>4
<1> QED BY <1>3 DEF Sorted

LEMMA InsertEnds ==
  ASSUME NEW t, NEW M, NEW r, NEW w, Sound(t, M, r, w), Sorted(t, M, r),
         NEW n \in Node \ M, NEW L, L = M \cup {n},
         NEW u, NEW c, NEW v, Sound(u, L, c, v), Inserted(t, M, r, u, n, c),
         t.count = Cardinality(M), EndsAre(t, M, r)
  PROVE  EndsAre(u, L, c)
<1>1. /\ Ranked(M, r) /\ Ranked(L, c) /\ IsFiniteSet(M)
      /\ \A x \in L : u.value[x] \in Int /\ u.value[x] = t.value[x]
  BY SoundFacts DEF Inserted
<1>2. /\ \A x, y \in M : c[x] < c[y] <=> r[x] < r[y]
      /\ \A y \in M : c[y] < c[n] <=> t.value[y] <= t.value[n]
      /\ u.last_node = IF t.count = 0 \/ t.value[n] >= t.value[t.last_node] THEN n ELSE t.last_node
      /\ u.first_node = IF t.count = 0 \/ t.value[n] < t.value[t.first_node] THEN n ELSE t.first_node
  BY DEF Inserted, SameOrder
<1>3. \A x \in L : c[x] \in Int
  BY <1>1 DEF Ranked
<1>4. \A x \in M : r[x] \in Int
  BY <1>1 DEF Ranked
<1>5. t.count = 0 <=> M = {}
  BY <1>1, FS_EmptySet
<1>6. IsEnd(L, c, "right", u.last_node)
  <2>1. CASE M = {}
    BY <1>2, <1>3, <1>5, <2>1 DEF IsEnd, Toward
  <2>2. CASE M # {}
    <3>1. PICK e \in M : e = t.last_node /\ \A y \in M : ~(r[e] < r[y])
      BY <2>2 DEF EndsAre, IsEnd, Toward
    <3>2. \A y \in M : t.value[y] <= t.value[e]
      <4> TAKE y \in M
      <4>1. r[y] < r[e] \/ r[y] = r[e]
        BY <1>4, <3>1
      <4>2. \A x1, x2 \in M : r[x1] = r[x2] => x1 = x2
        BY SoundFacts
      <4> QED BY <1>1, <3>1, <4>1, <4>2 DEF Sorted
    <3>3. CASE t.value[n] >= t.value[e]
      <4>1. u.last_node = n
        BY <1>2, <3>1, <3>3
      <4>2. \A y \in M : t.value[y] <= t.value[n]
        BY <1>1, <3>2, <3>3
      <4>3. \A y \in L : ~(c[n] < c[y])
        BY <1>2, <1>3, <4>2
      <4> QED BY <4>1, <4>3 DEF IsEnd, Toward
    <3>4. CASE ~(t.value[n] >= t.value[e])
      <4>1. u.last_node = e
        BY <1>2, <1>5, <2>2, <3>1, <3>4
      <4>2. ~(c[e] < c[n]) /\ e # n
        BY <1>1, <1>2, <3>4
      <4>3. \A y \in M : ~(c[e] < c[y])
        BY <1>2, <3>1
      <4>4. \A y \in L : ~(c[e] < c[y])
        BY <4>2, <4>3
      <4> QED BY <4>1, <4>4 DEF IsEnd, Toward
    <3> QED BY <3>3, <3>4
  <2> QED BY <2>1, <2>2
<1>7. IsEnd(L, c, "left", u.first_node)
  <2>1. CASE M = {}
    BY <1>2, <1>3, <1>5, <2>1 DEF IsEnd, Toward
  <2>2. CASE M # {}
    <3>1. PICK e \in M : e = t.first_node /\ \A y \in M : ~(r[y] < r[e])
      BY <2>2 DEF EndsAre, IsEnd, Toward
    <3>2. \A y \in M : t.value[e] <= t.value[y]
      <4> TAKE y \in M
      <4>1. r[e] < r[y] \/ r[y] = r[e]
        BY <1>4, <3>1
      <4>2. \A x1, x2 \in M : r[x1] = r[x2] => x1 = x2
        BY SoundFacts
      <4> QED BY <1>1, <3>1, <4>1, <4>2 DEF Sorted
    <3>3. CASE t.value[n] < t.value[e]
      <4>1. u.first_node = n
        BY <1>2, <3>1, <3>3
      <4>2. \A y \in M : ~(t.value[y] <= t.value[n])
        BY <1>1, <3>2, <3>3
      <4>3. \A y \in L : ~(c[y] < c[n])
        BY <1>2, <1>3, <4>2
      <4> QED BY <4>1, <4>3 DEF IsEnd, Toward
    <3>4. CASE ~(t.value[n] < t.value[e])
      <4>1. u.first_node = e
        BY <1>2, <1>5, <2>2, <3>1, <3>4
      <4>2. c[e] < c[n]
        <5>1. t.value[e] <= t.value[n]
          BY <1>1, <3>4
        <5> QED BY <1>2, <5>1
      <4>3. \A y \in M : ~(c[y] < c[e])
        BY <1>2, <3>1
      <4>4. \A y \in L : ~(c[y] < c[e])
        BY <1>3, <4>2, <4>3
      <4> QED BY <4>1, <4>4 DEF IsEnd, Toward
    <3> QED BY <3>3, <3>4
  <2> QED BY <2>1, <2>2
<1> QED BY <1>6, <1>7 DEF EndsAre

LEMMA EndAfter ==
  ASSUME NEW M, NEW r, Ranked(M, r), NEW n \in M, M # {n}, NEW s \in Side, IsEnd(M, r, s, n),
         \A x, y \in M : r[x] = r[y] => x = y, NEW e, IsNext(M, r, n, Other(s), e), NIL \notin M
  PROVE  IsEnd(M \ {n}, r, s, e)
<1>1. PICK y \in M : y # n
  OBVIOUS
<1>2. \A x \in M : r[x] \in Int
  BY DEF Ranked
<1>3. \A x \in M : x # n => Toward(Other(s), r[n], r[x])
  <2> TAKE x \in M
  <2>1. ~Toward(s, r[n], r[x])
    BY DEF IsEnd
  <2>2. Toward(s, r[n], r[x]) \/ Toward(s, r[x], r[n]) \/ r[n] = r[x]
    BY <1>2, TowardFacts
  <2>3. Toward(Other(s), r[n], r[x]) <=> Toward(s, r[x], r[n])
    BY <1>2, TowardFacts
  <2> QED BY <2>1, <2>2, <2>3
<1>4. e # NIL
  BY <1>1, <1>3 DEF IsNext
<1>5. e \in M /\ Toward(Other(s), r[n], r[e])
      /\ \A x \in M : ~(Toward(Other(s), r[n], r[x]) /\ Toward(Other(s), r[x], r[e]))
  BY <1>4 DEF IsNext
<1>6. e # n
  BY <1>2, <1>5, TowardFacts, SideFacts
<1>7. \A x \in M \ {n} : ~Toward(s, r[e], r[x])
  <2> TAKE x \in M \ {n}
  <2>1. ~Toward(Other(s), r[x], r[e])
    BY <1>3, <1>5
  <2>2. Toward(Other(s), r[x], r[e]) <=> Toward(s, r[e], r[x])
    BY <1>2, <1>5, TowardFacts
  <2> QED BY <2>1, <2>2
<1> QED BY <1>1, <1>5, <1>6, <1>7 DEF IsEnd

LEMMA EndSame ==
  ASSUME NEW A, NEW r, NEW c, SameOrder(A, r, c), NEW s \in Side, NEW e, IsEnd(A, r, s, e)
  PROVE  IsEnd(A, c, s, e)
<1>1. \A x, y \in A : Toward(s, r[x], r[y]) <=> Toward(s, c[x], c[y])
  BY DEF SameOrder, Toward
<1> QED BY <1>1 DEF IsEnd

LEMMA EndStays ==
  ASSUME NEW M, NEW r, NEW n \in M, NEW s, NEW e, e # n, IsEnd(M, r, s, e)
  PROVE  IsEnd(M \ {n}, r, s, e)
  BY DEF IsEnd

LEMMA RemoveSorted ==
  ASSUME NEW t, NEW M, NEW r, NEW w, Sound(t, M, r, w), Sorted(t, M, r), NEW n \in M,
         NEW u, NEW c, Removed(t, M, r, u, n, c)
  PROVE  Sorted(u, M \ {n}, c)
  BY DEF Removed, Sorted, SameOrder

LEMMA RemoveEnds ==
  ASSUME NEW t, NEW M, NEW r, NEW w, Sound(t, M, r, w), NEW n \in M,
         NEW u, NEW c, NEW v, Sound(u, M \ {n}, c, v), Removed(t, M, r, u, n, c),
         t.count = Cardinality(M), EndsAre(t, M, r)
  PROVE  EndsAre(u, M \ {n}, c)
<1>1. PICK b : Shape(t, M, r, b, w)
  BY DEF Sound, Formed
<1>2. /\ Ranked(M, r) /\ IsFiniteSet(M) /\ NIL \notin M
      /\ \A x, y \in M : r[x] = r[y] => x = y
  BY SoundFacts
<1>3. SameOrder(M \ {n}, r, c) /\ EndsLeft(t, u, n)
  BY DEF Removed
<1>4. t.count <= 1 <=> M = {n}
  <2>1. IsFiniteSet(M \ {n}) /\ Cardinality(M \ {n}) = Cardinality(M) - 1
    BY <1>2, FS_RemoveElement
  <2>2. Cardinality(M \ {n}) \in Nat /\ Cardinality(M) \in Nat
    BY <1>2, <2>1, FS_CardinalityType
  <2>3. Cardinality(M \ {n}) = 0 <=> M \ {n} = {}
    BY <2>1, FS_EmptySet
  <2> QED BY <2>1, <2>2, <2>3
<1>5. ASSUME NEW s \in Side, NEW e, IsEnd(M, r, s, e), NEW f,
             f = IF t.count <= 1 THEN NIL ELSE IF n = e THEN Neighbour(t, n, Other(s)) ELSE e
      PROVE  IsEnd(M \ {n}, c, s, f)
  <2>1. SUFFICES IsEnd(M \ {n}, r, s, f)
    BY <1>3, EndSame
  <2>2. CASE t.count <= 1
    <3>1. M \ {n} = {}
      BY <1>4, <2>2
    <3> QED BY <1>5, <2>2, <3>1 DEF IsEnd
  <2>3. CASE ~(t.count <= 1) /\ n = e
    <3>1. Other(s) \in Side
      BY SideFacts
    <3>2. IsNext(M, r, n, Other(s), f)
      BY <1>1, <1>5, <2>3, <3>1, NextFound
    <3> QED BY <1>2, <1>4, <1>5, <2>3, <3>2, EndAfter
  <2>4. CASE ~(t.count <= 1) /\ n # e
    BY <1>5, <2>4, EndStays
  <2> QED BY <2>2, <2>3, <2>4
<1>6. "left" \in Side /\ "right" \in Side /\ Other("left") = "right" /\ Other("right") = "left"
  BY DEF Side, Other
<1>7. IsEnd(M, r, "left", t.first_node) /\ IsEnd(M, r, "right", t.last_node)
  BY DEF EndsAre
<1>8. IsEnd(M \ {n}, c, "left", u.first_node)
  BY <1>3, <1>5, <1>6, <1>7 DEF EndsLeft, rb_next
<1>9. IsEnd(M \ {n}, c, "right", u.last_node)
  BY <1>3, <1>5, <1>6, <1>7 DEF EndsLeft, rb_prev
<1> QED BY <1>8, <1>9 DEF EndsAre

LEMMA SwapSorted ==
  ASSUME NEW t, NEW M, NEW r, NEW w, Sound(t, M, r, w), Sorted(t, M, r),
         NEW old \in M, NEW new \in Node \ M, NEW L, L = (M \ {old}) \cup {new},
         NEW u, NEW c, Swapped(t, M, r, u, old, new, c)
  PROVE  /\ Sorted(u, L, c)
         /\ EndsAre(t, M, r) /\ old \notin {t.first_node, t.last_node} => EndsAre(u, L, c)
<1>1. M \subseteq Node
  BY SoundFacts
<1>2. PICK f : f = [x \in L |-> IF x = new THEN old ELSE x]
  OBVIOUS
<1>3. \A x \in L : f[x] \in M /\ c[x] = r[f[x]] /\ u.value[x] = t.value[f[x]]
  BY <1>1, <1>2 DEF Swapped
<1>4. Sorted(u, L, c)
  BY <1>3 DEF Sorted
<1>5. ASSUME NEW s \in Side, NEW e, IsEnd(M, r, s, e), e # old PROVE IsEnd(L, c, s, e)
  <2>1. e \in L /\ f[e] = e /\ \A y \in M : ~Toward(s, r[e], r[y])
    BY <1>2, <1>5 DEF IsEnd
  <2>2. \A x \in L : ~Toward(s, c[e], c[x])
    BY <1>3, <2>1
  <2> QED BY <2>1, <2>2 DEF IsEnd
<1>6. "left" \in Side /\ "right" \in Side
  BY DEF Side
<1>7. u.first_node = t.first_node /\ u.last_node = t.last_node
  BY DEF Swapped
<1> QED BY <1>4, <1>5, <1>6, <1>7 DEF EndsAre

Vals == {NodeValue[x] : x \in Node}

Valued(t, n, k) == [t EXCEPT !.value[n] = k]

LEMMA ValuedDoes ==
  ASSUME NEW t \in Trees, NEW n \in Node, NEW k \in Int, NEW u, u = Valued(t, n, k)
  PROVE  /\ u \in Trees /\ u.rb_node = t.rb_node /\ u.node = t.node /\ u.count = t.count
         /\ u.first_node = t.first_node /\ u.last_node = t.last_node
         /\ \A x \in Node : u.value[x] = IF x = n THEN k ELSE t.value[x]
<1>1. PICK f : f = [t.value EXCEPT ![n] = k]
  OBVIOUS
<1>2. t.value \in [Node -> Int]
  BY TreeFields
<1>3. f \in [Node -> Int] /\ \A x \in Node : f[x] = IF x = n THEN k ELSE t.value[x]
  BY <1>1, <1>2
<1>4. u = [t EXCEPT !.value = f]
  BY <1>1 DEF Valued
<1> QED BY <1>3, <1>4 DEF Trees

(* A tree t of the nodes M, listed in o. *)
Stands(t, M, r, w, gone) ==
  Sound(t, M, r, w) /\ Sorted(t, M, r) /\ (gone \/ EndsAre(t, M, r))

TreeStands(t, o, M, gone) ==
  /\ t.count = Cardinality(M)
  /\ o = Listing(t)
  /\ \A x \in M : t.value[x] \in Vals
  /\ \E r, w : Stands(t, M, r, w, gone)

LEMMA ListingIs ==
  ASSUME NEW t
  PROVE  Listing(t) = Pairs(InOrder(t), t.value)
  BY DEF Listing, Pairs

LEMMA InsertStep ==
  ASSUME NEW t, NEW o, NEW M, NEW gone, TreeStands(t, o, M, gone), NEW n \in Node \ M,
         NEW u, u = rb_insert_node([t EXCEPT !.value[n] = NodeValue[n]], n)
  PROVE  /\ TreeStands(u, Listing(u), M \cup {n}, gone)
         /\ PutInto(o, Listing(u), n, NodeValue[n])
<1>1. PICK r, w : Stands(t, M, r, w, gone)
  BY DEF TreeStands
<1>2. /\ t \in Trees /\ M \subseteq Node /\ IsFiniteSet(M) /\ Ranked(M, r)
      /\ \A x \in M : t.value[x] \in Int
      /\ Lists(InOrder(t), M, r) /\ Sound(t, M, r, w) /\ Sorted(t, M, r)
  BY <1>1, SoundFacts DEF Stands
<1>3. PICK k \in Int : k = NodeValue[n] /\ k \in Vals
  BY RbTreeCallsAssumption DEF Vals
<1>4. PICK e : e = Valued(t, n, k)
  OBVIOUS
<1>5. /\ e \in Trees /\ e.rb_node = t.rb_node /\ e.node = t.node /\ e.count = t.count
      /\ e.first_node = t.first_node /\ e.last_node = t.last_node
      /\ \A x \in Node : e.value[x] = IF x = n THEN k ELSE t.value[x]
  BY <1>2, <1>4, ValuedDoes
<1>6. Sound(e, M, r, w)
  BY <1>2, <1>5, OutsideSound
<1>7. Sorted(e, M, r)
  BY <1>2, <1>5 DEF Sorted
<1>8. u = rb_insert_node(e, n)
  BY <1>3, <1>4 DEF Valued
<1>9. PICK c, v : Sound(u, M \cup {n}, c, v) /\ Inserted(e, M, r, u, n, c)
  BY <1>6, <1>7, <1>8, InsertNodeDoes
<1>10. PICK L : L = M \cup {n}
  OBVIOUS
<1>11. Sorted(u, L, c)
  BY <1>6, <1>7, <1>9, <1>10, InsertSorted
<1>12. u.count = t.count + 1 /\ u.value = e.value /\ SameOrder(M, r, c)
       /\ \A y \in M : c[y] < c[n] <=> e.value[y] <= e.value[n]
  BY <1>5, <1>9 DEF Inserted
<1>13. u.count = Cardinality(L)
  <2>1. Cardinality(L) = Cardinality(M) + 1
    BY <1>2, <1>10, FS_AddElement
  <2> QED BY <1>12, <2>1 DEF TreeStands
<1>14. gone \/ EndsAre(u, L, c)
  <2>1. SUFFICES ASSUME EndsAre(t, M, r) PROVE EndsAre(u, L, c)
    BY <1>1 DEF Stands
  <2>2. EndsAre(e, M, r)
    BY <1>5, <2>1 DEF EndsAre
  <2>3. e.count = Cardinality(M)
    BY <1>5 DEF TreeStands
  <2> QED BY <1>6, <1>7, <1>9, <1>10, <2>2, <2>3, InsertEnds
<1>15. \A x \in L : u.value[x] \in Vals /\ u.value[x] \in Int
       /\ u.value[x] = IF x = n THEN k ELSE t.value[x]
  BY <1>2, <1>3, <1>5, <1>10, <1>12 DEF TreeStands
<1>16. TreeStands(u, Listing(u), L, gone)
  BY <1>9, <1>10, <1>11, <1>13, <1>14, <1>15 DEF TreeStands, Stands
<1>17. PutInto(o, Listing(u), n, NodeValue[n])
  <2>1. Ranked(L, c) /\ Lists(InOrder(u), L, c)
    BY <1>9, <1>10, SoundFacts
  <2>2. PICK s, p, z, q : s = InOrder(t) /\ p = InOrder(u) /\ z = t.value /\ q = u.value
    OBVIOUS
  <2>3. \A x \in L : q[x] \in Int
    BY <1>15, <2>2
  <2>4. \A x \in M : z[x] = q[x]
    BY <1>10, <1>15, <2>2
  <2>5. n \notin M /\ q[n] = k
    BY <1>10, <1>15, <2>2
  <2>6. \A y \in M : c[y] < c[n] <=> q[y] <= q[n]
    BY <1>12, <2>2
  <2>7. PutInto(Pairs(s, z), Pairs(p, q), n, q[n])
    BY <1>2, <1>10, <1>12, <2>1, <2>2, <2>3, <2>4, <2>5, <2>6, PutListed
  <2>8. o = Pairs(s, z) /\ Listing(u) = Pairs(p, q)
    BY <2>2, ListingIs DEF TreeStands
  <2> QED BY <1>3, <2>5, <2>7, <2>8
<1> QED BY <1>10, <1>16, <1>17

LEMMA RemoveStep ==
  ASSUME NEW t, NEW o, NEW M, NEW gone, TreeStands(t, o, M, gone), NEW n \in M,
         NEW u, u = rb_remove_node(t, n)
  PROVE  /\ TreeStands(u, Listing(u), M \ {n}, gone)
         /\ TakenFrom(o, Listing(u), n)
<1>1. PICK r, w : Stands(t, M, r, w, gone)
  BY DEF TreeStands
<1>2. /\ t \in Trees /\ M \subseteq Node /\ IsFiniteSet(M) /\ Ranked(M, r)
      /\ \A x \in M : t.value[x] \in Int
      /\ Lists(InOrder(t), M, r) /\ Sound(t, M, r, w) /\ Sorted(t, M, r)
  BY <1>1, SoundFacts DEF Stands
<1>3. PICK c, v : Sound(u, M \ {n}, c, v) /\ Removed(t, M, r, u, n, c)
  BY <1>2, RemoveNodeDoes
<1>4. PICK L : L = M \ {n}
  OBVIOUS
<1>5. Sorted(u, L, c)
  BY <1>2, <1>3, <1>4, RemoveSorted
<1>6. u.count = t.count - 1 /\ u.value = t.value /\ SameOrder(L, r, c)
  BY <1>3, <1>4 DEF Removed
<1>7. u.count = Cardinality(L)
  <2>1. Cardinality(L) = Cardinality(M) - 1
    BY <1>2, <1>4, FS_RemoveElement
  <2> QED BY <1>6, <2>1 DEF TreeStands
<1>8. gone \/ EndsAre(u, L, c)
  <2>1. SUFFICES ASSUME EndsAre(t, M, r) PROVE EndsAre(u, L, c)
    BY <1>1 DEF Stands
  <2>2. t.count = Cardinality(M)
    BY DEF TreeStands
  <2> QED BY <1>2, <1>3, <1>4, <2>1, <2>2, RemoveEnds
<1>9. \A x \in L : u.value[x] \in Vals
  BY <1>4, <1>6 DEF TreeStands
<1>10. TreeStands(u, Listing(u), L, gone)
  BY <1>3, <1>4, <1>5, <1>7, <1>8, <1>9 DEF TreeStands, Stands
<1>11. TakenFrom(o, Listing(u), n)
  <2>1. Ranked(L, c) /\ Lists(InOrder(u), L, c)
    BY <1>3, <1>4, SoundFacts
  <2>2. PICK s, p, z : s = InOrder(t) /\ p = InOrder(u) /\ z = t.value
    OBVIOUS
  <2>3. TakenFrom(Pairs(s, z), Pairs(p, z), n)
    BY <1>2, <1>4, <1>6, <2>1, <2>2, TakeListed
  <2>4. o = Pairs(s, z) /\ Listing(u) = Pairs(p, z)
    BY <1>6, <2>2, ListingIs DEF TreeStands
  <2> QED BY <2>3, <2>4
<1> QED BY <1>4, <1>10, <1>11

LEMMA ReplaceStep ==
  ASSUME NEW t, NEW o, NEW M, NEW gone, TreeStands(t, o, M, gone),
         NEW old \in M, NEW new \in Node \ M,
         NEW u, u = rb_replace_node(t, old, new),
         NEW lost, ~lost => ~gone /\ old \notin {t.first_node, t.last_node}
  PROVE  /\ TreeStands(u, Listing(u), (M \ {old}) \cup {new}, lost)
         /\ SwappedIn(o, Listing(u), old, new)
<1>1. PICK r, w : Stands(t, M, r, w, gone)
  BY DEF TreeStands
<1>2. /\ t \in Trees /\ M \subseteq Node /\ IsFiniteSet(M) /\ Ranked(M, r)
      /\ \A x \in M : t.value[x] \in Int
      /\ Lists(InOrder(t), M, r) /\ Sound(t, M, r, w) /\ Sorted(t, M, r)
  BY <1>1, SoundFacts DEF Stands
<1>3. PICK L : L = (M \ {old}) \cup {new}
  OBVIOUS
<1>4. PICK c, v : Sound(u, L, c, v) /\ Swapped(t, M, r, u, old, new, c)
  BY <1>2, <1>3, ReplaceNodeDoes
<1>5. Sorted(u, L, c) /\ (EndsAre(t, M, r) /\ old \notin {t.first_node, t.last_node} => EndsAre(u, L, c))
  BY <1>2, <1>3, <1>4, SwapSorted
<1>6. lost \/ EndsAre(u, L, c)
  BY <1>1, <1>5 DEF Stands
<1>7. /\ u.count = t.count
      /\ \A x \in Node : u.value[x] = IF x = new THEN t.value[old] ELSE t.value[x]
      /\ \A x \in L : c[x] = r[IF x = new THEN old ELSE x]
  BY <1>3, <1>4 DEF Swapped
<1>8. u.count = Cardinality(L)
  <2>1. IsFiniteSet(M \ {old}) /\ Cardinality(M \ {old}) = Cardinality(M) - 1
    BY <1>2, FS_RemoveElement
  <2>2. Cardinality(L) = Cardinality(M \ {old}) + 1
    BY <1>3, <2>1, FS_AddElement
  <2>3. Cardinality(M) \in Nat
    BY <1>2, FS_CardinalityType
  <2> QED BY <1>7, <2>1, <2>2, <2>3 DEF TreeStands
<1>9. \A x \in L : u.value[x] \in Vals
  BY <1>2, <1>3, <1>7 DEF TreeStands
<1>10. TreeStands(u, Listing(u), L, lost)
  BY <1>4, <1>5, <1>6, <1>8, <1>9 DEF TreeStands, Stands
<1>11. SwappedIn(o, Listing(u), old, new)
  <2>1. Ranked(L, c) /\ Lists(InOrder(u), L, c)
    BY <1>4, SoundFacts
  <2>2. PICK s, p, z, q : s = InOrder(t) /\ p = InOrder(u) /\ z = t.value /\ q = u.value
    OBVIOUS
  <2>3. \A x \in L : q[x] = IF x = new THEN z[old] ELSE z[x]
    BY <1>2, <1>3, <1>7, <2>2
  <2>4. o = Pairs(s, z) /\ Listing(u) = Pairs(p, q)
    BY <2>2, ListingIs DEF TreeStands
  <2>5. (\A x \in M : z[x] \in Int) /\ new \notin M
    BY <1>2, <2>2
  <2>6. SwappedIn(o, Pairs(p, q), old, new)
    BY <1>2, <1>3, <1>7, <2>1, <2>2, <2>3, <2>4, <2>5, SwapListed
  <2> QED BY <2>4, <2>6
<1> QED BY <1>3, <1>10, <1>11

-----------------------------------------------------------------------------
(* What the walks and searches find, by the places of a listing. *)
PlaceAt(s, i) == IF i \in DOMAIN s THEN s[i] ELSE NIL

LEMMA EndPlaces ==
  ASSUME NEW M, NEW r, Ranked(M, r), NEW s, Lists(s, M, r), NEW e
  PROVE  /\ IsEnd(M, r, "left", e) => e = PlaceAt(s, 1)
         /\ IsEnd(M, r, "right", e) => e = PlaceAt(s, Len(s))
<1>1. /\ Len(s) \in Nat /\ DOMAIN s = 1 .. Len(s)
      /\ \A i \in 1 .. Len(s) : s[i] \in M
      /\ \A i, j \in 1 .. Len(s) : i < j <=> r[s[i]] < r[s[j]]
      /\ \A x \in M : \E i \in 1 .. Len(s) : s[i] = x
  BY ListsFacts DEF Ranked
<1>2. CASE M = {}
  <2>1. Len(s) = 0
    BY <1>1, <1>2
  <2>2. PlaceAt(s, 1) = NIL /\ PlaceAt(s, Len(s)) = NIL
    BY <1>1, <2>1 DEF PlaceAt
  <2> QED BY <1>2, <2>2 DEF IsEnd
<1>3. CASE M # {}
  <2>1. 1 \in 1 .. Len(s) /\ Len(s) \in 1 .. Len(s)
    <3>1. PICK x \in M : TRUE
      BY <1>3
    <3>2. PICK i \in 1 .. Len(s) : s[i] = x
      BY <1>1
    <3> QED BY <1>1, <3>2
  <2>2. PlaceAt(s, 1) = s[1] /\ PlaceAt(s, Len(s)) = s[Len(s)]
    BY <1>1, <2>1 DEF PlaceAt
  <2>3. ASSUME IsEnd(M, r, "left", e) PROVE e = s[1]
    <3>1. PICK i \in 1 .. Len(s) : s[i] = e
      BY <1>1, <1>3, <2>3 DEF IsEnd
    <3>2. ~(r[s[1]] < r[e])
      BY <1>1, <1>3, <2>1, <2>3 DEF IsEnd, Toward
    <3>3. ~(1 < i)
      BY <1>1, <2>1, <3>1, <3>2
    <3> QED BY <1>1, <3>1, <3>3
  <2>4. ASSUME IsEnd(M, r, "right", e) PROVE e = s[Len(s)]
    <3>1. PICK i \in 1 .. Len(s) : s[i] = e
      BY <1>1, <1>3, <2>4 DEF IsEnd
    <3>2. ~(r[e] < r[s[Len(s)]])
      BY <1>1, <1>3, <2>1, <2>4 DEF IsEnd, Toward
    <3>3. ~(i < Len(s))
      BY <1>1, <2>1, <3>1, <3>2
    <3> QED BY <1>1, <3>1, <3>3
  <2> QED BY <2>2, <2>3, <2>4
<1> QED BY <1>2, <1>3

LEMMA NextPlaces ==
  ASSUME NEW M, NEW r, Ranked(M, r), NEW s, Lists(s, M, r), NEW i \in DOMAIN s, NEW e, NIL \notin M
  PROVE  /\ IsNext(M, r, s[i], "right", e) => e = PlaceAt(s, i + 1)
         /\ IsNext(M, r, s[i], "left", e) => e = PlaceAt(s, i - 1)
<1>1. /\ Len(s) \in Nat /\ DOMAIN s = 1 .. Len(s)
      /\ \A j \in 1 .. Len(s) : s[j] \in M
      /\ \A k, j \in 1 .. Len(s) : k < j <=> r[s[k]] < r[s[j]]
      /\ \A x \in M : \E j \in 1 .. Len(s) : s[j] = x
  BY ListsFacts DEF Ranked
<1>2. i \in 1 .. Len(s)
  BY <1>1
<1>3. ASSUME IsNext(M, r, s[i], "right", e) PROVE e = PlaceAt(s, i + 1)
  <2>1. CASE e = NIL
    <3>1. SUFFICES ASSUME i + 1 \in 1 .. Len(s) PROVE FALSE
      BY <1>1, <2>1 DEF PlaceAt
    <3>2. r[s[i]] < r[s[i + 1]] /\ s[i + 1] \in M
      <4>1. i < i + 1
        BY <1>2
      <4> QED BY <1>1, <1>2, <3>1, <4>1
    <3> QED BY <1>3, <2>1, <3>2 DEF IsNext, Toward
  <2>2. CASE e # NIL
    <3>1. e \in M /\ r[s[i]] < r[e] /\ \A y \in M : ~(r[s[i]] < r[y] /\ r[y] < r[e])
      BY <1>3, <2>2 DEF IsNext, Toward
    <3>2. PICK j \in 1 .. Len(s) : s[j] = e
      BY <1>1, <3>1
    <3>3. i < j
      BY <1>1, <1>2, <3>1, <3>2
    <3>4. PICK k \in 1 .. Len(s) : k = i + 1 /\ i < k
      BY <1>1, <1>2, <3>3
    <3>5. ~(k < j)
      BY <1>1, <1>2, <3>1, <3>2, <3>4
    <3>6. j = i + 1
      BY <1>2, <3>3, <3>4, <3>5
    <3> QED BY <1>1, <3>2, <3>6 DEF PlaceAt
  <2> QED BY <2>1, <2>2
<1>4. ASSUME IsNext(M, r, s[i], "left", e) PROVE e = PlaceAt(s, i - 1)
  <2>1. CASE e = NIL
    <3>1. SUFFICES ASSUME i - 1 \in 1 .. Len(s) PROVE FALSE
      BY <1>1, <2>1 DEF PlaceAt
    <3>2. r[s[i - 1]] < r[s[i]] /\ s[i - 1] \in M
      <4>1. i - 1 < i
        BY <1>2
      <4> QED BY <1>1, <1>2, <3>1, <4>1
    <3> QED BY <1>4, <2>1, <3>2 DEF IsNext, Toward
  <2>2. CASE e # NIL
    <3>1. e \in M /\ r[e] < r[s[i]] /\ \A y \in M : ~(r[y] < r[s[i]] /\ r[e] < r[y])
      BY <1>4, <2>2 DEF IsNext, Toward
    <3>2. PICK j \in 1 .. Len(s) : s[j] = e
      BY <1>1, <3>1
    <3>3. j < i
      BY <1>1, <1>2, <3>1, <3>2
    <3>4. PICK k \in 1 .. Len(s) : k = i - 1 /\ k < i
      BY <1>1, <1>2, <3>3
    <3>5. ~(j < k)
      BY <1>1, <1>2, <3>1, <3>2, <3>4
    <3>6. j = i - 1
      BY <1>2, <3>3, <3>4, <3>5
    <3> QED BY <1>1, <3>2, <3>6 DEF PlaceAt
  <2> QED BY <2>1, <2>2
<1> QED BY <1>3, <1>4

(* The first of the listed nodes with a property. *)
FirstOf(s, above, e) ==
  IF above = {} THEN e = NIL ELSE \E i \in above : e = s[i] /\ \A j \in above : i <= j

AnyOf(equal, e) == IF equal = {} THEN e = NIL ELSE e \in equal

LEMMA FirstPlace ==
  ASSUME NEW M, NEW r, Ranked(M, r), NEW s, Lists(s, M, r), NIL \notin M,
         NEW A, A \subseteq M, NEW above, above = {i \in DOMAIN s : s[i] \in A},
         NEW e, IsFirst(A, r, e)
  PROVE  FirstOf(s, above, e)
<1>1. /\ Len(s) \in Nat /\ DOMAIN s = 1 .. Len(s)
      /\ \A j \in 1 .. Len(s) : s[j] \in M
      /\ \A k, j \in 1 .. Len(s) : k < j <=> r[s[k]] < r[s[j]]
      /\ \A x \in M : \E j \in 1 .. Len(s) : s[j] = x
  BY ListsFacts DEF Ranked
<1>2. CASE e = NIL
  BY <1>2 DEF IsFirst, FirstOf
<1>3. CASE e # NIL
  <2>1. e \in A /\ \A y \in A : r[e] <= r[y]
    BY <1>3 DEF IsFirst
  <2>2. PICK i \in 1 .. Len(s) : s[i] = e
    BY <1>1, <2>1
  <2>3. i \in above
    BY <1>1, <2>1, <2>2
  <2>4. ASSUME NEW j \in above PROVE i <= j
    <3>1. j \in 1 .. Len(s) /\ s[j] \in A
      BY <1>1
    <3>2. r[e] <= r[s[j]] /\ r[e] \in Int /\ r[s[j]] \in Int
      BY <2>1, <3>1 DEF Ranked
    <3>3. ~(j < i)
      BY <1>1, <2>2, <3>1, <3>2
    <3> QED BY <1>1, <3>1, <3>3
  <2> QED BY <2>2, <2>3, <2>4 DEF FirstOf
<1> QED BY <1>2, <1>3

SearchesFind(t, M, s) ==
  /\ rb_first(t) = PlaceAt(s, 1) /\ rb_last(t) = PlaceAt(s, Len(s))
  /\ \A i \in DOMAIN s : /\ rb_next(t, s[i]) = PlaceAt(s, i + 1)
                         /\ rb_prev(t, s[i]) = PlaceAt(s, i - 1)
  /\ \A key \in Int :
       /\ FirstOf(s, {i \in DOMAIN s : t.value[s[i]] > key}, rb_first_greater(t, key))
       /\ AnyOf({n \in M : t.value[n] = key}, search_node(t, key))

LEMMA StandsSearches ==
  ASSUME NEW t, NEW o, NEW M, NEW gone, TreeStands(t, o, M, gone),
         NEW s, s = [i \in DOMAIN o |-> o[i][1]]
  PROVE  SearchesFind(t, M, s)
<1>1. PICK r, w : Sound(t, M, r, w) /\ Sorted(t, M, r)
  BY DEF TreeStands, Stands
<1>2. PICK b : Shape(t, M, r, b, w)
  BY <1>1 DEF Sound, Formed
<1>3. NIL \notin M /\ Ranked(M, r) /\ Lists(InOrder(t), M, r)
  BY <1>1, SoundFacts
<1>4. s = InOrder(t)
  <2>1. PICK k : k = InOrder(t)
    OBVIOUS
  <2>2. o = Pairs(k, t.value)
    BY <2>1, ListingIs DEF TreeStands
  <2>3. k \in Seq(M)
    BY <1>3, <2>1 DEF Lists
  <2>4. DOMAIN o = DOMAIN k /\ \A i \in DOMAIN k : o[i][1] = k[i]
    BY <2>2 DEF Pairs
  <2>5. s = [i \in DOMAIN k |-> k[i]]
    BY <2>4
  <2> QED BY <2>1, <2>3, <2>5
<1>5. Lists(s, M, r) /\ DOMAIN s = 1 .. Len(s) /\ \A i \in DOMAIN s : s[i] \in M
  BY <1>3, <1>4, ListsFacts, SMTT(30) DEF Ranked
<1>6. "left" \in Side /\ "right" \in Side
  BY DEF Side
<1>7. rb_first(t) = PlaceAt(s, 1) /\ rb_last(t) = PlaceAt(s, Len(s))
  <2>1. IsEnd(M, r, "left", rb_first(t)) /\ IsEnd(M, r, "right", rb_last(t))
    BY <1>2, <1>6, EndsFound DEF rb_first, rb_last
  <2> QED BY <1>3, <1>5, <2>1, EndPlaces
<1>8. ASSUME NEW i \in DOMAIN s
      PROVE rb_next(t, s[i]) = PlaceAt(s, i + 1) /\ rb_prev(t, s[i]) = PlaceAt(s, i - 1)
  <2>1. PICK n \in M : n = s[i]
    BY <1>5
  <2>2. IsNext(M, r, n, "right", rb_next(t, n)) /\ IsNext(M, r, n, "left", rb_prev(t, n))
    BY <1>2, <1>6, NextFound DEF rb_next, rb_prev
  <2> QED BY <1>3, <1>5, <2>1, <2>2, NextPlaces
<1>9. ASSUME NEW key \in Int
      PROVE  /\ FirstOf(s, {i \in DOMAIN s : t.value[s[i]] > key}, rb_first_greater(t, key))
             /\ AnyOf({n \in M : t.value[n] = key}, search_node(t, key))
  <2>0. PICK above, equal : /\ above = {i \in DOMAIN s : t.value[s[i]] > key}
                            /\ equal = {n \in M : t.value[n] = key}
    OBVIOUS
  <2>1. PICK A : A = {x \in M : t.value[x] > key}
    OBVIOUS
  <2>2. PICK e : e = rb_first_greater(t, key)
    OBVIOUS
  <2>3. IsFirst(A, r, e)
    BY <1>1, <1>2, <2>1, <2>2, GreaterFound
  <2>4. A \subseteq M /\ above = {i \in DOMAIN s : s[i] \in A}
    BY <1>5, <2>0, <2>1
  <2>5. FirstOf(s, above, e)
    BY <1>3, <1>5, <2>3, <2>4, FirstPlace
  <2>6. PICK f : f = search_node(t, key)
    OBVIOUS
  <2>7. IsHit(t, M, key, f)
    BY <1>1, <1>2, <2>6, SearchFound
  <2>8. AnyOf(equal, f)
    BY <2>0, <2>7 DEF IsHit, AnyOf
  <2> QED BY <2>0, <2>2, <2>5, <2>6, <2>8
<1> QED BY <1>7, <1>8, <1>9 DEF SearchesFind

-----------------------------------------------------------------------------
(* The inductive invariant. *)
TreeInv == TreeStands(tree, order, inside, endGone)

LEMMA InitSound ==
  ASSUME NEW t \in Trees, t.rb_node = NIL
  PROVE  \E r, w : Sound(t, {}, r, w)
<1>1. PICK r, b, w : /\ r = [x \in Node |-> 0] /\ b = [x \in Node |-> [s \in Side |-> 0]]
                     /\ w = [s \in Side |-> 0]
  OBVIOUS
<1>2. r \in [Node -> Int] /\ b \in [Node -> [Side -> Int]] /\ w \in [Side -> Int]
  BY <1>1
<1>3. Shape(t, {}, r, b, w)
  BY <1>2 DEF Shape, Linked, Placed
<1>4. Even(t, {})
  BY DEF Even, Heights
<1> QED BY <1>3, <1>4 DEF Sound, Formed, Calm, Red

LEMMA TreeInitStands == TreeInit => TreeInv
<1>1. SUFFICES ASSUME TreeInit PROVE TreeInv
  OBVIOUS
<1>2. PICK t, o : t = tree /\ o = order
  OBVIOUS
<1>3. t = [rb_root_init EXCEPT !.value = NodeValue]
  BY <1>1, <1>2 DEF TreeInit
<1>4. t \in Trees /\ t.rb_node = NIL /\ t.first_node = NIL /\ t.last_node = NIL /\ t.count = 0
  <2>1. NodeValue \in [Node -> Int]
    BY RbTreeCallsAssumption
  <2>2. rb_node_init \in NodeRec
    BY DEF rb_node_init, NodeRec, Ptr, Hue
  <2>3. [n \in Node |-> rb_node_init] \in [Node -> NodeRec]
    BY <2>2
  <2>4. t = [rb_node |-> NIL, first_node |-> NIL, last_node |-> NIL, count |-> 0,
             node |-> [n \in Node |-> rb_node_init], value |-> NodeValue]
    BY <1>3 DEF rb_root_init
  <2> QED BY <2>1, <2>3, <2>4 DEF Trees, Ptr
<1>5. PICK r, w : Sound(t, {}, r, w)
  BY <1>4, InitSound
<1>6. Listing(t) = <<>>
  <2>1. PICK s : s = InOrder(t)
    OBVIOUS
  <2>2. s \in Seq({})
    BY <1>5, <2>1, SoundFacts DEF Lists
  <2>3. s = <<>>
    BY <2>2
  <2>4. Pairs(s, t.value) = <<>>
    BY <2>3 DEF Pairs
  <2> QED BY <2>1, <2>4, ListingIs
<1>7. EndsAre(t, {}, r)
  BY <1>4 DEF EndsAre, IsEnd
<1>8. Stands(t, {}, r, w, endGone)
  BY <1>5, <1>7 DEF Stands, Sorted
<1>9. o = <<>> /\ inside = {}
  BY <1>1, <1>2 DEF TreeInit
<1>10. t.count = Cardinality({})
  BY <1>4, FS_EmptySet
<1>11. TreeStands(t, o, {}, endGone)
  BY <1>6, <1>8, <1>9, <1>10 DEF TreeStands
<1> QED BY <1>2, <1>9, <1>11 DEF TreeInv

LEMMA TreeInsertKeeps ==
  ASSUME TreeInv, NEW n \in Node, TreeInsert(n)
  PROVE  TreeInv' /\ PutInto(order, order', n, NodeValue[n])
<1>1. /\ n \in Node \ inside /\ tree' = rb_insert_node([tree EXCEPT !.value[n] = NodeValue[n]], n)
      /\ order' = Listing(tree') /\ inside' = inside \cup {n} /\ endGone' = endGone
  BY DEF TreeInsert, Become
<1>2. PICK t, o, M, gone : t = tree /\ o = order /\ M = inside /\ gone = endGone
  OBVIOUS
<1>3. PICK u : u = tree'
  OBVIOUS
<1>4. TreeStands(t, o, M, gone)
  BY <1>2 DEF TreeInv
<1>5. n \in Node \ M /\ u = rb_insert_node([t EXCEPT !.value[n] = NodeValue[n]], n)
  BY <1>1, <1>2, <1>3
<1>6. /\ TreeStands(u, Listing(u), M \cup {n}, gone)
      /\ PutInto(o, Listing(u), n, NodeValue[n])
  BY <1>4, <1>5, InsertStep
<1>7. TreeStands(tree', order', inside', endGone')
  BY <1>1, <1>2, <1>3, <1>6
<1> QED BY <1>1, <1>2, <1>3, <1>6, <1>7 DEF TreeInv

LEMMA TreeRemoveKeeps ==
  ASSUME TreeInv, NEW n \in Node, TreeRemove(n)
  PROVE  TreeInv' /\ TakenFrom(order, order', n)
<1>1. /\ n \in inside /\ tree' = rb_remove_node(tree, n)
      /\ order' = Listing(tree') /\ inside' = inside \ {n} /\ endGone' = endGone
  BY DEF TreeRemove, Become
<1>2. PICK t, o, M, gone : t = tree /\ o = order /\ M = inside /\ gone = endGone
  OBVIOUS
<1>3. PICK u : u = tree'
  OBVIOUS
<1>4. TreeStands(t, o, M, gone)
  BY <1>2 DEF TreeInv
<1>5. n \in M /\ u = rb_remove_node(t, n)
  BY <1>1, <1>2, <1>3
<1>6. TreeStands(u, Listing(u), M \ {n}, gone) /\ TakenFrom(o, Listing(u), n)
  BY <1>4, <1>5, RemoveStep
<1>7. TreeStands(tree', order', inside', endGone')
  BY <1>1, <1>2, <1>3, <1>6
<1> QED BY <1>1, <1>2, <1>3, <1>6, <1>7 DEF TreeInv

LEMMA TreeReplaceKeeps ==
  ASSUME TreeInv, NEW victim \in Node, NEW new \in Spare, TreeReplace(victim, new)
  PROVE  TreeInv' /\ SwappedIn(order, order', victim, new)
<1>1. /\ victim \in inside /\ new \notin inside /\ tree' = rb_replace_node(tree, victim, new)
      /\ order' = Listing(tree') /\ inside' = (inside \ {victim}) \cup {new}
      /\ endGone' = (endGone \/ victim \in {tree.first_node, tree.last_node})
  BY DEF TreeReplace, Become
<1>2. PICK t, o, M, gone : t = tree /\ o = order /\ M = inside /\ gone = endGone
  OBVIOUS
<1>3. PICK u, lost : u = tree' /\ lost = endGone'
  OBVIOUS
<1>4. TreeStands(t, o, M, gone)
  BY <1>2 DEF TreeInv
<1>5. victim \in M /\ new \in Node \ M /\ u = rb_replace_node(t, victim, new)
  BY <1>1, <1>2, <1>3, RbTreeCallsAssumption
<1>6. ~lost => ~gone /\ victim \notin {t.first_node, t.last_node}
  BY <1>1, <1>2, <1>3
<1>7. /\ TreeStands(u, Listing(u), (M \ {victim}) \cup {new}, lost)
      /\ SwappedIn(o, Listing(u), victim, new)
  BY <1>4, <1>5, <1>6, ReplaceStep
<1>8. TreeStands(tree', order', inside', endGone')
  BY <1>1, <1>2, <1>3, <1>7
<1> QED BY <1>1, <1>2, <1>3, <1>7, <1>8 DEF TreeInv

LEMMA TreeNextKeeps == TreeInv /\ [TreeNext]_treeVars => TreeInv'
<1>1. SUFFICES ASSUME TreeInv, [TreeNext]_treeVars PROVE TreeInv'
  OBVIOUS
<1>2. CASE UNCHANGED treeVars
  BY <1>1, <1>2 DEF TreeInv, treeVars
<1>3. CASE \E n \in Node : TreeInsert(n)
  BY <1>1, <1>3, TreeInsertKeeps
<1>4. CASE \E n \in Node : TreeRemove(n)
  BY <1>1, <1>4, TreeRemoveKeeps
<1>5. CASE \E victim \in Node, new \in Spare : TreeReplace(victim, new)
  BY <1>1, <1>5, TreeReplaceKeeps
<1> QED BY <1>1, <1>2, <1>3, <1>4, <1>5 DEF TreeNext

LEMMA TreeAlwaysStands == TreeSpec => []TreeInv
<1> QED BY TreeInitStands, TreeNextKeeps, PTL DEF TreeSpec

-----------------------------------------------------------------------------
(* The theorems. *)
LEMMA StandsBalanced ==
  ASSUME NEW t, NEW o, NEW M, NEW gone, TreeStands(t, o, M, gone)
  PROVE  RedBlack(t) /\ {o[i][1] : i \in DOMAIN o} = M /\ t.count = Cardinality(M)
<1>1. PICK r, w : Sound(t, M, r, w)
  BY DEF TreeStands, Stands
<1>2. RedBlack(t) /\ Ranked(M, r) /\ Lists(InOrder(t), M, r)
  BY <1>1, SoundFacts
<1>3. PICK s : s = InOrder(t)
  OBVIOUS
<1>4. /\ DOMAIN s = 1 .. Len(s) /\ \A i \in 1 .. Len(s) : s[i] \in M
      /\ \A x \in M : \E i \in 1 .. Len(s) : s[i] = x
  BY <1>2, <1>3, ListsFacts DEF Ranked
<1>5. o = Pairs(s, t.value)
  BY <1>3, ListingIs DEF TreeStands
<1>6. DOMAIN o = DOMAIN s /\ \A i \in DOMAIN s : o[i][1] = s[i]
  BY <1>5 DEF Pairs
<1> QED BY <1>2, <1>4, <1>6 DEF TreeStands

(* Through every insertion and removal of rbtree.c the tree keeps the red- *)
(* black rules, its parent pointers agree with its children, and it holds  *)
(* exactly the nodes of its owner, as many as root->count says.            *)
THEOREM TreeStaysBalanced == TreeSpec => []TreeBalanced
<1>1. TreeInv => TreeBalanced
  BY StandsBalanced DEF TreeInv, TreeBalanced
<1> QED BY <1>1, TreeAlwaysStands, PTL

(* first_node and last_node, which rb_insert_node and rb_remove_node keep  *)
(* on the side, are the nodes rb_first and rb_last find by walking, until  *)
(* rb_replace_node is called for one of them.                              *)
THEOREM EndsStayCached == TreeSpec => []EndsCached
<1>1. ASSUME TreeInv, ~endGone
      PROVE  tree.first_node = rb_first(tree) /\ tree.last_node = rb_last(tree)
  <2>1. PICK t, M : t = tree /\ M = inside
    OBVIOUS
  <2>2. PICK r, w : Sound(t, M, r, w) /\ EndsAre(t, M, r)
    BY <1>1, <2>1 DEF TreeInv, TreeStands, Stands
  <2>3. PICK b : Shape(t, M, r, b, w)
    BY <2>2 DEF Sound, Formed
  <2>4. "left" \in Side /\ "right" \in Side
    BY DEF Side
  <2>5. IsEnd(M, r, "left", rb_first(t)) /\ IsEnd(M, r, "right", rb_last(t))
    BY <2>3, <2>4, EndsFound DEF rb_first, rb_last
  <2>6. Ranked(M, r) /\ Lists(InOrder(t), M, r)
    BY <2>2, SoundFacts
  <2>7. PICK s : Lists(s, M, r)
    BY <2>6
  <2>8. rb_first(t) = PlaceAt(s, 1) /\ rb_last(t) = PlaceAt(s, Len(s))
    BY <2>5, <2>6, <2>7, EndPlaces
  <2>9. t.first_node = PlaceAt(s, 1) /\ t.last_node = PlaceAt(s, Len(s))
    BY <2>2, <2>6, <2>7, EndPlaces DEF EndsAre
  <2> QED BY <2>1, <2>8, <2>9
<1>2. TreeInv => EndsCached
  BY <1>1 DEF EndsCached
<1> QED BY <1>2, TreeAlwaysStands, PTL

(* rb_next, rb_prev, rb_first and rb_last walk the nodes in their order;   *)
(* rb_first_greater finds the first node above a key, search_node one with *)
(* the key, and each returns NULL only where there is none.                *)
THEOREM TreeSearchesRight == TreeSpec => []TreeSearches
<1>1. ASSUME TreeInv PROVE TreeSearches
  <2>1. PICK t, o, M : t = tree /\ o = order /\ M = inside
    OBVIOUS
  <2>2. PICK s : s = [i \in DOMAIN o |-> o[i][1]]
    OBVIOUS
  <2>3. TreeStands(t, o, M, endGone)
    BY <1>1, <2>1 DEF TreeInv
  <2>4. SearchesFind(t, M, s)
    BY <2>2, <2>3, StandsSearches
  <2>5. \A key \in {NodeValue[n] : n \in Node} \cup {0} : key \in Int
    <3> TAKE key \in {NodeValue[n] : n \in Node} \cup {0}
    <3>1. CASE key = 0
      BY <3>1
    <3>2. CASE key \in {NodeValue[n] : n \in Node}
      <4>1. PICK n \in Node : key = NodeValue[n]
        BY <3>2
      <4> QED BY <4>1, RbTreeCallsAssumption
    <3> QED BY <3>1, <3>2
  <2>6. /\ rb_first(t) = PlaceAt(s, 1) /\ rb_last(t) = PlaceAt(s, Len(s))
        /\ \A i \in DOMAIN s : rb_next(t, s[i]) = PlaceAt(s, i + 1) /\ rb_prev(t, s[i]) = PlaceAt(s, i - 1)
    BY <2>4 DEF SearchesFind
  <2>7. ASSUME NEW key \in {NodeValue[n] : n \in Node} \cup {0},
               NEW above, above = {i \in DOMAIN s : t.value[s[i]] > key},
               NEW equal, equal = {n \in M : t.value[n] = key}
        PROVE  /\ IF above = {} THEN rb_first_greater(t, key) = NIL
                  ELSE \E i \in above : /\ rb_first_greater(t, key) = s[i]
                                        /\ \A j \in above : i <= j
               /\ IF equal = {} THEN search_node(t, key) = NIL ELSE search_node(t, key) \in equal
    <3>1. key \in Int
      BY <2>5
    <3>2. FirstOf(s, above, rb_first_greater(t, key)) /\ AnyOf(equal, search_node(t, key))
      BY <2>4, <2>7, <3>1 DEF SearchesFind
    <3> QED BY <3>2 DEF FirstOf, AnyOf
  <2> DEFINE seq == [i \in DOMAIN order |-> order[i][1]]
             At(i) == IF i \in DOMAIN seq THEN seq[i] ELSE NIL
             Above(key) == {i \in DOMAIN seq : tree.value[seq[i]] > key}
             Equal(key) == {n \in inside : tree.value[n] = key}
  <2>8. s = seq
    BY <2>1, <2>2
  <2>9. /\ rb_first(tree) = At(1) /\ rb_last(tree) = At(Len(seq))
        /\ \A i \in DOMAIN seq : rb_next(tree, seq[i]) = At(i + 1) /\ rb_prev(tree, seq[i]) = At(i - 1)
    <3> HIDE DEF seq
    <3> QED BY <2>1, <2>6, <2>8 DEF PlaceAt
  <2>10. ASSUME NEW key \in {NodeValue[n] : n \in Node} \cup {0}
         PROVE  /\ IF Above(key) = {} THEN rb_first_greater(tree, key) = NIL
                   ELSE \E i \in Above(key) : /\ rb_first_greater(tree, key) = seq[i]
                                              /\ \A j \in Above(key) : i <= j
                /\ IF Equal(key) = {} THEN search_node(tree, key) = NIL ELSE search_node(tree, key) \in Equal(key)
    <3>1. PICK above, equal : above = Above(key) /\ equal = Equal(key)
      OBVIOUS
    <3>2. above = {i \in DOMAIN s : t.value[s[i]] > key}
      <4> HIDE DEF seq
      <4> QED BY <2>1, <2>8, <3>1
    <3>3. equal = {n \in M : t.value[n] = key}
      BY <2>1, <3>1
    <3> HIDE DEF seq, Above, Equal
    <3>4. /\ IF above = {} THEN rb_first_greater(t, key) = NIL
             ELSE \E i \in above : /\ rb_first_greater(t, key) = s[i] /\ \A j \in above : i <= j
          /\ IF equal = {} THEN search_node(t, key) = NIL ELSE search_node(t, key) \in equal
      BY <2>7, <2>10, <3>2, <3>3
    <3> QED BY <2>1, <2>8, <3>1, <3>4
  <2> QED BY <2>9, <2>10 DEF TreeSearches
<1> QED BY <1>1, TreeAlwaysStands, PTL

LEMMA OrderedNodesAre ==
  ASSUME TreeInv
  PROVE  Ordered!Nodes = inside
  BY StandsBalanced DEF TreeInv, Ordered!Nodes

LEMMA TreeStepImplements ==
  ASSUME TreeInv, TreeInv', TreeNext
  PROVE  Ordered!Next
<1>1. Ordered!Nodes = inside
  BY OrderedNodesAre
<1>2. Ordered!Nodes' = inside'
  <2>1. TreeStands(tree', order', inside', endGone')
    BY DEF TreeInv
  <2>2. {order'[i][1] : i \in DOMAIN order'} = inside'
    BY <2>1, StandsBalanced
  <2> QED BY <2>2 DEF Ordered!Nodes
<1>3. ASSUME NEW n \in Node, TreeInsert(n) PROVE Ordered!Next
  <2>1. n \in (Ordered!Nodes' \ Ordered!Nodes) \cap Node
    BY <1>1, <1>2, <1>3 DEF TreeInsert
  <2>2. PutInto(order, order', n, NodeValue[n])
    BY <1>3, TreeInsertKeeps
  <2>3. Ordered!Put(n, NodeValue[n])
    BY <2>2 DEF PutInto, Ordered!Put, InsertAt, Ordered!InsertAt
  <2> QED BY <2>1, <2>3 DEF Ordered!Next
<1>4. ASSUME NEW n \in Node, TreeRemove(n) PROVE Ordered!Next
  <2>1. n \in Ordered!Nodes
    BY <1>1, <1>4 DEF TreeRemove
  <2>2. TakenFrom(order, order', n)
    BY <1>4, TreeRemoveKeeps
  <2>3. Ordered!Take(n)
    BY <2>2 DEF TakenFrom, Ordered!Take, RemoveAt, Ordered!RemoveAt
  <2> QED BY <2>1, <2>3 DEF Ordered!Next
<1>5. ASSUME NEW victim \in Node, NEW new \in Spare, TreeReplace(victim, new) PROVE Ordered!Next
  <2>1. victim \in Ordered!Nodes /\ new \in Node \ Ordered!Nodes
    BY <1>1, <1>5, RbTreeCallsAssumption DEF TreeReplace
  <2>2. SwappedIn(order, order', victim, new)
    BY <1>5, TreeReplaceKeeps
  <2>3. Ordered!Swap(victim, new)
    BY <2>2 DEF SwappedIn, Ordered!Swap
  <2> QED BY <2>1, <2>3 DEF Ordered!Next
<1> QED BY <1>3, <1>4, <1>5 DEF TreeNext

(* Every call on the tree is a step of the sorted list rbtree.h promises:  *)
(* rb_insert_node puts a node behind those of its value, rb_remove_node    *)
(* takes one out, rb_replace_node puts a node in the place of another.     *)
THEOREM TreeImplements == TreeSpec => ImplementsOrderedNodes
<1>1. TreeInit => Ordered!Init
  BY DEF TreeInit, Ordered!Init
<1>2. ASSUME TreeInv, TreeInv', [TreeNext]_treeVars PROVE [Ordered!Next]_order
  <2>1. CASE TreeNext
    BY <1>2, <2>1, TreeStepImplements
  <2>2. CASE UNCHANGED treeVars
    BY <2>2 DEF treeVars
  <2> QED BY <1>2, <2>1, <2>2
<1> QED
  BY <1>1, <1>2, TreeInitStands, TreeNextKeeps, PTL
     DEF TreeSpec, ImplementsOrderedNodes, Ordered!Spec

-----------------------------------------------------------------------------
(* memalloc.c.  A tree of the blocks M by their sizes. *)
BySize(t, M) ==
  t.count = Cardinality(M) /\ \E r, w : Stands(t, M, r, w, FALSE)

LEMMA BySizeTypes ==
  ASSUME NEW t, NEW M, BySize(t, M)
  PROVE  /\ t \in Trees /\ t.value \in [Node -> Int]
         /\ M \subseteq Node /\ NIL \notin M /\ IsFiniteSet(M)
<1>1. PICK r, w : Sound(t, M, r, w)
  BY DEF BySize, Stands
<1> QED BY <1>1, SoundFacts DEF Trees

(* The value of a node outside a tree says nothing. *)
LEMMA BySizeValued ==
  ASSUME NEW t, NEW M, BySize(t, M), NEW n \in Node \ M, NEW k \in Int,
         NEW u, u = Valued(t, n, k)
  PROVE  BySize(u, M) /\ \A x \in Node : u.value[x] = IF x = n THEN k ELSE t.value[x]
<1>1. PICK r, w : Sound(t, M, r, w) /\ Sorted(t, M, r) /\ EndsAre(t, M, r)
  BY DEF BySize, Stands
<1>2. t \in Trees /\ M \subseteq Node
  BY BySizeTypes
<1>3. /\ u \in Trees /\ u.rb_node = t.rb_node /\ u.node = t.node /\ u.count = t.count
      /\ u.first_node = t.first_node /\ u.last_node = t.last_node
      /\ \A x \in Node : u.value[x] = IF x = n THEN k ELSE t.value[x]
  BY <1>2, ValuedDoes
<1>4. Sound(u, M, r, w)
  BY <1>1, <1>3, OutsideSound
<1>5. \A x \in M : u.value[x] = t.value[x]
  BY <1>2, <1>3
<1>6. Sorted(u, M, r)
  BY <1>1, <1>5 DEF Sorted
<1>7. EndsAre(u, M, r)
  BY <1>1, <1>3 DEF EndsAre
<1>8. u.count = Cardinality(M)
  BY <1>3 DEF BySize
<1> QED BY <1>3, <1>4, <1>6, <1>7, <1>8 DEF BySize, Stands

PutIn(t, M, n, u) == BySize(u, M \cup {n}) /\ u.value = t.value

LEMMA BySizeInsert ==
  ASSUME NEW t, NEW M, BySize(t, M), NEW n \in Node \ M, NEW u, u = rb_insert_node(t, n)
  PROVE  PutIn(t, M, n, u)
<1>1. PICK r, w : Sound(t, M, r, w) /\ Sorted(t, M, r) /\ EndsAre(t, M, r)
  BY DEF BySize, Stands
<1>2. IsFiniteSet(M)
  BY BySizeTypes
<1>3. PICK c, v : Sound(u, M \cup {n}, c, v) /\ Inserted(t, M, r, u, n, c)
  BY <1>1, InsertNodeDoes
<1>4. PICK L : L = M \cup {n}
  OBVIOUS
<1>5. Sorted(u, L, c)
  BY <1>1, <1>3, <1>4, InsertSorted
<1>6. t.count = Cardinality(M)
  BY DEF BySize
<1>7. EndsAre(u, L, c)
  BY <1>1, <1>3, <1>4, <1>6, InsertEnds
<1>8. u.count = t.count + 1 /\ u.value = t.value
  BY <1>3 DEF Inserted
<1>9. u.count = Cardinality(L)
  <2>1. Cardinality(L) = Cardinality(M) + 1
    BY <1>2, <1>4, FS_AddElement
  <2> QED BY <1>6, <1>8, <2>1
<1> QED BY <1>3, <1>4, <1>5, <1>7, <1>8, <1>9 DEF BySize, Stands, PutIn

(* A node may get another value before it leaves the tree, as those that   *)
(* mem_free joins to another block do.                                     *)
LEMMA BySizeRemove ==
  ASSUME NEW t, NEW M, BySize(t, M), NEW n \in M, NEW e \in Trees,
         e.rb_node = t.rb_node, e.node = t.node, e.count = t.count,
         e.first_node = t.first_node, e.last_node = t.last_node,
         \A x \in M \ {n} : e.value[x] = t.value[x],
         NEW u, u = rb_remove_node(e, n)
  PROVE  BySize(u, M \ {n}) /\ u.value = e.value
<1>1. PICK r, w : Sound(t, M, r, w) /\ Sorted(t, M, r) /\ EndsAre(t, M, r)
  BY DEF BySize, Stands
<1>2. IsFiniteSet(M)
  BY BySizeTypes
<1>3. Sound(e, M, r, w)
  BY <1>1, OutsideSound
<1>4. PICK c, v : Sound(u, M \ {n}, c, v) /\ Removed(e, M, r, u, n, c)
  BY <1>3, RemoveNodeDoes
<1>5. PICK L : L = M \ {n}
  OBVIOUS
<1>6. /\ u.count = e.count - 1 /\ u.value = e.value
      /\ \A x, y \in L : r[x] < r[y] <=> c[x] < c[y]
  BY <1>4, <1>5 DEF Removed, SameOrder
<1>7. Sorted(u, L, c)
  <2>1. \A x, y \in L : r[x] < r[y] => t.value[x] <= t.value[y]
    BY <1>1, <1>5 DEF Sorted
  <2>2. \A x \in L : u.value[x] = t.value[x]
    BY <1>5, <1>6
  <2> QED BY <1>6, <2>1, <2>2 DEF Sorted
<1>8. EndsAre(e, M, r)
  BY <1>1 DEF EndsAre
<1>9. e.count = Cardinality(M)
  BY DEF BySize
<1>10. EndsAre(u, L, c)
  BY <1>3, <1>4, <1>5, <1>8, <1>9, RemoveEnds
<1>11. u.count = Cardinality(L)
  <2>1. Cardinality(L) = Cardinality(M) - 1
    BY <1>2, <1>5, FS_RemoveElement
  <2> QED BY <1>6, <1>9, <2>1
<1> QED BY <1>4, <1>5, <1>6, <1>7, <1>10, <1>11 DEF BySize, Stands

(* What memalloc.c asks of the tree. *)
LEMMA BySizeLast ==
  ASSUME NEW t, NEW M, BySize(t, M)
  PROVE  IF M = {} THEN t.last_node = NIL
         ELSE t.last_node \in M /\ \A y \in M : t.value[y] <= t.value[t.last_node]
<1>1. PICK r, w : Sound(t, M, r, w) /\ Sorted(t, M, r) /\ EndsAre(t, M, r)
  BY DEF BySize, Stands
<1>2. /\ Ranked(M, r) /\ \A x, y \in M : r[x] = r[y] => x = y
      /\ \A x \in M : t.value[x] \in Int
  BY <1>1, SoundFacts
<1>3. CASE M = {}
  BY <1>1, <1>3 DEF EndsAre, IsEnd
<1>4. CASE M # {}
  <2>1. PICK e \in M : e = t.last_node /\ \A y \in M : ~(r[e] < r[y])
    BY <1>1, <1>4 DEF EndsAre, IsEnd, Toward
  <2>2. ASSUME NEW y \in M PROVE t.value[y] <= t.value[e]
    <3>1. r[y] \in Int /\ r[e] \in Int
      BY <1>2 DEF Ranked
    <3>2. r[y] < r[e] \/ y = e
      BY <1>2, <2>1, <3>1
    <3> QED BY <1>1, <1>2, <3>2 DEF Sorted
  <2> QED BY <1>4, <2>1, <2>2
<1> QED BY <1>3, <1>4

Smallest(t, A, e) ==
  IF e = NIL THEN A = {} ELSE e \in A /\ \A y \in A : t.value[e] <= t.value[y]

LEMMA BySizeGreater ==
  ASSUME NEW t, NEW M, BySize(t, M), NEW k \in Int, NEW A, A = {x \in M : t.value[x] > k},
         NEW e, e = rb_first_greater(t, k)
  PROVE  Smallest(t, A, e)
<1>1. PICK r, w : Sound(t, M, r, w) /\ Sorted(t, M, r)
  BY DEF BySize, Stands
<1>2. PICK b : Shape(t, M, r, b, w)
  BY <1>1 DEF Sound, Formed
<1>3. IsFirst(A, r, e)
  BY <1>1, <1>2, GreaterFound
<1>4. /\ Ranked(M, r) /\ \A x, y \in M : r[x] = r[y] => x = y
      /\ \A x \in M : t.value[x] \in Int
  BY <1>1, SoundFacts
<1>5. CASE e = NIL
  BY <1>3, <1>5 DEF IsFirst, Smallest
<1>6. CASE e # NIL
  <2>1. e \in A /\ \A y \in A : r[e] <= r[y]
    BY <1>3, <1>6 DEF IsFirst
  <2>2. ASSUME NEW y \in A PROVE t.value[e] <= t.value[y]
    <3>1. r[y] \in Int /\ r[e] \in Int
      BY <1>4, <2>1 DEF Ranked
    <3>2. r[e] < r[y] \/ y = e
      BY <1>4, <2>1, <3>1
    <3> QED BY <1>1, <1>4, <2>1, <3>2 DEF Sorted
  <2> QED BY <1>6, <2>1, <2>2 DEF Smallest
<1> QED BY <1>5, <1>6

Ascending(t, s) == \A i \in 1 .. Len(s) - 1 : t.value[s[i]] <= t.value[s[i + 1]]

LEMMA BySizeExact ==
  ASSUME NEW t, NEW M, BySize(t, M)
  PROVE  /\ RedBlack(t) /\ Members(t) = M /\ Ascending(t, InOrder(t))
         /\ t.first_node = rb_first(t) /\ t.last_node = rb_last(t)
<1>1. PICK r, w : Sound(t, M, r, w) /\ Sorted(t, M, r) /\ EndsAre(t, M, r)
  BY DEF BySize, Stands
<1>2. PICK b : Shape(t, M, r, b, w)
  BY <1>1 DEF Sound, Formed
<1>3. Ranked(M, r) /\ Lists(InOrder(t), M, r) /\ RedBlack(t) /\ Members(t) = M
  BY <1>1, SoundFacts
<1>4. PICK s : s = InOrder(t)
  OBVIOUS
<1>5. Lists(s, M, r)
  BY <1>3, <1>4
<1>6. "left" \in Side /\ "right" \in Side
  BY DEF Side
<1>7. IsEnd(M, r, "left", rb_first(t)) /\ IsEnd(M, r, "right", rb_last(t))
  BY <1>2, <1>6, EndsFound DEF rb_first, rb_last
<1>8. rb_first(t) = PlaceAt(s, 1) /\ rb_last(t) = PlaceAt(s, Len(s))
  BY <1>3, <1>5, <1>7, EndPlaces
<1>9. t.first_node = PlaceAt(s, 1) /\ t.last_node = PlaceAt(s, Len(s))
  BY <1>1, <1>3, <1>5, EndPlaces DEF EndsAre
<1>10. Ascending(t, s)
  <2>1. /\ Len(s) \in Nat /\ \A i \in 1 .. Len(s) : s[i] \in M
        /\ \A i, j \in 1 .. Len(s) : i < j <=> r[s[i]] < r[s[j]]
    BY <1>3, <1>5, ListsFacts DEF Ranked
  <2>2. ASSUME NEW i \in 1 .. Len(s) - 1 PROVE t.value[s[i]] <= t.value[s[i + 1]]
    <3>1. i \in 1 .. Len(s) /\ i + 1 \in 1 .. Len(s) /\ i < i + 1
      BY <2>1
    <3>2. r[s[i]] < r[s[i + 1]] /\ s[i] \in M /\ s[i + 1] \in M
      BY <2>1, <3>1
    <3> QED BY <1>1, <3>2 DEF Sorted
  <2> QED BY <2>2 DEF Ascending
<1> QED BY <1>3, <1>4, <1>8, <1>9, <1>10

-----------------------------------------------------------------------------
(* The blocks R of a heap of n bytes, with their sizes v, from its first   *)
(* byte to its last.                                                       *)
Tiles(R, v, n) ==
  /\ 0 \in R
  /\ \A x \in R : /\ x \in Nat /\ v[x] \in Nat /\ 1 <= v[x] /\ x + v[x] <= n
                  /\ x + v[x] = n \/ x + v[x] \in R
  /\ \A x, y \in R : x < y => x + v[x] <= y

LEMMA TilesSplit ==
  ASSUME NEW R, NEW v, NEW n \in Nat, Tiles(R, v, n), NEW b \in R, NEW k \in Nat, 1 <= k, k < v[b],
         NEW c, c = b + k, NEW u, u[b] = k, u[c] = v[b] - k, \A x \in R \ {b} : u[x] = v[x]
  PROVE  c \notin R /\ Tiles(R \cup {c}, u, n)
<1>1. /\ 0 \in R /\ \A x, y \in R : x < y => x + v[x] <= y
      /\ \A x \in R : x \in Nat /\ v[x] \in Nat /\ 1 <= v[x] /\ x + v[x] <= n
      /\ \A x \in R : x + v[x] = n \/ x + v[x] \in R
  BY DEF Tiles
<1>2. c \in Nat /\ b < c /\ c < b + v[b] /\ b + u[b] = c /\ c + u[c] = b + v[b]
  BY <1>1
<1>3. c \notin R
  <2>1. SUFFICES ASSUME c \in R PROVE FALSE
    OBVIOUS
  <2>2. b + v[b] <= c
    BY <1>1, <1>2, <2>1
  <2> QED BY <1>1, <1>2, <2>2
<1>4. ASSUME NEW x \in R \cup {c}
      PROVE  /\ x \in Nat /\ u[x] \in Nat /\ 1 <= u[x] /\ x + u[x] <= n
             /\ x + u[x] = n \/ x + u[x] \in R \cup {c}
  <2>1. CASE x \in R \ {b}
    BY <1>1, <2>1
  <2>2. CASE x = b
    BY <1>1, <1>2, <2>2
  <2>3. CASE x = c
    <3>1. u[c] \in Nat /\ 1 <= u[c]
      BY <1>1
    <3>2. b + v[b] <= n /\ (b + v[b] = n \/ b + v[b] \in R)
      BY <1>1
    <3> QED BY <1>2, <2>3, <3>1, <3>2
  <2> QED BY <2>1, <2>2, <2>3
<1>5. ASSUME NEW x \in R \cup {c}, NEW y \in R \cup {c}, x < y PROVE x + u[x] <= y
  <2>1. CASE x \in R \ {b} /\ y \in R
    BY <1>1, <1>5, <2>1
  <2>2. CASE x \in R \ {b} /\ y = c
    <3>1. x < b
      <4>1. SUFFICES ASSUME ~(x < b) PROVE FALSE
        OBVIOUS
      <4>2. b < x
        BY <1>1, <2>2, <4>1
      <4>3. b + v[b] <= x
        BY <1>1, <2>2, <4>2
      <4> QED BY <1>1, <1>2, <1>5, <2>2, <4>3
    <3>2. x + v[x] <= b /\ u[x] = v[x] /\ v[x] \in Nat /\ x \in Nat /\ b \in Nat
      BY <1>1, <2>2, <3>1
    <3> QED BY <1>2, <2>2, <3>2
  <2>3. CASE x = b /\ y \in R
    <3>1. b + v[b] <= y /\ y \in Nat /\ b \in Nat /\ v[b] \in Nat
      BY <1>1, <1>5, <2>3
    <3> QED BY <1>2, <2>3, <3>1
  <2>4. CASE x = b /\ y = c
    BY <1>2, <2>4
  <2>5. CASE x = c /\ y \in R
    <3>1. b < y /\ y \in Nat /\ b \in Nat
      BY <1>1, <1>2, <1>5, <2>5
    <3>2. b + v[b] <= y
      BY <1>1, <2>5, <3>1
    <3> QED BY <1>2, <2>5, <3>2
  <2>6. CASE x = c /\ y = c
    BY <1>2, <1>5, <2>6
  <2> QED BY <2>1, <2>2, <2>3, <2>4, <2>5, <2>6
<1> QED BY <1>1, <1>3, <1>4, <1>5 DEF Tiles

LEMMA TilesJoin ==
  ASSUME NEW R, NEW v, NEW n \in Nat, Tiles(R, v, n), NEW a \in R, NEW c \in R, c = a + v[a],
         NEW u, u[a] = v[a] + v[c], \A x \in R \ {a, c} : u[x] = v[x]
  PROVE  Tiles(R \ {c}, u, n)
<1>1. /\ 0 \in R /\ \A x, y \in R : x < y => x + v[x] <= y
      /\ \A x \in R : x \in Nat /\ v[x] \in Nat /\ 1 <= v[x] /\ x + v[x] <= n
      /\ \A x \in R : x + v[x] = n \/ x + v[x] \in R
  BY DEF Tiles
<1>2. a < c /\ a + u[a] = c + v[c] /\ a \in Nat /\ c \in Nat /\ c # 0 /\ u[a] \in Nat /\ 1 <= u[a]
  BY <1>1
<1>3. ASSUME NEW x \in R \ {a} PROVE x + v[x] # c
  <2>1. x \in Nat /\ v[x] \in Nat /\ 1 <= v[x] /\ v[a] \in Nat /\ 1 <= v[a]
    BY <1>1
  <2>2. CASE x < a
    <3>1. x + v[x] <= a
      BY <1>1, <2>2
    <3> QED BY <1>2, <2>1, <3>1
  <2>3. CASE a < x
    <3>1. a + v[a] <= x
      BY <1>1, <2>3
    <3> QED BY <1>2, <2>1, <3>1
  <2> QED BY <1>2, <2>1, <2>2, <2>3
<1>4. ASSUME NEW x \in R \ {c}
      PROVE  /\ x \in Nat /\ u[x] \in Nat /\ 1 <= u[x] /\ x + u[x] <= n
             /\ x + u[x] = n \/ x + u[x] \in R \ {c}
  <2>1. CASE x # a
    BY <1>1, <1>3, <2>1
  <2>2. CASE x = a
    <3>1. c + v[c] <= n /\ (c + v[c] = n \/ c + v[c] \in R) /\ c + v[c] # c
      BY <1>1
    <3> QED BY <1>2, <2>2, <3>1
  <2> QED BY <2>1, <2>2
<1>5. ASSUME NEW x \in R \ {c}, NEW y \in R \ {c}, x < y PROVE x + u[x] <= y
  <2>1. CASE x # a
    BY <1>1, <1>5, <2>1
  <2>2. CASE x = a
    <3>1. a + v[a] <= y /\ y \in Nat
      BY <1>1, <1>5, <2>2
    <3>2. c < y
      BY <1>2, <3>1
    <3>3. c + v[c] <= y
      BY <1>1, <3>2
    <3> QED BY <1>2, <2>2, <3>3
  <2> QED BY <2>1, <2>2
<1> QED BY <1>1, <1>2, <1>4, <1>5 DEF Tiles

-----------------------------------------------------------------------------
(* The bytes of the blocks M. *)
UnusedBytes(v, M) == UNION {b .. b + v[b] - 1 : b \in M}

LEMMA InBytes ==
  ASSUME NEW v, NEW M, NEW x
  PROVE  x \in UnusedBytes(v, M) <=> \E b \in M : x \in b .. b + v[b] - 1
  BY DEF UnusedBytes

LEMMA SpanLeaves ==
  ASSUME NEW B, IsFiniteSet(B), NEW b \in Int, NEW k \in Nat, NEW A, A = B \ (b .. b + k - 1),
         \A x \in b .. b + k - 1 : x \in B
  PROVE  IsFiniteSet(A) /\ Cardinality(A) = Cardinality(B) - k
<1>1. PICK S : S = b .. b + k - 1
  OBVIOUS
<1>2. IsFiniteSet(S) /\ Cardinality(S) = k
  <2>1. b + k - 1 \in Int /\ (IF b > b + k - 1 THEN 0 ELSE (b + k - 1) - b + 1) = k
    OBVIOUS
  <2> QED BY <1>1, <2>1, FS_Interval
<1>3. A \in SUBSET B /\ A \cup S = B /\ A \cap S = {}
  BY <1>1
<1>4. IsFiniteSet(A)
  BY <1>3, FS_Subset
<1>5. Cardinality(A \cup S) = Cardinality(A) + Cardinality(S) - Cardinality(A \cap S)
  BY <1>2, <1>4, FS_Union
<1>6. Cardinality(A \cap S) = 0
  <2>1. Cardinality({}) = 0
    BY FS_EmptySet
  <2> QED BY <1>3, <2>1
<1>7. Cardinality(A) \in Nat
  BY <1>4, FS_CardinalityType
<1>8. Cardinality(B) = Cardinality(A \cup S)
  BY <1>3
<1> QED BY <1>2, <1>4, <1>5, <1>6, <1>7, <1>8

LEMMA BytesFinite ==
  ASSUME NEW R, NEW v, NEW n \in Nat, Tiles(R, v, n), NEW M, M \subseteq R
  PROVE  IsFiniteSet(UnusedBytes(v, M))
<1>1. ASSUME NEW x \in UnusedBytes(v, M) PROVE x \in 0 .. n
  <2>1. PICK b \in M : x \in b .. b + v[b] - 1
    BY <1>1, InBytes
  <2>2. b \in Nat /\ v[b] \in Nat /\ b + v[b] <= n
    BY DEF Tiles
  <2> QED BY <2>1, <2>2
<1>2. IsFiniteSet(0 .. n)
  BY FS_Interval
<1> QED BY <1>1, <1>2, FS_Subset

LEMMA TilesApart ==
  ASSUME NEW R, NEW v, NEW n \in Nat, Tiles(R, v, n), NEW a \in R, NEW b \in R,
         NEW x, x \in a .. a + v[a] - 1, x \in b .. b + v[b] - 1
  PROVE  a = b
<1>1. /\ a \in Nat /\ b \in Nat /\ v[a] \in Nat /\ v[b] \in Nat
      /\ a < b => a + v[a] <= b
      /\ b < a => b + v[b] <= a
  BY DEF Tiles
<1>2. x \in Int /\ a <= x /\ x < a + v[a] /\ b <= x /\ x < b + v[b]
  BY <1>1
<1> QED BY <1>1, <1>2

(* The first k bytes of a block are taken. *)
LEMMA BytesTaken ==
  ASSUME NEW R, NEW v, NEW n \in Nat, Tiles(R, v, n), NEW M, M \subseteq R, NEW b \in M,
         NEW k \in Nat, 1 <= k, k <= v[b], NEW L, NEW u, \A x \in M \ {b} : x \in L /\ u[x] = v[x],
         \A x \in L : x \in M \ {b} \/ (x = b + k /\ u[x] = v[b] - k),
         k < v[b] => b + k \in L
  PROVE  Cardinality(UnusedBytes(u, L)) = Cardinality(UnusedBytes(v, M)) - k
<1>1. b \in Nat /\ v[b] \in Nat
  BY DEF Tiles
<1>2. PICK A, B : A = UnusedBytes(u, L) /\ B = UnusedBytes(v, M)
  OBVIOUS
<1>3. \A x \in b .. b + k - 1 : x \in B
  <2> TAKE x \in b .. b + k - 1
  <2>1. x \in b .. b + v[b] - 1
    BY <1>1
  <2> QED BY <1>2, <2>1, InBytes
<1>4. ASSUME NEW x \in A PROVE x \in B /\ x \notin b .. b + k - 1
  <2>1. PICK c \in L : x \in c .. c + u[c] - 1
    BY <1>2, <1>4, InBytes
  <2>2. CASE c \in M \ {b}
    <3>1. x \in c .. c + v[c] - 1
      BY <2>1, <2>2
    <3>2. x \in B
      BY <1>2, <2>2, <3>1, InBytes
    <3>3. x \notin b .. b + v[b] - 1
      BY <2>2, <3>1, TilesApart
    <3> QED BY <1>1, <3>2, <3>3
  <2>3. CASE c = b + k /\ u[c] = v[b] - k
    <3>1. x \in b .. b + v[b] - 1 /\ x \notin b .. b + k - 1
      BY <1>1, <2>1, <2>3
    <3> QED BY <1>2, <3>1, InBytes
  <2> QED BY <2>2, <2>3
<1>5. ASSUME NEW x \in B, x \notin b .. b + k - 1 PROVE x \in A
  <2>1. PICK c \in M : x \in c .. c + v[c] - 1
    BY <1>2, <1>5, InBytes
  <2>2. CASE c # b
    <3>1. c \in L /\ x \in c .. c + u[c] - 1
      BY <2>1, <2>2
    <3> QED BY <1>2, <3>1, InBytes
  <2>3. CASE c = b
    <3>1. x \in Int /\ b + k <= x /\ x <= b + v[b] - 1 /\ k < v[b]
      BY <1>1, <1>5, <2>1, <2>3
    <3>2. PICK d : d = b + k
      OBVIOUS
    <3>3. d \in L
      BY <1>1, <3>1, <3>2
    <3>4. d \notin M
      <4>1. SUFFICES ASSUME d \in R PROVE FALSE
        OBVIOUS
      <4>2. b < d /\ d < b + v[b]
        BY <1>1, <3>1, <3>2
      <4>3. b + v[b] <= d
        BY <4>1, <4>2 DEF Tiles
      <4> QED BY <1>1, <3>2, <4>2, <4>3
    <3>5. u[d] = v[b] - k
      BY <3>2, <3>3, <3>4
    <3>6. x \in d .. d + u[d] - 1
      BY <1>1, <3>1, <3>2, <3>5
    <3> QED BY <1>2, <3>3, <3>6, InBytes
  <2> QED BY <2>2, <2>3
<1>6. IsFiniteSet(B)
  BY <1>2, BytesFinite
<1>7. A = B \ (b .. b + k - 1)
  BY <1>4, <1>5
<1> QED BY <1>1, <1>2, <1>3, <1>6, <1>7, SpanLeaves

(* Joining blocks changes none of their bytes. *)
LEMMA BytesJoin ==
  ASSUME NEW R, NEW v, NEW n \in Nat, Tiles(R, v, n), NEW M, M \subseteq R, NEW a \in M, NEW c \in M,
         c = a + v[a], NEW u, u[a] = v[a] + v[c], \A x \in R \ {a, c} : u[x] = v[x]
  PROVE  UnusedBytes(u, M \ {c}) = UnusedBytes(v, M)
<1>1. a \in Nat /\ c \in Nat /\ v[a] \in Nat /\ v[c] \in Nat /\ 1 <= v[a] /\ a # c
  BY DEF Tiles
<1>2. PICK A, B : A = UnusedBytes(u, M \ {c}) /\ B = UnusedBytes(v, M)
  OBVIOUS
<1>3. ASSUME NEW x \in A PROVE x \in B
  <2>1. PICK d \in M \ {c} : x \in d .. d + u[d] - 1
    BY <1>2, <1>3, InBytes
  <2>2. CASE d # a
    <3>1. x \in d .. d + v[d] - 1
      BY <2>1, <2>2
    <3> QED BY <1>2, <3>1, InBytes
  <2>3. CASE d = a
    <3>1. x \in a .. a + v[a] - 1 \/ x \in c .. c + v[c] - 1
      BY <1>1, <2>1, <2>3
    <3> QED BY <1>2, <3>1, InBytes
  <2> QED BY <2>2, <2>3
<1>4. ASSUME NEW x \in B PROVE x \in A
  <2>1. PICK d \in M : x \in d .. d + v[d] - 1
    BY <1>2, <1>4, InBytes
  <2>2. CASE d \notin {a, c}
    <3>1. d \in M \ {c} /\ x \in d .. d + u[d] - 1
      BY <2>1, <2>2
    <3> QED BY <1>2, <3>1, InBytes
  <2>3. CASE d \in {a, c}
    <3>1. x \in a .. a + u[a] - 1 /\ a \in M \ {c}
      BY <1>1, <2>1, <2>3
    <3> QED BY <1>2, <3>1, InBytes
  <2> QED BY <2>2, <2>3
<1> QED BY <1>2, <1>3, <1>4

-----------------------------------------------------------------------------
(* The list L has the blocks R in address order. *)
Ascends(L, R) ==
  /\ L \in Seq(R) /\ R \subseteq Nat
  /\ \A i, j \in 1 .. Len(L) : i < j => L[i] < L[j]
  /\ \A x \in R : \E i \in 1 .. Len(L) : L[i] = x

LEMMA AscendsFacts ==
  ASSUME NEW L, NEW R, Ascends(L, R)
  PROVE  /\ L \in Seq(R) /\ Len(L) \in Nat /\ DOMAIN L = 1 .. Len(L)
         /\ \A i \in 1 .. Len(L) : L[i] \in R /\ L[i] \in Nat
         /\ \A i, j \in 1 .. Len(L) : i < j <=> L[i] < L[j]
         /\ \A i, j \in 1 .. Len(L) : L[i] = L[j] => i = j
         /\ \A x \in R : \E i \in 1 .. Len(L) : L[i] = x
         /\ Range(L) = R
<1>1. L \in Seq(R) /\ Len(L) \in Nat /\ DOMAIN L = 1 .. Len(L)
  BY DEF Ascends
<1>2. \A i \in 1 .. Len(L) : L[i] \in R /\ L[i] \in Nat
  <2>1. R \subseteq Nat /\ L \in Seq(R)
    BY DEF Ascends
  <2>2. \A i \in 1 .. Len(L) : L[i] \in R
    BY <2>1
  <2> QED BY <2>1, <2>2
<1>3. \A i, j \in 1 .. Len(L) : i < j => L[i] < L[j]
  BY DEF Ascends
<1>4. ASSUME NEW i \in 1 .. Len(L), NEW j \in 1 .. Len(L)
      PROVE  (i < j <=> L[i] < L[j]) /\ (L[i] = L[j] => i = j)
  <2>1. L[i] \in Nat /\ L[j] \in Nat
    BY <1>2
  <2>2. i < j \/ i = j \/ j < i
    OBVIOUS
  <2> QED BY <1>3, <2>1, <2>2
<1>5. \A x \in R : \E i \in 1 .. Len(L) : L[i] = x
  BY DEF Ascends
<1>6. Range(L) = R
  BY <1>1, <1>2, <1>5 DEF Range
<1> QED BY <1>1, <1>2, <1>4, <1>5, <1>6

LEMMA AscendsDrop ==
  ASSUME NEW L, NEW R, Ascends(L, R), NEW i \in 1 .. Len(L)
  PROVE  Ascends(RemoveAt(L, i), R \ {L[i]})
<1>1. /\ L \in Seq(R) /\ Len(L) \in Nat /\ R \subseteq Nat
      /\ \A j \in 1 .. Len(L) : L[j] \in R
      /\ \A k, j \in 1 .. Len(L) : k < j => L[k] < L[j]
      /\ \A k, j \in 1 .. Len(L) : L[k] = L[j] => k = j
      /\ \A x \in R : \E j \in 1 .. Len(L) : L[j] = x
  BY AscendsFacts DEF Ascends
<1>2. PICK q, n : q = RemoveAt(L, i) /\ n = Len(L) - 1
  OBVIOUS
<1>3. n \in Nat /\ i \in Nat /\ 1 <= i /\ i <= Len(L) /\ Len(L) = n + 1 /\ i \in 1 .. n + 1
  BY <1>1, <1>2
<1>4. Dropped(R, L, i, q)
  BY <1>1, <1>2, <1>3, DropAt
<1>5. q \in Seq(R) /\ Len(q) = n /\ \A j \in 1 .. n : q[j] = IF j < i THEN L[j] ELSE L[j + 1]
  BY <1>2, <1>4 DEF Dropped
<1>6. ASSUME NEW j \in 1 .. n
      PROVE  \E k \in 1 .. n + 1 : k = (IF j < i THEN j ELSE j + 1) /\ q[j] = L[k] /\ k # i
  BY <1>3, <1>5
<1>7. \A j \in 1 .. n : q[j] \in R \ {L[i]}
  <2> TAKE j \in 1 .. n
  <2>1. PICK k \in 1 .. n + 1 : q[j] = L[k] /\ k # i
    BY <1>6
  <2> QED BY <1>1, <1>3, <2>1
<1>8. ASSUME NEW j \in 1 .. n, NEW l \in 1 .. n, j < l PROVE q[j] < q[l]
  <2>1. PICK k \in 1 .. n + 1 : k = (IF j < i THEN j ELSE j + 1) /\ q[j] = L[k]
    BY <1>6
  <2>2. PICK m \in 1 .. n + 1 : m = (IF l < i THEN l ELSE l + 1) /\ q[l] = L[m]
    BY <1>6
  <2>3. k < m
    BY <1>3, <1>8, <2>1, <2>2
  <2> QED BY <1>1, <1>3, <2>1, <2>2, <2>3
<1>9. ASSUME NEW x \in R \ {L[i]} PROVE \E j \in 1 .. n : q[j] = x
  <2>1. PICK k \in 1 .. n + 1 : L[k] = x
    BY <1>1, <1>3
  <2>2. CASE k < i
    <3>1. k \in 1 .. n
      BY <1>3, <2>2
    <3> QED BY <1>5, <2>1, <2>2, <3>1
  <2>3. CASE ~(k < i)
    <3>1. PICK j \in 1 .. n : k = j + 1 /\ ~(j < i)
      <4>1. k # i
        BY <2>1
      <4>2. k - 1 \in 1 .. n /\ k = (k - 1) + 1 /\ ~(k - 1 < i)
        BY <1>3, <2>3, <4>1
      <4> QED BY <4>2
    <3> QED BY <1>5, <2>1, <3>1
  <2> QED BY <2>2, <2>3
<1>10. q \in Seq(R \ {L[i]})
  BY <1>5, <1>7
<1>11. R \ {L[i]} \subseteq Nat
  BY <1>1
<1> QED BY <1>2, <1>5, <1>8, <1>9, <1>10, <1>11 DEF Ascends

LinkPut(S, L, i, e, q) ==
  /\ q \in Seq(S) /\ Len(q) = Len(L) + 1
  /\ \A j \in 1 .. Len(L) + 1 : q[j] = IF j < i THEN L[j] ELSE IF j = i THEN e ELSE L[j - 1]

LEMMA AscendsPut ==
  ASSUME NEW L, NEW R, Ascends(L, R), NEW i \in 1 .. Len(L), NEW c \in Nat, c \notin R,
         L[i] < c, i < Len(L) => c < L[i + 1], NEW q, LinkPut(R \cup {c}, L, i + 1, c, q)
  PROVE  Ascends(q, R \cup {c})
<1>1. /\ L \in Seq(R) /\ Len(L) \in Nat /\ R \subseteq Nat
      /\ \A j \in 1 .. Len(L) : L[j] \in R /\ L[j] \in Nat
      /\ \A k, j \in 1 .. Len(L) : k < j => L[k] < L[j]
      /\ \A x \in R : \E j \in 1 .. Len(L) : L[j] = x
  BY AscendsFacts DEF Ascends
<1>2. PICK n \in Nat : n = Len(L)
  BY <1>1
<1>3. /\ q \in Seq(R \cup {c}) /\ Len(q) = n + 1
      /\ \A j \in 1 .. n + 1 : q[j] = IF j < i + 1 THEN L[j] ELSE IF j = i + 1 THEN c ELSE L[j - 1]
  BY <1>2 DEF LinkPut
<1>4. \A j \in 1 .. n : j <= i => L[j] < c
  <2> TAKE j \in 1 .. n
  <2>1. j = i \/ ~(j <= i) \/ L[j] < L[i]
    BY <1>1, <1>2
  <2>2. L[j] \in Nat /\ L[i] \in Nat
    BY <1>1, <1>2
  <2> QED BY <2>1, <2>2
<1>5. \A j \in 1 .. n : i < j => c < L[j]
  <2> TAKE j \in 1 .. n
  <2> HAVE i < j
  <2>1. i + 1 \in 1 .. n /\ i < n
    BY <1>2
  <2>2. c < L[i + 1] /\ (j = i + 1 \/ L[i + 1] < L[j])
    BY <1>1, <1>2, <2>1
  <2>3. L[j] \in Nat /\ L[i + 1] \in Nat
    BY <1>1, <1>2, <2>1
  <2> QED BY <2>2, <2>3
<1>6. ASSUME NEW j \in 1 .. n + 1, NEW l \in 1 .. n + 1, j < l PROVE q[j] < q[l]
  <2>1. CASE l < i + 1
    <3>1. j \in 1 .. n /\ l \in 1 .. n /\ j < i + 1
      BY <1>2, <1>6, <2>1
    <3> QED BY <1>1, <1>2, <1>3, <1>6, <2>1, <3>1
  <2>2. CASE l = i + 1
    <3>1. j \in 1 .. n /\ j <= i /\ j < i + 1
      BY <1>2, <1>6, <2>2
    <3> QED BY <1>3, <1>4, <2>2, <3>1
  <2>3. CASE i + 1 < l
    <3>1. PICK k \in 1 .. n : k = l - 1 /\ i < k /\ q[l] = L[k]
      <4>1. l - 1 \in 1 .. n /\ i < l - 1 /\ ~(l < i + 1) /\ l # i + 1
        BY <1>2, <2>3
      <4> QED BY <1>3, <4>1
    <3>2. CASE j < i + 1
      <4>1. j \in 1 .. n /\ j < k
        BY <1>2, <3>1, <3>2
      <4> QED BY <1>1, <1>2, <1>3, <3>1, <3>2, <4>1
    <3>3. CASE j = i + 1
      BY <1>3, <1>5, <3>1, <3>3
    <3>4. CASE i + 1 < j
      <4>1. PICK m \in 1 .. n : m = j - 1 /\ q[j] = L[m]
        <5>1. j - 1 \in 1 .. n /\ ~(j < i + 1) /\ j # i + 1
          BY <1>2, <1>6, <3>4
        <5> QED BY <1>3, <5>1
      <4>2. m < k
        BY <1>6, <3>1, <4>1
      <4> QED BY <1>1, <1>2, <3>1, <4>1, <4>2
    <3> QED BY <3>2, <3>3, <3>4
  <2> QED BY <2>1, <2>2, <2>3
<1>7. ASSUME NEW x \in R \cup {c} PROVE \E j \in 1 .. n + 1 : q[j] = x
  <2>1. CASE x = c
    <3>1. i + 1 \in 1 .. n + 1 /\ ~(i + 1 < i + 1)
      BY <1>2
    <3> QED BY <1>3, <2>1, <3>1
  <2>2. CASE x \in R
    <3>1. PICK k \in 1 .. n : L[k] = x
      BY <1>1, <1>2, <2>2
    <3>2. CASE k <= i
      <4>1. k \in 1 .. n + 1 /\ k < i + 1
        BY <1>2, <3>2
      <4> QED BY <1>3, <3>1, <4>1
    <3>3. CASE ~(k <= i)
      <4>1. PICK j \in 1 .. n + 1 : j = k + 1 /\ j - 1 = k /\ ~(j < i + 1) /\ j # i + 1
        BY <1>2, <3>3
      <4> QED BY <1>3, <3>1, <4>1
    <3> QED BY <3>2, <3>3
  <2> QED BY <2>1, <2>2
<1>8. R \cup {c} \subseteq Nat
  BY <1>1
<1> QED BY <1>3, <1>6, <1>7, <1>8 DEF Ascends

LEMMA InsertAtDoes ==
  ASSUME NEW S, NEW L \in Seq(S), NEW i \in Nat, 1 <= i, i <= Len(L) + 1, NEW e \in S
  PROVE  LinkPut(S, L, i, e, InsertAt(L, i, e))
<1>1. PICK p \in Nat : p = i - 1 /\ p <= Len(L) /\ i = p + 1
  OBVIOUS
<1>2. PartOf(L, p, p)
  BY <1>1 DEF PartOf
<1>3. InsertAt(L, i, e) = SpliceOf(L, p, p, e)
  BY <1>1 DEF InsertAt, SpliceOf
<1>4. Spliced(S, L, p, p, e, InsertAt(L, i, e))
  BY <1>2, <1>3, Splice
<1> QED BY <1>1, <1>4 DEF Spliced, LinkPut

(* Where a block of the list is, and what is behind it. *)
PlaceInLink(L, b) ==
  LET I == {i \in 1 .. Len(L) : L[i] = b} IN IF I # {} THEN Min(I) ELSE 0

LEMMA FoundAt ==
  ASSUME NEW L, NEW R, Ascends(L, R), NEW i \in 1 .. Len(L), NEW b, L[i] = b
  PROVE  PlaceInLink(L, b) = i
<1>1. \A j \in 1 .. Len(L) : L[j] = L[i] => j = i
  BY AscendsFacts
<1>2. PICK I : I = {j \in 1 .. Len(L) : L[j] = b}
  OBVIOUS
<1>3. I = {i}
  BY <1>1, <1>2
<1>4. Len(L) \in Nat /\ i \in Nat
  BY AscendsFacts
<1>5. Min(I) = i
  BY <1>3, <1>4, MinIsLeast
<1>6. PlaceInLink(L, b) = IF I # {} THEN Min(I) ELSE 0
  BY <1>2 DEF PlaceInLink
<1> QED BY <1>3, <1>5, <1>6

LEMMA SelectIsPosition ==
  ASSUME NEW L, NEW b
  PROVE  SelectInSeq(L, LAMBDA c : c = b) = PlaceInLink(L, b)
  BY DEF SelectInSeq, PlaceInLink

LEMMA LinkAfterIs ==
  ASSUME NEW L, NEW R, Ascends(L, R), NEW i \in 1 .. Len(L), NEW b, L[i] = b, NEW n
  PROVE  LinkAfter(L, b, n) = InsertAt(L, i + 1, n)
<1>1. LinkAfter(L, b, n) = InsertAt(L, PlaceInLink(L, b) + 1, n)
  BY DEF LinkAfter, SelectInSeq, PlaceInLink
<1> QED BY <1>1, FoundAt

LEMMA NextBlock ==
  ASSUME NEW L, NEW R, Ascends(L, R), NEW v, NEW n \in Nat, Tiles(R, v, n), NEW i \in 1 .. Len(L)
  PROVE  L[i] + v[L[i]] = IF i < Len(L) THEN L[i + 1] ELSE n
<1>1. /\ Len(L) \in Nat
      /\ \A j \in 1 .. Len(L) : L[j] \in R /\ L[j] \in Nat
      /\ \A k, j \in 1 .. Len(L) : k < j <=> L[k] < L[j]
      /\ \A x \in R : \E j \in 1 .. Len(L) : L[j] = x
  BY AscendsFacts
<1>2. PICK b, e : b = L[i] /\ e = b + v[b]
  OBVIOUS
<1>3. b \in R /\ b \in Nat /\ v[b] \in Nat /\ 1 <= v[b] /\ (e = n \/ e \in R) /\ e \in Nat /\ b < e
  BY <1>1, <1>2 DEF Tiles
<1>4. CASE i < Len(L)
  <2>1. PICK j \in 1 .. Len(L) : j = i + 1
    BY <1>1, <1>4
  <2>2. PICK d \in R : d = L[j] /\ b < d
    BY <1>1, <1>2, <2>1
  <2>3. e <= d /\ d < n /\ d \in Nat
    <3>1. e <= d
      BY <1>2, <1>3, <2>2 DEF Tiles
    <3>2. d \in Nat /\ v[d] \in Nat /\ 1 <= v[d] /\ d + v[d] <= n
      BY DEF Tiles
    <3> QED BY <3>1, <3>2
  <2>4. e \in R
    BY <1>3, <2>3
  <2>5. PICK k \in 1 .. Len(L) : L[k] = e
    BY <1>1, <2>4
  <2>6. i < k
    BY <1>1, <1>2, <1>3, <2>5
  <2>7. ~(j < k)
    <3>1. ~(d < e)
      BY <1>3, <2>3
    <3> QED BY <1>1, <2>2, <2>5, <3>1
  <2>8. k = j
    BY <1>1, <2>1, <2>6, <2>7
  <2> QED BY <1>2, <1>4, <2>1, <2>5, <2>8
<1>5. CASE ~(i < Len(L))
  <2>1. SUFFICES ASSUME e \in R PROVE FALSE
    BY <1>2, <1>3, <1>5
  <2>2. PICK k \in 1 .. Len(L) : L[k] = e
    BY <1>1, <2>1
  <2>3. i < k
    BY <1>1, <1>2, <1>3, <2>2
  <2> QED BY <1>1, <1>5, <2>3
<1> QED BY <1>4, <1>5

-----------------------------------------------------------------------------
(* Of the unused blocks F no two are neighbours, but those in lo with the  *)
(* one before them and those in hi with the one behind them.               *)
Parted(F, v, lo, hi) ==
  \A x, y \in F : x + v[x] = y => x \in hi \/ y \in lo

LEMMA RightClosed ==
  ASSUME NEW F, NEW v, NEW b, Parted(F, v, {b}, {b}), b + v[b] \notin F
  PROVE  Parted(F, v, {b}, {})
  BY DEF Parted

LEMMA LeftClosed ==
  ASSUME NEW F, NEW v, NEW b, Parted(F, v, {b}, {}), \A x \in F : x + v[x] # b
  PROVE  Parted(F, v, {}, {})
  BY DEF Parted

-----------------------------------------------------------------------------
(* mem_free on the way: the list z.l has the blocks R, those in F are not  *)
(* in use, and all of these but w are in the tree z.t.                     *)
Halfway(z, R, F, w) ==
  /\ Ascends(z.l, R) /\ R \subseteq Node /\ F \subseteq R /\ w \in F
  /\ Tiles(R, z.t.value, MemRoom)
  /\ BySize(z.t, F \ {w})

(* Block a has taken in block c behind it, and no byte of the unused       *)
(* blocks changed its state.                                               *)
Absorbed(z, x, a, c) ==
  /\ x.t.value[a] = z.t.value[a] + z.t.value[c]
  /\ \A y \in Node \ {a, c} : x.t.value[y] = z.t.value[y]

LEMMA MemRoomFacts ==
  ASSUME skew \in Skews
  PROVE  MemRoom \in Nat /\ MemRoom <= MEM_HEAP /\ MEM_MIN_SIZE < MemRoom
<1>1. skew \in 0 .. 7 /\ MEM_HEAP \in Nat /\ MEM_HEAP > 8 + MEM_MIN_SIZE
  BY MemAllocAssumption DEF MEM_ALIGN
<1>2. (-skew) % 8 \in 0 .. 7
  BY <1>1
<1>3. MEM_MIN_SIZE = 144
  BY DEF MEM_MIN_SIZE, mem_struct_size
<1> QED BY <1>1, <1>2, <1>3 DEF MemRoom, MEM_ALIGN

(* e is t with another value for node a. *)
Revalued(t, a, k, e) ==
  /\ e \in Trees /\ e.rb_node = t.rb_node /\ e.node = t.node /\ e.count = t.count
  /\ e.first_node = t.first_node /\ e.last_node = t.last_node
  /\ \A x \in Node : e.value[x] = IF x = a THEN k ELSE t.value[x]

LEMMA ValuedIs ==
  ASSUME NEW t, t \in Trees, NEW a, a \in Node, NEW k, k \in Int
  PROVE  Revalued(t, a, k, Valued(t, a, k))
<1>1. PICK e : e = Valued(t, a, k)
  OBVIOUS
<1> QED BY <1>1, ValuedDoes DEF Revalued

(* The tree u of the blocks M after a took in c and t had the values. *)
TookIn(t, a, c, k, u, M) ==
  /\ BySize(u, M)
  /\ \A y \in Node : u.value[y] = IF y = c THEN 0 ELSE IF y = a THEN k ELSE t.value[y]

(* A block's value changes and either it or the other one leaves the tree. *)
LEMMA AbsorbTree ==
  ASSUME NEW t, NEW M, BySize(t, M), NEW a \in Node, NEW c \in Node, a # c,
         NEW d \in M, a \in M => a = d, c \in M => c = d, NEW k \in Int,
         NEW e, Revalued(t, a, k, e), NEW r, r = rb_remove_node(e, d), NEW u, u = Valued(r, c, 0)
  PROVE  TookIn(t, a, c, k, u, M \ {d})
<1>2. t \in Trees /\ M \subseteq Node
  BY BySizeTypes
<1>3. /\ e \in Trees /\ e.rb_node = t.rb_node /\ e.node = t.node /\ e.count = t.count
      /\ e.first_node = t.first_node /\ e.last_node = t.last_node
      /\ \A x \in Node : e.value[x] = IF x = a THEN k ELSE t.value[x]
  BY DEF Revalued
<1>5. \A x \in M \ {d} : e.value[x] = t.value[x]
  BY <1>2, <1>3
<1>6. BySize(r, M \ {d}) /\ r.value = e.value
  BY <1>3, <1>5, BySizeRemove
<1>7. PICK L : L = M \ {d}
  OBVIOUS
<1>8. c \notin L
  BY <1>7
<1>9. BySize(u, L) /\ \A x \in Node : u.value[x] = IF x = c THEN 0 ELSE r.value[x]
  <2>1. BySize(r, L) /\ c \in Node \ L /\ 0 \in Int
    BY <1>6, <1>7, <1>8, SMTT(30)
  <2> QED BY <2>1, BySizeValued
<1> QED BY <1>3, <1>6, <1>7, <1>9 DEF TookIn

AbsorbedIn(z, x, R, F, a, c, p) ==
  /\ Halfway(x, R \ {c}, F \ {c}, a) /\ Absorbed(z, x, a, c) /\ c = a + z.t.value[a]
  /\ x.l = RemoveAt(z.l, p + 1) /\ UnusedBytes(x.t.value, F \ {c}) = UnusedBytes(z.t.value, F)

LEMMA AbsorbDoes ==
  ASSUME skew \in Skews, NEW z, NEW R, NEW F, NEW w, Halfway(z, R, F, w),
         NEW p \in 1 .. Len(z.l), p + 1 \in 1 .. Len(z.l), NEW a, a = z.l[p], NEW c, c = z.l[p + 1],
         a \in F, c \in F, w \in {a, c}, NEW g \in {p, p + 1}, z.l[g] # w,
         NEW x, x = Absorb(z, p, p + 1, g)
  PROVE  AbsorbedIn(z, x, R, F, a, c, p)
<1>1. PICK t, L, v : t = z.t /\ L = z.l /\ v = z.t.value
  OBVIOUS
<1>2. /\ Ascends(L, R) /\ R \subseteq Node /\ F \subseteq R /\ w \in F
      /\ Tiles(R, v, MemRoom) /\ BySize(t, F \ {w})
  BY <1>1 DEF Halfway
<1>3. MemRoom \in Nat
  BY MemRoomFacts
<1>4. c = a + v[a]
  <2>1. p < Len(L)
    BY <1>1
  <2> QED BY <1>1, <1>2, <1>3, <2>1, NextBlock
<1>5. a \in Node /\ c \in Node /\ v[a] \in Nat /\ v[c] \in Nat /\ a # c
  BY <1>2, <1>4 DEF Tiles
<1>6. PICK k \in Int : k = v[a] + v[c]
  BY <1>5
<1>8. t \in Trees
  BY <1>2, BySizeTypes
<1>10. PICK d : d = L[g]
  OBVIOUS
<1>11. d \in F \ {w} /\ {w, d} = {a, c}
  BY <1>1, <1>5, <1>10
<1>12. PICK e, r, u : e = Valued(t, a, k) /\ r = rb_remove_node(e, d) /\ u = Valued(r, c, 0)
  OBVIOUS
<1>9. Revalued(t, a, k, e)
  BY <1>5, <1>6, <1>8, <1>12, ValuedIs, Zenon
<1>13. PICK M : M = F \ {w}
  OBVIOUS
<1>14. BySize(t, M) /\ d \in M /\ (a \in M => a = d) /\ (c \in M => c = d)
  BY <1>2, <1>5, <1>11, <1>13
<1>15. TookIn(t, a, c, k, u, M \ {d})
  <2>1. a \in Node /\ c \in Node /\ a # c /\ k \in Int
    BY <1>5, <1>6
  <2>2. r = rb_remove_node(e, d) /\ u = Valued(r, c, 0)
    BY <1>12
  <2> QED BY <1>9, <1>14, <2>1, <2>2, AbsorbTree
<1>16. BySize(u, (F \ {c}) \ {a})
  <2>1. M \ {d} = (F \ {c}) \ {a}
    BY <1>11, <1>13, SMTT(30)
  <2> QED BY <1>15, <2>1 DEF TookIn
<1>17. x.t = u /\ x.l = RemoveAt(L, p + 1)
  BY <1>1, <1>6, <1>10, <1>12 DEF Absorb, SetSize, Size, Valued
<1>18. u.value[a] = v[a] + v[c] /\ \A y \in Node \ {a, c} : u.value[y] = v[y]
  BY <1>1, <1>5, <1>6, <1>15 DEF TookIn
<1>19. \A y \in R \ {a, c} : u.value[y] = v[y]
  BY <1>2, <1>18
<1>20. Tiles(R \ {c}, u.value, MemRoom)
  BY <1>2, <1>3, <1>4, <1>18, <1>19, TilesJoin
<1>21. UnusedBytes(u.value, F \ {c}) = UnusedBytes(v, F)
  BY <1>2, <1>3, <1>4, <1>18, <1>19, BytesJoin
<1>22. Ascends(x.l, R \ {c})
  BY <1>1, <1>2, <1>17, AscendsDrop
<1>23. Halfway(x, R \ {c}, F \ {c}, a)
  <2>1. R \ {c} \subseteq Node /\ F \ {c} \subseteq R \ {c} /\ a \in F \ {c}
    BY <1>2, <1>5
  <2> QED BY <1>16, <1>17, <1>20, <1>22, <2>1 DEF Halfway
<1>24. Absorbed(z, x, a, c)
  BY <1>1, <1>17, <1>18 DEF Absorbed
<1> QED BY <1>1, <1>4, <1>17, <1>21, <1>23, <1>24 DEF AbsorbedIn

-----------------------------------------------------------------------------
(* The list l has the blocks R of the whole heap, those in U are in use    *)
(* and the others, no two of them neighbours, are in the tree t.           *)
Laid(R, t, l, U, s, A) ==
  /\ Ascends(l, R) /\ R \subseteq Node /\ U \subseteq R
  /\ Tiles(R, t.value, MemRoom)
  /\ Parted(R \ U, t.value, {}, {})
  /\ BySize(t, R \ U)
  /\ s = Cardinality(UnusedBytes(t.value, R \ U))
  /\ A \in [Node -> Nat] /\ \A b \in U : mem_struct_size + A[b] <= t.value[b]

LEMMA GrossFacts ==
  ASSUME NEW req \in MemRequests
  PROVE  Gross(req) \in Nat /\ mem_struct_size + req <= Gross(req) /\ 1 <= Gross(req)
<1>1. req \in Nat
  BY MemAllocAssumption
<1>2. PICK q \in Nat : q = req + mem_struct_size /\ mem_struct_size = 72
  BY <1>1 DEF mem_struct_size
<1>3. (-q) % 8 \in 0 .. 7
  BY <1>2
<1>4. Gross(req) = q + ((-q) % 8)
  BY <1>2 DEF Gross, MEM_ALIGN
<1> QED BY <1>1, <1>2, <1>3, <1>4

LEMMA FindBlockFinds ==
  ASSUME NEW t, NEW M, BySize(t, M), NEW k \in Int, NEW A, A = {x \in M : t.value[x] > k}
  PROVE  Smallest(t, A, FindBlock(t, k))
<1>1. M \subseteq Node /\ NIL \notin M /\ t.value \in [Node -> Int]
  BY BySizeTypes
<1>2. PICK e, f : e = t.last_node /\ f = FindBlock(t, k)
  OBVIOUS
<1>3. CASE e # NIL /\ ~(t.value[e] < k)
  <2>1. f = rb_first_greater(t, k)
    BY <1>2, <1>3 DEF FindBlock, Size
  <2> QED BY <1>2, <2>1, BySizeGreater
<1>4. CASE e = NIL \/ t.value[e] < k
  <2>1. f = NIL
    BY <1>2, <1>4 DEF FindBlock, Size
  <2>2. \A x \in M : ~(t.value[x] > k)
    <3>1. CASE M = {}
      BY <3>1
    <3>2. CASE M # {}
      <4>1. e \in M /\ \A y \in M : t.value[y] <= t.value[e]
        BY <1>2, <3>2, BySizeLast
      <4>2. t.value[e] < k
        BY <1>1, <1>4, <4>1
      <4> QED
        <5> TAKE x \in M
        <5>1. t.value[x] <= t.value[e] /\ t.value[x] \in Int /\ t.value[e] \in Int
          BY <1>1, <4>1
        <5> QED BY <4>2, <5>1
    <3> QED BY <3>1, <3>2
  <2> QED BY <1>2, <2>1, <2>2 DEF Smallest
<1> QED BY <1>3, <1>4

-----------------------------------------------------------------------------
(* What the holders of the blocks U were given stays true when another one *)
(* gets block b, and when one returns it.                                  *)
LEMMA AskedGrows ==
  ASSUME NEW U, U \subseteq Node, NEW A \in [Node -> Nat], NEW v, NEW u, NEW b \in Node, NEW q \in Nat,
         \A x \in U : mem_struct_size + A[x] <= v[x], \A x \in U : u[x] = v[x],
         mem_struct_size + q <= u[b], NEW B, B = [A EXCEPT ![b] = q]
  PROVE  B \in [Node -> Nat] /\ \A x \in U \cup {b} : mem_struct_size + B[x] <= u[x]
<1>1. B \in [Node -> Nat] /\ \A x \in Node : B[x] = IF x = b THEN q ELSE A[x]
  OBVIOUS
<1> QED BY <1>1

LEMMA AskedShrinks ==
  ASSUME NEW U, U \subseteq Node, NEW A \in [Node -> Nat], NEW v, NEW u, NEW b \in Node,
         \A x \in U : mem_struct_size + A[x] <= v[x], \A x \in U \ {b} : u[x] = v[x],
         NEW B, B = [A EXCEPT ![b] = 0]
  PROVE  B \in [Node -> Nat] /\ \A x \in U \ {b} : mem_struct_size + B[x] <= u[x]
<1>1. B \in [Node -> Nat] /\ \A x \in Node : B[x] = IF x = b THEN 0 ELSE A[x]
  OBVIOUS
<1> QED BY <1>1

LEMMA BySizeDrop ==
  ASSUME NEW t, NEW M, BySize(t, M), NEW n \in M, NEW u, u = rb_remove_node(t, n)
  PROVE  BySize(u, M \ {n}) /\ u.value = t.value
<1>1. t \in Trees
  BY BySizeTypes
<1>2. \A x \in M \ {n} : t.value[x] = t.value[x]
  OBVIOUS
<1> QED BY <1>1, <1>2, BySizeRemove

(* mem_malloc without and with a split. *)
LEMMA TakeWhole ==
  ASSUME skew \in Skews, NEW R, NEW t, NEW l, NEW U, NEW s, NEW A, Laid(R, t, l, U, s, A),
         NEW b \in R \ U, NEW req \in Nat, mem_struct_size + req <= t.value[b],
         NEW u, u = rb_remove_node(t, b), NEW B, B = [A EXCEPT ![b] = req],
         NEW r, r = s - u.value[b]
  PROVE  Laid(R, u, l, U \cup {b}, r, B)
<1>1. PICK v, n, M : v = t.value /\ n = MemRoom /\ M = R \ U
  OBVIOUS
<1>2. /\ Ascends(l, R) /\ R \subseteq Node /\ U \subseteq R /\ Tiles(R, v, n) /\ Parted(M, v, {}, {})
      /\ BySize(t, M) /\ s = Cardinality(UnusedBytes(v, M)) /\ A \in [Node -> Nat]
      /\ \A x \in U : mem_struct_size + A[x] <= v[x]
  BY <1>1 DEF Laid
<1>3. n \in Nat /\ b \in M /\ M \subseteq R
  BY <1>1, MemRoomFacts
<1>5. BySize(u, M \ {b}) /\ u.value = v
  BY <1>1, <1>2, <1>3, BySizeDrop
<1>6. R \ (U \cup {b}) = M \ {b}
  BY <1>1
<1>7. Parted(M \ {b}, v, {}, {})
  BY <1>2 DEF Parted
<1>8. v[b] \in Nat /\ 1 <= v[b]
  BY <1>2, <1>3 DEF Tiles
<1>9. Cardinality(UnusedBytes(v, M \ {b})) = Cardinality(UnusedBytes(v, M)) - v[b]
  <2>1. PICK K, k : K = M \ {b} /\ k = v[b]
    OBVIOUS
  <2>2. Cardinality(UnusedBytes(v, K)) = Cardinality(UnusedBytes(v, M)) - k
    <3>1. /\ \A x \in M \ {b} : x \in K /\ v[x] = v[x]
          /\ \A x \in K : x \in M \ {b}
          /\ k \in Nat /\ 1 <= k /\ k <= v[b] /\ ~(k < v[b])
      BY <1>8, <2>1
    <3> QED BY <1>2, <1>3, <3>1, BytesTaken
  <2> QED BY <2>1, <2>2
<1>10. B \in [Node -> Nat] /\ \A x \in U \cup {b} : mem_struct_size + B[x] <= v[x]
  <2>1. U \subseteq Node /\ b \in Node /\ mem_struct_size + req <= v[b]
    BY <1>1, <1>2
  <2> QED BY <1>2, <2>1, AskedGrows
<1>11. U \cup {b} \subseteq R
  <2>1. U \subseteq R /\ b \in R
    BY <1>2, SMTT(30)
  <2> QED BY <2>1
<1> QED BY <1>1, <1>2, <1>5, <1>6, <1>7, <1>9, <1>10, <1>11 DEF Laid

LEMMA TakePart ==
  ASSUME skew \in Skews, NEW R, NEW t, NEW l, NEW U, NEW s, NEW A, Laid(R, t, l, U, s, A),
         NEW b \in R \ U, NEW req \in Nat, NEW k \in Nat, 1 <= k, k < t.value[b],
         mem_struct_size + req <= k, NEW c \in Node, c = b + k,
         NEW e, e = rb_remove_node(t, b), NEW f, f = Valued(e, b, k),
         NEW g, g = Valued(f, c, t.value[b] - k), NEW u, u = rb_insert_node(g, c),
         NEW j, j = LinkAfter(l, b, c), NEW B, B = [A EXCEPT ![b] = req],
         NEW r, r = s - u.value[b]
  PROVE  Laid(R \cup {c}, u, j, U \cup {b}, r, B)
<1>1. PICK v, n, M, h : v = t.value /\ n = MemRoom /\ M = R \ U /\ h = v[b] - k
  OBVIOUS
<1>2. /\ Ascends(l, R) /\ R \subseteq Node /\ U \subseteq R /\ Tiles(R, v, n) /\ Parted(M, v, {}, {})
      /\ BySize(t, M) /\ s = Cardinality(UnusedBytes(v, M)) /\ A \in [Node -> Nat]
      /\ \A x \in U : mem_struct_size + A[x] <= v[x]
  BY <1>1 DEF Laid
<1>3. n \in Nat /\ b \in M /\ M \subseteq R
  BY <1>1, MemRoomFacts
<1>4. b \in Nat /\ v[b] \in Nat /\ k < v[b] /\ h \in Nat /\ 1 <= h /\ b < c /\ c < b + v[b] /\ c + h = b + v[b]
  <2>1. b \in Nat /\ v[b] \in Nat
    BY <1>2, <1>3 DEF Tiles
  <2> QED BY <1>1, <2>1
<1>5. BySize(e, M \ {b}) /\ e.value = v
  BY <1>1, <1>2, <1>3, BySizeDrop
<1>6. BySize(f, M \ {b}) /\ \A x \in Node : f.value[x] = IF x = b THEN k ELSE v[x]
  <2>1. PICK K : K = M \ {b}
    OBVIOUS
  <2>2. BySize(e, K) /\ b \in Node \ K /\ k \in Int
    BY <1>2, <1>3, <1>5, <2>1
  <2>3. BySize(f, K) /\ \A x \in Node : f.value[x] = IF x = b THEN k ELSE e.value[x]
    BY <2>2, BySizeValued
  <2> QED BY <1>5, <2>1, <2>3
<1>7. c \notin R
  <2>1. SUFFICES ASSUME c \in R PROVE FALSE
    OBVIOUS
  <2>2. b + v[b] <= c
    BY <1>2, <1>3, <1>4, <2>1 DEF Tiles
  <2> QED BY <1>4, <2>2
<1>8. PICK K : K = M \ {b}
  OBVIOUS
<1>9. c \in Node \ K /\ h \in Int /\ g = Valued(f, c, h)
  BY <1>1, <1>3, <1>4, <1>7, <1>8
<1>10. BySize(g, K) /\ \A x \in Node : g.value[x] = IF x = c THEN h ELSE f.value[x]
  BY <1>6, <1>8, <1>9, BySizeValued
<1>11. BySize(u, K \cup {c}) /\ u.value = g.value
  <2>1. BySize(g, K) /\ c \in Node \ K
    BY <1>9, <1>10
  <2>2. PutIn(g, K, c, u)
    BY <2>1, BySizeInsert
  <2> QED BY <2>2 DEF PutIn
<1>12. PICK w : w = u.value
  OBVIOUS
<1>13. w[b] = k /\ w[c] = h /\ \A x \in R \ {b} : w[x] = v[x]
  <2>1. \A x \in Node : w[x] = IF x = c THEN h ELSE IF x = b THEN k ELSE v[x]
    BY <1>6, <1>10, <1>11, <1>12
  <2> QED BY <1>2, <1>3, <1>7, <2>1
<1>14. Tiles(R \cup {c}, w, n)
  <2>1. w[b] = k /\ w[c] = v[b] - k /\ b \in R /\ 1 <= k /\ k < v[b]
    BY <1>1, <1>13
  <2>2. \A x \in R \ {b} : w[x] = v[x]
    BY <1>13
  <2>3. Tiles(R, v, n) /\ n \in Nat
    BY <1>2, <1>3
  <2> QED BY <2>1, <2>2, <2>3, TilesSplit
<1>15. (R \cup {c}) \ (U \cup {b}) = K \cup {c}
  BY <1>1, <1>2, <1>3, <1>4, <1>7, <1>8
<1>16. Parted(K \cup {c}, w, {}, {})
  <2>1. ASSUME NEW x \in K \cup {c}, NEW y \in K \cup {c}, x + w[x] = y PROVE FALSE
    <3>1. CASE x = c
      <4>1. y = b + v[b] /\ y \in M
        BY <1>4, <1>8, <1>13, <2>1, <3>1
      <4> QED BY <1>2, <1>3, <4>1 DEF Parted
    <3>2. CASE x \in K /\ y \in K
      <4>1. x + v[x] = y /\ x \in M /\ y \in M
        BY <1>3, <1>8, <1>13, <2>1, <3>2
      <4> QED BY <1>2, <4>1 DEF Parted
    <3>3. CASE x \in K /\ y = c
      <4>1. x + v[x] = c /\ x \in R /\ x # b
        BY <1>3, <1>8, <1>13, <2>1, <3>3
      <4>2. /\ x \in Nat /\ v[x] \in Nat /\ 1 <= v[x]
            /\ x < b => x + v[x] <= b
            /\ b < x => b + v[b] <= x
        BY <1>2, <1>3, <4>1 DEF Tiles
      <4> QED BY <1>4, <4>1, <4>2
    <3> QED BY <2>1, <3>1, <3>2, <3>3
  <2> QED BY <2>1 DEF Parted
<1>17. Cardinality(UnusedBytes(w, K \cup {c})) = Cardinality(UnusedBytes(v, M)) - k
  <2>1. PICK L : L = K \cup {c}
    OBVIOUS
  <2>2. /\ \A x \in M \ {b} : x \in L /\ w[x] = v[x]
        /\ \A x \in L : x \in M \ {b} \/ (x = b + k /\ w[x] = v[b] - k)
        /\ k < v[b] => b + k \in L
    BY <1>1, <1>3, <1>8, <1>13, <2>1
  <2>3. k <= v[b]
    BY <1>4
  <2> QED BY <1>2, <1>3, <2>1, <2>2, <2>3, BytesTaken
<1>18. B \in [Node -> Nat] /\ \A x \in U \cup {b} : mem_struct_size + B[x] <= w[x]
  <2>1. U \subseteq Node /\ b \in Node /\ mem_struct_size + req <= w[b] /\ \A x \in U : w[x] = v[x]
    BY <1>1, <1>2, <1>3, <1>13
  <2> QED BY <1>2, <2>1, AskedGrows
<1>19. Ascends(j, R \cup {c})
  <2>1. PICK i \in 1 .. Len(l) : l[i] = b
    BY <1>2, <1>3, AscendsFacts
  <2>3. j = InsertAt(l, i + 1, c)
    BY <1>2, <2>1, LinkAfterIs
  <2>4. Len(l) \in Nat /\ l \in Seq(R \cup {c}) /\ i + 1 \in Nat /\ 1 <= i + 1 /\ i + 1 <= Len(l) + 1
    <3>1. Len(l) \in Nat /\ l \in Seq(R)
      BY <1>2, AscendsFacts
    <3> QED BY <3>1
  <2>5. LinkPut(R \cup {c}, l, i + 1, c, j)
    BY <2>3, <2>4, InsertAtDoes
  <2>6. i < Len(l) => c < l[i + 1]
    <3>1. l[i] + v[l[i]] = IF i < Len(l) THEN l[i + 1] ELSE n
      BY <1>2, <1>3, NextBlock
    <3> QED BY <1>4, <2>1, <3>1
  <2>7. l[i] < c /\ c \in Nat
    BY <1>4, <2>1
  <2> QED BY <1>2, <1>7, <2>5, <2>6, <2>7, AscendsPut
<1>20. U \cup {b} \subseteq R \cup {c} /\ R \cup {c} \subseteq Node
  BY <1>2, <1>3
<1>21. r = Cardinality(UnusedBytes(w, K \cup {c}))
  <2>1. r = s - w[b] /\ w[b] = k
    BY <1>12, <1>13
  <2>2. s = Cardinality(UnusedBytes(v, M))
    BY <1>2, SMTT(30)
  <2> QED BY <1>17, <2>1, <2>2
<1> QED BY <1>1, <1>11, <1>12, <1>14, <1>15, <1>16, <1>18, <1>19, <1>20, <1>21 DEF Laid

-----------------------------------------------------------------------------
(* mem_free on the way, V being the blocks still in use, v the sizes before *)
(* and q the number of bytes of those that are not.                        *)
Joining(z, R, F, w, V, v, q) ==
  /\ Halfway(z, R, F, w)
  /\ R \ F = V
  /\ \A x \in V : z.t.value[x] = v[x]
  /\ Cardinality(UnusedBytes(z.t.value, F)) = q

JoinedIn(z, x, R, F, a, c, p, V, v, q) ==
  /\ Joining(x, R \ {c}, F \ {c}, a, V, v, q)
  /\ Absorbed(z, x, a, c) /\ c = a + z.t.value[a] /\ x.l = RemoveAt(z.l, p + 1)

LEMMA JoiningAbsorb ==
  ASSUME skew \in Skews, NEW z, NEW R, NEW F, NEW w, NEW V, NEW v, NEW q, Joining(z, R, F, w, V, v, q),
         NEW p \in 1 .. Len(z.l), p + 1 \in 1 .. Len(z.l), NEW a, a = z.l[p], NEW c, c = z.l[p + 1],
         a \in F, c \in F, w \in {a, c}, NEW g \in {p, p + 1}, z.l[g] # w,
         NEW x, x = Absorb(z, p, p + 1, g)
  PROVE  JoinedIn(z, x, R, F, a, c, p, V, v, q)
<1>1. /\ Halfway(z, R, F, w) /\ R \ F = V /\ \A y \in V : z.t.value[y] = v[y]
      /\ Cardinality(UnusedBytes(z.t.value, F)) = q
  BY SMTT(30) DEF Joining
<1>3. /\ Halfway(x, R \ {c}, F \ {c}, a) /\ Absorbed(z, x, a, c) /\ c = a + z.t.value[a]
      /\ x.l = RemoveAt(z.l, p + 1) /\ UnusedBytes(x.t.value, F \ {c}) = UnusedBytes(z.t.value, F)
  <2>1. AbsorbedIn(z, x, R, F, a, c, p)
    BY <1>1, AbsorbDoes
  <2> QED BY <2>1 DEF AbsorbedIn
<1>4. (R \ {c}) \ (F \ {c}) = V
  <2>1. R \ F = V
    BY <1>1
  <2> QED BY <2>1
<1>5. ASSUME NEW y \in V PROVE x.t.value[y] = v[y]
  <2>1. R \subseteq Node
    BY <1>1 DEF Halfway
  <2>2. y \in R \ F
    BY <1>1
  <2>3. y \in Node \ {a, c}
    BY <2>1, <2>2, SMTT(30)
  <2>4. x.t.value[y] = z.t.value[y]
    BY <1>3, <2>3 DEF Absorbed
  <2>5. z.t.value[y] = v[y]
    BY <1>1
  <2> QED BY <2>4, <2>5
<1>6. Cardinality(UnusedBytes(x.t.value, F \ {c})) = q
  <2>1. UnusedBytes(x.t.value, F \ {c}) = UnusedBytes(z.t.value, F)
    BY <1>3
  <2>2. Cardinality(UnusedBytes(z.t.value, F)) = q
    BY <1>1, SMTT(30)
  <2> QED BY <2>1, <2>2, ZenonT(40)
<1>7. Joining(x, R \ {c}, F \ {c}, a, V, v, q)
  BY <1>3, <1>4, <1>5, <1>6 DEF Joining
<1> QED BY <1>3, <1>7 DEF JoinedIn

(* The block that is returned comes to the unused ones. *)
LEMMA JoiningStarts ==
  ASSUME skew \in Skews, NEW R, NEW t, NEW l, NEW U, NEW s, NEW A, Laid(R, t, l, U, s, A),
         NEW b \in U, NEW F, F = (R \ U) \cup {b}, NEW z, z = [t |-> t, l |-> l]
  PROVE  /\ Joining(z, R, F, b, U \ {b}, t.value, s + t.value[b])
         /\ Parted(F, t.value, {b}, {b})
<1>1. PICK v, n, M : v = t.value /\ n = MemRoom /\ M = R \ U
  OBVIOUS
<1>2. /\ Ascends(l, R) /\ R \subseteq Node /\ U \subseteq R /\ Tiles(R, v, n) /\ Parted(M, v, {}, {})
      /\ BySize(t, M) /\ s = Cardinality(UnusedBytes(v, M))
  BY <1>1 DEF Laid
<1>3. n \in Nat /\ F \subseteq R /\ b \in F /\ F \ {b} = M
  BY <1>1, <1>2, MemRoomFacts
<1>4. Halfway(z, R, F, b)
  <2>1. z.l = l /\ z.t = t
    OBVIOUS
  <2>2. BySize(z.t, F \ {b}) /\ Tiles(R, z.t.value, MemRoom) /\ Ascends(z.l, R)
    BY <1>1, <1>2, <1>3, <2>1
  <2> QED BY <1>2, <1>3, <2>2 DEF Halfway
<1>5. R \ F = U \ {b}
  BY <1>2
<1>6. Cardinality(UnusedBytes(v, F)) = s + v[b]
  <2>1. v[b] \in Nat /\ 1 <= v[b]
    BY <1>2 DEF Tiles
  <2>2. PICK k : k = v[b]
    OBVIOUS
  <2>3. Cardinality(UnusedBytes(v, M)) = Cardinality(UnusedBytes(v, F)) - k
    <3>1. /\ \A x \in F \ {b} : x \in M /\ v[x] = v[x]
          /\ \A x \in M : x \in F \ {b}
          /\ k \in Nat /\ 1 <= k /\ k <= v[b] /\ ~(k < v[b])
      BY <1>3, <2>1, <2>2
    <3> QED BY <1>2, <1>3, <3>1, BytesTaken
  <2>4. Cardinality(UnusedBytes(v, F)) \in Nat
    <3>1. IsFiniteSet(UnusedBytes(v, F))
      BY <1>2, <1>3, BytesFinite
    <3> QED BY <3>1, FS_CardinalityType
  <2> QED BY <1>2, <2>1, <2>2, <2>3, <2>4
<1>7. Parted(F, v, {b}, {b})
  <2>1. ASSUME NEW x \in F, NEW y \in F, x + v[x] = y, x # b, y # b PROVE FALSE
    <3>1. x \in M /\ y \in M
      BY <1>3, <2>1
    <3> QED BY <1>2, <2>1, <3>1 DEF Parted
  <2> QED BY <2>1 DEF Parted
<1>8. Joining(z, R, F, b, U \ {b}, v, s + v[b])
  BY <1>1, <1>4, <1>5, <1>6 DEF Joining
<1> QED BY <1>1, <1>7, <1>8

(* What is behind a block that does not join the next one. *)
LEMMA NextStays ==
  ASSUME NEW z, NEW R, NEW F, NEW w, skew \in Skews, Halfway(z, R, F, w),
         NEW i \in 1 .. Len(z.l), i + 1 \in 1 .. Len(z.l) => z.l[i + 1] \notin F
  PROVE  z.l[i] + z.t.value[z.l[i]] \notin F
<1>1. PICK L, v, n : L = z.l /\ v = z.t.value /\ n = MemRoom
  OBVIOUS
<1>2. Ascends(L, R) /\ F \subseteq R /\ Tiles(R, v, n)
  BY <1>1 DEF Halfway
<1>3. n \in Nat /\ Len(L) \in Nat
  BY <1>1, <1>2, MemRoomFacts, AscendsFacts
<1>4. L[i] + v[L[i]] = IF i < Len(L) THEN L[i + 1] ELSE n
  BY <1>1, <1>2, <1>3, NextBlock
<1>5. CASE i < Len(L)
  <2>1. i + 1 \in 1 .. Len(L)
    BY <1>1, <1>3, <1>5
  <2> QED BY <1>1, <1>4, <1>5, <2>1
<1>6. CASE ~(i < Len(L))
  <2>1. n \notin R
    <3>1. \A x \in R : x \in Nat /\ v[x] \in Nat /\ 1 <= v[x] /\ x + v[x] <= n
      BY <1>2 DEF Tiles
    <3> QED BY <1>3, <3>1
  <2> QED BY <1>1, <1>2, <1>4, <1>6, <2>1
<1> QED BY <1>5, <1>6

LEMMA DropKeeps ==
  ASSUME NEW L, NEW R, Ascends(L, R), NEW i \in Nat, i + 1 \in 1 .. Len(L), 1 <= i
  PROVE  i \in 1 .. Len(RemoveAt(L, i + 1)) /\ \A j \in 1 .. i : RemoveAt(L, i + 1)[j] = L[j]
<1>1. L \in Seq(R) /\ Len(L) \in Nat
  BY AscendsFacts
<1>2. PICK q, n, k : q = RemoveAt(L, k) /\ n = Len(L) - 1 /\ k = i + 1
  OBVIOUS
<1>3. n \in Nat /\ Len(L) = n + 1 /\ k \in 1 .. n + 1 /\ k \in 1 .. Len(L)
  BY <1>1, <1>2
<1>4. Dropped(R, L, k, q)
  BY <1>1, <1>2, <1>3, DropAt
<1>5. Len(q) = n /\ \A j \in 1 .. n : q[j] = IF j < k THEN L[j] ELSE L[j + 1]
  BY <1>2, <1>4 DEF Dropped
<1>6. i \in 1 .. Len(q)
  BY <1>2, <1>3, <1>5
<1>7. ASSUME NEW j \in 1 .. i PROVE q[j] = L[j]
  <2>1. j \in 1 .. n /\ j < k
    BY <1>2, <1>3
  <2> QED BY <1>5, <2>1
<1> QED BY <1>2, <1>6, <1>7

LEMMA AbsorbedValues ==
  ASSUME NEW z, NEW x, NEW a, NEW c, Absorbed(z, x, a, c), NEW R, R \subseteq Node,
         NEW u, u = z.t.value, NEW w, w = x.t.value
  PROVE  w[a] = u[a] + u[c] /\ \A y \in R \ {a, c} : w[y] = u[y]
  BY DEF Absorbed

LEMMA RightJoins ==
  ASSUME skew \in Skews, NEW z, NEW R, NEW F, NEW b, Halfway(z, R, F, b), NEW c \in F,
         c = b + z.t.value[b], Parted(F, z.t.value, {b}, {b}), NEW x, Absorbed(z, x, b, c)
  PROVE  Parted(F \ {c}, x.t.value, {b}, {})
<1>1. PICK u, w, n : u = z.t.value /\ w = x.t.value /\ n = MemRoom
  OBVIOUS
<1>2. Tiles(R, u, n) /\ F \subseteq R /\ b \in F /\ R \subseteq Node /\ n \in Nat
  BY <1>1, MemRoomFacts DEF Halfway
<1>3. c = b + u[b] /\ Parted(F, u, {b}, {b})
  BY <1>1
<1>4. w[b] = u[b] + u[c] /\ \A y \in R \ {b, c} : w[y] = u[y]
  BY <1>1, <1>2, AbsorbedValues
<1>5. \A y \in F : y \in R /\ y \in Nat /\ u[y] \in Nat /\ 1 <= u[y]
  BY <1>2 DEF Tiles
<1>6. ASSUME NEW y \in F \ {c}, NEW o \in F \ {c}, y + w[y] = o PROVE o = b
  <2>1. CASE y = b
    <3>1. c + u[c] = o
      BY <1>2, <1>3, <1>4, <1>5, <1>6, <2>1
    <3>2. c = b \/ o = b
      BY <1>3, <1>6, <3>1 DEF Parted
    <3> QED BY <1>2, <1>3, <1>5, <3>2
  <2>2. CASE y # b
    <3>1. y + u[y] = o
      BY <1>4, <1>5, <1>6, <2>2
    <3> QED BY <1>3, <1>6, <2>2, <3>1 DEF Parted
  <2> QED BY <2>1, <2>2
<1> QED BY <1>1, <1>6 DEF Parted

LEMMA LeftJoins ==
  ASSUME skew \in Skews, NEW z, NEW R, NEW F, NEW b, Halfway(z, R, F, b), NEW a \in F,
         b = a + z.t.value[a], Parted(F, z.t.value, {b}, {}), NEW x, Absorbed(z, x, a, b)
  PROVE  Parted(F \ {b}, x.t.value, {}, {})
<1>1. PICK u, w, n : u = z.t.value /\ w = x.t.value /\ n = MemRoom
  OBVIOUS
<1>2. Tiles(R, u, n) /\ F \subseteq R /\ b \in F /\ R \subseteq Node /\ n \in Nat
  BY <1>1, MemRoomFacts DEF Halfway
<1>3. b = a + u[a] /\ Parted(F, u, {b}, {})
  BY <1>1
<1>4. w[a] = u[a] + u[b] /\ \A y \in R \ {a, b} : w[y] = u[y]
  BY <1>1, <1>2, AbsorbedValues
<1>5. \A y \in F : y \in R /\ y \in Nat /\ u[y] \in Nat /\ 1 <= u[y]
  BY <1>2 DEF Tiles
<1>6. ASSUME NEW y \in F \ {b}, NEW o \in F \ {b}, y + w[y] = o PROVE FALSE
  <2>1. CASE y = a
    <3>1. b + u[b] = o
      BY <1>2, <1>3, <1>4, <1>5, <1>6, <2>1
    <3> QED BY <1>2, <1>3, <1>6, <3>1 DEF Parted
  <2>2. CASE y # a
    <3>1. y + u[y] = o
      BY <1>4, <1>5, <1>6, <2>2
    <3> QED BY <1>3, <1>6, <3>1 DEF Parted
  <2> QED BY <2>1, <2>2
<1> QED BY <1>1, <1>6 DEF Parted

(* The block joins the next one, if that is not in use. *)
JoinedNext(x, l, i, b, V, v, q) ==
  /\ \E S, G : Joining(x, S, G, b, V, v, q) /\ Parted(G, x.t.value, {b}, {})
  /\ i \in 1 .. Len(x.l) /\ \A j \in 1 .. i : x.l[j] = l[j]

ToNext(z, i, U, x) ==
  /\ i + 1 \in 1 .. Len(z.l) /\ z.l[i + 1] \notin U => x = Absorb(z, i, i + 1, i + 1)
  /\ ~(i + 1 \in 1 .. Len(z.l) /\ z.l[i + 1] \notin U) => x = z

LEMMA BlockJoinsNext ==
  ASSUME skew \in Skews, NEW z, NEW R, NEW F, NEW b, NEW V, NEW v, NEW q, Joining(z, R, F, b, V, v, q),
         Parted(F, z.t.value, {b}, {b}), NEW i \in 1 .. Len(z.l), z.l[i] = b,
         NEW U, U = V \cup {b}, NEW x, ToNext(z, i, U, x)
  PROVE  JoinedNext(x, z.l, i, b, V, v, q)
<1>1. Halfway(z, R, F, b) /\ R \ F = V
  BY DEF Joining
<1>2. PICK L, u, n : L = z.l /\ u = z.t.value /\ n = MemRoom
  OBVIOUS
<1>3. Ascends(L, R) /\ F \subseteq R /\ b \in F /\ Tiles(R, u, n) /\ R \subseteq Node
  BY <1>1, <1>2 DEF Halfway
<1>4. n \in Nat /\ Len(L) \in Nat /\ i \in Nat /\ 1 <= i /\ \A j \in 1 .. Len(L) : L[j] \in R
  BY <1>2, <1>3, MemRoomFacts, AscendsFacts, SMTT(30)
<1>5. CASE i + 1 \in 1 .. Len(z.l) /\ z.l[i + 1] \notin U
  <2>1. PICK c : c = z.l[i + 1]
    OBVIOUS
  <2>2. c \in F /\ c # b
    BY <1>1, <1>2, <1>4, <1>5, <2>1
  <2>3. x = Absorb(z, i, i + 1, i + 1)
    BY <1>5 DEF ToNext
  <2>4. /\ Joining(x, R \ {c}, F \ {c}, b, V, v, q)
        /\ Absorbed(z, x, b, c) /\ c = b + z.t.value[b] /\ x.l = RemoveAt(z.l, i + 1)
    <3>1. i + 1 \in {i, i + 1} /\ b \in {b, c} /\ z.l[i + 1] # b
      BY <2>1, <2>2
    <3>2. b \in F /\ c \in F /\ i + 1 \in 1 .. Len(z.l)
      BY <1>3, <1>5, <2>2
    <3>3. JoinedIn(z, x, R, F, b, c, i, V, v, q)
      BY <2>1, <2>3, <3>1, <3>2, JoiningAbsorb
    <3> QED BY <3>3 DEF JoinedIn
  <2>5. Parted(F \ {c}, x.t.value, {b}, {})
    BY <1>1, <2>2, <2>4, RightJoins
  <2>6. i \in 1 .. Len(x.l) /\ \A j \in 1 .. i : x.l[j] = z.l[j]
    BY <1>2, <1>3, <1>4, <1>5, <2>4, DropKeeps
  <2> QED BY <2>4, <2>5, <2>6 DEF JoinedNext
<1>6. CASE ~(i + 1 \in 1 .. Len(z.l) /\ z.l[i + 1] \notin U)
  <2>1. x = z
    BY <1>6 DEF ToNext
  <2>2. i + 1 \in 1 .. Len(z.l) => z.l[i + 1] \notin F
    <3>1. SUFFICES ASSUME i + 1 \in 1 .. Len(z.l), z.l[i + 1] \in F PROVE FALSE
      OBVIOUS
    <3>2. z.l[i + 1] \in V \cup {b}
      BY <1>6, <3>1
    <3>3. z.l[i + 1] = z.l[i]
      BY <1>1, <3>1, <3>2
    <3>4. \A j, k \in 1 .. Len(L) : L[j] = L[k] => j = k
      BY <1>3, AscendsFacts
    <3>5. i + 1 = i
      BY <1>2, <3>1, <3>3, <3>4
    <3> QED BY <1>4, <3>5
  <2>3. b + u[b] \notin F
    BY <1>1, <1>2, <2>2, NextStays
  <2>4. Parted(F, x.t.value, {b}, {})
    BY <1>2, <2>1, <2>3, RightClosed
  <2>5. i \in 1 .. Len(z.l)
    OBVIOUS
  <2> QED BY <2>1, <2>4, <2>5 DEF JoinedNext
<1> QED BY <1>5, <1>6

(* What is before a block that does not join the one before it. *)
LEMMA PreviousStays ==
  ASSUME skew \in Skews, NEW z, NEW R, NEW F, NEW w, Halfway(z, R, F, w),
         NEW i \in 1 .. Len(z.l), i - 1 \in 1 .. Len(z.l) => z.l[i - 1] \notin F,
         NEW x \in F
  PROVE  x + z.t.value[x] # z.l[i]
<1>1. PICK L, v, n : L = z.l /\ v = z.t.value /\ n = MemRoom
  OBVIOUS
<1>2. Ascends(L, R) /\ F \subseteq R /\ Tiles(R, v, n)
  BY <1>1 DEF Halfway
<1>3. /\ n \in Nat /\ Len(L) \in Nat /\ \A j \in 1 .. Len(L) : L[j] \in R
      /\ \A j, k \in 1 .. Len(L) : L[j] = L[k] => j = k
  BY <1>1, <1>2, MemRoomFacts, AscendsFacts
<1>4. PICK j \in 1 .. Len(L) : L[j] = x
  BY <1>2, AscendsFacts
<1>5. L[j] + v[L[j]] = IF j < Len(L) THEN L[j + 1] ELSE n
  BY <1>1, <1>2, <1>3, NextBlock
<1>6. SUFFICES ASSUME x + v[x] = L[i] PROVE FALSE
  BY <1>1
<1>7. CASE j < Len(L)
  <2>1. j + 1 \in 1 .. Len(L) /\ L[j + 1] = L[i] /\ i \in 1 .. Len(L)
    BY <1>1, <1>3, <1>4, <1>5, <1>6, <1>7
  <2>2. j + 1 = i
    BY <1>3, <2>1
  <2>3. j = i - 1
    BY <2>2
  <2> QED BY <1>1, <1>4, <2>3
<1>8. CASE ~(j < Len(L))
  <2>1. n \in R
    BY <1>1, <1>3, <1>4, <1>5, <1>6, <1>8
  <2>2. \A y \in R : y \in Nat /\ v[y] \in Nat /\ 1 <= v[y] /\ y + v[y] <= n
    BY <1>2 DEF Tiles
  <2> QED BY <1>3, <2>1, <2>2
<1> QED BY <1>7, <1>8

(* The block joins the one before it, if that is not in use. *)
JoinedPrevious(x, w, V, v, q) ==
  \E S, G : Joining(x, S, G, w, V, v, q) /\ Parted(G, x.t.value, {}, {})

ToPrevious(z, i, b, U, x, w) ==
  /\ i - 1 \in 1 .. Len(z.l) /\ z.l[i - 1] \notin U =>
       x = Absorb(z, i - 1, i, i - 1) /\ w = z.l[i - 1]
  /\ ~(i - 1 \in 1 .. Len(z.l) /\ z.l[i - 1] \notin U) => x = z /\ w = b

LEMMA BlockJoinsPrevious ==
  ASSUME skew \in Skews, NEW z, NEW R, NEW F, NEW b, NEW V, NEW v, NEW q, Joining(z, R, F, b, V, v, q),
         Parted(F, z.t.value, {b}, {}), NEW i \in 1 .. Len(z.l), z.l[i] = b,
         NEW U, U = V \cup {b}, NEW x, NEW w, ToPrevious(z, i, b, U, x, w)
  PROVE  JoinedPrevious(x, w, V, v, q)
<1>1. Halfway(z, R, F, b) /\ R \ F = V
  BY DEF Joining
<1>2. PICK L, u, n : L = z.l /\ u = z.t.value /\ n = MemRoom
  OBVIOUS
<1>3. Ascends(L, R) /\ F \subseteq R /\ b \in F /\ Tiles(R, u, n) /\ R \subseteq Node
  BY <1>1, <1>2 DEF Halfway
<1>4. /\ n \in Nat /\ Len(L) \in Nat /\ i \in Nat /\ 1 <= i /\ \A j \in 1 .. Len(L) : L[j] \in R
      /\ \A j, k \in 1 .. Len(L) : L[j] = L[k] => j = k
  <2>1. n \in Nat
    BY <1>2, MemRoomFacts
  <2>2. /\ Len(L) \in Nat /\ \A j \in 1 .. Len(L) : L[j] \in R
        /\ \A j, k \in 1 .. Len(L) : L[j] = L[k] => j = k
    BY <1>3, AscendsFacts
  <2>3. i \in Nat /\ 1 <= i
    BY <1>2, <2>2
  <2> QED BY <2>1, <2>2, <2>3
<1>5. CASE i - 1 \in 1 .. Len(z.l) /\ z.l[i - 1] \notin U
  <2>1. PICK p \in 1 .. Len(z.l) : p = i - 1 /\ p + 1 = i
    BY <1>5
  <2>2. w = z.l[p] /\ x = Absorb(z, p, i, p)
    BY <1>5, <2>1 DEF ToPrevious
  <2>3. w \in F /\ w # b
    BY <1>1, <1>2, <1>4, <1>5, <2>1, <2>2
  <2>4. JoinedIn(z, x, R, F, w, b, p, V, v, q)
    <3>1. p \in {p, p + 1} /\ b \in {w, b} /\ z.l[p] # b /\ p + 1 \in 1 .. Len(z.l) /\ b = z.l[p + 1]
      BY <2>1, <2>2, <2>3
    <3>2. x = Absorb(z, p, p + 1, p)
      BY <2>1, <2>2
    <3> QED BY <1>3, <2>2, <2>3, <3>1, <3>2, JoiningAbsorb
  <2>5. Joining(x, R \ {b}, F \ {b}, w, V, v, q) /\ Absorbed(z, x, w, b) /\ b = w + z.t.value[w]
    BY <2>4 DEF JoinedIn
  <2>6. Parted(F \ {b}, x.t.value, {}, {})
    BY <1>1, <2>3, <2>5, LeftJoins
  <2> QED BY <2>5, <2>6 DEF JoinedPrevious
<1>6. CASE ~(i - 1 \in 1 .. Len(z.l) /\ z.l[i - 1] \notin U)
  <2>1. x = z /\ w = b
    BY <1>6 DEF ToPrevious
  <2>2. i - 1 \in 1 .. Len(z.l) => z.l[i - 1] \notin F
    <3>1. SUFFICES ASSUME i - 1 \in 1 .. Len(z.l), z.l[i - 1] \in F PROVE FALSE
      OBVIOUS
    <3>2. z.l[i - 1] \in V \cup {b}
      BY <1>6, <3>1
    <3>3. z.l[i - 1] = z.l[i]
      BY <1>1, <3>1, <3>2
    <3>4. i - 1 = i
      BY <1>2, <1>4, <3>1, <3>3
    <3> QED BY <1>4, <3>4
  <2>3. \A y \in F : y + z.t.value[y] # b
    BY <1>1, <2>2, PreviousStays
  <2>4. Parted(F, x.t.value, {}, {})
    BY <2>1, <2>3, LeftClosed
  <2> QED BY <2>1, <2>4 DEF JoinedPrevious
<1> QED BY <1>5, <1>6

(* The block goes back to the tree. *)
LEMMA JoiningEnds ==
  ASSUME NEW z, NEW R, NEW F, NEW w, NEW V, NEW v, NEW q, Joining(z, R, F, w, V, v, q),
         Parted(F, z.t.value, {}, {}), NEW A \in [Node -> Nat],
         \A x \in V : mem_struct_size + A[x] <= v[x], NEW u, u = rb_insert_node(z.t, w)
  PROVE  Laid(R, u, z.l, V, q, A)
<1>1. /\ Halfway(z, R, F, w) /\ R \ F = V /\ \A x \in V : z.t.value[x] = v[x]
      /\ Cardinality(UnusedBytes(z.t.value, F)) = q
  BY DEF Joining
<1>2. /\ Ascends(z.l, R) /\ R \subseteq Node /\ F \subseteq R /\ w \in F
      /\ Tiles(R, z.t.value, MemRoom) /\ BySize(z.t, F \ {w})
  BY <1>1 DEF Halfway
<1>3. PICK M, t : M = F \ {w} /\ t = z.t
  OBVIOUS
<1>4. w \in Node \ M /\ M \cup {w} = F
  BY <1>2, <1>3
<1>5. BySize(u, F) /\ u.value = t.value
  <2>1. BySize(t, M) /\ w \in Node \ M /\ u = rb_insert_node(t, w)
    BY <1>2, <1>3, <1>4
  <2>2. BySize(u, M \cup {w}) /\ u.value = t.value
    BY <2>1, BySizeInsert DEF PutIn
  <2> QED BY <1>4, <2>2
<1>6. R \ V = F /\ V \subseteq R
  BY <1>1, <1>2
<1>7. \A x \in V : mem_struct_size + A[x] <= u.value[x]
  BY <1>1, <1>3, <1>5
<1> QED BY <1>1, <1>2, <1>3, <1>5, <1>6, <1>7 DEF Laid

-----------------------------------------------------------------------------
(* MemInv is the inductive invariant. *)
MemInv ==
  /\ skew \in Skews
  /\ \E R : Laid(R, TreeNow, LinkNow, used, SizeNow, asked)
  /\ ~Prepared => /\ mem_tree = rb_root_init /\ used = {}
                  /\ asked = [b \in Node |-> 0]

LEMMA FirstTree ==
  BySize(rb_root_init, {})
<1>1. PICK t : t = rb_root_init
  OBVIOUS
<1>2. t \in Trees
  <2>1. rb_node_init \in NodeRec
    BY DEF rb_node_init, NodeRec, Ptr, Hue
  <2>2. [n \in Node |-> rb_node_init] \in [Node -> NodeRec] /\ [n \in Node |-> 0] \in [Node -> Int]
    BY <2>1
  <2> QED BY <1>1, <2>2 DEF Trees, Ptr, rb_root_init
<1>3. t.rb_node = NIL /\ t.first_node = NIL /\ t.last_node = NIL /\ t.count = 0
  BY <1>1 DEF rb_root_init
<1>4. PICK r, w : Sound(t, {}, r, w)
  BY <1>2, <1>3, InitSound
<1>5. EndsAre(t, {}, r)
  BY <1>3 DEF EndsAre, IsEnd
<1>6. Stands(t, {}, r, w, FALSE)
  BY <1>4, <1>5 DEF Stands, Sorted
<1>7. t.count = Cardinality({})
  BY <1>3, FS_EmptySet
<1> QED BY <1>1, <1>6, <1>7 DEF BySize

(* mem_init: one block of all the bytes there are. *)
LEMMA FirstLaid ==
  ASSUME skew \in Skews, NEW t, t = rb_insert_node(SetSize(rb_root_init, 0, MemRoom), 0),
         NEW A, A = [b \in Node |-> 0]
  PROVE  Laid({0}, t, <<0>>, {}, MemRoom, A)
<1>1. PICK n \in Nat : n = MemRoom /\ 1 <= n
  BY MemRoomFacts DEF MEM_MIN_SIZE, mem_struct_size
<1>2. 0 \in Node \ {}
  BY MemAllocAssumption
<1>3. PICK e : e = Valued(rb_root_init, 0, n)
  OBVIOUS
<1>4. BySize(e, {}) /\ \A x \in Node : e.value[x] = IF x = 0 THEN n ELSE rb_root_init.value[x]
  BY <1>1, <1>2, <1>3, FirstTree, BySizeValued
<1>5. t = rb_insert_node(e, 0)
  BY <1>1, <1>3 DEF SetSize, Valued
<1>6. BySize(t, {0}) /\ t.value = e.value
  <2>1. BySize(t, {} \cup {0}) /\ t.value = e.value
    BY <1>2, <1>4, <1>5, BySizeInsert DEF PutIn
  <2> QED BY <2>1
<1>7. PICK v : v = t.value /\ v[0] = n
  BY <1>2, <1>4, <1>6
<1>8. Tiles({0}, v, n)
  BY <1>1, <1>7 DEF Tiles
<1>9. Parted({0}, v, {}, {})
  BY <1>1, <1>7 DEF Parted
<1>10. Cardinality(UnusedBytes(v, {0})) = n
  <2>1. UnusedBytes(v, {0}) = 0 .. n - 1
    <3>1. ASSUME NEW x PROVE x \in UnusedBytes(v, {0}) <=> x \in 0 .. n - 1
      <4>1. x \in UnusedBytes(v, {0}) <=> \E b \in {0} : x \in b .. b + v[b] - 1
        BY InBytes
      <4>2. 0 + v[0] - 1 = n - 1
        BY <1>1, <1>7
      <4> QED BY <4>1, <4>2
    <3> QED BY <3>1
  <2>2. Cardinality(0 .. n - 1) = n
    <3>1. n - 1 \in Int /\ (IF 0 > n - 1 THEN 0 ELSE n - 1 - 0 + 1) = n
      BY <1>1
    <3> QED BY <3>1, FS_Interval
  <2> QED BY <2>1, <2>2
<1>11. Ascends(<<0>>, {0})
  <2>1. PICK L : L = <<0>> /\ L \in Seq({0}) /\ Len(L) = 1 /\ L[1] = 0
    <3>1. <<0>> \in Seq({0}) /\ Len(<<0>>) = 1 /\ <<0>>[1] = 0
      OBVIOUS
    <3> QED BY <3>1
  <2>2. \A i, j \in 1 .. Len(L) : i < j => L[i] < L[j]
    BY <2>1
  <2>3. \A x \in {0} : \E i \in 1 .. Len(L) : L[i] = x
    BY <2>1
  <2>4. {0} \subseteq Nat
    OBVIOUS
  <2> QED BY <2>1, <2>2, <2>3, <2>4 DEF Ascends
<1>12. PICK M : M = {0} \ {} /\ M = {0}
  OBVIOUS
<1>13. {0} \subseteq Node /\ {} \subseteq {0} /\ A \in [Node -> Nat]
  BY <1>2
<1> QED BY <1>1, <1>6, <1>7, <1>8, <1>9, <1>10, <1>11, <1>12, <1>13 DEF Laid

LEMMA MemInitInv == MemInit => MemInv
<1>1. SUFFICES ASSUME MemInit PROVE MemInv
  OBVIOUS
<1>2. /\ skew \in Skews /\ mem_tree = rb_root_init /\ link = <<>> /\ used = {}
      /\ asked = [b \in Node |-> 0] /\ ~Prepared
  BY <1>1 DEF MemInit, Prepared
<1>3. /\ TreeNow = rb_insert_node(SetSize(rb_root_init, 0, MemRoom), 0)
      /\ LinkNow = <<0>> /\ SizeNow = MemRoom
  BY <1>2 DEF TreeNow, LinkNow, SizeNow
<1>4. Laid({0}, TreeNow, LinkNow, used, SizeNow, asked)
  BY <1>2, <1>3, FirstLaid
<1> QED BY <1>2, <1>4 DEF MemInv

(* A state after mem_init. *)
LEMMA PreparedInv ==
  ASSUME skew \in Skews, skew' = skew, NEW R, NEW t, NEW l, NEW U, NEW s, NEW A, Laid(R, t, l, U, s, A),
         mem_tree' = t, link' = l, used' = U, mem_all_size' = s, asked' = A
  PROVE  MemInv'
<1>1. l # <<>>
  <2>1. Ascends(l, R) /\ 0 \in R
    BY DEF Laid, Tiles
  <2>2. PICK i \in 1 .. Len(l) : l[i] = 0
    BY <2>1, AscendsFacts
  <2> QED BY <2>2
<1>2. Prepared'
  BY <1>1 DEF Prepared
<1>3. TreeNow' = t /\ LinkNow' = l /\ SizeNow' = s
  BY <1>2 DEF TreeNow, LinkNow, SizeNow
<1>4. MemRoom' = MemRoom
  BY DEF MemRoom
<1>5. Laid(R, TreeNow, LinkNow, used, SizeNow, asked)'
  BY <1>3, <1>4 DEF Laid
<1> QED BY <1>2, <1>5 DEF MemInv

(* What mem_malloc does, with names for what it reads. *)
MemMallocDoes(req, t, l, k, b, h, cut) ==
  /\ req # 0 /\ b # NIL
  /\ h > MEM_MIN_SIZE =>
       /\ mem_tree' = rb_insert_node(Valued(Valued(cut, b, k), b + k, h), b + k)
       /\ link' = LinkAfter(l, b, b + k)
  /\ ~(h > MEM_MIN_SIZE) => mem_tree' = cut /\ link' = l
  /\ used' = used \cup {b}
  /\ mem_all_size' = SizeNow - mem_tree'.value[b]
  /\ asked' = [asked EXCEPT ![b] = req]
  /\ skew' = skew

LEMMA MemMallocIs ==
  ASSUME NEW req, mem_malloc(req), NEW t, t = TreeNow, NEW l, l = LinkNow, NEW k, k = Gross(req),
         NEW b, b = FindBlock(t, k), NEW h, h = t.value[b] - k, NEW cut, cut = rb_remove_node(t, b)
  PROVE  MemMallocDoes(req, t, l, k, b, h, cut)
<1>1. /\ req # 0 /\ b # NIL
      /\ mem_tree' = IF h > MEM_MIN_SIZE
                     THEN rb_insert_node([cut EXCEPT !.value[b] = k, !.value[b + k] = h], b + k)
                     ELSE cut
      /\ link' = IF h > MEM_MIN_SIZE THEN LinkAfter(l, b, b + k) ELSE l
      /\ used' = used \cup {b}
      /\ mem_all_size' = SizeNow - mem_tree'.value[b]
      /\ asked' = [asked EXCEPT ![b] = req]
      /\ skew' = skew
  BY DEF mem_malloc, Size
<1>2. [cut EXCEPT !.value[b] = k, !.value[b + k] = h] = Valued(Valued(cut, b, k), b + k, h)
  BY DEF Valued
<1> QED BY <1>1, <1>2 DEF MemMallocDoes

(* The block is larger than the call needs, and a node is there for the    *)
(* rest.                                                                   *)
LEMMA BlockTaken ==
  ASSUME skew \in Skews, NEW R, NEW t, NEW l, NEW U, NEW s, NEW A, Laid(R, t, l, U, s, A),
         NEW req \in MemRequests, req # 0, NEW k, k = Gross(req), NEW b, b = FindBlock(t, k), b # NIL,
         NEW h, h = t.value[b] - k
  PROVE  /\ b \in R \ U /\ k < t.value[b] /\ h \in Nat
         /\ h > MEM_MIN_SIZE => b + k \in Node
<1>1. k \in Nat /\ 1 <= k
  BY GrossFacts
<1>2. PICK v, n, M : v = t.value /\ n = MemRoom /\ M = R \ U
  OBVIOUS
<1>3. BySize(t, M) /\ Tiles(R, v, n) /\ R \subseteq Node
  BY <1>2 DEF Laid
<1>4. PICK Q : Q = {x \in M : t.value[x] > k}
  OBVIOUS
<1>5. Smallest(t, Q, b)
  BY <1>1, <1>3, <1>4, FindBlockFinds
<1>6. b \in M /\ v[b] > k
  <2>1. b \in Q
    BY <1>5 DEF Smallest
  <2> QED BY <1>2, <1>4, <2>1
<1>7. b \in Nat /\ v[b] \in Nat /\ b + v[b] <= n
  BY <1>2, <1>3, <1>6 DEF Tiles
<1>8. n \in Nat /\ n <= MEM_HEAP /\ MEM_HEAP \in Nat /\ MEM_MIN_SIZE \in Nat
  <2>1. MEM_MIN_SIZE \in Nat
    BY DEF MEM_MIN_SIZE, mem_struct_size
  <2> QED BY <1>2, <2>1, MemRoomFacts, MemAllocAssumption
<1>9. h \in Nat /\ h = v[b] - k
  BY <1>1, <1>2, <1>6, <1>7
<1>10. ASSUME h > MEM_MIN_SIZE PROVE b + k \in Node
  <2>1. b + k + MEM_MIN_SIZE < MEM_HEAP
    BY <1>1, <1>7, <1>8, <1>9, <1>10
  <2>2. b \in Node /\ req \in MemRequests \ {0}
    BY <1>2, <1>3, <1>6
  <2>3. b + Gross(req) + MEM_MIN_SIZE < MEM_HEAP
    BY <2>1
  <2>4. b + Gross(req) \in Node
    BY <2>2, <2>3, MemNodeAssumption
  <2> QED BY <2>4
<1> QED BY <1>2, <1>6, <1>9, <1>10

LEMMA MemMallocStep ==
  ASSUME MemInv, NEW req \in MemRequests, mem_malloc(req)
  PROVE  MemInv'
<1>1. PICK R : Laid(R, TreeNow, LinkNow, used, SizeNow, asked)
  BY DEF MemInv
<1>2. PICK t, l, U, s, A : t = TreeNow /\ l = LinkNow /\ U = used /\ s = SizeNow /\ A = asked
  OBVIOUS
<1>3. skew \in Skews /\ Laid(R, t, l, U, s, A)
  BY <1>1, <1>2 DEF MemInv
<1>4. PICK k : k = Gross(req)
  OBVIOUS
<1>5. PICK b : b = FindBlock(t, k)
  OBVIOUS
<1>6. PICK h, cut : h = t.value[b] - k /\ cut = rb_remove_node(t, b)
  OBVIOUS
<1>7. MemMallocDoes(req, t, l, k, b, h, cut)
  BY <1>2, <1>4, <1>5, <1>6, MemMallocIs
<1>8. /\ req # 0 /\ b # NIL
      /\ used' = U \cup {b} /\ asked' = [A EXCEPT ![b] = req] /\ skew' = skew
      /\ mem_all_size' = s - mem_tree'.value[b]
  BY <1>2, <1>7 DEF MemMallocDoes
<1>9. k \in Nat /\ mem_struct_size + req <= k /\ 1 <= k /\ req \in Nat
  BY <1>4, GrossFacts, MemAllocAssumption
<1>10. b \in R \ U /\ k < t.value[b] /\ h \in Nat /\ (h > MEM_MIN_SIZE => b + k \in Node)
  BY <1>3, <1>4, <1>5, <1>6, <1>8, BlockTaken
<1>11. PICK B, r, u, j, V : /\ B = [A EXCEPT ![b] = req] /\ u = mem_tree' /\ r = s - u.value[b]
                            /\ j = link' /\ V = U \cup {b}
  OBVIOUS
<1>12. \E S : Laid(S, u, j, V, r, B)
  <2>1. CASE ~(h > MEM_MIN_SIZE)
    <3>1. u = rb_remove_node(t, b) /\ j = l
      BY <1>6, <1>7, <1>11, <2>1 DEF MemMallocDoes
    <3>2. mem_struct_size + req <= t.value[b]
      <4>1. t.value[b] \in Int /\ mem_struct_size \in Int
        <5>1. t.value[b] \in Nat
          BY <1>3, <1>10 DEF Laid, Tiles
        <5> QED BY <5>1 DEF mem_struct_size
      <4> QED BY <1>9, <1>10, <4>1
    <3>3. Laid(R, u, l, V, r, B)
      BY <1>3, <1>9, <1>10, <1>11, <3>1, <3>2, TakeWhole
    <3> QED BY <3>1, <3>3
  <2>2. CASE h > MEM_MIN_SIZE
    <3>1. PICK c \in Node : c = b + k
      BY <1>10, <2>2
    <3>2. PICK e, f, g : e = rb_remove_node(t, b) /\ f = Valued(e, b, k) /\ g = Valued(f, c, t.value[b] - k)
      OBVIOUS
    <3>3. u = rb_insert_node(g, c) /\ j = LinkAfter(l, b, c)
      BY <1>6, <1>7, <1>11, <2>2, <3>1, <3>2 DEF MemMallocDoes
    <3>4. Laid(R \cup {c}, u, j, V, r, B)
      <4>1. /\ skew \in Skews /\ Laid(R, t, l, U, s, A) /\ b \in R \ U /\ req \in Nat /\ k \in Nat
            /\ 1 <= k /\ k < t.value[b] /\ mem_struct_size + req <= k /\ c \in Node /\ c = b + k
        BY <1>3, <1>9, <1>10, <3>1
      <4>2. B = [A EXCEPT ![b] = req] /\ r = s - u.value[b]
        BY <1>11
      <4>3. Laid(R \cup {c}, u, j, U \cup {b}, r, B)
        BY <3>2, <3>3, <4>1, <4>2, TakePart
      <4> QED BY <1>11, <4>3
    <3> QED BY <3>4
  <2> QED BY <2>1, <2>2
<1> QED BY <1>3, <1>8, <1>11, <1>12, PreparedInv

(* What mem_free does, i being the block's place in the list. *)
MemFreeDoes(b, i, x, y, w) ==
  /\ Unused(link, i + 1) => x = Absorb([t |-> mem_tree, l |-> link], i, i + 1, i + 1)
  /\ ~Unused(link, i + 1) => x = [t |-> mem_tree, l |-> link]
  /\ Unused(link, i - 1) => y = Absorb(x, i - 1, i, i - 1) /\ w = link[i - 1]
  /\ ~Unused(link, i - 1) => y = x /\ w = b
  /\ mem_tree' = rb_insert_node(y.t, w) /\ link' = y.l

LEMMA MemFreeIs ==
  ASSUME NEW b, mem_free(b), NEW i, i = PlaceInLink(link, b)
  PROVE  /\ b \in used /\ used' = used \ {b} /\ mem_all_size' = mem_all_size + mem_tree.value[b]
         /\ asked' = [asked EXCEPT ![b] = 0] /\ skew' = skew
         /\ \E x, y, w : MemFreeDoes(b, i, x, y, w)
<1>1. SelectInSeq(link, LAMBDA c : c = b) = i
  BY DEF SelectInSeq, PlaceInLink
<1>2. PICK z, w : /\ z = [t |-> mem_tree, l |-> link]
                  /\ w = IF Unused(link, i - 1) THEN link[i - 1] ELSE b
  OBVIOUS
<1>3. PICK x : x = IF Unused(link, i + 1) THEN Absorb(z, i, i + 1, i + 1) ELSE z
  OBVIOUS
<1>4. PICK y : y = IF Unused(link, i - 1) THEN Absorb(x, i - 1, i, i - 1) ELSE x
  OBVIOUS
<1>5. /\ b \in used /\ used' = used \ {b} /\ mem_all_size' = mem_all_size + mem_tree.value[b]
      /\ asked' = [asked EXCEPT ![b] = 0] /\ skew' = skew
  BY DEF mem_free, Size
<1>6. mem_tree' = rb_insert_node(y.t, w) /\ link' = y.l
  BY <1>2, <1>3, <1>4 DEF mem_free, SelectInSeq, PlaceInLink
<1>7. MemFreeDoes(b, i, x, y, w)
  BY <1>2, <1>3, <1>4, <1>6 DEF MemFreeDoes
<1> QED BY <1>5, <1>7

LEMMA MemFreeStep ==
  ASSUME MemInv, NEW b, mem_free(b)
  PROVE  MemInv'
<1>1. PICK i : i = PlaceInLink(link, b)
  OBVIOUS
<1>2. /\ b \in used /\ used' = used \ {b} /\ mem_all_size' = mem_all_size + mem_tree.value[b]
      /\ asked' = [asked EXCEPT ![b] = 0] /\ skew' = skew
  BY <1>1, MemFreeIs
<1>3. PICK x, y, w : MemFreeDoes(b, i, x, y, w)
  BY <1>1, MemFreeIs
<1>4. PICK t, l, U, s, A : t = mem_tree /\ l = link /\ U = used /\ s = mem_all_size /\ A = asked
  OBVIOUS
<1>5. skew \in Skews /\ \E R : Laid(R, t, l, U, s, A)
  <2>1. Prepared
    BY <1>2 DEF MemInv
  <2> QED BY <1>4, <2>1 DEF MemInv, TreeNow, LinkNow, SizeNow
<1>6. PICK R : Laid(R, t, l, U, s, A)
  BY <1>5
<1>7. /\ Ascends(l, R) /\ U \subseteq R /\ R \subseteq Node /\ A \in [Node -> Nat]
      /\ \A c \in U : mem_struct_size + A[c] <= t.value[c]
  BY <1>6 DEF Laid
<1>8. Len(l) \in Nat /\ DOMAIN l = 1 .. Len(l) /\ i \in 1 .. Len(l) /\ l[i] = b
  <2>1. PICK j \in 1 .. Len(l) : l[j] = b
    BY <1>2, <1>4, <1>7, AscendsFacts
  <2>2. i = j
    BY <1>1, <1>4, <1>7, <2>1, FoundAt
  <2>3. Len(l) \in Nat /\ DOMAIN l = 1 .. Len(l)
    BY <1>7, AscendsFacts
  <2> QED BY <2>1, <2>2, <2>3
<1>9. PICK F, z, V, v, q : /\ F = (R \ U) \cup {b} /\ z = [t |-> t, l |-> l] /\ V = U \ {b}
                           /\ v = t.value /\ q = s + v[b]
  OBVIOUS
<1>10. b \in U /\ U = V \cup {b} /\ z.l = l /\ z.t = t
  BY <1>2, <1>4, <1>9
<1>11. Joining(z, R, F, b, V, v, q) /\ Parted(F, z.t.value, {b}, {b})
  <2>1. Joining(z, R, F, b, U \ {b}, t.value, s + t.value[b]) /\ Parted(F, t.value, {b}, {b})
    <3>1. skew \in Skews /\ b \in U
      BY <1>5, <1>10
    <3>2. F = (R \ U) \cup {b} /\ z = [t |-> t, l |-> l]
      BY <1>9
    <3> QED BY <1>6, <3>1, <3>2, JoiningStarts
  <2> QED BY <1>9, <1>10, <2>1
<1>12. ToNext(z, i, U, x)
  BY <1>3, <1>4, <1>8, <1>9, <1>10 DEF MemFreeDoes, Unused, ToNext
<1>13. /\ \E S, G : Joining(x, S, G, b, V, v, q) /\ Parted(G, x.t.value, {b}, {})
       /\ i \in 1 .. Len(x.l) /\ \A j \in 1 .. i : x.l[j] = z.l[j]
  <2>1. skew \in Skews /\ i \in 1 .. Len(z.l) /\ z.l[i] = b /\ U = V \cup {b}
    BY <1>5, <1>8, <1>10
  <2>2. JoinedNext(x, z.l, i, b, V, v, q)
    BY <1>11, <1>12, <2>1, BlockJoinsNext
  <2> QED BY <2>2 DEF JoinedNext
<1>14. PICK S, G : Joining(x, S, G, b, V, v, q) /\ Parted(G, x.t.value, {b}, {})
  BY <1>13
<1>15. ToPrevious(x, i, b, U, y, w)
  <2>1. i - 1 \in 1 .. Len(x.l) <=> i - 1 \in 1 .. Len(l)
    <3>1. Len(x.l) \in Nat
      <4>1. Ascends(x.l, S)
        BY <1>14 DEF Joining, Halfway
      <4> QED BY <4>1, AscendsFacts
    <3> QED BY <1>8, <1>13, <3>1
  <2>2. i - 1 \in 1 .. Len(l) => x.l[i - 1] = l[i - 1]
    BY <1>8, <1>10, <1>13
  <2>3. Unused(link, i - 1) <=> i - 1 \in 1 .. Len(l) /\ l[i - 1] \notin U
    BY <1>4, <1>8 DEF Unused
  <2> QED BY <1>3, <1>4, <2>1, <2>2, <2>3 DEF MemFreeDoes, ToPrevious
<1>16. x.l[i] = b
  BY <1>8, <1>10, <1>13
<1>17. \E H, K : Joining(y, H, K, w, V, v, q) /\ Parted(K, y.t.value, {}, {})
  <2>1. skew \in Skews /\ i \in 1 .. Len(x.l) /\ U = V \cup {b}
    BY <1>5, <1>10, <1>13
  <2>2. JoinedPrevious(y, w, V, v, q)
    <3>1. Joining(x, S, G, b, V, v, q)
      BY <1>14
    <3>2. Parted(G, x.t.value, {b}, {})
      BY <1>14
    <3> QED BY <1>15, <1>16, <2>1, <3>1, <3>2, BlockJoinsPrevious
  <2> QED BY <2>2 DEF JoinedPrevious
<1>18. PICK H, K : Joining(y, H, K, w, V, v, q) /\ Parted(K, y.t.value, {}, {})
  BY <1>17
<1>19. PICK B, u : B = [A EXCEPT ![b] = 0] /\ u = rb_insert_node(y.t, w)
  OBVIOUS
<1>20. B \in [Node -> Nat] /\ \A c \in V : mem_struct_size + B[c] <= v[c]
  BY <1>7, <1>9, <1>10, <1>19, AskedShrinks
<1>21. Laid(H, u, y.l, V, q, B)
  BY <1>18, <1>19, <1>20, JoiningEnds
<1>22. mem_tree' = u /\ link' = y.l /\ used' = V /\ mem_all_size' = q /\ asked' = B
  BY <1>2, <1>3, <1>4, <1>9, <1>19 DEF MemFreeDoes
<1> QED BY <1>2, <1>5, <1>21, <1>22, PreparedInv

LEMMA FailStep ==
  ASSUME MemInv, NEW req, MemMallocFails(req)
  PROVE  MemInv'
<1>1. PICK R, t, l, s : Laid(R, t, l, used, s, asked) /\ t = TreeNow /\ l = LinkNow /\ s = SizeNow
  BY DEF MemInv
<1>2. /\ mem_tree' = t /\ link' = l /\ mem_all_size' = s /\ used' = used /\ asked' = asked /\ skew' = skew
      /\ skew \in Skews
  BY <1>1 DEF MemMallocFails, MemInv
<1>3. PICK U, A : U = used /\ A = asked
  OBVIOUS
<1> QED BY <1>1, <1>2, <1>3, PreparedInv

LEMMA MemSameInv ==
  ASSUME MemInv, UNCHANGED memVars
  PROVE  MemInv'
<1>1. /\ mem_tree' = mem_tree /\ link' = link /\ mem_all_size' = mem_all_size /\ used' = used
      /\ asked' = asked /\ skew' = skew
  BY DEF memVars
<1>2. MemRoom' = MemRoom /\ (Prepared' <=> Prepared)
  BY <1>1 DEF MemRoom, Prepared
<1>3. TreeNow' = TreeNow /\ LinkNow' = LinkNow /\ SizeNow' = SizeNow
  BY <1>1, <1>2 DEF TreeNow, LinkNow, SizeNow
<1>4. PICK R : Laid(R, TreeNow, LinkNow, used, SizeNow, asked)
  BY DEF MemInv
<1>5. Laid(R, TreeNow, LinkNow, used, SizeNow, asked)'
  BY <1>1, <1>2, <1>3, <1>4 DEF Laid
<1> QED BY <1>1, <1>2, <1>5 DEF MemInv

LEMMA MemStepInv == MemInv /\ [MemNext]_memVars => MemInv'
<1>1. ASSUME MemInv, MemNext PROVE MemInv'
  <2>1. CASE \E req \in MemRequests : mem_malloc(req) \/ MemMallocFails(req)
    <3>1. PICK req \in MemRequests : mem_malloc(req) \/ MemMallocFails(req)
      BY <2>1
    <3> QED BY <1>1, <3>1, MemMallocStep, FailStep
  <2>2. CASE \E b \in used : mem_free(b)
    <3>1. PICK b \in used : mem_free(b)
      BY <2>2
    <3> QED BY <1>1, <3>1, MemFreeStep
  <2> QED BY <1>1, <2>1, <2>2 DEF MemNext
<1>2. ASSUME MemInv, UNCHANGED memVars PROVE MemInv'
  BY <1>2, MemSameInv
<1> QED BY <1>1, <1>2

LEMMA MemSpecInv == MemSpec => []MemInv
  BY MemInitInv, MemStepInv, PTL DEF MemSpec

-----------------------------------------------------------------------------
LEMMA PreparedLaid ==
  ASSUME MemInv, Prepared
  PROVE  \E R : Laid(R, mem_tree, link, used, mem_all_size, asked)
  BY DEF MemInv, TreeNow, LinkNow, SizeNow

LEMMA LaidTiled ==
  ASSUME skew \in Skews, NEW R, NEW t, NEW l, NEW U, NEW s, NEW A, Laid(R, t, l, U, s, A)
  PROVE  /\ l[1] = 0
         /\ \A i \in 1 .. Len(l) - 1 : /\ l[i] + t.value[l[i]] = l[i + 1]
                                       /\ {l[i], l[i + 1]} \cap U # {}
         /\ Last(l) + t.value[Last(l)] = MemRoom
         /\ \A b \in U : mem_struct_size + A[b] <= t.value[b]
<1>1. PICK v, n : v = t.value /\ n = MemRoom
  OBVIOUS
<1>2. /\ Ascends(l, R) /\ Tiles(R, v, n) /\ Parted(R \ U, v, {}, {})
      /\ \A b \in U : mem_struct_size + A[b] <= v[b]
  BY <1>1 DEF Laid
<1>3. n \in Nat
  BY <1>1, MemRoomFacts
<1>4. /\ Len(l) \in Nat /\ \A i \in 1 .. Len(l) : l[i] \in R /\ l[i] \in Nat
      /\ \A i, j \in 1 .. Len(l) : i < j <=> l[i] < l[j]
  BY <1>2, AscendsFacts
<1>5. PICK o \in 1 .. Len(l) : l[o] = 0
  <2>1. 0 \in R
    BY <1>2 DEF Tiles
  <2> QED BY <1>2, <2>1, AscendsFacts
<1>6. o = 1 /\ 1 \in 1 .. Len(l)
  <2>1. 1 \in 1 .. Len(l)
    BY <1>4
  <2>2. ~(1 < o)
    BY <1>4, <1>5, <2>1
  <2> QED BY <1>4, <2>1, <2>2
<1>7. ASSUME NEW i \in 1 .. Len(l) - 1
      PROVE  l[i] + v[l[i]] = l[i + 1] /\ {l[i], l[i + 1]} \cap U # {}
  <2>1. i \in 1 .. Len(l) /\ i < Len(l) /\ i + 1 \in 1 .. Len(l)
    BY <1>4
  <2>2. l[i] + v[l[i]] = l[i + 1]
    BY <1>2, <1>3, <2>1, NextBlock
  <2>3. ~(l[i] \in R \ U /\ l[i + 1] \in R \ U)
    BY <1>2, <2>2 DEF Parted
  <2>4. l[i] \in R /\ l[i + 1] \in R
    BY <1>4, <2>1
  <2> QED BY <2>2, <2>3, <2>4
<1>8. Last(l) + v[Last(l)] = n
  <2>1. PICK m \in 1 .. Len(l) : m = Len(l) /\ ~(m < Len(l)) /\ Last(l) = l[m]
    BY <1>4, <1>6 DEF Last
  <2> QED BY <1>2, <1>3, <2>1, NextBlock
<1> QED BY <1>1, <1>2, <1>5, <1>6, <1>7, <1>8

LEMMA MemInvTiled == MemInv => MemTiled
<1>1. SUFFICES ASSUME MemInv, Prepared
               PROVE  /\ link[1] = 0
                      /\ \A i \in 1 .. Len(link) - 1 :
                           /\ link[i] + Size(mem_tree, link[i]) = link[i + 1]
                           /\ {link[i], link[i + 1]} \cap used # {}
                      /\ Last(link) + Size(mem_tree, Last(link)) = MemRoom
                      /\ \A b \in used : mem_struct_size + asked[b] <= Size(mem_tree, b)
  BY DEF MemTiled
<1>2. PICK R : Laid(R, mem_tree, link, used, mem_all_size, asked)
  BY <1>1, PreparedLaid
<1>3. PICK t, l, U, s, A : t = mem_tree /\ l = link /\ U = used /\ s = mem_all_size /\ A = asked
  OBVIOUS
<1>4. skew \in Skews /\ Laid(R, t, l, U, s, A)
  BY <1>1, <1>2, <1>3 DEF MemInv
<1>5. /\ l[1] = 0
      /\ \A i \in 1 .. Len(l) - 1 : /\ l[i] + t.value[l[i]] = l[i + 1]
                                    /\ {l[i], l[i + 1]} \cap U # {}
      /\ Last(l) + t.value[Last(l)] = MemRoom
      /\ \A b \in U : mem_struct_size + A[b] <= t.value[b]
  BY <1>4, LaidTiled
<1> QED BY <1>3, <1>5 DEF Size

(* The tree in each state, before mem_init too. *)
LEMMA MemInvTree ==
  ASSUME MemInv
  PROVE  /\ BySize(mem_tree, Range(link) \ used)
         /\ Prepared => mem_all_size = Cardinality(UnusedBytes(mem_tree.value, Range(link) \ used))
<1>1. CASE Prepared
  <2>1. PICK R : Laid(R, mem_tree, link, used, mem_all_size, asked)
    BY <1>1, PreparedLaid
  <2>2. /\ Ascends(link, R) /\ BySize(mem_tree, R \ used)
        /\ mem_all_size = Cardinality(UnusedBytes(mem_tree.value, R \ used))
    BY <2>1 DEF Laid
  <2>3. Range(link) = R
    BY <2>2, AscendsFacts
  <2> QED BY <2>2, <2>3
<1>2. CASE ~Prepared
  <2>1. mem_tree = rb_root_init /\ link = <<>>
    BY <1>2 DEF MemInv, Prepared
  <2>2. Range(link) \ used = {}
    BY <2>1 DEF Range
  <2> QED BY <1>2, <2>1, <2>2, FirstTree
<1> QED BY <1>1, <1>2

LEMMA MemInvExact == MemInv => MemTreeExact
<1>1. SUFFICES ASSUME MemInv PROVE MemTreeExact
  OBVIOUS
<1>2. PICK t, M, s : t = mem_tree /\ M = Range(link) \ used /\ s = InOrder(t)
  OBVIOUS
<1>3. BySize(t, M) /\ (Prepared => mem_all_size = Cardinality(UnusedBytes(t.value, M)))
  BY <1>1, <1>2, MemInvTree
<1>4. /\ RedBlack(t) /\ Members(t) = M /\ Ascending(t, s)
      /\ t.first_node = rb_first(t) /\ t.last_node = rb_last(t)
  BY <1>2, <1>3, BySizeExact
<1>5. \A i \in 1 .. Len(s) - 1 : Size(t, s[i]) <= Size(t, s[i + 1])
  BY <1>4 DEF Ascending, Size
<1>6. UnusedBytes(t.value, M) = UNION {b .. b + Size(t, b) - 1 : b \in Members(t)}
  <2>1. Members(t) = M
    BY <1>4
  <2> QED BY <2>1 DEF UnusedBytes, Size
<1>7. Prepared => mem_all_size = Cardinality(UNION {b .. b + Size(t, b) - 1 : b \in Members(t)})
  BY <1>3, <1>6
<1>8. s = InOrder(mem_tree) /\ t = mem_tree /\ M = Range(link) \ used
  BY <1>2
<1> QED BY <1>4, <1>5, <1>7, <1>8 DEF MemTreeExact

(* What mem_malloc(req) finds. *)
LEMMA FitsFound ==
  ASSUME MemInv, Prepared, NEW req \in MemRequests, NEW k, k = Gross(req),
         NEW fits, fits = {b \in Range(link) \ used : Size(mem_tree, b) > k}
  PROVE  Smallest(mem_tree, fits, FindBlock(mem_tree, k)) /\ TreeNow = mem_tree
<1>1. PICK M : M = Range(link) \ used
  OBVIOUS
<1>2. BySize(mem_tree, M) /\ k \in Int
  BY <1>1, MemInvTree, GrossFacts
<1>3. fits = {b \in M : mem_tree.value[b] > k}
  BY <1>1 DEF Size
<1> QED BY <1>2, <1>3, FindBlockFinds DEF TreeNow

LEMMA MemInvBestFit ==
  ASSUME MemInv
  PROVE  BestFit
<1>1. SUFFICES ASSUME Prepared, NEW req \in MemRequests \ {0}, NEW fits, NEW found,
                      fits = {b \in Range(link) \ used : Size(mem_tree, b) > Gross(req)},
                      found = FindBlock(mem_tree, Gross(req))
               PROVE  IF fits = {} THEN found = NIL
                      ELSE /\ found \in fits
                           /\ \A b \in fits : Size(mem_tree, found) <= Size(mem_tree, b)
  BY DEF BestFit
<1>2. Smallest(mem_tree, fits, found)
  BY <1>1, FitsFound
<1> QED BY <1>2 DEF Smallest, Size

-----------------------------------------------------------------------------
(* mem_malloc, mem_free: the blocks cover the heap from its first byte to  *)
(* its last, no two neighbours are both unused, and every holder's bytes   *)
(* lie inside its own block.                                               *)
THEOREM MemoryTiled == MemSpec => []MemTiled
  BY MemSpecInv, MemInvTiled, PTL

(* The tree of memalloc.c: it holds exactly the unused blocks, in the      *)
(* order of their sizes, although mem_free changes the value of a block    *)
(* that is still in it; all_size is the number of their bytes.             *)
THEOREM UnusedInTree == MemSpec => []MemTreeExact
  BY MemSpecInv, MemInvExact, PTL

(* mem_malloc finds the smallest of the blocks larger than the call needs, *)
(* and nothing only if there is none.                                      *)
THEOREM MallocFitsBest == MemSpec => []BestFit
  BY MemSpecInv, MemInvBestFit, PTL
=============================================================================
