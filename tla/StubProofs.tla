----------------------------- MODULE StubProofs -----------------------------
(***************************************************************************)
(* The typed stubs of rpc_gen.c over the codec of rpc_tlv.c, for any       *)
(* methods, any contents of their fields and any sequence of calls.        *)
(***************************************************************************)
EXTENDS Stub, DataFacts

-----------------------------------------------------------------------------
(* heap_malloc gives a block that is not allocated.                        *)
LEMMA FreshBlock ==
  ASSUME NEW heap, heap \subseteq Nat \ {0}, IsFiniteSet(heap)
  PROVE  /\ Fresh(heap) \in Nat \ {0} /\ Fresh(heap) \notin heap
<1>1. PICK c \in Nat : c = Cardinality(heap)
  BY FS_CardinalityType
<1>2. IsFiniteSet(1 .. c + 1) /\ Cardinality(1 .. c + 1) = c + 1
  BY FS_Interval
<1>3. (1 .. c + 1) \ heap # {}
  <2>1. SUFFICES ASSUME 1 .. c + 1 \subseteq heap PROVE FALSE
    OBVIOUS
  <2>2. Cardinality(1 .. c + 1) <= Cardinality(heap)
    BY <2>1, FS_Subset
  <2> QED BY <1>1, <1>2, <2>2
<1>4. PICK S : S = (1 .. c + 1) \ heap
  OBVIOUS
<1>5. S \in SUBSET Nat /\ S # {}
  BY <1>3, <1>4
<1>6. Min(S) \in S
  BY <1>5, MinIsLeast
<1> QED
  BY <1>1, <1>4, <1>6 DEF Fresh

-----------------------------------------------------------------------------
(* The local functions of Parse, Handler and rpc_estimate_param_size.      *)
Started(types, buf, heap) ==
  [ok |-> TRUE, rest |-> buf, heap |-> heap, struct |-> Cleared(types)]

ParseRun(types, buf, heap, n, p) ==
  p = [i \in 0 .. n |->
         IF i = 0 THEN [ok |-> TRUE, rest |-> buf, heap |-> heap, struct |-> Cleared(types)]
         ELSE ParseField(types, p[i - 1], i)]

LEMMA ParseExists ==
  ASSUME NEW types, NEW buf, NEW heap, NEW n \in Nat
  PROVE  \E p : ParseRun(types, buf, heap, n, p)
<1> DEFINE S == {k \in Nat : \E p : ParseRun(types, buf, heap, k, p)}
<1> PICK x : x = Started(types, buf, heap)
  OBVIOUS
<1>1. 0 \in S
  <2>1. PICK p : p = [i \in 0 .. 0 |-> x]
    OBVIOUS
  <2>2. p = [i \in 0 .. 0 |-> IF i = 0 THEN x ELSE ParseField(types, p[i - 1], i)]
    BY <2>1
  <2>3. ParseRun(types, buf, heap, 0, p)
    BY <2>2 DEF ParseRun, Started
  <2> QED BY <2>3
<1>2. ASSUME NEW k \in Nat, k \in S PROVE k + 1 \in S
  <2>1. PICK p : ParseRun(types, buf, heap, k, p)
    BY <1>2
  <2>2. p = [i \in 0 .. k |-> IF i = 0 THEN x ELSE ParseField(types, p[i - 1], i)]
    BY <2>1 DEF ParseRun, Started
  <2>3. PICK q : q = [i \in 0 .. k + 1 |-> IF i = 0 THEN x ELSE ParseField(types, p[i - 1], i)]
    OBVIOUS
  <2>4. \A i \in 0 .. k : i \in 0 .. k + 1 /\ q[i] = p[i]
    BY <2>2, <2>3
  <2>5. \A i \in 0 .. k + 1 : i # 0 => q[i - 1] = p[i - 1]
    BY <2>4
  <2>6. q = [i \in 0 .. k + 1 |-> IF i = 0 THEN x ELSE ParseField(types, q[i - 1], i)]
    BY <2>3, <2>5
  <2>7. ParseRun(types, buf, heap, k + 1, q)
    BY <2>6 DEF ParseRun, Started
  <2> QED BY <2>7
<1>3. \A k \in Nat : k \in S
  <2> HIDE DEF S
  <2> QED BY <1>1, <1>2, Induction
<1> QED BY <1>3

LEMMA ParseIs ==
  ASSUME NEW types, NEW buf, NEW heap, NEW n \in Nat, n = Len(types)
  PROVE  \E p : /\ Parse(types, buf, heap) = p[n]
                /\ p[0] = Started(types, buf, heap)
                /\ \A i \in 1 .. n : p[i] = ParseField(types, p[i - 1], i)
<1>1. \E p : ParseRun(types, buf, heap, n, p)
  BY ParseExists
<1>2. PICK f : f = CHOOSE p : ParseRun(types, buf, heap, Len(types), p)
  OBVIOUS
<1>3. ParseRun(types, buf, heap, n, f)
  BY <1>1, <1>2, Zenon
<1>4. Parse(types, buf, heap) = f[n]
  BY <1>2 DEF ParseRun, Parse
<1>5. f[0] = Started(types, buf, heap)
  BY <1>3 DEF ParseRun, Started
<1>6. \A i \in 1 .. n : f[i] = ParseField(types, f[i - 1], i)
  <2> TAKE i \in 1 .. n
  <2>1. i \in 0 .. n /\ i # 0
    OBVIOUS
  <2>2. PICK x : x = Started(types, buf, heap)
    OBVIOUS
  <2>3. f = [j \in 0 .. n |-> IF j = 0 THEN x ELSE ParseField(types, f[j - 1], j)]
    BY <1>3, <2>2 DEF ParseRun, Started
  <2> QED BY <2>1, <2>3
<1> QED
  BY <1>4, <1>5, <1>6

HandlerRun(types, found, result, heap, n, a) ==
  a = [i \in 0 .. n |-> IF i = 0 THEN [struct |-> found, heap |-> heap]
                       ELSE SetField(types, result, a[i - 1], i)]

LEMMA HandlerExists ==
  ASSUME NEW types, NEW found, NEW result, NEW heap, NEW n \in Nat
  PROVE  \E p : HandlerRun(types, found, result, heap, n, p)
<1> DEFINE S == {k \in Nat : \E p : HandlerRun(types, found, result, heap, k, p)}
<1> PICK x : x = [struct |-> found, heap |-> heap]
  OBVIOUS
<1>1. 0 \in S
  <2>1. PICK p : p = [i \in 0 .. 0 |-> x]
    OBVIOUS
  <2>2. p = [i \in 0 .. 0 |-> IF i = 0 THEN x ELSE SetField(types, result, p[i - 1], i)]
    BY <2>1
  <2>3. HandlerRun(types, found, result, heap, 0, p)
    BY <2>2 DEF HandlerRun
  <2> QED BY <2>3
<1>2. ASSUME NEW k \in Nat, k \in S PROVE k + 1 \in S
  <2>1. PICK p : HandlerRun(types, found, result, heap, k, p)
    BY <1>2
  <2>2. p = [i \in 0 .. k |-> IF i = 0 THEN x ELSE SetField(types, result, p[i - 1], i)]
    BY <2>1 DEF HandlerRun
  <2>3. PICK q : q = [i \in 0 .. k + 1 |-> IF i = 0 THEN x ELSE SetField(types, result, p[i - 1], i)]
    OBVIOUS
  <2>4. \A i \in 0 .. k : i \in 0 .. k + 1 /\ q[i] = p[i]
    BY <2>2, <2>3
  <2>5. \A i \in 0 .. k + 1 : i # 0 => q[i - 1] = p[i - 1]
    BY <2>4
  <2>6. q = [i \in 0 .. k + 1 |-> IF i = 0 THEN x ELSE SetField(types, result, q[i - 1], i)]
    BY <2>3, <2>5
  <2>7. HandlerRun(types, found, result, heap, k + 1, q)
    BY <2>6 DEF HandlerRun
  <2> QED BY <2>7
<1>3. \A k \in Nat : k \in S
  <2> HIDE DEF S
  <2> QED BY <1>1, <1>2, Induction
<1> QED BY <1>3

LEMMA HandlerIs ==
  ASSUME NEW types, NEW found, NEW result, NEW heap, NEW n \in Nat, n = Len(types)
  PROVE  \E p : /\ Handler(types, found, result, heap) = p[n]
                /\ p[0] = [struct |-> found, heap |-> heap]
                /\ \A i \in 1 .. n : p[i] = SetField(types, result, p[i - 1], i)
<1>1. \E p : HandlerRun(types, found, result, heap, n, p)
  BY HandlerExists
<1>2. PICK f : f = CHOOSE p : HandlerRun(types, found, result, heap, Len(types), p)
  OBVIOUS
<1>3. HandlerRun(types, found, result, heap, n, f)
  BY <1>1, <1>2, Zenon
<1>4. Handler(types, found, result, heap) = f[n]
  BY <1>2 DEF HandlerRun, Handler
<1>5. f[0] = [struct |-> found, heap |-> heap]
  BY <1>3 DEF HandlerRun
<1>6. \A i \in 1 .. n : f[i] = SetField(types, result, f[i - 1], i)
  <2> TAKE i \in 1 .. n
  <2>1. i \in 0 .. n /\ i # 0
    OBVIOUS
  <2>2. PICK x : x = [struct |-> found, heap |-> heap]
    OBVIOUS
  <2>3. f = [j \in 0 .. n |-> IF j = 0 THEN x ELSE SetField(types, result, f[j - 1], j)]
    BY <1>3, <2>2 DEF HandlerRun
  <2> QED BY <2>1, <2>3
<1> QED
  BY <1>4, <1>5, <1>6

SizeRun(types, struct, n, sz) ==
  sz = [i \in 0 .. n |-> IF i = 0 THEN 0
                        ELSE sz[i - 1] + rpc_estimate_field(types[i], struct[i])]

LEMMA SizeExists ==
  ASSUME NEW types, NEW struct, NEW n \in Nat
  PROVE  \E p : SizeRun(types, struct, n, p)
<1> DEFINE S == {k \in Nat : \E p : SizeRun(types, struct, k, p)}
<1> PICK x : x = 0
  OBVIOUS
<1>1. 0 \in S
  <2>1. PICK p : p = [i \in 0 .. 0 |-> x]
    OBVIOUS
  <2>2. p = [i \in 0 .. 0 |-> IF i = 0 THEN x ELSE p[i - 1] + rpc_estimate_field(types[i], struct[i])]
    BY <2>1
  <2>3. SizeRun(types, struct, 0, p)
    BY <2>2 DEF SizeRun
  <2> QED BY <2>3
<1>2. ASSUME NEW k \in Nat, k \in S PROVE k + 1 \in S
  <2>1. PICK p : SizeRun(types, struct, k, p)
    BY <1>2
  <2>2. p = [i \in 0 .. k |-> IF i = 0 THEN x ELSE p[i - 1] + rpc_estimate_field(types[i], struct[i])]
    BY <2>1 DEF SizeRun
  <2>3. PICK q : q = [i \in 0 .. k + 1 |-> IF i = 0 THEN x ELSE p[i - 1] + rpc_estimate_field(types[i], struct[i])]
    OBVIOUS
  <2>4. \A i \in 0 .. k : i \in 0 .. k + 1 /\ q[i] = p[i]
    BY <2>2, <2>3
  <2>5. \A i \in 0 .. k + 1 : i # 0 => q[i - 1] = p[i - 1]
    BY <2>4
  <2>6. q = [i \in 0 .. k + 1 |-> IF i = 0 THEN x ELSE q[i - 1] + rpc_estimate_field(types[i], struct[i])]
    BY <2>3, <2>5
  <2>7. SizeRun(types, struct, k + 1, q)
    BY <2>6 DEF SizeRun
  <2> QED BY <2>7
<1>3. \A k \in Nat : k \in S
  <2> HIDE DEF S
  <2> QED BY <1>1, <1>2, Induction
<1> QED BY <1>3

Sizes(types, struct, n, p) ==
  p[0] = 0 /\ \A i \in 1 .. n : p[i] = p[i - 1] + rpc_estimate_field(types[i], struct[i])

LEMMA SizeIs ==
  ASSUME NEW types, NEW struct, NEW n \in Nat, n = Len(types)
  PROVE  \E p : rpc_estimate_param_size(types, struct) = p[n] /\ Sizes(types, struct, n, p)
<1>1. \E p : SizeRun(types, struct, n, p)
  BY SizeExists
<1>2. PICK f : f = CHOOSE p : SizeRun(types, struct, Len(types), p)
  OBVIOUS
<1>3. SizeRun(types, struct, n, f)
  BY <1>1, <1>2, Zenon
<1>4. rpc_estimate_param_size(types, struct) = f[n]
  BY <1>2 DEF SizeRun, rpc_estimate_param_size
<1>5. f[0] = 0
  BY <1>3 DEF SizeRun
<1>6. \A i \in 1 .. n : f[i] = f[i - 1] + rpc_estimate_field(types[i], struct[i])
  <2> TAKE i \in 1 .. n
  <2>1. i \in 0 .. n /\ i # 0
    OBVIOUS
  <2>2. PICK x : x = 0
    OBVIOUS
  <2>3. f = [j \in 0 .. n |-> IF j = 0 THEN x ELSE f[j - 1] + rpc_estimate_field(types[j], struct[j])]
    BY <1>3, <2>2 DEF SizeRun
  <2> QED BY <2>1, <2>3
<1> QED
  BY <1>4, <1>5, <1>6 DEF Sizes

-----------------------------------------------------------------------------
(* Which blocks a structure holds while it is being filled, field k last:  *)
(* blocks of its own, each field its own, and nothing allocated besides    *)
(* but what was allocated before.                                          *)
Field == [ptr : Nat, val : Seq(Byte)]

Owned(H, s, heap, n, k) ==
  /\ s \in [1 .. n -> Field]
  /\ heap \subseteq Nat \ {0} /\ IsFiniteSet(heap)
  /\ heap = H \cup Blocks(s) /\ Blocks(s) \cap H = {}
  /\ \A i, j \in 1 .. n : i # j /\ s[i].ptr = s[j].ptr => s[i].ptr = 0
  /\ \A j \in k + 1 .. n : s[j].ptr = 0

LEMMA ByteFacts ==
  /\ Base \in Nat /\ Base > 4 /\ 0 \in Byte /\ Byte \subseteq Nat
  /\ \A v \in Words : v \in Seq(Byte) /\ Len(v) = 4
  /\ <<0, 0, 0, 0>> \in Seq(Byte) /\ Len(<<0, 0, 0, 0>>) = 4 /\ <<>> \in Seq(Byte)
<1>1. Base \in Nat /\ Base > 4
  BY StubAssumption
<1>2. 0 \in Byte /\ Byte \subseteq Nat
  BY <1>1 DEF Byte
<1>3. ASSUME NEW v \in Words PROVE v \in Seq(Byte) /\ Len(v) = 4
  <2>1. v \in [1 .. 4 -> Byte]
    BY StubAssumption
  <2>2. \A n \in Nat : v \in [1 .. n -> Byte] => v \in Seq(Byte) /\ Len(v) = n
    OBVIOUS
  <2> QED BY <2>1, <2>2
<1>4. <<0, 0, 0, 0>> \in Seq(Byte) /\ Len(<<0, 0, 0, 0>>) = 4 /\ <<>> \in Seq(Byte)
  BY <1>2
<1> QED BY <1>1, <1>2, <1>3, <1>4

(* A field filled with no block ... *)
LEMMA FieldKept ==
  ASSUME NEW H, NEW s, NEW heap, NEW n \in Nat, NEW k \in 1 .. n, Owned(H, s, heap, n, k - 1),
         NEW t \in [1 .. n -> Field], \A j \in 1 .. n : t[j].ptr = s[j].ptr
  PROVE  Owned(H, t, heap, n, k)
<1>1. DOMAIN s = 1 .. n /\ DOMAIN t = 1 .. n
  BY DEF Owned
<1>2. Blocks(t) = Blocks(s)
  BY <1>1 DEF Blocks
<1>3. \A j \in k + 1 .. n : j \in k - 1 + 1 .. n /\ j \in 1 .. n
  OBVIOUS
<1> QED
  BY <1>2, <1>3 DEF Owned

(* ... and one filled with a block of its own. *)
Takes(s, heap, n, k, b, t) ==
  /\ b = Fresh(heap) /\ t \in [1 .. n -> Field] /\ t[k].ptr = b
  /\ \A j \in 1 .. n : j # k => t[j].ptr = s[j].ptr

LEMMA FieldTaken ==
  ASSUME NEW H, NEW s, NEW heap, NEW n \in Nat, NEW k \in 1 .. n, Owned(H, s, heap, n, k - 1),
         NEW b, NEW t, Takes(s, heap, n, k, b, t)
  PROVE  b # 0 /\ Owned(H, t, heap \cup {b}, n, k)
<1>1. DOMAIN s = 1 .. n /\ DOMAIN t = 1 .. n /\ s[k].ptr = 0
  BY DEF Owned, Takes
<1>2. b \in Nat \ {0} /\ b \notin heap
  BY FreshBlock DEF Owned, Takes
<1>3. Blocks(t) = Blocks(s) \cup {b}
  <2>1. ASSUME NEW x \in Blocks(t) PROVE x \in Blocks(s) \cup {b}
    BY <1>1, <2>1 DEF Blocks, Takes
  <2>2. ASSUME NEW x \in Blocks(s) PROVE x \in Blocks(t)
    <3>1. PICK j \in 1 .. n : x = s[j].ptr /\ x # 0
      BY <1>1 DEF Blocks
    <3>2. j # k
      BY <1>1, <3>1
    <3> QED BY <1>1, <3>1, <3>2 DEF Blocks, Takes
  <2>3. b \in Blocks(t)
    BY <1>1, <1>2 DEF Blocks, Takes
  <2> QED BY <2>1, <2>2, <2>3
<1>4. \A j \in 1 .. n : s[j].ptr # b
  <2> TAKE j \in 1 .. n
  <2>1. s[j].ptr = 0 \/ s[j].ptr \in Blocks(s)
    BY <1>1 DEF Blocks
  <2> QED BY <1>2, <2>1 DEF Owned
<1>5. ASSUME NEW i \in 1 .. n, NEW j \in 1 .. n, i # j, t[i].ptr = t[j].ptr
      PROVE  t[i].ptr = 0
  <2>1. CASE i = k \/ j = k
    <3>1. s[i].ptr # b /\ s[j].ptr # b
      BY <1>4
    <3> QED BY <1>5, <2>1, <3>1 DEF Takes
  <2>2. CASE i # k /\ j # k
    <3>1. t[i].ptr = s[i].ptr /\ t[j].ptr = s[j].ptr
      BY <2>2 DEF Takes
    <3>2. s[i].ptr = 0
      BY <1>5, <3>1 DEF Owned
    <3> QED BY <3>1, <3>2
  <2> QED BY <2>1, <2>2
<1>6. \A j \in k + 1 .. n : t[j].ptr = 0
  <2> TAKE j \in k + 1 .. n
  <2>1. j \in 1 .. n /\ j # k /\ j \in k - 1 + 1 .. n
    OBVIOUS
  <2> QED BY <1>1, <2>1 DEF Owned, Takes
<1>7. heap \cup {b} \subseteq Nat \ {0} /\ IsFiniteSet(heap \cup {b})
  BY <1>2, FS_AddElement DEF Owned
<1>8. heap \cup {b} = H \cup Blocks(t) /\ Blocks(t) \cap H = {}
  BY <1>2, <1>3 DEF Owned
<1> QED
  BY <1>2, <1>1, <1>5, <1>6, <1>7, <1>8 DEF Owned, Takes

LEMMA ClearedOwns ==
  ASSUME NEW types \in Seq(Type), NEW n \in Nat, n = Len(types),
         NEW H, H \subseteq Nat \ {0}, IsFiniteSet(H)
  PROVE  Owned(H, Cleared(types), H, n, 0) /\ Owned(H, Cleared(types), H, n, n)
<1>1. DOMAIN types = 1 .. n
  BY LenProperties
<1>2. PICK c : c = Cleared(types)
  OBVIOUS
<1>3. \A i \in 1 .. n : c[i] \in Field /\ c[i].ptr = 0
  BY <1>1, <1>2, ByteFacts DEF Cleared, Field, NULL
<1>4. c \in [1 .. n -> Field]
  <2>1. c = [i \in 1 .. n |-> c[i]]
    BY <1>1, <1>2 DEF Cleared
  <2> QED BY <1>3, <2>1
<1>5. DOMAIN c = 1 .. n
  BY <1>4
<1>6. Blocks(c) = {}
  BY <1>3, <1>5 DEF Blocks
<1>7. \A j \in 0 + 1 .. n : j \in 1 .. n
  OBVIOUS
<1>8. \A j \in n + 1 .. n : j \in 1 .. n
  OBVIOUS
<1> QED
  BY <1>2, <1>3, <1>4, <1>6, <1>7, <1>8 DEF Owned

(* Every block freed once. *)
LEMMA FreedOnce ==
  ASSUME NEW n \in Nat, NEW s, NEW heap, Owned({}, s, heap, n, n)
  PROVE  ~Misfree(s, heap) /\ heap \ Blocks(s) = {}
  BY DEF Owned, Misfree

LEMMA FreedOnceBoth ==
  ASSUME NEW n1 \in Nat, NEW n2 \in Nat, NEW a, NEW b, NEW H1, NEW H2,
         Owned({}, a, H1, n1, n1), Owned(H1, b, H2, n2, n2)
  PROVE  ~Misfree(a \o b, H2) /\ (H2 \ Blocks(a)) \ Blocks(b) = {}
<1>1. /\ a \in [1 .. n1 -> Field] /\ b \in [1 .. n2 -> Field]
      /\ H1 = Blocks(a) /\ H2 = H1 \cup Blocks(b) /\ Blocks(b) \cap H1 = {}
  BY DEF Owned
<1>2. a \in Seq(Field) /\ b \in Seq(Field) /\ Len(a) = n1 /\ Len(b) = n2
  BY <1>1
<1>3. PICK c : c = a \o b
  OBVIOUS
<1>4. /\ c \in Seq(Field) /\ Len(c) = n1 + n2
      /\ \A j \in 1 .. n1 + n2 : c[j] = IF j <= n1 THEN a[j] ELSE b[j - n1]
  BY <1>2, <1>3, ConcatProperties
<1>5. DOMAIN c = 1 .. n1 + n2
  BY <1>4, LenProperties
<1>6. ASSUME NEW j \in 1 .. n1 + n2
      PROVE  \/ j \in 1 .. n1 /\ c[j] = a[j]
             \/ j - n1 \in 1 .. n2 /\ c[j] = b[j - n1]
  BY <1>4
<1>7. ASSUME NEW j \in 1 .. n1 PROVE a[j].ptr \in Nat /\ (a[j].ptr = 0 \/ a[j].ptr \in Blocks(a))
  BY <1>1 DEF Field, Blocks
<1>8. ASSUME NEW j \in 1 .. n2 PROVE b[j].ptr \in Nat /\ (b[j].ptr = 0 \/ b[j].ptr \in Blocks(b))
  BY <1>1 DEF Field, Blocks
<1>9. Blocks(c) \subseteq H2
  <2>1. ASSUME NEW x \in Blocks(c) PROVE x \in H2
    <3>1. PICK j \in 1 .. n1 + n2 : x = c[j].ptr /\ x # 0
      BY <1>5 DEF Blocks
    <3> QED BY <1>1, <1>6, <1>7, <1>8, <3>1
  <2> QED BY <2>1
<1>10. ASSUME NEW i \in 1 .. n1 + n2, NEW j \in 1 .. n1 + n2, i # j, c[i].ptr = c[j].ptr
       PROVE  c[i].ptr = 0
  <2>1. CASE i \in 1 .. n1 /\ c[i] = a[i] /\ j \in 1 .. n1 /\ c[j] = a[j]
    BY <1>10, <2>1 DEF Owned
  <2>2. CASE i - n1 \in 1 .. n2 /\ c[i] = b[i - n1] /\ j - n1 \in 1 .. n2 /\ c[j] = b[j - n1]
    <3>1. i - n1 # j - n1
      BY <1>10
    <3> QED BY <1>10, <2>2, <3>1 DEF Owned
  <2>3. CASE i \in 1 .. n1 /\ c[i] = a[i] /\ j - n1 \in 1 .. n2 /\ c[j] = b[j - n1]
    BY <1>1, <1>7, <1>8, <1>10, <2>3
  <2>4. CASE i - n1 \in 1 .. n2 /\ c[i] = b[i - n1] /\ j \in 1 .. n1 /\ c[j] = a[j]
    BY <1>1, <1>7, <1>8, <1>10, <2>4
  <2> QED BY <1>6, <2>1, <2>2, <2>3, <2>4
<1> QED
  BY <1>1, <1>3, <1>5, <1>9, <1>10 DEF Misfree
-----------------------------------------------------------------------------
(* The parser, over any buffer.                                            *)
ReadFrom(buf, r) ==
  /\ r.used \in Nat /\ r.used <= Len(buf) /\ r.val \in Seq(Byte)

LEMMA Reading ==
  ASSUME NEW buf \in Seq(Byte)
  PROVE  tlv_read(buf).used = 0 \/ ReadFrom(buf, tlv_read(buf))
<1>1. PICK n \in Nat : n = Len(buf)
  BY LenProperties
<1>2. CASE n < 3
  BY <1>1, <1>2 DEF tlv_read
<1>3. CASE ~(n < 3)
  <2>1. buf[2] \in Nat /\ buf[3] \in Nat /\ Base \in Nat
    <3>1. 2 \in 1 .. Len(buf) /\ 3 \in 1 .. Len(buf)
      BY <1>1, <1>3
    <3>2. buf[2] \in Byte /\ buf[3] \in Byte
      BY <3>1, ElementOfSeq
    <3> QED BY <3>2, ByteFacts
  <2>2. PICK len \in Nat : len = buf[2] + Base * buf[3]
    BY <2>1
  <2>3. CASE n < 3 + len
    BY <1>1, <2>2, <2>3 DEF tlv_read
  <2>4. CASE ~(n < 3 + len)
    <3>1. PICK r : r = tlv_read(buf)
      OBVIOUS
    <3>2. r.used = 3 + len /\ r.val = SubSeq(buf, 4, 3 + len)
      BY <1>1, <1>3, <2>2, <2>4, <3>1 DEF tlv_read
    <3>3. SubSeq(buf, 4, 3 + len) \in Seq(Byte)
      <4>1. \A i \in 4 .. 3 + len : buf[i] \in Byte
        BY <1>1, <2>4, ElementOfSeq
      <4> QED BY <4>1, SubSeqProperties
    <3> QED BY <1>1, <2>4, <3>1, <3>2, <3>3 DEF ReadFrom
  <2> QED BY <2>3, <2>4
<1> QED BY <1>2, <1>3

LEMMA CStringType ==
  ASSUME NEW v \in Seq(Byte)
  PROVE  CString(v) \in Seq(Byte) /\ (0 \notin {v[i] : i \in DOMAIN v} => CString(v) = v)
<1>1. PICK n \in Nat : n = Len(v) /\ DOMAIN v = 1 .. n
  BY LenProperties
<1>2. PICK S : S = {n} \cup {i - 1 : i \in {j \in DOMAIN v : v[j] = 0}}
  OBVIOUS
<1>3. S \in SUBSET Nat /\ S # {}
  BY <1>1, <1>2
<1>4. Min(S) \in Nat /\ Min(S) <= n
  BY <1>2, <1>3, MinIsLeast
<1>5. CString(v) = SubSeq(v, 1, Min(S))
  BY <1>1, <1>2 DEF CString
<1>6. SubSeq(v, 1, Min(S)) \in Seq(Byte)
  BY <1>1, <1>4, PartsOfSeq
<1>7. ASSUME 0 \notin {v[i] : i \in DOMAIN v} PROVE CString(v) = v
  <2>1. S = {n}
    BY <1>1, <1>2, <1>7
  <2>2. Min(S) = n
    BY <1>3, <2>1, MinIsLeast
  <2>3. SubSeq(v, 1, n) = v
    BY <1>1
  <2> QED BY <1>5, <2>2, <2>3
<1> QED BY <1>5, <1>6, <1>7

(* A parser's progress when it has done k fields. *)
Progress(n) == [ok : BOOLEAN, rest : Seq(Byte), heap : SUBSET Nat, struct : [1 .. n -> Field]]

Parsed(types, H, n, p, k) ==
  /\ p \in Progress(n)
  /\ Owned(H, p.struct, p.heap, n, k)
  /\ p.ok => \A j \in 1 .. k : types[j] # "u32" => p.struct[j].ptr # 0

(* What reading field i does, when it can be read. *)
Contents(type, val) == IF type = "string" THEN CString(val) ELSE val

Readable(types, p, i, r) ==
  /\ p.ok /\ r = tlv_read(p.rest) /\ r.used # 0 /\ r.tag = Tag(types[i])
  /\ types[i] = "u32" => Len(r.val) = 4

Reads(types, p, q, i, r) ==
  /\ Readable(types, p, i, r)
  /\ q.rest = SubSeq(p.rest, r.used + 1, Len(p.rest))
  /\ q.struct = [p.struct EXCEPT ![i] = [ptr |-> q.struct[i].ptr,
                                         val |-> Contents(types[i], r.val)]]

LEMMA FieldRead ==
  ASSUME NEW types \in Seq(Type), NEW n \in Nat, n = Len(types), NEW H, NEW i \in 1 .. n,
         NEW p, Parsed(types, H, n, p, i - 1), NEW q, q = ParseField(types, p, i)
  PROVE  /\ Parsed(types, H, n, q, i)
         /\ q.ok => \E r : Reads(types, p, q, i, r)
<1>1. PICK r, b, rest : /\ r = tlv_read(p.rest) /\ b = Fresh(p.heap)
                        /\ rest = SubSeq(p.rest, r.used + 1, Len(p.rest))
  OBVIOUS
<1>2. /\ p \in Progress(n) /\ Owned(H, p.struct, p.heap, n, i - 1)
      /\ p.ok \in BOOLEAN /\ p.rest \in Seq(Byte) /\ p.heap \in SUBSET Nat
      /\ p.struct \in [1 .. n -> Field] /\ p.struct[i] \in Field
  BY DEF Parsed, Progress
<1>3. types[i] \in Type
  BY ElementOfSeq
<1>4. PICK bad \in BOOLEAN : bad = (\/ ~p.ok \/ r.used = 0 \/ r.tag # Tag(types[i])
                                    \/ types[i] = "u32" /\ Len(r.val) # 4)
  OBVIOUS
<1>5. CASE bad
  <2>1. q = [p EXCEPT !.ok = FALSE]
    BY <1>1, <1>4, <1>5 DEF ParseField
  <2>2. q \in Progress(n) /\ q.struct = p.struct /\ q.heap = p.heap /\ ~q.ok
    BY <1>2, <2>1 DEF Progress
  <2>3. Owned(H, q.struct, q.heap, n, i)
    BY <1>2, <2>2, FieldKept
  <2> QED BY <2>2, <2>3 DEF Parsed
<1>6. CASE ~bad
  <2>1. Readable(types, p, i, r)
    BY <1>1, <1>4, <1>6 DEF Readable
  <2>2. r.used \in Nat /\ r.used <= Len(p.rest) /\ r.val \in Seq(Byte)
    BY <1>1, <1>2, <2>1, Reading DEF Readable, ReadFrom
  <2>3. rest \in Seq(Byte)
    BY <1>1, <1>2, <2>2, PartsOfSeq
  <2>4. CASE types[i] = "u32"
    <3>1. q = [p EXCEPT !.rest = rest, !.struct[i].val = r.val]
      BY <1>1, <1>4, <1>6, <2>4 DEF ParseField
    <3>2. /\ q.rest = rest /\ q.heap = p.heap /\ q.ok = p.ok
          /\ q.struct = [p.struct EXCEPT ![i].val = r.val]
          /\ q = [p EXCEPT !.rest = rest, !.struct = q.struct]
      BY <1>2, <3>1 DEF Progress
    <3>3. /\ q.struct \in [1 .. n -> Field]
          /\ \A j \in 1 .. n : q.struct[j].ptr = p.struct[j].ptr
          /\ q.struct = [p.struct EXCEPT ![i] = [ptr |-> q.struct[i].ptr, val |-> r.val]]
      <4>1. PICK s, t, f : s = p.struct /\ t = q.struct /\ f = [s[i] EXCEPT !.val = r.val]
        OBVIOUS
      <4>2. s \in [1 .. n -> Field] /\ t = [s EXCEPT ![i] = f]
        BY <1>2, <3>2, <4>1
      <4>3. f \in Field /\ f.ptr = s[i].ptr /\ f = [ptr |-> f.ptr, val |-> r.val]
        BY <1>2, <2>2, <4>1 DEF Field
      <4>4. t \in [1 .. n -> Field] /\ t[i] = f /\ \A j \in 1 .. n : j # i => t[j] = s[j]
        BY <4>2, <4>3
      <4>5. t = [s EXCEPT ![i] = [ptr |-> t[i].ptr, val |-> r.val]]
        BY <4>2, <4>3, <4>4
      <4> QED BY <4>1, <4>3, <4>4, <4>5
    <3>4. q \in Progress(n)
      BY <1>2, <2>3, <3>2, <3>3 DEF Progress
    <3>5. Owned(H, q.struct, q.heap, n, i)
      <4>1. Owned(H, q.struct, p.heap, n, i)
        BY <1>2, <3>3, FieldKept, ZenonT(40)
      <4> QED BY <3>2, <4>1
    <3>6. \A j \in 1 .. i : types[j] # "u32" => j \in 1 .. i - 1 /\ j \in 1 .. n
      BY <2>4
    <3>7. Parsed(types, H, n, q, i)
      BY <3>2, <3>3, <3>4, <3>5, <3>6 DEF Parsed
    <3>8. Contents(types[i], r.val) = r.val
      BY <2>4 DEF Contents
    <3>9. q.rest = SubSeq(p.rest, r.used + 1, Len(p.rest))
      BY <1>1, <3>2
    <3>10. Reads(types, p, q, i, r)
      BY <2>1, <3>3, <3>8, <3>9, Zenon DEF Reads
    <3> QED BY <3>7, <3>10
  <2>5. CASE types[i] # "u32"
    <3>1. PICK f : f = [ptr |-> b, val |-> Contents(types[i], r.val)]
      OBVIOUS
    <3>2. q = [p EXCEPT !.rest = rest, !.heap = p.heap \cup {b}, !.struct[i] = f]
      BY <1>1, <1>4, <1>6, <2>5, <3>1 DEF ParseField, Contents
    <3>3. /\ q.rest = rest /\ q.heap = p.heap \cup {b} /\ q.ok = p.ok
          /\ q.struct = [p.struct EXCEPT ![i] = f]
          /\ q = [p EXCEPT !.rest = rest, !.heap = p.heap \cup {b}, !.struct = q.struct]
      BY <1>2, <3>2 DEF Progress
    <3>4. b \in Nat \ {0}
      BY <1>1, <1>2, FreshBlock DEF Owned
    <3>5. f \in Field
      BY <2>2, <3>1, <3>4, CStringType DEF Field, Contents
    <3>6. /\ q.struct \in [1 .. n -> Field] /\ q.struct[i] = f
          /\ \A j \in 1 .. n : j # i => q.struct[j] = p.struct[j]
      BY <1>2, <3>3, <3>5
    <3>7. q \in Progress(n)
      BY <1>2, <2>3, <3>3, <3>4, <3>6 DEF Progress
    <3>8. b # 0 /\ Owned(H, q.struct, q.heap, n, i)
      <4>1. q.struct[i].ptr = b
        BY <3>1, <3>6
      <4>2. \A j \in 1 .. n : j # i => q.struct[j].ptr = p.struct[j].ptr
        BY <3>6
      <4>3. PICK s, t, h : s = p.struct /\ t = q.struct /\ h = p.heap
        OBVIOUS
      <4>4. Owned(H, s, h, n, i - 1) /\ Takes(s, h, n, i, b, t)
        BY <1>1, <1>2, <3>6, <4>1, <4>2, <4>3 DEF Takes
      <4>5. b # 0 /\ Owned(H, t, h \cup {b}, n, i)
        BY <4>4, FieldTaken, Zenon
      <4> QED BY <3>3, <4>3, <4>5
    <3>9. ASSUME q.ok, NEW j \in 1 .. i, types[j] # "u32" PROVE q.struct[j].ptr # 0
      <4>1. CASE j = i
        BY <3>1, <3>6, <3>8, <4>1
      <4>2. CASE j # i
        <5>1. j \in 1 .. n /\ j \in 1 .. i - 1
          BY <4>2
        <5> QED BY <3>3, <3>6, <3>9, <4>2, <5>1 DEF Parsed
      <4> QED BY <4>1, <4>2
    <3>10. Parsed(types, H, n, q, i)
      BY <3>7, <3>8, <3>9, Zenon DEF Parsed
    <3>11. f = [ptr |-> q.struct[i].ptr, val |-> Contents(types[i], r.val)]
      BY <3>1, <3>6
    <3>12. q.rest = SubSeq(p.rest, r.used + 1, Len(p.rest))
      BY <1>1, <3>3
    <3>13. Reads(types, p, q, i, r)
      BY <2>1, <3>3, <3>11, <3>12, Zenon DEF Reads
    <3> QED BY <3>10, <3>13
  <2> QED BY <2>4, <2>5
<1> QED BY <1>5, <1>6

LEMMA ParseOwns ==
  ASSUME NEW types \in Seq(Type), NEW n \in Nat, n = Len(types), NEW buf \in Seq(Byte),
         NEW H, H \subseteq Nat \ {0}, IsFiniteSet(H), NEW p,
         p[0] = Started(types, buf, H), \A i \in 1 .. n : p[i] = ParseField(types, p[i - 1], i)
  PROVE  \A i \in 0 .. n : Parsed(types, H, n, p[i], i)
<1> DEFINE S == {k \in Nat : k <= n => Parsed(types, H, n, p[k], k)}
<1>1. 0 \in S
  <2>1. Owned(H, Cleared(types), H, n, 0)
    BY ClearedOwns
  <2>2. /\ p[0].ok = TRUE /\ p[0].rest = buf /\ p[0].heap = H /\ p[0].struct = Cleared(types)
        /\ p[0] \in Progress(n)
    BY <2>1 DEF Started, Progress, Owned
  <2> QED BY <2>1, <2>2 DEF Parsed
<1>2. ASSUME NEW k \in Nat, k \in S PROVE k + 1 \in S
  <2>1. SUFFICES ASSUME k + 1 <= n PROVE Parsed(types, H, n, p[k + 1], k + 1)
    OBVIOUS
  <2>2. PICK i \in 1 .. n : i = k + 1 /\ i - 1 = k
    BY <2>1
  <2>3. Parsed(types, H, n, p[i - 1], i - 1)
    BY <1>2, <2>1, <2>2
  <2>4. p[i] = ParseField(types, p[i - 1], i)
    OBVIOUS
  <2>5. Parsed(types, H, n, p[i], i)
    BY <2>3, <2>4, FieldRead
  <2> QED BY <2>2, <2>5
<1>3. \A k \in Nat : k \in S
  <2> HIDE DEF S
  <2> QED BY <1>1, <1>2, Induction
<1> QED BY <1>3

LEMMA ParseHolds ==
  ASSUME NEW types \in Seq(Type), NEW buf \in Seq(Byte), NEW H, H \subseteq Nat \ {0}, IsFiniteSet(H)
  PROVE  Parsed(types, H, Len(types), Parse(types, buf, H), Len(types))
<1>1. PICK n \in Nat : n = Len(types)
  BY LenProperties
<1>2. PICK p : /\ Parse(types, buf, H) = p[n]
               /\ p[0] = Started(types, buf, H)
               /\ \A i \in 1 .. n : p[i] = ParseField(types, p[i - 1], i)
  BY <1>1, ParseIs
<1>3. \A i \in 0 .. n : Parsed(types, H, n, p[i], i)
  BY <1>1, <1>2, ParseOwns
<1> QED BY <1>1, <1>2, <1>3
-----------------------------------------------------------------------------
(* The handler fills a cleared structure.                                  *)
Filled(types, n, s) ==
  \A i \in 1 .. n :
    /\ types[i] = "u32" => Len(s[i].val) = 4
    /\ types[i] = "string" => 0 \notin {s[i].val[j] : j \in DOMAIN s[i].val}

LEMMA FieldFacts ==
  ASSUME NEW type \in Type, NEW f \in Fields(type)
  PROVE  /\ f \in Field
         /\ type = "u32" => f.ptr = 0 /\ Len(f.val) = 4
         /\ type = "string" => 0 \notin {f.val[j] : j \in DOMAIN f.val}
         /\ f.val \in Words \cup Strings \cup Blobs \cup {<<>>}
<1>1. CASE f = NULL /\ type = "string"
  BY <1>1, ByteFacts DEF NULL, Field
<1>2. CASE \E v \in Values(type) : f = [ptr |-> IF type = "u32" THEN 0 ELSE 1, val |-> v]
  <2>1. PICK v \in Values(type) : f = [ptr |-> IF type = "u32" THEN 0 ELSE 1, val |-> v]
    BY <1>2
  <2>2. f.val = v /\ f.ptr = IF type = "u32" THEN 0 ELSE 1
    BY <2>1
  <2>3. CASE type = "u32"
    <3>1. v \in Words
      BY <2>1, <2>3 DEF Values
    <3> QED BY <2>1, <2>2, <2>3, <3>1, ByteFacts DEF Field
  <2>4. CASE type = "string"
    <3>1. v \in Strings /\ v \in Seq(Byte \ {0})
      BY <2>1, <2>4, StubAssumption DEF Values
    <3>2. \A j \in 1 .. Len(v) : v[j] \in Byte /\ v[j] # 0
      BY <3>1, ElementOfSeq
    <3>3. v \in Seq(Byte) /\ DOMAIN v = 1 .. Len(v)
      <4>1. Len(v) \in Nat /\ v = [j \in 1 .. Len(v) |-> v[j]]
        BY <3>1
      <4> QED BY <3>2, <4>1
    <3> QED BY <2>1, <2>2, <2>4, <3>1, <3>2, <3>3 DEF Field
  <2>5. CASE type = "bytes"
    <3>1. v \in Blobs /\ v \in Seq(Byte)
      BY <2>1, <2>5, StubAssumption DEF Values
    <3> QED BY <2>1, <2>2, <2>5, <3>1 DEF Field
  <2> QED BY <2>3, <2>4, <2>5 DEF Type
<1> QED BY <1>1, <1>2 DEF Fields

(* A handler's progress when it has done k fields. *)
Handled(types, H, n, a, k) ==
  /\ a = [struct |-> a.struct, heap |-> a.heap]
  /\ Owned(H, a.struct, a.heap, n, k)
  /\ Filled(types, n, a.struct)
  /\ \A i \in 1 .. n : a.struct[i].val \in Words \cup Strings \cup Blobs \cup {<<>>, <<0, 0, 0, 0>>}

LEMMA ClearedHandled ==
  ASSUME NEW types \in Seq(Type), NEW n \in Nat, n = Len(types),
         NEW H, H \subseteq Nat \ {0}, IsFiniteSet(H)
  PROVE  Handled(types, H, n, [struct |-> Cleared(types), heap |-> H], 0)
<1>1. Owned(H, Cleared(types), H, n, 0)
  BY ClearedOwns
<1>2. DOMAIN types = 1 .. n
  BY LenProperties
<1>3. Filled(types, n, Cleared(types))
  BY <1>2, ByteFacts DEF Filled, Cleared, NULL
<1>4. \A i \in 1 .. n : Cleared(types)[i].val \in {<<>>, <<0, 0, 0, 0>>}
  BY <1>2 DEF Cleared, NULL
<1> QED BY <1>1, <1>3, <1>4 DEF Handled

LEMMA FieldSet ==
  ASSUME NEW types \in Seq(Type), NEW n \in Nat, n = Len(types), NEW H, NEW i \in 1 .. n,
         NEW a, Handled(types, H, n, a, i - 1),
         NEW result, result[i] \in Fields(types[i])
  PROVE  Handled(types, H, n, SetField(types, result, a, i), i)
<1>1. PICK s, h, c : s = a.struct /\ h = a.heap /\ c = SetField(types, result, a, i)
  OBVIOUS
<1>2. PICK f : f = result[i]
  OBVIOUS
<1>3. /\ a = [struct |-> s, heap |-> h] /\ Owned(H, s, h, n, i - 1) /\ Filled(types, n, s)
      /\ \A j \in 1 .. n : s[j].val \in Words \cup Strings \cup Blobs \cup {<<>>, <<0, 0, 0, 0>>}
  BY <1>1 DEF Handled
<1>4. types[i] \in Type
  BY ElementOfSeq
<1>5. /\ f \in Field
      /\ types[i] = "u32" => f.ptr = 0 /\ Len(f.val) = 4
      /\ types[i] = "string" => 0 \notin {f.val[j] : j \in DOMAIN f.val}
      /\ f.val \in Words \cup Strings \cup Blobs \cup {<<>>}
  BY <1>2, <1>4, FieldFacts
<1>6. s \in [1 .. n -> Field] /\ s[i] \in Field /\ s[i].ptr = 0
  BY <1>3 DEF Owned
<1>7. ASSUME NEW t, NEW g \in Field, t = [s EXCEPT ![i] = g], g.val = f.val
      PROVE  /\ t \in [1 .. n -> Field] /\ t[i] = g /\ \A j \in 1 .. n : j # i => t[j] = s[j]
             /\ Filled(types, n, t)
             /\ \A j \in 1 .. n : t[j].val \in Words \cup Strings \cup Blobs \cup {<<>>, <<0, 0, 0, 0>>}
  <2>1. t \in [1 .. n -> Field] /\ t[i] = g /\ \A j \in 1 .. n : j # i => t[j] = s[j]
    BY <1>6, <1>7
  <2>2. \A j \in 1 .. n : t[j].val = s[j].val \/ (j = i /\ t[j].val = f.val)
    BY <1>7, <2>1
  <2>3. Filled(types, n, t)
    <3>1. ASSUME NEW j \in 1 .. n, NEW v, v = t[j].val
          PROVE  /\ types[j] = "u32" => Len(v) = 4
                 /\ types[j] = "string" => 0 \notin {v[x] : x \in DOMAIN v}
      <4>1. CASE v = s[j].val
        BY <1>3, <4>1 DEF Filled
      <4>2. CASE j = i /\ v = f.val
        BY <1>5, <4>2
      <4> QED BY <2>2, <3>1, <4>1, <4>2
    <3> QED BY <3>1 DEF Filled
  <2> QED BY <1>3, <1>5, <2>1, <2>2, <2>3
<1>8. CASE types[i] = "u32"
  <2>1. c = [a EXCEPT !.struct[i] = f]
    BY <1>1, <1>2, <1>8 DEF SetField
  <2>2. PICK t : t = [s EXCEPT ![i] = f]
    OBVIOUS
  <2>3. c.struct = t /\ c.heap = h /\ c = [struct |-> c.struct, heap |-> c.heap]
    <3>1. c = [struct |-> t, heap |-> h]
      BY <1>3, <2>1, <2>2
    <3> QED BY <3>1
  <2>4. /\ t \in [1 .. n -> Field] /\ t[i] = f /\ \A j \in 1 .. n : j # i => t[j] = s[j]
        /\ Filled(types, n, t)
        /\ \A j \in 1 .. n : t[j].val \in Words \cup Strings \cup Blobs \cup {<<>>, <<0, 0, 0, 0>>}
    BY <1>5, <1>7, <2>2
  <2>5. \A j \in 1 .. n : t[j].ptr = s[j].ptr
    BY <1>5, <1>6, <1>8, <2>4
  <2>6. Owned(H, t, h, n, i)
    BY <1>3, <2>4, <2>5, FieldKept
  <2> QED BY <1>1, <2>3, <2>4, <2>6 DEF Handled
<1>9. CASE types[i] # "u32" /\ f.ptr = 0
  <2>1. c = a
    BY <1>1, <1>2, <1>9 DEF SetField
  <2>2. Owned(H, s, h, n, i)
    BY <1>3, <1>6, FieldKept
  <2> QED BY <1>1, <1>3, <2>1, <2>2 DEF Handled
<1>10. CASE types[i] # "u32" /\ f.ptr # 0
  <2>1. PICK b : b = Fresh(h)
    OBVIOUS
  <2>2. PICK g, t : g = [ptr |-> b, val |-> f.val] /\ t = [s EXCEPT ![i] = g]
    OBVIOUS
  <2>3. c = [struct |-> t, heap |-> h \cup {b}]
    BY <1>1, <1>2, <1>10, <2>1, <2>2 DEF SetField
  <2>4. b \in Nat
    BY <1>3, <2>1, FreshBlock DEF Owned
  <2>5. g \in Field /\ g.val = f.val /\ g.ptr = b
    BY <1>5, <2>2, <2>4 DEF Field
  <2>6. /\ t \in [1 .. n -> Field] /\ t[i] = g /\ \A j \in 1 .. n : j # i => t[j] = s[j]
        /\ Filled(types, n, t)
        /\ \A j \in 1 .. n : t[j].val \in Words \cup Strings \cup Blobs \cup {<<>>, <<0, 0, 0, 0>>}
    BY <1>7, <2>2, <2>5, ZenonT(40)
  <2>7. Takes(s, h, n, i, b, t)
    BY <2>1, <2>5, <2>6 DEF Takes
  <2>8. Owned(H, t, h \cup {b}, n, i)
    BY <1>3, <2>7, FieldTaken, Zenon
  <2> QED BY <1>1, <2>3, <2>6, <2>8 DEF Handled
<1> QED BY <1>8, <1>9, <1>10

LEMMA HandlerHolds ==
  ASSUME NEW types \in Seq(Type), NEW n \in Nat, n = Len(types),
         NEW H, H \subseteq Nat \ {0}, IsFiniteSet(H),
         NEW result, \A i \in 1 .. n : result[i] \in Fields(types[i])
  PROVE  Handled(types, H, n, Handler(types, Cleared(types), result, H), n)
<1>1. PICK a : /\ Handler(types, Cleared(types), result, H) = a[n]
               /\ a[0] = [struct |-> Cleared(types), heap |-> H]
               /\ \A i \in 1 .. n : a[i] = SetField(types, result, a[i - 1], i)
  BY HandlerIs
<1> DEFINE S == {k \in Nat : k <= n => Handled(types, H, n, a[k], k)}
<1>2. 0 \in S
  BY <1>1, ClearedHandled
<1>3. ASSUME NEW k \in Nat, k \in S PROVE k + 1 \in S
  <2>1. SUFFICES ASSUME k + 1 <= n PROVE Handled(types, H, n, a[k + 1], k + 1)
    OBVIOUS
  <2>2. PICK i \in 1 .. n : i = k + 1 /\ i - 1 = k
    BY <2>1
  <2>3. Handled(types, H, n, a[i - 1], i - 1)
    BY <1>3, <2>1, <2>2
  <2>4. result[i] \in Fields(types[i]) /\ a[i] = SetField(types, result, a[i - 1], i)
    BY <1>1
  <2>5. Handled(types, H, n, a[i], i)
    BY <2>3, <2>4, FieldSet
  <2> QED BY <2>2, <2>5
<1>4. \A k \in Nat : k \in S
  <2> HIDE DEF S
  <2> QED BY <1>2, <1>3, Induction
<1>5. Handled(types, H, n, a[n], n)
  BY <1>4
<1> QED BY <1>1, <1>5
-----------------------------------------------------------------------------
(* What the emitters wrote, the parser reads back: a length of two bytes   *)
(* is the length of what it was written for, when two bytes are enough.    *)
LEMMA Division ==
  ASSUME NEW a \in Nat, NEW b \in Nat, b > 0
  PROVE  /\ a % b \in 0 .. b - 1 /\ a \div b \in Nat
         /\ a = b * (a \div b) + (a % b)
<1>1. a % b \in 0 .. b - 1
  OBVIOUS
<1>2. a \div b \in Nat
  OBVIOUS
<1>3. a = b * (a \div b) + (a % b)
  OBVIOUS
<1> QED BY <1>1, <1>2, <1>3

LEMMA TwoDigits ==
  ASSUME NEW a \in Nat, NEW b \in Nat, b > 0, a < b * b
  PROVE  (a % b) + b * ((a \div b) % b) = a
<1>1. PICK q \in Nat, r \in 0 .. b - 1 : q = a \div b /\ r = a % b /\ a = b * q + r
  BY Division
<1>2. q < b
  <2>1. SUFFICES ASSUME q >= b PROVE FALSE
    BY <1>1
  <2>2. PICK d \in Nat : q = b + d
    <3>1. q - b \in Nat /\ q = b + (q - b)
      BY <2>1
    <3> QED BY <3>1
  <2>3. b * q = b * b + b * d /\ b * d \in Nat
    BY <2>2
  <2> QED BY <1>1, <2>3
<1>3. PICK u \in Nat, v \in 0 .. b - 1 : u = q \div b /\ v = q % b /\ q = b * u + v
  BY Division
<1>4. u = 0
  <2>1. SUFFICES ASSUME u # 0 PROVE FALSE
    OBVIOUS
  <2>2. PICK d \in Nat : u = d + 1
    <3>1. u - 1 \in Nat /\ u = (u - 1) + 1
      BY <2>1
    <3> QED BY <3>1
  <2>3. b * u = b * d + b /\ b * d \in Nat
    BY <2>2
  <2> QED BY <1>2, <1>3, <2>3
<1>5. b * u = 0 /\ q = v
  BY <1>3, <1>4
<1> QED BY <1>1, <1>3, <1>5

Header(type, val) == <<Tag(type), Len(val) % Base, (Len(val) \div Base) % Base>>

LEMMA HeaderFacts ==
  ASSUME NEW type \in Type, NEW val \in Seq(Byte), NEW h, h = Header(type, val)
  PROVE  /\ h \in Seq(Byte) /\ Len(h) = 3 /\ h[1] = Tag(type)
         /\ Len(val) < Base * Base => h[2] + Base * h[3] = Len(val)
<1>1. PICK n \in Nat : n = Len(val)
  BY LenProperties
<1>2. PICK a, b, c : /\ a = Tag(type) /\ b = n % Base /\ c = (n \div Base) % Base
                     /\ h = <<a, b, c>>
  BY <1>1 DEF Header
<1>3. a \in Byte
  BY <1>2, ByteFacts DEF Tag, Type, Byte
<1>4. b \in 0 .. Base - 1 /\ n \div Base \in Nat
  BY <1>2, ByteFacts, Division
<1>5. c \in 0 .. Base - 1
  BY <1>2, <1>4, ByteFacts, Division
<1>6. b \in Byte /\ c \in Byte
  BY <1>4, <1>5 DEF Byte
<1>7. h \in Seq(Byte) /\ Len(h) = 3 /\ h[1] = a /\ h[2] = b /\ h[3] = c
  BY <1>2, <1>3, <1>6
<1>8. n < Base * Base => b + Base * c = n
  BY <1>2, ByteFacts, TwoDigits
<1> QED BY <1>1, <1>2, <1>7, <1>8

(* What is left of w \o t after w. *)
LEMMA DropFront ==
  ASSUME NEW w \in Seq(Byte), NEW t \in Seq(Byte), NEW y, y = w \o t, NEW p, p = Len(w)
  PROVE  SubSeq(y, p + 1, Len(y)) = t
<1>1. PICK q \in Nat : q = Len(t) /\ p \in Nat
  BY LenProperties
<1>2. Joined(Byte, w, t, y, p, q)
  BY <1>1, Join, Zenon
<1>3. y \in Seq(Byte) /\ Len(y) = p + q /\ \A j \in 1 .. q : y[p + j] = t[j]
  BY <1>2 DEF Joined
<1>4. PICK z : z = SubSeq(y, p + 1, Len(y))
  OBVIOUS
<1>5. p <= Len(y) /\ Len(y) - p = q
  BY <1>1, <1>3
<1>6. z \in Seq(Byte) /\ Len(z) = q /\ \A j \in 1 .. q : z[j] = y[p + j]
  BY <1>1, <1>3, <1>4, <1>5, PartsOfSeq
<1>7. z = t
  BY <1>1, <1>3, <1>6, SeqEqual
<1> QED BY <1>4, <1>7

GivesBack(type, val, t, buf, r) ==
  /\ r.used # 0 /\ r.tag = Tag(type) /\ r.val = val
  /\ SubSeq(buf, r.used + 1, Len(buf)) = t

LEMMA ReadsBack ==
  ASSUME NEW type \in Type, NEW val \in Seq(Byte), Len(val) < Base * Base, NEW t \in Seq(Byte),
         NEW buf, buf = tlv_write(type, val) \o t, NEW r, r = tlv_read(buf)
  PROVE  GivesBack(type, val, t, buf, r)
<1>1. PICK n \in Nat, k \in Nat : n = Len(val) /\ k = Len(t)
  BY LenProperties
<1>2. PICK h, w : h = Header(type, val) /\ w = h \o val /\ buf = w \o t
  BY DEF Header, tlv_write
<1>3. h \in Seq(Byte) /\ Len(h) = 3 /\ h[1] = Tag(type) /\ h[2] + Base * h[3] = n
  BY <1>1, <1>2, HeaderFacts
<1>4. Joined(Byte, h, val, w, 3, n)
  BY <1>1, <1>2, <1>3, Join, Zenon
<1>5. /\ w \in Seq(Byte) /\ Len(w) = 3 + n
      /\ \A j \in 1 .. 3 : w[j] = h[j]
      /\ \A j \in 1 .. n : w[3 + j] = val[j]
  BY <1>4 DEF Joined
<1>6. Joined(Byte, w, t, buf, 3 + n, k)
  BY <1>1, <1>2, <1>5, Join, Zenon
<1>7. /\ buf \in Seq(Byte) /\ Len(buf) = (3 + n) + k
      /\ \A j \in 1 .. 3 + n : buf[j] = w[j]
  BY <1>6 DEF Joined
<1>8. buf[1] = h[1] /\ buf[2] = h[2] /\ buf[3] = h[3] /\ \A j \in 1 .. n : buf[3 + j] = val[j]
  <2>1. 1 \in 1 .. 3 /\ 2 \in 1 .. 3 /\ 3 \in 1 .. 3 /\ \A j \in 1 .. 3 : j \in 1 .. 3 + n
    BY <1>1
  <2>2. \A j \in 1 .. n : 3 + j \in 1 .. 3 + n
    BY <1>1
  <2> QED BY <1>5, <1>7, <2>1, <2>2
<1>9. buf[2] + Base * buf[3] = n
  BY <1>3, <1>8
<1>10. /\ r.used = 3 + n /\ r.tag = buf[1] /\ r.val = SubSeq(buf, 4, 3 + n)
  BY <1>1, <1>7, <1>9, SMTT(30) DEF tlv_read
<1>11. SubSeq(buf, 4, 3 + n) = val
  <2>1. PICK d \in Nat, e \in Nat : d = 3 /\ e = 3 + n
    <3>1. 3 \in Nat /\ 3 + n \in Nat
      BY <1>1
    <3> QED BY <3>1, Zenon
  <2>2. PICK z : z = SubSeq(buf, d + 1, e)
    OBVIOUS
  <2>3. d <= e /\ e <= Len(buf) /\ e - d = n
    BY <1>1, <1>7, <2>1
  <2>4. z \in Seq(Byte) /\ Len(z) = n /\ \A j \in 1 .. n : z[j] = buf[d + j]
    <3>1. buf \in Seq(Byte) /\ d \in Nat /\ e \in Nat /\ d <= e /\ e <= Len(buf)
      BY <1>7, <2>1, <2>3
    <3>2. MiddleIs(Byte, buf, d, e, z)
      BY <2>2, <3>1, Middle, ZenonT(40)
    <3> QED BY <2>3, <3>2 DEF MiddleIs
  <2>5. z = val
    BY <1>1, <1>8, <2>1, <2>4, SeqEqual
  <2>6. d + 1 = 4
    BY <2>1
  <2> QED BY <2>1, <2>2, <2>5, <2>6
<1>12. SubSeq(buf, 3 + n + 1, Len(buf)) = t
  BY <1>2, <1>5, DropFront
<1>13. r.used # 0 /\ r.used + 1 = 3 + n + 1 /\ r.val = val /\ r.tag = Tag(type)
  <2>1. r.val = val
    BY <1>10, <1>11, Zenon
  <2>2. r.used = 3 + n /\ r.tag = Tag(type)
    BY <1>3, <1>8, <1>10
  <2>3. 3 + n # 0
    BY <1>1
  <2> QED BY <2>1, <2>2, <2>3
<1>14. SubSeq(buf, r.used + 1, Len(buf)) = t
  <2>1. PICK a : a = r.used + 1
    OBVIOUS
  <2>2. a = 3 + n + 1
    BY <1>13, <2>1
  <2> QED BY <1>12, <2>1, <2>2, Zenon
<1> QED BY <1>13, <1>14 DEF GivesBack
-----------------------------------------------------------------------------
(* The bytes of the fields after the j-th: those of the next field that    *)
(* left a trace, and what follows.                                         *)
After(fs, j) == FlattenSeq(SubSeq(fs, j + 1, Len(fs)))

NextTrace(fs, n, j) ==
  \/ After(fs, j) = <<>>
  \/ \E l \in j + 1 .. n : fs[l] # <<>> /\ After(fs, j) = fs[l] \o After(fs, l)

LEMMA AfterFacts ==
  ASSUME NEW fs \in Seq(Seq(Byte)), NEW n \in Nat, n = Len(fs)
  PROVE  /\ After(fs, n) = <<>> /\ After(fs, 0) = FlattenSeq(fs)
         /\ \A j \in 0 .. n : After(fs, j) \in Seq(Byte)
         /\ \A l \in 1 .. n : After(fs, l - 1) = fs[l] \o After(fs, l)
<1>1. After(fs, n) = <<>>
  <2>1. SubSeq(fs, n + 1, n) = <<>>
    BY SubSeqEmpty
  <2> QED BY <2>1, FlatEmpty DEF After
<1>2. After(fs, 0) = FlattenSeq(fs)
  <2>1. SubSeq(fs, 1, n) = fs
    OBVIOUS
  <2>2. PICK k : k = 0 + 1
    OBVIOUS
  <2>3. After(fs, 0) = FlattenSeq(SubSeq(fs, k, n))
    BY <2>2, Zenon DEF After
  <2>4. k = 1
    BY <2>2
  <2> QED BY <2>1, <2>3, <2>4
<1>3. ASSUME NEW j \in 0 .. n PROVE After(fs, j) \in Seq(Byte)
  <2>1. j \in Nat /\ j <= Len(fs)
    OBVIOUS
  <2>2. PICK z : z = SubSeq(fs, j + 1, Len(fs))
    OBVIOUS
  <2>3. z \in Seq(Seq(Byte))
    BY <2>1, <2>2, PartsOfSeq
  <2> QED BY <2>2, <2>3, FlatType DEF After
<1>4. ASSUME NEW l \in 1 .. n PROVE After(fs, l - 1) = fs[l] \o After(fs, l)
  <2>1. FlattenSeq(SubSeq(fs, l, n)) = fs[l] \o FlattenSeq(SubSeq(fs, l + 1, n))
    BY FlatFrom
  <2>2. (l - 1) + 1 = l
    OBVIOUS
  <2> QED BY <2>1, <2>2 DEF After
<1> QED BY <1>1, <1>2, <1>3, <1>4

LEMMA NextTraceExists ==
  ASSUME NEW fs \in Seq(Seq(Byte)), NEW n \in Nat, n = Len(fs)
  PROVE  \A j \in 0 .. n : NextTrace(fs, n, j)
<1> DEFINE S == {d \in Nat : d <= n => NextTrace(fs, n, n - d)}
<1>1. 0 \in S
  BY AfterFacts DEF NextTrace
<1>2. ASSUME NEW d \in Nat, d \in S PROVE d + 1 \in S
  <2>1. SUFFICES ASSUME d + 1 <= n PROVE NextTrace(fs, n, n - (d + 1))
    OBVIOUS
  <2>2. PICK l \in 1 .. n : l = n - d
    <3>1. n - d \in 1 .. n
      BY <2>1
    <3> QED BY <3>1
  <2>3. l - 1 = n - (d + 1) /\ (l - 1) + 1 = l /\ l \in l .. n
    BY <2>2
  <2>4. After(fs, l - 1) = fs[l] \o After(fs, l) /\ After(fs, l) \in Seq(Byte)
    <3>1. l \in 0 .. n
      OBVIOUS
    <3> QED BY <3>1, AfterFacts, Zenon
  <2>5. NextTrace(fs, n, l - 1)
    <3>1. CASE fs[l] # <<>>
      BY <2>3, <2>4, <3>1 DEF NextTrace
    <3>2. CASE fs[l] = <<>>
      <4>1. After(fs, l - 1) = After(fs, l)
        BY <2>4, <3>2, ConcatEmptySeq
      <4>2. NextTrace(fs, n, l)
        BY <1>2, <2>1, <2>2
      <4>3. \A x \in l + 1 .. n : x \in (l - 1) + 1 .. n
        OBVIOUS
      <4> QED BY <4>1, <4>2, <4>3 DEF NextTrace
    <3> QED BY <3>1, <3>2
  <2> QED BY <2>3, <2>5
<1>3. \A d \in Nat : d \in S
  <2> HIDE DEF S
  <2> QED BY <1>1, <1>2, Induction
<1>4. ASSUME NEW j \in 0 .. n PROVE NextTrace(fs, n, j)
  <2>1. n - j \in Nat /\ n - j <= n /\ n - (n - j) = j
    OBVIOUS
  <2>2. n - j \in S
    BY <1>3, <2>1
  <2> QED BY <2>1, <2>2
<1> QED BY <1>4

(* What the fields of a structure were written as. *)
Traces(types, s) == [i \in DOMAIN types |-> EmitField(types[i], s[i])]

LEMMA WriteType ==
  ASSUME NEW type \in Type, NEW val \in Seq(Byte), NEW w, w = tlv_write(type, val)
  PROVE  w \in Seq(Byte) /\ Len(w) = 3 + Len(val)
<1>1. PICK h : h = Header(type, val) /\ w = h \o val
  BY DEF Header, tlv_write
<1>2. PICK n \in Nat : n = Len(val)
  BY LenProperties
<1>3. h \in Seq(Byte) /\ Len(h) = 3
  BY <1>1, HeaderFacts
<1>4. Joined(Byte, h, val, w, 3, n)
  BY <1>1, <1>2, <1>3, Join, Zenon
<1> QED BY <1>2, <1>4 DEF Joined

LEMMA FieldWritten ==
  ASSUME NEW type \in Type, NEW f \in Field
  PROVE  /\ EmitField(type, f) \in Seq(Byte)
         /\ (type = "u32" => Len(f.val) = 4)
              => Len(EmitField(type, f)) <= rpc_estimate_field(type, f)
<1>1. PICK v, w, l : v = f.val /\ w = tlv_write(type, v) /\ l = Len(v)
  OBVIOUS
<1>2. v \in Seq(Byte)
  BY <1>1 DEF Field
<1>3. w \in Seq(Byte) /\ Len(w) = 3 + l /\ l \in Nat
  BY <1>1, <1>2, WriteType, LenProperties
<1>4. <<>> \in Seq(Byte) /\ Len(<<>>) = 0
  OBVIOUS
<1>5. EmitField(type, f) = w \/ (EmitField(type, f) = <<>> /\ type = "string")
  BY <1>1 DEF EmitField
<1>6. rpc_estimate_field(type, f) = IF type = "u32" THEN 7 ELSE 3 + l
  BY <1>1 DEF rpc_estimate_field
<1>7. EmitField(type, f) \in Seq(Byte)
  BY <1>3, <1>4, <1>5
<1>8. ASSUME type = "u32" => l = 4
      PROVE  Len(EmitField(type, f)) <= rpc_estimate_field(type, f)
  <2>1. CASE EmitField(type, f) = w
    BY <1>3, <1>6, <1>8, <2>1
  <2>2. CASE EmitField(type, f) = <<>> /\ type = "string"
    BY <1>3, <1>4, <1>6, <2>2
  <2> QED BY <1>5, <2>1, <2>2
<1> QED BY <1>1, <1>7, <1>8

LEMMA TraceFacts ==
  ASSUME NEW types \in Seq(Type), NEW n \in Nat, n = Len(types), NEW s \in [1 .. n -> Field],
         NEW fs, fs = Traces(types, s)
  PROVE  /\ fs \in Seq(Seq(Byte)) /\ Len(fs) = n /\ Emit(types, s) = FlattenSeq(fs)
         /\ \A i \in 1 .. n : fs[i] = EmitField(types[i], s[i])
<1>1. DOMAIN types = 1 .. n
  BY LenProperties
<1>2. fs = [i \in 1 .. n |-> EmitField(types[i], s[i])]
  BY <1>1 DEF Traces
<1>3. ASSUME NEW i \in 1 .. n PROVE fs[i] = EmitField(types[i], s[i]) /\ fs[i] \in Seq(Byte)
  <2>1. types[i] \in Type
    BY ElementOfSeq
  <2>2. fs[i] = EmitField(types[i], s[i])
    BY <1>2
  <2> QED BY <2>1, <2>2, FieldWritten
<1>4. fs \in Seq(Seq(Byte)) /\ Len(fs) = n
  <2>1. fs \in [1 .. n -> Seq(Byte)]
    BY <1>2, <1>3
  <2> QED BY <2>1
<1>5. Emit(types, s) = FlattenSeq(fs)
  BY DEF Emit, Traces
<1> QED BY <1>3, <1>4, <1>5
(* The sizes of the parameters, added up, are enough for the bytes written. *)
LEMMA EstimateHolds ==
  ASSUME NEW types \in Seq(Type), NEW n \in Nat, n = Len(types), NEW s \in [1 .. n -> Field],
         Filled(types, n, s)
  PROVE  /\ rpc_estimate_param_size(types, s) \in Nat
         /\ Len(Emit(types, s)) <= rpc_estimate_param_size(types, s)
<1>1. PICK fs : fs = Traces(types, s)
  OBVIOUS
<1>2. /\ fs \in Seq(Seq(Byte)) /\ Len(fs) = n /\ Emit(types, s) = FlattenSeq(fs)
      /\ \A i \in 1 .. n : Len(fs[i]) <= rpc_estimate_field(types[i], s[i])
  <2>1. /\ fs \in Seq(Seq(Byte)) /\ Len(fs) = n /\ Emit(types, s) = FlattenSeq(fs)
        /\ \A i \in 1 .. n : fs[i] = EmitField(types[i], s[i])
    BY <1>1, TraceFacts
  <2>2. ASSUME NEW i \in 1 .. n PROVE Len(fs[i]) <= rpc_estimate_field(types[i], s[i])
    <3>1. types[i] \in Type /\ s[i] \in Field /\ (types[i] = "u32" => Len(s[i].val) = 4)
      BY ElementOfSeq DEF Filled
    <3> QED BY <2>1, <3>1, FieldWritten
  <2> QED BY <2>1, <2>2
<1>3. PICK sz : rpc_estimate_param_size(types, s) = sz[n] /\ Sizes(types, s, n, sz)
  BY SizeIs
<1> sz[0] = 0 /\ \A i \in 1 .. n : sz[i] = sz[i - 1] + rpc_estimate_field(types[i], s[i])
  BY <1>3 DEF Sizes
<1>4. ASSUME NEW i \in 1 .. n PROVE rpc_estimate_field(types[i], s[i]) \in Nat
  <2>1. Len(s[i].val) \in Nat
    BY LenProperties DEF Field
  <2> QED BY <2>1 DEF rpc_estimate_field
<1>5. CASE n = 0
  <2>1. fs = <<>>
    BY <1>2, <1>5, EmptySeq
  <2> QED BY <1>2, <1>3, <1>5, <2>1, FlatEmpty
<1>6. CASE n # 0
  <2>1. PICK g : FlatUpto(fs, n, g) /\ FlattenSeq(fs) = g[n]
    BY <1>2, <1>6, FlatIs
  <2> DEFINE S == {k \in Nat : k + 1 <= n => sz[k + 1] \in Nat /\ Len(g[k + 1]) <= sz[k + 1]}
  <2>2. 0 \in S
    <3>1. 1 \in 1 .. n /\ 1 - 1 = 0
      BY <1>6
    <3>2. g[1] = fs[1]
      BY <1>6, <2>1, FlatFirst
    <3>3. sz[1] = rpc_estimate_field(types[1], s[1])
      BY <1>3, <1>4, <3>1
    <3>4. sz[1] \in Nat /\ Len(g[1]) <= sz[1]
      BY <1>2, <1>4, <3>1, <3>2, <3>3
    <3> QED BY <3>4
  <2>3. ASSUME NEW k \in Nat, k \in S PROVE k + 1 \in S
    <3>1. SUFFICES ASSUME k + 1 + 1 <= n
                   PROVE  sz[k + 1 + 1] \in Nat /\ Len(g[k + 1 + 1]) <= sz[k + 1 + 1]
      OBVIOUS
    <3>2. PICK i \in 1 .. n, j \in 1 .. n : i = k + 1 + 1 /\ j = k + 1 /\ i - 1 = j /\ i # 1
      BY <3>1
    <3>3. sz[j] \in Nat /\ Len(g[j]) <= sz[j]
      BY <2>3, <3>1, <3>2
    <3>4. g[i] = g[j] \o fs[i]
      <4>1. g[i] = g[i - 1] \o fs[i]
        BY <2>1, <3>2, FlatAt, ZenonT(40)
      <4> QED BY <3>2, <4>1
    <3>5. g[j] \in Seq(Byte) /\ fs[i] \in Seq(Byte)
      BY <1>2, <2>1, FlatValues, ElementOfSeq
    <3>6. Len(g[i]) = Len(g[j]) + Len(fs[i])
      BY <3>4, <3>5, ConcatParts
    <3>7. sz[i] = sz[j] + rpc_estimate_field(types[i], s[i])
      BY <1>3, <3>2
    <3>8. Len(g[j]) \in Nat /\ Len(fs[i]) \in Nat /\ Len(fs[i]) <= rpc_estimate_field(types[i], s[i])
      BY <1>2, <3>5, LenProperties
    <3>9. sz[i] \in Nat /\ Len(g[i]) <= sz[i]
      <4>1. PICK a, b, c, e : /\ a = Len(g[j]) /\ b = Len(fs[i]) /\ c = sz[j]
                              /\ e = rpc_estimate_field(types[i], s[i])
        OBVIOUS
      <4>2. a \in Nat /\ b \in Nat /\ c \in Nat /\ e \in Nat /\ a <= c /\ b <= e
        BY <1>4, <3>3, <3>8, <4>1
      <4>3. Len(g[i]) = a + b /\ sz[i] = c + e
        BY <3>6, <3>7, <4>1
      <4> QED BY <4>2, <4>3
    <3> QED BY <3>2, <3>9
  <2>4. \A k \in Nat : k \in S
    <3> HIDE DEF S
    <3> QED BY <2>2, <2>3, Induction
  <2>5. n - 1 \in Nat /\ (n - 1) + 1 = n
    BY <1>6
  <2>6. sz[n] \in Nat /\ Len(g[n]) <= sz[n]
    <3>1. n - 1 \in S
      BY <2>4, <2>5
    <3> QED BY <2>5, <3>1
  <2> QED BY <1>2, <1>3, <2>1, <2>6
<1> QED BY <1>5, <1>6

-----------------------------------------------------------------------------
(* The round trip: as long as nothing failed, what is left to read is      *)
(* what was written for the fields after some j-th; if that is the field   *)
(* being read, all before it arrived.                                      *)
Arrived(types, s, t, i) ==
  \A k \in 1 .. i : t[k].val = s[k].val /\ (types[k] = "string" => s[k].ptr # 0)

OnTheWay(types, s, fs, n, p, i) ==
  p.ok => \E j \in i .. n : /\ p.rest = After(fs, j)
                            /\ j = i => Arrived(types, s, p.struct, i)

Short(n, s) == \A i \in 1 .. n : Len(s[i].val) < Base * Base

LEMMA FieldArrives ==
  ASSUME NEW types \in Seq(Type), NEW n \in Nat, n = Len(types), NEW s \in [1 .. n -> Field],
         Filled(types, n, s), Short(n, s), NEW fs, fs = Traces(types, s),
         NEW i \in 1 .. n, NEW p, NEW H, Parsed(types, H, n, p, i - 1),
         OnTheWay(types, s, fs, n, p, i - 1), NEW q, q = ParseField(types, p, i)
  PROVE  OnTheWay(types, s, fs, n, q, i)
<1>1. SUFFICES ASSUME q.ok
               PROVE  \E j \in i .. n : /\ q.rest = After(fs, j)
                                        /\ j = i => Arrived(types, s, q.struct, i)
  BY DEF OnTheWay
<1>2. PICK r : Reads(types, p, q, i, r)
  BY <1>1, FieldRead
<1>3. /\ p.ok /\ r = tlv_read(p.rest) /\ r.used # 0 /\ r.tag = Tag(types[i])
      /\ q.rest = SubSeq(p.rest, r.used + 1, Len(p.rest))
      /\ q.struct = [p.struct EXCEPT ![i] = [ptr |-> q.struct[i].ptr,
                                             val |-> Contents(types[i], r.val)]]
  BY <1>2 DEF Reads, Readable
<1>4. /\ fs \in Seq(Seq(Byte)) /\ Len(fs) = n
      /\ \A k \in 1 .. n : fs[k] = EmitField(types[k], s[k])
  BY TraceFacts
<1>5. PICK j \in i - 1 .. n : /\ p.rest = After(fs, j)
                              /\ j = i - 1 => Arrived(types, s, p.struct, i - 1)
  BY <1>3 DEF OnTheWay
<1>6. p.rest # <<>>
  <2>1. tlv_read(<<>>).used = 0
    <3>1. Len(<<>>) < 3
      OBVIOUS
    <3> QED BY <3>1 DEF tlv_read
  <2> QED BY <1>3, <2>1
<1>7. PICK l \in j + 1 .. n : fs[l] # <<>> /\ p.rest = fs[l] \o After(fs, l)
  <2>1. j \in 0 .. n
    OBVIOUS
  <2>2. NextTrace(fs, n, j)
    BY <1>4, <2>1, NextTraceExists
  <2> QED BY <1>5, <1>6, <2>2 DEF NextTrace
<1>8. l \in 1 .. n /\ l \in i .. n
  OBVIOUS
<1>9. PICK type, val, t : type = types[l] /\ val = s[l].val /\ t = After(fs, l)
  OBVIOUS
<1>10. /\ fs[l] = tlv_write(type, val) /\ (type = "string" => s[l].ptr # 0)
  BY <1>4, <1>7, <1>8, <1>9 DEF EmitField
<1>11. /\ type \in Type /\ val \in Seq(Byte) /\ Len(val) < Base * Base /\ t \in Seq(Byte)
       /\ (type = "string" => 0 \notin {val[x] : x \in DOMAIN val})
  <2>1. type \in Type
    BY <1>8, <1>9, ElementOfSeq
  <2>2. val \in Seq(Byte)
    BY <1>8, <1>9 DEF Field
  <2>3. t \in Seq(Byte)
    <3>1. l \in 0 .. n
      BY <1>8
    <3> QED BY <1>4, <1>9, <3>1, AfterFacts, Zenon
  <2> QED BY <1>8, <1>9, <2>1, <2>2, <2>3 DEF Filled, Short
<1>12. /\ r.val = val /\ q.rest = t
  <2>1. PICK buf : buf = p.rest
    OBVIOUS
  <2>2. buf = tlv_write(type, val) \o t /\ r = tlv_read(buf)
    BY <1>3, <1>7, <1>9, <1>10, <2>1
  <2>3. r.val = val /\ SubSeq(buf, r.used + 1, Len(buf)) = t
    <3>1. GivesBack(type, val, t, buf, r)
      BY <1>11, <2>2, ReadsBack
    <3> QED BY <3>1, Zenon DEF GivesBack
  <2> QED BY <1>3, <2>1, <2>3, SMTT(30)
<1>13. ASSUME l = i PROVE Arrived(types, s, q.struct, i)
  <2>1. j = i - 1 /\ Arrived(types, s, p.struct, i - 1)
    BY <1>5, <1>13
  <2>2. Contents(types[i], r.val) = s[i].val
    BY <1>9, <1>11, <1>12, <1>13, CStringType DEF Contents
  <2>3. p.struct \in [1 .. n -> Field]
    BY DEF Parsed, Owned
  <2>4. q.struct[i].val = s[i].val
    BY <1>3, <2>2, <2>3
  <2>5. ASSUME NEW k \in 1 .. i PROVE q.struct[k].val = s[k].val /\ (types[k] = "string" => s[k].ptr # 0)
    <3>1. CASE k = i
      BY <1>9, <1>10, <1>13, <2>4, <3>1
    <3>2. CASE k # i
      <4>1. k \in 1 .. i - 1 /\ k \in 1 .. n
        BY <3>2
      <4>2. q.struct[k] = p.struct[k]
        BY <1>3, <2>3, <3>2, <4>1
      <4> QED BY <2>1, <4>1, <4>2 DEF Arrived
    <3> QED BY <3>1, <3>2
  <2> QED BY <2>5 DEF Arrived
<1> QED BY <1>8, <1>9, <1>12, <1>13

LEMMA RoundTrip ==
  ASSUME NEW types \in Seq(Type), NEW n \in Nat, n = Len(types), NEW s \in [1 .. n -> Field],
         Filled(types, n, s), Short(n, s), NEW H, H \subseteq Nat \ {0}, IsFiniteSet(H),
         NEW p, p = Parse(types, Emit(types, s), H), p.ok
  PROVE  Arrived(types, s, p.struct, n)
<1>1. PICK fs, buf : fs = Traces(types, s) /\ buf = Emit(types, s)
  OBVIOUS
<1>2. fs \in Seq(Seq(Byte)) /\ Len(fs) = n /\ buf = FlattenSeq(fs)
  BY <1>1, TraceFacts
<1>3. buf \in Seq(Byte) /\ buf = After(fs, 0)
  BY <1>2, AfterFacts, FlatType
<1>4. PICK f : /\ p = f[n] /\ f[0] = Started(types, buf, H)
               /\ \A i \in 1 .. n : f[i] = ParseField(types, f[i - 1], i)
  BY <1>1, ParseIs
<1>5. \A i \in 0 .. n : Parsed(types, H, n, f[i], i)
  BY <1>3, <1>4, ParseOwns
<1> DEFINE S == {k \in Nat : k <= n => OnTheWay(types, s, fs, n, f[k], k)}
<1>6. 0 \in S
  <2>1. f[0].rest = After(fs, 0)
    BY <1>3, <1>4 DEF Started
  <2>2. Arrived(types, s, f[0].struct, 0)
    BY DEF Arrived
  <2>3. 0 \in 0 .. n
    OBVIOUS
  <2> QED BY <2>1, <2>2, <2>3 DEF OnTheWay
<1>7. ASSUME NEW k \in Nat, k \in S PROVE k + 1 \in S
  <2>1. SUFFICES ASSUME k + 1 <= n PROVE OnTheWay(types, s, fs, n, f[k + 1], k + 1)
    OBVIOUS
  <2>2. PICK i \in 1 .. n : i = k + 1 /\ i - 1 = k
    BY <2>1
  <2>3. Parsed(types, H, n, f[i - 1], i - 1) /\ OnTheWay(types, s, fs, n, f[i - 1], i - 1)
    BY <1>5, <1>7, <2>1, <2>2
  <2>4. f[i] = ParseField(types, f[i - 1], i)
    BY <1>4
  <2>5. OnTheWay(types, s, fs, n, f[i], i)
    BY <1>1, <2>3, <2>4, FieldArrives
  <2> QED BY <2>2, <2>5
<1>8. \A k \in Nat : k \in S
  <2> HIDE DEF S
  <2> QED BY <1>6, <1>7, Induction
<1>9. OnTheWay(types, s, fs, n, p, n)
  BY <1>4, <1>8
<1> QED BY <1>9 DEF OnTheWay
-----------------------------------------------------------------------------
(* The structures of the methods.                                          *)
LEMMA MethodFacts ==
  ASSUME NEW x \in Method
  PROVE  /\ Params[x] \in Seq(Type) /\ Len(Params[x]) \in Nat
         /\ Results[x] \in Seq(Type) /\ Len(Results[x]) \in Nat
<1>1. Params[x] \in Seq(Type) /\ Results[x] \in Seq(Type)
  BY StubAssumption
<1> QED BY <1>1, LenProperties

LEMMA StructFacts ==
  ASSUME NEW types \in Seq(Type), NEW n \in Nat, n = Len(types), NEW s \in Structs(types)
  PROVE  /\ s \in [1 .. n -> Field] /\ Filled(types, n, s)
         /\ \A i \in 1 .. n : s[i] \in Fields(types[i])
         /\ \A i \in 1 .. n : s[i].val \in Words \cup Strings \cup Blobs \cup {<<>>}
<1>1. DOMAIN types = 1 .. n
  BY LenProperties
<1>2. \A i \in 1 .. n : s[i] \in Fields(types[i]) /\ types[i] \in Type
  BY <1>1, ElementOfSeq DEF Structs
<1>3. ASSUME NEW i \in 1 .. n
      PROVE  /\ s[i] \in Field
             /\ types[i] = "u32" => Len(s[i].val) = 4
             /\ types[i] = "string" => 0 \notin {s[i].val[j] : j \in DOMAIN s[i].val}
             /\ s[i].val \in Words \cup Strings \cup Blobs \cup {<<>>}
  BY <1>2, FieldFacts
<1>4. s \in [1 .. n -> Field]
  <2>1. s = [i \in 1 .. n |-> s[i]]
    BY <1>1 DEF Structs
  <2> QED BY <1>3, <2>1
<1> QED BY <1>2, <1>3, <1>4 DEF Filled

LEMMA EmitType ==
  ASSUME NEW types \in Seq(Type), NEW n \in Nat, n = Len(types), NEW s \in [1 .. n -> Field]
  PROVE  Emit(types, s) \in Seq(Byte)
<1>1. PICK fs : fs = Traces(types, s)
  OBVIOUS
<1>2. fs \in Seq(Seq(Byte)) /\ Emit(types, s) = FlattenSeq(fs)
  BY <1>1, TraceFacts
<1> QED BY <1>2, FlatType

-----------------------------------------------------------------------------
(* FitsBuffer.                                                             *)
LEMMA CallFits ==
  ASSUME NEW x \in Method, NEW p \in Structs(Params[x]),
         tlv_size' = rpc_estimate_param_size(Params[x], p),
         tlvbuf' \in {<<>>, Emit(Params[x], p)}
  PROVE  FitsBuffer' /\ tlvbuf' \in Seq(Byte)
<1>1. PICK types, n : types = Params[x] /\ n = Len(types)
  OBVIOUS
<1>2. types \in Seq(Type) /\ n \in Nat
  BY <1>1, MethodFacts
<1>3. p \in [1 .. n -> Field] /\ Filled(types, n, p)
  BY <1>1, <1>2, StructFacts
<1>4. /\ Emit(types, p) \in Seq(Byte) /\ rpc_estimate_param_size(types, p) \in Nat
      /\ Len(Emit(types, p)) <= rpc_estimate_param_size(types, p)
  BY <1>1, <1>2, <1>3, EmitType, EstimateHolds
<1>5. PICK e, z : e = Emit(types, p) /\ z = rpc_estimate_param_size(types, p)
  OBVIOUS
<1>6. e \in Seq(Byte) /\ Len(e) \in Nat /\ Len(e) <= z /\ <<>> \in Seq(Byte) /\ Len(<<>>) = 0
  BY <1>4, <1>5, LenProperties
<1>7. tlv_size' = z /\ tlvbuf' \in {<<>>, e}
  BY <1>1, <1>5
<1>8. tlvbuf' \in Seq(Byte) /\ Len(tlvbuf') <= z
  <2>1. z \in Nat /\ 0 <= z
    BY <1>4, <1>5
  <2>2. CASE tlvbuf' = e
    BY <1>6, <2>2
  <2>3. CASE tlvbuf' = <<>>
    BY <1>6, <2>1, <2>3
  <2> QED BY <1>7, <2>2, <2>3
<1> QED BY <1>7, <1>8 DEF FitsBuffer

(***************************************************************************)
(* The stub never writes more parameter bytes than it allocated room for,  *)
(* however long the fields: RPC_ESTIMATE_PARAM_SIZE_<name> against the     *)
(* emitters of rpc_call_<name>.                                            *)
(***************************************************************************)
THEOREM ParametersFit == Spec => []FitsBuffer
<1>1. Init => FitsBuffer
  <2>1. Len(<<>>) = 0
    OBVIOUS
  <2> QED BY <2>1 DEF Init, FitsBuffer
<1>2. FitsBuffer /\ [Next]_vars => FitsBuffer'
  <2> SUFFICES ASSUME FitsBuffer, [Next]_vars PROVE FitsBuffer'
    OBVIOUS
  <2>1. ASSUME NEW x \in Method, NEW p \in Structs(Params[x]), StubEncode(x, p) PROVE FitsBuffer'
    BY <2>1, CallFits DEF StubEncode, Call
  <2>2. ASSUME NEW x \in Method, NEW p \in Structs(Params[x]), StubNoMem(x, p) PROVE FitsBuffer'
    BY <2>2, CallFits DEF StubNoMem, Call
  <2>3. CASE FreeResult
    <3>1. Len(<<>>) = 0
      OBVIOUS
    <3> QED BY <2>3, <3>1 DEF FreeResult, FitsBuffer
  <2>4. CASE UNCHANGED <<tlv_size, tlvbuf>>
    BY <2>4 DEF FitsBuffer
  <2>5. \/ \E x \in Method : \E p \in Structs(Params[x]) : StubEncode(x, p) \/ StubNoMem(x, p)
        \/ FreeResult
        \/ UNCHANGED <<tlv_size, tlvbuf>>
    BY DEF Next, vars, client, RequestInvalid, RequestHandled, ServerDies, CallAnswered,
           CallFails, StubReturn, ClientDies
  <2> QED BY <2>1, <2>2, <2>3, <2>4, <2>5
<1> QED BY <1>1, <1>2, PTL DEF Spec
-----------------------------------------------------------------------------
(* Who owns which block, at every step of a call.                          *)
HeapInv ==
  /\ m \in Method
  /\ tlvbuf \in Seq(Byte) /\ resp \in Seq(Byte)
  /\ ~misfreed /\ theirs = {}
  /\ pc \in {"idle", "calling", "answered", "parse", "returned", "dead"}
  /\ pc \in {"idle", "dead"} => mine = {}
  /\ pc \in {"calling", "answered", "parse"} => mine = {1, 2} /\ out = Cleared(Results[m])
  /\ pc = "returned" => Owned({}, out, mine, Len(Results[m]), Len(Results[m]))

LEMMA NoBlocks == {} \subseteq Nat \ {0} /\ IsFiniteSet({})
  BY FS_EmptySet

LEMMA TwoBlocks == {1, 2} \subseteq Nat \ {0} /\ IsFiniteSet({1, 2})
<1>1. IsFiniteSet({} \cup {1})
  BY FS_EmptySet, FS_AddElement
<1>2. IsFiniteSet(({} \cup {1}) \cup {2})
  BY <1>1, FS_AddElement
<1>3. ({} \cup {1}) \cup {2} = {1, 2}
  OBVIOUS
<1> QED BY <1>2, <1>3

(* The request's parameters, parsed by the server: theirs = {}.            *)
LEMMA ServerParses ==
  ASSUME HeapInv, NEW p, p = Parse(Params[m], tlvbuf, theirs)
  PROVE  /\ Parsed(Params[m], {}, Len(Params[m]), p, Len(Params[m]))
         /\ Owned({}, p.struct, p.heap, Len(Params[m]), Len(Params[m]))
         /\ p.heap \subseteq Nat \ {0} /\ IsFiniteSet(p.heap)
<1>1. Parsed(Params[m], {}, Len(Params[m]), p, Len(Params[m]))
  BY MethodFacts, NoBlocks, ParseHolds DEF HeapInv
<1> QED BY <1>1 DEF Parsed, Owned

LEMMA ServerHandles ==
  ASSUME HeapInv, NEW p, p = Parse(Params[m], tlvbuf, theirs),
         NEW result \in Structs(Results[m]),
         NEW h, h = Handler(Results[m], ResultBuf(m), result, p.heap)
  PROVE  Handled(Results[m], p.heap, Len(Results[m]), h, Len(Results[m]))
<1>1. PICK types, n, H : types = Results[m] /\ n = Len(types) /\ H = p.heap
  OBVIOUS
<1>2. types \in Seq(Type) /\ n \in Nat
  BY <1>1, MethodFacts DEF HeapInv
<1>3. \A i \in 1 .. n : result[i] \in Fields(types[i])
  BY <1>1, <1>2, StructFacts
<1>4. H \subseteq Nat \ {0} /\ IsFiniteSet(H)
  BY <1>1, ServerParses
<1>5. h = Handler(types, Cleared(types), result, H)
  BY <1>1 DEF ResultBuf
<1>6. Handled(types, H, n, h, n)
  BY <1>1, <1>2, <1>3, <1>4, <1>5, HandlerHolds
<1> QED BY <1>1, <1>6

(* The response's results, parsed by the caller, who holds tlvbuf and resp. *)
LEMMA CallerParses ==
  ASSUME HeapInv, pc = "parse", NEW r, r = Parse(Results[m], resp, mine)
  PROVE  /\ Parsed(Results[m], {1, 2}, Len(Results[m]), r, Len(Results[m]))
         /\ Owned({}, r.struct, r.heap \ {1, 2}, Len(Results[m]), Len(Results[m]))
<1>1. Parsed(Results[m], {1, 2}, Len(Results[m]), r, Len(Results[m]))
  BY MethodFacts, TwoBlocks, ParseHolds DEF HeapInv
<1>2. PICK s, h, n : s = r.struct /\ h = r.heap /\ n = Len(Results[m])
  OBVIOUS
<1>3. Owned({1, 2}, s, h, n, n)
  BY <1>1, <1>2 DEF Parsed
<1>4. h \ {1, 2} = Blocks(s) /\ h \ {1, 2} \subseteq Nat \ {0}
  BY <1>3 DEF Owned
<1>5. IsFiniteSet(h \ {1, 2})
  BY <1>3, FS_Difference DEF Owned
<1>6. Owned({}, s, h \ {1, 2}, n, n)
  BY <1>3, <1>4, <1>5 DEF Owned
<1> QED BY <1>1, <1>2, <1>6

LEMMA HeapInit == Init => HeapInv
<1>1. <<>> \in Seq(Byte)
  OBVIOUS
<1> QED BY <1>1 DEF Init, HeapInv

LEMMA HeapCall ==
  ASSUME HeapInv, NEW x \in Method, NEW p \in Structs(Params[x]),
         StubEncode(x, p) \/ StubNoMem(x, p)
  PROVE  HeapInv'
<1>1. tlvbuf' \in Seq(Byte)
  BY CallFits DEF StubEncode, StubNoMem, Call
<1>2. <<>> \in Seq(Byte)
  OBVIOUS
<1>3. /\ pc = "idle" /\ m' = x /\ out' = Cleared(Results[x]) /\ resp' = <<>>
      /\ theirs' = theirs /\ misfreed' = misfreed
  BY DEF StubEncode, StubNoMem, Call
<1>4. CASE StubEncode(x, p)
  <2>1. mine' = {1, 2} /\ pc' = "calling"
    BY <1>4 DEF StubEncode
  <2> QED BY <1>1, <1>2, <1>3, <2>1 DEF HeapInv
<1>5. CASE StubNoMem(x, p)
  <2>1. mine' = mine /\ pc' = "returned"
    BY <1>5 DEF StubNoMem
  <2>2. mine = {}
    BY <1>3 DEF HeapInv
  <2>3. Owned({}, Cleared(Results[x]), {}, Len(Results[x]), Len(Results[x]))
    BY MethodFacts, NoBlocks, ClearedOwns
  <2> QED BY <1>1, <1>2, <1>3, <2>1, <2>2, <2>3 DEF HeapInv
<1> QED BY <1>4, <1>5

LEMMA HeapInvalid ==
  ASSUME HeapInv, RequestInvalid
  PROVE  HeapInv'
<1>1. PICK p : p = Parse(Params[m], tlvbuf, theirs)
  OBVIOUS
<1>2. PICK a, b, h, n1, n2 : /\ a = p.struct /\ b = Cleared(Results[m]) /\ h = p.heap
                             /\ n1 = Len(Params[m]) /\ n2 = Len(Results[m])
  OBVIOUS
<1>3. Owned({}, a, h, n1, n1) /\ h \subseteq Nat \ {0} /\ IsFiniteSet(h)
  BY <1>1, <1>2, ServerParses
<1>4. n1 \in Nat /\ n2 \in Nat /\ Results[m] \in Seq(Type)
  BY <1>2, MethodFacts DEF HeapInv
<1>5. Owned(h, b, h, n2, n2)
  BY <1>2, <1>3, <1>4, ClearedOwns
<1>6. ~Misfree(a \o b, h) /\ (h \ Blocks(a)) \ Blocks(b) = {}
  BY <1>3, <1>4, <1>5, FreedOnceBoth, ZenonT(40)
<1>7. /\ param_buf' = a /\ result_buf' = b
      /\ theirs' = (h \ Blocks(param_buf')) \ Blocks(result_buf')
      /\ misfreed' = (misfreed \/ Misfree(param_buf' \o result_buf', h))
      /\ pc = "calling" /\ pc' = "answered" /\ UNCHANGED <<m, tlvbuf, resp, out, mine>>
  BY <1>1, <1>2 DEF RequestInvalid, ResultBuf, client
<1>8. theirs' = {} /\ ~misfreed'
  BY <1>6, <1>7 DEF HeapInv
<1> QED BY <1>7, <1>8 DEF HeapInv

LEMMA HeapHandled ==
  ASSUME HeapInv, NEW rc, NEW result \in Structs(Results[m]), RequestHandled(rc, result)
  PROVE  HeapInv'
<1>1. PICK p : p = Parse(Params[m], tlvbuf, theirs)
  OBVIOUS
<1>2. PICK h : h = Handler(Results[m], ResultBuf(m), result, p.heap)
  OBVIOUS
<1>3. PICK a, b, H1, H2, n1, n2 : /\ a = p.struct /\ b = h.struct /\ H1 = p.heap /\ H2 = h.heap
                                  /\ n1 = Len(Params[m]) /\ n2 = Len(Results[m])
  OBVIOUS
<1>4. Owned({}, a, H1, n1, n1)
  BY <1>1, <1>3, ServerParses
<1>5. n1 \in Nat /\ n2 \in Nat /\ Results[m] \in Seq(Type)
  BY <1>3, MethodFacts DEF HeapInv
<1>6. Owned(H1, b, H2, n2, n2)
  BY <1>1, <1>2, <1>3, ServerHandles DEF Handled
<1>7. ~Misfree(a \o b, H2) /\ (H2 \ Blocks(a)) \ Blocks(b) = {}
  BY <1>4, <1>5, <1>6, FreedOnceBoth
<1>8. /\ param_buf' = a /\ result_buf' = b
      /\ theirs' = (H2 \ Blocks(param_buf')) \ Blocks(result_buf')
      /\ misfreed' = (misfreed \/ Misfree(param_buf' \o result_buf', H2))
      /\ pc = "calling" /\ pc' = "answered" /\ UNCHANGED <<m, tlvbuf, out, mine>>
      /\ resp' \in {<<>>, Emit(Results[m], b)}
  BY <1>1, <1>2, <1>3 DEF RequestHandled, client
<1>9. theirs' = {} /\ ~misfreed'
  BY <1>7, <1>8 DEF HeapInv
<1>10. resp' \in Seq(Byte)
  <2>1. Emit(Results[m], b) \in Seq(Byte)
    BY <1>3, <1>5, <1>6, EmitType DEF Owned
  <2>2. <<>> \in Seq(Byte)
    OBVIOUS
  <2> QED BY <1>8, <2>1, <2>2
<1> QED BY <1>8, <1>9, <1>10 DEF HeapInv

LEMMA HeapReturn ==
  ASSUME HeapInv, StubReturn
  PROVE  HeapInv'
<1>1. PICK r : r = Parse(Results[m], resp, mine)
  OBVIOUS
<1>2. PICK n : n = Len(Results[m])
  OBVIOUS
<1>3. /\ pc = "parse" /\ pc' = "returned" /\ UNCHANGED <<m, tlvbuf, resp, theirs, misfreed>>
      /\ out' = (IF st = OK THEN r.struct ELSE out)
      /\ mine' = (IF st = OK THEN r.heap ELSE mine) \ {1, 2}
  BY <1>1 DEF StubReturn, client, server
<1>4. CASE st = OK
  <2>1. Owned({}, out', mine', n, n)
    BY <1>1, <1>2, <1>3, <1>4, CallerParses
  <2> QED BY <1>2, <1>3, <2>1 DEF HeapInv
<1>5. CASE st # OK
  <2>1. out' = Cleared(Results[m]) /\ mine' = {}
    BY <1>3, <1>5 DEF HeapInv
  <2>2. Owned({}, out', mine', n, n)
    BY <1>2, <2>1, MethodFacts, NoBlocks, ClearedOwns DEF HeapInv
  <2> QED BY <1>2, <1>3, <2>2 DEF HeapInv
<1> QED BY <1>4, <1>5

LEMMA HeapFree ==
  ASSUME HeapInv, FreeResult
  PROVE  HeapInv'
<1>1. PICK n : n = Len(Results[m])
  OBVIOUS
<1>2. n \in Nat /\ Owned({}, out, mine, n, n)
  BY <1>1, MethodFacts DEF HeapInv, FreeResult
<1>3. ~Misfree(out, mine) /\ mine \ Blocks(out) = {}
  BY <1>2, FreedOnce
<1>4. <<>> \in Seq(Byte)
  OBVIOUS
<1> QED BY <1>3, <1>4 DEF HeapInv, FreeResult

LEMMA HeapStep == HeapInv /\ [Next]_vars => HeapInv'
<1> SUFFICES ASSUME HeapInv, [Next]_vars PROVE HeapInv'
  OBVIOUS
<1>1. CASE \E x \in Method : \E p \in Structs(Params[x]) : StubEncode(x, p) \/ StubNoMem(x, p)
  BY <1>1, HeapCall
<1>2. CASE RequestInvalid
  BY <1>2, HeapInvalid
<1>3. CASE \E rc \in {0, -1} : \E result \in Structs(Results[m]) : RequestHandled(rc, result)
  BY <1>3, HeapHandled
<1>4. CASE ServerDies
  BY <1>4 DEF HeapInv, ServerDies, client
<1>5. CASE CallAnswered
  BY <1>5 DEF HeapInv, CallAnswered, client, server
<1>6. CASE \E status \in {-1, TIMEOUT} : CallFails(status)
  <2>1. <<>> \in Seq(Byte)
    OBVIOUS
  <2> QED BY <1>6, <2>1 DEF HeapInv, CallFails, client, server
<1>7. CASE StubReturn
  BY <1>7, HeapReturn
<1>8. CASE ClientDies
  BY <1>8 DEF HeapInv, ClientDies, client, server
<1>9. CASE FreeResult
  BY <1>9, HeapFree
<1>10. CASE UNCHANGED vars
  BY <1>10 DEF HeapInv, vars, client, server
<1> QED
  BY <1>1, <1>2, <1>3, <1>4, <1>5, <1>6, <1>7, <1>8, <1>9, <1>10 DEF Next

(***************************************************************************)
(* Over any sequence of calls, failed ones included, every block of a      *)
(* parameter, a result or a buffer is freed exactly once: the parsers, the *)
(* handlers and free_param_<name>, free_result_<name> of both nodes.       *)
(***************************************************************************)
THEOREM BlocksFreedOnce == Spec => []HeapBalanced
<1>1. HeapInv => HeapBalanced
  BY DEF HeapInv, HeapBalanced
<1> QED BY <1>1, HeapInit, HeapStep, PTL DEF Spec
-----------------------------------------------------------------------------
(* ParamsArrive and ResultsReturn.                                         *)
ArriveInv ==
  /\ pc = "calling" => /\ ~ran
                       /\ in \in Structs(Params[m])
                       /\ tlvbuf = Emit(Params[m], in)
  /\ ParamsArrive

Whole(types, n, s) == s \in [1 .. n -> Field] /\ Filled(types, n, s)

ReturnInv ==
  /\ pc \in {"answered", "parse"} /\ st = OK =>
       /\ ran
       /\ Whole(Results[m], Len(Results[m]), result_buf)
       /\ resp = Emit(Results[m], result_buf)
  /\ ResultsReturn

LEMMA ArriveStep == HeapInv /\ ArriveInv /\ [Next]_vars => ArriveInv'
<1> SUFFICES ASSUME HeapInv, ArriveInv, [Next]_vars PROVE ArriveInv'
  OBVIOUS
<1>1. ASSUME NEW x \in Method, NEW p \in Structs(Params[x]), StubEncode(x, p) PROVE ArriveInv'
  BY <1>1 DEF StubEncode, Call, ArriveInv, ParamsArrive
<1>2. ASSUME NEW x \in Method, NEW p \in Structs(Params[x]), StubNoMem(x, p) PROVE ArriveInv'
  BY <1>2 DEF StubNoMem, Call, ArriveInv, ParamsArrive
<1>3. CASE RequestInvalid
  BY <1>3 DEF RequestInvalid, ArriveInv, ParamsArrive
<1>4. ASSUME NEW rc, NEW result \in Structs(Results[m]), RequestHandled(rc, result) PROVE ArriveInv'
  <2>1. PICK p, types, n : /\ p = Parse(Params[m], tlvbuf, theirs)
                           /\ types = Params[m] /\ n = Len(types)
    OBVIOUS
  <2>2. /\ p.ok /\ param_buf' = p.struct /\ pc = "calling" /\ pc' = "answered"
        /\ UNCHANGED <<m, in>>
    BY <1>4, <2>1 DEF RequestHandled, client
  <2>3. in \in Structs(types) /\ p = Parse(types, Emit(types, in), theirs)
    BY <2>1, <2>2 DEF ArriveInv
  <2>4. types \in Seq(Type) /\ n \in Nat /\ DOMAIN types = 1 .. n
    BY <2>1, MethodFacts, LenProperties DEF HeapInv
  <2>5. /\ in \in [1 .. n -> Field] /\ Filled(types, n, in)
        /\ \A i \in 1 .. n : in[i].val \in Words \cup Strings \cup Blobs \cup {<<>>}
    BY <2>1, <2>3, <2>4, StructFacts
  <2>6. SUFFICES ASSUME TwoByteLengths(in) PROVE SameParams'
    BY <2>2 DEF ArriveInv, ParamsArrive, TwoByteLengths
  <2>13. Short(n, in)
    BY <2>5, <2>6 DEF TwoByteLengths, Short
  <2>7. theirs \subseteq Nat \ {0} /\ IsFiniteSet(theirs)
    BY NoBlocks DEF HeapInv
  <2>8. Arrived(types, in, p.struct, n)
    BY <2>1, <2>2, <2>3, <2>4, <2>5, <2>7, <2>13, RoundTrip
  <2>9. p.struct \in [1 .. n -> Field]
    BY <2>1, ServerParses DEF Owned
  <2>10. DOMAIN p.struct = 1 .. n /\ DOMAIN in = 1 .. n
    BY <2>5, <2>9
  <2>11. ValuesOf(p.struct) = ValuesOf(in)
    BY <2>8, <2>10 DEF ValuesOf, Arrived
  <2>12. \A i \in DOMAIN in : types[i] = "string" => in[i].ptr # 0
    BY <2>8, <2>10 DEF Arrived
  <2> QED BY <2>1, <2>2, <2>11, <2>12 DEF SameParams, ValuesOf
<1>5. CASE ServerDies
  BY <1>5 DEF ServerDies, client, ArriveInv, ParamsArrive, SameParams, TwoByteLengths, ValuesOf
<1>6. CASE /\ UNCHANGED <<m, in, tlvbuf, ran, param_buf>>
           /\ pc' # "calling" \/ pc' = pc
  BY <1>6 DEF ArriveInv, ParamsArrive, SameParams, TwoByteLengths, ValuesOf
<1>7. CASE FreeResult
  BY <1>7 DEF FreeResult, ArriveInv, ParamsArrive
<1>8. CallAnswered \/ (\E s \in {-1, TIMEOUT} : CallFails(s)) \/ StubReturn \/ ClientDies
        \/ UNCHANGED vars
      => /\ UNCHANGED <<m, in, tlvbuf, ran, param_buf>>
         /\ pc' # "calling" \/ pc' = pc
  BY DEF CallAnswered, CallFails, StubReturn, ClientDies, vars, client, server
<1> QED
  BY <1>1, <1>2, <1>3, <1>4, <1>5, <1>6, <1>7, <1>8 DEF Next

LEMMA ReturnStep == HeapInv /\ ReturnInv /\ [Next]_vars => ReturnInv'
<1> SUFFICES ASSUME HeapInv, ReturnInv, [Next]_vars PROVE ReturnInv'
  OBVIOUS
<1>1. ASSUME NEW x \in Method, NEW p \in Structs(Params[x]), StubEncode(x, p) PROVE ReturnInv'
  BY <1>1 DEF StubEncode, ReturnInv, ResultsReturn
<1>2. ASSUME NEW x \in Method, NEW p \in Structs(Params[x]), StubNoMem(x, p) PROVE ReturnInv'
  BY <1>2 DEF StubNoMem, ReturnInv, ResultsReturn, OK
<1>3. CASE RequestInvalid
  BY <1>3 DEF RequestInvalid, ReturnInv, ResultsReturn, OK, INVALID_PARAMS
<1>4. ASSUME NEW rc, NEW result \in Structs(Results[m]), RequestHandled(rc, result) PROVE ReturnInv'
  <2>1. PICK p : p = Parse(Params[m], tlvbuf, theirs)
    OBVIOUS
  <2>2. PICK h : h = Handler(Results[m], ResultBuf(m), result, p.heap)
    OBVIOUS
  <2>3. PICK types, n, s : types = Results[m] /\ n = Len(types) /\ s = h.struct
    OBVIOUS
  <2>4. /\ ran' /\ result_buf' = s /\ pc' = "answered" /\ m' = m
        /\ st' = OK => resp' = Emit(types, s)
    BY <1>4, <2>1, <2>2, <2>3 DEF RequestHandled, client, OK, INTERNAL_ERROR
  <2>5. Handled(types, p.heap, n, h, n)
    BY <2>1, <2>2, <2>3, ServerHandles
  <2>6. /\ s \in [1 .. n -> Field] /\ Filled(types, n, s)
    BY <2>3, <2>5 DEF Handled, Owned
  <2>7. Whole(types, n, s)
    BY <2>6 DEF Whole
  <2> QED BY <2>3, <2>4, <2>7 DEF ReturnInv, ResultsReturn
<1>5. CASE ServerDies
  BY <1>5 DEF ServerDies, ReturnInv, ResultsReturn
<1>6. CASE CallAnswered
  BY <1>6 DEF CallAnswered, client, server, ReturnInv, ResultsReturn
<1>7. ASSUME NEW status \in {-1, TIMEOUT}, CallFails(status) PROVE ReturnInv'
  BY <1>7 DEF CallFails, ReturnInv, ResultsReturn, OK, TIMEOUT
<1>8. CASE StubReturn
  <2>1. PICK r, types, n : /\ r = Parse(Results[m], resp, mine)
                           /\ types = Results[m] /\ n = Len(types)
    OBVIOUS
  <2>2. /\ pc = "parse" /\ pc' = "returned" /\ UNCHANGED <<m, ran, result_buf>>
        /\ out' = (IF st = OK THEN r.struct ELSE out)
        /\ st' = (IF st = OK /\ ~r.ok THEN -1 ELSE st)
        /\ mine' = (IF st = OK THEN r.heap ELSE mine) \ {1, 2}
    BY <1>8, <2>1 DEF StubReturn, client, server
  <2>3. CASE st # OK \/ ~r.ok
    <3>1. st' # OK
      BY <2>2, <2>3 DEF OK
    <3> QED BY <2>2, <3>1 DEF ReturnInv, ResultsReturn
  <2>4. CASE st = OK /\ r.ok
    <3>1. PICK s, t : s = result_buf /\ t = r.struct
      OBVIOUS
    <3>2. ran /\ Whole(types, n, s) /\ resp = Emit(types, s) /\ mine = {1, 2}
      BY <2>1, <2>2, <2>4, <3>1 DEF ReturnInv, HeapInv
    <3>3. types \in Seq(Type) /\ n \in Nat /\ DOMAIN types = 1 .. n
      BY <2>1, MethodFacts, LenProperties DEF HeapInv
    <3>4. s \in [1 .. n -> Field] /\ Filled(types, n, s)
      BY <3>2 DEF Whole
    <3>5. r = Parse(types, Emit(types, s), {1, 2})
      BY <2>1, <3>2
    <3>6. ASSUME TwoByteLengths(s) PROVE Arrived(types, s, t, n)
      <4>1. Short(n, s)
        BY <3>4, <3>6 DEF TwoByteLengths, Short
      <4>2. Arrived(types, s, r.struct, n)
        BY <2>1, <2>4, <3>3, <3>4, <3>5, <4>1, TwoBlocks, RoundTrip
      <4> QED BY <3>1, <4>2
    <3>7. Parsed(types, {1, 2}, n, r, n)
      BY <2>1, <2>2, CallerParses
    <3>8. t \in [1 .. n -> Field] /\ r.heap = {1, 2} \cup Blocks(t) /\ Blocks(t) \cap {1, 2} = {}
      BY <3>1, <3>7 DEF Parsed, Owned
    <3>9. DOMAIN t = 1 .. n /\ DOMAIN s = 1 .. n
      BY <3>4, <3>8
    <3>10. TwoByteLengths(s) => ValuesOf(t) = ValuesOf(s)
      BY <3>6, <3>9 DEF ValuesOf, Arrived
    <3>11. ASSUME NEW i \in DOMAIN t, types[i] # "u32" PROVE t[i].ptr \in mine'
      <4>1. t[i].ptr # 0
        BY <2>4, <3>1, <3>7, <3>9, <3>11 DEF Parsed
      <4>2. t[i].ptr \in Blocks(t)
        BY <4>1 DEF Blocks
      <4> QED BY <2>2, <2>4, <3>8, <4>2
    <3>12. out' = t /\ result_buf' = s /\ ran' /\ m' = m
      BY <2>2, <2>4, <3>1, <3>2
    <3> QED BY <2>1, <2>2, <3>10, <3>11, <3>12 DEF ReturnInv, ResultsReturn, TwoByteLengths, ValuesOf
  <2> QED BY <2>3, <2>4
<1>9. CASE ClientDies
  BY <1>9 DEF ClientDies, ReturnInv, ResultsReturn
<1>10. CASE FreeResult
  BY <1>10 DEF FreeResult, ReturnInv, ResultsReturn
<1>11. CASE UNCHANGED vars
  BY <1>11 DEF vars, client, server, ReturnInv, ResultsReturn, TwoByteLengths, ValuesOf
<1> QED
  BY <1>1, <1>2, <1>3, <1>4, <1>5, <1>6, <1>7, <1>8, <1>9, <1>10, <1>11 DEF Next

(***************************************************************************)
(* When no value is longer than two bytes of length can say, a handler     *)
(* only runs on the parameters the caller passed, field for field:         *)
(* rpc_param_parse_<name> undoes what the emitters of rpc_call_<name> did, *)
(* and refuses what it cannot undo (a NULL string).                        *)
(***************************************************************************)
THEOREM ParametersArrive == Spec => []ParamsArrive
<1>1. Init => ArriveInv
  BY DEF Init, ArriveInv, ParamsArrive
<1>2. ArriveInv => ParamsArrive
  BY DEF ArriveInv
<1>3. HeapInv /\ ArriveInv /\ [Next]_vars => ArriveInv'
  BY ArriveStep
<1> QED BY <1>1, <1>2, <1>3, HeapInit, HeapStep, PTL DEF Spec

(***************************************************************************)
(* A stub that returns 0 ran the handler and gives the caller the result   *)
(* the handler left, when no value of it is longer than two bytes of       *)
(* length can say: rpc_result_parse_<name> undoes what the server's        *)
(* encoder did, and every string and blob of the result is a block of the  *)
(* caller's own.                                                           *)
(***************************************************************************)
THEOREM ResultsArrive == Spec => []ResultsReturn
<1>1. Init => ReturnInv
  BY DEF Init, ReturnInv, ResultsReturn
<1>2. ReturnInv => ResultsReturn
  BY DEF ReturnInv
<1>3. HeapInv /\ ReturnInv /\ [Next]_vars => ReturnInv'
  BY ReturnStep
<1> QED BY <1>1, <1>2, <1>3, HeapInit, HeapStep, PTL DEF Spec
=============================================================================
