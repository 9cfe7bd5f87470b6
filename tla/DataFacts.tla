----------------------------- MODULE DataFacts ------------------------------
(***************************************************************************)
(* Facts about numbers, sets and sequences that the proofs of several      *)
(* components use and that the library does not state.                     *)
(***************************************************************************)
EXTENDS Integers, FiniteSetsExt, SequencesExt, FiniteSetTheorems,
        SequenceTheorems, TLAPS

(* A set of natural numbers that is not empty has a least member.  Every   *)
(* induction of these proofs is an appeal to it: the least number for      *)
(* which the claim fails, and what holds just below it.                    *)
LEMMA LeastNumber ==
  ASSUME NEW S \in SUBSET Nat, S # {}
  PROVE  \E x \in S : \A y \in S : x <= y
<1>1. IsWellFoundedOn(OpToRel(<, Nat), Nat)
  BY NatLessThanWellFounded
<1>2. PICK x \in S : \A y \in S : ~(<<y, x>> \in OpToRel(<, Nat))
  BY <1>1, WFMin, Zenon
<1>3. \A y \in S : ~(y < x)
  BY <1>2 DEF OpToRel
<1> QED BY <1>3

(* What Min computes. *)
LEMMA MinIsLeast ==
  ASSUME NEW S \in SUBSET Nat, S # {}
  PROVE  /\ Min(S) \in S
         /\ \A y \in S : Min(S) <= y
  BY LeastNumber DEF Min

(* The same, upwards. *)
LEMMA Induction ==
  ASSUME NEW S, 0 \in S, \A k \in Nat : k \in S => k + 1 \in S
  PROVE  \A n \in Nat : n \in S
<1>1. SUFFICES ASSUME Nat \ S # {} PROVE FALSE
  OBVIOUS
<1>2. PICK x \in Nat \ S : \A y \in Nat \ S : x <= y
  BY <1>1, LeastNumber
<1>3. x - 1 \in Nat /\ (x - 1) + 1 = x
  BY <1>2
<1>4. x - 1 \in S
  BY <1>2, <1>3
<1> QED BY <1>2, <1>3, <1>4

-----------------------------------------------------------------------------
(* The first p elements of L, and what follows its first q.                *)
LEMMA PartsOfSeq ==
  ASSUME NEW S, NEW L \in Seq(S), NEW p \in Nat, p <= Len(L)
  PROVE  /\ SubSeq(L, 1, p) \in Seq(S)
         /\ Len(SubSeq(L, 1, p)) = p
         /\ \A j \in 1 .. p : SubSeq(L, 1, p)[j] = L[j]
         /\ SubSeq(L, p + 1, Len(L)) \in Seq(S)
         /\ Len(SubSeq(L, p + 1, Len(L))) = Len(L) - p
         /\ \A j \in 1 .. Len(L) - p : SubSeq(L, p + 1, Len(L))[j] = L[p + j]
<1>1. PICK n \in Nat : n = Len(L)
  BY LenProperties
<1>2. \A i \in 1 .. n : L[i] \in S
  BY <1>1, ElementOfSeq
<1>3. /\ 1 \in Int /\ p \in Int /\ p + 1 \in Int /\ n \in Int
      /\ \A i \in 1 .. p : L[i] \in S
      /\ \A i \in p + 1 .. n : L[i] \in S
  BY <1>1, <1>2
<1>4. PICK a : a = SubSeq(L, 1, p)
  OBVIOUS
<1>5. PICK z : z = SubSeq(L, p + 1, n)
  OBVIOUS
<1>6. /\ a \in Seq(S)
      /\ Len(a) = IF 1 <= p THEN p - 1 + 1 ELSE 0
      /\ \A i \in 1 .. p - 1 + 1 : a[i] = L[1 + i - 1]
  BY <1>3, <1>4, SubSeqProperties
<1>7. /\ z \in Seq(S)
      /\ Len(z) = IF p + 1 <= n THEN n - (p + 1) + 1 ELSE 0
      /\ \A i \in 1 .. n - (p + 1) + 1 : z[i] = L[p + 1 + i - 1]
  BY <1>3, <1>5, SubSeqProperties
<1>8. Len(a) = p /\ Len(z) = n - p
  BY <1>1, <1>6, <1>7
<1>9. ASSUME NEW j \in 1 .. p PROVE a[j] = L[j]
  <2>1. j \in 1 .. p - 1 + 1 /\ 1 + j - 1 = j
    OBVIOUS
  <2> QED BY <2>1, <1>6
<1>10. ASSUME NEW j \in 1 .. n - p PROVE z[j] = L[p + j]
  <2>1. j \in 1 .. n - (p + 1) + 1 /\ p + 1 + j - 1 = p + j
    OBVIOUS
  <2> QED BY <2>1, <1>7
<1> QED
  BY <1>1, <1>4, <1>5, <1>6, <1>7, <1>8, <1>9, <1>10

(* Elements p + 1 .. q of L. *)
MiddleIs(S, L, p, q, z) ==
  /\ z \in Seq(S) /\ Len(z) = q - p
  /\ \A j \in 1 .. q - p : z[j] = L[p + j]

LEMMA Middle ==
  ASSUME NEW S, NEW L \in Seq(S), NEW p \in Nat, NEW q \in Nat, p <= q, q <= Len(L),
         NEW z, z = SubSeq(L, p + 1, q)
  PROVE  MiddleIs(S, L, p, q, z)
<1>1. PICK a \in Int : a = p + 1
  OBVIOUS
<1>2. \A i \in a .. q : L[i] \in S
  <2> TAKE i \in a .. q
  <2>1. Len(L) \in Nat /\ i \in 1 .. Len(L)
    BY <1>1, LenProperties
  <2> QED BY <2>1, ElementOfSeq
<1>3. /\ SubSeq(L, a, q) \in Seq(S)
      /\ Len(SubSeq(L, a, q)) = IF a <= q THEN q - a + 1 ELSE 0
      /\ \A i \in 1 .. q - a + 1 : SubSeq(L, a, q)[i] = L[a + i - 1]
  BY <1>2, SubSeqProperties
<1>4. z = SubSeq(L, a, q)
  BY <1>1
<1>5. ASSUME NEW j \in 1 .. q - p PROVE z[j] = L[p + j]
  <2>1. j \in 1 .. q - a + 1 /\ a + j - 1 = p + j
    BY <1>1
  <2> QED BY <1>3, <1>4, <2>1
<1> QED BY <1>1, <1>3, <1>4, <1>5 DEF MiddleIs

LEMMA ConcatParts ==
  ASSUME NEW S, NEW a \in Seq(S), NEW z \in Seq(S)
  PROVE  /\ a \o z \in Seq(S)
         /\ Len(a \o z) = Len(a) + Len(z)
         /\ \A j \in 1 .. Len(a) : (a \o z)[j] = a[j]
         /\ \A j \in 1 .. Len(z) : (a \o z)[Len(a) + j] = z[j]
<1>1. PICK M : M = a \o z
  OBVIOUS
<1>2. PICK p \in Nat, r \in Nat : p = Len(a) /\ r = Len(z)
  BY LenProperties
<1>3. /\ M \in Seq(S) /\ Len(M) = p + r
      /\ \A j \in 1 .. p + r : M[j] = IF j <= p THEN a[j] ELSE z[j - p]
  BY <1>1, <1>2, ConcatProperties
<1>4. ASSUME NEW j \in 1 .. p PROVE M[j] = a[j]
  BY <1>3
<1>5. ASSUME NEW j \in 1 .. r PROVE M[p + j] = z[j]
  <2>1. PICK k \in Int : k = p + j
    OBVIOUS
  <2>2. k \in 1 .. p + r /\ ~(k <= p) /\ k - p = j
    BY <2>1
  <2>3. M[k] = z[k - p]
    BY <1>3, <2>2
  <2> QED BY <2>1, <2>2, <2>3
<1> QED
  BY <1>1, <1>2, <1>3, <1>4, <1>5

(* A concatenation, its parts' lengths being numbers. *)
Joined(S, a, b, y, p, q) ==
  /\ y \in Seq(S) /\ Len(y) = p + q
  /\ \A j \in 1 .. p : y[j] = a[j]
  /\ \A j \in 1 .. q : y[p + j] = b[j]

LEMMA Join ==
  ASSUME NEW S, NEW a \in Seq(S), NEW b \in Seq(S), NEW y, y = a \o b,
         NEW p, NEW q, p = Len(a), q = Len(b)
  PROVE  Joined(S, a, b, y, p, q)
<1>1. /\ a \o b \in Seq(S)
      /\ Len(a \o b) = Len(a) + Len(b)
      /\ \A j \in 1 .. Len(a) : (a \o b)[j] = a[j]
      /\ \A j \in 1 .. Len(b) : (a \o b)[Len(a) + j] = b[j]
  BY ConcatParts
<1>2. Joined(S, a, b, a \o b, Len(a), Len(b))
  BY <1>1, Zenon DEF Joined
<1> QED
  BY <1>2, Zenon

(* A sequence cut in two. *)
LEMMA TwoParts ==
  ASSUME NEW S, NEW L \in Seq(S), NEW k \in Nat, k <= Len(L)
  PROVE  /\ SubSeq(L, 1, k) \in Seq(S) /\ SubSeq(L, k + 1, Len(L)) \in Seq(S)
         /\ Len(SubSeq(L, 1, k)) = k /\ Len(SubSeq(L, k + 1, Len(L))) = Len(L) - k
         /\ SubSeq(L, 1, k) \o SubSeq(L, k + 1, Len(L)) = L
<1>1. PICK n \in Nat : n = Len(L)
  BY LenProperties
<1>2. PICK a, b, M : a = SubSeq(L, 1, k) /\ b = SubSeq(L, k + 1, Len(L)) /\ M = a \o b
  OBVIOUS
<1>3. /\ a \in Seq(S) /\ Len(a) = k /\ \A j \in 1 .. k : a[j] = L[j]
      /\ b \in Seq(S) /\ Len(b) = n - k /\ \A j \in 1 .. n - k : b[j] = L[k + j]
  BY <1>1, <1>2, PartsOfSeq
<1>4. Joined(S, a, b, M, k, n - k)
  BY <1>2, <1>3, Join, Zenon
<1>5. /\ M \in Seq(S) /\ Len(M) = k + (n - k)
      /\ \A j \in 1 .. k : M[j] = L[j]
      /\ \A j \in 1 .. n - k : M[k + j] = L[k + j]
  BY <1>3, <1>4, ZenonT(40) DEF Joined
<1>6. ASSUME NEW i \in 1 .. n PROVE M[i] = L[i]
  <2>1. CASE i <= k
    BY <1>5, <2>1
  <2>2. CASE i > k
    <3>1. PICK j \in 1 .. n - k : j = i - k
      <4>1. i - k \in 1 .. n - k
        BY <1>1, <2>2
      <4> QED BY <4>1
    <3>2. k + j = i
      BY <3>1
    <3> QED BY <1>5, <3>2
  <2> QED BY <2>1, <2>2
<1>7. Len(M) = n
  BY <1>1, <1>5
<1>8. M = L
  BY <1>1, <1>5, <1>6, <1>7, SeqEqual
<1> QED
  BY <1>1, <1>2, <1>8, <1>3

(* Concatenation does not depend on brackets, and keeps the first element. *)
Bracketed(a, b, c) == (a \o b) \o c = a \o (b \o c)

LEMMA Brackets ==
  ASSUME NEW S, NEW a \in Seq(S), NEW b \in Seq(S), NEW c \in Seq(S)
  PROVE  Bracketed(a, b, c)
  BY ConcatAssociative DEF Bracketed

FourParts(a, b, c, e) == (a \o b) \o (c \o e) = a \o ((b \o c) \o e)

LEMMA BracketsOfFour ==
  ASSUME NEW S, NEW a \in Seq(S), NEW b \in Seq(S), NEW c \in Seq(S), NEW e \in Seq(S)
  PROVE  FourParts(a, b, c, e)
<1>1. PICK z \in Seq(S) : z = c \o e
  BY ConcatParts
<1>2. Bracketed(a, b, z)
  BY Brackets, Zenon
<1>3. Bracketed(b, c, e)
  BY Brackets, Zenon
<1> QED
  BY <1>1, <1>2, <1>3, Zenon DEF FourParts, Bracketed

LEMMA FirstStays ==
  ASSUME NEW S, NEW a \in Seq(S), NEW b \in Seq(S), a # <<>>
  PROVE  a \o b # <<>> /\ (a \o b)[1] = a[1] /\ Head(a \o b) = a[1]
<1>0. PICK y : y = a \o b
  OBVIOUS
<1>1. PICK p \in Nat, q \in Nat : p = Len(a) /\ q = Len(b) /\ y = a \o b
  BY <1>0, LenProperties
<1>2. Joined(S, a, b, y, p, q)
  BY <1>1, Join, Zenon
<1>3. p # 0
  BY <1>1, EmptySeq
<1>4. 1 \in 1 .. p
  BY <1>3
<1>5. y[1] = a[1] /\ Len(y) = p + q /\ y \in Seq(S)
  BY <1>2, <1>4 DEF Joined
<1>6. y # <<>>
  <2>1. p + q # 0
    BY <1>3
  <2> QED BY <1>5, <2>1, EmptySeq
<1>7. Head(y) = y[1]
  BY <1>5, <1>6, HeadTailProperties
<1> QED
  BY <1>1, <1>5, <1>6, <1>7

(* L without its elements p + 1 .. q ... *)
LEMMA CutOut ==
  ASSUME NEW S, NEW L \in Seq(S), NEW p \in Nat, NEW q \in Nat, p <= q, q <= Len(L)
  PROVE  LET M == SubSeq(L, 1, p) \o SubSeq(L, q + 1, Len(L)) IN
         /\ M \in Seq(S)
         /\ Len(M) = p + (Len(L) - q)
         /\ \A j \in 1 .. p : M[j] = L[j]
         /\ \A j \in 1 .. Len(L) - q : M[p + j] = L[q + j]
<1>1. PICK n \in Nat : n = Len(L)
  BY LenProperties
<1> p <= Len(L) /\ n - q \in Nat
  BY <1>1
<1>0. PICK r \in Nat : r = n - q
  OBVIOUS
<1>2. PICK a \in Seq(S) : a = SubSeq(L, 1, p)
  BY <1>1, PartsOfSeq
<1>3. Len(a) = p /\ \A j \in 1 .. p : a[j] = L[j]
  BY <1>1, <1>2, PartsOfSeq
<1>4. PICK z \in Seq(S) : z = SubSeq(L, q + 1, Len(L))
  BY PartsOfSeq
<1>5. Len(z) = r /\ \A j \in 1 .. r : z[j] = L[q + j]
  BY <1>0, <1>1, <1>4, PartsOfSeq
<1>6. PICK M : M = a \o z
  OBVIOUS
<1>8. /\ M \in Seq(S) /\ Len(M) = p + r
      /\ \A j \in 1 .. p : M[j] = a[j]
      /\ \A j \in 1 .. r : M[p + j] = z[j]
  <2>1. Len(a) = p /\ Len(z) = r
    BY <1>3, <1>5
  <2>2. /\ M \in Seq(S)
        /\ Len(M) = Len(a) + Len(z)
        /\ \A j \in 1 .. Len(a) : M[j] = a[j]
        /\ \A j \in 1 .. Len(z) : M[Len(a) + j] = z[j]
    BY <1>6, ConcatParts
  <2> QED BY <2>1, <2>2
<1>9. /\ \A j \in 1 .. p : M[j] = L[j]
      /\ \A j \in 1 .. r : M[p + j] = L[q + j]
  BY <1>3, <1>5, <1>8
<1> QED
  BY <1>0, <1>1, <1>2, <1>4, <1>6, <1>8, <1>9

CutFrom(S, L, p, q, M) ==
  /\ M \in Seq(S)
  /\ Len(M) = p + (Len(L) - q)
  /\ \A j \in 1 .. p : M[j] = L[j]
  /\ \A j \in 1 .. Len(L) - q : M[p + j] = L[q + j]

LEMMA Cut ==
  ASSUME NEW S, NEW L \in Seq(S), NEW p \in Nat, NEW q \in Nat, p <= q, q <= Len(L),
         NEW M, M = SubSeq(L, 1, p) \o SubSeq(L, q + 1, Len(L))
  PROVE  CutFrom(S, L, p, q, M)
  BY CutOut, ZenonT(40) DEF CutFrom

(* What is left of L without its element i. *)
LEMMA RemoveAtFacts ==
  ASSUME NEW S, NEW L \in Seq(S), NEW i \in Nat, 1 <= i, i <= Len(L)
  PROVE  /\ RemoveAt(L, i) \in Seq(S)
         /\ Len(RemoveAt(L, i)) = Len(L) - 1
         /\ \A j \in 1 .. Len(L) - 1 :
              RemoveAt(L, i)[j] = IF j < i THEN L[j] ELSE L[j + 1]
<1>1. PICK n \in Nat : n = Len(L)
  BY LenProperties
<1>2. i - 1 \in Nat
  OBVIOUS
<1>3. PICK p \in Nat : p = i - 1
  BY <1>2
<1>4. PICK M : M = SubSeq(L, 1, p) \o SubSeq(L, i + 1, Len(L))
  OBVIOUS
<1>5. p <= i
  BY <1>3
<1>6. /\ M \in Seq(S)
      /\ Len(M) = p + (n - i)
      /\ \A j \in 1 .. p : M[j] = L[j]
      /\ \A j \in 1 .. n - i : M[p + j] = L[i + j]
  <2>1. /\ M \in Seq(S)
        /\ Len(M) = p + (Len(L) - i)
        /\ \A j \in 1 .. p : M[j] = L[j]
        /\ \A j \in 1 .. Len(L) - i : M[p + j] = L[i + j]
    <3>1. CutFrom(S, L, p, i, M)
      BY <1>4, <1>5, Cut, Zenon
    <3> QED BY <3>1 DEF CutFrom
  <2> QED BY <2>1, <1>1
<1>7. ASSUME NEW j \in 1 .. n - 1 PROVE M[j] = IF j < i THEN L[j] ELSE L[j + 1]
  <2>1. CASE j < i
    BY <1>3, <1>6, <2>1
  <2>2. CASE ~(j < i)
    <3>1. PICK k \in Int : k = j - p
      OBVIOUS
    <3>2. k \in 1 .. n - i /\ p + k = j /\ i + k = j + 1
      BY <1>3, <2>2, <3>1
    <3> QED
      BY <1>6, <2>2, <3>2
  <2> QED
    BY <2>1, <2>2
<1>8. M = RemoveAt(L, i)
  BY <1>3, <1>4 DEF RemoveAt
<1>9. Len(M) = n - 1
  BY <1>1, <1>3, <1>6
<1> QED
  BY <1>1, <1>6, <1>7, <1>8, <1>9

(* ... and with m in their place. *)
SpliceOf(L, p, q, m) == SubSeq(L, 1, p) \o <<m>> \o SubSeq(L, q + 1, Len(L))

PartOf(L, p, q) == p \in Nat /\ q \in Nat /\ p <= q /\ q <= Len(L)

Spliced(S, L, p, q, m, M) ==
  /\ M \in Seq(S)
  /\ Len(M) = p + 1 + (Len(L) - q)
  /\ \A j \in 1 .. p : M[j] = L[j]
  /\ M[p + 1] = m
  /\ \A j \in 1 .. Len(L) - q : M[p + 1 + j] = L[q + j]

LEMMA Splice ==
  ASSUME NEW S, NEW L \in Seq(S), NEW p, NEW q, PartOf(L, p, q), NEW m \in S
  PROVE  Spliced(S, L, p, q, m, SpliceOf(L, p, q, m))
<1> p \in Nat /\ q \in Nat /\ p <= q /\ q <= Len(L)
  BY DEF PartOf
<1>1. PICK n \in Nat : n = Len(L)
  BY LenProperties
<1> p <= Len(L) /\ n - q \in Nat
  BY <1>1
<1>0. PICK r \in Nat : r = n - q
  OBVIOUS
<1>2. PICK a \in Seq(S) : a = SubSeq(L, 1, p)
  BY <1>1, PartsOfSeq
<1>3. Len(a) = p /\ \A j \in 1 .. p : a[j] = L[j]
  BY <1>1, <1>2, PartsOfSeq
<1>4. PICK z \in Seq(S) : z = SubSeq(L, q + 1, Len(L))
  BY PartsOfSeq
<1>5. Len(z) = r /\ \A j \in 1 .. r : z[j] = L[q + j]
  BY <1>0, <1>1, <1>4, PartsOfSeq
<1>6. PICK am \in Seq(S) : am = Append(a, m)
  BY AppendProperties
<1>7. Len(am) = p + 1 /\ am[p + 1] = m /\ \A j \in 1 .. p : am[j] = a[j]
  BY <1>3, <1>6, AppendProperties
<1>8. PICK M : M = am \o z
  OBVIOUS
<1>9. PICK p1 \in Nat : p1 = p + 1
  OBVIOUS
<1>10. /\ M \in Seq(S) /\ Len(M) = p1 + r
       /\ \A j \in 1 .. p1 : M[j] = am[j]
       /\ \A j \in 1 .. r : M[p1 + j] = z[j]
  <2>1. Len(am) = p1 /\ Len(z) = r
    BY <1>5, <1>7, <1>9
  <2>2. /\ M \in Seq(S)
        /\ Len(M) = Len(am) + Len(z)
        /\ \A j \in 1 .. Len(am) : M[j] = am[j]
        /\ \A j \in 1 .. Len(z) : M[Len(am) + j] = z[j]
    BY <1>8, ConcatParts
  <2> QED BY <2>1, <2>2
<1>11. /\ \A j \in 1 .. p : M[j] = L[j]
       /\ M[p + 1] = m
       /\ \A j \in 1 .. r : M[p1 + j] = L[q + j]
  <2>1. ASSUME NEW j \in 1 .. p PROVE M[j] = L[j]
    <3>1. j \in 1 .. p1
      BY <1>9
    <3> QED BY <3>1, <1>3, <1>7, <1>10
  <2>2. p + 1 \in 1 .. p1
    BY <1>9
  <2> QED BY <2>1, <2>2, <1>5, <1>7, <1>10
<1>12. M = SpliceOf(L, p, q, m)
  BY <1>2, <1>4, <1>6, <1>8, AppendIsConcat DEF SpliceOf
<1> QED
  BY <1>0, <1>1, <1>9, <1>10, <1>11, <1>12 DEF Spliced

-----------------------------------------------------------------------------
(* Ends of parts of a sequence.                                            *)
LEMMA ConsFacts ==
  ASSUME NEW S, NEW x \in S, NEW s \in Seq(S)
  PROVE  /\ <<x>> \o s \in Seq(S) /\ <<x>> \o s # <<>>
         /\ Head(<<x>> \o s) = x
         /\ Tail(<<x>> \o s) = s
<1>1. <<x>> \in Seq(S) /\ Len(<<x>>) = 1 /\ <<x>>[1] = x
  OBVIOUS
<1>2. PICK a \in Seq(S) : a = <<x>>
  BY <1>1
<1>3. PICK c : c = a \o s
  OBVIOUS
<1>4. PICK n \in Nat : n = Len(s)
  BY LenProperties
<1>5. Len(a) = 1 /\ a[1] = x
  BY <1>1, <1>2
<1>6. /\ c \in Seq(S) /\ Len(c) = Len(a) + Len(s)
      /\ \A j \in 1 .. Len(a) : c[j] = a[j]
      /\ \A j \in 1 .. Len(s) : c[Len(a) + j] = s[j]
  BY <1>3, ConcatParts
<1>7. Len(c) = 1 + n /\ c[1] = x /\ \A j \in 1 .. n : c[1 + j] = s[j]
  BY <1>4, <1>5, <1>6
<1>8. c # <<>>
  BY <1>6, <1>7, EmptySeq, SMTT(30)
<1>9. Tail(c) \in Seq(S) /\ Len(Tail(c)) = n /\ \A i \in 1 .. n : Tail(c)[i] = c[i + 1]
  <2>1. /\ Tail(c) \in Seq(S) /\ Len(Tail(c)) = Len(c) - 1
        /\ \A i \in 1 .. Len(Tail(c)) : Tail(c)[i] = c[i + 1]
    BY <1>6, <1>8, HeadTailProperties
  <2>2. Len(Tail(c)) = n
    BY <1>7, <2>1
  <2> QED BY <2>1, <2>2
<1>10. \A i \in 1 .. n : Tail(c)[i] = s[i]
  BY <1>7, <1>9
<1>11. Tail(c) = s
  BY <1>4, <1>9, <1>10, SeqEqual
<1>12. Head(c) = c[1]
  BY <1>6, <1>8
<1> QED
  BY <1>2, <1>3, <1>6, <1>7, <1>8, <1>11, <1>12

LEMMA FrontOfPart ==
  ASSUME NEW S, NEW L \in Seq(S), NEW k \in Nat, 1 <= k, k <= Len(L)
  PROVE  /\ SubSeq(L, 1, k) # <<>>
         /\ Last(SubSeq(L, 1, k)) = L[k]
         /\ Front(SubSeq(L, 1, k)) = SubSeq(L, 1, k - 1)
<1>1. PICK n \in Nat : n = Len(L)
  BY LenProperties
<1>2. PICK a \in Seq(S) : a = SubSeq(L, 1, k)
  BY PartsOfSeq
<1>3. Len(a) = k /\ \A j \in 1 .. k : a[j] = L[j]
  BY <1>2, PartsOfSeq
<1>4. k - 1 \in Nat
  OBVIOUS
<1>5. PICK h \in Nat : h = k - 1
  BY <1>4
<1>6. h <= Len(L) /\ h <= Len(a)
  BY <1>1, <1>3, <1>5
<1>7. PICK f \in Seq(S) : f = SubSeq(a, 1, h)
  BY <1>6, PartsOfSeq
<1>8. Len(f) = h /\ \A j \in 1 .. h : f[j] = a[j]
  BY <1>6, <1>7, PartsOfSeq
<1>9. PICK g \in Seq(S) : g = SubSeq(L, 1, h)
  BY <1>6, PartsOfSeq
<1>10. Len(g) = h /\ \A j \in 1 .. h : g[j] = L[j]
  BY <1>6, <1>9, PartsOfSeq
<1>11. \A j \in 1 .. h : f[j] = g[j]
  BY <1>3, <1>5, <1>8, <1>10
<1>12. f = g
  BY <1>8, <1>10, <1>11, SeqEqual
<1>13. a # <<>>
  BY <1>3, EmptySeq
<1>14. Last(a) = L[k]
  BY <1>3 DEF Last
<1>15. Front(a) = f
  BY <1>3, <1>5, <1>7 DEF Front
<1> QED
  BY <1>2, <1>5, <1>9, <1>12, <1>13, <1>14, <1>15

LEMMA TailOfPart ==
  ASSUME NEW S, NEW L \in Seq(S), NEW k \in Nat, k + 1 <= Len(L)
  PROVE  /\ SubSeq(L, k + 1, Len(L)) # <<>>
         /\ Head(SubSeq(L, k + 1, Len(L))) = L[k + 1]
         /\ Tail(SubSeq(L, k + 1, Len(L))) = SubSeq(L, k + 2, Len(L))
<1>1. PICK n \in Nat : n = Len(L)
  BY LenProperties
<1>2. k + 1 \in 1 .. n /\ n \in k + 1 .. n /\ k <= Len(L) /\ k + 2 = (k + 1) + 1
  BY <1>1
<1>3. PICK m \in 1 .. Len(L) : m = k + 1
  BY <1>1, <1>2
<1>4. /\ Head(SubSeq(L, m, n)) = L[m]
      /\ Tail(SubSeq(L, m, n)) = SubSeq(L, m + 1, n)
  <2>1. n \in m .. Len(L)
    BY <1>1, <1>2, <1>3
  <2> QED BY <2>1, HeadTailOfSubSeq
<1>5. Len(SubSeq(L, k + 1, Len(L))) = Len(L) - k
  BY <1>2, PartsOfSeq
<1>6. SubSeq(L, k + 1, Len(L)) # <<>>
  <2>1. Len(SubSeq(L, k + 1, Len(L))) # 0
    BY <1>1, <1>2, <1>5
  <2> QED BY <2>1, EmptySeq
<1> QED
  BY <1>1, <1>2, <1>3, <1>4, <1>6

LEMMA SingletonConcat ==
  ASSUME NEW S, NEW x \in S, NEW a \in Seq(S), NEW z \in Seq(S)
  PROVE  (a \o <<x>>) \o z = a \o (<<x>> \o z)
<1>1. <<x>> \in Seq(S)
  OBVIOUS
<1> QED
  BY <1>1, ConcatAssociative, SMTT(30)

-----------------------------------------------------------------------------
(* FlattenSeq.  Its local function is characterised by an equation; that   *)
(* there is such a function, and what it has for values, follows from      *)
(* LeastNumber.                                                            *)
FlatUpto(s, n, g) ==
  g = [i \in 1 .. n |-> IF i = 1 THEN s[i] ELSE g[i - 1] \o s[i]]

LEMMA FlatExists ==
  ASSUME NEW s, NEW n \in Nat
  PROVE  \E g : FlatUpto(s, n, g)
<1> DEFINE Bad == {k \in Nat : ~\E g : FlatUpto(s, k, g)}
<1>1. SUFFICES Bad = {}
  OBVIOUS
<1>2. SUFFICES ASSUME Bad # {} PROVE FALSE
  OBVIOUS
<1>3. Bad \in SUBSET Nat
  OBVIOUS
<1>4. PICK k \in Bad : \A j \in Bad : k <= j
  BY <1>2, <1>3, LeastNumber
<1>5. k \in Nat /\ ~\E g : FlatUpto(s, k, g)
  BY <1>4
<1>6. k # 0
  <2>1. FlatUpto(s, 0, [i \in 1 .. 0 |-> s])
    BY DEF FlatUpto
  <2> QED BY <1>5, <2>1
<1>7. PICK j \in Nat : j = k - 1
  <2>1. k - 1 \in Nat
    BY <1>5, <1>6
  <2> QED BY <2>1
<1>8. PICK g : FlatUpto(s, j, g)
  <2>1. j \notin Bad
    BY <1>4, <1>5, <1>7
  <2> QED BY <2>1
<1>9. PICK h : h = [i \in 1 .. k |-> IF i = 1 THEN s[i] ELSE g[i - 1] \o s[i]]
  OBVIOUS
<1>10. ASSUME NEW i \in 1 .. j PROVE h[i] = g[i]
  <2>1. i \in 1 .. k
    BY <1>5, <1>7
  <2> QED BY <1>8, <1>9, <2>1 DEF FlatUpto
<1>11. ASSUME NEW i \in 1 .. k, i # 1 PROVE h[i - 1] = g[i - 1]
  <2>1. i - 1 \in 1 .. j
    BY <1>5, <1>7, <1>11
  <2> QED BY <1>10, <2>1
<1>12. h = [i \in 1 .. k |-> IF i = 1 THEN s[i] ELSE h[i - 1] \o s[i]]
  BY <1>9, <1>11
<1> QED
  BY <1>5, <1>12 DEF FlatUpto

LEMMA FlatIs ==
  ASSUME NEW s, Len(s) \in Nat, Len(s) # 0
  PROVE  \E g : FlatUpto(s, Len(s), g) /\ FlattenSeq(s) = g[Len(s)]
<1>1. \E g : FlatUpto(s, Len(s), g)
  BY FlatExists
<1>2. PICK f : f = CHOOSE g : FlatUpto(s, Len(s), g)
  OBVIOUS
<1>3. FlatUpto(s, Len(s), f)
  BY <1>1, <1>2, Zenon
<1>4. FlattenSeq(s) = f[Len(s)]
  BY <1>2 DEF FlatUpto, FlattenSeq
<1> QED
  BY <1>3, <1>4

(* The steps of the local function. *)
LEMMA FlatFirst ==
  ASSUME NEW s, NEW n \in Nat, NEW g, FlatUpto(s, n, g), 1 <= n
  PROVE  g[1] = s[1]
<1>1. 1 \in 1 .. n
  OBVIOUS
<1> QED BY <1>1 DEF FlatUpto

LEMMA FlatAt ==
  ASSUME NEW s, NEW n \in Nat, NEW g, FlatUpto(s, n, g), NEW i \in 1 .. n, i # 1
  PROVE  g[i] = g[i - 1] \o s[i]
  BY DEF FlatUpto

(* It depends on the first elements of s alone. *)
SameFront(s, t, n) == \A i \in 1 .. n : s[i] = t[i]

LEMMA FlatSame ==
  ASSUME NEW s, NEW t, NEW n \in Nat, NEW m \in Nat, n <= m, SameFront(s, t, n),
         NEW g, FlatUpto(s, n, g), NEW h, FlatUpto(t, m, h)
  PROVE  SameFront(g, h, n)
<1> DEFINE Bad == {k \in 1 .. n : g[k] # h[k]}
<1>1. SUFFICES ASSUME Bad # {} PROVE FALSE
  BY DEF SameFront
<1>2. Bad \in SUBSET Nat
  OBVIOUS
<1>3. PICK k \in Bad : \A j \in Bad : k <= j
  BY <1>1, <1>2, LeastNumber
<1>4. k \in 1 .. n /\ k \in 1 .. m /\ g[k] # h[k] /\ s[k] = t[k]
  BY <1>3 DEF SameFront
<1>5. CASE k = 1
  <2>1. 1 <= n /\ 1 <= m
    BY <1>4, <1>5
  <2>2. g[1] = s[1] /\ h[1] = t[1]
    BY <2>1, FlatFirst
  <2> QED BY <1>4, <1>5, <2>2
<1>6. CASE k # 1
  <2>1. k - 1 \in 1 .. n /\ ~(k <= k - 1)
    BY <1>4, <1>6
  <2>2. g[k - 1] = h[k - 1]
    BY <1>3, <2>1
  <2>3. g[k] = g[k - 1] \o s[k] /\ h[k] = h[k - 1] \o t[k]
    BY <1>4, <1>6, FlatAt
  <2> QED BY <1>4, <2>2, <2>3
<1> QED
  BY <1>5, <1>6

LEMMA FlatValues ==
  ASSUME NEW S, NEW s \in Seq(Seq(S)), NEW n \in Nat, n = Len(s), NEW g, FlatUpto(s, n, g),
         NEW k \in 1 .. n
  PROVE  g[k] \in Seq(S)
<1> DEFINE Bad == {j \in 1 .. n : g[j] \notin Seq(S)}
<1>1. SUFFICES ASSUME Bad # {} PROVE FALSE
  OBVIOUS
<1>2. Bad \in SUBSET Nat
  OBVIOUS
<1>3. PICK j \in Bad : \A i \in Bad : j <= i
  BY <1>1, <1>2, LeastNumber
<1>4. j \in 1 .. n /\ g[j] \notin Seq(S) /\ s[j] \in Seq(S)
  BY <1>3, ElementOfSeq
<1>5. CASE j = 1
  <2>1. g[1] = s[1]
    BY <1>4, FlatFirst
  <2> QED BY <1>4, <1>5, <2>1
<1>6. CASE j # 1
  <2>1. j - 1 \in 1 .. n /\ ~(j <= j - 1)
    BY <1>4, <1>6
  <2>2. g[j - 1] \in Seq(S)
    BY <1>3, <2>1
  <2>3. g[j] = g[j - 1] \o s[j]
    BY <1>4, <1>6, FlatAt, ZenonT(40)
  <2> QED BY <1>4, <2>2, <2>3, ConcatParts
<1> QED
  BY <1>5, <1>6

LEMMA FlatType ==
  ASSUME NEW S, NEW s \in Seq(Seq(S))
  PROVE  FlattenSeq(s) \in Seq(S)
<1>1. PICK n \in Nat : n = Len(s)
  BY LenProperties
<1>2. CASE n = 0
  <2>1. s = <<>>
    BY <1>1, <1>2, EmptySeq
  <2> QED BY <1>1, <1>2, <2>1 DEF FlattenSeq
<1>3. CASE n # 0
  <2>1. PICK g : FlatUpto(s, n, g) /\ FlattenSeq(s) = g[n]
    BY <1>1, <1>3, FlatIs
  <2>2. n \in 1 .. n
    BY <1>3
  <2> QED BY <1>1, <2>1, <2>2, FlatValues
<1> QED
  BY <1>2, <1>3

LEMMA FlatEmpty == FlattenSeq(<<>>) = <<>>
<1>1. Len(<<>>) = 0
  OBVIOUS
<1> QED BY <1>1 DEF FlattenSeq

LEMMA FlatOne ==
  ASSUME NEW s, Len(s) = 1
  PROVE  FlattenSeq(s) = s[1]
<1>1. Len(s) \in Nat /\ Len(s) # 0
  OBVIOUS
<1>2. PICK g : FlatUpto(s, Len(s), g) /\ FlattenSeq(s) = g[Len(s)]
  BY <1>1, FlatIs
<1>3. g[1] = s[1]
  BY <1>1, <1>2, FlatFirst
<1> QED
  BY <1>2, <1>3

LEMMA FlatAppend ==
  ASSUME NEW S, NEW s \in Seq(Seq(S)), NEW c \in Seq(S)
  PROVE  FlattenSeq(Append(s, c)) = FlattenSeq(s) \o c
<1>1. PICK n \in Nat : n = Len(s)
  BY LenProperties
<1>2. PICK t : t = Append(s, c)
  OBVIOUS
<1>3. /\ t \in Seq(Seq(S)) /\ Len(t) = n + 1 /\ t[n + 1] = c
      /\ \A i \in 1 .. n : t[i] = s[i]
  BY <1>1, <1>2, AppendProperties
<1>4. CASE n = 0
  <2>1. s = <<>>
    BY <1>1, <1>4, EmptySeq
  <2>2. FlattenSeq(s) = <<>>
    BY <2>1, FlatEmpty
  <2>3. Len(t) = 1 /\ t[1] = c
    BY <1>3, <1>4
  <2>4. FlattenSeq(t) = c
    BY <2>3, FlatOne
  <2>5. <<>> \o c = c
    BY ConcatEmptySeq
  <2> QED BY <1>2, <2>2, <2>4, <2>5
<1>5. CASE n # 0
  <2>1. PICK g : FlatUpto(s, n, g) /\ FlattenSeq(s) = g[n]
    BY <1>1, <1>5, FlatIs
  <2>2. PICK m \in Nat : m = n + 1
    OBVIOUS
  <2>3. Len(t) \in Nat /\ Len(t) # 0 /\ Len(t) = m
    BY <1>3, <2>2
  <2>4. PICK h : FlatUpto(t, m, h) /\ FlattenSeq(t) = h[m]
    BY <2>3, FlatIs
  <2>5. SameFront(s, t, n) /\ n <= m
    BY <1>3, <2>2 DEF SameFront
  <2>6. SameFront(g, h, n)
    BY <2>1, <2>4, <2>5, FlatSame
  <2>7. g[n] = h[n]
    BY <1>5, <2>6 DEF SameFront
  <2>8. m \in 1 .. m /\ m # 1 /\ m - 1 = n
    BY <1>5, <2>2
  <2>9. h[m] = h[m - 1] \o t[m]
    BY <2>4, <2>8, FlatAt
  <2>10. h[m] = h[n] \o c
    BY <1>3, <2>2, <2>8, <2>9
  <2> QED BY <1>2, <2>1, <2>4, <2>7, <2>10
<1> QED
  BY <1>4, <1>5

Shifted(s, g, h, k) == g[k + 1] = s[1] \o h[k]

LEMMA FlatCons ==
  ASSUME NEW S, NEW s \in Seq(Seq(S)), s # <<>>
  PROVE  FlattenSeq(s) = Head(s) \o FlattenSeq(Tail(s))
<1>1. PICK n \in Nat : n = Len(s)
  BY LenProperties
<1>2. n # 0 /\ Head(s) = s[1] /\ s[1] \in Seq(S)
  <2>1. n # 0
    BY <1>1, EmptySeq
  <2>2. 1 \in 1 .. Len(s)
    BY <1>1, <2>1
  <2> QED BY <2>1, <2>2, ElementOfSeq
<1>3. PICK t : t = Tail(s)
  OBVIOUS
<1>4. PICK m \in Nat : m = n - 1
  <2>1. n - 1 \in Nat
    BY <1>2
  <2> QED BY <2>1
<1>5. t \in Seq(Seq(S)) /\ Len(t) = m /\ \A i \in 1 .. m : t[i] = s[i + 1]
  <2>1. /\ t \in Seq(Seq(S)) /\ Len(t) = Len(s) - 1
        /\ \A i \in 1 .. Len(t) : t[i] = s[i + 1]
    BY <1>3, HeadTailProperties
  <2>2. Len(t) = m
    BY <1>1, <1>4, <2>1
  <2> QED BY <2>1, <2>2
<1>6. PICK g : FlatUpto(s, n, g) /\ FlattenSeq(s) = g[n]
  BY <1>1, <1>2, FlatIs
<1>7. CASE m = 0
  <2>1. t = <<>>
    BY <1>5, <1>7, EmptySeq
  <2>2. FlattenSeq(t) = <<>>
    BY <2>1, FlatEmpty
  <2>3. n = 1
    BY <1>4, <1>7
  <2>4. g[1] = s[1]
    BY <1>6, <2>3, FlatFirst
  <2>5. s[1] \o <<>> = s[1]
    BY <1>2, ConcatEmptySeq
  <2> QED BY <1>2, <1>3, <1>6, <2>2, <2>3, <2>4, <2>5
<1>8. CASE m # 0
  <2>1. PICK h : FlatUpto(t, m, h) /\ FlattenSeq(t) = h[m]
    BY <1>5, <1>8, FlatIs
  <2>2. ASSUME NEW k \in 1 .. m PROVE h[k] \in Seq(S)
    BY <1>5, <2>1, FlatValues
  <2> DEFINE Bad == {k \in 1 .. m : ~Shifted(s, g, h, k)}
  <2>3. ASSUME Bad # {} PROVE FALSE
    <3>1. Bad \in SUBSET Nat
      OBVIOUS
    <3>2. PICK k \in Bad : \A j \in Bad : k <= j
      BY <2>3, <3>1, LeastNumber
    <3>3. k \in 1 .. m /\ g[k + 1] # s[1] \o h[k]
      BY <3>2 DEF Shifted
    <3>4. PICK k1 \in 1 .. n : k1 = k + 1
      BY <1>4, <3>3
    <3>5. k1 # 1 /\ k1 - 1 = k /\ t[k] = s[k1]
      BY <1>5, <3>3, <3>4
    <3>6. g[k1] = g[k1 - 1] \o s[k1]
      BY <1>6, <3>5, FlatAt
    <3>7. g[k1] = g[k] \o t[k]
      BY <3>5, <3>6
    <3>8. CASE k = 1
      <4>1. 1 \in 1 .. n
        BY <1>4, <3>3, <3>8
      <4>2. g[1] = s[1]
        BY <1>6, <4>1, FlatFirst
      <4>3. h[1] = t[1]
        BY <2>1, <3>3, FlatFirst
      <4> QED BY <3>3, <3>4, <3>7, <3>8, <4>2, <4>3
    <3>9. CASE k # 1
      <4>1. PICK j \in 1 .. m : j = k - 1
        <5>1. k - 1 \in 1 .. m
          BY <3>3, <3>9
        <5> QED BY <5>1
      <4>2. j + 1 = k /\ ~(k <= j)
        BY <3>3, <4>1
      <4>3. g[k] = s[1] \o h[j]
        <5>1. Shifted(s, g, h, j)
          BY <3>2, <4>2
        <5> QED BY <4>2, <5>1 DEF Shifted
      <4>4. h[k] = h[j] \o t[k]
        BY <2>1, <3>3, <3>9, <4>1, FlatAt, ZenonT(40)
      <4>5. h[j] \in Seq(S) /\ t[k] \in Seq(S)
        BY <1>5, <2>2, <3>3, ElementOfSeq
      <4>6. (s[1] \o h[j]) \o t[k] = s[1] \o (h[j] \o t[k])
        <5>1. PICK x \in Seq(S), y \in Seq(S), z \in Seq(S) : x = s[1] /\ y = h[j] /\ z = t[k]
          BY <1>2, <4>5
        <5>2. Bracketed(x, y, z)
          BY Brackets, Zenon
        <5> QED BY <5>1, <5>2, Zenon DEF Bracketed
      <4> QED BY <3>3, <3>4, <3>7, <4>3, <4>4, <4>6
    <3> QED BY <3>8, <3>9
  <2>4. m \in 1 .. m /\ m + 1 = n
    BY <1>4, <1>8
  <2>5. g[m + 1] = s[1] \o h[m]
    BY <2>3, <2>4 DEF Shifted
  <2> QED BY <1>2, <1>3, <1>6, <2>1, <2>4, <2>5
<1> QED
  BY <1>7, <1>8

(* Flattening from an element on. *)
LEMMA FlatFrom ==
  ASSUME NEW S, NEW s \in Seq(Seq(S)), NEW n \in Nat, n = Len(s), NEW p \in 1 .. n
  PROVE  /\ s[p] \in Seq(S)
         /\ FlattenSeq(SubSeq(s, p + 1, n)) \in Seq(S)
         /\ FlattenSeq(SubSeq(s, p, n)) = s[p] \o FlattenSeq(SubSeq(s, p + 1, n))
<1>1. PICK k \in Nat : p = k + 1
  <2>1. p - 1 \in Nat /\ p = (p - 1) + 1
    OBVIOUS
  <2> QED BY <2>1
<1>2. k + 1 <= Len(s) /\ k <= Len(s) /\ k + 2 = p + 1
  BY <1>1
<1>3. PICK u, v : u = SubSeq(s, p, n) /\ v = SubSeq(s, p + 1, n)
  OBVIOUS
<1>4. u # <<>> /\ Head(u) = s[p] /\ Tail(u) = v
  BY <1>1, <1>2, <1>3, TailOfPart
<1>5. u \in Seq(Seq(S)) /\ v \in Seq(Seq(S))
  <2>1. u \in Seq(Seq(S))
    BY <1>1, <1>2, <1>3, PartsOfSeq
  <2>2. p \in Nat /\ p <= Len(s)
    OBVIOUS
  <2>3. SubSeq(s, p + 1, Len(s)) \in Seq(Seq(S))
    BY <2>2, PartsOfSeq
  <2> QED BY <1>3, <2>1, <2>3
<1>6. FlattenSeq(u) = Head(u) \o FlattenSeq(Tail(u))
  BY <1>4, <1>5, FlatCons
<1>7. FlattenSeq(v) \in Seq(S)
  BY <1>5, FlatType
<1>8. s[p] \in Seq(S)
  BY ElementOfSeq
<1> QED
  BY <1>3, <1>4, <1>6, <1>7, <1>8
=============================================================================
