--------------------------- MODULE HashMapProofs ----------------------------
(***************************************************************************)
(* hashmap.c for every set of keys, every hash function and every number   *)
(* of buckets and entries: its rings stay intact, and readers that take no *)
(* lock see a table.                                                       *)
(***************************************************************************)
EXTENDS HashMap, DataFacts, FiniteSetTheorems

-----------------------------------------------------------------------------
LEMMA BucketFacts ==
  /\ bucket_count \in Nat /\ bucket_count >= 1
  /\ \A k \in Key : hashmap_bucket(k) \in Bucket
  /\ Bucket \subseteq Nat /\ Bucket \subseteq Cell /\ Entry \subseteq Cell
  /\ Null \notin Cell /\ Bucket \cap Entry = {}
<1>1. Cap \in 0 .. 255 /\ Hash \in [Key -> Nat]
  BY HashMapAssumption
<1>2. 1 \in PowersOfTwo /\ 2 \in PowersOfTwo /\ 4 \in PowersOfTwo /\ 8 \in PowersOfTwo
      /\ 16 \in PowersOfTwo /\ 32 \in PowersOfTwo /\ 64 \in PowersOfTwo
      /\ 128 \in PowersOfTwo /\ 256 \in PowersOfTwo
  <2>1. 2^0 = 1 /\ 2^1 = 2 /\ 2^2 = 4 /\ 2^3 = 8 /\ 2^4 = 16 /\ 2^5 = 32 /\ 2^6 = 64
        /\ 2^7 = 128 /\ 2^8 = 256
    BY SMT
  <2> QED BY <2>1, SMT DEF PowersOfTwo
<1>3. \E p \in PowersOfTwo : p >= Cap /\ (p = 1 \/ p < 2 * Cap)
  <2>1. \/ Cap <= 1 \/ Cap = 2 \/ Cap \in 3 .. 4 \/ Cap \in 5 .. 8 \/ Cap \in 9 .. 16
        \/ Cap \in 17 .. 32 \/ Cap \in 33 .. 64 \/ Cap \in 65 .. 128 \/ Cap \in 129 .. 256
    BY <1>1, SMT
  <2> HIDE DEF PowersOfTwo
  <2> QED BY <1>1, <1>2, <2>1, SMT
<1>4. bucket_count \in PowersOfTwo
  BY <1>3 DEF bucket_count
<1>5. bucket_count \in Nat /\ bucket_count >= 1
  BY <1>4, SMT DEF PowersOfTwo
<1>6. \A h \in Nat, n \in Nat : n >= 1 => h % n \in 0 .. n - 1
  BY SMT
<1>7. \A k \in Key : hashmap_bucket(k) \in Bucket
  BY <1>1, <1>5, <1>6 DEF hashmap_bucket, Bucket
<1>8. Bucket \subseteq Nat
  BY <1>5 DEF Bucket
<1> QED
  BY <1>5, <1>7, <1>8, HashMapAssumption DEF Cell

-----------------------------------------------------------------------------
(* The local function of Search: what a walk of at most i cells finds,     *)
(* from every cell.                                                        *)
Walks(nx, ky, b, k, n, f) ==
  f = [i \in 0 .. n |-> [p \in Cell |->
         IF p = b \/ i = 0 THEN Null
         ELSE IF ky[p] = k THEN p ELSE f[i - 1][nx[p]]]]

LEMMA WalksExist ==
  ASSUME NEW nx, NEW ky, NEW b, NEW k, NEW n \in Nat
  PROVE  \E f : Walks(nx, ky, b, k, n, f)
<1> DEFINE Bad == {m \in Nat : ~\E f : Walks(nx, ky, b, k, m, f)}
<1>1. SUFFICES ASSUME Bad # {} PROVE FALSE
  OBVIOUS
<1>2. Bad \in SUBSET Nat
  OBVIOUS
<1>3. PICK m \in Bad : \A j \in Bad : m <= j
  BY <1>1, <1>2, LeastNumber
<1>4. m \in Nat /\ ~\E f : Walks(nx, ky, b, k, m, f)
  BY <1>3
<1>5. m # 0
  <2>1. PICK f : f = [i \in 0 .. 0 |-> [p \in Cell |-> Null]]
    OBVIOUS
  <2>2. f = [i \in 0 .. 0 |-> [p \in Cell |->
               IF p = b \/ i = 0 THEN Null
               ELSE IF ky[p] = k THEN p ELSE f[i - 1][nx[p]]]]
    BY <2>1
  <2>3. Walks(nx, ky, b, k, 0, f)
    BY <2>2 DEF Walks
  <2> QED BY <1>4, <2>3
<1>6. PICK j \in Nat : j = m - 1
  <2>1. m - 1 \in Nat
    BY <1>4, <1>5
  <2> QED BY <2>1
<1>7. PICK g : Walks(nx, ky, b, k, j, g)
  <2>1. ~(m <= j)
    BY <1>4, <1>6
  <2>2. j \notin Bad
    <3> HIDE DEF Bad
    <3> QED BY <1>3, <2>1
  <2> QED BY <2>2
<1>8. PICK h : h = [i \in 0 .. m |-> [p \in Cell |->
                      IF p = b \/ i = 0 THEN Null
                      ELSE IF ky[p] = k THEN p ELSE g[i - 1][nx[p]]]]
  OBVIOUS
<1>9. ASSUME NEW i \in 0 .. j PROVE h[i] = g[i]
  <2>1. i \in 0 .. m
    BY <1>4, <1>6
  <2> QED BY <1>7, <1>8, <2>1 DEF Walks
<1>10. ASSUME NEW i \in 0 .. m, i # 0 PROVE h[i - 1] = g[i - 1]
  <2>1. i - 1 \in 0 .. j
    BY <1>4, <1>6, <1>10
  <2> QED BY <1>9, <2>1
<1>11. h = [i \in 0 .. m |-> [p \in Cell |->
              IF p = b \/ i = 0 THEN Null
              ELSE IF ky[p] = k THEN p ELSE h[i - 1][nx[p]]]]
  BY <1>8, <1>10
<1> QED
  BY <1>4, <1>11 DEF Walks

(* What f, a walk, finds from a cell.                                      *)
Finds(nx, ky, b, k, n, f) ==
  \A i \in 0 .. n : \A p \in Cell :
    /\ p = b \/ i = 0 => f[i][p] = Null
    /\ p # b /\ i # 0 /\ ky[p] = k => f[i][p] = p
    /\ p # b /\ i # 0 /\ ky[p] # k => f[i][p] = f[i - 1][nx[p]]

LEMMA WalkFinds ==
  ASSUME NEW nx, NEW ky, NEW b, NEW k, NEW n \in Nat, NEW f, Walks(nx, ky, b, k, n, f)
  PROVE  Finds(nx, ky, b, k, n, f)
<1>1. PICK g : g = [j \in 0 .. n |-> [q \in Cell |->
                      IF q = b \/ j = 0 THEN Null
                      ELSE IF ky[q] = k THEN q ELSE f[j - 1][nx[q]]]]
  OBVIOUS
<1>2. f = g
  BY <1>1, Zenon DEF Walks
<1>3. SUFFICES ASSUME NEW i \in 0 .. n, NEW p \in Cell
      PROVE  /\ p = b \/ i = 0 => f[i][p] = Null
             /\ p # b /\ i # 0 /\ ky[p] = k => f[i][p] = p
             /\ p # b /\ i # 0 /\ ky[p] # k => f[i][p] = f[i - 1][nx[p]]
  BY DEF Finds
<1>4. g[i] = [q \in Cell |-> IF q = b \/ i = 0 THEN Null
                            ELSE IF ky[q] = k THEN q ELSE f[i - 1][nx[q]]]
  BY <1>1
<1>5. g[i][p] = IF p = b \/ i = 0 THEN Null
                ELSE IF ky[p] = k THEN p ELSE f[i - 1][nx[p]]
  BY <1>4
<1> QED
  BY <1>2, <1>5

LEMMA SearchWalks ==
  ASSUME NEW nx, NEW ky, NEW k, NEW b, b = hashmap_bucket(k), NEW n, n = Cardinality(Entry)
  PROVE  \E f : Finds(nx, ky, b, k, n, f) /\ Search(nx, ky, k) = f[n][nx[b]]
<1>1. n \in Nat
  BY FS_CardinalityType, HashMapAssumption
<1>2. \E f : Walks(nx, ky, b, k, n, f)
  BY <1>1, WalksExist
<1>3. PICK g : g = CHOOSE f : Walks(nx, ky, b, k, n, f)
  OBVIOUS
<1>4. Walks(nx, ky, b, k, n, g)
  BY <1>2, <1>3, Zenon
<1>5. Search(nx, ky, k) = g[n][nx[b]]
  BY <1>3 DEF Walks, Search
<1>6. Finds(nx, ky, b, k, n, g)
  BY <1>1, <1>4, WalkFinds, Zenon
<1> QED
  BY <1>5, <1>6

-----------------------------------------------------------------------------
(* The ring of bucket b under the links nx and pv and the keys ky: from    *)
(* the head at[0] over n entries back to the head at[n + 1].  w is the     *)
(* entry in the writer's hands, which is on no ring.                       *)
RingIs(nx, pv, ky, w, b, n, at) ==
  /\ n \in Nat /\ at \in [0 .. n + 1 -> Cell]
  /\ at[0] = b /\ at[n + 1] = b
  /\ \A i \in 1 .. n : at[i] \in Entry /\ at[i] # w
                       /\ ky[at[i]] \in Key /\ hashmap_bucket(ky[at[i]]) = b
  /\ \A i \in 0 .. n : nx[at[i]] = at[i + 1] /\ pv[at[i + 1]] = at[i]
  /\ \A i, j \in 1 .. n : ky[at[i]] = ky[at[j]] => i = j
  /\ \A e \in Entry : e # w /\ ky[e] # Null /\ hashmap_bucket(ky[e]) = b =>
                        \E i \in 1 .. n : at[i] = e

LEMMA RingCount ==
  ASSUME NEW nx, NEW pv, NEW ky, NEW w, NEW b, NEW n, NEW at, RingIs(nx, pv, ky, w, b, n, at)
  PROVE  n \in Nat /\ n <= Cardinality(Entry) /\ Cardinality(Entry) \in Nat
<1>1. n \in Nat /\ \A i \in 1 .. n : at[i] \in Entry
  BY DEF RingIs
<1>2. \A i, j \in 1 .. n : at[i] = at[j] => i = j
  BY Zenon DEF RingIs
<1>3. PICK f : f = [i \in 1 .. n |-> at[i]]
  OBVIOUS
<1>4. f \in Injection(1 .. n, Entry)
  BY <1>1, <1>2, <1>3 DEF Injection, IsInjective
<1>5. IsFiniteSet(Entry)
  BY HashMapAssumption
<1>6. Cardinality(1 .. n) <= Cardinality(Entry)
  BY <1>4, <1>5, FS_Injection
<1>7. Cardinality(1 .. n) = n
  <2>1. Cardinality(1 .. n) = IF 1 > n THEN 0 ELSE n - 1 + 1
    BY <1>1, FS_Interval
  <2> QED BY <1>1, <2>1
<1>8. Cardinality(Entry) \in Nat
  BY <1>5, FS_CardinalityType
<1> QED
  BY <1>1, <1>6, <1>7, <1>8

(* A walk finds nothing when the key is not on the ring ... *)
LEMMA SearchMiss ==
  ASSUME NEW nx, NEW pv, NEW ky, NEW w, NEW k \in Key, NEW b, b = hashmap_bucket(k),
         NEW n, NEW at, RingIs(nx, pv, ky, w, b, n, at),
         \A i \in 1 .. n : ky[at[i]] # k
  PROVE  Search(nx, ky, k) = Null
<1>1. PICK N \in Nat : N = Cardinality(Entry)
  BY RingCount
<1>2. PICK f : Finds(nx, ky, b, k, N, f) /\ Search(nx, ky, k) = f[N][nx[b]]
  BY <1>1, SearchWalks
<1>3. /\ n \in Nat /\ at \in [0 .. n + 1 -> Cell] /\ at[0] = b /\ at[n + 1] = b
      /\ \A i \in 0 .. n : nx[at[i]] = at[i + 1]
  BY DEF RingIs
<1> DEFINE Bad == {d \in 0 .. n + 1 : \E i \in 0 .. N : f[i][at[n + 1 - d]] # Null}
<1>4. ASSUME Bad # {} PROVE FALSE
  <2>1. Bad \in SUBSET Nat
    BY <1>3
  <2>2. PICK d \in Bad : \A j \in Bad : d <= j
    BY <1>4, <2>1, LeastNumber
  <2>3. PICK i \in 0 .. N : d \in 0 .. n + 1 /\ f[i][at[n + 1 - d]] # Null
    BY <2>2
  <2>4. PICK m \in 0 .. n + 1 : m = n + 1 - d
    <3>1. n + 1 - d \in 0 .. n + 1
      BY <1>3, <2>3
    <3> QED BY <3>1
  <2>5. at[m] \in Cell /\ f[i][at[m]] # Null
    BY <1>3, <2>3, <2>4
  <2>6. /\ at[m] = b \/ i = 0 => f[i][at[m]] = Null
        /\ at[m] # b /\ i # 0 /\ ky[at[m]] # k => f[i][at[m]] = f[i - 1][nx[at[m]]]
    BY <1>2, <2>5 DEF Finds
  <2>7. at[m] # b /\ i # 0
    BY <2>5, <2>6
  <2>8. m # 0 /\ m # n + 1
    BY <1>3, <2>7
  <2>9. m \in 1 .. n
    BY <1>3, <2>8
  <2>10. f[i - 1][nx[at[m]]] # Null
    BY <2>5, <2>6, <2>7, <2>9
  <2>11. PICK g \in 0 .. n + 1 : g = d - 1 /\ n + 1 - g = m + 1
    <3>1. d - 1 \in 0 .. n + 1 /\ n + 1 - (d - 1) = m + 1
      BY <1>3, <2>3, <2>4, <2>9
    <3> QED BY <3>1
  <2>12. f[i - 1][at[n + 1 - g]] # Null
    <3>1. m \in 0 .. n
      BY <2>9
    <3>2. nx[at[m]] = at[m + 1]
      BY <1>3, <3>1
    <3> QED BY <2>10, <2>11, <3>2
  <2>13. i - 1 \in 0 .. N
    BY <2>7
  <2>14. g \in Bad
    BY <2>12, <2>13
  <2>15. ~(d <= g)
    BY <2>3, <2>11
  <2> HIDE DEF Bad
  <2> QED BY <2>2, <2>14, <2>15
<1>5. ASSUME NEW i \in 0 .. N PROVE f[i][at[1]] = Null
  <2>1. n \in 0 .. n + 1 /\ n + 1 - n = 1
    BY <1>3
  <2>2. n \notin Bad
    BY <1>4
  <2>3. \A j \in 0 .. N : f[j][at[n + 1 - n]] = Null
    BY <2>1, <2>2
  <2> QED BY <2>1, <2>3
<1>6. nx[b] = at[1]
  <2>1. 0 \in 0 .. n /\ 0 + 1 = 1
    BY <1>3
  <2> QED BY <1>3, <2>1
<1>7. N \in 0 .. N
  BY <1>1
<1> QED
  BY <1>2, <1>5, <1>6, <1>7

(* ... and the entry that holds it when it is. *)
LEMMA SearchHit ==
  ASSUME NEW nx, NEW pv, NEW ky, NEW w, NEW k \in Key, NEW b, b = hashmap_bucket(k),
         NEW n, NEW at, RingIs(nx, pv, ky, w, b, n, at),
         NEW h \in 1 .. n, ky[at[h]] = k
  PROVE  Search(nx, ky, k) = at[h]
<1>1. PICK N \in Nat : N = Cardinality(Entry) /\ n <= N
  BY RingCount
<1>2. PICK f : Finds(nx, ky, b, k, N, f) /\ Search(nx, ky, k) = f[N][nx[b]]
  BY <1>1, SearchWalks
<1>3. /\ n \in Nat /\ at \in [0 .. n + 1 -> Cell] /\ at[0] = b
      /\ \A i \in 0 .. n : nx[at[i]] = at[i + 1]
      /\ \A i \in 1 .. n : at[i] \in Entry
  BY DEF RingIs
<1>4. \A i \in 1 .. n : ky[at[i]] = k => i = h
  BY Zenon DEF RingIs
<1>5. \A i \in 1 .. n : at[i] # b
  BY <1>3, BucketFacts
<1> DEFINE Bad == {d \in 0 .. h - 1 : \E i \in d + 1 .. N : f[i][at[h - d]] # at[h]}
<1>6. ASSUME Bad # {} PROVE FALSE
  <2>1. Bad \in SUBSET Nat
    OBVIOUS
  <2>2. PICK d \in Bad : \A j \in Bad : d <= j
    BY <1>6, <2>1, LeastNumber
  <2>3. d \in 0 .. h - 1 /\ \E i \in d + 1 .. N : f[i][at[h - d]] # at[h]
    BY <2>2
  <2>4. PICK i \in d + 1 .. N : f[i][at[h - d]] # at[h]
    BY <2>3
  <2>5. PICK m \in 1 .. n : m = h - d
    <3>1. h - d \in 1 .. n
      BY <1>3, <2>3
    <3> QED BY <3>1
  <2>6. i \in 0 .. N /\ i # 0
    BY <1>1, <2>3, <2>4
  <2>7. at[m] \in Cell /\ at[m] # b
    BY <1>3, <1>5, BucketFacts
  <2>8. /\ ky[at[m]] = k => f[i][at[m]] = at[m]
        /\ ky[at[m]] # k => f[i][at[m]] = f[i - 1][nx[at[m]]]
    BY <1>2, <2>6, <2>7 DEF Finds
  <2>9. f[i][at[m]] # at[h]
    BY <2>4, <2>5
  <2>10. ky[at[m]] # k /\ m # h
    BY <1>4, <2>8, <2>9
  <2>11. d # 0
    BY <1>3, <2>5, <2>10
  <2>12. PICK g \in 0 .. h - 1 : g = d - 1 /\ h - g = m + 1
    <3>1. d - 1 \in 0 .. h - 1 /\ h - (d - 1) = m + 1
      BY <1>3, <2>3, <2>5, <2>11
    <3> QED BY <3>1
  <2>13. m \in 0 .. n
    OBVIOUS
  <2>14. f[i - 1][at[h - g]] # at[h]
    <3>1. nx[at[m]] = at[m + 1]
      BY <1>3, <2>13
    <3>2. f[i - 1][nx[at[m]]] # at[h]
      BY <2>8, <2>9, <2>10
    <3> QED BY <2>12, <3>1, <3>2
  <2>15. i - 1 \in g + 1 .. N
    BY <1>1, <2>3, <2>4, <2>12
  <2>16. g \in Bad
    BY <2>14, <2>15
  <2>17. ~(d <= g)
    BY <2>3, <2>12
  <2> HIDE DEF Bad
  <2> QED BY <2>2, <2>16, <2>17
<1>7. f[N][at[1]] = at[h]
  <2>1. h - 1 \in 0 .. h - 1 /\ h - (h - 1) = 1 /\ N \in (h - 1) + 1 .. N
    BY <1>1, <1>3
  <2>2. h - 1 \notin Bad
    BY <1>6
  <2>3. \A i \in (h - 1) + 1 .. N : f[i][at[h - (h - 1)]] = at[h]
    BY <2>1, <2>2
  <2> QED BY <2>1, <2>3
<1>8. nx[b] = at[1]
  <2>1. 0 \in 0 .. n /\ 0 + 1 = 1
    BY <1>3
  <2> QED BY <1>3, <2>1
<1> QED
  BY <1>2, <1>7, <1>8

-----------------------------------------------------------------------------
(* s is the entry of a table with keys ky that holds k, Null when none     *)
(* does; the entry w in the writer's hands does not count.                 *)
Holder(ky, w, k, s) ==
  \/ s = Null /\ \A e \in Entry : e # w => ky[e] # k
  \/ s \in Entry /\ s # w /\ ky[s] = k /\ \A e \in Entry : e # w /\ ky[e] = k => e = s

Rings(nx, pv, ky, w) ==
  \A b \in Bucket : \E n, at : RingIs(nx, pv, ky, w, b, n, at)

(* hashmap_get finds the entry that holds the key. *)
LEMMA SearchIs ==
  ASSUME NEW nx, NEW pv, NEW ky, NEW w, Rings(nx, pv, ky, w), NEW k \in Key
  PROVE  Holder(ky, w, k, Search(nx, ky, k))
<1>1. PICK b \in Bucket : b = hashmap_bucket(k)
  BY BucketFacts
<1>2. \E n, at : RingIs(nx, pv, ky, w, b, n, at)
  BY Zenon DEF Rings
<1>3. PICK n, at : RingIs(nx, pv, ky, w, b, n, at)
  BY <1>2
<1>4. k # Null
  BY HashMapAssumption
<1>5. /\ \A i \in 1 .. n : at[i] \in Entry /\ at[i] # w
      /\ \A i, j \in 1 .. n : ky[at[i]] = ky[at[j]] => i = j
      /\ \A e \in Entry : e # w /\ ky[e] # Null /\ hashmap_bucket(ky[e]) = b =>
                            \E i \in 1 .. n : at[i] = e
  BY <1>3, Zenon DEF RingIs
<1>6. \A e \in Entry : e # w /\ ky[e] = k => \E i \in 1 .. n : at[i] = e
  BY <1>1, <1>4, <1>5
<1>7. CASE \A i \in 1 .. n : ky[at[i]] # k
  <2>1. Search(nx, ky, k) = Null
    BY <1>1, <1>3, <1>7, SearchMiss, Zenon
  <2> QED BY <1>6, <1>7, <2>1, Zenon DEF Holder
<1>8. CASE \E i \in 1 .. n : ky[at[i]] = k
  <2>1. PICK h \in 1 .. n : ky[at[h]] = k
    BY <1>8
  <2>2. Search(nx, ky, k) = at[h]
    BY <1>1, <1>3, <2>1, SearchHit
  <2>3. \A e \in Entry : e # w /\ ky[e] = k => e = at[h]
    BY <1>5, <1>6, <2>1, Zenon
  <2> QED BY <1>5, <2>1, <2>2, <2>3, ZenonT(40) DEF Holder
<1> QED
  BY <1>7, <1>8

LEMMA OneHolder ==
  ASSUME NEW ky, NEW w, NEW k, NEW s, NEW t, Holder(ky, w, k, s), Holder(ky, w, k, t)
  PROVE  s = t
BY HashMapAssumption DEF Holder

-----------------------------------------------------------------------------
(* A ring stays as it is when the links and keys of its cells do, and no   *)
(* entry comes into use in its bucket.                                     *)
Untouched(nx, pv, ky, w, nx2, pv2, ky2, w2, b, n, at) ==
  /\ \A i \in 0 .. n : nx2[at[i]] = nx[at[i]]
  /\ \A i \in 1 .. n + 1 : pv2[at[i]] = pv[at[i]]
  /\ \A i \in 1 .. n : ky2[at[i]] = ky[at[i]] /\ at[i] # w2
  /\ \A e \in Entry : e # w2 /\ ky2[e] # Null /\ hashmap_bucket(ky2[e]) = b =>
                          e # w /\ ky2[e] = ky[e]

LEMMA RingSame ==
  ASSUME NEW nx, NEW pv, NEW ky, NEW w, NEW nx2, NEW pv2, NEW ky2, NEW w2,
         NEW b, NEW n, NEW at, RingIs(nx, pv, ky, w, b, n, at),
         Untouched(nx, pv, ky, w, nx2, pv2, ky2, w2, b, n, at)
  PROVE  RingIs(nx2, pv2, ky2, w2, b, n, at)
<1>1. n \in Nat /\ at \in [0 .. n + 1 -> Cell] /\ at[0] = b /\ at[n + 1] = b
  BY DEF RingIs, Untouched
<1>2. \A i \in 1 .. n : at[i] \in Entry /\ at[i] # w2
                        /\ ky2[at[i]] \in Key /\ hashmap_bucket(ky2[at[i]]) = b
  BY DEF RingIs, Untouched
<1>3. ASSUME NEW i \in 0 .. n PROVE nx2[at[i]] = at[i + 1] /\ pv2[at[i + 1]] = at[i]
  <2>1. i + 1 \in 1 .. n + 1
    BY <1>1
  <2> QED BY <2>1 DEF RingIs, Untouched
<1>4. \A i, j \in 1 .. n : ky2[at[i]] = ky2[at[j]] => i = j
  BY Zenon DEF RingIs, Untouched
<1>5. \A e \in Entry : e # w2 /\ ky2[e] # Null /\ hashmap_bucket(ky2[e]) = b =>
                        \E i \in 1 .. n : at[i] = e
  BY Zenon DEF RingIs, Untouched
<1> QED
  BY <1>1, <1>2, <1>3, <1>4, <1>5, Zenon DEF RingIs

(* The cells of a ring are distinct, its head apart. *)
Apart(b, n, at) ==
  /\ \A i, j \in 0 .. n : at[i] = at[j] => i = j
  /\ \A i, j \in 1 .. n + 1 : at[i] = at[j] => i = j
  /\ \A i \in 1 .. n : at[i] \notin Bucket

LEMMA RingCells ==
  ASSUME NEW nx, NEW pv, NEW ky, NEW w, NEW b \in Bucket, NEW n, NEW at,
         RingIs(nx, pv, ky, w, b, n, at)
  PROVE  Apart(b, n, at)
<1>1. n \in Nat /\ at[0] = b /\ at[n + 1] = b /\ \A i \in 1 .. n : at[i] \in Entry
  BY DEF RingIs
<1>2. \A i \in 1 .. n : at[i] \notin Bucket
  BY <1>1, BucketFacts
<1>3. \A i, j \in 1 .. n : at[i] = at[j] => i = j
  BY Zenon DEF RingIs
<1>4. \A i \in 0 .. n : i = 0 \/ i \in 1 .. n
  BY <1>1
<1>5. \A i \in 1 .. n + 1 : i = n + 1 \/ i \in 1 .. n
  BY <1>1
<1>6. \A i, j \in 0 .. n : at[i] = at[j] => i = j
  BY <1>1, <1>2, <1>3, <1>4, ZenonT(40)
<1>7. \A i, j \in 1 .. n + 1 : at[i] = at[j] => i = j
  BY <1>1, <1>2, <1>3, <1>5, ZenonT(40)
<1> QED
  BY <1>2, <1>6, <1>7, Zenon DEF Apart

-----------------------------------------------------------------------------
(* nx2 is nx after the store of v into the link of x. *)
Store(nx, x, v, nx2) == nx \in [Cell -> Cell \cup {Null}] /\ nx2 = [nx EXCEPT ![x] = v]

(* e is ready to be linked behind the head of bucket b. *)
Ready(nx, pv, ky, e, b) ==
  /\ nx[e] = nx[b] /\ pv[e] = b /\ ky[e] \in Key /\ hashmap_bucket(ky[e]) = b
  /\ \A d \in Entry : d # e => ky[d] # ky[e]

(* The last two stores of list_add_next put e behind the head of its       *)
(* ring.                                                                   *)
Pushed(b, e, n, at) ==
  [i \in 0 .. n + 2 |-> IF i = 0 THEN b ELSE IF i = 1 THEN e ELSE at[i - 1]]

LEMMA RingInsert ==
  ASSUME NEW nx, NEW pv, NEW ky, NEW e \in Entry, NEW b \in Bucket, NEW n, NEW at,
         RingIs(nx, pv, ky, e, b, n, at),
         Ready(nx, pv, ky, e, b),
         NEW nx2, Store(nx, b, e, nx2), NEW pv2, Store(pv, nx[b], e, pv2)
  PROVE  RingIs(nx2, pv2, ky, Null, b, n + 1, Pushed(b, e, n, at))
<1>h. /\ nx \in [Cell -> Cell \cup {Null}] /\ pv \in [Cell -> Cell \cup {Null}]
      /\ nx2 = [nx EXCEPT ![b] = e] /\ pv2 = [pv EXCEPT ![nx[b]] = e]
      /\ nx[e] = nx[b] /\ pv[e] = b /\ ky[e] \in Key /\ hashmap_bucket(ky[e]) = b
      /\ \A d \in Entry : d # e => ky[d] # ky[e]
  BY DEF Store, Ready
<1> USE <1>h
<1>a. PICK at2 : at2 = [i \in 0 .. n + 2 |->
                          IF i = 0 THEN b ELSE IF i = 1 THEN e ELSE at[i - 1]]
  OBVIOUS
<1> USE <1>a
<1>1. /\ n \in Nat /\ at \in [0 .. n + 1 -> Cell] /\ at[0] = b /\ at[n + 1] = b
      /\ \A i \in 1 .. n : at[i] \in Entry /\ at[i] # e
                           /\ ky[at[i]] \in Key /\ hashmap_bucket(ky[at[i]]) = b
      /\ \A i \in 0 .. n : nx[at[i]] = at[i + 1] /\ pv[at[i + 1]] = at[i]
  BY DEF RingIs
<1>2. /\ \A i, j \in 0 .. n : at[i] = at[j] => i = j
      /\ \A i, j \in 1 .. n + 1 : at[i] = at[j] => i = j
  <2>1. Apart(b, n, at)
    BY RingCells, Zenon
  <2> QED BY <2>1, Zenon DEF Apart
<1>3. e \in Cell /\ e \notin Bucket /\ b \in Cell /\ Null \notin Entry
  BY BucketFacts, HashMapAssumption
<1>4. PICK m \in Nat : m = n + 1
  BY <1>1
<1>5. at2 \in [0 .. m + 1 -> Cell] /\ at2[0] = b /\ at2[m + 1] = b
  <2>1. n + 2 = m + 1 /\ m + 1 - 1 = n + 1 /\ m + 1 # 1 /\ m + 1 # 0 /\ m + 1 \in 0 .. n + 2
    BY <1>1, <1>4
  <2>2. \A i \in 0 .. n + 2 : i # 0 => i - 1 \in 0 .. n + 1
    BY <1>1
  <2> QED BY <1>1, <1>3, <2>1, <2>2
<1>6. /\ at2[1] = e
      /\ \A i \in 2 .. m : at2[i] = at[i - 1] /\ i - 1 \in 1 .. n
  BY <1>1, <1>4
<1>7. ASSUME NEW i \in 1 .. m
      PROVE  at2[i] \in Entry /\ at2[i] # Null
             /\ ky[at2[i]] \in Key /\ hashmap_bucket(ky[at2[i]]) = b
  <2>1. i = 1 \/ i \in 2 .. m
    BY <1>4
  <2> QED BY <1>1, <1>3, <1>6, <2>1
<1>8. nx[b] = at[1]
  <2>1. 0 \in 0 .. n /\ 0 + 1 = 1
    BY <1>1
  <2> QED BY <1>1, <2>1
<1>9. nx2[at2[0]] = at2[0 + 1] /\ pv2[at2[0 + 1]] = at2[0]
  <2>1. e # at[1]
    <3>1. 1 = n + 1 \/ 1 \in 1 .. n
      BY <1>1
    <3> QED BY <1>1, <1>3, <3>1
  <2>2. 0 + 1 = 1
    OBVIOUS
  <2> QED BY <1>3, <1>5, <1>6, <1>8, <2>1, <2>2
<1>10. nx2[at2[1]] = at2[1 + 1] /\ pv2[at2[1 + 1]] = at2[1]
  <2>1. 1 + 1 \in 0 .. n + 2 /\ at2[1 + 1] = at[1]
    BY <1>1
  <2>2. at[1] \in Cell
    BY <1>1
  <2>3. nx2[e] = nx[e]
    BY <1>3
  <2> QED BY <1>3, <1>6, <1>8, <2>1, <2>2, <2>3
<1>11. ASSUME NEW i \in 2 .. m
       PROVE  nx2[at2[i]] = at2[i + 1] /\ pv2[at2[i + 1]] = at2[i]
  <2>1. PICK j \in 1 .. n : j = i - 1 /\ at2[i] = at[j]
    BY <1>6
  <2>2. at2[i + 1] = at[j + 1]
    <3>1. i + 1 \in 0 .. n + 2 /\ i + 1 # 0 /\ i + 1 # 1 /\ (i + 1) - 1 = j + 1
      BY <1>1, <1>4, <2>1
    <3> QED BY <3>1
  <2>3. nx[at[j]] = at[j + 1] /\ pv[at[j + 1]] = at[j]
    <3>1. j \in 0 .. n
      OBVIOUS
    <3> QED BY <1>1, <3>1
  <2>4. at[j] # b /\ at[j] \in Cell
    <3>1. 0 \in 0 .. n /\ j \in 0 .. n /\ j # 0 /\ j \in 0 .. n + 1
      BY <1>1
    <3> QED BY <1>1, <1>2, <3>1
  <2>5. at[j + 1] # at[1] /\ at[j + 1] \in Cell
    <3>1. 1 \in 1 .. n + 1 /\ j + 1 \in 1 .. n + 1 /\ j + 1 # 1 /\ j + 1 \in 0 .. n + 1
      BY <1>1
    <3> QED BY <1>1, <1>2, <3>1
  <2> QED BY <1>8, <2>1, <2>2, <2>3, <2>4, <2>5
<1>12. ASSUME NEW i \in 0 .. m PROVE nx2[at2[i]] = at2[i + 1] /\ pv2[at2[i + 1]] = at2[i]
  <2>1. i = 0 \/ i = 1 \/ i \in 2 .. m
    BY <1>4
  <2> QED BY <1>9, <1>10, <1>11, <2>1
<1>13. ASSUME NEW i \in 1 .. m, NEW j \in 1 .. m, ky[at2[i]] = ky[at2[j]] PROVE i = j
  <2>1. (i = 1 \/ i \in 2 .. m) /\ (j = 1 \/ j \in 2 .. m)
    BY <1>4
  <2>2. CASE i = 1 /\ j \in 2 .. m
    <3>1. at2[j] \in Entry /\ at2[j] # e
      <4>1. PICK x \in 1 .. n : at2[j] = at[x]
        BY <1>6, <2>2
      <4> QED BY <1>1, <4>1
    <3> QED BY <1>6, <1>13, <2>2, <3>1
  <2>3. CASE j = 1 /\ i \in 2 .. m
    <3>1. at2[i] \in Entry /\ at2[i] # e
      <4>1. PICK x \in 1 .. n : at2[i] = at[x]
        BY <1>6, <2>3
      <4> QED BY <1>1, <4>1
    <3> QED BY <1>6, <1>13, <2>3, <3>1
  <2>4. CASE i \in 2 .. m /\ j \in 2 .. m
    <3>1. \A x, y \in 1 .. n : ky[at[x]] = ky[at[y]] => x = y
      BY Zenon DEF RingIs
    <3>2. PICK x \in 1 .. n : x = i - 1 /\ at2[i] = at[x]
      BY <1>6, <2>4
    <3>3. PICK y \in 1 .. n : y = j - 1 /\ at2[j] = at[y]
      BY <1>6, <2>4
    <3>4. x = y
      BY <1>13, <3>1, <3>2, <3>3, ZenonT(40)
    <3> QED BY <2>4, <3>2, <3>3, <3>4
  <2> QED BY <2>1, <2>2, <2>3, <2>4
<1>14. ASSUME NEW d \in Entry, ky[d] # Null, hashmap_bucket(ky[d]) = b
       PROVE  \E i \in 1 .. m : at2[i] = d
  <2>1. CASE d = e
    <3>1. 1 \in 1 .. m
      BY <1>1, <1>4
    <3> QED BY <1>6, <2>1, <3>1
  <2>2. CASE d # e
    <3>1. \E i \in 1 .. n : at[i] = d
      BY <1>14, <2>2, Zenon DEF RingIs
    <3>2. PICK i \in 1 .. n : at[i] = d
      BY <3>1
    <3>3. i + 1 \in 2 .. m /\ (i + 1) - 1 = i /\ i + 1 \in 1 .. m
      BY <1>1, <1>4
    <3> QED BY <1>6, <3>2, <3>3
  <2> QED BY <2>1, <2>2
<1>15. RingIs(nx2, pv2, ky, Null, b, m, at2)
  BY <1>4, <1>5, <1>7, <1>12, <1>13, <1>14, Zenon DEF RingIs
<1> QED
  BY <1>4, <1>15, Zenon DEF Pushed

(* list_remove takes the entry at h out of its ring. *)
Dropped(h, n, at) == [i \in 0 .. n |-> IF i < h THEN at[i] ELSE at[i + 1]]

LEMMA RingRemove ==
  ASSUME NEW nx, NEW pv, NEW ky, NEW b \in Bucket, NEW n, NEW at,
         RingIs(nx, pv, ky, Null, b, n, at),
         NEW h \in 1 .. n, NEW e, e = at[h],
         NEW nx2, Store(nx, pv[e], nx[e], nx2), NEW pv2, Store(pv, nx[e], pv[e], pv2)
  PROVE  RingIs(nx2, pv2, ky, e, b, n - 1, Dropped(h, n, at))
<1>h. /\ nx \in [Cell -> Cell \cup {Null}] /\ pv \in [Cell -> Cell \cup {Null}]
      /\ nx2 = [nx EXCEPT ![pv[e]] = nx[e]] /\ pv2 = [pv EXCEPT ![nx[e]] = pv[e]]
  BY DEF Store
<1> USE <1>h
<1>a. PICK at2 : at2 = [i \in 0 .. n |-> IF i < h THEN at[i] ELSE at[i + 1]]
  OBVIOUS
<1> USE <1>a
<1>1. /\ n \in Nat /\ at \in [0 .. n + 1 -> Cell] /\ at[0] = b /\ at[n + 1] = b
      /\ \A i \in 1 .. n : at[i] \in Entry
                           /\ ky[at[i]] \in Key /\ hashmap_bucket(ky[at[i]]) = b
      /\ \A i \in 0 .. n : nx[at[i]] = at[i + 1] /\ pv[at[i + 1]] = at[i]
  BY DEF RingIs
<1>2. /\ \A i, j \in 0 .. n : at[i] = at[j] => i = j
      /\ \A i, j \in 1 .. n + 1 : at[i] = at[j] => i = j
  <2>1. Apart(b, n, at)
    BY RingCells, Zenon
  <2> QED BY <2>1, Zenon DEF Apart
<1>3. PICK m \in Nat : m = n - 1
  <2>1. n - 1 \in Nat
    BY <1>1
  <2> QED BY <2>1
<1>4. PICK g \in 0 .. n : g = h - 1
  <2>1. h - 1 \in 0 .. n
    BY <1>1
  <2> QED BY <2>1
<1>5. nx[e] = at[h + 1] /\ pv[e] = at[g]
  <2>1. h \in 0 .. n /\ g + 1 = h
    BY <1>1, <1>4
  <2> QED BY <1>1, <2>1
<1>6. at2 \in [0 .. m + 1 -> Cell] /\ at2[0] = b /\ at2[m + 1] = b
  <2>1. m + 1 = n /\ 0 \in 0 .. n /\ 0 < h /\ n \in 0 .. n /\ ~(n < h)
    BY <1>1, <1>3
  <2>2. \A i \in 0 .. n : i \in 0 .. n + 1 /\ i + 1 \in 0 .. n + 1
    BY <1>1
  <2> QED BY <1>1, <2>1, <2>2
<1>7. ASSUME NEW i \in 0 .. n
      PROVE  /\ i < h => at2[i] = at[i]
             /\ i >= h => at2[i] = at[i + 1]
  BY <1>1
<1>8. ASSUME NEW i \in 1 .. m
      PROVE  \E x \in 1 .. n : at2[i] = at[x] /\ x = IF i < h THEN i ELSE i + 1
  <2>1. i \in 0 .. n /\ i \in 1 .. n /\ i + 1 \in 1 .. n /\ (i < h \/ i >= h)
    BY <1>1, <1>3
  <2> QED BY <1>7, <2>1
<1>9. ASSUME NEW i \in 1 .. m
      PROVE  at2[i] \in Entry /\ at2[i] # e
             /\ ky[at2[i]] \in Key /\ hashmap_bucket(ky[at2[i]]) = b
  <2>1. PICK x \in 1 .. n : at2[i] = at[x] /\ x = IF i < h THEN i ELSE i + 1
    BY <1>8
  <2>2. x # h /\ x \in 0 .. n /\ h \in 0 .. n
    BY <1>1, <2>1
  <2>3. at[x] # e
    BY <1>2, <2>2
  <2> QED BY <1>1, <2>1, <2>3
<1>10. ASSUME NEW x \in 0 .. n, x # g, x # h
       PROVE  nx2[at[x]] = at[x + 1] /\ pv2[at[x + 1]] = at[x]
  <2>1. at[x] # at[g]
    BY <1>2, <1>4, <1>10
  <2>2. at[x + 1] # at[h + 1]
    <3>1. x + 1 \in 1 .. n + 1 /\ h + 1 \in 1 .. n + 1 /\ x + 1 # h + 1
      BY <1>1, <1>10
    <3> QED BY <1>2, <3>1
  <2>3. at[x] \in Cell /\ at[x + 1] \in Cell
    <3>1. x \in 0 .. n + 1 /\ x + 1 \in 0 .. n + 1
      BY <1>1
    <3> QED BY <1>1, <3>1
  <2>4. nx[at[x]] = at[x + 1] /\ pv[at[x + 1]] = at[x]
    BY <1>1
  <2> QED BY <1>5, <2>1, <2>2, <2>3, <2>4
<1>11. nx2[at[g]] = at[h + 1] /\ pv2[at[h + 1]] = at[g]
  <2>1. at[g] \in Cell /\ at[h + 1] \in Cell
    <3>1. g \in 0 .. n + 1 /\ h + 1 \in 0 .. n + 1
      BY <1>1
    <3> QED BY <1>1, <3>1
  <2> QED BY <1>5, <2>1
<1>12. ASSUME NEW i \in 0 .. m PROVE nx2[at2[i]] = at2[i + 1] /\ pv2[at2[i + 1]] = at2[i]
  <2>1. i \in 0 .. n /\ i + 1 \in 0 .. n
    BY <1>1, <1>3
  <2>2. CASE i < g
    <3>1. at2[i] = at[i] /\ at2[i + 1] = at[i + 1] /\ i # g /\ i # h
      BY <1>4, <1>7, <2>1, <2>2
    <3> QED BY <1>10, <2>1, <3>1
  <2>3. CASE i = g
    <3>1. at2[i] = at[g] /\ at2[i + 1] = at[h + 1]
      <4>1. i < h /\ i + 1 = h /\ i + 1 >= h /\ (i + 1) + 1 = h + 1
        BY <1>1, <1>4, <2>3
      <4> QED BY <1>7, <2>1, <2>3, <4>1
    <3> QED BY <1>11, <3>1
  <2>4. CASE i > g
    <3>1. PICK x \in 0 .. n : x = i + 1
      BY <2>1
    <3>2. at2[i] = at[x] /\ at2[i + 1] = at[x + 1] /\ x # g /\ x # h
      BY <1>4, <1>7, <2>1, <2>4, <3>1
    <3> QED BY <1>10, <3>2
  <2> QED BY <1>4, <2>1, <2>2, <2>3, <2>4
<1>13. ASSUME NEW i \in 1 .. m, NEW j \in 1 .. m, ky[at2[i]] = ky[at2[j]] PROVE i = j
  <2>1. \A x, y \in 1 .. n : ky[at[x]] = ky[at[y]] => x = y
    BY Zenon DEF RingIs
  <2>2. PICK x \in 1 .. n : at2[i] = at[x] /\ x = IF i < h THEN i ELSE i + 1
    BY <1>8
  <2>3. PICK y \in 1 .. n : at2[j] = at[y] /\ y = IF j < h THEN j ELSE j + 1
    BY <1>8
  <2>4. ky[at[x]] = ky[at[y]]
    BY <1>13, <2>2, <2>3
  <2>5. x = y
    BY <2>1, <2>4, Zenon
  <2> QED BY <1>1, <1>3, <2>2, <2>3, <2>5
<1>14. ASSUME NEW d \in Entry, d # e, ky[d] # Null, hashmap_bucket(ky[d]) = b
       PROVE  \E i \in 1 .. m : at2[i] = d
  <2>1. d # Null
    BY HashMapAssumption
  <2>2. \E x \in 1 .. n : at[x] = d
    BY <1>14, <2>1 DEF RingIs
  <2>3. PICK x \in 1 .. n : at[x] = d
    BY <2>2
  <2>4. x # h
    BY <1>14, <2>3
  <2>5. CASE x < h
    <3>1. x \in 0 .. n /\ x \in 1 .. m
      BY <1>1, <1>3, <2>5
    <3> QED BY <1>7, <2>3, <2>5, <3>1
  <2>6. CASE x > h
    <3>1. x - 1 \in 0 .. n /\ x - 1 \in 1 .. m /\ x - 1 >= h /\ (x - 1) + 1 = x
      BY <1>1, <1>3, <2>6
    <3>2. at2[x - 1] = at[(x - 1) + 1]
      BY <1>7, <3>1
    <3>3. at2[x - 1] = d
      BY <2>3, <3>1, <3>2
    <3> QED BY <3>1, <3>3
  <2>7. x < h \/ x > h
    BY <1>1, <2>4
  <2> QED BY <2>5, <2>6, <2>7, Zenon
<1>15. RingIs(nx2, pv2, ky, e, b, m, at2)
  BY <1>3, <1>6, <1>9, <1>12, <1>13, <1>14, Zenon DEF RingIs
<1> QED
  BY <1>3, <1>15, Zenon DEF Dropped

(* A table whose entries are all free has empty rings. *)
LEMMA RingsEmpty ==
  ASSUME NEW ky, NEW w, \A e \in Entry : ky[e] = Null
  PROVE  Rings(EmptyRing, EmptyRing, ky, w)
<1>1. SUFFICES ASSUME NEW b \in Bucket PROVE \E n, at : RingIs(EmptyRing, EmptyRing, ky, w, b, n, at)
  BY Zenon DEF Rings
<1>2. PICK at : at = [i \in 0 .. 0 + 1 |-> b]
  OBVIOUS
<1>3. b \in Cell
  BY BucketFacts
<1>4. at \in [0 .. 0 + 1 -> Cell] /\ at[0] = b /\ at[0 + 1] = b
  BY <1>2, <1>3
<1>5. \A i \in 0 .. 0 : EmptyRing[at[i]] = at[i + 1] /\ EmptyRing[at[i + 1]] = at[i]
  BY <1>3, <1>4 DEF EmptyRing
<1>6. 1 .. 0 = {}
  OBVIOUS
<1>7. RingIs(EmptyRing, EmptyRing, ky, w, b, 0, at)
  BY <1>4, <1>5, <1>6 DEF RingIs
<1> QED
  BY <1>7

-----------------------------------------------------------------------------
(* f and g agree but for what they give x. *)
AgreeBut(f, g, S, x) == \A c \in S : c # x => f[c] = g[c]

(* No ring changes when an entry that is on none is filled in or freed. *)
LEMMA RingOff ==
  ASSUME NEW nx, NEW pv, NEW ky, NEW w, NEW nx2, NEW pv2, NEW ky2, NEW w2,
         NEW e \in Entry, NEW b \in Bucket, NEW n, NEW at, RingIs(nx, pv, ky, w, b, n, at),
         AgreeBut(nx2, nx, Cell, e), AgreeBut(pv2, pv, Cell, e), AgreeBut(ky2, ky, Entry, e),
         w = e \/ (w = Null /\ ky[e] = Null),
         w2 = e \/ (w2 = Null /\ ky2[e] = Null)
  PROVE  RingIs(nx2, pv2, ky2, w2, b, n, at)
<1>1. /\ n \in Nat /\ at \in [0 .. n + 1 -> Cell] /\ at[0] = b /\ at[n + 1] = b
      /\ \A i \in 1 .. n : at[i] \in Entry /\ at[i] # w /\ ky[at[i]] \in Key
  BY DEF RingIs
<1>2. \A i \in 1 .. n : at[i] # e
  BY <1>1, HashMapAssumption
<1>3. b # e /\ Null \notin Entry
  BY BucketFacts, HashMapAssumption
<1>4. \A i \in 0 .. n + 1 : at[i] # e /\ at[i] \in Cell
  <2>1. \A i \in 0 .. n + 1 : i = 0 \/ i = n + 1 \/ i \in 1 .. n
    BY <1>1
  <2> QED BY <1>1, <1>2, <1>3, <2>1
<1>5. (\A i \in 0 .. n : i \in 0 .. n + 1) /\ (\A i \in 1 .. n + 1 : i \in 0 .. n + 1)
  BY <1>1
<1>6. \A i \in 0 .. n : nx2[at[i]] = nx[at[i]]
  BY <1>4, <1>5 DEF AgreeBut
<1>7. \A i \in 1 .. n + 1 : pv2[at[i]] = pv[at[i]]
  BY <1>4, <1>5 DEF AgreeBut
<1>8. \A i \in 1 .. n : ky2[at[i]] = ky[at[i]] /\ at[i] # w2
  BY <1>1, <1>2, <1>3 DEF AgreeBut
<1>9. \A d \in Entry : d # w2 /\ ky2[d] # Null /\ hashmap_bucket(ky2[d]) = b =>
                         d # w /\ ky2[d] = ky[d]
  BY <1>3 DEF AgreeBut
<1> QED
  <2>1. Untouched(nx, pv, ky, w, nx2, pv2, ky2, w2, b, n, at)
    BY <1>6, <1>7, <1>8, <1>9, Zenon DEF Untouched
  <2> QED BY <2>1, RingSame, Zenon

(* x is a cell of bucket b. *)
Of(ky, b, x) == x = b \/ (x \in Entry /\ ky[x] \in Key /\ hashmap_bucket(ky[x]) = b)

(* The writer has e in its hands, or nothing. *)
Holds(w, e) == w = e \/ w = Null

(* No ring changes when the links of another ring do. *)
LEMMA RingOther ==
  ASSUME NEW nx, NEW pv, NEW ky, NEW w, NEW nx2, NEW pv2, NEW w2,
         NEW b \in Bucket, NEW x, NEW y, NEW e, Of(ky, b, x), Of(ky, b, y),
         e \in Entry, Of(ky, b, e),
         NEW c \in Bucket, c # b, NEW n, NEW at, RingIs(nx, pv, ky, w, c, n, at),
         AgreeBut(nx2, nx, Cell, x), AgreeBut(pv2, pv, Cell, y),
         Holds(w, e), Holds(w2, e)
  PROVE  RingIs(nx2, pv2, ky, w2, c, n, at)
<1>h. (w = e \/ w = Null) /\ (w2 = e \/ w2 = Null)
  BY DEF Holds
<1>1. /\ n \in Nat /\ at \in [0 .. n + 1 -> Cell] /\ at[0] = c /\ at[n + 1] = c
      /\ \A i \in 1 .. n : at[i] \in Entry /\ hashmap_bucket(ky[at[i]]) = c
  BY DEF RingIs
<1>2. c \notin Entry /\ b \notin Entry /\ Null \notin Entry
  BY BucketFacts, HashMapAssumption
<1>3. \A i \in 0 .. n + 1 : ~Of(ky, b, at[i]) /\ at[i] \in Cell
  <2>1. \A i \in 0 .. n + 1 : i = 0 \/ i = n + 1 \/ i \in 1 .. n
    BY <1>1
  <2>2. ~Of(ky, b, c)
    BY <1>2 DEF Of
  <2>3. \A i \in 1 .. n : ~Of(ky, b, at[i])
    BY <1>1, <1>2 DEF Of
  <2> QED BY <1>1, <2>1, <2>2, <2>3
<1>4. (\A i \in 0 .. n : i \in 0 .. n + 1) /\ (\A i \in 1 .. n + 1 : i \in 0 .. n + 1)
  BY <1>1
<1>5. \A i \in 0 .. n : nx2[at[i]] = nx[at[i]]
  BY <1>3, <1>4, Zenon DEF AgreeBut
<1>6. \A i \in 1 .. n + 1 : pv2[at[i]] = pv[at[i]]
  BY <1>3, <1>4, Zenon DEF AgreeBut
<1>7. \A i \in 1 .. n : ky[at[i]] = ky[at[i]] /\ at[i] # w2
  <2>1. \A i \in 1 .. n : i \in 0 .. n + 1
    BY <1>1
  <2> QED BY <1>h, <1>1, <1>2, <1>3, <2>1
<1>8. \A d \in Entry : d # w2 /\ ky[d] # Null /\ hashmap_bucket(ky[d]) = c =>
                         d # w /\ ky[d] = ky[d]
  BY <1>h, <1>2 DEF Of
<1> QED
  <2>1. Untouched(nx, pv, ky, w, nx2, pv2, ky, w2, c, n, at)
    BY <1>5, <1>6, <1>7, <1>8, Zenon DEF Untouched
  <2> QED BY <2>1, RingSame, Zenon

-----------------------------------------------------------------------------
(* The writer fills in or frees an entry: PutEntry and RemoveFree. *)
LEMMA RingsOff ==
  ASSUME NEW nx, NEW pv, NEW ky, NEW w, NEW nx2, NEW pv2, NEW ky2, NEW w2,
         NEW e \in Entry, Rings(nx, pv, ky, w),
         AgreeBut(nx2, nx, Cell, e), AgreeBut(pv2, pv, Cell, e), AgreeBut(ky2, ky, Entry, e),
         w = e \/ (w = Null /\ ky[e] = Null),
         w2 = e \/ (w2 = Null /\ ky2[e] = Null)
  PROVE  Rings(nx2, pv2, ky2, w2)
<1>1. SUFFICES ASSUME NEW b \in Bucket PROVE \E n, at : RingIs(nx2, pv2, ky2, w2, b, n, at)
  BY Zenon DEF Rings
<1>2. PICK n, at : RingIs(nx, pv, ky, w, b, n, at)
  BY Zenon DEF Rings
<1>3. RingIs(nx2, pv2, ky2, w2, b, n, at)
  BY <1>2, RingOff, Zenon
<1> QED
  BY <1>3, Zenon

(* The writer puts the entry it holds on its ring: PutLink. *)
LEMMA RingsInsert ==
  ASSUME NEW nx, NEW pv, NEW ky, NEW e \in Entry, NEW b \in Bucket,
         Rings(nx, pv, ky, e), Ready(nx, pv, ky, e, b),
         NEW nx2, Store(nx, b, e, nx2), NEW pv2, Store(pv, nx[b], e, pv2)
  PROVE  /\ Rings(nx2, pv2, ky, Null)
         /\ Of(ky, b, nx[b]) /\ Of(ky, b, e)
         /\ AgreeBut(nx2, nx, Cell, b) /\ AgreeBut(pv2, pv, Cell, nx[b])
<1>1. PICK n, at : RingIs(nx, pv, ky, e, b, n, at)
  BY Zenon DEF Rings
<1>2. PICK m, as : m = n + 1 /\ as = Pushed(b, e, n, at)
  OBVIOUS
<1>3. RingIs(nx2, pv2, ky, Null, b, m, as)
  BY <1>1, <1>2, RingInsert, Zenon
<1>4. PICK y : y = nx[b]
  OBVIOUS
<1>5. Of(ky, b, y)
  <2>1. /\ n \in Nat /\ at[0] = b /\ at[n + 1] = b
        /\ \A i \in 1 .. n : at[i] \in Entry /\ ky[at[i]] \in Key
                             /\ hashmap_bucket(ky[at[i]]) = b
        /\ \A i \in 0 .. n : nx[at[i]] = at[i + 1]
    BY <1>1 DEF RingIs
  <2>2. 0 \in 0 .. n /\ 0 + 1 = 1 /\ (1 = n + 1 \/ 1 \in 1 .. n)
    BY <2>1
  <2>3. y = at[1]
    BY <1>4, <2>1, <2>2
  <2> QED BY <2>1, <2>2, <2>3 DEF Of
<1>6. Of(ky, b, e) /\ Of(ky, b, b) /\ Holds(e, e) /\ Holds(Null, e)
  BY DEF Of, Ready, Holds
<1>7. AgreeBut(nx2, nx, Cell, b) /\ AgreeBut(pv2, pv, Cell, y)
  BY <1>4 DEF AgreeBut, Store
<1>8. ASSUME NEW c \in Bucket PROVE \E p, ap : RingIs(nx2, pv2, ky, Null, c, p, ap)
  <2>1. CASE c = b
    BY <1>3, <2>1, Zenon
  <2>2. CASE c # b
    <3>1. PICK p, ap : RingIs(nx, pv, ky, e, c, p, ap)
      BY Zenon DEF Rings
    <3>2. RingIs(nx2, pv2, ky, Null, c, p, ap)
      BY <1>5, <1>6, <1>7, <2>2, <3>1, RingOther, Zenon
    <3> QED BY <3>2, Zenon
  <2> QED BY <2>1, <2>2
<1> QED
  BY <1>4, <1>5, <1>6, <1>7, <1>8, Zenon DEF Rings

(* The writer takes an entry off its ring: RemoveUnlink. *)
LEMMA RingsRemove ==
  ASSUME NEW nx, NEW pv, NEW ky, NEW e \in Entry, Rings(nx, pv, ky, Null),
         ky[e] \in Key,
         NEW nx2, Store(nx, pv[e], nx[e], nx2), NEW pv2, Store(pv, nx[e], pv[e], pv2)
  PROVE  Rings(nx2, pv2, ky, e) /\ pv[e] \in Cell /\ nx[e] \in Cell
<1>1. PICK b \in Bucket : b = hashmap_bucket(ky[e])
  BY BucketFacts
<1>2. PICK n, at : RingIs(nx, pv, ky, Null, b, n, at)
  BY Zenon DEF Rings
<1>3. /\ n \in Nat /\ at \in [0 .. n + 1 -> Cell] /\ at[0] = b /\ at[n + 1] = b
      /\ \A i \in 1 .. n : at[i] \in Entry /\ ky[at[i]] \in Key
                           /\ hashmap_bucket(ky[at[i]]) = b
      /\ \A i \in 0 .. n : nx[at[i]] = at[i + 1] /\ pv[at[i + 1]] = at[i]
  BY <1>2 DEF RingIs
<1>4. \E i \in 1 .. n : at[i] = e
  <2>1. e # Null /\ ky[e] # Null
    BY HashMapAssumption
  <2> QED BY <1>1, <1>2, <2>1 DEF RingIs
<1>5. PICK h \in 1 .. n : at[h] = e
  BY <1>4
<1>6. PICK m, as : m = n - 1 /\ as = Dropped(h, n, at)
  OBVIOUS
<1>7. RingIs(nx2, pv2, ky, e, b, m, as)
  BY <1>2, <1>5, <1>6, RingRemove, Zenon
<1>8. ASSUME NEW i \in 0 .. n + 1 PROVE Of(ky, b, at[i]) /\ at[i] \in Cell
  <2>1. i = 0 \/ i = n + 1 \/ i \in 1 .. n
    BY <1>3
  <2> QED BY <1>3, <2>1 DEF Of
<1>9. PICK x, y : x = pv[e] /\ y = nx[e]
  OBVIOUS
<1>10. /\ Of(ky, b, x) /\ Of(ky, b, y) /\ Of(ky, b, e) /\ x \in Cell /\ y \in Cell
  <2>1. PICK g \in 0 .. n : g + 1 = h
    <3>1. h - 1 \in 0 .. n /\ (h - 1) + 1 = h
      BY <1>3
    <3> QED BY <3>1
  <2>2. x = at[g]
    BY <1>3, <1>5, <1>9, <2>1
  <2>3. h \in 0 .. n
    BY <1>3
  <2>4. y = at[h + 1]
    BY <1>3, <1>5, <1>9, <2>3
  <2>5. g \in 0 .. n + 1 /\ h + 1 \in 0 .. n + 1 /\ h \in 0 .. n + 1
    BY <1>3
  <2> QED BY <1>5, <1>8, <2>2, <2>4, <2>5
<1>11. /\ AgreeBut(nx2, nx, Cell, x) /\ AgreeBut(pv2, pv, Cell, y)
       /\ Holds(e, e) /\ Holds(Null, e)
  BY <1>9 DEF AgreeBut, Store, Holds
<1>12. ASSUME NEW c \in Bucket PROVE \E p, ap : RingIs(nx2, pv2, ky, e, c, p, ap)
  <2>1. CASE c = b
    BY <1>7, <2>1, Zenon
  <2>2. CASE c # b
    <3>1. PICK p, ap : RingIs(nx, pv, ky, Null, c, p, ap)
      BY Zenon DEF Rings
    <3>2. RingIs(nx2, pv2, ky, e, c, p, ap)
      BY <1>10, <1>11, <2>2, <3>1, RingOther, Zenon
    <3> QED BY <3>2, Zenon
  <2> QED BY <2>1, <2>2
<1> QED
  BY <1>9, <1>10, <1>12, Zenon DEF Rings

-----------------------------------------------------------------------------
(* A reader at cell p, looking for k in bucket b, with s the values it may *)
(* return: it stands on the ring past the head, and the key, unless it was *)
(* unbound for a moment, is not behind it.                                 *)
Stands(ky, n, at, p, k, s) ==
  \E i \in 1 .. n + 1 : p = at[i] /\ (Null \in s \/ \E j \in i .. n : ky[at[j]] = k)

Ahead(nx, pv, ky, w, b, p, k, s) ==
  \E n, at : RingIs(nx, pv, ky, w, b, n, at) /\ Stands(ky, n, at, p, k, s)

LEMMA WalkBegins ==
  ASSUME NEW nx, NEW pv, NEW ky, NEW w, Rings(nx, pv, ky, w), NEW k \in Key,
         NEW b \in Bucket, b = hashmap_bucket(k), NEW s,
         Null \in s \/ \E e \in Entry : e # w /\ ky[e] = k
  PROVE  Ahead(nx, pv, ky, w, b, nx[b], k, s)
<1>1. PICK n, at : RingIs(nx, pv, ky, w, b, n, at)
  BY Zenon DEF Rings
<1>2. /\ n \in Nat /\ at[0] = b
      /\ \A i \in 0 .. n : nx[at[i]] = at[i + 1]
      /\ \A e \in Entry : e # w /\ ky[e] # Null /\ hashmap_bucket(ky[e]) = b =>
                            \E i \in 1 .. n : at[i] = e
  BY <1>1 DEF RingIs
<1>3. 1 \in 1 .. n + 1 /\ 0 \in 0 .. n /\ 0 + 1 = 1
  BY <1>2
<1>4. nx[b] = at[1]
  BY <1>2, <1>3
<1>5. k # Null
  BY HashMapAssumption
<1>6. Null \in s \/ \E j \in 1 .. n : ky[at[j]] = k
  <2>1. CASE Null \in s
    BY <2>1
  <2>2. CASE \E e \in Entry : e # w /\ ky[e] = k
    <3>1. PICK e \in Entry : e # w /\ ky[e] = k
      BY <2>2
    <3>2. \E i \in 1 .. n : at[i] = e
      BY <1>2, <1>5, <3>1
    <3> QED BY <3>1, <3>2
  <2> QED BY <2>1, <2>2
<1>7. Stands(ky, n, at, nx[b], k, s)
  BY <1>3, <1>4, <1>6, Zenon DEF Stands
<1> QED
  BY <1>1, <1>7, Zenon DEF Ahead

LEMMA WalkIsAt ==
  ASSUME NEW nx, NEW pv, NEW ky, NEW w, NEW b \in Bucket, NEW p, NEW k, NEW s,
         Ahead(nx, pv, ky, w, b, p, k, s)
  PROVE  /\ p \in Cell
         /\ p = b => Null \in s
         /\ p # b => p \in Entry /\ p # w
         /\ p # b /\ ky[p] # k => Ahead(nx, pv, ky, w, b, nx[p], k, s)
<1>1. PICK n, at : RingIs(nx, pv, ky, w, b, n, at) /\ Stands(ky, n, at, p, k, s)
  BY Zenon DEF Ahead
<1>2. /\ n \in Nat /\ at \in [0 .. n + 1 -> Cell] /\ at[n + 1] = b
      /\ \A i \in 0 .. n : nx[at[i]] = at[i + 1]
      /\ \A i \in 1 .. n : at[i] \in Entry /\ at[i] # w
  BY <1>1 DEF RingIs
<1>3. PICK i \in 1 .. n + 1 : p = at[i] /\ (Null \in s \/ \E j \in i .. n : ky[at[j]] = k)
  BY <1>1, Zenon DEF Stands
<1>4. i \in 0 .. n + 1 /\ (i = n + 1 \/ i \in 1 .. n)
  BY <1>2
<1>5. p \in Cell
  BY <1>2, <1>3, <1>4
<1>6. ASSUME p = b PROVE Null \in s
  <2>1. b \notin Entry
    BY BucketFacts
  <2>2. i = n + 1
    BY <1>2, <1>3, <1>4, <1>6, <2>1
  <2>3. i .. n = {}
    BY <1>2, <2>2
  <2> QED BY <1>3, <2>3
<1>7. ASSUME p # b PROVE i \in 1 .. n
  BY <1>2, <1>3, <1>4, <1>7
<1>8. ASSUME p # b, ky[p] # k PROVE Ahead(nx, pv, ky, w, b, nx[p], k, s)
  <2>1. i \in 1 .. n
    BY <1>7, <1>8
  <2>2. PICK g \in 1 .. n + 1 : g = i + 1 /\ nx[p] = at[g]
    <3>1. i + 1 \in 1 .. n + 1 /\ i \in 0 .. n
      BY <1>2, <2>1
    <3> QED BY <1>2, <1>3, <3>1
  <2>3. Null \in s \/ \E j \in g .. n : ky[at[j]] = k
    <3>1. SUFFICES ASSUME ~(Null \in s) PROVE \E j \in g .. n : ky[at[j]] = k
      OBVIOUS
    <3>2. PICK j \in i .. n : ky[at[j]] = k
      BY <1>3, <3>1
    <3>3. j # i
      BY <1>3, <1>8, <3>2
    <3>4. j \in g .. n
      BY <1>2, <2>1, <2>2, <3>3
    <3> QED BY <3>2, <3>4
  <2>4. Stands(ky, n, at, nx[p], k, s)
    BY <2>2, <2>3, Zenon DEF Stands
  <2> QED BY <1>1, <2>4, Zenon DEF Ahead
<1>9. p # b => p \in Entry /\ p # w
  BY <1>2, <1>3, <1>7
<1> QED
  BY <1>5, <1>6, <1>8, <1>9

LEMMA WalkSees ==
  ASSUME NEW nx, NEW pv, NEW ky, NEW w, NEW b, NEW p, NEW k, NEW s, NEW s2,
         Ahead(nx, pv, ky, w, b, p, k, s), s \subseteq s2
  PROVE  Ahead(nx, pv, ky, w, b, p, k, s2)
<1>1. PICK n, at : RingIs(nx, pv, ky, w, b, n, at) /\ Stands(ky, n, at, p, k, s)
  BY Zenon DEF Ahead
<1>2. Stands(ky, n, at, p, k, s2)
  BY <1>1, Zenon DEF Stands
<1> QED
  BY <1>1, <1>2, Zenon DEF Ahead

LEMMA WalkOff ==
  ASSUME NEW nx, NEW pv, NEW ky, NEW w, NEW nx2, NEW pv2, NEW ky2, NEW w2,
         NEW e \in Entry, NEW b \in Bucket, NEW p, NEW k, NEW s,
         Ahead(nx, pv, ky, w, b, p, k, s),
         AgreeBut(nx2, nx, Cell, e), AgreeBut(pv2, pv, Cell, e), AgreeBut(ky2, ky, Entry, e),
         w = e \/ (w = Null /\ ky[e] = Null),
         w2 = e \/ (w2 = Null /\ ky2[e] = Null)
  PROVE  Ahead(nx2, pv2, ky2, w2, b, p, k, s)
<1>1. PICK n, at : RingIs(nx, pv, ky, w, b, n, at) /\ Stands(ky, n, at, p, k, s)
  BY Zenon DEF Ahead
<1>2. RingIs(nx2, pv2, ky2, w2, b, n, at)
  BY <1>1, RingOff, Zenon
<1>3. \A i \in 1 .. n : ky2[at[i]] = ky[at[i]]
  <2>1. \A i \in 1 .. n : at[i] \in Entry /\ at[i] # w /\ ky[at[i]] \in Key
    BY <1>1 DEF RingIs
  <2>2. \A i \in 1 .. n : at[i] # e
    BY <2>1, HashMapAssumption
  <2> QED BY <2>1, <2>2, Zenon DEF AgreeBut
<1>4. Stands(ky2, n, at, p, k, s)
  <2>1. PICK i \in 1 .. n + 1 : p = at[i] /\ (Null \in s \/ \E j \in i .. n : ky[at[j]] = k)
    BY <1>1, Zenon DEF Stands
  <2>2. n \in Nat
    BY <1>1 DEF RingIs
  <2>3. \A j \in i .. n : j \in 1 .. n
    BY <2>2
  <2>4. Null \in s \/ \E j \in i .. n : ky2[at[j]] = k
    BY <1>3, <2>1, <2>3, Zenon
  <2> QED BY <2>1, <2>4, Zenon DEF Stands
<1> QED
  BY <1>2, <1>4, Zenon DEF Ahead

LEMMA WalkInsert ==
  ASSUME NEW nx, NEW pv, NEW ky, NEW e \in Entry, NEW b \in Bucket,
         Rings(nx, pv, ky, e), Ready(nx, pv, ky, e, b),
         NEW nx2, Store(nx, b, e, nx2), NEW pv2, Store(pv, nx[b], e, pv2),
         NEW c \in Bucket, NEW p, NEW k, NEW s, Ahead(nx, pv, ky, e, c, p, k, s)
  PROVE  Ahead(nx2, pv2, ky, Null, c, p, k, s)
<1>1. PICK n, at : RingIs(nx, pv, ky, e, c, n, at) /\ Stands(ky, n, at, p, k, s)
  BY Zenon DEF Ahead
<1>2. CASE c # b
  <2>1. PICK y : y = nx[b]
    OBVIOUS
  <2>2. /\ Of(ky, b, y) /\ Of(ky, b, e)
        /\ AgreeBut(nx2, nx, Cell, b) /\ AgreeBut(pv2, pv, Cell, y)
    BY <2>1, RingsInsert, Zenon
  <2>3. Of(ky, b, b) /\ Holds(e, e) /\ Holds(Null, e)
    BY DEF Of, Holds
  <2>4. RingIs(nx2, pv2, ky, Null, c, n, at)
    BY <1>1, <1>2, <2>2, <2>3, RingOther, Zenon
  <2> QED BY <1>1, <2>4, Zenon DEF Ahead
<1>3. CASE c = b
  <2>1. PICK m, as : m = n + 1 /\ as = Pushed(b, e, n, at)
    OBVIOUS
  <2>2. RingIs(nx2, pv2, ky, Null, b, m, as)
    BY <1>1, <1>3, <2>1, RingInsert, Zenon
  <2>3. n \in Nat
    BY <1>1 DEF RingIs
  <2>4. ASSUME NEW i \in 1 .. n + 1
        PROVE  i + 1 \in 1 .. m + 1 /\ as[i + 1] = at[i]
    <3>1. i + 1 \in 0 .. n + 2 /\ i + 1 # 0 /\ i + 1 # 1 /\ (i + 1) - 1 = i /\ i + 1 \in 1 .. m + 1
      BY <2>1, <2>3
    <3> QED BY <2>1, <3>1 DEF Pushed
  <2>5. PICK i \in 1 .. n + 1 : p = at[i] /\ (Null \in s \/ \E j \in i .. n : ky[at[j]] = k)
    BY <1>1, Zenon DEF Stands
  <2>6. PICK g \in 1 .. m + 1 : g = i + 1 /\ p = as[g]
    BY <2>4, <2>5
  <2>7. Null \in s \/ \E j \in g .. m : ky[as[j]] = k
    <3>1. SUFFICES ASSUME ~(Null \in s) PROVE \E j \in g .. m : ky[as[j]] = k
      OBVIOUS
    <3>2. PICK j \in i .. n : ky[at[j]] = k
      BY <2>5, <3>1
    <3>3. j \in 1 .. n + 1 /\ j + 1 \in g .. m
      BY <2>1, <2>3, <2>6
    <3>4. as[j + 1] = at[j]
      BY <2>4, <3>3
    <3> QED BY <3>2, <3>3, <3>4
  <2>8. Stands(ky, m, as, p, k, s)
    BY <2>6, <2>7, Zenon DEF Stands
  <2> QED BY <1>3, <2>2, <2>8, Zenon DEF Ahead
<1> QED
  BY <1>2, <1>3

-----------------------------------------------------------------------------
(* What hashmap_get answers. *)
ValueAt(nx, ky, vl, k) ==
  LET e == Search(nx, ky, k) IN IF e = Null THEN Null ELSE vl[e]

LEMMA ValueIs ==
  ASSUME NEW nx, NEW pv, NEW ky, NEW w, Rings(nx, pv, ky, w), NEW vl, NEW k \in Key,
         NEW s, Holder(ky, w, k, s)
  PROVE  ValueAt(nx, ky, vl, k) = IF s = Null THEN Null ELSE vl[s]
<1>1. Search(nx, ky, k) = s
  <2>1. PICK t : t = Search(nx, ky, k)
    OBVIOUS
  <2>2. Holder(ky, w, k, t)
    BY <2>1, SearchIs, Zenon
  <2> QED BY <2>1, <2>2, OneHolder, Zenon
<1> QED
  BY <1>1 DEF ValueAt

LEMMA HolderExists ==
  ASSUME NEW nx, NEW pv, NEW ky, NEW w, Rings(nx, pv, ky, w), NEW vl, NEW k \in Key
  PROVE  \E s \in Entry \cup {Null} :
           /\ Holder(ky, w, k, s) /\ s = Search(nx, ky, k)
           /\ ValueAt(nx, ky, vl, k) = IF s = Null THEN Null ELSE vl[s]
<1>1. PICK s : s = Search(nx, ky, k)
  OBVIOUS
<1>2. Holder(ky, w, k, s)
  BY <1>1, SearchIs, Zenon
<1>3. s \in Entry \cup {Null}
  BY <1>2 DEF Holder
<1>4. ValueAt(nx, ky, vl, k) = IF s = Null THEN Null ELSE vl[s]
  BY <1>1 DEF ValueAt
<1> QED
  BY <1>1, <1>2, <1>3, <1>4, Zenon

(* Filling in or freeing an entry that is on no ring changes no answer. *)
LEMMA ValueOff ==
  ASSUME NEW nx, NEW pv, NEW ky, NEW w, NEW nx2, NEW pv2, NEW ky2, NEW w2,
         NEW e \in Entry, Rings(nx, pv, ky, w), Rings(nx2, pv2, ky2, w2),
         AgreeBut(ky2, ky, Entry, e),
         w = e \/ (w = Null /\ ky[e] = Null),
         w2 = e \/ (w2 = Null /\ ky2[e] = Null),
         NEW vl, NEW vl2, AgreeBut(vl2, vl, Entry, e), NEW k \in Key
  PROVE  ValueAt(nx2, ky2, vl2, k) = ValueAt(nx, ky, vl, k)
<1>1. PICK s \in Entry \cup {Null} :
         Holder(ky, w, k, s) /\ ValueAt(nx, ky, vl, k) = IF s = Null THEN Null ELSE vl[s]
  BY HolderExists
<1>2. k # Null /\ Null \notin Entry
  BY HashMapAssumption
<1>3. s # e
  BY <1>1, <1>2 DEF Holder
<1>4. Holder(ky2, w2, k, s)
  BY <1>1, <1>2, <1>3 DEF Holder, AgreeBut
<1>5. ValueAt(nx2, ky2, vl2, k) = IF s = Null THEN Null ELSE vl2[s]
  BY <1>4, ValueIs
<1>6. s # Null => vl2[s] = vl[s]
  BY <1>3 DEF AgreeBut
<1> QED
  BY <1>1, <1>5, <1>6

(* Linking e binds its key, *)
LEMMA ValueInsert ==
  ASSUME NEW nx, NEW pv, NEW ky, NEW nx2, NEW pv2, NEW e \in Entry,
         Rings(nx, pv, ky, e), Rings(nx2, pv2, ky, Null),
         \A d \in Entry : d # e => ky[d] # ky[e], NEW vl, NEW k \in Key
  PROVE  ValueAt(nx2, ky, vl, k) = IF k = ky[e] THEN vl[e] ELSE ValueAt(nx, ky, vl, k)
<1>1. Null \notin Entry
  BY HashMapAssumption
<1>2. CASE k = ky[e]
  <2>1. Holder(ky, Null, k, e)
    BY <1>1, <1>2 DEF Holder
  <2>2. ValueAt(nx2, ky, vl, k) = IF e = Null THEN Null ELSE vl[e]
    BY <2>1, ValueIs
  <2> QED BY <1>1, <1>2, <2>2
<1>3. CASE k # ky[e]
  <2>1. PICK s \in Entry \cup {Null} :
           Holder(ky, e, k, s) /\ ValueAt(nx, ky, vl, k) = IF s = Null THEN Null ELSE vl[s]
    BY HolderExists
  <2>2. Holder(ky, Null, k, s)
    BY <1>1, <1>3, <2>1 DEF Holder
  <2>3. ValueAt(nx2, ky, vl, k) = IF s = Null THEN Null ELSE vl[s]
    BY <2>2, ValueIs
  <2> QED BY <1>3, <2>1, <2>3
<1> QED
  BY <1>2, <1>3

(* unlinking it unbinds it, *)
LEMMA ValueRemove ==
  ASSUME NEW nx, NEW pv, NEW ky, NEW nx2, NEW pv2, NEW e \in Entry,
         Rings(nx, pv, ky, Null), Rings(nx2, pv2, ky, e), Holder(ky, Null, ky[e], e),
         NEW vl, NEW k \in Key
  PROVE  ValueAt(nx2, ky, vl, k) = IF k = ky[e] THEN Null ELSE ValueAt(nx, ky, vl, k)
<1>1. Null \notin Entry
  BY HashMapAssumption
<1>2. CASE k = ky[e]
  <2>1. Holder(ky, e, k, Null)
    BY <1>1, <1>2 DEF Holder
  <2>2. ValueAt(nx2, ky, vl, k) = IF Null = Null THEN Null ELSE vl[Null]
    BY <2>1, ValueIs
  <2> QED BY <1>2, <2>2
<1>3. CASE k # ky[e]
  <2>1. PICK s \in Entry \cup {Null} :
           Holder(ky, Null, k, s) /\ ValueAt(nx, ky, vl, k) = IF s = Null THEN Null ELSE vl[s]
    BY HolderExists
  <2>2. Holder(ky, e, k, s)
    BY <1>1, <1>3, <2>1 DEF Holder
  <2>3. ValueAt(nx2, ky, vl, k) = IF s = Null THEN Null ELSE vl[s]
    BY <2>2, ValueIs
  <2> QED BY <1>3, <2>1, <2>3
<1> QED
  BY <1>2, <1>3

(* and a store to its value rebinds it. *)
LEMMA ValueReplace ==
  ASSUME NEW nx, NEW pv, NEW ky, NEW w, Rings(nx, pv, ky, w), NEW vl,
         NEW x \in Key, NEW e \in Entry, Holder(ky, w, x, e), NEW v,
         NEW vl2, AgreeBut(vl2, vl, Entry, e), vl2[e] = v, NEW k \in Key
  PROVE  ValueAt(nx, ky, vl2, k) = IF k = x THEN v ELSE ValueAt(nx, ky, vl, k)
<1>1. Null \notin Entry
  BY HashMapAssumption
<1>2. PICK s \in Entry \cup {Null} :
         Holder(ky, w, k, s) /\ ValueAt(nx, ky, vl, k) = IF s = Null THEN Null ELSE vl[s]
  BY HolderExists
<1>3. ValueAt(nx, ky, vl2, k) = IF s = Null THEN Null ELSE vl2[s]
  BY <1>2, ValueIs
<1>4. CASE k = x
  <2>1. s = e
    BY <1>2, <1>4, OneHolder, Zenon
  <2> QED BY <1>1, <1>3, <1>4, <2>1
<1>5. CASE k # x
  <2>1. s # e
    BY <1>1, <1>2, <1>5 DEF Holder
  <2>2. s # Null => vl2[s] = vl[s]
    BY <2>1 DEF AgreeBut
  <2> QED BY <1>2, <1>3, <1>5, <2>2
<1> QED
  BY <1>4, <1>5

-----------------------------------------------------------------------------
(* The inductive invariant.  The writer between its stores: the entry it   *)
(* is about to link points where it will stand and its key is nowhere      *)
(* else; it unlinks entries only of a table that no reader shares.         *)
Writing(nx, pv, ky, vl, w, pc, ar, sh) ==
  /\ pc = "link" => /\ w \in Entry /\ ky[w] \in Key
                    /\ Ready(nx, pv, ky, w, hashmap_bucket(ky[w]))
                    /\ ar = <<ky[w], vl[w]>>
  /\ pc = "free" => ~sh

(* hashmap_destroy leaves nothing in use. *)
Down(al, pc, sh, ky) == ~al => pc = "idle" /\ ~sh /\ \A e \in Entry : ky[e] = Null

(* A reader's walk is on the ring of its key, with the key ahead of it;    *)
(* what the key is bound to is among the values it may return.             *)
Reading(nx, pv, ky, vl, w, sh, rk, rp, sn) ==
  \A r \in Reader : rk[r] # Null =>
    /\ sh
    /\ Ahead(nx, pv, ky, w, hashmap_bucket(rk[r]), rp[r], rk[r], sn[r])
    /\ ValueAt(nx, ky, vl, rk[r]) \in sn[r]

HashInv ==
  /\ TypeOK
  /\ Rings(next, prev, key, went)
  /\ Writing(next, prev, key, value, went, wpc, arg, shared)
  /\ Down(alive, wpc, shared, key)
  /\ Reading(next, prev, key, value, went, shared, rkey, rpos, seen)

LEMMA InitHolds ==
  Init => HashInv
<1>1. SUFFICES ASSUME Init PROVE HashInv
  OBVIOUS
<1>2. EmptyRing \in [Cell -> Cell \cup {Null}]
  BY DEF EmptyRing
<1>3. TypeOK
  BY <1>1, <1>2 DEF Init, TypeOK
<1>4. Rings(next, prev, key, went)
  <2>1. next = EmptyRing /\ prev = EmptyRing /\ \A e \in Entry : key[e] = Null
    BY <1>1 DEF Init
  <2> QED BY <2>1, RingsEmpty, Zenon
<1>5. Writing(next, prev, key, value, went, wpc, arg, shared)
  BY <1>1 DEF Init, Writing
<1>6. Down(alive, wpc, shared, key)
  BY <1>1 DEF Init, Down
<1>7. Reading(next, prev, key, value, went, shared, rkey, rpos, seen)
  BY <1>1 DEF Init, Reading
<1> QED
  BY <1>3, <1>4, <1>5, <1>6, <1>7 DEF HashInv

(* What Observe records. *)
Observes(nx, ky, vl, rk, sn, sn2) ==
  sn2 = [r \in Reader |-> IF rk[r] = Null THEN sn[r]
                          ELSE sn[r] \cup {ValueAt(nx, ky, vl, rk[r])}]

LEMMA ObserveIs ==
  ASSUME Observe
  PROVE  Observes(next', key', value', rkey, seen, seen')
BY Zenon DEF Observe, Observes, ValueAt

LEMMA ObserveFacts ==
  ASSUME NEW nx, NEW pv, NEW ky, NEW w, Rings(nx, pv, ky, w),
         NEW vl \in [Entry -> Value \cup {Null}], NEW rk \in [Reader -> Key \cup {Null}],
         NEW sn \in [Reader -> SUBSET (Value \cup {Null})],
         NEW sn2, Observes(nx, ky, vl, rk, sn, sn2)
  PROVE  /\ sn2 \in [Reader -> SUBSET (Value \cup {Null})]
         /\ \A r \in Reader : rk[r] # Null => /\ sn[r] \subseteq sn2[r]
                                              /\ ValueAt(nx, ky, vl, rk[r]) \in sn2[r]
<1>1. ASSUME NEW k \in Key PROVE ValueAt(nx, ky, vl, k) \in Value \cup {Null}
  <2>1. PICK s \in Entry \cup {Null} :
           ValueAt(nx, ky, vl, k) = IF s = Null THEN Null ELSE vl[s]
    BY HolderExists
  <2> QED BY <2>1
<1>2. PICK f : f = [k \in Key |-> ValueAt(nx, ky, vl, k)]
  OBVIOUS
<1>3. f \in [Key -> Value \cup {Null}] /\ \A k \in Key : f[k] = ValueAt(nx, ky, vl, k)
  BY <1>1, <1>2
<1>4. \A r \in Reader : rk[r] # Null => ValueAt(nx, ky, vl, rk[r]) = f[rk[r]]
  BY <1>3
<1>5. sn2 = [r \in Reader |-> IF rk[r] = Null THEN sn[r] ELSE sn[r] \cup {f[rk[r]]}]
  BY <1>4 DEF Observes
<1>6. sn2 \in [Reader -> SUBSET (Value \cup {Null})]
  BY <1>3, <1>5
<1>7. ASSUME NEW r \in Reader, rk[r] # Null PROVE sn[r] \subseteq sn2[r] /\ f[rk[r]] \in sn2[r]
  BY <1>5, <1>7
<1> QED
  BY <1>4, <1>6, <1>7

-----------------------------------------------------------------------------
(* The readers, while the writer replaces a value, *)
LEMMA ReadReplace ==
  ASSUME NEW nx, NEW pv, NEW ky, NEW vl, NEW w, NEW sh, NEW rk, NEW rp, NEW sn,
         Reading(nx, pv, ky, vl, w, sh, rk, rp, sn), NEW vl2, NEW sn2,
         \A r \in Reader : rk[r] # Null => /\ sn[r] \subseteq sn2[r]
                                           /\ ValueAt(nx, ky, vl2, rk[r]) \in sn2[r]
  PROVE  Reading(nx, pv, ky, vl2, w, sh, rk, rp, sn2)
<1>1. SUFFICES ASSUME NEW r \in Reader, rk[r] # Null
      PROVE  /\ sh
             /\ Ahead(nx, pv, ky, w, hashmap_bucket(rk[r]), rp[r], rk[r], sn2[r])
             /\ ValueAt(nx, ky, vl2, rk[r]) \in sn2[r]
  BY Zenon DEF Reading
<1>2. /\ sh /\ Ahead(nx, pv, ky, w, hashmap_bucket(rk[r]), rp[r], rk[r], sn[r])
  BY <1>1, Zenon DEF Reading
<1>3. sn[r] \subseteq sn2[r] /\ ValueAt(nx, ky, vl2, rk[r]) \in sn2[r]
  BY <1>1
<1>4. Ahead(nx, pv, ky, w, hashmap_bucket(rk[r]), rp[r], rk[r], sn2[r])
  BY <1>2, <1>3, WalkSees, Zenon
<1> QED
  BY <1>2, <1>3, <1>4

(* fills in an entry, *)
LEMMA ReadOff ==
  ASSUME NEW nx, NEW pv, NEW ky, NEW w, NEW nx2, NEW pv2, NEW ky2, NEW w2,
         NEW e \in Entry, Rings(nx, pv, ky, w), Rings(nx2, pv2, ky2, w2),
         AgreeBut(nx2, nx, Cell, e), AgreeBut(pv2, pv, Cell, e), AgreeBut(ky2, ky, Entry, e),
         w = e \/ (w = Null /\ ky[e] = Null),
         w2 = e \/ (w2 = Null /\ ky2[e] = Null),
         NEW vl, NEW vl2, AgreeBut(vl2, vl, Entry, e),
         NEW sh, NEW rk \in [Reader -> Key \cup {Null}], NEW rp, NEW sn,
         Reading(nx, pv, ky, vl, w, sh, rk, rp, sn)
  PROVE  Reading(nx2, pv2, ky2, vl2, w2, sh, rk, rp, sn)
<1>1. SUFFICES ASSUME NEW r \in Reader, rk[r] # Null
      PROVE  /\ sh
             /\ Ahead(nx2, pv2, ky2, w2, hashmap_bucket(rk[r]), rp[r], rk[r], sn[r])
             /\ ValueAt(nx2, ky2, vl2, rk[r]) \in sn[r]
  BY Zenon DEF Reading
<1>2. PICK k \in Key, b \in Bucket : k = rk[r] /\ b = hashmap_bucket(k)
  BY <1>1, BucketFacts
<1>3. sh /\ Ahead(nx, pv, ky, w, b, rp[r], k, sn[r]) /\ ValueAt(nx, ky, vl, k) \in sn[r]
  BY <1>1, <1>2, Zenon DEF Reading
<1>4. Ahead(nx2, pv2, ky2, w2, b, rp[r], k, sn[r])
  BY <1>3, WalkOff, Zenon
<1>5. ValueAt(nx2, ky2, vl2, k) = ValueAt(nx, ky, vl, k)
  BY ValueOff
<1> QED
  BY <1>2, <1>3, <1>4, <1>5, Zenon

(* and links it. *)
LEMMA ReadInsert ==
  ASSUME NEW nx, NEW pv, NEW ky, NEW e \in Entry, NEW b \in Bucket,
         Rings(nx, pv, ky, e), Ready(nx, pv, ky, e, b),
         NEW nx2, Store(nx, b, e, nx2), NEW pv2, Store(pv, nx[b], e, pv2),
         NEW vl, NEW sh, NEW rk \in [Reader -> Key \cup {Null}], NEW rp, NEW sn, NEW sn2,
         Reading(nx, pv, ky, vl, e, sh, rk, rp, sn),
         \A r \in Reader : rk[r] # Null => /\ sn[r] \subseteq sn2[r]
                                           /\ ValueAt(nx2, ky, vl, rk[r]) \in sn2[r]
  PROVE  Reading(nx2, pv2, ky, vl, Null, sh, rk, rp, sn2)
<1>1. SUFFICES ASSUME NEW r \in Reader, rk[r] # Null
      PROVE  /\ sh
             /\ Ahead(nx2, pv2, ky, Null, hashmap_bucket(rk[r]), rp[r], rk[r], sn2[r])
             /\ ValueAt(nx2, ky, vl, rk[r]) \in sn2[r]
  BY Zenon DEF Reading
<1>2. PICK k \in Key, c \in Bucket : k = rk[r] /\ c = hashmap_bucket(k)
  BY <1>1, BucketFacts
<1>3. sh /\ Ahead(nx, pv, ky, e, c, rp[r], k, sn[r])
  BY <1>1, <1>2, Zenon DEF Reading
<1>4. Ahead(nx2, pv2, ky, Null, c, rp[r], k, sn[r])
  BY <1>3, WalkInsert, Zenon
<1>5. sn[r] \subseteq sn2[r] /\ ValueAt(nx2, ky, vl, rk[r]) \in sn2[r]
  BY <1>1
<1>6. Ahead(nx2, pv2, ky, Null, c, rp[r], k, sn2[r])
  BY <1>4, <1>5, WalkSees, Zenon
<1> QED
  BY <1>2, <1>3, <1>5, <1>6, Zenon

-----------------------------------------------------------------------------
(* Every step preserves the invariant. *)
LEMMA PutReplaceKeeps ==
  ASSUME HashInv, NEW k \in Key, NEW v \in Value, PutReplace(k, v), shared' = shared
  PROVE  HashInv'
<1>1. PICK nx, pv, ky, w : nx = next /\ pv = prev /\ ky = key /\ w = went
  OBVIOUS
<1>2. PICK vl, vl2 : vl = value /\ vl2 = value'
  OBVIOUS
<1>3. /\ wpc = "idle" /\ alive /\ wpc' = wpc /\ alive' = alive /\ arg' = <<k, v>>
      /\ next' = nx /\ prev' = pv /\ key' = ky /\ went' = w
      /\ rkey' = rkey /\ rpos' = rpos /\ answer' = answer
      /\ vl2 = [vl EXCEPT ![Find(k)] = v] /\ Find(k) # Null
  BY <1>1, <1>2 DEF PutReplace, Quiet, ring, readers, hashmap_contains
<1>4. Rings(nx, pv, ky, w) /\ TypeOK
  BY <1>1 DEF HashInv
<1>5. PICK e : e = Find(k)
  OBVIOUS
<1>6. Holder(ky, w, k, e)
  BY <1>1, <1>4, <1>5, SearchIs, Zenon DEF Find
<1>7. e \in Entry
  BY <1>3, <1>5, <1>6 DEF Holder
<1>8. vl \in [Entry -> Value \cup {Null}] /\ vl2 \in [Entry -> Value \cup {Null}]
  BY <1>2, <1>3, <1>4, <1>5, <1>7 DEF TypeOK
<1>9. Observes(nx, ky, vl2, rkey, seen, seen')
  BY <1>2, <1>3, ObserveIs DEF PutReplace
<1>10. /\ rkey \in [Reader -> Key \cup {Null}]
       /\ seen \in [Reader -> SUBSET (Value \cup {Null})]
  BY <1>4 DEF TypeOK
<1>11. /\ seen' \in [Reader -> SUBSET (Value \cup {Null})]
       /\ \A r \in Reader : rkey[r] # Null => /\ seen[r] \subseteq seen'[r]
                                              /\ ValueAt(nx, ky, vl2, rkey[r]) \in seen'[r]
  BY <1>4, <1>8, <1>9, <1>10, ObserveFacts
<1>12. TypeOK'
  BY <1>1, <1>2, <1>3, <1>4, <1>8, <1>11 DEF TypeOK
<1>13. Reading(nx, pv, ky, vl2, w, shared, rkey, rpos, seen')
  <2>1. Reading(nx, pv, ky, vl, w, shared, rkey, rpos, seen)
    BY <1>1, <1>2 DEF HashInv
  <2>2. PICK sn2 : sn2 = seen'
    OBVIOUS
  <2>3. \A r \in Reader : rkey[r] # Null => /\ seen[r] \subseteq sn2[r]
                                            /\ ValueAt(nx, ky, vl2, rkey[r]) \in sn2[r]
    BY <1>11, <2>2
  <2> QED BY <2>1, <2>2, <2>3, ReadReplace
<1>14. Writing(next, prev, key, value, went, wpc, arg, shared)'
  BY <1>3 DEF Writing
<1>15. Down(alive, wpc, shared, key)'
  BY <1>3 DEF Down
<1> QED
  BY <1>1, <1>2, <1>3, <1>4, <1>12, <1>13, <1>14, <1>15 DEF HashInv

LEMMA PutEntryKeeps ==
  ASSUME HashInv, NEW k \in Key, NEW v \in Value, NEW e \in Entry, PutEntry(k, v, e),
         shared' = shared
  PROVE  HashInv'
<1>1. PICK nx, pv, ky, w, vl : nx = next /\ pv = prev /\ ky = key /\ w = went /\ vl = value
  OBVIOUS
<1>2. PICK nx2, pv2, ky2, vl2 : nx2 = next' /\ pv2 = prev' /\ ky2 = key' /\ vl2 = value'
  OBVIOUS
<1>3. PICK b \in Bucket : b = hashmap_bucket(k)
  BY BucketFacts
<1>4. /\ wpc = "idle" /\ alive /\ wpc' = "link" /\ went' = e /\ alive' = alive
      /\ arg' = <<k, v>>
      /\ rkey' = rkey /\ rpos' = rpos /\ answer' = answer /\ seen' = seen
      /\ nx2 = [nx EXCEPT ![e] = nx[b]] /\ pv2 = [pv EXCEPT ![e] = b]
      /\ ky2 = [ky EXCEPT ![e] = k] /\ vl2 = [vl EXCEPT ![e] = v]
      /\ ky[e] = Null /\ Find(k) = Null
  BY <1>1, <1>2, <1>3 DEF PutEntry, Quiet, readers, hashmap_contains
<1>5. Rings(nx, pv, ky, w) /\ TypeOK /\ w = Null
  BY <1>1, <1>4 DEF HashInv, TypeOK
<1>6. /\ nx \in [Cell -> Cell \cup {Null}] /\ pv \in [Cell -> Cell \cup {Null}]
      /\ ky \in [Entry -> Key \cup {Null}] /\ vl \in [Entry -> Value \cup {Null}]
      /\ rkey \in [Reader -> Key \cup {Null}]
  BY <1>1, <1>5 DEF TypeOK
<1>7. b \in Cell /\ e \in Cell /\ b # e /\ Null \notin Entry
  BY BucketFacts, HashMapAssumption
<1>8. /\ nx2 \in [Cell -> Cell \cup {Null}] /\ pv2 \in [Cell -> Cell \cup {Null}]
      /\ ky2 \in [Entry -> Key \cup {Null}] /\ vl2 \in [Entry -> Value \cup {Null}]
  BY <1>4, <1>6, <1>7
<1>9. /\ AgreeBut(nx2, nx, Cell, e) /\ AgreeBut(pv2, pv, Cell, e)
      /\ AgreeBut(ky2, ky, Entry, e) /\ AgreeBut(vl2, vl, Entry, e)
  BY <1>4, <1>6 DEF AgreeBut
<1>10. Rings(nx2, pv2, ky2, e)
  <2>1. (w = Null /\ ky[e] = Null) /\ (e = e \/ (e = Null /\ ky2[e] = Null))
    BY <1>4, <1>5
  <2>2. Rings(nx, pv, ky, w)
    BY <1>5
  <2> QED BY <1>9, <2>1, <2>2, RingsOff, Zenon
<1>11. TypeOK'
  BY <1>2, <1>4, <1>5, <1>7, <1>8 DEF TypeOK
<1>12. Reading(nx2, pv2, ky2, vl2, e, shared, rkey, rpos, seen)
  <2>1. Reading(nx, pv, ky, vl, w, shared, rkey, rpos, seen)
    BY <1>1 DEF HashInv
  <2> QED BY <1>4, <1>5, <1>6, <1>9, <1>10, <2>1, ReadOff
<1>13. Writing(next, prev, key, value, went, wpc, arg, shared)'
  <2>1. ky2[e] = k /\ vl2[e] = v /\ nx2[e] = nx[b] /\ pv2[e] = b /\ nx2[b] = nx[b]
    BY <1>4, <1>6, <1>7
  <2>2. \A d \in Entry : d # e => ky2[d] # k
    <3>1. Holder(ky, w, k, Null)
      BY <1>1, <1>4, <1>5, SearchIs, Zenon DEF Find
    <3>2. \A d \in Entry : ky[d] # k
      BY <1>5, <1>7, <3>1 DEF Holder
    <3> QED BY <1>9, <3>2 DEF AgreeBut
  <2>3. Ready(nx2, pv2, ky2, e, b)
    BY <1>3, <2>1, <2>2 DEF Ready
  <2>4. Writing(nx2, pv2, ky2, vl2, e, "link", <<k, v>>, shared)
    BY <1>3, <2>1, <2>3 DEF Writing
  <2> QED BY <1>2, <1>4, <2>4
<1>14. Down(alive, wpc, shared, key)'
  BY <1>4 DEF Down
<1> QED
  BY <1>2, <1>4, <1>10, <1>11, <1>12, <1>13, <1>14 DEF HashInv

LEMMA PutLinkKeeps ==
  ASSUME HashInv, PutLink, shared' = shared
  PROVE  HashInv'
<1>1. PICK nx, pv, ky, e, vl : nx = next /\ pv = prev /\ ky = key /\ e = went /\ vl = value
  OBVIOUS
<1>2. PICK nx2, pv2 : nx2 = next' /\ pv2 = prev'
  OBVIOUS
<1>3. PICK b : b = pv[e]
  OBVIOUS
<1>4. /\ wpc = "link" /\ wpc' = "idle" /\ went' = Null /\ alive' = alive /\ arg' = arg
      /\ key' = ky /\ value' = vl
      /\ rkey' = rkey /\ rpos' = rpos /\ answer' = answer
      /\ nx2 = [nx EXCEPT ![b] = e] /\ pv2 = [pv EXCEPT ![nx[b]] = e]
  BY <1>1, <1>2, <1>3 DEF PutLink, readers, fields
<1>5. Rings(nx, pv, ky, e) /\ TypeOK
  BY <1>1 DEF HashInv
<1>6. /\ nx \in [Cell -> Cell \cup {Null}] /\ pv \in [Cell -> Cell \cup {Null}]
      /\ ky \in [Entry -> Key \cup {Null}] /\ vl \in [Entry -> Value \cup {Null}]
      /\ rkey \in [Reader -> Key \cup {Null}]
      /\ seen \in [Reader -> SUBSET (Value \cup {Null})]
  BY <1>1, <1>5 DEF TypeOK
<1>7. e \in Entry /\ b \in Bucket /\ Ready(nx, pv, ky, e, b)
  <2>1. e \in Entry /\ ky[e] \in Key /\ Ready(nx, pv, ky, e, hashmap_bucket(ky[e]))
    BY <1>1, <1>4 DEF HashInv, Writing
  <2>2. b = hashmap_bucket(ky[e])
    BY <1>3, <2>1 DEF Ready
  <2> QED BY <2>1, <2>2, BucketFacts
<1>8. Store(nx, b, e, nx2) /\ Store(pv, nx[b], e, pv2)
  BY <1>4, <1>6 DEF Store
<1>9. Rings(nx2, pv2, ky, Null)
  BY <1>5, <1>7, <1>8, RingsInsert, Zenon
<1>10. Observes(nx2, ky, vl, rkey, seen, seen')
  BY <1>2, <1>4, ObserveIs DEF PutLink
<1>11. /\ seen' \in [Reader -> SUBSET (Value \cup {Null})]
       /\ \A r \in Reader : rkey[r] # Null => /\ seen[r] \subseteq seen'[r]
                                              /\ ValueAt(nx2, ky, vl, rkey[r]) \in seen'[r]
  BY <1>6, <1>9, <1>10, ObserveFacts
<1>12. nx2 \in [Cell -> Cell \cup {Null}] /\ pv2 \in [Cell -> Cell \cup {Null}]
  BY <1>4, <1>6, <1>7, BucketFacts
<1>13. TypeOK'
  BY <1>1, <1>2, <1>4, <1>5, <1>6, <1>11, <1>12 DEF TypeOK
<1>14. Reading(nx2, pv2, ky, vl, Null, shared, rkey, rpos, seen')
  <2>1. Reading(nx, pv, ky, vl, e, shared, rkey, rpos, seen)
    BY <1>1 DEF HashInv
  <2>2. PICK sn2 : sn2 = seen'
    OBVIOUS
  <2>3. \A r \in Reader : rkey[r] # Null => /\ seen[r] \subseteq sn2[r]
                                            /\ ValueAt(nx2, ky, vl, rkey[r]) \in sn2[r]
    BY <1>11, <2>2
  <2> QED BY <1>5, <1>6, <1>7, <1>8, <2>1, <2>2, <2>3, ReadInsert
<1>15. Writing(next, prev, key, value, went, wpc, arg, shared)'
  BY <1>4 DEF Writing
<1>16. Down(alive, wpc, shared, key)'
  BY <1>4 DEF HashInv, Down
<1> QED
  BY <1>2, <1>4, <1>9, <1>13, <1>14, <1>15, <1>16 DEF HashInv

LEMMA RemoveUnlinkKeeps ==
  ASSUME HashInv, NEW k \in Key, RemoveUnlink(k), shared' = shared
  PROVE  HashInv'
<1>1. PICK nx, pv, ky, w, vl : nx = next /\ pv = prev /\ ky = key /\ w = went /\ vl = value
  OBVIOUS
<1>2. PICK nx2, pv2 : nx2 = next' /\ pv2 = prev'
  OBVIOUS
<1>3. PICK e : e = Find(k)
  OBVIOUS
<1>4. /\ wpc = "idle" /\ alive /\ wpc' = "free" /\ went' = e /\ alive' = alive
      /\ ~shared /\ arg' = <<k, Null>> /\ e # Null
      /\ key' = ky /\ value' = vl
      /\ rkey' = rkey /\ rpos' = rpos /\ answer' = answer
      /\ nx2 = [nx EXCEPT ![pv[e]] = nx[e]] /\ pv2 = [pv EXCEPT ![nx[e]] = pv[e]]
  BY <1>1, <1>2, <1>3 DEF RemoveUnlink, Quiet, readers, fields, hashmap_contains
<1>5. Rings(nx, pv, ky, Null) /\ TypeOK
  BY <1>1, <1>4 DEF HashInv, TypeOK
<1>6. /\ nx \in [Cell -> Cell \cup {Null}] /\ pv \in [Cell -> Cell \cup {Null}]
      /\ ky \in [Entry -> Key \cup {Null}] /\ vl \in [Entry -> Value \cup {Null}]
      /\ rkey \in [Reader -> Key \cup {Null}]
      /\ seen \in [Reader -> SUBSET (Value \cup {Null})]
  BY <1>1, <1>5 DEF TypeOK
<1>7. Holder(ky, Null, k, e)
  BY <1>1, <1>3, <1>5, SearchIs, Zenon DEF Find
<1>8. e \in Entry /\ ky[e] = k
  BY <1>4, <1>7 DEF Holder
<1>9. Store(nx, pv[e], nx[e], nx2) /\ Store(pv, nx[e], pv[e], pv2)
  BY <1>4, <1>6 DEF Store
<1>10. Rings(nx2, pv2, ky, e) /\ pv[e] \in Cell /\ nx[e] \in Cell
  BY <1>5, <1>8, <1>9, RingsRemove
<1>11. Observes(nx2, ky, vl, rkey, seen, seen')
  BY <1>2, <1>4, ObserveIs DEF RemoveUnlink
<1>12. seen' \in [Reader -> SUBSET (Value \cup {Null})]
  BY <1>6, <1>10, <1>11, ObserveFacts
<1>13. nx2 \in [Cell -> Cell \cup {Null}] /\ pv2 \in [Cell -> Cell \cup {Null}]
  BY <1>4, <1>6, <1>10
<1>14. TypeOK'
  <2>1. e # Null
    BY <1>4
  <2> QED BY <1>1, <1>2, <1>4, <1>5, <1>6, <1>8, <1>12, <1>13 DEF TypeOK
<1>15. Reading(nx2, pv2, ky, vl, e, shared, rkey, rpos, seen')
  <2>1. Reading(nx, pv, ky, vl, w, shared, rkey, rpos, seen)
    BY <1>1 DEF HashInv
  <2>2. ~shared
    BY <1>4
  <2> QED BY <2>1, <2>2, Zenon DEF Reading
<1>16. Writing(next, prev, key, value, went, wpc, arg, shared)'
  BY <1>4 DEF Writing
<1>17. Down(alive, wpc, shared, key)'
  BY <1>4 DEF Down
<1> QED
  BY <1>2, <1>4, <1>10, <1>14, <1>15, <1>16, <1>17 DEF HashInv

LEMMA RemoveFreeKeeps ==
  ASSUME HashInv, RemoveFree, shared' = shared
  PROVE  HashInv'
<1>1. PICK nx, pv, ky, e, vl : nx = next /\ pv = prev /\ ky = key /\ e = went /\ vl = value
  OBVIOUS
<1>2. PICK nx2, pv2, ky2, vl2 : nx2 = next' /\ pv2 = prev' /\ ky2 = key' /\ vl2 = value'
  OBVIOUS
<1>3. /\ wpc = "free" /\ wpc' = "idle" /\ went' = Null /\ alive' = alive /\ arg' = arg
      /\ rkey' = rkey /\ rpos' = rpos /\ answer' = answer /\ seen' = seen
      /\ nx2 = [nx EXCEPT ![e] = Null] /\ pv2 = [pv EXCEPT ![e] = Null]
      /\ ky2 = [ky EXCEPT ![e] = Null] /\ vl2 = [vl EXCEPT ![e] = Null]
  BY <1>1, <1>2 DEF RemoveFree, readers
<1>4. Rings(nx, pv, ky, e) /\ TypeOK /\ e \in Entry /\ ~shared
  BY <1>1, <1>3 DEF HashInv, TypeOK, Writing
<1>5. /\ nx \in [Cell -> Cell \cup {Null}] /\ pv \in [Cell -> Cell \cup {Null}]
      /\ ky \in [Entry -> Key \cup {Null}] /\ vl \in [Entry -> Value \cup {Null}]
  BY <1>1, <1>4 DEF TypeOK
<1>6. /\ nx2 \in [Cell -> Cell \cup {Null}] /\ pv2 \in [Cell -> Cell \cup {Null}]
      /\ ky2 \in [Entry -> Key \cup {Null}] /\ vl2 \in [Entry -> Value \cup {Null}]
  BY <1>3, <1>5
<1>7. /\ AgreeBut(nx2, nx, Cell, e) /\ AgreeBut(pv2, pv, Cell, e)
      /\ AgreeBut(ky2, ky, Entry, e) /\ AgreeBut(vl2, vl, Entry, e)
  BY <1>3, <1>5 DEF AgreeBut
<1>8. Rings(nx2, pv2, ky2, Null)
  <2>1. Null = Null /\ ky2[e] = Null /\ e = e
    BY <1>3, <1>4, <1>5
  <2>2. Rings(nx, pv, ky, e) /\ e \in Entry
    BY <1>4
  <2> QED BY <1>7, <2>1, <2>2, RingsOff, Zenon
<1>9. TypeOK'
  BY <1>2, <1>3, <1>4, <1>6 DEF TypeOK
<1>10. Reading(nx2, pv2, ky2, vl2, Null, shared, rkey, rpos, seen)
  <2>1. Reading(nx, pv, ky, vl, e, shared, rkey, rpos, seen)
    BY <1>1 DEF HashInv
  <2>2. ~shared
    BY <1>4
  <2> QED BY <2>1, <2>2, Zenon DEF Reading
<1>11. Writing(next, prev, key, value, went, wpc, arg, shared)'
  BY <1>3 DEF Writing
<1>12. Down(alive, wpc, shared, key)'
  BY <1>3 DEF HashInv, Down
<1> QED
  BY <1>2, <1>3, <1>8, <1>9, <1>10, <1>11, <1>12 DEF HashInv

LEMMA EmptiedKeeps ==
  ASSUME HashInv, ~shared, wpc = "idle", Emptied, alive' \in BOOLEAN, shared' = shared,
         wpc' = wpc, went' = went, arg' = arg, UNCHANGED readers, Observe
  PROVE  HashInv'
<1>1. PICK ky, vl : ky = key' /\ vl = value'
  OBVIOUS
<1>2. /\ ky = [e \in Entry |-> Null] /\ vl = [e \in Entry |-> Null]
      /\ next' = EmptyRing /\ prev' = EmptyRing
      /\ rkey' = rkey /\ rpos' = rpos /\ answer' = answer
  BY <1>1 DEF Emptied, readers
<1>3. TypeOK
  BY DEF HashInv
<1>4. Rings(EmptyRing, EmptyRing, ky, went)
  <2>1. \A e \in Entry : ky[e] = Null
    BY <1>2
  <2> QED BY <2>1, RingsEmpty, Zenon
<1>5. /\ rkey \in [Reader -> Key \cup {Null}]
      /\ seen \in [Reader -> SUBSET (Value \cup {Null})]
      /\ vl \in [Entry -> Value \cup {Null}]
  BY <1>2, <1>3 DEF TypeOK
<1>6. Observes(EmptyRing, ky, vl, rkey, seen, seen')
  BY <1>1, <1>2, ObserveIs
<1>7. seen' \in [Reader -> SUBSET (Value \cup {Null})]
  BY <1>4, <1>5, <1>6, ObserveFacts
<1>8. EmptyRing \in [Cell -> Cell \cup {Null}]
  BY DEF EmptyRing
<1>9. TypeOK'
  BY <1>1, <1>2, <1>3, <1>7, <1>8 DEF TypeOK
<1>10. Reading(EmptyRing, EmptyRing, ky, vl, went, shared, rkey, rpos, seen')
  <2>1. Reading(next, prev, key, value, went, shared, rkey, rpos, seen)
    BY DEF HashInv
  <2> QED BY <2>1, Zenon DEF Reading
<1>11. Writing(next, prev, key, value, went, wpc, arg, shared)'
  BY DEF Writing
<1>12. Down(alive, wpc, shared, key)'
  BY <1>1, <1>2 DEF Down
<1> QED
  BY <1>1, <1>2, <1>4, <1>9, <1>10, <1>11, <1>12 DEF HashInv

LEMMA InitAgainKeeps ==
  ASSUME HashInv, hashmap_init, shared' = shared
  PROVE  HashInv'
<1>1. /\ ~alive /\ alive' = TRUE /\ next' = EmptyRing /\ prev' = EmptyRing
      /\ key' = key /\ value' = value /\ wpc' = wpc /\ went' = went /\ arg' = arg
      /\ rkey' = rkey /\ rpos' = rpos /\ answer' = answer /\ seen' = seen
  BY DEF hashmap_init, fields, readers
<1>2. ~shared /\ wpc = "idle" /\ \A e \in Entry : key[e] = Null
  BY <1>1 DEF HashInv, Down
<1>3. EmptyRing \in [Cell -> Cell \cup {Null}]
  BY DEF EmptyRing
<1>4. TypeOK'
  BY <1>1, <1>3 DEF HashInv, TypeOK
<1>5. PICK ky, w : ky = key /\ w = went
  OBVIOUS
<1>6. Rings(EmptyRing, EmptyRing, ky, w)
  <2>1. \A e \in Entry : ky[e] = Null
    BY <1>2, <1>5
  <2> QED BY <2>1, RingsEmpty, Zenon
<1>7. Reading(EmptyRing, EmptyRing, key, value, went, shared, rkey, rpos, seen)
  <2>1. Reading(next, prev, key, value, went, shared, rkey, rpos, seen)
    BY DEF HashInv
  <2>2. ~shared
    BY <1>2
  <2> QED BY <2>1, <2>2, Zenon DEF Reading
<1>8. Writing(next, prev, key, value, went, wpc, arg, shared)'
  BY <1>1, <1>2 DEF Writing
<1>9. Down(alive, wpc, shared, key)'
  BY <1>1 DEF Down
<1> QED
  BY <1>1, <1>4, <1>5, <1>6, <1>7, <1>8, <1>9 DEF HashInv

(* A reader's step leaves the table and the other readers alone. *)
Moves(r, rk2, rp2, sn2) ==
  /\ UNCHANGED <<shared, alive, ring, fields, wpc, went, arg>>
  /\ rkey' = [rkey EXCEPT ![r] = rk2]
  /\ rpos' = [rpos EXCEPT ![r] = rp2]
  /\ seen' = [seen EXCEPT ![r] = sn2]
  /\ answer' \in [Reader -> Value \cup {Null}]

OnItsWay(rk2, rp2, sn2) ==
  /\ rk2 \in Key \cup {Null} /\ rp2 \in Cell \cup {Null} /\ sn2 \subseteq Value \cup {Null}
  /\ rk2 # Null => /\ shared
                   /\ Ahead(next, prev, key, went, hashmap_bucket(rk2), rp2, rk2, sn2)
                   /\ ValueAt(next, key, value, rk2) \in sn2

LEMMA ReaderKeeps ==
  ASSUME HashInv, NEW r \in Reader, NEW rk2, NEW rp2, NEW sn2,
         Moves(r, rk2, rp2, sn2), OnItsWay(rk2, rp2, sn2)
  PROVE  HashInv'
<1>1. /\ shared' = shared /\ alive' = alive /\ next' = next /\ prev' = prev /\ key' = key
      /\ value' = value /\ wpc' = wpc /\ went' = went /\ arg' = arg
  BY DEF ring, fields, Moves
<1>2. TypeOK'
  BY <1>1 DEF HashInv, TypeOK, Moves, OnItsWay
<1>3. PICK rk, rp, sn : rk = rkey' /\ rp = rpos' /\ sn = seen'
  OBVIOUS
<1>4. /\ rk[r] = rk2 /\ rp[r] = rp2 /\ sn[r] = sn2
      /\ \A q \in Reader : q # r => rk[q] = rkey[q] /\ rp[q] = rpos[q] /\ sn[q] = seen[q]
  BY <1>3 DEF HashInv, TypeOK, Moves
<1>5. Reading(next, prev, key, value, went, shared, rk, rp, sn)
  <2>1. SUFFICES ASSUME NEW q \in Reader, rk[q] # Null
        PROVE  /\ shared
               /\ Ahead(next, prev, key, went, hashmap_bucket(rk[q]), rp[q], rk[q], sn[q])
               /\ ValueAt(next, key, value, rk[q]) \in sn[q]
    BY Zenon DEF Reading
  <2>2. CASE q = r
    BY <1>4, <2>1, <2>2 DEF OnItsWay
  <2>3. CASE q # r
    <3>1. rk[q] = rkey[q] /\ rp[q] = rpos[q] /\ sn[q] = seen[q]
      BY <1>4, <2>3
    <3>2. Reading(next, prev, key, value, went, shared, rkey, rpos, seen)
      BY DEF HashInv
    <3> QED BY <2>1, <3>1, <3>2, Zenon DEF Reading
  <2> QED BY <2>2, <2>3
<1> QED
  BY <1>1, <1>2, <1>3, <1>5 DEF HashInv

(* What a reader may return is what its key was bound to. *)
LEMMA ReaderFinds ==
  ASSUME HashInv, NEW r \in Reader, rkey[r] # Null
  PROVE  /\ rpos[r] \in Cell
         /\ rpos[r] = hashmap_bucket(rkey[r]) => Null \in seen[r]
         /\ rpos[r] # hashmap_bucket(rkey[r]) => rpos[r] \in Entry
         /\ rpos[r] # hashmap_bucket(rkey[r]) /\ key[rpos[r]] = rkey[r] =>
              value[rpos[r]] \in seen[r]
         /\ rpos[r] # hashmap_bucket(rkey[r]) /\ key[rpos[r]] # rkey[r] =>
              Ahead(next, prev, key, went, hashmap_bucket(rkey[r]), next[rpos[r]],
                    rkey[r], seen[r])
<1>1. PICK nx, pv, ky, w, vl : nx = next /\ pv = prev /\ ky = key /\ w = went /\ vl = value
  OBVIOUS
<1>2. PICK p, s : p = rpos[r] /\ s = seen[r]
  OBVIOUS
<1>3. PICK k \in Key : k = rkey[r]
  BY DEF HashInv, TypeOK
<1>4. PICK b \in Bucket : b = hashmap_bucket(k)
  BY BucketFacts
<1>5. Ahead(nx, pv, ky, w, b, p, k, s) /\ ValueAt(nx, ky, vl, k) \in s
  BY <1>1, <1>2, <1>3, <1>4, Zenon DEF HashInv, Reading
<1>6. Rings(nx, pv, ky, w)
  BY <1>1 DEF HashInv
<1>7. /\ p \in Cell
      /\ p = b => Null \in s
      /\ p # b => p \in Entry /\ p # w
      /\ p # b /\ ky[p] # k => Ahead(nx, pv, ky, w, b, nx[p], k, s)
  BY <1>5, WalkIsAt
<1>8. ASSUME p # b, ky[p] = k PROVE vl[p] \in s
  <2>1. PICK q \in Entry \cup {Null} :
           Holder(ky, w, k, q) /\ ValueAt(nx, ky, vl, k) = IF q = Null THEN Null ELSE vl[q]
    BY <1>6, HolderExists
  <2>2. p \in Entry /\ p # w /\ Null \notin Entry
    BY <1>7, <1>8, HashMapAssumption
  <2>3. q = p
    BY <1>8, <2>1, <2>2 DEF Holder
  <2> QED BY <1>5, <2>1, <2>2, <2>3
<1> QED
  BY <1>1, <1>2, <1>3, <1>4, <1>7, <1>8, Zenon

LEMMA GetReturnKeeps ==
  ASSUME HashInv, NEW r \in Reader, NEW v \in Value \cup {Null}, GetReturn(r, v),
         shared' = shared
  PROVE  HashInv'
<1>1. answer' \in [Reader -> Value \cup {Null}]
  BY DEF GetReturn, HashInv, TypeOK
<1>2. PICK rk2, rp2, sn2 : rk2 = Null /\ rp2 = Null /\ sn2 = {}
  OBVIOUS
<1>3. /\ UNCHANGED <<shared, alive, ring, fields, wpc, went, arg>>
      /\ rkey' = [rkey EXCEPT ![r] = rk2] /\ rpos' = [rpos EXCEPT ![r] = rp2]
      /\ seen' = [seen EXCEPT ![r] = sn2]
  BY <1>2 DEF GetReturn
<1>4. rk2 \in Key \cup {Null} /\ rp2 \in Cell \cup {Null} /\ sn2 \subseteq Value \cup {Null}
  BY <1>2
<1>5. ~(rk2 # Null)
  BY <1>2
<1> QED
  <2>1. Moves(r, rk2, rp2, sn2)
    BY <1>1, <1>3 DEF Moves
  <2>2. OnItsWay(rk2, rp2, sn2)
    BY <1>4, <1>5 DEF OnItsWay
  <2> QED BY <2>1, <2>2, ReaderKeeps, Zenon

LEMMA GetNextKeeps ==
  ASSUME HashInv, NEW r \in Reader, GetNext(r), shared' = shared
  PROVE  HashInv'
<1>1. /\ rkey[r] # Null /\ rpos[r] # hashmap_bucket(rkey[r]) /\ key[rpos[r]] # rkey[r]
      /\ UNCHANGED <<shared, alive, ring, fields, wpc, went, arg>>
      /\ rpos' = [rpos EXCEPT ![r] = next[rpos[r]]]
      /\ rkey' = rkey /\ seen' = seen /\ answer' = answer
  BY DEF GetNext
<1>2. PICK rk2, rp2, sn2 : rk2 = rkey[r] /\ rp2 = next[rpos[r]] /\ sn2 = seen[r]
  OBVIOUS
<1>3. /\ rkey' = [rkey EXCEPT ![r] = rk2] /\ rpos' = [rpos EXCEPT ![r] = rp2]
      /\ seen' = [seen EXCEPT ![r] = sn2]
  BY <1>1, <1>2 DEF HashInv, TypeOK
<1>4. /\ rk2 \in Key \cup {Null} /\ sn2 \subseteq Value \cup {Null}
      /\ answer' \in [Reader -> Value \cup {Null}]
      /\ next \in [Cell -> Cell \cup {Null}]
  BY <1>1, <1>2 DEF HashInv, TypeOK
<1>5. /\ rpos[r] \in Cell
      /\ Ahead(next, prev, key, went, hashmap_bucket(rk2), rp2, rk2, sn2)
  BY <1>1, <1>2, ReaderFinds
<1>6. rp2 \in Cell \cup {Null}
  BY <1>2, <1>4, <1>5
<1>7. shared /\ ValueAt(next, key, value, rk2) \in sn2
  BY <1>1, <1>2, Zenon DEF HashInv, Reading
<1> QED
  <2>1. Moves(r, rk2, rp2, sn2)
    BY <1>1, <1>3, <1>4 DEF Moves
  <2>2. OnItsWay(rk2, rp2, sn2)
    BY <1>4, <1>5, <1>6, <1>7 DEF OnItsWay
  <2> QED BY <2>1, <2>2, ReaderKeeps, Zenon

LEMMA GetBeginKeeps ==
  ASSUME HashInv, NEW r \in Reader, NEW k \in Key, GetBegin(r, k), shared' = shared
  PROVE  HashInv'
<1>1. PICK rk2, rp2, sn2 : /\ rk2 = k /\ rp2 = next[hashmap_bucket(k)]
                           /\ sn2 = {hashmap_get(k)}
  OBVIOUS
<1>2. /\ shared
      /\ UNCHANGED <<shared, alive, ring, fields, wpc, went, arg>>
      /\ rkey' = [rkey EXCEPT ![r] = rk2] /\ rpos' = [rpos EXCEPT ![r] = rp2]
      /\ seen' = [seen EXCEPT ![r] = sn2] /\ answer' = answer
  BY <1>1 DEF GetBegin
<1>3. PICK nx, pv, ky, w, vl : nx = next /\ pv = prev /\ ky = key /\ w = went /\ vl = value
  OBVIOUS
<1>4. /\ Rings(nx, pv, ky, w) /\ vl \in [Entry -> Value \cup {Null}]
      /\ nx \in [Cell -> Cell \cup {Null}] /\ answer' \in [Reader -> Value \cup {Null}]
  BY <1>2, <1>3 DEF HashInv, TypeOK
<1>5. PICK s \in Entry \cup {Null} :
         /\ Holder(ky, w, k, s) /\ s = Search(nx, ky, k)
         /\ ValueAt(nx, ky, vl, k) = IF s = Null THEN Null ELSE vl[s]
  BY <1>4, HolderExists
<1>6. sn2 = {ValueAt(nx, ky, vl, k)}
  BY <1>1, <1>3 DEF hashmap_get, Find, ValueAt
<1>7. PICK b \in Bucket : b = hashmap_bucket(k)
  BY BucketFacts
<1>8. Null \in sn2 \/ \E e \in Entry : e # w /\ ky[e] = k
  BY <1>5, <1>6 DEF Holder
<1>9. Ahead(nx, pv, ky, w, b, nx[b], k, sn2)
  BY <1>4, <1>7, <1>8, WalkBegins
<1>10. /\ rk2 \in Key \cup {Null} /\ rp2 \in Cell \cup {Null}
       /\ sn2 \subseteq Value \cup {Null}
  <2>1. ValueAt(nx, ky, vl, k) \in Value \cup {Null}
    BY <1>4, <1>5
  <2>2. b \in Cell
    BY BucketFacts
  <2> QED BY <1>1, <1>3, <1>4, <1>6, <1>7, <2>1, <2>2
<1>11. /\ Ahead(next, prev, key, went, hashmap_bucket(rk2), rp2, rk2, sn2)
       /\ ValueAt(next, key, value, rk2) \in sn2
  BY <1>1, <1>3, <1>6, <1>7, <1>9
<1> QED
  <2>1. Moves(r, rk2, rp2, sn2)
    BY <1>2, <1>4 DEF Moves
  <2>2. OnItsWay(rk2, rp2, sn2)
    BY <1>2, <1>10, <1>11 DEF OnItsWay
  <2> QED BY <2>1, <2>2, ReaderKeeps, Zenon

LEMMA NextKeeps ==
  ASSUME HashInv, [Next]_vars
  PROVE  HashInv'
<1>1. CASE UNCHANGED vars
  <2>1. /\ shared' = shared /\ alive' = alive /\ next' = next /\ prev' = prev /\ key' = key
        /\ value' = value /\ wpc' = wpc /\ went' = went /\ arg' = arg /\ rkey' = rkey
        /\ rpos' = rpos /\ answer' = answer /\ seen' = seen
    BY <1>1 DEF vars, ring, fields, readers
  <2>2. TypeOK'
    BY <2>1 DEF HashInv, TypeOK
  <2> QED BY <2>1, <2>2 DEF HashInv
<1>2. CASE Next
  <2>1. shared' = shared
    BY <1>2 DEF Next
  <2>2. ASSUME NEW k \in Key, NEW v \in Value, PutReplace(k, v) PROVE HashInv'
    BY <2>1, <2>2, PutReplaceKeeps
  <2>3. ASSUME NEW k \in Key, NEW v \in Value, NEW e \in Entry, PutEntry(k, v, e) PROVE HashInv'
    BY <2>1, <2>3, PutEntryKeeps
  <2>4. ASSUME PutLink PROVE HashInv'
    BY <2>1, <2>4, PutLinkKeeps
  <2>5. ASSUME NEW k \in Key, RemoveUnlink(k) PROVE HashInv'
    BY <2>1, <2>5, RemoveUnlinkKeeps
  <2>6. ASSUME RemoveFree PROVE HashInv'
    BY <2>1, <2>6, RemoveFreeKeeps
  <2>7. ASSUME hashmap_clear \/ hashmap_destroy PROVE HashInv'
    <3>1. /\ ~shared /\ wpc = "idle" /\ Emptied /\ UNCHANGED readers /\ Observe
          /\ wpc' = wpc /\ went' = went /\ arg' = arg /\ alive' \in BOOLEAN
      BY <2>7 DEF hashmap_clear, hashmap_destroy, Quiet, HashInv, TypeOK
    <3> QED BY <2>1, <3>1, EmptiedKeeps
  <2>8. ASSUME hashmap_init PROVE HashInv'
    BY <2>1, <2>8, InitAgainKeeps
  <2>9. ASSUME NEW r \in Reader, GetMiss(r) \/ GetHit(r) PROVE HashInv'
    <3>1. rkey[r] # Null
      BY <2>9 DEF GetMiss, GetHit
    <3>2. \E v \in Value \cup {Null} : GetReturn(r, v)
      <4>1. CASE GetMiss(r)
        BY <4>1 DEF GetMiss
      <4>2. CASE GetHit(r)
        <5>1. rpos[r] \in Entry
          BY <3>1, <4>2, ReaderFinds DEF GetHit
        <5>2. value[rpos[r]] \in Value \cup {Null}
          BY <5>1 DEF HashInv, TypeOK
        <5> QED BY <4>2, <5>2, Zenon DEF GetHit
      <4> QED BY <2>9, <4>1, <4>2
    <3> QED BY <2>1, <3>2, GetReturnKeeps
  <2>10. ASSUME NEW r \in Reader, GetNext(r) PROVE HashInv'
    BY <2>1, <2>10, GetNextKeeps
  <2>11. ASSUME NEW r \in Reader, NEW k \in Key, GetBegin(r, k) PROVE HashInv'
    BY <2>1, <2>11, GetBeginKeeps
  <2> QED BY <1>2, <2>2, <2>3, <2>4, <2>5, <2>6, <2>7, <2>8, <2>9, <2>10, <2>11, Zenon DEF Next, Get
<1> QED
  BY <1>1, <1>2

-----------------------------------------------------------------------------
(* RingOf collects the cells of the ring.                                  *)
Collects(nx, b, n, f) ==
  f = [i \in 0 .. n |-> IF i = 0 THEN {b} ELSE f[i - 1] \cup {nx[c] : c \in f[i - 1]}]

LEMMA CollectsExist ==
  ASSUME NEW nx, NEW b, NEW n \in Nat
  PROVE  \E f : Collects(nx, b, n, f)
<1> DEFINE Bad == {m \in Nat : ~\E f : Collects(nx, b, m, f)}
<1>1. SUFFICES ASSUME Bad # {} PROVE FALSE
  OBVIOUS
<1>2. Bad \in SUBSET Nat
  OBVIOUS
<1>3. PICK m \in Bad : \A j \in Bad : m <= j
  BY <1>1, <1>2, LeastNumber
<1>4. m \in Nat /\ ~\E f : Collects(nx, b, m, f)
  BY <1>3
<1>5. m # 0
  <2>1. PICK f : f = [i \in 0 .. 0 |-> {b}]
    OBVIOUS
  <2>2. f = [i \in 0 .. 0 |-> IF i = 0 THEN {b} ELSE f[i - 1] \cup {nx[c] : c \in f[i - 1]}]
    BY <2>1
  <2>3. Collects(nx, b, 0, f)
    BY <2>2, Zenon DEF Collects
  <2> QED BY <1>4, <2>3
<1>6. PICK j \in Nat : j = m - 1
  <2>1. m - 1 \in Nat
    BY <1>4, <1>5
  <2> QED BY <2>1
<1>7. PICK g : Collects(nx, b, j, g)
  <2>1. ~(m <= j)
    BY <1>4, <1>6
  <2>2. j \notin Bad
    <3> HIDE DEF Bad
    <3> QED BY <1>3, <2>1
  <2> QED BY <2>2
<1>8. PICK h : h = [i \in 0 .. m |->
                      IF i = 0 THEN {b} ELSE g[i - 1] \cup {nx[c] : c \in g[i - 1]}]
  OBVIOUS
<1>9. ASSUME NEW i \in 0 .. j PROVE h[i] = g[i]
  <2>1. i \in 0 .. m
    BY <1>4, <1>6
  <2>2. h[i] = IF i = 0 THEN {b} ELSE g[i - 1] \cup {nx[c] : c \in g[i - 1]}
    BY <1>8, <2>1
  <2>3. PICK q : q = [x \in 0 .. j |->
                        IF x = 0 THEN {b} ELSE g[x - 1] \cup {nx[c] : c \in g[x - 1]}]
    OBVIOUS
  <2>4. g = q
    BY <1>7, <2>3, Zenon DEF Collects
  <2>5. q[i] = IF i = 0 THEN {b} ELSE g[i - 1] \cup {nx[c] : c \in g[i - 1]}
    BY <2>3
  <2> QED BY <2>2, <2>4, <2>5
<1>10. ASSUME NEW i \in 0 .. m, i # 0 PROVE h[i - 1] = g[i - 1]
  <2>1. i - 1 \in 0 .. j
    BY <1>4, <1>6, <1>10
  <2> QED BY <1>9, <2>1
<1>11. h = [i \in 0 .. m |->
              IF i = 0 THEN {b} ELSE h[i - 1] \cup {nx[c] : c \in h[i - 1]}]
  BY <1>8, <1>10
<1> QED
  BY <1>4, <1>11, Zenon DEF Collects

CellsOf(b, n, at) == \A c : c \in RingOf(b) <=> \E j \in 0 .. n : c = at[j]

LEMMA RingOfIs ==
  ASSUME NEW nx, nx = next, NEW pv, NEW ky, NEW w, NEW b \in Bucket, NEW n, NEW at,
         RingIs(nx, pv, ky, w, b, n, at)
  PROVE  CellsOf(b, n, at)
<1>1. PICK N \in Nat : N = Cardinality(Entry) /\ n \in Nat /\ n <= N
  BY RingCount
<1>2. PICK f : f = CHOOSE g : Collects(nx, b, N, g)
  OBVIOUS
<1>3. Collects(nx, b, N, f)
  BY <1>2, CollectsExist, Zenon
<1>4. RingOf(b) = f[N]
  BY <1>1, <1>2 DEF RingOf, Collects
<1>5. ASSUME NEW i \in 0 .. N
      PROVE  f[i] = IF i = 0 THEN {b} ELSE f[i - 1] \cup {nx[c] : c \in f[i - 1]}
  <2>1. PICK q : q = [x \in 0 .. N |->
                        IF x = 0 THEN {b} ELSE f[x - 1] \cup {nx[c] : c \in f[x - 1]}]
    OBVIOUS
  <2>2. f = q
    BY <1>3, <2>1, Zenon DEF Collects
  <2>3. q[i] = IF i = 0 THEN {b} ELSE f[i - 1] \cup {nx[c] : c \in f[i - 1]}
    BY <2>1
  <2> QED BY <2>2, <2>3
<1>6. /\ at[0] = b /\ at[n + 1] = b
      /\ \A i \in 0 .. n : nx[at[i]] = at[i + 1]
  BY DEF RingIs
<1> DEFINE Good(i) == \A c : c \in f[i] <=> \E j \in 0 .. n : j <= i /\ c = at[j]
           Bad == {i \in 0 .. N : ~Good(i)}
<1>7. ASSUME Bad # {} PROVE FALSE
  <2>1. Bad \in SUBSET Nat
    OBVIOUS
  <2>2. PICK i \in Bad : \A j \in Bad : i <= j
    BY <1>7, <2>1, LeastNumber
  <2>3. i \in 0 .. N /\ ~Good(i)
    BY <2>2
  <2>4. i # 0
    <3>1. f[0] = {b}
      <4>1. 0 \in 0 .. N
        BY <1>1
      <4> QED BY <1>5, <4>1
    <3>2. \A j \in 0 .. n : j <= 0 <=> j = 0
      BY <1>1
    <3>3. 0 \in 0 .. n
      BY <1>1
    <3>4. Good(0)
      BY <1>6, <3>1, <3>2, <3>3
    <3> HIDE DEF Good
    <3> QED BY <2>3, <3>4
  <2>5. PICK g \in 0 .. N : g = i - 1
    <3>1. i - 1 \in 0 .. N
      BY <1>1, <2>3, <2>4
    <3> QED BY <3>1
  <2>6. Good(g)
    <3>1. ~(i <= g)
      BY <2>3, <2>5
    <3>2. g \notin Bad
      <4> HIDE DEF Bad
      <4> QED BY <2>2, <3>1
    <3> HIDE DEF Good
    <3> QED BY <3>2
  <2>7. f[i] = f[g] \cup {nx[c] : c \in f[g]}
    BY <1>5, <2>3, <2>4, <2>5
  <2>8. ASSUME NEW c, c \in f[i] PROVE \E j \in 0 .. n : j <= i /\ c = at[j]
    <3>1. CASE c \in f[g]
      <4>1. PICK j \in 0 .. n : j <= g /\ c = at[j]
        BY <2>6, <3>1
      <4>2. j <= i
        BY <1>1, <2>3, <2>5, <4>1
      <4> QED BY <4>1, <4>2
    <3>2. CASE c \in {nx[d] : d \in f[g]}
      <4>1. PICK d \in f[g] : c = nx[d]
        BY <3>2
      <4>2. PICK j \in 0 .. n : j <= g /\ d = at[j]
        BY <2>6, <4>1
      <4>3. c = at[j + 1]
        BY <1>6, <4>1, <4>2
      <4>4. CASE j = n
        <5>1. 0 \in 0 .. n /\ 0 <= i
          BY <1>1, <2>3
        <5>2. c = at[0]
          BY <1>6, <4>3, <4>4
        <5> QED BY <5>1, <5>2
      <4>5. CASE j # n
        <5>1. j + 1 \in 0 .. n /\ j + 1 <= i
          BY <1>1, <2>3, <2>5, <4>2, <4>5
        <5> QED BY <4>3, <5>1
      <4> QED BY <4>4, <4>5
    <3> QED BY <2>7, <2>8, <3>1, <3>2
  <2>9. ASSUME NEW c, NEW j \in 0 .. n, j <= i, c = at[j] PROVE c \in f[i]
    <3>1. CASE j <= g
      <4>1. c \in f[g]
        BY <2>6, <2>9, <3>1
      <4> QED BY <2>7, <4>1
    <3>2. CASE ~(j <= g)
      <4>1. PICK h \in 0 .. n : h = g /\ h + 1 = j
        <5>1. g \in 0 .. n /\ g + 1 = j
          BY <1>1, <2>3, <2>5, <2>9, <3>2
        <5> QED BY <5>1
      <4>2. h <= g
        BY <1>1, <4>1
      <4>3. at[h] \in f[g]
        BY <2>6, <4>1, <4>2
      <4>4. c = nx[at[h]]
        BY <1>6, <2>9, <4>1
      <4> QED BY <2>7, <4>3, <4>4
    <3> QED BY <3>1, <3>2
  <2>10. Good(i)
    BY <2>8, <2>9
  <2> HIDE DEF Good
  <2> QED BY <2>3, <2>10
<1>8. Good(N)
  <2>1. N \in 0 .. N
    BY <1>1
  <2>2. N \notin Bad
    BY <1>7
  <2> HIDE DEF Good
  <2> QED BY <2>1, <2>2
<1>9. \A j \in 0 .. n : j <= N
  BY <1>1
<1>10. \A c : c \in f[N] <=> \E j \in 0 .. n : c = at[j]
  BY <1>8, <1>9, Zenon
<1> QED
  BY <1>4, <1>10, Zenon DEF CellsOf

LEMMA InvMeansIntact ==
  HashInv => RingsIntact
<1>1. SUFFICES ASSUME HashInv PROVE RingsIntact
  OBVIOUS
<1>2. PICK nx, pv, ky, w : nx = next /\ pv = prev /\ ky = key /\ w = went
  OBVIOUS
<1>3. TypeOK /\ Rings(nx, pv, ky, w) /\ ky \in [Entry -> Key \cup {Null}]
  BY <1>1, <1>2 DEF HashInv, TypeOK
<1>4. ASSUME NEW b \in Bucket
      PROVE  /\ \A c \in RingOf(b) : nx[c] # Null /\ pv[nx[c]] = c
             /\ \A c \in RingOf(b) \ {b} : c \in Entry /\ ky[c] # Null /\ hashmap_bucket(ky[c]) = b
             /\ \A c, d \in RingOf(b) \ {b} : ky[c] = ky[d] => c = d
             /\ \A e \in Entry : e # w /\ ky[e] # Null /\ hashmap_bucket(ky[e]) = b =>
                                   e \in RingOf(b)
  <2>1. PICK n, at : RingIs(nx, pv, ky, w, b, n, at)
    BY <1>3, Zenon DEF Rings
  <2>2. \A c : c \in RingOf(b) <=> \E j \in 0 .. n : c = at[j]
    <3>1. CellsOf(b, n, at)
      BY <1>2, <2>1, RingOfIs, Zenon
    <3> QED BY <3>1, Zenon DEF CellsOf
  <2>3. /\ n \in Nat /\ at \in [0 .. n + 1 -> Cell] /\ at[0] = b
        /\ \A i \in 0 .. n : nx[at[i]] = at[i + 1] /\ pv[at[i + 1]] = at[i]
        /\ \A i \in 1 .. n : at[i] \in Entry /\ ky[at[i]] \in Key
                             /\ hashmap_bucket(ky[at[i]]) = b
    BY <2>1 DEF RingIs
  <2>4. Null \notin Cell /\ Null \notin Key
    BY BucketFacts, HashMapAssumption
  <2>5. ASSUME NEW c \in RingOf(b) PROVE nx[c] # Null /\ pv[nx[c]] = c
    <3>1. PICK j \in 0 .. n : c = at[j]
      BY <2>2, <2>5
    <3>2. j + 1 \in 0 .. n + 1
      BY <2>3
    <3>3. at[j + 1] \in Cell
      BY <2>3, <3>2
    <3> QED BY <2>3, <2>4, <3>1, <3>3
  <2>6. ASSUME NEW c \in RingOf(b), c # b PROVE \E j \in 1 .. n : c = at[j]
    <3>1. PICK j \in 0 .. n : c = at[j]
      BY <2>2, <2>6
    <3>2. j \in 1 .. n
      BY <2>3, <2>6, <3>1
    <3> QED BY <3>1, <3>2
  <2>7. ASSUME NEW c \in RingOf(b), c # b
        PROVE  c \in Entry /\ ky[c] # Null /\ hashmap_bucket(ky[c]) = b
    <3>1. PICK j \in 1 .. n : c = at[j]
      BY <2>6, <2>7
    <3> QED BY <2>3, <2>4, <3>1
  <2>8. ASSUME NEW c \in RingOf(b), c # b, NEW d \in RingOf(b), d # b, ky[c] = ky[d]
        PROVE  c = d
    <3>1. PICK i \in 1 .. n : c = at[i]
      BY <2>6, <2>8
    <3>2. PICK j \in 1 .. n : d = at[j]
      BY <2>6, <2>8
    <3>3. \A x, y \in 1 .. n : ky[at[x]] = ky[at[y]] => x = y
      BY <2>1, Zenon DEF RingIs
    <3> QED BY <2>8, <3>1, <3>2, <3>3
  <2>9. ASSUME NEW e \in Entry, e # w, ky[e] # Null, hashmap_bucket(ky[e]) = b
        PROVE  e \in RingOf(b)
    <3>1. \E i \in 1 .. n : at[i] = e
      BY <2>1, <2>9 DEF RingIs
    <3>2. PICK i \in 1 .. n : at[i] = e
      BY <3>1
    <3>3. i \in 0 .. n
      BY <2>3
    <3> QED BY <2>2, <3>2, <3>3
  <2> QED BY <2>5, <2>7, <2>8, <2>9
<1>5. ASSUME NEW e \in Entry \ {w}
      PROVE  ky[e] # Null <=> \E b \in Bucket : e \in RingOf(b)
  <2>1. ASSUME ky[e] # Null PROVE \E b \in Bucket : e \in RingOf(b)
    <3>1. hashmap_bucket(ky[e]) \in Bucket
      BY <1>3, <2>1, BucketFacts
    <3> QED BY <1>4, <2>1, <3>1
  <2>2. ASSUME NEW b \in Bucket, e \in RingOf(b) PROVE ky[e] # Null
    <3>1. e # b
      BY BucketFacts
    <3> QED BY <1>4, <2>2, <3>1
  <2> QED BY <2>1, <2>2
<1> QED
  BY <1>2, <1>3, <1>4, <1>5 DEF RingsIntact

(* For every hash function and every number of buckets, keys, entries and  *)
(* readers: the rings of hashmap.c stay closed, doubly linked and complete *)
(* through every interleaving of the writer's stores.                      *)
THEOREM RingsStayIntact == Spec => []RingsIntact
<1>1. Init => HashInv
  BY InitHolds
<1>2. HashInv /\ [Next]_vars => HashInv'
  BY NextKeeps
<1>3. HashInv => RingsIntact
  BY InvMeansIntact
<1> QED
  BY <1>1, <1>2, <1>3, PTL DEF Spec

-----------------------------------------------------------------------------
(* The refinement.  The table the rings stand for, and a reader's lookup.  *)
TableNow == [k \in Key |-> ValueAt(next, key, value, k)]

LookupNow == [r \in Reader |-> IF rkey[r] = Null THEN Null
                               ELSE [key |-> rkey[r], seen |-> seen[r]]]

LEMMA TableIs ==
  TableNow = [k \in Key |-> hashmap_get(k)]
BY DEF TableNow, hashmap_get, Find, ValueAt

LEMMA TableIsPrimed ==
  TableNow' = [k \in Key |-> hashmap_get(k)]'
BY DEF TableNow, hashmap_get, Find, ValueAt

(* A store that readers can see changes the table. *)
LEMMA BecomeStep ==
  ASSUME TypeOK, rkey' = rkey, answer' = answer,
         Observes(next', key', value', rkey, seen, seen'), NEW t, t = TableNow'
  PROVE  Table!Become(t)
<1>1. t = TableNow'
  OBVIOUS
<1>2. /\ rkey \in [Reader -> Key \cup {Null}]
      /\ seen \in [Reader -> SUBSET (Value \cup {Null})]
  BY DEF TypeOK
<1>3. \A k \in Key : ValueAt(next', key', value', k) = t[k]
  BY <1>1 DEF TableNow
<1>4. seen' = [r \in Reader |-> IF rkey[r] = Null THEN seen[r] ELSE seen[r] \cup {t[rkey[r]]}]
  BY <1>2, <1>3 DEF Observes
<1>5. PICK l, l2 : l = LookupNow /\ l2 = LookupNow'
  OBVIOUS
<1>6. ASSUME NEW r \in Reader
      PROVE  l2[r] = IF l[r] = Null THEN Null
                     ELSE [l[r] EXCEPT !.seen = @ \cup {t[l[r].key]}]
  <2>1. CASE rkey[r] = Null
    BY <1>5, <2>1 DEF LookupNow
  <2>2. CASE rkey[r] # Null
    <3>1. PICK k \in Key, s \in SUBSET (Value \cup {Null}) : k = rkey[r] /\ s = seen[r]
      BY <1>2, <2>2
    <3>2. l[r] = [key |-> k, seen |-> s]
      BY <1>5, <2>2, <3>1 DEF LookupNow
    <3>3. l[r] # Null
      BY <3>2, HashMapAssumption
    <3>4. seen'[r] = s \cup {t[k]}
      BY <1>4, <2>2, <3>1
    <3>5. l2[r] = [key |-> k, seen |-> s \cup {t[k]}]
      BY <1>5, <2>2, <3>1, <3>4 DEF LookupNow
    <3>6. [l[r] EXCEPT !.seen = @ \cup {t[l[r].key]}] = [key |-> k, seen |-> s \cup {t[k]}]
      BY <3>2
    <3> QED BY <3>3, <3>5, <3>6
  <2> QED BY <2>1, <2>2
<1>7. l2 = [r \in Reader |-> IF l[r] = Null THEN Null
                             ELSE [l[r] EXCEPT !.seen = @ \cup {t[l[r].key]}]]
  BY <1>5, <1>6 DEF LookupNow
<1>8. LookupNow' = [r \in Reader |-> IF LookupNow[r] = Null THEN Null
                      ELSE [LookupNow[r] EXCEPT !.seen = @ \cup {t[LookupNow[r].key]}]]
  BY <1>5, <1>7
<1> QED
  BY <1>1, <1>8, TableIsPrimed DEF Table!Become, LookupNow

LEMMA UpdateStep ==
  ASSUME TypeOK, rkey' = rkey, answer' = answer, Observe,
         NEW k \in Key, NEW v \in Value \cup {Null}, arg' = <<k, v>>,
         \A x \in Key : ValueAt(next', key', value', x) =
                          IF x = k THEN v ELSE ValueAt(next, key, value, x)
  PROVE  Table!Next
<1>1. TableNow' = [TableNow EXCEPT ![k] = v]
  BY DEF TableNow
<1>2. PICK t : t = TableNow'
  OBVIOUS
<1>3. t = [[x \in Key |-> hashmap_get(x)] EXCEPT ![k] = v]
  BY <1>1, <1>2, TableIs
<1>4. Table!Become(t)
  BY <1>2, ObserveIs, BecomeStep, Zenon
<1>5. Table!Update(k, v)
  BY <1>3, <1>4 DEF Table!Update, Table!Become
<1> QED
  BY <1>5 DEF Table!Next

LEMMA PutReplaceImplements ==
  ASSUME HashInv, NEW k \in Key, NEW v \in Value, PutReplace(k, v)
  PROVE  Table!Next
<1>1. PICK nx, pv, ky, w, vl : nx = next /\ pv = prev /\ ky = key /\ w = went /\ vl = value
  OBVIOUS
<1>2. PICK e, vl2 : e = Find(k) /\ vl2 = value'
  OBVIOUS
<1>3. /\ next' = nx /\ key' = ky /\ rkey' = rkey /\ answer' = answer /\ Observe
      /\ vl2 = [vl EXCEPT ![e] = v] /\ e # Null /\ arg' = <<k, v>>
  BY <1>1, <1>2 DEF PutReplace, ring, readers, hashmap_contains
<1>4. Rings(nx, pv, ky, w) /\ TypeOK
  BY <1>1 DEF HashInv
<1>5. Holder(ky, w, k, e)
  BY <1>1, <1>2, <1>4, SearchIs, Zenon DEF Find
<1>6. e \in Entry
  BY <1>3, <1>5 DEF Holder
<1>7. AgreeBut(vl2, vl, Entry, e) /\ vl2[e] = v
  BY <1>1, <1>3, <1>4, <1>6 DEF AgreeBut, TypeOK
<1>8. ASSUME NEW x \in Key
      PROVE  ValueAt(nx, ky, vl2, x) = IF x = k THEN v ELSE ValueAt(nx, ky, vl, x)
  <2>1. Rings(nx, pv, ky, w)
    BY <1>4
  <2> QED BY <1>5, <1>6, <1>7, <2>1, ValueReplace
<1>9. \A x \in Key : ValueAt(next', key', value', x) =
                       IF x = k THEN v ELSE ValueAt(next, key, value, x)
  BY <1>1, <1>2, <1>3, <1>8
<1> QED
  BY <1>3, <1>4, <1>9, UpdateStep

LEMMA PutEntryImplements ==
  ASSUME HashInv, HashInv', NEW k \in Key, NEW v \in Value, NEW e \in Entry, PutEntry(k, v, e)
  PROVE  Table!Next
<1>1. PICK nx, pv, ky, w, vl : nx = next /\ pv = prev /\ ky = key /\ w = went /\ vl = value
  OBVIOUS
<1>2. PICK nx2, pv2, ky2, vl2 : nx2 = next' /\ pv2 = prev' /\ ky2 = key' /\ vl2 = value'
  OBVIOUS
<1>3. /\ wpc = "idle" /\ went' = e /\ ky[e] = Null
      /\ ky2 = [ky EXCEPT ![e] = k] /\ vl2 = [vl EXCEPT ![e] = v]
      /\ rkey' = rkey /\ seen' = seen /\ answer' = answer /\ arg' = <<k, v>>
  BY <1>1, <1>2 DEF PutEntry, Quiet, readers
<1>4. Rings(nx, pv, ky, w) /\ Rings(nx2, pv2, ky2, e)
  BY <1>1, <1>2, <1>3 DEF HashInv
<1>5. w = Null /\ ky \in [Entry -> Key \cup {Null}] /\ vl \in [Entry -> Value \cup {Null}]
  BY <1>1, <1>3 DEF HashInv, TypeOK
<1>6. AgreeBut(ky2, ky, Entry, e) /\ AgreeBut(vl2, vl, Entry, e)
  BY <1>3, <1>5 DEF AgreeBut
<1>7. ASSUME NEW x \in Key PROVE ValueAt(nx2, ky2, vl2, x) = ValueAt(nx, ky, vl, x)
  <2>1. w = Null /\ ky[e] = Null
    BY <1>3, <1>5
  <2> QED BY <1>4, <1>6, <2>1, ValueOff
<1>8. TableNow' = TableNow
  BY <1>1, <1>2, <1>7 DEF TableNow
<1>9. LookupNow' = LookupNow
  BY <1>3 DEF LookupNow
<1>10. Table!Ask(k, v)
  BY <1>3, <1>8, <1>9, TableIs, TableIsPrimed DEF Table!Ask, LookupNow
<1> QED
  BY <1>10 DEF Table!Next

LEMMA PutLinkImplements ==
  ASSUME HashInv, HashInv', PutLink
  PROVE  Table!Next
<1>1. PICK nx, pv, ky, e, vl : nx = next /\ pv = prev /\ ky = key /\ e = went /\ vl = value
  OBVIOUS
<1>2. PICK nx2, pv2 : nx2 = next' /\ pv2 = prev'
  OBVIOUS
<1>3. /\ wpc = "link" /\ went' = Null /\ arg' = arg /\ key' = ky /\ value' = vl
      /\ rkey' = rkey /\ answer' = answer /\ Observe
  BY <1>1 DEF PutLink, readers, fields
<1>4. Rings(nx, pv, ky, e) /\ Rings(nx2, pv2, ky, Null) /\ TypeOK
  BY <1>1, <1>2, <1>3 DEF HashInv
<1>5. /\ e \in Entry /\ ky[e] \in Key /\ Ready(nx, pv, ky, e, hashmap_bucket(ky[e]))
      /\ arg = <<ky[e], vl[e]>>
  BY <1>1, <1>3 DEF HashInv, Writing
<1>6. vl[e] \in Value \cup {Null}
  BY <1>1, <1>4, <1>5 DEF TypeOK
<1>7. \A d \in Entry : d # e => ky[d] # ky[e]
  BY <1>5 DEF Ready
<1>8. PICK k \in Key, v \in Value \cup {Null} : k = ky[e] /\ v = vl[e]
  BY <1>5, <1>6
<1>9. ASSUME NEW x \in Key
      PROVE  ValueAt(nx2, ky, vl, x) = IF x = ky[e] THEN vl[e] ELSE ValueAt(nx, ky, vl, x)
  <2>1. e \in Entry
    BY <1>5
  <2> QED BY <1>4, <1>7, <2>1, ValueInsert
<1>10. \A x \in Key : ValueAt(next', key', value', x) =
                        IF x = k THEN v ELSE ValueAt(next, key, value, x)
  BY <1>1, <1>2, <1>3, <1>8, <1>9
<1>11. arg' = <<k, v>>
  BY <1>3, <1>5, <1>8
<1> QED
  BY <1>3, <1>4, <1>10, <1>11, UpdateStep

LEMMA RemoveUnlinkImplements ==
  ASSUME HashInv, HashInv', NEW k \in Key, RemoveUnlink(k)
  PROVE  Table!Next
<1>1. PICK nx, pv, ky, vl : nx = next /\ pv = prev /\ ky = key /\ vl = value
  OBVIOUS
<1>2. PICK e, nx2, pv2 : e = Find(k) /\ nx2 = next' /\ pv2 = prev'
  OBVIOUS
<1>3. /\ wpc = "idle" /\ went' = e /\ e # Null /\ key' = ky /\ value' = vl
      /\ rkey' = rkey /\ answer' = answer /\ Observe /\ arg' = <<k, Null>>
  BY <1>1, <1>2 DEF RemoveUnlink, Quiet, readers, fields, hashmap_contains
<1>4. went = Null
  BY <1>3 DEF HashInv, TypeOK
<1>5. Rings(nx, pv, ky, Null) /\ Rings(nx2, pv2, ky, e) /\ TypeOK
  BY <1>1, <1>2, <1>3, <1>4 DEF HashInv
<1>6. Holder(ky, Null, k, e)
  BY <1>1, <1>2, <1>5, SearchIs, Zenon DEF Find
<1>7. e \in Entry /\ ky[e] = k
  BY <1>3, <1>6 DEF Holder
<1>8. ASSUME NEW x \in Key
      PROVE  ValueAt(nx2, ky, vl, x) = IF x = k THEN Null ELSE ValueAt(nx, ky, vl, x)
  <2>1. Holder(ky, Null, ky[e], e)
    BY <1>6, <1>7
  <2>2. ValueAt(nx2, ky, vl, x) = IF x = ky[e] THEN Null ELSE ValueAt(nx, ky, vl, x)
    BY <1>5, <1>7, <2>1, ValueRemove
  <2> QED BY <1>7, <2>2
<1>9. \A x \in Key : ValueAt(next', key', value', x) =
                       IF x = k THEN Null ELSE ValueAt(next, key, value, x)
  BY <1>1, <1>2, <1>3, <1>8
<1> QED
  BY <1>3, <1>5, <1>9, UpdateStep

(* A table whose entries are all free binds no key. *)
LEMMA ValueEmpty ==
  ASSUME NEW nx, NEW pv, NEW ky, NEW w, Rings(nx, pv, ky, w), NEW vl,
         \A e \in Entry : ky[e] = Null, NEW k \in Key
  PROVE  ValueAt(nx, ky, vl, k) = Null
<1>1. Holder(ky, w, k, Null)
  BY HashMapAssumption DEF Holder
<1>2. ValueAt(nx, ky, vl, k) = IF Null = Null THEN Null ELSE vl[Null]
  BY <1>1, ValueIs
<1> QED
  BY <1>2

LEMMA ClearImplements ==
  ASSUME HashInv, HashInv', Emptied, arg' = arg, UNCHANGED readers, Observe
  PROVE  Table!Next
<1>1. PICK nx, pv, ky, w, vl :
        nx = next' /\ pv = prev' /\ ky = key' /\ w = went' /\ vl = value'
  OBVIOUS
<1>2. Rings(nx, pv, ky, w) /\ TypeOK /\ \A e \in Entry : ky[e] = Null
  BY <1>1 DEF HashInv, Emptied
<1>3. ASSUME NEW k \in Key PROVE ValueAt(nx, ky, vl, k) = Null
  BY <1>2, ValueEmpty
<1>4. TableNow' = [k \in Key |-> Null]
  BY <1>1, <1>3 DEF TableNow
<1>5. PICK t : t = TableNow'
  OBVIOUS
<1>6. rkey' = rkey /\ answer' = answer
  BY DEF readers
<1>7. Table!Become(t)
  BY <1>2, <1>5, <1>6, ObserveIs, BecomeStep
<1>8. Table!Clear
  BY <1>4, <1>5, <1>7 DEF Table!Clear, Table!Become
<1> QED
  BY <1>8 DEF Table!Next

LEMMA StutterStep ==
  ASSUME TableNow' = TableNow, arg' = arg, rkey' = rkey, seen' = seen, answer' = answer
  PROVE  UNCHANGED Table!vars
<1>1. LookupNow' = LookupNow
  BY DEF LookupNow
<1> QED
  BY <1>1, TableIs, TableIsPrimed DEF Table!vars, LookupNow

LEMMA RemoveFreeImplements ==
  ASSUME HashInv, HashInv', RemoveFree
  PROVE  UNCHANGED Table!vars
<1>1. PICK nx, pv, ky, e, vl : nx = next /\ pv = prev /\ ky = key /\ e = went /\ vl = value
  OBVIOUS
<1>2. PICK nx2, pv2, ky2, vl2 : nx2 = next' /\ pv2 = prev' /\ ky2 = key' /\ vl2 = value'
  OBVIOUS
<1>3. /\ wpc = "free" /\ went' = Null /\ arg' = arg
      /\ ky2 = [ky EXCEPT ![e] = Null] /\ vl2 = [vl EXCEPT ![e] = Null]
      /\ rkey' = rkey /\ seen' = seen /\ answer' = answer
  BY <1>1, <1>2 DEF RemoveFree, readers
<1>4. Rings(nx, pv, ky, e) /\ Rings(nx2, pv2, ky2, Null)
  BY <1>1, <1>2, <1>3 DEF HashInv
<1>5. /\ e \in Entry /\ ky \in [Entry -> Key \cup {Null}] /\ vl \in [Entry -> Value \cup {Null}]
  BY <1>1, <1>3 DEF HashInv, TypeOK
<1>6. AgreeBut(ky2, ky, Entry, e) /\ AgreeBut(vl2, vl, Entry, e) /\ ky2[e] = Null
  BY <1>3, <1>5 DEF AgreeBut
<1>7. ASSUME NEW x \in Key PROVE ValueAt(nx2, ky2, vl2, x) = ValueAt(nx, ky, vl, x)
  <2>1. e \in Entry
    BY <1>5
  <2> QED BY <1>4, <1>6, <2>1, ValueOff
<1>8. TableNow' = TableNow
  BY <1>1, <1>2, <1>7 DEF TableNow
<1> QED
  BY <1>3, <1>8, StutterStep

LEMMA InitAgainImplements ==
  ASSUME HashInv, HashInv', hashmap_init
  PROVE  UNCHANGED Table!vars
<1>1. /\ key' = key /\ rkey' = rkey /\ seen' = seen /\ answer' = answer /\ arg' = arg
      /\ \A e \in Entry : key[e] = Null
  BY DEF hashmap_init, fields, readers, HashInv, Down
<1>2. PICK nx, pv, ky, w, vl :
        nx = next /\ pv = prev /\ ky = key /\ w = went /\ vl = value
  OBVIOUS
<1>3. PICK nx2, pv2, w2, vl2 : nx2 = next' /\ pv2 = prev' /\ w2 = went' /\ vl2 = value'
  OBVIOUS
<1>4. Rings(nx, pv, ky, w) /\ Rings(nx2, pv2, ky, w2) /\ \A e \in Entry : ky[e] = Null
  BY <1>1, <1>2, <1>3 DEF HashInv
<1>5. ASSUME NEW x \in Key PROVE ValueAt(nx, ky, vl, x) = Null /\ ValueAt(nx2, ky, vl2, x) = Null
  BY <1>4, ValueEmpty
<1>6. TableNow' = TableNow
  BY <1>1, <1>2, <1>3, <1>5 DEF TableNow
<1> QED
  BY <1>1, <1>6, StutterStep

LEMMA GetReturnImplements ==
  ASSUME HashInv, NEW r \in Reader, rkey[r] # Null, NEW v \in seen[r], GetReturn(r, v)
  PROVE  Table!Next
<1>1. /\ answer' = [answer EXCEPT ![r] = v] /\ rkey' = [rkey EXCEPT ![r] = Null]
      /\ seen' = [seen EXCEPT ![r] = {}] /\ arg' = arg
      /\ next' = next /\ key' = key /\ value' = value
  BY DEF GetReturn, ring, fields
<1>2. /\ rkey \in [Reader -> Key \cup {Null}]
      /\ seen \in [Reader -> SUBSET (Value \cup {Null})]
  BY DEF HashInv, TypeOK
<1>3. TableNow' = TableNow
  BY <1>1 DEF TableNow
<1>4. LookupNow[r] = [key |-> rkey[r], seen |-> seen[r]]
  BY DEF LookupNow
<1>5. LookupNow[r] # Null /\ LookupNow[r].seen = seen[r]
  <2>1. PICK k \in Key, s \in SUBSET (Value \cup {Null}) : k = rkey[r] /\ s = seen[r]
    BY <1>2
  <2> QED BY <1>4, <2>1, HashMapAssumption
<1>6. LookupNow' = [LookupNow EXCEPT ![r] = Null]
  <2>1. ASSUME NEW q \in Reader, q # r PROVE rkey'[q] = rkey[q] /\ seen'[q] = seen[q]
    BY <1>1, <1>2, <2>1
  <2>2. rkey'[r] = Null
    BY <1>1, <1>2
  <2> QED BY <2>1, <2>2 DEF LookupNow
<1>7. Table!End(r)
  BY <1>1, <1>3, <1>5, <1>6, TableIs, TableIsPrimed DEF Table!End, LookupNow
<1> QED
  BY <1>7 DEF Table!Next

LEMMA GetBeginImplements ==
  ASSUME HashInv, NEW r \in Reader, NEW k \in Key, GetBegin(r, k)
  PROVE  Table!Next
<1>1. /\ rkey[r] = Null /\ rkey' = [rkey EXCEPT ![r] = k]
      /\ seen' = [seen EXCEPT ![r] = {hashmap_get(k)}] /\ arg' = arg /\ answer' = answer
      /\ next' = next /\ key' = key /\ value' = value
  BY DEF GetBegin, ring, fields
<1>2. /\ rkey \in [Reader -> Key \cup {Null}]
      /\ seen \in [Reader -> SUBSET (Value \cup {Null})]
  BY DEF HashInv, TypeOK
<1>3. TableNow' = TableNow
  BY <1>1 DEF TableNow
<1>4. LookupNow[r] = Null
  BY <1>1 DEF LookupNow
<1>5. k # Null /\ hashmap_get(k) = TableNow[k]
  BY HashMapAssumption, TableIs
<1>6. LookupNow' = [LookupNow EXCEPT ![r] = [key |-> k, seen |-> {TableNow[k]}]]
  <2>1. ASSUME NEW q \in Reader, q # r PROVE rkey'[q] = rkey[q] /\ seen'[q] = seen[q]
    BY <1>1, <1>2, <2>1
  <2>2. rkey'[r] = k /\ seen'[r] = {TableNow[k]}
    BY <1>1, <1>2, <1>5
  <2> QED BY <1>5, <2>1, <2>2 DEF LookupNow
<1>7. Table!Begin(r, k)
  BY <1>1, <1>3, <1>4, <1>6, TableIs, TableIsPrimed DEF Table!Begin, LookupNow
<1> QED
  BY <1>7 DEF Table!Next

LEMMA NextImplements ==
  ASSUME HashInv, HashInv', [Next]_vars
  PROVE  [Table!Next]_(Table!vars)
<1> DEFINE Bar == [Table!Next]_(Table!vars)
<1>1. CASE UNCHANGED vars
  <2>1. /\ next' = next /\ key' = key /\ value' = value /\ arg' = arg
        /\ rkey' = rkey /\ seen' = seen /\ answer' = answer
    BY <1>1 DEF vars, ring, fields, readers
  <2>2. TableNow' = TableNow
    BY <2>1 DEF TableNow
  <2> QED BY <2>1, <2>2, StutterStep
<1>2. CASE Next
  <2>1. ASSUME NEW k \in Key, NEW v \in Value, PutReplace(k, v) PROVE Bar
    BY <2>1, PutReplaceImplements
  <2>2. ASSUME NEW k \in Key, NEW v \in Value, NEW e \in Entry, PutEntry(k, v, e) PROVE Bar
    BY <2>2, PutEntryImplements
  <2>3. ASSUME PutLink PROVE Bar
    BY <2>3, PutLinkImplements
  <2>4. ASSUME NEW k \in Key, RemoveUnlink(k) PROVE Bar
    BY <2>4, RemoveUnlinkImplements
  <2>5. ASSUME RemoveFree PROVE Bar
    BY <2>5, RemoveFreeImplements
  <2>6. ASSUME hashmap_clear \/ hashmap_destroy PROVE Bar
    <3>1. Emptied /\ arg' = arg /\ UNCHANGED readers /\ Observe
      BY <2>6 DEF hashmap_clear, hashmap_destroy
    <3> QED BY <3>1, ClearImplements
  <2>7. ASSUME hashmap_init PROVE Bar
    BY <2>7, InitAgainImplements
  <2>8. ASSUME NEW r \in Reader, GetMiss(r) PROVE Bar
    <3>1. rkey[r] # Null /\ Null \in seen[r] /\ GetReturn(r, Null)
      BY <2>8, ReaderFinds DEF GetMiss
    <3> QED BY <3>1, GetReturnImplements
  <2>9. ASSUME NEW r \in Reader, GetHit(r) PROVE Bar
    <3>1. rkey[r] # Null /\ value[rpos[r]] \in seen[r] /\ GetReturn(r, value[rpos[r]])
      BY <2>9, ReaderFinds DEF GetHit
    <3>2. PICK v : v = value[rpos[r]]
      OBVIOUS
    <3>3. v \in seen[r] /\ GetReturn(r, v)
      BY <3>1, <3>2
    <3> QED BY <3>1, <3>3, GetReturnImplements
  <2>10. ASSUME NEW r \in Reader, GetNext(r) PROVE Bar
    <3>1. /\ next' = next /\ key' = key /\ value' = value /\ arg' = arg
          /\ rkey' = rkey /\ seen' = seen /\ answer' = answer
      BY <2>10 DEF GetNext, ring, fields
    <3>2. TableNow' = TableNow
      BY <3>1 DEF TableNow
    <3> QED BY <3>1, <3>2, StutterStep
  <2>11. ASSUME NEW r \in Reader, NEW k \in Key, GetBegin(r, k) PROVE Bar
    BY <2>11, GetBeginImplements
  <2> HIDE DEF Bar
  <2>12. Bar
    BY <1>2, <2>1, <2>2, <2>3, <2>4, <2>5, <2>6, <2>7, <2>8, <2>9, <2>10, <2>11, Zenon
    DEF Next, Get
  <2> QED BY <2>12 DEF Bar
<1> QED
  BY <1>1, <1>2

LEMMA InitImplements ==
  Init => Table!Init
<1>1. SUFFICES ASSUME Init PROVE Table!Init
  OBVIOUS
<1>2. PICK nx, pv, ky, w, vl : nx = next /\ pv = prev /\ ky = key /\ w = went /\ vl = value
  OBVIOUS
<1>3. Rings(nx, pv, ky, w) /\ \A e \in Entry : ky[e] = Null
  BY <1>1, <1>2, InitHolds DEF HashInv, Init
<1>4. ASSUME NEW k \in Key PROVE ValueAt(nx, ky, vl, k) = Null
  BY <1>3, ValueEmpty
<1>5. TableNow = [k \in Key |-> Null]
  BY <1>2, <1>4 DEF TableNow
<1> QED
  BY <1>1, <1>5, TableIs DEF Init, Table!Init

(* For every hash function and every number of buckets, keys, entries and  *)
(* readers: hashmap.c is a table, and hashmap_get without the lock answers *)
(* with a value its key had while it ran.                                  *)
THEOREM TableImplemented == Spec => ImplementsTable
<1>1. Init => HashInv
  BY InitHolds
<1>2. HashInv /\ [Next]_vars => HashInv'
  BY NextKeeps
<1>3. Init => Table!Init
  BY InitImplements
<1>4. HashInv /\ HashInv' /\ [Next]_vars => [Table!Next]_(Table!vars)
  BY NextImplements
<1> QED
  BY <1>1, <1>2, <1>3, <1>4, PTL DEF Spec, ImplementsTable, Table!Spec
=============================================================================
