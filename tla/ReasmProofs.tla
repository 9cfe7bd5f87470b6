---------------------------- MODULE ReasmProofs -----------------------------
(***************************************************************************)
(* rpc_on_data for every sequence of messages, every way the connection    *)
(* cuts them into pieces and every place a heap_malloc may fail: it        *)
(* dispatches the peer's messages, whole, once and in order.               *)
(***************************************************************************)
EXTENDS Reasm, DataFacts

-----------------------------------------------------------------------------
(* The bytes of the messages, and the one that follows b on the wire.      *)
Octet == {b \in Msg \X Nat : b[2] < HdrLen + Lens[b[1]]}

After(b) ==
  IF b[2] + 1 < HdrLen + Lens[b[1]] THEN <<b[1], b[2] + 1>> ELSE <<b[1] + 1, 0>>

LastByte(m) == <<m, HdrLen + Lens[m] - 1>>

(* z holds whole messages in order, the last one message n: what is        *)
(* between the peer and the dispatcher.                                    *)
Flow(z, n) ==
  /\ z \in Seq(Octet)
  /\ \A i \in 1 .. Len(z) : z[i][1] <= n
  /\ \A i \in 1 .. Len(z) : i # Len(z) => z[i + 1] = After(z[i])
  /\ z # <<>> => z[1][2] = 0 /\ z[Len(z)] = LastByte(n)

LEMMA LensFacts ==
  /\ HdrLen \in Nat /\ HdrLen >= 1
  /\ Len(Lens) \in Nat
  /\ \A m \in Msg : m \in Nat /\ m >= 1 /\ Lens[m] \in Nat
<1>1. Lens \in Seq(Nat) /\ HdrLen \in Nat /\ HdrLen >= 1
  BY ReasmAssumption
<1>2. Len(Lens) \in Nat
  BY <1>1, LenProperties
<1>3. ASSUME NEW m \in Msg PROVE m \in Nat /\ m >= 1 /\ Lens[m] \in Nat
  BY <1>1, <1>2, ElementOfSeq DEF Msg
<1> QED
  BY <1>1, <1>2, <1>3

LEMMA OctetFacts ==
  ASSUME NEW b \in Octet
  PROVE  /\ b[1] \in Msg /\ b[2] \in Nat /\ b[2] < HdrLen + Lens[b[1]]
         /\ b = <<b[1], b[2]>>
  BY DEF Octet

LEMMA BytesFacts ==
  ASSUME NEW m \in Msg
  PROVE  /\ Bytes(m) \in Seq(Octet)
         /\ Len(Bytes(m)) = HdrLen + Lens[m]
         /\ \A i \in 1 .. HdrLen + Lens[m] : Bytes(m)[i] = <<m, i - 1>>
<1>1. PICK k \in Nat : k = HdrLen + Lens[m]
  BY LensFacts
<1>2. PICK z : z = Bytes(m)
  OBVIOUS
<1>3. z = [i \in 1 .. k |-> <<m, i - 1>>]
  BY <1>1, <1>2 DEF Bytes
<1>4. ASSUME NEW i \in 1 .. k PROVE <<m, i - 1>> \in Octet
  BY <1>1, LensFacts DEF Octet
<1>5. z \in [1 .. k -> Octet]
  BY <1>3, <1>4
<1>6. z \in Seq(Octet) /\ Len(z) = k
  BY <1>5, SeqDef, LenProperties
<1> QED
  BY <1>1, <1>2, <1>3, <1>6

(* The bytes of a flow up to the end of its first message. *)
LEMMA FlowStart ==
  ASSUME NEW z, NEW n, Flow(z, n), NEW i \in 1 .. Len(z), i <= HdrLen + Lens[z[1][1]]
  PROVE  z[i] = <<z[1][1], i - 1>>
<1>1. z \in Seq(Octet) /\ \A j \in 1 .. Len(z) : j # Len(z) => z[j + 1] = After(z[j])
  BY DEF Flow
<1>2. PICK k \in Nat : k = Len(z) /\ i \in 1 .. k
  BY <1>1, LenProperties
<1>3. \A j \in 1 .. k : z[j] \in Octet
  BY <1>1, <1>2, ElementOfSeq
<1>4. PICK c : c = z[1][1]
  OBVIOUS
<1>5. c \in Msg /\ z[1] = <<c, 0>>
  <2>1. 1 \in 1 .. k
    BY <1>2
  <2>2. z # <<>>
    BY <1>1, <1>2, EmptySeq
  <2>3. z[1][2] = 0
    BY <2>2 DEF Flow
  <2> QED BY <1>3, <1>4, <2>1, <2>3, OctetFacts
<1>6. PICK e \in Nat : e = HdrLen + Lens[c]
  BY <1>5, LensFacts
<1> DEFINE Bad == {j \in 1 .. k : j <= e /\ z[j] # <<c, j - 1>>}
<1>7. ASSUME Bad # {} PROVE FALSE
  <2>1. Bad \in SUBSET Nat
    OBVIOUS
  <2>2. PICK j \in Bad : \A l \in Bad : j <= l
    BY <1>7, <2>1, LeastNumber
  <2>3. j \in 1 .. k /\ j <= e /\ z[j] # <<c, j - 1>>
    BY <2>2
  <2>4. j # 1
    BY <1>5, <2>3
  <2>5. PICK l \in 1 .. k : l = j - 1
    <3>1. j - 1 \in 1 .. k
      BY <2>3, <2>4
    <3> QED BY <3>1
  <2>6. l <= e /\ l # k /\ ~(j <= l) /\ l + 1 = j
    BY <2>3, <2>5
  <2>7. z[l] = <<c, l - 1>>
    BY <2>2, <2>6
  <2>8. z[l + 1] = After(z[l])
    BY <1>1, <1>2, <2>6
  <2>9. l - 1 + 1 < e
    BY <1>6, <2>3, <2>5
  <2>10. After(<<c, l - 1>>) = <<c, l - 1 + 1>>
    BY <1>6, <2>9 DEF After
  <2>11. l - 1 + 1 = j - 1
    BY <2>5
  <2> QED BY <2>3, <2>6, <2>7, <2>8, <2>10, <2>11
<1> QED
  BY <1>2, <1>4, <1>6, <1>7

(* The first message taken off a flow. *)
FirstOff(a, w, n, c) ==
  /\ c \in 1 .. n /\ c \in Msg
  /\ a = Bytes(c)
  /\ Flow(w, n)
  /\ w = <<>> => c = n
  /\ w # <<>> => w[1][1] = c + 1

LEMMA FlowTake ==
  ASSUME NEW a \in Seq(Octet), NEW w \in Seq(Octet), NEW n \in Nat, Flow(a \o w, n),
         NEW c, c = (a \o w)[1][1], a \o w # <<>>, Len(a) = HdrLen + Lens[c]
  PROVE  FirstOff(a, w, n, c)
<1>1. PICK z : z = a \o w
  OBVIOUS
<1>2. PICK p \in Nat, q \in Nat : p = Len(a) /\ q = Len(w)
  BY LenProperties
<1>3. /\ z \in Seq(Octet) /\ Len(z) = p + q
      /\ \A j \in 1 .. p : z[j] = a[j]
      /\ \A j \in 1 .. q : z[p + j] = w[j]
  <2>1. Joined(Octet, a, w, z, p, q)
    BY <1>1, <1>2, Join, Zenon
  <2> QED BY <2>1, Zenon DEF Joined
<1>4. /\ \A i \in 1 .. p + q : z[i][1] <= n
      /\ \A i \in 1 .. p + q : i # p + q => z[i + 1] = After(z[i])
      /\ z[p + q] = LastByte(n)
  BY <1>1, <1>3 DEF Flow
<1>5. p + q >= 1
  BY <1>1, <1>2, <1>3, EmptySeq
<1>6. c \in Msg /\ c <= n
  <2>1. 1 \in 1 .. p + q
    BY <1>5
  <2>2. z[1] \in Octet
    BY <1>3, <2>1, ElementOfSeq
  <2> QED BY <1>1, <1>4, <2>1, <2>2, OctetFacts
<1>7. p = HdrLen + Lens[c] /\ p >= 1 /\ Lens[c] \in Nat /\ HdrLen \in Nat /\ c \in Nat /\ c >= 1
  BY <1>2, <1>6, LensFacts, SMTT(30)
<1>8. ASSUME NEW i \in 1 .. p PROVE a[i] = <<c, i - 1>>
  <2>0. z[1][1] = c
    BY <1>1
  <2>1. i \in 1 .. p + q /\ i <= HdrLen + Lens[z[1][1]]
    <3>1. i \in 1 .. p + q /\ i <= HdrLen + Lens[c]
      BY <1>7, SMTT(30)
    <3> QED BY <2>0, <3>1
  <2>2. i \in 1 .. Len(z)
    BY <1>3, <2>1
  <2>3. Flow(z, n)
    BY <1>1
  <2>4. z[i] = <<z[1][1], i - 1>>
    BY <2>1, <2>2, <2>3, FlowStart
  <2> QED BY <1>1, <1>3, <2>4
<1>9. a = Bytes(c)
  <2>1. PICK y : y = Bytes(c)
    OBVIOUS
  <2>2. y \in Seq(Octet) /\ Len(y) = p /\ \A i \in 1 .. p : y[i] = <<c, i - 1>>
    BY <1>6, <1>7, <2>1, BytesFacts
  <2>3. \A i \in 1 .. p : a[i] = y[i]
    BY <1>8, <2>2
  <2> QED BY <1>2, <2>1, <2>2, <2>3, SeqEqual
<1>10. z[p] = <<c, p - 1>>
  <2>1. p \in 1 .. p
    BY <1>7
  <2> QED BY <1>3, <1>8, <2>1
<1>11. CASE q = 0
  <2>1. w = <<>>
    BY <1>2, <1>11, EmptySeq
  <2>2. p + q = p
    BY <1>11
  <2>3. <<c, p - 1>> = LastByte(n)
    BY <1>4, <1>10, <2>2
  <2>4. c = n
    BY <2>3 DEF LastByte
  <2>5. Len(<<>>) = 0 /\ <<>> \in Seq(Octet)
    OBVIOUS
  <2>6. Flow(w, n)
    BY <2>1, <2>5 DEF Flow
  <2> QED BY <1>6, <1>7, <1>9, <2>1, <2>4, <2>6 DEF FirstOff
<1>12. CASE q # 0
  <2>1. w # <<>>
    BY <1>2, <1>12
  <2>2. w[1] = <<c + 1, 0>>
    <3>1. p \in 1 .. p + q /\ p # p + q /\ 1 \in 1 .. q
      BY <1>7, <1>12, SMTT(30)
    <3>2. z[p + 1] = After(<<c, p - 1>>)
      BY <1>4, <1>10, <3>1
    <3>3. z[p + 1] = w[1]
      BY <1>3, <3>1
    <3>4. After(<<c, p - 1>>) = <<c + 1, 0>>
      BY <1>7, SMTT(30) DEF After
    <3> QED BY <3>2, <3>3, <3>4
  <2>3. ASSUME NEW i \in 1 .. q PROVE w[i][1] <= n /\ (i # q => w[i + 1] = After(w[i]))
    <3>1. PICK j \in 1 .. p + q : j = p + i
      <4>1. p + i \in 1 .. p + q
        OBVIOUS
      <4> QED BY <4>1
    <3>2. w[i] = z[j]
      BY <1>3, <3>1
    <3>3. ASSUME i # q PROVE w[i + 1] = After(w[i])
      <4>1. i + 1 \in 1 .. q /\ j # p + q /\ p + (i + 1) = j + 1
        BY <3>1, <3>3
      <4>2. z[p + (i + 1)] = w[i + 1]
        BY <1>3, <4>1
      <4>3. z[j + 1] = After(z[j])
        BY <1>4, <4>1
      <4> QED BY <3>2, <4>1, <4>2, <4>3
    <3> QED BY <1>4, <3>2, <3>3
  <2>4. w[q] = LastByte(n)
    <3>1. q \in 1 .. q
      BY <1>12
    <3> QED BY <1>3, <1>4, <3>1
  <2>5. w[1][2] = 0 /\ w[1][1] = c + 1
    BY <2>2
  <2>6. Flow(w, n)
    BY <1>2, <2>3, <2>4, <2>5 DEF Flow
  <2>7. c \in 1 .. n
    BY <1>6, <1>7
  <2> QED BY <1>6, <1>9, <2>1, <2>5, <2>6, <2>7 DEF FirstOff
<1> QED
  BY <1>11, <1>12

(* One more message sent. *)
LEMMA FlowSend ==
  ASSUME NEW z, NEW n \in Nat, n + 1 \in Msg, n = 0 \/ n \in Msg, Flow(z, n),
         n = 0 => z = <<>>
  PROVE  Flow(z \o Bytes(n + 1), n + 1)
<1>1. PICK m \in Msg : m = n + 1
  OBVIOUS
<1>2. PICK b : b = Bytes(m)
  OBVIOUS
<1>3. PICK e \in Nat : e = HdrLen + Lens[m] /\ e >= 1
  <2>1. HdrLen + Lens[m] \in Nat /\ HdrLen + Lens[m] >= 1
    BY LensFacts
  <2> QED BY <2>1
<1>4. b \in Seq(Octet) /\ Len(b) = e /\ \A i \in 1 .. e : b[i] = <<m, i - 1>>
  BY <1>2, <1>3, BytesFacts
<1>5. z \in Seq(Octet)
  BY DEF Flow
<1>6. PICK p \in Nat : p = Len(z)
  BY <1>5, LenProperties
<1>7. /\ \A i \in 1 .. p : z[i][1] <= n
      /\ \A i \in 1 .. p : i # p => z[i + 1] = After(z[i])
      /\ z # <<>> => z[1][2] = 0 /\ z[p] = LastByte(n)
  BY <1>6 DEF Flow
<1>8. PICK y : y = z \o b
  OBVIOUS
<1>9. /\ y \in Seq(Octet) /\ Len(y) = p + e
      /\ \A j \in 1 .. p : y[j] = z[j]
      /\ \A j \in 1 .. e : y[p + j] = b[j]
  <2>1. Joined(Octet, z, b, y, p, e)
    BY <1>4, <1>5, <1>6, <1>8, Join, Zenon
  <2> QED BY <2>1, Zenon DEF Joined
<1>10. \A i \in 1 .. p : z[i] \in Octet /\ z[i][1] \in Nat
  <2>1. \A i \in 1 .. p : z[i] \in Octet
    BY <1>5, <1>6, ElementOfSeq
  <2> QED BY <2>1, OctetFacts, LensFacts
<1>11. ASSUME NEW i \in 1 .. p + e
       PROVE  y[i][1] <= m /\ (i # p + e => y[i + 1] = After(y[i]))
  <2>1. CASE i <= p
    <3>1. i \in 1 .. p /\ y[i] = z[i]
      BY <1>9, <2>1
    <3>2. y[i][1] <= m
      BY <1>1, <1>7, <1>10, <3>1
    <3>3. CASE i # p
      <4>1. i + 1 \in 1 .. p
        BY <3>1, <3>3
      <4> QED BY <1>7, <1>9, <3>1, <3>2, <3>3, <4>1
    <3>4. CASE i = p
      <4>1. z # <<>>
        BY <1>5, <1>6, <3>1, <3>4, EmptySeq
      <4>2. y[i] = LastByte(n) /\ n \in Msg
        BY <1>7, <3>1, <3>4, <4>1
      <4>3. After(LastByte(n)) = <<n + 1, 0>>
        BY <4>2, LensFacts DEF After, LastByte
      <4>4. 1 \in 1 .. e
        BY <1>3
      <4>5. y[p + 1] = <<m, 0>>
        BY <1>4, <1>9, <4>4
      <4> QED BY <1>1, <3>2, <3>4, <4>2, <4>3, <4>5
    <3> QED BY <3>3, <3>4
  <2>2. CASE i > p
    <3>1. PICK j \in 1 .. e : j = i - p
      <4>1. i - p \in 1 .. e
        BY <2>2
      <4> QED BY <4>1
    <3>2. i = p + j
      BY <3>1
    <3>3. y[i] = <<m, j - 1>>
      BY <1>4, <1>9, <3>2
    <3>4. y[i][1] <= m
      BY <1>1, <3>3
    <3>5. ASSUME i # p + e PROVE y[i + 1] = After(y[i])
      <4>1. j + 1 \in 1 .. e /\ p + (j + 1) = i + 1 /\ j - 1 + 1 < e /\ j + 1 - 1 = j - 1 + 1
        BY <3>2, <3>5
      <4>2. y[p + (j + 1)] = b[j + 1]
        BY <1>9, <4>1
      <4>3. b[j + 1] = <<m, j + 1 - 1>>
        BY <1>4, <4>1
      <4>4. After(<<m, j - 1>>) = <<m, j - 1 + 1>>
        BY <1>3, <4>1 DEF After
      <4> QED BY <3>3, <4>1, <4>2, <4>3, <4>4
    <3> QED BY <3>4, <3>5
  <2> QED BY <2>1, <2>2
<1>12. y[p + e] = LastByte(m)
  <2>1. e \in 1 .. e
    BY <1>3
  <2>2. b[e] = <<m, e - 1>>
    BY <1>4, <2>1
  <2>3. y[p + e] = b[e]
    BY <1>9, <2>1
  <2>4. LastByte(m) = <<m, e - 1>>
    <3>1. HdrLen + Lens[m] - 1 = e - 1
      BY <1>3, LensFacts
    <3> QED BY <3>1, Zenon DEF LastByte
  <2> QED BY <2>2, <2>3, <2>4
<1>13. y[1][2] = 0
  <2>1. CASE p = 0
    <3>1. 1 \in 1 .. e /\ p + 1 = 1
      BY <1>3, <2>1
    <3>2. y[1] = <<m, 1 - 1>>
      BY <1>4, <1>9, <3>1
    <3> QED BY <3>2
  <2>2. CASE p # 0
    <3>1. z # <<>> /\ 1 \in 1 .. p
      BY <1>5, <1>6, <2>2, EmptySeq
    <3> QED BY <1>7, <1>9, <3>1
  <2> QED BY <2>1, <2>2
<1>14. Flow(y, m)
  BY <1>9, <1>11, <1>12, <1>13 DEF Flow
<1> QED
  BY <1>1, <1>2, <1>8, <1>14

-----------------------------------------------------------------------------
(* The bytes rpc_on_data holds, the message being copied included, and     *)
(* those on their way to it.                                               *)
Kept    == FlattenSeq(chunks)
Held    == IF pc = "consume" THEN buf \o Kept ELSE Kept
Pending == Held \o stream

(* The length of the message that comes next. *)
FirstLen == HdrLen + Lens[Pending[1][1]]

Types ==
  /\ sent \in 0 .. Len(Lens)
  /\ stream \in Seq(Octet) /\ hdr \in Seq(Octet) /\ buf \in Seq(Octet)
  /\ chunks \in Seq(Seq(Octet)) /\ \A i \in 1 .. Len(chunks) : chunks[i] # <<>>
  /\ out \in Seq(Seq(Octet))
  /\ pc \in {"recv", "test", "peek", "consume"}
  /\ need \in Nat /\ keep \in BOOLEAN /\ broken \in BOOLEAN

(* rpc_reasm_peek_header has read the beginning of the list, and as long   *)
(* as it needs more it stands at the end of what it has read.              *)
ReadTo(y) ==
  /\ hdr \o y = Kept
  /\ Len(hdr) < HdrLen => y = FlattenSeq(SubSeq(chunks, pos, Len(chunks)))

HeaderRead ==
  /\ pos \in 1 .. Len(chunks) + 1
  /\ Len(hdr) <= HdrLen
  /\ \E y \in Seq(Octet) : ReadTo(y)

(* As long as no byte was lost, whole messages are on their way; the one   *)
(* being copied is the first of them, copied nowhere only if there was no  *)
(* memory for it; and when rpc_on_data has returned not all of the first   *)
(* one is there.                                                           *)
Dispatched == \A i \in 1 .. Len(out) : \E m \in 1 .. sent : out[i] = Bytes(m)

KeptUnlessRefused == keep \/ Pending[1][1] \in refused

Ahead ==
  /\ Flow(Pending, sent)
  /\ pc = "consume" => Pending # <<>> /\ need = FirstLen /\ KeptUnlessRefused
  /\ pc = "recv" /\ Kept # <<>> => Len(Kept) < FirstLen
  /\ Dispatched

ReasmInv ==
  /\ Types
  /\ total_len = Len(Held)
  /\ pc = "peek" => HdrLen <= total_len /\ HeaderRead
  /\ pc = "consume" => Len(buf) <= need /\ need <= total_len
  /\ ~broken => Ahead

LEMMA HeldTypes ==
  ASSUME Types
  PROVE  /\ Kept \in Seq(Octet) /\ Held \in Seq(Octet) /\ Pending \in Seq(Octet)
         /\ Len(Kept) \in Nat /\ Len(Held) \in Nat /\ Len(Pending) = Len(Held) + Len(stream)
<1>1. Kept \in Seq(Octet)
  BY FlatType DEF Types, Kept
<1>2. buf \o Kept \in Seq(Octet)
  BY <1>1, ConcatParts DEF Types
<1>3. Held \in Seq(Octet)
  BY <1>1, <1>2 DEF Held
<1>4. stream \in Seq(Octet)
  BY DEF Types
<1>5. Pending \in Seq(Octet) /\ Len(Pending) = Len(Held) + Len(stream)
  BY <1>3, <1>4, ConcatParts DEF Pending
<1> QED
  BY <1>1, <1>3, <1>5, LenProperties

LEMMA InitReasm ==
  ASSUME Init
  PROVE  ReasmInv
<1>1. stream = <<>> /\ hdr = <<>> /\ buf = <<>> /\ chunks = <<>> /\ out = <<>> /\ sent = 0
      /\ pc = "recv" /\ need = 0 /\ keep = FALSE /\ broken = FALSE /\ total_len = 0
  BY DEF Init
<1>2. Kept = <<>> /\ Held = <<>> /\ Pending = <<>>
  <2>1. Kept = <<>>
    BY <1>1, FlatEmpty DEF Kept
  <2>2. Held = <<>>
    BY <1>1, <2>1 DEF Held
  <2> QED BY <1>1, <2>1, <2>2 DEF Pending
<1>3. Types
  <2>1. 0 \in 0 .. Len(Lens)
    BY LensFacts
  <2>2. <<>> \in Seq(Octet) /\ <<>> \in Seq(Seq(Octet)) /\ Len(<<>>) = 0
    OBVIOUS
  <2>3. \A i \in 1 .. Len(chunks) : chunks[i] # <<>>
    BY <1>1, <2>2
  <2> QED BY <1>1, <2>1, <2>2, <2>3 DEF Types
<1>4. Flow(<<>>, 0)
  <2>2. <<>> \in Seq(Octet) /\ Len(<<>>) = 0
    OBVIOUS
  <2> QED BY <2>2 DEF Flow
<1>5. Ahead
  BY <1>1, <1>2, <1>4 DEF Ahead, Dispatched
<1> QED
  BY <1>1, <1>2, <1>3, <1>5 DEF ReasmInv

-----------------------------------------------------------------------------
(* The messages of a flow exist, and its first byte says which is first.   *)
LEMMA FlowFirst ==
  ASSUME NEW z, NEW n, Flow(z, n), z # <<>>
  PROVE  /\ z[1] \in Octet /\ z[1][1] \in Msg /\ z[1][1] <= n
         /\ HdrLen + Lens[z[1][1]] \in Nat /\ HdrLen + Lens[z[1][1]] >= HdrLen
<1>1. z \in Seq(Octet) /\ \A i \in 1 .. Len(z) : z[i][1] <= n
  BY DEF Flow
<1>2. 1 \in 1 .. Len(z)
  BY <1>1, EmptySeq, LenProperties
<1>3. z[1] \in Octet
  BY <1>1, <1>2, ElementOfSeq
<1>4. z[1][1] <= n
  BY <1>1, <1>2
<1>5. z[1][1] \in Msg
  BY <1>3, OctetFacts
<1>6. HdrLen + Lens[z[1][1]] \in Nat /\ HdrLen + Lens[z[1][1]] >= HdrLen
  <2>1. Lens[z[1][1]] \in Nat /\ HdrLen \in Nat
    BY <1>5, LensFacts
  <2> QED BY <2>1
<1> QED
  BY <1>3, <1>4, <1>5, <1>6

LEMMA SendPending ==
  ASSUME ReasmInv, Send
  PROVE  /\ Types' /\ Kept' = Kept /\ Held' = Held
         /\ Pending' = Pending \o Bytes(sent + 1)
         /\ sent + 1 \in Msg /\ Bytes(sent + 1) \in Seq(Octet)
<1>1. Types
  BY DEF ReasmInv
<1>2. sent + 1 \in Msg
  BY <1>1, LensFacts DEF Send, Types, Msg
<1>3. Bytes(sent + 1) \in Seq(Octet)
  BY <1>2, BytesFacts
<1>4. PICK b \in Seq(Octet) : b = Bytes(sent + 1)
  BY <1>3
<1>5. stream' = stream \o b
  BY <1>4 DEF Send
<1>6. stream' \in Seq(Octet)
  BY <1>1, <1>5, ConcatParts DEF Types
<1>7. Types'
  <2>1. sent' \in 0 .. Len(Lens)
    BY <1>1, LensFacts DEF Send, Types
  <2> QED BY <1>1, <1>6, <2>1 DEF Send, Types, fate
<1>8. Kept' = Kept /\ Held' = Held
  BY DEF Send, Kept, Held
<1>9. Pending' = Held \o (stream \o b)
  BY <1>5, <1>8 DEF Pending
<1>10. Pending' = (Held \o stream) \o b
  <2>1. PICK x \in Seq(Octet), y \in Seq(Octet) : x = Held /\ y = stream
    BY <1>1, HeldTypes DEF Types
  <2>2. Bracketed(x, y, b)
    BY Brackets, Zenon
  <2> QED BY <1>9, <2>1, <2>2 DEF Bracketed
<1> QED
  BY <1>2, <1>3, <1>4, <1>7, <1>8, <1>10 DEF Pending

LEMMA SendStep ==
  ASSUME ReasmInv, Send
  PROVE  ReasmInv'
<1>1. Types /\ Types' /\ Kept' = Kept /\ Held' = Held
  BY SendPending DEF ReasmInv
<1>2. PICK b \in Seq(Octet) : b = Bytes(sent + 1)
  BY SendPending
<1>3. Pending' = Pending \o b /\ sent + 1 \in Msg
  BY <1>2, SendPending
<1>4. /\ total_len' = Len(Held')
      /\ (pc = "peek" => HdrLen <= total_len /\ HeaderRead)'
      /\ (pc = "consume" => Len(buf) <= need /\ need <= total_len)'
  BY <1>1 DEF ReasmInv, Send, HeaderRead, ReadTo
<1>5. ASSUME ~broken' PROVE Ahead'
  <2>1. Ahead /\ pc' = pc /\ need' = need /\ out' = out /\ sent' = sent + 1
    BY <1>5 DEF ReasmInv, Send, fate
  <2>2. sent \in Nat /\ (sent = 0 \/ sent \in Msg)
    BY <1>1, LensFacts, SMTT(30) DEF Types, Msg
  <2>3. Flow(Pending, sent)
    BY <2>1 DEF Ahead
  <2>4. sent = 0 => Pending = <<>>
    BY <2>3, FlowFirst, LensFacts
  <2>5. Flow(Pending \o Bytes(sent + 1), sent + 1)
    BY <1>3, <2>2, <2>3, <2>4, FlowSend
  <2>6. Flow(Pending', sent')
    BY <1>2, <1>3, <2>1, <2>5
  <2>7. Pending # <<>> => Pending' # <<>> /\ Pending'[1] = Pending[1]
    BY <1>1, <1>3, HeldTypes, FirstStays
  <2>8. (pc = "consume" => Pending # <<>> /\ need = FirstLen /\ KeptUnlessRefused)'
    <3>1. keep' = keep /\ refused' = refused
      BY DEF Send, fate
    <3> QED BY <2>1, <2>7, <3>1 DEF Ahead, FirstLen, KeptUnlessRefused
  <2>9. Kept # <<>> => Pending # <<>>
    BY <1>1, HeldTypes, FirstStays DEF Held, Pending, Types
  <2>10. (pc = "recv" /\ Kept # <<>> => Len(Kept) < FirstLen)'
    BY <1>1, <2>1, <2>7, <2>9 DEF Ahead, FirstLen
  <2>11. Dispatched'
    <3>1. 1 .. sent \subseteq 1 .. sent'
      BY <2>1, <2>2
    <3> QED BY <2>1, <3>1 DEF Ahead, Dispatched
  <2> QED BY <2>6, <2>8, <2>10, <2>11 DEF Ahead
<1> QED
  BY <1>1, <1>4, <1>5 DEF ReasmInv

LEMMA ShortSendStep ==
  ASSUME ReasmInv, NEW k \in Nat, ShortSend(k)
  PROVE  ReasmInv'
<1>1. Types
  BY DEF ReasmInv
<1>2. sent + 1 \in Msg
  BY <1>1, LensFacts DEF ShortSend, Types, Msg
<1>3. PICK b \in Seq(Octet) : b = Bytes(sent + 1) /\ Len(b) = HdrLen + Lens[sent + 1]
  BY <1>2, BytesFacts
<1>4. k <= Len(b)
  <2>1. Len(b) \in Nat
    BY <1>3, LenProperties
  <2> QED BY <1>3, <2>1 DEF ShortSend
<1>5. PICK y \in Seq(Octet) : y = SubSeq(b, 1, k)
  BY <1>4, TwoParts
<1>6. stream' = stream \o y
  BY <1>3, <1>5 DEF ShortSend
<1>7. stream' \in Seq(Octet)
  BY <1>1, <1>6, ConcatParts DEF Types
<1>8. Types'
  <2>1. sent' \in 0 .. Len(Lens)
    BY <1>1, LensFacts DEF ShortSend, Types
  <2> QED BY <1>1, <1>7, <2>1 DEF ShortSend, Types
<1>9. Kept' = Kept /\ Held' = Held
  BY DEF ShortSend, Kept, Held
<1>10. /\ total_len' = Len(Held')
       /\ (pc = "peek" => HdrLen <= total_len /\ HeaderRead)'
       /\ (pc = "consume" => Len(buf) <= need /\ need <= total_len)'
  BY <1>9 DEF ReasmInv, ShortSend, HeaderRead, ReadTo
<1> QED
  BY <1>8, <1>10 DEF ReasmInv, ShortSend

(* k bytes leave the connection. *)
LEMMA ArriveTypes ==
  ASSUME Types, NEW k, Arrive(k)
  PROVE  /\ k \in Nat /\ k >= 1 /\ k <= Len(stream)
         /\ SubSeq(stream, 1, k) \in Seq(Octet) /\ Len(SubSeq(stream, 1, k)) = k
         /\ stream' \in Seq(Octet)
         /\ SubSeq(stream, 1, k) \o stream' = stream
<1>1. PICK z \in Seq(Octet) : z = stream
  BY DEF Types
<1>2. k \in Nat /\ k >= 1 /\ k <= Len(z)
  BY <1>1, LenProperties DEF Arrive
<1>3. stream' = SubSeq(z, k + 1, Len(z))
  BY <1>1 DEF Arrive
<1> QED
  BY <1>1, <1>2, <1>3, TwoParts

LEMMA AppendPending ==
  ASSUME ReasmInv, NEW k, rpc_reasm_append(k)
  PROVE  /\ Types' /\ Pending' = Pending
         /\ Len(Held') = Len(Held) + k
<1>1. Types /\ Arrive(k) /\ pc = "recv" /\ pc' = "test" /\ k \in Nat
  BY ArriveTypes DEF ReasmInv, rpc_reasm_append, Arrive
<1>2. PICK y \in Seq(Octet) : y = SubSeq(stream, 1, k) /\ Len(y) = k /\ y \o stream' = stream
  BY <1>1, ArriveTypes
<1>3. y # <<>>
  <2>1. k # 0
    BY <1>1, ArriveTypes
  <2> QED BY <1>2, <2>1, EmptySeq
<1>4. PICK s \in Seq(Seq(Octet)) : s = chunks
  BY <1>1 DEF Types
<1>5. chunks' = Append(s, y)
  BY <1>2, <1>4 DEF rpc_reasm_append
<1>6. /\ chunks' \in Seq(Seq(Octet)) /\ Len(chunks') = Len(s) + 1
      /\ \A i \in 1 .. Len(s) : chunks'[i] = s[i]
      /\ chunks'[Len(s) + 1] = y
  BY <1>5, AppendProperties, LenProperties
<1>7. \A i \in 1 .. Len(chunks') : chunks'[i] # <<>>
  <2>1. PICK n \in Nat : n = Len(s)
    BY LenProperties
  <2>2. \A i \in 1 .. n : s[i] # <<>>
    BY <1>1, <1>4, <2>1 DEF Types
  <2>3. \A i \in 1 .. n + 1 : i \in 1 .. n \/ i = n + 1
    BY <2>1
  <2>4. Len(chunks') = n + 1 /\ \A i \in 1 .. n : chunks'[i] = s[i]
    BY <1>6, <2>1
  <2>5. chunks'[n + 1] = y
    BY <1>6, <2>1
  <2>6. ASSUME NEW i \in 1 .. n + 1 PROVE chunks'[i] # <<>>
    <3>1. CASE i \in 1 .. n
      BY <2>2, <2>4, <3>1, Zenon
    <3>2. CASE i = n + 1
      BY <1>3, <2>5, <3>2, Zenon
    <3> QED BY <2>3, <3>1, <3>2
  <2> QED BY <2>4, <2>6
<1>8. Types'
  BY <1>1, <1>6, <1>7, ArriveTypes DEF Types, rpc_reasm_append, Arrive
<1>9. Held = Kept /\ Held' = Kept' /\ Kept' = Kept \o y
  BY <1>1, <1>4, <1>5, FlatAppend DEF Held, Kept
<1>10. Len(Held') = Len(Held) + k
  BY <1>1, <1>2, <1>9, HeldTypes, ConcatParts
<1>11. Pending' = Pending
  <2>1. PICK x \in Seq(Octet), z \in Seq(Octet) : x = Kept /\ z = stream'
    BY <1>1, HeldTypes, ArriveTypes
  <2>2. Bracketed(x, y, z)
    BY Brackets, Zenon
  <2> QED BY <1>2, <1>9, <2>1, <2>2 DEF Pending, Bracketed
<1> QED
  BY <1>8, <1>10, <1>11

LEMMA AppendStep ==
  ASSUME ReasmInv, NEW k, rpc_reasm_append(k)
  PROVE  ReasmInv'
<1>1. Types' /\ Pending' = Pending /\ Len(Held') = Len(Held) + k
  BY AppendPending
<1>2. pc' = "test" /\ total_len' = total_len + k /\ total_len = Len(Held)
  BY DEF ReasmInv, rpc_reasm_append
<1>3. ASSUME ~broken' PROVE Ahead'
  <2>1. Ahead /\ out' = out /\ sent' = sent
    BY <1>3 DEF ReasmInv, rpc_reasm_append, Arrive
  <2> QED BY <1>1, <1>2, <2>1 DEF Ahead, Dispatched
<1> QED
  BY <1>1, <1>2, <1>3 DEF ReasmInv

LEMMA LostStep ==
  ASSUME ReasmInv, NEW k, AppendNoMem(k) \/ OnDataIgnored(k)
  PROVE  ReasmInv'
<1>1. Types /\ Arrive(k) /\ pc = "recv" /\ pc' \in {"recv", "test"}
      /\ chunks' = chunks /\ total_len' = total_len /\ broken' = TRUE
  BY DEF ReasmInv, AppendNoMem, OnDataIgnored, Arrive
<1>2. Types'
  BY <1>1, ArriveTypes DEF Types, Arrive
<1>3. Held' = Held
  BY <1>1 DEF Held, Kept
<1> QED
  BY <1>1, <1>2, <1>3 DEF ReasmInv

LEMMA TestHeaderStep ==
  ASSUME ReasmInv, TestHeader
  PROVE  ReasmInv'
<1>1. Types /\ pc = "test" /\ pc' \in {"recv", "peek"} /\ chunks' = chunks /\ stream' = stream
      /\ total_len' = total_len /\ total_len = Len(Held) /\ hdr' = <<>> /\ pos' = 1
      /\ broken' = broken /\ out' = out /\ sent' = sent /\ need' = need /\ buf' = buf /\ keep' = keep
  BY DEF ReasmInv, TestHeader, fate
<1>2. Types'
  <2>1. <<>> \in Seq(Octet)
    OBVIOUS
  <2> QED BY <1>1, <2>1 DEF Types
<1>3. Kept' = Kept /\ Held' = Held /\ Held = Kept /\ Pending' = Pending
  BY <1>1 DEF Held, Kept, Pending
<1>4. ASSUME pc' = "peek" PROVE HdrLen <= total_len' /\ HeaderRead'
  <2>1. HdrLen <= total_len
    BY <1>1, <1>4, HeldTypes, LensFacts DEF TestHeader
  <2>2. PICK s \in Seq(Seq(Octet)) : s = chunks
    BY <1>1 DEF Types
  <2>3. SubSeq(s, 1, Len(s)) = s /\ Len(s) \in Nat
    BY LenProperties
  <2>4. <<>> \o Kept = Kept /\ Kept \in Seq(Octet)
    BY <1>1, HeldTypes
  <2>5. ReadTo(Kept)'
    BY <1>1, <1>3, <2>2, <2>3, <2>4 DEF ReadTo, Kept
  <2>6. pos' \in 1 .. Len(chunks') + 1 /\ Len(hdr') <= HdrLen
    BY <1>1, <2>2, <2>3, LensFacts
  <2> QED BY <1>1, <1>3, <2>1, <2>4, <2>5, <2>6 DEF HeaderRead
<1>5. ASSUME ~broken' PROVE Ahead'
  <2>1. Ahead
    BY <1>1, <1>5 DEF ReasmInv
  <2>2. ASSUME pc' = "recv", Kept # <<>> PROVE Len(Kept) < FirstLen
    <3>1. Len(Kept) < HdrLen
      BY <1>1, <1>3, <2>2 DEF TestHeader
    <3>2. Pending # <<>> /\ Flow(Pending, sent)
      BY <1>1, <1>3, <2>1, <2>2, HeldTypes, FirstStays DEF Pending, Types, Ahead
    <3>3. FirstLen \in Nat /\ FirstLen >= HdrLen
      BY <3>2, FlowFirst DEF FirstLen
    <3> QED BY <1>1, <3>1, <3>3, HeldTypes, LensFacts
  <2>3. FirstLen' = FirstLen
    BY <1>3 DEF FirstLen
  <2> QED BY <1>1, <1>3, <2>1, <2>2, <2>3 DEF Ahead, Dispatched
<1> QED
  BY <1>1, <1>2, <1>3, <1>4, <1>5 DEF ReasmInv

LEMMA PeekRead ==
  ASSUME Types, HeaderRead, rpc_reasm_peek_header
  PROVE  HeaderRead' /\ hdr' \in Seq(Octet)
<1>1. PICK y \in Seq(Octet) : ReadTo(y)
  BY DEF HeaderRead
<1>2. PICK s \in Seq(Seq(Octet)), h \in Seq(Octet) : s = chunks /\ h = hdr
  BY DEF Types
<1>3. PICK n \in Nat, g \in Nat : n = Len(s) /\ g = Len(h)
  BY LenProperties
<1>4. PICK p \in 1 .. n : p = pos
  BY <1>2, <1>3 DEF HeaderRead, rpc_reasm_peek_header, Peeking
<1>5. g < HdrLen /\ HdrLen \in Nat
  BY <1>2, <1>3, LensFacts DEF rpc_reasm_peek_header, Peeking
<1>6. PICK c \in Seq(Octet), r \in Seq(Octet) :
        c = s[p] /\ r = FlattenSeq(SubSeq(s, p + 1, n))
        /\ FlattenSeq(SubSeq(s, p, n)) = c \o r
  <2>1. /\ s[p] \in Seq(Octet)
        /\ FlattenSeq(SubSeq(s, p + 1, n)) \in Seq(Octet)
        /\ FlattenSeq(SubSeq(s, p, n)) = s[p] \o FlattenSeq(SubSeq(s, p + 1, n))
    BY <1>3, FlatFrom, ZenonT(40)
  <2> QED BY <2>1, Zenon
<1>7. PICK e \in Nat : e = Len(c)
  BY LenProperties
<1>8. PICK t \in Nat : t = Min({HdrLen - g, e}) /\ t <= e /\ t <= HdrLen - g
                       /\ (t = e \/ t = HdrLen - g)
  <2>1. {HdrLen - g, e} \in SUBSET Nat /\ {HdrLen - g, e} # {}
    BY <1>5
  <2>2. /\ Min({HdrLen - g, e}) \in {HdrLen - g, e}
        /\ \A x \in {HdrLen - g, e} : Min({HdrLen - g, e}) <= x
    BY <2>1, MinIsLeast
  <2> QED BY <2>1, <2>2
<1>9. PICK a \in Seq(Octet), b \in Seq(Octet) :
        a = SubSeq(c, 1, t) /\ b = SubSeq(c, t + 1, e) /\ Len(a) = t /\ Len(b) = e - t /\ a \o b = c
  <2>1. t <= Len(c)
    BY <1>7, <1>8
  <2>2. /\ SubSeq(c, 1, t) \in Seq(Octet) /\ SubSeq(c, t + 1, Len(c)) \in Seq(Octet)
        /\ Len(SubSeq(c, 1, t)) = t /\ Len(SubSeq(c, t + 1, Len(c))) = Len(c) - t
        /\ SubSeq(c, 1, t) \o SubSeq(c, t + 1, Len(c)) = c
    BY <2>1, TwoParts, Zenon
  <2> QED BY <1>7, <2>2, Zenon
<1>10. hdr' = h \o a /\ pos' = p + 1 /\ chunks' = s
  <2>1. HdrLen - Len(hdr) = HdrLen - g /\ Len(chunks[pos]) = e /\ chunks[pos] = c
    BY <1>2, <1>3, <1>4, <1>6, <1>7
  <2> QED BY <1>2, <1>4, <1>8, <1>9, <2>1 DEF rpc_reasm_peek_header
<1>11. hdr' \in Seq(Octet) /\ Len(hdr') = g + t
  BY <1>3, <1>9, <1>10, ConcatParts, ZenonT(40)
<1>12. PICK z \in Seq(Octet) : z = b \o r
  BY ConcatParts
<1>13. (h \o a) \o z = h \o (c \o r)
  <2>1. FourParts(h, a, b, r)
    BY BracketsOfFour, Zenon
  <2> QED BY <1>9, <1>12, <2>1 DEF FourParts
<1>14. h \o (c \o r) = Kept /\ Kept' = Kept
  BY <1>1, <1>2, <1>3, <1>4, <1>5, <1>6, <1>10 DEF ReadTo, Kept
<1>15. ASSUME g + t < HdrLen PROVE z = r
  <2>1. t = e /\ e - t = 0
    BY <1>5, <1>8, <1>15, SMTT(30)
  <2>2. b = <<>>
    BY <1>9, <2>1, EmptySeq
  <2>3. <<>> \o r = r
    OBVIOUS
  <2> QED BY <1>12, <2>2, <2>3
<1>16. ReadTo(z)'
  BY <1>3, <1>6, <1>10, <1>11, <1>13, <1>14, <1>15 DEF ReadTo
<1>17. pos' \in 1 .. Len(chunks') + 1 /\ Len(hdr') <= HdrLen
  BY <1>3, <1>5, <1>8, <1>10, <1>11
<1> QED
  BY <1>11, <1>16, <1>17 DEF HeaderRead

LEMMA PeekStep ==
  ASSUME ReasmInv, rpc_reasm_peek_header
  PROVE  ReasmInv'
<1>1. Types /\ HeaderRead /\ HdrLen <= total_len /\ pc = "peek"
  BY DEF ReasmInv, rpc_reasm_peek_header
<1>2. HeaderRead' /\ hdr' \in Seq(Octet)
  BY <1>1, PeekRead
<1>3. /\ pc' = pc /\ chunks' = chunks /\ stream' = stream /\ total_len' = total_len
      /\ broken' = broken /\ out' = out /\ sent' = sent /\ need' = need /\ buf' = buf /\ keep' = keep
  BY DEF rpc_reasm_peek_header, fate
<1>4. Kept' = Kept /\ Held' = Held /\ Pending' = Pending
  BY <1>3 DEF Held, Kept, Pending
<1>5. Types'
  BY <1>1, <1>2, <1>3 DEF Types
<1>6. Ahead => Ahead'
  BY <1>1, <1>3, <1>4 DEF Ahead, FirstLen, Dispatched
<1> QED
  BY <1>1, <1>2, <1>3, <1>4, <1>5, <1>6 DEF ReasmInv

(* The longest message. *)
LEMMA LongestExists == \E m \in Msg : \A j \in Msg : Lens[j] <= Lens[m]
<1>1. PICK n \in Nat : n = Len(Lens) /\ n # 0 /\ Msg = 1 .. n
  BY ReasmAssumption, LensFacts, EmptySeq DEF Msg
<1> DEFINE Bad == {k \in 1 .. n : ~\E m \in 1 .. k : \A j \in 1 .. k : Lens[j] <= Lens[m]}
<1>2. ASSUME Bad # {} PROVE FALSE
  <2>1. Bad \in SUBSET Nat
    OBVIOUS
  <2>2. PICK k \in Bad : \A l \in Bad : k <= l
    BY <1>2, <2>1, LeastNumber
  <2>3. k \in 1 .. n /\ ~\E m \in 1 .. k : \A j \in 1 .. k : Lens[j] <= Lens[m]
    BY <2>2
  <2>4. \A j \in 1 .. k : Lens[j] \in Nat
    BY <1>1, <2>3, LensFacts
  <2>5. k # 1
    <3>1. ASSUME k = 1 PROVE FALSE
      <4>1. 1 \in 1 .. k /\ \A j \in 1 .. k : j = 1
        BY <3>1
      <4>2. \A j \in 1 .. k : Lens[j] <= Lens[1]
        BY <2>4, <4>1
      <4> QED BY <2>3, <4>1, <4>2
    <3> QED BY <3>1
  <2>6. PICK l \in 1 .. n : l = k - 1
    <3>1. k - 1 \in 1 .. n
      BY <2>3, <2>5
    <3> QED BY <3>1
  <2>7. l \notin Bad
    <3>1. ~(k <= l)
      BY <2>3, <2>6
    <3> HIDE DEF Bad
    <3> QED BY <2>2, <3>1
  <2>8. PICK m \in 1 .. l : \A j \in 1 .. l : Lens[j] <= Lens[m]
    BY <2>7
  <2>9. m \in 1 .. k /\ k \in 1 .. k /\ \A j \in 1 .. k : j \in 1 .. l \/ j = k
    BY <2>3, <2>6
  <2>10. CASE Lens[k] <= Lens[m]
    BY <2>3, <2>8, <2>9, <2>10
  <2>11. CASE ~(Lens[k] <= Lens[m])
    <3>1. Lens[m] <= Lens[k]
      BY <2>4, <2>9, <2>11
    <3>2. ASSUME NEW j \in 1 .. k PROVE Lens[j] <= Lens[k]
      <4>1. CASE j \in 1 .. l
        BY <2>4, <2>8, <2>9, <3>1, <4>1
      <4>2. CASE j = k
        BY <2>4, <4>2
      <4> QED BY <2>9, <4>1, <4>2
    <3> QED BY <2>3, <2>9, <3>2
  <2> QED BY <2>10, <2>11
<1>3. n \in 1 .. n
  BY <1>1
<1> QED
  BY <1>1, <1>2, <1>3

LEMMA LongestFacts ==
  /\ Max(ToSet(Lens)) \in Nat
  /\ \A m \in Msg : Lens[m] <= Max(ToSet(Lens))
<1>1. PICK T : T = ToSet(Lens)
  OBVIOUS
<1>2. \A x : x \in T <=> \E j \in Msg : x = Lens[j]
  BY <1>1, ReasmAssumption, LenProperties DEF ToSet, Msg
<1>3. PICK m \in Msg : \A j \in Msg : Lens[j] <= Lens[m]
  BY LongestExists
<1>4. T \subseteq Nat
  BY <1>2, LensFacts
<1>5. \E x \in T : \A y \in T : x >= y
  BY <1>2, <1>3, <1>4, ZenonT(40)
<1>6. Max(T) \in T /\ \A y \in T : Max(T) >= y
  BY <1>5 DEF Max
<1> QED
  BY <1>1, <1>2, <1>4, <1>6

(* The header of a message says how long it is. *)
LEMMA HeaderFacts ==
  ASSUME NEW c \in Msg
  PROVE  /\ Header(c) \in Seq(Octet) /\ Len(Header(c)) = HdrLen
         /\ \A i \in 1 .. HdrLen : Header(c)[i] = <<c, i - 1>>
<1>1. PICK z \in Seq(Octet) : z = Bytes(c)
  BY BytesFacts
<1>2. PICK e \in Nat : e = HdrLen + Lens[c] /\ HdrLen <= e /\ HdrLen \in Nat
  <2>1. Lens[c] \in Nat /\ HdrLen \in Nat
    BY LensFacts
  <2> QED BY <2>1
<1>3. Len(z) = e /\ \A i \in 1 .. e : z[i] = <<c, i - 1>>
  BY <1>1, <1>2, BytesFacts
<1>4. PICK h : h = SubSeq(z, 1, HdrLen)
  OBVIOUS
<1>5. h \in Seq(Octet) /\ Len(h) = HdrLen /\ \A i \in 1 .. HdrLen : h[i] = z[i]
  BY <1>2, <1>3, <1>4, PartsOfSeq
<1>6. \A i \in 1 .. HdrLen : h[i] = <<c, i - 1>>
  <2>1. \A i \in 1 .. HdrLen : i \in 1 .. e
    BY <1>2
  <2> QED BY <1>3, <1>5, <2>1
<1>7. h = Header(c)
  BY <1>1, <1>4 DEF Header
<1> QED
  BY <1>5, <1>6, <1>7

LEMMA MsgLenKnown ==
  ASSUME NEW c \in Msg
  PROVE  MsgLen(Header(c)) = {Lens[c]}
<1>1. ASSUME NEW m \in Msg, Header(c) = Header(m) PROVE m = c
  <2>1. 1 \in 1 .. HdrLen
    BY LensFacts
  <2>2. Header(c)[1] = <<c, 1 - 1>> /\ Header(m)[1] = <<m, 1 - 1>>
    BY <2>1, HeaderFacts
  <2> QED BY <1>1, <2>2
<1>2. (CHOOSE m \in Msg : Header(c) = Header(m)) = c
  BY <1>1
<1> QED
  BY <1>2 DEF MsgLen

LEMMA MsgLenType ==
  ASSUME NEW h, NEW len \in MsgLen(h)
  PROVE  len \in Nat
<1>1. CASE \E m \in Msg : h = Header(m)
  <2>1. PICK m \in Msg : h = Header(m)
    BY <1>1
  <2> QED BY <2>1, MsgLenKnown, LensFacts
<1>2. CASE ~\E m \in Msg : h = Header(m)
  BY <1>2, LongestFacts DEF MsgLen
<1> QED
  BY <1>1, <1>2

(* rpc_reasm_peek_header has read a whole header, and on an intact         *)
(* connection it is the header of the next message.                        *)
LEMMA HeadIsFirst ==
  ASSUME NEW S, NEW s \in Seq(S), s # <<>>
  PROVE  Head(s) = s[1]
  OBVIOUS

LEMMA HeaderComplete ==
  ASSUME ReasmInv, pc = "peek", ~Peeking
  PROVE  ~broken => /\ Pending # <<>> /\ MsgLen(hdr) = {Lens[Pending[1][1]]}
                    /\ NumberOf(hdr) = Pending[1][1]
<1>1. Types /\ HeaderRead /\ HdrLen <= Len(Kept)
  BY DEF ReasmInv, Held
<1>2. PICK y \in Seq(Octet) : ReadTo(y)
  BY <1>1 DEF HeaderRead
<1>3. PICK h \in Seq(Octet), x \in Seq(Octet) : h = hdr /\ x = stream
  BY <1>1 DEF Types
<1>4. PICK g \in Nat, f \in Nat : g = Len(h) /\ f = Len(y)
  BY LenProperties
<1>5. Kept = h \o y /\ Len(Kept) = g + f /\ HdrLen \in Nat /\ HdrLen >= 1
  BY <1>2, <1>3, <1>4, ConcatParts, LensFacts DEF ReadTo
<1>6. g = HdrLen
  <2>1. g <= HdrLen
    BY <1>1, <1>3, <1>4 DEF HeaderRead
  <2>2. ASSUME g < HdrLen PROVE FALSE
    <3>1. PICK s \in Seq(Seq(Octet)), n \in Nat : s = chunks /\ n = Len(s)
      BY <1>1, LenProperties DEF Types
    <3>2. pos = n + 1
      BY <1>1, <1>3, <1>4, <2>2, <3>1 DEF Peeking, HeaderRead
    <3>3. SubSeq(s, n + 1, n) = <<>>
      BY <3>1, SubSeqProperties, EmptySeq
    <3>4. y = FlattenSeq(SubSeq(s, n + 1, n))
      BY <1>2, <1>3, <1>4, <2>2, <3>1, <3>2 DEF ReadTo
    <3>5. y = <<>>
      BY <3>3, <3>4, FlatEmpty
    <3>6. f = 0
      BY <1>4, <3>5
    <3> QED BY <1>1, <1>5, <2>2, <3>6
  <2> QED BY <1>5, <2>1, <2>2
<1>7. ASSUME ~broken PROVE /\ Pending # <<>> /\ MsgLen(hdr) = {Lens[Pending[1][1]]}
                           /\ NumberOf(hdr) = Pending[1][1]
  <2>1. PICK w \in Seq(Octet) : w = y \o x
    BY ConcatParts
  <2>2. PICK z : z = Pending
    OBVIOUS
  <2>3. z = h \o w
    <3>1. Pending = (h \o y) \o x
      BY <1>3, <1>5 DEF Pending, Held
    <3>2. Bracketed(h, y, x)
      BY Brackets, Zenon
    <3> QED BY <2>1, <2>2, <3>1, <3>2 DEF Bracketed
  <2>4. Flow(z, sent)
    BY <1>7, <2>2 DEF ReasmInv, Ahead
  <2>5. PICK q \in Nat : q = Len(w)
    BY LenProperties
  <2>6. Joined(Octet, h, w, z, g, q)
    BY <1>4, <2>3, <2>5, Join, Zenon
  <2>7. z \in Seq(Octet) /\ Len(z) = g + q /\ \A i \in 1 .. g : z[i] = h[i]
    BY <2>6 DEF Joined
  <2>8. z # <<>>
    <3>1. g + q # 0
      BY <1>5, <1>6
    <3> QED BY <2>7, <3>1, EmptySeq
  <2>9. PICK c \in Msg : c = z[1][1]
    BY <2>4, <2>8, FlowFirst
  <2>10. Lens[c] \in Nat
    BY LensFacts
  <2>11. ASSUME NEW i \in 1 .. HdrLen PROVE h[i] = <<c, i - 1>>
    <3>1. i \in 1 .. g /\ i \in 1 .. Len(z)
      BY <1>6, <2>7
    <3>2. i <= HdrLen + Lens[c]
      BY <1>5, <2>10
    <3>3. i <= HdrLen + Lens[z[1][1]]
      BY <2>9, <3>2
    <3>4. z[i] = <<z[1][1], i - 1>>
      BY <2>4, <3>1, <3>3, FlowStart
    <3> QED BY <2>7, <2>9, <3>1, <3>4
  <2>12. h = Header(c)
    <3>1. PICK d \in Seq(Octet) : d = Header(c)
      BY HeaderFacts
    <3>2. Len(d) = HdrLen /\ \A i \in 1 .. HdrLen : d[i] = <<c, i - 1>>
      BY <3>1, HeaderFacts
    <3>3. \A i \in 1 .. HdrLen : d[i] = h[i]
      BY <2>11, <3>2
    <3>4. Len(h) = HdrLen
      BY <1>4, <1>6
    <3> QED BY <3>1, <3>2, <3>3, <3>4, SeqEqual
  <2>13. MsgLen(h) = {Lens[c]}
    BY <2>12, MsgLenKnown
  <2>14. NumberOf(h) = c
    <3>1. h # <<>>
      BY <1>4, <1>5, <1>6
    <3>2. Head(h) = h[1]
      BY <3>1, HeadIsFirst
    <3>3. h[1] = <<c, 1 - 1>>
      BY <1>5, <2>11
    <3> QED BY <3>2, <3>3 DEF NumberOf
  <2> QED BY <1>3, <2>2, <2>8, <2>9, <2>13, <2>14
<1> QED
  BY <1>7

LEMMA NeedMoreStep ==
  ASSUME ReasmInv, NEW len, NeedMore(len)
  PROVE  ReasmInv'
<1>1. /\ Types /\ pc = "peek" /\ ~Peeking /\ len \in MsgLen(hdr) /\ need' = HdrLen + len
      /\ total_len < HdrLen + len /\ total_len = Len(Held) /\ pc' = "recv"
      /\ chunks' = chunks /\ stream' = stream /\ total_len' = total_len /\ hdr' = hdr
      /\ broken' = broken /\ out' = out /\ sent' = sent /\ buf' = buf /\ keep' = keep
  BY DEF ReasmInv, NeedMore, TestMessage, fate
<1>2. Kept' = Kept /\ Held' = Held /\ Held = Kept /\ Pending' = Pending
  BY <1>1 DEF Held, Kept, Pending
<1>3. Types'
  <2>1. need' \in Nat
    BY <1>1, MsgLenType, LensFacts
  <2> QED BY <1>1, <2>1 DEF Types
<1>4. ASSUME ~broken' PROVE Ahead'
  <2>1. Ahead
    BY <1>1, <1>4 DEF ReasmInv
  <2>2. MsgLen(hdr) = {Lens[Pending[1][1]]}
    BY <1>1, <1>4, HeaderComplete
  <2>3. len = Lens[Pending[1][1]]
    BY <1>1, <2>2
  <2>4. Len(Kept) < FirstLen
    BY <1>1, <1>2, <2>3 DEF FirstLen
  <2>5. FirstLen' = FirstLen
    BY <1>2 DEF FirstLen
  <2> QED BY <1>1, <1>2, <2>1, <2>4, <2>5 DEF Ahead, Dispatched
<1> QED
  BY <1>1, <1>2, <1>3, <1>4 DEF ReasmInv

LEMMA StartConsumePending ==
  ASSUME ReasmInv, NEW len, NEW into \in BOOLEAN, StartConsume(len, into)
  PROVE  Types' /\ Held' = Held /\ Pending' = Pending
<1>1. /\ Types /\ pc = "peek" /\ len \in MsgLen(hdr) /\ need' = HdrLen + len
      /\ pc' = "consume" /\ chunks' = chunks /\ stream' = stream /\ hdr' = hdr
      /\ broken' = broken /\ out' = out /\ sent' = sent /\ buf' = <<>> /\ keep' = into
  BY DEF ReasmInv, StartConsume, TestMessage
<1>2. Types'
  <2>1. need' \in Nat
    BY <1>1, MsgLenType, LensFacts
  <2>2. <<>> \in Seq(Octet)
    OBVIOUS
  <2> QED BY <1>1, <2>1, <2>2 DEF Types
<1>3. Held' = <<>> \o Kept /\ Held = Kept
  BY <1>1 DEF Held, Kept
<1>4. <<>> \o Kept = Kept
  BY <1>1, HeldTypes
<1>5. Held' = Held
  BY <1>3, <1>4
<1> QED
  BY <1>1, <1>2, <1>5 DEF Pending

LEMMA StartConsumeStep ==
  ASSUME ReasmInv, NEW len, NEW into \in BOOLEAN, StartConsume(len, into)
  PROVE  ReasmInv'
<1>1. /\ Types /\ pc = "peek" /\ ~Peeking /\ len \in MsgLen(hdr) /\ need' = HdrLen + len
      /\ total_len >= HdrLen + len /\ total_len = Len(Held) /\ pc' = "consume"
      /\ total_len' = total_len /\ buf' = <<>>
      /\ broken' = broken /\ out' = out /\ sent' = sent
  BY DEF ReasmInv, StartConsume, TestMessage
<1>2. Types' /\ Held' = Held /\ Pending' = Pending
  BY StartConsumePending
<1>3. Len(buf') <= need' /\ need' <= total_len'
  BY <1>1, MsgLenType, LensFacts, HeldTypes
<1>4. ASSUME ~broken' PROVE Ahead'
  <2>1. Ahead
    BY <1>1, <1>4 DEF ReasmInv
  <2>2. Pending # <<>> /\ MsgLen(hdr) = {Lens[Pending[1][1]]}
    BY <1>1, <1>4, HeaderComplete
  <2>3. len = Lens[Pending[1][1]]
    BY <1>1, <2>2
  <2>4. need' = FirstLen'
    BY <1>1, <1>2, <2>3 DEF FirstLen
  <2>5. KeptUnlessRefused'
    <3>1. CASE into = TRUE
      BY <3>1 DEF StartConsume, KeptUnlessRefused
    <3>2. CASE into = FALSE
      <4>1. refused' = refused \cup {NumberOf(hdr)}
        BY <3>2 DEF StartConsume
      <4>2. NumberOf(hdr) = Pending[1][1]
        BY <1>1, <1>4, HeaderComplete
      <4> QED BY <1>2, <4>1, <4>2 DEF KeptUnlessRefused
    <3> QED BY <3>1, <3>2
  <2> QED BY <1>1, <1>2, <2>1, <2>2, <2>4, <2>5 DEF Ahead, Dispatched
<1> QED
  BY <1>1, <1>2, <1>3, <1>4 DEF ReasmInv

(* A list of chunks none of which is empty. *)
Chunks(s) == s \in Seq(Seq(Octet)) /\ \A i \in 1 .. Len(s) : s[i] # <<>>

LEMMA ChunksTail ==
  ASSUME NEW s, Chunks(s), s # <<>>
  PROVE  Chunks(Tail(s)) /\ Head(s) \in Seq(Octet) /\ Tail(s) \in Seq(Seq(Octet))
<1>1. s \in Seq(Seq(Octet)) /\ \A i \in 1 .. Len(s) : s[i] # <<>>
  BY DEF Chunks
<1>2. PICK n \in Nat : n = Len(s) /\ n # 0
  BY <1>1, LenProperties, EmptySeq
<1>3. /\ Head(s) \in Seq(Octet) /\ Tail(s) \in Seq(Seq(Octet)) /\ Len(Tail(s)) = n - 1
      /\ \A i \in 1 .. n - 1 : Tail(s)[i] = s[i + 1]
  BY <1>1, <1>2, HeadTailProperties
<1>4. \A i \in 1 .. n - 1 : i + 1 \in 1 .. n
  BY <1>2
<1>5. \A i \in 1 .. Len(Tail(s)) : Tail(s)[i] # <<>>
  BY <1>1, <1>2, <1>3, <1>4
<1> QED
  BY <1>3, <1>5 DEF Chunks

LEMMA ChunksCons ==
  ASSUME NEW s, Chunks(s), NEW c \in Seq(Octet), c # <<>>
  PROVE  /\ Chunks(<<c>> \o s)
         /\ FlattenSeq(<<c>> \o s) = c \o FlattenSeq(s)
<1>1. s \in Seq(Seq(Octet)) /\ \A i \in 1 .. Len(s) : s[i] # <<>>
  BY DEF Chunks
<1>2. PICK n \in Nat : n = Len(s)
  BY <1>1, LenProperties
<1>3. PICK u, y : u = <<c>> /\ y = u \o s
  OBVIOUS
<1>4. u \in Seq(Seq(Octet)) /\ Len(u) = 1 /\ u[1] = c
  BY <1>3
<1>5. Joined(Seq(Octet), u, s, y, 1, n)
  BY <1>1, <1>2, <1>3, <1>4, Join, Zenon
<1>6. /\ y \in Seq(Seq(Octet)) /\ Len(y) = 1 + n
      /\ \A j \in 1 .. 1 : y[j] = u[j]
      /\ \A j \in 1 .. n : y[1 + j] = s[j]
  BY <1>5 DEF Joined
<1>7. ASSUME NEW i \in 1 .. 1 + n PROVE y[i] # <<>>
  <2>1. CASE i = 1
    BY <1>4, <1>6, <2>1
  <2>2. CASE i # 1
    <3>1. PICK j \in 1 .. n : j = i - 1
      <4>1. i - 1 \in 1 .. n
        BY <1>2, <2>2
      <4> QED BY <4>1
    <3>2. i = 1 + j
      BY <3>1
    <3>3. s[j] # <<>>
      BY <1>1, <1>2
    <3> QED BY <1>6, <3>2, <3>3
  <2> QED BY <2>1, <2>2
<1>8. Chunks(y)
  BY <1>6, <1>7 DEF Chunks
<1>9. y # <<>> /\ Head(y) = c /\ Tail(y) = s
  BY <1>1, <1>3, ConsFacts
<1>10. FlattenSeq(y) = Head(y) \o FlattenSeq(Tail(y))
  BY <1>6, <1>9, FlatCons
<1> QED
  BY <1>3, <1>8, <1>9, <1>10

(* One round of rpc_reasm_consume: t bytes of the first chunk follow x. *)
Round(s, t, u, x) ==
  /\ Chunks(u) /\ SubSeq(Head(s), 1, t) \in Seq(Octet)
  /\ Len(SubSeq(Head(s), 1, t)) = t
  /\ (x \o SubSeq(Head(s), 1, t)) \o FlattenSeq(u) = x \o FlattenSeq(s)

LEMMA ConsumeRound ==
  ASSUME NEW x \in Seq(Octet), NEW s, Chunks(s), s # <<>>, NEW t \in Nat, t <= Len(Head(s)),
         NEW u, u = IF t = Len(Head(s)) THEN Tail(s)
                    ELSE <<SubSeq(Head(s), t + 1, Len(Head(s)))>> \o Tail(s)
  PROVE  Round(s, t, u, x)
<1>1. PICK b \in Seq(Octet), v \in Seq(Seq(Octet)) : b = Head(s) /\ v = Tail(s) /\ Chunks(v)
  BY ChunksTail
<1>2. PICK e \in Nat : e = Len(b)
  BY LenProperties
<1>3. PICK f \in Seq(Octet) : f = FlattenSeq(v)
  BY FlatType
<1>4. FlattenSeq(s) = b \o f
  <2>1. s \in Seq(Seq(Octet))
    BY DEF Chunks
  <2> QED BY <1>1, <1>3, <2>1, FlatCons
<1>5. PICK a \in Seq(Octet), c \in Seq(Octet) :
        a = SubSeq(b, 1, t) /\ c = SubSeq(b, t + 1, e) /\ Len(a) = t /\ Len(c) = e - t /\ a \o c = b
  <2>1. t <= Len(b)
    BY <1>1
  <2>2. /\ SubSeq(b, 1, t) \in Seq(Octet) /\ SubSeq(b, t + 1, Len(b)) \in Seq(Octet)
        /\ Len(SubSeq(b, 1, t)) = t /\ Len(SubSeq(b, t + 1, Len(b))) = Len(b) - t
        /\ SubSeq(b, 1, t) \o SubSeq(b, t + 1, Len(b)) = b
    BY <2>1, TwoParts, Zenon
  <2> QED BY <1>2, <2>2, Zenon
<1>6. u = IF t = e THEN v ELSE <<c>> \o v
  BY <1>1, <1>2, <1>5
<1>7. Chunks(u) /\ FlattenSeq(u) = c \o f
  <2>1. CASE t = e
    <3>1. c = <<>>
      BY <1>5, <2>1, EmptySeq
    <3>2. <<>> \o f = f
      OBVIOUS
    <3> QED BY <1>1, <1>3, <1>6, <2>1, <3>1, <3>2
  <2>2. CASE t # e
    <3>1. c # <<>>
      <4>1. e - t # 0
        BY <1>2, <2>2
      <4> QED BY <1>5, <4>1, EmptySeq
    <3> QED BY <1>1, <1>3, <1>6, <2>2, <3>1, ChunksCons
  <2> QED BY <2>1, <2>2
<1>8. (x \o a) \o FlattenSeq(u) = x \o FlattenSeq(s)
  <2>1. FourParts(x, a, c, f)
    BY BracketsOfFour, Zenon
  <2> QED BY <1>4, <1>5, <1>7, <2>1 DEF FourParts
<1> QED
  BY <1>1, <1>5, <1>7, <1>8 DEF Round

LEMMA ConsumePending ==
  ASSUME ReasmInv, rpc_reasm_consume
  PROVE  /\ Types' /\ Held' = Held /\ Pending' = Pending
         /\ Len(buf') <= need
<1>1. /\ Types /\ pc = "consume" /\ pc' = pc /\ stream' = stream /\ hdr' = hdr /\ need' = need
      /\ broken' = broken /\ out' = out /\ sent' = sent /\ keep' = keep /\ Len(buf) <= need
  BY DEF ReasmInv, rpc_reasm_consume, fate
<1>2. PICK s \in Seq(Seq(Octet)), x \in Seq(Octet) : s = chunks /\ x = buf /\ Chunks(s)
  BY <1>1 DEF Types, Chunks
<1>3. s # <<>>
  BY <1>2 DEF rpc_reasm_consume, Consuming
<1>4. PICK e \in Nat, g \in Nat : e = Len(Head(s)) /\ g = Len(x)
  BY <1>2, <1>3, ChunksTail, LenProperties
<1>5. g < need /\ need \in Nat
  BY <1>1, <1>2, <1>4 DEF Types, rpc_reasm_consume, Consuming
<1>6. PICK t \in Nat : t = Min({e, need - g}) /\ t <= e /\ t <= need - g
  <2>1. {e, need - g} \in SUBSET Nat /\ {e, need - g} # {}
    BY <1>5
  <2>2. /\ Min({e, need - g}) \in {e, need - g}
        /\ \A y \in {e, need - g} : Min({e, need - g}) <= y
    BY <2>1, MinIsLeast
  <2> QED BY <2>1, <2>2
<1>7. PICK u : u = IF t = Len(Head(s)) THEN Tail(s)
                   ELSE <<SubSeq(Head(s), t + 1, Len(Head(s)))>> \o Tail(s)
  OBVIOUS
<1>8. chunks' = u /\ buf' = x \o SubSeq(Head(s), 1, t)
  BY <1>2, <1>4, <1>6, <1>7 DEF rpc_reasm_consume
<1>9. t <= Len(Head(s))
  BY <1>4, <1>6
<1>10. Round(s, t, u, x)
  BY <1>2, <1>3, <1>7, <1>9, ConsumeRound
<1>11. buf' \in Seq(Octet) /\ Len(buf') = g + t
  <2>1. PICK a \in Seq(Octet) : a = SubSeq(Head(s), 1, t) /\ Len(a) = t
    BY <1>10 DEF Round
  <2>2. x \o a \in Seq(Octet) /\ Len(x \o a) = Len(x) + Len(a)
    BY ConcatParts
  <2> QED BY <1>4, <1>8, <2>1, <2>2
<1>12. Held' = Held
  BY <1>1, <1>2, <1>8, <1>10 DEF Round, Held, Kept
<1>13. Types'
  BY <1>1, <1>8, <1>10, <1>11 DEF Round, Types, Chunks
<1>14. Len(buf') <= need
  BY <1>5, <1>6, <1>11
<1> QED
  BY <1>1, <1>12, <1>13, <1>14 DEF Pending

LEMMA ConsumeStep ==
  ASSUME ReasmInv, rpc_reasm_consume
  PROVE  ReasmInv'
<1>1. Types' /\ Held' = Held /\ Pending' = Pending /\ Len(buf') <= need
  BY ConsumePending
<1>2. /\ pc = "consume" /\ pc' = pc /\ need' = need /\ total_len' = total_len
      /\ broken' = broken /\ out' = out /\ sent' = sent
      /\ keep' = keep /\ refused' = refused
  BY DEF rpc_reasm_consume, fate
<1>3. ASSUME ~broken' PROVE Ahead'
  <2>1. Ahead
    BY <1>2, <1>3 DEF ReasmInv
  <2> QED BY <1>1, <1>2, <2>1 DEF Ahead, FirstLen, Dispatched, KeptUnlessRefused
<1> QED
  BY <1>1, <1>2, <1>3 DEF ReasmInv

(* What Dispatch takes off is need bytes long, and the next message. *)
LEMMA DispatchPending ==
  ASSUME ReasmInv, Dispatch
  PROVE  /\ Types' /\ total_len' = Len(Held')
         /\ Pending' \in Seq(Octet) /\ Pending = buf \o Pending'
         /\ ~broken => Pending # <<>> /\ FirstOff(buf, Pending', sent, Pending[1][1])
<1>1. /\ Types /\ pc = "consume" /\ ~Consuming /\ pc' = "test" /\ chunks' = chunks
      /\ stream' = stream /\ buf' = buf /\ sent' = sent /\ broken' = broken
      /\ total_len' = total_len - Len(buf) /\ total_len = Len(Held)
      /\ Len(buf) <= need /\ need <= total_len
  BY DEF ReasmInv, Dispatch, fate
<1>2. PICK a \in Seq(Octet), k \in Seq(Octet), x \in Seq(Octet) : a = buf /\ k = Kept /\ x = stream
  BY <1>1, HeldTypes DEF Types
<1>3. PICK g \in Nat, f \in Nat : g = Len(a) /\ f = Len(k)
  BY LenProperties
<1>4. Held = a \o k /\ Held' = k
  BY <1>1, <1>2 DEF Held, Kept
<1>5. Len(Held) = g + f
  BY <1>3, <1>4, ConcatParts
<1>6. total_len' = Len(Held')
  BY <1>1, <1>2, <1>3, <1>4, <1>5
<1>7. g = need
  <2>1. CASE chunks = <<>>
    <3>1. k = <<>>
      BY <1>2, <2>1, FlatEmpty DEF Kept
    <3>2. f = 0
      BY <1>3, <3>1
    <3> QED BY <1>1, <1>2, <1>3, <1>5, <3>2 DEF Types
  <2>2. CASE chunks # <<>>
    BY <1>1, <1>2, <1>3, <2>2 DEF Consuming, Types
  <2> QED BY <2>1, <2>2
<1>8. PICK w \in Seq(Octet) : w = k \o x
  BY ConcatParts
<1>9. Pending' = w
  BY <1>1, <1>2, <1>4, <1>8 DEF Pending
<1>10. Pending = a \o w
  <2>1. Pending = (a \o k) \o x
    BY <1>2, <1>4 DEF Pending
  <2>2. Bracketed(a, k, x)
    BY Brackets, Zenon
  <2> QED BY <1>8, <2>1, <2>2 DEF Bracketed
<1>11. Types'
  <2>1. out' \in Seq(Seq(Octet))
    <3>1. Append(out, buf) \in Seq(Seq(Octet))
      BY <1>1, AppendProperties DEF Types
    <3> QED BY <1>1, <3>1 DEF Types, Dispatch
  <2> QED BY <1>1, <2>1 DEF Types, Dispatch
<1>12. ASSUME ~broken PROVE Pending # <<>> /\ FirstOff(buf, Pending', sent, Pending[1][1])
  <2>1. Flow(Pending, sent) /\ Pending # <<>> /\ need = FirstLen
    BY <1>1, <1>12 DEF ReasmInv, Ahead
  <2>2. PICK c : c = Pending[1][1]
    OBVIOUS
  <2>3. Flow(a \o w, sent) /\ a \o w # <<>> /\ c = (a \o w)[1][1]
    BY <1>10, <2>1, <2>2
  <2>4. Len(a) = HdrLen + Lens[c]
    BY <1>3, <1>7, <2>1, <2>2 DEF FirstLen
  <2>5. PICK n \in Nat : n = sent
    BY <1>1 DEF Types
  <2>6. FirstOff(a, w, n, c)
    BY <2>3, <2>4, <2>5, FlowTake
  <2> QED BY <1>2, <1>9, <2>1, <2>2, <2>5, <2>6
<1> QED
  BY <1>2, <1>6, <1>9, <1>10, <1>11, <1>12

LEMMA DispatchStep ==
  ASSUME ReasmInv, Dispatch
  PROVE  ReasmInv'
<1>1. Types /\ Types' /\ total_len' = Len(Held')
  BY DispatchPending DEF ReasmInv
<1>2. pc' = "test" /\ sent' = sent /\ broken' = broken
  BY DEF Dispatch, fate
<1>3. ASSUME ~broken' PROVE Ahead'
  <2>1. PICK c : c = Pending[1][1]
    OBVIOUS
  <2>2. FirstOff(buf, Pending', sent, c)
    BY <1>2, <1>3, <2>1, DispatchPending
  <2>3. Flow(Pending', sent') /\ buf = Bytes(c) /\ c \in 1 .. sent
    BY <1>2, <2>2 DEF FirstOff
  <2>4. Dispatched
    BY <1>2, <1>3 DEF ReasmInv, Ahead
  <2>5. Dispatched'
    <3>1. CASE out' = out
      BY <1>2, <2>4, <3>1 DEF Dispatched
    <3>2. CASE out' = Append(out, buf)
      <4>1. PICK s \in Seq(Seq(Octet)), b \in Seq(Octet) : s = out /\ b = buf
        BY <1>1 DEF Types
      <4>2. PICK n \in Nat : n = Len(s)
        BY LenProperties
      <4>3. PICK o : o = Append(s, b)
        OBVIOUS
      <4>4. /\ Len(o) = n + 1
            /\ \A i \in 1 .. n : o[i] = s[i]
            /\ o[n + 1] = b
        BY <4>2, <4>3, AppendProperties
      <4>5. ASSUME NEW i \in 1 .. n + 1 PROVE \E m \in 1 .. sent : o[i] = Bytes(m)
        <5>1. CASE i = n + 1
          BY <2>3, <4>1, <4>4, <5>1
        <5>2. CASE i # n + 1
          <6>1. i \in 1 .. n
            BY <4>2, <5>2
          <6>2. \E m \in 1 .. sent : s[i] = Bytes(m)
            BY <2>4, <4>1, <4>2, <6>1 DEF Dispatched
          <6> QED BY <4>4, <6>1, <6>2
        <5> QED BY <5>1, <5>2
      <4>6. out' = o
        BY <3>2, <4>1, <4>3
      <4> QED BY <1>2, <4>4, <4>5, <4>6 DEF Dispatched
    <3> QED BY <3>1, <3>2 DEF Dispatch
  <2> QED BY <1>2, <2>3, <2>5 DEF Ahead
<1> QED
  BY <1>1, <1>2, <1>3 DEF ReasmInv

LEMMA NextReasm ==
  ASSUME ReasmInv, [Next]_vars
  PROVE  ReasmInv'
<1>1. CASE Send
  BY <1>1, SendStep
<1>2. ASSUME NEW k \in 0 .. HdrLen + Max(ToSet(Lens)), ShortSend(k) PROVE ReasmInv'
  <2>1. k \in Nat
    BY LensFacts, LongestFacts
  <2> QED BY <1>2, <2>1, ShortSendStep
<1>3. ASSUME NEW k \in 1 .. MTU, AppendNoMem(k) PROVE ReasmInv'
  BY <1>3, LostStep
<1>4. ASSUME NEW len \in 0 .. Max(ToSet(Lens)), StartConsume(len, FALSE) PROVE ReasmInv'
  BY <1>4, StartConsumeStep
<1>5. ASSUME NEW k \in 1 .. MTU, rpc_reasm_append(k) PROVE ReasmInv'
  BY <1>5, AppendStep
<1>6. ASSUME NEW k \in 1 .. MTU, OnDataIgnored(k) PROVE ReasmInv'
  BY <1>6, LostStep
<1>7. CASE TestHeader
  BY <1>7, TestHeaderStep
<1>8. CASE rpc_reasm_peek_header
  BY <1>8, PeekStep
<1>9. CASE rpc_reasm_consume
  BY <1>9, ConsumeStep
<1>10. CASE Dispatch
  BY <1>10, DispatchStep
<1>11. ASSUME NEW len \in 0 .. Max(ToSet(Lens)), NeedMore(len) PROVE ReasmInv'
  BY <1>11, NeedMoreStep
<1>12. ASSUME NEW len \in 0 .. Max(ToSet(Lens)), StartConsume(len, TRUE) PROVE ReasmInv'
  BY <1>12, StartConsumeStep
<1>13. CASE UNCHANGED vars
  <2>1. Kept' = Kept /\ Held' = Held /\ Pending' = Pending
    BY <1>13 DEF vars, Kept, Held, Pending
  <2>2. Ahead => Ahead'
    BY <1>13, <2>1 DEF vars, Ahead, FirstLen, Dispatched, KeptUnlessRefused
  <2>3. Types' /\ (HeaderRead => HeaderRead')
    BY <1>13, <2>1 DEF vars, ReasmInv, Types, HeaderRead, ReadTo
  <2> QED BY <1>13, <2>1, <2>2, <2>3 DEF vars, ReasmInv
<1> QED
  BY <1>1, <1>2, <1>3, <1>4, <1>5, <1>6, <1>7, <1>8, <1>9, <1>10, <1>11, <1>12, <1>13
     DEF Next, OnDataStep

-----------------------------------------------------------------------------
(* ReasmInv holds throughout. *)
LEMMA ReasmAlways == Spec => []ReasmInv
<1>1. Init => ReasmInv
  BY InitReasm
<1>2. ReasmInv /\ [Next]_vars => ReasmInv'
  BY NextReasm
<1> QED
  BY <1>1, <1>2, PTL DEF Spec

LEMMA OctetBounded ==
  ASSUME NEW s \in Seq(Octet), NEW b \in ToSet(s)
  PROVE  b \in Msg \X (0 .. HdrLen + Max(ToSet(Lens)) - 1)
<1>1. PICK i \in 1 .. Len(s) : b = s[i]
  BY LenProperties DEF ToSet
<1>2. b \in Octet
  BY <1>1, ElementOfSeq
<1>3. PICK m \in Msg, o \in Nat : b = <<m, o>> /\ o < HdrLen + Lens[m]
  BY <1>2, OctetFacts
<1>4. PICK x \in Nat : x = Max(ToSet(Lens)) /\ Lens[m] <= x
  BY LongestFacts
<1>5. o \in 0 .. HdrLen + x - 1
  BY <1>3, <1>4, LensFacts, SMTT(30)
<1> QED
  BY <1>3, <1>4, <1>5

LEMMA TypesTypeOK ==
  ASSUME ReasmInv
  PROVE  TypeOK
<1> DEFINE Byte == Msg \X (0 .. HdrLen + Max(ToSet(Lens)) - 1)
<1>1. Types
  BY DEF ReasmInv
<1>2. \A b \in ToSet(stream) \cup ToSet(hdr) \cup ToSet(buf) : b \in Byte
  <2>1. ASSUME NEW s \in Seq(Octet), NEW b \in ToSet(s) PROVE b \in Byte
    BY OctetBounded
  <2> HIDE DEF Byte
  <2> QED BY <1>1, <2>1 DEF Types
<1>3. ASSUME NEW c \in ToSet(chunks) PROVE c # <<>> /\ ToSet(c) \subseteq Byte
  <2>1. PICK i \in 1 .. Len(chunks) : c = chunks[i]
    BY <1>1, LenProperties DEF ToSet, Types
  <2>2. c \in Seq(Octet) /\ c # <<>>
    BY <1>1, <2>1, ElementOfSeq DEF Types
  <2>3. ASSUME NEW b \in ToSet(c) PROVE b \in Byte
    BY <2>2, OctetBounded
  <2> HIDE DEF Byte
  <2> QED BY <2>2, <2>3
<1>4. total_len \in Nat
  BY <1>1, HeldTypes DEF ReasmInv
<1>5. pc = "peek" => pos \in 1 .. Len(chunks) + 1
  BY DEF ReasmInv, HeaderRead
<1> QED
  BY <1>1, <1>2, <1>3, <1>4, <1>5 DEF TypeOK, Types

(* rpc_on_data, whatever bytes it is given and whichever heap_malloc       *)
(* fails: its variables keep their types, and reasm.total_len is the       *)
(* number of bytes in the list each time the loop tests it.                *)
THEOREM TotalIsExact == Spec => []TotalExact
<1>1. ReasmInv => TotalExact
  BY TypesTypeOK DEF ReasmInv, TotalExact, Held, Kept
<1> QED
  BY <1>1, ReasmAlways, PTL

(* Every message rpc_on_data dispatches is one of those the peer sent,     *)
(* byte for byte, however the connection cut them up.                      *)
THEOREM MessagesIntact == Spec => []Intact
<1>1. ASSUME ReasmInv PROVE Intact
  <2>1. DOMAIN out = 1 .. Len(out)
    BY <1>1, LenProperties DEF ReasmInv, Types
  <2> QED BY <1>1, <2>1 DEF ReasmInv, Ahead, Dispatched, Intact
<1> QED
  BY <1>1, ReasmAlways, PTL

LEMMA PartOfFirst ==
  ASSUME ReasmInv, ~broken, pc = "recv", Kept # <<>>
  PROVE  \E m \in Msg : Len(Kept) < HdrLen + Lens[m] /\ IsPrefix(Kept, Bytes(m))
<1>1. Types /\ Flow(Pending, sent) /\ Len(Kept) < FirstLen
  BY DEF ReasmInv, Ahead
<1>2. PICK k \in Seq(Octet), x \in Seq(Octet) : k = Kept /\ x = stream
  BY <1>1, HeldTypes DEF Types
<1>0. PICK z : z = k \o x
  OBVIOUS
<1>3. PICK p \in Nat, q \in Nat : p = Len(k) /\ q = Len(x) /\ z = k \o x
  BY <1>0, LenProperties
<1>4. z = Pending
  BY <1>2, <1>3 DEF Pending, Held
<1>5. Joined(Octet, k, x, z, p, q)
  BY <1>3, Join, Zenon
<1>6. z \in Seq(Octet) /\ Len(z) = p + q /\ \A j \in 1 .. p : z[j] = k[j]
  BY <1>5 DEF Joined
<1>7. z # <<>>
  BY <1>2, <1>3, FirstStays
<1>8. PICK m \in Msg : m = z[1][1]
  BY <1>1, <1>4, <1>7, FlowFirst
<1>9. PICK e \in Nat : e = HdrLen + Lens[m]
  BY LensFacts
<1>10. p < e
  BY <1>1, <1>2, <1>3, <1>4, <1>8, <1>9 DEF FirstLen
<1>11. PICK y \in Seq(Octet) : y = Bytes(m)
  BY BytesFacts
<1>12. Len(y) = e /\ \A i \in 1 .. e : y[i] = <<m, i - 1>>
  BY <1>9, <1>11, BytesFacts
<1>13. ASSUME NEW i \in 1 .. p PROVE k[i] = y[i]
  <2>1. i \in 1 .. e /\ i <= e /\ i \in 1 .. p + q
    BY <1>10
  <2>2. i <= HdrLen + Lens[z[1][1]] /\ i \in 1 .. Len(z)
    BY <1>6, <1>8, <1>9, <2>1
  <2>3. Flow(z, sent)
    BY <1>1, <1>4
  <2>4. z[i] = <<z[1][1], i - 1>>
    BY <2>2, <2>3, FlowStart
  <2> QED BY <1>6, <1>8, <1>12, <2>1, <2>4
<1>14. SubSeq(k, 1, p) = SubSeq(y, 1, p) /\ p <= Len(y)
  <2>1. PICK u, v : u = SubSeq(k, 1, p) /\ v = SubSeq(y, 1, p)
    OBVIOUS
  <2>2. p <= Len(k) /\ p <= Len(y)
    BY <1>3, <1>10, <1>12
  <2>3. /\ u \in Seq(Octet) /\ Len(u) = p /\ \A i \in 1 .. p : u[i] = k[i]
        /\ v \in Seq(Octet) /\ Len(v) = p /\ \A i \in 1 .. p : v[i] = y[i]
    BY <2>1, <2>2, PartsOfSeq
  <2>4. \A i \in 1 .. p : u[i] = v[i]
    BY <1>13, <2>3
  <2>5. u = v
    BY <2>3, <2>4, SeqEqual
  <2> QED BY <2>1, <2>2, <2>5
<1>15. IsPrefix(k, y)
  BY <1>3, <1>14 DEF IsPrefix
<1> QED
  BY <1>2, <1>3, <1>9, <1>10, <1>11, <1>15

(* When rpc_on_data has returned it keeps no complete message: what is in  *)
(* the list is the beginning of the next one.                              *)
THEOREM NoMessageWaits == Spec => []NothingWaits
<1>1. ASSUME ReasmInv PROVE NothingWaits
  <2>1. SUFFICES ASSUME ~broken, pc = "recv"
                 PROVE  \E m \in 1 .. Len(Lens) + 1 :
                          IF m \in Msg
                          THEN Len(Kept) < HdrLen + Lens[m] /\ IsPrefix(Kept, Bytes(m))
                          ELSE Kept = <<>>
    BY DEF NothingWaits, Kept
  <2>2. CASE Kept = <<>>
    <3>1. Len(Lens) + 1 \in 1 .. Len(Lens) + 1 /\ Len(Lens) + 1 \notin Msg
      BY LensFacts DEF Msg
    <3> QED BY <2>2, <3>1
  <2>3. CASE Kept # <<>>
    <3>1. Msg \subseteq 1 .. Len(Lens) + 1
      BY LensFacts DEF Msg
    <3> QED BY <1>1, <2>1, <2>3, <3>1, PartOfFirst
  <2> QED BY <2>2, <2>3
<1> QED
  BY <1>1, ReasmAlways, PTL

-----------------------------------------------------------------------------
(* The refinement: which step of OrderedDelivery each step of rpc_on_data  *)
(* is.                                                                     *)
Delivered == [i \in DOMAIN out |-> NumberOf(out[i])]

LEMMA ConsumedIs ==
  /\ Consumed = IF Pending = <<>> THEN sent ELSE Head(Pending)[1] - 1
  /\ Consumed' = IF Pending' = <<>> THEN sent' ELSE Head(Pending')[1] - 1
  BY DEF Consumed, NumberOf, Pending, Held, Kept

LEMMA SendRefines ==
  ASSUME ReasmInv, Send, ~broken
  PROVE  Consumed' = Consumed
<1>1. Types /\ Flow(Pending, sent) /\ sent' = sent + 1
  BY DEF ReasmInv, Ahead, Send
<1>2. PICK z \in Seq(Octet), b \in Seq(Octet) : z = Pending /\ b = Bytes(sent + 1)
  BY <1>1, HeldTypes, SendPending
<1>3. Pending' = z \o b /\ sent + 1 \in Msg
  BY <1>2, SendPending
<1>4. 1 \in 1 .. HdrLen + Lens[sent + 1]
  <2>1. HdrLen \in Nat /\ HdrLen >= 1 /\ Lens[sent + 1] \in Nat
    BY <1>3, LensFacts
  <2> QED BY <2>1
<1>5. b[1] = <<sent + 1, 1 - 1>>
  BY <1>2, <1>3, <1>4, BytesFacts
<1>6. Len(b) = HdrLen + Lens[sent + 1]
  BY <1>2, <1>3, BytesFacts
<1>7. b # <<>>
  BY <1>4, <1>6
<1>8. CASE z = <<>>
  <2>1. <<>> \o b = b
    OBVIOUS
  <2>2. Pending' # <<>> /\ Head(Pending')[1] = sent + 1
    BY <1>3, <1>5, <1>7, <1>8, <2>1, HeadIsFirst
  <2>3. Consumed' = (sent + 1) - 1 /\ Consumed = sent
    BY <1>2, <1>8, <2>2, ConsumedIs
  <2> QED BY <1>1, <2>3 DEF Types
<1>9. CASE z # <<>>
  <2>1. Pending' # <<>> /\ Head(Pending') = z[1] /\ Head(z) = z[1]
    BY <1>3, <1>9, FirstStays, HeadIsFirst
  <2> QED BY <1>2, <1>9, <2>1, ConsumedIs
<1> QED
  BY <1>8, <1>9

LEMMA DispatchRefines ==
  ASSUME ReasmInv, Dispatch, ~broken
  PROVE  /\ Consumed < sent /\ Consumed' = Consumed + 1
         /\ keep \/ Consumed + 1 \in refused
         /\ Delivered' = IF keep THEN Append(Delivered, Consumed') ELSE Delivered
<1>1. /\ Types /\ Types' /\ Pending # <<>> /\ sent' = sent
      /\ out' = IF keep THEN Append(out, buf) ELSE out
  BY DispatchPending DEF ReasmInv, Dispatch
<1>2. PICK c : c = Pending[1][1]
  OBVIOUS
<1>3. FirstOff(buf, Pending', sent, c)
  BY <1>2, DispatchPending
<1>4. /\ c \in 1 .. sent /\ c \in Msg /\ buf = Bytes(c)
      /\ Pending' = <<>> => c = sent
      /\ Pending' # <<>> => Pending'[1][1] = c + 1
  BY <1>3 DEF FirstOff
<1>5. sent \in Nat /\ c \in Nat /\ c >= 1 /\ c <= sent
  BY <1>1, <1>4 DEF Types
<1>6. Consumed = c - 1
  <2>1. Head(Pending) = Pending[1]
    BY <1>1, HeldTypes, HeadIsFirst
  <2> QED BY <1>1, <1>2, <2>1, ConsumedIs
<1>7. Consumed' = c
  <2>1. Pending' # <<>> => Head(Pending') = Pending'[1]
    BY DispatchPending, HeadIsFirst
  <2> QED BY <1>1, <1>4, <1>5, <2>1, ConsumedIs
<1>8. NumberOf(buf) = c
  <2>1. 1 \in 1 .. HdrLen + Lens[c]
    <3>1. HdrLen \in Nat /\ HdrLen >= 1 /\ Lens[c] \in Nat
      BY <1>4, LensFacts
    <3> QED BY <3>1
  <2>2. buf[1] = <<c, 1 - 1>> /\ buf \in Seq(Octet) /\ Len(buf) = HdrLen + Lens[c]
    BY <1>4, <2>1, BytesFacts
  <2>3. buf # <<>>
    BY <2>1, <2>2
  <2> QED BY <2>2, <2>3, HeadIsFirst DEF NumberOf
<1>9. ASSUME keep PROVE Delivered' = Append(Delivered, c)
  <2>1. PICK s \in Seq(Seq(Octet)), n \in Nat : s = out /\ n = Len(s)
    BY <1>1, LenProperties DEF Types
  <2>2. PICK o : o = Append(s, buf)
    OBVIOUS
  <2>3. /\ o \in Seq(Seq(Octet)) /\ Len(o) = n + 1
        /\ \A i \in 1 .. n : o[i] = s[i]
        /\ o[n + 1] = buf
    BY <1>1, <2>1, <2>2, AppendProperties DEF Types
  <2>4. DOMAIN s = 1 .. n /\ DOMAIN o = 1 .. n + 1
    BY <2>1, <2>3, LenProperties
  <2>5. Delivered = [i \in 1 .. n |-> NumberOf(s[i])] /\ Delivered' = [i \in 1 .. n + 1 |-> NumberOf(o[i])]
    BY <1>1, <1>9, <2>1, <2>2, <2>4 DEF Delivered
  <2>6. PICK d, f : d = [i \in 1 .. n |-> NumberOf(s[i])] /\ f = [i \in 1 .. n + 1 |-> NumberOf(o[i])]
    OBVIOUS
  <2>7. d \in Seq({NumberOf(x) : x \in Seq(Octet)}) /\ Len(d) = n
    <3>1. \A i \in 1 .. n : NumberOf(s[i]) \in {NumberOf(x) : x \in Seq(Octet)}
      BY <2>1, ElementOfSeq
    <3>2. d \in [1 .. n -> {NumberOf(x) : x \in Seq(Octet)}]
      BY <2>6, <3>1
    <3> QED BY <3>2, SeqDef, LenProperties
  <2>8. f = Append(d, c)
    <3>1. PICK T : T = {NumberOf(x) : x \in Seq(Octet)} \cup {c}
      OBVIOUS
    <3>2. d \in Seq(T)
      <4>1. \A i \in 1 .. n : NumberOf(s[i]) \in T
        BY <2>1, <3>1, ElementOfSeq
      <4>2. d \in [1 .. n -> T]
        BY <2>6, <4>1
      <4> QED BY <4>2, SeqDef
    <3>3. c \in T
      BY <3>1
    <3>4. PICK g : g = Append(d, c)
      OBVIOUS
    <3>5. /\ g \in Seq(T) /\ Len(g) = n + 1 /\ g[n + 1] = c
          /\ \A i \in 1 .. n : g[i] = d[i]
      BY <2>7, <3>2, <3>3, <3>4, AppendProperties
    <3>6. ASSUME NEW i \in 1 .. n + 1 PROVE f[i] = g[i]
      <4>1. CASE i = n + 1
        BY <1>8, <2>3, <2>6, <3>5, <4>1
      <4>2. CASE i # n + 1
        <5>1. i \in 1 .. n
          BY <2>1, <4>2
        <5> QED BY <2>3, <2>6, <3>5, <5>1
      <4> QED BY <4>1, <4>2
    <3>7. DOMAIN g = 1 .. n + 1
      BY <3>5, LenProperties
    <3>8. g = [i \in 1 .. n + 1 |-> g[i]]
      BY <3>5, <3>7, LenProperties
    <3>9. f = g
      BY <2>6, <3>6, <3>8
    <3> QED BY <3>4, <3>9
  <2> QED BY <2>5, <2>6, <2>8
<1>10. ASSUME ~keep PROVE Delivered' = Delivered
  BY <1>1, <1>10 DEF Delivered
<1>11. keep \/ c \in refused
  <2>1. KeptUnlessRefused
    BY DEF ReasmInv, Ahead, Dispatch
  <2> QED BY <1>2, <2>1 DEF KeptUnlessRefused
<1> QED
  BY <1>5, <1>6, <1>7, <1>9, <1>10, <1>11

(* A message refused memory is the next one. *)
LEMMA RefuseRefines ==
  ASSUME ReasmInv, NEW len, StartConsume(len, FALSE), ~broken
  PROVE  Consumed < sent /\ refused' = refused \cup {Consumed + 1}
<1>1. Types /\ pc = "peek" /\ ~Peeking /\ refused' = refused \cup {NumberOf(hdr)}
  BY DEF ReasmInv, StartConsume, TestMessage
<1>2. Pending # <<>> /\ NumberOf(hdr) = Pending[1][1]
  BY <1>1, HeaderComplete
<1>3. Flow(Pending, sent)
  BY DEF ReasmInv, Ahead
<1>4. PICK c \in Msg : c = Pending[1][1] /\ c <= sent
  BY <1>1, <1>2, <1>3, FlowFirst DEF Types
<1>5. Consumed = c - 1
  <2>1. Head(Pending) = Pending[1]
    BY <1>1, <1>2, HeldTypes, HeadIsFirst
  <2> QED BY <1>2, <1>4, <2>1, ConsumedIs
<1>6. c \in Nat /\ sent \in Nat
  BY <1>1, LensFacts DEF Msg, Types
<1> QED
  BY <1>1, <1>2, <1>4, <1>5, <1>6

LEMMA OtherRefines ==
  ASSUME ReasmInv,
         \/ \E k \in 1 .. MTU : rpc_reasm_append(k)
         \/ TestHeader \/ rpc_reasm_peek_header \/ rpc_reasm_consume
         \/ \E len : NeedMore(len)
         \/ \E len : StartConsume(len, TRUE) \/ StartConsume(len, FALSE)
         \/ UNCHANGED vars
  PROVE  /\ sent' = sent /\ Consumed' = Consumed /\ Delivered' = Delivered /\ broken' = broken
         /\ refused' = refused \/ \E len : StartConsume(len, FALSE)
<1>1. /\ sent' = sent /\ out' = out /\ broken' = broken
      /\ refused' = refused \/ \E len : StartConsume(len, FALSE)
  BY DEF rpc_reasm_append, Arrive, TestHeader, rpc_reasm_peek_header, rpc_reasm_consume,
         NeedMore, StartConsume, fate, vars
<1>2. CASE \E k \in 1 .. MTU : rpc_reasm_append(k)
  BY <1>1, <1>2, AppendPending, ConsumedIs DEF Delivered
<1>3. CASE \E len : StartConsume(len, TRUE) \/ StartConsume(len, FALSE)
  BY <1>1, <1>3, StartConsumePending, ConsumedIs DEF Delivered
<1>4. CASE rpc_reasm_consume
  BY <1>1, <1>4, ConsumePending, ConsumedIs DEF Delivered
<1>5. CASE \/ TestHeader \/ rpc_reasm_peek_header
           \/ \E len : NeedMore(len)
           \/ UNCHANGED vars
  <2>1. chunks' = chunks /\ stream' = stream /\ buf' = buf
        /\ (pc = "consume" <=> pc' = "consume")
    BY <1>5 DEF TestHeader, rpc_reasm_peek_header, NeedMore, TestMessage, fate, vars
  <2>2. Pending' = Pending
    BY <2>1 DEF Pending, Held, Kept
  <2> QED BY <1>1, <2>2, ConsumedIs DEF Delivered
<1> QED
  BY <1>2, <1>3, <1>4, <1>5

LEMMA BrokenStays ==
  ASSUME broken, ReasmInv, [Next]_vars
  PROVE  broken'
<1>1. broken = TRUE
  BY DEF ReasmInv, Types
<1> QED
  BY <1>1 DEF Next, OnDataStep, Send, ShortSend, MayLose, rpc_reasm_append, AppendNoMem,
     OnDataIgnored, TestHeader, rpc_reasm_peek_header, NeedMore, StartConsume, rpc_reasm_consume,
     Dispatch, fate, vars

LEMMA InitRefines ==
  ASSUME Init
  PROVE  Abstract!Init
<1>1. sent = 0 /\ out = <<>> /\ broken = FALSE /\ Pending = <<>>
  <2>1. stream = <<>> /\ chunks = <<>> /\ pc = "recv" /\ sent = 0 /\ out = <<>> /\ broken = FALSE
    BY DEF Init
  <2>2. Held = <<>>
    BY <2>1, FlatEmpty DEF Held, Kept
  <2> QED BY <2>1, <2>2 DEF Pending
<1>2. Consumed = 0
  BY <1>1, ConsumedIs
<1>3. [i \in DOMAIN out |-> NumberOf(out[i])] = <<>>
  <2>1. out \in Seq(Nat) /\ Len(out) = 0
    BY <1>1
  <2>2. DOMAIN out = {}
    BY <2>1, LenProperties
  <2>3. [i \in DOMAIN out |-> NumberOf(out[i])] \in [1 .. 0 -> Nat]
    BY <2>2
  <2>4. /\ [i \in DOMAIN out |-> NumberOf(out[i])] \in Seq(Nat)
        /\ Len([i \in DOMAIN out |-> NumberOf(out[i])]) = 0
    BY <2>3, SeqDef, LenProperties
  <2> QED BY <2>4, EmptySeq
<1>4. refused = {}
  BY DEF Init
<1> QED
  BY <1>1, <1>2, <1>3, <1>4 DEF Abstract!Init

LEMMA NextRefines ==
  ASSUME ReasmInv, [Next]_vars
  PROVE  [Abstract!Next]_(Abstract!vars)
<1>1. CASE broken'
  BY <1>1 DEF Abstract!Next
<1>2. CASE ~broken'
  <2>1. ~broken
    BY <1>2, BrokenStays
  <2>2. CASE Send
    <3>1. Consumed' = Consumed /\ Delivered' = Delivered
      BY <2>1, <2>2, SendRefines DEF Delivered, Send
    <3> QED BY <1>2, <2>1, <2>2, <3>1 DEF Abstract!Next, Abstract!Send, Delivered, Send, fate
  <2>3. CASE Dispatch
    <3>1. /\ Consumed < sent /\ Consumed' = Consumed + 1 /\ sent' = sent
          /\ keep \/ Consumed + 1 \in refused
          /\ refused' = refused
          /\ Delivered' = IF keep THEN Append(Delivered, Consumed') ELSE Delivered
      BY <2>1, <2>3, DispatchRefines DEF Dispatch, fate
    <3>2. Abstract!Deliver \/ Abstract!Skip
      BY <3>1 DEF Abstract!Deliver, Abstract!Skip, Delivered
    <3> QED BY <1>2, <2>1, <3>2 DEF Abstract!Next
  <2>4. CASE \/ \E k \in 1 .. MTU : rpc_reasm_append(k)
             \/ TestHeader \/ rpc_reasm_peek_header \/ rpc_reasm_consume
             \/ \E len : NeedMore(len)
             \/ \E len : StartConsume(len, TRUE) \/ StartConsume(len, FALSE)
             \/ UNCHANGED vars
    <3>1. /\ sent' = sent /\ Consumed' = Consumed /\ Delivered' = Delivered /\ broken' = broken
          /\ refused' = refused \/ \E len : StartConsume(len, FALSE)
      BY <2>4, OtherRefines
    <3>2. CASE refused' = refused
      BY <3>1, <3>2 DEF Abstract!vars, Delivered
    <3>3. ASSUME NEW len, StartConsume(len, FALSE) PROVE Abstract!Refuse
      <4>1. Consumed < sent /\ refused' = refused \cup {Consumed + 1}
        BY <2>1, <3>3, RefuseRefines
      <4> QED BY <3>1, <4>1 DEF Abstract!Refuse, Delivered
    <3> QED BY <1>2, <2>1, <3>1, <3>2, <3>3 DEF Abstract!Next
  <2>5. CASE \/ \E k \in 0 .. HdrLen + Max(ToSet(Lens)) : ShortSend(k)
             \/ \E k \in 1 .. MTU : AppendNoMem(k) \/ OnDataIgnored(k)
    BY <1>2, <2>5 DEF ShortSend, AppendNoMem, OnDataIgnored
  <2> QED BY <2>2, <2>3, <2>4, <2>5 DEF Next, OnDataStep
<1> QED
  BY <1>1, <1>2

(* Whatever the sizes of the pieces, rpc_on_data dispatches the messages   *)
(* sent, whole, once and in order; the ones it does not dispatch are those *)
(* heap_malloc had no memory for, until bytes of the stream are lost.      *)
THEOREM OrderedDeliveryImplemented == Spec => ImplementsOrderedDelivery
<1>1. Init => Abstract!Init
  BY InitRefines
<1>2. ReasmInv /\ [Next]_vars => [Abstract!Next]_(Abstract!vars)
  BY NextRefines
<1>3. Spec => [][Abstract!Next]_(Abstract!vars)
  BY <1>2, ReasmAlways, PTL DEF Spec
<1> QED
  BY <1>1, <1>3 DEF Spec, ImplementsOrderedDelivery, Abstract!Spec
=============================================================================
