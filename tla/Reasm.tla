------------------------------- MODULE Reasm -------------------------------
(***************************************************************************)
(* The reassembly half of rpc_on_data: a connection delivers the peer's    *)
(* bytes in pieces of any size; struct rpc_reasm keeps the pieces in a     *)
(* list of struct rpc_buf; the loop of rpc_on_data reads a header across   *)
(* them, waits for the whole message and takes it off.                     *)
(*                                                                         *)
(* A byte is <<m, o>>: the one at offset o of message m.  rpc_on_data runs *)
(* under g_rpc_lock; every iteration of its loops is a step here so that   *)
(* they can be followed across chunk boundaries.                           *)
(***************************************************************************)
EXTENDS Naturals, FiniteSetsExt, SequencesExt

CONSTANTS
  Lens,      \* Lens[m]: hdr.msg_len of the m-th message the peer sends
  HdrLen,    \* sizeof(struct rpc_header), 12 in the code
  MTU,       \* bound: bytes one receive returns
  HasRecv,   \* may t->recv be there, may it be NULL
  Faults     \* "msg" and "append": which heap_malloc may fail;
             \* "send": t->send may accept only a part

ASSUME ReasmAssumption ==
  /\ Lens \in Seq(Nat) /\ Lens # <<>>
  /\ HdrLen \in Nat \ {0}
  /\ MTU \in Nat \ {0}
  /\ HasRecv \subseteq BOOLEAN
  /\ Faults \subseteq {"msg", "append", "send"}

Msg == 1 .. Len(Lens)

(* The bytes of message m, and its header. *)
Bytes(m)  == [i \in 1 .. HdrLen + Lens[m] |-> <<m, i - 1>>]
Header(m) == SubSeq(Bytes(m), 1, HdrLen)

(* ntohl(hdr.msg_len) of the bytes h read as a header: bytes that are no   *)
(* header may hold any value (bounded by the longest message).             *)
MsgLen(h) ==
  IF \E m \in Msg : h = Header(m)
  THEN {Lens[CHOOSE m \in Msg : h = Header(m)]}
  ELSE 0 .. Max(ToSet(Lens))

(* The message these bytes begin. *)
NumberOf(bytes) == Head(bytes)[1]

VARIABLES
  has_recv,   \* t->recv # NULL
  sent,       \* messages the peer has sent
  stream,     \* bytes in the connection
  chunks,     \* reasm.head: the data of each struct rpc_buf
  total_len,  \* reasm.total_len
  pc,         \* where rpc_on_data is
  hdr, pos,   \* rpc_reasm_peek_header: bytes copied, next chunk
  need,       \* bytes of the message being consumed
  buf, keep,  \* rpc_reasm_consume: bytes taken, and is out non-NULL
  out,        \* messages dispatched
  broken,     \* history: bytes have been lost from the stream
  refused     \* history: messages heap_malloc had no memory for

fate == <<has_recv, broken, refused>>

vars == <<has_recv, sent, stream, chunks, total_len, pc, hdr, pos, need, buf, keep, out, broken, refused>>

Init ==
  /\ sent = 0 /\ stream = <<>>
  /\ chunks = <<>> /\ total_len = 0
  /\ pc = "recv"
  /\ hdr = <<>> /\ pos = 1
  /\ need = 0 /\ buf = <<>> /\ keep = FALSE
  /\ out = <<>>
  /\ has_recv \in HasRecv
  /\ broken = FALSE
  /\ refused = {}

-----------------------------------------------------------------------------
(* Bound: one loss in a behaviour; no property says more after two. *)
MayLose == ~broken

(* rpc_send_request_tlv or rpc_send_response_tlv at the peer ... *)
Send ==
  /\ sent < Len(Lens)
  /\ sent' = sent + 1
  /\ stream' = stream \o Bytes(sent + 1)
  /\ UNCHANGED <<fate, chunks, total_len, pc, hdr, pos, need, buf, keep, out>>

(* ... where a short count from t->send is no error (only r < 0 is). *)
ShortSend(k) ==
  /\ "send" \in Faults
  /\ MayLose
  /\ sent < Len(Lens)
  /\ k < HdrLen + Lens[sent + 1]
  /\ sent' = sent + 1
  /\ stream' = stream \o SubSeq(Bytes(sent + 1), 1, k)
  /\ broken' = TRUE
  /\ UNCHANGED <<has_recv, refused, chunks, total_len, pc, hdr, pos, need, buf, keep, out>>

(* k bytes arrive. *)
Arrive(k) ==
  /\ pc = "recv"
  /\ k \in 1 .. Len(stream)
  /\ stream' = SubSeq(stream, k + 1, Len(stream))
  /\ UNCHANGED <<has_recv, refused, sent, hdr, pos, need, buf, keep, out>>

(* rpc_on_data(t, data, k): lock, then rpc_reasm_append ... *)
rpc_reasm_append(k) ==
  /\ has_recv
  /\ Arrive(k)
  /\ pc' = "test"
  /\ chunks' = Append(chunks, SubSeq(stream, 1, k))
  /\ total_len' = total_len + k
  /\ UNCHANGED broken

(* ... which gives up silently when rpc_buf_alloc does. *)
AppendNoMem(k) ==
  /\ "append" \in Faults
  /\ MayLose
  /\ has_recv
  /\ Arrive(k)
  /\ pc' = "test"
  /\ broken' = TRUE
  /\ UNCHANGED <<chunks, total_len>>

(* Data for a transport without recv is not looked at. *)
OnDataIgnored(k) ==
  /\ ~has_recv
  /\ Arrive(k)
  /\ broken' = TRUE
  /\ UNCHANGED <<pc, chunks, total_len>>

(* Variants named X_... change X the way a slip in the code would; none is *)
(* part of the specification.                                              *)
TestHeader_OneMore ==
  /\ pc = "test"
  /\ pc' = IF total_len <= HdrLen THEN "recv" ELSE "peek"
  /\ hdr' = <<>>
  /\ pos' = 1
  /\ UNCHANGED <<fate, sent, stream, chunks, total_len, need, buf, keep, out>>

(* The loop: enough for a header? *)
TestHeader ==
  /\ pc = "test"
  /\ pc' = IF total_len < HdrLen THEN "recv" ELSE "peek"
  /\ hdr' = <<>>
  /\ pos' = 1
  /\ UNCHANGED <<fate, sent, stream, chunks, total_len, need, buf, keep, out>>

(* One round of rpc_reasm_peek_header. *)
Peeking == pos <= Len(chunks) /\ Len(hdr) < HdrLen

rpc_reasm_peek_header ==
  LET take == Min({HdrLen - Len(hdr), Len(chunks[pos])}) IN
  /\ pc = "peek"
  /\ Peeking
  /\ hdr' = hdr \o SubSeq(chunks[pos], 1, take)
  /\ pos' = pos + 1
  /\ UNCHANGED <<fate, sent, stream, chunks, total_len, pc, need, buf, keep, out>>

TestMessage_NoHeader(len) ==
  /\ pc = "peek"
  /\ ~Peeking
  /\ len \in MsgLen(hdr)
  /\ need' = len

(* The header is read: wait for more bytes ... *)
TestMessage(len) ==
  /\ pc = "peek"
  /\ ~Peeking
  /\ len \in MsgLen(hdr)
  /\ need' = HdrLen + len

NeedMore_Continues(len) ==
  /\ TestMessage(len)
  /\ total_len < HdrLen + len
  /\ pc' = "test"
  /\ UNCHANGED <<fate, sent, stream, chunks, total_len, hdr, pos, buf, keep, out>>

NeedMore(len) ==
  /\ TestMessage(len)
  /\ total_len < HdrLen + len
  /\ pc' = "recv"
  /\ UNCHANGED <<fate, sent, stream, chunks, total_len, hdr, pos, buf, keep, out>>

(* ... or take the message, into msg_buf or, without memory, nowhere. *)
StartConsume(len, into) ==
  /\ TestMessage(len)
  /\ total_len >= HdrLen + len
  /\ into \/ "msg" \in Faults
  /\ keep' = into
  /\ refused' = IF into THEN refused ELSE refused \cup {NumberOf(hdr)}
  /\ buf' = <<>>
  /\ pc' = "consume"
  /\ UNCHANGED <<has_recv, broken, sent, stream, chunks, total_len, hdr, pos, out>>

Consuming == chunks # <<>> /\ Len(buf) < need

(* One round of rpc_reasm_consume: a whole chunk is freed, of the last one *)
(* the rest is moved to the front.                                         *)
rpc_reasm_consume ==
  LET b    == Head(chunks)
      take == Min({Len(b), need - Len(buf)})
  IN
  /\ pc = "consume"
  /\ Consuming
  /\ buf' = buf \o SubSeq(b, 1, take)
  /\ chunks' = IF take = Len(b) THEN Tail(chunks)
               ELSE <<SubSeq(b, take + 1, Len(b))>> \o Tail(chunks)
  /\ UNCHANGED <<fate, sent, stream, total_len, pc, hdr, pos, need, keep, out>>

Dispatch_KeepsTotal ==
  /\ pc = "consume"
  /\ ~Consuming
  /\ out' = IF keep THEN Append(out, buf) ELSE out
  /\ pc' = "test"
  /\ UNCHANGED <<fate, sent, stream, chunks, total_len, hdr, pos, need, buf, keep>>

Dispatch_DropsEmpty ==
  /\ pc = "consume"
  /\ ~Consuming
  /\ total_len' = total_len - Len(buf)
  /\ out' = IF keep /\ Len(buf) > HdrLen THEN Append(out, buf) ELSE out
  /\ pc' = "test"
  /\ UNCHANGED <<fate, sent, stream, chunks, hdr, pos, need, buf, keep>>

(* rpc_dispatch_message, unless the message was dropped; loop. *)
Dispatch ==
  /\ pc = "consume"
  /\ ~Consuming
  /\ total_len' = total_len - Len(buf)
  /\ out' = IF keep THEN Append(out, buf) ELSE out
  /\ pc' = "test"
  /\ UNCHANGED <<fate, sent, stream, chunks, hdr, pos, need, buf, keep>>

OnDataStep ==
  \/ \E k \in 1 .. MTU : rpc_reasm_append(k) \/ OnDataIgnored(k)
  \/ TestHeader \/ rpc_reasm_peek_header \/ rpc_reasm_consume \/ Dispatch
  \/ \E len \in 0 .. Max(ToSet(Lens)) : NeedMore(len) \/ StartConsume(len, TRUE)

Next ==
  \/ Send
  \/ \E k \in 0 .. HdrLen + Max(ToSet(Lens)) : ShortSend(k)
  \/ \E k \in 1 .. MTU : AppendNoMem(k)
  \/ \E len \in 0 .. Max(ToSet(Lens)) : StartConsume(len, FALSE)
  \/ OnDataStep

Spec == Init /\ [][Next]_vars

(* The poll thread keeps receiving, and the peer keeps sending. *)
FairSpec == Spec /\ WF_vars(OnDataStep) /\ WF_vars(Send)

-----------------------------------------------------------------------------
(* Every variable has its type; no chunk is empty. *)
TypeOK ==
  LET Byte == Msg \X (0 .. HdrLen + Max(ToSet(Lens)) - 1) IN
  /\ sent \in 0 .. Len(Lens)
  /\ \A b \in ToSet(stream) \cup ToSet(hdr) \cup ToSet(buf) : b \in Byte
  /\ \A c \in ToSet(chunks) : c # <<>> /\ ToSet(c) \subseteq Byte
  /\ total_len \in Nat
  /\ pc \in {"recv", "test", "peek", "consume"}
  /\ pc = "peek" => pos \in 1 .. Len(chunks) + 1
  /\ need \in Nat
  /\ keep \in BOOLEAN

(* total_len counts the bytes in the list whenever it is tested, on any    *)
(* stream: the loop neither starts on bytes that are not there nor leaves  *)
(* ones that are.                                                          *)
TotalExact ==
  /\ TypeOK
  /\ pc # "consume" => total_len = Len(FlattenSeq(chunks))

(* While no byte was lost on the way, every message dispatched is one the  *)
(* peer sent, byte for byte.                                               *)
Intact == ~broken => \A i \in DOMAIN out : \E m \in 1 .. sent : out[i] = Bytes(m)

(* When rpc_on_data has returned, what it keeps is the beginning of one    *)
(* message: no complete message waits for more data to arrive.             *)
NothingWaits ==
  ~broken /\ pc = "recv" =>
    LET rest == FlattenSeq(chunks) IN
    \E m \in 1 .. Len(Lens) + 1 :
      IF m \in Msg THEN Len(rest) < HdrLen + Lens[m] /\ IsPrefix(rest, Bytes(m))
                   ELSE rest = <<>>

(* Messages taken off the connection: message m is, once its last byte is. *)
Consumed ==
  LET ahead == buf \o FlattenSeq(chunks) \o stream
      rest  == IF pc = "consume" THEN ahead ELSE FlattenSeq(chunks) \o stream
  IN  IF rest = <<>> THEN sent ELSE NumberOf(rest) - 1

Abstract == INSTANCE OrderedDelivery WITH
  Total <- Len(Lens), next <- Consumed,
  delivered <- [i \in DOMAIN out |-> NumberOf(out[i])]

(* Whatever the sizes of the pieces, rpc_on_data dispatches the messages   *)
(* sent, whole, once and in order; the ones it does not dispatch are those *)
(* for whose msg_buf heap_malloc had no memory, and that failure loses no  *)
(* other.  Nothing is promised once bytes of the stream are lost.          *)
ImplementsOrderedDelivery == Abstract!Spec

(* Every message sent is taken off the list in the end: dispatched, or     *)
(* dropped for want of memory, and never left behind in the pieces.        *)
AllTaken == <>[](broken \/ (Consumed = Len(Lens) /\ chunks = <<>>))

(* recv is optional: rpc_on_data dispatches what it is given without it.   *)
RecvOptional == <>(Len(out) = Len(Lens))
=============================================================================
